------------------------------ MODULE Memories ------------------------------
(***************************************************************************)
(* One memory and its version history: MemoryRepo of packages/storage/src/ *)
(* repos.ts under the routes of api/admin.ts and the memory service of     *)
(* mcp/execute.ts.  A save is three or four statements, a delete two, a    *)
(* restore a read followed by a save, with no transaction around them:     *)
(* calls interleave at every statement, and the server may die at any.     *)
(* A memory's name, type and body are one text; each save brings its own.  *)
(***************************************************************************)
EXTENDS Naturals, FiniteSets

CONSTANTS Call,     \* requests: each saves, deletes or restores the memory
          Seed,     \* the text of a memory that is there from the start
          Nothing,
          Keep      \* MAX_MEMORY_VERSIONS

ASSUME MemoriesAssumption ==
  /\ IsFiniteSet(Call) /\ Seed \notin Call /\ Nothing \notin Call \cup {Seed}
  /\ Keep \in Nat \ {0}

VARIABLES
  memory,   \* the row of memories: version (0: no row), text, and whether a shop owns it
  history,  \* the rows of memory_versions: the text of each version, or Nothing
  pc, kind, \* each call: where it is, and what it does
  text,     \* the text a call writes
  target,   \* the version a restore asks for
  shop,     \* whether a call knows the memory's shop
  version,  \* the version a call writes, one more than it read
  cutoff,   \* the newest version its retention removes
  answer,   \* "none", "ok", "not_found" or "error"
  wiped,    \* history: calls whose version row was there when a delete, or a
            \* retention older than a delete, removed rows
  died      \* the server has been restarted

memoryVars == <<memory, history, pc, kind, text, target, shop, version, cutoff, answer, wiped, died>>

Text == Call \cup {Seed}
Version == 1 .. Cardinality(Call) + 1
Row == [version : Version \cup {0}, text : Text \cup {Nothing}, owned : BOOLEAN]
NoRow == [version |-> 0, text |-> Nothing, owned |-> FALSE]
Recorded == {v \in Version : history[v] # Nothing}

MemoriesTypeOK ==
  /\ memory \in Row
  /\ history \in [Version -> Text \cup {Nothing}]
  /\ pc \in [Call -> {"idle", "own", "pick", "shop", "get", "insert", "update", "record",
                      "count", "trim", "wipe", "drop", "end"}]
  /\ kind \in [Call -> {"none", "save", "restore", "delete"}]
  /\ text \in [Call -> Text \cup {Nothing}]
  /\ target \in [Call -> Version \cup {0}]
  /\ shop \in [Call -> BOOLEAN]
  /\ version \in [Call -> Version \cup {0}]
  /\ cutoff \in [Call -> Version \cup {0}]
  /\ answer \in [Call -> {"none", "ok", "not_found", "error"}]
  /\ wiped \in SUBSET Call /\ died \in BOOLEAN

MemoriesInit ==
  /\ memory \in {NoRow, [version |-> 1, text |-> Seed, owned |-> TRUE]}
  /\ history = [v \in Version |-> IF v = 1 THEN memory.text ELSE Nothing]
  /\ pc = [c \in Call |-> "idle"] /\ kind = [c \in Call |-> "none"]
  /\ text = [c \in Call |-> Nothing] /\ target = [c \in Call |-> 0]
  /\ shop = [c \in Call |-> TRUE]
  /\ version = [c \in Call |-> 0] /\ cutoff = [c \in Call |-> 0]
  /\ answer = [c \in Call |-> "none"]
  /\ wiped = {} /\ died = FALSE

Goto(c, from, to) == pc[c] = from /\ pc' = [pc EXCEPT ![c] = to]
Answer(c, with) == answer' = [answer EXCEPT ![c] = with]
End(c, from, with) == Goto(c, from, "end") /\ Answer(c, with)

-----------------------------------------------------------------------------
(* The callers *)

\* commerce.memory.save passes its id on unchecked; PUT /memory/:id looks first.
BeginSave(c) ==
  /\ pc[c] = "idle"
  /\ \E at \in {"own", "get"} : pc' = [pc EXCEPT ![c] = at]
  /\ kind' = [kind EXCEPT ![c] = "save"] /\ text' = [text EXCEPT ![c] = c]
  /\ UNCHANGED <<memory, history, target, shop, version, cutoff, answer, wiped, died>>

BeginDelete(c) ==
  /\ Goto(c, "idle", "own")
  /\ kind' = [kind EXCEPT ![c] = "delete"]
  /\ UNCHANGED <<memory, history, text, target, shop, version, cutoff, answer, wiped, died>>

BeginRestore(c, v) ==
  /\ Goto(c, "idle", "own")
  /\ kind' = [kind EXCEPT ![c] = "restore"] /\ target' = [target EXCEPT ![c] = v]
  /\ UNCHANGED <<memory, history, text, shop, version, cutoff, answer, wiped, died>>

\* requireOwnedMemory, and the like check of the memory service.
Own(c) ==
  /\ pc[c] = "own"
  /\ IF memory.owned
     THEN /\ pc' = [pc EXCEPT ![c] = CASE kind[c] = "save" -> "get"
                                       [] kind[c] = "delete" -> "wipe"
                                       [] kind[c] = "restore" -> "pick"]
          /\ UNCHANGED answer
     ELSE End(c, "own", "not_found")
  /\ UNCHANGED <<memory, history, kind, text, target, shop, version, cutoff, wiped, died>>
-----------------------------------------------------------------------------
(* MemoryRepo.save *)

Get(c) ==
  /\ Goto(c, "get", IF memory.version = 0 THEN "insert" ELSE "update")
  /\ version' = [version EXCEPT ![c] = memory.version + 1]
  /\ UNCHANGED <<memory, history, kind, text, target, shop, cutoff, answer, wiped, died>>

\* memory_id is the primary key: the second of two inserts throws.
Insert(c) ==
  /\ IF memory.version = 0
     THEN /\ Goto(c, "insert", "record")
          /\ memory' = [version |-> 1, text |-> text[c], owned |-> shop[c]]
          /\ UNCHANGED answer
     ELSE End(c, "insert", "error") /\ UNCHANGED memory
  /\ UNCHANGED <<history, kind, text, target, shop, version, cutoff, wiped, died>>

\* Unconditional, and without a row it changes nothing.
Update(c) ==
  /\ Goto(c, "update", "record")
  /\ memory' = IF memory.version = 0 THEN memory
               ELSE [memory EXCEPT !.version = version[c], !.text = text[c]]
  /\ UNCHANGED <<history, kind, text, target, shop, version, cutoff, answer, wiped, died>>

\* Fault: writeVersion replaces a row that is there.
RecordOver(c) ==
  /\ Goto(c, "record", "count")
  /\ history' = [history EXCEPT ![version[c]] = text[c]]
  /\ UNCHANGED <<memory, kind, text, target, shop, version, cutoff, answer, wiped, died>>

\* writeVersion: (memory_id, version) is the primary key, so a second row throws.
Record(c) ==
  /\ pc[c] = "record"
  /\ IF version[c] \in Recorded
     THEN End(c, "record", "error") /\ UNCHANGED history
     ELSE /\ Goto(c, "record", "count")
          /\ history' = [history EXCEPT ![version[c]] = text[c]]
          /\ UNCHANGED answer
  /\ UNCHANGED <<memory, kind, text, target, shop, version, cutoff, wiped, died>>

NewerThan(v) == {w \in Recorded : w > v}

\* versions[MAX_MEMORY_VERSIONS] of the list sorted newest first.
CutOff == {v \in Recorded : Cardinality(NewerThan(v)) = Keep}

Count(c) ==
  /\ pc[c] = "count"
  /\ IF Cardinality(Recorded) > Keep
     THEN /\ Goto(c, "count", "trim")
          /\ \E v \in CutOff : cutoff' = [cutoff EXCEPT ![c] = v]
          /\ UNCHANGED answer
     ELSE End(c, "count", "ok") /\ UNCHANGED cutoff
  /\ UNCHANGED <<memory, history, kind, text, target, shop, version, wiped, died>>

\* Calls that have written their version row.
Recorders == {c \in Call : pc[c] \in {"count", "trim", "end"}}

Trim(c) ==
  /\ End(c, "trim", "ok")
  /\ history' = [v \in Version |-> IF v <= cutoff[c] THEN Nothing ELSE history[v]]
  /\ wiped' = IF c \in wiped THEN wiped \cup Recorders ELSE wiped
  /\ UNCHANGED <<memory, kind, text, target, shop, version, cutoff, died>>
-----------------------------------------------------------------------------
(* MemoryRepo.delete *)

Wipe(c) ==
  /\ Goto(c, "wipe", "drop")
  /\ history' = [v \in Version |-> Nothing]
  /\ wiped' = wiped \cup Recorders
  /\ UNCHANGED <<memory, kind, text, target, shop, version, cutoff, answer, died>>

Drop(c) ==
  /\ End(c, "drop", IF memory.version = 0 THEN "not_found" ELSE "ok")
  /\ memory' = NoRow
  /\ UNCHANGED <<history, kind, text, target, shop, version, cutoff, wiped, died>>
-----------------------------------------------------------------------------
(* MemoryRepo.restore *)

Pick(c) ==
  /\ pc[c] = "pick"
  /\ IF target[c] \in Recorded
     THEN /\ Goto(c, "pick", "shop")
          /\ text' = [text EXCEPT ![c] = history[target[c]]]
          /\ UNCHANGED answer
     ELSE End(c, "pick", "not_found") /\ UNCHANGED text
  /\ UNCHANGED <<memory, history, kind, target, shop, version, cutoff, wiped, died>>

\* The shop is asked for after the version was read: a memory deleted in between
\* has none, and Insert then makes a memory that belongs to no shop.
Shop(c) ==
  /\ Goto(c, "shop", "get")
  /\ shop' = [shop EXCEPT ![c] = memory.owned]
  /\ UNCHANGED <<memory, history, kind, text, target, version, cutoff, answer, wiped, died>>

\* The server dies: every request in progress is gone, and nobody answers it.
MemoriesCrash ==
  /\ ~died /\ died' = TRUE
  /\ pc' = [c \in Call |-> IF pc[c] = "idle" THEN "idle" ELSE "end"]
  /\ UNCHANGED <<memory, history, kind, text, target, shop, version, cutoff, answer, wiped>>

Step(c) ==
  \/ BeginSave(c) \/ BeginDelete(c) \/ (\E v \in Version : BeginRestore(c, v))
  \/ Own(c) \/ Get(c) \/ Insert(c) \/ Update(c) \/ Record(c) \/ Count(c) \/ Trim(c)
  \/ Wipe(c) \/ Drop(c) \/ Pick(c) \/ Shop(c)

MemoriesNext == (\E c \in Call : Step(c)) \/ MemoriesCrash

MemoriesSpec == MemoriesInit /\ [][MemoriesNext]_memoryVars
-----------------------------------------------------------------------------
(* Properties *)

Saved(c) == answer[c] = "ok" /\ kind[c] \in {"save", "restore"}

\* A save that answered ok can be restored: its text is in the history under the
\* version it answered, or Keep newer ones are there instead, unless a delete, or
\* a retention that had counted before a delete, came after it.  Two saves that
\* read the same row never share a version, and retention that counted before
\* another save wrote removes nothing too new.
AckedSaveInHistory ==
  \A c \in Call : Saved(c) /\ c \notin wiped =>
    \/ history[version[c]] = text[c]
    \/ Cardinality(NewerThan(version[c])) >= Keep

\* The history is bounded although each save counts and trims on its own: what it
\* holds beyond Keep was written by saves that have not trimmed yet, or never will.
HistoryBounded ==
  Cardinality(Recorded) <=
    Keep + Cardinality({c \in Call : pc[c] \in {"count", "trim"}
                                     \/ (pc[c] = "end" /\ answer[c] = "none")})

\* The history of a memory keeps what was answered, and no more than it is to keep (MemoryRepo).
MemoriesSafe == MemoriesTypeOK /\ AckedSaveInHistory /\ HistoryBounded
=============================================================================
