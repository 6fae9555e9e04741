---------------------------- MODULE Connections ----------------------------
(***************************************************************************)
(* Which clients have reached the MCP endpoint, and how often: the counts  *)
(* that mcp/deps.ts gathers in memory and flushes every ten seconds, the   *)
(* read-modify-write of ConnectionRepo.record, and the two ways to forget  *)
(* a row.  The names of Name are those one client goes by (clientName and  *)
(* User-Agent): they are counted apart in memory, and normalizeClientKey   *)
(* takes them to one key, so a credential has one row.                     *)
(***************************************************************************)
EXTENDS Naturals, FiniteSets, FiniteSetsExt

CONSTANTS Cred, Name, Flush,
          MaxAsked,     \* bound on the requests of one credential
          MaxRows       \* bound on the rows that are ever inserted

ASSUME ConnectionsAssumption ==
  /\ MaxAsked \in Nat /\ MaxRows \in Nat
  /\ IsFiniteSet(Name) /\ IsFiniteSet(Flush) /\ Cred # {} /\ Name # {}

VARIABLES
  credential, \* none, live or revoked
  pending,    \* requests counted in memory, by credential and name
  armed,      \* flushTimer is set
  flush,      \* each flush: where it is, what it has still to record, the row it read
  row,        \* connections: the row of a credential, id 0 when there is none
  rows,       \* rows that were ever inserted
  sweep,      \* forgetStale: where it is, the credentials it knows, the rows it listed
  asked,      \* history: requests of each credential
  excused,    \* history: what may have cost a credential some of its count
  swept       \* history: live credentials whose row a sweep removed

connectionVars == <<credential, pending, armed, flush, row, rows, sweep, asked, excused, swept>>

Source == Cred \X Name
NoneCounted == [s \in Source |-> 0]
Resting == [at |-> "idle", items |-> NoneCounted, of |-> CHOOSE s \in Source : TRUE, id |-> 0, seen |-> 0]
Unmet == [id |-> 0, count |-> 0]
Sweeping == [at |-> "idle", known |-> {}, list |-> {}, late |-> {}]

ConnectionsTypeOK ==
  /\ credential \in [Cred -> {"none", "live", "revoked"}]
  /\ pending \in [Source -> 0 .. MaxAsked] /\ armed \in BOOLEAN
  /\ flush \in [Flush -> [at : {"idle", "next", "look", "insert", "update", "back"},
                          items : [Source -> 0 .. MaxAsked], of : Source,
                          id : 0 .. MaxRows, seen : 0 .. MaxAsked]]
  /\ row \in [Cred -> [id : 0 .. MaxRows, count : 0 .. MaxAsked]] /\ rows \in 0 .. MaxRows
  /\ sweep.at \in {"idle", "rows", "each"}
  /\ asked \in [Cred -> 0 .. MaxAsked] /\ swept \subseteq Cred
  /\ excused \in [Cred -> SUBSET {"overlap", "forgotten", "crash"}]

ConnectionsInit ==
  /\ credential = [c \in Cred |-> "none"]
  /\ pending = NoneCounted /\ armed = FALSE /\ flush = [f \in Flush |-> Resting]
  /\ row = [c \in Cred |-> Unmet] /\ rows = 0 /\ sweep = Sweeping
  /\ asked = [c \in Cred |-> 0] /\ excused = [c \in Cred |-> {}] /\ swept = {}

ConnectionAt(f, place) == flush[f].at = place
Excuse(cs, why) == excused' = [c \in Cred |-> IF c \in cs THEN excused[c] \cup {why} ELSE excused[c]]

Approve(c) ==
  /\ credential[c] = "none" /\ credential' = [credential EXCEPT ![c] = "live"]
  /\ sweep' = IF sweep.at = "idle" THEN sweep ELSE [sweep EXCEPT !.late = @ \cup {c}]
  /\ UNCHANGED <<pending, armed, flush, row, rows, asked, excused, swept>>

Withdraw(c) ==
  /\ credential[c] = "live" /\ credential' = [credential EXCEPT ![c] = "revoked"]
  /\ UNCHANGED <<pending, armed, flush, row, rows, sweep, asked, excused, swept>>

\* onRequest, for a request that was let in: the count in memory, and a timer.
Ask(s) ==
  /\ credential[s[1]] = "live" /\ asked[s[1]] < MaxAsked
  /\ pending' = [pending EXCEPT ![s] = @ + 1] /\ asked' = [asked EXCEPT ![s[1]] = @ + 1]
  /\ armed' = TRUE
  /\ UNCHANGED <<credential, flush, row, rows, sweep, excused, swept>>

-----------------------------------------------------------------------------
(* flush: it takes everything and does not wait for another one *)

TakeAll(f) ==
  /\ ConnectionAt(f, "idle")
  /\ flush' = [flush EXCEPT ![f].at = "next", ![f].items = pending] /\ pending' = NoneCounted
  /\ UNCHANGED <<credential, row, rows, sweep, asked, excused, swept>>

TimerFires(f) == armed /\ TakeAll(f) /\ armed' = FALSE

\* beforeExit, with the timer still set.
ExitFlush(f) == pending # NoneCounted /\ TakeAll(f) /\ UNCHANGED armed

Items(f) == {s \in Source : flush[f].items[s] > 0}

\* Fault: a flush that has finished clears the timer.
NextItemAndTimer(f) ==
  /\ ConnectionAt(f, "next")
  /\ IF Items(f) = {} THEN flush' = [flush EXCEPT ![f] = Resting] /\ armed' = FALSE
     ELSE /\ \E s \in Items(f) : flush' = [flush EXCEPT ![f].at = "look", ![f].of = s]
          /\ UNCHANGED armed
  /\ UNCHANGED <<credential, pending, row, rows, sweep, asked, excused, swept>>

NextItem(f) ==
  /\ ConnectionAt(f, "next")
  /\ IF Items(f) = {} THEN flush' = [flush EXCEPT ![f] = Resting]
     ELSE \E s \in Items(f) : flush' = [flush EXCEPT ![f].at = "look", ![f].of = s]
  /\ UNCHANGED <<credential, pending, armed, row, rows, sweep, asked, excused, swept>>

Holder(f) == flush[f].of[1]
Writing(c) == {g \in Flush : flush[g].at \in {"insert", "update"} /\ Holder(g) = c}

LookForRow(f) ==
  LET c == Holder(f) IN
  /\ ConnectionAt(f, "look")
  /\ flush' = [flush EXCEPT ![f].at = IF row[c].id = 0 THEN "insert" ELSE "update",
                            ![f].id = row[c].id, ![f].seen = row[c].count]
  /\ Excuse(IF Writing(c) # {} THEN {c} ELSE {}, "overlap")
  /\ UNCHANGED <<credential, pending, armed, row, rows, sweep, asked, swept>>

\* One request less to record of the item, or none when a record throws.
OneRecorded(f, id) == [flush EXCEPT ![f].at = "back", ![f].id = id, ![f].items[flush[f].of] = @ - 1]
Thrown(f) == [flush EXCEPT ![f].at = "next", ![f].items[flush[f].of] = 0]

\* The unique index on shop, credential and client refuses a second row.
InsertRow(f) ==
  LET c == Holder(f) IN
  /\ ConnectionAt(f, "insert") /\ rows < MaxRows
  /\ IF row[c].id = 0
     THEN /\ rows' = rows + 1 /\ row' = [row EXCEPT ![c] = [id |-> rows + 1, count |-> 1]]
          /\ flush' = OneRecorded(f, rows + 1) /\ UNCHANGED excused
     ELSE flush' = Thrown(f) /\ Excuse({c}, "overlap") /\ UNCHANGED <<row, rows>>
  /\ UNCHANGED <<credential, pending, armed, sweep, asked, swept>>

\* Where the id is gone, nothing is updated.
UpdateRow(f) ==
  LET c == Holder(f) IN
  /\ ConnectionAt(f, "update") /\ flush' = OneRecorded(f, flush[f].id)
  /\ row' = IF row[c].id = flush[f].id THEN [row EXCEPT ![c].count = flush[f].seen + 1] ELSE row
  /\ UNCHANGED <<credential, pending, armed, rows, sweep, asked, excused, swept>>

\* getById: a row that was forgotten meanwhile is an error.
ReadBack(f) ==
  /\ ConnectionAt(f, "back")
  /\ flush' = IF row[Holder(f)].id = flush[f].id THEN [flush EXCEPT ![f].at = "next"] ELSE Thrown(f)
  /\ UNCHANGED <<credential, pending, armed, row, rows, sweep, asked, excused, swept>>

-----------------------------------------------------------------------------
(* DELETE /connections/:id and forget-stale *)

RowGone(c) == row' = [row EXCEPT ![c] = Unmet] /\ Excuse({c}, "forgotten")

Forget(c) ==
  /\ row[c].id # 0 /\ RowGone(c)
  /\ UNCHANGED <<credential, pending, armed, flush, rows, sweep, asked, swept>>

SweepBegins ==
  /\ sweep.at = "idle"
  /\ sweep' = [at |-> "rows", known |-> {c \in Cred : credential[c] = "live"}, list |-> {}, late |-> {}]
  /\ UNCHANGED <<credential, pending, armed, flush, row, rows, asked, excused, swept>>

ListRows ==
  /\ sweep.at = "rows"
  /\ sweep' = [sweep EXCEPT !.at = "each", !.list = {c \in Cred : row[c].id # 0}]
  /\ UNCHANGED <<credential, pending, armed, flush, row, rows, asked, excused, swept>>

\* A credential that came after the look at the credentials counts as unknown.
ForgetUnknown ==
  /\ sweep.at = "each"
  /\ IF sweep.list = {} THEN sweep' = Sweeping /\ UNCHANGED <<row, excused, swept>>
     ELSE \E c \in sweep.list :
            /\ sweep' = [sweep EXCEPT !.list = @ \ {c}]
            /\ IF c \notin sweep.known /\ row[c].id # 0
               THEN /\ RowGone(c)
                    /\ swept' = swept \cup (IF credential[c] = "live" THEN {c} \ sweep.late ELSE {})
               ELSE UNCHANGED <<row, excused, swept>>
  /\ UNCHANGED <<credential, pending, armed, flush, rows, asked>>

\* What was in memory, and what a flush had not recorded, is gone with the process.
ConnectionsCrash ==
  /\ pending' = NoneCounted /\ armed' = FALSE /\ flush' = [f \in Flush |-> Resting] /\ sweep' = Sweeping
  /\ Excuse({c \in Cred : \E n \in Name : pending[<<c, n>>] > 0 \/ \E f \in Flush : <<c, n>> \in Items(f)},
            "crash")
  /\ \E s \in Source : pending[s] > 0 \/ \E f \in Flush : s \in Items(f)
  /\ UNCHANGED <<credential, row, rows, asked, swept>>

FlushStep(f) == NextItem(f) \/ LookForRow(f) \/ InsertRow(f) \/ UpdateRow(f) \/ ReadBack(f)

ConnectionsNext ==
  \/ \E c \in Cred : Approve(c) \/ Withdraw(c) \/ Forget(c)
  \/ \E s \in Source : Ask(s)
  \/ \E f \in Flush : TimerFires(f) \/ ExitFlush(f) \/ FlushStep(f)
  \/ SweepBegins \/ ListRows \/ ForgetUnknown \/ ConnectionsCrash

ConnectionsSpec == ConnectionsInit /\ [][ConnectionsNext]_connectionVars
-----------------------------------------------------------------------------
(* Properties *)

Waiting(c) ==
  MapThenSumSet(LAMBDA n : pending[<<c, n>>]
                  + MapThenSumSet(LAMBDA f : flush[f].items[<<c, n>>], Flush), Name)

\* What waits in memory has a timer that will flush it, however flushes overlap.
WaitingHasTimer == pending # NoneCounted => armed

\* Every request is in the count or on its way to it, and none is in it twice,
\* except where two flushes met at one row, the row was forgotten or the process died.
CountedOnce ==
  \A c \in Cred : row[c].count + Waiting(c) = asked[c] \/ excused[c] # {}

\* A sweep keeps the row of a live credential, unless the credential came while it
\* was sweeping.
LiveRowsStay == swept = {}

\* The request counts of connected clients lose and repeat nothing but where two writers met
\* (ConnectionRepo and its flush timer).
ConnectionsSafe == ConnectionsTypeOK /\ WaitingHasTimer /\ CountedOnce /\ LiveRowsStay
=============================================================================
