---------------------------- MODULE ThemeRollback ----------------------------
(***************************************************************************)
(* RollbackService (packages/ledger/src/rollback.ts): undoing an operation *)
(* from the before-images or the snapshot the ledger kept, while merchants *)
(* and tools go on editing the same files.  A "file" stands for any        *)
(* resource a change names: a theme file, a product, a menu.  Contents are *)
(* compared as the code compares fingerprints.  Strategy "files" is        *)
(* ledger_before_image.  inverse_operation is split by what it does to the *)
(* kind of resource: "resource" (products, collections, pages, articles,   *)
(* menus, variants), "metafield", "redirect" (those and all that is never  *)
(* looked at: products taken from a collection, webhooks, pixels,          *)
(* inventory, markets, locales, translations, prices, discounts), and      *)
(* "order" and "customer", whose notes may be null: Missing stands for it. *)
(***************************************************************************)
EXTENDS Naturals, FiniteSets

CONSTANTS File, Content,
          Op,           \* operations of tools that write
          Rollback,     \* executions of RollbackService.execute
          Missing,      \* in place of a content: no such file
          NoOp, NoRollback, NoFile,
          Strategies,   \* the strategies the operations may name
          MaxEdits,     \* bound: edits made outside this server
          MaxDeaths    \* bound

InverseKinds == {"resource", "metafield", "redirect", "order", "customer"}
LookedAt == {"files", "resource", "metafield", "order"}  \* compared before an update
Recreated == {"resource", "redirect"}   \* a deleted one is made anew
NullKept == {"order", "customer"}       \* null is sent as undefined

ASSUME RollbackAssumption ==
  /\ Missing \notin Content /\ NoOp \notin Op /\ NoRollback \notin Rollback
  /\ NoFile \notin File
  /\ Strategies \subseteq {"files", "snapshot"} \cup InverseKinds
  /\ MaxEdits \in Nat /\ MaxDeaths \in Nat

VARIABLES
  file,      \* the store: what each file holds
  status,    \* each operation: "none", "pending", its ledger status, or "lost"
  info,      \* what its row will say: strategy, the files it changed, the
             \* fingerprinted ones among them, the images before, the content after
  by,        \* the rollback the row of a rolled back operation names
  at, row,   \* each rollback: where it is, and the status of its own row
  job,       \* its operation, and whether it is forced and prunes
  todo,      \* the files it has still to verify or to write
  current,   \* the resource an inverse rollback has verified and not yet written
  warned, refused,  \* it recorded a warning; it met a FINGERPRINT_MISMATCH
  wrote, touched,   \* history: files it wrote, and files others changed since it
                    \* looked at them
  edits, deaths

opVars == <<status, info, by>>
rbVars == <<at, row, job, todo, current, warned, refused>>
rollbackVars == <<file, opVars, rbVars, wrote, touched, edits, deaths>>

Stored == Content \cup {Missing}

NoInfo == [strategy |-> "none", changed |-> {}, marked |-> {},
           image |-> [f \in File |-> Missing], after |-> Missing]
Info == [strategy : Strategies \cup {"none"}, changed : SUBSET File,
         marked : SUBSET File, image : [File -> Stored], after : Stored]
NoJob == [op |-> NoOp, force |-> FALSE, prune |-> FALSE]
Job == [op : Op \cup {NoOp}, force : BOOLEAN, prune : BOOLEAN]

RollbackTypeOK ==
  /\ file \in [File -> Stored]
  /\ status \in [Op -> {"none", "pending", "succeeded", "rolled_back", "lost"}]
  /\ info \in [Op -> Info]
  /\ by \in [Op -> Rollback \cup {NoRollback}]
  /\ at \in [Rollback -> {"idle", "verify", "write", "delete", "change", "list", "extras",
                          "finish", "mark", "fail", "done", "lost"}]
  /\ row \in [Rollback -> {"none", "pending", "succeeded", "failed"}]
  /\ job \in [Rollback -> Job]
  /\ todo \in [Rollback -> SUBSET File]
  /\ current \in [Rollback -> File \cup {NoFile}]
  /\ warned \in [Rollback -> BOOLEAN] /\ refused \in [Rollback -> BOOLEAN]
  /\ wrote \in [Rollback -> SUBSET File] /\ touched \in [Rollback -> SUBSET File]
  /\ edits \in 0 .. MaxEdits /\ deaths \in 0 .. MaxDeaths

RollbackInit ==
  /\ file \in [File -> Stored]
  /\ status = [o \in Op |-> "none"] /\ info = [o \in Op |-> NoInfo]
  /\ by = [o \in Op |-> NoRollback]
  /\ at = [r \in Rollback |-> "idle"] /\ row = [r \in Rollback |-> "none"]
  /\ job = [r \in Rollback |-> NoJob] /\ todo = [r \in Rollback |-> {}]
  /\ current = [r \in Rollback |-> NoFile]
  /\ warned = [r \in Rollback |-> FALSE] /\ refused = [r \in Rollback |-> FALSE]
  /\ wrote = [r \in Rollback |-> {}] /\ touched = [r \in Rollback |-> {}]
  /\ edits = 0 /\ deaths = 0

\* Somebody who is not a rollback gives new contents to files.
Outside(new) ==
  /\ file' = new
  /\ touched' = [r \in Rollback |-> touched[r] \cup {f \in File : new[f] # file[f]}]

\* Rollback r gives f the contents v.
Put(r, f, v) ==
  /\ file' = [file EXCEPT ![f] = v]
  /\ wrote' = [wrote EXCEPT ![r] = @ \cup {f}]
  /\ touched' = [s \in Rollback |->
                   IF s # r /\ file[f] # v THEN touched[s] \cup {f} ELSE touched[s]]

Edit(f, v) ==
  /\ edits < MaxEdits /\ edits' = edits + 1
  /\ v # file[f]
  /\ Outside([file EXCEPT ![f] = v])
  /\ UNCHANGED <<opVars, rbVars, wrote, deaths>>
-----------------------------------------------------------------------------
(* A tool that writes: it reads the before-images, awaits, writes, and its row
   gets the changes.  The working-theme writer of tools-fallback.ts records no
   fingerprint; the interface lets other tools do so (marked). *)

ToolReads(o, s, fs, m) ==
  /\ status[o] = "none"
  /\ fs # {} /\ m \subseteq fs
  /\ status' = [status EXCEPT ![o] = "pending"]
  /\ info' = [info EXCEPT ![o] = [strategy |-> s, changed |-> fs, marked |-> m,
                                  image |-> file, after |-> Missing]]
  /\ UNCHANGED <<file, by, rbVars, wrote, touched, edits, deaths>>

ToolWrites(o, v) ==
  /\ status[o] = "pending"
  /\ \A f \in info[o].changed : info[o].image[f] # v
  /\ Outside([f \in File |-> IF f \in info[o].changed THEN v ELSE file[f]])
  /\ status' = [status EXCEPT ![o] = "succeeded"]
  /\ info' = [info EXCEPT ![o].after = v]
  /\ UNCHANGED <<by, rbVars, wrote, edits, deaths>>

-----------------------------------------------------------------------------
(* The changes an operation recorded *)

Created(o, f) == info[o].image[f] = Missing
Deleted(o) == info[o].after = Missing

Target(r) == job[r].op

\* Fault: compares with the image it is about to restore.
MatchesImage(r, f) == file[f] = info[Target(r)].image[f]

Matches(r, f) == file[f] = info[Target(r)].after

\* Whether the code looks at f before it overwrites it.  The inverse of a creation
\* deletes, and the inverse of a deletion recreates, without a look.
Checks(r, f) ==
  LET o == Target(r)
  IN  /\ f \in info[o].marked
      /\ info[o].strategy \in LookedAt
      /\ info[o].strategy \in {"files", "resource"} => ~Deleted(o)
      /\ info[o].strategy \in {"resource", "metafield"} => ~Created(o, f)

\* What f may hold when its change has been undone.  A null field is left as it is.  A
\* resource made anew gets another id and what the code carries over: an article is a
\* draft, a collection has neither handle nor products.
Undone(r, f) ==
  LET o == Target(r)
  IN  CASE info[o].strategy \in NullKept /\ Created(o, f) -> {file[f]}
        [] info[o].strategy \in Recreated /\ Deleted(o) -> Content
        [] OTHER -> {info[o].image[f]}

Acceptable(r, f) == Checks(r, f) /\ ~job[r].force => Matches(r, f)
-----------------------------------------------------------------------------
(* plan() and execute() *)

Available(o) ==
  /\ status[o] \in {"succeeded", "rolled_back"}  \* the row has its rollback column
  /\ info[o].strategy = "snapshot" \/ info[o].changed # {}

\* The row's status is not looked at: an operation may be rolled back again.  Only
\* snapshots read pruneExtras, and only the others read force.
Start(r, o, force, prune) ==
  /\ at[r] = "idle" /\ Available(o)
  /\ IF info[o].strategy = "snapshot" THEN ~force ELSE ~prune
  /\ at' = [at EXCEPT ![r] = CASE info[o].strategy = "files" -> "verify"
                               [] info[o].strategy = "snapshot" -> "write"
                               [] OTHER -> "change"]
  /\ row' = [row EXCEPT ![r] = "pending"]
  /\ job' = [job EXCEPT ![r] = [op |-> o, force |-> force, prune |-> prune]]
  /\ todo' = [todo EXCEPT ![r] =
                IF info[o].strategy = "snapshot"
                THEN {f \in File : info[o].image[f] # Missing}
                ELSE info[o].changed]
  /\ touched' = [touched EXCEPT ![r] = {}]
  /\ UNCHANGED <<file, opVars, current, warned, refused, wrote, edits, deaths>>

MoveOn(r, from, to) == at[r] = from /\ at' = [at EXCEPT ![r] = to]

\* ledger_before_image, first pass: every change is verified.
Verify(r, f) ==
  /\ at[r] = "verify" /\ f \in todo[r]
  /\ Acceptable(r, f)
  /\ todo' = [todo EXCEPT ![r] = @ \ {f}]
  /\ touched' = [touched EXCEPT ![r] = @ \ {f}]
  /\ UNCHANGED <<file, opVars, at, row, job, current, warned, refused, wrote, edits, deaths>>

Mismatch(r, f) ==
  /\ at[r] \in {"verify", "change"} /\ f \in todo[r] /\ current[r] = NoFile
  /\ ~Acceptable(r, f)
  /\ at' = [at EXCEPT ![r] = "fail"]
  /\ refused' = [refused EXCEPT ![r] = TRUE]
  /\ UNCHANGED <<file, opVars, row, job, todo, current, warned, wrote, touched, edits, deaths>>

EndVerify(r) ==
  /\ MoveOn(r, "verify", "write") /\ todo[r] = {}
  /\ todo' = [todo EXCEPT ![r] = {f \in info[Target(r)].changed : ~Created(Target(r), f)}]
  /\ UNCHANGED <<file, opVars, row, job, current, warned, refused, wrote, touched, edits, deaths>>

Restore(r, f) ==
  /\ at[r] \in {"write", "delete", "extras"} /\ f \in todo[r]
  /\ todo' = [todo EXCEPT ![r] = @ \ {f}]
  /\ Put(r, f, info[Target(r)].image[f])
  /\ UNCHANGED <<opVars, at, row, job, current, warned, refused, edits, deaths>>

\* Fault: the engine's error list is not looked at.
SkipSilently(r, f) ==
  /\ at[r] \in {"write", "delete", "extras"} /\ f \in todo[r]
  /\ todo' = [todo EXCEPT ![r] = @ \ {f}]
  /\ UNCHANGED <<file, opVars, at, row, job, current, warned, refused, wrote, touched,
                 edits, deaths>>

\* The engine reports an error for f: a warning, and on to the next.  So is a change
\* without a before-image, or of a kind that has no inverse.
RestoreFails(r, f) ==
  /\ at[r] \in {"write", "delete", "extras", "change"} /\ f \in todo[r]
  /\ current[r] = NoFile
  /\ todo' = [todo EXCEPT ![r] = @ \ {f}]
  /\ warned' = [warned EXCEPT ![r] = TRUE]
  /\ UNCHANGED <<file, opVars, at, row, job, current, refused, wrote, touched, edits, deaths>>

\* The engine throws instead of reporting, and the rollback fails half way; or one of
\* the two last statements throws; or the caller passed no client for the strategy, and
\* it fails at once.
EngineThrows(r) ==
  /\ \/ at[r] \in {"verify", "write", "delete", "list", "extras", "finish", "mark"}
     \/ at[r] = "change" /\ todo[r] = info[Target(r)].changed /\ current[r] = NoFile
  /\ at' = [at EXCEPT ![r] = "fail"]
  /\ UNCHANGED <<file, opVars, row, job, todo, current, warned, refused, wrote, touched,
                 edits, deaths>>

\* ledger_before_image, after the writes: files the operation created go.
EndWrites(r) ==
  /\ at[r] = "write" /\ todo[r] = {}
  /\ IF info[Target(r)].strategy = "files"
     THEN /\ MoveOn(r, "write", "delete")
          /\ todo' = [todo EXCEPT ![r] = {f \in info[Target(r)].changed : Created(Target(r), f)}]
     ELSE MoveOn(r, "write", "list") /\ UNCHANGED todo
  /\ UNCHANGED <<file, opVars, row, job, current, warned, refused, wrote, touched, edits, deaths>>

EndDeletes(r) ==
  /\ todo[r] = {}
  /\ MoveOn(r, "delete", "finish") \/ MoveOn(r, "extras", "finish")
  /\ UNCHANGED <<file, opVars, row, job, todo, current, warned, refused, wrote, touched,
                 edits, deaths>>

\* snapshot: files that are not in the snapshot are deleted or warned about.
ListExtras(r) ==
  LET extras == {f \in File : file[f] # Missing /\ info[Target(r)].image[f] = Missing}
  IN  /\ at[r] = "list"
      /\ IF job[r].prune
         THEN /\ MoveOn(r, "list", "extras")
              /\ todo' = [todo EXCEPT ![r] = extras]
              /\ UNCHANGED warned
         ELSE /\ MoveOn(r, "list", "finish")
              /\ warned' = [warned EXCEPT ![r] = @ \/ extras # {}]
              /\ UNCHANGED todo
      /\ touched' = [touched EXCEPT ![r] = @ \ extras]
      /\ UNCHANGED <<file, opVars, row, job, current, refused, wrote, edits, deaths>>

\* inverse_operation: each change is verified and written before the next.
VerifyChange(r, f) ==
  /\ at[r] = "change" /\ f \in todo[r] /\ current[r] = NoFile
  /\ Acceptable(r, f)
  /\ current' = [current EXCEPT ![r] = f]
  /\ touched' = [touched EXCEPT ![r] = @ \ {f}]
  /\ UNCHANGED <<file, opVars, at, row, job, todo, warned, refused, wrote, edits, deaths>>

RestoreChange(r) ==
  /\ at[r] = "change" /\ current[r] # NoFile
  /\ \E v \in Undone(r, current[r]) : Put(r, current[r], v)
  /\ todo' = [todo EXCEPT ![r] = @ \ {current[r]}]
  /\ current' = [current EXCEPT ![r] = NoFile]
  /\ UNCHANGED <<opVars, at, row, job, warned, refused, edits, deaths>>

\* Shopify answers with userErrors, or the call throws: a warning.
RestoreChangeFails(r) ==
  /\ at[r] = "change" /\ current[r] # NoFile
  /\ warned' = [warned EXCEPT ![r] = TRUE]
  /\ todo' = [todo EXCEPT ![r] = @ \ {current[r]}]
  /\ current' = [current EXCEPT ![r] = NoFile]
  /\ UNCHANGED <<file, opVars, at, row, job, refused, wrote, touched, edits, deaths>>

\* Fault: changes of which one failed are not brought to an end.
EndCleanChanges(r) ==
  /\ todo[r] = {} /\ ~warned[r]
  /\ MoveOn(r, "change", "finish")
  /\ UNCHANGED <<file, opVars, row, job, todo, current, warned, refused, wrote, touched,
                 edits, deaths>>

EndChanges(r) ==
  /\ todo[r] = {}
  /\ MoveOn(r, "change", "finish")
  /\ UNCHANGED <<file, opVars, row, job, todo, current, warned, refused, wrote, touched,
                 edits, deaths>>

\* The rollback's own row, then the row of the operation.
FinishRow(r) ==
  /\ MoveOn(r, "finish", "mark")
  /\ row' = [row EXCEPT ![r] = "succeeded"]
  /\ UNCHANGED <<file, opVars, job, todo, current, warned, refused, wrote, touched, edits, deaths>>

\* Fault: the operation is marked before the rollback's own row is finished.
MarkFirst(r) ==
  /\ at[r] \in {"finish", "mark"}
  /\ at[r] = "finish" => status[Target(r)] # "rolled_back"
  /\ at' = [at EXCEPT ![r] = IF at[r] = "mark" THEN "done" ELSE at[r]]
  /\ status' = [status EXCEPT ![Target(r)] = "rolled_back"]
  /\ by' = [by EXCEPT ![Target(r)] = r]
  /\ UNCHANGED <<file, info, row, job, todo, current, warned, refused, wrote, touched,
                 edits, deaths>>

MarkOriginal(r) ==
  /\ MoveOn(r, "mark", "done")
  /\ status' = [status EXCEPT ![Target(r)] = "rolled_back"]
  /\ by' = [by EXCEPT ![Target(r)] = r]
  /\ UNCHANGED <<file, info, row, job, todo, current, warned, refused, wrote, touched,
                 edits, deaths>>

FailRow(r) ==
  /\ MoveOn(r, "fail", "done")
  /\ row' = [row EXCEPT ![r] = "failed"]
  /\ UNCHANGED <<file, opVars, job, todo, current, warned, refused, wrote, touched, edits, deaths>>

RollbackCrash ==
  /\ deaths < MaxDeaths /\ deaths' = deaths + 1
  /\ at' = [r \in Rollback |-> IF at[r] \in {"idle", "done"} THEN at[r] ELSE "lost"]
  /\ status' = [o \in Op |-> IF status[o] = "pending" THEN "lost" ELSE status[o]]
  /\ UNCHANGED <<file, info, by, row, job, todo, current, warned, refused, wrote, touched, edits>>

RollbackStep(r) ==
  \/ \E f \in File : \/ Verify(r, f) \/ Mismatch(r, f) \/ Restore(r, f) \/ RestoreFails(r, f)
                     \/ VerifyChange(r, f)
  \/ EndVerify(r) \/ EndWrites(r) \/ EndDeletes(r) \/ EngineThrows(r) \/ ListExtras(r)
  \/ RestoreChange(r) \/ RestoreChangeFails(r) \/ EndChanges(r)
  \/ FinishRow(r) \/ MarkOriginal(r) \/ FailRow(r)

RollbackNext ==
  \/ \E f \in File, v \in Stored : Edit(f, v)
  \/ \E o \in Op : \/ \E s \in Strategies, fs, m \in SUBSET File : ToolReads(o, s, fs, m)
                   \/ \E v \in Stored : ToolWrites(o, v)
  \/ \E r \in Rollback : \/ \E o \in Op, force, prune \in BOOLEAN : Start(r, o, force, prune)
                         \/ RollbackStep(r)
  \/ RollbackCrash

RollbackSpec == RollbackInit /\ [][RollbackNext]_rollbackVars

\* The event loop and the upstream answers, good or bad, keep a rollback going.
FairRollbackSpec == RollbackSpec /\ \A r \in Rollback : WF_rollbackVars(RollbackStep(r))
-----------------------------------------------------------------------------
(* Properties *)

\* A rollback of before-images that meets an edited file refuses as a whole: the
\* files it had already accepted are left alone too (executeLedgerBeforeImage
\* verifies every change before it writes any).
RefusedWritesNothing ==
  \A r \in Rollback :
    refused[r] /\ info[Target(r)].strategy = "files" => wrote[r] = {}

\* Without force, a fingerprinted resource of a kind the code compares is overwritten
\* only while it holds what the operation left there, unless somebody changed it after
\* the look.  (Redirects and the other kinds outside LookedAt are overwritten
\* unseen, though the comment of executeInverseOperation promises a refusal for them.)
NoBlindOverwrite ==
  [][\A r \in Rollback, f \in File :
       /\ f \in wrote'[r] \ wrote[r]
       /\ Checks(r, f) /\ ~job[r].force
       => file[f] = info[Target(r)].after \/ f \in touched[r]]_rollbackVars

\* f is as it was before the operation, but for a resource that had to be made anew,
\* which is there again, and a field that was null.
AsBefore(r, f) ==
  LET o == Target(r)
  IN  \/ file[f] = info[o].image[f]
      \/ info[o].strategy \in Recreated /\ Deleted(o) /\ file[f] # Missing
      \/ info[o].strategy \in NullKept /\ Created(o, f)

\* A rollback that is booked as succeeded without a warning did restore every file
\* nobody has changed since: the changed ones, or with a snapshot all of them, the
\* ones that should not exist included.
CleanSuccessRestores ==
  \A r \in Rollback :
    row[r] = "succeeded" /\ ~warned[r] =>
      \A f \in (IF info[Target(r)].strategy = "snapshot" THEN File
                 ELSE info[Target(r)].changed) \ touched[r] : AsBefore(r, f)

\* An operation is shown as rolled back only by a rollback of that operation whose
\* own row says it succeeded, wherever the server crashed in between.
MarkedByASuccess ==
  \A o \in Op : status[o] = "rolled_back" =>
    /\ by[o] # NoRollback
    /\ Target(by[o]) = o /\ row[by[o]] = "succeeded"

\* A rollback that was started ends, and one that succeeded gets its operation
\* marked or is booked as failed after all, unless the server dies first.
RollbackEnds ==
  \A r \in Rollback :
    /\ at[r] # "idle" ~> at[r] \in {"done", "lost"}
    /\ row[r] = "succeeded" ~>
         at[r] = "lost" \/ row[r] = "failed" \/ \E o \in Op : o = Target(r) /\ status[o] = "rolled_back"

\* What the ledger says of a rollback is true of the store: one that refused has written
\* nothing, and an operation is marked by a rollback of its own that succeeded.
RollbackSafe == RollbackTypeOK /\ RefusedWritesNothing /\ MarkedByASuccess
=============================================================================
