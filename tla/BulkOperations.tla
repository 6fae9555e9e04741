--------------------------- MODULE BulkOperations ---------------------------
(***************************************************************************)
(* BulkRunner.runMutations above the bulk-operation threshold: the lines   *)
(* that are not in the checkpoint are staged and uploaded, Shopify runs    *)
(* them as one operation, the runner polls the shop's current operation,   *)
(* downloads its results and reads them off by position                    *)
(* (packages/shopify-admin/src/bulk-runner.ts, operations/bulk.ts).  A     *)
(* shop has one current operation; runs of several callers share it.  Any  *)
(* call may throw and the process may die at any await, also when Shopify  *)
(* has taken the operation already (client.ts asks no mutation again).     *)
(***************************************************************************)
EXTENDS Naturals, FiniteSets

CONSTANTS Run,       \* runs of the shop, each with lines of its own
          Lines,     \* lines of a run
          MaxAgain,  \* bound: how often a run is started again
          NoRun

ASSUME BulkOperationsAssumption ==
  Lines \in Nat \ {0} /\ MaxAgain \in Nat /\ NoRun \notin Run

VARIABLES
  bulkStep,  \* each run: where it is
  report,    \* its checkpoint in memory: lines good and bad
  stored,    \* its checkpoint in the store
  current,   \* Shopify: the shop's current operation
  final,     \* the operation whose results each run takes for its own
  ran,       \* Shopify: how often each line of each run took effect
  unsaved,   \* history: an attempt ended with its operation taken and no checkpoint
  again      \* how often each run was started again

operationVars == <<bulkStep, report, stored, current, final, ran, unsaved, again>>

Line == 1 .. Lines
Outcome == {"ok", "rejected"}
Ended == {"completed", "failed"}
NoOp == [of |-> NoRun, status |-> "none", outcome |-> <<>>]
Empty == [good |-> {}, bad |-> {}]
BulkReport == [good : SUBSET Line, bad : SUBSET Line]
Operation == [of : Run \cup {NoRun}, status : {"none", "running"} \cup Ended,
              outcome : UNION {[1 .. n -> Outcome] : n \in 0 .. Lines}]

BulkOperationsTypeOK ==
  /\ bulkStep \in [Run -> {"idle", "staging", "uploading", "starting", "taken", "polling", "reading",
                           "downloading", "storing", "returned", "thrown"}]
  /\ report \in [Run -> BulkReport] /\ stored \in [Run -> BulkReport]
  /\ current \in Operation /\ final \in [Run -> Operation]
  /\ ran \in [Run -> [Line -> 0 .. MaxAgain + 1]]
  /\ unsaved \in [Run -> BOOLEAN] /\ again \in [Run -> 0 .. MaxAgain]

BulkOperationsInit ==
  /\ bulkStep = [r \in Run |-> "idle"]
  /\ report = [r \in Run |-> Empty] /\ stored = [r \in Run |-> Empty]
  /\ current = NoOp /\ final = [r \in Run |-> NoOp]
  /\ ran = [r \in Run |-> [l \in Line |-> 0]]
  /\ unsaved = [r \in Run |-> FALSE] /\ again = [r \in Run |-> 0]

Done(c) == c.good \cup c.bad

\* Fault: the stored checkpoint is not looked at.
WholeUpload(r) == Line
Upload(r) == Line \ Done(stored[r])

\* The n-th line of the upload is the n-th line that the checkpoint lacks.
Position(r, l) == LET left == Upload(r) IN
  IF l \in left THEN Cardinality({n \in left : n <= l}) ELSE 0

Move(r, from, to) == bulkStep[r] = from /\ bulkStep' = [bulkStep EXCEPT ![r] = to]

-----------------------------------------------------------------------------
(* The runner *)

\* runMutations, and a further call of it with the same checkpoint after one that ended.
BeginBulk(r) ==
  /\ bulkStep[r] \in {"idle", "thrown", "returned"}
  /\ bulkStep[r] # "idle" => again[r] < MaxAgain
  /\ again' = [again EXCEPT ![r] = IF bulkStep[r] = "idle" THEN 0 ELSE @ + 1]
  /\ bulkStep' = [bulkStep EXCEPT ![r] = IF Upload(r) = {} THEN "returned" ELSE "staging"]
  /\ report' = [report EXCEPT ![r] = stored[r]]
  /\ final' = IF Upload(r) = {} THEN final ELSE [final EXCEPT ![r] = NoOp]
  /\ UNCHANGED <<stored, current, ran, unsaved>>

\* Every line that was to run is reported failed, and no checkpoint is stored.
ReportAllFailed(r) ==
  report' = [report EXCEPT ![r].bad = @ \cup Upload(r)]

Stage(r) ==
  /\ \/ Move(r, "staging", "uploading") /\ UNCHANGED report
     \/ Move(r, "staging", "returned") /\ ReportAllFailed(r)
  /\ UNCHANGED <<stored, current, final, ran, unsaved, again>>

UploadLines(r) ==
  /\ Move(r, "uploading", "starting")
  /\ UNCHANGED <<report, stored, current, final, ran, unsaved, again>>

\* Shopify takes the operation, unless one is running; the answer is on its way.
TakeOperation(r) ==
  /\ current.status # "running"
  /\ Move(r, "starting", "taken")
  /\ current' = [of |-> r, status |-> "running", outcome |-> <<>>]
  /\ UNCHANGED <<report, stored, final, ran, unsaved, again>>

\* The answer: an operation that has ended by now need not be polled for.
StartOperation(r) ==
  /\ \/ Move(r, "taken", "polling")
     \/ ~(current.of = r /\ current.status = "running") /\ Move(r, "taken", "reading")
  /\ UNCHANGED <<report, stored, current, final, ran, unsaved, again>>

\* pollBulkOperation: the shop's current operation ended, whoever started it.
Poll(r) ==
  /\ current.status \in Ended /\ Move(r, "polling", "reading")
  /\ UNCHANGED <<report, stored, current, final, ran, unsaved, again>>

\* The current operation is asked for once more, and taken for this run's.  The shop may
\* know of none, and one that did not complete, or has no url, fails every line.
ReadOperation(r) ==
  /\ \E op \in {current, NoOp} :
       /\ final' = [final EXCEPT ![r] = op]
       /\ \/ /\ op.status = "completed" /\ Move(r, "reading", "downloading")
             /\ UNCHANGED <<report, unsaved>>
          \/ /\ Move(r, "reading", "returned") /\ ReportAllFailed(r)
             /\ unsaved' = [unsaved EXCEPT ![r] = TRUE]
  /\ UNCHANGED <<stored, current, ran, again>>

LineSucceeded(r, l) ==
  /\ Position(r, l) \in DOMAIN final[r].outcome
  /\ final[r].outcome[Position(r, l)] = "ok"

ReadResults(r) ==
  /\ Move(r, "downloading", "storing")
  /\ report' = [report EXCEPT
       ![r].good = @ \cup {l \in Upload(r) : LineSucceeded(r, l)},
       ![r].bad = @ \cup {l \in Upload(r) : ~LineSucceeded(r, l)}]
  /\ UNCHANGED <<stored, current, final, ran, unsaved, again>>

StoreCheckpoint(r) ==
  /\ Move(r, "storing", "returned")
  /\ stored' = [stored EXCEPT ![r] = report[r]]
  /\ UNCHANGED <<report, current, final, ran, unsaved, again>>

\* A call throws, or the process dies: the upload is refused, the start is refused, never
\* arrives or loses its answer, the deadline of the poll passes, the download breaks off, the
\* checkpoint is not stored, or it is and the answer is lost.
AttemptThrows(r) ==
  /\ bulkStep[r] \notin {"idle", "returned", "thrown"}
  /\ bulkStep' = [bulkStep EXCEPT ![r] = "thrown"]
  /\ unsaved' = [unsaved EXCEPT ![r] = @ \/ bulkStep[r] \notin {"staging", "uploading", "starting"}]
  /\ \/ UNCHANGED stored
     \/ bulkStep[r] = "storing" /\ stored' = [stored EXCEPT ![r] = report[r]]
  /\ UNCHANGED <<report, current, final, ran, again>>

-----------------------------------------------------------------------------
(* Shopify *)

\* How often each line of a run took effect, once an operation for it has this outcome.
Executed(r, outcome) ==
  [l \in Line |-> IF Position(r, l) \in DOMAIN outcome /\ outcome[Position(r, l)] = "ok"
                  THEN ran[r][l] + 1 ELSE ran[r][l]]

\* The operation runs its lines: all of them, or those before it failed or was cancelled.
RunLines ==
  /\ current.status = "running"
  /\ LET size == Cardinality(Upload(current.of))
     IN \E n \in 0 .. size, status \in Ended :
          \E outcome \in [1 .. n -> Outcome] :
            /\ status = "completed" => n = size
            /\ current' = [current EXCEPT !.status = status, !.outcome = outcome]
            /\ ran' = [ran EXCEPT ![current.of] = Executed(current.of, outcome)]
  /\ UNCHANGED <<bulkStep, report, stored, final, unsaved, again>>

-----------------------------------------------------------------------------
BulkOperationsNext ==
  \/ \E r \in Run :
       \/ BeginBulk(r) \/ Stage(r) \/ UploadLines(r) \/ TakeOperation(r) \/ StartOperation(r)
       \/ Poll(r) \/ ReadOperation(r) \/ ReadResults(r) \/ StoreCheckpoint(r) \/ AttemptThrows(r)
  \/ RunLines

BulkOperationsSpec == BulkOperationsInit /\ [][BulkOperationsNext]_operationVars

-----------------------------------------------------------------------------
(* Properties *)

\* A line reported good took effect, unless the operation that was current when the run
\* asked for its results was another run's: operations are not told apart by their id.
GoodLineRan ==
  \A r \in Run : final[r].of \in {r, NoRun} =>
    \A l \in report[r].good : ran[r][l] > 0

\* A line takes effect twice only where an earlier attempt of its run ended after Shopify
\* had taken its operation, with no checkpoint stored: what is stored is never run again, and
\* no attempt starts its operation twice.
TwiceOnlyUnsaved ==
  \A r \in Run, l \in Line : ran[r][l] > 1 => unsaved[r]

\* A run that returned has reported each of its lines, and none both good and bad.
EveryLineReported ==
  \A r \in Run : bulkStep[r] = "returned" =>
    /\ Done(report[r]) = Line
    /\ report[r].good \cap report[r].bad = {}

\* What a bulk operation reports of its lines is true of the store (runBulkOperation).
BulkOperationsSafe == BulkOperationsTypeOK /\ GoodLineRan /\ TwiceOnlyUnsaved /\ EveryLineReported
=============================================================================
