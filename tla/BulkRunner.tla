----------------------------- MODULE BulkRunner -----------------------------
(***************************************************************************)
(* BulkRunner.runMutations below the bulk-operation threshold              *)
(* (packages/shopify-admin/src/bulk-runner.ts) over AdminGraphqlClient     *)
(* (client.ts): workers share a list of items and send one mutation for    *)
(* each, the client retries what was not executed, the runner retries what *)
(* the client calls retryable, and a checkpoint is stored after each item  *)
(* so that a run that died can be resumed.  A request reaches Shopify, and *)
(* is executed there or not, before the client learns anything of it.      *)
(***************************************************************************)
EXTENDS Naturals, FiniteSets

CONSTANTS Item, Worker,
          NoItem,
          MaxAttempts,  \* maxAttemptsPerItem of the runner
          ClientRetries,   \* maxRetries of the client
          MaxStarts,     \* bound: how often runMutations is called
          MaxKills      \* bound: how often its process dies

ASSUME BulkAssumption ==
  /\ NoItem \notin Item /\ Worker # {}
  /\ MaxAttempts \in Nat \ {0} /\ ClientRetries \in Nat
  /\ MaxStarts \in Nat /\ MaxKills \in Nat

VARIABLES
  phase,     \* the run: "idle", "running", "returned" or "dead"
  queue,     \* items no worker has taken
  place, item,  \* each worker: where it is, and its item
  attempt,   \* the runner's attempts at that item, this one included
  retry,     \* the client's retries of this attempt
  executed,  \* whether Shopify executed the request that is out
  applied,   \* Shopify: how often each item's mutation was executed
  good, bad, \* the run's checkpoint: how often it reports each item succeeded, failed
  saved,     \* the checkpoint in the store
  landing,   \* each worker's checkpoint on its way to the store
  excuses,   \* history: 5xx answers each item got
  overwritten, \* history: how often an older copy of the checkpoint took each item out of
             \* the store
  starts, kills

worker == <<place, item, attempt, retry, executed, landing>>
checkpoint == <<good, bad>>
histories == <<excuses, overwritten, starts, kills>>
bulkVars == <<phase, queue, worker, applied, checkpoint, saved, histories>>

Report == [Item -> Nat]
None == [i \in Item |-> 0]
Nothing == [good |-> None, bad |-> None]
Checkpoint == [good : Report, bad : Report]
Processed(c) == {i \in Item : c.good[i] + c.bad[i] > 0}

BulkTypeOK ==
  /\ phase \in {"idle", "running", "returned", "dead"}
  /\ queue \in SUBSET Item
  /\ place \in [Worker -> {"off", "take", "send", "out", "thrown", "store", "landing", "end"}]
  /\ item \in [Worker -> Item \cup {NoItem}]
  /\ attempt \in [Worker -> 0 .. MaxAttempts]
  /\ retry \in [Worker -> 0 .. ClientRetries]
  /\ executed \in [Worker -> BOOLEAN]
  /\ applied \in Report /\ good \in Report /\ bad \in Report
  /\ excuses \in Report /\ overwritten \in Report
  /\ saved \in Checkpoint /\ landing \in [Worker -> Checkpoint]
  /\ starts \in 0 .. MaxStarts /\ kills \in 0 .. MaxKills

Each(x) == [w \in Worker |-> x]

BulkInit ==
  /\ phase = "idle" /\ queue = {}
  /\ place = Each("off") /\ item = Each(NoItem) /\ attempt = Each(0) /\ retry = Each(0)
  /\ executed = Each(FALSE) /\ landing = Each(Nothing)
  /\ applied = None /\ good = None /\ bad = None
  /\ excuses = None /\ overwritten = None
  /\ saved = Nothing
  /\ starts = 0 /\ kills = 0

MoveWorker(w, from, to) == place[w] = from /\ place' = [place EXCEPT ![w] = to]

-----------------------------------------------------------------------------
(* The run *)

ResumeAll == Item   \* fault: the stored checkpoint is not subtracted

Pending == Item \ Processed(saved)

\* runMutations starts from the stored checkpoint: the first time, after a crash, or
\* again with the same items after it returned.
BeginRun ==
  /\ phase # "running"
  /\ starts < MaxStarts /\ starts' = starts + 1
  /\ phase' = IF Pending = {} THEN "returned" ELSE "running"
  /\ queue' = Pending
  /\ good' = saved.good /\ bad' = saved.bad
  /\ place' = [w \in Worker |-> IF Pending = {} THEN "off" ELSE "take"]
  /\ UNCHANGED <<item, attempt, retry, executed, landing, applied, saved, excuses,
                 overwritten, kills>>

Take(w, i) ==
  /\ i \in queue
  /\ MoveWorker(w, "take", "send")
  /\ queue' = queue \ {i}
  /\ item' = [item EXCEPT ![w] = i]
  /\ attempt' = [attempt EXCEPT ![w] = 1]
  /\ retry' = [retry EXCEPT ![w] = 0]
  /\ UNCHANGED <<phase, executed, landing, applied, checkpoint, saved, histories>>

TakeNothing(w) ==
  /\ queue = {}
  /\ MoveWorker(w, "take", "end")
  /\ UNCHANGED <<phase, queue, item, attempt, retry, executed, landing, applied, checkpoint,
                 saved, histories>>

Return ==
  /\ phase = "running" /\ \A w \in Worker : place[w] = "end"
  /\ phase' = "returned"
  /\ UNCHANGED <<queue, worker, applied, checkpoint, saved, histories>>
-----------------------------------------------------------------------------
(* AdminGraphqlClient.execute *)

\* The POST: Shopify executes the mutation, or the request does not get that far.
SendMutation(w) ==
  /\ MoveWorker(w, "send", "out")
  /\ \/ /\ executed' = [executed EXCEPT ![w] = TRUE]
        /\ applied' = [applied EXCEPT ![item[w]] = @ + 1]
     \/ /\ executed' = [executed EXCEPT ![w] = FALSE]
        /\ UNCHANGED applied
  /\ UNCHANGED <<phase, queue, item, attempt, retry, landing, checkpoint, saved, histories>>

\* Fault: a 429 is answered by sending again, and nobody counts.
RateLimitedUncounted(w) ==
  /\ MoveWorker(w, "out", "send") /\ ~executed[w]
  /\ UNCHANGED <<phase, queue, item, attempt, retry, executed, landing, applied, checkpoint,
                 saved, histories>>

\* 429: not executed, so the client sends it again.
RateLimited(w) ==
  /\ place[w] = "out" /\ ~executed[w]
  /\ IF retry[w] < ClientRetries
     THEN /\ place' = [place EXCEPT ![w] = "send"]
          /\ retry' = [retry EXCEPT ![w] = @ + 1]
     ELSE place' = [place EXCEPT ![w] = "thrown"] /\ UNCHANGED retry
  /\ UNCHANGED <<phase, queue, item, attempt, executed, landing, applied, checkpoint, saved,
                 histories>>

\* 5xx: the client does not send a mutation again, but throws a retryable error.
ServerError(w) ==
  /\ MoveWorker(w, "out", "thrown")
  /\ excuses' = [excuses EXCEPT ![item[w]] = @ + 1]
  /\ UNCHANGED <<phase, queue, item, attempt, retry, executed, landing, applied, checkpoint,
                 saved, overwritten, starts, kills>>
-----------------------------------------------------------------------------
(* runOne *)

Succeeds(w) ==
  /\ good' = [good EXCEPT ![item[w]] = @ + 1]
  /\ UNCHANGED bad

Fails(w) ==
  /\ bad' = [bad EXCEPT ![item[w]] = @ + 1]
  /\ UNCHANGED good

Unmoved == <<phase, queue, item, landing, applied, saved, histories>>

Succeed(w) ==
  /\ MoveWorker(w, "out", "store")
  /\ executed[w]
  /\ Succeeds(w)
  /\ UNCHANGED <<Unmoved, attempt, retry, executed>>

\* userErrors, or GraphQL errors, which the client throws as not retryable.
Rejected(w) ==
  /\ MoveWorker(w, "out", "store")
  /\ ~executed[w]
  /\ Fails(w)
  /\ UNCHANGED <<Unmoved, attempt, retry, executed>>

\* Fault: a dropped connection is answered by sending the mutation again.
SendAgain(w) ==
  /\ MoveWorker(w, "out", "send")
  /\ UNCHANGED <<Unmoved, attempt, retry, executed, checkpoint>>

\* The connection drops: executed or not, the client throws what is not retryable.
Dropped(w) ==
  /\ MoveWorker(w, "out", "store")
  /\ Fails(w)
  /\ UNCHANGED <<Unmoved, attempt, retry, executed>>

TryAgain(w) ==
  /\ MoveWorker(w, "thrown", "send")
  /\ attempt[w] < MaxAttempts
  /\ attempt' = [attempt EXCEPT ![w] = @ + 1]
  /\ retry' = [retry EXCEPT ![w] = 0]
  /\ UNCHANGED <<Unmoved, executed, checkpoint>>

GiveUp(w) ==
  /\ MoveWorker(w, "thrown", "store")
  /\ attempt[w] = MaxAttempts
  /\ Fails(w)
  /\ UNCHANGED <<Unmoved, attempt, retry, executed>>

\* checkpoint.set is called with a copy, and arrives later: two workers' copies
\* may arrive in either order.  The worker is done with its item.
Store(w) ==
  /\ MoveWorker(w, "store", "landing")
  /\ landing' = [landing EXCEPT ![w] = [good |-> good, bad |-> bad]]
  /\ item' = [item EXCEPT ![w] = NoItem]
  /\ attempt' = [attempt EXCEPT ![w] = 0] /\ retry' = [retry EXCEPT ![w] = 0]
  /\ executed' = [executed EXCEPT ![w] = FALSE]
  /\ UNCHANGED <<phase, queue, applied, checkpoint, saved, histories>>

Land(w) ==
  /\ MoveWorker(w, "landing", "take")
  /\ saved' = landing[w]
  /\ landing' = [landing EXCEPT ![w] = Nothing]
  /\ overwritten' = [i \in Item |->
       overwritten[i] + IF i \in Processed(saved) \ Processed(landing[w]) THEN 1 ELSE 0]
  /\ UNCHANGED <<phase, queue, item, attempt, retry, executed, applied, checkpoint, excuses,
                 starts, kills>>

\* The process dies; requests that are out stay executed, the store stays as it is.
RunDies ==
  /\ kills < MaxKills /\ kills' = kills + 1
  /\ phase = "running" /\ phase' = "dead"
  /\ queue' = {} /\ good' = None /\ bad' = None
  /\ place' = Each("off") /\ item' = Each(NoItem) /\ attempt' = Each(0) /\ retry' = Each(0)
  /\ executed' = Each(FALSE) /\ landing' = Each(Nothing)
  /\ UNCHANGED <<applied, saved, excuses, overwritten, starts>>

WorkerStep(w) ==
  \/ \E i \in Item : Take(w, i)
  \/ TakeNothing(w) \/ SendMutation(w)
  \/ Succeed(w) \/ Rejected(w) \/ RateLimited(w) \/ ServerError(w) \/ Dropped(w)
  \/ TryAgain(w) \/ GiveUp(w) \/ Store(w) \/ Land(w)

BulkNext == BeginRun \/ Return \/ (\E w \in Worker : WorkerStep(w)) \/ RunDies

BulkSpec == BulkInit /\ [][BulkNext]_bulkVars

\* The event loop, and a Shopify that answers or drops the connection.
FairBulkSpec == BulkSpec /\ WF_bulkVars(Return) /\ \A w \in Worker : WF_bulkVars(WorkerStep(w))
-----------------------------------------------------------------------------
(* Properties *)

\* However often runMutations is called with the same items, an item's mutation is
\* executed again only for a reason: a 5xx answer the runner retried, a crash before its
\* checkpoint was stored, or another worker's older checkpoint that landed after its own.
\* A dropped connection, a 429 and a resumed run never repeat a commercial action.
NoReplayWithoutExcuse ==
  \A i \in Item : applied[i] <= 1 + excuses[i] + kills + overwritten[i]

\* What a run, or the checkpoint it left behind, reports as succeeded was executed.
SucceededWasApplied ==
  \A i \in Item : good[i] > 0 \/ saved.good[i] > 0 => applied[i] > 0

\* Every item is reported once: a run that returns has each of them among the
\* succeeded or the failed, also when it was resumed.
ReportedOnce ==
  /\ \A i \in Item : good[i] + bad[i] <= 1
  /\ phase = "returned" => \A i \in Item : good[i] + bad[i] = 1

\* A run ends: it returns, or the process dies.
RunEnds == phase = "running" ~> phase \in {"returned", "dead"}

\* client.ts:102: "A mutation that reached Shopify must never be replayed on an
\* ambiguous failure (5xx / dropped connection)".
NeverReplayed == \A i \in Item : applied[i] <= 1 + kills

\* What a run says of its items is true: nothing is booked as succeeded that was not executed,
\* and every item is booked once (runBulk and the checkpoint it leaves).
BulkSafe == BulkTypeOK /\ SucceededWasApplied /\ ReportedOnce
=============================================================================
