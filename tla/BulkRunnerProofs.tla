--------------------------- MODULE BulkRunnerProofs ---------------------------
(***************************************************************************)
(* Theorems about BulkRunner, for any items, any number of workers,        *)
(* attempts and retries, and any number of faults and deaths, and about    *)
(* AdminCalls, for any budget of query cost and any number of retries;     *)
(* and about BulkOperations, for any runs that share a shop.               *)
(***************************************************************************)
EXTENDS BulkRunner, AdminCalls, BulkOperations, FiniteSetTheorems, TLAPS

\* What the code knows to have repeated an item's mutation, or to have lost sight of it.
Reasons(i) == excuses[i] + kills + overwritten[i]

InHand(w) == place[w] \in {"send", "out", "thrown"}

\* A worker that has an item in hand is alone in reporting it, and knows how much
\* of what happened to it has an excuse.
WorkerInv(w) ==
  /\ InHand(w) =>
       /\ item[w] \in Item \ queue
       /\ good[item[w]] + bad[item[w]] = 0
  /\ place[w] \in {"send", "thrown"} \/ (place[w] = "out" /\ ~executed[w]) =>
       applied[item[w]] <= Reasons(item[w])
  /\ place[w] = "out" /\ executed[w] => applied[item[w]] > 0
  /\ place[w] = "end" => queue = {}
  /\ phase = "running" => place[w] # "off"
  /\ phase # "running" => place[w] \in {"off", "end"}

OneHolder == \A v, w \in Worker : InHand(v) /\ InHand(w) /\ item[v] = item[w] => v = w

\* A checkpoint, wherever it is, reports an item once, and as succeeded only if it was executed.
Sound(c) ==
  \A i \in Item : c.good[i] + c.bad[i] <= 1 /\ (c.good[i] > 0 => applied[i] > 0)

\* An item of the run waits, is in one worker's hand or has been reported; what was
\* lost with a run that died is excused by its death.
ItemInv(i) ==
  /\ good[i] + bad[i] <= 1
  /\ good[i] > 0 => applied[i] > 0
  /\ applied[i] <= 1 + Reasons(i)
  /\ phase \in {"idle", "dead"} => applied[i] <= Reasons(i)
  /\ phase = "running" /\ i \in queue => good[i] + bad[i] = 0 /\ applied[i] <= Reasons(i)
  /\ phase = "running" /\ i \notin queue /\ (\A w \in Worker : InHand(w) => item[w] # i) =>
       good[i] + bad[i] = 1
  /\ phase = "returned" => good[i] + bad[i] = 1

\* An item that was reported is in the store, or somebody is about to store it, or it was
\* taken out of the store by an older copy.
StoredInv(i) ==
  phase \in {"running", "returned"} /\ good[i] + bad[i] = 1 =>
    \/ i \in Processed(saved)
    \/ applied[i] <= Reasons(i)
    \/ \E w \in Worker : place[w] = "store" /\ item[w] = i
    \/ \E w \in Worker : place[w] = "landing" /\ i \in Processed(landing[w])

\* The inductive invariant of BulkRunner.
BulkInv ==
  /\ BulkTypeOK
  /\ \A w \in Worker : WorkerInv(w)
  /\ OneHolder
  /\ \A i \in Item : ItemInv(i) /\ StoredInv(i)
  /\ Sound(saved) /\ \A w \in Worker : Sound(landing[w])
-----------------------------------------------------------------------------
\* Before the first run nothing is queued, executed or reported.
LEMMA BulkInitInv == BulkInit => BulkInv
  BY BulkAssumption DEF BulkInit, BulkInv, Reasons, StoredInv, Each, Nothing, BulkTypeOK, WorkerInv, InHand, OneHolder, Sound, ItemInv,
     None, Report, Checkpoint

\* Every step keeps every variable in its type.
LEMMA BulkTypeStep ==
  ASSUME BulkInv, [BulkNext]_bulkVars
  PROVE  BulkTypeOK'
<1>. USE BulkAssumption DEF BulkInv, BulkTypeOK, Reasons, Each, Nothing, None, Report, Checkpoint, WorkerInv, InHand
<1>1. CASE BeginRun
  BY <1>1 DEF BeginRun, Pending, Processed, worker, checkpoint, histories
<1>2. CASE Return
  BY <1>2 DEF Return, worker, checkpoint, histories
<1>3. ASSUME NEW w \in Worker, NEW i \in Item, Take(w, i) PROVE BulkTypeOK'
  BY <1>3 DEF Take, MoveWorker, worker, checkpoint, histories
<1>4. ASSUME NEW w \in Worker, TakeNothing(w) PROVE BulkTypeOK'
  BY <1>4 DEF TakeNothing, MoveWorker, worker, checkpoint, histories
<1>5. ASSUME NEW w \in Worker, SendMutation(w) PROVE BulkTypeOK'
  <2>0. item[w] \in Item
    BY <1>5 DEF SendMutation, MoveWorker, worker, checkpoint, histories
  <2>1. CASE /\ executed' = [executed EXCEPT ![w] = TRUE]
             /\ applied' = [applied EXCEPT ![item[w]] = @ + 1]
    BY <1>5, <2>0, <2>1 DEF SendMutation, MoveWorker, worker, checkpoint, histories
  <2>2. CASE /\ executed' = [executed EXCEPT ![w] = FALSE]
             /\ UNCHANGED applied
    BY <1>5, <2>2 DEF SendMutation, MoveWorker, worker, checkpoint, histories
  <2>. QED
    BY <1>5, <2>1, <2>2 DEF SendMutation
<1>6. ASSUME NEW w \in Worker, Succeed(w) PROVE BulkTypeOK'
  BY <1>6 DEF Succeed, MoveWorker, Succeeds, Unmoved, worker, checkpoint, histories
<1>7. ASSUME NEW w \in Worker, Rejected(w) PROVE BulkTypeOK'
  BY <1>7 DEF Rejected, MoveWorker, Fails, Unmoved, worker, checkpoint, histories
<1>8. ASSUME NEW w \in Worker, RateLimited(w) PROVE BulkTypeOK'
  <2>1. CASE retry[w] < ClientRetries
    <3>1. retry[w] \in 0 .. ClientRetries /\ retry[w] + 1 \in 0 .. ClientRetries
      BY <2>1
    <3>2. place' = [place EXCEPT ![w] = "send"] /\ retry' = [retry EXCEPT ![w] = retry[w] + 1]
      BY <1>8, <2>1 DEF RateLimited
    <3>. QED
      BY <1>8, <3>1, <3>2 DEF RateLimited, worker, checkpoint, histories
  <2>2. CASE ~(retry[w] < ClientRetries)
    BY <1>8, <2>2 DEF RateLimited, worker, checkpoint, histories
  <2>. QED
    BY <2>1, <2>2
<1>9. ASSUME NEW w \in Worker, ServerError(w) PROVE BulkTypeOK'
  BY <1>9 DEF ServerError, MoveWorker, worker, checkpoint, histories
<1>10. ASSUME NEW w \in Worker, Dropped(w) PROVE BulkTypeOK'
  BY <1>10 DEF Dropped, MoveWorker, Fails, Unmoved, worker, checkpoint, histories
<1>11. ASSUME NEW w \in Worker, TryAgain(w) PROVE BulkTypeOK'
  BY <1>11 DEF TryAgain, MoveWorker, Unmoved, worker, checkpoint, histories
<1>12. ASSUME NEW w \in Worker, GiveUp(w) PROVE BulkTypeOK'
  BY <1>12 DEF GiveUp, MoveWorker, Fails, Unmoved, worker, checkpoint, histories
<1>13. ASSUME NEW w \in Worker, Store(w) PROVE BulkTypeOK'
  BY <1>13 DEF Store, MoveWorker, worker, checkpoint, histories
<1>14. ASSUME NEW w \in Worker, Land(w) PROVE BulkTypeOK'
  BY <1>14 DEF Land, MoveWorker, worker, checkpoint, histories
<1>15. CASE RunDies
  BY <1>15 DEF RunDies, worker, checkpoint, histories
<1>16. CASE UNCHANGED bulkVars
  BY <1>16 DEF bulkVars, worker, checkpoint, histories
<1>. QED
  BY <1>1, <1>2, <1>3, <1>4, <1>5, <1>6, <1>7, <1>8, <1>9, <1>10, <1>11, <1>12, <1>13, <1>14,
     <1>15, <1>16 DEF BulkNext, WorkerStep

\* No two workers come to have one item in hand: it leaves the queue when it is taken.
LEMMA OneHolderStep ==
  ASSUME BulkInv, [BulkNext]_bulkVars
  PROVE  OneHolder'
<1>. USE DEF BulkInv, BulkTypeOK, Reasons, Each, Nothing, None, WorkerInv, InHand, OneHolder
<1>1. CASE BeginRun
  BY <1>1 DEF BeginRun, Pending, Processed, worker, checkpoint, histories
<1>2. CASE Return
  BY <1>2 DEF Return, worker, checkpoint, histories
<1>3. ASSUME NEW w \in Worker, NEW i \in Item, Take(w, i) PROVE OneHolder'
  BY <1>3 DEF Take, MoveWorker, worker, checkpoint, histories
<1>4. ASSUME NEW w \in Worker, TakeNothing(w) PROVE OneHolder'
  BY <1>4 DEF TakeNothing, MoveWorker, worker, checkpoint, histories
<1>5. ASSUME NEW w \in Worker, SendMutation(w) PROVE OneHolder'
  BY <1>5 DEF SendMutation, MoveWorker, worker, checkpoint, histories
<1>6. ASSUME NEW w \in Worker, Succeed(w) PROVE OneHolder'
  BY <1>6 DEF Succeed, MoveWorker, Succeeds, Unmoved, worker, checkpoint, histories
<1>7. ASSUME NEW w \in Worker, Rejected(w) PROVE OneHolder'
  BY <1>7 DEF Rejected, MoveWorker, Fails, Unmoved, worker, checkpoint, histories
<1>8. ASSUME NEW w \in Worker, RateLimited(w) PROVE OneHolder'
  BY <1>8 DEF RateLimited, worker, checkpoint, histories
<1>9. ASSUME NEW w \in Worker, ServerError(w) PROVE OneHolder'
  BY <1>9 DEF ServerError, MoveWorker, worker, checkpoint, histories
<1>10. ASSUME NEW w \in Worker, Dropped(w) PROVE OneHolder'
  BY <1>10 DEF Dropped, MoveWorker, Fails, Unmoved, worker, checkpoint, histories
<1>11. ASSUME NEW w \in Worker, TryAgain(w) PROVE OneHolder'
  BY <1>11 DEF TryAgain, MoveWorker, Unmoved, worker, checkpoint, histories
<1>12. ASSUME NEW w \in Worker, GiveUp(w) PROVE OneHolder'
  BY <1>12 DEF GiveUp, MoveWorker, Fails, Unmoved, worker, checkpoint, histories
<1>13. ASSUME NEW w \in Worker, Store(w) PROVE OneHolder'
  BY <1>13 DEF Store, MoveWorker, worker, checkpoint, histories
<1>14. ASSUME NEW w \in Worker, Land(w) PROVE OneHolder'
  BY <1>14 DEF Land, MoveWorker, worker, checkpoint, histories
<1>15. CASE RunDies
  BY <1>15 DEF RunDies, worker, checkpoint, histories
<1>16. CASE UNCHANGED bulkVars
  BY <1>16 DEF bulkVars, worker, checkpoint, histories
<1>. QED
  BY <1>1, <1>2, <1>3, <1>4, <1>5, <1>6, <1>7, <1>8, <1>9, <1>10, <1>11, <1>12, <1>13, <1>14,
     <1>15, <1>16 DEF BulkNext, WorkerStep

\* Every step keeps a worker's place in line with its item and the queue.
LEMMA WorkerStepInv ==
  ASSUME BulkInv, [BulkNext]_bulkVars, NEW v \in Worker
  PROVE  WorkerInv(v)'
<1>. USE DEF BulkInv, BulkTypeOK, Reasons, Each, Nothing, None, Report, Checkpoint, WorkerInv, InHand, OneHolder, ItemInv
<1>1. CASE BeginRun
  BY <1>1 DEF BeginRun, Pending, Processed, worker, checkpoint, histories
<1>2. CASE Return
  BY <1>2 DEF Return, worker, checkpoint, histories
<1>3. ASSUME NEW w \in Worker, NEW i \in Item, Take(w, i) PROVE WorkerInv(v)'
  BY <1>3 DEF Take, MoveWorker, worker, checkpoint, histories
<1>4. ASSUME NEW w \in Worker, TakeNothing(w) PROVE WorkerInv(v)'
  BY <1>4 DEF TakeNothing, MoveWorker, worker, checkpoint, histories
<1>5. ASSUME NEW w \in Worker, SendMutation(w) PROVE WorkerInv(v)'
  BY <1>5 DEF SendMutation, MoveWorker, worker, checkpoint, histories
<1>6. ASSUME NEW w \in Worker, Succeed(w) PROVE WorkerInv(v)'
  BY <1>6 DEF Succeed, MoveWorker, Succeeds, Unmoved, worker, checkpoint, histories
<1>7. ASSUME NEW w \in Worker, Rejected(w) PROVE WorkerInv(v)'
  BY <1>7 DEF Rejected, MoveWorker, Fails, Unmoved, worker, checkpoint, histories
<1>8. ASSUME NEW w \in Worker, RateLimited(w) PROVE WorkerInv(v)'
  BY ZenonT(40), <1>8 DEF RateLimited, worker, checkpoint, histories
<1>9. ASSUME NEW w \in Worker, ServerError(w) PROVE WorkerInv(v)'
  BY <1>9 DEF ServerError, MoveWorker, worker, checkpoint, histories
<1>10. ASSUME NEW w \in Worker, Dropped(w) PROVE WorkerInv(v)'
  BY <1>10 DEF Dropped, MoveWorker, Fails, Unmoved, worker, checkpoint, histories
<1>11. ASSUME NEW w \in Worker, TryAgain(w) PROVE WorkerInv(v)'
  BY <1>11 DEF TryAgain, MoveWorker, Unmoved, worker, checkpoint, histories
<1>12. ASSUME NEW w \in Worker, GiveUp(w) PROVE WorkerInv(v)'
  BY <1>12 DEF GiveUp, MoveWorker, Fails, Unmoved, worker, checkpoint, histories
<1>13. ASSUME NEW w \in Worker, Store(w) PROVE WorkerInv(v)'
  BY <1>13 DEF Store, MoveWorker, worker, checkpoint, histories
<1>14. ASSUME NEW w \in Worker, Land(w) PROVE WorkerInv(v)'
  BY <1>14 DEF Land, MoveWorker, worker, checkpoint, histories
<1>15. CASE RunDies
  BY <1>15 DEF RunDies, worker, checkpoint, histories
<1>16. CASE UNCHANGED bulkVars
  BY <1>16 DEF bulkVars, worker, checkpoint, histories
<1>. QED
  BY <1>1, <1>2, <1>3, <1>4, <1>5, <1>6, <1>7, <1>8, <1>9, <1>10, <1>11, <1>12, <1>13, <1>14,
     <1>15, <1>16 DEF BulkNext, WorkerStep

\* Every step keeps the checkpoints, in memory, on their way and stored, sound.
LEMMA SoundStep ==
  ASSUME BulkInv, [BulkNext]_bulkVars
  PROVE  Sound(saved)' /\ \A v \in Worker : Sound(landing[v])'
<1>. USE DEF BulkInv, BulkTypeOK, Reasons, Each, Nothing, None, Report, Checkpoint, Sound, ItemInv, WorkerInv, InHand
<1>1. CASE BeginRun
  BY <1>1 DEF BeginRun, Pending, Processed, worker, checkpoint, histories
<1>2. CASE Return
  BY <1>2 DEF Return, worker, checkpoint, histories
<1>3. ASSUME NEW w \in Worker, NEW i \in Item, Take(w, i) PROVE Sound(saved)'
    /\ \A v \in Worker : Sound(landing[v])'
  BY <1>3 DEF Take, MoveWorker, worker, checkpoint, histories
<1>4. ASSUME NEW w \in Worker, TakeNothing(w) PROVE Sound(saved)'
    /\ \A v \in Worker : Sound(landing[v])'
  BY <1>4 DEF TakeNothing, MoveWorker, worker, checkpoint, histories
<1>5. ASSUME NEW w \in Worker, SendMutation(w) PROVE Sound(saved)'
    /\ \A v \in Worker : Sound(landing[v])'
  <2>0. item[w] \in Item
    BY <1>5 DEF SendMutation, MoveWorker, worker, checkpoint, histories
  <2>1. CASE /\ executed' = [executed EXCEPT ![w] = TRUE]
             /\ applied' = [applied EXCEPT ![item[w]] = @ + 1]
    BY <1>5, <2>0, <2>1 DEF SendMutation, MoveWorker, worker, checkpoint, histories
  <2>2. CASE /\ executed' = [executed EXCEPT ![w] = FALSE]
             /\ UNCHANGED applied
    BY <1>5, <2>2 DEF SendMutation, MoveWorker, worker, checkpoint, histories
  <2>. QED
    BY <1>5, <2>1, <2>2 DEF SendMutation
<1>6. ASSUME NEW w \in Worker, Succeed(w) PROVE Sound(saved)'
    /\ \A v \in Worker : Sound(landing[v])'
  BY <1>6 DEF Succeed, MoveWorker, Succeeds, Unmoved, worker, checkpoint, histories
<1>7. ASSUME NEW w \in Worker, Rejected(w) PROVE Sound(saved)'
    /\ \A v \in Worker : Sound(landing[v])'
  BY <1>7 DEF Rejected, MoveWorker, Fails, Unmoved, worker, checkpoint, histories
<1>8. ASSUME NEW w \in Worker, RateLimited(w) PROVE Sound(saved)'
    /\ \A v \in Worker : Sound(landing[v])'
  BY <1>8 DEF RateLimited, worker, checkpoint, histories
<1>9. ASSUME NEW w \in Worker, ServerError(w) PROVE Sound(saved)'
    /\ \A v \in Worker : Sound(landing[v])'
  BY <1>9 DEF ServerError, MoveWorker, worker, checkpoint, histories
<1>10. ASSUME NEW w \in Worker, Dropped(w) PROVE Sound(saved)'
    /\ \A v \in Worker : Sound(landing[v])'
  BY <1>10 DEF Dropped, MoveWorker, Fails, Unmoved, worker, checkpoint, histories
<1>11. ASSUME NEW w \in Worker, TryAgain(w) PROVE Sound(saved)'
    /\ \A v \in Worker : Sound(landing[v])'
  BY <1>11 DEF TryAgain, MoveWorker, Unmoved, worker, checkpoint, histories
<1>12. ASSUME NEW w \in Worker, GiveUp(w) PROVE Sound(saved)'
    /\ \A v \in Worker : Sound(landing[v])'
  BY <1>12 DEF GiveUp, MoveWorker, Fails, Unmoved, worker, checkpoint, histories
<1>13. ASSUME NEW w \in Worker, Store(w) PROVE Sound(saved)' /\ \A v \in Worker : Sound(landing[v])'
  BY <1>13 DEF Store, MoveWorker, worker, checkpoint, histories
<1>14. ASSUME NEW w \in Worker, Land(w) PROVE Sound(saved)' /\ \A v \in Worker : Sound(landing[v])'
  BY <1>14 DEF Land, MoveWorker, worker, checkpoint, histories
<1>15. CASE RunDies
  BY <1>15 DEF RunDies, worker, checkpoint, histories
<1>16. CASE UNCHANGED bulkVars
  BY <1>16 DEF bulkVars, worker, checkpoint, histories
<1>. QED
  BY <1>1, <1>2, <1>3, <1>4, <1>5, <1>6, <1>7, <1>8, <1>9, <1>10, <1>11, <1>12, <1>13, <1>14,
     <1>15, <1>16 DEF BulkNext, WorkerStep

\* Every step keeps each item waiting, in hand or reported.
LEMMA ItemStep ==
  ASSUME BulkInv, [BulkNext]_bulkVars, NEW j \in Item
  PROVE  ItemInv(j)'
<1>. USE DEF BulkInv, BulkTypeOK, Reasons, Each, Nothing, None, Report, Checkpoint, ItemInv, WorkerInv, InHand, OneHolder,
   Sound
<1>1. CASE BeginRun
  <2>1. j \notin Processed(saved) => applied[j] <= Reasons(j)
    <3>1. CASE phase = "returned"
      <4>1. good[j] + bad[j] = 1 /\ \A w \in Worker : place[w] \in {"off", "end"}
        BY <3>1
      <4>. QED
        BY <3>1, <4>1 DEF StoredInv
    <3>2. CASE phase \in {"idle", "dead"}
      BY <3>2
    <3>. QED
      BY <3>1, <3>2, <1>1 DEF BeginRun
  <2>2. \A w \in Worker : ~InHand(w)'
    BY <1>1 DEF BeginRun
  <2>3. UNCHANGED <<applied, excuses, kills, overwritten>> /\ phase' \in {"running", "returned"}
        /\ good' = saved.good /\ bad' = saved.bad /\ queue' = Item \ Processed(saved)
        /\ (phase' = "returned" => queue' = {})
    BY <1>1 DEF BeginRun, Pending
  <2>4. j \in Processed(saved) => saved.good[j] + saved.bad[j] = 1
    BY DEF Processed
  <2>5. j \notin Processed(saved) => saved.good[j] + saved.bad[j] = 0
    <3>1. PICK a \in Nat, b \in Nat : a = saved.good[j] /\ b = saved.bad[j]
      OBVIOUS
    <3>2. j \in Processed(saved) <=> a + b > 0
      BY <3>1 DEF Processed
    <3>3. a + b > 0 \/ a + b = 0
      OBVIOUS
    <3>. QED
      BY <3>1, <3>2, <3>3
  <2>6. Reasons(j)' = Reasons(j)
    BY <2>3
  <2>. QED
    BY <2>1, <2>2, <2>3, <2>4, <2>5, <2>6
<1>2. CASE Return
  <2>1. PICK w \in Worker : TRUE
    BY BulkAssumption
  <2>2. place[w] = "end" /\ queue = {}
    BY <1>2, <2>1 DEF Return, worker, checkpoint, histories
  <2>. QED
    BY <1>2, <2>2 DEF Return, worker, checkpoint, histories
<1>3. ASSUME NEW w \in Worker, NEW i \in Item, Take(w, i) PROVE ItemInv(j)'
  BY <1>3 DEF Take, MoveWorker, worker, checkpoint, histories
<1>4. ASSUME NEW w \in Worker, TakeNothing(w) PROVE ItemInv(j)'
  BY <1>4 DEF TakeNothing, MoveWorker, worker, checkpoint, histories
<1>5. ASSUME NEW w \in Worker, SendMutation(w) PROVE ItemInv(j)'
  <2>0. item[w] \in Item
    BY <1>5 DEF SendMutation, MoveWorker, worker, checkpoint, histories
  <2>1. CASE /\ executed' = [executed EXCEPT ![w] = TRUE]
             /\ applied' = [applied EXCEPT ![item[w]] = @ + 1]
    BY <1>5, <2>0, <2>1 DEF SendMutation, MoveWorker, worker, checkpoint, histories
  <2>2. CASE /\ executed' = [executed EXCEPT ![w] = FALSE]
             /\ UNCHANGED applied
    BY <1>5, <2>2 DEF SendMutation, MoveWorker, worker, checkpoint, histories
  <2>. QED
    BY <1>5, <2>1, <2>2 DEF SendMutation
<1>6. ASSUME NEW w \in Worker, Succeed(w) PROVE ItemInv(j)'
  BY <1>6 DEF Succeed, MoveWorker, Succeeds, Unmoved, worker, checkpoint, histories
<1>7. ASSUME NEW w \in Worker, Rejected(w) PROVE ItemInv(j)'
  BY <1>7 DEF Rejected, MoveWorker, Fails, Unmoved, worker, checkpoint, histories
<1>8. ASSUME NEW w \in Worker, RateLimited(w) PROVE ItemInv(j)'
  BY ZenonT(40), <1>8 DEF RateLimited, worker, checkpoint, histories
<1>9. ASSUME NEW w \in Worker, ServerError(w) PROVE ItemInv(j)'
  BY <1>9 DEF ServerError, MoveWorker, worker, checkpoint, histories
<1>10. ASSUME NEW w \in Worker, Dropped(w) PROVE ItemInv(j)'
  BY <1>10 DEF Dropped, MoveWorker, Fails, Unmoved, worker, checkpoint, histories
<1>11. ASSUME NEW w \in Worker, TryAgain(w) PROVE ItemInv(j)'
  BY <1>11 DEF TryAgain, MoveWorker, Unmoved, worker, checkpoint, histories
<1>12. ASSUME NEW w \in Worker, GiveUp(w) PROVE ItemInv(j)'
  BY <1>12 DEF GiveUp, MoveWorker, Fails, Unmoved, worker, checkpoint, histories
<1>13. ASSUME NEW w \in Worker, Store(w) PROVE ItemInv(j)'
  BY <1>13 DEF Store, MoveWorker, worker, checkpoint, histories
<1>14. ASSUME NEW w \in Worker, Land(w) PROVE ItemInv(j)'
  <2>1. UNCHANGED <<phase, queue, applied, good, bad, item, excuses, kills>>
        /\ (\A v \in Worker : InHand(v)' = InHand(v))
    BY <1>14 DEF Land, MoveWorker, checkpoint
  <2>2. overwritten'[j] \in {overwritten[j], overwritten[j] + 1}
    BY <1>14 DEF Land
  <2>3. applied[j] \in Nat /\ Reasons(j) \in Nat /\ Reasons(j)' \in {Reasons(j), Reasons(j) + 1}
    BY <2>1, <2>2
  <2>. QED
    BY <2>1, <2>3
<1>15. CASE RunDies
  BY <1>15 DEF RunDies, worker, checkpoint, histories
<1>16. CASE UNCHANGED bulkVars
  BY <1>16 DEF bulkVars, worker, checkpoint, histories
<1>. QED
  BY <1>1, <1>2, <1>3, <1>4, <1>5, <1>6, <1>7, <1>8, <1>9, <1>10, <1>11, <1>12, <1>13, <1>14,
     <1>15, <1>16 DEF BulkNext, WorkerStep

\* Every step keeps what was reported stored, about to be stored, or overwritten.
LEMMA StoredStep ==
  ASSUME BulkInv, [BulkNext]_bulkVars, NEW j \in Item
  PROVE  StoredInv(j)'
<1>. USE DEF BulkInv, BulkTypeOK, Reasons, Each, Nothing, None, Report, Checkpoint, ItemInv, WorkerInv,
   InHand, OneHolder, Sound, StoredInv, Processed
<1>1. CASE BeginRun
  BY <1>1 DEF BeginRun, Pending, worker, checkpoint, histories
<1>2. CASE Return
  BY <1>2 DEF Return, worker, checkpoint, histories
<1>3. ASSUME NEW w \in Worker, NEW i \in Item, Take(w, i) PROVE StoredInv(j)'
  BY <1>3 DEF Take, MoveWorker, worker, checkpoint, histories
<1>4. ASSUME NEW w \in Worker, TakeNothing(w) PROVE StoredInv(j)'
  BY <1>4 DEF TakeNothing, MoveWorker, worker, checkpoint, histories
<1>5. ASSUME NEW w \in Worker, SendMutation(w) PROVE StoredInv(j)'
  <2>1. item[w] # j \/ good[j] + bad[j] = 0
    BY <1>5 DEF SendMutation, MoveWorker
  <2>2. item[w] # j => applied'[j] = applied[j]
    BY <1>5 DEF SendMutation
  <2>3. UNCHANGED <<phase, good, bad, saved, landing, item, excuses, kills, overwritten>>
        /\ \A v \in Worker : place[v] \in {"store", "landing"} => place'[v] = place[v]
    BY <1>5 DEF SendMutation, MoveWorker, checkpoint, histories
  <2>4. CASE good[j] + bad[j] = 0
    BY <2>3, <2>4
  <2>5. CASE applied'[j] = applied[j]
    <3>1. Reasons(j)' = Reasons(j) /\ Processed(saved)' = Processed(saved)
          /\ \A v \in Worker : Processed(landing[v])' = Processed(landing[v])
      BY <2>3
    <3>2. SUFFICES ASSUME phase \in {"running", "returned"}, good[j] + bad[j] = 1,
                          j \notin Processed(saved), ~(applied[j] <= Reasons(j))
                   PROVE  StoredInv(j)'
      BY <2>3, <2>5, <3>1
    <3>3. ASSUME NEW v \in Worker, place[v] = "store", item[v] = j PROVE StoredInv(j)'
      BY <2>3, <3>3
    <3>4. ASSUME NEW v \in Worker, place[v] = "landing", j \in Processed(landing[v])
          PROVE  StoredInv(j)'
      BY <2>3, <3>1, <3>4
    <3>. QED
      BY <3>2, <3>3, <3>4
  <2>. QED
    BY <2>1, <2>2, <2>4, <2>5
<1>6. ASSUME NEW w \in Worker, Succeed(w) PROVE StoredInv(j)'
  <2>1. UNCHANGED <<phase, applied, saved, landing, item, excuses, kills, overwritten>>
        /\ place' = [place EXCEPT ![w] = "store"] /\ place[w] = "out"
        /\ (item[w] # j => UNCHANGED <<good[j], bad[j]>>)
    BY <1>6 DEF Succeed, MoveWorker, Succeeds, Unmoved, histories
  <2>2. CASE item[w] = j
    BY <2>1, <2>2
  <2>3. CASE item[w] # j
    BY <2>1, <2>3
  <2>. QED
    BY <2>2, <2>3
<1>7. ASSUME NEW w \in Worker, Rejected(w) PROVE StoredInv(j)'
  BY <1>7 DEF Rejected, MoveWorker, Fails, Unmoved, worker, checkpoint, histories
<1>8. ASSUME NEW w \in Worker, RateLimited(w) PROVE StoredInv(j)'
  BY <1>8 DEF RateLimited, worker, checkpoint, histories
<1>9. ASSUME NEW w \in Worker, ServerError(w) PROVE StoredInv(j)'
  <2>1. UNCHANGED <<phase, applied, good, bad, saved, landing, item, kills, overwritten>>
        /\ place' = [place EXCEPT ![w] = "thrown"] /\ place[w] = "out"
    BY <1>9 DEF ServerError, MoveWorker, checkpoint
  <2>2. excuses'[j] \in {excuses[j], excuses[j] + 1}
    BY <1>9 DEF ServerError
  <2>3. applied[j] <= Reasons(j) => applied'[j] <= Reasons(j)'
    BY <2>1, <2>2
  <2>4. \A v \in Worker : place[v] \in {"store", "landing"} => place'[v] = place[v]
    BY <2>1
  <2>. QED
    BY <2>1, <2>3, <2>4
<1>10. ASSUME NEW w \in Worker, Dropped(w) PROVE StoredInv(j)'
  <2>1. UNCHANGED <<phase, applied, saved, landing, item, excuses, kills, overwritten>>
        /\ place' = [place EXCEPT ![w] = "store"] /\ place[w] = "out"
        /\ (item[w] # j => UNCHANGED <<good[j], bad[j]>>)
    BY <1>10 DEF Dropped, MoveWorker, Fails, Unmoved, histories
  <2>2. CASE item[w] = j
    BY <2>1, <2>2
  <2>3. CASE item[w] # j
    BY <2>1, <2>3
  <2>. QED
    BY <2>2, <2>3
<1>11. ASSUME NEW w \in Worker, TryAgain(w) PROVE StoredInv(j)'
  BY <1>11 DEF TryAgain, MoveWorker, Unmoved, worker, checkpoint, histories
<1>12. ASSUME NEW w \in Worker, GiveUp(w) PROVE StoredInv(j)'
  BY <1>12 DEF GiveUp, MoveWorker, Fails, Unmoved, worker, checkpoint, histories
<1>13. ASSUME NEW w \in Worker, Store(w) PROVE StoredInv(j)'
  BY <1>13 DEF Store, MoveWorker, worker, checkpoint, histories
<1>14. ASSUME NEW w \in Worker, Land(w) PROVE StoredInv(j)'
  <2>1. UNCHANGED <<phase, applied, good, bad, item, excuses, kills>> /\ saved' = landing[w]
        /\ place' = [place EXCEPT ![w] = "take"] /\ place[w] = "landing"
        /\ \A v \in Worker : v # w => landing'[v] = landing[v]
    BY <1>14 DEF Land, MoveWorker, checkpoint
  <2>2. overwritten'[j] =
          overwritten[j] + IF j \in Processed(saved) \ Processed(landing[w]) THEN 1 ELSE 0
    BY <1>14 DEF Land
  <2>3. j \in Processed(landing[w]) => j \in Processed(saved')
    BY <2>1
  <2>4. j \in Processed(saved) /\ j \notin Processed(landing[w]) => applied[j] <= Reasons(j)'
    <3>1. applied[j] <= 1 + Reasons(j)
      OBVIOUS
    <3>. QED
      BY <2>1, <2>2, <3>1
  <2>5. applied[j] <= Reasons(j) => applied[j] <= Reasons(j)'
    BY <2>1, <2>2
  <2>6. SUFFICES ASSUME phase \in {"running", "returned"}, good[j] + bad[j] = 1,
                        j \notin Processed(landing[w]), j \notin Processed(saved),
                        ~(applied[j] <= Reasons(j))
                 PROVE  StoredInv(j)'
    BY <2>1, <2>3, <2>4, <2>5
  <2>7. ASSUME NEW v \in Worker, place[v] = "store", item[v] = j PROVE StoredInv(j)'
    <3>1. v # w /\ place'[v] = "store" /\ item'[v] = j
      BY <2>1, <2>7
    <3>. QED
      BY <3>1
  <2>8. ASSUME NEW v \in Worker, place[v] = "landing", j \in Processed(landing[v])
        PROVE  StoredInv(j)'
    <3>1. v # w /\ place'[v] = "landing" /\ j \in Processed(landing'[v])
      BY <2>1, <2>6, <2>8
    <3>. QED
      BY <3>1
  <2>. QED
    BY <2>6, <2>7, <2>8
<1>15. CASE RunDies
  BY <1>15 DEF RunDies, worker, checkpoint, histories
<1>16. CASE UNCHANGED bulkVars
  BY <1>16 DEF bulkVars, worker, checkpoint, histories
<1>. QED
  BY <1>1, <1>2, <1>3, <1>4, <1>5, <1>6, <1>7, <1>8, <1>9, <1>10, <1>11, <1>12, <1>13, <1>14,
     <1>15, <1>16 DEF BulkNext, WorkerStep

\* BulkInv is an invariant of the runner.
THEOREM BulkInvariance == BulkSpec => []BulkInv
<1>1. BulkInit => BulkInv
  BY BulkInitInv
<1>2. BulkInv /\ [BulkNext]_bulkVars => BulkInv'
  BY BulkTypeStep, OneHolderStep, WorkerStepInv, SoundStep, ItemStep, StoredStep DEF BulkInv
<1>. QED
  BY <1>1, <1>2, PTL DEF BulkSpec

\* runBulk: what a run, or the checkpoint it left, reports of its items was executed, and
\* each item is reported once, also by a run that was resumed.
THEOREM BulkReportsAreTrue == BulkSpec => []BulkSafe
<1>1. BulkInv => BulkSafe
  BY DEF BulkInv, BulkSafe, SucceededWasApplied, ReportedOnce, ItemInv, Sound
<1>. QED
  BY <1>1, BulkInvariance, PTL

\* A mutation is executed again only after a 5xx answer, a death of the run or an older
\* checkpoint that landed last, however often the connection drops, Shopify asks to wait
\* and the run is called again.
THEOREM NoReplay == BulkSpec => []NoReplayWithoutExcuse
<1>1. BulkInv => NoReplayWithoutExcuse
  BY DEF BulkInv, BulkTypeOK, Report, NoReplayWithoutExcuse, ItemInv, Reasons
<1>. QED
  BY <1>1, BulkInvariance, PTL

-----------------------------------------------------------------------------
(* AdminCalls *)

\* A wait that is rounded up is long enough, and no longer than what it waits for.
LEMMA CeilingDivision ==
  ASSUME NEW d \in Nat \ {0}, NEW r \in Nat \ {0}
  PROVE  LET q == (d + r - 1) \div r IN q \in 1 .. d /\ q * r >= d
<1>1. PICK n \in Nat : n = d + r - 1
  OBVIOUS
<1>2. PICK q \in Nat : q = n \div r
  OBVIOUS
<1>3. q * r <= n /\ n < q * r + r
  BY <1>2
<1>4. q * r >= d
  BY <1>1, <1>3
<1>5. q # 0
  BY <1>4
<1>6. q <= d
  <2>1. CASE q > d
    <3>1. PICK k \in Nat : q = d + 1 + k
      <4>1. q - (d + 1) \in Nat /\ q = d + 1 + (q - (d + 1))
        BY <2>1
      <4> QED BY <4>1
    <3>2. q * r = d * r + r + k * r
      BY <3>1
    <3>3. d * r >= d /\ k * r \in Nat
      OBVIOUS
    <3> QED BY <3>2, <3>3, <1>1, <1>3
  <2> QED BY <2>1
<1> QED BY <1>1, <1>2, <1>4, <1>5, <1>6

\* A power of two is a number: that of the subsets of 1 .. n.
LEMMA PowerOfTwo ==
  ASSUME NEW n \in Nat
  PROVE  2 ^ n \in Nat
<1>1. IsFiniteSet(1 .. n) /\ Cardinality(1 .. n) = n
  BY FS_Interval
<1>2. IsFiniteSet(SUBSET (1 .. n)) /\ Cardinality(SUBSET (1 .. n)) = 2 ^ n
  BY <1>1, FS_SUBSET
<1> QED BY <1>2, FS_CardinalityType

\* The record of a call.
CallRecord == [step : CallStep, kind : CallKind, attempt : 0 .. MaxRetries, left : 0 .. MaxSleep,
               reply : AdminReply \cup {"none"}, told : 0 .. MaxAvailable,
                   runs : 0 .. MaxRetries + 1]

Live(x) == x.step \notin {"unused", "returned", "thrown"}

\* How often a call was run fits its place, its kind and the answer it has.
Fine(x) ==
  /\ x.step \in {"ready", "sleeping", "sent"} => x.reply = "none" /\ x.runs <= x.attempt
  /\ x.step \in {"replied", "backingOff"} => x.reply # "none" /\ x.runs <= x.attempt + 1
  /\ x.step = "backingOff" => x.attempt < MaxRetries
  /\ x.kind = "mutation" =>
       /\ x.step \notin {"replied", "returned", "thrown"} \/ x.reply = "rateLimited" => x.runs = 0
       /\ x.runs <= 1
  /\ x.step = "returned" \/ x.reply = "data" => x.runs > 0

\* A call that sleeps wakes with enough in the bucket, one that was sent has it, and what the last
\* answer tells is there.
InTime(x, b) ==
  /\ x.step # "backingOff" /\ x.reply # "rateLimited"
  /\ x.step = "sleeping" => b + x.left * RestoreRate >= QueryCost
  /\ x.step = "sent" => b >= QueryCost
  /\ x.step = "replied" => x.reply = "data" /\ x.told <= b

\* What the client projects of the bucket is there, unless an answer that tells of it is on its way.
Known == (\A c \in Query : call[c].step # "replied") => ProjectedAvailable <= bucket

OrderlyInv ==
  orderly =>
    /\ \A c, d \in Query : Live(call[c]) /\ Live(call[d]) => c = d
    /\ \A c \in Query : InTime(call[c], bucket)
    /\ Known

\* The inductive invariant of AdminCalls.
AdminCallsInv ==
  /\ AdminCallsTypeOK
  /\ \A c \in Query : Fine(call[c])
  /\ OrderlyInv

\* The constants, as numbers.
LEMMA Bounds ==
  /\ MaxRetries \in Nat /\ BaseDelay \in Nat
  /\ MaxAvailable \in Nat \ {0} /\ RestoreRate \in Nat \ {0} /\ QueryCost \in Nat \ {0}
  /\ QueryCost <= MaxAvailable
  /\ MaxSleep \in Nat /\ MaxAvailable <= MaxSleep
  /\ \A t \in RetryDelays : t \in 0 .. MaxSleep
<1>1. /\ MaxRetries \in Nat /\ BaseDelay \in Nat
      /\ MaxAvailable \in Nat \ {0} /\ RestoreRate \in Nat \ {0} /\ QueryCost \in Nat \ {0}
      /\ QueryCost <= MaxAvailable
  BY AdminCallsAssumption
<1>2. 2 ^ MaxRetries \in Nat
  BY <1>1, PowerOfTwo
<1>3. PICK p \in Nat : p = BaseDelay * 2 ^ MaxRetries
  BY <1>1, <1>2
<1>4. MaxSleep = p + BaseDelay + MaxAvailable /\ RetryDelays = 1 .. p + BaseDelay
  BY <1>3 DEF MaxSleep, RetryDelays
<1> QED BY <1>1, <1>3, <1>4

\* What the client projects is a cost.
LEMMA Projection ==
  ASSUME AdminCallsTypeOK
  PROVE  /\ ProjectedAvailable \in 0 .. MaxAvailable
         /\ throttle.age * RestoreRate \in Nat
         /\ ProjectedAvailable <= throttle.available + throttle.age * RestoreRate
         /\ ProjectedAvailable = MaxAvailable
            \/ ProjectedAvailable = throttle.available + throttle.age * RestoreRate
<1>1. throttle.available \in 0 .. MaxAvailable /\ throttle.age \in Nat
  BY Bounds DEF AdminCallsTypeOK
<1>2. PICK p \in Nat : p = throttle.age * RestoreRate
  BY <1>1, Bounds
<1>3. PICK s \in Nat : s = throttle.available + p
  BY <1>1, <1>2, Bounds
<1>4. ProjectedAvailable = IF MaxAvailable < s THEN MaxAvailable ELSE s
  BY <1>2, <1>3 DEF ProjectedAvailable, Lesser
<1> QED BY <1>1, <1>2, <1>3, <1>4, Bounds

\* A step of one call, whatever it does besides, keeps the records of all calls as they should be.
LEMMA OneCallMoves ==
  ASSUME call \in [Query -> CallRecord], \A d \in Query : Fine(call[d]),
         NEW c \in Query, NEW y \in CallRecord, Fine(y), call' = [call EXCEPT ![c] = y]
  PROVE  /\ call' \in [Query -> CallRecord]
         /\ call'[c] = y
         /\ \A d \in Query : Fine(call'[d]) /\ (d # c => call'[d] = call[d])
  OBVIOUS

\* It keeps an orderly history orderly where it leaves the bucket alone and the call has its time.
LEMMA OrderStays ==
  ASSUME OrderlyInv, AdminCallsTypeOK, orderly' => orderly, bucket' = bucket,
         NEW c \in Query, NEW y, call' = [call EXCEPT ![c] = y],
         Live(y) => Live(call[c]),
         orderly => InTime(y, bucket),
         orderly => Known'
  PROVE  OrderlyInv'
<1> SUFFICES ASSUME orderly' PROVE OrderlyInv'
  BY DEF OrderlyInv
<1>1. /\ orderly
      /\ \A a, d \in Query : Live(call[a]) /\ Live(call[d]) => a = d
      /\ \A d \in Query : InTime(call[d], bucket)
  BY DEF OrderlyInv
<1>2. \A d \in Query : call'[d] = IF d = c THEN y ELSE call[d]
  BY DEF AdminCallsTypeOK
<1>3. \A a, d \in Query : Live(call'[a]) /\ Live(call'[d]) => a = d
  BY <1>1, <1>2
<1>4. \A d \in Query : InTime(call'[d], bucket')
  BY <1>1, <1>2
<1> QED BY <1>1, <1>3, <1>4 DEF OrderlyInv

\* A step that leaves bucket and throttle alone, and brings no answer, knows what it knew.
LEMMA KnownStays ==
  ASSUME Known, AdminCallsTypeOK, UNCHANGED <<bucket, throttle>>, NEW c \in Query, NEW y,
         call' = [call EXCEPT ![c] = y], call[c].step # "replied"
  PROVE  Known'
<1>1. \A d \in Query : d # c => call'[d] = call[d]
  BY DEF AdminCallsTypeOK
<1>2. (\A d \in Query : call'[d].step # "replied") => \A d \in Query : call[d].step # "replied"
  BY <1>1
<1>3. ProjectedAvailable' = ProjectedAvailable
  BY DEF ProjectedAvailable
<1> QED BY <1>2, <1>3 DEF Known

\* That of a call that was not made is one.
LEMMA NoQueryIsARecord == NoQuery \in CallRecord
BY Bounds DEF NoQuery, CallRecord, CallStep, CallKind

\* Before any call the bucket is full, and the client takes it to be.
LEMMA AdminCallsStart == AdminCallsInit => AdminCallsInv
<1> SUFFICES ASSUME AdminCallsInit PROVE AdminCallsInv
  OBVIOUS
<1>1. PICK z : z = [step |-> "unused", kind |-> "query", attempt |-> 0, left |-> 0,
                    reply |-> "none", told |-> 0, runs |-> 0]
  OBVIOUS
<1>a. \A c \in Query : call[c] = z
  BY <1>1 DEF AdminCallsInit, NoQuery
<1>2. AdminCallsTypeOK
  <2>1. bucket \in 0 .. MaxAvailable /\ orderly \in BOOLEAN
        /\ throttle \in [available : 0 .. MaxAvailable, age : 0 .. MaxAvailable]
    BY Bounds DEF AdminCallsInit
  <2>2. call \in [Query -> CallRecord]
    BY NoQueryIsARecord DEF AdminCallsInit
  <2> QED BY <2>1, <2>2 DEF AdminCallsTypeOK, CallRecord
<1>3. \A c \in Query : Fine(call[c])
  <2>1. Fine(z)
    BY <1>1 DEF Fine
  <2> QED BY <2>1, <1>a
<1>4. OrderlyInv
  <2>1. \A c, d \in Query : Live(call[c]) /\ Live(call[d]) => c = d
    BY <1>1, <1>a DEF Live
  <2>2. \A c \in Query : InTime(call[c], bucket)
    <3>1. InTime(z, bucket)
      BY <1>1 DEF InTime
    <3> QED BY <3>1, <1>a
  <2>3. ProjectedAvailable <= bucket
    BY <1>2, Projection, Bounds DEF AdminCallsInit
  <2> QED BY <2>1, <2>2, <2>3 DEF OrderlyInv, Known
<1> QED BY <1>2, <1>3, <1>4 DEF AdminCallsInv

\* A call that begins is alone, or the history is orderly no more.
LEMMA BeginKeeps ==
  ASSUME AdminCallsInv, NEW c \in Query, NEW k \in CallKind, BeginCall(c, k)
  PROVE  AdminCallsInv'
<1>1. AdminCallsTypeOK /\ (\A d \in Query : Fine(call[d])) /\ OrderlyInv
  BY DEF AdminCallsInv
<1>2. PICK z \in CallRecord : z = NoQuery /\ z.attempt = 0 /\ z.reply = "none" /\ z.runs = 0
  <2>1. NoQuery.attempt = 0 /\ NoQuery.reply = "none" /\ NoQuery.runs = 0
    BY DEF NoQuery
  <2> QED BY <2>1, NoQueryIsARecord
<1>a. PICK y : y = [z EXCEPT !.step = "ready", !.kind = k]
  OBVIOUS
<1>b. y.step = "ready" /\ y.kind = k /\ y.attempt = 0 /\ y.reply = "none" /\ y.runs = 0
  BY <1>2, <1>a DEF CallRecord
<1>3. call' = [call EXCEPT ![c] = y] /\ UNCHANGED <<bucket, throttle>>
  BY <1>2, <1>a DEF BeginCall
<1>4. y \in CallRecord
  BY <1>2, <1>a DEF CallRecord, CallStep
<1>5. Fine(y)
  BY <1>b DEF Fine
<1>6. /\ call' \in [Query -> CallRecord] /\ call'[c] = y
      /\ \A d \in Query : Fine(call'[d]) /\ (d # c => call'[d] = call[d])
  BY <1>1, <1>3, <1>4, <1>5, OneCallMoves DEF AdminCallsTypeOK, CallRecord
<1>7. AdminCallsTypeOK'
  BY <1>1, <1>3, <1>6 DEF AdminCallsTypeOK, CallRecord, BeginCall
<1>8. OrderlyInv'
  <2> SUFFICES ASSUME orderly' PROVE OrderlyInv'
    BY DEF OrderlyInv
  <2>1. orderly /\ \A d \in Query : ~Live(call[d])
    BY DEF BeginCall, UnderWay, Live
  <2>2. \A a, d \in Query : Live(call'[a]) /\ Live(call'[d]) => a = d
    BY <2>1, <1>6
  <2>3. \A d \in Query : InTime(call[d], bucket)
    BY <2>1, <1>1 DEF OrderlyInv
  <2>4. InTime(y, bucket)
    BY <1>b DEF InTime
  <2>5. \A d \in Query : InTime(call'[d], bucket')
    BY <2>3, <2>4, <1>3, <1>6
  <2>6. ProjectedAvailable <= bucket
    BY <2>1, <1>1 DEF OrderlyInv, Known, Live
  <2>7. Known'
    BY <2>6, <1>3 DEF Known, ProjectedAvailable
  <2> QED BY <2>2, <2>5, <2>7 DEF OrderlyInv
<1> QED BY <1>6, <1>7, <1>8 DEF AdminCallsInv

\* A call that looks at the bucket, or wakes, finds or will find what it needs.
LEMMA WaitKeeps ==
  ASSUME AdminCallsInv, NEW c \in Query, PreWait(c) \/ WakeUp(c)
  PROVE  AdminCallsInv'
<1>1. AdminCallsTypeOK /\ (\A d \in Query : Fine(call[d])) /\ OrderlyInv
  BY DEF AdminCallsInv
<1>2. PICK x \in CallRecord : x = call[c]
  BY <1>1 DEF AdminCallsTypeOK, CallRecord
<1>3. Fine(x) /\ (orderly => InTime(x, bucket))
  BY <1>1, <1>2 DEF OrderlyInv
<1>4. \E y \in CallRecord :
        /\ call' = [call EXCEPT ![c] = y] /\ Fine(y) /\ Live(x) /\ x.step # "replied"
        /\ orderly => InTime(y, bucket)
  <2>1. CASE PreWait(c) /\ ProjectedAvailable >= QueryCost
    <3>1. PICK y : y = [x EXCEPT !.step = "sent"]
      OBVIOUS
    <3>2. call' = [call EXCEPT ![c] = y] /\ x.step = "ready"
      BY <2>1, <3>1, <1>2 DEF PreWait
    <3>3. y \in CallRecord
      BY <3>1, <1>2 DEF CallRecord, CallStep
    <3>4. Fine(y)
      BY <3>1, <3>2, <1>2, <1>3 DEF Fine, CallRecord
    <3>5. orderly => InTime(y, bucket)
      <4>1. ASSUME orderly PROVE ProjectedAvailable <= bucket
        <5>1. \A d \in Query : call[d].step # "replied"
          BY <4>1, <1>1, <1>2, <3>2 DEF OrderlyInv, Live
        <5> QED BY <5>1, <4>1, <1>1 DEF OrderlyInv, Known
      <4>2. ASSUME orderly PROVE bucket >= QueryCost
        BY <4>1, <4>2, <2>1, <1>1, Projection, Bounds DEF AdminCallsTypeOK
      <4> QED BY <4>2, <3>1, <3>2, <1>2, <1>3 DEF InTime, CallRecord
    <3> QED BY <3>2, <3>3, <3>4, <3>5 DEF Live
  <2>2. CASE PreWait(c) /\ ~(ProjectedAvailable >= QueryCost)
    <3>0. PICK p \in 0 .. MaxAvailable : p = ProjectedAvailable
      BY <1>1, Projection
    <3>d. PICK need \in Nat \ {0} : need = QueryCost - p
      BY <2>2, <3>0, Bounds
    <3>w. PICK wait \in 1 .. need : wait = PreWaitTicks /\ wait * RestoreRate >= need
      BY <3>0, <3>d, Bounds, CeilingDivision DEF PreWaitTicks
    <3>1. PICK y : y = [x EXCEPT !.step = "sleeping", !.left = wait]
      OBVIOUS
    <3>2. call' = [call EXCEPT ![c] = y] /\ x.step = "ready"
      BY <2>2, <3>1, <3>w, <1>2 DEF PreWait
    <3>3. y \in CallRecord
      <4>1. wait \in 0 .. MaxSleep
        BY <3>d, <3>0, <3>w, Bounds
      <4> QED BY <4>1, <3>1, <1>2 DEF CallRecord, CallStep
    <3>4. Fine(y)
      BY <3>1, <3>2, <1>2, <1>3 DEF Fine, CallRecord
    <3>5. orderly => InTime(y, bucket)
      <4>1. ASSUME orderly PROVE p <= bucket
        <5>1. \A d \in Query : call[d].step # "replied"
          BY <4>1, <1>1, <1>2, <3>2 DEF OrderlyInv, Live
        <5> QED BY <5>1, <4>1, <1>1, <3>0 DEF OrderlyInv, Known
      <4>2. PICK g \in Nat : g = wait * RestoreRate
        BY <3>w, <3>d, Bounds
      <4>3. orderly => bucket + g >= QueryCost
        BY <4>1, <4>2, <3>w, <3>d, <1>1, Bounds DEF AdminCallsTypeOK
      <4>4. y.step = "sleeping" /\ y.left = wait /\ y.reply = x.reply
        BY <3>1, <1>2 DEF CallRecord
      <4> QED BY <4>2, <4>3, <4>4, <1>3, <3>2 DEF InTime
    <3> QED BY <3>2, <3>3, <3>4, <3>5 DEF Live
  <2>3. CASE WakeUp(c) /\ x.step = "sleeping"
    <3>1. PICK y : y = [x EXCEPT !.step = "sent"]
      OBVIOUS
    <3>2. call' = [call EXCEPT ![c] = y] /\ x.left = 0
      BY <2>3, <3>1, <1>2 DEF WakeUp
    <3>3. y \in CallRecord
      BY <3>1, <1>2 DEF CallRecord, CallStep
    <3>4. Fine(y)
      BY <3>1, <2>3, <1>2, <1>3 DEF Fine, CallRecord
    <3>5. orderly => InTime(y, bucket)
      <4>1. orderly => bucket + 0 * RestoreRate >= QueryCost
        BY <1>3, <2>3, <3>2 DEF InTime
      <4>2. orderly => bucket >= QueryCost
        BY <4>1, <1>1, Bounds DEF AdminCallsTypeOK
      <4> QED BY <4>2, <3>1, <2>3, <1>2, <1>3 DEF InTime, CallRecord
    <3> QED BY <2>3, <3>2, <3>3, <3>4, <3>5 DEF Live
  <2>4. CASE WakeUp(c) /\ x.step # "sleeping"
    <3>1. PICK y : y = [x EXCEPT !.step = "ready", !.attempt = x.attempt + 1, !.reply = "none"]
      OBVIOUS
    <3>2. call' = [call EXCEPT ![c] = y] /\ x.step = "backingOff"
      BY <2>4, <3>1, <1>2 DEF WakeUp
    <3>3. y \in CallRecord
      <4>1. x.attempt + 1 \in 0 .. MaxRetries
        BY <3>2, <1>2, <1>3, Bounds DEF CallRecord, Fine
      <4> QED BY <4>1, <3>1, <1>2 DEF CallRecord, CallStep
    <3>4. Fine(y)
      BY <3>1, <3>2, <1>2, <1>3, Bounds DEF Fine, CallRecord
    <3>5. ~orderly
      BY <3>2, <1>3 DEF InTime
    <3> QED BY <3>2, <3>3, <3>4, <3>5 DEF Live
  <2> QED BY <2>1, <2>2, <2>3, <2>4
<1>5. PICK y \in CallRecord :
        /\ call' = [call EXCEPT ![c] = y] /\ Fine(y) /\ Live(x) /\ x.step # "replied"
        /\ orderly => InTime(y, bucket)
  BY <1>4
<1>y. y \in CallRecord /\ Fine(y) /\ call' = [call EXCEPT ![c] = y]
  BY <1>5
<1>6. UNCHANGED <<bucket, throttle, orderly>>
  BY DEF PreWait, WakeUp
<1>7. /\ call' \in [Query -> CallRecord]
      /\ \A d \in Query : Fine(call'[d])
  BY <1>1, <1>y, OneCallMoves DEF AdminCallsTypeOK, CallRecord
<1>8. AdminCallsTypeOK'
  BY <1>1, <1>6, <1>7 DEF AdminCallsTypeOK, CallRecord
<1>9. OrderlyInv'
  <2>1. orderly => Known'
    BY <1>1, <1>2, <1>5, <1>6, KnownStays DEF OrderlyInv
  <2> QED BY <2>1, <1>1, <1>2, <1>5, <1>6, OrderStays
<1> QED BY <1>7, <1>8, <1>9 DEF AdminCallsInv

\* A call is sent again only where it was not run, or only reads; it throws only then.
LEMMA EndKeeps ==
  ASSUME AdminCallsInv, NEW c \in Query, BackOff(c) \/ ReturnData(c) \/ Throw(c) \/ RateLimit(c)
  PROVE  AdminCallsInv'
<1>1. AdminCallsTypeOK /\ (\A d \in Query : Fine(call[d])) /\ OrderlyInv
  BY DEF AdminCallsInv
<1>2. PICK x \in CallRecord : x = call[c]
  BY <1>1 DEF AdminCallsTypeOK, CallRecord
<1>3. Fine(x) /\ (orderly => InTime(x, bucket))
  BY <1>1, <1>2 DEF OrderlyInv
<1>4. \E y \in CallRecord :
        /\ call' = [call EXCEPT ![c] = y] /\ Fine(y)
        /\ orderly => /\ x.reply = "data" /\ x.step = "replied" /\ ReturnData(c)
                      /\ y.step = "returned" /\ y.reply = "none"
  <2>1. CASE BackOff(c)
    <3>1. PICK t \in RetryDelays : call' = [call EXCEPT ![c].step = "backingOff", ![c].left = t]
      BY <2>1 DEF BackOff
    <3>2. PICK y : y = [x EXCEPT !.step = "backingOff", !.left = t]
      OBVIOUS
    <3>3. call' = [call EXCEPT ![c] = y] 
      BY <3>1, <3>2, <1>2
    <3>4. /\ x.step = "replied" /\ x.attempt < MaxRetries
          /\ x.reply = "rateLimited" \/ (x.reply \in {"serverError", "dropped"} /\ x.kind = "query")
      BY <2>1, <1>2 DEF BackOff, Retries
    <3>5. t \in 0 .. MaxSleep
      BY <3>1, Bounds
    <3>6. y \in CallRecord
      BY <3>2, <3>5, <1>2 DEF CallRecord, CallStep
    <3>7. Fine(y)
      BY <3>2, <3>4, <1>2, <1>3 DEF Fine, CallRecord
    <3>8. ~orderly
      BY <3>4, <1>3 DEF InTime
    <3> QED BY <3>3, <3>6, <3>7, <3>8
  <2>2. CASE ReturnData(c)
    <3>1. PICK y : y = [x EXCEPT !.step = "returned", !.attempt = 0, !.told = 0, !.reply = "none"]
      OBVIOUS
    <3>2. x.step = "replied" /\ x.reply = "data"
      BY <2>2, <1>2 DEF ReturnData
    <3>3. call' = [call EXCEPT ![c] = y]
      BY <2>2, <3>1, <3>2, <1>2 DEF ReturnData, Over
    <3>4. y \in CallRecord
      <4>1. 0 \in 0 .. MaxRetries /\ 0 \in 0 .. MaxAvailable
        BY Bounds
      <4>2. {"returned", "thrown"} \subseteq CallStep
        BY DEF CallStep
      <4> QED BY <4>1, <4>2, <3>1, <1>2 DEF CallRecord
    <3>5. Fine(y)
      BY <3>1, <3>2, <1>2, <1>3 DEF Fine, CallRecord
    <3>6. y.step = "returned" /\ y.reply = "none"
      BY <3>1, <1>2 DEF CallRecord
    <3> QED BY <2>2, <3>2, <3>3, <3>4, <3>5, <3>6
  <2>3. CASE Throw(c)
    <3>1. PICK y : y = [x EXCEPT !.step = "thrown", !.attempt = 0, !.told = 0,
                                 !.reply = IF x.reply = "rateLimited" THEN x.reply ELSE "none"]
      OBVIOUS
    <3>2. x.step = "replied" /\ x.reply # "data"
      BY <2>3, <1>2 DEF Throw
    <3>3. call' = [call EXCEPT ![c] = y]
      BY <2>3, <3>1, <1>2 DEF Throw, Over
    <3>4. y \in CallRecord
      <4>1. 0 \in 0 .. MaxRetries /\ 0 \in 0 .. MaxAvailable
        BY Bounds
      <4>2. {"returned", "thrown"} \subseteq CallStep
        BY DEF CallStep
      <4> QED BY <4>1, <4>2, <3>1, <1>2 DEF CallRecord
    <3>5. Fine(y)
      BY <3>1, <3>2, <1>2, <1>3 DEF Fine, CallRecord
    <3>6. ~orderly
      BY <3>2, <1>3 DEF InTime
    <3> QED BY <3>3, <3>4, <3>5, <3>6
  <2>4. CASE RateLimit(c)
    <3>1. PICK y : y = [x EXCEPT !.step = "replied", !.reply = "rateLimited"]
      OBVIOUS
    <3>2. x.step = "sent" /\ bucket < QueryCost
      BY <2>4, <1>2 DEF RateLimit
    <3>3. call' = [call EXCEPT ![c] = y]
      BY <2>4, <3>1, <1>2 DEF RateLimit
    <3>4. y \in CallRecord
      BY <3>1, <1>2 DEF CallRecord, CallStep, AdminReply
    <3>5. Fine(y)
      BY <3>1, <3>2, <1>2, <1>3 DEF Fine, CallRecord
    <3>6. ~orderly
      BY <3>2, <1>1, <1>3, Bounds DEF InTime, AdminCallsTypeOK
    <3> QED BY <3>3, <3>4, <3>5, <3>6
  <2> QED BY <2>1, <2>2, <2>3, <2>4
<1>5. PICK y \in CallRecord :
        /\ call' = [call EXCEPT ![c] = y] /\ Fine(y)
        /\ orderly => /\ x.reply = "data" /\ x.step = "replied" /\ ReturnData(c)
                      /\ y.step = "returned" /\ y.reply = "none"
  BY <1>4
<1>y. y \in CallRecord /\ Fine(y) /\ call' = [call EXCEPT ![c] = y]
  BY <1>5
<1>6. UNCHANGED <<bucket, orderly>>
    /\ (throttle' = throttle \/ throttle' = [available |-> x.told, age |-> 0])
  BY <1>2 DEF BackOff, ReturnData, Throw, RateLimit
<1>7. /\ call' \in [Query -> CallRecord]
      /\ \A d \in Query : Fine(call'[d])
  BY <1>1, <1>y, OneCallMoves DEF AdminCallsTypeOK, CallRecord
<1>8. AdminCallsTypeOK'
  <2>1. [available |-> x.told, age |-> 0] \in [available : 0 .. MaxAvailable,
      age : 0 .. MaxAvailable]
    BY <1>2, Bounds DEF CallRecord
  <2> QED BY <2>1, <1>1, <1>6, <1>7 DEF AdminCallsTypeOK, CallRecord
<1>9. OrderlyInv'
  <2>1. orderly => InTime(y, bucket)
    BY <1>5 DEF InTime
  <2>2. ASSUME orderly PROVE Known'
    <3>1. throttle' = [available |-> x.told, age |-> 0] /\ x.told <= bucket
      BY <2>2, <1>2, <1>3, <1>5 DEF ReturnData, InTime
    <3>2. PICK t \in 0 .. MaxAvailable : t = x.told
      BY <1>2 DEF CallRecord
    <3>3. throttle'.available = t /\ throttle'.age = 0
      BY <3>1, <3>2
    <3>4. t + 0 * RestoreRate = t
      BY <3>2, Bounds
    <3>5. ProjectedAvailable' = t
      BY <3>2, <3>3, <3>4, Bounds DEF ProjectedAvailable, Lesser
    <3> QED BY <3>1, <3>2, <3>5, <1>6 DEF Known
  <2>3. Live(y) => Live(call[c])
    BY <1>2 DEF BackOff, ReturnData, Throw, RateLimit, Live
  <2> QED BY <2>1, <2>2, <2>3, <1>1, <1>5, <1>6, OrderStays
<1> QED BY <1>7, <1>8, <1>9 DEF AdminCallsInv

\* What a served call takes from the bucket is what its answer tells, if it arrives.
LEMMA ServeKeeps ==
  ASSUME AdminCallsInv, NEW c \in Query, NEW reply \in ServedReply, NEW runs \in 0 .. 1,
         ServeCall(c, reply, runs)
  PROVE  AdminCallsInv'
<1>1. AdminCallsTypeOK /\ (\A d \in Query : Fine(call[d])) /\ OrderlyInv
  BY DEF AdminCallsInv
<1>2. PICK x \in CallRecord : x = call[c]
  BY <1>1 DEF AdminCallsTypeOK, CallRecord
<1>3. Fine(x) /\ (orderly => InTime(x, bucket))
  BY <1>1, <1>2 DEF OrderlyInv
<1>4. PICK b \in 0 .. MaxAvailable : b = bucket' /\ b = bucket - QueryCost
  BY <1>1, Bounds DEF ServeCall, AdminCallsTypeOK
<1>5. PICK told \in 0 .. MaxAvailable : told = IF reply = "data" THEN b ELSE 0
  BY Bounds
<1>6. PICK y : y = [x EXCEPT !.step = "replied", !.reply = reply, !.told = told,
    !.runs = x.runs + runs]
  OBVIOUS
<1>7. /\ call' = [call EXCEPT ![c] = y] /\ throttle' = throttle
      /\ x.step = "sent" /\ (reply = "data" => runs = 1)
      /\ orderly' = (orderly /\ reply = "data")
  BY <1>2, <1>4, <1>5, <1>6 DEF ServeCall
<1>8. y.runs = x.runs + runs /\ x.runs <= x.attempt /\ x.runs + runs \in 0 .. MaxRetries + 1
  BY <1>2, <1>3, <1>6, <1>7, Bounds DEF CallRecord, Fine
<1>9. y \in CallRecord
  BY <1>2, <1>5, <1>6, <1>8 DEF CallRecord, CallStep, AdminReply
<1>10. Fine(y)
  BY <1>2, <1>3, <1>6, <1>7, <1>8, Bounds DEF Fine, CallRecord, ServedReply
<1>11. /\ call' \in [Query -> CallRecord] /\ call'[c] = y
       /\ \A d \in Query : Fine(call'[d]) /\ (d # c => call'[d] = call[d])
  BY <1>1, <1>7, <1>9, <1>10, OneCallMoves DEF AdminCallsTypeOK, CallRecord
<1>12. AdminCallsTypeOK'
  BY <1>1, <1>4, <1>7, <1>11 DEF AdminCallsTypeOK, CallRecord
<1>13. OrderlyInv'
  <2> SUFFICES ASSUME orderly' PROVE OrderlyInv'
    BY DEF OrderlyInv
  <2>1. orderly /\ reply = "data"
    BY <1>7
  <2>2. y.step = "replied" /\ y.reply = "data" /\ y.told = b
    BY <2>1, <1>2, <1>5, <1>6 DEF CallRecord
  <2>3. \A d \in Query : Live(call[d]) => d = c
    BY <2>1, <1>1, <1>2, <1>7 DEF OrderlyInv, Live
  <2>4. \A a, d \in Query : Live(call'[a]) /\ Live(call'[d]) => a = d
    BY <2>3, <1>11
  <2>5. InTime(y, b)
    BY <2>2 DEF InTime
  <2>6. ASSUME NEW d \in Query, d # c PROVE InTime(call'[d], b)
    <3>1. call'[d] = call[d] /\ ~Live(call[d]) /\ InTime(call[d], bucket)
      BY <2>1, <2>3, <2>6, <1>1, <1>11 DEF OrderlyInv
    <3> QED BY <3>1 DEF InTime, Live
  <2>7. \A d \in Query : InTime(call'[d], bucket')
    BY <2>5, <2>6, <1>4, <1>11
  <2>8. Known'
    BY <2>2, <1>11 DEF Known
  <2> QED BY <2>4, <2>7, <2>8 DEF OrderlyInv
<1> QED BY <1>11, <1>12, <1>13 DEF AdminCallsInv
\* A tick brings a sleeping call what its wait was counted for.
LEMMA TickKeeps ==
  ASSUME AdminCallsInv, TickOfTime
  PROVE  AdminCallsInv'
<1>1. AdminCallsTypeOK /\ (\A d \in Query : Fine(call[d])) /\ OrderlyInv
  BY DEF AdminCallsInv
<1>2. PICK b \in 0 .. MaxAvailable : b = bucket
  BY <1>1 DEF AdminCallsTypeOK
<1>3. PICK e \in 0 .. MaxAvailable :
        e = bucket' /\ b <= e /\ (e = MaxAvailable \/ e = b + RestoreRate)
  BY <1>2, Bounds DEF TickOfTime, Lesser
<1>4. \A d \in Query : /\ call[d] \in CallRecord
                       /\ call'[d] = [call[d] EXCEPT !.left = IF @ = 0 THEN 0 ELSE @ - 1]
  BY <1>1 DEF AdminCallsTypeOK, CallRecord, TickOfTime
<1>5. ASSUME NEW x \in CallRecord, NEW y,
    y = [x EXCEPT !.left = IF x.left = 0 THEN 0 ELSE x.left - 1]
      PROVE  /\ y \in CallRecord /\ (Fine(x) => Fine(y)) /\ y.step = x.step
             /\ InTime(x, b) => InTime(y, e)
  <2>1. PICK n \in 0 .. MaxSleep : n = x.left
    BY DEF CallRecord
  <2>2. PICK m \in 0 .. MaxSleep : m = y.left /\ ((m = 0 /\ n = 0) \/ n = m + 1)
    <3>1. y.left = IF n = 0 THEN 0 ELSE n - 1
      BY <1>5, <2>1 DEF CallRecord
    <3>2. MaxSleep \in Nat
      BY Bounds
    <3>3. CASE n = 0
      BY <3>1, <3>2, <3>3, <2>1
    <3>4. CASE n # 0
      <4>1. n - 1 \in 0 .. MaxSleep /\ n = (n - 1) + 1
        BY <3>2, <3>4
      <4> QED BY <4>1, <3>1, <3>4
    <3> QED BY <3>3, <3>4
  <2>3. y = [x EXCEPT !.left = m]
    BY <1>5, <2>1, <2>2 DEF CallRecord
  <2>4. /\ y \in CallRecord
        /\ y.step = x.step /\ y.kind = x.kind /\ y.attempt = x.attempt
        /\ y.reply = x.reply /\ y.told = x.told /\ y.runs = x.runs
    BY <2>3 DEF CallRecord
  <2>5. Fine(x) => Fine(y)
    BY <2>4 DEF Fine
  <2>6. InTime(x, b) => InTime(y, e)
    <3>1. b + n * RestoreRate >= QueryCost => e + m * RestoreRate >= QueryCost
      <4>0. b \in Nat /\ e \in Nat /\ RestoreRate \in Nat /\ QueryCost \in Nat
            /\ MaxAvailable \in Nat
        BY <1>2, <1>3, Bounds
      <4>1. CASE n = 0 /\ m = 0
        <5>1. n * RestoreRate = 0 /\ m * RestoreRate = 0
          BY <4>0, <4>1
        <5>2. b + n * RestoreRate = b /\ e + m * RestoreRate = e
          BY <4>0, <5>1
        <5>3. b >= QueryCost => e >= QueryCost
          BY <4>0, <1>3
        <5> QED BY <5>2, <5>3, Zenon
      <4>2. CASE n = m + 1
        <5>1. PICK g \in Nat : g = m * RestoreRate
          BY Bounds
        <5>2. n * RestoreRate = g + RestoreRate
          BY <4>2, <5>1, Bounds
        <5>3. b + n * RestoreRate = (b + RestoreRate) + g
          BY <4>0, <5>1, <5>2
        <5>4. b + n * RestoreRate >= QueryCost => e + g >= QueryCost
          <6>1. CASE e = MaxAvailable
            BY <4>0, <5>1, <6>1, Bounds
          <6>2. CASE e = b + RestoreRate
            BY <5>3, <6>2
          <6> QED BY <6>1, <6>2, <1>3
        <5> QED BY <5>1, <5>4
      <4> QED BY <4>1, <4>2, <2>2
    <3>2. b >= QueryCost => e >= QueryCost
      BY <1>3, Bounds
    <3>3. x.told <= b => x.told <= e
      <4>1. PICK t \in 0 .. MaxAvailable : t = x.told
        BY DEF CallRecord
      <4> QED BY <4>1, <1>3, Bounds
    <3> QED BY <3>1, <3>2, <3>3, <2>1, <2>2, <2>4 DEF InTime
  <2> QED BY <2>4, <2>5, <2>6
<1>6. \A d \in Query : /\ call'[d] \in CallRecord /\ Fine(call'[d]) /\ call'[d].step = call[d].step
                       /\ InTime(call[d], b) => InTime(call'[d], e)
  BY <1>1, <1>4, <1>5
<1>7. PICK a \in 0 .. MaxAvailable : a = throttle.available
  BY <1>1 DEF AdminCallsTypeOK
<1>8. PICK age \in 0 .. MaxAvailable : age = throttle.age
  BY <1>1 DEF AdminCallsTypeOK
<1>9. PICK older \in 0 .. MaxAvailable :
        throttle' = [throttle EXCEPT !.age = older] /\ older <= age + 1
  BY <1>8, Bounds DEF TickOfTime, Lesser
<1>10. throttle' \in [available : 0 .. MaxAvailable, age : 0 .. MaxAvailable]
       /\ throttle'.available = a /\ throttle'.age = older
  BY <1>1, <1>7, <1>9 DEF AdminCallsTypeOK
<1>11. AdminCallsTypeOK'
  <2>1. call' \in [Query -> CallRecord]
    <3>1. call' = [d \in Query |-> call'[d]]
      BY DEF TickOfTime
    <3> QED BY <3>1, <1>6
  <2> QED BY <2>1, <1>1, <1>3, <1>10 DEF AdminCallsTypeOK, CallRecord, TickOfTime
<1>12. OrderlyInv'
  <2> SUFFICES ASSUME orderly' PROVE OrderlyInv'
    BY DEF OrderlyInv
  <2>1. orderly
    BY DEF TickOfTime
  <2>2. \A c, d \in Query : Live(call'[c]) /\ Live(call'[d]) => c = d
    BY <2>1, <1>1, <1>6 DEF OrderlyInv, Live
  <2>3. \A d \in Query : InTime(call'[d], bucket')
    BY <2>1, <1>1, <1>2, <1>3, <1>6 DEF OrderlyInv
  <2>4. Known'
    <3> SUFFICES ASSUME \A d \in Query : call'[d].step # "replied"
                 PROVE  ProjectedAvailable' <= bucket'
      BY DEF Known
    <3>1. ProjectedAvailable <= b
      BY <2>1, <1>1, <1>2, <1>6 DEF OrderlyInv, Known
    <3>2. PICK g \in Nat : g = age * RestoreRate
      BY Bounds
    <3>3. PICK h \in Nat : h = older * RestoreRate
      BY Bounds
    <3>4. h <= g + RestoreRate
      <4>1. PICK k \in Nat : age + 1 = older + k
        <5>1. (age + 1) - older \in Nat /\ age + 1 = older + ((age + 1) - older)
          BY <1>9
        <5> QED BY <5>1
      <4>2. g + RestoreRate = h + k * RestoreRate
        <5>1. (age + 1) * RestoreRate = g + RestoreRate
          BY <3>2, Bounds
        <5>2. (older + k) * RestoreRate = h + k * RestoreRate
          BY <3>3, <4>1, Bounds
        <5> QED BY <4>1, <5>1, <5>2
      <4>3. PICK j \in Nat : j = k * RestoreRate
        BY <4>1, Bounds
      <4> QED BY <4>2, <4>3, <3>2, <3>3, Bounds
    <3>5. MaxAvailable <= b \/ a + g <= b
      BY <3>1, <3>2, <1>7, <1>8 DEF ProjectedAvailable, Lesser
    <3>6. ProjectedAvailable' = IF MaxAvailable < a + h THEN MaxAvailable ELSE a + h
      BY <3>3, <1>10 DEF ProjectedAvailable, Lesser
    <3> QED BY <3>2, <3>3, <3>4, <3>5, <3>6, <1>2, <1>3, Bounds
  <2> QED BY <2>2, <2>3, <2>4 DEF OrderlyInv
<1> QED BY <1>6, <1>11, <1>12 DEF AdminCallsInv

\* The inductive invariant holds of every behaviour of the client and Shopify.
THEOREM AdminCallsInvariance == AdminCallsSpec => []AdminCallsInv
<1>1. AdminCallsInit => AdminCallsInv
  BY AdminCallsStart
<1>2. AdminCallsInv /\ [AdminCallsNext]_callVars => AdminCallsInv'
  <2> SUFFICES ASSUME AdminCallsInv, [AdminCallsNext]_callVars PROVE AdminCallsInv'
    OBVIOUS
  <2>1. ASSUME NEW c \in Query, NEW k \in CallKind, BeginCall(c, k) PROVE AdminCallsInv'
    BY <2>1, BeginKeeps
  <2>2. ASSUME NEW c \in Query, PreWait(c) \/ WakeUp(c) PROVE AdminCallsInv'
    BY <2>2, WaitKeeps
  <2>3. ASSUME NEW c \in Query, BackOff(c) \/ ReturnData(c) \/ Throw(c) \/ RateLimit(c)
        PROVE  AdminCallsInv'
    BY <2>3, EndKeeps
  <2>4. ASSUME NEW c \in Query, NEW reply \in ServedReply, NEW runs \in 0 .. 1,
               ServeCall(c, reply, runs)
        PROVE  AdminCallsInv'
    BY <2>4, ServeKeeps
  <2>5. CASE TickOfTime
    BY <2>5, TickKeeps
  <2>6. CASE UNCHANGED callVars
    BY <2>6 DEF callVars, AdminCallsInv, AdminCallsTypeOK, OrderlyInv, Known, ProjectedAvailable
  <2> QED BY <2>1, <2>2, <2>3, <2>4, <2>5, <2>6 DEF AdminCallsNext, ClientStep, ShopifyStep
<1> QED BY <1>1, <1>2, PTL DEF AdminCallsSpec

\* Whatever is retried and however answers are lost, a mutation runs once, one that ends rate
\* limited has not run, and calls made one at a time are never rate limited: for every bucket,
\* rate, cost and number of retries (AdminGraphqlClient.request).
THEOREM AdminCallsAreSafe == AdminCallsSpec => []AdminCallsSafe
<1>1. AdminCallsInv => AdminCallsSafe
  <2> SUFFICES ASSUME AdminCallsInv PROVE AdminCallsSafe
    OBVIOUS
  <2>1. AdminCallsTypeOK /\ (\A c \in Query : Fine(call[c])) /\ OrderlyInv
    BY DEF AdminCallsInv
  <2>2. \A c \in Query : call[c].runs \in Nat
    <3>1. \A c \in Query : call[c].runs \in 0 .. MaxRetries + 1
      BY <2>1 DEF AdminCallsTypeOK
    <3>2. 0 .. MaxRetries + 1 \subseteq Nat
      BY Bounds
    <3> QED BY <3>1, <3>2
  <2>3. MutationRunsOnce
    BY <2>1, <2>2 DEF MutationRunsOnce, Fine
  <2>4. RateLimitedIsUntouched
    BY <2>1 DEF RateLimitedIsUntouched, Fine
  <2>5. OrderlyIsServed
    BY <2>1 DEF OrderlyIsServed, OrderlyInv, InTime
  <2> QED BY <2>1, <2>3, <2>4, <2>5 DEF AdminCallsSafe
<1> QED BY <1>1, AdminCallsInvariance, PTL

-----------------------------------------------------------------------------
(* Bulk operations *)

Steps == {"idle", "staging", "uploading", "starting", "taken", "polling", "reading",
          "downloading", "storing", "returned", "thrown"}

OperationsOK ==
  /\ bulkStep \in [Run -> Steps]
  /\ report \in [Run -> BulkReport] /\ stored \in [Run -> BulkReport]
  /\ current \in Operation /\ final \in [Run -> Operation]
  /\ ran \in [Run -> [Line -> Nat]]
  /\ unsaved \in [Run -> BOOLEAN] /\ again \in [Run -> 0 .. MaxAgain]

\* A checkpoint is stored once, for all lines, by an attempt that has ended.
SavedInv(r) ==
  /\ stored[r] # Empty => bulkStep[r] \in {"returned", "thrown"} /\ report[r] = stored[r]
  /\ bulkStep[r] \in {"idle", "staging", "uploading", "starting", "taken", "polling", "reading",
                     "downloading"} => report[r] = Empty
  /\ bulkStep[r] \in {"storing", "returned"} \/ stored[r] # Empty =>
       Done(report[r]) = Line /\ report[r].good \cap report[r].bad = {}

\* The operation a run starts is running until it has ended for the run.
OwnInv(r) == current.status = "running" /\ current.of = r =>
               bulkStep[r] \notin {"reading", "downloading", "storing"} /\ stored[r] = Empty

\* What an operation that ended, or that a run took for its own, says went well did.
Told(op) ==
  /\ op.of = NoRun <=> op.status = "none"
  /\ op.status = "running" => op.outcome = <<>>
  /\ op.of # NoRun => \A l \in DOMAIN op.outcome : op.outcome[l] = "ok" => ran[op.of][l] > 0
FinalInv(r) == bulkStep[r] \in {"downloading"} => final[r].of # NoRun
ReportInv(r) == final[r].of \in {r, NoRun} => \A l \in report[r].good : ran[r][l] > 0

\* How often the lines of a run can have run.
Executing(r) == IF current.status = "running" /\ current.of = r THEN 1 ELSE 0
CountInv(r) ==
  \A l \in Line :
    /\ ran[r][l] + Executing(r) <= again[r] + 1
    /\ bulkStep[r] = "idle" => ran[r][l] = 0 /\ Executing(r) = 0 /\ again[r] = 0
    /\ bulkStep[r] \in {"staging", "uploading", "starting"} => ran[r][l] + Executing(r) <= again[r]
OnceInv(r) ==
  ~unsaved[r] =>
    /\ \A l \in Line : ran[r][l] + Executing(r) <= 1
    /\ bulkStep[r] \notin {"taken", "polling", "reading", "downloading", "storing"} /\ stored[r] = Empty =>
         Executing(r) = 0 /\ \A l \in Line : ran[r][l] = 0

OperationsInv ==
  /\ OperationsOK
  /\ \A r \in Run : SavedInv(r) /\ OwnInv(r) /\ Told(final[r]) /\ FinalInv(r) /\ ReportInv(r)
                    /\ CountInv(r) /\ OnceInv(r)
  /\ Told(current)

\* A run whose checkpoint is not stored has all its lines to upload; the others have none.
LEMMA Places ==
  ASSUME NEW l \in Line
  PROVE  Cardinality({n \in Line : n <= l}) = l
<1>1. {n \in Line : n <= l} = 1 .. l
  BY BulkOperationsAssumption DEF Line
<1>2. Cardinality(1 .. l) = l
  BY FS_Interval, BulkOperationsAssumption DEF Line
<1>. QED
  BY <1>1, <1>2

LEMMA Uploads ==
  ASSUME NEW r \in Run, stored[r] = Empty
  PROVE  Upload(r) = Line /\ \A l \in Line : Position(r, l) = l
<1>1. Upload(r) = Line
  BY DEF Upload, Done, Empty
<1>. QED
  BY <1>1, Places DEF Position

LEMMA AllUploaded ==
  ASSUME NEW r \in Run, SavedInv(r), stored[r] # Empty
  PROVE  Upload(r) = {}
  BY DEF SavedInv, Upload

LEMMA Sizes == Lines \in Nat /\ Lines > 0 /\ Line # {} /\ Line \subseteq Nat /\ Cardinality(Line) = Lines
<1>1. Cardinality(1 .. Lines) = Lines
  BY FS_Interval, BulkOperationsAssumption
<1>. QED
  BY <1>1, BulkOperationsAssumption DEF Line

\* What beginning, reporting and running do.
LEMMA Begins ==
  ASSUME OperationsOK, NEW r \in Run, SavedInv(r), BeginBulk(r)
  PROVE  /\ bulkStep[r] \in {"idle", "thrown", "returned"}
         /\ \A s \in Run \ {r} : /\ bulkStep'[s] = bulkStep[s] /\ report'[s] = report[s]
                                 /\ final'[s] = final[s] /\ again'[s] = again[s]
         /\ again'[r] \in 0 .. MaxAgain
         /\ again'[r] = IF bulkStep[r] = "idle" THEN 0 ELSE again[r] + 1
         /\ \/ /\ stored[r] # Empty /\ bulkStep[r] # "idle" /\ bulkStep'[r] = "returned"
               /\ report'[r] = report[r] /\ final'[r] = final[r]
            \/ /\ stored[r] = Empty /\ bulkStep'[r] = "staging" /\ report'[r] = Empty /\ final'[r] = NoOp
<1>1. /\ bulkStep[r] \in {"idle", "thrown", "returned"}
      /\ \A s \in Run \ {r} : /\ bulkStep'[s] = bulkStep[s] /\ report'[s] = report[s]
                              /\ final'[s] = final[s] /\ again'[s] = again[s]
  BY DEF BeginBulk, OperationsOK
<1>2. again[r] \in 0 .. MaxAgain /\ MaxAgain \in Nat
  BY BulkOperationsAssumption DEF OperationsOK
<1>3. again'[r] = IF bulkStep[r] = "idle" THEN 0 ELSE again[r] + 1
  BY DEF BeginBulk, OperationsOK
<1>4. again'[r] \in 0 .. MaxAgain
  BY <1>2, <1>3 DEF BeginBulk
<1>5. CASE stored[r] = Empty
  <2>1. Upload(r) # {}
    BY <1>5, Uploads, Sizes
  <2>. QED
    BY <1>1, <1>3, <1>4, <1>5, <2>1 DEF BeginBulk, OperationsOK
<1>6. CASE stored[r] # Empty
  <2>1. Upload(r) = {}
    BY <1>6, AllUploaded
  <2>2. bulkStep[r] # "idle" /\ report[r] = stored[r]
    BY <1>6 DEF SavedInv
  <2>. QED
    BY <1>1, <1>3, <1>4, <1>6, <2>1, <2>2 DEF BeginBulk, OperationsOK
<1>. QED
  BY <1>5, <1>6

LEMMA AllFailed ==
  ASSUME OperationsOK, NEW r \in Run, stored[r] = Empty, report[r] = Empty, ReportAllFailed(r)
  PROVE  /\ report'[r] = [good |-> {}, bad |-> Line] /\ report' \in [Run -> BulkReport]
         /\ \A s \in Run \ {r} : report'[s] = report[s]
<1>1. Upload(r) = Line
  BY Uploads
<1>2. report' = [report EXCEPT ![r] = [good |-> {}, bad |-> Line]]
  <2>1. PICK c : c = [report[r] EXCEPT !.bad = @ \cup Line]
    OBVIOUS
  <2>2. report' = [report EXCEPT ![r] = c]
    BY <1>1, <2>1 DEF ReportAllFailed, OperationsOK
  <2>3. c = [good |-> {}, bad |-> Line]
    BY <2>1 DEF Empty
  <2>. QED
    BY <2>2, <2>3
<1>3. [good |-> {}, bad |-> Line] \in BulkReport
  BY DEF BulkReport
<1>. QED
  BY <1>2, <1>3 DEF OperationsOK

LEMMA Reads ==
  ASSUME OperationsOK, NEW r \in Run, stored[r] = Empty, report[r] = Empty, ReadResults(r)
  PROVE  /\ report' \in [Run -> BulkReport] /\ \A s \in Run \ {r} : report'[s] = report[s]
         /\ Done(report'[r]) = Line /\ report'[r].good \cap report'[r].bad = {}
         /\ \A l \in report'[r].good : l \in DOMAIN final[r].outcome /\ final[r].outcome[l] = "ok"
<1>1. PICK G, B : G = {l \in Line : LineSucceeded(r, l)} /\ B = {l \in Line : ~LineSucceeded(r, l)}
  OBVIOUS
<1>2. Upload(r) = Line /\ \A l \in Line : Position(r, l) = l
  BY Uploads
<1>3. report' = [report EXCEPT ![r] = [good |-> G, bad |-> B]]
  <2>1. PICK c : c = [report[r] EXCEPT !.good = @ \cup G, !.bad = @ \cup B]
    OBVIOUS
  <2>2. report' = [report EXCEPT ![r].good = @ \cup G, ![r].bad = @ \cup B]
    BY <1>1, <1>2 DEF ReadResults
  <2>3. report' = [report EXCEPT ![r] = c]
    BY <2>1, <2>2 DEF OperationsOK
  <2>0. report[r].good = {} /\ report[r].bad = {} /\ report[r] \in BulkReport
    <3>1. report[r] = [good |-> {}, bad |-> {}]
      BY DEF Empty
    <3>2. report[r] \in BulkReport
      BY DEF OperationsOK
    <3>. QED
      BY <3>1, <3>2
  <2>4. c \in BulkReport /\ c.good = G /\ c.bad = B
    BY <1>1, <2>0, <2>1 DEF BulkReport
  <2>5. c = [good |-> G, bad |-> B]
    BY <2>4 DEF BulkReport
  <2>. QED
    BY <2>3, <2>5
<1>4. [good |-> G, bad |-> B] \in BulkReport
  BY <1>1 DEF BulkReport
<1>5. G \cup B = Line /\ G \cap B = {}
  BY <1>1
<1>6. \A l \in G : l \in DOMAIN final[r].outcome /\ final[r].outcome[l] = "ok"
  BY <1>1, <1>2 DEF LineSucceeded
<1>7. report'[r].good = G /\ report'[r].bad = B
  BY <1>3 DEF OperationsOK
<1>8. report' \in [Run -> BulkReport] /\ \A s \in Run \ {r} : report'[s] = report[s]
  BY <1>3, <1>4 DEF OperationsOK
<1>. QED
  BY <1>5, <1>6, <1>7, <1>8 DEF Done

LEMMA Runs ==
  ASSUME OperationsOK, Told(current), \A r \in Run : OwnInv(r), RunLines
  PROVE  /\ current.status = "running" /\ current.of \in Run /\ stored[current.of] = Empty
         /\ current' \in Operation /\ current'.of = current.of /\ current'.status \in Ended
         /\ ran' \in [Run -> [Line -> Nat]] /\ \A s \in Run \ {current.of} : ran'[s] = ran[s]
         /\ \A l \in Line : ran'[current.of][l] \in {ran[current.of][l], ran[current.of][l] + 1}
         /\ DOMAIN current'.outcome \subseteq Line
         /\ \A l \in DOMAIN current'.outcome : current'.outcome[l] = "ok" =>
              ran'[current.of][l] = ran[current.of][l] + 1
<1>. DEFINE p == current.of
<1>0. \E n \in 0 .. Cardinality(Upload(p)), status \in Ended : \E outcome \in [1 .. n -> Outcome] :
        /\ current' = [current EXCEPT !.status = status, !.outcome = outcome]
        /\ ran' = [ran EXCEPT ![p] = Executed(p, outcome)]
  BY DEF RunLines
<1>1. p = current.of
  OBVIOUS
<1>. HIDE DEF p
<1>2. p \in Run /\ current.status = "running"
  BY <1>1 DEF RunLines, Told, OperationsOK, Operation
<1>3. stored[p] = Empty
  BY <1>1, <1>2 DEF OwnInv
<1>4. Upload(p) = Line /\ \A l \in Line : Position(p, l) = l
  BY <1>2, <1>3, Uploads
<1>5. PICK n \in 0 .. Lines, status \in Ended : \E outcome \in [1 .. n -> Outcome] :
        /\ current' = [current EXCEPT !.status = status, !.outcome = outcome]
        /\ ran' = [ran EXCEPT ![p] = Executed(p, outcome)]
  <2>1. Cardinality(Upload(p)) = Lines
    BY <1>4, Sizes
  <2>. QED
    BY <1>0, <2>1
<1>o. PICK outcome \in [1 .. n -> Outcome] :
        /\ current' = [current EXCEPT !.status = status, !.outcome = outcome]
        /\ ran' = [ran EXCEPT ![p] = Executed(p, outcome)]
  BY <1>5
<1>6. PICK f : f = [l \in Line |-> IF l \in DOMAIN outcome /\ outcome[l] = "ok"
                                  THEN ran[p][l] + 1 ELSE ran[p][l]]
  OBVIOUS
<1>7. ran' = [ran EXCEPT ![p] = f]
  <2>1. f = Executed(p, outcome)
    BY <1>4, <1>6 DEF Executed
  <2>. QED
    BY <1>o, <2>1
<1>8. f \in [Line -> Nat]
  BY <1>2, <1>6 DEF OperationsOK
<1>9. current' \in Operation /\ current'.of = p /\ current'.status = status /\ current'.outcome = outcome
  <2>1. outcome \in UNION {[1 .. m -> Outcome] : m \in 0 .. Lines}
    BY <1>o
  <2>. QED
    BY <1>1, <1>o, <2>1 DEF OperationsOK, Operation, Ended
<1>10. DOMAIN outcome \subseteq Line
  BY <1>o, Sizes DEF Line
<1>11. ran'[p] = f /\ ran' \in [Run -> [Line -> Nat]] /\ \A s \in Run \ {p} : ran'[s] = ran[s]
  BY <1>2, <1>7, <1>8 DEF OperationsOK
<1>12. \A l \in Line : f[l] \in {ran[p][l], ran[p][l] + 1}
  BY <1>6
<1>13. \A l \in DOMAIN outcome : outcome[l] = "ok" => f[l] = ran[p][l] + 1
  BY <1>6, <1>10
<1>. QED
  BY <1>1, <1>2, <1>3, <1>5, <1>9, <1>10, <1>11, <1>12, <1>13

LEMMA EmptyOperation ==
  /\ NoOp \in Operation /\ Empty \in BulkReport
  /\ \A r \in Run : [of |-> r, status |-> "running", outcome |-> <<>>] \in Operation
<1>1. <<>> \in UNION {[1 .. n -> Outcome] : n \in 0 .. Lines}
  <2>1. 0 \in 0 .. Lines /\ <<>> \in [1 .. 0 -> Outcome]
    BY Sizes
  <2>. QED
    BY <2>1
<1>2. NoOp \in Operation /\ \A r \in Run : [of |-> r, status |-> "running", outcome |-> <<>>] \in Operation
  BY <1>1 DEF NoOp, Operation
<1>. QED
  BY <1>2 DEF Empty, BulkReport

\* Every step keeps the types.
LEMMA OperationsTyped ==
  ASSUME OperationsInv, [BulkOperationsNext]_operationVars
  PROVE  OperationsOK'
<1>a. OperationsOK /\ Told(current)
  BY DEF OperationsInv
<1>b. \A s \in Run : SavedInv(s) /\ OwnInv(s) /\ FinalInv(s) /\ OnceInv(s) /\ CountInv(s)
  BY DEF OperationsInv
<1>1. ASSUME NEW r \in Run, BeginBulk(r) PROVE OperationsOK'
  <2>1. SavedInv(r)
    BY <1>b
  <2>2. NoOp \in Operation /\ Empty \in BulkReport
    BY EmptyOperation
  <2>3. PICK n : n = again'[r]
    OBVIOUS
  <2>4. again' = [again EXCEPT ![r] = n] /\ n \in 0 .. MaxAgain
    BY <1>1, <1>a, <2>1, <2>3, Begins DEF BeginBulk, OperationsOK
  <2>. QED
    BY <1>1, <1>a, <2>2, <2>4 DEF BeginBulk, OperationsOK, Steps
<1>2. ASSUME NEW r \in Run, Stage(r) PROVE OperationsOK'
  <2>1. bulkStep[r] = "staging" /\ stored[r] = Empty /\ report[r] = Empty
    BY <1>2, <1>b DEF Stage, Move, SavedInv
  <2>2. report' \in [Run -> BulkReport]
    BY <1>2, <1>a, <2>1, AllFailed DEF Stage, OperationsOK
  <2>. QED
    BY <1>2, <1>a, <2>2 DEF Stage, Move, OperationsOK, Steps
<1>3. ASSUME NEW r \in Run, UploadLines(r) PROVE OperationsOK'
  BY <1>3, <1>a DEF UploadLines, Move, OperationsOK, Steps
<1>4. ASSUME NEW r \in Run, StartOperation(r) PROVE OperationsOK'
  BY <1>4, <1>a DEF StartOperation, Move, OperationsOK, Steps
<1>5. ASSUME NEW r \in Run, TakeOperation(r) PROVE OperationsOK'
  <2>1. [of |-> r, status |-> "running", outcome |-> <<>>] \in Operation
    BY EmptyOperation
  <2>. QED
    BY <1>5, <1>a, <2>1 DEF TakeOperation, Move, OperationsOK, Steps
<1>6. ASSUME NEW r \in Run, Poll(r) PROVE OperationsOK'
  BY <1>6, <1>a DEF Poll, Move, OperationsOK, Steps
<1>7. ASSUME NEW r \in Run, ReadOperation(r) PROVE OperationsOK'
  <2>1. bulkStep[r] = "reading" /\ stored[r] = Empty /\ report[r] = Empty
    BY <1>7, <1>b DEF ReadOperation, Move, SavedInv
  <2>2. report' \in [Run -> BulkReport]
    BY <1>7, <1>a, <2>1, AllFailed DEF ReadOperation, OperationsOK
  <2>3. PICK op \in {current, NoOp} : final' = [final EXCEPT ![r] = op]
    BY <1>7 DEF ReadOperation
  <2>4. final' \in [Run -> Operation]
    BY <1>a, <2>3, EmptyOperation DEF OperationsOK
  <2>5. bulkStep' \in [Run -> Steps] /\ unsaved' \in [Run -> BOOLEAN]
    BY <1>7, <1>a DEF ReadOperation, Move, OperationsOK, Steps
  <2>. QED
    BY <1>7, <1>a, <2>2, <2>4, <2>5 DEF ReadOperation, OperationsOK
<1>8. ASSUME NEW r \in Run, ReadResults(r) PROVE OperationsOK'
  <2>1. bulkStep[r] = "downloading" /\ stored[r] = Empty /\ report[r] = Empty
    BY <1>8, <1>b DEF ReadResults, Move, SavedInv
  <2>2. report' \in [Run -> BulkReport]
    BY <1>8, <1>a, <2>1, Reads
  <2>. QED
    BY <1>8, <1>a, <2>2 DEF ReadResults, Move, OperationsOK, Steps
<1>9. ASSUME NEW r \in Run, AttemptThrows(r) PROVE OperationsOK'
  BY <1>9, <1>a DEF AttemptThrows, Move, OperationsOK, Steps
<1>10. ASSUME NEW r \in Run, StoreCheckpoint(r) PROVE OperationsOK'
  BY <1>10, <1>a DEF StoreCheckpoint, Move, OperationsOK, Steps
<1>11. CASE RunLines
  <2>1. current' \in Operation /\ ran' \in [Run -> [Line -> Nat]]
    BY <1>11, <1>a, <1>b, Runs
  <2>. QED
    BY <1>11, <1>a, <2>1 DEF RunLines, OperationsOK
<1>12. CASE UNCHANGED operationVars
  BY <1>12, <1>a DEF operationVars, OperationsOK, Steps
<1>. QED
  BY <1>1, <1>2, <1>3, <1>4, <1>5, <1>6, <1>7, <1>8, <1>9, <1>10, <1>11, <1>12
     DEF BulkOperationsNext

\* Every step keeps checkpoints whole.
LEMMA SavedStep ==
  ASSUME OperationsInv, [BulkOperationsNext]_operationVars, NEW x \in Run
  PROVE  SavedInv(x)'
<1>a. OperationsOK /\ Told(current)
  BY DEF OperationsInv
<1>b. \A s \in Run : SavedInv(s) /\ OwnInv(s) /\ FinalInv(s) /\ OnceInv(s) /\ CountInv(s)
  BY DEF OperationsInv
<1>1. ASSUME NEW r \in Run, BeginBulk(r) PROVE SavedInv(x)'
  <2>1. SavedInv(r)
    BY <1>b
  <2>2. CASE x # r
    BY <1>1, <1>a, <1>b, <2>1, <2>2, Begins DEF BeginBulk, SavedInv, Done
  <2>3. CASE x = r
    <3>1. stored' = stored
      BY <1>1 DEF BeginBulk
    <3>2. CASE stored[r] # Empty /\ bulkStep'[r] = "returned" /\ report'[r] = report[r]
      BY <2>1, <2>3, <3>1, <3>2 DEF SavedInv, Done
    <3>3. CASE stored[r] = Empty /\ bulkStep'[r] = "staging" /\ report'[r] = Empty
      BY <2>3, <3>1, <3>3 DEF SavedInv
    <3>. QED
      BY <1>1, <1>a, <2>1, <3>2, <3>3, Begins
  <2>. QED
    BY <2>2, <2>3
<1>2. ASSUME NEW r \in Run, Stage(r) PROVE SavedInv(x)'
  <2>1. bulkStep[r] = "staging" /\ stored[r] = Empty /\ report[r] = Empty
    BY <1>2, <1>b DEF Stage, Move, SavedInv
  <2>2. ASSUME ReportAllFailed(r)
        PROVE  /\ Done(report'[r]) = Line /\ report'[r].good \cap report'[r].bad = {}
               /\ \A s \in Run \ {r} : report'[s] = report[s]
    BY <1>a, <2>1, <2>2, AllFailed DEF Done
  <2>. QED
    BY <1>2, <1>a, <1>b, <2>1, <2>2 DEF Stage, Move, OperationsOK, SavedInv
<1>3. ASSUME NEW r \in Run, UploadLines(r) PROVE SavedInv(x)'
  BY <1>3, <1>a, <1>b DEF UploadLines, Move, SavedInv, OperationsOK, Done
<1>4. ASSUME NEW r \in Run, StartOperation(r) PROVE SavedInv(x)'
  BY <1>4, <1>a, <1>b DEF StartOperation, Move, SavedInv, OperationsOK, Done
<1>5. ASSUME NEW r \in Run, TakeOperation(r) PROVE SavedInv(x)'
  BY <1>5, <1>a, <1>b DEF TakeOperation, Move, SavedInv, OperationsOK, Done
<1>6. ASSUME NEW r \in Run, Poll(r) PROVE SavedInv(x)'
  BY <1>6, <1>a, <1>b DEF Poll, Move, SavedInv, OperationsOK, Done
<1>7. ASSUME NEW r \in Run, ReadOperation(r) PROVE SavedInv(x)'
  <2>1. bulkStep[r] = "reading" /\ stored[r] = Empty /\ report[r] = Empty
    BY <1>7, <1>b DEF ReadOperation, Move, SavedInv
  <2>2. ASSUME ReportAllFailed(r)
        PROVE  /\ Done(report'[r]) = Line /\ report'[r].good \cap report'[r].bad = {}
               /\ \A s \in Run \ {r} : report'[s] = report[s]
    BY <1>a, <2>1, <2>2, AllFailed DEF Done
  <2>. QED
    BY <1>7, <1>a, <1>b, <2>1, <2>2 DEF ReadOperation, Move, OperationsOK, SavedInv
<1>8. ASSUME NEW r \in Run, ReadResults(r) PROVE SavedInv(x)'
  <2>1. bulkStep[r] = "downloading" /\ stored[r] = Empty /\ report[r] = Empty
    BY <1>8, <1>b DEF ReadResults, Move, SavedInv
  <2>2. /\ Done(report'[r]) = Line /\ report'[r].good \cap report'[r].bad = {}
        /\ \A s \in Run \ {r} : report'[s] = report[s]
    BY <1>8, <1>a, <2>1, Reads
  <2>. QED
    BY <1>8, <1>a, <1>b, <2>1, <2>2 DEF ReadResults, Move, OperationsOK, SavedInv
<1>9. ASSUME NEW r \in Run, AttemptThrows(r) PROVE SavedInv(x)'
  BY <1>9, <1>a, <1>b DEF AttemptThrows, Move, SavedInv, OperationsOK, Done
<1>10. ASSUME NEW r \in Run, StoreCheckpoint(r) PROVE SavedInv(x)'
  BY <1>10, <1>a, <1>b DEF StoreCheckpoint, Move, SavedInv, OperationsOK, Done
<1>11. CASE RunLines
  BY <1>11, <1>a, <1>b DEF RunLines, SavedInv, OperationsOK, Done
<1>12. CASE UNCHANGED operationVars
  BY <1>12, <1>a, <1>b DEF operationVars, SavedInv, OperationsOK, Done
<1>. QED
  BY <1>1, <1>2, <1>3, <1>4, <1>5, <1>6, <1>7, <1>8, <1>9, <1>10, <1>11, <1>12
     DEF BulkOperationsNext

\* Every step keeps the operation of a run apart from its results.
LEMMA OwnStep ==
  ASSUME OperationsInv, [BulkOperationsNext]_operationVars, NEW x \in Run
  PROVE  OwnInv(x)'
<1>a. OperationsOK /\ Told(current)
  BY DEF OperationsInv
<1>b. \A s \in Run : SavedInv(s) /\ OwnInv(s) /\ FinalInv(s) /\ OnceInv(s) /\ CountInv(s)
  BY DEF OperationsInv
<1>1. ASSUME NEW r \in Run, BeginBulk(r) PROVE OwnInv(x)'
  <2>1. SavedInv(r)
    BY <1>b
  <2>. QED
    BY <1>1, <1>a, <1>b, <2>1, Begins DEF BeginBulk, OwnInv
<1>2. ASSUME NEW r \in Run, Stage(r) PROVE OwnInv(x)'
  BY <1>2, <1>a, <1>b DEF Stage, Move, OwnInv, OperationsOK
<1>3. ASSUME NEW r \in Run, UploadLines(r) PROVE OwnInv(x)'
  BY <1>3, <1>a, <1>b DEF UploadLines, Move, OwnInv, OperationsOK
<1>4. ASSUME NEW r \in Run, StartOperation(r) PROVE OwnInv(x)'
  BY <1>4, <1>a, <1>b DEF StartOperation, Move, OwnInv, OperationsOK
<1>5. ASSUME NEW r \in Run, TakeOperation(r) PROVE OwnInv(x)'
  BY <1>5, <1>a, <1>b DEF TakeOperation, Move, OwnInv, SavedInv, OperationsOK
<1>6. ASSUME NEW r \in Run, Poll(r) PROVE OwnInv(x)'
  BY <1>6, <1>a, <1>b DEF Poll, Move, OwnInv, OperationsOK, Ended
<1>7. ASSUME NEW r \in Run, ReadOperation(r) PROVE OwnInv(x)'
  BY <1>7, <1>a, <1>b DEF ReadOperation, Move, OwnInv, OperationsOK
<1>8. ASSUME NEW r \in Run, ReadResults(r) PROVE OwnInv(x)'
  BY <1>8, <1>a, <1>b DEF ReadResults, Move, OwnInv, OperationsOK
<1>9. ASSUME NEW r \in Run, AttemptThrows(r) PROVE OwnInv(x)'
  BY <1>9, <1>a, <1>b DEF AttemptThrows, Move, OwnInv, OperationsOK
<1>10. ASSUME NEW r \in Run, StoreCheckpoint(r) PROVE OwnInv(x)'
  BY <1>10, <1>a, <1>b DEF StoreCheckpoint, Move, OwnInv, OperationsOK
<1>11. CASE RunLines
  BY <1>11, <1>a, <1>b, Runs DEF OwnInv, Ended
<1>12. CASE UNCHANGED operationVars
  BY <1>12, <1>a, <1>b DEF operationVars, OwnInv, OperationsOK
<1>. QED
  BY <1>1, <1>2, <1>3, <1>4, <1>5, <1>6, <1>7, <1>8, <1>9, <1>10, <1>11, <1>12
     DEF BulkOperationsNext

\* Lines never run less often, and what was told of them stays true.
LEMMA OutcomeLines ==
  ASSUME NEW op \in Operation
  PROVE  DOMAIN op.outcome \subseteq Line
<1>1. PICK n \in 0 .. Lines : op.outcome \in [1 .. n -> Outcome]
  BY DEF Operation
<1>2. DOMAIN op.outcome = 1 .. n
  BY <1>1
<1>. QED
  BY <1>2, Sizes DEF Line

LEMMA RanGrows ==
  ASSUME OperationsInv, [BulkOperationsNext]_operationVars, NEW x \in Run, NEW l \in Line
  PROVE  ran[x][l] \in Nat /\ ran'[x][l] \in Nat /\ ran[x][l] <= ran'[x][l]
<1>a. OperationsOK /\ Told(current)
  BY DEF OperationsInv
<1>b. \A s \in Run : OwnInv(s)
  BY DEF OperationsInv
<1>c. ran[x][l] \in Nat /\ ran'[x][l] \in Nat
  BY <1>a, OperationsTyped DEF OperationsOK
<1>1. CASE RunLines
  BY <1>1, <1>a, <1>b, <1>c, Runs
<1>2. CASE ran' = ran
  BY <1>2, <1>c
<1>. QED
  BY <1>1, <1>2 DEF BulkOperationsNext, BeginBulk, Stage, UploadLines, StartOperation, TakeOperation,
     Poll,
     ReadOperation, ReadResults, AttemptThrows, StoreCheckpoint, operationVars

LEMMA ToldStays ==
  ASSUME OperationsInv, [BulkOperationsNext]_operationVars, NEW op \in Operation, Told(op)
  PROVE  Told(op)'
<1>1. ASSUME op.of # NoRun, NEW l \in DOMAIN op.outcome, op.outcome[l] = "ok" PROVE ran'[op.of][l] > 0
  <2>1. l \in Line /\ op.of \in Run
    BY <1>1, OutcomeLines DEF Operation
  <2>2. ran[op.of][l] > 0
    BY <1>1 DEF Told
  <2>. QED
    BY <2>1, <2>2, RanGrows
<1>. QED
  BY <1>1 DEF Told

\* Every step keeps what the current operation says true.
LEMMA CurrentStep ==
  ASSUME OperationsInv, [BulkOperationsNext]_operationVars
  PROVE  Told(current)'
<1>a. OperationsOK /\ Told(current)
  BY DEF OperationsInv
<1>b. \A s \in Run : SavedInv(s) /\ OwnInv(s) /\ FinalInv(s) /\ OnceInv(s) /\ CountInv(s)
  BY DEF OperationsInv
<1>1. ASSUME NEW r \in Run, BeginBulk(r) PROVE Told(current)'
  <2>1. current' = current /\ ran' = ran
    BY <1>1 DEF BeginBulk
  <2>. QED
    BY <1>a, <2>1 DEF Told
<1>2. ASSUME NEW r \in Run, Stage(r) PROVE Told(current)'
  <2>1. current' = current /\ ran' = ran
    BY <1>2 DEF Stage, Move
  <2>. QED
    BY <1>a, <2>1 DEF Told
<1>3. ASSUME NEW r \in Run, UploadLines(r) PROVE Told(current)'
  <2>1. current' = current /\ ran' = ran
    BY <1>3 DEF UploadLines, Move
  <2>. QED
    BY <1>a, <2>1 DEF Told
<1>4. ASSUME NEW r \in Run, StartOperation(r) PROVE Told(current)'
  <2>1. current' = current /\ ran' = ran
    BY <1>4 DEF StartOperation, Move
  <2>. QED
    BY <1>a, <2>1 DEF Told
<1>5. ASSUME NEW r \in Run, TakeOperation(r) PROVE Told(current)'
  <2>1. current' = [of |-> r, status |-> "running", outcome |-> <<>>] /\ r # NoRun
    BY <1>5, BulkOperationsAssumption DEF TakeOperation
  <2>2. DOMAIN current'.outcome = {}
    BY <2>1
  <2>. QED
    BY <2>1, <2>2 DEF Told
<1>6. ASSUME NEW r \in Run, Poll(r) PROVE Told(current)'
  <2>1. current' = current /\ ran' = ran
    BY <1>6 DEF Poll, Move
  <2>. QED
    BY <1>a, <2>1 DEF Told
<1>7. ASSUME NEW r \in Run, ReadOperation(r) PROVE Told(current)'
  <2>1. current' = current /\ ran' = ran
    BY <1>7 DEF ReadOperation, Move
  <2>. QED
    BY <1>a, <2>1 DEF Told
<1>8. ASSUME NEW r \in Run, ReadResults(r) PROVE Told(current)'
  <2>1. current' = current /\ ran' = ran
    BY <1>8 DEF ReadResults, Move
  <2>. QED
    BY <1>a, <2>1 DEF Told
<1>9. ASSUME NEW r \in Run, AttemptThrows(r) PROVE Told(current)'
  <2>1. current' = current /\ ran' = ran
    BY <1>9 DEF AttemptThrows, Move
  <2>. QED
    BY <1>a, <2>1 DEF Told
<1>10. ASSUME NEW r \in Run, StoreCheckpoint(r) PROVE Told(current)'
  <2>1. current' = current /\ ran' = ran
    BY <1>10 DEF StoreCheckpoint, Move
  <2>. QED
    BY <1>a, <2>1 DEF Told
<1>11. CASE RunLines
  <2>1. /\ current'.of = current.of /\ current.of \in Run /\ current'.status \in Ended
        /\ DOMAIN current'.outcome \subseteq Line
        /\ \A l \in DOMAIN current'.outcome : current'.outcome[l] = "ok" =>
             ran'[current.of][l] = ran[current.of][l] + 1
    BY <1>11, <1>a, <1>b, Runs
  <2>2. \A l \in Line : ran[current.of][l] \in Nat
    BY <1>a, <2>1 DEF OperationsOK
  <2>3. current.of # NoRun
    BY <2>1, BulkOperationsAssumption
  <2>4. \A l \in DOMAIN current'.outcome : current'.outcome[l] = "ok" => ran'[current'.of][l] > 0
    BY <2>1, <2>2
  <2>. QED
    BY <2>1, <2>3, <2>4 DEF Told, Ended
<1>12. CASE UNCHANGED operationVars
  <2>1. current' = current /\ ran' = ran
    BY <1>12 DEF operationVars
  <2>. QED
    BY <1>a, <2>1 DEF Told
<1>. QED
  BY <1>1, <1>2, <1>3, <1>4, <1>5, <1>6, <1>7, <1>8, <1>9, <1>10, <1>11, <1>12
     DEF BulkOperationsNext

\* What a run takes for its operation.
Takes(x) ==
  /\ final'[x] \in {final[x], NoOp, current}
  /\ bulkStep'[x] = "downloading" =>
       \/ bulkStep[x] = "downloading" /\ final'[x] = final[x]
       \/ final'[x] = current /\ current.status = "completed"

LEMMA TakesOne ==
  ASSUME OperationsInv, [BulkOperationsNext]_operationVars, NEW x \in Run
  PROVE  Takes(x)
<1>a. OperationsOK /\ Told(current)
  BY DEF OperationsInv
<1>b. \A s \in Run : SavedInv(s) /\ OwnInv(s) /\ FinalInv(s) /\ OnceInv(s) /\ CountInv(s)
  BY DEF OperationsInv
<1>1. ASSUME NEW r \in Run, BeginBulk(r) PROVE Takes(x)
  <2>1. SavedInv(r)
    BY <1>b
  <2>2. x # r => final'[x] = final[x] /\ bulkStep'[x] = bulkStep[x]
    BY <1>1, <1>a, <2>1, Begins
  <2>3. x = r => final'[x] \in {final[x], NoOp} /\ bulkStep'[x] # "downloading"
    BY <1>1, <1>a, <2>1, Begins
  <2>. QED
    BY <2>2, <2>3 DEF Takes
<1>2. ASSUME NEW r \in Run, Stage(r) PROVE Takes(x)
  BY <1>2, <1>a DEF Stage, Move, OperationsOK, Takes
<1>3. ASSUME NEW r \in Run, UploadLines(r) PROVE Takes(x)
  BY <1>3, <1>a DEF UploadLines, Move, OperationsOK, Takes
<1>4. ASSUME NEW r \in Run, StartOperation(r) PROVE Takes(x)
  BY <1>4, <1>a DEF StartOperation, Move, OperationsOK, Takes
<1>5. ASSUME NEW r \in Run, TakeOperation(r) PROVE Takes(x)
  BY <1>5, <1>a DEF TakeOperation, Move, OperationsOK, Takes
<1>6. ASSUME NEW r \in Run, Poll(r) PROVE Takes(x)
  BY <1>6, <1>a DEF Poll, Move, OperationsOK, Takes
<1>7. ASSUME NEW r \in Run, ReadOperation(r) PROVE Takes(x)
  <2>1. PICK op \in {current, NoOp} :
          /\ final' = [final EXCEPT ![r] = op]
          /\ (op.status = "completed" /\ Move(r, "reading", "downloading"))
             \/ Move(r, "reading", "returned")
    BY <1>7 DEF ReadOperation
  <2>2. final'[x] = IF x = r THEN op ELSE final[x]
    BY <1>a, <2>1 DEF OperationsOK
  <2>3. /\ x # r => bulkStep'[x] = bulkStep[x]
        /\ x = r /\ bulkStep'[x] = "downloading" => op.status = "completed"
    BY <1>a, <2>1 DEF Move, OperationsOK
  <2>4. op.status = "completed" => op = current
    BY <2>1 DEF NoOp
  <2>. QED
    BY <2>1, <2>2, <2>3, <2>4 DEF Takes
<1>8. ASSUME NEW r \in Run, ReadResults(r) PROVE Takes(x)
  BY <1>8, <1>a DEF ReadResults, Move, OperationsOK, Takes
<1>9. ASSUME NEW r \in Run, AttemptThrows(r) PROVE Takes(x)
  BY <1>9, <1>a DEF AttemptThrows, Move, OperationsOK, Takes
<1>10. ASSUME NEW r \in Run, StoreCheckpoint(r) PROVE Takes(x)
  BY <1>10, <1>a DEF StoreCheckpoint, Move, OperationsOK, Takes
<1>11. CASE RunLines
  BY <1>11, <1>a DEF RunLines, OperationsOK, Takes
<1>12. CASE UNCHANGED operationVars
  BY <1>12, <1>a DEF operationVars, OperationsOK, Takes
<1>. QED
  BY <1>1, <1>2, <1>3, <1>4, <1>5, <1>6, <1>7, <1>8, <1>9, <1>10, <1>11, <1>12
     DEF BulkOperationsNext

\* Every step keeps what a run takes for its operation true.
LEMMA FinalStep ==
  ASSUME OperationsInv, [BulkOperationsNext]_operationVars, NEW x \in Run
  PROVE  Told(final[x])' /\ FinalInv(x)'
<1>a. OperationsOK /\ Told(current) /\ Told(final[x]) /\ FinalInv(x)
  BY DEF OperationsInv
<1>b. Takes(x)
  BY TakesOne
<1>1. final[x] \in Operation /\ NoOp \in Operation /\ current \in Operation
  BY <1>a, EmptyOperation DEF OperationsOK
<1>2. Told(NoOp)
  BY DEF Told, NoOp
<1>3. PICK op : op = final'[x]
  OBVIOUS
<1>4. op \in Operation /\ Told(op)
  BY <1>a, <1>b, <1>1, <1>2, <1>3 DEF Takes
<1>5. Told(op)'
  BY <1>4, ToldStays
<1>6. Told(final[x])'
  BY <1>3, <1>5 DEF Told
<1>7. FinalInv(x)'
  BY <1>a, <1>b DEF FinalInv, Told, Takes
<1>. QED
  BY <1>6, <1>7

\* Every step keeps the lines reported good to those that ran.
LEMMA ReportStep ==
  ASSUME OperationsInv, [BulkOperationsNext]_operationVars, NEW x \in Run
  PROVE  ReportInv(x)'
<1>a. OperationsOK /\ Told(current) /\ ReportInv(x)
  BY DEF OperationsInv
<1>b. \A s \in Run : SavedInv(s) /\ FinalInv(s) /\ Told(final[s])
  BY DEF OperationsInv
<1>c. \A l \in Line : ran[x][l] \in Nat /\ ran'[x][l] \in Nat /\ ran[x][l] <= ran'[x][l]
  BY RanGrows
<1>d. report[x].good \subseteq Line
  BY <1>a DEF OperationsOK, BulkReport
<1>e. report'[x].good = report[x].good /\ final'[x] = final[x] => ReportInv(x)'
  BY <1>a, <1>c, <1>d DEF ReportInv
<1>f. report'[x].good = {} => ReportInv(x)'
  BY DEF ReportInv
<1>1. ASSUME NEW r \in Run, BeginBulk(r) PROVE ReportInv(x)'
  <2>1. SavedInv(r)
    BY <1>b
  <2>2. (report'[x] = report[x] /\ final'[x] = final[x]) \/ report'[x] = Empty
    BY <1>1, <1>a, <2>1, Begins
  <2>. QED
    BY <1>e, <1>f, <2>2 DEF Empty
<1>2. ASSUME NEW r \in Run, Stage(r) PROVE ReportInv(x)'
  <2>1. bulkStep[r] = "staging" /\ stored[r] = Empty /\ report[r] = Empty
    BY <1>2, <1>b DEF Stage, Move, SavedInv
  <2>2. ASSUME ReportAllFailed(r)
        PROVE  IF x = r THEN report'[x].good = {} ELSE report'[x] = report[x]
    BY <1>a, <2>1, <2>2, AllFailed
  <2>3. x # r => final'[x] = final[x]
    BY <1>2, <1>a DEF Stage, OperationsOK
  <2>4. report' = report \/ ReportAllFailed(r)
    BY <1>2 DEF Stage
  <2>5. x = r => report'[x].good = {}
    BY <2>1, <2>2, <2>4 DEF Empty
  <2>6. x # r => report'[x].good = report[x].good
    BY <2>2, <2>4
  <2>. QED
    BY <1>e, <1>f, <2>3, <2>5, <2>6
<1>3. ASSUME NEW r \in Run, UploadLines(r) PROVE ReportInv(x)'
  BY <1>3, <1>e DEF UploadLines, Move
<1>4. ASSUME NEW r \in Run, StartOperation(r) PROVE ReportInv(x)'
  BY <1>4, <1>e DEF StartOperation, Move
<1>5. ASSUME NEW r \in Run, TakeOperation(r) PROVE ReportInv(x)'
  BY <1>5, <1>e DEF TakeOperation, Move
<1>6. ASSUME NEW r \in Run, Poll(r) PROVE ReportInv(x)'
  BY <1>6, <1>e DEF Poll, Move
<1>7. ASSUME NEW r \in Run, ReadOperation(r) PROVE ReportInv(x)'
  <2>1. bulkStep[r] = "reading" /\ stored[r] = Empty /\ report[r] = Empty
    BY <1>7, <1>b DEF ReadOperation, Move, SavedInv
  <2>2. ASSUME ReportAllFailed(r)
        PROVE  IF x = r THEN report'[x].good = {} ELSE report'[x] = report[x]
    BY <1>a, <2>1, <2>2, AllFailed
  <2>3. x # r => final'[x] = final[x]
    BY <1>7, <1>a DEF ReadOperation, OperationsOK
  <2>4. report' = report \/ ReportAllFailed(r)
    BY <1>7 DEF ReadOperation
  <2>5. x = r => report'[x].good = {}
    BY <2>1, <2>2, <2>4 DEF Empty
  <2>6. x # r => report'[x].good = report[x].good
    BY <2>2, <2>4
  <2>. QED
    BY <1>e, <1>f, <2>3, <2>5, <2>6
<1>8. ASSUME NEW r \in Run, ReadResults(r) PROVE ReportInv(x)'
  <2>1. bulkStep[r] = "downloading" /\ stored[r] = Empty /\ report[r] = Empty /\ final[r].of # NoRun
    BY <1>8, <1>b DEF ReadResults, Move, SavedInv, FinalInv
  <2>2. /\ report' \in [Run -> BulkReport] /\ (\A s \in Run \ {r} : report'[s] = report[s])
        /\ \A l \in report'[r].good : l \in DOMAIN final[r].outcome /\ final[r].outcome[l] = "ok"
    BY <1>8, <1>a, <2>1, Reads
  <2>3. final' = final /\ ran' = ran
    BY <1>8 DEF ReadResults
  <2>4. CASE x # r
    BY <1>e, <2>2, <2>3, <2>4
  <2>5. CASE x = r
    BY <1>b, <2>1, <2>2, <2>3, <2>5 DEF Told, ReportInv
  <2>. QED
    BY <2>4, <2>5
<1>9. ASSUME NEW r \in Run, AttemptThrows(r) PROVE ReportInv(x)'
  BY <1>9, <1>e DEF AttemptThrows, Move
<1>10. ASSUME NEW r \in Run, StoreCheckpoint(r) PROVE ReportInv(x)'
  BY <1>10, <1>e DEF StoreCheckpoint, Move
<1>11. CASE RunLines
  BY <1>11, <1>e DEF RunLines
<1>12. CASE UNCHANGED operationVars
  BY <1>12, <1>e DEF operationVars
<1>. QED
  BY <1>1, <1>2, <1>3, <1>4, <1>5, <1>6, <1>7, <1>8, <1>9, <1>10, <1>11, <1>12
     DEF BulkOperationsNext

\* Every step keeps the lines to one run for each attempt.
LEMMA CountStep ==
  ASSUME OperationsInv, [BulkOperationsNext]_operationVars, NEW x \in Run
  PROVE  CountInv(x)'
<1>a. OperationsOK /\ Told(current) /\ CountInv(x)
  BY DEF OperationsInv
<1>b. \A s \in Run : SavedInv(s) /\ OwnInv(s)
  BY DEF OperationsInv
<1>c. (\A l \in Line : ran[x][l] \in Nat) /\ again[x] \in Nat
  BY <1>a, BulkOperationsAssumption DEF OperationsOK
<1>1. ASSUME NEW r \in Run, BeginBulk(r) PROVE CountInv(x)'
  <2>1. SavedInv(r) /\ Executing(x)' = Executing(x) /\ ran' = ran /\ Executing(x) \in {0, 1}
    BY <1>1, <1>b DEF BeginBulk, Executing
  <2>2. CASE x # r
    BY <1>1, <1>a, <2>1, <2>2, Begins DEF CountInv
  <2>3. CASE x = r
    <3>1. /\ again'[x] = IF bulkStep[x] = "idle" THEN 0 ELSE again[x] + 1
          /\ bulkStep'[x] \in {"returned", "staging"}
      BY <1>1, <1>a, <2>1, <2>3, Begins
    <3>. QED
      BY <1>a, <1>c, <2>1, <3>1 DEF CountInv
  <2>. QED
    BY <2>2, <2>3
<1>2. ASSUME NEW r \in Run, Stage(r) PROVE CountInv(x)'
  <2>1. /\ ran' = ran /\ again' = again /\ current' = current
        /\ bulkStep'[x] = bulkStep[x]
           \/ (bulkStep'[x] # "idle"
               /\ (bulkStep'[x] \in {"uploading", "starting"} =>
                     bulkStep[x] \in {"staging", "uploading"})
               /\ bulkStep'[x] # "staging")
    BY <1>2, <1>a DEF Stage, Move, OperationsOK
  <2>2. Executing(x)' = Executing(x)
    BY <2>1 DEF Executing
  <2>. QED
    BY <1>a, <2>1, <2>2 DEF CountInv
<1>3. ASSUME NEW r \in Run, UploadLines(r) PROVE CountInv(x)'
  <2>1. /\ ran' = ran /\ again' = again /\ current' = current
        /\ bulkStep'[x] = bulkStep[x]
           \/ (bulkStep'[x] # "idle"
               /\ (bulkStep'[x] \in {"uploading", "starting"} =>
                     bulkStep[x] \in {"staging", "uploading"})
               /\ bulkStep'[x] # "staging")
    BY <1>3, <1>a DEF UploadLines, Move, OperationsOK
  <2>2. Executing(x)' = Executing(x)
    BY <2>1 DEF Executing
  <2>. QED
    BY <1>a, <2>1, <2>2 DEF CountInv
<1>4. ASSUME NEW r \in Run, StartOperation(r) PROVE CountInv(x)'
  <2>1. /\ ran' = ran /\ again' = again /\ current' = current
        /\ bulkStep'[x] = bulkStep[x]
           \/ (bulkStep'[x] # "idle"
               /\ (bulkStep'[x] \in {"uploading", "starting"} =>
                     bulkStep[x] \in {"staging", "uploading"})
               /\ bulkStep'[x] # "staging")
    BY <1>4, <1>a DEF StartOperation, Move, OperationsOK
  <2>2. Executing(x)' = Executing(x)
    BY <2>1 DEF Executing
  <2>. QED
    BY <1>a, <2>1, <2>2 DEF CountInv
<1>5. ASSUME NEW r \in Run, TakeOperation(r) PROVE CountInv(x)'
  <2>1. /\ bulkStep[r] = "starting" /\ bulkStep' = [bulkStep EXCEPT ![r] = "taken"]
        /\ ran' = ran /\ again' = again
        /\ current.status # "running" /\ current' = [of |-> r, status |-> "running", outcome |-> <<>>]
    BY <1>5 DEF TakeOperation, Move
  <2>2. Executing(x) = 0 /\ Executing(x)' = IF x = r THEN 1 ELSE 0
    BY <2>1 DEF Executing
  <2>3. bulkStep'[x] = IF x = r THEN "taken" ELSE bulkStep[x]
    BY <1>a, <2>1 DEF OperationsOK
  <2>. QED
    BY <1>a, <1>c, <2>1, <2>2, <2>3 DEF CountInv
<1>6. ASSUME NEW r \in Run, Poll(r) PROVE CountInv(x)'
  <2>1. /\ ran' = ran /\ again' = again /\ current' = current
        /\ bulkStep'[x] = bulkStep[x]
           \/ (bulkStep'[x] # "idle"
               /\ (bulkStep'[x] \in {"uploading", "starting"} =>
                     bulkStep[x] \in {"staging", "uploading"})
               /\ bulkStep'[x] # "staging")
    BY <1>6, <1>a DEF Poll, Move, OperationsOK
  <2>2. Executing(x)' = Executing(x)
    BY <2>1 DEF Executing
  <2>. QED
    BY <1>a, <2>1, <2>2 DEF CountInv
<1>7. ASSUME NEW r \in Run, ReadOperation(r) PROVE CountInv(x)'
  <2>1. /\ ran' = ran /\ again' = again /\ current' = current
        /\ bulkStep'[x] = bulkStep[x]
           \/ (bulkStep'[x] # "idle"
               /\ (bulkStep'[x] \in {"uploading", "starting"} =>
                     bulkStep[x] \in {"staging", "uploading"})
               /\ bulkStep'[x] # "staging")
    BY <1>7, <1>a DEF ReadOperation, Move, OperationsOK
  <2>2. Executing(x)' = Executing(x)
    BY <2>1 DEF Executing
  <2>. QED
    BY <1>a, <2>1, <2>2 DEF CountInv
<1>8. ASSUME NEW r \in Run, ReadResults(r) PROVE CountInv(x)'
  <2>1. /\ ran' = ran /\ again' = again /\ current' = current
        /\ bulkStep'[x] = bulkStep[x]
           \/ (bulkStep'[x] # "idle"
               /\ (bulkStep'[x] \in {"uploading", "starting"} =>
                     bulkStep[x] \in {"staging", "uploading"})
               /\ bulkStep'[x] # "staging")
    BY <1>8, <1>a DEF ReadResults, Move, OperationsOK
  <2>2. Executing(x)' = Executing(x)
    BY <2>1 DEF Executing
  <2>. QED
    BY <1>a, <2>1, <2>2 DEF CountInv
<1>9. ASSUME NEW r \in Run, AttemptThrows(r) PROVE CountInv(x)'
  <2>1. /\ ran' = ran /\ again' = again /\ current' = current
        /\ bulkStep'[x] = bulkStep[x]
           \/ (bulkStep'[x] # "idle"
               /\ (bulkStep'[x] \in {"uploading", "starting"} =>
                     bulkStep[x] \in {"staging", "uploading"})
               /\ bulkStep'[x] # "staging")
    BY <1>9, <1>a DEF AttemptThrows, Move, OperationsOK
  <2>2. Executing(x)' = Executing(x)
    BY <2>1 DEF Executing
  <2>. QED
    BY <1>a, <2>1, <2>2 DEF CountInv
<1>10. ASSUME NEW r \in Run, StoreCheckpoint(r) PROVE CountInv(x)'
  <2>1. /\ ran' = ran /\ again' = again /\ current' = current
        /\ bulkStep'[x] = bulkStep[x]
           \/ (bulkStep'[x] # "idle"
               /\ (bulkStep'[x] \in {"uploading", "starting"} =>
                     bulkStep[x] \in {"staging", "uploading"})
               /\ bulkStep'[x] # "staging")
    BY <1>10, <1>a DEF StoreCheckpoint, Move, OperationsOK
  <2>2. Executing(x)' = Executing(x)
    BY <2>1 DEF Executing
  <2>. QED
    BY <1>a, <2>1, <2>2 DEF CountInv
<1>11. CASE RunLines
  <2>1. /\ current.status = "running" /\ current'.of = current.of /\ current'.status \in Ended
        /\ (\A s \in Run \ {current.of} : ran'[s] = ran[s])
        /\ \A l \in Line : ran'[current.of][l] \in {ran[current.of][l], ran[current.of][l] + 1}
    BY <1>11, <1>a, <1>b, Runs
  <2>2. bulkStep' = bulkStep /\ again' = again
    BY <1>11 DEF RunLines
  <2>3. Executing(x)' = 0 /\ Executing(x) = IF x = current.of THEN 1 ELSE 0
    BY <2>1 DEF Executing, Ended
  <2>4. \A l \in Line : ran'[x][l] \in {ran[x][l], ran[x][l] + Executing(x)}
    BY <2>1, <2>3, <1>c
  <2>5. Executing(x) \in {0, 1}
    BY <2>3
  <2>. QED
    BY <1>a, <1>c, <2>2, <2>3, <2>4, <2>5 DEF CountInv
<1>12. CASE UNCHANGED operationVars
  <2>1. /\ ran' = ran /\ again' = again /\ current' = current
        /\ bulkStep'[x] = bulkStep[x]
           \/ (bulkStep'[x] # "idle"
               /\ (bulkStep'[x] \in {"uploading", "starting"} =>
                     bulkStep[x] \in {"staging", "uploading"})
               /\ bulkStep'[x] # "staging")
    BY <1>12, <1>a DEF operationVars, OperationsOK
  <2>2. Executing(x)' = Executing(x)
    BY <2>1 DEF Executing
  <2>. QED
    BY <1>a, <2>1, <2>2 DEF CountInv
<1>. QED
  BY <1>1, <1>2, <1>3, <1>4, <1>5, <1>6, <1>7, <1>8, <1>9, <1>10, <1>11, <1>12
     DEF BulkOperationsNext

\* Every step keeps lines to one run, unless an attempt ended without a checkpoint.
LEMMA OnceStep ==
  ASSUME OperationsInv, [BulkOperationsNext]_operationVars, NEW x \in Run
  PROVE  OnceInv(x)'
<1>a. OperationsOK /\ Told(current) /\ OnceInv(x)
  BY DEF OperationsInv
<1>b. \A s \in Run : SavedInv(s) /\ OwnInv(s)
  BY DEF OperationsInv
<1>c. \A l \in Line : ran[x][l] \in Nat
  BY <1>a DEF OperationsOK
<1>1. ASSUME NEW r \in Run, BeginBulk(r) PROVE OnceInv(x)'
  <2>1. SavedInv(r) /\ Executing(x)' = Executing(x) /\ ran' = ran /\ unsaved' = unsaved /\ stored' = stored
    BY <1>1, <1>b DEF BeginBulk, Executing
  <2>2. bulkStep'[x] = bulkStep[x] \/ (bulkStep[x] \in {"idle", "thrown", "returned"} /\ bulkStep'[x] \in {"staging", "returned"})
    BY <1>1, <1>a, <2>1, Begins
  <2>. QED
    BY <1>a, <2>1, <2>2 DEF OnceInv
<1>2. ASSUME NEW r \in Run, Stage(r) PROVE OnceInv(x)'
  <2>1. /\ ran' = ran /\ current' = current /\ stored' = stored
        /\ \/ unsaved'[x]
           \/ unsaved'[x] = unsaved[x] /\ bulkStep'[x] = bulkStep[x]
           \/ /\ unsaved'[x] = unsaved[x]
              /\ \/ bulkStep'[x] \in {"taken", "polling", "reading", "downloading", "storing"}
                 \/ bulkStep[x] \notin {"taken", "polling", "reading", "downloading", "storing"}
    BY <1>2, <1>a DEF Stage, Move, OperationsOK
  <2>2. Executing(x)' = Executing(x)
    BY <2>1 DEF Executing
  <2>. QED
    BY <1>a, <2>1, <2>2 DEF OnceInv
<1>3. ASSUME NEW r \in Run, UploadLines(r) PROVE OnceInv(x)'
  <2>1. /\ ran' = ran /\ current' = current /\ stored' = stored
        /\ \/ unsaved'[x]
           \/ unsaved'[x] = unsaved[x] /\ bulkStep'[x] = bulkStep[x]
           \/ /\ unsaved'[x] = unsaved[x]
              /\ \/ bulkStep'[x] \in {"taken", "polling", "reading", "downloading", "storing"}
                 \/ bulkStep[x] \notin {"taken", "polling", "reading", "downloading", "storing"}
    BY <1>3, <1>a DEF UploadLines, Move, OperationsOK
  <2>2. Executing(x)' = Executing(x)
    BY <2>1 DEF Executing
  <2>. QED
    BY <1>a, <2>1, <2>2 DEF OnceInv
<1>4. ASSUME NEW r \in Run, StartOperation(r) PROVE OnceInv(x)'
  <2>1. /\ ran' = ran /\ current' = current /\ stored' = stored
        /\ \/ unsaved'[x]
           \/ unsaved'[x] = unsaved[x] /\ bulkStep'[x] = bulkStep[x]
           \/ /\ unsaved'[x] = unsaved[x]
              /\ \/ bulkStep'[x] \in {"taken", "polling", "reading", "downloading", "storing"}
                 \/ bulkStep[x] \notin {"taken", "polling", "reading", "downloading", "storing"}
    BY <1>4, <1>a DEF StartOperation, Move, OperationsOK
  <2>2. Executing(x)' = Executing(x)
    BY <2>1 DEF Executing
  <2>. QED
    BY <1>a, <2>1, <2>2 DEF OnceInv
<1>5. ASSUME NEW r \in Run, TakeOperation(r) PROVE OnceInv(x)'
  <2>1. /\ bulkStep[r] = "starting" /\ bulkStep' = [bulkStep EXCEPT ![r] = "taken"]
        /\ ran' = ran /\ unsaved' = unsaved
        /\ current.status # "running" /\ current' = [of |-> r, status |-> "running", outcome |-> <<>>]
        /\ stored' = stored
    BY <1>5 DEF TakeOperation, Move
  <2>2. Executing(x) = 0 /\ Executing(x)' = IF x = r THEN 1 ELSE 0
    BY <2>1 DEF Executing
  <2>3. bulkStep'[x] = IF x = r THEN "taken" ELSE bulkStep[x]
    BY <1>a, <2>1 DEF OperationsOK
  <2>4. stored[r] = Empty
    BY <1>b, <2>1 DEF SavedInv
  <2>. QED
    BY <1>a, <1>c, <2>1, <2>2, <2>3, <2>4 DEF OnceInv
<1>6. ASSUME NEW r \in Run, Poll(r) PROVE OnceInv(x)'
  <2>1. /\ ran' = ran /\ current' = current /\ stored' = stored
        /\ \/ unsaved'[x]
           \/ unsaved'[x] = unsaved[x] /\ bulkStep'[x] = bulkStep[x]
           \/ /\ unsaved'[x] = unsaved[x]
              /\ \/ bulkStep'[x] \in {"taken", "polling", "reading", "downloading", "storing"}
                 \/ bulkStep[x] \notin {"taken", "polling", "reading", "downloading", "storing"}
    BY <1>6, <1>a DEF Poll, Move, OperationsOK
  <2>2. Executing(x)' = Executing(x)
    BY <2>1 DEF Executing
  <2>. QED
    BY <1>a, <2>1, <2>2 DEF OnceInv
<1>7. ASSUME NEW r \in Run, ReadOperation(r) PROVE OnceInv(x)'
  <2>1. /\ ran' = ran /\ current' = current /\ stored' = stored
        /\ \/ unsaved'[x]
           \/ unsaved'[x] = unsaved[x] /\ bulkStep'[x] = bulkStep[x]
           \/ /\ unsaved'[x] = unsaved[x]
              /\ \/ bulkStep'[x] \in {"taken", "polling", "reading", "downloading", "storing"}
                 \/ bulkStep[x] \notin {"taken", "polling", "reading", "downloading", "storing"}
    BY <1>7, <1>a DEF ReadOperation, Move, OperationsOK
  <2>2. Executing(x)' = Executing(x)
    BY <2>1 DEF Executing
  <2>. QED
    BY <1>a, <2>1, <2>2 DEF OnceInv
<1>8. ASSUME NEW r \in Run, ReadResults(r) PROVE OnceInv(x)'
  <2>1. /\ ran' = ran /\ current' = current /\ stored' = stored
        /\ \/ unsaved'[x]
           \/ unsaved'[x] = unsaved[x] /\ bulkStep'[x] = bulkStep[x]
           \/ /\ unsaved'[x] = unsaved[x]
              /\ \/ bulkStep'[x] \in {"taken", "polling", "reading", "downloading", "storing"}
                 \/ bulkStep[x] \notin {"taken", "polling", "reading", "downloading", "storing"}
    BY <1>8, <1>a DEF ReadResults, Move, OperationsOK
  <2>2. Executing(x)' = Executing(x)
    BY <2>1 DEF Executing
  <2>. QED
    BY <1>a, <2>1, <2>2 DEF OnceInv
<1>9. ASSUME NEW r \in Run, AttemptThrows(r) PROVE OnceInv(x)'
  <2>1. ran' = ran /\ current' = current
    BY <1>9 DEF AttemptThrows
  <2>2. Executing(x)' = Executing(x)
    BY <2>1 DEF Executing
  <2>3. CASE x # r
    <3>1. stored'[x] = stored[x] /\ unsaved'[x] = unsaved[x] /\ bulkStep'[x] = bulkStep[x]
      BY <1>9, <1>a, <2>3 DEF AttemptThrows, OperationsOK
    <3>. QED
      BY <1>a, <2>1, <2>2, <3>1 DEF OnceInv
  <2>4. CASE x = r /\ bulkStep[r] \in {"staging", "uploading", "starting"}
    <3>1. stored' = stored /\ unsaved'[x] = unsaved[x] /\ bulkStep'[x] = "thrown"
      BY <1>9, <1>a, <2>4 DEF AttemptThrows, OperationsOK
    <3>. QED
      BY <1>a, <2>1, <2>2, <2>4, <3>1 DEF OnceInv
  <2>5. CASE x = r /\ bulkStep[r] \notin {"staging", "uploading", "starting"}
    <3>1. unsaved'[x]
      BY <1>9, <1>a, <2>5 DEF AttemptThrows, OperationsOK
    <3>. QED
      BY <3>1 DEF OnceInv
  <2>. QED
    BY <2>3, <2>4, <2>5
<1>10. ASSUME NEW r \in Run, StoreCheckpoint(r) PROVE OnceInv(x)'
  <2>1. /\ bulkStep[r] = "storing" /\ ran' = ran /\ unsaved' = unsaved /\ Executing(x)' = Executing(x)
        /\ (x # r => bulkStep'[x] = bulkStep[x] /\ stored'[x] = stored[x])
        /\ stored'[r] = report[r]
    BY <1>10, <1>a DEF StoreCheckpoint, Move, Executing, OperationsOK
  <2>2. report[r] # Empty
    BY <1>b, <2>1, Sizes DEF SavedInv, Done, Empty
  <2>. QED
    BY <1>a, <2>1, <2>2 DEF OnceInv
<1>11. CASE RunLines
  <2>1. /\ current.status = "running" /\ current'.of = current.of /\ current'.status \in Ended
        /\ (\A s \in Run \ {current.of} : ran'[s] = ran[s])
        /\ \A l \in Line : ran'[current.of][l] \in {ran[current.of][l], ran[current.of][l] + 1}
    BY <1>11, <1>a, <1>b, Runs
  <2>2. bulkStep' = bulkStep /\ unsaved' = unsaved /\ stored' = stored
    BY <1>11 DEF RunLines
  <2>3. Executing(x)' = 0 /\ Executing(x) = IF x = current.of THEN 1 ELSE 0
    BY <2>1 DEF Executing, Ended
  <2>4. \A l \in Line : ran'[x][l] \in {ran[x][l], ran[x][l] + Executing(x)}
    BY <2>1, <2>3, <1>c
  <2>5. Executing(x) = 0 => ran'[x] = ran[x]
    BY <1>a, <2>1, <2>3
  <2>6. Executing(x) \in {0, 1}
    BY <2>3
  <2>. QED
    BY <1>a, <1>c, <2>2, <2>3, <2>4, <2>5, <2>6 DEF OnceInv
<1>12. CASE UNCHANGED operationVars
  <2>1. /\ ran' = ran /\ current' = current /\ stored' = stored
        /\ \/ unsaved'[x]
           \/ unsaved'[x] = unsaved[x] /\ bulkStep'[x] = bulkStep[x]
           \/ /\ unsaved'[x] = unsaved[x]
              /\ \/ bulkStep'[x] \in {"taken", "polling", "reading", "downloading", "storing"}
                 \/ bulkStep[x] \notin {"taken", "polling", "reading", "downloading", "storing"}
    BY <1>12, <1>a DEF operationVars, OperationsOK
  <2>2. Executing(x)' = Executing(x)
    BY <2>1 DEF Executing
  <2>. QED
    BY <1>a, <2>1, <2>2 DEF OnceInv
<1>. QED
  BY <1>1, <1>2, <1>3, <1>4, <1>5, <1>6, <1>7, <1>8, <1>9, <1>10, <1>11, <1>12
     DEF BulkOperationsNext

LEMMA OperationsStart == BulkOperationsInit => OperationsInv
<1>. SUFFICES ASSUME BulkOperationsInit PROVE OperationsInv
  OBVIOUS
<1>1. OperationsOK
  <2>1. 0 \in 0 .. MaxAgain
    BY BulkOperationsAssumption
  <2>. QED
    BY <2>1, EmptyOperation DEF BulkOperationsInit, OperationsOK, Steps
<1>2. Told(NoOp)
  BY DEF Told, NoOp
<1>3. \A r \in Run : SavedInv(r) /\ OwnInv(r) /\ Told(final[r]) /\ FinalInv(r) /\ ReportInv(r)
  BY <1>2 DEF BulkOperationsInit, SavedInv, OwnInv, FinalInv, ReportInv, Empty, NoOp
<1>4. \A r \in Run : Executing(r) = 0
  BY DEF BulkOperationsInit, Executing, NoOp
<1>5. \A r \in Run : CountInv(r) /\ OnceInv(r)
  BY <1>4 DEF BulkOperationsInit, CountInv, OnceInv
<1>6. Told(current)
  BY <1>2 DEF BulkOperationsInit
<1>. QED
  BY <1>1, <1>3, <1>5, <1>6 DEF OperationsInv

LEMMA OperationsStep == OperationsInv /\ [BulkOperationsNext]_operationVars => OperationsInv'
<1>. SUFFICES ASSUME OperationsInv, [BulkOperationsNext]_operationVars PROVE OperationsInv'
  OBVIOUS
<1>1. OperationsOK' /\ Told(current)'
  BY OperationsTyped, CurrentStep
<1>2. \A x \in Run : SavedInv(x)' /\ OwnInv(x)' /\ Told(final[x])' /\ FinalInv(x)' /\ ReportInv(x)'
  BY SavedStep, OwnStep, FinalStep, ReportStep
<1>3. \A x \in Run : CountInv(x)' /\ OnceInv(x)'
  BY CountStep, OnceStep
<1>. QED
  BY <1>1, <1>2, <1>3 DEF OperationsInv

\* The inductive invariant of bulk operations.
THEOREM OperationsInvariance == BulkOperationsSpec => []OperationsInv
<1>. QED
  BY OperationsStart, OperationsStep, PTL DEF BulkOperationsSpec

\* BulkOperationsSafe: what a bulk operation reports of its lines is true of the store.
THEOREM OperationsReportTruly == BulkOperationsSpec => []BulkOperationsSafe
<1>1. ASSUME OperationsInv PROVE BulkOperationsSafe
  <2>a. OperationsOK
    BY <1>1 DEF OperationsInv
  <2>b. \A r \in Run : SavedInv(r) /\ ReportInv(r) /\ CountInv(r) /\ OnceInv(r)
    BY <1>1 DEF OperationsInv
  <2>c. \A r \in Run, l \in Line : ran[r][l] \in Nat /\ Executing(r) \in {0, 1}
    BY <2>a DEF OperationsOK, Executing
  <2>1. \A r \in Run, l \in Line : ran[r][l] \in 0 .. MaxAgain + 1
    <3>1. \A r \in Run : again[r] \in 0 .. MaxAgain /\ MaxAgain \in Nat
      BY <2>a, BulkOperationsAssumption DEF OperationsOK
    <3>2. \A r \in Run, l \in Line : ran[r][l] + Executing(r) <= again[r] + 1
      BY <2>b DEF CountInv
    <3>. QED
      BY <2>c, <3>1, <3>2
  <2>2. ran \in [Run -> [Line -> 0 .. MaxAgain + 1]]
    BY <2>a, <2>1 DEF OperationsOK
  <2>3. BulkOperationsTypeOK
    BY <2>a, <2>2 DEF BulkOperationsTypeOK, OperationsOK, Steps
  <2>4. GoodLineRan
    BY <2>b DEF GoodLineRan, ReportInv
  <2>5. TwiceOnlyUnsaved
    BY <2>b, <2>c DEF TwiceOnlyUnsaved, OnceInv
  <2>6. EveryLineReported
    BY <2>b DEF EveryLineReported, SavedInv
  <2>. QED
    BY <2>3, <2>4, <2>5, <2>6 DEF BulkOperationsSafe
<1>. QED
  BY <1>1, OperationsInvariance, PTL
=============================================================================
