--------------------------- MODULE RollbackProofs ---------------------------
(***************************************************************************)
(* Theorems about ThemeRollback, for any files and contents, any number of *)
(* operations and of rollbacks of them at once, edits and crashes, and     *)
(* about Snapshots, for any snapshots made, deleted and swept at once.     *)
(***************************************************************************)
EXTENDS ThemeRollback, Snapshots, FiniteSetTheorems, TLAPS

\* The files a rollback answers for.
Scope(r) == IF info[Target(r)].strategy = "snapshot" THEN File ELSE info[Target(r)].changed

\* Where a rollback is says what its row, its operation and its lists are.
PlaceInv(r) ==
  /\ at[r] = "idle" => /\ row[r] = "none" /\ ~warned[r] /\ ~refused[r]
                       /\ wrote[r] = {} /\ current[r] = NoFile
  /\ at[r] # "idle" => /\ Target(r) \in Op /\ status[Target(r)] \in {"succeeded", "rolled_back"}
                       /\ todo[r] \subseteq Scope(r)
  /\ at[r] \in {"verify", "delete"} => info[Target(r)].strategy = "files"
  /\ at[r] = "write" => info[Target(r)].strategy \in {"files", "snapshot"}
  /\ at[r] \in {"list", "extras"} => info[Target(r)].strategy = "snapshot"
  /\ at[r] = "list" => todo[r] = {}
  /\ at[r] = "change" => info[Target(r)].strategy \notin {"files", "snapshot"}
  /\ current[r] # NoFile => at[r] \in {"change", "lost"} /\ current[r] \in todo[r]
  /\ at[r] \notin {"idle", "mark", "fail", "done", "lost"} => row[r] = "pending"
  /\ at[r] = "mark" => row[r] = "succeeded"
  /\ at[r] = "verify" => wrote[r] = {}
  /\ refused[r] => at[r] \in {"fail", "done", "lost"}
                   /\ (info[Target(r)].strategy = "files" => wrote[r] = {})

\* What a rollback without a warning has dealt with, and nobody has changed since, is as
\* before the operation: first the files to write, then those that should not exist.
ProgressInv(r) ==
  at[r] # "idle" /\ ~warned[r] =>
    /\ at[r] \in {"write", "list"} =>
         \A f \in Scope(r) \ (todo[r] \cup touched[r]) : ~Created(Target(r), f) => AsBefore(r, f)
    /\ at[r] \in {"delete", "extras", "change"} =>
         \A f \in Scope(r) \ (todo[r] \cup touched[r]) : AsBefore(r, f)
    /\ at[r] \in {"finish", "mark"} \/ row[r] = "succeeded" =>
         \A f \in Scope(r) \ touched[r] : AsBefore(r, f)

\* What an unforced rollback has looked at, not yet written, and nobody has changed
\* since, is as the operation left it.
LookedInv(r) ==
  at[r] # "idle" /\ ~job[r].force =>
    /\ at[r] = "verify" =>
         \A f \in Scope(r) \ (todo[r] \cup touched[r]) : Checks(r, f) => Matches(r, f)
    /\ at[r] \in {"write", "delete"} /\ info[Target(r)].strategy = "files" =>
         \A f \in Scope(r) \ (touched[r] \cup wrote[r]) : Checks(r, f) => Matches(r, f)
    /\ at[r] = "change" /\ current[r] # NoFile /\ current[r] \notin touched[r] =>
         (Checks(r, current[r]) => Matches(r, current[r]))

\* A mark is the last thing its rollback did.
MarksAreLast == \A o \in Op : status[o] = "rolled_back" => at[by[o]] = "done"

\* The inductive invariant of ThemeRollback.
RollbackInv ==
  /\ RollbackTypeOK /\ MarkedByASuccess /\ MarksAreLast
  /\ \A r \in Rollback : PlaceInv(r) /\ ProgressInv(r) /\ LookedInv(r)
-----------------------------------------------------------------------------
\* RollbackTypeOK, in parts.
StoreOK ==
  /\ file \in [File -> Stored] /\ edits \in 0 .. MaxEdits /\ deaths \in 0 .. MaxDeaths
  /\ wrote \in [Rollback -> SUBSET File] /\ touched \in [Rollback -> SUBSET File]
OpsOK ==
  /\ status \in [Op -> {"none", "pending", "succeeded", "rolled_back", "lost"}]
  /\ info \in [Op -> Info] /\ by \in [Op -> Rollback \cup {NoRollback}]
RunsOK ==
  /\ at \in [Rollback -> {"idle", "verify", "write", "delete", "change", "list", "extras",
                          "finish", "mark", "fail", "done", "lost"}]
  /\ row \in [Rollback -> {"none", "pending", "succeeded", "failed"}]
  /\ job \in [Rollback -> Job] /\ todo \in [Rollback -> SUBSET File]
  /\ current \in [Rollback -> File \cup {NoFile}]
  /\ warned \in [Rollback -> BOOLEAN] /\ refused \in [Rollback -> BOOLEAN]

LEMMA TypeParts == RollbackTypeOK <=> StoreOK /\ OpsOK /\ RunsOK
  BY DEF RollbackTypeOK, StoreOK, OpsOK, RunsOK

\* What the inverse of a change leaves can be stored, and undoes the change.
LEMMA UndoneIsRight ==
  ASSUME StoreOK, OpsOK, NEW r \in Rollback, NEW f \in File, Target(r) \in Op,
         NEW v \in Undone(r, f)
  PROVE  /\ v \in Stored
         /\ \/ v = info[Target(r)].image[f]
            \/ info[Target(r)].strategy \in Recreated /\ Deleted(Target(r)) /\ v # Missing
            \/ info[Target(r)].strategy \in NullKept /\ Created(Target(r), f)
<1>1. info[Target(r)].image[f] \in Stored /\ file[f] \in Stored /\ Content \subseteq Stored
  BY DEF StoreOK, OpsOK, Info, Stored
<1>2. CASE info[Target(r)].strategy \in NullKept /\ Created(Target(r), f)
  BY <1>1, <1>2 DEF Undone
<1>3. CASE /\ ~(info[Target(r)].strategy \in NullKept /\ Created(Target(r), f))
           /\ info[Target(r)].strategy \in Recreated /\ Deleted(Target(r))
  BY <1>1, <1>3, RollbackAssumption DEF Undone
<1>4. CASE /\ ~(info[Target(r)].strategy \in NullKept /\ Created(Target(r), f))
           /\ ~(info[Target(r)].strategy \in Recreated /\ Deleted(Target(r)))
  BY <1>1, <1>4 DEF Undone
<1>. QED
  BY <1>2, <1>3, <1>4

\* The store and the notes about it keep their types.
LEMMA StoreStep ==
  ASSUME RollbackInv, [RollbackNext]_rollbackVars
  PROVE  StoreOK'
<1>a. StoreOK /\ RunsOK /\ OpsOK
  BY TypeParts DEF RollbackInv
<1>b. MaxEdits \in Nat /\ MaxDeaths \in Nat
  BY RollbackAssumption
<1>1. ASSUME NEW f \in File, NEW v \in Stored, Edit(f, v) PROVE StoreOK'
  BY <1>a, <1>b, <1>1 DEF Edit, Outside, StoreOK, Stored
<1>2. ASSUME NEW o \in Op, NEW s \in Strategies, NEW fs \in SUBSET File, NEW m \in SUBSET File,
   ToolReads(o, s, fs, m) PROVE StoreOK'
  BY <1>a, <1>2 DEF ToolReads, StoreOK
<1>3. ASSUME NEW o \in Op, NEW v \in Stored, ToolWrites(o, v) PROVE StoreOK'
  BY <1>a, <1>3 DEF ToolWrites, Outside, StoreOK, Stored
<1>4. ASSUME NEW r \in Rollback, NEW o \in Op, NEW force \in BOOLEAN, NEW prune \in BOOLEAN, Start(r,
   o, force, prune) PROVE StoreOK'
  BY <1>a, <1>4 DEF Start, StoreOK
<1>5. ASSUME NEW r \in Rollback, NEW f \in File, Verify(r, f) PROVE StoreOK'
  BY <1>a, <1>5 DEF Verify, StoreOK
<1>6. ASSUME NEW r \in Rollback, NEW f \in File, Mismatch(r, f) PROVE StoreOK'
  BY <1>a, <1>6 DEF Mismatch, StoreOK
<1>7. ASSUME NEW r \in Rollback, NEW f \in File, Restore(r, f) PROVE StoreOK'
  <2>1. info[Target(r)].image[f] \in Stored
    <3>1. Target(r) \in Op
      BY <1>7 DEF RollbackInv, PlaceInv, Restore
    <3>. QED
      BY <1>a, <3>1 DEF OpsOK, Info
  <2>. QED
    BY <1>a, <1>7, <2>1 DEF Restore, Put, StoreOK
<1>8. ASSUME NEW r \in Rollback, NEW f \in File, RestoreFails(r, f) PROVE StoreOK'
  BY <1>a, <1>8 DEF RestoreFails, StoreOK
<1>9. ASSUME NEW r \in Rollback, NEW f \in File, VerifyChange(r, f) PROVE StoreOK'
  BY <1>a, <1>9 DEF VerifyChange, StoreOK
<1>10. ASSUME NEW r \in Rollback, EndVerify(r) PROVE StoreOK'
  BY <1>a, <1>10 DEF EndVerify, StoreOK
<1>11. ASSUME NEW r \in Rollback, EndWrites(r) PROVE StoreOK'
  BY <1>a, <1>11 DEF EndWrites, StoreOK
<1>12. ASSUME NEW r \in Rollback, EndDeletes(r) PROVE StoreOK'
  BY <1>a, <1>12 DEF EndDeletes, StoreOK
<1>13. ASSUME NEW r \in Rollback, EngineThrows(r) PROVE StoreOK'
  BY <1>a, <1>13 DEF EngineThrows, StoreOK
<1>14. ASSUME NEW r \in Rollback, ListExtras(r) PROVE StoreOK'
  BY <1>a, <1>14 DEF ListExtras, StoreOK
<1>15. ASSUME NEW r \in Rollback, RestoreChange(r) PROVE StoreOK'
  <2>1. Target(r) \in Op /\ current[r] \in File
    BY <1>a, <1>15 DEF RollbackInv, PlaceInv, RestoreChange, RunsOK
  <2>2. PICK v \in Undone(r, current[r]) : Put(r, current[r], v)
    BY <1>15 DEF RestoreChange
  <2>3. v \in Stored
    BY <1>a, <2>1, <2>2, UndoneIsRight
  <2>. QED
    BY <1>a, <1>15, <2>1, <2>2, <2>3 DEF RestoreChange, Put, StoreOK
<1>16. ASSUME NEW r \in Rollback, RestoreChangeFails(r) PROVE StoreOK'
  BY <1>a, <1>16 DEF RestoreChangeFails, StoreOK
<1>17. ASSUME NEW r \in Rollback, EndChanges(r) PROVE StoreOK'
  BY <1>a, <1>17 DEF EndChanges, StoreOK
<1>18. ASSUME NEW r \in Rollback, FinishRow(r) PROVE StoreOK'
  BY <1>a, <1>18 DEF FinishRow, StoreOK
<1>19. ASSUME NEW r \in Rollback, MarkOriginal(r) PROVE StoreOK'
  BY <1>a, <1>19 DEF MarkOriginal, StoreOK
<1>20. ASSUME NEW r \in Rollback, FailRow(r) PROVE StoreOK'
  BY <1>a, <1>20 DEF FailRow, StoreOK
<1>21. CASE RollbackCrash
  BY <1>a, <1>b, <1>21 DEF RollbackCrash, StoreOK
<1>22. CASE UNCHANGED rollbackVars
  BY <1>a, <1>22 DEF rollbackVars, StoreOK
<1>. QED
  BY <1>1, <1>2, <1>3, <1>4, <1>5, <1>6, <1>7, <1>8, <1>9, <1>10, <1>11, <1>12, <1>13, <1>14, <1>15,
     <1>16, <1>17, <1>18, <1>19, <1>20, <1>21, <1>22 DEF RollbackNext, RollbackStep

\* The operations keep their types.
LEMMA OpsStep ==
  ASSUME RollbackInv, [RollbackNext]_rollbackVars
  PROVE  OpsOK'
<1>a. OpsOK /\ StoreOK
  BY TypeParts DEF RollbackInv
<1>1. ASSUME NEW f \in File, NEW v \in Stored, Edit(f, v) PROVE OpsOK'
  BY <1>a, <1>1 DEF Edit, opVars, OpsOK
<1>2. ASSUME NEW o \in Op, NEW s \in Strategies, NEW fs \in SUBSET File, NEW m \in SUBSET File,
   ToolReads(o, s, fs, m) PROVE OpsOK'
  <2>. DEFINE n == [strategy |-> s, changed |-> fs, marked |-> m, image |-> file, after |-> Missing]
  <2>1. n \in Info
    BY <1>a DEF Info, StoreOK, Stored
  <2>. HIDE DEF n
  <2>2. info' = [info EXCEPT ![o] = n] /\ status' = [status EXCEPT ![o] = "pending"] /\ by' = by
    BY <1>2 DEF ToolReads, n
  <2>. QED
    BY <1>a, <2>1, <2>2 DEF OpsOK
<1>3. ASSUME NEW o \in Op, NEW v \in Stored, ToolWrites(o, v) PROVE OpsOK'
  <2>. DEFINE n == [info[o] EXCEPT !.after = v]
  <2>1. n \in Info
    BY <1>a DEF Info, OpsOK
  <2>. HIDE DEF n
  <2>2. info' = [info EXCEPT ![o] = n] /\ status' = [status EXCEPT ![o] = "succeeded"] /\ by' = by
    BY <1>a, <1>3 DEF ToolWrites, OpsOK, n
  <2>. QED
    BY <1>a, <2>1, <2>2 DEF OpsOK
<1>4. ASSUME NEW r \in Rollback, NEW o \in Op, NEW force \in BOOLEAN, NEW prune \in BOOLEAN, Start(r,
   o, force, prune) PROVE OpsOK'
  BY <1>a, <1>4 DEF Start, opVars, OpsOK
<1>5. ASSUME NEW r \in Rollback, NEW f \in File, Verify(r, f) PROVE OpsOK'
  BY <1>a, <1>5 DEF Verify, opVars, OpsOK
<1>6. ASSUME NEW r \in Rollback, NEW f \in File, Mismatch(r, f) PROVE OpsOK'
  BY <1>a, <1>6 DEF Mismatch, opVars, OpsOK
<1>7. ASSUME NEW r \in Rollback, NEW f \in File, Restore(r, f) PROVE OpsOK'
  BY <1>a, <1>7 DEF Restore, opVars, OpsOK
<1>8. ASSUME NEW r \in Rollback, NEW f \in File, RestoreFails(r, f) PROVE OpsOK'
  BY <1>a, <1>8 DEF RestoreFails, opVars, OpsOK
<1>9. ASSUME NEW r \in Rollback, NEW f \in File, VerifyChange(r, f) PROVE OpsOK'
  BY <1>a, <1>9 DEF VerifyChange, opVars, OpsOK
<1>10. ASSUME NEW r \in Rollback, EndVerify(r) PROVE OpsOK'
  BY <1>a, <1>10 DEF EndVerify, opVars, OpsOK
<1>11. ASSUME NEW r \in Rollback, EndWrites(r) PROVE OpsOK'
  BY <1>a, <1>11 DEF EndWrites, opVars, OpsOK
<1>12. ASSUME NEW r \in Rollback, EndDeletes(r) PROVE OpsOK'
  BY <1>a, <1>12 DEF EndDeletes, opVars, OpsOK
<1>13. ASSUME NEW r \in Rollback, EngineThrows(r) PROVE OpsOK'
  BY <1>a, <1>13 DEF EngineThrows, opVars, OpsOK
<1>14. ASSUME NEW r \in Rollback, ListExtras(r) PROVE OpsOK'
  BY <1>a, <1>14 DEF ListExtras, opVars, OpsOK
<1>15. ASSUME NEW r \in Rollback, RestoreChange(r) PROVE OpsOK'
  BY <1>a, <1>15 DEF RestoreChange, opVars, OpsOK
<1>16. ASSUME NEW r \in Rollback, RestoreChangeFails(r) PROVE OpsOK'
  BY <1>a, <1>16 DEF RestoreChangeFails, opVars, OpsOK
<1>17. ASSUME NEW r \in Rollback, EndChanges(r) PROVE OpsOK'
  BY <1>a, <1>17 DEF EndChanges, opVars, OpsOK
<1>18. ASSUME NEW r \in Rollback, FinishRow(r) PROVE OpsOK'
  BY <1>a, <1>18 DEF FinishRow, opVars, OpsOK
<1>19. ASSUME NEW r \in Rollback, MarkOriginal(r) PROVE OpsOK'
  BY <1>a, <1>19 DEF MarkOriginal, OpsOK
<1>20. ASSUME NEW r \in Rollback, FailRow(r) PROVE OpsOK'
  BY <1>a, <1>20 DEF FailRow, opVars, OpsOK
<1>21. CASE RollbackCrash
  BY <1>a, <1>21 DEF RollbackCrash, OpsOK
<1>22. CASE UNCHANGED rollbackVars
  BY <1>a, <1>22 DEF rollbackVars, opVars, OpsOK
<1>. QED
  BY <1>1, <1>2, <1>3, <1>4, <1>5, <1>6, <1>7, <1>8, <1>9, <1>10, <1>11, <1>12, <1>13, <1>14, <1>15,
     <1>16, <1>17, <1>18, <1>19, <1>20, <1>21, <1>22 DEF RollbackNext, RollbackStep

\* The rollbacks keep their types.
LEMMA RunsStep ==
  ASSUME RollbackInv, [RollbackNext]_rollbackVars
  PROVE  RunsOK'
<1>a. OpsOK /\ RunsOK
  BY TypeParts DEF RollbackInv
<1>1. ASSUME NEW f \in File, NEW v \in Stored, Edit(f, v) PROVE RunsOK'
  BY <1>a, <1>1 DEF Edit, MoveOn, rbVars, RunsOK
<1>2. ASSUME NEW o \in Op, NEW s \in Strategies, NEW fs \in SUBSET File, NEW m \in SUBSET File,
   ToolReads(o, s, fs, m) PROVE RunsOK'
  BY <1>a, <1>2 DEF ToolReads, MoveOn, rbVars, RunsOK
<1>3. ASSUME NEW o \in Op, NEW v \in Stored, ToolWrites(o, v) PROVE RunsOK'
  BY <1>a, <1>3 DEF ToolWrites, MoveOn, rbVars, RunsOK
<1>4. ASSUME NEW r \in Rollback, NEW o \in Op, NEW force \in BOOLEAN, NEW prune \in BOOLEAN, Start(r,
   o, force, prune) PROVE RunsOK'
  <2>. DEFINE j == [op |-> o, force |-> force, prune |-> prune]
  <2>1. j \in Job
    BY DEF Job
  <2>. HIDE DEF j
  <2>2. /\ job' = [job EXCEPT ![r] = j] /\ row' = [row EXCEPT ![r] = "pending"]
        /\ UNCHANGED <<current, warned, refused>>
    BY <1>4 DEF Start, j
  <2>3. \E p \in {"verify", "write", "change"} : at' = [at EXCEPT ![r] = p]
    BY <1>4 DEF Start
  <2>4. \E t \in SUBSET File : todo' = [todo EXCEPT ![r] = t]
    <3>1. info[o].changed \in SUBSET File
      BY <1>a DEF OpsOK, Info
    <3>. QED
      BY <1>4, <3>1 DEF Start
  <2>. QED
    BY <1>a, <2>1, <2>2, <2>3, <2>4 DEF RunsOK
<1>5. ASSUME NEW r \in Rollback, NEW f \in File, Verify(r, f) PROVE RunsOK'
  BY <1>a, <1>5 DEF Verify, MoveOn, rbVars, RunsOK
<1>6. ASSUME NEW r \in Rollback, NEW f \in File, Mismatch(r, f) PROVE RunsOK'
  BY <1>a, <1>6 DEF Mismatch, MoveOn, rbVars, RunsOK
<1>7. ASSUME NEW r \in Rollback, NEW f \in File, Restore(r, f) PROVE RunsOK'
  BY <1>a, <1>7 DEF Restore, MoveOn, rbVars, RunsOK
<1>8. ASSUME NEW r \in Rollback, NEW f \in File, RestoreFails(r, f) PROVE RunsOK'
  BY <1>a, <1>8 DEF RestoreFails, MoveOn, rbVars, RunsOK
<1>9. ASSUME NEW r \in Rollback, NEW f \in File, VerifyChange(r, f) PROVE RunsOK'
  BY <1>a, <1>9 DEF VerifyChange, MoveOn, rbVars, RunsOK
<1>10. ASSUME NEW r \in Rollback, EndVerify(r) PROVE RunsOK'
  <2>1. info[Target(r)].changed \in SUBSET File
    <3>1. Target(r) \in Op
      BY <1>10 DEF RollbackInv, PlaceInv, EndVerify, MoveOn
    <3>. QED
      BY <1>a, <3>1 DEF OpsOK, Info
  <2>. QED
    BY <1>a, <1>10, <2>1 DEF EndVerify, MoveOn, RunsOK
<1>11. ASSUME NEW r \in Rollback, EndWrites(r) PROVE RunsOK'
  <2>1. info[Target(r)].changed \in SUBSET File
    <3>1. Target(r) \in Op
      BY <1>11 DEF RollbackInv, PlaceInv, EndWrites, MoveOn
    <3>. QED
      BY <1>a, <3>1 DEF OpsOK, Info
  <2>. QED
    BY <1>a, <1>11, <2>1 DEF EndWrites, MoveOn, RunsOK
<1>12. ASSUME NEW r \in Rollback, EndDeletes(r) PROVE RunsOK'
  BY <1>a, <1>12 DEF EndDeletes, MoveOn, rbVars, RunsOK
<1>13. ASSUME NEW r \in Rollback, EngineThrows(r) PROVE RunsOK'
  BY <1>a, <1>13 DEF EngineThrows, MoveOn, rbVars, RunsOK
<1>14. ASSUME NEW r \in Rollback, ListExtras(r) PROVE RunsOK'
  <2>. DEFINE extras == {f \in File : file[f] # Missing /\ info[Target(r)].image[f] = Missing}
  <2>1. extras \in SUBSET File
    OBVIOUS
  <2>2. CASE /\ MoveOn(r, "list", "extras") /\ todo' = [todo EXCEPT ![r] = extras]
             /\ UNCHANGED warned
    BY <1>a, <1>14, <2>1, <2>2 DEF ListExtras, MoveOn, RunsOK
  <2>3. CASE /\ MoveOn(r, "list", "finish") /\ UNCHANGED todo
             /\ warned' = [warned EXCEPT ![r] = @ \/ extras # {}]
    BY <1>a, <1>14, <2>3 DEF ListExtras, MoveOn, RunsOK
  <2>. QED
    BY <1>14, <2>2, <2>3 DEF ListExtras
<1>15. ASSUME NEW r \in Rollback, RestoreChange(r) PROVE RunsOK'
  BY <1>a, <1>15 DEF RestoreChange, MoveOn, rbVars, RunsOK
<1>16. ASSUME NEW r \in Rollback, RestoreChangeFails(r) PROVE RunsOK'
  BY <1>a, <1>16 DEF RestoreChangeFails, MoveOn, rbVars, RunsOK
<1>17. ASSUME NEW r \in Rollback, EndChanges(r) PROVE RunsOK'
  BY <1>a, <1>17 DEF EndChanges, MoveOn, rbVars, RunsOK
<1>18. ASSUME NEW r \in Rollback, FinishRow(r) PROVE RunsOK'
  BY <1>a, <1>18 DEF FinishRow, MoveOn, rbVars, RunsOK
<1>19. ASSUME NEW r \in Rollback, MarkOriginal(r) PROVE RunsOK'
  BY <1>a, <1>19 DEF MarkOriginal, MoveOn, rbVars, RunsOK
<1>20. ASSUME NEW r \in Rollback, FailRow(r) PROVE RunsOK'
  BY <1>a, <1>20 DEF FailRow, MoveOn, rbVars, RunsOK
<1>21. CASE RollbackCrash
  BY <1>a, <1>21 DEF RollbackCrash, RunsOK
<1>22. CASE UNCHANGED rollbackVars
  BY <1>a, <1>22 DEF rollbackVars, rbVars, RunsOK
<1>. QED
  BY <1>1, <1>2, <1>3, <1>4, <1>5, <1>6, <1>7, <1>8, <1>9, <1>10, <1>11, <1>12, <1>13, <1>14, <1>15,
     <1>16, <1>17, <1>18, <1>19, <1>20, <1>21, <1>22 DEF RollbackNext, RollbackStep

-----------------------------------------------------------------------------
(* What a step leaves as it was *)

\* Nothing happened to rollback s but what its notes of the changes of others say.
Untouched(s) ==
  /\ at'[s] = at[s] /\ row'[s] = row[s] /\ job'[s] = job[s] /\ todo'[s] = todo[s]
  /\ current'[s] = current[s] /\ warned'[s] = warned[s] /\ refused'[s] = refused[s]
  /\ wrote'[s] = wrote[s] /\ touched[s] \subseteq touched'[s]
  /\ \A f \in File \ touched'[s] : file'[f] = file[f]

\* An operation that can be rolled back stays so, and so does what it recorded.
OpsKept ==
  \A o \in Op : status[o] \in {"succeeded", "rolled_back"} =>
    status'[o] \in {"succeeded", "rolled_back"} /\ info'[o] = info[o]

Acts(r) ==
  \/ \E o \in Op, force, prune \in BOOLEAN : Start(r, o, force, prune)
  \/ RollbackStep(r)

LEMMA Puts ==
  ASSUME StoreOK, NEW r \in Rollback, NEW f \in File, NEW v, Put(r, f, v)
  PROVE  /\ file'[f] = v /\ \A g \in File \ {f} : file'[g] = file[g]
         /\ wrote'[r] = wrote[r] \cup {f} /\ touched'[r] = touched[r]
         /\ \A s \in Rollback \ {r} :
              /\ wrote'[s] = wrote[s] /\ touched[s] \subseteq touched'[s]
              /\ \A g \in File \ touched'[s] : file'[g] = file[g]
  BY DEF StoreOK, Put

LEMMA OutsideChanges ==
  ASSUME StoreOK, NEW new \in [File -> Stored], Outside(new)
  PROVE  \A s \in Rollback : /\ touched[s] \subseteq touched'[s]
                             /\ \A f \in File \ touched'[s] : file'[f] = file[f]
  BY DEF StoreOK, Outside

\* What can be rolled back stays as it is recorded.
LEMMA OpsStay ==
  ASSUME RollbackInv, [RollbackNext]_rollbackVars
  PROVE  OpsKept
<1>a. OpsOK
  BY TypeParts DEF RollbackInv
<1>1. ASSUME NEW f \in File, NEW v \in Stored, Edit(f, v) PROVE OpsKept
  BY <1>1 DEF Edit, opVars, OpsKept
<1>2. ASSUME NEW o \in Op, NEW s \in Strategies, NEW fs \in SUBSET File, NEW m \in SUBSET File,
   ToolReads(o, s, fs, m) PROVE OpsKept
  BY <1>a, <1>2 DEF ToolReads, OpsOK, OpsKept
<1>3. ASSUME NEW o \in Op, NEW v \in Stored, ToolWrites(o, v) PROVE OpsKept
  BY <1>a, <1>3 DEF ToolWrites, OpsOK, OpsKept
<1>4. ASSUME NEW r \in Rollback, NEW o \in Op, NEW force \in BOOLEAN, NEW prune \in BOOLEAN, Start(r,
   o, force, prune) PROVE OpsKept
  BY <1>4 DEF Start, opVars, OpsKept
<1>5. ASSUME NEW r \in Rollback, NEW f \in File, Verify(r, f) PROVE OpsKept
  BY <1>5 DEF Verify, opVars, OpsKept
<1>6. ASSUME NEW r \in Rollback, NEW f \in File, Mismatch(r, f) PROVE OpsKept
  BY <1>6 DEF Mismatch, opVars, OpsKept
<1>7. ASSUME NEW r \in Rollback, NEW f \in File, Restore(r, f) PROVE OpsKept
  BY <1>7 DEF Restore, opVars, OpsKept
<1>8. ASSUME NEW r \in Rollback, NEW f \in File, RestoreFails(r, f) PROVE OpsKept
  BY <1>8 DEF RestoreFails, opVars, OpsKept
<1>9. ASSUME NEW r \in Rollback, NEW f \in File, VerifyChange(r, f) PROVE OpsKept
  BY <1>9 DEF VerifyChange, opVars, OpsKept
<1>10. ASSUME NEW r \in Rollback, EndVerify(r) PROVE OpsKept
  BY <1>10 DEF EndVerify, opVars, OpsKept
<1>11. ASSUME NEW r \in Rollback, EndWrites(r) PROVE OpsKept
  BY <1>11 DEF EndWrites, opVars, OpsKept
<1>12. ASSUME NEW r \in Rollback, EndDeletes(r) PROVE OpsKept
  BY <1>12 DEF EndDeletes, opVars, OpsKept
<1>13. ASSUME NEW r \in Rollback, EngineThrows(r) PROVE OpsKept
  BY <1>13 DEF EngineThrows, opVars, OpsKept
<1>14. ASSUME NEW r \in Rollback, ListExtras(r) PROVE OpsKept
  BY <1>14 DEF ListExtras, opVars, OpsKept
<1>15. ASSUME NEW r \in Rollback, RestoreChange(r) PROVE OpsKept
  BY <1>15 DEF RestoreChange, opVars, OpsKept
<1>16. ASSUME NEW r \in Rollback, RestoreChangeFails(r) PROVE OpsKept
  BY <1>16 DEF RestoreChangeFails, opVars, OpsKept
<1>17. ASSUME NEW r \in Rollback, EndChanges(r) PROVE OpsKept
  BY <1>17 DEF EndChanges, opVars, OpsKept
<1>18. ASSUME NEW r \in Rollback, FinishRow(r) PROVE OpsKept
  BY <1>18 DEF FinishRow, opVars, OpsKept
<1>19. ASSUME NEW r \in Rollback, MarkOriginal(r) PROVE OpsKept
  BY <1>a, <1>19 DEF MarkOriginal, OpsOK, OpsKept
<1>20. ASSUME NEW r \in Rollback, FailRow(r) PROVE OpsKept
  BY <1>20 DEF FailRow, opVars, OpsKept
<1>21. CASE RollbackCrash
  BY <1>a, <1>21 DEF RollbackCrash, OpsOK, OpsKept
<1>22. CASE UNCHANGED rollbackVars
  BY <1>22 DEF rollbackVars, opVars, OpsKept
<1>. QED
  BY <1>1, <1>2, <1>3, <1>4, <1>5, <1>6, <1>7, <1>8, <1>9, <1>10, <1>11, <1>12, <1>13, <1>14, <1>15,
     <1>16, <1>17, <1>18, <1>19, <1>20, <1>21, <1>22 DEF RollbackNext, RollbackStep

\* A rollback acts alone.
LEMMA OthersWait ==
  ASSUME RollbackInv, NEW r \in Rollback, Acts(r), NEW s \in Rollback, s # r
  PROVE  Untouched(s)
<1>a. StoreOK /\ RunsOK
  BY TypeParts DEF RollbackInv
<1>1. ASSUME NEW o \in Op, NEW force \in BOOLEAN, NEW prune \in BOOLEAN, Start(r, o, force,
   prune) PROVE Untouched(s)
  BY <1>a, <1>1 DEF Start, MoveOn, rbVars, StoreOK, RunsOK, Untouched
<1>2. ASSUME NEW f \in File, Verify(r, f) PROVE Untouched(s)
  BY <1>a, <1>2 DEF Verify, MoveOn, rbVars, StoreOK, RunsOK, Untouched
<1>3. ASSUME NEW f \in File, Mismatch(r, f) PROVE Untouched(s)
  BY <1>a, <1>3 DEF Mismatch, MoveOn, rbVars, StoreOK, RunsOK, Untouched
<1>4. ASSUME NEW f \in File, Restore(r, f) PROVE Untouched(s)
  BY <1>a, <1>4, Puts DEF Restore, rbVars, RunsOK, Untouched
<1>5. ASSUME NEW f \in File, RestoreFails(r, f) PROVE Untouched(s)
  BY <1>a, <1>5 DEF RestoreFails, MoveOn, rbVars, StoreOK, RunsOK, Untouched
<1>6. ASSUME NEW f \in File, VerifyChange(r, f) PROVE Untouched(s)
  BY <1>a, <1>6 DEF VerifyChange, MoveOn, rbVars, StoreOK, RunsOK, Untouched
<1>7. ASSUME EndVerify(r) PROVE Untouched(s)
  BY <1>a, <1>7 DEF EndVerify, MoveOn, rbVars, StoreOK, RunsOK, Untouched
<1>8. ASSUME EndWrites(r) PROVE Untouched(s)
  BY <1>a, <1>8 DEF EndWrites, MoveOn, rbVars, StoreOK, RunsOK, Untouched
<1>9. ASSUME EndDeletes(r) PROVE Untouched(s)
  BY <1>a, <1>9 DEF EndDeletes, MoveOn, rbVars, StoreOK, RunsOK, Untouched
<1>10. ASSUME EngineThrows(r) PROVE Untouched(s)
  BY <1>a, <1>10 DEF EngineThrows, MoveOn, rbVars, StoreOK, RunsOK, Untouched
<1>11. ASSUME ListExtras(r) PROVE Untouched(s)
  BY <1>a, <1>11 DEF ListExtras, MoveOn, rbVars, StoreOK, RunsOK, Untouched
<1>12. ASSUME RestoreChange(r) PROVE Untouched(s)
  <2>1. current[r] \in File
    BY <1>a, <1>12 DEF RestoreChange, RunsOK
  <2>2. PICK v \in Undone(r, current[r]) : Put(r, current[r], v)
    BY <1>12 DEF RestoreChange
  <2>3. /\ wrote'[s] = wrote[s] /\ touched[s] \subseteq touched'[s]
        /\ \A g \in File \ touched'[s] : file'[g] = file[g]
    BY <1>a, <2>1, <2>2, Puts
  <2>. QED
    BY <1>a, <1>12, <2>3 DEF RestoreChange, RunsOK, Untouched
<1>13. ASSUME RestoreChangeFails(r) PROVE Untouched(s)
  BY <1>a, <1>13 DEF RestoreChangeFails, MoveOn, rbVars, StoreOK, RunsOK, Untouched
<1>14. ASSUME EndChanges(r) PROVE Untouched(s)
  BY <1>a, <1>14 DEF EndChanges, MoveOn, rbVars, StoreOK, RunsOK, Untouched
<1>15. ASSUME FinishRow(r) PROVE Untouched(s)
  BY <1>a, <1>15 DEF FinishRow, MoveOn, rbVars, StoreOK, RunsOK, Untouched
<1>16. ASSUME MarkOriginal(r) PROVE Untouched(s)
  BY <1>a, <1>16 DEF MarkOriginal, MoveOn, rbVars, StoreOK, RunsOK, Untouched
<1>17. ASSUME FailRow(r) PROVE Untouched(s)
  BY <1>a, <1>17 DEF FailRow, MoveOn, rbVars, StoreOK, RunsOK, Untouched
<1>. QED
  BY <1>1, <1>2, <1>3, <1>4, <1>5, <1>6, <1>7, <1>8, <1>9, <1>10, <1>11, <1>12, <1>13, <1>14, <1>15,
     <1>16, <1>17 DEF Acts, RollbackStep

\* Neither do tools and merchants touch a rollback.
LEMMA OutsideWaits ==
  ASSUME RollbackInv, NEW s \in Rollback,
         \/ \E f \in File, v \in Stored : Edit(f, v)
         \/ \E o \in Op : \/ \E st \in Strategies, fs, m \in SUBSET File : ToolReads(o, st, fs, m)
                          \/ \E v \in Stored : ToolWrites(o, v)
         \/ UNCHANGED rollbackVars
  PROVE  Untouched(s)
<1>a. StoreOK /\ RunsOK
  BY TypeParts DEF RollbackInv
<1>1. ASSUME NEW f \in File, NEW v \in Stored, Edit(f, v) PROVE Untouched(s)
  <2>1. [file EXCEPT ![f] = v] \in [File -> Stored] /\ Outside([file EXCEPT ![f] = v])
    BY <1>a, <1>1 DEF Edit, StoreOK
  <2>. QED
    BY <1>1, <2>1, <1>a, OutsideChanges DEF Edit, rbVars, Untouched
<1>2. ASSUME NEW o \in Op, NEW v \in Stored, ToolWrites(o, v) PROVE Untouched(s)
  <2>. DEFINE new == [f \in File |-> IF f \in info[o].changed THEN v ELSE file[f]]
  <2>1. new \in [File -> Stored] /\ Outside(new) /\ UNCHANGED <<rbVars, wrote>>
    BY <1>a, <1>2 DEF ToolWrites, StoreOK
  <2>. HIDE DEF new
  <2>. QED
    BY <2>1, <1>a, OutsideChanges DEF rbVars, Untouched
<1>3. ASSUME NEW o \in Op, NEW st \in Strategies, NEW fs \in SUBSET File, NEW m \in SUBSET File,
             ToolReads(o, st, fs, m)
      PROVE  Untouched(s)
  BY <1>3 DEF ToolReads, rbVars, Untouched
<1>4. CASE UNCHANGED rollbackVars
  BY <1>4 DEF rollbackVars, rbVars, Untouched
<1>. QED
  BY <1>1, <1>2, <1>3, <1>4

\* What is not touched keeps what is said of it.
LEMMA UntouchedKeeps ==
  ASSUME RollbackInv, OpsKept, NEW s \in Rollback, Untouched(s)
  PROVE  PlaceInv(s)' /\ ProgressInv(s)' /\ LookedInv(s)'
<1>a. PlaceInv(s) /\ ProgressInv(s) /\ LookedInv(s)
  BY DEF RollbackInv
<1>1. CASE at[s] = "idle"
  BY <1>a, <1>1 DEF Untouched, PlaceInv, ProgressInv, LookedInv
<1>2. CASE at[s] # "idle"
  <2>1. /\ Target(s)' = Target(s) /\ Target(s) \in Op
        /\ status'[Target(s)] \in {"succeeded", "rolled_back"} /\ info'[Target(s)] = info[Target(s)]
    BY <1>a, <1>2 DEF Untouched, PlaceInv, OpsKept, Target
  <2>2. Scope(s)' = Scope(s)
    BY <2>1 DEF Scope
  <2>3. Scope(s) \subseteq File /\ current[s] \in File \cup {NoFile}
    BY <2>1, TypeParts DEF RollbackInv, OpsOK, Info, Scope, RunsOK
  <2>4. \A f \in File \ touched'[s] :
          /\ Created(Target(s), f)' <=> Created(Target(s), f)
          /\ AsBefore(s, f)' <=> AsBefore(s, f)
          /\ Checks(s, f)' <=> Checks(s, f)
          /\ Matches(s, f)' <=> Matches(s, f)
    BY <2>1 DEF Created, AsBefore, Checks, Matches, Deleted, Untouched
  <2>5. PlaceInv(s)'
    BY <1>a, <1>2, <2>1, <2>2 DEF Untouched, PlaceInv
  <2>6. ProgressInv(s)'
    BY <1>a, <1>2, <2>1, <2>2, <2>3, <2>4 DEF Untouched, ProgressInv
  <2>7. LookedInv(s)'
    BY <1>a, <1>2, <2>1, <2>2, <2>3, <2>4 DEF Untouched, LookedInv
  <2>. QED
    BY <2>5, <2>6, <2>7
<1>. QED
  BY <1>1, <1>2
-----------------------------------------------------------------------------
(* What a rollback does *)

\* A rollback keeps its invariants at each of its steps.
LEMMA OwnStep ==
  ASSUME RollbackInv, OpsKept, NEW r \in Rollback, Acts(r)
  PROVE  PlaceInv(r)' /\ ProgressInv(r)' /\ LookedInv(r)'
<1>. DEFINE Kept == PlaceInv(r)' /\ ProgressInv(r)' /\ LookedInv(r)'
<1>a. StoreOK /\ OpsOK /\ RunsOK
  BY TypeParts DEF RollbackInv
<1>b. PlaceInv(r)
  BY DEF RollbackInv
<1>c. ProgressInv(r)
  BY DEF RollbackInv
<1>d. LookedInv(r)
  BY DEF RollbackInv
<1>e. ASSUME job'[r] = job[r], at[r] # "idle"
      PROVE  /\ Target(r)' = Target(r) /\ Target(r) \in Op /\ info'[Target(r)] = info[Target(r)]
             /\ status'[Target(r)] \in {"succeeded", "rolled_back"} /\ Scope(r)' = Scope(r)
             /\ Scope(r) \subseteq File
             /\ \A f : Created(Target(r), f)' <=> Created(Target(r), f)
             /\ \A f : Checks(r, f)' <=> Checks(r, f)
             /\ \A f : file'[f] = file[f] => AsBefore(r, f)' = AsBefore(r, f) /\ Matches(r, f)' = Matches(r, f)
  <2>1. /\ Target(r)' = Target(r) /\ Target(r) \in Op /\ info'[Target(r)] = info[Target(r)]
        /\ status'[Target(r)] \in {"succeeded", "rolled_back"}
    BY <1>b, <1>e DEF PlaceInv, OpsKept, Target
  <2>2. Scope(r)' = Scope(r) /\ Scope(r) \subseteq File
    BY <1>a, <2>1 DEF Scope, OpsOK, Info
  <2>3. /\ \A f : Created(Target(r), f)' <=> Created(Target(r), f)
        /\ \A f : Checks(r, f)' <=> Checks(r, f)
        /\ \A f : file'[f] = file[f] => AsBefore(r, f)' = AsBefore(r, f) /\ Matches(r, f)' = Matches(r, f)
    BY <1>e, <2>1 DEF Created, AsBefore, Checks, Matches, Deleted
  <2>. QED
    BY <2>1, <2>2, <2>3
<1>1. ASSUME NEW o \in Op, NEW force \in BOOLEAN, NEW prune \in BOOLEAN, Start(r, o, force,
   prune) PROVE Kept
  <2>1. /\ at[r] = "idle" /\ row'[r] = "pending" /\ Target(r)' = o /\ job'[r].force = force
        /\ touched'[r] = {} /\ UNCHANGED <<file, opVars, current, warned, refused, wrote>>
        /\ status[o] \in {"succeeded", "rolled_back"}
    BY <1>a, <1>1 DEF Start, Available, RunsOK, StoreOK, Target
  <2>2. /\ info[o].strategy = "files" => at'[r] = "verify" /\ todo'[r] = info[o].changed
        /\ info[o].strategy = "snapshot" =>
             at'[r] = "write" /\ todo'[r] = {f \in File : info[o].image[f] # Missing}
        /\ info[o].strategy \notin {"files", "snapshot"} =>
             at'[r] = "change" /\ todo'[r] = info[o].changed
    BY <1>a, <1>1 DEF Start, RunsOK
  <2>3. /\ Scope(r)' = IF info[o].strategy = "snapshot" THEN File ELSE info[o].changed
        /\ \A f : Created(Target(r), f)' <=> info[o].image[f] = Missing
    BY <2>1 DEF Scope, Created, opVars
  <2>4. PlaceInv(r)'
    BY <1>b, <2>1, <2>2, <2>3 DEF PlaceInv, opVars
  <2>5. ProgressInv(r)'
    BY <2>1, <2>2, <2>3 DEF ProgressInv, opVars
  <2>6. LookedInv(r)'
    BY <1>b, <2>1, <2>2, <2>3 DEF LookedInv, PlaceInv, opVars
  <2>. QED
    BY <2>4, <2>5, <2>6
<1>2. ASSUME NEW f \in File, Verify(r, f) PROVE Kept
  <2>1. /\ todo'[r] = todo[r] \ {f} /\ touched'[r] = touched[r] \ {f} /\ f \in todo[r]
        /\ at[r] = "verify" /\ Acceptable(r, f) /\ file' = file
        /\ UNCHANGED <<at, row, job, current, warned, refused, wrote, opVars>>
    BY <1>a, <1>b, <1>2 DEF Verify, MoveOn, PlaceInv, RunsOK, StoreOK, OpsOK
  <2>2. job'[r] = job[r] /\ at[r] # "idle"
    BY <2>1
  <2>3. PlaceInv(r)'
    BY <1>b, <1>e, <2>1, <2>2 DEF PlaceInv, opVars, Scope
  <2>4. ProgressInv(r)'
    BY <1>b, <1>c, <1>e, <2>1, <2>2 DEF ProgressInv, PlaceInv, opVars, Scope
  <2>5. LookedInv(r)'
    BY <1>b, <1>d, <1>e, <2>1, <2>2 DEF LookedInv, PlaceInv, opVars, Acceptable, Scope
  <2>. QED
    BY <2>3, <2>4, <2>5
<1>3. ASSUME NEW f \in File, Mismatch(r, f) PROVE Kept
  <2>1. /\ at'[r] = "fail" /\ refused'[r] /\ at[r] \in {"verify", "change"} /\ current[r] = NoFile
        /\ UNCHANGED <<file, row, job, todo, current, warned, wrote, touched, opVars>>
    BY <1>a, <1>b, <1>3 DEF Mismatch, MoveOn, PlaceInv, RunsOK, StoreOK, OpsOK
  <2>2. job'[r] = job[r] /\ at[r] # "idle"
    BY <2>1
  <2>3. PlaceInv(r)'
    BY <1>b, <1>e, <2>1, <2>2 DEF PlaceInv, opVars, Scope
  <2>4. ProgressInv(r)'
    BY <1>b, <1>c, <1>e, <2>1, <2>2 DEF ProgressInv, PlaceInv, opVars, Scope
  <2>5. LookedInv(r)'
    BY <1>b, <1>d, <1>e, <2>1, <2>2 DEF LookedInv, PlaceInv, opVars, Scope
  <2>. QED
    BY <2>3, <2>4, <2>5
<1>4. ASSUME NEW f \in File, RestoreFails(r, f) PROVE Kept
  <2>1. /\ todo'[r] = todo[r] \ {f} /\ warned'[r] /\ current[r] = NoFile
        /\ at[r] \in {"write", "delete", "extras", "change"}
        /\ UNCHANGED <<file, at, row, job, current, refused, wrote, touched, opVars>>
    BY <1>a, <1>b, <1>4 DEF RestoreFails, MoveOn, PlaceInv, RunsOK, StoreOK, OpsOK
  <2>2. job'[r] = job[r] /\ at[r] # "idle"
    BY <2>1
  <2>3. PlaceInv(r)'
    BY <1>b, <1>e, <2>1, <2>2 DEF PlaceInv, opVars, Scope
  <2>4. ProgressInv(r)'
    BY <1>b, <1>c, <1>e, <2>1, <2>2 DEF ProgressInv, PlaceInv, opVars, Scope
  <2>5. LookedInv(r)'
    BY <1>b, <1>d, <1>e, <2>1, <2>2 DEF LookedInv, PlaceInv, opVars, Scope
  <2>. QED
    BY <2>3, <2>4, <2>5
<1>5. ASSUME NEW f \in File, VerifyChange(r, f) PROVE Kept
  <2>1. /\ current'[r] = f /\ touched'[r] = touched[r] \ {f} /\ f \in todo[r]
        /\ at[r] = "change" /\ Acceptable(r, f) /\ current[r] = NoFile
        /\ UNCHANGED <<file, at, row, job, todo, warned, refused, wrote, opVars>>
    BY <1>a, <1>b, <1>5 DEF VerifyChange, MoveOn, PlaceInv, RunsOK, StoreOK, OpsOK
  <2>2. job'[r] = job[r] /\ at[r] # "idle"
    BY <2>1
  <2>3. PlaceInv(r)'
    BY <1>b, <1>e, <2>1, <2>2 DEF PlaceInv, opVars, Scope
  <2>4. ProgressInv(r)'
    BY <1>b, <1>c, <1>e, <2>1, <2>2 DEF ProgressInv, PlaceInv, opVars, Scope
  <2>5. LookedInv(r)'
    BY <1>b, <1>d, <1>e, <2>1, <2>2 DEF LookedInv, PlaceInv, opVars, Acceptable, Scope
  <2>. QED
    BY <2>3, <2>4, <2>5
<1>6. ASSUME EndVerify(r) PROVE Kept
  <2>1. /\ at[r] = "verify" /\ at'[r] = "write" /\ todo[r] = {}
        /\ todo'[r] = {f \in info[Target(r)].changed : ~Created(Target(r), f)}
        /\ UNCHANGED <<file, row, job, current, warned, refused, wrote, touched, opVars>>
    BY <1>a, <1>b, <1>6 DEF EndVerify, MoveOn, PlaceInv, RunsOK, StoreOK, OpsOK
  <2>2. job'[r] = job[r] /\ at[r] # "idle"
    BY <2>1
  <2>3. PlaceInv(r)'
    BY <1>b, <1>e, <2>1, <2>2 DEF PlaceInv, opVars, Scope
  <2>4. ProgressInv(r)'
    BY <1>b, <1>c, <1>e, <2>1, <2>2 DEF ProgressInv, PlaceInv, opVars, Scope
  <2>5. LookedInv(r)'
    BY <1>b, <1>d, <1>e, <2>1, <2>2 DEF LookedInv, PlaceInv, opVars, Scope
  <2>. QED
    BY <2>3, <2>4, <2>5
<1>7. ASSUME EndWrites(r) PROVE Kept
  <2>1. /\ at[r] = "write" /\ todo[r] = {}
        /\ \/ /\ info[Target(r)].strategy = "files" /\ at'[r] = "delete"
              /\ todo'[r] = {f \in info[Target(r)].changed : Created(Target(r), f)}
           \/ info[Target(r)].strategy # "files" /\ at'[r] = "list" /\ todo'[r] = {}
        /\ UNCHANGED <<file, row, job, current, warned, refused, wrote, touched, opVars>>
    BY <1>a, <1>b, <1>7 DEF EndWrites, MoveOn, PlaceInv, RunsOK, StoreOK, OpsOK
  <2>2. job'[r] = job[r] /\ at[r] # "idle"
    BY <2>1
  <2>3. PlaceInv(r)'
    BY <1>b, <1>e, <2>1, <2>2 DEF PlaceInv, opVars, Scope
  <2>4. ProgressInv(r)'
    BY <1>b, <1>c, <1>e, <2>1, <2>2 DEF ProgressInv, PlaceInv, opVars, Scope
  <2>5. LookedInv(r)'
    BY <1>b, <1>d, <1>e, <2>1, <2>2 DEF LookedInv, PlaceInv, opVars, Scope
  <2>. QED
    BY <2>3, <2>4, <2>5
<1>8. ASSUME EndDeletes(r) PROVE Kept
  <2>1. /\ at[r] \in {"delete", "extras"} /\ at'[r] = "finish" /\ todo[r] = {}
        /\ UNCHANGED <<file, row, job, todo, current, warned, refused, wrote, touched, opVars>>
    BY <1>a, <1>b, <1>8 DEF EndDeletes, MoveOn, PlaceInv, RunsOK, StoreOK, OpsOK
  <2>2. job'[r] = job[r] /\ at[r] # "idle"
    BY <2>1
  <2>3. PlaceInv(r)'
    BY <1>b, <1>e, <2>1, <2>2 DEF PlaceInv, opVars, Scope
  <2>4. ProgressInv(r)'
    BY <1>b, <1>c, <1>e, <2>1, <2>2 DEF ProgressInv, PlaceInv, opVars, Scope
  <2>5. LookedInv(r)'
    BY <1>b, <1>d, <1>e, <2>1, <2>2 DEF LookedInv, PlaceInv, opVars, Scope
  <2>. QED
    BY <2>3, <2>4, <2>5
<1>9. ASSUME EngineThrows(r) PROVE Kept
  <2>1. /\ at[r] \in {"verify", "write", "delete", "list", "extras", "change", "finish", "mark"}
        /\ at'[r] = "fail"
        /\ (at[r] = "change" => current[r] = NoFile)
        /\ UNCHANGED <<file, row, job, todo, current, warned, refused, wrote, touched, opVars>>
    BY <1>a, <1>b, <1>9 DEF EngineThrows, MoveOn, PlaceInv, RunsOK, StoreOK, OpsOK
  <2>2. job'[r] = job[r] /\ at[r] # "idle"
    BY <2>1
  <2>3. PlaceInv(r)'
    BY <1>b, <1>e, <2>1, <2>2 DEF PlaceInv, opVars, Scope
  <2>4. ProgressInv(r)'
    BY <1>b, <1>c, <1>e, <2>1, <2>2 DEF ProgressInv, PlaceInv, opVars, Scope
  <2>5. LookedInv(r)'
    BY <1>b, <1>d, <1>e, <2>1, <2>2 DEF LookedInv, PlaceInv, opVars, Scope
  <2>. QED
    BY <2>3, <2>4, <2>5
<1>10. ASSUME RestoreChangeFails(r) PROVE Kept
  <2>1. /\ at[r] = "change" /\ warned'[r] /\ todo'[r] = todo[r] \ {current[r]} /\ current'[r] = NoFile
        /\ UNCHANGED <<file, at, row, job, refused, wrote, touched, opVars>>
    BY <1>a, <1>b, <1>10 DEF RestoreChangeFails, MoveOn, PlaceInv, RunsOK, StoreOK, OpsOK
  <2>2. job'[r] = job[r] /\ at[r] # "idle"
    BY <2>1
  <2>3. PlaceInv(r)'
    BY <1>b, <1>e, <2>1, <2>2 DEF PlaceInv, opVars, Scope
  <2>4. ProgressInv(r)'
    BY <1>b, <1>c, <1>e, <2>1, <2>2 DEF ProgressInv, PlaceInv, opVars, Scope
  <2>5. LookedInv(r)'
    BY <1>b, <1>d, <1>e, <2>1, <2>2 DEF LookedInv, PlaceInv, opVars, Scope
  <2>. QED
    BY <2>3, <2>4, <2>5
<1>11. ASSUME EndChanges(r) PROVE Kept
  <2>1. /\ at[r] = "change" /\ at'[r] = "finish" /\ todo[r] = {}
        /\ UNCHANGED <<file, row, job, todo, current, warned, refused, wrote, touched, opVars>>
    BY <1>a, <1>b, <1>11 DEF EndChanges, MoveOn, PlaceInv, RunsOK, StoreOK, OpsOK
  <2>2. job'[r] = job[r] /\ at[r] # "idle"
    BY <2>1
  <2>3. PlaceInv(r)'
    BY <1>b, <1>e, <2>1, <2>2 DEF PlaceInv, opVars, Scope
  <2>4. ProgressInv(r)'
    BY <1>b, <1>c, <1>e, <2>1, <2>2 DEF ProgressInv, PlaceInv, opVars, Scope
  <2>5. LookedInv(r)'
    BY <1>b, <1>d, <1>e, <2>1, <2>2 DEF LookedInv, PlaceInv, opVars, Scope
  <2>. QED
    BY <2>3, <2>4, <2>5
<1>12. ASSUME FinishRow(r) PROVE Kept
  <2>1. /\ at[r] = "finish" /\ at'[r] = "mark" /\ row'[r] = "succeeded"
        /\ UNCHANGED <<file, job, todo, current, warned, refused, wrote, touched, opVars>>
    BY <1>a, <1>b, <1>12 DEF FinishRow, MoveOn, PlaceInv, RunsOK, StoreOK, OpsOK
  <2>2. job'[r] = job[r] /\ at[r] # "idle"
    BY <2>1
  <2>3. PlaceInv(r)'
    BY <1>b, <1>e, <2>1, <2>2 DEF PlaceInv, opVars, Scope
  <2>4. ProgressInv(r)'
    BY <1>b, <1>c, <1>e, <2>1, <2>2 DEF ProgressInv, PlaceInv, opVars, Scope
  <2>5. LookedInv(r)'
    BY <1>b, <1>d, <1>e, <2>1, <2>2 DEF LookedInv, PlaceInv, opVars, Scope
  <2>. QED
    BY <2>3, <2>4, <2>5
<1>13. ASSUME MarkOriginal(r) PROVE Kept
  <2>1. /\ at[r] = "mark" /\ at'[r] = "done" /\ status'[Target(r)] = "rolled_back"
        /\ UNCHANGED <<file, info, row, job, todo, current, warned, refused, wrote, touched>>
    BY <1>a, <1>b, <1>13 DEF MarkOriginal, MoveOn, PlaceInv, RunsOK, StoreOK, OpsOK
  <2>2. job'[r] = job[r] /\ at[r] # "idle"
    BY <2>1
  <2>3. PlaceInv(r)'
    BY <1>b, <1>e, <2>1, <2>2 DEF PlaceInv, opVars, Scope
  <2>4. ProgressInv(r)'
    BY <1>b, <1>c, <1>e, <2>1, <2>2 DEF ProgressInv, PlaceInv, opVars, Scope
  <2>5. LookedInv(r)'
    BY <1>b, <1>d, <1>e, <2>1, <2>2 DEF LookedInv, PlaceInv, opVars, Scope
  <2>. QED
    BY <2>3, <2>4, <2>5
<1>14. ASSUME FailRow(r) PROVE Kept
  <2>1. /\ at[r] = "fail" /\ at'[r] = "done" /\ row'[r] = "failed"
        /\ UNCHANGED <<file, job, todo, current, warned, refused, wrote, touched, opVars>>
    BY <1>a, <1>b, <1>14 DEF FailRow, MoveOn, PlaceInv, RunsOK, StoreOK, OpsOK
  <2>2. job'[r] = job[r] /\ at[r] # "idle"
    BY <2>1
  <2>3. PlaceInv(r)'
    BY <1>b, <1>e, <2>1, <2>2 DEF PlaceInv, opVars, Scope
  <2>4. ProgressInv(r)'
    BY <1>b, <1>c, <1>e, <2>1, <2>2 DEF ProgressInv, PlaceInv, opVars, Scope
  <2>5. LookedInv(r)'
    BY <1>b, <1>d, <1>e, <2>1, <2>2 DEF LookedInv, PlaceInv, opVars, Scope
  <2>. QED
    BY <2>3, <2>4, <2>5
<1>15. ASSUME NEW f \in File, Restore(r, f) PROVE Kept
  <2>1. /\ at[r] \in {"write", "delete", "extras"} /\ f \in todo[r] /\ todo'[r] = todo[r] \ {f}
        /\ UNCHANGED <<opVars, at, row, job, current, warned, refused>>
        /\ Put(r, f, info[Target(r)].image[f])
    BY <1>a, <1>15 DEF Restore, RunsOK
  <2>2. /\ file'[f] = info[Target(r)].image[f] /\ \A g \in File \ {f} : file'[g] = file[g]
        /\ wrote'[r] = wrote[r] \cup {f} /\ touched'[r] = touched[r]
    BY <1>a, <2>1, Puts
  <2>3. job'[r] = job[r] /\ at[r] # "idle" /\ info'[Target(r)] = info[Target(r)]
    BY <2>1 DEF opVars
  <2>4. AsBefore(r, f)'
    BY <1>e, <2>2, <2>3 DEF AsBefore
  <2>5. PlaceInv(r)'
    BY <1>b, <1>e, <2>1, <2>2, <2>3 DEF PlaceInv
  <2>6. ProgressInv(r)'
    BY <1>b, <1>c, <1>e, <2>1, <2>2, <2>3, <2>4 DEF ProgressInv, PlaceInv
  <2>7. LookedInv(r)'
    BY <1>b, <1>d, <1>e, <2>1, <2>2, <2>3 DEF LookedInv, PlaceInv
  <2>. QED
    BY <2>5, <2>6, <2>7
<1>16. ASSUME ListExtras(r) PROVE Kept
  <2>. DEFINE extras == {f \in File : file[f] # Missing /\ info[Target(r)].image[f] = Missing}
  <2>1. /\ at[r] = "list" /\ touched'[r] = touched[r] \ extras
        /\ UNCHANGED <<file, opVars, row, job, current, refused, wrote>>
    BY <1>a, <1>16 DEF ListExtras, StoreOK
  <2>2. \/ at'[r] = "extras" /\ todo'[r] = extras /\ warned'[r] = warned[r]
        \/ at'[r] = "finish" /\ todo'[r] = todo[r] /\ warned'[r] = (warned[r] \/ extras # {})
    BY <1>a, <1>16 DEF ListExtras, MoveOn, RunsOK
  <2>3. \A f \in File : f \notin extras => ~Created(Target(r), f) \/ AsBefore(r, f)
    BY DEF Created, AsBefore
  <2>4. extras \subseteq File
    OBVIOUS
  <2>. HIDE DEF extras
  <2>5. job'[r] = job[r] /\ at[r] # "idle" /\ Scope(r) = File
    BY <1>b, <2>1 DEF PlaceInv, Scope
  <2>6. PlaceInv(r)'
    BY <1>b, <1>e, <2>1, <2>2, <2>4, <2>5 DEF PlaceInv, opVars
  <2>7. ProgressInv(r)'
    BY <1>b, <1>c, <1>e, <2>1, <2>2, <2>3, <2>5 DEF ProgressInv, PlaceInv, opVars
  <2>8. LookedInv(r)'
    BY <2>2 DEF LookedInv
  <2>. QED
    BY <2>6, <2>7, <2>8
<1>17. ASSUME RestoreChange(r) PROVE Kept
  <2>0. PICK f \in File : f = current[r]
    BY <1>a, <1>17 DEF RestoreChange, RunsOK
  <2>1. /\ at[r] = "change" /\ f # NoFile /\ todo'[r] = todo[r] \ {f} /\ current'[r] = NoFile
        /\ UNCHANGED <<opVars, at, row, job, warned, refused>>
    BY <1>a, <2>0, <1>17 DEF RestoreChange, RunsOK
  <2>2. job'[r] = job[r] /\ at[r] # "idle"
    BY <2>1
  <2>a. PICK v \in Undone(r, f) : Put(r, f, v)
    BY <1>17, <2>0 DEF RestoreChange
  <2>3. /\ file'[f] = v /\ \A g \in File \ {f} : file'[g] = file[g]
        /\ wrote'[r] = wrote[r] \cup {f} /\ touched'[r] = touched[r]
    BY <1>a, <2>a, Puts
  <2>b. Target(r) \in Op
    BY <1>e, <2>2
  <2>4. AsBefore(r, f)'
    <3>1. \/ v = info[Target(r)].image[f]
          \/ info[Target(r)].strategy \in Recreated /\ Deleted(Target(r)) /\ v # Missing
          \/ info[Target(r)].strategy \in NullKept /\ Created(Target(r), f)
      BY <1>a, <2>a, <2>b, UndoneIsRight
    <3>. QED
      BY <1>e, <2>2, <2>3, <3>1 DEF AsBefore, Deleted, Created
  <2>5. PlaceInv(r)'
    BY <1>b, <1>e, <2>1, <2>2, <2>3 DEF PlaceInv, opVars
  <2>6. ProgressInv(r)'
    BY <1>b, <1>c, <1>e, <2>1, <2>2, <2>3, <2>4 DEF ProgressInv, PlaceInv, opVars
  <2>7. LookedInv(r)'
    BY <2>1 DEF LookedInv
  <2>. QED
    BY <2>5, <2>6, <2>7
<1>. HIDE DEF Kept
<1>z. Kept
  BY <1>1, <1>2, <1>3, <1>4, <1>5, <1>6, <1>7, <1>8, <1>9, <1>10, <1>11, <1>12, <1>13, <1>14, <1>15,
     <1>16, <1>17 DEF Acts, RollbackStep
<1>. QED
  BY <1>z DEF Kept

\* A crash leaves the store alone, and a rollback that was under way where it was.
LEMMA CrashStep ==
  ASSUME RollbackInv, OpsKept, RollbackCrash, NEW r \in Rollback
  PROVE  PlaceInv(r)' /\ ProgressInv(r)' /\ LookedInv(r)'
<1>a. PlaceInv(r) /\ ProgressInv(r) /\ StoreOK /\ OpsOK /\ RunsOK
  BY TypeParts DEF RollbackInv
<1>1. /\ at'[r] = IF at[r] \in {"idle", "done"} THEN at[r] ELSE "lost"
      /\ UNCHANGED <<file, info, row, job, todo, current, warned, refused, wrote, touched>>
  BY <1>a DEF RollbackCrash
<1>2. Target(r)' = Target(r) /\ Scope(r)' = Scope(r) /\ \A f : AsBefore(r, f)' <=> AsBefore(r, f)
  BY <1>1 DEF Target, Scope, AsBefore, Created, Deleted
<1>3. at[r] # "idle" => Target(r) \in Op /\ status'[Target(r)] \in {"succeeded", "rolled_back"}
  BY <1>a DEF PlaceInv, OpsKept
<1>4. PlaceInv(r)'
  BY <1>a, <1>1, <1>2, <1>3 DEF PlaceInv
<1>5. ProgressInv(r)'
  BY <1>a, <1>1, <1>2 DEF ProgressInv
<1>6. LookedInv(r)'
  BY <1>1 DEF LookedInv
<1>. QED
  BY <1>4, <1>5, <1>6

LEMMA RunStep ==
  ASSUME RollbackInv, [RollbackNext]_rollbackVars, NEW s \in Rollback
  PROVE  PlaceInv(s)' /\ ProgressInv(s)' /\ LookedInv(s)'
<1>a. OpsKept
  BY OpsStay
<1>1. ASSUME NEW r \in Rollback, Acts(r) PROVE PlaceInv(s)' /\ ProgressInv(s)' /\ LookedInv(s)'
  <2>1. CASE r = s
    BY <1>a, <1>1, <2>1, OwnStep
  <2>2. CASE r # s
    BY <1>a, <1>1, <2>2, OthersWait, UntouchedKeeps
  <2>. QED
    BY <2>1, <2>2
<1>2. CASE \/ \E f \in File, v \in Stored : Edit(f, v)
           \/ \E o \in Op : \/ \E st \in Strategies, fs, m \in SUBSET File : ToolReads(o, st, fs, m)
                            \/ \E v \in Stored : ToolWrites(o, v)
           \/ UNCHANGED rollbackVars
  BY <1>a, <1>2, OutsideWaits, UntouchedKeeps
<1>3. CASE RollbackCrash
  BY <1>a, <1>3, CrashStep
<1>. QED
  BY <1>1, <1>2, <1>3 DEF RollbackNext, Acts

\* The mark is set last, by a rollback whose row has succeeded, and rows are final.
LEMMA MarkStep ==
  ASSUME RollbackInv, [RollbackNext]_rollbackVars
  PROVE  MarkedByASuccess' /\ MarksAreLast'
<1>. SUFFICES ASSUME NEW o \in Op, status'[o] = "rolled_back"
              PROVE  /\ by'[o] # NoRollback /\ job'[by'[o]].op = o
                     /\ row'[by'[o]] = "succeeded" /\ at'[by'[o]] = "done"
  BY DEF MarkedByASuccess, MarksAreLast, Target
<1>a. /\ OpsOK /\ RunsOK /\ (\A r \in Rollback : PlaceInv(r))
      /\ status[o] = "rolled_back" => /\ by[o] # NoRollback /\ Target(by[o]) = o
                                      /\ row[by[o]] = "succeeded" /\ at[by[o]] = "done"
  BY TypeParts DEF RollbackInv, MarkedByASuccess, MarksAreLast
<1>1. CASE \E r \in Rollback : MarkOriginal(r)
  <2>1. PICK r \in Rollback : MarkOriginal(r)
    BY <1>1
  <2>2. /\ row'[r] = "succeeded" /\ r # NoRollback /\ Target(r)' = Target(r) /\ at'[r] = "done"
        /\ \A q \in Rollback : at[q] = "done" => at'[q] = "done"
        /\ UNCHANGED <<row, job>>
    BY <1>a, <2>1, RollbackAssumption DEF MarkOriginal, MoveOn, PlaceInv, Target, RunsOK
  <2>3. CASE o = Target(r)
    BY <1>a, <2>1, <2>2, <2>3 DEF MarkOriginal, OpsOK, Target
  <2>4. CASE o # Target(r)
    BY <1>a, <2>1, <2>2, <2>4 DEF MarkOriginal, OpsOK, Target
  <2>. QED
    BY <2>3, <2>4
<1>2. CASE ~\E r \in Rollback : MarkOriginal(r)
  <2>1. status[o] = "rolled_back" /\ by'[o] = by[o]
    <3>1. ASSUME NEW r \in Rollback, Acts(r) PROVE UNCHANGED <<status, by>>
      <4>1. ASSUME NEW p \in Op, NEW force \in BOOLEAN, NEW prune \in BOOLEAN, Start(r, p, force, prune)
            PROVE  UNCHANGED <<status, by>>
        BY <4>1 DEF Start, opVars
      <4>2. CASE RollbackStep(r)
        BY <1>2, <4>2 DEF RollbackStep, Verify, Mismatch, Restore, RestoreFails, VerifyChange, EndVerify, EndWrites,
           EndDeletes, EngineThrows, ListExtras, RestoreChange, RestoreChangeFails, EndChanges, FinishRow,
           FailRow, opVars
      <4>. QED
        BY <3>1, <4>1, <4>2 DEF Acts
    <3>2. ASSUME NEW p \in Op, NEW s \in Strategies, NEW fs \in SUBSET File, NEW m \in SUBSET File,
                 ToolReads(p, s, fs, m)
          PROVE  status[o] = "rolled_back" /\ by'[o] = by[o]
      BY <1>a, <3>2 DEF ToolReads, OpsOK
    <3>3. ASSUME NEW p \in Op, NEW v \in Stored, ToolWrites(p, v)
          PROVE  status[o] = "rolled_back" /\ by'[o] = by[o]
      BY <1>a, <3>3 DEF ToolWrites, OpsOK
    <3>4. ASSUME NEW f \in File, NEW v \in Stored, Edit(f, v) PROVE UNCHANGED <<status, by>>
      BY <3>4 DEF Edit, opVars
    <3>5. CASE RollbackCrash
      BY <1>a, <3>5 DEF RollbackCrash, OpsOK
    <3>6. CASE UNCHANGED rollbackVars
      BY <3>6 DEF rollbackVars, opVars
    <3>. QED
      BY <3>1, <3>2, <3>3, <3>4, <3>5, <3>6 DEF RollbackNext, Acts
  <2>. DEFINE q == by[o]
  <2>2. q \in Rollback /\ q # NoRollback /\ Target(q) = o /\ row[q] = "succeeded" /\ at[q] = "done"
    BY <1>a, <2>1 DEF OpsOK
  <2>. HIDE DEF q
  <2>4. row'[q] = row[q] /\ job'[q] = job[q] /\ at'[q] = at[q]
    <3>1. ASSUME NEW r \in Rollback, Acts(r), r # q
          PROVE  row'[q] = row[q] /\ job'[q] = job[q] /\ at'[q] = at[q]
      BY <2>2, <3>1, OthersWait DEF Untouched
    <3>2. CASE Acts(q)
      BY <2>2, <3>2 DEF Acts, Start, RollbackStep, Verify, Mismatch, Restore, RestoreFails, VerifyChange,
         EndVerify, EndWrites, EndDeletes, EngineThrows, ListExtras, RestoreChange, RestoreChangeFails,
         EndChanges, FinishRow, MarkOriginal, FailRow, MoveOn
    <3>3. CASE RollbackCrash
      BY <1>a, <2>2, <3>3 DEF RollbackCrash, RunsOK
    <3>4. CASE ~RollbackCrash /\ ~\E r \in Rollback : Acts(r)
      BY <2>2, <3>4, OutsideWaits DEF RollbackNext, Acts, Untouched
    <3>. QED
      BY <3>1, <3>2, <3>3, <3>4
  <2>5. job'[q].op = o /\ row'[q] = "succeeded" /\ at'[q] = "done"
    BY <2>2, <2>4 DEF Target
  <2>. QED
    BY <2>1, <2>2, <2>5 DEF q
<1>. QED
  BY <1>1, <1>2

LEMMA RollbackInitInv == RollbackInit => RollbackInv
<1>. SUFFICES ASSUME RollbackInit PROVE RollbackInv
  OBVIOUS
<1>1. NoInfo \in Info /\ NoJob \in Job
  BY DEF NoInfo, Info, NoJob, Job, Stored
<1>2. StoreOK /\ OpsOK /\ RunsOK
  BY <1>1, RollbackAssumption DEF RollbackInit, StoreOK, OpsOK, RunsOK
<1>3. \A r \in Rollback : PlaceInv(r) /\ ProgressInv(r) /\ LookedInv(r)
  BY DEF RollbackInit, PlaceInv, ProgressInv, LookedInv
<1>. QED
  BY <1>2, <1>3, TypeParts DEF RollbackInv, RollbackInit, MarkedByASuccess, MarksAreLast

LEMMA RollbackInvStep == RollbackInv /\ [RollbackNext]_rollbackVars => RollbackInv'
<1>. SUFFICES ASSUME RollbackInv, [RollbackNext]_rollbackVars PROVE RollbackInv'
  OBVIOUS
<1>1. RollbackTypeOK'
  BY StoreStep, OpsStep, RunsStep DEF RollbackTypeOK, StoreOK, OpsOK, RunsOK
<1>. QED
  BY <1>1, MarkStep, RunStep DEF RollbackInv

\* The inductive invariant holds in every state.
THEOREM RollbackInvariance == RollbackSpec => []RollbackInv
  BY RollbackInitInv, RollbackInvStep, PTL DEF RollbackSpec
-----------------------------------------------------------------------------
(* What follows from the invariant *)

\* A rollback of before-images that meets an edited file writes nothing, and an
\* operation is marked as rolled back by a rollback of its own that succeeded
\* (executeLedgerBeforeImage, and the two rows that execute writes at its end).
THEOREM RollbacksAreBookedTruly == RollbackSpec => []RollbackSafe
<1>1. RollbackInv => RollbackSafe
  BY DEF RollbackInv, PlaceInv, RollbackSafe, RefusedWritesNothing
<1>. QED
  BY <1>1, RollbackInvariance, PTL

\* A rollback that is booked as succeeded, and warned of nothing, has restored every file
\* that nobody changed since, whatever other rollbacks, tools and merchants did meanwhile.
THEOREM SuccessRestores == RollbackSpec => []CleanSuccessRestores
<1>1. ASSUME RollbackInv PROVE CleanSuccessRestores
  <2>. SUFFICES ASSUME NEW r \in Rollback, row[r] = "succeeded", ~warned[r]
                PROVE  \A f \in Scope(r) \ touched[r] : AsBefore(r, f)
    BY DEF CleanSuccessRestores, Scope
  <2>1. PlaceInv(r) /\ ProgressInv(r)
    BY <1>1 DEF RollbackInv
  <2>2. \A f \in Scope(r) \ touched[r] : AsBefore(r, f)
    BY <2>1 DEF PlaceInv, ProgressInv
  <2>. QED
    BY <2>2
<1>. QED
  BY <1>1, RollbackInvariance, PTL

\* What a step of a rollback writes without force it has looked at, or does not check.
LEMMA WriteLooked ==
  ASSUME RollbackInv, [RollbackNext]_rollbackVars, NEW r \in Rollback, NEW f \in File,
         f \in wrote'[r] \ wrote[r], Checks(r, f), ~job[r].force
  PROVE  file[f] = info[Target(r)].after \/ f \in touched[r]
<1>a. StoreOK /\ RunsOK /\ PlaceInv(r) /\ LookedInv(r)
  BY TypeParts DEF RollbackInv
<1>1. ~Untouched(r)
  BY DEF Untouched
<1>2. Acts(r)
  <2>1. ASSUME NEW s \in Rollback, Acts(s) PROVE Acts(r)
    BY <1>1, <2>1, OthersWait
  <2>2. ~RollbackCrash
    BY DEF RollbackCrash
  <2>. QED
    BY <1>1, <2>1, <2>2, OutsideWaits DEF RollbackNext, Acts
<1>3. ~UNCHANGED wrote
  OBVIOUS
<1>4. RestoreChange(r) \/ \E g \in File : Restore(r, g)
  BY <1>2, <1>3 DEF Acts, Start, RollbackStep, Verify, Mismatch, RestoreFails, VerifyChange,
     EndVerify, EndWrites, EndDeletes, EngineThrows, ListExtras, RestoreChangeFails,
     EndChanges, FinishRow, MarkOriginal, FailRow
<1>5. CASE RestoreChange(r)
  <2>0. PICK v \in Undone(r, current[r]) : Put(r, current[r], v)
    BY <1>5 DEF RestoreChange
  <2>1. at[r] = "change" /\ current[r] \in File /\ Put(r, current[r], v)
    BY <1>a, <1>3, <1>5, <2>0 DEF RestoreChange, RunsOK
  <2>2. f = current[r]
    BY <1>a, <2>1, Puts
  <2>. QED
    BY <1>a, <2>1, <2>2, RollbackAssumption DEF LookedInv, Matches
<1>6. ASSUME NEW g \in File, Restore(r, g) PROVE file[f] = info[Target(r)].after \/ f \in touched[r]
  <2>1. /\ at[r] \in {"write", "delete", "extras"} /\ g \in todo[r]
        /\ Put(r, g, info[Target(r)].image[g])
    BY <1>6 DEF Restore
  <2>2. f = g
    BY <1>a, <2>1, Puts
  <2>3. f \in Scope(r) /\ info[Target(r)].strategy = "files" /\ at[r] \in {"write", "delete"}
    BY <1>a, <2>1, <2>2 DEF PlaceInv, Checks, LookedAt
  <2>. QED
    BY <1>a, <2>3 DEF LookedInv, Matches
<1>. QED
  BY <1>4, <1>5, <1>6

\* No fingerprinted file is overwritten blindly, whatever it is that overlaps.
THEOREM LooksBeforeItWrites == RollbackSpec => NoBlindOverwrite
<1>1. RollbackInv /\ [RollbackNext]_rollbackVars =>
        [\A r \in Rollback, f \in File :
           /\ f \in wrote'[r] \ wrote[r]
           /\ Checks(r, f) /\ ~job[r].force
           => file[f] = info[Target(r)].after \/ f \in touched[r]]_rollbackVars
  BY WriteLooked
<1>. QED
  BY <1>1, RollbackInvariance, PTL DEF RollbackSpec, NoBlindOverwrite

-----------------------------------------------------------------------------
(* Snapshots *)


Places == {"new", "read", "blob", "look", "row", "entry", "list", "done", "failed"}
Req == [at : Places, keys : SUBSET Key, got : [Key -> Held], key : Key \cup {Gone}]
GcRecord == [at : {"idle", "look", "unlink", "row"}, todo : SUBSET Text, blob : Text \cup {Gone}]

\* SnapshotsTypeOK, in parts, with what a request and gcBlobs have at hand.
TablesOK ==
  /\ theme \in [Key -> Held] /\ disk \in [Text -> {"none", "partial", "whole"}] /\ blobRows \subseteq Text
  /\ entries \subseteq Snap \X Key \X Text
  /\ snapshots \in [Snap -> 0 .. Unlisted]
RequestsOK == req \in [Snap -> Req] /\ gc \in GcRecord
NotesOK ==
  /\ moment \in [Snap -> [Key -> Held]] /\ saves \in 0 .. MaxSaves /\ restarts \in 0 .. MaxRestarts

\* A request that has a file in hand.
Storing(s) == req[s].at \in {"look", "row", "entry"}

\* The rows of files that a request has inserted are those of what it read.
EntriesInv(s) ==
  /\ req[s].at \in {"new", "read"} => \A e \in entries : e[1] # s
  /\ Making(s) => \A e \in entries : e[1] = s => req[s].got[e[2]] = e[3]
  /\ req[s].at = "list" => \A k \in Has(s) : \E e \in entries : e[1] = s /\ e[2] = k
  /\ Storing(s) => /\ req[s].key \in Key /\ Blob(s) \in Text
                   /\ \A e \in entries : e[1] = s => e[2] # req[s].key
OneEntry == \A e, d \in entries : e[1] = d[1] /\ e[2] = d[2] => e = d

\* Only a snapshot whose request is over can be listed, or deleted.
ListedInv(s) ==
  /\ req[s].at # "done" => snapshots[s] = Unlisted
  /\ s \in removing => req[s].at = "done"

\* While gcBlobs is about a blob, no row refers to it but those of requests it met.
SweepInv ==
  /\ gc.at # "idle" => \A s \in Snap : Making(s) => s \in swept
  /\ gc.at \in {"unlink", "row"} =>
       gc.blob \in Text /\ \A e \in entries : e[3] = gc.blob => e[1] \in swept

\* What a request that gcBlobs has not met refers to is there.
BlobInv(s) ==
  s \notin swept =>
    /\ Storing(s) /\ Blob(s) \notin torn => disk[Blob(s)] = "whole"
    /\ req[s].at = "entry" => Blob(s) \in blobRows
    /\ \A e \in entries : e[1] = s => /\ e[3] \in blobRows
                                      /\ e[3] \notin torn => disk[e[3]] = "whole"
TornInv == \A t \in Text : disk[t] = "partial" => t \in torn

\* Requests that were under way together know of it.
MetInv ==
  /\ \A r, s \in Snap : Making(r) /\ Making(s) /\ r # s => s \in met
  /\ \A s \in Snap : req[s].at = "row" /\ s \notin met => Blob(s) \notin blobRows

\* What was read is what was listed, if the theme stayed.
ReadInv(s) ==
  s \notin disturbed =>
    /\ req[s].at = "read" => /\ theme = moment[s]
                             /\ \A k \in req[s].keys : theme[k] # Gone
                             /\ \A l \in Key \ req[s].keys : req[s].got[l] = theme[l]
    /\ Making(s) /\ req[s].at # "read" => req[s].got = moment[s]

\* The inductive invariant of Snapshots.
SnapshotsInv ==
  /\ TablesOK /\ RequestsOK /\ NotesOK
  /\ \A s \in Snap : EntriesInv(s) /\ ListedInv(s) /\ BlobInv(s) /\ ReadInv(s)
  /\ OneEntry /\ SweepInv /\ TornInv /\ MetInv
  /\ ListedIsWhole /\ OneMoment /\ FailsForAReason

\* A theme has a number of files, which stands for no snapshot.
LEMMA FileCounts ==
  /\ Unlisted \in Nat
  /\ \A X \in SUBSET Key : Cardinality(X) \in 0 .. Unlisted /\ Cardinality(X) # Unlisted
<1>1. Cardinality(Key) \in Nat
  BY SnapshotsAssumption, FS_CardinalityType
<1>2. \A X \in SUBSET Key : Cardinality(X) \in Nat /\ Cardinality(X) <= Cardinality(Key)
  BY SnapshotsAssumption, FS_Subset, FS_CardinalityType
<1> QED BY <1>1, <1>2 DEF Unlisted

\* Where a step of a request takes it.
LEMMA Going ==
  ASSUME RequestsOK, NEW r \in Snap, NEW p \in Places, Goto(r, p)
  PROVE  /\ req' \in [Snap -> Req] /\ \A s \in Snap \ {r} : req'[s] = req[s]
         /\ req'[r].at = p /\ req'[r].keys = req[r].keys /\ req'[r].got = req[r].got
         /\ req'[r].key = req[r].key
  BY DEF RequestsOK, Goto, Req

LEMMA Ending ==
  ASSUME RequestsOK, NEW r \in Snap, NEW p \in Places, End(r, p)
  PROVE  /\ req' \in [Snap -> Req] /\ \A s \in Snap \ {r} : req'[s] = req[s]
         /\ req'[r].at = p
<1>1. [NotBegun EXCEPT !.at = p] \in Req
  BY DEF NotBegun, Req, Held, Places
<1> QED BY <1>1 DEF RequestsOK, End, NotBegun

\* Every step keeps requests and gcBlobs in their types.
LEMMA RequestsStep ==
  ASSUME SnapshotsInv, [SnapshotsNext]_snapshotVars
  PROVE  RequestsOK'
<1>a. RequestsOK /\ TablesOK
  BY DEF SnapshotsInv
<1>b. NoGc \in GcRecord /\ NotBegun \in Req
  BY DEF NoGc, GcRecord, NotBegun, Req, Places, Held
<1>1. ASSUME NEW r \in Snap, ListFiles(r) PROVE RequestsOK'
  <2>1. PICK j : j = [NotBegun EXCEPT !.at = "read", !.keys = {k \in Key : theme[k] # Gone}]
    OBVIOUS
  <2>2. j \in Req
    BY <2>1 DEF NotBegun, Req, Places, Held
  <2>3. req' = [req EXCEPT ![r] = j]
    BY <1>1, <2>1 DEF ListFiles
  <2>. QED
    BY <1>1, <1>a, <2>2, <2>3 DEF ListFiles, RequestsOK
<1>2. ASSUME NEW r \in Snap, ReadFiles(r) PROVE RequestsOK'
  <2>1. ASSUME NEW k \in req[r].keys, req' = [req EXCEPT ![r].keys = @ \ {k}, ![r].got[k] = theme[k]]
        PROVE  req' \in [Snap -> Req]
    <3>1. PICK j : j = [req[r] EXCEPT !.keys = @ \ {k}, !.got[k] = theme[k]]
      OBVIOUS
    <3>2. req[r] \in Req /\ k \in Key /\ theme[k] \in Held
      BY <1>a, <2>1 DEF RequestsOK, TablesOK, Req
    <3>3. j \in Req
      BY <3>1, <3>2 DEF Req
    <3>4. req' = [req EXCEPT ![r] = j]
      BY <1>a, <2>1, <3>1 DEF RequestsOK
    <3> QED BY <1>a, <3>3, <3>4 DEF RequestsOK
  <2>2. ASSUME End(r, "failed") PROVE req' \in [Snap -> Req]
    BY <1>a, <2>2, Ending DEF Places
  <2>3. ASSUME NEW p \in {"list", "blob"}, Goto(r, p) PROVE req' \in [Snap -> Req]
    BY <1>a, <2>3, Going DEF Places
  <2>4. req' \in [Snap -> Req]
    <3>1. CASE \E k \in req[r].keys : req' = [req EXCEPT ![r].keys = @ \ {k}, ![r].got[k] = theme[k]]
      BY <3>1, <2>1
    <3>2. CASE End(r, "failed")
      BY <3>2, <2>2
    <3>3. CASE \E p \in {"list", "blob"} : Goto(r, p)
      BY <3>3, <2>3
    <3> QED BY <1>2, <3>1, <3>2, <3>3 DEF ReadFiles
  <2>. QED
    BY <1>2, <1>a, <2>4 DEF ReadFiles, RequestsOK
<1>3. ASSUME NEW r \in Snap, WriteBlob(r) PROVE RequestsOK'
  <2>1. PICK k \in Key : req' = [req EXCEPT ![r].at = "look", ![r].key = k]
    BY <1>3 DEF WriteBlob, Has
  <2>2. req' \in [Snap -> Req]
    BY ZenonT(40), <1>a, <2>1 DEF RequestsOK, Req, Places
  <2>. QED
    BY <1>3, <1>a, <2>2 DEF WriteBlob, RequestsOK
<1>4. ASSUME NEW r \in Snap, LookForRow(r) PROVE RequestsOK'
  BY <1>4, <1>a, Going, Ending DEF LookForRow, Past, RequestsOK, Places
<1>5. ASSUME NEW r \in Snap, InsertRow(r) PROVE RequestsOK'
  BY <1>5, <1>a, Going, Ending DEF InsertRow, Past, RequestsOK, Places
<1>6. ASSUME NEW r \in Snap, InsertEntry(r) PROVE RequestsOK'
  BY <1>6, <1>a, Going, Ending DEF InsertEntry, Past, RequestsOK, Places
<1>7. ASSUME NEW r \in Snap, InsertSnapshot(r) PROVE RequestsOK'
  BY <1>7, <1>a, Going, Ending DEF InsertSnapshot, Past, RequestsOK, Places
<1>8. ASSUME NEW r \in Snap, DeleteEntries(r) PROVE RequestsOK'
  BY <1>8, <1>a DEF DeleteEntries, RequestsOK
<1>9. ASSUME NEW r \in Snap, DeleteSnapshot(r) PROVE RequestsOK'
  BY <1>9, <1>a DEF DeleteSnapshot, RequestsOK
<1>10. CASE GcBegin
  BY <1>10, <1>a DEF GcBegin, GcRest, RequestsOK, TablesOK, NoGc, GcRecord
<1>11. CASE GcLook
  BY <1>11, <1>a, <1>b DEF GcLook, GcRest, RequestsOK, TablesOK, GcRecord
<1>12. CASE GcUnlink
  BY <1>12, <1>a DEF GcUnlink, GcRest, RequestsOK, GcRecord
<1>13. CASE GcDeleteRow
  BY <1>13, <1>a DEF GcDeleteRow, GcRest, RequestsOK, GcRecord
<1>14. CASE ServerRestarts
  <2>1. [NotBegun EXCEPT !.at = "failed"] \in Req
    BY DEF NotBegun, Req, Places, Held
  <2>. QED
    BY <1>14, <1>a, <1>b, <2>1 DEF ServerRestarts, RequestsOK
<1>15. ASSUME NEW k \in Key, NEW t \in Held, EditTheme(k, t) PROVE RequestsOK'
  BY <1>15, <1>a DEF EditTheme, RequestsOK
<1>16. CASE UNCHANGED snapshotVars
  BY <1>16, <1>a DEF snapshotVars, RequestsOK
<1>. QED
  BY <1>1, <1>2, <1>3, <1>4, <1>5, <1>6, <1>7, <1>8, <1>9, <1>10, <1>11, <1>12, <1>13, <1>14,
     <1>15, <1>16 DEF SnapshotsNext

\* Every step keeps the tables and the notes in their types.
LEMMA TablesStep ==
  ASSUME SnapshotsInv, [SnapshotsNext]_snapshotVars
  PROVE  TablesOK' /\ NotesOK'
<1>a. TablesOK /\ NotesOK /\ RequestsOK
  BY DEF SnapshotsInv
<1>b. \A s \in Snap : Storing(s) => req[s].key \in Key /\ Blob(s) \in Text
  BY DEF SnapshotsInv, EntriesInv
<1>c. MaxSaves \in Nat /\ MaxRestarts \in Nat
  BY SnapshotsAssumption
<1>1. ASSUME NEW r \in Snap, ListFiles(r) PROVE TablesOK' /\ NotesOK'
  BY <1>1, <1>a DEF ListFiles, TablesOK, NotesOK
<1>2. ASSUME NEW r \in Snap, ReadFiles(r) PROVE TablesOK' /\ NotesOK'
  BY <1>2, <1>a DEF ReadFiles, Past, TablesOK, NotesOK, Unlisted
<1>3. ASSUME NEW r \in Snap, WriteBlob(r) PROVE TablesOK' /\ NotesOK'
  BY <1>3, <1>a DEF WriteBlob, Past, TablesOK, NotesOK, RequestsOK, Req, Has, Held
<1>4. ASSUME NEW r \in Snap, LookForRow(r) PROVE TablesOK' /\ NotesOK'
  BY <1>4, <1>a DEF LookForRow, Past, TablesOK, NotesOK, Unlisted
<1>5. ASSUME NEW r \in Snap, InsertRow(r) PROVE TablesOK' /\ NotesOK'
  BY <1>5, <1>a, <1>b DEF InsertRow, Past, TablesOK, NotesOK, Storing
<1>6. ASSUME NEW r \in Snap, InsertEntry(r) PROVE TablesOK' /\ NotesOK'
  BY <1>6, <1>a, <1>b DEF InsertEntry, Past, TablesOK, NotesOK, Storing
<1>7. ASSUME NEW r \in Snap, InsertSnapshot(r) PROVE TablesOK' /\ NotesOK'
  <2>1. Cardinality(Has(r)) \in 0 .. Unlisted
    BY FileCounts DEF Has
  <2>. QED
    BY <1>7, <2>1, <1>a DEF InsertSnapshot, Past, TablesOK, NotesOK
<1>8. ASSUME NEW r \in Snap, DeleteEntries(r) PROVE TablesOK' /\ NotesOK'
  BY <1>8, <1>a DEF DeleteEntries, TablesOK, NotesOK, Unlisted
<1>9. ASSUME NEW r \in Snap, DeleteSnapshot(r) PROVE TablesOK' /\ NotesOK'
  <2>1. Unlisted \in 0 .. Unlisted
    BY FileCounts
  <2>. QED
    BY <1>9, <2>1, <1>a DEF DeleteSnapshot, TablesOK, NotesOK
<1>10. CASE GcBegin
  BY <1>10, <1>a DEF GcBegin, GcRest, TablesOK, NotesOK, Unlisted
<1>11. CASE GcLook
  BY <1>11, <1>a DEF GcLook, GcRest, TablesOK, NotesOK, Unlisted
<1>12. CASE GcUnlink
  BY <1>12, <1>a DEF GcUnlink, GcRest, TablesOK, NotesOK
<1>13. CASE GcDeleteRow
  BY <1>13, <1>a DEF GcDeleteRow, GcRest, TablesOK, NotesOK, Unlisted
<1>14. CASE ServerRestarts
  BY <1>14, <1>a, <1>c DEF ServerRestarts, TablesOK, NotesOK
<1>15. ASSUME NEW k \in Key, NEW t \in Held, EditTheme(k, t) PROVE TablesOK' /\ NotesOK'
  BY <1>15, <1>a, <1>c DEF EditTheme, TablesOK, NotesOK
<1>16. CASE UNCHANGED snapshotVars
  BY <1>16, <1>a DEF snapshotVars, TablesOK, NotesOK
<1>. QED
  BY <1>1, <1>2, <1>3, <1>4, <1>5, <1>6, <1>7, <1>8, <1>9, <1>10, <1>11, <1>12, <1>13, <1>14,
     <1>15, <1>16 DEF SnapshotsNext

\* The steps that take a file in hand or put it down.
LEMMA Listing ==
  ASSUME RequestsOK, TablesOK, NEW r \in Snap, ListFiles(r)
  PROVE  /\ \A s \in Snap \ {r} : req'[s] = req[s]
         /\ req[r].at = "new" /\ req'[r].at = "read" /\ req'[r].keys = {k \in Key : theme[k] # Gone}
         /\ \A k \in Key : req'[r].got[k] = Gone
  BY DEF ListFiles, RequestsOK, NotBegun

LEMMA Reading ==
  ASSUME RequestsOK, TablesOK, NEW r \in Snap, ReadFiles(r)
  PROVE  /\ \A s \in Snap \ {r} : req'[s] = req[s]
         /\ req[r].at = "read"
         /\ \/ \E k \in req[r].keys :
                 \/ /\ req'[r].at = "read" /\ req'[r].keys = req[r].keys \ {k}
                    /\ req'[r].got[k] = theme[k] /\ \A l \in Key \ {k} : req'[r].got[l] = req[r].got[l]
                 \/ theme[k] = Gone /\ req'[r].at = "failed"
            \/ /\ req[r].keys = {} /\ req'[r].got = req[r].got
               /\ req'[r].at \in {"list", "blob"} /\ (req'[r].at = "list" => Has(r) = {})
<1>1. ASSUME NEW k \in req[r].keys, req' = [req EXCEPT ![r].keys = @ \ {k}, ![r].got[k] = theme[k]]
      PROVE  /\ \A s \in Snap \ {r} : req'[s] = req[s]
             /\ req'[r].at = req[r].at /\ req'[r].keys = req[r].keys \ {k}
             /\ req'[r].got[k] = theme[k] /\ \A l \in Key \ {k} : req'[r].got[l] = req[r].got[l]
  <2>1. PICK j : j = [req[r] EXCEPT !.keys = @ \ {k}, !.got[k] = theme[k]]
    OBVIOUS
  <2>2. req[r] \in Req /\ k \in Key
    BY <1>1 DEF RequestsOK, Req
  <2>3. /\ j.at = req[r].at /\ j.keys = req[r].keys \ {k}
        /\ j.got[k] = theme[k] /\ \A l \in Key \ {k} : j.got[l] = req[r].got[l]
    BY <2>1, <2>2 DEF Req
  <2>4. req'[r] = j /\ \A s \in Snap \ {r} : req'[s] = req[s]
    BY <1>1, <2>1 DEF RequestsOK
  <2> QED BY <2>3, <2>4
<1>2. ASSUME End(r, "failed")
      PROVE  req'[r].at = "failed" /\ \A s \in Snap \ {r} : req'[s] = req[s]
  BY <1>2, Ending DEF Places
<1>3. ASSUME NEW p \in {"list", "blob"}, Goto(r, p)
      PROVE  req'[r].at = p /\ req'[r].got = req[r].got /\ \A s \in Snap \ {r} : req'[s] = req[s]
  BY <1>3, Going DEF Places
<1>4. CASE \E k \in req[r].keys : req' = [req EXCEPT ![r].keys = @ \ {k}, ![r].got[k] = theme[k]]
  BY <1>1, <1>4 DEF ReadFiles
<1>5. CASE \E k \in req[r].keys : theme[k] = Gone /\ End(r, "failed")
  BY <1>2, <1>5 DEF ReadFiles
<1>6. CASE req[r].keys = {} /\ Goto(r, IF Has(r) = {} THEN "list" ELSE "blob")
  BY <1>3, <1>6 DEF ReadFiles
<1> QED BY <1>4, <1>5, <1>6 DEF ReadFiles

LEMMA Writing ==
  ASSUME RequestsOK, TablesOK, NEW r \in Snap, WriteBlob(r)
  PROVE  \E k \in Key, t \in Text :
           /\ \A s \in Snap \ {r} : req'[s] = req[s]
           /\ req[r].at = "blob" /\ req'[r].at = "look" /\ req'[r].got = req[r].got /\ req'[r].key = k
           /\ t = req[r].got[k] /\ (\A e \in entries : e[1] = r => e[2] # k)
           /\ disk' = [disk EXCEPT ![t] = IF @ = "none" THEN "whole" ELSE @]
<1>1. PICK k \in Has(r) \ KeysOf(r) :
        /\ disk' = [disk EXCEPT ![req[r].got[k]] = IF @ = "none" THEN "whole" ELSE @]
        /\ req' = [req EXCEPT ![r].at = "look", ![r].key = k]
  BY DEF WriteBlob
<1>2. k \in Key /\ req[r].got[k] \in Text
  BY <1>1 DEF Has, RequestsOK, Req, Held
<1>3. \A e \in entries : e[1] = r => e[2] # k
  BY <1>1 DEF KeysOf
<1>4. /\ \A s \in Snap \ {r} : req'[s] = req[s]
      /\ req'[r].at = "look" /\ req'[r].got = req[r].got /\ req'[r].key = k
  BY <1>1 DEF RequestsOK, Req
<1>5. req[r].at = "blob"
  BY DEF WriteBlob
<1> QED BY <1>1, <1>2, <1>3, <1>4, <1>5

\* Where the other steps of a request lead.
LEMMA Looking ==
  ASSUME RequestsOK, NEW r \in Snap, LookForRow(r)
  PROVE  /\ \A s \in Snap \ {r} : req'[s] = req[s]
         /\ req[r].at = "look" /\ req'[r].got = req[r].got /\ req'[r].key = req[r].key
         /\ \/ req'[r].at = "entry" /\ Blob(r) \in blobRows
            \/ req'[r].at = "row" /\ Blob(r) \notin blobRows
<1>1. CASE Blob(r) \in blobRows
  BY <1>1, Going DEF LookForRow, Places
<1>2. CASE Blob(r) \notin blobRows
  BY <1>2, Going DEF LookForRow, Places
<1> QED BY <1>1, <1>2

LEMMA Inserting ==
  ASSUME RequestsOK, NEW r \in Snap, InsertRow(r)
  PROVE  /\ \A s \in Snap \ {r} : req'[s] = req[s]
         /\ req[r].at = "row"
         /\ \/ req'[r].at = "failed" /\ Blob(r) \in blobRows
            \/ req'[r].at = "entry" /\ req'[r].got = req[r].got /\ req'[r].key = req[r].key
<1>1. CASE Blob(r) \in blobRows
  BY <1>1, Ending DEF InsertRow, Places
<1>2. CASE Blob(r) \notin blobRows
  BY <1>2, Going DEF InsertRow, Places
<1> QED BY <1>1, <1>2

LEMMA Entering ==
  ASSUME RequestsOK, NEW r \in Snap, InsertEntry(r)
  PROVE  /\ \A s \in Snap \ {r} : req'[s] = req[s]
         /\ req[r].at = "entry" /\ req'[r].got = req[r].got
         /\ entries' = entries \cup {<<r, req[r].key, Blob(r)>>}
         /\ \/ req'[r].at = "blob"
            \/ req'[r].at = "list" /\ \A k \in Has(r) : k = req[r].key \/ \E e \in entries : e[1] = r /\ e[2] = k
<1>1. CASE Has(r) \ {req[r].key} \subseteq KeysOf(r)
  <2>1. \A k \in Has(r) : k = req[r].key \/ \E e \in entries : e[1] = r /\ e[2] = k
    BY <1>1 DEF KeysOf
  <2>2. Goto(r, "list")
    BY <1>1 DEF InsertEntry
  <2> QED BY <2>1, <2>2, Going DEF InsertEntry, Places
<1>2. CASE ~(Has(r) \ {req[r].key} \subseteq KeysOf(r))
  <2>1. Goto(r, "blob")
    BY <1>2 DEF InsertEntry
  <2> QED BY <2>1, Going DEF InsertEntry, Places
<1> QED BY <1>1, <1>2

LEMMA Closing ==
  ASSUME RequestsOK, NEW r \in Snap, InsertSnapshot(r)
  PROVE  /\ \A s \in Snap \ {r} : req'[s] = req[s]
         /\ req[r].at = "list" /\ req'[r].at = "done"
         /\ snapshots' = [snapshots EXCEPT ![r] = Cardinality(Has(r))]
  BY Ending DEF InsertSnapshot, Places

\* A request that a step leaves alone stays as it is; what the server restarts leaves alone.
LEMMA Unmoved ==
  ASSUME NEW s \in Snap, req'[s] = req[s]
  PROVE  /\ Making(s)' = Making(s) /\ Storing(s)' = Storing(s) /\ Has(s)' = Has(s) /\ Blob(s)' = Blob(s)
  BY DEF Making, Storing, Has, Blob

LEMMA Dying ==
  ASSUME RequestsOK, ServerRestarts, NEW s \in Snap
  PROVE  IF Making(s) THEN req'[s].at = "failed" ELSE req'[s] = req[s]
  BY DEF ServerRestarts, RequestsOK, NotBegun

LEMMA EntriesKept ==
  ASSUME NEW x \in Snap, EntriesInv(x), req'[x] = req[x],
         \A e : e[1] = x => (e \in entries' <=> e \in entries)
  PROVE  EntriesInv(x)'
  BY DEF EntriesInv, Making, Storing, Has, Blob

\* Every step keeps the rows of a request in line with what it read.
LEMMA EntriesStep ==
  ASSUME SnapshotsInv, [SnapshotsNext]_snapshotVars, NEW x \in Snap
  PROVE  EntriesInv(x)'
<1>a. RequestsOK /\ TablesOK /\ EntriesInv(x)
  BY DEF SnapshotsInv
<1>c. \A s \in Snap : ListedInv(s)
  BY DEF SnapshotsInv
<1>b. req[x].got \in [Key -> Held] /\ Gone \notin Text
  BY <1>a, SnapshotsAssumption DEF RequestsOK, Req
<1>1. ASSUME NEW r \in Snap, ListFiles(r) PROVE EntriesInv(x)'
  <2>1. CASE x # r
    <3>1. req'[x] = req[x] /\ \A e : e[1] = x => (e \in entries' <=> e \in entries)
      BY <1>1, <2>1, <1>a, Listing DEF ListFiles
    <3> QED BY <1>a, <3>1, EntriesKept
  <2>2. CASE x = r
    <3>1. req[x].at = "new" /\ req'[x].at = "read" /\ entries' = entries
      BY <1>1, <2>2, <1>a, Listing DEF ListFiles
    <3> QED BY <1>a, <3>1 DEF EntriesInv, Making, Storing
  <2>. QED
    BY <2>1, <2>2
<1>2. ASSUME NEW r \in Snap, ReadFiles(r) PROVE EntriesInv(x)'
  <2>1. CASE x # r
    <3>1. req'[x] = req[x] /\ \A e : e[1] = x => (e \in entries' <=> e \in entries)
      BY <1>2, <2>1, <1>a, Reading DEF ReadFiles, Past
    <3> QED BY <1>a, <3>1, EntriesKept
  <2>2. CASE x = r
    <3>1. req[x].at = "read" /\ entries' = entries /\ (\A e \in entries : e[1] # x)
      BY <1>2, <2>2, <1>a, Reading DEF ReadFiles, EntriesInv
    <3>2. \/ req'[x].at \in {"read", "failed", "blob"}
          \/ req'[x].at = "list" /\ Has(x) = {} /\ req'[x].got = req[x].got
      BY <1>2, <2>2, <1>a, Reading
    <3> QED BY <3>1, <3>2 DEF EntriesInv, Making, Storing, Has
  <2>. QED
    BY <2>1, <2>2
<1>3. ASSUME NEW r \in Snap, WriteBlob(r) PROVE EntriesInv(x)'
  <2>1. CASE x # r
    <3>1. req'[x] = req[x] /\ \A e : e[1] = x => (e \in entries' <=> e \in entries)
      BY ZenonT(40), <1>3, <2>1, <1>a, Writing DEF WriteBlob, Past
    <3> QED BY <1>a, <3>1, EntriesKept
  <2>2. CASE x = r
    <3>1. PICK k \in Key, t \in Text :
            /\ req[r].at = "blob" /\ req'[r].at = "look" /\ req'[r].got = req[r].got /\ req'[r].key = k
            /\ t = req[r].got[k] /\ (\A e \in entries : e[1] = r => e[2] # k)
      BY <1>3, <1>a, Writing
    <3>2. entries' = entries
      BY <1>3 DEF WriteBlob
    <3> QED BY <1>a, <2>2, <3>1, <3>2 DEF EntriesInv, Making, Storing, Has, Blob
  <2>. QED
    BY <2>1, <2>2
<1>4. ASSUME NEW r \in Snap, LookForRow(r) PROVE EntriesInv(x)'
  BY <1>4, <1>a, <1>b, Looking DEF LookForRow, Past, EntriesInv, Making, Storing, Has, Blob
<1>5. ASSUME NEW r \in Snap, InsertRow(r) PROVE EntriesInv(x)'
  BY <1>5, <1>a, <1>b, Inserting DEF InsertRow, Past, EntriesInv, Making, Storing, Has, Blob
<1>6. ASSUME NEW r \in Snap, InsertEntry(r) PROVE EntriesInv(x)'
  <2>1. CASE x # r
    <3>1. req'[x] = req[x] /\ \A e : e[1] = x => (e \in entries' <=> e \in entries)
      BY <1>6, <2>1, <1>a, Entering DEF InsertEntry, Past
    <3> QED BY <1>a, <3>1, EntriesKept
  <2>2. CASE x = r
    <3>1. PICK k \in Key, t \in Text : k = req[x].key /\ t = Blob(x)
      BY <1>6, <2>2, <1>a, Entering DEF EntriesInv, Storing
    <3>2. /\ req[x].at = "entry" /\ req'[x].got = req[x].got /\ t = req[x].got[k]
          /\ entries' = entries \cup {<<x, k, t>>}
          /\ \/ req'[x].at = "blob"
             \/ req'[x].at = "list" /\ \A l \in Has(x) : l = k \/ \E e \in entries : e[1] = x /\ e[2] = l
      BY <1>6, <2>2, <3>1, <1>a, Entering DEF Blob
    <3>3. \A e \in entries' : e[1] = x => req'[x].got[e[2]] = e[3]
      BY <1>a, <3>2 DEF EntriesInv, Making
    <3>4. ASSUME req'[x].at = "list", NEW l \in Has(x)
          PROVE  \E e \in entries' : e[1] = x /\ e[2] = l
      <4>1. PICK d : d = <<x, k, t>>
        OBVIOUS
      <4>2. d \in entries' /\ d[1] = x /\ d[2] = k /\ entries \subseteq entries'
        BY <3>2, <4>1
      <4>3. l = k \/ \E e \in entries : e[1] = x /\ e[2] = l
        BY <3>2, <3>4
      <4> QED BY <4>2, <4>3
    <3>5. Has(x)' = Has(x)
      BY <3>2 DEF Has
    <3> QED BY <3>2, <3>3, <3>4, <3>5 DEF EntriesInv, Making, Storing
  <2>. QED
    BY <2>1, <2>2
<1>7. ASSUME NEW r \in Snap, InsertSnapshot(r) PROVE EntriesInv(x)'
  BY ZenonT(40), <1>7, <1>a, <1>b, Closing
     DEF InsertSnapshot, Past, EntriesInv, Making, Storing, Has, Blob
<1>8. ASSUME NEW r \in Snap, DeleteEntries(r) PROVE EntriesInv(x)'
  <2>1. snapshots[r] # Unlisted /\ req' = req /\ entries' = {e \in entries : e[1] # r}
    BY <1>8 DEF DeleteEntries
  <2>2. x = r => req[x].at = "done"
    BY <2>1, <1>c DEF ListedInv
  <2>. QED
    BY <1>a, <2>1, <2>2 DEF EntriesInv, Making, Storing, Has, Blob
<1>9. ASSUME NEW r \in Snap, DeleteSnapshot(r) PROVE EntriesInv(x)'
  BY <1>9, <1>a DEF DeleteSnapshot, EntriesInv, Making, Storing, Has, Blob
<1>10. CASE GcBegin
  BY <1>10, <1>a DEF GcBegin, GcRest, EntriesInv, Making, Storing, Has, Blob
<1>11. CASE GcLook
  BY <1>11, <1>a DEF GcLook, GcRest, EntriesInv, Making, Storing, Has, Blob
<1>12. CASE GcUnlink
  BY <1>12, <1>a DEF GcUnlink, GcRest, EntriesInv, Making, Storing, Has, Blob
<1>13. CASE GcDeleteRow
  BY <1>13, <1>a DEF GcDeleteRow, GcRest, EntriesInv, Making, Storing, Has, Blob
<1>14. CASE ServerRestarts
  BY <1>14, <1>a, Dying DEF ServerRestarts, EntriesInv, Making, Storing, Has, Blob
<1>15. ASSUME NEW k \in Key, NEW t \in Held, EditTheme(k, t) PROVE EntriesInv(x)'
  BY <1>15, <1>a DEF EditTheme, EntriesInv, Making, Storing, Has, Blob
<1>16. CASE UNCHANGED snapshotVars
  BY <1>16, <1>a DEF snapshotVars, EntriesInv, Making, Storing, Has, Blob
<1>. QED
  BY <1>1, <1>2, <1>3, <1>4, <1>5, <1>6, <1>7, <1>8, <1>9, <1>10, <1>11, <1>12, <1>13, <1>14,
     <1>15, <1>16 DEF SnapshotsNext

\* Only ListFiles begins to make a snapshot.
LEMMA MakingBegins ==
  ASSUME SnapshotsInv, [SnapshotsNext]_snapshotVars, NEW x \in Snap, Making(x)'
  PROVE  Making(x) \/ ListFiles(x)
<1>a. RequestsOK /\ TablesOK
  BY DEF SnapshotsInv
<1>b. req'[x] = req[x] => Making(x)
  BY DEF Making
<1>1. ASSUME NEW r \in Snap, ListFiles(r) PROVE Making(x) \/ ListFiles(x)
  BY <1>1, <1>a, <1>b, Listing DEF Making
<1>2. ASSUME NEW r \in Snap, ReadFiles(r) PROVE Making(x) \/ ListFiles(x)
  BY <1>2, <1>a, <1>b, Reading DEF Making
<1>3. ASSUME NEW r \in Snap, WriteBlob(r) PROVE Making(x) \/ ListFiles(x)
  BY <1>3, <1>a, <1>b, Writing DEF Making
<1>4. ASSUME NEW r \in Snap, LookForRow(r) PROVE Making(x) \/ ListFiles(x)
  BY <1>4, <1>a, <1>b, Looking DEF Making
<1>5. ASSUME NEW r \in Snap, InsertRow(r) PROVE Making(x) \/ ListFiles(x)
  BY <1>5, <1>a, <1>b, Inserting DEF Making
<1>6. ASSUME NEW r \in Snap, InsertEntry(r) PROVE Making(x) \/ ListFiles(x)
  BY <1>6, <1>a, <1>b, Entering DEF Making
<1>7. ASSUME NEW r \in Snap, InsertSnapshot(r) PROVE Making(x) \/ ListFiles(x)
  BY <1>7, <1>a, <1>b, Closing DEF Making
<1>8. ASSUME NEW r \in Snap, DeleteEntries(r) PROVE Making(x) \/ ListFiles(x)
  BY <1>8, <1>b DEF DeleteEntries
<1>9. ASSUME NEW r \in Snap, DeleteSnapshot(r) PROVE Making(x) \/ ListFiles(x)
  BY <1>9, <1>b DEF DeleteSnapshot
<1>10. CASE GcBegin
  BY <1>10, <1>b DEF GcBegin, GcRest
<1>11. CASE GcLook
  BY <1>11, <1>b DEF GcLook, GcRest
<1>12. CASE GcUnlink
  BY <1>12, <1>b DEF GcUnlink, GcRest
<1>13. CASE GcDeleteRow
  BY <1>13, <1>b DEF GcDeleteRow, GcRest
<1>14. CASE ServerRestarts
  BY <1>14, <1>a, <1>b, Dying DEF Making
<1>15. ASSUME NEW k \in Key, NEW t \in Held, EditTheme(k, t) PROVE Making(x) \/ ListFiles(x)
  BY <1>15, <1>b DEF EditTheme
<1>16. CASE UNCHANGED snapshotVars
  BY <1>16, <1>b DEF snapshotVars
<1>. QED
  BY <1>1, <1>2, <1>3, <1>4, <1>5, <1>6, <1>7, <1>8, <1>9, <1>10, <1>11, <1>12, <1>13, <1>14,
     <1>15, <1>16 DEF SnapshotsNext

\* Every step keeps the rows of a file apart.
LEMMA OneEntryStep ==
  ASSUME SnapshotsInv, [SnapshotsNext]_snapshotVars
  PROVE  OneEntry'
<1>a. OneEntry /\ \A s \in Snap : EntriesInv(s)
  BY DEF SnapshotsInv
<1>1. ASSUME NEW r \in Snap, ListFiles(r) PROVE OneEntry'
  BY <1>1, <1>a DEF ListFiles, OneEntry
<1>2. ASSUME NEW r \in Snap, ReadFiles(r) PROVE OneEntry'
  BY <1>2, <1>a DEF ReadFiles, Past, OneEntry
<1>3. ASSUME NEW r \in Snap, WriteBlob(r) PROVE OneEntry'
  BY <1>3, <1>a DEF WriteBlob, Past, OneEntry
<1>4. ASSUME NEW r \in Snap, LookForRow(r) PROVE OneEntry'
  BY <1>4, <1>a DEF LookForRow, Past, OneEntry
<1>5. ASSUME NEW r \in Snap, InsertRow(r) PROVE OneEntry'
  BY <1>5, <1>a DEF InsertRow, Past, OneEntry
<1>6. ASSUME NEW r \in Snap, InsertEntry(r) PROVE OneEntry'
  <2>1. entries' = entries \cup {<<r, req[r].key, Blob(r)>>} /\ req[r].at = "entry"
    BY <1>6 DEF InsertEntry
  <2>2. \A e \in entries : e[1] = r => e[2] # req[r].key
    BY <1>a, <2>1 DEF EntriesInv, Storing
  <2>. QED
    BY <1>a, <2>1, <2>2 DEF OneEntry
<1>7. ASSUME NEW r \in Snap, InsertSnapshot(r) PROVE OneEntry'
  BY <1>7, <1>a DEF InsertSnapshot, Past, OneEntry
<1>8. ASSUME NEW r \in Snap, DeleteEntries(r) PROVE OneEntry'
  BY <1>8, <1>a DEF DeleteEntries, OneEntry
<1>9. ASSUME NEW r \in Snap, DeleteSnapshot(r) PROVE OneEntry'
  BY <1>9, <1>a DEF DeleteSnapshot, OneEntry
<1>10. CASE GcBegin
  BY <1>10, <1>a DEF GcBegin, GcRest, OneEntry
<1>11. CASE GcLook
  BY <1>11, <1>a DEF GcLook, GcRest, OneEntry
<1>12. CASE GcUnlink
  BY <1>12, <1>a DEF GcUnlink, GcRest, OneEntry
<1>13. CASE GcDeleteRow
  BY <1>13, <1>a DEF GcDeleteRow, GcRest, OneEntry
<1>14. CASE ServerRestarts
  BY <1>14, <1>a DEF ServerRestarts, OneEntry
<1>15. ASSUME NEW k \in Key, NEW t \in Held, EditTheme(k, t) PROVE OneEntry'
  BY <1>15, <1>a DEF EditTheme, OneEntry
<1>16. CASE UNCHANGED snapshotVars
  BY <1>16, <1>a DEF snapshotVars, OneEntry
<1>. QED
  BY <1>1, <1>2, <1>3, <1>4, <1>5, <1>6, <1>7, <1>8, <1>9, <1>10, <1>11, <1>12, <1>13, <1>14,
     <1>15, <1>16 DEF SnapshotsNext

\* Every step keeps what is listed, and what may be deleted, to requests that are over.
LEMMA ListedStep ==
  ASSUME SnapshotsInv, [SnapshotsNext]_snapshotVars, NEW x \in Snap
  PROVE  ListedInv(x)'
<1>a. RequestsOK /\ TablesOK /\ ListedInv(x)
  BY DEF SnapshotsInv
<1>b. \A s \in Snap : ListedInv(s)
  BY DEF SnapshotsInv
<1>1. ASSUME NEW r \in Snap, ListFiles(r) PROVE ListedInv(x)'
  BY <1>1, <1>a, Listing DEF ListFiles, ListedInv, TablesOK
<1>2. ASSUME NEW r \in Snap, ReadFiles(r) PROVE ListedInv(x)'
  BY <1>2, <1>a, Reading DEF ReadFiles, Past, ListedInv, TablesOK
<1>3. ASSUME NEW r \in Snap, WriteBlob(r) PROVE ListedInv(x)'
  BY ZenonT(40), <1>3, <1>a, Writing DEF WriteBlob, Past, ListedInv, TablesOK
<1>4. ASSUME NEW r \in Snap, LookForRow(r) PROVE ListedInv(x)'
  BY <1>4, <1>a, Looking DEF LookForRow, Past, ListedInv, TablesOK
<1>5. ASSUME NEW r \in Snap, InsertRow(r) PROVE ListedInv(x)'
  BY <1>5, <1>a, Inserting DEF InsertRow, Past, ListedInv, TablesOK
<1>6. ASSUME NEW r \in Snap, InsertEntry(r) PROVE ListedInv(x)'
  BY <1>6, <1>a, Entering DEF InsertEntry, Past, ListedInv, TablesOK
<1>7. ASSUME NEW r \in Snap, InsertSnapshot(r) PROVE ListedInv(x)'
  BY <1>7, <1>a, Closing DEF InsertSnapshot, Past, ListedInv, TablesOK
<1>8. ASSUME NEW r \in Snap, DeleteEntries(r) PROVE ListedInv(x)'
  BY <1>8, <1>a, <1>b DEF DeleteEntries, ListedInv, TablesOK
<1>9. ASSUME NEW r \in Snap, DeleteSnapshot(r) PROVE ListedInv(x)'
  BY <1>9, <1>a DEF DeleteSnapshot, ListedInv, TablesOK
<1>10. CASE GcBegin
  BY <1>10, <1>a DEF GcBegin, GcRest, ListedInv, TablesOK
<1>11. CASE GcLook
  BY <1>11, <1>a DEF GcLook, GcRest, ListedInv, TablesOK
<1>12. CASE GcUnlink
  BY <1>12, <1>a DEF GcUnlink, GcRest, ListedInv, TablesOK
<1>13. CASE GcDeleteRow
  BY <1>13, <1>a DEF GcDeleteRow, GcRest, ListedInv, TablesOK
<1>14. CASE ServerRestarts
  BY <1>14, <1>a, Dying DEF ServerRestarts, ListedInv, Making
<1>15. ASSUME NEW k \in Key, NEW t \in Held, EditTheme(k, t) PROVE ListedInv(x)'
  BY <1>15, <1>a DEF EditTheme, ListedInv, TablesOK
<1>16. CASE UNCHANGED snapshotVars
  BY <1>16, <1>a DEF snapshotVars, ListedInv
<1>. QED
  BY <1>1, <1>2, <1>3, <1>4, <1>5, <1>6, <1>7, <1>8, <1>9, <1>10, <1>11, <1>12, <1>13, <1>14,
     <1>15, <1>16 DEF SnapshotsNext

\* gcBlobs notes each request it meets, and begins in one step.
LEMMA SweptGrows ==
  ASSUME [SnapshotsNext]_snapshotVars
  PROVE  swept \subseteq swept'
<1>1. ASSUME NEW r \in Snap, ListFiles(r) PROVE swept \subseteq swept'
  BY <1>1 DEF ListFiles
<1>2. ASSUME NEW r \in Snap, ReadFiles(r) PROVE swept \subseteq swept'
  BY <1>2 DEF ReadFiles, Past
<1>3. ASSUME NEW r \in Snap, WriteBlob(r) PROVE swept \subseteq swept'
  BY <1>3 DEF WriteBlob, Past
<1>4. ASSUME NEW r \in Snap, LookForRow(r) PROVE swept \subseteq swept'
  BY <1>4 DEF LookForRow, Past
<1>5. ASSUME NEW r \in Snap, InsertRow(r) PROVE swept \subseteq swept'
  BY <1>5 DEF InsertRow, Past
<1>6. ASSUME NEW r \in Snap, InsertEntry(r) PROVE swept \subseteq swept'
  BY <1>6 DEF InsertEntry, Past
<1>7. ASSUME NEW r \in Snap, InsertSnapshot(r) PROVE swept \subseteq swept'
  BY <1>7 DEF InsertSnapshot, Past
<1>8. ASSUME NEW r \in Snap, DeleteEntries(r) PROVE swept \subseteq swept'
  BY <1>8 DEF DeleteEntries
<1>9. ASSUME NEW r \in Snap, DeleteSnapshot(r) PROVE swept \subseteq swept'
  BY <1>9 DEF DeleteSnapshot
<1>10. CASE GcBegin
  BY <1>10 DEF GcBegin, GcRest
<1>11. CASE GcLook
  BY <1>11 DEF GcLook, GcRest
<1>12. CASE GcUnlink
  BY <1>12 DEF GcUnlink, GcRest
<1>13. CASE GcDeleteRow
  BY <1>13 DEF GcDeleteRow, GcRest
<1>14. CASE ServerRestarts
  BY <1>14 DEF ServerRestarts
<1>15. ASSUME NEW k \in Key, NEW t \in Held, EditTheme(k, t) PROVE swept \subseteq swept'
  BY <1>15 DEF EditTheme
<1>16. CASE UNCHANGED snapshotVars
  BY <1>16 DEF snapshotVars
<1>. QED
  BY <1>1, <1>2, <1>3, <1>4, <1>5, <1>6, <1>7, <1>8, <1>9, <1>10, <1>11, <1>12, <1>13, <1>14,
     <1>15, <1>16 DEF SnapshotsNext

LEMMA GcBegins ==
  ASSUME [SnapshotsNext]_snapshotVars, gc.at = "idle", gc'.at # "idle"
  PROVE  GcBegin
<1>1. ASSUME NEW r \in Snap, ListFiles(r) PROVE GcBegin
  BY <1>1 DEF ListFiles, NoGc
<1>2. ASSUME NEW r \in Snap, ReadFiles(r) PROVE GcBegin
  BY <1>2 DEF ReadFiles, Past, NoGc
<1>3. ASSUME NEW r \in Snap, WriteBlob(r) PROVE GcBegin
  BY <1>3 DEF WriteBlob, Past, NoGc
<1>4. ASSUME NEW r \in Snap, LookForRow(r) PROVE GcBegin
  BY <1>4 DEF LookForRow, Past, NoGc
<1>5. ASSUME NEW r \in Snap, InsertRow(r) PROVE GcBegin
  BY <1>5 DEF InsertRow, Past, NoGc
<1>6. ASSUME NEW r \in Snap, InsertEntry(r) PROVE GcBegin
  BY <1>6 DEF InsertEntry, Past, NoGc
<1>7. ASSUME NEW r \in Snap, InsertSnapshot(r) PROVE GcBegin
  BY <1>7 DEF InsertSnapshot, Past, NoGc
<1>8. ASSUME NEW r \in Snap, DeleteEntries(r) PROVE GcBegin
  BY <1>8 DEF DeleteEntries, NoGc
<1>9. ASSUME NEW r \in Snap, DeleteSnapshot(r) PROVE GcBegin
  BY <1>9 DEF DeleteSnapshot, NoGc
<1>10. CASE GcBegin
  BY <1>10
<1>11. CASE GcLook
  BY <1>11 DEF GcLook, GcRest, NoGc
<1>12. CASE GcUnlink
  BY <1>12 DEF GcUnlink, GcRest, NoGc
<1>13. CASE GcDeleteRow
  BY <1>13 DEF GcDeleteRow, GcRest, NoGc
<1>14. CASE ServerRestarts
  BY <1>14 DEF ServerRestarts, NoGc
<1>15. ASSUME NEW k \in Key, NEW t \in Held, EditTheme(k, t) PROVE GcBegin
  BY <1>15 DEF EditTheme, NoGc
<1>16. CASE UNCHANGED snapshotVars
  BY <1>16 DEF snapshotVars
<1>. QED
  BY <1>1, <1>2, <1>3, <1>4, <1>5, <1>6, <1>7, <1>8, <1>9, <1>10, <1>11, <1>12, <1>13, <1>14,
     <1>15, <1>16 DEF SnapshotsNext

LEMMA SweepStays ==
  ASSUME [SnapshotsNext]_snapshotVars, RequestsOK, gc'.at \in {"unlink", "row"},
         ~GcLook, ~\E r \in Snap : InsertEntry(r)
  PROVE  entries' \subseteq entries /\ gc.at \in {"unlink", "row"} /\ gc'.blob = gc.blob
<1>1. ASSUME NEW r \in Snap, ListFiles(r) PROVE entries' \subseteq entries /\ gc.at \in {"unlink", "row"} /\ gc'.blob = gc.blob
  BY <1>1 DEF ListFiles, NoGc, RequestsOK, GcRecord
<1>2. ASSUME NEW r \in Snap, ReadFiles(r) PROVE entries' \subseteq entries /\ gc.at \in {"unlink", "row"} /\ gc'.blob = gc.blob
  BY <1>2 DEF ReadFiles, Past, NoGc, RequestsOK, GcRecord
<1>3. ASSUME NEW r \in Snap, WriteBlob(r) PROVE entries' \subseteq entries /\ gc.at \in {"unlink", "row"} /\ gc'.blob = gc.blob
  BY <1>3 DEF WriteBlob, Past, NoGc, RequestsOK, GcRecord
<1>4. ASSUME NEW r \in Snap, LookForRow(r) PROVE entries' \subseteq entries /\ gc.at \in {"unlink", "row"} /\ gc'.blob = gc.blob
  BY <1>4 DEF LookForRow, Past, NoGc, RequestsOK, GcRecord
<1>5. ASSUME NEW r \in Snap, InsertRow(r) PROVE entries' \subseteq entries /\ gc.at \in {"unlink", "row"} /\ gc'.blob = gc.blob
  BY <1>5 DEF InsertRow, Past, NoGc, RequestsOK, GcRecord
<1>6. ASSUME NEW r \in Snap, InsertEntry(r) PROVE entries' \subseteq entries /\ gc.at \in {"unlink", "row"} /\ gc'.blob = gc.blob
  BY <1>6
<1>7. ASSUME NEW r \in Snap, InsertSnapshot(r) PROVE entries' \subseteq entries /\ gc.at \in {"unlink", "row"} /\ gc'.blob = gc.blob
  BY <1>7 DEF InsertSnapshot, Past, NoGc, RequestsOK, GcRecord
<1>8. ASSUME NEW r \in Snap, DeleteEntries(r) PROVE entries' \subseteq entries /\ gc.at \in {"unlink", "row"} /\ gc'.blob = gc.blob
  BY <1>8 DEF DeleteEntries, NoGc, RequestsOK, GcRecord
<1>9. ASSUME NEW r \in Snap, DeleteSnapshot(r) PROVE entries' \subseteq entries /\ gc.at \in {"unlink", "row"} /\ gc'.blob = gc.blob
  BY <1>9 DEF DeleteSnapshot, NoGc, RequestsOK, GcRecord
<1>10. CASE GcBegin
  BY <1>10 DEF GcBegin, GcRest, NoGc, RequestsOK, GcRecord
<1>11. CASE GcLook
  BY <1>11
<1>12. CASE GcUnlink
  BY <1>12 DEF GcUnlink, GcRest, NoGc, RequestsOK, GcRecord
<1>13. CASE GcDeleteRow
  BY <1>13 DEF GcDeleteRow, GcRest, NoGc, RequestsOK, GcRecord
<1>14. CASE ServerRestarts
  BY <1>14 DEF ServerRestarts, NoGc, RequestsOK, GcRecord
<1>15. ASSUME NEW k \in Key, NEW t \in Held, EditTheme(k, t) PROVE entries' \subseteq entries /\ gc.at \in {"unlink", "row"} /\ gc'.blob = gc.blob
  BY <1>15 DEF EditTheme, NoGc, RequestsOK, GcRecord
<1>16. CASE UNCHANGED snapshotVars
  BY <1>16 DEF snapshotVars
<1>. QED
  BY <1>1, <1>2, <1>3, <1>4, <1>5, <1>6, <1>7, <1>8, <1>9, <1>10, <1>11, <1>12, <1>13, <1>14,
     <1>15, <1>16 DEF SnapshotsNext

\* Every step keeps gcBlobs off the blobs of requests it has not met.
LEMMA SweepStep ==
  ASSUME SnapshotsInv, [SnapshotsNext]_snapshotVars
  PROVE  SweepInv'
<1>a. TablesOK /\ RequestsOK /\ SweepInv
  BY DEF SnapshotsInv
<1>b. ASSUME NEW s \in Snap, Making(s)', gc'.at # "idle" PROVE s \in swept'
  <2>1. swept \subseteq swept'
    BY SweptGrows
  <2>2. CASE ListFiles(s)
    BY <1>b, <2>2 DEF ListFiles
  <2>3. CASE Making(s) /\ gc.at # "idle"
    BY <1>a, <2>1, <2>3 DEF SweepInv
  <2>4. CASE Making(s) /\ gc.at = "idle"
    BY <1>a, <1>b, <2>4, GcBegins DEF GcBegin
  <2>. QED
    BY <1>b, <2>2, <2>3, <2>4, MakingBegins
<1>c. ASSUME gc'.at \in {"unlink", "row"}
      PROVE  gc'.blob \in Text /\ \A e \in entries' : e[3] = gc'.blob => e[1] \in swept'
  <2>. DEFINE Goal == gc'.blob \in Text /\ \A e \in entries' : e[3] = gc'.blob => e[1] \in swept'
  <2>1. swept \subseteq swept'
    BY SweptGrows
  <2>2. CASE GcLook
    <3>1. gc.at = "look" /\ entries' = entries /\ gc.todo \subseteq Text
      BY <1>a, <2>2 DEF GcLook, GcRest, RequestsOK, GcRecord
    <3>2. CASE gc.todo = {}
      BY <1>c, <2>2, <3>2 DEF GcLook, NoGc
    <3>3. ASSUME NEW u \in gc.todo, \E e \in entries : e[3] = u, gc' = [gc EXCEPT !.todo = @ \ {u}]
          PROVE  FALSE
      BY <1>a, <1>c, <3>1, <3>3 DEF RequestsOK, GcRecord
    <3>4. ASSUME NEW u \in gc.todo, \A e \in entries : e[3] # u, gc'.blob = u
          PROVE  Goal
      BY <3>1, <3>4
    <3>5. gc.todo # {} => \E u \in gc.todo :
            \/ (\E e \in entries : e[3] = u) /\ gc' = [gc EXCEPT !.todo = @ \ {u}]
            \/ (\A e \in entries : e[3] # u) /\ gc'.blob = u
      BY <2>2 DEF GcLook
    <3>. QED
      BY <3>2, <3>3, <3>4, <3>5
  <2>3. CASE \E r \in Snap : InsertEntry(r)
    <3>1. PICK r \in Snap : InsertEntry(r)
      BY <2>3
    <3>2. Making(r) /\ gc' = gc /\ entries' = entries \cup {<<r, req[r].key, Blob(r)>>}
      BY <3>1 DEF InsertEntry, Making
    <3>3. r \in swept /\ gc.blob \in Text /\ \A e \in entries : e[3] = gc.blob => e[1] \in swept
      BY <1>a, <1>c, <3>2 DEF SweepInv
    <3>. QED
      BY <2>1, <3>2, <3>3
  <2>4. CASE ~GcLook /\ ~\E r \in Snap : InsertEntry(r)
    <3>1. entries' \subseteq entries /\ gc.at \in {"unlink", "row"} /\ gc'.blob = gc.blob
      BY <1>a, <1>c, <2>4, SweepStays
    <3>2. gc.blob \in Text /\ \A e \in entries : e[3] = gc.blob => e[1] \in swept
      BY <1>a, <3>1 DEF SweepInv
    <3>. QED
      BY <2>1, <3>1, <3>2
  <2>. QED
    BY <2>2, <2>3, <2>4
<1>. QED
  BY <1>b, <1>c DEF SweepInv

\* Blobs that stay, with the rows of a request that gcBlobs has not met.
LEMMA BlobKept ==
  ASSUME NEW x \in Snap, BlobInv(x), swept \subseteq swept', req'[x] = req[x] \/ ~Storing(x)',
         blobRows \subseteq blobRows', torn \subseteq torn',
         \A e : e[1] = x /\ e \in entries' => e \in entries,
         \A u : disk[u] = "whole" => disk'[u] = "whole" \/ u \in torn'
  PROVE  BlobInv(x)'
<1>1. SUFFICES ASSUME x \notin swept' PROVE BlobInv(x)'
  BY DEF BlobInv
<1>2. x \notin swept
  BY <1>1
<1>3. \A e \in entries' : e[1] = x => e[3] \in blobRows' /\ (e[3] \notin torn' => disk'[e[3]] = "whole")
  BY <1>2 DEF BlobInv
<1>4. CASE ~Storing(x)'
  BY <1>3, <1>4 DEF BlobInv, Storing
<1>5. CASE req'[x] = req[x] /\ Storing(x)
  <2>1. Blob(x)' = Blob(x) /\ Storing(x)' /\ (req'[x].at = "entry" <=> req[x].at = "entry")
    BY <1>5 DEF Blob, Storing
  <2>2. (req[x].at = "entry" => Blob(x) \in blobRows) /\ (Blob(x) \notin torn => disk[Blob(x)] = "whole")
    BY <1>2, <1>5 DEF BlobInv
  <2>. QED
    BY <1>3, <2>1, <2>2 DEF BlobInv
<1>6. req'[x] = req[x] => Storing(x)' = Storing(x)
  BY DEF Storing
<1>. QED
  BY <1>4, <1>5, <1>6

\* Every step keeps the blobs of a request that gcBlobs has not met.
LEMMA BlobStep ==
  ASSUME SnapshotsInv, [SnapshotsNext]_snapshotVars, NEW x \in Snap
  PROVE  BlobInv(x)'
<1>a. RequestsOK /\ TablesOK /\ BlobInv(x) /\ EntriesInv(x) /\ TornInv /\ SweepInv
  BY DEF SnapshotsInv
<1>b. swept \subseteq swept'
  BY SweptGrows
<1>1. ASSUME NEW r \in Snap, ListFiles(r) PROVE BlobInv(x)'
  <2>1. CASE x # r
    <3>1. req'[x] = req[x]
      BY <1>1, <1>a, <2>1, Listing
    <3>2. /\ blobRows \subseteq blobRows' /\ torn \subseteq torn'
          /\ (\A e : e[1] = x /\ e \in entries' => e \in entries)
          /\ \A u : disk[u] = "whole" => disk'[u] = "whole" \/ u \in torn'
      BY <1>1, <1>a, <2>1 DEF ListFiles, TablesOK
    <3> QED BY <1>a, <1>b, <3>1, <3>2, BlobKept
  <2>2. CASE x = r
    <3>1. ~Storing(x)' /\ blobRows' = blobRows /\ torn' = torn /\ entries' = entries /\ disk' = disk
      BY <1>1, <1>a, <2>2, Listing DEF ListFiles, Storing
    <3> QED BY <1>a, <1>b, <3>1, BlobKept
  <2>. QED
    BY <2>1, <2>2
<1>2. ASSUME NEW r \in Snap, ReadFiles(r) PROVE BlobInv(x)'
  <2>1. CASE x # r
    <3>1. req'[x] = req[x]
      BY <1>2, <1>a, <2>1, Reading
    <3>2. /\ blobRows \subseteq blobRows' /\ torn \subseteq torn'
          /\ (\A e : e[1] = x /\ e \in entries' => e \in entries)
          /\ \A u : disk[u] = "whole" => disk'[u] = "whole" \/ u \in torn'
      BY <1>2, <1>a, <2>1 DEF ReadFiles, Past, TablesOK
    <3> QED BY <1>a, <1>b, <3>1, <3>2, BlobKept
  <2>2. CASE x = r
    <3>1. ~Storing(x)' /\ blobRows' = blobRows /\ torn' = torn /\ entries' = entries /\ disk' = disk
      BY <1>2, <1>a, <2>2, Reading DEF ReadFiles, Past, Storing
    <3> QED BY <1>a, <1>b, <3>1, BlobKept
  <2>. QED
    BY <2>1, <2>2
<1>3. ASSUME NEW r \in Snap, WriteBlob(r) PROVE BlobInv(x)'
  <2>1. CASE x # r
    <3>1. req'[x] = req[x]
      BY <1>3, <1>a, <2>1, Writing
    <3>2. /\ blobRows \subseteq blobRows' /\ torn \subseteq torn'
          /\ (\A e : e[1] = x /\ e \in entries' => e \in entries)
          /\ \A u : disk[u] = "whole" => disk'[u] = "whole" \/ u \in torn'
      BY <1>3, <1>a, <2>1 DEF WriteBlob, Past, TablesOK
    <3> QED BY <1>a, <1>b, <3>1, <3>2, BlobKept
  <2>2. CASE x = r
    <3>1. PICK k \in Key, t \in Text :
            /\ req[r].at = "blob" /\ req'[r].at = "look" /\ req'[r].got = req[r].got /\ req'[r].key = k
            /\ t = req[r].got[k] /\ disk' = [disk EXCEPT ![t] = IF @ = "none" THEN "whole" ELSE @]
      BY <1>3, <1>a, Writing
    <3>2. entries' = entries /\ blobRows' = blobRows /\ torn' = torn /\ swept' = swept
      BY <1>3 DEF WriteBlob, Past
    <3>3. Blob(x)' = t /\ req'[x].at = "look"
      BY <2>2, <3>1 DEF Blob
    <3>4. t \notin torn' => disk'[t] = "whole"
      BY <1>a, <3>1, <3>2 DEF TornInv, TablesOK
    <3>5. \A u \in Text : disk[u] = "whole" => disk'[u] = "whole"
      BY <1>a, <3>1 DEF TablesOK
    <3>6. \A e \in entries : e[3] \in Text
      BY <1>a DEF TablesOK
    <3> QED BY <1>a, <3>2, <3>3, <3>4, <3>5, <3>6 DEF BlobInv
  <2>. QED
    BY <2>1, <2>2
<1>4. ASSUME NEW r \in Snap, LookForRow(r) PROVE BlobInv(x)'
  <2>1. CASE x # r
    <3>1. req'[x] = req[x]
      BY <1>4, <1>a, <2>1, Looking
    <3>2. /\ blobRows \subseteq blobRows' /\ torn \subseteq torn'
          /\ (\A e : e[1] = x /\ e \in entries' => e \in entries)
          /\ \A u : disk[u] = "whole" => disk'[u] = "whole" \/ u \in torn'
      BY <1>4, <1>a, <2>1 DEF LookForRow, Past, TablesOK
    <3> QED BY <1>a, <1>b, <3>1, <3>2, BlobKept
  <2>2. CASE x = r
    <3>1. /\ entries' = entries /\ blobRows' = blobRows /\ torn' = torn /\ swept' = swept /\ disk' = disk
          /\ req[x].at = "look" /\ req'[x].got = req[x].got /\ req'[x].key = req[x].key
          /\ (req'[x].at = "entry" => Blob(x) \in blobRows)
      BY <1>4, <1>a, <2>2, Looking DEF LookForRow, Past
    <3>2. Blob(x)' = Blob(x) /\ Storing(x)
      BY <3>1 DEF Blob, Storing
    <3> QED BY <1>a, <3>1, <3>2 DEF BlobInv
  <2>. QED
    BY <2>1, <2>2
<1>5. ASSUME NEW r \in Snap, InsertRow(r) PROVE BlobInv(x)'
  <2>1. CASE x # r
    <3>1. req'[x] = req[x]
      BY <1>5, <1>a, <2>1, Inserting
    <3>2. /\ blobRows \subseteq blobRows' /\ torn \subseteq torn'
          /\ (\A e : e[1] = x /\ e \in entries' => e \in entries)
          /\ \A u : disk[u] = "whole" => disk'[u] = "whole" \/ u \in torn'
      BY <1>5, <1>a, <2>1 DEF InsertRow, Past, TablesOK
    <3> QED BY <1>a, <1>b, <3>1, <3>2, BlobKept
  <2>2. CASE x = r
    <3>1. /\ entries' = entries /\ blobRows' = blobRows \cup {Blob(x)} /\ torn' = torn /\ swept' = swept /\ disk' = disk
          /\ req[x].at = "row"
          /\ req'[x].at = "failed" \/ (req'[x].at = "entry" /\ req'[x].got = req[x].got /\ req'[x].key = req[x].key)
      BY <1>5, <1>a, <2>2, Inserting DEF InsertRow, Past
    <3>2. CASE req'[x].at = "failed"
      BY <1>a, <3>1, <3>2 DEF BlobInv, Storing
    <3>3. CASE req'[x].at = "entry"
      <4>1. Blob(x)' = Blob(x) /\ Storing(x)
        BY <3>1, <3>3 DEF Blob, Storing
      <4> QED BY <1>a, <3>1, <4>1 DEF BlobInv
    <3> QED BY <3>1, <3>2, <3>3
  <2>. QED
    BY <2>1, <2>2
<1>6. ASSUME NEW r \in Snap, InsertEntry(r) PROVE BlobInv(x)'
  <2>1. CASE x # r
    <3>1. req'[x] = req[x]
      BY <1>6, <1>a, <2>1, Entering
    <3>2. /\ blobRows \subseteq blobRows' /\ torn \subseteq torn'
          /\ (\A e : e[1] = x /\ e \in entries' => e \in entries)
          /\ \A u : disk[u] = "whole" => disk'[u] = "whole" \/ u \in torn'
      BY <1>6, <1>a, <2>1 DEF InsertEntry, Past, TablesOK
    <3> QED BY <1>a, <1>b, <3>1, <3>2, BlobKept
  <2>2. CASE x = r
    <3>1. /\ entries' = entries \cup {<<x, req[x].key, Blob(x)>>} /\ blobRows' = blobRows /\ torn' = torn
          /\ swept' = swept /\ disk' = disk /\ req[x].at = "entry" /\ req'[x].at \in {"blob", "list"}
      BY <1>6, <1>a, <2>2, Entering DEF InsertEntry, Past
    <3>2. Storing(x) /\ ~Storing(x)' /\ req'[x].at # "entry"
      BY <3>1 DEF Storing
    <3> QED BY <1>a, <3>1, <3>2 DEF BlobInv
  <2>. QED
    BY <2>1, <2>2
<1>7. ASSUME NEW r \in Snap, InsertSnapshot(r) PROVE BlobInv(x)'
  <2>1. CASE x # r
    <3>1. req'[x] = req[x]
      BY <1>7, <1>a, <2>1, Closing
    <3>2. /\ blobRows \subseteq blobRows' /\ torn \subseteq torn'
          /\ (\A e : e[1] = x /\ e \in entries' => e \in entries)
          /\ \A u : disk[u] = "whole" => disk'[u] = "whole" \/ u \in torn'
      BY <1>7, <1>a, <2>1 DEF InsertSnapshot, Past, TablesOK
    <3> QED BY <1>a, <1>b, <3>1, <3>2, BlobKept
  <2>2. CASE x = r
    <3>1. ~Storing(x)' /\ blobRows' = blobRows /\ torn' = torn /\ entries' = entries /\ disk' = disk
      BY <1>7, <1>a, <2>2, Closing DEF InsertSnapshot, Past, Storing
    <3> QED BY <1>a, <1>b, <3>1, BlobKept
  <2>. QED
    BY <2>1, <2>2
<1>8. ASSUME NEW r \in Snap, DeleteEntries(r) PROVE BlobInv(x)'
  <2>1. /\ req'[x] = req[x] /\ blobRows \subseteq blobRows' /\ torn \subseteq torn'
        /\ (\A e : e[1] = x /\ e \in entries' => e \in entries)
        /\ \A u : disk[u] = "whole" => disk'[u] = "whole" \/ u \in torn'
    BY <1>8 DEF DeleteEntries
  <2> QED BY <1>a, <1>b, <2>1, BlobKept
<1>9. ASSUME NEW r \in Snap, DeleteSnapshot(r) PROVE BlobInv(x)'
  <2>1. /\ req'[x] = req[x] /\ blobRows \subseteq blobRows' /\ torn \subseteq torn'
        /\ (\A e : e[1] = x /\ e \in entries' => e \in entries)
        /\ \A u : disk[u] = "whole" => disk'[u] = "whole" \/ u \in torn'
    BY <1>9 DEF DeleteSnapshot
  <2> QED BY <1>a, <1>b, <2>1, BlobKept
<1>10. CASE GcBegin
  <2>1. /\ req'[x] = req[x] /\ blobRows \subseteq blobRows' /\ torn \subseteq torn'
        /\ (\A e : e[1] = x /\ e \in entries' => e \in entries)
        /\ \A u : disk[u] = "whole" => disk'[u] = "whole" \/ u \in torn'
    BY <1>10 DEF GcBegin, GcRest
  <2> QED BY <1>a, <1>b, <2>1, BlobKept
<1>11. CASE GcLook
  <2>1. /\ req'[x] = req[x] /\ blobRows \subseteq blobRows' /\ torn \subseteq torn'
        /\ (\A e : e[1] = x /\ e \in entries' => e \in entries)
        /\ \A u : disk[u] = "whole" => disk'[u] = "whole" \/ u \in torn'
    BY <1>11 DEF GcLook, GcRest
  <2> QED BY <1>a, <1>b, <2>1, BlobKept
<1>12. CASE GcUnlink
  <2>1. /\ req' = req /\ entries' = entries /\ blobRows' = blobRows /\ torn' = torn /\ swept' = swept
        /\ disk' = [disk EXCEPT ![gc.blob] = "none"] /\ gc.at = "unlink"
    BY <1>12 DEF GcUnlink, GcRest
  <2>2. x \notin swept => ~Storing(x) /\ req[x].at # "entry" /\ \A e \in entries : e[1] = x => e[3] # gc.blob
    BY <1>a, <2>1 DEF SweepInv, Making, Storing
  <2>3. \A u \in Text : u # gc.blob => disk'[u] = disk[u]
    BY <1>a, <2>1 DEF TablesOK
  <2>4. Storing(x)' = Storing(x) /\ \A e \in entries : e[3] \in Text
    BY <1>a, <2>1 DEF Storing, TablesOK
  <2> QED BY <1>a, <2>1, <2>2, <2>3, <2>4 DEF BlobInv
<1>13. CASE GcDeleteRow
  <2>1. /\ req' = req /\ entries' = entries /\ blobRows' = blobRows \ {gc.blob} /\ torn' = torn /\ swept' = swept
        /\ disk' = disk /\ gc.at = "row"
    BY <1>13 DEF GcDeleteRow, GcRest
  <2>2. x \notin swept => ~Storing(x) /\ req[x].at # "entry" /\ \A e \in entries : e[1] = x => e[3] # gc.blob
    BY <1>a, <2>1 DEF SweepInv, Making, Storing
  <2>3. Storing(x)' = Storing(x)
    BY <2>1 DEF Storing
  <2> QED BY <1>a, <2>1, <2>2, <2>3 DEF BlobInv
<1>14. CASE ServerRestarts
  <2>0. PICK ts : /\ \A t \in ts : disk[t] = "none"
                  /\ disk' = [t \in Text |-> IF t \in ts THEN "partial" ELSE disk[t]]
                  /\ torn' = torn \cup ts
    BY <1>14 DEF ServerRestarts
  <2>1. blobRows' = blobRows /\ entries' = entries
    BY <1>14 DEF ServerRestarts
  <2>2. torn \subseteq torn' /\ \A t \in Text : disk[t] = "whole" => disk'[t] = "whole"
    BY <2>0
  <2>3. req'[x] = req[x] \/ ~Storing(x)'
    BY <1>14, <1>a, Dying DEF Storing
  <2>4. Storing(x) => Blob(x) \in Text
    BY <1>a DEF EntriesInv
  <2>5. \A e \in entries : e[3] \in Text
    BY <1>a DEF TablesOK
  <2>6. req'[x] = req[x] => Storing(x)' = Storing(x) /\ Blob(x)' = Blob(x) /\ req'[x].at = req[x].at
    BY DEF Storing, Blob
  <2>7. ~Storing(x)' => req'[x].at # "entry"
    BY DEF Storing
  <2>8. \A e \in entries' : x \notin swept /\ e[1] = x =>
          e[3] \in blobRows' /\ (e[3] \notin torn' => disk'[e[3]] = "whole")
    BY <1>a, <2>1, <2>2, <2>5 DEF BlobInv
  <2>9. swept' = swept
    BY <1>14 DEF ServerRestarts
  <2>10. CASE ~Storing(x)'
    BY <2>7, <2>8, <2>9, <2>10 DEF BlobInv
  <2>11. CASE Storing(x)'
    BY <1>a, <2>1, <2>2, <2>3, <2>4, <2>6, <2>8, <2>9, <2>11 DEF BlobInv
  <2> QED BY <2>10, <2>11
<1>15. ASSUME NEW k \in Key, NEW t \in Held, EditTheme(k, t) PROVE BlobInv(x)'
  <2>1. /\ req'[x] = req[x] /\ blobRows \subseteq blobRows' /\ torn \subseteq torn'
        /\ (\A e : e[1] = x /\ e \in entries' => e \in entries)
        /\ \A u : disk[u] = "whole" => disk'[u] = "whole" \/ u \in torn'
    BY <1>15 DEF EditTheme
  <2> QED BY <1>a, <1>b, <2>1, BlobKept
<1>16. CASE UNCHANGED snapshotVars
  <2>1. /\ req'[x] = req[x] /\ blobRows \subseteq blobRows' /\ torn \subseteq torn'
        /\ (\A e : e[1] = x /\ e \in entries' => e \in entries)
        /\ \A u : disk[u] = "whole" => disk'[u] = "whole" \/ u \in torn'
    BY <1>16 DEF snapshotVars
  <2> QED BY <1>a, <1>b, <2>1, BlobKept
<1>. QED
  BY <1>1, <1>2, <1>3, <1>4, <1>5, <1>6, <1>7, <1>8, <1>9, <1>10, <1>11, <1>12, <1>13, <1>14,
     <1>15, <1>16 DEF SnapshotsNext

\* Every step keeps note of the blobs a restart left in part.
LEMMA TornStep ==
  ASSUME SnapshotsInv, [SnapshotsNext]_snapshotVars
  PROVE  TornInv'
<1>a. TornInv /\ TablesOK /\ RequestsOK
  BY DEF SnapshotsInv
<1>1. ASSUME NEW r \in Snap, ListFiles(r) PROVE TornInv'
  BY <1>1, <1>a DEF ListFiles, TornInv, TablesOK
<1>2. ASSUME NEW r \in Snap, ReadFiles(r) PROVE TornInv'
  BY <1>2, <1>a DEF ReadFiles, Past, TornInv, TablesOK
<1>3. ASSUME NEW r \in Snap, WriteBlob(r) PROVE TornInv'
  <2>1. PICK t \in Text : disk' = [disk EXCEPT ![t] = IF @ = "none" THEN "whole" ELSE @]
    BY <1>3, <1>a, Writing
  <2>2. torn' = torn
    BY <1>3 DEF WriteBlob
  <2>. QED
    BY <1>a, <2>1, <2>2 DEF TornInv, TablesOK
<1>4. ASSUME NEW r \in Snap, LookForRow(r) PROVE TornInv'
  BY <1>4, <1>a DEF LookForRow, Past, TornInv, TablesOK
<1>5. ASSUME NEW r \in Snap, InsertRow(r) PROVE TornInv'
  BY <1>5, <1>a DEF InsertRow, Past, TornInv, TablesOK
<1>6. ASSUME NEW r \in Snap, InsertEntry(r) PROVE TornInv'
  BY <1>6, <1>a DEF InsertEntry, Past, TornInv, TablesOK
<1>7. ASSUME NEW r \in Snap, InsertSnapshot(r) PROVE TornInv'
  BY <1>7, <1>a DEF InsertSnapshot, Past, TornInv, TablesOK
<1>8. ASSUME NEW r \in Snap, DeleteEntries(r) PROVE TornInv'
  BY <1>8, <1>a DEF DeleteEntries, TornInv, TablesOK
<1>9. ASSUME NEW r \in Snap, DeleteSnapshot(r) PROVE TornInv'
  BY <1>9, <1>a DEF DeleteSnapshot, TornInv, TablesOK
<1>10. CASE GcBegin
  BY <1>10, <1>a DEF GcBegin, GcRest, TornInv, TablesOK
<1>11. CASE GcLook
  BY <1>11, <1>a DEF GcLook, GcRest, TornInv, TablesOK
<1>12. CASE GcUnlink
  BY <1>12, <1>a DEF GcUnlink, GcRest, TornInv, TablesOK
<1>13. CASE GcDeleteRow
  BY <1>13, <1>a DEF GcDeleteRow, GcRest, TornInv, TablesOK
<1>14. CASE ServerRestarts
  BY <1>14, <1>a DEF ServerRestarts, TornInv, TablesOK
<1>15. ASSUME NEW k \in Key, NEW t \in Held, EditTheme(k, t) PROVE TornInv'
  BY <1>15, <1>a DEF EditTheme, TornInv, TablesOK
<1>16. CASE UNCHANGED snapshotVars
  BY <1>16, <1>a DEF snapshotVars, TornInv
<1>. QED
  BY <1>1, <1>2, <1>3, <1>4, <1>5, <1>6, <1>7, <1>8, <1>9, <1>10, <1>11, <1>12, <1>13, <1>14,
     <1>15, <1>16 DEF SnapshotsNext

\* What a step does to the requests under way, where ListFiles begins none.
LEMMA MetKept ==
  ASSUME MetInv, met' = met, \A s \in Snap : Making(s)' => Making(s), blobRows' \subseteq blobRows,
         \A s \in Snap : req'[s].at = "row" => req[s].at = "row" /\ Blob(s)' = Blob(s)
  PROVE  MetInv'
<1>1. \A r, s \in Snap : Making(r)' /\ Making(s)' /\ r # s => s \in met'
  BY DEF MetInv
<1>2. \A s \in Snap : req'[s].at = "row" /\ s \notin met' => Blob(s)' \notin blobRows'
  BY DEF MetInv
<1>. QED
  BY <1>1, <1>2 DEF MetInv

\* Every step keeps requests that overlap aware of it.
LEMMA MetStep ==
  ASSUME SnapshotsInv, [SnapshotsNext]_snapshotVars
  PROVE  MetInv'
<1>a. MetInv /\ TablesOK /\ RequestsOK
  BY DEF SnapshotsInv
<1>1. ASSUME NEW r \in Snap, ListFiles(r) PROVE MetInv'
  <2>1. /\ req[r].at = "new" /\ req'[r].at = "read" /\ blobRows' = blobRows
        /\ (\A s \in Snap : s # r => req'[s] = req[s])
    BY <1>1, <1>a, Listing DEF ListFiles
  <2>2. met \subseteq met' /\ \A s \in Snap : Making(s) => s \in met' /\ r \in met'
    BY <1>1 DEF ListFiles
  <2>3. \A s \in Snap : s # r => Making(s)' = Making(s) /\ Blob(s)' = Blob(s)
    BY <2>1, Unmoved
  <2>4. \A q, s \in Snap : Making(q)' /\ Making(s)' /\ q # s => s \in met'
    BY <1>a, <2>2, <2>3 DEF MetInv
  <2>5. \A s \in Snap : req'[s].at = "row" /\ s \notin met' => Blob(s)' \notin blobRows'
    BY <1>a, <2>1, <2>2, <2>3 DEF MetInv
  <2> QED BY <2>4, <2>5 DEF MetInv
<1>2. ASSUME NEW r \in Snap, ReadFiles(r) PROVE MetInv'
  <2>1. \A s \in Snap : s # r => req'[s] = req[s]
    BY <1>2, <1>a, Reading
  <2>2. Making(r) /\ req'[r].at # "row"
    BY <1>2, <1>a, Reading DEF Making
  <2>3. met' = met /\ blobRows' \subseteq blobRows
    BY <1>2 DEF ReadFiles, Past
  <2>4. \A s \in Snap : s # r => Making(s)' = Making(s) /\ Blob(s)' = Blob(s)
    BY <2>1, Unmoved
  <2> QED BY <1>a, <2>1, <2>2, <2>3, <2>4, MetKept
<1>3. ASSUME NEW r \in Snap, WriteBlob(r) PROVE MetInv'
  <2>1. \A s \in Snap : s # r => req'[s] = req[s]
    BY <1>3, <1>a, Writing
  <2>2. Making(r) /\ req'[r].at # "row"
    BY <1>3, <1>a, Writing DEF Making
  <2>3. met' = met /\ blobRows' \subseteq blobRows
    BY <1>3 DEF WriteBlob, Past
  <2>4. \A s \in Snap : s # r => Making(s)' = Making(s) /\ Blob(s)' = Blob(s)
    BY <2>1, Unmoved
  <2> QED BY <1>a, <2>1, <2>2, <2>3, <2>4, MetKept
<1>4. ASSUME NEW r \in Snap, LookForRow(r) PROVE MetInv'
  <2>1. /\ req[r].at = "look" /\ req'[r].got = req[r].got /\ req'[r].key = req[r].key
        /\ (\A s \in Snap : s # r => req'[s] = req[s]) /\ (req'[r].at = "row" => Blob(r) \notin blobRows)
    BY <1>4, <1>a, Looking
  <2>2. met' = met /\ blobRows' = blobRows
    BY <1>4 DEF LookForRow, Past
  <2>3. Making(r) /\ Blob(r)' = Blob(r)
    BY <2>1 DEF Making, Blob
  <2>4. \A s \in Snap : s # r => Making(s)' = Making(s) /\ Blob(s)' = Blob(s)
    BY <2>1, Unmoved
  <2>5. \A q, s \in Snap : Making(q)' /\ Making(s)' /\ q # s => s \in met'
    BY <1>a, <2>2, <2>3, <2>4 DEF MetInv
  <2>6. \A s \in Snap : req'[s].at = "row" /\ s \notin met' => Blob(s)' \notin blobRows'
    BY <1>a, <2>1, <2>2, <2>3, <2>4 DEF MetInv
  <2> QED BY <2>5, <2>6 DEF MetInv
<1>5. ASSUME NEW r \in Snap, InsertRow(r) PROVE MetInv'
  <2>1. req[r].at = "row" /\ req'[r].at # "row" /\ (\A s \in Snap : s # r => req'[s] = req[s])
    BY <1>5, <1>a, Inserting
  <2>2. met' = met
    BY <1>5 DEF InsertRow, Past
  <2>3. Making(r)
    BY <2>1 DEF Making
  <2>4. \A s \in Snap : s # r => Making(s)' = Making(s) /\ Blob(s)' = Blob(s)
    BY <2>1, Unmoved
  <2>5. \A q, s \in Snap : Making(q)' /\ Making(s)' /\ q # s => s \in met'
    BY <1>a, <2>2, <2>3, <2>4 DEF MetInv
  <2>6. ASSUME NEW s \in Snap, req'[s].at = "row", s \notin met' PROVE FALSE
    <3>1. s # r /\ Making(s)
      BY <2>1, <2>6 DEF Making
    <3> QED BY <1>a, <2>2, <2>3, <2>6, <3>1 DEF MetInv
  <2> QED BY <2>5, <2>6 DEF MetInv
<1>6. ASSUME NEW r \in Snap, InsertEntry(r) PROVE MetInv'
  <2>1. \A s \in Snap : s # r => req'[s] = req[s]
    BY <1>6, <1>a, Entering
  <2>2. Making(r) /\ req'[r].at # "row"
    BY <1>6, <1>a, Entering DEF Making
  <2>3. met' = met /\ blobRows' \subseteq blobRows
    BY <1>6 DEF InsertEntry, Past
  <2>4. \A s \in Snap : s # r => Making(s)' = Making(s) /\ Blob(s)' = Blob(s)
    BY <2>1, Unmoved
  <2> QED BY <1>a, <2>1, <2>2, <2>3, <2>4, MetKept
<1>7. ASSUME NEW r \in Snap, InsertSnapshot(r) PROVE MetInv'
  <2>1. \A s \in Snap : s # r => req'[s] = req[s]
    BY <1>7, <1>a, Closing
  <2>2. Making(r) /\ req'[r].at # "row"
    BY <1>7, <1>a, Closing DEF Making
  <2>3. met' = met /\ blobRows' \subseteq blobRows
    BY <1>7 DEF InsertSnapshot, Past
  <2>4. \A s \in Snap : s # r => Making(s)' = Making(s) /\ Blob(s)' = Blob(s)
    BY <2>1, Unmoved
  <2> QED BY <1>a, <2>1, <2>2, <2>3, <2>4, MetKept
<1>8. ASSUME NEW r \in Snap, DeleteEntries(r) PROVE MetInv'
  <2>1. /\ met' = met /\ blobRows' \subseteq blobRows /\ \A s \in Snap : Making(s)' => Making(s)
        /\ \A s \in Snap : req'[s].at = "row" => req[s].at = "row" /\ Blob(s)' = Blob(s)
    BY <1>8, <1>a DEF DeleteEntries, Making, Blob
  <2> QED BY <1>a, <2>1, MetKept
<1>9. ASSUME NEW r \in Snap, DeleteSnapshot(r) PROVE MetInv'
  <2>1. /\ met' = met /\ blobRows' \subseteq blobRows /\ \A s \in Snap : Making(s)' => Making(s)
        /\ \A s \in Snap : req'[s].at = "row" => req[s].at = "row" /\ Blob(s)' = Blob(s)
    BY <1>9, <1>a DEF DeleteSnapshot, Making, Blob
  <2> QED BY <1>a, <2>1, MetKept
<1>10. CASE GcBegin
  <2>1. /\ met' = met /\ blobRows' \subseteq blobRows /\ \A s \in Snap : Making(s)' => Making(s)
        /\ \A s \in Snap : req'[s].at = "row" => req[s].at = "row" /\ Blob(s)' = Blob(s)
    BY <1>10, <1>a DEF GcBegin, GcRest, Making, Blob
  <2> QED BY <1>a, <2>1, MetKept
<1>11. CASE GcLook
  <2>1. /\ met' = met /\ blobRows' \subseteq blobRows /\ \A s \in Snap : Making(s)' => Making(s)
        /\ \A s \in Snap : req'[s].at = "row" => req[s].at = "row" /\ Blob(s)' = Blob(s)
    BY <1>11, <1>a DEF GcLook, GcRest, Making, Blob
  <2> QED BY <1>a, <2>1, MetKept
<1>12. CASE GcUnlink
  <2>1. /\ met' = met /\ blobRows' \subseteq blobRows /\ \A s \in Snap : Making(s)' => Making(s)
        /\ \A s \in Snap : req'[s].at = "row" => req[s].at = "row" /\ Blob(s)' = Blob(s)
    BY <1>12, <1>a DEF GcUnlink, GcRest, Making, Blob
  <2> QED BY <1>a, <2>1, MetKept
<1>13. CASE GcDeleteRow
  <2>1. /\ met' = met /\ blobRows' \subseteq blobRows /\ \A s \in Snap : Making(s)' => Making(s)
        /\ \A s \in Snap : req'[s].at = "row" => req[s].at = "row" /\ Blob(s)' = Blob(s)
    BY <1>13, <1>a DEF GcDeleteRow, GcRest, Making, Blob
  <2> QED BY <1>a, <2>1, MetKept
<1>14. CASE ServerRestarts
  <2>1. \A s \in Snap : IF Making(s) THEN req'[s].at = "failed" ELSE req'[s] = req[s]
    BY <1>14, <1>a, Dying
  <2>2. \A s \in Snap : Making(s)' => Making(s)
    BY <2>1 DEF Making
  <2>3. \A s \in Snap : req'[s].at = "row" => req[s].at = "row" /\ Blob(s)' = Blob(s)
    BY <2>1 DEF Making, Blob
  <2>4. met' = met /\ blobRows' = blobRows
    BY <1>14 DEF ServerRestarts
  <2> QED BY <1>a, <2>2, <2>3, <2>4, MetKept
<1>15. ASSUME NEW k \in Key, NEW t \in Held, EditTheme(k, t) PROVE MetInv'
  <2>1. /\ met' = met /\ blobRows' \subseteq blobRows /\ \A s \in Snap : Making(s)' => Making(s)
        /\ \A s \in Snap : req'[s].at = "row" => req[s].at = "row" /\ Blob(s)' = Blob(s)
    BY <1>15, <1>a DEF EditTheme, Making, Blob
  <2> QED BY <1>a, <2>1, MetKept
<1>16. CASE UNCHANGED snapshotVars
  BY <1>16, <1>a DEF snapshotVars, MetInv, Making, Blob
<1>. QED
  BY <1>1, <1>2, <1>3, <1>4, <1>5, <1>6, <1>7, <1>8, <1>9, <1>10, <1>11, <1>12, <1>13, <1>14,
     <1>15, <1>16 DEF SnapshotsNext

\* Two themes with the same files are one.
LEMMA SameFiles ==
  ASSUME NEW f \in [Key -> Held], NEW g \in [Key -> Held], \A k \in Key : f[k] = g[k]
  PROVE  f = g
  OBVIOUS

\* Every step keeps what was read in line with the theme that was listed.
LEMMA ReadStep ==
  ASSUME SnapshotsInv, [SnapshotsNext]_snapshotVars, NEW x \in Snap
  PROVE  ReadInv(x)'
<1>a. RequestsOK /\ NotesOK /\ TablesOK /\ ReadInv(x)
  BY DEF SnapshotsInv
<1>1. ASSUME NEW r \in Snap, ListFiles(r) PROVE ReadInv(x)'
  <2>1. CASE x # r
    <3>1. req'[x] = req[x] /\ theme' = theme /\ moment'[x] = moment[x] /\ disturbed' = disturbed
      BY <1>1, <1>a, <2>1, Listing DEF ListFiles, NotesOK
    <3> QED BY <1>a, <3>1 DEF ReadInv, Making
  <2>2. CASE x = r
    <3>1. /\ req'[x].at = "read" /\ req'[x].keys = {k \in Key : theme[k] # Gone}
          /\ \A k \in Key : req'[x].got[k] = Gone
      BY <1>1, <1>a, <2>2, Listing
    <3>2. theme' = theme /\ moment'[x] = theme
      BY <1>1, <1>a, <2>2 DEF ListFiles, NotesOK
    <3> QED BY <3>1, <3>2 DEF ReadInv, Making
  <2>. QED
    BY <2>1, <2>2
<1>2. ASSUME NEW r \in Snap, ReadFiles(r) PROVE ReadInv(x)'
  <2>1. CASE x # r
    <3>1. req'[x] = req[x] /\ theme' = theme /\ moment'[x] = moment[x] /\ disturbed' = disturbed
      BY <1>2, <1>a, <2>1, Reading DEF ReadFiles, Past, NotesOK
    <3> QED BY <1>a, <3>1 DEF ReadInv, Making
  <2>2. CASE x = r
    <3>1. moment' = moment /\ disturbed' = disturbed /\ theme' = theme /\ req[x].at = "read"
      BY <1>2, <1>a, <2>2, Reading DEF ReadFiles, Past
    <3>2. ASSUME x \notin disturbed
          PROVE  /\ theme = moment[x] /\ \A k \in req[x].keys : theme[k] # Gone
                 /\ \A k \in Key \ req[x].keys : req[x].got[k] = theme[k]
      BY <1>a, <3>1, <3>2 DEF ReadInv
    <3>3. ASSUME NEW k \in req[x].keys, req'[x].at = "read", req'[x].keys = req[x].keys \ {k},
                 req'[x].got[k] = theme[k], \A l \in Key \ {k} : req'[x].got[l] = req[x].got[l]
          PROVE  ReadInv(x)'
      BY <3>1, <3>2, <3>3 DEF ReadInv
    <3>4. CASE req'[x].at = "failed"
      BY <3>4 DEF ReadInv, Making
    <3>5. ASSUME req[x].keys = {}, req'[x].got = req[x].got, req'[x].at \in {"list", "blob"}
          PROVE  ReadInv(x)'
      <4>1. SUFFICES ASSUME x \notin disturbed PROVE req[x].got = moment[x]
        BY <3>1, <3>5 DEF ReadInv
      <4>2. \A k \in Key : req[x].got[k] = moment[x][k]
        BY <3>2, <3>5, <4>1
      <4>3. req[x].got \in [Key -> Held] /\ moment[x] \in [Key -> Held]
        BY <1>a DEF RequestsOK, NotesOK, Req
      <4> QED BY <4>2, <4>3, SameFiles
    <3> QED BY <1>2, <1>a, <2>2, <3>3, <3>4, <3>5, Reading
  <2>. QED
    BY <2>1, <2>2
<1>3. ASSUME NEW r \in Snap, WriteBlob(r) PROVE ReadInv(x)'
  <2>1. CASE x # r
    <3>1. req'[x] = req[x] /\ theme' = theme /\ moment'[x] = moment[x] /\ disturbed' = disturbed
      BY <1>3, <1>a, <2>1, Writing DEF WriteBlob, Past, NotesOK
    <3> QED BY <1>a, <3>1 DEF ReadInv, Making
  <2>2. CASE x = r
    <3>1. /\ moment' = moment /\ disturbed' = disturbed /\ Making(x) /\ req[x].at # "read"
          /\ req'[x].at # "read" /\ (Making(x)' => req'[x].got = req[x].got)
      BY <1>3, <1>a, <2>2, Writing DEF WriteBlob, Past, Making
    <3> QED BY <1>a, <3>1 DEF ReadInv
  <2>. QED
    BY <2>1, <2>2
<1>4. ASSUME NEW r \in Snap, LookForRow(r) PROVE ReadInv(x)'
  <2>1. CASE x # r
    <3>1. req'[x] = req[x] /\ theme' = theme /\ moment'[x] = moment[x] /\ disturbed' = disturbed
      BY <1>4, <1>a, <2>1, Looking DEF LookForRow, Past, NotesOK
    <3> QED BY <1>a, <3>1 DEF ReadInv, Making
  <2>2. CASE x = r
    <3>1. /\ moment' = moment /\ disturbed' = disturbed /\ Making(x) /\ req[x].at # "read"
          /\ req'[x].at # "read" /\ (Making(x)' => req'[x].got = req[x].got)
      BY <1>4, <1>a, <2>2, Looking DEF LookForRow, Past, Making
    <3> QED BY <1>a, <3>1 DEF ReadInv
  <2>. QED
    BY <2>1, <2>2
<1>5. ASSUME NEW r \in Snap, InsertRow(r) PROVE ReadInv(x)'
  <2>1. CASE x # r
    <3>1. req'[x] = req[x] /\ theme' = theme /\ moment'[x] = moment[x] /\ disturbed' = disturbed
      BY <1>5, <1>a, <2>1, Inserting DEF InsertRow, Past, NotesOK
    <3> QED BY <1>a, <3>1 DEF ReadInv, Making
  <2>2. CASE x = r
    <3>1. /\ moment' = moment /\ disturbed' = disturbed /\ Making(x) /\ req[x].at # "read"
          /\ req'[x].at # "read" /\ (Making(x)' => req'[x].got = req[x].got)
      BY <1>5, <1>a, <2>2, Inserting DEF InsertRow, Past, Making
    <3> QED BY <1>a, <3>1 DEF ReadInv
  <2>. QED
    BY <2>1, <2>2
<1>6. ASSUME NEW r \in Snap, InsertEntry(r) PROVE ReadInv(x)'
  <2>1. CASE x # r
    <3>1. req'[x] = req[x] /\ theme' = theme /\ moment'[x] = moment[x] /\ disturbed' = disturbed
      BY <1>6, <1>a, <2>1, Entering DEF InsertEntry, Past, NotesOK
    <3> QED BY <1>a, <3>1 DEF ReadInv, Making
  <2>2. CASE x = r
    <3>1. /\ moment' = moment /\ disturbed' = disturbed /\ Making(x) /\ req[x].at # "read"
          /\ req'[x].at # "read" /\ (Making(x)' => req'[x].got = req[x].got)
      BY <1>6, <1>a, <2>2, Entering DEF InsertEntry, Past, Making
    <3> QED BY <1>a, <3>1 DEF ReadInv
  <2>. QED
    BY <2>1, <2>2
<1>7. ASSUME NEW r \in Snap, InsertSnapshot(r) PROVE ReadInv(x)'
  <2>1. CASE x # r
    <3>1. req'[x] = req[x] /\ theme' = theme /\ moment'[x] = moment[x] /\ disturbed' = disturbed
      BY <1>7, <1>a, <2>1, Closing DEF InsertSnapshot, Past, NotesOK
    <3> QED BY <1>a, <3>1 DEF ReadInv, Making
  <2>2. CASE x = r
    <3>1. /\ moment' = moment /\ disturbed' = disturbed /\ Making(x) /\ req[x].at # "read"
          /\ req'[x].at # "read" /\ (Making(x)' => req'[x].got = req[x].got)
      BY <1>7, <1>a, <2>2, Closing DEF InsertSnapshot, Past, Making
    <3> QED BY <1>a, <3>1 DEF ReadInv
  <2>. QED
    BY <2>1, <2>2
<1>8. ASSUME NEW r \in Snap, DeleteEntries(r) PROVE ReadInv(x)'
  BY <1>8, <1>a DEF DeleteEntries, ReadInv, Making
<1>9. ASSUME NEW r \in Snap, DeleteSnapshot(r) PROVE ReadInv(x)'
  BY <1>9, <1>a DEF DeleteSnapshot, ReadInv, Making
<1>10. CASE GcBegin
  BY <1>10, <1>a DEF GcBegin, GcRest, ReadInv, Making
<1>11. CASE GcLook
  BY <1>11, <1>a DEF GcLook, GcRest, ReadInv, Making
<1>12. CASE GcUnlink
  BY <1>12, <1>a DEF GcUnlink, GcRest, ReadInv, Making
<1>13. CASE GcDeleteRow
  BY <1>13, <1>a DEF GcDeleteRow, GcRest, ReadInv, Making
<1>14. CASE ServerRestarts
  <2>1. moment' = moment /\ disturbed' = disturbed /\ theme' = theme
    BY <1>14 DEF ServerRestarts
  <2>2. IF Making(x) THEN req'[x].at = "failed" ELSE req'[x] = req[x]
    BY <1>14, <1>a, Dying
  <2> QED BY <1>a, <2>1, <2>2 DEF ReadInv, Making
<1>15. ASSUME NEW k \in Key, NEW t \in Held, EditTheme(k, t) PROVE ReadInv(x)'
  BY <1>15, <1>a DEF EditTheme, ReadInv, Making
<1>16. CASE UNCHANGED snapshotVars
  BY <1>16, <1>a DEF snapshotVars, ReadInv, Making
<1>. QED
  BY <1>1, <1>2, <1>3, <1>4, <1>5, <1>6, <1>7, <1>8, <1>9, <1>10, <1>11, <1>12, <1>13, <1>14,
     <1>15, <1>16 DEF SnapshotsNext

\* A request that inserts its snapshot has a row for each file it read.
LEMMA AllStored ==
  ASSUME TablesOK, RequestsOK, NEW r \in Snap, EntriesInv(r), req[r].at = "list"
  PROVE  KeysOf(r) = Has(r)
<1>1. Making(r)
  BY DEF Making
<1>2. \A e \in entries : e[2] \in Key /\ e[3] # Gone
  BY SnapshotsAssumption DEF TablesOK
<1>3. KeysOf(r) \subseteq Has(r)
  BY <1>1, <1>2 DEF EntriesInv, KeysOf, Has
<1>4. Has(r) \subseteq KeysOf(r)
  BY DEF EntriesInv, KeysOf
<1>. QED
  BY <1>3, <1>4

\* Every step keeps a listed snapshot whole.
LEMMA WholeStep ==
  ASSUME SnapshotsInv, [SnapshotsNext]_snapshotVars
  PROVE  ListedIsWhole'
<1>a. ListedIsWhole /\ TablesOK /\ RequestsOK
  BY DEF SnapshotsInv
<1>b. \A s \in Snap : ListedInv(s)
  BY DEF SnapshotsInv
<1>c. \A s \in Snap : EntriesInv(s)
  BY DEF SnapshotsInv
<1>1. ASSUME NEW r \in Snap, ListFiles(r) PROVE ListedIsWhole'
  <2>1. entries' = entries /\ snapshots' = snapshots /\ removing' = removing
    BY <1>1 DEF ListFiles
  <2> QED BY <1>a, <2>1 DEF ListedIsWhole, Listed, KeysOf
<1>2. ASSUME NEW r \in Snap, ReadFiles(r) PROVE ListedIsWhole'
  <2>1. entries' = entries /\ snapshots' = snapshots /\ removing' = removing
    BY <1>2 DEF ReadFiles, Past
  <2> QED BY <1>a, <2>1 DEF ListedIsWhole, Listed, KeysOf
<1>3. ASSUME NEW r \in Snap, WriteBlob(r) PROVE ListedIsWhole'
  <2>1. entries' = entries /\ snapshots' = snapshots /\ removing' = removing
    BY <1>3 DEF WriteBlob, Past
  <2> QED BY <1>a, <2>1 DEF ListedIsWhole, Listed, KeysOf
<1>4. ASSUME NEW r \in Snap, LookForRow(r) PROVE ListedIsWhole'
  <2>1. entries' = entries /\ snapshots' = snapshots /\ removing' = removing
    BY <1>4 DEF LookForRow, Past
  <2> QED BY <1>a, <2>1 DEF ListedIsWhole, Listed, KeysOf
<1>5. ASSUME NEW r \in Snap, InsertRow(r) PROVE ListedIsWhole'
  <2>1. entries' = entries /\ snapshots' = snapshots /\ removing' = removing
    BY <1>5 DEF InsertRow, Past
  <2> QED BY <1>a, <2>1 DEF ListedIsWhole, Listed, KeysOf
<1>6. ASSUME NEW r \in Snap, InsertEntry(r) PROVE ListedIsWhole'
  <2>1. /\ entries' = entries \cup {<<r, req[r].key, Blob(r)>>} /\ snapshots' = snapshots /\ removing' = removing
        /\ req[r].at = "entry"
    BY <1>6 DEF InsertEntry, Past
  <2>2. ASSUME NEW s \in Snap, s # r PROVE KeysOf(s)' = KeysOf(s)
    BY <2>1, <2>2 DEF KeysOf
  <2>3. r \notin Listed'
    BY <1>b, <2>1 DEF ListedInv, Listed
  <2> QED BY <1>a, <2>1, <2>2, <2>3 DEF ListedIsWhole, Listed
<1>7. ASSUME NEW r \in Snap, InsertSnapshot(r) PROVE ListedIsWhole'
  <2>1. req[r].at = "list" /\ entries' = entries /\ removing' = removing
    BY <1>7 DEF InsertSnapshot, Past
  <2>2. snapshots' = [snapshots EXCEPT ![r] = Cardinality(Has(r))]
    BY <1>7 DEF InsertSnapshot
  <2>3. KeysOf(r) = Has(r)
    BY <1>a, <1>c, <2>1, AllStored
  <2>4. \A s \in Snap : KeysOf(s)' = KeysOf(s)
    BY <2>1 DEF KeysOf
  <2>5. snapshots'[r] = Cardinality(KeysOf(r)) /\ \A s \in Snap : s # r => snapshots'[s] = snapshots[s]
    BY <1>a, <2>2, <2>3 DEF TablesOK
  <2> QED BY <1>a, <2>1, <2>4, <2>5 DEF ListedIsWhole, Listed
<1>8. ASSUME NEW r \in Snap, DeleteEntries(r) PROVE ListedIsWhole'
  <2>1. entries' = {e \in entries : e[1] # r} /\ snapshots' = snapshots /\ removing' = removing \cup {r}
    BY <1>8 DEF DeleteEntries
  <2>2. ASSUME NEW s \in Snap, s # r PROVE KeysOf(s)' = KeysOf(s)
    BY <2>1, <2>2 DEF KeysOf
  <2> QED BY <1>a, <2>1, <2>2 DEF ListedIsWhole, Listed
<1>9. ASSUME NEW r \in Snap, DeleteSnapshot(r) PROVE ListedIsWhole'
  <2>1. entries' = entries /\ snapshots' = [snapshots EXCEPT ![r] = Unlisted] /\ removing' = removing
    BY <1>9 DEF DeleteSnapshot
  <2>2. r \notin Listed' /\ \A s \in Snap : s # r => snapshots'[s] = snapshots[s]
    BY <1>a, <2>1 DEF Listed, TablesOK
  <2>3. \A s \in Snap : KeysOf(s)' = KeysOf(s)
    BY <2>1 DEF KeysOf
  <2> QED BY <1>a, <2>1, <2>2, <2>3 DEF ListedIsWhole, Listed
<1>10. CASE GcBegin
  <2>1. entries' = entries /\ snapshots' = snapshots /\ removing' = removing
    BY <1>10 DEF GcBegin, GcRest
  <2> QED BY <1>a, <2>1 DEF ListedIsWhole, Listed, KeysOf
<1>11. CASE GcLook
  <2>1. entries' = entries /\ snapshots' = snapshots /\ removing' = removing
    BY <1>11 DEF GcLook, GcRest
  <2> QED BY <1>a, <2>1 DEF ListedIsWhole, Listed, KeysOf
<1>12. CASE GcUnlink
  <2>1. entries' = entries /\ snapshots' = snapshots /\ removing' = removing
    BY <1>12 DEF GcUnlink, GcRest
  <2> QED BY <1>a, <2>1 DEF ListedIsWhole, Listed, KeysOf
<1>13. CASE GcDeleteRow
  <2>1. entries' = entries /\ snapshots' = snapshots /\ removing' = removing
    BY <1>13 DEF GcDeleteRow, GcRest
  <2> QED BY <1>a, <2>1 DEF ListedIsWhole, Listed, KeysOf
<1>14. CASE ServerRestarts
  <2>1. entries' = entries /\ snapshots' = snapshots /\ removing' = removing
    BY <1>14 DEF ServerRestarts
  <2> QED BY <1>a, <2>1 DEF ListedIsWhole, Listed, KeysOf
<1>15. ASSUME NEW k \in Key, NEW t \in Held, EditTheme(k, t) PROVE ListedIsWhole'
  <2>1. entries' = entries /\ snapshots' = snapshots /\ removing' = removing
    BY <1>15 DEF EditTheme
  <2> QED BY <1>a, <2>1 DEF ListedIsWhole, Listed, KeysOf
<1>16. CASE UNCHANGED snapshotVars
  BY <1>16, <1>a DEF snapshotVars, ListedIsWhole, Listed, KeysOf
<1>. QED
  BY <1>1, <1>2, <1>3, <1>4, <1>5, <1>6, <1>7, <1>8, <1>9, <1>10, <1>11, <1>12, <1>13, <1>14,
     <1>15, <1>16 DEF SnapshotsNext

\* Every step keeps a listed snapshot the theme of one moment.
LEMMA MomentStep ==
  ASSUME SnapshotsInv, [SnapshotsNext]_snapshotVars
  PROVE  OneMoment'
<1>a. OneMoment /\ TablesOK /\ RequestsOK /\ NotesOK
  BY DEF SnapshotsInv
<1>b. \A s \in Snap : ListedInv(s)
  BY DEF SnapshotsInv
<1>c. \A s \in Snap : EntriesInv(s) /\ ReadInv(s)
  BY DEF SnapshotsInv
<1>1. ASSUME NEW r \in Snap, ListFiles(r) PROVE OneMoment'
  <2>1. /\ entries' = entries /\ snapshots' = snapshots /\ removing' = removing /\ disturbed' = disturbed
        /\ req[r].at = "new" /\ moment' = [moment EXCEPT ![r] = theme]
    BY <1>1 DEF ListFiles
  <2>2. r \notin Listed' /\ \A s \in Snap : s # r => moment'[s] = moment[s]
    BY <1>a, <1>b, <2>1 DEF ListedInv, Listed, NotesOK
  <2> QED BY <1>a, <2>1, <2>2 DEF OneMoment, Listed
<1>2. ASSUME NEW r \in Snap, ReadFiles(r) PROVE OneMoment'
  <2>1. /\ entries \subseteq entries' /\ snapshots' = snapshots /\ removing' = removing
        /\ moment' = moment /\ disturbed \subseteq disturbed'
    BY <1>2 DEF ReadFiles, Past
  <2> QED BY <1>a, <2>1 DEF OneMoment, Listed
<1>3. ASSUME NEW r \in Snap, WriteBlob(r) PROVE OneMoment'
  <2>1. /\ entries \subseteq entries' /\ snapshots' = snapshots /\ removing' = removing
        /\ moment' = moment /\ disturbed \subseteq disturbed'
    BY <1>3 DEF WriteBlob, Past
  <2> QED BY <1>a, <2>1 DEF OneMoment, Listed
<1>4. ASSUME NEW r \in Snap, LookForRow(r) PROVE OneMoment'
  <2>1. /\ entries \subseteq entries' /\ snapshots' = snapshots /\ removing' = removing
        /\ moment' = moment /\ disturbed \subseteq disturbed'
    BY <1>4 DEF LookForRow, Past
  <2> QED BY <1>a, <2>1 DEF OneMoment, Listed
<1>5. ASSUME NEW r \in Snap, InsertRow(r) PROVE OneMoment'
  <2>1. /\ entries \subseteq entries' /\ snapshots' = snapshots /\ removing' = removing
        /\ moment' = moment /\ disturbed \subseteq disturbed'
    BY <1>5 DEF InsertRow, Past
  <2> QED BY <1>a, <2>1 DEF OneMoment, Listed
<1>6. ASSUME NEW r \in Snap, InsertEntry(r) PROVE OneMoment'
  <2>1. /\ entries \subseteq entries' /\ snapshots' = snapshots /\ removing' = removing
        /\ moment' = moment /\ disturbed \subseteq disturbed'
    BY <1>6 DEF InsertEntry, Past
  <2> QED BY <1>a, <2>1 DEF OneMoment, Listed
<1>7. ASSUME NEW r \in Snap, InsertSnapshot(r) PROVE OneMoment'
  <2>1. /\ req[r].at = "list" /\ entries' = entries /\ removing' = removing /\ moment' = moment
        /\ disturbed' = disturbed
    BY <1>7 DEF InsertSnapshot, Past
  <2>2. \A s \in Snap : s # r => snapshots'[s] = snapshots[s]
    BY <1>7, <1>a DEF InsertSnapshot, TablesOK
  <2>3. ASSUME r \notin disturbed, NEW k \in Key, moment[r][k] # Gone
        PROVE  <<r, k, moment[r][k]>> \in entries
    <3>1. Making(r) /\ req[r].got = moment[r]
      BY <1>c, <2>1, <2>3 DEF ReadInv, Making
    <3>2. k \in Has(r)
      BY <2>3, <3>1 DEF Has
    <3>3. PICK e \in entries : e[1] = r /\ e[2] = k
      BY <1>c, <2>1, <3>2 DEF EntriesInv
    <3>4. e[3] = moment[r][k]
      BY <1>c, <3>1, <3>3 DEF EntriesInv
    <3>5. e = <<e[1], e[2], e[3]>>
      BY <1>a DEF TablesOK
    <3> QED BY <3>3, <3>4, <3>5
  <2>4. \A s \in Listed' \ (disturbed \cup removing) : s # r => s \in Listed \ (disturbed \cup removing)
    BY <2>2 DEF Listed
  <2> QED BY <1>a, <2>1, <2>3, <2>4 DEF OneMoment, Listed
<1>8. ASSUME NEW r \in Snap, DeleteEntries(r) PROVE OneMoment'
  <2>1. /\ entries' = {e \in entries : e[1] # r} /\ snapshots' = snapshots /\ removing' = removing \cup {r}
        /\ moment' = moment /\ disturbed' = disturbed
    BY <1>8 DEF DeleteEntries
  <2> QED BY <1>a, <2>1 DEF OneMoment, Listed
<1>9. ASSUME NEW r \in Snap, DeleteSnapshot(r) PROVE OneMoment'
  <2>1. /\ entries' = entries /\ snapshots' = [snapshots EXCEPT ![r] = Unlisted] /\ removing' = removing
        /\ moment' = moment /\ disturbed' = disturbed
    BY <1>9 DEF DeleteSnapshot
  <2>2. Listed' \subseteq Listed
    BY <1>a, <2>1 DEF Listed, TablesOK
  <2> QED BY <1>a, <2>1, <2>2 DEF OneMoment
<1>10. CASE GcBegin
  <2>1. /\ entries \subseteq entries' /\ snapshots' = snapshots /\ removing' = removing
        /\ moment' = moment /\ disturbed \subseteq disturbed'
    BY <1>10 DEF GcBegin, GcRest
  <2> QED BY <1>a, <2>1 DEF OneMoment, Listed
<1>11. CASE GcLook
  <2>1. /\ entries \subseteq entries' /\ snapshots' = snapshots /\ removing' = removing
        /\ moment' = moment /\ disturbed \subseteq disturbed'
    BY <1>11 DEF GcLook, GcRest
  <2> QED BY <1>a, <2>1 DEF OneMoment, Listed
<1>12. CASE GcUnlink
  <2>1. /\ entries \subseteq entries' /\ snapshots' = snapshots /\ removing' = removing
        /\ moment' = moment /\ disturbed \subseteq disturbed'
    BY <1>12 DEF GcUnlink, GcRest
  <2> QED BY <1>a, <2>1 DEF OneMoment, Listed
<1>13. CASE GcDeleteRow
  <2>1. /\ entries \subseteq entries' /\ snapshots' = snapshots /\ removing' = removing
        /\ moment' = moment /\ disturbed \subseteq disturbed'
    BY <1>13 DEF GcDeleteRow, GcRest
  <2> QED BY <1>a, <2>1 DEF OneMoment, Listed
<1>14. CASE ServerRestarts
  <2>1. /\ entries \subseteq entries' /\ snapshots' = snapshots /\ removing' = removing
        /\ moment' = moment /\ disturbed \subseteq disturbed'
    BY <1>14 DEF ServerRestarts
  <2> QED BY <1>a, <2>1 DEF OneMoment, Listed
<1>15. ASSUME NEW k \in Key, NEW t \in Held, EditTheme(k, t) PROVE OneMoment'
  <2>1. /\ entries \subseteq entries' /\ snapshots' = snapshots /\ removing' = removing
        /\ moment' = moment /\ disturbed \subseteq disturbed'
    BY <1>15 DEF EditTheme
  <2> QED BY <1>a, <2>1 DEF OneMoment, Listed
<1>16. CASE UNCHANGED snapshotVars
  BY <1>16, <1>a DEF snapshotVars, OneMoment, Listed
<1>. QED
  BY <1>1, <1>2, <1>3, <1>4, <1>5, <1>6, <1>7, <1>8, <1>9, <1>10, <1>11, <1>12, <1>13, <1>14,
     <1>15, <1>16 DEF SnapshotsNext

\* Every step keeps failures explained.
LEMMA FailureStep ==
  ASSUME SnapshotsInv, [SnapshotsNext]_snapshotVars
  PROVE  FailsForAReason'
<1>a. FailsForAReason /\ TablesOK /\ RequestsOK /\ NotesOK
  BY DEF SnapshotsInv
<1>b. MetInv
  BY DEF SnapshotsInv
<1>c. \A s \in Snap : ReadInv(s)
  BY DEF SnapshotsInv
<1>1. ASSUME NEW r \in Snap, ListFiles(r) PROVE FailsForAReason'
  <2>1. (\A s \in Snap : s # r => req'[s] = req[s]) /\ req'[r].at # "failed"
    BY <1>1, <1>a, Listing
  <2>2. met \subseteq met' /\ disturbed' = disturbed /\ restarts' = restarts
    BY <1>1 DEF ListFiles
  <2> QED BY <1>a, <2>1, <2>2 DEF FailsForAReason
<1>2. ASSUME NEW r \in Snap, ReadFiles(r) PROVE FailsForAReason'
  <2>1. (\A s \in Snap : s # r => req'[s] = req[s]) /\ req[r].at = "read"
    BY <1>2, <1>a, Reading
  <2>2. met' = met /\ disturbed' = disturbed /\ restarts' = restarts
    BY <1>2 DEF ReadFiles, Past
  <2>3. req'[r].at = "failed" => \E k \in req[r].keys : theme[k] = Gone
    BY <1>2, <1>a, Reading
  <2>4. req'[r].at = "failed" => r \in disturbed
    BY <1>c, <2>1, <2>3 DEF ReadInv
  <2> QED BY <1>a, <2>1, <2>2, <2>4 DEF FailsForAReason
<1>3. ASSUME NEW r \in Snap, WriteBlob(r) PROVE FailsForAReason'
  <2>1. (\A s \in Snap : s # r => req'[s] = req[s]) /\ req'[r].at # "failed"
    BY <1>3, <1>a, Writing
  <2>2. met \subseteq met' /\ disturbed' = disturbed /\ restarts' = restarts
    BY <1>3 DEF WriteBlob, Past
  <2> QED BY <1>a, <2>1, <2>2 DEF FailsForAReason
<1>4. ASSUME NEW r \in Snap, LookForRow(r) PROVE FailsForAReason'
  <2>1. (\A s \in Snap : s # r => req'[s] = req[s]) /\ req'[r].at # "failed"
    BY <1>4, <1>a, Looking
  <2>2. met \subseteq met' /\ disturbed' = disturbed /\ restarts' = restarts
    BY <1>4 DEF LookForRow, Past
  <2> QED BY <1>a, <2>1, <2>2 DEF FailsForAReason
<1>5. ASSUME NEW r \in Snap, InsertRow(r) PROVE FailsForAReason'
  <2>1. (\A s \in Snap : s # r => req'[s] = req[s]) /\ req[r].at = "row"
    BY <1>5, <1>a, Inserting
  <2>2. met' = met /\ disturbed' = disturbed /\ restarts' = restarts
    BY <1>5 DEF InsertRow, Past
  <2>3. req'[r].at = "failed" => Blob(r) \in blobRows
    BY <1>5, <1>a, Inserting
  <2>4. req'[r].at = "failed" => r \in met
    BY <1>b, <2>1, <2>3 DEF MetInv
  <2> QED BY <1>a, <2>1, <2>2, <2>4 DEF FailsForAReason
<1>6. ASSUME NEW r \in Snap, InsertEntry(r) PROVE FailsForAReason'
  <2>1. (\A s \in Snap : s # r => req'[s] = req[s]) /\ req'[r].at # "failed"
    BY <1>6, <1>a, Entering
  <2>2. met \subseteq met' /\ disturbed' = disturbed /\ restarts' = restarts
    BY <1>6 DEF InsertEntry, Past
  <2> QED BY <1>a, <2>1, <2>2 DEF FailsForAReason
<1>7. ASSUME NEW r \in Snap, InsertSnapshot(r) PROVE FailsForAReason'
  <2>1. (\A s \in Snap : s # r => req'[s] = req[s]) /\ req'[r].at # "failed"
    BY <1>7, <1>a, Closing
  <2>2. met \subseteq met' /\ disturbed' = disturbed /\ restarts' = restarts
    BY <1>7 DEF InsertSnapshot, Past
  <2> QED BY <1>a, <2>1, <2>2 DEF FailsForAReason
<1>8. ASSUME NEW r \in Snap, DeleteEntries(r) PROVE FailsForAReason'
  BY <1>8, <1>a DEF DeleteEntries, FailsForAReason
<1>9. ASSUME NEW r \in Snap, DeleteSnapshot(r) PROVE FailsForAReason'
  BY <1>9, <1>a DEF DeleteSnapshot, FailsForAReason
<1>10. CASE GcBegin
  BY <1>10, <1>a DEF GcBegin, GcRest, FailsForAReason
<1>11. CASE GcLook
  BY <1>11, <1>a DEF GcLook, GcRest, FailsForAReason
<1>12. CASE GcUnlink
  BY <1>12, <1>a DEF GcUnlink, GcRest, FailsForAReason
<1>13. CASE GcDeleteRow
  BY <1>13, <1>a DEF GcDeleteRow, GcRest, FailsForAReason
<1>14. CASE ServerRestarts
  BY <1>14, <1>a DEF ServerRestarts, FailsForAReason, NotesOK
<1>15. ASSUME NEW k \in Key, NEW t \in Held, EditTheme(k, t) PROVE FailsForAReason'
  BY <1>15, <1>a DEF EditTheme, FailsForAReason
<1>16. CASE UNCHANGED snapshotVars
  BY <1>16, <1>a DEF snapshotVars, FailsForAReason
<1>. QED
  BY <1>1, <1>2, <1>3, <1>4, <1>5, <1>6, <1>7, <1>8, <1>9, <1>10, <1>11, <1>12, <1>13, <1>14,
     <1>15, <1>16 DEF SnapshotsNext

LEMMA SnapshotsStart == SnapshotsInit => SnapshotsInv
<1>. SUFFICES ASSUME SnapshotsInit PROVE SnapshotsInv
  OBVIOUS
<1>a. NotBegun \in Req /\ NotBegun.at = "new" /\ NoGc \in GcRecord /\ NoGc.at = "idle"
  BY DEF NotBegun, Req, Places, Held, NoGc, GcRecord
<1>b. Unlisted \in 0 .. Unlisted /\ 0 \in 0 .. MaxSaves /\ 0 \in 0 .. MaxRestarts
  BY FileCounts, SnapshotsAssumption
<1>1. TablesOK /\ NotesOK
  BY <1>b DEF SnapshotsInit, TablesOK, NotesOK, Held
<1>2. RequestsOK
  BY <1>a DEF SnapshotsInit, RequestsOK
<1>3. \A s \in Snap : req[s].at = "new" /\ entries = {} /\ snapshots[s] = Unlisted /\ removing = {}
  BY <1>a DEF SnapshotsInit
<1>4. \A s \in Snap : ~Making(s) /\ ~Storing(s)
  BY <1>3 DEF Making, Storing
<1>5. \A s \in Snap : EntriesInv(s) /\ ListedInv(s) /\ BlobInv(s) /\ ReadInv(s)
  BY <1>3, <1>4 DEF EntriesInv, ListedInv, BlobInv, ReadInv
<1>6. OneEntry /\ SweepInv /\ TornInv /\ MetInv
  BY <1>a, <1>3, <1>4 DEF SnapshotsInit, OneEntry, SweepInv, TornInv, MetInv
<1>7. ListedIsWhole /\ OneMoment /\ FailsForAReason
  BY <1>3 DEF ListedIsWhole, OneMoment, FailsForAReason, Listed
<1>. QED
  BY <1>1, <1>2, <1>5, <1>6, <1>7 DEF SnapshotsInv

LEMMA SnapshotsStep == SnapshotsInv /\ [SnapshotsNext]_snapshotVars => SnapshotsInv'
<1>. SUFFICES ASSUME SnapshotsInv, [SnapshotsNext]_snapshotVars PROVE SnapshotsInv'
  OBVIOUS
<1>1. TablesOK' /\ RequestsOK' /\ NotesOK'
  BY TablesStep, RequestsStep
<1>2. \A x \in Snap : EntriesInv(x)' /\ ListedInv(x)' /\ BlobInv(x)' /\ ReadInv(x)'
  BY EntriesStep, ListedStep, BlobStep, ReadStep
<1>3. OneEntry' /\ SweepInv' /\ TornInv' /\ MetInv'
  BY OneEntryStep, SweepStep, TornStep, MetStep
<1>4. ListedIsWhole' /\ OneMoment' /\ FailsForAReason'
  BY WholeStep, MomentStep, FailureStep
<1>. QED
  BY <1>1, <1>2, <1>3, <1>4 DEF SnapshotsInv

\* The inductive invariant of the snapshot store.
THEOREM SnapshotsInvariance == SnapshotsSpec => []SnapshotsInv
<1>1. SnapshotsInit => SnapshotsInv
  BY SnapshotsStart
<1>2. SnapshotsInv /\ [SnapshotsNext]_snapshotVars => SnapshotsInv'
  BY SnapshotsStep
<1>. QED
  BY <1>1, <1>2, PTL DEF SnapshotsSpec

\* SnapshotsSafe: a listed snapshot is whole, one moment of the theme, and can be read back.
THEOREM SnapshotsAreReadable == SnapshotsSpec => []SnapshotsSafe
<1>1. ASSUME SnapshotsInv PROVE SnapshotsSafe
  <2>a. TablesOK /\ RequestsOK /\ NotesOK /\ OneEntry
    BY <1>1 DEF SnapshotsInv
  <2>b. \A s \in Snap : BlobInv(s)
    BY <1>1 DEF SnapshotsInv
  <2>c. \A e \in entries : e[1] \in Snap
    BY <2>a DEF TablesOK
  <2>1. \A e \in entries : e[1] \notin swept => e[3] \in blobRows
    BY <2>b, <2>c DEF BlobInv
  <2>2. \A s \in Snap : req[s] \in Req
    BY <2>a DEF RequestsOK
  <2>3. SnapshotsTypeOK
    BY <2>a, <2>1, <2>2 DEF SnapshotsTypeOK, TablesOK, RequestsOK, NotesOK, OneEntry, Req, Places,
       GcRecord
  <2>4. ListedIsReadable
    BY <2>b, <2>c DEF ListedIsReadable, BlobInv
  <2>5. ListedIsWhole /\ OneMoment /\ FailsForAReason
    BY <1>1 DEF SnapshotsInv
  <2>. QED
    BY <2>3, <2>4, <2>5 DEF SnapshotsSafe
<1>. QED
  BY <1>1, SnapshotsInvariance, PTL
=============================================================================
