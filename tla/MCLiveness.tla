----------------------------- MODULE MCLiveness -----------------------------
(* What must come to an end whatever happens: a tool call, a bulk change, a   *)
(* rollback, a call of the Admin API and the delivery of an event.            *)
(* They share no state, so a behaviour is about one of them: part says which. *)
EXTENDS MCExecution, ThemeRollback, AdminCalls, FreemiusEvents

VARIABLE part

\* A call that is refused, one that runs at once and one that needs a token.
FewRequests == {[Write EXCEPT !.gate = "scope"], Write, Publish}

LivenessInit ==
  /\ part \in {"tool", "rollback", "query", "event", "bulk"}
  /\ mix = "policy" /\ Init /\ BulkInit
  /\ RollbackInit /\ AdminCallsInit /\ FreemiusInit
  /\ part # "rollback" => \A f \in File : file[f] = Missing

LivenessNext ==
  /\ UNCHANGED part
  /\ \/ part = "tool" /\ PipelineNext /\ UNCHANGED <<bulkVars, rollbackVars, callVars, freemiusVars>>
     \/ part = "bulk" /\ BulkNext /\ UNCHANGED <<vars, mix, rollbackVars, callVars, freemiusVars>>
     \/ part = "rollback" /\ RollbackNext /\ UNCHANGED <<vars, mix, bulkVars, callVars, freemiusVars>>
     \/ part = "query" /\ AdminCallsNext /\ UNCHANGED <<vars, mix, bulkVars, rollbackVars, freemiusVars>>
     \/ part = "event" /\ FreemiusNext /\ UNCHANGED <<vars, mix, bulkVars, rollbackVars, callVars>>

LivenessSpec ==
  /\ LivenessInit /\ [][LivenessNext]_<<part, mix, vars, bulkVars, rollbackVars, callVars, freemiusVars>>
  /\ \A c \in Call : WF_vars(Step(c))
  /\ WF_bulkVars(Return) /\ \A w \in Worker : WF_bulkVars(WorkerStep(w))
  /\ \A r \in Rollback : WF_rollbackVars(RollbackStep(r))
  /\ WF_callVars(part = "query" /\ TickOfTime) /\ CallFairness
  /\ FreemiusFairness
=============================================================================
