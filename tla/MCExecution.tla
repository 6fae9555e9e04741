---------------------------- MODULE MCExecution ----------------------------
(* Small instances of what runs a change: two tool calls that compete for the *)
(* tokens, one call of every kind that the policy answers differently, or a   *)
(* bulk change in the hands of two workers.  mix says which; they share no    *)
(* state.                                                                     *)
EXTENDS ToolPipeline, BulkRunner, TLC

CONSTANTS c1, c2, t1, t2, p1, p2

\* A plain write by a developer, to be altered field by field.
Write == [gate |-> "open", profile |-> "developer_full_access", floor |-> "write",
          rules |-> <<>>, rollback |-> FALSE, off |-> {}, confirm |-> FALSE,
          bulk |-> 0, max |-> 1, plan |-> p1, token |-> NoToken, audit |-> "always"]

Publish == [Write EXCEPT !.floor = "publish", !.confirm = TRUE, !.token = t1]

Rule(risk, key) == [to |-> risk, key |-> key]

\* Calls that compete for the tokens.
TokenRequests ==
  {Publish,
   [Publish EXCEPT !.plan = p2],
   [Publish EXCEPT !.confirm = FALSE],
   [Publish EXCEPT !.bulk = 2],
   [Write EXCEPT !.bulk = 2, !.token = t2, !.audit = "mutations_only"]}

\* Calls that are decided without a token, and one that is sent without it.
PolicyRequests ==
  {Write,
   [Write EXCEPT !.gate = "scope"],
   [Write EXCEPT !.floor = "read", !.audit = "mutations_only"],
   [Write EXCEPT !.profile = "read_only"],
   [Write EXCEPT !.profile = "production_safe", !.floor = "destructive"],
   [Publish EXCEPT !.profile = "production_safe", !.floor = "critical"],
   [Publish EXCEPT !.profile = "production_safe", !.floor = "critical", !.rollback = TRUE],
   [Write EXCEPT !.rules = <<Rule("critical", NoKey), Rule("bulk", "k")>>],
   [Publish EXCEPT !.rules = <<Rule("critical", NoKey), Rule("bulk", "k")>>],
   [Write EXCEPT !.rules = <<Rule("destructive", "k")>>, !.off = {"k"}, !.confirm = TRUE],
   [Write EXCEPT !.floor = "destructive", !.confirm = TRUE],
   [Publish EXCEPT !.token = NoToken]}

\* Requests of all kinds; mix says which of them a behaviour is about.
AllRequests == TokenRequests \cup PolicyRequests

VARIABLE mix

PipelineNext ==
  /\ Next /\ UNCHANGED mix
  /\ mix = "tokens" => \A c \in Call : req'[c] \in TokenRequests \cup {NoRequest}
  /\ mix = "policy" => \A c \in Call \ {c1} : req'[c] = NoRequest

ExecutionInit ==
  /\ mix \in {"tokens", "policy", "bulk"} /\ Init /\ BulkInit
ExecutionNext ==
  \/ mix # "bulk" /\ PipelineNext /\ UNCHANGED bulkVars
  \/ mix = "bulk" /\ BulkNext /\ UNCHANGED <<vars, mix>>
ExecutionSpec == ExecutionInit /\ [][ExecutionNext]_<<vars, bulkVars, mix>>
=============================================================================
