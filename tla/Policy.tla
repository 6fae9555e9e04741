------------------------------- MODULE Policy -------------------------------
(***************************************************************************)
(* The policy engine (packages/policy-engine): which tool calls may run,   *)
(* as pure operators over a request record.  evaluate() asks a fixed list  *)
(* of questions and reports the first that fails; the last questions, the  *)
(* approval token and the bulk threshold, are the only ones that change    *)
(* state (they consume a token), so they are left to the caller and        *)
(* NeedsToken says when they arise.                                        *)
(*                                                                         *)
(* A request r has the fields                                              *)
(*   gate      what the checks before the risk gate find: "open", or the   *)
(*             name of the first of them that fails                        *)
(*   profile   the credential's safety profile                             *)
(*   floor     the risk class the tool declares                            *)
(*   rules     the escalation rules whose input paths are present, in the  *)
(*             tool's order, each a record [to, key]                       *)
(*   rollback  whether the tool is commerce.rollback.execute               *)
(*   off       the custom policy keys the credential sets to false         *)
(*   confirm   whether the input carries confirm: true                     *)
(*   bulk, max the resources the input names and the policy's threshold    *)
(***************************************************************************)
EXTENDS Naturals, Sequences

RiskOrder == [read |-> 0, write |-> 1, theme_write |-> 2, bulk |-> 3,
              commerce_sensitive |-> 4, destructive |-> 5, publish |-> 6,
              critical |-> 7]

Risk == DOMAIN RiskOrder

\* The early returns that come before the risk gate, in the order the code
\* makes them: two in executeTool, the rest in evaluate.
EarlyGate == {"unknown_tool", "invalid_input", "entitlement", "scope",
              "platform", "capability", "disabled"}

ProfileMaxRisk == [read_only |-> RiskOrder.read,
                   production_safe |-> RiskOrder.bulk,
                   developer_full_access |-> RiskOrder.critical,
                   admin |-> RiskOrder.critical]

Profile == DOMAIN ProfileMaxRisk

NoKey == "none"

\* Escalation: the declared risk is a floor.  A matching rule that raises the
\* risk replaces the policy key, one that equals it names a key only if none is
\* named yet.
LastRuleWins(acc, rule) == rule   \* fault: a later, milder rule lowers the risk

EscalationStep(acc, rule) ==
  IF RiskOrder[rule.to] > RiskOrder[acc.to]
  THEN rule
  ELSE IF RiskOrder[rule.to] = RiskOrder[acc.to] /\ acc.key = NoKey
       THEN [acc EXCEPT !.key = rule.key]
       ELSE acc

Escalate(floor, rules) ==
  LET after[n \in 0 .. Len(rules)] ==
        IF n = 0 THEN [to |-> floor, key |-> NoKey]
                 ELSE EscalationStep(after[n - 1], rules[n])
  IN  after[Len(rules)]

EffectiveRisk(r) == Escalate(r.floor, r.rules).to

RiskAllowed(profile, risk, rollback) ==
  IF profile = "production_safe" /\ risk = "critical"
  THEN rollback
  ELSE RiskOrder[risk] <= ProfileMaxRisk[profile]

RequiresConfirm(profile, risk, rollback) ==
  \/ profile = "production_safe" /\ risk = "critical" /\ rollback
  \/ /\ profile \in {"developer_full_access", "admin"}
     /\ risk \in {"destructive", "publish", "critical"}

RequiresApprovalToken(profile, risk) ==
  /\ profile \in {"developer_full_access", "admin"}
  /\ risk \in {"publish", "critical"}

CustomKeyDenies(r) ==
  \/ Escalate(r.floor, r.rules).key \in r.off
  \/ EffectiveRisk(r) = "publish" /\ "theme.publish" \in r.off
  \/ EffectiveRisk(r) = "destructive" /\ "delete" \in r.off

\* Every question that is decided without touching the approvals table.
Cleared(r) ==
  /\ r.gate = "open"
  /\ RiskAllowed(r.profile, EffectiveRisk(r), r.rollback)
  /\ ~CustomKeyDenies(r)
  /\ RequiresConfirm(r.profile, EffectiveRisk(r), r.rollback) => r.confirm

\* A token is asked for by the risk class or by the size of a bulk change; one
\* token answers both.
NeedsToken(r) ==
  \/ RequiresApprovalToken(r.profile, EffectiveRisk(r))
  \/ r.bulk > r.max
=============================================================================
