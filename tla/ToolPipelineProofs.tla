------------------------- MODULE ToolPipelineProofs -------------------------
(***************************************************************************)
(* Theorems about ToolPipeline, for any sets of calls, tokens, plans and   *)
(* requests and any number of crashes, and about WorkingTheme, for any     *)
(* callers, themes, files, merchants and faults.                           *)
(***************************************************************************)
EXTENDS ToolPipeline, WorkingTheme, FiniteSetTheorems, TLAPS

-----------------------------------------------------------------------------
(* The policy, for any rules *)

\* A non-empty set of finite sets has a least one.
LEMMA LeastSet ==
  ASSUME NEW S, NEW T \in SUBSET FiniteSubsetsOf(S), T # {}
  PROVE  \E x \in T : \A y \in T : y \subseteq x => y = x
<1> DEFINE R == StrictSubsetOrdering(S)
<1>1. IsWellFoundedOn(R, FiniteSubsetsOf(S))
  BY FS_StrictSubsetOrderingWellFounded
<1>2. T \subseteq FiniteSubsetsOf(S) /\ FiniteSubsetsOf(S) \subseteq SUBSET S
  BY DEF FiniteSubsetsOf
<1>3. PICK x \in T : \A y \in T : ~(<<y, x>> \in R)
  <2> HIDE DEF R
  <2> QED BY <1>1, <1>2, WFMin
<1>4. ASSUME NEW y \in T, y \subseteq x, y # x PROVE FALSE
  <2>1. <<y, x>> \in R
    BY <1>2, <1>4 DEF StrictSubsetOrdering
  <2> QED BY <2>1, <1>3
<1> QED BY <1>3, <1>4

\* A non-empty set of numbers has a least one: what induction rests on here.
LEMMA LeastNat ==
  ASSUME NEW T \in SUBSET Nat, NEW z \in T
  PROVE  \E x \in T : \A y \in T : x <= y
<1>1. PICK U : U = {0 .. n : n \in T}
  OBVIOUS
<1>2. \A n \in T : IsFiniteSet(0 .. n)
  BY FS_Interval
<1>3. U \in SUBSET FiniteSubsetsOf(Nat)
  BY <1>1, <1>2 DEF FiniteSubsetsOf
<1>a. U # {}
  BY <1>1
<1>5. PICK x \in U : \A y \in U : y \subseteq x => y = x
  BY <1>3, <1>a, LeastSet
<1>6. PICK n \in T : x = 0 .. n
  BY <1>1
<1>7. ASSUME NEW m \in T, m < n PROVE FALSE
  <2>1. 0 .. m \subseteq 0 .. n
    BY <1>7
  <2>2. n \in 0 .. n /\ n \notin 0 .. m
    BY <1>7
  <2>3. 0 .. m \in U
    BY <1>1
  <2> QED BY <2>1, <2>2, <2>3, <1>5, <1>6
<1> QED BY <1>7

\* f is what the first k rules make of a risk and of its key.
Steps(f, floor, rules, k) ==
  /\ f = [n \in 0 .. k |-> f[n]]
  /\ f[0] = [to |-> floor, key |-> NoKey]
  /\ \A n \in 1 .. k : f[n] = EscalationStep(f[n - 1], rules[n])

\* There are such steps, whatever the rules are.
LEMMA EscalationExists ==
  ASSUME NEW floor, NEW rules, NEW k \in Nat
  PROVE  \E f : Steps(f, floor, rules, k)
<1>1. PICK T : T = {m \in Nat : ~ \E f : Steps(f, floor, rules, m)}
  OBVIOUS
<1>2. CASE T = {}
  BY <1>1, <1>2
<1>3. CASE T # {}
  <2>1. PICK m \in T : \A y \in T : m <= y
    <3>1. T \in SUBSET Nat BY <1>1
    <3> QED BY <1>3, <3>1, LeastNat
  <2>2. m \in Nat /\ ~ \E f : Steps(f, floor, rules, m)
    BY <1>1
  <2>3. CASE m = 0
    <3>1. PICK f : f = [n \in 0 .. 0 |-> [to |-> floor, key |-> NoKey]]
      OBVIOUS
    <3>2. Steps(f, floor, rules, 0)
      BY <3>1 DEF Steps
    <3> QED BY <2>2, <2>3, <3>2
  <2>4. CASE m # 0
    <3>1. m - 1 \in Nat /\ m - 1 \notin T
      BY <2>1, <2>2, <2>4
    <3>2. PICK f : Steps(f, floor, rules, m - 1)
      BY <3>1, <1>1
    <3>3. PICK g : g = [n \in 0 .. m |-> IF n < m THEN f[n] ELSE EscalationStep(f[m - 1], rules[m])]
      OBVIOUS
    <3>4. \A n \in 1 .. m : g[n] = EscalationStep(g[n - 1], rules[n])
      <4> TAKE n \in 1 .. m
      <4>1. g[n - 1] = f[n - 1]
        BY <3>3, <2>2
      <4>2. CASE n < m
        <5>1. n \in 1 .. m - 1 /\ g[n] = f[n]
          BY <4>2, <2>2, <3>3
        <5> QED BY <4>1, <3>2, <5>1 DEF Steps
      <4>3. CASE n = m
        BY <4>1, <4>3, <3>3, <2>2
      <4> QED BY <4>2, <4>3, <2>2
    <3>5. g = [n \in 0 .. m |-> g[n]] /\ g[0] = f[0]
      BY <3>3, <2>2, <2>4
    <3>6. Steps(g, floor, rules, m)
      BY <3>2, <3>4, <3>5 DEF Steps
    <3> QED BY <2>2, <3>6
  <2> QED BY <2>3, <2>4
<1> QED BY <1>2, <1>3

\* escalate takes the steps.
LEMMA EscalationSteps ==
  ASSUME NEW floor, NEW rules, Len(rules) \in Nat
  PROVE  \E f : Steps(f, floor, rules, Len(rules)) /\ Escalate(floor, rules) = f[Len(rules)]
<1>0. PICK f : Steps(f, floor, rules, Len(rules))
  BY EscalationExists
<1> DEFINE Whole(w) == w = [n \in 0 .. Len(rules) |-> IF n = 0 THEN [to |-> floor, key |-> NoKey]
                                                     ELSE EscalationStep(w[n - 1], rules[n])]
<1> DEFINE after == CHOOSE w : Whole(w)
<1>1. \E w : Whole(w)
  <2>2. f = [n \in 0 .. Len(rules) |-> IF n = 0 THEN [to |-> floor, key |-> NoKey]
                                       ELSE EscalationStep(f[n - 1], rules[n])]
    <3>1. f = [n \in 0 .. Len(rules) |-> f[n]]
      BY <1>0 DEF Steps
    <3>2. \A n \in 0 .. Len(rules) : f[n] = IF n = 0 THEN [to |-> floor, key |-> NoKey]
                                              ELSE EscalationStep(f[n - 1], rules[n])
      BY <1>0 DEF Steps
    <3> QED BY <3>1, <3>2, Zenon
  <2> QED BY <2>2
<1>2. Whole(after)
  <2> HIDE DEF Whole
  <2> QED BY <1>1
<1>3. Escalate(floor, rules) = after[Len(rules)]
  BY DEF Escalate
<1>4. Steps(after, floor, rules, Len(rules))
  <2> HIDE DEF after
  <2>1. after = [n \in 0 .. Len(rules) |-> after[n]]
    BY <1>2
  <2> QED BY <1>2, <2>1 DEF Steps
<1> QED BY <1>3, <1>4

\* What the code compares risks by.
LEMMA RiskFacts ==
  /\ Risk = {"read", "write", "theme_write", "bulk", "commerce_sensitive", "destructive", "publish",
             "critical"}
  /\ RiskOrder["read"] = 0 /\ RiskOrder["write"] = 1 /\ RiskOrder["theme_write"] = 2
  /\ RiskOrder["bulk"] = 3 /\ RiskOrder["commerce_sensitive"] = 4 /\ RiskOrder["destructive"] = 5
  /\ RiskOrder["publish"] = 6 /\ RiskOrder["critical"] = 7
  BY DEF Risk, RiskOrder

\* Risks are ordered, and no two have one place.
LEMMA RiskIsOrdered ==
  /\ \A a \in Risk : RiskOrder[a] \in 0 .. 7
  /\ \A a, b \in Risk : RiskOrder[a] = RiskOrder[b] => a = b
  BY RiskFacts

\* The rules of a request, and what they add up to.
RuleType == [to : Risk, key : STRING]
TotalType == [to : Risk, key : STRING \cup {NoKey}]

\* escalate finds the highest risk of all: none of its steps lowers it, and it is the declared one
\* or that of a rule.
LEMMA EscalationIsHighest ==
  ASSUME NEW floor \in Risk, NEW rules \in Seq(RuleType)
  PROVE  LET risk == Escalate(floor, rules).to IN
         /\ risk \in {floor} \cup {rules[i].to : i \in DOMAIN rules}
         /\ \A k \in {floor} \cup {rules[i].to : i \in DOMAIN rules} : RiskOrder[k] <= RiskOrder[risk]
<1>1. PICK L \in Nat : L = Len(rules) /\ DOMAIN rules = 1 .. L /\ \A i \in 1 .. L : rules[i] \in RuleType
  OBVIOUS
<1>2. PICK f : Steps(f, floor, rules, L) /\ Escalate(floor, rules) = f[L]
  BY <1>1, EscalationSteps
<1> DEFINE Good(n) ==
      /\ f[n] \in TotalType
      /\ f[n].to = floor \/ \E i \in 1 .. n : f[n].to = rules[i].to
      /\ RiskOrder[floor] <= RiskOrder[f[n].to]
      /\ \A i \in 1 .. n : RiskOrder[rules[i].to] <= RiskOrder[f[n].to]
<1>3. Good(0)
  <2>1. f[0] = [to |-> floor, key |-> NoKey]
    BY <1>2 DEF Steps
  <2> QED BY <2>1, RiskIsOrdered DEF TotalType
<1>4. ASSUME NEW n \in 1 .. L, Good(n - 1) PROVE Good(n)
  <2>1. PICK a, b : /\ a = f[n - 1] /\ b = rules[n]
                    /\ f[n] = EscalationStep(a, b) /\ a \in TotalType /\ b \in RuleType
    BY <1>1, <1>2, <1>4 DEF Steps
  <2>2. /\ f[n] \in TotalType /\ f[n].to \in {a.to, b.to}
        /\ RiskOrder[a.to] <= RiskOrder[f[n].to] /\ RiskOrder[b.to] <= RiskOrder[f[n].to]
    <3>1. PICK x, y \in 0 .. 7 : x = RiskOrder[a.to] /\ y = RiskOrder[b.to]
      BY <2>1, RiskIsOrdered DEF RuleType, TotalType
    <3>2. CASE y > x
      <4>1. f[n] = b
        BY <2>1, <3>1, <3>2 DEF EscalationStep
      <4>2. b.to \in Risk /\ b.key \in STRING /\ b = [to |-> b.to, key |-> b.key]
        BY <2>1 DEF RuleType
      <4>3. b \in TotalType
        BY <4>2 DEF TotalType
      <4> QED BY <4>1, <4>3, <3>1, <3>2
    <3>3. CASE ~(y > x)
      <4>1. f[n] = a \/ f[n] = [a EXCEPT !.key = b.key]
        BY <2>1, <3>1, <3>3 DEF EscalationStep
      <4>2. f[n] \in TotalType /\ f[n].to = a.to
        BY <4>1, <2>1 DEF RuleType, TotalType
      <4> QED BY <4>2, <3>1, <3>3
    <3> QED BY <3>2, <3>3
  <2>3. f[n].to = floor \/ \E i \in 1 .. n : f[n].to = rules[i].to
    BY <2>1, <2>2, <1>4
  <2>4. PICK x, y, z \in 0 .. 7 : x = RiskOrder[floor] /\ y = RiskOrder[a.to] /\ z = RiskOrder[f[n].to]
    BY <2>1, <2>2, RiskIsOrdered DEF RuleType, TotalType
  <2>5. RiskOrder[floor] <= RiskOrder[f[n].to]
    <3>1. RiskOrder[floor] <= RiskOrder[a.to]
      BY <2>1, <1>4
    <3> QED BY <2>2, <2>4, <3>1
  <2>6. ASSUME NEW i \in 1 .. n PROVE RiskOrder[rules[i].to] <= RiskOrder[f[n].to]
    <3>1. CASE i = n
      BY <3>1, <2>1, <2>2
    <3>2. CASE i # n
      <4>1. i \in 1 .. n - 1 /\ i \in 1 .. L
        BY <3>2
      <4>2. PICK w \in 0 .. 7 : w = RiskOrder[rules[i].to]
        BY <4>1, <1>1, RiskIsOrdered DEF RuleType, TotalType
      <4> QED BY SMTT(40), <4>1, <4>2, <2>1, <2>2, <2>4, <1>4
    <3> QED BY <3>1, <3>2
  <2> QED BY <2>2, <2>3, <2>5, <2>6
<1>5. \A n \in 0 .. L : Good(n)
  <2>1. PICK T : T = {n \in 0 .. L : ~Good(n)}
    OBVIOUS
  <2>2. ASSUME NEW z \in T PROVE FALSE
    <3> HIDE DEF Good
    <3>1. T \in SUBSET Nat
      BY <2>1
    <3>2. PICK m \in T : \A y \in T : m <= y
      BY <3>1, LeastNat
    <3>3. m \in 1 .. L /\ m - 1 \in 0 .. L /\ m - 1 \notin T
      BY <2>1, <3>2, <1>3
    <3> QED BY <2>1, <3>2, <3>3, <1>4
  <2> QED BY <2>1, <2>2
<1>6. Good(L)
  BY <1>5
<1>7. Escalate(floor, rules).to = f[L].to
  BY <1>2
<1> QED BY <1>1, <1>6, <1>7

\* The policy clears no request beyond its profile, once it has the token it needs: the risk of
\* evaluate is the highest that any rule demands.
LEMMA ClearedKeepsContract ==
  ASSUME NEW r \in Request, Cleared(r), NEW granted \in BOOLEAN, NeedsToken(r) => granted
  PROVE  LET risk == DemandedRisk(r) IN
         /\ r.profile = "read_only" => risk = "read"
         /\ r.profile = "production_safe" =>
              \/ risk \in {"read", "write", "theme_write", "bulk"}
              \/ risk = "critical" /\ r.rollback /\ r.confirm
         /\ r.profile \in {"developer_full_access", "admin"} =>
              /\ risk \in {"destructive", "publish", "critical"} => r.confirm
              /\ risk \in {"publish", "critical"} => granted
         /\ r.bulk > r.max => granted
<1>1. r.floor \in Risk /\ r.rules \in Seq(RuleType)
  BY RequestsAssumption DEF RuleType
<1>2. PICK all : all = {r.floor} \cup {r.rules[i].to : i \in DOMAIN r.rules}
  OBVIOUS
<1>3. PICK risk : risk = EffectiveRisk(r)
  OBVIOUS
<1>4. risk \in all /\ \A k \in all : RiskOrder[k] <= RiskOrder[risk]
  BY <1>1, <1>2, <1>3, EscalationIsHighest DEF EffectiveRisk
<1>5. all \subseteq Risk
  <2>1. PICK rules : rules = r.rules /\ rules \in Seq(RuleType)
    BY <1>1
  <2>2. \A i \in DOMAIN rules : rules[i] \in RuleType
    BY <2>1
  <2> QED BY <1>1, <1>2, <2>1, <2>2 DEF RuleType
<1>6. ASSUME NEW k \in all, \A m \in all : RiskOrder[m] <= RiskOrder[k] PROVE k = risk
  <2>1. RiskOrder[k] \in 0 .. 7 /\ RiskOrder[risk] \in 0 .. 7
    BY <1>4, <1>5, RiskIsOrdered
  <2>2. RiskOrder[k] = RiskOrder[risk]
    BY <2>1, <1>4, <1>6
  <2> QED BY <2>2, <1>4, <1>5, RiskIsOrdered
<1>7. DemandedRisk(r) = risk
  <2>1. DemandedRisk(r) = CHOOSE k \in all : \A m \in all : RiskOrder[m] <= RiskOrder[k]
    BY <1>2 DEF DemandedRisk
  <2> QED BY <2>1, <1>4, <1>6
<1>8. /\ RiskAllowed(r.profile, risk, r.rollback)
      /\ RequiresConfirm(r.profile, risk, r.rollback) => r.confirm
      /\ RequiresApprovalToken(r.profile, risk) => granted
      /\ r.bulk > r.max => granted
  BY <1>3 DEF Cleared, NeedsToken
<1>9. risk \in Risk
  BY <1>4, <1>5
<1>10. /\ r.profile = "read_only" => risk = "read"
       /\ r.profile = "production_safe" =>
            \/ risk \in {"read", "write", "theme_write", "bulk"}
            \/ risk = "critical" /\ r.rollback /\ r.confirm
  BY <1>8, <1>9, RiskFacts DEF RiskAllowed, ProfileMaxRisk, RequiresConfirm
<1>11. r.profile \in {"developer_full_access", "admin"} =>
         /\ risk \in {"destructive", "publish", "critical"} => r.confirm
         /\ risk \in {"publish", "critical"} => granted
  BY <1>8 DEF RequiresConfirm, RequiresApprovalToken
<1> QED BY <1>7, <1>8, <1>10, <1>11

-----------------------------------------------------------------------------
(* The calls *)

\* What ties a call's place to its request, its token and its ledger row.
CallInv(c) ==
  /\ pc[c] # "idle" => req[c] \in Request
  /\ pc[c] \in {"idle", "policy", "consume"} =>
       grant[c] = NoToken /\ handler[c] = "off" /\ ~effect[c] /\ op[c] = "none"
  /\ pc[c] \in {"idle", "policy", "consume", "allowed", "begun", "handler"} =>
       result[c] = "none" /\ answer[c] = "none"
  /\ pc[c] \in {"allowed", "begun"} => handler[c] = "off" /\ ~effect[c]
  /\ pc[c] = "allowed" => op[c] = "none"
  /\ pc[c] = "consume" =>
       /\ req[c].token \in Token
       /\ plan[req[c].token] = req[c].plan
  /\ grant[c] # NoToken => plan[grant[c]] = req[c].plan /\ consumed[grant[c]]
  /\ pc[c] \in {"consume", "allowed", "begun", "handler", "finish"} \/ handler[c] # "off" \/ effect[c] =>
       Cleared(req[c])

\* A call that got past the policy holds the token it needs, and once it began its
\* row is there and tells of the token.
RowInv(c) ==
  /\ pc[c] \in {"allowed", "begun", "handler", "finish"} \/ handler[c] # "off" \/ effect[c] =>
       (NeedsToken(req[c]) => grant[c] # NoToken)
  /\ pc[c] \in {"begun", "handler", "finish"} \/ handler[c] # "off" \/ effect[c] =>
       (Audited(req[c]) => op[c] # "none")
  /\ effect[c] => req[c].floor # "read"
  /\ op[c] # "none" => opApproved[c] = (grant[c] # NoToken)

\* The outcome, from the handler through the ledger to the caller.
OutcomeInv(c) ==
  /\ result[c] = "ok" => handler[c] = "ok"
  /\ result[c] = "failed" => handler[c] = "failed"
  /\ pc[c] = "lost" => crashes > 0
  /\ op[c] = "pending" => pc[c] \in {"begun", "handler", "finish", "lost"}
  /\ pc[c] = "begun" \/ pc[c] = "handler" => op[c] \in {"none", "pending"}
  /\ op[c] = "succeeded" => result[c] = "ok"
  /\ op[c] = "failed" => result[c] \in {"failed", "timeout"}
  /\ answer[c] = "ok" => result[c] = "ok"
  /\ answer[c] = "failed" => result[c] # "ok"
  /\ answer[c] # "none" => pc[c] = "done"
  /\ answer[c] \in {"ok", "failed"} => op[c] # "pending" /\ (Audited(req[c]) => op[c] # "none")
  /\ pc[c] = "handler" => handler[c] # "off"
  /\ pc[c] = "finish" => result[c] \in Settled

\* The inductive invariant: the safety properties of the tokens, and for each call
\* what its place says of its request, its row and its outcome.
IInv ==
  /\ TypeOK
  /\ OneCallPerToken
  /\ NoApprovalWasted
  /\ \A c \in Call : CallInv(c)
  /\ \A c \in Call : RowInv(c)
  /\ \A c \in Call : OutcomeInv(c)
-----------------------------------------------------------------------------
\* Before any call arrives the invariant holds: no token, no row, no answer.
LEMMA InitInv == Init => IInv
  BY ConstantsAssumption DEF Init, IInv, TypeOK, OneCallPerToken, NoApprovalWasted,
     CallInv, RowInv, OutcomeInv,
     Place, Settled

\* Every step keeps every variable in its type.
LEMMA TypeStep ==
  ASSUME TypeOK, \A c \in Call : CallInv(c), [Next]_vars
  PROVE  TypeOK'
<1>. USE ConstantsAssumption DEF TypeOK, Place, Settled
<1>1. ASSUME NEW t \in Token, NEW p \in Plan, Issue(t, p) PROVE TypeOK'
  BY <1>1 DEF Issue, vars, approvals, caller, run, ledger
<1>2. CASE Tick
  BY <1>2 DEF Tick, vars, approvals, caller, run, ledger
<1>3. ASSUME NEW c \in Call, NEW r \in Request, Receive(c, r) PROVE TypeOK'
  BY <1>3 DEF Receive, Goto, vars, approvals, caller, run, ledger
<1>4. ASSUME NEW c \in Call, Refuse(c) PROVE TypeOK'
  BY <1>4 DEF Refuse, Goto, Refused, vars, approvals, caller, run, ledger
<1>5. ASSUME NEW c \in Call, AllowWithoutToken(c) PROVE TypeOK'
  BY <1>5 DEF AllowWithoutToken, Goto, vars, approvals, caller, run, ledger
<1>6. ASSUME NEW c \in Call, SelectApproval(c) PROVE TypeOK'
  BY <1>6 DEF SelectApproval, Goto, RowUsable, vars, approvals, caller, run, ledger
<1>7. ASSUME NEW c \in Call, SelectRejects(c) PROVE TypeOK'
  BY <1>7 DEF SelectRejects, Goto, Refused, vars, approvals, caller, run, ledger
<1>8. ASSUME NEW c \in Call, ConsumeApproval(c) PROVE TypeOK'
  BY <1>8 DEF CallInv, ConsumeApproval, Goto, UpdateMatches, vars, approvals, caller, run, ledger
<1>9. ASSUME NEW c \in Call, ConsumeRejects(c) PROVE TypeOK'
  BY <1>9 DEF ConsumeRejects, Goto, UpdateMatches, Refused, vars, approvals, caller, run, ledger
<1>10. ASSUME NEW c \in Call, Begin(c) PROVE TypeOK'
  BY <1>10 DEF Begin, Goto, vars, approvals, caller, run, ledger
<1>11. ASSUME NEW c \in Call, StartHandler(c) PROVE TypeOK'
  BY <1>11 DEF StartHandler, Goto, vars, approvals, caller, run, ledger
<1>12. ASSUME NEW c \in Call, Settle(c) PROVE TypeOK'
  BY <1>12 DEF Settle, Goto, vars, approvals, caller, run, ledger
<1>13. ASSUME NEW c \in Call, TimeOut(c) PROVE TypeOK'
  BY <1>13 DEF TimeOut, Goto, vars, approvals, caller, run, ledger
<1>14. ASSUME NEW c \in Call, FinishLedger(c) PROVE TypeOK'
  BY <1>14 DEF FinishLedger, StatusOf, vars, approvals, caller, run, ledger
<1>15. ASSUME NEW c \in Call, Answer(c) PROVE TypeOK'
  BY <1>15 DEF Answer, Goto, vars, approvals, caller, run, ledger
<1>16. ASSUME NEW c \in Call, HandlerWrites(c) PROVE TypeOK'
  BY <1>16 DEF HandlerWrites, vars, approvals, caller, run, ledger
<1>17. ASSUME NEW c \in Call, NEW how \in {"ok", "failed"}, HandlerEnds(c, how) PROVE TypeOK'
  BY <1>17 DEF HandlerEnds, vars, approvals, caller, run, ledger
<1>18. CASE Crash
  BY <1>18 DEF Crash, vars, approvals, caller, run, ledger
<1>19. CASE UNCHANGED vars
  BY <1>19 DEF vars, approvals, caller, run, ledger
<1>. QED
  BY <1>1, <1>2, <1>3, <1>4, <1>5, <1>6, <1>7, <1>8, <1>9, <1>10,
     <1>11, <1>12, <1>13, <1>14, <1>15, <1>16, <1>17, <1>18, <1>19 DEF Next, Step

\* Every step keeps each call's place in line with its request, token and row.
LEMMA CallStep ==
  ASSUME TypeOK, \A c \in Call : CallInv(c), [Next]_vars, NEW d \in Call
  PROVE  CallInv(d)'
<1>. USE ConstantsAssumption DEF TypeOK, Place, Settled
<1>1. ASSUME NEW t \in Token, NEW p \in Plan, Issue(t, p) PROVE CallInv(d)'
  BY <1>1 DEF Issue, vars, approvals, caller, run, ledger, CallInv
<1>2. CASE Tick
  BY <1>2 DEF Tick, vars, approvals, caller, run, ledger, CallInv
<1>3. ASSUME NEW c \in Call, NEW r \in Request, Receive(c, r) PROVE CallInv(d)'
  BY <1>3 DEF Receive, Goto, vars, approvals, caller, run, ledger, CallInv
<1>4. ASSUME NEW c \in Call, Refuse(c) PROVE CallInv(d)'
  BY <1>4 DEF Refuse, Goto, Refused, vars, approvals, caller, run, ledger, CallInv
<1>5. ASSUME NEW c \in Call, AllowWithoutToken(c) PROVE CallInv(d)'
  BY <1>5 DEF AllowWithoutToken, Goto, vars, approvals, caller, run, ledger, CallInv
<1>6. ASSUME NEW c \in Call, SelectApproval(c) PROVE CallInv(d)'
  BY <1>6 DEF SelectApproval, Goto, RowUsable, vars, approvals, caller, run, ledger, CallInv
<1>7. ASSUME NEW c \in Call, SelectRejects(c) PROVE CallInv(d)'
  BY <1>7 DEF SelectRejects, Goto, Refused, vars, approvals, caller, run, ledger, CallInv
<1>8. ASSUME NEW c \in Call, ConsumeApproval(c) PROVE CallInv(d)'
  BY <1>8 DEF ConsumeApproval, Goto, UpdateMatches, vars, approvals, caller, run, ledger, CallInv
<1>9. ASSUME NEW c \in Call, ConsumeRejects(c) PROVE CallInv(d)'
  BY <1>9 DEF ConsumeRejects, Goto, UpdateMatches, Refused, vars, approvals, caller, run, ledger, CallInv
<1>10. ASSUME NEW c \in Call, Begin(c) PROVE CallInv(d)'
  BY <1>10 DEF Begin, Goto, vars, approvals, caller, run, ledger, CallInv
<1>11. ASSUME NEW c \in Call, StartHandler(c) PROVE CallInv(d)'
  BY <1>11 DEF StartHandler, Goto, vars, approvals, caller, run, ledger, CallInv
<1>12. ASSUME NEW c \in Call, Settle(c) PROVE CallInv(d)'
  BY <1>12 DEF Settle, Goto, vars, approvals, caller, run, ledger, CallInv
<1>13. ASSUME NEW c \in Call, TimeOut(c) PROVE CallInv(d)'
  BY <1>13 DEF TimeOut, Goto, vars, approvals, caller, run, ledger, CallInv
<1>14. ASSUME NEW c \in Call, FinishLedger(c) PROVE CallInv(d)'
  BY <1>14 DEF FinishLedger, StatusOf, vars, approvals, caller, run, ledger, CallInv
<1>15. ASSUME NEW c \in Call, Answer(c) PROVE CallInv(d)'
  BY <1>15 DEF Answer, Goto, vars, approvals, caller, run, ledger, CallInv
<1>16. ASSUME NEW c \in Call, HandlerWrites(c) PROVE CallInv(d)'
  BY <1>16 DEF HandlerWrites, vars, approvals, caller, run, ledger, CallInv
<1>17. ASSUME NEW c \in Call, NEW how \in {"ok", "failed"}, HandlerEnds(c, how) PROVE CallInv(d)'
  BY <1>17 DEF HandlerEnds, vars, approvals, caller, run, ledger, CallInv
<1>18. CASE Crash
  BY <1>18 DEF Crash, vars, approvals, caller, run, ledger, CallInv
<1>19. CASE UNCHANGED vars
  BY <1>19 DEF vars, approvals, caller, run, ledger, CallInv
<1>. QED
  BY <1>1, <1>2, <1>3, <1>4, <1>5, <1>6, <1>7, <1>8, <1>9, <1>10,
     <1>11, <1>12, <1>13, <1>14, <1>15, <1>16, <1>17, <1>18, <1>19 DEF Next, Step

\* No step gives a token to a second call: the one it gives was not consumed.
LEMMA TokenStep ==
  ASSUME TypeOK, \A c \in Call : CallInv(c), OneCallPerToken, [Next]_vars
  PROVE  OneCallPerToken'
<1>. USE ConstantsAssumption DEF TypeOK, Place, Settled, CallInv
<1>1. ASSUME NEW t \in Token, NEW p \in Plan, Issue(t, p) PROVE OneCallPerToken'
  BY <1>1 DEF Issue, vars, approvals, caller, run, ledger, OneCallPerToken
<1>2. CASE Tick
  BY <1>2 DEF Tick, vars, approvals, caller, run, ledger, OneCallPerToken
<1>3. ASSUME NEW c \in Call, NEW r \in Request, Receive(c, r) PROVE OneCallPerToken'
  BY <1>3 DEF Receive, Goto, vars, approvals, caller, run, ledger, OneCallPerToken
<1>4. ASSUME NEW c \in Call, Refuse(c) PROVE OneCallPerToken'
  BY <1>4 DEF Refuse, Goto, Refused, vars, approvals, caller, run, ledger, OneCallPerToken
<1>5. ASSUME NEW c \in Call, AllowWithoutToken(c) PROVE OneCallPerToken'
  BY <1>5 DEF AllowWithoutToken, Goto, vars, approvals, caller, run, ledger, OneCallPerToken
<1>6. ASSUME NEW c \in Call, SelectApproval(c) PROVE OneCallPerToken'
  BY <1>6 DEF SelectApproval, Goto, RowUsable, vars, approvals, caller, run, ledger, OneCallPerToken
<1>7. ASSUME NEW c \in Call, SelectRejects(c) PROVE OneCallPerToken'
  BY <1>7 DEF SelectRejects, Goto, Refused, vars, approvals, caller, run, ledger, OneCallPerToken
<1>8. ASSUME NEW c \in Call, ConsumeApproval(c) PROVE OneCallPerToken'
  BY <1>8 DEF ConsumeApproval, Goto, UpdateMatches, vars, approvals, caller, run, ledger, OneCallPerToken
<1>9. ASSUME NEW c \in Call, ConsumeRejects(c) PROVE OneCallPerToken'
  BY <1>9 DEF ConsumeRejects, Goto, UpdateMatches, Refused, vars, approvals, caller, run, ledger, OneCallPerToken
<1>10. ASSUME NEW c \in Call, Begin(c) PROVE OneCallPerToken'
  BY <1>10 DEF Begin, Goto, vars, approvals, caller, run, ledger, OneCallPerToken
<1>11. ASSUME NEW c \in Call, StartHandler(c) PROVE OneCallPerToken'
  BY <1>11 DEF StartHandler, Goto, vars, approvals, caller, run, ledger, OneCallPerToken
<1>12. ASSUME NEW c \in Call, Settle(c) PROVE OneCallPerToken'
  BY <1>12 DEF Settle, Goto, vars, approvals, caller, run, ledger, OneCallPerToken
<1>13. ASSUME NEW c \in Call, TimeOut(c) PROVE OneCallPerToken'
  BY <1>13 DEF TimeOut, Goto, vars, approvals, caller, run, ledger, OneCallPerToken
<1>14. ASSUME NEW c \in Call, FinishLedger(c) PROVE OneCallPerToken'
  BY <1>14 DEF FinishLedger, StatusOf, vars, approvals, caller, run, ledger, OneCallPerToken
<1>15. ASSUME NEW c \in Call, Answer(c) PROVE OneCallPerToken'
  BY <1>15 DEF Answer, Goto, vars, approvals, caller, run, ledger, OneCallPerToken
<1>16. ASSUME NEW c \in Call, HandlerWrites(c) PROVE OneCallPerToken'
  BY <1>16 DEF HandlerWrites, vars, approvals, caller, run, ledger, OneCallPerToken
<1>17. ASSUME NEW c \in Call, NEW how \in {"ok", "failed"}, HandlerEnds(c, how) PROVE OneCallPerToken'
  BY <1>17 DEF HandlerEnds, vars, approvals, caller, run, ledger, OneCallPerToken
<1>18. CASE Crash
  BY <1>18 DEF Crash, vars, approvals, caller, run, ledger, OneCallPerToken
<1>19. CASE UNCHANGED vars
  BY <1>19 DEF vars, approvals, caller, run, ledger, OneCallPerToken
<1>. QED
  BY <1>1, <1>2, <1>3, <1>4, <1>5, <1>6, <1>7, <1>8, <1>9, <1>10,
     <1>11, <1>12, <1>13, <1>14, <1>15, <1>16, <1>17, <1>18, <1>19 DEF Next, Step

\* Every step keeps each call's row in line with its token.
LEMMA RowStep ==
  ASSUME TypeOK, \A c \in Call : CallInv(c) /\ RowInv(c), [Next]_vars, NEW d \in Call
  PROVE  RowInv(d)'
<1>. USE ConstantsAssumption DEF TypeOK, Place, Settled, CallInv
<1>1. ASSUME NEW t \in Token, NEW p \in Plan, Issue(t, p) PROVE RowInv(d)'
  BY <1>1 DEF Issue, vars, approvals, caller, run, ledger, RowInv
<1>2. CASE Tick
  BY <1>2 DEF Tick, vars, approvals, caller, run, ledger, RowInv
<1>3. ASSUME NEW c \in Call, NEW r \in Request, Receive(c, r) PROVE RowInv(d)'
  BY <1>3 DEF Receive, Goto, vars, approvals, caller, run, ledger, RowInv
<1>4. ASSUME NEW c \in Call, Refuse(c) PROVE RowInv(d)'
  BY <1>4 DEF Refuse, Goto, Refused, vars, approvals, caller, run, ledger, RowInv
<1>5. ASSUME NEW c \in Call, AllowWithoutToken(c) PROVE RowInv(d)'
  BY <1>5 DEF AllowWithoutToken, Goto, vars, approvals, caller, run, ledger, RowInv
<1>6. ASSUME NEW c \in Call, SelectApproval(c) PROVE RowInv(d)'
  BY <1>6 DEF SelectApproval, Goto, RowUsable, vars, approvals, caller, run, ledger, RowInv
<1>7. ASSUME NEW c \in Call, SelectRejects(c) PROVE RowInv(d)'
  BY <1>7 DEF SelectRejects, Goto, Refused, vars, approvals, caller, run, ledger, RowInv
<1>8. ASSUME NEW c \in Call, ConsumeApproval(c) PROVE RowInv(d)'
  BY <1>8 DEF ConsumeApproval, Goto, UpdateMatches, vars, approvals, caller, run, ledger, RowInv
<1>9. ASSUME NEW c \in Call, ConsumeRejects(c) PROVE RowInv(d)'
  BY <1>9 DEF ConsumeRejects, Goto, UpdateMatches, Refused, vars, approvals, caller, run, ledger, RowInv
<1>10. ASSUME NEW c \in Call, Begin(c) PROVE RowInv(d)'
  BY <1>10 DEF Begin, Goto, vars, approvals, caller, run, ledger, RowInv
<1>11. ASSUME NEW c \in Call, StartHandler(c) PROVE RowInv(d)'
  BY <1>11 DEF StartHandler, Goto, vars, approvals, caller, run, ledger, RowInv
<1>12. ASSUME NEW c \in Call, Settle(c) PROVE RowInv(d)'
  BY <1>12 DEF Settle, Goto, vars, approvals, caller, run, ledger, RowInv
<1>13. ASSUME NEW c \in Call, TimeOut(c) PROVE RowInv(d)'
  BY <1>13 DEF TimeOut, Goto, vars, approvals, caller, run, ledger, RowInv
<1>14. ASSUME NEW c \in Call, FinishLedger(c) PROVE RowInv(d)'
  BY <1>14 DEF FinishLedger, StatusOf, vars, approvals, caller, run, ledger, RowInv
<1>15. ASSUME NEW c \in Call, Answer(c) PROVE RowInv(d)'
  BY <1>15 DEF Answer, Goto, vars, approvals, caller, run, ledger, RowInv
<1>16. ASSUME NEW c \in Call, HandlerWrites(c) PROVE RowInv(d)'
  BY <1>16 DEF HandlerWrites, vars, approvals, caller, run, ledger, RowInv
<1>17. ASSUME NEW c \in Call, NEW how \in {"ok", "failed"}, HandlerEnds(c, how) PROVE RowInv(d)'
  BY <1>17 DEF HandlerEnds, vars, approvals, caller, run, ledger, RowInv
<1>18. CASE Crash
  BY <1>18 DEF Crash, vars, approvals, caller, run, ledger, RowInv
<1>19. CASE UNCHANGED vars
  BY <1>19 DEF vars, approvals, caller, run, ledger, RowInv
<1>. QED
  BY <1>1, <1>2, <1>3, <1>4, <1>5, <1>6, <1>7, <1>8, <1>9, <1>10,
     <1>11, <1>12, <1>13, <1>14, <1>15, <1>16, <1>17, <1>18, <1>19 DEF Next, Step

\* Every step keeps handler, result, row and answer in agreement.
LEMMA OutcomeStep ==
  ASSUME TypeOK, \A c \in Call : CallInv(c) /\ RowInv(c) /\ OutcomeInv(c), [Next]_vars,
         NEW d \in Call
  PROVE  OutcomeInv(d)'
<1>. USE ConstantsAssumption DEF TypeOK, Place, Settled, CallInv, RowInv
<1>1. ASSUME NEW t \in Token, NEW p \in Plan, Issue(t, p) PROVE OutcomeInv(d)'
  BY <1>1 DEF Issue, vars, approvals, caller, run, ledger, OutcomeInv
<1>2. CASE Tick
  BY <1>2 DEF Tick, vars, approvals, caller, run, ledger, OutcomeInv
<1>3. ASSUME NEW c \in Call, NEW r \in Request, Receive(c, r) PROVE OutcomeInv(d)'
  BY <1>3 DEF Receive, Goto, vars, approvals, caller, run, ledger, OutcomeInv
<1>4. ASSUME NEW c \in Call, Refuse(c) PROVE OutcomeInv(d)'
  BY <1>4 DEF Refuse, Goto, Refused, vars, approvals, caller, run, ledger, OutcomeInv
<1>5. ASSUME NEW c \in Call, AllowWithoutToken(c) PROVE OutcomeInv(d)'
  BY <1>5 DEF AllowWithoutToken, Goto, vars, approvals, caller, run, ledger, OutcomeInv
<1>6. ASSUME NEW c \in Call, SelectApproval(c) PROVE OutcomeInv(d)'
  BY <1>6 DEF SelectApproval, Goto, RowUsable, vars, approvals, caller, run, ledger, OutcomeInv
<1>7. ASSUME NEW c \in Call, SelectRejects(c) PROVE OutcomeInv(d)'
  BY <1>7 DEF SelectRejects, Goto, Refused, vars, approvals, caller, run, ledger, OutcomeInv
<1>8. ASSUME NEW c \in Call, ConsumeApproval(c) PROVE OutcomeInv(d)'
  BY <1>8 DEF ConsumeApproval, Goto, UpdateMatches, vars, approvals, caller, run, ledger, OutcomeInv
<1>9. ASSUME NEW c \in Call, ConsumeRejects(c) PROVE OutcomeInv(d)'
  BY <1>9 DEF ConsumeRejects, Goto, UpdateMatches, Refused, vars, approvals, caller, run, ledger, OutcomeInv
<1>10. ASSUME NEW c \in Call, Begin(c) PROVE OutcomeInv(d)'
  BY <1>10 DEF Begin, Goto, vars, approvals, caller, run, ledger, OutcomeInv
<1>11. ASSUME NEW c \in Call, StartHandler(c) PROVE OutcomeInv(d)'
  BY <1>11 DEF StartHandler, Goto, vars, approvals, caller, run, ledger, OutcomeInv
<1>12. ASSUME NEW c \in Call, Settle(c) PROVE OutcomeInv(d)'
  BY <1>12 DEF Settle, Goto, vars, approvals, caller, run, ledger, OutcomeInv
<1>13. ASSUME NEW c \in Call, TimeOut(c) PROVE OutcomeInv(d)'
  BY <1>13 DEF TimeOut, Goto, vars, approvals, caller, run, ledger, OutcomeInv
<1>14. ASSUME NEW c \in Call, FinishLedger(c) PROVE OutcomeInv(d)'
  BY <1>14 DEF FinishLedger, StatusOf, vars, approvals, caller, run, ledger, OutcomeInv
<1>15. ASSUME NEW c \in Call, Answer(c) PROVE OutcomeInv(d)'
  BY <1>15 DEF Answer, Goto, vars, approvals, caller, run, ledger, OutcomeInv
<1>16. ASSUME NEW c \in Call, HandlerWrites(c) PROVE OutcomeInv(d)'
  BY <1>16 DEF HandlerWrites, vars, approvals, caller, run, ledger, OutcomeInv
<1>17. ASSUME NEW c \in Call, NEW how \in {"ok", "failed"}, HandlerEnds(c, how) PROVE OutcomeInv(d)'
  BY <1>17 DEF HandlerEnds, vars, approvals, caller, run, ledger, OutcomeInv
<1>18. CASE Crash
  BY <1>18 DEF Crash, vars, approvals, caller, run, ledger, OutcomeInv
<1>19. CASE UNCHANGED vars
  BY <1>19 DEF vars, approvals, caller, run, ledger, OutcomeInv
<1>. QED
  BY <1>1, <1>2, <1>3, <1>4, <1>5, <1>6, <1>7, <1>8, <1>9, <1>10,
     <1>11, <1>12, <1>13, <1>14, <1>15, <1>16, <1>17, <1>18, <1>19 DEF Next, Step

\* No step refuses a call that has consumed a token.
LEMMA WasteStep ==
  ASSUME TypeOK, \A c \in Call : CallInv(c), NoApprovalWasted, [Next]_vars
  PROVE  NoApprovalWasted'
<1>. USE ConstantsAssumption DEF TypeOK, Place, Settled, CallInv
<1>1. ASSUME NEW t \in Token, NEW p \in Plan, Issue(t, p) PROVE NoApprovalWasted'
  BY <1>1 DEF Issue, vars, approvals, caller, run, ledger, NoApprovalWasted
<1>2. CASE Tick
  BY <1>2 DEF Tick, vars, approvals, caller, run, ledger, NoApprovalWasted
<1>3. ASSUME NEW c \in Call, NEW r \in Request, Receive(c, r) PROVE NoApprovalWasted'
  BY <1>3 DEF Receive, Goto, vars, approvals, caller, run, ledger, NoApprovalWasted
<1>4. ASSUME NEW c \in Call, Refuse(c) PROVE NoApprovalWasted'
  BY <1>4 DEF Refuse, Goto, Refused, vars, approvals, caller, run, ledger, NoApprovalWasted
<1>5. ASSUME NEW c \in Call, AllowWithoutToken(c) PROVE NoApprovalWasted'
  BY <1>5 DEF AllowWithoutToken, Goto, vars, approvals, caller, run, ledger, NoApprovalWasted
<1>6. ASSUME NEW c \in Call, SelectApproval(c) PROVE NoApprovalWasted'
  BY <1>6 DEF SelectApproval, Goto, RowUsable, vars, approvals, caller, run, ledger, NoApprovalWasted
<1>7. ASSUME NEW c \in Call, SelectRejects(c) PROVE NoApprovalWasted'
  BY <1>7 DEF SelectRejects, Goto, Refused, vars, approvals, caller, run, ledger, NoApprovalWasted
<1>8. ASSUME NEW c \in Call, ConsumeApproval(c) PROVE NoApprovalWasted'
  BY <1>8 DEF ConsumeApproval, Goto, UpdateMatches, vars, approvals, caller, run, ledger, NoApprovalWasted
<1>9. ASSUME NEW c \in Call, ConsumeRejects(c) PROVE NoApprovalWasted'
  BY <1>9 DEF ConsumeRejects, Goto, UpdateMatches, Refused, vars, approvals, caller, run, ledger, NoApprovalWasted
<1>10. ASSUME NEW c \in Call, Begin(c) PROVE NoApprovalWasted'
  BY <1>10 DEF Begin, Goto, vars, approvals, caller, run, ledger, NoApprovalWasted
<1>11. ASSUME NEW c \in Call, StartHandler(c) PROVE NoApprovalWasted'
  BY <1>11 DEF StartHandler, Goto, vars, approvals, caller, run, ledger, NoApprovalWasted
<1>12. ASSUME NEW c \in Call, Settle(c) PROVE NoApprovalWasted'
  BY <1>12 DEF Settle, Goto, vars, approvals, caller, run, ledger, NoApprovalWasted
<1>13. ASSUME NEW c \in Call, TimeOut(c) PROVE NoApprovalWasted'
  BY <1>13 DEF TimeOut, Goto, vars, approvals, caller, run, ledger, NoApprovalWasted
<1>14. ASSUME NEW c \in Call, FinishLedger(c) PROVE NoApprovalWasted'
  BY <1>14 DEF FinishLedger, StatusOf, vars, approvals, caller, run, ledger, NoApprovalWasted
<1>15. ASSUME NEW c \in Call, Answer(c) PROVE NoApprovalWasted'
  BY <1>15 DEF Answer, Goto, vars, approvals, caller, run, ledger, NoApprovalWasted
<1>16. ASSUME NEW c \in Call, HandlerWrites(c) PROVE NoApprovalWasted'
  BY <1>16 DEF HandlerWrites, vars, approvals, caller, run, ledger, NoApprovalWasted
<1>17. ASSUME NEW c \in Call, NEW how \in {"ok", "failed"}, HandlerEnds(c, how) PROVE NoApprovalWasted'
  BY <1>17 DEF HandlerEnds, vars, approvals, caller, run, ledger, NoApprovalWasted
<1>18. CASE Crash
  BY <1>18 DEF Crash, vars, approvals, caller, run, ledger, NoApprovalWasted
<1>19. CASE UNCHANGED vars
  BY <1>19 DEF vars, approvals, caller, run, ledger, NoApprovalWasted
<1>. QED
  BY <1>1, <1>2, <1>3, <1>4, <1>5, <1>6, <1>7, <1>8, <1>9, <1>10,
     <1>11, <1>12, <1>13, <1>14, <1>15, <1>16, <1>17, <1>18, <1>19 DEF Next, Step

\* Every step of executeTool, of a handler, of the approvals table and every crash
\* keeps the invariant.
LEMMA InvStep == IInv /\ [Next]_vars => IInv'
  BY TypeStep, CallStep, TokenStep, WasteStep, RowStep, OutcomeStep DEF IInv

\* The invariant holds in every state of every run, whatever the calls, tokens and
\* crashes.
THEOREM Invariance == Spec => []IInv
  BY InitInv, InvStep, PTL DEF Spec
-----------------------------------------------------------------------------
(* What follows from the invariant *)

\* Every variable keeps its type: a call is at one of its places, a row has one
\* of its states.
THEOREM TypeCorrect == Spec => []TypeOK
<1>1. IInv => TypeOK
  BY DEF IInv
<1>. QED
  BY <1>1, Invariance, PTL

\* However many calls present a token at once, consume lets one through.
THEOREM TokenLetsOneCallThrough == Spec => []OneCallPerToken
<1>1. IInv => OneCallPerToken
  BY DEF IInv
<1>. QED
  BY <1>1, Invariance, PTL

\* A call that consumed a token is the call the token was issued for.
THEOREM TokenServesItsPlan == Spec => []GrantMatchesPlan
<1>1. IInv => GrantMatchesPlan
  BY DEF IInv, CallInv, GrantMatchesPlan
<1>. QED
  BY <1>1, Invariance, PTL

\* A consumed token belongs to a call that was not refused.
THEOREM TokenNotWasted == Spec => []NoApprovalWasted
<1>1. IInv => NoApprovalWasted
  BY DEF IInv
<1>. QED
  BY <1>1, Invariance, PTL

\* Whatever runs is within the safety profile of its credential.
THEOREM ProfileIsKept == Spec => []ProfileContract
<1>1. IInv => ProfileContract
  <2>. SUFFICES ASSUME IInv, NEW c \in Call, Past(c), NEW r, r = req[c]
                PROVE  LET risk == DemandedRisk(r) IN
                       /\ r.profile = "read_only" => risk = "read"
                       /\ r.profile = "production_safe" =>
                            \/ risk \in {"read", "write", "theme_write", "bulk"}
                            \/ risk = "critical" /\ r.rollback /\ r.confirm
                       /\ r.profile \in {"developer_full_access", "admin"} =>
                            /\ risk \in {"destructive", "publish", "critical"} => r.confirm
                            /\ risk \in {"publish", "critical"} => grant[c] # NoToken
                       /\ r.bulk > r.max => grant[c] # NoToken
    BY DEF ProfileContract
  <2>1. CallInv(c) /\ RowInv(c)
    BY DEF IInv
  <2>2. r \in Request
    BY <2>1 DEF CallInv, Past
  <2>3. Cleared(r)
    BY <2>1 DEF CallInv, Past
  <2>4. NeedsToken(r) => grant[c] # NoToken
    BY <2>1 DEF RowInv, Past
  <2>. QED
    BY <2>2, <2>3, <2>4, ClearedKeepsContract
<1>. QED
  BY <1>1, Invariance, PTL

\* A change to the store has a ledger row, with the approval it needed.
THEOREM LedgerWrittenAhead == Spec => []WriteAhead
<1>1. IInv => WriteAhead
  <2>. SUFFICES ASSUME IInv, NEW c \in Call, effect[c]
                PROVE  op[c] # "none" /\ (NeedsToken(req[c]) => opApproved[c])
    BY DEF WriteAhead
  <2>1. RowInv(c)
    BY DEF IInv
  <2>2. op[c] # "none"
    BY <2>1 DEF RowInv, Audited
  <2>3. NeedsToken(req[c]) => opApproved[c]
    BY <2>1, <2>2 DEF RowInv
  <2>. QED
    BY <2>2, <2>3
<1>. QED
  BY <1>1, Invariance, PTL

\* A row that says succeeded has a handler that is done, one that says failed after a
\* handler that returned ok was too late, and one that stays pending lost its call.
THEOREM SuccessBooked == Spec => []SuccessIsReal
<1>1. IInv => SuccessIsReal
  BY DEF IInv, TypeOK, Settled, OutcomeInv, SuccessIsReal
<1>. QED
  BY <1>1, Invariance, PTL

\* The caller's answer and the ledger's row agree from the answer on.
THEOREM AnswerBooked == Spec => []AnswerInLedger
<1>1. IInv => AnswerInLedger
  BY DEF IInv, TypeOK, OutcomeInv, AnswerInLedger
<1>. QED
  BY <1>1, Invariance, PTL
-----------------------------------------------------------------------------
(* The refinement *)

\* While a token has one call at most, the holder of t is the call that consumed it.
LEMMA HolderIs ==
  ASSUME OneCallPerToken, NEW t \in Token, NEW c \in Call, grant[c] = t
  PROVE  Holder[t] = c
  BY ConstantsAssumption DEF Holder, OneCallPerToken

\* A token no call has consumed has no holder.
LEMMA HolderNone ==
  ASSUME NEW t \in Token, \A c \in Call : grant[c] # t
  PROVE  Holder[t] = NoCall
  BY DEF Holder

\* Consuming a token is the abstract Spend.
LEMMA ConsumeSpends ==
  ASSUME IInv, IInv', NEW c \in Call, ConsumeApproval(c)
  PROVE  Approval!Next
<1>. DEFINE t == req[c].token
<1>1. /\ CallInv(c) /\ pc[c] = "consume" /\ t \in Token /\ ~consumed[t]
      /\ plan[t] = req[c].plan /\ req[c] \in Request /\ grant[c] = NoToken
  BY DEF IInv, CallInv, ConsumeApproval, Goto, UpdateMatches
<1>2. grant' = [grant EXCEPT ![c] = t] /\ plan' = plan /\ grant \in [Call -> Token \cup {NoToken}]
  BY DEF ConsumeApproval, IInv, TypeOK
<1>3. \A d \in Call : grant[d] # t
  BY <1>1, ConstantsAssumption DEF IInv, CallInv
<1>4. Holder[t] = NoCall
  BY <1>1, <1>3, HolderNone
<1>5. plan[t] # NoPlan
  BY <1>1, ConstantsAssumption
<1>6. \A u \in Token : Holder[u] # c
  <2>. SUFFICES ASSUME NEW u \in Token, Holder[u] = c PROVE FALSE
    OBVIOUS
  <2>1. c # NoCall
    BY ConstantsAssumption
  <2>2. PICK d \in Call : grant[d] = u
    BY <2>1, HolderNone
  <2>3. Holder[u] = d
    BY <2>2, HolderIs DEF IInv
  <2>. QED
    BY <2>2, <2>3, <1>1, ConstantsAssumption
<1>7. Holder' = [Holder EXCEPT ![t] = c]
  <2>1. (Holder')[t] = c
    <3>1. (\E d \in Call : grant'[d] = t) /\ (\A d \in Call : grant'[d] = t => d = c)
      BY <1>1, <1>2, <1>3
    <3>. QED
      BY <3>1, <1>1 DEF Holder
  <2>2. ASSUME NEW u \in Token, u # t PROVE (Holder')[u] = Holder[u]
    <3>1. \A d \in Call : (grant'[d] = u) <=> (grant[d] = u)
      BY <1>1, <1>2, <2>2, ConstantsAssumption
    <3>2. CASE \E d \in Call : grant[d] = u
      <4>1. PICK d \in Call : grant[d] = u
        BY <3>2
      <4>2. Holder[u] = d
        BY <4>1, HolderIs DEF IInv
      <4>3. OneCallPerToken' /\ grant'[d] = u
        BY <3>1, <4>1 DEF IInv
      <4>4. (\E e \in Call : grant'[e] = u) /\ (\A e \in Call : grant'[e] = u => e = d)
        BY <4>3, <3>1, ConstantsAssumption DEF OneCallPerToken
      <4>. QED
        BY <4>2, <4>4 DEF Holder
    <3>3. CASE ~\E d \in Call : grant[d] = u
      BY <3>1, <3>3 DEF Holder
    <3>. QED
      BY <3>2, <3>3
  <2>3. Holder = [u \in Token |-> Holder[u]] /\ Holder' = [u \in Token |-> (Holder')[u]]
    BY DEF Holder
  <2>. HIDE DEF t
  <2>. QED
    BY <2>1, <2>2, <2>3, <1>1
<1>8. Approval!Spend(t, c)
  BY <1>2, <1>4, <1>5, <1>6, <1>7 DEF Approval!Spend
<1>. QED
  BY <1>1, <1>8 DEF Approval!Next

\* Every other step leaves plans and grants alone, or issues a token.
LEMMA ApprovalStep ==
  ASSUME IInv, IInv', [Next]_vars
  PROVE  [Approval!Next]_(Approval!vars)
<1>. DEFINE Still == plan' = plan /\ grant' = grant
<1>1. Still => [Approval!Next]_(Approval!vars)
  BY DEF Approval!vars, Holder
<1>2. ASSUME NEW t \in Token, NEW p \in Plan, Issue(t, p) PROVE Approval!Next
  <2>1. Holder' = Holder
    BY <1>2 DEF Issue, caller, Holder
  <2>. QED
    BY <1>2, <2>1 DEF Issue, Approval!Next, Approval!Grant
<1>3. ASSUME NEW c \in Call, Step(c), ~ConsumeApproval(c) PROVE Still
  BY <1>3 DEF Step, Refuse, Refused, AllowWithoutToken, SelectApproval, SelectRejects,
     ConsumeRejects, Begin, StartHandler, Settle, TimeOut, FinishLedger, Answer,
     approvals, caller
<1>4. ASSUME NEW c \in Call, NEW r \in Request, Receive(c, r) PROVE Still
  BY <1>4 DEF Receive, approvals
<1>5. ASSUME NEW c \in Call, HandlerWrites(c) PROVE Still
  BY <1>5 DEF HandlerWrites, approvals, caller
<1>6. ASSUME NEW c \in Call, NEW how \in {"ok", "failed"}, HandlerEnds(c, how) PROVE Still
  BY <1>6 DEF HandlerEnds, approvals, caller
<1>7. CASE Tick \/ Crash \/ UNCHANGED vars
  <2>. Still
    BY <1>7 DEF Tick, Crash, vars, approvals, caller
  <2>. QED
    BY <1>1
<1>8. ASSUME NEW c \in Call, ConsumeApproval(c) PROVE Approval!Next
  BY <1>8, ConsumeSpends
<1>. QED
  BY <1>1, <1>2, <1>3, <1>4, <1>5, <1>6, <1>7, <1>8 DEF Next

\* The select and the guarded update of approvals.ts implement the one-shot
\* approvals of the abstract specification.
THEOREM ApprovalsAreOneShot == Spec => ImplementsOneShotApproval
<1>1. Init => Approval!Init
  BY ConstantsAssumption DEF Init, Approval!Init, Holder
<1>2. IInv /\ IInv' /\ [Next]_vars => [Approval!Next]_(Approval!vars)
  BY ApprovalStep
<1>. QED
  BY <1>1, <1>2, Invariance, PTL DEF Spec, ImplementsOneShotApproval, Approval!Spec

-----------------------------------------------------------------------------
(* The working theme *)

There == {t \in Theme : role[t] # "none"}

Task == [at : {"idle", "cap", "live", "create", "list", "copy", "poll", "ready"},
         theme : 0 .. NumThemes, source : 0 .. NumThemes, todo : SUBSET File, flight : SUBSET File,
         workers : 0 .. Workers, stale : BOOLEAN, grew : BOOLEAN, moved : BOOLEAN]

ThemesOK ==
  /\ engine \in {"proxy", "graphql"} /\ role \in [Theme -> {"none", "main", "unpublished"}]
  /\ working \subseteq Theme /\ file \in [Theme -> [File -> Content]] /\ copying \subseteq Theme
  /\ older \in [Theme -> SUBSET Theme] /\ made \in Theme
  /\ listed \in [Theme -> SUBSET File] /\ answered \subseteq Theme /\ cutShort \subseteq Theme
  /\ kept \subseteq Theme \X File /\ doubled \in BOOLEAN /\ overrun \in BOOLEAN
  /\ outside \in 0 .. MaxOutside /\ faults \in 0 .. MaxFaults

TasksOK == task \in [Caller -> Task]

\* The themes there are have one order, by their last update.
InOrder ==
  /\ \A t \in Theme : older[t] \subseteq There \ {t}
  /\ \A t \in Theme : \A u \in older[t] : older[u] \subseteq older[t]
  /\ \A t, u \in There : t # u => t \in older[u] \/ u \in older[t]

OneMain == \E m \in Theme : role[m] = "main" /\ \A t \in Theme \ {m} : role[t] # "main"

\* A theme that nobody made yet.
NotMade ==
  \A t \in Theme : t > made => role[t] = "none" /\ t \notin working /\ listed[t] = {}

\* Where a caller is says what it has.
HasTheme(c) ==
  /\ task[c].theme <= made
  /\ task[c].at \in {"list", "copy", "poll", "ready"} => task[c].theme # 0
  /\ task[c].theme # 0 /\ role[task[c].theme] = "main" => task[c].moved

HasWorkers(c) ==
  /\ IsFiniteSet(task[c].flight) /\ Cardinality(task[c].flight) <= Workers
  /\ task[c].workers < Workers => task[c].at = "copy" /\ task[c].theme \in cutShort

\* What a caller saw of the store is so, unless it has an excuse.
SawNone(c) == task[c].at \in {"cap", "live", "create"} /\ ~task[c].stale => Candidates = {}
SawRoom(c) == task[c].at \in {"live", "create"} /\ ~task[c].grew => Cardinality(Unpublished) < Cap

\* A theme has its files, or somebody is to write those that are missing.
StillToCome(t) ==
  \/ t \in copying
  \/ \E c \in Caller : /\ task[c].at = "copy" /\ task[c].theme = t
                       /\ listed[t] \subseteq Keys(t) \cup task[c].todo \cup task[c].flight
Provided(t) == Exists(t) /\ t \notin cutShort => listed[t] \subseteq Keys(t) \/ StillToCome(t)

KeptInv == \A x \in kept : file[x[1]][x[2]] = "tool" /\ x[1] <= made /\ ~InCopy(x[1])

AtMostOne == doubled \/ \A t, u \in Candidates : t = u

WtInv ==
  /\ ThemesOK /\ TasksOK /\ InOrder /\ OneMain /\ NotMade
  /\ \A c \in Caller : HasTheme(c) /\ HasWorkers(c) /\ SawNone(c) /\ SawRoom(c)
  /\ (\A t \in Theme : Provided(t)) /\ KeptInv /\ AtMostOne /\ CapKept /\ ~liveWrite

-----------------------------------------------------------------------------
(* What the steps do to a caller *)

LEMMA WtConstants ==
  /\ NumThemes \in Nat /\ NumThemes > 0 /\ Cap \in Nat /\ Cap > 0 /\ Workers \in Nat /\ Workers > 0
  /\ Theme \subseteq Nat /\ 0 \notin Theme /\ IsFiniteSet(Theme)
  /\ \A t \in Theme : t \in 0 .. NumThemes
<1>1. IsFiniteSet(Theme)
  BY FS_Interval, WorkingThemeAssumption DEF Theme
<1>. QED
  BY <1>1, WorkingThemeAssumption DEF Theme

LEMMA Rested ==
  /\ AtRest \in Task
  /\ AtRest.at = "idle" /\ AtRest.theme = 0 /\ AtRest.source = 0 /\ AtRest.todo = {}
  /\ AtRest.flight = {} /\ AtRest.workers = Workers /\ AtRest.stale = FALSE
  /\ AtRest.grew = FALSE /\ AtRest.moved = FALSE
  /\ IsFiniteSet(AtRest.flight) /\ Cardinality(AtRest.flight) <= Workers
<1>1. AtRest \in Task
  BY WtConstants DEF AtRest, Task
<1>. QED
  BY <1>1, WtConstants, FS_EmptySet DEF AtRest

\* One caller goes on, and the others stay.
Only(c) == task' \in [Caller -> Task] /\ \A d \in Caller : d # c => task'[d] = task[d]

LEMMA Going ==
  ASSUME TasksOK, NEW c \in Caller, NEW r \in Task, Goes(c, r)
  PROVE  Only(c) /\ task'[c] = r
  BY DEF TasksOK, Goes, Only

\* What changes in the record of a caller that goes on.
LEMMA GoesLive ==
  ASSUME TasksOK, NEW c \in Caller, Goes(c, [task[c] EXCEPT !.at = "live"])
  PROVE  /\ Only(c)
         /\ task'[c].at = "live" /\ task'[c].theme = task[c].theme
         /\ task'[c].source = task[c].source /\ task'[c].todo = task[c].todo
         /\ task'[c].flight = task[c].flight /\ task'[c].workers = task[c].workers
         /\ task'[c].stale = task[c].stale /\ task'[c].grew = task[c].grew
         /\ task'[c].moved = task[c].moved
<1>1. task[c] \in Task
  BY DEF TasksOK
<1>2. PICK r : r = [task[c] EXCEPT !.at = "live"]
  OBVIOUS
<1>3. r \in Task
  BY <1>1, <1>2 DEF Task
<1>4. /\ r.at = "live" /\ r.theme = task[c].theme /\ r.source = task[c].source
      /\ r.todo = task[c].todo /\ r.flight = task[c].flight /\ r.workers = task[c].workers
      /\ r.stale = task[c].stale /\ r.grew = task[c].grew /\ r.moved = task[c].moved
  BY <1>1, <1>2 DEF Task
<1>5. Goes(c, r)
  BY <1>2
<1>6. Only(c) /\ task'[c] = r
  BY <1>3, <1>5, Going
<1>. QED
  BY <1>4, <1>6

LEMMA GoesCreate ==
  ASSUME TasksOK, NEW c \in Caller, NEW m \in Theme, Goes(c, [task[c] EXCEPT !.at = "create", !.source = m])
  PROVE  /\ Only(c)
         /\ task'[c].at = "create" /\ task'[c].source = m /\ task'[c].theme = task[c].theme
         /\ task'[c].todo = task[c].todo /\ task'[c].flight = task[c].flight
         /\ task'[c].workers = task[c].workers /\ task'[c].stale = task[c].stale
         /\ task'[c].grew = task[c].grew /\ task'[c].moved = task[c].moved
<1>1. task[c] \in Task
  BY DEF TasksOK
<1>2. PICK r : r = [task[c] EXCEPT !.at = "create", !.source = m]
  OBVIOUS
<1>3. r \in Task
  BY <1>1, <1>2, WtConstants DEF Task
<1>4. /\ r.at = "create" /\ r.source = m /\ r.theme = task[c].theme
      /\ r.todo = task[c].todo /\ r.flight = task[c].flight /\ r.workers = task[c].workers
      /\ r.stale = task[c].stale /\ r.grew = task[c].grew /\ r.moved = task[c].moved
  BY <1>1, <1>2 DEF Task
<1>5. Goes(c, r)
  BY <1>2
<1>6. Only(c) /\ task'[c] = r
  BY <1>3, <1>5, Going
<1>. QED
  BY <1>4, <1>6

LEMMA GoesCopy ==
  ASSUME TasksOK, NEW c \in Caller, NEW k \in SUBSET File, Goes(c, [task[c] EXCEPT !.at = "copy", !.todo = k])
  PROVE  /\ Only(c)
         /\ task'[c].at = "copy" /\ task'[c].todo = k /\ task'[c].theme = task[c].theme
         /\ task'[c].source = task[c].source /\ task'[c].flight = task[c].flight
         /\ task'[c].workers = task[c].workers /\ task'[c].stale = task[c].stale
         /\ task'[c].grew = task[c].grew /\ task'[c].moved = task[c].moved
<1>1. task[c] \in Task
  BY DEF TasksOK
<1>2. PICK r : r = [task[c] EXCEPT !.at = "copy", !.todo = k]
  OBVIOUS
<1>3. r \in Task
  BY <1>1, <1>2 DEF Task
<1>4. /\ r.at = "copy" /\ r.todo = k /\ r.theme = task[c].theme
      /\ r.source = task[c].source /\ r.flight = task[c].flight
      /\ r.workers = task[c].workers /\ r.stale = task[c].stale /\ r.grew = task[c].grew
      /\ r.moved = task[c].moved
  BY <1>1, <1>2 DEF Task
<1>5. Goes(c, r)
  BY <1>2
<1>6. Only(c) /\ task'[c] = r
  BY <1>3, <1>5, Going
<1>. QED
  BY <1>4, <1>6

LEMMA GoesRead ==
  ASSUME TasksOK, NEW c \in Caller, NEW f \in task[c].todo, Goes(c, [task[c] EXCEPT !.todo = @ \ {f}, !.flight = @ \cup {f}])
  PROVE  /\ Only(c)
         /\ task'[c].todo = task[c].todo \ {f} /\ task'[c].flight = task[c].flight \cup {f}
         /\ task'[c].at = task[c].at /\ task'[c].theme = task[c].theme
         /\ task'[c].source = task[c].source /\ task'[c].workers = task[c].workers
         /\ task'[c].stale = task[c].stale /\ task'[c].grew = task[c].grew
         /\ task'[c].moved = task[c].moved
<1>1. task[c] \in Task
  BY DEF TasksOK
<1>2. PICK r : r = [task[c] EXCEPT !.todo = @ \ {f}, !.flight = @ \cup {f}]
  OBVIOUS
<1>3. r \in Task
  BY <1>1, <1>2 DEF Task
<1>4. /\ r.todo = task[c].todo \ {f} /\ r.flight = task[c].flight \cup {f}
      /\ r.at = task[c].at /\ r.theme = task[c].theme /\ r.source = task[c].source
      /\ r.workers = task[c].workers /\ r.stale = task[c].stale /\ r.grew = task[c].grew
      /\ r.moved = task[c].moved
  BY <1>1, <1>2 DEF Task
<1>5. Goes(c, r)
  BY <1>2
<1>6. Only(c) /\ task'[c] = r
  BY <1>3, <1>5, Going
<1>. QED
  BY <1>4, <1>6

LEMMA GoesMissing ==
  ASSUME TasksOK, NEW c \in Caller, NEW f \in task[c].todo, task[c].workers > 0,
         Goes(c, [task[c] EXCEPT !.todo = @ \ {f}, !.workers = @ - 1])
  PROVE  /\ Only(c)
         /\ task'[c].todo = task[c].todo \ {f} /\ task'[c].workers = task[c].workers - 1
         /\ task'[c].at = task[c].at /\ task'[c].theme = task[c].theme
         /\ task'[c].source = task[c].source /\ task'[c].flight = task[c].flight
         /\ task'[c].stale = task[c].stale /\ task'[c].grew = task[c].grew
         /\ task'[c].moved = task[c].moved
<1>1. task[c] \in Task
  BY DEF TasksOK
<1>2. PICK r : r = [task[c] EXCEPT !.todo = @ \ {f}, !.workers = @ - 1]
  OBVIOUS
<1>7. task[c].workers - 1 \in 0 .. Workers
  <2>1. task[c].workers \in 0 .. Workers /\ Workers \in Nat
    BY <1>1, WtConstants DEF Task
  <2>. QED
    BY <2>1
<1>3. r \in Task
  BY <1>1, <1>2, <1>7 DEF Task
<1>4. /\ r.todo = task[c].todo \ {f} /\ r.workers = task[c].workers - 1
      /\ r.at = task[c].at /\ r.theme = task[c].theme /\ r.source = task[c].source
      /\ r.flight = task[c].flight /\ r.stale = task[c].stale /\ r.grew = task[c].grew
      /\ r.moved = task[c].moved
  BY <1>1, <1>2 DEF Task
<1>5. Goes(c, r)
  BY <1>2
<1>6. Only(c) /\ task'[c] = r
  BY <1>3, <1>5, Going
<1>. QED
  BY <1>4, <1>6

LEMMA GoesWritten ==
  ASSUME TasksOK, NEW c \in Caller, NEW f \in task[c].flight, Goes(c, [task[c] EXCEPT !.flight = @ \ {f}])
  PROVE  /\ Only(c)
         /\ task'[c].flight = task[c].flight \ {f} /\ task'[c].at = task[c].at
         /\ task'[c].theme = task[c].theme /\ task'[c].source = task[c].source
         /\ task'[c].todo = task[c].todo /\ task'[c].workers = task[c].workers
         /\ task'[c].stale = task[c].stale /\ task'[c].grew = task[c].grew
         /\ task'[c].moved = task[c].moved
<1>1. task[c] \in Task
  BY DEF TasksOK
<1>2. PICK r : r = [task[c] EXCEPT !.flight = @ \ {f}]
  OBVIOUS
<1>3. r \in Task
  BY <1>1, <1>2 DEF Task
<1>4. /\ r.flight = task[c].flight \ {f} /\ r.at = task[c].at /\ r.theme = task[c].theme
      /\ r.source = task[c].source /\ r.todo = task[c].todo /\ r.workers = task[c].workers
      /\ r.stale = task[c].stale /\ r.grew = task[c].grew /\ r.moved = task[c].moved
  BY <1>1, <1>2 DEF Task
<1>5. Goes(c, r)
  BY <1>2
<1>6. Only(c) /\ task'[c] = r
  BY <1>3, <1>5, Going
<1>. QED
  BY <1>4, <1>6

LEMMA GoesGiven ==
  ASSUME TasksOK, NEW c \in Caller, Give(c)
  PROVE  /\ Only(c)
         /\ task'[c].at = "ready" /\ task'[c].todo = {} /\ task'[c].stale = FALSE
         /\ task'[c].grew = FALSE /\ task'[c].theme = task[c].theme
         /\ task'[c].source = task[c].source /\ task'[c].flight = task[c].flight
         /\ task'[c].workers = task[c].workers /\ task'[c].moved = task[c].moved
<1>1. task[c] \in Task
  BY DEF TasksOK
<1>2. PICK r : r = [task[c] EXCEPT !.at = "ready", !.todo = {}, !.stale = FALSE, !.grew = FALSE]
  OBVIOUS
<1>3. r \in Task
  BY <1>1, <1>2 DEF Task
<1>4. /\ r.at = "ready" /\ r.todo = {} /\ r.stale = FALSE /\ r.grew = FALSE
      /\ r.theme = task[c].theme /\ r.source = task[c].source /\ r.flight = task[c].flight
      /\ r.workers = task[c].workers /\ r.moved = task[c].moved
  BY <1>1, <1>2 DEF Task
<1>5. Goes(c, r)
  BY <1>2 DEF Give
<1>6. Only(c) /\ task'[c] = r
  BY <1>3, <1>5, Going
<1>. QED
  BY <1>4, <1>6

LEMMA GoesRest ==
  ASSUME TasksOK, NEW c \in Caller, Goes(c, AtRest)
  PROVE  Only(c) /\ task'[c] = AtRest
  BY Rested, Going

LEMMA GoesToCap ==
  ASSUME TasksOK, NEW c \in Caller, Goes(c, [AtRest EXCEPT !.at = "cap"])
  PROVE  /\ Only(c)
         /\ task'[c].at = "cap" /\ task'[c].theme = 0 /\ task'[c].source = 0
         /\ task'[c].todo = {} /\ task'[c].flight = {} /\ task'[c].workers = Workers
         /\ task'[c].stale = FALSE /\ task'[c].grew = FALSE /\ task'[c].moved = FALSE
<1>1. PICK r : r = [AtRest EXCEPT !.at = "cap"]
  OBVIOUS
<1>4. 0 \in 0 .. NumThemes /\ Theme \subseteq 0 .. NumThemes
  BY WtConstants
<1>2. /\ r \in Task
      /\ r.at = "cap" /\ r.theme = 0 /\ r.source = 0 /\ r.todo = {} /\ r.flight = {}
      /\ r.workers = Workers /\ r.stale = FALSE /\ r.grew = FALSE /\ r.moved = FALSE
  BY <1>1, <1>4, Rested DEF Task
<1>3. Only(c) /\ task'[c] = r
  BY <1>1, <1>2, Going
<1>. QED
  BY <1>2, <1>3

LEMMA GoesReady ==
  ASSUME TasksOK, NEW c \in Caller, NEW t \in Theme, Goes(c, [AtRest EXCEPT !.at = "ready", !.theme = t])
  PROVE  /\ Only(c)
         /\ task'[c].at = "ready" /\ task'[c].theme = t /\ task'[c].source = 0
         /\ task'[c].todo = {} /\ task'[c].flight = {} /\ task'[c].workers = Workers
         /\ task'[c].stale = FALSE /\ task'[c].grew = FALSE /\ task'[c].moved = FALSE
<1>1. PICK r : r = [AtRest EXCEPT !.at = "ready", !.theme = t]
  OBVIOUS
<1>4. 0 \in 0 .. NumThemes /\ Theme \subseteq 0 .. NumThemes
  BY WtConstants
<1>2. /\ r \in Task
      /\ r.at = "ready" /\ r.theme = t /\ r.source = 0 /\ r.todo = {} /\ r.flight = {}
      /\ r.workers = Workers /\ r.stale = FALSE /\ r.grew = FALSE /\ r.moved = FALSE
  BY <1>1, <1>4, Rested DEF Task
<1>3. Only(c) /\ task'[c] = r
  BY <1>1, <1>2, Going
<1>. QED
  BY <1>2, <1>3

\* What a new theme does to a caller.
NewsOf(r, s, t, w) ==
  /\ s.at = r.at /\ s.theme = r.theme /\ s.source = r.source /\ s.todo = r.todo
  /\ s.flight = r.flight /\ s.workers = r.workers /\ s.moved = r.moved
  /\ s.stale <=> (r.stale \/ (t \in w /\ r.at \in {"cap", "live", "create"}))
  /\ s.grew <=> (r.grew \/ r.at \in {"live", "create"})

LEMMA Notices ==
  ASSUME NEW r \in Task, NEW t, NEW w
  PROVE  Noticed(r, t, w) \in Task /\ NewsOf(r, Noticed(r, t, w), t, w)
<1>1. PICK s : s = Noticed(r, t, w)
  OBVIOUS
<1>2. s = [r EXCEPT !.stale = r.stale \/ (t \in w /\ r.at \in {"cap", "live", "create"}),
                    !.grew = r.grew \/ r.at \in {"live", "create"}]
  BY <1>1 DEF Noticed, Task
<1>3. s \in Task
  BY <1>2 DEF Task
<1>4. NewsOf(r, s, t, w)
  BY <1>2 DEF Task, NewsOf
<1>. QED
  BY <1>1, <1>3, <1>4

LEMMA Seeing ==
  ASSUME TasksOK, NEW t
  PROVE  Seen(t) \in [Caller -> Task] /\ \A d \in Caller : NewsOf(task[d], Seen(t)[d], t, working')
<1>1. \A d \in Caller : Seen(t)[d] = Noticed(task[d], t, working')
  BY DEF Seen
<1>2. \A d \in Caller : Noticed(task[d], t, working') \in Task /\ NewsOf(task[d], Noticed(task[d], t, working'), t, working')
  BY Notices DEF TasksOK
<1>. QED
  BY <1>1, <1>2 DEF Seen

\* Publishing a theme.
LEMMA Moving ==
  ASSUME ThemesOK, TasksOK, NEW t \in Theme, Publish(t), NEW d \in Caller
  PROVE  /\ task'[d] \in Task
         /\ task'[d].at = task[d].at /\ task'[d].theme = task[d].theme /\ task'[d].source = task[d].source
         /\ task'[d].todo = task[d].todo /\ task'[d].flight = task[d].flight /\ task'[d].workers = task[d].workers
         /\ task'[d].grew = task[d].grew
         /\ task'[d].stale <=> (task[d].stale \/ Main \in working)
         /\ task'[d].moved <=> (task[d].moved \/ task[d].theme = t)
<1>1. task[d] \in Task
  BY DEF TasksOK
<1>2. PICK r : r = [task[d] EXCEPT !.moved = task[d].moved \/ task[d].theme = t,
                                   !.stale = task[d].stale \/ Main \in working]
  OBVIOUS
<1>3. task'[d] = r
  BY <1>1, <1>2 DEF Publish, Task
<1>4. r \in Task
  BY <1>1, <1>2 DEF Task
<1>5. /\ r.at = task[d].at /\ r.theme = task[d].theme /\ r.source = task[d].source
      /\ r.todo = task[d].todo /\ r.flight = task[d].flight /\ r.workers = task[d].workers
      /\ r.grew = task[d].grew
      /\ r.stale <=> (task[d].stale \/ Main \in working)
      /\ r.moved <=> (task[d].moved \/ task[d].theme = t)
  BY <1>1, <1>2 DEF Task
<1>. QED
  BY <1>3, <1>4, <1>5

\* The theme that a create makes, and who has it.
LEMMA Creating ==
  ASSUME ThemesOK, TasksOK, NEW c \in Caller, Create(c)
  PROVE  \E t \in Theme :
           /\ New(t) /\ working' = working \cup {t} /\ task' \in [Caller -> Task]
           /\ doubled' = (doubled \/ task[c].stale) /\ overrun' = (overrun \/ task[c].grew)
           /\ \A d \in Caller : d # c => NewsOf(task[d], task'[d], t, working')
           /\ task'[c].theme = t /\ task'[c].source = task[c].source /\ task'[c].todo = task[c].todo
           /\ task'[c].flight = task[c].flight /\ task'[c].workers = task[c].workers
           /\ task'[c].moved = task[c].moved
           /\ \/ task'[c].at = "list" /\ copying' = copying /\ listed' = listed
              \/ /\ task'[c].at = "poll" /\ copying' = copying \cup {t}
                 /\ listed' = [listed EXCEPT ![t] = Keys(task[c].source)] /\ task[c].source \in Theme
<1>1. task[c] \in Task
  BY DEF TasksOK
<1>2. PICK t \in Theme :
        /\ New(t) /\ working' = working \cup {t}
        /\ doubled' = (doubled \/ task[c].stale) /\ overrun' = (overrun \/ task[c].grew)
        /\ \/ /\ task' = [Seen(t) EXCEPT ![c] = [task[c] EXCEPT !.at = "list", !.theme = t]]
              /\ UNCHANGED <<copying, listed>>
           \/ /\ Exists(task[c].source)
              /\ task' = [Seen(t) EXCEPT ![c] = [task[c] EXCEPT !.at = "poll", !.theme = t]]
              /\ copying' = copying \cup {t} /\ listed' = [listed EXCEPT ![t] = Keys(task[c].source)]
  BY DEF Create
<1>3. PICK a : a = Seen(t)
  OBVIOUS
<1>4. a \in [Caller -> Task] /\ \A d \in Caller : NewsOf(task[d], a[d], t, working')
  BY <1>3, Seeing
<1>5. ASSUME NEW p \in {"list", "poll"}, task' = [a EXCEPT ![c] = [task[c] EXCEPT !.at = p, !.theme = t]]
      PROVE  /\ task' \in [Caller -> Task]
             /\ \A d \in Caller : d # c => NewsOf(task[d], task'[d], t, working')
             /\ task'[c].at = p /\ task'[c].theme = t /\ task'[c].source = task[c].source
             /\ task'[c].todo = task[c].todo
             /\ task'[c].flight = task[c].flight /\ task'[c].workers = task[c].workers
             /\ task'[c].moved = task[c].moved
  <2>1. PICK r : r = [task[c] EXCEPT !.at = p, !.theme = t]
    OBVIOUS
  <2>2. r \in Task
    BY <1>1, <2>1, WtConstants DEF Task
  <2>3. /\ r.at = p /\ r.theme = t /\ r.source = task[c].source /\ r.todo = task[c].todo
        /\ r.flight = task[c].flight /\ r.workers = task[c].workers /\ r.moved = task[c].moved
    BY <1>1, <2>1 DEF Task
  <2>4. task' = [a EXCEPT ![c] = r]
    BY <1>5, <2>1
  <2>5. task' \in [Caller -> Task] /\ task'[c] = r /\ \A d \in Caller : d # c => task'[d] = a[d]
    BY <1>4, <2>2, <2>4
  <2>. QED
    BY <1>4, <2>3, <2>5
<1>6. CASE task' = [Seen(t) EXCEPT ![c] = [task[c] EXCEPT !.at = "list", !.theme = t]] /\ UNCHANGED <<copying, listed>>
  BY <1>2, <1>3, <1>5, <1>6
<1>7. CASE /\ Exists(task[c].source)
           /\ task' = [Seen(t) EXCEPT ![c] = [task[c] EXCEPT !.at = "poll", !.theme = t]]
           /\ copying' = copying \cup {t} /\ listed' = [listed EXCEPT ![t] = Keys(task[c].source)]
  <2>1. task[c].source \in Theme
    BY <1>1, <1>7, WtConstants DEF Task, Exists, Theme
  <2>. QED
    BY <1>2, <1>3, <1>5, <1>7, <2>1
<1>. QED
  BY <1>2, <1>6, <1>7

-----------------------------------------------------------------------------
(* What each step of a caller does to it *)

\* The newest of some themes is one of them.
LEMMA NewestIsOne ==
  ASSUME ThemesOK, InOrder, NEW ts \in SUBSET There, ts # {}
  PROVE  Newest(ts) \in ts
<1>1. ts \subseteq Theme /\ \A t \in Theme : older[t] \subseteq Theme
  BY DEF There, ThemesOK
<1>2. PICK U : U = {Theme \ older[t] : t \in ts}
  OBVIOUS
<1>3. \A t \in ts : IsFiniteSet(Theme \ older[t])
  BY WtConstants, FS_Subset
<1>4. U \in SUBSET FiniteSubsetsOf(Theme) /\ U # {}
  BY <1>2, <1>3 DEF FiniteSubsetsOf
<1>5. PICK x \in U : \A y \in U : y \subseteq x => y = x
  BY <1>4, LeastSet
<1>6. PICK t \in ts : x = Theme \ older[t]
  BY <1>2, <1>5
<1>7. ASSUME NEW u \in ts, u # t PROVE u \in older[t]
  <2>1. SUFFICES ASSUME t \in older[u] PROVE FALSE
    BY <1>7 DEF InOrder
  <2>2. older[t] \subseteq older[u] /\ t \notin older[t]
    BY <1>1, <2>1 DEF InOrder
  <2>3. (Theme \ older[u]) \in U /\ (Theme \ older[u]) \subseteq x
    BY <1>2, <1>6, <1>7, <2>2
  <2>4. (Theme \ older[u]) = x
    BY <1>5, <2>3
  <2>. QED
    BY <1>1, <1>6, <2>1, <2>2, <2>4
<1>8. \E t1 \in ts : ts \ {t1} \subseteq older[t1]
  BY <1>7
<1>. QED
  BY <1>8 DEF Newest

LEMMA MainIs ==
  ASSUME OneMain, ThemesOK
  PROVE  Main \in Theme /\ role[Main] = "main" /\ \A t \in Theme \ {Main} : role[t] # "main"
<1>1. \E m \in Theme : role[m] = "main"
  BY DEF OneMain
<1>2. Main \in Theme /\ role[Main] = "main"
  BY <1>1 DEF Main
<1>. QED
  BY <1>2 DEF OneMain

LEMMA WithTheme ==
  ASSUME TasksOK, NEW c \in Caller, HasTheme(c), task[c].at \in {"list", "copy", "poll", "ready"}
  PROVE  task[c].theme \in Theme
  BY WtConstants DEF TasksOK, Task, HasTheme, Theme

LEMMA RestedNow ==
  ASSUME NEW c \in Caller, task'[c] = AtRest
  PROVE  /\ task'[c].at = "idle" /\ task'[c].theme = 0 /\ task'[c].source = 0
         /\ task'[c].todo = {} /\ task'[c].flight = {} /\ task'[c].workers = Workers
         /\ task'[c].stale = FALSE /\ task'[c].grew = FALSE /\ task'[c].moved = FALSE
  BY Rested

LEMMA CurrentDoes ==
  ASSUME ThemesOK, TasksOK, InOrder, NEW c \in Caller, Current(c)
  PROVE  /\ Only(c)
         /\ \/ /\ Candidates = {} /\ answered' = answered
               /\ task'[c].at = "cap" /\ task'[c].theme = 0 /\ task'[c].source = 0
               /\ task'[c].todo = {} /\ task'[c].flight = {} /\ task'[c].workers = Workers
               /\ task'[c].stale = FALSE /\ task'[c].grew = FALSE /\ task'[c].moved = FALSE
            \/ \E t \in Candidates :
                 /\ answered' = answered \cup {t}
                 /\ task'[c].at = "ready" /\ task'[c].theme = t /\ task'[c].source = 0
                 /\ task'[c].todo = {} /\ task'[c].flight = {} /\ task'[c].workers = Workers
                 /\ task'[c].stale = FALSE /\ task'[c].grew = FALSE /\ task'[c].moved = FALSE
<1>1. CASE Candidates = {}
  <2>1. Goes(c, [AtRest EXCEPT !.at = "cap"]) /\ answered' = answered
    BY <1>1 DEF Current
  <2>. QED
    BY <1>1, <2>1, GoesToCap
<1>2. CASE Candidates # {}
  <2>1. PICK t : t = Newest(Candidates)
    OBVIOUS
  <2>2. Candidates \in SUBSET There /\ Candidates \subseteq Theme
    BY DEF Candidates, Unpublished, There, ThemesOK
  <2>3. t \in Candidates /\ t \in Theme
    BY <1>2, <2>1, <2>2, NewestIsOne
  <2>4. Goes(c, [AtRest EXCEPT !.at = "ready", !.theme = t]) /\ answered' = answered \cup {t}
    BY <1>2, <2>1 DEF Current
  <2>. QED
    BY <2>3, <2>4, GoesReady
<1>. QED
  BY <1>1, <1>2

LEMMA CheckCapDoes ==
  ASSUME TasksOK, NEW c \in Caller, CheckCap(c)
  PROVE  /\ Only(c) /\ task[c].at = "cap"
         /\ \/ task'[c] = AtRest
            \/ /\ ~(Cardinality(Unpublished) >= Cap)
               /\ task'[c].at = "live" /\ task'[c].theme = task[c].theme /\ task'[c].source = task[c].source
               /\ task'[c].todo = task[c].todo /\ task'[c].flight = task[c].flight
               /\ task'[c].workers = task[c].workers /\ task'[c].stale = task[c].stale
               /\ task'[c].grew = task[c].grew /\ task'[c].moved = task[c].moved
<1>1. CASE Cardinality(Unpublished) >= Cap
  <2>1. Goes(c, AtRest)
    BY <1>1 DEF CheckCap
  <2>2. task[c].at = "cap"
    BY DEF CheckCap
  <2>. QED
    BY <2>1, <2>2, GoesRest
<1>2. CASE ~(Cardinality(Unpublished) >= Cap)
  <2>1. Goes(c, [task[c] EXCEPT !.at = "live"]) /\ task[c].at = "cap"
    BY <1>2 DEF CheckCap
  <2>. QED
    BY <1>2, <2>1, GoesLive
<1>. QED
  BY <1>1, <1>2

LEMMA ReadLiveDoes ==
  ASSUME ThemesOK, TasksOK, OneMain, NEW c \in Caller, ReadLive(c)
  PROVE  /\ Only(c) /\ task[c].at = "live"
         /\ task'[c].at = "create" /\ task'[c].source = Main
         /\ task'[c].theme = task[c].theme /\ task'[c].todo = task[c].todo
         /\ task'[c].flight = task[c].flight /\ task'[c].workers = task[c].workers
         /\ task'[c].stale = task[c].stale /\ task'[c].grew = task[c].grew
         /\ task'[c].moved = task[c].moved
<1>1. PICK m : m = Main
  OBVIOUS
<1>2. Goes(c, [task[c] EXCEPT !.at = "create", !.source = m]) /\ task[c].at = "live"
  BY <1>1 DEF ReadLive
<1>3. m \in Theme
  BY <1>1, MainIs
<1>. QED
  BY <1>1, <1>2, <1>3, GoesCreate

LEMMA ListSourceDoes ==
  ASSUME TasksOK, NEW c \in Caller, ListSource(c)
  PROVE  /\ Only(c) /\ task[c].at = "list"
         /\ \/ /\ cutShort' = cutShort \cup {task[c].theme} /\ listed' = listed /\ task'[c] = AtRest
            \/ \E k \in SUBSET File :
                 /\ cutShort' = cutShort /\ listed' = [listed EXCEPT ![task[c].theme] = k]
                 /\ task'[c].at = "copy" /\ task'[c].todo = k /\ task'[c].theme = task[c].theme
                 /\ task'[c].source = task[c].source /\ task'[c].flight = task[c].flight
                 /\ task'[c].workers = task[c].workers /\ task'[c].stale = task[c].stale
                 /\ task'[c].grew = task[c].grew /\ task'[c].moved = task[c].moved
<1>1. CASE Exists(task[c].source)
  <2>1. PICK k : k = Keys(task[c].source)
    OBVIOUS
  <2>2. k \in SUBSET File
    BY <2>1 DEF Keys
  <2>3. /\ Goes(c, [task[c] EXCEPT !.at = "copy", !.todo = k]) /\ task[c].at = "list"
        /\ cutShort' = cutShort /\ listed' = [listed EXCEPT ![task[c].theme] = k]
    BY <1>1, <2>1 DEF ListSource
  <2>. QED
    BY <2>2, <2>3, GoesCopy
<1>2. CASE ~Exists(task[c].source)
  <2>1. /\ Goes(c, AtRest) /\ task[c].at = "list"
        /\ cutShort' = cutShort \cup {task[c].theme} /\ listed' = listed
    BY <1>2 DEF ListSource
  <2>. QED
    BY <2>1, GoesRest
<1>. QED
  BY <1>1, <1>2

LEMMA CopyReadDoes ==
  ASSUME TasksOK, NEW c \in Caller, IsFiniteSet(task[c].flight), CopyRead(c)
  PROVE  /\ Only(c) /\ task[c].at = "copy" /\ Cardinality(task[c].flight) < task[c].workers
         /\ \E f \in task[c].todo :
              \/ /\ cutShort' = cutShort
                 /\ task'[c].todo = task[c].todo \ {f} /\ task'[c].flight = task[c].flight \cup {f}
                 /\ task'[c].at = task[c].at /\ task'[c].theme = task[c].theme
                 /\ task'[c].source = task[c].source /\ task'[c].workers = task[c].workers
                 /\ task'[c].stale = task[c].stale /\ task'[c].grew = task[c].grew
                 /\ task'[c].moved = task[c].moved
              \/ /\ cutShort' = cutShort \cup {task[c].theme}
                 /\ task'[c].todo = task[c].todo \ {f} /\ task'[c].workers = task[c].workers - 1
                 /\ task'[c].at = task[c].at /\ task'[c].theme = task[c].theme
                 /\ task'[c].source = task[c].source /\ task'[c].flight = task[c].flight
                 /\ task'[c].stale = task[c].stale /\ task'[c].grew = task[c].grew
                 /\ task'[c].moved = task[c].moved
<1>1. task[c].at = "copy" /\ Cardinality(task[c].flight) < task[c].workers
  BY DEF CopyRead
<1>2. PICK f \in task[c].todo :
        \/ Goes(c, [task[c] EXCEPT !.todo = @ \ {f}, !.flight = @ \cup {f}]) /\ cutShort' = cutShort
        \/ /\ Goes(c, [task[c] EXCEPT !.todo = @ \ {f}, !.workers = @ - 1])
           /\ cutShort' = cutShort \cup {task[c].theme}
  BY DEF CopyRead
<1>3. task[c].workers > 0
  <2>1. Cardinality(task[c].flight) \in Nat
    BY FS_CardinalityType
  <2>2. task[c].workers \in 0 .. Workers /\ Workers \in Nat
    BY WtConstants DEF TasksOK, Task
  <2>. QED
    BY <1>1, <2>1, <2>2
<1>4. CASE Goes(c, [task[c] EXCEPT !.todo = @ \ {f}, !.flight = @ \cup {f}]) /\ cutShort' = cutShort
  BY <1>1, <1>4, GoesRead
<1>5. CASE /\ Goes(c, [task[c] EXCEPT !.todo = @ \ {f}, !.workers = @ - 1])
           /\ cutShort' = cutShort \cup {task[c].theme}
  BY <1>1, <1>3, <1>5, GoesMissing
<1>. QED
  BY <1>2, <1>4, <1>5

LEMMA CopyWriteDoes ==
  ASSUME TasksOK, NEW c \in Caller, CopyWrite(c)
  PROVE  /\ Only(c) /\ task[c].at = "copy" /\ Exists(task[c].theme)
         /\ \E f \in task[c].flight :
              /\ Put(task[c].theme, f, "theirs")
              /\ task'[c].flight = task[c].flight \ {f} /\ task'[c].at = task[c].at
              /\ task'[c].theme = task[c].theme /\ task'[c].source = task[c].source
              /\ task'[c].todo = task[c].todo /\ task'[c].workers = task[c].workers
              /\ task'[c].stale = task[c].stale /\ task'[c].grew = task[c].grew
              /\ task'[c].moved = task[c].moved
<1>1. PICK f \in task[c].flight : Put(task[c].theme, f, "theirs") /\ Goes(c, [task[c] EXCEPT !.flight = @ \ {f}])
  BY DEF CopyWrite
<1>2. task[c].at = "copy" /\ Exists(task[c].theme)
  BY DEF CopyWrite
<1>. QED
  BY <1>1, <1>2, GoesWritten

LEMMA CopyWriteFailsDoes ==
  ASSUME TasksOK, NEW c \in Caller, CopyWriteFails(c)
  PROVE  /\ Only(c) /\ task[c].at = "copy" /\ cutShort' = cutShort \cup {task[c].theme}
         /\ \E f \in task[c].flight :
              /\ task'[c].flight = task[c].flight \ {f} /\ task'[c].at = task[c].at
              /\ task'[c].theme = task[c].theme /\ task'[c].source = task[c].source
              /\ task'[c].todo = task[c].todo /\ task'[c].workers = task[c].workers
              /\ task'[c].stale = task[c].stale /\ task'[c].grew = task[c].grew
              /\ task'[c].moved = task[c].moved
<1>1. PICK f \in task[c].flight : Goes(c, [task[c] EXCEPT !.flight = @ \ {f}])
  BY DEF CopyWriteFails
<1>2. task[c].at = "copy" /\ cutShort' = cutShort \cup {task[c].theme}
  BY DEF CopyWriteFails
<1>. QED
  BY <1>1, <1>2, GoesWritten

LEMMA CopiedDoes ==
  ASSUME TasksOK, NEW c \in Caller, Copied(c)
  PROVE  /\ Only(c) /\ task[c].at = "copy" /\ task[c].flight = {}
         /\ \/ task'[c] = AtRest /\ task[c].workers < Workers /\ answered' = answered
            \/ /\ ~(task[c].workers < Workers) /\ task[c].todo = {}
               /\ answered' = answered \cup {task[c].theme}
               /\ task'[c].at = "ready" /\ task'[c].todo = {} /\ task'[c].stale = FALSE
               /\ task'[c].grew = FALSE /\ task'[c].theme = task[c].theme
               /\ task'[c].source = task[c].source /\ task'[c].flight = task[c].flight
               /\ task'[c].workers = task[c].workers /\ task'[c].moved = task[c].moved
<1>1. /\ task[c].at = "copy" /\ task[c].flight = {} /\ (task[c].todo = {} \/ task[c].workers = 0)
  BY DEF Copied
<1>2. CASE task[c].workers < Workers
  <2>1. Goes(c, AtRest) /\ answered' = answered
    BY <1>2 DEF Copied
  <2>. QED
    BY <1>1, <1>2, <2>1, GoesRest
<1>3. CASE ~(task[c].workers < Workers)
  <2>1. Give(c)
    BY <1>3 DEF Copied
  <2>2. answered' = answered \cup {task[c].theme}
    BY <2>1 DEF Give
  <2>3. task[c].todo = {}
    BY <1>1, <1>3, WtConstants
  <2>. QED
    BY <1>1, <1>3, <2>1, <2>2, <2>3, GoesGiven
<1>. QED
  BY <1>2, <1>3

LEMMA PollDoes ==
  ASSUME TasksOK, NEW c \in Caller, PollDone(c) \/ PollTimeout(c)
  PROVE  /\ Only(c) /\ task[c].at = "poll" /\ answered' = answered \cup {task[c].theme}
         /\ task'[c].at = "ready" /\ task'[c].todo = {} /\ task'[c].stale = FALSE
         /\ task'[c].grew = FALSE /\ task'[c].theme = task[c].theme
         /\ task'[c].source = task[c].source /\ task'[c].flight = task[c].flight
         /\ task'[c].workers = task[c].workers /\ task'[c].moved = task[c].moved
<1>1. Give(c) /\ task[c].at = "poll"
  BY DEF PollDone, PollTimeout
<1>2. answered' = answered \cup {task[c].theme}
  BY <1>1 DEF Give
<1>. QED
  BY <1>1, <1>2, GoesGiven

LEMMA EndDoes ==
  ASSUME TasksOK, NEW c \in Caller, RequestFails(c) \/ ToolWrite(c) \/ Leave(c)
  PROVE  Only(c) /\ task'[c] = AtRest
<1>1. Goes(c, AtRest)
  BY DEF RequestFails, ToolWrite, Leave
<1>. QED
  BY <1>1, GoesRest

\* A theme that comes to be.
LEMMA Arrives ==
  ASSUME ThemesOK, NotMade, NEW t \in Theme, New(t)
  PROVE  /\ t = made + 1 /\ made' = t /\ role[t] = "none" /\ t \notin working /\ listed[t] = {}
         /\ role' = [role EXCEPT ![t] = "unpublished"] /\ role' \in [Theme -> {"none", "main", "unpublished"}]
         /\ older' = Touched(t)
<1>1. t = made + 1 /\ made' = t /\ role' = [role EXCEPT ![t] = "unpublished"] /\ older' = Touched(t)
  BY DEF New
<1>2. t > made
  BY <1>1, WtConstants DEF ThemesOK
<1>. QED
  BY <1>1, <1>2 DEF NotMade, ThemesOK

LEMMA TouchedOK ==
  ASSUME ThemesOK, NEW t
  PROVE  Touched(t) \in [Theme -> SUBSET Theme]
  BY DEF Touched, ThemesOK

LEMMA RestartDoes ==
  ASSUME Restart
  PROVE  task' \in [Caller -> Task] /\ \A d \in Caller : task'[d] = AtRest
  BY Rested DEF Restart

-----------------------------------------------------------------------------
(* Every step keeps the types *)

\* Every step keeps the types of what the store and the histories have.
LEMMA WtTypes ==
  ASSUME WtInv, [WorkingThemeNext]_wtVars
  PROVE  ThemesOK'
<1>a. ThemesOK /\ TasksOK /\ InOrder /\ OneMain /\ NotMade /\ \A c \in Caller : HasTheme(c)
  BY DEF WtInv
<1>1. ASSUME NEW c \in Caller, Current(c) PROVE ThemesOK'
  <2>1. answered' \subseteq Theme
    BY <1>1, <1>a, CurrentDoes DEF ThemesOK, Candidates
  <2> QED BY <1>1, <1>a, <2>1 DEF Current, Stay, store, bounds, ThemesOK
<1>2. ASSUME NEW c \in Caller, CheckCap(c) PROVE ThemesOK'
  BY <1>2, <1>a DEF CheckCap, Stay, store, bounds, ThemesOK
<1>3. ASSUME NEW c \in Caller, ReadLive(c) PROVE ThemesOK'
  BY <1>3, <1>a DEF ReadLive, Stay, store, bounds, ThemesOK
<1>4. ASSUME NEW c \in Caller, Create(c) PROVE ThemesOK'
  <2>1. PICK t \in Theme : /\ New(t) /\ working' = working \cup {t}
           /\ doubled' = (doubled \/ task[c].stale) /\ overrun' = (overrun \/ task[c].grew)
           /\ \/ copying' = copying /\ listed' = listed
              \/ /\ copying' = copying \cup {t}
                 /\ listed' = [listed EXCEPT ![t] = Keys(task[c].source)]
    BY <1>4, <1>a, Creating
  <2>2. listed' \in [Theme -> SUBSET File]
    BY <1>a, <2>1 DEF Keys, ThemesOK
  <2>3. older' \in [Theme -> SUBSET Theme] /\ role' \in [Theme -> {"none", "main", "unpublished"}] /\ made' \in Theme
    BY <1>a, <2>1, Arrives, TouchedOK
  <2>4. task[c].stale \in BOOLEAN /\ task[c].grew \in BOOLEAN
    BY <1>a DEF TasksOK, Task
  <2>5. doubled' \in BOOLEAN /\ overrun' \in BOOLEAN
    BY <1>a, <2>1, <2>4 DEF ThemesOK
  <2>6. working' \subseteq Theme /\ copying' \subseteq Theme
    BY <1>a, <2>1 DEF ThemesOK
  <2>7. /\ engine' = engine /\ file' = file /\ answered' = answered /\ cutShort' = cutShort /\ kept' = kept
        /\ outside' = outside /\ faults' = faults
    BY <1>4 DEF Create, bounds
  <2> QED BY <1>a, <2>2, <2>3, <2>5, <2>6, <2>7 DEF ThemesOK
<1>5. ASSUME NEW c \in Caller, CreateAnswerLost(c) PROVE ThemesOK'
  <2>1. PICK t \in Theme : /\ New(t) /\ working' = working \cup {t}
           /\ doubled' = (doubled \/ task[c].stale) /\ overrun' = (overrun \/ task[c].grew)
    BY <1>5 DEF CreateAnswerLost
  <2>3. older' \in [Theme -> SUBSET Theme] /\ role' \in [Theme -> {"none", "main", "unpublished"}] /\ made' \in Theme
    BY <1>a, <2>1, Arrives, TouchedOK
  <2>4. task[c].stale \in BOOLEAN /\ task[c].grew \in BOOLEAN
    BY <1>a DEF TasksOK, Task
  <2>5. doubled' \in BOOLEAN /\ overrun' \in BOOLEAN
    BY <1>a, <2>1, <2>4 DEF ThemesOK
  <2>6. working' \subseteq Theme
    BY <1>a, <2>1 DEF ThemesOK
  <2>7. faults' \in 0 .. MaxFaults
    BY <1>5, <1>a, WorkingThemeAssumption DEF CreateAnswerLost, ThemesOK
  <2> QED BY <1>5, <1>a, <2>3, <2>5, <2>6, <2>7 DEF CreateAnswerLost, ThemesOK
<1>6. ASSUME NEW c \in Caller, ListSource(c) PROVE ThemesOK'
  <2>1. task[c].theme \in Theme
    BY <1>6, <1>a, WithTheme DEF ListSource
  <2>2. listed' \in [Theme -> SUBSET File] /\ cutShort' \subseteq Theme
    BY <1>6, <1>a, <2>1, ListSourceDoes DEF ThemesOK
  <2> QED BY <1>6, <1>a, <2>2 DEF ListSource, CopyStay, ThemesOK
<1>7. ASSUME NEW c \in Caller, CopyRead(c) PROVE ThemesOK'
  <2>1. task[c].theme \in Theme
    BY <1>7, <1>a, WithTheme DEF CopyRead
  <2>2. cutShort' \subseteq Theme
    BY <1>7, <1>a, <2>1 DEF CopyRead, ThemesOK
  <2>3. faults' \in 0 .. MaxFaults
    BY <1>7, <1>a, WorkingThemeAssumption DEF CopyRead, ThemesOK
  <2> QED BY <1>7, <1>a, <2>2, <2>3 DEF CopyRead, CopyStay, ThemesOK
<1>8. ASSUME NEW c \in Caller, CopyWrite(c) PROVE ThemesOK'
  <2>1. task[c].theme \in Theme
    BY <1>8, <1>a, WithTheme DEF CopyWrite
  <2>2. older' \in [Theme -> SUBSET Theme]
    BY <1>8, <1>a, TouchedOK DEF CopyWrite, Put
  <2>3. file' \in [Theme -> [File -> Content]]
    <3>1. task[c].flight \subseteq File
      BY <1>a DEF TasksOK, Task
    <3>2. PICK f \in task[c].flight : file' = [file EXCEPT ![task[c].theme][f] = "theirs"]
      BY <1>8 DEF CopyWrite, Put
    <3> QED BY <1>a, <2>1, <3>1, <3>2 DEF ThemesOK, Content
  <2> QED BY <1>8, <1>a, <2>2, <2>3 DEF CopyWrite, CopyStay, ThemesOK
<1>9. ASSUME NEW c \in Caller, CopyWriteFails(c) PROVE ThemesOK'
  <2>1. task[c].theme \in Theme
    BY <1>9, <1>a, WithTheme DEF CopyWriteFails
  <2>2. cutShort' \subseteq Theme
    BY <1>9, <1>a, <2>1 DEF CopyWriteFails, ThemesOK
  <2>3. faults' \in 0 .. MaxFaults
    BY <1>9, <1>a, WorkingThemeAssumption DEF CopyWriteFails, ThemesOK
  <2> QED BY <1>9, <1>a, <2>2, <2>3 DEF CopyWriteFails, CopyStay, ThemesOK
<1>10. ASSUME NEW c \in Caller, Copied(c) PROVE ThemesOK'
  <2>1. task[c].theme \in Theme
    BY <1>10, <1>a, WithTheme DEF Copied
  <2>2. answered' \subseteq Theme
    BY <1>10, <1>a, <2>1 DEF Copied, Give, ThemesOK
  <2> QED BY <1>10, <1>a, <2>2 DEF Copied, ThemesOK
<1>11. ASSUME NEW c \in Caller, RequestFails(c) PROVE ThemesOK'
  <2>1. task[c].at = "list" => task[c].theme \in Theme
    BY <1>a, WithTheme
  <2>2. cutShort' \subseteq Theme
    BY <1>11, <1>a, <2>1 DEF RequestFails, ThemesOK
  <2>3. faults' \in 0 .. MaxFaults
    BY <1>11, <1>a, WorkingThemeAssumption DEF RequestFails, ThemesOK
  <2> QED BY <1>11, <1>a, <2>2, <2>3 DEF RequestFails, store, ThemesOK
<1>12. ASSUME NEW c \in Caller, PollDone(c) PROVE ThemesOK'
  <2>1. task[c].theme \in Theme
    BY <1>12, <1>a, WithTheme DEF PollDone
  <2>2. answered' \subseteq Theme
    BY <1>12, <1>a, <2>1 DEF PollDone, Give, ThemesOK
  <2> QED BY <1>12, <1>a, <2>2 DEF PollDone, store, bounds, ThemesOK
<1>13. ASSUME NEW c \in Caller, PollTimeout(c) PROVE ThemesOK'
  <2>1. task[c].theme \in Theme
    BY <1>13, <1>a, WithTheme DEF PollTimeout
  <2>2. answered' \subseteq Theme
    BY <1>13, <1>a, <2>1 DEF PollTimeout, Give, ThemesOK
  <2>3. faults' \in 0 .. MaxFaults
    BY <1>13, <1>a, WorkingThemeAssumption DEF PollTimeout, ThemesOK
  <2> QED BY <1>13, <1>a, <2>2, <2>3 DEF PollTimeout, store, ThemesOK
<1>14. ASSUME NEW c \in Caller, ToolWrite(c) PROVE ThemesOK'
  <2>1. task[c].theme \in Theme
    BY <1>14, <1>a, WithTheme DEF ToolWrite
  <2>2. older' \in [Theme -> SUBSET Theme]
    BY <1>14, <1>a, TouchedOK DEF ToolWrite, Put
  <2>3. file' \in [Theme -> [File -> Content]]
    BY <1>14, <1>a, <2>1 DEF ToolWrite, Put, ThemesOK, Content
  <2>4. kept' \subseteq Theme \X File
    BY <1>14, <1>a, <2>1 DEF ToolWrite, ThemesOK
  <2> QED BY <1>14, <1>a, <2>2, <2>3, <2>4 DEF ToolWrite, bounds, ThemesOK
<1>15. ASSUME NEW c \in Caller, Leave(c) PROVE ThemesOK'
  BY <1>15, <1>a DEF Leave, store, bounds, history, ThemesOK
<1>16. ASSUME NEW t \in Theme, ShopifyCopies(t) PROVE ThemesOK'
  <2>2. older' \in [Theme -> SUBSET Theme]
    BY <1>16, <1>a, TouchedOK DEF ShopifyCopies
  <2>3. file' \in [Theme -> [File -> Content]]
    BY <1>16, <1>a DEF ShopifyCopies, ThemesOK, Content
  <2> QED BY <1>16, <1>a, <2>2, <2>3 DEF ShopifyCopies, history, bounds, ThemesOK
<1>17. ASSUME NEW t \in Theme, Publish(t) PROVE ThemesOK'
  <2>1. Main \in Theme
    BY <1>a, MainIs
  <2>2. role' \in [Theme -> {"none", "main", "unpublished"}]
    BY <1>17, <1>a, <2>1 DEF Publish, ThemesOK
  <2>3. doubled' \in BOOLEAN
    BY <1>17, <1>a DEF Publish, ThemesOK
  <2>5. outside' \in 0 .. MaxOutside
    <3>1. outside < MaxOutside /\ outside' = outside + 1
      BY <1>17 DEF Publish, ByMerchant
    <3> QED BY <1>a, <3>1, WorkingThemeAssumption DEF ThemesOK
  <2> QED BY <1>17, <1>a, <2>2, <2>3, <2>5 DEF Publish, ByMerchant, ThemesOK
<1>18. ASSUME NEW t \in Theme, AddTheme(t) PROVE ThemesOK'
  <2>1. New(t)
    BY <1>18 DEF AddTheme
  <2>3. older' \in [Theme -> SUBSET Theme] /\ role' \in [Theme -> {"none", "main", "unpublished"}] /\ made' \in Theme
    BY <1>a, <2>1, Arrives, TouchedOK
  <2>4. file' \in [Theme -> [File -> Content]]
    BY <1>18, <1>a DEF AddTheme, ThemesOK, Content
  <2>5. outside' \in 0 .. MaxOutside
    BY <1>18, <1>a, WorkingThemeAssumption DEF AddTheme, ByMerchant, ThemesOK
  <2> QED BY <1>18, <1>a, <2>3, <2>4, <2>5 DEF AddTheme, ByMerchant, ThemesOK
<1>19. ASSUME NEW t \in Theme, DeleteTheme(t) PROVE ThemesOK'
  <2>1. older' \in [Theme -> SUBSET Theme] /\ role' \in [Theme -> {"none", "main", "unpublished"}]
    BY <1>19, <1>a DEF DeleteTheme, ThemesOK
  <2>5. outside' \in 0 .. MaxOutside
    BY <1>19, <1>a, WorkingThemeAssumption DEF DeleteTheme, ByMerchant, ThemesOK
  <2> QED BY <1>19, <1>a, <2>1, <2>5 DEF DeleteTheme, ByMerchant, ThemesOK
<1>20. ASSUME NEW f \in File, DeleteFile(f) PROVE ThemesOK'
  <2>1. Main \in Theme
    BY <1>a, MainIs
  <2>2. older' \in [Theme -> SUBSET Theme]
    BY <1>20, <1>a, TouchedOK DEF DeleteFile, Put
  <2>3. file' \in [Theme -> [File -> Content]] /\ listed' \in [Theme -> SUBSET File]
    BY <1>20, <1>a, <2>1 DEF DeleteFile, Put, ThemesOK, Content
  <2>5. outside' \in 0 .. MaxOutside
    BY <1>20, <1>a, WorkingThemeAssumption DEF DeleteFile, ByMerchant, ThemesOK
  <2> QED BY <1>20, <1>a, <2>2, <2>3, <2>5 DEF DeleteFile, ByMerchant, ThemesOK
<1>21. CASE Restart
  <2>1. \A d \in Caller : task[d].at \in {"list", "copy"} => task[d].theme \in Theme
    BY <1>a, WithTheme
  <2>2. cutShort' \subseteq Theme
    BY <1>21, <1>a, <2>1 DEF Restart, ThemesOK
  <2>3. faults' \in 0 .. MaxFaults
    BY <1>21, <1>a, WorkingThemeAssumption DEF Restart, ThemesOK
  <2> QED BY <1>21, <1>a, <2>2, <2>3 DEF Restart, store, ThemesOK
<1>22. CASE UNCHANGED wtVars
  BY <1>22, <1>a DEF wtVars, store, history, bounds, ThemesOK
<1>. QED
  BY <1>1, <1>2, <1>3, <1>4, <1>5, <1>6, <1>7, <1>8, <1>9, <1>10, <1>11, <1>12, <1>13, <1>14,
     <1>15, <1>16, <1>17, <1>18, <1>19, <1>20, <1>21, <1>22 DEF WorkingThemeNext

\* Every step keeps the types of what the callers have.
LEMMA WtTasks ==
  ASSUME WtInv, [WorkingThemeNext]_wtVars
  PROVE  TasksOK'
<1>a. ThemesOK /\ TasksOK /\ InOrder /\ OneMain /\ \A c \in Caller : HasWorkers(c)
  BY DEF WtInv
<1>1. ASSUME NEW c \in Caller, Current(c) PROVE TasksOK'
  BY <1>1, <1>a, CurrentDoes DEF Only, TasksOK
<1>2. ASSUME NEW c \in Caller, CheckCap(c) PROVE TasksOK'
  BY <1>2, <1>a, CheckCapDoes DEF Only, TasksOK
<1>3. ASSUME NEW c \in Caller, ReadLive(c) PROVE TasksOK'
  BY <1>3, <1>a, ReadLiveDoes DEF Only, TasksOK
<1>4. ASSUME NEW c \in Caller, Create(c) PROVE TasksOK'
  BY <1>4, <1>a, Creating DEF TasksOK
<1>5. ASSUME NEW c \in Caller, CreateAnswerLost(c) PROVE TasksOK'
  BY <1>5, <1>a, Seeing DEF CreateAnswerLost, TasksOK
<1>6. ASSUME NEW c \in Caller, ListSource(c) PROVE TasksOK'
  BY <1>6, <1>a, ListSourceDoes DEF Only, TasksOK
<1>7. ASSUME NEW c \in Caller, CopyRead(c) PROVE TasksOK'
  BY <1>7, <1>a, CopyReadDoes DEF Only, TasksOK, HasWorkers
<1>8. ASSUME NEW c \in Caller, CopyWrite(c) PROVE TasksOK'
  BY <1>8, <1>a, CopyWriteDoes DEF Only, TasksOK
<1>9. ASSUME NEW c \in Caller, CopyWriteFails(c) PROVE TasksOK'
  BY <1>9, <1>a, CopyWriteFailsDoes DEF Only, TasksOK
<1>10. ASSUME NEW c \in Caller, Copied(c) PROVE TasksOK'
  BY <1>10, <1>a, CopiedDoes DEF Only, TasksOK
<1>11. ASSUME NEW c \in Caller, RequestFails(c) PROVE TasksOK'
  BY <1>11, <1>a, EndDoes DEF Only, TasksOK
<1>12. ASSUME NEW c \in Caller, PollDone(c) PROVE TasksOK'
  BY <1>12, <1>a, PollDoes DEF Only, TasksOK
<1>13. ASSUME NEW c \in Caller, PollTimeout(c) PROVE TasksOK'
  BY <1>13, <1>a, PollDoes DEF Only, TasksOK
<1>14. ASSUME NEW c \in Caller, ToolWrite(c) PROVE TasksOK'
  BY <1>14, <1>a, EndDoes DEF Only, TasksOK
<1>15. ASSUME NEW c \in Caller, Leave(c) PROVE TasksOK'
  BY <1>15, <1>a, EndDoes DEF Only, TasksOK
<1>16. ASSUME NEW t \in Theme, ShopifyCopies(t) PROVE TasksOK'
  BY <1>16, <1>a DEF ShopifyCopies, bounds, history, TasksOK
<1>17. ASSUME NEW t \in Theme, Publish(t) PROVE TasksOK'
  <2>1. \A d \in Caller : task'[d] \in Task
    BY <1>17, <1>a, Moving
  <2>2. PICK g : g = [d \in Caller |-> task'[d]]
    OBVIOUS
  <2>3. task' = g
    BY <1>17, <2>2 DEF Publish
  <2> QED BY <2>1, <2>2, <2>3 DEF TasksOK
<1>18. ASSUME NEW t \in Theme, AddTheme(t) PROVE TasksOK'
  BY <1>18, <1>a, Seeing DEF AddTheme, TasksOK
<1>19. ASSUME NEW t \in Theme, DeleteTheme(t) PROVE TasksOK'
  BY <1>19, <1>a DEF DeleteTheme, ByMerchant, TasksOK
<1>20. ASSUME NEW f \in File, DeleteFile(f) PROVE TasksOK'
  BY <1>20, <1>a DEF DeleteFile, ByMerchant, Put, TasksOK
<1>21. CASE Restart
  BY <1>21, RestartDoes DEF TasksOK
<1>22. CASE UNCHANGED wtVars
  BY <1>22, <1>a DEF wtVars, store, history, bounds, TasksOK
<1>. QED
  BY <1>1, <1>2, <1>3, <1>4, <1>5, <1>6, <1>7, <1>8, <1>9, <1>10, <1>11, <1>12, <1>13, <1>14,
     <1>15, <1>16, <1>17, <1>18, <1>19, <1>20, <1>21, <1>22 DEF WorkingThemeNext

-----------------------------------------------------------------------------
(* Every step keeps the order of the themes, the live theme, and what callers have *)

\* Updating a theme, or making one, keeps the order.
LEMMA TouchKeepsOrder ==
  ASSUME ThemesOK, InOrder, NEW t \in Theme, older' = Touched(t), There \subseteq There', There' \subseteq There \cup {t}
  PROVE  InOrder'
<1>1. There \subseteq Theme /\ There' \subseteq Theme
  BY DEF There
<1>2. \A x \in Theme : older'[x] = IF x = t THEN There \ {t} ELSE older[x] \ {t}
  BY DEF Touched, There
<1>6. \A x \in Theme : older[x] \subseteq There \ {x}
  BY DEF InOrder
<1>3. ASSUME NEW x \in Theme PROVE older'[x] \subseteq There' \ {x}
  <2>1. CASE x = t
    BY <1>2, <2>1
  <2>2. CASE x # t
    BY <1>2, <1>6, <2>2
  <2>. QED
    BY <2>1, <2>2
<1>4. ASSUME NEW x \in Theme, NEW u \in older'[x] PROVE older'[u] \subseteq older'[x]
  <2>5. u \in There /\ u # t
    BY <1>2, <1>4, <1>6
  <2>1. u \in There /\ u # t /\ u \in Theme
    BY <1>1, <2>5
  <2>2. older'[u] = older[u] \ {t} /\ older[u] \subseteq There
    BY <1>2, <2>1 DEF InOrder
  <2>3. CASE x = t
    BY <1>2, <2>2, <2>3
  <2>4. CASE x # t
    <3>1. u \in older[x] /\ older'[x] = older[x] \ {t}
      BY <1>2, <1>4, <2>4
    <3>2. older[u] \subseteq older[x]
      BY <3>1 DEF InOrder
    <3>. QED
      BY <2>2, <3>1, <3>2
  <2>. QED
    BY <2>3, <2>4
<1>5. ASSUME NEW x \in There', NEW u \in There', x # u PROVE x \in older'[u] \/ u \in older'[x]
  <2>1. x \in Theme /\ u \in Theme
    BY <1>1, <1>5
  <2>2. CASE x = t
    BY <1>2, <1>5, <2>1, <2>2
  <2>3. CASE u = t
    BY <1>2, <1>5, <2>1, <2>3
  <2>4. CASE x # t /\ u # t
    <3>1. x \in older[u] \/ u \in older[x]
      BY <1>5, <2>4 DEF InOrder
    <3>. QED
      BY <1>2, <2>1, <2>4, <3>1
  <2>. QED
    BY <2>2, <2>3, <2>4
<1>. QED
  BY <1>3, <1>4, <1>5 DEF InOrder

LEMMA NewKeepsOrder ==
  ASSUME ThemesOK, InOrder, NotMade, NEW t \in Theme, New(t)
  PROVE  InOrder'
<1>1. older' = Touched(t) /\ role' = [role EXCEPT ![t] = "unpublished"] /\ role[t] = "none"
  BY Arrives
<1>2. \A x \in Theme : role'[x] = IF x = t THEN "unpublished" ELSE role[x]
  BY <1>1 DEF ThemesOK
<1>3. There \subseteq There' /\ There' \subseteq There \cup {t}
  BY <1>2 DEF There
<1>. QED
  BY <1>1, <1>3, TouchKeepsOrder

\* Every step keeps the order of the themes.
LEMMA WtOrder ==
  ASSUME WtInv, [WorkingThemeNext]_wtVars
  PROVE  InOrder'
<1>a. ThemesOK /\ TasksOK /\ InOrder /\ OneMain /\ NotMade /\ \A c \in Caller : HasTheme(c)
  BY DEF WtInv
<1>1. ASSUME NEW c \in Caller, Current(c) PROVE InOrder'
  BY <1>1, <1>a DEF Current, Stay, store, bounds, InOrder, There
<1>2. ASSUME NEW c \in Caller, CheckCap(c) PROVE InOrder'
  BY <1>2, <1>a DEF CheckCap, Stay, store, bounds, InOrder, There
<1>3. ASSUME NEW c \in Caller, ReadLive(c) PROVE InOrder'
  BY <1>3, <1>a DEF ReadLive, Stay, store, bounds, InOrder, There
<1>4. ASSUME NEW c \in Caller, Create(c) PROVE InOrder'
  <2>1. PICK t \in Theme : New(t)
    BY <1>4, <1>a, Creating
  <2> QED BY <1>a, <2>1, NewKeepsOrder
<1>5. ASSUME NEW c \in Caller, CreateAnswerLost(c) PROVE InOrder'
  <2>1. PICK t \in Theme : New(t)
    BY <1>5 DEF CreateAnswerLost
  <2> QED BY <1>a, <2>1, NewKeepsOrder
<1>6. ASSUME NEW c \in Caller, ListSource(c) PROVE InOrder'
  BY <1>6, <1>a DEF ListSource, CopyStay, InOrder, There
<1>7. ASSUME NEW c \in Caller, CopyRead(c) PROVE InOrder'
  BY <1>7, <1>a DEF CopyRead, CopyStay, InOrder, There
<1>8. ASSUME NEW c \in Caller, CopyWrite(c) PROVE InOrder'
  <2>1. older' = Touched(task[c].theme) /\ role' = role
    BY <1>8 DEF CopyWrite, CopyStay, Put
  <2>2. task[c].theme \in Theme
    BY <1>8, <1>a, WithTheme DEF CopyWrite
  <2>3. There' = There
    BY <2>1 DEF There
  <2> QED BY <1>a, <2>1, <2>2, <2>3, TouchKeepsOrder
<1>9. ASSUME NEW c \in Caller, CopyWriteFails(c) PROVE InOrder'
  BY <1>9, <1>a DEF CopyWriteFails, CopyStay, InOrder, There
<1>10. ASSUME NEW c \in Caller, Copied(c) PROVE InOrder'
  BY <1>10, <1>a DEF Copied, Give, InOrder, There
<1>11. ASSUME NEW c \in Caller, RequestFails(c) PROVE InOrder'
  BY <1>11, <1>a DEF RequestFails, store, InOrder, There
<1>12. ASSUME NEW c \in Caller, PollDone(c) PROVE InOrder'
  BY <1>12, <1>a DEF PollDone, store, bounds, Give, InOrder, There
<1>13. ASSUME NEW c \in Caller, PollTimeout(c) PROVE InOrder'
  BY <1>13, <1>a DEF PollTimeout, store, Give, InOrder, There
<1>14. ASSUME NEW c \in Caller, ToolWrite(c) PROVE InOrder'
  <2>1. older' = Touched(task[c].theme) /\ role' = role
    BY <1>14 DEF ToolWrite, bounds, Put
  <2>2. task[c].theme \in Theme
    BY <1>14, <1>a, WithTheme DEF ToolWrite
  <2>3. There' = There
    BY <2>1 DEF There
  <2> QED BY <1>a, <2>1, <2>2, <2>3, TouchKeepsOrder
<1>15. ASSUME NEW c \in Caller, Leave(c) PROVE InOrder'
  BY <1>15, <1>a DEF Leave, store, bounds, history, InOrder, There
<1>16. ASSUME NEW t \in Theme, ShopifyCopies(t) PROVE InOrder'
  <2>1. older' = Touched(t) /\ role' = role
    BY <1>16 DEF ShopifyCopies
  <2>3. There' = There
    BY <2>1 DEF There
  <2> QED BY <1>a, <2>1, <2>3, TouchKeepsOrder
<1>17. ASSUME NEW t \in Theme, Publish(t) PROVE InOrder'
  <2>1. older' = older
    BY <1>17 DEF Publish
  <2>2. Main \in Theme /\ role[Main] = "main"
    BY <1>a, MainIs
  <2>3. role[t] = "unpublished" /\ role' = [role EXCEPT ![t] = "main", ![Main] = "unpublished"]
    BY <1>17 DEF Publish
  <2>4. \A x \in Theme : role'[x] # "none" <=> role[x] # "none"
    BY <1>a, <2>2, <2>3 DEF ThemesOK
  <2>5. There' = There
    BY <2>4 DEF There
  <2> QED BY <1>a, <2>1, <2>5 DEF InOrder
<1>18. ASSUME NEW t \in Theme, AddTheme(t) PROVE InOrder'
  BY <1>18, <1>a, NewKeepsOrder DEF AddTheme
<1>19. ASSUME NEW t \in Theme, DeleteTheme(t) PROVE InOrder'
  <2>1. older' = [x \in Theme |-> IF x = t THEN {} ELSE older[x] \ {t}]
    BY <1>19 DEF DeleteTheme
  <2>2. role' = [role EXCEPT ![t] = "none"]
    BY <1>19 DEF DeleteTheme
  <2>3. There' = There \ {t} /\ There \subseteq Theme
    BY <1>a, <2>2 DEF There, ThemesOK
  <2>4. \A x \in Theme : older'[x] = IF x = t THEN {} ELSE older[x] \ {t}
    BY <2>1
  <2>8. \A x \in Theme : older[x] \subseteq There \ {x}
    BY <1>a DEF InOrder
  <2>5. \A x \in Theme : older'[x] \subseteq There' \ {x}
    BY <2>3, <2>4, <2>8
  <2>6. ASSUME NEW x \in Theme, NEW u \in older'[x] PROVE older'[u] \subseteq older'[x]
    <3>1. x # t /\ u # t /\ u \in older[x] /\ u \in Theme
      BY <2>3, <2>4, <2>5, <2>6
    <3>2. older[u] \subseteq older[x]
      BY <1>a, <3>1 DEF InOrder
    <3> QED BY <2>4, <3>1, <3>2
  <2>7. ASSUME NEW x \in There', NEW u \in There', x # u PROVE x \in older'[u] \/ u \in older'[x]
    <3>1. x \in There /\ u \in There /\ x # t /\ u # t /\ x \in Theme /\ u \in Theme
      BY <2>3, <2>7
    <3>2. x \in older[u] \/ u \in older[x]
      BY <1>a, <2>7, <3>1 DEF InOrder
    <3> QED BY <2>4, <3>1, <3>2
  <2> QED BY <2>5, <2>6, <2>7 DEF InOrder
<1>20. ASSUME NEW f \in File, DeleteFile(f) PROVE InOrder'
  <2>1. older' = Touched(Main) /\ role' = role
    BY <1>20 DEF DeleteFile, Put
  <2>2. Main \in Theme
    BY <1>a, MainIs
  <2>3. There' = There
    BY <2>1 DEF There
  <2> QED BY <1>a, <2>1, <2>2, <2>3, TouchKeepsOrder
<1>21. CASE Restart
  BY <1>21, <1>a DEF Restart, store, InOrder, There
<1>22. CASE UNCHANGED wtVars
  BY <1>22, <1>a DEF wtVars, store, history, bounds, InOrder, There
<1>. QED
  BY <1>1, <1>2, <1>3, <1>4, <1>5, <1>6, <1>7, <1>8, <1>9, <1>10, <1>11, <1>12, <1>13, <1>14,
     <1>15, <1>16, <1>17, <1>18, <1>19, <1>20, <1>21, <1>22 DEF WorkingThemeNext

LEMMA NewKeepsMain ==
  ASSUME ThemesOK, OneMain, NotMade, NEW t \in Theme, New(t)
  PROVE  OneMain'
<1>1. PICK m \in Theme : role[m] = "main" /\ \A x \in Theme \ {m} : role[x] # "main"
  BY DEF OneMain
<1>2. role' = [role EXCEPT ![t] = "unpublished"] /\ role[t] = "none"
  BY Arrives
<1>3. role'[m] = "main" /\ \A x \in Theme \ {m} : role'[x] # "main"
  BY <1>1, <1>2 DEF ThemesOK
<1>. QED
  BY <1>3 DEF OneMain

\* Every step keeps one live theme.
LEMMA WtMain ==
  ASSUME WtInv, [WorkingThemeNext]_wtVars
  PROVE  OneMain'
<1>a. ThemesOK /\ TasksOK /\ OneMain /\ NotMade
  BY DEF WtInv
<1>1. ASSUME NEW c \in Caller, Current(c) PROVE OneMain'
  BY <1>1, <1>a DEF Current, Stay, store, bounds, OneMain
<1>2. ASSUME NEW c \in Caller, CheckCap(c) PROVE OneMain'
  BY <1>2, <1>a DEF CheckCap, Stay, store, bounds, OneMain
<1>3. ASSUME NEW c \in Caller, ReadLive(c) PROVE OneMain'
  BY <1>3, <1>a DEF ReadLive, Stay, store, bounds, OneMain
<1>4. ASSUME NEW c \in Caller, Create(c) PROVE OneMain'
  <2>1. PICK t \in Theme : New(t)
    BY <1>4, <1>a, Creating
  <2> QED BY <1>a, <2>1, NewKeepsMain
<1>5. ASSUME NEW c \in Caller, CreateAnswerLost(c) PROVE OneMain'
  <2>1. PICK t \in Theme : New(t)
    BY <1>5 DEF CreateAnswerLost
  <2> QED BY <1>a, <2>1, NewKeepsMain
<1>6. ASSUME NEW c \in Caller, ListSource(c) PROVE OneMain'
  BY <1>6, <1>a DEF ListSource, CopyStay, OneMain
<1>7. ASSUME NEW c \in Caller, CopyRead(c) PROVE OneMain'
  BY <1>7, <1>a DEF CopyRead, CopyStay, OneMain
<1>8. ASSUME NEW c \in Caller, CopyWrite(c) PROVE OneMain'
  BY <1>8, <1>a DEF CopyWrite, CopyStay, Put, OneMain
<1>9. ASSUME NEW c \in Caller, CopyWriteFails(c) PROVE OneMain'
  BY <1>9, <1>a DEF CopyWriteFails, CopyStay, OneMain
<1>10. ASSUME NEW c \in Caller, Copied(c) PROVE OneMain'
  BY <1>10, <1>a DEF Copied, Give, OneMain
<1>11. ASSUME NEW c \in Caller, RequestFails(c) PROVE OneMain'
  BY <1>11, <1>a DEF RequestFails, store, OneMain
<1>12. ASSUME NEW c \in Caller, PollDone(c) PROVE OneMain'
  BY <1>12, <1>a DEF PollDone, store, bounds, Give, OneMain
<1>13. ASSUME NEW c \in Caller, PollTimeout(c) PROVE OneMain'
  BY <1>13, <1>a DEF PollTimeout, store, Give, OneMain
<1>14. ASSUME NEW c \in Caller, ToolWrite(c) PROVE OneMain'
  BY <1>14, <1>a DEF ToolWrite, bounds, Put, OneMain
<1>15. ASSUME NEW c \in Caller, Leave(c) PROVE OneMain'
  BY <1>15, <1>a DEF Leave, store, bounds, history, OneMain
<1>16. ASSUME NEW t \in Theme, ShopifyCopies(t) PROVE OneMain'
  BY <1>16, <1>a DEF ShopifyCopies, bounds, history, OneMain
<1>17. ASSUME NEW t \in Theme, Publish(t) PROVE OneMain'
  <2>2. Main \in Theme /\ role[Main] = "main" /\ \A x \in Theme \ {Main} : role[x] # "main"
    BY <1>a, MainIs
  <2>3. role[t] = "unpublished" /\ role' = [role EXCEPT ![t] = "main", ![Main] = "unpublished"]
    BY <1>17 DEF Publish
  <2>4. role'[t] = "main" /\ \A x \in Theme \ {t} : role'[x] # "main"
    BY <1>a, <2>2, <2>3 DEF ThemesOK
  <2> QED BY <2>4 DEF OneMain
<1>18. ASSUME NEW t \in Theme, AddTheme(t) PROVE OneMain'
  BY <1>18, <1>a, NewKeepsMain DEF AddTheme
<1>19. ASSUME NEW t \in Theme, DeleteTheme(t) PROVE OneMain'
  <2>1. PICK m \in Theme : role[m] = "main" /\ \A x \in Theme \ {m} : role[x] # "main"
    BY <1>a DEF OneMain
  <2>2. role' = [role EXCEPT ![t] = "none"] /\ role[t] = "unpublished"
    BY <1>19 DEF DeleteTheme
  <2>3. role'[m] = "main" /\ \A x \in Theme \ {m} : role'[x] # "main"
    BY <1>a, <2>1, <2>2 DEF ThemesOK
  <2> QED BY <2>3 DEF OneMain
<1>20. ASSUME NEW f \in File, DeleteFile(f) PROVE OneMain'
  BY <1>20, <1>a DEF DeleteFile, ByMerchant, Put, OneMain
<1>21. CASE Restart
  BY <1>21, <1>a DEF Restart, store, OneMain
<1>22. CASE UNCHANGED wtVars
  BY <1>22, <1>a DEF wtVars, store, history, bounds, OneMain
<1>. QED
  BY <1>1, <1>2, <1>3, <1>4, <1>5, <1>6, <1>7, <1>8, <1>9, <1>10, <1>11, <1>12, <1>13, <1>14,
     <1>15, <1>16, <1>17, <1>18, <1>19, <1>20, <1>21, <1>22 DEF WorkingThemeNext

LEMMA NewKeepsNotMade ==
  ASSUME ThemesOK, NotMade, NEW t \in Theme, New(t), working' \subseteq working \cup {t},
         \A x \in Theme : x # t => listed'[x] = listed[x]
  PROVE  NotMade'
<1>1. t = made + 1 /\ made' = t /\ role' = [role EXCEPT ![t] = "unpublished"]
  BY Arrives
<1>2. ASSUME NEW x \in Theme, x > made' PROVE x > made /\ x # t
  BY <1>1, <1>2, WtConstants DEF ThemesOK
<1>3. ASSUME NEW x \in Theme, x > made' PROVE role'[x] = "none" /\ x \notin working' /\ listed'[x] = {}
  BY <1>1, <1>2, <1>3 DEF ThemesOK, NotMade
<1>. QED
  BY <1>3 DEF NotMade

\* Every step keeps what is not made yet out of every list.
LEMMA WtNotMade ==
  ASSUME WtInv, [WorkingThemeNext]_wtVars
  PROVE  NotMade'
<1>a. ThemesOK /\ TasksOK /\ OneMain /\ NotMade /\ \A c \in Caller : HasTheme(c)
  BY DEF WtInv
<1>1. ASSUME NEW c \in Caller, Current(c) PROVE NotMade'
  BY <1>1, <1>a DEF Current, Stay, store, bounds, NotMade
<1>2. ASSUME NEW c \in Caller, CheckCap(c) PROVE NotMade'
  BY <1>2, <1>a DEF CheckCap, Stay, store, bounds, NotMade
<1>3. ASSUME NEW c \in Caller, ReadLive(c) PROVE NotMade'
  BY <1>3, <1>a DEF ReadLive, Stay, store, bounds, NotMade
<1>4. ASSUME NEW c \in Caller, Create(c) PROVE NotMade'
  <2>1. PICK t \in Theme : /\ New(t) /\ working' = working \cup {t}
           /\ (listed' = listed \/ listed' = [listed EXCEPT ![t] = Keys(task[c].source)])
    BY <1>4, <1>a, Creating
  <2> QED BY <1>a, <2>1, NewKeepsNotMade DEF ThemesOK
<1>5. ASSUME NEW c \in Caller, CreateAnswerLost(c) PROVE NotMade'
  <2>1. PICK t \in Theme : New(t) /\ working' = working \cup {t}
    BY <1>5 DEF CreateAnswerLost
  <2>2. listed' = listed
    BY <1>5 DEF CreateAnswerLost
  <2> QED BY <1>a, <2>1, <2>2, NewKeepsNotMade
<1>6. ASSUME NEW c \in Caller, ListSource(c) PROVE NotMade'
  <2>1. role' = role /\ working' = working /\ made' = made
    BY <1>6 DEF ListSource, CopyStay
  <2>2. task[c].theme <= made /\ task[c].theme \in Theme
    BY <1>6, <1>a, WithTheme DEF ListSource, HasTheme
  <2>3. \A x \in Theme : x # task[c].theme => listed'[x] = listed[x]
    BY <1>6, <1>a, ListSourceDoes DEF ThemesOK
  <2>4. \A x \in Theme : x > made => x # task[c].theme
    <3>1. made \in Nat /\ task[c].theme \in Nat
      BY <1>a, <2>2, WtConstants DEF ThemesOK
    <3> QED BY <2>2, <3>1
  <2> QED BY <1>a, <2>1, <2>3, <2>4 DEF NotMade
<1>7. ASSUME NEW c \in Caller, CopyRead(c) PROVE NotMade'
  BY <1>7, <1>a DEF CopyRead, CopyStay, NotMade
<1>8. ASSUME NEW c \in Caller, CopyWrite(c) PROVE NotMade'
  BY <1>8, <1>a DEF CopyWrite, CopyStay, Put, NotMade
<1>9. ASSUME NEW c \in Caller, CopyWriteFails(c) PROVE NotMade'
  BY <1>9, <1>a DEF CopyWriteFails, CopyStay, NotMade
<1>10. ASSUME NEW c \in Caller, Copied(c) PROVE NotMade'
  BY <1>10, <1>a DEF Copied, Give, NotMade
<1>11. ASSUME NEW c \in Caller, RequestFails(c) PROVE NotMade'
  BY <1>11, <1>a DEF RequestFails, store, NotMade
<1>12. ASSUME NEW c \in Caller, PollDone(c) PROVE NotMade'
  BY <1>12, <1>a DEF PollDone, store, bounds, Give, NotMade
<1>13. ASSUME NEW c \in Caller, PollTimeout(c) PROVE NotMade'
  BY <1>13, <1>a DEF PollTimeout, store, Give, NotMade
<1>14. ASSUME NEW c \in Caller, ToolWrite(c) PROVE NotMade'
  BY <1>14, <1>a DEF ToolWrite, bounds, Put, NotMade
<1>15. ASSUME NEW c \in Caller, Leave(c) PROVE NotMade'
  BY <1>15, <1>a DEF Leave, store, bounds, history, NotMade
<1>16. ASSUME NEW t \in Theme, ShopifyCopies(t) PROVE NotMade'
  BY <1>16, <1>a DEF ShopifyCopies, bounds, history, NotMade
<1>17. ASSUME NEW t \in Theme, Publish(t) PROVE NotMade'
  <2>1. working' = working /\ listed' = listed /\ made' = made
    BY <1>17 DEF Publish
  <2>2. Main \in Theme /\ role[Main] = "main"
    BY <1>a, MainIs
  <2>3. role[t] = "unpublished" /\ role' = [role EXCEPT ![t] = "main", ![Main] = "unpublished"]
    BY <1>17 DEF Publish
  <2>4. \A x \in Theme : role[x] = "none" => role'[x] = "none"
    BY <1>a, <2>2, <2>3 DEF ThemesOK
  <2> QED BY <1>a, <2>1, <2>4 DEF NotMade
<1>18. ASSUME NEW t \in Theme, AddTheme(t) PROVE NotMade'
  <2>1. New(t) /\ working' = working /\ listed' = listed
    BY <1>18 DEF AddTheme
  <2> QED BY <1>a, <2>1, NewKeepsNotMade
<1>19. ASSUME NEW t \in Theme, DeleteTheme(t) PROVE NotMade'
  <2>1. working' = working /\ listed' = listed /\ made' = made /\ role' = [role EXCEPT ![t] = "none"]
    BY <1>19 DEF DeleteTheme
  <2> QED BY <1>a, <2>1 DEF NotMade, ThemesOK
<1>20. ASSUME NEW f \in File, DeleteFile(f) PROVE NotMade'
  <2>1. working' = working /\ made' = made /\ role' = role
    BY <1>20 DEF DeleteFile
  <2>2. Main \in Theme
    BY <1>a, MainIs
  <2>3. \A x \in Theme : listed'[x] \subseteq listed[x]
    BY <1>20, <1>a, <2>2 DEF DeleteFile, ThemesOK
  <2> QED BY <1>a, <2>1, <2>3 DEF NotMade
<1>21. CASE Restart
  BY <1>21, <1>a DEF Restart, store, NotMade
<1>22. CASE UNCHANGED wtVars
  BY <1>22, <1>a DEF wtVars, store, history, bounds, NotMade
<1>. QED
  BY <1>1, <1>2, <1>3, <1>4, <1>5, <1>6, <1>7, <1>8, <1>9, <1>10, <1>11, <1>12, <1>13, <1>14,
     <1>15, <1>16, <1>17, <1>18, <1>19, <1>20, <1>21, <1>22 DEF WorkingThemeNext

LEMMA ThemeKept ==
  ASSUME NEW x \in Caller, HasTheme(x), task[x] \in Task, made \in Nat, made' \in Nat, made <= made',
         task'[x].theme = task[x].theme, task[x].moved => task'[x].moved,
         task'[x].at \in {"list", "copy", "poll", "ready"} => task[x].at \in {"list", "copy", "poll", "ready"},
         task[x].theme # 0 /\ role'[task[x].theme] = "main" => role[task[x].theme] = "main"
  PROVE  HasTheme(x)'
  BY DEF HasTheme, Task

LEMMA ThemeRested ==
  ASSUME NEW x \in Caller, task'[x] = AtRest, made' \in Nat
  PROVE  HasTheme(x)'
  BY Rested DEF HasTheme

\* Every step keeps callers true to the theme they have.
LEMMA WtHasTheme ==
  ASSUME WtInv, [WorkingThemeNext]_wtVars, NEW x \in Caller
  PROVE  HasTheme(x)'
<1>a. ThemesOK /\ TasksOK /\ InOrder /\ OneMain /\ NotMade /\ \A d \in Caller : HasTheme(d) /\ HasWorkers(d)
  BY DEF WtInv
<1>b. task[x] \in Task /\ HasTheme(x) /\ made \in Nat
  BY <1>a, WtConstants DEF TasksOK, ThemesOK
<1>c. made' \in Nat
  BY WtTypes, WtConstants DEF ThemesOK
<1>d. made' = made /\ task'[x] = task[x] /\ role' = role => HasTheme(x)'
  BY <1>b DEF HasTheme
<1>1. ASSUME NEW c \in Caller, Current(c) PROVE HasTheme(x)'
  <2>1. made' = made /\ role' = role
    BY <1>1 DEF Current, Stay, store, bounds
  <2>2. CASE x # c
    <3>1. task'[x] = task[x]
      BY <1>1, <1>a, <2>2, CurrentDoes DEF Only, HasWorkers
    <3> QED BY <1>d, <2>1, <3>1
  <2>3. CASE x = c
    <3>1. (task'[x].theme = 0 /\ task'[x].at = "cap") \/ task'[x].theme \in Candidates
      BY <1>1, <1>a, <2>3, CurrentDoes
    <3>2. ASSUME task'[x].theme \in Candidates PROVE HasTheme(x)'
      <4>1. PICK t : t = task'[x].theme
        OBVIOUS
      <4>2. t \in Theme /\ role[t] = "unpublished"
        BY <3>2, <4>1 DEF Candidates, Unpublished
      <4>3. t <= made /\ t # 0
        BY <1>a, <1>b, <4>2, WtConstants DEF NotMade
      <4> QED BY <2>1, <4>1, <4>2, <4>3 DEF HasTheme
    <3>3. ASSUME task'[x].theme = 0, task'[x].at = "cap" PROVE HasTheme(x)'
      BY <1>c, <3>3 DEF HasTheme
    <3> QED BY <3>1, <3>2, <3>3
  <2> QED BY <2>2, <2>3
<1>2. ASSUME NEW c \in Caller, CheckCap(c) PROVE HasTheme(x)'
  <2>1. made' = made /\ role' = role
    BY <1>2 DEF CheckCap, Stay, store, bounds
  <2>2. CASE x # c
    <3>1. task'[x] = task[x]
      BY <1>2, <1>a, <2>2, CheckCapDoes DEF Only, HasWorkers
    <3> QED BY <1>d, <2>1, <3>1
  <2>3. CASE x = c
    <3>1. \/ task'[x] = AtRest
          \/ /\ task'[x].theme = task[x].theme /\ task'[x].moved = task[x].moved
             /\ task'[x].at \in {"list", "copy", "poll", "ready"} => task[x].at \in {"list", "copy", "poll", "ready"}
      BY <1>2, <1>a, <2>3, CheckCapDoes
    <3> QED BY <1>b, <1>c, <2>1, <3>1, ThemeKept, ThemeRested
  <2> QED BY <2>2, <2>3
<1>3. ASSUME NEW c \in Caller, ReadLive(c) PROVE HasTheme(x)'
  <2>1. made' = made /\ role' = role
    BY <1>3 DEF ReadLive, Stay, store, bounds
  <2>2. CASE x # c
    <3>1. task'[x] = task[x]
      BY <1>3, <1>a, <2>2, ReadLiveDoes DEF Only, HasWorkers
    <3> QED BY <1>d, <2>1, <3>1
  <2>3. CASE x = c
    <3>1. /\ task'[x].theme = task[x].theme /\ task'[x].moved = task[x].moved
          /\ task'[x].at \in {"list", "copy", "poll", "ready"} => task[x].at \in {"list", "copy", "poll", "ready"}
      BY <1>3, <1>a, <2>3, ReadLiveDoes DEF HasWorkers
    <3> QED BY <1>b, <2>1, <3>1, ThemeKept
  <2> QED BY <2>2, <2>3
<1>4. ASSUME NEW c \in Caller, Create(c) PROVE HasTheme(x)'
  <2>1. PICK t \in Theme : /\ New(t) /\ task'[c].theme = t
           /\ \A d \in Caller : d # c => NewsOf(task[d], task'[d], t, working')
    BY <1>4, <1>a, Creating
  <2>2. t = made + 1 /\ made' = t /\ role' = [role EXCEPT ![t] = "unpublished"]
    BY <1>a, <2>1, Arrives
  <2>3. \A y \in Theme : role'[y] = "main" => role[y] = "main"
    BY <1>a, <2>2 DEF ThemesOK
  <2>4. CASE x # c
    <3>1. task'[x].theme = task[x].theme /\ task'[x].moved = task[x].moved /\ task'[x].at = task[x].at
      BY <2>1, <2>4 DEF NewsOf
    <3>2. task[x].theme # 0 => task[x].theme \in Theme
      BY <1>b, WtConstants DEF Task, Theme
    <3>3. made <= made'
      BY <1>b, <2>2
    <3> QED BY <1>b, <1>c, <2>3, <3>1, <3>2, <3>3, ThemeKept
  <2>5. CASE x = c
    <3>1. task'[x].theme = t /\ t # 0 /\ t <= made' /\ role'[t] = "unpublished"
      BY <1>a, <1>c, <2>1, <2>2, <2>5, WtConstants DEF ThemesOK
    <3> QED BY <3>1 DEF HasTheme
  <2> QED BY <2>4, <2>5
<1>5. ASSUME NEW c \in Caller, CreateAnswerLost(c) PROVE HasTheme(x)'
  <2>1. PICK t \in Theme : New(t) /\ task' = Seen(t)
    BY <1>5 DEF CreateAnswerLost
  <2>2. t = made + 1 /\ made' = t /\ role' = [role EXCEPT ![t] = "unpublished"]
    BY <1>a, <2>1, Arrives
  <2>3. \A y \in Theme : role'[y] = "main" => role[y] = "main"
    BY <1>a, <2>2 DEF ThemesOK
  <2>4. NewsOf(task[x], task'[x], t, working')
    BY <1>a, <2>1, Seeing
  <2>5. task'[x].theme = task[x].theme /\ task'[x].moved = task[x].moved /\ task'[x].at = task[x].at
    BY <2>4 DEF NewsOf
  <2>6. task[x].theme # 0 => task[x].theme \in Theme
    BY <1>b, WtConstants DEF Task, Theme
  <2>7. made <= made'
    BY <1>b, <2>2
  <2> QED BY <1>b, <1>c, <2>3, <2>5, <2>6, <2>7, ThemeKept
<1>6. ASSUME NEW c \in Caller, ListSource(c) PROVE HasTheme(x)'
  <2>1. made' = made /\ role' = role
    BY <1>6 DEF ListSource, CopyStay
  <2>2. CASE x # c
    <3>1. task'[x] = task[x]
      BY <1>6, <1>a, <2>2, ListSourceDoes DEF Only, HasWorkers
    <3> QED BY <1>d, <2>1, <3>1
  <2>3. CASE x = c
    <3>1. \/ task'[x] = AtRest
          \/ /\ task'[x].theme = task[x].theme /\ task'[x].moved = task[x].moved
             /\ task'[x].at \in {"list", "copy", "poll", "ready"} => task[x].at \in {"list", "copy", "poll", "ready"}
      BY <1>6, <1>a, <2>3, ListSourceDoes
    <3> QED BY <1>b, <1>c, <2>1, <3>1, ThemeKept, ThemeRested
  <2> QED BY <2>2, <2>3
<1>7. ASSUME NEW c \in Caller, CopyRead(c) PROVE HasTheme(x)'
  <2>1. made' = made /\ role' = role
    BY <1>7 DEF CopyRead, CopyStay
  <2>2. CASE x # c
    <3>1. task'[x] = task[x]
      BY <1>7, <1>a, <2>2, CopyReadDoes DEF Only, HasWorkers
    <3> QED BY <1>d, <2>1, <3>1
  <2>3. CASE x = c
    <3>1. /\ task'[x].theme = task[x].theme /\ task'[x].moved = task[x].moved
          /\ task'[x].at \in {"list", "copy", "poll", "ready"} => task[x].at \in {"list", "copy", "poll", "ready"}
      BY <1>7, <1>a, <2>3, CopyReadDoes DEF HasWorkers
    <3> QED BY <1>b, <2>1, <3>1, ThemeKept
  <2> QED BY <2>2, <2>3
<1>8. ASSUME NEW c \in Caller, CopyWrite(c) PROVE HasTheme(x)'
  <2>1. made' = made /\ role' = role
    BY <1>8 DEF CopyWrite, CopyStay, Put
  <2>2. CASE x # c
    <3>1. task'[x] = task[x]
      BY <1>8, <1>a, <2>2, CopyWriteDoes DEF Only, HasWorkers
    <3> QED BY <1>d, <2>1, <3>1
  <2>3. CASE x = c
    <3>1. /\ task'[x].theme = task[x].theme /\ task'[x].moved = task[x].moved
          /\ task'[x].at \in {"list", "copy", "poll", "ready"} => task[x].at \in {"list", "copy", "poll", "ready"}
      BY <1>8, <1>a, <2>3, CopyWriteDoes DEF HasWorkers
    <3> QED BY <1>b, <2>1, <3>1, ThemeKept
  <2> QED BY <2>2, <2>3
<1>9. ASSUME NEW c \in Caller, CopyWriteFails(c) PROVE HasTheme(x)'
  <2>1. made' = made /\ role' = role
    BY <1>9 DEF CopyWriteFails, CopyStay
  <2>2. CASE x # c
    <3>1. task'[x] = task[x]
      BY <1>9, <1>a, <2>2, CopyWriteFailsDoes DEF Only, HasWorkers
    <3> QED BY <1>d, <2>1, <3>1
  <2>3. CASE x = c
    <3>1. /\ task'[x].theme = task[x].theme /\ task'[x].moved = task[x].moved
          /\ task'[x].at \in {"list", "copy", "poll", "ready"} => task[x].at \in {"list", "copy", "poll", "ready"}
      BY <1>9, <1>a, <2>3, CopyWriteFailsDoes DEF HasWorkers
    <3> QED BY <1>b, <2>1, <3>1, ThemeKept
  <2> QED BY <2>2, <2>3
<1>10. ASSUME NEW c \in Caller, Copied(c) PROVE HasTheme(x)'
  <2>1. made' = made /\ role' = role
    BY <1>10 DEF Copied, Give
  <2>2. CASE x # c
    <3>1. task'[x] = task[x]
      BY <1>10, <1>a, <2>2, CopiedDoes DEF Only, HasWorkers
    <3> QED BY <1>d, <2>1, <3>1
  <2>3. CASE x = c
    <3>1. \/ task'[x] = AtRest
          \/ /\ task'[x].theme = task[x].theme /\ task'[x].moved = task[x].moved
             /\ task'[x].at \in {"list", "copy", "poll", "ready"} => task[x].at \in {"list", "copy", "poll", "ready"}
      BY <1>10, <1>a, <2>3, CopiedDoes
    <3> QED BY <1>b, <1>c, <2>1, <3>1, ThemeKept, ThemeRested
  <2> QED BY <2>2, <2>3
<1>11. ASSUME NEW c \in Caller, RequestFails(c) PROVE HasTheme(x)'
  <2>1. made' = made /\ role' = role
    BY <1>11 DEF RequestFails, store
  <2>2. CASE x # c
    <3>1. task'[x] = task[x]
      BY <1>11, <1>a, <2>2, EndDoes DEF Only, HasWorkers
    <3> QED BY <1>d, <2>1, <3>1
  <2>3. CASE x = c
    <3>1. task'[x] = AtRest
      BY <1>11, <1>a, <2>3, EndDoes
    <3> QED BY <1>c, <3>1, ThemeRested
  <2> QED BY <2>2, <2>3
<1>12. ASSUME NEW c \in Caller, PollDone(c) PROVE HasTheme(x)'
  <2>1. made' = made /\ role' = role
    BY <1>12 DEF PollDone, store, bounds, Give
  <2>2. CASE x # c
    <3>1. task'[x] = task[x]
      BY <1>12, <1>a, <2>2, PollDoes DEF Only, HasWorkers
    <3> QED BY <1>d, <2>1, <3>1
  <2>3. CASE x = c
    <3>1. /\ task'[x].theme = task[x].theme /\ task'[x].moved = task[x].moved
          /\ task'[x].at \in {"list", "copy", "poll", "ready"} => task[x].at \in {"list", "copy", "poll", "ready"}
      BY <1>12, <1>a, <2>3, PollDoes DEF HasWorkers
    <3> QED BY <1>b, <2>1, <3>1, ThemeKept
  <2> QED BY <2>2, <2>3
<1>13. ASSUME NEW c \in Caller, PollTimeout(c) PROVE HasTheme(x)'
  <2>1. made' = made /\ role' = role
    BY <1>13 DEF PollTimeout, store, Give
  <2>2. CASE x # c
    <3>1. task'[x] = task[x]
      BY <1>13, <1>a, <2>2, PollDoes DEF Only, HasWorkers
    <3> QED BY <1>d, <2>1, <3>1
  <2>3. CASE x = c
    <3>1. /\ task'[x].theme = task[x].theme /\ task'[x].moved = task[x].moved
          /\ task'[x].at \in {"list", "copy", "poll", "ready"} => task[x].at \in {"list", "copy", "poll", "ready"}
      BY <1>13, <1>a, <2>3, PollDoes DEF HasWorkers
    <3> QED BY <1>b, <2>1, <3>1, ThemeKept
  <2> QED BY <2>2, <2>3
<1>14. ASSUME NEW c \in Caller, ToolWrite(c) PROVE HasTheme(x)'
  <2>1. made' = made /\ role' = role
    BY <1>14 DEF ToolWrite, bounds, Put
  <2>2. CASE x # c
    <3>1. task'[x] = task[x]
      BY <1>14, <1>a, <2>2, EndDoes DEF Only, HasWorkers
    <3> QED BY <1>d, <2>1, <3>1
  <2>3. CASE x = c
    <3>1. task'[x] = AtRest
      BY <1>14, <1>a, <2>3, EndDoes
    <3> QED BY <1>c, <3>1, ThemeRested
  <2> QED BY <2>2, <2>3
<1>15. ASSUME NEW c \in Caller, Leave(c) PROVE HasTheme(x)'
  <2>1. made' = made /\ role' = role
    BY <1>15 DEF Leave, store, bounds, history
  <2>2. CASE x # c
    <3>1. task'[x] = task[x]
      BY <1>15, <1>a, <2>2, EndDoes DEF Only, HasWorkers
    <3> QED BY <1>d, <2>1, <3>1
  <2>3. CASE x = c
    <3>1. task'[x] = AtRest
      BY <1>15, <1>a, <2>3, EndDoes
    <3> QED BY <1>c, <3>1, ThemeRested
  <2> QED BY <2>2, <2>3
<1>16. ASSUME NEW t \in Theme, ShopifyCopies(t) PROVE HasTheme(x)'
  BY <1>16, <1>d DEF ShopifyCopies, bounds, history
<1>17. ASSUME NEW t \in Theme, Publish(t) PROVE HasTheme(x)'
  <2>1. made' = made
    BY <1>17 DEF Publish
  <2>2. Main \in Theme /\ role[Main] = "main"
    BY <1>a, MainIs
  <2>3. role[t] = "unpublished" /\ role' = [role EXCEPT ![t] = "main", ![Main] = "unpublished"]
    BY <1>17 DEF Publish
  <2>4. \A y \in Theme : role'[y] = "main" => y = t
    BY <1>a, <2>2, <2>3, MainIs DEF ThemesOK
  <2>5. /\ task'[x].at = task[x].at /\ task'[x].theme = task[x].theme
        /\ task'[x].moved <=> (task[x].moved \/ task[x].theme = t)
    BY <1>17, <1>a, Moving
  <2>6. task[x].theme # 0 => task[x].theme \in Theme
    BY <1>b, WtConstants DEF Task, Theme
  <2> QED BY <1>b, <2>1, <2>4, <2>5, <2>6 DEF HasTheme
<1>18. ASSUME NEW t \in Theme, AddTheme(t) PROVE HasTheme(x)'
  <2>1. New(t) /\ task' = Seen(t)
    BY <1>18 DEF AddTheme
  <2>2. t = made + 1 /\ made' = t /\ role' = [role EXCEPT ![t] = "unpublished"]
    BY <1>a, <2>1, Arrives
  <2>3. \A y \in Theme : role'[y] = "main" => role[y] = "main"
    BY <1>a, <2>2 DEF ThemesOK
  <2>4. NewsOf(task[x], task'[x], t, working')
    BY <1>a, <2>1, Seeing
  <2>5. task'[x].theme = task[x].theme /\ task'[x].moved = task[x].moved /\ task'[x].at = task[x].at
    BY <2>4 DEF NewsOf
  <2>6. task[x].theme # 0 => task[x].theme \in Theme
    BY <1>b, WtConstants DEF Task, Theme
  <2>7. made <= made'
    BY <1>b, <2>2
  <2> QED BY <1>b, <1>c, <2>3, <2>5, <2>6, <2>7, ThemeKept
<1>19. ASSUME NEW t \in Theme, DeleteTheme(t) PROVE HasTheme(x)'
  <2>1. made' = made /\ task' = task /\ role' = [role EXCEPT ![t] = "none"]
    BY <1>19 DEF DeleteTheme
  <2>2. \A y \in Theme : role'[y] = "main" => role[y] = "main"
    BY <1>a, <2>1 DEF ThemesOK
  <2>6. task[x].theme # 0 => task[x].theme \in Theme
    BY <1>b, WtConstants DEF Task, Theme
  <2> QED BY <1>b, <2>1, <2>2, <2>6 DEF HasTheme
<1>20. ASSUME NEW f \in File, DeleteFile(f) PROVE HasTheme(x)'
  BY <1>20, <1>d DEF DeleteFile, ByMerchant, Put
<1>21. CASE Restart
  <2>1. task'[x] = AtRest
    BY <1>21, RestartDoes
  <2> QED BY <1>c, <2>1, ThemeRested
<1>22. CASE UNCHANGED wtVars
  BY <1>22, <1>d DEF wtVars, store, history, bounds
<1>. QED
  BY <1>1, <1>2, <1>3, <1>4, <1>5, <1>6, <1>7, <1>8, <1>9, <1>10, <1>11, <1>12, <1>13, <1>14,
     <1>15, <1>16, <1>17, <1>18, <1>19, <1>20, <1>21, <1>22 DEF WorkingThemeNext

\* Every step keeps the workers of a caller in their number, and fewer only where a copy is cut short.
LEMMA WtHasWorkers ==
  ASSUME WtInv, [WorkingThemeNext]_wtVars, NEW x \in Caller
  PROVE  HasWorkers(x)'
<1>a. ThemesOK /\ TasksOK /\ InOrder /\ OneMain /\ NotMade /\ \A d \in Caller : HasTheme(d) /\ HasWorkers(d)
  BY DEF WtInv
<1>b. task[x] \in Task /\ HasWorkers(x)
  BY <1>a DEF TasksOK
<1>c. task'[x] = AtRest => HasWorkers(x)'
  BY Rested, WtConstants DEF HasWorkers
<1>d. cutShort' = cutShort /\ task'[x] = task[x] => HasWorkers(x)'
  BY <1>b DEF HasWorkers
<1>e. IsFiniteSet({}) /\ Cardinality({}) = 0 /\ Workers \in Nat /\ task[x].workers \in 0 .. Workers
  BY <1>b, FS_EmptySet, WtConstants DEF Task
<1>f. Cardinality(task[x].flight) \in Nat
  BY <1>b, FS_CardinalityType DEF HasWorkers
<1>1. ASSUME NEW c \in Caller, Current(c) PROVE HasWorkers(x)'
  <2>1. cutShort \subseteq cutShort'
    BY <1>1 DEF Current, Stay, store, bounds
  <2>2. CASE x # c
    <3>1. task'[x] = task[x]
      BY <1>1, <1>a, <2>2, CurrentDoes DEF Only, HasWorkers
    <3> QED BY <1>b, <2>1, <3>1 DEF HasWorkers
  <2>3. CASE x = c
    <3>1. task'[x].flight = {} /\ task'[x].workers = Workers
      BY <1>1, <1>a, <2>3, CurrentDoes
    <3> QED BY <1>e, <3>1 DEF HasWorkers
  <2> QED BY <2>2, <2>3
<1>2. ASSUME NEW c \in Caller, CheckCap(c) PROVE HasWorkers(x)'
  <2>1. cutShort \subseteq cutShort'
    BY <1>2 DEF CheckCap, Stay, store, bounds
  <2>2. CASE x # c
    <3>1. task'[x] = task[x]
      BY <1>2, <1>a, <2>2, CheckCapDoes DEF Only, HasWorkers
    <3> QED BY <1>b, <2>1, <3>1 DEF HasWorkers
  <2>3. CASE x = c
    <3>1. \/ task'[x] = AtRest
          \/ /\ task'[x].flight = task[x].flight /\ task'[x].workers = task[x].workers
             /\ task[x].at # "copy" \/ ~(task[x].workers < Workers)
      BY <1>2, <1>a, <2>3, CheckCapDoes
    <3> QED BY <1>b, <1>c, <3>1 DEF HasWorkers
  <2> QED BY <2>2, <2>3
<1>3. ASSUME NEW c \in Caller, ReadLive(c) PROVE HasWorkers(x)'
  <2>1. cutShort \subseteq cutShort'
    BY <1>3 DEF ReadLive, Stay, store, bounds
  <2>2. CASE x # c
    <3>1. task'[x] = task[x]
      BY <1>3, <1>a, <2>2, ReadLiveDoes DEF Only, HasWorkers
    <3> QED BY <1>b, <2>1, <3>1 DEF HasWorkers
  <2>3. CASE x = c
    <3>1. task'[x].flight = task[x].flight /\ task'[x].workers = task[x].workers /\ task[x].at # "copy"
      BY <1>3, <1>a, <2>3, ReadLiveDoes
    <3> QED BY <1>b, <3>1 DEF HasWorkers
  <2> QED BY <2>2, <2>3
<1>4. ASSUME NEW c \in Caller, Create(c) PROVE HasWorkers(x)'
  <2>0. cutShort' = cutShort
    BY <1>4 DEF Create
  <2>1. PICK t \in Theme : /\ task'[c].flight = task[c].flight /\ task[c].at = "create"
           /\ task'[c].workers = task[c].workers
           /\ \A d \in Caller : d # c => NewsOf(task[d], task'[d], t, working')
    BY <1>4, <1>a, Creating DEF Create
  <2>2. /\ task'[x].flight = task[x].flight /\ task'[x].workers = task[x].workers
        /\ (task[x].at = "create" \/ (task'[x].at = task[x].at /\ task'[x].theme = task[x].theme))
    BY <2>1 DEF NewsOf
  <2> QED BY <1>b, <2>0, <2>2 DEF HasWorkers
<1>5. ASSUME NEW c \in Caller, CreateAnswerLost(c) PROVE HasWorkers(x)'
  <2>1. PICK t \in Theme : task' = Seen(t) /\ cutShort' = cutShort
    BY <1>5 DEF CreateAnswerLost
  <2>4. NewsOf(task[x], task'[x], t, working')
    BY <1>a, <2>1, Seeing
  <2> QED BY <1>b, <2>1, <2>4 DEF NewsOf, HasWorkers
<1>6. ASSUME NEW c \in Caller, ListSource(c) PROVE HasWorkers(x)'
  <2>1. cutShort \subseteq cutShort'
    BY <1>6 DEF ListSource, CopyStay
  <2>2. CASE x # c
    <3>1. task'[x] = task[x]
      BY <1>6, <1>a, <2>2, ListSourceDoes DEF Only, HasWorkers
    <3> QED BY <1>b, <2>1, <3>1 DEF HasWorkers
  <2>3. CASE x = c
    <3>1. \/ task'[x] = AtRest
          \/ task'[x].flight = task[x].flight /\ task'[x].workers = task[x].workers /\ task'[x].at = "copy"
      BY <1>6, <1>a, <2>3, ListSourceDoes
    <3>2. task[x].at = "list"
      BY <1>6, <2>3 DEF ListSource
    <3> QED BY <1>b, <1>c, <1>e, <3>1, <3>2 DEF HasWorkers
  <2> QED BY <2>2, <2>3
<1>7. ASSUME NEW c \in Caller, CopyRead(c) PROVE HasWorkers(x)'
  <2>1. cutShort \subseteq cutShort'
    BY <1>7 DEF CopyRead, CopyStay
  <2>2. CASE x # c
    <3>1. task'[x] = task[x]
      BY <1>7, <1>a, <2>2, CopyReadDoes DEF Only, HasWorkers
    <3> QED BY <1>b, <2>1, <3>1 DEF HasWorkers
  <2>3. CASE x = c
    <3>0. task[x].at = "copy" /\ Cardinality(task[x].flight) < task[x].workers
      BY <1>7, <2>3 DEF CopyRead
    <3>1. PICK f \in task[x].todo :
            \/ /\ cutShort' = cutShort /\ task'[x].flight = task[x].flight \cup {f} /\ task'[x].theme = task[x].theme
               /\ task'[x].workers = task[x].workers /\ task'[x].at = task[x].at
            \/ /\ cutShort' = cutShort \cup {task[x].theme} /\ task'[x].flight = task[x].flight
               /\ task'[x].theme = task[x].theme /\ task'[x].at = task[x].at
      BY <1>7, <1>a, <2>3, CopyReadDoes DEF HasWorkers
    <3>2. IsFiniteSet(task[x].flight \cup {f}) /\ Cardinality(task[x].flight \cup {f}) <= Workers
      <4>1. IsFiniteSet(task[x].flight)
        BY <1>b DEF HasWorkers
      <4>2. /\ IsFiniteSet(task[x].flight \cup {f})
            /\ Cardinality(task[x].flight \cup {f}) = IF f \in task[x].flight THEN Cardinality(task[x].flight)
                                                      ELSE Cardinality(task[x].flight) + 1
        BY <4>1, FS_AddElement
      <4> QED BY <1>e, <1>f, <3>0, <4>2
    <3> QED BY <1>b, <3>0, <3>1, <3>2 DEF HasWorkers
  <2> QED BY <2>2, <2>3
<1>8. ASSUME NEW c \in Caller, CopyWrite(c) PROVE HasWorkers(x)'
  <2>1. cutShort \subseteq cutShort'
    BY <1>8 DEF CopyWrite, CopyStay, Put
  <2>2. CASE x # c
    <3>1. task'[x] = task[x]
      BY <1>8, <1>a, <2>2, CopyWriteDoes DEF Only, HasWorkers
    <3> QED BY <1>b, <2>1, <3>1 DEF HasWorkers
  <2>3. CASE x = c
    <3>1. PICK f \in task[x].flight :
            /\ task'[x].flight = task[x].flight \ {f} /\ task'[x].theme = task[x].theme
            /\ task'[x].workers = task[x].workers /\ task'[x].at = task[x].at
      BY <1>8, <1>a, <2>3, CopyWriteDoes
    <3>2. IsFiniteSet(task[x].flight \ {f}) /\ Cardinality(task[x].flight \ {f}) <= Workers
      <4>1. IsFiniteSet(task[x].flight) /\ Cardinality(task[x].flight) <= Workers
        BY <1>b DEF HasWorkers
      <4>2. IsFiniteSet(task[x].flight \ {f}) /\ Cardinality(task[x].flight \ {f}) = Cardinality(task[x].flight) - 1
        BY <3>1, <4>1, FS_RemoveElement
      <4> QED BY <1>e, <1>f, <4>1, <4>2
    <3> QED BY <1>b, <2>1, <3>1, <3>2 DEF HasWorkers
  <2> QED BY <2>2, <2>3
<1>9. ASSUME NEW c \in Caller, CopyWriteFails(c) PROVE HasWorkers(x)'
  <2>1. cutShort \subseteq cutShort'
    BY <1>9 DEF CopyWriteFails, CopyStay
  <2>2. CASE x # c
    <3>1. task'[x] = task[x]
      BY <1>9, <1>a, <2>2, CopyWriteFailsDoes DEF Only, HasWorkers
    <3> QED BY <1>b, <2>1, <3>1 DEF HasWorkers
  <2>3. CASE x = c
    <3>1. PICK f \in task[x].flight :
            /\ task'[x].flight = task[x].flight \ {f} /\ task'[x].theme = task[x].theme
            /\ task'[x].workers = task[x].workers /\ task'[x].at = task[x].at
      BY <1>9, <1>a, <2>3, CopyWriteFailsDoes
    <3>2. IsFiniteSet(task[x].flight \ {f}) /\ Cardinality(task[x].flight \ {f}) <= Workers
      <4>1. IsFiniteSet(task[x].flight) /\ Cardinality(task[x].flight) <= Workers
        BY <1>b DEF HasWorkers
      <4>2. IsFiniteSet(task[x].flight \ {f}) /\ Cardinality(task[x].flight \ {f}) = Cardinality(task[x].flight) - 1
        BY <3>1, <4>1, FS_RemoveElement
      <4> QED BY <1>e, <1>f, <4>1, <4>2
    <3> QED BY <1>b, <2>1, <3>1, <3>2 DEF HasWorkers
  <2> QED BY <2>2, <2>3
<1>10. ASSUME NEW c \in Caller, Copied(c) PROVE HasWorkers(x)'
  <2>1. cutShort \subseteq cutShort'
    BY <1>10 DEF Copied, Give
  <2>2. CASE x # c
    <3>1. task'[x] = task[x]
      BY <1>10, <1>a, <2>2, CopiedDoes DEF Only, HasWorkers
    <3> QED BY <1>b, <2>1, <3>1 DEF HasWorkers
  <2>3. CASE x = c
    <3>1. \/ task'[x] = AtRest
          \/ /\ task'[x].flight = task[x].flight /\ task'[x].workers = task[x].workers
             /\ task[x].at # "copy" \/ ~(task[x].workers < Workers)
      BY <1>10, <1>a, <2>3, CopiedDoes
    <3> QED BY <1>b, <1>c, <3>1 DEF HasWorkers
  <2> QED BY <2>2, <2>3
<1>11. ASSUME NEW c \in Caller, RequestFails(c) PROVE HasWorkers(x)'
  <2>1. cutShort \subseteq cutShort'
    BY <1>11 DEF RequestFails, store
  <2>2. CASE x # c
    <3>1. task'[x] = task[x]
      BY <1>11, <1>a, <2>2, EndDoes DEF Only, HasWorkers
    <3> QED BY <1>b, <2>1, <3>1 DEF HasWorkers
  <2>3. CASE x = c
    <3>1. task'[x] = AtRest
      BY <1>11, <1>a, <2>3, EndDoes
    <3> QED BY <1>c, <3>1
  <2> QED BY <2>2, <2>3
<1>12. ASSUME NEW c \in Caller, PollDone(c) PROVE HasWorkers(x)'
  <2>1. cutShort \subseteq cutShort'
    BY <1>12 DEF PollDone, store, bounds, Give
  <2>2. CASE x # c
    <3>1. task'[x] = task[x]
      BY <1>12, <1>a, <2>2, PollDoes DEF Only, HasWorkers
    <3> QED BY <1>b, <2>1, <3>1 DEF HasWorkers
  <2>3. CASE x = c
    <3>1. task'[x].flight = task[x].flight /\ task'[x].workers = task[x].workers /\ task[x].at # "copy"
      BY <1>12, <1>a, <2>3, PollDoes
    <3> QED BY <1>b, <3>1 DEF HasWorkers
  <2> QED BY <2>2, <2>3
<1>13. ASSUME NEW c \in Caller, PollTimeout(c) PROVE HasWorkers(x)'
  <2>1. cutShort \subseteq cutShort'
    BY <1>13 DEF PollTimeout, store, Give
  <2>2. CASE x # c
    <3>1. task'[x] = task[x]
      BY <1>13, <1>a, <2>2, PollDoes DEF Only, HasWorkers
    <3> QED BY <1>b, <2>1, <3>1 DEF HasWorkers
  <2>3. CASE x = c
    <3>1. task'[x].flight = task[x].flight /\ task'[x].workers = task[x].workers /\ task[x].at # "copy"
      BY <1>13, <1>a, <2>3, PollDoes
    <3> QED BY <1>b, <3>1 DEF HasWorkers
  <2> QED BY <2>2, <2>3
<1>14. ASSUME NEW c \in Caller, ToolWrite(c) PROVE HasWorkers(x)'
  <2>1. cutShort \subseteq cutShort'
    BY <1>14 DEF ToolWrite, bounds, Put
  <2>2. CASE x # c
    <3>1. task'[x] = task[x]
      BY <1>14, <1>a, <2>2, EndDoes DEF Only, HasWorkers
    <3> QED BY <1>b, <2>1, <3>1 DEF HasWorkers
  <2>3. CASE x = c
    <3>1. task'[x] = AtRest
      BY <1>14, <1>a, <2>3, EndDoes
    <3> QED BY <1>c, <3>1
  <2> QED BY <2>2, <2>3
<1>15. ASSUME NEW c \in Caller, Leave(c) PROVE HasWorkers(x)'
  <2>1. cutShort \subseteq cutShort'
    BY <1>15 DEF Leave, store, bounds, history
  <2>2. CASE x # c
    <3>1. task'[x] = task[x]
      BY <1>15, <1>a, <2>2, EndDoes DEF Only, HasWorkers
    <3> QED BY <1>b, <2>1, <3>1 DEF HasWorkers
  <2>3. CASE x = c
    <3>1. task'[x] = AtRest
      BY <1>15, <1>a, <2>3, EndDoes
    <3> QED BY <1>c, <3>1
  <2> QED BY <2>2, <2>3
<1>16. ASSUME NEW t \in Theme, ShopifyCopies(t) PROVE HasWorkers(x)'
  BY <1>16, <1>d DEF ShopifyCopies, bounds, history
<1>17. ASSUME NEW t \in Theme, Publish(t) PROVE HasWorkers(x)'
  <2>1. cutShort' = cutShort
    BY <1>17 DEF Publish
  <2>5. /\ task'[x].at = task[x].at /\ task'[x].theme = task[x].theme /\ task'[x].flight = task[x].flight
        /\ task'[x].workers = task[x].workers
    BY <1>17, <1>a, Moving
  <2> QED BY <1>b, <2>1, <2>5 DEF HasWorkers
<1>18. ASSUME NEW t \in Theme, AddTheme(t) PROVE HasWorkers(x)'
  <2>1. task' = Seen(t) /\ cutShort' = cutShort
    BY <1>18 DEF AddTheme
  <2>4. NewsOf(task[x], task'[x], t, working')
    BY <1>a, <2>1, Seeing
  <2> QED BY <1>b, <2>1, <2>4 DEF NewsOf, HasWorkers
<1>19. ASSUME NEW t \in Theme, DeleteTheme(t) PROVE HasWorkers(x)'
  BY <1>19, <1>d DEF DeleteTheme, ByMerchant
<1>20. ASSUME NEW f \in File, DeleteFile(f) PROVE HasWorkers(x)'
  BY <1>20, <1>d DEF DeleteFile, ByMerchant, Put
<1>21. CASE Restart
  <2>1. task'[x] = AtRest
    BY <1>21, RestartDoes
  <2> QED BY <1>c, <2>1
<1>22. CASE UNCHANGED wtVars
  BY <1>22, <1>d DEF wtVars, store, history, bounds
<1>. QED
  BY <1>1, <1>2, <1>3, <1>4, <1>5, <1>6, <1>7, <1>8, <1>9, <1>10, <1>11, <1>12, <1>13, <1>14,
     <1>15, <1>16, <1>17, <1>18, <1>19, <1>20, <1>21, <1>22 DEF WorkingThemeNext

-----------------------------------------------------------------------------
(* Every step keeps what callers saw *)

\* What a step does to the themes that count: the unpublished, and the working ones of them.
LEMMA NewCounts ==
  ASSUME ThemesOK, NotMade, NEW t \in Theme, New(t)
  PROVE  /\ Unpublished' = Unpublished \cup {t}
         /\ Cardinality(Unpublished') = Cardinality(Unpublished) + 1
         /\ working' = working \cup {t} => Candidates' = Candidates \cup {t}
         /\ working' = working => Candidates' = Candidates
<1>1. role' = [role EXCEPT ![t] = "unpublished"] /\ role[t] = "none" /\ t \notin working
  BY Arrives
<1>2. \A x \in Theme : role'[x] = IF x = t THEN "unpublished" ELSE role[x]
  BY <1>1 DEF ThemesOK
<1>3. Unpublished' = Unpublished \cup {t} /\ t \notin Unpublished
  BY <1>1, <1>2 DEF Unpublished
<1>4. IsFiniteSet(Unpublished)
  BY WtConstants, FS_Subset DEF Unpublished
<1>5. Cardinality(Unpublished \cup {t}) = Cardinality(Unpublished) + 1
  BY <1>3, <1>4, FS_AddElement
<1>. QED
  BY <1>1, <1>3, <1>5 DEF Candidates

LEMMA Counted == IsFiniteSet(Unpublished) /\ Cardinality(Unpublished) \in Nat
  BY WtConstants, FS_Subset, FS_CardinalityType DEF Unpublished

LEMMA PublishCounts ==
  ASSUME ThemesOK, OneMain, NEW t \in Theme, Publish(t)
  PROVE  /\ Cardinality(Unpublished') = Cardinality(Unpublished)
         /\ Candidates' \subseteq Candidates \cup ({Main} \cap working)
<1>1. Main \in Theme /\ role[Main] = "main"
  BY MainIs
<1>2. role[t] = "unpublished" /\ role' = [role EXCEPT ![t] = "main", ![Main] = "unpublished"] /\ working' = working
  BY DEF Publish
<1>3. \A x \in Theme : role'[x] = IF x = Main THEN "unpublished" ELSE IF x = t THEN "main" ELSE role[x]
  BY <1>1, <1>2 DEF ThemesOK
<1>4. PICK m : m = Main
  OBVIOUS
<1>5. t # m /\ t \in Unpublished /\ m \notin Unpublished
  BY <1>1, <1>2, <1>4 DEF Unpublished
<1>6. Unpublished' = (Unpublished \ {t}) \cup {m}
  BY <1>1, <1>3, <1>4, <1>5 DEF Unpublished
<1>7. IsFiniteSet(Unpublished \ {t}) /\ Cardinality(Unpublished \ {t}) = Cardinality(Unpublished) - 1
  BY <1>5, Counted, FS_RemoveElement
<1>8. Cardinality((Unpublished \ {t}) \cup {m}) = Cardinality(Unpublished \ {t}) + 1
  BY <1>5, <1>7, FS_AddElement
<1>9. Cardinality(Unpublished') = Cardinality(Unpublished)
  BY <1>6, <1>7, <1>8, Counted
<1>. QED
  BY <1>2, <1>4, <1>6, <1>9 DEF Candidates

LEMMA DeleteCounts ==
  ASSUME ThemesOK, NEW t \in Theme, DeleteTheme(t)
  PROVE  Cardinality(Unpublished') <= Cardinality(Unpublished) /\ Candidates' \subseteq Candidates
<1>1. role' = [role EXCEPT ![t] = "none"] /\ working' = working
  BY DEF DeleteTheme
<1>2. Unpublished' \subseteq Unpublished
  BY <1>1 DEF Unpublished, ThemesOK
<1>. QED
  BY <1>1, <1>2, Counted, FS_Subset DEF Candidates

LEMMA CountsKept ==
  ASSUME role' = role, working' = working
  PROVE  Unpublished' = Unpublished /\ Candidates' = Candidates
  BY DEF Unpublished, Candidates

\* A caller that saw no working theme is right, unless one came up since.
LEMMA WtSawNone ==
  ASSUME WtInv, [WorkingThemeNext]_wtVars, NEW x \in Caller
  PROVE  SawNone(x)'
<1>a. ThemesOK /\ TasksOK /\ InOrder /\ OneMain /\ NotMade /\ \A d \in Caller : HasTheme(d) /\ HasWorkers(d)
  BY DEF WtInv
<1>b. SawNone(x)
  BY DEF WtInv
<1>c. task'[x] = AtRest => SawNone(x)'
  BY Rested DEF SawNone
<1>d. role' = role /\ working' = working => Unpublished' = Unpublished /\ Candidates' = Candidates
  BY CountsKept
<1>1. ASSUME NEW c \in Caller, Current(c) PROVE SawNone(x)'
  <2>1. Unpublished' = Unpublished /\ Candidates' = Candidates
    BY <1>1, <1>d DEF Current, Stay, store, bounds
  <2>2. CASE x # c
    <3>1. task'[x] = task[x]
      BY <1>1, <1>a, <2>2, CurrentDoes DEF Only, HasWorkers
    <3> QED BY <1>b, <2>1, <3>1 DEF SawNone
  <2>3. CASE x = c
    <3>1. task'[x].at = "ready" \/ Candidates = {}
      BY <1>1, <1>a, <2>3, CurrentDoes
    <3> QED BY <2>1, <3>1 DEF SawNone
  <2> QED BY <2>2, <2>3
<1>2. ASSUME NEW c \in Caller, CheckCap(c) PROVE SawNone(x)'
  <2>1. Unpublished' = Unpublished /\ Candidates' = Candidates
    BY <1>2, <1>d DEF CheckCap, Stay, store, bounds
  <2>2. CASE x # c
    <3>1. task'[x] = task[x]
      BY <1>2, <1>a, <2>2, CheckCapDoes DEF Only, HasWorkers
    <3> QED BY <1>b, <2>1, <3>1 DEF SawNone
  <2>3. CASE x = c
    <3>1. task'[x] = AtRest \/ (task[x].at = "cap" /\ task'[x].stale = task[x].stale)
      BY <1>2, <1>a, <2>3, CheckCapDoes
    <3> QED BY <1>b, <1>c, <2>1, <3>1 DEF SawNone
  <2> QED BY <2>2, <2>3
<1>3. ASSUME NEW c \in Caller, ReadLive(c) PROVE SawNone(x)'
  <2>1. Unpublished' = Unpublished /\ Candidates' = Candidates
    BY <1>3, <1>d DEF ReadLive, Stay, store, bounds
  <2>2. CASE x # c
    <3>1. task'[x] = task[x]
      BY <1>3, <1>a, <2>2, ReadLiveDoes DEF Only, HasWorkers
    <3> QED BY <1>b, <2>1, <3>1 DEF SawNone
  <2>3. CASE x = c
    <3>1. task[x].at = "live" /\ task'[x].stale = task[x].stale
      BY <1>3, <1>a, <2>3, ReadLiveDoes
    <3> QED BY <1>b, <2>1, <3>1 DEF SawNone
  <2> QED BY <2>2, <2>3
<1>4. ASSUME NEW c \in Caller, Create(c) PROVE SawNone(x)'
  <2>1. PICK t \in Theme : /\ New(t) /\ working' = working \cup {t} /\ task'[c].at \in {"list", "poll"}
           /\ \A d \in Caller : d # c => NewsOf(task[d], task'[d], t, working')
    BY <1>4, <1>a, Creating
  <2>2. CASE x = c
    BY <2>1, <2>2 DEF SawNone
  <2>3. CASE x # c
    BY <2>1, <2>3 DEF NewsOf, SawNone
  <2> QED BY <2>2, <2>3
<1>5. ASSUME NEW c \in Caller, CreateAnswerLost(c) PROVE SawNone(x)'
  <2>1. PICK t \in Theme : New(t) /\ working' = working \cup {t} /\ task' = Seen(t)
    BY <1>5 DEF CreateAnswerLost
  <2>2. NewsOf(task[x], task'[x], t, working')
    BY <1>a, <2>1, Seeing
  <2> QED BY <2>1, <2>2 DEF NewsOf, SawNone
<1>6. ASSUME NEW c \in Caller, ListSource(c) PROVE SawNone(x)'
  <2>1. Unpublished' = Unpublished /\ Candidates' = Candidates
    BY <1>6, <1>d DEF ListSource, CopyStay
  <2>2. CASE x # c
    <3>1. task'[x] = task[x]
      BY <1>6, <1>a, <2>2, ListSourceDoes DEF Only, HasWorkers
    <3> QED BY <1>b, <2>1, <3>1 DEF SawNone
  <2>3. CASE x = c
    <3>1. task'[x] = AtRest \/ task'[x].at \in {"copy", "ready"}
      BY <1>6, <1>a, <2>3, ListSourceDoes DEF HasWorkers
    <3> QED BY <1>c, <3>1 DEF SawNone
  <2> QED BY <2>2, <2>3
<1>7. ASSUME NEW c \in Caller, CopyRead(c) PROVE SawNone(x)'
  <2>1. Unpublished' = Unpublished /\ Candidates' = Candidates
    BY <1>7, <1>d DEF CopyRead, CopyStay
  <2>2. CASE x # c
    <3>1. task'[x] = task[x]
      BY <1>7, <1>a, <2>2, CopyReadDoes DEF Only, HasWorkers
    <3> QED BY <1>b, <2>1, <3>1 DEF SawNone
  <2>3. CASE x = c
    <3>1. task'[x] = AtRest \/ task'[x].at \in {"copy", "ready"}
      BY <1>7, <1>a, <2>3, CopyReadDoes DEF HasWorkers
    <3> QED BY <1>c, <3>1 DEF SawNone
  <2> QED BY <2>2, <2>3
<1>8. ASSUME NEW c \in Caller, CopyWrite(c) PROVE SawNone(x)'
  <2>1. Unpublished' = Unpublished /\ Candidates' = Candidates
    BY <1>8, <1>d DEF CopyWrite, CopyStay, Put
  <2>2. CASE x # c
    <3>1. task'[x] = task[x]
      BY <1>8, <1>a, <2>2, CopyWriteDoes DEF Only, HasWorkers
    <3> QED BY <1>b, <2>1, <3>1 DEF SawNone
  <2>3. CASE x = c
    <3>1. task'[x] = AtRest \/ task'[x].at \in {"copy", "ready"}
      BY <1>8, <1>a, <2>3, CopyWriteDoes DEF HasWorkers
    <3> QED BY <1>c, <3>1 DEF SawNone
  <2> QED BY <2>2, <2>3
<1>9. ASSUME NEW c \in Caller, CopyWriteFails(c) PROVE SawNone(x)'
  <2>1. Unpublished' = Unpublished /\ Candidates' = Candidates
    BY <1>9, <1>d DEF CopyWriteFails, CopyStay
  <2>2. CASE x # c
    <3>1. task'[x] = task[x]
      BY <1>9, <1>a, <2>2, CopyWriteFailsDoes DEF Only, HasWorkers
    <3> QED BY <1>b, <2>1, <3>1 DEF SawNone
  <2>3. CASE x = c
    <3>1. task'[x] = AtRest \/ task'[x].at \in {"copy", "ready"}
      BY <1>9, <1>a, <2>3, CopyWriteFailsDoes DEF HasWorkers
    <3> QED BY <1>c, <3>1 DEF SawNone
  <2> QED BY <2>2, <2>3
<1>10. ASSUME NEW c \in Caller, Copied(c) PROVE SawNone(x)'
  <2>1. Unpublished' = Unpublished /\ Candidates' = Candidates
    BY <1>10, <1>d DEF Copied, Give
  <2>2. CASE x # c
    <3>1. task'[x] = task[x]
      BY <1>10, <1>a, <2>2, CopiedDoes DEF Only, HasWorkers
    <3> QED BY <1>b, <2>1, <3>1 DEF SawNone
  <2>3. CASE x = c
    <3>1. task'[x] = AtRest \/ task'[x].at \in {"copy", "ready"}
      BY <1>10, <1>a, <2>3, CopiedDoes DEF HasWorkers
    <3> QED BY <1>c, <3>1 DEF SawNone
  <2> QED BY <2>2, <2>3
<1>11. ASSUME NEW c \in Caller, RequestFails(c) PROVE SawNone(x)'
  <2>1. Unpublished' = Unpublished /\ Candidates' = Candidates
    BY <1>11, <1>d DEF RequestFails, store
  <2>2. CASE x # c
    <3>1. task'[x] = task[x]
      BY <1>11, <1>a, <2>2, EndDoes DEF Only, HasWorkers
    <3> QED BY <1>b, <2>1, <3>1 DEF SawNone
  <2>3. CASE x = c
    <3>1. task'[x] = AtRest
      BY <1>11, <1>a, <2>3, EndDoes
    <3> QED BY <1>c, <3>1
  <2> QED BY <2>2, <2>3
<1>12. ASSUME NEW c \in Caller, PollDone(c) PROVE SawNone(x)'
  <2>1. Unpublished' = Unpublished /\ Candidates' = Candidates
    BY <1>12, <1>d DEF PollDone, store, bounds, Give
  <2>2. CASE x # c
    <3>1. task'[x] = task[x]
      BY <1>12, <1>a, <2>2, PollDoes DEF Only, HasWorkers
    <3> QED BY <1>b, <2>1, <3>1 DEF SawNone
  <2>3. CASE x = c
    <3>1. task'[x] = AtRest \/ task'[x].at \in {"copy", "ready"}
      BY <1>12, <1>a, <2>3, PollDoes DEF HasWorkers
    <3> QED BY <1>c, <3>1 DEF SawNone
  <2> QED BY <2>2, <2>3
<1>13. ASSUME NEW c \in Caller, PollTimeout(c) PROVE SawNone(x)'
  <2>1. Unpublished' = Unpublished /\ Candidates' = Candidates
    BY <1>13, <1>d DEF PollTimeout, store, Give
  <2>2. CASE x # c
    <3>1. task'[x] = task[x]
      BY <1>13, <1>a, <2>2, PollDoes DEF Only, HasWorkers
    <3> QED BY <1>b, <2>1, <3>1 DEF SawNone
  <2>3. CASE x = c
    <3>1. task'[x] = AtRest \/ task'[x].at \in {"copy", "ready"}
      BY <1>13, <1>a, <2>3, PollDoes DEF HasWorkers
    <3> QED BY <1>c, <3>1 DEF SawNone
  <2> QED BY <2>2, <2>3
<1>14. ASSUME NEW c \in Caller, ToolWrite(c) PROVE SawNone(x)'
  <2>1. Unpublished' = Unpublished /\ Candidates' = Candidates
    BY <1>14, <1>d DEF ToolWrite, bounds, Put
  <2>2. CASE x # c
    <3>1. task'[x] = task[x]
      BY <1>14, <1>a, <2>2, EndDoes DEF Only, HasWorkers
    <3> QED BY <1>b, <2>1, <3>1 DEF SawNone
  <2>3. CASE x = c
    <3>1. task'[x] = AtRest
      BY <1>14, <1>a, <2>3, EndDoes
    <3> QED BY <1>c, <3>1
  <2> QED BY <2>2, <2>3
<1>15. ASSUME NEW c \in Caller, Leave(c) PROVE SawNone(x)'
  <2>1. Unpublished' = Unpublished /\ Candidates' = Candidates
    BY <1>15, <1>d DEF Leave, store, bounds, history
  <2>2. CASE x # c
    <3>1. task'[x] = task[x]
      BY <1>15, <1>a, <2>2, EndDoes DEF Only, HasWorkers
    <3> QED BY <1>b, <2>1, <3>1 DEF SawNone
  <2>3. CASE x = c
    <3>1. task'[x] = AtRest
      BY <1>15, <1>a, <2>3, EndDoes
    <3> QED BY <1>c, <3>1
  <2> QED BY <2>2, <2>3
<1>16. ASSUME NEW t \in Theme, ShopifyCopies(t) PROVE SawNone(x)'
  <2>1. Unpublished' = Unpublished /\ Candidates' = Candidates /\ task' = task
    BY <1>16, <1>d DEF ShopifyCopies, bounds, history
  <2> QED BY <1>b, <2>1 DEF SawNone
<1>17. ASSUME NEW t \in Theme, Publish(t) PROVE SawNone(x)'
  <2>1. task'[x].at = task[x].at /\ (task'[x].stale <=> (task[x].stale \/ Main \in working))
    BY <1>17, <1>a, Moving
  <2>2. Candidates' \subseteq Candidates \cup ({Main} \cap working)
    BY <1>17, <1>a, PublishCounts
  <2> QED BY <1>b, <2>1, <2>2 DEF SawNone
<1>18. ASSUME NEW t \in Theme, AddTheme(t) PROVE SawNone(x)'
  <2>1. New(t) /\ working' = working /\ task' = Seen(t)
    BY <1>18 DEF AddTheme
  <2>2. NewsOf(task[x], task'[x], t, working')
    BY <1>a, <2>1, Seeing
  <2>3. Candidates' = Candidates
    BY <1>a, <2>1, NewCounts
  <2> QED BY <1>b, <2>2, <2>3 DEF NewsOf, SawNone
<1>19. ASSUME NEW t \in Theme, DeleteTheme(t) PROVE SawNone(x)'
  <2>1. Candidates' \subseteq Candidates
    BY <1>19, <1>a, DeleteCounts
  <2>2. task' = task
    BY <1>19 DEF DeleteTheme
  <2> QED BY <1>b, <2>1, <2>2 DEF SawNone
<1>20. ASSUME NEW f \in File, DeleteFile(f) PROVE SawNone(x)'
  <2>1. Unpublished' = Unpublished /\ Candidates' = Candidates /\ task' = task
    BY <1>20, <1>d DEF DeleteFile, ByMerchant, Put
  <2> QED BY <1>b, <2>1 DEF SawNone
<1>21. CASE Restart
  <2>1. task'[x] = AtRest
    BY <1>21, RestartDoes
  <2> QED BY <1>c, <2>1
<1>22. CASE UNCHANGED wtVars
  <2>1. Unpublished' = Unpublished /\ Candidates' = Candidates /\ task' = task
    BY <1>22, <1>d DEF wtVars, store, history, bounds
  <2> QED BY <1>b, <2>1 DEF SawNone
<1>. QED
  BY <1>1, <1>2, <1>3, <1>4, <1>5, <1>6, <1>7, <1>8, <1>9, <1>10, <1>11, <1>12, <1>13, <1>14,
     <1>15, <1>16, <1>17, <1>18, <1>19, <1>20, <1>21, <1>22 DEF WorkingThemeNext

\* A caller that counted fewer themes than the cap is right, unless one came up since.
LEMMA WtSawRoom ==
  ASSUME WtInv, [WorkingThemeNext]_wtVars, NEW x \in Caller
  PROVE  SawRoom(x)'
<1>a. ThemesOK /\ TasksOK /\ InOrder /\ OneMain /\ NotMade /\ \A d \in Caller : HasTheme(d) /\ HasWorkers(d)
  BY DEF WtInv
<1>b. SawRoom(x)
  BY DEF WtInv
<1>c. task'[x] = AtRest => SawRoom(x)'
  BY Rested DEF SawRoom
<1>d. role' = role /\ working' = working => Unpublished' = Unpublished /\ Candidates' = Candidates
  BY CountsKept
<1>e. Cardinality(Unpublished) \in Nat /\ Cap \in Nat /\ (\A n \in Nat : ~(n >= Cap) => n < Cap)
  BY Counted, WtConstants
<1>1. ASSUME NEW c \in Caller, Current(c) PROVE SawRoom(x)'
  <2>1. Unpublished' = Unpublished /\ Candidates' = Candidates
    BY <1>1, <1>d DEF Current, Stay, store, bounds
  <2>2. CASE x # c
    <3>1. task'[x] = task[x]
      BY <1>1, <1>a, <2>2, CurrentDoes DEF Only, HasWorkers
    <3> QED BY <1>b, <2>1, <3>1 DEF SawRoom
  <2>3. CASE x = c
    <3>1. task'[x].at \in {"ready", "cap"}
      BY <1>1, <1>a, <2>3, CurrentDoes
    <3> QED BY <3>1 DEF SawRoom
  <2> QED BY <2>2, <2>3
<1>2. ASSUME NEW c \in Caller, CheckCap(c) PROVE SawRoom(x)'
  <2>1. Unpublished' = Unpublished /\ Candidates' = Candidates
    BY <1>2, <1>d DEF CheckCap, Stay, store, bounds
  <2>2. CASE x # c
    <3>1. task'[x] = task[x]
      BY <1>2, <1>a, <2>2, CheckCapDoes DEF Only, HasWorkers
    <3> QED BY <1>b, <2>1, <3>1 DEF SawRoom
  <2>3. CASE x = c
    <3>1. task'[x] = AtRest \/ ~(Cardinality(Unpublished) >= Cap)
      BY <1>2, <1>a, <2>3, CheckCapDoes
    <3>2. task'[x] = AtRest \/ Cardinality(Unpublished) < Cap
      BY <1>e, <3>1
    <3> QED BY <1>c, <2>1, <3>2 DEF SawRoom
  <2> QED BY <2>2, <2>3
<1>3. ASSUME NEW c \in Caller, ReadLive(c) PROVE SawRoom(x)'
  <2>1. Unpublished' = Unpublished /\ Candidates' = Candidates
    BY <1>3, <1>d DEF ReadLive, Stay, store, bounds
  <2>2. CASE x # c
    <3>1. task'[x] = task[x]
      BY <1>3, <1>a, <2>2, ReadLiveDoes DEF Only, HasWorkers
    <3> QED BY <1>b, <2>1, <3>1 DEF SawRoom
  <2>3. CASE x = c
    <3>1. task[x].at = "live" /\ task'[x].grew = task[x].grew
      BY <1>3, <1>a, <2>3, ReadLiveDoes
    <3> QED BY <1>b, <2>1, <3>1 DEF SawRoom
  <2> QED BY <2>2, <2>3
<1>4. ASSUME NEW c \in Caller, Create(c) PROVE SawRoom(x)'
  <2>1. PICK t \in Theme : /\ New(t) /\ working' = working \cup {t} /\ task'[c].at \in {"list", "poll"}
           /\ \A d \in Caller : d # c => NewsOf(task[d], task'[d], t, working')
    BY <1>4, <1>a, Creating
  <2>2. CASE x = c
    BY <2>1, <2>2 DEF SawRoom
  <2>3. CASE x # c
    BY <2>1, <2>3 DEF NewsOf, SawRoom
  <2> QED BY <2>2, <2>3
<1>5. ASSUME NEW c \in Caller, CreateAnswerLost(c) PROVE SawRoom(x)'
  <2>1. PICK t \in Theme : New(t) /\ working' = working \cup {t} /\ task' = Seen(t)
    BY <1>5 DEF CreateAnswerLost
  <2>2. NewsOf(task[x], task'[x], t, working')
    BY <1>a, <2>1, Seeing
  <2> QED BY <2>1, <2>2 DEF NewsOf, SawRoom
<1>6. ASSUME NEW c \in Caller, ListSource(c) PROVE SawRoom(x)'
  <2>1. Unpublished' = Unpublished /\ Candidates' = Candidates
    BY <1>6, <1>d DEF ListSource, CopyStay
  <2>2. CASE x # c
    <3>1. task'[x] = task[x]
      BY <1>6, <1>a, <2>2, ListSourceDoes DEF Only, HasWorkers
    <3> QED BY <1>b, <2>1, <3>1 DEF SawRoom
  <2>3. CASE x = c
    <3>1. task'[x] = AtRest \/ task'[x].at \in {"copy", "ready"}
      BY <1>6, <1>a, <2>3, ListSourceDoes DEF HasWorkers
    <3> QED BY <1>c, <3>1 DEF SawRoom
  <2> QED BY <2>2, <2>3
<1>7. ASSUME NEW c \in Caller, CopyRead(c) PROVE SawRoom(x)'
  <2>1. Unpublished' = Unpublished /\ Candidates' = Candidates
    BY <1>7, <1>d DEF CopyRead, CopyStay
  <2>2. CASE x # c
    <3>1. task'[x] = task[x]
      BY <1>7, <1>a, <2>2, CopyReadDoes DEF Only, HasWorkers
    <3> QED BY <1>b, <2>1, <3>1 DEF SawRoom
  <2>3. CASE x = c
    <3>1. task'[x] = AtRest \/ task'[x].at \in {"copy", "ready"}
      BY <1>7, <1>a, <2>3, CopyReadDoes DEF HasWorkers
    <3> QED BY <1>c, <3>1 DEF SawRoom
  <2> QED BY <2>2, <2>3
<1>8. ASSUME NEW c \in Caller, CopyWrite(c) PROVE SawRoom(x)'
  <2>1. Unpublished' = Unpublished /\ Candidates' = Candidates
    BY <1>8, <1>d DEF CopyWrite, CopyStay, Put
  <2>2. CASE x # c
    <3>1. task'[x] = task[x]
      BY <1>8, <1>a, <2>2, CopyWriteDoes DEF Only, HasWorkers
    <3> QED BY <1>b, <2>1, <3>1 DEF SawRoom
  <2>3. CASE x = c
    <3>1. task'[x] = AtRest \/ task'[x].at \in {"copy", "ready"}
      BY <1>8, <1>a, <2>3, CopyWriteDoes DEF HasWorkers
    <3> QED BY <1>c, <3>1 DEF SawRoom
  <2> QED BY <2>2, <2>3
<1>9. ASSUME NEW c \in Caller, CopyWriteFails(c) PROVE SawRoom(x)'
  <2>1. Unpublished' = Unpublished /\ Candidates' = Candidates
    BY <1>9, <1>d DEF CopyWriteFails, CopyStay
  <2>2. CASE x # c
    <3>1. task'[x] = task[x]
      BY <1>9, <1>a, <2>2, CopyWriteFailsDoes DEF Only, HasWorkers
    <3> QED BY <1>b, <2>1, <3>1 DEF SawRoom
  <2>3. CASE x = c
    <3>1. task'[x] = AtRest \/ task'[x].at \in {"copy", "ready"}
      BY <1>9, <1>a, <2>3, CopyWriteFailsDoes DEF HasWorkers
    <3> QED BY <1>c, <3>1 DEF SawRoom
  <2> QED BY <2>2, <2>3
<1>10. ASSUME NEW c \in Caller, Copied(c) PROVE SawRoom(x)'
  <2>1. Unpublished' = Unpublished /\ Candidates' = Candidates
    BY <1>10, <1>d DEF Copied, Give
  <2>2. CASE x # c
    <3>1. task'[x] = task[x]
      BY <1>10, <1>a, <2>2, CopiedDoes DEF Only, HasWorkers
    <3> QED BY <1>b, <2>1, <3>1 DEF SawRoom
  <2>3. CASE x = c
    <3>1. task'[x] = AtRest \/ task'[x].at \in {"copy", "ready"}
      BY <1>10, <1>a, <2>3, CopiedDoes DEF HasWorkers
    <3> QED BY <1>c, <3>1 DEF SawRoom
  <2> QED BY <2>2, <2>3
<1>11. ASSUME NEW c \in Caller, RequestFails(c) PROVE SawRoom(x)'
  <2>1. Unpublished' = Unpublished /\ Candidates' = Candidates
    BY <1>11, <1>d DEF RequestFails, store
  <2>2. CASE x # c
    <3>1. task'[x] = task[x]
      BY <1>11, <1>a, <2>2, EndDoes DEF Only, HasWorkers
    <3> QED BY <1>b, <2>1, <3>1 DEF SawRoom
  <2>3. CASE x = c
    <3>1. task'[x] = AtRest
      BY <1>11, <1>a, <2>3, EndDoes
    <3> QED BY <1>c, <3>1
  <2> QED BY <2>2, <2>3
<1>12. ASSUME NEW c \in Caller, PollDone(c) PROVE SawRoom(x)'
  <2>1. Unpublished' = Unpublished /\ Candidates' = Candidates
    BY <1>12, <1>d DEF PollDone, store, bounds, Give
  <2>2. CASE x # c
    <3>1. task'[x] = task[x]
      BY <1>12, <1>a, <2>2, PollDoes DEF Only, HasWorkers
    <3> QED BY <1>b, <2>1, <3>1 DEF SawRoom
  <2>3. CASE x = c
    <3>1. task'[x] = AtRest \/ task'[x].at \in {"copy", "ready"}
      BY <1>12, <1>a, <2>3, PollDoes DEF HasWorkers
    <3> QED BY <1>c, <3>1 DEF SawRoom
  <2> QED BY <2>2, <2>3
<1>13. ASSUME NEW c \in Caller, PollTimeout(c) PROVE SawRoom(x)'
  <2>1. Unpublished' = Unpublished /\ Candidates' = Candidates
    BY <1>13, <1>d DEF PollTimeout, store, Give
  <2>2. CASE x # c
    <3>1. task'[x] = task[x]
      BY <1>13, <1>a, <2>2, PollDoes DEF Only, HasWorkers
    <3> QED BY <1>b, <2>1, <3>1 DEF SawRoom
  <2>3. CASE x = c
    <3>1. task'[x] = AtRest \/ task'[x].at \in {"copy", "ready"}
      BY <1>13, <1>a, <2>3, PollDoes DEF HasWorkers
    <3> QED BY <1>c, <3>1 DEF SawRoom
  <2> QED BY <2>2, <2>3
<1>14. ASSUME NEW c \in Caller, ToolWrite(c) PROVE SawRoom(x)'
  <2>1. Unpublished' = Unpublished /\ Candidates' = Candidates
    BY <1>14, <1>d DEF ToolWrite, bounds, Put
  <2>2. CASE x # c
    <3>1. task'[x] = task[x]
      BY <1>14, <1>a, <2>2, EndDoes DEF Only, HasWorkers
    <3> QED BY <1>b, <2>1, <3>1 DEF SawRoom
  <2>3. CASE x = c
    <3>1. task'[x] = AtRest
      BY <1>14, <1>a, <2>3, EndDoes
    <3> QED BY <1>c, <3>1
  <2> QED BY <2>2, <2>3
<1>15. ASSUME NEW c \in Caller, Leave(c) PROVE SawRoom(x)'
  <2>1. Unpublished' = Unpublished /\ Candidates' = Candidates
    BY <1>15, <1>d DEF Leave, store, bounds, history
  <2>2. CASE x # c
    <3>1. task'[x] = task[x]
      BY <1>15, <1>a, <2>2, EndDoes DEF Only, HasWorkers
    <3> QED BY <1>b, <2>1, <3>1 DEF SawRoom
  <2>3. CASE x = c
    <3>1. task'[x] = AtRest
      BY <1>15, <1>a, <2>3, EndDoes
    <3> QED BY <1>c, <3>1
  <2> QED BY <2>2, <2>3
<1>16. ASSUME NEW t \in Theme, ShopifyCopies(t) PROVE SawRoom(x)'
  <2>1. Unpublished' = Unpublished /\ Candidates' = Candidates /\ task' = task
    BY <1>16, <1>d DEF ShopifyCopies, bounds, history
  <2> QED BY <1>b, <2>1 DEF SawRoom
<1>17. ASSUME NEW t \in Theme, Publish(t) PROVE SawRoom(x)'
  <2>1. task'[x].at = task[x].at /\ task'[x].grew = task[x].grew
    BY <1>17, <1>a, Moving
  <2>2. Cardinality(Unpublished') = Cardinality(Unpublished)
    BY <1>17, <1>a, PublishCounts
  <2> QED BY <1>b, <2>1, <2>2 DEF SawRoom
<1>18. ASSUME NEW t \in Theme, AddTheme(t) PROVE SawRoom(x)'
  <2>1. New(t) /\ task' = Seen(t)
    BY <1>18 DEF AddTheme
  <2>2. NewsOf(task[x], task'[x], t, working')
    BY <1>a, <2>1, Seeing
  <2> QED BY <2>2 DEF NewsOf, SawRoom
<1>19. ASSUME NEW t \in Theme, DeleteTheme(t) PROVE SawRoom(x)'
  <2>1. Cardinality(Unpublished') <= Cardinality(Unpublished)
    BY <1>19, <1>a, DeleteCounts
  <2>2. task' = task
    BY <1>19 DEF DeleteTheme
  <2>3. Cardinality(Unpublished)' \in Nat
    BY WtConstants, FS_Subset, FS_CardinalityType DEF Unpublished
  <2>4. Cardinality(Unpublished) < Cap => Cardinality(Unpublished)' < Cap
    BY <1>e, <2>1, <2>3
  <2> QED BY <1>b, <2>2, <2>4 DEF SawRoom
<1>20. ASSUME NEW f \in File, DeleteFile(f) PROVE SawRoom(x)'
  <2>1. Unpublished' = Unpublished /\ Candidates' = Candidates /\ task' = task
    BY <1>20, <1>d DEF DeleteFile, ByMerchant, Put
  <2> QED BY <1>b, <2>1 DEF SawRoom
<1>21. CASE Restart
  <2>1. task'[x] = AtRest
    BY <1>21, RestartDoes
  <2> QED BY <1>c, <2>1
<1>22. CASE UNCHANGED wtVars
  <2>1. Unpublished' = Unpublished /\ Candidates' = Candidates /\ task' = task
    BY <1>22, <1>d DEF wtVars, store, history, bounds
  <2> QED BY <1>b, <2>1 DEF SawRoom
<1>. QED
  BY <1>1, <1>2, <1>3, <1>4, <1>5, <1>6, <1>7, <1>8, <1>9, <1>10, <1>11, <1>12, <1>13, <1>14,
     <1>15, <1>16, <1>17, <1>18, <1>19, <1>20, <1>21, <1>22 DEF WorkingThemeNext

-----------------------------------------------------------------------------
(* Every step keeps files where they are, or to come *)

\* A step that takes from a theme no file that is listed, and ends no copy but by cutting it short
\* or when it is done.
LEMMA ProvidedKept ==
  ASSUME NEW y \in Theme, Provided(y), Exists(y)' => Exists(y), cutShort \subseteq cutShort',
         listed'[y] \subseteq listed[y], Keys(y) \cap listed'[y] \subseteq Keys(y)',
         y \in copying => y \in copying' \/ listed'[y] \subseteq Keys(y)',
         \A d \in Caller : task[d].at = "copy" /\ task[d].theme = y =>
            \/ y \in cutShort'
            \/ task[d].todo \cup task[d].flight = {}
            \/ /\ task'[d].at = "copy" /\ task'[d].theme = y
               /\ task[d].todo \cup task[d].flight \subseteq task'[d].todo \cup task'[d].flight \cup Keys(y)'
  PROVE  Provided(y)'
<1>1. SUFFICES ASSUME Exists(y)', y \notin cutShort' PROVE listed'[y] \subseteq Keys(y)' \/ StillToCome(y)'
  BY DEF Provided
<1>2. listed[y] \subseteq Keys(y) \/ StillToCome(y)
  BY <1>1 DEF Provided
<1>3. CASE listed[y] \subseteq Keys(y)
  BY <1>3
<1>4. CASE y \in copying
  BY <1>4 DEF StillToCome
<1>5. CASE \E d \in Caller : /\ task[d].at = "copy" /\ task[d].theme = y
                             /\ listed[y] \subseteq Keys(y) \cup task[d].todo \cup task[d].flight
  <2>1. PICK d \in Caller : /\ task[d].at = "copy" /\ task[d].theme = y
                            /\ listed[y] \subseteq Keys(y) \cup task[d].todo \cup task[d].flight
    BY <1>5
  <2>2. CASE task[d].todo \cup task[d].flight = {}
    BY <2>1, <2>2
  <2>3. CASE /\ task'[d].at = "copy" /\ task'[d].theme = y
             /\ task[d].todo \cup task[d].flight \subseteq task'[d].todo \cup task'[d].flight \cup Keys(y)'
    <3>1. listed'[y] \subseteq Keys(y)' \cup task'[d].todo \cup task'[d].flight
      BY <2>1, <2>3
    <3>. QED
      BY <2>3, <3>1 DEF StillToCome
  <2>. QED
    BY <1>1, <2>1, <2>2, <2>3
<1>. QED
  BY <1>2, <1>3, <1>4, <1>5 DEF StillToCome

\* The same where the caller that moves does not copy.
LEMMA ProvidedStill ==
  ASSUME NEW y \in Theme, Provided(y), Exists(y)' => Exists(y), cutShort \subseteq cutShort',
         listed'[y] \subseteq listed[y], Keys(y) \cap listed'[y] \subseteq Keys(y)',
         y \in copying => y \in copying' \/ listed'[y] \subseteq Keys(y)',
         \A d \in Caller : task[d].at = "copy" /\ task[d].theme = y =>
            /\ task'[d].at = "copy" /\ task'[d].theme = y
            /\ task'[d].todo = task[d].todo /\ task'[d].flight = task[d].flight
  PROVE  Provided(y)'
  BY ProvidedKept

LEMMA KeysKept ==
  ASSUME file' = file, NEW y
  PROVE  Keys(y)' = Keys(y)
  BY DEF Keys

LEMMA KeysPut ==
  ASSUME ThemesOK, NEW t \in Theme, NEW f \in File, NEW v \in Content, Put(t, f, v), NEW y \in Theme
  PROVE  Keys(y)' = IF y # t THEN Keys(y) ELSE IF v = "missing" THEN Keys(t) \ {f} ELSE Keys(t) \cup {f}
<1>1. file' = [file EXCEPT ![t][f] = v]
  BY DEF Put
<1>2. \A g \in File : file'[y][g] = IF y = t /\ g = f THEN v ELSE file[y][g]
  BY <1>1 DEF ThemesOK
<1>. QED
  BY <1>2 DEF Keys

\* Every step keeps each theme with its files, or with who brings them.
LEMMA WtProvided ==
  ASSUME WtInv, [WorkingThemeNext]_wtVars, NEW y \in Theme
  PROVE  Provided(y)'
<1>a. ThemesOK /\ TasksOK /\ InOrder /\ OneMain /\ NotMade /\ \A d \in Caller : HasTheme(d) /\ HasWorkers(d)
  BY DEF WtInv
<1>b. Provided(y)
  BY DEF WtInv
<1>c. role' = role => (Exists(y)' <=> Exists(y))
  BY DEF Exists
<1>d. file' = file => Keys(y)' = Keys(y)
  BY KeysKept
<1>1. ASSUME NEW c \in Caller, Current(c) PROVE Provided(y)'
  <2>1. /\ role' = role /\ file' = file /\ listed' = listed /\ copying' = copying
        /\ cutShort \subseteq cutShort' /\ task[c].at # "copy"
    BY <1>1 DEF Current, Stay, store, bounds
  <2>2. \A d \in Caller : d # c => task'[d] = task[d]
    BY <1>1, <1>a, CurrentDoes DEF Only, HasWorkers
  <2> QED BY <1>b, <1>c, <1>d, <2>1, <2>2, ProvidedStill
<1>2. ASSUME NEW c \in Caller, CheckCap(c) PROVE Provided(y)'
  <2>1. /\ role' = role /\ file' = file /\ listed' = listed /\ copying' = copying
        /\ cutShort \subseteq cutShort' /\ task[c].at # "copy"
    BY <1>2 DEF CheckCap, Stay, store, bounds
  <2>2. \A d \in Caller : d # c => task'[d] = task[d]
    BY <1>2, <1>a, CheckCapDoes DEF Only, HasWorkers
  <2> QED BY <1>b, <1>c, <1>d, <2>1, <2>2, ProvidedStill
<1>3. ASSUME NEW c \in Caller, ReadLive(c) PROVE Provided(y)'
  <2>1. /\ role' = role /\ file' = file /\ listed' = listed /\ copying' = copying
        /\ cutShort \subseteq cutShort' /\ task[c].at # "copy"
    BY <1>3 DEF ReadLive, Stay, store, bounds
  <2>2. \A d \in Caller : d # c => task'[d] = task[d]
    BY <1>3, <1>a, ReadLiveDoes DEF Only, HasWorkers
  <2> QED BY <1>b, <1>c, <1>d, <2>1, <2>2, ProvidedStill
<1>4. ASSUME NEW c \in Caller, Create(c) PROVE Provided(y)'
  <2>1. PICK t \in Theme :
           /\ New(t)
           /\ \A d \in Caller : d # c => NewsOf(task[d], task'[d], t, working')
           /\ \/ copying' = copying /\ listed' = listed
              \/ copying' = copying \cup {t} /\ listed' = [listed EXCEPT ![t] = Keys(task[c].source)]
    BY <1>4, <1>a, Creating
  <2>2. file' = file /\ cutShort' = cutShort /\ task[c].at = "create"
    BY <1>4 DEF Create
  <2>3. listed[t] = {} /\ role' = [role EXCEPT ![t] = "unpublished"]
    BY <1>a, <2>1, Arrives
  <2>4. CASE y = t
    BY <1>a, <2>1, <2>3, <2>4 DEF Provided, StillToCome, ThemesOK
  <2>5. CASE y # t
    <3>1. listed'[y] = listed[y] /\ (y \in copying => y \in copying') /\ role'[y] = role[y]
      BY <1>a, <2>1, <2>3, <2>5 DEF ThemesOK
    <3>2. \A d \in Caller : task[d].at = "copy" =>
            /\ task'[d].at = "copy" /\ task'[d].theme = task[d].theme
            /\ task'[d].todo = task[d].todo /\ task'[d].flight = task[d].flight
      BY <2>1, <2>2 DEF NewsOf
    <3>3. Exists(y)' => Exists(y)
      BY <3>1 DEF Exists
    <3> QED BY <1>b, <1>d, <2>2, <3>1, <3>2, <3>3, ProvidedStill
  <2> QED BY <2>4, <2>5
<1>5. ASSUME NEW c \in Caller, CreateAnswerLost(c) PROVE Provided(y)'
  <2>1. PICK t \in Theme : /\ New(t) /\ task' = Seen(t) /\ listed' = listed /\ copying' = copying
           /\ cutShort' = cutShort /\ file' = file
    BY <1>5 DEF CreateAnswerLost
  <2>2. \A d \in Caller : NewsOf(task[d], task'[d], t, working')
    BY <1>a, <2>1, Seeing
  <2>3. listed[t] = {} /\ role' = [role EXCEPT ![t] = "unpublished"]
    BY <1>a, <2>1, Arrives
  <2>4. CASE y = t
    BY <1>a, <2>1, <2>3, <2>4 DEF Provided
  <2>5. CASE y # t
    <3>1. role'[y] = role[y] /\ file'[y] = file[y]
      BY <1>a, <2>1, <2>3, <2>5 DEF ThemesOK
    <3>2. \A d \in Caller : task[d].at = "copy" =>
            /\ task'[d].at = "copy" /\ task'[d].theme = task[d].theme
            /\ task'[d].todo = task[d].todo /\ task'[d].flight = task[d].flight
      BY <2>2 DEF NewsOf
    <3>3. Exists(y)' => Exists(y)
      BY <3>1 DEF Exists
    <3>4. Keys(y)' = Keys(y)
      BY <3>1 DEF Keys
    <3> QED BY <1>b, <2>1, <3>2, <3>3, <3>4, ProvidedStill
  <2> QED BY <2>4, <2>5
<1>6. ASSUME NEW c \in Caller, ListSource(c) PROVE Provided(y)'
  <2>1. role' = role /\ file' = file /\ copying' = copying /\ task[c].at = "list"
    BY <1>6 DEF ListSource, CopyStay
  <2>2. \A d \in Caller : d # c => task'[d] = task[d]
    BY <1>6, <1>a, ListSourceDoes DEF Only
  <2>3. task[c].theme \in Theme
    BY <1>a, <2>1, WithTheme
  <2>4. CASE y # task[c].theme
    <3>1. listed'[y] = listed[y] /\ cutShort \subseteq cutShort'
      BY <1>6, <1>a, <2>3, <2>4, ListSourceDoes DEF ThemesOK
    <3> QED BY <1>b, <1>c, <1>d, <2>1, <2>2, <3>1, ProvidedStill
  <2>5. CASE y = task[c].theme
    <3>1. \/ y \in cutShort'
          \/ task'[c].at = "copy" /\ task'[c].theme = y /\ listed'[y] = task'[c].todo
      BY <1>6, <1>a, <2>3, <2>5, ListSourceDoes DEF ThemesOK
    <3> QED BY <3>1 DEF Provided, StillToCome
  <2> QED BY <2>4, <2>5
<1>7. ASSUME NEW c \in Caller, CopyRead(c) PROVE Provided(y)'
  <2>1. role' = role /\ file' = file /\ copying' = copying /\ listed' = listed /\ task[c].at = "copy"
    BY <1>7 DEF CopyRead, CopyStay
  <2>2. \A d \in Caller : d # c => task'[d] = task[d]
    BY <1>7, <1>a, CopyReadDoes DEF Only, HasWorkers
  <2>3. PICK f \in task[c].todo :
           \/ /\ cutShort' = cutShort /\ task'[c].theme = task[c].theme /\ task'[c].at = task[c].at
              /\ task'[c].todo = task[c].todo \ {f} /\ task'[c].flight = task[c].flight \cup {f}
           \/ cutShort' = cutShort \cup {task[c].theme}
    BY <1>7, <1>a, CopyReadDoes DEF HasWorkers
  <2>4. \/ task[c].theme \in cutShort'
        \/ /\ task'[c].at = "copy" /\ task'[c].theme = task[c].theme
           /\ task[c].todo \cup task[c].flight \subseteq task'[c].todo \cup task'[c].flight
    BY <2>1, <2>3
  <2>5. cutShort \subseteq cutShort'
    BY <2>3
  <2> QED BY <1>b, <1>c, <1>d, <2>1, <2>2, <2>4, <2>5, ProvidedKept
<1>8. ASSUME NEW c \in Caller, CopyWrite(c) PROVE Provided(y)'
  <2>1. /\ role' = role /\ copying' = copying /\ listed' = listed /\ cutShort' = cutShort
        /\ task[c].at = "copy"
    BY <1>8 DEF CopyWrite, CopyStay
  <2>2. \A d \in Caller : d # c => task'[d] = task[d]
    BY <1>8, <1>a, CopyWriteDoes DEF Only
  <2>3. PICK f \in task[c].flight :
           /\ Put(task[c].theme, f, "theirs")
           /\ task'[c].theme = task[c].theme /\ task'[c].at = task[c].at
           /\ task'[c].todo = task[c].todo /\ task'[c].flight = task[c].flight \ {f}
    BY <1>8, <1>a, CopyWriteDoes
  <2>4. task[c].theme \in Theme /\ f \in File
    BY <1>a, <2>1, <2>3, WithTheme DEF TasksOK, Task
  <2>5. Keys(y)' = IF y # task[c].theme THEN Keys(y) ELSE Keys(y) \cup {f}
    BY <1>a, <2>3, <2>4, KeysPut DEF Content
  <2>6. y = task[c].theme =>
           /\ task'[c].at = "copy" /\ task'[c].theme = y
           /\ task[c].todo \cup task[c].flight \subseteq task'[c].todo \cup task'[c].flight \cup Keys(y)'
    BY <2>1, <2>3, <2>5
  <2>7. Keys(y) \subseteq Keys(y)'
    BY <2>5
  <2> QED BY <1>b, <1>c, <2>1, <2>2, <2>6, <2>7, ProvidedKept
<1>9. ASSUME NEW c \in Caller, CopyWriteFails(c) PROVE Provided(y)'
  <2>1. /\ role' = role /\ copying' = copying /\ listed' = listed /\ file' = file
        /\ cutShort' = cutShort \cup {task[c].theme}
    BY <1>9 DEF CopyWriteFails, CopyStay
  <2>2. \A d \in Caller : d # c => task'[d] = task[d]
    BY <1>9, <1>a, CopyWriteFailsDoes DEF Only
  <2> QED BY <1>b, <1>c, <1>d, <2>1, <2>2, ProvidedKept
<1>10. ASSUME NEW c \in Caller, Copied(c) PROVE Provided(y)'
  <2>1. /\ role' = role /\ copying' = copying /\ listed' = listed /\ file' = file /\ cutShort' = cutShort
        /\ task[c].at = "copy" /\ task[c].flight = {}
    BY <1>10 DEF Copied
  <2>2. \A d \in Caller : d # c => task'[d] = task[d]
    BY <1>10, <1>a, CopiedDoes DEF Only
  <2>3. task[c].workers < Workers \/ task[c].todo = {}
    BY <1>10, <1>a, CopiedDoes
  <2>4. task[c].theme \in cutShort \/ task[c].todo = {}
    BY <1>a, <2>3 DEF HasWorkers
  <2> QED BY <1>b, <1>c, <1>d, <2>1, <2>2, <2>4, ProvidedKept
<1>11. ASSUME NEW c \in Caller, RequestFails(c) PROVE Provided(y)'
  <2>1. /\ role' = role /\ file' = file /\ listed' = listed /\ copying' = copying
        /\ cutShort \subseteq cutShort' /\ task[c].at # "copy"
    BY <1>11 DEF RequestFails, store
  <2>2. \A d \in Caller : d # c => task'[d] = task[d]
    BY <1>11, <1>a, EndDoes DEF Only, HasWorkers
  <2> QED BY <1>b, <1>c, <1>d, <2>1, <2>2, ProvidedStill
<1>12. ASSUME NEW c \in Caller, PollDone(c) PROVE Provided(y)'
  <2>1. /\ role' = role /\ file' = file /\ listed' = listed /\ copying' = copying
        /\ cutShort \subseteq cutShort' /\ task[c].at # "copy"
    BY <1>12 DEF PollDone, store, bounds, Give
  <2>2. \A d \in Caller : d # c => task'[d] = task[d]
    BY <1>12, <1>a, PollDoes DEF Only, HasWorkers
  <2> QED BY <1>b, <1>c, <1>d, <2>1, <2>2, ProvidedStill
<1>13. ASSUME NEW c \in Caller, PollTimeout(c) PROVE Provided(y)'
  <2>1. /\ role' = role /\ file' = file /\ listed' = listed /\ copying' = copying
        /\ cutShort \subseteq cutShort' /\ task[c].at # "copy"
    BY <1>13 DEF PollTimeout, store, Give
  <2>2. \A d \in Caller : d # c => task'[d] = task[d]
    BY <1>13, <1>a, PollDoes DEF Only, HasWorkers
  <2> QED BY <1>b, <1>c, <1>d, <2>1, <2>2, ProvidedStill
<1>14. ASSUME NEW c \in Caller, ToolWrite(c) PROVE Provided(y)'
  <2>1. /\ role' = role /\ copying' = copying /\ listed' = listed /\ cutShort' = cutShort
        /\ task[c].at = "ready"
    BY <1>14 DEF ToolWrite
  <2>2. \A d \in Caller : d # c => task'[d] = task[d]
    BY <1>14, <1>a, EndDoes DEF Only
  <2>3. PICK f \in File : Put(task[c].theme, f, "tool")
    BY <1>14 DEF ToolWrite
  <2>4. task[c].theme \in Theme
    BY <1>a, <2>1, WithTheme
  <2>5. Keys(y)' = IF y # task[c].theme THEN Keys(y) ELSE Keys(y) \cup {f}
    BY <1>a, <2>3, <2>4, KeysPut DEF Content
  <2> QED BY <1>b, <1>c, <2>1, <2>2, <2>5, ProvidedStill
<1>15. ASSUME NEW c \in Caller, Leave(c) PROVE Provided(y)'
  <2>1. /\ role' = role /\ file' = file /\ listed' = listed /\ copying' = copying
        /\ cutShort \subseteq cutShort' /\ task[c].at # "copy"
    BY <1>15 DEF Leave, store, bounds, history
  <2>2. \A d \in Caller : d # c => task'[d] = task[d]
    BY <1>15, <1>a, EndDoes DEF Only, HasWorkers
  <2> QED BY <1>b, <1>c, <1>d, <2>1, <2>2, ProvidedStill
<1>16. ASSUME NEW t \in Theme, ShopifyCopies(t) PROVE Provided(y)'
  <2>1. /\ role' = role /\ copying' = copying \ {t} /\ listed' = listed /\ cutShort' = cutShort
        /\ task' = task
    BY <1>16 DEF ShopifyCopies, history
  <2>2. file' = [file EXCEPT ![t] = [f \in File |-> IF f \in listed[t] THEN "theirs" ELSE @[f]]]
    BY <1>16 DEF ShopifyCopies
  <2>3. CASE y # t
    <3>1. file'[y] = file[y]
      BY <1>a, <2>2, <2>3 DEF ThemesOK
    <3>2. Keys(y)' = Keys(y)
      BY <3>1 DEF Keys
    <3> QED BY <1>b, <1>c, <2>1, <2>3, <3>2, ProvidedStill
  <2>4. CASE y = t
    <3>1. \A f \in File : file'[y][f] = IF f \in listed[y] THEN "theirs" ELSE file[y][f]
      BY <1>a, <2>2, <2>4 DEF ThemesOK
    <3>2. listed[y] \subseteq File
      BY <1>a DEF ThemesOK
    <3>3. listed'[y] \subseteq Keys(y)'
      BY <2>1, <3>1, <3>2 DEF Keys
    <3> QED BY <3>3 DEF Provided
  <2> QED BY <2>3, <2>4
<1>17. ASSUME NEW t \in Theme, Publish(t) PROVE Provided(y)'
  <2>1. file' = file /\ copying' = copying /\ listed' = listed /\ cutShort' = cutShort
    BY <1>17 DEF Publish
  <2>2. Main \in Theme /\ role[Main] = "main"
    BY <1>a, MainIs
  <2>3. role[t] = "unpublished" /\ role' = [role EXCEPT ![t] = "main", ![Main] = "unpublished"]
    BY <1>17 DEF Publish
  <2>4. role'[y] # "none" => role[y] # "none"
    BY <1>a, <2>2, <2>3 DEF ThemesOK
  <2>5. Exists(y)' => Exists(y)
    BY <2>4 DEF Exists
  <2>6. \A d \in Caller : /\ task'[d].at = task[d].at /\ task'[d].theme = task[d].theme
                         /\ task'[d].todo = task[d].todo /\ task'[d].flight = task[d].flight
    BY <1>17, <1>a, Moving
  <2> QED BY <1>b, <1>d, <2>1, <2>5, <2>6, ProvidedStill
<1>18. ASSUME NEW t \in Theme, AddTheme(t) PROVE Provided(y)'
  <2>1. /\ New(t) /\ task' = Seen(t) /\ listed' = listed /\ copying' = copying
        /\ cutShort' = cutShort /\ file' = [file EXCEPT ![t] = [f \in File |-> "theirs"]]
    BY <1>18 DEF AddTheme
  <2>2. \A d \in Caller : NewsOf(task[d], task'[d], t, working')
    BY <1>a, <2>1, Seeing
  <2>3. listed[t] = {} /\ role' = [role EXCEPT ![t] = "unpublished"]
    BY <1>a, <2>1, Arrives
  <2>4. CASE y = t
    BY <1>a, <2>1, <2>3, <2>4 DEF Provided
  <2>5. CASE y # t
    <3>1. role'[y] = role[y] /\ file'[y] = file[y]
      BY <1>a, <2>1, <2>3, <2>5 DEF ThemesOK
    <3>2. \A d \in Caller : task[d].at = "copy" =>
            /\ task'[d].at = "copy" /\ task'[d].theme = task[d].theme
            /\ task'[d].todo = task[d].todo /\ task'[d].flight = task[d].flight
      BY <2>2 DEF NewsOf
    <3>3. Exists(y)' => Exists(y)
      BY <3>1 DEF Exists
    <3>4. Keys(y)' = Keys(y)
      BY <3>1 DEF Keys
    <3> QED BY <1>b, <2>1, <3>2, <3>3, <3>4, ProvidedStill
  <2> QED BY <2>4, <2>5
<1>19. ASSUME NEW t \in Theme, DeleteTheme(t) PROVE Provided(y)'
  <2>1. /\ file' = file /\ copying' = copying \ {t} /\ listed' = listed /\ cutShort' = cutShort
        /\ task' = task /\ role' = [role EXCEPT ![t] = "none"]
    BY <1>19 DEF DeleteTheme
  <2>2. CASE y = t
    <3>1. role'[y] = "none"
      BY <1>a, <2>1, <2>2 DEF ThemesOK
    <3> QED BY <3>1 DEF Provided, Exists
  <2>3. CASE y # t
    <3>1. role'[y] = role[y]
      BY <1>a, <2>1, <2>3 DEF ThemesOK
    <3>2. Exists(y)' => Exists(y)
      BY <3>1 DEF Exists
    <3> QED BY <1>b, <1>d, <2>1, <2>3, <3>2, ProvidedStill
  <2> QED BY <2>2, <2>3
<1>20. ASSUME NEW f \in File, DeleteFile(f) PROVE Provided(y)'
  <2>1. /\ role' = role /\ copying' = copying /\ cutShort' = cutShort /\ task' = task
        /\ listed' = [listed EXCEPT ![Main] = @ \ {f}]
    BY <1>20 DEF DeleteFile
  <2>2. PICK m \in Theme : m = Main
    BY <1>a, MainIs
  <2>3. Put(m, f, "missing")
    BY <1>20, <2>2 DEF DeleteFile
  <2>4. Keys(y)' = IF y # m THEN Keys(y) ELSE Keys(m) \ {f}
    BY <1>a, <2>3, KeysPut DEF Content
  <2>5. listed'[y] = IF y # m THEN listed[y] ELSE listed[m] \ {f}
    BY <1>a, <2>1, <2>2 DEF ThemesOK
  <2>6. listed'[y] \subseteq listed[y] /\ Keys(y) \cap listed'[y] \subseteq Keys(y)'
    BY <2>4, <2>5
  <2> QED BY <1>b, <1>c, <2>1, <2>6, ProvidedStill
<1>21. CASE Restart
  <2>1. /\ role' = role /\ copying' = copying /\ listed' = listed /\ file' = file
        /\ cutShort' = cutShort \cup {task[c].theme : c \in {d \in Caller : task[d].at \in {"list", "copy"}}}
    BY <1>21 DEF Restart, store
  <2>2. \A d \in Caller : task[d].at = "copy" => task[d].theme \in cutShort'
    BY <2>1
  <2> QED BY <1>b, <1>c, <1>d, <2>1, <2>2, ProvidedKept
<1>22. CASE UNCHANGED wtVars
  BY <1>22, <1>b DEF wtVars, Provided, StillToCome, Exists, Keys
<1>. QED
  BY <1>1, <1>2, <1>3, <1>4, <1>5, <1>6, <1>7, <1>8, <1>9, <1>10, <1>11, <1>12, <1>13, <1>14,
     <1>15, <1>16, <1>17, <1>18, <1>19, <1>20, <1>21, <1>22 DEF WorkingThemeNext

\* A step that touches none of the files a tool was told it wrote, and begins no copy there.
LEMMA KeptKept ==
  ASSUME ThemesOK, KeptInv, kept' \subseteq kept, made' \in Nat, made <= made',
         \A x \in kept' : file'[x[1]][x[2]] = file[x[1]][x[2]] /\ (InCopy(x[1])' => InCopy(x[1]))
  PROVE  KeptInv'
<1>1. made \in Nat /\ \A x \in kept : x[1] \in Nat
  BY WtConstants DEF ThemesOK
<1>2. ASSUME NEW x \in kept' PROVE x[1] <= made'
  BY <1>1, <1>2 DEF KeptInv
<1>. QED
  BY <1>2 DEF KeptInv

\* A copy that goes on began.
LEMMA CopiesOn ==
  ASSUME NEW t, copying' \subseteq copying,
         \A d \in Caller : \/ task'[d] = AtRest
                           \/ task'[d].at \notin {"list", "copy"}
                           \/ task[d].at \in {"list", "copy"} /\ task'[d].theme = task[d].theme
  PROVE  InCopy(t)' => InCopy(t)
<1>1. ASSUME NEW d \in Caller, task'[d].at \in {"list", "copy"}, task'[d].theme = t
      PROVE  task[d].at \in {"list", "copy"} /\ task[d].theme = t
  BY <1>1, Rested
<1>. QED
  BY <1>1 DEF InCopy

\* Every step keeps what a tool was told it wrote.
LEMMA WtKept ==
  ASSUME WtInv, [WorkingThemeNext]_wtVars
  PROVE  KeptInv'
<1>a. KeptInv /\ ThemesOK /\ TasksOK /\ InOrder /\ OneMain /\ NotMade /\ \A d \in Caller : HasTheme(d) /\ HasWorkers(d)
  BY DEF WtInv
<1>b. made \in Nat /\ made' \in Nat /\ \A x \in kept : x[1] \in Theme /\ x[2] \in File
  BY <1>a, WtTypes, WtConstants DEF ThemesOK
<1>1. ASSUME NEW c \in Caller, Current(c) PROVE KeptInv'
  <2>1. ASSUME NEW d \in Caller
        PROVE  \/ task'[d] = AtRest
               \/ task'[d].at \notin {"list", "copy"}
               \/ task[d].at \in {"list", "copy"} /\ task'[d].theme = task[d].theme
    <3>1. CASE d = c
      BY <1>1, <1>a, <3>1, CurrentDoes DEF HasWorkers
    <3>2. CASE d # c
      <4>1. task'[d] = task[d]
        BY <1>1, <1>a, <3>2, CurrentDoes DEF Only, HasWorkers
      <4> QED BY <4>1
    <3> QED BY <3>1, <3>2
  <2>2. kept' = kept /\ file' = file /\ made' = made /\ copying' = copying
    BY <1>1 DEF Current, Stay, store, bounds
  <2>3. \A x \in kept : InCopy(x[1])' => InCopy(x[1])
    BY <2>1, <2>2, CopiesOn
  <2> QED BY <1>a, <1>b, <2>2, <2>3, KeptKept
<1>2. ASSUME NEW c \in Caller, CheckCap(c) PROVE KeptInv'
  <2>1. ASSUME NEW d \in Caller
        PROVE  \/ task'[d] = AtRest
               \/ task'[d].at \notin {"list", "copy"}
               \/ task[d].at \in {"list", "copy"} /\ task'[d].theme = task[d].theme
    <3>1. CASE d = c
      BY <1>2, <1>a, <3>1, CheckCapDoes DEF HasWorkers
    <3>2. CASE d # c
      <4>1. task'[d] = task[d]
        BY <1>2, <1>a, <3>2, CheckCapDoes DEF Only, HasWorkers
      <4> QED BY <4>1
    <3> QED BY <3>1, <3>2
  <2>2. kept' = kept /\ file' = file /\ made' = made /\ copying' = copying
    BY <1>2 DEF CheckCap, Stay, store, bounds
  <2>3. \A x \in kept : InCopy(x[1])' => InCopy(x[1])
    BY <2>1, <2>2, CopiesOn
  <2> QED BY <1>a, <1>b, <2>2, <2>3, KeptKept
<1>3. ASSUME NEW c \in Caller, ReadLive(c) PROVE KeptInv'
  <2>1. ASSUME NEW d \in Caller
        PROVE  \/ task'[d] = AtRest
               \/ task'[d].at \notin {"list", "copy"}
               \/ task[d].at \in {"list", "copy"} /\ task'[d].theme = task[d].theme
    <3>1. CASE d = c
      BY <1>3, <1>a, <3>1, ReadLiveDoes DEF HasWorkers
    <3>2. CASE d # c
      <4>1. task'[d] = task[d]
        BY <1>3, <1>a, <3>2, ReadLiveDoes DEF Only, HasWorkers
      <4> QED BY <4>1
    <3> QED BY <3>1, <3>2
  <2>2. kept' = kept /\ file' = file /\ made' = made /\ copying' = copying
    BY <1>3 DEF ReadLive, Stay, store, bounds
  <2>3. \A x \in kept : InCopy(x[1])' => InCopy(x[1])
    BY <2>1, <2>2, CopiesOn
  <2> QED BY <1>a, <1>b, <2>2, <2>3, KeptKept
<1>4. ASSUME NEW c \in Caller, Create(c) PROVE KeptInv'
  <2>1. PICK t \in Theme :
           /\ New(t) /\ task'[c].theme = t /\ copying' \subseteq copying \cup {t}
           /\ \A d \in Caller : d # c => NewsOf(task[d], task'[d], t, working')
    BY <1>4, <1>a, Creating
  <2>2. file' = file /\ kept' = kept
    BY <1>4 DEF Create
  <2>3. t = made + 1 /\ made' = t
    BY <1>a, <2>1, Arrives
  <2>4. \A d \in Caller : d # c => task'[d].at = task[d].at /\ task'[d].theme = task[d].theme
    BY <2>1 DEF NewsOf
  <2>5. ASSUME NEW x \in kept PROVE x[1] # t
    BY <1>a, <1>b, <2>3, <2>5, WtConstants DEF KeptInv
  <2>6. ASSUME NEW x \in kept, InCopy(x[1])' PROVE InCopy(x[1])
    <3>1. CASE x[1] \in copying'
      BY <2>1, <2>5, <3>1 DEF InCopy
    <3>2. CASE \E d \in Caller : task'[d].at \in {"list", "copy"} /\ task'[d].theme = x[1]
      BY <2>1, <2>4, <2>5, <3>2 DEF InCopy
    <3> QED BY <2>6, <3>1, <3>2 DEF InCopy
  <2>7. made <= made'
    BY <1>b, <2>3
  <2> QED BY <1>a, <1>b, <2>2, <2>6, <2>7, KeptKept
<1>5. ASSUME NEW c \in Caller, CreateAnswerLost(c) PROVE KeptInv'
  <2>1. PICK t \in Theme : New(t) /\ task' = Seen(t) /\ copying' = copying /\ kept' = kept /\ file' = file
    BY <1>5 DEF CreateAnswerLost
  <2>2. \A d \in Caller : NewsOf(task[d], task'[d], t, working')
    BY <1>a, <2>1, Seeing
  <2>3. t = made + 1 /\ made' = t
    BY <1>a, <2>1, Arrives
  <2>4. ASSUME NEW x \in kept PROVE x[1] # t
    BY <1>a, <1>b, <2>3, <2>4, WtConstants DEF KeptInv
  <2>5. \A x \in kept : file'[x[1]][x[2]] = file[x[1]][x[2]]
    BY <1>a, <1>b, <2>1, <2>4 DEF ThemesOK
  <2>6. \A x \in kept : InCopy(x[1])' => InCopy(x[1])
    BY <2>1, <2>2 DEF NewsOf, InCopy
  <2>7. made <= made'
    BY <1>b, <2>3
  <2> QED BY <1>a, <1>b, <2>1, <2>5, <2>6, <2>7, KeptKept
<1>6. ASSUME NEW c \in Caller, ListSource(c) PROVE KeptInv'
  <2>1. ASSUME NEW d \in Caller
        PROVE  \/ task'[d] = AtRest
               \/ task'[d].at \notin {"list", "copy"}
               \/ task[d].at \in {"list", "copy"} /\ task'[d].theme = task[d].theme
    <3>1. CASE d = c
      BY <1>6, <1>a, <3>1, ListSourceDoes DEF HasWorkers
    <3>2. CASE d # c
      <4>1. task'[d] = task[d]
        BY <1>6, <1>a, <3>2, ListSourceDoes DEF Only, HasWorkers
      <4> QED BY <4>1
    <3> QED BY <3>1, <3>2
  <2>2. kept' = kept /\ file' = file /\ made' = made /\ copying' = copying
    BY <1>6 DEF ListSource, CopyStay
  <2>3. \A x \in kept : InCopy(x[1])' => InCopy(x[1])
    BY <2>1, <2>2, CopiesOn
  <2> QED BY <1>a, <1>b, <2>2, <2>3, KeptKept
<1>7. ASSUME NEW c \in Caller, CopyRead(c) PROVE KeptInv'
  <2>1. ASSUME NEW d \in Caller
        PROVE  \/ task'[d] = AtRest
               \/ task'[d].at \notin {"list", "copy"}
               \/ task[d].at \in {"list", "copy"} /\ task'[d].theme = task[d].theme
    <3>1. CASE d = c
      BY <1>7, <1>a, <3>1, CopyReadDoes DEF HasWorkers
    <3>2. CASE d # c
      <4>1. task'[d] = task[d]
        BY <1>7, <1>a, <3>2, CopyReadDoes DEF Only, HasWorkers
      <4> QED BY <4>1
    <3> QED BY <3>1, <3>2
  <2>2. kept' = kept /\ file' = file /\ made' = made /\ copying' = copying
    BY <1>7 DEF CopyRead, CopyStay
  <2>3. \A x \in kept : InCopy(x[1])' => InCopy(x[1])
    BY <2>1, <2>2, CopiesOn
  <2> QED BY <1>a, <1>b, <2>2, <2>3, KeptKept
<1>8. ASSUME NEW c \in Caller, CopyWrite(c) PROVE KeptInv'
  <2>1. ASSUME NEW d \in Caller
        PROVE  \/ task'[d] = AtRest
               \/ task'[d].at \notin {"list", "copy"}
               \/ task[d].at \in {"list", "copy"} /\ task'[d].theme = task[d].theme
    <3>1. CASE d = c
      BY <1>8, <1>a, <3>1, CopyWriteDoes DEF HasWorkers
    <3>2. CASE d # c
      <4>1. task'[d] = task[d]
        BY <1>8, <1>a, <3>2, CopyWriteDoes DEF Only, HasWorkers
      <4> QED BY <4>1
    <3> QED BY <3>1, <3>2
  <2>2. kept' = kept /\ made' = made /\ copying' = copying /\ task[c].at = "copy"
    BY <1>8 DEF CopyWrite, CopyStay
  <2>3. \A x \in kept : InCopy(x[1])' => InCopy(x[1])
    BY <2>1, <2>2, CopiesOn
  <2>4. PICK f : file' = [file EXCEPT ![task[c].theme][f] = "theirs"]
    BY <1>8 DEF CopyWrite, Put
  <2>5. InCopy(task[c].theme)
    BY <2>2 DEF InCopy
  <2>6. \A x \in kept : x[1] # task[c].theme
    BY <1>a, <2>5 DEF KeptInv
  <2>7. \A x \in kept : file'[x[1]][x[2]] = file[x[1]][x[2]]
    BY <1>a, <1>b, <2>4, <2>6 DEF ThemesOK
  <2> QED BY <1>a, <1>b, <2>2, <2>3, <2>7, KeptKept
<1>9. ASSUME NEW c \in Caller, CopyWriteFails(c) PROVE KeptInv'
  <2>1. ASSUME NEW d \in Caller
        PROVE  \/ task'[d] = AtRest
               \/ task'[d].at \notin {"list", "copy"}
               \/ task[d].at \in {"list", "copy"} /\ task'[d].theme = task[d].theme
    <3>1. CASE d = c
      BY <1>9, <1>a, <3>1, CopyWriteFailsDoes DEF HasWorkers
    <3>2. CASE d # c
      <4>1. task'[d] = task[d]
        BY <1>9, <1>a, <3>2, CopyWriteFailsDoes DEF Only, HasWorkers
      <4> QED BY <4>1
    <3> QED BY <3>1, <3>2
  <2>2. kept' = kept /\ file' = file /\ made' = made /\ copying' = copying
    BY <1>9 DEF CopyWriteFails, CopyStay
  <2>3. \A x \in kept : InCopy(x[1])' => InCopy(x[1])
    BY <2>1, <2>2, CopiesOn
  <2> QED BY <1>a, <1>b, <2>2, <2>3, KeptKept
<1>10. ASSUME NEW c \in Caller, Copied(c) PROVE KeptInv'
  <2>1. ASSUME NEW d \in Caller
        PROVE  \/ task'[d] = AtRest
               \/ task'[d].at \notin {"list", "copy"}
               \/ task[d].at \in {"list", "copy"} /\ task'[d].theme = task[d].theme
    <3>1. CASE d = c
      BY <1>10, <1>a, <3>1, CopiedDoes DEF HasWorkers
    <3>2. CASE d # c
      <4>1. task'[d] = task[d]
        BY <1>10, <1>a, <3>2, CopiedDoes DEF Only, HasWorkers
      <4> QED BY <4>1
    <3> QED BY <3>1, <3>2
  <2>2. kept' = kept /\ file' = file /\ made' = made /\ copying' = copying
    BY <1>10 DEF Copied, Give
  <2>3. \A x \in kept : InCopy(x[1])' => InCopy(x[1])
    BY <2>1, <2>2, CopiesOn
  <2> QED BY <1>a, <1>b, <2>2, <2>3, KeptKept
<1>11. ASSUME NEW c \in Caller, RequestFails(c) PROVE KeptInv'
  <2>1. ASSUME NEW d \in Caller
        PROVE  \/ task'[d] = AtRest
               \/ task'[d].at \notin {"list", "copy"}
               \/ task[d].at \in {"list", "copy"} /\ task'[d].theme = task[d].theme
    <3>1. CASE d = c
      BY <1>11, <1>a, <3>1, EndDoes DEF HasWorkers
    <3>2. CASE d # c
      <4>1. task'[d] = task[d]
        BY <1>11, <1>a, <3>2, EndDoes DEF Only, HasWorkers
      <4> QED BY <4>1
    <3> QED BY <3>1, <3>2
  <2>2. kept' = kept /\ file' = file /\ made' = made /\ copying' = copying
    BY <1>11 DEF RequestFails, store
  <2>3. \A x \in kept : InCopy(x[1])' => InCopy(x[1])
    BY <2>1, <2>2, CopiesOn
  <2> QED BY <1>a, <1>b, <2>2, <2>3, KeptKept
<1>12. ASSUME NEW c \in Caller, PollDone(c) PROVE KeptInv'
  <2>1. ASSUME NEW d \in Caller
        PROVE  \/ task'[d] = AtRest
               \/ task'[d].at \notin {"list", "copy"}
               \/ task[d].at \in {"list", "copy"} /\ task'[d].theme = task[d].theme
    <3>1. CASE d = c
      BY <1>12, <1>a, <3>1, PollDoes DEF HasWorkers
    <3>2. CASE d # c
      <4>1. task'[d] = task[d]
        BY <1>12, <1>a, <3>2, PollDoes DEF Only, HasWorkers
      <4> QED BY <4>1
    <3> QED BY <3>1, <3>2
  <2>2. kept' = kept /\ file' = file /\ made' = made /\ copying' = copying
    BY <1>12 DEF PollDone, store, bounds, Give
  <2>3. \A x \in kept : InCopy(x[1])' => InCopy(x[1])
    BY <2>1, <2>2, CopiesOn
  <2> QED BY <1>a, <1>b, <2>2, <2>3, KeptKept
<1>13. ASSUME NEW c \in Caller, PollTimeout(c) PROVE KeptInv'
  <2>1. ASSUME NEW d \in Caller
        PROVE  \/ task'[d] = AtRest
               \/ task'[d].at \notin {"list", "copy"}
               \/ task[d].at \in {"list", "copy"} /\ task'[d].theme = task[d].theme
    <3>1. CASE d = c
      BY <1>13, <1>a, <3>1, PollDoes DEF HasWorkers
    <3>2. CASE d # c
      <4>1. task'[d] = task[d]
        BY <1>13, <1>a, <3>2, PollDoes DEF Only, HasWorkers
      <4> QED BY <4>1
    <3> QED BY <3>1, <3>2
  <2>2. kept' = kept /\ file' = file /\ made' = made /\ copying' = copying
    BY <1>13 DEF PollTimeout, store, Give
  <2>3. \A x \in kept : InCopy(x[1])' => InCopy(x[1])
    BY <2>1, <2>2, CopiesOn
  <2> QED BY <1>a, <1>b, <2>2, <2>3, KeptKept
<1>14. ASSUME NEW c \in Caller, ToolWrite(c) PROVE KeptInv'
  <2>1. ASSUME NEW d \in Caller
        PROVE  \/ task'[d] = AtRest
               \/ task'[d].at \notin {"list", "copy"}
               \/ task[d].at \in {"list", "copy"} /\ task'[d].theme = task[d].theme
    <3>1. CASE d = c
      BY <1>14, <1>a, <3>1, EndDoes DEF HasWorkers
    <3>2. CASE d # c
      <4>1. task'[d] = task[d]
        BY <1>14, <1>a, <3>2, EndDoes DEF Only, HasWorkers
      <4> QED BY <4>1
    <3> QED BY <3>1, <3>2
  <2>2. made' = made /\ copying' = copying /\ task[c].at = "ready"
    BY <1>14 DEF ToolWrite
  <2>3. \A y \in Theme : InCopy(y)' => InCopy(y)
    BY <2>1, <2>2, CopiesOn
  <2>4. PICK f \in File : /\ file' = [file EXCEPT ![task[c].theme][f] = "tool"]
           /\ kept' = IF InCopy(task[c].theme) THEN kept \ {<<task[c].theme, f>>} ELSE kept \cup {<<task[c].theme, f>>}
    BY <1>14 DEF ToolWrite, Put
  <2>5. task[c].theme \in Theme /\ task[c].theme <= made
    BY <1>a, <2>2, WithTheme DEF HasTheme
  <2>6. \A x \in Theme \X File : file'[x[1]][x[2]] = IF x = <<task[c].theme, f>> THEN "tool" ELSE file[x[1]][x[2]]
    BY <1>a, <2>4, <2>5 DEF ThemesOK
  <2>7. kept \subseteq Theme \X File
    BY <1>a DEF ThemesOK
  <2>8. PICK z : z = <<task[c].theme, f>>
    OBVIOUS
  <2>9. z \in Theme \X File /\ z[1] = task[c].theme
    BY <2>5, <2>8
  <2>10. ASSUME NEW x \in kept' PROVE file'[x[1]][x[2]] = "tool" /\ x[1] <= made' /\ ~InCopy(x[1])'
    <3>1. x \in kept \/ (x = z /\ ~InCopy(task[c].theme))
      BY <2>4, <2>8, <2>10
    <3>2. CASE x \in kept
      <4>1. x \in Theme \X File /\ x[1] \in Theme /\ file[x[1]][x[2]] = "tool" /\ x[1] <= made /\ ~InCopy(x[1])
        BY <1>a, <1>b, <2>7, <3>2 DEF KeptInv
      <4> QED BY <2>2, <2>3, <2>6, <4>1
    <3>3. CASE x = z /\ ~InCopy(task[c].theme)
      BY <2>2, <2>3, <2>5, <2>6, <2>8, <2>9, <3>3
    <3> QED BY <3>1, <3>2, <3>3
  <2> QED BY <2>10 DEF KeptInv
<1>15. ASSUME NEW c \in Caller, Leave(c) PROVE KeptInv'
  <2>1. ASSUME NEW d \in Caller
        PROVE  \/ task'[d] = AtRest
               \/ task'[d].at \notin {"list", "copy"}
               \/ task[d].at \in {"list", "copy"} /\ task'[d].theme = task[d].theme
    <3>1. CASE d = c
      BY <1>15, <1>a, <3>1, EndDoes DEF HasWorkers
    <3>2. CASE d # c
      <4>1. task'[d] = task[d]
        BY <1>15, <1>a, <3>2, EndDoes DEF Only, HasWorkers
      <4> QED BY <4>1
    <3> QED BY <3>1, <3>2
  <2>2. kept' = kept /\ file' = file /\ made' = made /\ copying' = copying
    BY <1>15 DEF Leave, store, bounds, history
  <2>3. \A x \in kept : InCopy(x[1])' => InCopy(x[1])
    BY <2>1, <2>2, CopiesOn
  <2> QED BY <1>a, <1>b, <2>2, <2>3, KeptKept
<1>16. ASSUME NEW t \in Theme, ShopifyCopies(t) PROVE KeptInv'
  <2>1. t \in copying /\ copying' = copying \ {t} /\ kept' = kept /\ made' = made /\ task' = task
    BY <1>16 DEF ShopifyCopies, history
  <2>2. file' = [file EXCEPT ![t] = [f \in File |-> IF f \in listed[t] THEN "theirs" ELSE @[f]]]
    BY <1>16 DEF ShopifyCopies
  <2>3. \A x \in kept : x[1] # t
    BY <1>a, <2>1 DEF KeptInv, InCopy
  <2>4. \A x \in kept : file'[x[1]][x[2]] = file[x[1]][x[2]]
    BY <1>a, <1>b, <2>2, <2>3 DEF ThemesOK
  <2>5. \A x \in kept : InCopy(x[1])' => InCopy(x[1])
    BY <2>1 DEF InCopy
  <2> QED BY <1>a, <1>b, <2>1, <2>4, <2>5, KeptKept
<1>17. ASSUME NEW t \in Theme, Publish(t) PROVE KeptInv'
  <2>1. file' = file /\ copying' = copying /\ kept' = kept /\ made' = made
    BY <1>17 DEF Publish
  <2>2. \A d \in Caller : task'[d].at = task[d].at /\ task'[d].theme = task[d].theme
    BY <1>17, <1>a, Moving
  <2>3. \A x \in kept : InCopy(x[1])' => InCopy(x[1])
    BY <2>1, <2>2 DEF InCopy
  <2> QED BY <1>a, <1>b, <2>1, <2>3, KeptKept
<1>18. ASSUME NEW t \in Theme, AddTheme(t) PROVE KeptInv'
  <2>1. /\ New(t) /\ task' = Seen(t) /\ copying' = copying /\ kept' = kept
        /\ file' = [file EXCEPT ![t] = [f \in File |-> "theirs"]]
    BY <1>18 DEF AddTheme
  <2>2. \A d \in Caller : NewsOf(task[d], task'[d], t, working')
    BY <1>a, <2>1, Seeing
  <2>3. t = made + 1 /\ made' = t
    BY <1>a, <2>1, Arrives
  <2>4. ASSUME NEW x \in kept PROVE x[1] # t
    BY <1>a, <1>b, <2>3, <2>4, WtConstants DEF KeptInv
  <2>5. \A x \in kept : file'[x[1]][x[2]] = file[x[1]][x[2]]
    BY <1>a, <1>b, <2>1, <2>4 DEF ThemesOK
  <2>6. \A x \in kept : InCopy(x[1])' => InCopy(x[1])
    BY <2>1, <2>2 DEF NewsOf, InCopy
  <2>7. made <= made'
    BY <1>b, <2>3
  <2> QED BY <1>a, <1>b, <2>1, <2>5, <2>6, <2>7, KeptKept
<1>19. ASSUME NEW t \in Theme, DeleteTheme(t) PROVE KeptInv'
  <2>1. file' = file /\ copying' \subseteq copying /\ kept' \subseteq kept /\ made' = made /\ task' = task
    BY <1>19 DEF DeleteTheme
  <2>3. \A x \in kept : InCopy(x[1])' => InCopy(x[1])
    BY <2>1 DEF InCopy
  <2> QED BY <1>a, <1>b, <2>1, <2>3, KeptKept
<1>20. ASSUME NEW f \in File, DeleteFile(f) PROVE KeptInv'
  <2>1. /\ copying' = copying /\ kept' = kept \ {<<Main, f>>} /\ made' = made /\ task' = task
        /\ file' = [file EXCEPT ![Main][f] = "missing"]
    BY <1>20 DEF DeleteFile, Put
  <2>2. Main \in Theme
    BY <1>a, MainIs
  <2>3. kept \subseteq Theme \X File
    BY <1>a DEF ThemesOK
  <2>4. \A x \in Theme \X File : x # <<Main, f>> => file'[x[1]][x[2]] = file[x[1]][x[2]]
    BY <1>a, <2>1, <2>2 DEF ThemesOK
  <2>5. \A x \in kept' : file'[x[1]][x[2]] = file[x[1]][x[2]]
    BY <2>1, <2>3, <2>4
  <2>6. \A x \in kept : InCopy(x[1])' => InCopy(x[1])
    BY <2>1 DEF InCopy
  <2> QED BY <1>a, <1>b, <2>1, <2>5, <2>6, KeptKept
<1>21. CASE Restart
  <2>1. file' = file /\ copying' = copying /\ kept' = kept /\ made' = made
    BY <1>21 DEF Restart, store
  <2>2. \A d \in Caller : task'[d] = AtRest
    BY <1>21, RestartDoes
  <2>3. \A x \in kept : InCopy(x[1])' => InCopy(x[1])
    BY <2>1, <2>2, CopiesOn
  <2> QED BY <1>a, <1>b, <2>1, <2>3, KeptKept
<1>22. CASE UNCHANGED wtVars
  <2>1. file' = file /\ copying' = copying /\ kept' = kept /\ made' = made /\ task' = task
    BY <1>22 DEF wtVars
  <2>3. \A x \in kept : InCopy(x[1])' => InCopy(x[1])
    BY <2>1 DEF InCopy
  <2> QED BY <1>a, <1>b, <2>1, <2>3, KeptKept
<1>. QED
  BY <1>1, <1>2, <1>3, <1>4, <1>5, <1>6, <1>7, <1>8, <1>9, <1>10, <1>11, <1>12, <1>13, <1>14,
     <1>15, <1>16, <1>17, <1>18, <1>19, <1>20, <1>21, <1>22 DEF WorkingThemeNext

-----------------------------------------------------------------------------
(* One working theme, the cap, the live theme *)

\* Every step keeps one working theme, or has the excuse for a second one.
LEMMA WtAtMostOne ==
  ASSUME WtInv, [WorkingThemeNext]_wtVars
  PROVE  AtMostOne'
<1>a. AtMostOne /\ ThemesOK /\ TasksOK /\ InOrder /\ OneMain /\ NotMade /\ \A d \in Caller : HasTheme(d) /\ HasWorkers(d)
  BY DEF WtInv
<1>b. \A c \in Caller : SawNone(c)
  BY DEF WtInv
<1>c. role' = role /\ working' = working /\ doubled' = doubled => AtMostOne'
  BY <1>a, CountsKept DEF AtMostOne
<1>d. (doubled => doubled') /\ Candidates' \subseteq Candidates => AtMostOne'
  BY <1>a DEF AtMostOne
<1>1. ASSUME NEW c \in Caller, Current(c) PROVE AtMostOne'
  <2>1. role' = role /\ working' = working /\ doubled' = doubled
    BY <1>1 DEF Current, Stay, store, bounds
  <2> QED BY <1>c, <2>1
<1>2. ASSUME NEW c \in Caller, CheckCap(c) PROVE AtMostOne'
  <2>1. role' = role /\ working' = working /\ doubled' = doubled
    BY <1>2 DEF CheckCap, Stay, store, bounds
  <2> QED BY <1>c, <2>1
<1>3. ASSUME NEW c \in Caller, ReadLive(c) PROVE AtMostOne'
  <2>1. role' = role /\ working' = working /\ doubled' = doubled
    BY <1>3 DEF ReadLive, Stay, store, bounds
  <2> QED BY <1>c, <2>1
<1>4. ASSUME NEW c \in Caller, Create(c) PROVE AtMostOne'
  <2>1. PICK t \in Theme : New(t) /\ working' = working \cup {t} /\ doubled' = (doubled \/ task[c].stale)
    BY <1>4 DEF Create
  <2>2. task[c].at = "create"
    BY <1>4 DEF Create
  <2>3. Candidates' = Candidates \cup {t}
    BY <1>a, <2>1, NewCounts
  <2>4. CASE doubled \/ task[c].stale
    BY <2>1, <2>4 DEF AtMostOne
  <2>5. CASE ~(doubled \/ task[c].stale)
    <3>1. Candidates = {}
      BY <1>b, <2>2, <2>5 DEF SawNone
    <3> QED BY <2>3, <3>1 DEF AtMostOne
  <2> QED BY <2>4, <2>5
<1>5. ASSUME NEW c \in Caller, CreateAnswerLost(c) PROVE AtMostOne'
  <2>1. PICK t \in Theme : New(t) /\ working' = working \cup {t} /\ doubled' = (doubled \/ task[c].stale)
    BY <1>5 DEF CreateAnswerLost
  <2>2. task[c].at = "create"
    BY <1>5 DEF CreateAnswerLost
  <2>3. Candidates' = Candidates \cup {t}
    BY <1>a, <2>1, NewCounts
  <2>4. CASE doubled \/ task[c].stale
    BY <2>1, <2>4 DEF AtMostOne
  <2>5. CASE ~(doubled \/ task[c].stale)
    <3>1. Candidates = {}
      BY <1>b, <2>2, <2>5 DEF SawNone
    <3> QED BY <2>3, <3>1 DEF AtMostOne
  <2> QED BY <2>4, <2>5
<1>6. ASSUME NEW c \in Caller, ListSource(c) PROVE AtMostOne'
  <2>1. role' = role /\ working' = working /\ doubled' = doubled
    BY <1>6 DEF ListSource, CopyStay
  <2> QED BY <1>c, <2>1
<1>7. ASSUME NEW c \in Caller, CopyRead(c) PROVE AtMostOne'
  <2>1. role' = role /\ working' = working /\ doubled' = doubled
    BY <1>7 DEF CopyRead, CopyStay
  <2> QED BY <1>c, <2>1
<1>8. ASSUME NEW c \in Caller, CopyWrite(c) PROVE AtMostOne'
  <2>1. role' = role /\ working' = working /\ doubled' = doubled
    BY <1>8 DEF CopyWrite, CopyStay, Put
  <2> QED BY <1>c, <2>1
<1>9. ASSUME NEW c \in Caller, CopyWriteFails(c) PROVE AtMostOne'
  <2>1. role' = role /\ working' = working /\ doubled' = doubled
    BY <1>9 DEF CopyWriteFails, CopyStay
  <2> QED BY <1>c, <2>1
<1>10. ASSUME NEW c \in Caller, Copied(c) PROVE AtMostOne'
  <2>1. role' = role /\ working' = working /\ doubled' = doubled
    BY <1>10 DEF Copied, Give
  <2> QED BY <1>c, <2>1
<1>11. ASSUME NEW c \in Caller, RequestFails(c) PROVE AtMostOne'
  <2>1. role' = role /\ working' = working /\ doubled' = doubled
    BY <1>11 DEF RequestFails, store
  <2> QED BY <1>c, <2>1
<1>12. ASSUME NEW c \in Caller, PollDone(c) PROVE AtMostOne'
  <2>1. role' = role /\ working' = working /\ doubled' = doubled
    BY <1>12 DEF PollDone, store, bounds, Give
  <2> QED BY <1>c, <2>1
<1>13. ASSUME NEW c \in Caller, PollTimeout(c) PROVE AtMostOne'
  <2>1. role' = role /\ working' = working /\ doubled' = doubled
    BY <1>13 DEF PollTimeout, store, Give
  <2> QED BY <1>c, <2>1
<1>14. ASSUME NEW c \in Caller, ToolWrite(c) PROVE AtMostOne'
  <2>1. role' = role /\ working' = working /\ doubled' = doubled
    BY <1>14 DEF ToolWrite, bounds, Put
  <2> QED BY <1>c, <2>1
<1>15. ASSUME NEW c \in Caller, Leave(c) PROVE AtMostOne'
  <2>1. role' = role /\ working' = working /\ doubled' = doubled
    BY <1>15 DEF Leave, store, bounds, history
  <2> QED BY <1>c, <2>1
<1>16. ASSUME NEW t \in Theme, ShopifyCopies(t) PROVE AtMostOne'
  <2>1. role' = role /\ working' = working /\ doubled' = doubled
    BY <1>16 DEF ShopifyCopies, bounds, history
  <2> QED BY <1>c, <2>1
<1>17. ASSUME NEW t \in Theme, Publish(t) PROVE AtMostOne'
  <2>1. doubled' = (doubled \/ Main \in working)
    BY <1>17 DEF Publish
  <2>2. Candidates' \subseteq Candidates \cup ({Main} \cap working)
    BY <1>17, <1>a, PublishCounts
  <2>3. CASE Main \in working
    BY <2>1, <2>3 DEF AtMostOne
  <2>4. CASE Main \notin working
    BY <1>d, <2>1, <2>2, <2>4
  <2> QED BY <2>3, <2>4
<1>18. ASSUME NEW t \in Theme, AddTheme(t) PROVE AtMostOne'
  <2>1. New(t) /\ working' = working /\ doubled' = doubled
    BY <1>18 DEF AddTheme
  <2>2. Candidates' = Candidates
    BY <1>a, <2>1, NewCounts
  <2> QED BY <1>d, <2>1, <2>2
<1>19. ASSUME NEW t \in Theme, DeleteTheme(t) PROVE AtMostOne'
  <2>1. doubled' = doubled
    BY <1>19 DEF DeleteTheme
  <2>2. Candidates' \subseteq Candidates
    BY <1>19, <1>a, DeleteCounts
  <2> QED BY <1>d, <2>1, <2>2
<1>20. ASSUME NEW f \in File, DeleteFile(f) PROVE AtMostOne'
  <2>1. role' = role /\ working' = working /\ doubled' = doubled
    BY <1>20 DEF DeleteFile, ByMerchant, Put
  <2> QED BY <1>c, <2>1
<1>21. CASE Restart
  <2>1. role' = role /\ working' = working /\ doubled' = doubled
    BY <1>21 DEF Restart, store
  <2> QED BY <1>c, <2>1
<1>22. CASE UNCHANGED wtVars
  <2>1. role' = role /\ working' = working /\ doubled' = doubled
    BY <1>22 DEF wtVars, store, history, bounds
  <2> QED BY <1>c, <2>1
<1>. QED
  BY <1>1, <1>2, <1>3, <1>4, <1>5, <1>6, <1>7, <1>8, <1>9, <1>10, <1>11, <1>12, <1>13, <1>14,
     <1>15, <1>16, <1>17, <1>18, <1>19, <1>20, <1>21, <1>22 DEF WorkingThemeNext

\* Every step keeps the cap, or has the excuse for going over it.
LEMMA WtCapKept ==
  ASSUME WtInv, [WorkingThemeNext]_wtVars
  PROVE  CapKept'
<1>a. CapKept /\ ThemesOK /\ TasksOK /\ InOrder /\ OneMain /\ NotMade /\ \A d \in Caller : HasTheme(d) /\ HasWorkers(d)
  BY DEF WtInv
<1>b. \A c \in Caller : SawRoom(c)
  BY DEF WtInv
<1>c. role' = role /\ working' = working /\ overrun' = overrun => CapKept'
  BY <1>a, CountsKept DEF CapKept
<1>d. (overrun => overrun') /\ Cardinality(Unpublished') <= Cardinality(Unpublished) => CapKept'
  <2>1. Cardinality(Unpublished)' = Cardinality(Unpublished')
    OBVIOUS
  <2>2. Unpublished' = {t \in Theme : role'[t] = "unpublished"}
    BY DEF Unpublished
  <2>3. IsFiniteSet(Unpublished') /\ Cardinality(Unpublished') \in Nat
    BY <2>2, WtConstants, FS_Subset, FS_CardinalityType
  <2>. QED BY <1>a, <2>3, Counted, WtConstants DEF CapKept
<1>e. Cardinality(Unpublished) < Cap /\ Cardinality(Unpublished') = Cardinality(Unpublished) + 1 => CapKept'
  BY Counted, WtConstants DEF CapKept
<1>1. ASSUME NEW c \in Caller, Current(c) PROVE CapKept'
  <2>1. role' = role /\ working' = working /\ overrun' = overrun
    BY <1>1 DEF Current, Stay, store, bounds
  <2> QED BY <1>c, <2>1
<1>2. ASSUME NEW c \in Caller, CheckCap(c) PROVE CapKept'
  <2>1. role' = role /\ working' = working /\ overrun' = overrun
    BY <1>2 DEF CheckCap, Stay, store, bounds
  <2> QED BY <1>c, <2>1
<1>3. ASSUME NEW c \in Caller, ReadLive(c) PROVE CapKept'
  <2>1. role' = role /\ working' = working /\ overrun' = overrun
    BY <1>3 DEF ReadLive, Stay, store, bounds
  <2> QED BY <1>c, <2>1
<1>4. ASSUME NEW c \in Caller, Create(c) PROVE CapKept'
  <2>1. PICK t \in Theme : New(t) /\ overrun' = (overrun \/ task[c].grew)
    BY <1>4 DEF Create
  <2>2. task[c].at = "create"
    BY <1>4 DEF Create
  <2>3. Cardinality(Unpublished') = Cardinality(Unpublished) + 1
    BY <1>a, <2>1, NewCounts
  <2>4. CASE overrun \/ task[c].grew
    BY <2>1, <2>4 DEF CapKept
  <2>5. CASE ~(overrun \/ task[c].grew)
    <3>1. Cardinality(Unpublished) < Cap
      BY <1>b, <2>2, <2>5 DEF SawRoom
    <3> QED BY <1>e, <2>3, <3>1
  <2> QED BY <2>4, <2>5
<1>5. ASSUME NEW c \in Caller, CreateAnswerLost(c) PROVE CapKept'
  <2>1. PICK t \in Theme : New(t) /\ overrun' = (overrun \/ task[c].grew)
    BY <1>5 DEF CreateAnswerLost
  <2>2. task[c].at = "create"
    BY <1>5 DEF CreateAnswerLost
  <2>3. Cardinality(Unpublished') = Cardinality(Unpublished) + 1
    BY <1>a, <2>1, NewCounts
  <2>4. CASE overrun \/ task[c].grew
    BY <2>1, <2>4 DEF CapKept
  <2>5. CASE ~(overrun \/ task[c].grew)
    <3>1. Cardinality(Unpublished) < Cap
      BY <1>b, <2>2, <2>5 DEF SawRoom
    <3> QED BY <1>e, <2>3, <3>1
  <2> QED BY <2>4, <2>5
<1>6. ASSUME NEW c \in Caller, ListSource(c) PROVE CapKept'
  <2>1. role' = role /\ working' = working /\ overrun' = overrun
    BY <1>6 DEF ListSource, CopyStay
  <2> QED BY <1>c, <2>1
<1>7. ASSUME NEW c \in Caller, CopyRead(c) PROVE CapKept'
  <2>1. role' = role /\ working' = working /\ overrun' = overrun
    BY <1>7 DEF CopyRead, CopyStay
  <2> QED BY <1>c, <2>1
<1>8. ASSUME NEW c \in Caller, CopyWrite(c) PROVE CapKept'
  <2>1. role' = role /\ working' = working /\ overrun' = overrun
    BY <1>8 DEF CopyWrite, CopyStay, Put
  <2> QED BY <1>c, <2>1
<1>9. ASSUME NEW c \in Caller, CopyWriteFails(c) PROVE CapKept'
  <2>1. role' = role /\ working' = working /\ overrun' = overrun
    BY <1>9 DEF CopyWriteFails, CopyStay
  <2> QED BY <1>c, <2>1
<1>10. ASSUME NEW c \in Caller, Copied(c) PROVE CapKept'
  <2>1. role' = role /\ working' = working /\ overrun' = overrun
    BY <1>10 DEF Copied, Give
  <2> QED BY <1>c, <2>1
<1>11. ASSUME NEW c \in Caller, RequestFails(c) PROVE CapKept'
  <2>1. role' = role /\ working' = working /\ overrun' = overrun
    BY <1>11 DEF RequestFails, store
  <2> QED BY <1>c, <2>1
<1>12. ASSUME NEW c \in Caller, PollDone(c) PROVE CapKept'
  <2>1. role' = role /\ working' = working /\ overrun' = overrun
    BY <1>12 DEF PollDone, store, bounds, Give
  <2> QED BY <1>c, <2>1
<1>13. ASSUME NEW c \in Caller, PollTimeout(c) PROVE CapKept'
  <2>1. role' = role /\ working' = working /\ overrun' = overrun
    BY <1>13 DEF PollTimeout, store, Give
  <2> QED BY <1>c, <2>1
<1>14. ASSUME NEW c \in Caller, ToolWrite(c) PROVE CapKept'
  <2>1. role' = role /\ working' = working /\ overrun' = overrun
    BY <1>14 DEF ToolWrite, bounds, Put
  <2> QED BY <1>c, <2>1
<1>15. ASSUME NEW c \in Caller, Leave(c) PROVE CapKept'
  <2>1. role' = role /\ working' = working /\ overrun' = overrun
    BY <1>15 DEF Leave, store, bounds, history
  <2> QED BY <1>c, <2>1
<1>16. ASSUME NEW t \in Theme, ShopifyCopies(t) PROVE CapKept'
  <2>1. role' = role /\ working' = working /\ overrun' = overrun
    BY <1>16 DEF ShopifyCopies, bounds, history
  <2> QED BY <1>c, <2>1
<1>17. ASSUME NEW t \in Theme, Publish(t) PROVE CapKept'
  <2>1. overrun' = overrun
    BY <1>17 DEF Publish
  <2>2. Cardinality(Unpublished') = Cardinality(Unpublished)
    BY <1>17, <1>a, PublishCounts
  <2>3. Cardinality(Unpublished') <= Cardinality(Unpublished)
    BY <2>2, Counted
  <2> QED BY <1>d, <2>1, <2>3
<1>18. ASSUME NEW t \in Theme, AddTheme(t) PROVE CapKept'
  <2>1. New(t) /\ Cardinality(Unpublished) < Cap
    BY <1>18 DEF AddTheme
  <2>2. Cardinality(Unpublished') = Cardinality(Unpublished) + 1
    BY <1>a, <2>1, NewCounts
  <2> QED BY <1>e, <2>1, <2>2
<1>19. ASSUME NEW t \in Theme, DeleteTheme(t) PROVE CapKept'
  <2>1. overrun' = overrun
    BY <1>19 DEF DeleteTheme
  <2>2. Cardinality(Unpublished') <= Cardinality(Unpublished)
    BY <1>19, <1>a, DeleteCounts
  <2> QED BY <1>d, <2>1, <2>2
<1>20. ASSUME NEW f \in File, DeleteFile(f) PROVE CapKept'
  <2>1. role' = role /\ working' = working /\ overrun' = overrun
    BY <1>20 DEF DeleteFile, ByMerchant, Put
  <2> QED BY <1>c, <2>1
<1>21. CASE Restart
  <2>1. role' = role /\ working' = working /\ overrun' = overrun
    BY <1>21 DEF Restart, store
  <2> QED BY <1>c, <2>1
<1>22. CASE UNCHANGED wtVars
  <2>1. role' = role /\ working' = working /\ overrun' = overrun
    BY <1>22 DEF wtVars, store, history, bounds
  <2> QED BY <1>c, <2>1
<1>. QED
  BY <1>1, <1>2, <1>3, <1>4, <1>5, <1>6, <1>7, <1>8, <1>9, <1>10, <1>11, <1>12, <1>13, <1>14,
     <1>15, <1>16, <1>17, <1>18, <1>19, <1>20, <1>21, <1>22 DEF WorkingThemeNext

\* No step writes to a theme that was live when the caller got it.
LEMMA WtLive ==
  ASSUME WtInv, [WorkingThemeNext]_wtVars
  PROVE  ~liveWrite'
<1>a. ~liveWrite /\ ThemesOK /\ TasksOK /\ InOrder /\ OneMain /\ NotMade /\ \A d \in Caller : HasTheme(d) /\ HasWorkers(d)
  BY DEF WtInv
<1>1. ASSUME NEW c \in Caller, Current(c) PROVE ~liveWrite'
  BY <1>1, <1>a DEF Current, Stay, store, bounds
<1>2. ASSUME NEW c \in Caller, CheckCap(c) PROVE ~liveWrite'
  BY <1>2, <1>a DEF CheckCap, Stay, store, bounds
<1>3. ASSUME NEW c \in Caller, ReadLive(c) PROVE ~liveWrite'
  BY <1>3, <1>a DEF ReadLive, Stay, store, bounds
<1>4. ASSUME NEW c \in Caller, Create(c) PROVE ~liveWrite'
  BY <1>4, <1>a DEF Create, New
<1>5. ASSUME NEW c \in Caller, CreateAnswerLost(c) PROVE ~liveWrite'
  BY <1>5, <1>a DEF CreateAnswerLost, New
<1>6. ASSUME NEW c \in Caller, ListSource(c) PROVE ~liveWrite'
  BY <1>6, <1>a DEF ListSource, CopyStay
<1>7. ASSUME NEW c \in Caller, CopyRead(c) PROVE ~liveWrite'
  BY <1>7, <1>a DEF CopyRead, CopyStay
<1>8. ASSUME NEW c \in Caller, CopyWrite(c) PROVE ~liveWrite'
  BY <1>8, <1>a DEF CopyWrite, CopyStay, Put
<1>9. ASSUME NEW c \in Caller, CopyWriteFails(c) PROVE ~liveWrite'
  BY <1>9, <1>a DEF CopyWriteFails, CopyStay
<1>10. ASSUME NEW c \in Caller, Copied(c) PROVE ~liveWrite'
  BY <1>10, <1>a DEF Copied, Give
<1>11. ASSUME NEW c \in Caller, RequestFails(c) PROVE ~liveWrite'
  BY <1>11, <1>a DEF RequestFails, store
<1>12. ASSUME NEW c \in Caller, PollDone(c) PROVE ~liveWrite'
  BY <1>12, <1>a DEF PollDone, store, bounds, Give
<1>13. ASSUME NEW c \in Caller, PollTimeout(c) PROVE ~liveWrite'
  BY <1>13, <1>a DEF PollTimeout, store, Give
<1>14. ASSUME NEW c \in Caller, ToolWrite(c) PROVE ~liveWrite'
  <2>1. liveWrite' = (liveWrite \/ (role[task[c].theme] = "main" /\ ~task[c].moved)) /\ Exists(task[c].theme)
    BY <1>14 DEF ToolWrite
  <2>2. role[task[c].theme] = "main" => task[c].moved
    BY <1>a, <2>1 DEF HasTheme, Exists
  <2> QED BY <1>a, <2>1, <2>2
<1>15. ASSUME NEW c \in Caller, Leave(c) PROVE ~liveWrite'
  BY <1>15, <1>a DEF Leave, store, bounds, history
<1>16. ASSUME NEW t \in Theme, ShopifyCopies(t) PROVE ~liveWrite'
  BY <1>16, <1>a DEF ShopifyCopies, bounds, history
<1>17. ASSUME NEW t \in Theme, Publish(t) PROVE ~liveWrite'
  BY <1>17, <1>a DEF Publish, ByMerchant
<1>18. ASSUME NEW t \in Theme, AddTheme(t) PROVE ~liveWrite'
  BY <1>18, <1>a DEF AddTheme, New, ByMerchant
<1>19. ASSUME NEW t \in Theme, DeleteTheme(t) PROVE ~liveWrite'
  BY <1>19, <1>a DEF DeleteTheme, ByMerchant
<1>20. ASSUME NEW f \in File, DeleteFile(f) PROVE ~liveWrite'
  BY <1>20, <1>a DEF DeleteFile, ByMerchant, Put
<1>21. CASE Restart
  BY <1>21, <1>a DEF Restart, store
<1>22. CASE UNCHANGED wtVars
  BY <1>22, <1>a DEF wtVars, store, history, bounds
<1>. QED
  BY <1>1, <1>2, <1>3, <1>4, <1>5, <1>6, <1>7, <1>8, <1>9, <1>10, <1>11, <1>12, <1>13, <1>14,
     <1>15, <1>16, <1>17, <1>18, <1>19, <1>20, <1>21, <1>22 DEF WorkingThemeNext

LEMMA WtStarts ==
  ASSUME WorkingThemeInit
  PROVE  WtInv
<1>1. 1 \in Theme /\ made = 1
  BY WtConstants DEF Theme, WorkingThemeInit
<1>2. role = [t \in Theme |-> IF t = 1 THEN "main" ELSE "none"]
  BY DEF WorkingThemeInit
<1>3. \A t \in Theme : role[t] = IF t = 1 THEN "main" ELSE "none"
  BY <1>2
<1>4. ThemesOK
  <2>1. Empty \in [File -> Content] /\ [f \in File |-> "theirs"] \in [File -> Content]
    BY DEF Empty, Content
  <2>2. file \in [Theme -> [File -> Content]]
    BY <2>1 DEF WorkingThemeInit
  <2>3. outside \in 0 .. MaxOutside /\ faults \in 0 .. MaxFaults
    BY WorkingThemeAssumption DEF WorkingThemeInit
  <2>4. /\ engine \in {"proxy", "graphql"} /\ role \in [Theme -> {"none", "main", "unpublished"}]
        /\ listed \in [Theme -> SUBSET File] /\ older \in [Theme -> SUBSET Theme]
    BY <1>2 DEF WorkingThemeInit
  <2>. QED
    BY <1>1, <2>2, <2>3, <2>4 DEF WorkingThemeInit, ThemesOK
<1>5. TasksOK /\ \A c \in Caller : task[c] = AtRest
  BY Rested DEF WorkingThemeInit, TasksOK
<1>6. InOrder
  <2>1. \A t \in Theme : older[t] = {}
    BY DEF WorkingThemeInit
  <2>2. \A t \in There : t = 1
    BY <1>3 DEF There
  <2>. QED
    BY <2>1, <2>2 DEF InOrder
<1>7. OneMain
  BY <1>1, <1>3 DEF OneMain
<1>8. NotMade
  <2>1. \A t \in Theme : listed[t] = {}
    BY DEF WorkingThemeInit
  <2>2. working = {}
    BY DEF WorkingThemeInit
  <2>3. \A t \in Theme : t > made => t # 1
    BY <1>1, WtConstants
  <2>. QED
    BY <1>3, <2>1, <2>2, <2>3 DEF NotMade
<1>9. Candidates = {} /\ Unpublished = {}
  BY <1>3 DEF Candidates, Unpublished
<1>10. ASSUME NEW c \in Caller PROVE HasTheme(c) /\ HasWorkers(c) /\ SawNone(c) /\ SawRoom(c)
  <2>1. task[c] = AtRest
    BY <1>5
  <2>2. HasTheme(c)
    BY <1>1, <2>1, Rested DEF HasTheme
  <2>3. HasWorkers(c)
    <3>1. ~(Workers < Workers)
      BY WtConstants
    <3>. QED
      BY <2>1, <3>1, Rested DEF HasWorkers
  <2>. QED
    BY <2>1, <2>2, <2>3, Rested DEF SawNone, SawRoom
<1>11. \A t \in Theme : Provided(t)
  <2>1. \A t \in Theme : listed[t] = {}
    BY DEF WorkingThemeInit
  <2>. QED
    BY <2>1 DEF Provided
<1>12. KeptInv /\ AtMostOne /\ ~liveWrite
  BY <1>9 DEF KeptInv, AtMostOne, WorkingThemeInit
<1>13. CapKept
  BY <1>9, FS_EmptySet, WtConstants DEF CapKept
<1>. QED
  BY <1>4, <1>5, <1>6, <1>7, <1>8, <1>10, <1>11, <1>12, <1>13 DEF WtInv

LEMMA WtSteps ==
  ASSUME WtInv, [WorkingThemeNext]_wtVars
  PROVE  WtInv'
<1>1. ASSUME NEW c \in Caller PROVE HasTheme(c)' /\ HasWorkers(c)' /\ SawNone(c)' /\ SawRoom(c)'
  BY WtHasTheme, WtHasWorkers, WtSawNone, WtSawRoom
<1>2. \A t \in Theme : Provided(t)'
  BY WtProvided
<1>3. ThemesOK' /\ TasksOK' /\ InOrder' /\ OneMain' /\ NotMade'
  BY WtTypes, WtTasks, WtOrder, WtMain, WtNotMade
<1>4. KeptInv' /\ AtMostOne' /\ CapKept' /\ ~liveWrite'
  BY WtKept, WtAtMostOne, WtCapKept, WtLive
<1>. QED
  BY <1>1, <1>2, <1>3, <1>4 DEF WtInv

\* However callers, Shopify and the merchant come between each other: the themes have one order by
\* their last update; what a caller saw of the store is so, or it is marked that it changed; every
\* theme ensure made has its files or somebody who brings them, or is marked as cut short; and no
\* copy goes into a theme that a tool was told it wrote (WorkingThemeService, engineA, themes.ts).
THEOREM WorkingThemeInvariance == WorkingThemeSpec => []WtInv
<1>1. WorkingThemeInit => WtInv
  BY WtStarts
<1>2. WtInv /\ [WorkingThemeNext]_wtVars => WtInv'
  BY WtSteps
<1>. QED
  BY <1>1, <1>2, PTL DEF WorkingThemeSpec

\* A store has one working theme with the files of the live one, and the tools write to it alone,
\* for any number of callers, themes, files and workers (WorkingThemeService.ensure).
THEOREM WorkingThemeIsOne == WorkingThemeSpec => []WorkingThemeSafe
<1>1. ASSUME WtInv PROVE WorkingThemeSafe
  <2>a. /\ ThemesOK /\ TasksOK /\ InOrder /\ OneMain /\ KeptInv /\ AtMostOne /\ CapKept /\ ~liveWrite
    BY <1>1 DEF WtInv
  <2>1. WorkingThemeTypeOK
    <3>1. ASSUME NEW c \in Caller
          PROVE  /\ task[c].at \in {"idle", "cap", "live", "create", "list", "copy", "poll", "ready"}
                 /\ task[c].todo \subseteq File /\ task[c].flight \subseteq File /\ task[c].workers \in 0 .. Workers
                 /\ Cardinality(task[c].flight) <= Workers
      <4>1. task[c] \in Task
        BY <2>a DEF TasksOK
      <4>2. HasWorkers(c)
        BY <1>1 DEF WtInv
      <4>. QED
        BY <4>1, <4>2 DEF Task, HasWorkers
    <3>2. ASSUME NEW t \in There, NEW u \in There, t # u PROVE t \in older[u] <=> u \notin older[t]
      <4>1. t \in Theme /\ u \in Theme
        BY DEF There
      <4>2. t \in older[u] \/ u \in older[t]
        BY <2>a, <3>2 DEF InOrder
      <4>3. ~(t \in older[u] /\ u \in older[t])
        <5>1. t \notin older[t]
          BY <2>a, <4>1 DEF InOrder
        <5>2. t \in older[u] /\ u \in older[t] => older[u] \subseteq older[t]
          BY <2>a, <4>1 DEF InOrder
        <5>. QED
          BY <5>1, <5>2
      <4>. QED
        BY <4>2, <4>3
    <3>3. Cardinality({t \in Theme : role[t] = "main"}) = 1
      <4>1. PICK m \in Theme : role[m] = "main" /\ \A t \in Theme \ {m} : role[t] # "main"
        BY <2>a DEF OneMain
      <4>2. {t \in Theme : role[t] = "main"} = {m}
        BY <4>1
      <4>. QED
        BY <4>2, FS_Singleton
    <3>4. /\ engine \in {"proxy", "graphql"} /\ role \in [Theme -> {"none", "main", "unpublished"}]
          /\ working \subseteq Theme /\ file \in [Theme -> [File -> Content]] /\ copying \subseteq Theme
          /\ outside \in 0 .. MaxOutside /\ faults \in 0 .. MaxFaults
      BY <2>a DEF ThemesOK
    <3>5. \A t, u \in {x \in Theme : role[x] # "none"} : t # u => (t \in older[u] <=> u \notin older[t])
      BY <3>2 DEF There
    <3>. QED
      BY <3>1, <3>3, <3>4, <3>5 DEF WorkingThemeTypeOK
  <2>2. OneWorkingTheme
    <3>1. SUFFICES ASSUME ~doubled PROVE ~(Cardinality(Candidates) > 1)
      BY DEF OneWorkingTheme
    <3>2. \A t, u \in Candidates : t = u
      BY <2>a, <3>1 DEF AtMostOne
    <3>3. CASE Candidates = {}
      BY <3>3, FS_EmptySet
    <3>4. CASE Candidates # {}
      <4>1. PICK t : t \in Candidates
        BY <3>4
      <4>2. Candidates = {t}
        BY <3>2, <4>1
      <4>3. Cardinality({t}) = 1
        BY FS_Singleton
      <4>. QED
        BY <4>2, <4>3
    <3>. QED
      BY <3>3, <3>4
  <2>3. AnsweredIsComplete
    <3>1. SUFFICES ASSUME NEW t \in answered, Exists(t), ~InCopy(t), t \notin cutShort
                   PROVE  listed[t] \subseteq Keys(t)
      BY DEF AnsweredIsComplete
    <3>2. t \in Theme
      BY <2>a DEF ThemesOK
    <3>3. Provided(t)
      BY <1>1, <3>2 DEF WtInv
    <3>4. ~StillToCome(t)
      BY <3>1 DEF StillToCome, InCopy
    <3>. QED
      BY <3>1, <3>3, <3>4 DEF Provided
  <2>4. ToolWriteStays
    BY <2>a DEF KeptInv, ToolWriteStays
  <2>. QED
    BY <2>a, <2>1, <2>2, <2>3, <2>4 DEF WorkingThemeSafe, LiveOnlyIfPublishedSince
<1>. QED
  BY <1>1, WorkingThemeInvariance, PTL
=============================================================================
