---------------------------- MODULE ToolPipeline ----------------------------
(***************************************************************************)
(* executeTool (apps/server/src/mcp/execute.ts) with the approvals table   *)
(* and the operation ledger it writes (packages/ledger).  Every await is a *)
(* point where other calls run, so a call is a process with a program      *)
(* counter and each database statement is a step.  The database survives a *)
(* crash of the server; the calls in flight do not.                        *)
(***************************************************************************)
EXTENDS Policy

CONSTANTS Call,       \* tool calls, one executeTool invocation each
          Token,      \* approval tokens that may be issued
          Plan,       \* plan hashes
          Request,    \* the requests a call may carry (see Policy; with plan,
                      \* token and audit besides)
          NoPlan, NoToken, NoRequest, NoCall,
          TTL,        \* lifetime of a token, in ticks
          MaxClock,   \* bound: the clock stops here
          MaxCrashes  \* bound: how often the server crashes

ASSUME ConstantsAssumption ==
  /\ NoPlan \notin Plan
  /\ NoToken \notin Token
  /\ NoRequest \notin Request
  /\ NoCall \notin Call
  /\ TTL \in Nat /\ MaxClock \in Nat /\ MaxCrashes \in Nat
  /\ \A r \in Request : r.plan \in Plan /\ r.token \in Token \cup {NoToken}

\* What a request carries: a declared risk, and rules of the tool.
ASSUME RequestsAssumption ==
  \A r \in Request :
    /\ r.floor \in Risk
    /\ r.rules \in Seq([to : Risk, key : STRING])

VARIABLES
  clock,
  plan, expires, consumed,  \* the approvals row of each token
  pc, req, grant,           \* each call: where it is, its request, and the
                            \* token it consumed
  handler, effect,          \* each call's handler, and whether it changed the store
  result, answer,           \* what Promise.race settled to; what the caller got
  op, opApproved,           \* each call's ledger row: status, approval recorded
  crashes

approvals == <<plan, expires, consumed>>
caller == <<req, grant>>
run == <<handler, effect>>
ledger == <<op, opApproved>>
vars == <<clock, approvals, pc, caller, run, result, answer, ledger, crashes>>

Place == {"idle", "policy", "consume", "allowed", "begun", "handler", "finish",
          "done", "lost"}

\* The ledger records a call unless the tool is a plain read: audit = "always",
\* or a declared risk other than read.
AuditedWhenAlways(r) == r.audit = "always"   \* fault: a write may go unrecorded

Audited(r) == r.audit = "always" \/ r.floor # "read"

Settled == {"ok", "failed", "timeout"}

TypeOK ==
  /\ clock \in 0 .. MaxClock
  /\ plan \in [Token -> Plan \cup {NoPlan}]
  /\ expires \in [Token -> Nat]
  /\ consumed \in [Token -> BOOLEAN]
  /\ pc \in [Call -> Place]
  /\ req \in [Call -> Request \cup {NoRequest}]
  /\ grant \in [Call -> Token \cup {NoToken}]
  /\ handler \in [Call -> {"off", "running", "ok", "failed"}]
  /\ effect \in [Call -> BOOLEAN]
  /\ result \in [Call -> Settled \cup {"none"}]
  /\ answer \in [Call -> {"none", "refused", "ok", "failed"}]
  /\ op \in [Call -> {"none", "pending", "succeeded", "failed"}]
  /\ opApproved \in [Call -> BOOLEAN]
  /\ crashes \in 0 .. MaxCrashes

Init ==
  /\ clock = 0
  /\ plan = [t \in Token |-> NoPlan]
  /\ expires = [t \in Token |-> 0]
  /\ consumed = [t \in Token |-> FALSE]
  /\ pc = [c \in Call |-> "idle"]
  /\ req = [c \in Call |-> NoRequest]
  /\ grant = [c \in Call |-> NoToken]
  /\ handler = [c \in Call |-> "off"]
  /\ effect = [c \in Call |-> FALSE]
  /\ result = [c \in Call |-> "none"]
  /\ answer = [c \in Call |-> "none"]
  /\ op = [c \in Call |-> "none"]
  /\ opApproved = [c \in Call |-> FALSE]
  /\ crashes = 0

Goto(c, from, to) ==
  /\ pc[c] = from
  /\ pc' = [pc EXCEPT ![c] = to]

-----------------------------------------------------------------------------
(* The approvals table *)

\* issue(): a row for a fresh random token.
Issue(t, p) ==
  /\ plan[t] = NoPlan
  /\ plan' = [plan EXCEPT ![t] = p]
  /\ expires' = [expires EXCEPT ![t] = clock + TTL]
  /\ UNCHANGED <<clock, consumed, pc, caller, run, result, answer, ledger, crashes>>

Tick ==
  /\ clock < MaxClock
  /\ clock' = clock + 1
  /\ UNCHANGED <<approvals, pc, caller, run, result, answer, ledger, crashes>>

\* Fault: a token serves any plan.
RowUsableForAnyPlan(t, p) == plan[t] # NoPlan /\ ~consumed[t] /\ clock <= expires[t]

\* The checks consume() makes on the row it selected.
RowUsable(t, p) ==
  /\ plan[t] # NoPlan       \* else "invalid"
  /\ ~consumed[t]           \* else "consumed"
  /\ clock <= expires[t]    \* else "expired"
  /\ plan[t] = p            \* else "mismatch"

-----------------------------------------------------------------------------
(* Policy: from the request to a decision *)

Receive(c, r) ==
  /\ Goto(c, "idle", "policy")
  /\ req' = [req EXCEPT ![c] = r]
  /\ UNCHANGED <<clock, approvals, grant, run, result, answer, ledger, crashes>>

Refused(c) ==
  /\ answer' = [answer EXCEPT ![c] = "refused"]
  /\ UNCHANGED <<clock, approvals, caller, run, result, ledger, crashes>>

\* Some question of the policy fails, or a token is needed and none was sent.
Refuse(c) ==
  /\ Goto(c, "policy", "done")
  /\ ~Cleared(req[c]) \/ (NeedsToken(req[c]) /\ req[c].token = NoToken)
  /\ Refused(c)

AllowWithoutToken(c) ==
  /\ Goto(c, "policy", "allowed")
  /\ Cleared(req[c]) /\ ~NeedsToken(req[c])
  /\ UNCHANGED <<clock, approvals, caller, run, result, answer, ledger, crashes>>

\* consume(), the select: the row is checked now and updated later.
SelectApproval(c) ==
  /\ Goto(c, "policy", "consume")
  /\ Cleared(req[c]) /\ NeedsToken(req[c]) /\ req[c].token # NoToken
  /\ RowUsable(req[c].token, req[c].plan)
  /\ UNCHANGED <<clock, approvals, caller, run, result, answer, ledger, crashes>>

SelectRejects(c) ==
  /\ Goto(c, "policy", "done")
  /\ Cleared(req[c]) /\ NeedsToken(req[c]) /\ req[c].token # NoToken
  /\ ~RowUsable(req[c].token, req[c].plan)
  /\ Refused(c)

\* Fault: the update forgets its second WHERE.
UpdateMatchesAnyRow(t) == t \in Token

\* consume(), the update: WHERE token_hash = .. AND consumed_at IS NULL.
UpdateMatches(t) == ~consumed[t]

\* Fault: the bulk threshold asks for a token that the risk gate has consumed.
ConsumeAndAskAgain(c) ==
  /\ Goto(c, "consume", IF req[c].bulk > req[c].max THEN "policy" ELSE "allowed")
  /\ UpdateMatches(req[c].token)
  /\ consumed' = [consumed EXCEPT ![req[c].token] = TRUE]
  /\ grant' = [grant EXCEPT ![c] = req[c].token]
  /\ UNCHANGED <<clock, plan, expires, req, run, result, answer, ledger, crashes>>

ConsumeApproval(c) ==
  /\ Goto(c, "consume", "allowed")
  /\ UpdateMatches(req[c].token)
  /\ consumed' = [consumed EXCEPT ![req[c].token] = TRUE]
  /\ grant' = [grant EXCEPT ![c] = req[c].token]
  /\ UNCHANGED <<clock, plan, expires, req, run, result, answer, ledger, crashes>>

\* The update changed no row: someone else consumed the token in between.
ConsumeRejects(c) ==
  /\ Goto(c, "consume", "done")
  /\ ~UpdateMatches(req[c].token)
  /\ Refused(c)

-----------------------------------------------------------------------------
(* The run: ledger row, handler, result *)

Begin(c) ==
  /\ Goto(c, "allowed", "begun")
  /\ IF Audited(req[c])
     THEN /\ op' = [op EXCEPT ![c] = "pending"]
          /\ opApproved' = [opApproved EXCEPT ![c] = grant[c] # NoToken]
     ELSE UNCHANGED ledger
  /\ UNCHANGED <<clock, approvals, caller, run, result, answer, crashes>>

StartHandler(c) ==
  /\ Goto(c, "begun", "handler")
  /\ handler' = [handler EXCEPT ![c] = "running"]
  /\ UNCHANGED <<clock, approvals, caller, effect, result, answer, ledger, crashes>>

\* The handler of a tool that writes reaches the store.  It does so as well when
\* executeTool has stopped waiting for it: nothing cancels it.
HandlerWrites(c) ==
  /\ handler[c] = "running" /\ req[c].floor # "read"
  /\ effect' = [effect EXCEPT ![c] = TRUE]
  /\ UNCHANGED <<clock, approvals, pc, caller, handler, result, answer, ledger, crashes>>

\* Any handler may succeed or fail, before it has written or after: a dry run, or
\* commerce.change.apply of a tool that only reads, succeeds and has written nothing.
HandlerEnds(c, how) ==
  /\ handler[c] = "running"
  /\ handler' = [handler EXCEPT ![c] = how]
  /\ UNCHANGED <<clock, approvals, pc, caller, effect, result, answer, ledger, crashes>>

\* Promise.race: the handler's outcome, or the timer's.
Settle(c) ==
  /\ Goto(c, "handler", "finish")
  /\ handler[c] \in {"ok", "failed"}
  /\ result' = [result EXCEPT ![c] = handler[c]]
  /\ UNCHANGED <<clock, approvals, caller, run, answer, ledger, crashes>>

NoTimeOut(c) == FALSE /\ Goto(c, "handler", "finish") /\ UNCHANGED vars  \* fault: no timer

TimeOut(c) ==
  /\ Goto(c, "handler", "finish")
  /\ handler[c] = "running"
  /\ result' = [result EXCEPT ![c] = "timeout"]
  /\ UNCHANGED <<clock, approvals, caller, run, answer, ledger, crashes>>

StatusCopiesResult(c) == result[c]   \* fault: a timeout is no ledger status

\* Fault: whatever did not fail outright is booked as a success.
StatusUnlessFailed(c) == IF result[c] = "failed" THEN "failed" ELSE "succeeded"

StatusOf(c) == IF result[c] = "ok" THEN "succeeded" ELSE "failed"

\* ledger.finish for a call that began, and then the answer.
FinishLedger(c) ==
  /\ pc[c] = "finish" /\ op[c] = "pending"
  /\ op' = [op EXCEPT ![c] = StatusOf(c)]
  /\ UNCHANGED <<clock, approvals, pc, caller, run, result, answer, opApproved, crashes>>

\* Fault: the ledger is finished in the background.
AnswerAtOnce(c) ==
  /\ pc[c] = "finish" /\ answer[c] = "none"
  /\ answer' = [answer EXCEPT ![c] = IF result[c] = "ok" THEN "ok" ELSE "failed"]
  /\ UNCHANGED <<clock, approvals, pc, caller, run, result, ledger, crashes>>

Answer(c) ==
  /\ Goto(c, "finish", "done")
  /\ op[c] # "pending"
  /\ answer' = [answer EXCEPT ![c] = IF result[c] = "ok" THEN "ok" ELSE "failed"]
  /\ UNCHANGED <<clock, approvals, caller, run, result, ledger, crashes>>

-----------------------------------------------------------------------------
\* The process dies: every call in flight and every running handler with it.
\* A restart finds the tables as they are; nothing resumes or closes a row.
Crash ==
  /\ crashes < MaxCrashes
  /\ crashes' = crashes + 1
  /\ pc' = [c \in Call |-> IF pc[c] \in {"idle", "done"} THEN pc[c] ELSE "lost"]
  /\ handler' = [c \in Call |-> IF handler[c] = "running" THEN "off" ELSE handler[c]]
  /\ UNCHANGED <<clock, approvals, caller, effect, result, answer, ledger>>

\* What the event loop owes a call once it was received.
Step(c) ==
  \/ Refuse(c) \/ AllowWithoutToken(c) \/ SelectApproval(c) \/ SelectRejects(c)
  \/ ConsumeApproval(c) \/ ConsumeRejects(c)
  \/ Begin(c) \/ StartHandler(c) \/ Settle(c) \/ TimeOut(c)
  \/ FinishLedger(c) \/ Answer(c)

Next ==
  \/ \E t \in Token, p \in Plan : Issue(t, p)
  \/ Tick
  \/ \E c \in Call :
       \/ \E r \in Request : Receive(c, r)
       \/ Step(c)
       \/ HandlerWrites(c)
       \/ \E how \in {"ok", "failed"} : HandlerEnds(c, how)
  \/ Crash

Spec == Init /\ [][Next]_vars

\* The event loop runs every continuation and the timer fires; nothing makes a
\* handler return, a client call, or a merchant approve.
FairSpec == Spec /\ \A c \in Call : WF_vars(Step(c))
-----------------------------------------------------------------------------
(* Properties *)

Past(c) == pc[c] \in {"allowed", "begun", "handler", "finish"} \/ effect[c]

\* Two calls that present the same approval token at once never both get
\* through on it (approvals.ts: the guarded update in consume).
OneCallPerToken ==
  \A c, d \in Call : grant[c] = grant[d] /\ grant[c] # NoToken => c = d

\* A call that got through on a token is the call the merchant approved: the
\* token was issued for its plan hash, and is used up.
GrantMatchesPlan ==
  \A c \in Call : grant[c] # NoToken =>
    /\ plan[grant[c]] = req[c].plan
    /\ consumed[grant[c]]

\* The token is the last question evaluate asks, so a merchant's approval is
\* never used up by a call that is then refused.
NoApprovalWasted ==
  \A t \in Token : consumed[t] => \E c \in Call : grant[c] = t /\ answer[c] # "refused"

\* The highest risk any matching escalation rule demands, or the declared one.
DemandedRisk(r) ==
  CHOOSE k \in {r.floor} \cup {r.rules[i].to : i \in DOMAIN r.rules} :
    \A m \in {r.floor} \cup {r.rules[i].to : i \in DOMAIN r.rules} :
      RiskOrder[m] <= RiskOrder[k]

\* What each safety profile may run (the contract at the head of profiles.ts),
\* read against the risk the input really demands: no order of escalation rules,
\* tokens and thresholds lets a call slip past its profile.
ProfileContract ==
  \A c \in Call : Past(c) =>
    LET r == req[c]
        risk == DemandedRisk(r)
    IN  /\ r.profile = "read_only" => risk = "read"
        /\ r.profile = "production_safe" =>
             \/ risk \in {"read", "write", "theme_write", "bulk"}
             \/ risk = "critical" /\ r.rollback /\ r.confirm
        /\ r.profile \in {"developer_full_access", "admin"} =>
             /\ risk \in {"destructive", "publish", "critical"} => r.confirm
             /\ risk \in {"publish", "critical"} => grant[c] # NoToken
        /\ r.bulk > r.max => grant[c] # NoToken

\* The ledger is written ahead: whatever a handler changed, even after its call
\* timed out or the server died, a row for the operation was there first, and the
\* row shows the approval the change rests on.
WriteAhead ==
  \A c \in Call : effect[c] =>
    /\ op[c] # "none"
    /\ NeedsToken(req[c]) => opApproved[c]

\* A row closes as its handler went, judged in time: one that says succeeded has a
\* handler that returned before the timer and so writes nothing more under it; one that
\* says failed though its handler returned ok was overtaken by the timer; and one that
\* stays pending has its call still under way, or lost it to a crash.
SuccessIsReal ==
  \A c \in Call :
    /\ op[c] = "succeeded" => handler[c] = "ok" /\ result[c] = "ok"
    /\ op[c] = "failed" /\ handler[c] = "ok" => result[c] = "timeout"
    /\ op[c] = "pending" =>
         \/ pc[c] \in {"begun", "handler", "finish"}
         \/ pc[c] = "lost" /\ crashes > 0

\* A caller that has its answer finds the same outcome in the ledger, also when
\* the server crashes right after answering.
AnswerInLedger ==
  \A c \in Call : answer[c] \in {"ok", "failed"} /\ Audited(req[c]) =>
    op[c] = IF answer[c] = "ok" THEN "succeeded" ELSE "failed"

\* Every call that is received ends, answered or lost to a crash, even if its
\* handler never returns.
EveryCallEnds ==
  \A c \in Call : pc[c] # "idle" ~> pc[c] \in {"done", "lost"}

Holder == [t \in Token |-> IF \E c \in Call : grant[c] = t
                           THEN CHOOSE c \in Call : grant[c] = t
                           ELSE NoCall]

Approval == INSTANCE OneShotApproval WITH granted <- plan, holder <- Holder

\* The tokens behave as the abstract one-shot approvals do.
ImplementsOneShotApproval == Approval!Spec

=============================================================================
