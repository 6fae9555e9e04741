-------------------------- MODULE OneShotApproval --------------------------
(***************************************************************************)
(* What an approval token promises: a merchant grants it once, for one     *)
(* plan, and it lets at most one tool call through, a call with that very  *)
(* plan.  How the server keeps the promise with a select and an update is  *)
(* the business of ToolPipeline, which implements this specification.      *)
(***************************************************************************)
CONSTANTS Token,   \* approval tokens
          Plan,    \* plan hashes: one per (tool, shop, input)
          Call,    \* tool calls
          NoPlan,  \* the plan of a token that was never issued
          NoCall   \* the holder of a token that was never spent

VARIABLES granted,  \* granted[t]: the plan t was issued for, or NoPlan
          holder    \* holder[t]: the call t let through, or NoCall

Init ==
  /\ granted = [t \in Token |-> NoPlan]
  /\ holder = [t \in Token |-> NoCall]

Grant(t, p) ==
  /\ granted[t] = NoPlan
  /\ granted' = [granted EXCEPT ![t] = p]
  /\ UNCHANGED holder

\* A spent token is spent whatever becomes of the call that spent it.
Spend(t, c) ==
  /\ granted[t] # NoPlan
  /\ holder[t] = NoCall
  /\ \A u \in Token : holder[u] # c
  /\ holder' = [holder EXCEPT ![t] = c]
  /\ UNCHANGED granted

Next == \E t \in Token :
          \/ \E p \in Plan : Grant(t, p)
          \/ \E c \in Call : Spend(t, c)

vars == <<granted, holder>>

Spec == Init /\ [][Next]_vars
=============================================================================
