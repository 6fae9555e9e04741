----------------------------- MODULE AdminCalls -----------------------------
(***************************************************************************)
(* AdminGraphqlClient.execute: calls that wait for the query cost they     *)
(* expect, are sent, and are sent again after a 429, a 5xx or a dropped    *)
(* connection (packages/shopify-admin/src/client.ts).  Shopify's bucket of *)
(* cost refills with time; the client projects it from the last answer     *)
(* that told it.  Time is relative: an age, and what is left of a sleep.   *)
(***************************************************************************)
EXTENDS Naturals

CONSTANTS Query,
          MaxRetries,
          MaxAvailable,  \* the bucket's size
          RestoreRate,   \* what it gains in a tick
          QueryCost,     \* what a call costs, and what execute expects it to
          BaseDelay      \* ticks of the first backoff

ASSUME AdminCallsAssumption ==
  /\ {MaxRetries, BaseDelay} \subseteq Nat
  /\ {MaxAvailable, RestoreRate, QueryCost} \subseteq Nat \ {0}
  /\ QueryCost <= MaxAvailable

VARIABLES
  bucket,    \* Shopify: the cost that may be spent
  throttle,  \* the client: what it was last told of the bucket, and how long ago
  call,      \* each call's progress
  orderly    \* history: one call at a time, and each served call told the client the bucket

callVars == <<bucket, throttle, call, orderly>>

RetryDelays == 1 .. BaseDelay * 2 ^ MaxRetries + BaseDelay
MaxSleep == BaseDelay * 2 ^ MaxRetries + BaseDelay + MaxAvailable
CallKind == {"query", "mutation"}
\* data carries the bucket's state; userErrors are data too.
ServedReply == {"data", "errors", "nonJson", "serverError", "dropped"}
AdminReply == ServedReply \cup {"rateLimited"}
CallStep == {"unused", "ready", "sleeping", "sent", "replied", "backingOff", "returned", "thrown"}
NoQuery == [step |-> "unused", kind |-> "query", attempt |-> 0, left |-> 0,
           reply |-> "none", told |-> 0, runs |-> 0]

AdminCallsTypeOK ==
  /\ bucket \in 0 .. MaxAvailable
  /\ throttle \in [available : 0 .. MaxAvailable, age : 0 .. MaxAvailable]
  /\ call \in [Query -> [step : CallStep, kind : CallKind, attempt : 0 .. MaxRetries, left : 0 .. MaxSleep,
                        reply : AdminReply \cup {"none"}, told : 0 .. MaxAvailable,
                        runs : 0 .. MaxRetries + 1]]
  /\ orderly \in BOOLEAN

AdminCallsInit ==
  /\ bucket = MaxAvailable
  /\ throttle = [available |-> MaxAvailable, age |-> 0]
  /\ call = [c \in Query |-> NoQuery]
  /\ orderly = TRUE

Lesser(a, b) == IF a < b THEN a ELSE b
UnderWay(c) == call[c].step \notin {"unused", "returned", "thrown"}

ProjectedAvailable ==
  Lesser(MaxAvailable, throttle.available + throttle.age * RestoreRate)
\* The wait is rounded up.
PreWaitTicks ==
  LET deficit == QueryCost - ProjectedAvailable
  IN  (deficit + RestoreRate - 1) \div RestoreRate

-----------------------------------------------------------------------------
(* The client *)

BeginCall(c, kind) ==
  /\ ~UnderWay(c)
  /\ call' = [call EXCEPT ![c] = [NoQuery EXCEPT !.step = "ready", !.kind = kind]]
  /\ orderly' = (orderly /\ \A d \in Query : ~UnderWay(d))
  /\ UNCHANGED <<bucket, throttle>>

\* preWait, and the request when there is nothing to wait for.
PreWait(c) ==
  /\ call[c].step = "ready"
  /\ call' = [call EXCEPT ![c] =
       IF ProjectedAvailable >= QueryCost THEN [@ EXCEPT !.step = "sent"]
       ELSE [@ EXCEPT !.step = "sleeping", !.left = PreWaitTicks]]
  /\ UNCHANGED <<bucket, throttle, orderly>>

\* Fault: an attempt is not counted.
WakeUncounted(c) ==
  /\ call[c].left = 0
  /\ \/ /\ call[c].step = "sleeping"
        /\ call' = [call EXCEPT ![c].step = "sent"]
     \/ /\ call[c].step = "backingOff"
        /\ call' = [call EXCEPT ![c].step = "ready", ![c].reply = "none"]
  /\ UNCHANGED <<bucket, throttle, orderly>>

\* A call that slept does not look at the bucket again.
WakeUp(c) ==
  /\ call[c].left = 0
  /\ \/ /\ call[c].step = "sleeping"
        /\ call' = [call EXCEPT ![c].step = "sent"]
     \/ /\ call[c].step = "backingOff"
        /\ call' = [call EXCEPT ![c].step = "ready", ![c].attempt = @ + 1, ![c].reply = "none"]
  /\ UNCHANGED <<bucket, throttle, orderly>>

\* Fault: a mutation is sent again after any failure.
RetriesAll(c) ==
  /\ call[c].reply \in {"rateLimited", "serverError", "dropped"}
  /\ call[c].attempt < MaxRetries

\* A reply after which the call may be sent again: a mutation only when it was not run.
Retries(c) ==
  /\ call[c].reply = "rateLimited"
     \/ (call[c].reply \in {"serverError", "dropped"} /\ call[c].kind = "query")
  /\ call[c].attempt < MaxRetries

\* The delay is the server's Retry-After, or exponential with jitter.
BackOff(c) ==
  /\ call[c].step = "replied" /\ Retries(c)
  /\ \E ticks \in RetryDelays :
       /\ call[c].reply # "rateLimited" =>
            ticks \in BaseDelay * 2 ^ call[c].attempt .. BaseDelay * 2 ^ call[c].attempt + BaseDelay
       /\ call' = [call EXCEPT ![c].step = "backingOff", ![c].left = ticks]
  /\ UNCHANGED <<bucket, throttle, orderly>>

\* Of a call that is over, only the throw of RATE_LIMITED is told from other throws.
Over(c, step) ==
  [call EXCEPT ![c].step = step, ![c].attempt = 0, ![c].told = 0,
               ![c].reply = IF @ = "rateLimited" THEN @ ELSE "none"]

\* A served answer is returned, and what it tells of the bucket is kept.
ReturnData(c) ==
  /\ call[c].step = "replied" /\ call[c].reply = "data"
  /\ call' = Over(c, "returned")
  /\ throttle' = [available |-> call[c].told, age |-> 0]
  /\ UNCHANGED <<bucket, orderly>>

Throw(c) ==
  /\ call[c].step = "replied" /\ call[c].reply # "data" /\ ~Retries(c)
  /\ call' = Over(c, "thrown")
  /\ UNCHANGED <<bucket, throttle, orderly>>

-----------------------------------------------------------------------------
(* Shopify *)

\* Too little is left in the bucket: the request is not run.
RateLimit(c) ==
  /\ call[c].step = "sent" /\ bucket < QueryCost
  /\ call' = [call EXCEPT ![c].step = "replied", ![c].reply = "rateLimited"]
  /\ UNCHANGED <<bucket, throttle, orderly>>

\* The request is run, or fails before it is; its answer may be lost either way.
ServeCall(c, reply, runs) ==
  /\ call[c].step = "sent" /\ bucket >= QueryCost
  /\ reply = "data" => runs = 1
  /\ bucket' = bucket - QueryCost
  /\ call' = [call EXCEPT ![c].step = "replied", ![c].reply = reply,
                          ![c].told = IF reply = "data" THEN bucket' ELSE 0, ![c].runs = @ + runs]
  /\ orderly' = (orderly /\ reply = "data")
  /\ UNCHANGED throttle

\* A tick passes; sleeps run down, and may be over for a while before they are noticed.
TickOfTime ==
  /\ bucket' = Lesser(MaxAvailable, bucket + RestoreRate)
  /\ throttle' = [throttle EXCEPT !.age = Lesser(MaxAvailable, @ + 1)]
  /\ call' = [c \in Query |-> [call[c] EXCEPT !.left = IF @ = 0 THEN 0 ELSE @ - 1]]
  /\ UNCHANGED orderly

-----------------------------------------------------------------------------
ClientStep(c) == PreWait(c) \/ WakeUp(c) \/ BackOff(c) \/ ReturnData(c) \/ Throw(c)
ShopifyStep(c) ==
  \/ RateLimit(c)
  \/ \E reply \in ServedReply, runs \in 0 .. 1 : ServeCall(c, reply, runs)

AdminCallsNext ==
  \/ \E c \in Query : (\E k \in CallKind : BeginCall(c, k)) \/ ClientStep(c) \/ ShopifyStep(c)
  \/ TickOfTime

AdminCallsSpec == AdminCallsInit /\ [][AdminCallsNext]_callVars

\* A sleep that is over is noticed, and a request that was sent is answered or dropped.
CallFairness == \A c \in Query : WF_callVars(ClientStep(c)) /\ WF_callVars(ShopifyStep(c))
FairCallsSpec == AdminCallsSpec /\ WF_callVars(TickOfTime) /\ CallFairness

-----------------------------------------------------------------------------
(* Properties *)

\* A mutation is run at most once by a call, whatever is retried and however the answers are
\* lost, and a call that returned data was run.
MutationRunsOnce ==
  \A c \in Query :
    /\ call[c].kind = "mutation" => call[c].runs <= 1
    /\ call[c].step = "returned" => call[c].runs > 0

\* A mutation that ends rate limited was never run: to send it again is safe.
RateLimitedIsUntouched ==
  \A c \in Query :
    call[c].step = "thrown" /\ call[c].reply = "rateLimited" /\ call[c].kind = "mutation"
      => call[c].runs = 0

\* Calls made one at a time whose answers all arrive are never rate limited: what the client
\* projects of the bucket is never more than there is, and its wait is long enough.
OrderlyIsServed ==
  orderly => \A c \in Query : call[c].reply # "rateLimited"

\* Every call ends: retries are counted, and no wait is for something that does not come.
CallEnds == \A c \in Query : UnderWay(c) ~> ~UnderWay(c)

\* The retries of the Admin API client repeat no mutation, and its projection of the shared
\* budget is never too high for calls that do not overlap (AdminGraphqlClient.request).
AdminCallsSafe ==
  /\ AdminCallsTypeOK
  /\ MutationRunsOnce
  /\ RateLimitedIsUntouched
  /\ OrderlyIsServed
=============================================================================
