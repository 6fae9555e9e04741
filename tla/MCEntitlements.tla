---------------------------- MODULE MCEntitlements ----------------------------
(* A small instance of who pays for a shop, in parts that share no state:        *)
(* Entitlements with one account that has more shops than seats, whose shops     *)
(* have a subscription and a licence of their own, one call at a time; the same  *)
(* with calls that overlap, about one shop; and FreemiusEvents with two requests *)
(* that write the row of one shop and one that caches it.  A behaviour is about  *)
(* one part.                                                                     *)
EXTENDS Entitlements, FreemiusEvents, TLC

VARIABLE part

Symmetry == Permutations(Account) \cup Permutations(Shop) \cup Permutations(Call)
            \cup Permutations(Writer)

InUse(s) ==
  \/ row[s] # FreeRow \/ s \in subscribed
  \/ \E u \in Account : Linked(u, s)
  \/ \E c \in Call : shop[c] = s
OneShop == \A s, t \in Shop : InUse(s) /\ InUse(t) => s = t
OneSeat == /\ \A u \in Account : plan[u].seats <= 1
           /\ \A s \in Shop : row[s].tag = "freemius" => ~row[s].grace

\* Calls that overlap where they read and write rows: what a call does to the account and
\* its links before is one step as far as the others go, and no grace window ends. A refund is
\* to the rows what a deactivation is.
Before == {"user", "link", "find", "active", "usage", "count", "list", "fill", "mark", "plan"}
Others(c) == \A d \in Call \ {c} : pc[d] \notin Before
NextOverlap ==
  \/ \E c \in Call : Others(c) /\ (Ask(c) \/ Step(c)) /\ op'[c] # "refund"
  \/ (\A c \in Call : pc[c] \notin Before) /\ \E s \in Shop : Subscription(s) \/ License(s)

MCInit == Init /\ FreemiusInit /\ part \in {"seats", "overlap", "events"}

MCNext ==
  /\ UNCHANGED part
  /\ \/ part = "seats" /\ NextAlone /\ UNCHANGED freemiusVars
     \/ part = "overlap" /\ NextOverlap /\ OneShop' /\ OneSeat' /\ UNCHANGED freemiusVars
     \/ part = "events" /\ FreemiusNext /\ UNCHANGED vars

\* The seats alone, with requests and events that overlap.
SeatsSpec ==
  MCInit /\ part = "seats" /\ [][Next /\ UNCHANGED <<freemiusVars, part>>]_<<vars, freemiusVars, part>>

\* An account pays for no more than its licence has seats, if its calls do not overlap.
SeatsSafe == TypeOK /\ (part # "overlap" => NoUnpaidShop)

MCSpec == MCInit /\ [][MCNext]_<<vars, freemiusVars, part>>
=============================================================================
