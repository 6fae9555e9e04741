---------------------------- MODULE BillingProofs ----------------------------
(***************************************************************************)
(* Theorems about Entitlements, for any accounts, shops, licences and      *)
(* subscriptions: what is paid for, with one call at a time, and who takes *)
(* a row from whom, with any calls that overlap; and about FreemiusEvents, *)
(* for any events, requests that overlap, and restarts.                    *)
(***************************************************************************)
EXTENDS Entitlements, FreemiusEvents, FiniteSetTheorems, SequenceTheorems, TLAPS

-----------------------------------------------------------------------------
(* Who pays for a shop *)

\* One call at a time.
Alone == \A c, d \in Call : pc[c] # "idle" /\ pc[d] # "idle" => c = d

\* Where a call works for an account, and what is done to one link of it.
OfAccount == {"user", "link", "find", "active", "usage", "count", "list", "fill", "mark", "plan",
              "apply", "links", "look", "grant", "revoke", "unlink", "release", "free"}
OfSeats == {"link", "seat", "unseat", "unlink"}
\* Where a call is says what it does, and for whom.
PlaceInv(c) ==
  /\ pc[c] \in OfAccount => acct[c] \in Account
  /\ pc[c] \notin OfAccount => acct[c] = NoAccount
  /\ pc[c] \in {"sync", "ask", "bill", "unbill"} \/ op[c] \in OfSeats => shop[c] \in Shop
  /\ pc[c] = "user" => op[c] \in {"link", "pay", "lapse", "refund"}
  /\ pc[c] = "link" => op[c] = "link"
  /\ pc[c] = "find" => op[c] \in {"seat", "unseat", "unlink"}
  /\ pc[c] = "active" => op[c] = "seat"
  /\ pc[c] \in {"usage", "count"} => op[c] \in {"link", "seat", "pay"}
  /\ pc[c] \in {"list", "fill"} => op[c] = "pay"
  /\ pc[c] = "mark" => op[c] \in {"link", "seat", "unseat"}
  /\ pc[c] = "plan" => op[c] \in {"pay", "lapse", "refund", "deactivate"}
  /\ pc[c] \in {"unlink", "release", "free"} => op[c] = "unlink"

\* The seats of a licence, the shops whose rows an account has paid, and a row that says what
\* the plan says.
SeatsOf(p) == IF p.seats = 0 THEN 1 ELSE p.seats
Held(u) == {s \in Shop : PaidBy(u, row[s])}
AsPlanned(u, s) == row[s].state = plan[u].state /\ row[s].grace = plan[u].grace
\* The shops H may hold the plan of u: linked, seated, no more than the licence has seats.
Owed(u, H) ==
  /\ \A s \in H : Linked(u, s) /\ s \in seat[u] /\ AsPlanned(u, s)
  /\ Cardinality(H) <= SeatsOf(plan[u])
\* The shops that applySeats has dealt with when the links t remain.
Given(u, t) == Held(u) \ {t[i].shop : i \in DOMAIN t}
\* The loop of applySeats over the links t, with g seats given out of the plan m.
LoopInv(u, m, t, g) ==
  /\ m = plan[u] /\ g <= Total(m)
  /\ \A i \in DOMAIN t : Linked(u, t[i].shop) /\ t[i].seat = (t[i].shop \in seat[u])
  /\ \A s \in Held(u) : Linked(u, s)
  /\ \A s \in Given(u, t) : s \in seat[u] /\ AsPlanned(u, s)
  /\ Cardinality(Given(u, t)) <= g
\* What a call has left of the account it works for, at each place.
FineAt(c) ==
  LET u == acct[c] IN
  /\ \/ pc[c] \in {"user", "find", "active", "unlink"}
     \/ pc[c] \in {"usage", "count"} /\ op[c] = "seat"
     => Owed(u, Held(u))
  /\ pc[c] \in {"release", "free"} => Owed(u, Held(u) \ {shop[c]})
  /\ pc[c] \in OfAccount \ {"release", "free"} => \A s \in Held(u) : Linked(u, s)
  /\ pc[c] = "links" => mine[c] = plan[u] /\ granted[c] = 0
  /\ pc[c] \in {"look", "grant", "revoke"} =>
       todo[c] # <<>> /\ LoopInv(u, mine[c], todo[c], granted[c])
  /\ pc[c] = "grant" => /\ Managed(u, row[Head(todo[c]).shop]) /\ Head(todo[c]).seat
                        /\ granted[c] < Total(mine[c])
  /\ pc[c] = "revoke" => PaidBy(u, row[Head(todo[c]).shop])
  /\ pc[c] = "free" => row[shop[c]].tag = u
\* Seats and paid shops are finitely many, so that they can be counted.
Finite == \A u \in Account : IsFiniteSet(seat[u]) /\ IsFiniteSet(Held(u))
\* The inductive invariant of Entitlements, for one call at a time.
SeatsInv ==
  /\ TypeOK /\ Alone /\ Finite
  /\ \A c \in Call : PlaceInv(c) /\ FineAt(c)
  /\ \A u \in Account : (\A c \in Call : acct[c] # u) => Owed(u, Held(u))
-----------------------------------------------------------------------------
\* TypeOK, in parts.
TablesOK ==
  /\ plan \in [Account -> Plan]
  /\ links \in [Account -> Seq(Shop)] /\ seat \in [Account -> SUBSET Shop]
  /\ row \in [Shop -> Row] /\ subscribed \in SUBSET Shop
CallsOK ==
  /\ pc \in [Call -> {"idle", "user", "link", "find", "active", "usage", "count", "list",
                      "fill", "mark", "plan", "apply", "links", "look", "grant", "revoke",
                      "unlink", "release", "free", "sync", "ask", "bill", "unbill"}]
  /\ op \in [Call -> {"none", "link", "unlink", "seat", "unseat", "pay", "lapse", "refund",
                      "deactivate", "sync"}]
  /\ acct \in [Call -> Account \cup {NoAccount}] /\ shop \in [Call -> Shop \cup {NoShop}]
ReadsOK ==
  /\ mine \in [Call -> Plan] /\ had \in [Call -> BOOLEAN]
  /\ todo \in [Call -> Seq(Link)] /\ granted \in [Call -> 0 .. MaxSeats]
  /\ seen \in [Call -> Row]

\* TypeOK is its parts.
LEMMA TypeParts == TypeOK <=> TablesOK /\ CallsOK /\ ReadsOK
  BY DEF TypeOK, TablesOK, CallsOK, ReadsOK

\* What the operators of Entitlements return.
LEMMA TotalType == \A p \in Plan : Total(p) \in 0 .. MaxSeats /\ SeatsOf(p) \in 1 .. MaxSeats
    /\ Total(p) <= SeatsOf(p)
  BY ConstantsAssumption DEF Total, SeatsOf, Active, Plan

\* The links as applySeats lists them.
LEMMA LinksOfType ==
  ASSUME TablesOK, NEW u \in Account
  PROVE  LinksOf(u) \in Seq(Link) /\ Len(LinksOf(u)) = Len(links[u])
<1>1. links[u] \in Seq(Shop)
  BY DEF TablesOK
<1>2. LinksOf(u) \in [1 .. Len(links[u]) -> Link]
  BY <1>1 DEF LinksOf, Link
<1>. QED
  BY <1>1, <1>2

\* Without takes one shop out, and no other.
LEMMA WithoutType ==
  ASSUME NEW l \in Seq(Shop), NEW s
  PROVE  /\ Without(l, s) \in Seq(Shop)
         /\ \A t \in Shop \ {s} : (\E i \in DOMAIN l : l[i] = t) => \E i \in DOMAIN Without(l,
            s) : Without(l, s)[i] = t
<1>1. CASE \E i \in DOMAIN l : l[i] = s
  <2> DEFINE k == CHOOSE i \in DOMAIN l : l[i] = s
             a == SubSeq(l, 1, k - 1)
             b == SubSeq(l, k + 1, Len(l))
  <2>1. k \in 1 .. Len(l) /\ l[k] = s
    BY <1>1
  <2>2. Without(l, s) = a \o b
    BY <1>1 DEF Without
  <2> HIDE DEF k
  <2>3. /\ a \in Seq(Shop) /\ Len(a) = k - 1 /\ \A i \in 1 .. k - 1 : a[i] = l[i]
        /\ b \in Seq(Shop) /\ Len(b) = Len(l) - k /\ \A i \in 1 .. Len(l) - k : b[i] = l[k + i]
    BY <2>1
  <2> HIDE DEF a, b
  <2>4. /\ a \o b \in Seq(Shop) /\ Len(a \o b) = Len(l) - 1
        /\ \A i \in 1 .. k - 1 : (a \o b)[i] = l[i]
        /\ \A i \in k .. Len(l) - 1 : (a \o b)[i] = l[i + 1]
    <3>1. /\ a \o b \in Seq(Shop) /\ Len(a \o b) = Len(a) + Len(b)
          /\ \A i \in 1 .. Len(a) + Len(b) : (a \o b)[i] = IF i <= Len(a) THEN a[i] ELSE b[i - Len(a)]
      BY <2>3, ConcatProperties
    <3>2. Len(a) + Len(b) = Len(l) - 1 /\ k \in Nat /\ Len(l) \in Nat /\ Len(a) = k - 1
      BY <2>1, <2>3
    <3>3. ASSUME NEW i \in 1 .. k - 1 PROVE (a \o b)[i] = l[i]
      <4>1. i \in 1 .. Len(a) + Len(b) /\ i <= Len(a)
        BY <2>1, <3>2
      <4>. QED
        BY <2>3, <3>1, <4>1
    <3>4. ASSUME NEW i \in k .. Len(l) - 1 PROVE (a \o b)[i] = l[i + 1]
      <4>1. /\ i \in 1 .. Len(a) + Len(b) /\ ~(i <= Len(a))
            /\ i - Len(a) \in 1 .. Len(l) - k /\ k + (i - Len(a)) = i + 1
        BY <2>1, <3>2
      <4>. QED
        BY <2>3, <3>1, <4>1
    <3>. QED
      BY <3>1, <3>2, <3>3, <3>4
  <2>5. ASSUME NEW t \in Shop \ {s}, NEW i \in DOMAIN l, l[i] = t
        PROVE  \E j \in DOMAIN (a \o b) : (a \o b)[j] = t
    <3>1. i \in 1 .. Len(l) /\ i # k
      BY <2>1, <2>5
    <3>2. DOMAIN (a \o b) = 1 .. Len(l) - 1
      BY <2>4
    <3>3. CASE i < k
      <4>1. i \in 1 .. k - 1 /\ i \in 1 .. Len(l) - 1
        BY <2>1, <3>1, <3>3
      <4>. QED
        BY <2>4, <2>5, <3>2, <4>1
    <3>4. CASE i > k
      <4>1. i - 1 \in k .. Len(l) - 1 /\ i - 1 \in 1 .. Len(l) - 1 /\ (i - 1) + 1 = i
        BY <2>1, <3>1, <3>4
      <4>. QED
        BY <2>4, <2>5, <3>2, <4>1
    <3>. QED
      BY <2>1, <3>1, <3>3, <3>4
  <2>. QED
    BY <2>2, <2>4, <2>5
<1>2. CASE ~(\E i \in DOMAIN l : l[i] = s)
  BY <1>2 DEF Without
<1>. QED
  BY <1>1, <1>2

\* Where the calls are, and what they do, keeps its type.
LEMMA CallsStep ==
  ASSUME SeatsInv, [NextAlone]_vars
  PROVE  CallsOK'
<1>t. CallsOK
  BY TypeParts DEF SeatsInv
<1>q. \A c \in Call : PlaceInv(c)
  BY DEF SeatsInv
<1>1. ASSUME NEW c \in Call, Quiet, Ask(c) PROVE CallsOK'
  BY <1>t, <1>q, <1>1 DEF Ask, Begin, Goto, Quiet, tables, CallsOK, NoPlan, FreeRow
<1>2. ASSUME NEW c \in Call, ReadUser(c) PROVE CallsOK'
  BY <1>t, <1>q, <1>2 DEF ReadUser, Goto, tables, call, CallsOK, NoPlan, FreeRow
<1>3. ASSUME NEW c \in Call, AddLink(c) PROVE CallsOK'
  BY <1>t, <1>q, <1>3 DEF AddLink, Goto, tables, call, CallsOK, NoPlan, FreeRow
<1>4. ASSUME NEW c \in Call, Find(c) PROVE CallsOK'
  BY <1>t, <1>q, <1>4 DEF Find, End, Forget, Goto, tables, call, CallsOK, PlaceInv
<1>5. ASSUME NEW c \in Call, CheckActive(c) PROVE CallsOK'
  BY <1>t, <1>q, <1>5 DEF CheckActive, End, Forget, Goto, tables, call, CallsOK, NoPlan, FreeRow
<1>6. ASSUME NEW c \in Call, Usage(c) PROVE CallsOK'
  BY <1>t, <1>q, <1>6 DEF Usage, Goto, tables, call, CallsOK, NoPlan, FreeRow
<1>7. ASSUME NEW c \in Call, Count(c) PROVE CallsOK'
  BY <1>t, <1>q, <1>7 DEF Count, End, Forget, Goto, tables, call, CallsOK, NoPlan, FreeRow
<1>8. ASSUME NEW c \in Call, List(c) PROVE CallsOK'
  BY <1>t, <1>q, <1>8 DEF List, Goto, tables, call, CallsOK, NoPlan, FreeRow
<1>9. ASSUME NEW c \in Call, Fill(c) PROVE CallsOK'
  BY <1>t, <1>q, <1>9 DEF Fill, Goto, tables, call, CallsOK, NoPlan, FreeRow
<1>10. ASSUME NEW c \in Call, Mark(c) PROVE CallsOK'
  BY <1>t, <1>q, <1>10 DEF Mark, Goto, tables, call, CallsOK, NoPlan, FreeRow
<1>11. ASSUME NEW c \in Call, RemoveLink(c) PROVE CallsOK'
  BY <1>t, <1>q, <1>11 DEF RemoveLink, Goto, tables, call, CallsOK, NoPlan, FreeRow
<1>12. ASSUME NEW c \in Call, Release(c) PROVE CallsOK'
  BY <1>t, <1>q, <1>12 DEF Release, End, Forget, Goto, tables, call, CallsOK, NoPlan, FreeRow
<1>13. ASSUME NEW c \in Call, Free(c) PROVE CallsOK'
  BY <1>t, <1>q, <1>13 DEF Free, End, Forget, Goto, tables, call, CallsOK, NoPlan, FreeRow
<1>14. ASSUME NEW c \in Call, UpdatePlan(c) PROVE CallsOK'
  BY <1>t, <1>q, <1>14 DEF UpdatePlan, Goto, tables, call, CallsOK, NoPlan, FreeRow
<1>15. ASSUME NEW c \in Call, Apply(c) PROVE CallsOK'
  BY <1>t, <1>q, <1>15 DEF Apply, Goto, tables, call, CallsOK, NoPlan, FreeRow
<1>16. ASSUME NEW c \in Call, ReadLinks(c) PROVE CallsOK'
  BY <1>t, <1>q, <1>16 DEF ReadLinks, End, Forget, Goto, tables, call, CallsOK, NoPlan, FreeRow
<1>17. ASSUME NEW c \in Call, Look(c) PROVE CallsOK'
  BY <1>t, <1>q, <1>17 DEF Look, End, Forget, Goto, Visited, tables, call, CallsOK, NoPlan, FreeRow
<1>18. ASSUME NEW c \in Call, Grant(c) PROVE CallsOK'
  BY <1>t, <1>q, <1>18 DEF Grant, End, Forget, Goto, Visited, tables, call, CallsOK, NoPlan, FreeRow
<1>19. ASSUME NEW c \in Call, Revoke(c) PROVE CallsOK'
  BY <1>t, <1>q, <1>19 DEF Revoke, End, Forget, Goto, Visited, tables, call, CallsOK, NoPlan,
     FreeRow
<1>20. ASSUME NEW c \in Call, Sync(c) PROVE CallsOK'
  BY <1>t, <1>q, <1>20 DEF Sync, Goto, tables, call, CallsOK, NoPlan, FreeRow
<1>21. ASSUME NEW c \in Call, AskShopify(c) PROVE CallsOK'
  BY <1>t, <1>q, <1>21 DEF AskShopify, End, Forget, Goto, tables, call, CallsOK, NoPlan, FreeRow
<1>22. ASSUME NEW c \in Call, Bill(c) PROVE CallsOK'
  BY <1>t, <1>q, <1>22 DEF Bill, End, Forget, Goto, tables, call, CallsOK, NoPlan, FreeRow
<1>23. ASSUME NEW c \in Call, Unbill(c) PROVE CallsOK'
  BY <1>t, <1>q, <1>23 DEF Unbill, End, Forget, Goto, tables, call, CallsOK, NoPlan, FreeRow
<1>24. ASSUME NEW x \in Account \cup {"freemius"}, Quiet, GraceEnds(x) PROVE CallsOK'
  BY <1>t, <1>q, <1>24 DEF GraceEnds, Quiet, call, CallsOK, NoPlan, FreeRow
<1>25. ASSUME NEW s \in Shop, Quiet, Subscription(s) PROVE CallsOK'
  BY <1>t, <1>q, <1>25 DEF Subscription, Quiet, tables, call, CallsOK, NoPlan, FreeRow
<1>26. ASSUME NEW s \in Shop, Quiet, License(s) PROVE CallsOK'
  BY <1>t, <1>q, <1>26 DEF License, Quiet, call, CallsOK, NoPlan, FreeRow
<1>27. CASE UNCHANGED vars
  BY <1>t, <1>q, <1>27 DEF vars, tables, call, CallsOK, NoPlan, FreeRow
<1>. QED
  BY <1>1, <1>2, <1>3, <1>4, <1>5, <1>6, <1>7, <1>8, <1>9, <1>10, <1>11, <1>12, <1>13, <1>14, <1>15,
     <1>16, <1>17, <1>18, <1>19, <1>20, <1>21, <1>22, <1>23, <1>24, <1>25, <1>26, <1>27 DEF
     NextAlone, Step, Outside

\* The tables keep their types.
LEMMA TablesStep ==
  ASSUME SeatsInv, [NextAlone]_vars
  PROVE  TablesOK'
<1>t. TablesOK /\ CallsOK /\ ReadsOK
  BY TypeParts DEF SeatsInv
<1>n. MaxSeats \in Nat \ {0}
  BY ConstantsAssumption
<1>q. \A c \in Call : PlaceInv(c)
  BY DEF SeatsInv
<1>1. ASSUME NEW c \in Call, Quiet, Ask(c) PROVE TablesOK'
  BY <1>t, <1>n, <1>q, <1>1 DEF Ask, Begin, Goto, Quiet, tables, TablesOK, Row, FreeRow
<1>2. ASSUME NEW c \in Call, ReadUser(c) PROVE TablesOK'
  BY <1>t, <1>n, <1>q, <1>2 DEF ReadUser, Goto, tables, call, TablesOK, Row, FreeRow
<1>3. ASSUME NEW c \in Call, AddLink(c) PROVE TablesOK'
  <2>1. acct[c] \in Account /\ shop[c] \in Shop
    BY <1>q, <1>3 DEF AddLink, Goto, PlaceInv, OfAccount, OfSeats
  <2>. QED
    BY <1>t, <2>1, <1>3 DEF AddLink, TablesOK
<1>4. ASSUME NEW c \in Call, Find(c) PROVE TablesOK'
  BY <1>t, <1>n, <1>q, <1>4 DEF Find, End, Forget, Goto, tables, call, TablesOK, Row, FreeRow
<1>5. ASSUME NEW c \in Call, CheckActive(c) PROVE TablesOK'
  BY <1>t, <1>n, <1>q, <1>5 DEF CheckActive, End, Forget, Goto, tables, call, TablesOK, Row, FreeRow
<1>6. ASSUME NEW c \in Call, Usage(c) PROVE TablesOK'
  BY <1>t, <1>n, <1>q, <1>6 DEF Usage, Goto, tables, call, TablesOK, Row, FreeRow
<1>7. ASSUME NEW c \in Call, Count(c) PROVE TablesOK'
  BY <1>t, <1>n, <1>q, <1>7 DEF Count, End, Forget, Goto, tables, call, TablesOK, Row, FreeRow
<1>8. ASSUME NEW c \in Call, List(c) PROVE TablesOK'
  BY <1>t, <1>n, <1>q, <1>8 DEF List, Goto, tables, call, TablesOK, Row, FreeRow
<1>9. ASSUME NEW c \in Call, Fill(c) PROVE TablesOK'
  <2>1. acct[c] \in Account /\ seat[acct[c]] \subseteq Shop /\ todo[c] \in Seq(Link)
    BY <1>t, <1>q, <1>9 DEF Fill, Goto, PlaceInv, OfAccount, TablesOK, ReadsOK
  <2>2. seat' \in [Account -> SUBSET Shop]
    <3>1. CASE UNCHANGED seat
      BY <1>t, <3>1 DEF TablesOK
    <3>2. CASE todo[c] # <<>> /\ seat' = [seat EXCEPT ![acct[c]] = @ \cup {Head(todo[c]).shop}]
      <4>0. Head(todo[c]) \in Link
        BY <2>1, <3>2, HeadTailProperties
      <4>1. Head(todo[c]).shop \in Shop
        BY <4>0 DEF Link
      <4>. QED
        BY <1>t, <2>1, <3>2, <4>1 DEF TablesOK
    <3>. QED
      BY <1>9, <3>1, <3>2 DEF Fill
  <2>. QED
    BY <1>t, <2>2, <1>9 DEF Fill, TablesOK
<1>10. ASSUME NEW c \in Call, Mark(c) PROVE TablesOK'
  <2>1. acct[c] \in Account /\ seat[acct[c]] \subseteq Shop /\ todo[c] \in Seq(Link)
    BY <1>t, <1>q, <1>10 DEF Mark, Goto, PlaceInv, OfAccount, TablesOK, ReadsOK
  <2>3. shop[c] \in Shop
    BY <1>q, <1>10 DEF Mark, Goto, PlaceInv, OfSeats
  <2>2. seat' \in [Account -> SUBSET Shop]
    BY <1>t, <2>1, <2>3, <1>10 DEF Mark, TablesOK
  <2>. QED
    BY <1>t, <2>2, <1>10 DEF Mark, TablesOK
<1>11. ASSUME NEW c \in Call, RemoveLink(c) PROVE TablesOK'
  <2>1. acct[c] \in Account /\ links[acct[c]] \in Seq(Shop)
    BY <1>t, <1>q, <1>11 DEF RemoveLink, Goto, PlaceInv, OfAccount, TablesOK
  <2>2. Without(links[acct[c]], shop[c]) \in Seq(Shop)
    BY <2>1, WithoutType
  <2>. QED
    BY <1>t, <2>1, <2>2, <1>11 DEF RemoveLink, TablesOK
<1>12. ASSUME NEW c \in Call, Release(c) PROVE TablesOK'
  BY <1>t, <1>n, <1>q, <1>12 DEF Release, End, Forget, Goto, tables, call, TablesOK, Row, FreeRow
<1>13. ASSUME NEW c \in Call, Free(c) PROVE TablesOK'
  BY <1>t, <1>n, <1>q, <1>13 DEF Free, End, Forget, Goto, tables, call, TablesOK, Row, FreeRow
<1>14. ASSUME NEW c \in Call, UpdatePlan(c) PROVE TablesOK'
  <2>1. /\ acct[c] \in Account /\ op[c] \in {"pay", "lapse", "refund", "deactivate"}
        /\ SeatsOf(mine[c]) \in 1 .. MaxSeats
    BY <1>t, <1>q, <1>14, TotalType DEF UpdatePlan, Goto, PlaceInv, OfAccount, ReadsOK
  <2>2. PICK n \in 1 .. MaxSeats :
         plan' = [plan EXCEPT ![acct[c]] =
                  CASE op[c] = "pay" -> [state |-> "ACTIVE", grace |-> FALSE, seats |-> n]
                    [] op[c] = "lapse" -> [state |-> "LAPSED", grace |-> TRUE,
                        seats |-> SeatsOf(mine[c])]
                    [] op[c] = "refund" -> [state |-> "LAPSED", grace |-> FALSE,
                        seats |-> SeatsOf(mine[c])]
                    [] op[c] = "deactivate" -> NoPlan]
    BY <1>14 DEF UpdatePlan, SeatsOf
  <2>3. plan' \in [Account -> Plan]
    BY <1>t, <1>n, <2>1, <2>2 DEF TablesOK, Plan, NoPlan
  <2>. QED
    BY <1>t, <2>3, <1>14 DEF UpdatePlan, TablesOK
<1>15. ASSUME NEW c \in Call, Apply(c) PROVE TablesOK'
  BY <1>t, <1>n, <1>q, <1>15 DEF Apply, Goto, tables, call, TablesOK, Row, FreeRow
<1>16. ASSUME NEW c \in Call, ReadLinks(c) PROVE TablesOK'
  BY <1>t, <1>n, <1>q, <1>16 DEF ReadLinks, End, Forget, Goto, tables, call, TablesOK, Row, FreeRow
<1>17. ASSUME NEW c \in Call, Look(c) PROVE TablesOK'
  BY <1>t, <1>n, <1>q, <1>17 DEF Look, End, Forget, Goto, Visited, tables, call, TablesOK, Row,
     FreeRow
<1>18. ASSUME NEW c \in Call, Grant(c) PROVE TablesOK'
  <2>1. [state |-> mine[c].state, grace |-> mine[c].grace, tag |-> acct[c]] \in Row
    BY <1>t, <1>q, <1>18 DEF Grant, PlaceInv, OfAccount, ReadsOK, Plan, Row
  <2>. QED
    BY <1>t, <2>1, <1>18 DEF Grant, TablesOK
<1>19. ASSUME NEW c \in Call, Revoke(c) PROVE TablesOK'
  BY <1>t, <1>n, <1>q, <1>19 DEF Revoke, End, Forget, Goto, Visited, tables, call, TablesOK, Row,
     FreeRow
<1>20. ASSUME NEW c \in Call, Sync(c) PROVE TablesOK'
  BY <1>t, <1>n, <1>q, <1>20 DEF Sync, Goto, tables, call, TablesOK, Row, FreeRow
<1>21. ASSUME NEW c \in Call, AskShopify(c) PROVE TablesOK'
  BY <1>t, <1>n, <1>q, <1>21 DEF AskShopify, End, Forget, Goto, tables, call, TablesOK, Row, FreeRow
<1>22. ASSUME NEW c \in Call, Bill(c) PROVE TablesOK'
  BY <1>t, <1>n, <1>q, <1>22 DEF Bill, End, Forget, Goto, tables, call, TablesOK, Row, FreeRow
<1>23. ASSUME NEW c \in Call, Unbill(c) PROVE TablesOK'
  BY <1>t, <1>n, <1>q, <1>23 DEF Unbill, End, Forget, Goto, tables, call, TablesOK, Row, FreeRow
<1>24. ASSUME NEW x \in Account \cup {"freemius"}, Quiet, GraceEnds(x) PROVE TablesOK'
  <2>1. /\ \A p \in Plan : [p EXCEPT !.grace = FALSE] \in Plan
        /\ \A r \in Row : [r EXCEPT !.grace = FALSE] \in Row
    BY DEF Plan, Row
  <2>2. (\A u \in Account : plan[u] \in Plan) /\ (\A s \in Shop : row[s] \in Row)
    BY <1>t DEF TablesOK
  <2>. QED
    BY <1>t, <2>1, <2>2, <1>24 DEF GraceEnds, TablesOK
<1>25. ASSUME NEW s \in Shop, Quiet, Subscription(s) PROVE TablesOK'
  BY <1>t, <1>n, <1>q, <1>25 DEF Subscription, Quiet, tables, call, TablesOK, Row, FreeRow
<1>26. ASSUME NEW s \in Shop, Quiet, License(s) PROVE TablesOK'
  <2>1. /\ [state |-> "ACTIVE", grace |-> FALSE, tag |-> "freemius"] \in Row
        /\ [state |-> "LAPSED", grace |-> TRUE, tag |-> "freemius"] \in Row
        /\ [state |-> "LAPSED", grace |-> FALSE, tag |-> "freemius"] \in Row
        /\ FreeRow \in Row
    BY DEF Row, FreeRow
  <2>. QED
    BY <1>t, <2>1, <1>26 DEF License, TablesOK
<1>27. CASE UNCHANGED vars
  BY <1>t, <1>n, <1>q, <1>27 DEF vars, tables, call, TablesOK, Row, FreeRow
<1>. QED
  BY <1>1, <1>2, <1>3, <1>4, <1>5, <1>6, <1>7, <1>8, <1>9, <1>10, <1>11, <1>12, <1>13, <1>14, <1>15,
     <1>16, <1>17, <1>18, <1>19, <1>20, <1>21, <1>22, <1>23, <1>24, <1>25, <1>26, <1>27 DEF
     NextAlone, Step, Outside

\* What the calls have read keeps its type: applySeats never gives out more seats than there are.
LEMMA ReadsStep ==
  ASSUME SeatsInv, [NextAlone]_vars
  PROVE  ReadsOK'
<1>t. TablesOK /\ CallsOK /\ ReadsOK
  BY TypeParts DEF SeatsInv
<1>n. MaxSeats \in Nat \ {0}
  BY ConstantsAssumption
<1>q. \A c \in Call : PlaceInv(c)
  BY DEF SeatsInv
<1>g. Finite
  BY DEF SeatsInv
<1>x. \A c \in Call : FineAt(c)
  BY DEF SeatsInv
<1>l. NoPlan \in Plan /\ FreeRow \in Row /\ <<>> \in Seq(Link) /\ 0 \in 0 .. MaxSeats
  BY <1>n DEF NoPlan, Plan, FreeRow, Row
<1>1. ASSUME NEW c \in Call, Quiet, Ask(c) PROVE ReadsOK'
  BY <1>t, <1>1 DEF Ask, Begin, ReadsOK
<1>2. ASSUME NEW c \in Call, ReadUser(c) PROVE ReadsOK'
  <2>1. plan[acct[c]] \in Plan
    BY <1>t, <1>q, <1>2 DEF ReadUser, Goto, PlaceInv, OfAccount, TablesOK
  <2>. QED
    BY <1>t, <2>1, <1>2 DEF ReadUser, ReadsOK
<1>3. ASSUME NEW c \in Call, AddLink(c) PROVE ReadsOK'
  BY <1>t, <1>n, <1>q, <1>g, <1>x, <1>l, <1>3 DEF AddLink, Goto, tables, call, ReadsOK
<1>4. ASSUME NEW c \in Call, Find(c) PROVE ReadsOK'
  <2>1. CASE Linked(acct[c], shop[c])
    <3>1. UNCHANGED <<call, mine, todo, granted, seen>>
        /\ had' = [had EXCEPT ![c] = shop[c] \in seat[acct[c]]]
      BY <2>1, <1>4 DEF Find
    <3>2. (shop[c] \in seat[acct[c]]) \in BOOLEAN
      OBVIOUS
    <3>. QED
      BY <1>t, <3>1, <3>2 DEF ReadsOK
  <2>2. CASE ~Linked(acct[c], shop[c])
    BY <1>t, <1>l, <2>2, <1>4 DEF Find, ReadsOK, End, Forget
  <2>. QED
    BY <2>1, <2>2
<1>5. ASSUME NEW c \in Call, CheckActive(c) PROVE ReadsOK'
  BY <1>t, <1>n, <1>q, <1>g, <1>x, <1>l, <1>5 DEF CheckActive, End, Forget, Goto, tables, call,
     ReadsOK
<1>6. ASSUME NEW c \in Call, Usage(c) PROVE ReadsOK'
  <2>1. plan[acct[c]] \in Plan
    BY <1>t, <1>q, <1>6 DEF Usage, Goto, PlaceInv, OfAccount, TablesOK
  <2>. QED
    BY <1>t, <2>1, <1>6 DEF Usage, ReadsOK
<1>7. ASSUME NEW c \in Call, Count(c) PROVE ReadsOK'
  <2>1. mine[c] \in Plan /\ acct[c] \in Account /\ granted[c] \in 0 .. MaxSeats
    BY <1>t, <1>q, <1>7 DEF Count, PlaceInv, OfAccount, ReadsOK
  <2>2. Used(acct[c]) \in Nat
    BY <2>1, <1>g, FS_CardinalityType DEF Used, Finite
  <2>3. Total(mine[c]) \in 0 .. MaxSeats
    BY <2>1, TotalType
  <2>4. granted' \in [Call -> 0 .. MaxSeats]
    BY <1>t, <1>n, <2>1, <2>2, <2>3, <1>7 DEF Count, ReadsOK, End, Forget, Goto
  <2>. QED
    BY <1>t, <1>l, <2>4, <1>7 DEF Count, ReadsOK, End, Forget, Goto, call
<1>8. ASSUME NEW c \in Call, List(c) PROVE ReadsOK'
  <2>1. LinksOf(acct[c]) \in Seq(Link)
    BY <1>t, <1>q, <1>8, LinksOfType DEF List, Goto, PlaceInv, OfAccount
  <2>. QED
    BY <1>t, <2>1, <1>8 DEF List, ReadsOK
<1>9. ASSUME NEW c \in Call, Fill(c) PROVE ReadsOK'
  <2>1. todo[c] \in Seq(Link) /\ granted[c] \in 0 .. MaxSeats
    BY <1>t DEF ReadsOK
  <2>2. todo[c] # <<>> => Tail(todo[c]) \in Seq(Link)
    BY <2>1
  <2>3. todo' \in [Call -> Seq(Link)]
    BY <1>t, <2>2, <1>9 DEF Fill, ReadsOK
  <2>4. granted' \in [Call -> 0 .. MaxSeats]
    <3>1. granted' = granted \/ (granted[c] # 0 /\ granted' = [granted EXCEPT ![c] = @ - 1])
      BY <1>9 DEF Fill
    <3>2. granted[c] # 0 => granted[c] - 1 \in 0 .. MaxSeats
      BY <1>n, <2>1
    <3>. QED
      BY <1>t, <3>1, <3>2 DEF ReadsOK
  <2>. QED
    BY <1>t, <2>3, <2>4, <1>9 DEF Fill, ReadsOK
<1>10. ASSUME NEW c \in Call, Mark(c) PROVE ReadsOK'
  BY <1>t, <1>n, <1>q, <1>g, <1>x, <1>l, <1>10 DEF Mark, Goto, tables, call, ReadsOK
<1>11. ASSUME NEW c \in Call, RemoveLink(c) PROVE ReadsOK'
  BY <1>t, <1>n, <1>q, <1>g, <1>x, <1>l, <1>11 DEF RemoveLink, Goto, tables, call, ReadsOK
<1>12. ASSUME NEW c \in Call, Release(c) PROVE ReadsOK'
  <2>1. shop[c] \in Shop
    BY <1>q, <1>12 DEF Release, PlaceInv, OfSeats
  <2>2. row[shop[c]] \in Row
    BY <1>t, <2>1 DEF TablesOK
  <2>3. CASE row[shop[c]].tag = acct[c]
    BY <1>t, <2>2, <2>3, <1>12 DEF Release, ReadsOK
  <2>4. CASE row[shop[c]].tag # acct[c]
    BY <1>t, <1>l, <2>4, <1>12 DEF Release, End, Forget, ReadsOK
  <2>. QED
    BY <2>3, <2>4
<1>13. ASSUME NEW c \in Call, Free(c) PROVE ReadsOK'
  BY <1>t, <1>n, <1>q, <1>g, <1>x, <1>l, <1>13 DEF Free, End, Forget, Goto, tables, call, ReadsOK
<1>14. ASSUME NEW c \in Call, UpdatePlan(c) PROVE ReadsOK'
  BY <1>t, <1>n, <1>q, <1>g, <1>x, <1>l, <1>14 DEF UpdatePlan, Goto, tables, call, ReadsOK
<1>15. ASSUME NEW c \in Call, Apply(c) PROVE ReadsOK'
  <2>1. plan[acct[c]] \in Plan /\ 0 \in 0 .. MaxSeats
    BY <1>t, <1>q, <1>n, <1>15 DEF Apply, Goto, PlaceInv, OfAccount, TablesOK
  <2>. QED
    BY <1>t, <2>1, <1>15 DEF Apply, ReadsOK
<1>16. ASSUME NEW c \in Call, ReadLinks(c) PROVE ReadsOK'
  <2>1. LinksOf(acct[c]) \in Seq(Link)
    BY <1>t, <1>q, <1>16, LinksOfType DEF ReadLinks, PlaceInv, OfAccount
  <2>. QED
    BY ZenonT(40), <1>t, <1>l, <2>1, <1>16 DEF ReadLinks, ReadsOK, End, Forget, Goto
<1>17. ASSUME NEW c \in Call, Look(c) PROVE ReadsOK'
  <2>1. /\ todo[c] \in Seq(Link) /\ todo[c] # <<>> /\ granted[c] \in 0 .. MaxSeats
        /\ mine[c] \in Plan
    BY <1>t, <1>x, <1>17 DEF ReadsOK, Look, FineAt, LoopInv
  <2>2. Tail(todo[c]) \in Seq(Link)
    BY <2>1
  <2>3. granted[c] + 0 \in 0 .. MaxSeats
    BY <1>n, <2>1
  <2>h. Head(todo[c]) \in Link
    BY <2>1, HeadTailProperties
  <2>r. row[Head(todo[c]).shop] \in Row
    BY <1>t, <2>h DEF TablesOK, Link
  <2>. QED
    <3>1. CASE Visited(c, "look", 0)
      BY ZenonT(40), <1>t, <1>l, <2>2, <2>3, <3>1 DEF Visited, ReadsOK, End, Forget, Goto, call
    <3>2. CASE UNCHANGED <<mine, had, todo, granted>> /\ seen' = [seen EXCEPT ![c] = row[Head(todo[c]).shop]]
      BY <1>t, <2>r, <3>2 DEF ReadsOK
    <3>. QED
      BY <1>17, <3>1, <3>2 DEF Look
<1>18. ASSUME NEW c \in Call, Grant(c) PROVE ReadsOK'
  <2>1. /\ todo[c] \in Seq(Link) /\ todo[c] # <<>> /\ granted[c] \in 0 .. MaxSeats
        /\ mine[c] \in Plan
    BY <1>t, <1>x, <1>18 DEF ReadsOK, Grant, FineAt, LoopInv
  <2>2. Tail(todo[c]) \in Seq(Link)
    BY <2>1
  <2>0. Total(mine[c]) \in 0 .. MaxSeats
    BY <2>1, TotalType
  <2>3. granted[c] + 1 \in 0 .. MaxSeats
    <3>1. granted[c] < Total(mine[c])
      BY <1>x, <1>18 DEF Grant, FineAt
    <3>. QED
      BY <1>n, <2>0, <2>1, <3>1
  <2>. QED
    BY ZenonT(40), <1>t, <1>l, <2>2, <2>3, <1>18
       DEF Grant, Visited, ReadsOK, End, Forget, Goto, call
<1>19. ASSUME NEW c \in Call, Revoke(c) PROVE ReadsOK'
  <2>1. /\ todo[c] \in Seq(Link) /\ todo[c] # <<>> /\ granted[c] \in 0 .. MaxSeats
        /\ mine[c] \in Plan
    BY <1>t, <1>x, <1>19 DEF ReadsOK, Revoke, FineAt, LoopInv
  <2>2. Tail(todo[c]) \in Seq(Link)
    BY <2>1
  <2>0. Total(mine[c]) \in 0 .. MaxSeats
    BY <2>1, TotalType
  <2>3. granted[c] + 0 \in 0 .. MaxSeats
    <3>1. TRUE
      BY <1>x, <1>19 DEF Revoke, FineAt
    <3>. QED
      BY <1>n, <2>0, <2>1, <3>1
  <2>. QED
    BY ZenonT(40), <1>t, <1>l, <2>2, <2>3, <1>19
       DEF Revoke, Visited, ReadsOK, End, Forget, Goto, call
<1>20. ASSUME NEW c \in Call, Sync(c) PROVE ReadsOK'
  <2>1. row[shop[c]] \in Row
    BY <1>t, <1>q, <1>20 DEF Sync, Goto, PlaceInv, TablesOK
  <2>. QED
    BY <1>t, <2>1, <1>20 DEF Sync, ReadsOK
<1>21. ASSUME NEW c \in Call, AskShopify(c) PROVE ReadsOK'
  BY ZenonT(40), <1>t, <1>n, <1>q, <1>g, <1>x, <1>l, <1>21
     DEF AskShopify, End, Forget, Goto, tables, call,
     ReadsOK
<1>22. ASSUME NEW c \in Call, Bill(c) PROVE ReadsOK'
  BY <1>t, <1>n, <1>q, <1>g, <1>x, <1>l, <1>22 DEF Bill, End, Forget, Goto, tables, call, ReadsOK
<1>23. ASSUME NEW c \in Call, Unbill(c) PROVE ReadsOK'
  BY <1>t, <1>n, <1>q, <1>g, <1>x, <1>l, <1>23 DEF Unbill, End, Forget, Goto, tables, call, ReadsOK
<1>24. ASSUME NEW x \in Account \cup {"freemius"}, Quiet, GraceEnds(x) PROVE ReadsOK'
  <2>1. \A p \in Plan : [p EXCEPT !.grace = FALSE] \in Plan
    BY DEF Plan
  <2>2. \A c \in Call : mine[c] \in Plan
    BY <1>t DEF ReadsOK
  <2>. QED
    BY <1>t, <2>1, <2>2, <1>24 DEF GraceEnds, ReadsOK
<1>25. ASSUME NEW s \in Shop, Quiet, Subscription(s) PROVE ReadsOK'
  BY <1>t, <1>n, <1>q, <1>g, <1>x, <1>l, <1>25 DEF Subscription, Quiet, tables, call, ReadsOK
<1>26. ASSUME NEW s \in Shop, Quiet, License(s) PROVE ReadsOK'
  BY <1>t, <1>26 DEF License, ReadsOK, call
<1>27. CASE UNCHANGED vars
  BY <1>t, <1>n, <1>q, <1>g, <1>x, <1>l, <1>27 DEF vars, tables, call, ReadsOK
<1>. QED
  BY <1>1, <1>2, <1>3, <1>4, <1>5, <1>6, <1>7, <1>8, <1>9, <1>10, <1>11, <1>12, <1>13, <1>14, <1>15,
     <1>16, <1>17, <1>18, <1>19, <1>20, <1>21, <1>22, <1>23, <1>24, <1>25, <1>26, <1>27 DEF
     NextAlone, Step, Outside

\* A call does what it was asked to do.
LEMMA PlaceStep ==
  ASSUME NEW d \in Call, SeatsInv, [NextAlone]_vars
  PROVE  PlaceInv(d)'
<1>p. PlaceInv(d)
  BY DEF SeatsInv
<1>f. /\ pc \in [Call -> {"idle", "user", "link", "find", "active", "usage", "count", "list",
                      "fill", "mark", "plan", "apply", "links", "look", "grant", "revoke",
                      "unlink", "release", "free", "sync", "ask", "bill", "unbill"}]
   /\ op \in [Call -> {"none", "link", "unlink", "seat", "unseat", "pay", "lapse", "refund",
                      "deactivate", "sync"}]
   /\ acct \in [Call -> Account \cup {NoAccount}] /\ shop \in [Call -> Shop \cup {NoShop}]
  BY DEF SeatsInv, TypeOK
<1>q. \A c \in Call : PlaceInv(c)
  BY DEF SeatsInv
<1>1. ASSUME NEW c \in Call, Quiet, Ask(c) PROVE PlaceInv(d)'
  BY <1>p, <1>f, <1>q, <1>1 DEF Ask, Begin, Goto, Quiet, tables, PlaceInv, OfAccount, OfSeats
<1>2. ASSUME NEW c \in Call, ReadUser(c) PROVE PlaceInv(d)'
  BY <1>p, <1>f, <1>q, <1>2 DEF ReadUser, Goto, tables, call, PlaceInv, OfAccount, OfSeats
<1>3. ASSUME NEW c \in Call, AddLink(c) PROVE PlaceInv(d)'
  BY <1>p, <1>f, <1>q, <1>3 DEF AddLink, Goto, tables, call, PlaceInv, OfAccount, OfSeats
<1>4. ASSUME NEW c \in Call, Find(c) PROVE PlaceInv(d)'
  BY <1>p, <1>f, <1>q, <1>4 DEF Find, End, Forget, Goto, tables, call, PlaceInv, OfAccount, OfSeats
<1>5. ASSUME NEW c \in Call, CheckActive(c) PROVE PlaceInv(d)'
  BY <1>p, <1>f, <1>q, <1>5 DEF CheckActive, End, Forget, Goto, tables, call, PlaceInv, OfAccount,
     OfSeats
<1>6. ASSUME NEW c \in Call, Usage(c) PROVE PlaceInv(d)'
  BY <1>p, <1>f, <1>q, <1>6 DEF Usage, Goto, tables, call, PlaceInv, OfAccount, OfSeats
<1>7. ASSUME NEW c \in Call, Count(c) PROVE PlaceInv(d)'
  BY <1>p, <1>f, <1>q, <1>7 DEF Count, End, Forget, Goto, tables, call, PlaceInv, OfAccount, OfSeats
<1>8. ASSUME NEW c \in Call, List(c) PROVE PlaceInv(d)'
  BY <1>p, <1>f, <1>q, <1>8 DEF List, Goto, tables, call, PlaceInv, OfAccount, OfSeats
<1>9. ASSUME NEW c \in Call, Fill(c) PROVE PlaceInv(d)'
  BY <1>p, <1>f, <1>q, <1>9 DEF Fill, Goto, tables, call, PlaceInv, OfAccount, OfSeats
<1>10. ASSUME NEW c \in Call, Mark(c) PROVE PlaceInv(d)'
  BY <1>p, <1>f, <1>q, <1>10 DEF Mark, Goto, tables, call, PlaceInv, OfAccount, OfSeats
<1>11. ASSUME NEW c \in Call, RemoveLink(c) PROVE PlaceInv(d)'
  BY <1>p, <1>f, <1>q, <1>11 DEF RemoveLink, Goto, tables, call, PlaceInv, OfAccount, OfSeats
<1>12. ASSUME NEW c \in Call, Release(c) PROVE PlaceInv(d)'
  BY <1>p, <1>f, <1>q, <1>12 DEF Release, End, Forget, Goto, tables, call, PlaceInv, OfAccount,
     OfSeats
<1>13. ASSUME NEW c \in Call, Free(c) PROVE PlaceInv(d)'
  BY <1>p, <1>f, <1>q, <1>13 DEF Free, End, Forget, Goto, tables, call, PlaceInv, OfAccount, OfSeats
<1>14. ASSUME NEW c \in Call, UpdatePlan(c) PROVE PlaceInv(d)'
  BY <1>p, <1>f, <1>q, <1>14 DEF UpdatePlan, Goto, tables, call, PlaceInv, OfAccount, OfSeats
<1>15. ASSUME NEW c \in Call, Apply(c) PROVE PlaceInv(d)'
  BY <1>p, <1>f, <1>q, <1>15 DEF Apply, Goto, tables, call, PlaceInv, OfAccount, OfSeats
<1>16. ASSUME NEW c \in Call, ReadLinks(c) PROVE PlaceInv(d)'
  BY <1>p, <1>f, <1>q, <1>16 DEF ReadLinks, End, Forget, Goto, tables, call, PlaceInv, OfAccount,
     OfSeats
<1>17. ASSUME NEW c \in Call, Look(c) PROVE PlaceInv(d)'
  BY <1>p, <1>f, <1>q, <1>17 DEF Look, End, Forget, Goto, Visited, tables, call, PlaceInv,
     OfAccount, OfSeats
<1>18. ASSUME NEW c \in Call, Grant(c) PROVE PlaceInv(d)'
  BY <1>p, <1>f, <1>q, <1>18 DEF Grant, End, Forget, Goto, Visited, tables, call, PlaceInv,
     OfAccount, OfSeats
<1>19. ASSUME NEW c \in Call, Revoke(c) PROVE PlaceInv(d)'
  BY <1>p, <1>f, <1>q, <1>19 DEF Revoke, End, Forget, Goto, Visited, tables, call, PlaceInv,
     OfAccount, OfSeats
<1>20. ASSUME NEW c \in Call, Sync(c) PROVE PlaceInv(d)'
  BY <1>p, <1>f, <1>q, <1>20 DEF Sync, Goto, tables, call, PlaceInv, OfAccount, OfSeats
<1>21. ASSUME NEW c \in Call, AskShopify(c) PROVE PlaceInv(d)'
  BY <1>p, <1>f, <1>q, <1>21 DEF AskShopify, End, Forget, Goto, tables, call, PlaceInv, OfAccount,
     OfSeats
<1>22. ASSUME NEW c \in Call, Bill(c) PROVE PlaceInv(d)'
  BY <1>p, <1>f, <1>q, <1>22 DEF Bill, End, Forget, Goto, tables, call, PlaceInv, OfAccount, OfSeats
<1>23. ASSUME NEW c \in Call, Unbill(c) PROVE PlaceInv(d)'
  BY <1>p, <1>f, <1>q, <1>23 DEF Unbill, End, Forget, Goto, tables, call, PlaceInv, OfAccount,
     OfSeats
<1>24. ASSUME NEW x \in Account \cup {"freemius"}, Quiet, GraceEnds(x) PROVE PlaceInv(d)'
  BY <1>p, <1>f, <1>q, <1>24 DEF GraceEnds, Quiet, call, PlaceInv, OfAccount, OfSeats
<1>25. ASSUME NEW s \in Shop, Quiet, Subscription(s) PROVE PlaceInv(d)'
  BY <1>p, <1>f, <1>q, <1>25 DEF Subscription, Quiet, tables, call, PlaceInv, OfAccount, OfSeats
<1>26. ASSUME NEW s \in Shop, Quiet, License(s) PROVE PlaceInv(d)'
  BY <1>p, <1>f, <1>q, <1>26 DEF License, Quiet, call, PlaceInv, OfAccount, OfSeats
<1>27. CASE UNCHANGED vars
  BY <1>p, <1>f, <1>q, <1>27 DEF vars, tables, call, PlaceInv, OfAccount, OfSeats
<1>. QED
  BY <1>1, <1>2, <1>3, <1>4, <1>5, <1>6, <1>7, <1>8, <1>9, <1>10, <1>11, <1>12, <1>13, <1>14, <1>15,
     <1>16, <1>17, <1>18, <1>19, <1>20, <1>21, <1>22, <1>23, <1>24, <1>25, <1>26, <1>27 DEF
     NextAlone, Step, Outside

\* What writing one row makes of the shops an account holds.
LEMMA HeldMoves ==
  ASSUME TablesOK, NEW s \in Shop, NEW r, row' = [row EXCEPT ![s] = r], NEW u
  PROVE  /\ PaidBy(u, r) => Held(u)' = Held(u) \cup {s}
         /\ ~PaidBy(u, r) => Held(u)' = Held(u) \ {s}
         /\ \A t \in Shop \ {s} : row'[t] = row[t]
         /\ row'[s] = r
<1>1. \A t \in Shop : row'[t] = IF t = s THEN r ELSE row[t]
  BY DEF TablesOK
<1>2. \A t \in Shop : (t \in Held(u)') <=> PaidBy(u, row'[t])
  BY DEF Held, PaidBy
<1>3. \A t \in Shop : (t \in Held(u)) <=> PaidBy(u, row[t])
  BY DEF Held
<1>4. Held(u) \subseteq Shop /\ Held(u)' \subseteq Shop
  BY DEF Held
<1>. QED
  BY <1>1, <1>2, <1>3, <1>4

\* What stays owed when the account keeps its plan, links and seats, and holds no more.
LEMMA OwedShrinks ==
  ASSUME NEW u, NEW H, NEW I \in SUBSET H, IsFiniteSet(H), H \subseteq Shop, Owed(u, H), TablesOK,
         u \in Account,
         plan'[u] = plan[u], links'[u] = links[u], seat'[u] = seat[u],
         \A s \in I : row'[s] = row[s]
  PROVE  Owed(u, I)'
<1>1. Cardinality(I) <= Cardinality(H) /\ Cardinality(I) \in Nat /\ Cardinality(H) \in Nat
  BY FS_Subset, FS_CardinalityType
<1>2. Cardinality(H) <= SeatsOf(plan[u]) /\ SeatsOf(plan[u]) \in Nat
  BY TotalType, ConstantsAssumption DEF Owed, TablesOK
<1>3. Cardinality(I) <= SeatsOf(plan'[u])
  BY <1>1, <1>2
<1>4. SeatsOf(plan[u])' = SeatsOf(plan'[u])
  BY DEF SeatsOf
<1>5. \A s \in I : Linked(u, s)' /\ s \in seat'[u] /\ AsPlanned(u, s)'
  BY DEF Owed, Linked, AsPlanned
<1>. QED
  BY <1>3, <1>4, <1>5 DEF Owed

\* The links still to visit stay what they are.
LEMMA TurnLinks ==
  ASSUME NEW u \in Account, NEW t \in Seq(Link), t # <<>>, links'[u] = links[u], seat'[u] = seat[u],
         \A i \in DOMAIN t : Linked(u, t[i].shop) /\ t[i].seat = (t[i].shop \in seat[u])
  PROVE  /\ \A i \in DOMAIN Tail(t) : Linked(u, Tail(t)[i].shop)'
            /\ Tail(t)[i].seat = (Tail(t)[i].shop \in seat'[u])
         /\ \A s : Linked(u, s)' = Linked(u, s)
         /\ \A s : (\E i \in DOMAIN t : t[i].shop = s) =>
            s = Head(t).shop \/ \E i \in DOMAIN Tail(t) : Tail(t)[i].shop = s
<1>1. Len(t) \in Nat /\ DOMAIN t = 1 .. Len(t) /\ DOMAIN Tail(t) = 1 .. Len(t) - 1 /\ Head(t) = t[1]
  BY HeadTailProperties
<1>2. \A s : Linked(u, s)' = Linked(u, s)
  BY DEF Linked
<1>3. \A i \in DOMAIN Tail(t) : i + 1 \in DOMAIN t /\ Tail(t)[i] = t[i + 1]
  BY <1>1, HeadTailProperties
<1>4. ASSUME NEW i \in DOMAIN t, i # 1
      PROVE  i - 1 \in DOMAIN Tail(t) /\ Tail(t)[i - 1] = t[i]
  <2>1. i - 1 \in 1 .. Len(t) - 1 /\ (i - 1) + 1 = i
    BY <1>1, <1>4
  <2>. QED
    BY <1>1, <1>3, <2>1
<1>5. \A i \in DOMAIN Tail(t) : Linked(u, Tail(t)[i].shop)'
    /\ Tail(t)[i].seat = (Tail(t)[i].shop \in seat'[u])
  BY <1>2, <1>3
<1>6. ASSUME NEW s, NEW i \in DOMAIN t, t[i].shop = s
      PROVE  s = Head(t).shop \/ \E j \in DOMAIN Tail(t) : Tail(t)[j].shop = s
  BY <1>1, <1>4, <1>6
<1>. QED
  BY <1>2, <1>5, <1>6

\* One turn of the loop of applySeats over the links t of u, without and with a seat given.
LEMMA TurnWithout ==
  ASSUME TablesOK, NEW u \in Account, NEW m, NEW t \in Seq(Link), NEW g \in Nat, t # <<>>,
         LoopInv(u, m, t, g), IsFiniteSet(Held(u)),
         plan'[u] = plan[u], links'[u] = links[u], seat'[u] = seat[u],
         Held(u)' \subseteq Held(u) \ {Head(t).shop}, \A s \in Held(u)' : row'[s] = row[s]
  PROVE  LoopInv(u, m, Tail(t), g)'
<1>0. \A s : (\E i \in DOMAIN t : t[i].shop = s) =>
    s = Head(t).shop \/ \E i \in DOMAIN Tail(t) : Tail(t)[i].shop = s
  <2>1. \A i \in DOMAIN t : Linked(u, t[i].shop) /\ t[i].seat = (t[i].shop \in seat[u])
    BY DEF LoopInv
  <2>. QED
    BY <2>1, TurnLinks
<1>1. \A s \in Given(u, Tail(t))' : s \in Given(u, t) /\ s \in Held(u)'
  BY <1>0 DEF Given
<1>2. \A s \in Given(u, Tail(t))' : s \in seat'[u] /\ AsPlanned(u, s)'
  BY <1>1 DEF LoopInv, AsPlanned
<1>3. Cardinality(Given(u, Tail(t))') <= g
  <2>1. IsFiniteSet(Given(u, t))
    BY FS_Subset DEF Given
  <2>2. Cardinality(Given(u, Tail(t))') <= Cardinality(Given(u, t)) /\ Cardinality(Given(u,
      t)) \in Nat
        /\ Cardinality(Given(u, Tail(t))') \in Nat
    BY <1>1, <2>1, FS_Subset, FS_CardinalityType
  <2>. QED
    BY <2>2 DEF LoopInv
<1>4. \A s \in Held(u)' : Linked(u, s)'
  BY TurnLinks DEF LoopInv
<1>5. \A i \in DOMAIN Tail(t) : Linked(u, Tail(t)[i].shop)'
    /\ Tail(t)[i].seat = (Tail(t)[i].shop \in seat'[u])
  BY TurnLinks DEF LoopInv
<1>6. m = plan'[u] /\ g <= Total(m)'
  BY DEF LoopInv
<1>. QED
  BY <1>2, <1>3, <1>4, <1>5, <1>6 DEF LoopInv

\* A turn that gives a seat.
LEMMA TurnWith ==
  ASSUME TablesOK, NEW u \in Account, NEW m \in Plan, NEW t \in Seq(Link), NEW g \in Nat, t # <<>>,
         LoopInv(u, m, t, g), IsFiniteSet(Held(u)), g < Total(m), Head(t).seat,
             Head(t).shop \in Shop,
         plan'[u] = plan[u], links'[u] = links[u], seat'[u] = seat[u],
         row' = [row EXCEPT ![Head(t).shop] = [state |-> m.state, grace |-> m.grace, tag |-> u]]
  PROVE  LoopInv(u, m, Tail(t), g + 1)'
<1> DEFINE h == Head(t).shop
<1>1. /\ Held(u)' \subseteq Held(u) \cup {h} /\ \A s \in Shop \ {h} : row'[s] = row[s]
      /\ row'[h] = [state |-> m.state, grace |-> m.grace, tag |-> u]
      /\ Held(u)' \subseteq Shop
  BY HeldMoves DEF Held
<1>2. Linked(u, h) /\ h \in seat[u]
  <2>1. 1 \in DOMAIN t /\ Head(t) = t[1]
    BY HeadTailProperties
  <2>. QED
    BY <2>1 DEF LoopInv
<1>0. \A s : (\E i \in DOMAIN t : t[i].shop = s) =>
    s = Head(t).shop \/ \E i \in DOMAIN Tail(t) : Tail(t)[i].shop = s
  <2>1. \A i \in DOMAIN t : Linked(u, t[i].shop) /\ t[i].seat = (t[i].shop \in seat[u])
    BY DEF LoopInv
  <2>. QED
    BY <2>1, TurnLinks
<1>3. \A s \in Given(u, Tail(t))' : (s \in Given(u, t) /\ s # h) \/ s = h
  BY <1>0, <1>1 DEF Given
<1>4. AsPlanned(u, h)'
  BY <1>1 DEF AsPlanned, LoopInv
<1>5. ASSUME NEW s \in Given(u, Tail(t))' PROVE s \in seat'[u] /\ AsPlanned(u, s)'
  <2>1. CASE s = h
    BY <1>2, <1>4, <2>1
  <2>2. CASE s \in Given(u, t) /\ s # h
    <3>1. s \in seat[u] /\ AsPlanned(u, s) /\ s \in Shop
      BY <2>2 DEF LoopInv, Given, Held
    <3>. QED
      BY <1>1, <2>2, <3>1 DEF AsPlanned
  <2>. QED
    BY <1>3, <2>1, <2>2
<1>6. Cardinality(Given(u, Tail(t))') <= g + 1
  <2>1. IsFiniteSet(Given(u, t))
    BY FS_Subset DEF Given
  <2>2. /\ IsFiniteSet(Given(u, t) \cup {h}) /\ Cardinality(Given(u,
           t) \cup {h}) <= Cardinality(Given(u, t)) + 1
        /\ Cardinality(Given(u, t)) \in Nat /\ Cardinality(Given(u, t) \cup {h}) \in Nat
    <3> DEFINE K == Given(u, t)
    <3>1. IsFiniteSet(K)
      BY <2>1
    <3> HIDE DEF K
    <3>2. /\ IsFiniteSet(K \cup {h})
             /\ Cardinality(K \cup {h}) = IF h \in K THEN Cardinality(K) ELSE Cardinality(K) + 1
          /\ Cardinality(K) \in Nat
      BY <3>1, FS_AddElement, FS_CardinalityType
    <3>3. IsFiniteSet(K \cup {h}) /\ Cardinality(K \cup {h}) <= Cardinality(K) + 1
        /\ Cardinality(K) \in Nat
          /\ Cardinality(K \cup {h}) \in Nat
      BY <3>2
    <3>. QED
      BY <3>3 DEF K
  <2>3. Given(u, Tail(t))' \in SUBSET (Given(u, t) \cup {h})
    BY <1>3
  <2>4. Cardinality(Given(u, Tail(t))') <= Cardinality(Given(u, t) \cup {h})
      /\ Cardinality(Given(u, Tail(t))') \in Nat
    BY <2>2, <2>3, FS_Subset, FS_CardinalityType
  <2>. QED
    BY <2>2, <2>4 DEF LoopInv
<1>7. \A s \in Held(u)' : Linked(u, s)'
  BY <1>1, <1>2, TurnLinks DEF LoopInv
<1>8. g + 1 <= Total(m) /\ Total(m)' = Total(m)
  <2>1. Total(m) \in Nat
    BY TotalType, ConstantsAssumption
  <2>. QED
    BY <2>1
<1>9. m = plan'[u]
  BY DEF LoopInv
<1>10. \A i \in DOMAIN Tail(t) : Linked(u, Tail(t)[i].shop)'
    /\ Tail(t)[i].seat = (Tail(t)[i].shop \in seat'[u])
  BY TurnLinks DEF LoopInv
<1>. QED
  BY <1>5, <1>6, <1>7, <1>8, <1>9, <1>10 DEF LoopInv

\* After the last link the account is owed what it holds.
LEMMA LoopEnds ==
  ASSUME NEW u \in Account, NEW m \in Plan, NEW t, t = <<>>, NEW g \in Nat, LoopInv(u, m, t, g)',
         IsFiniteSet(Held(u)')
  PROVE  Owed(u, Held(u))'
<1>1. Given(u, t)' = Held(u)'
  BY DEF Given
<1>2. Cardinality(Held(u)') \in Nat /\ Cardinality(Held(u)') <= g /\ g <= Total(m) /\ m = plan'[u]
  BY <1>1, FS_CardinalityType DEF LoopInv
<1>3. Total(m) <= SeatsOf(m) /\ Total(m) \in Nat /\ SeatsOf(m) \in Nat
  BY TotalType, ConstantsAssumption
<1>4. Cardinality(Held(u)') <= SeatsOf(plan[u])'
  BY <1>2, <1>3
<1>. QED
  BY <1>1, <1>4 DEF LoopInv, Owed

\* The loop in the words of the call.
LEMMA LoopStays ==
  ASSUME NEW c, NEW u, NEW m, NEW t, NEW g, LoopInv(u, m, t, g)',
         acct'[c] = u, mine'[c] = m, todo'[c] = t, granted'[c] = g
  PROVE  LoopInv(acct[c], mine[c], todo[c], granted[c])'
  OBVIOUS

\* A list of one link, and a longer one.
LEMMA OneLeft ==
  ASSUME NEW t \in Seq(Link), t # <<>>
  PROVE  /\ Head(t) \in Link /\ Head(t).shop \in Shop /\ Tail(t) \in Seq(Link)
         /\ Len(t) = 1 => Tail(t) = <<>>
         /\ Len(t) # 1 => Tail(t) # <<>>
<1>1. Head(t) \in Link /\ Tail(t) \in Seq(Link) /\ Len(Tail(t)) = Len(t) - 1 /\ Len(t) \in Nat
  BY HeadTailProperties
<1>2. Head(t).shop \in Shop
  BY <1>1 DEF Link
<1>3. Len(t) = 1 => Len(Tail(t)) = 0
  BY <1>1
<1>4. Len(t) # 1 => Len(Tail(t)) # 0
  BY <1>1
<1>5. Len(Tail(t)) = 0 <=> Tail(t) = <<>>
  BY <1>1, EmptySeq
<1>. QED
  BY <1>1, <1>2, <1>3, <1>4, <1>5

\* What depends on the tables alone stays as it is.
LEMMA SameTables ==
  ASSUME UNCHANGED tables, NEW u
  PROVE  /\ Held(u)' = Held(u) /\ (Owed(u, Held(u)) => Owed(u, Held(u))')
         /\ \A s : Linked(u, s)' = Linked(u, s)
         /\ \A s : Owed(u, Held(u) \ {s}) => Owed(u, Held(u) \ {s})'
  BY DEF tables, Held, Owed, Linked, AsPlanned, SeatsOf

\* What a step of a call leaves of its account.
LEMMA OwnStep ==
  ASSUME SeatsInv, NEW c \in Call, NEW u \in Account, acct[c] = u, Step(c)
  PROVE  FineAt(c)' /\ (acct'[c] # u => Owed(u, Held(u))')
<1> DEFINE G == FineAt(c)' /\ (acct'[c] # u => Owed(u, Held(u))')
<1>t. TablesOK /\ CallsOK /\ ReadsOK
  BY TypeParts DEF SeatsInv
<1>p. PlaceInv(c)
  BY DEF SeatsInv
<1>x. FineAt(c)
  BY DEF SeatsInv
<1>u. u # NoAccount
  BY ConstantsAssumption
<1>g. IsFiniteSet(Held(u)) /\ IsFiniteSet(seat[u])
  BY DEF SeatsInv, Finite
<1>f. pc[c] \in OfAccount
  BY <1>p, <1>u DEF PlaceInv
<1>l. pc[c] \notin {"release", "free"} => \A s \in Held(u) : Linked(u, s)
  BY <1>x, <1>f DEF FineAt
<1>1. ASSUME ReadUser(c) PROVE G
  <2>1. UNCHANGED tables
    BY <1>1 DEF ReadUser, Visited, End, Forget, Goto
  <2>. QED
    BY <1>t, <1>p, <1>u, <1>x, <1>f, <1>l, <2>1, <1>1, SameTables DEF ReadUser, End, Forget,
       Goto, call, FineAt, OfAccount, CallsOK, PlaceInv
<1>2. ASSUME AddLink(c) PROVE G
  <2>1. /\ pc'[c] \in {"usage", "apply"} /\ acct'[c] = u /\ op'[c] = "link" /\ UNCHANGED row
    BY <1>t, <1>p, <1>2 DEF AddLink, Goto, call, CallsOK, PlaceInv
  <2>2. \A s : Linked(u, s) => Linked(u, s)'
    <3>1. links[u] \in Seq(Shop) /\ shop[c] \in Shop
      BY <1>t, <1>p, <1>2 DEF TablesOK, AddLink, Goto, PlaceInv, OfSeats
    <3>2. links'[u] = links[u] \/ links'[u] = Append(links[u], shop[c])
      BY <1>t, <1>2 DEF AddLink, TablesOK
    <3>3. Len(links[u]) \in Nat /\ DOMAIN links[u] = 1 .. Len(links[u])
          /\ DOMAIN Append(links[u], shop[c]) = 1 .. Len(links[u]) + 1
          /\ \A i \in 1 .. Len(links[u]) : Append(links[u], shop[c])[i] = links[u][i]
      BY <3>1, AppendProperties
    <3>4. \A i \in DOMAIN links[u] : i \in DOMAIN links'[u] /\ links'[u][i] = links[u][i]
      BY <3>2, <3>3
    <3>. QED
      BY <3>4 DEF Linked
  <2>3. Held(u)' = Held(u)
    BY <2>1 DEF Held
  <2>4. \A s \in Held(u)' : Linked(u, s)'
    BY <1>l, <2>2, <2>3, <1>2 DEF AddLink, Goto
  <2>. QED
    BY <2>1, <2>4 DEF FineAt, OfAccount
<1>3. ASSUME Find(c) PROVE G
  <2>1. UNCHANGED tables
    BY <1>3 DEF Find, Visited, End, Forget, Goto
  <2>. QED
    BY <1>t, <1>p, <1>u, <1>x, <1>f, <1>l, <2>1, <1>3, SameTables DEF Find, End, Forget, Goto,
       call, FineAt, OfAccount, CallsOK, PlaceInv
<1>4. ASSUME CheckActive(c) PROVE G
  <2>1. UNCHANGED tables
    BY <1>4 DEF CheckActive, Visited, End, Forget, Goto
  <2>. QED
    BY <1>t, <1>p, <1>u, <1>x, <1>f, <1>l, <2>1, <1>4, SameTables DEF CheckActive, End, Forget,
       Goto, call, FineAt, OfAccount, CallsOK, PlaceInv
<1>5. ASSUME Usage(c) PROVE G
  <2>1. UNCHANGED tables
    BY <1>5 DEF Usage, Visited, End, Forget, Goto
  <2>. QED
    BY <1>t, <1>p, <1>u, <1>x, <1>f, <1>l, <2>1, <1>5, SameTables DEF Usage, End, Forget, Goto,
       call, FineAt, OfAccount, CallsOK, PlaceInv
<1>6. ASSUME Count(c) PROVE G
  <2>1. UNCHANGED tables
    BY <1>6 DEF Count, Visited, End, Forget, Goto
  <2>. QED
    BY <1>t, <1>p, <1>u, <1>x, <1>f, <1>l, <2>1, <1>6, SameTables DEF Count, End, Forget, Goto,
       call, FineAt, OfAccount, CallsOK, PlaceInv
<1>7. ASSUME List(c) PROVE G
  <2>1. UNCHANGED tables
    BY <1>7 DEF List, Visited, End, Forget, Goto
  <2>. QED
    BY <1>t, <1>p, <1>u, <1>x, <1>f, <1>l, <2>1, <1>7, SameTables DEF List, End, Forget, Goto,
       call, FineAt, OfAccount, CallsOK, PlaceInv
<1>8. ASSUME Fill(c) PROVE G
  <2>1. /\ pc'[c] \in {"fill", "apply"} /\ acct'[c] = u /\ UNCHANGED <<row, links>>
    BY <1>t, <1>8 DEF Fill, Goto, call, CallsOK
  <2>2. \A s \in Held(u)' : Linked(u, s)'
    <3>1. Held(u)' = Held(u) /\ \A s : Linked(u, s)' = Linked(u, s)
      BY <2>1 DEF Held, Linked
    <3>. QED
      BY <1>l, <3>1, <1>8 DEF Fill
  <2>. QED
    BY <2>1, <2>2 DEF FineAt, OfAccount
<1>9. ASSUME Mark(c) PROVE G
  <2>1. /\ pc'[c] \in {"apply"} /\ acct'[c] = u /\ UNCHANGED <<row, links>>
    BY <1>t, <1>9 DEF Mark, Goto, call, CallsOK
  <2>2. \A s \in Held(u)' : Linked(u, s)'
    <3>1. Held(u)' = Held(u) /\ \A s : Linked(u, s)' = Linked(u, s)
      BY <2>1 DEF Held, Linked
    <3>. QED
      BY <1>l, <3>1, <1>9 DEF Mark, Goto
  <2>. QED
    BY <2>1, <2>2 DEF FineAt, OfAccount
<1>10. ASSUME RemoveLink(c) PROVE G
  <2> DEFINE K == Held(u) \ {shop[c]}
  <2>1. /\ pc'[c] = "release" /\ acct'[c] = u /\ shop'[c] = shop[c] /\ UNCHANGED <<row, plan>>
        /\ links'[u] = Without(links[u], shop[c]) /\ seat'[u] = seat[u] \ {shop[c]}
        /\ links[u] \in Seq(Shop)
    BY <1>t, <1>10 DEF RemoveLink, Goto, call, CallsOK, TablesOK
  <2>2. PICK s \in Shop : s = shop[c]
    BY <1>p, <1>10 DEF RemoveLink, Goto, PlaceInv, OfSeats
  <2>3. Owed(u, Held(u))
    BY <1>x, <1>10 DEF RemoveLink, Goto, FineAt
  <2>4. Held(u)' = Held(u)
    BY <2>1 DEF Held
  <2>5. ASSUME NEW x \in Held(u) \ {s} PROVE Linked(u, x)' /\ x \in seat'[u] /\ AsPlanned(u, x)'
    <3>1. Linked(u, x) /\ x \in seat[u] /\ AsPlanned(u, x) /\ x \in Shop \ {s}
      BY <2>3, <2>5 DEF Owed, Held
    <3>2. Linked(u, x)'
      BY <2>1, <2>2, <3>1, WithoutType DEF Linked
    <3>. QED
      BY <2>1, <2>2, <3>1, <3>2 DEF AsPlanned
  <2>6. Cardinality(Held(u) \ {s}) <= SeatsOf(plan[u])
    <3>1. Cardinality(Held(u) \ {s}) <= Cardinality(Held(u))
        /\ Cardinality(Held(u) \ {s}) \in Nat /\ Cardinality(Held(u)) \in Nat
      BY <1>g, FS_Subset, FS_CardinalityType
    <3>2. SeatsOf(plan[u]) \in Nat
      BY <1>t, TotalType, ConstantsAssumption DEF TablesOK
    <3>. QED
      BY <2>3, <3>1, <3>2 DEF Owed
  <2>7. SeatsOf(plan[u])' = SeatsOf(plan[u])
    BY <2>1
  <2>8. Owed(u, Held(u) \ {s})'
    BY <2>4, <2>5, <2>6, <2>7 DEF Owed
  <2>. QED
    BY <2>1, <2>2, <2>8 DEF FineAt, OfAccount
<1>11. ASSUME Release(c) PROVE G
  <2>1. UNCHANGED tables
    BY <1>11 DEF Release
  <2>2. PICK s \in Shop : s = shop[c]
    BY <1>p, <1>11 DEF Release, PlaceInv, OfSeats
  <2>3. Owed(u, Held(u) \ {s})
    BY <1>x, <2>2, <1>11 DEF Release, FineAt
  <2>4. CASE row[s].tag = u
    <3>1. pc'[c] = "free" /\ acct'[c] = u /\ shop'[c] = s /\ row' = row
      BY <1>t, <2>2, <2>4, <1>11 DEF Release, Goto, call, CallsOK, tables
    <3>2. Owed(u, Held(u) \ {s})'
      BY <2>1, <2>3, SameTables
    <3>. QED
      BY <2>4, <3>1, <3>2 DEF FineAt, OfAccount
  <2>5. CASE row[s].tag # u
    <3>1. pc'[c] = "idle"
      BY <1>t, <2>2, <2>5, <1>11 DEF Release, End, Goto, CallsOK
    <3>2. Held(u) \ {s} = Held(u)
      BY <2>5 DEF Held, PaidBy
    <3>3. Owed(u, Held(u))'
      BY <2>1, <2>3, <3>2, SameTables
    <3>. QED
      BY <3>1, <3>3 DEF FineAt, OfAccount
  <2>. QED
    BY <2>4, <2>5
<1>12. ASSUME Free(c) PROVE G
  <2>1. PICK s \in Shop : s = shop[c]
    BY <1>p, <1>12 DEF Free, End, Goto, PlaceInv, OfSeats
  <2>2. /\ pc'[c] = "idle" /\ UNCHANGED <<plan, links, seat>> /\ row' = [row EXCEPT ![s] = FreeRow]
    BY <1>t, <2>1, <1>12 DEF Free, End, Goto, CallsOK
  <2>3. Held(u)' = Held(u) \ {s} /\ \A x \in Shop \ {s} : row'[x] = row[x]
    <3>1. ~PaidBy(u, FreeRow)
      BY DEF PaidBy, FreeRow
    <3>. QED
      BY <1>t, <2>1, <2>2, <3>1, HeldMoves
  <2>4. Owed(u, Held(u) \ {s})
    BY <1>x, <2>1, <1>12 DEF Free, End, Goto, FineAt
  <2>5. IsFiniteSet(Held(u) \ {s}) /\ Held(u) \ {s} \subseteq Shop
    BY <1>g, FS_RemoveElement DEF Held
  <2>6. PICK H : H = Held(u) \ {s}
    OBVIOUS
  <2>7. Owed(u, H)'
    BY <1>t, <2>2, <2>3, <2>4, <2>5, <2>6, OwedShrinks
  <2>8. Owed(u, Held(u))'
    BY <2>3, <2>6, <2>7 DEF Owed
  <2>. QED
    BY <2>2, <2>8 DEF FineAt, OfAccount
<1>13. ASSUME UpdatePlan(c) PROVE G
  <2>1. /\ pc'[c] \in {"usage", "apply"} /\ acct'[c] = u /\ UNCHANGED <<row, links>>
        /\ pc'[c] = "usage" => op'[c] = "pay"
    BY <1>t, <1>13 DEF UpdatePlan, Goto, call, CallsOK
  <2>2. \A s \in Held(u)' : Linked(u, s)'
    <3>1. Held(u)' = Held(u) /\ \A s : Linked(u, s)' = Linked(u, s)
      BY <2>1 DEF Held, Linked
    <3>. QED
      BY <1>l, <3>1, <1>13 DEF UpdatePlan, Goto
  <2>. QED
    BY <2>1, <2>2 DEF FineAt, OfAccount
<1>14. ASSUME Apply(c) PROVE G
  <2>1. UNCHANGED tables /\ pc'[c] = "links" /\ acct'[c] = u /\ mine'[c] = plan[u]
      /\ granted'[c] = 0
    BY <1>t, <1>14 DEF Apply, Goto, call, CallsOK, ReadsOK
  <2>2. \A s \in Held(u)' : Linked(u, s)'
    BY <1>l, <2>1, <1>14, SameTables DEF Apply, Goto
  <2>. QED
    BY <2>1, <2>2 DEF FineAt, OfAccount, tables
<1>15. ASSUME ReadLinks(c) PROVE G
  <2>1. UNCHANGED tables
    BY <1>15 DEF ReadLinks
  <2>2. CASE links[u] = <<>>
    <3>1. Held(u) = {}
      BY <1>l, <2>2, <1>15 DEF ReadLinks, Linked
    <3>2. Owed(u, Held(u))
      <4>1. SeatsOf(plan[u]) \in 1 .. MaxSeats /\ MaxSeats \in Nat
        BY <1>t, TotalType, ConstantsAssumption DEF TablesOK
      <4>. QED
        BY <3>1, <4>1, FS_EmptySet DEF Owed
    <3>3. pc'[c] = "idle"
      BY <1>t, <2>2, <1>15 DEF ReadLinks, End, Goto, CallsOK
    <3>. QED
      BY <2>1, <3>2, <3>3, SameTables DEF FineAt, OfAccount
  <2>3. CASE links[u] # <<>>
    <3>1. /\ pc'[c] = "look" /\ acct'[c] = u /\ mine'[c] = mine[c] /\ granted'[c] = granted[c]
          /\ todo'[c] = LinksOf(u)
      BY <1>t, <2>3, <1>15 DEF ReadLinks, Goto, CallsOK, ReadsOK, call
    <3>2. mine[c] = plan[u] /\ granted[c] = 0
      BY <1>x, <1>15 DEF ReadLinks, FineAt
    <3>3. links[u] \in Seq(Shop) /\ plan[u] \in Plan
      BY <1>t DEF TablesOK
    <3>4. PICK t \in Seq(Link) : t = LinksOf(u)
      BY <1>t, LinksOfType
    <3>5. t # <<>> /\ DOMAIN t = DOMAIN links[u]
        /\ \A i \in DOMAIN t : t[i].shop = links[u][i] /\ t[i].seat = (links[u][i] \in seat[u])
      BY <2>3, <3>3, <3>4, LinksOfType, <1>t DEF LinksOf
    <3>6. Given(u, t) = {}
      BY <1>l, <3>5, <1>15 DEF Given, Linked, ReadLinks
    <3>7. LoopInv(u, plan[u], t, 0)
      <4>1. 0 <= Total(plan[u]) /\ Cardinality(Given(u, t)) <= 0
        BY <3>3, <3>6, TotalType, FS_EmptySet, ConstantsAssumption
      <4>2. \A i \in DOMAIN t : Linked(u, t[i].shop) /\ t[i].seat = (t[i].shop \in seat[u])
        BY <3>5 DEF Linked
      <4>3. \A s \in Held(u) : Linked(u, s)
        BY <1>l, <1>15 DEF ReadLinks
      <4>. QED
        BY <3>6, <4>1, <4>2, <4>3 DEF LoopInv
    <3>8. LoopInv(u, plan[u], t, 0)'
      BY <2>1, <3>7 DEF LoopInv, Given, Held, Linked, AsPlanned, tables, Total, Active
    <3>9. todo'[c] = t /\ mine'[c] = plan'[u] /\ granted'[c] = 0
      BY <2>1, <3>1, <3>2, <3>4 DEF tables
    <3>10. LoopInv(acct[c], mine[c], todo[c], granted[c])'
      BY <3>1, <3>8, <3>9 DEF LoopInv, Given, AsPlanned, Linked, Held
    <3>11. \A s \in Held(u)' : Linked(u, s)'
      BY <3>8 DEF LoopInv
    <3>. QED
      BY <3>1, <3>5, <3>9, <3>10, <3>11 DEF FineAt, OfAccount
  <2>. QED
    BY <2>2, <2>3
<1>16. ASSUME Look(c) PROVE G
  <2>1. PICK t \in Seq(Link), g \in Nat, m \in Plan : t = todo[c] /\ g = granted[c] /\ m = mine[c]
    BY <1>t, ConstantsAssumption DEF ReadsOK
  <2>2. t # <<>> /\ LoopInv(u, m, t, g)
    BY <1>x, <2>1, <1>16 DEF Look, FineAt
  <2>h. Head(t) \in Link /\ Head(t).shop \in Shop
    BY <2>1, <2>2, OneLeft
  <2>3. UNCHANGED tables /\ IsFiniteSet(Held(u)')
    BY <1>g, <1>16, SameTables DEF Look
  <2>f. IsFiniteSet(Held(u)')
    BY <2>3
  <2> DEFINE r == row[Head(t).shop]
             serves == Head(t).seat /\ g < Total(m)
  <2>4. \/ Managed(u, r) /\ serves /\ Goto(c, "look", "grant") /\ UNCHANGED <<call, mine, had,
           todo, granted>>
        \/ Managed(u, r) /\ PaidBy(u, r) /\ Goto(c, "look", "revoke") /\ UNCHANGED <<call, mine,
           had, todo, granted>>
        \/ ~(Managed(u, r) /\ (serves \/ PaidBy(u, r))) /\ Visited(c, "look", 0)
    BY <2>1, <1>16 DEF Look
  <2>5. LoopInv(u, m, t, g)'
    BY <2>2, <2>3 DEF LoopInv, Given, Held, Linked, AsPlanned, tables
  <2>6. ASSUME UNCHANGED <<call, mine, todo, granted>>
        PROVE  /\ acct'[c] = u /\ LoopInv(acct[c], mine[c], todo[c], granted[c])'
                  /\ todo'[c] = t /\ granted'[c] = g
               /\ mine'[c] = m /\ \A s \in Held(u)' : Linked(u, s)'
    <3>1. acct'[c] = u /\ todo'[c] = t /\ granted'[c] = g /\ mine'[c] = m
      BY <2>1, <2>6 DEF call
    <3>2. \A s \in Held(u)' : Linked(u, s)'
      BY <2>5 DEF LoopInv
    <3>. QED
      BY <2>5, <3>1, <3>2, LoopStays
  <2>7. CASE Managed(u, r) /\ serves /\ Goto(c, "look", "grant") /\ UNCHANGED <<call, mine, had,
      todo, granted>>
    <3>1. pc'[c] = "grant" /\ Managed(u, row'[Head(t).shop])
      BY <1>t, <2>3, <2>7 DEF Goto, CallsOK, tables
    <3>2. (Managed(u, row[Head(todo[c]).shop]))' /\ Total(mine[c])' = Total(m)
      BY <2>6, <2>7, <3>1 DEF Managed, Total, Active
    <3>. QED
      BY <2>2, <2>6, <2>7, <3>1, <3>2 DEF FineAt, OfAccount, Managed
  <2>8. CASE Managed(u, r) /\ PaidBy(u, r) /\ Goto(c, "look", "revoke") /\ UNCHANGED <<call,
      mine, had, todo, granted>>
    <3>1. pc'[c] = "revoke" /\ PaidBy(u, row'[Head(t).shop])
      BY <1>t, <2>3, <2>8 DEF Goto, CallsOK, tables
    <3>. QED
      BY <2>2, <2>6, <2>8, <3>1 DEF FineAt, OfAccount, PaidBy
  <2>q. ASSUME Visited(c, "look", 0), ~(Managed(u, r) /\ (serves \/ PaidBy(u, r)))
        PROVE  G
    <3>1. LoopInv(u, m, Tail(t), g)' /\ g \in Nat
      <4>1. Head(t).shop \notin Held(u)
        BY <2>q DEF Held, Managed, PaidBy
      <4>2. Held(u)' = Held(u) /\ \A s \in Held(u)' : row'[s] = row[s]
        BY <2>3, SameTables DEF tables
      <4>3. /\ plan'[u] = plan[u] /\ links'[u] = links[u] /\ seat'[u] = seat[u]
            /\ Held(u)' \subseteq Held(u) \ {Head(t).shop}
        BY <2>3, <4>1, <4>2 DEF tables
      <4>. QED
        BY <1>t, <1>g, <2>1, <2>2, <4>2, <4>3, TurnWithout
    <3>3. CASE Len(t) = 1
      <4>1. Tail(t) = <<>>
        BY <2>1, <2>2, <3>3, OneLeft
      <4>2. Owed(u, Held(u))'
        BY <2>1, <2>f, <3>1, <4>1, LoopEnds
      <4>3. pc'[c] = "idle"
        BY <1>t, <2>1, <2>q, <3>3 DEF Visited, End, Goto, CallsOK
      <4>. QED
        BY <4>2, <4>3 DEF FineAt, OfAccount
    <3>4. CASE Len(t) # 1
      <4>1. Tail(t) # <<>>
        BY <2>1, <2>2, <3>4, OneLeft
      <4>2. /\ pc'[c] = "look" /\ todo'[c] = Tail(t) /\ granted'[c] = g /\ acct'[c] = u
          /\ mine'[c] = m
        BY <1>t, <2>1, <2>q, <3>1, <3>4 DEF Visited, Goto, CallsOK, ReadsOK, call
      <4>3. LoopInv(acct[c], mine[c], todo[c], granted[c])'
        BY <3>1, <4>2, LoopStays
      <4>4. \A s \in Held(u)' : Linked(u, s)'
        BY <3>1 DEF LoopInv
      <4>. QED
        BY <4>1, <4>2, <4>3, <4>4 DEF FineAt, OfAccount
    <3>. QED
      BY <3>3, <3>4
  <2>. QED
    BY <2>4, <2>7, <2>8, <2>q
<1>17. ASSUME Grant(c) PROVE G
  <2>1. PICK t \in Seq(Link), g \in Nat, m \in Plan : t = todo[c] /\ g = granted[c] /\ m = mine[c]
    BY <1>t, ConstantsAssumption DEF ReadsOK
  <2>2. t # <<>> /\ LoopInv(u, m, t, g)
    BY <1>x, <2>1, <1>17 DEF Grant, FineAt
  <2>h. Head(t) \in Link /\ Head(t).shop \in Shop
    BY <2>1, <2>2, OneLeft
  <2>3. /\ UNCHANGED <<plan, links, seat>>
        /\ row' = [row EXCEPT ![Head(t).shop] = [state |-> m.state, grace |-> m.grace, tag |-> u]]
    BY <2>1, <1>17 DEF Grant
  <2>f. IsFiniteSet(Held(u)')
    <3>1. PICK s \in Shop : s = Head(t).shop
      BY <2>h
    <3>2. Held(u)' = Held(u) \cup {s} \/ Held(u)' = Held(u) \ {s}
      BY <1>t, <2>3, <3>1, HeldMoves
    <3>. QED
      BY SMTT(40), <1>g, <3>2, FS_AddElement, FS_RemoveElement
  <2>q. ASSUME Visited(c, "grant", 1)
        PROVE  G
    <3>1. LoopInv(u, m, Tail(t), g + 1)' /\ g + 1 \in Nat
      <4>1. Head(t).seat /\ g < Total(m)
        BY <1>x, <2>1, <1>17 DEF Grant, FineAt
      <4>2. plan'[u] = plan[u] /\ links'[u] = links[u] /\ seat'[u] = seat[u] /\ g + 1 \in Nat
        BY <2>1, <2>3
      <4>. QED
        BY <1>t, <1>g, <2>1, <2>2, <2>3, <2>h, <4>1, <4>2, TurnWith
    <3>3. CASE Len(t) = 1
      <4>1. Tail(t) = <<>>
        BY <2>1, <2>2, <3>3, OneLeft
      <4>2. Owed(u, Held(u))'
        BY <2>1, <2>f, <3>1, <4>1, LoopEnds
      <4>3. pc'[c] = "idle"
        BY <1>t, <2>1, <2>q, <3>3 DEF Visited, End, Goto, CallsOK
      <4>. QED
        BY <4>2, <4>3 DEF FineAt, OfAccount
    <3>4. CASE Len(t) # 1
      <4>1. Tail(t) # <<>>
        BY <2>1, <2>2, <3>4, OneLeft
      <4>2. /\ pc'[c] = "look" /\ todo'[c] = Tail(t) /\ granted'[c] = g + 1 /\ acct'[c] = u
          /\ mine'[c] = m
        BY <1>t, <2>1, <2>q, <3>1, <3>4 DEF Visited, Goto, CallsOK, ReadsOK, call
      <4>3. LoopInv(acct[c], mine[c], todo[c], granted[c])'
        BY <3>1, <4>2, LoopStays
      <4>4. \A s \in Held(u)' : Linked(u, s)'
        BY <3>1 DEF LoopInv
      <4>. QED
        BY <4>1, <4>2, <4>3, <4>4 DEF FineAt, OfAccount
    <3>. QED
      BY <3>3, <3>4
  <2>. QED
    BY <2>q, <2>1, <1>17 DEF Grant
<1>18. ASSUME Revoke(c) PROVE G
  <2>1. PICK t \in Seq(Link), g \in Nat, m \in Plan : t = todo[c] /\ g = granted[c] /\ m = mine[c]
    BY <1>t, ConstantsAssumption DEF ReadsOK
  <2>2. t # <<>> /\ LoopInv(u, m, t, g)
    BY <1>x, <2>1, <1>18 DEF Revoke, FineAt
  <2>h. Head(t) \in Link /\ Head(t).shop \in Shop
    BY <2>1, <2>2, OneLeft
  <2>3. /\ UNCHANGED <<plan, links, seat>>
        /\ row' = [row EXCEPT ![Head(t).shop] = FreeRow]
    BY <2>1, <1>18 DEF Revoke
  <2>4. Held(u)' = Held(u) \ {Head(t).shop} /\ \A s \in Held(u)' : row'[s] = row[s]
    <3>1. ~PaidBy(u, FreeRow)
      BY DEF PaidBy, FreeRow
    <3>2. PICK s \in Shop : s = Head(t).shop
      BY <2>h
    <3>3. Held(u)' = Held(u) \ {s} /\ \A x \in Shop \ {s} : row'[x] = row[x]
      BY <1>t, <2>3, <3>1, <3>2, HeldMoves
    <3>4. Held(u) \subseteq Shop
      BY DEF Held
    <3>. QED
      BY <3>2, <3>3, <3>4, <3>1, <3>2, <3>3
  <2>f. IsFiniteSet(Held(u)')
    <3>1. PICK s \in Shop : s = Head(t).shop
      BY <2>h
    <3>2. Held(u)' = Held(u) \ {s}
      BY <2>4, <3>1
    <3>3. PICK H : H = Held(u)
      OBVIOUS
    <3>4. IsFiniteSet(H \ {s})
      BY <1>g, <3>3, FS_RemoveElement
    <3>. QED
      BY <3>2, <3>3, <3>4
  <2>q. ASSUME Visited(c, "revoke", 0)
        PROVE  G
    <3>1. LoopInv(u, m, Tail(t), g)' /\ g \in Nat
      BY <1>t, <1>g, <2>1, <2>2, <2>3, <2>4, TurnWithout
    <3>3. CASE Len(t) = 1
      <4>1. Tail(t) = <<>>
        BY <2>1, <2>2, <3>3, OneLeft
      <4>2. Owed(u, Held(u))'
        BY <2>1, <2>f, <3>1, <4>1, LoopEnds
      <4>3. pc'[c] = "idle"
        BY <1>t, <2>1, <2>q, <3>3 DEF Visited, End, Goto, CallsOK
      <4>. QED
        BY <4>2, <4>3 DEF FineAt, OfAccount
    <3>4. CASE Len(t) # 1
      <4>1. Tail(t) # <<>>
        BY <2>1, <2>2, <3>4, OneLeft
      <4>2. /\ pc'[c] = "look" /\ todo'[c] = Tail(t) /\ granted'[c] = g /\ acct'[c] = u
          /\ mine'[c] = m
        BY <1>t, <2>1, <2>q, <3>1, <3>4 DEF Visited, Goto, CallsOK, ReadsOK, call
      <4>3. LoopInv(acct[c], mine[c], todo[c], granted[c])'
        BY <3>1, <4>2, LoopStays
      <4>4. \A s \in Held(u)' : Linked(u, s)'
        BY <3>1 DEF LoopInv
      <4>. QED
        BY <4>1, <4>2, <4>3, <4>4 DEF FineAt, OfAccount
    <3>. QED
      BY <3>3, <3>4
  <2>. QED
    BY <2>q, <2>1, <1>18 DEF Revoke
<1>19. ASSUME Sync(c) PROVE G
  BY <1>p, <1>u, <1>19 DEF Sync, End, Goto, PlaceInv, OfAccount
<1>20. ASSUME AskShopify(c) PROVE G
  BY <1>p, <1>u, <1>20 DEF AskShopify, End, Goto, PlaceInv, OfAccount
<1>21. ASSUME Bill(c) PROVE G
  BY <1>p, <1>u, <1>21 DEF Bill, End, Goto, PlaceInv, OfAccount
<1>22. ASSUME Unbill(c) PROVE G
  BY <1>p, <1>u, <1>22 DEF Unbill, End, Goto, PlaceInv, OfAccount
<1>. QED
  BY <1>1, <1>2, <1>3, <1>4, <1>5, <1>6, <1>7, <1>8, <1>9, <1>10, <1>11, <1>12, <1>13, <1>14, <1>15,
     <1>16, <1>17, <1>18, <1>19, <1>20, <1>21, <1>22 DEF Step

\* A step of a call writes no plan, link or seat but its account's, and no row that another
\* account holds: it takes back rows of its own, or gives its name to one that is free.
LEMMA OthersKept ==
  ASSUME SeatsInv, NEW c \in Call, NEW v \in Account, acct[c] # v, Step(c)
  PROVE  /\ plan'[v] = plan[v] /\ links'[v] = links[v] /\ seat'[v] = seat[v]
         /\ Held(v)' \subseteq Held(v) /\ \A s \in Held(v)' : row'[s] = row[s]
<1>t. TablesOK
  BY TypeParts DEF SeatsInv
<1>p. PlaceInv(c) /\ FineAt(c)
  BY DEF SeatsInv
<1>r. ReadsOK
  BY TypeParts DEF SeatsInv
<1> DEFINE H == Held(v)' \subseteq Held(v) /\ \A s \in Held(v)' : row'[s] = row[s]
           K == plan'[v] = plan[v] /\ links'[v] = links[v] /\ seat'[v] = seat[v]
<1>0. ASSUME UNCHANGED row PROVE H
  BY <1>0 DEF Held
<1>a. ASSUME NEW s \in Shop, NEW r, row' = [row EXCEPT ![s] = r], r.tag # v \/ r.state = "FREE"
      PROVE  H
  <2>1. ~PaidBy(v, r)
    BY <1>a DEF PaidBy
  <2>2. Held(v)' = Held(v) \ {s} /\ \A x \in Shop \ {s} : row'[x] = row[x]
    BY <1>t, <1>a, <2>1, HeldMoves
  <2>3. Held(v) \subseteq Shop
    BY DEF Held
  <2>. QED
    BY <2>2, <2>3
<1>f. FreeRow.state = "FREE"
  BY DEF FreeRow
<1>1. ASSUME ReadUser(c) PROVE H /\ K
  BY <1>0, <1>1 DEF ReadUser, tables
<1>2. ASSUME AddLink(c) PROVE H /\ K
  <2>1. UNCHANGED row /\ K
    BY <1>t, <1>2 DEF AddLink, TablesOK
  <2>. QED
    BY <1>0, <2>1
<1>3. ASSUME Find(c) PROVE H /\ K
  BY <1>0, <1>3 DEF Find, End, Goto, tables
<1>4. ASSUME CheckActive(c) PROVE H /\ K
  BY <1>0, <1>4 DEF CheckActive, tables
<1>5. ASSUME Usage(c) PROVE H /\ K
  BY <1>0, <1>5 DEF Usage, tables
<1>6. ASSUME Count(c) PROVE H /\ K
  BY <1>0, <1>6 DEF Count, tables
<1>7. ASSUME List(c) PROVE H /\ K
  BY <1>0, <1>7 DEF List, tables
<1>8. ASSUME Fill(c) PROVE H /\ K
  <2>1. UNCHANGED row /\ K
    BY <1>t, <1>8 DEF Fill, TablesOK
  <2>. QED
    BY <1>0, <2>1
<1>9. ASSUME Mark(c) PROVE H /\ K
  <2>1. UNCHANGED row /\ K
    BY <1>t, <1>9 DEF Mark, TablesOK
  <2>. QED
    BY <1>0, <2>1
<1>10. ASSUME RemoveLink(c) PROVE H /\ K
  <2>1. UNCHANGED row /\ K
    BY <1>t, <1>10 DEF RemoveLink, TablesOK
  <2>. QED
    BY <1>0, <2>1
<1>11. ASSUME Release(c) PROVE H /\ K
  BY <1>0, <1>11 DEF Release, tables
<1>12. ASSUME Free(c) PROVE H /\ K
  <2>1. PICK s \in Shop : s = shop[c]
    BY <1>p, <1>12 DEF Free, End, Goto, PlaceInv, OfSeats
  <2>2. row' = [row EXCEPT ![s] = FreeRow] /\ K
    BY <2>1, <1>12 DEF Free
  <2>. QED
    BY <1>a, <1>f, <2>1, <2>2
<1>13. ASSUME UpdatePlan(c) PROVE H /\ K
  <2>1. UNCHANGED row /\ K
    BY <1>t, <1>13 DEF UpdatePlan, TablesOK
  <2>. QED
    BY <1>0, <2>1
<1>14. ASSUME Apply(c) PROVE H /\ K
  BY <1>0, <1>14 DEF Apply, tables
<1>15. ASSUME ReadLinks(c) PROVE H /\ K
  BY <1>0, <1>15 DEF ReadLinks, tables
<1>16. ASSUME Look(c) PROVE H /\ K
  BY <1>0, <1>16 DEF Look, tables
<1>17. ASSUME Grant(c) PROVE H /\ K
  <2>1. PICK t \in Seq(Link) : t = todo[c] /\ t # <<>>
    BY <1>r, <1>p, <1>17 DEF Grant, ReadsOK, FineAt
  <2>2. PICK s \in Shop : s = Head(todo[c]).shop
    BY <2>1, OneLeft
  <2>3. PICK r : r = [state |-> mine[c].state, grace |-> mine[c].grace, tag |-> acct[c]]
    OBVIOUS
  <2>4. row' = [row EXCEPT ![s] = r] /\ K /\ (r.tag # v \/ r.state = "FREE")
    BY <1>f, <2>2, <2>3, <1>17 DEF Grant
  <2>. QED
    BY <1>a, <2>4
<1>18. ASSUME Revoke(c) PROVE H /\ K
  <2>1. PICK t \in Seq(Link) : t = todo[c] /\ t # <<>>
    BY <1>r, <1>p, <1>18 DEF Revoke, ReadsOK, FineAt
  <2>2. PICK s \in Shop : s = Head(todo[c]).shop
    BY <2>1, OneLeft
  <2>3. PICK r : r = FreeRow
    OBVIOUS
  <2>4. row' = [row EXCEPT ![s] = r] /\ K /\ (r.tag # v \/ r.state = "FREE")
    BY <1>f, <2>2, <2>3, <1>18 DEF Revoke
  <2>. QED
    BY <1>a, <2>4
<1>19. ASSUME Sync(c) PROVE H /\ K
  BY <1>0, <1>19 DEF Sync, tables
<1>20. ASSUME AskShopify(c) PROVE H /\ K
  BY <1>0, <1>20 DEF AskShopify, tables
<1>21. ASSUME Bill(c) PROVE H /\ K
  <2>1. PICK s \in Shop : s = shop[c]
    BY <1>p, <1>21 DEF Bill, End, Goto, PlaceInv, OfSeats
  <2>2. row' = [row EXCEPT ![s] = [state |-> "ACTIVE", grace |-> FALSE, tag |-> "shopify"]] /\ K
    BY <2>1, <1>21 DEF Bill
  <2>3. [state |-> "ACTIVE", grace |-> FALSE, tag |-> "shopify"].tag # v
    BY ConstantsAssumption
  <2>. QED
    BY <1>a, <1>f, <2>1, <2>2, <2>3
<1>22. ASSUME Unbill(c) PROVE H /\ K
  <2>1. PICK s \in Shop : s = shop[c]
    BY <1>p, <1>22 DEF Unbill, End, Goto, PlaceInv, OfSeats
  <2>2. row' = [row EXCEPT ![s] = FreeRow] /\ K
    BY <2>1, <1>22 DEF Unbill
  <2>. QED
    BY <1>a, <1>f, <2>1, <2>2
<1>. QED
  BY <1>1, <1>2, <1>3, <1>4, <1>5, <1>6, <1>7, <1>8, <1>9, <1>10, <1>11, <1>12, <1>13, <1>14, <1>15,
     <1>16, <1>17, <1>18, <1>19, <1>20, <1>21, <1>22 DEF Step

\* Seats and held shops stay finitely many.
LEMMA FiniteStep ==
  ASSUME SeatsInv, NEW c \in Call, NEW u \in Account, Step(c)
  PROVE  IsFiniteSet(seat[u])' /\ IsFiniteSet(Held(u))'
<1>t. TablesOK /\ CallsOK /\ ReadsOK
  BY TypeParts DEF SeatsInv
<1>p. PlaceInv(c) /\ FineAt(c)
  BY DEF SeatsInv
<1>g. IsFiniteSet(seat[u]) /\ IsFiniteSet(Held(u))
  BY DEF SeatsInv, Finite
<1>1. IsFiniteSet(seat'[u])
  <2>1. (\E s : seat'[u] = seat[u] \cup {s} \/ seat'[u] = seat[u] \ {s}) \/ seat'[u] = seat[u]
    <3>1. ASSUME NEW a \in Account, NEW s,
        seat' = [seat EXCEPT ![a] = @ \cup {s}] \/ seat' = [seat EXCEPT ![a] = @ \ {s}]
          PROVE  (\E x : seat'[u] = seat[u] \cup {x} \/ seat'[u] = seat[u] \ {x}) \/ seat'[u] = seat[u]
      BY <1>t, <3>1 DEF TablesOK
    <3>2. pc[c] \in OfAccount => acct[c] \in Account
      BY <1>p DEF PlaceInv
    <3>3. CASE Fill(c)
      <4>1. UNCHANGED seat \/ seat' = [seat EXCEPT ![acct[c]] = @ \cup {Head(todo[c]).shop}]
        BY <3>3 DEF Fill
      <4>. QED
        BY <3>1, <3>2, <3>3, <4>1 DEF Fill, OfAccount
    <3>4. CASE Mark(c)
      <4>1. UNCHANGED seat \/ seat' = [seat EXCEPT ![acct[c]] = @ \cup {shop[c]}] \/ seat' = [seat EXCEPT ![acct[c]] = @ \ {shop[c]}]
        BY <3>4 DEF Mark
      <4>. QED
        BY <3>1, <3>2, <3>4, <4>1 DEF Mark, Goto, OfAccount
    <3>5. CASE RemoveLink(c)
      <4>1. seat' = [seat EXCEPT ![acct[c]] = @ \ {shop[c]}]
        BY <3>5 DEF RemoveLink
      <4>. QED
        BY <3>1, <3>2, <3>5, <4>1 DEF RemoveLink, Goto, OfAccount
    <3>6. ASSUME ~Fill(c), ~Mark(c), ~RemoveLink(c) PROVE UNCHANGED seat
      BY <3>6 DEF Step, ReadUser, AddLink, Find, CheckActive, Usage, Count, List, Release, Free,
         UpdatePlan,
         Apply, ReadLinks, Look, Grant, Revoke, Sync, AskShopify, Bill, Unbill, tables
    <3>. QED
      BY <3>3, <3>4, <3>5, <3>6
  <2>. QED
    BY <1>g, <2>1, FS_AddElement, FS_RemoveElement
<1>2. IsFiniteSet(Held(u)')
  <2>1. (\E s : Held(u)' = Held(u) \cup {s} \/ Held(u)' = Held(u) \ {s}) \/ Held(u)' = Held(u)
    <3>1. ASSUME NEW s \in Shop, NEW r, row' = [row EXCEPT ![s] = r]
          PROVE  \E x : Held(u)' = Held(u) \cup {x} \/ Held(u)' = Held(u) \ {x}
      BY <1>t, <3>1, HeldMoves
    <3>2. ASSUME UNCHANGED row PROVE Held(u)' = Held(u)
      BY <3>2 DEF Held
    <3>3. CASE Grant(c) \/ Revoke(c)
      <4>1. PICK t \in Seq(Link) : t = todo[c] /\ t # <<>>
        BY <1>t, <1>p, <3>3 DEF Grant, Revoke, ReadsOK, FineAt
      <4>2. PICK s \in Shop : s = Head(todo[c]).shop
        BY <4>1, OneLeft
      <4>3. \E r : row' = [row EXCEPT ![s] = r]
        BY <3>3, <4>2 DEF Grant, Revoke
      <4>. QED
        BY <3>1, <4>3
    <3>4. CASE Free(c) \/ Bill(c) \/ Unbill(c)
      <4>1. PICK s \in Shop : s = shop[c]
        BY <1>p, <3>4 DEF Free, Bill, Unbill, End, Goto, PlaceInv, OfSeats
      <4>2. \E r : row' = [row EXCEPT ![s] = r]
        BY <3>4, <4>1 DEF Free, Bill, Unbill
      <4>. QED
        BY <3>1, <4>2
    <3>5. ASSUME ~(Grant(c) \/ Revoke(c)), ~(Free(c) \/ Bill(c) \/ Unbill(c)) PROVE UNCHANGED row
      BY <3>5 DEF Step, ReadUser, AddLink, Find, CheckActive, Usage, Count, List, Release, Fill,
         Mark, RemoveLink, UpdatePlan,
         Apply, ReadLinks, Look, Sync, AskShopify, tables
    <3>. QED
      BY <3>2, <3>3, <3>4, <3>5
  <2>. QED
    BY <1>g, <2>1, FS_AddElement, FS_RemoveElement
<1>. QED
  BY <1>1, <1>2

\* What happens outside, or asking for something, while no call is in progress.
LEMMA OutsideStep ==
  ASSUME SeatsInv, Quiet, NEW v \in Account, Outside
  PROVE  Owed(v, Held(v))' /\ IsFiniteSet(Held(v))' /\ UNCHANGED <<seat, pc, call>>
<1>t. TablesOK /\ Owed(v, Held(v)) /\ IsFiniteSet(Held(v))
  <2>1. \A c \in Call : acct[c] # v
    BY ConstantsAssumption DEF SeatsInv, Quiet, PlaceInv, OfAccount
  <2>. QED
    BY <2>1, TypeParts DEF SeatsInv, Finite
<1>1. ASSUME NEW x \in Account \cup {"freemius"}, GraceEnds(x)
      PROVE  Owed(v, Held(v))' /\ IsFiniteSet(Held(v))'
  <2>1. /\ plan'[v] = IF v = x THEN [plan[v] EXCEPT !.grace = FALSE] ELSE plan[v]
        /\ UNCHANGED <<links, seat>>
        /\ \A s \in Shop : row'[s] = IF row[s].tag = x THEN [row[s] EXCEPT !.grace = FALSE] ELSE row[s]
    BY <1>1 DEF GraceEnds
  <2>2. \A s \in Shop : row[s] \in Row /\ plan[v] \in Plan
    BY <1>t DEF TablesOK
  <2>3. \A s \in Shop : PaidBy(v, row'[s]) <=> PaidBy(v, row[s])
    BY <2>1, <2>2 DEF PaidBy, Row
  <2>4. Held(v)' = Held(v)
    BY <2>3 DEF Held, PaidBy
  <2>5. plan'[v].seats = plan[v].seats /\ SeatsOf(plan[v])' = SeatsOf(plan[v])
    BY <2>1, <2>2 DEF Plan, SeatsOf
  <2>6. ASSUME NEW s \in Held(v) PROVE Linked(v, s)' /\ s \in seat'[v] /\ AsPlanned(v, s)'
    <3>1. Linked(v, s) /\ s \in seat[v] /\ AsPlanned(v, s) /\ s \in Shop /\ row[s].tag = v
      BY <1>t, <2>6 DEF Owed, Held, PaidBy
    <3>2. Linked(v, s)' /\ s \in seat'[v]
      BY <2>1, <3>1 DEF Linked
    <3>3. AsPlanned(v, s)'
      <4>1. CASE x = v
        <5>1. plan'[v] = [plan[v] EXCEPT !.grace = FALSE]
            /\ row'[s] = [row[s] EXCEPT !.grace = FALSE]
          BY <2>1, <3>1, <4>1
        <5>2. plan'[v].state = plan[v].state /\ plan'[v].grace = FALSE
            /\ row'[s].state = row[s].state /\ row'[s].grace = FALSE
          BY <2>2, <3>1, <5>1 DEF Row, Plan
        <5>. QED
          BY <3>1, <5>2 DEF AsPlanned
      <4>2. CASE x # v
        BY <2>1, <3>1, <4>2 DEF AsPlanned
      <4>. QED
        BY <4>1, <4>2
    <3>. QED
      BY <3>2, <3>3
  <2>7. Cardinality(Held(v)) <= SeatsOf(plan[v])
    BY <1>t DEF Owed
  <2>. QED
    BY <1>t, <2>4, <2>5, <2>6, <2>7 DEF Owed
<1>2. ASSUME NEW s \in Shop, Subscription(s) PROVE Owed(v, Held(v))' /\ IsFiniteSet(Held(v))'
  BY <1>t, <1>2, SameTables DEF Subscription
<1>3. ASSUME NEW s \in Shop, License(s) PROVE Owed(v, Held(v))' /\ IsFiniteSet(Held(v))'
  <2>1. PICK r : row' = [row EXCEPT ![s] = r] /\ (r.tag = "freemius" \/ r.state = "FREE")
    <3>1. PICK r \in {[state |-> "ACTIVE", grace |-> FALSE, tag |-> "freemius"],
               [state |-> "LAPSED", grace |-> TRUE, tag |-> "freemius"],
               [state |-> "LAPSED", grace |-> FALSE, tag |-> "freemius"],
                   FreeRow} : row' = [row EXCEPT ![s] = r]
      BY <1>3 DEF License
    <3>2. r.tag = "freemius" \/ r.state = "FREE"
      BY <3>1 DEF FreeRow
    <3>. QED
      BY <3>1, <3>2
  <2>2. ~PaidBy(v, r)
    BY <2>1, ConstantsAssumption DEF PaidBy
  <2>3. Held(v)' = Held(v) \ {s} /\ \A x \in Shop \ {s} : row'[x] = row[x]
    BY <1>t, <2>1, <2>2, HeldMoves
  <2>4. Held(v) \subseteq Shop
    BY DEF Held
  <2>5. PICK I \in SUBSET Held(v) : I = Held(v)'
    BY <2>3
  <2>6. Owed(v, I)'
    BY <1>t, <1>3, <2>3, <2>4, <2>5, OwedShrinks DEF License
  <2>7. IsFiniteSet(Held(v)')
    BY <1>t, <2>3, FS_RemoveElement
  <2>. QED
    BY <2>5, <2>6, <2>7 DEF Owed
<1>4. UNCHANGED <<seat, pc, call>>
  BY DEF Outside, GraceEnds, Subscription, License, tables
<1>. QED
  BY <1>1, <1>2, <1>3, <1>4 DEF Outside

\* A call that begins finds its account as it should be.
LEMMA AskStep ==
  ASSUME SeatsInv, Quiet, NEW c \in Call, Ask(c)
  PROVE  UNCHANGED tables /\ FineAt(c)'
<1>1. UNCHANGED tables
  BY DEF Ask, Begin
<1>2. CallsOK
  BY TypeParts DEF SeatsInv
<1>3. ASSUME NEW u \in Account PROVE Owed(u, Held(u))' /\ \A s \in Held(u)' : Linked(u, s)'
  <2>1. \A d \in Call : acct[d] # u
    BY ConstantsAssumption DEF SeatsInv, Quiet, PlaceInv, OfAccount
  <2>2. Owed(u, Held(u))'
    BY <1>1, <2>1, SameTables DEF SeatsInv
  <2>. QED
    BY <2>2 DEF Owed
<1>4. ASSUME NEW u \in Account, acct'[c] = u, pc'[c] \in {"user", "find", "plan"} PROVE FineAt(c)'
  BY <1>3, <1>4 DEF FineAt, OfAccount
<1>5. CASE \E u \in Account : acct'[c] = u /\ pc'[c] \in {"user", "find", "plan"}
  <2>1. PICK u \in Account : acct'[c] = u /\ pc'[c] \in {"user", "find", "plan"}
    BY <1>5
  <2>. QED
    BY <1>1, <1>4, <2>1
<1>6. CASE pc'[c] = "sync"
  BY <1>1, <1>6 DEF FineAt, OfAccount
<1>7. (\E u \in Account : acct'[c] = u /\ pc'[c] \in {"user", "find", "plan"}) \/ pc'[c] = "sync"
  BY <1>2 DEF Ask, Begin, Goto, CallsOK
<1>. QED
  BY <1>1, <1>5, <1>6, <1>7

\* A call that is nowhere owes nothing.
LEMMA Idle ==
  ASSUME NEW d, pc'[d] = "idle"
  PROVE  FineAt(d)'
  BY DEF FineAt, OfAccount

\* Only the call that takes a step is anywhere, before it and after it.
LEMMA OneActs ==
  ASSUME SeatsInv, NEW c \in Call, Step(c) \/ (Quiet /\ Ask(c))
  PROVE  /\ \A d \in Call \ {c} : pc[d] = "idle" /\ pc'[d] = "idle" /\ acct[d] = NoAccount
         /\ acct[c] = NoAccount /\ Step(c) => pc'[c] \in {"idle", "ask", "bill", "unbill"}
<1>t. CallsOK /\ Alone /\ \A d \in Call : PlaceInv(d)
  BY TypeParts DEF SeatsInv
<1>1. pc[c] # "idle" \/ Quiet
  BY DEF Step, ReadUser, AddLink, Find, CheckActive, Usage, Count, List, Fill, Mark, RemoveLink,
     Release, Free,
     UpdatePlan, Apply, ReadLinks, Look, Grant, Revoke, Sync, AskShopify, Bill, Unbill, End, Goto
<1>2. \E x : pc' = [pc EXCEPT ![c] = x] \/ pc' = pc
  BY DEF Step, ReadUser, AddLink, Find, CheckActive, Usage, Count, List, Fill, Mark, RemoveLink,
     Release, Free,
     UpdatePlan, Apply, ReadLinks, Look, Grant, Revoke, Sync, AskShopify, Bill, Unbill, Visited,
         End, Goto, Ask, Begin
<1>3. \A d \in Call \ {c} : pc[d] = "idle"
  BY <1>t, <1>1 DEF Alone, Quiet
<1>4. \A d \in Call \ {c} : pc'[d] = "idle" /\ acct[d] = NoAccount
  BY <1>t, <1>2, <1>3 DEF CallsOK, PlaceInv, OfAccount
<1>5. ASSUME acct[c] = NoAccount, Step(c) PROVE pc'[c] \in {"idle", "ask", "bill", "unbill"}
  <2>1. pc[c] \notin OfAccount
    BY <1>t, <1>5, ConstantsAssumption DEF PlaceInv
  <2>. QED
    BY <1>t, <1>5, <2>1 DEF Step, ReadUser, AddLink, Find, CheckActive, Usage, Count, List, Fill,
       Mark, RemoveLink, Release, Free,
     UpdatePlan, Apply, ReadLinks, Look, Grant, Revoke, Sync, AskShopify, Bill, Unbill, End,
         Goto, OfAccount, CallsOK
<1>. QED
  BY <1>3, <1>4, <1>5

\* One call is in progress at a time.
LEMMA AloneStep ==
  ASSUME SeatsInv, [NextAlone]_vars
  PROVE  Alone'
<1>1. ASSUME NEW c \in Call, Step(c) \/ (Quiet /\ Ask(c)) PROVE Alone'
  BY <1>1, OneActs DEF Alone
<1>2. ASSUME UNCHANGED pc PROVE Alone'
  BY <1>2 DEF SeatsInv, Alone
<1>3. Outside \/ UNCHANGED vars => UNCHANGED pc
  BY DEF Outside, GraceEnds, Subscription, License, vars
<1>. QED
  BY <1>1, <1>2, <1>3 DEF NextAlone

\* What accounts are owed, while a call is at work and when none is, is kept.
LEMMA FineStep ==
  ASSUME SeatsInv, [NextAlone]_vars
  PROVE  /\ Finite' /\ \A d \in Call : FineAt(d)'
         /\ \A u \in Account : (\A d \in Call : acct'[d] # u) => Owed(u, Held(u))'
<1> DEFINE G == /\ Finite' /\ \A d \in Call : FineAt(d)'
                /\ \A u \in Account : (\A d \in Call : acct'[d] # u) => Owed(u, Held(u))'
<1>t. TablesOK /\ Finite /\ \A u \in Account : (\A d \in Call : acct[d] # u) => Owed(u, Held(u))
  BY TypeParts DEF SeatsInv
<1>1. ASSUME NEW c \in Call, Step(c) PROVE G
  <2>1. /\ \A d \in Call \ {c} : pc'[d] = "idle" /\ acct[d] = NoAccount
        /\ acct[c] = NoAccount => pc'[c] \in {"idle", "ask", "bill", "unbill"}
    BY <1>1, OneActs
  <2>2. ASSUME NEW d \in Call PROVE FineAt(d)'
    <3>1. CASE d # c
      BY <2>1, <3>1, Idle
    <3>2. CASE d = c /\ acct[c] \in Account
      BY <1>1, <3>2, OwnStep
    <3>3. CASE d = c /\ acct[c] = NoAccount
      <4>1. pc'[d] \in {"idle", "ask", "bill", "unbill"}
        BY <2>1, <3>3
      <4>. QED
        BY <4>1 DEF FineAt, OfAccount
    <3>. QED
      BY <3>1, <3>2, <3>3, TypeParts DEF SeatsInv, CallsOK
  <2>3. ASSUME NEW u \in Account, \A d \in Call : acct'[d] # u PROVE Owed(u, Held(u))'
    <3>1. CASE acct[c] = u
      BY <1>1, <2>3, <3>1, OwnStep
    <3>2. CASE acct[c] # u
      <4>1. Owed(u, Held(u))
        BY <1>t, <2>1, <3>2, ConstantsAssumption
      <4>2. PICK I \in SUBSET Held(u) : I = Held(u)'
        BY <1>1, <3>2, OthersKept
      <4>3. /\ plan'[u] = plan[u] /\ links'[u] = links[u] /\ seat'[u] = seat[u]
            /\ \A s \in I : row'[s] = row[s]
        BY <1>1, <3>2, <4>2, OthersKept
      <4>4. IsFiniteSet(Held(u)) /\ Held(u) \subseteq Shop
        BY <1>t DEF Finite, Held
      <4>5. Owed(u, I)'
        BY <1>t, <4>1, <4>3, <4>4, OwedShrinks
      <4>. QED
        BY <4>2, <4>5 DEF Owed
    <3>. QED
      BY <3>1, <3>2
  <2>4. Finite'
    BY <1>1, FiniteStep DEF Finite
  <2>. QED
    BY <2>2, <2>3, <2>4
<1>2. ASSUME NEW c \in Call, Quiet, Ask(c) PROVE G
  <2>1. UNCHANGED tables /\ FineAt(c)'
    BY <1>2, AskStep
  <2>2. \A d \in Call \ {c} : pc'[d] = "idle" /\ acct[d] = NoAccount
    BY <1>2, OneActs
  <2>3. \A d \in Call : FineAt(d)'
    BY <2>1, <2>2, Idle
  <2>4. \A d \in Call : acct[d] = NoAccount
    BY <1>2 DEF SeatsInv, Quiet, PlaceInv, OfAccount
  <2>5. \A u \in Account : Owed(u, Held(u))'
    BY <1>t, <2>1, <2>4, SameTables, ConstantsAssumption
  <2>6. Finite'
    BY <1>t, <2>1, SameTables DEF Finite, tables
  <2>. QED
    BY <2>3, <2>5, <2>6
<1>3. ASSUME Quiet, Outside PROVE G
  <2>1. \A v \in Account : Owed(v, Held(v))' /\ IsFiniteSet(Held(v))' /\ UNCHANGED <<seat, pc>>
    BY <1>3, OutsideStep
  <2>2. UNCHANGED <<seat, pc>>
    BY <1>3 DEF Outside, GraceEnds, Subscription, License, tables
  <2>3. \A d \in Call : FineAt(d)'
    BY <1>3, <2>2, Idle DEF Quiet
  <2>4. Finite'
    BY <1>t, <2>1, <2>2 DEF Finite
  <2>. QED
    BY <2>1, <2>3, <2>4
<1>4. ASSUME UNCHANGED vars PROVE G
  <2>1. UNCHANGED <<tables, pc, op, acct, shop, mine, todo, granted>>
    BY <1>4 DEF vars, call
  <2>2. \A d \in Call : FineAt(d)'
    <3>1. \A d \in Call : FineAt(d)
      BY DEF SeatsInv
    <3>2. ASSUME NEW d \in Call PROVE FineAt(d)'
      <4>1. PICK u, m, t, g, h : u = acct[d] /\ m = mine[d] /\ t = todo[d] /\ g = granted[d]
          /\ h = shop[d]
        OBVIOUS
      <4>2. acct'[d] = u /\ mine'[d] = m /\ todo'[d] = t /\ granted'[d] = g /\ shop'[d] = h
          /\ pc' = pc /\ op' = op
            /\ row' = row
        BY <2>1, <4>1 DEF tables
      <4>3. /\ Owed(u, Held(u)) => Owed(u, Held(u))'
            /\ Owed(u, Held(u) \ {h}) => Owed(u, Held(u) \ {h})'
            /\ Held(u)' = Held(u) /\ \A s : Linked(u, s)' = Linked(u, s)
        BY <2>1, SameTables
      <4>4. LoopInv(u, m, t, g) => LoopInv(u, m, t, g)'
        BY <2>1 DEF LoopInv, Given, Held, Linked, AsPlanned, tables
      <4>5. LoopInv(u, m, t, g)' => LoopInv(acct[d], mine[d], todo[d], granted[d])'
        BY <4>2, LoopStays
      <4>6. m = plan[u] => mine'[d] = plan'[u]
        BY <2>1, <4>2 DEF tables
      <4>7. FineAt(d)
        BY <3>1
      <4>8. (Total(mine[d]))' = Total(m) /\ (\A r : Managed(u, r)' = Managed(u, r) /\ PaidBy(u,
          r)' = PaidBy(u, r))
        BY <4>2 DEF Total, Active, Managed, PaidBy
      <4>9. /\ (Managed(acct[d], row[Head(todo[d]).shop]))' = Managed(u, row[Head(t).shop])
            /\ (PaidBy(acct[d], row[Head(todo[d]).shop]))' = PaidBy(u, row[Head(t).shop])
        BY <4>2 DEF Managed, PaidBy
      <4>10. \A s \in Held(acct[d])' : (\A x \in Held(u) : Linked(u, x)) => Linked(acct[d], s)'
        BY <4>2, <4>3
      <4>11. /\ (Owed(acct[d], Held(acct[d])))' = Owed(u, Held(u))'
             /\ (Owed(acct[d], Held(acct[d]) \ {shop[d]}))' = Owed(u, Held(u) \ {h})'
        BY <4>2
      <4>. QED
        BY <4>1, <4>2, <4>3, <4>4, <4>5, <4>6, <4>7, <4>8, <4>9, <4>10, <4>11 DEF FineAt
    <3>. QED
      BY <3>2
  <2>3. Finite'
    BY <1>t, <2>1, SameTables DEF Finite, tables
  <2>. QED
    BY <1>t, <2>1, <2>2, <2>3, SameTables
<1>. QED
  BY <1>1, <1>2, <1>3, <1>4 DEF NextAlone

-----------------------------------------------------------------------------
\* The inductive invariant holds in every state.
THEOREM SeatsInvariance == SpecAlone => []SeatsInv
<1>1. Init => SeatsInv
  <2>1. SUFFICES ASSUME Init PROVE SeatsInv
    OBVIOUS
  <2>2. TypeOK
    <3>1. NoPlan \in Plan /\ FreeRow \in Row /\ 0 \in 0 .. MaxSeats
      BY ConstantsAssumption DEF NoPlan, Plan, FreeRow, Row
    <3>. QED
      BY <2>1, <3>1 DEF Init, TypeOK
  <2>3. \A u \in Account : Held(u) = {} /\ seat[u] = {}
    BY <2>1 DEF Init, Held, PaidBy, FreeRow
  <2>4. Finite
    BY <2>3, FS_EmptySet DEF Finite
  <2>5. \A u \in Account : Owed(u, Held(u))
    <3>1. ASSUME NEW u \in Account PROVE SeatsOf(plan[u]) \in 1 .. MaxSeats /\ MaxSeats \in Nat
      BY <2>2, TypeParts, TotalType, ConstantsAssumption DEF TablesOK
    <3>. QED
      BY <2>3, <3>1, FS_EmptySet DEF Owed
  <2>6. Alone
    BY <2>1 DEF Init, Alone
  <2>7. \A c \in Call : PlaceInv(c)
    BY <2>1 DEF Init, PlaceInv, OfAccount, OfSeats
  <2>8. \A c \in Call : FineAt(c)
    BY <2>1 DEF Init, FineAt, OfAccount
  <2>. QED
    BY <2>2, <2>4, <2>5, <2>6, <2>7, <2>8 DEF SeatsInv
<1>2. SeatsInv /\ [NextAlone]_vars => SeatsInv'
  <2>1. SUFFICES ASSUME SeatsInv, [NextAlone]_vars PROVE SeatsInv'
    OBVIOUS
  <2>2. TypeOK'
    <3>1. TablesOK' /\ CallsOK' /\ ReadsOK'
      BY <2>1, TablesStep, CallsStep, ReadsStep
    <3>. QED
      BY <3>1 DEF TypeOK, TablesOK, CallsOK, ReadsOK
  <2>. QED
    BY <2>1, <2>2, AloneStep, PlaceStep, FineStep DEF SeatsInv
<1>. QED
  BY <1>1, <1>2, PTL DEF SpecAlone

\* Once no call is in progress, the shops an account's licence pays for have a seat of it, and are
\* no more than the licence has (applySeats, unlinkShop).
THEOREM PaidShopsHaveAPayer == SpecAlone => []EntitlementsSafe
<1>1. SeatsInv => EntitlementsSafe
  <2>1. SUFFICES ASSUME SeatsInv, Quiet, NEW u \in Account
        PROVE  LET served == {s \in Shop : row[s].tag = u /\ Active(row[s])} IN
               served \subseteq seat[u] /\ Cardinality(served) <= Total(plan[u])
    BY DEF EntitlementsSafe, NoUnpaidShop, SeatsInv
  <2> DEFINE served == {s \in Shop : row[s].tag = u /\ Active(row[s])}
  <2>2. Owed(u, Held(u)) /\ IsFiniteSet(Held(u))
    <3>1. \A c \in Call : acct[c] # u
      BY <2>1, ConstantsAssumption DEF SeatsInv, Quiet, PlaceInv, OfAccount
    <3>. QED
      BY <2>1, <3>1 DEF SeatsInv, Finite
  <2>3. served \in SUBSET Held(u)
    BY DEF Held, PaidBy, Active
  <2>4. served \subseteq seat[u]
    BY <2>2, <2>3 DEF Owed
  <2>5. Cardinality(served) <= Cardinality(Held(u)) /\ Cardinality(served) \in Nat
      /\ Cardinality(Held(u)) \in Nat
    BY <2>2, <2>3, FS_Subset, FS_CardinalityType
  <2>6. plan[u] \in Plan /\ SeatsOf(plan[u]) \in Nat /\ Total(plan[u]) \in Nat
    BY <2>1, TypeParts, TotalType, ConstantsAssumption DEF SeatsInv, TablesOK
  <2>7. CASE served = {}
    <3>1. Cardinality(served) = 0
      BY <2>7, FS_EmptySet
    <3>. QED
      BY <2>4, <2>6, <3>1
  <2>8. CASE served # {}
    <3>1. PICK s \in served : TRUE
      BY <2>8
    <3>2. AsPlanned(u, s) /\ Active(row[s])
      BY <2>2, <2>3, <3>1 DEF Owed
    <3>3. Active(plan[u])
      BY <3>2 DEF AsPlanned, Active
    <3>4. Total(plan[u]) = SeatsOf(plan[u])
      BY <3>3 DEF Total, SeatsOf
    <3>5. Cardinality(Held(u)) <= SeatsOf(plan[u])
      BY <2>2 DEF Owed
    <3>. QED
      BY <2>4, <2>5, <2>6, <3>4, <3>5
  <2>. QED
    BY <2>7, <2>8
<1>. QED
  BY <1>1, SeatsInvariance, PTL

-----------------------------------------------------------------------------
(* Rows under calls that overlap *)

\* Entitlements has rows for the shops, and calls that have each their place.
RowsOK == DOMAIN row = Shop /\ \A s \in Shop : "tag" \in DOMAIN row[s]
PlacesOK == DOMAIN pc = Call /\ DOMAIN op = Call /\ DOMAIN acct = Call /\ DOMAIN seen = Call
\* A call that writes a row next has read one that it may write.
ReadInv(c) ==
  /\ pc[c] \in OfAccount => op[c] # "sync"
  /\ pc[c] = "find" => op[c] \in {"seat", "unseat", "unlink"}
  /\ pc[c] \in {"sync", "ask", "bill", "unbill"} => op[c] = "sync"
  /\ pc[c] = "grant" => Managed(acct[c], seen[c])
  /\ pc[c] = "revoke" => PaidBy(acct[c], seen[c])
  /\ pc[c] = "free" => seen[c].tag = acct[c]
  /\ pc[c] = "bill" => Bills(seen[c])
  /\ pc[c] = "unbill" => Ends(seen[c])
\* The inductive invariant of rows that are read before and written after other steps.
RowsInv == RowsOK /\ PlacesOK /\ \A c \in Call : ReadInv(c)

\* The rows stay rows.
LEMMA RowsStep ==
  ASSUME RowsOK, [Next]_vars
  PROVE  RowsOK'
<1>1. ASSUME NEW c \in Call, Ask(c) PROVE RowsOK'
  BY <1>1 DEF Ask, Begin, Goto, tables, RowsOK, FreeRow
<1>2. ASSUME NEW c \in Call, ReadUser(c) PROVE RowsOK'
  BY <1>2 DEF ReadUser, Goto, tables, call, RowsOK, FreeRow
<1>3. ASSUME NEW c \in Call, AddLink(c) PROVE RowsOK'
  BY <1>3 DEF AddLink, Goto, tables, call, RowsOK, FreeRow
<1>4. ASSUME NEW c \in Call, Find(c) PROVE RowsOK'
  BY <1>4 DEF Find, End, Forget, Goto, tables, call, RowsOK, FreeRow
<1>5. ASSUME NEW c \in Call, CheckActive(c) PROVE RowsOK'
  BY <1>5 DEF CheckActive, End, Forget, Goto, tables, call, RowsOK, FreeRow
<1>6. ASSUME NEW c \in Call, Usage(c) PROVE RowsOK'
  BY <1>6 DEF Usage, Goto, tables, call, RowsOK, FreeRow
<1>7. ASSUME NEW c \in Call, Count(c) PROVE RowsOK'
  BY <1>7 DEF Count, End, Forget, Goto, tables, call, RowsOK, FreeRow
<1>8. ASSUME NEW c \in Call, List(c) PROVE RowsOK'
  BY <1>8 DEF List, Goto, tables, call, RowsOK, FreeRow
<1>9. ASSUME NEW c \in Call, Fill(c) PROVE RowsOK'
  BY <1>9 DEF Fill, Goto, tables, call, RowsOK, FreeRow
<1>10. ASSUME NEW c \in Call, Mark(c) PROVE RowsOK'
  BY <1>10 DEF Mark, Goto, tables, call, RowsOK, FreeRow
<1>11. ASSUME NEW c \in Call, RemoveLink(c) PROVE RowsOK'
  BY <1>11 DEF RemoveLink, Goto, tables, call, RowsOK, FreeRow
<1>12. ASSUME NEW c \in Call, Release(c) PROVE RowsOK'
  BY <1>12 DEF Release, End, Forget, Goto, tables, call, RowsOK, FreeRow
<1>13. ASSUME NEW c \in Call, Free(c) PROVE RowsOK'
  BY <1>13 DEF Free, End, Forget, Goto, tables, call, RowsOK, FreeRow
<1>14. ASSUME NEW c \in Call, UpdatePlan(c) PROVE RowsOK'
  BY <1>14 DEF UpdatePlan, Goto, tables, call, RowsOK, FreeRow
<1>15. ASSUME NEW c \in Call, Apply(c) PROVE RowsOK'
  BY <1>15 DEF Apply, Goto, tables, call, RowsOK, FreeRow
<1>16. ASSUME NEW c \in Call, ReadLinks(c) PROVE RowsOK'
  BY <1>16 DEF ReadLinks, End, Forget, Goto, tables, call, RowsOK, FreeRow
<1>17. ASSUME NEW c \in Call, Look(c) PROVE RowsOK'
  BY <1>17 DEF Look, Visited, End, Forget, Goto, tables, call, RowsOK, FreeRow
<1>18. ASSUME NEW c \in Call, Grant(c) PROVE RowsOK'
  BY <1>18 DEF Grant, Visited, End, Forget, Goto, tables, call, RowsOK, FreeRow
<1>19. ASSUME NEW c \in Call, Revoke(c) PROVE RowsOK'
  BY <1>19 DEF Revoke, Visited, End, Forget, Goto, tables, call, RowsOK, FreeRow
<1>20. ASSUME NEW c \in Call, Sync(c) PROVE RowsOK'
  BY <1>20 DEF Sync, Goto, tables, call, RowsOK, FreeRow
<1>21. ASSUME NEW c \in Call, AskShopify(c) PROVE RowsOK'
  BY <1>21 DEF AskShopify, End, Forget, Goto, tables, call, RowsOK, FreeRow
<1>22. ASSUME NEW c \in Call, Bill(c) PROVE RowsOK'
  BY <1>22 DEF Bill, End, Forget, Goto, tables, call, RowsOK, FreeRow
<1>23. ASSUME NEW c \in Call, Unbill(c) PROVE RowsOK'
  BY <1>23 DEF Unbill, End, Forget, Goto, tables, call, RowsOK, FreeRow
<1>24. ASSUME NEW x \in Account \cup {"freemius"}, GraceEnds(x) PROVE RowsOK'
  BY <1>24 DEF GraceEnds, call, RowsOK, FreeRow
<1>25. ASSUME NEW s \in Shop, Subscription(s) PROVE RowsOK'
  BY <1>25 DEF Subscription, tables, call, RowsOK, FreeRow
<1>26. ASSUME NEW s \in Shop, License(s) PROVE RowsOK'
  BY <1>26 DEF License, call, RowsOK, FreeRow
<1>27. CASE UNCHANGED vars
  BY <1>27 DEF vars, tables, call, RowsOK, FreeRow
<1>. QED
  BY <1>1, <1>2, <1>3, <1>4, <1>5, <1>6, <1>7, <1>8, <1>9, <1>10, <1>11, <1>12, <1>13, <1>14,
     <1>15, <1>16, <1>17, <1>18, <1>19, <1>20, <1>21, <1>22, <1>23, <1>24, <1>25, <1>26, <1>27
     DEF Next, Step, Outside

\* The calls stay calls.
LEMMA PlacesStep ==
  ASSUME PlacesOK, [Next]_vars
  PROVE  PlacesOK'
<1>1. ASSUME NEW c \in Call, Ask(c) PROVE PlacesOK'
  BY <1>1 DEF Ask, Begin, Goto, tables, PlacesOK
<1>2. ASSUME NEW c \in Call, ReadUser(c) PROVE PlacesOK'
  BY <1>2 DEF ReadUser, Goto, tables, call, PlacesOK
<1>3. ASSUME NEW c \in Call, AddLink(c) PROVE PlacesOK'
  BY <1>3 DEF AddLink, Goto, tables, call, PlacesOK
<1>4. ASSUME NEW c \in Call, Find(c) PROVE PlacesOK'
  BY <1>4 DEF Find, End, Forget, Goto, tables, call, PlacesOK
<1>5. ASSUME NEW c \in Call, CheckActive(c) PROVE PlacesOK'
  BY <1>5 DEF CheckActive, End, Forget, Goto, tables, call, PlacesOK
<1>6. ASSUME NEW c \in Call, Usage(c) PROVE PlacesOK'
  BY <1>6 DEF Usage, Goto, tables, call, PlacesOK
<1>7. ASSUME NEW c \in Call, Count(c) PROVE PlacesOK'
  BY <1>7 DEF Count, End, Forget, Goto, tables, call, PlacesOK
<1>8. ASSUME NEW c \in Call, List(c) PROVE PlacesOK'
  BY <1>8 DEF List, Goto, tables, call, PlacesOK
<1>9. ASSUME NEW c \in Call, Fill(c) PROVE PlacesOK'
  BY <1>9 DEF Fill, Goto, tables, call, PlacesOK
<1>10. ASSUME NEW c \in Call, Mark(c) PROVE PlacesOK'
  BY <1>10 DEF Mark, Goto, tables, call, PlacesOK
<1>11. ASSUME NEW c \in Call, RemoveLink(c) PROVE PlacesOK'
  BY <1>11 DEF RemoveLink, Goto, tables, call, PlacesOK
<1>12. ASSUME NEW c \in Call, Release(c) PROVE PlacesOK'
  BY <1>12 DEF Release, End, Forget, Goto, tables, call, PlacesOK
<1>13. ASSUME NEW c \in Call, Free(c) PROVE PlacesOK'
  BY <1>13 DEF Free, End, Forget, Goto, tables, call, PlacesOK
<1>14. ASSUME NEW c \in Call, UpdatePlan(c) PROVE PlacesOK'
  BY <1>14 DEF UpdatePlan, Goto, tables, call, PlacesOK
<1>15. ASSUME NEW c \in Call, Apply(c) PROVE PlacesOK'
  BY <1>15 DEF Apply, Goto, tables, call, PlacesOK
<1>16. ASSUME NEW c \in Call, ReadLinks(c) PROVE PlacesOK'
  BY <1>16 DEF ReadLinks, End, Forget, Goto, tables, call, PlacesOK
<1>17. ASSUME NEW c \in Call, Look(c) PROVE PlacesOK'
  BY <1>17 DEF Look, Visited, End, Forget, Goto, tables, call, PlacesOK
<1>18. ASSUME NEW c \in Call, Grant(c) PROVE PlacesOK'
  BY <1>18 DEF Grant, Visited, End, Forget, Goto, tables, call, PlacesOK
<1>19. ASSUME NEW c \in Call, Revoke(c) PROVE PlacesOK'
  BY <1>19 DEF Revoke, Visited, End, Forget, Goto, tables, call, PlacesOK
<1>20. ASSUME NEW c \in Call, Sync(c) PROVE PlacesOK'
  BY <1>20 DEF Sync, Goto, tables, call, PlacesOK
<1>21. ASSUME NEW c \in Call, AskShopify(c) PROVE PlacesOK'
  BY <1>21 DEF AskShopify, End, Forget, Goto, tables, call, PlacesOK
<1>22. ASSUME NEW c \in Call, Bill(c) PROVE PlacesOK'
  BY <1>22 DEF Bill, End, Forget, Goto, tables, call, PlacesOK
<1>23. ASSUME NEW c \in Call, Unbill(c) PROVE PlacesOK'
  BY <1>23 DEF Unbill, End, Forget, Goto, tables, call, PlacesOK
<1>24. ASSUME NEW x \in Account \cup {"freemius"}, GraceEnds(x) PROVE PlacesOK'
  BY <1>24 DEF GraceEnds, call, PlacesOK
<1>25. ASSUME NEW s \in Shop, Subscription(s) PROVE PlacesOK'
  BY <1>25 DEF Subscription, tables, call, PlacesOK
<1>26. ASSUME NEW s \in Shop, License(s) PROVE PlacesOK'
  BY <1>26 DEF License, call, PlacesOK
<1>27. CASE UNCHANGED vars
  BY <1>27 DEF vars, tables, call, PlacesOK
<1>. QED
  BY <1>1, <1>2, <1>3, <1>4, <1>5, <1>6, <1>7, <1>8, <1>9, <1>10, <1>11, <1>12, <1>13, <1>14,
     <1>15, <1>16, <1>17, <1>18, <1>19, <1>20, <1>21, <1>22, <1>23, <1>24, <1>25, <1>26, <1>27
     DEF Next, Step, Outside

\* What a call may do follows from what it read, whatever other calls do meanwhile.
LEMMA ReadStep ==
  ASSUME PlacesOK, NEW d \in Call, ReadInv(d), [Next]_vars
  PROVE  ReadInv(d)'
<1>1. ASSUME NEW c \in Call, Ask(c) PROVE ReadInv(d)'
  BY <1>1 DEF Ask, Begin, Goto, tables, PlacesOK, ReadInv, OfAccount
<1>2. ASSUME NEW c \in Call, ReadUser(c) PROVE ReadInv(d)'
  BY <1>2 DEF ReadUser, Goto, tables, call, PlacesOK, ReadInv, OfAccount
<1>3. ASSUME NEW c \in Call, AddLink(c) PROVE ReadInv(d)'
  BY <1>3 DEF AddLink, Goto, tables, call, PlacesOK, ReadInv, OfAccount
<1>4. ASSUME NEW c \in Call, Find(c) PROVE ReadInv(d)'
  BY <1>4 DEF Find, End, Forget, Goto, tables, call, PlacesOK, ReadInv, OfAccount
<1>5. ASSUME NEW c \in Call, CheckActive(c) PROVE ReadInv(d)'
  BY <1>5 DEF CheckActive, End, Forget, Goto, tables, call, PlacesOK, ReadInv, OfAccount
<1>6. ASSUME NEW c \in Call, Usage(c) PROVE ReadInv(d)'
  BY <1>6 DEF Usage, Goto, tables, call, PlacesOK, ReadInv, OfAccount
<1>7. ASSUME NEW c \in Call, Count(c) PROVE ReadInv(d)'
  BY <1>7 DEF Count, End, Forget, Goto, tables, call, PlacesOK, ReadInv, OfAccount
<1>8. ASSUME NEW c \in Call, List(c) PROVE ReadInv(d)'
  BY <1>8 DEF List, Goto, tables, call, PlacesOK, ReadInv, OfAccount
<1>9. ASSUME NEW c \in Call, Fill(c) PROVE ReadInv(d)'
  BY <1>9 DEF Fill, Goto, tables, call, PlacesOK, ReadInv, OfAccount
<1>10. ASSUME NEW c \in Call, Mark(c) PROVE ReadInv(d)'
  BY <1>10 DEF Mark, Goto, tables, call, PlacesOK, ReadInv, OfAccount
<1>11. ASSUME NEW c \in Call, RemoveLink(c) PROVE ReadInv(d)'
  BY <1>11 DEF RemoveLink, Goto, tables, call, PlacesOK, ReadInv, OfAccount
<1>12. ASSUME NEW c \in Call, Release(c) PROVE ReadInv(d)'
  BY <1>12 DEF Release, End, Forget, Goto, tables, call, PlacesOK, ReadInv, OfAccount
<1>13. ASSUME NEW c \in Call, Free(c) PROVE ReadInv(d)'
  BY <1>13 DEF Free, End, Forget, Goto, tables, call, PlacesOK, ReadInv, OfAccount
<1>14. ASSUME NEW c \in Call, UpdatePlan(c) PROVE ReadInv(d)'
  BY <1>14 DEF UpdatePlan, Goto, tables, call, PlacesOK, ReadInv, OfAccount
<1>15. ASSUME NEW c \in Call, Apply(c) PROVE ReadInv(d)'
  BY <1>15 DEF Apply, Goto, tables, call, PlacesOK, ReadInv, OfAccount
<1>16. ASSUME NEW c \in Call, ReadLinks(c) PROVE ReadInv(d)'
  BY <1>16 DEF ReadLinks, End, Forget, Goto, tables, call, PlacesOK, ReadInv, OfAccount
<1>17. ASSUME NEW c \in Call, Look(c) PROVE ReadInv(d)'
  BY <1>17 DEF Look, Visited, End, Forget, Goto, tables, call, PlacesOK, ReadInv, OfAccount
<1>18. ASSUME NEW c \in Call, Grant(c) PROVE ReadInv(d)'
  BY <1>18 DEF Grant, Visited, End, Forget, Goto, tables, call, PlacesOK, ReadInv, OfAccount
<1>19. ASSUME NEW c \in Call, Revoke(c) PROVE ReadInv(d)'
  BY <1>19 DEF Revoke, Visited, End, Forget, Goto, tables, call, PlacesOK, ReadInv, OfAccount
<1>20. ASSUME NEW c \in Call, Sync(c) PROVE ReadInv(d)'
  BY <1>20 DEF Sync, Goto, tables, call, PlacesOK, ReadInv, OfAccount
<1>21. ASSUME NEW c \in Call, AskShopify(c) PROVE ReadInv(d)'
  BY <1>21 DEF AskShopify, End, Forget, Goto, tables, call, PlacesOK, ReadInv, OfAccount
<1>22. ASSUME NEW c \in Call, Bill(c) PROVE ReadInv(d)'
  BY <1>22 DEF Bill, End, Forget, Goto, tables, call, PlacesOK, ReadInv, OfAccount
<1>23. ASSUME NEW c \in Call, Unbill(c) PROVE ReadInv(d)'
  BY <1>23 DEF Unbill, End, Forget, Goto, tables, call, PlacesOK, ReadInv, OfAccount
<1>24. ASSUME NEW x \in Account \cup {"freemius"}, GraceEnds(x) PROVE ReadInv(d)'
  BY <1>24 DEF GraceEnds, call, PlacesOK, ReadInv, OfAccount
<1>25. ASSUME NEW s \in Shop, Subscription(s) PROVE ReadInv(d)'
  BY <1>25 DEF Subscription, tables, call, PlacesOK, ReadInv, OfAccount
<1>26. ASSUME NEW s \in Shop, License(s) PROVE ReadInv(d)'
  BY <1>26 DEF License, call, PlacesOK, ReadInv, OfAccount
<1>27. CASE UNCHANGED vars
  BY <1>27 DEF vars, tables, call, PlacesOK, ReadInv, OfAccount
<1>. QED
  BY <1>1, <1>2, <1>3, <1>4, <1>5, <1>6, <1>7, <1>8, <1>9, <1>10, <1>11, <1>12, <1>13, <1>14,
     <1>15, <1>16, <1>17, <1>18, <1>19, <1>20, <1>21, <1>22, <1>23, <1>24, <1>25, <1>26, <1>27
     DEF Next, Step, Outside

\* The invariant of overlapping calls holds in every state.
THEOREM RowsInvariance == Spec => []RowsInv
<1>1. Init => RowsInv
  BY DEF Init, RowsInv, RowsOK, PlacesOK, ReadInv, OfAccount, FreeRow
<1>2. RowsInv /\ [Next]_vars => RowsInv'
  BY RowsStep, PlacesStep, ReadStep DEF RowsInv
<1>. QED
  BY <1>1, <1>2, PTL DEF Spec

\* A row that pays for a shop.
Pays(s) == row[s].state # "FREE"
\* One step of a call or of the world takes no such row from its owner but as OwnRowsOnly says.
LEMMA OwnersKept ==
  ASSUME RowsInv, NEW s0 \in Shop, Pays(s0), row'[s0].tag # row[s0].tag, [Next]_vars
  PROVE  \/ License(s0)
         \/ \E c \in Call : WritesRow(c) /\ (row[s0].tag = Payer(c) \/ Overtaken(c, s0))
<1>r. RowsOK /\ \A c \in Call : ReadInv(c)
  BY DEF RowsInv
<1>g. ASSUME NEW c \in Call, Grant(c) PROVE WritesRow(c) /\ Overtaken(c, s0)
  <2>1. Managed(acct[c], seen[c])
    BY <1>r, <1>g DEF Grant, ReadInv
  <2>2. s0 = Head(todo[c]).shop /\ row'[s0].tag = acct[c]
    BY <1>r, <1>g DEF Grant, RowsOK
  <2>. QED
    BY <1>g, <2>1, <2>2 DEF Managed, Overtaken, Pays, WritesRow
<1>v. ASSUME NEW c \in Call, Revoke(c)
      PROVE WritesRow(c) /\ (row[s0].tag = Payer(c) \/ Overtaken(c, s0))
  <2>1. PaidBy(acct[c], seen[c]) /\ op[c] # "sync"
    BY <1>r, <1>v DEF Revoke, ReadInv, OfAccount
  <2>. QED
    BY <1>v, <2>1 DEF PaidBy, Overtaken, Payer, WritesRow
<1>f. ASSUME NEW c \in Call, Free(c)
      PROVE WritesRow(c) /\ (row[s0].tag = Payer(c) \/ Overtaken(c, s0))
  <2>1. seen[c].tag = acct[c] /\ op[c] # "sync"
    BY <1>r, <1>f DEF Free, End, Goto, ReadInv, OfAccount
  <2>. QED
    BY <1>f, <2>1 DEF Overtaken, Payer, WritesRow
<1>b. ASSUME NEW c \in Call, Bill(c)
      PROVE WritesRow(c) /\ (row[s0].tag = Payer(c) \/ Overtaken(c, s0))
  <2>1. Bills(seen[c]) /\ op[c] = "sync"
    BY <1>r, <1>b DEF Bill, End, Goto, ReadInv
  <2>. QED
    BY <1>b, <2>1 DEF Bills, Overtaken, Payer, Pays, WritesRow
<1>u. ASSUME NEW c \in Call, Unbill(c)
      PROVE WritesRow(c) /\ (row[s0].tag = Payer(c) \/ Overtaken(c, s0))
  <2>1. Ends(seen[c]) /\ op[c] = "sync"
    BY <1>r, <1>u DEF Unbill, End, Goto, ReadInv
  <2>. QED
    BY <1>u, <2>1 DEF Ends, Overtaken, Payer, WritesRow
<1>l. ASSUME NEW s \in Shop, License(s) PROVE License(s0)
  <2>1. s = s0
    BY <1>r, <1>l DEF License, RowsOK
  <2>. QED
    BY <1>l, <2>1
<1>x. ASSUME NEW x \in Account \cup {"freemius"}, GraceEnds(x) PROVE FALSE
  BY <1>r, <1>x DEF GraceEnds, RowsOK
<1>o. ASSUME UNCHANGED row PROVE FALSE
  BY <1>o
<1>1. ASSUME NEW c \in Call, Ask(c) \/ Step(c), ~UNCHANGED row
      PROVE  Grant(c) \/ Revoke(c) \/ Free(c) \/ Bill(c) \/ Unbill(c)
  BY <1>1 DEF Ask, Begin, Step, ReadUser, AddLink, Find, CheckActive, Usage, Count, List, Fill,
     Mark,
     RemoveLink, Release, UpdatePlan, Apply, ReadLinks, Look, Sync, AskShopify, tables
<1>2. ASSUME NEW s \in Shop, Subscription(s) PROVE UNCHANGED row
  BY <1>2 DEF Subscription, tables
<1>3. ASSUME UNCHANGED vars PROVE UNCHANGED row
  BY <1>3 DEF vars, tables
<1>. QED
  BY <1>g, <1>v, <1>f, <1>b, <1>u, <1>l, <1>x, <1>o, <1>1, <1>2, <1>3 DEF Next, Outside

\* A row that pays for a shop changes hands only by its owner, by a licence of the shop itself, or
\* by a call that another one overtook (accounts/service.ts:8 and :299, shopify/billing.ts:60).
THEOREM RowsKeepTheirOwner == Spec => OwnRowsOnly
<1>1. RowsInv /\ [Next]_vars =>
        [\A s \in Shop :
           row[s].state # "FREE" /\ row'[s].tag # row[s].tag =>
             \/ License(s)
             \/ \E c \in Call : WritesRow(c) /\ (row[s].tag = Payer(c) \/ Overtaken(c, s))]_vars
  BY OwnersKept DEF Pays
<1>. QED
  BY <1>1, RowsInvariance, PTL DEF Spec, OwnRowsOnly

-----------------------------------------------------------------------------
(* Events and the cache *)

\* A request that waits for nothing holds nothing, and one that looked an event up has one.
WriterInv(w) ==
  /\ writer[w].at = "idle" => writer[w] = AtRest
  /\ writer[w].at = "looked" => writer[w].event \in Event /\ sent[writer[w].event] # NoEvent
  /\ writer[w].at = "told" => writer[w].event \in Event
\* An event that is not excused is written once, by the one delivery under way or one that is
\* recorded.
EventInv(e) ==
  e \notin excused =>
    /\ written[e] <= 1
    /\ \A v, w \in Delivering(e) : v = w
    /\ \A w \in Delivering(e) : e \notin processed /\ (writer[w].at \in {"looked",
       "resolved"} => written[e] = 0)
    /\ Delivering(e) = {} /\ e \notin processed => written[e] = 0
\* A write returned and has not been announced.
Announcing == \E w \in Writer : writer[w].at = "written"
\* What a request read before the last write was asked for by then, and has a reason to be late.
ReaderInv(r) ==
  reader[r].at = "read" /\ reader[r].of < writes =>
    reader[r].since <= lastWrite /\ (reader[r].raced \/ Announcing)
\* The same of the entry that is cached; one in grace does not outlive the window by more than
\* its life.
CacheInv ==
  cached # NoCache =>
    /\ cached.of < writes => cached.expires <= lastWrite + Ttl
    /\ cached.of < writes => cached.raced \/ Announcing
    /\ cached.state = "PRO_GRACE" => \A t \in cached.until : cached.expires <= t + Ttl
\* The inductive invariant of FreemiusEvents.
FreemiusInv ==
  /\ FreemiusTypeOK /\ CacheInv
  /\ \A w \in Writer : WriterInv(w)
  /\ \A e \in Event : EventInv(e)
  /\ \A r \in Reader : ReaderInv(r)

\* The records a request starts from, and what an event makes of the row, have their types.
LEMMA WritingTypes ==
  /\ AtRest \in Writing
  /\ \A e \in Event : [AtRest EXCEPT !.at = "looked", !.event = e] \in Writing
  /\ \A s \in {"PRO_ACTIVE", "FREE"} : [AtRest EXCEPT !.at = "resolved",
     !.row.state = s] \in Writing
  /\ \A x \in Writing, p \in {"written", "told"} : [x EXCEPT !.at = p] \in Writing
  /\ \A x \in Writing, y \in PaidRow : [x EXCEPT !.at = "resolved", !.row = y] \in Writing
  BY DEF AtRest, Writing, PaidRow, State

\* What a request reads has its type.
LEMMA ReadingTypes ==
  /\ \A x \in Reading, y \in PaidRow, n \in 0 .. writes : [x EXCEPT !.at = "read", !.row = y,
     !.of = n] \in Reading
  /\ \A x \in Reading, n \in 0 .. now : [x EXCEPT !.at = "asked", !.since = n] \in Reading
  /\ now \in Nat /\ writes \in Nat => NotReading \in Reading
<1>1. ASSUME NEW x \in Reading, NEW y \in PaidRow, NEW n \in 0 .. writes
      PROVE [x EXCEPT !.at = "read", !.row = y, !.of = n] \in Reading
  BY DEF Reading
<1>2. ASSUME NEW x \in Reading, NEW n \in 0 .. now
      PROVE [x EXCEPT !.at = "asked", !.since = n] \in Reading
  BY DEF Reading
<1>3. now \in Nat /\ writes \in Nat => NotReading \in Reading
  BY DEF Reading, NotReading, PaidRow, State
<1>. QED
  BY <1>1, <1>2, <1>3

\* Type correctness is kept.
LEMMA FreemiusTypeStep ==
  ASSUME FreemiusInv, [FreemiusNext]_freemiusVars
  PROVE  FreemiusTypeOK'
<1>t. FreemiusTypeOK
  BY DEF FreemiusInv
<1>n. NoEvent \notin Event /\ {Grace, Ttl, MaxNow, MaxWrites, MaxRestarts} \subseteq Nat
  BY FreemiusAssumption
<1>w. \A w \in Writer : WriterInv(w)
  BY DEF FreemiusInv
<1>1. ASSUME NEW e \in Event, SendEvent(e) PROVE FreemiusTypeOK'
  BY <1>t, <1>1 DEF SendEvent, FreemiusTypeOK, Reading, Cached
<1>2. ASSUME NEW e \in Event, NEW w \in Writer, LookUp(w, e) PROVE FreemiusTypeOK'
  BY <1>t, <1>n, <1>w, <1>2 DEF LookUp, NoWrite, Rest, AtRest, FreemiusTypeOK, Writing, Reading,
     Cached, PaidRow, Message, Time, State, Type
<1>3. ASSUME NEW w \in Writer, Resolve(w) PROVE FreemiusTypeOK'
  <2>1. sent[writer[w].event] \in Message /\ writer[w] \in Writing
    BY <1>t, <1>w, <1>3 DEF Resolve, WriterInv, FreemiusTypeOK
  <2> DEFINE m == sent[writer[w].event]
             state == MapEventToState(m)
             y == [state |-> state, until |-> GraceFor(state)]
  <2>2. ASSUME state # "none" PROVE y \in PaidRow
    BY <1>t, <1>n, <2>1, <2>2 DEF MapEventToState, GraceFor, Message, Type, PaidRow, State, Time,
       FreemiusTypeOK
  <2>3. writer' \in [Writer -> Writing]
    <3>1. CASE state = "none" \/ ~m.shop
      <4>1. writer' = [writer EXCEPT ![w].at = "told"]
        BY <3>1, <1>3 DEF Resolve
      <4>. QED
        BY <1>t, <2>1, <4>1, WritingTypes DEF FreemiusTypeOK
    <3>2. CASE ~(state = "none" \/ ~m.shop)
      <4>1. writer' = [writer EXCEPT ![w].at = "resolved", ![w].row = y]
        BY <3>2, <1>3 DEF Resolve
      <4>2. [writer[w] EXCEPT !.at = "resolved", !.row = y] \in Writing
        BY <2>1, <2>2, <3>2, WritingTypes
      <4>. QED
        BY <1>t, <4>1, <4>2 DEF FreemiusTypeOK
    <3>. QED
      BY <3>1, <3>2
  <2>. QED
    BY <1>t, <1>3, <2>3 DEF Resolve, NoWrite, Rest, FreemiusTypeOK, Reading, Cached
<1>4. ASSUME NEW w \in Writer, Activate(w) PROVE FreemiusTypeOK'
  <2>1. writer' \in [Writer -> Writing]
    BY <1>t, <1>4, WritingTypes DEF Activate, FreemiusTypeOK
  <2>. QED
    BY <1>t, <1>4, <2>1 DEF Activate, NoWrite, Rest, FreemiusTypeOK, Reading, Cached
<1>5. ASSUME NEW w \in Writer, WriteRow(w) PROVE FreemiusTypeOK'
  <2>1. writer[w] \in Writing /\ writer[w].row \in PaidRow
    BY <1>t DEF FreemiusTypeOK, Writing
  <2>2. writer' \in [Writer -> Writing]
    BY <1>t, <2>1, <1>5, WritingTypes DEF WriteRow, FreemiusTypeOK
  <2>3. reader' \in [Reader -> Reading']
    <3>1. \A x \in Reading : x \in Reading'
      BY <1>t, <1>5 DEF WriteRow, Rest, Reading, FreemiusTypeOK
    <3>. QED
      BY <1>t, <3>1, <1>5 DEF WriteRow, Rest, FreemiusTypeOK
  <2>4. cached' \in Cached'
    BY <1>t, <1>5 DEF WriteRow, Rest, Cached, FreemiusTypeOK
  <2>. QED
    BY <1>t, <1>5, <2>1, <2>2, <2>3, <2>4 DEF WriteRow, Rest, FreemiusTypeOK
<1>6. ASSUME NEW w \in Writer, DropEntry(w) PROVE FreemiusTypeOK'
  <2>1. Reading' = Reading /\ Cached' = Cached
    BY <1>6 DEF DropEntry, NoWrite, Reading, Cached
  <2>2. writer' \in [Writer -> Writing]
    BY <1>t, <1>6, WritingTypes DEF DropEntry, FreemiusTypeOK
  <2>3. NoCache \in Cached
    BY <1>t, <1>n DEF NoCache, Cached, FreemiusTypeOK
  <2>4. reader' \in [Reader -> Reading]
    <3>1. \A x \in Reading : \A b \in BOOLEAN : [x EXCEPT !.raced = b] \in Reading
      BY DEF Reading
    <3>2. \A r \in Reader : reader[r] \in Reading
      BY <1>t DEF FreemiusTypeOK
    <3>. QED
      BY <3>1, <3>2, <1>6 DEF DropEntry
  <2>. QED
    BY <1>t, <1>6, <2>1, <2>2, <2>3, <2>4 DEF DropEntry, NoWrite, FreemiusTypeOK
<1>7. ASSUME NEW w \in Writer, Record(w) PROVE FreemiusTypeOK'
  <2>1. writer[w].event \in Event
    BY <1>w, <1>7 DEF Record, WriterInv
  <2>2. writer' \in [Writer -> Writing]
    BY <1>t, <1>7, WritingTypes DEF Record, FreemiusTypeOK
  <2>. QED
    BY <1>t, <1>7, <2>1, <2>2 DEF Record, NoWrite, Rest, FreemiusTypeOK, Reading, Cached
<1>8. ASSUME NEW r \in Reader, AskState(r) PROVE FreemiusTypeOK'
  <2>n. now \in Nat /\ writes \in Nat /\ now \in 0 .. now /\ writes \in 0 .. writes
      /\ paid \in PaidRow
    BY <1>t, <1>n DEF FreemiusTypeOK
  <2>r. reader[r] \in Reading
    BY <1>t DEF FreemiusTypeOK
  <2>1. Reading' = Reading /\ Cached' = Cached
    BY <1>8 DEF AskState, Still, Reading, Cached
  <2>2. [NotReading EXCEPT !.at = "asked", !.since = now] \in Reading
    BY <2>n, <2>r, ReadingTypes
  <2>3. reader' \in [Reader -> Reading]
    BY <1>t, <2>2, <1>8 DEF AskState, FreemiusTypeOK
  <2>. QED
    BY <1>t, <1>8, <2>1, <2>3 DEF AskState, Still, FreemiusTypeOK
<1>9. ASSUME NEW r \in Reader, ReadRow(r) PROVE FreemiusTypeOK'
  <2>n. now \in Nat /\ writes \in Nat /\ now \in 0 .. now /\ writes \in 0 .. writes
      /\ paid \in PaidRow
    BY <1>t, <1>n DEF FreemiusTypeOK
  <2>r. reader[r] \in Reading
    BY <1>t DEF FreemiusTypeOK
  <2>1. Reading' = Reading /\ Cached' = Cached
    BY <1>9 DEF ReadRow, Still, Reading, Cached
  <2>2. [reader[r] EXCEPT !.at = "read", !.row = paid, !.of = writes] \in Reading
    BY <2>n, <2>r, ReadingTypes
  <2>3. reader' \in [Reader -> Reading]
    BY <1>t, <2>2, <1>9 DEF ReadRow, FreemiusTypeOK
  <2>. QED
    BY <1>t, <1>9, <2>1, <2>3 DEF ReadRow, Still, FreemiusTypeOK
<1>10. ASSUME NEW r \in Reader, StoreInCache(r) PROVE FreemiusTypeOK'
  <2>n. now \in Nat /\ writes \in Nat /\ now \in 0 .. now /\ writes \in 0 .. writes
      /\ paid \in PaidRow
    BY <1>t, <1>n DEF FreemiusTypeOK
  <2>r. reader[r] \in Reading
    BY <1>t DEF FreemiusTypeOK
  <2>1. Reading' = Reading /\ Cached' = Cached
    BY <1>10 DEF StoreInCache, Still, Reading, Cached
  <2>2. NotReading \in Reading
    BY <2>n, <2>r, ReadingTypes
  <2>3. reader' \in [Reader -> Reading]
    BY <1>t, <2>2, <1>10 DEF StoreInCache, FreemiusTypeOK
  <2>4. reader[r] \in Reading
    BY <1>t DEF FreemiusTypeOK
  <2>5. EffectiveState(reader[r].row, reader[r].since) \in State
    BY <2>4 DEF EffectiveState, Reading, PaidRow, State
  <2>6. Entry(r, reader[r].since) \in Cached
    BY <1>t, <1>n, <2>4, <2>5 DEF Entry, Cached, Reading, PaidRow, FreemiusTypeOK
  <2>. QED
    BY <1>t, <1>10, <2>1, <2>3, <2>6 DEF StoreInCache, Still, FreemiusTypeOK
<1>11. ASSUME TimePasses PROVE FreemiusTypeOK'
  BY <1>t, <1>n, <1>w, <1>11 DEF TimePasses, FreemiusTypeOK, Writing, Reading, Cached, PaidRow,
     Message, Time, State, Type
<1>12. ASSUME FreemiusCrash PROVE FreemiusTypeOK'
  BY <1>t, <1>n, <1>w, <1>12 DEF FreemiusCrash, AtRest, NotReading, NoCache, FreemiusTypeOK,
     Writing, Reading, Cached, PaidRow, Message, Time, State, Type
<1>13. CASE UNCHANGED freemiusVars
  BY <1>t, <1>n, <1>w, <1>13 DEF freemiusVars, FreemiusTypeOK, Writing, Reading, Cached, PaidRow,
     Message, Time, State, Type
<1>. QED
  BY <1>1, <1>2, <1>3, <1>4, <1>5, <1>6, <1>7, <1>8, <1>9, <1>10, <1>11, <1>12, <1>13 DEF
     FreemiusNext, Handle
\* A request that waits for nothing holds nothing, and one that looked an event up has one.
LEMMA WriterStep ==
  ASSUME NEW w0 \in Writer, FreemiusInv, [FreemiusNext]_freemiusVars
  PROVE  WriterInv(w0)'
<1>t. FreemiusTypeOK
  BY DEF FreemiusInv
<1>n. NoEvent \notin Event /\ {Grace, Ttl, MaxNow, MaxWrites, MaxRestarts} \subseteq Nat
  BY FreemiusAssumption
<1>i. WriterInv(w0)
  BY DEF FreemiusInv
<1>1. ASSUME NEW e \in Event, SendEvent(e) PROVE WriterInv(w0)'
  BY <1>t, <1>n, <1>i, <1>1 DEF SendEvent, WriterInv, FreemiusTypeOK, Writing, Message
<1>2. ASSUME NEW e \in Event, NEW w \in Writer, LookUp(w, e) PROVE WriterInv(w0)'
  BY <1>t, <1>n, <1>i, <1>2 DEF LookUp, NoWrite, Rest, AtRest, WriterInv, FreemiusTypeOK, Writing,
     Message
<1>3. ASSUME NEW w \in Writer, Resolve(w) PROVE WriterInv(w0)'
  BY <1>t, <1>n, <1>i, <1>3 DEF Resolve, NoWrite, Rest, MapEventToState, GraceFor, WriterInv,
     FreemiusTypeOK, Writing, Message
<1>4. ASSUME NEW w \in Writer, Activate(w) PROVE WriterInv(w0)'
  BY <1>t, <1>n, <1>i, <1>4 DEF Activate, NoWrite, Rest, AtRest, WriterInv, FreemiusTypeOK, Writing,
     Message
<1>5. ASSUME NEW w \in Writer, WriteRow(w) PROVE WriterInv(w0)'
  BY <1>t, <1>n, <1>i, <1>5 DEF WriteRow, Rest, WriterInv, FreemiusTypeOK, Writing, Message
<1>6. ASSUME NEW w \in Writer, DropEntry(w) PROVE WriterInv(w0)'
  BY <1>t, <1>n, <1>i, <1>6 DEF DropEntry, NoWrite, NoCache, AtRest, WriterInv, FreemiusTypeOK,
     Writing, Message
<1>7. ASSUME NEW w \in Writer, Record(w) PROVE WriterInv(w0)'
  BY <1>t, <1>n, <1>i, <1>7 DEF Record, NoWrite, Rest, AtRest, WriterInv, FreemiusTypeOK, Writing,
     Message
<1>8. ASSUME NEW r \in Reader, AskState(r) PROVE WriterInv(w0)'
  BY <1>t, <1>n, <1>i, <1>8 DEF AskState, Still, NotReading, WriterInv, FreemiusTypeOK, Writing,
     Message
<1>9. ASSUME NEW r \in Reader, ReadRow(r) PROVE WriterInv(w0)'
  BY <1>t, <1>n, <1>i, <1>9 DEF ReadRow, Still, WriterInv, FreemiusTypeOK, Writing, Message
<1>10. ASSUME NEW r \in Reader, StoreInCache(r) PROVE WriterInv(w0)'
  BY <1>t, <1>n, <1>i, <1>10 DEF StoreInCache, Still, NotReading, Entry, EffectiveState, WriterInv,
     FreemiusTypeOK, Writing, Message
<1>11. ASSUME TimePasses PROVE WriterInv(w0)'
  BY <1>t, <1>n, <1>i, <1>11 DEF TimePasses, WriterInv, FreemiusTypeOK, Writing, Message
<1>12. ASSUME FreemiusCrash PROVE WriterInv(w0)'
  BY <1>t, <1>n, <1>i, <1>12 DEF FreemiusCrash, AtRest, NotReading, NoCache, WriterInv,
     FreemiusTypeOK, Writing, Message
<1>13. CASE UNCHANGED freemiusVars
  BY <1>t, <1>n, <1>i, <1>13 DEF freemiusVars, WriterInv, FreemiusTypeOK, Writing, Message
<1>. QED
  BY <1>1, <1>2, <1>3, <1>4, <1>5, <1>6, <1>7, <1>8, <1>9, <1>10, <1>11, <1>12, <1>13 DEF
     FreemiusNext, Handle
\* Of an event that is not excused one delivery at most is under way, and it has not written before.
LEMMA EventStep ==
  ASSUME NEW e0 \in Event, FreemiusInv, [FreemiusNext]_freemiusVars
  PROVE  EventInv(e0)'
<1>t. FreemiusTypeOK
  BY DEF FreemiusInv
<1>n. NoEvent \notin Event /\ {Grace, Ttl, MaxNow, MaxWrites, MaxRestarts} \subseteq Nat
  BY FreemiusAssumption
<1>i. EventInv(e0)
  BY DEF FreemiusInv
<1>w. \A w \in Writer : WriterInv(w)
  BY DEF FreemiusInv
<1>1. ASSUME NEW e \in Event, SendEvent(e) PROVE EventInv(e0)'
  BY <1>t, <1>n, <1>i, <1>w, <1>1 DEF SendEvent, EventInv, Delivering, FreemiusTypeOK, Writing
<1>2. ASSUME NEW e \in Event, NEW w \in Writer, LookUp(w, e) PROVE EventInv(e0)'
  BY <1>t, <1>n, <1>i, <1>w, <1>2 DEF LookUp, NoWrite, Rest, AtRest, EventInv, Delivering,
     FreemiusTypeOK, Writing
<1>3. ASSUME NEW w \in Writer, Resolve(w) PROVE EventInv(e0)'
  BY <1>t, <1>n, <1>i, <1>w, <1>3 DEF Resolve, NoWrite, Rest, MapEventToState, GraceFor, EventInv,
     Delivering, FreemiusTypeOK, Writing
<1>4. ASSUME NEW w \in Writer, Activate(w) PROVE EventInv(e0)'
  BY <1>t, <1>n, <1>i, <1>w, <1>4 DEF Activate, NoWrite, Rest, AtRest, EventInv, Delivering,
     FreemiusTypeOK, Writing
<1>5. ASSUME NEW w \in Writer, WriteRow(w) PROVE EventInv(e0)'
  BY <1>t, <1>n, <1>i, <1>w, <1>5 DEF WriteRow, Rest, EventInv, Delivering, FreemiusTypeOK, Writing
<1>6. ASSUME NEW w \in Writer, DropEntry(w) PROVE EventInv(e0)'
  BY <1>t, <1>n, <1>i, <1>w, <1>6 DEF DropEntry, NoWrite, NoCache, AtRest, EventInv, Delivering,
     FreemiusTypeOK, Writing
<1>7. ASSUME NEW w \in Writer, Record(w) PROVE EventInv(e0)'
  BY <1>t, <1>n, <1>i, <1>w, <1>7 DEF Record, NoWrite, Rest, AtRest, EventInv, Delivering,
     FreemiusTypeOK, Writing
<1>8. ASSUME NEW r \in Reader, AskState(r) PROVE EventInv(e0)'
  BY <1>t, <1>n, <1>i, <1>w, <1>8 DEF AskState, Still, NotReading, EventInv, Delivering,
     FreemiusTypeOK, Writing
<1>9. ASSUME NEW r \in Reader, ReadRow(r) PROVE EventInv(e0)'
  BY <1>t, <1>n, <1>i, <1>w, <1>9 DEF ReadRow, Still, EventInv, Delivering, FreemiusTypeOK, Writing
<1>10. ASSUME NEW r \in Reader, StoreInCache(r) PROVE EventInv(e0)'
  BY <1>t, <1>n, <1>i, <1>w, <1>10 DEF StoreInCache, Still, NotReading, Entry, EffectiveState,
     EventInv, Delivering, FreemiusTypeOK, Writing
<1>11. ASSUME TimePasses PROVE EventInv(e0)'
  BY <1>t, <1>n, <1>i, <1>w, <1>11 DEF TimePasses, EventInv, Delivering, FreemiusTypeOK, Writing
<1>12. ASSUME FreemiusCrash PROVE EventInv(e0)'
  BY <1>t, <1>n, <1>i, <1>w, <1>12 DEF FreemiusCrash, AtRest, NotReading, NoCache, EventInv,
     Delivering, FreemiusTypeOK, Writing
<1>13. CASE UNCHANGED freemiusVars
  BY <1>t, <1>n, <1>i, <1>w, <1>13 DEF freemiusVars, EventInv, Delivering, FreemiusTypeOK, Writing
<1>. QED
  BY <1>1, <1>2, <1>3, <1>4, <1>5, <1>6, <1>7, <1>8, <1>9, <1>10, <1>11, <1>12, <1>13 DEF
     FreemiusNext, Handle
\* What a request read before the last write was asked for by then, and has a reason to be late.
LEMMA ReaderStep ==
  ASSUME NEW r0 \in Reader, FreemiusInv, [FreemiusNext]_freemiusVars
  PROVE  ReaderInv(r0)'
<1>t. FreemiusTypeOK
  BY DEF FreemiusInv
<1>n. NoEvent \notin Event /\ {Grace, Ttl, MaxNow, MaxWrites, MaxRestarts} \subseteq Nat
  BY FreemiusAssumption
<1>i. ReaderInv(r0)
  BY DEF FreemiusInv
<1>1. ASSUME NEW e \in Event, SendEvent(e) PROVE ReaderInv(r0)'
  BY <1>t, <1>n, <1>i, <1>1 DEF SendEvent, ReaderInv, Announcing, FreemiusTypeOK, Reading, Writing
<1>2. ASSUME NEW e \in Event, NEW w \in Writer, LookUp(w, e) PROVE ReaderInv(r0)'
  BY <1>t, <1>n, <1>i, <1>2 DEF LookUp, NoWrite, Rest, AtRest, ReaderInv, Announcing,
     FreemiusTypeOK, Reading, Writing
<1>3. ASSUME NEW w \in Writer, Resolve(w) PROVE ReaderInv(r0)'
  BY <1>t, <1>n, <1>i, <1>3 DEF Resolve, NoWrite, Rest, MapEventToState, GraceFor, ReaderInv,
     Announcing, FreemiusTypeOK, Reading, Writing
<1>4. ASSUME NEW w \in Writer, Activate(w) PROVE ReaderInv(r0)'
  BY <1>t, <1>n, <1>i, <1>4 DEF Activate, NoWrite, Rest, AtRest, ReaderInv, Announcing,
     FreemiusTypeOK, Reading, Writing
<1>5. ASSUME NEW w \in Writer, WriteRow(w) PROVE ReaderInv(r0)'
  BY <1>t, <1>n, <1>i, <1>5 DEF WriteRow, Rest, ReaderInv, Announcing, FreemiusTypeOK, Reading,
     Writing
<1>6. ASSUME NEW w \in Writer, DropEntry(w) PROVE ReaderInv(r0)'
  BY ZenonT(40), <1>t, <1>n, <1>i, <1>6
     DEF DropEntry, NoWrite, NoCache, AtRest, ReaderInv, Announcing,
     FreemiusTypeOK, Reading, Writing
<1>7. ASSUME NEW w \in Writer, Record(w) PROVE ReaderInv(r0)'
  BY <1>t, <1>n, <1>i, <1>7 DEF Record, NoWrite, Rest, AtRest, ReaderInv, Announcing,
     FreemiusTypeOK, Reading, Writing
<1>8. ASSUME NEW r \in Reader, AskState(r) PROVE ReaderInv(r0)'
  BY <1>t, <1>n, <1>i, <1>8 DEF AskState, Still, NotReading, ReaderInv, Announcing, FreemiusTypeOK,
     Reading, Writing
<1>9. ASSUME NEW r \in Reader, ReadRow(r) PROVE ReaderInv(r0)'
  BY <1>t, <1>n, <1>i, <1>9 DEF ReadRow, Still, ReaderInv, Announcing, FreemiusTypeOK, Reading,
     Writing
<1>10. ASSUME NEW r \in Reader, StoreInCache(r) PROVE ReaderInv(r0)'
  BY <1>t, <1>n, <1>i, <1>10 DEF StoreInCache, Still, NotReading, Entry, EffectiveState, ReaderInv,
     Announcing, FreemiusTypeOK, Reading, Writing
<1>11. ASSUME TimePasses PROVE ReaderInv(r0)'
  BY <1>t, <1>n, <1>i, <1>11 DEF TimePasses, ReaderInv, Announcing, FreemiusTypeOK, Reading, Writing
<1>12. ASSUME FreemiusCrash PROVE ReaderInv(r0)'
  BY <1>t, <1>n, <1>i, <1>12 DEF FreemiusCrash, AtRest, NotReading, NoCache, ReaderInv, Announcing,
     FreemiusTypeOK, Reading, Writing
<1>13. CASE UNCHANGED freemiusVars
  BY <1>t, <1>n, <1>i, <1>13 DEF freemiusVars, ReaderInv, Announcing, FreemiusTypeOK, Reading,
     Writing
<1>. QED
  BY <1>1, <1>2, <1>3, <1>4, <1>5, <1>6, <1>7, <1>8, <1>9, <1>10, <1>11, <1>12, <1>13 DEF
     FreemiusNext, Handle
\* What is cached ends in time, and is outdated only for a reason.
LEMMA CacheStep ==
  ASSUME FreemiusInv, [FreemiusNext]_freemiusVars
  PROVE  CacheInv'
<1>t. FreemiusTypeOK
  BY DEF FreemiusInv
<1>n. NoEvent \notin Event /\ {Grace, Ttl, MaxNow, MaxWrites, MaxRestarts} \subseteq Nat
  BY FreemiusAssumption
<1>c. CacheInv
  BY DEF FreemiusInv
<1>i. \A r \in Reader : ReaderInv(r)
  BY DEF FreemiusInv
<1>1. ASSUME NEW e \in Event, SendEvent(e) PROVE CacheInv'
  BY <1>t, <1>n, <1>c, <1>i, <1>1 DEF SendEvent, CacheInv, Announcing, FreemiusTypeOK, Cached,
     Writing
<1>2. ASSUME NEW e \in Event, NEW w \in Writer, LookUp(w, e) PROVE CacheInv'
  BY <1>t, <1>n, <1>c, <1>i, <1>2 DEF LookUp, NoWrite, Rest, AtRest, CacheInv, Announcing,
     FreemiusTypeOK, Cached, Writing
<1>3. ASSUME NEW w \in Writer, Resolve(w) PROVE CacheInv'
  BY <1>t, <1>n, <1>c, <1>i, <1>3 DEF Resolve, NoWrite, Rest, MapEventToState, GraceFor, CacheInv,
     Announcing, FreemiusTypeOK, Cached, Writing
<1>4. ASSUME NEW w \in Writer, Activate(w) PROVE CacheInv'
  BY <1>t, <1>n, <1>c, <1>i, <1>4 DEF Activate, NoWrite, Rest, AtRest, CacheInv, Announcing,
     FreemiusTypeOK, Cached, Writing
<1>5. ASSUME NEW w \in Writer, WriteRow(w) PROVE CacheInv'
  BY <1>t, <1>n, <1>c, <1>i, <1>5 DEF WriteRow, Rest, CacheInv, Announcing, FreemiusTypeOK, Cached,
     Writing
<1>6. ASSUME NEW w \in Writer, DropEntry(w) PROVE CacheInv'
  BY <1>t, <1>n, <1>c, <1>i, <1>6 DEF DropEntry, NoWrite, NoCache, AtRest, CacheInv, Announcing,
     FreemiusTypeOK, Cached, Writing
<1>7. ASSUME NEW w \in Writer, Record(w) PROVE CacheInv'
  BY <1>t, <1>n, <1>c, <1>i, <1>7 DEF Record, NoWrite, Rest, AtRest, CacheInv, Announcing,
     FreemiusTypeOK, Cached, Writing
<1>8. ASSUME NEW r \in Reader, AskState(r) PROVE CacheInv'
  BY <1>t, <1>n, <1>c, <1>i, <1>8 DEF AskState, Still, NotReading, CacheInv, Announcing,
     FreemiusTypeOK, Cached, Writing
<1>9. ASSUME NEW r \in Reader, ReadRow(r) PROVE CacheInv'
  BY <1>t, <1>n, <1>c, <1>i, <1>9 DEF ReadRow, Still, CacheInv, Announcing, FreemiusTypeOK, Cached,
     Writing
<1>10. ASSUME NEW r \in Reader, StoreInCache(r) PROVE CacheInv'
  <2>1. reader[r] \in Reading
    BY <1>t DEF FreemiusTypeOK
  <2> DEFINE x == reader[r]
             y == EffectiveState(x.row, x.since)
  <2>2. /\ cached'.state = y /\ cached'.until = x.row.until /\ cached'.expires = x.since + Ttl
        /\ cached'.of = x.of /\ cached'.raced = x.raced
        /\ UNCHANGED <<writes, lastWrite, writer>>
    BY <1>10 DEF StoreInCache, Still, Entry
  <2>3. ASSUME y = "PRO_GRACE", NEW t \in x.row.until PROVE x.since + Ttl <= t + Ttl
    <3>1. x.row.until \in {{}} \cup {{k} : k \in Time} /\ x.since \in Nat
      BY <1>t, <2>1 DEF Reading, PaidRow, FreemiusTypeOK
    <3>2. PICK k \in Time : x.row.until = {k}
      BY <2>3, <3>1
    <3>3. k >= x.since
      BY <2>3, <3>2 DEF EffectiveState
    <3>. QED
      BY <1>n, <2>3, <3>1, <3>2, <3>3 DEF Time
  <2>4. x.of < writes => x.since <= lastWrite /\ (x.raced \/ Announcing)
    BY <1>i, <1>10 DEF StoreInCache, ReaderInv
  <2>5. x.since \in Nat /\ lastWrite \in Nat
    BY <1>t, <2>1 DEF Reading, FreemiusTypeOK
  <2>. QED
    BY <1>n, <2>2, <2>3, <2>4, <2>5 DEF CacheInv, Announcing
<1>11. ASSUME TimePasses PROVE CacheInv'
  BY <1>t, <1>n, <1>c, <1>i, <1>11 DEF TimePasses, CacheInv, Announcing, FreemiusTypeOK, Cached,
     Writing
<1>12. ASSUME FreemiusCrash PROVE CacheInv'
  BY <1>t, <1>n, <1>c, <1>i, <1>12 DEF FreemiusCrash, AtRest, NotReading, NoCache, CacheInv,
     Announcing, FreemiusTypeOK, Cached, Writing
<1>13. CASE UNCHANGED freemiusVars
  BY <1>t, <1>n, <1>c, <1>i, <1>13 DEF freemiusVars, CacheInv, Announcing, FreemiusTypeOK, Cached,
     Writing
<1>. QED
  BY <1>1, <1>2, <1>3, <1>4, <1>5, <1>6, <1>7, <1>8, <1>9, <1>10, <1>11, <1>12, <1>13 DEF
     FreemiusNext, Handle

\* The inductive invariant holds in every state.
THEOREM FreemiusInvariance == FreemiusSpec => []FreemiusInv
<1>1. FreemiusInit => FreemiusInv
  <2>1. SUFFICES ASSUME FreemiusInit PROVE FreemiusInv
    OBVIOUS
  <2>2. AtRest \in Writing /\ NotReading \in Reading /\ NoCache \in Cached
    BY <2>1, FreemiusAssumption DEF FreemiusInit, AtRest, NotReading, NoCache, Writing, Reading,
       Cached,
       PaidRow, State
  <2>3. FreemiusTypeOK
    BY <2>1, <2>2, FreemiusAssumption DEF FreemiusInit, FreemiusTypeOK, PaidRow, State
  <2>4. CacheInv
    BY <2>1 DEF FreemiusInit, CacheInv
  <2>5. \A w \in Writer : WriterInv(w)
    BY <2>1 DEF FreemiusInit, WriterInv, AtRest
  <2>6. \A e \in Event : EventInv(e)
    BY <2>1 DEF FreemiusInit, EventInv, Delivering, AtRest
  <2>7. \A r \in Reader : ReaderInv(r)
    BY <2>1 DEF FreemiusInit, ReaderInv, NotReading
  <2>. QED
    BY <2>3, <2>4, <2>5, <2>6, <2>7 DEF FreemiusInv
<1>2. FreemiusInv /\ [FreemiusNext]_freemiusVars => FreemiusInv'
  BY FreemiusTypeStep, WriterStep, EventStep, ReaderStep, CacheStep DEF FreemiusInv
<1>. QED
  BY <1>1, <1>2, PTL DEF FreemiusSpec

\* A Freemius event counts once, and an outdated plan is served only for a reason and no longer
\* than a cache entry lives (FreemiusWebhookHandler and getState).
THEOREM EventsCountOnce == FreemiusSpec => []FreemiusSafe
<1>1. FreemiusInv => FreemiusSafe
  <2>1. SUFFICES ASSUME FreemiusInv PROVE FreemiusSafe
    OBVIOUS
  <2>t. FreemiusTypeOK /\ CacheInv /\ {Grace, Ttl, MaxNow} \subseteq Nat
    BY <2>1, FreemiusAssumption DEF FreemiusInv
  <2>2. AppliedOnce
    BY <2>1, <2>t DEF FreemiusInv, EventInv, AppliedOnce, FreemiusTypeOK
  <2>3. StaleHasAReason
    BY <2>t DEF CacheInv, StaleHasAReason, Announcing
  <2>4. OldPlanEndsInTime
    BY <2>t DEF CacheInv, OldPlanEndsInTime, FreemiusTypeOK, Cached
  <2>5. GraceEndsInTime
    <3>1. cached.state = "PRO_GRACE" => cached # NoCache
      BY DEF NoCache
    <3>2. \A t \in cached.until : t \in Nat
      BY <2>t DEF FreemiusTypeOK, Cached, Time
    <3>. QED
      BY <2>t, <3>1, <3>2 DEF CacheInv, GraceEndsInTime, FreemiusTypeOK, Cached
  <2>. QED
    BY <2>t, <2>2, <2>3, <2>4, <2>5 DEF FreemiusSafe
<1>. QED
  BY <1>1, FreemiusInvariance, PTL
=============================================================================
