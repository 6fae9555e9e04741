---------------------------- MODULE Entitlements ----------------------------
(***************************************************************************)
(* Who pays for a shop: the entitlement row of a shop has three writers,   *)
(* an account whose licence carries shop seats (accounts/service.ts), the  *)
(* Shopify subscription of the store (shopify/billing.ts), and a Freemius  *)
(* licence of the shop itself (entitlement-freemius).  The tag in the      *)
(* row's freemius_user_id says which of them it belongs to.  Every writer  *)
(* reads the row, may wait, and then upserts it.                           *)
(***************************************************************************)
EXTENDS Naturals, Sequences, FiniteSets

CONSTANTS Account, Shop,
          Call,      \* requests and webhooks in progress; each slot is used again
          NoAccount, NoShop,
          MaxSeats   \* bound on the seats of a licence

ASSUME ConstantsAssumption ==
  /\ NoAccount \notin Account /\ NoShop \notin Shop
  /\ Account \cap {"shopify", "freemius", "none"} = {}
  /\ MaxSeats \in Nat \ {0}

VARIABLES
  plan,        \* users: state, whether a grace window is open, seats (0: null)
  links, seat, \* user_shops: each account's shops, oldest first, and those with pro_seat
  row,         \* entitlements: state, grace, tag; a missing row is FREE, tag none
  subscribed,  \* Shopify: shops with an active subscription
  pc, op,      \* each call: where it is, and what it does
  acct, shop,  \* for which account and shop
  mine,        \* the account as the call read it
  had,         \* whether the link had a seat when the call read it
  todo,        \* the links a loop has still to visit
  granted,     \* seats applySeats has given out
  seen         \* the row as the call read it

tables == <<plan, links, seat, row>>
call == <<op, acct, shop>>
vars == <<tables, subscribed, pc, call, mine, had, todo, granted, seen>>

Plan == [state : {"FREE", "ACTIVE", "LAPSED"}, grace : BOOLEAN, seats : 0 .. MaxSeats]
NoPlan == [state |-> "FREE", grace |-> FALSE, seats |-> 0]
Row == [state : {"FREE", "ACTIVE", "LAPSED"}, grace : BOOLEAN,
        tag : Account \cup {"shopify", "freemius", "none"}]
FreeRow == [state |-> "FREE", grace |-> FALSE, tag |-> "none"]
Link == [shop : Shop, seat : BOOLEAN]

TypeOK ==
  /\ plan \in [Account -> Plan]
  /\ links \in [Account -> Seq(Shop)] /\ seat \in [Account -> SUBSET Shop]
  /\ row \in [Shop -> Row] /\ subscribed \in SUBSET Shop
  /\ pc \in [Call -> {"idle", "user", "link", "find", "active", "usage", "count", "list",
                      "fill", "mark", "plan", "apply", "links", "look", "grant", "revoke",
                      "unlink", "release", "free", "sync", "ask", "bill", "unbill"}]
  /\ op \in [Call -> {"none", "link", "unlink", "seat", "unseat", "pay", "lapse", "refund",
                      "deactivate", "sync"}]
  /\ acct \in [Call -> Account \cup {NoAccount}] /\ shop \in [Call -> Shop \cup {NoShop}]
  /\ mine \in [Call -> Plan] /\ had \in [Call -> BOOLEAN]
  /\ todo \in [Call -> Seq(Link)] /\ granted \in [Call -> 0 .. MaxSeats]
  /\ seen \in [Call -> Row]

Init ==
  /\ plan = [u \in Account |-> NoPlan]
  /\ links = [u \in Account |-> <<>>] /\ seat = [u \in Account |-> {}]
  /\ row = [s \in Shop |-> FreeRow] /\ subscribed = {}
  /\ pc = [c \in Call |-> "idle"] /\ op = [c \in Call |-> "none"]
  /\ acct = [c \in Call |-> NoAccount] /\ shop = [c \in Call |-> NoShop]
  /\ mine = [c \in Call |-> NoPlan] /\ had = [c \in Call |-> FALSE]
  /\ todo = [c \in Call |-> <<>>] /\ granted = [c \in Call |-> 0]
  /\ seen = [c \in Call |-> FreeRow]

-----------------------------------------------------------------------------
\* effectiveUserState, effectiveState: a lapsed licence counts while grace lasts.
Active(p) == p.state = "ACTIVE" \/ (p.state = "LAPSED" /\ p.grace)

Total(p) == IF ~Active(p) THEN 0 ELSE IF p.seats = 0 THEN 1 ELSE p.seats

Linked(u, s) == \E i \in DOMAIN links[u] : links[u][i] = s

Goto(c, from, to) == pc[c] = from /\ pc' = [pc EXCEPT ![c] = to]

\* A call ends, and forgets what it read.
Forget(c) ==
  /\ op' = [op EXCEPT ![c] = "none"]
  /\ acct' = [acct EXCEPT ![c] = NoAccount] /\ shop' = [shop EXCEPT ![c] = NoShop]
  /\ mine' = [mine EXCEPT ![c] = NoPlan] /\ had' = [had EXCEPT ![c] = FALSE]
  /\ todo' = [todo EXCEPT ![c] = <<>>] /\ granted' = [granted EXCEPT ![c] = 0]
  /\ seen' = [seen EXCEPT ![c] = FreeRow]

End(c, from) == Goto(c, from, "idle") /\ Forget(c)

Begin(c, o, u, s, at) ==
  /\ Goto(c, "idle", at)
  /\ op' = [op EXCEPT ![c] = o]
  /\ acct' = [acct EXCEPT ![c] = u] /\ shop' = [shop EXCEPT ![c] = s]
  /\ UNCHANGED <<tables, subscribed, mine, had, todo, granted, seen>>

\* What a call may be asked to do.
Ask(c) ==
  \/ \E u \in Account, s \in Shop :
       \/ Begin(c, "link", u, s, "user")
       \/ Begin(c, "unlink", u, s, "find")
       \/ Begin(c, "seat", u, s, "find")
       \/ Begin(c, "unseat", u, s, "find")
  \/ \E u \in Account :
       \/ \E o \in {"pay", "lapse", "refund"} : Begin(c, o, u, NoShop, "user")
       \/ Begin(c, "deactivate", u, NoShop, "plan")
  \/ \E s \in Shop : Begin(c, "sync", NoAccount, s, "sync")

-----------------------------------------------------------------------------
(* Links and seats *)

\* requireUser of linkShop; the account a billing event is bound to.
ReadUser(c) ==
  /\ Goto(c, "user", IF op[c] = "link" THEN "link" ELSE "plan")
  /\ mine' = [mine EXCEPT ![c] = plan[acct[c]]]
  /\ UNCHANGED <<tables, subscribed, call, had, todo, granted, seen>>

AddLink(c) ==
  LET u == acct[c]  s == shop[c] IN
  /\ Goto(c, "link", IF Active(mine[c]) /\ s \notin seat[u] THEN "usage" ELSE "apply")
  /\ links' = IF Linked(u, s) THEN links ELSE [links EXCEPT ![u] = Append(@, s)]
  /\ UNCHANGED <<plan, seat, row, subscribed, call, mine, had, todo, granted, seen>>

\* setSeat and unlinkShop look the link up.
Find(c) ==
  /\ pc[c] = "find"
  /\ IF Linked(acct[c], shop[c])
     THEN /\ Goto(c, "find", CASE op[c] = "seat" -> "active"
                               [] op[c] = "unseat" -> "mark"
                               [] op[c] = "unlink" -> "unlink")
          /\ had' = [had EXCEPT ![c] = shop[c] \in seat[acct[c]]]
          /\ UNCHANGED <<call, mine, todo, granted, seen>>
     ELSE End(c, "find")
  /\ UNCHANGED <<tables, subscribed>>

CheckActive(c) ==
  /\ pc[c] = "active"
  /\ IF Active(plan[acct[c]])
     THEN Goto(c, "active", "usage") /\ UNCHANGED <<call, mine, had, todo, granted, seen>>
     ELSE End(c, "active")
  /\ UNCHANGED <<tables, subscribed>>

\* seatUsage reads the account, then the links.
Usage(c) ==
  /\ Goto(c, "usage", "count")
  /\ mine' = [mine EXCEPT ![c] = plan[acct[c]]]
  /\ UNCHANGED <<tables, subscribed, call, had, todo, granted, seen>>

Used(u) == Cardinality(seat[u])

\* Seats that autoAssignSeats may still give out are counted in granted.
Count(c) ==
  LET free == Used(acct[c]) < Total(mine[c]) IN
  /\ pc[c] = "count"
  /\ IF op[c] = "seat" /\ ~had[c] /\ ~free
     THEN End(c, "count")
     ELSE /\ Goto(c, "count", CASE ~free /\ op[c] # "seat" -> "apply"
                                [] op[c] = "pay" -> "list"
                                [] OTHER -> "mark")
          /\ granted' = IF op[c] = "pay" /\ free
                        THEN [granted EXCEPT ![c] = Total(mine[c]) - Used(acct[c])]
                        ELSE granted
          /\ UNCHANGED <<call, mine, had, todo, seen>>
  /\ UNCHANGED <<tables, subscribed>>

LinksOf(u) == [i \in DOMAIN links[u] |-> [shop |-> links[u][i], seat |-> links[u][i] \in seat[u]]]

List(c) ==
  /\ Goto(c, "list", "fill")
  /\ todo' = [todo EXCEPT ![c] = LinksOf(acct[c])]
  /\ UNCHANGED <<tables, subscribed, call, mine, had, granted, seen>>

\* autoAssignSeats: one update for each link that had no seat when it was listed.
Fill(c) ==
  /\ pc[c] = "fill"
  /\ IF todo[c] = <<>> \/ granted[c] = 0
     THEN Goto(c, "fill", "apply") /\ UNCHANGED <<seat, todo, granted>>
     ELSE LET l == Head(todo[c]) IN
          /\ UNCHANGED pc
          /\ todo' = [todo EXCEPT ![c] = Tail(@)]
          /\ IF l.seat THEN UNCHANGED <<seat, granted>>
             ELSE /\ granted' = [granted EXCEPT ![c] = @ - 1]
                  /\ seat' = IF Linked(acct[c], l.shop)
                             THEN [seat EXCEPT ![acct[c]] = @ \cup {l.shop}] ELSE seat
  /\ UNCHANGED <<plan, links, row, subscribed, call, mine, had, seen>>

Mark(c) ==
  LET u == acct[c]  s == shop[c] IN
  /\ Goto(c, "mark", "apply")
  /\ seat' = IF op[c] = "unseat" THEN [seat EXCEPT ![u] = @ \ {s}]
             ELSE IF Linked(u, s) THEN [seat EXCEPT ![u] = @ \cup {s}] ELSE seat
  /\ UNCHANGED <<plan, links, row, subscribed, call, mine, had, todo, granted, seen>>

\* The links but for one; a shop is linked to an account once.
Without(l, s) ==
  LET k == CHOOSE i \in DOMAIN l : l[i] = s IN
  IF \E i \in DOMAIN l : l[i] = s THEN SubSeq(l, 1, k - 1) \o SubSeq(l, k + 1, Len(l)) ELSE l

\* Fault: the seat of an unlinked shop is not taken back.
RemoveLinkOnly(c) ==
  LET u == acct[c]  s == shop[c] IN
  /\ End(c, "unlink")
  /\ links' = [links EXCEPT ![u] = Without(@, s)]
  /\ seat' = [seat EXCEPT ![u] = @ \ {s}]
  /\ UNCHANGED <<plan, row, subscribed>>

RemoveLink(c) ==
  LET u == acct[c]  s == shop[c] IN
  /\ Goto(c, "unlink", "release")
  /\ links' = [links EXCEPT ![u] = Without(@, s)]
  /\ seat' = [seat EXCEPT ![u] = @ \ {s}]
  /\ UNCHANGED <<plan, row, subscribed, call, mine, had, todo, granted, seen>>

\* Fault: releaseSeat does not ask whose row it is.
ReleaseAny(c) ==
  /\ Goto(c, "release", "free")
  /\ seen' = [seen EXCEPT ![c] = row[shop[c]]]
  /\ UNCHANGED <<tables, subscribed, call, mine, had, todo, granted>>

\* releaseSeat
Release(c) ==
  /\ pc[c] = "release"
  /\ IF row[shop[c]].tag = acct[c]
     THEN /\ Goto(c, "release", "free")
          /\ seen' = [seen EXCEPT ![c] = row[shop[c]]]
          /\ UNCHANGED <<call, mine, had, todo, granted>>
     ELSE End(c, "release")
  /\ UNCHANGED <<tables, subscribed>>

Free(c) ==
  /\ End(c, "free")
  /\ row' = [row EXCEPT ![shop[c]] = FreeRow]
  /\ UNCHANGED <<plan, links, seat, subscribed>>

-----------------------------------------------------------------------------
(* Billing *)

\* activateLicense, applyWebhookOutcome, adminSetPlan, deactivateLicense.
UpdatePlan(c) ==
  LET u == acct[c]
      old == IF mine[c].seats = 0 THEN 1 ELSE mine[c].seats IN
  /\ Goto(c, "plan", IF op[c] = "pay" THEN "usage" ELSE "apply")
  /\ \E n \in 1 .. MaxSeats :
       plan' = [plan EXCEPT ![u] =
                  CASE op[c] = "pay" -> [state |-> "ACTIVE", grace |-> FALSE, seats |-> n]
                    [] op[c] = "lapse" -> [state |-> "LAPSED", grace |-> TRUE, seats |-> old]
                    [] op[c] = "refund" -> [state |-> "LAPSED", grace |-> FALSE, seats |-> old]
                    [] op[c] = "deactivate" -> NoPlan]
  /\ UNCHANGED <<links, seat, row, subscribed, call, mine, had, todo, granted, seen>>

\* applySeats reads the account, then its links, then walks them.
Apply(c) ==
  /\ Goto(c, "apply", "links")
  /\ mine' = [mine EXCEPT ![c] = plan[acct[c]]]
  /\ granted' = [granted EXCEPT ![c] = 0]
  /\ UNCHANGED <<tables, subscribed, call, had, todo, seen>>

ReadLinks(c) ==
  /\ pc[c] = "links"
  /\ IF links[acct[c]] = <<>> THEN End(c, "links")
     ELSE /\ Goto(c, "links", "look")
          /\ todo' = [todo EXCEPT ![c] = LinksOf(acct[c])]
          /\ UNCHANGED <<call, mine, had, granted, seen>>
  /\ UNCHANGED <<tables, subscribed>>

Managed(u, r) == r.tag = u \/ r.state = "FREE"

PaidBy(u, r) == r.tag = u /\ r.state # "FREE"

\* The loop goes on with the next link, or applySeats is done.
Visited(c, from, given) ==
  IF Len(todo[c]) = 1 THEN End(c, from)
  ELSE /\ Goto(c, from, "look")
       /\ todo' = [todo EXCEPT ![c] = Tail(@)]
       /\ granted' = [granted EXCEPT ![c] = @ + given]
       /\ seen' = [seen EXCEPT ![c] = FreeRow]
       /\ UNCHANGED <<call, mine, had>>

Look(c) ==
  LET l == Head(todo[c])  r == row[l.shop]  u == acct[c]
      serves == l.seat /\ granted[c] < Total(mine[c]) IN
  /\ pc[c] = "look"
  /\ \/ /\ Managed(u, r) /\ (serves \/ PaidBy(u, r))
        /\ Goto(c, "look", IF serves THEN "grant" ELSE "revoke")
        /\ seen' = [seen EXCEPT ![c] = r]
        /\ UNCHANGED <<call, mine, had, todo, granted>>
     \/ /\ ~(Managed(u, r) /\ (serves \/ PaidBy(u, r)))
        /\ Visited(c, "look", 0)
  /\ UNCHANGED <<tables, subscribed>>

Grant(c) ==
  /\ pc[c] = "grant"
  /\ row' = [row EXCEPT ![Head(todo[c]).shop] =
               [state |-> mine[c].state, grace |-> mine[c].grace, tag |-> acct[c]]]
  /\ Visited(c, "grant", 1)
  /\ UNCHANGED <<plan, links, seat, subscribed>>

Revoke(c) ==
  /\ pc[c] = "revoke"
  /\ row' = [row EXCEPT ![Head(todo[c]).shop] = FreeRow]
  /\ Visited(c, "revoke", 0)
  /\ UNCHANGED <<plan, links, seat, subscribed>>

\* A grace window ends, for all that carries its deadline: an account, its rows and
\* what calls have read of it; or the rows of a licence.
GraceEnds(x) ==
  /\ plan' = [u \in Account |-> IF u = x THEN [plan[u] EXCEPT !.grace = FALSE] ELSE plan[u]]
  /\ row' = [s \in Shop |-> IF row[s].tag = x THEN [row[s] EXCEPT !.grace = FALSE] ELSE row[s]]
  /\ mine' = [c \in Call |-> IF acct[c] = x THEN [mine[c] EXCEPT !.grace = FALSE] ELSE mine[c]]
  /\ UNCHANGED <<links, seat, subscribed, pc, call, had, todo, granted, seen>>

-----------------------------------------------------------------------------
(* The shop's own subscription and licence *)

\* syncShopifySubscription reads the row, asks Shopify, and only then writes.
Sync(c) ==
  /\ Goto(c, "sync", "ask")
  /\ seen' = [seen EXCEPT ![c] = row[shop[c]]]
  /\ UNCHANGED <<tables, subscribed, call, mine, had, todo, granted>>

Ends(r) == r.tag = "shopify" /\ r.state # "FREE"

Bills(r) == r.state = "FREE" \/ (r.tag = "shopify" /\ r.state # "ACTIVE")

AskShopify(c) ==
  /\ pc[c] = "ask"
  /\ \/ /\ shop[c] \in subscribed /\ Bills(seen[c])
        /\ Goto(c, "ask", "bill") /\ UNCHANGED <<call, mine, had, todo, granted, seen>>
     \/ /\ shop[c] \notin subscribed /\ Ends(seen[c])
        /\ Goto(c, "ask", "unbill") /\ UNCHANGED <<call, mine, had, todo, granted, seen>>
     \/ /\ IF shop[c] \in subscribed THEN ~Bills(seen[c]) ELSE ~Ends(seen[c])
        /\ End(c, "ask")
  /\ UNCHANGED <<tables, subscribed>>

Bill(c) ==
  /\ End(c, "bill")
  /\ row' = [row EXCEPT ![shop[c]] = [state |-> "ACTIVE", grace |-> FALSE, tag |-> "shopify"]]
  /\ UNCHANGED <<plan, links, seat, subscribed>>

Unbill(c) ==
  /\ End(c, "unbill")
  /\ row' = [row EXCEPT ![shop[c]] = FreeRow]
  /\ UNCHANGED <<plan, links, seat, subscribed>>

\* The merchant subscribes in Shopify, or ends the subscription.
Subscription(s) ==
  /\ subscribed' = IF s \in subscribed THEN subscribed \ {s} ELSE subscribed \cup {s}
  /\ UNCHANGED <<tables, pc, call, mine, had, todo, granted, seen>>

\* activateKey, deactivate, and the webhook for a licence bound to a shop: one upsert
\* each, whatever the row was.
License(s) ==
  /\ \E r \in {[state |-> "ACTIVE", grace |-> FALSE, tag |-> "freemius"],
               [state |-> "LAPSED", grace |-> TRUE, tag |-> "freemius"],
               [state |-> "LAPSED", grace |-> FALSE, tag |-> "freemius"], FreeRow} :
       row' = [row EXCEPT ![s] = r]
  /\ UNCHANGED <<plan, links, seat, subscribed, pc, call, mine, had, todo, granted, seen>>

Step(c) ==
  \/ ReadUser(c) \/ AddLink(c) \/ Find(c) \/ CheckActive(c) \/ Usage(c) \/ Count(c)
  \/ List(c) \/ Fill(c) \/ Mark(c) \/ RemoveLink(c) \/ Release(c) \/ Free(c)
  \/ UpdatePlan(c) \/ Apply(c) \/ ReadLinks(c) \/ Look(c) \/ Grant(c) \/ Revoke(c)
  \/ Sync(c) \/ AskShopify(c) \/ Bill(c) \/ Unbill(c)

Quiet == \A c \in Call : pc[c] = "idle"

Outside ==
  \/ \E x \in Account \cup {"freemius"} : GraceEnds(x)
  \/ \E s \in Shop : Subscription(s) \/ License(s)

Next == (\E c \in Call : Ask(c) \/ Step(c)) \/ Outside

Spec == Init /\ [][Next]_vars

\* One thing at a time: what happens outside waits for the call in progress.
NextAlone == (\E c \in Call : (Quiet /\ Ask(c)) \/ Step(c)) \/ (Quiet /\ Outside)

SpecAlone == Init /\ [][NextAlone]_vars
-----------------------------------------------------------------------------
(* Properties *)

\* The shops an account's licence pays for are shops it gave a seat to, and no more
\* than the licence has: through links, seats moved and taken back, licences that
\* grow, shrink, lapse and are refunded, and shops that change hands.
NoUnpaidShop ==
  Quiet => \A u \in Account :
    LET paid == {s \in Shop : row[s].tag = u /\ Active(row[s])} IN
    paid \subseteq seat[u] /\ Cardinality(paid) <= Total(plan[u])

\* Who pays for the rows that a call writes.
Payer(c) == IF op[c] = "sync" THEN "shopify" ELSE acct[c]

\* The row has another owner or state than the call read.
Overtaken(c, s) == row[s].tag # seen[c].tag \/ row[s].state # seen[c].state

WritesRow(c) == Grant(c) \/ Revoke(c) \/ Free(c) \/ Bill(c) \/ Unbill(c)

\* accounts/service.ts:8 and :299, shopify/billing.ts:60, as far as they are true of calls
\* that overlap: a row that pays for a shop is taken from its owner by the owner, by a
\* licence of the shop itself, or by a call that another one overtook between its read
\* of the row and its write.
OwnRowsOnly ==
  [][\A s \in Shop :
       row[s].state # "FREE" /\ row'[s].tag # row[s].tag =>
         \/ License(s)
         \/ \E c \in Call : WritesRow(c) /\ (row[s].tag = Payer(c) \/ Overtaken(c, s))]_vars

\* shopify/billing.ts:60: syncShopifySubscription "Never downgrades a row owned by an
\* account seat or a Freemius licence."
BillingEndsItsOwn ==
  [][\A c \in Call : Unbill(c) => row[shop[c]].tag = "shopify"]_vars

\* The rows are entitlement rows, and once no request is in progress an account pays for no
\* more than its licence has seats (applySeats, unlinkShop).
EntitlementsSafe == TypeOK /\ NoUnpaidShop
=============================================================================
