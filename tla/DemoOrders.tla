----------------------------- MODULE DemoOrders -----------------------------
(***************************************************************************)
(* Orders, draft orders, fulfilments, returns and customers of the demo    *)
(* shop, as the wrapper functions ask for them and the fake answers        *)
(* (packages/shopify-admin/src/operations/commerce-ops.ts and              *)
(* fake-commerce-ops.ts).  An order has one fulfilment order and one line, *)
(* or no line: nothing asks of a draft that it has any.  Which orders a    *)
(* customer has is kept twice: with the customer and with each order.      *)
(***************************************************************************)
EXTENDS Naturals, FiniteSets, TLC

CONSTANTS Email,
          MaxOrders, MaxDrafts, MaxCustomers, \* bounds: how many are ever created
          MaxItems                         \* of an order's line; none is a quantity of 0

ASSUME DemoOrdersAssumption ==
  /\ {MaxOrders, MaxCustomers, MaxItems} \subseteq Nat \ {0}
  /\ MaxDrafts \in Nat /\ Email # {}

VARIABLES
  orders,     \* by number
  drafts,     \* the live drafts by number
  customers,  \* by number: an email if any, and the orders
  numbered,   \* how many of each were created
  orderReply  \* how the last request was answered

orderVars == <<orders, drafts, customers, numbered, orderReply>>

OrderId == 1 .. MaxOrders
DraftId == 1 .. MaxDrafts
CustomerId == 1 .. MaxCustomers
AtMostOne(S) == {{}} \cup {{x} : x \in S}
Fulfillment == {"UNFULFILLED", "PARTIALLY_FULFILLED", "FULFILLED"}
\* The marks that no request reads (paid, refunded, closed) are left out; of the fulfilments and
\* the returns it matters whether there are any.
Order == [customer : AtMostOne(CustomerId), fulfillment : Fulfillment, open : BOOLEAN,
          remaining : 0 .. MaxItems, shipped : BOOLEAN, returned : BOOLEAN,
          cancelled : BOOLEAN, draft : 0 .. MaxDrafts]
DraftOrder == [customer : AtMostOne(CustomerId), quantity : 0 .. MaxItems, order : 0 .. MaxOrders]
Customer == [email : AtMostOne(Email), orders : SUBSET OrderId]

IsTable(f, Ids, Records) == DOMAIN f \subseteq Ids /\ \A i \in DOMAIN f : f[i] \in Records
DemoOrdersTypeOK ==
  /\ IsTable(orders, 1 .. numbered.orders, Order)
  /\ IsTable(drafts, 1 .. numbered.drafts, DraftOrder)
  /\ IsTable(customers, 1 .. numbered.customers, Customer)
  /\ numbered \in [orders : 0 .. MaxOrders, drafts : 0 .. MaxDrafts, customers : 0 .. MaxCustomers]
  /\ orderReply \in {"done", "refused"}

NewOrder(customer, quantity, draft) ==
  [customer |-> customer, fulfillment |-> "UNFULFILLED", open |-> TRUE, remaining |-> quantity,
   shipped |-> FALSE, returned |-> FALSE, cancelled |-> FALSE, draft |-> draft]

\* seedDemoCommerce: a customer with an order that waits for its fulfilment.
DemoOrdersInit ==
  /\ orders = 1 :> NewOrder({1}, 1, 0)
  /\ drafts = <<>>
  /\ \E e \in Email : customers = 1 :> [email |-> {e}, orders |-> {1}]
  /\ numbered = [orders |-> 1, drafts |-> 0, customers |-> 1]
  /\ orderReply = "done"

RefuseOrder == orderReply' = "refused" /\ UNCHANGED <<orders, drafts, customers, numbered>>
Drop(f, x) == [y \in DOMAIN f \ {x} |-> f[y]]

-----------------------------------------------------------------------------
(* The requests: what the wrapper functions ask for *)

UpdateOrder(o) == [op |-> "OrderUpdate", id |-> o]
CloseOrder(o) == [op |-> "OrderClose", id |-> o]
CancelOrder(o) == [op |-> "OrderCancel", id |-> o]
CreateDraftOrder(customer, q) == [op |-> "DraftOrderCreate", customer |-> customer, quantity |-> q]
UpdateDraftOrder(d, customer, q) ==
  [op |-> "DraftOrderUpdate", id |-> d, customer |-> customer, quantity |-> q]
CompleteDraftOrder(d) == [op |-> "DraftOrderComplete", id |-> d]
DeleteDraftOrder(d) == [op |-> "DraftOrderDelete", id |-> d]
SendDraftOrderInvoice(d) == [op |-> "DraftOrderInvoiceSend", id |-> d]
\* Without a quantity, all that remains is sent.
CreateFulfillment(o, q) == [op |-> "FulfillmentCreate", id |-> o, quantity |-> q]
CreateReturn(o) == [op |-> "ReturnCreate", id |-> o]
UpdateCustomer(c) == [op |-> "CustomerUpdate", id |-> c]
CreateCustomer(email) == [op |-> "CustomerCreate", email |-> email]

OrderRequest ==
  LET O == 1 .. numbered.orders
      D == 1 .. numbered.drafts
      C == AtMostOne(1 .. MaxCustomers)
      Q == 0 .. MaxItems
  IN  {UpdateOrder(o) : o \in O} \cup {CloseOrder(o) : o \in O}
      \cup {CancelOrder(o) : o \in O}
      \cup {CreateDraftOrder(c, q) : c \in C, q \in Q}
      \cup {UpdateDraftOrder(d, c, q) : d \in D, c \in C, q \in AtMostOne(Q)}
      \cup {CompleteDraftOrder(d) : d \in D}
      \cup {DeleteDraftOrder(d) : d \in D} \cup {SendDraftOrderInvoice(d) : d \in D}
      \cup {CreateFulfillment(o, q) : o \in O, q \in AtMostOne(0 .. MaxItems)}
      \cup {CreateReturn(o) : o \in O}
      \cup {UpdateCustomer(c) : c \in 1 .. MaxCustomers}
      \cup {CreateCustomer(e) : e \in AtMostOne(Email)}

-----------------------------------------------------------------------------
(* Orders *)

\* A request about an order: refused when the order is not there or Test fails.
OrderStep(q, op, Test(_), Becomes(_)) ==
  /\ q.op = op
  /\ IF q.id \in DOMAIN orders /\ Test(orders[q.id])
     THEN /\ orders' = [orders EXCEPT ![q.id] = Becomes(@)]
          /\ orderReply' = "done" /\ UNCHANGED <<drafts, customers, numbered>>
     ELSE RefuseOrder

\* The note, the tags, the email and the closed mark of the order are left out.
OrderUpdate(q) == OrderStep(q, "OrderUpdate", LAMBDA o : TRUE, LAMBDA o : o)
OrderClose(q) == OrderStep(q, "OrderClose", LAMBDA o : TRUE, LAMBDA o : o)

OrderCancel(q) ==
  OrderStep(q, "OrderCancel", LAMBDA o : o.fulfillment # "FULFILLED",
            LAMBDA o : [o EXCEPT !.cancelled = TRUE])

Left(o, quantity) ==
  LET sent == IF quantity = {} THEN o.remaining ELSE CHOOSE n \in quantity : TRUE
  IN  IF sent >= o.remaining THEN 0 ELSE o.remaining - sent

\* The fulfilment order is closed when nothing remains; a cancelled order is sent like another.
Shipped(o, q) ==
  [o EXCEPT !.remaining = Left(o, q.quantity), !.open = Left(o, q.quantity) > 0,
            !.fulfillment = IF Left(o, q.quantity) = 0 THEN "FULFILLED" ELSE "PARTIALLY_FULFILLED",
            !.shipped = TRUE]
FulfillmentCreate(q) ==
  OrderStep(q, "FulfillmentCreate", LAMBDA o : o.open, LAMBDA o : Shipped(o, q))

ReturnCreate(q) ==
  OrderStep(q, "ReturnCreate", LAMBDA o : o.shipped, LAMBDA o : [o EXCEPT !.returned = TRUE])

-----------------------------------------------------------------------------
(* Draft orders *)

IsCustomer(c) == c \subseteq DOMAIN customers

DraftOrderCreate(q) ==
  /\ q.op = "DraftOrderCreate"
  /\ IF IsCustomer(q.customer)
     THEN /\ numbered.drafts < MaxDrafts
          /\ numbered' = [numbered EXCEPT !.drafts = @ + 1]
          /\ drafts' = numbered'.drafts :> [customer |-> q.customer, quantity |-> q.quantity, order |-> 0]
                       @@ drafts
          /\ orderReply' = "done" /\ UNCHANGED <<orders, customers>>
     ELSE RefuseOrder

\* What is not given stays.  A draft that was completed is written like another.
DraftOrderUpdate(q) ==
  /\ q.op = "DraftOrderUpdate"
  /\ IF q.id \in DOMAIN drafts /\ IsCustomer(q.customer)
     THEN /\ drafts' = [drafts EXCEPT
               ![q.id].customer = IF q.customer = {} THEN @ ELSE q.customer,
               ![q.id].quantity = IF q.quantity = {} THEN @ ELSE CHOOSE n \in q.quantity : TRUE]
          /\ orderReply' = "done" /\ UNCHANGED <<orders, customers, numbered>>
     ELSE RefuseOrder

\* The order takes the customer and the lines of the draft, and the customer gets the order.
\* Fault: whether the draft was completed before is not asked.
CompletesAlways(d) == TRUE
Completes(d) == drafts[d].order = 0
CustomersWith(d) ==
  [c \in DOMAIN customers |-> IF c \in drafts[d].customer
                              THEN [customers[c] EXCEPT !.orders = @ \cup {numbered.orders + 1}]
                              ELSE customers[c]]
DraftOrderComplete(q) ==
  /\ q.op = "DraftOrderComplete"
  /\ IF q.id \in DOMAIN drafts /\ Completes(q.id)
     THEN /\ numbered.orders < MaxOrders
          /\ numbered' = [numbered EXCEPT !.orders = @ + 1]
          /\ orders' = numbered'.orders :> NewOrder(drafts[q.id].customer, drafts[q.id].quantity, q.id)
                       @@ orders
          /\ customers' = CustomersWith(q.id)
          /\ drafts' = [drafts EXCEPT ![q.id].order = numbered'.orders]
          /\ orderReply' = "done"
     ELSE RefuseOrder

\* The order of a completed draft stays.
DraftOrderDelete(q) ==
  /\ q.op = "DraftOrderDelete"
  /\ IF q.id \in DOMAIN drafts
     THEN /\ drafts' = Drop(drafts, q.id)
          /\ orderReply' = "done" /\ UNCHANGED <<orders, customers, numbered>>
     ELSE RefuseOrder

DraftOrderInvoiceSend(q) ==
  /\ q.op = "DraftOrderInvoiceSend"
  /\ orderReply' = (IF q.id \in DOMAIN drafts THEN "done" ELSE "refused")
  /\ UNCHANGED <<orders, drafts, customers, numbered>>

-----------------------------------------------------------------------------
(* Customers *)

\* Names, tags and the note; the email cannot be changed.
CustomerUpdate(q) ==
  /\ q.op = "CustomerUpdate"
  /\ orderReply' = (IF q.id \in DOMAIN customers THEN "done" ELSE "refused")
  /\ UNCHANGED <<orders, drafts, customers, numbered>>

EmailTaken(email) == \E c \in DOMAIN customers : email # {} /\ customers[c].email = email
CustomerCreate(q) ==
  /\ q.op = "CustomerCreate"
  /\ IF EmailTaken(q.email) THEN RefuseOrder
     ELSE /\ numbered.customers < MaxCustomers
          /\ numbered' = [numbered EXCEPT !.customers = @ + 1]
          /\ customers' = numbered'.customers :> [email |-> q.email, orders |-> {}] @@ customers
          /\ orderReply' = "done" /\ UNCHANGED <<orders, drafts>>

-----------------------------------------------------------------------------
DemoOrdersNext ==
  \E q \in OrderRequest :
    \/ OrderUpdate(q) \/ OrderClose(q) \/ OrderCancel(q) \/ FulfillmentCreate(q) \/ ReturnCreate(q)
    \/ DraftOrderCreate(q) \/ DraftOrderUpdate(q) \/ DraftOrderComplete(q)
    \/ DraftOrderDelete(q) \/ DraftOrderInvoiceSend(q)
    \/ CustomerUpdate(q) \/ CustomerCreate(q)

\* What getOrder and getCustomer show of each other.
GetOrder(o) == {orders[i].customer : i \in DOMAIN orders \cap {o}}
GetCustomer(c) == {customers[i].orders : i \in DOMAIN customers \cap {c}}

-----------------------------------------------------------------------------
(* Properties *)

\* An order and a customer agree on whether the one is the other's, however the draft that the
\* order came from is written to after it was completed, and whether it was deleted.
CustomersAgree ==
  \A o \in OrderId, c \in CustomerId :
    \A of \in GetOrder(o), has \in GetCustomer(c) : c \in of <=> o \in has

\* A draft makes one order, however often it is completed, and names it as long as it is there.
OneOrderForADraft ==
  /\ \A o, p \in DOMAIN orders : orders[o].draft # 0 /\ orders[o].draft = orders[p].draft => o = p
  /\ \A d \in DOMAIN drafts : drafts[d].order # 0 =>
       drafts[d].order \in DOMAIN orders /\ orders[drafts[d].order].draft = d

\* Once something of an order was sent, it is fulfilled and its fulfilment order is closed when
\* nothing remains, and then only; no sequence of partial shipments leaves the three apart.  Until
\* then it is open and unfulfilled, one without lines too: that takes a shipment of nothing.
FulfilledMeansSent ==
  \A o \in DOMAIN orders :
    /\ orders[o].fulfillment = "FULFILLED" <=> ~orders[o].open
    /\ orders[o].fulfillment = "UNFULFILLED" <=> ~orders[o].shipped
    /\ orders[o].shipped => (orders[o].open <=> orders[o].remaining > 0)
    /\ orders[o].returned => orders[o].shipped

\* An order is not cancelled after all of it was sent.
SentIsNotCancelled ==
  [][\A o \in DOMAIN orders :
       orders[o].fulfillment = "FULFILLED" => orders'[o].cancelled = orders[o].cancelled]_orderVars

\* No two customers have one email.
EmailOnce ==
  \A c, d \in DOMAIN customers : customers[c].email = customers[d].email => c = d \/ customers[c].email = {}

-----------------------------------------------------------------------------
(***************************************************************************)
(* Discounts, webhook subscriptions, the web pixel, script tags and        *)
(* attached functions of the demo shop, as the wrapper functions ask for   *)
(* them (packages/shopify-admin/src/operations/commerce-ops.ts and         *)
(* advanced.ts) and the fakes answer (fake-commerce-ops.ts and             *)
(* fake-advanced.ts).                                                      *)
(***************************************************************************)

CONSTANTS Code, SeededCode,   \* discount codes, and that of the seeded discount
          Address, BadAddress, \* addresses of webhooks, and those that are not accepted on creation
          MaxOffers           \* bound: how many of each kind are ever created

ASSUME DemoOffersAssumption ==
  SeededCode \in Code /\ BadAddress \subseteq Address /\ MaxOffers \in Nat \ {0}

VARIABLES
  discounts, \* the live discounts by number
  webhooks,  \* the live subscriptions to one topic by number: their address
  pixel,     \* the web pixel, if there is one: its number and its settings
  scriptTags, \* the script tags that are left
  attached,  \* whether the function of the app was attached
  issued,    \* how many discounts, webhooks and pixels were created
  offerReply \* how the last request was answered, and which number it named

offerVars == <<discounts, webhooks, pixel, scriptTags, attached, issued, offerReply>>

OfferId == 1 .. MaxOffers
Discount == [code : {{}} \cup {{c} : c \in Code}, active : BOOLEAN]
DemoOffersTypeOK ==
  /\ DOMAIN discounts \subseteq 1 .. issued.discounts /\ \A d \in DOMAIN discounts : discounts[d] \in Discount
  /\ DOMAIN webhooks \subseteq 1 .. issued.webhooks /\ \A w \in DOMAIN webhooks : webhooks[w] \in Address
  /\ Cardinality(pixel) <= 1 /\ \A p \in pixel : p \in [id : 1 .. issued.pixels, settings : {"first", "second"}]
  /\ scriptTags \subseteq {1} /\ attached \in BOOLEAN
  /\ issued \in [discounts : 0 .. MaxOffers, webhooks : 0 .. MaxOffers, pixels : 0 .. MaxOffers]
  /\ offerReply \in [result : {"done", "refused"}, id : 0 .. MaxOffers]

\* seedDemoCommerce and seedDemoAdvanced.
DemoOffersInit ==
  /\ discounts = 1 :> [code |-> {SeededCode}, active |-> TRUE]
  /\ \E a \in Address \ BadAddress : webhooks = 1 :> a
  /\ pixel = {} /\ scriptTags = {1} /\ attached = FALSE
  /\ issued = [discounts |-> 1, webhooks |-> 1, pixels |-> 0]
  /\ offerReply = [result |-> "done", id |-> 0]

OfferAnswer(result, id) == offerReply' = [result |-> result, id |-> id]
RefuseOffer(id) ==
  OfferAnswer("refused", id) /\ UNCHANGED <<discounts, webhooks, pixel, scriptTags, attached, issued>>
Issue(kind) == issued[kind] < MaxOffers /\ issued' = [issued EXCEPT ![kind] = @ + 1]
Cut(f, x) == [y \in DOMAIN f \ {x} |-> f[y]]

-----------------------------------------------------------------------------
(* Discounts; the value, the dates and the limits are left out *)

CodeTaken(code) == \E d \in DOMAIN discounts : code # {} /\ discounts[d].code = code
\* The discount is made; Blank: a discount without a value is refused after its code was looked up.
MakeDiscount(code, blank) ==
  IF CodeTaken(code) \/ blank THEN RefuseOffer(0)
  ELSE /\ Issue("discounts") /\ OfferAnswer("done", 0)
       /\ discounts' = issued'.discounts :> [code |-> code, active |-> TRUE] @@ discounts
       /\ UNCHANGED <<webhooks, pixel, scriptTags, attached>>
CreateBasicCodeDiscount == \E c \in Code, blank \in BOOLEAN : MakeDiscount({c}, blank)
CreateFreeShippingCodeDiscount == \E c \in Code : MakeDiscount({c}, FALSE)
CreateBasicAutomaticDiscount == MakeDiscount({}, FALSE)

\* The method that the caller names need not be that of the discount.
SetDiscountActive(d, active) ==
  IF d \notin DOMAIN discounts THEN RefuseOffer(d)
  ELSE /\ discounts' = [discounts EXCEPT ![d].active = active] /\ OfferAnswer("done", d)
       /\ UNCHANGED <<webhooks, pixel, scriptTags, attached, issued>>

DeleteDiscount(d) ==
  IF d \notin DOMAIN discounts THEN RefuseOffer(d)
  ELSE /\ discounts' = Cut(discounts, d) /\ OfferAnswer("done", d)
       /\ UNCHANGED <<webhooks, pixel, scriptTags, attached, issued>>

-----------------------------------------------------------------------------
(* Webhook subscriptions *)

CreateWebhookSubscription(a) ==
  IF a \in BadAddress \/ (\E w \in DOMAIN webhooks : webhooks[w] = a) THEN RefuseOffer(0)
  ELSE /\ Issue("webhooks") /\ OfferAnswer("done", 0)
       /\ webhooks' = issued'.webhooks :> a @@ webhooks
       /\ UNCHANGED <<discounts, pixel, scriptTags, attached>>

\* Neither the form of the address nor whether it is taken is asked again.
UpdateWebhookSubscription(w, a) ==
  IF w \notin DOMAIN webhooks THEN RefuseOffer(w)
  ELSE /\ webhooks' = [webhooks EXCEPT ![w] = a] /\ OfferAnswer("done", w)
       /\ UNCHANGED <<discounts, pixel, scriptTags, attached, issued>>

DeleteWebhookSubscription(w) ==
  IF w \notin DOMAIN webhooks THEN RefuseOffer(w)
  ELSE /\ webhooks' = Cut(webhooks, w) /\ OfferAnswer("done", w)
       /\ UNCHANGED <<discounts, pixel, scriptTags, attached, issued>>

-----------------------------------------------------------------------------
(* The web pixel, script tags and functions *)

CreateWebPixel(settings) ==
  IF pixel # {} THEN RefuseOffer(0)
  ELSE /\ Issue("pixels") /\ OfferAnswer("done", 0)
       /\ pixel' = {[id |-> issued'.pixels, settings |-> settings]}
       /\ UNCHANGED <<discounts, webhooks, scriptTags, attached>>

ThePixel(i) == \E p \in pixel : p.id = i
UpdateWebPixel(i, settings) ==
  IF ~ThePixel(i) THEN RefuseOffer(i)
  ELSE /\ pixel' = {[p EXCEPT !.settings = settings] : p \in pixel} /\ OfferAnswer("done", i)
       /\ UNCHANGED <<discounts, webhooks, scriptTags, attached, issued>>
DeleteWebPixel(i) ==
  IF ~ThePixel(i) THEN RefuseOffer(i)
  ELSE /\ pixel' = {} /\ OfferAnswer("done", i)
       /\ UNCHANGED <<discounts, webhooks, scriptTags, attached, issued>>

DeleteScriptTag ==
  IF scriptTags = {} THEN RefuseOffer(1)
  ELSE /\ scriptTags' = {} /\ OfferAnswer("done", 1)
       /\ UNCHANGED <<discounts, webhooks, pixel, attached, issued>>

\* createAppDiscount, createCartTransform, createValidation and createCustomization.
AttachFunction(found) ==
  IF ~found THEN RefuseOffer(0)
  ELSE /\ attached' = TRUE /\ OfferAnswer("done", 0)
       /\ UNCHANGED <<discounts, webhooks, pixel, scriptTags, issued>>

-----------------------------------------------------------------------------
DemoOffersNext ==
  \/ CreateBasicCodeDiscount \/ CreateFreeShippingCodeDiscount \/ CreateBasicAutomaticDiscount
  \/ \E d \in OfferId : DeleteDiscount(d) \/ \E active \in BOOLEAN : SetDiscountActive(d, active)
  \/ \E a \in Address : CreateWebhookSubscription(a)
  \/ \E w \in OfferId : DeleteWebhookSubscription(w) \/ \E a \in Address : UpdateWebhookSubscription(w, a)
  \/ \E s \in {"first", "second"} : CreateWebPixel(s) \/ \E i \in OfferId : UpdateWebPixel(i, s)
  \/ \E i \in OfferId : DeleteWebPixel(i)
  \/ DeleteScriptTag
  \/ \E found \in BOOLEAN : AttachFunction(found)

-----------------------------------------------------------------------------
(* Properties *)

\* A code leads to one discount, whether it is active or not: activating an old discount cannot
\* make two of one code.
CodeOnce ==
  \A d, e \in DOMAIN discounts : discounts[d].code \cap discounts[e].code # {} => d = e

\* The pixel changes and goes only by a request that names it: a client that still holds the
\* number of an earlier pixel touches nothing.
PixelByItsNumber ==
  [][\A p \in pixel : pixel' # pixel => offerReply'.id = p.id]_offerVars
=============================================================================
