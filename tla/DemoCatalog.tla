---------------------------- MODULE DemoCatalog ----------------------------
(***************************************************************************)
(* The products, collections and publications of the shop that demo mode   *)
(* and the tests run against, as the wrapper functions ask for them and    *)
(* FakeAdminClient answers (packages/shopify-admin/src/operations/         *)
(* products.ts, collections.ts, publications.ts, catalog-extra.ts, fake.ts *)
(* and fake-catalog-extra.ts).  A request is one step of the shop.  Which  *)
(* products a collection has is kept twice: with the collection, in order, *)
(* and with each product.                                                  *)
(***************************************************************************)
EXTENDS Sequences, SequencesExt, Integers, FiniteSets

CONSTANTS MaxProducts,    \* bound: products ever created
          MaxCollections, \* bound: collections ever created
          MaxRefs,        \* bound: collections a product is told of, repeats included
          Publication

ASSUME DemoCatalogAssumption ==
  MaxProducts \in Nat \ {0} /\ MaxCollections \in Nat \ {0} /\ MaxRefs \in Nat

VARIABLES
  products,     \* the live products by number
  collections,  \* the live collections by number: their products in order
  made,         \* how many products and collections were created
  catalogReply  \* whether the last request was answered with userErrors

catalogVars == <<products, collections, made, catalogReply>>

ProductId == 1 .. MaxProducts
CollectionId == 1 .. MaxCollections
ProductStatus == {"ACTIVE", "DRAFT"}
Product == [status : ProductStatus, collections : UNION {[1 .. n -> CollectionId] : n \in 0 .. MaxRefs},
            publications : SUBSET Publication]
Reply == {"done", "refused"}

DemoCatalogTypeOK ==
  /\ DOMAIN products \subseteq 1 .. made.products
  /\ \A p \in DOMAIN products : products[p] \in Product
  /\ DOMAIN collections \subseteq 1 .. made.collections
  /\ \A c \in DOMAIN collections : ToSet(collections[c]) \subseteq 1 .. made.products
  /\ made \in [products : 0 .. MaxProducts, collections : 0 .. MaxCollections]
  /\ catalogReply \in Reply

\* seedDemoCatalog: a published product in a collection of its own.
DemoCatalogInit ==
  /\ products = 1 :> [status |-> "ACTIVE", collections |-> <<1>>, publications |-> Publication]
  /\ collections = 1 :> <<1>>
  /\ made = [products |-> 1, collections |-> 1]
  /\ catalogReply = "done"

Without(f, x) == [y \in DOMAIN f \ {x} |-> f[y]]
Refused == catalogReply' = "refused" /\ UNCHANGED <<products, collections, made>>

-----------------------------------------------------------------------------
(* The requests: what the wrapper functions ask for *)

CreateProduct(status) == [op |-> "ProductCreate", status |-> status]
UpdateProduct(p, status) == [op |-> "ProductUpdate", id |-> p, status |-> status]
DeleteProduct(p) == [op |-> "ProductDelete", id |-> p]
\* Unless the caller says otherwise the copy is a draft.
DuplicateProduct(p) == [op |-> "ProductDuplicate", id |-> p, status |-> "DRAFT"]
CreateCollection == [op |-> "CollectionCreate"]
UpdateCollection(c) == [op |-> "CollectionUpdate", id |-> c]
DeleteCollection(c) == [op |-> "CollectionDelete", id |-> c]
AddProducts(c, ps) == [op |-> "CollectionAddProducts", id |-> c, products |-> ps]
RemoveProducts(c, ps) == [op |-> "CollectionRemoveProducts", id |-> c, products |-> ps]
ReorderProducts(c, moves) == [op |-> "CollectionReorderProducts", id |-> c, moves |-> moves]
PublishTo(p, ch) == [op |-> "PublishablePublish", id |-> p, to |-> ch]
UnpublishFrom(p, ch) == [op |-> "PublishableUnpublish", id |-> p, to |-> ch]

\* Callers know the numbers that were given out; what they name may be gone by now.
Named == 1 .. made.products
CatalogRequest ==
  LET C == 1 .. made.collections
      Several == {<<p>> : p \in Named} \cup {<<p, q>> : p, q \in Named}
      Moves == {<<[id |-> p, to |-> n]>> : p \in Named, n \in 0 .. MaxProducts}
  IN  {CreateProduct(s) : s \in ProductStatus} \cup {CreateCollection}
      \cup {UpdateProduct(p, s) : p \in Named, s \in ProductStatus}
      \cup {DeleteProduct(p) : p \in Named} \cup {DuplicateProduct(p) : p \in Named}
      \cup {UpdateCollection(c) : c \in C} \cup {DeleteCollection(c) : c \in C}
      \cup {AddProducts(c, ps) : c \in C, ps \in Several}
      \cup {RemoveProducts(c, ps) : c \in C, ps \in Several}
      \cup {ReorderProducts(c, m) : c \in C, m \in Moves}
      \cup {PublishTo(p, ch) : p \in Named, ch \in Publication}
      \cup {UnpublishFrom(p, ch) : p \in Named, ch \in Publication}

-----------------------------------------------------------------------------
(* Products *)

NewProduct(status, publications) ==
  /\ made.products < MaxProducts
  /\ made' = [made EXCEPT !.products = @ + 1]
  /\ products' = (made.products + 1) :> [status |-> status, collections |-> <<>>,
                                         publications |-> publications] @@ products
  /\ catalogReply' = "done" /\ UNCHANGED collections

ProductCreate(q) == q.op = "ProductCreate" /\ NewProduct(q.status, {})

\* The copy is in no collection and not published, whatever the product is.
ProductDuplicate(q) ==
  /\ q.op = "ProductDuplicate"
  /\ IF q.id \in DOMAIN products THEN NewProduct(q.status, {}) ELSE Refused

ProductUpdate(q) ==
  /\ q.op = "ProductUpdate"
  /\ IF q.id \in DOMAIN products
     THEN /\ products' = [products EXCEPT ![q.id].status = q.status]
          /\ catalogReply' = "done" /\ UNCHANGED <<collections, made>>
     ELSE Refused

\* The collections that have the product keep its number.
ProductDelete(q) ==
  /\ q.op = "ProductDelete"
  /\ IF q.id \in DOMAIN products
     THEN /\ products' = Without(products, q.id)
          /\ catalogReply' = "done" /\ UNCHANGED <<collections, made>>
     ELSE Refused

-----------------------------------------------------------------------------
(* Collections *)

CollectionCreate(q) ==
  /\ q.op = "CollectionCreate" /\ made.collections < MaxCollections
  /\ made' = [made EXCEPT !.collections = @ + 1]
  /\ collections' = (made.collections + 1) :> <<>> @@ collections
  /\ catalogReply' = "done" /\ UNCHANGED products

\* Titles, descriptions and rules only: who is in the collection stays.
CollectionUpdate(q) ==
  /\ q.op = "CollectionUpdate"
  /\ catalogReply' = (IF q.id \in DOMAIN collections THEN "done" ELSE "refused")
  /\ UNCHANGED <<products, collections, made>>

\* The products that are in the collection keep its number.
CollectionDelete(q) ==
  /\ q.op = "CollectionDelete"
  /\ IF q.id \in DOMAIN collections
     THEN /\ collections' = Without(collections, q.id)
          /\ catalogReply' = "done" /\ UNCHANGED <<products, made>>
     ELSE Refused

\* A product is told of the collection each time it is added to it.
CollectionAddProducts(q) ==
  /\ q.op = "CollectionAddProducts"
  /\ IF q.id \in DOMAIN collections
     THEN LET told(p) == SelectSeq(q.products, LAMBDA x : x = p)
          IN  /\ \A p \in DOMAIN products : Len(products[p].collections \o told(p)) <= MaxRefs
              /\ collections' = [collections EXCEPT ![q.id] =
                   FoldLeft(LAMBDA ps, p : IF p \in ToSet(ps) THEN ps ELSE Append(ps, p), @, q.products)]
              /\ products' = [p \in DOMAIN products |-> [products[p] EXCEPT !.collections =
                   @ \o [i \in DOMAIN told(p) |-> q.id]]]
              /\ catalogReply' = "done" /\ UNCHANGED made
     ELSE Refused

CollectionRemoveProducts(q) ==
  /\ q.op = "CollectionRemoveProducts"
  /\ IF q.id \in DOMAIN collections
     THEN /\ collections' = [collections EXCEPT ![q.id] = SelectSeq(@, LAMBDA p : p \notin ToSet(q.products))]
          /\ products' = [p \in DOMAIN products |->
               IF p \in ToSet(q.products)
               THEN [products[p] EXCEPT !.collections = SelectSeq(@, LAMBDA c : c # q.id)]
               ELSE products[p]]
          /\ catalogReply' = "done" /\ UNCHANGED made
     ELSE Refused

\* Taken out and put in again at its new position, at the end if that is past it.
Moved(ps, move) ==
  LET rest == SelectSeq(ps, LAMBDA p : p # move.id)
      at == IF move.to < Len(rest) THEN move.to ELSE Len(rest)
  IN  IF move.id \in ToSet(ps) THEN InsertAt(rest, at + 1, move.id) ELSE ps

CollectionReorderProducts(q) ==
  /\ q.op = "CollectionReorderProducts"
  /\ IF q.id \in DOMAIN collections
     THEN /\ collections' = [collections EXCEPT ![q.id] = FoldLeft(Moved, @, q.moves)]
          /\ catalogReply' = "done" /\ UNCHANGED <<products, made>>
     ELSE Refused

-----------------------------------------------------------------------------
(* Publications *)

\* Publishing what is gone is answered like publishing what is there.
PublishablePublish(q) ==
  /\ q.op = "PublishablePublish"
  /\ products' = [p \in DOMAIN products |->
       IF p = q.id THEN [products[p] EXCEPT !.publications = @ \cup {q.to}] ELSE products[p]]
  /\ catalogReply' = "done" /\ UNCHANGED <<collections, made>>

PublishableUnpublish(q) ==
  /\ q.op = "PublishableUnpublish"
  /\ products' = [p \in DOMAIN products |->
       IF p = q.id THEN [products[p] EXCEPT !.publications = @ \ {q.to}] ELSE products[p]]
  /\ catalogReply' = "done" /\ UNCHANGED <<collections, made>>

-----------------------------------------------------------------------------
DemoCatalogNext ==
  \E q \in CatalogRequest :
    \/ ProductCreate(q) \/ ProductUpdate(q) \/ ProductDelete(q) \/ ProductDuplicate(q)
    \/ CollectionCreate(q) \/ CollectionUpdate(q) \/ CollectionDelete(q)
    \/ CollectionAddProducts(q) \/ CollectionRemoveProducts(q) \/ CollectionReorderProducts(q)
    \/ PublishablePublish(q) \/ PublishableUnpublish(q)

-----------------------------------------------------------------------------
(* The views that are read *)

\* What getProduct answers, if anything: null for a product that is gone.
GetProduct(p) ==
  {[status |-> products[q].status, collections |-> products[q].collections,
    published |-> products[q].publications] : q \in DOMAIN products \cap {p}}
GetCollection(c) ==
  {[products |-> collections[d]] : d \in DOMAIN collections \cap {c}}
\* Every publication of the shop, with whether the product is on it.
GetProductPublications(p) ==
  {[pub \in Publication |-> pub \in products[q].publications] : q \in DOMAIN products \cap {p}}

-----------------------------------------------------------------------------
(* Properties *)

\* A product that is there and a collection that is there agree on whether the one is in
\* the other, in whatever order products are added, removed, copied and deleted.
MembershipAgrees ==
  \A p \in Named, c \in CollectionId :
    \A product \in GetProduct(p), collection \in GetCollection(c) :
      p \in ToSet(collection.products) <=> c \in ToSet(product.collections)

\* A collection has a product once, however often it is added, moved and added again.
NoMemberTwice ==
  \A c \in DOMAIN collections : IsInjective(collections[c])

-----------------------------------------------------------------------------
(***************************************************************************)
(* The variants of the demo shop's products and what is in stock of them   *)
(* (packages/shopify-admin/src/operations/products.ts, catalog-extra.ts,   *)
(* commerce-ops.ts, fake.ts, fake-catalog-extra.ts, fake-commerce-ops.ts). *)
(* A product lists its variants and each variant names its product; a      *)
(* count is set by callers that read it before and say what they read.     *)
(* Quantities are those of the name "available".                           *)
(***************************************************************************)

CONSTANTS Holder,       \* products, each seeded with one variant
          Counter,      \* callers that set quantities
          Location,     \* where stock is kept; the seed uses Warehouse
          Warehouse,
          MaxVariants,  \* bound: variants ever created
          MaxQuantity   \* bound: quantities

ASSUME DemoVariantsAssumption ==
  /\ Warehouse \in Location /\ MaxQuantity \in Nat /\ MaxVariants \in Nat

VARIABLES
  listed,    \* each product: its variants in order
  owner,     \* each live variant: its product
  quantity,  \* each live variant: the inventoryQuantity it shows
  tracked,   \* the variants with an inventory item: those of the seed
  stock,     \* item and location: what is available
  readStock, \* each caller: the stock as it last read it
  believed,  \* history: what is available going by the requests answered without error
  mixed,     \* history: rows of requests that were applied although the answer had errors
  variantsMade

variantVars == <<listed, owner, quantity, tracked, stock, readStock, believed, mixed, variantsMade>>

Variant == 1 .. MaxVariants
Quantity == 0 .. MaxQuantity
Level == Variant \X Location

DemoVariantsTypeOK ==
  /\ listed \in [Holder -> Seq(Variant)]
  /\ owner \in [DOMAIN owner -> Holder] /\ DOMAIN owner \subseteq 1 .. variantsMade
  /\ quantity \in [DOMAIN owner -> Quantity]
  /\ tracked \subseteq Variant
  /\ stock \in [DOMAIN stock -> Quantity] /\ DOMAIN stock \subseteq Level
  /\ \A c \in Counter : DOMAIN readStock[c] \subseteq DOMAIN stock
  /\ mixed \subseteq Level /\ variantsMade \in 0 .. MaxVariants

\* seedDemoCommerce: an item for each variant, in stock at the first location.
DemoVariantsInit ==
  \E seeded \in [Holder -> Variant] :
    /\ IsInjective(seeded) /\ variantsMade = Cardinality(Holder)
    /\ \A p \in Holder : seeded[p] <= variantsMade
    /\ listed = [p \in Holder |-> <<seeded[p]>>]
    /\ owner = [v \in 1 .. variantsMade |-> CHOOSE p \in Holder : seeded[p] = v]
    /\ quantity = [v \in DOMAIN owner |-> MaxQuantity]
    /\ tracked = DOMAIN owner
    /\ stock = [k \in tracked \X {Warehouse} |-> MaxQuantity]
    /\ readStock = [c \in Counter |-> <<>>]
    /\ believed = stock /\ mixed = {}

-----------------------------------------------------------------------------
(* Variants *)

VariantsBulkCreate(p) ==
  /\ variantsMade < MaxVariants
  /\ variantsMade' = variantsMade + 1
  /\ listed' = [listed EXCEPT ![p] = Append(@, variantsMade')]
  /\ owner' = variantsMade' :> p @@ owner
  /\ quantity' = variantsMade' :> 0 @@ quantity
  /\ UNCHANGED <<tracked, stock, readStock, believed, mixed>>

\* The variants go whoever's they are; only the product named stops listing them.
VariantsBulkDelete(p, vs) ==
  /\ owner' = [v \in DOMAIN owner \ vs |-> owner[v]]
  /\ quantity' = [v \in DOMAIN owner \ vs |-> quantity[v]]
  /\ listed' = [listed EXCEPT ![p] = SelectSeq(@, LAMBDA v : v \notin vs)]
  /\ UNCHANGED <<tracked, stock, readStock, believed, mixed, variantsMade>>

\* Prices, codes and names, for those that are there; the others are passed over without an
\* error, and neither who lists a variant nor its stock changes.
VariantsBulkUpdate(p, vs) ==
  UNCHANGED variantVars

-----------------------------------------------------------------------------
(* Stock *)

\* getProductInventory: the levels of the product's variants.
ReadInventory(c, p) ==
  /\ \A i \in DOMAIN listed[p] : listed[p][i] \in DOMAIN owner
  /\ readStock' = [readStock EXCEPT ![c] =
       [k \in {k \in DOMAIN stock : k[1] \in ToSet(listed[p])} |-> stock[k]]]
  /\ UNCHANGED <<listed, owner, quantity, tracked, stock, believed, mixed, variantsMade>>

\* A row of a request: where, what the caller took to be there, and how many there shall be.
Rows(c) == [level : DOMAIN readStock[c], to : Quantity]
From(c, row) == readStock[c][row.level]

IsAccepted(c, row, now) == row.level \in DOMAIN now /\ now[row.level] = From(c, row)

\* The rows are gone through one by one; one that is refused does not undo those before it.
Applied(c, rows) ==
  FoldLeft(LAMBDA now, row : IF IsAccepted(c, row, now) THEN [now EXCEPT ![row.level] = row.to] ELSE now,
           stock, rows)
AllAccepted(c, rows) ==
  FoldLeft(LAMBDA r, row : [now |-> IF IsAccepted(c, row, r.now)
                                    THEN [r.now EXCEPT ![row.level] = row.to] ELSE r.now,
                            ok |-> r.ok /\ IsAccepted(c, row, r.now)],
           [now |-> stock, ok |-> TRUE], rows).ok

\* A variant shows the quantity of the location that was written last.
Shown(rows, now) ==
  [v \in DOMAIN owner |->
     LET own == SelectSeq(rows, LAMBDA row : row.level[1] = v /\ now[row.level] # stock[row.level])
     IN  IF v \in tracked /\ own # <<>> THEN now[Last(own).level] ELSE quantity[v]]

\* inventorySetQuantities and inventoryAdjustQuantities, the delta being to - From.
\* The caller counts with the delta it asked for; one row refused, it is told of no change.
SetQuantities(c, rows) ==
  /\ stock' = Applied(c, rows)
  /\ quantity' = Shown(rows, stock')
  /\ IF AllAccepted(c, rows)
     THEN /\ believed' = FoldLeft(LAMBDA b, row : [b EXCEPT ![row.level] =
                            IF row.level \in mixed THEN 0 ELSE @ + row.to - From(c, row)], believed, rows)
          /\ mixed' = mixed
     ELSE /\ mixed' = mixed \cup {k \in DOMAIN stock : stock'[k] # stock[k]}
          /\ believed' = [k \in DOMAIN stock |-> IF k \in mixed' THEN 0 ELSE believed[k]]
  /\ UNCHANGED <<listed, owner, tracked, readStock, variantsMade>>

\* A level that is there keeps its quantity.
InventoryActivate(v, l) ==
  /\ v \in tracked
  /\ stock' = stock @@ <<v, l>> :> 0
  /\ believed' = believed @@ <<v, l>> :> 0
  /\ UNCHANGED <<listed, owner, quantity, tracked, readStock, mixed, variantsMade>>

-----------------------------------------------------------------------------
DemoVariantsNext ==
  \/ \E p \in Holder :
       \/ VariantsBulkCreate(p)
       \/ \E v \in 1 .. variantsMade : VariantsBulkUpdate(p, {v}) \/ VariantsBulkDelete(p, {v})
  \/ \E c \in Counter :
       \/ \E p \in Holder : ReadInventory(c, p)
       \/ \E row \in Rows(c) : SetQuantities(c, <<row>>)
       \/ \E row, other \in Rows(c) : SetQuantities(c, <<row, other>>)
  \/ \E v \in 1 .. variantsMade, l \in Location : InventoryActivate(v, l)

-----------------------------------------------------------------------------
(* The views that are read *)

\* listProductVariants: the listed variants that are there.
ListVariants(p) == {v \in ToSet(listed[p]) : v \in DOMAIN owner}
\* The product that getProductVariant names.
ProductOf(v) == owner[v]

-----------------------------------------------------------------------------
(* Properties *)

\* The variants listed for a product are those that name it, whichever product a request
\* that deletes variants was addressed to.
VariantsAgree ==
  \A p \in Holder : ListVariants(p) = {v \in DOMAIN owner : ProductOf(v) = p}

\* What is in stock is what the answers said, whatever the callers read in between, except
\* where a request of several rows was refused after some of them had been applied.
CountsAreAnswered ==
  \A k \in DOMAIN stock : k \notin mixed => stock[k] = believed[k]
=============================================================================
