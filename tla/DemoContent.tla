---------------------------- MODULE DemoContent ----------------------------
(***************************************************************************)
(* The pages, blogs, articles, redirects and menus of the demo shop        *)
(* (packages/shopify-admin/src/operations/content.ts, redirects.ts,        *)
(* navigation.ts, catalog-extra.ts, fake.ts, fake-catalog-extra.ts).  A    *)
(* request gives some of the fields and leaves the others.  The title and  *)
(* the description for search engines travel as two metafields.  A menu is *)
(* written whole: whoever changes only its items reads its title first.    *)
(***************************************************************************)
EXTENDS Naturals, FiniteSets, TLC, Sequences, SequencesExt

CONSTANTS Text,       \* values of a field
          Default,    \* what a field is that no request gave
          MaxContent, \* bound: records ever created
          MenuEditor

ASSUME DemoContentAssumption == Default \notin Text \cup BOOLEAN /\ MaxContent \in Nat

VARIABLES
  kind,         \* what the records are; they share no state
  content,      \* the live records by number: their fields
  contentMade,  \* how many were created
  said,         \* history: what the requests answered as done gave each field
  reading,      \* each editor of a menu: the title it read and the items it will write
  overtaken     \* history: menus whose title was given between the read and the write of an editor

contentVars == <<kind, content, contentMade, said, reading, overtaken>>

Kind == {"page", "article", "blog", "redirect", "menu"}
Fields(k) ==
  CASE k \in {"page", "article"} -> {"title", "published", "seoTitle", "seoDescription"}
    [] k = "blog" -> {"title", "handle"}
    [] k = "redirect" -> {"path", "target"}
    [] k = "menu" -> {"title", "items"}
Values(f) == IF f = "published" THEN BOOLEAN ELSE Text
Given(fields) == UNION {{g \in [fs -> Text \cup BOOLEAN] : \A f \in fs : g[f] \in Values(f)} :
                        fs \in SUBSET fields}
Idle == [menu |-> 0]

DemoContentTypeOK ==
  /\ kind \in Kind /\ contentMade \in 0 .. MaxContent
  /\ DOMAIN content \subseteq 1 .. contentMade /\ DOMAIN said = DOMAIN content
  /\ \A i \in DOMAIN content : /\ DOMAIN content[i] = Fields(kind)
                               /\ \A f \in Fields(kind) : content[i][f] \in Values(f) \cup {Default}
  /\ DOMAIN reading = MenuEditor /\ overtaken \subseteq 1 .. MaxContent

\* A record of the seed.
DemoContentInit ==
  /\ kind \in Kind /\ contentMade = 1
  /\ \E t \in Text : content = 1 :> [f \in Fields(kind) |-> IF f = "published" THEN TRUE ELSE t]
  /\ said = content
  /\ reading = [e \in MenuEditor |-> Idle] /\ overtaken = {}

-----------------------------------------------------------------------------
(* What the wrapper functions make of what they are given *)

\* createPage: published unless said otherwise.
NewPage(given) == given @@ "published" :> TRUE
\* createDraftArticle: never published, whatever is given; nothing for search engines.
Draft(given) == "published" :> FALSE @@ [f \in DOMAIN given \cap {"title"} |-> given[f]]
NewBlog(given) == given
NewRedirect(given) == given
NewMenu(given) == given

New(given) ==
  CASE kind = "page" -> NewPage(given) [] kind = "article" -> Draft(given)
    [] kind = "blog" -> NewBlog(given) [] kind = "redirect" -> NewRedirect(given)
    [] kind = "menu" -> NewMenu(given)

\* The fields a creation must give.
Required ==
  CASE kind \in {"page", "article", "blog"} -> {"title"} [] OTHER -> Fields(kind)

-----------------------------------------------------------------------------
(* The requests *)

CreateContent(given) ==
  /\ contentMade < MaxContent
  /\ Required \subseteq DOMAIN given
  /\ contentMade' = contentMade + 1
  /\ content' = contentMade' :> (New(given) @@ [f \in Fields(kind) |-> Default]) @@ content
  /\ said' = contentMade' :> (IF kind = "article" THEN content'[contentMade']
                              ELSE given @@ content'[contentMade']) @@ said
  /\ UNCHANGED <<kind, reading, overtaken>>

Seo == {"seoTitle", "seoDescription"}
\* Each handler writes the fields that are given over those that are there.
Merge(i, given) == given @@ content[i]

UpdateContent(i, given) ==
  /\ kind # "menu" /\ i \in DOMAIN content
  /\ content' = [content EXCEPT ![i] = Merge(i, given)]
  /\ said' = [said EXCEPT ![i] = given @@ @]
  /\ UNCHANGED <<kind, contentMade, reading, overtaken>>

\* Blogs are never deleted.
DeleteContent(i) ==
  /\ kind # "blog" /\ i \in DOMAIN content
  /\ content' = [j \in DOMAIN content \ {i} |-> content[j]]
  /\ said' = [j \in DOMAIN content \ {i} |-> said[j]]
  /\ UNCHANGED <<kind, contentMade, reading, overtaken>>

-----------------------------------------------------------------------------
(* updateMenu: items with a title, or items alone, for which the title is read first *)

ReadMenu(e, i, items) ==
  /\ kind = "menu" /\ reading[e] = Idle /\ i \in DOMAIN content
  /\ reading' = [reading EXCEPT ![e] = [menu |-> i, title |-> content[i].title, items |-> items]]
  /\ UNCHANGED <<kind, content, contentMade, said, overtaken>>

\* menuUpdate for a menu that is gone meanwhile changes nothing.
WriteMenu(e) ==
  LET i == reading[e].menu IN
  /\ reading[e] # Idle
  /\ reading' = [reading EXCEPT ![e] = Idle]
  /\ IF i \in DOMAIN content
     THEN /\ content' = [content EXCEPT ![i] = [title |-> reading[e].title, items |-> reading[e].items]]
          /\ said' = [said EXCEPT ![i].items = reading[e].items]
     ELSE UNCHANGED <<content, said>>
  /\ UNCHANGED <<kind, contentMade, overtaken>>

RetitleMenu(i, title, items) ==
  /\ kind = "menu" /\ i \in DOMAIN content
  /\ content' = [content EXCEPT ![i] = [title |-> title, items |-> items]]
  /\ said' = [said EXCEPT ![i] = [title |-> title, items |-> items]]
  /\ overtaken' = IF \E e \in MenuEditor : reading[e].menu = i THEN overtaken \cup {i} ELSE overtaken
  /\ UNCHANGED <<kind, contentMade, reading>>

-----------------------------------------------------------------------------
DemoContentNext ==
  \/ \E given \in Given(Fields(kind)) :
       CreateContent(given) \/ (\E i \in 1 .. contentMade : UpdateContent(i, given))
  \/ \E i \in 1 .. contentMade : DeleteContent(i)
  \/ \E e \in MenuEditor : WriteMenu(e) \/ (\E i \in 1 .. contentMade, t \in Text : ReadMenu(e, i, t))
  \/ \E i \in 1 .. contentMade, t, items \in Text : RetitleMenu(i, t, items)

-----------------------------------------------------------------------------
(* Properties *)

\* Every record shows in each field what was said of it last: a request that leaves a field
\* out does not touch it, of a pair that travels together either.  The title of a menu may
\* be an earlier one where it was given while an editor of its items was at work.
ContentAsSaid ==
  \A i \in DOMAIN content, f \in Fields(kind) :
    content[i][f] = said[i][f] \/ (kind = "menu" /\ f = "title" /\ i \in overtaken)

\* An article is published only by an update that says so.
DraftsWait ==
  [][\A i \in DOMAIN content' \ DOMAIN content :
       kind = "article" => content'[i].published = FALSE]_contentVars

-----------------------------------------------------------------------------
(***************************************************************************)
(* A caller that reads a listing of the demo shop page by page while rows  *)
(* come and go: the list functions of packages/shopify-admin/src/          *)
(* operations and the two ways FakeAdminClient cuts a page: `connection`   *)
(* (fake.ts), whose cursor is the id of the last row, and `page`           *)
(* (fake-commerce-ops.ts), whose cursor is an offset.  Listings are taken  *)
(* without a search query: a row leaves one only when it is removed.  The  *)
(* definitions of the seed and those created later are numbered by two     *)
(* counters, so that two rows may show one id.                             *)
(***************************************************************************)

CONSTANTS MaxRows,   \* bound: rows ever added to the listing
          PageSize,  \* `first`
          NoRow      \* no cursor

ASSUME DemoPagesAssumption ==
  MaxRows \in Nat /\ PageSize \in Nat \ {0} /\ NoRow \notin Nat

VARIABLES
  listing,    \* which list function the caller walks
  rows,       \* the rows, in the order they are listed
  ownerLives, \* whether what the rows belong to is still there
  born,       \* how many rows were ever added
  walk        \* the caller: where it is, how often it read each row

pageVars == <<listing, rows, ownerLives, born, walk>>

RowId == 1 .. MaxRows
Cursor == 0 .. MaxRows \cup {NoRow}

(* What tells one list function from another: how its pages are cut, whether rows are      *)
(* removed while it is read, whether they belong to something that can be removed, and     *)
(* how many rows of the seed were numbered by a counter of their own.                      *)
Listing == [by : {"id", "offset"}, shrinks : BOOLEAN, owned : BOOLEAN, newestFirst : BOOLEAN,
            seeded : 0 .. 2]
ById == [by |-> "id", shrinks |-> TRUE, owned |-> FALSE, newestFirst |-> FALSE, seeded |-> 0]
ByOffset == [ById EXCEPT !.by = "offset"]

ListProducts == ById
ListProductVariants == [ById EXCEPT !.owned = TRUE]
ListCollections == ById
ListPages == ById
ListBlogs == [ById EXCEPT !.shrinks = FALSE]
ListArticles == ById
ListArticlesOfBlog == [ById EXCEPT !.owned = TRUE]
ListMenus == ById
\* Of products; the other owners have no definitions in the seed.
ListMetafieldDefinitions == [ById EXCEPT !.shrinks = FALSE, !.seeded = 2]
ListMetafieldsOnOwner == ById
ListMetaobjectDefinitions == [ById EXCEPT !.shrinks = FALSE, !.seeded = 1]
ListMetaobjects == ById
ListFiles == ById
ListUrlRedirects == ById
ListLocations == [ByOffset EXCEPT !.shrinks = FALSE]
ListMarkets == ByOffset
ListTranslatableResources == ByOffset
ListCatalogs == ByOffset
ListPriceLists == ByOffset
GetPriceListPrices == [ByOffset EXCEPT !.owned = TRUE]
ListDiscounts == ByOffset
\* Orders are sorted by their date, the newest first unless the caller says otherwise.
ListOrders == [ByOffset EXCEPT !.shrinks = FALSE, !.newestFirst = TRUE]
ListDraftOrders == ByOffset
ListCustomers == [ByOffset EXCEPT !.shrinks = FALSE]
ListWebhookSubscriptions == ByOffset
ListScriptTags == ByOffset

Listings ==
  {ListProducts, ListProductVariants, ListCollections, ListPages, ListBlogs, ListArticles,
   ListArticlesOfBlog, ListMenus, ListMetafieldDefinitions, ListMetafieldsOnOwner,
   ListMetaobjectDefinitions, ListMetaobjects, ListFiles, ListUrlRedirects, ListLocations,
   ListMarkets, ListTranslatableResources, ListCatalogs, ListPriceLists, GetPriceListPrices,
   ListDiscounts, ListOrders, ListDraftOrders, ListCustomers, ListWebhookSubscriptions,
   ListScriptTags}

Walk == [at : {"start", "walking", "ended"}, after : Cursor, seen : [RowId -> 0 .. 2],
         stayed : SUBSET RowId, gone : 0 .. MaxRows, added : 0 .. MaxRows, lost : BOOLEAN]
NoWalk == [at |-> "start", after |-> NoRow, seen |-> [r \in RowId |-> 0], stayed |-> {},
           gone |-> 0, added |-> 0, lost |-> FALSE]

DemoPagesTypeOK ==
  /\ listing \in Listing /\ ownerLives \in BOOLEAN
  /\ IsInjective(rows) /\ ToSet(rows) \subseteq 1 .. born
  /\ born \in 0 .. MaxRows
  /\ walk \in Walk

DemoPagesInit ==
  /\ listing \in Listings
  /\ born \in listing.seeded .. MaxRows /\ rows = [i \in 1 .. born |-> i]
  /\ ownerLives = TRUE /\ walk = NoWalk

-----------------------------------------------------------------------------
(* A page *)

Smaller(a, b) == IF a < b THEN a ELSE b

\* The number in the id of a row.
Number(r) == IF r > listing.seeded THEN r - listing.seeded ELSE r

\* `connection`: the first row with the id of the cursor, or no row when none has it.
StartById(after) == SelectInSeq(rows, LAMBDA r : Number(r) = after)

\* `page`: the offset is kept though rows before it may be gone.
StartByOffset(after) == IF after = NoRow THEN 0 ELSE after

PageOf(after) ==
  LET start == IF listing.by = "id" THEN StartById(after) ELSE StartByOffset(after)
      end == Smaller(Len(rows), start + PageSize)
  IN  [items |-> SubSeq(rows, start + 1, end), hasNextPage |-> start + PageSize < Len(rows),
       endCursor |-> IF listing.by = "offset" THEN end
                     ELSE IF end > start THEN Number(rows[end]) ELSE NoRow]

\* What the list functions make of an owner that is gone.
EmptyPage == [items |-> <<>>, hasNextPage |-> FALSE, endCursor |-> NoRow]

Answer == IF ownerLives THEN PageOf(walk.after) ELSE EmptyPage

-----------------------------------------------------------------------------
(* The caller *)

\* The first page, or the next one: the cursor of a page is passed on with the next request.
ReadPage ==
  /\ walk.at # "ended"
  /\ LET page == Answer
         before == IF walk.at = "start" THEN [NoWalk EXCEPT !.stayed = ToSet(rows)] ELSE walk
     IN walk' = [before EXCEPT
          !.at = IF page.hasNextPage THEN "walking" ELSE "ended",
          !.after = IF page.hasNextPage THEN page.endCursor ELSE NoRow,
          !.seen = [r \in RowId |-> IF r \in ToSet(page.items) THEN Smaller(2, @[r] + 1) ELSE @[r]],
          !.lost = @ \/ (listing.by = "id" /\ walk.after # NoRow /\ StartById(walk.after) = 0)]
  /\ UNCHANGED <<listing, rows, ownerLives, born>>

-----------------------------------------------------------------------------
(* The shop meanwhile *)

AddRow ==
  /\ ownerLives /\ born < MaxRows
  /\ born' = born + 1
  /\ rows' = (IF listing.newestFirst THEN <<born'>> \o rows ELSE Append(rows, born'))
  /\ walk' = [walk EXCEPT !.added = IF walk.at = "walking" THEN @ + 1 ELSE @]
  /\ UNCHANGED <<listing, ownerLives>>

RemoveRow(r) ==
  /\ listing.shrinks /\ r \in ToSet(rows)
  /\ rows' = SelectSeq(rows, LAMBDA x : x # r)
  /\ walk' = (IF walk.at = "walking" THEN [walk EXCEPT !.gone = @ + 1, !.stayed = @ \ {r}] ELSE walk)
  /\ UNCHANGED <<listing, ownerLives, born>>

RemoveOwner ==
  /\ listing.owned /\ ownerLives
  /\ ownerLives' = FALSE /\ rows' = <<>>
  /\ walk' = [walk EXCEPT !.stayed = {}]
  /\ UNCHANGED <<listing, born>>

-----------------------------------------------------------------------------
DemoPagesNext == ReadPage \/ AddRow \/ (\E r \in RowId : RemoveRow(r)) \/ RemoveOwner

-----------------------------------------------------------------------------
(* Properties *)

\* A walk by id has read every row that was there from its first page to its last, whatever
\* was removed meanwhile: also when the row of its cursor was.
NoStayerMissed ==
  walk.at = "ended" /\ listing.by = "id" => \A r \in walk.stayed : walk.seen[r] > 0

\* A walk by offset misses no more rows than were removed while it ran.
OffsetMissesOnlyGone ==
  walk.at = "ended" /\ listing.by = "offset" =>
    Cardinality({r \in walk.stayed : walk.seen[r] = 0}) <= walk.gone

NumbersRepeat == ~IsInjective([i \in DOMAIN rows |-> Number(rows[i])])

\* A walk reads a row twice only when it had to start again, because the row of its cursor
\* was removed, when rows came in before those it had read, or when the cursor is the id of two
\* rows and finds the first.
RepeatsHaveAReason ==
  (\E r \in RowId : walk.seen[r] = 2) =>
    walk.lost \/ (listing.newestFirst /\ walk.added > 0) \/ NumbersRepeat
=============================================================================
