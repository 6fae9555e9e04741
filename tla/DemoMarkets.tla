----------------------------- MODULE DemoMarkets -----------------------------
(***************************************************************************)
(* Markets, catalogs and price lists of the demo shop, and its texts with  *)
(* their translations, as the wrapper functions ask for them and the fake  *)
(* answers (packages/shopify-admin/src/operations/commerce-ops.ts and      *)
(* fake-commerce-ops.ts).                                                  *)
(***************************************************************************)
EXTENDS Naturals, Sequences, FiniteSets, TLC

CONSTANTS MarketHandle, FirstHandle, \* handles of markets, and that of the seeded market
          Currency, PricedVariant,   \* PricedVariant: the variants of the shop
          GoneVariant,               \* variants that are not (or no longer) in the shop
          Locale, FirstLocale,       \* locales, and the primary one
          SourceText,                \* what the text of a resource can be
          MaxMarkets, MaxCatalogs, MaxPriceLists \* bounds: how many are ever created

ASSUME DemoMarketsAssumption ==
  /\ FirstHandle \in MarketHandle /\ FirstLocale \in Locale
  /\ PricedVariant \cap GoneVariant = {}
  /\ MaxMarkets \in Nat \ {0} /\ {MaxCatalogs, MaxPriceLists} \subseteq Nat

VARIABLES
  markets,      \* the live markets by number
  catalogs,     \* the live catalogs by number
  priceLists,   \* the live price lists by number
  madeOf,       \* how many of each were created
  locales,      \* the enabled locales
  sourceText,   \* the text of the one resource that is translated; {} when it was deleted
  translations, \* the translations of the text by locale, each with the text that it is of
  readText,     \* the texts that a client may have read, with their digest
  marketReply   \* how the last request was answered

marketVars == <<markets, catalogs, priceLists, madeOf, locales, sourceText, translations,
                readText, marketReply>>
storeVars == <<markets, catalogs, priceLists, madeOf>>
textVars == <<locales, sourceText, translations, readText>>

MarketId == 1 .. MaxMarkets
CatalogId == 1 .. MaxCatalogs
PriceListId == 1 .. MaxPriceLists
Market == [handle : MarketHandle, primary : BOOLEAN, catalogs : SUBSET CatalogId]
Catalog == [markets : SUBSET MarketId, priceList : 0 .. MaxPriceLists]

Numbered(f, n, Record(_)) == DOMAIN f \subseteq 1 .. n /\ \A i \in DOMAIN f : Record(f[i])
DemoMarketsTypeOK ==
  /\ Numbered(markets, madeOf.markets, LAMBDA r : r \in Market)
  /\ Numbered(catalogs, madeOf.catalogs, LAMBDA r : r \in Catalog)
  /\ Numbered(priceLists, madeOf.priceLists, LAMBDA p :
       /\ p.currency \in Currency /\ p.catalog \in 0 .. MaxCatalogs
       /\ DOMAIN p.fixed \subseteq PricedVariant /\ \A v \in DOMAIN p.fixed : p.fixed[v] \in Currency)
  /\ madeOf \in [markets : 0 .. MaxMarkets, catalogs : 0 .. MaxCatalogs, priceLists : 0 .. MaxPriceLists]
  /\ locales \subseteq Locale /\ sourceText \subseteq SourceText /\ Cardinality(sourceText) <= 1
  /\ DOMAIN translations \subseteq Locale /\ \A l \in DOMAIN translations : translations[l] \in SourceText
  /\ readText \subseteq SourceText /\ marketReply \in {"done", "refused"}

\* seedDemoCommerce: the primary market, and the primary locale among the enabled ones.
DemoMarketsInit ==
  /\ markets = 1 :> [handle |-> FirstHandle, primary |-> TRUE, catalogs |-> {}]
  /\ catalogs = <<>> /\ priceLists = <<>>
  /\ madeOf = [markets |-> 1, catalogs |-> 0, priceLists |-> 0]
  /\ locales = {FirstLocale}
  /\ \E x \in SourceText : sourceText = {x}
  /\ translations = <<>> /\ readText = {} /\ marketReply = "done"

WithoutNumber(f, x) == [y \in DOMAIN f \ {x} |-> f[y]]
RefuseMarket == marketReply' = "refused" /\ UNCHANGED <<storeVars, textVars>>
Granted == marketReply' = "done"
Next1(kind) == madeOf' = [madeOf EXCEPT ![kind] = @ + 1]

-----------------------------------------------------------------------------
(* Markets *)

\* Names, regions, the status and the currency of a market are left out.
CreateMarket(handle) ==
  IF \E i \in DOMAIN markets : markets[i].handle = handle THEN RefuseMarket
  ELSE /\ madeOf.markets < MaxMarkets /\ Next1("markets") /\ Granted
       /\ markets' = madeOf'.markets :> [handle |-> handle, primary |-> FALSE, catalogs |-> {}] @@ markets
       /\ UNCHANGED <<catalogs, priceLists, textVars>>

\* The handle of another market is not refused here.
UpdateMarket(i, handle) ==
  IF i \notin DOMAIN markets THEN RefuseMarket
  ELSE /\ markets' = [markets EXCEPT ![i].handle = IF handle = {} THEN @ ELSE CHOOSE h \in handle : TRUE]
       /\ Granted /\ UNCHANGED <<catalogs, priceLists, madeOf, textVars>>

\* The catalogs of the market stay, and go on naming it.
DeleteMarket(i) ==
  IF i \notin DOMAIN markets \/ markets[i].primary THEN RefuseMarket
  ELSE markets' = WithoutNumber(markets, i) /\ Granted /\ UNCHANGED <<catalogs, priceLists, madeOf, textVars>>

-----------------------------------------------------------------------------
(* Catalogs and price lists *)

\* The markets are asked for by number and not checked; those that are there get the catalog.
ToldMarkets(ms, c) ==
  [i \in DOMAIN markets |-> IF i \in ms THEN [markets[i] EXCEPT !.catalogs = @ \cup {c}] ELSE markets[i]]
CreateCatalog(ms, p) ==
  /\ madeOf.catalogs < MaxCatalogs /\ Next1("catalogs") /\ Granted
  /\ catalogs' = madeOf'.catalogs :> [markets |-> ms, priceList |-> p] @@ catalogs
  /\ markets' = ToldMarkets(ms, madeOf'.catalogs)
  /\ UNCHANGED <<priceLists, textVars>>

\* The markets that the catalog gets or loses are not told.
UpdateCatalog(c, ms, p) ==
  IF c \notin DOMAIN catalogs THEN RefuseMarket
  ELSE /\ catalogs' = [catalogs EXCEPT ![c].markets = IF ms = {} THEN @ ELSE CHOOSE s \in ms : TRUE,
                                       ![c].priceList = IF p = 0 THEN @ ELSE p]
       /\ Granted /\ UNCHANGED <<markets, priceLists, madeOf, textVars>>

DeleteCatalog(c) ==
  IF c \notin DOMAIN catalogs THEN RefuseMarket
  ELSE catalogs' = WithoutNumber(catalogs, c) /\ Granted /\ UNCHANGED <<markets, priceLists, madeOf, textVars>>

\* A new price list of a catalog that is there takes the place of its price list.
CreatePriceList(currency, c) ==
  /\ madeOf.priceLists < MaxPriceLists /\ Next1("priceLists") /\ Granted
  /\ priceLists' = madeOf'.priceLists :> [currency |-> currency, catalog |-> c, fixed |-> <<>>] @@ priceLists
  /\ catalogs' = [d \in DOMAIN catalogs |->
       IF d = c THEN [catalogs[d] EXCEPT !.priceList = madeOf'.priceLists] ELSE catalogs[d]]
  /\ UNCHANGED <<markets, textVars>>

DeletePriceList(p) ==
  IF p \notin DOMAIN priceLists THEN RefuseMarket
  ELSE priceLists' = WithoutNumber(priceLists, p) /\ Granted /\ UNCHANGED <<markets, catalogs, madeOf, textVars>>

\* Prices are set one by one, and the first that cannot be set ends the request: those before it
\* stay set although the answer is a refusal and shows none.
IsSettable(p, price) == price[1] \in PricedVariant /\ price[2] = priceLists[p].currency
SetBefore(p, prices) ==
  {i \in DOMAIN prices : \A j \in 1 .. i : IsSettable(p, prices[j])}
PricesAfter(p, prices) ==
  LET set == SetBefore(p, prices)
      vs == {prices[i][1] : i \in set}
      last(v) == CHOOSE i \in set : prices[i][1] = v /\ \A j \in set : prices[j][1] = v => j <= i
  IN  [v \in vs \cup DOMAIN priceLists[p].fixed |->
        IF v \in vs THEN prices[last(v)][2] ELSE priceLists[p].fixed[v]]
AddPriceListFixedPrices(p, prices) ==
  IF p \notin DOMAIN priceLists THEN RefuseMarket
  ELSE /\ priceLists' = [priceLists EXCEPT ![p].fixed = PricesAfter(p, prices)]
       /\ marketReply' = (IF SetBefore(p, prices) = DOMAIN prices THEN "done" ELSE "refused")
       /\ UNCHANGED <<markets, catalogs, madeOf, textVars>>

DeletePriceListFixedPrices(p, vs) ==
  IF p \notin DOMAIN priceLists THEN RefuseMarket
  ELSE /\ priceLists' = [priceLists EXCEPT ![p].fixed = [v \in DOMAIN @ \ vs |-> @[v]]]
       /\ Granted /\ UNCHANGED <<markets, catalogs, madeOf, textVars>>

-----------------------------------------------------------------------------
(* Locales and translations *)

EnableShopLocale(l) ==
  IF l \in locales THEN RefuseMarket
  ELSE /\ locales' = locales \cup {l} /\ Granted
       /\ UNCHANGED <<storeVars, sourceText, translations, readText>>

\* Whether the locale is published is left out.
UpdateShopLocale(l) ==
  /\ marketReply' = (IF l \in locales THEN "done" ELSE "refused") /\ UNCHANGED <<storeVars, textVars>>

\* The translations into the locale stay.
DisableShopLocale(l) ==
  IF l \notin locales \/ l = FirstLocale THEN RefuseMarket
  ELSE locales' = locales \ {l} /\ Granted /\ UNCHANGED <<storeVars, sourceText, translations, readText>>

GetTranslatableResource ==
  /\ readText' = readText \cup sourceText /\ Granted
  /\ UNCHANGED <<storeVars, locales, sourceText, translations>>

\* updateProduct, updatePage, ...: the text is another one; deleted is {}.
EditText(x) ==
  /\ sourceText # {} /\ sourceText' = x /\ Granted
  /\ UNCHANGED <<storeVars, locales, translations, readText>>

\* What is registered carries the digest of the text that was read for it, and is refused when the
\* text is another one by now.  Whether the locale is enabled is not asked.
DigestIsCurrent(x) == sourceText = {x}
RegisterTranslations(l, x) ==
  /\ x \in readText
  /\ IF DigestIsCurrent(x)
     THEN /\ translations' = l :> x @@ translations /\ Granted
          /\ UNCHANGED <<storeVars, locales, sourceText, readText>>
     ELSE RefuseMarket

RemoveTranslations(ls) ==
  /\ translations' = [l \in DOMAIN translations \ ls |-> translations[l]] /\ Granted
  /\ UNCHANGED <<storeVars, locales, sourceText, readText>>

-----------------------------------------------------------------------------
OneOf(S) == {{}} \cup {{x} : x \in S}
StoreStep ==
  \/ \E h \in MarketHandle : CreateMarket(h)
  \/ \E i \in MarketId : DeleteMarket(i) \/ \E h \in OneOf(MarketHandle) : UpdateMarket(i, h)
  \/ \E ms \in SUBSET MarketId, p \in 0 .. MaxPriceLists : CreateCatalog(ms, p)
  \/ \E c \in CatalogId : \/ DeleteCatalog(c)
                          \/ \E ms \in OneOf(SUBSET MarketId), p \in 0 .. MaxPriceLists : UpdateCatalog(c, ms, p)
  \/ \E c \in 0 .. MaxCatalogs, cur \in Currency : CreatePriceList(cur, c)
  \/ \E p \in PriceListId :
       \/ DeletePriceList(p)
       \/ \E prices \in UNION {[1 .. n -> (PricedVariant \cup GoneVariant) \X Currency] : n \in 1 .. 2} :
            AddPriceListFixedPrices(p, prices)
       \/ \E vs \in SUBSET PricedVariant : DeletePriceListFixedPrices(p, vs)
TextStep ==
  \/ \E l \in Locale : EnableShopLocale(l) \/ UpdateShopLocale(l) \/ DisableShopLocale(l)
  \/ GetTranslatableResource
  \/ \E x \in OneOf(SourceText) : EditText(x)
  \/ \E l \in Locale, x \in SourceText : RegisterTranslations(l, x)
  \/ \E ls \in SUBSET Locale : RemoveTranslations(ls)
\* The two kinds of steps share no variable but the answer.
DemoMarketsNext == StoreStep \/ TextStep

-----------------------------------------------------------------------------
(* Properties *)

\* Every fixed price of a price list is in its currency and of a variant of the shop, although a
\* refused request leaves the prices that came before the wrong one.
PricesInCurrency ==
  \A p \in DOMAIN priceLists : \A v \in DOMAIN priceLists[p].fixed :
    priceLists[p].fixed[v] = priceLists[p].currency /\ v \in PricedVariant

\* A translation is stored only of the text as it stands: an edit between the read and the
\* registration is noticed, and one after it leaves what was stored.
StoredForTheText ==
  [][\A l \in DOMAIN translations' :
       \/ l \in DOMAIN translations /\ translations'[l] = translations[l]
       \/ sourceText = {translations'[l]}]_marketVars
=============================================================================
