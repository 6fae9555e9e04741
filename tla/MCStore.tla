------------------------------- MODULE MCStore -------------------------------
(***************************************************************************)
(* Small instances of the calls of the Admin API, of bulk operations and   *)
(* of the demo shop that the server runs on.  The parts share no variable, *)
(* so a behaviour is about one of them: part says which, and the others do *)
(* not move and start in one state.                                        *)
(***************************************************************************)
EXTENDS AdminCalls, BulkOperations, DemoCatalog, DemoContent, DemoFields, DemoOrders, DemoMarkets

VARIABLE part

shopVars == <<callVars, operationVars, catalogVars, variantVars, contentVars, pageVars,
              fieldVars, fileVars, orderVars, marketVars, offerVars, part>>

StoreInit ==
  /\ part \in {"calls", "bulk", "catalog", "variants", "content", "pages", "fields", "files",
              "orders", "offers", "store", "texts"}
  /\ AdminCallsInit
  /\ BulkOperationsInit
  /\ DemoCatalogInit
  /\ DemoVariantsInit
  /\ DemoContentInit
  /\ DemoPagesInit
  /\ DemoFieldsInit
  /\ DemoFilesInit
  /\ DemoOrdersInit
  /\ DemoMarketsInit
  /\ DemoOffersInit
  /\ part # "content" => kind = "page" /\ content[1].title = CHOOSE x \in Text : TRUE
  /\ part # "pages" => listing = (CHOOSE l \in Listings : TRUE) /\ born = 0
  /\ part # "variants" => listed[CHOOSE p \in Holder : TRUE] = <<1>>
  /\ part # "files" => files[1] = [source |-> CHOOSE x \in Source : TRUE,
                                    alt |-> CHOOSE a \in Alt : TRUE]
  /\ part # "texts" => sourceText = {CHOOSE x \in SourceText : TRUE}
  /\ part # "offers" => webhooks[1] = CHOOSE a \in Address \ BadAddress : TRUE

Only(p) == part = p /\ UNCHANGED part
StoreNext ==
  \/ Only("calls") /\ AdminCallsNext
        /\ UNCHANGED <<operationVars, catalogVars, variantVars, contentVars, pageVars, fieldVars,
                     fileVars, orderVars, marketVars, offerVars>>
  \/ Only("bulk") /\ BulkOperationsNext
        /\ UNCHANGED <<callVars, catalogVars, variantVars, contentVars, pageVars, fieldVars,
                     fileVars, orderVars, marketVars, offerVars>>
  \/ Only("catalog") /\ DemoCatalogNext
        /\ UNCHANGED <<callVars, operationVars, variantVars, contentVars, pageVars, fieldVars,
                     fileVars, orderVars, marketVars, offerVars>>
  \/ Only("variants") /\ DemoVariantsNext
        /\ UNCHANGED <<callVars, operationVars, catalogVars, contentVars, pageVars, fieldVars,
                     fileVars, orderVars, marketVars, offerVars>>
  \/ Only("content") /\ DemoContentNext
        /\ UNCHANGED <<callVars, operationVars, catalogVars, variantVars, pageVars, fieldVars,
                     fileVars, orderVars, marketVars, offerVars>>
  \/ Only("pages") /\ DemoPagesNext
        /\ UNCHANGED <<callVars, operationVars, catalogVars, variantVars, contentVars, fieldVars,
                     fileVars, orderVars, marketVars, offerVars>>
  \/ Only("fields") /\ DemoFieldsNext
        /\ UNCHANGED <<callVars, operationVars, catalogVars, variantVars, contentVars, pageVars,
                     fileVars, orderVars, marketVars, offerVars>>
  \/ Only("files") /\ DemoFilesNext
        /\ UNCHANGED <<callVars, operationVars, catalogVars, variantVars, contentVars, pageVars,
                     fieldVars, orderVars, marketVars, offerVars>>
  \/ Only("orders") /\ DemoOrdersNext
        /\ UNCHANGED <<callVars, operationVars, catalogVars, variantVars, contentVars, pageVars,
                     fieldVars, fileVars, marketVars, offerVars>>
  \/ Only("store") /\ StoreStep
        /\ UNCHANGED <<callVars, operationVars, catalogVars, variantVars, contentVars, pageVars,
                     fieldVars, fileVars, orderVars, offerVars>>
  \/ Only("texts") /\ TextStep
        /\ UNCHANGED <<callVars, operationVars, catalogVars, variantVars, contentVars, pageVars,
                     fieldVars, fileVars, orderVars, offerVars>>
  \/ Only("offers") /\ DemoOffersNext
        /\ UNCHANGED <<callVars, operationVars, catalogVars, variantVars, contentVars, pageVars,
                     fieldVars, fileVars, orderVars, marketVars>>

StoreSpec == StoreInit /\ [][StoreNext]_shopVars

DemoTypeOK ==
  /\ DemoCatalogTypeOK /\ DemoVariantsTypeOK /\ DemoContentTypeOK /\ DemoPagesTypeOK
     /\ DemoFieldsTypeOK
  /\ DemoFilesTypeOK /\ DemoOrdersTypeOK /\ DemoMarketsTypeOK /\ DemoOffersTypeOK

DemoAgrees ==
  /\ MembershipAgrees /\ NoMemberTwice /\ VariantsAgree /\ CountsAreAnswered /\ ContentAsSaid
  /\ NoStayerMissed /\ OffsetMissesOnlyGone /\ RepeatsHaveAReason /\ OneForEachKey /\ UpsertFindsIts
  /\ AltAsReported /\ CustomersAgree /\ OneOrderForADraft /\ FulfilledMeansSent /\ EmailOnce
  /\ PricesInCurrency /\ CodeOnce

\* The tables of the demo shop agree with each other, and none of its handlers takes a step
\* that the shop it stands for would not take (fake.ts and the fake-*.ts beside it).
DemoStoreHolds ==
  /\ [](DemoTypeOK /\ DemoAgrees)
  /\ DraftsWait /\ FilesGoByDelete /\ NumbersKeepTheirFile
  /\ SentIsNotCancelled /\ StoredForTheText /\ PixelByItsNumber
=============================================================================
