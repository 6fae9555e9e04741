----------------------------- MODULE DemoFields -----------------------------
(***************************************************************************)
(* Metafields, metaobjects and their definitions in the demo shop, as the  *)
(* wrapper functions ask for them and FakeAdminClient answers              *)
(* (packages/shopify-admin/src/operations/metafields.ts, metaobjects.ts,   *)
(* catalog-extra.ts, fake.ts, fake-catalog-extra.ts).  Values are left     *)
(* out: what matters is which row a request finds, and which id it gets.   *)
(***************************************************************************)
EXTENDS Naturals, Sequences, SequencesExt, FiniteSets

CONSTANTS Owner,      \* what has metafields
          Key,        \* a namespace and key; of definitions, with the owner type
          SeededKey,
          MetaType,   \* metaobject types
          SeededType,
          Handle,     \* handles that callers name
          SetMax,     \* METAFIELDS_SET_MAX
          MaxIds      \* bound: ids ever given out by each counter

ASSUME DemoFieldsAssumption ==
  SeededKey \in Key /\ SeededType \in MetaType /\ SetMax \in Nat /\ MaxIds \in Nat \ {0}

VARIABLES
  metafields,   \* of each owner, in order
  metaobjects,  \* of each type, in order
  fieldDefs,    \* the metafield definitions
  objectDefs,   \* the metaobject definitions
  counters,     \* the last id of each counter
  fieldReply

fieldVars == <<metafields, metaobjects, fieldDefs, objectDefs, counters, fieldReply>>

CounterName == {"metafield", "metaobject", "metafielddef", "metafieldDefinition",
                "metaobjectdef", "metaobjectDefinition"}
Id == 1 .. MaxIds
\* A metaobject created without a handle is named after its id.
FieldNamed == Handle \cup Id
Metafield == [id : Id, key : Key]
Metaobject == [id : Id, handle : FieldNamed, by : {"create", "upsert"}]
Among(s, S) == \A i \in DOMAIN s : s[i] \in S

DemoFieldsTypeOK ==
  /\ DOMAIN metafields = Owner /\ \A o \in Owner : Among(metafields[o], Metafield)
  /\ DOMAIN metaobjects = MetaType /\ \A t \in MetaType : Among(metaobjects[t], Metaobject)
  /\ Among(fieldDefs, [id : Id, key : Key]) /\ Among(objectDefs, [id : Id, type : MetaType])
  /\ counters \in [CounterName -> 0 .. MaxIds]
  /\ fieldReply \in {"done", "refused", "thrown"}

\* seedDemoCatalog; its definitions have counters of their own names.
DemoFieldsInit ==
  /\ metafields = [o \in Owner |-> <<>>]
  /\ metaobjects = [t \in MetaType |->
       IF t = SeededType THEN <<[id |-> 1, handle |-> 1, by |-> "upsert"]>> ELSE <<>>]
  /\ fieldDefs = <<[id |-> 1, key |-> SeededKey]>>
  /\ objectDefs = <<[id |-> 1, type |-> SeededType]>>
  /\ counters = [n \in CounterName |->
       IF n \in {"metaobject", "metafielddef", "metaobjectdef"} THEN 1 ELSE 0]
  /\ fieldReply = "done"

Has(s, Test(_)) == \E i \in DOMAIN s : Test(s[i])
Answered(reply) == fieldReply' = reply
Refuse == Answered("refused") /\ UNCHANGED <<metafields, metaobjects, fieldDefs, objectDefs, counters>>

-----------------------------------------------------------------------------
(* The requests *)

Identifier == [owner : Owner, key : Key]
Few == UNION {[1 .. n -> Identifier] : n \in 1 .. SetMax}
SetMetafields(list) == [op |-> "MetafieldsSet", list |-> list]
DeleteMetafields(list) == [op |-> "MetafieldsDelete", list |-> list]
CreateMetaobject(type, handle) == [op |-> "MetaobjectCreate", type |-> type, handle |-> handle]
UpdateMetaobject(id) == [op |-> "MetaobjectUpdate", id |-> id]
UpsertMetaobject(type, handle) == [op |-> "MetaobjectUpsert", type |-> type, handle |-> handle]
DeleteMetaobject(id) == [op |-> "MetaobjectDelete", id |-> id]
CreateMetafieldDefinition(key) == [op |-> "MetafieldDefinitionCreate", key |-> key]
UpdateMetafieldDefinition(key) == [op |-> "MetafieldDefinitionUpdate", key |-> key]
CreateMetaobjectDefinition(type) == [op |-> "MetaobjectDefinitionCreate", type |-> type]
UpdateMetaobjectDefinition(id) == [op |-> "MetaobjectDefinitionUpdate", id |-> id]

FieldRequest ==
  {SetMetafields(l) : l \in Few} \cup {DeleteMetafields(l) : l \in Few}
  \cup {CreateMetaobject(t, h) : t \in MetaType, h \in {{}} \cup {{x} : x \in Handle}}
  \cup {UpdateMetaobject(i) : i \in Id} \cup {DeleteMetaobject(i) : i \in Id}
  \cup {UpsertMetaobject(t, h) : t \in MetaType, h \in Handle}
  \cup {CreateMetafieldDefinition(k) : k \in Key} \cup {UpdateMetafieldDefinition(k) : k \in Key}
  \cup {CreateMetaobjectDefinition(t) : t \in MetaType}
  \cup {UpdateMetaobjectDefinition(i) : i \in Id}

\* setMetafields asks for nothing when the list is too long.
TooManyMetafields == Answered("thrown") /\ UNCHANGED <<metafields, metaobjects, fieldDefs, objectDefs, counters>>

-----------------------------------------------------------------------------
(* Metafields *)

\* One after the other: a key that the owner has is overwritten in its place.
WithField(state, i) ==
  IF Has(state.fields[i.owner], LAMBDA f : f.key = i.key) THEN state
  ELSE [fields |-> [state.fields EXCEPT ![i.owner] = Append(@, [id |-> state.last + 1, key |-> i.key])],
        last |-> state.last + 1]

MetafieldsSet(q) ==
  /\ q.op = "MetafieldsSet"
  /\ LET end == FoldLeft(WithField, [fields |-> metafields, last |-> counters.metafield], q.list)
     IN  /\ end.last <= MaxIds
         /\ metafields' = end.fields
         /\ counters' = [counters EXCEPT !.metafield = end.last]
  /\ Answered("done") /\ UNCHANGED <<metaobjects, fieldDefs, objectDefs>>

\* What is not there is passed over.
MetafieldsDelete(q) ==
  /\ q.op = "MetafieldsDelete"
  /\ metafields' = [o \in Owner |->
       SelectSeq(metafields[o], LAMBDA f : ~Has(q.list, LAMBDA i : i.owner = o /\ i.key = f.key))]
  /\ Answered("done") /\ UNCHANGED <<metaobjects, fieldDefs, objectDefs, counters>>

-----------------------------------------------------------------------------
(* Metaobjects *)

NewMetaobject(type, handle, by) ==
  /\ counters.metaobject < MaxIds
  /\ counters' = [counters EXCEPT !.metaobject = @ + 1]
  /\ metaobjects' = [metaobjects EXCEPT ![type] =
       Append(@, [id |-> counters.metaobject + 1, handle |-> handle, by |-> by])]
  /\ Answered("done") /\ UNCHANGED <<metafields, fieldDefs, objectDefs>>
Changes(done) ==
  /\ Answered(IF done THEN "done" ELSE "refused")
  /\ UNCHANGED <<metafields, metaobjects, fieldDefs, objectDefs, counters>>
IsThere(id) == \E t \in MetaType : Has(metaobjects[t], LAMBDA m : m.id = id)

\* Whether the type has the handle already is not asked.
MetaobjectCreate(q) ==
  /\ q.op = "MetaobjectCreate"
  /\ \E handle \in IF q.handle = {} THEN {counters.metaobject + 1} ELSE q.handle :
       NewMetaobject(q.type, handle, "create")

MetaobjectUpdate(q) == q.op = "MetaobjectUpdate" /\ Changes(IsThere(q.id))

MetaobjectUpsert(q) ==
  /\ q.op = "MetaobjectUpsert"
  /\ IF Has(metaobjects[q.type], LAMBDA m : m.handle = q.handle) THEN Changes(TRUE)
     ELSE NewMetaobject(q.type, q.handle, "upsert")

MetaobjectDelete(q) ==
  /\ q.op = "MetaobjectDelete"
  /\ IF IsThere(q.id)
     THEN /\ metaobjects' = [t \in MetaType |-> SelectSeq(metaobjects[t], LAMBDA m : m.id # q.id)]
          /\ Answered("done") /\ UNCHANGED <<metafields, fieldDefs, objectDefs, counters>>
     ELSE Refuse

-----------------------------------------------------------------------------
(* Definitions *)

\* The counter is not the one the seed counted with.
MetafieldDefinitionCreate(q) ==
  /\ q.op = "MetafieldDefinitionCreate"
  /\ IF Has(fieldDefs, LAMBDA d : d.key = q.key) THEN Refuse
     ELSE /\ counters.metafieldDefinition < MaxIds
          /\ counters' = [counters EXCEPT !.metafieldDefinition = @ + 1]
          /\ fieldDefs' = Append(fieldDefs, [id |-> counters.metafieldDefinition + 1, key |-> q.key])
          /\ Answered("done") /\ UNCHANGED <<metafields, metaobjects, objectDefs>>

MetafieldDefinitionUpdate(q) ==
  q.op = "MetafieldDefinitionUpdate" /\ Changes(Has(fieldDefs, LAMBDA d : d.key = q.key))

MetaobjectDefinitionCreate(q) ==
  /\ q.op = "MetaobjectDefinitionCreate"
  /\ IF Has(objectDefs, LAMBDA d : d.type = q.type) THEN Refuse
     ELSE /\ counters.metaobjectDefinition < MaxIds
          /\ counters' = [counters EXCEPT !.metaobjectDefinition = @ + 1]
          /\ objectDefs' = Append(objectDefs, [id |-> counters.metaobjectDefinition + 1, type |-> q.type])
          /\ Answered("done") /\ UNCHANGED <<metafields, metaobjects, fieldDefs>>

MetaobjectDefinitionUpdate(q) ==
  q.op = "MetaobjectDefinitionUpdate" /\ Changes(Has(objectDefs, LAMBDA d : d.id = q.id))

-----------------------------------------------------------------------------
DemoFieldsNext ==
  \/ \E q \in FieldRequest :
       \/ MetafieldsSet(q) \/ MetafieldsDelete(q)
       \/ MetaobjectCreate(q) \/ MetaobjectUpdate(q) \/ MetaobjectUpsert(q) \/ MetaobjectDelete(q)
       \/ MetafieldDefinitionCreate(q) \/ MetafieldDefinitionUpdate(q)
       \/ MetaobjectDefinitionCreate(q) \/ MetaobjectDefinitionUpdate(q)
  \/ TooManyMetafields

-----------------------------------------------------------------------------
(* Properties *)

Distinct(s, Part(_)) == \A i, j \in DOMAIN s : Part(s[i]) = Part(s[j]) => i = j

\* An owner has one metafield for a key, also when one request names the key twice; and a key or
\* a type has one definition.
OneForEachKey ==
  /\ \A o \in Owner : Distinct(metafields[o], LAMBDA f : f.key)
  /\ Distinct(fieldDefs, LAMBDA d : d.key)
  /\ Distinct(objectDefs, LAMBDA d : d.type)

\* Upserts never give a type a second metaobject of one handle, nor does a deletion give an id
\* to two: only a create does not look.
UpsertFindsIts ==
  \A t \in MetaType :
    /\ Distinct(metaobjects[t], LAMBDA m : m.id)
    /\ \A i, j \in DOMAIN metaobjects[t] :
         i < j /\ metaobjects[t][i].handle = metaobjects[t][j].handle =>
           metaobjects[t][j].by = "create"

-----------------------------------------------------------------------------
(***************************************************************************)
(* Files and product media of the demo shop, as the wrapper functions ask  *)
(* for them and FakeAdminClient answers                                    *)
(* (packages/shopify-admin/src/operations/media.ts, catalog-extra.ts,      *)
(* fake.ts, fake-catalog-extra.ts).  Files and media are one collection;   *)
(* a product lists ids, and a copy of a product lists the same ones.       *)
(***************************************************************************)

CONSTANTS Source,       \* where files come from: an address, or what was uploaded
          Alt,
          MaxFiles,     \* bound: files ever created
          ShopProduct,  \* products; all but the first are copies of it, made later
          FirstProduct

ASSUME DemoFilesAssumption == MaxFiles \in Nat \ {0} /\ FirstProduct \in ShopProduct

VARIABLES
  files,      \* the live files by id
  mediaOf,    \* of each live product, the ids it lists
  filesMade,  \* how many ids were given out
  fileReply   \* the last answer: the ids it names, the alt text it was asked to give them if
              \* any, and whether it has userErrors

fileVars == <<files, mediaOf, filesMade, fileReply>>

FileId == 1 .. MaxFiles
File == [source : Source, alt : Alt]

DemoFilesTypeOK ==
  /\ DOMAIN files \subseteq 1 .. filesMade
  /\ \A f \in DOMAIN files : files[f] \in File
  /\ DOMAIN mediaOf \subseteq ShopProduct
  /\ \A p \in DOMAIN mediaOf : ToSet(mediaOf[p]) \subseteq 1 .. filesMade
  /\ filesMade \in 0 .. MaxFiles
  /\ ToSet(fileReply.ids) \subseteq FileId
  /\ fileReply.alt \subseteq Alt /\ fileReply.refused \in BOOLEAN

\* seedDemoCatalog: a product with one picture.
DemoFilesInit ==
  /\ \E s \in Source, a \in Alt : files = 1 :> [source |-> s, alt |-> a]
  /\ mediaOf = FirstProduct :> <<1>>
  /\ filesMade = 1 /\ fileReply = [ids |-> <<>>, alt |-> {}, refused |-> FALSE]

FileReply(ids, refused) == fileReply' = [ids |-> ids, alt |-> {}, refused |-> refused]
ReplyAlt(ids, alt) == fileReply' = [ids |-> ids, alt |-> {alt}, refused |-> FALSE]
GivenOut == 1 .. filesMade
WithoutKey(f, K) == [x \in DOMAIN f \ K |-> f[x]]

-----------------------------------------------------------------------------
(* The requests *)

\* stagedUploadsCreate gives out an address; the file is created from it by a request of its own.
StagedUpload(s) == [op |-> "StagedUploadsCreate", source |-> s]
FileCreateOf(s, a) == [op |-> "FileCreate", source |-> s, alt |-> a]
ProductCreateMediaOf(p, s, a) == [op |-> "ProductCreateMedia", product |-> p, source |-> s, alt |-> a]
UpdateFileAlt(f, a) == [op |-> "FileUpdate", id |-> f, alt |-> a]
\* The product is named, but not looked at.
UpdateProductMediaAlt(p, f, a) == [op |-> "ProductUpdateMedia", product |-> p, id |-> f, alt |-> a]
DeleteFiles(ids) == [op |-> "FileDelete", ids |-> ids]

FileRequest ==
  {StagedUpload(s) : s \in Source}
  \cup {FileCreateOf(s, a) : s \in Source, a \in Alt}
  \cup {ProductCreateMediaOf(p, s, a) : p \in ShopProduct, s \in Source, a \in Alt}
  \cup {UpdateFileAlt(f, a) : f \in GivenOut, a \in Alt}
  \cup {UpdateProductMediaAlt(p, f, a) : p \in ShopProduct, f \in GivenOut, a \in Alt}
  \cup {DeleteFiles(ids) : ids \in {<<f>> : f \in GivenOut} \cup {<<f, g>> : f, g \in GivenOut}}

-----------------------------------------------------------------------------
(* The shop *)

StagedUploadsCreate(q) ==
  q.op = "StagedUploadsCreate" /\ FileReply(<<>>, FALSE) /\ UNCHANGED <<files, mediaOf, filesMade>>

NewFile(s, a) ==
  /\ filesMade < MaxFiles
  /\ filesMade' = filesMade + 1
  /\ files' = filesMade' :> [source |-> s, alt |-> a] @@ files

FileCreate(q) ==
  /\ q.op = "FileCreate" /\ NewFile(q.source, q.alt)
  /\ FileReply(<<filesMade'>>, FALSE) /\ UNCHANGED mediaOf

\* The file is created though the product is gone, and the answer names it beside the error.
ProductCreateMedia(q) ==
  /\ q.op = "ProductCreateMedia" /\ NewFile(q.source, q.alt)
  /\ FileReply(<<filesMade'>>, q.product \notin DOMAIN mediaOf)
  /\ mediaOf' = [p \in DOMAIN mediaOf |->
       IF p = q.product THEN Append(mediaOf[p], filesMade') ELSE mediaOf[p]]

\* A file that is gone is left out of the answer, without an error.
SetAlt(q) ==
  /\ files' = [f \in DOMAIN files |-> IF f = q.id THEN [files[f] EXCEPT !.alt = q.alt] ELSE files[f]]
  /\ ReplyAlt(IF q.id \in DOMAIN files THEN <<q.id>> ELSE <<>>, q.alt)
  /\ UNCHANGED <<mediaOf, filesMade>>

FileUpdate(q) == q.op = "FileUpdate" /\ SetAlt(q)
ProductUpdateMedia(q) == q.op = "ProductUpdateMedia" /\ SetAlt(q)

\* One id after the other: of an id named twice the second is not found.
Deletable(ids) == FoldLeft(LAMBDA done, f : IF f \in DOMAIN files \ ToSet(done) THEN Append(done, f) ELSE done,
                           <<>>, ids)
FileDelete(q) ==
  /\ q.op = "FileDelete"
  /\ files' = WithoutKey(files, ToSet(q.ids))
  /\ FileReply(Deletable(q.ids), Len(Deletable(q.ids)) # Len(q.ids))
  /\ UNCHANGED <<mediaOf, filesMade>>

\* A copy lists the media of its product; a product that is deleted leaves its files behind.
CopyProduct(p) ==
  /\ p \notin DOMAIN mediaOf /\ FirstProduct \in DOMAIN mediaOf
  /\ mediaOf' = p :> mediaOf[FirstProduct] @@ mediaOf
  /\ FileReply(<<>>, FALSE) /\ UNCHANGED <<files, filesMade>>
ForgetProduct(p) ==
  /\ p \in DOMAIN mediaOf
  /\ mediaOf' = WithoutKey(mediaOf, {p})
  /\ FileReply(<<>>, FALSE) /\ UNCHANGED <<files, filesMade>>

-----------------------------------------------------------------------------
DemoFilesNext ==
  \/ \E q \in FileRequest :
       \/ StagedUploadsCreate(q) \/ FileCreate(q) \/ ProductCreateMedia(q)
       \/ FileUpdate(q) \/ ProductUpdateMedia(q) \/ FileDelete(q)
  \/ \E p \in ShopProduct : CopyProduct(p) \/ ForgetProduct(p)

\* What getProduct and listProductMedia show: the listed files that are there.
ProductMedia(p) == SelectSeq(mediaOf[p], LAMBDA f : f \in DOMAIN files)

-----------------------------------------------------------------------------
(* Properties *)

\* A file goes only when an answer says that it was deleted: not with a product, and not with the
\* copy that lists it too.
GoneIsAnswered ==
  \A f \in DOMAIN files : f \notin DOMAIN files' => f \in ToSet(fileReply'.ids)
FilesGoByDelete == [][GoneIsAnswered]_fileVars

\* A number keeps its picture: what a product lists is never shown as another file, however
\* files are deleted and created.
SourceKept ==
  /\ \A f \in DOMAIN files \cap DOMAIN files' : files'[f].source = files[f].source
  /\ \A f \in DOMAIN files' \ DOMAIN files : f > filesMade
NumbersKeepTheirFile == [][SourceKept]_fileVars

\* A file that an alt text is reported for is there and has it.
AltAsReported ==
  \A f \in ToSet(fileReply.ids), a \in fileReply.alt : f \in DOMAIN files /\ files[f].alt = a
=============================================================================
