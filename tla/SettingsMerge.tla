---------------------------- MODULE SettingsMerge ----------------------------
(***************************************************************************)
(* The structural merges of packages/shopify-theme/src/settings-merge.ts:  *)
(* config/settings_data.json and JSON templates, with a patch.  A JSON     *)
(* value is a leaf or an object of values.  Blocks of apps are recognised  *)
(* by their type; listAppReferences is what the tools show of them.        *)
(***************************************************************************)
EXTENDS Naturals, FiniteSets, SequencesExt

CONSTANTS MaxSections, \* MAX_SECTIONS_PER_TEMPLATE
          MaxBlocks,   \* MAX_BLOCKS_PER_SECTION
          Trees,       \* the values that are merged with one another
          Settings, Sections \* what a settings file and the sections of a template may hold

VARIABLES
  kind,    \* what is merged: "value", "settings" or "template"
  base, patch,
  merged,  \* the result, [leaf |-> "none"] before the merge, [leaf |-> "refused"] if it is over a limit
  again    \* the result of merging the same patch once more

mergeVars == <<kind, base, patch, merged, again>>

Leaf(v) == [leaf |-> v]
Object(f) == [object |-> f]
IsPlainObject(t) == "object" \in DOMAIN t
None == Leaf("none")
Refused == Leaf("refused")

-----------------------------------------------------------------------------

\* Objects are merged key by key; anything else the patch replaces.
RECURSIVE DeepMerge(_, _)
DeepMerge(b, p) ==
  IF ~(IsPlainObject(b) /\ IsPlainObject(p)) THEN p
  ELSE Object([k \in DOMAIN b.object \cup DOMAIN p.object |->
                 IF k \notin DOMAIN p.object THEN b.object[k]
                 ELSE IF k \notin DOMAIN b.object THEN p.object[k]
                 ELSE DeepMerge(b.object[k], p.object[k])])

IsAppRef(block) == IsPlainObject(block) /\ "type" \in DOMAIN block.object /\ block.object["type"] = Leaf("app")

\* Fault: a block that the patch does not name is dropped.
MergeNamedBlocks(current, new) ==
  [id \in DOMAIN new |-> IF id \in DOMAIN current THEN DeepMerge(current[id], new[id]) ELSE new[id]]
\* Blocks the patch names are merged, all others stay, those of apps among them.
MergeBlocks(current, new) ==
  [id \in DOMAIN current \cup DOMAIN new |->
     IF id \notin DOMAIN new THEN current[id]
     ELSE IF id \notin DOMAIN current THEN new[id] ELSE DeepMerge(current[id], new[id])]

\* mergeSettingsData
MergeSettingsData(b, p) ==
  [settings |-> DeepMerge(b.settings, p.settings), sections |-> DeepMerge(b.sections, p.sections),
   blocks |-> MergeBlocks(b.blocks, p.blocks)]

\* A section of both: an order in the patch replaces the one of the file.
MergeSection(b, p) ==
  [blocks |-> MergeBlocks(b.blocks, p.blocks), settings |-> DeepMerge(b.settings, p.settings),
   order |-> IF p.order # <<>> THEN p.order ELSE b.order]

MergedSections(b, p) ==
  [id \in DOMAIN b \cup DOMAIN p |-> IF id \notin DOMAIN p THEN b[id]
                                     ELSE IF id \notin DOMAIN b THEN p[id] ELSE MergeSection(b[id], p[id])]

OverLimit(sections) ==
  \/ Cardinality(DOMAIN sections) > MaxSections
  \/ \E id \in DOMAIN sections : Cardinality(DOMAIN sections[id].blocks) > MaxBlocks

\* mergeJsonTemplate
MergeJsonTemplate(b, p) ==
  LET sections == MergedSections(b, p) IN IF OverLimit(sections) THEN Refused ELSE sections

\* listAppReferences: where the references are.
ListAppReferences(k, doc) ==
  IF k = "settings" THEN {<<id>> : id \in {id \in DOMAIN doc.blocks : IsAppRef(doc.blocks[id])}}
  ELSE UNION {{<<s, id>> : id \in {id \in DOMAIN doc[s].blocks : IsAppRef(doc[s].blocks[id])}} : s \in DOMAIN doc}

-----------------------------------------------------------------------------
MergeOf(k, b, p) ==
  CASE k = "value" -> DeepMerge(b, p) [] k = "settings" -> MergeSettingsData(b, p)
    [] k = "template" -> MergeJsonTemplate(b, p)

MergeInit ==
  /\ \/ kind = "value" /\ base \in Trees /\ patch \in Trees
     \/ kind = "settings" /\ base \in Settings /\ patch \in Settings
     \/ kind = "template" /\ base \in Sections /\ patch \in Sections
  /\ merged = None /\ again = None

Merge == merged = None /\ merged' = MergeOf(kind, base, patch) /\ UNCHANGED <<kind, base, patch, again>>
MergeAgain ==
  /\ merged \notin {None, Refused} /\ again = None
  /\ again' = MergeOf(kind, merged, patch) /\ UNCHANGED <<kind, base, patch, merged>>
MergeNext == Merge \/ MergeAgain

-----------------------------------------------------------------------------
(* Properties *)

\* The leaves of a value, each with its path; an empty object is a leaf.
RECURSIVE Leaves(_)
Leaves(t) ==
  IF ~IsPlainObject(t) THEN {<<<<>>, t>>}
  ELSE IF DOMAIN t.object = {} THEN {<<<<>>, t>>}
  ELSE UNION {{<<<<k>> \o x[1], x[2]>> : x \in Leaves(t.object[k])} : k \in DOMAIN t.object}
Path(x) == x[1]
IsEmpty(x) == IsPlainObject(x[2])
Above(x, y) == IsStrictPrefix(Path(x), Path(y))

\* What is merged is every leaf of the patch and those of the base that no leaf
\* of the patch replaces, above, at or below them; an empty object in the patch
\* replaces nothing but a leaf (deepMerge against the leaves it should have).
MergeKeepsLeaves ==
  kind = "value" /\ merged # None =>
    LET B == Leaves(base) P == Leaves(patch)
        object(y) == \E x \in B : Above(y, x) \/ (Path(x) = Path(y) /\ IsEmpty(x))
        replaces(y, x) ==
          \/ Above(x, y)
          \/ IsPrefix(Path(y), Path(x)) /\ ~(IsEmpty(y) /\ object(y))
    IN Leaves(merged) = {y \in P : ~(IsEmpty(y) /\ object(y))} \cup {x \in B : \A y \in P : ~replaces(y, x)}

BlockAt(k, doc, ref) == IF k = "settings" THEN doc.blocks[ref[1]] ELSE doc[ref[1]].blocks[ref[2]]
Targeted(ref) ==
  IF kind = "settings" THEN ref[1] \in DOMAIN patch.blocks
  ELSE ref[1] \in DOMAIN patch /\ ref[2] \in DOMAIN patch[ref[1]].blocks

\* App blocks and embeds come through a merge unless the patch names that very
\* block (the header of settings-merge.ts), and unless it is refused.
AppBlocksStay ==
  kind \in {"settings", "template"} /\ merged \notin {None, Refused} =>
    \A ref \in ListAppReferences(kind, base) :
      Targeted(ref) \/ (ref \in ListAppReferences(kind, merged)
                        /\ BlockAt(kind, merged, ref) = BlockAt(kind, base, ref))

\* No template comes out with more sections, or a section with more blocks, than
\* Shopify takes: whether they come from the file, the patch or both.
LimitsHold ==
  kind = "template" /\ merged \notin {None, Refused} =>
    /\ Cardinality(DOMAIN merged) <= MaxSections
    /\ \A id \in DOMAIN merged : Cardinality(DOMAIN merged[id].blocks) <= MaxBlocks

\* The same patch merged once more changes nothing.
MergeSettles == again \in {None, merged}

\* A merge takes what the patch says and leaves the rest, app blocks before all (settings-merge.ts).
MergeSafe == MergeKeepsLeaves /\ AppBlocksStay /\ LimitsHold /\ MergeSettles
=============================================================================
