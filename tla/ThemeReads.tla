----------------------------- MODULE ThemeReads -----------------------------
(***************************************************************************)
(* The tools that read a theme (packages/tools/src/tools/theme.ts and its  *)
(* neighbours) and the cache of file sets they share (theme-loader.ts).    *)
(* A tool picks a theme, lists its files, and answers with the cached set  *)
(* if the listing's fingerprint is the one the set was stored under, or    *)
(* reads the files, some at a time, and stores the set.  Meanwhile files   *)
(* are edited and deleted, and themes are published and deleted.           *)
(***************************************************************************)
EXTENDS Naturals, FiniteSets, Functions

CONSTANTS Reader,        \* tool calls
          FileKey, Body, \* the keys of theme files and what files may hold
          NoFile,        \* what a key without a file holds
          SetTtl,        \* CACHE_TTL_MS
          MaxTime,       \* bound on the clock
          MaxChanges     \* bound on what merchants and other tools do

ASSUME ThemeReadsAssumption ==
  /\ NoFile \notin Body
  /\ SetTtl \in Nat \ {0} /\ {MaxTime, MaxChanges} \subseteq Nat

VARIABLES
  proof,    \* what the engine tells of a file: a checksum, the time of its last change, nothing
  body,     \* what each file of each theme holds
  changed,  \* when it was changed last
  place,    \* of each theme: "none", "main" or "unpublished"
  ours,     \* the themes with the name of a working theme
  cached,     \* the cached file set of each theme
  reader,   \* where each call is, and what it has
  blurred,  \* history: files changed again when they already had the stamp of that moment
  now, changes

readVars == <<proof, body, changed, place, ours, cached, reader, blurred, now, changes>>
world == <<proof, body, changed, place, ours, blurred>>

ThemeId == 1 .. 2
Undefined == 0      \* a theme id that was not given
Listing == [FileKey -> Body \cup {NoFile}]
NoSet == [print |-> {}, set |-> [k \in FileKey |-> NoFile], at |-> 0, began |-> 0, clean |-> TRUE]

\* A tool: whether it looks for a theme when none is given, what it reads ("set" through the
\* cache, "all" files or "one" without it, or "nothing"), and whether it names both themes.
Tool == [resolves : BOOLEAN, reads : {"nothing", "one", "all", "set"}, both : BOOLEAN]
Idle == [at |-> "idle", reads |-> "nothing", both |-> FALSE, theme |-> Undefined, live |-> Undefined,
         todo |-> {}, got |-> NoSet, listed |-> NoSet.set, old |-> FALSE, moved |-> FALSE]
Over == [Idle EXCEPT !.at = "over"]   \* ended, with an answer no property is about

ThemeReadsTypeOK ==
  /\ proof \in [FileKey -> {"checksum", "time", "nothing"}]
  /\ body \in [ThemeId -> Listing] /\ place \in [ThemeId -> {"none", "main", "unpublished"}]
  /\ Cardinality({t \in ThemeId : place[t] = "main"}) = 1 /\ ours \subseteq ThemeId
  /\ \A r \in Reader : /\ reader[r].at \in {"idle", "working", "live", "list", "read", "done", "over"}
                       /\ reader[r].reads \in {"nothing", "one", "all", "set"} /\ reader[r].todo \subseteq FileKey
                       /\ reader[r].theme \in ThemeId \cup {Undefined} /\ reader[r].got.set \in Listing
  /\ \A t \in ThemeId : cached[t] # NoSet => cached[t].set \in Listing /\ cached[t].at \in 0 .. now
  /\ now \in 0 .. MaxTime /\ changes \in 0 .. MaxChanges

ThemeReadsInit ==
  /\ proof \in [FileKey -> {"checksum", "time", "nothing"}]
  /\ body \in [ThemeId -> Listing] /\ changed = [t \in ThemeId |-> [k \in FileKey |-> 0]]
  /\ place \in [ThemeId -> {"none", "main", "unpublished"}] /\ place[1] = "main" /\ place[2] = "unpublished"
  /\ ours \in SUBSET ThemeId
  /\ cached = [t \in ThemeId |-> NoSet] /\ reader = [r \in Reader |-> Idle]
  /\ blurred = {} /\ now = 0 /\ changes = 0
-----------------------------------------------------------------------------
(* The tools *)

Use(resolves, what) == [resolves |-> resolves, reads |-> what, both |-> FALSE]

Architecture == Use(TRUE, "set")
Preview == Use(TRUE, "nothing")
ListRemote == Use(FALSE, "nothing")
CurrentThemes == [Use(FALSE, "nothing") EXCEPT !.both = TRUE]
Inspect == Use(TRUE, "set")   \* and lists the themes, to answer with the reference
ByRole == Use(TRUE, "set")
Config == Use(TRUE, "one")
SettingsData == Use(TRUE, "one")
Dependencies == Use(TRUE, "set")
Search == Use(TRUE, "set")
FindReference == Use(TRUE, "set")
FileRead == Use(FALSE, "one")
FileSearch == Use(FALSE, "set")
InspectApp == Use(FALSE, "set")
CheckSummary == Use(FALSE, "all")
CheckIssue == Use(FALSE, "all")
CheckRun == Use(FALSE, "all")
FamilyInspect == Use(FALSE, "one")
FamilySchema == Use(FALSE, "one")
LiquidParse == Use(FALSE, "one")
LiquidInspect == Use(FALSE, "one")
LiquidValidate == Use(FALSE, "one")

ThemeTools == {Architecture, Preview, ListRemote, CurrentThemes, Inspect, ByRole, Config, SettingsData,
               Dependencies, Search, FindReference}
FileTools == {FileRead, FileSearch, InspectApp, CheckSummary, CheckIssue, CheckRun, FamilyInspect,
              FamilySchema, LiquidParse, LiquidInspect, LiquidValidate}
-----------------------------------------------------------------------------
(* Picking a theme *)

IsThere(t) == t \in ThemeId /\ place[t] # "none"
Updated(t) == CHOOSE n \in {changed[t][k] : k \in FileKey} : \A k \in FileKey : changed[t][k] <= n
LiveOne == CHOOSE t \in ThemeId : place[t] = "main"

WorkingNow == {t \in ours : place[t] = "unpublished"}
LatestWorking == {t \in WorkingNow : \A u \in WorkingNow : Updated(u) <= Updated(t)}

Begin(r, tool, t) ==
  /\ reader[r].at = "idle"
  /\ tool.reads = "nothing" /\ ~tool.resolves => t = Undefined   \* no such parameter
  /\ reader' = [reader EXCEPT ![r] = [Idle EXCEPT
       !.reads = tool.reads, !.both = tool.both, !.theme = t,
       !.at = IF tool.both THEN "live" ELSE IF tool.resolves /\ t = Undefined THEN "working" ELSE "list"]]
  /\ UNCHANGED <<world, cached, now, changes>>

\* WorkingThemeService.current, for the default theme: the live one if there is none.
FindWorking(r) ==
  /\ reader[r].at = "working"
  /\ \/ \E t \in LatestWorking :
          reader' = [reader EXCEPT ![r].theme = t, ![r].at = IF reader[r].both THEN "done" ELSE "list"]
     \/ LatestWorking = {} /\ reader' = [reader EXCEPT ![r].at = IF reader[r].both THEN "done" ELSE "live"]
  /\ UNCHANGED <<world, cached, now, changes>>

\* WorkingThemeService.live; theme.current asks for it first.
FindLive(r) ==
  /\ reader[r].at = "live"
  /\ reader' = [reader EXCEPT ![r] = IF @.both
                                     THEN [@ EXCEPT !.at = "working", !.live = LiveOne]
                                     ELSE [@ EXCEPT !.at = "list", !.theme = LiveOne]]
  /\ UNCHANGED <<world, cached, now, changes>>
-----------------------------------------------------------------------------
(* Reading it: loadThemeFileSet, and the tools that read without it *)

KeysOf(t) == {k \in FileKey : body[t][k] # NoFile}
Stamp(t, k) == IF proof[k] = "checksum" THEN <<k, body[t][k]>> ELSE <<k, changed[t][k]>>

\* listingFingerprint: none for an empty listing, or when the engine cannot prove freshness.
Fingerprint(t) ==
  IF \E k \in KeysOf(t) : proof[k] = "nothing" THEN {} ELSE {Stamp(t, k) : k \in KeysOf(t)}

Hit(t) == Fingerprint(t) # {} /\ cached[t].print = Fingerprint(t) /\ now - cached[t].at < SetTtl

\* The tool that works on nothing, or lists the themes only, is done here.
ListNothing(r) ==
  /\ reader[r].at = "list" /\ reader[r].reads = "nothing"
  /\ reader' = [reader EXCEPT ![r] = Over]
  /\ UNCHANGED <<world, cached, now, changes>>

ListGone(r) ==
  /\ reader[r].at = "list" /\ reader[r].reads # "nothing" /\ ~IsThere(reader[r].theme)
  /\ reader' = [reader EXCEPT ![r] = Over]
  /\ UNCHANGED <<world, cached, now, changes>>

ListHit(r) ==
  LET t == reader[r].theme
  IN  /\ reader[r].at = "list" /\ reader[r].reads = "set" /\ IsThere(t) /\ Hit(t)
      /\ reader' = [reader EXCEPT ![r] = [@ EXCEPT !.at = "done", !.got = cached[t], !.listed = body[t],
                                                   !.old = now - cached[t].at >= SetTtl]]
      /\ UNCHANGED <<world, cached, now, changes>>

ListMiss(r) ==
  LET t == reader[r].theme  what == reader[r].reads
  IN  /\ reader[r].at = "list" /\ what # "nothing" /\ IsThere(t) /\ (what = "set" => ~Hit(t))
      /\ \E ks \in IF what = "one" THEN {{k} : k \in FileKey} ELSE {KeysOf(t)} :
           reader' = [reader EXCEPT ![r] = [@ EXCEPT
             !.at = "read", !.todo = ks, !.listed = body[t], !.got = [NoSet EXCEPT !.print = Fingerprint(t), !.began = now]]]
      /\ UNCHANGED <<world, cached, now, changes>>

\* readFiles asks for some files at a time.  A file that is gone fails the call over the
\* Theme Access proxy and is missing from the answer over GraphQL.
ReadSome(r) ==
  LET t == reader[r].theme
  IN  /\ reader[r].at = "read"
      /\ \E ks \in SUBSET reader[r].todo :
           /\ ks # {}
           /\ reader' = [reader EXCEPT ![r].todo = @ \ ks,
                                       ![r].got.set = [k \in FileKey |-> IF k \in ks THEN body[t][k] ELSE @[k]]]
      /\ UNCHANGED <<world, cached, now, changes>>

ReadFails(r) ==
  /\ reader[r].at = "read" /\ reader[r].todo # {}
  /\ ~IsThere(reader[r].theme) \/ \E k \in reader[r].todo : body[reader[r].theme][k] = NoFile
  /\ reader' = [reader EXCEPT ![r] = Over]
  /\ UNCHANGED <<world, cached, now, changes>>

Filled(r) == [reader[r].got EXCEPT !.at = now]

\* A set is stored, under the fingerprint of the listing, in the step that answers.
Answers(r) ==
  LET t == reader[r].theme
  IN  /\ reader[r].at = "read" /\ reader[r].todo = {}
      /\ cached' = IF reader[r].reads = "set" /\ reader[r].got.print # {}
                 THEN [cached EXCEPT ![t] = Filled(r)] ELSE cached
      /\ reader' = [reader EXCEPT ![r] = IF @.reads = "set" THEN [@ EXCEPT !.at = "done", !.got = Filled(r)]
                                                                 ELSE Over]
      /\ UNCHANGED <<world, now, changes>>
-----------------------------------------------------------------------------
(* Merchants, other tools, time and restarts *)

Change == changes < MaxChanges /\ changes' = changes + 1

EditFile(t, k, v) ==
  /\ Change /\ IsThere(t) /\ body[t][k] # v
  /\ body' = [body EXCEPT ![t][k] = v]
  /\ changed' = [changed EXCEPT ![t][k] = now]
  /\ blurred' = IF proof[k] = "time" /\ changed[t][k] = now THEN blurred \cup {<<t, k>>} ELSE blurred
  /\ reader' = [r \in Reader |-> IF reader[r].at = "read" /\ reader[r].theme = t
                                 THEN [reader[r] EXCEPT !.got.clean = FALSE] ELSE reader[r]]
  /\ UNCHANGED <<proof, place, ours, cached, now>>

Moves == [r \in Reader |-> IF reader[r].at \in {"working", "live"} THEN [reader[r] EXCEPT !.moved = TRUE]
                           ELSE reader[r]]

PublishTheme(t) ==
  /\ Change /\ place[t] = "unpublished"
  /\ place' = [u \in ThemeId |-> IF u = t THEN "main" ELSE IF u = LiveOne THEN "unpublished" ELSE place[u]]
  /\ reader' = Moves
  /\ UNCHANGED <<proof, body, changed, ours, cached, blurred, now>>

\* Shopify never gives the id of a theme again.
RemoveTheme(t) ==
  /\ Change /\ place[t] = "unpublished"
  /\ place' = [place EXCEPT ![t] = "none"] /\ reader' = Moves
  /\ UNCHANGED <<proof, body, changed, ours, cached, blurred, now>>

PassTime == now < MaxTime /\ now' = now + 1 /\ UNCHANGED <<world, cached, reader, changes>>

\* The cache is keyed by the engine, and goes with it when the shop's planes are built anew.
DropEngine == Change /\ cached' = [t \in ThemeId |-> NoSet] /\ UNCHANGED <<world, reader, now>>

ReadStep(r) ==
  \/ FindWorking(r) \/ FindLive(r)
  \/ ListNothing(r) \/ ListGone(r) \/ ListHit(r) \/ ListMiss(r)
  \/ ReadSome(r) \/ ReadFails(r) \/ Answers(r)

ThemeReadsNext ==
  \/ \E r \in Reader : \/ \E tool \in ThemeTools \cup FileTools, t \in ThemeId \cup {Undefined} : Begin(r, tool, t)
                       \/ ReadStep(r)
  \/ \E t \in ThemeId, k \in FileKey, v \in Body \cup {NoFile} : EditFile(t, k, v)
  \/ \E t \in ThemeId : PublishTheme(t) \/ RemoveTheme(t)
  \/ PassTime \/ DropEngine

ThemeReadsSpec == ThemeReadsInit /\ [][ThemeReadsNext]_readVars
-----------------------------------------------------------------------------
(* Properties *)

Got(r) == reader[r].at = "done" /\ reader[r].reads = "set"

\* A set that was read while nobody touched the theme is given only to calls whose own
\* listing had just these contents, however the theme went in between (theme-loader.ts:
\* "if every file's checksum (or updatedAt) is unchanged the cached set is reused").  The
\* exception is a file changed twice within one tick of a time stamp.
AnsweredAsListed ==
  \A r \in Reader :
    Got(r) /\ reader[r].got.clean =>
      \A k \in FileKey : <<reader[r].theme, k>> \notin blurred => reader[r].got.set[k] = reader[r].listed[k]

\* A set is stored under the fingerprint taken before its files were read, so a file edited
\* in between and then edited back leaves contents in the cache that the theme does not
\* have.  They are answered to nobody SetTtl or more after they were stored, and concern
\* only files that changed after that reading began.
StaleSetEnds ==
  \A r \in Reader :
    Got(r) => /\ ~reader[r].old
              /\ \A k \in FileKey : reader[r].got.set[k] # reader[r].listed[k] =>
                                      changed[reader[r].theme][k] >= reader[r].got.began

\* theme.current finds the live theme and the working theme in two listings.  It names one
\* theme as both only if themes were published or deleted in between.
LiveIsNotWorking ==
  \A r \in Reader :
    /\ reader[r].at = "done" /\ reader[r].both /\ reader[r].theme = reader[r].live
    => reader[r].moved

\* A tool that reads a theme is answered with a theme and files that were there (loadThemeFileSet
\* and the theme tools).
ReadsSafe == ThemeReadsTypeOK /\ AnsweredAsListed /\ StaleSetEnds /\ LiveIsNotWorking
=============================================================================
