-------------------------- MODULE DesignManifests --------------------------
(***************************************************************************)
(* The design manifests of a shop, numbered in the order they were made,   *)
(* one of which is active: DesignManifestRepo behind design-manifests.ts   *)
(* and the routes of api/admin.ts.  create takes the highest number, puts  *)
(* out what is active and inserts; setActive is two updates; there is no   *)
(* transaction around either.  A manifest is named by the call that made   *)
(* it.                                                                     *)
(***************************************************************************)
EXTENDS Naturals, FiniteSets, FiniteSetsExt

CONSTANTS Author,     \* calls that create or activate; each is made once
          NoAuthor,
          MaxManifests  \* bound on the numbers given

ASSUME AuthorAssumption == NoAuthor \notin Author /\ MaxManifests \in Nat

VARIABLES
  manifest, \* the number of each manifest, 0 where there is none
  active,   \* the manifests with is_active = 1
  author,   \* each call: where it is, the manifest it is about, the number it took
  crossed_numbers, \* history: calls that took a number while another was between its two steps
  met,      \* history: activations of which one put out before the other had finished
  unsettled, \* history: the last activation met another, was cut off, or found nothing
  latest    \* history: the manifest that was activated last, if it was not deleted since

manifestVars == <<manifest, active, author, crossed_numbers, met, unsettled, latest>>

NotAuthor == [at |-> "idle", kind |-> "create", of |-> NoAuthor, activate |-> FALSE, number |-> 0]

Manifests == {a \in Author : manifest[a] > 0}

ManifestsTypeOK ==
  /\ manifest \in [Author -> 0 .. MaxManifests] /\ active \subseteq Manifests
  /\ author \in [Author -> [at : {"idle", "putout", "insert", "activate", "done"},
                            kind : {"create", "activate"}, of : Author \cup {NoAuthor},
                            activate : BOOLEAN, number : 0 .. MaxManifests]]
  /\ crossed_numbers \subseteq Author /\ met \subseteq Author /\ unsettled \in BOOLEAN
  /\ latest \in Author \cup {NoAuthor}

ManifestsInit ==
  /\ manifest = [a \in Author |-> 0] /\ active = {} /\ author = [a \in Author |-> NotAuthor]
  /\ crossed_numbers = {} /\ met = {} /\ unsettled = FALSE /\ latest = NoAuthor

AuthorAt(a, place) == author[a].at = place
AuthorTo(a, place) == author' = [author EXCEPT ![a].at = place]
Numbering == {a \in Author : author[a].kind = "create" /\ author[a].at \in {"putout", "insert"}}
\* Activations between their first update and their last statement.
Activating == {a \in Author : author[a].activate /\ author[a].at \in {"insert", "activate"}}

TakeNumberBy(a, on, number) ==
  /\ AuthorAt(a, "idle") /\ number <= MaxManifests
  /\ author' = [author EXCEPT ![a] = [at |-> IF on THEN "putout" ELSE "insert", kind |-> "create",
                                      of |-> a, activate |-> on, number |-> number]]
  /\ crossed_numbers' = IF Numbering = {} THEN crossed_numbers ELSE crossed_numbers \cup {a} \cup Numbering
  /\ UNCHANGED <<manifest, active, met, unsettled, latest>>

\* One more than the highest number of the shop, or one.
TakeNumber(a, on) == TakeNumberBy(a, on, Max({manifest[b] : b \in Author}) + 1)

\* The first of two statements: whatever is active is put out.
PutOut(a) ==
  /\ AuthorAt(a, "putout")
  /\ AuthorTo(a, IF author[a].kind = "create" THEN "insert" ELSE "activate")
  /\ active' = {} /\ met' = IF Activating = {} THEN met ELSE met \cup {a} \cup Activating
  /\ UNCHANGED <<manifest, crossed_numbers, unsettled, latest>>

InsertManifest(a) ==
  /\ AuthorAt(a, "insert") /\ AuthorTo(a, "done")
  /\ manifest' = [manifest EXCEPT ![a] = author[a].number]
  /\ IF author[a].activate
     THEN /\ active' = active \cup {a} /\ latest' = a
          /\ unsettled' = (a \in met)
     ELSE UNCHANGED <<active, latest, unsettled>>
  /\ UNCHANGED <<crossed_numbers, met>>

BeginActivate(a, b) ==
  /\ AuthorAt(a, "idle")
  /\ author' = [author EXCEPT ![a] = [at |-> "putout", kind |-> "activate", of |-> b,
                                      activate |-> TRUE, number |-> 0]]
  /\ UNCHANGED <<manifest, active, crossed_numbers, met, unsettled, latest>>

\* A manifest that was deleted meanwhile, or never was, leaves the shop without one.
Activate(a) ==
  LET b == author[a].of IN
  /\ AuthorAt(a, "activate") /\ AuthorTo(a, "done")
  /\ IF b \in Manifests
     THEN active' = active \cup {b} /\ latest' = b /\ unsettled' = (a \in met)
     ELSE active' = active /\ latest' = latest /\ unsettled' = TRUE
  /\ UNCHANGED <<manifest, crossed_numbers, met>>

DeleteManifest(b) ==
  /\ b \in Manifests
  /\ manifest' = [manifest EXCEPT ![b] = 0] /\ active' = active \ {b}
  /\ latest' = IF latest = b THEN NoAuthor ELSE latest
  /\ UNCHANGED <<author, crossed_numbers, met, unsettled>>

\* A call that dies after it has put out the active manifest leaves none.
ManifestsCrash ==
  /\ \E a \in Author : author[a].at \in {"putout", "insert", "activate"}
  /\ unsettled' = (unsettled \/ Activating # {})
  /\ author' = [a \in Author |-> IF AuthorAt(a, "idle") THEN author[a]
                                 ELSE [author[a] EXCEPT !.at = "done"]]
  /\ UNCHANGED <<manifest, active, crossed_numbers, met, latest>>

ManifestsNext ==
  \/ \E a \in Author : \/ \E on \in BOOLEAN : TakeNumber(a, on)
                       \/ PutOut(a) \/ InsertManifest(a) \/ Activate(a)
                       \/ \E b \in Author : BeginActivate(a, b)
  \/ \E b \in Author : DeleteManifest(b)
  \/ ManifestsCrash

ManifestsSpec == ManifestsInit /\ [][ManifestsNext]_manifestVars
-----------------------------------------------------------------------------
(* Properties *)

\* The manifest that was activated last is active and no other is, once nobody is
\* activating; except after activations that met, were cut off or found nothing.
LatestIsActive ==
  Activating = {} /\ ~unsettled => active = {latest} \ {NoAuthor}

\* Two manifests have one number only when they were made at the same time.
NumbersDiffer ==
  \A a, b \in Manifests : a # b /\ manifest[a] = manifest[b] => a \in crossed_numbers

\* Manifests are numbered and activated one after the other (DesignManifestRepo).
ManifestsSafe == ManifestsTypeOK /\ LatestIsActive /\ NumbersDiffer

-----------------------------------------------------------------------------
(***************************************************************************)
(* The skills of a shop, which its clients see as prompts: those that come *)
(* with the server, overridden by the rows of the table skills.  A skill   *)
(* is written by a tool or a page, switched on and off, deleted; and       *)
(* SkillRepo.upsert reads, writes and reads back in three statements.      *)
(* The text of a version is the call that wrote it.                        *)
(***************************************************************************)

CONSTANTS Caller,   \* calls; each is made once
          Skill,    \* names
          Builtin,  \* the names of those that come with the server
          NoCaller

ASSUME SkillsAssumption == Skill # {} /\ Builtin \subseteq Skill /\ NoCaller \notin Caller

VARIABLES
  skill,   \* the row of a name: its skill_id (the call that inserted it), text, enabled
  caller,  \* each call: what it asks for, where it is, the row it read; was: whether that
           \* row was on, or whether what a client was served may be
  off,     \* history: the skills that were switched off, and no one on since
  during,  \* history: calls that were writing a skill when it was switched off last
  wrote,   \* history: calls whose text was once in the row
  anew     \* history: upserts during which a row of their name was inserted

skillVars == <<skill, caller, off, during, wrote, anew>>

NoSkill == [id |-> NoCaller, text |-> NoCaller, on |-> TRUE]
Unasked == [at |-> "idle", kind |-> "write", name |-> CHOOSE n \in Skill : TRUE, on |-> TRUE,
            id |-> NoCaller, was |-> TRUE]

SkillsTypeOK ==
  /\ skill \in [Skill -> [id : Caller \cup {NoCaller}, text : Caller \cup {NoCaller}, on : BOOLEAN]]
  /\ caller \in [Caller -> [at : {"idle", "get", "update", "insert", "back", "look", "done", "error"},
                            kind : {"write", "switch", "delete", "prompt"}, name : Skill,
                            on : BOOLEAN, id : Caller \cup {NoCaller}, was : BOOLEAN]]
  /\ off \subseteq Skill /\ during \in [Skill -> SUBSET Caller]
  /\ wrote \subseteq Caller /\ anew \subseteq Caller
  /\ \A n \in Skill : skill[n].id = NoCaller => skill[n] = NoSkill

SkillsInit ==
  /\ skill = [n \in Skill |-> NoSkill] /\ caller = [c \in Caller |-> Unasked]
  /\ off = {} /\ during = [n \in Skill |-> {}]
  /\ wrote = {} /\ anew = {}

SkillAt(c, place) == caller[c].at = place
SkillTo(c, place) == caller' = [caller EXCEPT ![c].at = place]
NameOf(c) == caller[c].name
There(n) == skill[n].id # NoCaller
Busy(n) == {c \in Caller : NameOf(c) = n /\ caller[c].at \in {"get", "update", "insert", "back"}}
SwitchedOff(c, n) == off' = off \cup {n} /\ during' = [during EXCEPT ![n] = Busy(n) \ {c}]
SwitchedOn(n) == off' = off \ {n}

-----------------------------------------------------------------------------
(* upsert: commerce.skills.write, POST and PUT /skills *)

BeginWrite(c, n) ==
  /\ SkillAt(c, "idle")
  /\ caller' = [caller EXCEPT ![c] = [Unasked EXCEPT !.at = "get", !.name = n]]
  /\ UNCHANGED <<skill, off, during, wrote, anew>>

GetSkill(c) ==
  /\ SkillAt(c, "get")
  /\ caller' = [caller EXCEPT ![c].at = IF There(NameOf(c)) THEN "update" ELSE "insert",
                              ![c].id = skill[NameOf(c)].id, ![c].was = skill[NameOf(c)].on]
  /\ UNCHANGED <<skill, off, during, wrote, anew>>

\* What a switch asks for, or what the row said when it was read, or on.
SetOn(c) == IF caller[c].kind = "switch" THEN caller[c].on ELSE caller[c].was

\* By id: nothing happens to a row that was deleted, or made anew, since.
UpdateSkill(c) ==
  LET n == NameOf(c) IN
  /\ SkillAt(c, "update") /\ SkillTo(c, "back")
  /\ IF skill[n].id = caller[c].id
     THEN skill' = [skill EXCEPT ![n].text = c, ![n].on = SetOn(c)] /\ wrote' = wrote \cup {c}
     ELSE UNCHANGED <<skill, wrote>>
  /\ UNCHANGED <<off, during, anew>>

\* Shop and name are unique: the second of two inserts throws.
InsertSkill(c) ==
  LET n == NameOf(c) IN
  /\ SkillAt(c, "insert")
  /\ IF There(n) THEN SkillTo(c, "error") /\ UNCHANGED <<skill, off, during, wrote, anew>>
     ELSE /\ skill' = [skill EXCEPT ![n] = [id |-> c, text |-> c, on |-> SetOn(c)]]
          /\ wrote' = wrote \cup {c} /\ anew' = anew \cup (Busy(n) \ {c}) /\ SkillTo(c, "back")
          /\ IF SetOn(c) THEN UNCHANGED <<off, during>> ELSE SwitchedOff(c, n)

\* The row that is there now is taken for the one that was written.
ReadSkillBack(c) ==
  /\ SkillAt(c, "back") /\ SkillTo(c, IF There(NameOf(c)) THEN "done" ELSE "error")
  /\ UNCHANGED <<skill, off, during, wrote, anew>>

-----------------------------------------------------------------------------
(* commerce.skills.enable, PUT /skills/:name/enabled, delete *)

\* setEnabled, its update.
SwitchSkill(c, n, on) ==
  /\ SkillAt(c, "idle")
  /\ caller' = [caller EXCEPT ![c] = [Unasked EXCEPT !.at = "look", !.kind = "switch",
                                                     !.name = n, !.on = on]]
  /\ IF There(n)
     THEN /\ skill' = [skill EXCEPT ![n].on = on]
          /\ IF on THEN SwitchedOn(n) /\ UNCHANGED during ELSE SwitchedOff(c, n)
     ELSE UNCHANGED <<skill, off, during>>
  /\ UNCHANGED <<wrote, anew>>

\* Then it reads the row.  Where there is none, the page makes one of a skill that
\* comes with the server, and the tool answers NOT_FOUND.
LookAtSwitched(c) ==
  /\ SkillAt(c, "look")
  /\ IF There(NameOf(c)) THEN SkillTo(c, "done")
     ELSE \/ NameOf(c) \in Builtin /\ SkillTo(c, "get")
          \/ SkillTo(c, "error")
  /\ UNCHANGED <<skill, off, during, wrote, anew>>

\* A skill that comes with the server is on again when its row is deleted.
DeleteSkill(c, n) ==
  /\ SkillAt(c, "idle")
  /\ caller' = [caller EXCEPT ![c] = [Unasked EXCEPT !.at = IF There(n) THEN "done" ELSE "error",
                                                     !.kind = "delete", !.name = n]]
  /\ skill' = [skill EXCEPT ![n] = NoSkill] /\ SwitchedOn(n)
  /\ UNCHANGED <<during, wrote, anew>>

\* prompts/get: the rows override the skills of the server.
Served(n) == IF There(n) THEN skill[n].on ELSE n \in Builtin

\* It was not switched off, or one who was writing it then may have switched it on again.
MayBeOn(n) == n \notin off \/ during[n] # {}

GetPrompt(c, n) ==
  /\ SkillAt(c, "idle")
  /\ caller' = [caller EXCEPT ![c] = [Unasked EXCEPT !.at = IF Served(n) THEN "done" ELSE "error",
                                                     !.kind = "prompt", !.name = n, !.was = MayBeOn(n)]]
  /\ UNCHANGED <<skill, off, during, wrote, anew>>

SkillsNext ==
  \E c \in Caller :
    \/ GetSkill(c) \/ UpdateSkill(c) \/ InsertSkill(c) \/ ReadSkillBack(c) \/ LookAtSwitched(c)
    \/ \E n \in Skill : BeginWrite(c, n) \/ DeleteSkill(c, n) \/ GetPrompt(c, n)
                        \/ \E on \in BOOLEAN : SwitchSkill(c, n, on)

SkillsSpec == SkillsInit /\ [][SkillsNext]_skillVars
-----------------------------------------------------------------------------
(* Properties *)

\* A client is not served a skill that was switched off, unless a write that was
\* under way at that moment has switched it on again.
OffIsOff ==
  \A c \in Caller : caller[c].kind = "prompt" /\ SkillAt(c, "done") => caller[c].was

\* A write that was acknowledged was in the table at some time, unless the row was
\* deleted and made anew by another while it was being written.
AckedWasWritten ==
  \A c \in Caller : caller[c].kind = "write" /\ SkillAt(c, "done") => c \in wrote \cup anew

\* A skill is served and kept as its last writer left it (SkillRepo).
SkillsSafe == SkillsTypeOK /\ OffIsOff /\ AckedWasWritten
=============================================================================
