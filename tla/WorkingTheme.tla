---------------------------- MODULE WorkingTheme ----------------------------
(***************************************************************************)
(* The working theme of a store (packages/shopify-theme/src/               *)
(* working-theme.ts): the unpublished copy of the live theme that tools    *)
(* write to.  It is found by its name or made by duplicating the live      *)
(* theme: over the Theme Access proxy the server copies file by file       *)
(* (engineA.ts), over GraphQL Shopify copies and the server polls          *)
(* (operations/themes.ts).  Nothing serialises the callers; the merchant   *)
(* publishes, adds and deletes themes and files meanwhile.                 *)
(***************************************************************************)
EXTENDS Naturals, FiniteSets

CONSTANTS Caller,     \* tools and requests that want the working theme
          File,
          NumThemes,  \* bound on the themes that ever exist
          Cap,        \* SHOPIFY_UNPUBLISHED_THEME_CAP
          Workers,    \* copyConcurrency
          MaxOutside, \* bound on what merchants do
          MaxFaults   \* bound on lost answers, failed writes, timeouts and restarts

ASSUME WorkingThemeAssumption ==
  /\ {NumThemes, Cap, Workers} \subseteq Nat \ {0} /\ {MaxOutside, MaxFaults} \subseteq Nat

VARIABLES
  engine,    \* which engine the store has
  role,      \* of each theme: "none", "main" or "unpublished"
  working,   \* the themes with the name of a working theme
  file,      \* what each file of each theme holds
  copying,   \* the themes Shopify is still copying into: ThemeRef.processing
  older,     \* of each theme: the themes whose last update came before its own
  made,      \* how many themes there have been
  task,      \* where each caller is
  listed,    \* history: the files a copy should have
  answered,  \* history: themes that ensure answered with
  cutShort,  \* history: themes a copy of which failed for a file, was cut off or timed out
  kept,      \* history: what a tool was told it wrote, outside of copies in progress
  doubled,   \* history: whether a second working theme has an excuse
  overrun,   \* history: whether a theme over the cap has an excuse
  liveWrite, \* history: whether a tool wrote to a theme that was live when ensure answered
  outside, faults

wtVars == <<engine, role, working, file, copying, older, made, task, listed, answered, cutShort, kept,
            doubled, overrun, liveWrite, outside, faults>>
store == <<engine, role, working, file, copying, older, made>>
history == <<listed, answered, cutShort, kept, doubled, overrun, liveWrite>>
bounds == <<outside, faults>>

Theme == 1 .. NumThemes
Content == {"theirs", "tool", "missing"}
\* stale: a working theme came up since the caller saw none; grew: there are more unpublished
\* themes than it counted; moved: the theme it has was published since it has it.
AtRest == [at |-> "idle", theme |-> 0, source |-> 0, todo |-> {}, flight |-> {}, workers |-> Workers,
           stale |-> FALSE, grew |-> FALSE, moved |-> FALSE]

WorkingThemeTypeOK ==
  /\ engine \in {"proxy", "graphql"} /\ role \in [Theme -> {"none", "main", "unpublished"}]
  /\ working \subseteq Theme /\ file \in [Theme -> [File -> Content]] /\ copying \subseteq Theme
  /\ \A c \in Caller : /\ task[c].at \in {"idle", "cap", "live", "create", "list", "copy", "poll", "ready"}
                       /\ task[c].todo \subseteq File /\ task[c].flight \subseteq File /\ task[c].workers \in 0 .. Workers
                       /\ Cardinality(task[c].flight) <= Workers
  /\ \A t, u \in {x \in Theme : role[x] # "none"} : t # u => (t \in older[u] <=> u \notin older[t])
  /\ Cardinality({t \in Theme : role[t] = "main"}) = 1
  /\ outside \in 0 .. MaxOutside /\ faults \in 0 .. MaxFaults

Empty == [f \in File |-> "missing"]
WorkingThemeInit ==
  /\ engine \in {"proxy", "graphql"}
  /\ role = [t \in Theme |-> IF t = 1 THEN "main" ELSE "none"] /\ working = {}
  /\ file = [t \in Theme |-> IF t = 1 THEN [f \in File |-> "theirs"] ELSE Empty]
  /\ copying = {} /\ older = [t \in Theme |-> {}] /\ made = 1 /\ task = [c \in Caller |-> AtRest]
  /\ listed = [t \in Theme |-> {}] /\ answered = {} /\ cutShort = {} /\ kept = {}
  /\ doubled = FALSE /\ overrun = FALSE /\ liveWrite = FALSE /\ outside = 0 /\ faults = 0

-----------------------------------------------------------------------------
Exists(t) == t # 0 /\ role[t] # "none"
Unpublished == {t \in Theme : role[t] = "unpublished"}
Main == CHOOSE t \in Theme : role[t] = "main"
Keys(t) == {f \in File : file[t][f] # "missing"}
\* Somebody copies files into t one by one, or Shopify does.
InCopy(t) == t \in copying \/ \E c \in Caller : task[c].at \in {"list", "copy"} /\ task[c].theme = t

\* Theme t is updated: it is the newest.
Touched(t) == [x \in Theme |-> IF x = t THEN {u \in Theme : role[u] # "none"} \ {t} ELSE older[x] \ {t}]
Put(t, f, v) == file' = [file EXCEPT ![t][f] = v] /\ older' = Touched(t)

Goes(c, r) == task' = [task EXCEPT ![c] = r]

\* Callers that were told of no working theme, or that counted, before theme t, of themes w.
Noticed(r, t, w) == [r EXCEPT !.stale = @ \/ (t \in w /\ r.at \in {"cap", "live", "create"}),
                              !.grew = @ \/ r.at \in {"live", "create"}]
Seen(t) == [c \in Caller |-> Noticed(task[c], t, working')]

-----------------------------------------------------------------------------
(* ensure *)

Candidates == Unpublished \cap working
Newest(ts) == CHOOSE t \in ts : ts \ {t} \subseteq older[t]

Stay == UNCHANGED <<store, listed, cutShort, kept, doubled, overrun, liveWrite, bounds>>

\* current: the most recently updated working theme that is not published, copied or not.
Current(c) ==
  /\ task[c].at = "idle"
  /\ IF Candidates = {} THEN Goes(c, [AtRest EXCEPT !.at = "cap"]) /\ UNCHANGED answered
     ELSE LET t == Newest(Candidates) IN
          /\ Goes(c, [AtRest EXCEPT !.at = "ready", !.theme = t])
          /\ answered' = answered \cup {t}
  /\ Stay

\* Fault: one theme more than the cap.
CheckCapLate(c) ==
  /\ task[c].at = "cap"
  /\ Goes(c, IF Cardinality(Unpublished) > Cap THEN AtRest ELSE [task[c] EXCEPT !.at = "live"])
  /\ UNCHANGED answered /\ Stay
CheckCap(c) ==
  /\ task[c].at = "cap"
  /\ Goes(c, IF Cardinality(Unpublished) >= Cap THEN AtRest ELSE [task[c] EXCEPT !.at = "live"])
  /\ UNCHANGED answered /\ Stay

ReadLive(c) ==
  /\ task[c].at = "live" /\ Goes(c, [task[c] EXCEPT !.at = "create", !.source = Main])
  /\ UNCHANGED answered /\ Stay

\* A theme comes to be; Shopify copies into it, or it is empty.
New(t) ==
  /\ t = made + 1 /\ made' = t
  /\ role' = [role EXCEPT ![t] = "unpublished"] /\ older' = Touched(t)

\* The request to create a theme is answered; or the answer is a 5xx after the theme came to be,
\* and the proxy's client sends it again.
Create(c) ==
  /\ task[c].at = "create" /\ \E t \in Theme : New(t) /\ working' = working \cup {t}
       /\ doubled' = (doubled \/ task[c].stale) /\ overrun' = (overrun \/ task[c].grew)
       /\ IF engine = "proxy"
          THEN /\ task' = [Seen(t) EXCEPT ![c] = [task[c] EXCEPT !.at = "list", !.theme = t]]
               /\ UNCHANGED <<copying, listed>>
          ELSE /\ Exists(task[c].source)
               /\ task' = [Seen(t) EXCEPT ![c] = [task[c] EXCEPT !.at = "poll", !.theme = t]]
               /\ copying' = copying \cup {t} /\ listed' = [listed EXCEPT ![t] = Keys(task[c].source)]
  /\ UNCHANGED <<engine, file, answered, cutShort, kept, liveWrite, bounds>>
CreateAnswerLost(c) ==
  /\ task[c].at = "create" /\ engine = "proxy" /\ faults < MaxFaults /\ faults' = faults + 1
  /\ \E t \in Theme : New(t) /\ working' = working \cup {t} /\ task' = Seen(t)
       /\ doubled' = (doubled \/ task[c].stale) /\ overrun' = (overrun \/ task[c].grew)
  /\ UNCHANGED <<engine, file, copying, listed, answered, cutShort, kept, liveWrite, outside>>

-----------------------------------------------------------------------------
(* Copying over the proxy *)

CopyStay == UNCHANGED <<engine, role, working, copying, made, answered, kept, doubled, overrun, liveWrite, outside>>

\* listFiles of the live theme; a theme that is gone throws.
ListSource(c) ==
  /\ task[c].at = "list"
  /\ IF Exists(task[c].source)
     THEN /\ Goes(c, [task[c] EXCEPT !.at = "copy", !.todo = Keys(task[c].source)])
          /\ listed' = [listed EXCEPT ![task[c].theme] = Keys(task[c].source)] /\ UNCHANGED cutShort
     ELSE Goes(c, AtRest) /\ cutShort' = cutShort \cup {task[c].theme} /\ UNCHANGED listed
  /\ UNCHANGED <<file, older, faults>> /\ CopyStay

\* A worker reads the next file.  A file that is gone is a 404: duplicateTheme throws, the other
\* worker goes on, and what is copied stays under the name of the working theme.
CopyRead(c) ==
  /\ task[c].at = "copy" /\ Cardinality(task[c].flight) < task[c].workers
  /\ \E f \in task[c].todo :
       \/ /\ f \in Keys(task[c].source) /\ Exists(task[c].source)
          /\ Goes(c, [task[c] EXCEPT !.todo = @ \ {f}, !.flight = @ \cup {f}]) /\ UNCHANGED <<cutShort, faults>>
       \/ /\ \/ ~(f \in Keys(task[c].source) /\ Exists(task[c].source)) /\ UNCHANGED faults
             \/ faults < MaxFaults /\ faults' = faults + 1
          /\ Goes(c, [task[c] EXCEPT !.todo = @ \ {f}, !.workers = @ - 1])
          /\ cutShort' = cutShort \cup {task[c].theme}
  /\ UNCHANGED <<file, older, listed>> /\ CopyStay

\* writeFiles answers what it could not write; duplicateTheme does not look at the answer.
CopyWrite(c) ==
  /\ task[c].at = "copy" /\ Exists(task[c].theme)
  /\ \E f \in task[c].flight :
       /\ Put(task[c].theme, f, "theirs") /\ Goes(c, [task[c] EXCEPT !.flight = @ \ {f}])
  /\ UNCHANGED <<listed, cutShort, faults>> /\ CopyStay
CopyWriteFails(c) ==
  /\ task[c].at = "copy" /\ \/ faults < MaxFaults /\ faults' = faults + 1
                            \/ ~Exists(task[c].theme) /\ UNCHANGED faults
  /\ \E f \in task[c].flight : Goes(c, [task[c] EXCEPT !.flight = @ \ {f}])
  /\ cutShort' = cutShort \cup {task[c].theme}
  /\ UNCHANGED <<file, older, listed>> /\ CopyStay

Give(c) ==
  /\ Goes(c, [task[c] EXCEPT !.at = "ready", !.todo = {}, !.stale = FALSE, !.grew = FALSE])
  /\ answered' = answered \cup {task[c].theme}

\* Every worker has found nothing more to do, or has thrown.
Copied(c) ==
  LET thrown == task[c].workers < Workers IN
  /\ task[c].at = "copy" /\ task[c].flight = {} /\ (task[c].todo = {} \/ task[c].workers = 0)
  /\ IF thrown THEN Goes(c, AtRest) /\ UNCHANGED answered ELSE Give(c)
  /\ UNCHANGED <<file, older, listed, faults, engine, role, working, copying, made, kept, cutShort,
                 doubled, overrun, liveWrite, outside>>

\* A request of ensure that is refused or fails for good ends it.
RequestFails(c) ==
  /\ task[c].at \in {"cap", "live", "create", "list", "poll"} /\ faults < MaxFaults /\ faults' = faults + 1
  /\ cutShort' = IF task[c].at = "list" THEN cutShort \cup {task[c].theme} ELSE cutShort
  /\ Goes(c, AtRest)
  /\ UNCHANGED <<store, listed, answered, kept, doubled, overrun, liveWrite, outside>>

-----------------------------------------------------------------------------
(* Copying by Shopify *)

\* All files are there at once when Shopify is done.
ShopifyCopies(t) ==
  /\ t \in copying /\ copying' = copying \ {t} /\ older' = Touched(t)
  /\ file' = [file EXCEPT ![t] = [f \in File |-> IF f \in listed[t] THEN "theirs" ELSE @[f]]]
  /\ UNCHANGED <<engine, role, working, made, task, history, bounds>>

\* waitForThemeProcessing: done, or the deadline is over and the theme is answered as it is.
PollDone(c) ==
  /\ task[c].at = "poll" /\ Exists(task[c].theme) /\ task[c].theme \notin copying /\ Give(c)
  /\ UNCHANGED <<store, listed, kept, cutShort, doubled, overrun, liveWrite, bounds>>
PollTimeout(c) ==
  /\ task[c].at = "poll" /\ Give(c)
  /\ \/ task[c].theme \in copying /\ faults < MaxFaults /\ faults' = faults + 1
     \/ ~Exists(task[c].theme) /\ UNCHANGED faults
  /\ UNCHANGED <<store, listed, kept, cutShort, doubled, overrun, liveWrite, outside>>

-----------------------------------------------------------------------------
(* What a caller does with the theme *)

\* shopify.theme.file.update writes to the theme it was answered, whatever became of it.
ToolWrite(c) ==
  LET t == task[c].theme IN
  /\ task[c].at = "ready" /\ Exists(t)
  /\ \E f \in File :
       /\ Put(t, f, "tool") /\ kept' = IF InCopy(t) THEN kept \ {<<t, f>>} ELSE kept \cup {<<t, f>>}
  /\ liveWrite' = (liveWrite \/ (role[t] = "main" /\ ~task[c].moved))
  /\ Goes(c, AtRest)
  /\ UNCHANGED <<engine, role, working, copying, made, listed, answered, cutShort, doubled, overrun, bounds>>
\* The caller wanted the theme only, or a write to a theme that is gone failed.
Leave(c) ==
  /\ task[c].at = "ready" /\ Goes(c, AtRest)
  /\ UNCHANGED <<store, history, bounds>>

Restart ==
  /\ faults < MaxFaults /\ faults' = faults + 1
  /\ task' = [c \in Caller |-> AtRest]
  /\ cutShort' = cutShort \cup {task[c].theme : c \in {d \in Caller : task[d].at \in {"list", "copy"}}}
  /\ UNCHANGED <<store, listed, answered, kept, doubled, overrun, liveWrite, outside>>

-----------------------------------------------------------------------------
(* The merchant *)

ByMerchant == outside < MaxOutside /\ outside' = outside + 1 /\ UNCHANGED <<engine, faults>>

\* A second working theme is nobody's fault when the merchant publishes one and takes it back.
Publish(t) ==
  /\ role[t] = "unpublished" /\ t \notin copying /\ role' = [role EXCEPT ![t] = "main", ![Main] = "unpublished"]
  /\ doubled' = (doubled \/ Main \in working)
  /\ task' = [c \in Caller |-> [task[c] EXCEPT
                !.moved = @ \/ task[c].theme = t, !.stale = @ \/ Main \in working]]
  /\ UNCHANGED <<working, file, copying, older, made, listed, answered, cutShort, kept, overrun, liveWrite>> /\ ByMerchant
AddTheme(t) ==
  /\ New(t) /\ Cardinality(Unpublished) < Cap
  /\ file' = [file EXCEPT ![t] = [f \in File |-> "theirs"]]
  /\ UNCHANGED <<working, copying, listed, answered, cutShort, kept, doubled, overrun, liveWrite>>
  /\ task' = Seen(t) /\ ByMerchant
DeleteTheme(t) ==
  /\ role[t] = "unpublished" /\ role' = [role EXCEPT ![t] = "none"]
  /\ older' = [x \in Theme |-> IF x = t THEN {} ELSE older[x] \ {t}]
  /\ copying' = copying \ {t} /\ answered' = answered \ {t}
  /\ kept' = {x \in kept : x[1] # t}
  /\ UNCHANGED <<working, file, made, task, listed, cutShort, doubled, overrun, liveWrite>> /\ ByMerchant
DeleteFile(f) ==
  /\ file[Main][f] # "missing" /\ Put(Main, f, "missing")
  /\ listed' = [listed EXCEPT ![Main] = @ \ {f}] /\ kept' = kept \ {<<Main, f>>}
  /\ UNCHANGED <<role, working, copying, made, task, answered, cutShort, doubled, overrun, liveWrite>> /\ ByMerchant

WorkingThemeNext ==
  \/ \E c \in Caller : \/ Current(c) \/ CheckCap(c) \/ ReadLive(c) \/ Create(c) \/ CreateAnswerLost(c)
                       \/ ListSource(c) \/ CopyRead(c) \/ CopyWrite(c) \/ CopyWriteFails(c) \/ Copied(c)
                       \/ RequestFails(c) \/ PollDone(c) \/ PollTimeout(c) \/ ToolWrite(c) \/ Leave(c)
  \/ \E t \in Theme : ShopifyCopies(t) \/ Publish(t) \/ AddTheme(t) \/ DeleteTheme(t)
  \/ \E f \in File : DeleteFile(f)
  \/ Restart

WorkingThemeSpec == WorkingThemeInit /\ [][WorkingThemeNext]_wtVars

-----------------------------------------------------------------------------
(* Properties *)

\* A store has one working theme.  It has a second one only if two callers looked before either
\* created, the answer to a create was lost, or the merchant published one and took it back.
OneWorkingTheme == Cardinality(Candidates) > 1 => doubled

\* ensure never takes the store over the cap by itself: only where the store got a theme between
\* its count and its create.
CapKept == Cardinality(Unpublished) > Cap => overrun

\* A theme ensure answered has every file of the live theme, once nobody copies into it any more,
\* unless a write of the copy failed, or the copy was cut off.
AnsweredIsComplete ==
  \A t \in answered : Exists(t) /\ ~InCopy(t) /\ t \notin cutShort => listed[t] \subseteq Keys(t)

\* What a tool was told it wrote stays in the theme: only into a theme that was still being copied
\* may the copy write over it.
ToolWriteStays == \A x \in kept : file[x[1]][x[2]] = "tool"

\* A tool writes to the live theme only if it was published after ensure had found or made it.
LiveOnlyIfPublishedSince == ~liveWrite

\* A store has one working theme with the files of the live one, and the tools write to it alone
\* (WorkingThemeService.ensure over either engine).
WorkingThemeSafe ==
  /\ WorkingThemeTypeOK
  /\ OneWorkingTheme
  /\ CapKept
  /\ AnsweredIsComplete
  /\ ToolWriteStays
  /\ LiveOnlyIfPublishedSince
=============================================================================
