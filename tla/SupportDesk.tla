---------------------------- MODULE SupportDesk ----------------------------
(***************************************************************************)
(* Support tickets: accounts/tickets.ts and TicketRepo, for one user, the  *)
(* operators, and the pages of api/support.ts and api/admin-panel.ts.  A   *)
(* ticket is a row and a thread of messages, two tables written one after  *)
(* the other; its number is unique, and taken as the highest plus one.     *)
(***************************************************************************)
EXTENDS Naturals, FiniteSets, FiniteSetsExt

CONSTANTS Visitor,    \* calls; each is made once
          NoVisitor,
          OpenTickets \* how many open tickets a user may have (20)

ASSUME DeskAssumption == NoVisitor \notin Visitor /\ IsFiniteSet(Visitor) /\ OpenTickets \in Nat

VARIABLES
  ticket,   \* each ticket, by the call that made it: number (0: none), status, closed_at is set
  thread,   \* the messages of a ticket that its user sees
  visitor,  \* each call: what it asks for, where it is
  counted,  \* history: calls that counted while another was about to insert
  placed,   \* history: when a message was stored, or the status of its ticket set
  torn      \* history: tickets whose call was cut off

deskVars == <<ticket, thread, visitor, counted, placed, torn>>

Status == {"open", "answered", "waiting", "closed"}
NoTicket == [number |-> 0, status |-> "open", closed |-> FALSE]
NotVisitor == [at |-> "idle", kind |-> "create", of |-> NoVisitor, status |-> "none", number |-> 0]

DeskTypeOK ==
  /\ ticket \in [Visitor -> [number : Nat, status : Status, closed : BOOLEAN]]
  /\ thread \in [Visitor -> SUBSET Visitor]
  /\ visitor \in [Visitor -> [at : {"idle", "max", "insert", "message", "status", "set", "done", "error"},
                              kind : {"create", "user", "admin", "note", "set"},
                              of : Visitor \cup {NoVisitor}, status : Status \cup {"none"},
                              number : Nat]]
  /\ counted \subseteq Visitor /\ torn \subseteq Visitor
  /\ placed \in [Visitor -> [message : Nat, status : Nat]]
  /\ \A t, u \in Visitor : ticket[t].number = ticket[u].number => t = u \/ ticket[t].number = 0

DeskInit ==
  /\ ticket = [v \in Visitor |-> NoTicket] /\ thread = [v \in Visitor |-> {}]
  /\ visitor = [v \in Visitor |-> NotVisitor] /\ counted = {} /\ torn = {}
  /\ placed = [v \in Visitor |-> [message |-> 0, status |-> 0]]

DeskAt(v, place) == visitor[v].at = place
DeskTo(v, place) == visitor' = [visitor EXCEPT ![v].at = place]
Tickets == {v \in Visitor : ticket[v].number > 0}
Unclosed == {v \in Tickets : ticket[v].status # "closed"}
Opening == {v \in Visitor : visitor[v].kind = "create" /\ visitor[v].at \in {"max", "insert"}}
Clock == Max({placed[v].message : v \in Visitor} \cup {placed[v].status : v \in Visitor}) + 1
Arrive(v, request) == DeskAt(v, "idle") /\ visitor' = [visitor EXCEPT ![v] = request]

-----------------------------------------------------------------------------
(* POST /api/account/support *)

\* The tickets of the user that are not closed are listed first.
CountOpen(v) ==
  /\ Arrive(v, [NotVisitor EXCEPT !.at = IF Cardinality(Unclosed) >= OpenTickets THEN "error" ELSE "max"])
  /\ counted' = IF Opening = {} THEN counted ELSE counted \cup {v} \cup Opening
  /\ UNCHANGED <<ticket, thread, placed, torn>>

HighestNumber(v) ==
  /\ DeskAt(v, "max")
  /\ visitor' = [visitor EXCEPT ![v].at = "insert", ![v].number = Max({ticket[w].number : w \in Visitor}) + 1]
  /\ UNCHANGED <<ticket, thread, counted, placed, torn>>

\* The unique index refuses the second ticket of a number.
InsertTicket(v) ==
  /\ DeskAt(v, "insert")
  /\ IF \E w \in Tickets : ticket[w].number = visitor[v].number
     THEN DeskTo(v, "error") /\ UNCHANGED ticket
     ELSE /\ ticket' = [ticket EXCEPT ![v] = [number |-> visitor[v].number, status |-> "open", closed |-> FALSE]]
          /\ visitor' = [visitor EXCEPT ![v].at = "message", ![v].of = v]
  /\ UNCHANGED <<thread, counted, placed, torn>>

FirstMessage(v) ==
  /\ DeskAt(v, "message") /\ visitor[v].kind = "create" /\ DeskTo(v, "done")
  /\ thread' = [thread EXCEPT ![v] = @ \cup {v}]
  /\ placed' = [placed EXCEPT ![v].message = Clock]
  /\ UNCHANGED <<ticket, counted, torn>>

-----------------------------------------------------------------------------
(* Replies and the status *)

\* replyAsUser, replyAsAdmin (with a status to set afterwards, or none), an internal
\* note: all look up the ticket first.
BeginReply(v, t, kind, status) ==
  /\ t \in Tickets /\ kind \in {"user", "admin", "note"} /\ (kind = "user" => status = "none")
  /\ Arrive(v, [at |-> "message", kind |-> kind, of |-> t, status |-> status, number |-> 0])
  /\ UNCHANGED <<ticket, thread, counted, placed, torn>>

After(v) == IF visitor[v].status = "none" THEN "done" ELSE "set"

\* addMessage, its insert; an internal note leaves the ticket alone.
AddMessage(v) ==
  /\ DeskAt(v, "message") /\ visitor[v].kind # "create"
  /\ IF visitor[v].kind = "note" THEN DeskTo(v, After(v)) /\ UNCHANGED <<thread, placed>>
     ELSE /\ DeskTo(v, "status") /\ thread' = [thread EXCEPT ![visitor[v].of] = @ \cup {v}]
          /\ placed' = [placed EXCEPT ![v].message = Clock]
  /\ UNCHANGED <<ticket, counted, torn>>

Said(v) == IF visitor[v].kind = "admin" THEN "answered" ELSE "open"

\* Fault: closed_at is left as it was.
SayWithoutDate(v) ==
  /\ DeskAt(v, "status") /\ DeskTo(v, After(v))
  /\ ticket' = [ticket EXCEPT ![visitor[v].of].status = Said(v)]
  /\ placed' = [placed EXCEPT ![v].status = Clock]
  /\ UNCHANGED <<thread, counted, torn>>

\* addMessage, its update: whatever the ticket was, it is answered or open again.
Say(v) ==
  /\ DeskAt(v, "status") /\ DeskTo(v, After(v))
  /\ ticket' = [ticket EXCEPT ![visitor[v].of].status = Said(v), ![visitor[v].of].closed = FALSE]
  /\ placed' = [placed EXCEPT ![v].status = Clock]
  /\ UNCHANGED <<thread, counted, torn>>

\* The second update of an operator's reply, closeAsUser and the page of a ticket.
SetStatus(v, t, status) ==
  /\ ticket' = [ticket EXCEPT ![t].status = status, ![t].closed = (status = "closed")]
  /\ placed' = [placed EXCEPT ![v].status = Clock]
  /\ UNCHANGED <<thread, counted, torn>>

ReplySets(v) == DeskAt(v, "set") /\ DeskTo(v, "done") /\ SetStatus(v, visitor[v].of, visitor[v].status)

UpdateTicket(v, t, status) ==
  /\ t \in Tickets
  /\ Arrive(v, [at |-> "done", kind |-> "set", of |-> t, status |-> status, number |-> 0])
  /\ SetStatus(v, t, status)

\* A ticket without its message, a message without its status.
DeskCrash ==
  /\ \E v \in Visitor : visitor[v].at \notin {"idle", "done", "error"}
  /\ torn' = torn \cup {visitor[v].of : v \in {w \in Visitor : visitor[w].at \in {"message", "status"}}}
  /\ visitor' = [v \in Visitor |-> IF visitor[v].at \in {"idle", "done", "error"} THEN visitor[v]
                                   ELSE [visitor[v] EXCEPT !.at = "error"]]
  /\ UNCHANGED <<ticket, thread, counted, placed>>

DeskNext ==
  \/ \E v \in Visitor :
       \/ CountOpen(v) \/ HighestNumber(v) \/ InsertTicket(v) \/ FirstMessage(v)
       \/ AddMessage(v) \/ Say(v) \/ ReplySets(v)
       \/ \E t \in Visitor :
            \/ \E kind \in {"user", "admin", "note"}, status \in Status \cup {"none"} :
                 BeginReply(v, t, kind, status)
            \/ \E status \in Status : UpdateTicket(v, t, status)
  \/ DeskCrash

DeskSpec == DeskInit /\ [][DeskNext]_deskVars
-----------------------------------------------------------------------------
(* Properties *)

\* A user has as many open tickets as are allowed; more come only from requests that
\* counted at the same time, or from a reply or an operator that opens one again.
OpenLimit ==
  Cardinality(Unclosed) > OpenTickets =>
    \/ Unclosed \cap counted # {}
    \/ \E v \in Visitor : visitor[v].of \in Unclosed /\ placed[v].status > 0

\* A reply of the user opens the ticket again: whoever closed it in between, it is
\* open unless its status was set after the reply had been stored.
ReplyReopens ==
  \A v \in Visitor : visitor[v].kind = "user" /\ DeskAt(v, "done") =>
    \/ ticket[visitor[v].of].status = "open"
    \/ \E w \in Visitor \ {v} : visitor[w].of = visitor[v].of /\ placed[w].status > placed[v].message

\* closed_at is set when the ticket is closed and only then, in every order of the
\* replies and updates that write the two columns.
ClosedIsDated == \A t \in Tickets : ticket[t].closed <=> ticket[t].status = "closed"

\* Every ticket has the message it was opened with, and every message of its user is
\* in the thread: only a call that is under way or was cut off leaves one without.
TicketHasItsMessage ==
  \A t \in Tickets \ torn : t \in thread[t] \/ DeskAt(t, "message")

\* A ticket, its thread and its status agree (SupportTicketRepo and the routes that write it).
DeskSafe == DeskTypeOK /\ OpenLimit /\ ReplyReopens /\ ClosedIsDated /\ TicketHasItsMessage

-----------------------------------------------------------------------------
(***************************************************************************)
(* The posts of the public blog: PostRepo behind api/posts.ts.  A post is  *)
(* looked for by its slug, then inserted or updated, then read back, three *)
(* statements; an import does this for each post of a file in turn and     *)
(* reports which were imported and which failed.  A version of a post is   *)
(* the call that wrote it.                                                 *)
(***************************************************************************)

CONSTANTS Editor,   \* calls that write; each is made once
          Slug, NoEditor

ASSUME EditorAssumption == NoEditor \notin Editor /\ Slug # {}

VARIABLES
  post,     \* each slug: who wrote it last, whether it is published
  editor,   \* each call: where it is, what it has still to write, what it looks for
  reported, \* what a call says it has stored
  failed,   \* what a call says it could not store
  stored,   \* history: the slugs at which the version of a call was once stored
  remade    \* history: the slugs that were deleted and made anew while a call wrote them

postVars == <<post, editor, reported, failed, stored, remade>>

NoPost == [by |-> NoEditor, published |-> FALSE]
NotEditor == [at |-> "idle", left |-> {}, slug |-> CHOOSE s \in Slug : TRUE, publish |-> FALSE]
PostThere(s) == post[s].by # NoEditor

PostsTypeOK ==
  /\ post \in [Slug -> [by : Editor \cup {NoEditor}, published : BOOLEAN]]
  /\ editor \in [Editor -> [at : {"idle", "next", "insert", "update", "back", "done"},
                            left : SUBSET Slug, slug : Slug, publish : BOOLEAN]]
  /\ {reported, failed, stored, remade} \subseteq [Editor -> SUBSET Slug]
  /\ \A s \in Slug : post[s].by = NoEditor => post[s] = NoPost

PostsInit ==
  /\ post = [s \in Slug |-> NoPost] /\ editor = [e \in Editor |-> NotEditor]
  /\ reported = [e \in Editor |-> {}] /\ failed = [e \in Editor |-> {}]
  /\ stored = [e \in Editor |-> {}] /\ remade = [e \in Editor |-> {}]

EditorAt(e, place) == editor[e].at = place
Editing(s) == {e \in Editor : editor[e].slug = s /\ editor[e].at \in {"update", "back"}}

\* A post, or a file of them, as drafts or published.
BeginPosts(e, ss, publish) ==
  /\ EditorAt(e, "idle") /\ ss # {}
  /\ editor' = [editor EXCEPT ![e] = [NotEditor EXCEPT !.at = "next", !.left = ss,
                                                       !.publish = publish]]
  /\ UNCHANGED <<post, reported, failed, stored, remade>>

LookForPost(e) ==
  /\ EditorAt(e, "next")
  /\ IF editor[e].left = {} THEN editor' = [editor EXCEPT ![e].at = "done"]
     ELSE \E s \in editor[e].left :
            editor' = [editor EXCEPT ![e].at = IF PostThere(s) THEN "update" ELSE "insert",
                                     ![e].slug = s, ![e].left = @ \ {s}]
  /\ UNCHANGED <<post, reported, failed, stored, remade>>

Columns(e) == [by |-> e, published |-> editor[e].publish]

\* Nothing happens to a post that was deleted since.
UpdatePost(e) ==
  LET s == editor[e].slug IN
  /\ EditorAt(e, "update") /\ editor' = [editor EXCEPT ![e].at = "back"]
  /\ IF PostThere(s) THEN /\ post' = [post EXCEPT ![s] = Columns(e)]
                      /\ stored' = [stored EXCEPT ![e] = @ \cup {s}]
     ELSE UNCHANGED <<post, stored>>
  /\ UNCHANGED <<reported, failed, remade>>

\* The slug is the primary key: a second insert throws, and the import goes on.
InsertPost(e) ==
  LET s == editor[e].slug IN
  /\ EditorAt(e, "insert")
  /\ IF PostThere(s)
     THEN /\ editor' = [editor EXCEPT ![e].at = "next"]
          /\ failed' = [failed EXCEPT ![e] = @ \cup {s}] /\ UNCHANGED <<post, stored, remade>>
     ELSE /\ editor' = [editor EXCEPT ![e].at = "back"] /\ post' = [post EXCEPT ![s] = Columns(e)]
          /\ stored' = [stored EXCEPT ![e] = @ \cup {s}] /\ UNCHANGED failed
          /\ remade' = [d \in Editor |-> IF d \in Editing(s) THEN remade[d] \cup {s} ELSE remade[d]]
  /\ UNCHANGED reported

\* Where nothing is there any more, the slug of null is an error.
ReportPost(e) ==
  LET s == editor[e].slug IN
  /\ EditorAt(e, "back") /\ editor' = [editor EXCEPT ![e].at = "next"]
  /\ IF PostThere(s) THEN reported' = [reported EXCEPT ![e] = @ \cup {s}] /\ UNCHANGED failed
     ELSE failed' = [failed EXCEPT ![e] = @ \cup {s}] /\ UNCHANGED reported
  /\ UNCHANGED <<post, stored, remade>>

DeletePost(s) ==
  /\ PostThere(s) /\ post' = [post EXCEPT ![s] = NoPost]
  /\ UNCHANGED <<editor, reported, failed, stored, remade>>

PostsNext ==
  \/ \E e \in Editor :
       \/ \E ss \in SUBSET Slug, publish \in BOOLEAN : BeginPosts(e, ss, publish)
       \/ LookForPost(e) \/ UpdatePost(e) \/ InsertPost(e) \/ ReportPost(e)
  \/ \E s \in Slug : DeletePost(s)

PostsSpec == PostsInit /\ [][PostsNext]_postVars
-----------------------------------------------------------------------------
(* Properties *)

\* A post that is reported as imported was stored, whatever was deleted meanwhile,
\* unless another call has made a post of that slug anew in the meantime.
ReportedWasStored ==
  \A e \in Editor : reported[e] \subseteq stored[e] \cup remade[e]

\* An import reports what it stored (importPosts).
PostsSafe == PostsTypeOK /\ ReportedWasStored

-----------------------------------------------------------------------------
(***************************************************************************)
(* The visual audit sessions of a shop, kept in the key-value table by     *)
(* visual-audits.ts: a row per session, a row that names the latest one,   *)
(* and a retention that deletes the oldest sessions beyond a limit.  A     *)
(* session is named by the call that saves it.                             *)
(***************************************************************************)

CONSTANTS Audit,    \* calls of save; each is made once
          NoAudit,
          Sessions  \* how many sessions are kept (50)

ASSUME AuditsAssumption == NoAudit \notin Audit /\ IsFiniteSet(Audit) /\ Sessions \in Nat \ {0}

VARIABLES
  session,  \* the sessions that are stored
  created,  \* createdAt of every session, 0 before it begins
  pointer,  \* visualaudit-latest
  audit,    \* each call: where it is, what it has still to delete
  passed,   \* history: the sessions that were created while a call was under way
  cut       \* history: calls that a crash has ended

auditVars == <<session, created, pointer, audit, passed, cut>>

AuditsTypeOK ==
  /\ session \subseteq Audit /\ created \in [Audit -> Nat]
  /\ pointer \in Audit \cup {NoAudit}
  /\ audit \in [Audit -> [at : {"idle", "store", "point", "list", "drop", "done"}, drop : SUBSET Audit]]
  /\ passed \in [Audit -> SUBSET Audit] /\ cut \subseteq Audit

AuditsInit ==
  /\ session = {} /\ created = [a \in Audit |-> 0] /\ pointer = NoAudit
  /\ audit = [a \in Audit |-> [at |-> "idle", drop |-> {}]] /\ passed = [a \in Audit |-> {}] /\ cut = {}

AuditAt(a, place) == audit[a].at = place
AuditTo(a, place) == audit' = [audit EXCEPT ![a].at = place]
UnderWay == {a \in Audit : audit[a].at \notin {"idle", "done"}}

BeginAudit(a) ==
  /\ AuditAt(a, "idle") /\ AuditTo(a, "store")
  /\ created' = [created EXCEPT ![a] = Max({created[b] : b \in Audit}) + 1]
  /\ passed' = [b \in Audit |-> IF b \in UnderWay THEN passed[b] \cup {a} ELSE passed[b]]
  /\ UNCHANGED <<session, pointer, cut>>

StoreSession(a) ==
  /\ AuditAt(a, "store") /\ AuditTo(a, "point") /\ session' = session \cup {a}
  /\ UNCHANGED <<created, pointer, passed, cut>>

PointAt(a) ==
  /\ AuditAt(a, "point") /\ AuditTo(a, "list") /\ pointer' = a
  /\ UNCHANGED <<session, created, passed, cut>>

\* The stored sessions that are newer than one, and those that are not among the newest n.
Newer(b) == {c \in session : created[c] > created[b]}
Oldest(n) == {b \in session : Cardinality(Newer(b)) >= n}

ListSessions(a) ==
  /\ AuditAt(a, "list")
  /\ audit' = [audit EXCEPT ![a] = [at |-> "drop", drop |-> Oldest(Sessions)]]
  /\ UNCHANGED <<session, created, pointer, passed, cut>>

DropSession(a) ==
  /\ AuditAt(a, "drop")
  /\ IF audit[a].drop = {} THEN AuditTo(a, "done") /\ UNCHANGED session
     ELSE \E b \in audit[a].drop : /\ audit' = [audit EXCEPT ![a].drop = @ \ {b}]
                                   /\ session' = session \ {b}
  /\ UNCHANGED <<created, pointer, passed, cut>>

AuditsCrash ==
  /\ UnderWay # {}
  /\ audit' = [a \in Audit |-> IF a \in UnderWay THEN [at |-> "done", drop |-> {}] ELSE audit[a]]
  /\ cut' = cut \cup UnderWay
  /\ UNCHANGED <<session, created, pointer, passed>>

AuditsNext ==
  \/ \E a \in Audit : BeginAudit(a) \/ StoreSession(a) \/ PointAt(a) \/ ListSessions(a) \/ DropSession(a)
  \/ AuditsCrash

AuditsSpec == AuditsInit /\ [][AuditsNext]_auditVars
-----------------------------------------------------------------------------
(* Properties *)

\* The saves that may have passed one.
Overtaking(a) == passed[a] \cup {b \in UnderWay : AuditAt(b, "point")} \cup cut

\* The session that latest() answers with is there: the retention of another save
\* takes it away only when it was overtaken by as many saves as are kept, that
\* passed it before it became the latest or have not become the latest themselves.
LatestIsThere ==
  pointer # NoAudit => pointer \in session \/ Cardinality(Overtaking(pointer)) >= Sessions

\* No more sessions are stored than are kept: each save that is under way, or that
\* a crash has ended before it deleted, adds at most its own.
RetentionHolds ==
  Cardinality(session) <= Sessions + Cardinality(UnderWay) + Cardinality(cut)

\* The stored audit sessions, the pointer to the latest and the retention agree (saveSession).
AuditsSafe == AuditsTypeOK /\ LatestIsThere /\ RetentionHolds
=============================================================================
