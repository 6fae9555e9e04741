------------------------------- MODULE Login -------------------------------
(***************************************************************************)
(* Signing in to the dashboard: accounts/service.ts over the tables users, *)
(* magic_links and sessions and the kv entry that counts failed passwords, *)
(* with the routes of api/account.ts and api/admin-panel.ts.  A visit is   *)
(* one request; it waits for the database between any two statements, so   *)
(* visits interleave at each, and a restart cuts all of them off.  The     *)
(* link a visit has mailed and the password it brings carry its name.      *)
(***************************************************************************)
EXTENDS Naturals, FiniteSets

CONSTANTS Visit, Email,
          NoVisit, NoEmail,
          PerWindow,   \* MAGIC_LINKS_PER_HOUR
          MaxWrong     \* failed passwords before a sign-in is refused

ASSUME LoginAssumption ==
  /\ NoVisit \notin Visit /\ NoEmail \notin Email
  /\ PerWindow \in Nat \ {0} /\ MaxWrong \in Nat \ {0}

VARIABLES
  users,     \* each address: whether it has an account, its password, verified, role
  links,     \* magic_links: each link's address, the visit it let in, whether it lasts
  recent,    \* links created within the last hour
  sessions,  \* each session, by the visit that opened it
  failures,  \* kv login_fail: how many, and whether its quarter of an hour lasts
  listed,    \* ADMIN_EMAILS of the running server
  visit,     \* each request: where it is and what it has read
  blind,     \* history: the links under way when a visit counted the recent ones
  wrong,     \* history: failed password checks of each address
  signed,    \* history: sign-ups whose password went into the account
  tardy      \* history: sign-ups that looked before the account was there

loginVars == <<users, links, recent, sessions, failures, listed, visit, blind, wrong, signed, tardy>>

User == [there : BOOLEAN, pass : Visit \cup {NoVisit}, verified : BOOLEAN,
         role : {"user", "admin"}]
Stranger == [there |-> FALSE, pass |-> NoVisit, verified |-> FALSE, role |-> "user"]
Link == [of : Email \cup {NoEmail}, by : Visit \cup {NoVisit},
         open : BOOLEAN, long : BOOLEAN, mailed : BOOLEAN]
NoLink == [of |-> NoEmail, by |-> NoVisit, open |-> FALSE, long |-> FALSE, mailed |-> FALSE]
Session == [of : Email \cup {NoEmail}, state : {"none", "live", "gone"}]
NoSession == [of |-> NoEmail, state |-> "none"]
Tally == Nat
Kind == {"none", "signin", "reset", "confirm", "follow", "signup", "password", "change",
         "signout", "operate"}
Place == {"idle", "look", "count", "create", "mail", "find", "consume", "ensure", "insert",
          "verify", "attach", "sync", "open", "lock", "check", "clear", "fail", "write",
          "revoke", "promote", "end"}
Request == [at : Place, kind : Kind, who : Email \cup {NoEmail},
            link : Visit \cup {NoVisit},  \* the link, or the password, it was given
            role : {"user", "admin"},     \* the role it read, or sets
            tries : Tally]                \* the failures it read
Unsent == [at |-> "idle", kind |-> "none", who |-> NoEmail, link |-> NoVisit,
           role |-> "user", tries |-> 0]

LoginTypeOK ==
  /\ users \in [Email -> User] /\ links \in [Visit -> Link] /\ recent \in SUBSET Visit
  /\ sessions \in [Visit -> Session]
  /\ failures \in [Email -> [n : Tally, fresh : BOOLEAN]]
  /\ listed \in SUBSET Email /\ visit \in [Visit -> Request]
  /\ blind \in [Visit -> SUBSET Visit] /\ wrong \in [Email -> Tally]
  /\ signed \in SUBSET Visit /\ tardy \in SUBSET Visit

LoginInit ==
  /\ users \in [Email -> {Stranger}]
  /\ links = [v \in Visit |-> NoLink] /\ recent = {}
  /\ sessions = [v \in Visit |-> NoSession]
  /\ failures = [p \in Email |-> [n |-> 0, fresh |-> FALSE]]
  /\ listed \in SUBSET Email
  /\ visit = [v \in Visit |-> Unsent]
  /\ blind = [v \in Visit |-> {}] /\ wrong = [p \in Email |-> 0] /\ signed = {} /\ tardy = {}

At(v, place) == visit[v].at = place
Who(v) == visit[v].who
Account(v) == users[visit[v].who]
Goto(v, to) == visit' = [visit EXCEPT ![v].at = to]
GotoAs(v, to, p) == visit' = [visit EXCEPT ![v].at = to, ![v].who = p]
GotoKnowing(v, to, role) == visit' = [visit EXCEPT ![v].at = to, ![v].role = role]
GotoCounting(v, to, n) == visit' = [visit EXCEPT ![v].at = to, ![v].tries = n]
Over(r) == [r EXCEPT !.at = "end", !.role = "user", !.tries = 0]
End(v) == visit' = [visit EXCEPT ![v] = Over(visit[v])]
Begin(v, kind, at, p, given) ==
  /\ At(v, "idle")
  /\ visit' = [visit EXCEPT ![v] = [Unsent EXCEPT !.at = at, !.kind = kind, !.who = p,
                                                  !.link = given]]

BeginPromotion(v, p, role) ==
  /\ At(v, "idle")
  /\ visit' = [visit EXCEPT ![v] = [Unsent EXCEPT !.at = "promote", !.kind = "operate", !.who = p,
                                                  !.role = role]]

Live(p) == {s \in Visit : sessions[s] = [of |-> p, state |-> "live"]}

-----------------------------------------------------------------------------
(* Links by mail: requestMagicLink, requestPasswordReset, sendVerification *)

AskLink(v, p) ==
  /\ \/ Begin(v, "signin", "count", p, NoVisit)
     \/ Begin(v, "reset", "look", p, NoVisit)
     \/ \E s \in Live(p) : ~users[p].verified /\ Begin(v, "confirm", "count", p, NoVisit)
  /\ UNCHANGED <<users, links, recent, sessions, failures, listed, blind, wrong, signed, tardy>>

\* An address that nobody registered gets no reset link, and is told the same.
LookForReset(v) ==
  /\ At(v, "look") /\ visit[v].kind = "reset"
  /\ IF Account(v).there THEN Goto(v, "count") ELSE End(v)
  /\ UNCHANGED <<users, links, recent, sessions, failures, listed, blind, wrong, signed, tardy>>

RecentOf(p) == {l \in recent : links[l].of = p}
UnderWay(p) == {w \in Visit : At(w, "create") /\ Who(w) = p}

\* A sign-in link is refused aloud, a reset and a confirmation are not sent.
CountRecent(v) ==
  /\ At(v, "count")
  /\ IF Cardinality(RecentOf(Who(v))) >= PerWindow
     THEN End(v) /\ UNCHANGED blind
     ELSE Goto(v, "create") /\ blind' = [blind EXCEPT ![v] = UnderWay(Who(v))]
  /\ UNCHANGED <<users, links, recent, sessions, failures, listed, wrong, signed, tardy>>

\* A confirmation outlives the hour of the count, a sign-in link does not.
CreateLink(v) ==
  /\ At(v, "create") /\ Goto(v, "mail")
  /\ links' = [links EXCEPT ![v] = [of |-> Who(v), by |-> NoVisit, open |-> TRUE, mailed |-> FALSE,
                                    long |-> visit[v].kind \in {"confirm", "signup"}]]
  /\ recent' = recent \cup {v}
  /\ UNCHANGED <<users, sessions, failures, listed, blind, wrong, signed, tardy>>

\* A link whose mail could not be sent is there, and counts, but nobody has it.
Mail(v) ==
  /\ At(v, "mail")
  /\ End(v)
  /\ \E sent \in BOOLEAN : links' = [links EXCEPT ![v].mailed = sent]
  /\ UNCHANGED <<users, recent, sessions, failures, listed, blind, wrong, signed, tardy>>

-----------------------------------------------------------------------------
(* Following a link: consumeMagicLink *)

Follow(v, l) ==
  /\ links[l].mailed /\ Begin(v, "follow", "find", NoEmail, l)
  /\ UNCHANGED <<users, links, recent, sessions, failures, listed, blind, wrong, signed, tardy>>

FindLink(v) ==
  /\ At(v, "find")
  /\ IF links[visit[v].link].open /\ links[visit[v].link].by = NoVisit THEN Goto(v, "consume") ELSE End(v)
  /\ UNCHANGED <<users, links, recent, sessions, failures, listed, blind, wrong, signed, tardy>>

\* Fault: the update does not ask whether the link is still unused.
ConsumeAnyLink(v) ==
  /\ At(v, "consume")
  /\ GotoAs(v, "ensure", links[visit[v].link].of)
  /\ links' = [links EXCEPT ![visit[v].link].by = v]
  /\ UNCHANGED <<users, recent, sessions, failures, listed, blind, wrong, signed, tardy>>

\* The update asks for an unused link, no longer for one that has not expired.
ConsumeLink(v) ==
  /\ At(v, "consume")
  /\ IF links[visit[v].link].by # NoVisit
     THEN End(v) /\ UNCHANGED links
     ELSE /\ GotoAs(v, "ensure", links[visit[v].link].of)
          /\ links' = [links EXCEPT ![visit[v].link].by = v]
  /\ UNCHANGED <<users, recent, sessions, failures, listed, blind, wrong, signed, tardy>>

\* UserRepo.ensure, its select: an account that is there is taken as it is.
Ensure(v) ==
  /\ At(v, "ensure")
  /\ GotoKnowing(v, IF ~Account(v).there THEN "insert"
                    ELSE IF visit[v].kind = "follow" /\ ~Account(v).verified THEN "verify"
                    ELSE "sync",
                 Account(v).role)
  /\ tardy' = IF visit[v].kind = "signup" /\ Account(v).there THEN tardy \cup {v} ELSE tardy
  /\ UNCHANGED <<users, links, recent, sessions, failures, listed, blind, wrong, signed>>

\* Fault: a new account counts as verified whoever asked for it.
InsertVerified(v) ==
  /\ At(v, "insert")
  /\ IF Account(v).there
     THEN End(v) /\ UNCHANGED <<users, signed>>
     ELSE /\ Goto(v, "sync")
          /\ users' = [users EXCEPT ![Who(v)] =
                         [there |-> TRUE, role |-> "user", verified |-> TRUE,
                          pass |-> IF visit[v].kind = "signup" THEN v ELSE NoVisit]]
          /\ signed' = IF visit[v].kind = "signup" THEN signed \cup {v} ELSE signed
  /\ UNCHANGED <<links, recent, sessions, failures, listed, blind, wrong, tardy>>

\* UserRepo.ensure, its insert: email is UNIQUE, so the second of two throws.
InsertUser(v) ==
  /\ At(v, "insert")
  /\ IF Account(v).there
     THEN End(v) /\ UNCHANGED <<users, signed>>
     ELSE /\ Goto(v, "sync")
          /\ users' = [users EXCEPT ![Who(v)] =
                         [there |-> TRUE, role |-> "user", verified |-> visit[v].kind = "follow",
                          pass |-> IF visit[v].kind = "signup" THEN v ELSE NoVisit]]
          /\ signed' = IF visit[v].kind = "signup" THEN signed \cup {v} ELSE signed
  /\ UNCHANGED <<links, recent, sessions, failures, listed, blind, wrong, tardy>>

MarkVerified(v) ==
  /\ At(v, "verify") /\ Goto(v, "sync")
  /\ users' = [users EXCEPT ![Who(v)].verified = TRUE]
  /\ UNCHANGED <<links, recent, sessions, failures, listed, blind, wrong, signed, tardy>>

\* syncRole: by the role the visit read; an empty list takes nobody's role away.
SyncRole(v) ==
  /\ At(v, "sync") /\ Goto(v, "open")
  /\ users' = [users EXCEPT ![Who(v)].role =
                 IF Who(v) \in listed THEN IF visit[v].role = "admin" THEN @ ELSE "admin"
                 ELSE IF visit[v].role = "admin" /\ listed # {} THEN "user" ELSE @]
  /\ UNCHANGED <<links, recent, sessions, failures, listed, blind, wrong, signed, tardy>>

\* A sign-up goes on to mail its confirmation, unless the address is verified.
OpenSession(v) ==
  /\ At(v, "open")
  /\ sessions' = [sessions EXCEPT ![v] = [of |-> Who(v), state |-> "live"]]
  /\ IF visit[v].kind = "signup" /\ ~Account(v).verified THEN Goto(v, "count") ELSE End(v)
  /\ UNCHANGED <<users, links, recent, failures, listed, blind, wrong, signed, tardy>>

-----------------------------------------------------------------------------
(* Passwords: signup, loginWithPassword, setPassword *)

SignUp(v, p) ==
  /\ Begin(v, "signup", "look", p, v)
  /\ UNCHANGED <<users, links, recent, sessions, failures, listed, blind, wrong, signed, tardy>>

LookForSignUp(v) ==
  /\ At(v, "look") /\ visit[v].kind = "signup"
  /\ IF Account(v).there /\ Account(v).pass # NoVisit THEN End(v)
     ELSE Goto(v, IF Account(v).there THEN "attach" ELSE "ensure")
  /\ UNCHANGED <<users, links, recent, sessions, failures, listed, blind, wrong, signed, tardy>>

\* An account that a link had created gets the password, whoever gave it one since.
AttachPassword(v) ==
  /\ At(v, "attach")
  /\ GotoKnowing(v, "sync", Account(v).role)
  /\ users' = [users EXCEPT ![Who(v)].pass = v]
  /\ signed' = signed \cup {v}
  /\ UNCHANGED <<links, recent, sessions, failures, listed, blind, wrong, tardy>>

\* given: the password that is tried.
EnterPassword(v, p, given) ==
  /\ Begin(v, "password", "lock", p, given)
  /\ UNCHANGED <<users, links, recent, sessions, failures, listed, blind, wrong, signed, tardy>>

LookAtFailures(v) ==
  /\ At(v, "lock")
  /\ IF failures[Who(v)].n >= MaxWrong /\ failures[Who(v)].fresh THEN End(v)
     ELSE GotoCounting(v, "check", failures[Who(v)].n)
  /\ UNCHANGED <<users, links, recent, sessions, failures, listed, blind, wrong, signed, tardy>>

CheckPassword(v) ==
  /\ At(v, "check")
  /\ IF Account(v).pass = NoVisit THEN End(v) /\ UNCHANGED wrong
     ELSE IF Account(v).pass = visit[v].link
     THEN /\ GotoKnowing(v, "clear", Account(v).role)
          /\ UNCHANGED wrong
     ELSE Goto(v, "fail") /\ wrong' = [wrong EXCEPT ![Who(v)] = @ + 1]
  /\ UNCHANGED <<users, links, recent, sessions, failures, listed, blind, signed, tardy>>

\* One more than it read: failures that overlap count once, and a count that has
\* lapsed goes on from where it was.
CountFailure(v) ==
  /\ At(v, "fail") /\ End(v)
  /\ failures' = [failures EXCEPT ![Who(v)] = [n |-> visit[v].tries + 1, fresh |-> TRUE]]
  /\ UNCHANGED <<users, links, recent, sessions, listed, blind, wrong, signed, tardy>>

ClearFailures(v) ==
  /\ At(v, "clear") /\ Goto(v, "sync")
  /\ failures' = [failures EXCEPT ![Who(v)] = [n |-> 0, fresh |-> FALSE]]
  /\ UNCHANGED <<users, links, recent, sessions, listed, blind, wrong, signed, tardy>>

\* setPassword, from its session check to the check of the current password.
ChangePassword(v, p, given) ==
  /\ Live(p) # {}
  /\ users[p].pass \in {NoVisit, given}
  /\ Begin(v, "change", "write", p, v)
  /\ UNCHANGED <<users, links, recent, sessions, failures, listed, blind, wrong, signed, tardy>>

WritePassword(v) ==
  /\ At(v, "write") /\ End(v)
  /\ users' = [users EXCEPT ![Who(v)].pass = v]
  /\ UNCHANGED <<links, recent, sessions, failures, listed, blind, wrong, signed, tardy>>

-----------------------------------------------------------------------------
(* Sessions and the operators' panel *)

\* A cookie that still resolves ends its own session, or all of its account.
SignOut(v, s) ==
  /\ sessions[s].state = "live"
  /\ Begin(v, "signout", "revoke", sessions[s].of, s)
  /\ UNCHANGED <<users, links, recent, sessions, failures, listed, blind, wrong, signed, tardy>>

\* An operator signs another account out everywhere, or changes its role.
Operate(v, s, p) ==
  /\ sessions[s].state = "live" /\ users[sessions[s].of].role = "admin" /\ users[p].there
  /\ \/ Begin(v, "operate", "revoke", p, NoVisit)
     \/ \E role \in {"user", "admin"} :
          (p = sessions[s].of => role = "admin") /\ BeginPromotion(v, p, role)
  /\ UNCHANGED <<users, links, recent, sessions, failures, listed, blind, wrong, signed, tardy>>

Revoke(v) ==
  /\ At(v, "revoke") /\ End(v)
  /\ \E all \in BOOLEAN :
       /\ visit[v].link = NoVisit => all
       /\ sessions' = [s \in Visit |->
            IF s = visit[v].link \/ (all /\ s \in Live(Who(v)))
            THEN [sessions[s] EXCEPT !.state = "gone"] ELSE sessions[s]]
  /\ UNCHANGED <<users, links, recent, failures, listed, blind, wrong, signed, tardy>>

SetRole(v) ==
  /\ At(v, "promote") /\ End(v)
  /\ users' = [users EXCEPT ![Who(v)].role = visit[v].role]
  /\ UNCHANGED <<links, recent, sessions, failures, listed, blind, wrong, signed, tardy>>

-----------------------------------------------------------------------------
(* Time and the server *)

\* Fifteen minutes, an hour, a day: a sign-in link expires, then leaves the count;
\* a confirmation leaves the count, then expires.
LinkExpires(l) ==
  /\ links[l].open /\ links[l].by = NoVisit /\ (links[l].long => l \notin recent)
  /\ links' = [links EXCEPT ![l].open = FALSE]
  /\ UNCHANGED <<users, recent, sessions, failures, listed, visit, blind, wrong, signed, tardy>>

HourPasses(l) ==
  /\ l \in recent /\ (links[l].open => links[l].long \/ links[l].by # NoVisit)
  /\ recent' = recent \ {l}
  /\ UNCHANGED <<users, links, sessions, failures, listed, visit, blind, wrong, signed, tardy>>

LockLapses(p) ==
  /\ failures[p].fresh
  /\ failures' = [failures EXCEPT ![p].fresh = FALSE]
  /\ UNCHANGED <<users, links, recent, sessions, listed, visit, blind, wrong, signed, tardy>>

\* Every request in progress is lost; the new server may have another list.
LoginRestart ==
  /\ \E v \in Visit : visit[v].at \notin {"idle", "end"}
  /\ visit' = [v \in Visit |-> IF At(v, "idle") THEN visit[v] ELSE Over(visit[v])]
  /\ listed' \in SUBSET Email
  /\ UNCHANGED <<users, links, recent, sessions, failures, blind, wrong, signed, tardy>>

Start(v) ==
  \/ \E p \in Email :
       \/ AskLink(v, p) \/ SignUp(v, p)
       \/ \E given \in Visit : EnterPassword(v, p, given) \/ ChangePassword(v, p, given)
  \/ \E l \in Visit : Follow(v, l) \/ SignOut(v, l) \/ \E p \in Email : Operate(v, l, p)

Continue(v) ==
  \/ LookForReset(v) \/ CountRecent(v) \/ CreateLink(v) \/ Mail(v)
  \/ FindLink(v) \/ ConsumeLink(v) \/ Ensure(v) \/ InsertUser(v) \/ MarkVerified(v)
  \/ SyncRole(v) \/ OpenSession(v) \/ LookForSignUp(v) \/ AttachPassword(v)
  \/ LookAtFailures(v) \/ CheckPassword(v) \/ CountFailure(v) \/ ClearFailures(v)
  \/ WritePassword(v) \/ Revoke(v) \/ SetRole(v)

Clock ==
  \/ \E l \in Visit : LinkExpires(l) \/ HourPasses(l)
  \/ \E p \in Email : LockLapses(p)

LoginNext == (\E v \in Visit : Start(v) \/ Continue(v)) \/ Clock \/ LoginRestart

LoginSpec == LoginInit /\ [][LoginNext]_loginVars
-----------------------------------------------------------------------------
(* Properties *)

\* An address counts as verified only when a link that was mailed to it has been
\* followed: neither a sign-up nor a password does it, however they interleave
\* with a link (service.ts:87, "Clicking a link we emailed proves ownership").
VerifiedByMail ==
  \A p \in Email : users[p].verified =>
    \E l \in Visit : links[l].of = p /\ links[l].by # NoVisit /\ links[l].mailed

\* The limit of links in an hour is kept, although it is counted in one statement
\* and used up in another: what is beyond it came from requests that overlapped.
LimitWithoutOverlap ==
  \A p \in Email : Cardinality(RecentOf(p)) > PerWindow =>
    \E l \in RecentOf(p) : blind[l] # {}

\* No sign-in is refused for failures that did not happen: the count never runs
\* ahead of the wrong passwords, whatever overlaps, clears or lapses.
FailuresHappened == \A p \in Email : failures[p].n <= wrong[p]

\* A sign-up that opened a session has put its password into the account, unless
\* somebody else created the account between its look and its insert: then it is
\* signed in to an account whose password it does not know.
SignUpStores ==
  \A v \in Visit :
    visit[v].kind = "signup" /\ sessions[v].state # "none" => v \in signed \cup tardy

OneShotLink ==
  INSTANCE OneShotApproval WITH
    Token <- Visit, Plan <- Email, Call <- Visit, NoPlan <- NoEmail, NoCall <- NoVisit,
    granted <- [l \in Visit |-> links[l].of],
    holder <- [l \in Visit |-> links[l].by]

\* MagicLinkRepo.consume, a select and a guarded update, keeps what a one-shot
\* approval promises: a link is mailed to one address and lets one visit in.
LinksAreOneShot == OneShotLink!Spec

\* Each step of signing in reads something another request may change before it is used, and yet
\* the account, the links and the lock say what happened (AccountService).
LoginSafe ==
  /\ LoginTypeOK
  /\ VerifiedByMail
  /\ LimitWithoutOverlap
  /\ FailuresHappened
  /\ SignUpStores
=============================================================================
