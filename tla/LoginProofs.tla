--------------------------- MODULE LoginProofs ---------------------------
(***************************************************************************)
(* Theorems about Login, for any visits and addresses, any limits, and any *)
(* number of expiries and restarts.                                        *)
(***************************************************************************)
EXTENDS Login, FiniteSetTheorems, TLAPS

\* Where a visit is says what it knows.
VisitInv(v) ==
  /\ visit[v].at \notin {"idle", "find", "consume", "end"} => Who(v) \in Email
  /\ visit[v].at \in {"find", "consume"} => visit[v].kind = "follow"
  /\ At(v, "verify") => visit[v].kind = "follow"
  /\ visit[v].at \in {"lock", "check", "clear"} => visit[v].kind = "password"
  /\ visit[v].at \in {"ensure", "insert"} => visit[v].kind \in {"follow", "signup"}
  /\ visit[v].kind = "follow" =>
       /\ visit[v].at \in {"find", "consume", "ensure", "insert", "verify", "sync", "open", "end"}
       /\ visit[v].link \in Visit /\ links[visit[v].link].mailed
  /\ visit[v].kind = "follow" /\ visit[v].at \in {"ensure", "insert", "verify"} =>
       links[visit[v].link].of = Who(v) /\ links[visit[v].link].by # NoVisit
  /\ visit[v].kind = "signup" /\ visit[v].at \in {"sync", "open"} => v \in signed \cup tardy

\* A session was opened by its visit, for an address.
SessionInv(v) ==
  /\ At(v, "idle") => sessions[v].state = "none"
  /\ sessions[v].state # "none" => sessions[v].of \in Email
  /\ At(v, "revoke") /\ visit[v].link # NoVisit => sessions[visit[v].link].state # "none"

\* A link is created by its visit before anybody can follow it, and mailed last.
LinkInv(l) ==
  /\ links[l].of # NoEmail => visit[l].at \in {"mail", "end"}
  /\ links[l].of = NoEmail => links[l] = NoLink /\ l \notin recent /\ ~At(l, "mail")
  /\ links[l].mailed => At(l, "end")
  /\ links[l].by # NoVisit =>
       /\ links[l].mailed /\ visit[links[l].by].link = l /\ visit[links[l].by].kind = "follow"
       /\ visit[links[l].by].at \in {"ensure", "insert", "verify", "sync", "open", "end"}

\* What a visit has read of the failures has happened.
FailureInv(v) ==
  /\ At(v, "check") => visit[v].tries <= wrong[Who(v)]
  /\ At(v, "fail") => visit[v].tries < wrong[Who(v)]

\* The links of an address whose visits saw nobody else creating one, and the visits
\* that are about to create such a link.
Unaware(p) == {l \in RecentOf(p) : blind[l] = {}}
Solo(v) == At(v, "create") /\ blind[v] = {}

Alone == \A u, v \in Visit : Solo(u) /\ Solo(v) /\ Who(u) = Who(v) => u = v

Within ==
  /\ \A p \in Email : Cardinality(Unaware(p)) <= PerWindow
  /\ \A v \in Visit : Solo(v) => Cardinality(Unaware(Who(v))) < PerWindow

\* LoginTypeOK, in parts.
VisitsOK == visit \in [Visit -> Request]
TablesOK ==
  /\ users \in [Email -> User] /\ links \in [Visit -> Link]
  /\ recent \in SUBSET Visit /\ sessions \in [Visit -> Session]
CountsOK == failures \in [Email -> [n : Tally, fresh : BOOLEAN]] /\ wrong \in [Email -> Tally]
NotesOK == /\ listed \in SUBSET Email /\ blind \in [Visit -> SUBSET Visit]
           /\ signed \in SUBSET Visit /\ tardy \in SUBSET Visit

\* The inductive invariant of Login.
LoginInv ==
  /\ VisitsOK /\ TablesOK /\ CountsOK /\ NotesOK
  /\ \A v \in Visit : VisitInv(v) /\ SessionInv(v) /\ LinkInv(v) /\ FailureInv(v)
  /\ IsFiniteSet(recent) /\ Alone /\ Within
  /\ VerifiedByMail /\ FailuresHappened /\ SignUpStores
-----------------------------------------------------------------------------
\* How a request moves on: it ends, goes to its next statement, or begins.
LEMMA Ends ==
  ASSUME VisitsOK, NEW v \in Visit, End(v)
  PROVE  /\ VisitsOK' /\ visit'[v].at = "end" /\ visit'[v].kind = visit[v].kind
         /\ visit'[v].who = visit[v].who /\ visit'[v].link = visit[v].link
         /\ \A x \in Visit \ {v} : visit'[x] = visit[x]
<1>1. /\ Over(visit[v]) \in Request /\ Over(visit[v]).at = "end" /\ Over(visit[v]).kind = visit[v].kind
      /\ Over(visit[v]).who = visit[v].who /\ Over(visit[v]).link = visit[v].link
  <2>1. visit[v] \in Request
    BY DEF VisitsOK
  <2>. QED
    BY <2>1 DEF Over, Request, Place, Tally
<1>. QED
  BY <1>1 DEF VisitsOK, End

LEMMA GoesOn ==
  ASSUME VisitsOK, NEW v \in Visit, NEW to \in Place, Goto(v, to)
  PROVE  /\ VisitsOK' /\ visit'[v].at = to /\ visit'[v].kind = visit[v].kind
         /\ visit'[v].who = visit[v].who /\ visit'[v].link = visit[v].link
         /\ visit'[v].role = visit[v].role /\ visit'[v].tries = visit[v].tries
         /\ \A x \in Visit \ {v} : visit'[x] = visit[x]
  BY DEF VisitsOK, Goto, Request

LEMMA Begins ==
  ASSUME VisitsOK, NEW v \in Visit, NEW kind \in Kind, NEW at \in Place,
         NEW p \in Email \cup {NoEmail}, NEW given \in Visit \cup {NoVisit}, Begin(v, kind, at, p, given)
  PROVE  /\ VisitsOK' /\ visit[v].at = "idle" /\ visit'[v].at = at /\ visit'[v].kind = kind
         /\ visit'[v].who = p /\ visit'[v].link = given
         /\ \A x \in Visit \ {v} : visit'[x] = visit[x]
<1>. DEFINE r == [Unsent EXCEPT !.at = at, !.kind = kind, !.who = p, !.link = given]
<1>1. Unsent \in Request
  BY DEF Unsent, Request, Place, Kind, Tally
<1>2. r \in Request /\ r.at = at /\ r.kind = kind /\ r.who = p /\ r.link = given
  BY <1>1 DEF Request
<1>. QED
  BY <1>2 DEF VisitsOK, Begin, At

\* It takes with it the address, the role or the number of failures it has read.
LEMMA GoesOnAs ==
  ASSUME VisitsOK, NEW v \in Visit, NEW to \in Place, NEW p \in Email \cup {NoEmail}, GotoAs(v, to, p)
  PROVE  /\ VisitsOK' /\ visit'[v].at = to /\ visit'[v].who = p
         /\ visit'[v].kind = visit[v].kind /\ visit'[v].link = visit[v].link
         /\ \A x \in Visit \ {v} : visit'[x] = visit[x]
<1>. DEFINE r == [visit[v] EXCEPT !.at = to, !.who = p]
<1>1. visit[v] \in Request
  BY DEF VisitsOK
<1>2. /\ r \in Request /\ r.at = to /\ r.who = p
      /\ r.kind = visit[v].kind /\ r.link = visit[v].link
  BY <1>1 DEF Request
<1>3. visit' = [visit EXCEPT ![v] = r]
  BY DEF VisitsOK, GotoAs
<1>. QED
  BY <1>2, <1>3 DEF VisitsOK

LEMMA GoesOnKnowing ==
  ASSUME VisitsOK, NEW v \in Visit, NEW to \in Place, NEW role \in {"user", "admin"}, GotoKnowing(v, to, role)
  PROVE  /\ VisitsOK' /\ visit'[v].at = to /\ visit'[v].role = role
         /\ visit'[v].kind = visit[v].kind /\ visit'[v].link = visit[v].link
         /\ visit'[v].who = visit[v].who
         /\ \A x \in Visit \ {v} : visit'[x] = visit[x]
<1>. DEFINE r == [visit[v] EXCEPT !.at = to, !.role = role]
<1>1. visit[v] \in Request
  BY DEF VisitsOK
<1>2. /\ r \in Request /\ r.at = to /\ r.role = role
      /\ r.kind = visit[v].kind /\ r.link = visit[v].link
      /\ r.who = visit[v].who
  BY <1>1 DEF Request
<1>3. visit' = [visit EXCEPT ![v] = r]
  BY DEF VisitsOK, GotoKnowing
<1>. QED
  BY <1>2, <1>3 DEF VisitsOK

LEMMA GoesOnCounting ==
  ASSUME VisitsOK, NEW v \in Visit, NEW to \in Place, NEW n \in Tally, GotoCounting(v, to, n)
  PROVE  /\ VisitsOK' /\ visit'[v].at = to /\ visit'[v].tries = n
         /\ visit'[v].kind = visit[v].kind /\ visit'[v].link = visit[v].link
         /\ visit'[v].who = visit[v].who
         /\ \A x \in Visit \ {v} : visit'[x] = visit[x]
<1>. DEFINE r == [visit[v] EXCEPT !.at = to, !.tries = n]
<1>1. visit[v] \in Request
  BY DEF VisitsOK
<1>2. /\ r \in Request /\ r.at = to /\ r.tries = n
      /\ r.kind = visit[v].kind /\ r.link = visit[v].link
      /\ r.who = visit[v].who
  BY <1>1 DEF Request
<1>3. visit' = [visit EXCEPT ![v] = r]
  BY DEF VisitsOK, GotoCounting
<1>. QED
  BY <1>2, <1>3 DEF VisitsOK

LEMMA BeginsPromotion ==
  ASSUME VisitsOK, NEW v \in Visit, NEW p \in Email, NEW role \in {"user", "admin"},
         BeginPromotion(v, p, role)
  PROVE  /\ VisitsOK' /\ visit[v].at = "idle" /\ visit'[v].at = "promote"
         /\ visit'[v].kind = "operate" /\ visit'[v].who = p
         /\ \A x \in Visit \ {v} : visit'[x] = visit[x]
<1>. DEFINE r == [Unsent EXCEPT !.at = "promote", !.kind = "operate", !.who = p, !.role = role]
<1>1. Unsent \in Request
  BY DEF Unsent, Request, Place, Kind, Tally
<1>2. r \in Request /\ r.at = "promote" /\ r.kind = "operate" /\ r.who = p
  BY ZenonT(40), <1>1 DEF Request, Place, Kind
<1>. QED
  BY <1>2 DEF VisitsOK, BeginPromotion, At

\* A restart ends the requests that are in progress.
LEMMA Restarts ==
  ASSUME VisitsOK, LoginRestart
  PROVE  /\ VisitsOK'
         /\ \A x \in Visit : /\ visit'[x].at = IF At(x, "idle") THEN "idle" ELSE "end"
                             /\ visit'[x].kind = visit[x].kind /\ visit'[x].who = visit[x].who
                             /\ visit'[x].link = visit[x].link
<1>1. ASSUME NEW x \in Visit
      PROVE  /\ Over(visit[x]) \in Request /\ Over(visit[x]).at = "end"
             /\ Over(visit[x]).kind = visit[x].kind
             /\ Over(visit[x]).who = visit[x].who /\ Over(visit[x]).link = visit[x].link
  <2>1. visit[x] \in Request
    BY DEF VisitsOK
  <2>. QED
    BY <2>1 DEF Over, Request, Place, Tally
<1>2. \A x \in Visit : visit'[x] = IF At(x, "idle") THEN visit[x] ELSE Over(visit[x])
  BY DEF LoginRestart
<1>3. visit' = [x \in Visit |-> visit'[x]]
  BY DEF LoginRestart
<1>4. \A x \in Visit : visit'[x] \in Request
  BY <1>1, <1>2 DEF VisitsOK
<1>. QED
  BY <1>1, <1>2, <1>3, <1>4 DEF VisitsOK, At

\* Before the first visit nothing is there.
LEMMA LoginInitInv == LoginInit => LoginInv
<1>. SUFFICES ASSUME LoginInit PROVE LoginInv
  OBVIOUS
<1>1. VisitsOK /\ TablesOK /\ CountsOK /\ NotesOK
  <2>1. Unsent \in Request /\ NoLink \in Link /\ NoSession \in Session /\ Stranger \in User
    BY DEF Unsent, Request, Place, Kind, Tally, NoLink, Link, NoSession, Session, Stranger, User
  <2>2. VisitsOK /\ TablesOK
    BY <2>1 DEF LoginInit, VisitsOK, TablesOK
  <2>3. CountsOK /\ NotesOK
    BY DEF LoginInit, CountsOK, NotesOK, Tally
  <2>. QED
    BY <2>2, <2>3
<1>2. ASSUME NEW v \in Visit PROVE VisitInv(v) /\ SessionInv(v) /\ LinkInv(v) /\ FailureInv(v)
  BY DEF LoginInit, VisitInv, SessionInv, LinkInv, FailureInv, Unsent, At, NoLink, NoSession
<1>3. IsFiniteSet(recent) /\ Alone /\ VerifiedByMail /\ FailuresHappened /\ SignUpStores
  BY FS_EmptySet DEF LoginInit, Alone, Solo, At, Unsent, VerifiedByMail, Stranger, FailuresHappened,
     SignUpStores, NoSession
<1>4. Within
  <2>1. \A p : Unaware(p) = {}
    BY DEF LoginInit, Unaware, RecentOf
  <2>2. \A v \in Visit : ~Solo(v)
    BY DEF LoginInit, Solo, At, Unsent
  <2>. QED
    BY <2>1, <2>2, FS_EmptySet, LoginAssumption DEF Within
<1>. QED
  BY <1>1, <1>2, <1>3, <1>4 DEF LoginInv

\* Every step keeps the visits in their type.
LEMMA VisitsStep ==
  ASSUME LoginInv, [LoginNext]_loginVars
  PROVE  VisitsOK'
<1>a. VisitsOK
  BY DEF LoginInv
<1>b. TablesOK /\ CountsOK /\ (\A x \in Visit : VisitInv(x))
  BY DEF LoginInv
<1>1. ASSUME NEW v \in Visit, NEW p \in Email, AskLink(v, p) PROVE VisitsOK'
  <2>1. CASE Begin(v, "signin", "count", p, NoVisit)
    BY ZenonT(40), <1>a, <2>1, Begins DEF Place, Kind
  <2>2. CASE Begin(v, "reset", "look", p, NoVisit)
    BY ZenonT(40), <1>a, <2>2, Begins DEF Place, Kind
  <2>3. CASE Begin(v, "confirm", "count", p, NoVisit)
    BY ZenonT(40), <1>a, <2>3, Begins DEF Place, Kind
  <2>. QED
    BY <1>1, <2>1, <2>2, <2>3 DEF AskLink
<1>2. ASSUME NEW v \in Visit, NEW p \in Email, SignUp(v, p) PROVE VisitsOK'
  BY ZenonT(40), <1>a, <1>2, Begins DEF SignUp, Place, Kind
<1>3. ASSUME NEW v \in Visit, NEW p \in Email, NEW given \in Visit, EnterPassword(v, p, given) PROVE VisitsOK'
  BY ZenonT(40), <1>a, <1>3, Begins DEF EnterPassword, Place, Kind
<1>4. ASSUME NEW v \in Visit, NEW p \in Email, NEW given \in Visit, ChangePassword(v, p, given) PROVE VisitsOK'
  BY ZenonT(40), <1>a, <1>4, Begins DEF ChangePassword, Place, Kind
<1>5. ASSUME NEW v \in Visit, NEW l \in Visit, Follow(v, l) PROVE VisitsOK'
  BY ZenonT(40), <1>a, <1>5, Begins DEF Follow, Place, Kind
<1>6. ASSUME NEW v \in Visit, NEW s \in Visit, SignOut(v, s) PROVE VisitsOK'
  <2>1. sessions[s].of \in Email \cup {NoEmail}
    BY <1>b DEF TablesOK, Session
  <2>. QED
    BY ZenonT(40), <1>a, <1>6, <2>1, Begins DEF SignOut, Place, Kind
<1>7. ASSUME NEW v \in Visit, NEW s \in Visit, NEW p \in Email, Operate(v, s, p) PROVE VisitsOK'
  <2>1. CASE Begin(v, "operate", "revoke", p, NoVisit)
    BY ZenonT(40), <1>a, <2>1, Begins DEF Place, Kind
  <2>2. CASE \E role \in {"user", "admin"} : BeginPromotion(v, p, role)
    BY <1>a, <2>2, BeginsPromotion
  <2>. QED
    BY <1>7, <2>1, <2>2 DEF Operate
<1>8. ASSUME NEW v \in Visit, LookForReset(v) PROVE VisitsOK'
  <2>1. CASE /\ Account(v).there /\ Goto(v, "count")
    BY <1>a, <2>1, GoesOn DEF Place, Kind
  <2>2. CASE End(v)
    BY <1>a, <2>2, Ends DEF Place, Kind
  <2>. QED
    BY <1>8, <2>1, <2>2 DEF LookForReset
<1>9. ASSUME NEW v \in Visit, CountRecent(v) PROVE VisitsOK'
  <2>1. CASE End(v) /\ UNCHANGED blind
    BY <1>a, <2>1, Ends DEF Place, Kind
  <2>2. CASE /\ ~(Cardinality(RecentOf(Who(v))) >= PerWindow) /\ Goto(v, "create")
             /\ blind' = [blind EXCEPT ![v] = UnderWay(Who(v))]
    BY <1>a, <2>2, GoesOn DEF Place, Kind
  <2>. QED
    BY <1>9, <2>1, <2>2 DEF CountRecent
<1>10. ASSUME NEW v \in Visit, CreateLink(v) PROVE VisitsOK'
  BY <1>a, <1>10, GoesOn DEF CreateLink, Place, Kind
<1>11. ASSUME NEW v \in Visit, Mail(v) PROVE VisitsOK'
  BY <1>a, <1>11, Ends DEF Mail, Place, Kind
<1>12. ASSUME NEW v \in Visit, FindLink(v) PROVE VisitsOK'
  <2>1. CASE Goto(v, "consume")
    BY <1>a, <2>1, GoesOn DEF Place, Kind
  <2>2. CASE End(v)
    BY <1>a, <2>2, Ends DEF Place, Kind
  <2>. QED
    BY <1>12, <2>1, <2>2 DEF FindLink
<1>13. ASSUME NEW v \in Visit, ConsumeLink(v) PROVE VisitsOK'
  <2>1. VisitInv(v) /\ visit[v].kind = "follow"
    BY <1>b, <1>13 DEF ConsumeLink, At, VisitInv
  <2>. DEFINE q == links[visit[v].link].of
  <2>2. q \in Email \cup {NoEmail}
    BY <1>b, <2>1 DEF VisitInv, TablesOK, Link
  <2>3. End(v) \/ GotoAs(v, "ensure", q)
    BY <1>13 DEF ConsumeLink
  <2>. HIDE DEF q
  <2>. QED
    BY <1>a, <2>2, <2>3, Ends, GoesOnAs DEF Place
<1>14. ASSUME NEW v \in Visit, Ensure(v) PROVE VisitsOK'
  <2>1. visit[v].at \notin {"idle", "find", "consume", "end"} /\ VisitInv(v)
    BY <1>b, <1>14 DEF Ensure, At
  <2>2. Who(v) \in Email
    BY <2>1 DEF VisitInv
  <2>3. Account(v).role \in {"user", "admin"}
    BY <1>b, <2>2 DEF Account, Who, TablesOK, User
  <2>4. PICK to \in Place : GotoKnowing(v, to, Account(v).role)
    BY <1>14 DEF Ensure, Place
  <2>. QED
    BY <1>a, <2>3, <2>4, GoesOnKnowing
<1>15. ASSUME NEW v \in Visit, InsertUser(v) PROVE VisitsOK'
  <2>1. CASE End(v) /\ UNCHANGED <<users, signed>>
    BY <1>a, <2>1, Ends DEF Place, Kind
  <2>2. CASE Goto(v, "sync") /\ ~Account(v).there /\ visit[v].kind = "signup"
    BY <1>a, <2>2, GoesOn DEF Place, Kind
  <2>3. CASE Goto(v, "sync") /\ ~Account(v).there /\ visit[v].kind # "signup"
    BY <1>a, <2>3, GoesOn DEF Place, Kind
  <2>. QED
    BY <1>15, <2>1, <2>2, <2>3 DEF InsertUser
<1>16. ASSUME NEW v \in Visit, MarkVerified(v) PROVE VisitsOK'
  BY <1>a, <1>16, GoesOn DEF MarkVerified, Place, Kind
<1>17. ASSUME NEW v \in Visit, SyncRole(v) PROVE VisitsOK'
  BY <1>a, <1>17, GoesOn DEF SyncRole, Place, Kind
<1>18. ASSUME NEW v \in Visit, OpenSession(v) PROVE VisitsOK'
  <2>1. CASE visit[v].kind = "signup" /\ ~Account(v).verified /\ Goto(v, "count")
    BY <1>a, <2>1, GoesOn DEF Place, Kind
  <2>2. CASE End(v)
    BY <1>a, <2>2, Ends DEF Place, Kind
  <2>. QED
    BY <1>18, <2>1, <2>2 DEF OpenSession
<1>19. ASSUME NEW v \in Visit, LookForSignUp(v) PROVE VisitsOK'
  <2>1. CASE End(v)
    BY <1>a, <2>1, Ends DEF Place, Kind
  <2>2. CASE Goto(v, "attach")
    BY <1>a, <2>2, GoesOn DEF Place, Kind
  <2>3. CASE Goto(v, "ensure")
    BY <1>a, <2>3, GoesOn DEF Place, Kind
  <2>. QED
    BY <1>19, <2>1, <2>2, <2>3 DEF LookForSignUp
<1>20. ASSUME NEW v \in Visit, AttachPassword(v) PROVE VisitsOK'
  <2>1. visit[v].at \notin {"idle", "find", "consume", "end"} /\ VisitInv(v)
    BY <1>b, <1>20 DEF AttachPassword, At
  <2>2. Who(v) \in Email
    BY <2>1 DEF VisitInv
  <2>3. Account(v).role \in {"user", "admin"}
    BY <1>b, <2>2 DEF Account, Who, TablesOK, User
  <2>. QED
    BY <1>a, <1>20, <2>3, GoesOnKnowing DEF AttachPassword, Place
<1>21. ASSUME NEW v \in Visit, LookAtFailures(v) PROVE VisitsOK'
  <2>1. visit[v].at \notin {"idle", "find", "consume", "end"} /\ VisitInv(v)
    BY <1>b, <1>21 DEF LookAtFailures, At
  <2>2. Who(v) \in Email
    BY <2>1 DEF VisitInv
  <2>. DEFINE n == failures[Who(v)].n
  <2>3. n \in Tally
    BY <1>b, <2>2 DEF CountsOK
  <2>4. End(v) \/ GotoCounting(v, "check", n)
    BY <1>21 DEF LookAtFailures
  <2>. HIDE DEF n
  <2>. QED
    BY <1>a, <2>3, <2>4, Ends, GoesOnCounting DEF Place
<1>22. ASSUME NEW v \in Visit, CheckPassword(v) PROVE VisitsOK'
  <2>1. visit[v].at \notin {"idle", "find", "consume", "end"} /\ VisitInv(v)
    BY <1>b, <1>22 DEF CheckPassword, At
  <2>2. Who(v) \in Email
    BY <2>1 DEF VisitInv
  <2>3. Account(v).role \in {"user", "admin"}
    BY <1>b, <2>2 DEF Account, Who, TablesOK, User
  <2>4. CASE End(v)
    BY <1>a, <2>4, Ends
  <2>5. CASE GotoKnowing(v, "clear", Account(v).role)
    BY <1>a, <2>3, <2>5, GoesOnKnowing DEF Place
  <2>6. CASE Goto(v, "fail")
    BY <1>a, <2>6, GoesOn DEF Place
  <2>. QED
    BY <1>22, <2>4, <2>5, <2>6 DEF CheckPassword
<1>23. ASSUME NEW v \in Visit, CountFailure(v) PROVE VisitsOK'
  BY <1>a, <1>23, Ends DEF CountFailure, Place, Kind
<1>24. ASSUME NEW v \in Visit, ClearFailures(v) PROVE VisitsOK'
  BY <1>a, <1>24, GoesOn DEF ClearFailures, Place, Kind
<1>25. ASSUME NEW v \in Visit, WritePassword(v) PROVE VisitsOK'
  BY <1>a, <1>25, Ends DEF WritePassword, Place, Kind
<1>26. ASSUME NEW v \in Visit, Revoke(v) PROVE VisitsOK'
  BY <1>a, <1>26, Ends DEF Revoke, Place, Kind
<1>27. ASSUME NEW v \in Visit, SetRole(v) PROVE VisitsOK'
  BY <1>a, <1>27, Ends DEF SetRole, Place, Kind
<1>28. ASSUME NEW l \in Visit, LinkExpires(l) PROVE VisitsOK'
  BY <1>a, <1>28 DEF LinkExpires, VisitsOK
<1>29. ASSUME NEW l \in Visit, HourPasses(l) PROVE VisitsOK'
  BY <1>a, <1>29 DEF HourPasses, VisitsOK
<1>30. ASSUME NEW p \in Email, LockLapses(p) PROVE VisitsOK'
  BY <1>a, <1>30 DEF LockLapses, VisitsOK
<1>31. CASE LoginRestart
  BY <1>a, <1>31, Restarts
<1>32. CASE UNCHANGED loginVars
  BY <1>a, <1>32 DEF loginVars, VisitsOK
<1>. QED
  BY <1>1, <1>2, <1>3, <1>4, <1>5, <1>6, <1>7, <1>8, <1>9, <1>10, <1>11, <1>12, <1>13, <1>14,
     <1>15, <1>16, <1>17, <1>18, <1>19, <1>20, <1>21, <1>22, <1>23, <1>24, <1>25, <1>26, <1>27,
     <1>28, <1>29, <1>30, <1>31, <1>32 DEF LoginNext, Start, Continue, Clock

\* A request moves alone.
LEMMA OthersWait ==
  ASSUME VisitsOK, NEW v \in Visit, Start(v) \/ Continue(v)
  PROVE  \A x \in Visit \ {v} : visit'[x] = visit[x]
<1>1. \E r : visit' = [visit EXCEPT ![v] = r]
  <2>. USE DEF Begin, BeginPromotion, Goto, GotoAs, GotoKnowing, GotoCounting, End
  <2>1. ASSUME NEW p \in Email, AskLink(v, p) PROVE \E r : visit' = [visit EXCEPT ![v] = r]
    BY <2>1 DEF AskLink
  <2>2. ASSUME NEW p \in Email, SignUp(v, p) PROVE \E r : visit' = [visit EXCEPT ![v] = r]
    BY <2>2 DEF SignUp
  <2>3. ASSUME NEW p \in Email, NEW given \in Visit, EnterPassword(v, p, given) PROVE \E r : visit' = [visit EXCEPT ![v] = r]
    BY <2>3 DEF EnterPassword
  <2>4. ASSUME NEW p \in Email, NEW given \in Visit, ChangePassword(v, p, given) PROVE \E r : visit' = [visit EXCEPT ![v] = r]
    BY <2>4 DEF ChangePassword
  <2>5. ASSUME NEW l \in Visit, Follow(v, l) PROVE \E r : visit' = [visit EXCEPT ![v] = r]
    BY <2>5 DEF Follow
  <2>6. ASSUME NEW s \in Visit, SignOut(v, s) PROVE \E r : visit' = [visit EXCEPT ![v] = r]
    BY <2>6 DEF SignOut
  <2>7. ASSUME NEW s \in Visit, NEW p \in Email, Operate(v, s, p) PROVE \E r : visit' = [visit EXCEPT ![v] = r]
    BY <2>7 DEF Operate
  <2>8. ASSUME LookForReset(v) PROVE \E r : visit' = [visit EXCEPT ![v] = r]
    BY <2>8 DEF LookForReset
  <2>9. ASSUME CountRecent(v) PROVE \E r : visit' = [visit EXCEPT ![v] = r]
    BY <2>9 DEF CountRecent
  <2>10. ASSUME CreateLink(v) PROVE \E r : visit' = [visit EXCEPT ![v] = r]
    BY <2>10 DEF CreateLink
  <2>11. ASSUME Mail(v) PROVE \E r : visit' = [visit EXCEPT ![v] = r]
    BY <2>11 DEF Mail
  <2>12. ASSUME FindLink(v) PROVE \E r : visit' = [visit EXCEPT ![v] = r]
    BY <2>12 DEF FindLink
  <2>13. ASSUME ConsumeLink(v) PROVE \E r : visit' = [visit EXCEPT ![v] = r]
    BY <2>13 DEF ConsumeLink
  <2>14. ASSUME Ensure(v) PROVE \E r : visit' = [visit EXCEPT ![v] = r]
    BY <2>14 DEF Ensure
  <2>15. ASSUME InsertUser(v) PROVE \E r : visit' = [visit EXCEPT ![v] = r]
    BY <2>15 DEF InsertUser
  <2>16. ASSUME MarkVerified(v) PROVE \E r : visit' = [visit EXCEPT ![v] = r]
    BY <2>16 DEF MarkVerified
  <2>17. ASSUME SyncRole(v) PROVE \E r : visit' = [visit EXCEPT ![v] = r]
    BY <2>17 DEF SyncRole
  <2>18. ASSUME OpenSession(v) PROVE \E r : visit' = [visit EXCEPT ![v] = r]
    BY <2>18 DEF OpenSession
  <2>19. ASSUME LookForSignUp(v) PROVE \E r : visit' = [visit EXCEPT ![v] = r]
    BY <2>19 DEF LookForSignUp
  <2>20. ASSUME AttachPassword(v) PROVE \E r : visit' = [visit EXCEPT ![v] = r]
    BY <2>20 DEF AttachPassword
  <2>21. ASSUME LookAtFailures(v) PROVE \E r : visit' = [visit EXCEPT ![v] = r]
    BY <2>21 DEF LookAtFailures
  <2>22. ASSUME CheckPassword(v) PROVE \E r : visit' = [visit EXCEPT ![v] = r]
    BY <2>22 DEF CheckPassword
  <2>23. ASSUME CountFailure(v) PROVE \E r : visit' = [visit EXCEPT ![v] = r]
    BY <2>23 DEF CountFailure
  <2>24. ASSUME ClearFailures(v) PROVE \E r : visit' = [visit EXCEPT ![v] = r]
    BY <2>24 DEF ClearFailures
  <2>25. ASSUME WritePassword(v) PROVE \E r : visit' = [visit EXCEPT ![v] = r]
    BY <2>25 DEF WritePassword
  <2>26. ASSUME Revoke(v) PROVE \E r : visit' = [visit EXCEPT ![v] = r]
    BY <2>26 DEF Revoke
  <2>27. ASSUME SetRole(v) PROVE \E r : visit' = [visit EXCEPT ![v] = r]
    BY <2>27 DEF SetRole
  <2>. QED
    BY <2>1, <2>2, <2>3, <2>4, <2>5, <2>6, <2>7, <2>8, <2>9, <2>10, <2>11, <2>12, <2>13, <2>14,
       <2>15, <2>16, <2>17, <2>18, <2>19, <2>20, <2>21, <2>22, <2>23, <2>24, <2>25, <2>26,
       <2>27 DEF Start, Continue
<1>. QED
  BY <1>1 DEF VisitsOK

\* Every step of a request keeps what it knows true.
LEMMA OwnStep ==
  ASSUME LoginInv, NEW v \in Visit, Start(v) \/ Continue(v)
  PROVE  VisitInv(v)'
<1>a. VisitsOK
  BY DEF LoginInv
<1>b. VisitInv(v)
  BY DEF LoginInv
<1>c. TablesOK /\ CountsOK
  BY DEF LoginInv
<1>d. \A x \in Visit : LinkInv(x) /\ SessionInv(x)
  BY DEF LoginInv
<1>. USE DEF Place, Kind
<1>1. ASSUME NEW p \in Email, AskLink(v, p) PROVE VisitInv(v)'
  <2>1. CASE Begin(v, "signin", "count", p, NoVisit)
    <3>1. visit'[v].at = "count" /\ visit'[v].kind = "signin" /\ visit'[v].who = p
      BY <1>a, <2>1, Begins
    <3>. QED
      BY <3>1 DEF VisitInv, At, Who
  <2>2. CASE Begin(v, "reset", "look", p, NoVisit)
    <3>1. visit'[v].at = "look" /\ visit'[v].kind = "reset" /\ visit'[v].who = p
      BY <1>a, <2>2, Begins
    <3>. QED
      BY <3>1 DEF VisitInv, At, Who
  <2>3. CASE Begin(v, "confirm", "count", p, NoVisit)
    <3>1. visit'[v].at = "count" /\ visit'[v].kind = "confirm" /\ visit'[v].who = p
      BY <1>a, <2>3, Begins
    <3>. QED
      BY <3>1 DEF VisitInv, At, Who
  <2>. QED
    BY <1>1, <2>1, <2>2, <2>3 DEF AskLink
<1>2. ASSUME NEW p \in Email, SignUp(v, p) PROVE VisitInv(v)'
  BY <1>2, <1>a, <1>b, Begins DEF SignUp, At, VisitInv, At, Who
<1>3. ASSUME NEW p \in Email, NEW given \in Visit, EnterPassword(v, p, given) PROVE VisitInv(v)'
  BY <1>3, <1>a, <1>b, Begins DEF EnterPassword, At, VisitInv, At, Who
<1>4. ASSUME NEW p \in Email, NEW given \in Visit, ChangePassword(v, p, given) PROVE VisitInv(v)'
  <2>1. visit'[v].at = "write" /\ visit'[v].kind = "change" /\ visit'[v].who = p
    BY <1>4, <1>a, Begins DEF ChangePassword
  <2>. QED
    BY <2>1 DEF VisitInv, At, Who
<1>5. ASSUME NEW l \in Visit, Follow(v, l) PROVE VisitInv(v)'
  <2>1. Begin(v, "follow", "find", NoEmail, l)
    BY <1>5 DEF Follow
  <2>2. visit'[v].at = "find" /\ visit'[v].kind = "follow" /\ visit'[v].link = l
    BY <1>a, <2>1, Begins
  <2>3. links'[l].mailed
    BY <1>5 DEF Follow
  <2>. QED
    BY <2>2, <2>3 DEF VisitInv, At, Who
<1>6. ASSUME NEW s \in Visit, SignOut(v, s) PROVE VisitInv(v)'
  <2>. DEFINE p == sessions[s].of
  <2>1. p \in Email
    BY <1>6, <1>d DEF SignOut, SessionInv
  <2>2. Begin(v, "signout", "revoke", p, s)
    BY <1>6 DEF SignOut
  <2>. HIDE DEF p
  <2>3. visit'[v].at = "revoke" /\ visit'[v].kind = "signout" /\ visit'[v].who = p
    BY <1>a, <2>1, <2>2, Begins
  <2>. QED
    BY <2>1, <2>3 DEF VisitInv, At, Who
<1>7. ASSUME NEW s \in Visit, NEW p \in Email, Operate(v, s, p) PROVE VisitInv(v)'
  <2>1. ASSUME Begin(v, "operate", "revoke", p, NoVisit) PROVE VisitInv(v)'
    <3>1. visit'[v].at = "revoke" /\ visit'[v].kind = "operate" /\ visit'[v].who = p
      BY <1>a, <2>1, Begins
    <3>. QED
      BY <3>1 DEF VisitInv, At, Who
  <2>2. ASSUME NEW role \in {"user", "admin"}, BeginPromotion(v, p, role) PROVE VisitInv(v)'
    <3>1. visit'[v].at = "promote" /\ visit'[v].kind = "operate" /\ visit'[v].who = p
      BY <1>a, <2>2, BeginsPromotion
    <3>. QED
      BY <3>1 DEF VisitInv, At, Who
  <2>. QED
    BY <1>7, <2>1, <2>2 DEF Operate
<1>8. ASSUME LookForReset(v) PROVE VisitInv(v)'
  <2>1. CASE /\ Account(v).there /\ Goto(v, "count")
    BY <1>8, <2>1, <1>a, <1>b, GoesOn DEF LookForReset, At, Account, Who, VisitInv, At, Who
  <2>2. CASE End(v)
    BY <1>8, <2>2, <1>a, <1>b, Ends DEF LookForReset, At, Account, Who, VisitInv, At, Who
  <2>. QED
    BY <1>8, <2>1, <2>2 DEF LookForReset
<1>9. ASSUME CountRecent(v) PROVE VisitInv(v)'
  <2>1. CASE End(v) /\ UNCHANGED blind
    BY <1>9, <2>1, <1>a, <1>b, Ends DEF CountRecent, At, Who, VisitInv, At, Who
  <2>2. CASE /\ ~(Cardinality(RecentOf(Who(v))) >= PerWindow) /\ Goto(v, "create")
             /\ blind' = [blind EXCEPT ![v] = UnderWay(Who(v))]
    BY <1>9, <2>2, <1>a, <1>b, GoesOn DEF CountRecent, At, Who, VisitInv, At, Who
  <2>. QED
    BY <1>9, <2>1, <2>2 DEF CountRecent
<1>10. ASSUME CreateLink(v) PROVE VisitInv(v)'
  <2>1. /\ visit'[v].at = "mail" /\ visit'[v].kind = visit[v].kind
        /\ visit'[v].link = visit[v].link /\ visit'[v].who = visit[v].who
    BY <1>10, <1>a, GoesOn DEF CreateLink
  <2>2. visit[v].at = "create" /\ UNCHANGED <<signed, tardy>>
    BY <1>10 DEF CreateLink, At
  <2>. QED
    BY <1>b, <2>1, <2>2 DEF VisitInv, At, Who
<1>11. ASSUME Mail(v) PROVE VisitInv(v)'
  <2>1. /\ visit'[v].at = "end" /\ visit'[v].kind = visit[v].kind
        /\ visit'[v].link = visit[v].link /\ visit'[v].who = visit[v].who
    BY <1>11, <1>a, Ends DEF Mail
  <2>2. visit[v].at = "mail" /\ UNCHANGED <<signed, tardy>>
    BY <1>11 DEF Mail, At
  <2>. QED
    BY <1>b, <2>1, <2>2 DEF VisitInv, At, Who
<1>12. ASSUME FindLink(v) PROVE VisitInv(v)'
  <2>1. CASE Goto(v, "consume")
    BY <1>12, <2>1, <1>a, <1>b, GoesOn DEF FindLink, At, VisitInv, At, Who
  <2>2. CASE End(v)
    BY <1>12, <2>2, <1>a, <1>b, Ends DEF FindLink, At, VisitInv, At, Who
  <2>. QED
    BY <1>12, <2>1, <2>2 DEF FindLink
<1>13. ASSUME ConsumeLink(v) PROVE VisitInv(v)'
  <2>1. visit[v].kind = "follow" /\ visit[v].link \in Visit /\ links[visit[v].link].mailed
    BY <1>13, <1>b DEF ConsumeLink, VisitInv, At
  <2>. DEFINE l == visit[v].link  q == links[l].of
  <2>2. q \in Email
    <3>1. links[l] \in Link /\ LinkInv(l)
      BY <1>c, <1>d, <2>1 DEF TablesOK
    <3>2. q # NoEmail
      BY <2>1, <3>1 DEF LinkInv, NoLink
    <3>. QED
      BY <3>1, <3>2 DEF Link
  <2>3. \/ End(v) /\ UNCHANGED links
        \/ GotoAs(v, "ensure", q) /\ links' = [links EXCEPT ![l].by = v]
    BY <1>13 DEF ConsumeLink
  <2>4. CASE End(v) /\ UNCHANGED links
    <3>1. UNCHANGED <<signed, tardy>>
      BY <1>13 DEF ConsumeLink
    <3>. QED
      BY <1>a, <1>b, <2>4, <3>1, Ends DEF VisitInv, At, Who
  <2>5. CASE GotoAs(v, "ensure", q) /\ links' = [links EXCEPT ![l].by = v]
    <3>1. /\ visit'[v].at = "ensure" /\ visit'[v].kind = visit[v].kind
          /\ visit'[v].link = visit[v].link /\ visit'[v].who = q
      <4>. HIDE DEF q
      <4>. QED
        BY <1>a, <2>2, <2>5, GoesOnAs
    <3>2. links'[l].by = v /\ links'[l].mailed /\ links'[l].of = q
      <4>1. l \in Visit /\ links[l].mailed
        BY <2>1
      <4>. HIDE DEF l
      <4>. QED
        BY <1>c, <2>5, <4>1 DEF TablesOK, Link
    <3>3. v # NoVisit
      BY LoginAssumption
    <3>. HIDE DEF q
    <3>. QED
      BY <2>1, <2>2, <3>1, <3>2, <3>3 DEF VisitInv, At, Who
  <2>. QED
    BY <2>3, <2>4, <2>5
<1>14. ASSUME Ensure(v) PROVE VisitInv(v)'
  <2>1. visit[v].at \notin {"idle", "find", "consume", "end"}
    BY <1>14 DEF Ensure, At
  <2>2. Who(v) \in Email
    BY <1>b, <2>1 DEF VisitInv
  <2>3. Account(v).role \in {"user", "admin"}
    BY <1>c, <2>2 DEF Account, Who, TablesOK, User
  <2>4. PICK to \in {"insert", "verify", "sync"} :
          /\ GotoKnowing(v, to, Account(v).role) /\ (to = "verify" => visit[v].kind = "follow")
          /\ (to = "sync" /\ visit[v].kind = "signup" => v \in tardy')
    BY <1>14 DEF Ensure
  <2>5. /\ visit'[v].at = to /\ visit'[v].kind = visit[v].kind
        /\ visit'[v].link = visit[v].link /\ visit'[v].who = visit[v].who
    BY <1>a, <2>3, <2>4, GoesOnKnowing
  <2>6. UNCHANGED links /\ visit[v].at = "ensure"
    BY <1>14 DEF Ensure, At
  <2>. QED
    BY <1>b, <2>2, <2>4, <2>5, <2>6 DEF VisitInv, At, Who
<1>15. ASSUME InsertUser(v) PROVE VisitInv(v)'
  <2>1. visit[v].at = "insert" /\ UNCHANGED <<links, tardy>>
    BY <1>15 DEF InsertUser, At
  <2>2. \/ End(v) /\ UNCHANGED signed
        \/ Goto(v, "sync") /\ (visit[v].kind = "signup" => v \in signed')
    BY <1>15 DEF InsertUser
  <2>3. /\ visit'[v].at \in {"sync", "end"} /\ visit'[v].kind = visit[v].kind
        /\ visit'[v].link = visit[v].link /\ visit'[v].who = visit[v].who
        /\ visit'[v].at = "sync" /\ visit[v].kind = "signup" => v \in signed'
    BY <1>a, <2>2, Ends, GoesOn
  <2>. QED
    BY <1>b, <2>1, <2>3 DEF VisitInv, At, Who
<1>16. ASSUME MarkVerified(v) PROVE VisitInv(v)'
  BY <1>16, <1>a, <1>b, GoesOn DEF MarkVerified, At, Who, VisitInv, At, Who
<1>17. ASSUME SyncRole(v) PROVE VisitInv(v)'
  BY <1>17, <1>a, <1>b, GoesOn DEF SyncRole, At, Who, VisitInv, At, Who
<1>18. ASSUME OpenSession(v) PROVE VisitInv(v)'
  <2>1. CASE visit[v].kind = "signup" /\ ~Account(v).verified /\ Goto(v, "count")
    BY <1>18, <2>1, <1>a, <1>b, GoesOn DEF OpenSession, At, Account, Who, VisitInv, At, Who
  <2>2. CASE End(v)
    BY <1>18, <2>2, <1>a, <1>b, Ends DEF OpenSession, At, Account, Who, VisitInv, At, Who
  <2>. QED
    BY <1>18, <2>1, <2>2 DEF OpenSession
<1>19. ASSUME LookForSignUp(v) PROVE VisitInv(v)'
  <2>1. CASE End(v)
    BY <1>19, <2>1, <1>a, <1>b, Ends DEF LookForSignUp, At, Account, Who, VisitInv, At, Who
  <2>2. CASE Goto(v, "attach")
    BY <1>19, <2>2, <1>a, <1>b, GoesOn DEF LookForSignUp, At, Account, Who, VisitInv, At, Who
  <2>3. CASE Goto(v, "ensure")
    BY <1>19, <2>3, <1>a, <1>b, GoesOn DEF LookForSignUp, At, Account, Who, VisitInv, At, Who
  <2>. QED
    BY <1>19, <2>1, <2>2, <2>3 DEF LookForSignUp
<1>20. ASSUME AttachPassword(v) PROVE VisitInv(v)'
  <2>1. visit[v].at \notin {"idle", "find", "consume", "end"}
    BY <1>20 DEF AttachPassword, At
  <2>2. Who(v) \in Email
    BY <1>b, <2>1 DEF VisitInv
  <2>3. Account(v).role \in {"user", "admin"}
    BY <1>c, <2>2 DEF Account, Who, TablesOK, User
  <2>4. /\ visit'[v].at = "sync" /\ visit'[v].kind = visit[v].kind
        /\ visit'[v].link = visit[v].link /\ visit'[v].who = visit[v].who
    BY <1>20, <1>a, <2>3, GoesOnKnowing DEF AttachPassword
  <2>5. UNCHANGED links /\ v \in signed'
    BY <1>20 DEF AttachPassword
  <2>. QED
    BY <1>b, <2>2, <2>4, <2>5 DEF VisitInv, At, Who
<1>21. ASSUME LookAtFailures(v) PROVE VisitInv(v)'
  <2>1. visit[v].at \notin {"idle", "find", "consume", "end"}
    BY <1>21 DEF LookAtFailures, At
  <2>2. Who(v) \in Email
    BY <1>b, <2>1 DEF VisitInv
  <2>. DEFINE n == failures[Who(v)].n
  <2>3. n \in Tally
    BY <1>c, <2>2 DEF CountsOK
  <2>4. End(v) \/ GotoCounting(v, "check", n)
    BY <1>21 DEF LookAtFailures
  <2>. HIDE DEF n
  <2>5. /\ visit'[v].at \in {"check", "end"} /\ visit'[v].kind = visit[v].kind
        /\ visit'[v].link = visit[v].link /\ visit'[v].who = visit[v].who
    BY <1>a, <2>3, <2>4, Ends, GoesOnCounting
  <2>6. visit[v].at = "lock"
    BY <1>21 DEF LookAtFailures, At
  <2>8. UNCHANGED <<links, signed, tardy>>
    BY <1>21 DEF LookAtFailures
  <2>. QED
    BY <1>b, <2>2, <2>5, <2>6, <2>8 DEF VisitInv, At, Who
<1>22. ASSUME CheckPassword(v) PROVE VisitInv(v)'
  <2>1. visit[v].at \notin {"idle", "find", "consume", "end"}
    BY <1>22 DEF CheckPassword, At
  <2>2. Who(v) \in Email
    BY <1>b, <2>1 DEF VisitInv
  <2>3. Account(v).role \in {"user", "admin"}
    BY <1>c, <2>2 DEF Account, Who, TablesOK, User
  <2>4. End(v) \/ GotoKnowing(v, "clear", Account(v).role) \/ Goto(v, "fail")
    BY <1>22 DEF CheckPassword
  <2>5. /\ visit'[v].at \in {"clear", "fail", "end"} /\ visit'[v].kind = visit[v].kind
        /\ visit'[v].link = visit[v].link /\ visit'[v].who = visit[v].who
    BY <1>a, <2>3, <2>4, Ends, GoesOn, GoesOnKnowing
  <2>6. visit[v].at = "check"
    BY <1>22 DEF CheckPassword, At
  <2>8. UNCHANGED <<links, signed, tardy>>
    BY <1>22 DEF CheckPassword
  <2>. QED
    BY <1>b, <2>2, <2>5, <2>6, <2>8 DEF VisitInv, At, Who
<1>23. ASSUME CountFailure(v) PROVE VisitInv(v)'
  BY <1>23, <1>a, <1>b, Ends DEF CountFailure, At, Who, VisitInv, At, Who
<1>24. ASSUME ClearFailures(v) PROVE VisitInv(v)'
  <2>1. /\ visit'[v].at = "sync" /\ visit'[v].kind = visit[v].kind
        /\ visit'[v].link = visit[v].link /\ visit'[v].who = visit[v].who
    BY <1>24, <1>a, GoesOn DEF ClearFailures
  <2>2. visit[v].at = "clear"
    BY <1>24 DEF ClearFailures, At
  <2>8. UNCHANGED <<links, signed, tardy>>
    BY <1>24 DEF ClearFailures
  <2>. QED
    BY <1>b, <2>1, <2>2, <2>8 DEF VisitInv, At, Who
<1>25. ASSUME WritePassword(v) PROVE VisitInv(v)'
  BY <1>25, <1>a, <1>b, Ends DEF WritePassword, At, Who, VisitInv, At, Who
<1>26. ASSUME Revoke(v) PROVE VisitInv(v)'
  BY <1>26, <1>a, <1>b, Ends DEF Revoke, At, Live, Who, VisitInv, At, Who
<1>27. ASSUME SetRole(v) PROVE VisitInv(v)'
  BY <1>27, <1>a, <1>b, Ends DEF SetRole, At, Who, VisitInv, At, Who
<1>. QED
  BY <1>1, <1>2, <1>3, <1>4, <1>5, <1>6, <1>7, <1>8, <1>9, <1>10, <1>11, <1>12, <1>13, <1>14,
     <1>15, <1>16, <1>17, <1>18, <1>19, <1>20, <1>21, <1>22, <1>23, <1>24, <1>25, <1>26,
     <1>27 DEF Start, Continue

\* What no step of a request takes back.
LEMMA NothingTakenBack ==
  ASSUME LoginInv, NEW v \in Visit, Start(v) \/ Continue(v)
  PROVE  /\ \A l \in Visit : links[l].mailed =>
              /\ links'[l].mailed /\ links'[l].of = links[l].of
              /\ links[l].by # NoVisit => links'[l].by = links[l].by
         /\ signed \subseteq signed' /\ tardy \subseteq tardy'
<1>a. TablesOK /\ (\A l \in Visit : LinkInv(l)) /\ VisitInv(v)
  BY DEF LoginInv
<1>1. CASE CreateLink(v)
  <2>1. /\ ~links[v].mailed /\ UNCHANGED <<signed, tardy>>
        /\ \A l \in Visit \ {v} : links'[l] = links[l]
    BY <1>a, <1>1 DEF CreateLink, TablesOK, LinkInv, At
  <2>. QED
    BY <2>1
<1>2. CASE Mail(v)
  <2>1. /\ ~links[v].mailed /\ UNCHANGED <<signed, tardy>>
        /\ \A l \in Visit \ {v} : links'[l] = links[l]
    BY <1>a, <1>2 DEF Mail, TablesOK, LinkInv, At
  <2>. QED
    BY <2>1
<1>3. CASE ConsumeLink(v)
  <2>1. UNCHANGED <<signed, tardy>>
    BY <1>3 DEF ConsumeLink
  <2>2. \/ UNCHANGED links
        \/ links' = [links EXCEPT ![visit[v].link].by = v] /\ links[visit[v].link].by = NoVisit
    BY <1>3 DEF ConsumeLink
  <2>. QED
    BY <1>a, <2>1, <2>2 DEF TablesOK, Link
<1>4. CASE UNCHANGED links /\ signed \subseteq signed' /\ tardy \subseteq tardy'
  BY <1>4
<1>5. ASSUME NEW p \in Email, AskLink(v, p) PROVE UNCHANGED links /\ signed \subseteq signed' /\ tardy \subseteq tardy'
  BY <1>5 DEF AskLink
<1>6. ASSUME NEW p \in Email, SignUp(v, p) PROVE UNCHANGED links /\ signed \subseteq signed' /\ tardy \subseteq tardy'
  BY <1>6 DEF SignUp
<1>7. ASSUME NEW p \in Email, NEW given \in Visit, EnterPassword(v, p, given) PROVE UNCHANGED links /\ signed \subseteq signed' /\ tardy \subseteq tardy'
  BY <1>7 DEF EnterPassword
<1>8. ASSUME NEW p \in Email, NEW given \in Visit, ChangePassword(v, p, given) PROVE UNCHANGED links /\ signed \subseteq signed' /\ tardy \subseteq tardy'
  BY <1>8 DEF ChangePassword
<1>9. ASSUME NEW l \in Visit, Follow(v, l) PROVE UNCHANGED links /\ signed \subseteq signed' /\ tardy \subseteq tardy'
  BY <1>9 DEF Follow
<1>10. ASSUME NEW s \in Visit, SignOut(v, s) PROVE UNCHANGED links /\ signed \subseteq signed' /\ tardy \subseteq tardy'
  BY <1>10 DEF SignOut
<1>11. ASSUME NEW s \in Visit, NEW p \in Email, Operate(v, s, p) PROVE UNCHANGED links /\ signed \subseteq signed' /\ tardy \subseteq tardy'
  BY <1>11 DEF Operate
<1>12. ASSUME LookForReset(v) PROVE UNCHANGED links /\ signed \subseteq signed' /\ tardy \subseteq tardy'
  BY <1>12 DEF LookForReset
<1>13. ASSUME CountRecent(v) PROVE UNCHANGED links /\ signed \subseteq signed' /\ tardy \subseteq tardy'
  BY <1>13 DEF CountRecent
<1>14. ASSUME FindLink(v) PROVE UNCHANGED links /\ signed \subseteq signed' /\ tardy \subseteq tardy'
  BY <1>14 DEF FindLink
<1>15. ASSUME Ensure(v) PROVE UNCHANGED links /\ signed \subseteq signed' /\ tardy \subseteq tardy'
  BY <1>15 DEF Ensure
<1>16. ASSUME InsertUser(v) PROVE UNCHANGED links /\ signed \subseteq signed' /\ tardy \subseteq tardy'
  BY <1>16 DEF InsertUser
<1>17. ASSUME MarkVerified(v) PROVE UNCHANGED links /\ signed \subseteq signed' /\ tardy \subseteq tardy'
  BY <1>17 DEF MarkVerified
<1>18. ASSUME SyncRole(v) PROVE UNCHANGED links /\ signed \subseteq signed' /\ tardy \subseteq tardy'
  BY <1>18 DEF SyncRole
<1>19. ASSUME OpenSession(v) PROVE UNCHANGED links /\ signed \subseteq signed' /\ tardy \subseteq tardy'
  BY <1>19 DEF OpenSession
<1>20. ASSUME LookForSignUp(v) PROVE UNCHANGED links /\ signed \subseteq signed' /\ tardy \subseteq tardy'
  BY <1>20 DEF LookForSignUp
<1>21. ASSUME AttachPassword(v) PROVE UNCHANGED links /\ signed \subseteq signed' /\ tardy \subseteq tardy'
  BY <1>21 DEF AttachPassword
<1>22. ASSUME LookAtFailures(v) PROVE UNCHANGED links /\ signed \subseteq signed' /\ tardy \subseteq tardy'
  BY <1>22 DEF LookAtFailures
<1>23. ASSUME CheckPassword(v) PROVE UNCHANGED links /\ signed \subseteq signed' /\ tardy \subseteq tardy'
  BY <1>23 DEF CheckPassword
<1>24. ASSUME CountFailure(v) PROVE UNCHANGED links /\ signed \subseteq signed' /\ tardy \subseteq tardy'
  BY <1>24 DEF CountFailure
<1>25. ASSUME ClearFailures(v) PROVE UNCHANGED links /\ signed \subseteq signed' /\ tardy \subseteq tardy'
  BY <1>25 DEF ClearFailures
<1>26. ASSUME WritePassword(v) PROVE UNCHANGED links /\ signed \subseteq signed' /\ tardy \subseteq tardy'
  BY <1>26 DEF WritePassword
<1>27. ASSUME Revoke(v) PROVE UNCHANGED links /\ signed \subseteq signed' /\ tardy \subseteq tardy'
  BY <1>27 DEF Revoke
<1>28. ASSUME SetRole(v) PROVE UNCHANGED links /\ signed \subseteq signed' /\ tardy \subseteq tardy'
  BY <1>28 DEF SetRole
<1>. QED
  BY <1>1, <1>2, <1>3, <1>4, <1>5, <1>6, <1>7, <1>8, <1>9, <1>10, <1>11, <1>12, <1>13, <1>14,
     <1>15, <1>16, <1>17, <1>18, <1>19, <1>20, <1>21, <1>22, <1>23, <1>24, <1>25, <1>26, <1>27,
     <1>28 DEF Start, Continue

\* Every step keeps what each request knows true.
LEMMA VisitStep ==
  ASSUME LoginInv, [LoginNext]_loginVars, NEW x \in Visit
  PROVE  VisitInv(x)'
<1>a. VisitsOK /\ VisitInv(x)
  BY DEF LoginInv
<1>1. ASSUME NEW v \in Visit, Start(v) \/ Continue(v) PROVE VisitInv(x)'
  <2>1. CASE x = v
    BY <1>1, <2>1, OwnStep
  <2>2. CASE x # v
    <3>1. visit'[x] = visit[x]
      BY <1>a, <1>1, <2>2, OthersWait
    <3>2. /\ visit[x].link \in Visit /\ links[visit[x].link].mailed =>
               /\ links'[visit[x].link].mailed
               /\ links'[visit[x].link].of = links[visit[x].link].of
               /\ links[visit[x].link].by # NoVisit => links'[visit[x].link].by # NoVisit
          /\ signed \subseteq signed' /\ tardy \subseteq tardy'
      BY <1>1, NothingTakenBack
    <3>. QED
      BY <1>a, <3>1, <3>2 DEF VisitInv, At, Who
  <2>. QED
    BY <2>1, <2>2
<1>2. CASE Clock \/ UNCHANGED loginVars
  <2>1. UNCHANGED <<visit, signed, tardy>>
    BY <1>2 DEF Clock, LinkExpires, HourPasses, LockLapses, loginVars
  <2>2. \A l \in Visit : /\ links'[l].mailed = links[l].mailed /\ links'[l].of = links[l].of
                         /\ links'[l].by = links[l].by
    <3>1. TablesOK
      BY DEF LoginInv
    <3>. QED
      BY <1>2, <3>1 DEF Clock, LinkExpires, HourPasses, LockLapses, loginVars, TablesOK, Link
  <2>. QED
    BY <1>a, <2>1, <2>2 DEF VisitInv, At, Who
<1>3. CASE LoginRestart
  <2>1. UNCHANGED <<links, signed, tardy>>
    BY <1>3 DEF LoginRestart
  <2>. QED
    BY <1>a, <1>3, <2>1, Restarts DEF VisitInv, At, Who
<1>. QED
  BY <1>1, <1>2, <1>3 DEF LoginNext

\* Every step keeps the accounts in their type.
LEMMA UsersStep ==
  ASSUME LoginInv, [LoginNext]_loginVars
  PROVE  users' \in [Email -> User]
<1>a. users \in [Email -> User] /\ VisitsOK
  BY DEF LoginInv, TablesOK
<1>. USE DEF User
<1>1. ASSUME NEW v \in Visit, NEW p \in Email, AskLink(v, p) PROVE users' \in [Email -> User]
  BY <1>1, <1>a DEF AskLink
<1>2. ASSUME NEW v \in Visit, NEW p \in Email, SignUp(v, p) PROVE users' \in [Email -> User]
  BY <1>2, <1>a DEF SignUp
<1>3. ASSUME NEW v \in Visit, NEW p \in Email, NEW given \in Visit, EnterPassword(v, p, given) PROVE users' \in [Email -> User]
  BY <1>3, <1>a DEF EnterPassword
<1>4. ASSUME NEW v \in Visit, NEW p \in Email, NEW given \in Visit, ChangePassword(v, p, given) PROVE users' \in [Email -> User]
  BY <1>4, <1>a DEF ChangePassword
<1>5. ASSUME NEW v \in Visit, NEW l \in Visit, Follow(v, l) PROVE users' \in [Email -> User]
  BY <1>5, <1>a DEF Follow
<1>6. ASSUME NEW v \in Visit, NEW s \in Visit, SignOut(v, s) PROVE users' \in [Email -> User]
  BY <1>6, <1>a DEF SignOut
<1>7. ASSUME NEW v \in Visit, NEW s \in Visit, NEW p \in Email, Operate(v, s, p) PROVE users' \in [Email -> User]
  BY <1>7, <1>a DEF Operate
<1>8. ASSUME NEW v \in Visit, LookForReset(v) PROVE users' \in [Email -> User]
  BY <1>8, <1>a DEF LookForReset
<1>9. ASSUME NEW v \in Visit, CountRecent(v) PROVE users' \in [Email -> User]
  BY <1>9, <1>a DEF CountRecent
<1>10. ASSUME NEW v \in Visit, CreateLink(v) PROVE users' \in [Email -> User]
  BY <1>10, <1>a DEF CreateLink
<1>11. ASSUME NEW v \in Visit, Mail(v) PROVE users' \in [Email -> User]
  BY <1>11, <1>a DEF Mail
<1>12. ASSUME NEW v \in Visit, FindLink(v) PROVE users' \in [Email -> User]
  BY <1>12, <1>a DEF FindLink
<1>13. ASSUME NEW v \in Visit, ConsumeLink(v) PROVE users' \in [Email -> User]
  BY <1>13, <1>a DEF ConsumeLink
<1>14. ASSUME NEW v \in Visit, Ensure(v) PROVE users' \in [Email -> User]
  BY <1>14, <1>a DEF Ensure
<1>15. ASSUME NEW v \in Visit, InsertUser(v) PROVE users' \in [Email -> User]
  <2>. DEFINE r == [there |-> TRUE, role |-> "user", verified |-> visit[v].kind = "follow",
                   pass |-> IF visit[v].kind = "signup" THEN v ELSE NoVisit]
  <2>1. r \in User
    <3>1. (visit[v].kind = "follow") \in BOOLEAN
      OBVIOUS
    <3>. QED
      BY <3>1 DEF User
  <2>2. UNCHANGED users \/ users' = [users EXCEPT ![Who(v)] = r]
    BY <1>15 DEF InsertUser
  <2>. HIDE DEF r
  <2>. QED
    BY <1>a, <2>1, <2>2
<1>16. ASSUME NEW v \in Visit, MarkVerified(v) PROVE users' \in [Email -> User]
  BY <1>16, <1>a DEF MarkVerified
<1>17. ASSUME NEW v \in Visit, SyncRole(v) PROVE users' \in [Email -> User]
  BY ZenonT(40), <1>17, <1>a DEF SyncRole
<1>18. ASSUME NEW v \in Visit, OpenSession(v) PROVE users' \in [Email -> User]
  BY <1>18, <1>a DEF OpenSession
<1>19. ASSUME NEW v \in Visit, LookForSignUp(v) PROVE users' \in [Email -> User]
  BY <1>19, <1>a DEF LookForSignUp
<1>20. ASSUME NEW v \in Visit, AttachPassword(v) PROVE users' \in [Email -> User]
  BY <1>20, <1>a DEF AttachPassword
<1>21. ASSUME NEW v \in Visit, LookAtFailures(v) PROVE users' \in [Email -> User]
  BY <1>21, <1>a DEF LookAtFailures
<1>22. ASSUME NEW v \in Visit, CheckPassword(v) PROVE users' \in [Email -> User]
  BY <1>22, <1>a DEF CheckPassword
<1>23. ASSUME NEW v \in Visit, CountFailure(v) PROVE users' \in [Email -> User]
  BY <1>23, <1>a DEF CountFailure
<1>24. ASSUME NEW v \in Visit, ClearFailures(v) PROVE users' \in [Email -> User]
  BY <1>24, <1>a DEF ClearFailures
<1>25. ASSUME NEW v \in Visit, WritePassword(v) PROVE users' \in [Email -> User]
  BY <1>25, <1>a DEF WritePassword
<1>26. ASSUME NEW v \in Visit, Revoke(v) PROVE users' \in [Email -> User]
  BY <1>26, <1>a DEF Revoke
<1>27. ASSUME NEW v \in Visit, SetRole(v) PROVE users' \in [Email -> User]
  <2>1. visit[v].role \in {"user", "admin"}
    BY <1>a DEF VisitsOK, Request
  <2>. QED
    BY <1>27, <1>a, <2>1 DEF SetRole
<1>28. ASSUME NEW l \in Visit, LinkExpires(l) PROVE users' \in [Email -> User]
  BY <1>28, <1>a DEF LinkExpires
<1>29. ASSUME NEW l \in Visit, HourPasses(l) PROVE users' \in [Email -> User]
  BY <1>29, <1>a DEF HourPasses
<1>30. ASSUME NEW p \in Email, LockLapses(p) PROVE users' \in [Email -> User]
  BY <1>30, <1>a DEF LockLapses
<1>31. CASE LoginRestart
  BY <1>31, <1>a DEF LoginRestart
<1>32. CASE UNCHANGED loginVars
  BY <1>32, <1>a DEF loginVars
<1>. QED
  BY <1>1, <1>2, <1>3, <1>4, <1>5, <1>6, <1>7, <1>8, <1>9, <1>10, <1>11, <1>12, <1>13, <1>14,
     <1>15, <1>16, <1>17, <1>18, <1>19, <1>20, <1>21, <1>22, <1>23, <1>24, <1>25, <1>26, <1>27,
     <1>28, <1>29, <1>30, <1>31, <1>32 DEF LoginNext, Start, Continue, Clock

\* Every step keeps the links in their type.
LEMMA LinksStep ==
  ASSUME LoginInv, [LoginNext]_loginVars
  PROVE  links' \in [Visit -> Link] /\ recent' \in SUBSET Visit
<1>a. links \in [Visit -> Link] /\ recent \in SUBSET Visit
  BY DEF LoginInv, TablesOK
<1>b. VisitsOK /\ (\A x \in Visit : VisitInv(x))
  BY DEF LoginInv
<1>. USE DEF Link
<1>1. ASSUME NEW v \in Visit, NEW p \in Email, AskLink(v, p) PROVE links' \in [Visit -> Link] /\ recent' \in SUBSET Visit
  BY <1>1, <1>a, <1>b DEF AskLink
<1>2. ASSUME NEW v \in Visit, NEW p \in Email, SignUp(v, p) PROVE links' \in [Visit -> Link] /\ recent' \in SUBSET Visit
  BY <1>2, <1>a, <1>b DEF SignUp
<1>3. ASSUME NEW v \in Visit, NEW p \in Email, NEW given \in Visit, EnterPassword(v, p, given) PROVE links' \in [Visit -> Link] /\ recent' \in SUBSET Visit
  BY <1>3, <1>a, <1>b DEF EnterPassword
<1>4. ASSUME NEW v \in Visit, NEW p \in Email, NEW given \in Visit, ChangePassword(v, p, given) PROVE links' \in [Visit -> Link] /\ recent' \in SUBSET Visit
  BY <1>4, <1>a, <1>b DEF ChangePassword
<1>5. ASSUME NEW v \in Visit, NEW l \in Visit, Follow(v, l) PROVE links' \in [Visit -> Link] /\ recent' \in SUBSET Visit
  BY <1>5, <1>a, <1>b DEF Follow
<1>6. ASSUME NEW v \in Visit, NEW s \in Visit, SignOut(v, s) PROVE links' \in [Visit -> Link] /\ recent' \in SUBSET Visit
  BY <1>6, <1>a, <1>b DEF SignOut
<1>7. ASSUME NEW v \in Visit, NEW s \in Visit, NEW p \in Email, Operate(v, s, p) PROVE links' \in [Visit -> Link] /\ recent' \in SUBSET Visit
  BY <1>7, <1>a, <1>b DEF Operate
<1>8. ASSUME NEW v \in Visit, LookForReset(v) PROVE links' \in [Visit -> Link] /\ recent' \in SUBSET Visit
  BY <1>8, <1>a, <1>b DEF LookForReset
<1>9. ASSUME NEW v \in Visit, CountRecent(v) PROVE links' \in [Visit -> Link] /\ recent' \in SUBSET Visit
  BY <1>9, <1>a, <1>b DEF CountRecent
<1>10. ASSUME NEW v \in Visit, CreateLink(v) PROVE links' \in [Visit -> Link] /\ recent' \in SUBSET Visit
  <2>1. Who(v) \in Email \cup {NoEmail}
    BY <1>b DEF VisitsOK, Request, Who
  <2>. QED
    BY <1>10, <1>a, <2>1 DEF CreateLink
<1>11. ASSUME NEW v \in Visit, Mail(v) PROVE links' \in [Visit -> Link] /\ recent' \in SUBSET Visit
  BY <1>11, <1>a, <1>b DEF Mail
<1>12. ASSUME NEW v \in Visit, FindLink(v) PROVE links' \in [Visit -> Link] /\ recent' \in SUBSET Visit
  BY <1>12, <1>a, <1>b DEF FindLink
<1>13. ASSUME NEW v \in Visit, ConsumeLink(v) PROVE links' \in [Visit -> Link] /\ recent' \in SUBSET Visit
  BY <1>13, <1>a, <1>b DEF ConsumeLink
<1>14. ASSUME NEW v \in Visit, Ensure(v) PROVE links' \in [Visit -> Link] /\ recent' \in SUBSET Visit
  BY <1>14, <1>a, <1>b DEF Ensure
<1>15. ASSUME NEW v \in Visit, InsertUser(v) PROVE links' \in [Visit -> Link] /\ recent' \in SUBSET Visit
  BY <1>15, <1>a, <1>b DEF InsertUser
<1>16. ASSUME NEW v \in Visit, MarkVerified(v) PROVE links' \in [Visit -> Link] /\ recent' \in SUBSET Visit
  BY <1>16, <1>a, <1>b DEF MarkVerified
<1>17. ASSUME NEW v \in Visit, SyncRole(v) PROVE links' \in [Visit -> Link] /\ recent' \in SUBSET Visit
  BY <1>17, <1>a, <1>b DEF SyncRole
<1>18. ASSUME NEW v \in Visit, OpenSession(v) PROVE links' \in [Visit -> Link] /\ recent' \in SUBSET Visit
  BY <1>18, <1>a, <1>b DEF OpenSession
<1>19. ASSUME NEW v \in Visit, LookForSignUp(v) PROVE links' \in [Visit -> Link] /\ recent' \in SUBSET Visit
  BY <1>19, <1>a, <1>b DEF LookForSignUp
<1>20. ASSUME NEW v \in Visit, AttachPassword(v) PROVE links' \in [Visit -> Link] /\ recent' \in SUBSET Visit
  BY <1>20, <1>a, <1>b DEF AttachPassword
<1>21. ASSUME NEW v \in Visit, LookAtFailures(v) PROVE links' \in [Visit -> Link] /\ recent' \in SUBSET Visit
  BY <1>21, <1>a, <1>b DEF LookAtFailures
<1>22. ASSUME NEW v \in Visit, CheckPassword(v) PROVE links' \in [Visit -> Link] /\ recent' \in SUBSET Visit
  BY <1>22, <1>a, <1>b DEF CheckPassword
<1>23. ASSUME NEW v \in Visit, CountFailure(v) PROVE links' \in [Visit -> Link] /\ recent' \in SUBSET Visit
  BY <1>23, <1>a, <1>b DEF CountFailure
<1>24. ASSUME NEW v \in Visit, ClearFailures(v) PROVE links' \in [Visit -> Link] /\ recent' \in SUBSET Visit
  BY <1>24, <1>a, <1>b DEF ClearFailures
<1>25. ASSUME NEW v \in Visit, WritePassword(v) PROVE links' \in [Visit -> Link] /\ recent' \in SUBSET Visit
  BY <1>25, <1>a, <1>b DEF WritePassword
<1>26. ASSUME NEW v \in Visit, Revoke(v) PROVE links' \in [Visit -> Link] /\ recent' \in SUBSET Visit
  BY <1>26, <1>a, <1>b DEF Revoke
<1>27. ASSUME NEW v \in Visit, SetRole(v) PROVE links' \in [Visit -> Link] /\ recent' \in SUBSET Visit
  BY <1>27, <1>a, <1>b DEF SetRole
<1>28. ASSUME NEW l \in Visit, LinkExpires(l) PROVE links' \in [Visit -> Link] /\ recent' \in SUBSET Visit
  BY ZenonT(40), <1>28, <1>a, <1>b DEF LinkExpires
<1>29. ASSUME NEW l \in Visit, HourPasses(l) PROVE links' \in [Visit -> Link] /\ recent' \in SUBSET Visit
  BY <1>29, <1>a, <1>b DEF HourPasses
<1>30. ASSUME NEW p \in Email, LockLapses(p) PROVE links' \in [Visit -> Link] /\ recent' \in SUBSET Visit
  BY <1>30, <1>a, <1>b DEF LockLapses
<1>31. CASE LoginRestart
  BY <1>31, <1>a, <1>b DEF LoginRestart
<1>32. CASE UNCHANGED loginVars
  BY <1>32, <1>a, <1>b DEF loginVars
<1>. QED
  BY <1>1, <1>2, <1>3, <1>4, <1>5, <1>6, <1>7, <1>8, <1>9, <1>10, <1>11, <1>12, <1>13, <1>14,
     <1>15, <1>16, <1>17, <1>18, <1>19, <1>20, <1>21, <1>22, <1>23, <1>24, <1>25, <1>26, <1>27,
     <1>28, <1>29, <1>30, <1>31, <1>32 DEF LoginNext, Start, Continue, Clock

\* Every step keeps the sessions in their type.
LEMMA SessionsStep ==
  ASSUME LoginInv, [LoginNext]_loginVars
  PROVE  sessions' \in [Visit -> Session]
<1>a. sessions \in [Visit -> Session]
  BY DEF LoginInv, TablesOK
<1>b. VisitsOK
  BY DEF LoginInv
<1>. USE DEF Session
<1>1. ASSUME NEW v \in Visit, NEW p \in Email, AskLink(v, p) PROVE sessions' \in [Visit -> Session]
  BY <1>1, <1>a, <1>b DEF AskLink
<1>2. ASSUME NEW v \in Visit, NEW p \in Email, SignUp(v, p) PROVE sessions' \in [Visit -> Session]
  BY <1>2, <1>a, <1>b DEF SignUp
<1>3. ASSUME NEW v \in Visit, NEW p \in Email, NEW given \in Visit, EnterPassword(v, p, given) PROVE sessions' \in [Visit -> Session]
  BY <1>3, <1>a, <1>b DEF EnterPassword
<1>4. ASSUME NEW v \in Visit, NEW p \in Email, NEW given \in Visit, ChangePassword(v, p, given) PROVE sessions' \in [Visit -> Session]
  BY <1>4, <1>a, <1>b DEF ChangePassword
<1>5. ASSUME NEW v \in Visit, NEW l \in Visit, Follow(v, l) PROVE sessions' \in [Visit -> Session]
  BY <1>5, <1>a, <1>b DEF Follow
<1>6. ASSUME NEW v \in Visit, NEW s \in Visit, SignOut(v, s) PROVE sessions' \in [Visit -> Session]
  BY <1>6, <1>a, <1>b DEF SignOut
<1>7. ASSUME NEW v \in Visit, NEW s \in Visit, NEW p \in Email, Operate(v, s, p) PROVE sessions' \in [Visit -> Session]
  BY <1>7, <1>a, <1>b DEF Operate
<1>8. ASSUME NEW v \in Visit, LookForReset(v) PROVE sessions' \in [Visit -> Session]
  BY <1>8, <1>a, <1>b DEF LookForReset
<1>9. ASSUME NEW v \in Visit, CountRecent(v) PROVE sessions' \in [Visit -> Session]
  BY <1>9, <1>a, <1>b DEF CountRecent
<1>10. ASSUME NEW v \in Visit, CreateLink(v) PROVE sessions' \in [Visit -> Session]
  BY <1>10, <1>a, <1>b DEF CreateLink
<1>11. ASSUME NEW v \in Visit, Mail(v) PROVE sessions' \in [Visit -> Session]
  BY <1>11, <1>a, <1>b DEF Mail
<1>12. ASSUME NEW v \in Visit, FindLink(v) PROVE sessions' \in [Visit -> Session]
  BY <1>12, <1>a, <1>b DEF FindLink
<1>13. ASSUME NEW v \in Visit, ConsumeLink(v) PROVE sessions' \in [Visit -> Session]
  BY <1>13, <1>a, <1>b DEF ConsumeLink
<1>14. ASSUME NEW v \in Visit, Ensure(v) PROVE sessions' \in [Visit -> Session]
  BY <1>14, <1>a, <1>b DEF Ensure
<1>15. ASSUME NEW v \in Visit, InsertUser(v) PROVE sessions' \in [Visit -> Session]
  BY <1>15, <1>a, <1>b DEF InsertUser
<1>16. ASSUME NEW v \in Visit, MarkVerified(v) PROVE sessions' \in [Visit -> Session]
  BY <1>16, <1>a, <1>b DEF MarkVerified
<1>17. ASSUME NEW v \in Visit, SyncRole(v) PROVE sessions' \in [Visit -> Session]
  BY <1>17, <1>a, <1>b DEF SyncRole
<1>18. ASSUME NEW v \in Visit, OpenSession(v) PROVE sessions' \in [Visit -> Session]
  <2>1. Who(v) \in Email \cup {NoEmail}
    BY <1>b DEF VisitsOK, Request, Who
  <2>. QED
    BY <1>18, <1>a, <2>1 DEF OpenSession
<1>19. ASSUME NEW v \in Visit, LookForSignUp(v) PROVE sessions' \in [Visit -> Session]
  BY <1>19, <1>a, <1>b DEF LookForSignUp
<1>20. ASSUME NEW v \in Visit, AttachPassword(v) PROVE sessions' \in [Visit -> Session]
  BY <1>20, <1>a, <1>b DEF AttachPassword
<1>21. ASSUME NEW v \in Visit, LookAtFailures(v) PROVE sessions' \in [Visit -> Session]
  BY <1>21, <1>a, <1>b DEF LookAtFailures
<1>22. ASSUME NEW v \in Visit, CheckPassword(v) PROVE sessions' \in [Visit -> Session]
  BY <1>22, <1>a, <1>b DEF CheckPassword
<1>23. ASSUME NEW v \in Visit, CountFailure(v) PROVE sessions' \in [Visit -> Session]
  BY <1>23, <1>a, <1>b DEF CountFailure
<1>24. ASSUME NEW v \in Visit, ClearFailures(v) PROVE sessions' \in [Visit -> Session]
  BY <1>24, <1>a, <1>b DEF ClearFailures
<1>25. ASSUME NEW v \in Visit, WritePassword(v) PROVE sessions' \in [Visit -> Session]
  BY <1>25, <1>a, <1>b DEF WritePassword
<1>26. ASSUME NEW v \in Visit, Revoke(v) PROVE sessions' \in [Visit -> Session]
  BY <1>26, <1>a, <1>b DEF Revoke
<1>27. ASSUME NEW v \in Visit, SetRole(v) PROVE sessions' \in [Visit -> Session]
  BY <1>27, <1>a, <1>b DEF SetRole
<1>28. ASSUME NEW l \in Visit, LinkExpires(l) PROVE sessions' \in [Visit -> Session]
  BY <1>28, <1>a, <1>b DEF LinkExpires
<1>29. ASSUME NEW l \in Visit, HourPasses(l) PROVE sessions' \in [Visit -> Session]
  BY <1>29, <1>a, <1>b DEF HourPasses
<1>30. ASSUME NEW p \in Email, LockLapses(p) PROVE sessions' \in [Visit -> Session]
  BY <1>30, <1>a, <1>b DEF LockLapses
<1>31. CASE LoginRestart
  BY <1>31, <1>a, <1>b DEF LoginRestart
<1>32. CASE UNCHANGED loginVars
  BY <1>32, <1>a, <1>b DEF loginVars
<1>. QED
  BY <1>1, <1>2, <1>3, <1>4, <1>5, <1>6, <1>7, <1>8, <1>9, <1>10, <1>11, <1>12, <1>13, <1>14,
     <1>15, <1>16, <1>17, <1>18, <1>19, <1>20, <1>21, <1>22, <1>23, <1>24, <1>25, <1>26, <1>27,
     <1>28, <1>29, <1>30, <1>31, <1>32 DEF LoginNext, Start, Continue, Clock

\* Every step keeps the counts of failures in their types.
LEMMA CountsStep ==
  ASSUME LoginInv, [LoginNext]_loginVars
  PROVE  CountsOK'
<1>a. CountsOK
  BY DEF LoginInv
<1>b. VisitsOK
  BY DEF LoginInv
<1>. USE DEF CountsOK, Tally
<1>1. ASSUME NEW v \in Visit, NEW p \in Email, AskLink(v, p) PROVE CountsOK'
  BY <1>1, <1>a, <1>b DEF AskLink
<1>2. ASSUME NEW v \in Visit, NEW p \in Email, SignUp(v, p) PROVE CountsOK'
  BY <1>2, <1>a, <1>b DEF SignUp
<1>3. ASSUME NEW v \in Visit, NEW p \in Email, NEW given \in Visit, EnterPassword(v, p, given) PROVE CountsOK'
  BY <1>3, <1>a, <1>b DEF EnterPassword
<1>4. ASSUME NEW v \in Visit, NEW p \in Email, NEW given \in Visit, ChangePassword(v, p, given) PROVE CountsOK'
  BY <1>4, <1>a, <1>b DEF ChangePassword
<1>5. ASSUME NEW v \in Visit, NEW l \in Visit, Follow(v, l) PROVE CountsOK'
  BY <1>5, <1>a, <1>b DEF Follow
<1>6. ASSUME NEW v \in Visit, NEW s \in Visit, SignOut(v, s) PROVE CountsOK'
  BY <1>6, <1>a, <1>b DEF SignOut
<1>7. ASSUME NEW v \in Visit, NEW s \in Visit, NEW p \in Email, Operate(v, s, p) PROVE CountsOK'
  BY <1>7, <1>a, <1>b DEF Operate
<1>8. ASSUME NEW v \in Visit, LookForReset(v) PROVE CountsOK'
  BY <1>8, <1>a, <1>b DEF LookForReset
<1>9. ASSUME NEW v \in Visit, CountRecent(v) PROVE CountsOK'
  BY <1>9, <1>a, <1>b DEF CountRecent
<1>10. ASSUME NEW v \in Visit, CreateLink(v) PROVE CountsOK'
  BY <1>10, <1>a, <1>b DEF CreateLink
<1>11. ASSUME NEW v \in Visit, Mail(v) PROVE CountsOK'
  BY <1>11, <1>a, <1>b DEF Mail
<1>12. ASSUME NEW v \in Visit, FindLink(v) PROVE CountsOK'
  BY <1>12, <1>a, <1>b DEF FindLink
<1>13. ASSUME NEW v \in Visit, ConsumeLink(v) PROVE CountsOK'
  BY <1>13, <1>a, <1>b DEF ConsumeLink
<1>14. ASSUME NEW v \in Visit, Ensure(v) PROVE CountsOK'
  BY <1>14, <1>a, <1>b DEF Ensure
<1>15. ASSUME NEW v \in Visit, InsertUser(v) PROVE CountsOK'
  BY <1>15, <1>a, <1>b DEF InsertUser
<1>16. ASSUME NEW v \in Visit, MarkVerified(v) PROVE CountsOK'
  BY <1>16, <1>a, <1>b DEF MarkVerified
<1>17. ASSUME NEW v \in Visit, SyncRole(v) PROVE CountsOK'
  BY <1>17, <1>a, <1>b DEF SyncRole
<1>18. ASSUME NEW v \in Visit, OpenSession(v) PROVE CountsOK'
  BY <1>18, <1>a, <1>b DEF OpenSession
<1>19. ASSUME NEW v \in Visit, LookForSignUp(v) PROVE CountsOK'
  BY <1>19, <1>a, <1>b DEF LookForSignUp
<1>20. ASSUME NEW v \in Visit, AttachPassword(v) PROVE CountsOK'
  BY <1>20, <1>a, <1>b DEF AttachPassword
<1>21. ASSUME NEW v \in Visit, LookAtFailures(v) PROVE CountsOK'
  BY <1>21, <1>a, <1>b DEF LookAtFailures
<1>22. ASSUME NEW v \in Visit, CheckPassword(v) PROVE CountsOK'
  BY <1>22, <1>a, <1>b DEF CheckPassword
<1>23. ASSUME NEW v \in Visit, CountFailure(v) PROVE CountsOK'
  <2>. DEFINE r == [n |-> visit[v].tries + 1, fresh |-> TRUE]
  <2>1. r \in [n : Nat, fresh : BOOLEAN]
    BY <1>b DEF VisitsOK, Request
  <2>2. failures' = [failures EXCEPT ![Who(v)] = r] /\ UNCHANGED wrong
    BY <1>23 DEF CountFailure
  <2>. HIDE DEF r
  <2>. QED
    BY <1>a, <2>1, <2>2
<1>24. ASSUME NEW v \in Visit, ClearFailures(v) PROVE CountsOK'
  BY <1>24, <1>a, <1>b DEF ClearFailures
<1>25. ASSUME NEW v \in Visit, WritePassword(v) PROVE CountsOK'
  BY <1>25, <1>a, <1>b DEF WritePassword
<1>26. ASSUME NEW v \in Visit, Revoke(v) PROVE CountsOK'
  BY <1>26, <1>a, <1>b DEF Revoke
<1>27. ASSUME NEW v \in Visit, SetRole(v) PROVE CountsOK'
  BY <1>27, <1>a, <1>b DEF SetRole
<1>28. ASSUME NEW l \in Visit, LinkExpires(l) PROVE CountsOK'
  BY <1>28, <1>a, <1>b DEF LinkExpires
<1>29. ASSUME NEW l \in Visit, HourPasses(l) PROVE CountsOK'
  BY <1>29, <1>a, <1>b DEF HourPasses
<1>30. ASSUME NEW p \in Email, LockLapses(p) PROVE CountsOK'
  BY <1>30, <1>a, <1>b DEF LockLapses
<1>31. CASE LoginRestart
  BY <1>31, <1>a, <1>b DEF LoginRestart
<1>32. CASE UNCHANGED loginVars
  BY <1>32, <1>a, <1>b DEF loginVars
<1>. QED
  BY <1>1, <1>2, <1>3, <1>4, <1>5, <1>6, <1>7, <1>8, <1>9, <1>10, <1>11, <1>12, <1>13, <1>14,
     <1>15, <1>16, <1>17, <1>18, <1>19, <1>20, <1>21, <1>22, <1>23, <1>24, <1>25, <1>26, <1>27,
     <1>28, <1>29, <1>30, <1>31, <1>32 DEF LoginNext, Start, Continue, Clock

\* Every step keeps the histories in their types, and a finite number of links is recent.
LEMMA NotesStep ==
  ASSUME LoginInv, [LoginNext]_loginVars
  PROVE  NotesOK' /\ IsFiniteSet(recent)'
<1>a. NotesOK /\ IsFiniteSet(recent)
  BY DEF LoginInv
<1>. USE DEF NotesOK
<1>1. ASSUME NEW v \in Visit, NEW p \in Email, AskLink(v, p) PROVE NotesOK' /\ IsFiniteSet(recent)'
  BY <1>1, <1>a DEF AskLink
<1>2. ASSUME NEW v \in Visit, NEW p \in Email, SignUp(v, p) PROVE NotesOK' /\ IsFiniteSet(recent)'
  BY <1>2, <1>a DEF SignUp
<1>3. ASSUME NEW v \in Visit, NEW p \in Email, NEW given \in Visit, EnterPassword(v, p, given) PROVE NotesOK' /\ IsFiniteSet(recent)'
  BY <1>3, <1>a DEF EnterPassword
<1>4. ASSUME NEW v \in Visit, NEW p \in Email, NEW given \in Visit, ChangePassword(v, p, given) PROVE NotesOK' /\ IsFiniteSet(recent)'
  BY <1>4, <1>a DEF ChangePassword
<1>5. ASSUME NEW v \in Visit, NEW l \in Visit, Follow(v, l) PROVE NotesOK' /\ IsFiniteSet(recent)'
  BY <1>5, <1>a DEF Follow
<1>6. ASSUME NEW v \in Visit, NEW s \in Visit, SignOut(v, s) PROVE NotesOK' /\ IsFiniteSet(recent)'
  BY <1>6, <1>a DEF SignOut
<1>7. ASSUME NEW v \in Visit, NEW s \in Visit, NEW p \in Email, Operate(v, s, p) PROVE NotesOK' /\ IsFiniteSet(recent)'
  BY <1>7, <1>a DEF Operate
<1>8. ASSUME NEW v \in Visit, LookForReset(v) PROVE NotesOK' /\ IsFiniteSet(recent)'
  BY <1>8, <1>a DEF LookForReset
<1>9. ASSUME NEW v \in Visit, CountRecent(v) PROVE NotesOK' /\ IsFiniteSet(recent)'
  <2>1. UnderWay(Who(v)) \subseteq Visit
    BY DEF UnderWay
  <2>. QED
    BY <1>9, <1>a, <2>1 DEF CountRecent
<1>10. ASSUME NEW v \in Visit, CreateLink(v) PROVE NotesOK' /\ IsFiniteSet(recent)'
  <2>1. recent' = recent \cup {v} /\ UNCHANGED <<listed, blind, signed, tardy>>
    BY <1>10 DEF CreateLink
  <2>. QED
    BY <1>a, <2>1, FS_AddElement
<1>11. ASSUME NEW v \in Visit, Mail(v) PROVE NotesOK' /\ IsFiniteSet(recent)'
  BY <1>11, <1>a DEF Mail
<1>12. ASSUME NEW v \in Visit, FindLink(v) PROVE NotesOK' /\ IsFiniteSet(recent)'
  BY <1>12, <1>a DEF FindLink
<1>13. ASSUME NEW v \in Visit, ConsumeLink(v) PROVE NotesOK' /\ IsFiniteSet(recent)'
  BY <1>13, <1>a DEF ConsumeLink
<1>14. ASSUME NEW v \in Visit, Ensure(v) PROVE NotesOK' /\ IsFiniteSet(recent)'
  BY <1>14, <1>a DEF Ensure
<1>15. ASSUME NEW v \in Visit, InsertUser(v) PROVE NotesOK' /\ IsFiniteSet(recent)'
  BY <1>15, <1>a DEF InsertUser
<1>16. ASSUME NEW v \in Visit, MarkVerified(v) PROVE NotesOK' /\ IsFiniteSet(recent)'
  BY <1>16, <1>a DEF MarkVerified
<1>17. ASSUME NEW v \in Visit, SyncRole(v) PROVE NotesOK' /\ IsFiniteSet(recent)'
  BY <1>17, <1>a DEF SyncRole
<1>18. ASSUME NEW v \in Visit, OpenSession(v) PROVE NotesOK' /\ IsFiniteSet(recent)'
  BY <1>18, <1>a DEF OpenSession
<1>19. ASSUME NEW v \in Visit, LookForSignUp(v) PROVE NotesOK' /\ IsFiniteSet(recent)'
  BY <1>19, <1>a DEF LookForSignUp
<1>20. ASSUME NEW v \in Visit, AttachPassword(v) PROVE NotesOK' /\ IsFiniteSet(recent)'
  BY <1>20, <1>a DEF AttachPassword
<1>21. ASSUME NEW v \in Visit, LookAtFailures(v) PROVE NotesOK' /\ IsFiniteSet(recent)'
  BY <1>21, <1>a DEF LookAtFailures
<1>22. ASSUME NEW v \in Visit, CheckPassword(v) PROVE NotesOK' /\ IsFiniteSet(recent)'
  BY <1>22, <1>a DEF CheckPassword
<1>23. ASSUME NEW v \in Visit, CountFailure(v) PROVE NotesOK' /\ IsFiniteSet(recent)'
  BY <1>23, <1>a DEF CountFailure
<1>24. ASSUME NEW v \in Visit, ClearFailures(v) PROVE NotesOK' /\ IsFiniteSet(recent)'
  BY <1>24, <1>a DEF ClearFailures
<1>25. ASSUME NEW v \in Visit, WritePassword(v) PROVE NotesOK' /\ IsFiniteSet(recent)'
  BY <1>25, <1>a DEF WritePassword
<1>26. ASSUME NEW v \in Visit, Revoke(v) PROVE NotesOK' /\ IsFiniteSet(recent)'
  BY <1>26, <1>a DEF Revoke
<1>27. ASSUME NEW v \in Visit, SetRole(v) PROVE NotesOK' /\ IsFiniteSet(recent)'
  BY <1>27, <1>a DEF SetRole
<1>28. ASSUME NEW l \in Visit, LinkExpires(l) PROVE NotesOK' /\ IsFiniteSet(recent)'
  BY <1>28, <1>a DEF LinkExpires
<1>29. ASSUME NEW l \in Visit, HourPasses(l) PROVE NotesOK' /\ IsFiniteSet(recent)'
  <2>1. recent' \subseteq recent /\ UNCHANGED <<listed, blind, signed, tardy>>
    BY <1>29 DEF HourPasses
  <2>. QED
    BY <1>a, <2>1, FS_Subset
<1>30. ASSUME NEW p \in Email, LockLapses(p) PROVE NotesOK' /\ IsFiniteSet(recent)'
  BY <1>30, <1>a DEF LockLapses
<1>31. CASE LoginRestart
  BY <1>31, <1>a DEF LoginRestart
<1>32. CASE UNCHANGED loginVars
  BY <1>32, <1>a DEF loginVars
<1>. QED
  BY <1>1, <1>2, <1>3, <1>4, <1>5, <1>6, <1>7, <1>8, <1>9, <1>10, <1>11, <1>12, <1>13, <1>14,
     <1>15, <1>16, <1>17, <1>18, <1>19, <1>20, <1>21, <1>22, <1>23, <1>24, <1>25, <1>26, <1>27,
     <1>28, <1>29, <1>30, <1>31, <1>32 DEF LoginNext, Start, Continue, Clock

\* How a request goes from one statement to the next.
Onward(v) ==
  /\ visit[v].at # "end" /\ visit'[v].at # "idle"
  /\ visit[v].at # "idle" => visit'[v].link = visit[v].link /\ visit'[v].kind = visit[v].kind
  /\ visit[v].at = "mail" => visit'[v].at = "end"
  /\ visit'[v].at = "mail" => CreateLink(v)
  /\ visit[v].at \in {"ensure", "insert", "verify", "sync", "open"} /\ visit[v].kind = "follow" =>
       visit'[v].at \in {"insert", "verify", "sync", "open", "end"}
  /\ visit'[v].at = "revoke" /\ visit'[v].link # NoVisit => sessions[visit'[v].link].state # "none"
  /\ visit'[v].at = "create" => CountRecent(v) /\ visit'[v].who = visit[v].who
  /\ visit'[v].at = "check" =>
       /\ visit'[v].tries = failures[Who(v)].n /\ visit'[v].who = visit[v].who
       /\ Who(v) \in Email
  /\ visit'[v].at = "fail" =>
       /\ visit'[v].tries = visit[v].tries /\ visit'[v].who = visit[v].who
       /\ visit[v].at = "check" /\ CheckPassword(v)

LEMMA MovesOn ==
  ASSUME LoginInv, NEW v \in Visit, Start(v) \/ Continue(v)
  PROVE  Onward(v)
<1>a. VisitsOK
  BY DEF LoginInv
<1>b. VisitInv(v) /\ TablesOK /\ CountsOK
  BY DEF LoginInv
<1>1. ASSUME NEW p \in Email, AskLink(v, p) PROVE Onward(v)
    <3>1. CASE Begin(v, "signin", "count", p, NoVisit)
      BY <1>a, <3>1, Begins DEF Onward, Place, Kind, At, Who
    <3>2. CASE Begin(v, "reset", "look", p, NoVisit)
      BY <1>a, <3>2, Begins DEF Onward, Place, Kind, At, Who
    <3>3. CASE Begin(v, "confirm", "count", p, NoVisit)
      BY <1>a, <3>3, Begins DEF Onward, Place, Kind, At, Who
    <3>. QED
      BY <1>1, <3>1, <3>2, <3>3 DEF AskLink
<1>2. ASSUME NEW p \in Email, SignUp(v, p) PROVE Onward(v)
    BY <1>a, <1>2, Begins DEF SignUp, Onward, At, Who, Place, Kind
<1>3. ASSUME NEW p \in Email, NEW given \in Visit, EnterPassword(v, p, given) PROVE Onward(v)
    BY <1>a, <1>3, Begins DEF EnterPassword, Onward, At, Who, Place, Kind
<1>4. ASSUME NEW p \in Email, NEW given \in Visit, ChangePassword(v, p, given) PROVE Onward(v)
    BY <1>a, <1>4, Begins DEF ChangePassword, Onward, At, Who, Place, Kind
<1>5. ASSUME NEW l \in Visit, Follow(v, l) PROVE Onward(v)
    <3>1. Begin(v, "follow", "find", NoEmail, l)
      BY <1>5 DEF Follow
    <3>2. visit'[v].at = "find"
      BY <1>a, <3>1, Begins DEF Onward, Place, Kind, At, Who
    <3>. QED
      BY <1>5, <3>1, <3>2 DEF Onward, Begin, At
<1>6. ASSUME NEW s \in Visit, SignOut(v, s) PROVE Onward(v)
    <3>. DEFINE p == sessions[s].of
    <3>1. p \in Email \cup {NoEmail} /\ sessions[s].state = "live"
      BY <1>b, <1>6 DEF SignOut, TablesOK, Session
    <3>2. Begin(v, "signout", "revoke", p, s)
      BY <1>6 DEF SignOut
    <3>. HIDE DEF p
    <3>3. visit'[v].at = "revoke" /\ visit'[v].link = s
      BY <1>a, <3>1, <3>2, Begins DEF Onward, Place, Kind, At, Who
    <3>. QED
      BY <1>6, <3>1, <3>3 DEF Onward, SignOut, Begin, At
<1>7. ASSUME NEW s \in Visit, NEW p \in Email, Operate(v, s, p) PROVE Onward(v)
    BY <1>a, <1>7, Begins, BeginsPromotion DEF Operate, Onward, At, Who, Place, Kind
<1>8. ASSUME LookForReset(v) PROVE Onward(v)
    BY <1>a, <1>8, GoesOn, Ends DEF LookForReset, Onward, At, Who, Place, Kind
<1>9. ASSUME CountRecent(v) PROVE Onward(v)
    BY <1>a, <1>9, GoesOn, Ends DEF CountRecent, Onward, At, Who, Place, Kind
<1>10. ASSUME CreateLink(v) PROVE Onward(v)
    BY <1>a, <1>10, GoesOn DEF CreateLink, Onward, At, Who, Place, Kind
<1>11. ASSUME Mail(v) PROVE Onward(v)
    BY <1>a, <1>11, Ends DEF Mail, Onward, At, Who, Place, Kind
<1>12. ASSUME FindLink(v) PROVE Onward(v)
    BY <1>a, <1>12, GoesOn, Ends DEF FindLink, Onward, At, Who, Place, Kind
<1>13. ASSUME ConsumeLink(v) PROVE Onward(v)
    <3>. DEFINE q == links[visit[v].link].of
    <3>1. q \in Email \cup {NoEmail}
      BY <1>b, <1>13 DEF ConsumeLink, At, VisitInv, TablesOK, Link
    <3>2. End(v) \/ GotoAs(v, "ensure", q)
      BY <1>13 DEF ConsumeLink
    <3>. HIDE DEF q
    <3>. QED
      BY <1>a, <3>1, <3>2, Ends, GoesOnAs, <1>13 DEF ConsumeLink, Onward, At, Who, Place
<1>14. ASSUME Ensure(v) PROVE Onward(v)
    <3>1. visit[v].at \notin {"idle", "find", "consume", "end"}
      BY <1>14 DEF Ensure, At
    <3>2. Who(v) \in Email
      BY <1>b, <3>1 DEF VisitInv
    <3>3. Account(v).role \in {"user", "admin"}
      BY <1>b, <3>2 DEF Account, Who, TablesOK, User
    <3>. QED
      BY <1>a, <1>14, <3>3, GoesOnKnowing DEF Ensure, Onward, At, Who, Place
<1>15. ASSUME InsertUser(v) PROVE Onward(v)
    BY <1>a, <1>15, GoesOn, Ends DEF InsertUser, Onward, At, Who, Place, Kind
<1>16. ASSUME MarkVerified(v) PROVE Onward(v)
    BY <1>a, <1>16, GoesOn DEF MarkVerified, Onward, At, Who, Place, Kind
<1>17. ASSUME SyncRole(v) PROVE Onward(v)
    BY <1>a, <1>17, GoesOn DEF SyncRole, Onward, At, Who, Place, Kind
<1>18. ASSUME OpenSession(v) PROVE Onward(v)
    BY <1>a, <1>18, GoesOn, Ends DEF OpenSession, Onward, At, Who, Place, Kind
<1>19. ASSUME LookForSignUp(v) PROVE Onward(v)
    BY <1>a, <1>19, GoesOn, Ends DEF LookForSignUp, Onward, At, Who, Place, Kind
<1>20. ASSUME AttachPassword(v) PROVE Onward(v)
    <3>1. visit[v].at \notin {"idle", "find", "consume", "end"}
      BY <1>20 DEF AttachPassword, At
    <3>2. Who(v) \in Email
      BY <1>b, <3>1 DEF VisitInv
    <3>3. Account(v).role \in {"user", "admin"}
      BY <1>b, <3>2 DEF Account, Who, TablesOK, User
    <3>. QED
      BY <1>a, <1>20, <3>3, GoesOnKnowing DEF AttachPassword, Onward, At, Who, Place
<1>21. ASSUME LookAtFailures(v) PROVE Onward(v)
    <3>1. visit[v].at \notin {"idle", "find", "consume", "end"}
      BY <1>21 DEF LookAtFailures, At
    <3>2. Who(v) \in Email
      BY <1>b, <3>1 DEF VisitInv
    <3>. DEFINE n == failures[Who(v)].n
    <3>3. n \in Tally
      BY <1>b, <3>2 DEF CountsOK
    <3>4. End(v) \/ GotoCounting(v, "check", n)
      BY <1>21 DEF LookAtFailures
    <3>. HIDE DEF n
    <3>5. /\ visit'[v].kind = visit[v].kind /\ visit'[v].link = visit[v].link
          /\ visit'[v].who = visit[v].who
          /\ visit'[v].at \in {"check", "end"} /\ (visit'[v].at = "check" => visit'[v].tries = n)
      <4>1. CASE End(v)
        BY <1>a, <4>1, Ends
      <4>2. CASE GotoCounting(v, "check", n)
        BY <1>a, <3>3, <4>2, GoesOnCounting DEF Place
      <4>. QED
        BY <3>4, <4>1, <4>2
    <3>6. visit[v].at = "lock"
      BY <1>21 DEF LookAtFailures, At
    <3>. QED
      BY <3>2, <3>5, <3>6 DEF n, Onward
<1>22. ASSUME CheckPassword(v) PROVE Onward(v)
    <3>1. visit[v].at \notin {"idle", "find", "consume", "end"}
      BY <1>22 DEF CheckPassword, At
    <3>2. Who(v) \in Email
      BY <1>b, <3>1 DEF VisitInv
    <3>3. Account(v).role \in {"user", "admin"}
      BY <1>b, <3>2 DEF Account, Who, TablesOK, User
    <3>. QED
      BY <1>a, <1>22, <3>3, Ends, GoesOn, GoesOnKnowing DEF CheckPassword, Onward, At, Who, Place
<1>23. ASSUME CountFailure(v) PROVE Onward(v)
    BY <1>a, <1>23, Ends DEF CountFailure, Onward, At, Who, Place, Kind
<1>24. ASSUME ClearFailures(v) PROVE Onward(v)
    BY <1>a, <1>24, GoesOn DEF ClearFailures, Onward, At, Who, Place, Kind
<1>25. ASSUME WritePassword(v) PROVE Onward(v)
    BY <1>a, <1>25, Ends DEF WritePassword, Onward, At, Who, Place, Kind
<1>26. ASSUME Revoke(v) PROVE Onward(v)
    BY <1>a, <1>26, Ends DEF Revoke, Onward, At, Who, Place, Kind
<1>27. ASSUME SetRole(v) PROVE Onward(v)
    BY <1>a, <1>27, Ends DEF SetRole, Onward, At, Who, Place, Kind
<1>. QED
  BY <1>1, <1>2, <1>3, <1>4, <1>5, <1>6, <1>7, <1>8, <1>9, <1>10, <1>11, <1>12, <1>13, <1>14,
     <1>15, <1>16, <1>17, <1>18, <1>19, <1>20, <1>21, <1>22, <1>23, <1>24, <1>25, <1>26,
     <1>27 DEF Start, Continue

\* A request alone opens its session, and no session is opened again.
LEMMA SessionStep ==
  ASSUME LoginInv, [LoginNext]_loginVars, NEW x \in Visit
  PROVE  SessionInv(x)'
<1>a. VisitsOK /\ sessions \in [Visit -> Session] /\ SessionInv(x) /\ (\A s \in Visit : SessionInv(s))
  BY DEF LoginInv, TablesOK
<1>1. ASSUME NEW v \in Visit, Start(v) \/ Continue(v)
      PROVE  /\ \A s \in Visit \ {v} : /\ sessions'[s].of = sessions[s].of
                                       /\ sessions'[s].state = "none" <=> sessions[s].state = "none"
             /\ \/ /\ sessions'[v].of = sessions[v].of
                   /\ sessions'[v].state = "none" <=> sessions[v].state = "none"
                \/ /\ sessions'[v].of \in Email /\ sessions'[v].state = "live"
                   /\ visit'[v].at \in {"count", "end"}
  <2>1. CASE OpenSession(v)
    <3>1. Who(v) \in Email
      BY <2>1 DEF LoginInv, VisitInv, OpenSession, At
    <3>2. visit'[v].at \in {"count", "end"}
      BY <1>a, <2>1, Ends, GoesOn DEF OpenSession, Place
    <3>. QED
      BY <1>a, <2>1, <3>1, <3>2 DEF OpenSession
  <2>2. CASE Revoke(v)
    <3>1. PICK all \in BOOLEAN :
            /\ visit[v].link = NoVisit => all
            /\ sessions' = [s \in Visit |->
                 IF s = visit[v].link \/ (all /\ s \in Live(Who(v)))
                 THEN [sessions[s] EXCEPT !.state = "gone"] ELSE sessions[s]]
      BY <2>2 DEF Revoke
    <3>2. ASSUME NEW s \in Visit, s = visit[v].link \/ s \in Live(Who(v))
          PROVE  sessions[s].state # "none"
      <4>1. At(v, "revoke") /\ SessionInv(v) /\ s # NoVisit
        BY <1>a, <2>2, LoginAssumption DEF Revoke
      <4>. QED
        BY <3>2, <4>1 DEF SessionInv, Live
    <3>3. ASSUME NEW s \in Visit
          PROVE  /\ sessions'[s].of = sessions[s].of
                 /\ sessions'[s].state = "none" <=> sessions[s].state = "none"
      BY <1>a, <3>1, <3>2 DEF Session
    <3>. QED
      BY <3>3
  <2>3. CASE UNCHANGED sessions
    BY <2>3
  <2>4. ASSUME NEW p \in Email, AskLink(v, p) PROVE UNCHANGED sessions
    BY <2>4 DEF AskLink
  <2>5. ASSUME NEW p \in Email, SignUp(v, p) PROVE UNCHANGED sessions
    BY <2>5 DEF SignUp
  <2>6. ASSUME NEW p \in Email, NEW given \in Visit, EnterPassword(v, p, given) PROVE UNCHANGED sessions
    BY <2>6 DEF EnterPassword
  <2>7. ASSUME NEW p \in Email, NEW given \in Visit, ChangePassword(v, p, given) PROVE UNCHANGED sessions
    BY <2>7 DEF ChangePassword
  <2>8. ASSUME NEW l \in Visit, Follow(v, l) PROVE UNCHANGED sessions
    BY <2>8 DEF Follow
  <2>9. ASSUME NEW s \in Visit, SignOut(v, s) PROVE UNCHANGED sessions
    BY <2>9 DEF SignOut
  <2>10. ASSUME NEW s \in Visit, NEW p \in Email, Operate(v, s, p) PROVE UNCHANGED sessions
    BY <2>10 DEF Operate
  <2>11. ASSUME LookForReset(v) PROVE UNCHANGED sessions
    BY <2>11 DEF LookForReset
  <2>12. ASSUME CountRecent(v) PROVE UNCHANGED sessions
    BY <2>12 DEF CountRecent
  <2>13. ASSUME CreateLink(v) PROVE UNCHANGED sessions
    BY <2>13 DEF CreateLink
  <2>14. ASSUME Mail(v) PROVE UNCHANGED sessions
    BY <2>14 DEF Mail
  <2>15. ASSUME FindLink(v) PROVE UNCHANGED sessions
    BY <2>15 DEF FindLink
  <2>16. ASSUME ConsumeLink(v) PROVE UNCHANGED sessions
    BY <2>16 DEF ConsumeLink
  <2>17. ASSUME Ensure(v) PROVE UNCHANGED sessions
    BY <2>17 DEF Ensure
  <2>18. ASSUME InsertUser(v) PROVE UNCHANGED sessions
    BY <2>18 DEF InsertUser
  <2>19. ASSUME MarkVerified(v) PROVE UNCHANGED sessions
    BY <2>19 DEF MarkVerified
  <2>20. ASSUME SyncRole(v) PROVE UNCHANGED sessions
    BY <2>20 DEF SyncRole
  <2>21. ASSUME LookForSignUp(v) PROVE UNCHANGED sessions
    BY <2>21 DEF LookForSignUp
  <2>22. ASSUME AttachPassword(v) PROVE UNCHANGED sessions
    BY <2>22 DEF AttachPassword
  <2>23. ASSUME LookAtFailures(v) PROVE UNCHANGED sessions
    BY <2>23 DEF LookAtFailures
  <2>24. ASSUME CheckPassword(v) PROVE UNCHANGED sessions
    BY <2>24 DEF CheckPassword
  <2>25. ASSUME CountFailure(v) PROVE UNCHANGED sessions
    BY <2>25 DEF CountFailure
  <2>26. ASSUME ClearFailures(v) PROVE UNCHANGED sessions
    BY <2>26 DEF ClearFailures
  <2>27. ASSUME WritePassword(v) PROVE UNCHANGED sessions
    BY <2>27 DEF WritePassword
  <2>28. ASSUME SetRole(v) PROVE UNCHANGED sessions
    BY <2>28 DEF SetRole
  <2>29. OpenSession(v) \/ Revoke(v) \/ UNCHANGED sessions
    BY <1>1, <2>4, <2>5, <2>6, <2>7, <2>8, <2>9, <2>10, <2>11, <2>12, <2>13, <2>14, <2>15,
       <2>16, <2>17, <2>18, <2>19, <2>20, <2>21, <2>22, <2>23, <2>24, <2>25, <2>26, <2>27,
       <2>28 DEF Start, Continue
  <2>. QED
    BY <2>1, <2>2, <2>3, <2>29
<1>3. ASSUME NEW v \in Visit, Start(v) \/ Continue(v) PROVE SessionInv(x)'
  <2>1. \A s \in Visit : sessions[s].state # "none" => sessions'[s].state # "none"
    BY <1>1, <1>3
  <2>2. CASE x = v
    <3>1. visit'[v].at = "revoke" /\ visit'[v].link # NoVisit => visit'[v].link \in Visit
      BY <1>a, <1>3, VisitsStep DEF VisitsOK, Request
    <3>. QED
      BY <1>1, <1>3, <1>a, <2>1, <2>2, <3>1, MovesOn DEF SessionInv, At, Onward
  <2>3. CASE x # v
    <3>1. visit'[x] = visit[x]
      BY <1>a, <1>3, <2>3, OthersWait
    <3>2. visit[x].link # NoVisit => visit[x].link \in Visit
      BY <1>a DEF VisitsOK, Request
    <3>. QED
      BY <1>1, <1>3, <1>a, <2>1, <2>3, <3>1, <3>2 DEF SessionInv, At
  <2>. QED
    BY <2>2, <2>3
<1>4. CASE Clock \/ UNCHANGED loginVars
  <2>1. UNCHANGED <<visit, sessions>>
    BY <1>4 DEF Clock, LinkExpires, HourPasses, LockLapses, loginVars
  <2>. QED
    BY <1>a, <2>1 DEF SessionInv, At
<1>5. CASE LoginRestart
  <2>1. UNCHANGED sessions
    BY <1>5 DEF LoginRestart
  <2>. QED
    BY <1>a, <1>5, <2>1, Restarts DEF SessionInv, At
<1>. QED
  BY <1>3, <1>4, <1>5 DEF LoginNext

\* A link is created once, mailed once, and lets in one visit.
LEMMA LinkStep ==
  ASSUME LoginInv, [LoginNext]_loginVars, NEW x \in Visit
  PROVE  LinkInv(x)'
<1>a. /\ VisitsOK /\ links \in [Visit -> Link] /\ recent \in SUBSET Visit /\ LinkInv(x)
      /\ links[x].by \in Visit \cup {NoVisit} /\ (\A v \in Visit : VisitInv(v))
  BY DEF LoginInv, TablesOK, Link
<1>1. ASSUME NEW v \in Visit, Start(v) \/ Continue(v) PROVE LinkInv(x)'
  <2>1. Onward(v) /\ (\A y \in Visit \ {v} : visit'[y] = visit[y])
    BY <1>a, <1>1, MovesOn, OthersWait
  <2>2. /\ visit[x].at \in {"mail", "end"} => visit'[x].at \in {"mail", "end"}
        /\ visit[x].at = "end" => visit'[x].at = "end"
    BY <2>1 DEF Onward
  <2>3. ASSUME links[x].by \in Visit, links[x].by # NoVisit
        PROVE  /\ visit'[links[x].by].link = x /\ visit'[links[x].by].kind = "follow"
               /\ visit'[links[x].by].at \in {"ensure", "insert", "verify", "sync", "open", "end"}
    BY <1>a, <2>1, <2>3 DEF LinkInv, Onward
  <2>4. CASE links'[x] = links[x] /\ (x \in recent' => x \in recent) /\ (x = v => ~CreateLink(v))
    <3>1. visit'[x].at = "mail" => visit[x].at = "mail"
      BY <2>1, <2>4 DEF Onward
    <3>. QED
      BY <1>a, <2>2, <2>3, <2>4, <3>1 DEF LinkInv, At, NoLink
  <2>5. CASE CreateLink(v)
    <3>1. CASE x # v
      BY <1>a, <2>4, <2>5, <3>1 DEF CreateLink
    <3>2. CASE x = v
      <4>1. /\ links'[v] = [of |-> Who(v), by |-> NoVisit, open |-> TRUE, mailed |-> FALSE,
                            long |-> visit[v].kind \in {"confirm", "signup"}]
            /\ Who(v) \in Email
        BY <1>a, <2>5 DEF CreateLink, VisitInv, At
      <4>2. visit'[v].at = "mail"
        BY <1>a, <2>5, GoesOn DEF CreateLink, Place
      <4>. QED
        BY <3>2, <4>1, <4>2, LoginAssumption DEF LinkInv, At
    <3>. QED
      BY <3>1, <3>2
  <2>6. CASE Mail(v)
    <3>1. CASE x # v
      BY <1>a, <2>4, <2>6, <3>1 DEF Mail
    <3>2. CASE x = v
      <4>1. /\ links'[v].of = links[v].of /\ links'[v].by = links[v].by /\ recent' = recent
            /\ At(v, "mail") /\ visit'[v].at = "end"
        BY <1>a, <2>6, Ends DEF Mail, Link
      <4>2. /\ links[v].of # NoEmail /\ links[v].by = NoVisit
        BY <1>a, <3>2, <4>1 DEF LinkInv, At
      <4>. QED
        BY <3>2, <4>1, <4>2 DEF LinkInv, At
    <3>. QED
      BY <3>1, <3>2
  <2>7. CASE ConsumeLink(v)
    <3>0. recent' = recent /\ ~CreateLink(v)
      BY <2>7 DEF ConsumeLink, CreateLink, At
    <3>1. CASE UNCHANGED links
      BY <2>4, <3>0, <3>1
    <3>2. CASE links' = [links EXCEPT ![visit[v].link].by = v] /\ visit'[v].at = "ensure"
      <4>1. CASE x # visit[v].link
        BY <1>a, <2>4, <3>0, <3>2, <4>1
      <4>2. CASE x = visit[v].link
        <5>1. VisitInv(v) /\ visit[v].at = "consume"
          BY <1>a, <2>7 DEF ConsumeLink, At
        <5>2. links[x].mailed /\ visit[v].kind = "follow"
          BY <4>2, <5>1 DEF VisitInv
        <5>3. /\ links'[x].of = links[x].of /\ links'[x].mailed = links[x].mailed /\ recent' = recent
              /\ links'[x].by = v
          BY <1>a, <2>7, <3>2, <4>2 DEF ConsumeLink, Link
        <5>4. visit'[v].link = x /\ visit'[v].kind = "follow"
          BY <2>1, <4>2, <5>1, <5>2 DEF Onward
        <5>. QED
          BY <1>a, <2>2, <3>2, <5>2, <5>3, <5>4 DEF LinkInv, At, NoLink
      <4>. QED
        BY <4>1, <4>2
    <3>3. UNCHANGED links \/ (links' = [links EXCEPT ![visit[v].link].by = v] /\ visit'[v].at = "ensure")
      <4>. DEFINE q == links[visit[v].link].of
      <4>1. q \in Email \cup {NoEmail}
        BY <1>a, <2>7 DEF ConsumeLink, At, VisitInv, Link
      <4>2. \/ UNCHANGED links
            \/ links' = [links EXCEPT ![visit[v].link].by = v] /\ GotoAs(v, "ensure", q)
        BY <2>7 DEF ConsumeLink
      <4>. HIDE DEF q
      <4>. QED
        BY <1>a, <4>1, <4>2, GoesOnAs DEF Place
    <3>. QED
      BY <3>1, <3>2, <3>3
  <2>11. ASSUME NEW p \in Email, AskLink(v, p) PROVE UNCHANGED <<links, recent>>
    BY <2>11 DEF AskLink
  <2>12. ASSUME NEW p \in Email, SignUp(v, p) PROVE UNCHANGED <<links, recent>>
    BY <2>12 DEF SignUp
  <2>13. ASSUME NEW p \in Email, NEW given \in Visit, EnterPassword(v, p, given) PROVE UNCHANGED <<links, recent>>
    BY <2>13 DEF EnterPassword
  <2>14. ASSUME NEW p \in Email, NEW given \in Visit, ChangePassword(v, p, given) PROVE UNCHANGED <<links, recent>>
    BY <2>14 DEF ChangePassword
  <2>15. ASSUME NEW l \in Visit, Follow(v, l) PROVE UNCHANGED <<links, recent>>
    BY <2>15 DEF Follow
  <2>16. ASSUME NEW s \in Visit, SignOut(v, s) PROVE UNCHANGED <<links, recent>>
    BY <2>16 DEF SignOut
  <2>17. ASSUME NEW s \in Visit, NEW p \in Email, Operate(v, s, p) PROVE UNCHANGED <<links, recent>>
    BY <2>17 DEF Operate
  <2>18. ASSUME LookForReset(v) PROVE UNCHANGED <<links, recent>>
    BY <2>18 DEF LookForReset
  <2>19. ASSUME CountRecent(v) PROVE UNCHANGED <<links, recent>>
    BY <2>19 DEF CountRecent
  <2>20. ASSUME FindLink(v) PROVE UNCHANGED <<links, recent>>
    BY <2>20 DEF FindLink
  <2>21. ASSUME Ensure(v) PROVE UNCHANGED <<links, recent>>
    BY <2>21 DEF Ensure
  <2>22. ASSUME InsertUser(v) PROVE UNCHANGED <<links, recent>>
    BY <2>22 DEF InsertUser
  <2>23. ASSUME MarkVerified(v) PROVE UNCHANGED <<links, recent>>
    BY <2>23 DEF MarkVerified
  <2>24. ASSUME SyncRole(v) PROVE UNCHANGED <<links, recent>>
    BY <2>24 DEF SyncRole
  <2>25. ASSUME OpenSession(v) PROVE UNCHANGED <<links, recent>>
    BY <2>25 DEF OpenSession
  <2>26. ASSUME LookForSignUp(v) PROVE UNCHANGED <<links, recent>>
    BY <2>26 DEF LookForSignUp
  <2>27. ASSUME AttachPassword(v) PROVE UNCHANGED <<links, recent>>
    BY <2>27 DEF AttachPassword
  <2>28. ASSUME LookAtFailures(v) PROVE UNCHANGED <<links, recent>>
    BY <2>28 DEF LookAtFailures
  <2>29. ASSUME CheckPassword(v) PROVE UNCHANGED <<links, recent>>
    BY <2>29 DEF CheckPassword
  <2>30. ASSUME CountFailure(v) PROVE UNCHANGED <<links, recent>>
    BY <2>30 DEF CountFailure
  <2>31. ASSUME ClearFailures(v) PROVE UNCHANGED <<links, recent>>
    BY <2>31 DEF ClearFailures
  <2>32. ASSUME WritePassword(v) PROVE UNCHANGED <<links, recent>>
    BY <2>32 DEF WritePassword
  <2>33. ASSUME Revoke(v) PROVE UNCHANGED <<links, recent>>
    BY <2>33 DEF Revoke
  <2>34. ASSUME SetRole(v) PROVE UNCHANGED <<links, recent>>
    BY <2>34 DEF SetRole
  <2>8. CreateLink(v) \/ Mail(v) \/ ConsumeLink(v) \/ UNCHANGED <<links, recent>>
    BY <1>1, <2>11, <2>12, <2>13, <2>14, <2>15, <2>16, <2>17, <2>18, <2>19, <2>20, <2>21,
       <2>22, <2>23, <2>24, <2>25, <2>26, <2>27, <2>28, <2>29, <2>30, <2>31, <2>32, <2>33,
       <2>34 DEF Start, Continue
  <2>. QED
    BY <2>4, <2>5, <2>6, <2>7, <2>8, <1>a
<1>2. CASE Clock \/ UNCHANGED loginVars
  <2>1. visit' = visit
    BY <1>2 DEF Clock, LinkExpires, HourPasses, LockLapses, loginVars
  <2>2. /\ links'[x].of = links[x].of /\ links'[x].by = links[x].by /\ links'[x].mailed = links[x].mailed
        /\ links[x] = NoLink => links'[x] = NoLink
        /\ x \in recent' => x \in recent
    <3>1. ASSUME NEW l \in Visit, LinkExpires(l)
          PROVE  /\ links'[x].of = links[x].of /\ links'[x].by = links[x].by
                 /\ links'[x].mailed = links[x].mailed
                 /\ links[x] = NoLink => links'[x] = NoLink
                 /\ x \in recent' => x \in recent
      <4>1. NoLink.open = FALSE
        BY DEF NoLink
      <4>2. CASE l = x
        BY <1>a, <3>1, <4>1, <4>2 DEF LinkExpires, Link
      <4>3. CASE l # x
        BY <1>a, <3>1, <4>3 DEF LinkExpires
      <4>. QED
        BY <4>2, <4>3
    <3>2. CASE links' = links /\ recent' \subseteq recent
      BY <3>2
    <3>. QED
      BY <1>2, <3>1, <3>2 DEF Clock, HourPasses, LockLapses, loginVars
  <2>. QED
    BY <1>a, <2>1, <2>2 DEF LinkInv, At
<1>3. CASE LoginRestart
  <2>1. UNCHANGED <<links, recent>>
    BY <1>3 DEF LoginRestart
  <2>2. \A y \in Visit : /\ visit[y].at # "idle" => visit'[y].at = "end"
                         /\ visit'[y].link = visit[y].link /\ visit'[y].kind = visit[y].kind
    BY <1>a, <1>3, Restarts DEF At
  <2>3. visit'[x].at = "mail" => visit[x].at = "mail"
    BY <1>a, <1>3, Restarts DEF At
  <2>. QED
    BY <1>a, <2>1, <2>2, <2>3 DEF LinkInv, At
<1>. QED
  BY <1>1, <1>2, <1>3 DEF LoginNext

\* The failures of an address are never fewer than they were.
LEMMA FailuresStay ==
  ASSUME LoginInv, NEW v \in Visit, Start(v) \/ Continue(v)
  PROVE  /\ \A p \in Email : wrong[p] <= wrong'[p]
         /\ CheckPassword(v) /\ visit'[v].at = "fail" => wrong'[Who(v)] = wrong[Who(v)] + 1
<1>a. CountsOK /\ VisitsOK /\ VisitInv(v)
  BY DEF LoginInv
<1>1. CASE CheckPassword(v)
  <2>1. Who(v) \in Email
    BY <1>a, <1>1 DEF CheckPassword, VisitInv, At
  <2>2. UNCHANGED wrong \/ wrong' = [wrong EXCEPT ![Who(v)] = @ + 1]
    BY <1>1 DEF CheckPassword
  <2>3. visit'[v].at = "fail" => wrong' = [wrong EXCEPT ![Who(v)] = @ + 1]
    <3>1. CASE End(v)
      BY <1>a, <3>1, Ends
    <3>2. CASE visit'[v].at # "fail"
      BY <3>2
    <3>3. CASE GotoKnowing(v, "clear", Account(v).role)
      BY <1>a, <3>3 DEF GotoKnowing, VisitsOK, Request
    <3>. QED
      BY <1>1, <3>1, <3>3 DEF CheckPassword
  <2>. QED
    BY <1>a, <2>1, <2>2, <2>3 DEF CountsOK, Tally
<1>2. CASE UNCHANGED wrong /\ ~CheckPassword(v)
  BY <1>a, <1>2 DEF CountsOK, Tally
<1>11. ASSUME NEW p \in Email, AskLink(v, p) PROVE UNCHANGED wrong
  BY <1>11 DEF AskLink
<1>12. ASSUME NEW p \in Email, SignUp(v, p) PROVE UNCHANGED wrong
  BY <1>12 DEF SignUp
<1>13. ASSUME NEW p \in Email, NEW given \in Visit, EnterPassword(v, p, given) PROVE UNCHANGED wrong
  BY <1>13 DEF EnterPassword
<1>14. ASSUME NEW p \in Email, NEW given \in Visit, ChangePassword(v, p, given) PROVE UNCHANGED wrong
  BY <1>14 DEF ChangePassword
<1>15. ASSUME NEW l \in Visit, Follow(v, l) PROVE UNCHANGED wrong
  BY <1>15 DEF Follow
<1>16. ASSUME NEW s \in Visit, SignOut(v, s) PROVE UNCHANGED wrong
  BY <1>16 DEF SignOut
<1>17. ASSUME NEW s \in Visit, NEW p \in Email, Operate(v, s, p) PROVE UNCHANGED wrong
  BY <1>17 DEF Operate
<1>18. ASSUME LookForReset(v) PROVE UNCHANGED wrong
  BY <1>18 DEF LookForReset
<1>19. ASSUME CountRecent(v) PROVE UNCHANGED wrong
  BY <1>19 DEF CountRecent
<1>20. ASSUME CreateLink(v) PROVE UNCHANGED wrong
  BY <1>20 DEF CreateLink
<1>21. ASSUME Mail(v) PROVE UNCHANGED wrong
  BY <1>21 DEF Mail
<1>22. ASSUME FindLink(v) PROVE UNCHANGED wrong
  BY <1>22 DEF FindLink
<1>23. ASSUME ConsumeLink(v) PROVE UNCHANGED wrong
  BY <1>23 DEF ConsumeLink
<1>24. ASSUME Ensure(v) PROVE UNCHANGED wrong
  BY <1>24 DEF Ensure
<1>25. ASSUME InsertUser(v) PROVE UNCHANGED wrong
  BY <1>25 DEF InsertUser
<1>26. ASSUME MarkVerified(v) PROVE UNCHANGED wrong
  BY <1>26 DEF MarkVerified
<1>27. ASSUME SyncRole(v) PROVE UNCHANGED wrong
  BY <1>27 DEF SyncRole
<1>28. ASSUME OpenSession(v) PROVE UNCHANGED wrong
  BY <1>28 DEF OpenSession
<1>29. ASSUME LookForSignUp(v) PROVE UNCHANGED wrong
  BY <1>29 DEF LookForSignUp
<1>30. ASSUME AttachPassword(v) PROVE UNCHANGED wrong
  BY <1>30 DEF AttachPassword
<1>31. ASSUME LookAtFailures(v) PROVE UNCHANGED wrong
  BY <1>31 DEF LookAtFailures
<1>32. ASSUME CountFailure(v) PROVE UNCHANGED wrong
  BY <1>32 DEF CountFailure
<1>33. ASSUME ClearFailures(v) PROVE UNCHANGED wrong
  BY <1>33 DEF ClearFailures
<1>34. ASSUME WritePassword(v) PROVE UNCHANGED wrong
  BY <1>34 DEF WritePassword
<1>35. ASSUME Revoke(v) PROVE UNCHANGED wrong
  BY <1>35 DEF Revoke
<1>36. ASSUME SetRole(v) PROVE UNCHANGED wrong
  BY <1>36 DEF SetRole
<1>3. CheckPassword(v) \/ UNCHANGED wrong
  BY <1>11, <1>12, <1>13, <1>14, <1>15, <1>16, <1>17, <1>18, <1>19, <1>20, <1>21, <1>22, <1>23,
     <1>24, <1>25, <1>26, <1>27, <1>28, <1>29, <1>30, <1>31, <1>32, <1>33, <1>34, <1>35,
     <1>36 DEF Start, Continue
<1>. QED
  BY <1>1, <1>2, <1>3

\* A failure is counted after it has happened.
LEMMA FailureStep ==
  ASSUME LoginInv, [LoginNext]_loginVars, NEW x \in Visit
  PROVE  FailureInv(x)'
<1>a. VisitsOK /\ CountsOK /\ FailuresHappened /\ FailureInv(x) /\ VisitInv(x)
  BY DEF LoginInv
<1>1. ASSUME NEW v \in Visit, Start(v) \/ Continue(v) PROVE FailureInv(x)'
  <2>1. CASE x # v
    <3>1. visit'[x] = visit[x]
      BY <1>a, <1>1, <2>1, OthersWait
    <3>2. visit[x].at \in {"check", "fail"} =>
            /\ wrong[Who(x)] \in Nat /\ wrong'[Who(x)] \in Nat /\ wrong[Who(x)] <= wrong'[Who(x)]
            /\ visit[x].tries \in Nat
      BY <1>a, <1>1, FailuresStay, CountsStep DEF VisitInv, CountsOK, Tally, VisitsOK, Request, LoginNext
    <3>. QED
      BY <1>a, <3>1, <3>2 DEF FailureInv, At, Who
  <2>2. CASE x = v
    <3>1. Onward(v)
      BY <1>1, MovesOn
    <3>2. CASE visit'[v].at = "check"
      <4>1. /\ Who(v) \in Email /\ visit'[v].who = Who(v) /\ visit'[v].tries = failures[Who(v)].n
        BY <3>1, <3>2 DEF Onward, Who
      <4>2. failures[Who(v)].n <= wrong[Who(v)] /\ wrong[Who(v)] <= wrong'[Who(v)]
        BY <1>a, <1>1, <4>1, FailuresStay DEF FailuresHappened
      <4>3. failures[Who(v)].n \in Nat /\ wrong[Who(v)] \in Nat /\ wrong'[Who(v)] \in Nat
        BY <1>a, <1>1, <4>1, CountsStep DEF CountsOK, Tally, LoginNext
      <4>. QED
        BY <2>2, <3>2, <4>1, <4>2, <4>3 DEF FailureInv, At, Who
    <3>3. CASE visit'[v].at = "fail"
      <4>1. /\ CheckPassword(v) /\ At(v, "check") /\ visit'[v].tries = visit[v].tries
            /\ visit'[v].who = Who(v)
        BY <3>1, <3>3 DEF Onward, At, Who
      <4>2. Who(v) \in Email /\ visit[v].tries <= wrong[Who(v)]
        BY <1>a, <2>2, <4>1 DEF VisitInv, FailureInv, At
      <4>3. wrong'[Who(v)] = wrong[Who(v)] + 1
        BY <1>1, <3>3, <4>1, FailuresStay
      <4>4. wrong[Who(v)] \in Nat /\ visit[v].tries \in Nat
        BY <1>a, <4>2 DEF CountsOK, Tally, VisitsOK, Request
      <4>. QED
        BY <2>2, <3>3, <4>1, <4>2, <4>3, <4>4 DEF FailureInv, At, Who
    <3>. QED
      BY <2>2, <3>2, <3>3 DEF FailureInv, At
  <2>. QED
    BY <2>1, <2>2
<1>2. CASE Clock \/ UNCHANGED loginVars
  <2>1. UNCHANGED <<visit, wrong>>
    BY <1>2 DEF Clock, LinkExpires, HourPasses, LockLapses, loginVars
  <2>. QED
    BY <1>a, <2>1 DEF FailureInv, At, Who
<1>3. CASE LoginRestart
  <2>1. visit'[x].at \in {"idle", "end"}
    BY <1>a, <1>3, Restarts
  <2>. QED
    BY <2>1 DEF FailureInv, At
<1>. QED
  BY <1>1, <1>2, <1>3 DEF LoginNext

\* The count of failures never runs ahead of them.
LEMMA HappenedStep ==
  ASSUME LoginInv, [LoginNext]_loginVars
  PROVE  FailuresHappened'
<1>. SUFFICES ASSUME NEW p \in Email PROVE failures'[p].n <= wrong'[p]
  BY DEF FailuresHappened
<1>a. VisitsOK /\ CountsOK /\ failures[p].n <= wrong[p]
  BY DEF LoginInv, FailuresHappened
<1>b. failures[p].n \in Nat /\ wrong[p] \in Nat /\ failures'[p].n \in Nat /\ wrong'[p] \in Nat
  BY <1>a, CountsStep DEF CountsOK, Tally
<1>1. ASSUME NEW v \in Visit, Start(v) \/ Continue(v) PROVE failures'[p].n <= wrong'[p]
  <2>1. wrong[p] <= wrong'[p]
    BY <1>1, FailuresStay
  <2>2. CASE CountFailure(v)
    <3>1. /\ visit[v].tries < wrong[Who(v)] /\ visit[v].tries \in Nat /\ wrong' = wrong
          /\ failures' = [failures EXCEPT ![Who(v)] = [n |-> visit[v].tries + 1, fresh |-> TRUE]]
      BY <1>a, <2>2 DEF LoginInv, FailureInv, CountFailure, VisitsOK, Request, Tally
    <3>2. CASE p = Who(v)
      BY <1>a, <1>b, <3>1, <3>2 DEF CountsOK
    <3>3. CASE p # Who(v)
      BY <1>a, <1>b, <3>1, <3>3 DEF CountsOK
    <3>. QED
      BY <3>2, <3>3
  <2>3. CASE ClearFailures(v)
    <3>1. failures'[p].n \in {0, failures[p].n}
      BY <1>a, <2>3 DEF ClearFailures, CountsOK
    <3>. QED
      BY <1>a, <1>b, <2>1, <3>1
  <2>4. CASE UNCHANGED failures
    BY <1>a, <1>b, <2>1, <2>4
  <2>11. ASSUME NEW q \in Email, AskLink(v, q) PROVE UNCHANGED failures
    BY <2>11 DEF AskLink
  <2>12. ASSUME NEW q \in Email, SignUp(v, q) PROVE UNCHANGED failures
    BY <2>12 DEF SignUp
  <2>13. ASSUME NEW q \in Email, NEW given \in Visit, EnterPassword(v, q, given) PROVE UNCHANGED failures
    BY <2>13 DEF EnterPassword
  <2>14. ASSUME NEW q \in Email, NEW given \in Visit, ChangePassword(v, q, given) PROVE UNCHANGED failures
    BY <2>14 DEF ChangePassword
  <2>15. ASSUME NEW l \in Visit, Follow(v, l) PROVE UNCHANGED failures
    BY <2>15 DEF Follow
  <2>16. ASSUME NEW s \in Visit, SignOut(v, s) PROVE UNCHANGED failures
    BY <2>16 DEF SignOut
  <2>17. ASSUME NEW s \in Visit, NEW q \in Email, Operate(v, s, q) PROVE UNCHANGED failures
    BY <2>17 DEF Operate
  <2>18. ASSUME LookForReset(v) PROVE UNCHANGED failures
    BY <2>18 DEF LookForReset
  <2>19. ASSUME CountRecent(v) PROVE UNCHANGED failures
    BY <2>19 DEF CountRecent
  <2>20. ASSUME CreateLink(v) PROVE UNCHANGED failures
    BY <2>20 DEF CreateLink
  <2>21. ASSUME Mail(v) PROVE UNCHANGED failures
    BY <2>21 DEF Mail
  <2>22. ASSUME FindLink(v) PROVE UNCHANGED failures
    BY <2>22 DEF FindLink
  <2>23. ASSUME ConsumeLink(v) PROVE UNCHANGED failures
    BY <2>23 DEF ConsumeLink
  <2>24. ASSUME Ensure(v) PROVE UNCHANGED failures
    BY <2>24 DEF Ensure
  <2>25. ASSUME InsertUser(v) PROVE UNCHANGED failures
    BY <2>25 DEF InsertUser
  <2>26. ASSUME MarkVerified(v) PROVE UNCHANGED failures
    BY <2>26 DEF MarkVerified
  <2>27. ASSUME SyncRole(v) PROVE UNCHANGED failures
    BY <2>27 DEF SyncRole
  <2>28. ASSUME OpenSession(v) PROVE UNCHANGED failures
    BY <2>28 DEF OpenSession
  <2>29. ASSUME LookForSignUp(v) PROVE UNCHANGED failures
    BY <2>29 DEF LookForSignUp
  <2>30. ASSUME AttachPassword(v) PROVE UNCHANGED failures
    BY <2>30 DEF AttachPassword
  <2>31. ASSUME LookAtFailures(v) PROVE UNCHANGED failures
    BY <2>31 DEF LookAtFailures
  <2>32. ASSUME CheckPassword(v) PROVE UNCHANGED failures
    BY <2>32 DEF CheckPassword
  <2>33. ASSUME WritePassword(v) PROVE UNCHANGED failures
    BY <2>33 DEF WritePassword
  <2>34. ASSUME Revoke(v) PROVE UNCHANGED failures
    BY <2>34 DEF Revoke
  <2>35. ASSUME SetRole(v) PROVE UNCHANGED failures
    BY <2>35 DEF SetRole
  <2>5. CountFailure(v) \/ ClearFailures(v) \/ UNCHANGED failures
    BY <1>1, <2>11, <2>12, <2>13, <2>14, <2>15, <2>16, <2>17, <2>18, <2>19, <2>20, <2>21,
       <2>22, <2>23, <2>24, <2>25, <2>26, <2>27, <2>28, <2>29, <2>30, <2>31, <2>32, <2>33,
       <2>34, <2>35 DEF Start, Continue
  <2>. QED
    BY <2>2, <2>3, <2>4, <2>5
<1>2. CASE Clock \/ UNCHANGED loginVars \/ LoginRestart
  <2>1. wrong' = wrong /\ failures'[p].n = failures[p].n
    BY <1>a, <1>2 DEF Clock, LinkExpires, HourPasses, LockLapses, loginVars, LoginRestart, CountsOK
  <2>. QED
    BY <1>a, <2>1
<1>. QED
  BY <1>1, <1>2 DEF LoginNext

\* What moves the sessions, the counts and the links.
LEMMA SessionsMove ==
  ASSUME NEW v \in Visit, Start(v) \/ Continue(v)
  PROVE  OpenSession(v) \/ Revoke(v) \/ UNCHANGED sessions
<1>11. ASSUME NEW p \in Email, AskLink(v, p) PROVE UNCHANGED sessions
  BY <1>11 DEF AskLink
<1>12. ASSUME NEW p \in Email, SignUp(v, p) PROVE UNCHANGED sessions
  BY <1>12 DEF SignUp
<1>13. ASSUME NEW p \in Email, NEW given \in Visit, EnterPassword(v, p, given) PROVE UNCHANGED sessions
  BY <1>13 DEF EnterPassword
<1>14. ASSUME NEW p \in Email, NEW given \in Visit, ChangePassword(v, p, given) PROVE UNCHANGED sessions
  BY <1>14 DEF ChangePassword
<1>15. ASSUME NEW l \in Visit, Follow(v, l) PROVE UNCHANGED sessions
  BY <1>15 DEF Follow
<1>16. ASSUME NEW s \in Visit, SignOut(v, s) PROVE UNCHANGED sessions
  BY <1>16 DEF SignOut
<1>17. ASSUME NEW s \in Visit, NEW p \in Email, Operate(v, s, p) PROVE UNCHANGED sessions
  BY <1>17 DEF Operate
<1>18. ASSUME LookForReset(v) PROVE UNCHANGED sessions
  BY <1>18 DEF LookForReset
<1>19. ASSUME CountRecent(v) PROVE UNCHANGED sessions
  BY <1>19 DEF CountRecent
<1>20. ASSUME CreateLink(v) PROVE UNCHANGED sessions
  BY <1>20 DEF CreateLink
<1>21. ASSUME Mail(v) PROVE UNCHANGED sessions
  BY <1>21 DEF Mail
<1>22. ASSUME FindLink(v) PROVE UNCHANGED sessions
  BY <1>22 DEF FindLink
<1>23. ASSUME ConsumeLink(v) PROVE UNCHANGED sessions
  BY <1>23 DEF ConsumeLink
<1>24. ASSUME Ensure(v) PROVE UNCHANGED sessions
  BY <1>24 DEF Ensure
<1>25. ASSUME InsertUser(v) PROVE UNCHANGED sessions
  BY <1>25 DEF InsertUser
<1>26. ASSUME MarkVerified(v) PROVE UNCHANGED sessions
  BY <1>26 DEF MarkVerified
<1>27. ASSUME SyncRole(v) PROVE UNCHANGED sessions
  BY <1>27 DEF SyncRole
<1>28. ASSUME LookForSignUp(v) PROVE UNCHANGED sessions
  BY <1>28 DEF LookForSignUp
<1>29. ASSUME AttachPassword(v) PROVE UNCHANGED sessions
  BY <1>29 DEF AttachPassword
<1>30. ASSUME LookAtFailures(v) PROVE UNCHANGED sessions
  BY <1>30 DEF LookAtFailures
<1>31. ASSUME CheckPassword(v) PROVE UNCHANGED sessions
  BY <1>31 DEF CheckPassword
<1>32. ASSUME CountFailure(v) PROVE UNCHANGED sessions
  BY <1>32 DEF CountFailure
<1>33. ASSUME ClearFailures(v) PROVE UNCHANGED sessions
  BY <1>33 DEF ClearFailures
<1>34. ASSUME WritePassword(v) PROVE UNCHANGED sessions
  BY <1>34 DEF WritePassword
<1>35. ASSUME SetRole(v) PROVE UNCHANGED sessions
  BY <1>35 DEF SetRole
<1>. QED
  BY <1>11, <1>12, <1>13, <1>14, <1>15, <1>16, <1>17, <1>18, <1>19, <1>20, <1>21, <1>22, <1>23,
     <1>24, <1>25, <1>26, <1>27, <1>28, <1>29, <1>30, <1>31, <1>32, <1>33, <1>34,
     <1>35 DEF Start, Continue

LEMMA BlindMoves ==
  ASSUME NEW v \in Visit, Start(v) \/ Continue(v)
  PROVE  CountRecent(v) \/ UNCHANGED blind
<1>11. ASSUME NEW p \in Email, AskLink(v, p) PROVE UNCHANGED blind
  BY <1>11 DEF AskLink
<1>12. ASSUME NEW p \in Email, SignUp(v, p) PROVE UNCHANGED blind
  BY <1>12 DEF SignUp
<1>13. ASSUME NEW p \in Email, NEW given \in Visit, EnterPassword(v, p, given) PROVE UNCHANGED blind
  BY <1>13 DEF EnterPassword
<1>14. ASSUME NEW p \in Email, NEW given \in Visit, ChangePassword(v, p, given) PROVE UNCHANGED blind
  BY <1>14 DEF ChangePassword
<1>15. ASSUME NEW l \in Visit, Follow(v, l) PROVE UNCHANGED blind
  BY <1>15 DEF Follow
<1>16. ASSUME NEW s \in Visit, SignOut(v, s) PROVE UNCHANGED blind
  BY <1>16 DEF SignOut
<1>17. ASSUME NEW s \in Visit, NEW p \in Email, Operate(v, s, p) PROVE UNCHANGED blind
  BY <1>17 DEF Operate
<1>18. ASSUME LookForReset(v) PROVE UNCHANGED blind
  BY <1>18 DEF LookForReset
<1>19. ASSUME CreateLink(v) PROVE UNCHANGED blind
  BY <1>19 DEF CreateLink
<1>20. ASSUME Mail(v) PROVE UNCHANGED blind
  BY <1>20 DEF Mail
<1>21. ASSUME FindLink(v) PROVE UNCHANGED blind
  BY <1>21 DEF FindLink
<1>22. ASSUME ConsumeLink(v) PROVE UNCHANGED blind
  BY <1>22 DEF ConsumeLink
<1>23. ASSUME Ensure(v) PROVE UNCHANGED blind
  BY <1>23 DEF Ensure
<1>24. ASSUME InsertUser(v) PROVE UNCHANGED blind
  BY <1>24 DEF InsertUser
<1>25. ASSUME MarkVerified(v) PROVE UNCHANGED blind
  BY <1>25 DEF MarkVerified
<1>26. ASSUME SyncRole(v) PROVE UNCHANGED blind
  BY <1>26 DEF SyncRole
<1>27. ASSUME OpenSession(v) PROVE UNCHANGED blind
  BY <1>27 DEF OpenSession
<1>28. ASSUME LookForSignUp(v) PROVE UNCHANGED blind
  BY <1>28 DEF LookForSignUp
<1>29. ASSUME AttachPassword(v) PROVE UNCHANGED blind
  BY <1>29 DEF AttachPassword
<1>30. ASSUME LookAtFailures(v) PROVE UNCHANGED blind
  BY <1>30 DEF LookAtFailures
<1>31. ASSUME CheckPassword(v) PROVE UNCHANGED blind
  BY <1>31 DEF CheckPassword
<1>32. ASSUME CountFailure(v) PROVE UNCHANGED blind
  BY <1>32 DEF CountFailure
<1>33. ASSUME ClearFailures(v) PROVE UNCHANGED blind
  BY <1>33 DEF ClearFailures
<1>34. ASSUME WritePassword(v) PROVE UNCHANGED blind
  BY <1>34 DEF WritePassword
<1>35. ASSUME Revoke(v) PROVE UNCHANGED blind
  BY <1>35 DEF Revoke
<1>36. ASSUME SetRole(v) PROVE UNCHANGED blind
  BY <1>36 DEF SetRole
<1>. QED
  BY <1>11, <1>12, <1>13, <1>14, <1>15, <1>16, <1>17, <1>18, <1>19, <1>20, <1>21, <1>22, <1>23,
     <1>24, <1>25, <1>26, <1>27, <1>28, <1>29, <1>30, <1>31, <1>32, <1>33, <1>34, <1>35,
     <1>36 DEF Start, Continue

LEMMA LinksMove ==
  ASSUME NEW v \in Visit, Start(v) \/ Continue(v)
  PROVE  CreateLink(v) \/ Mail(v) \/ ConsumeLink(v) \/ UNCHANGED <<links, recent>>
<1>11. ASSUME NEW p \in Email, AskLink(v, p) PROVE UNCHANGED <<links, recent>>
  BY <1>11 DEF AskLink
<1>12. ASSUME NEW p \in Email, SignUp(v, p) PROVE UNCHANGED <<links, recent>>
  BY <1>12 DEF SignUp
<1>13. ASSUME NEW p \in Email, NEW given \in Visit, EnterPassword(v, p, given) PROVE UNCHANGED <<links, recent>>
  BY <1>13 DEF EnterPassword
<1>14. ASSUME NEW p \in Email, NEW given \in Visit, ChangePassword(v, p, given) PROVE UNCHANGED <<links, recent>>
  BY <1>14 DEF ChangePassword
<1>15. ASSUME NEW l \in Visit, Follow(v, l) PROVE UNCHANGED <<links, recent>>
  BY <1>15 DEF Follow
<1>16. ASSUME NEW s \in Visit, SignOut(v, s) PROVE UNCHANGED <<links, recent>>
  BY <1>16 DEF SignOut
<1>17. ASSUME NEW s \in Visit, NEW p \in Email, Operate(v, s, p) PROVE UNCHANGED <<links, recent>>
  BY <1>17 DEF Operate
<1>18. ASSUME LookForReset(v) PROVE UNCHANGED <<links, recent>>
  BY <1>18 DEF LookForReset
<1>19. ASSUME CountRecent(v) PROVE UNCHANGED <<links, recent>>
  BY <1>19 DEF CountRecent
<1>20. ASSUME FindLink(v) PROVE UNCHANGED <<links, recent>>
  BY <1>20 DEF FindLink
<1>21. ASSUME Ensure(v) PROVE UNCHANGED <<links, recent>>
  BY <1>21 DEF Ensure
<1>22. ASSUME InsertUser(v) PROVE UNCHANGED <<links, recent>>
  BY <1>22 DEF InsertUser
<1>23. ASSUME MarkVerified(v) PROVE UNCHANGED <<links, recent>>
  BY <1>23 DEF MarkVerified
<1>24. ASSUME SyncRole(v) PROVE UNCHANGED <<links, recent>>
  BY <1>24 DEF SyncRole
<1>25. ASSUME OpenSession(v) PROVE UNCHANGED <<links, recent>>
  BY <1>25 DEF OpenSession
<1>26. ASSUME LookForSignUp(v) PROVE UNCHANGED <<links, recent>>
  BY <1>26 DEF LookForSignUp
<1>27. ASSUME AttachPassword(v) PROVE UNCHANGED <<links, recent>>
  BY <1>27 DEF AttachPassword
<1>28. ASSUME LookAtFailures(v) PROVE UNCHANGED <<links, recent>>
  BY <1>28 DEF LookAtFailures
<1>29. ASSUME CheckPassword(v) PROVE UNCHANGED <<links, recent>>
  BY <1>29 DEF CheckPassword
<1>30. ASSUME CountFailure(v) PROVE UNCHANGED <<links, recent>>
  BY <1>30 DEF CountFailure
<1>31. ASSUME ClearFailures(v) PROVE UNCHANGED <<links, recent>>
  BY <1>31 DEF ClearFailures
<1>32. ASSUME WritePassword(v) PROVE UNCHANGED <<links, recent>>
  BY <1>32 DEF WritePassword
<1>33. ASSUME Revoke(v) PROVE UNCHANGED <<links, recent>>
  BY <1>33 DEF Revoke
<1>34. ASSUME SetRole(v) PROVE UNCHANGED <<links, recent>>
  BY <1>34 DEF SetRole
<1>. QED
  BY <1>11, <1>12, <1>13, <1>14, <1>15, <1>16, <1>17, <1>18, <1>19, <1>20, <1>21, <1>22, <1>23,
     <1>24, <1>25, <1>26, <1>27, <1>28, <1>29, <1>30, <1>31, <1>32, <1>33, <1>34 DEF Start,
     Continue

\* Nothing but a followed link makes an address verified.
LEMMA VerifiedStep ==
  ASSUME LoginInv, [LoginNext]_loginVars
  PROVE  VerifiedByMail'
<1>. SUFFICES ASSUME NEW p \in Email, users'[p].verified
              PROVE  \E l \in Visit : links'[l].of = p /\ links'[l].by # NoVisit /\ links'[l].mailed
  BY DEF VerifiedByMail
<1>a. TablesOK
  BY DEF LoginInv
<1>b. \A l \in Visit : links[l].mailed =>
        /\ links'[l].mailed /\ links'[l].of = links[l].of
        /\ links[l].by # NoVisit => links'[l].by # NoVisit
  <2>1. CASE \E v \in Visit : Start(v) \/ Continue(v)
    BY <2>1, NothingTakenBack
  <2>2. CASE Clock \/ UNCHANGED loginVars \/ LoginRestart
    BY <1>a, <2>2 DEF Clock, LinkExpires, HourPasses, LockLapses, loginVars, LoginRestart, TablesOK, Link
  <2>. QED
    BY <2>1, <2>2 DEF LoginNext
<1>1. CASE users[p].verified
  BY <1>1, <1>b DEF LoginInv, VerifiedByMail
<1>2. ASSUME NEW v \in Visit, p = Who(v), visit[v].kind = "follow", visit[v].at \in {"insert", "verify"}
      PROVE  \E l \in Visit : links'[l].of = p /\ links'[l].by # NoVisit /\ links'[l].mailed
  <2>1. /\ visit[v].link \in Visit /\ links[visit[v].link].mailed
        /\ links[visit[v].link].of = p /\ links[visit[v].link].by # NoVisit
    BY <1>2 DEF LoginInv, VisitInv
  <2>. QED
    BY <1>b, <2>1
<1>3. ASSUME NEW v \in Visit, Start(v) \/ Continue(v)
      PROVE  \/ users[p].verified
             \/ p = Who(v) /\ visit[v].kind = "follow" /\ visit[v].at \in {"insert", "verify"}
  <2>1. CASE InsertUser(v)
    <3>1. CASE UNCHANGED users
      BY <3>1
    <3>2. CASE p = Who(v) /\ visit[v].kind = "follow"
      BY <2>1, <3>2 DEF InsertUser, At
    <3>3. CASE p # Who(v)
      BY <1>a, <2>1, <3>3 DEF InsertUser, TablesOK
    <3>4. CASE p = Who(v) /\ visit[v].kind # "follow" /\ ~UNCHANGED users
      <4>1. users' = [users EXCEPT ![Who(v)] =
                        [there |-> TRUE, role |-> "user", verified |-> visit[v].kind = "follow",
                         pass |-> IF visit[v].kind = "signup" THEN v ELSE NoVisit]]
        BY <2>1, <3>4 DEF InsertUser
      <4>2. ~users'[p].verified
        BY <1>a, <3>4, <4>1 DEF TablesOK
      <4>. QED
        BY <4>2
    <3>. QED
      BY <3>1, <3>2, <3>3, <3>4
  <2>2. CASE MarkVerified(v)
    <3>1. CASE p = Who(v)
      BY <2>2, <3>1 DEF MarkVerified, At, LoginInv, VisitInv
    <3>2. CASE p # Who(v)
      BY <1>a, <2>2, <3>2 DEF MarkVerified, TablesOK
    <3>. QED
      BY <3>1, <3>2
  <2>3. CASE SyncRole(v)
    BY <1>a, <2>3 DEF SyncRole, TablesOK, User
  <2>4. CASE AttachPassword(v) \/ WritePassword(v) \/ SetRole(v)
    BY <1>a, <2>4 DEF AttachPassword, WritePassword, SetRole, TablesOK, User
  <2>5. CASE UNCHANGED users
    BY <2>5
  <2>11. ASSUME NEW q \in Email, AskLink(v, q) PROVE UNCHANGED users
    BY <2>11 DEF AskLink
  <2>12. ASSUME NEW q \in Email, SignUp(v, q) PROVE UNCHANGED users
    BY <2>12 DEF SignUp
  <2>13. ASSUME NEW q \in Email, NEW given \in Visit, EnterPassword(v, q, given) PROVE UNCHANGED users
    BY <2>13 DEF EnterPassword
  <2>14. ASSUME NEW q \in Email, NEW given \in Visit, ChangePassword(v, q, given) PROVE UNCHANGED users
    BY <2>14 DEF ChangePassword
  <2>15. ASSUME NEW l \in Visit, Follow(v, l) PROVE UNCHANGED users
    BY <2>15 DEF Follow
  <2>16. ASSUME NEW s \in Visit, SignOut(v, s) PROVE UNCHANGED users
    BY <2>16 DEF SignOut
  <2>17. ASSUME NEW s \in Visit, NEW q \in Email, Operate(v, s, q) PROVE UNCHANGED users
    BY <2>17 DEF Operate
  <2>18. ASSUME LookForReset(v) PROVE UNCHANGED users
    BY <2>18 DEF LookForReset
  <2>19. ASSUME CountRecent(v) PROVE UNCHANGED users
    BY <2>19 DEF CountRecent
  <2>20. ASSUME CreateLink(v) PROVE UNCHANGED users
    BY <2>20 DEF CreateLink
  <2>21. ASSUME Mail(v) PROVE UNCHANGED users
    BY <2>21 DEF Mail
  <2>22. ASSUME FindLink(v) PROVE UNCHANGED users
    BY <2>22 DEF FindLink
  <2>23. ASSUME ConsumeLink(v) PROVE UNCHANGED users
    BY <2>23 DEF ConsumeLink
  <2>24. ASSUME Ensure(v) PROVE UNCHANGED users
    BY <2>24 DEF Ensure
  <2>25. ASSUME OpenSession(v) PROVE UNCHANGED users
    BY <2>25 DEF OpenSession
  <2>26. ASSUME LookForSignUp(v) PROVE UNCHANGED users
    BY <2>26 DEF LookForSignUp
  <2>27. ASSUME LookAtFailures(v) PROVE UNCHANGED users
    BY <2>27 DEF LookAtFailures
  <2>28. ASSUME CheckPassword(v) PROVE UNCHANGED users
    BY <2>28 DEF CheckPassword
  <2>29. ASSUME CountFailure(v) PROVE UNCHANGED users
    BY <2>29 DEF CountFailure
  <2>30. ASSUME ClearFailures(v) PROVE UNCHANGED users
    BY <2>30 DEF ClearFailures
  <2>31. ASSUME Revoke(v) PROVE UNCHANGED users
    BY <2>31 DEF Revoke
  <2>6. InsertUser(v) \/ MarkVerified(v) \/ SyncRole(v) \/ AttachPassword(v) \/ WritePassword(v) \/ SetRole(v)
        \/ UNCHANGED users
    BY <1>3, <2>11, <2>12, <2>13, <2>14, <2>15, <2>16, <2>17, <2>18, <2>19, <2>20, <2>21,
       <2>22, <2>23, <2>24, <2>25, <2>26, <2>27, <2>28, <2>29, <2>30, <2>31 DEF Start, Continue
  <2>. QED
    BY <2>1, <2>2, <2>3, <2>4, <2>5, <2>6
<1>4. CASE Clock \/ UNCHANGED loginVars \/ LoginRestart
  <2>1. users' = users
    BY <1>4 DEF Clock, LinkExpires, HourPasses, LockLapses, loginVars, LoginRestart
  <2>. QED
    BY <1>1, <2>1
<1>. QED
  BY <1>1, <1>2, <1>3, <1>4 DEF LoginNext

\* A sign-up opens its session after its password was stored, or was late.
LEMMA SignUpStep ==
  ASSUME LoginInv, [LoginNext]_loginVars
  PROVE  SignUpStores'
<1>. SUFFICES ASSUME NEW x \in Visit, visit'[x].kind = "signup", sessions'[x].state # "none"
              PROVE  x \in signed' \cup tardy'
  BY DEF SignUpStores
<1>a. /\ VisitsOK /\ TablesOK /\ VisitInv(x) /\ SessionInv(x)
      /\ visit[x].kind = "signup" /\ sessions[x].state # "none" => x \in signed \cup tardy
  BY DEF LoginInv, SignUpStores
<1>1. ASSUME NEW v \in Visit, Start(v) \/ Continue(v) PROVE x \in signed' \cup tardy'
  <2>1. signed \subseteq signed' /\ tardy \subseteq tardy'
    BY <1>1, NothingTakenBack
  <2>2. CASE x = v /\ OpenSession(v)
    <3>1. At(v, "open")
      BY <2>2 DEF OpenSession
    <3>2. visit[v].kind = "signup"
      BY <1>1, <2>2, <3>1, MovesOn DEF Onward, At
    <3>. QED
      BY <1>a, <2>1, <2>2, <3>1, <3>2 DEF VisitInv, At
  <2>3. CASE x # v \/ ~OpenSession(v)
    <3>1. sessions[x].state # "none"
      <4>1. CASE OpenSession(v)
        BY <1>a, <2>3, <4>1 DEF OpenSession, TablesOK
      <4>2. CASE Revoke(v)
        <5>1. ASSUME sessions[x].state = "none" PROVE FALSE
          <6>1. At(v, "revoke") /\ SessionInv(v) /\ x # NoVisit
            BY <2>3, <4>2, LoginAssumption DEF Revoke, LoginInv
          <6>2. x # visit[v].link /\ x \notin Live(Who(v))
            BY <5>1, <6>1 DEF SessionInv, Live
          <6>3. sessions'[x] = sessions[x]
            BY <4>2, <6>2 DEF Revoke
          <6>. QED
            BY <5>1, <6>3
        <5>. QED
          BY <5>1
      <4>3. CASE UNCHANGED sessions
        BY <4>3
      <4>4. OpenSession(v) \/ Revoke(v) \/ UNCHANGED sessions
        BY <1>1, SessionsMove
      <4>. QED
        BY <4>1, <4>2, <4>3, <4>4
    <3>2. visit[x].kind = "signup"
      <4>1. CASE x = v
        BY <1>1, <1>a, <3>1, <4>1, MovesOn DEF Onward, SessionInv, At
      <4>2. CASE x # v
        BY <1>1, <1>a, <4>2, OthersWait
      <4>. QED
        BY <4>1, <4>2
    <3>. QED
      BY <1>a, <2>1, <3>1, <3>2
  <2>. QED
    BY <2>2, <2>3
<1>2. CASE Clock \/ UNCHANGED loginVars
  <2>1. UNCHANGED <<visit, sessions, signed, tardy>>
    BY <1>2 DEF Clock, LinkExpires, HourPasses, LockLapses, loginVars
  <2>. QED
    BY <1>a, <2>1
<1>3. CASE LoginRestart
  <2>1. UNCHANGED <<sessions, signed, tardy>> /\ visit[x].kind = "signup"
    BY <1>a, <1>3, Restarts DEF LoginRestart
  <2>. QED
    BY <1>a, <2>1
<1>. QED
  BY <1>1, <1>2, <1>3 DEF LoginNext

\* A visit that is about to create a link, having seen nobody else do so, was so
\* before, or has counted just now and found fewer links than the limit.
LEMMA SoloStep ==
  ASSUME LoginInv, NEW v \in Visit, Start(v) \/ Continue(v), NEW z \in Visit, Solo(z)'
  PROVE  /\ visit'[z].who = visit[z].who /\ visit[z].who \in Email
         /\ \/ Solo(z)
            \/ /\ z = v /\ CountRecent(v) /\ UnderWay(Who(v)) = {}
               /\ ~(Cardinality(RecentOf(Who(v))) >= PerWindow)
<1>a. VisitsOK /\ NotesOK /\ VisitInv(z)
  BY DEF LoginInv
<1>1. CASE z = v
  <2>1. CountRecent(v) /\ visit'[v].who = visit[v].who /\ visit'[v].at # "end"
    BY <1>1, MovesOn DEF Onward, Solo, At
  <2>2. ~End(v)
    BY <1>a, <2>1, Ends
  <2>3. blind' = [blind EXCEPT ![v] = UnderWay(Who(v))] /\ ~(Cardinality(RecentOf(Who(v))) >= PerWindow)
    BY <2>1, <2>2 DEF CountRecent
  <2>4. visit[z].who \in Email
    BY <1>a, <1>1, <2>1 DEF VisitInv, CountRecent, At, Who
  <2>5. UnderWay(Who(v)) = {}
    BY <1>a, <1>1, <2>3 DEF Solo, NotesOK
  <2>. QED
    BY <1>1, <2>1, <2>3, <2>4, <2>5
<1>2. CASE z # v
  <2>1. visit'[z] = visit[z]
    BY <1>a, <1>2, OthersWait
  <2>2. blind'[z] = blind[z]
    BY <1>a, <1>2, BlindMoves DEF CountRecent, NotesOK
  <2>3. Solo(z)
    BY <2>1, <2>2 DEF Solo, At
  <2>. QED
    BY <1>a, <2>1, <2>3 DEF VisitInv, Solo, At, Who
<1>. QED
  BY <1>1, <1>2

\* Of two visits that are about to create a link for an address, one has seen the other.
LEMMA AloneStep ==
  ASSUME LoginInv, [LoginNext]_loginVars
  PROVE  Alone'
<1>. SUFFICES ASSUME NEW x \in Visit, NEW y \in Visit, Solo(x)', Solo(y)', Who(x)' = Who(y)', x # y
              PROVE  FALSE
  BY DEF Alone
<1>a. VisitsOK /\ Alone
  BY DEF LoginInv
<1>1. ASSUME NEW v \in Visit, Start(v) \/ Continue(v) PROVE FALSE
  <2>1. ASSUME NEW u \in Visit, NEW w \in Visit, u # w, Solo(u), visit'[u].who = visit[u].who,
               w = v, visit'[w].who = visit[w].who, UnderWay(Who(v)) = {}, Who(u)' = Who(w)'
        PROVE  FALSE
    BY <2>1 DEF UnderWay, Solo, Who, At
  <2>2. CASE Solo(x) /\ Solo(y) /\ visit'[x].who = visit[x].who /\ visit'[y].who = visit[y].who
    BY <1>a, <2>2 DEF Alone, Who
  <2>3. visit'[x].who = visit[x].who /\ (Solo(x) \/ (x = v /\ UnderWay(Who(v)) = {}))
    BY <1>1, SoloStep
  <2>4. visit'[y].who = visit[y].who /\ (Solo(y) \/ (y = v /\ UnderWay(Who(v)) = {}))
    BY <1>1, SoloStep
  <2>5. CASE x = v /\ UnderWay(Who(v)) = {}
    BY <2>1, <2>3, <2>4, <2>5
  <2>6. CASE y = v /\ UnderWay(Who(v)) = {}
    BY <2>1, <2>3, <2>4, <2>6
  <2>. QED
    BY <2>2, <2>3, <2>4, <2>5, <2>6
<1>2. CASE Clock \/ UNCHANGED loginVars
  <2>1. UNCHANGED <<visit, blind>>
    BY <1>2 DEF Clock, LinkExpires, HourPasses, LockLapses, loginVars
  <2>. QED
    BY <1>a, <2>1 DEF Alone, Solo, At, Who
<1>3. CASE LoginRestart
  BY <1>a, <1>3, Restarts DEF Solo, At
<1>. QED
  BY <1>1, <1>2, <1>3 DEF LoginNext

\* No more links that are unaware of each other than the limit.
LEMMA WithinStep ==
  ASSUME LoginInv, [LoginNext]_loginVars
  PROVE  Within'
<1>a. /\ VisitsOK /\ NotesOK /\ Alone /\ Within /\ IsFiniteSet(recent)
      /\ links \in [Visit -> Link] /\ recent \in SUBSET Visit /\ (\A l \in Visit : LinkInv(l) /\ VisitInv(l))
  BY DEF LoginInv, TablesOK
<1>b. ASSUME NEW p PROVE IsFiniteSet(Unaware(p)) /\ Cardinality(Unaware(p)) \in Nat
  <2>1. Unaware(p) \subseteq recent
    BY DEF Unaware, RecentOf
  <2>. QED
    BY <1>a, <2>1, FS_Subset, FS_CardinalityType
<1>c. PerWindow \in Nat
  BY LoginAssumption
<1>d. ASSUME NEW p, Unaware(p)' \subseteq Unaware(p)
      PROVE  Cardinality(Unaware(p)') <= Cardinality(Unaware(p)) /\ Cardinality(Unaware(p)') \in Nat
  BY <1>b, <1>d, FS_Subset, FS_CardinalityType
\* Steps that add no link of which nobody knew, and leave room to the visits about to create one.
<1>1. ASSUME \A p \in Email : Unaware(p)' \subseteq Unaware(p),
             \A x \in Visit : Solo(x)' => /\ visit'[x].who \in Email
                                          /\ Cardinality(Unaware(visit'[x].who)) < PerWindow
      PROVE  Within'
  <2>1. ASSUME NEW p \in Email PROVE Cardinality(Unaware(p)') <= PerWindow
    <3>1. Cardinality(Unaware(p)') <= Cardinality(Unaware(p)) /\ Cardinality(Unaware(p)') \in Nat
      BY <1>d, <1>1
    <3>2. Cardinality(Unaware(p)) <= PerWindow /\ Cardinality(Unaware(p)) \in Nat
      BY <1>a, <1>b DEF Within
    <3>. QED
      BY <1>c, <3>1, <3>2
  <2>2. ASSUME NEW x \in Visit, Solo(x)'
        PROVE  Cardinality(Unaware(Who(x))') < PerWindow
    <3>0. PICK p \in Email : p = visit'[x].who
      BY <1>1, <2>2
    <3>1. Cardinality(Unaware(p)) < PerWindow
      BY <1>1, <2>2, <3>0
    <3>2. /\ Cardinality(Unaware(p)') <= Cardinality(Unaware(p))
          /\ Cardinality(Unaware(p)') \in Nat /\ Cardinality(Unaware(p)) \in Nat
      BY <1>b, <1>d, <1>1, <3>1
    <3>3. Cardinality(Unaware(p)') < PerWindow
      BY <1>c, <3>1, <3>2
    <3>. QED
      BY <3>0, <3>3 DEF Unaware, RecentOf, Who
  <2>. QED
    BY <2>1, <2>2 DEF Within
\* What the visits about to create a link knew they still know, unless one of them has just counted.
<1>2. ASSUME NEW v \in Visit, Start(v) \/ Continue(v), NEW x \in Visit, Solo(x)'
      PROVE  /\ visit'[x].who = Who(x) /\ Who(x) \in Email
             /\ Cardinality(Unaware(Who(x))) < PerWindow /\ (x # v => Solo(x))
  <2>1. /\ visit'[x].who = Who(x) /\ Who(x) \in Email
        /\ Solo(x) \/ (x = v /\ ~(Cardinality(RecentOf(Who(v))) >= PerWindow))
    <3>1. /\ visit'[x].who = visit[x].who /\ visit[x].who \in Email
          /\ Solo(x) \/ (x = v /\ ~(Cardinality(RecentOf(Who(v))) >= PerWindow))
      BY <1>2, SoloStep
    <3>. QED
      BY <3>1 DEF Who
  <2>2. CASE Solo(x)
    BY <1>a, <2>1, <2>2 DEF Within
  <2>3. CASE x = v /\ ~(Cardinality(RecentOf(Who(v))) >= PerWindow)
    <3>. DEFINE p == Who(v)
    <3>1. IsFiniteSet(RecentOf(p)) /\ Unaware(p) \subseteq RecentOf(p)
      BY <1>a, FS_Subset DEF RecentOf, Unaware
    <3>2. Cardinality(RecentOf(p)) \in Nat /\ Cardinality(Unaware(p)) <= Cardinality(RecentOf(p))
      BY <3>1, FS_Subset, FS_CardinalityType
    <3>3. ~(Cardinality(RecentOf(p)) >= PerWindow) /\ Cardinality(Unaware(p)) \in Nat
      BY <1>b, <2>3
    <3>. HIDE DEF p
    <3>4. Cardinality(Unaware(p)) < PerWindow
      BY <1>c, <3>2, <3>3
    <3>. QED
      BY <2>1, <2>3, <3>4 DEF p
  <2>. QED
    BY <2>1, <2>2, <2>3
<1>3. ASSUME NEW v \in Visit, Start(v) \/ Continue(v), ~CreateLink(v) PROVE Within'
  <2>1. recent' = recent /\ \A l \in Visit : links'[l].of = links[l].of
    <3>1. CASE Mail(v)
      BY <1>a, <3>1 DEF Mail, Link
    <3>2. CASE ConsumeLink(v)
      <4>1. links' = links \/ links' = [links EXCEPT ![visit[v].link].by = v]
        BY <3>2 DEF ConsumeLink
      <4>. QED
        BY <1>a, <3>2, <4>1 DEF ConsumeLink, Link
    <3>3. CASE UNCHANGED <<links, recent>>
      BY <3>3
    <3>. QED
      BY <1>3, <3>1, <3>2, <3>3, LinksMove
  <2>2. \A l \in recent : blind'[l] = blind[l]
    <3>1. CASE UNCHANGED blind
      BY <3>1
    <3>2. CASE CountRecent(v)
      <4>1. v \notin recent /\ \A l \in Visit \ {v} : blind'[l] = blind[l]
        BY <1>a, <3>2 DEF CountRecent, At, LinkInv, NotesOK
      <4>. QED
        BY <1>a, <4>1
    <3>. QED
      BY <1>3, <3>1, <3>2, BlindMoves
  <2>3. \A p \in Email : Unaware(p)' \subseteq Unaware(p)
    BY <1>a, <2>1, <2>2 DEF Unaware, RecentOf
  <2>. QED
    BY <1>1, <1>2, <1>3, <2>3
<1>4. ASSUME NEW v \in Visit, CreateLink(v) PROVE Within'
  <2>0. Continue(v)
    BY <1>4 DEF Continue
  <2>1. /\ visit[v].at = "create" /\ visit'[v].at = "mail" /\ UNCHANGED blind
        /\ recent' = recent \cup {v} /\ v \notin recent
        /\ links'[v].of = Who(v) /\ \A l \in Visit \ {v} : links'[l] = links[l]
    BY <1>a, <1>4, GoesOn DEF CreateLink, At, LinkInv, Place
  <2>2. \A p \in Email : p # Who(v) \/ blind[v] # {} => Unaware(p)' \subseteq Unaware(p)
    BY <1>a, <2>1 DEF Unaware, RecentOf
  <2>3. \A x \in Visit : Solo(x)' =>
          /\ x # v /\ Solo(x) /\ visit'[x].who = Who(x) /\ Who(x) \in Email
          /\ Cardinality(Unaware(Who(x))) < PerWindow
    BY <1>2, <2>0, <2>1 DEF Solo, At
  <2>4. CASE blind[v] # {}
    BY <1>1, <2>2, <2>3, <2>4
  <2>5. CASE blind[v] = {}
    <3>0. PICK q \in Email : q = Who(v)
      BY <1>a, <2>1 DEF VisitInv
    <3>1. Solo(v) /\ Cardinality(Unaware(q)) < PerWindow
      BY <1>a, <2>1, <2>5, <3>0 DEF Solo, At, Within
    <3>2. Unaware(q)' \subseteq Unaware(q) \cup {v} /\ v \notin Unaware(q)
      BY <1>a, <2>1, <3>0 DEF Unaware, RecentOf
    <3>3. \A p \in Email : p # q => Unaware(p)' \subseteq Unaware(p)
      BY <2>2, <3>0
    <3>4. \A x \in Visit : Solo(x)' => visit'[x].who \in Email /\ visit'[x].who # q
                                       /\ Cardinality(Unaware(visit'[x].who)) < PerWindow
      BY <1>a, <2>3, <3>0, <3>1 DEF Alone
    <3>5. IsFiniteSet(Unaware(q)) /\ Cardinality(Unaware(q)) \in Nat
      BY <1>b
    <3>6. /\ IsFiniteSet(Unaware(q) \cup {v})
          /\ Cardinality(Unaware(q) \cup {v}) = Cardinality(Unaware(q)) + 1
      BY <3>2, <3>5, FS_AddElement
    <3>7. Cardinality(Unaware(q)') <= Cardinality(Unaware(q)) + 1 /\ Cardinality(Unaware(q)') \in Nat
      BY <3>2, <3>6, FS_Subset, FS_CardinalityType
    <3>8. Cardinality(Unaware(q)') <= PerWindow
      BY <1>c, <3>1, <3>5, <3>7
    <3>9. ASSUME NEW p \in Email PROVE Cardinality(Unaware(p)') <= PerWindow
      <4>1. CASE p = q
        BY <3>8, <4>1
      <4>2. CASE p # q
        <5>1. Cardinality(Unaware(p)') <= Cardinality(Unaware(p)) /\ Cardinality(Unaware(p)') \in Nat
          BY <1>d, <3>3, <4>2
        <5>2. Cardinality(Unaware(p)) <= PerWindow /\ Cardinality(Unaware(p)) \in Nat
          BY <1>a, <1>b DEF Within
        <5>. QED
          BY <1>c, <5>1, <5>2
      <4>. QED
        BY <4>1, <4>2
    <3>10. ASSUME NEW x \in Visit, Solo(x)' PROVE Cardinality(Unaware(Who(x))') < PerWindow
      <4>0. PICK p \in Email : p = visit'[x].who
        BY <3>4, <3>10
      <4>1. p # q /\ Cardinality(Unaware(p)) < PerWindow
        BY <3>4, <3>10, <4>0
      <4>2. /\ Cardinality(Unaware(p)') <= Cardinality(Unaware(p)) /\ Cardinality(Unaware(p)') \in Nat
            /\ Cardinality(Unaware(p)) \in Nat
        BY <1>b, <1>d, <3>3, <4>1
      <4>3. Cardinality(Unaware(p)') < PerWindow
        BY <1>c, <4>1, <4>2
      <4>. QED
        BY <4>0, <4>3 DEF Unaware, RecentOf, Who
    <3>. QED
      BY <3>9, <3>10 DEF Within
  <2>. QED
    BY <2>4, <2>5
<1>5. CASE Clock \/ UNCHANGED loginVars
  <2>1. /\ UNCHANGED <<visit, blind>> /\ recent' \subseteq recent
        /\ \A l \in Visit : links'[l].of = links[l].of
    BY <1>a, <1>5 DEF Clock, LinkExpires, HourPasses, LockLapses, loginVars, Link
  <2>2. \A p \in Email : Unaware(p)' \subseteq Unaware(p)
    BY <1>a, <2>1 DEF Unaware, RecentOf
  <2>3. \A x \in Visit : Solo(x)' => /\ visit'[x].who \in Email
                                     /\ Cardinality(Unaware(visit'[x].who)) < PerWindow
    <3>1. \A x \in Visit : Solo(x) => Who(x) \in Email
      BY DEF LoginInv, VisitInv, Solo, At
    <3>. QED
      BY <1>a, <2>1, <3>1 DEF Within, Solo, At, Who
  <2>. QED
    BY <1>1, <2>2, <2>3
<1>6. CASE LoginRestart
  <2>1. \A x \in Visit : ~Solo(x)'
    BY <1>a, <1>6, Restarts DEF Solo, At
  <2>2. \A p \in Email : Unaware(p)' \subseteq Unaware(p)
    BY <1>6 DEF LoginRestart, Unaware, RecentOf
  <2>. QED
    BY <1>1, <2>1, <2>2
<1>. QED
  BY <1>3, <1>4, <1>5, <1>6 DEF LoginNext, Continue

\* Links are created one at a time.
LEMMA RecentStep ==
  ASSUME LoginInv, [LoginNext]_loginVars
  PROVE  IsFiniteSet(recent')
<1>1. IsFiniteSet(recent)
  BY DEF LoginInv
<1>2. CASE recent' \subseteq recent
  BY <1>1, <1>2, FS_Subset
<1>3. ASSUME NEW v \in Visit, recent' = recent \cup {v} PROVE IsFiniteSet(recent')
  BY <1>1, <1>3, FS_AddElement
<1>4. (\E v \in Visit : recent' = recent \cup {v}) \/ recent' \subseteq recent
  <2>1. ASSUME NEW v \in Visit, Start(v) \/ Continue(v)
        PROVE  recent' = recent \cup {v} \/ recent' \subseteq recent
    BY <2>1, LinksMove DEF CreateLink, Mail, ConsumeLink
  <2>2. CASE Clock \/ LoginRestart \/ UNCHANGED loginVars
    BY <2>2 DEF Clock, LinkExpires, HourPasses, LockLapses, LoginRestart, loginVars
  <2>. QED
    BY <2>1, <2>2 DEF LoginNext
<1>. QED
  BY <1>2, <1>3, <1>4

LEMMA LoginStep == LoginInv /\ [LoginNext]_loginVars => LoginInv'
<1>. SUFFICES ASSUME LoginInv, [LoginNext]_loginVars PROVE LoginInv'
  OBVIOUS
<1>1. VisitsOK' /\ CountsOK' /\ NotesOK'
  BY VisitsStep, CountsStep, NotesStep
<1>2. TablesOK'
  BY UsersStep, LinksStep, SessionsStep DEF TablesOK
<1>3. ASSUME NEW v \in Visit PROVE VisitInv(v)' /\ SessionInv(v)' /\ LinkInv(v)' /\ FailureInv(v)'
  BY VisitStep, SessionStep, LinkStep, FailureStep
<1>4. IsFiniteSet(recent)' /\ Alone' /\ Within'
  BY RecentStep, AloneStep, WithinStep
<1>5. VerifiedByMail' /\ FailuresHappened' /\ SignUpStores'
  BY VerifiedStep, HappenedStep, SignUpStep
<1>. QED
  BY <1>1, <1>2, <1>3, <1>4, <1>5 DEF LoginInv

\* The inductive invariant holds in every state.
THEOREM LoginInvariance == LoginSpec => []LoginInv
  BY LoginInitInv, LoginStep, PTL DEF LoginSpec
-----------------------------------------------------------------------------
(* What follows from the invariant *)

\* A visit that saw nobody else create a link found fewer than the limit, and what
\* is beyond it came from requests that overlapped.
LEMMA LimitKept == LoginInv => LimitWithoutOverlap
<1>. SUFFICES ASSUME LoginInv, NEW p \in Email, Cardinality(RecentOf(p)) > PerWindow,
                     \A l \in RecentOf(p) : blind[l] = {}
              PROVE  FALSE
  BY DEF LimitWithoutOverlap
<1>1. Unaware(p) = RecentOf(p)
  BY DEF Unaware
<1>2. Cardinality(Unaware(p)) <= PerWindow
  BY DEF LoginInv, Within
<1>3. Cardinality(RecentOf(p)) \in Nat /\ PerWindow \in Nat
  <2>1. IsFiniteSet(RecentOf(p))
    BY FS_Subset DEF LoginInv, RecentOf
  <2>. QED
    BY <2>1, FS_CardinalityType, LoginAssumption
<1>. QED
  BY <1>1, <1>2, <1>3

\* An address is verified by a mailed link only, the limit of links is passed by
\* overlapping requests only, a lock counts failures that happened, and a sign-up
\* that opened a session stored its password or met the account (AccountService).
THEOREM SigningInIsTrue == LoginSpec => []LoginSafe
<1>1. LoginInv => LoginTypeOK
  BY DEF LoginInv, VisitsOK, TablesOK, CountsOK, NotesOK, LoginTypeOK
<1>2. LoginInv => VerifiedByMail /\ FailuresHappened /\ SignUpStores
  BY DEF LoginInv
<1>3. LoginInv => LoginSafe
  BY <1>1, <1>2, LimitKept DEF LoginSafe
<1>. QED
  BY <1>3, LoginInvariance, PTL
-----------------------------------------------------------------------------
(* The refinement *)

\* Creating a link is the grant of an approval, letting a visit in spends it, and no
\* other step changes whose a link is or whom it let in.
LEMMA OneShotStep ==
  ASSUME LoginInv, [LoginNext]_loginVars
  PROVE  [OneShotLink!Next]_(OneShotLink!vars)

<1>a. /\ VisitsOK /\ links \in [Visit -> Link] /\ links' \in [Visit -> Link]
      /\ \A l \in Visit : LinkInv(l) /\ VisitInv(l)
  BY LinksStep DEF LoginInv, TablesOK
<1>1. ASSUME \A l \in Visit : links'[l].of = links[l].of /\ links'[l].by = links[l].by
      PROVE  UNCHANGED OneShotLink!vars
  BY <1>1 DEF OneShotLink!vars
<1>2. ASSUME NEW v \in Visit, CreateLink(v) PROVE OneShotLink!Next
  <2>1. /\ links[v].of = NoEmail /\ links[v].by = NoVisit /\ Who(v) \in Email
        /\ links'[v].of = Who(v) /\ links'[v].by = NoVisit
        /\ \A l \in Visit \ {v} : links'[l] = links[l]
    BY <1>a, <1>2 DEF CreateLink, At, LinkInv, VisitInv, NoLink
  <2>2. PICK p \in Email : p = Who(v)
    BY <2>1
  <2>3. OneShotLink!Grant(v, p)
    BY <2>1, <2>2 DEF OneShotLink!Grant
  <2>. QED
    BY <2>3 DEF OneShotLink!Next
<1>3. ASSUME NEW v \in Visit, ConsumeLink(v), ~(UNCHANGED links) PROVE OneShotLink!Next
  <2>. DEFINE t == visit[v].link
  <2>1. t \in Visit /\ links[t].mailed /\ At(v, "consume")
    BY <1>a, <1>3 DEF ConsumeLink, VisitInv, At
  <2>2. links[t].by = NoVisit /\ links' = [links EXCEPT ![t].by = v]
    BY <1>3 DEF ConsumeLink
  <2>3. links[t].of # NoEmail
    BY <1>a, <2>1 DEF LinkInv, NoLink
  <2>4. \A u \in Visit : links[u].by # v
    BY <1>a, <2>1, LoginAssumption DEF LinkInv, At
  <2>. HIDE DEF t
  <2>5. links'[t].by = v /\ links'[t].of = links[t].of /\ \A l \in Visit \ {t} : links'[l] = links[l]
    BY <1>a, <2>1, <2>2 DEF Link
  <2>6. [l \in Visit |-> links'[l].by] = [[l \in Visit |-> links[l].by] EXCEPT ![t] = v]
    BY <2>1, <2>5
  <2>7. [l \in Visit |-> links'[l].of] = [l \in Visit |-> links[l].of]
    BY <2>1, <2>5
  <2>8. OneShotLink!Spend(t, v)
    BY <2>1, <2>2, <2>3, <2>4, <2>6, <2>7 DEF OneShotLink!Spend
  <2>. QED
    BY <2>1, <2>8 DEF OneShotLink!Next
<1>4. ASSUME NEW v \in Visit, Start(v) \/ Continue(v) PROVE [OneShotLink!Next]_(OneShotLink!vars)
  <2>1. CASE Mail(v) \/ UNCHANGED links
    <3>1. \A l \in Visit : links'[l].of = links[l].of /\ links'[l].by = links[l].by
      BY <1>a, <2>1 DEF Mail, Link
    <3>. QED
      BY <1>1, <3>1
  <2>2. CASE CreateLink(v)
    BY <1>2, <2>2
  <2>3. CASE ConsumeLink(v) /\ ~(UNCHANGED links)
    BY <1>3, <2>3
  <2>. QED
    BY <1>4, <2>1, <2>2, <2>3, LinksMove
<1>5. CASE Clock \/ LoginRestart \/ UNCHANGED loginVars
  <2>1. \A l \in Visit : links'[l].of = links[l].of /\ links'[l].by = links[l].by
    BY <1>a, <1>5 DEF Clock, LinkExpires, HourPasses, LockLapses, LoginRestart, loginVars, Link
  <2>. QED
    BY <1>1, <2>1
<1>. QED
  BY <1>4, <1>5 DEF LoginNext

\* The links of Login implement the abstract one-shot approvals: a link is mailed to
\* one address and lets one visit in (MagicLinkRepo.consume).
THEOREM LinksImplementOneShot == LoginSpec => LinksAreOneShot
<1>1. LoginInit => OneShotLink!Init
  BY DEF LoginInit, OneShotLink!Init, NoLink
<1>2. LoginInv /\ [LoginNext]_loginVars => [OneShotLink!Next]_(OneShotLink!vars)
  BY OneShotStep
<1>. QED
  BY <1>1, <1>2, LoginInvariance, PTL DEF LoginSpec, LinksAreOneShot, OneShotLink!Spec
=============================================================================
