--------------------------- MODULE OAuthProofs ---------------------------
(***************************************************************************)
(* Theorems about OAuth, McpRequests and ToolSurface, what a client meets  *)
(* on its way to a tool, for any calls, clients, shops, HTTP requests,     *)
(* tools and ways to register them, any number of restarts and expiries.   *)
(***************************************************************************)
EXTENDS OAuth, McpRequests, ToolSurface, TLAPS

\* What a secret, or a call, says of its credential is what the credential says.
Backed(x) ==
  x.cred \in Call /\ creds[x.cred].client = x.client /\ creds[x.cred].state # "none"

SecretsBacked ==
  \A t \in Call : \A s \in {codes[t], access[t], refresh[t]} : s.state # "none" => Backed(s)

\* The secret a call brings was issued.
WasIssued(c) ==
  \/ call[c].kind = "exchange" /\ codes[Given(c)].state # "none"
  \/ call[c].kind = "rotate" /\ refresh[Given(c)].state # "none"

\* Where a call is says what it knows.
CallInv(c) ==
  /\ call[c].at \in {"fetch", "register", "seed"} => call[c].client \in Client
  /\ CallAt(c, "seed") => creds[c].client = call[c].client /\ creds[c].state # "none"
  /\ call[c].at \in {"find", "consume", "check", "access", "refresh"} =>
       Given(c) \in Call /\ WasIssued(c)
  /\ CallAt(c, "check") => call[c].kind = "exchange"
  /\ CallAt(c, "consume") /\ call[c].kind = "rotate" =>
       /\ call[c].cred = refresh[Given(c)].cred
       /\ call[c].client = refresh[Given(c)].client
  /\ call[c].at \in {"access", "refresh"} => Backed(call[c])
  /\ CallAt(c, "bearer") => Given(c) \in Call
  /\ call[c].at \in {"revoke", "holder"} =>
       call[c].cred \in Call /\ creds[call[c].cred].state # "none"

\* What carries a call's name was created by that call, and once.
BornOnce(c) ==
  /\ creds[c].state # "none" => call[c].at \in {"seed", "end"}
  /\ codes[c].state # "none" => CallAt(c, "end")
  /\ access[c].state # "none" => call[c].at \in {"refresh", "end"}
  /\ refresh[c].state # "none" => CallAt(c, "end")
  /\ pair[c][1] # "none" =>
       /\ call[c].at \in {"refresh", "end"}
       /\ pair[c] = <<call[c].kind, Given(c)>>
       /\ Given(c) \in Call /\ WasIssued(c)

\* A call past the statement that uses up its secret, and one that found it unspent.
PastUse(c) == call[c].at \in {"check", "access", "refresh"} \/ pair[c][1] # "none"
Spender(c) == CallAt(c, "consume") \/ PastUse(c)

UsedUp(c) ==
  PastUse(c) =>
    \/ call[c].kind = "exchange" /\ codes[Given(c)].state = "spent"
    \/ call[c].kind = "rotate" /\ refresh[Given(c)].state = "spent"

RivalsKnown(c, d) ==
  c # d /\ Spender(c) /\ Spender(d) /\ call[c].kind = call[d].kind /\ Given(c) = Given(d)
    => rivals[c] # {} \/ rivals[d] # {}

\* A credential of ClientKeepsAccess.
WaitsFor(c, r) ==
  \/ CallAt(c, "seed") /\ r = c
  \/ CallAt(c, "check") /\ r = codes[Given(c)].cred
  \/ call[c].at \in {"access", "refresh"} /\ r = call[c].cred
Reaches(t, r) ==
  \/ codes[t].cred = r /\ codes[t].state = "live"
  \/ refresh[t].cred = r /\ refresh[t].state = "live"
KeepsAccess(r) ==
  creds[r].state = "live" /\ creds[r].client # NoClient /\ r \notin broken
    => \E t \in Call : WaitsFor(t, r) \/ Reaches(t, r)

\* A revoked credential stays revoked.
BarredAreRevoked == \A c \in Call : \A r \in barred[c] : Revoked(r)

\* The part of OAuthTypeOK that says what fields there are.
Shapes ==
  /\ creds \in [Call -> Credential] /\ codes \in [Call -> Secret]
  /\ access \in [Call -> Secret] /\ refresh \in [Call -> Secret]
  /\ call \in [Call -> CallRequest]
Notes ==
  /\ clients \in SUBSET Client
  /\ rivals \in [Call -> SUBSET Call] /\ barred \in [Call -> SUBSET Call]
  /\ pair \in [Call -> {"none", "exchange", "rotate"} \X (Call \cup {NoCall})]
  /\ broken \in SUBSET Call

\* The inductive invariant of OAuth.
OAuthInv ==
  /\ OAuthTypeOK
  /\ SecretsBacked
  /\ \A c \in Call : CallInv(c) /\ BornOnce(c) /\ UsedUp(c)
  /\ \A c, d \in Call : RivalsKnown(c, d)
  /\ BarredAreRevoked
  /\ RevokedStaysOut
  /\ \A r \in Call : KeepsAccess(r)
-----------------------------------------------------------------------------
\* Before the first request nothing is issued.
LEMMA OAuthInitInv == OAuthInit => OAuthInv
  BY OAuthAssumption DEF OAuthInit, OAuthInv, OAuthTypeOK, Credential, Secret, Absent, State,
     CallPlace, CallKind, CallRequest, UnsentCall, SecretsBacked, Backed, CallInv, BornOnce,
     UsedUp, PastUse, Spender, RivalsKnown, BarredAreRevoked, RevokedStaysOut, KeepsAccess, CallAt,
     Given

\* Every step keeps the tables and the requests in their types.
LEMMA ShapesStep ==
  ASSUME OAuthInv, [OAuthNext]_oauthVars
  PROVE  Shapes'
<1>a. call \in [Call -> CallRequest] /\ (\A d \in Call : CallInv(d))
  BY DEF OAuthInv, OAuthTypeOK
<1>b. /\ creds \in [Call -> Credential] /\ codes \in [Call -> Secret]
      /\ access \in [Call -> Secret] /\ refresh \in [Call -> Secret]
  BY DEF OAuthInv, OAuthTypeOK
<1>1. ASSUME NEW c \in Call, NEW k \in Client, OpenPage(c, k) PROVE Shapes'
  <2>1. call' \in [Call -> CallRequest]
    BY <1>1, <1>a DEF OpenPage, BeginCall, UnsentCall, CallAt, CallRequest, CallPlace,
       CallKind, Given, tables
  <2>2. /\ creds' \in [Call -> Credential] /\ codes' \in [Call -> Secret]
        /\ access' \in [Call -> Secret] /\ refresh' \in [Call -> Secret]
    BY <1>1, <1>b DEF OpenPage, tables
  <2>. QED
    BY <2>1, <2>2 DEF Shapes
<1>2. ASSUME NEW c \in Call, FetchClient(c) PROVE Shapes'
  <2>1. call' \in [Call -> CallRequest]
    BY <1>2, <1>a DEF FetchClient, EndCall, GotoCall, CallAt, CallRequest, CallPlace, CallKind,
       Given, tables
  <2>2. /\ creds' \in [Call -> Credential] /\ codes' \in [Call -> Secret]
        /\ access' \in [Call -> Secret] /\ refresh' \in [Call -> Secret]
    BY <1>2, <1>b DEF FetchClient, tables
  <2>. QED
    BY <2>1, <2>2 DEF Shapes
<1>3. ASSUME NEW c \in Call, RegisterClient(c) PROVE Shapes'
  <2>1. call' \in [Call -> CallRequest]
    BY <1>3, <1>a DEF RegisterClient, EndCall, GotoCall, CallAt, CallRequest, CallPlace,
       CallKind, Given, tables
  <2>2. /\ creds' \in [Call -> Credential] /\ codes' \in [Call -> Secret]
        /\ access' \in [Call -> Secret] /\ refresh' \in [Call -> Secret]
    BY <1>3, <1>b DEF RegisterClient, tables
  <2>. QED
    BY <2>1, <2>2 DEF Shapes
<1>4. ASSUME NEW c \in Call, NEW k \in Client, NEW s \in Shop, Approve(c, k, s) PROVE Shapes'
  <2>1. call' \in [Call -> CallRequest]
    BY <1>4, <1>a DEF Approve, BeginCall, UnsentCall, CallAt, CallRequest, CallPlace, CallKind,
       Given, tables
  <2>2. /\ creds' \in [Call -> Credential] /\ codes' \in [Call -> Secret]
        /\ access' \in [Call -> Secret] /\ refresh' \in [Call -> Secret]
    BY <1>4, <1>b DEF Approve, tables, Credential, State
  <2>. QED
    BY <2>1, <2>2 DEF Shapes
<1>5. ASSUME NEW c \in Call, CreateCode(c) PROVE Shapes'
  <2>1. call' \in [Call -> CallRequest]
    BY <1>5, <1>a DEF CreateCode, EndCall, GotoCall, CallAt, CallRequest, CallPlace, CallKind,
       Given, tables
  <2>2. /\ creds' \in [Call -> Credential] /\ codes' \in [Call -> Secret]
        /\ access' \in [Call -> Secret] /\ refresh' \in [Call -> Secret]
    BY <1>5, <1>b, <1>a DEF CreateCode, tables, Secret, State, CallInv, CallAt
  <2>. QED
    BY <2>1, <2>2 DEF Shapes
<1>6. ASSUME NEW c \in Call, NEW s \in Shop, CreateToken(c, s) PROVE Shapes'
  <2>1. call' \in [Call -> CallRequest]
    BY <1>6, <1>a DEF CreateToken, BeginCall, UnsentCall, CallAt, CallRequest, CallPlace,
       CallKind, Given, tables
  <2>2. /\ creds' \in [Call -> Credential] /\ codes' \in [Call -> Secret]
        /\ access' \in [Call -> Secret] /\ refresh' \in [Call -> Secret]
    BY <1>6, <1>b DEF CreateToken, tables, Credential, State
  <2>. QED
    BY <2>1, <2>2 DEF Shapes
<1>7. ASSUME NEW c \in Call, NEW k \in Client, NEW t \in Call, BeginExchange(c, k, t) PROVE Shapes'
  <2>1. call' \in [Call -> CallRequest]
    BY <1>7, <1>a DEF BeginExchange, BeginCall, UnsentCall, CallAt, CallRequest, CallPlace,
       CallKind, Given, tables
  <2>2. /\ creds' \in [Call -> Credential] /\ codes' \in [Call -> Secret]
        /\ access' \in [Call -> Secret] /\ refresh' \in [Call -> Secret]
    BY <1>7, <1>b DEF BeginExchange, tables
  <2>. QED
    BY <2>1, <2>2 DEF Shapes
<1>8. ASSUME NEW c \in Call, NEW k \in Client, NEW t \in Call, BeginRotate(c, k, t) PROVE Shapes'
  <2>1. call' \in [Call -> CallRequest]
    BY <1>8, <1>a DEF BeginRotate, BeginCall, UnsentCall, CallAt, CallRequest, CallPlace,
       CallKind, Given, tables
  <2>2. /\ creds' \in [Call -> Credential] /\ codes' \in [Call -> Secret]
        /\ access' \in [Call -> Secret] /\ refresh' \in [Call -> Secret]
    BY <1>8, <1>b DEF BeginRotate, tables
  <2>. QED
    BY <2>1, <2>2 DEF Shapes
<1>9. ASSUME NEW c \in Call, FindCode(c) PROVE Shapes'
  <2>1. call' \in [Call -> CallRequest]
    BY <1>9, <1>a DEF FindCode, Spending, EndCall, GotoCall, CallAt, CallRequest, CallPlace,
       CallKind, Given, tables
  <2>2. /\ creds' \in [Call -> Credential] /\ codes' \in [Call -> Secret]
        /\ access' \in [Call -> Secret] /\ refresh' \in [Call -> Secret]
    BY <1>9, <1>b DEF FindCode, tables
  <2>. QED
    BY <2>1, <2>2 DEF Shapes
<1>10. ASSUME NEW c \in Call, ConsumeCode(c) PROVE Shapes'
  <2>1. call' \in [Call -> CallRequest]
    BY <1>10, <1>a DEF ConsumeCode, Secret, EndCall, GotoCall, CallAt, CallRequest, CallPlace,
       CallKind, Given, tables
  <2>2. creds' \in [Call -> Credential]
    BY <1>10, <1>a, <1>b DEF ConsumeCode, tables, Credential, State, CallInv, CallAt, EndCall,
       GotoCall
  <2>3. codes' \in [Call -> Secret]
    BY <1>10, <1>a, <1>b DEF ConsumeCode, tables, Secret, State, CallInv, CallAt, Given,
       WasIssued, Backed
  <2>4. access' \in [Call -> Secret]
    BY <1>10, <1>a, <1>b DEF ConsumeCode, tables, Secret, State, CallInv, CallAt, Given,
       WasIssued, Backed
  <2>5. refresh' \in [Call -> Secret]
    BY <1>10, <1>a, <1>b DEF ConsumeCode, tables, Secret, State, CallInv, CallAt, Given,
       WasIssued, Backed
  <2>. QED
    BY <2>1, <2>2, <2>3, <2>4, <2>5 DEF Shapes
<1>11. ASSUME NEW c \in Call, CheckCode(c) PROVE Shapes'
  <2>1. call' \in [Call -> CallRequest]
    BY <1>11, <1>a, <1>b DEF CheckCode, EndCall, GotoCall, CallAt, CallRequest, CallPlace,
       CallKind, Given, tables, Secret
  <2>2. /\ creds' \in [Call -> Credential] /\ codes' \in [Call -> Secret]
        /\ access' \in [Call -> Secret] /\ refresh' \in [Call -> Secret]
    BY <1>11, <1>b DEF CheckCode, tables
  <2>. QED
    BY <2>1, <2>2 DEF Shapes
<1>12. ASSUME NEW c \in Call, FindRefresh(c) PROVE Shapes'
  <2>1. call' \in [Call -> CallRequest]
    BY <1>12, <1>a, <1>b DEF FindRefresh, Spending, EndCall, GotoCall, CallAt, CallRequest,
       CallPlace, CallKind, Given, tables, Secret
  <2>2. /\ creds' \in [Call -> Credential] /\ codes' \in [Call -> Secret]
        /\ access' \in [Call -> Secret] /\ refresh' \in [Call -> Secret]
    BY <1>12, <1>b DEF FindRefresh, tables
  <2>. QED
    BY <2>1, <2>2 DEF Shapes
<1>13. ASSUME NEW c \in Call, RevokeRefresh(c) PROVE Shapes'
  <2>1. call' \in [Call -> CallRequest]
    BY <1>13, <1>a DEF RevokeRefresh, Secret, EndCall, GotoCall, CallAt, CallRequest,
       CallPlace, CallKind, Given, tables
  <2>2. /\ creds' \in [Call -> Credential] /\ codes' \in [Call -> Secret]
        /\ access' \in [Call -> Secret] /\ refresh' \in [Call -> Secret]
    BY ZenonT(40), <1>13, <1>b DEF RevokeRefresh, tables, Secret, State, Given
  <2>. QED
    BY <2>1, <2>2 DEF Shapes
<1>14. ASSUME NEW c \in Call, IssueAccess(c) PROVE Shapes'
  <2>1. call' \in [Call -> CallRequest]
    BY <1>14, <1>a DEF IssueAccess, EndCall, GotoCall, CallAt, CallRequest, CallPlace,
       CallKind, Given, tables
  <2>2. /\ creds' \in [Call -> Credential] /\ codes' \in [Call -> Secret]
        /\ access' \in [Call -> Secret] /\ refresh' \in [Call -> Secret]
    BY <1>14, <1>b, <1>a DEF IssueAccess, tables, Secret, State, CallInv, WasIssued, Backed,
       CallRequest, CallAt
  <2>. QED
    BY <2>1, <2>2 DEF Shapes
<1>15. ASSUME NEW c \in Call, IssueRefresh(c) PROVE Shapes'
  <2>1. call' \in [Call -> CallRequest]
    BY <1>15, <1>a DEF IssueRefresh, EndCall, GotoCall, CallAt, CallRequest, CallPlace,
       CallKind, Given, tables
  <2>2. /\ creds' \in [Call -> Credential] /\ codes' \in [Call -> Secret]
        /\ access' \in [Call -> Secret] /\ refresh' \in [Call -> Secret]
    BY <1>15, <1>b, <1>a DEF IssueRefresh, tables, Secret, State, CallInv, WasIssued, Backed,
       CallRequest, CallAt
  <2>. QED
    BY <2>1, <2>2 DEF Shapes
<1>16. ASSUME NEW c \in Call, NEW t \in Call, DropToken(c, t) PROVE Shapes'
  <2>1. call' \in [Call -> CallRequest]
    BY <1>16, <1>a DEF DropToken, Secret, BeginCall, UnsentCall, CallAt, CallRequest,
       CallPlace, CallKind, Given, tables
  <2>2. /\ creds' \in [Call -> Credential] /\ codes' \in [Call -> Secret]
        /\ access' \in [Call -> Secret] /\ refresh' \in [Call -> Secret]
    BY <1>16, <1>b DEF DropToken, tables, Secret, State
  <2>. QED
    BY <2>1, <2>2 DEF Shapes
<1>17. ASSUME NEW c \in Call, NEW t \in Call, BeginWithdraw(c, t) PROVE Shapes'
  <2>1. call' \in [Call -> CallRequest]
    BY <1>17, <1>a DEF BeginWithdraw, BeginCall, UnsentCall, CallAt, CallRequest, CallPlace,
       CallKind, Given, tables
  <2>2. /\ creds' \in [Call -> Credential] /\ codes' \in [Call -> Secret]
        /\ access' \in [Call -> Secret] /\ refresh' \in [Call -> Secret]
    BY <1>17, <1>b DEF BeginWithdraw, tables
  <2>. QED
    BY <2>1, <2>2 DEF Shapes
<1>18. ASSUME NEW c \in Call, RevokeCredential(c) PROVE Shapes'
  <2>1. call' \in [Call -> CallRequest]
    BY <1>18, <1>a DEF RevokeCredential, Credential, EndCall, GotoCall, CallAt, CallRequest,
       CallPlace, CallKind, Given, tables
  <2>2. /\ creds' \in [Call -> Credential] /\ codes' \in [Call -> Secret]
        /\ access' \in [Call -> Secret] /\ refresh' \in [Call -> Secret]
    BY SMTT(40), <1>18, <1>b, <1>a DEF RevokeCredential, tables, Credential, State, CallInv, CallAt
  <2>. QED
    BY <2>1, <2>2 DEF Shapes
<1>19. ASSUME NEW c \in Call, NEW s \in Shop, NEW t \in Call, BeginUse(c, s, t) PROVE Shapes'
  <2>1. call' \in [Call -> CallRequest]
    BY <1>19, <1>a DEF BeginUse, Revoked, BeginCall, UnsentCall, CallAt, CallRequest,
       CallPlace, CallKind, Given, tables
  <2>2. /\ creds' \in [Call -> Credential] /\ codes' \in [Call -> Secret]
        /\ access' \in [Call -> Secret] /\ refresh' \in [Call -> Secret]
    BY <1>19, <1>b DEF BeginUse, tables
  <2>. QED
    BY <2>1, <2>2 DEF Shapes
<1>20. ASSUME NEW c \in Call, FindBearer(c) PROVE Shapes'
  <2>1. call' \in [Call -> CallRequest]
    BY <1>20, <1>a, <1>b DEF FindBearer, EndCall, GotoCall, CallAt, CallRequest, CallPlace,
       CallKind, Given, tables, Secret, tables, history
  <2>2. /\ creds' \in [Call -> Credential] /\ codes' \in [Call -> Secret]
        /\ access' \in [Call -> Secret] /\ refresh' \in [Call -> Secret]
    BY <1>20, <1>b DEF FindBearer, tables
  <2>. QED
    BY <2>1, <2>2 DEF Shapes
<1>21. ASSUME NEW c \in Call, FindHolder(c) PROVE Shapes'
  <2>1. call' \in [Call -> CallRequest]
    BY <1>21, <1>a DEF FindHolder, Revoked, EndCall, GotoCall, CallAt, CallRequest, CallPlace,
       CallKind, Given, tables
  <2>2. /\ creds' \in [Call -> Credential] /\ codes' \in [Call -> Secret]
        /\ access' \in [Call -> Secret] /\ refresh' \in [Call -> Secret]
    BY <1>21, <1>b DEF FindHolder, tables
  <2>. QED
    BY <2>1, <2>2 DEF Shapes
<1>22. ASSUME NEW c \in Call, Expire(c) PROVE Shapes'
  <2>1. call' \in [Call -> CallRequest]
    BY <1>22, <1>a DEF Expire, Secret, Credential, CallAt
  <2>2. creds' \in [Call -> Credential]
    BY <1>22, <1>a, <1>b DEF Expire, tables, Credential, State, CallInv, CallAt, EndCall,
       GotoCall
  <2>3. codes' \in [Call -> Secret]
    BY <1>22, <1>a, <1>b DEF Expire, tables, Secret, State, CallInv, CallAt, Given, WasIssued,
       Backed
  <2>4. access' \in [Call -> Secret]
    BY <1>22, <1>a, <1>b DEF Expire, tables, Secret, State, CallInv, CallAt, Given, WasIssued,
       Backed
  <2>5. refresh' \in [Call -> Secret]
    BY <1>22, <1>a, <1>b DEF Expire, tables, Secret, State, CallInv, CallAt, Given, WasIssued,
       Backed
  <2>. QED
    BY <2>1, <2>2, <2>3, <2>4, <2>5 DEF Shapes
<1>23. CASE OAuthRestart
  <2>1. call' \in [Call -> CallRequest]
    BY <1>23, <1>a DEF OAuthRestart, Waiting, CallAt, CallRequest, CallPlace, CallKind, Given,
       tables
  <2>2. /\ creds' \in [Call -> Credential] /\ codes' \in [Call -> Secret]
        /\ access' \in [Call -> Secret] /\ refresh' \in [Call -> Secret]
    BY <1>23, <1>b DEF OAuthRestart, tables
  <2>. QED
    BY <2>1, <2>2 DEF Shapes
<1>24. CASE UNCHANGED oauthVars
  <2>1. call' \in [Call -> CallRequest]
    BY <1>24, <1>a DEF oauthVars, CallAt
  <2>2. /\ creds' \in [Call -> Credential] /\ codes' \in [Call -> Secret]
        /\ access' \in [Call -> Secret] /\ refresh' \in [Call -> Secret]
    BY <1>24, <1>b DEF oauthVars, tables, oauthVars
  <2>. QED
    BY <2>1, <2>2 DEF Shapes
<1>. QED
  BY <1>1, <1>2, <1>3, <1>4, <1>5, <1>6, <1>7, <1>8, <1>9, <1>10, <1>11, <1>12, <1>13, <1>14,
     <1>15, <1>16, <1>17, <1>18, <1>19, <1>20, <1>21, <1>22, <1>23, <1>24 DEF OAuthNext,
     StartCall, ContinueCall

\* Every step keeps the histories in their types.
LEMMA NotesStep ==
  ASSUME OAuthInv, [OAuthNext]_oauthVars
  PROVE  Notes'
<1>0. Shapes /\ Notes /\ SecretsBacked /\ (\A d \in Call : CallInv(d))
  BY DEF OAuthInv, OAuthTypeOK, Shapes, Notes
<1>. USE <1>0 DEF Notes, CallInv, Shapes, SecretsBacked, Backed, WasIssued
<1>1. ASSUME NEW c \in Call, NEW k \in Client, OpenPage(c, k) PROVE Notes'
  BY <1>1 DEF OpenPage, BeginCall, UnsentCall, CallAt, CallRequest, tables, history, Given
<1>2. ASSUME NEW c \in Call, FetchClient(c) PROVE Notes'
  <2>1. CASE GotoCall(c, "register")
    BY <1>2, <2>1 DEF FetchClient, EndCall, GotoCall, CallAt, CallRequest, tables, history,
       Given
  <2>2. CASE EndCall(c)
    BY <1>2, <2>2 DEF FetchClient, EndCall, GotoCall, CallAt, CallRequest, tables, history,
       Given
  <2>. QED
    BY <1>2, <2>1, <2>2 DEF FetchClient
<1>3. ASSUME NEW c \in Call, RegisterClient(c) PROVE Notes'
  BY <1>3 DEF RegisterClient, EndCall, GotoCall, CallAt, CallRequest, tables, history, Given
<1>4. ASSUME NEW c \in Call, NEW k \in Client, NEW s \in Shop, Approve(c, k, s) PROVE Notes'
  BY <1>4 DEF Approve, BeginCall, UnsentCall, CallAt, CallRequest, tables, history, Given
<1>5. ASSUME NEW c \in Call, CreateCode(c) PROVE Notes'
  BY <1>5 DEF CreateCode, EndCall, GotoCall, CallAt, CallRequest, tables, history, Given
<1>6. ASSUME NEW c \in Call, NEW s \in Shop, CreateToken(c, s) PROVE Notes'
  BY <1>6 DEF CreateToken, BeginCall, UnsentCall, CallAt, CallRequest, tables, history, Given
<1>7. ASSUME NEW c \in Call, NEW k \in Client, NEW t \in Call, BeginExchange(c, k, t) PROVE Notes'
  BY <1>7 DEF BeginExchange, BeginCall, UnsentCall, CallAt, CallRequest, tables, history, Given
<1>8. ASSUME NEW c \in Call, NEW k \in Client, NEW t \in Call, BeginRotate(c, k, t) PROVE Notes'
  BY <1>8 DEF BeginRotate, BeginCall, UnsentCall, CallAt, CallRequest, tables, history, Given
<1>9. ASSUME NEW c \in Call, FindCode(c) PROVE Notes'
  <2>1. CASE /\ codes[Given(c)].state = "live" /\ GotoCall(c, "consume")
             /\ rivals' = [rivals EXCEPT ![c] = Spending("exchange", Given(c))]
    BY <1>9, <2>1 DEF FindCode, Spending, EndCall, GotoCall, CallAt, CallRequest, tables,
       history, Given
  <2>2. CASE EndCall(c) /\ UNCHANGED rivals
    BY <1>9, <2>2 DEF FindCode, Spending, EndCall, GotoCall, CallAt, CallRequest, tables,
       history, Given
  <2>. QED
    BY <1>9, <2>1, <2>2 DEF FindCode
<1>10. ASSUME NEW c \in Call, ConsumeCode(c) PROVE Notes'
  BY <1>10 DEF ConsumeCode, Secret, EndCall, GotoCall, CallAt, CallRequest, tables, history,
     Given
<1>11. ASSUME NEW c \in Call, CheckCode(c) PROVE Notes'
  BY <1>11 DEF CheckCode, EndCall, GotoCall, CallAt, CallRequest, tables, history, Given
<1>12. ASSUME NEW c \in Call, FindRefresh(c) PROVE Notes'
  <2>1. CASE /\ refresh[Given(c)].state = "live" /\ refresh[Given(c)].client = call[c].client
             /\ call' = [call EXCEPT ![c].at = "consume", ![c].cred = refresh[Given(c)].cred]
             /\ rivals' = [rivals EXCEPT ![c] = Spending("rotate", Given(c))]
    BY <1>12, <2>1 DEF FindRefresh, Spending, EndCall, GotoCall, CallAt, CallRequest, tables,
       history, Given
  <2>2. CASE EndCall(c) /\ UNCHANGED rivals
    BY <1>12, <2>2 DEF FindRefresh, Spending, EndCall, GotoCall, CallAt, CallRequest, tables,
       history, Given
  <2>. QED
    BY <1>12, <2>1, <2>2 DEF FindRefresh
<1>13. ASSUME NEW c \in Call, RevokeRefresh(c) PROVE Notes'
  BY <1>13 DEF RevokeRefresh, Secret, EndCall, GotoCall, CallAt, CallRequest, tables, history,
     Given
<1>14. ASSUME NEW c \in Call, IssueAccess(c) PROVE Notes'
  BY <1>14 DEF IssueAccess, EndCall, GotoCall, CallAt, CallRequest, tables, history, Given
<1>15. ASSUME NEW c \in Call, IssueRefresh(c) PROVE Notes'
  BY <1>15 DEF IssueRefresh, EndCall, GotoCall, CallAt, CallRequest, tables, history, Given
<1>16. ASSUME NEW c \in Call, NEW t \in Call, DropToken(c, t) PROVE Notes'
  <2>1. CASE access[t].state # "none" /\ access' = [access EXCEPT ![t].state = "spent"] /\ UNCHANGED <<refresh, broken>>
    BY <1>16, <2>1 DEF DropToken, Secret, BeginCall, UnsentCall, CallAt, CallRequest, tables,
       history, Given
  <2>2. CASE /\ refresh[t].state # "none" /\ refresh' = [refresh EXCEPT ![t].state = "spent"]
             /\ broken' = broken \cup {refresh[t].cred} /\ UNCHANGED access
    BY <1>16, <2>2 DEF DropToken, Secret, BeginCall, UnsentCall, CallAt, CallRequest, tables,
       history, Given
  <2>. QED
    BY <1>16, <2>1, <2>2 DEF DropToken
<1>17. ASSUME NEW c \in Call, NEW t \in Call, BeginWithdraw(c, t) PROVE Notes'
  BY <1>17 DEF BeginWithdraw, BeginCall, UnsentCall, CallAt, CallRequest, tables, history, Given
<1>18. ASSUME NEW c \in Call, RevokeCredential(c) PROVE Notes'
  BY <1>18 DEF RevokeCredential, Credential, EndCall, GotoCall, CallAt, CallRequest, tables,
     history, Given
<1>19. ASSUME NEW c \in Call, NEW s \in Shop, NEW t \in Call, BeginUse(c, s, t) PROVE Notes'
  BY <1>19 DEF BeginUse, Revoked, BeginCall, UnsentCall, CallAt, CallRequest, tables, history,
     Given
<1>20. ASSUME NEW c \in Call, FindBearer(c) PROVE Notes'
  BY <1>20 DEF FindBearer, EndCall, GotoCall, CallAt, CallRequest, tables, history, Given
<1>21. ASSUME NEW c \in Call, FindHolder(c) PROVE Notes'
  <2>1. CASE GotoCall(c, "served")
    BY <1>21, <2>1 DEF FindHolder, Revoked, EndCall, GotoCall, CallAt, CallRequest, tables,
       history, Given
  <2>2. CASE EndCall(c)
    BY <1>21, <2>2 DEF FindHolder, Revoked, EndCall, GotoCall, CallAt, CallRequest, tables,
       history, Given
  <2>. QED
    BY <1>21, <2>1, <2>2 DEF FindHolder
<1>22. ASSUME NEW c \in Call, Expire(c) PROVE Notes'
  <2>1. CASE /\ codes[c].state = "live" /\ codes' = [codes EXCEPT ![c].state = "expired"]
             /\ broken' = broken \cup {codes[c].cred} /\ UNCHANGED <<creds, access, refresh>>
    BY <1>22, <2>1 DEF Expire, Secret, Credential, CallAt, tables, history, Given
  <2>2. CASE /\ access[c].state = "live" /\ access' = [access EXCEPT ![c].state = "expired"]
             /\ UNCHANGED <<creds, codes, refresh, broken>>
    BY <1>22, <2>2 DEF Expire, Secret, Credential, CallAt, tables, history, Given
  <2>3. CASE /\ refresh[c].state = "live" /\ refresh' = [refresh EXCEPT ![c].state = "expired"]
             /\ broken' = broken \cup {refresh[c].cred} /\ UNCHANGED <<creds, codes, access>>
    BY <1>22, <2>3 DEF Expire, Secret, Credential, CallAt, tables, history, Given
  <2>4. CASE /\ creds[c].client = NoClient /\ creds[c].state = "live"
             /\ creds' = [creds EXCEPT ![c].state = "expired"]
             /\ UNCHANGED <<codes, access, refresh, broken>>
    BY <1>22, <2>4 DEF Expire, Secret, Credential, CallAt, tables, history, Given
  <2>. QED
    BY <1>22, <2>1, <2>2, <2>3, <2>4 DEF Expire
<1>23. CASE OAuthRestart
  BY <1>23 DEF OAuthRestart, Waiting, CallAt, CallRequest, tables, history, Given
<1>24. CASE UNCHANGED oauthVars
  BY <1>24 DEF oauthVars, CallAt, tables, history, Given
<1>. QED
  BY <1>1, <1>2, <1>3, <1>4, <1>5, <1>6, <1>7, <1>8, <1>9, <1>10, <1>11, <1>12, <1>13, <1>14,
     <1>15, <1>16, <1>17, <1>18, <1>19, <1>20, <1>21, <1>22, <1>23, <1>24 DEF OAuthNext,
     StartCall, ContinueCall

\* Every step keeps a token, a code, and the credential it stands for in line.
LEMMA BackedStep ==
  ASSUME OAuthInv, [OAuthNext]_oauthVars
  PROVE  SecretsBacked'
<1>0. Shapes /\ SecretsBacked /\ (\A d \in Call : CallInv(d) /\ BornOnce(d))
  BY DEF OAuthInv, OAuthTypeOK, Shapes, Notes
<1>. USE <1>0 DEF Shapes, SecretsBacked, Backed, CallInv, BornOnce
<1>1. ASSUME NEW c \in Call, NEW k \in Client, OpenPage(c, k) PROVE SecretsBacked'
  BY <1>1 DEF OpenPage, BeginCall, UnsentCall, CallAt, CallRequest, tables, history, Given
<1>2. ASSUME NEW c \in Call, FetchClient(c) PROVE SecretsBacked'
  <2>1. CASE GotoCall(c, "register")
    BY <1>2, <2>1 DEF FetchClient, EndCall, GotoCall, CallAt, CallRequest, tables, history,
       Given
  <2>2. CASE EndCall(c)
    BY <1>2, <2>2 DEF FetchClient, EndCall, GotoCall, CallAt, CallRequest, tables, history,
       Given
  <2>. QED
    BY <1>2, <2>1, <2>2 DEF FetchClient
<1>3. ASSUME NEW c \in Call, RegisterClient(c) PROVE SecretsBacked'
  BY <1>3 DEF RegisterClient, EndCall, GotoCall, CallAt, CallRequest, tables, history, Given
<1>4. ASSUME NEW c \in Call, NEW k \in Client, NEW s \in Shop, Approve(c, k, s) PROVE SecretsBacked'
  BY <1>4 DEF Approve, BeginCall, UnsentCall, CallAt, CallRequest, tables, history, Given
<1>5. ASSUME NEW c \in Call, CreateCode(c) PROVE SecretsBacked'
  BY <1>5 DEF CreateCode, EndCall, GotoCall, CallAt, CallRequest, tables, history, Given
<1>6. ASSUME NEW c \in Call, NEW s \in Shop, CreateToken(c, s) PROVE SecretsBacked'
  BY <1>6 DEF CreateToken, BeginCall, UnsentCall, CallAt, CallRequest, tables, history, Given
<1>7. ASSUME NEW c \in Call, NEW k \in Client, NEW t \in Call, BeginExchange(c, k, t) PROVE SecretsBacked'
  BY <1>7 DEF BeginExchange, BeginCall, UnsentCall, CallAt, CallRequest, tables, history, Given
<1>8. ASSUME NEW c \in Call, NEW k \in Client, NEW t \in Call, BeginRotate(c, k, t) PROVE SecretsBacked'
  BY <1>8 DEF BeginRotate, BeginCall, UnsentCall, CallAt, CallRequest, tables, history, Given
<1>9. ASSUME NEW c \in Call, FindCode(c) PROVE SecretsBacked'
  <2>1. CASE /\ codes[Given(c)].state = "live" /\ GotoCall(c, "consume")
             /\ rivals' = [rivals EXCEPT ![c] = Spending("exchange", Given(c))]
    BY <1>9, <2>1 DEF FindCode, Spending, EndCall, GotoCall, CallAt, CallRequest, tables,
       history, Given
  <2>2. CASE EndCall(c) /\ UNCHANGED rivals
    BY <1>9, <2>2 DEF FindCode, Spending, EndCall, GotoCall, CallAt, CallRequest, tables,
       history, Given
  <2>. QED
    BY <1>9, <2>1, <2>2 DEF FindCode
<1>10. ASSUME NEW c \in Call, ConsumeCode(c) PROVE SecretsBacked'
  <2>0. Given(c) \in Call /\ codes[Given(c)].state # "none"
    BY <1>10 DEF ConsumeCode, CallAt, CallInv, WasIssued
  <2>1. \A t \in Call : /\ codes'[t].cred = codes[t].cred /\ codes'[t].client = codes[t].client
                        /\ codes'[t].state # "none" => codes[t].state # "none"
    BY <1>10, <2>0 DEF ConsumeCode, Secret
  <2>2. UNCHANGED <<creds, codes, access, refresh>> \/ UNCHANGED <<creds, access, refresh>>
    BY <1>10 DEF ConsumeCode
  <2>. QED
    BY <2>1, <2>2
<1>11. ASSUME NEW c \in Call, CheckCode(c) PROVE SecretsBacked'
  BY <1>11 DEF CheckCode, EndCall, GotoCall, CallAt, CallRequest, tables, history, Given
<1>12. ASSUME NEW c \in Call, FindRefresh(c) PROVE SecretsBacked'
  <2>1. CASE /\ refresh[Given(c)].state = "live" /\ refresh[Given(c)].client = call[c].client
             /\ call' = [call EXCEPT ![c].at = "consume", ![c].cred = refresh[Given(c)].cred]
             /\ rivals' = [rivals EXCEPT ![c] = Spending("rotate", Given(c))]
    BY <1>12, <2>1 DEF FindRefresh, Spending, EndCall, GotoCall, CallAt, CallRequest, tables,
       history, Given
  <2>2. CASE EndCall(c) /\ UNCHANGED rivals
    BY <1>12, <2>2 DEF FindRefresh, Spending, EndCall, GotoCall, CallAt, CallRequest, tables,
       history, Given
  <2>. QED
    BY <1>12, <2>1, <2>2 DEF FindRefresh
<1>13. ASSUME NEW c \in Call, RevokeRefresh(c) PROVE SecretsBacked'
  <2>0. Given(c) \in Call /\ refresh[Given(c)].state # "none"
    BY <1>13 DEF RevokeRefresh, CallAt, CallInv, WasIssued
  <2>1. \A t \in Call : /\ refresh'[t].cred = refresh[t].cred /\ refresh'[t].client = refresh[t].client
                        /\ refresh'[t].state # "none" => refresh[t].state # "none"
    BY <1>13, <2>0 DEF RevokeRefresh, Secret
  <2>2. UNCHANGED <<creds, codes, access, refresh>> \/ UNCHANGED <<creds, codes, access>>
    BY <1>13 DEF RevokeRefresh
  <2>. QED
    BY <2>1, <2>2
<1>14. ASSUME NEW c \in Call, IssueAccess(c) PROVE SecretsBacked'
  BY <1>14 DEF IssueAccess, EndCall, GotoCall, CallAt, CallRequest, tables, history, Given
<1>15. ASSUME NEW c \in Call, IssueRefresh(c) PROVE SecretsBacked'
  BY <1>15 DEF IssueRefresh, EndCall, GotoCall, CallAt, CallRequest, tables, history, Given
<1>16. ASSUME NEW c \in Call, NEW t \in Call, DropToken(c, t) PROVE SecretsBacked'
  <2>1. CASE access[t].state # "none" /\ access' = [access EXCEPT ![t].state = "spent"] /\ UNCHANGED <<refresh, broken>>
    BY <1>16, <2>1 DEF DropToken, Secret, BeginCall, UnsentCall, CallAt, CallRequest, tables,
       history, Given
  <2>2. CASE /\ refresh[t].state # "none" /\ refresh' = [refresh EXCEPT ![t].state = "spent"]
             /\ broken' = broken \cup {refresh[t].cred} /\ UNCHANGED access
    BY <1>16, <2>2 DEF DropToken, Secret, BeginCall, UnsentCall, CallAt, CallRequest, tables,
       history, Given
  <2>. QED
    BY <1>16, <2>1, <2>2 DEF DropToken
<1>17. ASSUME NEW c \in Call, NEW t \in Call, BeginWithdraw(c, t) PROVE SecretsBacked'
  BY <1>17 DEF BeginWithdraw, BeginCall, UnsentCall, CallAt, CallRequest, tables, history, Given
<1>18. ASSUME NEW c \in Call, RevokeCredential(c) PROVE SecretsBacked'
  BY <1>18 DEF RevokeCredential, Credential, EndCall, GotoCall, CallAt, CallRequest, tables,
     history, Given
<1>19. ASSUME NEW c \in Call, NEW s \in Shop, NEW t \in Call, BeginUse(c, s, t) PROVE SecretsBacked'
  BY <1>19 DEF BeginUse, Revoked, BeginCall, UnsentCall, CallAt, CallRequest, tables, history,
     Given
<1>20. ASSUME NEW c \in Call, FindBearer(c) PROVE SecretsBacked'
  BY <1>20 DEF FindBearer, EndCall, GotoCall, CallAt, CallRequest, tables, history, Given
<1>21. ASSUME NEW c \in Call, FindHolder(c) PROVE SecretsBacked'
  <2>1. CASE GotoCall(c, "served")
    BY <1>21, <2>1 DEF FindHolder, Revoked, EndCall, GotoCall, CallAt, CallRequest, tables,
       history, Given
  <2>2. CASE EndCall(c)
    BY <1>21, <2>2 DEF FindHolder, Revoked, EndCall, GotoCall, CallAt, CallRequest, tables,
       history, Given
  <2>. QED
    BY <1>21, <2>1, <2>2 DEF FindHolder
<1>22. ASSUME NEW c \in Call, Expire(c) PROVE SecretsBacked'
  <2>1. CASE /\ codes[c].state = "live" /\ codes' = [codes EXCEPT ![c].state = "expired"]
             /\ broken' = broken \cup {codes[c].cred} /\ UNCHANGED <<creds, access, refresh>>
    BY <1>22, <2>1 DEF Expire, Secret, Credential, CallAt, tables, history, Given
  <2>2. CASE /\ access[c].state = "live" /\ access' = [access EXCEPT ![c].state = "expired"]
             /\ UNCHANGED <<creds, codes, refresh, broken>>
    BY <1>22, <2>2 DEF Expire, Secret, Credential, CallAt, tables, history, Given
  <2>3. CASE /\ refresh[c].state = "live" /\ refresh' = [refresh EXCEPT ![c].state = "expired"]
             /\ broken' = broken \cup {refresh[c].cred} /\ UNCHANGED <<creds, codes, access>>
    BY <1>22, <2>3 DEF Expire, Secret, Credential, CallAt, tables, history, Given
  <2>4. CASE /\ creds[c].client = NoClient /\ creds[c].state = "live"
             /\ creds' = [creds EXCEPT ![c].state = "expired"]
             /\ UNCHANGED <<codes, access, refresh, broken>>
    BY <1>22, <2>4 DEF Expire, Secret, Credential, CallAt, tables, history, Given
  <2>. QED
    BY <1>22, <2>1, <2>2, <2>3, <2>4 DEF Expire
<1>23. CASE OAuthRestart
  BY <1>23 DEF OAuthRestart, Waiting, CallAt, CallRequest, tables, history, Given
<1>24. CASE UNCHANGED oauthVars
  BY <1>24 DEF oauthVars, CallAt, tables, history, Given
<1>. QED
  BY <1>1, <1>2, <1>3, <1>4, <1>5, <1>6, <1>7, <1>8, <1>9, <1>10, <1>11, <1>12, <1>13, <1>14,
     <1>15, <1>16, <1>17, <1>18, <1>19, <1>20, <1>21, <1>22, <1>23, <1>24 DEF OAuthNext,
     StartCall, ContinueCall

\* Every step keeps what a call knows true.
LEMMA CallStep ==
  ASSUME OAuthInv, [OAuthNext]_oauthVars, NEW x \in Call
  PROVE  CallInv(x)'
<1>0. Shapes /\ SecretsBacked /\ (\A d \in Call : CallInv(d) /\ BornOnce(d))
  BY DEF OAuthInv, OAuthTypeOK, Shapes, Notes
<1>. USE <1>0 DEF Shapes, SecretsBacked, Backed, CallInv, WasIssued, BornOnce
<1>1. ASSUME NEW c \in Call, NEW k \in Client, OpenPage(c, k) PROVE CallInv(x)'
  BY <1>1 DEF OpenPage, BeginCall, UnsentCall, CallAt, CallRequest, tables, history, Given
<1>2. ASSUME NEW c \in Call, FetchClient(c) PROVE CallInv(x)'
  <2>1. CASE GotoCall(c, "register")
    BY <1>2, <2>1 DEF FetchClient, EndCall, GotoCall, CallAt, CallRequest, tables, history,
       Given
  <2>2. CASE EndCall(c)
    BY <1>2, <2>2 DEF FetchClient, EndCall, GotoCall, CallAt, CallRequest, tables, history,
       Given
  <2>. QED
    BY <1>2, <2>1, <2>2 DEF FetchClient
<1>3. ASSUME NEW c \in Call, RegisterClient(c) PROVE CallInv(x)'
  BY <1>3 DEF RegisterClient, EndCall, GotoCall, CallAt, CallRequest, tables, history, Given
<1>4. ASSUME NEW c \in Call, NEW k \in Client, NEW s \in Shop, Approve(c, k, s) PROVE CallInv(x)'
  BY <1>4 DEF Approve, BeginCall, UnsentCall, CallAt, CallRequest, tables, history, Given
<1>5. ASSUME NEW c \in Call, CreateCode(c) PROVE CallInv(x)'
  BY <1>5 DEF CreateCode, EndCall, GotoCall, CallAt, CallRequest, tables, history, Given
<1>6. ASSUME NEW c \in Call, NEW s \in Shop, CreateToken(c, s) PROVE CallInv(x)'
  BY <1>6 DEF CreateToken, BeginCall, UnsentCall, CallAt, CallRequest, tables, history, Given
<1>7. ASSUME NEW c \in Call, NEW k \in Client, NEW t \in Call, BeginExchange(c, k, t) PROVE CallInv(x)'
  BY <1>7 DEF BeginExchange, BeginCall, UnsentCall, CallAt, CallRequest, tables, history, Given
<1>8. ASSUME NEW c \in Call, NEW k \in Client, NEW t \in Call, BeginRotate(c, k, t) PROVE CallInv(x)'
  BY <1>8 DEF BeginRotate, BeginCall, UnsentCall, CallAt, CallRequest, tables, history, Given
<1>9. ASSUME NEW c \in Call, FindCode(c) PROVE CallInv(x)'
  <2>1. CASE /\ codes[Given(c)].state = "live" /\ GotoCall(c, "consume")
             /\ rivals' = [rivals EXCEPT ![c] = Spending("exchange", Given(c))]
    BY <1>9, <2>1 DEF FindCode, Spending, EndCall, GotoCall, CallAt, CallRequest, tables,
       history, Given
  <2>2. CASE EndCall(c) /\ UNCHANGED rivals
    BY <1>9, <2>2 DEF FindCode, Spending, EndCall, GotoCall, CallAt, CallRequest, tables,
       history, Given
  <2>. QED
    BY <1>9, <2>1, <2>2 DEF FindCode
<1>10. ASSUME NEW c \in Call, ConsumeCode(c) PROVE CallInv(x)'
  BY <1>10 DEF ConsumeCode, Secret, EndCall, GotoCall, CallAt, CallRequest, tables, history,
     Given
<1>11. ASSUME NEW c \in Call, CheckCode(c) PROVE CallInv(x)'
  BY <1>11 DEF CheckCode, EndCall, GotoCall, CallAt, CallRequest, tables, history, Given
<1>12. ASSUME NEW c \in Call, FindRefresh(c) PROVE CallInv(x)'
  <2>1. CASE /\ refresh[Given(c)].state = "live" /\ refresh[Given(c)].client = call[c].client
             /\ call' = [call EXCEPT ![c].at = "consume", ![c].cred = refresh[Given(c)].cred]
             /\ rivals' = [rivals EXCEPT ![c] = Spending("rotate", Given(c))]
    BY <1>12, <2>1, SMTT(40) DEF FindRefresh, Spending, EndCall, GotoCall, CallAt, CallRequest, tables,
       history, Given
  <2>2. CASE EndCall(c) /\ UNCHANGED rivals
    BY <1>12, <2>2 DEF FindRefresh, Spending, EndCall, GotoCall, CallAt, CallRequest, tables,
       history, Given
  <2>. QED
    BY <1>12, <2>1, <2>2 DEF FindRefresh
<1>13. ASSUME NEW c \in Call, RevokeRefresh(c) PROVE CallInv(x)'
  BY <1>13 DEF RevokeRefresh, Secret, EndCall, GotoCall, CallAt, CallRequest, tables, history,
     Given
<1>14. ASSUME NEW c \in Call, IssueAccess(c) PROVE CallInv(x)'
  BY <1>14 DEF IssueAccess, EndCall, GotoCall, CallAt, CallRequest, tables, history, Given
<1>15. ASSUME NEW c \in Call, IssueRefresh(c) PROVE CallInv(x)'
  BY <1>15 DEF IssueRefresh, EndCall, GotoCall, CallAt, CallRequest, tables, history, Given
<1>16. ASSUME NEW c \in Call, NEW t \in Call, DropToken(c, t) PROVE CallInv(x)'
  <2>1. CASE access[t].state # "none" /\ access' = [access EXCEPT ![t].state = "spent"] /\ UNCHANGED <<refresh, broken>>
    BY <1>16, <2>1 DEF DropToken, Secret, BeginCall, UnsentCall, CallAt, CallRequest, tables,
       history, Given
  <2>2. CASE /\ refresh[t].state # "none" /\ refresh' = [refresh EXCEPT ![t].state = "spent"]
             /\ broken' = broken \cup {refresh[t].cred} /\ UNCHANGED access
    BY <1>16, <2>2 DEF DropToken, Secret, BeginCall, UnsentCall, CallAt, CallRequest, tables,
       history, Given
  <2>. QED
    BY <1>16, <2>1, <2>2 DEF DropToken
<1>17. ASSUME NEW c \in Call, NEW t \in Call, BeginWithdraw(c, t) PROVE CallInv(x)'
  BY <1>17 DEF BeginWithdraw, BeginCall, UnsentCall, CallAt, CallRequest, tables, history, Given
<1>18. ASSUME NEW c \in Call, RevokeCredential(c) PROVE CallInv(x)'
  BY <1>18 DEF RevokeCredential, Credential, EndCall, GotoCall, CallAt, CallRequest, tables,
     history, Given
<1>19. ASSUME NEW c \in Call, NEW s \in Shop, NEW t \in Call, BeginUse(c, s, t) PROVE CallInv(x)'
  BY <1>19 DEF BeginUse, Revoked, BeginCall, UnsentCall, CallAt, CallRequest, tables, history,
     Given
<1>20. ASSUME NEW c \in Call, FindBearer(c) PROVE CallInv(x)'
  BY <1>20 DEF FindBearer, EndCall, GotoCall, CallAt, CallRequest, tables, history, Given
<1>21. ASSUME NEW c \in Call, FindHolder(c) PROVE CallInv(x)'
  <2>1. CASE GotoCall(c, "served")
    BY <1>21, <2>1 DEF FindHolder, Revoked, EndCall, GotoCall, CallAt, CallRequest, tables,
       history, Given
  <2>2. CASE EndCall(c)
    BY <1>21, <2>2 DEF FindHolder, Revoked, EndCall, GotoCall, CallAt, CallRequest, tables,
       history, Given
  <2>. QED
    BY <1>21, <2>1, <2>2 DEF FindHolder
<1>22. ASSUME NEW c \in Call, Expire(c) PROVE CallInv(x)'
  <2>1. CASE /\ codes[c].state = "live" /\ codes' = [codes EXCEPT ![c].state = "expired"]
             /\ broken' = broken \cup {codes[c].cred} /\ UNCHANGED <<creds, access, refresh>>
    BY <1>22, <2>1 DEF Expire, Secret, Credential, CallAt, tables, history, Given
  <2>2. CASE /\ access[c].state = "live" /\ access' = [access EXCEPT ![c].state = "expired"]
             /\ UNCHANGED <<creds, codes, refresh, broken>>
    BY <1>22, <2>2 DEF Expire, Secret, Credential, CallAt, tables, history, Given
  <2>3. CASE /\ refresh[c].state = "live" /\ refresh' = [refresh EXCEPT ![c].state = "expired"]
             /\ broken' = broken \cup {refresh[c].cred} /\ UNCHANGED <<creds, codes, access>>
    BY <1>22, <2>3 DEF Expire, Secret, Credential, CallAt, tables, history, Given
  <2>4. CASE /\ creds[c].client = NoClient /\ creds[c].state = "live"
             /\ creds' = [creds EXCEPT ![c].state = "expired"]
             /\ UNCHANGED <<codes, access, refresh, broken>>
    BY <1>22, <2>4 DEF Expire, Secret, Credential, CallAt, tables, history, Given
  <2>. QED
    BY <1>22, <2>1, <2>2, <2>3, <2>4 DEF Expire
<1>23. CASE OAuthRestart
  BY <1>23 DEF OAuthRestart, Waiting, CallAt, CallRequest, tables, history, Given
<1>24. CASE UNCHANGED oauthVars
  BY <1>24 DEF oauthVars, CallAt, tables, history, Given
<1>. QED
  BY <1>1, <1>2, <1>3, <1>4, <1>5, <1>6, <1>7, <1>8, <1>9, <1>10, <1>11, <1>12, <1>13, <1>14,
     <1>15, <1>16, <1>17, <1>18, <1>19, <1>20, <1>21, <1>22, <1>23, <1>24 DEF OAuthNext,
     StartCall, ContinueCall

\* Every step creates under a call's name once.
LEMMA BornStep ==
  ASSUME OAuthInv, [OAuthNext]_oauthVars, NEW x \in Call
  PROVE  BornOnce(x)'
<1>0. Shapes /\ (\A d \in Call : CallInv(d) /\ BornOnce(d))
  BY DEF OAuthInv, OAuthTypeOK, Shapes, Notes
<1>. USE <1>0 DEF Shapes, CallInv, WasIssued, BornOnce
<1>1. ASSUME NEW c \in Call, NEW k \in Client, OpenPage(c, k) PROVE BornOnce(x)'
  BY <1>1 DEF OpenPage, BeginCall, UnsentCall, CallAt, CallRequest, tables, history, Given
<1>2. ASSUME NEW c \in Call, FetchClient(c) PROVE BornOnce(x)'
  <2>1. CASE GotoCall(c, "register")
    BY <1>2, <2>1 DEF FetchClient, EndCall, GotoCall, CallAt, CallRequest, tables, history,
       Given
  <2>2. CASE EndCall(c)
    BY <1>2, <2>2 DEF FetchClient, EndCall, GotoCall, CallAt, CallRequest, tables, history,
       Given
  <2>. QED
    BY <1>2, <2>1, <2>2 DEF FetchClient
<1>3. ASSUME NEW c \in Call, RegisterClient(c) PROVE BornOnce(x)'
  BY <1>3 DEF RegisterClient, EndCall, GotoCall, CallAt, CallRequest, tables, history, Given
<1>4. ASSUME NEW c \in Call, NEW k \in Client, NEW s \in Shop, Approve(c, k, s) PROVE BornOnce(x)'
  BY <1>4 DEF Approve, BeginCall, UnsentCall, CallAt, CallRequest, tables, history, Given
<1>5. ASSUME NEW c \in Call, CreateCode(c) PROVE BornOnce(x)'
  BY <1>5 DEF CreateCode, EndCall, GotoCall, CallAt, CallRequest, tables, history, Given
<1>6. ASSUME NEW c \in Call, NEW s \in Shop, CreateToken(c, s) PROVE BornOnce(x)'
  BY <1>6 DEF CreateToken, BeginCall, UnsentCall, CallAt, CallRequest, tables, history, Given
<1>7. ASSUME NEW c \in Call, NEW k \in Client, NEW t \in Call, BeginExchange(c, k, t) PROVE BornOnce(x)'
  BY <1>7 DEF BeginExchange, BeginCall, UnsentCall, CallAt, CallRequest, tables, history, Given
<1>8. ASSUME NEW c \in Call, NEW k \in Client, NEW t \in Call, BeginRotate(c, k, t) PROVE BornOnce(x)'
  BY <1>8 DEF BeginRotate, BeginCall, UnsentCall, CallAt, CallRequest, tables, history, Given
<1>9. ASSUME NEW c \in Call, FindCode(c) PROVE BornOnce(x)'
  <2>1. CASE /\ codes[Given(c)].state = "live" /\ GotoCall(c, "consume")
             /\ rivals' = [rivals EXCEPT ![c] = Spending("exchange", Given(c))]
    BY <1>9, <2>1 DEF FindCode, Spending, EndCall, GotoCall, CallAt, CallRequest, tables,
       history, Given
  <2>2. CASE EndCall(c) /\ UNCHANGED rivals
    BY <1>9, <2>2 DEF FindCode, Spending, EndCall, GotoCall, CallAt, CallRequest, tables,
       history, Given
  <2>. QED
    BY <1>9, <2>1, <2>2 DEF FindCode
<1>10. ASSUME NEW c \in Call, ConsumeCode(c) PROVE BornOnce(x)'
  BY <1>10 DEF ConsumeCode, Secret, EndCall, GotoCall, CallAt, CallRequest, tables, history,
     Given
<1>11. ASSUME NEW c \in Call, CheckCode(c) PROVE BornOnce(x)'
  BY <1>11 DEF CheckCode, EndCall, GotoCall, CallAt, CallRequest, tables, history, Given
<1>12. ASSUME NEW c \in Call, FindRefresh(c) PROVE BornOnce(x)'
  <2>1. CASE /\ refresh[Given(c)].state = "live" /\ refresh[Given(c)].client = call[c].client
             /\ call' = [call EXCEPT ![c].at = "consume", ![c].cred = refresh[Given(c)].cred]
             /\ rivals' = [rivals EXCEPT ![c] = Spending("rotate", Given(c))]
    BY <1>12, <2>1 DEF FindRefresh, Spending, EndCall, GotoCall, CallAt, CallRequest, tables,
       history, Given
  <2>2. CASE EndCall(c) /\ UNCHANGED rivals
    BY <1>12, <2>2 DEF FindRefresh, Spending, EndCall, GotoCall, CallAt, CallRequest, tables,
       history, Given
  <2>. QED
    BY <1>12, <2>1, <2>2 DEF FindRefresh
<1>13. ASSUME NEW c \in Call, RevokeRefresh(c) PROVE BornOnce(x)'
  BY <1>13 DEF RevokeRefresh, Secret, EndCall, GotoCall, CallAt, CallRequest, tables, history,
     Given
<1>14. ASSUME NEW c \in Call, IssueAccess(c) PROVE BornOnce(x)'
  BY <1>14 DEF IssueAccess, EndCall, GotoCall, CallAt, CallRequest, tables, history, Given
<1>15. ASSUME NEW c \in Call, IssueRefresh(c) PROVE BornOnce(x)'
  BY <1>15 DEF IssueRefresh, EndCall, GotoCall, CallAt, CallRequest, tables, history, Given
<1>16. ASSUME NEW c \in Call, NEW t \in Call, DropToken(c, t) PROVE BornOnce(x)'
  <2>1. CASE access[t].state # "none" /\ access' = [access EXCEPT ![t].state = "spent"] /\ UNCHANGED <<refresh, broken>>
    BY <1>16, <2>1 DEF DropToken, Secret, BeginCall, UnsentCall, CallAt, CallRequest, tables,
       history, Given
  <2>2. CASE /\ refresh[t].state # "none" /\ refresh' = [refresh EXCEPT ![t].state = "spent"]
             /\ broken' = broken \cup {refresh[t].cred} /\ UNCHANGED access
    BY <1>16, <2>2 DEF DropToken, Secret, BeginCall, UnsentCall, CallAt, CallRequest, tables,
       history, Given
  <2>. QED
    BY <1>16, <2>1, <2>2 DEF DropToken
<1>17. ASSUME NEW c \in Call, NEW t \in Call, BeginWithdraw(c, t) PROVE BornOnce(x)'
  BY <1>17 DEF BeginWithdraw, BeginCall, UnsentCall, CallAt, CallRequest, tables, history, Given
<1>18. ASSUME NEW c \in Call, RevokeCredential(c) PROVE BornOnce(x)'
  BY <1>18 DEF RevokeCredential, Credential, EndCall, GotoCall, CallAt, CallRequest, tables,
     history, Given
<1>19. ASSUME NEW c \in Call, NEW s \in Shop, NEW t \in Call, BeginUse(c, s, t) PROVE BornOnce(x)'
  BY <1>19 DEF BeginUse, Revoked, BeginCall, UnsentCall, CallAt, CallRequest, tables, history,
     Given
<1>20. ASSUME NEW c \in Call, FindBearer(c) PROVE BornOnce(x)'
  BY <1>20 DEF FindBearer, EndCall, GotoCall, CallAt, CallRequest, tables, history, Given
<1>21. ASSUME NEW c \in Call, FindHolder(c) PROVE BornOnce(x)'
  <2>1. CASE GotoCall(c, "served")
    BY <1>21, <2>1 DEF FindHolder, Revoked, EndCall, GotoCall, CallAt, CallRequest, tables,
       history, Given
  <2>2. CASE EndCall(c)
    BY <1>21, <2>2 DEF FindHolder, Revoked, EndCall, GotoCall, CallAt, CallRequest, tables,
       history, Given
  <2>. QED
    BY <1>21, <2>1, <2>2 DEF FindHolder
<1>22. ASSUME NEW c \in Call, Expire(c) PROVE BornOnce(x)'
  <2>1. CASE /\ codes[c].state = "live" /\ codes' = [codes EXCEPT ![c].state = "expired"]
             /\ broken' = broken \cup {codes[c].cred} /\ UNCHANGED <<creds, access, refresh>>
    BY <1>22, <2>1 DEF Expire, Secret, Credential, CallAt, tables, history, Given
  <2>2. CASE /\ access[c].state = "live" /\ access' = [access EXCEPT ![c].state = "expired"]
             /\ UNCHANGED <<creds, codes, refresh, broken>>
    BY <1>22, <2>2 DEF Expire, Secret, Credential, CallAt, tables, history, Given
  <2>3. CASE /\ refresh[c].state = "live" /\ refresh' = [refresh EXCEPT ![c].state = "expired"]
             /\ broken' = broken \cup {refresh[c].cred} /\ UNCHANGED <<creds, codes, access>>
    BY <1>22, <2>3 DEF Expire, Secret, Credential, CallAt, tables, history, Given
  <2>4. CASE /\ creds[c].client = NoClient /\ creds[c].state = "live"
             /\ creds' = [creds EXCEPT ![c].state = "expired"]
             /\ UNCHANGED <<codes, access, refresh, broken>>
    BY <1>22, <2>4 DEF Expire, Secret, Credential, CallAt, tables, history, Given
  <2>. QED
    BY <1>22, <2>1, <2>2, <2>3, <2>4 DEF Expire
<1>23. CASE OAuthRestart
  BY <1>23 DEF OAuthRestart, Waiting, CallAt, CallRequest, tables, history, Given
<1>24. CASE UNCHANGED oauthVars
  BY <1>24 DEF oauthVars, CallAt, tables, history, Given
<1>. QED
  BY <1>1, <1>2, <1>3, <1>4, <1>5, <1>6, <1>7, <1>8, <1>9, <1>10, <1>11, <1>12, <1>13, <1>14,
     <1>15, <1>16, <1>17, <1>18, <1>19, <1>20, <1>21, <1>22, <1>23, <1>24 DEF OAuthNext,
     StartCall, ContinueCall

\* A secret that is used up stays so.
LEMMA UsedStep ==
  ASSUME OAuthInv, [OAuthNext]_oauthVars, NEW x \in Call
  PROVE  UsedUp(x)'
<1>0. Shapes /\ (\A d \in Call : CallInv(d) /\ BornOnce(d) /\ UsedUp(d))
  BY DEF OAuthInv, OAuthTypeOK, Shapes, Notes
<1>. USE <1>0 DEF Shapes, CallInv, WasIssued, BornOnce, UsedUp, PastUse
<1>1. ASSUME NEW c \in Call, NEW k \in Client, OpenPage(c, k) PROVE UsedUp(x)'
  BY <1>1 DEF OpenPage, BeginCall, UnsentCall, CallAt, CallRequest, tables, history, Given
<1>2. ASSUME NEW c \in Call, FetchClient(c) PROVE UsedUp(x)'
  <2>1. CASE GotoCall(c, "register")
    BY <1>2, <2>1 DEF FetchClient, EndCall, GotoCall, CallAt, CallRequest, tables, history,
       Given
  <2>2. CASE EndCall(c)
    BY <1>2, <2>2 DEF FetchClient, EndCall, GotoCall, CallAt, CallRequest, tables, history,
       Given
  <2>. QED
    BY <1>2, <2>1, <2>2 DEF FetchClient
<1>3. ASSUME NEW c \in Call, RegisterClient(c) PROVE UsedUp(x)'
  BY <1>3 DEF RegisterClient, EndCall, GotoCall, CallAt, CallRequest, tables, history, Given
<1>4. ASSUME NEW c \in Call, NEW k \in Client, NEW s \in Shop, Approve(c, k, s) PROVE UsedUp(x)'
  BY <1>4 DEF Approve, BeginCall, UnsentCall, CallAt, CallRequest, tables, history, Given
<1>5. ASSUME NEW c \in Call, CreateCode(c) PROVE UsedUp(x)'
  BY <1>5 DEF CreateCode, EndCall, GotoCall, CallAt, CallRequest, tables, history, Given
<1>6. ASSUME NEW c \in Call, NEW s \in Shop, CreateToken(c, s) PROVE UsedUp(x)'
  BY <1>6 DEF CreateToken, BeginCall, UnsentCall, CallAt, CallRequest, tables, history, Given
<1>7. ASSUME NEW c \in Call, NEW k \in Client, NEW t \in Call, BeginExchange(c, k, t) PROVE UsedUp(x)'
  BY <1>7 DEF BeginExchange, BeginCall, UnsentCall, CallAt, CallRequest, tables, history, Given
<1>8. ASSUME NEW c \in Call, NEW k \in Client, NEW t \in Call, BeginRotate(c, k, t) PROVE UsedUp(x)'
  BY <1>8 DEF BeginRotate, BeginCall, UnsentCall, CallAt, CallRequest, tables, history, Given
<1>9. ASSUME NEW c \in Call, FindCode(c) PROVE UsedUp(x)'
  <2>1. CASE /\ codes[Given(c)].state = "live" /\ GotoCall(c, "consume")
             /\ rivals' = [rivals EXCEPT ![c] = Spending("exchange", Given(c))]
    BY <1>9, <2>1 DEF FindCode, Spending, EndCall, GotoCall, CallAt, CallRequest, tables,
       history, Given
  <2>2. CASE EndCall(c) /\ UNCHANGED rivals
    BY <1>9, <2>2 DEF FindCode, Spending, EndCall, GotoCall, CallAt, CallRequest, tables,
       history, Given
  <2>. QED
    BY <1>9, <2>1, <2>2 DEF FindCode
<1>10. ASSUME NEW c \in Call, ConsumeCode(c) PROVE UsedUp(x)'
  BY <1>10 DEF ConsumeCode, Secret, EndCall, GotoCall, CallAt, CallRequest, tables, history,
     Given
<1>11. ASSUME NEW c \in Call, CheckCode(c) PROVE UsedUp(x)'
  BY <1>11 DEF CheckCode, EndCall, GotoCall, CallAt, CallRequest, tables, history, Given
<1>12. ASSUME NEW c \in Call, FindRefresh(c) PROVE UsedUp(x)'
  <2>1. CASE /\ refresh[Given(c)].state = "live" /\ refresh[Given(c)].client = call[c].client
             /\ call' = [call EXCEPT ![c].at = "consume", ![c].cred = refresh[Given(c)].cred]
             /\ rivals' = [rivals EXCEPT ![c] = Spending("rotate", Given(c))]
    BY <1>12, <2>1 DEF FindRefresh, Spending, EndCall, GotoCall, CallAt, CallRequest, tables,
       history, Given
  <2>2. CASE EndCall(c) /\ UNCHANGED rivals
    BY <1>12, <2>2 DEF FindRefresh, Spending, EndCall, GotoCall, CallAt, CallRequest, tables,
       history, Given
  <2>. QED
    BY <1>12, <2>1, <2>2 DEF FindRefresh
<1>13. ASSUME NEW c \in Call, RevokeRefresh(c) PROVE UsedUp(x)'
  BY <1>13 DEF RevokeRefresh, Secret, EndCall, GotoCall, CallAt, CallRequest, tables, history,
     Given
<1>14. ASSUME NEW c \in Call, IssueAccess(c) PROVE UsedUp(x)'
  BY <1>14 DEF IssueAccess, EndCall, GotoCall, CallAt, CallRequest, tables, history, Given
<1>15. ASSUME NEW c \in Call, IssueRefresh(c) PROVE UsedUp(x)'
  BY <1>15 DEF IssueRefresh, EndCall, GotoCall, CallAt, CallRequest, tables, history, Given
<1>16. ASSUME NEW c \in Call, NEW t \in Call, DropToken(c, t) PROVE UsedUp(x)'
  <2>1. CASE access[t].state # "none" /\ access' = [access EXCEPT ![t].state = "spent"] /\ UNCHANGED <<refresh, broken>>
    BY <1>16, <2>1 DEF DropToken, Secret, BeginCall, UnsentCall, CallAt, CallRequest, tables,
       history, Given
  <2>2. CASE /\ refresh[t].state # "none" /\ refresh' = [refresh EXCEPT ![t].state = "spent"]
             /\ broken' = broken \cup {refresh[t].cred} /\ UNCHANGED access
    BY <1>16, <2>2 DEF DropToken, Secret, BeginCall, UnsentCall, CallAt, CallRequest, tables,
       history, Given
  <2>. QED
    BY <1>16, <2>1, <2>2 DEF DropToken
<1>17. ASSUME NEW c \in Call, NEW t \in Call, BeginWithdraw(c, t) PROVE UsedUp(x)'
  BY <1>17 DEF BeginWithdraw, BeginCall, UnsentCall, CallAt, CallRequest, tables, history, Given
<1>18. ASSUME NEW c \in Call, RevokeCredential(c) PROVE UsedUp(x)'
  BY <1>18 DEF RevokeCredential, Credential, EndCall, GotoCall, CallAt, CallRequest, tables,
     history, Given
<1>19. ASSUME NEW c \in Call, NEW s \in Shop, NEW t \in Call, BeginUse(c, s, t) PROVE UsedUp(x)'
  BY <1>19 DEF BeginUse, Revoked, BeginCall, UnsentCall, CallAt, CallRequest, tables, history,
     Given
<1>20. ASSUME NEW c \in Call, FindBearer(c) PROVE UsedUp(x)'
  BY <1>20 DEF FindBearer, EndCall, GotoCall, CallAt, CallRequest, tables, history, Given
<1>21. ASSUME NEW c \in Call, FindHolder(c) PROVE UsedUp(x)'
  <2>1. CASE GotoCall(c, "served")
    BY <1>21, <2>1 DEF FindHolder, Revoked, EndCall, GotoCall, CallAt, CallRequest, tables,
       history, Given
  <2>2. CASE EndCall(c)
    BY <1>21, <2>2 DEF FindHolder, Revoked, EndCall, GotoCall, CallAt, CallRequest, tables,
       history, Given
  <2>. QED
    BY <1>21, <2>1, <2>2 DEF FindHolder
<1>22. ASSUME NEW c \in Call, Expire(c) PROVE UsedUp(x)'
  <2>1. CASE /\ codes[c].state = "live" /\ codes' = [codes EXCEPT ![c].state = "expired"]
             /\ broken' = broken \cup {codes[c].cred} /\ UNCHANGED <<creds, access, refresh>>
    BY <1>22, <2>1 DEF Expire, Secret, Credential, CallAt, tables, history, Given
  <2>2. CASE /\ access[c].state = "live" /\ access' = [access EXCEPT ![c].state = "expired"]
             /\ UNCHANGED <<creds, codes, refresh, broken>>
    BY <1>22, <2>2 DEF Expire, Secret, Credential, CallAt, tables, history, Given
  <2>3. CASE /\ refresh[c].state = "live" /\ refresh' = [refresh EXCEPT ![c].state = "expired"]
             /\ broken' = broken \cup {refresh[c].cred} /\ UNCHANGED <<creds, codes, access>>
    BY <1>22, <2>3 DEF Expire, Secret, Credential, CallAt, tables, history, Given
  <2>4. CASE /\ creds[c].client = NoClient /\ creds[c].state = "live"
             /\ creds' = [creds EXCEPT ![c].state = "expired"]
             /\ UNCHANGED <<codes, access, refresh, broken>>
    BY <1>22, <2>4 DEF Expire, Secret, Credential, CallAt, tables, history, Given
  <2>. QED
    BY <1>22, <2>1, <2>2, <2>3, <2>4 DEF Expire
<1>23. CASE OAuthRestart
  BY <1>23 DEF OAuthRestart, Waiting, CallAt, CallRequest, tables, history, Given
<1>24. CASE UNCHANGED oauthVars
  BY <1>24 DEF oauthVars, CallAt, tables, history, Given
<1>. QED
  BY <1>1, <1>2, <1>3, <1>4, <1>5, <1>6, <1>7, <1>8, <1>9, <1>10, <1>11, <1>12, <1>13, <1>14,
     <1>15, <1>16, <1>17, <1>18, <1>19, <1>20, <1>21, <1>22, <1>23, <1>24 DEF OAuthNext,
     StartCall, ContinueCall

\* Whoever finds a secret unspent sees everyone who is about to spend it.
LEMMA RivalsStep ==
  ASSUME OAuthInv, [OAuthNext]_oauthVars, NEW x \in Call, NEW y \in Call
  PROVE  RivalsKnown(x, y)'
<1>0. Shapes /\ rivals \in [Call -> SUBSET Call] /\ RivalsKnown(x, y) /\ RivalsKnown(y,
   x) /\ (\A d \in Call : CallInv(d) /\ BornOnce(d) /\ UsedUp(d))
  BY DEF OAuthInv, OAuthTypeOK, Shapes, Notes
<1>. USE <1>0 DEF Shapes, CallInv, WasIssued, BornOnce, UsedUp, PastUse, Spender, RivalsKnown
<1>1. ASSUME NEW c \in Call, NEW k \in Client, OpenPage(c, k) PROVE RivalsKnown(x, y)'
  BY <1>1 DEF OpenPage, BeginCall, UnsentCall, CallAt, CallRequest, tables, history, Given
<1>2. ASSUME NEW c \in Call, FetchClient(c) PROVE RivalsKnown(x, y)'
  <2>1. CASE GotoCall(c, "register")
    BY <1>2, <2>1 DEF FetchClient, EndCall, GotoCall, CallAt, CallRequest, tables, history,
       Given
  <2>2. CASE EndCall(c)
    BY <1>2, <2>2 DEF FetchClient, EndCall, GotoCall, CallAt, CallRequest, tables, history,
       Given
  <2>. QED
    BY <1>2, <2>1, <2>2 DEF FetchClient
<1>3. ASSUME NEW c \in Call, RegisterClient(c) PROVE RivalsKnown(x, y)'
  BY <1>3 DEF RegisterClient, EndCall, GotoCall, CallAt, CallRequest, tables, history, Given
<1>4. ASSUME NEW c \in Call, NEW k \in Client, NEW s \in Shop, Approve(c, k, s) PROVE RivalsKnown(x, y)'
  BY <1>4 DEF Approve, BeginCall, UnsentCall, CallAt, CallRequest, tables, history, Given
<1>5. ASSUME NEW c \in Call, CreateCode(c) PROVE RivalsKnown(x, y)'
  BY <1>5 DEF CreateCode, EndCall, GotoCall, CallAt, CallRequest, tables, history, Given
<1>6. ASSUME NEW c \in Call, NEW s \in Shop, CreateToken(c, s) PROVE RivalsKnown(x, y)'
  BY <1>6 DEF CreateToken, BeginCall, UnsentCall, CallAt, CallRequest, tables, history, Given
<1>7. ASSUME NEW c \in Call, NEW k \in Client, NEW t \in Call, BeginExchange(c, k, t) PROVE RivalsKnown(x, y)'
  BY <1>7 DEF BeginExchange, BeginCall, UnsentCall, CallAt, CallRequest, tables, history, Given
<1>8. ASSUME NEW c \in Call, NEW k \in Client, NEW t \in Call, BeginRotate(c, k, t) PROVE RivalsKnown(x, y)'
  BY <1>8 DEF BeginRotate, BeginCall, UnsentCall, CallAt, CallRequest, tables, history, Given
<1>9. ASSUME NEW c \in Call, FindCode(c) PROVE RivalsKnown(x, y)'
  <2>1. CASE /\ codes[Given(c)].state = "live" /\ GotoCall(c, "consume")
             /\ rivals' = [rivals EXCEPT ![c] = Spending("exchange", Given(c))]
    <3>1. /\ \A z \in Call \ {c} : call'[z] = call[z] /\ rivals'[z] = rivals[z]
          /\ call'[c].kind = "exchange" /\ call'[c].given = Given(c) /\ pair' = pair
          /\ rivals'[c] = Spending("exchange", Given(c))
      BY <1>9, <2>1 DEF FindCode, CallAt, GotoCall, CallRequest, Given
    <3>2. \A z \in Call \ {c} :
            Spender(z)' /\ call'[z].kind = "exchange" /\ call'[z].given = Given(c)
              => z \in Spending("exchange", Given(c))
      BY <2>1, <3>1 DEF Spending, CallAt, Given
    <3>. QED
      BY <3>1, <3>2 DEF Given, CallAt
  <2>2. CASE EndCall(c) /\ UNCHANGED rivals
    BY <1>9, <2>2 DEF FindCode, Spending, EndCall, GotoCall, CallAt, CallRequest, tables,
       history, Given
  <2>. QED
    BY <1>9, <2>1, <2>2 DEF FindCode
<1>10. ASSUME NEW c \in Call, ConsumeCode(c) PROVE RivalsKnown(x, y)'
  BY <1>10 DEF ConsumeCode, Secret, EndCall, GotoCall, CallAt, CallRequest, tables, history,
     Given
<1>11. ASSUME NEW c \in Call, CheckCode(c) PROVE RivalsKnown(x, y)'
  BY <1>11 DEF CheckCode, EndCall, GotoCall, CallAt, CallRequest, tables, history, Given
<1>12. ASSUME NEW c \in Call, FindRefresh(c) PROVE RivalsKnown(x, y)'
  <2>1. CASE /\ refresh[Given(c)].state = "live" /\ refresh[Given(c)].client = call[c].client
             /\ call' = [call EXCEPT ![c].at = "consume", ![c].cred = refresh[Given(c)].cred]
             /\ rivals' = [rivals EXCEPT ![c] = Spending("rotate", Given(c))]
    <3>1. /\ \A z \in Call \ {c} : call'[z] = call[z] /\ rivals'[z] = rivals[z]
          /\ call'[c].kind = "rotate" /\ call'[c].given = Given(c) /\ pair' = pair
          /\ rivals'[c] = Spending("rotate", Given(c))
      BY <1>12, <2>1 DEF FindRefresh, CallAt, GotoCall, CallRequest, Given
    <3>2. \A z \in Call \ {c} :
            Spender(z)' /\ call'[z].kind = "rotate" /\ call'[z].given = Given(c)
              => z \in Spending("rotate", Given(c))
      BY <2>1, <3>1 DEF Spending, CallAt, Given
    <3>. QED
      BY <3>1, <3>2 DEF Given, CallAt
  <2>2. CASE EndCall(c) /\ UNCHANGED rivals
    BY <1>12, <2>2 DEF FindRefresh, Spending, EndCall, GotoCall, CallAt, CallRequest, tables,
       history, Given
  <2>. QED
    BY <1>12, <2>1, <2>2 DEF FindRefresh
<1>13. ASSUME NEW c \in Call, RevokeRefresh(c) PROVE RivalsKnown(x, y)'
  BY <1>13 DEF RevokeRefresh, Secret, EndCall, GotoCall, CallAt, CallRequest, tables, history,
     Given
<1>14. ASSUME NEW c \in Call, IssueAccess(c) PROVE RivalsKnown(x, y)'
  BY <1>14 DEF IssueAccess, EndCall, GotoCall, CallAt, CallRequest, tables, history, Given
<1>15. ASSUME NEW c \in Call, IssueRefresh(c) PROVE RivalsKnown(x, y)'
  BY <1>15 DEF IssueRefresh, EndCall, GotoCall, CallAt, CallRequest, tables, history, Given
<1>16. ASSUME NEW c \in Call, NEW t \in Call, DropToken(c, t) PROVE RivalsKnown(x, y)'
  <2>1. CASE access[t].state # "none" /\ access' = [access EXCEPT ![t].state = "spent"] /\ UNCHANGED <<refresh, broken>>
    BY <1>16, <2>1 DEF DropToken, Secret, BeginCall, UnsentCall, CallAt, CallRequest, tables,
       history, Given
  <2>2. CASE /\ refresh[t].state # "none" /\ refresh' = [refresh EXCEPT ![t].state = "spent"]
             /\ broken' = broken \cup {refresh[t].cred} /\ UNCHANGED access
    BY <1>16, <2>2 DEF DropToken, Secret, BeginCall, UnsentCall, CallAt, CallRequest, tables,
       history, Given
  <2>. QED
    BY <1>16, <2>1, <2>2 DEF DropToken
<1>17. ASSUME NEW c \in Call, NEW t \in Call, BeginWithdraw(c, t) PROVE RivalsKnown(x, y)'
  BY <1>17 DEF BeginWithdraw, BeginCall, UnsentCall, CallAt, CallRequest, tables, history, Given
<1>18. ASSUME NEW c \in Call, RevokeCredential(c) PROVE RivalsKnown(x, y)'
  BY <1>18 DEF RevokeCredential, Credential, EndCall, GotoCall, CallAt, CallRequest, tables,
     history, Given
<1>19. ASSUME NEW c \in Call, NEW s \in Shop, NEW t \in Call, BeginUse(c, s, t) PROVE RivalsKnown(x, y)'
  BY <1>19 DEF BeginUse, Revoked, BeginCall, UnsentCall, CallAt, CallRequest, tables, history,
     Given
<1>20. ASSUME NEW c \in Call, FindBearer(c) PROVE RivalsKnown(x, y)'
  BY SMTT(40), <1>20 DEF FindBearer, EndCall, GotoCall, CallAt, CallRequest, tables, history, Given
<1>21. ASSUME NEW c \in Call, FindHolder(c) PROVE RivalsKnown(x, y)'
  <2>1. CASE GotoCall(c, "served")
    BY <1>21, <2>1 DEF FindHolder, Revoked, EndCall, GotoCall, CallAt, CallRequest, tables,
       history, Given
  <2>2. CASE EndCall(c)
    BY <1>21, <2>2 DEF FindHolder, Revoked, EndCall, GotoCall, CallAt, CallRequest, tables,
       history, Given
  <2>. QED
    BY <1>21, <2>1, <2>2 DEF FindHolder
<1>22. ASSUME NEW c \in Call, Expire(c) PROVE RivalsKnown(x, y)'
  <2>1. CASE /\ codes[c].state = "live" /\ codes' = [codes EXCEPT ![c].state = "expired"]
             /\ broken' = broken \cup {codes[c].cred} /\ UNCHANGED <<creds, access, refresh>>
    BY <1>22, <2>1 DEF Expire, Secret, Credential, CallAt, tables, history, Given
  <2>2. CASE /\ access[c].state = "live" /\ access' = [access EXCEPT ![c].state = "expired"]
             /\ UNCHANGED <<creds, codes, refresh, broken>>
    BY <1>22, <2>2 DEF Expire, Secret, Credential, CallAt, tables, history, Given
  <2>3. CASE /\ refresh[c].state = "live" /\ refresh' = [refresh EXCEPT ![c].state = "expired"]
             /\ broken' = broken \cup {refresh[c].cred} /\ UNCHANGED <<creds, codes, access>>
    BY <1>22, <2>3 DEF Expire, Secret, Credential, CallAt, tables, history, Given
  <2>4. CASE /\ creds[c].client = NoClient /\ creds[c].state = "live"
             /\ creds' = [creds EXCEPT ![c].state = "expired"]
             /\ UNCHANGED <<codes, access, refresh, broken>>
    BY <1>22, <2>4 DEF Expire, Secret, Credential, CallAt, tables, history, Given
  <2>. QED
    BY <1>22, <2>1, <2>2, <2>3, <2>4 DEF Expire
<1>23. CASE OAuthRestart
  BY <1>23 DEF OAuthRestart, Waiting, CallAt, CallRequest, tables, history, Given
<1>24. CASE UNCHANGED oauthVars
  BY <1>24 DEF oauthVars, CallAt, tables, history, Given
<1>. QED
  BY <1>1, <1>2, <1>3, <1>4, <1>5, <1>6, <1>7, <1>8, <1>9, <1>10, <1>11, <1>12, <1>13, <1>14,
     <1>15, <1>16, <1>17, <1>18, <1>19, <1>20, <1>21, <1>22, <1>23, <1>24 DEF OAuthNext,
     StartCall, ContinueCall

\* Revoked credentials stay revoked.
LEMMA BarredStep ==
  ASSUME OAuthInv, [OAuthNext]_oauthVars
  PROVE  BarredAreRevoked'
<1>0. Shapes /\ Notes /\ BarredAreRevoked /\ (\A d \in Call : CallInv(d) /\ BornOnce(d))
  BY DEF OAuthInv, OAuthTypeOK, Shapes, Notes
<1>. USE <1>0 DEF Shapes, BarredAreRevoked, Revoked, CallInv, BornOnce
<1>1. ASSUME NEW c \in Call, NEW k \in Client, OpenPage(c, k) PROVE BarredAreRevoked'
  BY <1>1 DEF OpenPage, BeginCall, UnsentCall, CallAt, CallRequest, tables, history, Given
<1>2. ASSUME NEW c \in Call, FetchClient(c) PROVE BarredAreRevoked'
  <2>1. CASE GotoCall(c, "register")
    BY <1>2, <2>1 DEF FetchClient, EndCall, GotoCall, CallAt, CallRequest, tables, history,
       Given
  <2>2. CASE EndCall(c)
    BY <1>2, <2>2 DEF FetchClient, EndCall, GotoCall, CallAt, CallRequest, tables, history,
       Given
  <2>. QED
    BY <1>2, <2>1, <2>2 DEF FetchClient
<1>3. ASSUME NEW c \in Call, RegisterClient(c) PROVE BarredAreRevoked'
  BY <1>3 DEF RegisterClient, EndCall, GotoCall, CallAt, CallRequest, tables, history, Given
<1>4. ASSUME NEW c \in Call, NEW k \in Client, NEW s \in Shop, Approve(c, k, s) PROVE BarredAreRevoked'
  BY <1>4 DEF Approve, BeginCall, UnsentCall, CallAt, CallRequest, tables, history, Given
<1>5. ASSUME NEW c \in Call, CreateCode(c) PROVE BarredAreRevoked'
  BY <1>5 DEF CreateCode, EndCall, GotoCall, CallAt, CallRequest, tables, history, Given
<1>6. ASSUME NEW c \in Call, NEW s \in Shop, CreateToken(c, s) PROVE BarredAreRevoked'
  BY <1>6 DEF CreateToken, BeginCall, UnsentCall, CallAt, CallRequest, tables, history, Given
<1>7. ASSUME NEW c \in Call, NEW k \in Client, NEW t \in Call, BeginExchange(c, k, t) PROVE BarredAreRevoked'
  BY <1>7 DEF BeginExchange, BeginCall, UnsentCall, CallAt, CallRequest, tables, history, Given
<1>8. ASSUME NEW c \in Call, NEW k \in Client, NEW t \in Call, BeginRotate(c, k, t) PROVE BarredAreRevoked'
  BY <1>8 DEF BeginRotate, BeginCall, UnsentCall, CallAt, CallRequest, tables, history, Given
<1>9. ASSUME NEW c \in Call, FindCode(c) PROVE BarredAreRevoked'
  <2>1. CASE /\ codes[Given(c)].state = "live" /\ GotoCall(c, "consume")
             /\ rivals' = [rivals EXCEPT ![c] = Spending("exchange", Given(c))]
    BY <1>9, <2>1 DEF FindCode, Spending, EndCall, GotoCall, CallAt, CallRequest, tables,
       history, Given
  <2>2. CASE EndCall(c) /\ UNCHANGED rivals
    BY <1>9, <2>2 DEF FindCode, Spending, EndCall, GotoCall, CallAt, CallRequest, tables,
       history, Given
  <2>. QED
    BY <1>9, <2>1, <2>2 DEF FindCode
<1>10. ASSUME NEW c \in Call, ConsumeCode(c) PROVE BarredAreRevoked'
  BY <1>10 DEF ConsumeCode, Secret, EndCall, GotoCall, CallAt, CallRequest, tables, history,
     Given
<1>11. ASSUME NEW c \in Call, CheckCode(c) PROVE BarredAreRevoked'
  BY <1>11 DEF CheckCode, EndCall, GotoCall, CallAt, CallRequest, tables, history, Given
<1>12. ASSUME NEW c \in Call, FindRefresh(c) PROVE BarredAreRevoked'
  <2>1. CASE /\ refresh[Given(c)].state = "live" /\ refresh[Given(c)].client = call[c].client
             /\ call' = [call EXCEPT ![c].at = "consume", ![c].cred = refresh[Given(c)].cred]
             /\ rivals' = [rivals EXCEPT ![c] = Spending("rotate", Given(c))]
    BY <1>12, <2>1 DEF FindRefresh, Spending, EndCall, GotoCall, CallAt, CallRequest, tables,
       history, Given
  <2>2. CASE EndCall(c) /\ UNCHANGED rivals
    BY <1>12, <2>2 DEF FindRefresh, Spending, EndCall, GotoCall, CallAt, CallRequest, tables,
       history, Given
  <2>. QED
    BY <1>12, <2>1, <2>2 DEF FindRefresh
<1>13. ASSUME NEW c \in Call, RevokeRefresh(c) PROVE BarredAreRevoked'
  BY <1>13 DEF RevokeRefresh, Secret, EndCall, GotoCall, CallAt, CallRequest, tables, history,
     Given
<1>14. ASSUME NEW c \in Call, IssueAccess(c) PROVE BarredAreRevoked'
  BY <1>14 DEF IssueAccess, EndCall, GotoCall, CallAt, CallRequest, tables, history, Given
<1>15. ASSUME NEW c \in Call, IssueRefresh(c) PROVE BarredAreRevoked'
  BY <1>15 DEF IssueRefresh, EndCall, GotoCall, CallAt, CallRequest, tables, history, Given
<1>16. ASSUME NEW c \in Call, NEW t \in Call, DropToken(c, t) PROVE BarredAreRevoked'
  <2>1. CASE access[t].state # "none" /\ access' = [access EXCEPT ![t].state = "spent"] /\ UNCHANGED <<refresh, broken>>
    BY <1>16, <2>1 DEF DropToken, Secret, BeginCall, UnsentCall, CallAt, CallRequest, tables,
       history, Given
  <2>2. CASE /\ refresh[t].state # "none" /\ refresh' = [refresh EXCEPT ![t].state = "spent"]
             /\ broken' = broken \cup {refresh[t].cred} /\ UNCHANGED access
    BY <1>16, <2>2 DEF DropToken, Secret, BeginCall, UnsentCall, CallAt, CallRequest, tables,
       history, Given
  <2>. QED
    BY <1>16, <2>1, <2>2 DEF DropToken
<1>17. ASSUME NEW c \in Call, NEW t \in Call, BeginWithdraw(c, t) PROVE BarredAreRevoked'
  BY <1>17 DEF BeginWithdraw, BeginCall, UnsentCall, CallAt, CallRequest, tables, history, Given
<1>18. ASSUME NEW c \in Call, RevokeCredential(c) PROVE BarredAreRevoked'
  BY <1>18 DEF RevokeCredential, Credential, EndCall, GotoCall, CallAt, CallRequest, tables,
     history, Given
<1>19. ASSUME NEW c \in Call, NEW s \in Shop, NEW t \in Call, BeginUse(c, s, t) PROVE BarredAreRevoked'
  BY <1>19 DEF BeginUse, Revoked, BeginCall, UnsentCall, CallAt, CallRequest, tables, history,
     Given
<1>20. ASSUME NEW c \in Call, FindBearer(c) PROVE BarredAreRevoked'
  BY <1>20 DEF FindBearer, EndCall, GotoCall, CallAt, CallRequest, tables, history, Given
<1>21. ASSUME NEW c \in Call, FindHolder(c) PROVE BarredAreRevoked'
  <2>1. CASE GotoCall(c, "served")
    BY <1>21, <2>1 DEF FindHolder, Revoked, EndCall, GotoCall, CallAt, CallRequest, tables,
       history, Given
  <2>2. CASE EndCall(c)
    BY <1>21, <2>2 DEF FindHolder, Revoked, EndCall, GotoCall, CallAt, CallRequest, tables,
       history, Given
  <2>. QED
    BY <1>21, <2>1, <2>2 DEF FindHolder
<1>22. ASSUME NEW c \in Call, Expire(c) PROVE BarredAreRevoked'
  <2>1. CASE /\ codes[c].state = "live" /\ codes' = [codes EXCEPT ![c].state = "expired"]
             /\ broken' = broken \cup {codes[c].cred} /\ UNCHANGED <<creds, access, refresh>>
    BY <1>22, <2>1 DEF Expire, Secret, Credential, CallAt, tables, history, Given
  <2>2. CASE /\ access[c].state = "live" /\ access' = [access EXCEPT ![c].state = "expired"]
             /\ UNCHANGED <<creds, codes, refresh, broken>>
    BY <1>22, <2>2 DEF Expire, Secret, Credential, CallAt, tables, history, Given
  <2>3. CASE /\ refresh[c].state = "live" /\ refresh' = [refresh EXCEPT ![c].state = "expired"]
             /\ broken' = broken \cup {refresh[c].cred} /\ UNCHANGED <<creds, codes, access>>
    BY <1>22, <2>3 DEF Expire, Secret, Credential, CallAt, tables, history, Given
  <2>4. CASE /\ creds[c].client = NoClient /\ creds[c].state = "live"
             /\ creds' = [creds EXCEPT ![c].state = "expired"]
             /\ UNCHANGED <<codes, access, refresh, broken>>
    BY <1>22, <2>4 DEF Expire, Secret, Credential, CallAt, tables, history, Given
  <2>. QED
    BY <1>22, <2>1, <2>2, <2>3, <2>4 DEF Expire
<1>23. CASE OAuthRestart
  BY <1>23 DEF OAuthRestart, Waiting, CallAt, CallRequest, tables, history, Given
<1>24. CASE UNCHANGED oauthVars
  BY <1>24 DEF oauthVars, CallAt, tables, history, Given
<1>. QED
  BY <1>1, <1>2, <1>3, <1>4, <1>5, <1>6, <1>7, <1>8, <1>9, <1>10, <1>11, <1>12, <1>13, <1>14,
     <1>15, <1>16, <1>17, <1>18, <1>19, <1>20, <1>21, <1>22, <1>23, <1>24 DEF OAuthNext,
     StartCall, ContinueCall

\* No step serves a call on a credential that was revoked before it came in.
LEMMA OutStep ==
  ASSUME OAuthInv, [OAuthNext]_oauthVars
  PROVE  RevokedStaysOut'
<1>0. Shapes /\ Notes /\ BarredAreRevoked /\ RevokedStaysOut
  BY DEF OAuthInv, OAuthTypeOK, Shapes, Notes
<1>. USE <1>0 DEF Shapes, BarredAreRevoked, Revoked, RevokedStaysOut
<1>1. ASSUME NEW c \in Call, NEW k \in Client, OpenPage(c, k) PROVE RevokedStaysOut'
  BY <1>1 DEF OpenPage, BeginCall, UnsentCall, CallAt, CallRequest, tables, history, Given
<1>2. ASSUME NEW c \in Call, FetchClient(c) PROVE RevokedStaysOut'
  <2>1. CASE GotoCall(c, "register")
    BY <1>2, <2>1 DEF FetchClient, EndCall, GotoCall, CallAt, CallRequest, tables, history,
       Given
  <2>2. CASE EndCall(c)
    BY <1>2, <2>2 DEF FetchClient, EndCall, GotoCall, CallAt, CallRequest, tables, history,
       Given
  <2>. QED
    BY <1>2, <2>1, <2>2 DEF FetchClient
<1>3. ASSUME NEW c \in Call, RegisterClient(c) PROVE RevokedStaysOut'
  BY <1>3 DEF RegisterClient, EndCall, GotoCall, CallAt, CallRequest, tables, history, Given
<1>4. ASSUME NEW c \in Call, NEW k \in Client, NEW s \in Shop, Approve(c, k, s) PROVE RevokedStaysOut'
  BY <1>4 DEF Approve, BeginCall, UnsentCall, CallAt, CallRequest, tables, history, Given
<1>5. ASSUME NEW c \in Call, CreateCode(c) PROVE RevokedStaysOut'
  BY <1>5 DEF CreateCode, EndCall, GotoCall, CallAt, CallRequest, tables, history, Given
<1>6. ASSUME NEW c \in Call, NEW s \in Shop, CreateToken(c, s) PROVE RevokedStaysOut'
  BY <1>6 DEF CreateToken, BeginCall, UnsentCall, CallAt, CallRequest, tables, history, Given
<1>7. ASSUME NEW c \in Call, NEW k \in Client, NEW t \in Call, BeginExchange(c, k, t) PROVE RevokedStaysOut'
  BY <1>7 DEF BeginExchange, BeginCall, UnsentCall, CallAt, CallRequest, tables, history, Given
<1>8. ASSUME NEW c \in Call, NEW k \in Client, NEW t \in Call, BeginRotate(c, k, t) PROVE RevokedStaysOut'
  BY <1>8 DEF BeginRotate, BeginCall, UnsentCall, CallAt, CallRequest, tables, history, Given
<1>9. ASSUME NEW c \in Call, FindCode(c) PROVE RevokedStaysOut'
  <2>1. CASE /\ codes[Given(c)].state = "live" /\ GotoCall(c, "consume")
             /\ rivals' = [rivals EXCEPT ![c] = Spending("exchange", Given(c))]
    BY <1>9, <2>1 DEF FindCode, Spending, EndCall, GotoCall, CallAt, CallRequest, tables,
       history, Given
  <2>2. CASE EndCall(c) /\ UNCHANGED rivals
    BY <1>9, <2>2 DEF FindCode, Spending, EndCall, GotoCall, CallAt, CallRequest, tables,
       history, Given
  <2>. QED
    BY <1>9, <2>1, <2>2 DEF FindCode
<1>10. ASSUME NEW c \in Call, ConsumeCode(c) PROVE RevokedStaysOut'
  BY <1>10 DEF ConsumeCode, Secret, EndCall, GotoCall, CallAt, CallRequest, tables, history,
     Given
<1>11. ASSUME NEW c \in Call, CheckCode(c) PROVE RevokedStaysOut'
  BY <1>11 DEF CheckCode, EndCall, GotoCall, CallAt, CallRequest, tables, history, Given
<1>12. ASSUME NEW c \in Call, FindRefresh(c) PROVE RevokedStaysOut'
  <2>1. CASE /\ refresh[Given(c)].state = "live" /\ refresh[Given(c)].client = call[c].client
             /\ call' = [call EXCEPT ![c].at = "consume", ![c].cred = refresh[Given(c)].cred]
             /\ rivals' = [rivals EXCEPT ![c] = Spending("rotate", Given(c))]
    BY <1>12, <2>1 DEF FindRefresh, Spending, EndCall, GotoCall, CallAt, CallRequest, tables,
       history, Given
  <2>2. CASE EndCall(c) /\ UNCHANGED rivals
    BY <1>12, <2>2 DEF FindRefresh, Spending, EndCall, GotoCall, CallAt, CallRequest, tables,
       history, Given
  <2>. QED
    BY <1>12, <2>1, <2>2 DEF FindRefresh
<1>13. ASSUME NEW c \in Call, RevokeRefresh(c) PROVE RevokedStaysOut'
  BY <1>13 DEF RevokeRefresh, Secret, EndCall, GotoCall, CallAt, CallRequest, tables, history,
     Given
<1>14. ASSUME NEW c \in Call, IssueAccess(c) PROVE RevokedStaysOut'
  BY <1>14 DEF IssueAccess, EndCall, GotoCall, CallAt, CallRequest, tables, history, Given
<1>15. ASSUME NEW c \in Call, IssueRefresh(c) PROVE RevokedStaysOut'
  BY <1>15 DEF IssueRefresh, EndCall, GotoCall, CallAt, CallRequest, tables, history, Given
<1>16. ASSUME NEW c \in Call, NEW t \in Call, DropToken(c, t) PROVE RevokedStaysOut'
  <2>1. CASE access[t].state # "none" /\ access' = [access EXCEPT ![t].state = "spent"] /\ UNCHANGED <<refresh, broken>>
    BY <1>16, <2>1 DEF DropToken, Secret, BeginCall, UnsentCall, CallAt, CallRequest, tables,
       history, Given
  <2>2. CASE /\ refresh[t].state # "none" /\ refresh' = [refresh EXCEPT ![t].state = "spent"]
             /\ broken' = broken \cup {refresh[t].cred} /\ UNCHANGED access
    BY <1>16, <2>2 DEF DropToken, Secret, BeginCall, UnsentCall, CallAt, CallRequest, tables,
       history, Given
  <2>. QED
    BY <1>16, <2>1, <2>2 DEF DropToken
<1>17. ASSUME NEW c \in Call, NEW t \in Call, BeginWithdraw(c, t) PROVE RevokedStaysOut'
  BY <1>17 DEF BeginWithdraw, BeginCall, UnsentCall, CallAt, CallRequest, tables, history, Given
<1>18. ASSUME NEW c \in Call, RevokeCredential(c) PROVE RevokedStaysOut'
  BY <1>18 DEF RevokeCredential, Credential, EndCall, GotoCall, CallAt, CallRequest, tables,
     history, Given
<1>19. ASSUME NEW c \in Call, NEW s \in Shop, NEW t \in Call, BeginUse(c, s, t) PROVE RevokedStaysOut'
  BY <1>19 DEF BeginUse, Revoked, BeginCall, UnsentCall, CallAt, CallRequest, tables, history,
     Given
<1>20. ASSUME NEW c \in Call, FindBearer(c) PROVE RevokedStaysOut'
  BY SMTT(40), <1>20 DEF FindBearer, EndCall, GotoCall, CallAt, CallRequest, tables, history, Given
<1>21. ASSUME NEW c \in Call, FindHolder(c) PROVE RevokedStaysOut'
  <2>1. CASE GotoCall(c, "served")
    BY <1>21, <2>1 DEF FindHolder, Revoked, EndCall, GotoCall, CallAt, CallRequest, tables,
       history, Given
  <2>2. CASE EndCall(c)
    BY <1>21, <2>2 DEF FindHolder, Revoked, EndCall, GotoCall, CallAt, CallRequest, tables,
       history, Given
  <2>. QED
    BY <1>21, <2>1, <2>2 DEF FindHolder
<1>22. ASSUME NEW c \in Call, Expire(c) PROVE RevokedStaysOut'
  <2>1. CASE /\ codes[c].state = "live" /\ codes' = [codes EXCEPT ![c].state = "expired"]
             /\ broken' = broken \cup {codes[c].cred} /\ UNCHANGED <<creds, access, refresh>>
    BY <1>22, <2>1 DEF Expire, Secret, Credential, CallAt, tables, history, Given
  <2>2. CASE /\ access[c].state = "live" /\ access' = [access EXCEPT ![c].state = "expired"]
             /\ UNCHANGED <<creds, codes, refresh, broken>>
    BY <1>22, <2>2 DEF Expire, Secret, Credential, CallAt, tables, history, Given
  <2>3. CASE /\ refresh[c].state = "live" /\ refresh' = [refresh EXCEPT ![c].state = "expired"]
             /\ broken' = broken \cup {refresh[c].cred} /\ UNCHANGED <<creds, codes, access>>
    BY <1>22, <2>3 DEF Expire, Secret, Credential, CallAt, tables, history, Given
  <2>4. CASE /\ creds[c].client = NoClient /\ creds[c].state = "live"
             /\ creds' = [creds EXCEPT ![c].state = "expired"]
             /\ UNCHANGED <<codes, access, refresh, broken>>
    BY <1>22, <2>4 DEF Expire, Secret, Credential, CallAt, tables, history, Given
  <2>. QED
    BY <1>22, <2>1, <2>2, <2>3, <2>4 DEF Expire
<1>23. CASE OAuthRestart
  BY <1>23 DEF OAuthRestart, Waiting, CallAt, CallRequest, tables, history, Given
<1>24. CASE UNCHANGED oauthVars
  BY <1>24 DEF oauthVars, CallAt, tables, history, Given
<1>. QED
  BY <1>1, <1>2, <1>3, <1>4, <1>5, <1>6, <1>7, <1>8, <1>9, <1>10, <1>11, <1>12, <1>13, <1>14,
     <1>15, <1>16, <1>17, <1>18, <1>19, <1>20, <1>21, <1>22, <1>23, <1>24 DEF OAuthNext,
     StartCall, ContinueCall

\* No step leaves an approved client with nothing, unless it is cut off.
LEMMA KeepsStep ==
  ASSUME OAuthInv, [OAuthNext]_oauthVars, NEW x \in Call
  PROVE  KeepsAccess(x)'
<1>0. Shapes /\ KeepsAccess(x) /\ SecretsBacked /\ (\A d \in Call : CallInv(d) /\ BornOnce(d))
  BY DEF OAuthInv, OAuthTypeOK, Shapes, Notes
<1>. USE <1>0 DEF Shapes, KeepsAccess, WaitsFor, Reaches, CallInv, BornOnce, Backed
<1>1. ASSUME NEW c \in Call, NEW k \in Client, OpenPage(c, k) PROVE KeepsAccess(x)'
  BY <1>1 DEF OpenPage, BeginCall, UnsentCall, CallAt, CallRequest, tables, history, Given
<1>2. ASSUME NEW c \in Call, FetchClient(c) PROVE KeepsAccess(x)'
  <2>1. CASE GotoCall(c, "register")
    BY <1>2, <2>1 DEF FetchClient, EndCall, GotoCall, CallAt, CallRequest, tables, history,
       Given
  <2>2. CASE EndCall(c)
    BY <1>2, <2>2 DEF FetchClient, EndCall, GotoCall, CallAt, CallRequest, tables, history,
       Given
  <2>. QED
    BY <1>2, <2>1, <2>2 DEF FetchClient
<1>3. ASSUME NEW c \in Call, RegisterClient(c) PROVE KeepsAccess(x)'
  BY <1>3 DEF RegisterClient, EndCall, GotoCall, CallAt, CallRequest, tables, history, Given
<1>4. ASSUME NEW c \in Call, NEW k \in Client, NEW s \in Shop, Approve(c, k, s) PROVE KeepsAccess(x)'
  BY <1>4 DEF Approve, BeginCall, UnsentCall, CallAt, CallRequest, tables, history, Given
<1>5. ASSUME NEW c \in Call, CreateCode(c) PROVE KeepsAccess(x)'
  <2>1. /\ creds' = creds /\ refresh' = refresh /\ broken' = broken /\ codes[c].state = "none"
        /\ \A z \in Call \ {c} : call'[z] = call[z] /\ codes'[z] = codes[z]
        /\ codes'[c].cred = c /\ codes'[c].state = "live"
    BY <1>5 DEF CreateCode, EndCall, GotoCall, CallAt, CallRequest, tables, history, Given
  <2>2. CASE x = c
    BY <2>1, <2>2
  <2>3. ASSUME x # c, NEW t \in Call, WaitsFor(t, x) PROVE WaitsFor(t, x)'
    <3>1. t # c
      BY <1>5, <2>3 DEF CreateCode, CallAt
    <3>2. CallAt(t, "check") => Given(t) # c
      BY <2>1 DEF WasIssued, CallAt
    <3>. QED
      BY <2>1, <2>3, <3>1, <3>2 DEF CallAt, Given
  <2>4. ASSUME x # c, NEW t \in Call, Reaches(t, x) PROVE Reaches(t, x)'
    BY <2>1, <2>4
  <2>. QED
    BY <2>1, <2>2, <2>3, <2>4
<1>6. ASSUME NEW c \in Call, NEW s \in Shop, CreateToken(c, s) PROVE KeepsAccess(x)'
  BY <1>6 DEF CreateToken, BeginCall, UnsentCall, CallAt, CallRequest, tables, history, Given
<1>7. ASSUME NEW c \in Call, NEW k \in Client, NEW t \in Call, BeginExchange(c, k, t) PROVE KeepsAccess(x)'
  BY <1>7 DEF BeginExchange, BeginCall, UnsentCall, CallAt, CallRequest, tables, history, Given
<1>8. ASSUME NEW c \in Call, NEW k \in Client, NEW t \in Call, BeginRotate(c, k, t) PROVE KeepsAccess(x)'
  BY <1>8 DEF BeginRotate, BeginCall, UnsentCall, CallAt, CallRequest, tables, history, Given
<1>9. ASSUME NEW c \in Call, FindCode(c) PROVE KeepsAccess(x)'
  <2>1. CASE /\ codes[Given(c)].state = "live" /\ GotoCall(c, "consume")
             /\ rivals' = [rivals EXCEPT ![c] = Spending("exchange", Given(c))]
    BY <1>9, <2>1 DEF FindCode, Spending, EndCall, GotoCall, CallAt, CallRequest, tables,
       history, Given
  <2>2. CASE EndCall(c) /\ UNCHANGED rivals
    BY <1>9, <2>2 DEF FindCode, Spending, EndCall, GotoCall, CallAt, CallRequest, tables,
       history, Given
  <2>. QED
    BY <1>9, <2>1, <2>2 DEF FindCode
<1>10. ASSUME NEW c \in Call, ConsumeCode(c) PROVE KeepsAccess(x)'
  BY <1>10 DEF ConsumeCode, Secret, EndCall, GotoCall, CallAt, CallRequest, tables, history,
     Given
<1>11. ASSUME NEW c \in Call, CheckCode(c) PROVE KeepsAccess(x)'
  BY <1>11 DEF CheckCode, EndCall, GotoCall, CallAt, CallRequest, tables, history, Given
<1>12. ASSUME NEW c \in Call, FindRefresh(c) PROVE KeepsAccess(x)'
  <2>1. CASE /\ refresh[Given(c)].state = "live" /\ refresh[Given(c)].client = call[c].client
             /\ call' = [call EXCEPT ![c].at = "consume", ![c].cred = refresh[Given(c)].cred]
             /\ rivals' = [rivals EXCEPT ![c] = Spending("rotate", Given(c))]
    BY <1>12, <2>1 DEF FindRefresh, Spending, EndCall, GotoCall, CallAt, CallRequest, tables,
       history, Given
  <2>2. CASE EndCall(c) /\ UNCHANGED rivals
    BY <1>12, <2>2 DEF FindRefresh, Spending, EndCall, GotoCall, CallAt, CallRequest, tables,
       history, Given
  <2>. QED
    BY <1>12, <2>1, <2>2 DEF FindRefresh
<1>13. ASSUME NEW c \in Call, RevokeRefresh(c) PROVE KeepsAccess(x)'
  BY <1>13 DEF RevokeRefresh, Secret, EndCall, GotoCall, CallAt, CallRequest, tables, history,
     Given
<1>14. ASSUME NEW c \in Call, IssueAccess(c) PROVE KeepsAccess(x)'
  BY <1>14 DEF IssueAccess, EndCall, GotoCall, CallAt, CallRequest, tables, history, Given
<1>15. ASSUME NEW c \in Call, IssueRefresh(c) PROVE KeepsAccess(x)'
  BY <1>15 DEF IssueRefresh, EndCall, GotoCall, CallAt, CallRequest, tables, history, Given
<1>16. ASSUME NEW c \in Call, NEW t \in Call, DropToken(c, t) PROVE KeepsAccess(x)'
  <2>1. CASE access[t].state # "none" /\ access' = [access EXCEPT ![t].state = "spent"] /\ UNCHANGED <<refresh, broken>>
    BY <1>16, <2>1 DEF DropToken, Secret, BeginCall, UnsentCall, CallAt, CallRequest, tables,
       history, Given
  <2>2. CASE /\ refresh[t].state # "none" /\ refresh' = [refresh EXCEPT ![t].state = "spent"]
             /\ broken' = broken \cup {refresh[t].cred} /\ UNCHANGED access
    BY <1>16, <2>2 DEF DropToken, Secret, BeginCall, UnsentCall, CallAt, CallRequest, tables,
       history, Given
  <2>. QED
    BY <1>16, <2>1, <2>2 DEF DropToken
<1>17. ASSUME NEW c \in Call, NEW t \in Call, BeginWithdraw(c, t) PROVE KeepsAccess(x)'
  BY <1>17 DEF BeginWithdraw, BeginCall, UnsentCall, CallAt, CallRequest, tables, history, Given
<1>18. ASSUME NEW c \in Call, RevokeCredential(c) PROVE KeepsAccess(x)'
  BY <1>18 DEF RevokeCredential, Credential, EndCall, GotoCall, CallAt, CallRequest, tables,
     history, Given
<1>19. ASSUME NEW c \in Call, NEW s \in Shop, NEW t \in Call, BeginUse(c, s, t) PROVE KeepsAccess(x)'
  BY <1>19 DEF BeginUse, Revoked, BeginCall, UnsentCall, CallAt, CallRequest, tables, history,
     Given
<1>20. ASSUME NEW c \in Call, FindBearer(c) PROVE KeepsAccess(x)'
  BY <1>20 DEF FindBearer, EndCall, GotoCall, CallAt, CallRequest, tables, history, Given
<1>21. ASSUME NEW c \in Call, FindHolder(c) PROVE KeepsAccess(x)'
  <2>1. CASE GotoCall(c, "served")
    BY <1>21, <2>1 DEF FindHolder, Revoked, EndCall, GotoCall, CallAt, CallRequest, tables,
       history, Given
  <2>2. CASE EndCall(c)
    BY <1>21, <2>2 DEF FindHolder, Revoked, EndCall, GotoCall, CallAt, CallRequest, tables,
       history, Given
  <2>. QED
    BY <1>21, <2>1, <2>2 DEF FindHolder
<1>22. ASSUME NEW c \in Call, Expire(c) PROVE KeepsAccess(x)'
  <2>1. CASE /\ codes[c].state = "live" /\ codes' = [codes EXCEPT ![c].state = "expired"]
             /\ broken' = broken \cup {codes[c].cred} /\ UNCHANGED <<creds, access, refresh>>
    BY <1>22, <2>1 DEF Expire, Secret, Credential, CallAt, tables, history, Given
  <2>2. CASE /\ access[c].state = "live" /\ access' = [access EXCEPT ![c].state = "expired"]
             /\ UNCHANGED <<creds, codes, refresh, broken>>
    BY <1>22, <2>2 DEF Expire, Secret, Credential, CallAt, tables, history, Given
  <2>3. CASE /\ refresh[c].state = "live" /\ refresh' = [refresh EXCEPT ![c].state = "expired"]
             /\ broken' = broken \cup {refresh[c].cred} /\ UNCHANGED <<creds, codes, access>>
    BY <1>22, <2>3 DEF Expire, Secret, Credential, CallAt, tables, history, Given
  <2>4. CASE /\ creds[c].client = NoClient /\ creds[c].state = "live"
             /\ creds' = [creds EXCEPT ![c].state = "expired"]
             /\ UNCHANGED <<codes, access, refresh, broken>>
    BY <1>22, <2>4 DEF Expire, Secret, Credential, CallAt, tables, history, Given
  <2>. QED
    BY <1>22, <2>1, <2>2, <2>3, <2>4 DEF Expire
<1>23. CASE OAuthRestart
  BY <1>23 DEF OAuthRestart, Waiting, CallAt, CallRequest, tables, history, Given
<1>24. CASE UNCHANGED oauthVars
  BY <1>24 DEF oauthVars, CallAt, tables, history, Given
<1>. QED
  BY <1>1, <1>2, <1>3, <1>4, <1>5, <1>6, <1>7, <1>8, <1>9, <1>10, <1>11, <1>12, <1>13, <1>14,
     <1>15, <1>16, <1>17, <1>18, <1>19, <1>20, <1>21, <1>22, <1>23, <1>24 DEF OAuthNext,
     StartCall, ContinueCall

\* OAuthInv is an invariant of the authorization server.
THEOREM OAuthInvariance == OAuthSpec => []OAuthInv
<1>1. OAuthInit => OAuthInv
  BY OAuthInitInv
<1>2. OAuthInv /\ [OAuthNext]_oauthVars => OAuthInv'
  BY ShapesStep, NotesStep, BackedStep, CallStep, BornStep, UsedStep, RivalsStep, BarredStep,
     OutStep, KeepsStep DEF OAuthInv, OAuthTypeOK, Shapes, Notes
<1>. QED
  BY <1>1, <1>2, PTL DEF OAuthSpec

\* The OAuth routes and authenticateMcp: a client acts with the credential it was given,
\* a secret yields one pair, a revoked credential serves nobody and rotation never
\* leaves an approved client with nothing.
THEOREM AccessIsGranted == OAuthSpec => []OAuthSafe
<1>1. OAuthInv => TokenOfItsGrant
  BY DEF OAuthInv, SecretsBacked, Backed, TokenOfItsGrant
<1>2. OAuthInv => OneUseWithoutOverlap
  BY DEF OAuthInv, RivalsKnown, Spender, PastUse, BornOnce, OneUseWithoutOverlap
<1>3. OAuthInv => ClientKeepsAccess
  BY DEF OAuthInv, OAuthTypeOK, KeepsAccess, WaitsFor, Reaches, ClientKeepsAccess, Approved, Waiting
<1>4. OAuthInv => OAuthSafe
  BY <1>1, <1>2, <1>3 DEF OAuthInv, OAuthSafe
<1>. QED
  BY <1>4, OAuthInvariance, PTL

-----------------------------------------------------------------------------
(* The MCP server *)

Place == {"unsent", "next", "listen", "introduce", "run", "over"}
Count == 0 .. MaxItems
Marks == SUBSET (1 .. MaxItems)
Answers == Seq(1 .. MaxItems)
Clients == ClientName \cup {Nothing}
Belongs == Session \cup {Nothing}
Status == {0, 200, 202, 400, 404, 405, 500}
PostRec ==
  [at : Place, batch : BOOLEAN, left : Count, n : Count, item : Item, headers : Headers, notes : Marks,
   answers : Answers, ran : Marks, client : Clients, told : Belongs, status : Status]

KeptOK ==
  /\ kv \in [Session -> ClientName \cup {Nothing}] /\ fresh \subseteq Session
  /\ gave \in [Session -> ClientName \cup {Nothing}]

AtWork(r) == r.at \in {"listen", "introduce", "run"}

\* How far a request is says what it has answered and run.
Progress(r) ==
  /\ r.at = "unsent" => /\ r.n = 0 /\ r.left = 0 /\ ~r.batch /\ r.answers = <<>> /\ r.ran = {}
                        /\ r.headers.session = Nothing
  /\ r.n + r.left <= MaxItems /\ (r.batch \/ r.n + r.left <= 1)
  /\ r.notes \subseteq 1 .. r.n
  /\ r.at = "next" => r.left > 0 /\ Matched(r, r.n) /\ r.ran \subseteq ToSet(r.answers)
  /\ AtWork(r) => /\ r.n > 0 /\ Matched(r, r.n - 1) /\ r.ran \subseteq ToSet(r.answers)
                  /\ r.n \in r.notes <=> Note(r.item)
  /\ r.at = "over" /\ r.status # 500 =>
       (r.batch => Matched(r, r.n)) /\ r.ran \subseteq ToSet(r.answers) /\ r.left = 0
  /\ r.at = "over" <=> r.status # 0

\* What was checked of the item that is worked on.
Vetted(r) ==
  /\ AtWork(r) /\ IsModern(r.item) =>
       /\ r.batch \/ ~HeadersWrong(r.headers, r.item)
       /\ r.item.method \notin RemovedInModern /\ r.item.capabilities
  /\ r.at = "introduce" => ~IsModern(r.item)
  /\ r.at = "run" /\ ~IsModern(r.item) => r.item.method # "initialize"

\* A session that a request names is over; the name it is counted under is that session's.
Linked(p) ==
  /\ post[p].headers.session # Nothing =>
       post[p].headers.session \in Session /\ post[post[p].headers.session[1]].at = "over"
  /\ post[p].at = "listen" /\ ~IsModern(post[p].item) /\ post[p].item.method = "initialize" =>
       gave[<<p, post[p].n>>] = post[p].item.client
  /\ post[p].at = "run" /\ ~IsModern(post[p].item) /\ post[p].client # Nothing =>
       /\ post[p].told # Nothing /\ post[p].told = post[p].headers.session
       /\ post[p].client = gave[post[p].told]

\* A kept name is the one its session gave.
NamesKept == \A s \in fresh : kv[s] = gave[s] /\ s[2] <= post[s[1]].n

McpInv ==
  /\ post \in [Post -> PostRec] /\ KeptOK /\ NamesKept
  /\ \A p \in Post : Progress(post[p]) /\ Vetted(post[p]) /\ Linked(p)

-----------------------------------------------------------------------------
(* What becomes of a request *)

LEMMA McpConstants ==
  /\ MaxItems \in Nat /\ MaxItems > 0
  /\ NoItem \in Item /\ NoHeaders \in Headers /\ NoHeaders.session = Nothing /\ ~IsModern(NoItem)
<1>1. NoItem \in Item
  BY DEF NoItem, Item, Version, Method
<1>2. NoHeaders \in Headers /\ NoHeaders.session = Nothing
  BY DEF NoHeaders, Headers, Version
<1>3. ~IsModern(NoItem)
  BY DEF NoItem, IsModern
<1>. QED
  BY <1>1, <1>2, <1>3, McpAssumption

LEMMA Becoming ==
  ASSUME post \in [Post -> PostRec], NEW p \in Post, NEW r \in PostRec, Becomes(p, r)
  PROVE  post' \in [Post -> PostRec] /\ post'[p] = r /\ \A q \in Post : q # p => post'[q] = post[q]
  BY DEF Becomes

\* An answer more.
LEMMA Appended ==
  ASSUME NEW s \in Answers, NEW m \in 1 .. MaxItems
  PROVE  /\ Append(s, m) \in Answers
         /\ ToSet(Append(s, m)) = ToSet(s) \cup {m}
         /\ (\A i, j \in DOMAIN s : i < j => s[i] < s[j]) /\ (\A i \in DOMAIN s : s[i] < m) =>
              \A i, j \in DOMAIN Append(s, m) : i < j => Append(s, m)[i] < Append(s, m)[j]
<1>1. PICK t : t = Append(s, m)
  OBVIOUS
<1>2. t \in Answers /\ DOMAIN t = 1 .. Len(s) + 1 /\ DOMAIN s = 1 .. Len(s) /\ Len(s) \in Nat
  BY <1>1 DEF Answers
<1>3. t[Len(s) + 1] = m /\ \A i \in 1 .. Len(s) : t[i] = s[i]
  BY <1>1 DEF Answers
<1>4. ToSet(t) = ToSet(s) \cup {m}
  <2>1. \A i \in DOMAIN t : t[i] \in ToSet(s) \cup {m}
    BY <1>2, <1>3 DEF ToSet
  <2>2. \A i \in DOMAIN s : s[i] \in ToSet(t)
    BY <1>2, <1>3 DEF ToSet
  <2>3. m \in ToSet(t)
    BY <1>2, <1>3 DEF ToSet
  <2>. QED
    BY <2>1, <2>2, <2>3 DEF ToSet
<1>5. ASSUME \A i, j \in DOMAIN s : i < j => s[i] < s[j], \A i \in DOMAIN s : s[i] < m,
             NEW i \in DOMAIN t, NEW j \in DOMAIN t, i < j
      PROVE  t[i] < t[j]
  <2>1. i \in 1 .. Len(s)
    BY <1>2, <1>5
  <2>2. CASE j = Len(s) + 1
    BY <1>2, <1>3, <1>5, <2>1, <2>2
  <2>3. CASE j # Len(s) + 1
    <3>1. j \in 1 .. Len(s)
      BY <1>2, <2>3
    <3>. QED
      BY <1>2, <1>3, <1>5, <2>1, <3>1
  <2>. QED
    BY <2>2, <2>3
<1>. QED
  BY <1>1, <1>2, <1>4, <1>5

LEMMA MatchedNote ==
  ASSUME NEW r \in PostRec, r.n > 0, Matched(r, r.n - 1), r.n \in r.notes
  PROVE  Matched(r, r.n)
<1>1. r.n \in Nat
  BY McpConstants DEF PostRec, Count
<1>2. 1 .. r.n = (1 .. r.n - 1) \cup {r.n}
  BY <1>1
<1>. QED
  BY <1>2 DEF Matched

LEMMA MatchedAnswer ==
  ASSUME NEW r \in PostRec, r.n > 0, Matched(r, r.n - 1), r.n \notin r.notes,
         NEW s \in PostRec, s.answers = Append(r.answers, r.n), s.notes = r.notes, s.n = r.n
  PROVE  Matched(s, s.n) /\ ToSet(s.answers) = ToSet(r.answers) \cup {r.n}
<1>1. PICK k \in Nat : k = r.n
  BY McpConstants DEF PostRec, Count
<1>2. k \in 1 .. MaxItems /\ r.answers \in Answers
  BY <1>1, McpConstants DEF PostRec, Count
<1>3. 1 .. k = (1 .. k - 1) \cup {k}
  BY <1>1
<1>4. \A i \in DOMAIN r.answers : r.answers[i] < k
  <2>1. \A i \in DOMAIN r.answers : r.answers[i] \in 1 .. k - 1
    BY <1>1 DEF Matched, ToSet
  <2>. QED
    BY <2>1, <1>1
<1>5. ToSet(s.answers) = ToSet(r.answers) \cup {k}
  BY <1>1, <1>2, Appended
<1>6. \A i, j \in DOMAIN s.answers : i < j => s.answers[i] < s.answers[j]
  <2>1. \A i, j \in DOMAIN r.answers : i < j => r.answers[i] < r.answers[j]
    BY DEF Matched
  <2>. QED
    BY <1>1, <1>2, <1>4, <2>1, Appended
<1>7. ToSet(r.answers) = (1 .. k - 1) \ r.notes
  BY <1>1 DEF Matched
<1>8. ToSet(s.answers) = (1 .. k) \ s.notes
  BY <1>1, <1>3, <1>5, <1>7
<1>. QED
  BY <1>1, <1>5, <1>6, <1>8 DEF Matched

LEMMA FinishedDoes ==
  ASSUME NEW r \in PostRec, NEW status \in Status
  PROVE  LET s == Finished(r, status) IN
         /\ s \in PostRec /\ s.at = "over" /\ s.status = status /\ s.headers.session = Nothing
         /\ s.n = r.n /\ s.left = r.left /\ s.batch = r.batch /\ s.notes = r.notes /\ s.answers = r.answers
         /\ s.ran = r.ran
<1>1. PICK s : s = Finished(r, status)
  OBVIOUS
<1>2. s = [r EXCEPT !.at = "over", !.status = status, !.item = NoItem, !.headers = NoHeaders]
  BY <1>1 DEF Finished
<1>3. s \in PostRec
  <2>1. NoItem \in Item /\ NoHeaders \in Headers /\ "over" \in Place
    BY McpConstants DEF Place
  <2>. QED
    BY <1>2, <2>1 DEF PostRec
<1>4. /\ s.at = "over" /\ s.status = status /\ s.headers = NoHeaders
      /\ s.n = r.n /\ s.left = r.left /\ s.batch = r.batch /\ s.notes = r.notes /\ s.answers = r.answers
      /\ s.ran = r.ran
  BY <1>2 DEF PostRec
<1>. QED
  BY <1>1, <1>3, <1>4, McpConstants

\* A request that works on its item.
Doing(r) ==
  /\ r \in PostRec /\ r.n > 0 /\ r.n + r.left <= MaxItems /\ (r.batch \/ r.n + r.left <= 1)
  /\ r.notes \subseteq 1 .. r.n /\ Matched(r, r.n - 1) /\ (r.n \in r.notes <=> IsNotification(r.item))
  /\ r.status = 0

\* A request that ends, or goes on to its next item.
Settled(r, n, ss) ==
  /\ r \in PostRec /\ Progress(r) /\ r.at \in {"next", "over"} /\ r.n >= n
  /\ r.headers.session \in ss \cup {Nothing}

\* An item of a batch that has the answers a now.
InBatch(r, a) ==
  IF r.left = 0 THEN Finished([r EXCEPT !.answers = a, !.item = NoItem], 200)
  ELSE [[r EXCEPT !.answers = a, !.item = NoItem] EXCEPT !.at = "next"]

\* The statuses of an outcome.
Outcome == {200, 202, 400, 404}

LEMMA AnsweredDoes ==
  ASSUME NEW r, Doing(r), NEW status \in Outcome,
         r.ran \subseteq ToSet(r.answers) \/ (~IsNotification(r.item) /\ r.ran \subseteq ToSet(r.answers) \cup {r.n}),
         status = 202 => r.ran \subseteq ToSet(r.answers)
  PROVE  Settled(Answered(r, status), r.n, {r.headers.session})
<1>a. /\ r \in PostRec /\ r.n \in Nat /\ r.n > 0 /\ r.left \in Nat /\ r.n \in 1 .. MaxItems /\ MaxItems \in Nat
      /\ r.batch \in BOOLEAN /\ r.answers \in Answers
  BY McpConstants DEF Doing, PostRec, Count
<1>b. status \in Status /\ status # 0 /\ status # 500
  BY DEF Status, Outcome
<1>c. r.notes \subseteq 1 .. r.n /\ r.n + r.left <= MaxItems /\ r.status = 0
  BY DEF Doing
<1>1. CASE ~r.batch
  <2>7. r.n = 1 /\ r.left = 0
    BY <1>1, <1>a DEF Doing
  <2>8. ToSet(r.answers) = {}
    <3>1. 1 .. 0 = {}
      OBVIOUS
    <3>. QED
      BY <2>7, <3>1 DEF Doing, Matched
  <2>1. ASSUME NEW a \in Answers, r.ran \subseteq ToSet(a),
               Answered(r, status) = Finished([r EXCEPT !.answers = a], status)
        PROVE  Settled(Answered(r, status), r.n, {r.headers.session})
    <3>2. PICK q : q = [r EXCEPT !.answers = a]
      OBVIOUS
    <3>4. q \in PostRec /\ q.n = r.n /\ q.left = r.left /\ q.batch = r.batch /\ q.notes = r.notes /\ q.answers = a
          /\ q.ran = r.ran
      BY <1>a, <3>2 DEF PostRec
    <3>5. PICK s : s = Finished(q, status)
      OBVIOUS
    <3>6. /\ s \in PostRec /\ s.at = "over" /\ s.status = status /\ s.headers.session = Nothing
          /\ s.n = r.n /\ s.left = r.left /\ s.batch = r.batch /\ s.notes = r.notes /\ s.answers = a /\ s.ran = r.ran
      BY <1>b, <3>4, <3>5, FinishedDoes
    <3>7. Progress(s)
      BY <1>1, <1>b, <1>c, <2>1, <2>7, <3>6, McpConstants DEF Progress, AtWork
    <3>. QED
      BY <1>a, <2>1, <3>2, <3>5, <3>6, <3>7 DEF Settled
  <2>2. CASE status = 202
    <3>1. Answered(r, status) = Finished([r EXCEPT !.answers = <<>>], status)
      BY <1>1, <2>2 DEF Answered
    <3>2. <<>> \in Answers
      BY DEF Answers
    <3>. QED
      BY <2>1, <2>2, <2>8, <3>1, <3>2
  <2>3. CASE status # 202
    <3>1. Answered(r, status) = Finished([r EXCEPT !.answers = <<r.n>>], status)
      BY <1>1, <2>3 DEF Answered
    <3>2. PICK a : a = <<r.n>>
      OBVIOUS
    <3>3. a \in Answers /\ DOMAIN a = {1} /\ a[1] = r.n
      BY <1>a, <3>2 DEF Answers
    <3>4. ToSet(a) = {r.n}
      BY <3>3 DEF ToSet
    <3>5. r.ran \subseteq ToSet(a)
      BY <2>8, <3>4
    <3>. QED
      BY <2>1, <3>1, <3>2, <3>3, <3>5
  <2>. QED
    BY <2>2, <2>3
<1>2. CASE r.batch
  <2>1. ASSUME NEW a \in Answers, a = r.answers \/ ~IsNotification(r.item), a = Append(r.answers, r.n) \/ IsNotification(r.item),
               Answered(r, status) = InBatch(r, a)
        PROVE  Settled(Answered(r, status), r.n, {r.headers.session})
    <3>1. PICK q : q = [r EXCEPT !.answers = a, !.item = NoItem]
      OBVIOUS
    <3>2. NoItem \in Item
      BY McpConstants
    <3>3. /\ q \in PostRec /\ q.n = r.n /\ q.left = r.left /\ q.batch = r.batch /\ q.notes = r.notes /\ q.answers = a
          /\ q.ran = r.ran /\ q.headers = r.headers /\ q.status = r.status
      BY <1>a, <3>1, <3>2 DEF PostRec
    <3>4. Matched(q, q.n) /\ q.ran \subseteq ToSet(q.answers)
      <4>1. CASE IsNotification(r.item)
        <5>1. r.n \in r.notes
          BY <4>1 DEF Doing
        <5>2. Matched(r, r.n)
          BY <1>a, <5>1, MatchedNote DEF Doing
        <5>3. q.answers = r.answers
          BY <2>1, <3>3, <4>1
        <5>. QED
          BY <3>3, <4>1, <5>2, <5>3 DEF Matched
      <4>2. CASE ~IsNotification(r.item)
        <5>1. r.n \notin r.notes /\ Matched(r, r.n - 1)
          BY <4>2 DEF Doing
        <5>2. q.answers = Append(r.answers, r.n)
          BY <2>1, <3>3, <4>2
        <5>3. Matched(q, q.n) /\ ToSet(q.answers) = ToSet(r.answers) \cup {r.n}
          BY <1>a, <3>3, <5>1, <5>2, MatchedAnswer
        <5>. QED
          BY <3>3, <5>3
      <4>. QED
        BY <4>1, <4>2
    <3>7. Answered(r, status) = IF r.left = 0 THEN Finished(q, 200) ELSE [q EXCEPT !.at = "next"]
      BY <2>1, <3>1 DEF InBatch
    <3>8. CASE r.left = 0
      <4>1. PICK s : s = Finished(q, 200)
        OBVIOUS
      <4>2. /\ s \in PostRec /\ s.at = "over" /\ s.status = 200 /\ s.headers.session = Nothing
            /\ s.n = r.n /\ s.left = r.left /\ s.batch = r.batch /\ s.notes = r.notes /\ s.answers = q.answers
            /\ s.ran = q.ran
        BY <3>3, <4>1, FinishedDoes DEF Status
      <4>3. Matched(s, s.n)
        BY <3>3, <3>4, <4>2 DEF Matched
      <4>4. Progress(s)
        BY <1>2, <1>c, <3>3, <3>4, <3>8, <4>2, <4>3 DEF Progress, AtWork
      <4>. QED
        BY <1>a, <3>7, <3>8, <4>1, <4>2, <4>4 DEF Settled
    <3>9. CASE r.left # 0
      <4>1. PICK s : s = [q EXCEPT !.at = "next"]
        OBVIOUS
      <4>2. "next" \in Place
        BY DEF Place
      <4>3. /\ s \in PostRec /\ s.at = "next" /\ s.status = 0 /\ s.headers = r.headers
            /\ s.n = r.n /\ s.left = r.left /\ s.batch = r.batch /\ s.notes = r.notes /\ s.answers = q.answers
            /\ s.ran = q.ran
        BY <1>c, <3>3, <4>1, <4>2 DEF PostRec
      <4>4. Matched(s, s.n)
        BY <3>3, <3>4, <4>3 DEF Matched
      <4>5. r.left > 0
        BY <1>a, <3>9
      <4>6. Progress(s)
        BY <1>2, <1>c, <3>3, <3>4, <4>3, <4>4, <4>5 DEF Progress, AtWork
      <4>. QED
        BY <1>a, <3>7, <3>9, <4>1, <4>3, <4>6 DEF Settled
    <3>. QED
      BY <3>8, <3>9
  <2>2. CASE IsNotification(r.item)
    <3>1. PICK a \in Answers : a = r.answers
      BY <1>a
    <3>2. Answered(r, status) = InBatch(r, a)
      BY <1>2, <2>2, <3>1 DEF Answered, InBatch
    <3>. QED
      BY <2>1, <2>2, <3>1, <3>2
  <2>3. CASE ~IsNotification(r.item)
    <3>0. Append(r.answers, r.n) \in Answers
      BY <1>a, Appended
    <3>1. PICK a \in Answers : a = Append(r.answers, r.n)
      BY <3>0
    <3>2. Answered(r, status) = InBatch(r, a)
      BY <1>a, <1>2, <2>3, <3>1 DEF Answered, InBatch, PostRec
    <3>. QED
      BY <2>1, <2>3, <3>1, <3>2
  <2>. QED
    BY <2>2, <2>3
<1>. QED
  BY <1>1, <1>2

LEMMA TookDoes ==
  ASSUME post \in [Post -> PostRec], NEW p \in Post, Progress(post[p]), post[p].at = "next", NEW i \in Item
  PROVE  LET r == Took(p, i) IN
         /\ Doing(r) /\ r.item = i /\ r.n = post[p].n + 1 /\ r.headers = post[p].headers /\ r.batch = post[p].batch
         /\ r.ran \subseteq ToSet(r.answers)
         /\ r.notes = IF Note(i) THEN post[p].notes \cup {post[p].n + 1} ELSE post[p].notes
<1>1. PICK a : a = post[p]
  OBVIOUS
<1>2. /\ a \in PostRec /\ a.n \in Nat /\ a.left \in Nat /\ a.left > 0 /\ a.n + a.left <= MaxItems
      /\ (a.batch \/ a.n + a.left <= 1) /\ a.notes \subseteq 1 .. a.n /\ Matched(a, a.n)
      /\ a.ran \subseteq ToSet(a.answers) /\ MaxItems \in Nat /\ a.status = 0
  BY <1>1, McpConstants DEF PostRec, Count, Progress
<1>3. PICK m : m = IF Note(i) THEN a.notes \cup {a.n + 1} ELSE a.notes
  OBVIOUS
<1>4. PICK r : r = [a EXCEPT !.item = i, !.n = a.n + 1, !.left = a.left - 1, !.client = Nothing, !.told = Nothing,
                             !.notes = m]
  OBVIOUS
<1>5. a.n + 1 \in 1 .. MaxItems /\ a.n + 1 \in Count /\ a.left - 1 \in Count
  BY <1>2 DEF Count
<1>6. m \in Marks /\ m \subseteq 1 .. a.n + 1
  BY <1>2, <1>3, <1>5 DEF Marks
<1>7. r \in PostRec
  <2>1. Nothing \in Clients /\ Nothing \in Belongs
    BY DEF Clients, Belongs
  <2>. QED
    BY <1>2, <1>4, <1>5, <1>6, <2>1 DEF PostRec
<1>8. /\ r.item = i /\ r.n = a.n + 1 /\ r.left = a.left - 1 /\ r.notes = m /\ r.headers = a.headers
      /\ r.batch = a.batch /\ r.answers = a.answers /\ r.ran = a.ran /\ r.status = a.status /\ r.at = a.at
  BY <1>2, <1>4 DEF PostRec
<1>9. r.n - 1 = a.n /\ r.n > 0 /\ r.n + r.left = a.n + a.left
  BY <1>2, <1>8
<1>10. (1 .. a.n) \ m = (1 .. a.n) \ a.notes
  BY <1>2, <1>3
<1>11. Matched(r, r.n - 1)
  BY <1>2, <1>8, <1>9, <1>10 DEF Matched
<1>12. r.n \in r.notes <=> Note(i)
  BY <1>2, <1>3, <1>8
<1>13. Note(i) <=> IsNotification(r.item)
  BY <1>8 DEF Note, IsNotification
<1>14. Doing(r)
  BY <1>2, <1>6, <1>7, <1>8, <1>9, <1>11, <1>12, <1>13 DEF Doing
<1>15. Took(p, i) = r
  <2>1. Took(p, i) = [a EXCEPT !.item = i, !.n = a.n + 1, !.left = a.left - 1, !.client = Nothing, !.told = Nothing,
                             !.notes = IF Note(i) THEN a.notes \cup {a.n + 1} ELSE a.notes]
    BY <1>1, <1>2 DEF Took, PostRec
  <2>. QED
    BY <1>3, <1>4, <2>1
<1>. QED
  BY <1>1, <1>2, <1>3, <1>8, <1>14, <1>15

-----------------------------------------------------------------------------
(* The steps *)

\* A request that has its body, m items under the headers h.
Received(r, b, m, h) ==
  /\ r \in PostRec /\ r.at = "next" /\ r.batch = b /\ r.left = m /\ r.n = 0 /\ r.headers = h /\ r.notes = {}
  /\ r.answers = <<>> /\ r.ran = {} /\ r.status = 0

\* A request that received its body, or had it refused.
LEMMA ReceiveDoes ==
  ASSUME McpInv, NEW p \in Post, post[p].at = "unsent",
         \/ ReceiveOther(p) \/ ReceiveInvalid(p) \/ \E h \in Headers : ReceiveSingle(p, h)
         \/ \E n \in 1 .. MaxItems, s \in Session \cup {Nothing} : ReceiveBatch(p, n, s)
  PROVE  \E r : Becomes(p, r) /\ Settled(r, post[p].n, Issued)
<1>1. PICK a : a = post[p]
  OBVIOUS
<1>2. /\ a \in PostRec /\ a.n = 0 /\ a.left = 0 /\ ~a.batch /\ a.answers = <<>> /\ a.ran = {} /\ a.notes \subseteq {}
  <2>1. a \in PostRec /\ Progress(a) /\ a.at = "unsent"
    BY <1>1 DEF McpInv
  <2>2. 1 .. 0 = {}
    OBVIOUS
  <2>. QED
    BY <2>1, <2>2 DEF Progress
<1>3. ToSet(<<>>) = {}
  BY DEF ToSet
<1>4. ASSUME NEW x \in {400, 405}, Becomes(p, Finished(a, x)) PROVE \E r : Becomes(p, r) /\ Settled(r, a.n, Issued)
  <2>1. PICK s : s = Finished(a, x)
    OBVIOUS
  <2>2. /\ s \in PostRec /\ s.at = "over" /\ s.status = x /\ s.headers.session = Nothing
        /\ s.n = a.n /\ s.left = a.left /\ s.batch = a.batch /\ s.notes = a.notes /\ s.answers = a.answers
        /\ s.ran = a.ran
    BY <1>2, <2>1, FinishedDoes DEF Status
  <2>3. Progress(s)
    BY <1>2, <2>2, McpConstants DEF Progress, AtWork
  <2>. QED
    BY <1>2, <1>4, <2>1, <2>2, <2>3 DEF Settled
<1>5. ASSUME NEW b \in BOOLEAN, NEW m \in Count, NEW h \in Headers, m > 0, b \/ m = 1, h.session \in Issued \cup {Nothing},
             NEW r, Received(r, b, m, h), Becomes(p, r)
      PROVE  \E s : Becomes(p, s) /\ Settled(s, a.n, Issued)
  <2>5. /\ r \in PostRec /\ r.at = "next" /\ r.batch = b /\ r.left = m /\ r.n = 0 /\ r.headers = h /\ r.notes = {}
        /\ r.answers = <<>> /\ r.ran = {} /\ r.status = 0
    BY <1>5 DEF Received
  <2>6. Matched(r, 0)
    <3>1. 1 .. 0 = {} /\ DOMAIN r.answers = {}
      BY <2>5
    <3>. QED
      BY <1>3, <2>5, <3>1 DEF Matched
  <2>7. m \in Nat /\ m <= MaxItems
    BY McpConstants DEF Count
  <2>8. Progress(r)
    BY <1>3, <1>5, <2>5, <2>6, <2>7 DEF Progress, AtWork
  <2>9. Settled(r, a.n, Issued)
    BY <1>2, <1>5, <2>5, <2>8 DEF Settled
  <2>. QED
    BY <1>5, <2>9
<1>10. PICK z : z = Arrived
  OBVIOUS
<1>11. Received(z, FALSE, 0, NoHeaders)
  <2>1. z = [at |-> "next", batch |-> FALSE, left |-> 0, n |-> 0, item |-> NoItem, headers |-> NoHeaders,
             notes |-> {}, answers |-> <<>>, ran |-> {}, client |-> Nothing, told |-> Nothing, status |-> 0]
    BY <1>10 DEF Arrived
  <2>2. /\ "next" \in Place /\ 0 \in Count /\ {} \in Marks /\ <<>> \in Answers /\ Nothing \in Clients
        /\ Nothing \in Belongs /\ 0 \in Status /\ NoItem \in Item /\ NoHeaders \in Headers
    BY McpConstants DEF Place, Count, Marks, Answers, Clients, Belongs, Status
  <2>3. z \in PostRec
    BY <2>1, <2>2 DEF PostRec
  <2>. QED
    BY <2>1, <2>3 DEF Received
<1>6. CASE ReceiveOther(p)
  BY <1>1, <1>4, <1>6 DEF ReceiveOther
<1>7. CASE ReceiveInvalid(p)
  BY <1>1, <1>4, <1>7 DEF ReceiveInvalid
<1>8. ASSUME NEW h \in Headers, ReceiveSingle(p, h) PROVE \E r : Becomes(p, r) /\ Settled(r, a.n, Issued)
  <2>1. PICK r : r = [z EXCEPT !.left = 1, !.headers = h]
    OBVIOUS
  <2>7. h.session \in Issued \cup {Nothing}
    BY <1>8, Zenon DEF ReceiveSingle
  <2>2. 1 \in Count /\ 1 > 0
    BY McpConstants DEF Count
  <2>3. Received(r, FALSE, 1, h)
    BY <1>11, <2>1, <2>2 DEF Received, PostRec
  <2>4. Becomes(p, r)
    BY <1>8, <1>10, <2>1, Zenon DEF ReceiveSingle
  <2>. QED
    BY <1>5, <2>2, <2>3, <2>4, <2>7, Zenon
<1>9. ASSUME NEW n \in 1 .. MaxItems, NEW s \in Session \cup {Nothing}, ReceiveBatch(p, n, s)
      PROVE  \E r : Becomes(p, r) /\ Settled(r, a.n, Issued)
  <2>1. PICK h : h = [NoHeaders EXCEPT !.session = s]
    OBVIOUS
  <2>2. h \in Headers /\ h.session = s
    BY <2>1, McpConstants DEF Headers
  <2>3. n \in Count /\ n > 0
    BY McpConstants DEF Count
  <2>7. h.session \in Issued \cup {Nothing}
    BY <1>9, <2>2, Zenon DEF ReceiveBatch
  <2>4. PICK r : r = [z EXCEPT !.batch = TRUE, !.left = n, !.headers = h]
    OBVIOUS
  <2>5. Received(r, TRUE, n, h)
    BY <1>11, <2>2, <2>3, <2>4 DEF Received, PostRec
  <2>6. Becomes(p, r)
    BY <1>9, <1>10, <2>1, <2>4, Zenon DEF ReceiveBatch
  <2>. QED
    BY <1>5, <2>2, <2>3, <2>5, <2>6, <2>7, Zenon
<1>. QED
  BY <1>1, <1>6, <1>7, <1>8, <1>9

\* A request that begins to work on an item.
Begun(p, i, r) ==
  /\ r \in PostRec /\ Progress(r) /\ Vetted(r) /\ r.at = "listen" /\ r.item = i /\ r.n = post[p].n + 1
  /\ r.headers = post[p].headers

LEMMA Begins ==
  ASSUME McpInv, NEW p \in Post, post[p].at = "next", NEW i \in Item,
         IsModern(i) => /\ post[p].batch \/ ~HeadersWrong(post[p].headers, i)
                        /\ i.method \notin RemovedInModern /\ i.capabilities
  PROVE  Begun(p, i, [Took(p, i) EXCEPT !.at = "listen"])
<1>1. PICK q : q = Took(p, i)
  OBVIOUS
<1>2. post \in [Post -> PostRec] /\ Progress(post[p])
  BY DEF McpInv
<1>3. /\ Doing(q) /\ q.item = i /\ q.n = post[p].n + 1 /\ q.headers = post[p].headers /\ q.batch = post[p].batch
      /\ q.ran \subseteq ToSet(q.answers)
  BY <1>1, <1>2, TookDoes
<1>4. PICK r : r = [q EXCEPT !.at = "listen"]
  OBVIOUS
<1>5. "listen" \in Place
  BY DEF Place
<1>6. q \in PostRec
  BY <1>3 DEF Doing
<1>7. /\ r \in PostRec /\ r.at = "listen" /\ r.item = q.item /\ r.n = q.n /\ r.headers = q.headers /\ r.batch = q.batch
      /\ r.ran = q.ran /\ r.answers = q.answers /\ r.notes = q.notes /\ r.left = q.left /\ r.status = q.status
  BY <1>4, <1>5, <1>6 DEF PostRec
<1>8. Matched(r, r.n - 1)
  BY <1>3, <1>7 DEF Doing, Matched
<1>9. Progress(r)
  BY <1>3, <1>7, <1>8 DEF Doing, Progress, AtWork, Note, IsNotification
<1>10. Vetted(r)
  BY <1>3, <1>7 DEF Vetted
<1>. QED
  BY <1>1, <1>3, <1>4, <1>7, <1>9, <1>10 DEF Begun

\* What is true of a request that ended or goes on is so from its last item on.
LEMMA SettledSince ==
  ASSUME NEW s, NEW n \in Nat, NEW m \in Nat, m <= n, NEW ss, Settled(s, n, ss)
  PROVE  Settled(s, m, ss)
<1>1. s.n \in Nat
  BY McpConstants DEF Settled, PostRec, Count
<1>. QED
  BY <1>1 DEF Settled

LEMMA AnsweredAtOnce ==
  ASSUME McpInv, NEW p \in Post, post[p].at = "next", NEW i \in Item, NEW x \in Outcome
  PROVE  Settled(Answered(Took(p, i), x), post[p].n, {post[p].headers.session})
<1>1. PICK q : q = Took(p, i)
  OBVIOUS
<1>2. post \in [Post -> PostRec] /\ Progress(post[p])
  BY DEF McpInv
<1>t. LET r == Took(p, i) IN
      /\ Doing(r) /\ r.item = i /\ r.n = post[p].n + 1 /\ r.headers = post[p].headers /\ r.batch = post[p].batch
      /\ r.ran \subseteq ToSet(r.answers)
      /\ r.notes = IF Note(i) THEN post[p].notes \cup {post[p].n + 1} ELSE post[p].notes
  BY <1>2, TookDoes, Zenon
<1>3. /\ Doing(q) /\ q.item = i /\ q.n = post[p].n + 1 /\ q.headers = post[p].headers /\ q.batch = post[p].batch
      /\ q.ran \subseteq ToSet(q.answers)
  BY <1>1, <1>t
<1>s. x = 202 => q.ran \subseteq ToSet(q.answers)
  BY <1>3
<1>4. Settled(Answered(q, x), q.n, {q.headers.session})
  BY <1>3, <1>s, AnsweredDoes, Zenon
<1>5. post[p].n \in Nat
  BY <1>2, McpConstants DEF PostRec, Count
<1>6. PICK s : s = Answered(q, x)
  OBVIOUS
<1>7. Settled(s, post[p].n, {q.headers.session})
  BY <1>3, <1>4, <1>5, <1>6, SettledSince
<1>. QED
  BY <1>1, <1>3, <1>6, <1>7

LEMMA TakeDoes ==
  ASSUME McpInv, NEW p \in Post, post[p].at = "next",
         TakeInvalid(p) \/ \E i \in Items : TakeModern(p, i) \/ TakeLegacy(p, i)
  PROVE  \E r : /\ Becomes(p, r)
                /\ \/ Settled(r, post[p].n, {post[p].headers.session})
                   \/ \E i \in Items : /\ Begun(p, i, r)
                                       /\ ~IsModern(i) /\ i.method = "initialize" => TakeLegacy(p, i)
<1>1. post \in [Post -> PostRec] /\ Progress(post[p])
  BY DEF McpInv
<1>n. post[p].n \in Nat
  BY <1>1, McpConstants DEF PostRec, Count
<1>2. ASSUME NEW i \in Item, NEW x \in Outcome, Becomes(p, Answered(Took(p, i), x))
      PROVE  \E r : Becomes(p, r) /\ Settled(r, post[p].n, {post[p].headers.session})
  BY <1>2, AnsweredAtOnce, Zenon
<1>3. CASE TakeInvalid(p)
  <2>1. PICK q : q = Took(p, NoItem)
    OBVIOUS
  <2>2. NoItem \in Item
    BY McpConstants
  <2>3. /\ Doing(q) /\ q.item = NoItem /\ q.n = post[p].n + 1 /\ q.headers = post[p].headers /\ q.batch = post[p].batch
        /\ q.ran \subseteq ToSet(q.answers)
        /\ q.notes = IF Note(NoItem) THEN post[p].notes \cup {post[p].n + 1} ELSE post[p].notes
    BY <1>1, <2>1, <2>2, TookDoes
  <2>4. q \in PostRec
    BY <2>3 DEF Doing
  <2>5. PICK j : j = [NoItem EXCEPT !.id = TRUE]
    OBVIOUS
  <2>6. j \in Item /\ ~IsNotification(j)
    BY <2>5, McpConstants DEF Item, IsNotification
  <2>7. PICK r : r = [q EXCEPT !.notes = post[p].notes, !.item = j]
    OBVIOUS
  <2>8. post[p].notes \in Marks /\ post[p].notes \subseteq 1 .. post[p].n
    BY <1>1 DEF PostRec, Progress
  <2>9. /\ r \in PostRec /\ r.notes = post[p].notes /\ r.item = j /\ r.n = q.n /\ r.headers = q.headers /\ r.batch = q.batch
        /\ r.ran = q.ran /\ r.answers = q.answers /\ r.left = q.left /\ r.status = q.status
    BY <2>4, <2>6, <2>7, <2>8 DEF PostRec
  <2>10. r.n \notin r.notes /\ r.notes \subseteq 1 .. r.n
    BY <1>n, <2>3, <2>8, <2>9
  <2>11. Matched(r, r.n - 1)
    <3>1. Matched(post[p], post[p].n) /\ q.n - 1 = post[p].n
      BY <1>1, <1>n, <1>3, <2>3 DEF Progress
    <3>2. (1 .. q.n - 1) \ q.notes = (1 .. q.n - 1) \ post[p].notes
      BY <1>n, <2>3, <3>1
    <3>3. Matched(q, q.n - 1)
      BY <2>3 DEF Doing
    <3>. QED
      BY <2>9, <3>2, <3>3 DEF Matched
  <2>12. Doing(r)
    BY <2>3, <2>6, <2>9, <2>10, <2>11 DEF Doing
  <2>13. Settled(Answered(r, 400), r.n, {r.headers.session})
    BY <2>3, <2>9, <2>12, AnsweredDoes DEF Outcome
  <2>14. Settled(Answered(r, 400), post[p].n, {post[p].headers.session})
    BY <1>n, <2>3, <2>9, <2>13, SettledSince
  <2>15. Becomes(p, Answered(r, 400))
    <3>1. r = [q EXCEPT !.notes = post[p].notes, !.item.id = TRUE]
      BY <2>3, <2>4, <2>5, <2>7 DEF PostRec
    <3>. QED
      BY <1>3, <2>1, <3>1 DEF TakeInvalid
  <2>. QED
    BY <2>14, <2>15
<1>4. ASSUME NEW i \in Items, TakeModern(p, i)
      PROVE  \E r : Becomes(p, r) /\ (Settled(r, post[p].n, {post[p].headers.session}) \/ (Begun(p, i, r) /\ IsModern(i)))
  <2>1. i \in Item /\ IsModern(i)
    BY <1>4 DEF Items, TakeModern
  <2>2. Refusal(p, i) \in {0, 400, 404}
    BY DEF Refusal
  <2>3. CASE Refusal(p, i) # 0
    <3>1. PICK x \in Outcome : x = Refusal(p, i)
      BY <2>2, <2>3 DEF Outcome
    <3>2. Becomes(p, Answered(Took(p, i), x))
      BY <1>4, <2>3, <3>1 DEF TakeModern
    <3>. QED
      BY <1>2, <2>1, <3>2
  <2>4. CASE Refusal(p, i) = 0
    <3>1. (post[p].batch \/ ~HeadersWrong(post[p].headers, i)) /\ i.method \notin RemovedInModern /\ i.capabilities
      BY <2>4 DEF Refusal
    <3>2. Begun(p, i, [Took(p, i) EXCEPT !.at = "listen"])
      BY <2>1, <3>1, Begins
    <3>3. Becomes(p, [Took(p, i) EXCEPT !.at = "listen"])
      BY <1>4, <2>4 DEF TakeModern
    <3>. QED
      BY <2>1, <3>2, <3>3
  <2>. QED
    BY <2>3, <2>4
<1>5. ASSUME NEW i \in Items, TakeLegacy(p, i)
      PROVE  \E r : Becomes(p, r) /\ (Settled(r, post[p].n, {post[p].headers.session}) \/ Begun(p, i, r))
  <2>1. i \in Item /\ ~IsModern(i)
    BY <1>5 DEF Items, TakeLegacy
  <2>2. CASE i.method = "initialized"
    <3>1. Becomes(p, Answered(Took(p, i), 202))
      BY <1>5, <2>2 DEF TakeLegacy
    <3>. QED
      BY <1>2, <2>1, <3>1 DEF Outcome
  <2>3. CASE i.method = "ping"
    <3>1. Becomes(p, Answered(Took(p, i), 200))
      BY <1>5, <2>3 DEF TakeLegacy
    <3>. QED
      BY <1>2, <2>1, <3>1 DEF Outcome
  <2>4. CASE i.method \notin {"initialized", "ping"}
    <3>1. Becomes(p, [Took(p, i) EXCEPT !.at = "listen"])
      BY <1>5, <2>4 DEF TakeLegacy
    <3>2. Begun(p, i, [Took(p, i) EXCEPT !.at = "listen"])
      BY <2>1, Begins
    <3>. QED
      BY <3>1, <3>2
  <2>. QED
    BY <2>2, <2>3, <2>4
<1>. QED
  BY <1>3, <1>4, <1>5

\* A request whose telemetry is over.
Known(p, name, r) ==
  /\ r \in PostRec /\ Progress(r) /\ Vetted(r) /\ r.at \in {"introduce", "run"} /\ r.item = post[p].item
  /\ r.n = post[p].n /\ r.headers = post[p].headers /\ r.client = name /\ r.told = post[p].headers.session
  /\ r.at = "run" => IsModern(r.item) \/ r.item.method # "initialize"

LEMMA HeardDoes ==
  ASSUME McpInv, NEW p \in Post, post[p].at = "listen", NEW name \in Clients, Heard(p, name)
  PROVE  \E r : Becomes(p, r) /\ Known(p, name, r)
<1>1. PICK a : a = post[p]
  OBVIOUS
<1>2. a \in PostRec /\ Progress(a) /\ Vetted(a) /\ a.at = "listen"
  BY <1>1 DEF McpInv
<1>3. PICK x : x = IF a.item.method = "initialize" /\ ~IsModern(a.item) THEN "introduce" ELSE "run"
  OBVIOUS
<1>4. PICK r : r = [a EXCEPT !.at = x, !.client = name, !.told = a.headers.session]
  OBVIOUS
<1>5. Becomes(p, r)
  BY <1>1, <1>3, <1>4 DEF Heard
<1>6. x \in Place /\ x \in {"introduce", "run"} /\ a.headers.session \in Belongs
  BY <1>2, <1>3 DEF Place, Belongs, PostRec, Headers
<1>7. /\ r \in PostRec /\ r.at = x /\ r.client = name /\ r.told = a.headers.session /\ r.item = a.item /\ r.n = a.n
      /\ r.headers = a.headers /\ r.batch = a.batch /\ r.ran = a.ran /\ r.answers = a.answers /\ r.notes = a.notes
      /\ r.left = a.left /\ r.status = a.status
  BY <1>2, <1>4, <1>6 DEF PostRec
<1>8. Matched(r, r.n - 1)
  BY <1>2, <1>7 DEF Progress, AtWork, Matched
<1>9. Progress(r)
  BY <1>2, <1>6, <1>7, <1>8 DEF Progress, AtWork
<1>10. Vetted(r)
  BY <1>2, <1>3, <1>6, <1>7 DEF Vetted, AtWork
<1>. QED
  BY <1>1, <1>3, <1>5, <1>6, <1>7, <1>9, <1>10 DEF Known

LEMMA WorkDone ==
  ASSUME McpInv, NEW p \in Post, post[p].at \in {"introduce", "run"},
         Introduce(p) \/ Route(p) \/ RouteUnknown(p) \/ Throw(p)
  PROVE  \E r : Becomes(p, r) /\ Settled(r, post[p].n, {post[p].headers.session})
<1>1. PICK a : a = post[p]
  OBVIOUS
<1>2. a \in PostRec /\ Progress(a) /\ Vetted(a) /\ a.at \in {"introduce", "run"} /\ AtWork(a)
  BY <1>1 DEF McpInv, AtWork
<1>3. Doing(a) /\ a.ran \subseteq ToSet(a.answers)
  BY <1>2 DEF Doing, Progress, Note, IsNotification, AtWork
<1>4. a.n \in 1 .. MaxItems /\ a.n \in Nat
  BY <1>2, McpConstants DEF PostRec, Count, Progress
<1>5. ASSUME NEW status \in Outcome, Becomes(p, Answered(a, status))
      PROVE  \E r : Becomes(p, r) /\ Settled(r, a.n, {a.headers.session})
  BY <1>3, <1>5, AnsweredDoes
<1>6. ASSUME NEW m \in Marks, m = a.ran \/ m = a.ran \cup {a.n}
      PROVE  [a EXCEPT !.ran = m] \in PostRec
  BY <1>2 DEF PostRec
<1>7. a.ran \in Marks /\ a.ran \cup {a.n} \in Marks
  BY <1>2, <1>4 DEF PostRec, Marks
<1>8. CASE Introduce(p)
  BY <1>1, <1>5, <1>8 DEF Introduce, Outcome
<1>9. CASE RouteUnknown(p)
  BY <1>1, <1>5, <1>9 DEF RouteUnknown, Outcome
<1>10. CASE Route(p)
  <2>1. PICK m : m = IF a.item.method = "call" /\ a.item.name # Nothing THEN a.ran \cup {a.n} ELSE a.ran
    OBVIOUS
  <2>2. PICK q : q = [a EXCEPT !.ran = m]
    OBVIOUS
  <2>3. m \in Marks /\ (m = a.ran \/ (m = a.ran \cup {a.n} /\ ~IsNotification(a.item)))
    BY <1>7, <2>1 DEF IsNotification, Notifications
  <2>4. /\ q \in PostRec /\ q.ran = m /\ q.item = a.item /\ q.n = a.n
        /\ q.headers = a.headers /\ q.batch = a.batch /\ q.answers = a.answers /\ q.notes = a.notes
        /\ q.left = a.left /\ q.status = a.status
    BY <1>2, <2>2, <2>3 DEF PostRec
  <2>5. Matched(q, q.n - 1)
    BY <1>3, <2>4 DEF Doing, Matched
  <2>6. Doing(q)
    BY <1>3, <2>4, <2>5 DEF Doing
  <2>7. Settled(Answered(q, 200), q.n, {q.headers.session})
    BY <1>3, <2>3, <2>4, <2>6, AnsweredDoes DEF Outcome
  <2>8. Becomes(p, Answered(q, 200))
    <3>1. q = [a EXCEPT !.ran = IF a.item.method = "call" /\ a.item.name # Nothing THEN @ \cup {a.n} ELSE @]
      BY <1>2, <2>1, <2>2 DEF PostRec
    <3>. QED
      BY <1>1, <1>10, <3>1 DEF Route
  <2>. QED
    BY <1>1, <2>4, <2>7, <2>8
<1>11. CASE Throw(p)
  <2>1. PICK worked \in BOOLEAN :
          Becomes(p, Finished([a EXCEPT !.answers = <<>>, !.ran = IF worked THEN @ \cup {a.n} ELSE @], 500))
    BY ZenonT(40), <1>1, <1>11 DEF Throw
  <2>2. PICK m : m = IF worked THEN a.ran \cup {a.n} ELSE a.ran
    OBVIOUS
  <2>3. PICK q : q = [a EXCEPT !.answers = <<>>, !.ran = m]
    OBVIOUS
  <2>4. m \in Marks /\ <<>> \in Answers
    BY <1>7, <2>2 DEF Answers
  <2>5. q \in PostRec /\ q.n = a.n /\ q.left = a.left /\ q.batch = a.batch /\ q.notes = a.notes
    BY <1>2, <2>3, <2>4 DEF PostRec
  <2>6. PICK s : s = Finished(q, 500)
    OBVIOUS
  <2>7. /\ s \in PostRec /\ s.at = "over" /\ s.status = 500 /\ s.headers.session = Nothing
        /\ s.n = a.n /\ s.left = a.left /\ s.batch = a.batch /\ s.notes = a.notes
    BY <2>5, <2>6, FinishedDoes DEF Status
  <2>8. Progress(s)
    BY <1>3, <2>7 DEF Doing, Progress, AtWork
  <2>9. Becomes(p, s)
    <3>1. q = [a EXCEPT !.answers = <<>>, !.ran = IF worked THEN @ \cup {a.n} ELSE @]
      BY <1>2, <2>2, <2>3 DEF PostRec
    <3>. QED
      BY <2>1, <2>6, <3>1
  <2>. QED
    BY <1>1, <1>4, <2>7, <2>8, <2>9 DEF Settled
<1>. QED
  BY <1>1, <1>8, <1>9, <1>10, <1>11

-----------------------------------------------------------------------------
(* The invariant of the server *)

\* What a step of the request p leaves: the names others gave, and the kept names that were right.
Keeps(p, r) ==
  /\ \A s \in Session : s[1] # p \/ s[2] <= post[p].n => gave'[s] = gave[s]
  /\ \A s \in fresh' : (s \in fresh /\ kv'[s] = kv[s]) \/ (s = <<p, r.n>> /\ kv'[s] = gave'[s])

\* What the step gives the request itself.
Linking(p, r) ==
  /\ r.headers.session \in Issued \cup {post[p].headers.session, Nothing}
  /\ r.at = "listen" /\ ~IsModern(r.item) /\ r.item.method = "initialize" => gave'[<<p, r.n>>] = r.item.client
  /\ r.at = "run" /\ ~IsModern(r.item) /\ r.client # Nothing =>
       r.told # Nothing /\ r.told = r.headers.session /\ r.client = gave[r.told]

\* The post that a named session belongs to is over.
LEMMA SessionOver ==
  ASSUME McpInv, NEW p \in Post, NEW s \in Issued \cup {post[p].headers.session}, s # Nothing
  PROVE  s \in Session /\ s[1] \in Post /\ post[s[1]].at = "over"
<1>1. s \in Session /\ post[s[1]].at = "over"
  <2>1. CASE s \in Issued
    <3>1. s \in Session /\ s[1] \in Post /\ post[s[1]].status = 200
      BY <2>1 DEF Issued, Session
    <3>2. Progress(post[s[1]])
      BY <3>1 DEF McpInv
    <3>. QED
      BY <3>1, <3>2 DEF Progress
  <2>2. CASE s = post[p].headers.session
    BY <2>2 DEF McpInv, Linked
  <2>. QED
    BY <2>1, <2>2
<1>. QED
  BY <1>1 DEF Session

LEMMA OthersLinked ==
  ASSUME McpInv, NEW p \in Post, post[p].at # "over", NEW r, r \in PostRec, Becomes(p, r), Keeps(p, r),
         NEW q \in Post, q # p
  PROVE  Linked(q)'
<1>1. post \in [Post -> PostRec] /\ Linked(q) /\ Progress(post[q])
  BY DEF McpInv
<1>2. post'[q] = post[q]
  BY <1>1, Becoming
<1>3. \A s \in Session : s[1] # p => gave'[s] = gave[s]
  BY DEF Keeps
<1>4. PICK a : a = post[q]
  OBVIOUS
<1>5. ASSUME a.headers.session # Nothing
      PROVE  /\ a.headers.session \in Session /\ post'[a.headers.session[1]].at = "over"
             /\ gave'[a.headers.session] = gave[a.headers.session]
  <2>1. PICK s : s = a.headers.session
    OBVIOUS
  <2>2. s \in Session /\ s[1] \in Post /\ post[s[1]].at = "over"
    BY <1>4, <1>5, <2>1, SessionOver
  <2>3. s[1] # p
    BY <2>2
  <2>4. post'[s[1]] = post[s[1]]
    BY <1>1, <2>2, <2>3, Becoming
  <2>. QED
    BY <1>3, <2>1, <2>2, <2>3, <2>4
<1>6. ASSUME a.at = "listen" PROVE gave'[<<q, a.n>>] = gave[<<q, a.n>>]
  <2>1. a.n \in 1 .. MaxItems
    BY <1>1, <1>4, <1>6, McpConstants DEF PostRec, Count, Progress, AtWork
  <2>2. <<q, a.n>> \in Session /\ <<q, a.n>>[1] # p
    BY <2>1 DEF Session
  <2>. QED
    BY <1>3, <2>2
<1>7. /\ post'[q].headers.session # Nothing =>
           post'[q].headers.session \in Session /\ post'[post'[q].headers.session[1]].at = "over"
  BY <1>2, <1>4, <1>5
<1>8. post'[q].at = "listen" /\ ~IsModern(post'[q].item) /\ post'[q].item.method = "initialize" =>
        gave'[<<q, post'[q].n>>] = post'[q].item.client
  BY <1>1, <1>2, <1>4, <1>6 DEF Linked
<1>9. ASSUME a.at = "run", ~IsModern(a.item), a.client # Nothing
      PROVE  a.told # Nothing /\ a.told = a.headers.session /\ a.client = gave'[a.told]
  <2>1. a.told # Nothing /\ a.told = a.headers.session /\ a.client = gave[a.told]
    BY <1>1, <1>4, <1>9 DEF Linked
  <2>. QED
    BY <1>5, <2>1
<1>10. post'[q].at = "run" /\ ~IsModern(post'[q].item) /\ post'[q].client # Nothing =>
         /\ post'[q].told # Nothing /\ post'[q].told = post'[q].headers.session
         /\ post'[q].client = gave'[post'[q].told]
  BY <1>2, <1>4, <1>9
<1>. QED
  BY <1>7, <1>8, <1>10 DEF Linked, IsModern

LEMMA ItselfLinked ==
  ASSUME McpInv, NEW p \in Post, post[p].at # "over", NEW r, r \in PostRec, Becomes(p, r), Keeps(p, r), Linking(p, r)
  PROVE  Linked(p)'
<1>1. post \in [Post -> PostRec]
  BY DEF McpInv
<1>2. post'[p] = r
  BY <1>1, Becoming
<1>3. \A s \in Session : s[1] # p => gave'[s] = gave[s]
  BY DEF Keeps
<1>5. ASSUME r.headers.session # Nothing
      PROVE  /\ r.headers.session \in Session /\ post'[r.headers.session[1]].at = "over"
             /\ gave'[r.headers.session] = gave[r.headers.session]
  <2>1. PICK s : s = r.headers.session
    OBVIOUS
  <2>2. s \in Session /\ s[1] \in Post /\ post[s[1]].at = "over"
    BY <1>5, <2>1, SessionOver DEF Linking
  <2>3. s[1] # p
    BY <2>2
  <2>4. post'[s[1]] = post[s[1]]
    BY <1>1, <2>2, <2>3, Becoming
  <2>. QED
    BY <1>3, <2>1, <2>2, <2>3, <2>4
<1>6. r.at = "run" /\ ~IsModern(r.item) /\ r.client # Nothing =>
        r.told # Nothing /\ r.told = r.headers.session /\ r.client = gave'[r.told]
  BY <1>5 DEF Linking
<1>. QED
  BY <1>2, <1>5, <1>6 DEF Linked, Linking, IsModern

\* A step that moves a request from one such state to another keeps the invariant.
LEMMA Moves ==
  ASSUME McpInv, NEW p \in Post, post[p].at # "over", NEW r, r \in PostRec, Becomes(p, r), Progress(r), Vetted(r),
         r.n >= post[p].n, Keeps(p, r), Linking(p, r), KeptOK'
  PROVE  McpInv'
<1>1. post \in [Post -> PostRec] /\ NamesKept
  BY DEF McpInv
<1>2. post' \in [Post -> PostRec] /\ post'[p] = r /\ \A q \in Post : q # p => post'[q] = post[q]
  BY <1>1, Becoming
<1>3. \A q \in Post : Linked(q)'
  BY OthersLinked, ItselfLinked
<1>4. \A q \in Post : Progress(post'[q]) /\ Vetted(post'[q])
  BY <1>2 DEF McpInv
<1>5. \A q \in Post : post[q].n \in Nat /\ post'[q].n \in Nat /\ post'[q].n >= post[q].n
  <2>1. \A q \in Post : post[q].n \in Nat /\ post'[q].n \in Nat
    BY <1>1, <1>2, McpConstants DEF PostRec, Count
  <2>. QED
    BY <1>2, <2>1
<1>6. ASSUME NEW s \in fresh' PROVE kv'[s] = gave'[s] /\ s[2] <= post'[s[1]].n
  <2>1. CASE s \in fresh /\ kv'[s] = kv[s]
    <3>1. s \in Session /\ s[1] \in Post /\ s[2] \in Nat
      BY <2>1 DEF McpInv, KeptOK, Session
    <3>2. kv[s] = gave[s] /\ s[2] <= post[s[1]].n
      BY <1>1, <2>1 DEF NamesKept
    <3>3. s[1] # p \/ s[2] <= post[p].n
      BY <3>2
    <3>4. gave'[s] = gave[s]
      BY <3>1, <3>3 DEF Keeps
    <3>. QED
      BY <1>5, <2>1, <3>1, <3>2, <3>4
  <2>2. CASE s = <<p, r.n>> /\ kv'[s] = gave'[s]
    BY <1>2, <1>5, <2>2
  <2>. QED
    BY <2>1, <2>2 DEF Keeps
<1>7. NamesKept'
  BY <1>6 DEF NamesKept
<1>. QED
  BY <1>2, <1>3, <1>4, <1>7 DEF McpInv

LEMMA KeptStill ==
  ASSUME McpInv, UNCHANGED <<kv, fresh, gave>>, NEW p \in Post, NEW r
  PROVE  KeptOK' /\ Keeps(p, r)
  BY DEF McpInv, KeptOK, Keeps

LEMMA SettledMoves ==
  ASSUME McpInv, NEW p \in Post, post[p].at # "over", NEW r, Becomes(p, r),
         Settled(r, post[p].n, Issued) \/ Settled(r, post[p].n, {post[p].headers.session}), Keeps(p, r), KeptOK'
  PROVE  McpInv'
<1>1. r \in PostRec /\ Progress(r) /\ r.at \in {"next", "over"} /\ r.n >= post[p].n
  BY DEF Settled
<1>2. Vetted(r)
  BY <1>1 DEF Vetted, AtWork
<1>3. r.headers.session \in Issued \cup {post[p].headers.session, Nothing}
  BY DEF Settled
<1>4. Linking(p, r)
  BY <1>1, <1>3 DEF Linking
<1>. QED
  BY <1>1, <1>2, <1>4, Moves

LEMMA ReceiveKeeps ==
  ASSUME McpInv, NEW p \in Post,
         \/ ReceiveOther(p) \/ ReceiveInvalid(p) \/ \E h \in Headers : ReceiveSingle(p, h)
         \/ \E n \in 1 .. MaxItems, s \in Session \cup {Nothing} : ReceiveBatch(p, n, s)
  PROVE  McpInv'
<1>1. post[p].at = "unsent" /\ UNCHANGED <<kv, fresh, gave>>
  BY Zenon DEF ReceiveOther, ReceiveInvalid, ReceiveSingle, ReceiveBatch
<1>2. PICK r : Becomes(p, r) /\ Settled(r, post[p].n, Issued)
  BY <1>1, ReceiveDoes, Zenon
<1>. QED
  BY <1>1, <1>2, KeptStill, SettledMoves

LEMMA WorkKeeps ==
  ASSUME McpInv, NEW p \in Post, Introduce(p) \/ Route(p) \/ RouteUnknown(p) \/ Throw(p)
  PROVE  McpInv'
<1>1. post[p].at \in {"introduce", "run"} /\ UNCHANGED <<kv, fresh, gave>>
  BY DEF Introduce, Route, RouteUnknown, Throw
<1>2. PICK r : Becomes(p, r) /\ Settled(r, post[p].n, {post[p].headers.session})
  BY <1>1, WorkDone, Zenon
<1>. QED
  BY <1>1, <1>2, KeptStill, SettledMoves

LEMMA TakeKeeps ==
  ASSUME McpInv, NEW p \in Post, TakeInvalid(p) \/ \E i \in Items : TakeModern(p, i) \/ TakeLegacy(p, i)
  PROVE  McpInv'
<1>1. post[p].at = "next" /\ UNCHANGED <<kv, fresh>>
  BY Zenon DEF TakeInvalid, TakeModern, TakeLegacy
<1>2. post \in [Post -> PostRec] /\ Progress(post[p]) /\ KeptOK
  BY DEF McpInv
<1>3. PICK m : m = post[p].n + 1
  OBVIOUS
<1>4. post[p].n \in Nat /\ m \in 1 .. MaxItems /\ <<p, m>> \in Session
  BY <1>1, <1>2, <1>3, McpConstants DEF PostRec, Count, Progress, Session
<1>5. gave' = gave \/ \E i \in Items : gave' = [gave EXCEPT ![<<p, m>>] = i.client]
  BY <1>3 DEF TakeInvalid, TakeModern, TakeLegacy
<1>6. /\ gave' \in [Session -> ClientName \cup {Nothing}]
      /\ \A s \in Session : s # <<p, m>> => gave'[s] = gave[s]
  BY <1>2, <1>4, <1>5 DEF KeptOK, Items, Item
<1>7. KeptOK'
  BY <1>1, <1>2, <1>6 DEF KeptOK
<1>8. ASSUME NEW r PROVE Keeps(p, r)
  <2>1. \A s \in Session : s[1] # p \/ s[2] <= post[p].n => s # <<p, m>>
    BY <1>3, <1>4
  <2>. QED
    BY <1>1, <1>6, <2>1 DEF Keeps
<1>9. PICK r : /\ Becomes(p, r)
               /\ \/ Settled(r, post[p].n, {post[p].headers.session})
                  \/ \E i \in Items : /\ Begun(p, i, r)
                                      /\ ~IsModern(i) /\ i.method = "initialize" => TakeLegacy(p, i)
  BY <1>1, TakeDoes, Zenon
<1>10. CASE Settled(r, post[p].n, {post[p].headers.session})
  BY <1>1, <1>7, <1>8, <1>9, <1>10, SettledMoves
<1>11. ASSUME NEW i \in Items, Begun(p, i, r), ~IsModern(i) /\ i.method = "initialize" => TakeLegacy(p, i)
       PROVE  McpInv'
  <2>1. /\ r \in PostRec /\ Progress(r) /\ Vetted(r) /\ r.at = "listen" /\ r.item = i /\ r.n = m
        /\ r.headers = post[p].headers
    BY <1>3, <1>11 DEF Begun
  <2>2. ASSUME ~IsModern(i), i.method = "initialize" PROVE gave'[<<p, m>>] = i.client
    <3>1. gave' = [gave EXCEPT ![<<p, m>>] = i.client]
      BY <1>3, <1>11, <2>2 DEF TakeLegacy
    <3>. QED
      BY <1>2, <1>4, <3>1 DEF KeptOK
  <2>3. Linking(p, r)
    BY <2>1, <2>2 DEF Linking
  <2>4. r.n >= post[p].n
    BY <1>3, <1>4, <2>1
  <2>. QED
    BY <1>1, <1>7, <1>8, <1>9, <2>1, <2>3, <2>4, Moves
<1>. QED
  BY <1>9, <1>10, <1>11

\* The telemetry: the request goes on under the name it was told.
LEMMA HeardKeeps ==
  ASSUME McpInv, NEW p \in Post, post[p].at = "listen", NEW name \in Clients, Heard(p, name), UNCHANGED gave, KeptOK',
         \A s \in fresh' : (s \in fresh /\ kv'[s] = kv[s]) \/ (s = <<p, post[p].n>> /\ kv'[s] = gave[s]),
         ~IsModern(post[p].item) /\ post[p].item.method # "initialize" /\ name # Nothing =>
           post[p].headers.session # Nothing /\ name = gave[post[p].headers.session]
  PROVE  McpInv'
<1>1. PICK r : Becomes(p, r) /\ Known(p, name, r)
  BY HeardDoes, Zenon
<1>2. /\ r \in PostRec /\ Progress(r) /\ Vetted(r) /\ r.at \in {"introduce", "run"} /\ r.item = post[p].item
      /\ r.n = post[p].n /\ r.headers = post[p].headers /\ r.client = name /\ r.told = post[p].headers.session
      /\ r.at = "run" => IsModern(r.item) \/ r.item.method # "initialize"
  BY <1>1 DEF Known
<1>3. Linking(p, r)
  BY <1>2 DEF Linking
<1>4. Keeps(p, r)
  BY <1>2 DEF Keeps
<1>5. r.n >= post[p].n
  BY <1>2, McpConstants DEF PostRec, Count
<1>. QED
  BY <1>1, <1>2, <1>3, <1>4, <1>5, Moves

LEMMA ListenKeeps ==
  ASSUME McpInv, NEW p \in Post, ListenStateless(p) \/ ListenInitialize(p) \/ ListenSession(p) \/ ListenFails(p)
  PROVE  McpInv'
<1>0. PICK a : a = post[p]
  OBVIOUS
<1>1. post[p].at = "listen" /\ UNCHANGED gave
  BY DEF ListenStateless, ListenInitialize, ListenSession, ListenFails
<1>2. KeptOK /\ NamesKept /\ a \in PostRec /\ Linked(p) /\ Progress(a)
  BY <1>0 DEF McpInv
<1>3. a.item.client \in Clients /\ Nothing \in Clients /\ a.n \in 1 .. MaxItems
  <2>1. a.item.client \in Clients
    BY <1>2 DEF PostRec, Item, Clients
  <2>. QED
    BY <1>0, <1>1, <1>2, <2>1, McpConstants DEF PostRec, Count, Progress, AtWork, Clients
<1>4. ASSUME UNCHANGED <<kv, fresh>> PROVE KeptOK' /\ \A s \in fresh' : s \in fresh /\ kv'[s] = kv[s]
  BY <1>1, <1>2, <1>4 DEF KeptOK
<1>5. CASE ListenStateless(p)
  <2>1. Heard(p, a.item.client) /\ UNCHANGED <<kv, fresh>>
        /\ (IsModern(a.item) \/ (a.item.method = "initialize" /\ a.item.client = Nothing))
    BY <1>0, <1>5 DEF ListenStateless
  <2>. QED
    BY <1>0, <1>1, <1>3, <1>4, <2>1, HeardKeeps
<1>6. CASE ListenFails(p)
  BY <1>0, <1>1, <1>3, <1>4, <1>6, HeardKeeps DEF ListenFails
<1>7. CASE ListenInitialize(p)
  <2>1. PICK s : s = <<p, a.n>>
    OBVIOUS
  <2>2. /\ ~IsModern(a.item) /\ a.item.method = "initialize" /\ kv' = [kv EXCEPT ![s] = a.item.client]
        /\ fresh' = fresh \cup {s} /\ Heard(p, a.item.client)
    BY <1>0, <1>7, <2>1 DEF ListenInitialize, SessionKey
  <2>3. s \in Session
    BY <1>3, <2>1 DEF Session
  <2>4. gave[s] = a.item.client
    BY <1>0, <1>1, <1>2, <2>1, <2>2 DEF Linked
  <2>5. KeptOK'
    BY <1>1, <1>2, <1>3, <2>2, <2>3 DEF KeptOK, Clients
  <2>6. \A t \in fresh' : (t \in fresh /\ kv'[t] = kv[t]) \/ (t = s /\ kv'[t] = gave[t])
    BY <1>2, <2>2, <2>3, <2>4 DEF KeptOK
  <2>. QED
    BY <1>0, <1>1, <1>3, <2>1, <2>2, <2>5, <2>6, HeardKeeps
<1>8. CASE ListenSession(p)
  <2>1. PICK s : s = a.headers.session
    OBVIOUS
  <2>2. PICK x : x = IF s # Nothing /\ s \in fresh THEN kv[s] ELSE Nothing
    OBVIOUS
  <2>3. Heard(p, x) /\ UNCHANGED <<kv, fresh>>
    BY <1>0, <1>8, <2>1, <2>2 DEF ListenSession, SessionKey
  <2>4. x \in Clients /\ (x # Nothing => s # Nothing /\ x = gave[s])
    BY <1>2, <2>2 DEF KeptOK, NamesKept, Clients
  <2>. QED
    BY <1>0, <1>1, <1>4, <2>1, <2>3, <2>4, HeardKeeps
<1>. QED
  BY <1>5, <1>6, <1>7, <1>8

LEMMA AgingKeeps ==
  ASSUME McpInv, NEW s \in Session, SessionAges(s)
  PROVE  McpInv'
<1>1. /\ post' = post /\ kv' = kv /\ gave' = gave /\ fresh' = fresh \ {s}
  BY DEF SessionAges
<1>2. KeptOK' /\ NamesKept'
  BY <1>1 DEF McpInv, KeptOK, NamesKept
<1>3. \A p \in Post : Linked(p)'
  BY <1>1 DEF McpInv, Linked, IsModern
<1>. QED
  BY <1>1, <1>2, <1>3 DEF McpInv

LEMMA McpStep ==
  ASSUME McpInv, [McpNext]_mcpVars
  PROVE  McpInv'
<1>1. ASSUME NEW p \in Post, PostStep(p) PROVE McpInv'
  <2>1. \/ ReceiveOther(p) \/ ReceiveInvalid(p) \/ \E h \in Headers : ReceiveSingle(p, h)
        \/ \E n \in 1 .. MaxItems, s \in Session \cup {Nothing} : ReceiveBatch(p, n, s)
        \/ TakeInvalid(p) \/ \E i \in Items : TakeModern(p, i) \/ TakeLegacy(p, i)
        \/ ListenStateless(p) \/ ListenInitialize(p) \/ ListenSession(p) \/ ListenFails(p)
        \/ Introduce(p) \/ Route(p) \/ RouteUnknown(p) \/ Throw(p)
    BY <1>1, Zenon DEF PostStep
  <2>. QED
    BY <2>1, ReceiveKeeps, TakeKeeps, ListenKeeps, WorkKeeps, Zenon
<1>2. CASE UNCHANGED mcpVars
  <2>1. post' = post /\ kv' = kv /\ gave' = gave /\ fresh' = fresh
    BY <1>2 DEF mcpVars
  <2>2. KeptOK' /\ NamesKept'
    BY <2>1 DEF McpInv, KeptOK, NamesKept
  <2>3. \A p \in Post : Linked(p)'
    BY <2>1 DEF McpInv, Linked, IsModern
  <2>. QED
    BY <2>1, <2>2, <2>3 DEF McpInv
<1>. QED
  BY <1>1, <1>2, AgingKeeps DEF McpNext

LEMMA McpStarts ==
  ASSUME McpInit
  PROVE  McpInv
<1>1. PICK z : z = Unsent
  OBVIOUS
<1>2. /\ z.at = "unsent" /\ z.batch = FALSE /\ z.left = 0 /\ z.n = 0 /\ z.item = NoItem /\ z.headers = NoHeaders
      /\ z.notes = {} /\ z.answers = <<>> /\ z.ran = {} /\ z.client = Nothing /\ z.told = Nothing /\ z.status = 0
      /\ z \in PostRec
  <2>1. z = [at |-> "unsent", batch |-> FALSE, left |-> 0, n |-> 0, item |-> NoItem, headers |-> NoHeaders,
             notes |-> {}, answers |-> <<>>, ran |-> {}, client |-> Nothing, told |-> Nothing, status |-> 0]
    BY <1>1 DEF Unsent, Arrived
  <2>2. /\ "unsent" \in Place /\ 0 \in Count /\ {} \in Marks /\ <<>> \in Answers /\ Nothing \in Clients
        /\ Nothing \in Belongs /\ 0 \in Status /\ NoItem \in Item /\ NoHeaders \in Headers
    BY McpConstants DEF Place, Count, Marks, Answers, Clients, Belongs, Status
  <2>3. z \in PostRec
    BY <2>1, <2>2 DEF PostRec
  <2>. QED
    BY <2>1, <2>3
<1>3. post = [p \in Post |-> z] /\ kv = [s \in Session |-> Nothing] /\ fresh = {} /\ gave = [s \in Session |-> Nothing]
  BY <1>1 DEF McpInit
<1>4. post \in [Post -> PostRec] /\ \A p \in Post : post[p] = z
  BY <1>2, <1>3
<1>5. KeptOK /\ NamesKept
  BY <1>3 DEF KeptOK, NamesKept
<1>6. Progress(z) /\ Vetted(z)
  BY <1>2, McpConstants DEF Progress, Vetted, AtWork
<1>7. ASSUME NEW p \in Post PROVE Linked(p)
  <2>1. post[p].headers.session = Nothing /\ post[p].at = "unsent"
    BY <1>2, <1>4, McpConstants
  <2>. QED
    BY <2>1 DEF Linked
<1>. QED
  BY <1>4, <1>5, <1>6, <1>7 DEF McpInv

LEMMA McpInvSafe ==
  ASSUME McpInv
  PROVE  McpSafe
<1>1. post \in [Post -> PostRec] /\ KeptOK /\ \A p \in Post : Progress(post[p]) /\ Vetted(post[p]) /\ Linked(p)
  BY DEF McpInv
<1>2. McpTypeOK
  <2>1. ASSUME NEW r \in PostRec
        PROVE  /\ r.at \in {"unsent", "next", "listen", "introduce", "run", "over"} /\ r.left \in 0 .. MaxItems
               /\ r.item \in Item /\ r.headers \in Headers /\ r.n \in 0 .. MaxItems
               /\ r.status \in {0, 200, 202, 400, 404, 405, 500}
    <3>1. r.at \in Place /\ r.left \in Count /\ r.item \in Item /\ r.headers \in Headers /\ r.n \in Count /\ r.status \in Status
      BY DEF PostRec
    <3>. QED
      BY <3>1 DEF Place, Count, Status
  <2>2. \A p \in Post : post[p].at = "over" <=> post[p].status # 0
    BY <1>1 DEF Progress
  <2>3. \A p \in Post : post[p] \in PostRec
    BY <1>1
  <2>4. ASSUME NEW p \in Post
        PROVE  /\ post[p].at \in {"unsent", "next", "listen", "introduce", "run", "over"} /\ post[p].left \in 0 .. MaxItems
               /\ post[p].item \in Item /\ post[p].headers \in Headers /\ post[p].n \in 0 .. MaxItems
               /\ post[p].status \in {0, 200, 202, 400, 404, 405, 500}
               /\ post[p].at = "over" <=> post[p].status # 0
    <3>1. PICK r : r = post[p]
      OBVIOUS
    <3>. QED
      BY <2>1, <2>2, <2>3, <3>1
  <2>. QED
    BY <1>1, <2>4 DEF McpTypeOK, KeptOK
<1>3. AnswersMatchItems
  <2>1. \A p \in Post : Progress(post[p])
    BY <1>1
  <2>. QED
    BY <2>1 DEF AnswersMatchItems, Progress
<1>4. ASSUME NEW p \in Post, post[p].at \in {"introduce", "run"}, post[p].item.version # ""
      PROVE  /\ post[p].batch \/ ~HeadersWrong(post[p].headers, post[p].item)
             /\ post[p].item.method \notin RemovedInModern /\ post[p].item.capabilities
  BY <1>1, <1>4 DEF Vetted, AtWork, IsModern
<1>5. RunsWhatHeadersSay
  BY <1>4 DEF RunsWhatHeadersSay, HeadersWrong, NameHeaderWrong
<1>6. DeclaredIsChecked
  BY <1>4 DEF DeclaredIsChecked, HeadersWrong
<1>7. CountedAsIntroduced
  BY <1>1 DEF CountedAsIntroduced, Linked, IsModern
<1>. QED
  BY <1>2, <1>3, <1>5, <1>6, <1>7 DEF McpSafe

\* The server's telemetry and dispatch, HTTP request by HTTP request (createMcpHandler, onRequest).
THEOREM McpInvariance == McpSpec => []McpInv
<1>1. McpInit => McpInv
  BY McpStarts
<1>2. McpInv /\ [McpNext]_mcpVars => McpInv'
  BY McpStep
<1>. QED
  BY <1>1, <1>2, PTL DEF McpSpec

\* What a request says that it is, it is answered, run and counted as: a batch that is answered
\* has one answer for each item in order and none for a notification, what runs is what the
\* headers named, nothing runs that did not declare its capabilities, and a session's requests are
\* counted under the name that its own initialize gave.
THEOREM RequestsAreAnsweredAsSaid == McpSpec => []McpSafe
<1>1. McpInv => McpSafe
  BY McpInvSafe
<1>. QED
  BY <1>1, McpInvariance, PTL

-----------------------------------------------------------------------------
(* The registry and what it is asked *)

NameOrNot == Name \cup {NoTool}
Aliases == [Name -> NameOrNot]
RegState == {"filling", "ready", "failed"}
RegRec == [tools : SUBSET Name, aliases : Aliases, next : Nat, state : RegState, builds : {1, 2}]

\* The names registered by the first k - 1 calls.
Registered(k) == {script[j][1] : j \in {i \in 1 .. k - 1 : script[i][2] = NoTool}}

\* An alias leads to a tool and is the name of no other.
Clear(r) ==
  /\ r.tools \subseteq DOMAIN defs
  /\ \A a \in Name : r.aliases[a] # NoTool => r.aliases[a] \in r.tools /\ (a \in r.tools => r.aliases[a] = a)

\* The aliases of a tool are those that its definition has.
Written(r) == \A n \in r.tools, a \in Name : r.aliases[a] = n <=> a \in defs[n].aliases

\* The first k - 1 calls are in the registry: each name was registered once, and each alias
\* was given to a tool that was there.
Once(k) ==
  \A i, j \in 1 .. k - 1 : script[i][2] = NoTool /\ script[j][2] = NoTool /\ script[i][1] = script[j][1] => i = j
Led(r, k) ==
  \A j \in 1 .. k - 1 : script[j][2] # NoTool => /\ r.aliases[script[j][1]] = script[j][2]
                                                 /\ script[j][2] \in Registered(j)
Done(r, k) == r.tools = Registered(k) /\ Once(k) /\ Led(r, k)

\* A registry on its way to be what the first one was.
Follows ==
  /\ registry.tools = Registered(registry.next)
  /\ \A a \in Name : registry.aliases[a] = IF first.aliases[a] \in registry.tools THEN first.aliases[a] ELSE NoTool

Whole == Len(script) + 1

DefsOK ==
  /\ DOMAIN defs \subseteq Name /\ defs \in [DOMAIN defs -> Def]
  /\ script \in Seq(Name \X NameOrNot)
  /\ \A k \in DOMAIN script : script[k][2] = NoTool => script[k][1] \in DOMAIN defs

RegistryInv ==
  /\ registry \in RegRec /\ registry.next \in 1 .. Whole /\ Clear(registry)
  /\ registry.state = "ready" =>
       /\ registry.next = Whole
       /\ \A n \in registry.tools : defs[n].tier = "pro" => \E e \in defs[n].needs : IsPro(e)
  /\ registry.builds = 1 =>
       /\ Done(registry, registry.next) /\ Written(registry)
       /\ registry.state = "ready" => first = registry
  /\ registry.builds = 2 =>
       /\ first \in RegRec /\ Clear(first) /\ Written(first) /\ Done(first, Whole)
       /\ registry.state # "failed" /\ Follows

Stage == Reading \cup {"idle", "ready", "checked", "over"}
FactsOrNot == Facts \cup {<<>>}
AskRec == [at : Stage, f : FactsOrNot, seen : SUBSET Facts, now : Nat, old : BOOLEAN, name : NameOrNot, in : Input,
           said : BOOLEAN, ran : NameOrNot, paid : BOOLEAN]

\* The shop had this plan at that time or later.
HadSince(s, t) == \E p \in past : p[1] = s /\ p[2] >= t
HadAfter(s, t) == \E p \in past : p[1] = s /\ p[2] + Ttl > t

\* The caches hold what the facts allow.
CacheInv ==
  /\ clock \in Nat /\ due \in Nat /\ past \subseteq Past /\ <<facts.state, clock>> \in past
  /\ snapshot \in Snapshot /\ planes \in Planes /\ PlanesAreCurrent
  /\ snapshot.held => \E p \in past : p[1] = snapshot.state /\ p[2] + Ttl >= snapshot.until

\* What a request has read so far was true, of the plan and the capabilities as far as the caches
\* promise it.
ReadTrue(r) ==
  /\ r.at \in Reading => facts \in r.seen
  /\ r.at = "row" => r.now <= clock
  /\ r.at = "entitled" => HadSince(r.f.state, r.now)
  /\ r.at \in {"planes", "stored", "probed", "scopes", "ready"} => HadAfter(r.f.state, r.now)
  /\ r.at \in {"probed", "scopes", "ready"} => r.old \/ \E g \in r.seen : g.capability = r.f.capability
  /\ r.at = "ready" => \E g \in r.seen : Expanded(g.granted) = r.f.granted

\* What a request was told and what ran.
Told(r) ==
  /\ r.at \notin {"checked", "over"} => ~r.said
  /\ r.at # "over" => r.ran = NoTool /\ ~r.paid
  /\ r.at = "checked" => r.name \in Name
  /\ r.at = "checked" /\ r.said => Cleared(r.name, r.f, r.in) /\ (NeedsToken(r.name, r.f, r.in) => r.in.approval)
  /\ r.ran # NoTool => r.ran \in registry.tools /\ r.ran \notin r.f.off

AskerInv ==
  /\ asker \in [Asker -> AskRec] /\ facts \in Facts /\ approval \in BOOLEAN
  /\ \A c \in Asker : /\ asker[c].at # "idle" => registry.state = "ready" /\ asker[c].f \in Facts
                      /\ ReadTrue(asker[c]) /\ Told(asker[c])
  /\ approval \/ \E d \in Asker : asker[d].paid
  /\ ValidatedIsApplied

SurfaceInv == DefsOK /\ RegistryInv /\ CacheInv /\ AskerInv

-----------------------------------------------------------------------------
(* Filling the registry *)

LEMMA SurfaceConstants ==
  NoTool \notin Name /\ \A n \in Name : n # NoTool
  BY SurfaceAssumption

LEMMA Calls ==
  ASSUME DefsOK, NEW k \in 1 .. Len(script)
  PROVE  /\ Len(script) \in Nat /\ k \in Nat /\ script[k][1] \in Name /\ script[k][2] \in NameOrNot
         /\ script[k][2] = NoTool => script[k][1] \in DOMAIN defs
<1>1. script \in Seq(Name \X NameOrNot)
  BY DEF DefsOK
<1>2. k \in DOMAIN script /\ script[k] \in Name \X NameOrNot /\ Len(script) \in Nat
  BY <1>1
<1>. QED
  BY <1>2 DEF DefsOK

\* One call more.
LEMMA RegisteredMore ==
  ASSUME DefsOK, NEW k \in 1 .. Len(script)
  PROVE  Registered(k + 1) = IF script[k][2] = NoTool THEN Registered(k) \cup {script[k][1]} ELSE Registered(k)
<1>1. Len(script) \in Nat /\ k \in Nat /\ k >= 1
  BY Calls
<1>2. 1 .. (k + 1) - 1 = (1 .. k - 1) \cup {k}
  BY <1>1
<1>. QED
  BY <1>2 DEF Registered

LEMMA NoneRegistered == Registered(1) = {}
<1>1. 1 .. 1 - 1 = {}
  OBVIOUS
<1>. QED
  BY <1>1 DEF Registered

LEMMA RegisteredWhole ==
  ASSUME DefsOK, NEW k \in 1 .. Whole
  PROVE  /\ Registered(k) \subseteq Registered(Whole)
         /\ \A i \in 1 .. k - 1 : i \in 1 .. Whole - 1
         /\ k # Whole => k \in 1 .. Len(script)
         /\ Len(script) \in Nat /\ k \in Nat /\ Whole - 1 = Len(script)
<1>1. Len(script) \in Nat
  BY DEF DefsOK
<1>2. Whole = Len(script) + 1
  BY DEF Whole
<1>3. \A i \in 1 .. k - 1 : i \in 1 .. Whole - 1
  BY <1>1, <1>2
<1>4. Registered(k) \subseteq Registered(Whole)
  BY <1>3 DEF Registered
<1>. QED
  BY <1>1, <1>2, <1>3, <1>4

\* A definition keeps its kind when aliases are written into it.
LEMMA DefWith ==
  ASSUME NEW d \in Def, NEW as \in SUBSET Name
  PROVE  LET e == [d EXCEPT !.aliases = as] IN
         /\ e \in Def /\ e.aliases = as /\ e.tier = d.tier /\ e.needs = d.needs
  BY DEF Def

LEMMA TieredDoes ==
  ASSUME NEW d \in Def, NEW n
  PROVE  LET e == Tiered(n, d) IN
         /\ e \in Def /\ e.aliases = d.aliases
         /\ e.tier = "pro" => \E x \in e.needs : IsPro(x)
<1>1. PICK e : e = Tiered(n, d)
  OBVIOUS
<1>2. d.needs \subseteq Entitlement /\ d.pro \in {"pro.seo_advanced", "pro.content"} /\ d.pro \in Entitlement
  BY DEF Def, Entitlement
<1>3. ASSUME NEW t \in Tier, NEW ns \in SUBSET Entitlement, e = [d EXCEPT !.tier = t, !.needs = ns]
      PROVE  e \in Def /\ e.aliases = d.aliases /\ e.tier = t /\ e.needs = ns
  BY <1>3 DEF Def
<1>4. CASE d.tier = "agency"
  BY <1>1, <1>4 DEF Tiered
<1>5. CASE d.tier # "agency" /\ n \in FreeTools
  <2>1. PICK ns : ns = {x \in d.needs : ~IsPro(x)}
    OBVIOUS
  <2>2. ns \in SUBSET Entitlement /\ "free" \in Tier
    BY <1>2, <2>1 DEF Tier
  <2>3. e = [d EXCEPT !.tier = "free", !.needs = ns]
    BY <1>1, <1>5, <2>1 DEF Tiered, Def
  <2>. QED
    BY <1>1, <1>3, <2>2, <2>3
<1>6. CASE d.tier # "agency" /\ n \notin FreeTools
  <2>1. PICK ns : ns = IF \E x \in d.needs : IsPro(x) THEN d.needs ELSE d.needs \cup {d.pro}
    OBVIOUS
  <2>2. ns \in SUBSET Entitlement /\ "pro" \in Tier
    BY <1>2, <2>1 DEF Tier
  <2>3. e = [d EXCEPT !.tier = "pro", !.needs = ns]
    BY <1>1, <1>6, <2>1 DEF Tiered, Def
  <2>4. \E x \in ns : IsPro(x)
    BY <1>2, <2>1 DEF IsPro
  <2>. QED
    BY <1>1, <1>3, <2>2, <2>3, <2>4
<1>. QED
  BY <1>4, <1>5, <1>6

\* What a call of register does to a registry r, for the tool n with the aliases as.
Grown(r, n, as, q) ==
  /\ q \in RegRec /\ q.tools = r.tools \cup {n} /\ q.next = r.next + 1 /\ q.state = r.state /\ q.builds = r.builds
  /\ \A a \in Name : q.aliases[a] = IF a \in as THEN n ELSE r.aliases[a]

LEMMA GrownIsClear ==
  ASSUME NEW r, NEW q, NEW n \in Name, NEW as \in SUBSET Name, Clear(r), Grown(r, n, as, q), n \in DOMAIN defs,
         n \notin r.tools, r.aliases[n] = NoTool,
         \A a \in as : a \notin r.tools /\ r.aliases[a] = NoTool
  PROVE  Clear(q)
<1>1. \A a \in Name : q.aliases[a] # NoTool => q.aliases[a] \in q.tools /\ (a \in q.tools => q.aliases[a] = a)
  BY DEF Clear, Grown
<1>2. q.tools \subseteq DOMAIN defs
  BY DEF Clear, Grown
<1>. QED
  BY <1>1, <1>2 DEF Clear

LEMMA RegisterFirst ==
  ASSUME DefsOK, NEW r \in RegRec, r.next \in 1 .. Len(script), Clear(r), Done(r, r.next), Written(r),
         NEW n \in Name, n = script[r.next][1], script[r.next][2] = NoTool,
         NEW as \in SUBSET Name, as = defs[n].aliases, NEW q, Grown(r, n, as, q),
         n \notin r.tools, r.aliases[n] = NoTool, \A a \in as : a \notin r.tools /\ r.aliases[a] = NoTool
  PROVE  Done(q, r.next + 1) /\ Written(q)
<1>1. PICK k : k = r.next
  OBVIOUS
<1>2. Len(script) \in Nat /\ k \in Nat /\ k \in 1 .. Len(script) /\ Registered(k + 1) = Registered(k) \cup {n}
  BY <1>1, Calls, RegisteredMore
<1>3. (k + 1) - 1 = k /\ \A j \in 1 .. k : j # k => j \in 1 .. k - 1
  BY <1>2
<1>4. q.tools = Registered(k + 1)
  BY <1>1, <1>2 DEF Done, Grown
<1>5. Once(k + 1)
  <2>1. ASSUME NEW i \in 1 .. k - 1, script[i][2] = NoTool PROVE script[i][1] # n
    <3>1. script[i][1] \in Registered(k)
      BY <2>1 DEF Registered
    <3>. QED
      BY <1>1, <3>1 DEF Done
  <2>2. Once(k)
    BY <1>1 DEF Done
  <2>. QED
    BY <1>1, <1>3, <2>1, <2>2 DEF Once
<1>6. Led(q, k + 1)
  <2>1. ASSUME NEW j \in 1 .. k - 1, script[j][2] # NoTool
        PROVE  q.aliases[script[j][1]] = script[j][2] /\ script[j][2] \in Registered(j)
    <3>1. r.aliases[script[j][1]] = script[j][2] /\ script[j][2] \in Registered(j)
      BY <1>1, <2>1 DEF Done, Led
    <3>2. j \in 1 .. Len(script)
      BY <1>2
    <3>3. script[j][1] \in Name
      BY <3>2, Calls
    <3>. QED
      BY <2>1, <3>1, <3>3 DEF Grown
  <2>. QED
    BY <1>1, <1>3, <2>1 DEF Led
<1>7. ASSUME NEW m \in q.tools, NEW a \in Name PROVE q.aliases[a] = m <=> a \in defs[m].aliases
  <2>1. CASE m = n
    BY <2>1, SurfaceConstants DEF Grown, Clear
  <2>2. CASE m # n
    <3>1. m \in r.tools /\ m # NoTool
      BY <1>7, <2>2, SurfaceConstants DEF Grown, RegRec
    <3>2. r.aliases[a] = m <=> a \in defs[m].aliases
      BY <3>1 DEF Written
    <3>. QED
      BY <2>2, <3>1, <3>2 DEF Grown
  <2>. QED
    BY <2>1, <2>2
<1>. QED
  BY <1>1, <1>4, <1>5, <1>6, <1>7 DEF Done, Written

\* The second registry meets no collision.
LEMMA RegisterAgain ==
  ASSUME DefsOK, RegistryInv, registry.builds = 2, registry.next \in 1 .. Len(script),
         NEW n \in Name, n = script[registry.next][1], script[registry.next][2] = NoTool
  PROVE  /\ n \notin registry.tools /\ registry.aliases[n] = NoTool
         /\ \A a \in defs[n].aliases : a \notin registry.tools /\ registry.aliases[a] = NoTool
         /\ \A a \in Name : a \in defs[n].aliases <=> first.aliases[a] = n
<1>1. PICK k : k = registry.next
  OBVIOUS
<1>2. k \in 1 .. Len(script) /\ k \in 1 .. Whole /\ k \in Nat /\ Len(script) \in Nat
  BY <1>1, Calls DEF RegistryInv
<1>3. registry \in RegRec /\ first \in RegRec /\ Clear(first) /\ Written(first) /\ Done(first, Whole) /\ Follows
  BY DEF RegistryInv
<1>4. Registered(k) \subseteq Registered(Whole) /\ n \in Registered(Whole) /\ n \notin Registered(k)
  <2>1. k \in 1 .. Whole - 1 /\ \A i \in 1 .. k - 1 : i \in 1 .. Whole - 1 /\ i # k
    BY <1>2, RegisteredWhole
  <2>2. n \in Registered(Whole)
    BY <1>1, <2>1 DEF Registered
  <2>3. \A i \in 1 .. k - 1 : script[i][2] = NoTool => script[i][1] # n
    BY <1>1, <1>3, <2>1 DEF Done, Once
  <2>4. n \notin Registered(k)
    BY <2>3 DEF Registered
  <2>. QED
    BY <1>2, <2>2, <2>4, RegisteredWhole
<1>5. registry.tools = Registered(k) /\ registry.tools \subseteq first.tools /\ n \in first.tools /\ n \notin registry.tools
  BY <1>1, <1>3, <1>4 DEF Done, Follows
<1>6. NoTool \notin registry.tools
  BY <1>3, SurfaceConstants DEF RegRec
<1>7. \A a \in Name : registry.aliases[a] = IF first.aliases[a] \in registry.tools THEN first.aliases[a] ELSE NoTool
  BY <1>3 DEF Follows
<1>8. \A a \in Name : a \in first.tools /\ first.aliases[a] # NoTool => first.aliases[a] = a
  BY <1>3 DEF Clear
<1>9. \A a \in Name : a \in defs[n].aliases <=> first.aliases[a] = n
  BY <1>3, <1>5 DEF Written
<1>10. defs[n].aliases \subseteq Name
  BY <1>3, <1>5 DEF DefsOK, Clear, Def
<1>11. registry.aliases[n] = NoTool
  BY <1>5, <1>6, <1>7, <1>8
<1>12. ASSUME NEW a \in defs[n].aliases PROVE a \notin registry.tools /\ registry.aliases[a] = NoTool
  BY <1>5, <1>7, <1>8, <1>9, <1>10, SurfaceConstants
<1>. QED
  BY <1>5, <1>9, <1>11, <1>12

LEMMA RegisterKeeps ==
  ASSUME DefsOK, RegistryInv, Register
  PROVE  DefsOK' /\ RegistryInv'
<1>1. PICK r : r = registry
  OBVIOUS
<1>2. PICK k : k = r.next
  OBVIOUS
<1>3. r \in RegRec /\ r.state = "filling" /\ k \in 1 .. Len(script) /\ Len(script) \in Nat /\ k \in Nat /\ Clear(r)
  <2>1. r \in RegRec /\ k \in 1 .. Whole /\ Clear(r)
    BY <1>1, <1>2 DEF RegistryInv
  <2>2. r.state = "filling" /\ k <= Len(script)
    BY <1>1, <1>2 DEF Register, Filling
  <2>. QED
    BY <2>1, <2>2, RegisteredWhole
<1>4. PICK n : n = script[k][1]
  OBVIOUS
<1>5. script[k][2] = NoTool /\ n \in Name /\ n \in DOMAIN defs /\ k + 1 \in 1 .. Whole /\ k + 1 \in Nat
  <2>1. script[k][2] = NoTool
    BY <1>1, <1>2 DEF Register, Op
  <2>2. k + 1 \in 1 .. Whole
    BY <1>3 DEF Whole
  <2>. QED
    BY <1>3, <1>4, <2>1, <2>2, Calls
<1>6. PICK as : as = defs[n].aliases
  OBVIOUS
<1>7. as \in SUBSET Name
  BY <1>5, <1>6 DEF DefsOK, Def
<1>8. UNCHANGED <<defs, script, first>>
  BY DEF Register, Fail
<1>9. DefsOK'
  BY <1>8 DEF DefsOK
<1>10. r.builds \in {1, 2}
  BY <1>3 DEF RegRec
<1>11. CASE Collides(n) \/ \E a \in as : Collides(a)
  <2>1. r.builds = 1
    <3>1. ASSUME r.builds = 2 PROVE FALSE
      <4>1. /\ n \notin r.tools /\ r.aliases[n] = NoTool
            /\ \A a \in as : a \notin r.tools /\ r.aliases[a] = NoTool
        BY <1>1, <1>2, <1>3, <1>4, <1>5, <1>6, <3>1, RegisterAgain
      <4>. QED
        BY <1>1, <1>11, <4>1 DEF Collides
    <3>. QED
      BY <1>10, <3>1
  <2>2. Fail
    BY <1>1, <1>2, <1>4, <1>6, <1>11 DEF Register, Op
  <2>3. PICK q : q = [r EXCEPT !.state = "failed"]
    OBVIOUS
  <2>4. /\ q \in RegRec /\ q.state = "failed" /\ q.tools = r.tools /\ q.aliases = r.aliases /\ q.next = r.next
        /\ q.builds = r.builds
    BY <1>3, <2>3 DEF RegRec, RegState
  <2>5. registry' = q
    BY <1>1, <2>2, <2>3 DEF Fail
  <2>6. Done(r, k) /\ Written(r)
    BY <1>1, <1>2, <2>1 DEF RegistryInv
  <2>7. Done(q, k)' /\ Written(q)' /\ Clear(q)' /\ q.next \in 1 .. Whole'
    BY <1>2, <1>3, <1>8, <2>4, <2>6 DEF Done, Led, Once, Registered, Written, Clear, Whole
  <2>. QED
    BY <1>2, <1>9, <2>1, <2>4, <2>5, <2>7 DEF RegistryInv
<1>12. CASE ~Collides(n) /\ \A a \in as : ~Collides(a)
  <2>1. n \notin r.tools /\ r.aliases[n] = NoTool /\ \A a \in as : a \notin r.tools /\ r.aliases[a] = NoTool
    BY <1>1, <1>12 DEF Collides
  <2>2. PICK A : A = [a \in Name |-> IF a \in as THEN n ELSE r.aliases[a]]
    OBVIOUS
  <2>3. A \in Aliases
    BY <1>3, <1>5, <2>2 DEF RegRec, Aliases, NameOrNot
  <2>4. PICK q : q = [r EXCEPT !.next = k + 1, !.tools = r.tools \cup {n}, !.aliases = A]
    OBVIOUS
  <2>5. registry' = q
    <3>1. registry' = [registry EXCEPT !.next = @ + 1, !.tools = @ \cup {n},
                                       !.aliases = [a \in Name |-> IF a \in as THEN n ELSE @[a]]]
      BY <1>1, <1>2, <1>4, <1>6, <1>12 DEF Register, Op
    <3>. QED
      BY <1>1, <1>2, <1>3, <2>2, <2>4, <3>1 DEF RegRec
  <2>6. Grown(r, n, as, q)
    <3>1. /\ q \in RegRec /\ q.tools = r.tools \cup {n} /\ q.next = k + 1 /\ q.state = r.state
          /\ q.builds = r.builds /\ q.aliases = A
      BY <1>3, <1>5, <2>3, <2>4 DEF RegRec
    <3>. QED
      BY <1>2, <2>2, <3>1 DEF Grown
  <2>7. Clear(q)
    BY <1>3, <1>5, <1>7, <2>1, <2>6, GrownIsClear
  <2>8. q \in RegRec /\ q.next = k + 1 /\ q.state = "filling" /\ q.builds = r.builds /\ q.tools = r.tools \cup {n}
    BY <1>2, <1>3, <2>6 DEF Grown
  <2>9. Clear(q)' /\ q.next \in 1 .. Whole'
    BY <1>5, <1>8, <2>7, <2>8 DEF Clear, Whole
  <2>10. CASE r.builds = 1
    <3>1. Done(r, k) /\ Written(r)
      BY <1>1, <1>2, <2>10 DEF RegistryInv
    <3>2. Done(q, k + 1) /\ Written(q)
      BY <1>2, <1>3, <1>4, <1>5, <1>6, <1>7, <2>1, <2>6, <3>1, RegisterFirst
    <3>3. Done(q, k + 1)' /\ Written(q)'
      BY <1>8, <3>2 DEF Done, Led, Once, Registered, Written
    <3>. QED
      BY <1>9, <2>5, <2>8, <2>9, <2>10, <3>3 DEF RegistryInv
  <2>11. CASE r.builds = 2
    <3>1. first \in RegRec /\ Clear(first) /\ Written(first) /\ Done(first, Whole) /\ Follows
      BY <1>1, <2>11 DEF RegistryInv
    <3>2. first' \in RegRec /\ Clear(first)' /\ Written(first)' /\ Done(first, Whole)'
      BY <1>8, <3>1 DEF Clear, Written, Done, Led, Once, Registered, Whole
    <3>3. \A a \in Name : a \in as <=> first.aliases[a] = n
      BY <1>1, <1>2, <1>3, <1>4, <1>5, <1>6, <2>11, RegisterAgain
    <3>4. q.tools = Registered(k + 1)
      BY <1>1, <1>2, <1>3, <1>4, <1>5, <2>8, <3>1, RegisteredMore DEF Follows
    <3>5. \A a \in Name : q.aliases[a] = IF first.aliases[a] \in q.tools THEN first.aliases[a] ELSE NoTool
      BY <1>1, <2>1, <2>6, <3>1, <3>3 DEF Follows, Grown
    <3>6. Follows'
      BY <1>8, <2>5, <2>8, <3>4, <3>5 DEF Follows, Registered
    <3>. QED
      BY <1>9, <2>5, <2>8, <2>9, <2>11, <3>2, <3>6 DEF RegistryInv
  <2>. QED
    BY <1>10, <2>10, <2>11
<1>. QED
  BY <1>11, <1>12

\* What a call of addAlias does: the alias a of the tool n, whose definition has it after.
Aliased(r, a, n, q) ==
  /\ q \in RegRec /\ q.tools = r.tools /\ q.next = r.next + 1 /\ q.state = r.state /\ q.builds = r.builds
  /\ \A b \in Name : q.aliases[b] = IF b = a THEN n ELSE r.aliases[b]

\* What it writes: nothing but aliases.
Writes(a, n) ==
  /\ DOMAIN defs' = DOMAIN defs /\ defs' \in [DOMAIN defs -> Def]
  /\ \A m \in DOMAIN defs :
       /\ defs'[m].tier = defs[m].tier /\ defs'[m].needs = defs[m].needs
       /\ defs'[m].aliases = IF m = n THEN defs[m].aliases \cup {a} ELSE defs[m].aliases

LEMMA AliasWrites ==
  ASSUME DefsOK, NEW n \in DOMAIN defs, NEW a \in Name, NEW as \in SUBSET {a},
         defs' = [defs EXCEPT ![n].aliases = @ \cup as], as = {} => a \in defs[n].aliases
  PROVE  Writes(a, n)
<1>1. defs \in [DOMAIN defs -> Def]
  BY DEF DefsOK
<1>2. PICK d \in Def : d = defs[n]
  BY <1>1
<1>3. PICK bs \in SUBSET Name : bs = d.aliases \cup as
  BY <1>2 DEF Def
<1>4. bs = d.aliases \cup {a}
  BY <1>2, <1>3
<1>5. PICK e : e = [d EXCEPT !.aliases = bs]
  OBVIOUS
<1>6. e \in Def /\ e.aliases = bs /\ e.tier = d.tier /\ e.needs = d.needs
  BY <1>5, DefWith
<1>7. defs' = [defs EXCEPT ![n] = e]
  BY <1>1, <1>2, <1>3, <1>5
<1>. QED
  BY <1>1, <1>2, <1>4, <1>6, <1>7 DEF Writes

LEMMA AliasedIsClear ==
  ASSUME DefsOK, NEW r \in RegRec, r.next \in 1 .. Len(script), Clear(r), Done(r, r.next), Written(r),
         NEW a \in Name, NEW n \in Name, a = script[r.next][1], n = script[r.next][2], n \in r.tools,
         r.aliases[a] = n \/ (a \notin r.tools /\ r.aliases[a] = NoTool),
         NEW q, Aliased(r, a, n, q), Writes(a, n), script' = script
  PROVE  Clear(q)' /\ Written(q)' /\ Done(q, r.next + 1)'
<1>1. PICK k : k = r.next
  OBVIOUS
<1>2. /\ Len(script) \in Nat /\ k \in Nat /\ k \in 1 .. Len(script) /\ n # NoTool
      /\ Registered(k + 1) = Registered(k)
  BY <1>1, Calls, RegisteredMore, SurfaceConstants
<1>3. (k + 1) - 1 = k /\ \A j \in 1 .. k : j # k => j \in 1 .. k - 1
  BY <1>2
<1>4. \A b \in Name : q.aliases[b] # NoTool => q.aliases[b] \in q.tools /\ (b \in q.tools => q.aliases[b] = b)
  BY <1>2 DEF Clear, Aliased
<1>5. q.tools \subseteq DOMAIN defs'
  BY DEF Clear, Aliased, Writes
<1>6. ASSUME NEW m \in q.tools, NEW b \in Name PROVE q.aliases[b] = m <=> b \in defs'[m].aliases
  <2>1. m \in r.tools /\ m \in DOMAIN defs /\ m # NoTool
    BY <1>6, SurfaceConstants DEF Aliased, Clear, RegRec
  <2>2. r.aliases[b] = m <=> b \in defs[m].aliases
    BY <2>1 DEF Written
  <2>3. defs'[m].aliases = IF m = n THEN defs[m].aliases \cup {a} ELSE defs[m].aliases
    BY <2>1 DEF Writes
  <2>4. q.aliases[b] = IF b = a THEN n ELSE r.aliases[b]
    BY DEF Aliased
  <2>. QED
    BY <2>1, <2>2, <2>3, <2>4
<1>7. q.tools = Registered(k + 1) /\ Once(k + 1)
  <2>1. r.tools = Registered(k) /\ Once(k)
    BY <1>1 DEF Done
  <2>2. script[k][2] # NoTool
    BY <1>1, <1>2
  <2>3. Once(k + 1)
    BY <1>3, <2>1, <2>2 DEF Once
  <2>. QED
    BY <1>2, <2>1, <2>3 DEF Aliased
<1>8. ASSUME NEW j \in 1 .. k, script[j][2] # NoTool
      PROVE  q.aliases[script[j][1]] = script[j][2] /\ script[j][2] \in Registered(j)
  <2>1. CASE j = k
    BY <1>1, <2>1 DEF Aliased, Done
  <2>2. CASE j # k
    <3>1. j \in 1 .. k - 1 /\ j \in 1 .. Len(script)
      BY <1>2, <1>3, <2>2
    <3>2. r.aliases[script[j][1]] = script[j][2] /\ script[j][2] \in Registered(j)
      BY <1>1, <1>8, <3>1 DEF Done, Led
    <3>3. script[j][1] \in Name
      BY <3>1, Calls
    <3>. QED
      BY <1>8, <3>2, <3>3 DEF Aliased
  <2>. QED
    BY <2>1, <2>2
<1>9. Led(q, k + 1)
  BY <1>3, <1>8 DEF Led
<1>10. Done(q, k + 1)'
  BY <1>7, <1>9 DEF Done, Once, Led, Registered
<1>. QED
  BY <1>1, <1>4, <1>5, <1>6, <1>10 DEF Clear, Written

\* In the second registry the alias is there.
LEMMA AliasAgain ==
  ASSUME DefsOK, RegistryInv, registry.builds = 2, registry.next \in 1 .. Len(script),
         NEW a \in Name, NEW n \in Name, a = script[registry.next][1], n = script[registry.next][2]
  PROVE  n \in registry.tools /\ registry.aliases[a] = n /\ first.aliases[a] = n
<1>1. PICK k : k = registry.next
  OBVIOUS
<1>2. k \in 1 .. Whole - 1
  BY <1>1, RegisteredWhole DEF RegistryInv
<1>3. Led(first, Whole) /\ Follows
  BY DEF RegistryInv, Done
<1>4. first.aliases[a] = n /\ n \in Registered(k)
  BY <1>1, <1>2, <1>3, SurfaceConstants DEF Led
<1>. QED
  BY <1>1, <1>3, <1>4 DEF Follows

LEMMA AddAliasKeeps ==
  ASSUME DefsOK, RegistryInv, AddAlias
  PROVE  DefsOK' /\ RegistryInv'
<1>1. PICK r : r = registry
  OBVIOUS
<1>2. PICK k : k = r.next
  OBVIOUS
<1>3. r \in RegRec /\ r.state = "filling" /\ k \in 1 .. Len(script) /\ Len(script) \in Nat /\ k \in Nat /\ Clear(r)
  <2>1. r \in RegRec /\ k \in 1 .. Whole /\ Clear(r)
    BY <1>1, <1>2 DEF RegistryInv
  <2>2. r.state = "filling" /\ k <= Len(script)
    BY <1>1, <1>2 DEF AddAlias, Filling
  <2>. QED
    BY <2>1, <2>2, RegisteredWhole
<1>4. PICK a : a = script[k][1]
  OBVIOUS
<1>5. PICK n : n = script[k][2]
  OBVIOUS
<1>6. n # NoTool /\ n \in Name /\ a \in Name /\ k + 1 \in 1 .. Whole /\ k + 1 \in Nat
  <2>1. n # NoTool
    BY <1>1, <1>2, <1>5 DEF AddAlias, Op
  <2>2. k + 1 \in 1 .. Whole
    BY <1>3 DEF Whole
  <2>. QED
    BY <1>3, <1>4, <1>5, <2>1, <2>2, Calls DEF NameOrNot
<1>7. script' = script /\ first' = first
  BY DEF AddAlias, Fail
<1>8. r.builds \in {1, 2}
  BY <1>3 DEF RegRec
<1>9. CASE n \notin r.tools \/ (~AliasIsThere(a, n) /\ Collides(a))
  <2>1. r.builds = 1
    <3>1. ASSUME r.builds = 2 PROVE FALSE
      <4>1. n \in r.tools /\ r.aliases[a] = n
        BY <1>1, <1>2, <1>3, <1>4, <1>5, <1>6, <3>1, AliasAgain
      <4>. QED
        BY <1>1, <1>9, <4>1 DEF AliasIsThere
    <3>. QED
      BY <1>8, <3>1
  <2>2. Fail
    BY <1>1, <1>2, <1>4, <1>5, <1>9 DEF AddAlias, Op
  <2>3. PICK q : q = [r EXCEPT !.state = "failed"]
    OBVIOUS
  <2>4. /\ q \in RegRec /\ q.state = "failed" /\ q.tools = r.tools /\ q.aliases = r.aliases /\ q.next = r.next
        /\ q.builds = r.builds
    BY <1>3, <2>3 DEF RegRec, RegState
  <2>5. registry' = q /\ defs' = defs
    BY <1>1, <2>2, <2>3 DEF Fail
  <2>6. Done(r, k) /\ Written(r)
    BY <1>1, <1>2, <2>1 DEF RegistryInv
  <2>7. Done(q, k)' /\ Written(q)' /\ Clear(q)' /\ q.next \in 1 .. Whole'
    BY <1>2, <1>3, <1>7, <2>4, <2>5, <2>6 DEF Done, Led, Once, Registered, Written, Clear, Whole
  <2>8. DefsOK'
    BY <1>7, <2>5 DEF DefsOK
  <2>. QED
    BY <1>2, <2>1, <2>4, <2>5, <2>7, <2>8 DEF RegistryInv
<1>10. CASE n \in r.tools /\ (AliasIsThere(a, n) \/ ~Collides(a))
  <2>1. r.aliases[a] = n \/ (a \notin r.tools /\ r.aliases[a] = NoTool)
    BY <1>1, <1>10 DEF AliasIsThere, Collides
  <2>2. n \in DOMAIN defs
    BY <1>3, <1>10 DEF Clear
  <2>3. PICK as : as = IF AliasIsThere(a, n) THEN {} ELSE {a}
    OBVIOUS
  <2>4. /\ registry' = [registry EXCEPT !.next = @ + 1, !.aliases[a] = n]
        /\ defs' = [defs EXCEPT ![n].aliases = @ \cup as]
    BY <1>1, <1>2, <1>4, <1>5, <1>10, <2>3 DEF AddAlias, Op
  <2>5. PICK A : A = [r.aliases EXCEPT ![a] = n]
    OBVIOUS
  <2>6. A \in Aliases /\ \A b \in Name : A[b] = IF b = a THEN n ELSE r.aliases[b]
    BY <1>3, <1>6, <2>5 DEF RegRec, Aliases, NameOrNot
  <2>7. PICK q : q = [r EXCEPT !.next = k + 1, !.aliases = A]
    OBVIOUS
  <2>8. registry' = q
    BY <1>1, <1>2, <1>3, <2>4, <2>5, <2>7 DEF RegRec
  <2>9. /\ q \in RegRec /\ q.tools = r.tools /\ q.next = k + 1 /\ q.state = r.state
        /\ q.builds = r.builds /\ q.aliases = A
    BY <1>3, <1>6, <2>6, <2>7 DEF RegRec
  <2>10. Aliased(r, a, n, q)
    BY <1>2, <2>6, <2>9 DEF Aliased
  <2>11. r.builds = 1 => Done(r, k) /\ Written(r)
    BY <1>1, <1>2 DEF RegistryInv
  <2>12. as \in SUBSET {a} /\ (as = {} => r.aliases[a] = n)
    BY <1>1, <2>3 DEF AliasIsThere
  <2>13. CASE r.builds = 1
    <3>1. as = {} => a \in defs[n].aliases
      BY <1>6, <1>10, <2>11, <2>12, <2>13 DEF Written
    <3>2. Writes(a, n)
      BY <1>6, <2>2, <2>4, <2>12, <3>1, AliasWrites
    <3>3. Clear(q)' /\ Written(q)' /\ Done(q, k + 1)'
      BY <1>2, <1>3, <1>4, <1>5, <1>6, <1>7, <1>10, <2>1, <2>10, <2>11, <2>13, <3>2, AliasedIsClear
    <3>4. DefsOK'
      BY <1>7, <3>2 DEF DefsOK, Writes
    <3>5. q.next \in 1 .. Whole'
      BY <1>6, <1>7, <2>9 DEF Whole
    <3>. QED
      BY <1>3, <2>8, <2>9, <2>13, <3>3, <3>4, <3>5 DEF RegistryInv
  <2>14. CASE r.builds = 2
    <3>1. r.aliases[a] = n /\ first.aliases[a] = n
      BY <1>1, <1>2, <1>3, <1>4, <1>5, <1>6, <2>14, AliasAgain
    <3>2. first \in RegRec /\ Clear(first) /\ Written(first) /\ Done(first, Whole) /\ Follows
      BY <1>1, <2>14 DEF RegistryInv
    <3>3. n \in first.tools
      <4>1. n \in Registered(k) /\ Registered(k) \subseteq Registered(Whole)
        BY <1>1, <1>2, <1>10, <3>2, RegisteredWhole DEF Follows, RegistryInv
      <4>. QED
        BY <3>2, <4>1 DEF Done
    <3>4. a \in defs[n].aliases
      BY <1>6, <3>1, <3>2, <3>3 DEF Written
    <3>5. Writes(a, n)
      BY <1>6, <2>2, <2>4, <2>12, <3>4, AliasWrites
    <3>6. \A m \in DOMAIN defs : defs'[m].aliases = defs[m].aliases
      BY <3>4, <3>5 DEF Writes
    <3>7. DefsOK' /\ DOMAIN defs' = DOMAIN defs
      BY <1>7, <3>5 DEF DefsOK, Writes
    <3>8. first' \in RegRec /\ Clear(first)' /\ Written(first)' /\ Done(first, Whole)'
      BY <1>7, <3>2, <3>6, <3>7 DEF Clear, Written, Done, Led, Once, Registered, Whole
    <3>9. q.tools = Registered(k + 1)
      BY <1>1, <1>2, <1>3, <1>5, <1>6, <2>9, <3>2, RegisteredMore DEF Follows
    <3>10. \A b \in Name : q.aliases[b] = r.aliases[b]
      BY <2>10, <3>1 DEF Aliased
    <3>11. \A b \in Name : q.aliases[b] = IF first.aliases[b] \in q.tools THEN first.aliases[b] ELSE NoTool
      BY <1>1, <2>9, <3>2, <3>10 DEF Follows
    <3>12. Follows'
      BY <1>7, <2>8, <2>9, <3>9, <3>11 DEF Follows, Registered
    <3>13. Clear(q)'
      BY <1>3, <2>9, <3>7, <3>10 DEF Clear
    <3>14. q.next \in 1 .. Whole'
      BY <1>6, <1>7, <2>9 DEF Whole
    <3>. QED
      BY <1>3, <2>8, <2>9, <2>14, <3>7, <3>8, <3>12, <3>13, <3>14 DEF RegistryInv
  <2>. QED
    BY <1>8, <2>13, <2>14
<1>. QED
  BY <1>9, <1>10

LEMMA TierPolicyKeeps ==
  ASSUME DefsOK, RegistryInv, ApplyTierPolicy
  PROVE  DefsOK' /\ RegistryInv'
<1>1. PICK r : r = registry
  OBVIOUS
<1>2. r \in RegRec /\ r.next \in 1 .. Whole /\ Clear(r) /\ r.state = "filling" /\ r.next > Len(script) /\ script' = script
  BY <1>1 DEF RegistryInv, ApplyTierPolicy
<1>3. r.next = Whole
  <2>1. Len(script) \in Nat
    BY DEF DefsOK
  <2>. QED
    BY <1>2, <2>1 DEF Whole
<1>4. defs \in [DOMAIN defs -> Def]
  BY DEF DefsOK
<1>5. defs' = [n \in DOMAIN defs |-> IF n \in r.tools THEN Tiered(n, defs[n]) ELSE defs[n]]
  BY <1>1 DEF ApplyTierPolicy
<1>6. ASSUME NEW m \in DOMAIN defs
      PROVE  /\ defs'[m] \in Def /\ defs'[m].aliases = defs[m].aliases
             /\ m \in r.tools /\ defs'[m].tier = "pro" => \E e \in defs'[m].needs : IsPro(e)
  <2>1. PICK d \in Def : d = defs[m]
    BY <1>4
  <2>2. PICK e : e = Tiered(m, d)
    OBVIOUS
  <2>3. e \in Def /\ e.aliases = d.aliases /\ (e.tier = "pro" => \E x \in e.needs : IsPro(x))
    BY <2>2, TieredDoes
  <2>4. defs'[m] = IF m \in r.tools THEN e ELSE d
    BY <1>5, <2>1, <2>2
  <2>. QED
    BY <2>1, <2>3, <2>4
<1>7. DOMAIN defs' = DOMAIN defs /\ defs' \in [DOMAIN defs -> Def]
  BY <1>5, <1>6
<1>8. DefsOK'
  BY <1>2, <1>7 DEF DefsOK
<1>9. PICK q : q = [r EXCEPT !.state = "ready"]
  OBVIOUS
<1>10. /\ q \in RegRec /\ q.state = "ready" /\ q.tools = r.tools /\ q.aliases = r.aliases /\ q.next = r.next
       /\ q.builds = r.builds
  BY <1>2, <1>9 DEF RegRec, RegState
<1>11. registry' = q /\ first' = IF r.builds = 1 THEN q ELSE first
  BY <1>1, <1>9 DEF ApplyTierPolicy
<1>12. Clear(q)'
  BY <1>2, <1>7, <1>10 DEF Clear
<1>13. \A n \in q.tools : defs'[n].tier = "pro" => \E e \in defs'[n].needs : IsPro(e)
  BY <1>2, <1>6, <1>10 DEF Clear
<1>14. ASSUME r.builds = 1 PROVE Done(q, q.next)' /\ Written(q)' /\ first' = q
  <2>1. Done(r, r.next) /\ Written(r)
    BY <1>1, <1>14 DEF RegistryInv
  <2>2. Written(q)'
    BY <1>2, <1>6, <1>10, <2>1 DEF Written, Clear
  <2>3. Done(q, q.next)'
    BY <1>2, <1>10, <2>1 DEF Done, Once, Led, Registered
  <2>. QED
    BY <1>11, <1>14, <2>2, <2>3
<1>15. ASSUME r.builds = 2
       PROVE  first' \in RegRec /\ Clear(first)' /\ Written(first)' /\ Done(first, Whole)' /\ Follows'
  <2>1. first \in RegRec /\ Clear(first) /\ Written(first) /\ Done(first, Whole) /\ Follows /\ first' = first
    BY <1>1, <1>11, <1>15 DEF RegistryInv
  <2>2. Written(first)'
    BY <1>6, <2>1 DEF Written, Clear
  <2>3. Done(first, Whole)'
    BY <1>2, <2>1 DEF Done, Once, Led, Registered, Whole
  <2>4. Follows'
    BY <1>1, <1>2, <1>10, <1>11, <2>1 DEF Follows, Registered
  <2>. QED
    BY <1>7, <2>1, <2>2, <2>3, <2>4 DEF Clear
<1>16. q.next \in 1 .. Whole' /\ Whole' = Whole
  BY <1>2, <1>10 DEF Whole
<1>. QED
  BY <1>3, <1>8, <1>10, <1>11, <1>12, <1>13, <1>14, <1>15, <1>16 DEF RegistryInv

LEMMA EmptyIs ==
  ASSUME NEW b \in {1, 2}
  PROVE  LET e == [Empty EXCEPT !.builds = b] IN
         /\ e \in RegRec /\ e.tools = {} /\ e.next = 1 /\ e.state = "filling" /\ e.builds = b
         /\ \A a \in Name : e.aliases[a] = NoTool
<1>1. PICK A : A = [n \in Name |-> NoTool]
  OBVIOUS
<1>2. A \in Aliases /\ \A a \in Name : A[a] = NoTool
  BY <1>1 DEF Aliases, NameOrNot
<1>3. PICK e : e = [Empty EXCEPT !.builds = b]
  OBVIOUS
<1>4. e = [tools |-> {}, aliases |-> A, next |-> 1, state |-> "filling", builds |-> b]
  BY <1>1, <1>3 DEF Empty
<1>5. e \in RegRec
  BY <1>2, <1>4 DEF RegRec, RegState
<1>. QED
  BY <1>2, <1>3, <1>4, <1>5

\* A registry that is empty has what no call has put there.
LEMMA EmptyIsDone ==
  ASSUME NEW e, e.tools = {}, \A a \in Name : e.aliases[a] = NoTool
  PROVE  Clear(e) /\ Written(e) /\ Done(e, 1)
<1>1. 1 .. 1 - 1 = {}
  OBVIOUS
<1>. QED
  BY <1>1, NoneRegistered DEF Clear, Written, Done, Once, Led

LEMMA BuildAgainKeeps ==
  ASSUME DefsOK, RegistryInv, BuildAgain
  PROVE  DefsOK' /\ RegistryInv'
<1>1. /\ registry.state = "ready" /\ registry.builds = 1 /\ UNCHANGED <<defs, script, first>>
      /\ registry' = [Empty EXCEPT !.builds = 2]
  <2>1. registry.builds \in {1, 2}
    BY DEF RegistryInv, RegRec
  <2>. QED
    BY <2>1 DEF BuildAgain
<1>2. PICK q : q = registry'
  OBVIOUS
<1>3. /\ q \in RegRec /\ q.tools = {} /\ q.next = 1 /\ q.state = "filling" /\ q.builds = 2
      /\ \A a \in Name : q.aliases[a] = NoTool
  BY <1>1, <1>2, EmptyIs
<1>4. first \in RegRec /\ Clear(first) /\ Written(first) /\ Done(first, Whole)
  BY <1>1 DEF RegistryInv
<1>5. first' \in RegRec /\ Clear(first)' /\ Written(first)' /\ Done(first, Whole)'
  BY <1>1, <1>4 DEF Clear, Written, Done, Led, Once, Registered, Whole
<1>6. Follows'
  <2>1. Registered(1)' = {}
    BY <1>1, NoneRegistered DEF Registered
  <2>. QED
    BY <1>2, <1>3, <2>1 DEF Follows
<1>7. Clear(q)' /\ q.next \in 1 .. Whole'
  <2>1. Len(script) \in Nat
    BY DEF DefsOK
  <2>. QED
    BY <1>1, <1>3, <2>1 DEF Clear, Whole
<1>8. DefsOK'
  BY <1>1 DEF DefsOK
<1>. QED
  BY <1>2, <1>3, <1>5, <1>6, <1>7, <1>8 DEF RegistryInv

LEMMA RegistryStill ==
  ASSUME DefsOK, RegistryInv, UNCHANGED <<defs, script, registry, first>>
  PROVE  DefsOK' /\ RegistryInv'
<1>1. DefsOK'
  BY DEF DefsOK
<1>2. \A r : (Clear(r) => Clear(r)') /\ (Written(r) => Written(r)')
  BY DEF Clear, Written
<1>3. \A r, k : Done(r, k) => Done(r, k)'
  BY DEF Done, Led, Once, Registered
<1>4. Follows => Follows'
  BY DEF Follows, Registered
<1>5. Whole' = Whole
  BY DEF Whole
<1>. QED
  BY <1>1, <1>2, <1>3, <1>4, <1>5 DEF RegistryInv

LEMMA RegistryStarts ==
  ASSUME SurfaceInit
  PROVE  DefsOK /\ RegistryInv
<1>1. DefsOK
  <2>1. defs \in Catalogs /\ script \in Scripts
    BY DEF SurfaceInit
  <2>2. DOMAIN defs \subseteq Name /\ defs \in [DOMAIN defs -> Def] /\ script \in Seq(Name \X NameOrNot)
    BY <2>1, SurfaceAssumption DEF NameOrNot
  <2>. QED
    BY <2>2 DEF DefsOK, SurfaceInit
<1>2. PICK q : q = registry
  OBVIOUS
<1>3. /\ q \in RegRec /\ q.tools = {} /\ q.next = 1 /\ q.state = "filling" /\ q.builds = 1
      /\ \A a \in Name : q.aliases[a] = NoTool
  <2>1. Empty = [Empty EXCEPT !.builds = 1]
    BY DEF Empty
  <2>2. q = [Empty EXCEPT !.builds = 1]
    BY <1>2, <2>1 DEF SurfaceInit
  <2>. QED
    BY <2>2, EmptyIs
<1>4. Clear(q) /\ Written(q) /\ Done(q, 1)
  BY <1>3, EmptyIsDone
<1>5. q.next \in 1 .. Whole
  <2>1. Len(script) \in Nat
    BY <1>1 DEF DefsOK
  <2>. QED
    BY <1>3, <2>1 DEF Whole
<1>. QED
  BY <1>1, <1>2, <1>3, <1>4, <1>5 DEF RegistryInv

-----------------------------------------------------------------------------
(* Asking it *)

\* What is decided is decided by the definitions and the registry.
LEMMA JudgedStill ==
  ASSUME UNCHANGED <<defs, registry>>
  PROVE  \A name, f, in : /\ Cleared(name, f, in)' <=> Cleared(name, f, in)
                          /\ NeedsToken(name, f, in)' <=> NeedsToken(name, f, in)
<1>1. \A name, f, in : Gate(name, f, in)' = Gate(name, f, in)
  BY DEF Gate, Get, EffectiveName
<1>2. ASSUME NEW name, NEW f, NEW in
      PROVE  RequestOf(name, f, in)' = RequestOf(name, f, in)
  <2>1. PICK n : n = Get(name)
    OBVIOUS
  <2>2. n = Get(name)'
    BY <2>1 DEF Get
  <2>3. PICK g : g = Gate(name, f, in)
    OBVIOUS
  <2>4. g = Gate(name, f, in)'
    BY <1>1, <2>3
  <2>5. PICK d : d = defs
    OBVIOUS
  <2>6. d = defs'
    BY <2>5
  <2>7. PICK q : q = [gate |-> g, profile |-> f.profile, rollback |-> FALSE,
                      floor |-> IF n = NoTool THEN "read" ELSE d[n].risk,
                      rules |-> IF n # NoTool /\ in.escalates THEN d[n].rules ELSE <<>>,
                      off |-> f.keys, confirm |-> in.confirm, bulk |-> 0, max |-> 0]
    OBVIOUS
  <2>8. RequestOf(name, f, in) = q
    BY <2>1, <2>3, <2>5, <2>7, Zenon DEF RequestOf
  <2>9. RequestOf(name, f, in)' = q
    BY <2>2, <2>4, <2>6, <2>7, Zenon DEF RequestOf
  <2>. QED
    BY <2>8, <2>9
<1>. QED
  BY <1>1, <1>2 DEF Cleared, NeedsToken

LEMMA ToldStill ==
  ASSUME UNCHANGED <<defs, registry>>, NEW r, Told(r)
  PROVE  Told(r)'
  BY JudgedStill DEF Told

LEMMA GetIs ==
  ASSUME RegistryInv, NEW name \in Name
  PROVE  /\ Get(name) \in NameOrNot /\ (Get(name) # NoTool => Get(name) \in registry.tools /\ Get(name) \in Name)
         /\ name \in registry.tools => Get(name) = name
<1>1. registry \in RegRec /\ Clear(registry)
  BY DEF RegistryInv
<1>2. registry.tools \subseteq Name /\ registry.aliases[name] \in NameOrNot
  BY <1>1 DEF RegRec, Aliases
<1>3. name \in registry.tools /\ registry.aliases[name] # NoTool => registry.aliases[name] = name
  BY <1>1 DEF Clear
<1>. QED
  BY <1>2, <1>3 DEF Get, NameOrNot

\* What is cleared is the name of a tool that is not disabled.
LEMMA ClearedIsOn ==
  ASSUME NEW name, NEW f, NEW in, Cleared(name, f, in)
  PROVE  Get(name) # NoTool /\ Get(name) \notin f.off
<1>1. Gate(name, f, in) = "open"
  BY DEF Cleared
<1>2. Get(name) # NoTool
  BY <1>1 DEF Gate
<1>3. Get(name) \notin f.off
  BY <1>1, <1>2 DEF Gate, EffectiveName
<1>. QED
  BY <1>2, <1>3

LEMMA CachesStill ==
  ASSUME CacheInv, UNCHANGED <<shopVars, cacheVars>>
  PROVE  CacheInv'
  BY DEF CacheInv, shopVars, cacheVars, PlanesAreCurrent

LEMMA FillLeavesAskers ==
  ASSUME AskerInv, FillNext
  PROVE  AskerInv' /\ UNCHANGED <<shopVars, cacheVars>>
<1>1. /\ UNCHANGED <<facts, approval, asker>> /\ UNCHANGED <<shopVars, cacheVars>>
      /\ registry.state # "ready" \/ \A c \in Asker : asker[c].at = "idle"
  BY DEF FillNext, Register, AddAlias, ApplyTierPolicy, BuildAgain, Fail, Filling, Served, shopVars, cacheVars
<1>2. \A c \in Asker : asker[c].at = "idle" /\ ReadTrue(asker[c]) /\ Told(asker[c])
  BY <1>1 DEF AskerInv
<1>3. \A c \in Asker : ReadTrue(asker[c])' /\ Told(asker[c])'
  BY <1>1, <1>2 DEF ReadTrue, Told, Reading
<1>4. ValidatedIsApplied'
  BY <1>1 DEF AskerInv, ValidatedIsApplied
<1>5. asker \in [Asker -> AskRec] /\ facts \in Facts /\ approval \in BOOLEAN /\ (approval \/ \E d \in Asker : asker[d].paid)
  BY DEF AskerInv
<1>. QED
  BY <1>1, <1>2, <1>3, <1>4, <1>5 DEF AskerInv

\* A turn of one request leaves what was true of the others.
LEMMA TurnKeeps ==
  ASSUME AskerInv, NEW c \in Asker, NEW r \in AskRec, Turn(c, r), Others, registry.state = "ready",
         asker[c].at # "over", r.f \in Facts, ReadTrue(r), Told(r), approval' \in BOOLEAN,
         approval' \/ ~approval \/ r.paid,
         r.at = "over" /\ r.said /\ r.ran = NoTool => \E d \in Asker \ {c} : asker[d].paid
  PROVE  AskerInv'
<1>1. asker \in [Asker -> AskRec] /\ facts \in Facts /\ ~asker[c].paid
  BY DEF AskerInv, Told
<1>2. /\ asker' \in [Asker -> AskRec] /\ asker'[c] = r /\ \A d \in Asker : d # c => asker'[d] = asker[d]
  BY <1>1 DEF Turn
<1>3. UNCHANGED <<defs, registry, facts>> /\ UNCHANGED <<clock, past>>
  BY DEF Others, shopVars
<1>4. ASSUME NEW d \in Asker
      PROVE  /\ asker'[d].at # "idle" => registry'.state = "ready" /\ asker'[d].f \in Facts
             /\ ReadTrue(asker[d])' /\ Told(asker[d])'
  <2>1. PICK x : x = asker'[d]
    OBVIOUS
  <2>2. ReadTrue(x) /\ Told(x) /\ (x.at # "idle" => x.f \in Facts)
    BY <1>2, <2>1 DEF AskerInv
  <2>3. Told(x)' /\ ReadTrue(x)'
    BY <1>3, <2>2, ToldStill DEF ReadTrue, HadSince, HadAfter
  <2>. QED
    BY <1>3, <2>1, <2>2, <2>3 DEF ReadTrue, HadSince, HadAfter, Told
<1>5. \A d \in Asker : asker[d].paid => asker'[d].paid /\ d # c
  BY <1>1, <1>2
<1>6. approval' \/ \E d \in Asker : asker'[d].paid
  BY <1>2, <1>5 DEF AskerInv
<1>7. ASSUME NEW x \in Asker, asker'[x].at = "over", asker'[x].said, asker'[x].ran = NoTool
      PROVE  \E d \in Asker \ {x} : asker'[d].paid
  <2>1. \E d \in Asker \ {x} : asker[d].paid
    BY <1>2, <1>7 DEF AskerInv, ValidatedIsApplied
  <2>. QED
    BY <1>5, <2>1
<1>8. ValidatedIsApplied'
  BY <1>7 DEF ValidatedIsApplied
<1>. QED
  BY <1>2, <1>3, <1>4, <1>6, <1>8, <1>1 DEF AskerInv

LEMMA AskKeeps ==
  ASSUME AskerInv, NEW c \in Asker, Ask(c)
  PROVE  AskerInv'
<1>1. facts \in Facts /\ approval \in BOOLEAN /\ registry.state = "ready" /\ asker[c].at = "idle" /\ Others /\ approval' = approval
  BY DEF AskerInv, Ask
<1>2. PICK r : r = [NotAsked EXCEPT !.at = "entitlements", !.f = facts, !.seen = {facts}]
  OBVIOUS
<1>3. NoInput \in Input
  BY DEF NoInput, Input
<1>4. r = [at |-> "entitlements", f |-> facts, seen |-> {facts}, now |-> 0, old |-> FALSE, name |-> NoTool,
           in |-> NoInput, said |-> FALSE, ran |-> NoTool, paid |-> FALSE]
  BY <1>2 DEF NotAsked
<1>5. r \in AskRec
  BY <1>1, <1>3, <1>4 DEF AskRec, Stage, Reading, FactsOrNot, NameOrNot
<1>6. ReadTrue(r) /\ Told(r)
  BY <1>4 DEF ReadTrue, Told
<1>7. Turn(c, r)
  BY <1>2 DEF Ask
<1>. QED
  BY <1>1, <1>4, <1>5, <1>6, <1>7, TurnKeeps

\* A request that reads one fact more.
LEMMA ReadMore ==
  ASSUME AskerInv, NEW c \in Asker, NEW r \in AskRec, Turn(c, r), Others, approval' = approval,
         asker[c].at \in Reading, registry.state = "ready", r.at \in Reading \cup {"ready"}, r.f \in Facts,
         r.said = asker[c].said, r.ran = asker[c].ran, r.paid = asker[c].paid, ReadTrue(r)
  PROVE  AskerInv'
<1>1. Told(asker[c]) /\ approval \in BOOLEAN
  BY DEF AskerInv
<1>2. asker[c].at \notin {"checked", "over"} /\ r.at \notin {"checked", "over"}
  BY DEF Reading
<1>3. Told(r)
  BY <1>1, <1>2 DEF Told
<1>. QED
  BY <1>1, <1>2, <1>3, TurnKeeps

LEMMA Places ==
  /\ "row" \in Stage /\ "entitled" \in Stage /\ "planes" \in Stage /\ "stored" \in Stage /\ "probed" \in Stage
  /\ "scopes" \in Stage /\ "ready" \in Stage
  BY DEF Stage, Reading

\* What a request that reads has.
LEMMA ReaderHas ==
  ASSUME CacheInv, AskerInv, NEW c \in Asker, asker[c].at \in Reading
  PROVE  /\ asker[c] \in AskRec /\ asker[c].f \in Facts /\ facts \in Facts /\ facts \in asker[c].seen
         /\ registry.state = "ready" /\ ReadTrue(asker[c])
<1>1. asker[c].at # "idle"
  BY DEF Reading
<1>. QED
  BY <1>1 DEF AskerInv, ReadTrue

LEMMA FindSnapshotKeeps ==
  ASSUME CacheInv, AskerInv, NEW c \in Asker, FindSnapshot(c)
  PROVE  AskerInv'
<1>1. PICK a : a = asker[c]
  OBVIOUS
<1>2. a.at = "entitlements" /\ Others /\ approval' = approval
  BY <1>1 DEF FindSnapshot
<1>3. /\ a \in AskRec /\ a.f \in Facts /\ facts \in Facts /\ facts \in a.seen /\ registry.state = "ready"
      /\ clock \in Nat /\ a.old \in BOOLEAN
  BY <1>1, <1>2, ReaderHas DEF Reading, CacheInv, AskRec
<1>4. CASE snapshot.held /\ snapshot.until > clock
  <2>1. snapshot.state \in EntitlementState /\ snapshot.until \in Nat
    BY DEF CacheInv, Snapshot
  <2>2. PICK f : f = [a.f EXCEPT !.state = snapshot.state]
    OBVIOUS
  <2>3. f \in Facts /\ f.state = snapshot.state
    BY <1>3, <2>1, <2>2 DEF Facts
  <2>4. PICK r : r = [a EXCEPT !.at = "planes", !.f = f, !.now = clock, !.old = a.old]
    OBVIOUS
  <2>5. /\ r \in AskRec /\ r.at = "planes" /\ r.f = f /\ r.now = clock /\ r.seen = a.seen
        /\ r.said = a.said /\ r.ran = a.ran /\ r.paid = a.paid
    BY <1>3, <2>3, <2>4, Places DEF AskRec, FactsOrNot
  <2>6. Turn(c, r)
    <3>1. r = [a EXCEPT !.at = "planes", !.now = clock, !.f.state = snapshot.state]
      BY <1>3, <2>2, <2>4 DEF AskRec
    <3>. QED
      BY <1>1, <1>4, <3>1 DEF FindSnapshot
  <2>7. HadAfter(f.state, clock)
    <3>1. PICK p \in past : p[1] = snapshot.state /\ p[2] + Ttl >= snapshot.until
      BY <1>4 DEF CacheInv
    <3>2. p[2] \in Nat /\ Ttl \in Nat
      BY <3>1, SurfaceAssumption DEF CacheInv, Past
    <3>3. p[2] + Ttl > clock
      BY <1>3, <1>4, <2>1, <3>1, <3>2
    <3>. QED
      BY <2>3, <3>1, <3>3 DEF HadAfter
  <2>8. ReadTrue(r)
    BY <1>3, <2>5, <2>7 DEF ReadTrue
  <2>. QED
    BY <1>1, <1>2, <1>3, <2>3, <2>5, <2>6, <2>8, ReadMore DEF Reading
<1>5. CASE ~(snapshot.held /\ snapshot.until > clock)
  <2>1. PICK r : r = [a EXCEPT !.at = "row", !.f = a.f, !.now = clock, !.old = a.old]
    OBVIOUS
  <2>2. /\ r \in AskRec /\ r.at = "row" /\ r.f = a.f /\ r.now = clock /\ r.seen = a.seen
        /\ r.said = a.said /\ r.ran = a.ran /\ r.paid = a.paid
    BY <1>3, <2>1, Places DEF AskRec, FactsOrNot
  <2>3. Turn(c, r)
    <3>1. r = [a EXCEPT !.at = "row", !.now = clock]
      BY <1>3, <2>1 DEF AskRec
    <3>. QED
      BY <1>1, <1>5, <3>1 DEF FindSnapshot
  <2>4. ReadTrue(r)
    BY <1>3, <2>2 DEF ReadTrue
  <2>. QED
    BY <1>1, <1>2, <1>3, <2>2, <2>3, <2>4, ReadMore DEF Reading
<1>. QED
  BY <1>4, <1>5

LEMMA ReadEntitlementsKeeps ==
  ASSUME CacheInv, AskerInv, NEW c \in Asker, ReadEntitlements(c)
  PROVE  AskerInv'
<1>1. PICK a : a = asker[c]
  OBVIOUS
<1>2. a.at = "row" /\ Others /\ approval' = approval
  BY <1>1 DEF ReadEntitlements
<1>3. /\ a \in AskRec /\ a.f \in Facts /\ facts \in Facts /\ facts \in a.seen /\ registry.state = "ready"
      /\ clock \in Nat /\ a.now \in Nat /\ a.old \in BOOLEAN /\ a.now <= clock
  BY <1>1, <1>2, ReaderHas DEF Reading, CacheInv, AskRec, ReadTrue
<1>4. PICK f : f = [a.f EXCEPT !.state = facts.state]
  OBVIOUS
<1>5. f \in Facts /\ f.state = facts.state
  BY <1>3, <1>4 DEF Facts
<1>6. PICK r : r = [a EXCEPT !.at = "entitled", !.f = f, !.now = a.now, !.old = a.old]
  OBVIOUS
<1>7. /\ r \in AskRec /\ r.at = "entitled" /\ r.f = f /\ r.now = a.now /\ r.seen = a.seen
      /\ r.said = a.said /\ r.ran = a.ran /\ r.paid = a.paid
  BY <1>3, <1>5, <1>6, Places DEF AskRec, FactsOrNot
<1>8. Turn(c, r)
  <2>1. r = [a EXCEPT !.at = "entitled", !.f.state = facts.state]
    BY <1>3, <1>4, <1>6 DEF AskRec
  <2>. QED
    BY <1>1, <2>1 DEF ReadEntitlements
<1>9. HadSince(f.state, a.now)
  <2>1. PICK p : p = <<facts.state, clock>>
    OBVIOUS
  <2>2. p \in past /\ p[1] = f.state /\ p[2] >= a.now
    BY <1>3, <1>5, <2>1 DEF CacheInv
  <2>. QED
    BY <2>2 DEF HadSince
<1>10. ReadTrue(r)
  BY <1>3, <1>7, <1>9 DEF ReadTrue
<1>. QED
  BY <1>1, <1>2, <1>3, <1>5, <1>7, <1>8, <1>10, ReadMore DEF Reading

LEMMA KeepSnapshotKeeps ==
  ASSUME CacheInv, AskerInv, NEW c \in Asker, KeepSnapshot(c)
  PROVE  AskerInv' /\ CacheInv'
<1>1. PICK a : a = asker[c]
  OBVIOUS
<1>2. a.at = "entitled" /\ Others /\ approval' = approval /\ planes' = planes
  BY <1>1 DEF KeepSnapshot
<1>3. /\ a \in AskRec /\ a.f \in Facts /\ facts \in Facts /\ facts \in a.seen /\ registry.state = "ready"
      /\ clock \in Nat /\ a.now \in Nat /\ a.old \in BOOLEAN /\ HadSince(a.f.state, a.now)
  BY <1>1, <1>2, ReaderHas DEF Reading, CacheInv, AskRec, ReadTrue
<1>4. PICK r : r = [a EXCEPT !.at = "planes", !.f = a.f, !.now = a.now, !.old = a.old]
  OBVIOUS
<1>5. /\ r \in AskRec /\ r.at = "planes" /\ r.f = a.f /\ r.now = a.now /\ r.seen = a.seen
      /\ r.said = a.said /\ r.ran = a.ran /\ r.paid = a.paid
  BY <1>3, <1>4, Places DEF AskRec, FactsOrNot
<1>6. Turn(c, r)
  <2>1. r = [a EXCEPT !.at = "planes"]
    BY <1>3, <1>4 DEF AskRec
  <2>. QED
    BY <1>1, <2>1 DEF KeepSnapshot
<1>7. PICK p \in past : p[1] = a.f.state /\ p[2] >= a.now
  BY <1>3 DEF HadSince
<1>8. p[2] \in Nat /\ Ttl \in Nat \ {0}
  BY <1>7, SurfaceAssumption DEF CacheInv, Past
<1>9. p[2] + Ttl > a.now /\ p[2] + Ttl >= a.now + Ttl /\ a.now + Ttl \in Nat
  BY <1>3, <1>7, <1>8
<1>10. ReadTrue(r)
  BY <1>3, <1>5, <1>7, <1>9 DEF ReadTrue, HadAfter
<1>11. AskerInv'
  BY <1>1, <1>2, <1>3, <1>5, <1>6, <1>10, ReadMore DEF Reading
<1>12. snapshot' = [held |-> TRUE, state |-> a.f.state, until |-> a.now + Ttl]
  BY <1>1 DEF KeepSnapshot, Expiry
<1>13. a.f.state \in EntitlementState
  BY <1>3 DEF Facts
<1>14. UNCHANGED <<facts, clock, past, due>>
  BY <1>2 DEF Others, shopVars
<1>15. CacheInv'
  BY <1>2, <1>7, <1>9, <1>12, <1>13, <1>14 DEF CacheInv, PlanesAreCurrent, Snapshot
<1>. QED
  BY <1>11, <1>15

LEMMA FindPlanesKeeps ==
  ASSUME CacheInv, AskerInv, NEW c \in Asker, FindPlanes(c)
  PROVE  AskerInv'
<1>1. PICK a : a = asker[c]
  OBVIOUS
<1>2. a.at = "planes" /\ Others /\ approval' = approval
  BY <1>1 DEF FindPlanes
<1>3. /\ a \in AskRec /\ a.f \in Facts /\ facts \in Facts /\ facts \in a.seen /\ registry.state = "ready"
      /\ a.now \in Nat /\ a.old \in BOOLEAN /\ HadAfter(a.f.state, a.now)
  BY <1>1, <1>2, ReaderHas DEF Reading, AskRec, ReadTrue
<1>4. CASE planes.held
  <2>1. planes.capability \in BOOLEAN
    BY DEF CacheInv, Planes
  <2>2. PICK f : f = [a.f EXCEPT !.capability = planes.capability]
    OBVIOUS
  <2>3. f \in Facts /\ f.state = a.f.state /\ f.capability = planes.capability
    BY <1>3, <2>1, <2>2 DEF Facts
  <2>4. PICK o \in BOOLEAN : o = (due > 0 \/ planes.late)
    OBVIOUS
  <2>5. PICK r : r = [a EXCEPT !.at = "scopes", !.f = f, !.now = a.now, !.old = o]
    OBVIOUS
  <2>6. /\ r \in AskRec /\ r.at = "scopes" /\ r.f = f /\ r.now = a.now /\ r.old = o /\ r.seen = a.seen
        /\ r.said = a.said /\ r.ran = a.ran /\ r.paid = a.paid
    BY <1>3, <2>3, <2>4, <2>5, Places DEF AskRec, FactsOrNot
  <2>7. Turn(c, r)
    <3>1. r = [a EXCEPT !.at = "scopes", !.f.capability = planes.capability, !.old = o]
      BY <1>3, <2>2, <2>5 DEF AskRec
    <3>2. r = [a EXCEPT !.at = "scopes", !.f.capability = planes.capability, !.old = due > 0 \/ planes.late]
      BY <2>4, <3>1
    <3>. QED
      BY <1>1, <1>4, <3>2 DEF FindPlanes
  <2>8. r.old \/ \E g \in r.seen : g.capability = r.f.capability
    BY <1>3, <1>4, <2>3, <2>4, <2>6 DEF CacheInv, PlanesAreCurrent
  <2>9. ReadTrue(r)
    BY <1>3, <2>3, <2>6, <2>8 DEF ReadTrue
  <2>. QED
    BY <1>1, <1>2, <1>3, <2>3, <2>6, <2>7, <2>9, ReadMore DEF Reading
<1>5. CASE ~planes.held
  <2>1. PICK r : r = [a EXCEPT !.at = "stored", !.f = a.f, !.now = a.now, !.old = a.old]
    OBVIOUS
  <2>2. /\ r \in AskRec /\ r.at = "stored" /\ r.f = a.f /\ r.now = a.now /\ r.seen = a.seen
        /\ r.said = a.said /\ r.ran = a.ran /\ r.paid = a.paid
    BY <1>3, <2>1, Places DEF AskRec, FactsOrNot
  <2>3. Turn(c, r)
    <3>1. r = [a EXCEPT !.at = "stored"]
      BY <1>3, <2>1 DEF AskRec
    <3>. QED
      BY <1>1, <1>5, <3>1 DEF FindPlanes
  <2>4. ReadTrue(r)
    BY <1>3, <2>2 DEF ReadTrue
  <2>. QED
    BY <1>1, <1>2, <1>3, <2>2, <2>3, <2>4, ReadMore DEF Reading
<1>. QED
  BY <1>4, <1>5

LEMMA ReadPlanesKeeps ==
  ASSUME CacheInv, AskerInv, NEW c \in Asker, ReadPlanes(c)
  PROVE  AskerInv'
<1>1. PICK a : a = asker[c]
  OBVIOUS
<1>2. a.at = "stored" /\ Others /\ approval' = approval
  BY <1>1 DEF ReadPlanes
<1>3. /\ a \in AskRec /\ a.f \in Facts /\ facts \in Facts /\ facts \in a.seen /\ registry.state = "ready"
      /\ a.now \in Nat /\ a.old \in BOOLEAN /\ HadAfter(a.f.state, a.now)
  BY <1>1, <1>2, ReaderHas DEF Reading, AskRec, ReadTrue
<1>4. PICK f : f = [a.f EXCEPT !.capability = facts.capability]
  OBVIOUS
<1>5. f \in Facts /\ f.state = a.f.state /\ f.capability = facts.capability
  BY <1>3, <1>4 DEF Facts
<1>6. PICK r : r = [a EXCEPT !.at = "probed", !.f = f, !.now = a.now, !.old = a.old]
  OBVIOUS
<1>7. /\ r \in AskRec /\ r.at = "probed" /\ r.f = f /\ r.now = a.now /\ r.seen = a.seen
      /\ r.said = a.said /\ r.ran = a.ran /\ r.paid = a.paid
  BY <1>3, <1>5, <1>6, Places DEF AskRec, FactsOrNot
<1>8. Turn(c, r)
  <2>1. r = [a EXCEPT !.at = "probed", !.f.capability = facts.capability]
    BY <1>3, <1>4, <1>6 DEF AskRec
  <2>. QED
    BY <1>1, <2>1 DEF ReadPlanes
<1>9. ReadTrue(r)
  BY <1>3, <1>5, <1>7 DEF ReadTrue
<1>. QED
  BY <1>1, <1>2, <1>3, <1>5, <1>7, <1>8, <1>9, ReadMore DEF Reading

LEMMA KeepPlanesKeeps ==
  ASSUME CacheInv, AskerInv, NEW c \in Asker, KeepPlanes(c)
  PROVE  AskerInv' /\ CacheInv'
<1>1. PICK a : a = asker[c]
  OBVIOUS
<1>2. a.at = "probed" /\ Others /\ approval' = approval /\ snapshot' = snapshot
  BY <1>1 DEF KeepPlanes
<1>3. /\ a \in AskRec /\ a.f \in Facts /\ facts \in Facts /\ facts \in a.seen /\ registry.state = "ready"
      /\ a.now \in Nat /\ a.old \in BOOLEAN /\ HadAfter(a.f.state, a.now)
      /\ a.old \/ \E g \in a.seen : g.capability = a.f.capability
  BY <1>1, <1>2, ReaderHas DEF Reading, AskRec, ReadTrue
<1>4. PICK r : r = [a EXCEPT !.at = "scopes", !.f = a.f, !.now = a.now, !.old = a.old]
  OBVIOUS
<1>5. /\ r \in AskRec /\ r.at = "scopes" /\ r.f = a.f /\ r.now = a.now /\ r.old = a.old /\ r.seen = a.seen
      /\ r.said = a.said /\ r.ran = a.ran /\ r.paid = a.paid
  BY <1>3, <1>4, Places DEF AskRec, FactsOrNot
<1>6. Turn(c, r)
  <2>1. r = [a EXCEPT !.at = "scopes"]
    BY <1>3, <1>4 DEF AskRec
  <2>. QED
    BY <1>1, <2>1 DEF KeepPlanes
<1>7. ReadTrue(r)
  BY <1>3, <1>5 DEF ReadTrue
<1>8. AskerInv'
  BY <1>1, <1>2, <1>3, <1>5, <1>6, <1>7, ReadMore DEF Reading
<1>9. PICK l \in BOOLEAN : l = (a.f.capability # facts.capability)
  OBVIOUS
<1>10. planes' = [held |-> TRUE, capability |-> a.f.capability, late |-> l]
  BY <1>1, <1>9 DEF KeepPlanes
<1>11. a.f.capability \in BOOLEAN
  BY <1>3 DEF Facts
<1>12. UNCHANGED <<facts, clock, past, due>>
  BY <1>2 DEF Others, shopVars
<1>13. planes' \in Planes /\ PlanesAreCurrent'
  BY <1>9, <1>10, <1>11, <1>12 DEF Planes, PlanesAreCurrent
<1>14. CacheInv'
  BY <1>2, <1>12, <1>13 DEF CacheInv
<1>. QED
  BY <1>8, <1>14

LEMMA ReadScopesKeeps ==
  ASSUME CacheInv, AskerInv, NEW c \in Asker, ReadScopes(c)
  PROVE  AskerInv'
<1>1. PICK a : a = asker[c]
  OBVIOUS
<1>2. a.at = "scopes" /\ Others /\ approval' = approval
  BY <1>1 DEF ReadScopes
<1>3. /\ a \in AskRec /\ a.f \in Facts /\ facts \in Facts /\ facts \in a.seen /\ registry.state = "ready"
      /\ a.now \in Nat /\ a.old \in BOOLEAN /\ HadAfter(a.f.state, a.now)
      /\ a.old \/ \E g \in a.seen : g.capability = a.f.capability
  BY <1>1, <1>2, ReaderHas DEF Reading, AskRec, ReadTrue
<1>4. PICK f : f = [a.f EXCEPT !.granted = ScopesNow]
  OBVIOUS
<1>5. ScopesNow \subseteq Scope /\ ScopesNow = Expanded(facts.granted)
  BY <1>3 DEF ScopesNow, Expanded, Facts, Scope
<1>6. f \in Facts /\ f.state = a.f.state /\ f.capability = a.f.capability /\ f.granted = Expanded(facts.granted)
  BY <1>3, <1>4, <1>5 DEF Facts
<1>7. PICK r : r = [a EXCEPT !.at = "ready", !.f = f, !.now = a.now, !.old = a.old]
  OBVIOUS
<1>8. /\ r \in AskRec /\ r.at = "ready" /\ r.f = f /\ r.now = a.now /\ r.old = a.old /\ r.seen = a.seen
      /\ r.said = a.said /\ r.ran = a.ran /\ r.paid = a.paid
  BY <1>3, <1>6, <1>7, Places DEF AskRec, FactsOrNot
<1>9. Turn(c, r)
  <2>1. r = [a EXCEPT !.at = "ready", !.f.granted = ScopesNow]
    BY <1>3, <1>4, <1>7 DEF AskRec
  <2>. QED
    BY <1>1, <2>1 DEF ReadScopes
<1>10. ReadTrue(r)
  BY <1>3, <1>6, <1>8 DEF ReadTrue, Reading
<1>. QED
  BY <1>1, <1>2, <1>3, <1>6, <1>8, <1>9, <1>10, ReadMore DEF Reading

\* A call: what was said of it before it is what comes of it, but for the token.
LEMMA RunKeeps ==
  ASSUME RegistryInv, AskerInv, NEW c \in Asker, NEW name \in Name, NEW in \in Input, Run(c, name, in),
         asker[c].at \in {"ready", "checked"},
         asker[c].said => /\ Cleared(name, asker[c].f, in)
                          /\ NeedsToken(name, asker[c].f, in) => in.approval
  PROVE  AskerInv'
<1>1. PICK a : a = asker[c]
  OBVIOUS
<1>2. /\ a \in AskRec /\ registry.state = "ready" /\ a.f \in Facts /\ Others /\ approval \in BOOLEAN /\ a.said \in BOOLEAN
  BY <1>1 DEF AskerInv, Run, AskRec
<1>3. PICK u \in BOOLEAN : u <=> Uses(c, name, in)
  OBVIOUS
<1>4. PICK m : m = IF MayRun(c, name, in) THEN Get(name) ELSE NoTool
  OBVIOUS
<1>5. m \in NameOrNot
  BY <1>4, GetIs DEF NameOrNot
<1>6. PICK r : r = [a EXCEPT !.at = "over", !.name = name, !.in = in, !.paid = Uses(c, name, in), !.ran = m]
  OBVIOUS
<1>7. r = [a EXCEPT !.at = "over", !.name = name, !.in = in, !.paid = u, !.ran = m]
  <2>1. Uses(c, name, in) = u
    BY <1>3 DEF Uses
  <2>. QED
    BY <1>6, <2>1
<1>8. Turn(c, r)
  BY <1>1, <1>4, <1>6 DEF Run
<1>9. "over" \in Stage /\ name \in NameOrNot
  BY DEF Stage, NameOrNot
<1>10. /\ r \in AskRec /\ r.at = "over" /\ r.paid = u /\ r.ran = m /\ r.f = a.f /\ r.said = a.said
  BY <1>2, <1>5, <1>7, <1>9 DEF AskRec
<1>11. ReadTrue(r)
  BY <1>10 DEF ReadTrue, Reading
<1>12. m # NoTool => m \in registry.tools /\ m \notin a.f.off
  <2>1. m # NoTool => Cleared(name, a.f, in) /\ m = Get(name)
    BY <1>1, <1>4 DEF MayRun
  <2>. QED
    BY <2>1, GetIs, ClearedIsOn
<1>13. Told(r)
  BY <1>10, <1>12 DEF Told
<1>14. approval' \in BOOLEAN /\ (approval' \/ ~approval \/ u)
  BY <1>2, <1>3 DEF Run
<1>15. ASSUME a.said, m = NoTool PROVE \E d \in Asker \ {c} : asker[d].paid
  <2>1. Cleared(name, a.f, in) /\ (NeedsToken(name, a.f, in) => in.approval)
    BY <1>1, <1>15
  <2>2. ~approval
    BY <1>1, <1>4, <1>15, <2>1, ClearedIsOn DEF MayRun
  <2>3. ~asker[c].paid
    BY DEF AskerInv, Told
  <2>. QED
    BY <2>2, <2>3 DEF AskerInv
<1>. QED
  BY <1>1, <1>2, <1>8, <1>10, <1>11, <1>13, <1>14, <1>15, TurnKeeps

LEMMA ValidateKeeps ==
  ASSUME AskerInv, NEW c \in Asker, NEW name \in Name, NEW in \in Input, Validate(c, name, in)
  PROVE  AskerInv'
<1>1. PICK a : a = asker[c]
  OBVIOUS
<1>2. /\ a \in AskRec /\ a.at = "ready" /\ registry.state = "ready" /\ a.f \in Facts /\ Others /\ approval \in BOOLEAN
      /\ approval' = approval /\ Told(a)
  BY <1>1 DEF AskerInv, Validate, AfterCheck
<1>3. PICK u \in BOOLEAN : u <=> Cleared(name, a.f, in) /\ (NeedsToken(name, a.f, in) => in.approval)
  OBVIOUS
<1>4. PICK r : r = [a EXCEPT !.at = "checked", !.name = name, !.in = in, !.said = u]
  OBVIOUS
<1>5. Turn(c, r)
  <2>1. u = (Cleared(name, a.f, in) /\ (NeedsToken(name, a.f, in) => in.approval))
    BY <1>3
  <2>. QED
    BY <1>1, <1>4, <2>1 DEF Validate
<1>6. "checked" \in Stage /\ name \in NameOrNot
  BY DEF Stage, NameOrNot
<1>7. /\ r \in AskRec /\ r.at = "checked" /\ r.paid = a.paid /\ r.ran = a.ran /\ r.f = a.f /\ r.said = u
      /\ r.name = name /\ r.in = in
  BY <1>2, <1>4, <1>6 DEF AskRec
<1>8. ReadTrue(r)
  BY <1>7 DEF ReadTrue, Reading
<1>9. Told(r)
  BY <1>2, <1>3, <1>7 DEF Told
<1>. QED
  BY <1>1, <1>2, <1>5, <1>7, <1>8, <1>9, TurnKeeps

\* Facts that change under the requests that read.
LEMMA WitnessedKeeps ==
  ASSUME AskerInv, Witnessed, Still, facts' \in Facts, past \subseteq past', clock' = clock
  PROVE  AskerInv'
<1>1. asker \in [Asker -> AskRec] /\ approval \in BOOLEAN /\ UNCHANGED <<defs, registry, approval>>
  BY DEF AskerInv, Still
<1>2. ASSUME NEW c \in Asker
      PROVE  /\ asker'[c] \in AskRec /\ asker'[c].at = asker[c].at /\ asker'[c].f = asker[c].f
             /\ asker'[c].now = asker[c].now /\ asker'[c].old = asker[c].old
             /\ asker'[c].name = asker[c].name /\ asker'[c].in = asker[c].in /\ asker'[c].said = asker[c].said
             /\ asker'[c].ran = asker[c].ran /\ asker'[c].paid = asker[c].paid
             /\ asker[c].seen \subseteq asker'[c].seen
             /\ asker[c].at \in Reading => facts' \in asker'[c].seen
  <2>1. PICK a \in AskRec : a = asker[c]
    BY <1>1
  <2>2. PICK s : s = a.seen \cup {facts'}
    OBVIOUS
  <2>3. s \in SUBSET Facts
    BY <2>1, <2>2 DEF AskRec
  <2>4. PICK r : r = [a EXCEPT !.seen = s]
    OBVIOUS
  <2>5. /\ r \in AskRec /\ r.at = a.at /\ r.f = a.f /\ r.now = a.now /\ r.old = a.old /\ r.name = a.name /\ r.in = a.in
        /\ r.said = a.said /\ r.ran = a.ran /\ r.paid = a.paid /\ r.seen = s
    BY <2>3, <2>4 DEF AskRec
  <2>6. asker'[c] = IF a.at \in Reading THEN r ELSE a
    <3>1. r = [a EXCEPT !.seen = @ \cup {facts'}]
      BY <2>1, <2>2, <2>4 DEF AskRec
    <3>. QED
      BY <2>1, <3>1 DEF Witnessed
  <2>. QED
    BY <2>1, <2>2, <2>5, <2>6
<1>3. asker' \in [Asker -> AskRec]
  BY <1>2 DEF Witnessed
<1>4. ASSUME NEW c \in Asker PROVE ReadTrue(asker[c])' /\ Told(asker[c])'
  <2>1. PICK a : a = asker[c]
    OBVIOUS
  <2>2. PICK r : r = asker'[c]
    OBVIOUS
  <2>3. /\ r.at = a.at /\ r.f = a.f /\ r.now = a.now /\ r.old = a.old /\ r.name = a.name /\ r.in = a.in /\ r.said = a.said
        /\ r.ran = a.ran /\ r.paid = a.paid /\ a.seen \subseteq r.seen
        /\ a.at \in Reading => facts' \in r.seen
    BY <1>2, <2>1, <2>2
  <2>4. ReadTrue(a) /\ Told(a)
    BY <2>1 DEF AskerInv
  <2>5. Told(r)
    BY <2>3, <2>4 DEF Told
  <2>6. ReadTrue(r)'
    BY <2>3, <2>4 DEF ReadTrue, HadSince, HadAfter
  <2>7. Told(r)'
    BY <1>1, <2>5, ToldStill
  <2>. QED
    BY <2>2, <2>6, <2>7 DEF ReadTrue, HadSince, HadAfter, Told
<1>5. \A c \in Asker : asker'[c].at # "idle" => registry'.state = "ready" /\ asker'[c].f \in Facts
  BY <1>1, <1>2 DEF AskerInv
<1>6. approval' \/ \E d \in Asker : asker'[d].paid
  BY <1>1, <1>2 DEF AskerInv
<1>7. ValidatedIsApplied'
  BY <1>2 DEF AskerInv, ValidatedIsApplied
<1>. QED
  BY <1>1, <1>3, <1>4, <1>5, <1>6, <1>7 DEF AskerInv

\* Time that passes, and caches that are emptied, leave what the requests have read.
LEMMA WaitKeeps ==
  ASSUME AskerInv, UNCHANGED <<defs, registry, approval, asker, facts>>, past \subseteq past',
         clock \in Nat, clock' \in {clock, clock + 1}
  PROVE  AskerInv'
<1>1. ASSUME NEW c \in Asker PROVE ReadTrue(asker[c])' /\ Told(asker[c])'
  <2>1. PICK r : r = asker[c]
    OBVIOUS
  <2>2. ReadTrue(r) /\ Told(r) /\ r.now \in Nat
    BY <2>1 DEF AskerInv, AskRec
  <2>3. r.now <= clock => r.now <= clock'
    BY <2>2
  <2>4. ReadTrue(r)' /\ Told(r)'
    BY <2>2, <2>3, ToldStill DEF ReadTrue, HadSince, HadAfter
  <2>. QED
    BY <2>1, <2>4 DEF ReadTrue, HadSince, HadAfter, Told
<1>2. ValidatedIsApplied'
  BY DEF AskerInv, ValidatedIsApplied
<1>. QED
  BY <1>1, <1>2 DEF AskerInv

\* What the snapshot holds was so, whatever becomes so later.
LEMMA CacheGrows ==
  ASSUME CacheInv, UNCHANGED <<due, cacheVars>>, clock' \in Nat, facts' \in Facts, facts'.capability = facts.capability,
         past' = past \cup {<<facts'.state, clock'>>}
  PROVE  CacheInv'
<1>1. <<facts'.state, clock'>> \in Past
  BY DEF Facts, Past
<1>. QED
  BY <1>1 DEF CacheInv, cacheVars, PlanesAreCurrent

LEMMA ShopKeeps ==
  ASSUME CacheInv, AskerInv, ShopNext
  PROVE  CacheInv' /\ AskerInv' /\ UNCHANGED <<defs, script, registry, first>>
<1>1. facts \in Facts /\ clock \in Nat /\ due \in Nat /\ planes \in Planes
  BY DEF AskerInv, CacheInv
<1>2. CASE FactsChange
  <2>1. facts' \in Facts /\ facts'.capability = facts.capability
    <3>1. ASSUME NEW s \in EntitlementState, facts' = [facts EXCEPT !.state = s]
          PROVE  facts' \in Facts /\ facts'.capability = facts.capability
      BY <1>1, <3>1 DEF Facts
    <3>2. ASSUME NEW g \in SUBSET Scope, facts' = [facts EXCEPT !.granted = g]
          PROVE  facts' \in Facts /\ facts'.capability = facts.capability
      BY <1>1, <3>2 DEF Facts
    <3>3. ASSUME NEW n \in Name, facts' = [facts EXCEPT !.off = IF n \in @ THEN @ \ {n} ELSE @ \cup {n}]
          PROVE  facts' \in Facts /\ facts'.capability = facts.capability
      BY <1>1, <3>3 DEF Facts
    <3>4. ASSUME NEW k \in SUBSET PolicyKey, facts' = [facts EXCEPT !.keys = k]
          PROVE  facts' \in Facts /\ facts'.capability = facts.capability
      BY <1>1, <3>4 DEF Facts
    <3>. QED
      BY <1>2, <3>1, <3>2, <3>3, <3>4 DEF FactsChange
  <2>2. past' = past \cup {<<facts'.state, clock'>>} /\ UNCHANGED <<clock, due, cacheVars>> /\ Witnessed /\ Still
    BY <1>2 DEF FactsChange
  <2>. QED
    BY <1>1, <2>1, <2>2, CacheGrows, WitnessedKeeps DEF Still
<1>3. CASE Tick
  <2>1. /\ clock' = clock + 1 /\ past' = past \cup {<<facts'.state, clock'>>} /\ UNCHANGED <<facts, due, cacheVars, asker>>
        /\ Still
    BY <1>3 DEF Tick
  <2>2. clock' \in Nat /\ facts' \in Facts /\ facts'.capability = facts.capability
    BY <1>1, <2>1
  <2>. QED
    BY <1>1, <2>1, <2>2, CacheGrows, WaitKeeps DEF Still
<1>4. CASE DropSnapshot
  <2>1. snapshot' = NoSnapshot /\ UNCHANGED <<facts, clock, past, due, planes, asker>> /\ Still
    BY <1>4 DEF DropSnapshot, shopVars
  <2>2. NoSnapshot \in Snapshot /\ ~NoSnapshot.held
    BY DEF NoSnapshot, Snapshot, EntitlementState
  <2>3. CacheInv'
    BY <2>1, <2>2 DEF CacheInv, PlanesAreCurrent
  <2>. QED
    BY <1>1, <2>1, <2>3, WaitKeeps DEF Still
<1>5. CASE StoreCapability
  <2>1. /\ facts' = [facts EXCEPT !.capability = ~@] /\ due' = due + 1 /\ UNCHANGED <<clock, past, cacheVars>>
        /\ Witnessed /\ Still
    BY <1>5 DEF StoreCapability
  <2>2. due' \in Nat /\ due' > 0
    BY <1>1, <2>1
  <2>3. facts' \in Facts /\ facts'.state = facts.state
    BY <1>1, <2>1 DEF Facts
  <2>4. CacheInv'
    BY <2>1, <2>2, <2>3 DEF CacheInv, PlanesAreCurrent, cacheVars
  <2>. QED
    BY <2>1, <2>3, <2>4, WitnessedKeeps DEF Still
<1>6. CASE Invalidate
  <2>1. planes' = NoPlanes /\ due' \in Nat /\ UNCHANGED <<facts, clock, past, snapshot, asker>> /\ Still
    BY <1>6 DEF Invalidate
  <2>2. NoPlanes \in Planes /\ ~NoPlanes.held
    BY DEF NoPlanes, Planes
  <2>3. CacheInv'
    BY <2>1, <2>2 DEF CacheInv, PlanesAreCurrent
  <2>. QED
    BY <1>1, <2>1, <2>3, WaitKeeps DEF Still
<1>7. CASE WriterFails
  <2>1. /\ due > 0 /\ due' = due - 1 /\ planes' = [planes EXCEPT !.late = planes.held]
        /\ UNCHANGED <<facts, clock, past, snapshot, asker>> /\ Still
    BY <1>7 DEF WriterFails
  <2>2. due' \in Nat
    BY <1>1, <2>1
  <2>3. planes' \in Planes /\ planes'.held = planes.held /\ (planes'.held => planes'.late)
    BY <1>1, <2>1 DEF Planes
  <2>4. CacheInv'
    BY <2>1, <2>2, <2>3 DEF CacheInv, PlanesAreCurrent
  <2>. QED
    BY <1>1, <2>1, <2>4, WaitKeeps DEF Still
<1>. QED
  BY <1>2, <1>3, <1>4, <1>5, <1>6, <1>7 DEF ShopNext

LEMMA AskNextKeeps ==
  ASSUME RegistryInv, CacheInv, AskerInv, NEW c \in Asker, AskNext(c)
  PROVE  AskerInv' /\ CacheInv' /\ UNCHANGED <<defs, script, registry, first>>
<1>0. asker[c] \in AskRec /\ Told(asker[c])
  BY DEF AskerInv
<1>1. CASE Ask(c)
  <2>1. Others /\ UNCHANGED cacheVars
    BY <1>1 DEF Ask
  <2>. QED
    BY <1>1, <2>1, AskKeeps, CachesStill DEF Others
<1>2. CASE FindSnapshot(c) \/ ReadEntitlements(c) \/ FindPlanes(c) \/ ReadPlanes(c) \/ ReadScopes(c)
  <2>1. Others /\ UNCHANGED cacheVars
    BY <1>2 DEF FindSnapshot, ReadEntitlements, FindPlanes, ReadPlanes, ReadScopes
  <2>. QED
    BY <1>2, <2>1, FindSnapshotKeeps, ReadEntitlementsKeeps, FindPlanesKeeps, ReadPlanesKeeps, ReadScopesKeeps,
       CachesStill DEF Others
<1>3. CASE KeepSnapshot(c) \/ KeepPlanes(c)
  <2>1. Others
    BY <1>3 DEF KeepSnapshot, KeepPlanes
  <2>. QED
    BY <1>3, <2>1, KeepSnapshotKeeps, KeepPlanesKeeps DEF Others
<1>4. ASSUME Others, UNCHANGED cacheVars, AskerInv'
      PROVE  AskerInv' /\ CacheInv' /\ UNCHANGED <<defs, script, registry, first>>
  BY <1>4, CachesStill DEF Others
<1>5. CASE Apply(c)
  <2>1. asker[c].at = "checked" /\ Run(c, asker[c].name, asker[c].in)
    BY <1>5 DEF Apply
  <2>2. asker[c].name \in Name /\ asker[c].in \in Input
    BY <1>0, <2>1 DEF Told, AskRec
  <2>3. asker[c].said => /\ Cleared(asker[c].name, asker[c].f, asker[c].in)
                         /\ NeedsToken(asker[c].name, asker[c].f, asker[c].in) => asker[c].in.approval
    BY <1>0, <2>1 DEF Told
  <2>4. PICK nm \in Name : nm = asker[c].name
    BY <2>2
  <2>5. PICK x \in Input : x = asker[c].in
    BY <2>2
  <2>6. AskerInv'
    BY <2>1, <2>3, <2>4, <2>5, RunKeeps
  <2>. QED
    BY <1>4, <2>1, <2>6 DEF Run
<1>6. ASSUME NEW name \in Name, NEW in \in Input, Execute(c, name, in) \/ Plan(c, name, in)
      PROVE  AskerInv' /\ CacheInv' /\ UNCHANGED <<defs, script, registry, first>>
  <2>1. asker[c].at = "ready" /\ ~asker[c].said
    BY <1>0, <1>6 DEF Execute, Plan, Told
  <2>2. CASE Execute(c, name, in)
    <3>1. Run(c, name, in)
      BY <2>2 DEF Execute
    <3>2. AskerInv'
      BY <2>1, <3>1, RunKeeps
    <3>. QED
      BY <1>4, <3>1, <3>2 DEF Run
  <2>3. CASE Plan(c, name, in)
    <3>1. Run(c, Get(name), in) /\ Get(name) # NoTool
      BY <2>3 DEF Plan
    <3>2. PICK nm \in Name : nm = Get(name)
      BY <3>1, GetIs
    <3>3. Run(c, nm, in)
      BY <3>1, <3>2
    <3>4. AskerInv'
      BY <2>1, <3>3, RunKeeps
    <3>. QED
      BY <1>4, <3>3, <3>4 DEF Run
  <2>. QED
    BY <1>6, <2>2, <2>3
<1>7. ASSUME NEW name \in Name, NEW in \in Input, Validate(c, name, in)
      PROVE  AskerInv' /\ CacheInv' /\ UNCHANGED <<defs, script, registry, first>>
  BY <1>4, <1>7, ValidateKeeps DEF Validate
<1>. QED
  BY <1>1, <1>2, <1>3, <1>5, <1>6, <1>7 DEF AskNext

LEMMA SurfaceStep ==
  ASSUME SurfaceInv, [SurfaceNext]_surfaceVars
  PROVE  SurfaceInv'
<1>0. DefsOK /\ RegistryInv /\ CacheInv /\ AskerInv
  BY DEF SurfaceInv
<1>1. CASE FillNext
  <2>1. DefsOK' /\ RegistryInv'
    BY <1>0, <1>1, RegisterKeeps, AddAliasKeeps, TierPolicyKeeps, BuildAgainKeeps DEF FillNext
  <2>. QED
    BY <1>0, <1>1, <2>1, FillLeavesAskers, CachesStill DEF SurfaceInv
<1>2. ASSUME NEW c \in Asker, AskNext(c) PROVE SurfaceInv'
  BY <1>0, <1>2, AskNextKeeps, RegistryStill DEF SurfaceInv
<1>3. CASE ShopNext
  BY <1>0, <1>3, ShopKeeps, RegistryStill DEF SurfaceInv
<1>4. CASE UNCHANGED surfaceVars
  <2>1. UNCHANGED <<defs, script, registry, first>> /\ UNCHANGED <<shopVars, cacheVars, approval, asker>>
    BY <1>4 DEF surfaceVars
  <2>2. UNCHANGED <<defs, registry, approval, asker, facts>> /\ UNCHANGED <<past, clock>> /\ clock \in Nat
    BY <1>0, <2>1 DEF shopVars, CacheInv
  <2>3. AskerInv'
    BY <1>0, <2>2, WaitKeeps
  <2>. QED
    BY <1>0, <2>1, <2>3, CachesStill, RegistryStill DEF SurfaceInv
<1>. QED
  BY <1>1, <1>2, <1>3, <1>4 DEF SurfaceNext

LEMMA SurfaceStarts ==
  ASSUME SurfaceInit
  PROVE  SurfaceInv
<1>1. /\ facts \in Facts /\ approval = TRUE /\ asker = [c \in Asker |-> NotAsked]
  BY DEF SurfaceInit
<1>2. PICK r : r = NotAsked
  OBVIOUS
<1>3. NoInput \in Input
  BY DEF NoInput, Input
<1>4. r = [at |-> "idle", f |-> <<>>, seen |-> {}, now |-> 0, old |-> FALSE, name |-> NoTool, in |-> NoInput,
           said |-> FALSE, ran |-> NoTool, paid |-> FALSE]
  BY <1>2 DEF NotAsked
<1>5. r \in AskRec
  BY <1>3, <1>4 DEF AskRec, Stage, FactsOrNot, NameOrNot
<1>6. \A c \in Asker : asker[c] = r
  BY <1>1, <1>2
<1>7. asker \in [Asker -> AskRec]
  BY <1>1, <1>2, <1>5
<1>8. ReadTrue(r) /\ Told(r) /\ r.at = "idle" /\ ~r.said
  BY <1>4 DEF ReadTrue, Told, Reading
<1>9. ValidatedIsApplied
  BY <1>6, <1>8 DEF ValidatedIsApplied
<1>10. AskerInv
  BY <1>1, <1>6, <1>7, <1>8, <1>9 DEF AskerInv
<1>11. CacheInv
  <2>1. /\ clock = 0 /\ past = {<<facts.state, 0>>} /\ due = 0 /\ snapshot = NoSnapshot /\ planes = NoPlanes
        /\ facts.state \in EntitlementState
    BY <1>1 DEF SurfaceInit, Facts
  <2>2. NoSnapshot \in Snapshot /\ ~NoSnapshot.held /\ NoPlanes \in Planes /\ ~NoPlanes.held
    BY DEF NoSnapshot, Snapshot, EntitlementState, NoPlanes, Planes
  <2>. QED
    BY <2>1, <2>2 DEF CacheInv, PlanesAreCurrent, Past
<1>. QED
  BY <1>10, <1>11, RegistryStarts DEF SurfaceInv
-----------------------------------------------------------------------------
(* Cards and calls *)

\* No rule matches, so the risk is the one that the tool declares.
LEMMA NoEscalation ==
  ASSUME NEW x
  PROVE  P!Escalate(x, <<>>) = [to |-> x, key |-> P!NoKey]
<1>1. PICK z : z = [to |-> x, key |-> P!NoKey]
  OBVIOUS
<1>2. Len(<<>>) = 0 /\ 0 \in 0 .. 0 /\ \A n \in 0 .. 0 : n = 0
  OBVIOUS
<1>3. PICK w : w = [n \in 0 .. Len(<<>>) |-> z]
  OBVIOUS
<1>4. \A f : [n \in 0 .. Len(<<>>) |-> IF n = 0 THEN z ELSE P!EscalationStep(f[n - 1], <<>>[n])] = w
  BY <1>2, <1>3
<1>. QED
  BY <1>1, <1>2, <1>3, <1>4 DEF P!Escalate

LEMMA PlainCleared ==
  ASSUME NEW n, NEW f, Get(n) = n, n # NoTool
  PROVE  P!Cleared(RequestOf(n, f, Plain)) <=>
           /\ Gate(n, f, Plain) = "open" /\ P!RiskAllowed(f.profile, defs[n].risk, FALSE)
           /\ P!NoKey \notin f.keys /\ ~PolicyDenies(n, f)
<1>1. PICK q : q = RequestOf(n, f, Plain)
  OBVIOUS
<1>2. /\ q.gate = Gate(n, f, Plain) /\ q.profile = f.profile /\ q.rollback = FALSE /\ q.floor = defs[n].risk
      /\ q.rules = <<>> /\ q.off = f.keys /\ q.confirm = TRUE
  BY <1>1 DEF RequestOf, Plain
<1>3. P!EffectiveRisk(q) = defs[n].risk
  BY <1>2, NoEscalation DEF P!EffectiveRisk
<1>4. P!CustomKeyDenies(q) <=> P!NoKey \in f.keys \/ PolicyDenies(n, f)
  BY <1>2, <1>3, NoEscalation DEF P!CustomKeyDenies, PolicyDenies
<1>. QED
  BY <1>1, <1>2, <1>3, <1>4 DEF P!Cleared

\* A tool that is registered has a card that agrees with its gate.
LEMMA CardAgrees ==
  ASSUME SurfaceInv, registry.state = "ready", NEW n \in registry.tools, NEW f \in Facts,
         "write_x" \in f.granted => "read_x" \in f.granted
  PROVE  /\ n \in FlatList(f) => Cleared(n, f, Plain) \/ PolicyDenies(n, f)
         /\ Cleared(n, f, Plain) /\ n \notin FlatList(f)
              => defs[n].tier = "agency" /\ "agency.team" \notin defs[n].needs
<1>0. DefsOK /\ RegistryInv
  BY DEF SurfaceInv
<1>1. n \in Name /\ n # NoTool /\ Get(n) = n /\ n \in DOMAIN defs
  <2>1. n \in Name /\ n \in DOMAIN defs
    BY <1>0 DEF RegistryInv, RegRec, Clear
  <2>. QED
    BY <1>0, <2>1, GetIs, SurfaceConstants
<1>2. PICK d \in Def : d = defs[n]
  BY <1>0, <1>1 DEF DefsOK
<1>3. d.tier \in Tier /\ d.needs \subseteq Entitlement /\ d.scopes \subseteq Scope
  BY DEF Def
<1>4. \A s \in d.scopes : Held(s, f.granted) <=> s \in f.granted
  BY <1>3 DEF Held, Scope
<1>5. Gate(n, f, Plain) = "open" <=>
        /\ d.needs \subseteq EntitlementsOf(f.state) /\ d.scopes \subseteq f.granted /\ ~Unsupported(d, f)
        /\ (d.capability => f.capability) /\ n \notin f.off
  <2>1. Plain.valid = TRUE
    BY DEF Plain
  <2>. QED
    BY <1>1, <1>2, <1>4, <2>1 DEF Gate, EffectiveName
<1>6. Cleared(n, f, Plain) <=>
        Gate(n, f, Plain) = "open" /\ P!RiskAllowed(f.profile, d.risk, FALSE) /\ ~PolicyDenies(n, f)
  <2>1. P!NoKey \notin f.keys
    BY DEF Facts, PolicyKey, P!NoKey
  <2>. QED
    BY <1>1, <1>2, <2>1, PlainCleared DEF Cleared
<1>7. n \in FlatList(f) <=> /\ Gate(n, f, Plain) = "open" /\ P!RiskAllowed(f.profile, d.risk, FALSE)
                            /\ d.tier = "agency" => TierOf(f.state) = "agency"
                            /\ d.tier = "pro" => TierOf(f.state) # "free"
  BY <1>2, <1>5, <1>6 DEF FlatList, Available
<1>8. ASSUME d.tier = "pro", d.needs \subseteq EntitlementsOf(f.state) PROVE TierOf(f.state) # "free"
  <2>1. PICK e \in d.needs : IsPro(e)
    BY <1>0, <1>2, <1>8 DEF RegistryInv
  <2>2. e \in EntitlementsOf(f.state)
    BY <1>8
  <2>3. f.state \in EntitlementState
    BY DEF Facts
  <2>. QED
    BY <2>1, <2>2, <2>3 DEF EntitlementsOf, TierOf, IsPro, EntitlementState
<1>9. ASSUME TierOf(f.state) # "agency" PROVE "agency.team" \notin EntitlementsOf(f.state)
  <2>1. f.state \in EntitlementState
    BY DEF Facts
  <2>. QED
    BY <1>9, <2>1 DEF EntitlementsOf, TierOf, EntitlementState
<1>10. d.needs \subseteq EntitlementsOf(f.state) /\ TierOf(f.state) # "agency" => "agency.team" \notin d.needs
  BY <1>9
<1>. QED
  BY <1>2, <1>5, <1>6, <1>7, <1>8, <1>10

LEMMA SurfaceInvSafe ==
  ASSUME SurfaceInv
  PROVE  SurfaceSafe
<1>0. DefsOK /\ RegistryInv /\ CacheInv /\ AskerInv
  BY DEF SurfaceInv
<1>1. ASSUME NEW c \in Asker
      PROVE  asker[c] \in AskRec /\ ReadTrue(asker[c]) /\ Told(asker[c])
             /\ (asker[c].at # "idle" => registry.state = "ready" /\ asker[c].f \in Facts)
  BY <1>0 DEF AskerInv
<1>2. SurfaceTypeOK
  <2>1. ASSUME NEW n \in DOMAIN defs
        PROVE  n \in Name /\ defs[n].tier \in Tier /\ defs[n].needs \subseteq Entitlement /\ defs[n].aliases \subseteq Name
    <3>1. n \in Name /\ defs[n] \in Def
      BY <1>0 DEF DefsOK
    <3>. QED
      BY <3>1 DEF Def
  <2>2. /\ registry.tools \subseteq DOMAIN defs /\ registry.aliases \in [Name -> Name \cup {NoTool}]
        /\ registry.next \in 1 .. Len(script) + 1 /\ registry.state \in {"filling", "ready", "failed"}
    BY <1>0 DEF RegistryInv, Clear, RegRec, Aliases, NameOrNot, Whole, RegState
  <2>3. /\ facts \in Facts /\ approval \in BOOLEAN
        /\ clock \in Nat /\ due \in Nat /\ snapshot \in Snapshot /\ planes \in Planes
    BY <1>0 DEF AskerInv, CacheInv
  <2>4. ASSUME NEW c \in Asker
        PROVE  /\ asker[c].at \in Reading \cup {"idle", "ready", "checked", "over"}
               /\ asker[c].at \in {"ready", "checked", "over"} => asker[c].f \in Facts
               /\ asker[c].ran \in registry.tools \cup {NoTool}
    <3>1. asker[c].at \in Stage
      BY <1>1 DEF AskRec
    <3>2. asker[c].ran \in registry.tools \cup {NoTool}
      BY <1>1 DEF Told
    <3>3. asker[c].at \in {"ready", "checked", "over"} => asker[c].f \in Facts
      BY <1>1
    <3>. QED
      BY <3>1, <3>2, <3>3 DEF Stage
  <2>. QED
    BY <2>1, <2>2, <2>3, <2>4 DEF SurfaceTypeOK
<1>3. RegistryIsClear
  <2>1. registry \in RegRec /\ Clear(registry)
    BY <1>0 DEF RegistryInv
  <2>2. ASSUME registry.builds = 2 PROVE registry.state # "failed"
    BY <1>0, <2>2 DEF RegistryInv
  <2>3. ASSUME registry.builds = 2, registry.state = "ready"
        PROVE  registry.tools = first.tools /\ registry.aliases = first.aliases
    <3>1. /\ first \in RegRec /\ Clear(first) /\ Done(first, Whole) /\ Follows /\ registry.next = Whole
      BY <1>0, <2>3 DEF RegistryInv
    <3>2. registry.tools = first.tools
      BY <3>1 DEF Follows, Done
    <3>3. registry.aliases \in [Name -> NameOrNot] /\ first.aliases \in [Name -> NameOrNot]
      BY <2>1, <3>1 DEF RegRec, Aliases
    <3>4. \A a \in Name : registry.aliases[a] = first.aliases[a]
      BY <3>1, <3>2 DEF Follows, Clear
    <3>. QED
      BY <3>2, <3>3, <3>4
  <2>. QED
    BY <2>1, <2>2, <2>3 DEF RegistryIsClear, Clear
<1>4. CardsAgreeWithGate
  <2>1. ASSUME NEW c \in Asker, Judging(c), NEW n \in registry.tools
        PROVE  /\ n \in FlatList(asker[c].f) => Cleared(n, asker[c].f, Plain) \/ PolicyDenies(n, asker[c].f)
               /\ Cleared(n, asker[c].f, Plain) /\ n \notin FlatList(asker[c].f)
                    => defs[n].tier = "agency" /\ "agency.team" \notin defs[n].needs
    <3>1. PICK f \in Facts : f = asker[c].f
      BY <1>1, <2>1 DEF Judging
    <3>2. registry.state = "ready"
      BY <1>1, <2>1 DEF Judging
    <3>3. PICK g : Expanded(g.granted) = f.granted
      BY <1>1, <2>1, <3>1 DEF Judging, ReadTrue
    <3>4. "write_x" \in f.granted => "read_x" \in f.granted
      BY <3>3 DEF Expanded
    <3>. QED
      BY <3>1, <3>2, <3>4, CardAgrees
  <2>. QED
    BY <2>1 DEF CardsAgreeWithGate
<1>5. DisabledStaysOff
  BY <1>1 DEF DisabledStaysOff, Told
<1>6. FactsWereTrue
  BY <1>1 DEF FactsWereTrue, Judging, ReadTrue, HadAfter
<1>7. ValidatedIsApplied
  BY <1>0 DEF AskerInv
<1>8. PlanesAreCurrent
  BY <1>0 DEF CacheInv
<1>. QED
  BY <1>2, <1>3, <1>4, <1>5, <1>6, <1>7, <1>8 DEF SurfaceSafe

\* The tool surface, call by call (ToolRegistry, createRegistry, authenticateMcp, executeTool).
THEOREM SurfaceInvariance == SurfaceSpec => []SurfaceInv
<1>1. SurfaceInit => SurfaceInv
  BY SurfaceStarts
<1>2. SurfaceInv /\ [SurfaceNext]_surfaceVars => SurfaceInv'
  BY SurfaceStep
<1>. QED
  BY <1>1, <1>2, PTL DEF SurfaceSpec

\* What a client is shown is what it may run, for any tools, aliases and order of registering
\* them: a second registry is what the first one was, a card agrees with the gate that a call
\* meets but for what the credential's policy forbids, a disabled tool does not run under any name,
\* the plan a request is judged by is less than a minute old and its capabilities are those that
\* are stored or about to be invalidated or known to have missed it, and what was validated is
\* applied unless another request used the token.
THEOREM ShownIsWhatRuns == SurfaceSpec => []SurfaceSafe
<1>1. SurfaceInv => SurfaceSafe
  BY SurfaceInvSafe
<1>. QED
  BY <1>1, SurfaceInvariance, PTL
=============================================================================
