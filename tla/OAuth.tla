------------------------------- MODULE OAuth -------------------------------
(***************************************************************************)
(* How an MCP client gets and keeps access to a shop: the authorization    *)
(* server of auth/oauth-as.ts, the dashboard's tokens (api/account.ts,     *)
(* api/admin.ts) and the check of a bearer token in auth/mcp.ts, over the  *)
(* tables credentials, oauth_clients, oauth_codes and oauth_tokens.  A     *)
(* call waits for the database between any two statements.  Whatever a     *)
(* call creates, a credential, a code, a pair of tokens, carries its name. *)
(***************************************************************************)
EXTENDS Naturals

CONSTANTS Call, Client, Shop, NoCall, NoClient, NoShop

ASSUME OAuthAssumption ==
  /\ NoCall \notin Call /\ NoClient \notin Client /\ NoShop \notin Shop

VARIABLES
  clients,   \* oauth_clients: the client metadata documents that have been fetched
  creds,     \* credentials: each one's shop, client (NoClient: a dashboard token), state
  codes,     \* oauth_codes: each code's credential, client and state
  access,    \* oauth_tokens of kind access: credential, client and state
  refresh,   \* oauth_tokens of kind refresh
  call,      \* each request: where it is, what it was given and what it found
  rivals,    \* history: requests about to spend the same secret when it was found unspent
  barred,    \* history: credentials already revoked when a request came in
  pair,      \* history: the grant, by code or by refresh token, a pair came from
  broken     \* history: credentials whose client lost its grant: a cut or a wrong
             \* exchange, an expiry, a revocation

oauthVars == <<clients, creds, codes, access, refresh, call, rivals, barred, pair, broken>>

State == {"none", "live", "spent", "expired"}
Credential == [shop : Shop \cup {NoShop}, client : Client \cup {NoClient}, state : State]
Secret == [cred : Call \cup {NoCall}, client : Client \cup {NoClient}, state : State]
Absent == [cred |-> NoCall, client |-> NoClient, state |-> "none"]
CallPlace == {"idle", "fetch", "register", "seed", "find", "consume", "check", "revoke",
              "access", "refresh", "bearer", "holder", "served", "end"}
CallKind == {"none", "page", "approve", "token", "exchange", "rotate", "use", "withdraw", "drop"}
CallRequest == [at : CallPlace, kind : CallKind, shop : Shop \cup {NoShop}, client : Client \cup {NoClient},
                given : Call \cup {NoCall},    \* the secret it brings
                cred : Call \cup {NoCall}]     \* the credential it is about
UnsentCall == [at |-> "idle", kind |-> "none", shop |-> NoShop, client |-> NoClient,
               given |-> NoCall, cred |-> NoCall]

OAuthTypeOK ==
  /\ clients \in SUBSET Client
  /\ creds \in [Call -> Credential] /\ codes \in [Call -> Secret]
  /\ access \in [Call -> Secret] /\ refresh \in [Call -> Secret]
  /\ call \in [Call -> CallRequest]
  /\ rivals \in [Call -> SUBSET Call] /\ barred \in [Call -> SUBSET Call]
  /\ pair \in [Call -> {"none", "exchange", "rotate"} \X (Call \cup {NoCall})]
  /\ broken \in SUBSET Call

OAuthInit ==
  /\ clients = {}
  /\ creds = [c \in Call |-> [shop |-> NoShop, client |-> NoClient, state |-> "none"]]
  /\ codes = [c \in Call |-> Absent]
  /\ access = [c \in Call |-> Absent] /\ refresh = [c \in Call |-> Absent]
  /\ call = [c \in Call |-> UnsentCall]
  /\ rivals = [c \in Call |-> {}] /\ barred = [c \in Call |-> {}]
  /\ pair = [c \in Call |-> <<"none", NoCall>>] /\ broken = {}

tables == <<clients, creds, codes, access, refresh>>
history == <<rivals, barred, pair, broken>>

CallAt(c, place) == call[c].at = place
Given(c) == call[c].given
GotoCall(c, to) == call' = [call EXCEPT ![c].at = to]
EndCall(c) == GotoCall(c, "end")
BeginCall(c, request) == CallAt(c, "idle") /\ call' = [call EXCEPT ![c] = request]
Revoked(r) == creds[r].state = "spent"

-----------------------------------------------------------------------------
(* GET and POST /oauth/authorize *)

\* getOrFetchClient: the page for a client that nobody has used before.
OpenPage(c, k) ==
  /\ k \notin clients
  /\ BeginCall(c, [UnsentCall EXCEPT !.at = "fetch", !.kind = "page", !.client = k])
  /\ UNCHANGED <<tables, history>>

FetchClient(c) ==
  /\ CallAt(c, "fetch") /\ (GotoCall(c, "register") \/ EndCall(c))
  /\ UNCHANGED <<tables, history>>

\* client_id is the primary key: the second page of a new client throws, and shows
\* that its metadata could not be verified.
RegisterClient(c) ==
  /\ CallAt(c, "register") /\ EndCall(c)
  /\ clients' = clients \cup {call[c].client}
  /\ UNCHANGED <<creds, codes, access, refresh, history>>

\* The form does not ask whether its client was ever registered.
Approve(c, k, s) ==
  /\ BeginCall(c, [UnsentCall EXCEPT !.at = "seed", !.kind = "approve", !.client = k, !.shop = s])
  /\ creds' = [creds EXCEPT ![c] = [shop |-> s, client |-> k, state |-> "live"]]
  /\ UNCHANGED <<clients, codes, access, refresh, history>>

CreateCode(c) ==
  /\ CallAt(c, "seed") /\ EndCall(c)
  /\ codes' = [codes EXCEPT ![c] = [cred |-> c, client |-> call[c].client, state |-> "live"]]
  /\ UNCHANGED <<clients, creds, access, refresh, history>>

\* POST /shops/:shopId/tokens: the token of the dashboard is its own credential.
CreateToken(c, s) ==
  /\ BeginCall(c, [UnsentCall EXCEPT !.at = "end", !.kind = "token", !.shop = s])
  /\ creds' = [creds EXCEPT ![c] = [shop |-> s, client |-> NoClient, state |-> "live"]]
  /\ UNCHANGED <<clients, codes, access, refresh, history>>

-----------------------------------------------------------------------------
(* POST /oauth/token *)

\* fits: the client sends the redirect_uri and the verifier of its code.
BeginExchange(c, k, code) ==
  /\ codes[code].state # "none"
  /\ BeginCall(c, [UnsentCall EXCEPT !.at = "find", !.kind = "exchange", !.client = k, !.given = code])
  /\ UNCHANGED <<tables, history>>

BeginRotate(c, k, token) ==
  /\ refresh[token].state # "none"
  /\ BeginCall(c, [UnsentCall EXCEPT !.at = "find", !.kind = "rotate", !.client = k, !.given = token])
  /\ UNCHANGED <<tables, history>>

Spending(kind, secret) == {d \in Call : /\ CallAt(d, "consume") /\ call[d].kind = kind
                                        /\ Given(d) = secret}

\* consumeCode, its select.
FindCode(c) ==
  /\ CallAt(c, "find") /\ call[c].kind = "exchange"
  /\ IF codes[Given(c)].state = "live"
     THEN /\ GotoCall(c, "consume")
          /\ rivals' = [rivals EXCEPT ![c] = Spending("exchange", Given(c))]
     ELSE EndCall(c) /\ UNCHANGED rivals
  /\ UNCHANGED <<tables, barred, pair, broken>>

\* Fault: the code is only marked when its row says that it is about to expire.
ConsumeLate(c) ==
  /\ CallAt(c, "consume") /\ call[c].kind = "exchange" /\ GotoCall(c, "check")
  /\ codes' = [codes EXCEPT ![Given(c)].state = IF @ = "expired" THEN "spent" ELSE @]
  /\ UNCHANGED <<clients, creds, access, refresh, history>>

\* consumeCode, its update, which does not ask again whether the code is unused.
ConsumeCode(c) ==
  /\ CallAt(c, "consume") /\ call[c].kind = "exchange" /\ GotoCall(c, "check")
  /\ codes' = [codes EXCEPT ![Given(c)].state = "spent"]
  /\ UNCHANGED <<clients, creds, access, refresh, history>>

\* Only now are redirect_uri, client_id and the verifier compared: a wrong exchange
\* has used the code up all the same.
CheckCode(c) ==
  /\ CallAt(c, "check")
  /\ \E fits \in BOOLEAN :
       IF fits /\ codes[Given(c)].client = call[c].client
       THEN /\ call' = [call EXCEPT ![c].at = "access", ![c].cred = codes[Given(c)].cred]
            /\ UNCHANGED broken
       ELSE EndCall(c) /\ broken' = broken \cup {codes[Given(c)].cred}
  /\ UNCHANGED <<tables, rivals, barred, pair>>

FindRefresh(c) ==
  /\ CallAt(c, "find") /\ call[c].kind = "rotate"
  /\ IF refresh[Given(c)].state = "live" /\ refresh[Given(c)].client = call[c].client
     THEN /\ call' = [call EXCEPT ![c].at = "consume", ![c].cred = refresh[Given(c)].cred]
          /\ rivals' = [rivals EXCEPT ![c] = Spending("rotate", Given(c))]
     ELSE EndCall(c) /\ UNCHANGED rivals
  /\ UNCHANGED <<tables, barred, pair, broken>>

\* The old refresh token goes before the new one is there.
RevokeRefresh(c) ==
  /\ CallAt(c, "consume") /\ call[c].kind = "rotate" /\ GotoCall(c, "access")
  /\ refresh' = [refresh EXCEPT ![Given(c)].state = "spent"]
  /\ UNCHANGED <<clients, creds, codes, access, history>>

\* issueTokenPair, in two statements.
IssueAccess(c) ==
  /\ CallAt(c, "access") /\ GotoCall(c, "refresh")
  /\ access' = [access EXCEPT ![c] = [cred |-> call[c].cred, client |-> call[c].client,
                                      state |-> "live"]]
  /\ pair' = [pair EXCEPT ![c] = <<call[c].kind, Given(c)>>]
  /\ UNCHANGED <<clients, creds, codes, refresh, rivals, barred, broken>>

IssueRefresh(c) ==
  /\ CallAt(c, "refresh") /\ EndCall(c)
  /\ refresh' = [refresh EXCEPT ![c] = [cred |-> call[c].cred, client |-> call[c].client,
                                        state |-> "live"]]
  /\ UNCHANGED <<clients, creds, codes, access, history>>

-----------------------------------------------------------------------------
(* Revoking *)

\* POST /oauth/revoke: whatever token it is, access or refresh.
DropToken(c, token) ==
  /\ BeginCall(c, [UnsentCall EXCEPT !.at = "end", !.kind = "drop", !.given = token])
  /\ \/ /\ access[token].state # "none"
        /\ access' = [access EXCEPT ![token].state = "spent"]
        /\ UNCHANGED <<refresh, broken>>
     \/ /\ refresh[token].state # "none"
        /\ refresh' = [refresh EXCEPT ![token].state = "spent"]
        /\ broken' = broken \cup {refresh[token].cred}
        /\ UNCHANGED access
  /\ UNCHANGED <<clients, creds, codes, rivals, barred, pair>>

\* DELETE of a token or a connection: a look whether it is the shop's, then the update.
BeginWithdraw(c, r) ==
  /\ creds[r].state # "none"
  /\ BeginCall(c, [UnsentCall EXCEPT !.at = "revoke", !.kind = "withdraw", !.cred = r])
  /\ UNCHANGED <<tables, history>>

RevokeCredential(c) ==
  /\ CallAt(c, "revoke") /\ EndCall(c)
  /\ creds' = [creds EXCEPT ![call[c].cred].state = "spent"]
  /\ UNCHANGED <<clients, codes, access, refresh, history>>

-----------------------------------------------------------------------------
(* authenticateMcp and resolveCredential *)

\* A bearer token is a dashboard token (given: its credential) or an access token.
BeginUse(c, s, token) ==
  /\ creds[token].state # "none" \/ access[token].state # "none"
  /\ BeginCall(c, [UnsentCall EXCEPT !.at = "bearer", !.kind = "use", !.shop = s, !.given = token])
  /\ barred' = [barred EXCEPT ![c] = {r \in Call : Revoked(r)}]
  /\ UNCHANGED <<tables, rivals, pair, broken>>

FindBearer(c) ==
  /\ CallAt(c, "bearer")
  /\ LET t == Given(c) IN
     IF creds[t].client = NoClient /\ creds[t].state = "live" /\ creds[t].shop = call[c].shop
     THEN call' = [call EXCEPT ![c].at = "served", ![c].cred = t]
     ELSE IF access[t].state = "live"
     THEN call' = [call EXCEPT ![c].at = "holder", ![c].cred = access[t].cred]
     ELSE EndCall(c)
  /\ UNCHANGED <<tables, history>>

FindHolder(c) ==
  /\ CallAt(c, "holder")
  /\ IF creds[call[c].cred].shop = call[c].shop /\ ~Revoked(call[c].cred)
     THEN GotoCall(c, "served") ELSE EndCall(c)
  /\ UNCHANGED <<tables, history>>

-----------------------------------------------------------------------------
(* Time and the server *)

Expire(t) ==
  /\ \/ /\ codes[t].state = "live" /\ codes' = [codes EXCEPT ![t].state = "expired"]
        /\ broken' = broken \cup {codes[t].cred} /\ UNCHANGED <<creds, access, refresh>>
     \/ /\ access[t].state = "live" /\ access' = [access EXCEPT ![t].state = "expired"]
        /\ UNCHANGED <<creds, codes, refresh, broken>>
     \/ /\ refresh[t].state = "live" /\ refresh' = [refresh EXCEPT ![t].state = "expired"]
        /\ broken' = broken \cup {refresh[t].cred} /\ UNCHANGED <<creds, codes, access>>
     \/ /\ creds[t].client = NoClient /\ creds[t].state = "live"
        /\ creds' = [creds EXCEPT ![t].state = "expired"]
        /\ UNCHANGED <<codes, access, refresh, broken>>
  /\ UNCHANGED <<clients, call, rivals, barred, pair>>

\* Credentials whose client is waiting for an answer.
Waiting == {creds_of \in Call : \E c \in Call :
              \/ CallAt(c, "seed") /\ creds_of = c
              \/ CallAt(c, "check") /\ creds_of = codes[Given(c)].cred
              \/ call[c].at \in {"access", "refresh"} /\ creds_of = call[c].cred}

\* A client whose rotation was cut off has given up its refresh token for nothing.
OAuthRestart ==
  /\ \E c \in Call : call[c].at \notin {"idle", "end", "served"}
  /\ call' = [c \in Call |-> IF call[c].at \in {"idle", "served"} THEN call[c]
                             ELSE [call[c] EXCEPT !.at = "end"]]
  /\ broken' = broken \cup Waiting
  /\ UNCHANGED <<tables, rivals, barred, pair>>

StartCall(c) ==
  \/ \E k \in Client :
       \/ OpenPage(c, k) \/ \E s \in Shop : Approve(c, k, s)
       \/ \E t \in Call : BeginExchange(c, k, t) \/ BeginRotate(c, k, t)
  \/ \E s \in Shop : CreateToken(c, s) \/ \E t \in Call : BeginUse(c, s, t)
  \/ \E t \in Call : DropToken(c, t) \/ BeginWithdraw(c, t)

ContinueCall(c) ==
  \/ FetchClient(c) \/ RegisterClient(c) \/ CreateCode(c)
  \/ FindCode(c) \/ ConsumeCode(c) \/ CheckCode(c) \/ FindRefresh(c) \/ RevokeRefresh(c)
  \/ IssueAccess(c) \/ IssueRefresh(c) \/ RevokeCredential(c) \/ FindBearer(c) \/ FindHolder(c)

OAuthNext == (\E c \in Call : StartCall(c) \/ ContinueCall(c) \/ Expire(c)) \/ OAuthRestart

OAuthSpec == OAuthInit /\ [][OAuthNext]_oauthVars
-----------------------------------------------------------------------------
(* Properties *)

\* Whatever chain of rotations a token comes from, it acts for the client and with
\* the credential that the merchant approved.
TokenOfItsGrant ==
  \A t \in Call : \A token \in {access[t], refresh[t]} :
    token.state # "none" => creds[token.cred].client = token.client

\* A code, or a refresh token, yields one pair of tokens, although the look and the
\* update that uses it up are two statements and the update asks for nothing: two
\* pairs come only from requests that had both found it unspent.
OneUseWithoutOverlap ==
  \A c, d \in Call :
    c # d /\ pair[c] = pair[d] /\ pair[c][1] # "none" => rivals[c] \cup rivals[d] # {}

\* A call that came in after its credential was revoked is not served, though no
\* token of the credential is revoked with it and refreshing goes on.
RevokedStaysOut ==
  \A c \in Call : CallAt(c, "served") => call[c].cred \notin barred[c]

Approved == {r \in Call : /\ creds[r].state = "live" /\ creds[r].client # NoClient}

\* An approved client that nobody cut off still has a code to exchange or a refresh
\* token, or an answer on its way: rotating never leaves it with nothing.
ClientKeepsAccess ==
  \A r \in Approved \ (broken \cup Waiting) :
    \E t \in Call : \/ codes[t].cred = r /\ codes[t].state = "live"
                    \/ refresh[t].cred = r /\ refresh[t].state = "live"

\* A client acts with the credential it was given and never with more, and keeps it while it
\* rotates its tokens (the OAuth routes and authenticateMcp).
OAuthSafe ==
  /\ OAuthTypeOK
  /\ TokenOfItsGrant
  /\ OneUseWithoutOverlap
  /\ RevokedStaysOut
  /\ ClientKeepsAccess
=============================================================================
