---------------------------- MODULE McpRequests ----------------------------
(***************************************************************************)
(* The MCP server's handling of HTTP requests (packages/mcp-protocol) with *)
(* the telemetry the server hangs on it (mcp/deps.ts, onRequest).  A body  *)
(* is one JSON-RPC request or a batch of them.  A request whose body names *)
(* a protocol version is modern: stateless, with headers that mirror the   *)
(* body.  Others are legacy, and may belong to a session that began with   *)
(* initialize.  The handler waits at the telemetry and at the callback     *)
(* that does the work; another request may run in between.                 *)
(***************************************************************************)
EXTENDS Naturals, Sequences, FiniteSets, SequencesExt

CONSTANTS Post,       \* HTTP requests
          Target,     \* names of tools and prompts, and uris of resources
          ClientName, \* names that clients give themselves
          Nothing,    \* no name, no session
          MaxItems    \* bound on the items of a batch

ASSUME McpAssumption == Nothing \notin Post \cup Target \cup ClientName /\ MaxItems \in Nat \ {0}

VARIABLES
  post,    \* each HTTP request: where its handling is, and what it answered
  kv,      \* table kv: the client name kept for a session
  fresh,   \* sessions whose name was kept less than SESSION_CLIENT_INFO_TTL_MS ago
  gave     \* history: the name that the initialize of a session gave

mcpVars == <<post, kv, fresh, gave>>

\* The methods there are, by how they are handled: "list" stands for server/discover and the
\* three lists, "read" for resources/read and prompts/get, "ping" also for logging/setLevel,
\* "subscribe" for what was removed without being served before, "notice" for other notifications.
Method == {"initialize", "initialized", "ping", "list", "call", "read", "subscribe", "notice"}
NameHeaderMethods == {"call", "read"}
RemovedInModern == {"initialize", "initialized", "ping", "subscribe"}
Notifications == {"initialized", "notice"}

Version == {"", "modern", "legacy", "unknown"}
SupportedVersions == {"modern", "legacy"}

\* A session has the name of the HTTP request, and the item of it, that began it.
Session == Post \X (1 .. MaxItems)

Item == [version : Version, method : Method, name : Target \cup {Nothing}, id : BOOLEAN,
         capabilities : BOOLEAN, client : ClientName \cup {Nothing}]
\* Items that differ only in what is not looked at are one.
Items == {i \in Item : /\ i.method \notin NameHeaderMethods => i.name = Nothing
                       /\ i.version = "" => ~i.capabilities /\ (i.method # "initialize" => i.client = Nothing)
                       /\ i.id \/ i.method \in Notifications \cup {"call"}}
NoItem == [version |-> "", method |-> "notice", name |-> Nothing, id |-> FALSE, capabilities |-> FALSE,
           client |-> Nothing]

Headers == [version : Version, method : Method \cup {Nothing}, name : Target \cup {Nothing},
            session : Session \cup {Nothing}]
NoHeaders == [version |-> "", method |-> Nothing, name |-> Nothing, session |-> Nothing]

Arrived == [at |-> "next", batch |-> FALSE, left |-> 0, n |-> 0, item |-> NoItem, headers |-> NoHeaders,
            notes |-> {}, answers |-> <<>>, ran |-> {}, client |-> Nothing, told |-> Nothing, status |-> 0]
Unsent == [Arrived EXCEPT !.at = "unsent"]

McpTypeOK ==
  /\ \A p \in Post :
       /\ post[p].at \in {"unsent", "next", "listen", "introduce", "run", "over"} /\ post[p].left \in 0 .. MaxItems
       /\ post[p].item \in Item /\ post[p].headers \in Headers /\ post[p].n \in 0 .. MaxItems
       /\ post[p].status \in {0, 200, 202, 400, 404, 405, 500}
       /\ post[p].at = "over" <=> post[p].status # 0
  /\ kv \in [Session -> ClientName \cup {Nothing}] /\ fresh \subseteq Session
  /\ gave \in [Session -> ClientName \cup {Nothing}]

McpInit ==
  /\ post = [p \in Post |-> Unsent] /\ kv = [s \in Session |-> Nothing]
  /\ fresh = {} /\ gave = [s \in Session |-> Nothing]
-----------------------------------------------------------------------------
(* Classifying and refusing one JSON-RPC request *)

IsModern(i) == i.version # ""

\* Fault: prompts and resources are thought to need no name header.
NameHeaderWrongForCalls(h, i) == i.method = "call" /\ (h.name = Nothing \/ h.name # i.name)

NameHeaderWrong(h, i) == i.method \in NameHeaderMethods /\ (h.name = Nothing \/ h.name # i.name)

HeadersWrong(h, i) ==
  \/ h.version # i.version \/ i.version \notin SupportedVersions
  \/ h.method # i.method
  \/ NameHeaderWrong(h, i)

\* The status of the refusal of a modern request, or 0.
Refusal(p, i) ==
  IF ~post[p].batch /\ HeadersWrong(post[p].headers, i) THEN 400
  ELSE IF i.method \in RemovedInModern THEN 404
  ELSE IF ~i.capabilities THEN 400 ELSE 0

IsNotification(i) == ~i.id /\ i.method \in Notifications
-----------------------------------------------------------------------------
(* Answering *)

Finished(r, status) == [r EXCEPT !.at = "over", !.status = status, !.item = NoItem, !.headers = NoHeaders]

\* The outcome of one item.  A batch is answered with 200, whatever the status of its items.
Answered(r, status) ==
  IF ~r.batch
  THEN Finished([r EXCEPT !.answers = IF status = 202 THEN <<>> ELSE <<r.n>>], status)
  ELSE LET s == [r EXCEPT !.answers = IF IsNotification(r.item) THEN @ ELSE Append(@, r.n),
                          !.item = NoItem]
       IN  IF r.left = 0 THEN Finished(s, 200) ELSE [s EXCEPT !.at = "next"]

Becomes(p, r) == post' = [post EXCEPT ![p] = r]

\* Whether an item is a notification that is to have no answer.
Note(i) == i.method \in Notifications /\ ~i.id

Took(p, i) == [post[p] EXCEPT !.item = i, !.n = @ + 1, !.left = @ - 1, !.client = Nothing, !.told = Nothing,
                              !.notes = IF Note(i) THEN @ \cup {post[p].n + 1} ELSE @]
-----------------------------------------------------------------------------
(* handle and dispatchOne *)

ReceiveOther(p) ==
  /\ post[p].at = "unsent" /\ Becomes(p, Finished(post[p], 405))
  /\ UNCHANGED <<kv, fresh, gave>>

\* A body that is no request, or a batch with no items.
ReceiveInvalid(p) ==
  /\ post[p].at = "unsent" /\ Becomes(p, Finished(post[p], 400))
  /\ UNCHANGED <<kv, fresh, gave>>

\* The sessions a client can name: the answer to an initialize in a batch has no session id.
Issued == {s \in Session : gave[s] # Nothing /\ ~post[s[1]].batch /\ post[s[1]].status = 200}

ReceiveSingle(p, h) ==
  /\ post[p].at = "unsent" /\ h.session \in Issued \cup {Nothing}
  /\ Becomes(p, [Arrived EXCEPT !.left = 1, !.headers = h])
  /\ UNCHANGED <<kv, fresh, gave>>

ReceiveBatch(p, n, s) ==
  /\ post[p].at = "unsent" /\ s \in Issued \cup {Nothing}
  /\ Becomes(p, [Arrived EXCEPT !.batch = TRUE, !.left = n, !.headers = [NoHeaders EXCEPT !.session = s]])
  /\ UNCHANGED <<kv, fresh, gave>>

\* An item of a batch that is no request is answered with an error.
TakeInvalid(p) ==
  /\ post[p].at = "next" /\ post[p].batch
  /\ Becomes(p, Answered([Took(p, NoItem) EXCEPT !.notes = post[p].notes, !.item.id = TRUE], 400))
  /\ UNCHANGED <<kv, fresh, gave>>

TakeModern(p, i) ==
  /\ post[p].at = "next" /\ IsModern(i)
  /\ Becomes(p, IF Refusal(p, i) # 0 THEN Answered(Took(p, i), Refusal(p, i))
             ELSE [Took(p, i) EXCEPT !.at = "listen"])
  /\ UNCHANGED <<kv, fresh, gave>>

TakeLegacy(p, i) ==
  /\ post[p].at = "next" /\ ~IsModern(i)
  /\ Becomes(p, CASE i.method = "initialized" -> Answered(Took(p, i), 202)
               [] i.method = "ping"        -> Answered(Took(p, i), 200)
               [] OTHER                    -> [Took(p, i) EXCEPT !.at = "listen"])
  /\ gave' = IF i.method = "initialize" THEN [gave EXCEPT ![<<p, post[p].n + 1>>] = i.client] ELSE gave
  /\ UNCHANGED <<kv, fresh>>

Heard(p, name) == Becomes(p, [post[p] EXCEPT !.at = IF post[p].item.method = "initialize" /\ ~IsModern(post[p].item)
                                                 THEN "introduce" ELSE "run",
                                          !.client = name,
                                          !.told = post[p].headers.session])

\* sessionClientKvKey
SessionKey(s) == s

\* onRequest for a modern request, and for an initialize that gives no name.
ListenStateless(p) ==
  /\ post[p].at = "listen"
  /\ \/ IsModern(post[p].item)
     \/ post[p].item.method = "initialize" /\ post[p].item.client = Nothing
  /\ Heard(p, post[p].item.client)
  /\ UNCHANGED <<kv, fresh, gave>>

\* onRequest for an initialize: the name is kept for the session.
ListenInitialize(p) ==
  LET s == <<p, post[p].n>>
  IN  /\ post[p].at = "listen" /\ ~IsModern(post[p].item) /\ post[p].item.method = "initialize"
      /\ post[p].item.client # Nothing
      /\ kv' = [kv EXCEPT ![SessionKey(s)] = post[p].item.client]
      /\ fresh' = fresh \cup {SessionKey(s)}
      /\ Heard(p, post[p].item.client) /\ UNCHANGED gave

\* onRequest for another legacy request: the name is the one kept for its session, if any.
ListenSession(p) ==
  LET s == post[p].headers.session
  IN  /\ post[p].at = "listen" /\ ~IsModern(post[p].item) /\ post[p].item.method # "initialize"
      /\ Heard(p, IF s # Nothing /\ SessionKey(s) \in fresh THEN kv[SessionKey(s)] ELSE Nothing)
      /\ UNCHANGED <<kv, fresh, gave>>

\* The kv table fails: the exception ends the telemetry and nothing else.
ListenFails(p) ==
  /\ post[p].at = "listen" /\ ~IsModern(post[p].item)
  /\ post[p].item.method = "initialize" => post[p].item.client # Nothing
  /\ post[p].item.method # "initialize" => post[p].headers.session # Nothing
  /\ Heard(p, Nothing) /\ UNCHANGED <<kv, fresh, gave>>

\* The answer to initialize, once instructionsFor has its instructions.
Introduce(p) ==
  /\ post[p].at = "introduce" /\ Becomes(p, Answered(post[p], 200))
  /\ UNCHANGED <<kv, fresh, gave>>

\* routeSharedMethod: a tool, a list, a resource or a prompt.
Route(p) ==
  /\ post[p].at = "run" /\ post[p].item.method \in {"list", "call", "read"}
  /\ Becomes(p, Answered([post[p] EXCEPT !.ran = IF post[p].item.method = "call" /\ post[p].item.name # Nothing
                                             THEN @ \cup {post[p].n} ELSE @], 200))
  /\ UNCHANGED <<kv, fresh, gave>>

RouteUnknown(p) ==
  /\ post[p].at = "run" /\ post[p].item.method \notin {"list", "call", "read"}
  /\ Becomes(p, Answered(post[p], 404))
  /\ UNCHANGED <<kv, fresh, gave>>

\* A callback throws: an unknown prompt or resource, a database that fails.  A tool may have
\* done its work before it throws.  The answers of the whole batch are lost.
Throw(p) ==
  /\ post[p].at \in {"introduce", "run"}
  /\ post[p].item.method \in {"initialize", "list", "call", "read"}
  /\ post[p].item.method \in NameHeaderMethods => post[p].item.name # Nothing
  /\ \E worked \in BOOLEAN :
       /\ worked => post[p].item.method = "call"
       /\ Becomes(p, Finished([post[p] EXCEPT !.answers = <<>>, !.ran = IF worked THEN @ \cup {post[p].n} ELSE @],
                           500))
  /\ UNCHANGED <<kv, fresh, gave>>

\* SESSION_CLIENT_INFO_TTL_MS passes.
SessionAges(s) == s \in fresh /\ fresh' = fresh \ {s} /\ UNCHANGED <<post, kv, gave>>

PostStep(p) ==
  \/ ReceiveOther(p) \/ ReceiveInvalid(p) \/ \E h \in Headers : ReceiveSingle(p, h)
  \/ \E n \in 1 .. MaxItems, s \in Session \cup {Nothing} : ReceiveBatch(p, n, s)
  \/ TakeInvalid(p) \/ \E i \in Items : TakeModern(p, i) \/ TakeLegacy(p, i)
  \/ ListenStateless(p) \/ ListenInitialize(p) \/ ListenSession(p) \/ ListenFails(p)
  \/ Introduce(p) \/ Route(p) \/ RouteUnknown(p) \/ Throw(p)

McpNext == (\E p \in Post : PostStep(p)) \/ \E s \in Session : SessionAges(s)

McpSpec == McpInit /\ [][McpNext]_mcpVars
-----------------------------------------------------------------------------
(* Properties *)

\* The answers are in the order of the first k items, one for each that is no notification.
Matched(r, k) ==
  /\ ToSet(r.answers) = (1 .. k) \ r.notes
  /\ \A i, j \in DOMAIN r.answers : i < j => r.answers[i] < r.answers[j]

\* A batch that is answered has one answer for each of its items, in their order, and none
\* for a notification; a tool that ran without an id in its request (a notification by
\* JSON-RPC, and no method of that kind) is answered all the same.  The client of a batch
\* that got an internal error cannot tell what ran, and this is the only such status.
AnswersMatchItems ==
  \A p \in Post : LET r == post[p] IN
    r.at = "over" =>
      /\ r.batch /\ r.status # 500 => Matched(r, r.n)
      /\ r.status # 500 => r.ran \subseteq ToSet(r.answers) /\ r.left = 0

\* What runs for a single modern request, a tool, a prompt or a resource, is what the headers
\* named on which a gateway in front of the server decides (headers.ts: "a proxy could
\* authorize on Mcp-Name while the server executes params.name").
RunsWhatHeadersSay ==
  \A p \in Post :
    LET i == post[p].item  h == post[p].headers IN
    /\ post[p].at = "run" /\ ~post[p].batch /\ i.version # ""
    => h.method = i.method /\ (i.method \in NameHeaderMethods => h.name = i.name)

\* A request that names a version never gets as far as its callback unless it declares its
\* capabilities, and, outside a batch, the version is one that the server advertises: it is
\* not served as though it had named none.
DeclaredIsChecked ==
  \A p \in Post :
    LET i == post[p].item IN
    /\ post[p].at \in {"run", "introduce"} /\ i.version # ""
    => /\ i.capabilities /\ i.method \notin RemovedInModern
       /\ i.version \in SupportedVersions \/ post[p].batch

\* A legacy request is counted under no other client's name: the one it is counted under is
\* the name that its session's own initialize gave, however many sessions there are.
CountedAsIntroduced ==
  \A p \in Post :
    /\ post[p].at = "run" /\ post[p].item.version = "" /\ post[p].client # Nothing
    => post[p].told # Nothing /\ post[p].client = gave[post[p].told]

\* A request is answered, run and counted as what it says that it is (createMcpHandler).
McpSafe ==
  /\ McpTypeOK
  /\ AnswersMatchItems
  /\ RunsWhatHeadersSay
  /\ DeclaredIsChecked
  /\ CountedAsIntroduced
=============================================================================
