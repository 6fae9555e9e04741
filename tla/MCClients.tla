----------------------------- MODULE MCClients -----------------------------
(* Small instances of what a client meets: the OAuth server, the handling of  *)
(* MCP requests, and the tools it is shown and may call.  They share no       *)
(* state; part says what a behaviour is about.                                *)
EXTENDS OAuth, McpRequests, ToolSurface, TLC

CONSTANTS t1, t2, k1, s1

VARIABLE part

\* Those of a kind are alike until they begin, and are numbered as they begin.
InOrder(S, begun) == \A x, y \in S : x < y /\ y \in begun => x \in begun
-----------------------------------------------------------------------------
\* What the OAuth requests of one behaviour may be.
Mixes == [rotate   |-> {"approve", "exchange", "rotate"},
          withdraw |-> {"approve", "exchange", "use", "withdraw"},
          drop     |-> {"approve", "exchange", "drop"},
          page     |-> {"page", "approve"},
          bearer   |-> {"token", "use", "withdraw"}]

\* The first request decides which client and which shop is the first.  Shops differ where a
\* token is used, clients where a secret is exchanged.
OAuthMoves ==
  /\ part \in DOMAIN Mixes /\ OAuthNext
  /\ \A c \in Call : call'[c].kind \in Mixes[part] \cup {"none"}
  /\ call'[1].client \in {k1, NoClient} /\ call'[1].shop \in {s1, NoShop}
  /\ part \in {"rotate", "drop"} => \A c \in Call : call'[c].shop \in {s1, NoShop}
  /\ part = "withdraw" => \A c \in Call : call'[c].client \in {k1, NoClient}
  /\ part = "page" => call'[4].kind = "none"
  /\ InOrder(Call, {c \in Call : call'[c].kind # "none"})
-----------------------------------------------------------------------------

Base == [tier |-> "free", needs |-> {}, pro |-> "pro.content", scopes |-> {}, plus |-> FALSE, recent |-> FALSE,
         capability |-> FALSE, risk |-> "read", rules |-> <<>>, dry |-> TRUE, aliases |-> {}]
Critical == <<[to |-> "critical", key |-> "none"]>>
Plans == {[Base EXCEPT !.tier = t, !.needs = e, !.pro = p, !.scopes = s] :
            t \in Tier, e \in {{}, {"pro.seo_advanced"}, {"agency.team"}}, p \in {"pro.content", "pro.seo_advanced"},
            s \in SUBSET Scope}
Risks == {[Base EXCEPT !.risk = r] : r \in P!Risk}
Platforms == {[Base EXCEPT !.plus = a, !.recent = b, !.capability = x, !.risk = r] : a, b, x \in BOOLEAN, r \in P!Risk}
OneTool(S) == {n :> d : n \in {"a", "c"}, d \in S}
AliasedTools == {[n \in {"a", "c"} |-> [Base EXCEPT !.aliases = as[n]]] : as \in [{"a", "c"} -> {{}, {"b"}}]}
CalledTools == {"a" :> [Base EXCEPT !.risk = "critical", !.rules = Critical] @@ "c" :> [Base EXCEPT !.rules = Critical]}
TheCatalogs == OneTool(Plans) \cup OneTool(Platforms) \cup AliasedTools \cup CalledTools

RegisterOne(n) == << <<n, "-">> >>
RegisterTwo(x, y) == << <<"a", "-">>, <<"c", "-">>, <<x, y>> >>
TheScripts == {RegisterOne(n) : n \in {"a", "c"}} \cup {RegisterTwo(x, y) : x \in Name, y \in {"a", "c"}}

SomeFacts == [state |-> "FREE", capability |-> TRUE, granted |-> {}, plan |-> "unknown", recent |-> TRUE,
              profile |-> "admin", off |-> {}, keys |-> {}]

SurfaceParts == {"plans", "platforms", "policies", "build", "calls", "state", "capability", "scopes"}

SurfaceIs ==
  /\ \/ /\ part = "plans" /\ defs \in OneTool(Plans)
        /\ facts \in {[SomeFacts EXCEPT !.state = s, !.granted = g] : s \in EntitlementState, g \in SUBSET Scope}
     \/ /\ part = "platforms" /\ defs \in {"a" :> d : d \in Platforms}
        /\ facts \in {[SomeFacts EXCEPT !.plan = p, !.recent = b, !.capability = x, !.profile = r] :
                        p \in {"plus", "other", "unknown"}, b, x \in BOOLEAN, r \in P!Profile}
     \/ /\ part = "policies" /\ defs \in OneTool(Risks)
        /\ facts \in {[SomeFacts EXCEPT !.profile = r, !.keys = k] : r \in P!Profile, k \in SUBSET PolicyKey}
     \/ part = "build" /\ defs \in AliasedTools /\ facts = SomeFacts
     \/ part \notin {"plans", "platforms", "policies", "build"} /\ defs \in CalledTools /\ facts = SomeFacts
  /\ CASE part \in {"plans", "platforms", "policies"} -> \E n \in DOMAIN defs : script = RegisterOne(n)
       [] part = "build"                  -> script \in TheScripts /\ Len(script) > 1
       [] OTHER                           -> script = RegisterTwo("b", "a")

\* Requests judge the tools and call none.
Judge == \E c \in Asker : AskNext(c) /\ asker'[c].at \notin {"checked", "over"}
JudgeAlone == Judge /\ \A c \in Asker : c > 1 => asker'[c].at = "idle"

SurfaceMoves ==
  \/ FillNext /\ (part # "build" => registry'.builds = 1)
  \/ part \in {"plans", "platforms", "policies", "scopes"} /\ JudgeAlone
  \/ part \in {"state", "capability"} /\ Judge
  \/ /\ part = "calls" /\ (FactsChange \/ \E c \in Asker : AskNext(c))
     /\ facts' \in {facts, [SomeFacts EXCEPT !.off = {"a"}]}
     /\ \A c \in Asker : c > 1 /\ asker'[c].at \in {"checked", "over"} => asker'[c].in.valid
  \/ /\ part = "scopes" /\ FactsChange
     /\ facts' \in {SomeFacts, [SomeFacts EXCEPT !.granted = {"write_x"}], [SomeFacts EXCEPT !.keys = PolicyKey]}
  \/ part = "state" /\ (DropSnapshot \/ Tick) /\ clock' <= 2
  \/ part = "state" /\ facts = SomeFacts /\ FactsChange /\ facts' = [SomeFacts EXCEPT !.state = "PRO_ACTIVE"]
  \/ part = "capability" /\ (StoreCapability \/ Invalidate \/ WriterFails) /\ due' <= 2
-----------------------------------------------------------------------------
\* One HTTP request of any kind, or several single ones that differ by their session.
Sent == {p \in Post : post[p].at # "unsent"}
SessionItems == {i \in Items : /\ i.version = "" /\ i.method \in {"initialize", "call"}
                               /\ i.name # t2 /\ i.id}
SessionStep(p) ==
  \/ \E s \in Session \cup {Nothing} : ReceiveSingle(p, [NoHeaders EXCEPT !.session = s])
  \/ \E i \in SessionItems : TakeLegacy(p, i)
  \/ ListenStateless(p) \/ ListenInitialize(p) \/ ListenSession(p)
  \/ Introduce(p) \/ Route(p)
PostMoves ==
  \/ part = "one" /\ \E p \in (IF Sent = {} THEN Post ELSE Sent) : PostStep(p) \/ \E s \in Session : SessionAges(s)
  \/ part = "sessions" /\ ((\E p \in Post : SessionStep(p)) \/ \E s \in Session : SessionAges(s))
-----------------------------------------------------------------------------
MCInit ==
  /\ part \in DOMAIN Mixes \cup {"one", "sessions"} \cup SurfaceParts
  /\ SurfaceIs
  /\ OAuthInit /\ McpInit /\ SurfaceInit

MCNext ==
  /\ UNCHANGED part
  /\ \/ OAuthMoves /\ UNCHANGED <<mcpVars, surfaceVars>>
     \/ PostMoves /\ UNCHANGED <<oauthVars, surfaceVars>> /\ InOrder(Post, {p \in Post : post'[p].at # "unsent"})
     \/ /\ part \in SurfaceParts /\ SurfaceMoves /\ UNCHANGED <<oauthVars, mcpVars>>
        /\ InOrder(Asker, {c \in Asker : asker'[c].at # "idle"})

MCSpec == MCInit /\ [][MCNext]_<<oauthVars, mcpVars, surfaceVars, part>>
=============================================================================
