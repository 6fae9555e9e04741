---------------------------- MODULE ToolSurface ----------------------------
(***************************************************************************)
(* What an MCP client is shown and what it may then call: the registry     *)
(* (packages/tool-registry) as createRegistry fills it, the tier policy,   *)
(* the cards and the flat list (availability.ts), the facts a request is   *)
(* judged by (auth/mcp.ts, authenticateMcp), and the ways to call a tool:  *)
(* flat, by execute-tool, by an alias, through the change tools.  The      *)
(* decision is Policy's; here is the part that comes before its risk gate. *)
(* The plan is served from a cache of its own for a minute (Ttl), the      *)
(* capabilities from the planes of the shop until they are invalidated.    *)
(* Definitions of tools are module singletons: the tier policy and late    *)
(* aliases write into them, and a second registry finds what they wrote.   *)
(***************************************************************************)
EXTENDS Naturals, Sequences, FiniteSets, SequencesExt

P == INSTANCE Policy

CONSTANTS
  Name, NoTool,   \* names of tools and aliases, and no name
  FreeTools,      \* FREE_TOOLS: the names that the Free plan has
  Catalogs,       \* what the definitions may be: functions from names of tools to Def
  Scripts,        \* what createRegistry may do: register and addAlias calls in order, as
                  \* <<name, NoTool>> and <<alias, name>>
  Asker,          \* MCP requests
  Ttl             \* how long the plan of a shop is served from the cache

VARIABLES
  defs,      \* the definitions of the tools
  script,    \* what createRegistry does
  registry,  \* the tools, the aliases and the progress of the registry that is filled
  first,     \* history: the first registry that was ready
  facts,     \* the shop and the credential as the tables and Shopify have them
  clock,     \* the server's clock
  past,      \* history: the plans that the shop had, and when
  snapshot,  \* the cached plan of the shop (FreemiusEntitlementProvider.cache)
  planes,    \* the cached capabilities (planesCache), and history: whether they may outlive a change
  due,       \* writers that have changed a capability and not yet invalidated the planes
  approval,  \* whether the approval token of the clients is unused
  asker      \* each request: the facts it has read, what it asked and what came of it

shopVars == <<facts, clock, past, due>>
cacheVars == <<snapshot, planes>>
surfaceVars == <<defs, script, registry, first, shopVars, cacheVars, approval, asker>>

Tier == {"free", "pro", "agency"}
\* The entitlements that tell states apart: what Free has, what is kept in the grace window,
\* the rest of Pro, and Agency's.
Entitlement == {"free.core", "pro.seo_advanced", "pro.content", "agency.team"}
IsPro(e) == e \in {"pro.seo_advanced", "pro.content"}
Scope == {"read_x", "write_x"}
Def == [tier : Tier, needs : SUBSET Entitlement, pro : {"pro.seo_advanced", "pro.content"},
        scopes : SUBSET Scope, plus : BOOLEAN, recent : BOOLEAN, capability : BOOLEAN,
        risk : P!Risk, rules : Seq([to : P!Risk, key : {P!NoKey}]), dry : BOOLEAN, aliases : SUBSET Name]

ASSUME SurfaceAssumption ==
  /\ NoTool \notin Name /\ FreeTools \subseteq Name /\ Ttl \in Nat \ {0}
  /\ \A d \in Catalogs : DOMAIN d \subseteq Name /\ d \in [DOMAIN d -> Def]
  /\ Scripts \subseteq Seq(Name \X (Name \cup {NoTool}))

EntitlementState == {"FREE", "TRIAL", "PRO_ACTIVE", "PRO_GRACE", "AGENCY_ACTIVE"}
\* The keys that a credential's policy may set to false, besides a tool's own (no rule of a tool
\* names another).
PolicyKey == {"theme.publish", "delete"}
Facts == [state : EntitlementState, capability : BOOLEAN, granted : SUBSET Scope,
          plan : {"plus", "other", "unknown"}, recent : BOOLEAN, profile : P!Profile, off : SUBSET Name,
          keys : SUBSET PolicyKey]

Past == EntitlementState \X Nat
Snapshot == [held : BOOLEAN, state : EntitlementState, until : Nat]
NoSnapshot == [held |-> FALSE, state |-> "FREE", until |-> 0]
Planes == [held : BOOLEAN, capability : BOOLEAN, late : BOOLEAN]
NoPlanes == [held |-> FALSE, capability |-> FALSE, late |-> FALSE]

Input == [valid : BOOLEAN, escalates : BOOLEAN, confirm : BOOLEAN, approval : BOOLEAN]
NoInput == [valid |-> FALSE, escalates |-> FALSE, confirm |-> FALSE, approval |-> FALSE]

\* now is the time at which the plan was looked up, old whether the planes were served while a
\* change of them was not yet through.
NotAsked == [at |-> "idle", f |-> <<>>, seen |-> {}, now |-> 0, old |-> FALSE, name |-> NoTool, in |-> NoInput,
             said |-> FALSE, ran |-> NoTool, paid |-> FALSE]

\* Where a request stands while it reads its facts: at each cache, behind the miss, and with the
\* value that it is going to keep.
Reading == {"entitlements", "row", "entitled", "planes", "stored", "probed", "scopes"}

SurfaceTypeOK ==
  /\ \A n \in DOMAIN defs : /\ n \in Name /\ defs[n].tier \in Tier /\ defs[n].needs \subseteq Entitlement
                            /\ defs[n].aliases \subseteq Name
  /\ registry.tools \subseteq DOMAIN defs /\ registry.aliases \in [Name -> Name \cup {NoTool}]
  /\ registry.next \in 1 .. Len(script) + 1 /\ registry.state \in {"filling", "ready", "failed"}
  /\ facts \in Facts /\ approval \in BOOLEAN
  /\ clock \in Nat /\ due \in Nat /\ snapshot \in Snapshot /\ planes \in Planes
  /\ \A c \in Asker : /\ asker[c].at \in Reading \cup {"idle", "ready", "checked", "over"}
                      /\ asker[c].at \in {"ready", "checked", "over"} => asker[c].f \in Facts
                      /\ asker[c].ran \in registry.tools \cup {NoTool}

Empty == [tools |-> {}, aliases |-> [n \in Name |-> NoTool], next |-> 1, state |-> "filling", builds |-> 1]

\* createRegistry registers definitions that there are.
SurfaceInit ==
  /\ defs \in Catalogs /\ script \in Scripts
  /\ \A k \in DOMAIN script : script[k][2] = NoTool => script[k][1] \in DOMAIN defs
  /\ facts \in Facts /\ approval = TRUE
  /\ clock = 0 /\ past = {<<facts.state, 0>>} /\ due = 0
  /\ snapshot = NoSnapshot /\ planes = NoPlanes
  /\ registry = Empty /\ first = Empty /\ asker = [c \in Asker |-> NotAsked]
-----------------------------------------------------------------------------
(* Filling the registry *)

\* assertNoCollision
Collides(n) == n \in registry.tools \/ registry.aliases[n] # NoTool

Served == <<shopVars, cacheVars, approval, asker>>

Fail == registry' = [registry EXCEPT !.state = "failed"] /\ UNCHANGED <<defs, script, first, Served>>
Filling == registry.state = "filling" /\ registry.next <= Len(script)
Op == script[registry.next]

Register ==
  /\ Filling /\ Op[2] = NoTool
  /\ LET n == Op[1]  as == defs[n].aliases IN
     IF Collides(n) \/ \E a \in as : Collides(a) THEN Fail
     ELSE /\ registry' = [registry EXCEPT !.next = @ + 1, !.tools = @ \cup {n},
                                          !.aliases = [a \in Name |-> IF a \in as THEN n ELSE @[a]]]
          /\ UNCHANGED <<defs, script, first, Served>>

AliasIsThere(a, n) == registry.aliases[a] = n

\* addAlias: the alias is written into the definition too.
AddAlias ==
  /\ Filling /\ Op[2] # NoTool
  /\ LET a == Op[1]  n == Op[2] IN
     IF n \notin registry.tools \/ (~AliasIsThere(a, n) /\ Collides(a)) THEN Fail
     ELSE /\ registry' = [registry EXCEPT !.next = @ + 1, !.aliases[a] = n]
          /\ defs' = [defs EXCEPT ![n].aliases = @ \cup (IF AliasIsThere(a, n) THEN {} ELSE {a})]
          /\ UNCHANGED <<script, first, Served>>

Tiered(n, d) ==
  IF d.tier = "agency" THEN d
  ELSE IF n \in FreeTools THEN [d EXCEPT !.tier = "free", !.needs = {e \in @ : ~IsPro(e)}]
  ELSE [d EXCEPT !.tier = "pro", !.needs = IF \E e \in @ : IsPro(e) THEN @ ELSE @ \cup {d.pro}]

ApplyTierPolicy ==
  /\ registry.state = "filling" /\ registry.next > Len(script)
  /\ defs' = [n \in DOMAIN defs |-> IF n \in registry.tools THEN Tiered(n, defs[n]) ELSE defs[n]]
  /\ registry' = [registry EXCEPT !.state = "ready"]
  /\ first' = IF registry.builds = 1 THEN [registry EXCEPT !.state = "ready"] ELSE first
  /\ UNCHANGED <<script, Served>>

\* Another container in the same process builds its own registry.
BuildAgain ==
  /\ registry.state = "ready" /\ registry.builds < 2 /\ \A c \in Asker : asker[c].at = "idle"
  /\ registry' = [Empty EXCEPT !.builds = 2]
  /\ UNCHANGED <<defs, script, first, Served>>

\* ToolRegistry.get
Get(name) == LET n == IF registry.aliases[name] # NoTool THEN registry.aliases[name] ELSE name
             IN  IF n \in registry.tools THEN n ELSE NoTool
-----------------------------------------------------------------------------
(* What the client is told *)

TierOf(state) == CASE state = "AGENCY_ACTIVE" -> "agency"
                   [] state \in {"PRO_ACTIVE", "PRO_GRACE", "TRIAL"} -> "pro"
                   [] OTHER -> "free"
EntitlementsOf(state) == CASE state \in {"TRIAL", "PRO_ACTIVE"} -> {"pro.seo_advanced", "pro.content"}
                           [] state = "PRO_GRACE"     -> {"pro.seo_advanced"}
                           [] state = "AGENCY_ACTIVE" -> Entitlement \ {"free.core"}
                           [] OTHER                   -> {"free.core"}

Unsupported(d, f) == (d.plus /\ f.plan = "other") \/ (d.recent /\ ~f.recent)

\* cardFor: whether the card says that the tool is available.
Available(n, f) ==
  LET d == defs[n] IN
  /\ d.needs \subseteq EntitlementsOf(f.state)
  /\ d.tier = "agency" => TierOf(f.state) = "agency"
  /\ d.tier = "pro" => TierOf(f.state) # "free"
  /\ d.scopes \subseteq f.granted
  /\ ~Unsupported(d, f)
  /\ d.capability => f.capability
  /\ n \notin f.off
  /\ P!RiskAllowed(f.profile, d.risk, FALSE)

\* listForMcp, flat; discover-tools shows a card for each tool, available or not.
FlatList(f) == {n \in registry.tools : Available(n, f)}
-----------------------------------------------------------------------------
(* What happens when it calls *)

EffectiveName(name) == Get(name)

Held(scope, granted) == scope \in granted \/ (scope = "read_x" /\ "write_x" \in granted)

\* What evaluate finds before its risk gate.
Gate(name, f, in) ==
  LET n == Get(name) IN
  IF n = NoTool THEN "unknown_tool"
  ELSE LET d == defs[n] IN
  CASE ~in.valid                                 -> "invalid_input"
    [] ~(d.needs \subseteq EntitlementsOf(f.state)) -> "entitlement"
    [] \E s \in d.scopes : ~Held(s, f.granted)   -> "scope"
    [] Unsupported(d, f)                         -> "platform"
    [] d.capability /\ ~f.capability             -> "capability"
    [] EffectiveName(name) \in f.off             -> "disabled"
    [] OTHER                                     -> "open"

RequestOf(name, f, in) ==
  LET n == Get(name) IN
  [gate |-> Gate(name, f, in), profile |-> f.profile, rollback |-> FALSE,
   floor |-> IF n = NoTool THEN "read" ELSE defs[n].risk,
   rules |-> IF n # NoTool /\ in.escalates THEN defs[n].rules ELSE <<>>,
   off |-> f.keys, confirm |-> in.confirm, bulk |-> 0, max |-> 0]

Cleared(name, f, in) == Gate(name, f, in) = "open" /\ P!Cleared(RequestOf(name, f, in))
NeedsToken(name, f, in) == P!NeedsToken(RequestOf(name, f, in))
-----------------------------------------------------------------------------
(* A request: authenticateMcp reads the facts one after another *)

Turn(c, r) == asker' = [asker EXCEPT ![c] = r]
Others == UNCHANGED <<defs, script, registry, first, shopVars>>

\* The shop's row and the credential: the plan of the store, the profile, the policy and the
\* disabled tools.
Ask(c) ==
  /\ registry.state = "ready" /\ asker[c].at = "idle"
  /\ Turn(c, [NotAsked EXCEPT !.at = "entitlements", !.f = facts, !.seen = {facts}])
  /\ Others /\ UNCHANGED <<cacheVars, approval>>

\* getState: a snapshot that has not expired is served; otherwise the row is read.
FindSnapshot(c) ==
  /\ asker[c].at = "entitlements"
  /\ Turn(c, IF snapshot.held /\ snapshot.until > clock
             THEN [asker[c] EXCEPT !.at = "planes", !.now = clock, !.f.state = snapshot.state]
             ELSE [asker[c] EXCEPT !.at = "row", !.now = clock])
  /\ Others /\ UNCHANGED <<cacheVars, approval>>

ReadEntitlements(c) ==
  /\ asker[c].at = "row"
  /\ Turn(c, [asker[c] EXCEPT !.at = "entitled", !.f.state = facts.state])
  /\ Others /\ UNCHANGED <<cacheVars, approval>>

\* Fault: the minute begins when the row is there.
ExpiryOfRow(c) == clock + Ttl

\* The minute begins when the snapshot was looked for.
Expiry(c) == asker[c].now + Ttl

KeepSnapshot(c) ==
  /\ asker[c].at = "entitled"
  /\ snapshot' = [held |-> TRUE, state |-> asker[c].f.state, until |-> Expiry(c)]
  /\ Turn(c, [asker[c] EXCEPT !.at = "planes"])
  /\ Others /\ UNCHANGED <<planes, approval>>

\* planesFor: what is cached is served, however old; otherwise the secrets and the capabilities
\* that the last probe stored are read.
FindPlanes(c) ==
  /\ asker[c].at = "planes"
  /\ Turn(c, IF planes.held
             THEN [asker[c] EXCEPT !.at = "scopes", !.f.capability = planes.capability,
                                   !.old = due > 0 \/ planes.late]
             ELSE [asker[c] EXCEPT !.at = "stored"])
  /\ Others /\ UNCHANGED <<cacheVars, approval>>

ReadPlanes(c) ==
  /\ asker[c].at = "stored"
  /\ Turn(c, [asker[c] EXCEPT !.at = "probed", !.f.capability = facts.capability])
  /\ Others /\ UNCHANGED <<cacheVars, approval>>

KeepPlanes(c) ==
  /\ asker[c].at = "probed"
  /\ planes' = [held |-> TRUE, capability |-> asker[c].f.capability,
                late |-> asker[c].f.capability # facts.capability]
  /\ Turn(c, [asker[c] EXCEPT !.at = "scopes"])
  /\ Others /\ UNCHANGED <<snapshot, approval>>

Expanded(granted) == granted \cup (IF "write_x" \in granted THEN {"read_x"} ELSE {})

\* grantedScopesFor, which expands write scopes into read scopes.
ScopesNow == Expanded(facts.granted)

ReadScopes(c) ==
  /\ asker[c].at = "scopes"
  /\ Turn(c, [asker[c] EXCEPT !.at = "ready", !.f.granted = ScopesNow])
  /\ Others /\ UNCHANGED <<cacheVars, approval>>

Uses(c, name, in) == Cleared(name, asker[c].f, in) /\ NeedsToken(name, asker[c].f, in) /\ in.approval /\ approval
MayRun(c, name, in) == Cleared(name, asker[c].f, in) /\ (NeedsToken(name, asker[c].f, in) => in.approval /\ approval)

\* executeTool up to its handler.
Run(c, name, in) ==
  /\ approval' = (approval /\ ~Uses(c, name, in))
  /\ Turn(c, [asker[c] EXCEPT !.at = "over", !.name = name, !.in = in, !.paid = Uses(c, name, in),
                              !.ran = IF MayRun(c, name, in) THEN Get(name) ELSE NoTool])
  /\ Others /\ UNCHANGED cacheVars

\* callTool: by its own name in a flat surface, or by execute-tool.
Execute(c, name, in) == asker[c].at = "ready" /\ Run(c, name, in)

\* commerce.change.plan runs the tool with dryRun, if it writes and has such a mode.
Plan(c, name, in) ==
  /\ asker[c].at = "ready" /\ Get(name) # NoTool /\ defs[Get(name)].risk # "read" /\ defs[Get(name)].dry
  /\ Run(c, Get(name), in)

AfterCheck(c, name, in) == approval

\* commerce.change.validate (validateTool): all of evaluate, with a token that is never asked about.
Validate(c, name, in) ==
  /\ asker[c].at = "ready" /\ approval' = AfterCheck(c, name, in)
  /\ Turn(c, [asker[c] EXCEPT !.at = "checked", !.name = name, !.in = in,
                !.said = Cleared(name, asker[c].f, in) /\ (NeedsToken(name, asker[c].f, in) => in.approval)])
  /\ Others /\ UNCHANGED cacheVars

\* commerce.change.apply, with the tool and the input that were validated.
Apply(c) == asker[c].at = "checked" /\ Run(c, asker[c].name, asker[c].in)

\* The requests that are reading their facts see the shop as it has become.
Witnessed == asker' = [c \in Asker |-> IF asker[c].at \in Reading
                                       THEN [asker[c] EXCEPT !.seen = @ \cup {facts'}] ELSE asker[c]]
Still == UNCHANGED <<defs, script, registry, first, approval>>

\* A plan lapses or starts, scopes are granted or withdrawn, the merchant disables or enables a
\* tool, the credential's policy is set.
FactsChange ==
  /\ \/ \E s \in EntitlementState : facts' = [facts EXCEPT !.state = s]
     \/ \E g \in SUBSET Scope : facts' = [facts EXCEPT !.granted = g]
     \/ \E n \in Name : facts' = [facts EXCEPT !.off = IF n \in @ THEN @ \ {n} ELSE @ \cup {n}]
     \/ \E k \in SUBSET PolicyKey : facts' = [facts EXCEPT !.keys = k]
  /\ past' = past \cup {<<facts'.state, clock>>} /\ Witnessed
  /\ Still /\ UNCHANGED <<clock, due, cacheVars>>

Tick ==
  /\ clock' = clock + 1 /\ past' = past \cup {<<facts.state, clock + 1>>}
  /\ Still /\ UNCHANGED <<facts, due, cacheVars, asker>>

\* FreemiusEntitlementProvider.invalidate, after a webhook or an activation.
DropSnapshot == snapshot' = NoSnapshot /\ Still /\ UNCHANGED <<shopVars, planes, asker>>

\* A probe stores what it found, or a secret is stored or deleted: the planes are invalidated after.
StoreCapability ==
  /\ facts' = [facts EXCEPT !.capability = ~@] /\ due' = due + 1 /\ Witnessed
  /\ Still /\ UNCHANGED <<clock, past, cacheVars>>

\* ShopService.invalidate, by a writer or by a webhook that changed nothing here.
Invalidate ==
  /\ planes' = NoPlanes /\ due' \in {due - 1, due} \cap Nat
  /\ Still /\ UNCHANGED <<facts, clock, past, snapshot, asker>>

\* A statement of the writer fails after the change (the webhook's handler is caught), and it
\* does not invalidate.
WriterFails ==
  /\ due > 0 /\ due' = due - 1 /\ planes' = [planes EXCEPT !.late = planes.held]
  /\ Still /\ UNCHANGED <<facts, clock, past, snapshot, asker>>

ShopNext == FactsChange \/ Tick \/ DropSnapshot \/ StoreCapability \/ Invalidate \/ WriterFails

FillNext == Register \/ AddAlias \/ ApplyTierPolicy \/ BuildAgain

AskNext(c) ==
  \/ Ask(c) \/ ReadScopes(c) \/ Apply(c)
  \/ FindSnapshot(c) \/ ReadEntitlements(c) \/ KeepSnapshot(c)
  \/ FindPlanes(c) \/ ReadPlanes(c) \/ KeepPlanes(c)
  \/ \E n \in Name, in \in Input : Execute(c, n, in) \/ Plan(c, n, in) \/ Validate(c, n, in)

SurfaceNext == FillNext \/ (\E c \in Asker : AskNext(c)) \/ ShopNext

SurfaceSpec == SurfaceInit /\ [][SurfaceNext]_surfaceVars
-----------------------------------------------------------------------------
(* Properties *)

\* An alias is never the name of another tool and always leads to a tool, and the second
\* registry of a process, filled from definitions that the first one wrote into, is filled
\* without a collision and has the same tools and aliases.
RegistryIsClear ==
  /\ \A a \in Name : registry.aliases[a] # NoTool => /\ registry.aliases[a] \in registry.tools
                                                     /\ a \in registry.tools => registry.aliases[a] = a
  /\ registry.builds = 2 => /\ registry.state # "failed"
                            /\ registry.state = "ready" => registry.tools = first.tools /\ registry.aliases = first.aliases

Judging(c) == asker[c].at = "ready"
Plain == [valid |-> TRUE, escalates |-> FALSE, confirm |-> TRUE, approval |-> TRUE]

\* The policy of the credential forbids the risk of the tool (its keys theme.publish and delete).
PolicyDenies(n, f) == \/ defs[n].risk = "publish" /\ "theme.publish" \in f.keys
                      \/ defs[n].risk = "destructive" /\ "delete" \in f.keys

\* A card says that a tool is available exactly when a call with plain input, confirmed and
\* with a token, passes: two implementations, of tiers, scopes and profiles, that look at
\* different fields of the definition.  There are two exceptions: a card does not look at the
\* credential's policy for a class of risk, and for a tool of the Agency tier that names no
\* entitlement of Agency's own it asks for the tier, which evaluate does not.
CardsAgreeWithGate ==
  \A c \in Asker : Judging(c) =>
    \A n \in registry.tools :
      /\ n \in FlatList(asker[c].f) => Cleared(n, asker[c].f, Plain) \/ PolicyDenies(n, asker[c].f)
      /\ Cleared(n, asker[c].f, Plain) /\ n \notin FlatList(asker[c].f)
         => defs[n].tier = "agency" /\ "agency.team" \notin defs[n].needs

\* A tool that the merchant has disabled does not run, under whatever name it is called and
\* whichever way.
DisabledStaysOff == \A c \in Asker : asker[c].ran # NoTool => asker[c].ran \notin asker[c].f.off

\* Cached planes that are not what is stored are about to be invalidated, or they were cached by
\* a request that had read them before an invalidate, or their writer failed before it.
PlanesAreCurrent == planes.held /\ planes.capability # facts.capability => due > 0 \/ planes.late

\* The facts that a request is judged by are not older than the code allows: the shop had the plan
\* less than Ttl before it was looked up, or has had it since; the granted scopes were true since
\* the request came in, and so were the capabilities, unless the planes that were served were
\* waiting for an invalidate or had missed one.
FactsWereTrue ==
  \A c \in Asker : Judging(c) =>
    /\ \E p \in past : p[1] = asker[c].f.state /\ p[2] + Ttl > asker[c].now
    /\ asker[c].old \/ \E g \in asker[c].seen : g.capability = asker[c].f.capability
    /\ \E g \in asker[c].seen : Expanded(g.granted) = asker[c].f.granted

\* What a request was told would run does run when it is applied, unless another request has
\* used the token.
ValidatedIsApplied ==
  \A c \in Asker :
    /\ asker[c].at = "over" /\ asker[c].said /\ asker[c].ran = NoTool
    => \E d \in Asker \ {c} : asker[d].paid

\* What a client is shown of the tools is what it may run (ToolRegistry, cardFor, evaluate).
SurfaceSafe ==
  /\ SurfaceTypeOK
  /\ RegistryIsClear
  /\ CardsAgreeWithGate
  /\ DisabledStaysOff
  /\ PlanesAreCurrent
  /\ FactsWereTrue
  /\ ValidatedIsApplied
=============================================================================
