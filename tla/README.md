# A verification development of shopify-mcp

shopify-mcp is an MCP server through which language models work on a Shopify
store: they edit themes, change catalogues, run bulk updates, and everything they
do passes a policy, is written to a ledger, and can be rolled back. Around that
core stand accounts and billing, OAuth, shops and their webhooks, memories,
skills, support, and a web admin.

The server is one Node process over SQLite. Kysely runs one statement per call and
the code opens no transaction, so **every `await` is a point where other requests
run, and a crash can fall between any two statements**. Shopify and the merchant
change the store at any time. The modules are written at that grain: a request is
a process with a program counter; a statement or a remote call is a step.

`PROJECT.json` maps each definition to the lines it stands for and lists the runs,
the hazards at their lines, the theorems and, for every checked property, a mutated
definition that breaks it. A mutated operator stands right before its original and
is marked `Fault`.

## The parts of the system and the modules

| component | state | modules | hard about it | correct when |
|---|---|---|---|---|
| policy engine (`packages/policy-engine`) | none, but consumes tokens | `Policy`, `ToolPipeline` | order of the questions, escalation | no call runs beyond its profile |
| approvals (`ledger/src/approvals.ts`) | `approvals` | `OneShotApproval` (abstract), `ToolPipeline` | select then update, expiry | one call per token, the approved one |
| execution and ledger (`mcp/execute.ts`, `ledger/src/ledger.ts`) | `operations` | `ToolPipeline` | a timeout with a live handler, a crash | written ahead; answer equals row |
| rollback (`ledger/src/rollback.ts`) | ledger rows, the store | `ThemeRollback` | edits between verify and write, partial failure | overwrites only what it undoes, marks truthfully |
| bulk runner (`shopify-admin/src/bulk-runner.ts`) | checkpoint; Shopify's bulk operation | `BulkRunner`, `BulkOperations` | retries, lost answers, death, an older checkpoint that lands last, results of another run | no replay without reason; one report per item |
| Admin client (`shopify-admin/src/client.ts`) | projected cost bucket | `AdminCalls` | shared budget, ambiguous failures | never repeats an executed mutation |
| Admin operations and demo store (`shopify-admin/src/operations`, `fake*.ts`) | tables in memory | `DemoCatalog`, `DemoContent`, `DemoFields`, `DemoOrders`, `DemoMarkets` | cursors over rows that go, long sequences of calls | its tables agree, and it takes no step Shopify would not |
| seats and entitlements (`accounts/service.ts`, `shopify/billing.ts`, `entitlement-freemius`) | `users`, `user_shops`, `entitlements` | `Entitlements` | three writers of one row | a paid shop has a payer; each writer minds its rows |
| Freemius events, entitlement cache | `freemius_events`, map with a time to live | `FreemiusEvents` | overlapping deliveries; filled after an invalidation | an event counts once; stale for no longer than an entry lives |
| login (`accounts/service.ts`, `api/account.ts`) | `magic_links`, `sessions`, `users` | `Login` | count then create, look then create | a link lets one visit in |
| OAuth and credentials (`auth/oauth-as.ts`, `auth/mcp.ts`) | codes, tokens, credentials | `OAuth` | look, then use up without asking again | a token acts for whom it was given |
| shops, planes, webhooks (`auth/shopify.ts`, `webhooks.ts`, `shops/service.ts`) | `shops`, secrets, planes cache, dedupe keys | `ShopLifecycle`, `ShopSettings` | late webhooks, a cache filled after its invalidation | no dead token stays; it heals |
| snapshot store (`ledger/src/snapshots.ts`) | blobs, rows | `Snapshots` | collection races creation | a listed snapshot is readable |
| working theme (`shopify-theme/src`) | themes in Shopify | `WorkingTheme` | check then create at a cap, half copies | the live theme is never written |
| theme data (`shopify-theme/src/settings-merge.ts`) | none | `SettingsMerge` | recursion, limits | apps' parts come through |
| theme reads (`tools/src/theme-loader.ts`, `tools/theme.ts`) | file-set cache | `ThemeReads` | fingerprint before the files | a cached set is what was listed |
| connections (`mcp/deps.ts`, `ConnectionRepo`) | counters in memory, `connections` | `Connections` | read-modify-write, overlapping flushes | no request is lost or counted twice |
| memories (`MemoryRepo`) | `memories`, `memory_versions` | `Memories` | several statements, retention | acknowledged saves are restorable |
| manifests, skills (`DesignManifestRepo`, `SkillRepo`) | rows, one active | `DesignManifests` | max + 1, two updates, read back | one active; off is off |
| tickets, posts, audits (`accounts/tickets.ts`, `api/posts.ts`, `visual-audits.ts`) | rows | `SupportDesk` | two tables, retention | a ticket has its message; a report is true |
| MCP protocol (`packages/mcp-protocol`) | legacy sessions | `McpRequests` | two protocol versions, batches, headers | every request answered once, as its headers say |
| tool registry, tiers, `authenticateMcp` (`packages/tool-registry`, `packages/tools`) | registry, definitions, disabled tools | `ToolSurface` | singletons, aliases, facts that change, a cached plan and cached planes | what is listed is what may run; no fact older than its cache allows |

How they interact: the MCP route (`McpRequests`) resolves the credential and the
shop (`OAuth`, `ToolSurface`), counts the client (`Connections`) and hands each tool
call to `executeTool` (`ToolPipeline`), which reads the entitlement cache
(`FreemiusEvents`) and the planes cache (`ShopLifecycle`), asks the policy
(`Policy`), and gives the handler an Admin client (`AdminCalls`), a theme engine
(`WorkingTheme`, `ThemeReads`) and the ledger. A rollback (`ThemeRollback`) is itself
a tool call, with a ledger row of its own; a tool that changes many resources goes
through `BulkRunner` or `BulkOperations`. Webhooks of Shopify and Freemius write
shops and entitlements and then invalidate the caches. The dashboard and the
embedded admin write the same tables through their HTTP routes. Nothing but the
database and the store is shared across a restart.

Each module's header names its files and says what a process, a name or a tick
stands for. How state and actions correspond to the code, for the central ones:

* **ToolPipeline.** A call walks through `policy`, `consume`, `allowed`, `begun`,
  `handler`, `finish`, `done`. `consume` is a select (`SelectApproval`,
  `SelectRejects`) and a guarded update (`ConsumeApproval`, `ConsumeRejects`). A
  handler is anything that may write or not, succeed, fail or never return (the apply
  of a plan that only reads is ok with nothing written), and nothing cancels it when
  the timer wins: `HandlerWrites` stays enabled after `TimeOut` and
  after the answer. `Begin` writes a row only when the call is audited. `Crash` loses
  what is in flight, keeps the tables, and nothing closes a pending row afterwards.
* **ThemeRollback.** The strategies `files` (before-images), `snapshot`, and inverse
  operations by what `commerceInverse` does to a kind: `resource` (products,
  collections, pages, articles, menus), `metafield`, `redirect` (and all that is never
  looked at), `order` and `customer`. `Verify` looks at every file before `Restore`
  writes any; an inverse verifies and writes change by change, and looks only at the
  kinds in `LookedAt`; `snapshot` writes all without looking. `Undone` says what a
  change leaves: a deleted resource is made anew (an article as a draft, a collection
  without handle or products, with another id) and a field that was null stays.
  `FinishRow` and `MarkOriginal` are the two updates at the end, `FailRow` the catch,
  which a failing update reaches too (`EngineThrows`).
* **BulkRunner.** `Send` puts a request out and decides, before the client learns
  anything, whether Shopify executed it. The client repeats what was not executed,
  the runner what the client calls retryable; nothing bounds the faults. `Store` copies
  the checkpoint and `Land` writes it, so an older copy may land last (`overwritten`).
  `BeginRun` calls `runMutations` again with what is stored, after a death and after a
  return.
* **BulkOperations.** Between `StartOperation` and the stored checkpoint an attempt may
  end: the answer of the start is lost after Shopify took the operation, a poll times
  out, a call throws (`AttemptThrows`), the process dies. `unsaved` notes whether
  Shopify had the operation then. The run may be started again.
* **Entitlements.** `link`, `unlink`, `seat`, `unseat`, `pay`, `lapse`, `refund`,
  `deactivate` and the billing `sync`, each read and write of it a step, over the
  entitlement row of each shop. `seen` is the row as a call read it. `SpecAlone` takes
  one call at a time; `Spec` lets them overlap.
* **ShopLifecycle.** A token is named by the installation that issued it, or is the one
  of the merchant's own app, pasted through `token-connect.ts`; a task is one request
  or webhook delivery. `Throws` is a statement that fails: a webhook is answered ok
  and stays marked as seen. The histories `crossed`, `lost` and `outdated` record what
  an answer overtook and what was cut off.
* **ToolSurface.** `FindSnapshot`, `ReadEntitlements` and `KeepSnapshot` are the cached
  plan (`Ttl`), `FindPlanes`, `ReadPlanes` and `KeepPlanes` the cached capabilities,
  which `StoreCapability` makes outdated until its `Invalidate`. `keys` are the flags of
  a credential's policy that deny a class of risk.
* **Memories, Connections.** Saves, deletes and restores, flushes and sweeps, one
  action per statement; the content of a version is the call that wrote it, a count
  is split by where each request waits.

## What is checked

Parts that share no state are checked by one run: its MC module has a variable
(`mix`, `part`, `focus`) that says which part a behaviour is about. A property named
`...Safe` is the conjunction of a component's type invariant and its named parts.

| run | the parts and their instance | what it shows |
|---|---|---|
| `execution` | `ToolPipeline`: 2 calls, 2 tokens, 2 plans and 5 requests, or 1 call of each of 17 kinds; 1 crash, clock to 2. `BulkRunner`: 2 items, 2 workers, 2 attempts, 1 retry, any faults, 3 starts, 1 death | a token lets one call through, with its plan, and is not wasted; changes are written ahead and booked as they were; no call beyond its profile; `ToolPipeline` implements `OneShotApproval`; bulk reports are true and mutations run twice only with an excuse |
| `liveness` | one call, one rollback, one bulk item, one Admin call, one event; deaths and restarts | each comes to an end (`EveryCallEnds`, `RollbackEnds`, `RunEnds`, `CallEnds`, `EventsAreRecorded`) |
| `rollback` | 1 operation, 2 files, 2 contents, 1 edit: 2 rollbacks at once of `files` or `resource`, or 1 of any strategy with 1 death | a refused rollback wrote nothing, a mark has a success, a clean success restored or made anew, no blind overwrite of what the code compares |
| `entitlements` | 1 account, 2 shops, up to 2 seats, one call at a time; 2 calls about one shop that overlap at its row; 1 event, 2 writers, 1 reader, time to 2, 1 restart | no shop on a plan nobody pays (one call at a time); a row is taken from its payer only by the payer, a licence, or a call that was overtaken; events count once; outdated plans end in time |
| `access` | `Login`: 3 visits, 1 address; `ShopLifecycle`: 2 tasks, 2 credentials, 2 installations, statements that throw, or 1 installation and a pasted token; `ShopSettings`: 3 writers | links are one-shot (refinement), locks and limits count what happened; planes are those of the stored token, and the token that of the current installation, unless something crossed or was cut off; credentials end with it; lost settings have an overlap |
| `shops_heals` | `ShopLifecycle`, 2 tasks, fairness | an installed shop whose app is opened gets a working token (`Heals`) |
| `records` | `Connections`, `Memories` (3 calls, history of 2), skills, manifests, tickets, posts, audits (3 calls each), `ThemeReads` (2 readers) | requests are counted once; acknowledged saves are in the history; one manifest active; off is off; replies open tickets; retentions hold; cached theme files are those listed |
| `store` | `AdminCalls` (2 calls), `BulkOperations` (2 runs of 2 lines, each started again once), the demo store table by table, listings with rows that share an id | a mutation runs once, a rate-limited call did nothing; a line reported good ran, and runs twice only after an attempt that ended unsaved; tables agree and no handler takes a step Shopify would refuse |
| `themes` | `WorkingTheme` (2 callers, both engines), `Snapshots` (2), `SettingsMerge` over bounded trees | one working theme, within the cap, complete; the live theme is written only if published since; listed snapshots are whole and readable; merges keep leaves and apps |
| `clients` | `OAuth` (4 requests, 2 clients, 2 shops), `McpRequests` (one request of every kind, three with sessions), `ToolSurface` (every kind of tool, 2 requests, caches) | tokens act for whom they were given; answers match a batch, headers match what runs; cards agree with the gate but for what a credential's policy forbids, disabled tools stay off, and a request is judged by no plan or capability older than the caches allow |

Two runs show a statement of the repository about itself failing:

| run | the statement | what happens |
|---|---|---|
| `bulk_replay` | "must never be replayed on an ambiguous failure" (client.ts:102) | the client keeps to it; the runner above it sends the mutation again after a 5xx (bulk-runner.ts:169) |
| `entitlements_billing` | "Never downgrades a row owned by an account seat or a Freemius licence" (billing.ts:60) | the row was read before Shopify was asked, and is overwritten after |

Most properties of the shape "... only where two requests overlapped" have a reason
in the code: look and update are two statements, and the property says which
overlap it takes to lose what, and that nothing else loses it.

### Bounds

Two processes show every race between two statements. Three saves of a memory with
a history of two overflow it and let two retentions meet; three audits or manifests
do the same. Two tokens and two plans tell the right one from the wrong one. Two
contents and `Missing` distinguish before, after and edited. `MaxFaults` of 1
(`WorkingTheme`) cuts one caller's work short while the other goes on. Three calls of `runMutations` are one
that leaves an old checkpoint, one that replays from it and one that replays again; its
faults are not bounded. A plan that lives one tick and a clock to 2 let a cached plan
expire while a request holds it; two writers of capabilities (`due`) let one invalidate
overtake the other. Two shops
against one or two seats give both too few and enough. Two installations let a late
webhook of the first meet the second. Two names of one client, counted apart and
stored in one row, make two flushes meet. One crash suffices for properties of the
tables, since a second finds no kind of state the first did not; the proofs do
without this bound, as without the others. Symmetry is used only in runs of safety
properties over sets that no definition tells apart.

`CHECK_DEADLOCK FALSE` is set where the system may stop: bounded processes are used
up. `entitlements_billing` reuses its call slots and is checked for deadlock.

### Fairness

* `EveryCallEnds`: the event loop runs every continuation of a received call and its
  timer fires: weak fairness of `Step(c)`; none of the handler, of issuing or of time.
* `RollbackEnds`, `RunEnds`: a rollback's or a worker's own steps go on, and Shopify
  answers or the connection drops (`Return`). Deaths are bounded, never forced; faults
  are not bounded, so that `RunEnds` rests on the retries the code counts.
* `CallEnds`: requests are answered, the client continues, and time passes for its
  sleeps; that retries are bounded is what the run shows.
* `EventsAreRecorded`: a handler's steps go on, and Freemius delivers again until it
  is told 200: strong fairness of a first look (`LookUp`), since a crash may take it
  away again and again.
* `Heals`: tasks are served and the cool-down of a failed exchange ends (weak
  fairness), restarts and failing statements stop some day, and the merchant opens the app again and again
  and Shopify's callback reaches the server (strong fairness, since either is
  disabled while other tasks hold the two task slots). Nothing is asked of webhooks.

## What is proved

Eight modules hold theorems, for every value of the constants: any number of calls,
visits, rollbacks, workers, shops, and any number of crashes where the runs allow
one. `Spec => []Inv` follows each time from an inductive invariant, named
`...Inv` in the module, by three facts: it holds initially, every action preserves
it, it implies the property. The step is one lemma per part of the invariant, with
one step per action.

| module | theorems | assumptions on the constants |
|---|---|---|
| `ToolPipelineProofs` | `Invariance`, `TypeCorrect`, `TokenLetsOneCallThrough`, `TokenServesItsPlan`, `TokenNotWasted`, `LedgerWrittenAhead`, `SuccessBooked`, `AnswerBooked`, `ProfileIsKept`, and the refinement `ApprovalsAreOneShot`; `WorkingThemeInvariance`, `WorkingThemeIsOne` | null values are not members of the sets they stand beside; requests are typed; the cap and the number of workers are at least 1 |
| `BulkRunnerProofs` | `BulkInvariance`, `BulkReportsAreTrue`, `NoReplay`; `AdminCallsInvariance`, `AdminCallsAreSafe`; `OperationsInvariance`, `OperationsReportTruly` | bounds are numbers; there is a worker; Shopify's bucket holds a call and refills; an operation has a line |
| `OAuthProofs` | `OAuthInvariance`, `AccessIsGranted`; `McpInvariance`, `RequestsAreAnsweredAsSaid`; `SurfaceInvariance`, `ShownIsWhatRuns` | null values; a catalogue gives tools definitions, a script registers names |
| `ShopProofs` | `ShopInvariance`, `ShopIsPresent`, `CredentialsEndWithTheShop`; `SettingsInvariance`, `SettingsAreKept` | one installation at least; finitely many writers |
| `LoginProofs` | `LoginInvariance`, `SigningInIsTrue`, and the refinement `LinksImplementOneShot` | null values; limits are numbers |
| `RollbackProofs` | `RollbackInvariance`, `RollbacksAreBookedTruly`, `SuccessRestores`, `LooksBeforeItWrites`; `SnapshotsInvariance`, `SnapshotsAreReadable` | null values; strategies are the ones there are; a theme has finitely many files |
| `BillingProofs` | `SeatsInvariance`, `PaidShopsHaveAPayer`, `RowsInvariance`, `RowsKeepTheirOwner`; `FreemiusInvariance`, `EventsCountOnce` | null values; finitely many shops |
| `RecordsProofs` | `MemoriesInvariance`, `MemoriesAreKept`; `ConnectionsInvariance`, `ConnectionsAreCounted`; `SkillsAreSafe`, `ManifestsAreSafe`, `DeskIsSafe`, `AuditsAreSafe`, `PostsAreSafe`, `ReadsAreSafe`, and of all six `RecordsAreSafe` | finitely many calls, names, flushes, visitors and audits; what is kept is at least 1; there is a skill and a post to name |

What each argument rests on:

* **Tokens.** That one call gets through on a token is not inductive: a granted token
  must be known to be marked consumed, and a refused call to hold none. `CallInv`
  ties a call's place to its request and token, `RowInv` its place and its handler,
  which outlives it, to its ledger row, `OutcomeInv` follows the outcome from the
  handler to the answer. In the refinement the guarded update is a `Spend`, and the
  `CHOOSE` in `Holder` is unique in both states.
* **The profile.** `ProfileContract` speaks of the highest risk any rule demands;
  `escalate` folds the rules. That the fold computes a maximum is induction over the
  length of a list, which no library theorem can be applied to here; it is done by
  hand: a least length at which a statement fails is one at which it does not.
* **Bulk runs.** A checkpoint, saved or on its way, is `Sound`: it says of an item no
  more than happened. Every second execution is paid for by an excuse, a death, or an
  older checkpoint that landed last, which was counted before it: what is stored and not
  there any more was taken out by a copy that lacked it.
* **Admin calls.** One at a time, the client's projection never exceeds Shopify's
  bucket, whatever time passes between, so no call is rate limited. Overlapping, only
  the answer that says "executed" ends a mutation's retries.
* **OAuth.** Each secret is `Backed` by a credential of the same client; two pairs
  from one secret have two calls that knew it unspent (`RivalsKnown`); and somewhere,
  in a table or in a call's hands, an approved client has something to go on with
  (`KeepsAccess`).
* **Shops.** Every installation that has ended is posted or seen as a webhook; a
  token of one is about to be deleted, or something crossed, or the handling was cut
  off. Planes that differ from the stored token have an invalidate coming (`Announcing`)
  or missed one.
* **Login.** Links are mailed last and used once; the limit holds for links whose
  visits were alone between count and create, which `Alone` and `Within` express with
  cardinalities.
* **Rollback.** What is restored stays so unless somebody else `touched` it, file by
  file, while the sets still to do shrink (`ProgressInv`, `LookedInv`); for a resource
  made anew and a field that was null, what stays is weaker (`AsBefore`).
* **Seats.** For one call at a time only: the invariant says, for each place in the
  loop of `applySeats`, which links are already filled, which seats remain to be
  given, and that their number is within the licence (`LoopInv`, `FineAt`). Of calls
  that overlap another invariant holds (`RowsInv`): the row a call has read was one it
  may write, so what it takes from another was changed after the read (`ReadInv`).
* **Events and the cache.** An outdated answer was read before the last write and
  stored after its announcement, and its life began before.
* **Memories.** A save counts versions and trims what its count said. What it may
  still remove was older than `Keep` others when it counted, and versions only grow.
* **Connections.** A credential's count, its waiting requests and the piles of the
  flushes sum to what was asked. The sum over piles is handled as the cardinality of
  a disjoint union, with induction over finite sets by a minimal counterexample.
* **Bulk operations.** A checkpoint is stored at most once and covers every line, so a
  position in an upload is a line number; the operation a run waits for is not yet
  read by it; the runs of a line and the operation in progress are no more than the
  attempts, and no more than one unless an attempt ended unsaved, by a lost answer, a
  throw or a death with the operation taken (`OwnInv`, `CountInv`,
  `OnceInv`).
* **Snapshots.** A request's rows match what it read of each file. A blob that gcBlobs is
  about to remove has rows only of snapshots it ran into (`SweepInv`), a partial blob is
  torn (`TornInv`), and who shares an unfinished blob overlapped its writer (`MetInv`).
* **Working theme.** The themes have one order of last updates. What a caller saw, no
  working theme or room under the cap, stays true unless an excuse was noted (`SawNone`,
  `SawRoom`). A theme that was not cut short has each listed file, or somebody still
  brings it (`Provided`).
* **MCP requests.** How far a request is says which items are answered and which have run
  (`Progress`); the headers it was checked by are kept (`Vetted`); a session it names has
  been given, under the name it keeps (`Linked`, `NamesKept`).
* **Tool surface.** The registry holds exactly the first k calls of `createRegistry`, each
  name once and each alias to a tool registered before it; the second registry follows
  the first (`RegistryInv`). A cached plan was the shop's within its life, and cached
  planes are what is stored, or an invalidate is due, or their reader missed one
  (`CacheInv`); what a request has read follows from that place by place (`ReadTrue`), and
  what was said at validation stays so until it is applied (`AskerInv`).
* **Skills, manifests, posts.** Who may switch a skill on again was writing it when it was
  switched off. An author that took a number alone has the highest, and keeps it
  (`NumbersTaken`); an activation nobody met is the only one, and nothing is active until
  it ends (`ActivatesAlone`). An import that reads a post back wrote it or had its row
  taken.
* **Tickets.** There is room for who counted alone among the tickets nobody touched
  (`RoomForOne`), and a reply keeps its effect until a later status.
* **Audits.** What is stored beside the latest session and is newer has overtaken it
  (`NewerOvertook`); a session listed to be dropped was passed by as many as are kept
  (`DoomedWasOvertaken`). The retention is proved for every subset of the deleters
  (`Retained`): once some of them are done, only the other saves add theirs.
* **Theme reads.** A stamp that is still the same means the same contents unless the file
  changed twice in a tick (`WorldFits`); where a set differs from the theme, the theme
  changed since that reading began (`CacheFits`, `ReaderFits`).

Only model-checked, and why:

* liveness (`EveryCallEnds`, `RunEnds`, `RollbackEnds`, `CallEnds`,
  `EventsAreRecorded`, `Heals`): fairness and `ENABLED` are beyond the prover;
* `MergeSafe`: `SettingsMerge` is recursive over trees;
* `DemoStoreHolds`: the demo store has a table for each of two dozen kinds of resource;
* the two statements the code does not keep.

## What is not modelled

* theme intelligence and app detection (heuristics over text), the React admin (a
  client of the HTTP API), the server shell (configuration, telemetry, static
  files), encryption and migrations;
* of the tools: each handler but those that read themes and apply plans; `file.diff`,
  `list_checks`, `trackingAudit`;
* of rollback: `republish_previous` and the diff tools; of OAuth: client registration
  and consent pages; of shops: the resolution of demo shops; of the registry: the
  manifest, JSON schemas, and the search of the meta-tools;
* HTTP calls to Freemius are left out;
* what is given up when requests overlap, the properties say and do not bound: a lost
  update of the settings (`SettingsSurvive`), a count two flushes lost (`CountedOnce`),
  and shops paid for by nobody after overlapping seat changes (`NoUnpaidShop` is of one
  call at a time);
* in `BulkRunner` a store that throws, and two calls of `runMutations` at once on one
  checkpoint; in `BulkOperations` a run without a checkpoint store, and a start request
  that reaches Shopify after it was given up; of the webhooks the topics that change
  nothing; in `SettingsMerge` a section patch that is no object (settings-merge.ts:132);
* in `ThemeReads` a listing is one step, where the code pages; in `Login` hashes are
  comparisons of opaque values; in `OAuth` a secret is the call that issued it;
* tables that nothing in this repository writes (`JobRepo`) or operations nothing
  calls: `WorkingThemeService.assertWritable` and `invalidateThemeCache` are left
  out; `Snapshots.delete`, `gcBlobs` and the settings merges are modelled though only
  tests call them.

## Observations

What modelling met besides the two findings; none is a claim a run refutes.

* `server.ts:128` says a hook is "fired once per JSON-RPC request"; `ping`,
  `logging/setLevel` and `notifications/initialized` are never counted.
* An unsupported protocol version inside a batch is served; an `initialize` inside a
  batch makes a session whose id nobody gets; an exception in one item loses the
  answers of the whole batch (`server.ts:413`).
* `repos.ts:823` says no count is lost: two flushes that meet at a row lose one.
* `repos.ts:1033`: two saves of a memory that overlap may leave its current text out
  of the history.
* `rollback.ts:344` removes a created file "after checking nobody edited it", but not
  when the change carries no fingerprint (`:343`); `rollback.ts:677` "reverses
  exactly", but a field that was null is not sent back (`:800`).
* `rollback.ts:426` promises that a redirect somebody edited is refused; redirects
  (`:625`), products taken from a collection (`:480`) and the kinds of `:810` are
  overwritten without a look. A deleted collection comes back without its handle and
  products (`:475`), a deleted article as a draft (`:530`), without a warning.
* `bulk-runner.ts:178`: of two workers' checkpoints the older may be written last; a
  later call starts from it (`:111`) and executes again what the first call reported.
  When the answer to the start of a bulk operation is lost, nothing is stored and the
  next call starts its lines again (`:235`).
* `change.apply` of a tool that only reads is booked as a write that succeeded
  (`change.ts:108`, `execute.ts:453`).
* `webhooks.ts:54` catches what a handler throws after its id is marked as seen: an
  uninstall that failed half way is not handled again. `token-connect.ts:8` says a custom
  app that is removed is "detected lazily"; nothing clears its token.
* `accounts/service.ts:8` "only ever downgrades rows the account created" holds of calls
  that no other overtakes (`OwnRowsOnly`).
* The plan of a shop may be a minute old (`provider.ts:123`). Planes that a request read
  before an invalidate and cached after it stay until the next one
  (`shops/service.ts:77`). A card shows a tool as available that the credential's policy
  denies (`availability.ts:79`, `evaluate.ts:213`).
* `fake.ts:378` and `fake-catalog-extra.ts:99` number definitions from two counters: two
  rows share an id, and a listing whose cursor names them goes back and may never end. An
  order of a draft without lines has nothing to send, and becomes fulfilled with that
  (`fake-commerce-ops.ts:410`).
* A Freemius event whose shop cannot be resolved is recorded as processed
  (`webhook.ts:169`) and never applied.
* `preserveAppEmbeds: false` of the settings merge has no effect; disabling an alias
  of a tool by its name has none; the listing a client caches by identity does not
  change with its scopes or profile in meta mode; the dashboard computes an account's
  tier by rules of its own (`api/admin.ts:67`).

## Plan

Next theorems: the tables of `DemoStoreHolds`, one after the other. Next models:
two callers of `runMutations` on one checkpoint, and the handlers of
`tools/system.ts`.
