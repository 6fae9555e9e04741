--------------------------- MODULE ShopLifecycle ---------------------------
(***************************************************************************)
(* One shop from its installation to its removal and back: the OAuth       *)
(* grant and the token exchange of auth/shopify.ts, the pasted token of    *)
(* token-connect.ts, the webhook receiver of webhooks.ts, and the planes   *)
(* that shops/service.ts builds from the stored token and keeps in memory. *)
(* A task is one request or webhook delivery; it waits for the database or *)
(* for Shopify between any two steps, and a statement may fail.  A token   *)
(* is named by the installation that issued it, or is that of a custom app.*)
(***************************************************************************)
EXTENDS Naturals, FiniteSets

CONSTANTS Task, Cred,
          MaxInstalls   \* bound on the installations of the shop

ASSUME InstallsAssumption == MaxInstalls \in Nat \ {0}

VARIABLES
  installed, epoch,  \* Shopify: the app is installed, for the epoch-th time
  posted,            \* Shopify: app/uninstalled webhooks that are still to be delivered
  custom,            \* Shopify: the merchant's own app, whose token can be pasted
  admin_token,       \* secrets: the token that is stored; 0 none
  marked,            \* shops.uninstalled_at is set
  there,             \* the shop has a row
  valid, made,       \* credentials: those not revoked; the installation each was made in, or 0
  seen,              \* kv webhook:<id>: the webhooks that have been received
  cooling,           \* kv token_exchanged_at is younger than the cooldown
  planes,            \* planesCache: the token of the planes kept in memory, or NoPlanes
  task,              \* each request: where it is, the token it holds, the webhook it handles
  outdated,          \* history: the planes missed an invalidate, or a throw kept it from coming
  removals,          \* history: uninstall webhooks whose handling got to its end
  lost,              \* history: uninstall webhooks whose handling a restart or a throw cut off
  crossed,           \* history: tokens stored by a task that had got them before a removal
  late               \* history: credentials made after the app was gone, or the listing done

shopify == <<installed, epoch, posted, custom>>
stored == <<admin_token, marked, there, valid, made, seen, cooling>>
notes == <<outdated, removals, lost, crossed, late>>
shopVars == <<shopify, stored, planes, task, notes>>

Epoch == 1 .. MaxInstalls
Custom == MaxInstalls + 1
Token == 0 .. Custom
NoPlanes == MaxInstalls + 2
Places == {"idle", "callback", "upsert", "store", "announce", "probe", "exchange", "keep", "stamp",
           "drop", "check", "fill", "cache", "dedupe", "accept", "delete", "revoke", "each",
           "mark", "forget"}
Idle == [at |-> "idle", token |-> 0, hook |-> 0, list |-> {}, missed |-> FALSE]

ShopTypeOK ==
  /\ installed \in BOOLEAN /\ epoch \in 0 .. MaxInstalls /\ posted \in SUBSET Epoch
  /\ custom \in {"none", "live", "ended"}
  /\ admin_token \in Token /\ marked \in BOOLEAN /\ there \in BOOLEAN
  /\ valid \in SUBSET Cred /\ made \in [Cred -> 0 .. MaxInstalls] /\ seen \in SUBSET Epoch /\ cooling \in BOOLEAN
  /\ planes \in 0 .. NoPlanes
  /\ task \in [Task -> [at : Places, token : Token, hook : 0 .. MaxInstalls,
                        list : SUBSET Cred, missed : BOOLEAN]]
  /\ outdated \in BOOLEAN /\ removals \in SUBSET Epoch /\ lost \in SUBSET Epoch
  /\ crossed \in SUBSET Epoch /\ late \in SUBSET Cred

ShopInit ==
  /\ installed = FALSE /\ epoch = 0 /\ posted = {} /\ custom = "none"
  /\ admin_token = 0 /\ marked = FALSE /\ there = FALSE
  /\ valid = {} /\ made = [r \in Cred |-> 0] /\ seen = {} /\ cooling = FALSE
  /\ planes = NoPlanes /\ task = [t \in Task |-> Idle]
  /\ outdated = FALSE /\ removals = {} /\ lost = {} /\ crossed = {} /\ late = {}

On(t, place) == task[t].at = place
To(t, place) == task' = [task EXCEPT ![t].at = place]
\* A finished task leaves its slot to the next.
Finished(t) == task' = [task EXCEPT ![t] = Idle]

\* invalidate: the planes go, and whoever is just building some will miss it.
Invalidated(f) == [t \in Task |-> IF f[t].at = "cache" THEN [f[t] EXCEPT !.missed = TRUE] ELSE f[t]]
Invalidate(f) == planes' = NoPlanes /\ outdated' = FALSE /\ task' = Invalidated(f)

-----------------------------------------------------------------------------
(* Shopify and the merchant *)

Install ==
  /\ ~installed /\ epoch < MaxInstalls
  /\ installed' = TRUE /\ epoch' = epoch + 1
  /\ UNCHANGED <<posted, custom, stored, planes, task, notes>>

\* Tokens of this installation stop working, and a webhook is on its way.
Uninstall ==
  /\ installed /\ installed' = FALSE
  /\ posted' = posted \cup {epoch}
  /\ UNCHANGED <<epoch, custom, stored, planes, task, notes>>

\* The merchant makes an app of the shop's own, and removes it: no webhook tells of it.
CustomApp ==
  /\ custom' = CASE custom = "none" -> "live" [] custom = "live" -> "ended" [] OTHER -> custom
  /\ custom' # custom
  /\ UNCHANGED <<installed, epoch, posted, stored, planes, task, notes>>

-----------------------------------------------------------------------------
(* GET /auth and /auth/callback *)

\* The grant starts only when no token is stored, whether or not that token works.
OpenApp(t) ==
  /\ On(t, "idle") /\ installed /\ admin_token = 0
  /\ To(t, "callback")
  /\ UNCHANGED <<shopify, stored, planes, notes>>

\* The merchant turned the grant down, or came back with a state that is not known.
CallbackRefused(t) ==
  /\ On(t, "callback") /\ Finished(t)
  /\ UNCHANGED <<shopify, stored, planes, notes>>

\* The answer of Shopify to the code.
CallbackToken(t) ==
  /\ On(t, "callback") /\ installed
  /\ task' = [task EXCEPT ![t].at = "upsert", ![t].token = epoch]
  /\ UNCHANGED <<shopify, stored, planes, notes>>

UpsertShop(t) ==
  /\ On(t, "upsert") /\ To(t, "store")
  /\ there' = TRUE /\ marked' = FALSE
  /\ UNCHANGED <<shopify, admin_token, valid, made, seen, cooling, planes, notes>>

\* The tokens of installations that had ended when they were stored.
Crossing(t) ==
  {e \in {task[t].token} \cap Epoch : e # epoch \/ ~installed \/ e \in removals}

StoreToken(t) ==
  /\ On(t, "store") /\ To(t, IF task[t].token = Custom THEN "announce" ELSE "probe")
  /\ admin_token' = task[t].token
  /\ crossed' = crossed \cup Crossing(t)
  /\ UNCHANGED <<shopify, marked, there, valid, made, seen, cooling, planes, outdated, removals, lost, late>>

\* probe: asks Shopify with the stored token, keeps what it can do, invalidates.
Probe(t) ==
  /\ On(t, "probe") /\ Invalidate([task EXCEPT ![t] = Idle])
  /\ UNCHANGED <<shopify, stored, removals, lost, crossed, late>>

-----------------------------------------------------------------------------
(* connectWithToken *)

\* A pasted token is asked for the shop, and kept if it works.
Connect(t) ==
  /\ On(t, "idle") /\ custom = "live"
  /\ task' = [task EXCEPT ![t].at = "upsert", ![t].token = Custom]
  /\ UNCHANGED <<shopify, stored, planes, notes>>

\* The scopes, and with no wait after them the invalidate; then a probe.
Announce(t) ==
  /\ On(t, "announce") /\ Invalidate([task EXCEPT ![t].at = "probe"])
  /\ UNCHANGED <<shopify, stored, removals, lost, crossed, late>>

-----------------------------------------------------------------------------
(* verifyAdminSession: the token exchange of an embedded page *)

\* Fault: a page asks for a token only when none is stored.
OpenAdminPageWithout(t) ==
  /\ On(t, "idle") /\ installed /\ there /\ ~cooling /\ admin_token = 0
  /\ To(t, "exchange")
  /\ UNCHANGED <<shopify, stored, planes, notes>>

OpenAdminPage(t) ==
  /\ On(t, "idle") /\ installed /\ there /\ ~cooling
  /\ To(t, "exchange")
  /\ UNCHANGED <<shopify, stored, planes, notes>>

Exchange(t) ==
  /\ On(t, "exchange")
  /\ IF installed THEN task' = [task EXCEPT ![t].at = "keep", ![t].token = epoch] ELSE Finished(t)
  /\ UNCHANGED <<shopify, stored, planes, notes>>

KeepToken(t) ==
  /\ On(t, "keep") /\ To(t, "stamp")
  /\ admin_token' = task[t].token
  /\ crossed' = crossed \cup Crossing(t)
  /\ UNCHANGED <<shopify, marked, there, valid, made, seen, cooling, planes, outdated, removals, lost, late>>

\* The stamp, and with no wait after it the invalidate.
Stamp(t) ==
  /\ On(t, "stamp") /\ cooling' = TRUE
  /\ Invalidate([task EXCEPT ![t].at = "check"])
  /\ UNCHANGED <<shopify, admin_token, marked, there, valid, made, seen, removals, lost, crossed, late>>

\* Only a token that proves to work is followed by a probe.
SelfCheck(t) ==
  /\ On(t, "check") /\ (To(t, "probe") \/ Finished(t))
  /\ UNCHANGED <<shopify, stored, planes, notes>>

CooldownEnds ==
  /\ cooling /\ cooling' = FALSE
  /\ UNCHANGED <<shopify, admin_token, marked, there, valid, made, seen, planes, task, notes>>

-----------------------------------------------------------------------------
(* planesFor *)

BuildPlanes(t) ==
  /\ On(t, "idle") /\ there /\ planes = NoPlanes
  /\ task' = [task EXCEPT ![t].at = "cache", ![t].token = admin_token]
  /\ UNCHANGED <<shopify, stored, planes, notes>>

CachePlanes(t) ==
  /\ On(t, "cache") /\ Finished(t)
  /\ planes' = task[t].token /\ outdated' = task[t].missed
  /\ UNCHANGED <<shopify, stored, removals, lost, crossed, late>>

-----------------------------------------------------------------------------
(* POST /webhooks/app-uninstalled *)

\* Shopify delivers at least once, and again until it is answered.
Deliver(t, e) ==
  /\ On(t, "idle") /\ e \in posted
  /\ task' = [task EXCEPT ![t].at = "dedupe", ![t].hook = e]
  /\ UNCHANGED <<shopify, stored, planes, notes>>

Dedupe(t) ==
  /\ On(t, "dedupe")
  /\ IF task[t].hook \in seen THEN Finished(t) ELSE To(t, "accept")
  /\ UNCHANGED <<shopify, stored, planes, notes>>

\* Fault: the mark is by topic, not by webhook.
AcceptTopic(t) ==
  /\ On(t, "accept") /\ seen' = Epoch
  /\ IF there THEN To(t, "delete") ELSE Finished(t)
  /\ UNCHANGED <<shopify, admin_token, marked, there, valid, made, cooling, planes, notes>>

\* A shop without a row has nothing to remove.
Accept(t) ==
  /\ On(t, "accept") /\ seen' = seen \cup {task[t].hook}
  /\ IF there THEN To(t, "delete") ELSE Finished(t)
  /\ UNCHANGED <<shopify, admin_token, marked, there, valid, made, cooling, planes, notes>>

DeleteSecrets(t) ==
  /\ On(t, "delete") /\ To(t, "revoke") /\ admin_token' = 0
  /\ UNCHANGED <<shopify, marked, there, valid, made, seen, cooling, planes, notes>>

ListCredentials(t) ==
  /\ On(t, "revoke") /\ task' = [task EXCEPT ![t].at = "each", ![t].list = valid]
  /\ UNCHANGED <<shopify, stored, planes, notes>>

\* Fault: the loop ends after the first.
RevokeFirst(t) ==
  /\ On(t, "each")
  /\ IF task[t].list = {} THEN To(t, "mark") /\ UNCHANGED valid
     ELSE \E r \in task[t].list :
            /\ task' = [task EXCEPT ![t].at = "mark", ![t].list = {}]
            /\ valid' = valid \ {r}
  /\ UNCHANGED <<shopify, admin_token, marked, there, made, seen, cooling, planes, notes>>

\* One after another, those of the list.
RevokeNext(t) ==
  /\ On(t, "each")
  /\ IF task[t].list = {} THEN To(t, "mark") /\ UNCHANGED valid
     ELSE \E r \in task[t].list :
            /\ task' = [task EXCEPT ![t].list = @ \ {r}]
            /\ valid' = valid \ {r}
  /\ UNCHANGED <<shopify, admin_token, marked, there, made, seen, cooling, planes, notes>>

MarkUninstalled(t) ==
  /\ On(t, "mark") /\ To(t, "forget") /\ marked' = TRUE
  /\ UNCHANGED <<shopify, admin_token, there, valid, made, seen, cooling, planes, notes>>

ForgetPlanes(t) ==
  /\ On(t, "forget")
  /\ Invalidate([task EXCEPT ![t] = Idle])
  /\ removals' = removals \cup {task[t].hook}
  /\ UNCHANGED <<shopify, stored, lost, crossed, late>>

\* Answered: Shopify stops delivering.  What is answered has been received.
StopDelivering(e) ==
  /\ e \in posted \cap seen /\ \A t \in Task : task[t].hook # e
  /\ posted' = posted \ {e}
  /\ UNCHANGED <<installed, epoch, custom, stored, planes, task, notes>>

-----------------------------------------------------------------------------
Removing == {t \in Task : task[t].at \in {"each", "mark", "forget"}}

\* A dashboard token or an approved client: auth/shopify.ts is not asked.
CreateCredential(r) ==
  /\ there /\ made[r] = 0
  /\ valid' = valid \cup {r} /\ made' = [made EXCEPT ![r] = epoch]
  /\ late' = IF ~installed \/ Removing # {} THEN late \cup {r} ELSE late
  /\ UNCHANGED <<shopify, admin_token, marked, there, seen, cooling, planes, task,
                 outdated, removals, lost, crossed>>

Working == {"upsert", "store", "probe", "keep", "stamp", "check", "delete", "revoke", "each",
            "mark", "forget"}

\* Memory is gone, and so are the tasks.  A webhook that was marked as seen and not
\* answered is delivered again, and taken for a duplicate.
ShopRestart ==
  /\ \E t \in Task : ~On(t, "idle")
  /\ task' = [t \in Task |-> Idle] /\ planes' = NoPlanes /\ outdated' = FALSE
  /\ lost' = lost \cup {task[t].hook : t \in {u \in Task : task[u].at \in Working /\ task[u].hook # 0}}
  /\ UNCHANGED <<shopify, stored, removals, crossed, late>>

\* Where a task goes on to drop the planes, and what an uninstall has still to do.
Announcing == {"announce", "probe", "stamp", "revoke", "each", "mark", "forget"}
Removal == {"delete", "revoke", "each", "mark"}

\* A statement or an answer of Shopify that does not come ends the task.  The receiver
\* catches what handleWebhook throws and answers ok, with the id already marked as seen.
Throws(t) ==
  /\ task[t].at \in Places \ {"idle", "forget"}
  /\ task' = [u \in Task |-> IF u = t THEN Idle
                ELSE IF On(u, "cache") /\ task[t].at \in Announcing
                     THEN [task[u] EXCEPT !.missed = TRUE] ELSE task[u]]
  /\ outdated' = (outdated \/ (planes # NoPlanes /\ task[t].at \in Announcing))
  /\ lost' = IF task[t].at \in Removal THEN lost \cup {task[t].hook} ELSE lost
  /\ UNCHANGED <<shopify, stored, planes, removals, crossed, late>>

Serve(t) ==
  \/ CallbackToken(t) \/ UpsertShop(t) \/ StoreToken(t) \/ Announce(t) \/ Probe(t)
  \/ Exchange(t) \/ KeepToken(t) \/ Stamp(t) \/ SelfCheck(t) \/ CachePlanes(t)
  \/ Dedupe(t) \/ Accept(t) \/ DeleteSecrets(t) \/ ListCredentials(t) \/ RevokeNext(t)
  \/ MarkUninstalled(t) \/ ForgetPlanes(t)

ShopNext ==
  \/ Install \/ Uninstall \/ CustomApp \/ CooldownEnds \/ ShopRestart
  \/ \E t \in Task : \/ OpenApp(t) \/ CallbackRefused(t) \/ Connect(t) \/ OpenAdminPage(t)
                     \/ BuildPlanes(t) \/ Serve(t) \/ Throws(t)
  \/ \E t \in Task, e \in Epoch : Deliver(t, e)
  \/ \E e \in Epoch : StopDelivering(e)
  \/ \E r \in Cred : CreateCredential(r)

ShopSpec == ShopInit /\ [][ShopNext]_shopVars

\* The event loop finishes what it began, time passes, the server is at last left
\* running with no statement that fails, and the merchant goes on opening the app and does not refuse for ever.
ShopFairness ==
  /\ WF_shopVars(CooldownEnds) /\ <>[][~ShopRestart /\ \A t \in Task : ~Throws(t)]_shopVars
  /\ \A t \in Task : /\ WF_shopVars(Serve(t)) /\ SF_shopVars(CallbackToken(t))
                     /\ SF_shopVars(OpenApp(t)) /\ SF_shopVars(OpenAdminPage(t))

FairShopSpec == ShopSpec /\ ShopFairness
-----------------------------------------------------------------------------
(* Properties *)

\* The planes in memory work with the token that is stored: whoever replaces or
\* deletes the token drops them.  Only planes that were being built while they were
\* dropped, or whose dropping was cut off by a throw, may stay behind with an older token.
PlanesAreCurrent ==
  planes # NoPlanes /\ planes # admin_token => outdated \/ \E t \in Task : task[t].at \in Announcing

Undelivered(e) == e \in posted \/ \E t \in Task : task[t].hook = e

\* The token of an installation that has ended does not stay behind: its webhook is
\* still to come, or its handling was cut off, or a task stored the token after it.
NoDeadToken ==
  admin_token \in Epoch /\ (admin_token # epoch \/ ~installed) =>
    Undelivered(admin_token) \/ admin_token \in lost \cup crossed

\* No credential outlives its installation once the webhook has been handled, except
\* one that was made after the credentials to revoke had been listed.
CredentialsEnd == \A r \in valid : made[r] \in removals => r \in late

\* An installed shop gets a token that works: whatever a late webhook deletes or a
\* crossing exchange stores, opening the app again repairs it.
Heals == installed ~> (admin_token = epoch \/ ~installed)

\* What the server holds of a shop, in memory and in the table, is of its present installation
\* (handleWebhook, exchangeSessionToken, ShopsService).
ShopSafe == ShopTypeOK /\ PlanesAreCurrent /\ NoDeadToken
=============================================================================
