--------------------------- MODULE ShopProofs ---------------------------
(***************************************************************************)
(* Theorems about ShopLifecycle and ShopSettings, for any tasks,           *)
(* credentials and requests, and any number of installations and restarts. *)
(***************************************************************************)
EXTENDS ShopLifecycle, ShopSettings, FiniteSetTheorems, TLAPS

\* An installation that has ended.
Ended(e) == e \in Epoch /\ e <= epoch /\ (e # epoch \/ ~installed)

\* A task on its way to drop the planes.
SomeChange == \E t \in Task : task[t].at \in Announcing

\* Where a task is says what it is about.
TaskInv(t) ==
  /\ task[t].token \in Epoch => task[t].token <= epoch
  /\ task[t].hook # 0 => Ended(task[t].hook)
  /\ task[t].at \in {"dedupe", "accept", "delete", "revoke", "each", "mark", "forget"} => task[t].hook # 0
  /\ task[t].at \in {"store", "exchange", "keep"} => there
  /\ On(t, "cache") /\ task[t].token # admin_token => task[t].missed \/ SomeChange
  /\ task[t].at \in {"each", "mark", "forget"} =>
       \A r \in valid \ late : made[r] = task[t].hook => On(t, "each") /\ r \in task[t].list

\* A webhook stands for an installation that has ended, and is posted until it is seen.
HooksInv ==
  /\ \A e \in posted \cup seen \cup removals : Ended(e)
  /\ \A e \in Epoch : Ended(e) => e \in posted \cup seen
  /\ installed => epoch \in Epoch

\* The stored token of an installation whose webhook was seen is about to be deleted.
TokenInv ==
  /\ (admin_token \in Epoch => admin_token <= epoch) /\ (admin_token # 0 => there)
  /\ admin_token \in seen =>
       admin_token \in crossed \cup lost \/ \E t \in Task : On(t, "delete") /\ task[t].hook = admin_token

PlanesInv == planes # NoPlanes /\ planes # admin_token => outdated \/ SomeChange

\* ShopTypeOK in two parts.
TaskRecord == [at : Places, token : Token, hook : 0 .. MaxInstalls,
               list : SUBSET Cred, missed : BOOLEAN]
Rest ==
  /\ installed \in BOOLEAN /\ epoch \in 0 .. MaxInstalls /\ posted \in SUBSET Epoch
  /\ custom \in {"none", "live", "ended"}
  /\ admin_token \in Token /\ marked \in BOOLEAN /\ there \in BOOLEAN
  /\ valid \in SUBSET Cred /\ made \in [Cred -> 0 .. MaxInstalls] /\ seen \in SUBSET Epoch /\ cooling \in BOOLEAN
  /\ planes \in 0 .. NoPlanes
  /\ outdated \in BOOLEAN /\ removals \in SUBSET Epoch /\ lost \in SUBSET Epoch
  /\ crossed \in SUBSET Epoch /\ late \in SUBSET Cred

\* The inductive invariant of ShopLifecycle.
ShopInv ==
  /\ Rest /\ task \in [Task -> TaskRecord]
  /\ \A t \in Task : TaskInv(t)
  /\ HooksInv /\ TokenInv /\ PlanesInv
  /\ CredentialsEnd
-----------------------------------------------------------------------------
\* The token of a custom app is no installation's, and a task may hold it; so is a task that rests.
LEMMA CustomIsNoInstallation == Custom \notin Epoch /\ 0 \notin Epoch
  BY InstallsAssumption DEF Custom, Epoch
LEMMA CustomIsAToken == Custom \in Token
  BY InstallsAssumption DEF Custom, Token
LEMMA EpochIsAToken == epoch \in 0 .. MaxInstalls => epoch \in Token
  BY InstallsAssumption DEF Custom, Token
LEMMA TokensArePlanes == 0 \in Token /\ NoPlanes \in 0 .. NoPlanes /\ Token \subseteq 0 .. NoPlanes
  BY InstallsAssumption DEF Custom, Token, NoPlanes
LEMMA IdleIsATask == Idle \in TaskRecord
  BY InstallsAssumption DEF Idle, TaskRecord, Places, Token, Custom

\* Before the first installation nothing is stored.
LEMMA ShopInitInv == ShopInit => ShopInv
<1>. SUFFICES ASSUME ShopInit PROVE ShopInv
  OBVIOUS
<1>1. planes \in 0 .. NoPlanes
  BY InstallsAssumption DEF ShopInit, NoPlanes
<1>2. Rest
  <2>1. /\ epoch \in 0 .. MaxInstalls /\ admin_token \in Token
        /\ made \in [Cred -> 0 .. MaxInstalls]
    BY InstallsAssumption DEF ShopInit, Token, Custom
  <2>2. /\ posted \in SUBSET Epoch /\ valid \in SUBSET Cred /\ seen \in SUBSET Epoch
        /\ removals \in SUBSET Epoch /\ lost \in SUBSET Epoch /\ late \in SUBSET Cred
    BY DEF ShopInit
  <2>3. /\ installed \in BOOLEAN /\ marked \in BOOLEAN /\ there \in BOOLEAN /\ cooling \in BOOLEAN
        /\ outdated \in BOOLEAN /\ crossed \in SUBSET Epoch /\ custom \in {"none", "live", "ended"}
    BY DEF ShopInit
  <2>. QED
    BY <1>1, <2>1, <2>2, <2>3 DEF Rest
<1>3. task \in [Task -> TaskRecord]
  BY IdleIsATask DEF ShopInit
<1>4. HooksInv /\ TokenInv /\ PlanesInv /\ CredentialsEnd /\ \A t \in Task : TaskInv(t)
  BY InstallsAssumption DEF ShopInit, HooksInv, TokenInv, PlanesInv, CredentialsEnd, TaskInv, Idle, On, Ended, Epoch
<1>. QED
  BY <1>2, <1>3, <1>4 DEF ShopInv

\* What a move, an end and an invalidate make of a task is a task.
LEMMA TaskMoves ==
  ASSUME task \in [Task -> TaskRecord], NEW t \in Task
  PROVE  /\ \A p \in Places : To(t, p) => task' \in [Task -> TaskRecord]
         /\ Finished(t) => task' \in [Task -> TaskRecord]
         /\ [task EXCEPT ![t] = Idle] \in [Task -> TaskRecord]
         /\ \A p \in Places : [task EXCEPT ![t].at = p] \in [Task -> TaskRecord]
         /\ \A f \in [Task -> TaskRecord] : Invalidated(f) \in [Task -> TaskRecord]
<1>1. \A p \in Places : [task EXCEPT ![t].at = p] \in [Task -> TaskRecord]
  BY DEF TaskRecord
<1>2. Idle \in TaskRecord
  BY IdleIsATask
<1>3. [task EXCEPT ![t] = Idle] \in [Task -> TaskRecord]
  BY <1>2
<1>4. ASSUME NEW f \in [Task -> TaskRecord] PROVE Invalidated(f) \in [Task -> TaskRecord]
  BY <1>4 DEF Invalidated, TaskRecord
<1>. QED
  BY <1>1, <1>3, <1>4 DEF To, Finished

\* Every step keeps every other variable in its type.
LEMMA RestStep ==
  ASSUME ShopInv, [ShopNext]_shopVars
  PROVE  Rest'
<1>0. Rest /\ task \in [Task -> TaskRecord] /\ HooksInv /\ (\A v \in Task : TaskInv(v))
  BY DEF ShopInv
<1>. USE <1>0, InstallsAssumption DEF Rest
<1>1. CASE Install
  BY <1>1 DEF Install, On, shopify, stored, notes
<1>2. CASE Uninstall
  BY <1>2 DEF Uninstall, stored, notes, HooksInv, Rest
<1>3. CASE CooldownEnds
  BY <1>3 DEF CooldownEnds, On, shopify, stored, notes
<1>4. CASE ShopRestart
  <2>1. planes' \in 0 .. NoPlanes
    BY <1>4 DEF ShopRestart, NoPlanes
  <2>2. lost' \in SUBSET Epoch
    <3>1. \A t \in Task : task[t].hook \in 0 .. MaxInstalls
      BY DEF TaskRecord
    <3>2. \A t \in Task : task[t].hook # 0 => task[t].hook \in Epoch
      BY <3>1 DEF Epoch
    <3>. QED
      BY <1>4, <3>2 DEF ShopRestart
  <2>. QED
    BY <1>4, <2>1, <2>2 DEF ShopRestart, shopify, stored, Rest
<1>5. ASSUME NEW t \in Task, OpenApp(t) PROVE Rest'
  BY <1>5 DEF OpenApp, To, On, shopify, stored, notes
<1>6. ASSUME NEW t \in Task, CallbackRefused(t) PROVE Rest'
  BY <1>6 DEF CallbackRefused, Finished, Idle, On, shopify, stored, notes
<1>7. ASSUME NEW t \in Task, OpenAdminPage(t) PROVE Rest'
  BY <1>7 DEF OpenAdminPage, To, On, shopify, stored, notes
<1>8. ASSUME NEW t \in Task, BuildPlanes(t) PROVE Rest'
  BY <1>8 DEF BuildPlanes, On, shopify, stored, notes
<1>9. ASSUME NEW t \in Task, CallbackToken(t) PROVE Rest'
  BY <1>9 DEF CallbackToken, On, shopify, stored, notes
<1>10. ASSUME NEW t \in Task, UpsertShop(t) PROVE Rest'
  BY <1>10 DEF UpsertShop, To, On, shopify, stored, notes
<1>11. ASSUME NEW t \in Task, StoreToken(t) PROVE Rest'
  <2>1. task[t].token \in Token /\ crossed' \in SUBSET Epoch
    BY <1>11 DEF StoreToken, Crossing, TaskRecord
  <2>. QED
    BY <1>11, <2>1 DEF StoreToken, shopify
<1>12. ASSUME NEW t \in Task, Probe(t) PROVE Rest'
  <2>1. planes' \in 0 .. NoPlanes
    BY <1>12 DEF Probe, Invalidate, NoPlanes
  <2>2. outdated' \in BOOLEAN
    BY <1>12 DEF Probe, Invalidate
  <2>. QED
    BY <1>12, <2>1, <2>2 DEF Probe, shopify, stored
<1>13. ASSUME NEW t \in Task, Exchange(t) PROVE Rest'
  BY <1>13 DEF Exchange, Finished, Idle, On, shopify, stored, notes
<1>14. ASSUME NEW t \in Task, KeepToken(t) PROVE Rest'
  <2>1. task[t].token \in Token /\ crossed' \in SUBSET Epoch
    BY <1>14 DEF KeepToken, Crossing, TaskRecord
  <2>. QED
    BY <1>14, <2>1 DEF KeepToken, shopify
<1>15. ASSUME NEW t \in Task, Stamp(t) PROVE Rest'
  <2>1. planes' \in 0 .. NoPlanes
    BY <1>15 DEF Stamp, Invalidate, NoPlanes
  <2>2. outdated' \in BOOLEAN
    BY <1>15 DEF Stamp, Invalidate
  <2>. QED
    BY <1>15, <2>1, <2>2 DEF Stamp, shopify, stored
<1>16. ASSUME NEW t \in Task, SelfCheck(t) PROVE Rest'
  BY <1>16 DEF SelfCheck, To, Finished, Idle, On, shopify, stored, notes
<1>17. ASSUME NEW t \in Task, CachePlanes(t) PROVE Rest'
  <2>1. planes' \in 0 .. NoPlanes /\ outdated' \in BOOLEAN
    BY <1>17, TokensArePlanes DEF CachePlanes, TaskRecord
  <2>. QED
    BY <1>17, <2>1 DEF CachePlanes, shopify, stored, Rest
<1>18. ASSUME NEW t \in Task, Dedupe(t) PROVE Rest'
  BY <1>18 DEF Dedupe, To, Finished, Idle, On, shopify, stored, notes
<1>19. ASSUME NEW t \in Task, Accept(t) PROVE Rest'
  <2>1. seen' \in SUBSET Epoch
    BY <1>19 DEF Accept, On, TaskRecord, TaskInv, Rest, Ended
  <2>. QED
    BY <1>19, <2>1 DEF Accept, shopify, notes, Rest
<1>20. ASSUME NEW t \in Task, DeleteSecrets(t) PROVE Rest'
  BY <1>20, TokensArePlanes DEF DeleteSecrets, To, On, shopify, stored, notes
<1>21. ASSUME NEW t \in Task, ListCredentials(t) PROVE Rest'
  BY <1>21 DEF ListCredentials, On, shopify, stored, notes
<1>22. ASSUME NEW t \in Task, RevokeNext(t) PROVE Rest'
  BY <1>22 DEF RevokeNext, To, On, shopify, stored, notes
<1>23. ASSUME NEW t \in Task, MarkUninstalled(t) PROVE Rest'
  BY <1>23 DEF MarkUninstalled, To, On, shopify, stored, notes
<1>24. ASSUME NEW t \in Task, ForgetPlanes(t) PROVE Rest'
  <2>1. planes' \in 0 .. NoPlanes
    BY <1>24 DEF ForgetPlanes, Invalidate, NoPlanes
  <2>2. outdated' \in BOOLEAN
    BY <1>24 DEF ForgetPlanes, Invalidate
  <2>3. removals' \in SUBSET Epoch
    BY <1>24 DEF ForgetPlanes, On, TaskInv, Ended
  <2>. QED
    BY <1>24, <2>1, <2>2, <2>3 DEF ForgetPlanes, shopify, stored, Rest
<1>25. ASSUME NEW t \in Task, NEW e \in Epoch, Deliver(t, e) PROVE Rest'
  BY <1>25 DEF Deliver, On, shopify, stored, notes
<1>26. ASSUME NEW e \in Epoch, StopDelivering(e) PROVE Rest'
  BY <1>26 DEF StopDelivering, On, shopify, stored, notes
<1>27. ASSUME NEW r \in Cred, CreateCredential(r) PROVE Rest'
  BY <1>27 DEF CreateCredential, Removing, On, shopify, stored, notes
<1>28. CASE UNCHANGED shopVars
  BY <1>28 DEF shopVars, On, shopify, stored, notes
<1>29. CASE CustomApp
  BY <1>29 DEF CustomApp, On, stored, notes
<1>30. ASSUME NEW t \in Task, Connect(t) PROVE Rest'
  BY <1>30, CustomIsNoInstallation DEF Connect, On, shopify, stored, notes
<1>31. ASSUME NEW t \in Task, Announce(t) PROVE Rest'
  <2>1. planes' \in 0 .. NoPlanes /\ outdated' \in BOOLEAN
    BY <1>31, TokensArePlanes DEF Announce, Invalidate
  <2>. QED
    BY <1>31, <2>1 DEF Announce, shopify, stored, Rest
<1>32. ASSUME NEW t \in Task, Throws(t) PROVE Rest'
  <2>1. lost' \in SUBSET Epoch
    BY <1>32 DEF Throws, Removal, TaskInv, Ended
  <2>2. outdated' \in BOOLEAN
    BY <1>32 DEF Throws
  <2>. QED
    BY <1>32, <2>1, <2>2 DEF Throws, shopify, stored, Rest
<1>. QED
  BY <1>1, <1>2, <1>3, <1>4, <1>5, <1>6, <1>7, <1>8, <1>9, <1>10, <1>11, <1>12, <1>13, <1>14,
     <1>15, <1>16, <1>17, <1>18, <1>19, <1>20, <1>21, <1>22, <1>23, <1>24, <1>25, <1>26, <1>27,
     <1>28, <1>29, <1>30, <1>31, <1>32 DEF ShopNext, Serve

\* Every step keeps the tasks in their type.
LEMMA TaskTypeStep ==
  ASSUME ShopInv, [ShopNext]_shopVars
  PROVE  task' \in [Task -> TaskRecord]
<1>0. task \in [Task -> TaskRecord] /\ admin_token \in Token /\ epoch \in 0 .. MaxInstalls
      /\ valid \in SUBSET Cred
  BY DEF ShopInv, Rest
<1>. USE <1>0
<1>1. CASE Install
  BY <1>1 DEF Install, stored, notes
<1>2. CASE Uninstall
  BY <1>2 DEF Uninstall, stored, notes
<1>3. CASE CooldownEnds
  BY <1>3 DEF CooldownEnds, stored, notes
<1>4. CASE ShopRestart
  BY <1>4, IdleIsATask DEF ShopRestart
<1>5. ASSUME NEW t \in Task, OpenApp(t) PROVE task' \in [Task -> TaskRecord]
  BY <1>5, TaskMoves DEF OpenApp, Places
<1>6. ASSUME NEW t \in Task, CallbackRefused(t) PROVE task' \in [Task -> TaskRecord]
  BY <1>6, TaskMoves DEF CallbackRefused, Places
<1>7. ASSUME NEW t \in Task, OpenAdminPage(t) PROVE task' \in [Task -> TaskRecord]
  BY <1>7, TaskMoves DEF OpenAdminPage, Places
<1>8. ASSUME NEW t \in Task, BuildPlanes(t) PROVE task' \in [Task -> TaskRecord]
  BY ZenonT(40), <1>8 DEF BuildPlanes, TaskRecord, Places
<1>9. ASSUME NEW t \in Task, CallbackToken(t) PROVE task' \in [Task -> TaskRecord]
  BY ZenonT(40), <1>9, EpochIsAToken DEF CallbackToken, TaskRecord, Places
<1>10. ASSUME NEW t \in Task, UpsertShop(t) PROVE task' \in [Task -> TaskRecord]
  BY <1>10, TaskMoves DEF UpsertShop, Places
<1>11. ASSUME NEW t \in Task, StoreToken(t) PROVE task' \in [Task -> TaskRecord]
  BY <1>11, TaskMoves DEF StoreToken, Places
<1>12. ASSUME NEW t \in Task, Probe(t) PROVE task' \in [Task -> TaskRecord]
  BY <1>12, TaskMoves DEF Probe, Invalidate, Places
<1>13. ASSUME NEW t \in Task, Exchange(t) PROVE task' \in [Task -> TaskRecord]
  <2>1. CASE installed
    BY <1>13, <2>1 DEF Exchange, TaskRecord, Places
  <2>2. CASE ~installed
    BY <1>13, <2>2, TaskMoves DEF Exchange
  <2>. QED
    BY <2>1, <2>2
<1>14. ASSUME NEW t \in Task, KeepToken(t) PROVE task' \in [Task -> TaskRecord]
  BY <1>14, TaskMoves DEF KeepToken, Places
<1>15. ASSUME NEW t \in Task, Stamp(t) PROVE task' \in [Task -> TaskRecord]
  BY <1>15, TaskMoves DEF Stamp, Invalidate, Places
<1>16. ASSUME NEW t \in Task, SelfCheck(t) PROVE task' \in [Task -> TaskRecord]
  BY <1>16, TaskMoves DEF SelfCheck, Places
<1>17. ASSUME NEW t \in Task, CachePlanes(t) PROVE task' \in [Task -> TaskRecord]
  BY <1>17, TaskMoves DEF CachePlanes, Places
<1>18. ASSUME NEW t \in Task, Dedupe(t) PROVE task' \in [Task -> TaskRecord]
  BY <1>18, TaskMoves DEF Dedupe, Places
<1>19. ASSUME NEW t \in Task, Accept(t) PROVE task' \in [Task -> TaskRecord]
  BY <1>19, TaskMoves DEF Accept, Places
<1>20. ASSUME NEW t \in Task, DeleteSecrets(t) PROVE task' \in [Task -> TaskRecord]
  BY <1>20, TaskMoves DEF DeleteSecrets, Places
<1>21. ASSUME NEW t \in Task, ListCredentials(t) PROVE task' \in [Task -> TaskRecord]
  BY ZenonT(40), <1>21 DEF ListCredentials, TaskRecord, Places
<1>22. ASSUME NEW t \in Task, RevokeNext(t) PROVE task' \in [Task -> TaskRecord]
  <2>1. CASE task[t].list = {}
    BY <1>22, <2>1, TaskMoves DEF RevokeNext, Places
  <2>2. CASE task[t].list # {}
    BY <1>22, <2>2 DEF RevokeNext, TaskRecord
  <2>. QED
    BY <2>1, <2>2
<1>23. ASSUME NEW t \in Task, MarkUninstalled(t) PROVE task' \in [Task -> TaskRecord]
  BY <1>23, TaskMoves DEF MarkUninstalled, Places
<1>24. ASSUME NEW t \in Task, ForgetPlanes(t) PROVE task' \in [Task -> TaskRecord]
  BY <1>24, TaskMoves DEF ForgetPlanes, Invalidate, Places
<1>25. ASSUME NEW t \in Task, NEW e \in Epoch, Deliver(t, e) PROVE task' \in [Task -> TaskRecord]
  <2>1. e \in 0 .. MaxInstalls
    BY DEF Epoch
  <2>. QED
    BY ZenonT(40), <1>25, <2>1 DEF Deliver, TaskRecord, Places
<1>26. ASSUME NEW e \in Epoch, StopDelivering(e) PROVE task' \in [Task -> TaskRecord]
  BY <1>26 DEF StopDelivering, stored, notes
<1>27. ASSUME NEW r \in Cred, CreateCredential(r) PROVE task' \in [Task -> TaskRecord]
  BY <1>27 DEF CreateCredential, stored, notes
<1>28. CASE UNCHANGED shopVars
  BY <1>28 DEF shopVars
<1>29. CASE CustomApp
  BY <1>29 DEF CustomApp
<1>30. ASSUME NEW t \in Task, Connect(t) PROVE task' \in [Task -> TaskRecord]
  BY ZenonT(40), <1>30, CustomIsAToken DEF Connect, TaskRecord, Places
<1>31. ASSUME NEW t \in Task, Announce(t) PROVE task' \in [Task -> TaskRecord]
  BY <1>31, TaskMoves DEF Announce, Invalidate, Places
<1>32. ASSUME NEW t \in Task, Throws(t) PROVE task' \in [Task -> TaskRecord]
  BY <1>32, IdleIsATask DEF Throws, TaskRecord
<1>. QED
  BY <1>1, <1>2, <1>3, <1>4, <1>5, <1>6, <1>7, <1>8, <1>9, <1>10, <1>11, <1>12, <1>13, <1>14,
     <1>15, <1>16, <1>17, <1>18, <1>19, <1>20, <1>21, <1>22, <1>23, <1>24, <1>25, <1>26, <1>27,
     <1>28, <1>29, <1>30, <1>31, <1>32 DEF ShopNext, Serve

\* Every step keeps webhooks in line with the installations.
LEMMA HooksStep ==
  ASSUME ShopInv, [ShopNext]_shopVars
  PROVE  HooksInv'
<1>0. Rest /\ task \in [Task -> TaskRecord] /\ HooksInv /\ (\A v \in Task : TaskInv(v))
  BY DEF ShopInv
<1>. USE <1>0, InstallsAssumption DEF Rest, TaskRecord, TaskInv, HooksInv, Ended, Epoch
<1>1. CASE Install
  BY <1>1 DEF Install, On, shopify, stored, notes
<1>2. CASE Uninstall
  BY <1>2 DEF Uninstall, On, shopify, stored, notes
<1>3. CASE CooldownEnds
  BY <1>3 DEF CooldownEnds, On, shopify, stored, notes
<1>4. CASE ShopRestart
  BY <1>4 DEF ShopRestart, Idle, On, Working, shopify, stored, notes
<1>5. ASSUME NEW t \in Task, OpenApp(t) PROVE HooksInv'
  BY <1>5 DEF OpenApp, To, On, shopify, stored, notes
<1>6. ASSUME NEW t \in Task, CallbackRefused(t) PROVE HooksInv'
  BY <1>6 DEF CallbackRefused, Finished, Idle, On, shopify, stored, notes
<1>7. ASSUME NEW t \in Task, OpenAdminPage(t) PROVE HooksInv'
  BY <1>7 DEF OpenAdminPage, To, On, shopify, stored, notes
<1>8. ASSUME NEW t \in Task, BuildPlanes(t) PROVE HooksInv'
  BY <1>8 DEF BuildPlanes, On, shopify, stored, notes
<1>9. ASSUME NEW t \in Task, CallbackToken(t) PROVE HooksInv'
  BY <1>9 DEF CallbackToken, On, shopify, stored, notes
<1>10. ASSUME NEW t \in Task, UpsertShop(t) PROVE HooksInv'
  BY <1>10 DEF UpsertShop, To, On, shopify, stored, notes
<1>11. ASSUME NEW t \in Task, StoreToken(t) PROVE HooksInv'
  BY <1>11 DEF StoreToken, Crossing, To, On, shopify, stored, notes
<1>12. ASSUME NEW t \in Task, Probe(t) PROVE HooksInv'
  BY <1>12 DEF Probe, Invalidate, Invalidated, Idle, On, shopify, stored, notes
<1>13. ASSUME NEW t \in Task, Exchange(t) PROVE HooksInv'
  BY <1>13 DEF Exchange, Finished, Idle, On, shopify, stored, notes
<1>14. ASSUME NEW t \in Task, KeepToken(t) PROVE HooksInv'
  BY <1>14 DEF KeepToken, Crossing, To, On, shopify, stored, notes
<1>15. ASSUME NEW t \in Task, Stamp(t) PROVE HooksInv'
  BY <1>15 DEF Stamp, Invalidate, Invalidated, Idle, On, shopify, stored, notes
<1>16. ASSUME NEW t \in Task, SelfCheck(t) PROVE HooksInv'
  BY <1>16 DEF SelfCheck, To, Finished, Idle, On, shopify, stored, notes
<1>17. ASSUME NEW t \in Task, CachePlanes(t) PROVE HooksInv'
  BY <1>17 DEF CachePlanes, Finished, Idle, On, shopify, stored, notes
<1>18. ASSUME NEW t \in Task, Dedupe(t) PROVE HooksInv'
  BY <1>18 DEF Dedupe, To, Finished, Idle, On, shopify, stored, notes
<1>19. ASSUME NEW t \in Task, Accept(t) PROVE HooksInv'
  BY <1>19 DEF Accept, To, Finished, Idle, On, shopify, stored, notes
<1>20. ASSUME NEW t \in Task, DeleteSecrets(t) PROVE HooksInv'
  BY <1>20 DEF DeleteSecrets, To, On, shopify, stored, notes
<1>21. ASSUME NEW t \in Task, ListCredentials(t) PROVE HooksInv'
  BY <1>21 DEF ListCredentials, On, shopify, stored, notes
<1>22. ASSUME NEW t \in Task, RevokeNext(t) PROVE HooksInv'
  BY <1>22 DEF RevokeNext, To, On, shopify, stored, notes
<1>23. ASSUME NEW t \in Task, MarkUninstalled(t) PROVE HooksInv'
  BY <1>23 DEF MarkUninstalled, To, On, shopify, stored, notes
<1>24. ASSUME NEW t \in Task, ForgetPlanes(t) PROVE HooksInv'
  BY <1>24 DEF ForgetPlanes, Invalidate, Invalidated, Idle, On, shopify, stored, notes
<1>25. ASSUME NEW t \in Task, NEW e \in Epoch, Deliver(t, e) PROVE HooksInv'
  BY <1>25 DEF Deliver, On, shopify, stored, notes
<1>26. ASSUME NEW e \in Epoch, StopDelivering(e) PROVE HooksInv'
  BY <1>26 DEF StopDelivering, On, shopify, stored, notes
<1>27. ASSUME NEW r \in Cred, CreateCredential(r) PROVE HooksInv'
  BY <1>27 DEF CreateCredential, Removing, On, shopify, stored, notes
<1>28. CASE UNCHANGED shopVars
  BY <1>28 DEF shopVars, On, shopify, stored, notes
<1>29. CASE CustomApp
  BY <1>29 DEF CustomApp, On, stored, notes
<1>30. ASSUME NEW t \in Task, Connect(t) PROVE HooksInv'
  BY <1>30, CustomIsNoInstallation DEF Connect, On, shopify, stored, notes
<1>31. ASSUME NEW t \in Task, Announce(t) PROVE HooksInv'
  BY <1>31 DEF Announce, Invalidate, Invalidated, Announcing, Idle, On, shopify, stored, notes
<1>32. ASSUME NEW t \in Task, Throws(t) PROVE HooksInv'
  BY <1>32 DEF Throws, Announcing, Removal, Idle, On, shopify, stored, notes
<1>. QED
  BY <1>1, <1>2, <1>3, <1>4, <1>5, <1>6, <1>7, <1>8, <1>9, <1>10, <1>11, <1>12, <1>13, <1>14,
     <1>15, <1>16, <1>17, <1>18, <1>19, <1>20, <1>21, <1>22, <1>23, <1>24, <1>25, <1>26, <1>27,
     <1>28, <1>29, <1>30, <1>31, <1>32 DEF ShopNext, Serve

\* Every step keeps the stored token in line with the webhooks.
LEMMA TokenStep ==
  ASSUME ShopInv, [ShopNext]_shopVars
  PROVE  TokenInv'
<1>0. Rest /\ task \in [Task -> TaskRecord] /\ HooksInv /\ TokenInv /\ (\A v \in Task : TaskInv(v))
  BY DEF ShopInv
<1>. USE <1>0 DEF Rest, TaskRecord, TaskInv, HooksInv, TokenInv, Ended, Epoch
<1>1. CASE Install
  BY <1>1 DEF Install, On, shopify, stored, notes
<1>2. CASE Uninstall
  BY <1>2 DEF Uninstall, On, shopify, stored, notes
<1>3. CASE CooldownEnds
  BY <1>3 DEF CooldownEnds, On, shopify, stored, notes
<1>4. CASE ShopRestart
  BY <1>4 DEF ShopRestart, Idle, On, Working, shopify, stored, notes
<1>5. ASSUME NEW t \in Task, OpenApp(t) PROVE TokenInv'
  BY <1>5 DEF OpenApp, To, On, shopify, stored, notes
<1>6. ASSUME NEW t \in Task, CallbackRefused(t) PROVE TokenInv'
  BY <1>6 DEF CallbackRefused, Finished, Idle, On, shopify, stored, notes
<1>7. ASSUME NEW t \in Task, OpenAdminPage(t) PROVE TokenInv'
  BY <1>7 DEF OpenAdminPage, To, On, shopify, stored, notes
<1>8. ASSUME NEW t \in Task, BuildPlanes(t) PROVE TokenInv'
  BY <1>8 DEF BuildPlanes, On, shopify, stored, notes
<1>9. ASSUME NEW t \in Task, CallbackToken(t) PROVE TokenInv'
  BY <1>9 DEF CallbackToken, On, shopify, stored, notes
<1>10. ASSUME NEW t \in Task, UpsertShop(t) PROVE TokenInv'
  BY <1>10 DEF UpsertShop, To, On, shopify, stored, notes
<1>11. ASSUME NEW t \in Task, StoreToken(t) PROVE TokenInv'
  BY <1>11 DEF StoreToken, Crossing, To, On, shopify, stored, notes
<1>12. ASSUME NEW t \in Task, Probe(t) PROVE TokenInv'
  BY <1>12 DEF Probe, Invalidate, Invalidated, Idle, On, shopify, stored, notes
<1>13. ASSUME NEW t \in Task, Exchange(t) PROVE TokenInv'
  BY <1>13 DEF Exchange, Finished, Idle, On, shopify, stored, notes
<1>14. ASSUME NEW t \in Task, KeepToken(t) PROVE TokenInv'
  BY <1>14 DEF KeepToken, Crossing, To, On, shopify, stored, notes
<1>15. ASSUME NEW t \in Task, Stamp(t) PROVE TokenInv'
  BY <1>15 DEF Stamp, Invalidate, Invalidated, Idle, On, shopify, stored, notes
<1>16. ASSUME NEW t \in Task, SelfCheck(t) PROVE TokenInv'
  BY <1>16 DEF SelfCheck, To, Finished, Idle, On, shopify, stored, notes
<1>17. ASSUME NEW t \in Task, CachePlanes(t) PROVE TokenInv'
  BY <1>17 DEF CachePlanes, Finished, Idle, On, shopify, stored, notes
<1>18. ASSUME NEW t \in Task, Dedupe(t) PROVE TokenInv'
  BY <1>18 DEF Dedupe, To, Finished, Idle, On, shopify, stored, notes
<1>19. ASSUME NEW t \in Task, Accept(t) PROVE TokenInv'
  <2>1. CASE there
    BY <1>19, <2>1 DEF Accept, To, Finished, Idle, On, shopify, stored, notes
  <2>2. CASE ~there
    BY <1>19, <2>2 DEF Accept, To, Finished, Idle, On, shopify, stored, notes
  <2>. QED
    BY <2>1, <2>2
<1>20. ASSUME NEW t \in Task, DeleteSecrets(t) PROVE TokenInv'
  BY <1>20 DEF DeleteSecrets, To, On, shopify, stored, notes
<1>21. ASSUME NEW t \in Task, ListCredentials(t) PROVE TokenInv'
  BY <1>21 DEF ListCredentials, On, shopify, stored, notes
<1>22. ASSUME NEW t \in Task, RevokeNext(t) PROVE TokenInv'
  BY <1>22 DEF RevokeNext, To, On, shopify, stored, notes
<1>23. ASSUME NEW t \in Task, MarkUninstalled(t) PROVE TokenInv'
  BY <1>23 DEF MarkUninstalled, To, On, shopify, stored, notes
<1>24. ASSUME NEW t \in Task, ForgetPlanes(t) PROVE TokenInv'
  BY <1>24 DEF ForgetPlanes, Invalidate, Invalidated, Idle, On, shopify, stored, notes
<1>25. ASSUME NEW t \in Task, NEW e \in Epoch, Deliver(t, e) PROVE TokenInv'
  BY <1>25 DEF Deliver, On, shopify, stored, notes
<1>26. ASSUME NEW e \in Epoch, StopDelivering(e) PROVE TokenInv'
  BY <1>26 DEF StopDelivering, On, shopify, stored, notes
<1>27. ASSUME NEW r \in Cred, CreateCredential(r) PROVE TokenInv'
  BY <1>27 DEF CreateCredential, Removing, On, shopify, stored, notes
<1>28. CASE UNCHANGED shopVars
  BY <1>28 DEF shopVars, On, shopify, stored, notes
<1>29. CASE CustomApp
  BY <1>29 DEF CustomApp, On, stored, notes
<1>30. ASSUME NEW t \in Task, Connect(t) PROVE TokenInv'
  BY <1>30, CustomIsNoInstallation DEF Connect, On, shopify, stored, notes
<1>31. ASSUME NEW t \in Task, Announce(t) PROVE TokenInv'
  BY <1>31 DEF Announce, Invalidate, Invalidated, Announcing, Idle, On, shopify, stored, notes
<1>32. ASSUME NEW t \in Task, Throws(t) PROVE TokenInv'
  BY <1>32 DEF Throws, Announcing, Removal, Idle, On, shopify, stored, notes
<1>. QED
  BY <1>1, <1>2, <1>3, <1>4, <1>5, <1>6, <1>7, <1>8, <1>9, <1>10, <1>11, <1>12, <1>13, <1>14,
     <1>15, <1>16, <1>17, <1>18, <1>19, <1>20, <1>21, <1>22, <1>23, <1>24, <1>25, <1>26, <1>27,
     <1>28, <1>29, <1>30, <1>31, <1>32 DEF ShopNext, Serve

\* Every step keeps the planes in line with the stored token.
LEMMA PlanesStep ==
  ASSUME ShopInv, [ShopNext]_shopVars
  PROVE  PlanesInv'
<1>0. Rest /\ task \in [Task -> TaskRecord] /\ PlanesInv /\ (\A v \in Task : TaskInv(v))
  BY DEF ShopInv
<1>. USE <1>0 DEF TaskRecord, TaskInv, PlanesInv, SomeChange, Announcing
<1>1. CASE Install
  BY <1>1 DEF Install, On, shopify, stored, notes
<1>2. CASE Uninstall
  BY <1>2 DEF Uninstall, On, shopify, stored, notes
<1>3. CASE CooldownEnds
  BY <1>3 DEF CooldownEnds, On, shopify, stored, notes
<1>4. CASE ShopRestart
  BY <1>4 DEF ShopRestart, Idle, On, Working, shopify, stored, notes
<1>5. ASSUME NEW t \in Task, OpenApp(t) PROVE PlanesInv'
  BY <1>5 DEF OpenApp, To, On, shopify, stored, notes
<1>6. ASSUME NEW t \in Task, CallbackRefused(t) PROVE PlanesInv'
  BY <1>6 DEF CallbackRefused, Finished, Idle, On, shopify, stored, notes
<1>7. ASSUME NEW t \in Task, OpenAdminPage(t) PROVE PlanesInv'
  BY <1>7 DEF OpenAdminPage, To, On, shopify, stored, notes
<1>8. ASSUME NEW t \in Task, BuildPlanes(t) PROVE PlanesInv'
  BY <1>8 DEF BuildPlanes, On, shopify, stored, notes
<1>9. ASSUME NEW t \in Task, CallbackToken(t) PROVE PlanesInv'
  BY <1>9 DEF CallbackToken, On, shopify, stored, notes
<1>10. ASSUME NEW t \in Task, UpsertShop(t) PROVE PlanesInv'
  BY <1>10 DEF UpsertShop, To, On, shopify, stored, notes
<1>11. ASSUME NEW t \in Task, StoreToken(t) PROVE PlanesInv'
  BY <1>11 DEF StoreToken, Crossing, To, On, shopify, stored, notes
<1>12. ASSUME NEW t \in Task, Probe(t) PROVE PlanesInv'
  BY <1>12 DEF Probe, Invalidate, Invalidated, Idle, On, shopify, stored, notes
<1>13. ASSUME NEW t \in Task, Exchange(t) PROVE PlanesInv'
  BY <1>13 DEF Exchange, Finished, Idle, On, shopify, stored, notes
<1>14. ASSUME NEW t \in Task, KeepToken(t) PROVE PlanesInv'
  BY <1>14 DEF KeepToken, Crossing, To, On, shopify, stored, notes
<1>15. ASSUME NEW t \in Task, Stamp(t) PROVE PlanesInv'
  BY <1>15 DEF Stamp, Invalidate, Invalidated, Idle, On, shopify, stored, notes
<1>16. ASSUME NEW t \in Task, SelfCheck(t) PROVE PlanesInv'
  BY <1>16 DEF SelfCheck, To, Finished, Idle, On, shopify, stored, notes
<1>17. ASSUME NEW t \in Task, CachePlanes(t) PROVE PlanesInv'
  BY <1>17 DEF CachePlanes, Finished, Idle, On, shopify, stored, notes
<1>18. ASSUME NEW t \in Task, Dedupe(t) PROVE PlanesInv'
  BY <1>18 DEF Dedupe, To, Finished, Idle, On, shopify, stored, notes
<1>19. ASSUME NEW t \in Task, Accept(t) PROVE PlanesInv'
  BY <1>19 DEF Accept, To, Finished, Idle, On, shopify, stored, notes
<1>20. ASSUME NEW t \in Task, DeleteSecrets(t) PROVE PlanesInv'
  BY <1>20 DEF DeleteSecrets, To, On, shopify, stored, notes
<1>21. ASSUME NEW t \in Task, ListCredentials(t) PROVE PlanesInv'
  BY <1>21 DEF ListCredentials, On, shopify, stored, notes
<1>22. ASSUME NEW t \in Task, RevokeNext(t) PROVE PlanesInv'
  BY <1>22 DEF RevokeNext, To, On, shopify, stored, notes
<1>23. ASSUME NEW t \in Task, MarkUninstalled(t) PROVE PlanesInv'
  BY <1>23 DEF MarkUninstalled, To, On, shopify, stored, notes
<1>24. ASSUME NEW t \in Task, ForgetPlanes(t) PROVE PlanesInv'
  BY <1>24 DEF ForgetPlanes, Invalidate, Invalidated, Idle, On, shopify, stored, notes
<1>25. ASSUME NEW t \in Task, NEW e \in Epoch, Deliver(t, e) PROVE PlanesInv'
  BY <1>25 DEF Deliver, On, shopify, stored, notes
<1>26. ASSUME NEW e \in Epoch, StopDelivering(e) PROVE PlanesInv'
  BY <1>26 DEF StopDelivering, On, shopify, stored, notes
<1>27. ASSUME NEW r \in Cred, CreateCredential(r) PROVE PlanesInv'
  BY <1>27 DEF CreateCredential, Removing, On, shopify, stored, notes
<1>28. CASE UNCHANGED shopVars
  BY <1>28 DEF shopVars, On, shopify, stored, notes
<1>29. CASE CustomApp
  BY <1>29 DEF CustomApp, On, stored, notes
<1>30. ASSUME NEW t \in Task, Connect(t) PROVE PlanesInv'
  BY <1>30, CustomIsNoInstallation DEF Connect, On, shopify, stored, notes
<1>31. ASSUME NEW t \in Task, Announce(t) PROVE PlanesInv'
  BY <1>31 DEF Announce, Invalidate, Invalidated, Announcing, Idle, On, shopify, stored, notes
<1>32. ASSUME NEW t \in Task, Throws(t) PROVE PlanesInv'
  BY <1>32 DEF Throws, Announcing, Removal, Idle, On, shopify, stored, notes
<1>. QED
  BY <1>1, <1>2, <1>3, <1>4, <1>5, <1>6, <1>7, <1>8, <1>9, <1>10, <1>11, <1>12, <1>13, <1>14,
     <1>15, <1>16, <1>17, <1>18, <1>19, <1>20, <1>21, <1>22, <1>23, <1>24, <1>25, <1>26, <1>27,
     <1>28, <1>29, <1>30, <1>31, <1>32 DEF ShopNext, Serve

\* Every step keeps what a task is about.
LEMMA TaskStep ==
  ASSUME ShopInv, [ShopNext]_shopVars, NEW u \in Task
  PROVE  TaskInv(u)'
<1>0. Rest /\ task \in [Task -> TaskRecord] /\ HooksInv /\ TokenInv /\ (\A v \in Task : TaskInv(v))
  BY DEF ShopInv
<1>. USE <1>0 DEF Rest, TaskRecord, TaskInv, HooksInv, TokenInv, Ended, Epoch, SomeChange, Announcing
<1>1. CASE Install
  BY <1>1 DEF Install, On, shopify, stored, notes
<1>2. CASE Uninstall
  BY <1>2 DEF Uninstall, On, shopify, stored, notes
<1>3. CASE CooldownEnds
  BY <1>3 DEF CooldownEnds, On, shopify, stored, notes
<1>4. CASE ShopRestart
  BY <1>4 DEF ShopRestart, Idle, On, Working, shopify, stored, notes
<1>5. ASSUME NEW t \in Task, OpenApp(t) PROVE TaskInv(u)'
  BY <1>5 DEF OpenApp, To, On, shopify, stored, notes
<1>6. ASSUME NEW t \in Task, CallbackRefused(t) PROVE TaskInv(u)'
  BY <1>6 DEF CallbackRefused, Finished, Idle, On, shopify, stored, notes
<1>7. ASSUME NEW t \in Task, OpenAdminPage(t) PROVE TaskInv(u)'
  BY <1>7 DEF OpenAdminPage, To, On, shopify, stored, notes
<1>8. ASSUME NEW t \in Task, BuildPlanes(t) PROVE TaskInv(u)'
  BY <1>8 DEF BuildPlanes, On, shopify, stored, notes
<1>9. ASSUME NEW t \in Task, CallbackToken(t) PROVE TaskInv(u)'
  BY <1>9 DEF CallbackToken, On, shopify, stored, notes
<1>10. ASSUME NEW t \in Task, UpsertShop(t) PROVE TaskInv(u)'
  BY <1>10 DEF UpsertShop, To, On, shopify, stored, notes
<1>11. ASSUME NEW t \in Task, StoreToken(t) PROVE TaskInv(u)'
  BY <1>11 DEF StoreToken, Crossing, To, On, shopify, stored, notes
<1>12. ASSUME NEW t \in Task, Probe(t) PROVE TaskInv(u)'
  BY <1>12 DEF Probe, Invalidate, Invalidated, Idle, On, shopify, stored, notes
<1>13. ASSUME NEW t \in Task, Exchange(t) PROVE TaskInv(u)'
  BY <1>13 DEF Exchange, Finished, Idle, On, shopify, stored, notes
<1>14. ASSUME NEW t \in Task, KeepToken(t) PROVE TaskInv(u)'
  BY <1>14 DEF KeepToken, Crossing, To, On, shopify, stored, notes
<1>15. ASSUME NEW t \in Task, Stamp(t) PROVE TaskInv(u)'
  BY <1>15 DEF Stamp, Invalidate, Invalidated, Idle, On, shopify, stored, notes
<1>16. ASSUME NEW t \in Task, SelfCheck(t) PROVE TaskInv(u)'
  <2>1. CASE To(t, "probe")
    BY <1>16, <2>1 DEF SelfCheck, To, Finished, Idle, On, shopify, stored, notes
  <2>2. CASE Finished(t)
    BY <1>16, <2>2 DEF SelfCheck, To, Finished, Idle, On, shopify, stored, notes
  <2>. QED
    BY <1>16, <2>1, <2>2 DEF SelfCheck
<1>17. ASSUME NEW t \in Task, CachePlanes(t) PROVE TaskInv(u)'
  BY <1>17 DEF CachePlanes, Finished, Idle, On, shopify, stored, notes
<1>18. ASSUME NEW t \in Task, Dedupe(t) PROVE TaskInv(u)'
  BY <1>18 DEF Dedupe, To, Finished, Idle, On, shopify, stored, notes
<1>19. ASSUME NEW t \in Task, Accept(t) PROVE TaskInv(u)'
  BY <1>19 DEF Accept, To, Finished, Idle, On, shopify, stored, notes
<1>20. ASSUME NEW t \in Task, DeleteSecrets(t) PROVE TaskInv(u)'
  BY <1>20 DEF DeleteSecrets, To, On, shopify, stored, notes
<1>21. ASSUME NEW t \in Task, ListCredentials(t) PROVE TaskInv(u)'
  BY <1>21 DEF ListCredentials, On, shopify, stored, notes
<1>22. ASSUME NEW t \in Task, RevokeNext(t) PROVE TaskInv(u)'
  BY <1>22 DEF RevokeNext, To, On, shopify, stored, notes
<1>23. ASSUME NEW t \in Task, MarkUninstalled(t) PROVE TaskInv(u)'
  BY <1>23 DEF MarkUninstalled, To, On, shopify, stored, notes
<1>24. ASSUME NEW t \in Task, ForgetPlanes(t) PROVE TaskInv(u)'
  BY <1>24 DEF ForgetPlanes, Invalidate, Invalidated, Idle, On, shopify, stored, notes
<1>25. ASSUME NEW t \in Task, NEW e \in Epoch, Deliver(t, e) PROVE TaskInv(u)'
  BY <1>25 DEF Deliver, On, shopify, stored, notes
<1>26. ASSUME NEW e \in Epoch, StopDelivering(e) PROVE TaskInv(u)'
  BY <1>26 DEF StopDelivering, On, shopify, stored, notes
<1>27. ASSUME NEW r \in Cred, CreateCredential(r) PROVE TaskInv(u)'
  BY <1>27 DEF CreateCredential, Removing, On, shopify, stored, notes
<1>28. CASE UNCHANGED shopVars
  BY <1>28 DEF shopVars, On, shopify, stored, notes
<1>29. CASE CustomApp
  BY <1>29 DEF CustomApp, On, stored, notes
<1>30. ASSUME NEW t \in Task, Connect(t) PROVE TaskInv(u)'
  BY <1>30, CustomIsNoInstallation DEF Connect, On, shopify, stored, notes
<1>31. ASSUME NEW t \in Task, Announce(t) PROVE TaskInv(u)'
  BY <1>31 DEF Announce, Invalidate, Invalidated, Announcing, Idle, On, shopify, stored, notes
<1>32. ASSUME NEW t \in Task, Throws(t) PROVE TaskInv(u)'
  BY <1>32 DEF Throws, Announcing, Removal, Idle, On, shopify, stored, notes
<1>. QED
  BY <1>1, <1>2, <1>3, <1>4, <1>5, <1>6, <1>7, <1>8, <1>9, <1>10, <1>11, <1>12, <1>13, <1>14,
     <1>15, <1>16, <1>17, <1>18, <1>19, <1>20, <1>21, <1>22, <1>23, <1>24, <1>25, <1>26, <1>27,
     <1>28, <1>29, <1>30, <1>31, <1>32 DEF ShopNext, Serve

\* Every step ends the credentials of an installation with it.
LEMMA CredentialsStep ==
  ASSUME ShopInv, [ShopNext]_shopVars
  PROVE  CredentialsEnd'
<1>0. Rest /\ task \in [Task -> TaskRecord] /\ HooksInv /\ CredentialsEnd /\ (\A v \in Task : TaskInv(v))
  BY DEF ShopInv
<1>. USE <1>0 DEF Rest, TaskRecord, TaskInv, HooksInv, Ended, CredentialsEnd
<1>1. CASE Install
  BY <1>1 DEF Install, On, shopify, stored, notes
<1>2. CASE Uninstall
  BY <1>2 DEF Uninstall, On, shopify, stored, notes
<1>3. CASE CooldownEnds
  BY <1>3 DEF CooldownEnds, On, shopify, stored, notes
<1>4. CASE ShopRestart
  BY <1>4 DEF ShopRestart, Idle, On, Working, shopify, stored, notes
<1>5. ASSUME NEW t \in Task, OpenApp(t) PROVE CredentialsEnd'
  BY <1>5 DEF OpenApp, To, On, shopify, stored, notes
<1>6. ASSUME NEW t \in Task, CallbackRefused(t) PROVE CredentialsEnd'
  BY <1>6 DEF CallbackRefused, Finished, Idle, On, shopify, stored, notes
<1>7. ASSUME NEW t \in Task, OpenAdminPage(t) PROVE CredentialsEnd'
  BY <1>7 DEF OpenAdminPage, To, On, shopify, stored, notes
<1>8. ASSUME NEW t \in Task, BuildPlanes(t) PROVE CredentialsEnd'
  BY <1>8 DEF BuildPlanes, On, shopify, stored, notes
<1>9. ASSUME NEW t \in Task, CallbackToken(t) PROVE CredentialsEnd'
  BY <1>9 DEF CallbackToken, On, shopify, stored, notes
<1>10. ASSUME NEW t \in Task, UpsertShop(t) PROVE CredentialsEnd'
  BY <1>10 DEF UpsertShop, To, On, shopify, stored, notes
<1>11. ASSUME NEW t \in Task, StoreToken(t) PROVE CredentialsEnd'
  BY <1>11 DEF StoreToken, Crossing, To, On, shopify, stored, notes
<1>12. ASSUME NEW t \in Task, Probe(t) PROVE CredentialsEnd'
  BY <1>12 DEF Probe, Invalidate, Invalidated, Idle, On, shopify, stored, notes
<1>13. ASSUME NEW t \in Task, Exchange(t) PROVE CredentialsEnd'
  BY <1>13 DEF Exchange, Finished, Idle, On, shopify, stored, notes
<1>14. ASSUME NEW t \in Task, KeepToken(t) PROVE CredentialsEnd'
  BY <1>14 DEF KeepToken, Crossing, To, On, shopify, stored, notes
<1>15. ASSUME NEW t \in Task, Stamp(t) PROVE CredentialsEnd'
  BY <1>15 DEF Stamp, Invalidate, Invalidated, Idle, On, shopify, stored, notes
<1>16. ASSUME NEW t \in Task, SelfCheck(t) PROVE CredentialsEnd'
  BY <1>16 DEF SelfCheck, To, Finished, Idle, On, shopify, stored, notes
<1>17. ASSUME NEW t \in Task, CachePlanes(t) PROVE CredentialsEnd'
  BY <1>17 DEF CachePlanes, Finished, Idle, On, shopify, stored, notes
<1>18. ASSUME NEW t \in Task, Dedupe(t) PROVE CredentialsEnd'
  BY <1>18 DEF Dedupe, To, Finished, Idle, On, shopify, stored, notes
<1>19. ASSUME NEW t \in Task, Accept(t) PROVE CredentialsEnd'
  BY <1>19 DEF Accept, To, Finished, Idle, On, shopify, stored, notes
<1>20. ASSUME NEW t \in Task, DeleteSecrets(t) PROVE CredentialsEnd'
  BY <1>20 DEF DeleteSecrets, To, On, shopify, stored, notes
<1>21. ASSUME NEW t \in Task, ListCredentials(t) PROVE CredentialsEnd'
  BY <1>21 DEF ListCredentials, On, shopify, stored, notes
<1>22. ASSUME NEW t \in Task, RevokeNext(t) PROVE CredentialsEnd'
  BY <1>22 DEF RevokeNext, To, On, shopify, stored, notes
<1>23. ASSUME NEW t \in Task, MarkUninstalled(t) PROVE CredentialsEnd'
  BY <1>23 DEF MarkUninstalled, To, On, shopify, stored, notes
<1>24. ASSUME NEW t \in Task, ForgetPlanes(t) PROVE CredentialsEnd'
  BY <1>24 DEF ForgetPlanes, Invalidate, Invalidated, Idle, On, shopify, stored, notes
<1>25. ASSUME NEW t \in Task, NEW e \in Epoch, Deliver(t, e) PROVE CredentialsEnd'
  BY <1>25 DEF Deliver, On, shopify, stored, notes
<1>26. ASSUME NEW e \in Epoch, StopDelivering(e) PROVE CredentialsEnd'
  BY <1>26 DEF StopDelivering, On, shopify, stored, notes
<1>27. ASSUME NEW r \in Cred, CreateCredential(r) PROVE CredentialsEnd'
  BY <1>27 DEF CreateCredential, Removing, On, shopify, stored, notes
<1>28. CASE UNCHANGED shopVars
  BY <1>28 DEF shopVars, On, shopify, stored, notes
<1>29. CASE CustomApp
  BY <1>29 DEF CustomApp, On, stored, notes
<1>30. ASSUME NEW t \in Task, Connect(t) PROVE CredentialsEnd'
  BY <1>30, CustomIsNoInstallation DEF Connect, On, shopify, stored, notes
<1>31. ASSUME NEW t \in Task, Announce(t) PROVE CredentialsEnd'
  BY <1>31 DEF Announce, Invalidate, Invalidated, Announcing, Idle, On, shopify, stored, notes
<1>32. ASSUME NEW t \in Task, Throws(t) PROVE CredentialsEnd'
  BY <1>32 DEF Throws, Announcing, Removal, Idle, On, shopify, stored, notes
<1>. QED
  BY <1>1, <1>2, <1>3, <1>4, <1>5, <1>6, <1>7, <1>8, <1>9, <1>10, <1>11, <1>12, <1>13, <1>14,
     <1>15, <1>16, <1>17, <1>18, <1>19, <1>20, <1>21, <1>22, <1>23, <1>24, <1>25, <1>26, <1>27,
     <1>28, <1>29, <1>30, <1>31, <1>32 DEF ShopNext, Serve

\* ShopInv is an invariant of a shop's life.
THEOREM ShopInvariance == ShopSpec => []ShopInv
<1>1. ShopInit => ShopInv
  BY ShopInitInv
<1>2. ShopInv /\ [ShopNext]_shopVars => ShopInv'
  BY RestStep, TaskTypeStep, HooksStep, TokenStep, PlanesStep, TaskStep, CredentialsStep DEF ShopInv
<1>. QED
  BY <1>1, <1>2, PTL DEF ShopSpec

\* planesFor and the callers of invalidate, handleWebhook: the planes in memory are
\* those of the stored token, and no token stays behind its installation.
THEOREM ShopIsPresent == ShopSpec => []ShopSafe
<1>1. ASSUME ShopInv PROVE ShopTypeOK
  BY <1>1 DEF ShopInv, Rest, TaskRecord, ShopTypeOK
<1>2. ASSUME ShopInv PROVE PlanesAreCurrent
  BY <1>2 DEF ShopInv, PlanesInv, SomeChange, PlanesAreCurrent
<1>3. ASSUME ShopInv PROVE NoDeadToken
  BY <1>3 DEF ShopInv, Rest, HooksInv, TokenInv, Ended, Epoch, NoDeadToken, Undelivered, On
<1>. QED
  BY <1>1, <1>2, <1>3, ShopInvariance, PTL DEF ShopSafe

\* handleWebhook: no credential outlives the installation it was made in.
THEOREM CredentialsEndWithTheShop == ShopSpec => []CredentialsEnd
<1>1. ShopInv => CredentialsEnd
  BY DEF ShopInv
<1>. QED
  BY <1>1, ShopInvariance, PTL
-----------------------------------------------------------------------------
(* ShopSettings *)

\* What a request stored may be gone from the settings: one that stored later is about
\* the same part, had not read it, or reads nothing.
Superseded(w) ==
  \E v \in Later(w) : writing[v].part = writing[w].part \/ w \notin before[v] \/ writing[v].whole

\* Requests are numbered as they store, and the copy of a request that is to store has
\* what was stored before it was read.
WriterInv(w) ==
  /\ writing[w].at = "done" <=> order[w] # 0
  /\ order[w] <= Cardinality(Stored)
  /\ before[w] \subseteq Stored
  /\ writing[w].at = "store" /\ ~writing[w].whole =>
       \A v \in before[w] : writing[w].copy[writing[v].part] = v \/ Superseded(v)

\* The inductive invariant of ShopSettings.
SettingsInv == SettingsTypeOK /\ SettingsSurvive /\ \A w \in Writer : WriterInv(w)

\* As many have stored as are counted.
LEMMA StoredFinite ==
  ASSUME order \in [Writer -> 0 .. Cardinality(Writer)]
  PROVE  /\ IsFiniteSet(Stored) /\ Cardinality(Stored) \in Nat /\ Cardinality(Writer) \in Nat
         /\ Stored \subseteq Writer
         /\ \A w \in Writer \ Stored :
              /\ Cardinality(Stored \cup {w}) = Cardinality(Stored) + 1
              /\ Cardinality(Stored) + 1 <= Cardinality(Writer)
<1>1. Stored \subseteq Writer
  BY DEF Stored
<1>2. IsFiniteSet(Writer)
  BY WritersAssumption
<1>3. IsFiniteSet(Stored)
  BY <1>1, <1>2, FS_Subset
<1>4. Cardinality(Stored) \in Nat /\ Cardinality(Writer) \in Nat
  BY <1>2, <1>3, FS_CardinalityType
<1>5. ASSUME NEW w \in Writer \ Stored
      PROVE  /\ Cardinality(Stored \cup {w}) = Cardinality(Stored) + 1
             /\ Cardinality(Stored) + 1 <= Cardinality(Writer)
  <2>1. Cardinality(Stored \cup {w}) = Cardinality(Stored) + 1
    BY <1>3, <1>5, FS_AddElement
  <2>2. Stored \cup {w} \subseteq Writer
    BY <1>1, <1>5
  <2>3. Cardinality(Stored \cup {w}) <= Cardinality(Writer)
    BY <1>2, <2>2, FS_Subset
  <2>. QED
    BY <2>1, <2>3
<1>. QED
  BY <1>1, <1>3, <1>4, <1>5

\* At first nothing was stored.
LEMMA SettingsInitInv == SettingsInit => SettingsInv
<1>. SUFFICES ASSUME SettingsInit PROVE SettingsInv
  OBVIOUS
<1>1. Cardinality(Writer) \in Nat
  BY WritersAssumption, FS_CardinalityType
<1>2. SettingsTypeOK
  BY <1>1 DEF SettingsInit, SettingsTypeOK, Copy, Blank, NotWriting, Part
<1>3. Stored = {}
  BY DEF SettingsInit, Stored
<1>4. Cardinality(Stored) = 0
  BY <1>3, FS_EmptySet
<1>. QED
  BY <1>2, <1>3, <1>4 DEF SettingsInit, SettingsInv, SettingsSurvive, WriterInv, NotWriting

\* A request that has read, or connects by token, holds what the settings had kept.
LEMMA ReadStep ==
  ASSUME SettingsInv, NEW w \in Writer,
         Reconnect(w) \/ \E p \in Part : ReadSettings(w, p)
  PROVE  SettingsInv'
<1>0. SettingsTypeOK /\ SettingsSurvive /\ (\A x \in Writer : WriterInv(x)) /\ Stored \subseteq Writer
  BY DEF SettingsInv, Stored
<1>1. PICK c \in Copy, p \in Part, b \in BOOLEAN :
        /\ writing[w].at = "idle" /\ (~b => c = settings)
        /\ writing' = [writing EXCEPT ![w] = [at |-> "store", part |-> p, whole |-> b, copy |-> c]]
        /\ before' = [before EXCEPT ![w] = Stored]
        /\ UNCHANGED <<settings, order>>
  <2>1. Blank \in Copy /\ settings \in Copy /\ "connection" \in Part
    BY <1>0 DEF Blank, Copy, Part, SettingsTypeOK
  <2>2. CASE Reconnect(w)
    BY <2>1, <2>2 DEF Reconnect
  <2>3. CASE \E q \in Part : ReadSettings(w, q)
    BY <2>1, <2>3 DEF ReadSettings
  <2>. QED
    BY <2>2, <2>3
<1>2. Stored' = Stored /\ w \notin Stored
  <2>1. order' = order
    BY <1>1
  <2>2. order[w] = 0
    BY <1>0, <1>1 DEF WriterInv
  <2>. QED
    BY <2>1, <2>2 DEF Stored
<1>3. SettingsTypeOK'
  BY <1>0, <1>1 DEF SettingsTypeOK
<1>4. \A x \in Writer \ {w} : writing'[x] = writing[x] /\ before'[x] = before[x]
  BY <1>0, <1>1 DEF SettingsTypeOK
<1>5. writing'[w] = [at |-> "store", part |-> p, whole |-> b, copy |-> c] /\ before'[w] = Stored
  BY <1>0, <1>1 DEF SettingsTypeOK
<1>6. ASSUME NEW x \in Stored PROVE Later(x)' = Later(x) /\ w \notin Later(x) /\ x # w /\ x \in Writer
  BY <1>0, <1>1, <1>2 DEF Later
<1>7. ASSUME NEW x \in Stored, Superseded(x) PROVE Superseded(x)'
  <2>1. PICK v \in Later(x) : writing[v].part = writing[x].part \/ x \notin before[v] \/ writing[v].whole
    BY <1>7 DEF Superseded
  <2>2. v \in Writer /\ v # w
    BY <1>0, <1>6, <2>1 DEF Later
  <2>. QED
    BY <1>4, <1>6, <2>1, <2>2 DEF Superseded
<1>8. SettingsSurvive'
  <2>1. ASSUME NEW x \in Stored PROVE settings[writing[x].part] = x \/ Superseded(x)
    BY <1>0 DEF SettingsSurvive, Superseded
  <2>2. ASSUME NEW x \in Stored PROVE settings'[writing'[x].part] = x \/ Superseded(x)'
    BY <1>1, <1>4, <1>6, <1>7, <2>1
  <2>. QED
    BY <1>2, <2>2 DEF SettingsSurvive, Superseded
<1>9. ASSUME NEW x \in Writer PROVE WriterInv(x)'
  <2>0. Cardinality(Stored') = Cardinality(Stored) /\ order' = order /\ Cardinality(Stored) \in Nat
    BY <1>0, <1>1, <1>2, StoredFinite DEF SettingsTypeOK
  <2>1. CASE x = w
    <3>1. ASSUME NEW v \in Stored, ~b PROVE c[writing'[v].part] = v \/ Superseded(v)'
      BY <1>0, <1>1, <1>4, <1>6, <1>7, <3>1 DEF SettingsSurvive, Superseded
    <3>2. order[w] = 0
      BY <1>0, <1>1 DEF WriterInv
    <3>. QED
      BY <1>2, <1>5, <2>0, <2>1, <3>1, <3>2 DEF WriterInv
  <2>2. CASE x # w
    <3>1. /\ writing[x].at = "done" <=> order[x] # 0
          /\ order[x] <= Cardinality(Stored) /\ before[x] \subseteq Stored
          /\ writing'[x] = writing[x] /\ before'[x] = before[x]
      BY <1>0, <1>4, <2>2 DEF WriterInv
    <3>2. ASSUME writing[x].at = "store", ~writing[x].whole, NEW v \in before[x]
          PROVE  writing[x].copy[writing'[v].part] = v \/ Superseded(v)'
      BY <1>0, <1>4, <1>6, <1>7, <3>1, <3>2 DEF WriterInv
    <3>. QED
      BY <1>2, <2>0, <3>1, <3>2 DEF WriterInv
  <2>. QED
    BY <2>1, <2>2
<1>. QED
  BY <1>3, <1>8, <1>9 DEF SettingsInv

\* Storing overwrites only what the request had not read, or its own part.
LEMMA StoreStep ==
  ASSUME SettingsInv, NEW w \in Writer, StoreSettings(w)
  PROVE  SettingsInv'
<1>0. SettingsTypeOK /\ SettingsSurvive /\ (\A x \in Writer : WriterInv(x))
  BY DEF SettingsInv
<1>1. /\ writing[w].at = "store" /\ order[w] = 0 /\ w \notin Stored
      /\ writing[w].part \in Part /\ writing[w].copy \in Copy
  BY <1>0 DEF StoreSettings, WriterInv, Stored, SettingsTypeOK
<1>2. /\ IsFiniteSet(Stored) /\ Cardinality(Stored) \in Nat /\ Cardinality(Writer) \in Nat
      /\ Stored \subseteq Writer
      /\ Cardinality(Stored \cup {w}) = Cardinality(Stored) + 1
      /\ Cardinality(Stored) + 1 <= Cardinality(Writer)
  BY <1>0, <1>1, StoredFinite DEF SettingsTypeOK
<1>3. /\ order' = [order EXCEPT ![w] = Cardinality(Stored) + 1]
      /\ order \in [Writer -> 0 .. Cardinality(Writer)]
  BY <1>0 DEF StoreSettings, SettingsTypeOK
<1>4. /\ order' \in [Writer -> 0 .. Cardinality(Writer)]
      /\ order'[w] = Cardinality(Stored) + 1 /\ \A x \in Writer \ {w} : order'[x] = order[x]
  BY <1>2, <1>3
<1>5. Stored' = Stored \cup {w}
  BY <1>2, <1>4 DEF Stored
<1>6. Cardinality(Stored') = Cardinality(Stored) + 1
  BY <1>2, <1>5
<1>7. /\ \A x \in Writer : /\ writing'[x].part = writing[x].part
                           /\ writing'[x].whole = writing[x].whole
      /\ \A x \in Writer \ {w} : writing'[x] = writing[x]
      /\ writing'[w].at = "done" /\ before' = before
  BY <1>0 DEF StoreSettings, SettingsTypeOK
<1>8. settings' = [writing[w].copy EXCEPT ![writing[w].part] = w]
  BY DEF StoreSettings
<1>9. SettingsTypeOK'
  <2>1. settings' \in Copy
    BY <1>1, <1>8 DEF Copy
  <2>2. Blank \in Copy
    BY DEF Blank, Copy
  <2>3. writing' \in [Writer -> [at : {"idle", "store", "done"}, part : Part, whole : BOOLEAN, copy : Copy]]
    BY <1>0, <2>2 DEF StoreSettings, SettingsTypeOK
  <2>. QED
    BY <1>0, <1>4, <1>7, <2>1, <2>3 DEF SettingsTypeOK
<1>10. ASSUME NEW x \in Stored
       PROVE  x \in Writer /\ x # w /\ w \in Later(x)' /\ Later(x) \subseteq Later(x)'
  <2>1. x \in Writer /\ x # w /\ order'[x] = order[x] /\ order[x] \in Nat
    BY <1>1, <1>2, <1>3, <1>4
  <2>2. order[x] <= Cardinality(Stored)
    BY <1>0, <2>1 DEF WriterInv
  <2>3. order'[w] > order'[x] /\ w \in Stored'
    BY <1>2, <1>4, <1>5, <2>1, <2>2
  <2>4. ASSUME NEW v \in Later(x) PROVE v \in Later(x)'
    BY <1>1, <1>2, <1>4, <1>5, <2>1 DEF Later
  <2>. QED
    BY <2>1, <2>3, <2>4 DEF Later
<1>11. ASSUME NEW x \in Stored, Superseded(x) PROVE Superseded(x)'
  <2>1. PICK v \in Later(x) : writing[v].part = writing[x].part \/ x \notin before[v] \/ writing[v].whole
    BY <1>11 DEF Superseded
  <2>2. v \in Writer /\ x \in Writer /\ v \in Later(x)'
    BY <1>2, <1>10, <2>1 DEF Later
  <2>. QED
    BY <1>7, <2>1, <2>2 DEF Superseded
<1>12. ASSUME NEW x \in Stored' PROVE settings'[writing'[x].part] = x \/ Superseded(x)'
  <2>1. CASE x = w
    BY <1>1, <1>7, <1>8, <2>1 DEF Copy
  <2>2. CASE x # w /\ (writing[w].whole \/ x \notin before[w] \/ writing[x].part = writing[w].part)
    <3>1. x \in Stored /\ x \in Writer /\ w \in Later(x)'
      BY <1>5, <1>10, <1>12, <2>2
    <3>2. writing'[w].whole \/ x \notin before'[w] \/ writing'[w].part = writing'[x].part
      BY <1>7, <2>2, <3>1
    <3>. QED
      BY <3>1, <3>2 DEF Superseded
  <2>3. CASE x # w /\ ~writing[w].whole /\ x \in before[w] /\ writing[x].part # writing[w].part
    <3>1. x \in Stored /\ x \in Writer /\ writing[x].part \in Part
      BY <1>0, <1>2, <1>5, <1>12, <2>3 DEF SettingsTypeOK
    <3>2. writing[w].copy[writing[x].part] = x \/ Superseded(x)
      BY <1>0, <1>1, <2>3 DEF WriterInv
    <3>3. settings'[writing'[x].part] = writing[w].copy[writing[x].part]
      BY <1>1, <1>7, <1>8, <2>3, <3>1 DEF Copy
    <3>. QED
      BY <1>11, <3>1, <3>2, <3>3
  <2>. QED
    BY <2>1, <2>2, <2>3
<1>13. ASSUME NEW x \in Writer PROVE WriterInv(x)'
  <2>0. /\ writing[x].at = "done" <=> order[x] # 0
        /\ order[x] <= Cardinality(Stored) /\ before[x] \subseteq Stored /\ order[x] \in Nat
    BY <1>0, <1>2, <1>3 DEF WriterInv
  <2>1. /\ order'[x] <= Cardinality(Stored') /\ before'[x] \subseteq Stored'
        /\ writing'[x].at = "done" <=> order'[x] # 0
    <3>1. CASE x = w
      BY <1>2, <1>4, <1>5, <1>6, <1>7, <2>0, <3>1
    <3>2. CASE x # w
      BY <1>2, <1>4, <1>5, <1>6, <1>7, <2>0, <3>2
    <3>. QED
      BY <3>1, <3>2
  <2>2. ASSUME writing'[x].at = "store", ~writing'[x].whole, NEW v \in before'[x]
        PROVE  writing'[x].copy[writing'[v].part] = v \/ Superseded(v)'
    <3>1. x # w /\ writing'[x] = writing[x] /\ v \in before[x] /\ v \in Stored /\ v \in Writer
      BY <1>2, <1>7, <2>0, <2>2
    <3>2. writing[x].copy[writing[v].part] = v \/ Superseded(v)
      BY <1>0, <2>2, <3>1 DEF WriterInv
    <3>. QED
      BY <1>7, <1>11, <3>1, <3>2
  <2>. QED
    BY <2>1, <2>2 DEF WriterInv
<1>14. SettingsSurvive'
  BY <1>12 DEF SettingsSurvive, Superseded
<1>. QED
  BY <1>9, <1>13, <1>14 DEF SettingsInv

\* SettingsInv is an invariant of the settings column.
THEOREM SettingsInvariance == SettingsSpec => []SettingsInv
<1>1. SettingsInit => SettingsInv
  BY SettingsInitInv
<1>2. SettingsInv /\ [SettingsNext]_settingsVars => SettingsInv'
  <2>1. ASSUME SettingsInv, UNCHANGED settingsVars PROVE SettingsInv'
    BY <2>1 DEF settingsVars, SettingsInv, SettingsTypeOK, SettingsSurvive, WriterInv, Superseded, Later, Stored
  <2>. QED
    BY <2>1, ReadStep, StoreStep DEF SettingsNext
<1>. QED
  BY <1>1, <1>2, PTL DEF SettingsSpec

\* The writers of settings_json: what a page has stored is lost only to a request that
\* overlapped, or to one that does not read.
THEOREM SettingsAreKept == SettingsSpec => []SettingsSafe
<1>1. SettingsInv => SettingsSafe
  BY DEF SettingsInv, SettingsSafe
<1>. QED
  BY <1>1, SettingsInvariance, PTL
=============================================================================
