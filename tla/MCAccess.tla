------------------------------ MODULE MCAccess ------------------------------
(* Small instances of who gets in and what is installed: three requests at    *)
(* one address (Login), and one shop that is installed twice, with its token, *)
(* planes, credentials and settings.  They share no state, so a behaviour is  *)
(* about one of them: mix says which one and what its requests may ask for,   *)
(* so that the states of one mix add to those of another.                     *)
EXTENDS Login, ShopLifecycle, ShopSettings, TLC

VARIABLE mix

LoginMixes ==
  { {"signin", "reset", "follow"},
    {"signin", "follow", "signup"},
    {"signup", "confirm"},
    {"signup", "password", "change"},
    {"signup", "operate", "signout"} }

ShopMixes == { {"admin_token"}, {"planes"}, {"credentials"} }

Nowhere(places) == \A t \in Task : task'[t].at \notin places
\* The part of the shop's life that is looked at: its tokens, its planes, its credentials.
Look ==
  \/ /\ mix = {"admin_token"} /\ made' = made /\ custom' = "none" /\ Nowhere({"cache"})
  \/ /\ mix = {"planes"} /\ made' = made /\ epoch' <= 1 /\ custom' # "ended" /\ crossed' = {}
     /\ ~CooldownEnds
  \/ /\ mix = {"credentials"} /\ custom' = "none" /\ Nowhere({"cache", "exchange", "probe"})
     /\ crossed' = {}
     /\ \A t \in Task : ~Throws(t)
     /\ (\E r \in Cred : made'[r] # 0) => made'[CHOOSE r \in Cred : TRUE] # 0

AccessInit ==
  /\ mix \in LoginMixes \cup ShopMixes \cup {{"settings"}}
  /\ LoginInit /\ ShopInit /\ SettingsInit
  /\ mix \notin LoginMixes => listed = {}

\* Two requests that sign up show how they meet.
TwoSignUps == Cardinality({v \in Visit : visit'[v].kind = "signup"}) <= 2

AccessNext ==
  /\ UNCHANGED mix
  /\ \/ /\ mix \in LoginMixes /\ LoginNext /\ \A v \in Visit : visit'[v].kind \in mix \cup {"none"}
        /\ TwoSignUps
        /\ UNCHANGED <<shopVars, settingsVars>>
     \/ mix \in ShopMixes /\ ShopNext /\ Look /\ UNCHANGED <<loginVars, settingsVars>>
     \/ mix = {"settings"} /\ SettingsNext /\ UNCHANGED <<loginVars, shopVars>>

AccessSpec == AccessInit /\ [][AccessNext]_<<loginVars, shopVars, settingsVars, mix>>

\* How the shop's token is repaired, by one request after another.
HealInit == AccessInit /\ mix = {"admin_token"}
HealSpec == HealInit /\ [][AccessNext]_<<loginVars, shopVars, settingsVars, mix>> /\ ShopFairness

Symmetry == Permutations(Visit)
=============================================================================
