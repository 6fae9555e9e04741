---------------------------- MODULE ShopSettings ----------------------------
(***************************************************************************)
(* The settings of a shop are one JSON column, shops.settings_json, with   *)
(* several writers: the switches of the tools, the privacy page and the    *)
(* memory page (api/admin.ts, mcp/execute.ts), the OAuth callback          *)
(* (auth/shopify.ts) and the connection by token (shopify/token-connect.ts)*)
(* Each takes the whole object, changes its own part and stores the whole  *)
(* object; the read and the write are two statements.                      *)
(***************************************************************************)
EXTENDS Naturals, FiniteSets

CONSTANTS Writer,  \* requests; what a request stores carries its name
          Nobody   \* the writer of a part that was never set

ASSUME WritersAssumption == Nobody \notin Writer /\ IsFiniteSet(Writer)

Part == {"disabledTools", "privacy", "memory", "connection"}

VARIABLES
  settings,  \* each part of settings_json, by the request that set it
  writing,   \* each request: where it is, the part it is about, the copy it read
  before,    \* history: the requests that had stored when a request read
  order      \* history: the requests that have stored, in that order

settingsVars == <<settings, writing, before, order>>

Copy == [Part -> Writer \cup {Nobody}]
Blank == [p \in Part |-> Nobody]
NotWriting == [at |-> "idle", part |-> "privacy", whole |-> FALSE, copy |-> Blank]

SettingsTypeOK ==
  /\ settings \in Copy
  /\ writing \in [Writer -> [at : {"idle", "store", "done"}, part : Part,
                             whole : BOOLEAN, copy : Copy]]
  /\ before \in [Writer -> SUBSET Writer]
  /\ order \in [Writer -> 0 .. Cardinality(Writer)]

SettingsInit ==
  /\ settings = Blank
  /\ writing = [w \in Writer |-> NotWriting]
  /\ before = [w \in Writer |-> {}] /\ order = [w \in Writer |-> 0]

Stored == {w \in Writer : order[w] > 0}

\* The pages bring the row along from the check of their session, the callback and
\* the memory service select it.
ReadSettings(w, p) ==
  /\ writing[w].at = "idle"
  /\ writing' = [writing EXCEPT ![w] = [at |-> "store", part |-> p, whole |-> FALSE,
                                        copy |-> settings]]
  /\ before' = [before EXCEPT ![w] = Stored]
  /\ UNCHANGED <<settings, order>>

\* connectWithToken reads nothing: its object takes the place of what is there.
Reconnect(w) ==
  /\ writing[w].at = "idle"
  /\ writing' = [writing EXCEPT ![w] = [at |-> "store", part |-> "connection", whole |-> TRUE,
                                        copy |-> Blank]]
  /\ before' = [before EXCEPT ![w] = Stored]
  /\ UNCHANGED <<settings, order>>

\* Fault: a page stores its own part and forgets the rest of what it read.
StorePart(w) ==
  /\ writing[w].at = "store"
  /\ writing' = [writing EXCEPT ![w].at = "done", ![w].copy = Blank]
  /\ settings' = [Blank EXCEPT ![writing[w].part] = w]
  /\ order' = [order EXCEPT ![w] = Cardinality(Stored) + 1]
  /\ UNCHANGED before

\* ShopRepo.upsert with the settings it is given.
StoreSettings(w) ==
  /\ writing[w].at = "store"
  /\ writing' = [writing EXCEPT ![w].at = "done", ![w].copy = Blank]
  /\ settings' = [writing[w].copy EXCEPT ![writing[w].part] = w]
  /\ order' = [order EXCEPT ![w] = Cardinality(Stored) + 1]
  /\ UNCHANGED before

SettingsNext ==
  \E w \in Writer : (\E p \in Part : ReadSettings(w, p)) \/ Reconnect(w) \/ StoreSettings(w)

SettingsSpec == SettingsInit /\ [][SettingsNext]_settingsVars
-----------------------------------------------------------------------------
Later(w) == {v \in Stored : order[v] > order[w]}

\* What a page has stored stays until its own part is stored again: it is lost only
\* to a request that had read the settings before, or to a connection by token,
\* which keeps nothing of them.
SettingsSurvive ==
  \A w \in Stored :
    \/ settings[writing[w].part] = w
    \/ \E v \in Later(w) : \/ writing[v].part = writing[w].part
                           \/ w \notin before[v] \/ writing[v].whole

\* The settings column is a settings record, and parts of it are lost only to requests that overlapped.
SettingsSafe == SettingsTypeOK /\ SettingsSurvive
=============================================================================
