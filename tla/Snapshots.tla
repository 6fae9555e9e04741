------------------------------ MODULE Snapshots ------------------------------
(***************************************************************************)
(* The snapshot store (packages/ledger/src/snapshots.ts) and the tool that *)
(* fills it (packages/tools/src/tools/snapshots.ts).  The files of a theme *)
(* are listed, then read, then stored one after the other: the content as  *)
(* a blob on disk under its hash, a row for the blob, a row for the file,  *)
(* and last the row that lists the snapshot.  A content stands for its     *)
(* hash.  delete and gcBlobs are operations of the store that no route or  *)
(* tool calls so far.                                                      *)
(***************************************************************************)
EXTENDS Naturals, FiniteSets

CONSTANTS Snap,    \* snapshots, each made by one request
          Key,     \* files of the theme
          Text,    \* what they may hold
          Gone,    \* no such file
          MaxSaves, MaxRestarts  \* bounds

ASSUME SnapshotsAssumption ==
  Gone \notin Text /\ IsFiniteSet(Key) /\ {MaxSaves, MaxRestarts} \subseteq Nat

VARIABLES
  theme,    \* what each file of the theme holds
  disk,     \* each blob: "none", "partial" or "whole"
  blobRows, \* the rows of blobs
  entries,  \* the rows of snapshot_files: snapshot, key and content
  snapshots,\* the rows of snapshots: how many files each has
  req,      \* where the request of each snapshot is, and what it has of each file
  gc,       \* where gcBlobs is
  moment,   \* history: the theme as it was when the files were listed; Gone: not listed
  disturbed,\* history: snapshots during whose reading the theme changed
  swept,    \* history: snapshots during whose making gcBlobs ran
  met,      \* history: snapshots whose making overlapped another
  torn,     \* history: blobs a restart left partial
  removing, \* history: snapshots delete was asked for
  saves, restarts

snapshotVars == <<theme, disk, blobRows, entries, snapshots, req, gc, moment, disturbed, swept, met,
                  torn, removing, saves, restarts>>

Held == Text \cup {Gone}
NotBegun == [at |-> "new", keys |-> {}, got |-> [k \in Key |-> Gone], key |-> Gone]
NoGc == [at |-> "idle", todo |-> {}, blob |-> Gone]

Unlisted == Cardinality(Key) + 1   \* in place of a file count: no such row

SnapshotsTypeOK ==
  /\ theme \in [Key -> Held] /\ disk \in [Text -> {"none", "partial", "whole"}] /\ blobRows \subseteq Text
  /\ entries \subseteq Snap \X Key \X Text
  /\ \A e, d \in entries : e[1] = d[1] /\ e[2] = d[2] => e = d
  /\ \A e \in entries : e[1] \notin swept => e[3] \in blobRows
  /\ snapshots \in [Snap -> 0 .. Unlisted]
  /\ \A s \in Snap : /\ req[s].at \in {"new", "read", "blob", "look", "row", "entry", "list", "done", "failed"}
                     /\ req[s].keys \subseteq Key /\ req[s].got \in [Key -> Held]
  /\ gc.at \in {"idle", "look", "unlink", "row"} /\ gc.todo \subseteq Text
  /\ saves \in 0 .. MaxSaves /\ restarts \in 0 .. MaxRestarts

SnapshotsInit ==
  /\ theme \in [Key -> Text] /\ disk = [t \in Text |-> "none"] /\ blobRows = {} /\ entries = {}
  /\ snapshots = [s \in Snap |-> Unlisted] /\ req = [s \in Snap |-> NotBegun] /\ gc = NoGc
  /\ moment = [s \in Snap |-> theme] /\ disturbed = {} /\ swept = {} /\ met = {} /\ torn = {}
  /\ removing = {} /\ saves = 0 /\ restarts = 0

Making(s) == req[s].at \notin {"new", "done", "failed"}
Goto(s, at) == req' = [req EXCEPT ![s].at = at]
End(s, at) == req' = [req EXCEPT ![s] = [NotBegun EXCEPT !.at = at]]
Has(s) == {k \in Key : req[s].got[k] # Gone}
KeysOf(s) == {e[2] : e \in {e \in entries : e[1] = s}}

-----------------------------------------------------------------------------
(* Making a snapshot *)

Past == UNCHANGED <<moment, disturbed, swept, met, removing, saves, restarts>>

\* listFiles.
ListFiles(s) ==
  /\ req[s].at = "new"
  /\ req' = [req EXCEPT ![s] = [NotBegun EXCEPT !.at = "read", !.keys = {k \in Key : theme[k] # Gone}]]
  /\ moment' = [moment EXCEPT ![s] = theme]
  /\ met' = met \cup IF \E r \in Snap : Making(r) THEN {s} \cup {r \in Snap : Making(r)} ELSE {}
  /\ swept' = IF gc.at # "idle" THEN swept \cup {s} ELSE swept
  /\ UNCHANGED <<theme, disk, blobRows, entries, snapshots, gc, disturbed, torn, removing, saves, restarts>>

\* readFiles, over several requests: GraphQL leaves a file that is gone out, the proxy throws.
ReadFiles(s) ==
  /\ req[s].at = "read"
  /\ \/ \E k \in req[s].keys :
          \/ req' = [req EXCEPT ![s].keys = @ \ {k}, ![s].got[k] = theme[k]]
          \/ theme[k] = Gone /\ End(s, "failed")
     \/ req[s].keys = {} /\ Goto(s, IF Has(s) = {} THEN "list" ELSE "blob")
  /\ UNCHANGED <<theme, disk, blobRows, entries, snapshots, gc, torn>> /\ Past

\* writeBlob: a path that exists is taken for the blob.
WriteBlob(s) ==
  /\ req[s].at = "blob"
  /\ \E k \in Has(s) \ KeysOf(s) :
       /\ disk' = [disk EXCEPT ![req[s].got[k]] = IF @ = "none" THEN "whole" ELSE @]
       /\ req' = [req EXCEPT ![s].at = "look", ![s].key = k]
  /\ UNCHANGED <<theme, blobRows, entries, snapshots, gc, torn>> /\ Past

Blob(s) == req[s].got[req[s].key]
\* ensureBlobRow selects, and inserts if there is none.
LookForRow(s) ==
  /\ req[s].at = "look" /\ Goto(s, IF Blob(s) \in blobRows THEN "entry" ELSE "row")
  /\ UNCHANGED <<theme, disk, blobRows, entries, snapshots, gc, torn>> /\ Past
\* A row that came up in between is a clash of primary keys, which ends the request.
InsertRow(s) ==
  /\ req[s].at = "row" /\ IF Blob(s) \in blobRows THEN End(s, "failed") ELSE Goto(s, "entry")
  /\ blobRows' = blobRows \cup {Blob(s)}
  /\ UNCHANGED <<theme, disk, entries, snapshots, gc, torn>> /\ Past

InsertEntry(s) ==
  /\ req[s].at = "entry" /\ entries' = entries \cup {<<s, req[s].key, Blob(s)>>}
  /\ Goto(s, IF Has(s) \ {req[s].key} \subseteq KeysOf(s) THEN "list" ELSE "blob")
  /\ UNCHANGED <<theme, disk, blobRows, snapshots, gc, torn>> /\ Past

\* Fault: the snapshot is listed before its last file is stored.
InsertEarly(s) ==
  /\ req[s].at \in {"list", "entry"} /\ snapshots' = [snapshots EXCEPT ![s] = Cardinality(Has(s))]
  /\ End(s, "done")
  /\ UNCHANGED <<theme, disk, blobRows, entries, gc, torn>> /\ Past
InsertSnapshot(s) ==
  /\ req[s].at = "list" /\ snapshots' = [snapshots EXCEPT ![s] = Cardinality(Has(s))]
  /\ End(s, "done")
  /\ UNCHANGED <<theme, disk, blobRows, entries, gc, torn>> /\ Past

-----------------------------------------------------------------------------
(* delete and gcBlobs *)

\* The rows of the files go first, the snapshot is listed until the second statement.
DeleteEntries(s) ==
  /\ snapshots[s] # Unlisted /\ removing' = removing \cup {s}
  /\ entries' = {e \in entries : e[1] # s}
  /\ UNCHANGED <<theme, disk, blobRows, snapshots, req, gc, moment, disturbed, swept, met, torn, saves, restarts>>
DeleteSnapshot(s) ==
  /\ s \in removing /\ snapshots' = [snapshots EXCEPT ![s] = Unlisted]
  /\ UNCHANGED <<theme, disk, blobRows, entries, req, gc, moment, disturbed, swept, met, torn, removing, saves, restarts>>

GcRest == UNCHANGED <<theme, entries, snapshots, req, moment, disturbed, met, torn, removing, saves, restarts>>
GcBegin ==
  /\ gc.at = "idle" /\ blobRows # {} /\ gc' = [NoGc EXCEPT !.at = "look", !.todo = blobRows]
  /\ swept' = swept \cup {s \in Snap : Making(s)}
  /\ UNCHANGED <<disk, blobRows>> /\ GcRest
GcLook ==
  /\ gc.at = "look" /\ UNCHANGED <<disk, blobRows, swept>> /\ GcRest
  /\ IF gc.todo = {} THEN gc' = NoGc
     ELSE \E t \in gc.todo :
            gc' = IF \E e \in entries : e[3] = t THEN [gc EXCEPT !.todo = @ \ {t}]
                  ELSE [at |-> "unlink", todo |-> gc.todo \ {t}, blob |-> t]
GcUnlink ==
  /\ gc.at = "unlink" /\ disk' = [disk EXCEPT ![gc.blob] = "none"] /\ gc' = [gc EXCEPT !.at = "row"]
  /\ UNCHANGED <<blobRows, swept>> /\ GcRest
GcDeleteRow ==
  /\ gc.at = "row" /\ blobRows' = blobRows \ {gc.blob} /\ gc' = [gc EXCEPT !.at = "look", !.blob = Gone]
  /\ UNCHANGED <<disk, swept>> /\ GcRest

-----------------------------------------------------------------------------
(* Restarts, and the theme *)

\* A process that dies while writeFileSync runs may leave part of the blob under its final name.
ServerRestarts ==
  /\ restarts < MaxRestarts /\ restarts' = restarts + 1
  /\ req' = [s \in Snap |-> IF Making(s) THEN [NotBegun EXCEPT !.at = "failed"] ELSE req[s]] /\ gc' = NoGc
  /\ \E ts \in SUBSET {req[s].got[k] : s \in {s \in Snap : req[s].at = "blob"}, k \in Key} :
       /\ Cardinality(ts) <= 1 /\ \A t \in ts : t # Gone /\ disk[t] = "none"
       /\ disk' = [t \in Text |-> IF t \in ts THEN "partial" ELSE disk[t]] /\ torn' = torn \cup ts
  /\ UNCHANGED <<theme, blobRows, entries, snapshots, moment, disturbed, swept, met, removing, saves>>

EditTheme(k, t) ==
  /\ saves < MaxSaves /\ saves' = saves + 1 /\ theme[k] # t /\ theme' = [theme EXCEPT ![k] = t]
  /\ disturbed' = disturbed \cup {s \in Snap : req[s].at = "read"}
  /\ UNCHANGED <<disk, blobRows, entries, snapshots, req, gc, moment, swept, met, torn, removing, restarts>>

SnapshotsNext ==
  \/ \E s \in Snap : \/ ListFiles(s) \/ ReadFiles(s) \/ WriteBlob(s) \/ LookForRow(s) \/ InsertRow(s)
                     \/ InsertEntry(s) \/ InsertSnapshot(s) \/ DeleteEntries(s) \/ DeleteSnapshot(s)
  \/ GcBegin \/ GcLook \/ GcUnlink \/ GcDeleteRow \/ ServerRestarts
  \/ \E k \in Key, t \in Held : EditTheme(k, t)

SnapshotsSpec == SnapshotsInit /\ [][SnapshotsNext]_snapshotVars

-----------------------------------------------------------------------------
(* Properties *)

Listed == {s \in Snap : snapshots[s] # Unlisted}

\* A snapshot that is listed has a row for each of its files, until delete is asked for it: a
\* request that fails or is cut off leaves rows, but no listed snapshot.
ListedIsWhole == \A s \in Listed \ removing : Cardinality(KeysOf(s)) = snapshots[s]

\* Each file of a listed snapshot can be read back, unless gcBlobs ran while the snapshot was made
\* or a restart left the blob in part.
ListedIsReadable ==
  \A e \in entries : e[1] \in Listed \ swept /\ e[3] \notin torn => disk[e[3]] = "whole"

\* A snapshot is the theme of one moment, unless the theme changed while it was read.
OneMoment ==
  \A s \in Listed \ (disturbed \cup removing) :
    \A k \in Key : moment[s][k] # Gone => <<s, k, moment[s][k]>> \in entries

\* A request fails by itself only if a file was deleted while it read, another made a snapshot at
\* the same time, or the server restarted.
FailsForAReason ==
  \A s \in Snap : req[s].at = "failed" => s \in met \/ s \in disturbed \/ restarts > 0

\* A snapshot that is listed can be put back (SnapshotStore).
SnapshotsSafe ==
  /\ SnapshotsTypeOK
  /\ ListedIsWhole
  /\ ListedIsReadable
  /\ OneMoment
  /\ FailsForAReason
=============================================================================
