------------------------------ MODULE MCRecords ------------------------------
(* Small instances of the records that requests write side by side, and of the *)
(* cache that the tools which read a theme share.  They do not share a row, so *)
(* a behaviour is about one of them: focus says which, and the others do not   *)
(* move.                                                                       *)
EXTENDS Connections, DesignManifests, SupportDesk, Memories, ThemeReads, TLC

CONSTANT b1

VARIABLE focus

recordVars == <<connectionVars, skillVars, manifestVars, deskVars, auditVars, postVars, memoryVars, readVars, focus>>

RecordsInit ==
  /\ focus \in {"connections", "skills", "manifests", "desk", "audits", "posts", "memories", "reading"}
  /\ ConnectionsInit /\ SkillsInit /\ ManifestsInit /\ DeskInit /\ AuditsInit /\ PostsInit
  /\ MemoriesInit
  /\ ours = ThemeId /\ body = [t \in ThemeId |-> [k \in FileKey |-> b1]]
  /\ focus # "reading" => proof = [k \in FileKey |-> "nothing"]
  /\ ThemeReadsInit
  /\ focus # "memories" => memory = NoRow

\* The calls are alike until they begin.
CallsBeginInOrder == \A c, d \in Call : c < d /\ kind'[d] # "none" => kind'[c] # "none"

\* Only the cache makes one reader matter to another: the second begins later and uses it.
ReadingMoves ==
  /\ ThemeReadsNext
  /\ reader'[2].at # "idle" => reader'[1].at # "idle" /\ (reader'[2].at # "over" => reader'[2].reads = "set")

RecordsNext ==
  /\ UNCHANGED focus
  /\ \/ focus = "connections" /\ ConnectionsNext
        /\ UNCHANGED <<skillVars, manifestVars, deskVars, auditVars, postVars, memoryVars, readVars>>
     \/ focus = "skills" /\ SkillsNext
        /\ UNCHANGED <<connectionVars, manifestVars, deskVars, auditVars, postVars, memoryVars, readVars>>
     \/ focus = "manifests" /\ ManifestsNext
        /\ UNCHANGED <<connectionVars, skillVars, deskVars, auditVars, postVars, memoryVars, readVars>>
     \/ focus = "desk" /\ DeskNext
        /\ UNCHANGED <<connectionVars, skillVars, manifestVars, auditVars, postVars, memoryVars, readVars>>
     \/ focus = "audits" /\ AuditsNext
        /\ UNCHANGED <<connectionVars, skillVars, manifestVars, deskVars, postVars, memoryVars, readVars>>
     \/ focus = "posts" /\ PostsNext
        /\ UNCHANGED <<connectionVars, skillVars, manifestVars, deskVars, auditVars, memoryVars, readVars>>
     \/ focus = "memories" /\ MemoriesNext /\ CallsBeginInOrder
        /\ UNCHANGED <<connectionVars, skillVars, manifestVars, deskVars, auditVars, postVars, readVars>>
     \/ focus = "reading" /\ ReadingMoves
        /\ UNCHANGED <<connectionVars, skillVars, manifestVars, deskVars, auditVars, postVars, memoryVars>>

RecordsSpec == RecordsInit /\ [][RecordsNext]_recordVars

\* What requests that meet at a row may lose is lost nowhere else: skills, design manifests,
\* support tickets, audit sessions, posts and what is read of a theme.
RecordsSafe == SkillsSafe /\ ManifestsSafe /\ DeskSafe /\ AuditsSafe /\ PostsSafe /\ ReadsSafe
=============================================================================
