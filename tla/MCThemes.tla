------------------------------ MODULE MCThemes ------------------------------
(* Small instances of what the server does with themes: the working theme,    *)
(* snapshots of its files, and the merges of settings and templates.  They    *)
(* share no state; part says which of them a behaviour is about.              *)
EXTENDS WorkingTheme, Snapshots, SettingsMerge, TLC

VARIABLE part

Values == {Leaf("x"), Leaf("y")}
Objects(V) == {Object(f) : f \in UNION {[K -> V] : K \in SUBSET {"a", "b"}}}
TheTrees == Values \cup Objects(Values \cup Objects({Leaf("x")}) \cup Objects({Leaf("y")}))

TheBlocks == UNION {[K -> {Object("type" :> Leaf("app")), Object("type" :> Leaf("text")),
                           Object("type" :> Leaf("app") @@ "off" :> Leaf("x"))}] : K \in SUBSET {"k1", "k2"}}
TheSettings == [settings : Objects({Leaf("x")}), sections : {Leaf("x")}, blocks : TheBlocks]

Section(B) == [blocks : B, settings : {Object("a" :> Leaf("x"))}, order : {<<>>, <<"k1">>}]
TheSections == [{"s1"} -> Section(TheBlocks)] \cup UNION {[K -> Section({<<>>})] : K \in SUBSET {"s1", "s2", "s3"}}

ThemesInit ==
  /\ part \in {"working", "snapshots", "merge"}
  /\ WorkingThemeInit /\ SnapshotsInit /\ MergeInit
  /\ part # "working" => engine = "graphql"
  /\ part # "snapshots" => \A k, l \in Key : theme[k] = theme[l]
  /\ part # "merge" => kind = "value" /\ base = Leaf("x") /\ patch = Leaf("x")

ThemesNext ==
  /\ UNCHANGED part
  /\ \/ part = "working" /\ WorkingThemeNext /\ UNCHANGED <<snapshotVars, mergeVars>>
     \/ part = "snapshots" /\ SnapshotsNext /\ UNCHANGED <<wtVars, mergeVars>>
     \/ part = "merge" /\ MergeNext /\ UNCHANGED <<wtVars, snapshotVars>>

ThemesSpec == ThemesInit /\ [][ThemesNext]_<<wtVars, snapshotVars, mergeVars, part>>

\* No part has all of these sets, so those of different parts are permuted together.
Id(S) == CHOOSE p \in Permutations(S) : \A x \in S : p[x] = x
Swap(S) == CHOOSE p \in Permutations(S) : \A x \in S : p[x] # x
Both(S, T) == {Id(S) @@ Id(T), Swap(S) @@ Swap(T)}
Symmetry == {p @@ q @@ r : p \in Both(Caller, Snap), q \in Both(File, Key), r \in Permutations(Text)}
=============================================================================
