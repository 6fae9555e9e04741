---------------------------- MODULE RecordsProofs ----------------------------
(***************************************************************************)
(* Theorems about the records that requests write side by side, for any    *)
(* requests that overlap and die: memories, the counts of connections,     *)
(* skills, design manifests, support tickets, audit sessions, posts, and   *)
(* what the tools read of a theme.                                         *)
(***************************************************************************)
EXTENDS MCRecords, FiniteSetTheorems, TLAPS

-----------------------------------------------------------------------------
(* Memories *)

\* The versions of a history h that are newer than v.
Above(h, v) == {w \in Version : h[w] # Nothing /\ w > v}

\* Calls that were counting, are to trim more than v, or died: p says where calls are, a what they
\* answered, and k what they are about to remove.
Behind(p, a, k, v) ==
  {d \in Call : p[d] = "count" \/ (p[d] = "end" /\ a[d] = "none") \/ (p[d] = "trim" /\ k[d] > v)}

\* Calls that wrote a version and have not trimmed, or never will.
Untrimmed(p, a) == {d \in Call : p[d] \in {"count", "trim"} \/ (p[d] = "end" /\ a[d] = "none")}

\* The calls that have read the row they write.
Readers(k) == {c \in Call : k[c] # 0}

\* The call has written its text, under its version.
Wrote(c) == pc[c] \in {"count", "trim"} \/ Saved(c)

\* A call's version, text and kind are there when its place needs them.
CallReady(c) ==
  /\ pc[c] \in {"idle", "own", "pick", "shop", "get"} => version[c] = 0
  /\ pc[c] # "end" => answer[c] = "none"
  /\ pc[c] = "own" => kind[c] \in {"save", "restore", "delete"}
  /\ pc[c] \in {"wipe", "drop"} => kind[c] = "delete"
  /\ pc[c] = "own" /\ kind[c] = "save" => text[c] \in Text
  /\ pc[c] \in {"shop", "get"} => text[c] \in Text
  /\ pc[c] \in {"insert", "update", "record"} \/ Wrote(c) => version[c] \in Version
     /\ text[c] \in Text
  /\ pc[c] = "trim" => cutoff[c] \in Version

\* No version is higher than the calls that read one can have made it.
VersionsInReach ==
  /\ memory.version <= 1 + Cardinality(Readers(version))
  /\ \A c \in Call : version[c] <= 1 + Cardinality(Readers(version))

\* What a call wrote is there, or enough that is newer.
Kept(c) ==
  Wrote(c) /\ c \notin wiped =>
    history[version[c]] = text[c] \/ Cardinality(Above(history, version[c])) >= Keep

\* What a call is about to remove leaves Keep versions, and those that others have still to trim.
TrimsWell(c) ==
  pc[c] = "trim" =>
    /\ c \notin wiped => Cardinality(Above(history, cutoff[c])) >= Keep
    /\ Cardinality(Above(history, cutoff[c]))
         <= Keep + Cardinality(Behind(pc, answer, cutoff, cutoff[c]))

\* What the history holds beyond Keep was written by calls that are to trim, or died.
Bounded == Cardinality(Above(history, 0)) <= Keep + Cardinality(Untrimmed(pc, answer))

\* The inductive invariant of Memories.
HistoryInv == (\A c \in Call : Kept(c) /\ TrimsWell(c)) /\ Bounded
MemoriesInv == MemoriesTypeOK /\ (\A c \in Call : CallReady(c)) /\ VersionsInReach /\ HistoryInv

\* The constants, as sets and numbers.
LEMMA MemoryBounds ==
  /\ IsFiniteSet(Call) /\ Cardinality(Call) \in Nat /\ Keep \in Nat \ {0}
  /\ IsFiniteSet(Version) /\ Version \subseteq Nat \ {0}
  /\ Nothing \notin Text /\ Call \subseteq Text
<1>1. IsFiniteSet(Call) /\ Keep \in Nat \ {0}
  BY MemoriesAssumption
<1>2. PICK n \in Nat : n = Cardinality(Call)
  BY <1>1, FS_CardinalityType
<1>3. IsFiniteSet(1 .. n + 1) /\ 1 .. n + 1 \subseteq Nat \ {0}
  BY FS_Interval
<1> QED BY <1>1, <1>2, <1>3, MemoriesAssumption DEF Version, Text

\* Less is newer than a newer version.
LEMMA AboveShrinks ==
  ASSUME NEW h, NEW u \in Nat, NEW v \in Nat, u <= v
  PROVE  Above(h, v) \subseteq Above(h, u)
<1>1. \A w \in Version : w \in Nat
  BY MemoryBounds
<1> QED BY <1>1 DEF Above

\* Every recorded version is newer than 0.
LEMMA RecordedIsAbove == Recorded = Above(history, 0)
<1>1. \A w \in Version : w \in Nat /\ w # 0
  BY MemoryBounds
<1>2. \A w \in Version : w > 0
  BY <1>1
<1> QED BY <1>2 DEF Recorded, Above

\* Sets of versions, and of calls, are finite.
LEMMA AboveIsFinite ==
  ASSUME NEW h, NEW v
  PROVE  IsFiniteSet(Above(h, v)) /\ Cardinality(Above(h, v)) \in Nat
<1>1. Above(h, v) \in SUBSET Version
  BY DEF Above
<1>2. IsFiniteSet(Above(h, v))
  BY <1>1, MemoryBounds, FS_Subset
<1> QED BY <1>2, FS_CardinalityType

\* Sets of calls are finite, and no larger than the set of all.
LEMMA CallsAreFinite ==
  ASSUME NEW D \in SUBSET Call
  PROVE  IsFiniteSet(D) /\ Cardinality(D) \in Nat /\ Cardinality(D) <= Cardinality(Call)
<1>1. IsFiniteSet(D) /\ Cardinality(D) <= Cardinality(Call)
  BY MemoryBounds, FS_Subset
<1> QED BY <1>1, FS_CardinalityType

\* A part has no more members than the whole.
LEMMA FewerAbove ==
  ASSUME NEW h, NEW v, NEW g, NEW u, Above(h, v) \subseteq Above(g, u)
  PROVE  Cardinality(Above(h, v)) <= Cardinality(Above(g, u))
<1>1. PICK A : A = Above(g, u)
  OBVIOUS
<1>2. PICK B \in SUBSET A : B = Above(h, v)
  BY <1>1
<1>3. IsFiniteSet(A)
  BY <1>1, AboveIsFinite
<1>4. Cardinality(B) <= Cardinality(A)
  BY <1>3, FS_Subset
<1> QED BY <1>1, <1>2, <1>4

\* A set of fewer calls is no larger.
LEMMA FewerCalls ==
  ASSUME NEW A \in SUBSET Call, NEW B \in SUBSET A
  PROVE  Cardinality(B) <= Cardinality(A)
<1>1. IsFiniteSet(A)
  BY CallsAreFinite
<1> QED BY <1>1, FS_Subset

\* A step of a call that neither wrote nor is to write a version leaves the history as it was.
LEMMA QuietKeeps ==
  ASSUME MemoriesInv, NEW c \in Call, NEW p, NEW a,
         pc[c] \notin {"count", "trim", "end"}, p \notin {"count", "trim"},
         pc' = [pc EXCEPT ![c] = p], answer' = [answer EXCEPT ![c] = a],
         p = "end" => a # "none", ~Saved(c)',
         \A d \in Call : d # c => /\ kind'[d] = kind[d] /\ text'[d] = text[d]
                                  /\ version'[d] = version[d] /\ cutoff'[d] = cutoff[d],
         history' = history, wiped' = wiped
  PROVE  HistoryInv'
<1>1. MemoriesTypeOK /\ HistoryInv
  BY DEF MemoriesInv
<1>2. pc'[c] = p /\ answer'[c] = a
      /\ \A d \in Call : d # c => pc'[d] = pc[d] /\ answer'[d] = answer[d]
  BY <1>1 DEF MemoriesTypeOK
<1>3. \A v : Behind(pc', answer', cutoff', v) = Behind(pc, answer, cutoff, v)
  BY <1>2 DEF Behind
<1>4. Untrimmed(pc', answer') = Untrimmed(pc, answer)
  BY <1>2 DEF Untrimmed
<1>5. ASSUME NEW d \in Call PROVE Kept(d)' /\ TrimsWell(d)'
  <2>1. CASE d = c
    BY <2>1, <1>2 DEF Kept, TrimsWell, Wrote
  <2>2. CASE d # c
    <3>1. Wrote(d)' = Wrote(d)
      BY <2>2, <1>2 DEF Wrote, Saved
    <3>2. Kept(d) /\ TrimsWell(d)
      BY <1>1 DEF HistoryInv
    <3>3. Kept(d)'
      BY <3>1, <3>2, <2>2 DEF Kept
    <3>4. TrimsWell(d)'
      BY ZenonT(40), <3>2, <2>2, <1>2, <1>3 DEF TrimsWell
    <3> QED BY <3>3, <3>4
  <2> QED BY <2>1, <2>2
<1>6. Bounded'
  BY <1>1, <1>4 DEF HistoryInv, Bounded
<1> QED BY <1>5, <1>6 DEF HistoryInv

\* What a record adds is counted until its call has trimmed.
LEMMA RecordKeeps ==
  ASSUME MemoriesInv, NEW c \in Call, Record(c)
  PROVE  HistoryInv'
<1>1. MemoriesTypeOK /\ HistoryInv /\ CallReady(c)
  BY DEF MemoriesInv
<1>2. CASE version[c] \in Recorded
  BY <1>2, QuietKeeps DEF Record, End, Goto, Answer, Saved, MemoriesInv, MemoriesTypeOK
<1>3. CASE version[c] \notin Recorded
  <2>1. /\ pc[c] = "record" /\ answer[c] = "none" /\ version[c] \in Version /\ text[c] \in Text
    BY <1>1, <1>3 DEF Record, Goto, CallReady
  <2>2. /\ pc' = [pc EXCEPT ![c] = "count"] /\ history' = [history EXCEPT ![version[c]] = text[c]]
        /\ UNCHANGED <<answer, kind, text, version, cutoff, wiped>>
    BY <1>3 DEF Record, Goto
  <2>3. PICK k \in Version : k = version[c]
    BY <2>1
  <2>a. PICK h : h = history
    OBVIOUS
  <2>b. PICK g : g = history'
    OBVIOUS
  <2>4. /\ h[k] = Nothing /\ g[k] = text[c] /\ g[k] # Nothing
        /\ \A w \in Version : w # k => g[w] = h[w]
    BY <1>1, <1>3, <2>1, <2>2, <2>3, <2>a, <2>b, MemoryBounds DEF Recorded, MemoriesTypeOK
  <2>5. \A v : Above(g, v) = IF k > v THEN Above(h, v) \cup {k} ELSE Above(h, v)
    BY <2>4 DEF Above
  <2>6. ASSUME NEW v
        PROVE  /\ Cardinality(Above(h, v)) <= Cardinality(Above(g, v))
               /\ Cardinality(Above(g, v)) <= Cardinality(Above(h, v)) + 1
    <3>1. PICK A : A = Above(h, v) /\ IsFiniteSet(A) /\ Cardinality(A) \in Nat
      BY AboveIsFinite
    <3>2. k \notin A
      BY <2>4, <3>1 DEF Above
    <3>3. Cardinality(A \cup {k}) = Cardinality(A) + 1
      BY <3>1, <3>2, FS_AddElement
    <3> QED BY <2>5, <3>1, <3>3
  <2>7. pc'[c] = "count" /\ \A d \in Call : d # c => pc'[d] = pc[d]
    BY <1>1, <2>2 DEF MemoriesTypeOK
  <2>8. ASSUME NEW v
        PROVE  Cardinality(Behind(pc', answer', cutoff', v))
                 = Cardinality(Behind(pc, answer, cutoff, v)) + 1
    <3>1. PICK B \in SUBSET Call : B = Behind(pc, answer, cutoff, v)
      BY DEF Behind
    <3>2. Behind(pc', answer', cutoff', v) = B \cup {c} /\ c \notin B
      BY <3>1, <2>1, <2>2, <2>7 DEF Behind
    <3> QED BY <3>1, <3>2, CallsAreFinite, FS_AddElement
  <2>9. Cardinality(Untrimmed(pc', answer')) = Cardinality(Untrimmed(pc, answer)) + 1
    <3>1. PICK B \in SUBSET Call : B = Untrimmed(pc, answer)
      BY DEF Untrimmed
    <3>2. Untrimmed(pc', answer') = B \cup {c} /\ c \notin B
      BY <3>1, <2>1, <2>2, <2>7 DEF Untrimmed
    <3> QED BY <3>1, <3>2, CallsAreFinite, FS_AddElement
  <2>10. ASSUME NEW d \in Call PROVE Kept(d)'
    <3>1. CASE d = c
      BY <3>1, <2>2, <2>3, <2>4, <2>b DEF Kept
    <3>2. CASE d # c
      <4> SUFFICES ASSUME Wrote(d)', d \notin wiped'
                   PROVE  (\/ history[version[d]] = text[d]
                           \/ Cardinality(Above(history, version[d])) >= Keep)'
        BY DEF Kept
      <4>1. Wrote(d) /\ d \notin wiped
        BY <3>2, <2>2, <2>7 DEF Wrote, Saved
      <4>2. version[d] \in Version /\ text[d] \in Text
        BY <4>1 DEF MemoriesInv, CallReady
      <4>3. h[version[d]] = text[d] \/ Cardinality(Above(h, version[d])) >= Keep
        BY <4>1, <1>1, <2>a DEF HistoryInv, Kept
      <4>4. CASE h[version[d]] = text[d]
        <5>1. version[d] # k
          BY <4>2, <4>4, <2>4, MemoryBounds
        <5> QED BY <4>2, <4>4, <5>1, <2>2, <2>4, <2>b
      <4>5. CASE Cardinality(Above(h, version[d])) >= Keep
        <5>1. Cardinality(Above(g, version[d])) >= Keep
          BY <4>5, <2>6, AboveIsFinite, MemoryBounds
        <5> QED BY <5>1, <2>2, <2>b
      <4> QED BY <4>3, <4>4, <4>5
    <3> QED BY <3>1, <3>2
  <2>11. ASSUME NEW d \in Call PROVE TrimsWell(d)'
    <3> SUFFICES ASSUME pc'[d] = "trim" PROVE TrimsWell(d)'
      BY DEF TrimsWell
    <3>1. d # c /\ pc[d] = "trim"
      BY <2>7
    <3>2. PICK v : v = cutoff[d]
      OBVIOUS
    <3>3. /\ d \notin wiped => Cardinality(Above(h, v)) >= Keep
          /\ Cardinality(Above(h, v)) <= Keep + Cardinality(Behind(pc, answer, cutoff, v))
      BY <3>1, <3>2, <1>1, <2>a DEF HistoryInv, TrimsWell
    <3>4. Behind(pc, answer, cutoff, v) \in SUBSET Call
      BY DEF Behind
    <3>5. /\ Cardinality(Above(h, v)) \in Nat /\ Cardinality(Above(g, v)) \in Nat /\ Keep \in Nat
          /\ Cardinality(Behind(pc, answer, cutoff, v)) \in Nat
      BY <3>4, AboveIsFinite, CallsAreFinite, MemoryBounds
    <3>6. /\ d \notin wiped => Cardinality(Above(g, v)) >= Keep
          /\ Cardinality(Above(g, v)) <= Keep + Cardinality(Behind(pc', answer', cutoff', v))
      BY <3>3, <3>5, <2>6, <2>8
    <3> QED BY <3>2, <3>6, <2>2, <2>b DEF TrimsWell
  <2>12. Bounded'
    <3>1. Untrimmed(pc, answer) \in SUBSET Call
      BY DEF Untrimmed
    <3>2. /\ Cardinality(Above(h, 0)) \in Nat /\ Cardinality(Above(g, 0)) \in Nat /\ Keep \in Nat
          /\ Cardinality(Untrimmed(pc, answer)) \in Nat
      BY <3>1, AboveIsFinite, CallsAreFinite, MemoryBounds
    <3>3. Cardinality(Above(h, 0)) <= Keep + Cardinality(Untrimmed(pc, answer))
      BY <1>1, <2>a DEF HistoryInv, Bounded
    <3>4. Cardinality(Above(g, 0)) <= Keep + Cardinality(Untrimmed(pc', answer'))
      BY <3>2, <3>3, <2>6, <2>9
    <3> QED BY <3>4, <2>b DEF Bounded
  <2> QED BY <2>10, <2>11, <2>12 DEF HistoryInv
<1> QED BY <1>2, <1>3

\* A call that has counted knows what Keep leaves, or that there is no more than that.
LEMMA CountKeeps ==
  ASSUME MemoriesInv, NEW c \in Call, Count(c)
  PROVE  HistoryInv'
<1>1. MemoriesTypeOK /\ HistoryInv /\ CallReady(c)
  BY DEF MemoriesInv
<1>2. pc[c] = "count" /\ UNCHANGED <<history, kind, text, version, wiped>>
  BY DEF Count, Goto, End
<1>3. PICK h : h = history
  OBVIOUS
<1>4. /\ \A d \in Call : d # c => pc'[d] = pc[d] /\ answer'[d] = answer[d] /\ cutoff'[d] = cutoff[d]
      /\ \/ /\ pc'[c] = "trim" /\ answer' = answer /\ cutoff'[c] \in Version

               /\ Cardinality(Above(h, cutoff'[c])) = Keep
         \/ /\ pc'[c] = "end" /\ answer'[c] = "ok"
            /\ Cardinality(Above(h, 0)) <= Keep
  <2>1. CASE Cardinality(Recorded) > Keep
    <3>1. PICK v \in CutOff : cutoff' = [cutoff EXCEPT ![c] = v]
      BY <2>1 DEF Count
    <3>2. v \in Version /\ Cardinality(Above(h, v)) = Keep
      <4>1. NewerThan(v) = Above(h, v)
        BY <1>3 DEF NewerThan, Above, Recorded
      <4> QED BY <3>1, <4>1 DEF CutOff, Recorded
    <3> QED BY <2>1, <3>1, <3>2, <1>1 DEF Count, Goto, MemoriesTypeOK
  <2>2. CASE ~(Cardinality(Recorded) > Keep)
    <3>1. Recorded = Above(h, 0)
      BY <1>3, RecordedIsAbove
    <3>2. Cardinality(Above(h, 0)) <= Keep
      BY <2>2, <3>1, AboveIsFinite, MemoryBounds
    <3> QED BY <2>2, <3>2, <1>1 DEF Count, End, Goto, Answer, MemoriesTypeOK
  <2> QED BY <2>1, <2>2
<1>5. ASSUME NEW d \in Call PROVE Kept(d)'
  <2>1. Wrote(d)' => Wrote(d)
    BY <1>2, <1>4 DEF Wrote, Saved
  <2>2. Kept(d)
    BY <1>1 DEF HistoryInv
  <2> QED BY <2>1, <2>2, <1>2 DEF Kept
<1>6. ASSUME NEW d \in Call, pc'[d] = "trim"
      PROVE  /\ d \notin wiped => Cardinality(Above(h, cutoff'[d])) >= Keep
             /\ Cardinality(Above(h, cutoff'[d]))
                  <= Keep + Cardinality(Behind(pc', answer', cutoff', cutoff'[d]))
  <2>1. PICK v : v = cutoff'[d]
    OBVIOUS
  <2>2. PICK B \in SUBSET Call : B = Behind(pc', answer', cutoff', v)
    BY DEF Behind
  <2>3. Cardinality(B) \in Nat /\ Cardinality(Above(h, v)) \in Nat /\ Keep \in Nat
    BY AboveIsFinite, CallsAreFinite, MemoryBounds
  <2>4. CASE d = c
    BY <1>4, <1>6, <2>1, <2>2, <2>3, <2>4
  <2>5. CASE d # c
    <3>1. /\ pc[d] = "trim" /\ v = cutoff[d]
          /\ d \notin wiped => Cardinality(Above(h, v)) >= Keep
          /\ Cardinality(Above(h, v)) <= Keep + Cardinality(Behind(pc, answer, cutoff, v))
      BY <2>1, <2>5, <1>1, <1>3, <1>4, <1>6 DEF HistoryInv, TrimsWell
    <3>2. CASE Cardinality(Above(h, v)) <= Keep
      BY <3>1, <3>2, <2>1, <2>2, <2>3
    <3>3. CASE ~(Cardinality(Above(h, v)) <= Keep)
      <4>0. v \in Version
        BY <3>1 DEF MemoriesInv, CallReady
      <4>n. v \in Nat /\ 0 <= v /\ Version \subseteq Nat
        BY <4>0, MemoryBounds
      <4>1. pc'[c] = "trim" /\ cutoff'[c] > v
        <5>1. CASE pc'[c] = "end" /\ Cardinality(Above(h, 0)) <= Keep
          <6>1. Cardinality(Above(h, v)) <= Cardinality(Above(h, 0))
            <7>1. Above(h, v) \subseteq Above(h, 0)
              BY <4>n, AboveShrinks
            <7> QED BY <7>1, FewerAbove
          <6> QED BY <5>1, <6>1, <3>3, <2>3, AboveIsFinite
        <5>2. CASE pc'[c] = "trim" /\ cutoff'[c] \in Version
               /\ Cardinality(Above(h, cutoff'[c])) = Keep
          <6>1. PICK u \in Version : u = cutoff'[c] /\ Cardinality(Above(h, u)) = Keep
            BY <5>2
          <6>2. ASSUME ~(u > v) PROVE FALSE
            <7>1. Above(h, v) \subseteq Above(h, u)
              BY <4>n, <6>2, AboveShrinks
            <7> QED BY <7>1, <6>1, <3>3, <2>3, FewerAbove
          <6> QED BY <5>2, <6>1, <6>2
        <5> QED BY <5>1, <5>2, <1>4
      <4>2. Behind(pc, answer, cutoff, v) \in SUBSET B
        BY <4>1, <2>2, <1>2, <1>4 DEF Behind
      <4>3. PICK A \in SUBSET B : A = Behind(pc, answer, cutoff, v)
        BY <4>2
      <4>4. Cardinality(A) <= Cardinality(B) /\ Cardinality(A) \in Nat
        BY FewerCalls, CallsAreFinite
      <4> QED BY <4>3, <4>4, <3>1, <2>1, <2>2, <2>3
    <3> QED BY <3>2, <3>3
  <2> QED BY <2>4, <2>5
<1>7. Bounded'
  <2>1. PICK B \in SUBSET Call : B = Untrimmed(pc', answer')
    BY DEF Untrimmed
  <2>2. Cardinality(B) \in Nat /\ Cardinality(Above(h, 0)) \in Nat /\ Keep \in Nat
    BY AboveIsFinite, CallsAreFinite, MemoryBounds
  <2>3. CASE Cardinality(Above(h, 0)) <= Keep
    BY <2>1, <2>2, <2>3, <1>2, <1>3 DEF Bounded
  <2>4. CASE pc'[c] = "trim" /\ answer' = answer
    <3>1. B = Untrimmed(pc, answer)
      BY <2>1, <2>4, <1>2, <1>4 DEF Untrimmed
    <3> QED BY <3>1, <2>1, <1>1, <1>2 DEF HistoryInv, Bounded
  <2> QED BY <2>3, <2>4, <1>4
<1> QED BY <1>2, <1>3, <1>5, <1>6, <1>7 DEF HistoryInv, TrimsWell

\* A call that trims leaves Keep versions, or a delete came before it, and takes from the bound
\* what it removes.
LEMMA TrimKeeps ==
  ASSUME MemoriesInv, NEW c \in Call, Trim(c)
  PROVE  HistoryInv'
<1>1. MemoriesTypeOK /\ HistoryInv /\ CallReady(c)
  BY DEF MemoriesInv
<1>2. /\ pc[c] = "trim" /\ pc' = [pc EXCEPT ![c] = "end"] /\ answer' = [answer EXCEPT ![c] = "ok"]
      /\ history' = [v \in Version |-> IF v <= cutoff[c] THEN Nothing ELSE history[v]]
      /\ wiped' = IF c \in wiped THEN wiped \cup Recorders ELSE wiped
      /\ UNCHANGED <<kind, text, version, cutoff>>
  BY DEF Trim, End, Goto, Answer
<1>3. PICK k \in Version : k = cutoff[c]
  BY <1>1, <1>2 DEF CallReady
<1>4. PICK h : h = history
  OBVIOUS
<1>5. PICK g : g = history'
  OBVIOUS
<1>n. k \in Nat /\ k > 0 /\ \A w \in Version : w \in Nat
  BY MemoryBounds
<1>6. \A w \in Version : g[w] = IF w > k THEN h[w] ELSE Nothing
  BY <1>2, <1>3, <1>4, <1>5, <1>n
<1>7. ASSUME NEW v \in Nat
      PROVE  Above(g, v) = IF v <= k THEN Above(h, k) ELSE Above(h, v)
  <2>1. \A w \in Version : g[w] # Nothing <=> h[w] # Nothing /\ w > k
    BY <1>6
  <2>2. CASE v <= k
    <3>1. \A w \in Version : w > k => w > v
      BY <1>n, <2>2
    <3> QED BY <2>1, <2>2, <3>1 DEF Above
  <2>3. CASE ~(v <= k)
    <3>1. \A w \in Version : w > v => w > k
      BY <1>n, <2>3
    <3> QED BY <2>1, <2>3, <3>1 DEF Above
  <2> QED BY <2>2, <2>3
<1>8. pc'[c] = "end" /\ answer'[c] = "ok"
      /\ \A d \in Call : d # c => pc'[d] = pc[d] /\ answer'[d] = answer[d]
  BY <1>1, <1>2 DEF MemoriesTypeOK
<1>9. \A d \in Call : Wrote(d)' => Wrote(d) /\ d \in Recorders
  <2> SUFFICES ASSUME NEW d \in Call, Wrote(d)' PROVE Wrote(d) /\ d \in Recorders
    OBVIOUS
  <2>1. Wrote(d)
    BY <1>2, <1>8 DEF Wrote, Saved
  <2>2. CallReady(d)
    BY DEF MemoriesInv
  <2> QED BY <2>1, <2>2 DEF Wrote, Saved, CallReady, Recorders
<1>10. /\ Keep \in Nat
       /\ \A v : Cardinality(Above(h, v)) \in Nat /\ Cardinality(Above(g, v)) \in Nat
  BY AboveIsFinite, MemoryBounds
<1>11. /\ c \notin wiped => Cardinality(Above(h, k)) >= Keep
       /\ Cardinality(Above(h, k)) <= Keep + Cardinality(Behind(pc, answer, cutoff, k))
  BY <1>1, <1>2, <1>3, <1>4 DEF HistoryInv, TrimsWell
<1>12. ASSUME NEW d \in Call PROVE Kept(d)'
  <2> SUFFICES ASSUME Wrote(d)', d \notin wiped'
               PROVE  (\/ history[version[d]] = text[d]
                           \/ Cardinality(Above(history, version[d])) >= Keep)'
    BY DEF Kept
  <2>1. Wrote(d) /\ d \notin wiped /\ c \notin wiped
    BY <1>2, <1>9
  <2>2. PICK v \in Version : v = version[d]
    BY <2>1 DEF MemoriesInv, CallReady
  <2>3. h[v] = text[d] \/ Cardinality(Above(h, v)) >= Keep
    BY <2>1, <2>2, <1>1, <1>4 DEF HistoryInv, Kept
  <2>4. CASE v <= k
    <3>1. Cardinality(Above(g, v)) >= Keep
      BY <2>1, <2>4, <1>7, <1>11, <1>n
    <3> QED BY <3>1, <2>2, <1>2, <1>5
  <2>5. CASE ~(v <= k)
    <3>1. g[v] = h[v] /\ Above(g, v) = Above(h, v)
      BY <2>5, <1>6, <1>7, <1>n
    <3> QED BY <3>1, <2>2, <2>3, <1>2, <1>5
  <2> QED BY <2>4, <2>5
<1>13. ASSUME NEW d \in Call PROVE TrimsWell(d)'
  <2> SUFFICES ASSUME pc'[d] = "trim" PROVE TrimsWell(d)'
    BY DEF TrimsWell
  <2>1. d # c /\ pc[d] = "trim" /\ d \in Recorders
    BY <1>8 DEF Recorders
  <2>2. PICK v \in Version : v = cutoff[d]
    BY <2>1 DEF MemoriesInv, CallReady
  <2>3. /\ d \notin wiped => Cardinality(Above(h, v)) >= Keep
        /\ Cardinality(Above(h, v)) <= Keep + Cardinality(Behind(pc, answer, cutoff, v))
    BY <2>1, <2>2, <1>1, <1>4 DEF HistoryInv, TrimsWell
  <2>4. PICK B \in SUBSET Call : B = Behind(pc', answer', cutoff', v)
    BY DEF Behind
  <2>5. Cardinality(B) \in Nat
    BY CallsAreFinite
  <2>6. d \notin wiped' => d \notin wiped /\ c \notin wiped
    BY <2>1, <1>2
  <2>7. CASE v <= k
    <3>1. Above(g, v) = Above(h, k)
      BY <2>7, <1>7, <1>n
    <3>2. \A e \in Call : cutoff[e] > k /\ pc[e] = "trim" => cutoff[e] > v
      <4> SUFFICES ASSUME NEW e \in Call, cutoff[e] > k, pc[e] = "trim" PROVE cutoff[e] > v
        OBVIOUS
      <4>1. PICK u \in Version : u = cutoff[e]
        BY DEF MemoriesInv, CallReady
      <4>2. u \in Nat /\ v \in Nat
        BY <1>n
      <4> QED BY <4>1, <4>2, <2>7, <1>n
    <3>3. PICK A \in SUBSET Call : A = Behind(pc, answer, cutoff, k)
      BY DEF Behind
    <3>4. A \in SUBSET B
      BY <3>2, <3>3, <2>4, <1>2, <1>3, <1>8, <1>n DEF Behind
    <3>5. Cardinality(A) \in Nat /\ Cardinality(A) <= Cardinality(B)
      BY <3>4, FewerCalls, CallsAreFinite
    <3>6. /\ d \notin wiped' => Cardinality(Above(g, v)) >= Keep
          /\ Cardinality(Above(g, v)) <= Keep + Cardinality(B)
      BY <3>1, <3>3, <3>5, <2>5, <2>6, <1>10, <1>11
    <3> QED BY <3>6, <2>2, <2>4, <1>2, <1>5 DEF TrimsWell
  <2>8. CASE ~(v <= k)
    <3>1. Above(g, v) = Above(h, v)
      BY <2>8, <1>7, <1>n
    <3>2. PICK A \in SUBSET Call : A = Behind(pc, answer, cutoff, v)
      BY DEF Behind
    <3>3. A \in SUBSET B
      BY <3>2, <2>4, <2>8, <1>2, <1>3, <1>8, <1>n DEF Behind
    <3>4. Cardinality(A) \in Nat /\ Cardinality(A) <= Cardinality(B)
      BY <3>3, FewerCalls, CallsAreFinite
    <3>5. /\ d \notin wiped' => Cardinality(Above(g, v)) >= Keep
          /\ Cardinality(Above(g, v)) <= Keep + Cardinality(B)
      BY <3>1, <3>2, <3>4, <2>3, <2>5, <2>6, <1>10
    <3> QED BY <3>5, <2>2, <2>4, <1>2, <1>5 DEF TrimsWell
  <2> QED BY <2>7, <2>8
<1>14. Bounded'
  <2>1. Above(g, 0) = Above(h, k)
    BY <1>7, <1>n
  <2>2. PICK B \in SUBSET Call : B = Untrimmed(pc', answer')
    BY DEF Untrimmed
  <2>3. PICK A \in SUBSET Call : A = Behind(pc, answer, cutoff, k)
    BY DEF Behind
  <2>4. A \in SUBSET B
    BY <2>2, <2>3, <1>2, <1>3, <1>8, <1>n DEF Behind, Untrimmed
  <2>5. Cardinality(A) \in Nat /\ Cardinality(B) \in Nat /\ Cardinality(A) <= Cardinality(B)
    BY <2>4, FewerCalls, CallsAreFinite
  <2>6. Cardinality(Above(g, 0)) <= Keep + Cardinality(B)
    BY <2>1, <2>3, <2>5, <1>10, <1>11
  <2> QED BY <2>2, <2>6, <1>5 DEF Bounded
<1> QED BY <1>12, <1>13, <1>14 DEF HistoryInv

\* A delete takes all, and whoever wrote a version is excused.
LEMMA WipeKeeps ==
  ASSUME MemoriesInv, NEW c \in Call, Wipe(c)
  PROVE  HistoryInv'
<1>1. MemoriesTypeOK
  BY DEF MemoriesInv
<1>2. /\ pc[c] = "wipe" /\ pc' = [pc EXCEPT ![c] = "drop"]
      /\ history' = [v \in Version |-> Nothing] /\ wiped' = wiped \cup Recorders
      /\ UNCHANGED <<answer, kind, text, version, cutoff>>
  BY DEF Wipe, Goto
<1>3. PICK g : g = history'
  OBVIOUS
<1>4. \A v : Above(g, v) = {}
  BY <1>2, <1>3 DEF Above
<1>5. \A v : Cardinality(Above(g, v)) = 0
  BY <1>4, FS_EmptySet
<1>6. \A d \in Call : pc'[d] \in {"count", "trim"} => pc[d] = pc'[d]
  BY <1>1, <1>2 DEF MemoriesTypeOK
<1>7. \A d \in Call : Wrote(d)' \/ pc'[d] = "trim" => d \in wiped'
  <2> SUFFICES ASSUME NEW d \in Call, Wrote(d)' \/ pc'[d] = "trim" PROVE d \in Recorders
    BY <1>2
  <2>1. Wrote(d)
    BY <1>2, <1>6 DEF Wrote, Saved
  <2>2. CallReady(d)
    BY DEF MemoriesInv
  <2> QED BY <2>1, <2>2 DEF Wrote, Saved, CallReady, Recorders
<1>8. \A D \in SUBSET Call : 0 <= Keep + Cardinality(D)
  BY CallsAreFinite, MemoryBounds
<1>9. ASSUME NEW d \in Call PROVE Kept(d)' /\ TrimsWell(d)'
  <2>1. PICK v : v = cutoff'[d]
    OBVIOUS
  <2>2. Behind(pc', answer', cutoff', v) \in SUBSET Call
    BY DEF Behind
  <2>3. Kept(d)'
    BY <1>7 DEF Kept
  <2>4. TrimsWell(d)'
    BY <2>1, <2>2, <1>3, <1>5, <1>7, <1>8 DEF TrimsWell
  <2> QED BY <2>3, <2>4
<1>10. Bounded'
  <2>1. Untrimmed(pc', answer') \in SUBSET Call
    BY DEF Untrimmed
  <2> QED BY <2>1, <1>3, <1>5, <1>8 DEF Bounded
<1> QED BY <1>9, <1>10 DEF HistoryInv

\* Calls that died will not trim.
LEMMA MemoriesCrashKeeps ==
  ASSUME MemoriesInv, MemoriesCrash
  PROVE  HistoryInv'
<1>1. MemoriesTypeOK /\ HistoryInv
  BY DEF MemoriesInv
<1>2. /\ \A d \in Call : pc'[d] = IF pc[d] = "idle" THEN "idle" ELSE "end"
      /\ UNCHANGED <<history, kind, text, version, cutoff, answer, wiped>>
  BY DEF MemoriesCrash
<1>3. ASSUME NEW d \in Call PROVE Kept(d)' /\ TrimsWell(d)'
  <2>1. Wrote(d)' => Wrote(d)
    BY <1>2 DEF Wrote, Saved
  <2>2. Kept(d)
    BY <1>1 DEF HistoryInv
  <2> QED BY <2>1, <2>2, <1>2 DEF Kept, TrimsWell
<1>4. Bounded'
  <2>1. PICK A \in SUBSET Call : A = Untrimmed(pc, answer)
    BY DEF Untrimmed
  <2>2. PICK B \in SUBSET Call : B = Untrimmed(pc', answer')
    BY DEF Untrimmed
  <2>3. \A d \in Call : CallReady(d)
    BY DEF MemoriesInv
  <2>4. A \in SUBSET B
    BY <2>1, <2>2, <2>3, <1>2 DEF Untrimmed, CallReady
  <2>5. Cardinality(A) \in Nat /\ Cardinality(B) \in Nat /\ Cardinality(A) <= Cardinality(B)
    BY <2>4, FewerCalls, CallsAreFinite
  <2>6. Cardinality(Above(history, 0)) \in Nat /\ Keep \in Nat
    BY AboveIsFinite, MemoryBounds
  <2>7. Cardinality(Above(history, 0)) <= Keep + Cardinality(B)
    BY <2>1, <2>5, <2>6, <1>1 DEF HistoryInv, Bounded
  <2> QED BY <2>2, <2>7, <1>2 DEF Bounded
<1> QED BY <1>3, <1>4 DEF HistoryInv

\* A version that a call writes is one that there can be.
LEMMA ReachKeeps ==
  ASSUME MemoriesInv, UNCHANGED version,
         \/ memory'.version \in {0, 1, memory.version}
         \/ \E c \in Call : memory'.version = version[c]
  PROVE  VersionsInReach'
<1>1. Cardinality(Readers(version)) \in Nat
  <2>1. Readers(version) \in SUBSET Call
    BY DEF Readers
  <2> QED BY <2>1, CallsAreFinite
<1>2. 0 <= 1 + Cardinality(Readers(version)) /\ 1 <= 1 + Cardinality(Readers(version))
  BY <1>1
<1>3. VersionsInReach
  BY DEF MemoriesInv
<1> QED BY <1>2, <1>3 DEF VersionsInReach

\* A call that reads the row is the first of that call to do so: there is a version for it.
LEMMA GetKeeps ==
  ASSUME MemoriesInv, NEW c \in Call, Get(c)
  PROVE  MemoriesInv'
<1>1. MemoriesTypeOK /\ VersionsInReach /\ CallReady(c) /\ \A d \in Call : CallReady(d)
  BY DEF MemoriesInv
<1>2. /\ pc[c] = "get" /\ pc' = [pc EXCEPT ![c] = IF memory.version = 0 THEN "insert" ELSE "update"]
      /\ version' = [version EXCEPT ![c] = memory.version + 1]
      /\ UNCHANGED <<memory, history, kind, text, target, shop, cutoff, answer, wiped, died>>
  BY DEF Get, Goto
<1>3. version[c] = 0 /\ text[c] \in Text /\ answer[c] = "none"
  BY <1>1, <1>2 DEF CallReady
<1>4. PICK m \in Nat : m = memory.version
  <2>1. memory.version \in Version \cup {0}
    BY <1>1 DEF MemoriesTypeOK, Row
  <2> QED BY <2>1, MemoryBounds
<1>5. PICK R \in SUBSET Call : R = Readers(version)
  BY DEF Readers
<1>6. c \notin R /\ version'[c] = m + 1 /\ m + 1 # 0
  BY <1>1, <1>2, <1>3, <1>4, <1>5 DEF Readers, MemoriesTypeOK
<1>7. Readers(version') = R \cup {c}
  BY <1>1, <1>2, <1>5, <1>6 DEF Readers, MemoriesTypeOK
<1>8. PICK n \in Nat : n = Cardinality(R)
  BY CallsAreFinite
<1>9. Cardinality(R \cup {c}) = n + 1 /\ n + 1 <= Cardinality(Call)
  <2>1. Cardinality(R \cup {c}) = n + 1
    BY <1>6, <1>8, CallsAreFinite, FS_AddElement
  <2>2. R \cup {c} \in SUBSET Call
    OBVIOUS
  <2> QED BY <2>1, <2>2, CallsAreFinite
<1>10. m <= n + 1 /\ \A d \in Call : version[d] <= n + 1
  BY <1>1, <1>4, <1>5, <1>8 DEF VersionsInReach
<1>11. m + 1 \in Version
  BY <1>9, <1>10, MemoryBounds DEF Version
<1>12. MemoriesTypeOK'
  BY <1>1, <1>2, <1>4, <1>11 DEF MemoriesTypeOK
<1>13. \A d \in Call : CallReady(d)'
  BY <1>1, <1>2, <1>3, <1>6, <1>11 DEF CallReady, Wrote, Saved, MemoriesTypeOK
<1>14. VersionsInReach'
  <2>0. \A d \in Call : version[d] \in Version \cup {0}
    BY <1>1 DEF MemoriesTypeOK
  <2>a. Version \cup {0} \subseteq Nat
    BY MemoryBounds
  <2>1. \A d \in Call : version[d] \in Nat
    BY <2>0, <2>a
  <2>2. \A d \in Call : version'[d] <= 1 + (n + 1)
    BY <2>1, <1>1, <1>2, <1>4, <1>10 DEF MemoriesTypeOK
  <2>3. memory'.version <= 1 + (n + 1)
    BY <1>2, <1>4, <1>10
  <2> QED BY <2>2, <2>3, <1>7, <1>9 DEF VersionsInReach
<1>15. HistoryInv'
  <2>1. PICK p : p = IF memory.version = 0 THEN "insert" ELSE "update"
    OBVIOUS
  <2>2. pc' = [pc EXCEPT ![c] = p] /\ p \notin {"count", "trim", "end"}
    BY <2>1, <1>2
  <2>3. answer' = [answer EXCEPT ![c] = "none"] /\ ~Saved(c)'
    BY <1>1, <1>2, <1>3 DEF Saved, MemoriesTypeOK
  <2>4. \A d \in Call : d # c => /\ kind'[d] = kind[d] /\ text'[d] = text[d]
                                 /\ version'[d] = version[d] /\ cutoff'[d] = cutoff[d]
    BY <1>1, <1>2 DEF MemoriesTypeOK
  <2>5. pc[c] \notin {"count", "trim", "end"} /\ history' = history /\ wiped' = wiped
    BY <1>2
  <2>6. p \notin {"count", "trim"} /\ (p = "end" => "none" # "none")
    BY <2>2
  <2>7. pc' = [pc EXCEPT ![c] = p]
    BY <2>2
  <2> QED BY <2>3, <2>4, <2>5, <2>6, <2>7, QuietKeeps
<1> QED BY <1>12, <1>13, <1>14, <1>15 DEF MemoriesInv

\* The other steps of a call keep what it needs at each place.
LEMMA PlaceKeeps ==
  ASSUME MemoriesInv, NEW c \in Call, Step(c), ~Get(c)
  PROVE  MemoriesTypeOK' /\ (\A d \in Call : CallReady(d)') /\ VersionsInReach'
<1>1. MemoriesTypeOK /\ \A d \in Call : CallReady(d)
  BY DEF MemoriesInv
<1>2. Nothing \notin Text /\ Call \subseteq Text /\ 0 \notin Version /\ 1 \in Version
  BY MemoryBounds DEF Version
<1>3. ASSUME BeginSave(c)
      PROVE  MemoriesTypeOK' /\ (\A d \in Call : CallReady(d)') /\ UNCHANGED version
             /\ (memory'.version \in {0, 1, memory.version}
                 \/ \E d \in Call : memory'.version = version[d])
  <2>1. MemoriesTypeOK'
    BY <1>1, <1>2, <1>3 DEF BeginSave, MemoriesTypeOK, CallReady
  <2>2. \A d \in Call : CallReady(d)'
    BY <1>1, <1>2, <1>3 DEF BeginSave, CallReady, Wrote, Saved, MemoriesTypeOK
  <2>3. UNCHANGED version
        /\ (memory'.version \in {0, 1, memory.version}
            \/ \E d \in Call : memory'.version = version[d])
    BY <1>1, <1>3 DEF BeginSave, MemoriesTypeOK
  <2> QED BY <2>1, <2>2, <2>3
<1>4. ASSUME BeginDelete(c)
      PROVE  MemoriesTypeOK' /\ (\A d \in Call : CallReady(d)') /\ UNCHANGED version
             /\ (memory'.version \in {0, 1, memory.version}
                 \/ \E d \in Call : memory'.version = version[d])
  <2>1. MemoriesTypeOK'
    BY <1>1, <1>2, <1>4 DEF BeginDelete, Goto, MemoriesTypeOK, CallReady
  <2>2. \A d \in Call : CallReady(d)'
    BY <1>1, <1>2, <1>4 DEF BeginDelete, Goto, CallReady, Wrote, Saved, MemoriesTypeOK
  <2>3. UNCHANGED version
        /\ (memory'.version \in {0, 1, memory.version}
            \/ \E d \in Call : memory'.version = version[d])
    BY <1>1, <1>4 DEF BeginDelete, Goto, MemoriesTypeOK
  <2> QED BY <2>1, <2>2, <2>3
<1>5. ASSUME NEW v \in Version, BeginRestore(c, v)
      PROVE  MemoriesTypeOK' /\ (\A d \in Call : CallReady(d)') /\ UNCHANGED version
             /\ (memory'.version \in {0, 1, memory.version}
                 \/ \E d \in Call : memory'.version = version[d])
  <2>1. MemoriesTypeOK'
    BY <1>1, <1>2, <1>5 DEF BeginRestore, Goto, MemoriesTypeOK, CallReady
  <2>2. \A d \in Call : CallReady(d)'
    BY <1>1, <1>2, <1>5 DEF BeginRestore, Goto, CallReady, Wrote, Saved, MemoriesTypeOK
  <2>3. UNCHANGED version
        /\ (memory'.version \in {0, 1, memory.version}
            \/ \E d \in Call : memory'.version = version[d])
    BY <1>1, <1>5 DEF BeginRestore, Goto, MemoriesTypeOK
  <2> QED BY <2>1, <2>2, <2>3
<1>6. ASSUME Own(c)
      PROVE  MemoriesTypeOK' /\ (\A d \in Call : CallReady(d)') /\ UNCHANGED version
             /\ (memory'.version \in {0, 1, memory.version}
                 \/ \E d \in Call : memory'.version = version[d])
  <2>1. MemoriesTypeOK'
    BY <1>1, <1>2, <1>6 DEF Own, End, Goto, Answer, MemoriesTypeOK, CallReady
  <2>2. \A d \in Call : CallReady(d)'
    BY <1>1, <1>2, <1>6 DEF Own, End, Goto, Answer, CallReady, Wrote, Saved, MemoriesTypeOK
  <2>3. UNCHANGED version
        /\ (memory'.version \in {0, 1, memory.version}
            \/ \E d \in Call : memory'.version = version[d])
    BY <1>1, <1>6 DEF Own, End, Goto, Answer, MemoriesTypeOK
  <2> QED BY <2>1, <2>2, <2>3
<1>7. ASSUME Insert(c)
      PROVE  MemoriesTypeOK' /\ (\A d \in Call : CallReady(d)') /\ UNCHANGED version
             /\ (memory'.version \in {0, 1, memory.version}
                 \/ \E d \in Call : memory'.version = version[d])
  <2>1. MemoriesTypeOK'
    BY <1>1, <1>2, <1>7 DEF Insert, End, Goto, Answer, Row, MemoriesTypeOK, CallReady
  <2>2. \A d \in Call : CallReady(d)'
    BY <1>1, <1>2, <1>7 DEF Insert, End, Goto, Answer, Row, CallReady, Wrote, Saved, MemoriesTypeOK
  <2>3. UNCHANGED version
        /\ (memory'.version \in {0, 1, memory.version}
            \/ \E d \in Call : memory'.version = version[d])
    BY <1>1, <1>7 DEF Insert, End, Goto, Answer, Row, MemoriesTypeOK
  <2> QED BY <2>1, <2>2, <2>3
<1>8. ASSUME Update(c)
      PROVE  MemoriesTypeOK' /\ (\A d \in Call : CallReady(d)') /\ UNCHANGED version
             /\ (memory'.version \in {0, 1, memory.version}
                 \/ \E d \in Call : memory'.version = version[d])
  <2>1. MemoriesTypeOK'
    BY <1>1, <1>2, <1>8 DEF Update, Goto, Row, MemoriesTypeOK, CallReady
  <2>2. \A d \in Call : CallReady(d)'
    BY <1>1, <1>2, <1>8 DEF Update, Goto, Row, CallReady, Wrote, Saved, MemoriesTypeOK
  <2>3. UNCHANGED version
        /\ (memory'.version \in {0, 1, memory.version}
            \/ \E d \in Call : memory'.version = version[d])
    BY <1>1, <1>8 DEF Update, Goto, Row, MemoriesTypeOK
  <2> QED BY <2>1, <2>2, <2>3
<1>9. ASSUME Record(c)
      PROVE  MemoriesTypeOK' /\ (\A d \in Call : CallReady(d)') /\ UNCHANGED version
             /\ (memory'.version \in {0, 1, memory.version}
                 \/ \E d \in Call : memory'.version = version[d])
  <2>1. MemoriesTypeOK'
    BY <1>1, <1>2, <1>9 DEF Record, End, Goto, Answer, Recorded, MemoriesTypeOK, CallReady
  <2>2. \A d \in Call : CallReady(d)'
    BY <1>1, <1>2, <1>9 DEF Record, End, Goto, Answer, Recorded, CallReady, Wrote, Saved,
       MemoriesTypeOK
  <2>3. UNCHANGED version
        /\ (memory'.version \in {0, 1, memory.version}
            \/ \E d \in Call : memory'.version = version[d])
    BY <1>1, <1>9 DEF Record, End, Goto, Answer, Recorded, MemoriesTypeOK
  <2> QED BY <2>1, <2>2, <2>3
<1>10. ASSUME Count(c)
      PROVE  MemoriesTypeOK' /\ (\A d \in Call : CallReady(d)') /\ UNCHANGED version
             /\ (memory'.version \in {0, 1, memory.version}
                 \/ \E d \in Call : memory'.version = version[d])
  <2>1. MemoriesTypeOK'
    BY <1>1, <1>2, <1>10 DEF Count, End, Goto, Answer, CutOff, Recorded, MemoriesTypeOK, CallReady
  <2>2. \A d \in Call : CallReady(d)'
    BY <1>1, <1>2, <1>10 DEF Count, End, Goto, Answer, CutOff, Recorded, CallReady, Wrote, Saved,
       MemoriesTypeOK
  <2>3. UNCHANGED version
        /\ (memory'.version \in {0, 1, memory.version}
            \/ \E d \in Call : memory'.version = version[d])
    BY <1>1, <1>10 DEF Count, End, Goto, Answer, CutOff, Recorded, MemoriesTypeOK
  <2> QED BY <2>1, <2>2, <2>3
<1>11. ASSUME Trim(c)
      PROVE  MemoriesTypeOK' /\ (\A d \in Call : CallReady(d)') /\ UNCHANGED version
             /\ (memory'.version \in {0, 1, memory.version}
                 \/ \E d \in Call : memory'.version = version[d])
  <2>1. MemoriesTypeOK'
    BY <1>1, <1>2, <1>11 DEF Trim, End, Goto, Answer, Recorders, MemoriesTypeOK, CallReady
  <2>2. \A d \in Call : CallReady(d)'
    BY <1>1, <1>2, <1>11 DEF Trim, End, Goto, Answer, Recorders, CallReady, Wrote, Saved,
       MemoriesTypeOK
  <2>3. UNCHANGED version
        /\ (memory'.version \in {0, 1, memory.version}
            \/ \E d \in Call : memory'.version = version[d])
    BY <1>1, <1>11 DEF Trim, End, Goto, Answer, Recorders, MemoriesTypeOK
  <2> QED BY <2>1, <2>2, <2>3
<1>12. ASSUME Wipe(c)
      PROVE  MemoriesTypeOK' /\ (\A d \in Call : CallReady(d)') /\ UNCHANGED version
             /\ (memory'.version \in {0, 1, memory.version}
                 \/ \E d \in Call : memory'.version = version[d])
  <2>1. MemoriesTypeOK'
    BY <1>1, <1>2, <1>12 DEF Wipe, Goto, Recorders, MemoriesTypeOK, CallReady
  <2>2. \A d \in Call : CallReady(d)'
    BY <1>1, <1>2, <1>12 DEF Wipe, Goto, Recorders, CallReady, Wrote, Saved, MemoriesTypeOK
  <2>3. UNCHANGED version
        /\ (memory'.version \in {0, 1, memory.version}
            \/ \E d \in Call : memory'.version = version[d])
    BY <1>1, <1>12 DEF Wipe, Goto, Recorders, MemoriesTypeOK
  <2> QED BY <2>1, <2>2, <2>3
<1>13. ASSUME Drop(c)
      PROVE  MemoriesTypeOK' /\ (\A d \in Call : CallReady(d)') /\ UNCHANGED version
             /\ (memory'.version \in {0, 1, memory.version}
                 \/ \E d \in Call : memory'.version = version[d])
  <2>1. MemoriesTypeOK'
    BY <1>1, <1>2, <1>13 DEF Drop, End, Goto, Answer, Row, NoRow, MemoriesTypeOK, CallReady
  <2>2. \A d \in Call : CallReady(d)'
    BY <1>1, <1>2, <1>13 DEF Drop, End, Goto, Answer, Row, NoRow, CallReady, Wrote, Saved,
       MemoriesTypeOK
  <2>3. UNCHANGED version
        /\ (memory'.version \in {0, 1, memory.version}
            \/ \E d \in Call : memory'.version = version[d])
    BY <1>1, <1>13 DEF Drop, End, Goto, Answer, Row, NoRow, MemoriesTypeOK
  <2> QED BY <2>1, <2>2, <2>3
<1>14. ASSUME Pick(c)
      PROVE  MemoriesTypeOK' /\ (\A d \in Call : CallReady(d)') /\ UNCHANGED version
             /\ (memory'.version \in {0, 1, memory.version}
                 \/ \E d \in Call : memory'.version = version[d])
  <2>1. MemoriesTypeOK'
    BY <1>1, <1>2, <1>14 DEF Pick, End, Goto, Answer, Recorded, MemoriesTypeOK, CallReady
  <2>2. \A d \in Call : CallReady(d)'
    BY <1>1, <1>2, <1>14 DEF Pick, End, Goto, Answer, Recorded, CallReady, Wrote, Saved,
       MemoriesTypeOK
  <2>3. UNCHANGED version
        /\ (memory'.version \in {0, 1, memory.version}
            \/ \E d \in Call : memory'.version = version[d])
    BY <1>1, <1>14 DEF Pick, End, Goto, Answer, Recorded, MemoriesTypeOK
  <2> QED BY <2>1, <2>2, <2>3
<1>15. ASSUME Shop(c)
      PROVE  MemoriesTypeOK' /\ (\A d \in Call : CallReady(d)') /\ UNCHANGED version
             /\ (memory'.version \in {0, 1, memory.version}
                 \/ \E d \in Call : memory'.version = version[d])
  <2>1. MemoriesTypeOK'
    BY <1>1, <1>2, <1>15 DEF Shop, Goto, Row, MemoriesTypeOK, CallReady
  <2>2. \A d \in Call : CallReady(d)'
    BY <1>1, <1>2, <1>15 DEF Shop, Goto, Row, CallReady, Wrote, Saved, MemoriesTypeOK
  <2>3. UNCHANGED version
        /\ (memory'.version \in {0, 1, memory.version}
            \/ \E d \in Call : memory'.version = version[d])
    BY <1>1, <1>15 DEF Shop, Goto, Row, MemoriesTypeOK
  <2> QED BY <2>1, <2>2, <2>3
<1>16. MemoriesTypeOK' /\ (\A d \in Call : CallReady(d)') /\ UNCHANGED version
      /\ (memory'.version \in {0, 1, memory.version}
          \/ \E d \in Call : memory'.version = version[d])
  BY <1>3, <1>4, <1>5, <1>6, <1>7, <1>8, <1>9, <1>10, <1>11, <1>12, <1>13, <1>14, <1>15 DEF Step
<1> QED BY <1>16, ReachKeeps

\* The steps of a call before it wrote a version, and those of a delete, leave the history alone.
LEMMA BeforeKeeps ==
  ASSUME MemoriesInv, NEW c \in Call,
         \/ BeginSave(c) \/ BeginDelete(c) \/ (\E v \in Version : BeginRestore(c, v))
         \/ Own(c) \/ Insert(c) \/ Update(c) \/ Drop(c) \/ Pick(c) \/ Shop(c)
  PROVE  HistoryInv'
<1>1. MemoriesTypeOK /\ CallReady(c)
  BY DEF MemoriesInv
<1>2. /\ UNCHANGED <<history, wiped>>
      /\ \A d \in Call : d # c => /\ kind'[d] = kind[d] /\ text'[d] = text[d]
                               /\ version'[d] = version[d] /\ cutoff'[d] = cutoff[d]
  BY <1>1 DEF BeginSave, BeginDelete, BeginRestore, Own, Insert, Update, Drop, Pick, Shop, Goto,
     End,
              Answer, MemoriesTypeOK
<1>3. pc[c] \notin {"count", "trim", "end"} /\ answer[c] = "none"
  BY <1>1 DEF BeginSave, BeginDelete, BeginRestore, Own, Insert, Update, Drop, Pick, Shop, Goto,
     End,
              CallReady
<1>4. \E p \in {"own", "get", "wipe", "pick", "record", "shop", "end"},
         a \in {"none", "ok", "not_found", "error"} :
         /\ pc' = [pc EXCEPT ![c] = p] /\ answer' = [answer EXCEPT ![c] = a]
         /\ (p = "end" => a # "none") /\ (a = "ok" => kind'[c] = "delete")
  <2>1. CASE BeginSave(c)
    <3>1. answer' = [answer EXCEPT ![c] = answer'[c]] /\ pc' = [pc EXCEPT ![c] = pc'[c]]
      BY <2>1, <1>1 DEF BeginSave, MemoriesTypeOK
    <3>2. /\ pc'[c] \in {"own", "get", "wipe", "pick", "record", "shop", "end"}
          /\ answer'[c] \in {"none", "ok", "not_found", "error"}
          /\ (pc'[c] = "end" => answer'[c] # "none") /\ (answer'[c] = "ok" => kind'[c] = "delete")
      BY <2>1, <1>1, <1>3 DEF BeginSave, MemoriesTypeOK, CallReady
    <3> QED BY <3>1, <3>2
  <2>2. CASE BeginDelete(c)
    <3>1. answer' = [answer EXCEPT ![c] = answer'[c]] /\ pc' = [pc EXCEPT ![c] = pc'[c]]
      BY <2>2, <1>1 DEF BeginDelete, Goto, MemoriesTypeOK
    <3>2. /\ pc'[c] \in {"own", "get", "wipe", "pick", "record", "shop", "end"}
          /\ answer'[c] \in {"none", "ok", "not_found", "error"}
          /\ (pc'[c] = "end" => answer'[c] # "none") /\ (answer'[c] = "ok" => kind'[c] = "delete")
      BY <2>2, <1>1, <1>3 DEF BeginDelete, Goto, MemoriesTypeOK, CallReady
    <3> QED BY <3>1, <3>2
  <2>3. ASSUME NEW v \in Version, BeginRestore(c, v)
        PROVE  \E p \in {"own", "get", "wipe", "pick", "record", "shop", "end"},
                  a \in {"none", "ok", "not_found", "error"} :
                  /\ pc' = [pc EXCEPT ![c] = p] /\ answer' = [answer EXCEPT ![c] = a]
                  /\ (p = "end" => a # "none") /\ (a = "ok" => kind'[c] = "delete")
    <3>1. answer' = [answer EXCEPT ![c] = answer'[c]] /\ pc' = [pc EXCEPT ![c] = pc'[c]]
      BY <2>3, <1>1 DEF BeginRestore, Goto, MemoriesTypeOK
    <3>2. /\ pc'[c] \in {"own", "get", "wipe", "pick", "record", "shop", "end"}
          /\ answer'[c] \in {"none", "ok", "not_found", "error"}
          /\ (pc'[c] = "end" => answer'[c] # "none") /\ (answer'[c] = "ok" => kind'[c] = "delete")
      BY <2>3, <1>1, <1>3 DEF BeginRestore, Goto, MemoriesTypeOK, CallReady
    <3> QED BY <3>1, <3>2
  <2>4. CASE Own(c)
    <3>1. answer' = [answer EXCEPT ![c] = answer'[c]] /\ pc' = [pc EXCEPT ![c] = pc'[c]]
      BY <2>4, <1>1 DEF Own, End, Goto, Answer, MemoriesTypeOK
    <3>2. /\ pc'[c] \in {"own", "get", "wipe", "pick", "record", "shop", "end"}
          /\ answer'[c] \in {"none", "ok", "not_found", "error"}
          /\ (pc'[c] = "end" => answer'[c] # "none") /\ (answer'[c] = "ok" => kind'[c] = "delete")
      BY <2>4, <1>1, <1>3 DEF Own, End, Goto, Answer, MemoriesTypeOK, CallReady
    <3> QED BY <3>1, <3>2
  <2>5. CASE Insert(c)
    <3>1. answer' = [answer EXCEPT ![c] = answer'[c]] /\ pc' = [pc EXCEPT ![c] = pc'[c]]
      BY <2>5, <1>1 DEF Insert, End, Goto, Answer, MemoriesTypeOK
    <3>2. /\ pc'[c] \in {"own", "get", "wipe", "pick", "record", "shop", "end"}
          /\ answer'[c] \in {"none", "ok", "not_found", "error"}
          /\ (pc'[c] = "end" => answer'[c] # "none") /\ (answer'[c] = "ok" => kind'[c] = "delete")
      BY <2>5, <1>1, <1>3 DEF Insert, End, Goto, Answer, MemoriesTypeOK, CallReady
    <3> QED BY <3>1, <3>2
  <2>6. CASE Update(c)
    <3>1. answer' = [answer EXCEPT ![c] = answer'[c]] /\ pc' = [pc EXCEPT ![c] = pc'[c]]
      BY <2>6, <1>1 DEF Update, Goto, MemoriesTypeOK
    <3>2. /\ pc'[c] \in {"own", "get", "wipe", "pick", "record", "shop", "end"}
          /\ answer'[c] \in {"none", "ok", "not_found", "error"}
          /\ (pc'[c] = "end" => answer'[c] # "none") /\ (answer'[c] = "ok" => kind'[c] = "delete")
      BY <2>6, <1>1, <1>3 DEF Update, Goto, MemoriesTypeOK, CallReady
    <3> QED BY <3>1, <3>2
  <2>7. CASE Drop(c)
    <3>1. answer' = [answer EXCEPT ![c] = answer'[c]] /\ pc' = [pc EXCEPT ![c] = pc'[c]]
      BY <2>7, <1>1 DEF Drop, End, Goto, Answer, MemoriesTypeOK
    <3>2. /\ pc'[c] \in {"own", "get", "wipe", "pick", "record", "shop", "end"}
          /\ answer'[c] \in {"none", "ok", "not_found", "error"}
          /\ (pc'[c] = "end" => answer'[c] # "none") /\ (answer'[c] = "ok" => kind'[c] = "delete")
      BY <2>7, <1>1, <1>3 DEF Drop, End, Goto, Answer, MemoriesTypeOK, CallReady
    <3> QED BY <3>1, <3>2
  <2>8. CASE Pick(c)
    <3>1. answer' = [answer EXCEPT ![c] = answer'[c]] /\ pc' = [pc EXCEPT ![c] = pc'[c]]
      BY <2>8, <1>1 DEF Pick, End, Goto, Answer, MemoriesTypeOK
    <3>2. /\ pc'[c] \in {"own", "get", "wipe", "pick", "record", "shop", "end"}
          /\ answer'[c] \in {"none", "ok", "not_found", "error"}
          /\ (pc'[c] = "end" => answer'[c] # "none") /\ (answer'[c] = "ok" => kind'[c] = "delete")
      BY <2>8, <1>1, <1>3 DEF Pick, End, Goto, Answer, MemoriesTypeOK, CallReady
    <3> QED BY <3>1, <3>2
  <2>9. CASE Shop(c)
    <3>1. answer' = [answer EXCEPT ![c] = answer'[c]] /\ pc' = [pc EXCEPT ![c] = pc'[c]]
      BY <2>9, <1>1 DEF Shop, Goto, MemoriesTypeOK
    <3>2. /\ pc'[c] \in {"own", "get", "wipe", "pick", "record", "shop", "end"}
          /\ answer'[c] \in {"none", "ok", "not_found", "error"}
          /\ (pc'[c] = "end" => answer'[c] # "none") /\ (answer'[c] = "ok" => kind'[c] = "delete")
      BY <2>9, <1>1, <1>3 DEF Shop, Goto, MemoriesTypeOK, CallReady
    <3> QED BY <3>1, <3>2
  <2> QED BY <2>1, <2>2, <2>3, <2>4, <2>5, <2>6, <2>7, <2>8, <2>9
<1>5. PICK p \in {"own", "get", "wipe", "pick", "record", "shop", "end"},
           a \in {"none", "ok", "not_found", "error"} :
         /\ pc' = [pc EXCEPT ![c] = p] /\ answer' = [answer EXCEPT ![c] = a]
         /\ (p = "end" => a # "none") /\ (a = "ok" => kind'[c] = "delete")
  BY <1>4
<1>6. ~Saved(c)'
  BY <1>1, <1>5 DEF Saved, MemoriesTypeOK
<1>7. p \notin {"count", "trim"}
  OBVIOUS
<1> QED BY <1>2, <1>3, <1>5, <1>6, <1>7, QuietKeeps

\* At first there is no memory, or one version of one.
LEMMA MemoriesStart == MemoriesInit => MemoriesInv
<1> SUFFICES ASSUME MemoriesInit PROVE MemoriesInv
  OBVIOUS
<1>1. Seed \in Text /\ 1 \in Version
  BY MemoryBounds DEF Text, Version
<1>2. MemoriesTypeOK
  <2>1. memory \in Row
    <3>1. NoRow \in Row
      BY DEF Row, NoRow
    <3>2. [version |-> 1, text |-> Seed, owned |-> TRUE] \in Row
      BY <1>1 DEF Row
    <3> QED BY <3>1, <3>2 DEF MemoriesInit
  <2>2. history \in [Version -> Text \cup {Nothing}]
    BY <1>1 DEF MemoriesInit, NoRow
  <2> QED BY <2>1, <2>2 DEF MemoriesInit, MemoriesTypeOK
<1>3. \A c \in Call : CallReady(c) /\ Kept(c) /\ TrimsWell(c)
  BY DEF MemoriesInit, CallReady, Kept, TrimsWell, Wrote, Saved
<1>4. VersionsInReach
  <2>1. Readers(version) = {}
    BY DEF MemoriesInit, Readers
  <2>2. Cardinality(Readers(version)) = 0
    BY <2>1, FS_EmptySet
  <2> QED BY <2>2 DEF VersionsInReach, MemoriesInit, NoRow
<1>5. Bounded
  <2>1. \A v \in Version : v # 1 => history[v] = Nothing
    BY DEF MemoriesInit
  <2>2. PICK S : S = {1} /\ IsFiniteSet(S) /\ Cardinality(S) = 1
    BY FS_Singleton
  <2>3. PICK A \in SUBSET S : A = Above(history, 0)
    BY <2>1, <2>2 DEF Above
  <2>4. Cardinality(A) \in Nat /\ Cardinality(A) <= 1
    BY <2>2, FS_Subset, FS_CardinalityType
  <2>5. Untrimmed(pc, answer) \in SUBSET Call
    BY DEF Untrimmed
  <2>6. Cardinality(Untrimmed(pc, answer)) \in Nat /\ Keep \in Nat \ {0}
    BY <2>5, CallsAreFinite, MemoryBounds
  <2> QED BY <2>3, <2>4, <2>6 DEF Bounded
<1> QED BY <1>2, <1>3, <1>4, <1>5 DEF MemoriesInv, HistoryInv

\* The inductive invariant holds of every behaviour of the calls, and of every death.
THEOREM MemoriesInvariance == MemoriesSpec => []MemoriesInv
<1>1. MemoriesInit => MemoriesInv
  BY MemoriesStart
<1>2. MemoriesInv /\ [MemoriesNext]_memoryVars => MemoriesInv'
  <2> SUFFICES ASSUME MemoriesInv, [MemoriesNext]_memoryVars PROVE MemoriesInv'
    OBVIOUS
  <2>1. ASSUME NEW c \in Call, Step(c) PROVE MemoriesInv'
    <3>1. CASE Get(c)
      BY <3>1, GetKeeps
    <3>2. CASE ~Get(c)
      <4>1. HistoryInv'
        BY <2>1, <3>2, BeforeKeeps, RecordKeeps, CountKeeps, TrimKeeps, WipeKeeps DEF Step
      <4> QED BY <4>1, <2>1, <3>2, PlaceKeeps DEF MemoriesInv
    <3> QED BY <3>1, <3>2
  <2>2. CASE MemoriesCrash
    <3>1. MemoriesTypeOK /\ (\A c \in Call : CallReady(c)) /\ VersionsInReach
      BY DEF MemoriesInv
    <3>2. MemoriesTypeOK'
      BY <3>1, <2>2 DEF MemoriesTypeOK, MemoriesCrash
    <3>3. \A c \in Call : CallReady(c)'
      BY <3>1, <2>2 DEF CallReady, Wrote, Saved, MemoriesCrash, MemoriesTypeOK
    <3>4. VersionsInReach'
      BY <3>1, <2>2 DEF VersionsInReach, MemoriesCrash
    <3> QED BY <3>2, <3>3, <3>4, <2>2, MemoriesCrashKeeps DEF MemoriesInv
  <2>3. CASE UNCHANGED memoryVars
    BY <2>3 DEF memoryVars, MemoriesInv, MemoriesTypeOK, CallReady, VersionsInReach, HistoryInv,
       Kept,
                TrimsWell, Bounded, Wrote, Saved
  <2> QED BY <2>1, <2>2, <2>3 DEF MemoriesNext
<1> QED BY <1>1, <1>2, PTL DEF MemoriesSpec

\* What was answered as saved can be restored, or Keep newer versions are there, unless a delete
\* came later; and the history holds no more than Keep and what was not trimmed yet: for any calls
\* in any order, and any Keep (MemoryRepo).
THEOREM MemoriesAreKept == MemoriesSpec => []MemoriesSafe
<1>1. MemoriesInv => MemoriesSafe
  <2> SUFFICES ASSUME MemoriesInv PROVE MemoriesSafe
    OBVIOUS
  <2>1. \A v : NewerThan(v) = Above(history, v)
    BY DEF NewerThan, Recorded, Above
  <2>2. AckedSaveInHistory
    BY <2>1 DEF AckedSaveInHistory, MemoriesInv, HistoryInv, Kept, Wrote
  <2>3. HistoryBounded
    BY RecordedIsAbove DEF HistoryBounded, MemoriesInv, HistoryInv, Bounded, Untrimmed
  <2> QED BY <2>2, <2>3 DEF MemoriesSafe, MemoriesInv
<1> QED BY <1>1, MemoriesInvariance, PTL

-----------------------------------------------------------------------------
(* Sums over a set, which Connections takes with a fold *)

\* A non-empty set of finite sets has a least one.
LEMMA LeastSet ==
  ASSUME NEW S, NEW T \in SUBSET FiniteSubsetsOf(S), T # {}
  PROVE  \E x \in T : \A y \in T : y \subseteq x => y = x
<1> DEFINE R == StrictSubsetOrdering(S)
<1>1. IsWellFoundedOn(R, FiniteSubsetsOf(S))
  BY FS_StrictSubsetOrderingWellFounded
<1>2. T \subseteq FiniteSubsetsOf(S) /\ FiniteSubsetsOf(S) \subseteq SUBSET S
  BY DEF FiniteSubsetsOf
<1>3. PICK x \in T : \A y \in T : ~(<<y, x>> \in R)
  <2> HIDE DEF R
  <2> QED BY <1>1, <1>2, WFMin
<1>4. ASSUME NEW y \in T, y \subseteq x, y # x PROVE FALSE
  <2>1. <<y, x>> \in R
    BY <1>2, <1>4 DEF StrictSubsetOrdering
  <2> QED BY <2>1, <1>3
<1> QED BY <1>3, <1>4

\* As many pairs as f counts, for the members of S.
Pile(f, S) == UNION {{x} \X (1 .. f[x]) : x \in S}

Total(f, S) == Cardinality(Pile(f, S))

\* One pile is as high as its count.
LEMMA OnePile ==
  ASSUME NEW f, NEW x, f[x] \in Nat
  PROVE  IsFiniteSet({x} \X (1 .. f[x])) /\ Cardinality({x} \X (1 .. f[x])) = f[x]
<1>1. PICK n \in Nat : n = f[x]
  OBVIOUS
<1>2. IsFiniteSet({x}) /\ Cardinality({x}) = 1
  BY FS_Singleton
<1>3. IsFiniteSet(1 .. n) /\ Cardinality(1 .. n) = n
  BY FS_Interval
<1>4. PICK A : A = {x} /\ IsFiniteSet(A) /\ Cardinality(A) = 1
  BY <1>2
<1>5. PICK B : B = 1 .. n /\ IsFiniteSet(B) /\ Cardinality(B) = n
  BY <1>3
<1>6. IsFiniteSet(A \X B) /\ Cardinality(A \X B) = Cardinality(A) * Cardinality(B)
  BY <1>4, <1>5, FS_Product
<1>7. 1 * n = n
  OBVIOUS
<1>8. Cardinality(A \X B) = n
  BY <1>4, <1>5, <1>6, <1>7
<1> QED BY <1>1, <1>4, <1>5, <1>6, <1>8

\* A pile is the pile of one member and the pile of the others.
LEMMA PileSplits ==
  ASSUME NEW f, NEW S, NEW a \in S
  PROVE  /\ Pile(f, S) = Pile(f, S \ {a}) \cup ({a} \X (1 .. f[a]))
         /\ Pile(f, S \ {a}) \cap ({a} \X (1 .. f[a])) = {}
<1>1. \A T : \A p : p \in Pile(f, T) <=> \E x \in T : p \in {x} \X (1 .. f[x])
  BY DEF Pile
<1>2. \A x, y : \A p \in {x} \X (1 .. f[x]) : p \in {y} \X (1 .. f[y]) => x = y
  OBVIOUS
<1>3. \A p : p \in Pile(f, S) <=> p \in Pile(f, S \ {a}) \/ p \in {a} \X (1 .. f[a])
  BY <1>1
<1>4. ASSUME NEW p \in Pile(f, S \ {a}), p \in {a} \X (1 .. f[a]) PROVE FALSE
  <2>1. PICK x \in S \ {a} : p \in {x} \X (1 .. f[x])
    BY <1>1
  <2> QED BY <2>1, <1>2, <1>4
<1> QED BY <1>3, <1>4

\* The piles of finitely many numbers are finite: the least set with an infinite one would split.
LEMMA PileIsFinite ==
  ASSUME NEW S, IsFiniteSet(S), NEW f, \A x \in S : f[x] \in Nat
  PROVE  IsFiniteSet(Pile(f, S))
<1>1. PICK T : T = {s \in SUBSET S : ~ IsFiniteSet(Pile(f, s))}
  OBVIOUS
<1>2. CASE T = {}
  BY <1>1, <1>2
<1>3. CASE T # {}
  <2>1. T \in SUBSET FiniteSubsetsOf(S)
    BY <1>1, FS_FiniteSubsetsOfFinite
  <2>2. PICK s \in T : \A y \in T : y \subseteq s => y = s
    BY <2>1, <1>3, LeastSet
  <2>3. s \in SUBSET S /\ ~ IsFiniteSet(Pile(f, s))
    BY <1>1
  <2>4. s # {}
    <3>1. Pile(f, {}) = {}
      BY DEF Pile
    <3> QED BY <3>1, <2>3, FS_EmptySet
  <2>5. PICK a \in s : TRUE
    BY <2>4
  <2>6. s \ {a} \notin T
    BY <2>2, <2>5
  <2>7. IsFiniteSet(Pile(f, s \ {a}))
    BY <2>3, <2>6, <1>1
  <2>8. IsFiniteSet({a} \X (1 .. f[a]))
    BY <2>3, OnePile
  <2>9. IsFiniteSet(Pile(f, s \ {a}) \cup ({a} \X (1 .. f[a])))
    BY <2>7, <2>8, FS_Union
  <2> QED BY <2>3, <2>9, PileSplits
<1> QED BY <1>2, <1>3

\* A sum is a number, and may be taken with any member first.
LEMMA TotalSplits ==
  ASSUME NEW S, IsFiniteSet(S), NEW f, \A x \in S : f[x] \in Nat
  PROVE  /\ Total(f, S) \in Nat
         /\ \A a \in S : Total(f, S \ {a}) \in Nat /\ Total(f, S) = f[a] + Total(f, S \ {a})
<1>1. Total(f, S) \in Nat
  BY PileIsFinite, FS_CardinalityType DEF Total
<1>2. ASSUME NEW a \in S
      PROVE  Total(f, S \ {a}) \in Nat /\ Total(f, S) = f[a] + Total(f, S \ {a})
  <2>1. PICK A : A = Pile(f, S \ {a})
    OBVIOUS
  <2>2. PICK B : B = {a} \X (1 .. f[a])
    OBVIOUS
  <2>3. IsFiniteSet(S \ {a})
    BY FS_Subset
  <2>4. IsFiniteSet(A) /\ Cardinality(A) \in Nat
    BY <2>1, <2>3, PileIsFinite, FS_CardinalityType
  <2>5. IsFiniteSet(B) /\ Cardinality(B) = f[a]
    BY <2>2, OnePile
  <2>6. Pile(f, S) = A \cup B /\ A \cap B = {}
    BY <2>1, <2>2, PileSplits
  <2>7. Cardinality(A \cup B) = Cardinality(A) + Cardinality(B) - Cardinality(A \cap B)
    BY <2>4, <2>5, FS_Union
  <2>8. Cardinality(A \cap B) = 0
    BY <2>6, FS_EmptySet
  <2> QED BY <2>1, <2>4, <2>5, <2>6, <2>7, <2>8 DEF Total
<1> QED BY <1>1, <1>2

\* Equal counts have equal sums.
LEMMA SameTotal ==
  ASSUME NEW S, NEW f, NEW h, \A x \in S : f[x] = h[x]
  PROVE  Total(f, S) = Total(h, S)
<1>1. \A p : p \in Pile(f, S) <=> p \in Pile(h, S)
  BY DEF Pile
<1>2. Pile(f, S) = Pile(h, S)
  BY <1>1
<1> QED BY <1>2 DEF Total

\* Where one count changes, the sum changes with it.
LEMMA TotalMoves ==
  ASSUME NEW S, IsFiniteSet(S), NEW f, \A x \in S : f[x] \in Nat, NEW h,
         NEW a \in S, h[a] \in Nat, \A x \in S \ {a} : h[x] = f[x]
  PROVE  Total(h, S) \in Nat /\ Total(h, S) + f[a] = Total(f, S) + h[a]
<1>1. Total(f, S \ {a}) = Total(h, S \ {a})
  BY SameTotal
<1>2. \A x \in S : h[x] \in Nat
  OBVIOUS
<1>3. Total(f, S) = f[a] + Total(f, S \ {a}) /\ Total(f, S \ {a}) \in Nat
  BY TotalSplits
<1>4. Total(h, S) = h[a] + Total(h, S \ {a}) /\ Total(h, S) \in Nat
  BY <1>2, TotalSplits
<1> QED BY <1>1, <1>3, <1>4

\* The sum of nothing is 0.
LEMMA TotalOfNone ==
  ASSUME NEW S, NEW f, \A x \in S : f[x] = 0
  PROVE  Total(f, S) = 0
<1>1. \A x \in S : {x} \X (1 .. f[x]) = {}
  OBVIOUS
<1>2. Pile(f, S) = {}
  BY <1>1 DEF Pile
<1> QED BY <1>2, FS_EmptySet DEF Total

\* No count is more than the sum.
LEMMA TotalIsMore ==
  ASSUME NEW S, IsFiniteSet(S), NEW f, \A x \in S : f[x] \in Nat, NEW a \in S
  PROVE  f[a] <= Total(f, S)
<1>1. Total(f, S) = f[a] + Total(f, S \ {a}) /\ Total(f, S \ {a}) \in Nat
  BY TotalSplits
<1> QED BY <1>1

\* The member that the fold takes next.
Chosen(s) == CHOOSE x \in s : TRUE

\* What a function that follows the fold's recursion gives is the sum.
LEMMA FoldIsTotal ==
  ASSUME NEW S, IsFiniteSet(S), NEW f, \A x \in S : f[x] \in Nat, NEW g,
         \A s \in SUBSET S : g[s] = IF s = {} THEN 0 ELSE f[Chosen(s)] + g[s \ {Chosen(s)}]
  PROVE  g[S] = Total(f, S)
<1>1. PICK T : T = {s \in SUBSET S : g[s] # Total(f, s)}
  OBVIOUS
<1>2. CASE T = {}
  BY <1>1, <1>2
<1>3. CASE T # {}
  <2>1. T \in SUBSET FiniteSubsetsOf(S)
    BY <1>1, FS_FiniteSubsetsOfFinite
  <2>2. PICK s \in T : \A y \in T : y \subseteq s => y = s
    BY <2>1, <1>3, LeastSet
  <2>3. s \in SUBSET S /\ g[s] # Total(f, s)
    BY <1>1
  <2>4. s # {}
    BY <2>3, TotalOfNone
  <2>5. PICK a \in s : a = Chosen(s)
    BY <2>4 DEF Chosen
  <2>6. g[s \ {a}] = Total(f, s \ {a})
    BY <2>2, <2>3, <2>5, <1>1
  <2>7. IsFiniteSet(s)
    BY <2>3, FS_Subset
  <2>8. Total(f, s) = f[a] + Total(f, s \ {a})
    BY <2>3, <2>7, TotalSplits
  <2>9. g[s] = f[a] + g[s \ {a}]
    BY <2>3, <2>4, <2>5
  <2> QED BY <2>3, <2>6, <2>8, <2>9
<1> QED BY <1>2, <1>3

\* g is the function that the fold defines by recursion.
Follows(g, f, S) ==
  g = [s \in SUBSET S |-> IF s = {} THEN 0 ELSE f[Chosen(s)] + g[s \ {Chosen(s)}]]

\* There is a function that follows the recursion: the sum itself.
LEMMA FoldExists ==
  ASSUME NEW S, IsFiniteSet(S), NEW f, \A x \in S : f[x] \in Nat
  PROVE  \E g : Follows(g, f, S)
<1>1. PICK g : g = [s \in SUBSET S |-> Total(f, s)]
  OBVIOUS
<1>2. ASSUME NEW s \in SUBSET S
      PROVE  Total(f, s) = IF s = {} THEN 0 ELSE f[Chosen(s)] + g[s \ {Chosen(s)}]
  <2>1. CASE s = {}
    BY <2>1, TotalOfNone
  <2>2. CASE s # {}
    <3>1. PICK a \in s : a = Chosen(s)
      BY <2>2 DEF Chosen
    <3>2. IsFiniteSet(s)
      BY FS_Subset
    <3>3. Total(f, s) = f[a] + Total(f, s \ {a})
      BY <3>2, TotalSplits
    <3>4. g[s \ {a}] = Total(f, s \ {a})
      BY <1>1
    <3> QED BY <2>2, <3>1, <3>3, <3>4
  <2> QED BY <2>1, <2>2
<1>3. g = [s \in SUBSET S |-> IF s = {} THEN 0 ELSE f[Chosen(s)] + g[s \ {Chosen(s)}]]
  BY <1>1, <1>2, Zenon
<1>4. Follows(g, f, S)
  BY <1>3, Zenon DEF Follows
<1> QED BY <1>4

\* What waits for a name in the flushes, and for a credential under all its names.
InFlushes(fl, s) == MapThenSumSet(LAMBDA f : fl[f].items[s], Flush)

\* The fold over the flushes is the sum of what they hold of the source.
LEMMA InFlushesIsTotal ==
  ASSUME IsFiniteSet(Flush), NEW fl, NEW s, \A f \in Flush : fl[f].items[s] \in Nat
  PROVE  InFlushes(fl, s) = Total([f \in Flush |-> fl[f].items[s]], Flush)
<1>1. PICK h : h = [f \in Flush |-> fl[f].items[s]]
  OBVIOUS
<1>2. \A f \in Flush : h[f] = fl[f].items[s] /\ h[f] \in Nat
  BY <1>1
<1>3. PICK g : Follows(g, h, Flush)
  <2>1. \A x \in Flush : h[x] \in Nat
    BY <1>2
  <2> QED BY <2>1, FoldExists
<1>4. ASSUME NEW t \in SUBSET Flush, NEW k
      PROVE  (IF t = {} THEN 0 ELSE h[Chosen(t)] + k[t \ {Chosen(t)}])
             = (IF t = {} THEN 0
                ELSE fl[CHOOSE x \in t : TRUE].items[s] + k[t \ {CHOOSE x \in t : TRUE}])
  <2>1. CASE t = {}
    BY <2>1
  <2>2. CASE t # {}
    <3>1. PICK a \in t : a = Chosen(t) /\ a = CHOOSE x \in t : TRUE
      BY <2>2 DEF Chosen
    <3>2. h[a] = fl[a].items[s]
      BY <1>2
    <3> QED BY <2>2, <3>1, <3>2
  <2> QED BY <2>1, <2>2
<1>5. g = [t \in SUBSET Flush |-> IF t = {} THEN 0
            ELSE fl[CHOOSE x \in t : TRUE].items[s] + g[t \ {CHOOSE x \in t : TRUE}]]
  BY <1>3, <1>4, Zenon DEF Follows
<1>6. PICK k : /\ k = [t \in SUBSET Flush |-> IF t = {} THEN 0
                    ELSE fl[CHOOSE x \in t : TRUE].items[s] + k[t \ {CHOOSE x \in t : TRUE}]]
               /\ InFlushes(fl, s) = k[Flush]
  BY <1>5 DEF InFlushes, MapThenSumSet, MapThenFoldSet
<1>7. \A t \in SUBSET Flush : k[t] = IF t = {} THEN 0
        ELSE fl[CHOOSE x \in t : TRUE].items[s] + k[t \ {CHOOSE x \in t : TRUE}]
  BY <1>6, Zenon
<1>8. \A t \in SUBSET Flush : k[t] = IF t = {} THEN 0 ELSE h[Chosen(t)] + k[t \ {Chosen(t)}]
  BY <1>4, <1>7
<1>9. k[Flush] = Total(h, Flush)
  BY <1>2, <1>8, FoldIsTotal
<1> QED BY <1>1, <1>6, <1>9

\* What waits for a credential is the sum over its names.
WaitsFor(p, fl, s) == p[s] + InFlushes(fl, s)
WaitingIn(p, fl, c) == MapThenSumSet(LAMBDA n : WaitsFor(p, fl, <<c, n>>), Name)

\* The fold over the names is the sum of what waits under them.
LEMMA WaitingIsTotal ==
  ASSUME IsFiniteSet(Name), NEW p, NEW fl, NEW c,
         NEW h, \A n \in Name : h[n] \in Nat /\ h[n] = WaitsFor(p, fl, <<c, n>>)
  PROVE  WaitingIn(p, fl, c) = Total(h, Name)
<1>3. PICK g : Follows(g, h, Name)
  <2>1. \A x \in Name : h[x] \in Nat
    OBVIOUS
  <2> QED BY <2>1, FoldExists
<1>4. ASSUME NEW t \in SUBSET Name, NEW k
      PROVE  (IF t = {} THEN 0 ELSE h[Chosen(t)] + k[t \ {Chosen(t)}])
             = (IF t = {} THEN 0
                ELSE WaitsFor(p, fl, <<c, CHOOSE x \in t : TRUE>>)
                     + k[t \ {CHOOSE x \in t : TRUE}])
  <2>1. CASE t = {}
    BY <2>1
  <2>2. CASE t # {}
    <3>1. PICK a \in t : a = Chosen(t) /\ a = CHOOSE x \in t : TRUE
      BY <2>2 DEF Chosen
    <3>2. h[a] = WaitsFor(p, fl, <<c, a>>)
      OBVIOUS
    <3> QED BY <2>2, <3>1, <3>2
  <2> QED BY <2>1, <2>2
<1>5. g = [t \in SUBSET Name |-> IF t = {} THEN 0
            ELSE WaitsFor(p, fl, <<c, CHOOSE x \in t : TRUE>>)
                 + g[t \ {CHOOSE x \in t : TRUE}]]
  BY <1>3, <1>4, Zenon DEF Follows
<1>6. PICK k : /\ k = [t \in SUBSET Name |-> IF t = {} THEN 0
                    ELSE WaitsFor(p, fl, <<c, CHOOSE x \in t : TRUE>>)
                         + k[t \ {CHOOSE x \in t : TRUE}]]
               /\ WaitingIn(p, fl, c) = k[Name]
  BY <1>5 DEF WaitingIn, MapThenSumSet, MapThenFoldSet
<1>7. \A t \in SUBSET Name : k[t] = IF t = {} THEN 0
        ELSE WaitsFor(p, fl, <<c, CHOOSE x \in t : TRUE>>)
             + k[t \ {CHOOSE x \in t : TRUE}]
  BY <1>6, Zenon
<1>8. \A t \in SUBSET Name : k[t] = IF t = {} THEN 0 ELSE h[Chosen(t)] + k[t \ {Chosen(t)}]
  BY <1>4, <1>7
<1> QED BY <1>6, <1>8, FoldIsTotal

\* What Connections takes for waiting, in this state and in the next.
LEMMA WaitingNow ==
  ASSUME NEW c
  PROVE  Waiting(c) = WaitingIn(pending, flush, c) /\ Waiting(c)' = WaitingIn(pending', flush', c)
BY DEF Waiting, WaitingIn, WaitsFor, InFlushes, MapThenSumSet, MapThenFoldSet

\* What is in memory, and in the flushes, is counted.
Counted(p, fl) == p \in [Source -> Nat] /\ \A f \in Flush : fl[f].items \in [Source -> Nat]

\* Where what one flush holds of a source changes, the sum over the flushes does.
LEMMA InFlushesMoves ==
  ASSUME NEW s, NEW fl, NEW gl, NEW f \in Flush,
         \A g \in Flush : fl[g].items[s] \in Nat /\ gl[g].items[s] \in Nat,
         \A g \in Flush \ {f} : gl[g].items[s] = fl[g].items[s]
  PROVE  /\ InFlushes(fl, s) \in Nat /\ InFlushes(gl, s) \in Nat
         /\ fl[f].items[s] <= InFlushes(fl, s)
         /\ InFlushes(gl, s) + fl[f].items[s] = InFlushes(fl, s) + gl[f].items[s]
<1>1. PICK h : h = [g \in Flush |-> fl[g].items[s]]
  OBVIOUS
<1>2. PICK k : k = [g \in Flush |-> gl[g].items[s]]
  OBVIOUS
<1>0. IsFiniteSet(Flush)
  BY ConnectionsAssumption
<1>3. \A g \in Flush : h[g] \in Nat /\ k[g] \in Nat /\ h[g] = fl[g].items[s]
    /\ k[g] = gl[g].items[s]
  BY <1>1, <1>2
<1>4. \A g \in Flush : h[g] \in Nat
  BY <1>3
<1>5. k[f] \in Nat /\ \A g \in Flush \ {f} : k[g] = h[g]
  BY <1>3
<1>6. Total(k, Flush) \in Nat /\ Total(k, Flush) + h[f] = Total(h, Flush) + k[f]
  BY <1>0, <1>4, <1>5, TotalMoves
<1>7. Total(h, Flush) \in Nat /\ h[f] <= Total(h, Flush)
  BY <1>0, <1>4, TotalSplits, TotalIsMore
<1>8. InFlushes(fl, s) = Total(h, Flush)
  BY <1>0, <1>1, InFlushesIsTotal
<1>9. InFlushes(gl, s) = Total(k, Flush)
  BY <1>0, <1>2, InFlushesIsTotal
<1> QED BY <1>3, <1>6, <1>7, <1>8, <1>9

\* What waits of a source is a number, and no part of it is more.
LEMMA WaitsAreNumbers ==
  ASSUME NEW p, NEW fl, Counted(p, fl), NEW s \in Source
  PROVE  /\ WaitsFor(p, fl, s) \in Nat /\ p[s] <= WaitsFor(p, fl, s) /\ InFlushes(fl, s) \in Nat
         /\ \A f \in Flush : fl[f].items[s] <= WaitsFor(p, fl, s)
<1>1. p[s] \in Nat /\ \A f \in Flush : fl[f].items[s] \in Nat
  BY DEF Counted
<1>2. ASSUME NEW f \in Flush PROVE InFlushes(fl, s) \in Nat /\ fl[f].items[s] <= InFlushes(fl, s)
  BY <1>1, InFlushesMoves
<1>3. InFlushes(fl, s) \in Nat
  <2>1. PICK h : h = [g \in Flush |-> fl[g].items[s]]
    OBVIOUS
  <2>2. (\A g \in Flush : h[g] \in Nat) /\ IsFiniteSet(Flush)
    BY <2>1, <1>1, ConnectionsAssumption
  <2>3. Total(h, Flush) \in Nat
    BY <2>2, TotalSplits
  <2> QED BY <2>1, <2>2, <2>3, <1>1, InFlushesIsTotal
<1> QED BY <1>1, <1>2, <1>3 DEF WaitsFor

\* The counts of the names, as a function.
LEMMA WaitingByName ==
  ASSUME NEW p, NEW fl, Counted(p, fl), NEW c \in Cred
  PROVE  \E h : /\ \A n \in Name : h[n] \in Nat /\ h[n] = WaitsFor(p, fl, <<c, n>>)
                /\ WaitingIn(p, fl, c) = Total(h, Name)
<1>1. PICK h : h = [n \in Name |-> WaitsFor(p, fl, <<c, n>>)]
  OBVIOUS
<1>2. \A n \in Name : <<c, n>> \in Source
  BY DEF Source
<1>3. \A n \in Name : h[n] \in Nat /\ h[n] = WaitsFor(p, fl, <<c, n>>)
  BY <1>1, <1>2, WaitsAreNumbers
<1>4. IsFiniteSet(Name)
  BY ConnectionsAssumption
<1>5. WaitingIn(p, fl, c) = Total(h, Name)
  BY <1>3, <1>4, WaitingIsTotal
<1> QED BY <1>3, <1>5

\* What waits for a credential is a number, and no name has more of it in memory.
LEMMA WaitingIsANumber ==
  ASSUME NEW p, NEW fl, Counted(p, fl), NEW c \in Cred
  PROVE  /\ WaitingIn(p, fl, c) \in Nat
         /\ \A n \in Name : p[<<c, n>>] <= WaitingIn(p, fl, c)
<1>1. PICK h : /\ \A n \in Name : h[n] \in Nat /\ h[n] = WaitsFor(p, fl, <<c, n>>)
               /\ WaitingIn(p, fl, c) = Total(h, Name)
  BY WaitingByName
<1>2. IsFiniteSet(Name) /\ \A n \in Name : h[n] \in Nat
  BY <1>1, ConnectionsAssumption
<1>3. Total(h, Name) \in Nat /\ \A n \in Name : h[n] <= Total(h, Name)
  BY <1>2, TotalSplits, TotalIsMore
<1>4. ASSUME NEW n \in Name PROVE p[<<c, n>>] <= WaitingIn(p, fl, c)
  <2>1. <<c, n>> \in Source
    BY DEF Source
  <2>2. p[<<c, n>>] <= h[n] /\ p[<<c, n>>] \in Nat
    BY <2>1, <1>1, WaitsAreNumbers DEF Counted
  <2>3. h[n] \in Nat /\ h[n] <= Total(h, Name)
    BY <1>2, <1>3
  <2> QED BY <2>2, <2>3, <1>1, <1>3
<1> QED BY <1>1, <1>3, <1>4

\* Where nothing changes for its names, a credential waits for as much.
LEMMA WaitingSame ==
  ASSUME NEW p, NEW fl, Counted(p, fl), NEW q, NEW gl, Counted(q, gl), NEW c \in Cred,
         \A n \in Name : WaitsFor(q, gl, <<c, n>>) = WaitsFor(p, fl, <<c, n>>)
  PROVE  WaitingIn(q, gl, c) = WaitingIn(p, fl, c)
<1>1. PICK h : /\ \A n \in Name : h[n] \in Nat /\ h[n] = WaitsFor(p, fl, <<c, n>>)
               /\ WaitingIn(p, fl, c) = Total(h, Name)
  BY WaitingByName
<1>2. \A n \in Name : h[n] \in Nat /\ h[n] = WaitsFor(q, gl, <<c, n>>)
  BY <1>1
<1>3. WaitingIn(q, gl, c) = Total(h, Name)
  BY <1>2, ConnectionsAssumption, WaitingIsTotal
<1> QED BY <1>1, <1>3

\* Where what waits under one name changes, what waits for the credential does.
LEMMA WaitingMoves ==
  ASSUME NEW p, NEW fl, Counted(p, fl), NEW q, NEW gl, Counted(q, gl), NEW c \in Cred,
      NEW a \in Name,
         \A n \in Name \ {a} : WaitsFor(q, gl, <<c, n>>) = WaitsFor(p, fl, <<c, n>>)
  PROVE  WaitingIn(q, gl, c) + WaitsFor(p, fl, <<c, a>>)
         = WaitingIn(p, fl, c) + WaitsFor(q, gl, <<c, a>>)
<1>1. PICK h : /\ \A n \in Name : h[n] \in Nat /\ h[n] = WaitsFor(p, fl, <<c, n>>)
               /\ WaitingIn(p, fl, c) = Total(h, Name)
  BY WaitingByName
<1>2. PICK k : /\ \A n \in Name : k[n] \in Nat /\ k[n] = WaitsFor(q, gl, <<c, n>>)
               /\ WaitingIn(q, gl, c) = Total(k, Name)
  BY WaitingByName
<1>3. IsFiniteSet(Name) /\ \A n \in Name : h[n] \in Nat
  BY <1>1, ConnectionsAssumption
<1>4. k[a] \in Nat /\ \A n \in Name \ {a} : k[n] = h[n]
  BY <1>1, <1>2
<1>5. Total(k, Name) + h[a] = Total(h, Name) + k[a]
  BY <1>3, <1>4, TotalMoves
<1> QED BY <1>1, <1>2, <1>5

\* One count that changes, of those in memory or in one flush, changes what waits for its
\* credential.
LEMMA OneCountMoves ==
  ASSUME NEW p, NEW fl, Counted(p, fl), NEW q, NEW gl, Counted(q, gl), NEW s \in Source,
         NEW v \in Nat, NEW w \in Nat,
         WaitsFor(q, gl, s) + v = WaitsFor(p, fl, s) + w,
         \A t \in Source \ {s} : WaitsFor(q, gl, t) = WaitsFor(p, fl, t)
  PROVE  \A c \in Cred :
           IF c = s[1] THEN WaitingIn(q, gl, c) + v = WaitingIn(p, fl, c) + w
           ELSE WaitingIn(q, gl, c) = WaitingIn(p, fl, c)
<1>1. ASSUME NEW c \in Cred, c # s[1] PROVE WaitingIn(q, gl, c) = WaitingIn(p, fl, c)
  <2>1. \A n \in Name : <<c, n>> \in Source \ {s}
    BY <1>1 DEF Source
  <2> QED BY <2>1, WaitingSame
<1>2. ASSUME NEW c \in Cred, c = s[1] PROVE WaitingIn(q, gl, c) + v = WaitingIn(p, fl, c) + w
  <2>1. PICK a \in Name : s = <<c, a>>
    BY <1>2 DEF Source
  <2>2. \A n \in Name \ {a} : <<c, n>> \in Source \ {s}
    BY <2>1 DEF Source
  <2>3. WaitingIn(q, gl, c) + WaitsFor(p, fl, s) = WaitingIn(p, fl, c) + WaitsFor(q, gl, s)
    BY <2>1, <2>2, WaitingMoves
  <2>4. WaitsFor(p, fl, s) \in Nat /\ WaitsFor(q, gl, s) \in Nat
    BY WaitsAreNumbers
  <2>5. WaitingIn(q, gl, c) \in Nat /\ WaitingIn(p, fl, c) \in Nat
    BY WaitingIsANumber
  <2> QED BY <2>3, <2>4, <2>5
<1> QED BY <1>1, <1>2

\* Where one flush has another number of one source, that is all that changes.
LEMMA OneItemMoves ==
  ASSUME NEW p, NEW fl, Counted(p, fl), NEW gl, Counted(p, gl), NEW f \in Flush, NEW s \in Source,
         \A g \in Flush : \A t \in Source : g # f \/ t # s => gl[g].items[t] = fl[g].items[t]
  PROVE  \A c \in Cred :
           IF c = s[1]
           THEN WaitingIn(p, gl, c) + fl[f].items[s] = WaitingIn(p, fl, c) + gl[f].items[s]
           ELSE WaitingIn(p, gl, c) = WaitingIn(p, fl, c)
<1>1. \A t \in Source : \A g \in Flush : fl[g].items[t] \in Nat /\ gl[g].items[t] \in Nat
  BY DEF Counted
<1>2. /\ InFlushes(fl, s) \in Nat /\ InFlushes(gl, s) \in Nat
      /\ InFlushes(gl, s) + fl[f].items[s] = InFlushes(fl, s) + gl[f].items[s]
  <2>1. \A g \in Flush : fl[g].items[s] \in Nat /\ gl[g].items[s] \in Nat
    BY <1>1
  <2>2. \A g \in Flush \ {f} : gl[g].items[s] = fl[g].items[s]
    OBVIOUS
  <2> QED BY <2>1, <2>2, InFlushesMoves
<1>3. p[s] \in Nat
  BY DEF Counted
<1>4. WaitsFor(p, gl, s) + fl[f].items[s] = WaitsFor(p, fl, s) + gl[f].items[s]
  BY <1>1, <1>2, <1>3 DEF WaitsFor
<1>5. ASSUME NEW t \in Source \ {s} PROVE WaitsFor(p, gl, t) = WaitsFor(p, fl, t)
  <2>1. \A g \in Flush : fl[g].items[t] \in Nat /\ gl[g].items[t] \in Nat
    BY <1>1
  <2>2. \A g \in Flush \ {f} : gl[g].items[t] = fl[g].items[t]
    BY <1>5
  <2>3. InFlushes(gl, t) + fl[f].items[t] = InFlushes(fl, t) + gl[f].items[t]
        /\ InFlushes(fl, t) \in Nat /\ InFlushes(gl, t) \in Nat
    BY <2>1, <2>2, InFlushesMoves
  <2>4. gl[f].items[t] = fl[f].items[t]
    BY <1>5
  <2>5. InFlushes(gl, t) = InFlushes(fl, t)
    BY <2>1, <2>3, <2>4
  <2> QED BY <2>5 DEF WaitsFor
<1> QED BY <1>1, <1>4, <1>5, OneCountMoves

\* A request that is counted in memory.
LEMMA OneMoreWaits ==
  ASSUME NEW p, NEW fl, Counted(p, fl), NEW q, Counted(q, fl), NEW s \in Source, q[s] = p[s] + 1,
         \A t \in Source \ {s} : q[t] = p[t]
  PROVE  \A c \in Cred : WaitingIn(q, fl, c) = WaitingIn(p, fl, c) + (IF c = s[1] THEN 1 ELSE 0)
<1>1. WaitsFor(q, fl, s) + 0 = WaitsFor(p, fl, s) + 1
  <2>1. InFlushes(fl, s) \in Nat /\ p[s] \in Nat
    BY WaitsAreNumbers DEF Counted
  <2> QED BY <2>1 DEF WaitsFor
<1>2. \A t \in Source \ {s} : WaitsFor(q, fl, t) = WaitsFor(p, fl, t)
  BY DEF WaitsFor
<1>3. \A c \in Cred :
        IF c = s[1] THEN WaitingIn(q, fl, c) + 0 = WaitingIn(p, fl, c) + 1
        ELSE WaitingIn(q, fl, c) = WaitingIn(p, fl, c)
  BY <1>1, <1>2, OneCountMoves
<1>4. \A c \in Cred : WaitingIn(q, fl, c) \in Nat /\ WaitingIn(p, fl, c) \in Nat
  BY WaitingIsANumber
<1> QED BY <1>3, <1>4

\* What a flush that had nothing takes from memory waits on.
LEMMA TakenWaitsOn ==
  ASSUME NEW p, NEW fl, Counted(p, fl), NEW q, NEW gl, Counted(q, gl), NEW f \in Flush,
         \A s \in Source : fl[f].items[s] = 0 /\ gl[f].items[s] = p[s] /\ q[s] = 0,
         \A g \in Flush \ {f} : gl[g].items = fl[g].items
  PROVE  \A c \in Cred : WaitingIn(q, gl, c) = WaitingIn(p, fl, c)
<1>1. ASSUME NEW s \in Source PROVE WaitsFor(q, gl, s) = WaitsFor(p, fl, s)
  <2>1. \A g \in Flush : fl[g].items[s] \in Nat /\ gl[g].items[s] \in Nat
    BY DEF Counted
  <2>2. \A g \in Flush \ {f} : gl[g].items[s] = fl[g].items[s]
    OBVIOUS
  <2>3. InFlushes(gl, s) + fl[f].items[s] = InFlushes(fl, s) + gl[f].items[s]
        /\ InFlushes(fl, s) \in Nat /\ InFlushes(gl, s) \in Nat
    BY <2>1, <2>2, InFlushesMoves
  <2>4. p[s] \in Nat
    BY DEF Counted
  <2> QED BY <2>3, <2>4 DEF WaitsFor
<1>2. \A c \in Cred, n \in Name : <<c, n>> \in Source
  BY DEF Source
<1> QED BY <1>1, <1>2, WaitingSame

\* Where nothing is counted, nothing waits.
LEMMA NoneWaits ==
  ASSUME NEW p, NEW fl, Counted(p, fl), NEW c \in Cred,
         \A n \in Name : p[<<c, n>>] = 0 /\ \A f \in Flush : fl[f].items[<<c, n>>] = 0
  PROVE  WaitingIn(p, fl, c) = 0
<1>1. PICK h : /\ \A n \in Name : h[n] \in Nat /\ h[n] = WaitsFor(p, fl, <<c, n>>)
               /\ WaitingIn(p, fl, c) = Total(h, Name)
  BY WaitingByName
<1>2. ASSUME NEW n \in Name PROVE h[n] = 0
  <2>1. PICK k : k = [f \in Flush |-> fl[f].items[<<c, n>>]]
    OBVIOUS
  <2>2. \A f \in Flush : k[f] = 0
    BY <2>1
  <2>3. Total(k, Flush) = 0
    BY <2>2, TotalOfNone
  <2>4. \A f \in Flush : fl[f].items[<<c, n>>] \in Nat
    OBVIOUS
  <2>5. InFlushes(fl, <<c, n>>) = 0
    BY <2>1, <2>3, <2>4, ConnectionsAssumption, InFlushesIsTotal
  <2> QED BY <2>5, <1>1 DEF WaitsFor
<1> QED BY <1>1, <1>2, TotalOfNone
\* A flush is where its record says: with something to record of a source, and the row it knows.
FlushFits(f) ==
  /\ flush[f].at = "idle" => \A s \in Source : flush[f].items[s] = 0
  /\ flush[f].at \in {"look", "insert", "update"} => flush[f].items[flush[f].of] > 0
  /\ flush[f].at \in {"update", "back"} => flush[f].id # 0

\* No count runs ahead of the requests, neither the row's nor what a flush will write of it.
CountsBehind ==
  /\ \A c \in Cred : /\ row[c].id = 0 => row[c].count = 0
                     /\ row[c].count + WaitingIn(pending, flush, c) <= asked[c]
  /\ \A f \in Flush : flush[f].at = "update" =>
       flush[f].seen + WaitingIn(pending, flush, Holder(f)) <= asked[Holder(f)]

\* Where nothing excuses a loss, one flush at a time writes the row, and what it knows of it
\* is true.
ExactRow(c) ==
  excused[c] = {} =>
    /\ row[c].count + WaitingIn(pending, flush, c) = asked[c]
    /\ \A f, g \in Writing(c) : f = g
    /\ \A f \in Flush : Holder(f) = c =>
         /\ flush[f].at = "insert" => row[c].id = 0
         /\ flush[f].at = "update" => flush[f].id = row[c].id /\ flush[f].seen = row[c].count
         /\ flush[f].at = "back" => flush[f].id = row[c].id

\* A sweep knows of every live credential, or knows that it came later.
SweepKnows ==
  /\ sweep \in [at : {"idle", "rows", "each"}, known : SUBSET Cred, list : SUBSET Cred,
     late : SUBSET Cred]
  /\ sweep.at # "idle" => \A c \in Cred : credential[c] = "live" =>
     c \in sweep.known \cup sweep.late
  /\ swept = {}

\* The inductive invariant of Connections.
ConnectionsInv ==
  /\ ConnectionsTypeOK
  /\ \A f \in Flush : FlushFits(f)
  /\ CountsBehind
  /\ \A c \in Cred : ExactRow(c)
  /\ SweepKnows
  /\ WaitingHasTimer

\* The record of a flush.
FlushRecord ==
  [at : {"idle", "next", "look", "insert", "update", "back"}, items : [Source -> 0 .. MaxAsked],
   of : Source, id : 0 .. MaxRows, seen : 0 .. MaxAsked]

\* What the types say, as numbers.
LEMMA ConnectionNumbers ==
  ASSUME ConnectionsTypeOK
  PROVE  /\ Counted(pending, flush)
         /\ \A c \in Cred : /\ WaitingIn(pending, flush, c) \in Nat
                            /\ row[c].count \in Nat /\ row[c].id \in 0 .. MaxRows
                               /\ asked[c] \in Nat
         /\ \A f \in Flush : flush[f] \in FlushRecord /\ flush[f].of \in Source
            /\ Holder(f) \in Cred
         /\ \A f \in Flush : flush[f].seen \in Nat /\ flush[f].at = flush[f].at
         /\ 0 .. MaxAsked \subseteq Nat
<1>1. 0 .. MaxAsked \subseteq Nat
  BY ConnectionsAssumption
<1>2. Counted(pending, flush)
  <2>1. pending \in [Source -> Nat]
    BY <1>1 DEF ConnectionsTypeOK
  <2>2. \A f \in Flush : flush[f].items \in [Source -> 0 .. MaxAsked]
    BY DEF ConnectionsTypeOK
  <2>3. \A f \in Flush : flush[f].items \in [Source -> Nat]
    BY <1>1, <2>2
  <2> QED BY <2>1, <2>3 DEF Counted
<1>3. \A c \in Cred : WaitingIn(pending, flush, c) \in Nat
  BY <1>2, WaitingIsANumber
<1>4. \A c \in Cred : row[c].count \in 0 .. MaxAsked /\ row[c].id \in 0 .. MaxRows
                      /\ asked[c] \in 0 .. MaxAsked
  BY DEF ConnectionsTypeOK
<1>5. \A f \in Flush : flush[f] \in FlushRecord
  BY DEF ConnectionsTypeOK, FlushRecord
<1>6. \A f \in Flush : flush[f].of \in Source /\ flush[f].seen \in 0 .. MaxAsked
  BY <1>5 DEF FlushRecord
<1>7. \A f \in Flush : Holder(f) \in Cred
  BY <1>6 DEF Holder, Source
<1> QED BY <1>1, <1>2, <1>3, <1>4, <1>5, <1>6, <1>7

\* A step of the credentials or of the sweep that leaves the counts alone.
LEMMA CountsStay ==
  ASSUME ConnectionsInv, UNCHANGED <<pending, armed, flush, row, asked, excused>>,
         ConnectionsTypeOK', SweepKnows'
  PROVE  ConnectionsInv'
<1>1. \A f \in Flush : FlushFits(f)'
  BY DEF ConnectionsInv, FlushFits
<1>2. CountsBehind'
  BY DEF ConnectionsInv, CountsBehind, Holder
<1>3. \A c \in Cred : ExactRow(c)'
  BY DEF ConnectionsInv, ExactRow, Holder, Writing
<1>4. WaitingHasTimer'
  BY DEF ConnectionsInv, WaitingHasTimer
<1> QED BY <1>1, <1>2, <1>3, <1>4 DEF ConnectionsInv

\* Approving and withdrawing a credential, while a sweep looks or not.
LEMMA CredentialsKeep ==
  ASSUME ConnectionsInv, NEW c \in Cred, Approve(c) \/ Withdraw(c)
  PROVE  ConnectionsInv'
<1>1. ConnectionsTypeOK /\ SweepKnows
  BY DEF ConnectionsInv
<1>2. SweepKnows'
  <2>1. CASE Approve(c)
    BY <1>1, <2>1 DEF Approve, SweepKnows, ConnectionsTypeOK
  <2>2. CASE Withdraw(c)
    BY <1>1, <2>2 DEF Withdraw, SweepKnows, ConnectionsTypeOK
  <2> QED BY <2>1, <2>2
<1>3. ConnectionsTypeOK'
  <2>1. sweep'.at \in {"idle", "rows", "each"}
    BY <1>2 DEF SweepKnows
  <2> QED BY <2>1, <1>1 DEF Approve, Withdraw, ConnectionsTypeOK
<1> QED BY <1>2, <1>3, CountsStay DEF Approve, Withdraw

\* A sweep looks at the credentials first, and at the rows then.
LEMMA SweepLooks ==
  ASSUME ConnectionsInv, SweepBegins \/ ListRows
  PROVE  ConnectionsInv'
<1>1. ConnectionsTypeOK /\ SweepKnows
  BY DEF ConnectionsInv
<1>2. SweepKnows'
  <2>1. CASE SweepBegins
    <3>1. PICK K \in SUBSET Cred : K = {c \in Cred : credential[c] = "live"}
      OBVIOUS
    <3>2. sweep' = [at |-> "rows", known |-> K, list |-> {}, late |-> {}]
      BY <2>1, <3>1 DEF SweepBegins
    <3>3. sweep' \in [at : {"idle", "rows", "each"}, known : SUBSET Cred, list : SUBSET Cred,
                      late : SUBSET Cred]
      BY <3>2
    <3>4. sweep'.known = K
      BY <3>2
    <3> QED BY <1>1, <2>1, <3>1, <3>3, <3>4 DEF SweepBegins, SweepKnows
  <2>2. CASE ListRows
    BY <1>1, <2>2 DEF ListRows, SweepKnows
  <2> QED BY <2>1, <2>2
<1>3. ConnectionsTypeOK'
  <2>1. sweep'.at \in {"idle", "rows", "each"}
    BY <1>2 DEF SweepKnows
  <2> QED BY <2>1, <1>1 DEF SweepBegins, ListRows, ConnectionsTypeOK
<1> QED BY <1>2, <1>3, CountsStay DEF SweepBegins, ListRows

\* A row that is forgotten is excused for good.
LEMMA ForgottenIsExcused ==
  ASSUME ConnectionsInv, NEW c \in Cred, RowGone(c), UNCHANGED <<pending, armed, flush, asked>>,
         UNCHANGED <<credential, rows>>, SweepKnows'
  PROVE  ConnectionsInv'
<1>1. ConnectionsTypeOK /\ CountsBehind /\ \A d \in Cred : ExactRow(d)
  BY DEF ConnectionsInv
<1>2. /\ row' = [row EXCEPT ![c] = [id |-> 0, count |-> 0]]
      /\ excused' = [d \in Cred |-> IF d = c THEN excused[d] \cup {"forgotten"} ELSE excused[d]]
  BY DEF RowGone, Unmet, Excuse
<1>3. ConnectionsTypeOK'
  <2>1. row' \in [Cred -> [id : 0 .. MaxRows, count : 0 .. MaxAsked]]
    <3>1. [id |-> 0, count |-> 0] \in [id : 0 .. MaxRows, count : 0 .. MaxAsked]
      BY ConnectionsAssumption
    <3> QED BY <3>1, <1>1, <1>2 DEF ConnectionsTypeOK
  <2>2. excused' \in [Cred -> SUBSET {"overlap", "forgotten", "crash"}]
    BY <1>1, <1>2 DEF ConnectionsTypeOK
  <2>3. sweep'.at \in {"idle", "rows", "each"} /\ swept' \subseteq Cred
    BY DEF SweepKnows
  <2> QED BY <2>1, <2>2, <2>3, <1>1 DEF ConnectionsTypeOK
<1>4. row'[c].id = 0 /\ row'[c].count = 0 /\ \A d \in Cred : d # c => row'[d] = row[d]
  BY <1>1, <1>2 DEF ConnectionsTypeOK
<1>5. excused'[c] # {} /\ \A d \in Cred : d # c => excused'[d] = excused[d]
  BY <1>2
<1>6. CountsBehind'
  <2>1. ASSUME NEW d \in Cred
        PROVE  /\ row'[d].id = 0 => row'[d].count = 0
               /\ row'[d].count + WaitingIn(pending, flush, d) <= asked[d]
    <3>1. CASE d = c
      <4>1. /\ row[c].count + WaitingIn(pending, flush, c) <= asked[c]
            /\ row[c].count \in Nat /\ WaitingIn(pending, flush, c) \in Nat /\ asked[c] \in Nat
        BY <1>1, ConnectionNumbers DEF CountsBehind
      <4> QED BY <3>1, <4>1, <1>4
    <3>2. CASE d # c
      BY <3>2, <1>1, <1>4 DEF CountsBehind
    <3> QED BY <3>1, <3>2
  <2>2. \A f \in Flush : flush'[f].at = "update" =>
          flush'[f].seen + WaitingIn(pending, flush, Holder(f)) <= asked[Holder(f)]
    BY <1>1 DEF CountsBehind
  <2> QED BY <2>1, <2>2 DEF CountsBehind, Holder
<1>7. \A d \in Cred : ExactRow(d)'
  BY <1>1, <1>4, <1>5 DEF ExactRow, Holder, Writing
<1>8. \A f \in Flush : FlushFits(f)'
  BY DEF ConnectionsInv, FlushFits
<1>9. WaitingHasTimer'
  BY DEF ConnectionsInv, WaitingHasTimer
<1> QED BY <1>3, <1>6, <1>7, <1>8, <1>9 DEF ConnectionsInv

\* A sweep forgets no row of a credential that is live and was when it began.
LEMMA ForgetKeeps ==
  ASSUME ConnectionsInv, (\E c \in Cred : Forget(c)) \/ ForgetUnknown
  PROVE  ConnectionsInv'
<1>1. ConnectionsTypeOK /\ SweepKnows
  BY DEF ConnectionsInv
<1>2. ASSUME NEW c \in Cred, Forget(c) PROVE ConnectionsInv'
  <2>1. SweepKnows'
    BY <1>1, <1>2 DEF Forget, SweepKnows
  <2> QED BY <1>2, <2>1, ForgottenIsExcused DEF Forget
<1>3. CASE ForgetUnknown
  <2>1. CASE sweep.list = {}
    <3>1. SweepKnows'
      BY <1>1, <1>3, <2>1 DEF ForgetUnknown, Sweeping, SweepKnows
    <3>2. ConnectionsTypeOK'
      <4>1. sweep'.at \in {"idle", "rows", "each"}
        BY <3>1 DEF SweepKnows
      <4> QED BY <4>1, <1>1, <1>3, <2>1 DEF ForgetUnknown, ConnectionsTypeOK
    <3> QED BY <3>1, <3>2, <1>3, <2>1, CountsStay DEF ForgetUnknown
  <2>2. CASE sweep.list # {}
    <3>1. PICK c \in sweep.list :
            /\ sweep' = [sweep EXCEPT !.list = @ \ {c}]
            /\ IF c \notin sweep.known /\ row[c].id # 0
               THEN /\ RowGone(c)
                    /\ swept' = swept \cup (IF credential[c] = "live" THEN {c} \ sweep.late ELSE {})
               ELSE UNCHANGED <<row, excused, swept>>
      BY <1>3, <2>2 DEF ForgetUnknown
    <3>2. c \in Cred /\ sweep.at = "each"
      BY <1>1, <1>3 DEF SweepKnows, ForgetUnknown
    <3>3. UNCHANGED <<credential, pending, armed, flush, rows, asked>>
      BY <1>3 DEF ForgetUnknown
    <3>4. swept' = {}
      BY <1>1, <3>1, <3>2 DEF SweepKnows
    <3>5. SweepKnows'
      BY <1>1, <3>1, <3>3, <3>4 DEF SweepKnows
    <3>6. CASE RowGone(c)
      BY <3>2, <3>3, <3>5, <3>6, ForgottenIsExcused
    <3>7. CASE UNCHANGED <<row, excused, swept>>
      <4>1. ConnectionsTypeOK'
        <5>1. sweep'.at \in {"idle", "rows", "each"}
          BY <3>5 DEF SweepKnows
        <5> QED BY <5>1, <1>1, <3>3, <3>7 DEF ConnectionsTypeOK
      <4> QED BY <4>1, <3>3, <3>5, <3>7, CountsStay
    <3> QED BY <3>1, <3>6, <3>7
  <2> QED BY <2>1, <2>2
<1> QED BY <1>2, <1>3

\* A request waits to be counted, with a timer.
LEMMA AskKeeps ==
  ASSUME ConnectionsInv, NEW s \in Source, Ask(s)
  PROVE  ConnectionsInv'
<1>1. ConnectionsTypeOK /\ CountsBehind /\ \A d \in Cred : ExactRow(d)
  BY DEF ConnectionsInv
<1>2. PICK c \in Cred : c = s[1]
  BY DEF Source
<1>3. /\ pending' = [pending EXCEPT ![s] = pending[s] + 1]
      /\ asked' = [asked EXCEPT ![c] = asked[c] + 1] /\ asked[c] < MaxAsked
      /\ armed' /\ armed' \in BOOLEAN
      /\ UNCHANGED <<credential, flush, row, rows, sweep, excused, swept>>
  BY <1>2 DEF Ask
<1>4. /\ Counted(pending, flush)
      /\ \A d \in Cred : WaitingIn(pending, flush, d) \in Nat /\ row[d].count \in Nat
         /\ asked[d] \in Nat
      /\ \A f \in Flush : Holder(f) \in Cred /\ flush[f].seen \in Nat
  BY <1>1, ConnectionNumbers
<1>5. /\ pending'[s] = pending[s] + 1 /\ \A t \in Source \ {s} : pending'[t] = pending[t]
      /\ pending' \in [Source -> Nat]
  BY <1>3, <1>4 DEF Counted
<1>6. Counted(pending', flush)
  BY <1>4, <1>5 DEF Counted
<1>7. \A d \in Cred :
        WaitingIn(pending', flush, d) = WaitingIn(pending, flush, d) + (IF d = c THEN 1 ELSE 0)
  BY <1>2, <1>4, <1>5, <1>6, OneMoreWaits
<1>8. \A d \in Cred : asked'[d] = asked[d] + (IF d = c THEN 1 ELSE 0)
  BY <1>1, <1>3, <1>4 DEF ConnectionsTypeOK
<1>9. CountsBehind'
  <2>1. ASSUME NEW d \in Cred
        PROVE  /\ row[d].id = 0 => row[d].count = 0
               /\ row[d].count + WaitingIn(pending', flush, d) <= asked'[d]
    BY <1>1, <1>4, <1>7, <1>8 DEF CountsBehind
  <2>2. ASSUME NEW f \in Flush, flush[f].at = "update"
        PROVE  flush[f].seen + WaitingIn(pending', flush, Holder(f)) <= asked'[Holder(f)]
    <3>1. PICK d \in Cred : d = Holder(f)
      BY <1>4
    <3>2. flush[f].seen + WaitingIn(pending, flush, d) <= asked[d]
      BY <1>1, <2>2, <3>1 DEF CountsBehind
    <3>3. flush[f].seen \in Nat /\ WaitingIn(pending, flush, d) \in Nat /\ asked[d] \in Nat
      BY <1>4
    <3>4. flush[f].seen + WaitingIn(pending', flush, d) <= asked'[d]
      BY <3>2, <3>3, <1>7, <1>8
    <3> QED BY <3>1, <3>4
  <2> QED BY <2>1, <2>2, <1>3 DEF CountsBehind, Holder
<1>10. ASSUME NEW d \in Cred PROVE ExactRow(d)'
  <2>1. excused[d] = {} => row[d].count + WaitingIn(pending', flush, d) = asked'[d]
    BY <1>1, <1>4, <1>7, <1>8 DEF ExactRow
  <2> QED BY <2>1, <1>1, <1>3 DEF ExactRow, Holder, Writing
<1>11. ConnectionsTypeOK'
  <2>1. pending' \in [Source -> 0 .. MaxAsked]
    <3>1. PICK n \in Name : s = <<c, n>>
      BY <1>2 DEF Source
    <3>2. pending'[s] <= WaitingIn(pending', flush, c)
      BY <3>1, <1>6, WaitingIsANumber
    <3>3. WaitingIn(pending', flush, c) <= asked'[c] /\ WaitingIn(pending', flush, c) \in Nat
      <4>1. row[c].count + WaitingIn(pending', flush, c) <= asked'[c]
        BY <1>3, <1>9 DEF CountsBehind
      <4>2. asked'[c] \in Nat /\ WaitingIn(pending', flush, c) \in Nat
        BY <1>4, <1>6, <1>8, WaitingIsANumber
      <4> QED BY <4>1, <4>2, <1>4
    <3>4. asked'[c] <= MaxAsked /\ asked'[c] \in Nat
      BY <1>3, <1>4, <1>8, ConnectionsAssumption
    <3>5. pending'[s] \in Nat
      BY <1>5
    <3>6. pending'[s] \in 0 .. MaxAsked
      BY <3>2, <3>3, <3>4, <3>5, ConnectionsAssumption
    <3> QED BY <3>6, <1>1, <1>3, <1>5 DEF ConnectionsTypeOK
  <2>2. asked' \in [Cred -> 0 .. MaxAsked]
    <3>1. asked[c] + 1 \in 0 .. MaxAsked
      BY <1>3, <1>4, ConnectionsAssumption
    <3> QED BY <3>1, <1>1, <1>3 DEF ConnectionsTypeOK
  <2> QED BY <2>1, <2>2, <1>1, <1>3 DEF ConnectionsTypeOK
<1>12. \A f \in Flush : FlushFits(f)'
  BY <1>3 DEF ConnectionsInv, FlushFits
<1>13. SweepKnows' /\ WaitingHasTimer'
  BY <1>3 DEF ConnectionsInv, SweepKnows, WaitingHasTimer
<1> QED BY <1>9, <1>10, <1>11, <1>12, <1>13 DEF ConnectionsInv

\* A flush takes what waits in memory, and the timer with it.
LEMMA TakeKeeps ==
  ASSUME ConnectionsInv, NEW f \in Flush, TimerFires(f) \/ ExitFlush(f)
  PROVE  ConnectionsInv'
<1>1. ConnectionsTypeOK /\ CountsBehind /\ (\A d \in Cred : ExactRow(d))
    /\ \A g \in Flush : FlushFits(g)
  BY DEF ConnectionsInv
<1>2. /\ flush[f].at = "idle" /\ pending' = NoneCounted /\ armed' \in BOOLEAN
      /\ flush' = [flush EXCEPT ![f].at = "next", ![f].items = pending]
      /\ UNCHANGED <<credential, row, rows, sweep, asked, excused, swept>>
  BY <1>1 DEF TimerFires, ExitFlush, TakeAll, ConnectionAt, ConnectionsTypeOK
<1>3. /\ Counted(pending, flush)
      /\ \A g \in Flush : flush[g] \in FlushRecord
      /\ 0 .. MaxAsked \subseteq Nat
  BY <1>1, ConnectionNumbers
<1>4. PICK y : y = [flush[f] EXCEPT !.at = "next", !.items = pending]
  OBVIOUS
<1>5. flush' = [flush EXCEPT ![f] = y] /\ flush \in [Flush -> FlushRecord]
  BY <1>1, <1>2, <1>4 DEF ConnectionsTypeOK, FlushRecord
<1>6. /\ y \in FlushRecord /\ y.at = "next" /\ y.items = pending /\ y.of = flush[f].of
  BY <1>1, <1>3, <1>4 DEF FlushRecord, ConnectionsTypeOK
<1>7. /\ flush' \in [Flush -> FlushRecord] /\ flush'[f] = y
      /\ \A g \in Flush : g # f => flush'[g] = flush[g]
  BY <1>5, <1>6
<1>8. \A s \in Source : pending'[s] = 0
  BY <1>2 DEF NoneCounted
<1>9. pending' \in [Source -> 0 .. MaxAsked]
  BY <1>2, ConnectionsAssumption DEF NoneCounted
<1>10. ConnectionsTypeOK'
  BY <1>1, <1>2, <1>7, <1>9 DEF ConnectionsTypeOK, FlushRecord
<1>11. Counted(pending', flush')
  <2>1. ConnectionsTypeOK'
    BY <1>10
  <2>2. pending' \in [Source -> Nat]
    BY <1>3, <1>9
  <2>3. \A g \in Flush : flush'[g].items \in [Source -> 0 .. MaxAsked]
    BY <1>7 DEF FlushRecord
  <2>4. \A g \in Flush : flush'[g].items \in [Source -> Nat]
    BY <1>3, <2>3
  <2> QED BY <2>2, <2>4 DEF Counted
<1>12. \A c \in Cred : WaitingIn(pending', flush', c) = WaitingIn(pending, flush, c)
  <2>1. \A s \in Source : flush[f].items[s] = 0 /\ flush'[f].items[s] = pending[s]
      /\ pending'[s] = 0
    BY <1>1, <1>2, <1>6, <1>7, <1>8 DEF FlushFits
  <2>2. \A g \in Flush \ {f} : flush'[g].items = flush[g].items
    BY <1>7
  <2> QED BY <2>1, <2>2, <1>3, <1>11, TakenWaitsOn
<1>13. \A g \in Flush : /\ flush'[g].of = flush[g].of
                        /\ flush'[g].at \in {"insert", "update", "back"} => g # f
                           /\ flush'[g] = flush[g]
                        /\ flush[g].at \in {"insert", "update"} => flush'[g] = flush[g]
  BY <1>2, <1>6, <1>7
<1>14. \A g \in Flush : Holder(g)' = Holder(g) /\ Holder(g) \in Cred
  BY <1>1, <1>13, ConnectionNumbers DEF Holder
<1>15. CountsBehind'
  BY ZenonT(40), <1>1, <1>2, <1>12, <1>13, <1>14 DEF CountsBehind
<1>16. ASSUME NEW c \in Cred, excused'[c] = {} PROVE ExactRow(c)'
  <2>1. Writing(c)' = Writing(c)
    BY <1>13, <1>14 DEF Writing
  <2>2. excused[c] = {} /\ row'[c] = row[c] /\ asked'[c] = asked[c]
    BY <1>2, <1>16
  <2>3. /\ row[c].count + WaitingIn(pending, flush, c) = asked[c]
        /\ \A g, h \in Writing(c) : g = h
        /\ \A g \in Flush : Holder(g) = c =>
             /\ flush[g].at = "insert" => row[c].id = 0
             /\ flush[g].at = "update" => flush[g].id = row[c].id /\ flush[g].seen = row[c].count
             /\ flush[g].at = "back" => flush[g].id = row[c].id
    BY <1>1, <2>2 DEF ExactRow
  <2>4. row'[c].count + WaitingIn(pending', flush', c) = asked'[c]
    BY <1>12, <2>2, <2>3
  <2>5. ASSUME NEW g \in Flush, Holder(g)' = c
        PROVE  /\ flush'[g].at = "insert" => row'[c].id = 0
               /\ flush'[g].at = "update" => flush'[g].id = row'[c].id
                  /\ flush'[g].seen = row'[c].count
               /\ flush'[g].at = "back" => flush'[g].id = row'[c].id
    <3>1. Holder(g) = c
      BY <1>14, <2>5
    <3>2. CASE g = f
      BY <1>6, <1>7, <3>2
    <3>3. CASE g # f
      BY <1>7, <2>2, <2>3, <3>1, <3>3
    <3> QED BY <3>2, <3>3
  <2> QED BY <2>1, <2>3, <2>4, <2>5 DEF ExactRow
<1>17. \A g \in Flush : FlushFits(g)'
  BY <1>1, <1>6, <1>7 DEF FlushFits
<1>18. SweepKnows' /\ WaitingHasTimer'
  BY <1>2 DEF ConnectionsInv, SweepKnows, WaitingHasTimer
<1>19. \A c \in Cred : ExactRow(c)'
  BY <1>16 DEF ExactRow
<1> QED BY <1>10, <1>15, <1>17, <1>18, <1>19 DEF ConnectionsInv

\* A flush that has nothing to do has a record.
LEMMA RestingFits == Resting \in FlushRecord
<1>1. (CHOOSE s \in Source : TRUE) \in Source
  <2>1. PICK c \in Cred, n \in Name : TRUE
    BY ConnectionsAssumption
  <2>2. <<c, n>> \in Source
    BY DEF Source
  <2> QED BY <2>2
<1>2. NoneCounted \in [Source -> 0 .. MaxAsked]
  BY ConnectionsAssumption DEF NoneCounted
<1> QED BY <1>1, <1>2, ConnectionsAssumption DEF Resting, FlushRecord

\* A crash takes what waits, and excuses who had some.
LEMMA ConnectionsCrashKeeps ==
  ASSUME ConnectionsInv, ConnectionsCrash
  PROVE  ConnectionsInv'
<1>1. ConnectionsTypeOK /\ CountsBehind /\ \A d \in Cred : ExactRow(d)
  BY DEF ConnectionsInv
<1>2. /\ pending' = NoneCounted /\ armed' = FALSE /\ flush' = [f \in Flush |-> Resting]
      /\ sweep' = Sweeping /\ UNCHANGED <<credential, row, rows, asked, swept>>
  BY DEF ConnectionsCrash
<1>3. /\ Counted(pending, flush) /\ 0 .. MaxAsked \subseteq Nat
      /\ \A d \in Cred : /\ WaitingIn(pending, flush, d) \in Nat
                         /\ row[d].count \in Nat /\ asked[d] \in Nat
  BY <1>1, ConnectionNumbers
<1>4. Resting \in FlushRecord
  BY RestingFits
<1>5. /\ pending' \in [Source -> 0 .. MaxAsked] /\ flush' \in [Flush -> FlushRecord]
      /\ \A f \in Flush : flush'[f].at = "idle" /\ flush'[f].items = NoneCounted
      /\ \A s \in Source : NoneCounted[s] = 0
  <2>1. pending' \in [Source -> 0 .. MaxAsked] /\ \A s \in Source : NoneCounted[s] = 0
    BY <1>2, ConnectionsAssumption DEF NoneCounted
  <2>2. flush' \in [Flush -> FlushRecord] /\ \A f \in Flush : flush'[f] = Resting
    BY <1>2, <1>4
  <2>3. Resting.at = "idle" /\ Resting.items = NoneCounted
    BY DEF Resting
  <2> QED BY <2>1, <2>2, <2>3
<1>6. Counted(pending', flush')
  <2>1. pending' \in [Source -> Nat]
    BY <1>3, <1>5
  <2>2. \A f \in Flush : flush'[f].items \in [Source -> Nat]
    BY <1>5 DEF NoneCounted
  <2> QED BY <2>1, <2>2 DEF Counted
<1>7. \A c \in Cred, n \in Name : <<c, n>> \in Source
  BY DEF Source
<1>8. \A c \in Cred : WaitingIn(pending', flush', c) = 0
  BY <1>2, <1>5, <1>6, <1>7, NoneWaits
<1>9. ASSUME NEW c \in Cred, excused'[c] = {}
      PROVE  excused[c] = {} /\ WaitingIn(pending, flush, c) = 0
  <2>1. /\ excused[c] = {}
        /\ ~ \E n \in Name : pending[<<c, n>>] > 0 \/ \E f \in Flush : <<c, n>> \in Items(f)
    BY <1>9 DEF ConnectionsCrash, Excuse
  <2>2. ASSUME NEW n \in Name
        PROVE  pending[<<c, n>>] = 0 /\ \A f \in Flush : flush[f].items[<<c, n>>] = 0
    <3>1. pending[<<c, n>>] \in Nat /\ ~(pending[<<c, n>>] > 0)
      BY <2>1, <1>3, <1>7 DEF Counted
    <3>2. ASSUME NEW f \in Flush PROVE flush[f].items[<<c, n>>] = 0
      <4>1. flush[f].items[<<c, n>>] \in Nat /\ ~(flush[f].items[<<c, n>>] > 0)
        BY <2>1, <1>3, <1>7 DEF Counted, Items
      <4> QED BY <4>1
    <3> QED BY <3>1, <3>2
  <2> QED BY <2>1, <2>2, <1>3, NoneWaits
<1>10. CountsBehind'
  <2>1. ASSUME NEW c \in Cred
        PROVE  /\ row[c].id = 0 => row[c].count = 0
               /\ row[c].count + 0 <= asked[c]
    BY <1>1, <1>3 DEF CountsBehind
  <2> QED BY <2>1, <1>2, <1>5, <1>8 DEF CountsBehind
<1>11. ASSUME NEW c \in Cred PROVE ExactRow(c)'
  <2> SUFFICES ASSUME excused'[c] = {} PROVE ExactRow(c)'
    BY DEF ExactRow
  <2>1. row[c].count + 0 = asked[c]
    BY <1>1, <1>9 DEF ExactRow
  <2>2. Writing(c)' = {}
    BY <1>5 DEF Writing
  <2> QED BY <2>1, <2>2, <1>2, <1>5, <1>8 DEF ExactRow
<1>12. SweepKnows'
  BY <1>2 DEF ConnectionsInv, SweepKnows, Sweeping
<1>13. ConnectionsTypeOK'
  <2>1. excused' \in [Cred -> SUBSET {"overlap", "forgotten", "crash"}]
    BY <1>1 DEF ConnectionsCrash, Excuse, ConnectionsTypeOK
  <2>2. sweep'.at \in {"idle", "rows", "each"}
    BY <1>12 DEF SweepKnows
  <2> QED BY <2>1, <2>2, <1>1, <1>2, <1>5 DEF ConnectionsTypeOK, FlushRecord
<1>14. \A f \in Flush : FlushFits(f)'
  BY <1>5 DEF FlushFits
<1>15. WaitingHasTimer'
  BY <1>2 DEF WaitingHasTimer
<1> QED BY <1>10, <1>11, <1>12, <1>13, <1>14, <1>15 DEF ConnectionsInv

\* A step of one flush leaves the others where they are.
LEMMA FlushMoves ==
  ASSUME ConnectionsTypeOK, NEW f \in Flush, NEW y \in FlushRecord, flush' = [flush EXCEPT ![f] = y]
  PROVE  /\ flush' \in [Flush -> FlushRecord] /\ flush'[f] = y
         /\ \A g \in Flush \ {f} : flush'[g] = flush[g]
         /\ Counted(pending, flush')
<1>1. flush \in [Flush -> FlushRecord]
  BY DEF ConnectionsTypeOK, FlushRecord
<1>2. /\ flush' \in [Flush -> FlushRecord] /\ flush'[f] = y
      /\ \A g \in Flush \ {f} : flush'[g] = flush[g]
  BY <1>1
<1>3. pending \in [Source -> Nat] /\ 0 .. MaxAsked \subseteq Nat
  BY ConnectionNumbers DEF Counted
<1>4. \A g \in Flush : flush'[g].items \in [Source -> 0 .. MaxAsked]
  BY <1>2 DEF FlushRecord
<1>5. \A g \in Flush : flush'[g].items \in [Source -> Nat]
  BY <1>3, <1>4
<1> QED BY <1>2, <1>3, <1>5 DEF Counted

\* What waits when the flush f has v still to record of the source s, and no count runs ahead.
Moved(f, s, v, fl) ==
  /\ \A d \in Cred :
       /\ WaitingIn(pending, fl, d) \in Nat
       /\ row[d].count + WaitingIn(pending, fl, d) <= asked[d]
       /\ IF d = s[1]
          THEN WaitingIn(pending, fl, d) + flush[f].items[s] = WaitingIn(pending, flush, d) + v
          ELSE WaitingIn(pending, fl, d) = WaitingIn(pending, flush, d)
  /\ \A g \in Flush \ {f} : flush[g].at = "update" =>
       flush[g].seen + WaitingIn(pending, fl, Holder(g)) <= asked[Holder(g)]

\* Where a flush has less to record of one source, less waits.
LEMMA ItemMoves ==
  ASSUME ConnectionsInv, NEW f \in Flush, NEW y \in FlushRecord, flush' = [flush EXCEPT ![f] = y],
         NEW s \in Source, \A t \in Source \ {s} : y.items[t] = flush[f].items[t],
         y.items[s] <= flush[f].items[s]
  PROVE  Moved(f, s, y.items[s], flush')
<1>1. ConnectionsTypeOK /\ CountsBehind
  BY DEF ConnectionsInv
<1>2. /\ flush'[f] = y /\ \A g \in Flush \ {f} : flush'[g] = flush[g]
      /\ Counted(pending, flush') /\ Counted(pending, flush)
  BY <1>1, FlushMoves, ConnectionNumbers
<1>3. \A g \in Flush : \A t \in Source : g # f \/ t # s => flush'[g].items[t] = flush[g].items[t]
  BY <1>2
<1>4. PICK p : p = pending
  OBVIOUS
<1>5. PICK fl : fl = flush
  OBVIOUS
<1>6. PICK gl : gl = flush'
  OBVIOUS
<1>7. \A d \in Cred :
        IF d = s[1]
        THEN WaitingIn(p, gl, d) + fl[f].items[s] = WaitingIn(p, fl, d) + gl[f].items[s]
        ELSE WaitingIn(p, gl, d) = WaitingIn(p, fl, d)
  <2>1. Counted(p, fl) /\ Counted(p, gl)
    BY <1>2, <1>4, <1>5, <1>6
  <2>2. \A g \in Flush : \A t \in Source : g # f \/ t # s => gl[g].items[t] = fl[g].items[t]
    BY <1>3, <1>5, <1>6
  <2> QED BY <2>1, <2>2, OneItemMoves
<1>8. flush[f].items[s] \in Nat /\ y.items[s] \in Nat
  <2>1. flush[f].items \in [Source -> Nat] /\ flush'[f].items \in [Source -> Nat]
    BY <1>2 DEF Counted
  <2> QED BY <2>1, <1>2
<1>9. \A d \in Cred : WaitingIn(pending, flush', d) \in Nat /\ WaitingIn(pending, flush, d) \in Nat
  BY <1>2, WaitingIsANumber
<1>10. ASSUME NEW d \in Cred
       PROVE  /\ IF d = s[1]
                 THEN WaitingIn(pending, flush', d) + flush[f].items[s]
                        = WaitingIn(pending, flush, d) + y.items[s]
                 ELSE WaitingIn(pending, flush', d) = WaitingIn(pending, flush, d)
              /\ WaitingIn(pending, flush', d) <= WaitingIn(pending, flush, d)
  <2>1. IF d = s[1]
        THEN WaitingIn(pending, flush', d) + flush[f].items[s]
               = WaitingIn(pending, flush, d) + y.items[s]
        ELSE WaitingIn(pending, flush', d) = WaitingIn(pending, flush, d)
    BY <1>2, <1>4, <1>5, <1>6, <1>7
  <2>2. PICK a \in Nat : a = WaitingIn(pending, flush', d)
    BY <1>9
  <2>3. PICK b \in Nat : b = WaitingIn(pending, flush, d)
    BY <1>9
  <2>4. PICK i \in Nat : i = flush[f].items[s]
    BY <1>8
  <2>5. PICK j \in Nat : j = y.items[s]
    BY <1>8
  <2>6. j <= i
    BY <2>4, <2>5
  <2>7. CASE d = s[1]
    <3>1. a + i = b + j
      BY <2>1, <2>2, <2>3, <2>4, <2>5, <2>7
    <3>2. a <= b
      BY <2>6, <3>1
    <3> QED BY <3>2, <2>1, <2>2, <2>3
  <2>8. CASE d # s[1]
    <3>1. a = b
      BY <2>1, <2>2, <2>3, <2>8
    <3>2. a <= b
      BY <3>1
    <3> QED BY <3>2, <2>1, <2>2, <2>3
  <2> QED BY <2>7, <2>8
<1>11. ASSUME NEW d \in Cred PROVE row[d].count + WaitingIn(pending, flush', d) <= asked[d]
  <2>1. row[d].count + WaitingIn(pending, flush, d) <= asked[d]
    BY <1>1 DEF CountsBehind
  <2>2. row[d].count \in Nat /\ asked[d] \in Nat
    BY <1>1, ConnectionNumbers
  <2>3. /\ WaitingIn(pending, flush', d) <= WaitingIn(pending, flush, d)
        /\ WaitingIn(pending, flush', d) \in Nat /\ WaitingIn(pending, flush, d) \in Nat
    BY <1>9, <1>10
  <2> QED BY <2>1, <2>2, <2>3
<1>12. ASSUME NEW g \in Flush \ {f}, flush[g].at = "update"
       PROVE  flush[g].seen + WaitingIn(pending, flush', Holder(g)) <= asked[Holder(g)]
  <2>1. PICK d \in Cred : d = Holder(g)
    BY <1>1, ConnectionNumbers
  <2>2. flush[g].seen + WaitingIn(pending, flush, d) <= asked[d]
    BY <1>1, <1>12, <2>1 DEF CountsBehind
  <2>3. flush[g].seen \in Nat /\ asked[d] \in Nat
    BY <1>1, ConnectionNumbers
  <2>4. flush[g].seen + WaitingIn(pending, flush', d) <= asked[d]
    <3>1. /\ WaitingIn(pending, flush', d) <= WaitingIn(pending, flush, d)
          /\ WaitingIn(pending, flush', d) \in Nat /\ WaitingIn(pending, flush, d) \in Nat
      BY <1>9, <1>10
    <3> QED BY <2>2, <2>3, <3>1
  <2> QED BY <2>1, <2>4
<1> QED BY <1>9, <1>10, <1>11, <1>12 DEF Moved

\* What is left to show of a step of a flush.
LEMMA FlushStepFits ==
  ASSUME ConnectionsInv, NEW f \in Flush, NEW y \in FlushRecord, flush' = [flush EXCEPT ![f] = y],
         UNCHANGED <<credential, pending, armed, sweep, asked, swept>>,
         y.at = "idle" => \A s \in Source : y.items[s] = 0,
         y.at \in {"look", "insert", "update"} => y.items[y.of] > 0,
         y.at \in {"update", "back"} => y.id # 0,
         row' \in [Cred -> [id : 0 .. MaxRows, count : 0 .. MaxAsked]], rows' \in 0 .. MaxRows,
         excused' \in [Cred -> SUBSET {"overlap", "forgotten", "crash"}],
         CountsBehind', \A c \in Cred : ExactRow(c)'
  PROVE  ConnectionsInv'
<1>1. ConnectionsTypeOK
  BY DEF ConnectionsInv
<1>2. /\ flush' \in [Flush -> FlushRecord] /\ flush'[f] = y
      /\ \A g \in Flush \ {f} : flush'[g] = flush[g]
  BY <1>1, FlushMoves
<1>3. ConnectionsTypeOK'
  BY <1>1, <1>2 DEF ConnectionsTypeOK, FlushRecord
<1>4. \A g \in Flush : FlushFits(g)'
  BY <1>2 DEF ConnectionsInv, FlushFits
<1>5. SweepKnows' /\ WaitingHasTimer'
  BY DEF ConnectionsInv, SweepKnows, WaitingHasTimer
<1> QED BY <1>3, <1>4, <1>5 DEF ConnectionsInv

\* A row that the flush does not write stays exact.
LEMMA OtherRowsExact ==
  ASSUME ConnectionsInv, NEW f \in Flush, NEW y \in FlushRecord, flush' = [flush EXCEPT ![f] = y],
         UNCHANGED <<pending, asked>>, NEW d \in Cred, row'[d] = row[d], excused'[d] = excused[d],
         WaitingIn(pending, flush', d) = WaitingIn(pending, flush, d),
         y.at \in {"insert", "update", "back"} => y.of[1] # d
  PROVE  ExactRow(d)'
<1>1. ConnectionsTypeOK /\ ExactRow(d)
  BY DEF ConnectionsInv
<1>2. flush'[f] = y /\ \A g \in Flush \ {f} : flush'[g] = flush[g]
  BY <1>1, FlushMoves
<1> SUFFICES ASSUME excused[d] = {} PROVE ExactRow(d)'
  BY DEF ExactRow
<1>3. /\ row[d].count + WaitingIn(pending, flush, d) = asked[d]
      /\ \A g, h \in Writing(d) : g = h
      /\ \A g \in Flush : Holder(g) = d =>
           /\ flush[g].at = "insert" => row[d].id = 0
           /\ flush[g].at = "update" => flush[g].id = row[d].id /\ flush[g].seen = row[d].count
           /\ flush[g].at = "back" => flush[g].id = row[d].id
  BY <1>1 DEF ExactRow
<1>4. row'[d].count + WaitingIn(pending', flush', d) = asked'[d]
  BY <1>3
<1>5. \A g \in Writing(d)' : g \in Writing(d)
  BY <1>2 DEF Writing, Holder
<1>6. ASSUME NEW g \in Flush, Holder(g)' = d
      PROVE  /\ flush'[g].at = "insert" => row'[d].id = 0
             /\ flush'[g].at = "update" => flush'[g].id = row'[d].id
                /\ flush'[g].seen = row'[d].count
             /\ flush'[g].at = "back" => flush'[g].id = row'[d].id
  <2>1. CASE g = f
    BY <1>2, <1>6, <2>1 DEF Holder
  <2>2. CASE g # f
    <3>1. flush'[g] = flush[g] /\ Holder(g) = d
      BY <1>2, <1>6, <2>2 DEF Holder
    <3> QED BY <1>3, <3>1
  <2> QED BY <2>1, <2>2
<1> QED BY <1>3, <1>4, <1>5, <1>6 DEF ExactRow

\* Where a flush keeps what it has to record, what waits stays.
LEMMA SameItemsWait ==
  ASSUME ConnectionsInv, NEW f \in Flush, NEW y \in FlushRecord, flush' = [flush EXCEPT ![f] = y],
         \A t \in Source : y.items[t] = flush[f].items[t]
  PROVE  /\ \A d \in Cred : /\ WaitingIn(pending, flush', d) = WaitingIn(pending, flush, d)
                            /\ row[d].count + WaitingIn(pending, flush', d) <= asked[d]
         /\ \A g \in Flush \ {f} : flush[g].at = "update" =>
              flush[g].seen + WaitingIn(pending, flush', Holder(g)) <= asked[Holder(g)]
<1>1. ConnectionsTypeOK
  BY DEF ConnectionsInv
<1>3. PICK s \in Source : s = y.of
  BY DEF FlushRecord
<1>4. y.items[s] = flush[f].items[s] /\ y.items[s] \in Nat /\ y.items[s] <= flush[f].items[s]
  <2>1. y.items[s] = flush[f].items[s]
    OBVIOUS
  <2>2. y.items \in [Source -> 0 .. MaxAsked] /\ 0 .. MaxAsked \subseteq Nat
    BY <1>1, ConnectionNumbers DEF FlushRecord
  <2>3. y.items[s] \in Nat
    BY <2>2
  <2> QED BY <2>1, <2>3
<1>5. Moved(f, s, y.items[s], flush')
  <2>1. y.items[s] <= flush[f].items[s]
    BY <1>4
  <2>2. \A t \in Source \ {s} : y.items[t] = flush[f].items[t]
    OBVIOUS
  <2> QED BY <2>1, <2>2, ItemMoves
<1>6. \A d \in Cred : WaitingIn(pending, flush', d) = WaitingIn(pending, flush, d)
  <2>1. \A d \in Cred : WaitingIn(pending, flush, d) \in Nat
    BY <1>1, ConnectionNumbers
  <2>2. ASSUME NEW d \in Cred PROVE WaitingIn(pending, flush', d) = WaitingIn(pending, flush, d)
    <3>1. PICK a \in Nat : a = WaitingIn(pending, flush', d)
      BY <1>5 DEF Moved
    <3>2. PICK b \in Nat : b = WaitingIn(pending, flush, d)
      BY <2>1
    <3>3. PICK j \in Nat : j = y.items[s]
      BY <1>4
    <3>4. IF d = s[1] THEN a + j = b + j ELSE a = b
      BY <1>4, <1>5, <3>1, <3>2, <3>3 DEF Moved
    <3>5. a = b
      BY <3>4
    <3> QED BY <3>1, <3>2, <3>5
  <2> QED BY <2>2
<1> QED BY <1>5, <1>6 DEF Moved

\* A flush that turns to what it has still to record, or ends, counts nothing.
LEMMA QuietStepKeeps ==
  ASSUME ConnectionsInv, NEW f \in Flush, NEW y \in FlushRecord, flush' = [flush EXCEPT ![f] = y],
         UNCHANGED <<credential, pending, armed, sweep, asked, swept, row, rows, excused>>,
         \A t \in Source : y.items[t] = flush[f].items[t],
         y.at = "idle" => \A s \in Source : y.items[s] = 0,
         y.at = "look" => y.items[y.of] > 0,
         y.at \in {"idle", "next", "look"}
  PROVE  ConnectionsInv'
<1>1. ConnectionsTypeOK /\ CountsBehind
  BY DEF ConnectionsInv
<1>2. flush'[f] = y /\ \A g \in Flush \ {f} : flush'[g] = flush[g]
  BY <1>1, FlushMoves
<1>3. /\ \A d \in Cred : /\ WaitingIn(pending, flush', d) = WaitingIn(pending, flush, d)
                         /\ row[d].count + WaitingIn(pending, flush', d) <= asked[d]
      /\ \A g \in Flush \ {f} : flush[g].at = "update" =>
           flush[g].seen + WaitingIn(pending, flush', Holder(g)) <= asked[Holder(g)]
  BY SameItemsWait
<1>4. CountsBehind'
  BY <1>1, <1>2, <1>3 DEF CountsBehind, Holder
<1>5. ASSUME NEW d \in Cred PROVE ExactRow(d)'
  BY <1>3, OtherRowsExact
<1>6. /\ row' \in [Cred -> [id : 0 .. MaxRows, count : 0 .. MaxAsked]] /\ rows' \in 0 .. MaxRows
      /\ excused' \in [Cred -> SUBSET {"overlap", "forgotten", "crash"}]
  BY <1>1 DEF ConnectionsTypeOK
<1> QED BY <1>4, <1>5, <1>6, FlushStepFits

\* A flush that has nothing left rests, and another turns to a source of which it has something.
LEMMA NextItemKeeps ==
  ASSUME ConnectionsInv, NEW f \in Flush, NextItem(f)
  PROVE  ConnectionsInv'
<1>1. ConnectionsTypeOK
  BY DEF ConnectionsInv
<1>2. flush[f] \in FlushRecord /\ flush \in [Flush -> FlushRecord] /\ Counted(pending, flush)
  BY <1>1, ConnectionNumbers DEF ConnectionsTypeOK, FlushRecord
<1>3. UNCHANGED <<credential, pending, armed, sweep, asked, swept, row, rows, excused>>
  BY DEF NextItem
<1>4. CASE Items(f) = {}
  <2>1. PICK y \in FlushRecord : y = Resting
    BY RestingFits
  <2>2. flush' = [flush EXCEPT ![f] = y]
    BY <1>4, <2>1 DEF NextItem
  <2>3. ASSUME NEW t \in Source PROVE y.items[t] = 0 /\ y.items[t] = flush[f].items[t]
    <3>1. flush[f].items[t] \in Nat /\ ~(flush[f].items[t] > 0)
      BY <1>2, <1>4 DEF Items, Counted
    <3>2. y.items[t] = 0
      BY <2>1 DEF Resting, NoneCounted
    <3> QED BY <3>1, <3>2
  <2>4. y.at = "idle"
    BY <2>1 DEF Resting
  <2> QED BY <1>3, <2>2, <2>3, <2>4, QuietStepKeeps
<1>5. CASE Items(f) # {}
  <2>1. PICK s \in Items(f) : flush' = [flush EXCEPT ![f].at = "look", ![f].of = s]
    BY <1>5 DEF NextItem
  <2>2. s \in Source /\ flush[f].items[s] > 0
    BY DEF Items
  <2>3. PICK y : y = [flush[f] EXCEPT !.at = "look", !.of = s]
    OBVIOUS
  <2>4. y \in FlushRecord /\ y.at = "look" /\ y.of = s /\ y.items = flush[f].items
    BY <1>2, <2>2, <2>3 DEF FlushRecord
  <2>5. flush' = [flush EXCEPT ![f] = y]
    BY <1>2, <2>1, <2>3 DEF FlushRecord
  <2> QED BY <1>3, <2>2, <2>4, <2>5, QuietStepKeeps
<1> QED BY <1>4, <1>5

\* A flush reads the row; where another is writing it, a loss is excused.
LEMMA LookForRowKeeps ==
  ASSUME ConnectionsInv, NEW f \in Flush, LookForRow(f)
  PROVE  ConnectionsInv'
<1>1. ConnectionsTypeOK /\ CountsBehind /\ FlushFits(f) /\ \A d \in Cred : ExactRow(d)
  BY DEF ConnectionsInv
<1>2. /\ flush[f] \in FlushRecord /\ flush \in [Flush -> FlushRecord]
      /\ Counted(pending, flush) /\ 0 .. MaxAsked \subseteq Nat
  BY <1>1, ConnectionNumbers DEF ConnectionsTypeOK, FlushRecord
<1>3. PICK c \in Cred : c = Holder(f)
  BY <1>1, ConnectionNumbers
<1>4. /\ UNCHANGED <<credential, pending, armed, sweep, asked, swept, row, rows>>
      /\ flush[f].at = "look"
      /\ excused' = [d \in Cred |-> IF d \in (IF Writing(c) # {} THEN {c} ELSE {})
                                    THEN excused[d] \cup {"overlap"} ELSE excused[d]]
      /\ flush' = [flush EXCEPT ![f].at = IF row[c].id = 0 THEN "insert" ELSE "update",
                                ![f].id = row[c].id, ![f].seen = row[c].count]
  BY <1>3 DEF LookForRow, Excuse, ConnectionAt
<1>5. row[c].id \in 0 .. MaxRows /\ row[c].count \in 0 .. MaxAsked /\ row[c].count \in Nat
  BY <1>1, <1>2 DEF ConnectionsTypeOK
<1>6. PICK at \in {"insert", "update"} : at = IF row[c].id = 0 THEN "insert" ELSE "update"
  OBVIOUS
<1>7. PICK y : y = [flush[f] EXCEPT !.at = at, !.id = row[c].id, !.seen = row[c].count]
  OBVIOUS
<1>8. /\ y \in FlushRecord /\ y.at = at /\ y.of = flush[f].of /\ y.items = flush[f].items
      /\ y.id = row[c].id /\ y.seen = row[c].count
  BY <1>2, <1>5, <1>6, <1>7 DEF FlushRecord
<1>9. flush' = [flush EXCEPT ![f] = y]
  BY <1>2, <1>4, <1>6, <1>7 DEF FlushRecord
<1>10. flush'[f] = y /\ \A g \in Flush \ {f} : flush'[g] = flush[g]
  BY <1>1, <1>8, <1>9, FlushMoves
<1>11. /\ \A d \in Cred : /\ WaitingIn(pending, flush', d) = WaitingIn(pending, flush, d)
                          /\ row[d].count + WaitingIn(pending, flush', d) <= asked[d]
       /\ \A g \in Flush \ {f} : flush[g].at = "update" =>
            flush[g].seen + WaitingIn(pending, flush', Holder(g)) <= asked[Holder(g)]
  BY <1>8, <1>9, SameItemsWait
<1>12. CountsBehind'
  <2>1. y.of[1] = c
    BY <1>3, <1>8 DEF Holder
  <2>2. ASSUME NEW g \in Flush, flush'[g].at = "update"
        PROVE  flush'[g].seen + WaitingIn(pending, flush', flush'[g].of[1])
                 <= asked[flush'[g].of[1]]
    <3>1. CASE g = f
      <4>1. flush'[g].seen = row[c].count /\ flush'[g].of[1] = c
        BY <1>8, <1>10, <2>1, <3>1
      <4>2. row[c].count + WaitingIn(pending, flush', c) <= asked[c]
        BY <1>11
      <4> QED BY <4>1, <4>2
    <3>2. CASE g # f
      <4>1. flush'[g] = flush[g]
        BY <1>10, <3>2
      <4>2. flush[g].seen + WaitingIn(pending, flush', flush[g].of[1]) <= asked[flush[g].of[1]]
        BY <1>11, <2>2, <3>2, <4>1 DEF Holder
      <4> QED BY <4>1, <4>2
    <3> QED BY <3>1, <3>2
  <2>3. ASSUME NEW d \in Cred
        PROVE  /\ row[d].id = 0 => row[d].count = 0
               /\ row[d].count + WaitingIn(pending, flush', d) <= asked[d]
    BY <1>1, <1>11 DEF CountsBehind
  <2> QED BY <1>4, <2>2, <2>3 DEF CountsBehind, Holder
<1>13. ASSUME NEW d \in Cred PROVE ExactRow(d)'
  <2>1. CASE d # c
    <3>1. excused'[d] = excused[d]
      BY <1>4, <2>1
    <3>2. y.of[1] # d
      BY <1>3, <1>8, <2>1 DEF Holder
    <3> QED BY <1>4, <1>8, <1>9, <1>11, <3>1, <3>2, OtherRowsExact
  <2>2. CASE d = c
    <3> SUFFICES ASSUME excused'[c] = {} PROVE ExactRow(c)'
      BY <2>2 DEF ExactRow
    <3>1. Writing(c) = {} /\ excused[c] = {}
      BY <1>4
    <3>2. /\ row[c].count + WaitingIn(pending, flush, c) = asked[c]
          /\ \A g \in Flush : Holder(g) = c => (flush[g].at = "back" => flush[g].id = row[c].id)
      BY <1>1, <3>1 DEF ExactRow
    <3>3. \A g \in Flush \ {f} : Holder(g)' = c =>
            Holder(g) = c /\ flush'[g] = flush[g] /\ flush'[g].at \notin {"insert", "update"}
      BY <1>10, <3>1 DEF Writing, Holder
    <3>4. \A g, h \in Writing(c)' : g = h
      BY <3>3 DEF Writing
    <3>5. ASSUME NEW g \in Flush, Holder(g)' = c
          PROVE  /\ flush'[g].at = "insert" => row'[c].id = 0
                 /\ flush'[g].at = "update" => flush'[g].id = row'[c].id
                    /\ flush'[g].seen = row'[c].count
                 /\ flush'[g].at = "back" => flush'[g].id = row'[c].id
      <4>1. CASE g = f
        BY <1>4, <1>6, <1>8, <1>10, <4>1
      <4>2. CASE g # f
        BY <1>4, <3>2, <3>3, <3>5, <4>2
      <4> QED BY <4>1, <4>2
    <3>6. row'[c].count + WaitingIn(pending', flush', c) = asked'[c]
      BY <1>4, <1>11, <3>2
    <3> QED BY <3>4, <3>5, <3>6 DEF ExactRow
  <2> QED BY <2>1, <2>2
<1>14. excused' \in [Cred -> SUBSET {"overlap", "forgotten", "crash"}]
  BY <1>1, <1>4 DEF ConnectionsTypeOK
<1>15. /\ row' \in [Cred -> [id : 0 .. MaxRows, count : 0 .. MaxAsked]] /\ rows' \in 0 .. MaxRows
  BY <1>1, <1>4 DEF ConnectionsTypeOK
<1>16. y.items[y.of] > 0 /\ (y.at \in {"update", "back"} => y.id # 0) /\ y.at # "idle"
  BY <1>1, <1>4, <1>6, <1>8 DEF FlushFits
<1> QED BY <1>4, <1>8, <1>9, <1>12, <1>13, <1>14, <1>15, <1>16, FlushStepFits

\* The record of the flush f when v of the source s is left to record.
Left(f, s, at, id, v) ==
  [flush[f] EXCEPT !.at = at, !.id = id, !.items = [flush[f].items EXCEPT ![s] = v]]

\* A flush that has less to record of the source it is at.
LEMMA RecordMoves ==
  ASSUME ConnectionsInv, NEW f \in Flush, NEW s \in Source, s = flush[f].of,
         NEW at \in {"next", "back"}, NEW id \in 0 .. MaxRows, NEW v \in Nat,
         v <= flush[f].items[s],
         NEW y, y = Left(f, s, at, id, v),
         flush' = [flush EXCEPT ![f] = y]
  PROVE  y \in FlushRecord /\ Moved(f, s, v, flush')
<1>1. ConnectionsTypeOK
  BY DEF ConnectionsInv
<1>2. flush[f] \in FlushRecord /\ 0 .. MaxAsked \subseteq Nat
  BY <1>1, ConnectionNumbers
<1>3. PICK i \in [Source -> 0 .. MaxAsked] : i = flush[f].items
  BY <1>2 DEF FlushRecord
<1>4. v \in 0 .. MaxAsked
  <2>1. i[s] \in 0 .. MaxAsked /\ v <= i[s]
    BY <1>3
  <2> QED BY <2>1, ConnectionsAssumption
<1>5. PICK j : j = [i EXCEPT ![s] = v]
  OBVIOUS
<1>6. j \in [Source -> 0 .. MaxAsked] /\ j[s] = v /\ \A t \in Source \ {s} : j[t] = i[t]
  BY <1>4, <1>5
<1>7. y = [flush[f] EXCEPT !.at = at, !.id = id, !.items = j]
  BY <1>3, <1>5 DEF Left
<1>8. y \in FlushRecord /\ y.at = at /\ y.of = flush[f].of /\ y.id = id /\ y.items = j
  BY <1>2, <1>6, <1>7 DEF FlushRecord
<1>9. /\ y.items[s] = v /\ y.items[s] <= flush[f].items[s]
      /\ \A t \in Source \ {s} : y.items[t] = flush[f].items[t]
  BY <1>3, <1>6, <1>8
<1>10. Moved(f, s, y.items[s], flush')
  BY <1>8, <1>9, ItemMoves
<1> QED BY <1>8, <1>9, <1>10

\* No number is ahead of what may be asked.
LEMMA WithinAsked ==
  ASSUME ConnectionsTypeOK, NEW d \in Cred, NEW n \in Nat, NEW w \in Nat, n + w <= asked[d]
  PROVE  n \in 0 .. MaxAsked
<1>1. asked[d] \in 0 .. MaxAsked
  BY DEF ConnectionsTypeOK
<1> QED BY <1>1, ConnectionsAssumption

\* The step of a flush that counts one request in the row of c, or none: the other rows, and
\* what the other flushes write, stay behind the requests.
LEMMA RecordedKeeps ==
  ASSUME ConnectionsInv, NEW f \in Flush, NEW s \in Source, s = flush[f].of,
         NEW c \in Cred, c = s[1], NEW y \in FlushRecord, flush' = [flush EXCEPT ![f] = y],
         y.of = s, y.at \in {"next", "back"}, y.at = "back" => y.id # 0,
         NEW v, Moved(f, s, v, flush'),
         UNCHANGED <<credential, pending, armed, sweep, asked, swept>>,
         row' \in [Cred -> [id : 0 .. MaxRows, count : 0 .. MaxAsked]], rows' \in 0 .. MaxRows,
         excused' \in [Cred -> SUBSET {"overlap", "forgotten", "crash"}],
         \A d \in Cred \ {c} : row'[d] = row[d] /\ excused'[d] = excused[d],
         row'[c].id = 0 => row'[c].count = 0,
         row'[c].count + WaitingIn(pending, flush', c) <= asked[c],
         ExactRow(c)'
  PROVE  ConnectionsInv'
<1>1. ConnectionsTypeOK /\ CountsBehind
  BY DEF ConnectionsInv
<1>2. flush'[f] = y /\ \A g \in Flush \ {f} : flush'[g] = flush[g]
  BY <1>1, FlushMoves
<1>3. CountsBehind'
  <2>1. ASSUME NEW d \in Cred
        PROVE  /\ row'[d].id = 0 => row'[d].count = 0
               /\ row'[d].count + WaitingIn(pending, flush', d) <= asked[d]
    <3>1. CASE d = c
      BY <3>1
    <3>2. CASE d # c
      <4>1. row[d].id = 0 => row[d].count = 0
        BY <1>1 DEF CountsBehind
      <4>2. row[d].count + WaitingIn(pending, flush', d) <= asked[d] /\ row'[d] = row[d]
        BY <3>2 DEF Moved
      <4> QED BY <4>1, <4>2
    <3> QED BY <3>1, <3>2
  <2>2. ASSUME NEW g \in Flush, flush'[g].at = "update"
        PROVE  flush'[g].seen + WaitingIn(pending, flush', flush'[g].of[1])
                 <= asked[flush'[g].of[1]]
    <3>1. g # f /\ flush'[g] = flush[g] /\ flush[g].at = "update"
      BY <1>2, <2>2
    <3>2. flush[g].seen + WaitingIn(pending, flush', flush[g].of[1]) <= asked[flush[g].of[1]]
      BY <3>1 DEF Moved, Holder
    <3> QED BY <3>1, <3>2
  <2> QED BY <2>1, <2>2 DEF CountsBehind, Holder
<1>4. ASSUME NEW d \in Cred PROVE ExactRow(d)'
  <2>1. CASE d = c
    BY <2>1
  <2>2. CASE d # c
    <3>1. WaitingIn(pending, flush', d) = WaitingIn(pending, flush, d)
      BY <2>2 DEF Moved
    <3>2. row'[d] = row[d] /\ excused'[d] = excused[d] /\ y.of[1] # d
      BY <2>2
    <3> QED BY <3>1, <3>2, OtherRowsExact
  <2> QED BY <2>1, <2>2
<1> QED BY <1>3, <1>4, FlushStepFits

\* Where one flush writes the row, and the record it goes on from is true, the row it leaves is.
LEMMA OnlyWriter ==
  ASSUME ConnectionsInv, NEW f \in Flush, NEW c \in Cred, c = Holder(f),
         flush[f].at \in {"insert", "update"}, NEW y \in FlushRecord,
         flush' = [flush EXCEPT ![f] = y], y.at = "back", y.of = flush[f].of,
         y.id = row'[c].id, excused[c] = {},
         \A g \in Flush \ {f} : flush[g].at = "back" /\ Holder(g) = c => flush[g].id = row'[c].id,
         row'[c].count + WaitingIn(pending', flush', c) = asked'[c]
  PROVE  ExactRow(c)'
<1>1. ConnectionsTypeOK /\ ExactRow(c)
  BY DEF ConnectionsInv
<1>2. flush'[f] = y /\ \A g \in Flush \ {f} : flush'[g] = flush[g]
  BY <1>1, FlushMoves
<1>3. \A g, h \in Writing(c) : g = h
  BY <1>1 DEF ExactRow
<1>4. f \in Writing(c)
  BY DEF Writing
<1>5. \A g \in Flush \ {f} : Holder(g) = c => flush[g].at \notin {"insert", "update"}
  BY <1>3, <1>4 DEF Writing
<1>6. \A g \in Flush : Holder(g)' = c =>
        /\ flush'[g].at \notin {"insert", "update"}
        /\ flush'[g].at = "back" => flush'[g].id = row'[c].id
  <2>1. ASSUME NEW g \in Flush, Holder(g)' = c
        PROVE  /\ flush'[g].at \notin {"insert", "update"}
               /\ flush'[g].at = "back" => flush'[g].id = row'[c].id
    <3>1. CASE g = f
      BY <1>2, <3>1
    <3>2. CASE g # f
      <4>1. flush'[g] = flush[g] /\ Holder(g) = c
        BY <1>2, <2>1, <3>2 DEF Holder
      <4> QED BY <1>5, <3>2, <4>1
    <3> QED BY <3>1, <3>2
  <2> QED BY <2>1
<1>7. Writing(c)' = {}
  BY <1>6 DEF Writing
<1> QED BY <1>6, <1>7 DEF ExactRow

\* A record that throws leaves the row, and happens only where a loss is excused.
LEMMA ThrownKeeps ==
  ASSUME ConnectionsInv, NEW f \in Flush, NEW s \in Source, s = flush[f].of, NEW c \in Cred,
      c = s[1],
         flush' = [flush EXCEPT ![f].at = "next", ![f].items[flush[f].of] = 0],
         UNCHANGED <<credential, pending, armed, row, rows, sweep, asked, swept>>,
         excused' \in [Cred -> SUBSET {"overlap", "forgotten", "crash"}], excused'[c] # {},
         \A d \in Cred \ {c} : excused'[d] = excused[d]
  PROVE  ConnectionsInv'
<1>1. ConnectionsTypeOK /\ CountsBehind
  BY DEF ConnectionsInv
<1>2. /\ flush[f] \in FlushRecord /\ flush \in [Flush -> FlushRecord] /\ Counted(pending, flush)
  BY <1>1, ConnectionNumbers DEF ConnectionsTypeOK, FlushRecord
<1>3. flush[f].items[s] \in Nat /\ 0 <= flush[f].items[s]
  BY <1>2 DEF Counted
<1>4. PICK id \in 0 .. MaxRows : id = flush[f].id
  BY <1>2 DEF FlushRecord
<1>5. PICK y : y = Left(f, s, "next", id, 0)
  OBVIOUS
<1>6. flush' = [flush EXCEPT ![f] = y]
  BY <1>2, <1>4, <1>5 DEF FlushRecord, Left
<1>7. /\ y \in FlushRecord /\ y.at = "next" /\ y.of = s /\ Moved(f, s, 0, flush')
  <2>1. y.at = "next" /\ y.of = s
    BY <1>2, <1>5 DEF FlushRecord, Left
  <2>2. y \in FlushRecord /\ Moved(f, s, 0, flush')
    BY <1>3, <1>4, <1>5, <1>6, RecordMoves
  <2> QED BY <2>1, <2>2
<1>8. /\ row' \in [Cred -> [id : 0 .. MaxRows, count : 0 .. MaxAsked]] /\ rows' \in 0 .. MaxRows
      /\ \A d \in Cred \ {c} : row'[d] = row[d] /\ excused'[d] = excused[d]
  BY <1>1 DEF ConnectionsTypeOK
<1>9. row'[c].id = 0 => row'[c].count = 0
  BY <1>1 DEF CountsBehind
<1>10. row'[c].count + WaitingIn(pending, flush', c) <= asked[c]
  BY <1>7 DEF Moved
<1>11. ExactRow(c)'
  BY DEF ExactRow
<1> QED BY <1>6, <1>7, <1>8, <1>9, <1>10, <1>11, RecordedKeeps

\* A row is inserted where there was none, and only there.
LEMMA InsertRowKeeps ==
  ASSUME ConnectionsInv, NEW f \in Flush, InsertRow(f)
  PROVE  ConnectionsInv'
<1>1. ConnectionsTypeOK /\ CountsBehind /\ (\A g \in Flush : FlushFits(g))
    /\ \A d \in Cred : ExactRow(d)
  BY DEF ConnectionsInv
<1>2. /\ flush[f] \in FlushRecord /\ flush \in [Flush -> FlushRecord]
      /\ Counted(pending, flush) /\ 0 .. MaxAsked \subseteq Nat
      /\ \A d \in Cred : WaitingIn(pending, flush, d) \in Nat /\ row[d].count \in Nat
         /\ asked[d] \in Nat
  BY <1>1, ConnectionNumbers DEF ConnectionsTypeOK, FlushRecord
<1>3. PICK s \in Source : s = flush[f].of
  BY <1>2 DEF FlushRecord
<1>4. PICK c \in Cred : c = s[1] /\ c = Holder(f)
  BY <1>3 DEF Source, Holder
<1>5. /\ UNCHANGED <<credential, pending, armed, sweep, asked, swept>>
      /\ flush[f].at = "insert" /\ rows < MaxRows /\ rows \in Nat /\ MaxRows \in Nat
  BY <1>1, ConnectionsAssumption DEF InsertRow, ConnectionAt, ConnectionsTypeOK
<1>6. PICK n \in Nat : n = flush[f].items[s] /\ n > 0
  <2>1. flush[f].items[s] \in Nat
    BY <1>2 DEF Counted
  <2> QED BY <2>1, <1>1, <1>3, <1>5 DEF FlushFits
<1>7. CASE row[c].id = 0
  <2>1. /\ rows' = rows + 1 /\ row' = [row EXCEPT ![c] = [id |-> rows + 1, count |-> 1]]
        /\ flush' = [flush EXCEPT ![f].at = "back", ![f].id = rows + 1,
                                  ![f].items[flush[f].of] = flush[f].items[flush[f].of] - 1]
        /\ UNCHANGED excused
    BY <1>4, <1>7 DEF InsertRow, OneRecorded
  <2>2. PICK id \in 0 .. MaxRows : id = rows + 1 /\ id # 0
    BY <1>5
  <2>3. PICK v \in Nat : v = n - 1 /\ v <= n /\ v + 1 = n
    <3>1. n - 1 \in Nat /\ n - 1 <= n /\ (n - 1) + 1 = n
      BY <1>6
    <3> QED BY <3>1
  <2>4. PICK y : y = Left(f, s, "back", id, v)
    OBVIOUS
  <2>5. flush' = [flush EXCEPT ![f] = y]
    BY <1>2, <1>3, <1>6, <2>1, <2>2, <2>3, <2>4 DEF FlushRecord, Left
  <2>6. /\ y \in FlushRecord /\ y.at = "back" /\ y.of = s /\ y.id = id
        /\ Moved(f, s, v, flush')
    <3>1. y.at = "back" /\ y.of = s /\ y.id = id
      BY <1>2, <1>3, <2>4 DEF FlushRecord, Left
    <3>2. y \in FlushRecord /\ Moved(f, s, v, flush')
      BY <1>3, <1>6, <2>2, <2>3, <2>4, <2>5, RecordMoves
    <3> QED BY <3>1, <3>2
  <2>7. PICK w \in Nat : w = WaitingIn(pending, flush', c)
    BY <2>6 DEF Moved
  <2>8. w + 1 = WaitingIn(pending, flush, c)
    <3>1. w + n = WaitingIn(pending, flush, c) + v
      BY <1>4, <1>6, <2>6, <2>7 DEF Moved
    <3>2. WaitingIn(pending, flush, c) \in Nat
      BY <1>2
    <3> QED BY <2>3, <3>1, <3>2
  <2>9. row[c].count = 0 /\ row[c].count + WaitingIn(pending, flush, c) <= asked[c]
    BY <1>1, <1>7 DEF CountsBehind
  <2>10. 1 + w <= asked[c]
    BY <1>2, <2>8, <2>9
  <2>11. 1 \in 0 .. MaxAsked
    BY <1>1, <2>10, WithinAsked
  <2>12. row' \in [Cred -> [id : 0 .. MaxRows, count : 0 .. MaxAsked]]
    <3>1. [id |-> rows + 1, count |-> 1] \in [id : 0 .. MaxRows, count : 0 .. MaxAsked]
      BY <2>2, <2>11
    <3> QED BY <1>1, <2>1, <3>1 DEF ConnectionsTypeOK
  <2>13. /\ row'[c].id = id /\ row'[c].count = 1
         /\ \A d \in Cred \ {c} : row'[d] = row[d] /\ excused'[d] = excused[d]
    BY <1>1, <2>1, <2>2 DEF ConnectionsTypeOK
  <2>14. ExactRow(c)'
    <3> SUFFICES ASSUME excused[c] = {} PROVE ExactRow(c)'
      BY <2>1 DEF ExactRow
    <3>1. row[c].count + WaitingIn(pending, flush, c) = asked[c]
      BY <1>1 DEF ExactRow
    <3>2. row'[c].count + WaitingIn(pending', flush', c) = asked'[c]
      BY <1>2, <1>5, <2>7, <2>8, <2>9, <2>13, <3>1
    <3>3. \A g \in Flush \ {f} : flush[g].at = "back" /\ Holder(g) = c => flush[g].id = row'[c].id
      BY <1>1, <1>7 DEF ExactRow, FlushFits
    <3> QED BY <1>3, <1>4, <1>5, <2>5, <2>6, <2>13, <3>2, <3>3, OnlyWriter
  <2>15. rows' \in 0 .. MaxRows /\ excused' \in [Cred -> SUBSET {"overlap", "forgotten", "crash"}]
    BY <1>1, <2>1, <2>2 DEF ConnectionsTypeOK
  <2>16. row'[c].count + WaitingIn(pending, flush', c) <= asked[c]
    BY <2>7, <2>10, <2>13
  <2> QED BY <1>3, <1>4, <1>5, <2>2, <2>5, <2>6, <2>12, <2>13, <2>14, <2>15, <2>16, RecordedKeeps
<1>8. CASE row[c].id # 0
  <2>1. /\ UNCHANGED <<row, rows>>
        /\ excused' = [d \in Cred |-> IF d \in {c} THEN excused[d] \cup {"overlap"} ELSE excused[d]]
        /\ flush' = [flush EXCEPT ![f].at = "next", ![f].items[flush[f].of] = 0]
    BY <1>4, <1>8 DEF InsertRow, Thrown, Excuse
  <2>2. \A d \in Cred \ {c} : row'[d] = row[d] /\ excused'[d] = excused[d]
    BY <2>1
  <2>3. excused'[c] # {} /\ excused' \in [Cred -> SUBSET {"overlap", "forgotten", "crash"}]
    BY <1>1, <2>1 DEF ConnectionsTypeOK
  <2> QED BY <1>3, <1>4, <1>5, <1>6, <2>1, <2>2, <2>3, ThrownKeeps
<1> QED BY <1>7, <1>8

\* The row that a flush has read gets one request more, if it is still there.
LEMMA UpdateRowKeeps ==
  ASSUME ConnectionsInv, NEW f \in Flush, UpdateRow(f)
  PROVE  ConnectionsInv'
<1>1. ConnectionsTypeOK /\ CountsBehind /\ FlushFits(f) /\ \A d \in Cred : ExactRow(d)
  BY DEF ConnectionsInv
<1>2. /\ flush[f] \in FlushRecord /\ flush \in [Flush -> FlushRecord]
      /\ Counted(pending, flush) /\ 0 .. MaxAsked \subseteq Nat /\ flush[f].seen \in Nat
      /\ \A d \in Cred : WaitingIn(pending, flush, d) \in Nat /\ row[d].count \in Nat
         /\ asked[d] \in Nat
  BY <1>1, ConnectionNumbers DEF ConnectionsTypeOK, FlushRecord
<1>3. PICK s \in Source : s = flush[f].of
  BY <1>2 DEF FlushRecord
<1>4. PICK c \in Cred : c = s[1] /\ c = Holder(f)
  BY <1>3 DEF Source, Holder
<1>5. /\ UNCHANGED <<credential, pending, armed, sweep, asked, swept, rows, excused>>
      /\ flush[f].at = "update"
      /\ flush' = [flush EXCEPT ![f].at = "back", ![f].id = flush[f].id,
                                ![f].items[flush[f].of] = flush[f].items[flush[f].of] - 1]
      /\ row' = IF row[c].id = flush[f].id THEN [row EXCEPT ![c].count = flush[f].seen + 1] ELSE row
  BY <1>4 DEF UpdateRow, ConnectionAt, OneRecorded
<1>6. PICK n \in Nat : n = flush[f].items[s] /\ n > 0
  <2>1. flush[f].items[s] \in Nat
    BY <1>2 DEF Counted
  <2> QED BY <2>1, <1>1, <1>3, <1>5 DEF FlushFits
<1>7. PICK id \in 0 .. MaxRows : id = flush[f].id /\ id # 0
  BY <1>1, <1>2, <1>5 DEF FlushFits, FlushRecord
<1>8. PICK v \in Nat : v = n - 1 /\ v <= n /\ v + 1 = n
  <2>1. n - 1 \in Nat /\ n - 1 <= n /\ (n - 1) + 1 = n
    BY <1>6
  <2> QED BY <2>1
<1>9. PICK y : y = Left(f, s, "back", id, v)
  OBVIOUS
<1>10. flush' = [flush EXCEPT ![f] = y]
  BY <1>2, <1>3, <1>5, <1>6, <1>7, <1>8, <1>9 DEF FlushRecord, Left
<1>11. /\ y \in FlushRecord /\ y.at = "back" /\ y.of = s /\ y.id = id
       /\ Moved(f, s, v, flush')
  <2>1. y.at = "back" /\ y.of = s /\ y.id = id
    BY <1>2, <1>3, <1>9 DEF FlushRecord, Left
  <2>2. y \in FlushRecord /\ Moved(f, s, v, flush')
    BY <1>3, <1>6, <1>7, <1>8, <1>9, <1>10, RecordMoves
  <2> QED BY <2>1, <2>2
<1>12. PICK w \in Nat : w = WaitingIn(pending, flush', c)
  BY <1>11 DEF Moved
<1>13. w + 1 = WaitingIn(pending, flush, c)
  <2>1. w + n = WaitingIn(pending, flush, c) + v
    BY <1>4, <1>6, <1>11, <1>12 DEF Moved
  <2>2. WaitingIn(pending, flush, c) \in Nat
    BY <1>2
  <2> QED BY <1>8, <2>1, <2>2
<1>14. flush[f].seen + WaitingIn(pending, flush, c) <= asked[c]
  BY <1>1, <1>4, <1>5 DEF CountsBehind
<1>15. flush[f].seen + 1 + w <= asked[c] /\ row[c].count + w <= asked[c]
  <2>1. flush[f].seen + 1 + w <= asked[c]
    BY <1>2, <1>13, <1>14
  <2>2. row[c].count + WaitingIn(pending, flush', c) <= asked[c]
    BY <1>11 DEF Moved
  <2> QED BY <2>1, <2>2, <1>12
<1>16. PICK k \in Nat : k = flush[f].seen + 1 /\ k \in 0 .. MaxAsked
  <2>1. flush[f].seen + 1 \in Nat
    BY <1>2
  <2> QED BY <2>1, <1>1, <1>15, WithinAsked
<1>17. /\ row' \in [Cred -> [id : 0 .. MaxRows, count : 0 .. MaxAsked]]
       /\ row'[c].id = row[c].id
       /\ row'[c].count = IF row[c].id = id THEN k ELSE row[c].count
       /\ \A d \in Cred \ {c} : row'[d] = row[d] /\ excused'[d] = excused[d]
  BY <1>1, <1>5, <1>7, <1>16 DEF ConnectionsTypeOK
<1>18. ExactRow(c)'
  <2> SUFFICES ASSUME excused[c] = {} PROVE ExactRow(c)'
    BY <1>5 DEF ExactRow
  <2>1. /\ row[c].count + WaitingIn(pending, flush, c) = asked[c]
        /\ \A g \in Flush : Holder(g) = c /\ flush[g].at = "back" => flush[g].id = row[c].id
        /\ flush[f].id = row[c].id /\ flush[f].seen = row[c].count
    BY <1>1, <1>4, <1>5 DEF ExactRow
  <2>2. row'[c].count = row[c].count + 1
    BY <1>7, <1>16, <1>17, <2>1
  <2>3. row'[c].count + WaitingIn(pending', flush', c) = asked'[c]
    <3>1. row[c].count + 1 + w = asked[c]
      BY <1>2, <1>13, <2>1
    <3> QED BY <1>5, <1>12, <2>2, <3>1
  <2>4. y.id = row'[c].id
    BY <1>7, <1>11, <1>17, <2>1
  <2>5. \A g \in Flush \ {f} : flush[g].at = "back" /\ Holder(g) = c => flush[g].id = row'[c].id
    BY <1>17, <2>1
  <2>6. flush[f].at \in {"insert", "update"} /\ y.at = "back" /\ y.of = flush[f].of
    BY <1>3, <1>5, <1>11
  <2>7. y \in FlushRecord
    BY <1>11
  <2> QED BY <1>4, <1>10, <2>3, <2>4, <2>5, <2>6, <2>7, OnlyWriter
<1>19. rows' \in 0 .. MaxRows /\ excused' \in [Cred -> SUBSET {"overlap", "forgotten", "crash"}]
  BY <1>1, <1>5 DEF ConnectionsTypeOK
<1>20. row'[c].count + WaitingIn(pending, flush', c) <= asked[c]
  <2>1. CASE row[c].id = id
    BY <1>12, <1>15, <1>16, <1>17, <2>1
  <2>2. CASE row[c].id # id
    BY <1>12, <1>15, <1>17, <2>2
  <2> QED BY <2>1, <2>2
<1>21. row'[c].id = 0 => row'[c].count = 0
  BY <1>1, <1>7, <1>17 DEF CountsBehind
<1> QED BY <1>3, <1>4, <1>5, <1>7, <1>10, <1>11, <1>17, <1>18, <1>19, <1>20, <1>21, RecordedKeeps

\* A flush goes on to the next request, and drops what a record that threw had left.
LEMMA ReadBackKeeps ==
  ASSUME ConnectionsInv, NEW f \in Flush, ReadBack(f)
  PROVE  ConnectionsInv'
<1>1. ConnectionsTypeOK /\ \A d \in Cred : ExactRow(d)
  BY DEF ConnectionsInv
<1>2. flush[f] \in FlushRecord /\ flush \in [Flush -> FlushRecord]
  BY <1>1, ConnectionNumbers DEF ConnectionsTypeOK, FlushRecord
<1>3. PICK s \in Source : s = flush[f].of
  BY <1>2 DEF FlushRecord
<1>4. PICK c \in Cred : c = s[1] /\ c = Holder(f)
  BY <1>3 DEF Source, Holder
<1>5. /\ flush[f].at = "back"
      /\ UNCHANGED <<credential, pending, armed, row, rows, sweep, asked, excused, swept>>
  BY DEF ReadBack, ConnectionAt
<1>6. CASE row[c].id = flush[f].id
  <2>1. flush' = [flush EXCEPT ![f].at = "next"]
    BY <1>4, <1>6 DEF ReadBack
  <2>2. PICK y : y = [flush[f] EXCEPT !.at = "next"]
    OBVIOUS
  <2>3. y \in FlushRecord /\ y.at = "next" /\ y.items = flush[f].items
    BY <1>2, <2>2 DEF FlushRecord
  <2>4. flush' = [flush EXCEPT ![f] = y]
    BY <2>1, <2>2
  <2> QED BY <1>5, <2>3, <2>4, QuietStepKeeps
<1>7. CASE row[c].id # flush[f].id
  <2>1. flush' = [flush EXCEPT ![f].at = "next", ![f].items[flush[f].of] = 0]
    BY <1>4, <1>7 DEF ReadBack, Thrown
  <2>2. excused[c] # {}
    BY <1>1, <1>4, <1>5, <1>7 DEF ExactRow
  <2>3. excused' \in [Cred -> SUBSET {"overlap", "forgotten", "crash"}]
    BY <1>1, <1>5 DEF ConnectionsTypeOK
  <2>4. excused'[c] # {} /\ \A d \in Cred \ {c} : excused'[d] = excused[d]
    BY <1>5, <2>2
  <2> QED BY <1>3, <1>4, <1>5, <2>1, <2>3, <2>4, ThrownKeeps
<1> QED BY <1>6, <1>7

\* At the start nothing is asked and nothing waits.
LEMMA ConnectionsStart == ConnectionsInit => ConnectionsInv
<1> SUFFICES ASSUME ConnectionsInit PROVE ConnectionsInv
  OBVIOUS
<1>1. /\ credential = [c \in Cred |-> "none"]
      /\ pending = NoneCounted /\ armed = FALSE /\ flush = [f \in Flush |-> Resting]
      /\ row = [c \in Cred |-> [id |-> 0, count |-> 0]] /\ rows = 0 /\ sweep = Sweeping
      /\ asked = [c \in Cred |-> 0] /\ excused = [c \in Cred |-> {}] /\ swept = {}
  BY DEF ConnectionsInit, Unmet
<1>2. /\ pending \in [Source -> 0 .. MaxAsked] /\ \A s \in Source : NoneCounted[s] = 0
  BY <1>1, ConnectionsAssumption DEF NoneCounted
<1>3. /\ flush \in [Flush -> FlushRecord]
      /\ \A f \in Flush : flush[f].at = "idle" /\ flush[f].items = NoneCounted
  <2>1. flush \in [Flush -> FlushRecord] /\ \A f \in Flush : flush[f] = Resting
    BY <1>1, RestingFits
  <2>2. Resting.at = "idle" /\ Resting.items = NoneCounted
    BY DEF Resting
  <2> QED BY <2>1, <2>2
<1>4. SweepKnows
  BY <1>1 DEF SweepKnows, Sweeping
<1>5. ConnectionsTypeOK
  <2>1. row \in [Cred -> [id : 0 .. MaxRows, count : 0 .. MaxAsked]] /\ rows \in 0 .. MaxRows
    BY <1>1, ConnectionsAssumption
  <2>2. asked \in [Cred -> 0 .. MaxAsked]
    BY <1>1, ConnectionsAssumption
  <2>3. sweep.at \in {"idle", "rows", "each"}
    BY <1>4 DEF SweepKnows
  <2> QED BY <1>1, <1>2, <1>3, <2>1, <2>2, <2>3 DEF ConnectionsTypeOK, FlushRecord
<1>6. \A c \in Cred : row[c].id = 0 /\ row[c].count = 0 /\ asked[c] = 0
  BY <1>1
<1>7. ASSUME NEW c \in Cred PROVE WaitingIn(pending, flush, c) = 0
  <2>1. Counted(pending, flush)
    BY <1>5, ConnectionNumbers
  <2>2. \A n \in Name : <<c, n>> \in Source
    BY DEF Source
  <2>3. \A n \in Name : pending[<<c, n>>] = 0 /\ \A f \in Flush : flush[f].items[<<c, n>>] = 0
    BY <1>1, <1>2, <1>3, <2>2
  <2> QED BY <2>1, <2>3, NoneWaits
<1>8. CountsBehind
  <2>1. ASSUME NEW c \in Cred
        PROVE  /\ row[c].id = 0 => row[c].count = 0
               /\ row[c].count + WaitingIn(pending, flush, c) <= asked[c]
    BY <1>6, <1>7
  <2> QED BY <1>3, <2>1 DEF CountsBehind
<1>9. ASSUME NEW c \in Cred PROVE ExactRow(c)
  <2>1. row[c].count + WaitingIn(pending, flush, c) = asked[c]
    BY <1>6, <1>7
  <2>2. Writing(c) = {}
    BY <1>3 DEF Writing
  <2> QED BY <1>3, <2>1, <2>2 DEF ExactRow
<1>10. \A f \in Flush : FlushFits(f)
  BY <1>2, <1>3 DEF FlushFits
<1>11. WaitingHasTimer
  BY <1>1 DEF WaitingHasTimer
<1> QED BY <1>4, <1>5, <1>8, <1>9, <1>10, <1>11 DEF ConnectionsInv

\* The invariant of the counts (mcp/deps.ts, ConnectionRepo): no count runs ahead of the
\* requests, and the row of a credential is exact where no loss is excused.
THEOREM ConnectionsInvariance == ConnectionsSpec => []ConnectionsInv
<1>1. ConnectionsInv /\ [ConnectionsNext]_connectionVars => ConnectionsInv'
  <2> SUFFICES ASSUME ConnectionsInv, [ConnectionsNext]_connectionVars PROVE ConnectionsInv'
    OBVIOUS
  <2>1. ASSUME NEW c \in Cred, Approve(c) \/ Withdraw(c) \/ Forget(c) PROVE ConnectionsInv'
    BY <2>1, CredentialsKeep, ForgetKeeps
  <2>2. ASSUME NEW s \in Source, Ask(s) PROVE ConnectionsInv'
    BY <2>2, AskKeeps
  <2>3. ASSUME NEW f \in Flush, TimerFires(f) \/ ExitFlush(f) \/ FlushStep(f) PROVE ConnectionsInv'
    BY <2>3, TakeKeeps, NextItemKeeps, LookForRowKeeps, InsertRowKeeps, UpdateRowKeeps,
       ReadBackKeeps
       DEF FlushStep
  <2>4. CASE SweepBegins \/ ListRows \/ ForgetUnknown \/ ConnectionsCrash
    BY <2>4, SweepLooks, ForgetKeeps, ConnectionsCrashKeeps
  <2>5. CASE UNCHANGED connectionVars
    <3>1. UNCHANGED <<credential, pending, armed, flush, row, rows, sweep, asked, excused, swept>>
      BY <2>5 DEF connectionVars
    <3>2. ConnectionsTypeOK' /\ SweepKnows'
      BY <3>1 DEF ConnectionsInv, ConnectionsTypeOK, SweepKnows
    <3> QED BY <3>1, <3>2, CountsStay
  <2> QED BY <2>1, <2>2, <2>3, <2>4, <2>5 DEF ConnectionsNext
<1> QED BY <1>1, ConnectionsStart, PTL DEF ConnectionsSpec

\* What a client has asked is counted once, or waits with a timer that will count it, except where
\* two flushes met, the row was forgotten or the process died; a sweep keeps the rows of live
\* credentials (mcp/deps.ts, ConnectionRepo.record, forgetStale).
THEOREM ConnectionsAreCounted == ConnectionsSpec => []ConnectionsSafe
<1>1. ConnectionsInv => ConnectionsSafe
  <2> SUFFICES ASSUME ConnectionsInv PROVE ConnectionsSafe
    OBVIOUS
  <2>1. CountedOnce
    BY WaitingNow DEF ConnectionsInv, ExactRow, CountedOnce
  <2>2. LiveRowsStay
    BY DEF ConnectionsInv, SweepKnows, LiveRowsStay
  <2> QED BY <2>1, <2>2 DEF ConnectionsInv, ConnectionsSafe
<1> QED BY <1>1, ConnectionsInvariance, PTL

-----------------------------------------------------------------------------
(* What is highest *)

\* A finite set of numbers that is not empty has a greatest one.
LEMMA MaxIs ==
  ASSUME NEW S \in SUBSET Nat, IsFiniteSet(S), NEW z \in S
  PROVE  Max(S) \in S /\ \A y \in S : y <= Max(S)
<1>1. PICK U : U = {{y \in S : y >= x} : x \in S}
  OBVIOUS
<1>2. \A u \in SUBSET S : IsFiniteSet(u)
  BY FS_Subset
<1>3. U \in SUBSET FiniteSubsetsOf(S) /\ U # {}
  BY <1>1, <1>2 DEF FiniteSubsetsOf
<1>4. PICK u \in U : \A w \in U : w \subseteq u => w = u
  BY <1>3, LeastSet
<1>5. PICK x \in S : u = {y \in S : y >= x}
  BY <1>1
<1>6. ASSUME NEW m \in S, m > x PROVE FALSE
  <2>1. PICK w \in U : w = {y \in S : y >= m}
    BY <1>1
  <2>2. w \subseteq u /\ x \in u /\ x \notin w
    <3>1. m \in Nat /\ x \in Nat /\ x >= x /\ ~(x >= m)
      BY <1>6
    <3>2. \A y \in S : y >= m => y >= x
      BY <1>6
    <3>. QED
      BY <1>5, <2>1, <3>1, <3>2
  <2>. QED
    BY <1>4, <2>2
<1>7. \A y \in S : x >= y
  BY <1>6
<1>. QED
  BY <1>7 DEF Max

\* The values of a function on a finite set are finitely many.
LEMMA ImageIsFinite ==
  ASSUME NEW S, IsFiniteSet(S), NEW f, f \in [S -> Nat]
  PROVE  IsFiniteSet({f[x] : x \in S})
<1>1. f \in Surjection(S, {f[x] : x \in S})
  BY DEF Surjection
<1>. QED
  BY <1>1, FS_Surjection

-----------------------------------------------------------------------------
(* Skills *)

CallerOrNot == Caller \cup {NoCaller}
CallerPlace == {"idle", "get", "update", "insert", "back", "look", "done", "error"}
CallerKind == {"write", "switch", "delete", "prompt"}
SkillRow == [id : CallerOrNot, text : CallerOrNot, on : BOOLEAN]
CallerRow == [at : CallerPlace, kind : CallerKind, name : Skill, on : BOOLEAN, id : CallerOrNot, was : BOOLEAN]

\* What is known of a call: it was once written or overtaken where it says so, and it switches a
\* skill on again only if it was writing it when the skill was switched off, or another was.
CallerFits(c) ==
  LET n == NameOf(c) IN
  /\ SkillAt(c, "update") => caller[c].id # NoCaller
  /\ SkillAt(c, "update") /\ There(n) /\ skill[n].id # caller[c].id => c \in anew
  /\ SkillAt(c, "back") /\ There(n) => c \in wrote \cup anew
  /\ SkillAt(c, "done") /\ caller[c].kind = "write" => c \in wrote \cup anew
  /\ SkillAt(c, "update") /\ n \in off /\ SetOn(c) => during[n] # {}
  /\ SkillAt(c, "get") /\ n \in off /\ caller[c].kind = "switch" /\ caller[c].on => during[n] # {}
  /\ SkillAt(c, "done") /\ caller[c].kind = "prompt" => caller[c].was
  /\ caller[c].at \in {"get", "update", "insert", "back"} => caller[c].kind \in {"write", "switch"}
  /\ SkillAt(c, "look") => caller[c].kind = "switch"

SkillFits(n) ==
  /\ skill[n].id = NoCaller => skill[n] = NoSkill
  /\ n \in off => There(n) /\ (skill[n].on => during[n] # {})

SkillsInv ==
  /\ skill \in [Skill -> SkillRow] /\ caller \in [Caller -> CallerRow]
  /\ off \subseteq Skill /\ during \in [Skill -> SUBSET Caller] /\ wrote \subseteq Caller /\ anew \subseteq Caller
  /\ \A n \in Skill : SkillFits(n)
  /\ \A c \in Caller : CallerFits(c)

SkillsRest == UNCHANGED <<skill, off, during, wrote, anew>>

LEMMA CallerMoves ==
  ASSUME SkillsInv, NEW c \in Caller, NEW y \in CallerRow, caller' = [caller EXCEPT ![c] = y]
  PROVE  caller' \in [Caller -> CallerRow] /\ caller'[c] = y /\ \A d \in Caller : d # c => caller'[d] = caller[d]
  BY DEF SkillsInv

\* Of a call that stays where it is, as long as its skill stays what it is.
LEMMA CallerStill ==
  ASSUME SkillsInv, NEW d \in Caller, caller'[d] = caller[d], UNCHANGED <<off, during>>,
         wrote \subseteq wrote', anew \subseteq anew', skill'[NameOf(d)].id = skill[NameOf(d)].id
  PROVE  CallerFits(d)'
  BY DEF SkillsInv, CallerFits, There, SkillAt, NameOf, SetOn

\* A step that only moves one call.
LEMMA CallerGoes ==
  ASSUME SkillsInv, NEW c \in Caller, NEW y \in CallerRow, caller' = [caller EXCEPT ![c] = y], SkillsRest,
         CallerFits(c)'
  PROVE  SkillsInv'
<1>1. caller' \in [Caller -> CallerRow] /\ caller'[c] = y /\ \A d \in Caller : d # c => caller'[d] = caller[d]
  BY CallerMoves
<1>2. \A d \in Caller : d # c => CallerFits(d)'
  BY <1>1, CallerStill DEF SkillsRest
<1>3. \A n \in Skill : SkillFits(n)'
  BY DEF SkillsRest, SkillsInv, SkillFits, There
<1>. QED
  BY <1>1, <1>2, <1>3 DEF SkillsInv, SkillsRest

\* What a call that begins looks like.
LEMMA UnaskedFits ==
  Unasked \in CallerRow /\ \A n \in Skill : [Unasked EXCEPT !.name = n] =
    [at |-> "idle", kind |-> "write", name |-> n, on |-> TRUE, id |-> NoCaller, was |-> TRUE]
<1>1. \E n \in Skill : TRUE
  BY SkillsAssumption
<1>2. (CHOOSE n \in Skill : TRUE) \in Skill
  BY <1>1
<1>. QED
  BY <1>2 DEF Unasked, CallerRow, CallerPlace, CallerKind, CallerOrNot

LEMMA BeginWriteKeeps ==
  ASSUME SkillsInv, NEW c \in Caller, NEW n \in Skill, BeginWrite(c, n)
  PROVE  SkillsInv'
<1>1. PICK y : y = [Unasked EXCEPT !.at = "get", !.name = n]
  OBVIOUS
<1>2. y = [at |-> "get", kind |-> "write", name |-> n, on |-> TRUE, id |-> NoCaller, was |-> TRUE]
  BY <1>1 DEF Unasked
<1>3. y \in CallerRow
  BY <1>2 DEF CallerRow, CallerPlace, CallerKind, CallerOrNot
<1>4. caller' = [caller EXCEPT ![c] = y] /\ SkillsRest
  BY <1>1 DEF BeginWrite, SkillsRest
<1>5. caller'[c] = y
  BY <1>3, <1>4, CallerMoves
<1>6. CallerFits(c)'
  BY <1>2, <1>5 DEF CallerFits, SkillAt
<1>. QED
  BY <1>3, <1>4, <1>6, CallerGoes

LEMMA GetSkillKeeps ==
  ASSUME SkillsInv, NEW c \in Caller, GetSkill(c)
  PROVE  SkillsInv'
<1>1. PICK a \in CallerRow : a = caller[c]
  BY DEF SkillsInv
<1>2. PICK n \in Skill : n = a.name
  BY DEF CallerRow
<1>3. PICK s \in SkillRow : s = skill[n]
  BY DEF SkillsInv
<1>4. PICK w \in {"update", "insert"} : w = IF There(n) THEN "update" ELSE "insert"
  OBVIOUS
<1>5. PICK y : y = [a EXCEPT !.at = w, !.id = s.id, !.was = s.on]
  OBVIOUS
<1>6. /\ y \in CallerRow /\ y.at = w /\ y.kind = a.kind /\ y.name = n /\ y.on = a.on /\ y.id = s.id /\ y.was = s.on
  BY <1>1, <1>2, <1>3, <1>5 DEF CallerRow, SkillRow, CallerPlace
<1>7. caller' = [caller EXCEPT ![c] = y]
  BY <1>1, <1>2, <1>3, <1>4, <1>5 DEF GetSkill, NameOf, SkillsInv
<1>8. SkillsRest /\ a.at = "get"
  BY <1>1 DEF GetSkill, SkillsRest, SkillAt
<1>9. caller'[c] = y
  BY <1>6, <1>7, CallerMoves
<1>10. CallerFits(c)'
  <2>1. w = "update" => s.id # NoCaller
    BY <1>3, <1>4 DEF There
  <2>2. n \in off /\ s.on => during[n] # {}
    BY <1>3 DEF SkillsInv, SkillFits
  <2>3. n \in off /\ a.kind = "switch" /\ a.on => during[n] # {}
    BY <1>1, <1>2, <1>8 DEF SkillsInv, CallerFits, NameOf, SkillAt
  <2>4. UNCHANGED <<skill, off, during>>
    BY <1>8 DEF SkillsRest
  <2>5. a.kind \in {"write", "switch"}
    BY <1>1, <1>8 DEF SkillsInv, CallerFits
  <2>6. w = "update" /\ n \in off /\ (IF a.kind = "switch" THEN a.on ELSE s.on) => during[n] # {}
    BY <2>2, <2>3
  <2>. QED
    BY <1>3, <1>6, <1>9, <2>1, <2>4, <2>5, <2>6 DEF CallerFits, NameOf, SkillAt, SetOn
<1>. QED
  BY <1>6, <1>7, <1>8, <1>10, CallerGoes

LEMMA UpdateSkillKeeps ==
  ASSUME SkillsInv, NEW c \in Caller, UpdateSkill(c)
  PROVE  SkillsInv'
<1>1. PICK a \in CallerRow : a = caller[c]
  BY DEF SkillsInv
<1>2. PICK n \in Skill : n = a.name
  BY DEF CallerRow
<1>3. PICK s \in SkillRow : s = skill[n]
  BY DEF SkillsInv
<1>4. PICK y : y = [a EXCEPT !.at = "back"]
  OBVIOUS
<1>5. y \in CallerRow /\ y.at = "back" /\ y.name = n /\ y.kind = a.kind
  BY <1>1, <1>2, <1>4 DEF CallerRow, CallerPlace
<1>6. caller' = [caller EXCEPT ![c] = y] /\ a.at = "update" /\ UNCHANGED <<off, during, anew>>
  BY <1>1, <1>4 DEF UpdateSkill, SkillAt, SkillTo
<1>7. caller' \in [Caller -> CallerRow] /\ caller'[c] = y /\ \A d \in Caller : d # c => caller'[d] = caller[d]
  BY <1>5, <1>6, CallerMoves
<1>8. CallerFits(c) /\ a.kind \in {"write", "switch"}
  BY <1>1, <1>6 DEF SkillsInv, CallerFits
<1>9. CASE s.id = a.id
  <2>1. PICK on \in BOOLEAN : on = SetOn(c)
    BY <1>1 DEF SetOn, CallerRow
  <2>2. PICK t : t = [s EXCEPT !.text = c, !.on = on]
    OBVIOUS
  <2>3. t \in SkillRow /\ t.id = s.id /\ t.on = on
    BY <1>3, <2>2 DEF SkillRow, CallerOrNot
  <2>4. skill' = [skill EXCEPT ![n] = t] /\ wrote' = wrote \cup {c}
    BY <1>1, <1>2, <1>3, <1>9, <2>1, <2>2 DEF UpdateSkill, NameOf, SkillsInv
  <2>5. skill' \in [Skill -> SkillRow] /\ skill'[n] = t /\ \A m \in Skill : m # n => skill'[m] = skill[m]
    BY <2>3, <2>4 DEF SkillsInv
  <2>6. s.id # NoCaller
    BY <1>1, <1>6, <1>8, <1>9 DEF CallerFits, SkillAt
  <2>7. n \in off /\ on => during[n] # {}
    BY <1>1, <1>2, <1>6, <1>8, <2>1 DEF CallerFits, SkillAt, NameOf
  <2>8. ASSUME NEW m \in Skill PROVE SkillFits(m)'
    <3>1. CASE m = n
      BY <1>6, <2>3, <2>5, <2>6, <2>7, <3>1 DEF SkillFits, There
    <3>2. CASE m # n
      BY <1>6, <2>5, <3>2 DEF SkillsInv, SkillFits, There
    <3>. QED
      BY <3>1, <3>2
  <2>9. ASSUME NEW d \in Caller PROVE CallerFits(d)'
    <3>1. CASE d = c
      BY <1>5, <1>7, <1>8, <2>4, <3>1 DEF CallerFits, SkillAt
    <3>2. CASE d # c
      <4>1. skill'[NameOf(d)].id = skill[NameOf(d)].id
        BY <1>3, <2>3, <2>5 DEF NameOf, SkillsInv, CallerRow
      <4>. QED
        BY <1>6, <1>7, <2>4, <3>2, <4>1, CallerStill
    <3>. QED
      BY <3>1, <3>2
  <2>. QED
    BY <1>6, <1>7, <2>4, <2>5, <2>8, <2>9 DEF SkillsInv
<1>10. CASE s.id # a.id
  <2>1. SkillsRest
    BY <1>1, <1>2, <1>3, <1>6, <1>10 DEF UpdateSkill, NameOf, SkillsRest
  <2>2. There(n) => c \in anew
    BY <1>1, <1>2, <1>3, <1>6, <1>8, <1>10 DEF CallerFits, SkillAt, NameOf
  <2>3. CallerFits(c)'
    BY <1>5, <1>7, <1>8, <2>1, <2>2 DEF CallerFits, SkillAt, SkillsRest, There, NameOf
  <2>. QED
    BY <1>5, <1>6, <2>1, <2>3, CallerGoes
<1>. QED
  BY <1>9, <1>10

LEMMA InsertSkillKeeps ==
  ASSUME SkillsInv, NEW c \in Caller, InsertSkill(c)
  PROVE  SkillsInv'
<1>1. PICK a \in CallerRow : a = caller[c]
  BY DEF SkillsInv
<1>2. PICK n \in Skill : n = a.name
  BY DEF CallerRow
<1>3. PICK w \in {"error", "back"} : w = IF There(n) THEN "error" ELSE "back"
  OBVIOUS
<1>4. PICK y : y = [a EXCEPT !.at = w]
  OBVIOUS
<1>5. y \in CallerRow /\ y.at = w /\ y.name = n /\ y.kind = a.kind
  BY <1>1, <1>2, <1>4 DEF CallerRow, CallerPlace
<1>0. a.kind \in {"write", "switch"}
  BY <1>1 DEF SkillsInv, CallerFits, InsertSkill, SkillAt
<1>6. caller' = [caller EXCEPT ![c] = y]
  BY <1>1, <1>2, <1>3, <1>4 DEF InsertSkill, SkillTo, NameOf
<1>7. caller' \in [Caller -> CallerRow] /\ caller'[c] = y /\ \A d \in Caller : d # c => caller'[d] = caller[d]
  BY <1>5, <1>6, CallerMoves
<1>8. CASE There(n)
  <2>1. SkillsRest
    BY <1>1, <1>2, <1>8 DEF InsertSkill, NameOf, SkillsRest
  <2>2. CallerFits(c)'
    BY <1>3, <1>5, <1>7, <1>8 DEF CallerFits, SkillAt
  <2>. QED
    BY <1>5, <1>6, <2>1, <2>2, CallerGoes
<1>9. CASE ~There(n)
  <2>1. PICK on \in BOOLEAN : on = SetOn(c)
    BY <1>1 DEF SetOn, CallerRow
  <2>2. PICK t : t = [id |-> c, text |-> c, on |-> on]
    OBVIOUS
  <2>3. t \in SkillRow /\ t.id = c /\ t.on = on /\ c # NoCaller
    BY <2>2, SkillsAssumption DEF SkillRow, CallerOrNot
  <2>4. /\ skill' = [skill EXCEPT ![n] = t] /\ wrote' = wrote \cup {c} /\ anew' = anew \cup (Busy(n) \ {c})
        /\ IF on THEN UNCHANGED <<off, during>> ELSE SwitchedOff(c, n)
    BY <1>1, <1>2, <1>9, <2>1, <2>2 DEF InsertSkill, NameOf
  <2>5. skill' \in [Skill -> SkillRow] /\ skill'[n] = t /\ \A m \in Skill : m # n => skill'[m] = skill[m]
    BY <2>3, <2>4 DEF SkillsInv
  <2>6. /\ Busy(n) \subseteq Caller /\ n \notin off
        /\ \A d \in Caller : NameOf(d) = n /\ caller[d].at \in {"get", "update", "back"} => d \in Busy(n)
    BY <1>9 DEF Busy, SkillsInv, SkillFits
  <2>7. /\ off' \subseteq Skill /\ during' \in [Skill -> SUBSET Caller] /\ (n \in off' => ~on)
        /\ \A m \in Skill : m # n => (m \in off' <=> m \in off) /\ during'[m] = during[m]
        /\ n \in off' => during'[n] = Busy(n) \ {c}
    BY <2>4, <2>6 DEF SwitchedOff, SkillsInv
  <2>8. ASSUME NEW m \in Skill PROVE SkillFits(m)'
    <3>1. CASE m = n
      BY <2>3, <2>5, <2>7, <3>1 DEF SkillFits, There
    <3>2. CASE m # n
      BY <2>5, <2>7, <3>2 DEF SkillsInv, SkillFits, There
    <3>. QED
      BY <3>1, <3>2
  <2>9. ASSUME NEW d \in Caller PROVE CallerFits(d)'
    <3>1. CASE d = c
      BY <1>0, <1>3, <1>5, <1>7, <1>9, <2>4, <3>1 DEF CallerFits, SkillAt
    <3>2. CASE d # c /\ NameOf(d) = n
      <4>1. caller'[d] = caller[d] /\ CallerFits(d)
        BY <1>7, <3>2 DEF SkillsInv
      <4>2. caller[d].at \in {"get", "update", "back"} => d \in Busy(n) \ {c}
        BY <2>6, <3>2
      <4>. QED
        BY <2>4, <2>7, <3>2, <4>1, <4>2 DEF CallerFits, SkillAt, NameOf
    <3>3. CASE d # c /\ NameOf(d) # n
      <4>1. caller'[d] = caller[d] /\ CallerFits(d) /\ NameOf(d) \in Skill
        BY <1>7, <3>3 DEF SkillsInv, NameOf, CallerRow
      <4>. QED
        BY <2>4, <2>5, <2>7, <3>3, <4>1 DEF CallerFits, SkillAt, NameOf, There, SetOn
    <3>. QED
      BY <3>1, <3>2, <3>3
  <2>10. wrote' \subseteq Caller /\ anew' \subseteq Caller
    BY <2>4, <2>6 DEF SkillsInv
  <2>. QED
    BY <1>7, <2>5, <2>7, <2>8, <2>9, <2>10 DEF SkillsInv
<1>. QED
  BY <1>8, <1>9

LEMMA ReadSkillBackKeeps ==
  ASSUME SkillsInv, NEW c \in Caller, ReadSkillBack(c)
  PROVE  SkillsInv'
<1>1. PICK a \in CallerRow : a = caller[c]
  BY DEF SkillsInv
<1>2. PICK w \in {"done", "error"} : w = IF There(a.name) THEN "done" ELSE "error"
  OBVIOUS
<1>3. PICK y : y = [a EXCEPT !.at = w]
  OBVIOUS
<1>4. y \in CallerRow /\ y.at = w /\ y.kind = a.kind /\ y.was = a.was
  BY <1>1, <1>3 DEF CallerRow, CallerPlace
<1>5. caller' = [caller EXCEPT ![c] = y] /\ a.at = "back" /\ SkillsRest
  BY <1>1, <1>2, <1>3 DEF ReadSkillBack, SkillAt, SkillTo, NameOf, SkillsRest
<1>6. caller'[c] = y
  BY <1>4, <1>5, CallerMoves
<1>7. a.kind # "prompt"
  BY <1>1, <1>5 DEF SkillsInv, CallerFits, SkillAt
<1>8. w = "done" => c \in wrote \cup anew
  BY <1>1, <1>2, <1>5 DEF SkillsInv, CallerFits, SkillAt, NameOf
<1>9. CallerFits(c)'
  BY <1>4, <1>5, <1>6, <1>7, <1>8 DEF CallerFits, SkillAt, SkillsRest
<1>. QED
  BY <1>4, <1>5, <1>9, CallerGoes

\* A switch writes its row and is to look at it.
LEMMA SwitchSkillKeeps ==
  ASSUME SkillsInv, NEW c \in Caller, NEW n \in Skill, NEW on \in BOOLEAN, SwitchSkill(c, n, on)
  PROVE  SkillsInv'
<1>1. PICK y : y = [Unasked EXCEPT !.at = "look", !.kind = "switch", !.name = n, !.on = on]
  OBVIOUS
<1>2. y = [at |-> "look", kind |-> "switch", name |-> n, on |-> on, id |-> NoCaller, was |-> TRUE]
  BY <1>1 DEF Unasked
<1>3. y \in CallerRow
  BY <1>2 DEF CallerRow, CallerPlace, CallerKind, CallerOrNot
<1>4. caller' = [caller EXCEPT ![c] = y] /\ UNCHANGED <<wrote, anew>> /\ caller[c].at = "idle"
  BY <1>1 DEF SwitchSkill, SkillAt
<1>5. caller' \in [Caller -> CallerRow] /\ caller'[c] = y /\ \A d \in Caller : d # c => caller'[d] = caller[d]
  BY <1>3, <1>4, CallerMoves
<1>6. CallerFits(c)'
  BY <1>2, <1>5 DEF CallerFits, SkillAt
<1>7. CASE ~There(n)
  <2>1. SkillsRest
    BY <1>7 DEF SwitchSkill, SkillsRest
  <2>. QED
    BY <1>3, <1>4, <1>6, <2>1, CallerGoes
<1>8. CASE There(n)
  <2>1. PICK s \in SkillRow : s = skill[n]
    BY DEF SkillsInv
  <2>2. PICK t : t = [s EXCEPT !.on = on]
    OBVIOUS
  <2>3. t \in SkillRow /\ t.id = s.id /\ t.on = on
    BY <2>1, <2>2 DEF SkillRow
  <2>4. skill' = [skill EXCEPT ![n] = t] /\ IF on THEN SwitchedOn(n) /\ UNCHANGED during ELSE SwitchedOff(c, n)
    BY <1>8, <2>1, <2>2 DEF SwitchSkill, SkillsInv
  <2>5. skill' \in [Skill -> SkillRow] /\ skill'[n] = t /\ \A m \in Skill : m # n => skill'[m] = skill[m]
    BY <2>3, <2>4 DEF SkillsInv
  <2>6. /\ Busy(n) \subseteq Caller /\ c \notin Busy(n)
        /\ \A d \in Caller : NameOf(d) = n /\ caller[d].at \in {"get", "update"} => d \in Busy(n)
    BY <1>4 DEF Busy
  <2>7. /\ off' \subseteq Skill /\ during' \in [Skill -> SUBSET Caller] /\ (n \in off' <=> ~on)
        /\ \A m \in Skill : m # n => (m \in off' <=> m \in off) /\ during'[m] = during[m]
        /\ n \in off' => during'[n] = Busy(n)
    <3>1. CASE on
      BY <2>4, <3>1 DEF SwitchedOn, SkillsInv
    <3>2. CASE ~on
      <4>1. off' = off \cup {n} /\ during' = [during EXCEPT ![n] = Busy(n)]
        BY <2>4, <2>6, <3>2 DEF SwitchedOff
      <4>. QED
        BY <2>6, <3>2, <4>1 DEF SkillsInv
    <3>. QED
      BY <3>1, <3>2
  <2>8. s.id # NoCaller
    BY <1>8, <2>1 DEF There
  <2>9. ASSUME NEW m \in Skill PROVE SkillFits(m)'
    <3>1. CASE m = n
      BY <2>3, <2>5, <2>7, <2>8, <3>1 DEF SkillFits, There
    <3>2. CASE m # n
      BY <2>5, <2>7, <3>2 DEF SkillsInv, SkillFits, There
    <3>. QED
      BY <3>1, <3>2
  <2>10. ASSUME NEW d \in Caller PROVE CallerFits(d)'
    <3>1. CASE d = c
      BY <1>6, <3>1
    <3>2. CASE d # c /\ NameOf(d) = n
      <4>1. caller'[d] = caller[d] /\ CallerFits(d)
        BY <1>5, <3>2 DEF SkillsInv
      <4>2. caller[d].at \in {"get", "update"} => d \in Busy(n)
        BY <2>6, <3>2
      <4>3. skill'[n].id = skill[n].id
        BY <2>1, <2>3, <2>5
      <4>. QED
        BY <1>4, <2>7, <3>2, <4>1, <4>2, <4>3 DEF CallerFits, SkillAt, NameOf, There
    <3>3. CASE d # c /\ NameOf(d) # n
      <4>1. caller'[d] = caller[d] /\ CallerFits(d) /\ NameOf(d) \in Skill
        BY <1>5, <3>3 DEF SkillsInv, NameOf, CallerRow
      <4>. QED
        BY <1>4, <2>5, <2>7, <3>3, <4>1 DEF CallerFits, SkillAt, NameOf, There, SetOn
    <3>. QED
      BY <3>1, <3>2, <3>3
  <2>. QED
    BY <1>4, <1>5, <2>5, <2>7, <2>9, <2>10 DEF SkillsInv
<1>. QED
  BY <1>7, <1>8

LEMMA LookAtSwitchedKeeps ==
  ASSUME SkillsInv, NEW c \in Caller, LookAtSwitched(c)
  PROVE  SkillsInv'
<1>1. PICK a \in CallerRow : a = caller[c]
  BY DEF SkillsInv
<1>2. a.at = "look" /\ SkillsRest
  BY <1>1 DEF LookAtSwitched, SkillAt, SkillsRest
<1>3. PICK w \in {"done", "get", "error"} : caller' = [caller EXCEPT ![c].at = w] /\ (w = "get" => ~There(a.name))
  <2>1. CASE There(a.name)
    BY <1>1, <2>1 DEF LookAtSwitched, SkillTo, NameOf
  <2>2. CASE ~There(a.name)
    BY <1>1, <2>2 DEF LookAtSwitched, SkillTo, NameOf
  <2>. QED
    BY <2>1, <2>2
<1>4. PICK y : y = [a EXCEPT !.at = w]
  OBVIOUS
<1>5. y \in CallerRow /\ y.at = w /\ y.kind = a.kind /\ y.name = a.name /\ a.name \in Skill
  BY <1>1, <1>4 DEF CallerRow, CallerPlace
<1>6. caller' = [caller EXCEPT ![c] = y]
  BY <1>1, <1>3, <1>4
<1>7. caller'[c] = y
  BY <1>5, <1>6, CallerMoves
<1>8. a.kind = "switch"
  BY <1>1, <1>2 DEF SkillsInv, CallerFits, SkillAt
<1>9. w = "get" => a.name \notin off
  BY <1>3, <1>5 DEF SkillsInv, SkillFits
<1>10. CallerFits(c)'
  BY <1>2, <1>5, <1>7, <1>8, <1>9 DEF CallerFits, SkillAt, SkillsRest, NameOf
<1>. QED
  BY <1>2, <1>5, <1>6, <1>10, CallerGoes

LEMMA DeleteSkillKeeps ==
  ASSUME SkillsInv, NEW c \in Caller, NEW n \in Skill, DeleteSkill(c, n)
  PROVE  SkillsInv'
<1>1. PICK w \in {"done", "error"} : w = IF There(n) THEN "done" ELSE "error"
  OBVIOUS
<1>2. PICK y : y = [Unasked EXCEPT !.at = w, !.kind = "delete", !.name = n]
  OBVIOUS
<1>3. y = [at |-> w, kind |-> "delete", name |-> n, on |-> TRUE, id |-> NoCaller, was |-> TRUE]
  BY <1>2 DEF Unasked
<1>4. y \in CallerRow
  BY <1>3 DEF CallerRow, CallerPlace, CallerKind, CallerOrNot
<1>5. caller' = [caller EXCEPT ![c] = y] /\ UNCHANGED <<during, wrote, anew>> /\ off' = off \ {n}
  BY <1>1, <1>2 DEF DeleteSkill, SwitchedOn
<1>6. caller' \in [Caller -> CallerRow] /\ caller'[c] = y /\ \A d \in Caller : d # c => caller'[d] = caller[d]
  BY <1>4, <1>5, CallerMoves
<1>7. NoSkill \in SkillRow /\ NoSkill.id = NoCaller
  BY DEF NoSkill, SkillRow, CallerOrNot
<1>8. skill' \in [Skill -> SkillRow] /\ skill'[n] = NoSkill /\ \A m \in Skill : m # n => skill'[m] = skill[m]
  BY <1>7 DEF DeleteSkill, SkillsInv
<1>9. ASSUME NEW m \in Skill PROVE SkillFits(m)'
  BY <1>5, <1>7, <1>8 DEF SkillsInv, SkillFits, There
<1>10. ASSUME NEW d \in Caller PROVE CallerFits(d)'
  <2>1. CASE d = c
    BY <1>3, <1>6, <2>1 DEF CallerFits, SkillAt
  <2>2. CASE d # c
    <3>1. caller'[d] = caller[d] /\ CallerFits(d) /\ NameOf(d) \in Skill
      BY <1>6, <2>2 DEF SkillsInv, NameOf, CallerRow
    <3>2. NameOf(d) = n \/ skill'[NameOf(d)] = skill[NameOf(d)]
      BY <1>8, <3>1
    <3>. QED
      BY <1>5, <1>7, <1>8, <3>1, <3>2 DEF CallerFits, SkillAt, NameOf, There, SetOn
  <2>. QED
    BY <2>1, <2>2
<1>. QED
  BY <1>5, <1>6, <1>8, <1>9, <1>10 DEF SkillsInv

LEMMA GetPromptKeeps ==
  ASSUME SkillsInv, NEW c \in Caller, NEW n \in Skill, GetPrompt(c, n)
  PROVE  SkillsInv'
<1>1. PICK w \in {"done", "error"} : w = IF Served(n) THEN "done" ELSE "error"
  OBVIOUS
<1>2. PICK m \in BOOLEAN : m = MayBeOn(n)
  BY DEF MayBeOn
<1>3. PICK y : y = [Unasked EXCEPT !.at = w, !.kind = "prompt", !.name = n, !.was = m]
  OBVIOUS
<1>4. y = [at |-> w, kind |-> "prompt", name |-> n, on |-> TRUE, id |-> NoCaller, was |-> m]
  BY <1>3 DEF Unasked
<1>5. y \in CallerRow
  BY <1>4 DEF CallerRow, CallerPlace, CallerKind, CallerOrNot
<1>6. caller' = [caller EXCEPT ![c] = y] /\ SkillsRest
  BY <1>1, <1>2, <1>3 DEF GetPrompt, SkillsRest
<1>7. caller'[c] = y
  BY <1>5, <1>6, CallerMoves
<1>8. w = "done" => m = TRUE
  BY <1>1, <1>2 DEF Served, MayBeOn, SkillsInv, SkillFits
<1>9. CallerFits(c)'
  BY <1>4, <1>7, <1>8 DEF CallerFits, SkillAt
<1>. QED
  BY <1>5, <1>6, <1>9, CallerGoes

LEMMA SkillsStart ==
  ASSUME SkillsInit
  PROVE  SkillsInv
<1>1. NoSkill \in SkillRow /\ NoSkill.id = NoCaller
  BY DEF NoSkill, SkillRow, CallerOrNot
<1>2. skill \in [Skill -> SkillRow] /\ \A n \in Skill : skill[n] = NoSkill
  BY <1>1 DEF SkillsInit
<1>3. Unasked \in CallerRow /\ Unasked.at = "idle"
  BY UnaskedFits DEF Unasked
<1>4. caller \in [Caller -> CallerRow] /\ \A c \in Caller : caller[c].at = "idle"
  BY <1>3 DEF SkillsInit
<1>5. off = {} /\ during \in [Skill -> SUBSET Caller] /\ wrote = {} /\ anew = {}
  BY DEF SkillsInit
<1>6. \A n \in Skill : SkillFits(n)
  BY <1>2, <1>5 DEF SkillFits
<1>7. \A c \in Caller : CallerFits(c)
  BY <1>4 DEF CallerFits, SkillAt
<1>. QED
  BY <1>2, <1>4, <1>5, <1>6, <1>7 DEF SkillsInv

LEMMA SkillsStep ==
  ASSUME SkillsInv, [SkillsNext]_skillVars
  PROVE  SkillsInv'
<1>1. ASSUME NEW c \in Caller,
             GetSkill(c) \/ UpdateSkill(c) \/ InsertSkill(c) \/ ReadSkillBack(c) \/ LookAtSwitched(c)
      PROVE  SkillsInv'
  BY <1>1, GetSkillKeeps, UpdateSkillKeeps, InsertSkillKeeps, ReadSkillBackKeeps,
     LookAtSwitchedKeeps
<1>2. ASSUME NEW c \in Caller, NEW n \in Skill, BeginWrite(c, n) \/ DeleteSkill(c, n) \/ GetPrompt(c, n)
      PROVE  SkillsInv'
  BY <1>2, BeginWriteKeeps, DeleteSkillKeeps, GetPromptKeeps
<1>3. ASSUME NEW c \in Caller, NEW n \in Skill, NEW on \in BOOLEAN, SwitchSkill(c, n, on)
      PROVE  SkillsInv'
  BY <1>3, SwitchSkillKeeps
<1>4. CASE UNCHANGED skillVars
  <2>1. UNCHANGED <<skill, caller, off, during, wrote, anew>>
    BY <1>4 DEF skillVars
  <2>2. \A n \in Skill : SkillFits(n)'
    BY <2>1 DEF SkillsInv, SkillFits, There
  <2>3. \A c \in Caller : CallerFits(c)'
    BY <2>1, CallerStill
  <2>. QED
    BY <2>1, <2>2, <2>3 DEF SkillsInv
<1>. QED
  BY <1>1, <1>2, <1>3, <1>4 DEF SkillsNext

LEMMA SkillsInvSafe ==
  ASSUME SkillsInv
  PROVE  SkillsSafe
<1>1. SkillsTypeOK
  BY DEF SkillsInv, SkillsTypeOK, SkillFits, SkillRow, CallerRow, CallerPlace, CallerKind,
     CallerOrNot
<1>2. OffIsOff /\ AckedWasWritten
  BY DEF SkillsInv, OffIsOff, AckedWasWritten, CallerFits
<1>. QED
  BY <1>1, <1>2 DEF SkillsSafe

-----------------------------------------------------------------------------
(* Design manifests *)

AuthorPlace == {"idle", "putout", "insert", "activate", "done"}
AuthorKind == {"create", "activate"}
AuthorOrNot == Author \cup {NoAuthor}
ManifestNumber == 0 .. MaxManifests
AuthorRow == [at : AuthorPlace, kind : AuthorKind, of : AuthorOrNot, activate : BOOLEAN, number : ManifestNumber]

\* A call knows which manifest it is about and, if it is to make one, its number.
AuthorFits(a) ==
  /\ author[a].at \in {"putout", "insert"} /\ author[a].kind = "create" => author[a].number > 0
  /\ author[a].at = "insert" => author[a].kind = "create"
  /\ author[a].at = "activate" => author[a].kind = "activate"
  /\ author[a].at \in {"putout", "activate"} => author[a].activate
  /\ author[a].at \in {"putout", "activate"} /\ author[a].kind = "activate" => author[a].of \in Author
  /\ a \in Manifests => author[a].at = "done"

\* Whoever took its number alone took one that is higher than every number there is, and stays so.
NumbersTaken ==
  \A a \in Numbering :
    /\ \A b \in Numbering : a # b => a \in crossed_numbers /\ b \in crossed_numbers
    /\ \A b \in Manifests : manifest[b] >= author[a].number => a \in crossed_numbers /\ b \in crossed_numbers

\* An activation that met no other is the only one, and nothing is active until it ends.
ActivatesAlone == \A a \in Activating : a \notin met => active = {} /\ \A b \in Activating : b = a

ManifestsInv ==
  /\ manifest \in [Author -> ManifestNumber] /\ active \subseteq Manifests /\ author \in [Author -> AuthorRow]
  /\ crossed_numbers \subseteq Author /\ met \subseteq Author /\ unsettled \in BOOLEAN /\ latest \in AuthorOrNot
  /\ \A a \in Author : AuthorFits(a)
  /\ NumbersTaken /\ NumbersDiffer
  /\ ActivatesAlone /\ LatestIsActive

ManifestsRest == UNCHANGED <<manifest, active, crossed_numbers, met, unsettled, latest>>

\* A call's row changes, and no other's.
LEMMA AuthorMoves ==
  ASSUME ManifestsInv, NEW a \in Author, NEW y \in AuthorRow, author' = [author EXCEPT ![a] = y]
  PROVE  author' \in [Author -> AuthorRow] /\ author'[a] = y /\ \A b \in Author : b # a => author'[b] = author[b]
  BY DEF ManifestsInv

LEMMA NumbersAreNatural ==
  ManifestNumber \subseteq Nat /\ 0 \in ManifestNumber /\ \A n \in Nat : n <= MaxManifests <=> n \in ManifestNumber
BY AuthorAssumption DEF ManifestNumber

LEMMA HighestManifest ==
  ASSUME ManifestsInv, NEW a \in Author
  PROVE  \E k \in ManifestNumber : /\ k = Max({manifest[b] : b \in Author})
                                   /\ \A b \in Author : manifest[b] <= k
<1>1. PICK S \in SUBSET Nat : S = {manifest[b] : b \in Author}
  BY NumbersAreNatural DEF ManifestsInv
<1>2. manifest[a] \in S /\ \A x \in S : x <= MaxManifests
  BY <1>1, NumbersAreNatural DEF ManifestsInv
<1>3. IsFiniteSet(S)
  BY <1>2, AuthorAssumption, FS_BoundedSetOfNaturals
<1>4. Max(S) \in S /\ \A y \in S : y <= Max(S)
  BY <1>2, <1>3, MaxIs
<1>5. Max(S) \in ManifestNumber
  BY <1>1, <1>4 DEF ManifestsInv
<1>. QED
  BY <1>1, <1>4, <1>5

LEMMA TakeNumberKeeps ==
  ASSUME ManifestsInv, NEW a \in Author, NEW on \in BOOLEAN, TakeNumber(a, on)
  PROVE  ManifestsInv'
<1>1. PICK k \in ManifestNumber : k = Max({manifest[b] : b \in Author}) /\ \A b \in Author : manifest[b] <= k
  BY HighestManifest
<1>2. PICK n : n = k + 1
  OBVIOUS
<1>3. TakeNumberBy(a, on, n)
  BY <1>1, <1>2 DEF TakeNumber
<1>4. n \in ManifestNumber /\ n > 0 /\ \A b \in Author : manifest[b] < n
  <2>1. n <= MaxManifests /\ k \in Nat /\ \A b \in Author : manifest[b] \in Nat
    BY <1>3, NumbersAreNatural DEF TakeNumberBy, ManifestsInv
  <2>2. n \in Nat /\ n > 0 /\ \A b \in Author : manifest[b] < n
    <3>1. n \in Nat /\ n > 0 /\ \A j \in Nat : j <= k => j < n
      BY <1>2, <2>1
    <3>2. ASSUME NEW b \in Author
          PROVE  manifest[b] \in Nat /\ manifest[b] <= k
      BY <1>1, <2>1
    <3>. QED
      BY <3>1, <3>2
  <2>3. n \in ManifestNumber
    BY <2>1, <2>2, NumbersAreNatural
  <2>. QED
    BY <2>2, <2>3
<1>5. PICK w \in {"putout", "insert"} : w = IF on THEN "putout" ELSE "insert"
  OBVIOUS
<1>6. PICK y : y = [at |-> w, kind |-> "create", of |-> a, activate |-> on, number |-> n]
  OBVIOUS
<1>7. y \in AuthorRow /\ y.at = w /\ y.kind = "create" /\ y.activate = on /\ y.number = n /\ (w = "insert" => ~on)
  BY <1>4, <1>5, <1>6 DEF AuthorRow, AuthorPlace, AuthorKind, AuthorOrNot
<1>8. author' = [author EXCEPT ![a] = y] /\ author[a].at = "idle" /\ UNCHANGED <<manifest, active, met, unsettled, latest>>
  BY <1>3, <1>5, <1>6 DEF TakeNumberBy, AuthorAt
<1>9. author' \in [Author -> AuthorRow] /\ author'[a] = y /\ \A b \in Author : b # a => author'[b] = author[b]
  BY <1>7, <1>8, AuthorMoves
<1>10. Manifests' = Manifests /\ a \notin Manifests /\ Activating' = Activating
  BY <1>7, <1>8, <1>9 DEF Manifests, ManifestsInv, AuthorFits, Activating
<1>11. Numbering' = Numbering \cup {a} /\ a \notin Numbering
  BY <1>7, <1>8, <1>9 DEF Numbering
<1>12. /\ crossed_numbers \subseteq crossed_numbers' /\ crossed_numbers' \subseteq Author
       /\ Numbering # {} => a \in crossed_numbers' /\ Numbering \subseteq crossed_numbers'
  BY <1>3 DEF TakeNumberBy, Numbering, ManifestsInv
<1>13. ASSUME NEW b \in Author PROVE AuthorFits(b)'
  <2>1. CASE b = a
    <3>1. y.of = a /\ y.at \in {"putout", "insert"} /\ (y.at = "putout" => y.activate)
      BY <1>5, <1>6, <1>7
    <3>. QED
      BY <1>4, <1>7, <1>9, <1>10, <2>1, <3>1 DEF AuthorFits
  <2>2. CASE b # a
    BY <1>9, <1>10, <2>2 DEF ManifestsInv, AuthorFits
  <2>. QED
    BY <2>1, <2>2
<1>14. NumbersTaken'
  <2>1. ASSUME NEW b \in Numbering, NEW c \in Manifests, manifest[c] >= author'[b].number
        PROVE  b \in crossed_numbers' /\ c \in crossed_numbers'
    <3>1. b # a /\ b \in Author
      BY <1>11 DEF Numbering
    <3>2. author'[b] = author[b]
      BY <1>9, <3>1
    <3>. QED
      BY <1>12, <2>1, <3>2 DEF ManifestsInv, NumbersTaken
  <2>2. ASSUME NEW b \in Numbering, NEW c \in Numbering, b # c
        PROVE  b \in crossed_numbers' /\ c \in crossed_numbers'
    BY <1>12, <2>2
  <2>3. ASSUME NEW b \in Numbering
        PROVE  b \in crossed_numbers' /\ a \in crossed_numbers'
    BY <1>12
  <2>4. \A c \in Manifests : ~(manifest[c] >= author'[a].number)
    BY <1>4, <1>7, <1>9 DEF Manifests, ManifestNumber, ManifestsInv
  <2>. QED
    BY <1>8, <1>10, <1>11, <2>1, <2>2, <2>3, <2>4 DEF NumbersTaken
<1>15. NumbersDiffer'
  BY <1>8, <1>10, <1>12 DEF ManifestsInv, NumbersDiffer
<1>16. ActivatesAlone' /\ LatestIsActive'
  BY <1>8, <1>10 DEF ManifestsInv, ActivatesAlone, LatestIsActive
<1>. QED
  BY <1>8, <1>9, <1>10, <1>12, <1>13, <1>14, <1>15, <1>16 DEF ManifestsInv

\* What is not about activating survives a step that leaves numbers and manifests alone.
LEMMA NumbersStay ==
  ASSUME ManifestsInv, UNCHANGED <<manifest, crossed_numbers>>, Numbering' \subseteq Numbering,
         \A a \in Numbering : author'[a].number = author[a].number
  PROVE  Manifests' = Manifests /\ NumbersTaken' /\ NumbersDiffer'
<1>1. Manifests' = Manifests
  BY DEF Manifests
<1>2. NumbersTaken'
  BY <1>1 DEF ManifestsInv, NumbersTaken
<1>3. NumbersDiffer'
  BY <1>1 DEF ManifestsInv, NumbersDiffer
<1>. QED
  BY <1>1, <1>2, <1>3

LEMMA PutOutKeeps ==
  ASSUME ManifestsInv, NEW a \in Author, PutOut(a)
  PROVE  ManifestsInv'
<1>1. PICK x \in AuthorRow : x = author[a]
  BY DEF ManifestsInv
<1>2. x.at = "putout" /\ AuthorFits(a) /\ UNCHANGED <<manifest, crossed_numbers, unsettled, latest>> /\ active' = {}
  BY <1>1 DEF PutOut, AuthorAt, ManifestsInv
<1>3. PICK w \in {"insert", "activate"} : w = IF x.kind = "create" THEN "insert" ELSE "activate"
  OBVIOUS
<1>4. PICK y : y = [x EXCEPT !.at = w]
  OBVIOUS
<1>5. y \in AuthorRow /\ y.at = w /\ y.kind = x.kind /\ y.of = x.of /\ y.activate = x.activate /\ y.number = x.number
  BY <1>1, <1>4 DEF AuthorRow, AuthorPlace
<1>6. author' = [author EXCEPT ![a] = y]
  BY <1>1, <1>3, <1>4 DEF PutOut, AuthorTo
<1>7. author' \in [Author -> AuthorRow] /\ author'[a] = y /\ \A b \in Author : b # a => author'[b] = author[b]
  BY <1>5, <1>6, AuthorMoves
<1>8. Numbering' \subseteq Numbering /\ \A b \in Numbering : author'[b].number = author[b].number
  <2>1. \A b \in Author : author'[b].kind = author[b].kind /\ author'[b].number = author[b].number
    BY <1>1, <1>5, <1>7
  <2>2. \A b \in Author : author'[b].at \in {"putout", "insert"} => author[b].at \in {"putout", "insert"}
    BY <1>1, <1>2, <1>7
  <2>. QED
    BY <2>1, <2>2 DEF Numbering
<1>9. Manifests' = Manifests /\ NumbersTaken' /\ NumbersDiffer'
  BY <1>2, <1>8, NumbersStay
<1>10. Activating' \subseteq Activating \cup {a} /\ Activating \subseteq Activating'
  BY <1>1, <1>2, <1>7 DEF Activating
<1>11. a \in Activating' /\ met \subseteq met' /\ met' \subseteq Author
       /\ (Activating # {} => Activating \cup {a} \subseteq met')
  BY <1>1, <1>2, <1>3, <1>5, <1>7 DEF Activating, AuthorFits, PutOut, ManifestsInv
<1>12. ActivatesAlone'
  <2>1. CASE Activating = {}
    BY <1>2, <1>10, <2>1 DEF ActivatesAlone
  <2>2. CASE Activating # {}
    BY <1>10, <1>11, <2>2 DEF ActivatesAlone
  <2>. QED
    BY <2>1, <2>2
<1>13. LatestIsActive'
  BY <1>11 DEF LatestIsActive
<1>14. \A b \in Author : AuthorFits(b)'
  <2>1. ASSUME NEW b \in Author PROVE AuthorFits(b)'
    <3>1. CASE b # a
      BY <1>7, <1>9, <3>1 DEF ManifestsInv, AuthorFits
    <3>2. CASE b = a
      <4>1. a \notin Manifests
        BY <1>1, <1>2 DEF AuthorFits
      <4>2. y.at = "insert" => y.kind = "create"
        BY <1>3, <1>5
      <4>3. y.at = "activate" => y.kind = "activate" /\ y.of \in Author
        BY <1>1, <1>2, <1>3, <1>5 DEF AuthorFits, AuthorRow, AuthorKind
      <4>4. y.activate /\ y.at # "putout" /\ (y.kind = "create" => y.number > 0)
        BY <1>1, <1>2, <1>3, <1>5 DEF AuthorFits
      <4>. QED
        BY <1>5, <1>7, <1>9, <3>2, <4>1, <4>2, <4>3, <4>4 DEF AuthorFits
    <3>. QED
      BY <3>1, <3>2
  <2>. QED
    BY <2>1
<1>. QED
  BY <1>2, <1>7, <1>9, <1>11, <1>12, <1>13, <1>14 DEF ManifestsInv

\* The second statement of an activation: what it activates is active, alone unless it met another.
LEMMA SettlesWell ==
  ASSUME ManifestsInv, NEW a \in Author, a \in Activating, Activating' = Activating \ {a}, UNCHANGED met,
         NEW b \in AuthorOrNot, active' = active \cup ({b} \ {NoAuthor}),
         b # NoAuthor => latest' = b /\ unsettled' = (a \in met),
         b = NoAuthor => latest' = latest /\ unsettled' = TRUE
  PROVE  ActivatesAlone' /\ LatestIsActive'
<1>1. CASE a \in met
  <2>1. unsettled' = TRUE
    BY <1>1
  <2>2. \A c \in Activating' : c \in met
    <3>1. ASSUME NEW c \in Activating', c \notin met PROVE FALSE
      <4>1. c \in Activating /\ c # a
        BY <3>1
      <4>. QED
        BY <3>1, <4>1 DEF ManifestsInv, ActivatesAlone
    <3>. QED
      BY <3>1
  <2>. QED
    BY <2>1, <2>2 DEF ActivatesAlone, LatestIsActive
<1>2. CASE a \notin met
  <2>1. active = {} /\ Activating' = {}
    BY <1>2 DEF ManifestsInv, ActivatesAlone
  <2>2. unsettled' = FALSE => active' = {b} \ {NoAuthor} /\ latest' = b
    BY <2>1
  <2>3. unsettled' = FALSE \/ unsettled' = TRUE
    BY <1>2
  <2>. QED
    BY <2>1, <2>2, <2>3 DEF ActivatesAlone, LatestIsActive
<1>. QED
  BY <1>1, <1>2

LEMMA InsertManifestKeeps ==
  ASSUME ManifestsInv, NEW a \in Author, InsertManifest(a)
  PROVE  ManifestsInv'
<1>1. PICK x \in AuthorRow : x = author[a]
  BY DEF ManifestsInv
<1>2. /\ x.at = "insert" /\ x.kind = "create" /\ x.number > 0 /\ x.number \in ManifestNumber
      /\ UNCHANGED <<crossed_numbers, met>>
  BY <1>1 DEF InsertManifest, AuthorAt, ManifestsInv, AuthorFits, AuthorRow
<1>3. PICK y : y = [x EXCEPT !.at = "done"]
  OBVIOUS
<1>4. y \in AuthorRow /\ y.at = "done" /\ y.kind = x.kind
  BY <1>1, <1>3 DEF AuthorRow, AuthorPlace
<1>5. author' = [author EXCEPT ![a] = y]
  BY <1>1, <1>3 DEF InsertManifest, AuthorTo
<1>6. author' \in [Author -> AuthorRow] /\ author'[a] = y /\ \A b \in Author : b # a => author'[b] = author[b]
  BY <1>4, <1>5, AuthorMoves
<1>7. PICK k \in ManifestNumber : k = x.number /\ k > 0
  BY <1>2
<1>8. /\ manifest' \in [Author -> ManifestNumber] /\ manifest'[a] = k
      /\ \A b \in Author : b # a => manifest'[b] = manifest[b]
  BY <1>1, <1>7 DEF InsertManifest, ManifestsInv
<1>9. Manifests' = Manifests \cup {a} /\ a \notin Manifests
  BY <1>1, <1>2, <1>7, <1>8 DEF Manifests, ManifestsInv, AuthorFits
<1>10. a \in Numbering /\ Numbering' = Numbering \ {a}
  BY <1>1, <1>2, <1>4, <1>6 DEF Numbering
<1>11. \A b \in Manifests : manifest[b] >= k => a \in crossed_numbers /\ b \in crossed_numbers
  BY <1>1, <1>7, <1>10 DEF ManifestsInv, NumbersTaken
<1>12. NumbersTaken'
  <2>1. ASSUME NEW b \in Numbering', NEW c \in Manifests', manifest'[c] >= author'[b].number
        PROVE  b \in crossed_numbers /\ c \in crossed_numbers
    <3>1. b \in Numbering /\ b # a /\ author'[b] = author[b]
      BY <1>6, <1>10 DEF Numbering
    <3>2. CASE c = a
      BY <1>10, <3>1, <3>2 DEF ManifestsInv, NumbersTaken
    <3>3. CASE c # a
      <4>1. c \in Manifests /\ manifest'[c] = manifest[c]
        BY <1>8, <1>9, <3>3 DEF Manifests
      <4>. QED
        BY <2>1, <3>1, <4>1 DEF ManifestsInv, NumbersTaken
    <3>. QED
      BY <3>2, <3>3
  <2>2. ASSUME NEW b \in Numbering', NEW c \in Numbering', b # c
        PROVE  b \in crossed_numbers /\ c \in crossed_numbers
    BY <1>10, <2>2 DEF ManifestsInv, NumbersTaken
  <2>. QED
    BY <1>2, <2>1, <2>2 DEF NumbersTaken
<1>13. NumbersDiffer'
  <2>1. ASSUME NEW b \in Manifests', NEW c \in Manifests', b # c, manifest'[b] = manifest'[c]
        PROVE  b \in crossed_numbers
    <3>1. b \in Author /\ c \in Author /\ (b # a => b \in Manifests) /\ (c # a => c \in Manifests)
      BY <1>9 DEF Manifests
    <3>0. k \in Nat
      BY NumbersAreNatural
    <3>2. CASE b = a
      <4>1. c \in Manifests /\ manifest[c] = k
        BY <1>8, <2>1, <3>1, <3>2
      <4>. QED
        BY <1>11, <3>0, <3>2, <4>1
    <3>3. CASE c = a
      <4>1. b \in Manifests /\ manifest[b] = k
        BY <1>8, <2>1, <3>1, <3>3
      <4>. QED
        BY <1>11, <3>0, <4>1
    <3>4. CASE b # a /\ c # a
      BY <1>8, <2>1, <3>1, <3>4 DEF ManifestsInv, NumbersDiffer
    <3>. QED
      BY <3>2, <3>3, <3>4
  <2>. QED
    BY <1>2, <2>1 DEF NumbersDiffer
<1>14. \A b \in Author : AuthorFits(b)'
  BY <1>4, <1>6, <1>9 DEF ManifestsInv, AuthorFits
<1>15. CASE x.activate
  <2>1. active' = active \cup {a} /\ latest' = a /\ unsettled' = (a \in met)
    BY <1>1, <1>15 DEF InsertManifest
  <2>2. a \in Activating /\ Activating' = Activating \ {a}
    BY <1>1, <1>2, <1>4, <1>6, <1>15 DEF Activating
  <2>3. a # NoAuthor /\ a \in AuthorOrNot
    BY AuthorAssumption DEF AuthorOrNot
  <2>4. {a} \ {NoAuthor} = {a}
    BY <2>3
  <2>5. ActivatesAlone' /\ LatestIsActive'
    BY <1>2, <2>1, <2>2, <2>3, <2>4, SettlesWell
  <2>6. active' \subseteq Manifests' /\ unsettled' \in BOOLEAN
    BY <1>9, <2>1 DEF ManifestsInv
  <2>. QED
    BY <1>2, <1>6, <1>8, <1>12, <1>13, <1>14, <2>1, <2>3, <2>5, <2>6 DEF ManifestsInv
<1>16. CASE ~x.activate
  <2>1. UNCHANGED <<active, latest, unsettled>>
    BY <1>1, <1>16 DEF InsertManifest
  <2>2. Activating' = Activating
    BY <1>1, <1>4, <1>6, <1>16 DEF Activating
  <2>3. ActivatesAlone' /\ LatestIsActive'
    BY <1>2, <2>1, <2>2 DEF ManifestsInv, ActivatesAlone, LatestIsActive
  <2>4. active' \subseteq Manifests'
    BY <1>9, <2>1 DEF ManifestsInv
  <2>. QED
    BY <1>2, <1>6, <1>8, <1>12, <1>13, <1>14, <2>1, <2>3, <2>4 DEF ManifestsInv
<1>. QED
  BY <1>15, <1>16

LEMMA BeginActivateKeeps ==
  ASSUME ManifestsInv, NEW a \in Author, NEW b \in Author, BeginActivate(a, b)
  PROVE  ManifestsInv'
<1>1. PICK y : y = [at |-> "putout", kind |-> "activate", of |-> b, activate |-> TRUE, number |-> 0]
  OBVIOUS
<1>2. y \in AuthorRow
  BY <1>1, AuthorAssumption DEF AuthorRow, AuthorPlace, AuthorKind, AuthorOrNot, ManifestNumber
<1>3. author' = [author EXCEPT ![a] = y] /\ author[a].at = "idle" /\ ManifestsRest
  BY <1>1 DEF BeginActivate, AuthorAt, ManifestsRest
<1>4. author' \in [Author -> AuthorRow] /\ author'[a] = y /\ \A c \in Author : c # a => author'[c] = author[c]
  BY <1>2, <1>3, AuthorMoves
<1>5. Numbering' = Numbering /\ a \notin Numbering /\ Activating' = Activating
  BY <1>1, <1>3, <1>4 DEF Numbering, Activating
<1>6. \A c \in Numbering : author'[c].number = author[c].number
  BY <1>4, <1>5 DEF Numbering
<1>7. Manifests' = Manifests /\ NumbersTaken' /\ NumbersDiffer'
  BY <1>3, <1>5, <1>6, NumbersStay DEF ManifestsRest
<1>8. \A c \in Author : AuthorFits(c)'
  BY <1>1, <1>3, <1>4, <1>7 DEF ManifestsInv, AuthorFits
<1>9. ActivatesAlone' /\ LatestIsActive'
  BY <1>3, <1>5 DEF ManifestsInv, ActivatesAlone, LatestIsActive, ManifestsRest
<1>. QED
  BY <1>3, <1>4, <1>7, <1>8, <1>9 DEF ManifestsInv, ManifestsRest

LEMMA ActivateKeeps ==
  ASSUME ManifestsInv, NEW a \in Author, Activate(a)
  PROVE  ManifestsInv'
<1>1. PICK x \in AuthorRow : x = author[a]
  BY DEF ManifestsInv
<1>2. /\ x.at = "activate" /\ x.kind = "activate" /\ x.activate /\ x.of \in Author
      /\ UNCHANGED <<manifest, crossed_numbers, met>>
  BY <1>1 DEF Activate, AuthorAt, ManifestsInv, AuthorFits
<1>3. PICK y : y = [x EXCEPT !.at = "done"]
  OBVIOUS
<1>4. y \in AuthorRow /\ y.at = "done" /\ y.kind = x.kind
  BY <1>1, <1>3 DEF AuthorRow, AuthorPlace
<1>5. author' = [author EXCEPT ![a] = y]
  BY <1>1, <1>3 DEF Activate, AuthorTo
<1>6. author' \in [Author -> AuthorRow] /\ author'[a] = y /\ \A b \in Author : b # a => author'[b] = author[b]
  BY <1>4, <1>5, AuthorMoves
<1>7. Numbering' = Numbering /\ a \notin Numbering /\ a \in Activating /\ Activating' = Activating \ {a}
  BY <1>1, <1>2, <1>4, <1>6 DEF Numbering, Activating
<1>8. \A c \in Numbering : author'[c].number = author[c].number
  BY <1>6, <1>7 DEF Numbering
<1>9. Manifests' = Manifests /\ NumbersTaken' /\ NumbersDiffer'
  BY <1>2, <1>7, <1>8, NumbersStay
<1>10. \A c \in Author : AuthorFits(c)'
  BY <1>4, <1>6, <1>9 DEF ManifestsInv, AuthorFits
<1>11. PICK b \in AuthorOrNot : b = IF x.of \in Manifests THEN x.of ELSE NoAuthor
  BY <1>2 DEF AuthorOrNot
<1>12. /\ b # NoAuthor => active' = active \cup {b} /\ latest' = b /\ unsettled' = (a \in met) /\ b \in Manifests
       /\ b = NoAuthor => active' = active /\ latest' = latest /\ unsettled' = TRUE
  <2>1. CASE x.of \in Manifests
    BY <1>1, <1>2, <1>11, <2>1, AuthorAssumption DEF Activate
  <2>2. CASE x.of \notin Manifests
    BY <1>1, <1>11, <2>2 DEF Activate
  <2>. QED
    BY <2>1, <2>2
<1>13. active' = active \cup ({b} \ {NoAuthor})
  BY <1>12
<1>14. ActivatesAlone' /\ LatestIsActive'
  BY <1>2, <1>7, <1>12, <1>13, SettlesWell
<1>15. active' \subseteq Manifests' /\ unsettled' \in BOOLEAN /\ latest' \in AuthorOrNot
  <2>1. active' \subseteq Manifests' /\ latest' \in AuthorOrNot
    BY <1>9, <1>12 DEF ManifestsInv
  <2>2. unsettled' \in BOOLEAN
    <3>1. CASE b = NoAuthor
      BY <1>12, <3>1
    <3>2. CASE b # NoAuthor
      <4>1. unsettled' = (a \in met)
        BY <1>12, <3>2
      <4>2. CASE a \in met
        BY <4>1, <4>2
      <4>3. CASE a \notin met
        BY <4>1, <4>3
      <4>. QED
        BY <4>2, <4>3
    <3>. QED
      BY <3>1, <3>2
  <2>. QED
    BY <2>1, <2>2
<1>. QED
  BY <1>2, <1>6, <1>9, <1>10, <1>14, <1>15 DEF ManifestsInv

LEMMA DeleteManifestKeeps ==
  ASSUME ManifestsInv, NEW b \in Author, DeleteManifest(b)
  PROVE  ManifestsInv'
<1>1. b \in Manifests /\ active' = active \ {b} /\ UNCHANGED <<author, crossed_numbers, met, unsettled>>
      /\ latest' = IF latest = b THEN NoAuthor ELSE latest
  BY DEF DeleteManifest
<1>2. /\ manifest' \in [Author -> ManifestNumber] /\ manifest'[b] = 0
      /\ \A c \in Author : c # b => manifest'[c] = manifest[c]
  BY AuthorAssumption DEF DeleteManifest, ManifestsInv, ManifestNumber
<1>3. Manifests' = Manifests \ {b}
  BY <1>2 DEF Manifests
<1>4. Numbering' = Numbering /\ Activating' = Activating
  BY <1>1 DEF Numbering, Activating
<1>5. \A c \in Manifests' : manifest'[c] = manifest[c] /\ c \in Manifests
  BY <1>2, <1>3 DEF Manifests
<1>6. NumbersTaken' /\ NumbersDiffer'
  BY <1>1, <1>4, <1>5 DEF ManifestsInv, NumbersTaken, NumbersDiffer
<1>7. latest' \in AuthorOrNot
  BY <1>1 DEF ManifestsInv, AuthorOrNot
<1>8. active' \subseteq Manifests'
  BY <1>1, <1>3 DEF ManifestsInv
<1>9. ActivatesAlone'
  BY <1>1, <1>4 DEF ManifestsInv, ActivatesAlone
<1>10. LatestIsActive'
  <2>1. ASSUME active = {latest} \ {NoAuthor} PROVE active' = {latest'} \ {NoAuthor}
    BY <1>1, <2>1
  <2>. QED
    BY <1>1, <1>4, <2>1 DEF ManifestsInv, LatestIsActive
<1>11. \A c \in Author : AuthorFits(c)'
  BY <1>1, <1>3 DEF ManifestsInv, AuthorFits
<1>. QED
  BY <1>1, <1>2, <1>6, <1>7, <1>8, <1>9, <1>10, <1>11 DEF ManifestsInv

LEMMA ManifestsCrashKeeps ==
  ASSUME ManifestsInv, ManifestsCrash
  PROVE  ManifestsInv'
<1>1. UNCHANGED <<manifest, active, crossed_numbers, met, latest>> /\ unsettled' = (unsettled \/ Activating # {})
  BY DEF ManifestsCrash
<1>2. ASSUME NEW a \in Author
      PROVE  author'[a] \in AuthorRow /\ author'[a].at \in {"idle", "done"} /\ (author[a].at = "done" => author'[a].at = "done")
  <2>1. PICK x \in AuthorRow : x = author[a]
    BY DEF ManifestsInv
  <2>2. PICK y : y = [x EXCEPT !.at = "done"]
    OBVIOUS
  <2>3. y \in AuthorRow /\ y.at = "done"
    BY <2>1, <2>2 DEF AuthorRow, AuthorPlace
  <2>4. author'[a] = IF x.at = "idle" THEN x ELSE y
    BY <2>1, <2>2 DEF ManifestsCrash, AuthorAt
  <2>. QED
    BY <2>1, <2>3, <2>4
<1>3. author' \in [Author -> AuthorRow]
  BY <1>2 DEF ManifestsCrash
<1>4. Numbering' = {} /\ Activating' = {}
  BY <1>2 DEF Numbering, Activating
<1>5. Manifests' = Manifests /\ NumbersTaken' /\ NumbersDiffer'
  <2>1. Manifests' = Manifests
    BY <1>1 DEF Manifests
  <2>. QED
    BY <1>1, <1>4, <2>1 DEF ManifestsInv, NumbersTaken, NumbersDiffer
<1>6. \A a \in Author : AuthorFits(a)'
  <2>1. \A a \in Author : a \in Manifests => author[a].at = "done"
    BY DEF ManifestsInv, AuthorFits
  <2>. QED
    BY <1>2, <1>5, <2>1 DEF AuthorFits
<1>7. ActivatesAlone'
  BY <1>4 DEF ActivatesAlone
<1>8. LatestIsActive' /\ unsettled' \in BOOLEAN
  BY <1>1 DEF ManifestsInv, LatestIsActive
<1>. QED
  BY <1>1, <1>3, <1>5, <1>6, <1>7, <1>8 DEF ManifestsInv

LEMMA ManifestsStart ==
  ASSUME ManifestsInit
  PROVE  ManifestsInv
<1>1. NotAuthor \in AuthorRow /\ NotAuthor.at = "idle" /\ NotAuthor.kind = "create"
  BY AuthorAssumption DEF NotAuthor, AuthorRow, AuthorPlace, AuthorKind, AuthorOrNot, ManifestNumber
<1>2. /\ manifest \in [Author -> ManifestNumber] /\ \A a \in Author : manifest[a] = 0
      /\ author \in [Author -> AuthorRow] /\ \A a \in Author : author[a] = NotAuthor
  BY <1>1, AuthorAssumption DEF ManifestsInit, ManifestNumber
<1>3. Manifests = {} /\ Numbering = {} /\ Activating = {}
  BY <1>1, <1>2 DEF Manifests, Numbering, Activating
<1>4. \A a \in Author : AuthorFits(a)
  BY <1>1, <1>2, <1>3 DEF AuthorFits
<1>5. LatestIsActive
  BY DEF ManifestsInit, LatestIsActive
<1>. QED
  BY <1>2, <1>3, <1>4, <1>5 DEF ManifestsInit, ManifestsInv, NumbersTaken, NumbersDiffer,
     ActivatesAlone, AuthorOrNot

LEMMA ManifestsStep ==
  ASSUME ManifestsInv, [ManifestsNext]_manifestVars
  PROVE  ManifestsInv'
<1>1. ASSUME NEW a \in Author, NEW on \in BOOLEAN, TakeNumber(a, on) PROVE ManifestsInv'
  BY <1>1, TakeNumberKeeps
<1>2. ASSUME NEW a \in Author, PutOut(a) \/ InsertManifest(a) \/ Activate(a) PROVE ManifestsInv'
  BY <1>2, PutOutKeeps, InsertManifestKeeps, ActivateKeeps
<1>3. ASSUME NEW a \in Author, NEW b \in Author, BeginActivate(a, b) PROVE ManifestsInv'
  BY <1>3, BeginActivateKeeps
<1>4. ASSUME NEW b \in Author, DeleteManifest(b) PROVE ManifestsInv'
  BY <1>4, DeleteManifestKeeps
<1>5. CASE ManifestsCrash
  BY <1>5, ManifestsCrashKeeps
<1>6. CASE UNCHANGED manifestVars
  <2>1. UNCHANGED <<manifest, active, author, crossed_numbers, met, unsettled, latest>>
    BY <1>6 DEF manifestVars
  <2>2. Manifests' = Manifests /\ Numbering' = Numbering /\ Activating' = Activating
    BY <2>1 DEF Manifests, Numbering, Activating
  <2>3. \A a \in Author : AuthorFits(a)'
    BY <2>1, <2>2 DEF ManifestsInv, AuthorFits
  <2>4. NumbersTaken' /\ NumbersDiffer'
    BY <2>1, <2>2 DEF ManifestsInv, NumbersTaken, NumbersDiffer
  <2>5. ActivatesAlone' /\ LatestIsActive'
    BY <2>1, <2>2 DEF ManifestsInv, ActivatesAlone, LatestIsActive
  <2>. QED
    BY <2>1, <2>2, <2>3, <2>4, <2>5 DEF ManifestsInv
<1>. QED
  BY <1>1, <1>2, <1>3, <1>4, <1>5, <1>6 DEF ManifestsNext

LEMMA ManifestsInvSafe ==
  ASSUME ManifestsInv
  PROVE  ManifestsSafe
<1>1. ManifestsTypeOK
  BY DEF ManifestsInv, ManifestsTypeOK, AuthorRow, AuthorPlace, AuthorKind, AuthorOrNot,
     ManifestNumber
<1>. QED
  BY <1>1 DEF ManifestsInv, ManifestsSafe

-----------------------------------------------------------------------------
(* Support tickets *)

VisitorPlace == {"idle", "max", "insert", "message", "status", "set", "done", "error"}
VisitorKind == {"create", "user", "admin", "note", "set"}
StatusOrNone == Status \cup {"none"}
TicketOrNot == Visitor \cup {NoVisitor}
VisitorRow == [at : VisitorPlace, kind : VisitorKind, of : TicketOrNot, status : StatusOrNone, number : Nat]
TicketRow == [number : Nat, status : Status, closed : BOOLEAN]
PlacedRow == [message : Nat, status : Nat]

\* A call that replies or updates has found its ticket; one that opens a ticket is about it once
\* it has a number, and stays with it.
VisitorFits(x, v) ==
  /\ x.at = "idle" => x = NotVisitor
  /\ x.kind # "create" => x.of \in Tickets
  /\ x.kind = "create" /\ x.of # NoVisitor => x.of = v /\ v \in Tickets
  /\ x.kind = "create" => x.at \notin {"status", "set"} /\ (x.at = "message" => x.of = v)
  /\ x.at \in {"max", "insert"} => x.kind = "create" /\ x.of = NoVisitor
  /\ x.at = "insert" => x.number > 0
  /\ x.kind = "user" => x.status = "none"
  /\ x.at = "set" => x.status # "none"
  /\ v \in Tickets => x.kind = "create" /\ x.of = v /\ x.at \in {"message", "done", "error"}

\* The open tickets whose status nobody has set since they were opened.
Fresh == {t \in Unclosed : \A w \in Visitor : visitor[w].of = t => placed[w].status = 0}

\* A call that counted alone is the only one that opens a ticket, and there is room for it.
RoomForOne ==
  /\ Cardinality(Fresh \ counted) <= OpenTickets
  /\ \A v \in Opening \ counted : Cardinality(Fresh \ counted) < OpenTickets /\ Opening = {v}

TicketNumbersDiffer == \A t, u \in Visitor : ticket[t].number = ticket[u].number => t = u \/ ticket[t].number = 0
Dated == \A t \in Visitor : (ticket[t].closed <=> ticket[t].status = "closed") /\ (t \in Tickets \/ ticket[t] = NoTicket)

DeskTyped ==
  /\ ticket \in [Visitor -> TicketRow] /\ thread \in [Visitor -> SUBSET Visitor]
  /\ visitor \in [Visitor -> VisitorRow] /\ placed \in [Visitor -> PlacedRow]
  /\ counted \subseteq Visitor /\ torn \subseteq Visitor

DeskInv ==
  /\ DeskTyped /\ TicketNumbersDiffer /\ Dated /\ RoomForOne /\ ReplyReopens /\ TicketHasItsMessage
  /\ \A v \in Visitor : VisitorFits(visitor[v], v)

LEMMA NotVisitorIsRow == NotVisitor \in VisitorRow /\ NotVisitor.at = "idle" /\ NotVisitor.kind = "create"
                         /\ NotVisitor.of = NoVisitor /\ NotVisitor.status = "none" /\ NotVisitor.number = 0
BY DEF NotVisitor, VisitorRow, VisitorPlace, VisitorKind, StatusOrNone, TicketOrNot

LEMMA NoTicketIsRow == NoTicket \in TicketRow /\ NoTicket.number = 0 /\ NoTicket.status = "open" /\ ~NoTicket.closed
BY DEF NoTicket, TicketRow, Status

LEMMA DeskStart ==
  ASSUME DeskInit
  PROVE  DeskInv
<1>1. \A v \in Visitor : ticket[v] = NoTicket /\ visitor[v] = NotVisitor
  BY DEF DeskInit
<1>2. DeskTyped
  <2>1. [message |-> 0, status |-> 0] \in PlacedRow
    BY DEF PlacedRow
  <2>. QED
    BY <2>1, NotVisitorIsRow, NoTicketIsRow DEF DeskInit, DeskTyped
<1>3. Tickets = {}
  BY <1>1, NoTicketIsRow DEF Tickets
<1>4. Unclosed = {} /\ Fresh = {}
  BY <1>3 DEF Unclosed, Fresh
<1>5. Opening = {}
  BY <1>1, NotVisitorIsRow DEF Opening
<1>6. RoomForOne
  <2>1. Cardinality(Fresh \ counted) = 0
    BY <1>4, FS_EmptySet
  <2>. QED
    BY <1>5, <2>1, DeskAssumption DEF RoomForOne
<1>7. TicketNumbersDiffer /\ Dated
  BY <1>1, NoTicketIsRow DEF TicketNumbersDiffer, Dated
<1>8. ReplyReopens
  BY <1>1, NotVisitorIsRow DEF ReplyReopens, DeskAt
<1>9. TicketHasItsMessage
  BY <1>3 DEF TicketHasItsMessage
<1>10. \A v \in Visitor : VisitorFits(visitor[v], v)
  <2>1. \A v \in Visitor : VisitorFits(NotVisitor, v)
    BY <1>3, NotVisitorIsRow DEF VisitorFits
  <2>. QED
    BY <1>1, <2>1
<1>. QED
  BY <1>2, <1>6, <1>7, <1>8, <1>9, <1>10 DEF DeskInv

\* A message or a status is stored later than everything that was stored before.
LEMMA ClockIsLater ==
  ASSUME placed \in [Visitor -> PlacedRow], NEW v \in Visitor
  PROVE  /\ Clock \in Nat /\ Clock > 0
         /\ \A w \in Visitor : placed[w].message < Clock /\ placed[w].status < Clock
<1>. DEFINE m == [w \in Visitor |-> placed[w].message]
            s == [w \in Visitor |-> placed[w].status]
            S == {placed[w].message : w \in Visitor} \cup {placed[w].status : w \in Visitor}
<1>1. \A w \in Visitor : placed[w].message \in Nat /\ placed[w].status \in Nat
  BY DEF PlacedRow
<1>2. IsFiniteSet({m[w] : w \in Visitor}) /\ IsFiniteSet({s[w] : w \in Visitor})
  <2>1. m \in [Visitor -> Nat] /\ s \in [Visitor -> Nat]
    BY <1>1
  <2>. HIDE DEF m, s
  <2>2. \A f \in [Visitor -> Nat] : IsFiniteSet({f[w] : w \in Visitor})
    BY DeskAssumption, ImageIsFinite
  <2>. QED
    BY <2>1, <2>2
<1>3. {m[w] : w \in Visitor} = {placed[w].message : w \in Visitor}
      /\ {s[w] : w \in Visitor} = {placed[w].status : w \in Visitor}
  OBVIOUS
<1>4. IsFiniteSet(S)
  BY <1>2, <1>3, FS_Union
<1>5. S \in SUBSET Nat /\ placed[v].message \in S
  BY <1>1
<1>6. Max(S) \in S /\ \A y \in S : y <= Max(S)
  BY <1>4, <1>5, MaxIs
<1>7. Max(S) \in Nat /\ \A w \in Visitor : placed[w].message <= Max(S) /\ placed[w].status <= Max(S)
  BY <1>5, <1>6
<1>8. Clock = Max(S) + 1
  BY DEF Clock
<1>. HIDE DEF S
<1>. QED
  BY <1>1, <1>7, <1>8

\* A call moves, and may store a message or set the status of the ticket it is about: a reply keeps
\* its effect until a status is set later, and a ticket that nobody has touched is an earlier one.
LEMMA CallMoves ==
  ASSUME DeskInv, NEW w \in Visitor, NEW y \in VisitorRow, NEW p \in PlacedRow,
         visitor' = [visitor EXCEPT ![w] = y], placed' = [placed EXCEPT ![w] = p], p.status >= placed[w].status,
         visitor[w].at # "done",
         y.of = visitor[w].of \/ visitor[w].of = NoVisitor,
         \A t \in Visitor : t # w => ticket'[t].number = ticket[t].number,
         ticket'[w].number = ticket[w].number \/ ticket[w].number = 0,
         \A t \in Visitor : ticket'[t].status = ticket[t].status
                            \/ (y.of = t /\ p.status > 0 /\ \A u \in Visitor \ {w} : p.status > placed[u].message),
         y.kind = "user" /\ y.at = "done" => ticket'[y.of].status = "open"
  PROVE  Fresh' \subseteq Fresh \cup (Tickets' \ Tickets) /\ ReplyReopens'
<1>1. DeskTyped /\ \A v \in Visitor : VisitorFits(visitor[v], v)
  BY DEF DeskInv
<1>2. \A v \in Visitor : visitor'[v] = IF v = w THEN y ELSE visitor[v]
  BY <1>1 DEF DeskTyped
<1>3. \A v \in Visitor : placed'[v] = IF v = w THEN p ELSE placed[v]
  BY <1>1 DEF DeskTyped
<1>4. \A v \in Visitor : placed[v].message \in Nat /\ placed[v].status \in Nat
  BY <1>1 DEF DeskTyped, PlacedRow
<1>5. p.status \in Nat
  BY DEF PlacedRow
<1>6. \A v \in Visitor : placed'[v].status >= placed[v].status /\ placed'[v].status \in Nat
  BY <1>3, <1>4, <1>5
<1>7. ASSUME NEW t \in Fresh', t \in Tickets PROVE t \in Fresh
  <2>1. t \in Visitor /\ ticket'[t].status # "closed" /\ \A v \in Visitor : visitor'[v].of = t => placed'[v].status = 0
    BY <1>7 DEF Fresh, Unclosed, Tickets
  <2>2. ticket'[t].status = ticket[t].status
    <3>1. y.of = t => p.status = 0
      BY <1>2, <1>3, <2>1
    <3>. QED
      BY <1>5, <2>1, <3>1
  <2>3. ASSUME NEW v \in Visitor, visitor[v].of = t PROVE placed[v].status = 0
    <3>1. visitor'[v].of = t
      BY <1>2, <2>1, <2>3, DeskAssumption
    <3>2. placed'[v].status = 0
      BY <2>1, <3>1
    <3>. QED
      BY <1>4, <1>6, <3>2
  <2>. QED
    BY <1>7, <2>1, <2>2, <2>3 DEF Fresh, Unclosed
<1>8. Fresh' \subseteq Fresh \cup (Tickets' \ Tickets)
  BY <1>7 DEF Fresh, Unclosed
<1>9. ASSUME NEW v \in Visitor, visitor'[v].kind = "user", visitor'[v].at = "done"
      PROVE  \/ ticket'[visitor'[v].of].status = "open"
             \/ \E u \in Visitor \ {v} : visitor'[u].of = visitor'[v].of /\ placed'[u].status > placed'[v].message
  <2>1. CASE v = w
    BY <1>2, <1>9, <2>1
  <2>2. CASE v # w
    <3>1. visitor'[v] = visitor[v] /\ placed'[v] = placed[v]
      BY <1>2, <1>3, <2>2
    <3>2. visitor[v].of \in Visitor
      BY <1>1, <1>9, <3>1 DEF VisitorFits, Tickets
    <3>3. CASE \E u \in Visitor \ {v} : visitor[u].of = visitor[v].of /\ placed[u].status > placed[v].message
      <4>1. PICK u \in Visitor \ {v} : visitor[u].of = visitor[v].of /\ placed[u].status > placed[v].message
        BY <3>3
      <4>2. visitor'[u].of = visitor[v].of
        BY <1>2, <3>2, <4>1, DeskAssumption
      <4>3. placed'[u].status > placed[v].message
        BY <1>4, <1>6, <4>1
      <4>. QED
        BY <3>1, <4>1, <4>2, <4>3
    <3>4. CASE ticket[visitor[v].of].status = "open"
      <4>1. CASE ticket'[visitor[v].of].status = ticket[visitor[v].of].status
        BY <3>1, <3>4, <4>1
      <4>2. CASE y.of = visitor[v].of /\ \A u \in Visitor \ {w} : p.status > placed[u].message
        BY <1>2, <1>3, <2>2, <3>1, <4>2
      <4>. QED
        BY <3>2, <4>1, <4>2
    <3>5. visitor[v].kind = "user" /\ visitor[v].at = "done"
      BY <1>9, <3>1
    <3>. QED
      BY <3>3, <3>4, <3>5 DEF DeskInv, ReplyReopens, DeskAt
  <2>. QED
    BY <2>1, <2>2
<1>10. ReplyReopens'
  BY <1>9 DEF ReplyReopens, DeskAt
<1>. QED
  BY <1>8, <1>10

\* Nobody else begins to open a ticket, and no other ticket comes: there is room as before.
LEMMA RoomStays ==
  ASSUME DeskInv, Fresh' \subseteq Fresh, counted \subseteq counted', Opening' \subseteq Opening
  PROVE  RoomForOne'
<1>1. PICK X : X = Fresh \ counted
  OBVIOUS
<1>2. PICK Y : Y = (Fresh \ counted)'
  OBVIOUS
<1>3. Y \subseteq X /\ X \subseteq Visitor
  BY <1>1, <1>2 DEF Fresh, Unclosed, Tickets
<1>4. IsFiniteSet(X)
  BY <1>3, DeskAssumption, FS_Subset
<1>5. Cardinality(Y) <= Cardinality(X) /\ IsFiniteSet(Y)
  BY <1>3, <1>4, FS_Subset
<1>6. Cardinality(Y) \in Nat /\ Cardinality(X) \in Nat /\ OpenTickets \in Nat
  BY <1>4, <1>5, FS_CardinalityType, DeskAssumption
<1>7. RoomForOne
  BY DEF DeskInv
<1>8. Cardinality(Y) <= OpenTickets
  <2>1. Cardinality(X) <= OpenTickets
    BY <1>1, <1>7 DEF RoomForOne
  <2>. QED
    BY <1>5, <1>6, <2>1
<1>9. ASSUME NEW v \in Opening' \ counted' PROVE Cardinality(Y) < OpenTickets /\ Opening' = {v}
  <2>1. v \in Opening \ counted
    BY <1>9
  <2>2. Cardinality(X) < OpenTickets /\ Opening = {v}
    BY <1>1, <1>7, <2>1 DEF RoomForOne
  <2>3. Opening' = {v}
    BY <1>9, <2>2
  <2>. QED
    BY <1>5, <1>6, <2>2, <2>3
<1>. QED
  BY <1>2, <1>8, <1>9 DEF RoomForOne

LEMMA VisitorsStill ==
  ASSUME DeskInv, NEW w \in Visitor, NEW y \in VisitorRow, visitor' = [visitor EXCEPT ![w] = y],
         Tickets \subseteq Tickets', Tickets' \subseteq Tickets \cup {w}, VisitorFits(y, w)'
  PROVE  visitor' \in [Visitor -> VisitorRow] /\ \A v \in Visitor : VisitorFits(visitor[v], v)'
<1>1. visitor \in [Visitor -> VisitorRow] /\ \A v \in Visitor : VisitorFits(visitor[v], v)
  BY DEF DeskInv, DeskTyped
<1>2. visitor' \in [Visitor -> VisitorRow] /\ \A v \in Visitor : visitor'[v] = IF v = w THEN y ELSE visitor[v]
  BY <1>1
<1>3. ASSUME NEW v \in Visitor PROVE VisitorFits(visitor[v], v)'
  <2>1. CASE v = w
    BY <1>2, <2>1 DEF VisitorFits
  <2>2. CASE v # w
    <3>1. PICK x : x = visitor[v]
      OBVIOUS
    <3>2. x \in VisitorRow /\ VisitorFits(x, v) /\ visitor'[v] = x
      BY <1>1, <1>2, <2>2, <3>1
    <3>3. VisitorFits(x, v)'
      BY <2>2, <3>2 DEF VisitorFits
    <3>. QED
      BY <3>2, <3>3 DEF VisitorFits
  <2>. QED
    BY <2>1, <2>2
<1>. QED
  BY <1>2, <1>3

LEMMA SameTickets ==
  ASSUME UNCHANGED ticket
  PROVE  /\ Tickets' = Tickets
         /\ TicketNumbersDiffer => TicketNumbersDiffer'
         /\ Dated => Dated'
BY DEF Tickets, TicketNumbersDiffer, Dated

\* A step of a call that leaves the tickets alone and does not begin to open one.
LEMMA CallPasses ==
  ASSUME DeskInv, NEW w \in Visitor, NEW y \in VisitorRow, NEW p \in PlacedRow,
         visitor' = [visitor EXCEPT ![w] = y], placed' = [placed EXCEPT ![w] = p], p.status = placed[w].status,
         visitor[w].at # "done", y.of = visitor[w].of \/ visitor[w].of = NoVisitor, VisitorFits(y, w),
         y.kind = "user" => y.at # "done",
         y.kind = "create" /\ y.at \in {"max", "insert"} => w \in Opening,
         UNCHANGED <<ticket, counted, torn>>,
         thread' \in [Visitor -> SUBSET Visitor], \A v \in Visitor : thread[v] \subseteq thread'[v],
         w \in Tickets => w \in thread'[w] \/ y.at = "message"
  PROVE  DeskInv'
<1>1. visitor \in [Visitor -> VisitorRow] /\ placed \in [Visitor -> PlacedRow]
  BY DEF DeskInv, DeskTyped
<1>2. Tickets' = Tickets /\ TicketNumbersDiffer' /\ Dated'
  BY SameTickets DEF DeskInv
<1>3. VisitorFits(y, w)'
  BY <1>2 DEF VisitorFits
<1>4. visitor' \in [Visitor -> VisitorRow] /\ \A v \in Visitor : VisitorFits(visitor[v], v)'
  BY <1>2, <1>3, VisitorsStill
<1>5. p.status >= placed[w].status
  BY DEF PlacedRow
<1>6. Fresh' \subseteq Fresh \cup (Tickets' \ Tickets) /\ ReplyReopens'
  BY <1>5, CallMoves
<1>7. \A v \in Visitor : visitor'[v] = IF v = w THEN y ELSE visitor[v]
  BY <1>1
<1>8. Opening' \subseteq Opening
  BY <1>7 DEF Opening
<1>9. RoomForOne'
  BY <1>2, <1>6, <1>8, RoomStays
<1>10. TicketHasItsMessage'
  BY <1>2, <1>7 DEF DeskInv, TicketHasItsMessage, DeskAt, Tickets
<1>11. DeskTyped'
  BY <1>1, <1>4 DEF DeskInv, DeskTyped
<1>. QED
  BY <1>2, <1>4, <1>6, <1>9, <1>10, <1>11 DEF DeskInv

LEMMA PlacedAsBefore ==
  ASSUME placed \in [Visitor -> PlacedRow], UNCHANGED placed, NEW w \in Visitor
  PROVE  placed[w] \in PlacedRow /\ placed' = [placed EXCEPT ![w] = placed[w]]
OBVIOUS

LEMMA CountOpenKeeps ==
  ASSUME DeskInv, NEW v \in Visitor, CountOpen(v)
  PROVE  DeskInv'
<1>1. visitor[v].at = "idle" /\ visitor[v] = NotVisitor /\ v \notin Tickets
  BY NotVisitorIsRow DEF DeskInv, VisitorFits, CountOpen, Arrive, DeskAt
<1>2. DeskTyped
  BY DEF DeskInv
<1>3. PICK full \in BOOLEAN : full <=> (Cardinality(Unclosed) >= OpenTickets)
  OBVIOUS
<1>4. PICK y : y = [NotVisitor EXCEPT !.at = IF full THEN "error" ELSE "max"]
  OBVIOUS
<1>5. visitor' = [visitor EXCEPT ![v] = y] /\ UNCHANGED <<ticket, thread, placed, torn>>
  BY <1>3, <1>4 DEF CountOpen, Arrive
<1>6. y \in VisitorRow /\ y.at = (IF full THEN "error" ELSE "max") /\ y.kind = "create" /\ y.of = NoVisitor
      /\ y.status = "none"
  BY <1>4, NotVisitorIsRow DEF VisitorRow, VisitorPlace
<1>7. VisitorFits(y, v)
  BY <1>1, <1>6 DEF VisitorFits
<1>8. Tickets' = Tickets /\ TicketNumbersDiffer' /\ Dated'
  BY <1>5, SameTickets DEF DeskInv
<1>9. VisitorFits(y, v)'
  BY <1>7, <1>8 DEF VisitorFits
<1>10. visitor' \in [Visitor -> VisitorRow] /\ \A u \in Visitor : VisitorFits(visitor[u], u)'
  BY <1>5, <1>6, <1>8, <1>9, VisitorsStill
<1>11. PICK p : p = placed[v]
  OBVIOUS
<1>12. p \in PlacedRow /\ placed' = [placed EXCEPT ![v] = p] /\ p.status >= placed[v].status
  BY <1>2, <1>5, <1>11 DEF DeskTyped, PlacedRow
<1>13. Fresh' \subseteq Fresh \cup (Tickets' \ Tickets) /\ ReplyReopens'
  BY <1>1, <1>5, <1>6, <1>12, NotVisitorIsRow, CallMoves
<1>14. \A u \in Visitor : visitor'[u] = IF u = v THEN y ELSE visitor[u]
  BY <1>2, <1>5 DEF DeskTyped
<1>15. TicketHasItsMessage'
  BY <1>1, <1>5, <1>8, <1>14 DEF DeskInv, TicketHasItsMessage, DeskAt
<1>16. counted \subseteq counted' /\ counted' \subseteq Visitor
  BY <1>2 DEF CountOpen, DeskTyped, Opening
<1>17. DeskTyped'
  BY <1>2, <1>5, <1>10, <1>16 DEF DeskTyped
<1>18. RoomForOne'
  <2>1. CASE full
    <3>1. Opening' \subseteq Opening
      BY <1>6, <1>14, <2>1 DEF Opening
    <3>. QED
      BY <1>8, <1>13, <1>16, <3>1, RoomStays
  <2>2. CASE ~full /\ Opening # {}
    <3>1. counted' = counted \cup {v} \cup Opening /\ Opening' \subseteq Opening \cup {v}
      BY <1>14, <2>2 DEF CountOpen, Opening
    <3>2. Opening' \ counted' = {}
      BY <3>1
    <3>3. IsFiniteSet(Fresh \ counted)
      BY DeskAssumption, FS_Subset DEF Fresh, Unclosed, Tickets
    <3>4. (Fresh \ counted)' \subseteq Fresh \ counted
      BY <1>8, <1>13, <1>16
    <3>5. Cardinality((Fresh \ counted)') <= Cardinality(Fresh \ counted) /\ IsFiniteSet((Fresh \ counted)')
      BY <3>3, <3>4, FS_Subset
    <3>6. Cardinality((Fresh \ counted)') \in Nat /\ Cardinality(Fresh \ counted) \in Nat /\ OpenTickets \in Nat
      BY <3>3, <3>5, FS_CardinalityType, DeskAssumption
    <3>7. Cardinality(Fresh \ counted) <= OpenTickets
      BY DEF DeskInv, RoomForOne
    <3>8. Cardinality((Fresh \ counted)') <= OpenTickets
      BY <3>5, <3>6, <3>7
    <3>. QED
      BY <3>2, <3>8 DEF RoomForOne
  <2>3. CASE ~full /\ Opening = {}
    <3>1. Opening' \subseteq {v}
      BY <1>14, <2>3 DEF Opening
    <3>2. PICK X : X = (Fresh \ counted)'
      OBVIOUS
    <3>3. X \subseteq Unclosed /\ Unclosed \subseteq Visitor
      BY <1>8, <1>13, <3>2 DEF Fresh, Unclosed, Tickets
    <3>4. IsFiniteSet(Unclosed)
      BY <3>3, DeskAssumption, FS_Subset
    <3>5. Cardinality(X) <= Cardinality(Unclosed) /\ IsFiniteSet(X)
      BY <3>3, <3>4, FS_Subset
    <3>6. Cardinality(X) \in Nat /\ Cardinality(Unclosed) \in Nat /\ OpenTickets \in Nat
      BY <3>4, <3>5, FS_CardinalityType, DeskAssumption
    <3>7. ~(Cardinality(Unclosed) >= OpenTickets)
      BY <1>3, <2>3
    <3>8. Cardinality(X) < OpenTickets
      BY <3>5, <3>6, <3>7
    <3>9. \A u \in Opening' \ counted' : Opening' = {u}
      BY <3>1
    <3>10. Cardinality(X) <= OpenTickets
      BY <3>6, <3>8
    <3>. QED
      BY <3>2, <3>8, <3>9, <3>10 DEF RoomForOne
  <2>. QED
    BY <2>1, <2>2, <2>3
<1>. QED
  BY <1>8, <1>10, <1>13, <1>15, <1>17, <1>18 DEF DeskInv

\* The next number is higher than that of every ticket.
LEMMA HighestIsNat ==
  ASSUME DeskTyped, NEW v \in Visitor
  PROVE  Max({ticket[w].number : w \in Visitor}) \in Nat
<1>. DEFINE f == [w \in Visitor |-> ticket[w].number]
<1>1. \A w \in Visitor : ticket[w].number \in Nat
  BY DEF DeskTyped, TicketRow
<1>2. f \in [Visitor -> Nat]
  BY <1>1
<1>3. IsFiniteSet({f[w] : w \in Visitor})
  BY <1>2, DeskAssumption, ImageIsFinite
<1>4. {f[w] : w \in Visitor} = {ticket[w].number : w \in Visitor}
  OBVIOUS
<1>5. {ticket[w].number : w \in Visitor} \in SUBSET Nat /\ ticket[v].number \in {ticket[w].number : w \in Visitor}
  BY <1>1
<1>6. Max({ticket[w].number : w \in Visitor}) \in {ticket[w].number : w \in Visitor}
  BY <1>3, <1>4, <1>5, MaxIs
<1>. QED
  BY <1>5, <1>6

LEMMA HighestNumberKeeps ==
  ASSUME DeskInv, NEW v \in Visitor, HighestNumber(v)
  PROVE  DeskInv'
<1>1. PICK x : x = visitor[v]
  OBVIOUS
<1>2. DeskTyped /\ x \in VisitorRow /\ VisitorFits(x, v) /\ x.at = "max"
  BY <1>1 DEF DeskInv, DeskTyped, HighestNumber, DeskAt
<1>3. PICK n : n = Max({ticket[w].number : w \in Visitor})
  OBVIOUS
<1>4. n \in Nat /\ n + 1 \in Nat /\ n + 1 > 0
  <2>1. n \in Nat
    BY <1>2, <1>3, HighestIsNat
  <2>. QED
    BY <2>1
<1>5. PICK y : y = [x EXCEPT !.at = "insert", !.number = n + 1]
  OBVIOUS
<1>6. visitor' = [visitor EXCEPT ![v] = y] /\ UNCHANGED <<ticket, thread, placed, counted, torn>>
  BY <1>1, <1>2, <1>3, <1>5 DEF HighestNumber, DeskTyped
<1>7. y \in VisitorRow /\ y.at = "insert" /\ y.number > 0 /\ y.kind = x.kind /\ y.of = x.of /\ y.status = x.status
  BY <1>2, <1>4, <1>5 DEF VisitorRow, VisitorPlace
<1>8. v \notin Tickets /\ x.kind = "create" /\ x.of = NoVisitor
  BY <1>2 DEF VisitorFits
<1>9. VisitorFits(y, v)
  BY <1>7, <1>8 DEF VisitorFits
<1>10. v \in Opening
  BY <1>1, <1>2, <1>8 DEF Opening
<1>11. PICK p : p = placed[v]
  OBVIOUS
<1>12. p \in PlacedRow /\ placed' = [placed EXCEPT ![v] = p] /\ p.status = placed[v].status
  BY <1>2, <1>6, <1>11 DEF DeskTyped
<1>13. thread' \in [Visitor -> SUBSET Visitor] /\ \A u \in Visitor : thread[u] \subseteq thread'[u]
  BY <1>2, <1>6 DEF DeskTyped
<1>14. y.of = visitor[v].of /\ visitor[v].at # "done" /\ y.kind # "user"
  BY <1>1, <1>2, <1>7, <1>8
<1>. QED
  BY <1>6, <1>7, <1>8, <1>9, <1>10, <1>12, <1>13, <1>14, CallPasses

LEMMA InsertTicketKeeps ==
  ASSUME DeskInv, NEW v \in Visitor, InsertTicket(v)
  PROVE  DeskInv'
<1>1. PICK x : x = visitor[v]
  OBVIOUS
<1>2. DeskTyped /\ x \in VisitorRow /\ VisitorFits(x, v) /\ x.at = "insert"
  BY <1>1 DEF DeskInv, DeskTyped, InsertTicket, DeskAt
<1>3. v \notin Tickets /\ x.kind = "create" /\ x.of = NoVisitor /\ x.number > 0 /\ x.number \in Nat
  BY <1>2 DEF VisitorFits, VisitorRow
<1>4. PICK p : p = placed[v]
  OBVIOUS
<1>5. UNCHANGED <<thread, placed, counted, torn>>
  BY DEF InsertTicket
<1>6. p \in PlacedRow /\ placed' = [placed EXCEPT ![v] = p] /\ p.status = placed[v].status
  BY <1>2, <1>4, <1>5 DEF DeskTyped
<1>7. thread' \in [Visitor -> SUBSET Visitor] /\ \A u \in Visitor : thread[u] \subseteq thread'[u]
  BY <1>2, <1>5 DEF DeskTyped
<1>8. CASE \E w \in Tickets : ticket[w].number = visitor[v].number
  <2>1. PICK y : y = [x EXCEPT !.at = "error"]
    OBVIOUS
  <2>2. visitor' = [visitor EXCEPT ![v] = y] /\ UNCHANGED ticket
    BY <1>1, <1>2, <1>8, <2>1 DEF InsertTicket, DeskTo, DeskTyped
  <2>3. y \in VisitorRow /\ y.at = "error" /\ y.kind = x.kind /\ y.of = x.of /\ y.status = x.status
    BY <1>2, <2>1 DEF VisitorRow, VisitorPlace
  <2>4. VisitorFits(y, v)
    BY <1>3, <2>3 DEF VisitorFits
  <2>5. y.of = visitor[v].of /\ visitor[v].at # "done" /\ y.kind # "user"
    BY <1>1, <1>2, <1>3, <2>3
  <2>. QED
    BY <1>3, <1>5, <1>6, <1>7, <2>2, <2>3, <2>4, <2>5, CallPasses
<1>9. CASE ~\E w \in Tickets : ticket[w].number = visitor[v].number
  <2>1. PICK y : y = [x EXCEPT !.at = "message", !.of = v]
    OBVIOUS
  <2>2. PICK k : k = [number |-> x.number, status |-> "open", closed |-> FALSE]
    OBVIOUS
  <2>3. visitor' = [visitor EXCEPT ![v] = y] /\ ticket' = [ticket EXCEPT ![v] = k]
    BY <1>1, <1>2, <1>9, <2>1, <2>2 DEF InsertTicket, DeskTyped
  <2>4. y \in VisitorRow /\ y.at = "message" /\ y.kind = "create" /\ y.of = v /\ y.status = x.status
    BY <1>2, <1>3, <2>1 DEF VisitorRow, VisitorPlace, TicketOrNot
  <2>5. k \in TicketRow /\ k.number = x.number /\ k.status = "open" /\ ~k.closed
    BY <1>3, <2>2 DEF TicketRow, Status
  <2>6. ticket' \in [Visitor -> TicketRow] /\ \A t \in Visitor : ticket'[t] = IF t = v THEN k ELSE ticket[t]
    BY <1>2, <2>3, <2>5 DEF DeskTyped
  <2>7. Tickets' = Tickets \cup {v}
    BY <1>3, <2>5, <2>6 DEF Tickets
  <2>8. ticket[v] = NoTicket
    BY <1>3 DEF DeskInv, Dated
  <2>9. VisitorFits(y, v)'
    BY <1>3, <2>4, <2>7, DeskAssumption DEF VisitorFits
  <2>10. visitor' \in [Visitor -> VisitorRow] /\ \A u \in Visitor : VisitorFits(visitor[u], u)'
    BY <2>3, <2>4, <2>7, <2>9, VisitorsStill
  <2>11. Fresh' \subseteq Fresh \cup (Tickets' \ Tickets) /\ ReplyReopens'
    <3>1. p.status >= placed[v].status
      BY <1>6 DEF PlacedRow
    <3>2. \A t \in Visitor : ticket'[t].status = ticket[t].status
      BY <2>5, <2>6, <2>8, NoTicketIsRow
    <3>3. \A t \in Visitor : t # v => ticket'[t].number = ticket[t].number
      BY <2>6
    <3>4. ticket[v].number = 0 /\ visitor[v].at # "done" /\ visitor[v].of = NoVisitor /\ y.kind # "user"
      BY <1>1, <1>2, <1>3, <2>4, <2>8, NoTicketIsRow
    <3>. QED
      BY <1>6, <2>3, <2>4, <3>1, <3>2, <3>3, <3>4, CallMoves
  <2>12. TicketNumbersDiffer'
    <3>1. \A t \in Visitor : ticket[t].number # k.number
      BY <1>1, <1>2, <1>3, <1>9, <2>5 DEF DeskTyped, TicketRow, Tickets
    <3>. QED
      BY <2>6, <3>1 DEF DeskInv, TicketNumbersDiffer
  <2>13. Dated'
    BY <2>5, <2>6, <2>7 DEF DeskInv, Dated
  <2>14. \A u \in Visitor : visitor'[u] = IF u = v THEN y ELSE visitor[u]
    BY <1>2, <2>3 DEF DeskTyped
  <2>15. TicketHasItsMessage'
    <3>1. TicketHasItsMessage /\ v \in Visitor /\ Tickets \subseteq Visitor
      BY DEF DeskInv, Tickets
    <3>2. visitor'[v].at = "message" /\ \A u \in Visitor : u # v => visitor'[u] = visitor[u]
      BY <2>4, <2>14
    <3>3. \A u \in Tickets' \ torn' : u = v \/ u \in Tickets \ torn
      BY <1>5, <2>7
    <3>. QED
      BY <1>5, <3>1, <3>2, <3>3 DEF TicketHasItsMessage, DeskAt
  <2>16. Opening' = Opening \ {v} /\ v \in Opening
    BY <1>1, <1>2, <1>3, <2>4, <2>14 DEF Opening
  <2>17. RoomForOne'
    <3>1. PICK X : X = Fresh \ counted
      OBVIOUS
    <3>2. PICK Y : Y = (Fresh \ counted)'
      OBVIOUS
    <3>3. Y \subseteq X \cup {v} /\ (v \in counted => Y \subseteq X) /\ X \subseteq Visitor
      BY <1>5, <2>7, <2>11, <3>1, <3>2 DEF Fresh, Unclosed, Tickets
    <3>4. IsFiniteSet(X) /\ Cardinality(X) \in Nat /\ OpenTickets \in Nat
      BY <3>3, DeskAssumption, FS_Subset, FS_CardinalityType
    <3>5. Cardinality(X) <= OpenTickets
      BY <3>1 DEF DeskInv, RoomForOne
    <3>6. \A u \in Opening' \ counted' : FALSE
      BY <1>5, <2>16 DEF DeskInv, RoomForOne
    <3>7. CASE v \in counted
      <4>1. Cardinality(Y) <= Cardinality(X) /\ IsFiniteSet(Y)
        BY <3>3, <3>4, <3>7, FS_Subset
      <4>2. Cardinality(Y) \in Nat
        BY <4>1, FS_CardinalityType
      <4>3. Cardinality(Y) <= OpenTickets
        BY <3>4, <3>5, <4>1, <4>2
      <4>. QED
        BY <3>2, <3>6, <4>3 DEF RoomForOne
    <3>8. CASE v \notin counted
      <4>1. Cardinality(X) < OpenTickets
        BY <2>16, <3>1, <3>8 DEF DeskInv, RoomForOne
      <4>2. IsFiniteSet(X \cup {v}) /\ Cardinality(X \cup {v}) <= Cardinality(X) + 1
            /\ Cardinality(X \cup {v}) \in Nat
        <5>1. IsFiniteSet(X \cup {v}) /\ Cardinality(X \cup {v}) = IF v \in X THEN Cardinality(X) ELSE Cardinality(X) + 1
          BY <3>4, FS_AddElement
        <5>. QED
          BY <3>4, <5>1
      <4>3. Cardinality(Y) <= Cardinality(X \cup {v}) /\ IsFiniteSet(Y)
        BY <3>3, <4>2, FS_Subset
      <4>4. Cardinality(Y) \in Nat
        BY <4>3, FS_CardinalityType
      <4>5. Cardinality(Y) <= OpenTickets
        BY <3>4, <4>1, <4>2, <4>3, <4>4
      <4>. QED
        BY <3>2, <3>6, <4>5 DEF RoomForOne
    <3>. QED
      BY <3>7, <3>8
  <2>18. DeskTyped'
    BY <1>2, <1>5, <1>7, <2>6, <2>10 DEF DeskTyped
  <2>. QED
    BY <2>10, <2>11, <2>12, <2>13, <2>15, <2>17, <2>18 DEF DeskInv
<1>. QED
  BY <1>8, <1>9

\* What is placed when a message or a status is stored.
LEMMA PlaceMessage ==
  ASSUME DeskTyped, NEW v \in Visitor, placed' = [placed EXCEPT ![v].message = Clock]
  PROVE  \E p \in PlacedRow : placed' = [placed EXCEPT ![v] = p] /\ p.status = placed[v].status
<1>1. PICK c : c = Clock
  OBVIOUS
<1>2. c \in Nat
  BY <1>1, ClockIsLater DEF DeskTyped
<1>3. PICK p : p = [placed[v] EXCEPT !.message = c]
  OBVIOUS
<1>4. placed[v] \in PlacedRow
  BY DEF DeskTyped
<1>5. p \in PlacedRow /\ p.status = placed[v].status
  BY <1>2, <1>3, <1>4 DEF PlacedRow
<1>6. placed' = [placed EXCEPT ![v] = p]
  BY <1>1, <1>3 DEF DeskTyped
<1>. QED
  BY <1>5, <1>6

LEMMA PlaceStatus ==
  ASSUME DeskTyped, NEW v \in Visitor, placed' = [placed EXCEPT ![v].status = Clock]
  PROVE  \E p \in PlacedRow :
           /\ placed' = [placed EXCEPT ![v] = p] /\ p.status >= placed[v].status /\ p.status > 0
           /\ \A u \in Visitor : p.status > placed[u].message
<1>1. PICK c : c = Clock
  OBVIOUS
<1>2. c \in Nat /\ c > 0 /\ \A w \in Visitor : placed[w].message < c /\ placed[w].status < c
  BY <1>1, ClockIsLater DEF DeskTyped
<1>3. PICK p : p = [placed[v] EXCEPT !.status = c]
  OBVIOUS
<1>4. placed[v] \in PlacedRow /\ \A w \in Visitor : placed[w].message \in Nat /\ placed[w].status \in Nat
  BY DEF DeskTyped, PlacedRow
<1>5. p \in PlacedRow /\ p.status = c
  BY <1>2, <1>3, <1>4 DEF PlacedRow
<1>6. placed' = [placed EXCEPT ![v] = p]
  BY <1>1, <1>3 DEF DeskTyped
<1>7. p.status >= placed[v].status /\ \A u \in Visitor : p.status > placed[u].message
  BY <1>2, <1>4, <1>5
<1>. QED
  BY <1>2, <1>5, <1>6, <1>7

LEMMA FirstMessageKeeps ==
  ASSUME DeskInv, NEW v \in Visitor, FirstMessage(v)
  PROVE  DeskInv'
<1>1. PICK x : x = visitor[v]
  OBVIOUS
<1>2. DeskTyped /\ x \in VisitorRow /\ VisitorFits(x, v) /\ x.at = "message" /\ x.kind = "create"
  BY <1>1 DEF DeskInv, DeskTyped, FirstMessage, DeskAt
<1>3. PICK y : y = [x EXCEPT !.at = "done"]
  OBVIOUS
<1>4. visitor' = [visitor EXCEPT ![v] = y] /\ UNCHANGED <<ticket, counted, torn>>
  BY <1>1, <1>2, <1>3 DEF FirstMessage, DeskTo, DeskTyped
<1>5. y \in VisitorRow /\ y.at = "done" /\ y.kind = x.kind /\ y.of = x.of /\ y.status = x.status
  BY <1>2, <1>3 DEF VisitorRow, VisitorPlace
<1>6. VisitorFits(y, v)
  BY <1>2, <1>5 DEF VisitorFits
<1>7. PICK p \in PlacedRow : placed' = [placed EXCEPT ![v] = p] /\ p.status = placed[v].status
  BY <1>2, PlaceMessage DEF FirstMessage
<1>8. thread' \in [Visitor -> SUBSET Visitor] /\ (\A u \in Visitor : thread[u] \subseteq thread'[u]) /\ v \in thread'[v]
  BY <1>2 DEF DeskTyped, FirstMessage
<1>9. y.of = visitor[v].of /\ visitor[v].at # "done" /\ y.kind # "user"
  BY <1>1, <1>2, <1>5
<1>. QED
  BY <1>4, <1>5, <1>6, <1>7, <1>8, <1>9, CallPasses

LEMMA BeginReplyKeeps ==
  ASSUME DeskInv, NEW v \in Visitor, NEW t \in Visitor, NEW k \in {"user", "admin", "note"},
         NEW status \in Status \cup {"none"}, BeginReply(v, t, k, status)
  PROVE  DeskInv'
<1>1. visitor[v] = NotVisitor /\ v \notin Tickets /\ DeskTyped
  BY NotVisitorIsRow DEF DeskInv, VisitorFits, BeginReply, Arrive, DeskAt
<1>2. PICK y : y = [at |-> "message", kind |-> k, of |-> t, status |-> status, number |-> 0]
  OBVIOUS
<1>3. visitor' = [visitor EXCEPT ![v] = y] /\ UNCHANGED <<ticket, thread, counted, placed, torn>>
      /\ t \in Tickets /\ (k = "user" => status = "none")
  BY <1>2 DEF BeginReply, Arrive
<1>4. y \in VisitorRow /\ y.at = "message" /\ y.kind = k /\ y.of = t /\ y.status = status
  BY <1>2 DEF VisitorRow, VisitorPlace, VisitorKind, StatusOrNone, TicketOrNot
<1>5. VisitorFits(y, v)
  BY <1>1, <1>3, <1>4 DEF VisitorFits
<1>6. PICK p : p = placed[v]
  OBVIOUS
<1>7. p \in PlacedRow /\ placed' = [placed EXCEPT ![v] = p] /\ p.status = placed[v].status
  BY <1>1, <1>3, <1>6 DEF DeskTyped
<1>8. thread' \in [Visitor -> SUBSET Visitor] /\ \A u \in Visitor : thread[u] \subseteq thread'[u]
  BY <1>1, <1>3 DEF DeskTyped
<1>9. visitor[v].of = NoVisitor /\ visitor[v].at # "done"
  BY <1>1, NotVisitorIsRow
<1>. QED
  BY <1>1, <1>3, <1>4, <1>5, <1>7, <1>8, <1>9, CallPasses

LEMMA AddMessageKeeps ==
  ASSUME DeskInv, NEW v \in Visitor, AddMessage(v)
  PROVE  DeskInv'
<1>1. PICK x : x = visitor[v]
  OBVIOUS
<1>2. DeskTyped /\ x \in VisitorRow /\ VisitorFits(x, v) /\ x.at = "message" /\ x.kind # "create"
  BY <1>1 DEF DeskInv, DeskTyped, AddMessage, DeskAt
<1>3. v \notin Tickets /\ x.of \in Tickets
  BY <1>2 DEF VisitorFits
<1>4. PICK y : y = [x EXCEPT !.at = IF x.kind = "note" THEN IF x.status = "none" THEN "done" ELSE "set" ELSE "status"]
  OBVIOUS
<1>5. visitor' = [visitor EXCEPT ![v] = y] /\ UNCHANGED <<ticket, counted, torn>>
  BY <1>1, <1>2, <1>4 DEF AddMessage, DeskTo, After, DeskTyped
<1>6. y \in VisitorRow /\ y.kind = x.kind /\ y.of = x.of /\ y.status = x.status
      /\ y.at = IF x.kind = "note" THEN IF x.status = "none" THEN "done" ELSE "set" ELSE "status"
  BY <1>2, <1>4 DEF VisitorRow, VisitorPlace
<1>7. VisitorFits(y, v)
  BY <1>2, <1>3, <1>6 DEF VisitorFits
<1>8. \E p \in PlacedRow : placed' = [placed EXCEPT ![v] = p] /\ p.status = placed[v].status
  <2>1. CASE x.kind = "note"
    <3>1. UNCHANGED placed
      BY <1>1, <2>1 DEF AddMessage
    <3>. QED
      BY <1>2, <3>1, PlacedAsBefore DEF DeskTyped
  <2>2. CASE x.kind # "note"
    <3>1. placed' = [placed EXCEPT ![v].message = Clock]
      BY <1>1, <2>2 DEF AddMessage
    <3>. QED
      BY <1>2, <3>1, PlaceMessage
  <2>. QED
    BY <2>1, <2>2
<1>9. PICK p \in PlacedRow : placed' = [placed EXCEPT ![v] = p] /\ p.status = placed[v].status
  BY <1>8
<1>10. thread' \in [Visitor -> SUBSET Visitor] /\ \A u \in Visitor : thread[u] \subseteq thread'[u]
  <2>1. thread' = thread \/ thread' = [thread EXCEPT ![x.of] = @ \cup {v}]
    BY <1>1 DEF AddMessage
  <2>2. x.of \in Visitor
    BY <1>3 DEF Tickets
  <2>. QED
    BY <1>2, <2>1, <2>2 DEF DeskTyped
<1>11. y.of = visitor[v].of /\ visitor[v].at # "done" /\ (y.kind = "user" => y.at # "done") /\ y.kind # "create"
  BY <1>1, <1>2, <1>6
<1>. QED
  BY <1>3, <1>5, <1>6, <1>7, <1>9, <1>10, <1>11, CallPasses

\* A call sets the status of the ticket it is about.
LEMMA StatusIsSet ==
  ASSUME DeskInv, NEW v \in Visitor, NEW y \in VisitorRow, NEW p \in PlacedRow, NEW t \in Tickets,
         NEW k \in TicketRow,
         visitor' = [visitor EXCEPT ![v] = y], placed' = [placed EXCEPT ![v] = p],
         p.status >= placed[v].status, p.status > 0, \A u \in Visitor : p.status > placed[u].message,
         ticket' = [ticket EXCEPT ![t] = k], k.number = ticket[t].number, k.closed <=> k.status = "closed",
         visitor[v].at \notin {"done", "max", "insert"}, v \notin Tickets,
         y.of = t, t = visitor[v].of \/ visitor[v].of = NoVisitor, VisitorFits(y, v),
         y.kind = "user" /\ y.at = "done" => k.status = "open", y.kind # "create",
         UNCHANGED <<thread, counted, torn>>
  PROVE  DeskInv'
<1>1. DeskTyped /\ t \in Visitor
  BY DEF DeskInv, Tickets
<1>2. ticket' \in [Visitor -> TicketRow] /\ \A u \in Visitor : ticket'[u] = IF u = t THEN k ELSE ticket[u]
  BY <1>1 DEF DeskTyped
<1>3. \A u \in Visitor : ticket'[u].number = ticket[u].number
  BY <1>2
<1>4. Tickets' = Tickets
  BY <1>3 DEF Tickets
<1>5. TicketNumbersDiffer'
  BY <1>3 DEF DeskInv, TicketNumbersDiffer
<1>6. Dated'
  BY <1>2, <1>4 DEF DeskInv, Dated
<1>7. VisitorFits(y, v)'
  BY <1>4 DEF VisitorFits
<1>8. visitor' \in [Visitor -> VisitorRow] /\ \A u \in Visitor : VisitorFits(visitor[u], u)'
  BY <1>4, <1>7, VisitorsStill
<1>9. Fresh' \subseteq Fresh \cup (Tickets' \ Tickets) /\ ReplyReopens'
  <2>1. \A u \in Visitor : ticket'[u].status = ticket[u].status
                            \/ (y.of = u /\ p.status > 0 /\ \A w \in Visitor \ {v} : p.status > placed[w].message)
    BY <1>2
  <2>2. y.kind = "user" /\ y.at = "done" => ticket'[y.of].status = "open"
    BY <1>1, <1>2
  <2>3. visitor[v].at # "done" /\ (y.of = visitor[v].of \/ visitor[v].of = NoVisitor)
    OBVIOUS
  <2>4. (\A u \in Visitor : u # v => ticket'[u].number = ticket[u].number) /\ ticket'[v].number = ticket[v].number
    BY <1>3
  <2>. QED
    BY <2>1, <2>2, <2>3, <2>4, CallMoves
<1>10. \A u \in Visitor : visitor'[u] = IF u = v THEN y ELSE visitor[u]
  BY <1>1 DEF DeskTyped
<1>11. Opening' \subseteq Opening
  BY <1>10 DEF Opening
<1>12. RoomForOne'
  BY <1>4, <1>9, <1>11, RoomStays
<1>13. TicketHasItsMessage'
  BY <1>4, <1>10 DEF DeskInv, TicketHasItsMessage, DeskAt
<1>14. DeskTyped'
  BY <1>1, <1>2, <1>8 DEF DeskTyped, PlacedRow
<1>. QED
  BY <1>5, <1>6, <1>8, <1>9, <1>12, <1>13, <1>14 DEF DeskInv

LEMMA SayKeeps ==
  ASSUME DeskInv, NEW v \in Visitor, Say(v)
  PROVE  DeskInv'
<1>1. PICK x : x = visitor[v]
  OBVIOUS
<1>2. DeskTyped /\ x \in VisitorRow /\ VisitorFits(x, v) /\ x.at = "status"
  BY <1>1 DEF DeskInv, DeskTyped, Say, DeskAt
<1>3. v \notin Tickets /\ x.of \in Tickets /\ x.kind # "create" /\ (x.kind = "user" => x.status = "none")
  BY <1>2 DEF VisitorFits
<1>4. PICK t : t = x.of
  OBVIOUS
<1>5. t \in Tickets /\ t \in Visitor
  BY <1>3, <1>4 DEF Tickets
<1>6. PICK y : y = [x EXCEPT !.at = IF x.status = "none" THEN "done" ELSE "set"]
  OBVIOUS
<1>7. visitor' = [visitor EXCEPT ![v] = y] /\ UNCHANGED <<thread, counted, torn>>
  BY <1>1, <1>2, <1>6 DEF Say, DeskTo, After, DeskTyped
<1>8. y \in VisitorRow /\ y.kind = x.kind /\ y.of = x.of /\ y.status = x.status
      /\ y.at = IF x.status = "none" THEN "done" ELSE "set"
  BY <1>2, <1>6 DEF VisitorRow, VisitorPlace
<1>9. VisitorFits(y, v)
  BY <1>2, <1>3, <1>8 DEF VisitorFits
<1>10. PICK p \in PlacedRow :
         /\ placed' = [placed EXCEPT ![v] = p] /\ p.status >= placed[v].status /\ p.status > 0
         /\ \A u \in Visitor : p.status > placed[u].message
  BY <1>2, PlaceStatus DEF Say
<1>11. PICK s : s = IF x.kind = "admin" THEN "answered" ELSE "open"
  OBVIOUS
<1>12. s \in Status /\ s # "closed" /\ (x.kind = "user" => s = "open")
  BY <1>11 DEF Status
<1>13. PICK k : k = [ticket[t] EXCEPT !.status = s, !.closed = FALSE]
  OBVIOUS
<1>14. ticket[t] \in TicketRow
  BY <1>2, <1>5 DEF DeskTyped
<1>15. k \in TicketRow /\ k.number = ticket[t].number /\ k.status = s /\ ~k.closed
  BY <1>12, <1>13, <1>14 DEF TicketRow
<1>16. ticket' = [ticket EXCEPT ![t] = k]
  BY <1>1, <1>2, <1>4, <1>5, <1>11, <1>13 DEF Say, Said, DeskTyped
<1>17. k.closed <=> k.status = "closed"
  BY <1>12, <1>15
<1>18. visitor[v].at \notin {"done", "max", "insert"} /\ y.of = t /\ t = visitor[v].of
       /\ (y.kind = "user" /\ y.at = "done" => k.status = "open") /\ y.kind # "create"
  BY <1>1, <1>2, <1>3, <1>4, <1>8, <1>12, <1>15
<1>. QED
  BY <1>3, <1>5, <1>7, <1>8, <1>9, <1>10, <1>15, <1>16, <1>17, <1>18, StatusIsSet

\* The row of a ticket whose status is set.
LEMMA TicketSet ==
  ASSUME DeskTyped, NEW t \in Visitor, NEW status \in Status,
         ticket' = [ticket EXCEPT ![t].status = status, ![t].closed = (status = "closed")]
  PROVE  \E k \in TicketRow : /\ ticket' = [ticket EXCEPT ![t] = k] /\ k.number = ticket[t].number
                              /\ (k.closed <=> k.status = "closed") /\ k.status = status
<1>1. PICK c \in BOOLEAN : c = (status = "closed")
  OBVIOUS
<1>2. PICK k : k = [ticket[t] EXCEPT !.status = status, !.closed = c]
  OBVIOUS
<1>3. ticket[t] \in TicketRow
  BY DEF DeskTyped
<1>4. k \in TicketRow /\ k.number = ticket[t].number /\ k.status = status /\ k.closed = c
  BY <1>2, <1>3 DEF TicketRow
<1>5. ticket' = [ticket EXCEPT ![t] = k]
  BY <1>1, <1>2 DEF DeskTyped
<1>. QED
  BY <1>1, <1>4, <1>5

LEMMA ReplySetsKeeps ==
  ASSUME DeskInv, NEW v \in Visitor, ReplySets(v)
  PROVE  DeskInv'
<1>1. PICK x : x = visitor[v]
  OBVIOUS
<1>2. DeskTyped /\ x \in VisitorRow /\ VisitorFits(x, v) /\ x.at = "set"
  BY <1>1 DEF DeskInv, DeskTyped, ReplySets, DeskAt
<1>3. v \notin Tickets /\ x.of \in Tickets /\ x.kind # "create" /\ x.kind # "user" /\ x.status \in Status
  BY <1>2 DEF VisitorFits, VisitorRow, StatusOrNone
<1>4. PICK t : t = x.of
  OBVIOUS
<1>5. t \in Tickets /\ t \in Visitor
  BY <1>3, <1>4 DEF Tickets
<1>6. PICK y : y = [x EXCEPT !.at = "done"]
  OBVIOUS
<1>7. visitor' = [visitor EXCEPT ![v] = y] /\ UNCHANGED <<thread, counted, torn>>
  BY <1>1, <1>2, <1>6 DEF ReplySets, SetStatus, DeskTo, DeskTyped
<1>8. y \in VisitorRow /\ y.kind = x.kind /\ y.of = x.of /\ y.status = x.status /\ y.at = "done"
  BY <1>2, <1>6 DEF VisitorRow, VisitorPlace
<1>9. VisitorFits(y, v)
  BY <1>2, <1>3, <1>8 DEF VisitorFits
<1>10. PICK p \in PlacedRow :
         /\ placed' = [placed EXCEPT ![v] = p] /\ p.status >= placed[v].status /\ p.status > 0
         /\ \A u \in Visitor : p.status > placed[u].message
  BY <1>2, PlaceStatus DEF ReplySets, SetStatus
<1>11. PICK s : s = x.status
  OBVIOUS
<1>12. ticket' = [ticket EXCEPT ![t].status = s, ![t].closed = (s = "closed")] /\ s \in Status
  BY <1>1, <1>3, <1>4, <1>11 DEF ReplySets, SetStatus
<1>13. PICK k \in TicketRow : /\ ticket' = [ticket EXCEPT ![t] = k] /\ k.number = ticket[t].number
                              /\ (k.closed <=> k.status = "closed") /\ k.status = s
  BY <1>2, <1>5, <1>12, TicketSet
<1>14. visitor[v].at \notin {"done", "max", "insert"} /\ y.of = t /\ t = visitor[v].of
       /\ ~(y.kind = "user" /\ y.at = "done") /\ y.kind # "create"
  BY <1>1, <1>2, <1>3, <1>4, <1>8
<1>. QED
  BY <1>3, <1>5, <1>7, <1>8, <1>9, <1>10, <1>13, <1>14, StatusIsSet

LEMMA UpdateTicketKeeps ==
  ASSUME DeskInv, NEW v \in Visitor, NEW t \in Visitor, NEW status \in Status, UpdateTicket(v, t, status)
  PROVE  DeskInv'
<1>1. visitor[v] = NotVisitor /\ v \notin Tickets /\ DeskTyped
  BY NotVisitorIsRow DEF DeskInv, VisitorFits, UpdateTicket, Arrive, DeskAt
<1>2. PICK y : y = [at |-> "done", kind |-> "set", of |-> t, status |-> status, number |-> 0]
  OBVIOUS
<1>3. visitor' = [visitor EXCEPT ![v] = y] /\ UNCHANGED <<thread, counted, torn>> /\ t \in Tickets
  BY <1>2 DEF UpdateTicket, Arrive, SetStatus
<1>4. y \in VisitorRow /\ y.at = "done" /\ y.kind = "set" /\ y.of = t /\ y.status = status
  BY <1>2 DEF VisitorRow, VisitorPlace, VisitorKind, StatusOrNone, TicketOrNot
<1>5. VisitorFits(y, v)
  BY <1>1, <1>3, <1>4 DEF VisitorFits
<1>6. PICK p \in PlacedRow :
         /\ placed' = [placed EXCEPT ![v] = p] /\ p.status >= placed[v].status /\ p.status > 0
         /\ \A u \in Visitor : p.status > placed[u].message
  BY <1>1, PlaceStatus DEF UpdateTicket, SetStatus
<1>7. PICK k \in TicketRow : /\ ticket' = [ticket EXCEPT ![t] = k] /\ k.number = ticket[t].number
                             /\ (k.closed <=> k.status = "closed") /\ k.status = status
  BY <1>1, TicketSet DEF UpdateTicket, SetStatus
<1>8. visitor[v].of = NoVisitor /\ visitor[v].at \notin {"done", "max", "insert"}
      /\ ~(y.kind = "user" /\ y.at = "done") /\ y.kind # "create"
  BY <1>1, <1>4, NotVisitorIsRow
<1>. QED
  BY <1>1, <1>3, <1>4, <1>5, <1>6, <1>7, <1>8, StatusIsSet

LEMMA DeskCrashKeeps ==
  ASSUME DeskInv, DeskCrash
  PROVE  DeskInv'
<1>1. DeskTyped /\ \A v \in Visitor : VisitorFits(visitor[v], v)
  BY DEF DeskInv
<1>2. UNCHANGED <<ticket, thread, counted, placed>>
  BY DEF DeskCrash
<1>3. Tickets' = Tickets /\ TicketNumbersDiffer' /\ Dated'
  BY <1>2, SameTickets DEF DeskInv
<1>4. ASSUME NEW v \in Visitor
      PROVE  /\ visitor'[v] \in VisitorRow /\ VisitorFits(visitor[v], v)'
             /\ visitor'[v].of = visitor[v].of /\ visitor'[v].kind = visitor[v].kind
             /\ visitor'[v].at = (IF visitor[v].at \in {"idle", "done", "error"} THEN visitor[v].at ELSE "error")
  <2>1. PICK x : x = visitor[v]
    OBVIOUS
  <2>2. x \in VisitorRow /\ VisitorFits(x, v)
    BY <1>1, <2>1 DEF DeskTyped
  <2>3. CASE x.at \in {"idle", "done", "error"}
    <3>1. visitor'[v] = x
      BY <2>1, <2>3 DEF DeskCrash
    <3>2. VisitorFits(x, v)'
      BY <1>3, <2>2 DEF VisitorFits
    <3>. QED
      BY <2>1, <2>2, <2>3, <3>1, <3>2 DEF VisitorFits
  <2>4. CASE x.at \notin {"idle", "done", "error"}
    <3>1. PICK y : y = [x EXCEPT !.at = "error"]
      OBVIOUS
    <3>2. visitor'[v] = y
      BY <2>1, <2>4, <3>1 DEF DeskCrash
    <3>3. y \in VisitorRow /\ y.kind = x.kind /\ y.of = x.of /\ y.status = x.status /\ y.at = "error"
      BY <2>2, <3>1 DEF VisitorRow, VisitorPlace
    <3>4. VisitorFits(y, v)'
      BY <1>3, <2>2, <3>3 DEF VisitorFits
    <3>. QED
      BY <2>1, <2>4, <3>2, <3>3, <3>4 DEF VisitorFits
  <2>. QED
    BY <2>3, <2>4
<1>5. visitor' \in [Visitor -> VisitorRow]
  <2>1. visitor' = [v \in Visitor |-> visitor'[v]]
    BY DEF DeskCrash
  <2>. QED
    BY <1>4, <2>1
<1>6. Opening' \subseteq Opening
  BY <1>4 DEF Opening
<1>7. Fresh' \subseteq Fresh
  BY <1>2, <1>3, <1>4 DEF Fresh, Unclosed
<1>8. RoomForOne'
  BY <1>2, <1>6, <1>7, RoomStays
<1>9. ReplyReopens'
  BY <1>2, <1>4 DEF DeskInv, ReplyReopens, DeskAt
<1>10. torn \subseteq torn' /\ torn' \subseteq Visitor
       /\ \A t \in Tickets : visitor[t].at = "message" => t \in torn'
  <2>1. torn' = torn \cup {visitor[v].of : v \in {w \in Visitor : visitor[w].at \in {"message", "status"}}}
    BY DEF DeskCrash
  <2>2. \A v \in Visitor : visitor[v].at \in {"message", "status"} => visitor[v].of \in Visitor
    BY <1>1 DEF VisitorFits, Tickets
  <2>3. \A t \in Tickets : t \in Visitor /\ visitor[t].of = t
    BY <1>1 DEF VisitorFits, Tickets
  <2>. QED
    BY <1>1, <2>1, <2>2, <2>3 DEF DeskTyped
<1>11. TicketHasItsMessage'
  BY <1>2, <1>3, <1>10 DEF DeskInv, TicketHasItsMessage, DeskAt
<1>12. DeskTyped'
  BY <1>1, <1>2, <1>5, <1>10 DEF DeskTyped
<1>. QED
  BY <1>3, <1>4, <1>8, <1>9, <1>11, <1>12 DEF DeskInv

LEMMA DeskStep ==
  ASSUME DeskInv, [DeskNext]_deskVars
  PROVE  DeskInv'
<1>1. CASE UNCHANGED deskVars
  BY <1>1 DEF deskVars, DeskInv, DeskTyped, TicketNumbersDiffer, Dated, RoomForOne, ReplyReopens,
     TicketHasItsMessage,
       VisitorFits, Tickets, Fresh, Unclosed, Opening, DeskAt
<1>2. ASSUME NEW v \in Visitor,
             \/ CountOpen(v) \/ HighestNumber(v) \/ InsertTicket(v) \/ FirstMessage(v)
             \/ AddMessage(v) \/ Say(v) \/ ReplySets(v)
      PROVE  DeskInv'
  BY <1>2, CountOpenKeeps, HighestNumberKeeps, InsertTicketKeeps, FirstMessageKeeps,
     AddMessageKeeps, SayKeeps,
       ReplySetsKeeps
<1>3. ASSUME NEW v \in Visitor, NEW t \in Visitor,
             \/ \E k \in {"user", "admin", "note"}, status \in Status \cup {"none"} : BeginReply(v, t, k, status)
             \/ \E status \in Status : UpdateTicket(v, t, status)
      PROVE  DeskInv'
  BY <1>3, BeginReplyKeeps, UpdateTicketKeeps
<1>4. CASE DeskNext
  BY <1>2, <1>3, <1>4, DeskCrashKeeps DEF DeskNext
<1>. QED
  BY <1>1, <1>4

LEMMA DeskInvSafe ==
  ASSUME DeskInv
  PROVE  DeskSafe
<1>1. DeskTypeOK
  BY DEF DeskInv, DeskTyped, DeskTypeOK, TicketRow, VisitorRow, VisitorPlace, VisitorKind,
     StatusOrNone, TicketOrNot,
     PlacedRow, TicketNumbersDiffer
<1>2. ClosedIsDated
  BY DEF DeskInv, Dated, ClosedIsDated, Tickets
<1>3. OpenLimit
  <2>. SUFFICES ASSUME Cardinality(Unclosed) > OpenTickets, Unclosed \cap counted = {},
                       \A v \in Visitor : visitor[v].of \in Unclosed => ~(placed[v].status > 0)
       PROVE  FALSE
    BY DEF OpenLimit
  <2>1. \A v \in Visitor : placed[v].status \in Nat
    BY DEF DeskInv, DeskTyped, PlacedRow
  <2>2. Fresh = Unclosed
    BY <2>1 DEF Fresh
  <2>3. Fresh \ counted = Unclosed
    BY <2>2
  <2>4. Cardinality(Unclosed) <= OpenTickets
    BY <2>3 DEF DeskInv, RoomForOne
  <2>5. Cardinality(Unclosed) \in Nat /\ OpenTickets \in Nat
    BY DeskAssumption, FS_Subset, FS_CardinalityType DEF Unclosed, Tickets
  <2>. QED
    BY <2>4, <2>5
<1>. QED
  BY <1>1, <1>2, <1>3 DEF DeskInv, DeskSafe

-----------------------------------------------------------------------------
(* Audit sessions *)

AuditPlace == {"idle", "store", "point", "list", "drop", "done"}
DropSet == SUBSET Audit
AuditRow == [at : AuditPlace, drop : DropSet]
AuditOrNot == Audit \cup {NoAudit}

\* Where a save is says whether it has begun, and may have stored its session.
PastStore(a) == audit[a].at \notin {"idle", "store"}
Dropping == {a \in Audit : audit[a].at = "drop"}
Storing == {a \in Audit : audit[a].at \in {"point", "list", "drop"}}

SavesFit ==
  /\ \A a \in Audit : audit[a].at = "idle" <=> created[a] = 0
  /\ \A a, b \in Audit : created[a] = created[b] => a = b \/ created[a] = 0
  /\ \A a \in session : PastStore(a)
  /\ \A d \in Audit : \A a \in audit[d].drop : PastStore(a)
  /\ \A a \in Audit : pointer = a => audit[a].at \in {"list", "drop", "done"}
  /\ \A a \in cut : audit[a].at = "done"

\* Whatever is created after a save that is under way has passed it.
PassedSince == \A a \in UnderWay : \A c \in Audit : created[c] > created[a] => c \in passed[a]

\* A stored session that is newer than the latest one overtook it.
NewerOvertook == \A a \in Audit : pointer = a => \A c \in session : created[c] > created[a] => c \in Overtaking(a)

\* A session that is deleted, or listed to be, was passed by as many as are kept.
Doomed(a) == (a \notin session /\ PastStore(a)) \/ \E d \in Audit : a \in audit[d].drop
DoomedWasOvertaken ==
  \A a \in Audit : Doomed(a) =>
    /\ audit[a].at = "point" => Cardinality(passed[a]) >= Sessions
    /\ pointer = a => Cardinality(Overtaking(a)) >= Sessions

\* Once some of those that delete are done with it, only the other saves add theirs.
Retained ==
  \A A \in SUBSET Dropping :
    Cardinality(session \ UNION {audit[a].drop : a \in A})
      <= Sessions + Cardinality(Storing \ A) + Cardinality(cut)

AuditsTyped ==
  /\ session \subseteq Audit /\ created \in [Audit -> Nat] /\ pointer \in AuditOrNot
  /\ audit \in [Audit -> AuditRow] /\ passed \in [Audit -> SUBSET Audit] /\ cut \subseteq Audit

AuditsInv == AuditsTyped /\ SavesFit /\ PassedSince /\ NewerOvertook /\ DoomedWasOvertaken /\ Retained

LEMMA FewerOf ==
  ASSUME NEW S \in SUBSET Audit, NEW T \in SUBSET S
  PROVE  /\ IsFiniteSet(T) /\ IsFiniteSet(S)
         /\ Cardinality(T) \in Nat /\ Cardinality(S) \in Nat /\ Cardinality(T) <= Cardinality(S)
<1>1. IsFiniteSet(S)
  BY AuditsAssumption, FS_Subset
<1>2. IsFiniteSet(T) /\ Cardinality(T) <= Cardinality(S)
  BY <1>1, FS_Subset
<1>. QED
  BY <1>1, <1>2, FS_CardinalityType

LEMMA EnoughOf ==
  ASSUME NEW S \in SUBSET Audit, NEW T \in SUBSET S, Cardinality(T) >= Sessions
  PROVE  Cardinality(S) >= Sessions
BY FewerOf, AuditsAssumption

LEMMA OvertakingIsOf ==
  ASSUME AuditsTyped, NEW a \in Audit
  PROVE  Overtaking(a) \subseteq Audit /\ passed[a] \subseteq Overtaking(a)
BY DEF AuditsTyped, Overtaking, UnderWay

LEMMA AuditsStart ==
  ASSUME AuditsInit
  PROVE  AuditsInv
<1>1. \A a \in Audit : audit[a].at = "idle" /\ audit[a].drop = {} /\ created[a] = 0
  BY DEF AuditsInit
<1>2. AuditsTyped
  <2>1. {} \in DropSet
    BY DEF DropSet
  <2>2. [at |-> "idle", drop |-> {}] \in AuditRow
    BY <2>1 DEF AuditRow, AuditPlace
  <2>. QED
    BY <2>2 DEF AuditsInit, AuditsTyped, AuditOrNot
<1>3. session = {} /\ cut = {} /\ pointer \notin Audit
  BY AuditsAssumption DEF AuditsInit
<1>4. SavesFit
  BY <1>1, <1>3 DEF SavesFit
<1>5. UnderWay = {} /\ Storing = {} /\ Dropping = {}
  BY <1>1 DEF UnderWay, Storing, Dropping
<1>6. PassedSince /\ NewerOvertook
  BY <1>3, <1>5 DEF PassedSince, NewerOvertook
<1>7. DoomedWasOvertaken
  BY <1>1, <1>3 DEF DoomedWasOvertaken, Doomed, PastStore
<1>8. Retained
  <2>1. Cardinality({}) = 0 /\ Sessions \in Nat
    BY FS_EmptySet, AuditsAssumption
  <2>2. Sessions + 0 + 0 \in Nat /\ 0 <= Sessions + 0 + 0
    BY <2>1
  <2>3. \A A \in SUBSET Dropping : Storing \ A = {} /\ session \ UNION {audit[a].drop : a \in A} = {}
    BY <1>3, <1>5
  <2>. QED
    BY <1>3, <2>1, <2>2, <2>3 DEF Retained
<1>. QED
  BY <1>2, <1>4, <1>6, <1>7, <1>8 DEF AuditsInv

\* One save moves: where the others are, and what they delete, is as before.
LEMMA AuditMoves ==
  ASSUME audit \in [Audit -> AuditRow], NEW a \in Audit, NEW y \in AuditRow, audit' = [audit EXCEPT ![a] = y]
  PROVE  audit' \in [Audit -> AuditRow] /\ \A b \in Audit : audit'[b] = IF b = a THEN y ELSE audit[b]
OBVIOUS

\* What the pointer says stays so while the latest session is the same and the saves go on.
LEMMA OvertookStays ==
  ASSUME AuditsInv, AuditsTyped', pointer' = pointer, session' \subseteq session, UNCHANGED created,
         \A a \in Audit : pointer = a => Overtaking(a) \subseteq Overtaking(a)'
  PROVE  NewerOvertook'
<1>1. ASSUME NEW a \in Audit, pointer' = a, NEW c \in session', created'[c] > created'[a]
      PROVE  c \in Overtaking(a)'
  <2>1. c \in session /\ created[c] > created[a] /\ pointer = a
    BY <1>1
  <2>2. c \in Overtaking(a)
    BY <2>1 DEF AuditsInv, NewerOvertook
  <2>. QED
    BY <2>1, <2>2
<1>. QED
  BY <1>1 DEF NewerOvertook

LEMMA DoomedStays ==
  ASSUME AuditsInv, AuditsTyped', pointer' = pointer,
         \A a \in Audit : passed[a] \subseteq passed'[a],
         \A a \in Audit : pointer = a => Overtaking(a) \subseteq Overtaking(a)',
         NEW a \in Audit, Doomed(a), audit'[a].at = "point" => audit[a].at = "point"
  PROVE  /\ audit'[a].at = "point" => Cardinality(passed'[a]) >= Sessions
         /\ pointer' = a => Cardinality(Overtaking(a)') >= Sessions
<1>1. /\ audit[a].at = "point" => Cardinality(passed[a]) >= Sessions
      /\ pointer = a => Cardinality(Overtaking(a)) >= Sessions
  BY DEF AuditsInv, DoomedWasOvertaken
<1>2. passed'[a] \in SUBSET Audit /\ passed[a] \in SUBSET passed'[a]
  BY DEF AuditsTyped
<1>3. Overtaking(a)' \in SUBSET Audit
  BY DEF AuditsTyped, Overtaking, UnderWay
<1>4. ASSUME audit'[a].at = "point" PROVE Cardinality(passed'[a]) >= Sessions
  BY <1>1, <1>2, <1>4, EnoughOf
<1>5. ASSUME pointer' = a PROVE Cardinality(Overtaking(a)') >= Sessions
  <2>1. Overtaking(a) \in SUBSET Overtaking(a)' /\ Cardinality(Overtaking(a)) >= Sessions
    BY <1>1, <1>5
  <2>. QED
    BY <1>3, <2>1, EnoughOf
<1>. QED
  BY <1>4, <1>5

\* A save that neither lists nor deletes changes what is retained by its own session at most.
LEMMA RetainedStays ==
  ASSUME AuditsInv, AuditsTyped', session' = session, cut' = cut, Dropping' = Dropping, Storing' = Storing,
         \A d \in Audit : audit'[d].drop = audit[d].drop
  PROVE  Retained'
<1>1. \A A \in SUBSET Dropping : {audit'[a].drop : a \in A} = {audit[a].drop : a \in A}
  <2>. TAKE A \in SUBSET Dropping
  <2>1. \A a \in A : audit'[a].drop = audit[a].drop
    BY DEF Dropping
  <2>. QED
    BY <2>1
<1>. QED
  BY <1>1 DEF AuditsInv, Retained

LEMMA BeginAuditKeeps ==
  ASSUME AuditsInv, NEW a \in Audit, BeginAudit(a)
  PROVE  AuditsInv'
<1>1. AuditsTyped /\ SavesFit /\ PassedSince
  BY DEF AuditsInv
<1>2. PICK m : m = Max({created[b] : b \in Audit})
  OBVIOUS
<1>3. m \in Nat /\ \A b \in Audit : created[b] \in Nat /\ created[b] <= m
  <2>1. created \in [Audit -> Nat]
    BY <1>1 DEF AuditsTyped
  <2>2. IsFiniteSet({created[b] : b \in Audit})
    BY <2>1, AuditsAssumption, ImageIsFinite
  <2>3. {created[b] : b \in Audit} \in SUBSET Nat /\ created[a] \in {created[b] : b \in Audit}
    BY <2>1
  <2>4. m \in {created[b] : b \in Audit} /\ \A y \in {created[b] : b \in Audit} : y <= m
    BY <1>2, <2>2, <2>3, MaxIs
  <2>. QED
    BY <2>1, <2>3, <2>4
<1>4. PICK y : y = [audit[a] EXCEPT !.at = "store"]
  OBVIOUS
<1>5. y \in AuditRow /\ y.at = "store" /\ y.drop = audit[a].drop /\ audit' = [audit EXCEPT ![a] = y]
      /\ audit[a].at = "idle"
  BY <1>1, <1>4 DEF BeginAudit, AuditAt, AuditTo, AuditsTyped, AuditRow, AuditPlace
<1>6. audit' \in [Audit -> AuditRow] /\ \A b \in Audit : audit'[b] = IF b = a THEN y ELSE audit[b]
  BY <1>1, <1>5, AuditMoves DEF AuditsTyped
<1>7. created' \in [Audit -> Nat] /\ \A b \in Audit : created'[b] = IF b = a THEN m + 1 ELSE created[b]
  BY <1>1, <1>2, <1>3 DEF BeginAudit, AuditsTyped
<1>8. UNCHANGED <<session, pointer, cut>>
  BY DEF BeginAudit
<1>9. /\ passed' \in [Audit -> SUBSET Audit]
      /\ \A b \in Audit : passed'[b] = IF b \in UnderWay THEN passed[b] \cup {a} ELSE passed[b]
  BY <1>1 DEF BeginAudit, AuditsTyped
<1>10. AuditsTyped'
  BY <1>1, <1>6, <1>7, <1>8, <1>9 DEF AuditsTyped
<1>11. a \notin session /\ pointer # a /\ a \notin cut /\ a \notin UnderWay /\ (\A d \in Audit : a \notin audit[d].drop)
       /\ ~PastStore(a)
  BY <1>1, <1>5 DEF SavesFit, PastStore, UnderWay, AuditsTyped
<1>12. UnderWay' = UnderWay \cup {a} /\ Dropping' = Dropping /\ Storing' = Storing
       /\ \A b \in Audit : PastStore(b)' <=> PastStore(b)
  BY <1>5, <1>6 DEF UnderWay, Dropping, Storing, PastStore
<1>13. \A d \in Audit : audit'[d].drop = audit[d].drop
  BY <1>5, <1>6
<1>14. SavesFit'
  <2>1. m + 1 > 0 /\ \A b \in Audit : created[b] # m + 1
    BY <1>3
  <2>2. \A b \in Audit : audit'[b].at = "idle" <=> created'[b] = 0
    BY <1>1, <1>5, <1>6, <1>7, <2>1 DEF SavesFit
  <2>3. \A b, c \in Audit : created'[b] = created'[c] => b = c \/ created'[b] = 0
    BY <1>1, <1>7, <2>1 DEF SavesFit
  <2>4. \A b \in Audit : pointer' = b => audit'[b].at \in {"list", "drop", "done"}
    BY <1>1, <1>6, <1>8, <1>11 DEF SavesFit
  <2>5. \A b \in cut' : audit'[b].at = "done"
    BY <1>1, <1>6, <1>8, <1>11 DEF SavesFit, AuditsTyped
  <2>6. \A b \in session' : PastStore(b)'
    BY <1>1, <1>8, <1>12 DEF SavesFit, AuditsTyped
  <2>7. \A d \in Audit : \A b \in audit'[d].drop : PastStore(b)'
    <3>1. \A d \in Audit : audit[d].drop \subseteq Audit
      BY <1>1 DEF AuditsTyped, AuditRow, DropSet
    <3>. QED
      BY <1>1, <1>12, <1>13, <3>1 DEF SavesFit
  <2>. QED
    BY <2>2, <2>3, <2>4, <2>5, <2>6, <2>7 DEF SavesFit
<1>15. PassedSince'
  <2>1. ASSUME NEW x \in UnderWay', NEW c \in Audit, created'[c] > created'[x] PROVE c \in passed'[x]
    <3>1. x \in Audit
      BY <2>1 DEF UnderWay
    <3>2. x # a
      BY <1>3, <1>7, <2>1
    <3>3. x \in UnderWay
      BY <1>12, <2>1, <3>2
    <3>4. CASE c = a
      BY <1>9, <3>1, <3>3, <3>4
    <3>5. CASE c # a
      <4>1. created[c] > created[x]
        BY <1>7, <2>1, <3>1, <3>2, <3>5
      <4>2. c \in passed[x]
        BY <1>1, <3>3, <4>1 DEF PassedSince
      <4>. QED
        BY <1>9, <3>1, <4>2
    <3>. QED
      BY <3>4, <3>5
  <2>. QED
    BY <2>1 DEF PassedSince
<1>16. \A b \in Audit : Overtaking(b) \subseteq Overtaking(b)' /\ passed[b] \subseteq passed'[b]
  BY <1>5, <1>6, <1>8, <1>9, <1>12 DEF Overtaking, AuditAt, UnderWay
<1>17. NewerOvertook'
  <2>1. ASSUME NEW b \in Audit, pointer' = b, NEW c \in session', created'[c] > created'[b]
        PROVE  c \in Overtaking(b)'
    <3>1. c \in session /\ c \in Audit /\ c # a /\ b # a /\ pointer = b
      BY <1>1, <1>8, <1>11, <2>1 DEF AuditsTyped
    <3>2. created[c] > created[b]
      BY <1>7, <2>1, <3>1
    <3>3. c \in Overtaking(b)
      BY <3>1, <3>2 DEF AuditsInv, NewerOvertook
    <3>. QED
      BY <1>16, <3>3
  <2>. QED
    BY <2>1 DEF NewerOvertook
<1>18. DoomedWasOvertaken'
  <2>1. ASSUME NEW b \in Audit, Doomed(b)' PROVE Doomed(b) /\ (audit'[b].at = "point" => audit[b].at = "point")
    BY <1>5, <1>6, <1>8, <1>12, <1>13, <2>1 DEF Doomed
  <2>. QED
    BY <1>8, <1>10, <1>16, <2>1, DoomedStays DEF DoomedWasOvertaken
<1>19. Retained'
  BY <1>8, <1>10, <1>12, <1>13, RetainedStays
<1>. QED
  BY <1>10, <1>14, <1>15, <1>17, <1>18, <1>19 DEF AuditsInv

\* A save that is under way goes on; nothing is created.
LEMMA SaveGoesOn ==
  ASSUME AuditsInv, NEW a \in Audit, NEW y \in AuditRow, audit' = [audit EXCEPT ![a] = y], UNCHANGED <<created, passed, cut>>,
         audit[a].at \notin {"idle", "done"}, y.at \notin {"idle", "store"},
         session' \subseteq session \cup {a}, pointer' = pointer \/ pointer' = a,
         pointer' = a => y.at \in {"list", "drop", "done"},
         \A b \in y.drop : PastStore(b) /\ b \in Audit
  PROVE  /\ AuditsTyped' /\ SavesFit' /\ PassedSince'
         /\ \A b \in Audit : audit'[b] = IF b = a THEN y ELSE audit[b]
         /\ \A b \in Audit : PastStore(b)' <=> PastStore(b) \/ b = a
<1>1. AuditsTyped /\ SavesFit /\ PassedSince
  BY DEF AuditsInv
<1>2. audit' \in [Audit -> AuditRow] /\ \A b \in Audit : audit'[b] = IF b = a THEN y ELSE audit[b]
  BY <1>1, AuditMoves DEF AuditsTyped
<1>3. AuditsTyped'
  BY <1>1, <1>2 DEF AuditsTyped, AuditOrNot
<1>4. \A b \in Audit : PastStore(b)' <=> PastStore(b) \/ b = a
  BY <1>2 DEF PastStore
<1>5. SavesFit'
  <2>1. \A b \in Audit : audit'[b].at = "idle" <=> created'[b] = 0
    BY <1>1, <1>2 DEF SavesFit
  <2>2. \A b, c \in Audit : created'[b] = created'[c] => b = c \/ created'[b] = 0
    BY <1>1 DEF SavesFit
  <2>3. \A b \in Audit : pointer' = b => audit'[b].at \in {"list", "drop", "done"}
    BY <1>1, <1>2 DEF SavesFit
  <2>4. \A b \in cut' : audit'[b].at = "done"
    BY <1>1, <1>2 DEF SavesFit, AuditsTyped
  <2>5. \A b \in session' : PastStore(b)'
    BY <1>1, <1>4 DEF SavesFit, AuditsTyped
  <2>6. \A d \in Audit : \A b \in audit'[d].drop : PastStore(b)'
    <3>1. \A d \in Audit : audit[d].drop \subseteq Audit
      BY <1>1 DEF AuditsTyped, AuditRow, DropSet
    <3>. QED
      BY <1>1, <1>2, <1>4, <3>1 DEF SavesFit
  <2>. QED
    BY <2>1, <2>2, <2>3, <2>4, <2>5, <2>6 DEF SavesFit
<1>6. UnderWay' \subseteq UnderWay
  BY <1>2 DEF UnderWay
<1>7. PassedSince'
  BY <1>1, <1>6 DEF PassedSince
<1>. QED
  BY <1>2, <1>3, <1>4, <1>5, <1>7

LEMMA StoreSessionKeeps ==
  ASSUME AuditsInv, NEW a \in Audit, StoreSession(a)
  PROVE  AuditsInv'
<1>1. AuditsTyped /\ SavesFit /\ audit[a].at = "store"
  BY DEF AuditsInv, StoreSession, AuditAt
<1>2. PICK y : y = [audit[a] EXCEPT !.at = "point"]
  OBVIOUS
<1>3. y \in AuditRow /\ y.at = "point" /\ y.drop = audit[a].drop /\ audit' = [audit EXCEPT ![a] = y]
  BY <1>1, <1>2 DEF StoreSession, AuditTo, AuditsTyped, AuditRow, AuditPlace
<1>4. session' = session \cup {a} /\ UNCHANGED <<created, pointer, passed, cut>>
  BY DEF StoreSession
<1>5. pointer # a /\ ~PastStore(a) /\ a \notin session /\ a \notin cut /\ \A d \in Audit : a \notin audit[d].drop
  BY <1>1 DEF SavesFit, PastStore, AuditsTyped
<1>6. \A b \in y.drop : PastStore(b) /\ b \in Audit
  <2>1. audit[a].drop \subseteq Audit
    BY <1>1 DEF AuditsTyped, AuditRow, DropSet
  <2>. QED
    BY <1>1, <1>3, <2>1 DEF SavesFit
<1>7. /\ AuditsTyped' /\ SavesFit' /\ PassedSince'
      /\ \A b \in Audit : audit'[b] = IF b = a THEN y ELSE audit[b]
      /\ \A b \in Audit : PastStore(b)' <=> PastStore(b) \/ b = a
  BY <1>1, <1>3, <1>4, <1>5, <1>6, SaveGoesOn
<1>8. UnderWay' = UnderWay /\ a \in UnderWay /\ Dropping' = Dropping /\ Storing' = Storing \cup {a} /\ a \notin Storing
      /\ a \notin Dropping
  BY <1>1, <1>3, <1>7 DEF UnderWay, Dropping, Storing
<1>9. \A d \in Audit : audit'[d].drop = audit[d].drop
  BY <1>3, <1>7
<1>10. \A b \in Audit : Overtaking(b) \subseteq Overtaking(b)' /\ a \in Overtaking(b)'
  BY <1>3, <1>4, <1>7, <1>8 DEF Overtaking, AuditAt, UnderWay
<1>11. NewerOvertook'
  BY <1>4, <1>10 DEF AuditsInv, NewerOvertook
<1>12. DoomedWasOvertaken'
  <2>1. ASSUME NEW b \in Audit, Doomed(b)' PROVE Doomed(b) /\ (audit'[b].at = "point" => audit[b].at = "point")
    <3>1. b # a
      BY <1>4, <1>5, <1>9, <2>1 DEF Doomed
    <3>. QED
      BY <1>4, <1>7, <1>9, <2>1, <3>1 DEF Doomed
  <2>2. \A b \in Audit : passed[b] \subseteq passed'[b]
    BY <1>4
  <2>. QED
    BY <1>4, <1>7, <1>10, <2>1, <2>2, DoomedStays DEF DoomedWasOvertaken
<1>13. Retained'
  <2>1. ASSUME NEW A \in SUBSET Dropping
        PROVE  Cardinality(session' \ UNION {audit'[b].drop : b \in A})
                 <= Sessions + Cardinality(Storing' \ A) + Cardinality(cut')
    <3>1. {audit'[b].drop : b \in A} = {audit[b].drop : b \in A}
      <4>1. \A b \in A : audit'[b].drop = audit[b].drop
        BY <1>9 DEF Dropping
      <4>. QED
        BY <4>1
    <3>2. PICK S : S = session \ UNION {audit[b].drop : b \in A}
      OBVIOUS
    <3>3. PICK T : T = Storing \ A
      OBVIOUS
    <3>4. S \subseteq Audit /\ T \subseteq Audit /\ a \notin T /\ IsFiniteSet(S) /\ IsFiniteSet(T)
      <4>1. S \subseteq Audit /\ T \subseteq Audit /\ a \notin T
        BY <1>1, <1>8, <3>2, <3>3 DEF AuditsTyped, Storing
      <4>. QED
        BY <4>1, AuditsAssumption, FS_Subset
    <3>5. Storing' \ A = T \cup {a} /\ session' \ UNION {audit'[b].drop : b \in A} \subseteq S \cup {a}
      BY <1>4, <1>8, <2>1, <3>1, <3>2, <3>3
    <3>6. /\ Cardinality(S) <= Sessions + Cardinality(T) + Cardinality(cut)
          /\ Cardinality(S) \in Nat /\ Cardinality(T) \in Nat /\ Cardinality(cut) \in Nat /\ Sessions \in Nat
      <4>1. IsFiniteSet(cut)
        BY <1>1, AuditsAssumption, FS_Subset DEF AuditsTyped
      <4>2. Cardinality(S) <= Sessions + Cardinality(T) + Cardinality(cut)
        BY <3>2, <3>3 DEF AuditsInv, Retained
      <4>. QED
        BY <3>4, <4>1, <4>2, FS_CardinalityType, AuditsAssumption
    <3>7. Cardinality(T \cup {a}) = Cardinality(T) + 1
      BY <3>4, FS_AddElement
    <3>8. Cardinality(S \cup {a}) <= Cardinality(S) + 1 /\ Cardinality(S \cup {a}) \in Nat
      <4>1. Cardinality(S \cup {a}) = IF a \in S THEN Cardinality(S) ELSE Cardinality(S) + 1
        BY <3>4, FS_AddElement
      <4>. QED
        BY <3>6, <4>1
    <3>9. PICK U : U = session' \ UNION {audit'[b].drop : b \in A}
      OBVIOUS
    <3>10. Cardinality(U) <= Cardinality(S \cup {a}) /\ Cardinality(U) \in Nat
      <4>1. U \in SUBSET (S \cup {a}) /\ (S \cup {a}) \in SUBSET Audit
        BY <3>4, <3>5, <3>9
      <4>. QED
        BY <4>1, FewerOf
    <3>11. Cardinality(U) <= Sessions + (Cardinality(T) + 1) + Cardinality(cut)
      BY <3>6, <3>8, <3>10
    <3>. QED
      BY <1>4, <3>5, <3>7, <3>9, <3>11
  <2>. QED
    BY <1>8, <2>1 DEF Retained
<1>. QED
  BY <1>7, <1>11, <1>12, <1>13 DEF AuditsInv

LEMMA PointAtKeeps ==
  ASSUME AuditsInv, NEW a \in Audit, PointAt(a)
  PROVE  AuditsInv'
<1>1. AuditsTyped /\ SavesFit /\ audit[a].at = "point"
  BY DEF AuditsInv, PointAt, AuditAt
<1>2. PICK y : y = [audit[a] EXCEPT !.at = "list"]
  OBVIOUS
<1>3. y \in AuditRow /\ y.at = "list" /\ y.drop = audit[a].drop /\ audit' = [audit EXCEPT ![a] = y]
  BY <1>1, <1>2 DEF PointAt, AuditTo, AuditsTyped, AuditRow, AuditPlace
<1>4. pointer' = a /\ UNCHANGED <<session, created, passed, cut>>
  BY DEF PointAt
<1>5. \A b \in y.drop : PastStore(b) /\ b \in Audit
  <2>1. audit[a].drop \subseteq Audit
    BY <1>1 DEF AuditsTyped, AuditRow, DropSet
  <2>. QED
    BY <1>1, <1>3, <2>1 DEF SavesFit
<1>6. /\ AuditsTyped' /\ SavesFit' /\ PassedSince'
      /\ \A b \in Audit : audit'[b] = IF b = a THEN y ELSE audit[b]
      /\ \A b \in Audit : PastStore(b)' <=> PastStore(b) \/ b = a
  BY <1>1, <1>3, <1>4, <1>5, SaveGoesOn
<1>7. Dropping' = Dropping /\ Storing' = Storing /\ a \in UnderWay /\ PastStore(a)
  BY <1>1, <1>3, <1>6 DEF UnderWay, Dropping, Storing, PastStore
<1>8. \A d \in Audit : audit'[d].drop = audit[d].drop
  BY <1>3, <1>6
<1>9. passed[a] \subseteq Overtaking(a)' /\ Overtaking(a)' \in SUBSET Audit
  BY <1>4, <1>6 DEF Overtaking, AuditsTyped, UnderWay
<1>10. NewerOvertook'
  <2>1. \A c \in session : created[c] > created[a] => c \in passed[a]
    BY <1>1, <1>7 DEF AuditsInv, PassedSince, AuditsTyped
  <2>. QED
    BY <1>4, <1>9, <2>1 DEF NewerOvertook
<1>11. DoomedWasOvertaken'
  <2>1. ASSUME NEW b \in Audit, Doomed(b)'
        PROVE  /\ audit'[b].at = "point" => Cardinality(passed'[b]) >= Sessions
               /\ pointer' = b => Cardinality(Overtaking(b)') >= Sessions
    <3>1. Doomed(b)
      BY <1>4, <1>6, <1>7, <1>8, <2>1 DEF Doomed
    <3>2. audit[b].at = "point" => Cardinality(passed[b]) >= Sessions
      BY <3>1 DEF AuditsInv, DoomedWasOvertaken
    <3>3. CASE b = a
      <4>1. Cardinality(passed[a]) >= Sessions /\ passed[a] \in SUBSET Overtaking(a)'
        BY <1>1, <1>9, <3>2, <3>3
      <4>2. Cardinality(Overtaking(a)') >= Sessions
        BY <1>9, <4>1, EnoughOf
      <4>. QED
        BY <1>3, <1>6, <3>3, <4>2
    <3>4. CASE b # a
      BY <1>4, <1>6, <3>2, <3>4
    <3>. QED
      BY <3>3, <3>4
  <2>. QED
    BY <2>1 DEF DoomedWasOvertaken
<1>12. Retained'
  BY <1>4, <1>6, <1>7, <1>8, RetainedStays
<1>. QED
  BY <1>6, <1>10, <1>11, <1>12 DEF AuditsInv

\* The sessions that are not listed to be deleted are the newest, and no more than are kept.
LEMMA NewestAreKept ==
  ASSUME AuditsInv
  PROVE  Cardinality(session \ Oldest(Sessions)) <= Sessions
<1>1. AuditsTyped /\ SavesFit /\ session \subseteq Audit
  BY DEF AuditsInv, AuditsTyped
<1>2. PICK K : K = session \ Oldest(Sessions)
  OBVIOUS
<1>3. \A b \in K : b \in session /\ ~(Cardinality(Newer(b)) >= Sessions)
  BY <1>2 DEF Oldest
<1>4. \A b \in Audit : Newer(b) \in SUBSET Audit
  BY <1>1 DEF Newer
<1>5. \A b \in Audit : IsFiniteSet(Newer(b)) /\ Cardinality(Newer(b)) \in Nat
  BY <1>4, FewerOf
<1>6. \A b \in Audit : created[b] \in Nat
  BY <1>1 DEF AuditsTyped
<1>7. ASSUME NEW b \in session, NEW c \in session, created[b] > created[c]
      PROVE  Cardinality(Newer(b)) < Cardinality(Newer(c))
  <2>1. b \notin Newer(b) /\ b \in Newer(c)
    BY <1>1, <1>6, <1>7 DEF Newer
  <2>2. Newer(b) \subseteq Newer(c)
    <3>1. \A d \in session : created[d] > created[b] => created[d] > created[c]
      BY <1>1, <1>6, <1>7
    <3>. QED
      BY <3>1 DEF Newer
  <2>3. Newer(b) \cup {b} \in SUBSET Newer(c) /\ Newer(c) \in SUBSET Audit
    BY <1>1, <1>4, <2>1, <2>2
  <2>4. Cardinality(Newer(b) \cup {b}) = Cardinality(Newer(b)) + 1
    BY <1>1, <1>5, <2>1, FS_AddElement
  <2>5. Cardinality(Newer(b) \cup {b}) <= Cardinality(Newer(c)) /\ Cardinality(Newer(c)) \in Nat
    BY <2>3, FewerOf
  <2>6. Cardinality(Newer(b)) \in Nat
    BY <1>1, <1>5
  <2>. QED
    BY <2>4, <2>5, <2>6
<1>8. PICK f : f = [b \in K |-> Cardinality(Newer(b))]
  OBVIOUS
<1>9. f \in [K -> 0 .. (Sessions - 1)]
  <2>1. \A b \in K : Cardinality(Newer(b)) \in Nat /\ ~(Cardinality(Newer(b)) >= Sessions)
    BY <1>1, <1>3, <1>5
  <2>2. Sessions \in Nat
    BY AuditsAssumption
  <2>3. \A b \in K : Cardinality(Newer(b)) \in 0 .. (Sessions - 1)
    BY <2>1, <2>2
  <2>. QED
    BY <1>8, <2>3
<1>10. ASSUME NEW b \in K, NEW c \in K, f[b] = f[c] PROVE b = c
  <2>1. b \in session /\ c \in session /\ b \in Audit /\ c \in Audit
    BY <1>1, <1>3
  <2>2. Cardinality(Newer(b)) = Cardinality(Newer(c))
    BY <1>8, <1>10
  <2>3. Cardinality(Newer(b)) \in Nat /\ Cardinality(Newer(c)) \in Nat
    BY <1>5, <2>1
  <2>4. ~(created[b] > created[c]) /\ ~(created[c] > created[b])
    <3>1. created[b] > created[c] => Cardinality(Newer(b)) < Cardinality(Newer(c))
      BY <1>7, <2>1
    <3>2. created[c] > created[b] => Cardinality(Newer(c)) < Cardinality(Newer(b))
      BY <1>7, <2>1
    <3>. QED
      BY <2>2, <2>3, <3>1, <3>2
  <2>5. created[b] = created[c]
    BY <1>6, <2>1, <2>4
  <2>6. created[b] # 0
    BY <1>1, <2>1 DEF SavesFit, PastStore
  <2>. QED
    BY <1>1, <2>1, <2>5, <2>6 DEF SavesFit
<1>11. f \in Injection(K, 0 .. (Sessions - 1))
  BY <1>9, <1>10 DEF Injection, IsInjective
<1>12. IsFiniteSet(0 .. (Sessions - 1)) /\ Cardinality(0 .. (Sessions - 1)) = Sessions
  <2>1. 0 \in Int /\ Sessions - 1 \in Int /\ Sessions \in Nat /\ Sessions > 0
    BY AuditsAssumption
  <2>2. IsFiniteSet(0 .. (Sessions - 1))
        /\ Cardinality(0 .. (Sessions - 1)) = IF 0 > Sessions - 1 THEN 0 ELSE (Sessions - 1) - 0 + 1
    BY <2>1, FS_Interval
  <2>. QED
    BY <2>1, <2>2
<1>13. Cardinality(K) <= Cardinality(0 .. (Sessions - 1))
  BY <1>11, <1>12, FS_Injection
<1>. QED
  BY <1>2, <1>12, <1>13

LEMMA ListSessionsKeeps ==
  ASSUME AuditsInv, NEW a \in Audit, ListSessions(a)
  PROVE  AuditsInv'
<1>1. AuditsTyped /\ SavesFit /\ audit[a].at = "list"
  BY DEF AuditsInv, ListSessions, AuditAt
<1>2. PICK O : O = Oldest(Sessions)
  OBVIOUS
<1>3. O \subseteq session /\ \A b \in O : Cardinality(Newer(b)) >= Sessions
  BY <1>2 DEF Oldest
<1>4. PICK y : y = [at |-> "drop", drop |-> O]
  OBVIOUS
<1>5. y \in AuditRow /\ y.at = "drop" /\ y.drop = O /\ audit' = [audit EXCEPT ![a] = y]
  <2>1. O \in DropSet
    BY <1>1, <1>3 DEF AuditsTyped, DropSet
  <2>. QED
    BY <1>2, <1>4, <2>1 DEF ListSessions, AuditRow, AuditPlace
<1>6. UNCHANGED <<session, created, pointer, passed, cut>>
  BY DEF ListSessions
<1>7. \A b \in y.drop : PastStore(b) /\ b \in Audit
  BY <1>1, <1>3, <1>5 DEF SavesFit, AuditsTyped
<1>8. /\ AuditsTyped' /\ SavesFit' /\ PassedSince'
      /\ \A b \in Audit : audit'[b] = IF b = a THEN y ELSE audit[b]
      /\ \A b \in Audit : PastStore(b)' <=> PastStore(b) \/ b = a
  BY <1>1, <1>5, <1>6, <1>7, SaveGoesOn
<1>9. Dropping' = Dropping \cup {a} /\ Storing' = Storing /\ a \in Storing /\ PastStore(a)
  BY <1>1, <1>5, <1>8 DEF Dropping, Storing, PastStore
<1>10. \A b \in Audit : Overtaking(b)' = Overtaking(b)
  BY <1>1, <1>5, <1>6, <1>8 DEF Overtaking, UnderWay, AuditAt
<1>11. NewerOvertook'
  BY <1>6, <1>8, <1>10, OvertookStays
<1>12. DoomedWasOvertaken'
  <2>1. ASSUME NEW b \in Audit, Doomed(b)'
        PROVE  /\ audit'[b].at = "point" => Cardinality(passed'[b]) >= Sessions
               /\ pointer' = b => Cardinality(Overtaking(b)') >= Sessions
    <3>1. Doomed(b) \/ b \in O
      BY <1>5, <1>6, <1>8, <1>9, <2>1 DEF Doomed
    <3>2. CASE Doomed(b)
      <4>1. audit'[b].at = "point" => audit[b].at = "point"
        BY <1>5, <1>8
      <4>2. (\A c \in Audit : passed[c] \subseteq passed'[c])
            /\ \A c \in Audit : pointer = c => Overtaking(c) \subseteq Overtaking(c)'
        BY <1>6, <1>10
      <4>. QED
        BY <1>6, <1>8, <3>2, <4>1, <4>2, DoomedStays
    <3>3. CASE b \in O
      <4>1. Cardinality(Newer(b)) >= Sessions
        BY <1>3, <3>3
      <4>2. ASSUME audit'[b].at = "point" PROVE Cardinality(passed'[b]) >= Sessions
        <5>1. b \in UnderWay
          BY <1>5, <1>8, <4>2 DEF UnderWay
        <5>2. Newer(b) \in SUBSET passed[b] /\ passed[b] \in SUBSET Audit
          BY <1>1, <5>1 DEF AuditsInv, PassedSince, Newer, AuditsTyped
        <5>. QED
          BY <1>6, <4>1, <5>2, EnoughOf
      <4>3. ASSUME pointer' = b PROVE Cardinality(Overtaking(b)') >= Sessions
        <5>1. Newer(b) \in SUBSET Overtaking(b)
          BY <1>6, <4>3 DEF AuditsInv, NewerOvertook, Newer
        <5>2. Overtaking(b) \in SUBSET Audit
          BY <1>1, OvertakingIsOf
        <5>3. Cardinality(Overtaking(b)) >= Sessions
          BY <4>1, <5>1, <5>2, EnoughOf
        <5>. QED
          BY <1>10, <5>3
      <4>. QED
        BY <4>2, <4>3
    <3>. QED
      BY <3>1, <3>2, <3>3
  <2>. QED
    BY <2>1 DEF DoomedWasOvertaken
<1>13. Retained'
  <2>1. ASSUME NEW A \in SUBSET Dropping'
        PROVE  Cardinality(session' \ UNION {audit'[b].drop : b \in A})
                 <= Sessions + Cardinality(Storing' \ A) + Cardinality(cut')
    <3>1. PICK U : U = session' \ UNION {audit'[b].drop : b \in A}
      OBVIOUS
    <3>2. CASE a \notin A
      <4>1. A \subseteq Dropping
        BY <1>9, <2>1, <3>2
      <4>2. \A b \in A : audit'[b].drop = audit[b].drop
        BY <1>8, <3>2, <4>1 DEF Dropping
      <4>3. {audit'[b].drop : b \in A} = {audit[b].drop : b \in A}
        BY <4>2
      <4>. QED
        BY <1>6, <1>9, <4>1, <4>3 DEF AuditsInv, Retained
    <3>3. CASE a \in A
      <4>1. U \subseteq session \ O
        BY <1>5, <1>6, <1>8, <3>1, <3>3
      <4>2. Cardinality(session \ O) <= Sessions
        BY <1>2, NewestAreKept
      <4>3. session \ O \in SUBSET Audit /\ Storing \ A \in SUBSET Audit /\ cut \in SUBSET Audit
        BY <1>1 DEF AuditsTyped, Storing
      <4>4. Cardinality(U) <= Cardinality(session \ O) /\ Cardinality(U) \in Nat /\ Cardinality(session \ O) \in Nat
        BY <4>1, <4>3, FewerOf
      <4>5. Cardinality(Storing \ A) \in Nat /\ Cardinality(cut) \in Nat /\ Sessions \in Nat
        BY <4>3, FewerOf, AuditsAssumption
      <4>6. Cardinality(U) <= Sessions + Cardinality(Storing \ A) + Cardinality(cut)
        BY <4>2, <4>4, <4>5
      <4>. QED
        BY <1>6, <1>9, <3>1, <4>6
    <3>. QED
      BY <3>2, <3>3
  <2>. QED
    BY <2>1 DEF Retained
<1>. QED
  BY <1>8, <1>11, <1>12, <1>13 DEF AuditsInv

LEMMA DropSessionKeeps ==
  ASSUME AuditsInv, NEW a \in Audit, DropSession(a)
  PROVE  AuditsInv'
<1>1. AuditsTyped /\ SavesFit /\ audit[a].at = "drop"
  BY DEF AuditsInv, DropSession, AuditAt
<1>2. UNCHANGED <<created, pointer, passed, cut>>
  BY DEF DropSession
<1>3. audit[a] \in AuditRow /\ audit[a].drop \in DropSet
  BY <1>1 DEF AuditsTyped, AuditRow
<1>4. \A b \in audit[a].drop : PastStore(b) /\ b \in Audit
  BY <1>1, <1>3 DEF SavesFit, DropSet
<1>5. CASE audit[a].drop = {}
  <2>1. PICK y : y = [audit[a] EXCEPT !.at = "done"]
    OBVIOUS
  <2>2. y \in AuditRow /\ y.at = "done" /\ y.drop = {} /\ audit' = [audit EXCEPT ![a] = y] /\ UNCHANGED session
    BY <1>3, <1>5, <2>1 DEF DropSession, AuditTo, AuditRow, AuditPlace
  <2>3. /\ AuditsTyped' /\ SavesFit' /\ PassedSince'
        /\ \A b \in Audit : audit'[b] = IF b = a THEN y ELSE audit[b]
        /\ \A b \in Audit : PastStore(b)' <=> PastStore(b) \/ b = a
    BY <1>1, <1>2, <2>2, SaveGoesOn
  <2>4. Dropping' = Dropping \ {a} /\ a \in Dropping /\ Storing' = Storing \ {a} /\ a \in Storing /\ PastStore(a)
    BY <1>1, <2>2, <2>3 DEF Dropping, Storing, PastStore
  <2>5. \A d \in Audit : audit'[d].drop = audit[d].drop
    BY <1>5, <2>2, <2>3
  <2>6. \A b \in Audit : Overtaking(b)' = Overtaking(b)
    BY <1>1, <1>2, <2>2, <2>3 DEF Overtaking, UnderWay, AuditAt
  <2>7. NewerOvertook'
    BY <1>2, <2>2, <2>3, <2>6, OvertookStays
  <2>8. DoomedWasOvertaken'
    <3>1. ASSUME NEW b \in Audit, Doomed(b)' PROVE Doomed(b) /\ (audit'[b].at = "point" => audit[b].at = "point")
      BY <2>2, <2>3, <2>4, <2>5, <3>1 DEF Doomed
    <3>2. (\A c \in Audit : passed[c] \subseteq passed'[c])
          /\ \A c \in Audit : pointer = c => Overtaking(c) \subseteq Overtaking(c)'
      BY <1>2, <2>6
    <3>. QED
      BY <1>2, <2>3, <3>1, <3>2, DoomedStays DEF DoomedWasOvertaken
  <2>9. Retained'
    <3>1. ASSUME NEW A \in SUBSET Dropping'
          PROVE  Cardinality(session' \ UNION {audit'[b].drop : b \in A})
                   <= Sessions + Cardinality(Storing' \ A) + Cardinality(cut')
      <4>1. PICK B : B = A \cup {a}
        OBVIOUS
      <4>2. B \in SUBSET Dropping
        BY <2>4, <3>1, <4>1
      <4>3. UNION {audit[b].drop : b \in B} = UNION {audit'[b].drop : b \in A}
        <5>1. \A b \in A : audit'[b].drop = audit[b].drop
          BY <2>4, <2>5, <3>1 DEF Dropping
        <5>. QED
          BY <1>5, <4>1, <5>1
      <4>4. Storing \ B = Storing' \ A
        BY <2>4, <4>1
      <4>5. Cardinality(session \ UNION {audit[b].drop : b \in B})
              <= Sessions + Cardinality(Storing \ B) + Cardinality(cut)
        BY <4>2 DEF AuditsInv, Retained
      <4>. QED
        BY <1>2, <2>2, <4>3, <4>4, <4>5
    <3>. QED
      BY <3>1 DEF Retained
  <2>. QED
    BY <2>3, <2>7, <2>8, <2>9 DEF AuditsInv
<1>6. CASE audit[a].drop # {}
  <2>1. PICK e \in audit[a].drop : audit' = [audit EXCEPT ![a].drop = @ \ {e}] /\ session' = session \ {e}
    BY <1>6 DEF DropSession
  <2>2. PICK y : y = [audit[a] EXCEPT !.drop = audit[a].drop \ {e}]
    OBVIOUS
  <2>3. audit[a].drop \ {e} \in DropSet
    BY <1>3 DEF DropSet
  <2>4. y \in AuditRow /\ y.at = "drop" /\ y.drop = audit[a].drop \ {e} /\ audit' = [audit EXCEPT ![a] = y]
    BY <1>1, <1>3, <2>1, <2>2, <2>3 DEF AuditRow, AuditsTyped
  <2>5. /\ AuditsTyped' /\ SavesFit' /\ PassedSince'
        /\ \A b \in Audit : audit'[b] = IF b = a THEN y ELSE audit[b]
        /\ \A b \in Audit : PastStore(b)' <=> PastStore(b) \/ b = a
    <3>1. \A b \in y.drop : PastStore(b) /\ b \in Audit
      BY <1>4, <2>4
    <3>2. session' \subseteq session \cup {a}
      BY <2>1
    <3>. QED
      BY <1>1, <1>2, <2>4, <3>1, <3>2, SaveGoesOn
  <2>6. Dropping' = Dropping /\ Storing' = Storing /\ PastStore(a)
    BY <1>1, <2>4, <2>5 DEF Dropping, Storing, PastStore
  <2>7. \A b \in Audit : Overtaking(b)' = Overtaking(b)
    BY <1>1, <1>2, <2>4, <2>5 DEF Overtaking, UnderWay, AuditAt
  <2>8. NewerOvertook'
    <3>1. session' \subseteq session
      BY <2>1
    <3>. QED
      BY <1>2, <2>5, <2>7, <3>1, OvertookStays
  <2>9. DoomedWasOvertaken'
    <3>1. ASSUME NEW b \in Audit, Doomed(b)' PROVE Doomed(b) /\ (audit'[b].at = "point" => audit[b].at = "point")
      <4>1. \A d \in Audit : audit'[d].drop \subseteq audit[d].drop
        BY <2>4, <2>5
      <4>2. audit'[b].at = "point" => audit[b].at = "point"
        BY <2>4, <2>5
      <4>3. CASE b = e
        BY <2>1, <4>2, <4>3 DEF Doomed
      <4>4. CASE b # e
        BY <2>1, <2>5, <2>6, <3>1, <4>1, <4>2, <4>4 DEF Doomed
      <4>. QED
        BY <4>3, <4>4
    <3>2. (\A c \in Audit : passed[c] \subseteq passed'[c])
          /\ \A c \in Audit : pointer = c => Overtaking(c) \subseteq Overtaking(c)'
      BY <1>2, <2>7
    <3>. QED
      BY <1>2, <2>5, <3>1, <3>2, DoomedStays DEF DoomedWasOvertaken
  <2>10. Retained'
    <3>1. ASSUME NEW A \in SUBSET Dropping'
          PROVE  Cardinality(session' \ UNION {audit'[b].drop : b \in A})
                   <= Sessions + Cardinality(Storing' \ A) + Cardinality(cut')
      <4>1. PICK S : S = session \ UNION {audit[b].drop : b \in A}
        OBVIOUS
      <4>2. PICK U : U = session' \ UNION {audit'[b].drop : b \in A}
        OBVIOUS
      <4>3. A \in SUBSET Dropping /\ A \subseteq Audit
        BY <2>6, <3>1 DEF Dropping
      <4>4. U \subseteq S
        <5>1. \A b \in A : audit[b].drop \subseteq audit'[b].drop \cup {e}
          BY <2>4, <2>5, <4>3
        <5>. QED
          BY <2>1, <4>1, <4>2, <5>1
      <4>5. S \in SUBSET Audit /\ cut \in SUBSET Audit /\ Storing \ A \in SUBSET Audit
        BY <1>1, <4>1 DEF AuditsTyped, Storing
      <4>6. Cardinality(U) <= Cardinality(S) /\ Cardinality(U) \in Nat /\ Cardinality(S) \in Nat
        BY <4>4, <4>5, FewerOf
      <4>7. Cardinality(cut) \in Nat /\ Cardinality(Storing \ A) \in Nat /\ Sessions \in Nat
        BY <4>5, FewerOf, AuditsAssumption
      <4>8. Cardinality(S) <= Sessions + Cardinality(Storing \ A) + Cardinality(cut)
        BY <4>1, <4>3 DEF AuditsInv, Retained
      <4>9. Cardinality(U) <= Sessions + Cardinality(Storing \ A) + Cardinality(cut)
        BY <4>6, <4>7, <4>8
      <4>. QED
        BY <1>2, <2>6, <4>2, <4>9
    <3>. QED
      BY <3>1 DEF Retained
  <2>. QED
    BY <2>5, <2>8, <2>9, <2>10 DEF AuditsInv
<1>. QED
  BY <1>5, <1>6

LEMMA AuditsCrashKeeps ==
  ASSUME AuditsInv, AuditsCrash
  PROVE  AuditsInv'
<1>1. AuditsTyped /\ SavesFit
  BY DEF AuditsInv
<1>2. UNCHANGED <<session, created, pointer, passed>> /\ cut' = cut \cup UnderWay
  BY DEF AuditsCrash
<1>3. ASSUME NEW b \in Audit
      PROVE  /\ audit'[b] \in AuditRow
             /\ audit'[b].at = (IF b \in UnderWay THEN "done" ELSE audit[b].at)
             /\ audit'[b].drop = (IF b \in UnderWay THEN {} ELSE audit[b].drop)
  <2>1. CASE b \in UnderWay
    <3>1. audit'[b] = [at |-> "done", drop |-> {}]
      BY <2>1 DEF AuditsCrash
    <3>2. {} \in DropSet
      BY DEF DropSet
    <3>. QED
      BY <2>1, <3>1, <3>2 DEF AuditRow, AuditPlace
  <2>2. CASE b \notin UnderWay
    BY <1>1, <2>2 DEF AuditsCrash, AuditsTyped
  <2>. QED
    BY <2>1, <2>2
<1>4. audit' \in [Audit -> AuditRow]
  <2>1. audit' = [b \in Audit |-> audit'[b]]
    BY DEF AuditsCrash
  <2>. QED
    BY <1>3, <2>1
<1>5. AuditsTyped'
  BY <1>1, <1>2, <1>4 DEF AuditsTyped, UnderWay
<1>6. \A b \in Audit : audit'[b].at \in {"idle", "done"}
  BY <1>3 DEF UnderWay
<1>7. UnderWay' = {} /\ Dropping' = {} /\ Storing' = {}
  BY <1>6 DEF UnderWay, Dropping, Storing
<1>8. \A b \in Audit : PastStore(b) => PastStore(b)'
  BY <1>3 DEF PastStore
<1>9. SavesFit'
  <2>1. \A b \in Audit : audit'[b].at = "idle" <=> created'[b] = 0
    BY <1>1, <1>2, <1>3 DEF SavesFit, UnderWay
  <2>2. \A b, c \in Audit : created'[b] = created'[c] => b = c \/ created'[b] = 0
    BY <1>1, <1>2 DEF SavesFit
  <2>3. \A b \in Audit : pointer' = b => audit'[b].at \in {"list", "drop", "done"}
    BY <1>1, <1>2, <1>3 DEF SavesFit
  <2>4. \A b \in cut' : audit'[b].at = "done"
    BY <1>1, <1>2, <1>3 DEF SavesFit, AuditsTyped, UnderWay
  <2>5. \A b \in session' : PastStore(b)'
    BY <1>1, <1>2, <1>8 DEF SavesFit, AuditsTyped
  <2>6. \A d \in Audit : \A b \in audit'[d].drop : PastStore(b)'
    <3>1. \A d \in Audit : audit[d].drop \subseteq Audit
      BY <1>1 DEF AuditsTyped, AuditRow, DropSet
    <3>. QED
      BY <1>1, <1>3, <1>8, <3>1 DEF SavesFit
  <2>. QED
    BY <2>1, <2>2, <2>3, <2>4, <2>5, <2>6 DEF SavesFit
<1>10. PassedSince'
  BY <1>7 DEF PassedSince
<1>11. \A b \in Audit : Overtaking(b) \subseteq Overtaking(b)'
  BY <1>2 DEF Overtaking
<1>12. NewerOvertook'
  BY <1>2, <1>5, <1>11, OvertookStays
<1>13. DoomedWasOvertaken'
  <2>1. ASSUME NEW b \in Audit, Doomed(b)' PROVE Doomed(b) \/ pointer' # b
    <3>1. CASE \E d \in Audit : b \in audit'[d].drop
      BY <1>3, <3>1 DEF Doomed
    <3>2. CASE b \notin session'
      <4>1. pointer' = b => PastStore(b)
        BY <1>1, <1>2 DEF SavesFit, PastStore
      <4>. QED
        BY <1>2, <3>2, <4>1 DEF Doomed
    <3>. QED
      BY <2>1, <3>1, <3>2 DEF Doomed
  <2>2. \A b \in Audit : passed[b] \subseteq passed'[b]
    BY <1>2
  <2>3. \A b \in Audit : audit'[b].at # "point"
    BY <1>6
  <2>4. ASSUME NEW b \in Audit, Doomed(b)', pointer' = b PROVE Cardinality(Overtaking(b)') >= Sessions
    <3>1. Doomed(b)
      BY <2>1, <2>4
    <3>. QED
      BY <1>2, <1>5, <1>11, <2>2, <2>3, <2>4, <3>1, DoomedStays
  <2>. QED
    BY <2>3, <2>4 DEF DoomedWasOvertaken
<1>14. Retained'
  <2>1. {} \in SUBSET Dropping /\ UNION {audit[b].drop : b \in {}} = {} /\ Storing \ {} = Storing /\ session \ {} = session
    OBVIOUS
  <2>2. Cardinality(session) <= Sessions + Cardinality(Storing) + Cardinality(cut)
    BY <2>1 DEF AuditsInv, Retained
  <2>3. cut \in SUBSET Audit /\ UnderWay \in SUBSET Audit /\ session \in SUBSET Audit
        /\ Storing \in SUBSET UnderWay /\ cut \cap UnderWay = {}
    BY <1>1 DEF AuditsTyped, SavesFit, UnderWay, Storing
  <2>4. IsFiniteSet(cut) /\ IsFiniteSet(UnderWay) /\ Cardinality(cut) \in Nat /\ Cardinality(UnderWay) \in Nat
        /\ Cardinality(session) \in Nat
    BY <2>3, FewerOf
  <2>5. Cardinality(Storing) <= Cardinality(UnderWay) /\ Cardinality(Storing) \in Nat
    BY <2>3, FewerOf
  <2>6. Cardinality(cut \cup UnderWay) = Cardinality(cut) + Cardinality(UnderWay)
    <3>1. Cardinality(cut \cup UnderWay) = Cardinality(cut) + Cardinality(UnderWay) - Cardinality(cut \cap UnderWay)
      BY <2>4, FS_Union
    <3>2. Cardinality(cut \cap UnderWay) = 0
      BY <2>3, FS_EmptySet
    <3>. QED
      BY <2>4, <3>1, <3>2
  <2>7. Sessions \in Nat
    BY AuditsAssumption
  <2>8. Cardinality(session) <= Sessions + 0 + Cardinality(cut \cup UnderWay)
    BY <2>2, <2>4, <2>5, <2>6, <2>7
  <2>9. ASSUME NEW A \in SUBSET Dropping'
        PROVE  Cardinality(session' \ UNION {audit'[b].drop : b \in A})
                 <= Sessions + Cardinality(Storing' \ A) + Cardinality(cut')
    <3>1. A = {}
      BY <1>7, <2>9
    <3>2. session' \ UNION {audit'[b].drop : b \in A} = session
      BY <1>2, <3>1
    <3>3. Storing' \ A = {} /\ Cardinality({}) = 0
      BY <1>7, FS_EmptySet
    <3>. QED
      BY <1>2, <2>8, <3>2, <3>3
  <2>. QED
    BY <2>9 DEF Retained
<1>. QED
  BY <1>5, <1>9, <1>10, <1>12, <1>13, <1>14 DEF AuditsInv

LEMMA AuditsStep ==
  ASSUME AuditsInv, [AuditsNext]_auditVars
  PROVE  AuditsInv'
<1>1. CASE UNCHANGED auditVars
  <2>1. UNCHANGED <<session, created, pointer, audit, passed, cut>>
    BY <1>1 DEF auditVars
  <2>2. AuditsTyped' /\ SavesFit' /\ PassedSince'
    BY <2>1 DEF AuditsInv, AuditsTyped, SavesFit, PassedSince, PastStore, UnderWay
  <2>3. NewerOvertook' /\ DoomedWasOvertaken'
    BY <2>1 DEF AuditsInv, NewerOvertook, DoomedWasOvertaken, Doomed, PastStore, Overtaking,
       UnderWay, AuditAt
  <2>4. Retained'
    BY <2>1 DEF AuditsInv, Retained, Dropping, Storing
  <2>. QED
    BY <2>2, <2>3, <2>4 DEF AuditsInv
<1>2. CASE AuditsNext
  BY <1>2, BeginAuditKeeps, StoreSessionKeeps, PointAtKeeps, ListSessionsKeeps, DropSessionKeeps,
     AuditsCrashKeeps
  DEF AuditsNext
<1>. QED
  BY <1>1, <1>2

LEMMA AuditsInvSafe ==
  ASSUME AuditsInv
  PROVE  AuditsSafe
<1>1. AuditsTyped /\ SavesFit
  BY DEF AuditsInv
<1>2. AuditsTypeOK
  BY <1>1 DEF AuditsTyped, AuditsTypeOK, AuditRow, AuditPlace, DropSet, AuditOrNot
<1>3. LatestIsThere
  <2>1. ASSUME pointer # NoAudit, pointer \notin session PROVE Cardinality(Overtaking(pointer)) >= Sessions
    <3>1. PICK a \in Audit : pointer = a
      BY <1>1, <2>1 DEF AuditsTyped, AuditOrNot
    <3>2. Doomed(a)
      BY <1>1, <2>1, <3>1 DEF Doomed, SavesFit, PastStore
    <3>. QED
      BY <3>1, <3>2 DEF AuditsInv, DoomedWasOvertaken
  <2>. QED
    BY <2>1 DEF LatestIsThere
<1>4. RetentionHolds
  <2>1. {} \in SUBSET Dropping /\ UNION {audit[b].drop : b \in {}} = {} /\ Storing \ {} = Storing /\ session \ {} = session
    OBVIOUS
  <2>2. Cardinality(session) <= Sessions + Cardinality(Storing) + Cardinality(cut)
    BY <2>1 DEF AuditsInv, Retained
  <2>3. cut \in SUBSET Audit /\ UnderWay \in SUBSET Audit /\ session \in SUBSET Audit /\ Storing \in SUBSET UnderWay
    BY <1>1 DEF AuditsTyped, UnderWay, Storing
  <2>4. Cardinality(cut) \in Nat /\ Cardinality(session) \in Nat /\ Cardinality(UnderWay) \in Nat
        /\ Cardinality(Storing) \in Nat /\ Cardinality(Storing) <= Cardinality(UnderWay)
    BY <2>3, FewerOf
  <2>. QED
    BY <2>2, <2>4, AuditsAssumption DEF RetentionHolds
<1>. QED
  BY <1>2, <1>3, <1>4 DEF AuditsSafe

-----------------------------------------------------------------------------
(* Posts *)

Slugs == SUBSET Slug
PostPlace == {"idle", "next", "insert", "update", "back", "done"}
PostRow == [by : Editor \cup {NoEditor}, published : BOOLEAN]
EditorRow == [at : PostPlace, left : Slugs, slug : Slug, publish : BOOLEAN]
PostKept == [Editor -> Slugs]

\* A call that is to read back what it wrote has written it, or had its row taken by another.
PostsInv ==
  /\ post \in [Slug -> PostRow] /\ editor \in [Editor -> EditorRow]
  /\ reported \in PostKept /\ failed \in PostKept /\ stored \in PostKept /\ remade \in PostKept
  /\ \A s \in Slug : post[s].by = NoEditor => post[s] = NoPost
  /\ \A e \in Editor : EditorAt(e, "back") /\ PostThere(editor[e].slug) =>
                         editor[e].slug \in stored[e] \cup remade[e]
  /\ ReportedWasStored

GrownAt(k, g, e, s) ==
  /\ g[e] = k[e] \cup {s} /\ \A d \in Editor : d # e => g[d] = k[d]
  /\ \A d \in Editor : k[d] \subseteq g[d]

LEMMA KeptGrows ==
  ASSUME NEW k \in PostKept, NEW e \in Editor, NEW s \in Slug, NEW g, g = [k EXCEPT ![e] = @ \cup {s}]
  PROVE  g \in PostKept /\ GrownAt(k, g, e, s)
<1>1. k[e] \cup {s} \in Slugs
  BY DEF PostKept, Slugs
<1>2. g = [d \in Editor |-> IF d = e THEN k[e] \cup {s} ELSE k[d]]
  BY DEF PostKept
<1>. QED
  BY <1>1, <1>2 DEF PostKept, GrownAt

LEMMA PostsStart ==
  ASSUME PostsInit
  PROVE  PostsInv
<1>1. NotEditor \in EditorRow /\ NotEditor.at = "idle"
  <2>1. \E s \in Slug : TRUE
    BY EditorAssumption
  <2>2. (CHOOSE s \in Slug : TRUE) \in Slug
    BY <2>1
  <2>. QED
    BY <2>2 DEF NotEditor, EditorRow, PostPlace, Slugs
<1>2. NoPost \in PostRow
  BY DEF NoPost, PostRow
<1>3. [e \in Editor |-> {}] \in PostKept
  BY DEF PostKept, Slugs
<1>. QED
  BY <1>1, <1>2, <1>3 DEF PostsInit, PostsInv, EditorAt, ReportedWasStored

\* A step of a call leaves the others where they are.
LEMMA EditorMoves ==
  ASSUME PostsInv, NEW e \in Editor, NEW y \in EditorRow, editor' = [editor EXCEPT ![e] = y]
  PROVE  editor' \in [Editor -> EditorRow] /\ editor'[e] = y /\ \A d \in Editor : d # e => editor'[d] = editor[d]
  BY DEF PostsInv

LEMMA BeginPostsKeeps ==
  ASSUME PostsInv, NEW e \in Editor, NEW ss \in SUBSET Slug, NEW publish \in BOOLEAN, BeginPosts(e, ss, publish)
  PROVE  PostsInv'
<1>1. PICK y : y = [NotEditor EXCEPT !.at = "next", !.left = ss, !.publish = publish]
  OBVIOUS
<1>2. y = [at |-> "next", left |-> ss, slug |-> NotEditor.slug, publish |-> publish]
  BY <1>1 DEF NotEditor
<1>3. NotEditor.slug \in Slug
  <2>1. \E s \in Slug : TRUE
    BY DEF BeginPosts
  <2>2. (CHOOSE s \in Slug : TRUE) \in Slug
    BY <2>1
  <2>. QED
    BY <2>2 DEF NotEditor
<1>4. y \in EditorRow /\ y.at = "next"
  BY <1>2, <1>3 DEF EditorRow, PostPlace, Slugs
<1>5. editor' = [editor EXCEPT ![e] = y] /\ UNCHANGED <<post, reported, failed, stored, remade>>
  BY <1>1 DEF BeginPosts
<1>6. editor' \in [Editor -> EditorRow] /\ editor'[e] = y /\ \A d \in Editor : d # e => editor'[d] = editor[d]
  BY <1>4, <1>5, EditorMoves
<1>. QED
  BY <1>4, <1>5, <1>6 DEF PostsInv, EditorAt, PostThere, ReportedWasStored

LEMMA LookForPostKeeps ==
  ASSUME PostsInv, NEW e \in Editor, LookForPost(e)
  PROVE  PostsInv'
<1>1. PICK a \in EditorRow : a = editor[e]
  BY DEF PostsInv
<1>2. \E y \in EditorRow : y.at \in {"done", "update", "insert"} /\ editor' = [editor EXCEPT ![e] = y]
  <2>1. CASE a.left = {}
    <3>1. PICK y : y = [a EXCEPT !.at = "done"]
      OBVIOUS
    <3>2. y \in EditorRow /\ y.at = "done"
      BY <1>1, <3>1 DEF EditorRow, PostPlace
    <3>3. editor' = [editor EXCEPT ![e] = y]
      BY <1>1, <2>1, <3>1 DEF LookForPost
    <3>. QED
      BY <3>2, <3>3
  <2>2. CASE a.left # {}
    <3>1. PICK s \in a.left : editor' = [editor EXCEPT ![e].at = IF PostThere(s) THEN "update" ELSE "insert",
                                                      ![e].slug = s, ![e].left = @ \ {s}]
      BY <1>1, <2>2 DEF LookForPost
    <3>2. PICK w \in {"update", "insert"} : w = IF PostThere(s) THEN "update" ELSE "insert"
      OBVIOUS
    <3>3. PICK y : y = [a EXCEPT !.at = w, !.slug = s, !.left = a.left \ {s}]
      OBVIOUS
    <3>4. s \in Slug /\ a.left \ {s} \in Slugs
      BY <1>1 DEF EditorRow, Slugs
    <3>5. y \in EditorRow /\ y.at = w
      BY <1>1, <3>3, <3>4 DEF EditorRow, PostPlace
    <3>6. editor' = [editor EXCEPT ![e] = y]
      BY <1>1, <3>1, <3>2, <3>3 DEF PostsInv
    <3>. QED
      BY <3>5, <3>6
  <2>. QED
    BY <2>1, <2>2
<1>3. PICK y \in EditorRow : y.at \in {"done", "update", "insert"} /\ editor' = [editor EXCEPT ![e] = y]
  BY <1>2
<1>4. editor' \in [Editor -> EditorRow] /\ editor'[e] = y /\ \A d \in Editor : d # e => editor'[d] = editor[d]
  BY <1>3, EditorMoves
<1>5. UNCHANGED <<post, reported, failed, stored, remade>>
  BY DEF LookForPost
<1>. QED
  BY <1>3, <1>4, <1>5 DEF PostsInv, EditorAt, PostThere, ReportedWasStored

\* A call stores its version at its slug: an update of what is there, or a row of its own, which
\* is then theirs who are still to read it back.
LEMMA StorePostKeeps ==
  ASSUME PostsInv, NEW e \in Editor, NEW s \in Slug, s = editor[e].slug,
         editor' = [editor EXCEPT ![e].at = "back"],
         post' = [post EXCEPT ![s] = Columns(e)], stored' = [stored EXCEPT ![e] = @ \cup {s}],
         remade' \in PostKept, \A d \in Editor : remade[d] \subseteq remade'[d],
         PostThere(s) \/ \A d \in Editing(s) : s \in remade'[d], UNCHANGED <<reported, failed>>
  PROVE  PostsInv'
<1>1. PICK a \in EditorRow : a = editor[e]
  BY DEF PostsInv
<1>2. PICK y : y = [a EXCEPT !.at = "back"]
  OBVIOUS
<1>3. y \in EditorRow /\ y.at = "back" /\ y.slug = s
  BY <1>1, <1>2 DEF EditorRow, PostPlace
<1>4. editor' = [editor EXCEPT ![e] = y]
  BY <1>1, <1>2
<1>5. editor' \in [Editor -> EditorRow] /\ editor'[e] = y /\ \A d \in Editor : d # e => editor'[d] = editor[d]
  BY <1>3, <1>4, EditorMoves
<1>6. stored \in PostKept
  BY DEF PostsInv
<1>7. stored' \in PostKept /\ stored'[e] = stored[e] \cup {s} /\ \A d \in Editor : stored[d] \subseteq stored'[d]
  <2>1. /\ stored' \in PostKept /\ stored'[e] = stored[e] \cup {s}
        /\ \A d \in Editor : d # e => stored'[d] = stored[d]
        /\ \A d \in Editor : stored[d] \subseteq stored'[d]
    <3>1. PICK k \in PostKept : k = stored
      BY <1>6
    <3>2. PICK g : g = stored'
      OBVIOUS
    <3>3. g = [k EXCEPT ![e] = @ \cup {s}]
      BY <3>1, <3>2
    <3>4. g \in PostKept /\ GrownAt(k, g, e, s)
      BY <3>3, KeptGrows
    <3>. QED
      BY <3>1, <3>2, <3>4 DEF GrownAt
  <2>. QED
    BY <2>1
<1>8. PICK c : c = Columns(e)
  OBVIOUS
<1>9. c \in PostRow /\ c.by = e /\ e # NoEditor
  BY <1>1, <1>8, EditorAssumption DEF Columns, PostRow, EditorRow
<1>10. post' \in [Slug -> PostRow] /\ post'[s] = c /\ \A t \in Slug : t # s => post'[t] = post[t]
  BY <1>8, <1>9 DEF PostsInv
<1>11. \A t \in Slug : post'[t].by = NoEditor => post'[t] = NoPost
  BY <1>9, <1>10 DEF PostsInv
<1>12. ASSUME NEW d \in Editor, editor'[d].at = "back", post'[editor'[d].slug].by # NoEditor
       PROVE  editor'[d].slug \in stored'[d] \cup remade'[d]
  <2>1. CASE d = e
    BY <1>3, <1>5, <1>7, <2>1
  <2>2. CASE d # e
    <3>1. editor'[d] = editor[d] /\ editor[d].at = "back" /\ editor[d].slug \in Slug
      BY <1>5, <1>12, <2>2 DEF PostsInv, EditorRow
    <3>2. CASE PostThere(editor[d].slug)
      <4>1. editor[d].slug \in stored[d] \cup remade[d]
        BY <3>1, <3>2 DEF PostsInv, EditorAt
      <4>. QED
        BY <1>7, <3>1, <4>1
    <3>3. CASE ~PostThere(editor[d].slug)
      <4>1. editor[d].slug = s
        BY <1>10, <1>12, <3>1, <3>3 DEF PostThere
      <4>2. d \in Editing(s)
        BY <3>1, <4>1 DEF Editing
      <4>. QED
        BY <3>1, <3>3, <4>1, <4>2
    <3>. QED
      BY <3>2, <3>3
  <2>. QED
    BY <2>1, <2>2
<1>13. ReportedWasStored'
  BY <1>7 DEF PostsInv, ReportedWasStored
<1>. QED
  BY <1>5, <1>7, <1>10, <1>11, <1>12, <1>13 DEF PostsInv, EditorAt, PostThere

\* A call goes on to the next post, or to read back a row that is not there.
LEMMA PostAnsweredKeeps ==
  ASSUME PostsInv, NEW e \in Editor, NEW w \in {"next", "back"}, editor' = [editor EXCEPT ![e].at = w],
         reported' \in PostKept, failed' \in PostKept, UNCHANGED <<post, stored, remade>>,
         w = "back" => ~PostThere(editor[e].slug),
         \A d \in Editor : reported'[d] \subseteq reported[d] \cup stored[d] \cup remade[d]
  PROVE  PostsInv'
<1>1. PICK a \in EditorRow : a = editor[e]
  BY DEF PostsInv
<1>2. PICK y : y = [a EXCEPT !.at = w]
  OBVIOUS
<1>3. y \in EditorRow /\ y.at = w /\ y.slug = a.slug
  BY <1>1, <1>2 DEF EditorRow, PostPlace
<1>4. editor' = [editor EXCEPT ![e] = y]
  BY <1>1, <1>2
<1>5. editor' \in [Editor -> EditorRow] /\ editor'[e] = y /\ \A d \in Editor : d # e => editor'[d] = editor[d]
  BY <1>3, <1>4, EditorMoves
<1>6. ReportedWasStored'
  BY DEF PostsInv, ReportedWasStored
<1>. QED
  BY <1>1, <1>3, <1>5, <1>6 DEF PostsInv, EditorAt, PostThere

LEMMA UpdatePostKeeps ==
  ASSUME PostsInv, NEW e \in Editor, UpdatePost(e)
  PROVE  PostsInv'
<1>1. PICK s \in Slug : s = editor[e].slug
  BY DEF PostsInv, EditorRow
<1>2. reported \in PostKept /\ failed \in PostKept /\ remade \in PostKept
  BY DEF PostsInv
<1>3. CASE PostThere(s)
  BY <1>1, <1>2, <1>3, StorePostKeeps DEF UpdatePost
<1>4. CASE ~PostThere(s)
  BY <1>1, <1>2, <1>4, PostAnsweredKeeps DEF UpdatePost
<1>. QED
  BY <1>3, <1>4

LEMMA InsertPostKeeps ==
  ASSUME PostsInv, NEW e \in Editor, InsertPost(e)
  PROVE  PostsInv'
<1>1. PICK s \in Slug : s = editor[e].slug
  BY DEF PostsInv, EditorRow
<1>2. reported \in PostKept /\ failed \in PostKept /\ remade \in PostKept
  BY DEF PostsInv
<1>3. CASE PostThere(s)
  <2>1. failed' = [failed EXCEPT ![e] = @ \cup {s}] /\ UNCHANGED <<post, stored, remade, reported>>
        /\ editor' = [editor EXCEPT ![e].at = "next"]
    BY <1>1, <1>3 DEF InsertPost
  <2>2. failed' \in PostKept
    BY <1>2, <2>1, KeptGrows
  <2>. QED
    BY <1>2, <2>1, <2>2, PostAnsweredKeeps
<1>4. CASE ~PostThere(s)
  <2>1. /\ editor' = [editor EXCEPT ![e].at = "back"] /\ post' = [post EXCEPT ![s] = Columns(e)]
        /\ stored' = [stored EXCEPT ![e] = @ \cup {s}] /\ UNCHANGED <<reported, failed>>
        /\ remade' = [d \in Editor |-> IF d \in Editing(s) THEN remade[d] \cup {s} ELSE remade[d]]
    BY <1>1, <1>4 DEF InsertPost
  <2>2. remade' \in PostKept /\ (\A d \in Editor : remade[d] \subseteq remade'[d])
    BY <1>2, <2>1 DEF PostKept, Slugs
  <2>3. \A d \in Editing(s) : s \in remade'[d]
    BY <2>1 DEF Editing
  <2>. QED
    BY <1>1, <2>1, <2>2, <2>3, StorePostKeeps
<1>. QED
  BY <1>3, <1>4

LEMMA ReportPostKeeps ==
  ASSUME PostsInv, NEW e \in Editor, ReportPost(e)
  PROVE  PostsInv'
<1>1. PICK s \in Slug : s = editor[e].slug
  BY DEF PostsInv, EditorRow
<1>2. reported \in PostKept /\ failed \in PostKept /\ EditorAt(e, "back")
  BY DEF PostsInv, ReportPost
<1>3. UNCHANGED <<post, stored, remade>> /\ editor' = [editor EXCEPT ![e].at = "next"]
  BY DEF ReportPost
<1>4. CASE PostThere(s)
  <2>1. reported' = [reported EXCEPT ![e] = @ \cup {s}] /\ UNCHANGED failed
    BY <1>1, <1>4 DEF ReportPost
  <2>2. s \in stored[e] \cup remade[e]
    BY <1>1, <1>2, <1>4 DEF PostsInv
  <2>3. /\ reported' \in PostKept /\ reported'[e] = reported[e] \cup {s}
        /\ \A d \in Editor : d # e => reported'[d] = reported[d]
        /\ \A d \in Editor : reported[d] \subseteq reported'[d]
    <3>1. PICK k \in PostKept : k = reported
      BY <1>2
    <3>2. PICK g : g = reported'
      OBVIOUS
    <3>3. g = [k EXCEPT ![e] = @ \cup {s}]
      BY <2>1, <3>1, <3>2
    <3>4. g \in PostKept /\ GrownAt(k, g, e, s)
      BY <3>3, KeptGrows
    <3>. QED
      BY <3>1, <3>2, <3>4 DEF GrownAt
  <2>4. \A d \in Editor : reported'[d] \subseteq reported[d] \cup stored[d] \cup remade[d]
    BY <2>2, <2>3
  <2>. QED
    BY <1>2, <1>3, <2>1, <2>3, <2>4, PostAnsweredKeeps
<1>5. CASE ~PostThere(s)
  <2>1. failed' = [failed EXCEPT ![e] = @ \cup {s}] /\ UNCHANGED reported
    BY <1>1, <1>5 DEF ReportPost
  <2>2. failed' \in PostKept
    BY <1>2, <2>1, KeptGrows
  <2>. QED
    BY <1>2, <1>3, <2>1, <2>2, PostAnsweredKeeps
<1>. QED
  BY <1>4, <1>5

LEMMA DeletePostKeeps ==
  ASSUME PostsInv, NEW s \in Slug, DeletePost(s)
  PROVE  PostsInv'
<1>1. NoPost \in PostRow /\ NoPost.by = NoEditor
  BY DEF NoPost, PostRow
<1>2. /\ post' \in [Slug -> PostRow] /\ post'[s] = NoPost /\ \A t \in Slug : t # s => post'[t] = post[t]
      /\ UNCHANGED <<editor, reported, failed, stored, remade>>
  BY <1>1 DEF PostsInv, DeletePost
<1>3. \A e \in Editor : editor[e].slug \in Slug
  BY DEF PostsInv, EditorRow
<1>. QED
  BY <1>1, <1>2, <1>3 DEF PostsInv, EditorAt, PostThere, ReportedWasStored

LEMMA PostsStep ==
  ASSUME PostsInv, [PostsNext]_postVars
  PROVE  PostsInv'
<1>1. ASSUME NEW e \in Editor, NEW ss \in SUBSET Slug, NEW publish \in BOOLEAN, BeginPosts(e, ss, publish)
      PROVE  PostsInv'
  BY <1>1, BeginPostsKeeps
<1>2. ASSUME NEW e \in Editor, LookForPost(e) \/ UpdatePost(e) \/ InsertPost(e) \/ ReportPost(e)
      PROVE  PostsInv'
  BY <1>2, LookForPostKeeps, UpdatePostKeeps, InsertPostKeeps, ReportPostKeeps
<1>3. ASSUME NEW s \in Slug, DeletePost(s)
      PROVE  PostsInv'
  BY <1>3, DeletePostKeeps
<1>4. CASE UNCHANGED postVars
  BY <1>4 DEF postVars, PostsInv, EditorAt, PostThere, ReportedWasStored
<1>. QED
  BY <1>1, <1>2, <1>3, <1>4 DEF PostsNext

LEMMA PostsInvSafe ==
  ASSUME PostsInv
  PROVE  PostsSafe
BY DEF PostsInv, PostsSafe, PostsTypeOK, ReportedWasStored, PostRow, EditorRow, PostPlace,
   PostKept, Slugs

-----------------------------------------------------------------------------
(* Reading a theme *)

Stamped == FileKey \X (Body \cup {NoFile} \cup Nat)
ReaderPlace == {"idle", "working", "live", "list", "read", "done", "over"}
ReadWhat == {"nothing", "one", "all", "set"}
ThemeOrNot == ThemeId \cup {Undefined}
Keys == SUBSET FileKey
FileSet == [print : SUBSET Stamped, set : Listing, at : Nat, began : Nat, clean : BOOLEAN]
ReaderRow == [at : ReaderPlace, reads : ReadWhat, both : BOOLEAN, theme : ThemeOrNot, live : ThemeOrNot,
              todo : Keys, got : FileSet, listed : Listing, old : BOOLEAN, moved : BOOLEAN]
Proof == {"checksum", "time", "nothing"}
Place == {"none", "main", "unpublished"}

\* The fingerprint p was taken of a theme t that held s; a file still has its stamp only if it
\* holds what it held, unless it was changed twice within one tick.
PrintOf(p, s, t) ==
  /\ \A e \in p : e[1] \in FileKey /\ s[e[1]] # NoFile /\ proof[e[1]] # "nothing"
  /\ \A k \in FileKey : s[k] # NoFile => \E e \in p : e[1] = k
  /\ \A e \in p : proof[e[1]] = "checksum" => e[2] = s[e[1]]
  /\ \A e \in p : proof[e[1]] = "time" /\ <<t, e[1]>> \notin blurred =>
       /\ e[2] \in Nat /\ e[2] <= changed[t][e[1]]
       /\ e[2] = changed[t][e[1]] => body[t][e[1]] = s[e[1]]

\* Where s is not what the theme holds, the theme was changed since it was begun to be read.
ChangedSince(s, began, t, K) == \A k \in K : s[k] # body[t][k] => began <= changed[t][k]

CacheFits(x, t) ==
  /\ x.at <= now /\ x.began <= now
  /\ x.print # {} /\ x.clean => PrintOf(x.print, x.set, t)
  /\ ChangedSince(x.set, x.began, t, FileKey)

\* A call that names two themes found the live one where it is, unless themes moved.
NamesTwo(x) ==
  /\ x.at \in {"live", "working", "done"} /\ x.reads = "nothing"
  /\ x.at # "done" => x.theme = Undefined
  /\ x.at # "live" => x.live \in ThemeId
  /\ x.at = "working" /\ ~x.moved => place[x.live] = "main"
  /\ x.at = "done" /\ x.theme = x.live => x.moved

\* A call that reads a set: what it has, what it listed and what is there now.
ReadsSet(x) ==
  /\ x.got.print # {} => PrintOf(x.got.print, x.listed, x.theme)
  /\ x.got.clean => body[x.theme] = x.listed /\ \A k \in FileKey \ x.todo : x.got.set[k] = x.listed[k]
  /\ ChangedSince(x.listed, x.got.began, x.theme, FileKey)
  /\ ChangedSince(x.got.set, x.got.began, x.theme, FileKey \ x.todo)

HasSet(x) ==
  /\ x.theme \in ThemeId
  /\ x.got.clean => \A k \in FileKey : <<x.theme, k>> \notin blurred => x.got.set[k] = x.listed[k]
  /\ \A k \in FileKey : x.got.set[k] # x.listed[k] => x.got.began <= changed[x.theme][k]

ReaderFits(x) ==
  /\ x.got.at <= now /\ x.got.began <= now /\ ~x.old
  /\ x.both => NamesTwo(x)
  /\ x.at = "read" => x.theme \in ThemeId
  /\ x.at = "read" /\ x.reads = "set" => ReadsSet(x)
  /\ x.at = "done" /\ x.reads = "set" => HasSet(x)

WorldFits ==
  /\ proof \in [FileKey -> Proof] /\ body \in [ThemeId -> Listing] /\ place \in [ThemeId -> Place]
  /\ changed \in [ThemeId -> [FileKey -> Nat]] /\ \A t \in ThemeId : \A k \in FileKey : changed[t][k] <= now
  /\ now \in Nat /\ now <= MaxTime /\ changes \in Nat /\ changes <= MaxChanges /\ ours \subseteq ThemeId
  /\ \E m \in ThemeId : {t \in ThemeId : place[t] = "main"} = {m}

ReadsInv ==
  /\ WorldFits
  /\ cached \in [ThemeId -> FileSet] /\ \A t \in ThemeId : CacheFits(cached[t], t)
  /\ reader \in [Reader -> ReaderRow] /\ \A r \in Reader : ReaderFits(reader[r])

LEMMA NoSetIsRow ==
  NoSet \in FileSet /\ NoSet.print = {} /\ NoSet.at = 0 /\ NoSet.began = 0 /\ NoSet.set \in Listing /\ NoSet.clean
<1>1. NoSet.set \in Listing
  BY DEF NoSet, Listing
<1>. QED
  BY <1>1 DEF NoSet, FileSet

LEMMA IdleIsRow ==
  /\ Idle \in ReaderRow /\ Idle.at = "idle" /\ ~Idle.both /\ Idle.reads = "nothing" /\ Idle.got = NoSet /\ ~Idle.old
  /\ Idle.theme = Undefined
  /\ Over \in ReaderRow /\ Over.at = "over" /\ ~Over.both /\ Over.reads = "nothing" /\ Over.got = NoSet /\ ~Over.old
<1>. DEFINE sane(x) == x \in ReaderRow
<1>1. NoSet \in FileSet /\ NoSet.set \in Listing
  BY NoSetIsRow
<1>2. {} \in Keys /\ Undefined \in ThemeOrNot
  BY DEF Keys, ThemeOrNot
<1>3. Idle \in ReaderRow
  BY <1>1, <1>2 DEF Idle, ReaderRow, ReaderPlace, ReadWhat
<1>4. Over \in ReaderRow
  BY <1>1, <1>2 DEF Over, Idle, ReaderRow, ReaderPlace, ReadWhat
<1>. QED
  BY <1>3, <1>4 DEF Idle, Over

LEMMA RestFits ==
  ASSUME now \in Nat, NEW x \in ReaderRow, x.got = NoSet, ~x.both, ~x.old, x.at \notin {"read", "done"}
  PROVE  ReaderFits(x)
<1>1. x.got.at <= now /\ x.got.began <= now
  BY NoSetIsRow
<1>. QED
  BY <1>1 DEF ReaderFits

LEMMA ReadsStart ==
  ASSUME ThemeReadsInit
  PROVE  ReadsInv
<1>1. \A t \in ThemeId : \A k \in FileKey : changed[t][k] = 0
  BY DEF ThemeReadsInit
<1>2. changed \in [ThemeId -> [FileKey -> Nat]]
  BY DEF ThemeReadsInit
<1>3. {t \in ThemeId : place[t] = "main"} = {1} /\ 1 \in ThemeId
  BY DEF ThemeReadsInit, ThemeId
<1>4. WorldFits
  <2>1. now \in Nat /\ now <= MaxTime /\ changes \in Nat /\ changes <= MaxChanges /\ now = 0
    BY ThemeReadsAssumption DEF ThemeReadsInit
  <2>2. proof \in [FileKey -> Proof] /\ body \in [ThemeId -> Listing] /\ place \in [ThemeId -> Place]
        /\ ours \subseteq ThemeId
    BY DEF ThemeReadsInit, Proof, Place
  <2>3. \A t \in ThemeId : \A k \in FileKey : changed[t][k] <= now
    BY <1>1, <2>1
  <2>. QED
    BY <1>2, <1>3, <2>1, <2>2, <2>3 DEF WorldFits
<1>5. now = 0 /\ now \in Nat
  BY DEF ThemeReadsInit
<1>6. cached \in [ThemeId -> FileSet] /\ \A t \in ThemeId : cached[t] = NoSet
  BY NoSetIsRow DEF ThemeReadsInit
<1>7. ASSUME NEW t \in ThemeId PROVE CacheFits(cached[t], t)
  <2>1. ChangedSince(cached[t].set, cached[t].began, t, FileKey)
    <3>1. \A k \in FileKey : changed[t][k] = 0 /\ cached[t].began = 0
      BY <1>1, <1>6, NoSetIsRow
    <3>2. \A k \in FileKey : cached[t].began <= changed[t][k]
      BY <3>1
    <3>. QED
      BY <3>2 DEF ChangedSince
  <2>. QED
    BY <1>5, <1>6, <2>1, NoSetIsRow DEF CacheFits
<1>8. reader \in [Reader -> ReaderRow] /\ \A r \in Reader : reader[r] = Idle
  BY IdleIsRow DEF ThemeReadsInit
<1>9. ReaderFits(Idle)
  BY <1>5, IdleIsRow, RestFits
<1>. QED
  BY <1>4, <1>6, <1>7, <1>8, <1>9 DEF ReadsInv

\* A step of the readers that leaves the themes alone.
LEMMA ReadersMove ==
  ASSUME ReadsInv, UNCHANGED <<world, now, changes>>,
         cached' \in [ThemeId -> FileSet], \A t \in ThemeId : CacheFits(cached'[t], t),
         reader' \in [Reader -> ReaderRow], \A q \in Reader : ReaderFits(reader'[q])
  PROVE  ReadsInv'
<1>1. ASSUME NEW x, ReaderFits(x) PROVE ReaderFits(x)'
  BY <1>1 DEF ReaderFits, NamesTwo, ReadsSet, HasSet, PrintOf, ChangedSince, world
<1>2. ASSUME NEW x, NEW t, CacheFits(x, t) PROVE CacheFits(x, t)'
  BY <1>2 DEF CacheFits, PrintOf, ChangedSince, world
<1>3. WorldFits'
  BY DEF ReadsInv, WorldFits, world
<1>4. \A t \in ThemeId : CacheFits(cached[t], t)'
  <2>. TAKE t \in ThemeId
  <2>1. PICK z : z = cached'[t]
    OBVIOUS
  <2>2. CacheFits(z, t)'
    BY <1>2, <2>1
  <2>. QED
    BY <2>1, <2>2 DEF CacheFits
<1>5. \A q \in Reader : ReaderFits(reader[q])'
  <2>. TAKE q \in Reader
  <2>1. PICK z : z = reader'[q]
    OBVIOUS
  <2>2. ReaderFits(z)'
    BY <1>1, <2>1
  <2>. QED
    BY <2>1, <2>2 DEF ReaderFits, NamesTwo, ReadsSet, HasSet
<1>. QED
  BY <1>3, <1>4, <1>5 DEF ReadsInv

\* A step of one reader that leaves the cache alone too, or stores a set there.
LEMMA ReaderMoves ==
  ASSUME ReadsInv, UNCHANGED <<world, cached, now, changes>>, NEW r \in Reader, NEW y \in ReaderRow,
         ReaderFits(y), reader' = [reader EXCEPT ![r] = y]
  PROVE  ReadsInv'
<1>1. reader \in [Reader -> ReaderRow] /\ \A q \in Reader : ReaderFits(reader[q])
  BY DEF ReadsInv
<1>2. reader' \in [Reader -> ReaderRow] /\ \A q \in Reader : reader'[q] = IF q = r THEN y ELSE reader[q]
  BY <1>1
<1>3. \A q \in Reader : ReaderFits(reader'[q])
  BY <1>1, <1>2
<1>4. cached' \in [ThemeId -> FileSet] /\ \A t \in ThemeId : CacheFits(cached'[t], t)
  BY DEF ReadsInv
<1>. QED
  BY <1>2, <1>3, <1>4, ReadersMove

LEMMA ReaderStores ==
  ASSUME ReadsInv, UNCHANGED <<world, now, changes>>, NEW r \in Reader, NEW y \in ReaderRow,
         ReaderFits(y), reader' = [reader EXCEPT ![r] = y],
         NEW t \in ThemeId, NEW g \in FileSet, CacheFits(g, t), cached' = [cached EXCEPT ![t] = g]
  PROVE  ReadsInv'
<1>1. reader \in [Reader -> ReaderRow] /\ \A q \in Reader : ReaderFits(reader[q])
  BY DEF ReadsInv
<1>2. reader' \in [Reader -> ReaderRow] /\ \A q \in Reader : reader'[q] = IF q = r THEN y ELSE reader[q]
  BY <1>1
<1>3. \A q \in Reader : ReaderFits(reader'[q])
  BY <1>1, <1>2
<1>4. cached \in [ThemeId -> FileSet] /\ \A u \in ThemeId : CacheFits(cached[u], u)
  BY DEF ReadsInv
<1>5. cached' \in [ThemeId -> FileSet] /\ \A u \in ThemeId : cached'[u] = IF u = t THEN g ELSE cached[u]
  BY <1>4
<1>6. \A u \in ThemeId : CacheFits(cached'[u], u)
  BY <1>4, <1>5
<1>. QED
  BY <1>2, <1>3, <1>5, <1>6, ReadersMove

\* Which tools there are: the one that names two themes reads nothing and is given none.
LEMMA ToolsAreTools ==
  ASSUME NEW tool \in ThemeTools \cup FileTools
  PROVE  tool \in Tool /\ (tool.both => tool.reads = "nothing" /\ ~tool.resolves)
<1>1. ASSUME NEW b \in BOOLEAN, NEW what \in {"nothing", "one", "all", "set"}
      PROVE  Use(b, what) \in Tool /\ ~Use(b, what).both
  BY DEF Use, Tool
<1>2. CurrentThemes \in Tool /\ CurrentThemes.reads = "nothing" /\ ~CurrentThemes.resolves
  BY DEF CurrentThemes, Use, Tool
<1>3. CASE tool \in ThemeTools
  BY <1>1, <1>2, <1>3 DEF ThemeTools, Architecture, Preview, ListRemote, Inspect, ByRole, Config,
     SettingsData,
       Dependencies, Search, FindReference
<1>4. CASE tool \in FileTools
  BY <1>1, <1>4 DEF FileTools, FileRead, FileSearch, InspectApp, CheckSummary, CheckIssue,
     CheckRun, FamilyInspect,
       FamilySchema, LiquidParse, LiquidInspect, LiquidValidate
<1>. QED
  BY <1>3, <1>4

LEMMA BeginReads ==
  ASSUME ReadsInv, NEW r \in Reader, NEW tool \in ThemeTools \cup FileTools, NEW t \in ThemeOrNot,
         Begin(r, tool, t)
  PROVE  ReadsInv'
<1>1. PICK y : y = [Idle EXCEPT !.reads = tool.reads, !.both = tool.both, !.theme = t,
       !.at = IF tool.both THEN "live" ELSE IF tool.resolves /\ t = Undefined THEN "working" ELSE "list"]
  OBVIOUS
<1>2. reader' = [reader EXCEPT ![r] = y] /\ UNCHANGED <<world, cached, now, changes>>
  BY <1>1 DEF Begin
<1>3. tool.reads \in ReadWhat /\ tool.both \in BOOLEAN
  BY ToolsAreTools DEF Tool, ReadWhat
<1>4. y \in ReaderRow /\ y.reads = tool.reads /\ ~y.old /\ y.both = tool.both /\ y.theme = t /\ y.got = NoSet
      /\ y.at \in {"live", "working", "list"} /\ (tool.both => y.at = "live")
  BY <1>1, <1>3, IdleIsRow DEF ReaderRow, ReaderPlace
<1>5. tool.both => t = Undefined /\ tool.reads = "nothing"
  BY ToolsAreTools DEF Begin
<1>6. ReaderFits(y)
  <2>1. y.got.at <= now /\ y.got.began <= now
    BY <1>4, NoSetIsRow DEF ReadsInv, WorldFits
  <2>2. y.both => NamesTwo(y)
    BY <1>4, <1>5 DEF NamesTwo
  <2>. QED
    BY <1>4, <2>1, <2>2 DEF ReaderFits
<1>. QED
  BY <1>2, <1>4, <1>6, ReaderMoves

LEMMA FindWorkingKeeps ==
  ASSUME ReadsInv, NEW r \in Reader, FindWorking(r)
  PROVE  ReadsInv'
<1>1. PICK x : x = reader[r]
  OBVIOUS
<1>2. x \in ReaderRow /\ ReaderFits(x) /\ x.at = "working"
  BY <1>1 DEF ReadsInv, FindWorking
<1>3. UNCHANGED <<world, cached, now, changes>>
  BY DEF FindWorking
<1>4. reader \in [Reader -> ReaderRow]
  BY DEF ReadsInv
<1>5. CASE LatestWorking = {} /\ reader' = [reader EXCEPT ![r].at = IF reader[r].both THEN "done" ELSE "live"]
  <2>1. PICK y : y = [x EXCEPT !.at = IF x.both THEN "done" ELSE "live"]
    OBVIOUS
  <2>2. reader' = [reader EXCEPT ![r] = y]
    BY <1>1, <1>5, <2>1
  <2>3. y \in ReaderRow /\ y.old = x.old /\ y.both = x.both /\ y.reads = x.reads /\ y.got = x.got /\ y.theme = x.theme
        /\ y.live = x.live /\ y.moved = x.moved /\ y.at = IF x.both THEN "done" ELSE "live"
    BY <1>2, <2>1 DEF ReaderRow, ReaderPlace
  <2>4. x.both => NamesTwo(x)
    BY <1>2 DEF ReaderFits
  <2>5. y.both => NamesTwo(y)
    BY <1>2, <2>3, <2>4 DEF NamesTwo, ThemeId, Undefined
  <2>6. y.both => y.reads = "nothing"
    BY <2>5 DEF NamesTwo
  <2>7. ReaderFits(y)
    BY <1>2, <2>3, <2>5, <2>6 DEF ReaderFits
  <2>. QED
    BY <1>3, <2>2, <2>3, <2>7, ReaderMoves
<1>6. ASSUME NEW t \in LatestWorking,
             reader' = [reader EXCEPT ![r].theme = t, ![r].at = IF reader[r].both THEN "done" ELSE "list"]
      PROVE  ReadsInv'
  <2>1. PICK y : y = [x EXCEPT !.theme = t, !.at = IF x.both THEN "done" ELSE "list"]
    OBVIOUS
  <2>2. reader' = [reader EXCEPT ![r] = y]
    BY <1>1, <1>6, <2>1
  <2>3. t \in ThemeId /\ place[t] = "unpublished"
    BY <1>6 DEF LatestWorking, WorkingNow, ReadsInv, WorldFits
  <2>4. y \in ReaderRow /\ y.old = x.old /\ y.both = x.both /\ y.reads = x.reads /\ y.got = x.got /\ y.theme = t
        /\ y.live = x.live /\ y.moved = x.moved /\ y.at = IF x.both THEN "done" ELSE "list"
    BY <1>2, <2>1, <2>3 DEF ReaderRow, ReaderPlace, ThemeOrNot
  <2>5. x.both => NamesTwo(x)
    BY <1>2 DEF ReaderFits
  <2>6. y.both => NamesTwo(y)
    BY <1>2, <2>3, <2>4, <2>5 DEF NamesTwo
  <2>7. y.both => y.reads = "nothing"
    BY <2>6 DEF NamesTwo
  <2>8. ReaderFits(y)
    BY <1>2, <2>4, <2>6, <2>7 DEF ReaderFits
  <2>. QED
    BY <1>3, <2>2, <2>4, <2>8, ReaderMoves
<1>. QED
  BY <1>5, <1>6 DEF FindWorking

LEMMA LiveOneIs ==
  ASSUME WorldFits
  PROVE  LiveOne \in ThemeId /\ place[LiveOne] = "main" /\ \A t \in ThemeId : place[t] = "main" => t = LiveOne
<1>1. PICK m \in ThemeId : {t \in ThemeId : place[t] = "main"} = {m}
  BY DEF WorldFits
<1>2. m \in ThemeId /\ place[m] = "main" /\ \A t \in ThemeId : place[t] = "main" => t = m
  BY <1>1
<1>. QED
  BY <1>2 DEF LiveOne

LEMMA FindLiveKeeps ==
  ASSUME ReadsInv, NEW r \in Reader, FindLive(r)
  PROVE  ReadsInv'
<1>1. PICK x : x = reader[r]
  OBVIOUS
<1>2. x \in ReaderRow /\ ReaderFits(x) /\ x.at = "live"
  BY <1>1 DEF ReadsInv, FindLive
<1>3. UNCHANGED <<world, cached, now, changes>>
  BY DEF FindLive
<1>4. reader \in [Reader -> ReaderRow]
  BY DEF ReadsInv
<1>5. PICK m : m = LiveOne
  OBVIOUS
<1>6. m \in ThemeId /\ place[m] = "main"
  BY <1>5, LiveOneIs DEF ReadsInv
<1>7. PICK y : y = IF x.both THEN [x EXCEPT !.at = "working", !.live = m] ELSE [x EXCEPT !.at = "list", !.theme = m]
  OBVIOUS
<1>8. reader' = [reader EXCEPT ![r] = y]
  BY <1>1, <1>4, <1>5, <1>7 DEF FindLive
<1>9. CASE x.both
  <2>1. y \in ReaderRow /\ y.old = x.old /\ y.both /\ y.reads = x.reads /\ y.got = x.got /\ y.theme = x.theme
        /\ y.live = m /\ y.moved = x.moved /\ y.at = "working"
    BY <1>2, <1>6, <1>7, <1>9 DEF ReaderRow, ReaderPlace, ThemeOrNot
  <2>2. NamesTwo(x)
    BY <1>2, <1>9 DEF ReaderFits
  <2>3. NamesTwo(y)
    BY <1>2, <1>6, <2>1, <2>2 DEF NamesTwo
  <2>4. ReaderFits(y)
    BY <1>2, <2>1, <2>3 DEF ReaderFits
  <2>. QED
    BY <1>3, <1>8, <2>1, <2>4, ReaderMoves
<1>10. CASE ~x.both
  <2>1. y \in ReaderRow /\ y.old = x.old /\ ~y.both /\ y.got = x.got /\ y.at = "list"
    BY <1>2, <1>6, <1>7, <1>10 DEF ReaderRow, ReaderPlace, ThemeOrNot
  <2>2. ReaderFits(y)
    BY <1>2, <2>1 DEF ReaderFits
  <2>. QED
    BY <1>3, <1>8, <2>1, <2>2, ReaderMoves
<1>. QED
  BY <1>9, <1>10

LEMMA ReaderEnds ==
  ASSUME ReadsInv, NEW r \in Reader, ListNothing(r) \/ ListGone(r) \/ ReadFails(r)
  PROVE  ReadsInv'
<1>1. reader' = [reader EXCEPT ![r] = Over] /\ UNCHANGED <<world, cached, now, changes>>
  BY DEF ListNothing, ListGone, ReadFails
<1>2. Over \in ReaderRow /\ ReaderFits(Over)
  BY IdleIsRow, RestFits DEF ReadsInv, WorldFits
<1>. QED
  BY <1>1, <1>2, ReaderMoves

\* A cached set that still has the fingerprint of the listing holds what the theme holds.
LEMMA PrintTells ==
  ASSUME ReadsInv, NEW t \in ThemeId, NEW x \in FileSet, x.print # {}, PrintOf(x.print, x.set, t),
         x.print = Fingerprint(t), NEW k \in FileKey, <<t, k>> \notin blurred
  PROVE  x.set[k] = body[t][k]
<1>1. Fingerprint(t) = {Stamp(t, j) : j \in KeysOf(t)}
  BY DEF Fingerprint
<1>2. body[t] \in Listing /\ proof[k] \in Proof
  BY DEF ReadsInv, WorldFits
<1>3. CASE body[t][k] # NoFile
  <2>1. PICK e : e = Stamp(t, k)
    OBVIOUS
  <2>2. e \in x.print
    BY <1>1, <1>3, <2>1 DEF KeysOf
  <2>3. e[1] = k /\ e[2] = IF proof[k] = "checksum" THEN body[t][k] ELSE changed[t][k]
    BY <2>1 DEF Stamp
  <2>4. proof[k] # "nothing"
    BY <2>2, <2>3 DEF PrintOf
  <2>5. CASE proof[k] = "checksum"
    BY <2>2, <2>3, <2>5 DEF PrintOf
  <2>6. CASE proof[k] = "time"
    BY <2>2, <2>3, <2>6 DEF PrintOf
  <2>. QED
    BY <1>2, <2>4, <2>5, <2>6 DEF Proof
<1>4. CASE body[t][k] = NoFile
  <2>1. SUFFICES ASSUME x.set[k] # NoFile PROVE FALSE
    BY <1>4
  <2>2. PICK e \in x.print : e[1] = k
    BY <2>1 DEF PrintOf
  <2>3. PICK j \in KeysOf(t) : e = Stamp(t, j)
    BY <1>1, <2>2
  <2>4. e[1] = j
    BY <2>3 DEF Stamp
  <2>. QED
    BY <1>4, <2>2, <2>3, <2>4 DEF KeysOf
<1>. QED
  BY <1>3, <1>4

LEMMA ListHitKeeps ==
  ASSUME ReadsInv, NEW r \in Reader, ListHit(r)
  PROVE  ReadsInv'
<1>1. PICK x : x = reader[r]
  OBVIOUS
<1>2. x \in ReaderRow /\ ReaderFits(x) /\ x.at = "list" /\ x.reads = "set" /\ x.theme \in ThemeId
      /\ Hit(x.theme)
  BY <1>1 DEF ReadsInv, ListHit, IsThere
<1>3. UNCHANGED <<world, cached, now, changes>>
  BY DEF ListHit
<1>4. reader \in [Reader -> ReaderRow]
  BY DEF ReadsInv
<1>5. PICK c : c = cached[x.theme]
  OBVIOUS
<1>6. c \in FileSet /\ CacheFits(c, x.theme)
  BY <1>2, <1>5 DEF ReadsInv
<1>7. PICK b : b = body[x.theme]
  OBVIOUS
<1>8. b \in Listing
  BY <1>2, <1>7 DEF ReadsInv, WorldFits
<1>9. PICK y : y = [x EXCEPT !.at = "done", !.got = c, !.listed = b, !.old = FALSE]
  OBVIOUS
<1>10. (now - c.at >= SetTtl) = FALSE
  <2>1. now - c.at < SetTtl
    BY <1>2, <1>5 DEF Hit
  <2>2. c.at \in Nat /\ now \in Nat /\ SetTtl \in Nat
    BY <1>6, ThemeReadsAssumption DEF FileSet, ReadsInv, WorldFits
  <2>3. now - c.at \in Int
    BY <2>2
  <2>. QED
    BY <2>1, <2>2, <2>3
<1>11. reader' = [reader EXCEPT ![r] = y]
  BY <1>1, <1>4, <1>5, <1>7, <1>9, <1>10 DEF ListHit
<1>12. y \in ReaderRow /\ y.both = x.both /\ y.reads = "set" /\ y.got = c /\ y.theme = x.theme
       /\ y.listed = b /\ ~y.old /\ y.at = "done"
  BY <1>2, <1>6, <1>8, <1>9 DEF ReaderRow, ReaderPlace
<1>13. ~x.both
  BY <1>2 DEF ReaderFits, NamesTwo
<1>14. HasSet(y)
  <2>1. c.print # {} /\ c.print = Fingerprint(x.theme)
    BY <1>2, <1>5 DEF Hit
  <2>2. c.clean => PrintOf(c.print, c.set, x.theme)
    BY <1>6, <2>1 DEF CacheFits
  <2>3. c.clean => \A k \in FileKey : <<x.theme, k>> \notin blurred => c.set[k] = b[k]
    BY <1>2, <1>6, <1>7, <2>1, <2>2, PrintTells
  <2>4. \A k \in FileKey : c.set[k] # b[k] => c.began <= changed[x.theme][k]
    BY <1>6, <1>7 DEF CacheFits, ChangedSince
  <2>. QED
    BY <1>2, <1>12, <2>3, <2>4 DEF HasSet
<1>15. ReaderFits(y)
  BY <1>6, <1>12, <1>13, <1>14 DEF ReaderFits, CacheFits
<1>. QED
  BY <1>3, <1>11, <1>12, <1>15, ReaderMoves

\* The fingerprint of a listing was taken of the theme as it is.
LEMMA PrintIsOf ==
  ASSUME ReadsInv, NEW t \in ThemeId, Fingerprint(t) # {}
  PROVE  PrintOf(Fingerprint(t), body[t], t)
<1>1. Fingerprint(t) = {Stamp(t, j) : j \in KeysOf(t)} /\ \A j \in KeysOf(t) : proof[j] # "nothing"
  BY DEF Fingerprint
<1>2. KeysOf(t) \subseteq FileKey /\ \A k \in FileKey : k \in KeysOf(t) <=> body[t][k] # NoFile
  BY DEF KeysOf
<1>3. ASSUME NEW e \in Fingerprint(t)
      PROVE  /\ e[1] \in KeysOf(t)
             /\ e[2] = IF proof[e[1]] = "checksum" THEN body[t][e[1]] ELSE changed[t][e[1]]
  <2>1. PICK j \in KeysOf(t) : e = Stamp(t, j)
    BY <1>1
  <2>. QED
    BY <2>1 DEF Stamp
<1>4. \A k \in KeysOf(t) : Stamp(t, k) \in Fingerprint(t) /\ Stamp(t, k)[1] = k
  BY <1>1 DEF Stamp
<1>5. \A k \in FileKey : changed[t][k] \in Nat
  BY DEF ReadsInv, WorldFits
<1>6. \A e \in Fingerprint(t) : proof[e[1]] = "time" =>
        /\ e[2] \in Nat /\ e[2] <= changed[t][e[1]]
  BY <1>2, <1>3, <1>5
<1>. QED
  BY <1>1, <1>2, <1>3, <1>4, <1>6 DEF PrintOf

LEMMA FingerprintIn ==
  ASSUME ReadsInv, NEW t \in ThemeId
  PROVE  Fingerprint(t) \in SUBSET Stamped
<1>1. \A k \in FileKey : body[t][k] \in Body \cup {NoFile} /\ changed[t][k] \in Nat
  BY DEF ReadsInv, WorldFits, Listing
<1>2. \A k \in FileKey : Stamp(t, k) \in Stamped
  BY <1>1 DEF Stamp, Stamped
<1>. QED
  BY <1>2 DEF Fingerprint, KeysOf

LEMMA ListMissKeeps ==
  ASSUME ReadsInv, NEW r \in Reader, ListMiss(r)
  PROVE  ReadsInv'
<1>1. PICK x : x = reader[r]
  OBVIOUS
<1>2. x \in ReaderRow /\ ReaderFits(x) /\ x.at = "list" /\ x.reads # "nothing" /\ x.theme \in ThemeId
  BY <1>1 DEF ReadsInv, ListMiss, IsThere
<1>3. UNCHANGED <<world, cached, now, changes>>
  BY DEF ListMiss
<1>4. reader \in [Reader -> ReaderRow] /\ now \in Nat
  BY DEF ReadsInv, WorldFits
<1>5. PICK b : b = body[x.theme]
  OBVIOUS
<1>6. b \in Listing
  BY <1>2, <1>5 DEF ReadsInv, WorldFits
<1>7. PICK p : p = Fingerprint(x.theme)
  OBVIOUS
<1>8. p \in SUBSET Stamped
  BY <1>2, <1>7, FingerprintIn
<1>9. PICK n : n = now
  OBVIOUS
<1>10. PICK g : g = [NoSet EXCEPT !.print = p, !.began = n]
  OBVIOUS
<1>11. g \in FileSet /\ g.print = p /\ g.began = now /\ g.at = 0 /\ g.set = NoSet.set
  BY <1>4, <1>8, <1>9, <1>10, NoSetIsRow DEF FileSet
<1>12. PICK ks \in IF x.reads = "one" THEN {{k} : k \in FileKey} ELSE {KeysOf(x.theme)} :
         reader' = [reader EXCEPT ![r] = [x EXCEPT !.at = "read", !.todo = ks, !.listed = b, !.got = g]]
  BY <1>1, <1>4, <1>5, <1>7, <1>9, <1>10 DEF ListMiss
<1>13. ks \in Keys
  BY <1>12 DEF Keys, KeysOf
<1>14. PICK y : y = [x EXCEPT !.at = "read", !.todo = ks, !.listed = b, !.got = g]
  OBVIOUS
<1>15. y \in ReaderRow /\ y.old = x.old /\ y.both = x.both /\ y.reads = x.reads /\ y.got = g /\ y.theme = x.theme
       /\ y.listed = b /\ y.todo = ks /\ y.at = "read"
  BY <1>2, <1>6, <1>11, <1>13, <1>14 DEF ReaderRow, ReaderPlace
<1>16. ~x.both
  BY <1>2 DEF ReaderFits, NamesTwo
<1>17. ASSUME x.reads = "set" PROVE ReadsSet(y)
  <2>1. p # {} => PrintOf(p, b, x.theme)
    BY <1>2, <1>5, <1>7, PrintIsOf
  <2>2. ks = KeysOf(x.theme)
    BY <1>12, <1>17
  <2>3. \A k \in FileKey \ ks : g.set[k] = b[k]
    <3>1. \A k \in FileKey \ ks : b[k] = NoFile
      BY <1>5, <2>2 DEF KeysOf
    <3>2. \A k \in FileKey : NoSet.set[k] = NoFile
      BY DEF NoSet
    <3>. QED
      BY <1>11, <3>1, <3>2
  <2>. QED
    BY <1>5, <1>11, <1>15, <2>1, <2>3 DEF ReadsSet, ChangedSince
<1>18. ReaderFits(y)
  BY <1>2, <1>4, <1>11, <1>15, <1>16, <1>17 DEF ReaderFits
<1>. QED
  BY <1>3, <1>12, <1>14, <1>15, <1>18, ReaderMoves

LEMMA ReadSomeKeeps ==
  ASSUME ReadsInv, NEW r \in Reader, ReadSome(r)
  PROVE  ReadsInv'
<1>1. PICK x : x = reader[r]
  OBVIOUS
<1>2. x \in ReaderRow /\ ReaderFits(x) /\ x.at = "read" /\ x.theme \in ThemeId /\ x.todo \in Keys
  BY <1>1 DEF ReadsInv, ReadSome, ReaderFits, ReaderRow
<1>3. UNCHANGED <<world, cached, now, changes>>
  BY DEF ReadSome
<1>4. reader \in [Reader -> ReaderRow]
  BY DEF ReadsInv
<1>5. PICK b : b = body[x.theme]
  OBVIOUS
<1>6. b \in Listing
  BY <1>2, <1>5 DEF ReadsInv, WorldFits
<1>7. PICK ks \in SUBSET reader[r].todo :
        reader' = [reader EXCEPT ![r].todo = @ \ ks,
                    ![r].got.set = [k \in FileKey |-> IF k \in ks THEN body[reader[r].theme][k] ELSE @[k]]]
  BY DEF ReadSome
<1>8. PICK s : s = [k \in FileKey |-> IF k \in ks THEN b[k] ELSE x.got.set[k]]
  OBVIOUS
<1>9. x.got \in FileSet /\ x.got.set \in Listing
  BY <1>2 DEF ReaderRow, FileSet
<1>10. s \in Listing /\ \A k \in FileKey : s[k] = IF k \in ks THEN b[k] ELSE x.got.set[k]
  BY <1>6, <1>8, <1>9 DEF Listing
<1>11. PICK g : g = [x.got EXCEPT !.set = s]
  OBVIOUS
<1>12. g \in FileSet /\ g.print = x.got.print /\ g.began = x.got.began /\ g.at = x.got.at /\ g.set = s
       /\ g.clean = x.got.clean
  BY <1>9, <1>10, <1>11 DEF FileSet
<1>13. PICK y : y = [x EXCEPT !.todo = x.todo \ ks, !.got = g]
  OBVIOUS
<1>14. x.todo \ ks \in Keys
  BY <1>2 DEF Keys
<1>15. y \in ReaderRow /\ y.old = x.old /\ y.both = x.both /\ y.reads = x.reads /\ y.got = g /\ y.theme = x.theme
       /\ y.listed = x.listed /\ y.todo = x.todo \ ks /\ y.at = "read"
  BY <1>2, <1>12, <1>13, <1>14 DEF ReaderRow
<1>16. reader' = [reader EXCEPT ![r] = y]
  BY <1>1, <1>2, <1>4, <1>5, <1>7, <1>8, <1>11, <1>13 DEF ReaderRow, FileSet
<1>17. ~x.both
  BY <1>2 DEF ReaderFits, NamesTwo
<1>18. ASSUME x.reads = "set" PROVE ReadsSet(y)
  <2>1. ReadsSet(x)
    BY <1>2, <1>18 DEF ReaderFits
  <2>2. ks \subseteq x.todo /\ x.todo \subseteq FileKey
    BY <1>1, <1>2, <1>7 DEF Keys
  <2>3. x.got.clean => b = x.listed /\ \A k \in FileKey \ x.todo : x.got.set[k] = x.listed[k]
    BY <1>5, <2>1 DEF ReadsSet
  <2>4. x.got.clean => \A k \in FileKey \ y.todo : s[k] = x.listed[k]
    BY <1>10, <1>15, <2>2, <2>3
  <2>5. ChangedSince(s, x.got.began, x.theme, FileKey \ y.todo)
    BY <1>5, <1>10, <1>15, <2>1, <2>2 DEF ReadsSet, ChangedSince
  <2>. QED
    BY <1>5, <1>12, <1>15, <2>1, <2>3, <2>4, <2>5 DEF ReadsSet
<1>19. ReaderFits(y)
  BY <1>2, <1>12, <1>15, <1>17, <1>18 DEF ReaderFits
<1>. QED
  BY <1>3, <1>15, <1>16, <1>19, ReaderMoves

LEMMA AnswersKeeps ==
  ASSUME ReadsInv, NEW r \in Reader, Answers(r)
  PROVE  ReadsInv'
<1>1. PICK x : x = reader[r]
  OBVIOUS
<1>2. x \in ReaderRow /\ ReaderFits(x) /\ x.at = "read" /\ x.theme \in ThemeId /\ x.todo = {}
  BY <1>1 DEF ReadsInv, Answers, ReaderFits
<1>3. UNCHANGED <<world, now, changes>>
  BY DEF Answers
<1>4. reader \in [Reader -> ReaderRow] /\ cached \in [ThemeId -> FileSet] /\ now \in Nat
  BY DEF ReadsInv, WorldFits
<1>5. CASE x.reads # "set"
  <2>1. reader' = [reader EXCEPT ![r] = Over] /\ UNCHANGED cached
    BY <1>1, <1>4, <1>5 DEF Answers
  <2>2. Over \in ReaderRow /\ ReaderFits(Over)
    BY <1>4, IdleIsRow, RestFits
  <2>. QED
    BY <1>3, <2>1, <2>2, ReaderMoves
<1>6. CASE x.reads = "set"
  <2>1. PICK n : n = now
    OBVIOUS
  <2>2. PICK g : g = [x.got EXCEPT !.at = n]
    OBVIOUS
  <2>3. x.got \in FileSet
    BY <1>2 DEF ReaderRow
  <2>4. g \in FileSet /\ g.print = x.got.print /\ g.began = x.got.began /\ g.at = now /\ g.set = x.got.set
        /\ g.clean = x.got.clean
    BY <1>4, <2>1, <2>2, <2>3 DEF FileSet
  <2>5. PICK y : y = [x EXCEPT !.at = "done", !.got = g]
    OBVIOUS
  <2>6. y \in ReaderRow /\ y.old = x.old /\ y.both = x.both /\ y.reads = x.reads /\ y.got = g /\ y.theme = x.theme
        /\ y.listed = x.listed /\ y.at = "done"
    BY <1>2, <2>4, <2>5 DEF ReaderRow, ReaderPlace
  <2>7. reader' = [reader EXCEPT ![r] = y]
    BY <1>1, <1>4, <1>6, <2>1, <2>2, <2>5 DEF Answers, Filled
  <2>8. cached' = IF g.print # {} THEN [cached EXCEPT ![x.theme] = g] ELSE cached
    BY <1>1, <1>6, <2>1, <2>2, <2>4 DEF Answers, Filled
  <2>9. ReadsSet(x)
    BY <1>2, <1>6 DEF ReaderFits
  <2>10. x.got.clean => \A k \in FileKey : x.got.set[k] = x.listed[k]
    BY <1>2, <2>9 DEF ReadsSet
  <2>11. x.got.set \in Listing /\ x.listed \in Listing
    BY <1>2, <2>3 DEF ReaderRow, FileSet
  <2>12. x.got.clean => x.got.set = x.listed
    BY <2>10, <2>11 DEF Listing
  <2>13. \A k \in FileKey : x.got.set[k] # x.listed[k] => x.got.began <= changed[x.theme][k]
    BY <1>2, <2>9 DEF ReadsSet, ChangedSince
  <2>15. HasSet(y)
    BY <1>2, <2>4, <2>6, <2>10, <2>13 DEF HasSet
  <2>16. ~x.both
    BY <1>2 DEF ReaderFits, NamesTwo
  <2>17. x.got.began <= now
    BY <1>2 DEF ReaderFits
  <2>18. ReaderFits(y)
    <3>1. y.got.at <= now /\ y.got.began <= now
      BY <1>4, <2>4, <2>6, <2>17
    <3>2. ~y.old /\ ~y.both
      BY <1>2, <2>6, <2>16 DEF ReaderFits
    <3>. QED
      BY <2>6, <2>15, <3>1, <3>2 DEF ReaderFits
  <2>19. g.print # {} => CacheFits(g, x.theme)
    <3>1. ChangedSince(g.set, g.began, x.theme, FileKey)
      BY <1>2, <2>4, <2>9 DEF ReadsSet, ChangedSince
    <3>2. g.print # {} /\ g.clean => PrintOf(g.print, g.set, x.theme)
      BY <2>4, <2>9, <2>12 DEF ReadsSet
    <3>. QED
      BY <1>4, <2>4, <2>17, <3>1, <3>2 DEF CacheFits
  <2>20. CASE g.print # {}
    BY <1>2, <1>3, <2>4, <2>6, <2>7, <2>8, <2>18, <2>19, <2>20, ReaderStores
  <2>21. CASE g.print = {}
    BY <1>3, <2>6, <2>7, <2>8, <2>18, <2>21, ReaderMoves
  <2>. QED
    BY <2>20, <2>21
<1>. QED
  BY <1>5, <1>6

LEMMA EditFileKeeps ==
  ASSUME ReadsInv, NEW t \in ThemeId, NEW k \in FileKey, NEW v \in Body \cup {NoFile}, EditFile(t, k, v)
  PROVE  ReadsInv'
<1>1. WorldFits /\ now \in Nat /\ changed \in [ThemeId -> [FileKey -> Nat]]
  BY DEF ReadsInv, WorldFits
<1>2. UNCHANGED <<proof, place, ours, cached, now>>
  BY DEF EditFile
<1>3. /\ changed' \in [ThemeId -> [FileKey -> Nat]]
      /\ \A u \in ThemeId : \A j \in FileKey : changed'[u][j] = IF u = t /\ j = k THEN now ELSE changed[u][j]
  BY <1>1 DEF EditFile
<1>4. /\ body' \in [ThemeId -> Listing]
      /\ \A u \in ThemeId : \A j \in FileKey : body'[u][j] = IF u = t /\ j = k THEN v ELSE body[u][j]
      /\ \A u \in ThemeId : u # t => body'[u] = body[u]
  BY <1>1 DEF EditFile, WorldFits, Listing
<1>5. blurred \subseteq blurred' /\ (proof[k] = "time" /\ changed[t][k] = now => <<t, k>> \in blurred')
  BY DEF EditFile
<1>6. \A u \in ThemeId : \A j \in FileKey :
        changed[u][j] \in Nat /\ changed[u][j] <= now /\ changed'[u][j] \in Nat /\ changed[u][j] <= changed'[u][j]
        /\ changed'[u][j] <= now
  BY <1>1, <1>3 DEF WorldFits
<1>7. WorldFits'
  <2>1. changes' \in Nat /\ changes' <= MaxChanges
    BY <1>1, ThemeReadsAssumption DEF EditFile, Change, WorldFits
  <2>. QED
    BY <1>1, <1>2, <1>3, <1>4, <1>6, <2>1 DEF WorldFits
<1>8. ASSUME NEW p, NEW s, NEW u \in ThemeId, PrintOf(p, s, u)
      PROVE  PrintOf(p, s, u)'
  <2>1. /\ \A e \in p : e[1] \in FileKey /\ s[e[1]] # NoFile /\ proof[e[1]] # "nothing"
        /\ \A j \in FileKey : s[j] # NoFile => \E e \in p : e[1] = j
        /\ \A e \in p : proof[e[1]] = "checksum" => e[2] = s[e[1]]
    BY <1>8 DEF PrintOf
  <2>2. ASSUME NEW e \in p, proof[e[1]] = "time", <<u, e[1]>> \notin blurred'
        PROVE  /\ e[2] \in Nat /\ e[2] <= changed'[u][e[1]]
               /\ e[2] = changed'[u][e[1]] => body'[u][e[1]] = s[e[1]]
    <3>1. e[1] \in FileKey /\ e[2] \in Nat /\ e[2] <= changed[u][e[1]]
          /\ (e[2] = changed[u][e[1]] => body[u][e[1]] = s[e[1]])
      BY <1>5, <1>8, <2>2 DEF PrintOf
    <3>2. CASE u = t /\ e[1] = k
      <4>1. changed[u][e[1]] # now /\ changed'[u][e[1]] = now
        BY <1>3, <1>5, <2>2, <3>1, <3>2
      <4>2. e[2] < now
        <5>1. changed[u][e[1]] \in Nat /\ changed[u][e[1]] <= now
          BY <1>6, <3>1
        <5>. QED
          BY <1>1, <3>1, <4>1, <5>1
      <4>. QED
        BY <1>1, <3>1, <4>1, <4>2
    <3>3. CASE ~(u = t /\ e[1] = k)
      BY <1>3, <1>4, <3>1, <3>3
    <3>. QED
      BY <3>2, <3>3
  <2>. QED
    BY <1>2, <2>1, <2>2 DEF PrintOf
<1>9. ASSUME NEW s, NEW began \in Nat, began <= now, NEW u \in ThemeId, NEW K \in SUBSET FileKey,
             ChangedSince(s, began, u, K)
      PROVE  ChangedSince(s, began, u, K)'
  BY <1>1, <1>3, <1>4, <1>9 DEF ChangedSince
<1>11. \A u \in ThemeId : CacheFits(cached[u], u)'
  <2>. TAKE u \in ThemeId
  <2>1. PICK c : c = cached[u]
    OBVIOUS
  <2>2. c \in FileSet /\ CacheFits(c, u) /\ cached'[u] = c
    BY <1>2, <2>1 DEF ReadsInv
  <2>3. c.at <= now /\ c.began <= now /\ c.began \in Nat
    BY <2>2 DEF CacheFits, FileSet
  <2>4. ChangedSince(c.set, c.began, u, FileKey)'
    BY <1>9, <2>2, <2>3 DEF CacheFits
  <2>5. c.print # {} /\ c.clean => PrintOf(c.print, c.set, u)'
    BY <1>8, <2>2 DEF CacheFits
  <2>6. CacheFits(c, u)'
    BY <1>2, <2>3, <2>4, <2>5 DEF CacheFits
  <2>. QED
    BY <2>2, <2>6 DEF CacheFits
<1>12. ASSUME NEW q \in Reader PROVE reader'[q] \in ReaderRow /\ ReaderFits(reader[q])'
  <2>1. PICK x : x = reader[q]
    OBVIOUS
  <2>2. x \in ReaderRow /\ ReaderFits(x)
    BY <2>1 DEF ReadsInv
  <2>3. x.got \in FileSet /\ x.todo \subseteq FileKey
    BY <2>2 DEF ReaderRow, Keys
  <2>4. x.got.at <= now /\ x.got.began <= now /\ x.got.began \in Nat
    BY <2>2, <2>3 DEF ReaderFits, FileSet
  <2>5. x.both => NamesTwo(x)
    BY <2>2 DEF ReaderFits
  <2>6. CASE x.at = "read" /\ x.theme = t
    <3>1. PICK g : g = [x.got EXCEPT !.clean = FALSE]
      OBVIOUS
    <3>2. g \in FileSet /\ g.print = x.got.print /\ g.began = x.got.began /\ g.at = x.got.at /\ g.set = x.got.set
          /\ ~g.clean
      BY <2>3, <3>1 DEF FileSet
    <3>3. PICK y : y = [x EXCEPT !.got = g]
      OBVIOUS
    <3>4. y \in ReaderRow /\ y.old = x.old /\ y.both = x.both /\ y.reads = x.reads /\ y.got = g /\ y.theme = x.theme
          /\ y.listed = x.listed /\ y.todo = x.todo /\ y.at = "read"
      BY <2>2, <2>6, <3>2, <3>3 DEF ReaderRow
    <3>5. reader'[q] = y
      BY <2>1, <2>2, <2>6, <3>1, <3>3 DEF EditFile, ReaderRow, FileSet
    <3>6. ~x.both
      BY <2>5, <2>6 DEF NamesTwo
    <3>7. ASSUME x.reads = "set" PROVE ReadsSet(y)'
      <4>1. ReadsSet(x)
        BY <2>2, <2>6, <3>7 DEF ReaderFits
      <4>2. x.got.print # {} => PrintOf(x.got.print, x.listed, t)'
        BY <1>8, <2>6, <4>1 DEF ReadsSet
      <4>3. ChangedSince(x.listed, x.got.began, t, FileKey)'
        BY <1>9, <2>4, <2>6, <4>1 DEF ReadsSet
      <4>4. ChangedSince(x.got.set, x.got.began, t, FileKey \ x.todo)'
        BY <1>9, <2>4, <2>6, <4>1 DEF ReadsSet
      <4>. QED
        BY <2>6, <3>2, <3>4, <4>2, <4>3, <4>4 DEF ReadsSet
    <3>8. ReaderFits(y)'
      BY <1>2, <2>2, <2>4, <2>6, <3>2, <3>4, <3>6, <3>7 DEF ReaderFits
    <3>. QED
      BY <3>4, <3>5, <3>8 DEF ReaderFits, NamesTwo, ReadsSet, HasSet
  <2>7. CASE ~(x.at = "read" /\ x.theme = t)
    <3>1. reader'[q] = x
      BY <2>1, <2>7 DEF EditFile
    <3>2. x.both => NamesTwo(x)'
      BY <1>2, <2>5 DEF NamesTwo
    <3>3. ASSUME x.at = "read", x.reads = "set" PROVE ReadsSet(x)'
      <4>1. ReadsSet(x) /\ x.theme \in ThemeId /\ x.theme # t
        BY <2>2, <2>7, <3>3 DEF ReaderFits
      <4>2. x.got.print # {} => PrintOf(x.got.print, x.listed, x.theme)'
        BY <1>8, <4>1 DEF ReadsSet
      <4>3. ChangedSince(x.listed, x.got.began, x.theme, FileKey)'
        BY <1>9, <2>4, <4>1 DEF ReadsSet
      <4>4. ChangedSince(x.got.set, x.got.began, x.theme, FileKey \ x.todo)'
        BY <1>9, <2>4, <4>1 DEF ReadsSet
      <4>5. body'[x.theme] = body[x.theme]
        BY <1>4, <4>1
      <4>. QED
        BY <4>1, <4>2, <4>3, <4>4, <4>5 DEF ReadsSet
    <3>4. ASSUME x.at = "done", x.reads = "set" PROVE HasSet(x)'
      <4>1. HasSet(x)
        BY <2>2, <3>4 DEF ReaderFits
      <4>2. x.theme \in ThemeId
        BY <4>1 DEF HasSet
      <4>3. \A j \in FileKey : x.got.set[j] # x.listed[j] => x.got.began <= changed'[x.theme][j]
        <5>1. \A j \in FileKey : x.got.set[j] # x.listed[j] => x.got.began <= changed[x.theme][j]
          BY <4>1 DEF HasSet
        <5>. QED
          BY <1>6, <2>4, <4>2, <5>1
      <4>. QED
        BY <1>5, <4>1, <4>3 DEF HasSet
    <3>5. ReaderFits(x)'
      BY <1>2, <2>2, <2>4, <3>2, <3>3, <3>4 DEF ReaderFits
    <3>. QED
      BY <2>2, <3>1, <3>5 DEF ReaderFits, NamesTwo, ReadsSet, HasSet
  <2>. QED
    BY <2>6, <2>7
<1>13. reader' \in [Reader -> ReaderRow]
  <2>1. reader' = [q \in Reader |-> reader'[q]]
    BY DEF EditFile
  <2>. QED
    BY <1>12, <2>1
<1>14. cached' \in [ThemeId -> FileSet]
  BY <1>2 DEF ReadsInv
<1>. QED
  BY <1>7, <1>11, <1>12, <1>13, <1>14 DEF ReadsInv

\* A theme moves: whoever looks for a theme is told.
LEMMA ThemesMove ==
  ASSUME ReadsInv, UNCHANGED <<proof, body, changed, ours, cached, blurred, now>>, reader' = Moves,
         changes' \in Nat, changes' <= MaxChanges, place' \in [ThemeId -> Place],
         \E m \in ThemeId : {t \in ThemeId : place'[t] = "main"} = {m}
  PROVE  ReadsInv'
<1>1. WorldFits'
  BY DEF ReadsInv, WorldFits
<1>2. \A u \in ThemeId : CacheFits(cached[u], u)'
  BY DEF ReadsInv, CacheFits, PrintOf, ChangedSince
<1>3. ASSUME NEW q \in Reader PROVE reader'[q] \in ReaderRow /\ ReaderFits(reader[q])'
  <2>1. PICK x : x = reader[q]
    OBVIOUS
  <2>2. x \in ReaderRow /\ ReaderFits(x)
    BY <2>1 DEF ReadsInv
  <2>3. CASE x.at \in {"working", "live"}
    <3>1. PICK y : y = [x EXCEPT !.moved = TRUE]
      OBVIOUS
    <3>2. y \in ReaderRow /\ y.old = x.old /\ y.both = x.both /\ y.reads = x.reads /\ y.got = x.got /\ y.theme = x.theme
          /\ y.live = x.live /\ y.moved /\ y.at = x.at
      BY <2>2, <3>1 DEF ReaderRow
    <3>3. reader'[q] = y
      BY <2>1, <2>3, <3>1 DEF Moves
    <3>4. y.both => NamesTwo(y)'
      BY <2>2, <2>3, <3>2 DEF ReaderFits, NamesTwo
    <3>5. ReaderFits(y)'
      BY <2>2, <2>3, <3>2, <3>4 DEF ReaderFits
    <3>. QED
      BY <3>2, <3>3, <3>5 DEF ReaderFits, NamesTwo, ReadsSet, HasSet
  <2>4. CASE x.at \notin {"working", "live"}
    <3>1. reader'[q] = x
      BY <2>1, <2>4 DEF Moves
    <3>2. ReaderFits(x)'
      BY <2>2, <2>4 DEF ReaderFits, NamesTwo, ReadsSet, HasSet, PrintOf, ChangedSince
    <3>. QED
      BY <2>2, <3>1, <3>2 DEF ReaderFits, NamesTwo, ReadsSet, HasSet
  <2>. QED
    BY <2>3, <2>4
<1>4. reader' \in [Reader -> ReaderRow]
  <2>1. reader' = [q \in Reader |-> reader'[q]]
    BY DEF Moves
  <2>. QED
    BY <1>3, <2>1
<1>5. cached' \in [ThemeId -> FileSet]
  BY DEF ReadsInv
<1>. QED
  BY <1>1, <1>2, <1>3, <1>4, <1>5 DEF ReadsInv

LEMMA ThemeMoves ==
  ASSUME ReadsInv, NEW t \in ThemeId, PublishTheme(t) \/ RemoveTheme(t)
  PROVE  ReadsInv'
<1>1. changes' \in Nat /\ changes' <= MaxChanges
  BY ThemeReadsAssumption DEF PublishTheme, RemoveTheme, Change, ReadsInv, WorldFits
<1>2. PICK m : m = LiveOne
  OBVIOUS
<1>3. m \in ThemeId /\ place[m] = "main" /\ (\A u \in ThemeId : place[u] = "main" => u = m)
      /\ place \in [ThemeId -> Place] /\ place[t] = "unpublished"
  BY <1>2, LiveOneIs DEF ReadsInv, WorldFits, PublishTheme, RemoveTheme
<1>4. CASE PublishTheme(t)
  <2>1. place' = [u \in ThemeId |-> IF u = t THEN "main" ELSE IF u = m THEN "unpublished" ELSE place[u]]
    BY <1>2, <1>4 DEF PublishTheme
  <2>2. place' \in [ThemeId -> Place]
    BY <1>3, <2>1 DEF Place
  <2>3. \A u \in ThemeId : place'[u] = "main" <=> u = t
    BY <1>3, <2>1
  <2>4. {u \in ThemeId : place'[u] = "main"} = {t}
    BY <2>3
  <2>. QED
    BY <1>1, <1>4, <2>2, <2>4, ThemesMove DEF PublishTheme
<1>5. CASE RemoveTheme(t)
  <2>1. place' = [place EXCEPT ![t] = "none"]
    BY <1>5 DEF RemoveTheme
  <2>2. place' \in [ThemeId -> Place]
    BY <1>3, <2>1 DEF Place
  <2>3. \A u \in ThemeId : place'[u] = "main" <=> u = m
    BY <1>3, <2>1
  <2>4. {u \in ThemeId : place'[u] = "main"} = {m}
    BY <1>3, <2>3
  <2>. QED
    BY <1>1, <1>3, <1>5, <2>2, <2>4, ThemesMove DEF RemoveTheme
<1>. QED
  BY <1>4, <1>5

LEMMA TimePasses ==
  ASSUME ReadsInv, PassTime
  PROVE  ReadsInv'
<1>1. now \in Nat /\ now' \in Nat /\ now <= now' /\ now' <= MaxTime
  BY ThemeReadsAssumption DEF ReadsInv, WorldFits, PassTime
<1>2. UNCHANGED <<world, cached, reader, changes>>
  BY DEF PassTime
<1>3. \A n \in Nat : n <= now => n <= now'
  BY <1>1
<1>4. WorldFits'
  <2>1. \A t \in ThemeId : \A k \in FileKey : changed[t][k] \in Nat /\ changed[t][k] <= now
    BY DEF ReadsInv, WorldFits
  <2>2. \A t \in ThemeId : \A k \in FileKey : changed[t][k] <= now'
    BY <1>3, <2>1
  <2>. QED
    BY <1>1, <1>2, <2>2 DEF ReadsInv, WorldFits, world
<1>5. ASSUME NEW t \in ThemeId PROVE CacheFits(cached[t], t)'
  <2>1. cached[t] \in FileSet /\ CacheFits(cached[t], t)
    BY DEF ReadsInv
  <2>2. cached[t].at \in Nat /\ cached[t].began \in Nat
    BY <2>1 DEF FileSet
  <2>. QED
    BY <1>2, <1>3, <2>1, <2>2 DEF CacheFits, PrintOf, ChangedSince, world
<1>6. ASSUME NEW q \in Reader PROVE ReaderFits(reader[q])'
  <2>1. PICK x : x = reader[q]
    OBVIOUS
  <2>2. x \in ReaderRow /\ ReaderFits(x) /\ reader'[q] = x
    BY <1>2, <2>1 DEF ReadsInv
  <2>3. x.got.at \in Nat /\ x.got.began \in Nat
    BY <2>2 DEF ReaderRow, FileSet
  <2>4. x.got.at <= now' /\ x.got.began <= now'
    BY <1>3, <2>2, <2>3 DEF ReaderFits
  <2>5. ReaderFits(x)'
    BY <1>2, <2>2, <2>4 DEF ReaderFits, NamesTwo, ReadsSet, HasSet, PrintOf, ChangedSince, world
  <2>. QED
    BY <2>2, <2>5 DEF ReaderFits, NamesTwo, ReadsSet, HasSet
<1>. QED
  BY <1>2, <1>4, <1>5, <1>6 DEF ReadsInv

LEMMA EngineGoes ==
  ASSUME ReadsInv, DropEngine
  PROVE  ReadsInv'
<1>1. UNCHANGED <<world, reader, now>> /\ changes' \in Nat /\ changes' <= MaxChanges
  BY ThemeReadsAssumption DEF DropEngine, Change, ReadsInv, WorldFits
<1>2. cached' \in [ThemeId -> FileSet] /\ \A t \in ThemeId : cached'[t] = NoSet
  BY NoSetIsRow DEF DropEngine
<1>3. WorldFits'
  BY <1>1 DEF ReadsInv, WorldFits, world
<1>4. ASSUME NEW t \in ThemeId PROVE CacheFits(cached[t], t)'
  <2>1. \A k \in FileKey : NoSet.began <= changed[t][k]
    BY NoSetIsRow DEF ReadsInv, WorldFits
  <2>2. ChangedSince(NoSet.set, NoSet.began, t, FileKey)
    BY <2>1 DEF ChangedSince
  <2>3. NoSet.at <= now /\ NoSet.began <= now
    BY NoSetIsRow DEF ReadsInv, WorldFits
  <2>. QED
    BY <1>1, <1>2, <2>2, <2>3, NoSetIsRow DEF CacheFits, ChangedSince, world
<1>5. ASSUME NEW q \in Reader PROVE ReaderFits(reader[q])'
  BY <1>1 DEF ReadsInv, ReaderFits, NamesTwo, ReadsSet, HasSet, PrintOf, ChangedSince, world
<1>. QED
  BY <1>1, <1>2, <1>3, <1>4, <1>5 DEF ReadsInv

LEMMA ReadsStep ==
  ASSUME ReadsInv, [ThemeReadsNext]_readVars
  PROVE  ReadsInv'
<1>1. CASE UNCHANGED readVars
  <2>1. UNCHANGED <<world, now, changes>> /\ UNCHANGED <<cached, reader>>
    BY <1>1 DEF readVars, world
  <2>2. /\ cached' \in [ThemeId -> FileSet] /\ reader' \in [Reader -> ReaderRow]
        /\ \A t \in ThemeId : CacheFits(cached'[t], t)
        /\ \A q \in Reader : ReaderFits(reader'[q])
    BY <2>1 DEF ReadsInv
  <2>. QED
    BY <2>1, <2>2, ReadersMove
<1>2. CASE \E r \in Reader : \E tool \in ThemeTools \cup FileTools, t \in ThemeId \cup {Undefined} :
             Begin(r, tool, t)
  BY <1>2, BeginReads DEF ThemeOrNot
<1>3. CASE \E r \in Reader : ReadStep(r)
  <2>1. PICK r \in Reader : ReadStep(r)
    BY <1>3
  <2>. QED
    BY <2>1, FindWorkingKeeps, FindLiveKeeps, ReaderEnds, ListHitKeeps, ListMissKeeps,
       ReadSomeKeeps, AnswersKeeps
    DEF ReadStep
<1>4. CASE \E t \in ThemeId, k \in FileKey, v \in Body \cup {NoFile} : EditFile(t, k, v)
  BY <1>4, EditFileKeeps
<1>5. CASE \E t \in ThemeId : PublishTheme(t) \/ RemoveTheme(t)
  BY <1>5, ThemeMoves
<1>6. CASE PassTime \/ DropEngine
  BY <1>6, TimePasses, EngineGoes
<1>7. CASE ThemeReadsNext
  BY <1>2, <1>3, <1>4, <1>5, <1>6, <1>7 DEF ThemeReadsNext
<1>. QED
  BY <1>1, <1>7

LEMMA ReadsInvSafe ==
  ASSUME ReadsInv
  PROVE  ReadsSafe
<1>1. ThemeReadsTypeOK
  <2>1. Cardinality({t \in ThemeId : place[t] = "main"}) = 1
    <3>1. PICK m \in ThemeId : {t \in ThemeId : place[t] = "main"} = {m}
      BY DEF ReadsInv, WorldFits
    <3>. QED
      BY <3>1, FS_Singleton
  <2>2. \A r \in Reader : /\ reader[r].at \in {"idle", "working", "live", "list", "read", "done", "over"}
                          /\ reader[r].reads \in {"nothing", "one", "all", "set"} /\ reader[r].todo \subseteq FileKey
                          /\ reader[r].theme \in ThemeId \cup {Undefined} /\ reader[r].got.set \in Listing
    <3>1. \A r \in Reader : reader[r] \in ReaderRow
      BY DEF ReadsInv
    <3>2. \A x \in ReaderRow : x.at \in ReaderPlace /\ x.reads \in ReadWhat /\ x.todo \in Keys
                              /\ x.theme \in ThemeOrNot /\ x.got \in FileSet
      BY DEF ReaderRow
    <3>3. \A g \in FileSet : g.set \in Listing
      BY DEF FileSet
    <3>. QED
      BY <3>1, <3>2, <3>3 DEF ReaderPlace, ReadWhat, Keys, ThemeOrNot
  <2>3. \A t \in ThemeId : cached[t].set \in Listing /\ cached[t].at \in 0 .. now
    <3>. TAKE t \in ThemeId
    <3>1. cached[t] \in FileSet /\ CacheFits(cached[t], t)
      BY DEF ReadsInv
    <3>2. cached[t].set \in Listing /\ cached[t].at \in Nat /\ cached[t].at <= now
      BY <3>1 DEF FileSet, CacheFits
    <3>. QED
      BY <3>2 DEF ReadsInv, WorldFits
  <2>4. now \in 0 .. MaxTime /\ changes \in 0 .. MaxChanges
    BY ThemeReadsAssumption DEF ReadsInv, WorldFits
  <2>. QED
    BY <2>1, <2>2, <2>3, <2>4 DEF ThemeReadsTypeOK, ReadsInv, WorldFits, Proof, Place
<1>2. \A r \in Reader : ReaderFits(reader[r])
  BY DEF ReadsInv
<1>3. \A r \in Reader : reader[r].at = "done" /\ reader[r].reads = "set" => HasSet(reader[r])
  BY <1>2 DEF ReaderFits
<1>4. AnsweredAsListed
  BY <1>3 DEF AnsweredAsListed, Got, HasSet
<1>5. StaleSetEnds
  <2>. SUFFICES ASSUME NEW r \in Reader, Got(r)
       PROVE  /\ ~reader[r].old
              /\ \A k \in FileKey : reader[r].got.set[k] # reader[r].listed[k] =>
                                      changed[reader[r].theme][k] >= reader[r].got.began
    BY DEF StaleSetEnds
  <2>1. HasSet(reader[r])
    BY <1>3 DEF Got
  <2>2. reader[r].got.began \in Nat
    BY DEF ReadsInv, ReaderRow, FileSet
  <2>3. \A k \in FileKey : changed[reader[r].theme][k] \in Nat
    BY <2>1 DEF HasSet, ReadsInv, WorldFits
  <2>4. \A k \in FileKey : reader[r].got.set[k] # reader[r].listed[k] =>
                                      reader[r].got.began <= changed[reader[r].theme][k]
    BY <2>1 DEF HasSet
  <2>5. \A k \in FileKey : reader[r].got.set[k] # reader[r].listed[k] =>
                                      changed[reader[r].theme][k] >= reader[r].got.began
    BY <2>2, <2>3, <2>4
  <2>. QED
    BY <1>2, <2>5 DEF ReaderFits
<1>6. LiveIsNotWorking
  <2>1. \A r \in Reader : reader[r].both => NamesTwo(reader[r])
    BY <1>2 DEF ReaderFits
  <2>. QED
    BY <2>1 DEF LiveIsNotWorking, NamesTwo
<1>. QED
  BY <1>1, <1>4, <1>5, <1>6 DEF ReadsSafe

-----------------------------------------------------------------------------
(* The theorems about the other records *)

\* The skills of a shop, however the calls that write, switch and delete them overlap (SkillRepo).
THEOREM SkillsAreSafe == SkillsSpec => []SkillsSafe
<1>1. SkillsInit => SkillsInv
  BY SkillsStart
<1>2. SkillsInv /\ [SkillsNext]_skillVars => SkillsInv'
  BY SkillsStep
<1>3. SkillsInv => SkillsSafe
  BY SkillsInvSafe
<1>. QED
  BY <1>1, <1>2, <1>3, PTL DEF SkillsSpec

\* The design manifests of a shop: one number each, and the latest activation is the active one
\* unless activations met (DesignManifestRepo).
THEOREM ManifestsAreSafe == ManifestsSpec => []ManifestsSafe
<1>1. ManifestsInit => ManifestsInv
  BY ManifestsStart
<1>2. ManifestsInv /\ [ManifestsNext]_manifestVars => ManifestsInv'
  BY ManifestsStep
<1>3. ManifestsInv => ManifestsSafe
  BY ManifestsInvSafe
<1>. QED
  BY <1>1, <1>2, <1>3, PTL DEF ManifestsSpec

\* A ticket, its thread and its status agree, and the limit on open tickets is passed for the reasons
\* named only (SupportTicketRepo and the routes that write it).
THEOREM DeskIsSafe == DeskSpec => []DeskSafe
<1>1. DeskInit => DeskInv
  BY DeskStart
<1>2. DeskInv /\ [DeskNext]_deskVars => DeskInv'
  BY DeskStep
<1>3. DeskInv => DeskSafe
  BY DeskInvSafe
<1>. QED
  BY <1>1, <1>2, <1>3, PTL DEF DeskSpec

\* The stored audit sessions stay within what is kept, and the latest one is there unless it was
\* overtaken by as many (saveSession).
THEOREM AuditsAreSafe == AuditsSpec => []AuditsSafe
<1>1. AuditsInit => AuditsInv
  BY AuditsStart
<1>2. AuditsInv /\ [AuditsNext]_auditVars => AuditsInv'
  BY AuditsStep
<1>3. AuditsInv => AuditsSafe
  BY AuditsInvSafe
<1>. QED
  BY <1>1, <1>2, <1>3, PTL DEF AuditsSpec

\* An import of posts reports what it stored (PostRepo, importPosts).
THEOREM PostsAreSafe == PostsSpec => []PostsSafe
<1>1. PostsInit => PostsInv
  BY PostsStart
<1>2. PostsInv /\ [PostsNext]_postVars => PostsInv'
  BY PostsStep
<1>3. PostsInv => PostsSafe
  BY PostsInvSafe
<1>. QED
  BY <1>1, <1>2, <1>3, PTL DEF PostsSpec

\* What a tool is answered of a theme is what its own listing said, apart from stamps that could not
\* tell (loadThemeFileSet and the theme tools).
THEOREM ReadsAreSafe == ThemeReadsSpec => []ReadsSafe
<1>1. ThemeReadsInit => ReadsInv
  BY ReadsStart
<1>2. ReadsInv /\ [ThemeReadsNext]_readVars => ReadsInv'
  BY ReadsStep
<1>3. ReadsInv => ReadsSafe
  BY ReadsInvSafe
<1>. QED
  BY <1>1, <1>2, <1>3, PTL DEF ThemeReadsSpec

\* A behaviour of the instance that is checked is about one of these records at a time.
LEMMA OneAtATime ==
  ASSUME [RecordsNext]_recordVars
  PROVE  /\ [SkillsNext]_skillVars /\ [ManifestsNext]_manifestVars /\ [DeskNext]_deskVars
         /\ [AuditsNext]_auditVars /\ [PostsNext]_postVars /\ [ThemeReadsNext]_readVars
<1>1. CASE UNCHANGED recordVars
  BY <1>1 DEF recordVars
<1>2. CASE RecordsNext
  BY <1>2 DEF RecordsNext, ReadingMoves
<1>. QED
  BY <1>1, <1>2

\* The records that requests write side by side are what they should be, all of them (skills, design
\* manifests, support tickets, audit sessions, posts and what is read of a theme).
THEOREM RecordsAreSafe == RecordsSpec => []RecordsSafe
<1>. DEFINE Inv == SkillsInv /\ ManifestsInv /\ DeskInv /\ AuditsInv /\ PostsInv /\ ReadsInv
<1>1. RecordsInit => Inv
  BY SkillsStart, ManifestsStart, DeskStart, AuditsStart, PostsStart, ReadsStart DEF RecordsInit
<1>2. Inv /\ [RecordsNext]_recordVars => Inv'
  BY OneAtATime, SkillsStep, ManifestsStep, DeskStep, AuditsStep, PostsStep, ReadsStep
<1>3. Inv => RecordsSafe
  BY SkillsInvSafe, ManifestsInvSafe, DeskInvSafe, AuditsInvSafe, PostsInvSafe, ReadsInvSafe
     DEF RecordsSafe
<1>. QED
  BY <1>1, <1>2, <1>3, PTL DEF RecordsSpec
=============================================================================
