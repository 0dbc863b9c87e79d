------------------------- MODULE ColumnFamilyProofs -------------------------
(***************************************************************************)
(* What holds of ColumnFamily for every set of keys, every bound, every    *)
(* crash point and every mode of compaction, proved.                       *)
(***************************************************************************)
EXTENDS ColumnFamily, Integers, FiniteSetsExt, FiniteSetTheorems, WellFoundedInduction, TLAPS

---------------------------------------------------------------------------
(* Least and greatest elements of sets of natural numbers, and finiteness  *)

(* A non-empty set of natural numbers has a least element. *)
LEMMA LeastExists ==
    ASSUME NEW S, S \subseteq Nat, S # {}
    PROVE  \E x \in S : \A y \in S : x <= y
<1>1. PICK x \in S : \A y \in S : ~(<<y, x>> \in OpToRel(<, Nat))
    BY NatLessThanWellFounded, WFMin, Zenon
<1>2. ASSUME NEW y \in S PROVE x <= y
    <2>1. x \in Nat /\ y \in Nat
        OBVIOUS
    <2>2. CASE y < x
        <3>1. <<y, x>> \in OpToRel(<, Nat)
            BY <2>1, <2>2 DEF OpToRel
        <3> QED
            BY <1>1, <3>1
    <2> QED
        BY <2>1, <2>2
<1> QED
    BY <1>2

(* A non-empty set of natural numbers with an upper bound has a greatest   *)
(* element.                                                                *)
LEMMA GreatestExists ==
    ASSUME NEW S, S \subseteq Nat, S # {}, NEW b \in Nat, \A y \in S : y <= b
    PROVE  \E x \in S : \A y \in S : y <= x
<1> DEFINE gaps == {n \in Nat : b - n \in S}
<1>1. gaps # {}
    <2>1. PICK y \in S : TRUE
        OBVIOUS
    <2>2. b - y \in Nat /\ b - (b - y) = y
        OBVIOUS
    <2> QED
        BY <2>2
<1>2. PICK g \in gaps : \A h \in gaps : g <= h
    <2> HIDE DEF gaps
    <2>1. gaps \subseteq Nat
        BY DEF gaps
    <2> QED
        BY <1>1, <2>1, LeastExists, Zenon
<1>3. ASSUME NEW y \in S PROVE y <= b - g
    <2>1. b - y \in gaps
        OBVIOUS
    <2>2. g <= b - y
        BY <1>2, <2>1
    <2> QED
        BY <2>2
<1> QED
    BY <1>2, <1>3

(* Max picks the greatest element. *)
LEMMA MaxIsGreatest ==
    ASSUME NEW S, S \subseteq Nat, S # {}, NEW b \in Nat, \A y \in S : y <= b
    PROVE  Max(S) \in S /\ \A y \in S : y <= Max(S)
<1>1. PICK x \in S : \A y \in S : y <= x
    BY GreatestExists
<1>2. \A y \in S : x >= y
    BY <1>1
<1>3. Max(S) \in S /\ \A y \in S : Max(S) >= y
    BY <1>2, Zenon DEF Max
<1> QED
    BY <1>3

(* A set whose members map one to one into a finite set of numbers is      *)
(* finite.                                                                 *)
LEMMA OneToOneFinite ==
    ASSUME NEW S, NEW n \in Nat, NEW f \in [S -> 1..n],
           \A s, t \in S : f[s] = f[t] => s = t
    PROVE  IsFiniteSet(S)
<1>1. f \in Injection(S, 1..n)
    BY DEF Injection, IsInjective
<1>2. IsFiniteSet(1..n)
    BY FS_Interval
<1> QED
    BY <1>1, <1>2, FS_Injection

---------------------------------------------------------------------------
(* Lemmas about the operators *)

(* Natural-number ranks have an upper bound: there is always a next one.   *)
RanksBounded(S) == \E b \in Nat : \A s \in S : s.rank <= b

(* The rank given to a new segment is above every rank of the list.        *)
LEMMA NextRankIsAbove ==
    ASSUME NEW S, \A s \in S : s.rank \in Nat, RanksBounded(S)
    PROVE  NextRank(S) \in Nat /\ \A s \in S : s.rank < NextRank(S)
<1> DEFINE ranks == {s.rank : s \in S}
<1>1. CASE S = {}
    BY <1>1 DEF NextRank
<1>2. CASE S # {}
    <2>1. ranks \subseteq Nat /\ ranks # {}
        BY <1>2
    <2>2. PICK b \in Nat : \A r \in ranks : r <= b
        BY DEF RanksBounded
    <2>3. Max(ranks) \in ranks /\ \A r \in ranks : r <= Max(ranks)
        <3> HIDE DEF ranks
        <3> QED
            BY <2>1, <2>2, MaxIsGreatest
    <2>4. NextRank(S) = 1 + Max(ranks)
        BY <1>2 DEF NextRank
    <2>5. Max(ranks) \in Nat
        BY <2>1, <2>3
    <2>6. ASSUME NEW s \in S PROVE s.rank < NextRank(S)
        <3>1. s.rank \in ranks /\ s.rank \in Nat
            OBVIOUS
        <3>2. s.rank <= Max(ranks)
            BY <2>3, <3>1
        <3> HIDE DEF ranks
        <3> QED
            BY <2>4, <2>5, <3>1, <3>2
    <2> HIDE DEF ranks
    <2> QED
        BY <2>4, <2>5, <2>6
<1> QED
    BY <1>1, <1>2

(* The newest version of a key is one of its versions.                     *)
LEMMA NewestIsVersion ==
    ASSUME NEW S \in SUBSET Version, NEW k \in Key, Of(S, k) # {}
    PROVE  Newest(S, k) \in Of(S, k) /\ \A w \in Of(S, k) : w.seq <= Newest(S, k).seq
<1> DEFINE seqs == {v.seq : v \in Of(S, k)}
<1>1. seqs \subseteq Nat /\ seqs # {}
    BY DEF Of, Version
<1>2. MaxWrites \in Nat /\ \A n \in seqs : n <= MaxWrites
    BY BoundAssumption DEF Of, Version
<1>3. \E n \in seqs : \A m \in seqs : m <= n
    <2> HIDE DEF seqs
    <2> QED
        BY <1>1, <1>2, GreatestExists
<1>4. PICK v \in Of(S, k) : \A w \in Of(S, k) : w.seq <= v.seq
    BY <1>3
<1> QED
    BY <1>4, Zenon DEF Newest

(* Of any segments there is one no other is read before.                   *)
LEMMA FirstInReadOrder ==
    ASSUME NEW S, S # {}, RanksBounded(S),
           \A s \in S : s.level \in Nat /\ s.rank \in Nat
    PROVE  \E s \in S : \A t \in S : ~Before(t, s)
<1> DEFINE levels == {s.level : s \in S}
<1>1. levels \subseteq Nat /\ levels # {}
    OBVIOUS
<1>2. PICK l \in levels : \A m \in levels : l <= m
    <2> HIDE DEF levels
    <2> QED
        BY <1>1, LeastExists, Zenon
<1> DEFINE top   == {s \in S : s.level = l}
           ranks == {s.rank : s \in top}
<1>3. ranks \subseteq Nat /\ ranks # {}
    OBVIOUS
<1>4. PICK b \in Nat : \A r \in ranks : r <= b
    BY DEF RanksBounded
<1>5. PICK r \in ranks : \A q \in ranks : q <= r
    <2> HIDE DEF ranks
    <2> QED
        BY <1>3, <1>4, GreatestExists
<1>6. PICK s \in top : s.rank = r
    OBVIOUS
<1>7. ASSUME NEW t \in S PROVE ~Before(t, s)
    <2>1. s.level = l /\ l <= t.level
        BY <1>2, <1>6
    <2>2. t.level = l => t.rank <= s.rank
        BY <1>5, <1>6
    <2>3. t.level \in Nat /\ t.rank \in Nat /\ s.level \in Nat /\ s.rank \in Nat
        OBVIOUS
    <2> QED
        BY <2>1, <2>2, <2>3 DEF Before
<1> QED
    BY <1>6, <1>7

(* A point read returns the number of a write, or 0.                       *)
LEMMA ReadType ==
    ASSUME NEW M \in SUBSET Version, content \in [SegId -> SUBSET Version],
           NEW S, S \subseteq [id : SegId, level : Level, rank : Nat],
           RanksBounded(S), NEW k \in Key
    PROVE  Read(M, S, k) \in 0..MaxWrites
<1> DEFINE hits  == {s \in S : k \in Keys(s.id) /\ ~Skipped(S, s.level, k)}
           first == CHOOSE s \in hits : \A t \in hits : ~Before(t, s)
<1>0. MaxWrites \in Nat
    BY BoundAssumption
<1>1. CASE Of(M, k) # {}
    <2>1. Newest(M, k) \in Of(M, k)
        BY <1>1, NewestIsVersion
    <2>2. Newest(M, k).no \in 1..MaxWrites
        BY <2>1 DEF Of, Version
    <2> QED
        BY <1>0, <1>1, <2>2 DEF Read
<1>2. CASE Of(M, k) = {} /\ hits = {}
    BY <1>0, <1>2 DEF Read
<1>3. CASE Of(M, k) = {} /\ hits # {}
    <2>1. \A s \in hits : s \in S /\ k \in Keys(s.id)
        OBVIOUS
    <2>2. \A s \in hits : s.level \in Nat /\ s.rank \in Nat
        BY <2>1 DEF Level
    <2>3. RanksBounded(hits)
        BY <2>1 DEF RanksBounded
    <2>4. first \in hits
        <3> HIDE DEF hits
        <3>1. \E s \in hits : \A t \in hits : ~Before(t, s)
            BY <1>3, <2>2, <2>3, FirstInReadOrder, Zenon
        <3> QED
            BY <3>1, Zenon
    <2>5. first.id \in SegId /\ k \in Keys(first.id)
        <3> HIDE DEF hits, first
        <3> QED
            BY <2>1, <2>4
    <2>6. content[first.id] \in SUBSET Version /\ Of(content[first.id], k) # {}
        <3> HIDE DEF first
        <3> QED
            BY <2>5 DEF Keys, Of
    <2>7. Newest(content[first.id], k) \in Of(content[first.id], k)
        <3> HIDE DEF first
        <3> QED
            BY <2>6, NewestIsVersion
    <2>8. Newest(content[first.id], k).no \in 1..MaxWrites
        <3> HIDE DEF first
        <3> QED
            BY <2>6, <2>7 DEF Of, Version
    <2>9. Read(M, S, k) = Newest(content[first.id], k).no
        BY <1>3, Zenon DEF Read
    <2> QED
        BY <1>0, <2>8, <2>9
<1> QED
    BY <1>1, <1>2, <1>3
---------------------------------------------------------------------------
(* The inductive invariant *)

(* A sequence number is never ahead of the number of writes. *)
LogBounded == \A v \in walDisk \cup walBuf : v.seq <= writes

(* Every published segment has a file and an id of its own that no later   *)
(* file will get.  The manifest names published segments only; those it    *)
(* leaves out are of flushes that could not persist it.                    *)
SegmentsKnown ==
    /\ \A s \in segs : s.id \in onDisk /\ s.id < nextId
    /\ \A s, t \in segs : s.id = t.id => s = t
    /\ manifest \subseteq Listed(segs)
    /\ \A m \in manifest : m.id < manifestNext
    /\ manifestNext <= nextId
    /\ RanksBounded(segs)
    /\ flush = "installed" => manifest = Listed(segs)

(* The file a flush or a compaction is about to publish exists and no      *)
(* segment has its id; only one of the two may publish at a time.          *)
Fresh(i) == i \in onDisk /\ i < nextId /\ \A s \in segs : s.id # i
PendingFresh ==
    /\ flush = "written" => Fresh(flushId)
    /\ comp.step = "merged" => Fresh(comp.id)
    /\ flush = "written" /\ comp.step = "merged" => flushId # comp.id
    /\ comp.step = "published" => flush # "written" /\ \A s \in segs : s.id \notin comp.old

Inv == TypeOK /\ LogBounded /\ SegmentsKnown /\ PendingFresh

(* The published list is finite, because its ids are distinct.             *)
LEMMA SegsFinite ==
    ASSUME NEW S, S \subseteq [id : SegId, level : Level, rank : Nat],
           \A s, t \in S : s.id = t.id => s = t
    PROVE  IsFiniteSet(S)
<1> DEFINE f == [s \in S |-> s.id]
<1>1. MaxSegs \in Nat /\ f \in [S -> 1..MaxSegs]
    BY BoundAssumption DEF SegId
<1>2. \A s, t \in S : f[s] = f[t] => s = t
    OBVIOUS
<1> HIDE DEF f
<1> QED
    BY <1>1, <1>2, OneToOneFinite

(* A position in a finite list is a natural number.                        *)
LEMMA PositionType ==
    ASSUME NEW S, IsFiniteSet(S), NEW s
    PROVE  IndexOf(s, S) \in Nat
<1> DEFINE newer == {t \in S : t.rank > s.rank}
<1>1. newer \in SUBSET S
    OBVIOUS
<1>2. IsFiniteSet(newer)
    <2> HIDE DEF newer
    <2> QED
        BY <1>1, FS_Subset
<1>3. Cardinality(newer) \in Nat
    <2> HIDE DEF newer
    <2> QED
        BY <1>2, FS_CardinalityType
<1> QED
    BY <1>3 DEF IndexOf

(* A selection goes into level 1 or level 2.                               *)
LEMMA SelectionLevel ==
    ASSUME NEW limit, NEW c \in Selections(limit)
    PROVE  c.out \in {1, 2}
<1>1. ASSUME NEW C, NEW d \in SelectInner(limit, C) PROVE d.out \in {1, 2}
    BY DEF SelectInner
<1>2. ASSUME NEW C, NEW d \in SelectInner(limit, C), NEW e \in CapBySize(d)
      PROVE  e.out \in {1, 2}
    BY <1>1 DEF CapBySize
<1> QED
    BY <1>1, <1>2 DEF Selections

(* A merge invents nothing.                                                *)
LEMMA OutputFromInputs ==
    ASSUME NEW sel
    PROVE  Output(sel) \subseteq UNION {content[s.id] : s \in sel}
BY DEF Output, Merged

(* What a restart loads from a manifest is typed and bounded, and its ids  *)
(* are those of the manifest.                                              *)
LEMMA LoadedType ==
    ASSUME NEW man, man \subseteq [id : SegId, level : Level], NEW files,
           \A m, n \in man : m.id = n.id => m = n
    PROVE  /\ Loaded(man, files) \subseteq [id : SegId, level : Level, rank : Nat]
           /\ \A s, t \in Loaded(man, files) : s.id = t.id => s = t
           /\ RanksBounded(Loaded(man, files))
           /\ (\A m \in man : m.id \in files) => Listed(Loaded(man, files)) = man
<1>0. MaxSegs \in Nat /\ \A i \in SegId : i \in Nat /\ i <= MaxSegs
    BY BoundAssumption DEF SegId
<1>1. ASSUME NEW s \in Loaded(man, files)
      PROVE  \E m \in man : /\ m.id \in files
                            /\ s = [id |-> m.id, level |-> m.level, rank |-> m.id]
    BY DEF Loaded
<1>2. Loaded(man, files) \subseteq [id : SegId, level : Level, rank : Nat]
    BY <1>0, <1>1
<1>3. \A s, t \in Loaded(man, files) : s.id = t.id => s = t
    BY <1>1
<1>4. RanksBounded(Loaded(man, files))
    <2>1. \A s \in Loaded(man, files) : s.rank <= MaxSegs
        BY <1>0, <1>1
    <2> QED
        BY <1>0, <2>1 DEF RanksBounded
<1>5. ASSUME \A m \in man : m.id \in files PROVE Listed(Loaded(man, files)) = man
    <2>1. ASSUME NEW m \in man PROVE m \in Listed(Loaded(man, files))
        <3>1. [id |-> m.id, level |-> m.level, rank |-> m.id] \in Loaded(man, files)
            BY <1>5 DEF Loaded
        <3>2. m = [id |-> m.id, level |-> m.level]
            OBVIOUS
        <3> QED
            BY <3>1, <3>2 DEF Listed
    <2>2. ASSUME NEW e \in Listed(Loaded(man, files)) PROVE e \in man
        <3>1. PICK s \in Loaded(man, files) : e = [id |-> s.id, level |-> s.level]
            BY DEF Listed
        <3>2. PICK m \in man : s = [id |-> m.id, level |-> m.level, rank |-> m.id]
            BY <1>1
        <3>3. e = [id |-> m.id, level |-> m.level] /\ m = [id |-> m.id, level |-> m.level]
            BY <3>1, <3>2
        <3> QED
            BY <3>3
    <2> QED
        BY <2>1, <2>2
<1> QED
    BY <1>2, <1>3, <1>4, <1>5

(* The inductive invariant holds at the start.                             *)
LEMMA InitInv == Init => Inv
<1> SUFFICES ASSUME Init PROVE Inv
    OBVIOUS
<1>1. 1 \in 1..MaxSegs + 1 /\ 0 \in 0..MaxWrites
    BY BoundAssumption
<1>2. TypeOK
    BY <1>1, BoundAssumption DEF Init, TypeOK, NoComp, FlushStep, Level
<1>3. LogBounded /\ PendingFresh
    BY DEF Init, LogBounded, PendingFresh, NoComp
<1>4. SegmentsKnown
    <2>1. segs = {} /\ manifest = {} /\ manifestNext = 1 /\ nextId = 1
        BY DEF Init
    <2>2. Listed({}) = {}
        BY DEF Listed
    <2>3. RanksBounded({})
        BY DEF RanksBounded
    <2> QED
        BY <2>1, <2>2, <2>3 DEF SegmentsKnown
<1> QED
    BY <1>2, <1>3, <1>4 DEF Inv

(* The version a write makes has the next sequence number. *)
LEMMA NewVersionType ==
    ASSUME TypeOK, writes < MaxWrites, NEW k \in Key, NEW op \in {"put", "delete"}
    PROVE  NewVersion(k, op) \in Version /\ NewVersion(k, op).seq <= writes + 1
BY BoundAssumption DEF TypeOK, NewVersion, Version

(* Steps that leave the segments, the files and the pending outputs alone  *)
(* keep what is said of them.                                              *)
LEMMA SegmentsUntouched ==
    ASSUME SegmentsKnown, PendingFresh, UNCHANGED <<segs, onDisk, manifest, manifestNext, nextId, comp>>,
           flush' = "written" => flush = "written" /\ flushId' = flushId,
           flush' = "installed" => flush = "installed"
    PROVE  SegmentsKnown' /\ PendingFresh'
<1>1. SegmentsKnown'
    BY DEF SegmentsKnown, Listed, RanksBounded
<1>2. PendingFresh'
    BY DEF PendingFresh, Fresh
<1> QED
    BY <1>1, <1>2

(* put_bytes_nosync and delete_bytes keep the invariant.                   *)
LEMMA WriteKeepsInv ==
    ASSUME Inv, NEW k \in Key, Put(k) \/ Delete(k)
    PROVE  Inv'
<1>1. CASE Put(k)
    <2> DEFINE v == NewVersion(k, "put")
    <2>1. v \in Version /\ v.seq <= writes + 1
        BY <1>1, NewVersionType DEF Inv, Put
    <2>2. TypeOK'
        <3> HIDE DEF v
        <3>1. walBuf' = walBuf \cup {v} /\ walDisk' = walDisk /\ mem' \subseteq mem \cup {v}
            BY <1>1 DEF Put, Freeze, v
        <3>2. imm' \subseteq imm \cup mem \cup {v} /\ flushId' = flushId /\ flush' \in FlushStep
            BY <1>1 DEF Put, Freeze, v, FlushStep, flushVars, Inv, TypeOK
        <3>3. latest' \in [Key -> 0..MaxWrites] /\ writes' = writes + 1 /\ writes < MaxWrites
            BY <1>1, BoundAssumption DEF Put, Inv, TypeOK
        <3>4. nextSeq' = nextSeq + 1
            BY <1>1 DEF Put
        <3>5. UNCHANGED <<walHead, segs, nextId, content, onDisk, manifest, manifestNext, comp, cool, acked,
                          dropped, crashes, fails>>
            BY <1>1 DEF Put, fileVars
        <3> QED
            BY <2>1, <3>1, <3>2, <3>3, <3>4, <3>5, BoundAssumption DEF Inv, TypeOK
    <2>3. LogBounded'
        BY <1>1, <2>1 DEF Inv, LogBounded, Put, TypeOK, Version
    <2>4. SegmentsKnown' /\ PendingFresh'
        BY <1>1, SegmentsUntouched DEF Inv, Put, Freeze, flushVars, fileVars
    <2> QED
        BY <2>2, <2>3, <2>4 DEF Inv
<1>2. CASE Delete(k)
    <2> DEFINE v == NewVersion(k, "delete")
    <2>1. v \in Version /\ v.seq <= writes + 1
        BY <1>2, NewVersionType DEF Inv, Delete
    <2>2. TypeOK'
        <3> HIDE DEF v
        <3>1. walBuf' = {} /\ walDisk' = walDisk \cup walBuf \cup {v} /\ mem' = mem \cup {v}
            BY <1>2 DEF Delete, v
        <3>2. latest' \in [Key -> 0..MaxWrites] /\ acked' = latest'
            BY <1>2, BoundAssumption DEF Delete, Inv, TypeOK
        <3>3. writes' = writes + 1 /\ writes < MaxWrites /\ nextSeq' = nextSeq + 1
            BY <1>2 DEF Delete
        <3>4. UNCHANGED <<walHead, flush, imm, flushId, segs, nextId, content, onDisk, manifest,
                          manifestNext, comp, cool, dropped, crashes, fails>>
            BY <1>2 DEF Delete, fileVars, flushVars
        <3> QED
            BY <2>1, <3>1, <3>2, <3>3, <3>4, BoundAssumption DEF Inv, TypeOK
    <2>3. LogBounded'
        BY <1>2, <2>1 DEF Inv, LogBounded, Delete, TypeOK, Version
    <2>4. SegmentsKnown' /\ PendingFresh'
        BY <1>2, SegmentsUntouched DEF Inv, Delete, flushVars, fileVars
    <2> QED
        BY <2>2, <2>3, <2>4 DEF Inv
<1> QED
    BY <1>1, <1>2

(* A sync of the log, and the call to flush, keep the invariant.           *)
LEMMA LogStepKeepsInv ==
    ASSUME Inv, SyncWal \/ SyncNothing \/ SwitchAndFlush \/ TruncateWal \/ WriteWalHeader
    PROVE  Inv'
<1>1. CASE SyncWal
    BY <1>1, SegmentsUntouched DEF Inv, SyncWal, TypeOK, LogBounded, fileVars, flushVars
<1>2. CASE SyncNothing
    BY <1>2, SegmentsUntouched DEF Inv, SyncNothing, TypeOK, LogBounded, walVars, fileVars, flushVars
<1>3. CASE SwitchAndFlush
    BY <1>3, SegmentsUntouched
       DEF Inv, SwitchAndFlush, Freeze, FlushStep, TypeOK, LogBounded, walVars, fileVars, histVars
<1>4. CASE TruncateWal
    BY <1>4, SegmentsUntouched
       DEF Inv, TruncateWal, FlushStep, TypeOK, LogBounded, fileVars, histVars
<1>5. CASE WriteWalHeader
    BY <1>5, SegmentsUntouched
       DEF Inv, WriteWalHeader, FlushStep, TypeOK, LogBounded, fileVars, histVars
<1> QED
    BY <1>1, <1>2, <1>3, <1>4, <1>5

(* Publishing a new file in front of some of the segments keeps the list   *)
(* and the manifest in step, whether the manifest is persisted or, with    *)
(* all segments kept, not.                                                 *)
LEMMA PublishKeepsSegments ==
    ASSUME TypeOK, SegmentsKnown, NEW i \in SegId, Fresh(i), NEW l \in Level,
           NEW kept, kept \subseteq segs,
           segs' = kept \cup {[id |-> i, level |-> l, rank |-> NextRank(segs)]},
           \/ manifest' = Listed(segs') /\ manifestNext' = nextId
           \/ UNCHANGED <<manifest, manifestNext>> /\ kept = segs /\ flush' = "idle",
           UNCHANGED <<nextId, onDisk>>
    PROVE  /\ SegmentsKnown'
           /\ segs' \subseteq [id : SegId, level : Level, rank : Nat]
           /\ manifest' \subseteq [id : SegId, level : Level]
<1> DEFINE new == [id |-> i, level |-> l, rank |-> NextRank(segs)]
<1>1. NextRank(segs) \in Nat /\ \A s \in segs : s.rank < NextRank(segs)
    <2>1. \A s \in segs : s.rank \in Nat
        BY DEF TypeOK
    <2> QED
        BY <2>1, NextRankIsAbove DEF SegmentsKnown
<1>2. segs' = kept \cup {new} /\ new.id = i /\ new.rank = NextRank(segs)
    OBVIOUS
<1>3. segs' \subseteq [id : SegId, level : Level, rank : Nat]
    BY <1>1 DEF TypeOK
<1>4. manifest' \subseteq [id : SegId, level : Level]
    BY <1>3 DEF Listed, TypeOK
<1>5. RanksBounded(segs')
    <2>1. \A s \in segs' : s.rank <= NextRank(segs)
        <3>1. \A s \in kept : s.rank \in Nat /\ s.rank < NextRank(segs)
            BY <1>1 DEF TypeOK
        <3> QED
            BY <1>1, <1>2, <3>1
    <2> QED
        BY <1>1, <2>1 DEF RanksBounded
<1>6. \A s \in segs' : s.id \in onDisk' /\ s.id < nextId'
    <2>1. i \in onDisk /\ i < nextId
        BY DEF Fresh
    <2>2. \A s \in kept : s.id \in onDisk /\ s.id < nextId
        BY DEF SegmentsKnown
    <2> QED
        BY <1>2, <2>1, <2>2
<1>7. \A s, t \in segs' : s.id = t.id => s = t
    <2>1. \A s \in kept : s.id # i
        BY DEF Fresh
    <2>2. \A s, t \in kept : s.id = t.id => s = t
        BY DEF SegmentsKnown
    <2> HIDE DEF new
    <2> QED
        BY <1>2, <2>1, <2>2
<1>8. manifestNext' <= nextId'
    BY BoundAssumption DEF TypeOK, SegmentsKnown
<1>9. \A m \in manifest' : m.id < manifestNext'
    BY <1>6 DEF Listed, SegmentsKnown
<1>10. manifest' \subseteq Listed(segs') /\ (flush' = "installed" => manifest' = Listed(segs'))
    BY DEF Listed, SegmentsKnown
<1> QED
    BY <1>3, <1>4, <1>5, <1>6, <1>7, <1>8, <1>9, <1>10 DEF SegmentsKnown

(* The steps of a flush keep the invariant.                                *)
LEMMA FlushKeepsInv ==
    ASSUME Inv, FlushWrite \/ FlushInstall
    PROVE  Inv'
<1>1. CASE FlushWrite
    <2>0. nextId \in SegId /\ MaxSegs \in Nat
        BY <1>1, BoundAssumption DEF Inv, TypeOK, FlushWrite, SegId
    <2>1. TypeOK'
        BY <1>1, <2>0 DEF Inv, TypeOK, FlushWrite, SegId, FlushStep, walVars, histVars
    <2>2. LogBounded'
        BY <1>1 DEF Inv, LogBounded, FlushWrite, walVars, histVars
    <2>3. \A s \in segs : s.id < nextId
        BY <2>0 DEF Inv, TypeOK, SegmentsKnown, SegId
    <2>4. SegmentsKnown'
        <3>1. UNCHANGED <<segs, manifest, manifestNext>> /\ onDisk \subseteq onDisk' /\ nextId' = nextId + 1
              /\ flush' = "written"
            BY <1>1 DEF FlushWrite
        <3>2. \A s \in segs' : s.id \in onDisk' /\ s.id < nextId'
            BY <2>0, <2>3, <3>1 DEF Inv, TypeOK, SegmentsKnown, SegId
        <3>3. manifestNext' <= nextId'
            BY <2>0, <3>1, BoundAssumption DEF Inv, TypeOK, SegmentsKnown, SegId
        <3> QED
            BY <3>1, <3>2, <3>3 DEF Inv, SegmentsKnown, Listed, RanksBounded
    <2>5. PendingFresh'
        <3>1. /\ UNCHANGED <<segs, comp>> /\ onDisk' = onDisk \cup {nextId}
              /\ nextId' = nextId + 1 /\ flushId' = nextId /\ comp.step # "published"
            BY <1>1 DEF FlushWrite
        <3>2. Fresh(flushId)'
            BY <2>0, <2>3, <3>1 DEF Fresh, SegId
        <3>3. comp.step = "merged" => Fresh(comp.id)' /\ comp.id # flushId'
            BY <2>0, <3>1 DEF Inv, TypeOK, PendingFresh, Fresh, SegId
        <3> QED
            BY <3>1, <3>2, <3>3 DEF PendingFresh
    <2> QED
        BY <2>1, <2>2, <2>4, <2>5 DEF Inv
<1>2. CASE FlushInstall
    <2>1. Fresh(flushId) /\ flushId \in SegId /\ 0 \in Level
        BY <1>2 DEF Inv, TypeOK, PendingFresh, Fresh, FlushInstall, Level
    <2>2. /\ SegmentsKnown'
          /\ segs' \subseteq [id : SegId, level : Level, rank : Nat]
          /\ manifest' \subseteq [id : SegId, level : Level]
        BY <1>2, <2>1, PublishKeepsSegments, Zenon DEF Inv, FlushInstall
    <2>3. TypeOK'
        BY <1>2, <2>2 DEF Inv, TypeOK, FlushInstall, FlushStep, walVars, histVars
    <2>4. LogBounded'
        BY <1>2 DEF Inv, LogBounded, FlushInstall, walVars, histVars
    <2>5. PendingFresh'
        <3>1. /\ UNCHANGED <<comp, onDisk, nextId>> /\ flush' = "installed"
              /\ flush = "written"
              /\ segs' = segs \cup {[id |-> flushId, level |-> 0, rank |-> NextRank(segs)]}
            BY <1>2 DEF FlushInstall
        <3> QED
            BY <3>1 DEF Inv, PendingFresh, Fresh
    <2> QED
        BY <2>2, <2>3, <2>4, <2>5 DEF Inv
<1> QED
    BY <1>1, <1>2

(* A flush that an error ends keeps the invariant.                         *)
LEMMA FailKeepsInv ==
    ASSUME Inv, FlushFails
    PROVE  Inv'
<1>1. /\ UNCHANGED <<walVars, mem, content, onDisk, manifest, manifestNext, comp, cool,
                     writes, latest, acked, crashes>>
      /\ flush' = "idle" /\ imm' = {} /\ flushId' = 0 /\ fails' = fails + 1
    BY DEF FlushFails
<1>2. SegmentsKnown' /\ segs' \subseteq [id : SegId, level : Level, rank : Nat]
      /\ nextId' \in 1..MaxSegs + 1 /\ dropped' \subseteq 1..MaxWrites /\ PendingFresh'
    <2>1. CASE /\ flush = "frozen" /\ nextId <= MaxSegs /\ nextId' = nextId + 1
               /\ dropped' = dropped \cup {v.no : v \in imm} /\ segs' = segs
        <3>1. nextId' \in 1..MaxSegs + 1 /\ \A i \in SegId : i < nextId => i < nextId'
            BY <2>1, BoundAssumption DEF Inv, TypeOK, SegId
        <3>2. dropped' \subseteq 1..MaxWrites
            BY <2>1 DEF Inv, TypeOK, Version
        <3>3. manifestNext <= nextId'
            BY <2>1, BoundAssumption DEF Inv, TypeOK, SegmentsKnown
        <3>4. SegmentsKnown'
            BY <1>1, <2>1, <3>1, <3>3 DEF Inv, TypeOK, SegmentsKnown, Listed, RanksBounded
        <3>5. PendingFresh'
            BY <1>1, <2>1, <3>1 DEF Inv, TypeOK, PendingFresh, Fresh
        <3> QED
            BY <2>1, <3>1, <3>2, <3>4, <3>5 DEF Inv, TypeOK
    <2>2. CASE /\ flush = "written" /\ UNCHANGED <<nextId, dropped>>
               /\ segs' = segs \cup {[id |-> flushId, level |-> 0, rank |-> NextRank(segs)]}
        <3>1. Fresh(flushId) /\ flushId \in SegId /\ 0 \in Level
            BY <2>2 DEF Inv, TypeOK, PendingFresh, Fresh, Level
        <3>2. SegmentsKnown' /\ segs' \subseteq [id : SegId, level : Level, rank : Nat]
            BY <1>1, <2>2, <3>1, PublishKeepsSegments, Zenon DEF Inv
        <3>3. PendingFresh'
            BY <1>1, <2>2 DEF Inv, PendingFresh, Fresh
        <3> QED
            BY <2>2, <3>2, <3>3 DEF Inv, TypeOK
    <2>3. CASE flush = "installed" /\ UNCHANGED <<segs, nextId, dropped>>
        BY <1>1, <2>3, SegmentsUntouched DEF Inv, TypeOK
    <2> QED
        BY <2>1, <2>2, <2>3 DEF FlushFails
<1>3. TypeOK'
    BY <1>1, <1>2 DEF Inv, TypeOK, FlushStep, walVars
<1>4. LogBounded'
    BY <1>1 DEF Inv, LogBounded, walVars
<1> QED
    BY <1>2, <1>3, <1>4 DEF Inv

(* The steps of a compaction keep the invariant, inside a write call or    *)
(* beside it.                                                              *)
LEMMA CompactKeepsInv ==
    ASSUME Inv, CompactSelect \/ CompactMerge \/ CompactPublish \/ CompactRemove
    PROVE  Inv'
<1>1. CASE CompactSelect
    <2>1. PICK limit \in Limits : \E c \in Selections(limit) :
            comp' = [NoComp EXCEPT !.step = "selected",
                                   !.sel = {IndexOf(s, segs) : s \in c.sel},
                                   !.out = c.out]
        BY <1>1 DEF CompactSelect
    <2>2. PICK c \in Selections(limit) :
            comp' = [NoComp EXCEPT !.step = "selected",
                                   !.sel = {IndexOf(s, segs) : s \in c.sel},
                                   !.out = c.out]
        BY <2>1
    <2>3. c.out \in {1, 2}
        BY SelectionLevel
    <2>4. \A s : IndexOf(s, segs) \in Nat
        BY SegsFinite, PositionType DEF Inv, TypeOK, SegmentsKnown
    <2>5. /\ comp' \in [step : {"idle", "selected", "merged", "published"},
                        sel : SUBSET Nat, out : Level, id : SegId \cup {0}, old : SUBSET SegId]
          /\ comp'.step = "selected"
        <3> DEFINE positions == {IndexOf(s, segs) : s \in c.sel}
        <3>1. positions \in SUBSET Nat
            BY <2>4
        <3> HIDE DEF positions
        <3>2. comp' = [step |-> "selected", sel |-> positions, out |-> c.out, id |-> 0, old |-> {}]
            BY <2>2 DEF NoComp, positions
        <3> QED
            BY <2>3, <3>1, <3>2 DEF Level
    <2>6. TypeOK'
        BY <1>1, <2>5
           DEF Inv, TypeOK, CompactSelect, walVars, flushVars, fileVars, histVars
    <2>7. LogBounded' /\ SegmentsKnown'
        <3>1. UNCHANGED <<walDisk, walBuf, writes, segs, onDisk, manifest, manifestNext, nextId, flush>>
            BY <1>1 DEF CompactSelect, walVars, flushVars, fileVars, histVars
        <3> QED
            BY <3>1 DEF Inv, LogBounded, SegmentsKnown, Listed, RanksBounded
    <2>8. PendingFresh'
        BY <1>1, <2>5 DEF Inv, PendingFresh, Fresh, CompactSelect, flushVars, fileVars
    <2> QED
        BY <2>6, <2>7, <2>8 DEF Inv
<1>2. CASE CompactMerge
    <2>0. nextId \in SegId /\ MaxSegs \in Nat
        BY <1>2, BoundAssumption DEF Inv, TypeOK, CompactMerge, SegId
    <2>1. Output(AtIndexes(comp.sel, segs)) \subseteq Version
        <3>1. \A s \in AtIndexes(comp.sel, segs) : content[s.id] \subseteq Version
            BY DEF AtIndexes, Inv, TypeOK
        <3> QED
            BY <3>1, OutputFromInputs
    <2>2. TypeOK'
        <3>1. content' \in [SegId -> SUBSET Version] /\ onDisk' \subseteq SegId
            BY <1>2, <2>0, <2>1 DEF Inv, TypeOK, CompactMerge
        <3>2. comp' \in [step : {"idle", "selected", "merged", "published"},
                        sel : SUBSET Nat, out : Level, id : SegId \cup {0}, old : SUBSET SegId]
            BY <1>2, <2>0 DEF Inv, TypeOK, CompactMerge
        <3>3. nextId' \in 1..MaxSegs + 1
            BY <1>2, <2>0 DEF CompactMerge, SegId
        <3> QED
            BY <1>2, <3>1, <3>2, <3>3
               DEF Inv, TypeOK, CompactMerge, walVars, flushVars, histVars
    <2>3. LogBounded'
        BY <1>2 DEF Inv, LogBounded, CompactMerge, walVars, histVars
    <2>4. \A s \in segs : s.id < nextId
        BY <2>0 DEF Inv, TypeOK, SegmentsKnown, SegId
    <2>5. /\ UNCHANGED <<segs, flush, flushId, manifest, manifestNext>>
          /\ onDisk' = onDisk \cup {nextId} /\ nextId' = nextId + 1
          /\ comp'.id = nextId /\ comp'.step = "merged"
        BY <1>2 DEF CompactMerge, flushVars, Inv, TypeOK
    <2>6. SegmentsKnown'
        BY <2>0, <2>5 DEF Inv, TypeOK, SegmentsKnown, Listed, RanksBounded, SegId
    <2>7. PendingFresh'
        <3>1. Fresh(comp.id)'
            BY <2>0, <2>4, <2>5 DEF Fresh, SegId
        <3>2. flush = "written" => Fresh(flushId)' /\ comp'.id # flushId
            BY <2>0, <2>5 DEF Inv, TypeOK, PendingFresh, Fresh, SegId
        <3> QED
            BY <2>5, <3>1, <3>2 DEF PendingFresh
    <2> QED
        BY <2>2, <2>3, <2>6, <2>7 DEF Inv
<1>3. CASE CompactPublish
    <2> DEFINE old == AtIndexes(comp.sel, segs)
    <2>1. Fresh(comp.id) /\ comp.id \in SegId /\ comp.out \in Level
        BY <1>3 DEF Inv, TypeOK, PendingFresh, Fresh, CompactPublish
    <2>2. segs' = (segs \ old) \cup
                    {[id |-> comp.id, level |-> comp.out, rank |-> NextRank(segs)]}
        BY <1>3 DEF CompactPublish
    <2>3. /\ SegmentsKnown'
          /\ segs' \subseteq [id : SegId, level : Level, rank : Nat]
          /\ manifest' \subseteq [id : SegId, level : Level]
        BY <1>3, <2>1, <2>2, PublishKeepsSegments, Zenon DEF Inv, CompactPublish
    <2>4. old \subseteq segs
        BY DEF AtIndexes
    <2>5. /\ comp' \in [step : {"idle", "selected", "merged", "published"},
                        sel : SUBSET Nat, out : Level, id : SegId \cup {0}, old : SUBSET SegId]
          /\ comp'.step = "published" /\ comp'.old = {s.id : s \in old}
        <3>1. {s.id : s \in old} \subseteq SegId
            BY <2>4 DEF Inv, TypeOK
        <3> QED
            BY <1>3, <3>1 DEF Inv, TypeOK, CompactPublish
    <2>6. TypeOK'
        BY <1>3, <2>3, <2>5
           DEF Inv, TypeOK, CompactPublish, walVars, flushVars, histVars
    <2>7. LogBounded'
        BY <1>3 DEF Inv, LogBounded, CompactPublish, walVars, histVars
    <2>8. \A s \in segs' : s.id \notin comp'.old
        <3>1. ASSUME NEW t \in old PROVE t.id # comp.id
            BY <2>1, <2>4 DEF Fresh
        <3>2. ASSUME NEW s \in segs \ old, NEW t \in old PROVE s.id # t.id
            BY <2>4 DEF Inv, SegmentsKnown
        <3> HIDE DEF old
        <3> QED
            BY <2>2, <2>5, <3>1, <3>2
    <2>9. PendingFresh'
        BY <1>3, <2>5, <2>8 DEF PendingFresh, CompactPublish, flushVars
    <2> QED
        BY <2>3, <2>6, <2>7, <2>9 DEF Inv
<1>4. CASE CompactRemove
    <2>1. /\ UNCHANGED <<segs, flush, flushId, manifest, manifestNext, nextId>>
          /\ onDisk' = onDisk \ comp.old /\ comp' = NoComp /\ comp.step = "published"
        BY <1>4 DEF CompactRemove, flushVars
    <2>2. TypeOK'
        <3>1. comp' \in [step : {"idle", "selected", "merged", "published"},
                        sel : SUBSET Nat, out : Level, id : SegId \cup {0}, old : SUBSET SegId]
            BY <2>1 DEF NoComp, Level
        <3>2. cool' \in [SegId -> Nat]
            BY <1>4, BoundAssumption DEF Inv, TypeOK, CompactRemove
        <3> QED
            BY <1>4, <2>1, <3>1, <3>2
               DEF Inv, TypeOK, CompactRemove, walVars, flushVars, histVars
    <2>3. LogBounded'
        BY <1>4 DEF Inv, LogBounded, CompactRemove, walVars, histVars
    <2>4. SegmentsKnown'
        BY <2>1 DEF Inv, SegmentsKnown, PendingFresh, Listed, RanksBounded
    <2>5. PendingFresh'
        BY <2>1 DEF Inv, PendingFresh, NoComp
    <2> QED
        BY <2>2, <2>3, <2>4, <2>5 DEF Inv
<1> QED
    BY <1>1, <1>2, <1>3, <1>4

(* A restart: everything in memory is what the disk gives back. *)
LEMMA CrashKeepsInv ==
    ASSUME Inv, Crash
    PROVE  Inv'
<1>1. /\ UNCHANGED <<walDisk, walHead, content, onDisk, manifest, manifestNext, writes, acked,
                     fails>>
      /\ dropped' = {}
      /\ mem' = walDisk /\ walBuf' = {} /\ flush' = "idle" /\ imm' = {} /\ flushId' = 0
      /\ segs' = Loaded(manifest, onDisk) /\ nextId' = manifestNext /\ comp' = NoComp
      /\ cool' = [j \in SegId |-> 0] /\ crashes' = crashes + 1
      /\ latest' = [k \in Key |-> RecoveredRead(k)]
      /\ nextSeq' = IF walDisk = {} THEN walHead ELSE 1 + Max({v.seq : v \in walDisk})
    BY DEF Crash
<1>2. /\ \A m, n \in manifest : m.id = n.id => m = n
      /\ \A m \in manifest : m.id \in onDisk /\ m.id < manifestNext
    BY DEF Inv, SegmentsKnown, Listed
<1>3. /\ segs' \subseteq [id : SegId, level : Level, rank : Nat]
      /\ \A s, t \in segs' : s.id = t.id => s = t
      /\ RanksBounded(segs')
      /\ Listed(segs') = manifest
    BY <1>1, <1>2, LoadedType DEF Inv, TypeOK
<1>4. \A k \in Key : RecoveredRead(k) \in 0..MaxWrites
    <2>1. /\ walDisk \in SUBSET Version /\ content \in [SegId -> SUBSET Version]
          /\ Loaded(manifest, onDisk) \subseteq [id : SegId, level : Level, rank : Nat]
          /\ RanksBounded(Loaded(manifest, onDisk))
        BY <1>1, <1>3 DEF Inv, TypeOK
    <2> QED
        BY <2>1, ReadType DEF RecoveredRead
<1>5. nextSeq' \in 1..writes' + 1
    <2>1. CASE walDisk = {}
        BY <1>1, <2>1 DEF Inv, TypeOK
    <2>2. CASE walDisk # {}
        <3> DEFINE seqs == {v.seq : v \in walDisk}
        <3>1. seqs \subseteq Nat \ {0} /\ seqs # {}
            BY <2>2 DEF Inv, TypeOK, Version
        <3>2. writes \in Nat /\ \A n \in seqs : n <= writes
            BY BoundAssumption DEF Inv, TypeOK, LogBounded
        <3>3. Max(seqs) \in seqs
            <4> HIDE DEF seqs
            <4> QED
                BY <3>1, <3>2, MaxIsGreatest
        <3>4. nextSeq' = 1 + Max(seqs) /\ writes' = writes
            BY <1>1, <2>2
        <3> DEFINE top == Max(seqs)
        <3>5. top \in seqs /\ nextSeq' = 1 + top
            BY <3>3, <3>4
        <3> HIDE DEF seqs, top
        <3>6. top \in Nat \ {0} /\ top <= writes
            BY <3>1, <3>2, <3>5
        <3> QED
            BY <3>2, <3>4, <3>5, <3>6
    <2> QED
        BY <2>1, <2>2
<1>6. TypeOK'
    <2>1. latest' \in [Key -> 0..MaxWrites]
        BY <1>1, <1>4
    <2>2. comp' \in [step : {"idle", "selected", "merged", "published"},
                    sel : SUBSET Nat, out : Level, id : SegId \cup {0}, old : SUBSET SegId]
        BY <1>1 DEF NoComp, Level
    <2> QED
        BY <1>1, <1>3, <1>5, <2>1, <2>2, BoundAssumption DEF Inv, TypeOK, FlushStep
<1>7. LogBounded'
    BY <1>1 DEF Inv, LogBounded
<1>8. SegmentsKnown'
    <2>1. \A s \in segs' : \E m \in manifest : m.id = s.id
        BY <1>1 DEF Loaded
    <2>2. \A s \in segs' : s.id \in onDisk' /\ s.id < manifestNext'
        BY <1>1, <1>2, <2>1
    <2>3. manifestNext' <= nextId' /\ nextId' = manifestNext'
        BY <1>1, BoundAssumption DEF Inv, TypeOK
    <2> QED
        BY <1>1, <1>2, <1>3, <2>2, <2>3 DEF SegmentsKnown
<1>9. PendingFresh'
    BY <1>1 DEF PendingFresh, NoComp
<1> QED
    BY <1>6, <1>7, <1>8, <1>9 DEF Inv

(* Every step keeps the invariant.                                         *)
LEMMA NextKeepsInv == Inv /\ [Next]_vars => Inv'
<1> SUFFICES ASSUME Inv, [Next]_vars PROVE Inv'
    OBVIOUS
<1>1. CASE \E k \in Key : Put(k) \/ Delete(k)
    BY <1>1, WriteKeepsInv
<1>2. CASE SyncWal \/ SyncNothing \/ SwitchAndFlush \/ TruncateWal \/ WriteWalHeader
    BY <1>2, LogStepKeepsInv
<1>3. CASE FlushWrite \/ FlushInstall
    BY <1>3, FlushKeepsInv
<1>4. CASE CompactSelect \/ CompactMerge \/ CompactPublish \/ CompactRemove
    BY <1>4, CompactKeepsInv
<1>5. CASE Crash \/ FlushFails
    BY <1>5, CrashKeepsInv, FailKeepsInv
<1>6. CASE UNCHANGED vars
    <2>1. TypeOK' /\ LogBounded'
        BY <1>6 DEF Inv, TypeOK, LogBounded, vars, walVars, flushVars, fileVars, histVars
    <2>2. SegmentsKnown' /\ PendingFresh'
        BY <1>6, SegmentsUntouched DEF Inv, vars, flushVars, fileVars
    <2> QED
        BY <2>1, <2>2 DEF Inv
<1> QED
    BY <1>1, <1>2, <1>3, <1>4, <1>5, <1>6 DEF Next

(* The invariant holds in every reachable state.                           *)
LEMMA InvAlways == Spec => []Inv
BY InitInv, NextKeepsInv, PTL DEF Spec

(* Every reachable state is typed: sequence numbers never run ahead of the *)
(* writes, nor the ids of files ahead of next_sst_id, whatever crashes and *)
(* compactions do.                                                         *)
THEOREM TypeCorrect == Spec => []TypeOK
BY InvAlways, PTL DEF Inv

(* The manifest never names a file that a compaction has removed or that   *)
(* was never written: open_inner finds every file it expects after a crash *)
(* at any step of a flush and a compaction, the worker's included.         *)
THEOREM ManifestAlwaysClosed == Spec => []ManifestClosed
<1>1. Inv => ManifestClosed
    BY DEF Inv, SegmentsKnown, Listed, ManifestClosed
<1> QED
    BY <1>1, InvAlways, PTL

---------------------------------------------------------------------------
(* Nothing is forgotten, when compaction runs inside the write call *)

(* Whatever a merge leaves out has a version of its key at least as new in *)
(* the output.                                                             *)
LEMMA OutputSupersedes ==
    ASSUME TypeOK, NEW sel, sel \subseteq segs, RanksBounded(segs),
           NEW o \in sel, NEW v \in content[o.id]
    PROVE  Superseded(v, Output(sel))
<1>0. \A s \in sel : /\ s.rank \in Nat
                     /\ content[s.id] \subseteq Version
    BY DEF TypeOK
<1>1. CASE Disjoint(sel)
    <2>1. v \in Output(sel)
        BY <1>1 DEF Output
    <2>2. v.seq <= v.seq
        BY <1>0 DEF Version
    <2> QED
        BY <2>1, <2>2 DEF Superseded
<1>2. CASE ~Disjoint(sel)
    <2> DEFINE all  == UNION {Of(content[s.id], v.key) : s \in sel}
               seqs == {w.seq : w \in all}
    <2>1. \A w \in all : w \in Version /\ w.key = v.key
        BY <1>0 DEF Of
    <2>2. v \in all
        BY DEF Of
    <2>3. seqs \subseteq Nat /\ seqs # {} /\ v.seq \in seqs
        BY <2>1, <2>2 DEF Version
    <2>4. MaxWrites \in Nat /\ \A n \in seqs : n <= MaxWrites
        BY <2>1, BoundAssumption DEF Version
    <2>5. PICK m \in seqs : \A n \in seqs : n <= m
        <3> HIDE DEF seqs
        <3> QED
            BY <2>3, <2>4, GreatestExists
    <2> DEFINE owners == {s \in sel : \E w \in Of(content[s.id], v.key) : w.seq = m}
               ranks  == {s.rank : s \in owners}
    <2>6. ranks \subseteq Nat /\ ranks # {}
        BY <1>0
    <2>7. PICK b \in Nat : \A r \in ranks : r <= b
        BY DEF RanksBounded
    <2>8. PICK r \in ranks : \A q \in ranks : q <= r
        <3> HIDE DEF ranks
        <3> QED
            BY <2>6, <2>7, GreatestExists
    <2>9. PICK s \in owners : s.rank = r
        OBVIOUS
    <2>10. PICK w \in Of(content[s.id], v.key) : w.seq = m
        OBVIOUS
    <2>11. ASSUME NEW t \in sel, NEW u \in Of(content[t.id], w.key)
           PROVE  u.seq < w.seq \/ (u.seq = w.seq /\ t.rank <= s.rank)
        <3>1. w.key = v.key
            BY <2>10 DEF Of
        <3>2. u.seq \in seqs /\ u.seq \in Nat /\ w.seq \in Nat /\ u.seq <= w.seq
            BY <2>3, <2>5, <2>10, <3>1
        <3>3. u.seq = w.seq => t.rank \in ranks
            BY <2>10, <3>1
        <3>4. u.seq = w.seq => t.rank <= s.rank
            BY <2>8, <2>9, <3>3
        <3> QED
            BY <3>2, <3>4
    <2>12. w \in Merged(sel)
        <3>1. s \in sel /\ w \in content[s.id]
            BY <2>10 DEF Of
        <3> QED
            BY <2>11, <3>1 DEF Merged
    <2>13. w \in Output(sel)
        BY <1>2, <2>12 DEF Output
    <2>14. w.key = v.key /\ w.seq >= v.seq
        BY <2>3, <2>5, <2>10 DEF Of
    <2> QED
        BY <2>13, <2>14 DEF Superseded
<1> QED
    BY <1>1, <1>2

(* What the published segments hold; a version they supersede, or a failed *)
(* flush has dropped, needs the log no more.                               *)
Contents(S) == UNION {content[s.id] : s \in S}
Stored == Contents(segs)
Saved(v) == v.no \in dropped \/ Superseded(v, Stored)

(* A flush and a compaction exclude each other; what the log still holds   *)
(* is saved, or in the memtable or the file being flushed; the output of a *)
(* merge covers the segments it is about to replace.                       *)
LogCovered ==
    /\ flush # "idle" => comp.step = "idle"
    /\ flush = "written" => flushId \in SegId
    /\ flush = "emptied" => walDisk = {}
    /\ \A v \in walDisk \cup walBuf :
        \/ Saved(v)
        \/ flush = "idle" /\ v \in mem
        \/ flush = "frozen" /\ v \in imm
        \/ flush = "written" /\ v \in content[flushId]
        \/ flush = "emptied"
MergeCovers ==
    comp.step = "merged" =>
        \A s \in AtIndexes(comp.sel, segs) : \A v \in content[s.id] :
            Superseded(v, content[comp.id])

Covers == LogCovered /\ MergeCovers

(* No flush is under way beside a compaction: so it is when compaction     *)
(* runs inside the write call.                                             *)
Apart == flush' # "idle" => comp'.step = "idle"

(* Inside the write call compaction and flush exclude each other.          *)
LEMMA SerializedIsApart == Serialized /\ Inv /\ Covers /\ [Next]_vars => Apart
<1> SUFFICES ASSUME Serialized, Inv, Covers, [Next]_vars PROVE Apart
    OBVIOUS
<1>1. flush # "idle" => comp.step = "idle"
    BY DEF Covers, LogCovered
<1>2. CASE \E k \in Key : Put(k) \/ Delete(k)
    BY <1>2, Zenon DEF Put, Delete, WriterFree, Apart
<1>3. CASE SyncWal \/ SyncNothing \/ TruncateWal \/ WriteWalHeader \/ FlushWrite \/ FlushInstall
    BY <1>1, <1>3 DEF SyncWal, SyncNothing, TruncateWal, WriteWalHeader, FlushWrite, FlushInstall,
                      flushVars, Apart
<1>4. CASE SwitchAndFlush
    BY <1>4, Zenon DEF SwitchAndFlush, WriterFree, Apart
<1>5. CASE FlushFails \/ Crash
    BY <1>5, Zenon DEF FlushFails, Crash, Apart
<1>6. CASE CompactSelect
    BY <1>6 DEF CompactSelect, flushVars, Apart
<1>7. CASE CompactMerge \/ CompactPublish \/ CompactRemove
    <2>1. comp.step # "idle" /\ UNCHANGED flush
        BY <1>7 DEF CompactMerge, CompactPublish, CompactRemove, flushVars
    <2> QED
        BY <1>1, <2>1 DEF Apart
<1>8. CASE UNCHANGED vars
    BY <1>1, <1>8 DEF vars, flushVars, Apart
<1> QED
    BY <1>2, <1>3, <1>4, <1>5, <1>6, <1>7, <1>8 DEF Next

(* At the start there is no flush or merge to be covered.                  *)
LEMMA InitCovers == Init => Covers
BY DEF Init, Covers, LogCovered, MergeCovers, NoComp

(* What is in a set of versions is superseded there.                       *)
LEMMA MemberIsSuperseded ==
    ASSUME NEW v \in Version, NEW S, v \in S
    PROVE  Superseded(v, S)
BY DEF Superseded, Version

(* What the segments supersede they go on superseding: no step but a       *)
(* restart takes a segment away, except for a merge that covers it.        *)
LEMMA StoredStays ==
    ASSUME Inv, Covers, Next, ~Crash, NEW v \in Version, Superseded(v, Stored)
    PROVE  Superseded(v, Stored')
<1>1. PICK w \in Stored : w.key = v.key /\ w.seq >= v.seq
    BY DEF Superseded
<1>2. PICK o \in segs : w \in content[o.id]
    BY DEF Stored, Contents
<1>3. o.id \in SegId /\ o.id < nextId /\ w \in Version
    BY <1>2 DEF Inv, TypeOK, SegmentsKnown
<1>4. CASE w \in Stored'
    BY <1>1, <1>4 DEF Superseded
<1>5. CASE o \in segs' /\ content'[o.id] = content[o.id]
    BY <1>2, <1>4, <1>5 DEF Stored, Contents
<1>6. CASE (\E k \in Key : Put(k) \/ Delete(k)) \/ SyncWal \/ SyncNothing \/ SwitchAndFlush
           \/ TruncateWal \/ WriteWalHeader \/ FlushInstall \/ FlushFails
    <2>1. segs \subseteq segs' /\ UNCHANGED content
        BY <1>6 DEF Put, Delete, SyncWal, SyncNothing, SwitchAndFlush, TruncateWal,
                    WriteWalHeader, FlushInstall, FlushFails, fileVars
    <2> QED
        BY <1>5, <2>1
<1>7. CASE FlushWrite \/ CompactMerge
    <2>1. UNCHANGED segs /\ \A i \in SegId : i # nextId => content'[i] = content[i]
        BY <1>7 DEF FlushWrite, CompactMerge, Inv, TypeOK
    <2>2. o.id # nextId
        BY <1>3, BoundAssumption DEF Inv, TypeOK, SegId
    <2> QED
        BY <1>3, <1>5, <2>1, <2>2
<1>8. CASE CompactSelect \/ CompactRemove
    BY <1>5, <1>8 DEF CompactSelect, CompactRemove, fileVars
<1>9. CASE CompactPublish
    <2> DEFINE old == AtIndexes(comp.sel, segs)
               new == [id |-> comp.id, level |-> comp.out, rank |-> NextRank(segs)]
    <2>1. UNCHANGED content /\ comp.step = "merged" /\ segs' = (segs \ old) \cup {new}
        BY <1>9 DEF CompactPublish
    <2>2. CASE o \in old
        <3>1. Superseded(w, content[comp.id])
            BY <1>2, <2>1, <2>2 DEF Covers, MergeCovers
        <3>2. PICK u \in content[comp.id] : u.key = w.key /\ u.seq >= w.seq
            BY <3>1 DEF Superseded
        <3>3. comp.id \in SegId
            BY <2>1 DEF Inv, TypeOK, PendingFresh, Fresh
        <3>4. u.seq >= v.seq
            <4>1. u \in Version
                BY <3>2, <3>3 DEF Inv, TypeOK
            <4> QED
                BY <1>1, <1>3, <3>2, <4>1 DEF Version
        <3>5. new \in segs' /\ new.id = comp.id
            BY <2>1
        <3>6. u \in Stored'
            BY <2>1, <3>2, <3>5 DEF Stored, Contents
        <3> QED
            BY <1>1, <3>2, <3>4, <3>6 DEF Superseded
    <2>3. CASE o \notin old
        BY <1>5, <2>1, <2>3
    <2> QED
        BY <2>2, <2>3
<1> QED
    BY <1>6, <1>7, <1>8, <1>9 DEF Next

(* What is saved stays so until a restart.                                 *)
LEMMA SavedStays ==
    ASSUME Inv, Covers, Next, ~Crash, NEW v \in Version, Saved(v)
    PROVE  Saved(v)'
<1>1. dropped \subseteq dropped'
    BY DEF Next, Put, Delete, SyncWal, SyncNothing, SwitchAndFlush, FlushWrite, FlushInstall,
           TruncateWal, WriteWalHeader, FlushFails, CompactSelect, CompactMerge, CompactPublish,
           CompactRemove, histVars
<1>2. Saved(v)' <=> v.no \in dropped' \/ Superseded(v, Stored')
    BY DEF Saved, Superseded
<1> QED
    BY <1>1, <1>2, StoredStays DEF Saved

(* The records of the log are versions.                                    *)
LEMMA LogTyped == Inv => walDisk \cup walBuf \subseteq Version
BY DEF Inv, TypeOK

(* Writes reach the log's buffer or file and the memtable together.        *)
LEMMA WriteKeepsCovers ==
    ASSUME Apart, Inv, Covers, Next, NEW k \in Key, Put(k) \/ Delete(k)
    PROVE  Covers'
<1>0. ~Crash
    BY DEF Put, Delete, Crash, Inv, TypeOK
<1>1. UNCHANGED <<segs, content, comp>> /\ flush = "idle" /\ flush' \in {"idle", "frozen"}
    BY DEF Put, Delete, WriterFree, Freeze, fileVars, flushVars
<1>2. MergeCovers'
    BY <1>1 DEF Covers, MergeCovers, AtIndexes, IndexOf, Superseded
<1>3. PICK v : walDisk' \cup walBuf' = walDisk \cup walBuf \cup {v}
               /\ IF flush' = "idle" THEN mem' = mem \cup {v} ELSE imm' = mem \cup {v}
    <2>1. CASE Put(k)
        BY <1>1, <2>1 DEF Put, Freeze, flushVars
    <2>2. CASE Delete(k)
        BY <1>1, <2>2 DEF Delete, flushVars
    <2> QED
        BY <2>1, <2>2
<1>4. ASSUME NEW w \in walDisk' \cup walBuf'
      PROVE  Saved(w)' \/ (flush' = "idle" /\ w \in mem') \/ (flush' = "frozen" /\ w \in imm')
    <2>1. CASE w = v
        BY <1>1, <1>3, <2>1
    <2>2. CASE w # v
        <3>1. w \in walDisk \cup walBuf /\ w \in Version
            BY <1>3, <2>2, LogTyped
        <3>2. Saved(w) \/ w \in mem
            BY <1>1, <3>1 DEF Covers, LogCovered
        <3>3. Saved(w) => Saved(w)'
            BY <1>0, <3>1, SavedStays
        <3> QED
            BY <1>1, <1>3, <3>2, <3>3
    <2> QED
        BY <2>1, <2>2
<1>5. LogCovered'
    BY <1>1, <1>4 DEF LogCovered, Apart
<1> QED
    BY <1>2, <1>5 DEF Covers

(* A sync moves records the memtable already has; the log is cut when the  *)
(* segments have them.                                                     *)
LEMMA LogStepKeepsCovers ==
    ASSUME Apart, Inv, Covers, Next,
           SyncWal \/ SyncNothing \/ SwitchAndFlush \/ TruncateWal \/ WriteWalHeader
    PROVE  Covers'
<1>1. UNCHANGED <<segs, content, comp, crashes>>
    BY DEF SyncWal, SyncNothing, SwitchAndFlush, TruncateWal, WriteWalHeader, fileVars, histVars
<1>2. ~Crash
    BY <1>1 DEF Crash, Inv, TypeOK
<1>3. MergeCovers'
    BY <1>1 DEF Covers, MergeCovers, AtIndexes, IndexOf, Superseded
<1>4. ASSUME NEW v \in walDisk \cup walBuf, Saved(v) PROVE Saved(v)'
    BY <1>2, <1>4, LogTyped, SavedStays
<1>5. walDisk' \cup walBuf' \subseteq walDisk \cup walBuf
    <2>1. walDisk = {} \/ ~WriteWalHeader
        BY DEF Covers, LogCovered, WriteWalHeader
    <2> QED
        BY <2>1 DEF SyncWal, SyncNothing, SwitchAndFlush, TruncateWal, WriteWalHeader, walVars
<1>6. LogCovered'
    <2>1. CASE SyncWal
        BY <1>1, <1>4, <1>5, <2>1 DEF Covers, LogCovered, SyncWal, flushVars
    <2>2. CASE SyncNothing
        BY <1>1, <1>4, <1>5, <2>2 DEF Covers, LogCovered, SyncNothing, walVars, flushVars
    <2>3. CASE SwitchAndFlush
        BY <1>1, <1>4, <1>5, <2>3
           DEF Covers, LogCovered, SwitchAndFlush, WriterFree, Freeze, walVars, Apart
    <2>4. CASE TruncateWal
        BY <1>1, <1>4, <1>5, <2>4 DEF Covers, LogCovered, TruncateWal, Apart
    <2>5. CASE WriteWalHeader
        <3>1. walDisk' = {} /\ walBuf' = {} /\ flush' = "idle"
            BY <2>5 DEF Covers, LogCovered, WriteWalHeader
        <3> QED
            BY <3>1 DEF LogCovered
    <2> QED
        BY <2>1, <2>2, <2>3, <2>4, <2>5
<1> QED
    BY <1>3, <1>6 DEF Covers

(* A flush hands what the log holds from the memtable to a listed file, or *)
(* drops it.                                                               *)
LEMMA FlushKeepsCovers ==
    ASSUME Apart, Inv, Covers, Next, FlushWrite \/ FlushInstall \/ FlushFails
    PROVE  Covers'
<1>0. /\ flush \in {"frozen", "written", "installed"} /\ UNCHANGED <<walDisk, walBuf, comp, crashes>>
      /\ comp.step = "idle"
    BY DEF FlushWrite, FlushInstall, FlushFails, walVars, histVars, Covers, LogCovered
<1>1. ~Crash
    BY <1>0 DEF Crash, Inv, TypeOK
<1>2. MergeCovers'
    BY <1>0 DEF MergeCovers
<1>3. ASSUME NEW v \in walDisk' \cup walBuf'
      PROVE  v \in walDisk \cup walBuf /\ v \in Version /\ (Saved(v) => Saved(v)')
    BY <1>0, <1>1, LogTyped, SavedStays
<1>4. CASE FlushWrite
    <2>1. /\ flush = "frozen" /\ flush' = "written" /\ flushId' = nextId /\ nextId \in SegId
          /\ content' = [content EXCEPT ![nextId] = imm]
        BY <1>4, BoundAssumption DEF FlushWrite, Inv, TypeOK, SegId
    <2>2. content'[nextId] = imm
        BY <2>1 DEF Inv, TypeOK
    <2>3. LogCovered'
        BY <1>0, <1>3, <2>1, <2>2 DEF Covers, LogCovered
    <2> QED
        BY <1>2, <2>3 DEF Covers
<1>5. ASSUME UNCHANGED content, flush = "written",
             segs' = segs \cup {[id |-> flushId, level |-> 0, rank |-> NextRank(segs)]},
             NEW v \in walDisk' \cup walBuf'
      PROVE  Saved(v)'
    <2>1. v \in Version /\ (Saved(v) => Saved(v)') /\ (Saved(v) \/ v \in content[flushId])
        BY <1>3, <1>5 DEF Covers, LogCovered
    <2>2. ASSUME v \in content[flushId] PROVE Saved(v)'
        <3>1. [id |-> flushId, level |-> 0, rank |-> NextRank(segs)] \in segs'
            BY <1>5
        <3>2. PICK s \in segs' : s.id = flushId
            BY <3>1
        <3>3. v \in Stored'
            BY <1>5, <2>2, <3>2 DEF Stored, Contents
        <3>4. Superseded(v, Stored')
            BY <2>1, <3>3, MemberIsSuperseded
        <3> QED
            BY <3>4 DEF Saved, Superseded
    <2> QED
        BY <2>1, <2>2
<1>6. CASE FlushInstall
    <2>1. flush = "written" /\ flush' = "installed" /\ UNCHANGED content
        BY <1>6 DEF FlushInstall
    <2>2. \A v \in walDisk' \cup walBuf' : Saved(v)'
        BY <1>5, <1>6, <2>1 DEF FlushInstall
    <2>3. LogCovered'
        BY <1>0, <2>1, <2>2 DEF LogCovered
    <2> QED
        BY <1>2, <2>3 DEF Covers
<1>7. CASE FlushFails
    <2>1. flush' = "idle" /\ UNCHANGED content
        BY <1>7 DEF FlushFails
    <2>2. ASSUME NEW v \in walDisk' \cup walBuf' PROVE Saved(v)'
        <3>1. CASE flush = "frozen"
            <4>1. dropped' = dropped \cup {w.no : w \in imm}
                BY <1>7, <3>1 DEF FlushFails
            <4>2. Saved(v) \/ v \in imm
                BY <1>3, <3>1 DEF Covers, LogCovered
            <4> QED
                BY <1>3, <4>1, <4>2 DEF Saved
        <3>2. CASE flush = "written"
            BY <1>5, <1>7, <2>1, <3>2 DEF FlushFails
        <3>3. CASE flush = "installed"
            BY <1>3, <3>3 DEF Covers, LogCovered
        <3> QED
            BY <1>0, <3>1, <3>2, <3>3
    <2>3. LogCovered'
        BY <1>0, <2>1, <2>2 DEF LogCovered
    <2> QED
        BY <1>2, <2>3 DEF Covers
<1> QED
    BY <1>4, <1>6, <1>7

(* The output of a merge supersedes the segments it will replace.          *)
LEMMA CompactKeepsCovers ==
    ASSUME Apart, Inv, Covers, Next,
           CompactSelect \/ CompactMerge \/ CompactPublish \/ CompactRemove
    PROVE  Covers'
<1>0. UNCHANGED <<walDisk, walBuf, mem, flush, imm, flushId, crashes>>
    BY DEF CompactSelect, CompactMerge, CompactPublish, CompactRemove, walVars, flushVars, histVars
<1>1. ~Crash
    BY <1>0 DEF Crash, Inv, TypeOK
<1>2. ASSUME NEW v \in walDisk \cup walBuf, Saved(v) PROVE Saved(v)'
    BY <1>1, <1>2, LogTyped, SavedStays
<1>3. flush = "written" => UNCHANGED content
    BY DEF CompactSelect, CompactMerge, CompactPublish, CompactRemove, fileVars, Covers, LogCovered
<1>4. LogCovered'
    BY <1>0, <1>2, <1>3 DEF Covers, LogCovered, Apart
<1>5. CASE CompactSelect
    <2>1. comp'.step # "merged"
        BY <1>5 DEF CompactSelect, NoComp
    <2> QED
        BY <1>4, <2>1 DEF Covers, MergeCovers
<1>6. CASE CompactMerge
    <2>1. /\ UNCHANGED segs /\ comp.step = "selected"
          /\ content' = [content EXCEPT ![nextId] = Output(AtIndexes(comp.sel, segs))]
          /\ comp' = [comp EXCEPT !.step = "merged", !.id = nextId]
          /\ nextId \in SegId
        BY <1>6, BoundAssumption DEF CompactMerge, Inv, TypeOK, SegId
    <2>2. comp'.id = nextId /\ comp'.sel = comp.sel
        BY <2>1 DEF Inv, TypeOK
    <2>3. content'[nextId] = Output(AtIndexes(comp.sel, segs))
        BY <2>1 DEF Inv, TypeOK
    <2>4. ASSUME NEW s \in AtIndexes(comp.sel, segs), NEW v \in content'[s.id]
          PROVE  Superseded(v, content'[comp'.id])
        <3>1. s \in segs /\ s.id \in SegId /\ s.id # nextId
            BY <2>1, BoundAssumption DEF AtIndexes, Inv, TypeOK, SegmentsKnown, SegId
        <3>2. content'[s.id] = content[s.id]
            BY <2>1, <3>1 DEF Inv, TypeOK
        <3>3. AtIndexes(comp.sel, segs) \subseteq segs
            BY DEF AtIndexes
        <3>4. Superseded(v, Output(AtIndexes(comp.sel, segs)))
            BY <2>4, <3>2, <3>3, OutputSupersedes DEF Inv, SegmentsKnown
        <3> QED
            BY <2>2, <2>3, <3>4
    <2>5. MergeCovers'
        <3>1. AtIndexes(comp'.sel, segs') = AtIndexes(comp.sel, segs)
            BY <2>1, <2>2
        <3> QED
            BY <2>4, <3>1 DEF MergeCovers, Superseded
    <2> QED
        BY <1>4, <2>5 DEF Covers
<1>7. CASE CompactPublish
    <2>1. comp'.step = "published"
        BY <1>7 DEF CompactPublish, Inv, TypeOK
    <2> QED
        BY <1>4, <2>1 DEF Covers, MergeCovers
<1>8. CASE CompactRemove
    <2>1. comp' = NoComp
        BY <1>8 DEF CompactRemove
    <2> QED
        BY <1>4, <2>1 DEF Covers, MergeCovers, NoComp
<1> QED
    BY <1>5, <1>6, <1>7, <1>8

(* Every step keeps the log and the merges covered.                        *)
LEMMA NextKeepsCovers ==
    ASSUME Apart, Inv, Covers, [Next]_vars
    PROVE  Covers'
<1>1. CASE Next /\ \E k \in Key : Put(k) \/ Delete(k)
    BY <1>1, WriteKeepsCovers
<1>2. CASE Next /\ (SyncWal \/ SyncNothing \/ SwitchAndFlush \/ TruncateWal \/ WriteWalHeader)
    BY <1>2, LogStepKeepsCovers
<1>3. CASE Next /\ (FlushWrite \/ FlushInstall \/ FlushFails)
    BY <1>3, FlushKeepsCovers
<1>4. CASE Next /\ (CompactSelect \/ CompactMerge \/ CompactPublish \/ CompactRemove)
    BY <1>4, CompactKeepsCovers
<1>5. CASE Crash
    <2>1. /\ mem' = walDisk /\ walBuf' = {} /\ walDisk' = walDisk
          /\ flush' = "idle" /\ comp' = NoComp
        BY <1>5 DEF Crash
    <2> QED
        BY <2>1 DEF Covers, LogCovered, MergeCovers, NoComp
<1>6. CASE UNCHANGED vars
    BY <1>6 DEF Covers, LogCovered, MergeCovers, AtIndexes, IndexOf, Superseded, Saved, Stored,
                Contents, vars, walVars, flushVars, fileVars, histVars
<1> QED
    BY <1>1, <1>2, <1>3, <1>4, <1>5, <1>6 DEF Next

(* A restart can use the log and the files of the manifest, which are      *)
(* published segments.                                                     *)
LEMMA RecoverableIs ==
    Inv => /\ Recoverable = walDisk \cup UNION {content[m.id] : m \in manifest}
           /\ Recoverable \subseteq walDisk \cup Stored /\ Recoverable \subseteq Version
           /\ manifest = Listed(segs) => Recoverable = walDisk \cup Stored
<1> SUFFICES ASSUME Inv
             PROVE  /\ Recoverable = walDisk \cup UNION {content[m.id] : m \in manifest}
                    /\ Recoverable \subseteq walDisk \cup Stored /\ Recoverable \subseteq Version
                    /\ manifest = Listed(segs) => Recoverable = walDisk \cup Stored
    OBVIOUS
<1>1. ASSUME NEW m \in manifest
      PROVE  m.id \in onDisk /\ \E s \in segs : s.id = m.id
    BY DEF Inv, SegmentsKnown, Listed
<1>2. Recoverable = walDisk \cup UNION {content[m.id] : m \in manifest}
    BY <1>1 DEF Recoverable
<1>3. Recoverable \subseteq walDisk \cup Stored
    BY <1>1, <1>2 DEF Stored, Contents
<1>4. Recoverable \subseteq Version
    BY <1>3 DEF Stored, Contents, Inv, TypeOK
<1>5. ASSUME manifest = Listed(segs) PROVE Stored \subseteq Recoverable
    <2>1. ASSUME NEW s \in segs PROVE \E m \in manifest : m.id = s.id
        <3>1. [id |-> s.id, level |-> s.level] \in manifest
            BY <1>5 DEF Listed
        <3> QED
            BY <3>1
    <2> QED
        BY <1>2, <2>1 DEF Stored, Contents
<1> QED
    BY <1>2, <1>3, <1>4, <1>5

(* A step leaves every version a restart could use superseded or in place, *)
(* unless a failed flush had dropped it.                                   *)
LEMMA StepNeverForgets ==
    ASSUME Inv, Inv', Covers, Next, NEW v \in Recoverable
    PROVE  v.no \in dropped \/ Superseded(v, Recoverable')
<1>0. /\ Recoverable = walDisk \cup UNION {content[m.id] : m \in manifest}
      /\ v \in Version /\ v \in walDisk \cup Stored
      /\ Recoverable' = walDisk' \cup UNION {content'[m.id] : m \in manifest'}
      /\ manifest' = Listed(segs') => Recoverable' = walDisk' \cup Stored'
    <2>1. /\ (Recoverable = walDisk \cup UNION {content[m.id] : m \in manifest})'
          /\ (manifest = Listed(segs) => Recoverable = walDisk \cup Stored)'
        BY RecoverableIs, PTL
    <2>2. Listed(segs)' = Listed(segs')
        BY DEF Listed
    <2> QED
        BY <2>1, <2>2, RecoverableIs
<1>1. CASE v \in Recoverable'
    BY <1>0, <1>1, MemberIsSuperseded
<1>2. CASE walDisk \subseteq walDisk' /\ UNCHANGED <<manifest, content>>
    BY <1>0, <1>1, <1>2
<1>3. CASE FlushWrite \/ CompactMerge
    <2>1. UNCHANGED <<walDisk, manifest>> /\ \A i \in SegId : i # nextId => content'[i] = content[i]
        BY <1>3 DEF FlushWrite, CompactMerge, walVars, Inv, TypeOK
    <2>2. \A m \in manifest : m.id \in SegId /\ m.id # nextId
        BY BoundAssumption DEF Inv, TypeOK, SegmentsKnown, Listed, SegId
    <2> QED
        BY <1>0, <1>1, <2>1, <2>2
<1>4. CASE FlushInstall
    <2>1. UNCHANGED <<walDisk, content>> /\ segs \subseteq segs' /\ manifest' = Listed(segs')
        BY <1>4 DEF FlushInstall, walVars
    <2>2. Stored \subseteq Stored'
        BY <2>1 DEF Stored, Contents
    <2> QED
        BY <1>0, <1>1, <2>1, <2>2
<1>5. CASE TruncateWal
    <2>1. UNCHANGED <<segs, content, manifest>> /\ flush = "installed"
        BY <1>5 DEF TruncateWal, fileVars
    <2>2. Stored' = Stored /\ manifest' = Listed(segs')
        BY <2>1 DEF Stored, Contents, Inv, SegmentsKnown
    <2>3. CASE v \in Stored
        BY <1>0, <1>1, <2>2, <2>3
    <2>4. CASE v \in walDisk
        <3>1. Saved(v)
            BY <2>1, <2>4 DEF Covers, LogCovered
        <3>2. Stored \subseteq Recoverable'
            BY <1>0, <2>2
        <3> QED
            BY <3>1, <3>2 DEF Saved, Superseded
    <2> QED
        BY <1>0, <2>3, <2>4
<1>6. CASE CompactPublish
    <2>1. UNCHANGED walDisk /\ manifest' = Listed(segs') /\ UNCHANGED crashes
        BY <1>6 DEF CompactPublish, walVars, histVars
    <2>2. ~Crash
        BY <2>1 DEF Crash, Inv, TypeOK
    <2>3. CASE v \in walDisk
        BY <1>0, <1>1, <2>1, <2>3
    <2>4. CASE v \in Stored
        <3>1. Superseded(v, Stored')
            BY <1>0, <2>2, <2>4, MemberIsSuperseded, StoredStays
        <3>2. Stored' \subseteq Recoverable'
            BY <1>0, <2>1
        <3> QED
            BY <3>1, <3>2 DEF Superseded
    <2> QED
        BY <1>0, <2>3, <2>4
<1>7. CASE Crash
    <2>1. Recoverable' = Recoverable
        BY <1>7 DEF Crash, Recoverable
    <2> QED
        BY <1>1, <2>1
<1>8. CASE \E k \in Key : Put(k) \/ Delete(k)
    BY <1>2, <1>8 DEF Put, Delete, fileVars
<1>9. CASE SyncWal \/ SyncNothing \/ SwitchAndFlush \/ WriteWalHeader \/ CompactSelect
           \/ CompactRemove \/ FlushFails
    BY <1>2, <1>9 DEF SyncWal, SyncNothing, SwitchAndFlush, WriteWalHeader, CompactSelect,
                      CompactRemove, FlushFails, walVars, fileVars
<1> QED
    BY <1>3, <1>4, <1>5, <1>6, <1>7, <1>8, <1>9 DEF Next

(* When compaction runs inside the write call, no step of a write, a sync, *)
(* a flush, a compaction or a crash and restart loses a version a restart  *)
(* could have used, whatever the selection of segments, the read heat, the *)
(* size cap, the point of the crash and the step at which a flush fails,   *)
(* except what a flush that could not write its file has dropped: a log is *)
(* truncated only after its records are in a file of the manifest, and     *)
(* files leave the manifest only for an output that supersedes everything  *)
(* in them.                                                                *)
THEOREM NothingForgotten ==
    ASSUME Serialized
    PROVE  Spec => NeverForgets
<1>1. Init => Inv /\ Covers
    BY InitInv, InitCovers
<1>2. Inv /\ Covers /\ [Next]_vars => (Inv /\ Covers)'
    BY NextKeepsInv, SerializedIsApart, NextKeepsCovers
<1>3. Inv /\ Covers /\ Inv' /\ [Next]_vars
        => [\A v \in Recoverable : v.no \in dropped \/ Superseded(v, Recoverable')]_vars
    BY StepNeverForgets
<1> QED
    BY <1>1, <1>2, <1>3, PTL DEF Spec, NeverForgets

---------------------------------------------------------------------------
(* What is read is what was last written, as long as segments keep the     *)
(* order in which their versions were written: the conditions under which  *)
(* they do are stated below, of steps.                                     *)

(* Values of a flat function of numbers 1..n are bounded.                  *)
LEMMA ValuesBounded ==
    ASSUME NEW n \in Nat, NEW f \in [1..n -> Nat]
    PROVE  \E b \in Nat : \A i \in 1..n : f[i] <= b
<1> DEFINE Bounded(m) == \E b \in Nat : \A i \in 1..m : f[i] <= b
           beyond == {m \in 0..n : ~Bounded(m)}
<1>1. SUFFICES ASSUME beyond # {} PROVE FALSE
    <2>1. n \in 0..n
        OBVIOUS
    <2> QED
        BY <2>1
<1>2. PICK m \in beyond : \A j \in beyond : m <= j
    <2>1. beyond \subseteq Nat
        OBVIOUS
    <2> HIDE DEF beyond
    <2> QED
        BY <1>1, <2>1, LeastExists, Zenon
<1>3. m # 0
    <2>1. \A i \in 1..0 : f[i] <= 0
        OBVIOUS
    <2>2. Bounded(0)
        BY <2>1
    <2> QED
        BY <1>2, <2>2
<1>4. m - 1 \in 0..n /\ m - 1 \notin beyond
    <2>1. m \in Nat /\ m <= n /\ m - 1 \in 0..n
        BY <1>2, <1>3
    <2>2. m - 1 \in beyond => m <= m - 1
        BY <1>2
    <2> HIDE DEF beyond
    <2> QED
        BY <2>1, <2>2
<1>5. PICK b \in Nat : \A i \in 1..(m - 1) : f[i] <= b
    BY <1>4
<1>6. m \in 1..n /\ f[m] \in Nat
    BY <1>3
<1>7. b + f[m] \in Nat /\ \A i \in 1..m : f[i] <= b + f[m]
    <2>1. ASSUME NEW i \in 1..m PROVE f[i] <= b + f[m]
        <3>1. f[i] \in Nat
            BY <1>6
        <3>2. i = m \/ i \in 1..(m - 1)
            BY <1>6
        <3> QED
            BY <1>5, <1>6, <3>1, <3>2
    <2> QED
        BY <1>6, <2>1
<1> QED
    BY <1>2, <1>7

(* Of versions that differ in their numbers: the later one was written     *)
(* later.                                                                  *)
InStep(S) ==
    \A v, w \in S : /\ v.seq < w.seq => v.no < w.no
                    /\ v.seq = w.seq => v = w

(* The write that made the newest version of k in S; 0 when there is none. *)
Value(S, k) == IF Of(S, k) = {} THEN 0 ELSE Newest(S, k).no

(* The newest version is the one with the highest number.                  *)
LEMMA NewestIs ==
    ASSUME NEW S \in SUBSET Version, InStep(S), NEW k \in Key,
           NEW v \in Of(S, k), \A w \in Of(S, k) : w.seq <= v.seq
    PROVE  Newest(S, k) = v /\ Value(S, k) = v.no
<1>1. Newest(S, k) \in Of(S, k) /\ \A w \in Of(S, k) : w.seq <= Newest(S, k).seq
    BY NewestIsVersion
<1>2. v \in S /\ Newest(S, k) \in S
    BY <1>1 DEF Of
<1>3. v.seq \in Nat /\ Newest(S, k).seq \in Nat
    BY <1>2 DEF Version
<1>4. v.seq = Newest(S, k).seq
    BY <1>1, <1>3
<1>5. Newest(S, k) = v
    BY <1>2, <1>4 DEF InStep
<1> QED
    BY <1>5 DEF Value

(* The newest version of k, when there is one, and its value.              *)
LEMMA NewestKnown ==
    ASSUME NEW S \in SUBSET Version, NEW k \in Key, Of(S, k) # {}
    PROVE  /\ Newest(S, k) \in Of(S, k) /\ Newest(S, k) \in S
           /\ \A w \in Of(S, k) : w.seq <= Newest(S, k).seq
           /\ Value(S, k) = Newest(S, k).no
           /\ Newest(S, k).no \in 1..MaxWrites /\ Newest(S, k).seq \in Nat
BY NewestIsVersion DEF Value, Of, Version

(* A value is the number of a write.                                       *)
LEMMA ValueType ==
    ASSUME NEW S \in SUBSET Version, NEW k \in Key
    PROVE  Value(S, k) \in Nat
BY NewestKnown DEF Value

(* What has a version at least as new stays in need of no other.           *)
LEMMA SameValue ==
    ASSUME NEW S \in SUBSET Version, InStep(S), NEW T \in SUBSET S,
           \A v \in S : Superseded(v, T), NEW k \in Key
    PROVE  Value(T, k) = Value(S, k)
<1>1. CASE Of(S, k) = {}
    BY <1>1 DEF Value, Of
<1>2. CASE Of(S, k) # {}
    <2> DEFINE v == Newest(S, k)
    <2>1. v \in Of(S, k) /\ v \in S /\ v.seq \in Nat /\ \A w \in Of(S, k) : w.seq <= v.seq
          /\ Value(S, k) = v.no
        BY <1>2, NewestKnown
    <2> HIDE DEF v
    <2>2. PICK w \in T : w.key = v.key /\ w.seq >= v.seq
        BY <2>1 DEF Superseded
    <2>3. w \in Of(S, k) /\ w \in S /\ w.seq \in Nat
        BY <2>1, <2>2 DEF Of, Version
    <2>4. w = v
        BY <2>1, <2>2, <2>3 DEF InStep
    <2>5. v \in Of(T, k) /\ \A u \in Of(T, k) : u.seq <= v.seq
        BY <2>1, <2>2, <2>4 DEF Of
    <2>6. T \in SUBSET Version /\ InStep(T)
        BY DEF InStep
    <2> QED
        BY <2>1, <2>5, <2>6, NewestIs
<1> QED
    BY <1>1, <1>2

(* With more versions the value is not older.                              *)
LEMMA ValueGrows ==
    ASSUME NEW S \in SUBSET Version, InStep(S), NEW T \in SUBSET S, NEW k \in Key
    PROVE  Value(T, k) <= Value(S, k)
<1>1. CASE Of(T, k) = {}
    <2>1. Value(T, k) = 0 /\ Value(S, k) \in Nat
        BY <1>1, ValueType DEF Value
    <2> QED
        BY <2>1
<1>2. CASE Of(T, k) # {}
    <2>1. T \in SUBSET Version /\ Of(T, k) \subseteq Of(S, k)
        BY DEF Of
    <2> DEFINE t == Newest(T, k)
               s == Newest(S, k)
    <2>2. t \in Of(T, k) /\ t.seq \in Nat /\ t.no \in 1..MaxWrites /\ Value(T, k) = t.no
        BY <1>2, <2>1, NewestKnown
    <2>3. Of(S, k) # {}
        BY <1>2, <2>1
    <2>4. /\ s \in S /\ s.seq \in Nat /\ s.no \in 1..MaxWrites /\ Value(S, k) = s.no
          /\ \A w \in Of(S, k) : w.seq <= s.seq
        BY <2>3, NewestKnown
    <2> HIDE DEF s, t
    <2>5. t \in S /\ t.seq <= s.seq
        BY <2>1, <2>2, <2>4 DEF Of
    <2>6. t.seq = s.seq => t = s
        BY <2>4, <2>5 DEF InStep
    <2>7. t.seq < s.seq => t.no < s.no
        BY <2>4, <2>5 DEF InStep
    <2>8. MaxWrites \in Nat
        BY BoundAssumption
    <2> QED
        BY <2>2, <2>4, <2>5, <2>6, <2>7, <2>8
<1> QED
    BY <1>1, <1>2

(* Every version in S is newer than every version in T of the same key.    *)
Newer(S, T) == \A v \in S, w \in T : v.key = w.key => w \in S \/ w.seq < v.seq

(* The newer set decides, where it has the key.                            *)
LEMMA NewerDecides ==
    ASSUME NEW S \in SUBSET Version, NEW T \in SUBSET Version, InStep(S \cup T),
           Newer(S, T), NEW k \in Key
    PROVE  Value(IF Of(S, k) # {} THEN S ELSE T, k) = Value(S \cup T, k)
<1>1. CASE Of(S, k) = {}
    <2>1. Of(S \cup T, k) = Of(T, k)
        BY <1>1 DEF Of
    <2>2. Newest(S \cup T, k) = Newest(T, k)
        BY <2>1, Zenon DEF Newest
    <2> QED
        BY <1>1, <2>1, <2>2 DEF Value
<1>2. CASE Of(S, k) # {}
    <2> DEFINE v == Newest(S, k)
    <2>1. /\ v \in Of(S, k) /\ v \in S /\ v.seq \in Nat /\ Value(S, k) = v.no
          /\ \A w \in Of(S, k) : w.seq <= v.seq
        BY <1>2, NewestKnown
    <2> HIDE DEF v
    <2>2. ASSUME NEW w \in Of(S \cup T, k) PROVE w.seq <= v.seq
        <3>1. CASE w \in S
            BY <2>1, <3>1 DEF Of
        <3>2. CASE w \notin S
            <4>1. w \in T /\ w.key = k /\ v.key = k /\ w.seq \in Nat
                BY <2>1, <3>2 DEF Of, Version
            <4> QED
                BY <2>1, <3>2, <4>1 DEF Newer
        <3> QED
            BY <3>1, <3>2
    <2>3. v \in Of(S \cup T, k) /\ S \cup T \in SUBSET Version
        BY <2>1 DEF Of
    <2>4. Value(S \cup T, k) = v.no
        BY <2>2, <2>3, NewestIs
    <2> QED
        BY <1>2, <2>1, <2>4
<1> QED
    BY <1>1, <1>2

---------------------------------------------------------------------------
(* Lists of segments *)

(* The segments of S hold versions, have places of their own, and are read *)
(* in the order in which the versions of a key were written.               *)
ByAge(S) ==
    /\ \A s \in S : content[s.id] # {}
    /\ \A s, t \in S : s.rank = t.rank => s = t
    /\ \A s, t \in S : Before(s, t) =>
           \A v \in content[s.id], w \in content[t.id] : v.key = w.key => w.seq < v.seq

SegmentList == SUBSET [id : SegId, level : Level, rank : Nat]

(* Versions with numbers of their own have keys up to a greatest one.      *)
LEMMA KeysBounded ==
    ASSUME NEW S \in SUBSET Version, InStep(S)
    PROVE  \E b \in Nat : \A v \in S : v.key <= b
<1> DEFINE at(i) == CHOOSE v \in S : v.seq = i
           f == [i \in 1..MaxWrites |-> IF \E v \in S : v.seq = i THEN at(i).key ELSE 0]
<1>1. MaxWrites \in Nat /\ \A v \in S : v.seq \in 1..MaxWrites /\ v.key \in Nat
    BY BoundAssumption, KeyAssumption DEF Version
<1>2. ASSUME NEW v \in S PROVE f[v.seq] = v.key
    <2>1. at(v.seq) \in S /\ at(v.seq).seq = v.seq
        OBVIOUS
    <2> HIDE DEF at
    <2>2. at(v.seq) = v
        BY <2>1 DEF InStep
    <2>3. v.seq \in 1..MaxWrites
        BY <1>1
    <2> QED
        BY <2>2, <2>3
<1>3. f \in [1..MaxWrites -> Nat]
    <2>1. ASSUME NEW i \in 1..MaxWrites, \E v \in S : v.seq = i PROVE at(i).key \in Nat
        <3>1. at(i) \in S
            BY <2>1
        <3> HIDE DEF at
        <3> QED
            BY <1>1, <3>1
    <2> HIDE DEF at
    <2> QED
        BY <2>1
<1> HIDE DEF f
<1>4. PICK b \in Nat : \A i \in 1..MaxWrites : f[i] <= b
    BY <1>1, <1>3, ValuesBounded
<1>5. \A v \in S : v.key <= b
    BY <1>1, <1>2, <1>4
<1> QED
    BY <1>5

(* A level is not skipped for a key it has (build_layer_meta).             *)
LEMMA HitNotSkipped ==
    ASSUME content \in [SegId -> SUBSET Version], NEW S \in SegmentList, ByAge(S),
           InStep(Contents(S)), NEW s \in S, NEW k \in Keys(s.id)
    PROVE  ~Skipped(S, s.level, k)
<1> DEFINE layer  == {t \in S : t.level = s.level}
           ranged == UNION {Keys(t.id) : t \in Covered(S, s.level)}
<1>1. \A t \in S : Keys(t.id) # {}
    BY DEF ByAge, Keys
<1>2. Covered(S, s.level) = layer
    BY <1>1 DEF Covered
<1>3. k \in ranged
    BY <1>2
<1>4. \A j \in ranged : \E t \in S : \E v \in content[t.id] : v.key = j
    BY <1>2 DEF Keys
<1>5. Contents(S) \in SUBSET Version
    BY DEF Contents, SegmentList
<1>6. PICK b \in Nat : \A v \in Contents(S) : v.key <= b
    BY <1>5, KeysBounded
<1>7. \A j \in ranged : j \in Nat /\ j <= b
    <2>1. ASSUME NEW j \in ranged PROVE j \in Nat /\ j <= b
        <3>1. PICK t \in S : \E v \in content[t.id] : v.key = j
            BY <1>4
        <3>2. PICK v \in content[t.id] : v.key = j
            BY <3>1
        <3>3. v \in Contents(S)
            BY DEF Contents
        <3>4. v \in Version
            BY <1>5, <3>3
        <3> QED
            BY <1>6, <3>2, <3>3, <3>4, KeyAssumption DEF Version
    <2> QED
        BY <2>1
<1>8. Skipped(S, s.level, k) => (ranged # {} /\ (k < Min(ranged) \/ k > Max(ranged)))
    BY DEF Skipped
<1> HIDE DEF ranged
<1>9. k \in Nat /\ ranged \subseteq Nat /\ ranged # {}
    BY <1>3, <1>7
<1>10. Max(ranged) \in ranged /\ k <= Max(ranged)
    BY <1>3, <1>7, <1>9, MaxIsGreatest
<1>11. Min(ranged) \in ranged /\ Min(ranged) <= k
    <2>1. \E x \in ranged : \A y \in ranged : x <= y
        BY <1>9, LeastExists
    <2>2. Min(ranged) \in ranged /\ \A y \in ranged : Min(ranged) <= y
        BY <2>1, Zenon DEF Min
    <2> QED
        BY <1>3, <2>2
<1>12. Max(ranged) \in Nat /\ Min(ranged) \in Nat
    BY <1>9, <1>10, <1>11
<1>13. ~(k < Min(ranged)) /\ ~(k > Max(ranged))
    <2> DEFINE lo == Min(ranged)
               hi == Max(ranged)
    <2>1. k \in Nat /\ lo \in Nat /\ hi \in Nat /\ lo <= k /\ k <= hi
        BY <1>9, <1>10, <1>11, <1>12
    <2> HIDE DEF lo, hi
    <2>2. ~(k < lo) /\ ~(k > hi)
        BY <2>1
    <2> QED
        BY <2>2 DEF lo, hi
<1> QED
    BY <1>8, <1>13, Zenon

(* A point read returns the newest version: of the memtable, or of all     *)
(* segments (get_bytes).                                                   *)
LEMMA ReadIsNewest ==
    ASSUME content \in [SegId -> SUBSET Version], NEW S \in SegmentList, RanksBounded(S),
           ByAge(S), InStep(Contents(S)), NEW M \in SUBSET Version, NEW k \in Key
    PROVE  Read(M, S, k) = Value(IF Of(M, k) # {} THEN M ELSE Contents(S), k)
<1> DEFINE hits  == {s \in S : k \in Keys(s.id) /\ ~Skipped(S, s.level, k)}
           first == CHOOSE s \in hits : \A t \in hits : ~Before(t, s)
<1>1. CASE Of(M, k) # {}
    BY <1>1 DEF Read, Value
<1>2. CASE Of(M, k) = {}
    <2>1. hits = {s \in S : k \in Keys(s.id)}
        BY HitNotSkipped
    <2>2. CASE hits = {}
        <3>1. Of(Contents(S), k) = {}
            BY <2>1, <2>2 DEF Of, Contents, Keys
        <3>2. Read(M, S, k) = 0
            BY <1>2, <2>2 DEF Read
        <3> QED
            BY <1>2, <3>1, <3>2 DEF Value
    <2>3. CASE hits # {}
        <3>1. Read(M, S, k) = Newest(content[first.id], k).no
            BY <1>2, <2>3, Zenon DEF Read
        <3>2. \A s \in hits : s \in S /\ s.level \in Nat /\ s.rank \in Nat
            BY <2>1 DEF SegmentList, Level
        <3>3. RanksBounded(hits)
            BY <2>1 DEF RanksBounded
        <3>4. first \in hits /\ \A t \in hits : ~Before(t, first)
            <4> HIDE DEF hits
            <4>1. \E s \in hits : \A t \in hits : ~Before(t, s)
                BY <2>3, <3>2, <3>3, FirstInReadOrder, Zenon
            <4> QED
                BY <4>1, Zenon
        <3> HIDE DEF first
        <3>5. first \in S /\ first.id \in SegId /\ k \in Keys(first.id)
            BY <2>1, <3>4 DEF SegmentList
        <3> HIDE DEF hits
        <3>6. content[first.id] \in SUBSET Version /\ Of(content[first.id], k) # {}
            BY <3>5 DEF Keys, Of
        <3> DEFINE v == Newest(content[first.id], k)
        <3>7. v \in Of(content[first.id], k) /\ \A w \in Of(content[first.id], k) : w.seq <= v.seq
            BY <3>6, NewestKnown
        <3> HIDE DEF v
        <3>8. v \in content[first.id] /\ v.key = k /\ v.seq \in Nat
            BY <3>6, <3>7 DEF Of, Version
        <3>9. Contents(S) \in SUBSET Version /\ v \in Of(Contents(S), k)
            BY <3>5, <3>8 DEF Contents, SegmentList, Of
        <3>10. ASSUME NEW w \in Of(Contents(S), k) PROVE w.seq <= v.seq
            <4>1. PICK t \in S : w \in content[t.id] /\ w.key = k
                BY DEF Of, Contents
            <4>2. t \in hits
                BY <2>1, <4>1 DEF Keys
            <4>3. CASE t = first
                BY <3>7, <4>1, <4>3 DEF Of
            <4>4. CASE t # first
                <5>1. t.rank # first.rank /\ ~Before(t, first)
                    BY <3>4, <3>5, <4>2, <4>4 DEF ByAge
                <5>2. Before(first, t)
                    <6>1. /\ t.rank \in Nat /\ t.level \in Nat
                          /\ first.rank \in Nat /\ first.level \in Nat
                        BY <3>2, <3>4, <4>2
                    <6> QED
                        BY <5>1, <6>1 DEF Before
                <5>3. w.seq < v.seq
                    BY <3>5, <3>8, <4>1, <5>2 DEF ByAge
                <5>4. w.seq \in Nat
                    BY <3>9 DEF Of, Version
                <5> QED
                    BY <3>8, <5>3, <5>4
            <4> QED
                BY <4>3, <4>4
        <3>11. Value(Contents(S), k) = v.no
            BY <3>9, <3>10, NewestIs
        <3> QED
            BY <1>2, <3>1, <3>11 DEF v
    <2> QED
        BY <2>2, <2>3
<1> QED
    BY <1>1, <1>2

(* A scan returns the newest version of all (scan_raw_range).              *)
LEMMA ScanIsNewest ==
    ASSUME content \in [SegId -> SUBSET Version], NEW S \in SegmentList, RanksBounded(S),
           NEW M \in SUBSET Version, InStep(M \cup Contents(S)), NEW k \in Key
    PROVE  Scan(M, S, k) = Value(M \cup Contents(S), k)
<1> DEFINE cands == Of(M, k) \cup UNION {Of(content[s.id], k) : s \in S}
           best  == {v \in cands : \A w \in cands : w.seq <= v.seq}
           owner == {s \in S : best \cap content[s.id] # {}}
           last  == CHOOSE s \in owner : \A t \in owner : t.rank <= s.rank
<1>1. cands = Of(M \cup Contents(S), k)
    BY DEF Of, Contents
<1>2. M \cup Contents(S) \in SUBSET Version
    BY DEF Contents, SegmentList
<1>3. Scan(M, S, k) = IF cands = {} THEN 0
                      ELSE IF best \cap M # {} THEN (CHOOSE v \in best \cap M : TRUE).no
                      ELSE (CHOOSE v \in best \cap content[last.id] : TRUE).no
    BY Zenon DEF Scan
<1>4. CASE cands = {}
    BY <1>1, <1>3, <1>4 DEF Value
<1>5. CASE cands # {}
    <2> DEFINE v == Newest(M \cup Contents(S), k)
    <2>1. /\ v \in cands /\ v \in M \cup Contents(S) /\ v.seq \in Nat
          /\ \A w \in cands : w.seq <= v.seq
          /\ Value(M \cup Contents(S), k) = v.no
        <3> HIDE DEF cands
        <3> QED
            BY <1>1, <1>2, <1>5, NewestKnown
    <2> HIDE DEF v
    <2>2. \A w \in best : w \in cands /\ w \in M \cup Contents(S) /\ w.seq \in Nat /\ v.seq <= w.seq
        BY <1>1, <1>2, <2>1 DEF Of, Version
    <2>3. \A w \in best : w.seq = v.seq
        BY <2>1, <2>2
    <2>4. best = {v}
        <3>1. v \in best
            BY <2>1
        <3> HIDE DEF best, cands
        <3> QED
            BY <2>1, <2>2, <2>3, <3>1 DEF InStep
    <2> HIDE DEF cands, best
    <2>5. CASE v \in M
        <3>1. best \cap M = {v}
            BY <2>4, <2>5
        <3>2. (CHOOSE w \in {v} : TRUE) = v
            OBVIOUS
        <3>3. Scan(M, S, k) = (CHOOSE w \in {v} : TRUE).no
            BY <1>3, <1>5, <3>1
        <3> QED
            BY <2>1, <3>2, <3>3
    <2>6. CASE v \notin M
        <3>1. best \cap M = {}
            BY <2>4, <2>6
        <3>2. owner # {}
            BY <2>1, <2>4, <2>6 DEF Contents
        <3> DEFINE ranks == {s.rank : s \in owner}
        <3>3. ranks \subseteq Nat /\ ranks # {}
            BY <3>2 DEF SegmentList
        <3>4. PICK b \in Nat : \A r \in ranks : r <= b
            BY DEF RanksBounded
        <3>5. PICK r \in ranks : \A q \in ranks : q <= r
            <4> HIDE DEF ranks
            <4> QED
                BY <3>3, <3>4, GreatestExists
        <3>6. \E s \in owner : \A t \in owner : t.rank <= s.rank
            BY <3>5
        <3>7. last \in owner
            <4> HIDE DEF owner
            <4> QED
                BY <3>6, Zenon
        <3>8. best \cap content[last.id] = {v}
            <4> HIDE DEF last
            <4> QED
                BY <2>4, <3>7
        <3>9. (CHOOSE w \in {v} : TRUE) = v
            OBVIOUS
        <3>10. Scan(M, S, k) = (CHOOSE w \in {v} : TRUE).no
            <4> HIDE DEF last
            <4> QED
                BY <1>3, <1>5, <3>1, <3>8
        <3> QED
            BY <2>1, <3>9, <3>10
    <2> QED
        BY <2>5, <2>6
<1> QED
    BY <1>4, <1>5

---------------------------------------------------------------------------
(* The inductive invariant of the order of versions *)

(* What the segments hold, what the log has or is about to write, both.    *)
Logged == walDisk \cup walBuf
KnownVersions == Logged \cup Stored

(* A version that any later one follows in number and in time.             *)
Numbered ==
    /\ InStep(KnownVersions)
    /\ \A v \in KnownVersions : v.seq < nextSeq /\ v.no <= writes

(* Segments are listed in the order of their ids, which a restart restores *)
(* (rank by file name), and one about to be published has a newer id.      *)
Aged ==
    /\ \A s, t \in segs : s.rank < t.rank <=> s.id < t.id
    /\ flush = "written" => \A s \in segs : s.id < flushId
    /\ comp.step = "merged" => \A s \in segs : s.id < comp.id

(* The memtable, the frozen one and the file under way are the log.        *)
LogHeld ==
    /\ flush = "idle" => mem = Logged
    /\ flush # "idle" => mem = {}
    /\ flush \in {"frozen", "written"} => imm = Logged /\ imm # {}
    /\ flush = "written" => content[flushId] = imm
    /\ flush \in {"installed", "emptied"} => Logged \subseteq Stored

(* The header's next_seq divides what is logged from what is stored; until *)
(* the log is cut the stored part of it is the newest.                     *)
HeadSplits ==
    flush \in {"idle", "frozen", "written"} =>
        /\ walHead <= nextSeq
        /\ \A v \in Logged : walHead <= v.seq
        /\ \A w \in Stored : w.seq < walHead
LogNewer == flush = "installed" => Newer(Logged, Stored)

(* A selection that read order does not have to cross: its output, the     *)
(* newest of level out, takes its place.                                   *)
Clean(sel, out) ==
    \A s \in sel, t \in segs \ sel : IF t.level < out THEN Before(t, s) ELSE Before(s, t)
Merging ==
    comp.step \in {"selected", "merged"} =>
        /\ AtIndexes(comp.sel, segs) # {}
        /\ Clean(AtIndexes(comp.sel, segs), comp.out)
        /\ comp.step = "merged" => content[comp.id] \subseteq Contents(AtIndexes(comp.sel, segs))

(* The steps that keep the order of versions, whatever the settings: heat, *)
(* the size cap, resting segments, the background worker.  No flush runs   *)
(* beside a compaction, no call flushes an empty memtable, no error ends a *)
(* flush, no crash comes between the manifest and the end of the cut, and  *)
(* a selection does not reach across the read order.  Any one of these     *)
(* left out, TLC finds a stale read or a lost write.                       *)
Calm ==
    /\ Apart
    /\ ~FlushFails
    /\ SwitchAndFlush => mem # {}
    /\ Crash => flush \in {"idle", "frozen", "written"}
    /\ CompactSelect => Clean(AtIndexes(comp'.sel, segs), comp'.out)

(* latest is the newest version there is; a restart would find one at      *)
(* least as new as the newest acknowledged.                                *)
LatestKnown == \A k \in Key : latest[k] = Value(KnownVersions, k)
Recovers(k) == Value(IF Of(walDisk, k) # {} THEN walDisk ELSE Stored, k)
AckedKept == \A k \in Key : acked[k] <= Recovers(k)

(* The manifest has the list as it is.                                     *)
Persisted == manifest = Listed(segs)

Ordered ==
    /\ Numbered /\ Aged /\ ByAge(segs) /\ Persisted
    /\ LogHeld /\ HeadSplits /\ LogNewer /\ Merging
    /\ LatestKnown /\ AckedKept

(* What is logged and stored are versions.                                 *)
LEMMA VersionsTyped ==
    ASSUME Inv
    PROVE  /\ content \in [SegId -> SUBSET Version] /\ segs \in SegmentList /\ RanksBounded(segs)
           /\ Stored \in SUBSET Version /\ Logged \in SUBSET Version
           /\ KnownVersions \in SUBSET Version
           /\ walDisk \in SUBSET Version /\ mem \in SUBSET Version /\ imm \in SUBSET Version
<1>1. content \in [SegId -> SUBSET Version] /\ segs \in SegmentList /\ RanksBounded(segs)
    BY DEF Inv, TypeOK, SegmentsKnown, SegmentList
<1>2. Stored \in SUBSET Version
    BY <1>1 DEF Stored, Contents, SegmentList
<1> QED
    BY <1>1, <1>2 DEF Inv, TypeOK, Logged, KnownVersions

(* Steps that leave the list and its files alone keep what they hold.      *)
LEMMA SegmentsKept ==
    ASSUME segs' = segs, \A s \in segs : content'[s.id] = content[s.id]
    PROVE  Stored' = Stored /\ (ByAge(segs) => ByAge(segs)')
<1>1. Stored' = Stored
    BY DEF Stored, Contents
<1>2. ASSUME ByAge(segs) PROVE ByAge(segs)'
    BY <1>2 DEF ByAge, Before
<1> QED
    BY <1>1, <1>2

(* Until the log is cut, what it holds is newer than what is stored.       *)
LEMMA LogIsNewer ==
    ASSUME Inv, Ordered, flush # "emptied"
    PROVE  Newer(Logged, Stored)
<1>1. CASE flush = "installed"
    BY <1>1 DEF Ordered, LogNewer
<1>2. CASE flush # "installed"
    <2>1. flush \in {"idle", "frozen", "written"}
        BY <1>2 DEF Inv, TypeOK, FlushStep
    <2>2. walHead \in Nat /\ \A v \in Logged \cup Stored : v.seq \in Nat
        BY VersionsTyped, BoundAssumption DEF Inv, TypeOK, Version
    <2>3. \A v \in Logged, w \in Stored : w.seq < v.seq
        BY <2>1, <2>2 DEF Ordered, HeadSplits
    <2> QED
        BY <2>3 DEF Newer
<1> QED
    BY <1>1, <1>2

(* A restart loads the segments in the order they had.                     *)
LEMMA LoadedIs ==
    ASSUME Inv, Aged, ByAge(segs), Persisted
    PROVE  /\ Loaded(manifest, onDisk) \in SegmentList
           /\ RanksBounded(Loaded(manifest, onDisk))
           /\ Contents(Loaded(manifest, onDisk)) = Stored
           /\ ByAge(Loaded(manifest, onDisk))
           /\ \A s, t \in Loaded(manifest, onDisk) : s.rank < t.rank <=> s.id < t.id
<1> DEFINE L == Loaded(manifest, onDisk)
<1>1. /\ manifest \subseteq [id : SegId, level : Level]
      /\ \A m, n \in manifest : m.id = n.id => m = n
      /\ manifest = Listed(segs) /\ \A s \in segs : s.id \in onDisk
      /\ segs \in SegmentList
    BY DEF Inv, TypeOK, SegmentsKnown, Persisted, Listed, SegmentList
<1>2. L \in SegmentList /\ RanksBounded(L)
    BY <1>1, LoadedType, Zenon DEF SegmentList
<1>3. ASSUME NEW s \in L PROVE \E o \in segs : o.id = s.id /\ o.level = s.level /\ s.rank = s.id
    <2>1. PICK m \in manifest : s = [id |-> m.id, level |-> m.level, rank |-> m.id]
        BY DEF Loaded
    <2>2. PICK o \in segs : m = [id |-> o.id, level |-> o.level]
        BY <1>1 DEF Listed
    <2> QED
        BY <2>1, <2>2
<1>4. ASSUME NEW o \in segs PROVE \E s \in L : o.id = s.id
    <2>1. [id |-> o.id, level |-> o.level] \in {e \in manifest : e.id \in onDisk}
        BY <1>1 DEF Listed
    <2>2. [id |-> o.id, level |-> o.level, rank |-> o.id] \in L
        BY <2>1 DEF Loaded
    <2> QED
        BY <2>2
<1> HIDE DEF L
<1>5. Contents(L) = Stored
    BY <1>3, <1>4 DEF Contents, Stored
<1>6. \A s, t \in L : s.id = t.id => s = t
    <2>1. \A s \in L : s = [id |-> s.id, level |-> s.level, rank |-> s.rank]
        BY <1>2 DEF SegmentList
    <2>2. \A o, p \in segs : o.id = p.id => o = p
        BY DEF Inv, SegmentsKnown
    <2> QED
        BY <1>3, <2>1, <2>2
<1>7. ASSUME NEW s \in L, NEW t \in L, Before(s, t),
             NEW v \in content[s.id], NEW w \in content[t.id], v.key = w.key
      PROVE  w.seq < v.seq
    <2>1. PICK o \in segs : o.id = s.id /\ o.level = s.level /\ s.rank = s.id
        BY <1>3
    <2>2. PICK p \in segs : p.id = t.id /\ p.level = t.level /\ t.rank = t.id
        BY <1>3
    <2>3. t.id < s.id => p.rank < o.rank
        BY <2>1, <2>2 DEF Aged
    <2>4. s.id \in Nat /\ t.id \in Nat /\ o.rank \in Nat /\ p.rank \in Nat
        BY <1>1, <2>1, <2>2, BoundAssumption DEF SegmentList, SegId
    <2>5. Before(o, p)
        BY <1>7, <2>1, <2>2, <2>3, <2>4 DEF Before
    <2> QED
        BY <1>7, <2>1, <2>2, <2>5 DEF ByAge
<1>8. ByAge(L)
    <2>1. \A s \in L : content[s.id] # {}
        BY <1>3 DEF ByAge
    <2>2. \A s, t \in L : s.rank = t.rank => s = t
        BY <1>3, <1>6
    <2> QED
        BY <1>7, <2>1, <2>2 DEF ByAge
<1>9. \A s, t \in L : s.rank < t.rank <=> s.id < t.id
    BY <1>3
<1> QED
    BY <1>2, <1>5, <1>8, <1>9 DEF L

(* What a restart would serve: the log's newest version of a key, or the   *)
(* newest of the segments.                                                 *)
LEMMA RecoveredIs ==
    ASSUME Inv, Ordered, NEW k \in Key
    PROVE  RecoveredRead(k) = Recovers(k)
<1>1. InStep(Stored)
    BY DEF Ordered, Numbered, InStep, KnownVersions
<1>2. /\ Loaded(manifest, onDisk) \in SegmentList /\ RanksBounded(Loaded(manifest, onDisk))
      /\ Contents(Loaded(manifest, onDisk)) = Stored /\ ByAge(Loaded(manifest, onDisk))
    BY LoadedIs DEF Ordered
<1>3. content \in [SegId -> SUBSET Version] /\ walDisk \in SUBSET Version
    BY VersionsTyped
<1>4. Read(walDisk, Loaded(manifest, onDisk), k)
        = Value(IF Of(walDisk, k) # {} THEN walDisk ELSE Stored, k)
    BY <1>1, <1>2, <1>3, ReadIsNewest
<1> QED
    BY <1>4 DEF RecoveredRead, Recovers

(* What is visible is the newest version there is, at every step of a      *)
(* flush.                                                                  *)
LEMMA VisibleIs ==
    ASSUME Inv, Ordered, NEW k \in Key
    PROVE  Visible[k] = latest[k]
<1> DEFINE M == IF flush \in {"frozen", "written"} THEN mem \cup imm ELSE mem
<1>1. /\ content \in [SegId -> SUBSET Version] /\ segs \in SegmentList /\ RanksBounded(segs)
      /\ Stored \in SUBSET Version /\ Logged \in SUBSET Version /\ M \in SUBSET Version
    BY VersionsTyped
<1>2. InStep(KnownVersions) /\ InStep(Stored) /\ ByAge(segs)
    BY DEF Ordered, Numbered, InStep, KnownVersions
<1>3. latest[k] = Value(KnownVersions, k)
    BY DEF Ordered, LatestKnown
<1>4. Visible[k] = Read(M, segs, k)
    BY DEF Visible
<1>5. Read(M, segs, k) = Value(IF Of(M, k) # {} THEN M ELSE Stored, k)
    <2> HIDE DEF M
    <2> QED
        BY <1>1, <1>2, ReadIsNewest DEF Stored
<1>6. CASE flush \in {"idle", "frozen", "written"}
    <2>1. M = Logged
        BY <1>6 DEF Ordered, LogHeld
    <2>2. Newer(Logged, Stored)
        BY <1>6, LogIsNewer
    <2>3. Value(IF Of(Logged, k) # {} THEN Logged ELSE Stored, k) = Value(Logged \cup Stored, k)
        BY <1>1, <1>2, <2>2, NewerDecides DEF KnownVersions
    <2> HIDE DEF M
    <2> QED
        BY <1>3, <1>4, <1>5, <2>1, <2>3 DEF KnownVersions
<1>7. CASE flush \in {"installed", "emptied"}
    <2>1. M = {} /\ Logged \subseteq Stored
        BY <1>7 DEF Ordered, LogHeld
    <2>2. KnownVersions = Stored /\ Of(M, k) = {}
        BY <2>1 DEF KnownVersions, Of
    <2> HIDE DEF M
    <2> QED
        BY <1>3, <1>4, <1>5, <2>2
<1> QED
    BY <1>6, <1>7 DEF Inv, TypeOK, FlushStep

(* The order of versions holds at the start.                               *)
LEMMA InitOrdered == Init => Ordered
<1> SUFFICES ASSUME Init PROVE Ordered
    OBVIOUS
<1>1. segs = {} /\ walDisk = {} /\ walBuf = {} /\ mem = {} /\ flush = "idle"
      /\ comp.step = "idle" /\ walHead = 1 /\ nextSeq = 1
      /\ latest = [k \in Key |-> 0] /\ acked = [k \in Key |-> 0]
      /\ manifest = {}
    BY DEF Init, NoComp
<1>2. Stored = {} /\ Logged = {} /\ KnownVersions = {}
    BY <1>1 DEF Stored, Logged, KnownVersions, Contents
<1>3. Numbered /\ Aged /\ ByAge(segs) /\ Persisted
    BY <1>1, <1>2 DEF Numbered, InStep, Aged, ByAge, Persisted, Listed
<1>4. LogHeld /\ HeadSplits /\ LogNewer /\ Merging
    BY <1>1, <1>2 DEF LogHeld, HeadSplits, LogNewer, Merging, Newer
<1>5. LatestKnown /\ AckedKept
    <2>1. \A k \in Key : Value({}, k) = 0
        BY DEF Value, Of
    <2> QED
        BY <1>1, <1>2, <2>1 DEF LatestKnown, AckedKept, Recovers
<1> QED
    BY <1>3, <1>4, <1>5 DEF Ordered

(* A new version is the newest of its key, and changes no other key.       *)
LEMMA VersionAdded ==
    ASSUME Inv, Ordered, NEW k \in Key, NEW op \in {"put", "delete"}, writes < MaxWrites,
           KnownVersions' = KnownVersions \cup {NewVersion(k, op)},
           nextSeq' = nextSeq + 1, writes' = writes + 1,
           latest' = [latest EXCEPT ![k] = writes + 1]
    PROVE  Numbered' /\ LatestKnown'
<1> DEFINE v == NewVersion(k, op)
           S == KnownVersions \cup {v}
<1>1. v \in Version /\ S \in SUBSET Version
    BY NewVersionType, VersionsTyped DEF Inv
<1>2. v.key = k /\ v.seq = nextSeq /\ v.no = writes + 1 /\ nextSeq \in Nat /\ writes \in Nat
    BY DEF NewVersion, Inv, TypeOK
<1>3. \A w \in KnownVersions : w.seq \in Nat /\ w.no \in Nat /\ w.seq < nextSeq /\ w.no <= writes
    BY VersionsTyped DEF Ordered, Numbered, Version
<1> HIDE DEF v
<1>4. InStep(S)
    <2>1. InStep(KnownVersions)
        BY DEF Ordered, Numbered
    <2> QED
        BY <1>2, <1>3, <2>1 DEF InStep
<1>5. Numbered'
    <2>1. \A w \in S : w.seq < nextSeq + 1 /\ w.no <= writes + 1
        BY <1>2, <1>3
    <2>2. KnownVersions' = S
        BY DEF v
    <2>3. InStep(KnownVersions')
        BY <1>4, <2>2
    <2> QED
        BY <2>1, <2>2, <2>3 DEF Numbered, InStep
<1>6. ASSUME NEW j \in Key PROVE latest'[j] = Value(S, j)
    <2>1. CASE j = k
        <3>1. v \in Of(S, k) /\ \A w \in Of(S, k) : w.seq <= v.seq
            BY <1>2, <1>3 DEF Of
        <3>2. Value(S, k) = v.no
            BY <1>1, <1>4, <3>1, NewestIs
        <3> QED
            BY <1>2, <2>1, <3>2 DEF Inv, TypeOK
    <2>2. CASE j # k
        <3>1. Of(S, j) = Of(KnownVersions, j)
            BY <1>2, <2>2 DEF Of
        <3>2. Newest(S, j) = Newest(KnownVersions, j)
            BY <3>1, Zenon DEF Newest
        <3>3. Value(S, j) = Value(KnownVersions, j)
            BY <3>1, <3>2 DEF Value
        <3>4. latest'[j] = latest[j]
            BY <2>2 DEF Inv, TypeOK
        <3> QED
            BY <3>3, <3>4 DEF Ordered, LatestKnown
    <2> QED
        BY <2>1, <2>2
<1>7. LatestKnown'
    <2>1. KnownVersions' = S
        BY DEF v
    <2>2. \A j \in Key : latest'[j] = Value(KnownVersions', j)
        BY <1>6, <2>1
    <2> QED
        BY <2>2 DEF LatestKnown, Value, Of, Newest
<1> QED
    BY <1>5, <1>7

(* put_bytes_nosync and delete_bytes keep the order of versions.           *)
LEMMA WriteKeepsOrder ==
    ASSUME Apart, Inv, Ordered, NEW k \in Key, Put(k) \/ Delete(k)
    PROVE  Ordered'
<1>0. /\ UNCHANGED <<segs, content, manifest, comp, flushId, walHead>>
      /\ flush = "idle" /\ writes < MaxWrites
      /\ nextSeq' = nextSeq + 1 /\ writes' = writes + 1
      /\ latest' = [latest EXCEPT ![k] = writes + 1]
    BY DEF Put, Delete, WriterFree, fileVars, flushVars, Freeze
<1>1. PICK op \in {"put", "delete"} :
        /\ Logged' = Logged \cup {NewVersion(k, op)}
        /\ \/ op = "put" /\ walDisk' = walDisk /\ acked' = acked
           \/ op = "delete" /\ walDisk' = Logged' /\ acked' = latest'
        /\ \/ flush' = "idle" /\ mem' = mem \cup {NewVersion(k, op)}
           \/ flush' = "frozen" /\ mem' = {} /\ imm' = mem \cup {NewVersion(k, op)}
    <2>1. CASE Put(k)
        <3>1. /\ Logged' = Logged \cup {NewVersion(k, "put")}
              /\ walDisk' = walDisk /\ acked' = acked
            BY <2>1 DEF Put, Logged
        <3>2. \/ flush' = "idle" /\ mem' = mem \cup {NewVersion(k, "put")}
              \/ flush' = "frozen" /\ mem' = {} /\ imm' = mem \cup {NewVersion(k, "put")}
            BY <1>0, <2>1 DEF Put, Freeze, flushVars
        <3> QED
            BY <3>1, <3>2
    <2>2. CASE Delete(k)
        <3>1. /\ Logged' = Logged \cup {NewVersion(k, "delete")}
              /\ walDisk' = Logged' /\ acked' = latest'
            BY <2>2 DEF Delete, Logged
        <3>2. flush' = "idle" /\ mem' = mem \cup {NewVersion(k, "delete")}
            BY <1>0, <2>2 DEF Delete, flushVars
        <3> QED
            BY <3>1, <3>2
    <2> QED
        BY <2>1, <2>2
<1> DEFINE v == NewVersion(k, op)
<1>2. v.seq = nextSeq /\ v \in Version /\ nextSeq \in Nat
    <2>1. v \in Version
        BY <1>0, NewVersionType DEF Inv
    <2> QED
        BY <2>1 DEF NewVersion, Inv, TypeOK
<1>3. Stored' = Stored /\ ByAge(segs)'
    BY <1>0, SegmentsKept DEF Ordered
<1>4. KnownVersions' = KnownVersions \cup {v}
    BY <1>1, <1>3 DEF KnownVersions
<1>5. Numbered' /\ LatestKnown'
    BY <1>0, <1>4, VersionAdded
<1> HIDE DEF v
<1>6. Aged' /\ Persisted' /\ Merging'
    <2>1. Aged' /\ Persisted'
        BY <1>0, <1>1 DEF Ordered, Aged, Persisted, Listed
    <2>2. Merging'
        BY <1>0 DEF Ordered, Merging, AtIndexes, IndexOf, Clean, Contents, Before
    <2> QED
        BY <2>1, <2>2
<1>7. LogHeld'
    <2>1. mem = Logged
        BY <1>0 DEF Ordered, LogHeld
    <2> QED
        BY <1>1, <2>1 DEF LogHeld, v
<1>8. HeadSplits'
    <2>1. walHead \in Nat /\ walHead <= nextSeq /\ (\A w \in Logged : walHead <= w.seq)
          /\ \A w \in Stored : w.seq < walHead
        BY <1>0 DEF Ordered, HeadSplits, Inv, TypeOK
    <2>2. walHead <= nextSeq + 1 /\ walHead <= v.seq /\ Logged' = Logged \cup {v}
        BY <1>1, <1>2, <2>1 DEF v
    <2> QED
        BY <1>0, <1>3, <2>1, <2>2 DEF HeadSplits
<1>9. LogNewer'
    BY <1>1 DEF LogNewer
<1>10. AckedKept'
    <2>1. CASE walDisk' = walDisk /\ acked' = acked
        BY <1>3, <2>1 DEF Ordered, AckedKept, Recovers
    <2>2. CASE walDisk' = Logged' /\ acked' = latest'
        <3>1. ASSUME NEW j \in Key PROVE acked'[j] <= Recovers(j)'
            <4>1. Logged' \in SUBSET Version /\ Stored' \in SUBSET Version
                BY <1>1, <1>2, <1>3, VersionsTyped DEF v
            <4>2. InStep(Logged' \cup Stored')
                BY <1>5 DEF Numbered, KnownVersions, InStep
            <4>3. Newer(Logged', Stored')
                <5>1. Newer(Logged, Stored) /\ \A w \in Stored : w.seq < nextSeq
                    BY <1>0, LogIsNewer DEF Ordered, Numbered, KnownVersions
                <5> QED
                    BY <1>1, <1>2, <1>3, <5>1 DEF Newer, v
            <4>4. Value(IF Of(Logged', j) # {} THEN Logged' ELSE Stored', j)
                    = Value(Logged' \cup Stored', j)
                BY <4>1, <4>2, <4>3, NewerDecides
            <4>5. Recovers(j)' = Value(KnownVersions', j)
                BY <2>2, <4>4 DEF Recovers, KnownVersions, Value, Of, Newest
            <4>6. acked'[j] = Value(KnownVersions', j)
                BY <1>5, <2>2 DEF LatestKnown, Value, Of, Newest
            <4>7. Value(KnownVersions', j) \in Nat
                BY <1>4, <1>2, VersionsTyped, ValueType
            <4> QED
                BY <4>5, <4>6, <4>7
        <3> QED
            BY <3>1 DEF AckedKept
    <2> QED
        BY <1>1, <2>1, <2>2
<1> QED
    BY <1>3, <1>5, <1>6, <1>7, <1>8, <1>9, <1>10 DEF Ordered

(* Until the log is cut, a restart that finds all of it finds the newest.  *)
LEMMA AllRecovered ==
    ASSUME Inv, Ordered, flush # "emptied", NEW k \in Key
    PROVE  /\ Value(IF Of(Logged, k) # {} THEN Logged ELSE Stored, k) = latest[k]
           /\ latest[k] \in Nat
<1>1. Newer(Logged, Stored) /\ InStep(Logged \cup Stored)
      /\ Logged \in SUBSET Version /\ Stored \in SUBSET Version
    BY LogIsNewer, VersionsTyped DEF Ordered, Numbered, KnownVersions
<1>2. Value(IF Of(Logged, k) # {} THEN Logged ELSE Stored, k) = Value(Logged \cup Stored, k)
    BY <1>1, NewerDecides
<1>3. latest[k] = Value(Logged \cup Stored, k)
    BY DEF Ordered, LatestKnown, KnownVersions
<1>4. Value(Logged \cup Stored, k) \in Nat
    BY <1>1, ValueType
<1> QED
    BY <1>2, <1>3, <1>4

(* A sync acknowledges the newest, and has it on disk.                     *)
LEMMA SyncKeepsOrder ==
    ASSUME Inv, Ordered, SyncWal \/ SyncNothing
    PROVE  Ordered'
<1>1. /\ UNCHANGED <<segs, content, manifest, comp, mem, flush, imm, flushId, walHead,
                     nextSeq, writes, latest>>
      /\ flush # "emptied" /\ acked' = latest
    BY DEF SyncWal, SyncNothing, walVars, fileVars, flushVars
<1>2. walDisk' = Logged /\ Logged' = Logged
    BY DEF SyncWal, SyncNothing, walVars, Logged
<1>3. Stored' = Stored /\ ByAge(segs)'
    BY <1>1, SegmentsKept DEF Ordered
<1>4. KnownVersions' = KnownVersions
    BY <1>2, <1>3 DEF KnownVersions
<1>5. Numbered' /\ Aged' /\ Persisted'
    BY <1>1, <1>4 DEF Ordered, Numbered, Aged, Persisted, Listed
<1>6. LogHeld' /\ HeadSplits' /\ LogNewer'
    BY <1>1, <1>2, <1>3 DEF Ordered, LogHeld, HeadSplits, LogNewer
<1>7. Merging' /\ LatestKnown'
    <2>1. Merging'
        BY <1>1 DEF Ordered, Merging, AtIndexes, IndexOf, Clean, Contents, Before
    <2>2. LatestKnown'
        BY <1>1, <1>4 DEF Ordered, LatestKnown
    <2> QED
        BY <2>1, <2>2
<1>8. AckedKept'
    <2>1. ASSUME NEW k \in Key PROVE acked'[k] <= Recovers(k)'
        <3>1. Recovers(k)' = Value(IF Of(Logged, k) # {} THEN Logged ELSE Stored, k)
            BY <1>2, <1>3 DEF Recovers
        <3>2. Recovers(k)' = latest[k] /\ latest[k] \in Nat
            BY <1>1, <3>1, AllRecovered
        <3> QED
            BY <1>1, <3>2
    <2> QED
        BY <2>1 DEF AckedKept
<1> QED
    BY <1>3, <1>5, <1>6, <1>7, <1>8 DEF Ordered

(* What is known, its order and its numbers stay when only the memtable    *)
(* and the flush move.                                                     *)
LEMMA SameVersions ==
    ASSUME Ordered, KnownVersions' = KnownVersions,
           UNCHANGED <<nextSeq, writes, latest>>
    PROVE  Numbered' /\ LatestKnown'
BY DEF Ordered, Numbered, LatestKnown

(* Freezing the memtable and writing its file leave the list as it is.     *)
LEMMA FreezeKeepsOrder ==
    ASSUME Calm, Inv, Covers, Ordered, SwitchAndFlush \/ FlushWrite
    PROVE  Ordered'
<1>1. /\ UNCHANGED <<segs, manifest, comp, walDisk, walBuf, walHead, nextSeq, writes, latest,
                     acked>>
      /\ comp.step = "idle"
    <2>1. UNCHANGED <<segs, manifest, comp, walDisk, walBuf, walHead, nextSeq, writes, latest,
                     acked>>
        BY DEF SwitchAndFlush, FlushWrite, walVars, histVars, fileVars
    <2>2. flush' # "idle"
        BY DEF SwitchAndFlush, FlushWrite, Freeze
    <2> QED
        BY <2>1, <2>2 DEF Calm, Apart
<1>2. \A s \in segs : content'[s.id] = content[s.id]
    <2>1. CASE SwitchAndFlush
        BY <2>1 DEF SwitchAndFlush, fileVars
    <2>2. CASE FlushWrite
        <3>1. \A s \in segs : s.id \in SegId /\ s.id # nextId
            BY BoundAssumption DEF Inv, TypeOK, SegmentsKnown, SegId
        <3> QED
            BY <2>2, <3>1 DEF FlushWrite, Inv, TypeOK
    <2> QED
        BY <2>1, <2>2
<1>3. Stored' = Stored /\ ByAge(segs)' /\ Logged' = Logged
    BY <1>1, <1>2, SegmentsKept DEF Ordered, Logged
<1>4. KnownVersions' = KnownVersions
    BY <1>3 DEF KnownVersions
<1>5. Numbered' /\ LatestKnown' /\ Persisted'
    BY <1>1, <1>4, SameVersions DEF Ordered, Persisted, Listed
<1>6. \/ flush = "idle" /\ flush' = "frozen" /\ imm' = mem /\ mem' = {} /\ mem # {}
      \/ /\ flush = "frozen" /\ flush' = "written" /\ flushId' = nextId /\ UNCHANGED <<mem, imm>>
         /\ content'[nextId] = imm
    <2>1. CASE SwitchAndFlush
        BY <2>1 DEF SwitchAndFlush, WriterFree, Freeze, Calm
    <2>2. CASE FlushWrite
        <3>1. nextId \in SegId
            BY <2>2, BoundAssumption DEF FlushWrite, Inv, TypeOK, SegId
        <3> QED
            BY <2>2, <3>1 DEF FlushWrite, Inv, TypeOK
    <2> QED
        BY <2>1, <2>2
<1>7. Aged'
    <2>1. \A s \in segs : s.id < nextId
        BY BoundAssumption DEF Inv, TypeOK, SegmentsKnown, SegId
    <2> QED
        BY <1>1, <1>6, <2>1 DEF Ordered, Aged
<1>8. LogHeld'
    BY <1>3, <1>6 DEF Ordered, LogHeld
<1>9. HeadSplits' /\ LogNewer' /\ Merging'
    BY <1>1, <1>3, <1>6 DEF Ordered, HeadSplits, LogNewer, Merging
<1>10. AckedKept'
    BY <1>1, <1>3 DEF Ordered, AckedKept, Recovers
<1> QED
    BY <1>3, <1>5, <1>7, <1>8, <1>9, <1>10 DEF Ordered

(* The flushed segment is read before all others, and has what the log     *)
(* has, which is newer than anything stored.                               *)
LEMMA InstallKeepsOrder ==
    ASSUME Inv, Covers, Ordered, FlushInstall
    PROVE  Ordered'
<1> DEFINE new == [id |-> flushId, level |-> 0, rank |-> NextRank(segs)]
<1>1. /\ UNCHANGED <<content, comp, walDisk, walBuf, walHead, nextSeq, writes, latest,
                     acked, mem, imm, flushId>>
      /\ flush = "written" /\ flush' = "installed" /\ segs' = segs \cup {new}
      /\ manifest' = Listed(segs')
      /\ comp.step = "idle"
    BY DEF FlushInstall, walVars, histVars, Covers, LogCovered
<1>2. /\ content[flushId] = Logged /\ Logged # {} /\ mem = {}
      /\ \A s \in segs : s.id < flushId
      /\ \A v \in Logged, w \in Stored : w.seq < v.seq
    <2>1. walHead \in Nat /\ \A v \in Logged \cup Stored : v.seq \in Nat
        BY VersionsTyped, BoundAssumption DEF Inv, TypeOK, Version
    <2>2. \A v \in Logged, w \in Stored : w.seq < v.seq
        BY <1>1, <2>1 DEF Ordered, HeadSplits
    <2> QED
        BY <1>1, <2>2 DEF Ordered, LogHeld, Aged
<1>3. \A s \in segs : s.rank \in Nat /\ s.id \in Nat /\ s.level \in Nat
    <2>1. \A i \in SegId : i \in Nat
        BY BoundAssumption DEF SegId
    <2>2. \A l \in Level : l \in Nat
        BY DEF Level
    <2> QED
        BY <2>1, <2>2 DEF Inv, TypeOK
<1>4. NextRank(segs) \in Nat /\ \A s \in segs : s.rank < NextRank(segs)
    BY <1>3, NextRankIsAbove DEF Inv, SegmentsKnown
<1>5. new.id = flushId /\ new.level = 0 /\ new.rank = NextRank(segs) /\ flushId \in Nat
    BY BoundAssumption DEF Inv, TypeOK, SegId
<1> HIDE DEF new
<1>6. Stored' = Stored \cup Logged /\ Logged' = Logged
    <2>1. Logged' = Logged
        BY <1>1 DEF Logged
    <2>2. Stored' = UNION {content[s.id] : s \in segs \cup {new}}
        BY <1>1 DEF Stored, Contents
    <2>3. UNION {content[s.id] : s \in segs \cup {new}} = Stored \cup content[new.id]
        BY DEF Stored, Contents
    <2> QED
        BY <1>2, <1>5, <2>1, <2>2, <2>3
<1>7. KnownVersions' = KnownVersions
    BY <1>6 DEF KnownVersions
<1>8. Numbered' /\ LatestKnown' /\ Persisted'
    BY <1>1, <1>7, SameVersions DEF Persisted, Listed
<1>9. Aged'
    <2>1. \A s, t \in segs \cup {new} : s.rank < t.rank <=> s.id < t.id
        BY <1>2, <1>3, <1>4, <1>5 DEF Ordered, Aged
    <2> QED
        BY <1>1, <2>1 DEF Aged
<1>10. ByAge(segs)'
    <2>1. \A s \in segs \cup {new} : content[s.id] # {}
        BY <1>2, <1>5 DEF Ordered, ByAge
    <2>2. \A s, t \in segs \cup {new} : s.rank = t.rank => s = t
        BY <1>3, <1>4, <1>5 DEF Ordered, ByAge
    <2>3. ASSUME NEW s \in segs \cup {new}, NEW t \in segs \cup {new}, Before(s, t),
                 NEW v \in content[s.id], NEW w \in content[t.id], v.key = w.key
          PROVE  w.seq < v.seq
        <3>1. CASE s \in segs /\ t \in segs
            BY <2>3, <3>1 DEF Ordered, ByAge
        <3>2. CASE s = new /\ t \in segs
            <4>1. v \in Logged /\ w \in Stored
                BY <1>2, <1>5, <3>2 DEF Stored, Contents
            <4> QED
                BY <1>2, <4>1
        <3>3. CASE t = new
            <4>1. s.level \in Nat /\ s.rank \in Nat /\ s.rank <= new.rank
                BY <1>3, <1>4, <1>5
            <4> QED
                BY <1>4, <1>5, <2>3, <3>3, <4>1 DEF Before
        <3> QED
            BY <3>1, <3>2, <3>3
    <2> QED
        BY <1>1, <2>1, <2>2, <2>3 DEF ByAge, Before
<1>11. LogHeld'
    BY <1>1, <1>2, <1>6 DEF LogHeld
<1>12. HeadSplits' /\ Merging'
    BY <1>1 DEF HeadSplits, Merging
<1>13. LogNewer'
    <2>1. Newer(Logged, Stored \cup Logged)
        BY <1>2 DEF Newer
    <2> QED
        BY <1>6, <2>1 DEF LogNewer
<1>14. AckedKept'
    <2>1. ASSUME NEW k \in Key PROVE acked'[k] <= Recovers(k)'
        <3>1. acked'[k] = acked[k] /\ acked[k] <= Recovers(k)
            BY <1>1 DEF Ordered, AckedKept
        <3>2. CASE Of(walDisk, k) # {}
            <4>1. Recovers(k)' = Recovers(k)
                BY <1>1, <3>2 DEF Recovers
            <4> QED
                BY <3>1, <4>1
        <3>3. CASE Of(walDisk, k) = {}
            <4>1. Recovers(k) = Value(Stored, k) /\ Recovers(k)' = Value(Stored \cup Logged, k)
                BY <1>1, <1>6, <3>3 DEF Recovers
            <4>2. /\ Stored \cup Logged \in SUBSET Version /\ InStep(Stored \cup Logged)
                  /\ Stored \in SUBSET Version
                BY VersionsTyped DEF Ordered, Numbered, KnownVersions, InStep
            <4>3. Value(Stored, k) <= Value(Stored \cup Logged, k)
                BY <4>2, ValueGrows
            <4>4. Value(Stored, k) \in Nat /\ Value(Stored \cup Logged, k) \in Nat
                BY <4>2, ValueType
            <4>5. acked[k] \in Nat
                BY DEF Inv, TypeOK
            <4> QED
                BY <3>1, <4>1, <4>3, <4>4, <4>5
        <3> QED
            BY <3>2, <3>3
    <2> QED
        BY <2>1 DEF AckedKept
<1> QED
    BY <1>8, <1>9, <1>10, <1>11, <1>12, <1>13, <1>14 DEF Ordered

(* The log is cut once all it held is stored.                              *)
LEMMA CutKeepsOrder ==
    ASSUME Inv, Covers, Ordered, TruncateWal \/ WriteWalHeader
    PROVE  Ordered'
<1>1. /\ UNCHANGED <<segs, content, manifest, comp, mem, nextSeq, writes, latest, acked>>
      /\ flush \in {"installed", "emptied"} /\ comp.step = "idle"
      /\ flush' \in {"idle", "emptied"} /\ walDisk' = {} /\ Logged' \subseteq Logged
      /\ flush' = "idle" => Logged' = {} /\ walHead' = nextSeq
    <2>1. CASE TruncateWal
        BY <2>1 DEF TruncateWal, fileVars, histVars, Logged, Covers, LogCovered
    <2>2. CASE WriteWalHeader
        BY <2>2 DEF WriteWalHeader, fileVars, histVars, Logged, Covers, LogCovered
    <2> QED
        BY <2>1, <2>2
<1>2. Stored' = Stored /\ ByAge(segs)'
    BY <1>1, SegmentsKept DEF Ordered
<1>3. Logged \subseteq Stored /\ mem = {}
    BY <1>1 DEF Ordered, LogHeld
<1>4. KnownVersions' = KnownVersions /\ KnownVersions = Stored
    BY <1>1, <1>2, <1>3 DEF KnownVersions
<1>5. Numbered' /\ LatestKnown' /\ Persisted'
    BY <1>1, <1>4, SameVersions DEF Ordered, Persisted, Listed
<1>6. Aged' /\ Merging' /\ LogNewer'
    BY <1>1 DEF Ordered, Aged, Merging, LogNewer
<1>7. LogHeld'
    BY <1>1, <1>2, <1>3 DEF LogHeld
<1>8. HeadSplits'
    <2>1. nextSeq \in Nat /\ \A v \in Stored : v.seq < nextSeq
        BY <1>4 DEF Ordered, Numbered, Inv, TypeOK
    <2> QED
        BY <1>1, <1>2, <2>1 DEF HeadSplits
<1>9. AckedKept'
    <2>1. ASSUME NEW k \in Key PROVE acked'[k] <= Recovers(k)'
        <3>1. acked'[k] = acked[k] /\ acked[k] <= Recovers(k) /\ acked[k] \in Nat
            BY <1>1 DEF Ordered, AckedKept, Inv, TypeOK
        <3>2. Recovers(k)' = Value(Stored, k)
            BY <1>1, <1>2 DEF Recovers, Of
        <3> DEFINE found == IF Of(walDisk, k) # {} THEN walDisk ELSE Stored
        <3>3. found \in SUBSET Stored /\ Stored \in SUBSET Version /\ InStep(Stored)
              /\ found \in SUBSET Version
            BY <1>3, <1>4, VersionsTyped DEF Ordered, Numbered, Logged
        <3>4. Recovers(k) = Value(found, k)
            BY DEF Recovers
        <3> HIDE DEF found
        <3>5. Value(found, k) <= Value(Stored, k)
              /\ Value(found, k) \in Nat /\ Value(Stored, k) \in Nat
            BY <3>3, ValueGrows, ValueType
        <3> QED
            BY <3>1, <3>2, <3>4, <3>5
    <2> QED
        BY <2>1 DEF AckedKept
<1> QED
    BY <1>2, <1>5, <1>6, <1>7, <1>8, <1>9 DEF Ordered

(* A restart has the versions of the log's file and of the segments: the   *)
(* newest of them are what it serves.                                      *)
LEMMA CrashKeepsOrder ==
    ASSUME Calm, Inv, Ordered, Crash
    PROVE  Ordered'
<1>1. /\ UNCHANGED <<walDisk, walHead, content, onDisk, manifest, writes, acked>>
      /\ mem' = walDisk /\ walBuf' = {} /\ flush' = "idle" /\ comp' = NoComp
      /\ nextSeq' = (IF walDisk = {} THEN walHead ELSE 1 + Max({v.seq : v \in walDisk}))
      /\ segs' = Loaded(manifest, onDisk)
      /\ latest' = [k \in Key |-> RecoveredRead(k)]
    BY DEF Crash
<1>2. flush \in {"idle", "frozen", "written"}
    BY DEF Calm
<1>3. /\ Contents(Loaded(manifest, onDisk)) = Stored /\ ByAge(Loaded(manifest, onDisk))
      /\ \A s, t \in Loaded(manifest, onDisk) : s.rank < t.rank <=> s.id < t.id
    BY LoadedIs DEF Ordered
<1>4. Stored' = Stored /\ Logged' = walDisk
    <2>1. Stored' = Contents(segs')
        BY <1>1 DEF Stored, Contents
    <2> QED
        BY <1>1, <1>3, <2>1 DEF Logged
<1>5. ByAge(segs)'
    BY <1>1, <1>3 DEF ByAge, Before
<1>6. Aged' /\ Persisted' /\ Merging' /\ LogNewer'
    <2>1. Aged' /\ Merging' /\ LogNewer'
        BY <1>1, <1>3 DEF Aged, Merging, LogNewer, NoComp
    <2>2. /\ manifest \subseteq [id : SegId, level : Level]
          /\ \A m, n \in manifest : m.id = n.id => m = n
          /\ \A m \in manifest : m.id \in onDisk
        BY DEF Inv, TypeOK, SegmentsKnown, Listed
    <2>3. Listed(Loaded(manifest, onDisk)) = manifest
        BY <2>2, LoadedType, Zenon
    <2>4. Persisted'
        BY <1>1, <2>3 DEF Persisted, Listed
    <2> QED
        BY <2>1, <2>4
<1>7. /\ KnownVersions' = walDisk \cup Stored /\ KnownVersions' \in SUBSET KnownVersions
      /\ InStep(walDisk \cup Stored) /\ walDisk \in SUBSET Version /\ Stored \in SUBSET Version
    BY <1>4, VersionsTyped DEF KnownVersions, Logged, Ordered, Numbered, InStep
<1>8. Newer(walDisk, Stored)
    <2>1. Newer(Logged, Stored) /\ walDisk \subseteq Logged
        BY <1>2, LogIsNewer DEF Logged
    <2>2. walHead \in Nat /\ (\A v \in Logged : walHead <= v.seq) /\ \A w \in Stored : w.seq < walHead
        BY <1>2 DEF Ordered, HeadSplits, Inv, TypeOK
    <2>3. \A v \in walDisk, w \in Stored : v.seq \in Nat /\ w.seq \in Nat
        BY <1>7 DEF Version
    <2>4. \A v \in walDisk, w \in Stored : w.seq < v.seq
        BY <2>1, <2>2, <2>3
    <2> QED
        BY <2>4 DEF Newer
<1>9. /\ nextSeq' \in Nat /\ walHead \in Nat /\ walHead <= nextSeq'
      /\ \A v \in walDisk : v.seq < nextSeq' /\ walHead <= v.seq
      /\ \A w \in Stored : w.seq < nextSeq' /\ w.seq < walHead
    <2>1. walHead \in Nat /\ (\A v \in walDisk : walHead <= v.seq) /\ \A w \in Stored : w.seq < walHead
        BY <1>2 DEF Ordered, HeadSplits, Inv, TypeOK, Logged
    <2>2. \A w \in walDisk \cup Stored : w.seq \in Nat /\ w.seq <= MaxWrites
        BY <1>7, BoundAssumption DEF Version
    <2>3. CASE walDisk = {}
        BY <1>1, <2>1, <2>3
    <2>4. CASE walDisk # {}
        <3> DEFINE seqs == {v.seq : v \in walDisk}
        <3>1. seqs \subseteq Nat /\ seqs # {} /\ MaxWrites \in Nat /\ \A n \in seqs : n <= MaxWrites
            BY <2>2, <2>4, BoundAssumption
        <3>2. \A v \in walDisk : v.seq \in seqs
            OBVIOUS
        <3>3. nextSeq' = 1 + Max(seqs)
            BY <1>1, <2>4
        <3> DEFINE top == Max(seqs)
        <3> HIDE DEF seqs
        <3>4. top \in seqs /\ \A n \in seqs : n <= top
            BY <3>1, MaxIsGreatest
        <3>5. nextSeq' = 1 + top
            BY <3>3
        <3> HIDE DEF top
        <3>6. top \in Nat /\ \A v \in walDisk : v.seq <= top /\ v.seq < nextSeq'
            BY <2>2, <3>1, <3>2, <3>4, <3>5
        <3>7. walHead <= top
            <4>1. PICK v \in walDisk : TRUE
                BY <2>4
            <4> QED
                BY <2>1, <2>2, <3>6, <4>1
        <3>8. \A w \in Stored : w.seq < nextSeq'
            BY <2>1, <2>2, <3>5, <3>6, <3>7
        <3> QED
            BY <2>1, <3>5, <3>6, <3>7, <3>8
    <2> QED
        BY <2>3, <2>4
<1>10. Numbered'
    <2>1. \A v \in walDisk \cup Stored : v.no <= writes
        BY DEF Ordered, Numbered, KnownVersions, Logged
    <2>2. \A v \in walDisk \cup Stored : v.seq < nextSeq' /\ v.no <= writes
        BY <1>9, <2>1
    <2> QED
        BY <1>1, <1>7, <2>2 DEF Numbered, InStep
<1>11. LogHeld' /\ HeadSplits'
    BY <1>1, <1>4, <1>9 DEF LogHeld, HeadSplits
<1>12. ASSUME NEW k \in Key
       PROVE  latest'[k] = Recovers(k) /\ latest'[k] = Value(walDisk \cup Stored, k)
    <2>1. latest'[k] = Recovers(k)
        BY <1>1, RecoveredIs
    <2>2. Value(IF Of(walDisk, k) # {} THEN walDisk ELSE Stored, k) = Value(walDisk \cup Stored, k)
        BY <1>7, <1>8, NewerDecides
    <2> QED
        BY <2>1, <2>2 DEF Recovers
<1>13. LatestKnown'
    BY <1>7, <1>12 DEF LatestKnown, Value, Of, Newest
<1>14. AckedKept'
    BY <1>1, <1>4 DEF Ordered, AckedKept, Recovers
<1> QED
    BY <1>5, <1>6, <1>10, <1>11, <1>13, <1>14 DEF Ordered

(* A selection is of some published segments.                              *)
LEMMA SelectionKnown ==
    ASSUME NEW limit \in Limits, NEW c \in Selections(limit)
    PROVE  c.sel \subseteq segs /\ c.sel # {}
<1>0. limit \in Nat /\ limit >= 2
    BY LimitsAssumption
<1>1. ASSUME NEW C, NEW d \in SelectInner(limit, C) PROVE d.sel \subseteq segs /\ d.sel # {}
    <2> DEFINE l0 == Layer(0, C)
               l1 == Layer(1, C)
               l2 == Layer(2, C)
    <2>1. l0 \subseteq segs /\ l1 \subseteq segs /\ l2 \subseteq segs
        BY DEF Layer
    <2>2. \/ l0 # {} /\ d.sel \in kSubset(limit, l0)
          \/ l0 # {} /\ d.sel \in {l0, l0 \cup l1}
          \/ Cardinality(l1) > 1 /\ d.sel = l1
          \/ Cardinality(l2) > 1 /\ d.sel = l2
        BY <1>1 DEF SelectInner
    <2> HIDE DEF l0, l1, l2
    <2>3. \A x \in kSubset(limit, l0) : x \subseteq l0 /\ Cardinality(x) = limit
        BY DEF kSubset
    <2>4. \A x : Cardinality(x) = limit \/ Cardinality(x) > 1 => x # {}
        <3>1. Cardinality({}) = 0
            BY FS_EmptySet
        <3> QED
            BY <1>0, <3>1
    <2>5. CASE l0 # {} /\ d.sel \in kSubset(limit, l0)
        BY <2>1, <2>3, <2>4, <2>5, Zenon
    <2>6. CASE l0 # {} /\ d.sel \in {l0, l0 \cup l1}
        BY <2>1, <2>6
    <2>7. CASE Cardinality(l1) > 1 /\ d.sel = l1
        BY <2>1, <2>4, <2>7, Zenon
    <2>8. CASE Cardinality(l2) > 1 /\ d.sel = l2
        BY <2>1, <2>4, <2>8, Zenon
    <2> QED
        BY <2>2, <2>5, <2>6, <2>7, <2>8
<1>2. ASSUME NEW C, NEW d \in SelectInner(limit, C), NEW e \in CapBySize(d)
      PROVE  e.sel \subseteq segs /\ e.sel # {}
    <2>1. CASE e = d
        BY <1>1, <2>1
    <2>2. CASE e # d
        <3>1. e \in {[sel |-> x, out |-> 1, hot |-> d.hot] :
                        x \in {p \in SUBSET d.sel :
                                /\ Cardinality(p) >= 2
                                /\ d.hot \/ \A s \in p, t \in d.sel \ p : Before(s, t)}}
            BY <2>2, Zenon DEF CapBySize
        <3>2. PICK p \in SUBSET d.sel : Cardinality(p) >= 2 /\ e.sel = p
            BY <3>1
        <3>3. p # {}
            <4>1. Cardinality({}) = 0
                BY FS_EmptySet
            <4> QED
                BY <3>2, <4>1
        <3> QED
            BY <1>1, <3>2, <3>3
    <2> QED
        BY <2>1, <2>2
<1> QED
    BY <1>1, <1>2 DEF Selections

(* Selecting leaves all but the compaction as it is.                       *)
LEMMA SelectKeepsOrder ==
    ASSUME Calm, Inv, Ordered, CompactSelect
    PROVE  Ordered'
<1>1. UNCHANGED <<segs, content, manifest, walDisk, walBuf, walHead, nextSeq, mem, flush, imm,
                  flushId, writes, latest, acked>>
    BY DEF CompactSelect, walVars, flushVars, fileVars, histVars
<1>2. Stored' = Stored /\ ByAge(segs)' /\ Logged' = Logged
    BY <1>1, SegmentsKept DEF Ordered, Logged
<1>3. KnownVersions' = KnownVersions
    BY <1>2 DEF KnownVersions
<1>4. Numbered' /\ LatestKnown' /\ Persisted'
    BY <1>1, <1>3, SameVersions DEF Ordered, Persisted, Listed
<1>5. PICK limit \in Limits : \E c \in Selections(limit) :
        comp' = [NoComp EXCEPT !.step = "selected",
                               !.sel = {IndexOf(s, segs) : s \in c.sel},
                               !.out = c.out]
    BY DEF CompactSelect
<1>6. PICK c \in Selections(limit) :
        comp' = [NoComp EXCEPT !.step = "selected",
                               !.sel = {IndexOf(s, segs) : s \in c.sel},
                               !.out = c.out]
    BY <1>5
<1>7. comp'.step = "selected" /\ comp'.sel = {IndexOf(s, segs) : s \in c.sel} /\ comp'.out = c.out
    BY <1>6 DEF NoComp
<1>8. c.sel \subseteq segs /\ c.sel # {}
    BY SelectionKnown
<1>9. AtIndexes(comp'.sel, segs) # {} /\ Clean(AtIndexes(comp'.sel, segs), comp'.out)
    BY <1>7, <1>8 DEF AtIndexes, Calm
<1>10. Merging'
    BY <1>1, <1>7, <1>9 DEF Merging, Clean, Before, AtIndexes, IndexOf
<1>11. Aged' /\ LogHeld' /\ HeadSplits' /\ LogNewer'
    BY <1>1, <1>2, <1>7 DEF Ordered, Aged, LogHeld, HeadSplits, LogNewer
<1>12. AckedKept'
    BY <1>1, <1>2 DEF Ordered, AckedKept, Recovers
<1> QED
    BY <1>2, <1>4, <1>10, <1>11, <1>12 DEF Ordered

(* Writing the output leaves the list as it is, and invents no version.    *)
LEMMA MergeKeepsOrder ==
    ASSUME Inv, Covers, Ordered, CompactMerge
    PROVE  Ordered'
<1> DEFINE X == AtIndexes(comp.sel, segs)
<1>1. /\ UNCHANGED <<segs, manifest, walDisk, walBuf, walHead, nextSeq, mem, flush, imm,
                     flushId, writes, latest, acked>>
      /\ comp.step = "selected" /\ comp'.step = "merged" /\ comp'.id = nextId
      /\ comp'.sel = comp.sel /\ comp'.out = comp.out
      /\ content' = [content EXCEPT ![nextId] = Output(X)] /\ nextId \in SegId
    BY BoundAssumption DEF CompactMerge, walVars, flushVars, histVars, Inv, TypeOK, SegId
<1>2. flush = "idle"
    BY <1>1 DEF Covers, LogCovered
<1>3. \A s \in segs : s.id \in SegId /\ s.id < nextId /\ s.id # nextId
    BY BoundAssumption DEF Inv, TypeOK, SegmentsKnown, SegId
<1>4. \A s \in segs : content'[s.id] = content[s.id]
    BY <1>1, <1>3 DEF Inv, TypeOK
<1>5. Stored' = Stored /\ ByAge(segs)' /\ Logged' = Logged
    BY <1>1, <1>4, SegmentsKept DEF Ordered, Logged
<1>6. KnownVersions' = KnownVersions
    BY <1>5 DEF KnownVersions
<1>7. Numbered' /\ LatestKnown' /\ Persisted'
    BY <1>1, <1>6, SameVersions DEF Ordered, Persisted, Listed
<1>8. Aged' /\ LogHeld' /\ HeadSplits' /\ LogNewer'
    BY <1>1, <1>2, <1>3, <1>5 DEF Ordered, Aged, LogHeld, HeadSplits, LogNewer
<1>9. X \subseteq segs /\ X # {} /\ Clean(X, comp.out)
    BY <1>1 DEF AtIndexes, Ordered, Merging
<1>10. content'[nextId] \subseteq UNION {content'[s.id] : s \in X}
    <2>1. content'[nextId] = Output(X)
        BY <1>1 DEF Inv, TypeOK
    <2>2. Output(X) \subseteq UNION {content[s.id] : s \in X}
        BY OutputFromInputs
    <2>3. UNION {content[s.id] : s \in X} = UNION {content'[s.id] : s \in X}
        BY <1>4, <1>9
    <2> QED
        BY <2>1, <2>2, <2>3
<1>11. Merging'
    <2>1. AtIndexes(comp.sel, segs)' = X
        BY <1>1 DEF AtIndexes, IndexOf
    <2>2. content'[comp'.id] \subseteq UNION {content'[s.id] : s \in X}
        BY <1>1, <1>10
    <2>3. Clean(X, comp.out)'
        BY <1>1, <1>9 DEF Clean, Before
    <2> HIDE DEF X
    <2> QED
        BY <1>9, <2>1, <2>2, <2>3, <1>1 DEF Merging, Contents, Clean, Before
<1>12. AckedKept'
    BY <1>1, <1>5 DEF Ordered, AckedKept, Recovers
<1> QED
    BY <1>5, <1>7, <1>8, <1>11, <1>12 DEF Ordered

(* The output takes the place of the merged segments in the read order and *)
(* has the newest version of each of their keys.                           *)
LEMMA PublishKeepsOrder ==
    ASSUME Inv, Covers, Ordered, CompactPublish
    PROVE  Ordered'
<1> DEFINE X    == AtIndexes(comp.sel, segs)
           new  == [id |-> comp.id, level |-> comp.out, rank |-> NextRank(segs)]
           kept == segs \ X
<1>1. /\ UNCHANGED <<content, walDisk, walBuf, walHead, nextSeq, mem, flush, imm,
                     flushId, writes, latest, acked>>
      /\ comp.step = "merged" /\ comp'.step = "published" /\ segs' = kept \cup {new}
      /\ manifest' = Listed(segs')
    BY DEF CompactPublish, walVars, flushVars, histVars, Inv, TypeOK
<1>2. flush = "idle"
    BY <1>1 DEF Covers, LogCovered
<1>3. /\ X \subseteq segs /\ X # {} /\ Clean(X, comp.out)
      /\ content[comp.id] \subseteq Contents(X)
      /\ \A s \in X : \A v \in content[s.id] : Superseded(v, content[comp.id])
    BY <1>1 DEF AtIndexes, Ordered, Merging, Covers, MergeCovers
<1>4. /\ new.id = comp.id /\ new.level = comp.out /\ new.rank = NextRank(segs)
      /\ comp.id \in SegId /\ comp.out \in Nat
      /\ \A s \in segs : s.rank \in Nat /\ s.level \in Nat /\ s.id \in Nat /\ s.id < comp.id
    <2>1. \A i \in SegId : i \in Nat
        BY BoundAssumption DEF SegId
    <2>2. \A l \in Level : l \in Nat
        BY DEF Level
    <2>3. comp.id \in SegId /\ comp.out \in Level
        BY <1>1 DEF Inv, TypeOK, PendingFresh, Fresh
    <2>4. \A s \in segs : s.rank \in Nat /\ s.level \in Level /\ s.id \in SegId
        BY DEF Inv, TypeOK
    <2>5. \A s \in segs : s.id < comp.id
        BY <1>1 DEF Ordered, Aged
    <2> QED
        BY <2>1, <2>2, <2>3, <2>4, <2>5
<1>5. NextRank(segs) \in Nat /\ \A s \in segs : s.rank < NextRank(segs)
    BY <1>4, NextRankIsAbove DEF Inv, SegmentsKnown
<1> HIDE DEF new, X
<1>6. Stored' = Contents(kept) \cup content[comp.id]
    <2>1. Stored' = UNION {content[s.id] : s \in kept \cup {new}}
        BY <1>1 DEF Stored, Contents
    <2>2. UNION {content[s.id] : s \in kept \cup {new}} = Contents(kept) \cup content[new.id]
        BY DEF Contents
    <2> QED
        BY <1>4, <2>1, <2>2
<1>7. Stored = Contents(kept) \cup Contents(X) /\ Logged' = Logged
    BY <1>1, <1>3 DEF Stored, Contents, Logged
<1>8. Stored' \in SUBSET Stored /\ KnownVersions' \in SUBSET KnownVersions
    BY <1>3, <1>6, <1>7 DEF KnownVersions
<1>9. /\ Stored \in SUBSET Version /\ KnownVersions \in SUBSET Version
      /\ InStep(KnownVersions) /\ InStep(Stored)
    BY VersionsTyped DEF Ordered, Numbered, InStep, KnownVersions
<1>10. \A v \in Stored : Superseded(v, Stored')
    <2>1. ASSUME NEW v \in Stored, v \in Stored' PROVE Superseded(v, Stored')
        <3>1. v.seq <= v.seq
            BY <1>9 DEF Version
        <3> QED
            BY <2>1, <3>1 DEF Superseded
    <2>2. ASSUME NEW v \in Contents(X) PROVE Superseded(v, Stored')
        BY <1>3, <1>6 DEF Superseded, Contents
    <2> QED
        BY <1>6, <1>7, <2>1, <2>2
<1>11. \A v \in KnownVersions : Superseded(v, KnownVersions')
    <2>1. ASSUME NEW v \in Logged PROVE Superseded(v, KnownVersions')
        <3>1. v.seq <= v.seq /\ v \in KnownVersions'
            BY <1>7, <1>9 DEF Version, KnownVersions
        <3> QED
            BY <3>1 DEF Superseded
    <2>2. ASSUME NEW v \in Stored PROVE Superseded(v, KnownVersions')
        BY <1>10 DEF Superseded, KnownVersions
    <2> QED
        BY <2>1, <2>2 DEF KnownVersions
<1>12. ASSUME NEW k \in Key
       PROVE  Value(Stored', k) = Value(Stored, k) /\ Value(KnownVersions', k) = Value(KnownVersions, k)
    BY <1>8, <1>9, <1>10, <1>11, SameValue
<1>13. Numbered' /\ Persisted'
    <2>1. InStep(KnownVersions')
        BY <1>8, <1>9 DEF InStep
    <2>2. \A v \in KnownVersions' : v.seq < nextSeq /\ v.no <= writes
        BY <1>8 DEF Ordered, Numbered
    <2> QED
        BY <1>1, <2>1, <2>2 DEF Numbered, Persisted, Listed, InStep
<1>14. LatestKnown'
    <2>1. \A k \in Key : latest'[k] = Value(KnownVersions', k)
        BY <1>1, <1>12 DEF Ordered, LatestKnown
    <2> QED
        BY <2>1 DEF LatestKnown, Value, Of, Newest
<1>15. AckedKept'
    <2>1. ASSUME NEW k \in Key PROVE acked'[k] <= Recovers(k)'
        <3>1. Recovers(k)' = Value(IF Of(walDisk, k) # {} THEN walDisk ELSE Stored', k)
            BY <1>1 DEF Recovers, Value, Of, Newest
        <3>2. Recovers(k)' = Recovers(k)
            BY <1>12, <3>1 DEF Recovers
        <3> QED
            BY <1>1, <3>2 DEF Ordered, AckedKept
    <2> QED
        BY <2>1 DEF AckedKept
<1>16. Aged'
    <2>1. \A s, t \in kept \cup {new} : s.rank < t.rank <=> s.id < t.id
        <3>1. comp.id \in Nat
            BY <1>4, BoundAssumption DEF SegId
        <3> QED
            BY <1>4, <1>5, <3>1 DEF Ordered, Aged
    <2> QED
        BY <1>1, <1>2, <2>1 DEF Aged
<1>17. LogHeld' /\ HeadSplits' /\ LogNewer' /\ Merging'
    <2>1. Logged' = Logged
        BY <1>7
    <2> QED
        BY <1>1, <1>2, <1>8, <2>1 DEF Ordered, LogHeld, HeadSplits, LogNewer, Merging
<1>18. ByAge(segs)'
    <2>1. \A s \in kept \cup {new} : content[s.id] # {}
        <3>1. PICK s \in X : content[s.id] # {}
            BY <1>3 DEF Ordered, ByAge
        <3>2. content[comp.id] # {}
            BY <1>3, <3>1 DEF Superseded
        <3> QED
            BY <1>4, <3>2 DEF Ordered, ByAge
    <2>2. \A s, t \in kept \cup {new} : s.rank = t.rank => s = t
        BY <1>4, <1>5 DEF Ordered, ByAge
    <2>3. ASSUME NEW s \in kept \cup {new}, NEW t \in kept \cup {new}, Before(s, t),
                 NEW v \in content[s.id], NEW w \in content[t.id], v.key = w.key
          PROVE  w.seq < v.seq
        <3>1. CASE s \in segs /\ t \in segs
            BY <2>3, <3>1 DEF Ordered, ByAge
        <3>2. CASE s = new /\ t \in kept
            <4>1. PICK o \in X : v \in content[o.id]
                BY <1>3, <1>4, <3>2 DEF Contents
            <4>2. ~(t.level < comp.out)
                BY <1>4, <1>5, <2>3, <3>2 DEF Before
            <4>3. Before(o, t)
                BY <1>3, <3>2, <4>2 DEF Clean
            <4> QED
                BY <1>3, <2>3, <3>2, <4>1, <4>3 DEF Ordered, ByAge
        <3>3. CASE s \in kept /\ t = new
            <4>1. PICK o \in X : w \in content[o.id]
                BY <1>3, <1>4, <3>3 DEF Contents
            <4>2. s.level < comp.out
                <5>1. ~(s.rank > new.rank)
                    BY <1>4, <1>5, <3>3
                <5> QED
                    BY <1>4, <2>3, <3>3, <5>1 DEF Before
            <4>3. Before(s, o)
                BY <1>3, <3>3, <4>2 DEF Clean
            <4> QED
                BY <1>3, <2>3, <3>3, <4>1, <4>3 DEF Ordered, ByAge
        <3>4. CASE s = new /\ t = new
            BY <1>4, <1>5, <2>3, <3>4 DEF Before
        <3> QED
            BY <3>1, <3>2, <3>3, <3>4
    <2> QED
        BY <1>1, <2>1, <2>2, <2>3 DEF ByAge, Before
<1> QED
    BY <1>13, <1>14, <1>15, <1>16, <1>17, <1>18 DEF Ordered

(* Removing the old files leaves the list and what is in it alone.         *)
LEMMA RemoveKeepsOrder ==
    ASSUME Inv, Ordered, CompactRemove
    PROVE  Ordered'
<1>1. /\ UNCHANGED <<segs, content, manifest, walDisk, walBuf, walHead, nextSeq, mem, flush,
                     imm, flushId, writes, latest, acked>>
      /\ comp'.step = "idle"
    BY DEF CompactRemove, walVars, flushVars, histVars, NoComp
<1>2. Stored' = Stored /\ ByAge(segs)' /\ Logged' = Logged
    BY <1>1, SegmentsKept DEF Ordered, Logged
<1>3. KnownVersions' = KnownVersions
    BY <1>2 DEF KnownVersions
<1>4. Persisted'
    BY <1>1 DEF Ordered, Persisted, Listed
<1>5. Numbered' /\ LatestKnown'
    BY <1>1, <1>3 DEF Ordered, Numbered, LatestKnown
<1>6. Aged' /\ LogHeld' /\ HeadSplits' /\ LogNewer' /\ Merging'
    BY <1>1, <1>2 DEF Ordered, Aged, LogHeld, HeadSplits, LogNewer, Merging
<1>7. AckedKept'
    BY <1>1, <1>2 DEF Ordered, AckedKept, Recovers
<1> QED
    BY <1>2, <1>4, <1>5, <1>6, <1>7 DEF Ordered

(* Every such step keeps the order of versions.                            *)
LEMMA NextKeepsOrder ==
    ASSUME Inv, Covers, Ordered, [Next /\ Calm]_vars
    PROVE  Ordered'
<1>1. CASE Calm /\ \E k \in Key : Put(k) \/ Delete(k)
    BY <1>1, WriteKeepsOrder DEF Calm
<1>2. CASE SyncWal \/ SyncNothing
    BY <1>2, SyncKeepsOrder
<1>3. CASE Calm /\ (SwitchAndFlush \/ FlushWrite)
    BY <1>3, FreezeKeepsOrder
<1>4. CASE FlushInstall
    BY <1>4, InstallKeepsOrder
<1>5. CASE TruncateWal \/ WriteWalHeader
    BY <1>5, CutKeepsOrder
<1>6. CASE Calm /\ CompactSelect
    BY <1>6, SelectKeepsOrder
<1>7. CASE CompactMerge
    BY <1>7, MergeKeepsOrder
<1>8. CASE CompactPublish
    BY <1>8, PublishKeepsOrder
<1>9. CASE CompactRemove
    BY <1>9, RemoveKeepsOrder
<1>10. CASE Calm /\ Crash
    BY <1>10, CrashKeepsOrder
<1>11. CASE UNCHANGED vars
    <2>1. UNCHANGED <<walDisk, walBuf, walHead, nextSeq, mem, flush, imm, flushId, segs,
                      content, manifest, comp, writes, latest, acked>>
        BY <1>11 DEF vars, walVars, flushVars, fileVars, histVars
    <2>2. Stored' = Stored /\ ByAge(segs)' /\ Logged' = Logged
        BY <2>1, SegmentsKept DEF Ordered, Logged
    <2>3. KnownVersions' = KnownVersions
        BY <2>2 DEF KnownVersions
    <2>4. Numbered' /\ Aged' /\ Persisted' /\ LatestKnown'
        BY <2>1, <2>3 DEF Ordered, Numbered, Aged, Persisted, Listed, LatestKnown
    <2>5. LogHeld' /\ HeadSplits' /\ LogNewer'
        BY <2>1, <2>2 DEF Ordered, LogHeld, HeadSplits, LogNewer
    <2>6. Merging'
        BY <2>1 DEF Ordered, Merging, AtIndexes, IndexOf, Clean, Contents, Before
    <2>7. AckedKept'
        BY <2>1, <2>2 DEF Ordered, AckedKept, Recovers
    <2> QED
        BY <2>2, <2>4, <2>5, <2>6, <2>7 DEF Ordered
<1> QED
    BY <1>1, <1>2, <1>3, <1>4, <1>5, <1>6, <1>7, <1>8, <1>9, <1>10, <1>11 DEF Next, Calm

(* The three invariants together.                                          *)
CalmSpec == Init /\ [][Next /\ Calm]_vars
LEMMA OrderedAlways == CalmSpec => [](Inv /\ Covers /\ Ordered)
<1>1. Init => Inv /\ Covers /\ Ordered
    BY InitInv, InitCovers, InitOrdered
<1>2. Inv /\ Covers /\ Ordered /\ [Next /\ Calm]_vars => (Inv /\ Covers /\ Ordered)'
    <2> SUFFICES ASSUME Inv, Covers, Ordered, [Next /\ Calm]_vars
                 PROVE  (Inv /\ Covers /\ Ordered)'
        OBVIOUS
    <2>1. [Next]_vars
        OBVIOUS
    <2>2. Inv'
        BY <2>1, NextKeepsInv
    <2>3. Apart
        <3>1. UNCHANGED vars => (flush' # "idle" => comp'.step = "idle")
            BY DEF Covers, LogCovered, vars, flushVars
        <3> QED
            BY <3>1 DEF Apart, Calm
    <2>4. Covers'
        BY <2>1, <2>3, NextKeepsCovers
    <2>5. Ordered'
        BY NextKeepsOrder
    <2> QED
        BY <2>2, <2>4, <2>5
<1> QED
    BY <1>1, <1>2, PTL DEF CalmSpec

(* After a crash at any moment before the manifest is switched, and any    *)
(* sequence of flushes, merges and earlier restarts, each key is served    *)
(* its last acknowledged write or a newer one (put_bytes, sync_wal and     *)
(* open_inner).                                                            *)
THEOREM AcknowledgedSurvive ==
    CalmSpec => []Durable
<1>1. Inv /\ Ordered => Durable
    <2> SUFFICES ASSUME Inv, Ordered, NEW k \in Key PROVE RecoveredRead(k) >= acked[k]
        BY DEF Durable
    <2>1. acked[k] <= Recovers(k) /\ acked[k] \in Nat
        BY DEF Ordered, AckedKept, Inv, TypeOK
    <2>2. RecoveredRead(k) = Recovers(k)
        BY RecoveredIs
    <2>3. Recovers(k) \in Nat
        BY VersionsTyped, ValueType DEF Recovers
    <2> QED
        BY <2>1, <2>2, <2>3
<1> QED
    BY <1>1, OrderedAlways, PTL

(* A point read returns the newest write of its key: no merge and no       *)
(* restart puts an older version in front of a newer one (get_bytes goes   *)
(* by the position of the segments, not by sequence numbers).              *)
THEOREM ReadsAreNewest ==
    CalmSpec => []ReadsNewest
<1>1. Inv /\ Ordered => ReadsNewest
    <2> SUFFICES ASSUME Inv, Ordered, flush = "idle", NEW k \in Key
                 PROVE  Read(mem, segs, k) = latest[k]
        BY DEF ReadsNewest
    <2>1. Visible[k] = Read(mem, segs, k)
        BY DEF Visible
    <2> QED
        BY <2>1, VisibleIs
<1> QED
    BY <1>1, OrderedAlways, PTL

(* A scan, which goes by sequence numbers, and a point read, which goes by *)
(* position, find the same version of every key (scan_raw_range,           *)
(* get_bytes).                                                             *)
THEOREM ScansAgreeWithReads ==
    CalmSpec => []ScanAgrees
<1>1. Inv /\ Ordered => ScanAgrees
    <2> SUFFICES ASSUME Inv, Ordered, flush = "idle", NEW k \in Key
                 PROVE  Scan(mem, segs, k) = Read(mem, segs, k)
        BY DEF ScanAgrees
    <2>1. Visible[k] = Read(mem, segs, k)
        BY DEF Visible
    <2>2. Visible[k] = latest[k]
        BY VisibleIs
    <2>3. mem \cup Contents(segs) = KnownVersions
        BY DEF Ordered, LogHeld, KnownVersions, Stored
    <2>4. Scan(mem, segs, k) = Value(mem \cup Contents(segs), k)
        BY <2>3, VersionsTyped, ScanIsNewest DEF Ordered, Numbered
    <2>5. latest[k] = Value(KnownVersions, k)
        BY DEF Ordered, LatestKnown
    <2> QED
        BY <2>1, <2>2, <2>3, <2>4, <2>5
<1> QED
    BY <1>1, OrderedAlways, PTL

(* The map a caller sees is the map of newest writes.                      *)
LEMMA VisibleIsLatest == Inv /\ Ordered => Visible = latest
<1> SUFFICES ASSUME Inv, Ordered PROVE Visible = latest
    OBVIOUS
<1>1. \A k \in Key : Visible[k] = latest[k]
    BY VisibleIs
<1>2. Visible = [k \in Key |-> Visible[k]]
    BY DEF Visible
<1>3. latest = [k \in Key |-> latest[k]]
    BY DEF Inv, TypeOK
<1> QED
    BY <1>1, <1>2, <1>3

(* Every step is a write, a sync or a crash of the abstract store, or      *)
(* leaves it alone.                                                        *)
LEMMA StepKeepsPromise ==
    ASSUME Inv, Ordered, Ordered', [Next /\ Calm]_vars,
           Visible = latest, (Visible = latest)'
    PROVE  [Store!Next]_<<Visible, acked>>
<1>1. CASE \E k \in Key : Put(k) \/ Delete(k)
    <2>1. PICK k \in Key : Put(k) \/ Delete(k)
        BY <1>1
    <2>2. /\ latest' = [latest EXCEPT ![k] = writes + 1]
          /\ UNCHANGED acked \/ acked' = latest'
        BY <2>1 DEF Put, Delete
    <2>3. latest[k] <= writes /\ latest[k] \in Nat /\ writes \in Nat
        <3>1. latest[k] = Value(KnownVersions, k) /\ writes \in Nat
            BY DEF Ordered, LatestKnown, Inv, TypeOK
        <3>2. CASE Of(KnownVersions, k) = {}
            BY <3>1, <3>2 DEF Value
        <3>3. CASE Of(KnownVersions, k) # {}
            BY <3>1, <3>3, VersionsTyped, NewestKnown DEF Ordered, Numbered
        <3> QED
            BY <3>2, <3>3
    <2>4. latest'[k] > latest[k] /\ \A j \in Key \ {k} : latest'[j] = latest[j]
        BY <2>2, <2>3 DEF Inv, TypeOK
    <2>5. Store!Write(k)
        BY <2>2, <2>4 DEF Store!Write
    <2> QED
        BY <2>5 DEF Store!Next
<1>2. CASE SyncWal \/ SyncNothing
    <2>1. acked' = latest /\ UNCHANGED latest
        BY <1>2 DEF SyncWal, SyncNothing
    <2>2. CASE acked' # acked
        BY <2>1, <2>2 DEF Store!Next, Store!Sync
    <2>3. CASE acked' = acked
        BY <2>1, <2>3
    <2> QED
        BY <2>2, <2>3
<1>3. CASE Crash
    <2>1. UNCHANGED acked /\ walDisk' = walDisk /\ DOMAIN latest' = Key
        BY <1>3 DEF Crash
    <2>2. ASSUME NEW k \in Key PROVE acked[k] <= latest'[k] /\ latest'[k] <= latest[k]
        <3>1. latest'[k] = Recovers(k)
            BY <1>3, RecoveredIs DEF Crash
        <3> DEFINE found == IF Of(walDisk, k) # {} THEN walDisk ELSE Stored
        <3>2. found \in SUBSET KnownVersions /\ KnownVersions \in SUBSET Version
              /\ InStep(KnownVersions)
            BY VersionsTyped DEF Ordered, Numbered, KnownVersions, Logged
        <3>3. Recovers(k) = Value(found, k)
            BY DEF Recovers
        <3> HIDE DEF found
        <3>4. Value(found, k) <= Value(KnownVersions, k)
            BY <3>2, ValueGrows
        <3>5. acked[k] <= Recovers(k) /\ latest[k] = Value(KnownVersions, k)
            BY DEF Ordered, AckedKept, LatestKnown
        <3> QED
            BY <3>1, <3>3, <3>4, <3>5
    <2>3. CASE latest' # latest
        BY <2>1, <2>2, <2>3 DEF Store!Next, Store!Crash
    <2>4. CASE latest' = latest
        BY <2>1, <2>4
    <2> QED
        BY <2>3, <2>4
<1>4. CASE \/ SwitchAndFlush \/ FlushWrite \/ FlushInstall \/ TruncateWal \/ WriteWalHeader
           \/ CompactSelect \/ CompactMerge \/ CompactPublish \/ CompactRemove \/ UNCHANGED vars
    <2>1. UNCHANGED <<latest, acked>>
        BY <1>4 DEF SwitchAndFlush, FlushWrite, FlushInstall, TruncateWal, WriteWalHeader,
                    CompactSelect, CompactMerge, CompactPublish, CompactRemove, vars, histVars
    <2> QED
        BY <2>1
<1> QED
    BY <1>1, <1>2, <1>3, <1>4 DEF Next, Calm

(* The column family implements DurableStore: seen through point reads it  *)
(* is a map that only writes, syncs and crashes change, whatever flushes   *)
(* and merges run inside the write calls.                                  *)
THEOREM ImplementsDurableStore ==
    CalmSpec => KeepsPromise
<1>1. Init => Store!Init
    <2> SUFFICES ASSUME Init PROVE Store!Init
        OBVIOUS
    <2>1. Visible = latest
        BY InitInv, InitOrdered, VisibleIsLatest
    <2> QED
        BY <2>1 DEF Init, Store!Init
<1>2. (Inv /\ Ordered) /\ (Inv /\ Ordered)' /\ [Next /\ Calm]_vars => [Store!Next]_<<Visible, acked>>
    <2>1. (Inv /\ Ordered => Visible = latest)'
        BY VisibleIsLatest, PTL
    <2> QED
        BY <2>1, VisibleIsLatest, StepKeepsPromise
<1>3. Store!vars = <<Visible, acked>>
    BY DEF Store!vars
<1> QED
    BY <1>1, <1>2, <1>3, OrderedAlways, PTL DEF CalmSpec, KeepsPromise, Store!Spec, Store!vars
=============================================================================
