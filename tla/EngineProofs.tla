---------------------------- MODULE EngineProofs ----------------------------
(***************************************************************************)
(* Theorems about Engine, for any documents and any bounds: what a read    *)
(* finds between calls, and what a crash leaves.                           *)
(***************************************************************************)
EXTENDS Engine, FiniteSetTheorems, TLAPS

-----------------------------------------------------------------------------
(* A column family *)

LEMMA Short ==
    ASSUME NEW S, NEW n \in Nat, NEW t
    PROVE  t \in SeqOf(S, n) <=> t \in Seq(S) /\ Len(t) <= n
<1>1. ASSUME t \in SeqOf(S, n) PROVE t \in Seq(S) /\ Len(t) <= n
    <2>1. PICK m \in 0..n : t \in [1..m -> S]
        BY <1>1 DEF SeqOf
    <2> QED
        BY <2>1
<1>2. ASSUME t \in Seq(S), Len(t) <= n PROVE t \in SeqOf(S, n)
    <2>1. Len(t) \in 0..n /\ t \in [1..Len(t) -> S]
        BY <1>2
    <2> QED
        BY <2>1 DEF SeqOf
<1> QED
    BY <1>1, <1>2

(* A sequence of at most one element. *)
LEMMA AtMostOne ==
    ASSUME NEW S
    PROVE  /\ <<>> \in SeqOf(S, 1)
           /\ \A x \in S : <<x>> \in SeqOf(S, 1)
           /\ \A t \in SeqOf(S, 1) : t = <<>> \/ \E x \in S : t = <<x>>
<1>1. <<>> \in SeqOf(S, 1) /\ \A x \in S : <<x>> \in SeqOf(S, 1)
    <2>1. <<>> \in Seq(S) /\ Len(<<>>) <= 1
        OBVIOUS
    <2>2. \A x \in S : <<x>> \in Seq(S) /\ Len(<<x>>) <= 1
        OBVIOUS
    <2> QED
        BY <2>1, <2>2, Short
<1>2. ASSUME NEW t \in SeqOf(S, 1) PROVE t = <<>> \/ \E x \in S : t = <<x>>
    <2>1. t \in Seq(S) /\ Len(t) <= 1
        BY Short
    <2>2. CASE Len(t) = 0
        BY <2>1, <2>2
    <2>3. CASE Len(t) = 1
        <3>1. t = <<t[1]>> /\ t[1] \in S
            BY <2>1, <2>3
        <3> QED
            BY <3>1
    <2>4. Len(t) \in Nat
        BY <2>1
    <2>5. Len(t) = 0 \/ Len(t) = 1
        <3>1. \A k \in Nat : k <= 1 => k = 0 \/ k = 1
            OBVIOUS
        <3> QED
            BY <2>1, <2>4, <3>1, Zenon
    <2> QED
        BY <2>2, <2>3, <2>5
<1> QED
    BY <1>1, <1>2

(* What a read finds: the memtable, or else the newest segment. *)
LEMMA FindParts ==
    ASSUME NEW s \in StoreSet, NEW d \in Doc
    PROVE  /\ s.mem[d] = <<>> => Find(s, d) = IF s.seg[d] = <<>> THEN 0 ELSE Head(s.seg[d])
           /\ \A v : s.mem[d] = <<v>> => Find(s, d) = v
           /\ Find(s, d) \in Version
<1>1. s.seg[d] \in Seq(Version) /\ s.mem[d] \in SeqOf(Version, 1) /\ 0 \in Version
    BY BoundsAssumption DEF StoreSet, Version
<1>2. CASE s.mem[d] = <<>>
    <2>1. CASE s.seg[d] = <<>>
        BY <1>1, <1>2, <2>1 DEF Find
    <2>2. CASE s.seg[d] # <<>>
        BY <1>1, <1>2, <2>2 DEF Find
    <2> QED
        BY <1>1, <1>2, <2>1, <2>2
<1>3. CASE s.mem[d] # <<>>
    <2>1. PICK v \in Version : s.mem[d] = <<v>>
        BY <1>1, <1>3, AtMostOne
    <2>2. Find(s, d) = v
        BY <1>1, <2>1 DEF Find
    <2> QED
        BY <2>1, <2>2
<1> QED
    BY <1>2, <1>3

(* What a replay leaves of a document. *)
LEMMA NewestTyped ==
    ASSUME NEW l \in Seq(Record), NEW d \in Doc
    PROVE  Newest(l, d) \in SeqOf(Version, 1)
<1> DEFINE last == {i \in DOMAIN l : /\ l[i].doc = d
                                     /\ \A j \in DOMAIN l : l[j].doc = d => j <= i}
<1>1. CASE last = {}
    BY <1>1, AtMostOne DEF Newest
<1>2. CASE last # {}
    <2>1. PICK k : k = CHOOSE i \in last : TRUE
        OBVIOUS
    <2>2. k \in last /\ k \in 1..Len(l)
        BY <1>2, <2>1
    <2>3. l[k] \in Record /\ l[k].version \in Version
        <3>1. l[k] \in Record
            BY <2>2
        <3> QED
            BY <3>1 DEF Record
    <2>4. Newest(l, d) = <<l[k].version>>
        BY <1>2, <2>1 DEF Newest
    <2> QED
        BY <2>3, <2>4, AtMostOne
<1> QED
    BY <1>1, <1>2

(* A record more decides about its document and no other. *)
LEMMA NewestAppended ==
    ASSUME NEW l \in Seq(Record), NEW e \in Doc, NEW v \in Version
    PROVE  LET longer == Append(l, [doc |-> e, version |-> v])
           IN  /\ Newest(longer, e) = <<v>>
               /\ \A d \in Doc \ {e} : Newest(longer, d) = Newest(l, d)
<1> DEFINE longer == Append(l, [doc |-> e, version |-> v])
           n == Len(l)
           last(k, d) == {i \in DOMAIN k : /\ k[i].doc = d
                                           /\ \A j \in DOMAIN k : k[j].doc = d => j <= i}
<1>1. /\ DOMAIN l = 1..n /\ DOMAIN longer = 1..(n + 1) /\ n \in Nat
      /\ longer[n + 1].doc = e /\ longer[n + 1].version = v
      /\ \A i \in 1..n : longer[i] = l[i]
    OBVIOUS
<1> HIDE DEF longer
<1>2. last(longer, e) = {n + 1}
    BY <1>1
<1>3. ASSUME NEW d \in Doc \ {e} PROVE last(longer, d) = last(l, d)
    <2>1. longer[n + 1].doc # d
        BY <1>1
    <2> QED
        BY <1>1, <2>1
<1>4. Newest(longer, e) = <<v>>
    <2>1. (CHOOSE i \in last(longer, e) : TRUE) = n + 1
        BY <1>2
    <2> QED
        BY <1>1, <1>2, <2>1 DEF Newest
<1>5. ASSUME NEW d \in Doc \ {e} PROVE Newest(longer, d) = Newest(l, d)
    <2>1. CASE last(l, d) = {}
        BY <1>3, <2>1 DEF Newest
    <2>2. CASE last(l, d) # {}
        <3>1. PICK k : k = CHOOSE i \in last(l, d) : TRUE
            OBVIOUS
        <3>2. k \in last(l, d) /\ k \in 1..n /\ longer[k] = l[k]
            BY <1>1, <2>2, <3>1
        <3>3. Newest(l, d) = <<l[k].version>>
            BY <2>2, <3>1 DEF Newest
        <3>4. k = CHOOSE i \in last(longer, d) : TRUE
            BY <1>3, <3>1
        <3>5. last(longer, d) # {}
            BY <1>3, <2>2
        <3>6. Newest(longer, d) = <<longer[k].version>>
            BY <3>4, <3>5 DEF Newest
        <3> QED
            BY <3>2, <3>3, <3>6
    <2> QED
        BY <2>1, <2>2
<1> QED
    BY <1>4, <1>5 DEF longer

(* The document finds in memory what it would find after a replay of the   *)
(* whole log.                                                              *)
Remembers(s, d) == s.mem[d] = Newest(s.log, d)

Finds(s) == [d \in Doc |-> Find(s, d)]
After(s, n) == [d \in Doc |-> Find(Replayed(s, n), d)]

(* What a crash may leave of the contents of a family. *)
Comebacks(s) == {After(s, n) : n \in s.synced..Len(s.log)}

GoodStore(s) == s \in StoreSet /\ s.synced <= Len(s.log)

(* The parts of a store whose log has been cut to n records. *)
LEMMA ReplayedParts ==
    ASSUME NEW s \in StoreSet, NEW n \in 0..Len(s.log)
    PROVE  /\ GoodStore(Replayed(s, n))
           /\ Replayed(s, n).log = SubSeq(s.log, 1, n) /\ Len(SubSeq(s.log, 1, n)) = n
           /\ Replayed(s, n).synced = n
           /\ \A d \in Doc : Replayed(s, n).mem[d] = Newest(SubSeq(s.log, 1, n), d)
           /\ Replayed(s, n).seg = s.seg
<1>1. s.log \in Seq(Record) /\ Len(s.log) \in Nat
    BY DEF StoreSet
<1>2. SubSeq(s.log, 1, n) \in Seq(Record) /\ Len(SubSeq(s.log, 1, n)) = n
    BY <1>1
<1>3. [d \in Doc |-> Newest(SubSeq(s.log, 1, n), d)] \in [Doc -> SeqOf(Version, 1)]
    BY <1>2, NewestTyped
<1> DEFINE kept == SubSeq(s.log, 1, n)
           mem == [d \in Doc |-> Newest(kept, d)]
<1>4. Replayed(s, n) = [s EXCEPT !.log = kept, !.synced = n, !.mem = mem]
    BY <1>2 DEF Replayed, Restarted
<1> HIDE DEF kept, mem
<1>5. kept \in Seq(Record) /\ Len(kept) = n /\ mem \in [Doc -> SeqOf(Version, 1)] /\ n \in Nat
    BY <1>2, <1>3 DEF kept, mem
<1>6. Replayed(s, n) = [log |-> kept, synced |-> n, mem |-> mem, seg |-> s.seg]
    BY <1>4 DEF StoreSet
<1>7. s.seg \in [Doc -> Seq(Version)]
    BY DEF StoreSet
<1>8. Replayed(s, n) \in StoreSet
    BY <1>5, <1>6, <1>7 DEF StoreSet
<1> QED
    BY <1>5, <1>6, <1>8 DEF kept, mem, GoodStore

(* What is found goes by what is in memory and in the segments. *)
LEMMA SameFind ==
    ASSUME NEW s, NEW r, NEW d, s.mem[d] = r.mem[d], s.seg[d] = r.seg[d]
    PROVE  Find(s, d) = Find(r, d)
BY DEF Find

LEMMA AfterAll ==
    ASSUME NEW s, GoodStore(s)
    PROVE  /\ After(s, Len(s.log)) \in Comebacks(s)
           /\ \A d \in Doc : Remembers(s, d) => After(s, Len(s.log))[d] = Find(s, d)
           /\ \A b \in Comebacks(s) : b \in [Doc -> Version]
<1> DEFINE n == Len(s.log)
<1>1. s \in StoreSet /\ n \in 0..n /\ n \in s.synced..n /\ s.synced \in Nat
      /\ SubSeq(s.log, 1, n) = s.log
    BY DEF GoodStore, StoreSet
<1>2. ASSUME NEW d \in Doc, Remembers(s, d) PROVE After(s, n)[d] = Find(s, d)
    <2>1. Replayed(s, n).mem[d] = Newest(SubSeq(s.log, 1, n), d) /\ Replayed(s, n).seg = s.seg
        BY <1>1, ReplayedParts
    <2>2. Replayed(s, n).mem[d] = s.mem[d] /\ Replayed(s, n).seg[d] = s.seg[d]
        BY <1>1, <1>2, <2>1 DEF Remembers
    <2> QED
        BY <2>2, SameFind DEF After
<1>3. ASSUME NEW k \in s.synced..n PROVE After(s, k) \in [Doc -> Version]
    <2>1. k \in 0..Len(s.log)
        BY <1>1 DEF GoodStore, StoreSet
    <2>2. Replayed(s, k) \in StoreSet
        BY <1>1, <2>1, ReplayedParts DEF GoodStore
    <2> QED
        BY <2>2, FindParts DEF After
<1> QED
    BY <1>1, <1>2, <1>3 DEF Comebacks

(* A record is appended to the log; in memory it is put or not. *)
LEMMA AppendedComebacks ==
    ASSUME NEW s, GoodStore(s), NEW e \in Doc, NEW v \in Version, NEW r \in StoreSet,
           r.log = Append(s.log, [doc |-> e, version |-> v]), r.synced = s.synced,
           r.seg = s.seg
    PROVE  /\ GoodStore(r)
           /\ \A b \in Comebacks(r) :
                  b \in Comebacks(s) \/ b = [After(s, Len(s.log)) EXCEPT ![e] = v]
           /\ After(r, Len(r.log)) = [After(s, Len(s.log)) EXCEPT ![e] = v]
<1> DEFINE n == Len(s.log)
<1>1. s \in StoreSet /\ s.log \in Seq(Record) /\ n \in Nat /\ s.synced \in Nat /\ s.synced <= n
    BY DEF GoodStore, StoreSet
<1>2. /\ Len(r.log) = n + 1
      /\ \A k \in 0..n : SubSeq(r.log, 1, k) = SubSeq(s.log, 1, k)
      /\ SubSeq(r.log, 1, n + 1) = r.log /\ SubSeq(s.log, 1, n) = s.log
    <2>1. [doc |-> e, version |-> v] \in Record
        BY DEF Record
    <2> QED
        BY <1>1, <2>1
<1>3. ASSUME NEW k \in 0..n PROVE After(r, k) = After(s, k)
    <2>1. k \in 0..Len(r.log)
        BY <1>1, <1>2
    <2>4. /\ \A d \in Doc : Replayed(r, k).mem[d] = Newest(SubSeq(r.log, 1, k), d)
          /\ Replayed(r, k).seg = r.seg
        BY <2>1, ReplayedParts
    <2>5. /\ \A d \in Doc : Replayed(s, k).mem[d] = Newest(SubSeq(s.log, 1, k), d)
          /\ Replayed(s, k).seg = s.seg
        BY <1>1, ReplayedParts
    <2>2. /\ \A d \in Doc : Replayed(r, k).mem[d] = Replayed(s, k).mem[d]
          /\ Replayed(r, k).seg = Replayed(s, k).seg
        BY <1>2, <2>4, <2>5
    <2>3. \A d \in Doc : Find(Replayed(r, k), d) = Find(Replayed(s, k), d)
        BY <2>2, SameFind
    <2> QED
        BY <2>3 DEF After
<1>4. After(r, n + 1) = [After(s, n) EXCEPT ![e] = v]
    <2>1. n + 1 \in 0..Len(r.log) /\ n \in 0..n
        BY <1>1, <1>2
    <2>6. /\ \A d \in Doc : Replayed(r, n + 1).mem[d] = Newest(SubSeq(r.log, 1, n + 1), d)
          /\ Replayed(r, n + 1).seg = r.seg /\ Replayed(r, n + 1) \in StoreSet
        BY <2>1, ReplayedParts DEF GoodStore
    <2>7. /\ \A d \in Doc : Replayed(s, n).mem[d] = Newest(SubSeq(s.log, 1, n), d)
          /\ Replayed(s, n).seg = s.seg
        BY <1>1, <2>1, ReplayedParts
    <2>2. /\ \A d \in Doc : Replayed(r, n + 1).mem[d] = Newest(r.log, d)
          /\ \A d \in Doc : Replayed(s, n).mem[d] = Newest(s.log, d)
          /\ Replayed(r, n + 1).seg = Replayed(s, n).seg
          /\ Replayed(r, n + 1) \in StoreSet
        BY <1>2, <2>6, <2>7
    <2>3. Newest(r.log, e) = <<v>> /\ \A d \in Doc \ {e} : Newest(r.log, d) = Newest(s.log, d)
        BY <1>1, NewestAppended
    <2>4. Find(Replayed(r, n + 1), e) = v
        BY <2>2, <2>3, FindParts
    <2>5. \A d \in Doc \ {e} : Find(Replayed(r, n + 1), d) = Find(Replayed(s, n), d)
        BY <2>2, <2>3, SameFind
    <2> QED
        BY <2>4, <2>5 DEF After
<1>5. GoodStore(r)
    BY <1>1, <1>2 DEF GoodStore
<1>6. ASSUME NEW k \in r.synced..Len(r.log)
      PROVE  After(r, k) \in Comebacks(s) \/ After(r, k) = [After(s, n) EXCEPT ![e] = v]
    <2>1. CASE k = n + 1
        BY <1>4, <2>1
    <2>2. CASE k # n + 1
        <3>1. k \in s.synced..n /\ k \in 0..n
            BY <1>1, <1>2, <2>2
        <3> QED
            BY <1>3, <3>1 DEF Comebacks
    <2> QED
        BY <2>1, <2>2
<1> QED
    BY <1>2, <1>4, <1>5, <1>6 DEF Comebacks

(* put_bytes_nosync without its flush. *)
LEMMA WrittenStore ==
    ASSUME NEW s, GoodStore(s), NEW e \in Doc, NEW v \in Version
    PROVE  LET r == Written(s, e, v)
           IN  /\ GoodStore(r) /\ r.synced = s.synced
               /\ \A d \in Doc : Find(r, d) = IF d = e THEN v ELSE Find(s, d)
               /\ \A d \in Doc : d = e \/ Remembers(s, d) => Remembers(r, d)
               /\ \A b \in Comebacks(r) :
                      b \in Comebacks(s) \/ b = [After(s, Len(s.log)) EXCEPT ![e] = v]
<1> DEFINE r == Written(s, e, v)
           l == Append(s.log, [doc |-> e, version |-> v])
           mem == [s.mem EXCEPT ![e] = <<v>>]
<1>1. s \in StoreSet /\ s.log \in Seq(Record) /\ s.mem \in [Doc -> SeqOf(Version, 1)]
      /\ s.seg \in [Doc -> Seq(Version)] /\ s.synced \in Nat
    BY DEF GoodStore, StoreSet
<1>2. r = [log |-> l, synced |-> s.synced, mem |-> mem, seg |-> s.seg]
    <2>1. Logged(s, e, v) = [s EXCEPT !.log = l]
        BY DEF Logged
    <2> HIDE DEF l
    <2>2. Logged(s, e, v) = [log |-> l, synced |-> s.synced, mem |-> s.mem, seg |-> s.seg]
        BY <1>1, <2>1 DEF StoreSet
    <2> QED
        BY <2>2 DEF Written
<1>3. l \in Seq(Record) /\ mem \in [Doc -> SeqOf(Version, 1)]
    <2>1. [doc |-> e, version |-> v] \in Record
        BY DEF Record
    <2>2. <<v>> \in SeqOf(Version, 1)
        BY AtMostOne
    <2> QED
        BY <1>1, <2>1, <2>2
<1>4. r \in StoreSet /\ r.log = l /\ r.synced = s.synced /\ r.seg = s.seg /\ r.mem = mem
    BY <1>1, <1>2, <1>3 DEF StoreSet
<1>5. mem[e] = <<v>> /\ \A d \in Doc \ {e} : mem[d] = s.mem[d]
    BY <1>1
<1>6. Newest(l, e) = <<v>> /\ \A d \in Doc \ {e} : Newest(l, d) = Newest(s.log, d)
    BY <1>1, NewestAppended
<1> HIDE DEF r, l, mem
<1>7. Find(r, e) = v /\ \A d \in Doc \ {e} : Find(r, d) = Find(s, d)
    BY <1>4, <1>5, FindParts, SameFind
<1>8. \A d \in Doc : d = e \/ Remembers(s, d) => Remembers(r, d)
    BY <1>4, <1>5, <1>6 DEF Remembers
<1>9. /\ GoodStore(r)
      /\ \A b \in Comebacks(r) :
            b \in Comebacks(s) \/ b = [After(s, Len(s.log)) EXCEPT ![e] = v]
    BY <1>4, AppendedComebacks DEF l
<1> QED
    BY <1>4, <1>7, <1>8, <1>9 DEF r

(* delete_record_wal: only the log knows of it. *)
LEMMA LoggedStore ==
    ASSUME NEW s, GoodStore(s), NEW e \in Doc, NEW v \in Version
    PROVE  LET r == Logged(s, e, v)
           IN  /\ GoodStore(r) /\ r.synced = s.synced
               /\ \A d \in Doc : Find(r, d) = Find(s, d)
               /\ \A d \in Doc \ {e} : Remembers(s, d) => Remembers(r, d)
               /\ \A b \in Comebacks(r) :
                      b \in Comebacks(s) \/ b = [After(s, Len(s.log)) EXCEPT ![e] = v]
<1> DEFINE r == Logged(s, e, v)
           l == Append(s.log, [doc |-> e, version |-> v])
<1>1. s \in StoreSet /\ s.log \in Seq(Record) /\ s.mem \in [Doc -> SeqOf(Version, 1)]
      /\ s.seg \in [Doc -> Seq(Version)] /\ s.synced \in Nat
    BY DEF GoodStore, StoreSet
<1>2. r = [log |-> l, synced |-> s.synced, mem |-> s.mem, seg |-> s.seg]
    <2>1. r = [s EXCEPT !.log = l]
        BY DEF Logged
    <2> HIDE DEF l, r
    <2> QED
        BY <1>1, <2>1 DEF StoreSet
<1>3. l \in Seq(Record)
    <2>1. [doc |-> e, version |-> v] \in Record
        BY DEF Record
    <2> QED
        BY <1>1, <2>1
<1>4. r \in StoreSet /\ r.log = l /\ r.synced = s.synced /\ r.seg = s.seg /\ r.mem = s.mem
    BY <1>1, <1>2, <1>3 DEF StoreSet
<1>5. \A d \in Doc \ {e} : Newest(l, d) = Newest(s.log, d)
    BY <1>1, NewestAppended
<1> HIDE DEF r, l
<1>6. \A d \in Doc : Find(r, d) = Find(s, d)
    BY <1>4, SameFind
<1>7. \A d \in Doc \ {e} : Remembers(s, d) => Remembers(r, d)
    BY <1>4, <1>5 DEF Remembers
<1>8. /\ GoodStore(r)
      /\ \A b \in Comebacks(r) :
            b \in Comebacks(s) \/ b = [After(s, Len(s.log)) EXCEPT ![e] = v]
    BY <1>4, AppendedComebacks DEF l
<1> QED
    BY <1>4, <1>6, <1>7, <1>8 DEF r

(* A synced log comes back whole. *)
LEMMA SyncedStore ==
    ASSUME NEW s, GoodStore(s)
    PROVE  LET r == Synced(s)
           IN  /\ GoodStore(r) /\ r.synced = Len(r.log) /\ Len(r.log) = Len(s.log)
               /\ \A d \in Doc : Find(r, d) = Find(s, d)
               /\ \A d \in Doc : Remembers(r, d) <=> Remembers(s, d)
               /\ Comebacks(r) = {After(s, Len(s.log))} /\ Comebacks(r) \subseteq Comebacks(s)
<1> DEFINE r == Synced(s)
           n == Len(s.log)
<1>1. s \in StoreSet /\ n \in Nat
    BY DEF GoodStore, StoreSet
<1>2. r = [s EXCEPT !.synced = n]
    BY DEF Synced
<1>3. /\ r \in StoreSet /\ r.log = s.log /\ r.synced = n /\ r.mem = s.mem /\ r.seg = s.seg
    BY <1>1, <1>2 DEF StoreSet
<1>4. GoodStore(r)
    BY <1>1, <1>3 DEF GoodStore
<1>5. After(r, n) = After(s, n)
    <2>1. n \in 0..Len(s.log) /\ n \in 0..Len(r.log)
        BY <1>1, <1>3
    <2>2. /\ \A d \in Doc : Replayed(r, n).mem[d] = Newest(SubSeq(s.log, 1, n), d)
          /\ Replayed(r, n).seg = s.seg
        BY <1>3, <2>1, ReplayedParts
    <2>3. /\ \A d \in Doc : Replayed(s, n).mem[d] = Newest(SubSeq(s.log, 1, n), d)
          /\ Replayed(s, n).seg = s.seg
        BY <1>1, <2>1, ReplayedParts
    <2>4. \A d \in Doc : Find(Replayed(r, n), d) = Find(Replayed(s, n), d)
        BY <2>2, <2>3, SameFind
    <2> QED
        BY <2>4 DEF After
<1>6. Comebacks(r) = {After(s, n)}
    <2>1. r.synced..Len(r.log) = {n}
        BY <1>1, <1>3
    <2> QED
        BY <1>5, <2>1 DEF Comebacks
<1>7. \A d \in Doc : Find(r, d) = Find(s, d)
    BY <1>3, SameFind
<1>8. \A d \in Doc : Remembers(r, d) <=> Remembers(s, d)
    BY <1>3 DEF Remembers
<1>9. After(s, n) \in Comebacks(s)
    BY AfterAll
<1> QED
    BY <1>3, <1>4, <1>6, <1>7, <1>8, <1>9

(* A store with an empty log, or one that has just been replayed, holds    *)
(* in memory what its log holds and comes back as it is.                   *)
LEMMA WholeStore ==
    ASSUME NEW s, GoodStore(s), s.synced = Len(s.log), \A d \in Doc : Remembers(s, d)
    PROVE  Comebacks(s) = {Finds(s)}
<1>1. s.synced..Len(s.log) = {Len(s.log)}
    BY DEF GoodStore, StoreSet
<1>2. \A d \in Doc : After(s, Len(s.log))[d] = Find(s, d)
    BY AfterAll
<1>3. After(s, Len(s.log)) = Finds(s)
    BY <1>2 DEF After, Finds
<1> QED
    BY <1>1, <1>3 DEF Comebacks

(* switch_and_flush changes nothing of what is found. *)
LEMMA FlushedStore ==
    ASSUME NEW s, GoodStore(s)
    PROVE  LET r == Flushed(s)
           IN  /\ GoodStore(r)
               /\ \A d \in Doc : Find(r, d) = Find(s, d)
               /\ \A d \in Doc : Remembers(r, d)
               /\ Comebacks(r) = {Finds(s)}
<1> DEFINE r == Flushed(s)
           seg == [d \in Doc |-> s.mem[d] \o s.seg[d]]
           mem == [d \in Doc |-> <<>>]
<1>1. s \in StoreSet /\ \A d \in Doc : s.mem[d] \in Seq(Version) /\ s.seg[d] \in Seq(Version)
    <2>1. s \in StoreSet /\ \A d \in Doc : s.mem[d] \in SeqOf(Version, 1) /\ s.seg[d] \in Seq(Version)
        BY DEF GoodStore, StoreSet
    <2> QED
        BY <2>1, Short
<1>2. /\ seg \in [Doc -> Seq(Version)] /\ mem \in [Doc -> SeqOf(Version, 1)]
    <2>1. \A d \in Doc : s.mem[d] \o s.seg[d] \in Seq(Version)
        BY <1>1
    <2>2. <<>> \in SeqOf(Version, 1)
        BY AtMostOne
    <2> QED
        BY <2>1, <2>2
<1>3. r = [s EXCEPT !.log = <<>>, !.synced = 0, !.mem = mem, !.seg = seg]
    BY DEF Flushed
<1>4. seg = [d \in Doc |-> s.mem[d] \o s.seg[d]] /\ mem = [d \in Doc |-> <<>>]
    OBVIOUS
<1> HIDE DEF seg, mem
<1>5. r = [log |-> <<>>, synced |-> 0, mem |-> mem, seg |-> seg]
    BY <1>1, <1>3 DEF StoreSet
<1>6. r \in StoreSet /\ r.log = <<>> /\ r.synced = 0 /\ r.mem = mem /\ r.seg = seg
    BY <1>2, <1>5 DEF StoreSet
<1>7. GoodStore(r) /\ r.synced = Len(r.log)
    BY <1>6 DEF GoodStore
<1>8. ASSUME NEW d \in Doc PROVE Find(r, d) = Find(s, d)
    <2>1. r.mem[d] = <<>> /\ r.seg[d] = s.mem[d] \o s.seg[d]
        BY <1>4, <1>6
    <2>2. <<>> \o (s.mem[d] \o s.seg[d]) = s.mem[d] \o s.seg[d]
        BY <1>1
    <2> QED
        BY <2>1, <2>2 DEF Find
<1>9. \A d \in Doc : Remembers(r, d)
    <2>1. \A d \in Doc : Newest(<<>>, d) = <<>>
        BY DEF Newest
    <2> QED
        BY <1>4, <1>6, <2>1 DEF Remembers
<1>10. Comebacks(r) = {Finds(s)}
    BY <1>7, <1>8, <1>9, WholeStore DEF Finds
<1> QED
    BY <1>7, <1>8, <1>9, <1>10

(* A restart. *)
LEMMA ReplayedStore ==
    ASSUME NEW s, GoodStore(s), NEW n \in s.synced..Len(s.log)
    PROVE  LET r == Replayed(s, n)
           IN  /\ GoodStore(r)
               /\ Finds(r) = After(s, n) /\ Finds(r) \in Comebacks(s)
               /\ \A d \in Doc : Remembers(r, d)
               /\ Comebacks(r) = {Finds(r)}
<1> DEFINE r == Replayed(s, n)
<1>1. s \in StoreSet /\ n \in 0..Len(s.log)
    BY DEF GoodStore, StoreSet
<1>2. /\ GoodStore(r) /\ r.log = SubSeq(s.log, 1, n) /\ r.synced = Len(r.log)
      /\ \A d \in Doc : r.mem[d] = Newest(SubSeq(s.log, 1, n), d)
    BY <1>1, ReplayedParts
<1>3. \A d \in Doc : Remembers(r, d)
    BY <1>2 DEF Remembers
<1>4. Finds(r) = After(s, n) /\ Finds(r) \in Comebacks(s)
    BY DEF Finds, After, Comebacks
<1> QED
    BY <1>2, <1>3, <1>4, WholeStore

(* A merge that drops versions of one document. *)
LEMMA CutStore ==
    ASSUME NEW s, GoodStore(s), NEW d \in Doc, NEW k \in 1..Len(s.seg[d]),
           NEW r, r = [s EXCEPT !.seg[d] = SubSeq(@, k + 1, Len(@))]
    PROVE  /\ GoodStore(r) /\ r.synced = s.synced /\ r.log = s.log
           /\ \A e \in Doc \ {d} : Find(r, e) = Find(s, e)
           /\ \A e \in Doc : Remembers(r, e) <=> Remembers(s, e)
           /\ \A b \in Comebacks(r) : \E c \in Comebacks(s) : \A e \in Doc \ {d} : b[e] = c[e]
<1> DEFINE seg == [s.seg EXCEPT ![d] = SubSeq(@, k + 1, Len(@))]
<1>1. s \in StoreSet /\ s.seg \in [Doc -> Seq(Version)]
    BY DEF GoodStore, StoreSet
<1>2. seg \in [Doc -> Seq(Version)] /\ \A e \in Doc \ {d} : seg[e] = s.seg[e]
    <2>1. SubSeq(s.seg[d], k + 1, Len(s.seg[d])) \in Seq(Version)
        <3>1. s.seg[d] \in Seq(Version)
            BY <1>1
        <3> QED
            BY <3>1
    <2> QED
        BY <1>1, <2>1
<1>3. r = [s EXCEPT !.seg = seg]
    BY <1>1 DEF StoreSet
<1> HIDE DEF seg
<1>4. r \in StoreSet /\ r.log = s.log /\ r.synced = s.synced /\ r.mem = s.mem /\ r.seg = seg
    BY <1>1, <1>2, <1>3 DEF StoreSet
<1>5. GoodStore(r)
    BY <1>4 DEF GoodStore
<1>6. \A e \in Doc \ {d} : Find(r, e) = Find(s, e)
    BY <1>2, <1>4, SameFind
<1>7. \A e \in Doc : Remembers(r, e) <=> Remembers(s, e)
    BY <1>4 DEF Remembers
<1>8. ASSUME NEW n \in r.synced..Len(r.log)
      PROVE  After(s, n) \in Comebacks(s) /\ \A e \in Doc \ {d} : After(r, n)[e] = After(s, n)[e]
    <2>1. n \in s.synced..Len(s.log) /\ n \in 0..Len(s.log) /\ n \in 0..Len(r.log)
        BY <1>4 DEF GoodStore, StoreSet
    <2>2. /\ \A e \in Doc : Replayed(r, n).mem[e] = Newest(SubSeq(s.log, 1, n), e)
          /\ Replayed(r, n).seg = seg
        <3>1. /\ \A e \in Doc : Replayed(r, n).mem[e] = Newest(SubSeq(r.log, 1, n), e)
              /\ Replayed(r, n).seg = r.seg
            BY <1>4, <2>1, ReplayedParts
        <3> QED
            BY <1>4, <3>1
    <2>3. /\ \A e \in Doc : Replayed(s, n).mem[e] = Newest(SubSeq(s.log, 1, n), e)
          /\ Replayed(s, n).seg = s.seg
        BY <1>1, <2>1, ReplayedParts
    <2>4. \A e \in Doc \ {d} : Find(Replayed(r, n), e) = Find(Replayed(s, n), e)
        <3> TAKE e \in Doc \ {d}
        <3>1. Replayed(r, n).mem[e] = Replayed(s, n).mem[e]
            BY <2>2, <2>3
        <3>2. Replayed(r, n).seg[e] = Replayed(s, n).seg[e]
            BY <1>2, <2>2, <2>3
        <3> QED
            BY <3>1, <3>2, SameFind
    <2> QED
        BY <2>1, <2>4 DEF After, Comebacks
<1>9. \A b \in Comebacks(r) : \E c \in Comebacks(s) : \A e \in Doc \ {d} : b[e] = c[e]
    <2> TAKE b \in Comebacks(r)
    <2>1. PICK n \in r.synced..Len(r.log) : b = After(r, n)
        BY DEF Comebacks
    <2> QED
        BY <1>8, <2>1
<1> QED
    BY <1>4, <1>5, <1>6, <1>7, <1>9

(* put_bytes_nosync, with or without its flush. *)
LEMMA PutStore ==
    ASSUME NEW s, GoodStore(s), NEW e \in Doc, NEW v \in Version, NEW r \in PutBytes(s, e, v)
    PROVE  /\ GoodStore(r)
           /\ \A d \in Doc : Find(r, d) = IF d = e THEN v ELSE Find(s, d)
           /\ \A d \in Doc : d = e \/ Remembers(s, d) => Remembers(r, d)
           /\ \A b \in Comebacks(r) : \/ b \in Comebacks(s)
                                      \/ b = [After(s, Len(s.log)) EXCEPT ![e] = v]
                                      \/ b = [Finds(s) EXCEPT ![e] = v]
<1> DEFINE w == Written(s, e, v)
<1>1. /\ GoodStore(w)
      /\ \A d \in Doc : Find(w, d) = IF d = e THEN v ELSE Find(s, d)
      /\ \A d \in Doc : d = e \/ Remembers(s, d) => Remembers(w, d)
      /\ \A b \in Comebacks(w) :
             b \in Comebacks(s) \/ b = [After(s, Len(s.log)) EXCEPT ![e] = v]
    BY WrittenStore
<1>2. CASE r = w
    BY <1>1, <1>2
<1>3. CASE r = Flushed(w)
    <2> HIDE DEF w
    <2>1. /\ GoodStore(r) /\ \A d \in Doc : Find(r, d) = Find(w, d)
          /\ \A d \in Doc : Remembers(r, d)
          /\ Comebacks(r) = {Finds(w)}
        BY <1>1, <1>3, FlushedStore
    <2>2. Finds(w) = [Finds(s) EXCEPT ![e] = v]
        BY <1>1 DEF Finds
    <2> QED
        BY <1>1, <2>1, <2>2
<1> QED
    BY <1>2, <1>3 DEF PutBytes

(* A tombstone written and synced. *)
LEMMA BuriedStore ==
    ASSUME NEW s, GoodStore(s), NEW e \in Doc
    PROVE  LET r == Synced(Written(s, e, 0))
           IN  /\ GoodStore(r) /\ r.synced = Len(r.log)
               /\ \A d \in Doc : Find(r, d) = IF d = e THEN 0 ELSE Find(s, d)
               /\ \A d \in Doc : d = e \/ Remembers(s, d) => Remembers(r, d)
               /\ \A b \in Comebacks(r) :
                      (b \in Comebacks(s) /\ b[e] = 0) \/ b = [After(s, Len(s.log)) EXCEPT ![e] = 0]
               /\ (\A d \in Doc : Remembers(s, d)) => Comebacks(r) = {Finds(r)}
<1> DEFINE w == Written(s, e, 0)
           r == Synced(w)
<1>1. 0 \in Version
    BY BoundsAssumption DEF Version
<1>2. /\ GoodStore(w)
      /\ \A d \in Doc : Find(w, d) = IF d = e THEN 0 ELSE Find(s, d)
      /\ \A d \in Doc : d = e \/ Remembers(s, d) => Remembers(w, d)
      /\ \A b \in Comebacks(w) :
             b \in Comebacks(s) \/ b = [After(s, Len(s.log)) EXCEPT ![e] = 0]
    BY <1>1, WrittenStore
<1> HIDE DEF w
<1>3. /\ GoodStore(r) /\ r.synced = Len(r.log)
      /\ \A d \in Doc : Find(r, d) = Find(w, d)
      /\ \A d \in Doc : Remembers(r, d) <=> Remembers(w, d)
      /\ Comebacks(r) = {After(w, Len(w.log))} /\ Comebacks(r) \subseteq Comebacks(w)
    BY <1>2, SyncedStore
<1>4. After(w, Len(w.log))[e] = 0
    BY <1>2, AfterAll
<1> HIDE DEF r
<1>5. \A b \in Comebacks(r) :
          (b \in Comebacks(s) /\ b[e] = 0) \/ b = [After(s, Len(s.log)) EXCEPT ![e] = 0]
    BY <1>2, <1>3, <1>4
<1>6. (\A d \in Doc : Remembers(s, d)) => Comebacks(r) = {Finds(r)}
    BY <1>2, <1>3, WholeStore
<1> QED
    BY <1>2, <1>3, <1>5, <1>6 DEF r, w

(* delete_prefix. *)
LEMMA CoveredStore ==
    ASSUME NEW s, GoodStore(s), NEW e \in Doc
    PROVE  LET r == Covered(s, e)
           IN  /\ GoodStore(r)
               /\ \A d \in Doc : Find(r, d) = IF d = e THEN 0 ELSE Find(s, d)
               /\ \A d \in Doc : Remembers(s, d) => Remembers(r, d)
               /\ Find(s, e) = 0 => r = s
               /\ Find(s, e) # 0 /\ (\A d \in Doc : Remembers(s, d)) => Comebacks(r) = {Finds(r)}
<1>1. CASE Find(s, e) = 0
    BY <1>1 DEF Covered
<1>2. CASE Find(s, e) # 0
    <2> DEFINE r == Synced(Written(s, e, 0))
    <2>1. Covered(s, e) = r
        BY <1>2 DEF Covered
    <2>2. /\ GoodStore(r)
          /\ \A d \in Doc : Find(r, d) = IF d = e THEN 0 ELSE Find(s, d)
          /\ \A d \in Doc : d = e \/ Remembers(s, d) => Remembers(r, d)
          /\ (\A d \in Doc : Remembers(s, d)) => Comebacks(r) = {Finds(r)}
        BY BuriedStore
    <2> HIDE DEF r
    <2> QED
        BY <1>2, <2>1, <2>2
<1> QED
    BY <1>1, <1>2

-----------------------------------------------------------------------------
(* Types                                                                   *)

(* What get makes of a base version and a patch. *)
Read(p, q) == IF p = 0 THEN NoDoc ELSE [base |-> p, patch |-> q]

LEMMA StoresTyped ==
    TypeOK <=> /\ store = [f \in Family |-> store[f]] /\ \A f \in Family : GoodStore(store[f])
               /\ mode \in Modes
               /\ bits \subseteq Doc /\ bitsDisk \subseteq Doc
               /\ hot \in [Doc -> SeqOf(Content, 1)]
               /\ call \in Calls
               /\ logical \in [Doc -> Content]
               /\ may \in [Doc -> SUBSET Content]
               /\ touched \in [Doc -> SUBSET {"primary", "delta", "bits", "segments"}]
               /\ past \subseteq [Doc -> Version]
               /\ lost \subseteq Doc
               /\ ops \in 0..MaxOps /\ faults \in 0..MaxFaults
BY DEF TypeOK, GoodStore

LEMMA ViewParts ==
    ASSUME TypeOK, NEW d \in Doc
    PROVE  /\ ReadThrough(d) = Read(Find(store["primary"], d), Find(store["delta"], d))
           /\ ReadThrough(d) \in Content
           /\ d \in bits => View(d) = NoDoc
           /\ d \notin bits /\ hot[d] = <<>> => View(d) = ReadThrough(d)
           /\ \A c : d \notin bits /\ hot[d] = <<c>> => View(d) = c
           /\ View(d) \in Content
<1>1. store["primary"] \in StoreSet /\ store["delta"] \in StoreSet /\ hot[d] \in SeqOf(Content, 1)
    BY DEF TypeOK, Family
<1>2. Find(store["primary"], d) \in Version /\ Find(store["delta"], d) \in Version /\ 0 \in Version
    BY <1>1, FindParts, BoundsAssumption DEF Version
<1>3. ReadThrough(d) = Read(Find(store["primary"], d), Find(store["delta"], d))
    BY DEF ReadThrough, Read
<1>4. ReadThrough(d) \in Content /\ NoDoc \in Content
    BY <1>2 DEF ReadThrough, NoDoc, Content
<1>5. d \notin bits /\ hot[d] = <<>> => View(d) = ReadThrough(d)
    BY DEF View
<1>6. \A c : d \notin bits /\ hot[d] = <<c>> => View(d) = c
    BY DEF View
<1>7. d \in bits => View(d) = NoDoc
    BY DEF View
<1>8. View(d) \in Content
    BY <1>1, <1>4, <1>5, <1>6, <1>7, AtMostOne
<1> QED
    BY <1>3, <1>4, <1>5, <1>6, <1>7, <1>8

(* One family changes. *)
LEMMA StoreTyped ==
    ASSUME TypeOK, NEW f \in Family, NEW r, GoodStore(r), store' = [store EXCEPT ![f] = r]
    PROVE  /\ store' \in [Family -> StoreSet]
           /\ \A g \in Family : GoodStore(store'[g]) /\ store'[g].synced <= Len(store'[g].log)
           /\ store'[f] = r /\ \A g \in Family \ {f} : store'[g] = store[g]
BY DEF TypeOK, GoodStore

LEMMA BasesTyped ==
    /\ TypeOK => Bases \in [Doc -> Version] /\ Bases = Finds(store["primary"])
    /\ GoodStore(store'["primary"]) =>
           Bases' \in [Doc -> Version] /\ Bases' = Finds(store'["primary"])
<1>1. ASSUME TypeOK PROVE Bases \in [Doc -> Version] /\ Bases = Finds(store["primary"])
    <2>1. store["primary"] \in StoreSet
        BY <1>1 DEF TypeOK, Family
    <2> QED
        BY <2>1, FindParts DEF Bases, Finds
<1>2. ASSUME GoodStore(store'["primary"])
      PROVE  Bases' \in [Doc -> Version] /\ Bases' = Finds(store'["primary"])
    <2>1. store'["primary"] \in StoreSet
        BY <1>2 DEF GoodStore
    <2> QED
        BY <2>1, FindParts DEF Bases, Finds
<1> QED
    BY <1>1, <1>2

(* The operation at the head of a call. *)
LEMMA HeadOp ==
    ASSUME TypeOK, call.todo # <<>>
    PROVE  /\ call.todo \in Seq(Op) /\ Len(call.todo) \in 1..MaxBatch
           /\ Head(call.todo).doc \in Doc
           /\ Head(call.todo).version \in 1..MaxOps /\ Head(call.todo).version \in Version
           /\ Head(call.todo).version # 0
<1>1. call.todo \in Seq(Op) /\ Len(call.todo) <= MaxBatch
    BY Short, BoundsAssumption DEF TypeOK, Calls
<1>2. Head(call.todo) \in Op /\ Len(call.todo) \in Nat \ {0}
    BY <1>1
<1> QED
    BY <1>1, <1>2, BoundsAssumption DEF Op, Version

LEMMA CallTyped ==
    /\ Idle \in Calls
    /\ TypeOK => \A at \in Step : [call EXCEPT !.at = at] \in Calls
    /\ [Idle EXCEPT !.at = "bits", !.sync = TRUE] \in Calls
    /\ TypeOK /\ call.todo # <<>> /\ OpDone => call' \in Calls /\ call'.at \in {"idle", "op", "bits"}
<1>1. <<>> \in SeqOf(Op, MaxBatch)
    <2>1. <<>> \in Seq(Op) /\ Len(<<>>) <= MaxBatch
        BY BoundsAssumption
    <2> QED
        BY <2>1, Short, BoundsAssumption
<1>2. Idle \in Calls /\ [Idle EXCEPT !.at = "bits", !.sync = TRUE] \in Calls
    BY <1>1 DEF Idle, Calls, Step
<1>3. ASSUME TypeOK, NEW at \in Step PROVE [call EXCEPT !.at = at] \in Calls
    BY <1>3 DEF TypeOK, Calls
<1>4. ASSUME TypeOK, call.todo # <<>>, OpDone
      PROVE  call' \in Calls /\ call'.at \in {"idle", "op", "bits"}
    <2>1. call \in Calls
        BY <1>4 DEF TypeOK
    <2>2. CASE Len(call.todo) > 1
        <3>1. call' = [call EXCEPT !.todo = Tail(@), !.at = "op"]
            BY <1>4, <2>2 DEF OpDone
        <3>2. Tail(call.todo) \in SeqOf(Op, MaxBatch)
            <4>1. Tail(call.todo) \in Seq(Op) /\ Len(Tail(call.todo)) <= MaxBatch
                BY <1>4, <2>2, HeadOp, BoundsAssumption
            <4> QED
                BY <4>1, Short, BoundsAssumption
        <3> QED
            BY <2>1, <3>1, <3>2 DEF Calls, Step
    <2>3. CASE ~(Len(call.todo) > 1) /\ call.sync
        <3>1. call' = [call EXCEPT !.todo = <<>>, !.at = "bits"]
            BY <1>4, <2>3 DEF OpDone
        <3> QED
            BY <1>1, <2>1, <3>1 DEF Calls, Step
    <2>4. CASE ~(Len(call.todo) > 1) /\ ~call.sync
        <3>1. call' = Idle
            BY <1>4, <2>4 DEF OpDone
        <3> QED
            BY <1>2, <3>1 DEF Idle
    <2> QED
        BY <2>2, <2>3, <2>4
<1> QED
    BY <1>2, <1>3, <1>4

LEMMA StartTyped ==
    ASSUME TypeOK, NEW n \in 1..MaxBatch, NEW kinds \in [1..n -> {"put", "delete", "patch"}],
           NEW docs \in [1..n -> Doc], NEW sync \in BOOLEAN, Start(kinds, docs, sync)
    PROVE  TypeOK' /\ call'.at = "op"
<1> DEFINE todo == [i \in DOMAIN kinds |->
                      [kind |-> kinds[i], doc |-> docs[i], version |-> ops + i]]
<1>1. n \in Nat /\ DOMAIN kinds = 1..n /\ Len(kinds) = n /\ ops \in Nat /\ MaxOps \in Nat
    BY BoundsAssumption DEF TypeOK
<1>2. ops + n <= MaxOps
    BY <1>1 DEF Start
<1>3. todo \in [1..n -> Op]
    <2> SUFFICES ASSUME NEW i \in 1..n
                 PROVE  [kind |-> kinds[i], doc |-> docs[i], version |-> ops + i] \in Op
        BY <1>1
    <2>1. ops + i \in 1..MaxOps
        BY <1>1, <1>2
    <2> QED
        BY <2>1 DEF Op
<1>4. call' = [todo |-> todo, at |-> "op", sync |-> sync]
    BY DEF Start
<1> HIDE DEF todo
<1>5. todo \in SeqOf(Op, MaxBatch)
    BY <1>3 DEF SeqOf
<1>6. call' \in Calls
    BY <1>4, <1>5 DEF Calls, Step
<1>7. ops' \in 0..MaxOps
    BY <1>1, <1>2 DEF Start
<1> QED
    BY <1>4, <1>6, <1>7 DEF Start, TypeOK

LEMMA BecomesTyped ==
    ASSUME TypeOK, NEW d \in Doc, NEW c \in Content,
           NEW places \in SUBSET {"primary", "delta", "bits", "segments"}, Becomes(d, c, places)
    PROVE  /\ logical' \in [Doc -> Content]
           /\ may' \in [Doc -> SUBSET Content]
           /\ touched' \in [Doc -> SUBSET {"primary", "delta", "bits", "segments"}]
<1>1. logical' = [logical EXCEPT ![d] = c] /\ logical \in [Doc -> Content]
    BY DEF Becomes, TypeOK
<1>2. may' = [may EXCEPT ![d] = @ \cup {c}] /\ may \in [Doc -> SUBSET Content]
    BY DEF Becomes, TypeOK
<1>3. touched' = [touched EXCEPT ![d] = @ \cup places]
      /\ touched \in [Doc -> SUBSET {"primary", "delta", "bits", "segments"}]
    BY DEF Becomes, TypeOK
<1> QED
    BY <1>1, <1>2, <1>3

LEMMA AcknowledgeTyped ==
    ASSUME TypeOK, Acknowledge
    PROVE  /\ may' \in [Doc -> SUBSET Content]
           /\ touched' \in [Doc -> SUBSET {"primary", "delta", "bits", "segments"}]
           /\ past' \subseteq [Doc -> Version]
BY BasesTyped DEF Acknowledge, TypeOK

LEMMA RememberTyped ==
    ASSUME TypeOK, Remember, GoodStore(store'["primary"])
    PROVE  past' \subseteq [Doc -> Version]
BY BasesTyped DEF Remember, TypeOK

LEMMA NoDocTyped == NoDoc \in Content
BY BoundsAssumption DEF NoDoc, Content, Version

LEMMA InitTyped == Init => TypeOK
<1> SUFFICES ASSUME Init PROVE TypeOK
    OBVIOUS
<1>1. EmptyStore \in StoreSet /\ EmptyStore.synced <= Len(EmptyStore.log)
    <2>1. <<>> \in SeqOf(Version, 1) /\ <<>> \in Seq(Version) /\ <<>> \in Seq(Record)
        BY AtMostOne
    <2> QED
        BY <2>1 DEF EmptyStore, StoreSet
<1>2. <<>> \in SeqOf(Content, 1)
    BY AtMostOne
<1>3. 0 \in Version /\ ops \in 0..MaxOps /\ faults \in 0..MaxFaults
    BY BoundsAssumption DEF Init, Version
<1>4. store \in [Family -> StoreSet] /\ \A f \in Family : store[f].synced <= Len(store[f].log)
    BY <1>1 DEF Init
<1>5. hot \in [Doc -> SeqOf(Content, 1)] /\ call \in Calls
    BY <1>2, CallTyped DEF Init
<1>6. logical \in [Doc -> Content] /\ may \in [Doc -> SUBSET Content]
    BY NoDocTyped DEF Init
<1> QED
    BY <1>3, <1>4, <1>5, <1>6 DEF Init, TypeOK

(* The steps of puts, deletions and patches. *)
LEMMA WriteTyped ==
    ASSUME TypeOK, PutPrimary \/ PutCover \/ DeletePrimary \/ DeleteCover \/ PatchDelta
    PROVE  TypeOK'
<1> DEFINE o == Head(call.todo)
           p == store["primary"]
           q == store["delta"]
<1>1. /\ "primary" \in Family /\ "delta" \in Family /\ GoodStore(p) /\ GoodStore(q)
    BY DEF TypeOK, GoodStore, Family
<1>2. \A d \in Doc : Invalidate(d) \in [Doc -> SeqOf(Content, 1)]
    BY AtMostOne DEF Invalidate, TypeOK
<1>3. call.todo # <<>> /\ o.doc \in Doc /\ o.version \in Version /\ o.version # 0
    <2>1. call.todo # <<>>
        BY DEF PutPrimary, PutCover, DeletePrimary, DeleteCover, PatchDelta, Here
    <2> QED
        BY <2>1, HeadOp
<1>4. 0 \in Version /\ [base |-> o.version, patch |-> 0] \in Content /\ NoDoc \in Content
    BY <1>3, BoundsAssumption DEF Version, Content, NoDoc
<1>5. [call EXCEPT !.at = "cover"] \in Calls
    BY CallTyped DEF Step
<1> HIDE DEF o, p, q
<1>6. CASE PutPrimary
    <2>1. PICK s \in PutBytes(p, o.doc, o.version) : store' = [store EXCEPT !["primary"] = s]
        BY <1>6 DEF PutPrimary, o, p
    <2>2. GoodStore(s)
        BY <1>1, <1>3, <2>1, PutStore
    <2>3. /\ store' \in [Family -> StoreSet] /\ GoodStore(store'["primary"])
          /\ \A g \in Family : store'[g].synced <= Len(store'[g].log)
        BY <1>1, <2>1, <2>2, StoreTyped
    <2>4. PICK c \in SUBSET {"primary", "delta", "bits", "segments"} :
              Becomes(o.doc, [base |-> o.version, patch |-> 0], c)
        <3>1. {"primary"} \cup (IF Find(store["delta"], o.doc) # 0 THEN {"delta"} ELSE {})
                          \cup (IF o.doc \in bits THEN {"bits"} ELSE {})
                \in SUBSET {"primary", "delta", "bits", "segments"}
            OBVIOUS
        <3> QED
            BY <1>6, <3>1 DEF PutPrimary, o
    <2>5. /\ logical' \in [Doc -> Content] /\ may' \in [Doc -> SUBSET Content]
          /\ touched' \in [Doc -> SUBSET {"primary", "delta", "bits", "segments"}]
        BY <1>3, <1>4, <2>4, BecomesTyped
    <2>6. past' \subseteq [Doc -> Version]
        BY <1>6, <2>3, RememberTyped DEF PutPrimary
    <2>7. /\ hot' \in [Doc -> SeqOf(Content, 1)] /\ call' \in Calls
          /\ UNCHANGED <<mode, bits, bitsDisk, lost, ops, faults>>
        BY <1>2, <1>3, <1>5, <1>6 DEF PutPrimary, o
    <2> QED
        BY <2>3, <2>5, <2>6, <2>7 DEF TypeOK
<1>7. CASE PutCover
    <2>1. store' = [store EXCEPT !["delta"] = Covered(q, o.doc)] /\ GoodStore(Covered(q, o.doc))
        BY <1>1, <1>3, <1>7, CoveredStore DEF PutCover, o, q
    <2>2. /\ store' \in [Family -> StoreSet]
          /\ \A g \in Family : store'[g].synced <= Len(store'[g].log)
        BY <1>1, <2>1, StoreTyped
    <2>3. hot' \in [Doc -> SeqOf(Content, 1)]
        <3>1. <<[base |-> o.version, patch |-> 0]>> \in SeqOf(Content, 1)
            BY <1>4, AtMostOne
        <3> QED
            BY <1>7, <3>1 DEF PutCover, TypeOK, o
    <2>4. call' \in Calls
        BY <1>3, <1>7, CallTyped DEF PutCover
    <2>5. bits' \subseteq Doc
        BY <1>7 DEF PutCover, TypeOK
    <2>6. UNCHANGED <<mode, bitsDisk, logical, may, touched, past, lost, ops, faults>>
        BY <1>7 DEF PutCover, histVars
    <2> QED
        BY <2>2, <2>3, <2>4, <2>5, <2>6 DEF TypeOK
<1>8. CASE DeletePrimary
    <2>1. PICK s : GoodStore(s) /\ store' = [store EXCEPT !["primary"] = s]
        <3>1. GoodStore(Logged(p, o.doc, 0)) /\ GoodStore(Synced(Written(p, o.doc, 0)))
            BY <1>1, <1>3, <1>4, LoggedStore, BuriedStore
        <3>2. \/ store' = [store EXCEPT !["primary"] = Logged(p, o.doc, 0)]
              \/ store' = [store EXCEPT !["primary"] = Synced(Written(p, o.doc, 0))]
            BY <1>8 DEF DeletePrimary, o, p
        <3> QED
            BY <3>1, <3>2
    <2>3. /\ store' \in [Family -> StoreSet] /\ GoodStore(store'["primary"])
          /\ \A g \in Family : store'[g].synced <= Len(store'[g].log)
        BY <1>1, <2>1, StoreTyped
    <2>4. PICK c \in SUBSET {"primary", "delta", "bits", "segments"} : Becomes(o.doc, NoDoc, c)
        <3>1. {"bits"} \cup (IF Find(store["delta"], o.doc) # 0 THEN {"delta"} ELSE {})
                \in SUBSET {"primary", "delta", "bits", "segments"}
            OBVIOUS
        <3>2. {"primary"} \in SUBSET {"primary", "delta", "bits", "segments"}
            OBVIOUS
        <3> QED
            BY <1>8, <3>1, <3>2 DEF DeletePrimary, o
    <2>5. /\ logical' \in [Doc -> Content] /\ may' \in [Doc -> SUBSET Content]
          /\ touched' \in [Doc -> SUBSET {"primary", "delta", "bits", "segments"}]
        BY <1>3, <1>4, <2>4, BecomesTyped
    <2>6. past' \subseteq [Doc -> Version]
        BY <1>8, <2>3, RememberTyped DEF DeletePrimary
    <2>7. /\ hot' \in [Doc -> SeqOf(Content, 1)] /\ call' \in Calls
          /\ UNCHANGED <<mode, bitsDisk, lost, ops, faults>>
        BY <1>2, <1>3, <1>5, <1>8 DEF DeletePrimary, o
    <2>8. bits' \subseteq Doc
        BY <1>3, <1>8 DEF DeletePrimary, TypeOK, o
    <2> QED
        BY <2>3, <2>5, <2>6, <2>7, <2>8 DEF TypeOK
<1>9. CASE DeleteCover
    <2>1. store' = [store EXCEPT !["delta"] = Covered(q, o.doc)] /\ GoodStore(Covered(q, o.doc))
        BY <1>1, <1>3, <1>9, CoveredStore DEF DeleteCover, o, q
    <2>2. /\ store' \in [Family -> StoreSet]
          /\ \A g \in Family : store'[g].synced <= Len(store'[g].log)
        BY <1>1, <2>1, StoreTyped
    <2>3. /\ may' \in [Doc -> SUBSET Content]
          /\ touched' \in [Doc -> SUBSET {"primary", "delta", "bits", "segments"}]
        BY <1>4, <1>9 DEF DeleteCover, TypeOK, o
    <2>4. call' \in Calls
        BY <1>3, <1>9, CallTyped DEF DeleteCover
    <2>5. UNCHANGED <<mode, bits, bitsDisk, hot, logical, past, lost, ops, faults>>
        BY <1>9 DEF DeleteCover
    <2> QED
        BY <2>2, <2>3, <2>4, <2>5 DEF TypeOK
<1>10. CASE PatchDelta
    <2>1. PICK s \in PutBytes(q, o.doc, o.version) : store' = [store EXCEPT !["delta"] = s]
        BY <1>10 DEF PatchDelta, o, q
    <2>2. GoodStore(s)
        BY <1>1, <1>3, <2>1, PutStore
    <2>3. /\ store' \in [Family -> StoreSet]
          /\ \A g \in Family : store'[g].synced <= Len(store'[g].log)
        BY <1>1, <2>1, <2>2, StoreTyped
    <2>4. PICK c \in Content : Becomes(o.doc, c, {"delta"})
        <3>1. logical[o.doc] \in Content
            BY <1>3 DEF TypeOK
        <3>2. [logical[o.doc] EXCEPT !.patch = o.version] \in Content
            BY <1>3, <3>1 DEF Content
        <3> QED
            BY <1>4, <1>10, <3>2 DEF PatchDelta, o
    <2>5. /\ logical' \in [Doc -> Content] /\ may' \in [Doc -> SUBSET Content]
          /\ touched' \in [Doc -> SUBSET {"primary", "delta", "bits", "segments"}]
        BY <1>3, <2>4, BecomesTyped
    <2>6. call' \in Calls
        BY <1>3, <1>10, CallTyped DEF PatchDelta
    <2>7. /\ hot' \in [Doc -> SeqOf(Content, 1)]
          /\ UNCHANGED <<mode, bits, bitsDisk, past, lost, ops, faults>>
        BY <1>2, <1>3, <1>10 DEF PatchDelta, o
    <2> QED
        BY <2>3, <2>5, <2>6, <2>7 DEF TypeOK
<1> QED
    BY <1>6, <1>7, <1>8, <1>9, <1>10

(* Syncs, flushes and compaction. *)
LEMMA DiskTyped ==
    ASSUME TypeOK,
           \/ FlushBits \/ SyncPrimary \/ SyncDelta \/ FlushPrimary
           \/ (\E f \in Family : GroupCommit(f)) \/ (\E d \in Doc : Compact(d))
    PROVE  TypeOK'
<1>1. /\ "primary" \in Family /\ "delta" \in Family
      /\ \A f \in Family : GoodStore(store[f])
    BY DEF TypeOK, GoodStore, Family
<1>2. [call EXCEPT !.at = "primary"] \in Calls /\ [call EXCEPT !.at = "delta"] \in Calls /\ Idle \in Calls
    BY CallTyped DEF Step
<1>3. CASE FlushBits
    BY <1>2, <1>3 DEF FlushBits, TypeOK, histVars
<1>4. CASE SyncPrimary
    <2>1. GoodStore(Synced(store["primary"]))
        BY <1>1, SyncedStore
    <2>2. /\ store' \in [Family -> StoreSet]
          /\ \A g \in Family : store'[g].synced <= Len(store'[g].log)
        BY <1>1, <1>4, <2>1, StoreTyped DEF SyncPrimary
    <2> QED
        BY <1>2, <1>4, <2>2 DEF SyncPrimary, TypeOK, histVars
<1>5. CASE SyncDelta
    <2>1. GoodStore(Synced(store["delta"]))
        BY <1>1, SyncedStore
    <2>2. /\ store' \in [Family -> StoreSet]
          /\ \A g \in Family : store'[g].synced <= Len(store'[g].log)
        BY <1>1, <1>5, <2>1, StoreTyped DEF SyncDelta
    <2>3. /\ may' \in [Doc -> SUBSET Content]
          /\ touched' \in [Doc -> SUBSET {"primary", "delta", "bits", "segments"}]
          /\ past' \subseteq [Doc -> Version]
        BY <1>5, AcknowledgeTyped DEF SyncDelta
    <2> QED
        BY <1>2, <1>5, <2>2, <2>3 DEF SyncDelta, TypeOK
<1>6. CASE FlushPrimary
    <2>1. GoodStore(Flushed(store["primary"]))
        BY <1>1, FlushedStore
    <2>2. /\ store' \in [Family -> StoreSet]
          /\ \A g \in Family : store'[g].synced <= Len(store'[g].log)
        BY <1>1, <1>6, <2>1, StoreTyped DEF FlushPrimary
    <2> QED
        BY <1>6, <2>2 DEF FlushPrimary, TypeOK, histVars
<1>7. ASSUME NEW f \in Family, GroupCommit(f) PROVE TypeOK'
    <2>1. GoodStore(Synced(store[f]))
        BY <1>1, SyncedStore
    <2>2. /\ store' \in [Family -> StoreSet]
          /\ \A g \in Family : store'[g].synced <= Len(store'[g].log)
        BY <1>1, <1>7, <2>1, StoreTyped DEF GroupCommit
    <2>3. Acknowledge \/ UNCHANGED <<may, touched, past>>
        BY <1>7 DEF GroupCommit
    <2>4. /\ may' \in [Doc -> SUBSET Content]
          /\ touched' \in [Doc -> SUBSET {"primary", "delta", "bits", "segments"}]
          /\ past' \subseteq [Doc -> Version]
        BY <2>3, AcknowledgeTyped DEF TypeOK
    <2> QED
        BY <1>7, <2>2, <2>4 DEF GroupCommit, TypeOK
<1>8. ASSUME NEW d \in Doc, Compact(d) PROVE TypeOK'
    <2>1. PICK n \in 1..Len(store["primary"].seg[d]) :
              store' = [store EXCEPT !["primary"].seg[d] = SubSeq(@, n + 1, Len(@))]
        BY <1>8 DEF Compact
    <2>2. PICK r : r = [store["primary"] EXCEPT !.seg[d] = SubSeq(@, n + 1, Len(@))]
        OBVIOUS
    <2>3. store' = [store EXCEPT !["primary"] = r]
        BY <2>1, <2>2
    <2>4. GoodStore(r)
        BY <1>1, <2>2, CutStore
    <2>5. /\ store' \in [Family -> StoreSet]
          /\ \A g \in Family : store'[g].synced <= Len(store'[g].log)
        BY <1>1, <2>3, <2>4, StoreTyped
    <2>6. touched' \in [Doc -> SUBSET {"primary", "delta", "bits", "segments"}]
        BY <1>8 DEF Compact, TypeOK
    <2> QED
        BY <1>8, <2>5, <2>6 DEF Compact, TypeOK
<1> QED
    BY <1>3, <1>4, <1>5, <1>6, <1>7, <1>8

(* Each family of a restarted engine. *)
LEMMA CrashStores ==
    ASSUME TypeOK, Crash
    PROVE  /\ store' \in [Family -> StoreSet]
           /\ \A f \in Family :
                  /\ GoodStore(store'[f])
                  /\ Finds(store'[f]) \in Comebacks(store[f])
                  /\ \A d \in Doc : Remembers(store'[f], d)
                  /\ Comebacks(store'[f]) = {Finds(store'[f])}
<1>1. PICK n \in [Family -> 0..MaxOps] :
          /\ \A f \in Family : n[f] \in store[f].synced..Len(store[f].log)
          /\ store' = [f \in Family |-> Replayed(store[f], n[f])]
    BY DEF Crash
<1>2. ASSUME NEW f \in Family
      PROVE  /\ GoodStore(store'[f])
             /\ Finds(store'[f]) \in Comebacks(store[f])
             /\ \A d \in Doc : Remembers(store'[f], d)
             /\ Comebacks(store'[f]) = {Finds(store'[f])}
    <2>1. GoodStore(store[f]) /\ store'[f] = Replayed(store[f], n[f])
        BY <1>1 DEF TypeOK, GoodStore
    <2> QED
        BY <1>1, <2>1, ReplayedStore
<1>3. store' \in [Family -> StoreSet]
    BY <1>1, <1>2 DEF GoodStore
<1> QED
    BY <1>2, <1>3

LEMMA Families ==
    /\ "primary" \in Family /\ "delta" \in Family /\ Family \ {"delta"} = {"primary"}
    /\ TypeOK => \A f \in Family : GoodStore(store[f])
BY DEF Family, TypeOK, GoodStore

(* What is seen after a restart. *)
LEMMA CrashViews ==
    ASSUME TypeOK, Crash, NEW d \in Doc
    PROVE  /\ ReadThrough(d)' = Read(Find(store'["primary"], d), Find(store'["delta"], d))
           /\ View(d)' = IF d \in bitsDisk THEN NoDoc ELSE ReadThrough(d)'
           /\ View(d)' \in Content
<1>1. ReadThrough(d)' = Read(Find(store'["primary"], d), Find(store'["delta"], d))
    BY DEF ReadThrough, Read
<1>2. hot'[d] = <<>> /\ bits' = bitsDisk
    BY DEF Crash
<1>3. View(d)' = IF d \in bitsDisk THEN NoDoc ELSE ReadThrough(d)'
    BY <1>2 DEF View
<1>4. store'["primary"] \in StoreSet /\ store'["delta"] \in StoreSet
    BY CrashStores DEF Family
<1>5. Find(store'["primary"], d) \in Version /\ Find(store'["delta"], d) \in Version
    BY <1>4, FindParts
<1>6. ReadThrough(d)' \in Content
    BY <1>1, <1>5, NoDocTyped DEF Read, Content
<1> QED
    BY <1>1, <1>3, <1>6, NoDocTyped

(* A family whose memtable is dropped. *)
LEMMA DroppedStore ==
    ASSUME TypeOK, NEW f \in Family, NEW s, GoodStore(s), Drop(f, s)
    PROVE  /\ store' \in [Family -> StoreSet]
           /\ \A g \in Family : store'[g].synced <= Len(store'[g].log)
           /\ \A g \in Family \ {f} : store'[g] = store[g]
           /\ \A d \in Doc \ lost' : Find(store'[f], d) = Find(s, d)
           /\ lost' \subseteq Doc /\ lost \subseteq lost' /\ lost' # {}
<1> DEFINE r == [s EXCEPT !.mem = [d \in Doc |-> <<>>]]
<1>1. s \in StoreSet /\ s.synced <= Len(s.log)
    BY DEF GoodStore
<1>2. GoodStore(r)
    <2>1. <<>> \in SeqOf(Version, 1)
        BY AtMostOne
    <2>2. r \in StoreSet /\ r.synced = s.synced /\ r.log = s.log
        BY <1>1, <2>1 DEF StoreSet
    <2> QED
        BY <1>1, <2>2 DEF GoodStore
<1>3. store' = [store EXCEPT ![f] = r] /\ lost' = lost \cup {d \in Doc : s.mem[d] # <<>>}
      /\ \E d \in Doc : s.mem[d] # <<>>
    BY DEF Drop
<1>4. \A d \in Doc \ lost' : Find(r, d) = Find(s, d)
    <2> SUFFICES ASSUME NEW d \in Doc \ lost' PROVE Find(r, d) = Find(s, d)
        OBVIOUS
    <2>1. s.mem[d] = <<>>
        BY <1>3
    <2>2. r.mem[d] = <<>> /\ r.seg = s.seg
        BY <1>1 DEF StoreSet
    <2> QED
        BY <2>1, <2>2 DEF Find
<1> HIDE DEF r
<1>5. /\ store' \in [Family -> StoreSet] /\ store'[f] = r
      /\ \A g \in Family : store'[g].synced <= Len(store'[g].log)
      /\ \A g \in Family \ {f} : store'[g] = store[g]
    BY <1>2, <1>3, StoreTyped
<1> QED
    BY <1>3, <1>4, <1>5 DEF TypeOK

(* What a failed flush leaves: documents of which it drops nothing are     *)
(* found as they were.                                                     *)
LEMMA FlushFailsIs ==
    ASSUME TypeOK, FlushFails
    PROVE  /\ store' \in [Family -> StoreSet]
           /\ \A g \in Family : store'[g].synced <= Len(store'[g].log)
           /\ lost' \subseteq Doc /\ lost \subseteq lost' /\ lost' # {}
           /\ hot' \in [Doc -> SeqOf(Content, 1)]
           /\ \A d \in Doc : hot'[d] = hot[d] \/ hot'[d] = <<>>
           /\ \A d \in Doc \ lost' : \A g \in Family : Find(store'[g], d) = Find(store[g], d)
<1>1. /\ "primary" \in Family /\ "delta" \in Family
      /\ \A f \in Family : GoodStore(store[f])
    BY Families
<1>2. \A d \in Doc : /\ Invalidate(d) \in [Doc -> SeqOf(Content, 1)]
                     /\ \A e \in Doc : Invalidate(d)[e] = hot[e] \/ Invalidate(d)[e] = <<>>
    BY AtMostOne DEF Invalidate, TypeOK
<1>a. PICK f \in Family :
        \E s :
          /\ GoodStore(s) /\ Drop(f, s)
          /\ \A d \in Doc \ lost' : Find(s, d) = Find(store[f], d)
          /\ hot' \in [Doc -> SeqOf(Content, 1)]
          /\ \A d \in Doc : hot'[d] = hot[d] \/ hot'[d] = <<>>
    <2>1. CASE call = Idle /\ Drop("primary", store["primary"]) /\ UNCHANGED hot
        BY <1>1, <2>1 DEF TypeOK
    <2>2. ASSUME NEW f \in Family, call.todo # <<>>,
                 Drop(f, Written(store[f], Head(call.todo).doc, Head(call.todo).version)),
                 hot' = Invalidate(Head(call.todo).doc)
          PROVE  \E s :
                     /\ GoodStore(s) /\ Drop(f, s)
                     /\ \A d \in Doc \ lost' : Find(s, d) = Find(store[f], d)
                     /\ hot' \in [Doc -> SeqOf(Content, 1)]
                     /\ \A d \in Doc : hot'[d] = hot[d] \/ hot'[d] = <<>>
        <3>1. PICK o : o = Head(call.todo)
            OBVIOUS
        <3>2. o.doc \in Doc /\ o.version \in Version
            BY <2>2, <3>1, HeadOp
        <3>3. PICK s : s = Written(store[f], o.doc, o.version)
            OBVIOUS
        <3>4. GoodStore(s) /\ \A d \in Doc : Find(s, d) = IF d = o.doc THEN o.version ELSE Find(store[f], d)
            BY <1>1, <3>2, <3>3, WrittenStore
        <3>5. s.mem[o.doc] = <<o.version>>
            <4>1. Logged(store[f], o.doc, o.version).mem = store[f].mem
                  /\ store[f].mem \in [Doc -> SeqOf(Version, 1)]
                BY <1>1 DEF Logged, GoodStore, StoreSet
            <4>2. s = [Logged(store[f], o.doc, o.version) EXCEPT !.mem[o.doc] = <<o.version>>]
                BY <3>3 DEF Written
            <4> QED
                BY <3>2, <4>1, <4>2, <1>1 DEF Logged, GoodStore, StoreSet
        <3>6. o.doc \in lost'
            BY <2>2, <3>1, <3>2, <3>3, <3>5 DEF Drop
        <3> QED
            BY <1>2, <2>2, <3>1, <3>2, <3>3, <3>4, <3>6
    <2>3. \/ call = Idle /\ Drop("primary", store["primary"]) /\ UNCHANGED hot
          \/ \E f \in Family :
                 /\ call.todo # <<>>
                 /\ Drop(f, Written(store[f], Head(call.todo).doc, Head(call.todo).version))
                 /\ hot' = Invalidate(Head(call.todo).doc)
        BY <1>1 DEF FlushFails, Here
    <2> QED
        BY <2>1, <2>2, <2>3
<1>3. PICK s :
          /\ GoodStore(s) /\ Drop(f, s)
          /\ \A d \in Doc \ lost' : Find(s, d) = Find(store[f], d)
          /\ hot' \in [Doc -> SeqOf(Content, 1)]
          /\ \A d \in Doc : hot'[d] = hot[d] \/ hot'[d] = <<>>
    BY <1>a
<1>4. /\ store' \in [Family -> StoreSet]
      /\ \A g \in Family : store'[g].synced <= Len(store'[g].log)
      /\ \A g \in Family \ {f} : store'[g] = store[g]
      /\ \A d \in Doc \ lost' : Find(store'[f], d) = Find(s, d)
      /\ lost' \subseteq Doc /\ lost \subseteq lost' /\ lost' # {}
    BY <1>3, DroppedStore
<1>5. \A d \in Doc \ lost' : \A g \in Family : Find(store'[g], d) = Find(store[g], d)
    BY <1>3, <1>4
<1> QED
    BY <1>3, <1>4, <1>5

LEMMA FlushFailsTyped ==
    ASSUME TypeOK, FlushFails
    PROVE  TypeOK'
<1>1. /\ store' \in [Family -> StoreSet]
      /\ \A g \in Family : store'[g].synced <= Len(store'[g].log)
      /\ lost' \subseteq Doc
      /\ hot' \in [Doc -> SeqOf(Content, 1)]
    BY FlushFailsIs
<1>2. faults' \in 0..MaxFaults
    BY BoundsAssumption DEF FlushFails, Fault, TypeOK
<1>3. call' \in Calls
    BY CallTyped DEF FlushFails
<1>4. UNCHANGED <<mode, bits, bitsDisk, logical, may, touched, past, ops>>
    BY DEF FlushFails
<1> QED
    BY <1>1, <1>2, <1>3, <1>4 DEF TypeOK

LEMMA StepTyped == TypeOK /\ [Next]_vars => TypeOK'
<1> SUFFICES ASSUME TypeOK, [Next]_vars PROVE TypeOK'
    OBVIOUS
<1>1. CASE UNCHANGED vars
    BY <1>1 DEF TypeOK, vars, histVars
<1>2. ASSUME NEW d \in Doc, put(d) \/ patch(d) \/ delete(d) PROVE TypeOK'
    <2>1. 1 \in 1..MaxBatch
        BY BoundsAssumption
    <2>2. /\ <<"put">> \in [1..1 -> {"put", "delete", "patch"}]
          /\ <<"patch">> \in [1..1 -> {"put", "delete", "patch"}]
          /\ <<"delete">> \in [1..1 -> {"put", "delete", "patch"}]
          /\ <<d>> \in [1..1 -> Doc]
        OBVIOUS
    <2>3. PICK kinds \in [1..1 -> {"put", "delete", "patch"}], sync \in BOOLEAN :
              Start(kinds, <<d>>, sync)
        <3>1. (~mode.group) \in BOOLEAN /\ FALSE \in BOOLEAN
            OBVIOUS
        <3> QED
            BY <1>2, <2>2, <3>1 DEF put, patch, delete
    <2> QED
        BY <2>1, <2>2, <2>3, StartTyped
<1>3. CASE write
    <2>1. PICK n \in 2..MaxBatch : \E kinds \in [1..n -> {"put", "delete"}], docs \in [1..n -> Doc] :
              Start(kinds, docs, TRUE)
        BY <1>3 DEF write
    <2>2. PICK kinds \in [1..n -> {"put", "delete"}], docs \in [1..n -> Doc] :
              Start(kinds, docs, TRUE)
        BY <2>1
    <2>3. n \in 1..MaxBatch /\ kinds \in [1..n -> {"put", "delete", "patch"}] /\ TRUE \in BOOLEAN
        BY BoundsAssumption
    <2> QED
        BY <2>2, <2>3, StartTyped
<1>4. CASE flush_wal
    BY <1>4, CallTyped DEF flush_wal, TypeOK, histVars
<1>5. ASSUME NEW d \in Doc, get(d) \/ Evict(d) PROVE TypeOK'
    <2>1. <<>> \in SeqOf(Content, 1) /\ <<ReadThrough(d)>> \in SeqOf(Content, 1)
        BY ViewParts, AtMostOne
    <2>2. hot' \in [Doc -> SeqOf(Content, 1)]
        BY <1>5, <2>1 DEF get, Evict, TypeOK
    <2> QED
        BY <1>5, <2>2 DEF get, Evict, TypeOK, histVars
<1>6. CASE Fail
    <2>1. logical' \in [Doc -> Content]
        BY <1>6, ViewParts DEF Fail
    <2>2. may' \in [Doc -> SUBSET Content]
        <3>1. \A d \in Doc : may[d] \cup {View(d)} \in SUBSET Content
            BY ViewParts DEF TypeOK
        <3> QED
            BY <1>6, <3>1 DEF Fail
    <2>3. faults' \in 0..MaxFaults
        BY <1>6, BoundsAssumption DEF Fail, Fault, TypeOK
    <2>4. call' \in Calls
        BY <1>6, CallTyped DEF Fail
    <2> QED
        BY <1>6, <2>1, <2>2, <2>3, <2>4 DEF Fail, TypeOK
<1>7. CASE Crash
    <2>1. /\ store' \in [Family -> StoreSet]
          /\ \A f \in Family : store'[f].synced <= Len(store'[f].log)
        BY <1>7, CrashStores DEF GoodStore
    <2>2. logical' \in [Doc -> Content] /\ may' \in [Doc -> SUBSET Content]
        BY <1>7, CrashViews DEF Crash
    <2>3. faults' \in 0..MaxFaults
        BY <1>7, BoundsAssumption DEF Crash, Fault, TypeOK
    <2>4. call' \in Calls
        BY <1>7, CallTyped DEF Crash
    <2>5. hot' \in [Doc -> SeqOf(Content, 1)]
        BY <1>7, AtMostOne DEF Crash
    <2>6. past' \subseteq [Doc -> Version]
        <3>1. Bases' \in [Doc -> Version]
            BY <1>7, CrashStores, BasesTyped DEF Family
        <3> QED
            BY <1>7, <3>1 DEF Crash, TypeOK
    <2>7. touched' \in [Doc -> SUBSET {"primary", "delta", "bits", "segments"}]
        BY <1>7 DEF Crash
    <2>8. UNCHANGED <<mode, bitsDisk, ops>> /\ bits' = bitsDisk
        BY <1>7 DEF Crash
    <2> QED
        BY <1>7, <2>1, <2>2, <2>3, <2>4, <2>5, <2>6, <2>7, <2>8 DEF TypeOK, Crash
<1>8. CASE FlushFails
    BY <1>8, FlushFailsTyped
<1> QED
    BY <1>1, <1>2, <1>3, <1>4, <1>5, <1>6, <1>7, <1>8, WriteTyped, DiskTyped DEF Next

(* The families, the bitmap, the cache and the call under way keep their   *)
(* types, and no log is marked as on disk beyond its end.                  *)
THEOREM TypeCorrect == Spec => []TypeOK
BY InitTyped, StepTyped, PTL DEF Spec

-----------------------------------------------------------------------------
(* What reads find                                                         *)

(* Settings without the deletion bitmap beside a background compaction, in *)
(* which compaction may drop what a put has just written.                  *)
Apart == \A m \in Modes : m.bitmap => ~m.worker

(* And without it beside the group-commit thread, which never writes it.   *)
Alone == \A m \in Modes : m.bitmap => ~m.worker /\ ~m.group

(* The call under way has written the primary record of d, and no more. *)
Halfway(d) == call.at = "cover" /\ Head(call.todo).doc = d

BitsUsed == ~mode.bitmap => bits = {} /\ bitsDisk = {}

(* The cache has nothing of deleted documents, and of others what is read. *)
Clear == \A d \in Doc : d \in bits \/ Halfway(d) => hot[d] = <<>>
Cached == \A d \in Doc \ lost : hot[d] = <<>> \/ hot[d] = <<ReadThrough(d)>>

Shown ==
    \A d \in Doc \ lost : ~Halfway(d) => logical[d] = IF d \in bits THEN NoDoc ELSE ReadThrough(d)

(* What the first half of a put or a deletion has done. *)
HalfDone ==
    call.at = "cover" =>
        LET o == Head(call.todo)
        IN  /\ call.todo # <<>>
            /\ \/ /\ o.kind = "put" /\ Find(store["primary"], o.doc) = o.version
                  /\ logical[o.doc] = [base |-> o.version, patch |-> 0]
               \/ /\ o.kind = "delete" /\ logical[o.doc] = NoDoc
                  /\ IF mode.bitmap THEN o.doc \in bits ELSE Find(store["primary"], o.doc) = 0

ReadInv == BitsUsed /\ Clear /\ Cached /\ Shown /\ HalfDone

-----------------------------------------------------------------------------
(* What a crash leaves                                                     *)

(* Memory holds what the logs hold, deleted documents excepted, whose      *)
(* tombstone only the log has.                                             *)
LogsInMemory ==
    /\ \A d \in Doc : Remembers(store["delta"], d)
    /\ \A d \in Doc : d \notin bits \/ (Halfway(d) /\ Head(call.todo).kind = "put") =>
            Remembers(store["primary"], d)

InOrder == ~mode.bitmap => Comebacks(store["primary"]) \subseteq past

(* flush_wal has reached the disk with the parts it has done. *)
Flushing ==
    /\ call.at \in {"primary", "delta"} => bitsDisk = bits
    /\ call.at = "delta" => store["primary"].synced = Len(store["primary"].log)

(* Where a document has not been touched, a crash changes nothing. *)
BitsTouched(d) ==
    /\ d \in bits \ bitsDisk => "bits" \in touched[d]
    /\ d \in bitsDisk \ bits => {"bits", "primary"} \subseteq touched[d]
DeltaTouched(d) ==
    "delta" \notin touched[d] \/ Find(store["delta"], d) = 0 =>
        \A c \in Comebacks(store["delta"]) : c[d] = Find(store["delta"], d)
PrimaryTouched(d) ==
    d \notin bits /\ touched[d] \cap {"primary", "bits"} = {} =>
        \A b \in Comebacks(store["primary"]) : b[d] = Find(store["primary"], d)

OnePlace(T) == \A x, y \in T : x = y

(* A document touched in one place comes back as it may have been: from    *)
(* the logs as they are, or flushed as it is found now.                    *)
Whole(d) ==
    OnePlace(touched[d]) =>
        IF d \in bitsDisk THEN NoDoc \in may[d]
        ELSE \A c \in Comebacks(store["delta"]) :
                 /\ Read(Find(store["primary"], d), c[d]) \in may[d]
                 /\ \A b \in Comebacks(store["primary"]) : Read(b[d], c[d]) \in may[d]

Tracked(d) ==
    /\ BitsTouched(d) /\ DeltaTouched(d) /\ PrimaryTouched(d)
    /\ logical[d] \in may[d]
    /\ Whole(d)

(* What the first half of a put or a deletion has touched. *)
HalfTouched ==
    call.at = "cover" =>
        LET o == Head(call.todo)
        IN  IF o.kind = "delete" /\ ~mode.bitmap
            THEN \A b \in Comebacks(store["primary"]) : b[o.doc] = 0
            ELSE /\ o.kind = "put" => "primary" \in touched[o.doc]
                 /\ o.doc \in bits => "bits" \in touched[o.doc]
                 /\ Find(store["delta"], o.doc) # 0 => "delta" \in touched[o.doc]

TrackInv == HalfTouched /\ \A d \in Doc : Tracked(d)

-----------------------------------------------------------------------------
(* Reads: the steps                                                        *)

(* What is read goes by what is found in the two families. *)
LEMMA ReadIs ==
    ASSUME NEW d
    PROVE  /\ ReadThrough(d) = Read(Find(store["primary"], d), Find(store["delta"], d))
           /\ ReadThrough(d)' = Read(Find(store'["primary"], d), Find(store'["delta"], d))
BY DEF ReadThrough, Read

LEMMA ViewShown ==
    ASSUME TypeOK, Clear, Cached, NEW d \in Doc \ lost
    PROVE  View(d) = IF d \in bits THEN NoDoc ELSE ReadThrough(d)
BY ViewParts DEF Clear, Cached

LEMMA InitReads == Init => ReadInv
<1> SUFFICES ASSUME Init PROVE ReadInv
    OBVIOUS
<1>1. \A d \in Doc : ReadThrough(d) = NoDoc
    <2> TAKE d \in Doc
    <2>1. EmptyStore.mem[d] = <<>> /\ EmptyStore.seg[d] = <<>>
        BY DEF EmptyStore
    <2>2. Find(EmptyStore, d) = 0
        <3>1. <<>> \o <<>> \o <<0>> = <<0>> /\ Head(<<0>>) = 0
            OBVIOUS
        <3> QED
            BY <2>1, <3>1 DEF Find
    <2>3. store["primary"] = EmptyStore
        BY DEF Init, Family
    <2> QED
        BY <2>2, <2>3, ReadIs DEF Read
<1>2. /\ bits = {} /\ bitsDisk = {} /\ call.at = "idle"
      /\ \A d \in Doc : hot[d] = <<>> /\ logical[d] = NoDoc
    BY DEF Init, Idle
<1> QED
    BY <1>1, <1>2 DEF ReadInv, BitsUsed, Clear, Cached, Shown, HalfDone, Halfway

(* Steps that write no document: what is found stays, or is deleted and    *)
(* nobody is halfway through a call.                                       *)
LEMMA QuietReads ==
    ASSUME TypeOK, ReadInv, UNCHANGED <<mode, bits, logical, lost>>,
           bitsDisk' \subseteq bits \cup bitsDisk,
           call' = call \/ (call.at # "cover" /\ call'.at # "cover"),
           \A d \in Doc : \/ hot'[d] = <<>> \/ hot'[d] = hot[d]
                          \/ hot'[d] = <<ReadThrough(d)>> /\ d \notin bits /\ call.at # "cover",
           \A d \in Doc : d \notin bits \/ call.at = "cover" =>
                /\ Find(store'["primary"], d) = Find(store["primary"], d)
                /\ Find(store'["delta"], d) = Find(store["delta"], d)
    PROVE  ReadInv'
<1>1. BitsUsed'
    BY DEF ReadInv, BitsUsed
<1>2. \A d \in Doc : Halfway(d)' <=> Halfway(d)
    BY DEF Halfway
<1>3. \A d \in Doc : d \notin bits => ReadThrough(d)' = ReadThrough(d)
    BY ReadIs
<1>4. Clear'
    BY <1>2 DEF ReadInv, Clear, Halfway
<1>5. Cached'
    <2> SUFFICES ASSUME NEW d \in Doc \ lost PROVE hot'[d] = <<>> \/ hot'[d] = <<ReadThrough(d)'>>
        BY DEF Cached
    <2>1. CASE d \in bits
        BY <2>1 DEF ReadInv, Clear
    <2>2. CASE d \notin bits
        BY <1>3, <2>2 DEF ReadInv, Cached
    <2> QED
        BY <2>1, <2>2
<1>6. Shown'
    BY <1>2, <1>3 DEF ReadInv, Shown
<1>7. HalfDone'
    <2> SUFFICES ASSUME call'.at = "cover" PROVE HalfDone'
        BY DEF HalfDone
    <2>1. call' = call /\ call.at = "cover"
        OBVIOUS
    <2>2. Head(call.todo).doc \in Doc
        BY <2>1, HeadOp DEF ReadInv, HalfDone
    <2> QED
        BY <2>1, <2>2 DEF ReadInv, HalfDone
<1> QED
    BY <1>1, <1>4, <1>5, <1>6, <1>7 DEF ReadInv

(* One document is written, and nothing is found changed of others. *)
LEMMA OthersRead ==
    ASSUME ReadInv, NEW e \in Doc, UNCHANGED <<mode, lost>>,
           \A d \in Doc \ {e} : /\ Find(store'["primary"], d) = Find(store["primary"], d)
                                /\ Find(store'["delta"], d) = Find(store["delta"], d)
                                /\ (d \in bits' <=> d \in bits)
                                /\ hot'[d] = hot[d] /\ logical'[d] = logical[d]
                                /\ ~Halfway(d) /\ ~Halfway(d)',
           Halfway(e)' => hot'[e] = <<>>,
           e \in bits' => hot'[e] = <<>>,
           hot'[e] = <<>> \/ hot'[e] = <<ReadThrough(e)>>',
           Halfway(e)' \/ e \in lost \/ logical'[e] = IF e \in bits' THEN NoDoc ELSE ReadThrough(e)'
    PROVE  Clear' /\ Cached' /\ Shown'
<1>1. \A d \in Doc \ {e} : ReadThrough(d)' = ReadThrough(d)
    BY ReadIs
<1>2. Clear'
    BY DEF ReadInv, Clear
<1>3. Cached'
    BY <1>1 DEF ReadInv, Cached
<1>4. Shown'
    BY <1>1 DEF ReadInv, Shown
<1> QED
    BY <1>2, <1>3, <1>4

(* put_nosync, first half. *)
LEMMA PutPrimaryReads ==
    ASSUME TypeOK, ReadInv, PutPrimary
    PROVE  ReadInv'
<1> DEFINE o == Head(call.todo)
<1>1. /\ call.at = "op" /\ call.todo # <<>> /\ o.kind = "put"
      /\ hot' = [hot EXCEPT ![o.doc] = <<>>]
      /\ call' = [call EXCEPT !.at = "cover"]
      /\ logical' = [logical EXCEPT ![o.doc] = [base |-> o.version, patch |-> 0]]
      /\ UNCHANGED <<mode, bits, bitsDisk, lost>>
    BY DEF PutPrimary, Here, Becomes, Invalidate
<1>2. /\ o.doc \in Doc /\ o.version \in Version /\ o.version # 0
    BY <1>1, HeadOp
<1>3. /\ call'.at = "cover" /\ call'.todo = call.todo
    BY <1>1 DEF TypeOK, Calls
<1>4. \A d \in Doc : (Halfway(d)' <=> d = o.doc) /\ ~Halfway(d)
    BY <1>1, <1>3 DEF Halfway
<1>5. /\ \A d \in Doc : Find(store'["primary"], d) =
                            IF d = o.doc THEN o.version ELSE Find(store["primary"], d)
      /\ store'["delta"] = store["delta"]
    <2>1. PICK s \in PutBytes(store["primary"], o.doc, o.version) :
              store' = [store EXCEPT !["primary"] = s]
        BY DEF PutPrimary
    <2>2. GoodStore(store["primary"]) /\ store'["primary"] = s /\ store'["delta"] = store["delta"]
        BY <2>1 DEF TypeOK, GoodStore, Family
    <2> QED
        BY <1>2, <2>1, <2>2, PutStore
<1> HIDE DEF o
<1>6. Clear' /\ Cached' /\ Shown'
    <2>1. hot'[o.doc] = <<>> /\ \A d \in Doc \ {o.doc} : hot'[d] = hot[d] /\ logical'[d] = logical[d]
        BY <1>1, <1>2 DEF TypeOK
    <2> QED
        BY <1>1, <1>2, <1>4, <1>5, <2>1, OthersRead
<1>7. BitsUsed'
    BY <1>1 DEF ReadInv, BitsUsed
<1>8. HalfDone'
    <2>1. logical'[o.doc] = [base |-> o.version, patch |-> 0]
        BY <1>1, <1>2 DEF TypeOK
    <2> QED
        BY <1>1, <1>2, <1>3, <1>5, <2>1 DEF HalfDone, o
<1> QED
    BY <1>6, <1>7, <1>8 DEF ReadInv

(* put_nosync, second half. *)
LEMMA PutCoverReads ==
    ASSUME TypeOK, ReadInv, PutCover
    PROVE  ReadInv'
<1>0. PICK o : o = Head(call.todo)
    OBVIOUS
<1> DEFINE whole == [base |-> o.version, patch |-> 0]
<1>1. /\ call.at = "cover" /\ call.todo # <<>> /\ o.kind = "put"
      /\ store' = [store EXCEPT !["delta"] = Covered(@, o.doc)]
      /\ bits' = bits \ {o.doc}
      /\ hot' = [hot EXCEPT ![o.doc] = <<whole>>]
      /\ OpDone
      /\ UNCHANGED <<mode, bitsDisk, logical, lost>>
    BY <1>0 DEF PutCover, Here, histVars
<1>2. /\ o.doc \in Doc /\ o.version \in Version /\ o.version # 0
    BY <1>0, <1>1, HeadOp
<1>3. call'.at # "cover"
    BY <1>1, CallTyped
<1>4. \A d \in Doc : ~Halfway(d)' /\ (Halfway(d) <=> d = o.doc)
    BY <1>0, <1>1, <1>3 DEF Halfway
<1>5. Find(store["primary"], o.doc) = o.version /\ logical[o.doc] = whole
    BY <1>0, <1>1 DEF ReadInv, HalfDone
<1> HIDE DEF whole
<1>6. /\ \A d \in Doc : Find(store'["primary"], d) = Find(store["primary"], d)
      /\ \A d \in Doc : Find(store'["delta"], d) =
                            IF d = o.doc THEN 0 ELSE Find(store["delta"], d)
    <2>1. /\ GoodStore(store["delta"]) /\ store'["delta"] = Covered(store["delta"], o.doc)
          /\ store'["primary"] = store["primary"]
        BY <1>1 DEF TypeOK, GoodStore, Family
    <2> QED
        BY <1>2, <2>1, CoveredStore
<1>7. ReadThrough(o.doc)' = whole
    <2>1. /\ Find(store'["primary"], o.doc) = o.version
          /\ Find(store'["delta"], o.doc) = 0
        BY <1>2, <1>5, <1>6
    <2>2. ReadThrough(o.doc)' = Read(Find(store'["primary"], o.doc), Find(store'["delta"], o.doc))
        BY ReadIs
    <2> QED
        BY <1>2, <2>1, <2>2 DEF Read, whole
<1>8. Clear' /\ Cached' /\ Shown'
    <2>1. hot'[o.doc] = <<whole>> /\ \A d \in Doc \ {o.doc} : hot'[d] = hot[d]
        BY <1>1, <1>2 DEF TypeOK
    <2>2. o.doc \notin bits' /\ \A d \in Doc \ {o.doc} : d \in bits' <=> d \in bits
        BY <1>1
    <2> QED
        BY <1>1, <1>2, <1>4, <1>5, <1>6, <1>7, <2>1, <2>2, OthersRead
<1>9. BitsUsed'
    BY <1>1 DEF ReadInv, BitsUsed
<1>10. HalfDone'
    BY <1>3 DEF HalfDone
<1> QED
    BY <1>8, <1>9, <1>10 DEF ReadInv

(* delete, first half. *)
LEMMA DeletePrimaryReads ==
    ASSUME TypeOK, ReadInv, DeletePrimary
    PROVE  ReadInv'
<1> DEFINE o == Head(call.todo)
<1>1. /\ call.at = "op" /\ call.todo # <<>> /\ o.kind = "delete"
      /\ hot' = [hot EXCEPT ![o.doc] = <<>>]
      /\ call' = [call EXCEPT !.at = "cover"]
      /\ logical' = [logical EXCEPT ![o.doc] = NoDoc]
      /\ UNCHANGED <<mode, bitsDisk, lost>>
    BY DEF DeletePrimary, Here, Becomes, Invalidate
<1>2. o.doc \in Doc
    BY <1>1, HeadOp
<1>3. /\ call'.at = "cover" /\ call'.todo = call.todo
    BY <1>1 DEF TypeOK, Calls
<1>4. \A d \in Doc : (Halfway(d)' <=> d = o.doc) /\ ~Halfway(d)
    BY <1>1, <1>3 DEF Halfway
<1>5. /\ GoodStore(store["primary"]) /\ "primary" \in Family /\ "delta" \in Family
      /\ store = [f \in Family |-> store[f]] /\ 0 \in Version
    BY BoundsAssumption DEF TypeOK, GoodStore, Family, Version
<1>6. /\ \A d \in Doc \ {o.doc} : Find(store'["primary"], d) = Find(store["primary"], d)
      /\ store'["delta"] = store["delta"]
      /\ IF mode.bitmap THEN bits' = bits \cup {o.doc}
         ELSE bits' = bits /\ Find(store'["primary"], o.doc) = 0
    <2>1. CASE mode.bitmap
        <3>1. /\ bits' = bits \cup {o.doc}
              /\ store' = [store EXCEPT !["primary"] = Logged(store["primary"], o.doc, 0)]
            BY <2>1 DEF DeletePrimary
        <3>2. \A d \in Doc : Find(Logged(store["primary"], o.doc, 0), d) = Find(store["primary"], d)
            BY <1>2, <1>5, LoggedStore
        <3> QED
            BY <1>5, <2>1, <3>1, <3>2
    <2>2. CASE ~mode.bitmap
        <3>1. /\ bits' = bits
              /\ store' = [store EXCEPT !["primary"] = Synced(Written(store["primary"], o.doc, 0))]
            BY <2>2 DEF DeletePrimary
        <3>2. \A d \in Doc : Find(Synced(Written(store["primary"], o.doc, 0)), d) =
                                 IF d = o.doc THEN 0 ELSE Find(store["primary"], d)
            BY <1>2, <1>5, BuriedStore
        <3> QED
            BY <1>2, <1>5, <2>2, <3>1, <3>2
    <2> QED
        BY <2>1, <2>2
<1> HIDE DEF o
<1>7. Clear' /\ Cached' /\ Shown'
    <2>1. hot'[o.doc] = <<>> /\ \A d \in Doc \ {o.doc} : hot'[d] = hot[d] /\ logical'[d] = logical[d]
        BY <1>1, <1>2 DEF TypeOK
    <2>2. \A d \in Doc \ {o.doc} : d \in bits' <=> d \in bits
        BY <1>6
    <2> QED
        BY <1>1, <1>2, <1>4, <1>6, <2>1, <2>2, OthersRead
<1>8. BitsUsed'
    BY <1>1, <1>6 DEF ReadInv, BitsUsed
<1>9. HalfDone'
    <2>1. logical'[o.doc] = NoDoc
        BY <1>1, <1>2 DEF TypeOK
    <2>2. mode' = mode /\ Head(call'.todo) = o /\ o.kind = "delete" /\ call'.todo # <<>>
        BY <1>1, <1>3 DEF o
    <2>3. IF mode.bitmap THEN o.doc \in bits' ELSE Find(store'["primary"], o.doc) = 0
        BY <1>6
    <2> QED
        BY <2>1, <2>2, <2>3 DEF HalfDone
<1> QED
    BY <1>7, <1>8, <1>9 DEF ReadInv

(* delete, second half. *)
LEMMA DeleteCoverReads ==
    ASSUME TypeOK, ReadInv, DeleteCover
    PROVE  ReadInv'
<1>0. PICK o : o = Head(call.todo)
    OBVIOUS
<1>1. /\ call.at = "cover" /\ call.todo # <<>> /\ o.kind = "delete"
      /\ store' = [store EXCEPT !["delta"] = Covered(@, o.doc)]
      /\ OpDone
      /\ UNCHANGED <<mode, bits, bitsDisk, hot, logical, lost>>
    BY <1>0 DEF DeleteCover, Here
<1>2. o.doc \in Doc
    BY <1>0, <1>1, HeadOp
<1>3. call'.at # "cover"
    BY <1>1, CallTyped
<1>4. \A d \in Doc : ~Halfway(d)' /\ (Halfway(d) <=> d = o.doc)
    BY <1>0, <1>1, <1>3 DEF Halfway
<1>5. /\ logical[o.doc] = NoDoc
      /\ IF mode.bitmap THEN o.doc \in bits ELSE Find(store["primary"], o.doc) = 0
    BY <1>0, <1>1 DEF ReadInv, HalfDone
<1>6. /\ \A d \in Doc : Find(store'["primary"], d) = Find(store["primary"], d)
      /\ \A d \in Doc \ {o.doc} : Find(store'["delta"], d) = Find(store["delta"], d)
    <2>1. /\ GoodStore(store["delta"]) /\ store'["delta"] = Covered(store["delta"], o.doc)
          /\ store'["primary"] = store["primary"]
        BY <1>1 DEF TypeOK, GoodStore, Family
    <2> QED
        BY <1>2, <2>1, CoveredStore
<1>7. o.doc \in bits \/ ReadThrough(o.doc)' = NoDoc
    <2>1. o.doc \in bits \/ Find(store'["primary"], o.doc) = 0
        BY <1>2, <1>5, <1>6 DEF ReadInv, BitsUsed
    <2>2. ReadThrough(o.doc)' = Read(Find(store'["primary"], o.doc), Find(store'["delta"], o.doc))
        BY ReadIs
    <2> QED
        BY <2>1, <2>2 DEF Read
<1>8. hot[o.doc] = <<>>
    BY <1>2, <1>4 DEF ReadInv, Clear
<1>9. Clear' /\ Cached' /\ Shown'
    BY <1>1, <1>2, <1>4, <1>5, <1>6, <1>7, <1>8, OthersRead
<1>10. BitsUsed' /\ HalfDone'
    BY <1>1, <1>3 DEF ReadInv, BitsUsed, HalfDone
<1> QED
    BY <1>9, <1>10 DEF ReadInv

(* patch. *)
LEMMA PatchDeltaReads ==
    ASSUME TypeOK, ReadInv, PatchDelta
    PROVE  ReadInv'
<1>0. PICK o : o = Head(call.todo)
    OBVIOUS
<1>1. /\ call.at = "op" /\ call.todo # <<>>
      /\ hot' = [hot EXCEPT ![o.doc] = <<>>]
      /\ logical' = [logical EXCEPT ![o.doc] =
                        IF logical[o.doc] = NoDoc THEN NoDoc
                        ELSE [logical[o.doc] EXCEPT !.patch = o.version]]
      /\ OpDone
      /\ UNCHANGED <<mode, bits, bitsDisk, lost>>
    BY <1>0 DEF PatchDelta, Here, Becomes, Invalidate
<1>2. o.doc \in Doc /\ o.version \in Version
    BY <1>0, <1>1, HeadOp
<1>3. call'.at # "cover"
    BY <1>1, CallTyped
<1>4. \A d \in Doc : ~Halfway(d)' /\ ~Halfway(d)
    BY <1>0, <1>1, <1>3 DEF Halfway
<1>5. /\ \A d \in Doc : Find(store'["delta"], d) =
                            IF d = o.doc THEN o.version ELSE Find(store["delta"], d)
      /\ \A d \in Doc : Find(store'["primary"], d) = Find(store["primary"], d)
    <2>1. PICK s \in PutBytes(store["delta"], o.doc, o.version) :
              store' = [store EXCEPT !["delta"] = s]
        BY <1>0 DEF PatchDelta
    <2>2. GoodStore(store["delta"]) /\ store'["delta"] = s /\ store'["primary"] = store["primary"]
        BY <2>1 DEF TypeOK, GoodStore, Family
    <2> QED
        BY <1>2, <2>1, <2>2, PutStore
<1>6. o.doc \in lost \/ logical'[o.doc] = IF o.doc \in bits THEN NoDoc ELSE ReadThrough(o.doc)'
    <2> SUFFICES ASSUME o.doc \notin lost
                 PROVE  logical'[o.doc] = IF o.doc \in bits THEN NoDoc ELSE ReadThrough(o.doc)'
        OBVIOUS
    <2> DEFINE p == Find(store["primary"], o.doc)
               q == Find(store["delta"], o.doc)
    <2>1. logical[o.doc] = IF o.doc \in bits THEN NoDoc ELSE Read(p, q)
        BY <1>2, <1>4, ReadIs DEF ReadInv, Shown
    <2>2. ReadThrough(o.doc)' = Read(p, o.version)
        <3>1. Find(store'["primary"], o.doc) = p /\ Find(store'["delta"], o.doc) = o.version
            BY <1>2, <1>5
        <3> QED
            BY <3>1, ReadIs
    <2>3. logical'[o.doc] = IF logical[o.doc] = NoDoc THEN NoDoc
                            ELSE [logical[o.doc] EXCEPT !.patch = o.version]
        BY <1>1, <1>2 DEF TypeOK
    <2>4. CASE o.doc \in bits
        BY <2>1, <2>3, <2>4
    <2>5. CASE o.doc \notin bits /\ p = 0
        BY <2>1, <2>2, <2>3, <2>5 DEF Read
    <2>6. CASE o.doc \notin bits /\ p # 0
        <3>1. logical[o.doc] = [base |-> p, patch |-> q] /\ logical[o.doc] # NoDoc
            BY <2>1, <2>6 DEF Read, NoDoc
        <3>2. logical'[o.doc] = [base |-> p, patch |-> o.version]
            BY <2>3, <3>1
        <3> QED
            BY <2>2, <2>6, <3>2 DEF Read
    <2> QED
        BY <2>4, <2>5, <2>6
<1>7. Clear' /\ Cached' /\ Shown'
    <2>1. hot'[o.doc] = <<>> /\ \A d \in Doc \ {o.doc} : hot'[d] = hot[d] /\ logical'[d] = logical[d]
        BY <1>1, <1>2 DEF TypeOK
    <2> QED
        BY <1>1, <1>2, <1>4, <1>5, <1>6, <2>1, OthersRead
<1>8. BitsUsed' /\ HalfDone'
    BY <1>1, <1>3 DEF ReadInv, BitsUsed, HalfDone
<1> QED
    BY <1>7, <1>8 DEF ReadInv

(* Everything but the writes, errors and restarts. *)
LEMMA OtherReads ==
    ASSUME TypeOK, ReadInv, mode.bitmap => ~mode.worker,
           \/ UNCHANGED vars
           \/ \E d \in Doc : put(d) \/ patch(d) \/ delete(d) \/ get(d) \/ Evict(d) \/ Compact(d)
           \/ write \/ flush_wal
           \/ FlushBits \/ SyncPrimary \/ SyncDelta \/ FlushPrimary
           \/ \E f \in Family : GroupCommit(f)
    PROVE  ReadInv'
<1>1. /\ \A f \in Family : GoodStore(store[f])
      /\ store \in [Family -> StoreSet] /\ "primary" \in Family /\ "delta" \in Family
    BY DEF TypeOK, GoodStore, Family
<1>2. Idle.at # "cover"
    BY DEF Idle
<1>3. CASE \/ UNCHANGED vars
           \/ \E d \in Doc : put(d) \/ patch(d) \/ delete(d)
           \/ write \/ flush_wal \/ FlushBits
    <2>1. /\ UNCHANGED <<mode, store, bits, hot, logical, lost>>
          /\ bitsDisk' = bitsDisk \/ bitsDisk' = bits
          /\ call' = call \/ (call.at # "cover" /\ call'.at # "cover")
        <3>1. CASE UNCHANGED vars
            BY <3>1 DEF vars, histVars
        <3>2. CASE \E d \in Doc : put(d) \/ patch(d) \/ delete(d)
            BY <1>2, <3>2 DEF put, patch, delete, Start
        <3>3. CASE write
            BY <1>2, <3>3 DEF write, Start
        <3>4. CASE flush_wal
            <4>1. [Idle EXCEPT !.at = "bits", !.sync = TRUE].at = "bits"
                BY DEF Idle
            <4> QED
                BY <1>2, <3>4, <4>1 DEF flush_wal, histVars
        <3>5. CASE FlushBits
            <4>1. [call EXCEPT !.at = "primary"].at = "primary"
                BY DEF TypeOK, Calls
            <4> QED
                BY <3>5, <4>1 DEF FlushBits, histVars
        <3> QED
            BY <1>3, <3>1, <3>2, <3>3, <3>4, <3>5
    <2>2. bitsDisk' \subseteq bits \cup bitsDisk
        BY <2>1
    <2>3. \A d \in Doc : hot'[d] = hot[d]
        BY <2>1
    <2>4. \A d \in Doc : /\ Find(store'["primary"], d) = Find(store["primary"], d)
                         /\ Find(store'["delta"], d) = Find(store["delta"], d)
        BY <2>1
    <2> QED
        BY <2>1, <2>2, <2>3, <2>4, QuietReads
<1>4. CASE \/ SyncPrimary \/ SyncDelta \/ FlushPrimary \/ \E f \in Family : GroupCommit(f)
    <2>1. /\ UNCHANGED <<mode, bits, bitsDisk, hot, logical, lost>>
          /\ call' = call \/ (call.at # "cover" /\ call'.at # "cover")
          /\ \E f \in Family : store' = [store EXCEPT ![f] = Synced(@)]
                               \/ store' = [store EXCEPT ![f] = Flushed(@)]
        <3>1. CASE SyncPrimary
            <4>1. [call EXCEPT !.at = "delta"].at = "delta"
                BY DEF TypeOK, Calls
            <4> QED
                BY <1>1, <3>1, <4>1 DEF SyncPrimary, histVars
        <3>2. CASE SyncDelta
            BY <1>1, <1>2, <3>2 DEF SyncDelta
        <3>3. CASE FlushPrimary
            BY <1>1, <1>2, <3>3 DEF FlushPrimary, histVars
        <3>4. CASE \E f \in Family : GroupCommit(f)
            BY <3>4 DEF GroupCommit
        <3> QED
            BY <1>4, <3>1, <3>2, <3>3, <3>4
    <2>2. PICK f \in Family : store' = [store EXCEPT ![f] = Synced(@)]
                               \/ store' = [store EXCEPT ![f] = Flushed(@)]
        BY <2>1
    <2>3. \A g \in Family, d \in Doc : Find(store'[g], d) = Find(store[g], d)
        <3> SUFFICES ASSUME NEW g \in Family, NEW d \in Doc
                     PROVE  Find(store'[g], d) = Find(store[g], d)
            OBVIOUS
        <3>1. CASE g = f
            <4>1. /\ Find(Synced(store[f]), d) = Find(store[f], d)
                  /\ Find(Flushed(store[f]), d) = Find(store[f], d)
                BY <1>1, SyncedStore, FlushedStore
            <4>2. store'[f] = Synced(store[f]) \/ store'[f] = Flushed(store[f])
                BY <1>1, <2>2
            <4> QED
                BY <3>1, <4>1, <4>2
        <3>2. CASE g # f
            BY <1>1, <2>2, <3>2
        <3> QED
            BY <3>1, <3>2
    <2>4. \A d \in Doc : /\ Find(store'["primary"], d) = Find(store["primary"], d)
                         /\ Find(store'["delta"], d) = Find(store["delta"], d)
        BY <1>1, <2>3
    <2>5. bitsDisk' \subseteq bits \cup bitsDisk /\ \A d \in Doc : hot'[d] = hot[d]
        BY <2>1
    <2> QED
        BY <2>1, <2>4, <2>5, QuietReads
<1>5. ASSUME NEW d \in Doc, get(d) \/ Evict(d) PROVE ReadInv'
    <2>1. /\ UNCHANGED <<mode, store, bits, bitsDisk, logical, call, lost>>
          /\ \A e \in Doc : \/ hot'[e] = <<>> \/ hot'[e] = hot[e]
                            \/ hot'[e] = <<ReadThrough(e)>> /\ e \notin bits /\ call.at # "cover"
        <3>1. CASE get(d)
            BY <1>2, <3>1 DEF get, TypeOK, histVars
        <3>2. CASE Evict(d)
            BY <3>2 DEF Evict, TypeOK, histVars
        <3> QED
            BY <1>5, <3>1, <3>2
    <2>2. \A e \in Doc : /\ Find(store'["primary"], e) = Find(store["primary"], e)
                         /\ Find(store'["delta"], e) = Find(store["delta"], e)
        BY <2>1
    <2>3. bitsDisk' \subseteq bits \cup bitsDisk
        BY <2>1
    <2> QED
        BY <2>1, <2>2, <2>3, QuietReads
<1>6. ASSUME NEW d \in Doc, Compact(d) PROVE ReadInv'
    <2>1. /\ d \in bits
          /\ (mode.worker \/ call.at # "cover")
          /\ UNCHANGED <<mode, bits, bitsDisk, hot, call, logical, lost>>
        BY <1>6 DEF Compact
    <2>2. call.at # "cover"
        BY <2>1 DEF ReadInv, BitsUsed
    <2>3. PICK n \in 1..Len(store["primary"].seg[d]) :
              store' = [store EXCEPT !["primary"].seg[d] = SubSeq(@, n + 1, Len(@))]
        BY <1>6 DEF Compact
    <2>4. PICK r : r = [store["primary"] EXCEPT !.seg[d] = SubSeq(@, n + 1, Len(@))]
        OBVIOUS
    <2>5. store' = [store EXCEPT !["primary"] = r]
        BY <2>3, <2>4
    <2>6. store'["primary"] = r /\ store'["delta"] = store["delta"]
        BY <1>1, <2>5
    <2>7. \A e \in Doc \ {d} : Find(r, e) = Find(store["primary"], e)
        <3>1. PICK s : s = store["primary"] /\ GoodStore(s)
            BY <1>1
        <3>2. n \in 1..Len(s.seg[d])
            BY <2>3, <3>1
        <3>3. r = [s EXCEPT !.seg[d] = SubSeq(@, n + 1, Len(@))]
            BY <2>4, <3>1
        <3>4. \A e \in Doc \ {d} : Find(r, e) = Find(s, e)
            BY <3>1, <3>2, <3>3, CutStore
        <3> QED
            BY <3>1, <3>4
    <2>8. \A e \in Doc : e \notin bits \/ call.at = "cover" =>
              /\ Find(store'["primary"], e) = Find(store["primary"], e)
              /\ Find(store'["delta"], e) = Find(store["delta"], e)
        <3> SUFFICES ASSUME NEW e \in Doc, e \notin bits
                     PROVE  /\ Find(store'["primary"], e) = Find(store["primary"], e)
                            /\ Find(store'["delta"], e) = Find(store["delta"], e)
            BY <2>2
        <3>1. e \in Doc \ {d}
            BY <2>1
        <3> QED
            BY <2>6, <2>7, <3>1
    <2>9. bitsDisk' \subseteq bits \cup bitsDisk /\ \A e \in Doc : hot'[e] = hot[e]
        BY <2>1
    <2> QED
        BY <2>1, <2>8, <2>9, QuietReads
<1> QED
    BY <1>3, <1>4, <1>5, <1>6

(* An error: the document is what is read of it. *)
LEMMA FailReads ==
    ASSUME TypeOK, ReadInv, Fail
    PROVE  ReadInv'
<1>1. /\ call'.at = "idle" /\ UNCHANGED <<mode, store, bits, bitsDisk, hot, lost>>
      /\ \A d \in Doc : logical'[d] = View(d)
    BY DEF Fail, Idle
<1>2. \A d \in Doc : ~Halfway(d)' /\ ReadThrough(d)' = ReadThrough(d)
    BY <1>1, ReadIs DEF Halfway
<1>3. \A d \in Doc \ lost : logical'[d] = IF d \in bits THEN NoDoc ELSE ReadThrough(d)
    BY <1>1, ViewShown DEF ReadInv
<1>4. BitsUsed' /\ HalfDone'
    BY <1>1 DEF ReadInv, BitsUsed, HalfDone
<1>5. Clear' /\ Cached' /\ Shown'
    BY <1>1, <1>2, <1>3 DEF ReadInv, Clear, Cached, Shown
<1> QED
    BY <1>4, <1>5 DEF ReadInv

(* A restart. *)
LEMMA CrashReads ==
    ASSUME TypeOK, ReadInv, Crash
    PROVE  ReadInv'
<1>1. /\ call'.at = "idle" /\ bits' = bitsDisk /\ UNCHANGED <<mode, bitsDisk>>
      /\ \A d \in Doc : hot'[d] = <<>>
    BY DEF Crash, Idle
<1>2. \A d \in Doc : ~Halfway(d)'
    BY <1>1 DEF Halfway
<1>3. \A d \in Doc : logical'[d] = View(d)'
    BY DEF Crash
<1>4. \A d \in Doc : logical'[d] = IF d \in bits' THEN NoDoc ELSE ReadThrough(d)'
    BY <1>1, <1>3, CrashViews
<1>5. BitsUsed' /\ HalfDone'
    BY <1>1 DEF ReadInv, BitsUsed, HalfDone
<1>6. Clear' /\ Cached' /\ Shown'
    BY <1>1, <1>2, <1>4 DEF Clear, Cached, Shown
<1> QED
    BY <1>5, <1>6 DEF ReadInv

(* A failed flush: what it has dropped is no longer spoken of. *)
LEMMA FlushFailsReads ==
    ASSUME TypeOK, ReadInv, FlushFails
    PROVE  ReadInv'
<1>1. /\ call'.at = "idle" /\ call.at # "cover"
      /\ UNCHANGED <<mode, bits, bitsDisk, logical>>
    BY DEF FlushFails, Idle, Here
<1>2. /\ lost \subseteq lost'
      /\ \A d \in Doc : hot'[d] = hot[d] \/ hot'[d] = <<>>
      /\ \A d \in Doc \ lost' : \A g \in Family : Find(store'[g], d) = Find(store[g], d)
    BY FlushFailsIs
<1>3. \A d \in Doc : ~Halfway(d)' /\ ~Halfway(d)
    BY <1>1 DEF Halfway
<1>4. \A d \in Doc \ lost' : ReadThrough(d)' = ReadThrough(d)
    BY <1>2, ReadIs, Families
<1>5. BitsUsed' /\ HalfDone'
    BY <1>1 DEF ReadInv, BitsUsed, HalfDone
<1>6. Clear'
    BY <1>1, <1>2, <1>3 DEF ReadInv, Clear
<1>7. Cached' /\ Shown'
    BY <1>1, <1>2, <1>3, <1>4 DEF ReadInv, Cached, Shown
<1> QED
    BY <1>5, <1>6, <1>7 DEF ReadInv

LEMMA StepReads ==
    TypeOK /\ ReadInv /\ (mode.bitmap => ~mode.worker) /\ [Next]_vars => ReadInv'
<1> SUFFICES ASSUME TypeOK, ReadInv, mode.bitmap => ~mode.worker, [Next]_vars PROVE ReadInv'
    OBVIOUS
<1>1. CASE PutPrimary \/ PutCover \/ DeletePrimary \/ DeleteCover \/ PatchDelta
    BY <1>1, PutPrimaryReads, PutCoverReads, DeletePrimaryReads, DeleteCoverReads, PatchDeltaReads
<1>2. CASE Fail \/ FlushFails \/ Crash
    BY <1>2, FailReads, FlushFailsReads, CrashReads
<1>3. CASE \/ UNCHANGED vars
           \/ \E d \in Doc : put(d) \/ patch(d) \/ delete(d) \/ get(d) \/ Evict(d) \/ Compact(d)
           \/ write \/ flush_wal
           \/ FlushBits \/ SyncPrimary \/ SyncDelta \/ FlushPrimary
           \/ \E f \in Family : GroupCommit(f)
    BY <1>3, OtherReads
<1> QED
    BY <1>1, <1>2, <1>3 DEF Next

LEMMA IdleReads == TypeOK /\ ReadInv => ReadsLast
<1> SUFFICES ASSUME TypeOK, ReadInv, call = Idle, NEW d \in Doc \ lost PROVE View(d) = logical[d]
    BY DEF ReadsLast
<1>1. ~Halfway(d)
    BY DEF Halfway, Idle
<1> QED
    BY <1>1, ViewShown DEF ReadInv, Shown

(* Between calls every read finds what the calls have written, where the   *)
(* deletion bitmap is not used beside the compaction worker.               *)
THEOREM LastIsRead ==
    ASSUME Apart
    PROVE  Spec => []ReadsLast
<1>1. Init => TypeOK /\ ReadInv
    BY InitTyped, InitReads
<1>2. TypeOK /\ ReadInv /\ [Next]_vars => (TypeOK /\ ReadInv)'
    BY StepTyped, StepReads DEF Apart, TypeOK
<1>3. TypeOK /\ ReadInv => ReadsLast
    BY IdleReads
<1> QED
    BY <1>1, <1>2, <1>3, PTL DEF Spec

-----------------------------------------------------------------------------
(* The order of the primary log                                            *)

OrderInv == BitsUsed /\ LogsInMemory /\ InOrder /\ Flushing

LEMMA BitsStep == TypeOK /\ BitsUsed /\ [Next]_vars => BitsUsed' /\ mode' = mode
<1> SUFFICES ASSUME TypeOK, BitsUsed, [Next]_vars PROVE BitsUsed' /\ mode' = mode
    OBVIOUS
<1>1. CASE UNCHANGED <<mode, bits, bitsDisk>>
    BY <1>1 DEF BitsUsed
<1>2. CASE PutCover \/ FlushBits \/ Crash
    BY <1>2 DEF BitsUsed, PutCover, FlushBits, Crash
<1>3. CASE DeletePrimary
    BY <1>3 DEF BitsUsed, DeletePrimary
<1>4. CASE \/ PutPrimary \/ DeleteCover \/ PatchDelta \/ SyncPrimary \/ SyncDelta
           \/ FlushPrimary \/ Fail \/ FlushFails \/ flush_wal \/ UNCHANGED vars
           \/ \E f \in Family : GroupCommit(f)
    BY <1>1, <1>4 DEF PutPrimary, DeleteCover, PatchDelta, SyncPrimary, SyncDelta,
           FlushPrimary, Fail, FlushFails, flush_wal, vars, GroupCommit
<1>5. CASE \/ \E d \in Doc : put(d) \/ patch(d) \/ delete(d) \/ get(d) \/ Evict(d) \/ Compact(d)
           \/ write
    BY <1>1, <1>5 DEF put, patch, delete, get, Evict, Compact, write, Start
<1> QED
    BY <1>2, <1>3, <1>4, <1>5 DEF Next

(* Steps that change no more of the families than what is on disk, or put  *)
(* the memtable into a segment.                                            *)
LEMMA KeptOrder ==
    ASSUME OrderInv, BitsUsed', mode' = mode, bits' = bits,
           past' = past \/ (~mode.bitmap => Comebacks(store'["primary"]) \subseteq past'),
           \A f \in Family : \A d \in Doc : Remembers(store[f], d) => Remembers(store'[f], d),
           ~mode.bitmap => Comebacks(store'["primary"]) \subseteq Comebacks(store["primary"]),
           \/ call' = call /\ bitsDisk' = bitsDisk
           \/ call'.at \notin {"cover", "primary", "delta"},
           store["primary"].synced = Len(store["primary"].log) =>
               store'["primary"].synced = Len(store'["primary"].log)
    PROVE  OrderInv'
<1>1. LogsInMemory'
    <2>1. "primary" \in Family /\ "delta" \in Family
        BY DEF Family
    <2>2. \A d \in Doc : Halfway(d)' /\ (Head(call.todo).kind = "put")' =>
                             Halfway(d) /\ Head(call.todo).kind = "put"
        BY DEF Halfway
    <2> QED
        BY <2>1, <2>2 DEF OrderInv, LogsInMemory
<1>2. InOrder'
    BY DEF OrderInv, InOrder
<1>3. Flushing'
    BY DEF OrderInv, Flushing
<1> QED
    BY <1>1, <1>2, <1>3 DEF OrderInv

(* The primary family when nothing of it is deleted by the bitmap.         *)
LEMMA AllInMemory ==
    ASSUME TypeOK, OrderInv, ~mode.bitmap
    PROVE  /\ \A d \in Doc : Remembers(store["primary"], d)
           /\ After(store["primary"], Len(store["primary"].log)) = Finds(store["primary"])
           /\ Finds(store["primary"]) \in Comebacks(store["primary"])
           /\ Finds(store["primary"]) \in past
<1>1. GoodStore(store["primary"])
    BY DEF TypeOK, GoodStore, Family
<1>2. \A d \in Doc : Remembers(store["primary"], d)
    BY DEF OrderInv, BitsUsed, LogsInMemory
<1>3. After(store["primary"], Len(store["primary"].log)) = Finds(store["primary"])
    <2>1. \A d \in Doc : After(store["primary"], Len(store["primary"].log))[d] = Find(store["primary"], d)
        BY <1>1, <1>2, AfterAll
    <2> QED
        BY <2>1 DEF After, Finds
<1>4. Finds(store["primary"]) \in Comebacks(store["primary"])
    BY <1>1, <1>3, AfterAll
<1> QED
    BY <1>2, <1>3, <1>4 DEF OrderInv, InOrder

LEMMA InitOrder == Init => OrderInv
<1> SUFFICES ASSUME Init PROVE OrderInv
    OBVIOUS
<1>1. TypeOK
    BY InitTyped
<1>2. /\ store["primary"] = EmptyStore /\ store["delta"] = EmptyStore /\ GoodStore(EmptyStore)
    BY <1>1 DEF Init, TypeOK, Family, GoodStore
<1>3. EmptyStore.log = <<>> /\ EmptyStore.synced = 0
      /\ \A d \in Doc : EmptyStore.mem[d] = <<>> /\ EmptyStore.seg[d] = <<>>
    BY DEF EmptyStore
<1>4. \A d \in Doc : Remembers(EmptyStore, d) /\ Find(EmptyStore, d) = 0
    <2> TAKE d \in Doc
    <2>1. Newest(<<>>, d) = <<>>
        BY DEF Newest
    <2>2. EmptyStore \in StoreSet
        BY <1>2 DEF GoodStore
    <2> QED
        BY <1>3, <2>1, <2>2, FindParts DEF Remembers
<1>5. LogsInMemory
    BY <1>2, <1>4 DEF LogsInMemory
<1>6. InOrder
    <2>1. Comebacks(EmptyStore) = {Finds(EmptyStore)}
        BY <1>2, <1>3, <1>4, WholeStore
    <2>2. Finds(EmptyStore) = [d \in Doc |-> 0]
        BY <1>4 DEF Finds
    <2> QED
        BY <1>2, <2>1, <2>2 DEF InOrder, Init
<1>7. Flushing /\ BitsUsed
    BY DEF Flushing, BitsUsed, Init, Idle
<1> QED
    BY <1>5, <1>6, <1>7 DEF OrderInv

(* Two families, of which one changes. *)
LEMMA OneChanges ==
    ASSUME TypeOK, NEW f \in Family, NEW r, store' = [store EXCEPT ![f] = r],
           \A d \in Doc : Remembers(store[f], d) => Remembers(r, d)
    PROVE  /\ store'[f] = r /\ \A g \in Family \ {f} : store'[g] = store[g]
           /\ \A g \in Family : GoodStore(store[g])
           /\ \A g \in Family : \A d \in Doc : Remembers(store[g], d) => Remembers(store'[g], d)
BY DEF TypeOK, GoodStore

(* put_nosync, first half: the new version is remembered. *)
LEMMA PutPrimaryOrder ==
    ASSUME TypeOK, OrderInv, BitsUsed', PutPrimary
    PROVE  OrderInv'
<1>0. PICK o : o = Head(call.todo)
    OBVIOUS
<1>1. /\ call.at = "op" /\ call.todo # <<>> /\ o.kind = "put"
      /\ call' = [call EXCEPT !.at = "cover"]
      /\ UNCHANGED <<mode, bits, bitsDisk>>
      /\ past' = IF mode.bitmap THEN past ELSE past \cup {Bases'}
    BY <1>0 DEF PutPrimary, Here, Remember
<1>2. o.doc \in Doc /\ o.version \in Version
    BY <1>0, <1>1, HeadOp
<1>3. /\ call'.at = "cover" /\ call'.todo = call.todo
    BY <1>1 DEF TypeOK, Calls
<1>4. \A d \in Doc : Halfway(d)' => d = o.doc
    BY <1>0, <1>3 DEF Halfway
<1>5. PICK r \in PutBytes(store["primary"], o.doc, o.version) :
          store' = [store EXCEPT !["primary"] = r]
    BY <1>0 DEF PutPrimary
<1>6. PICK s : s = store["primary"] /\ GoodStore(s)
    BY Families
<1>7. /\ GoodStore(r)
      /\ \A d \in Doc : Find(r, d) = IF d = o.doc THEN o.version ELSE Find(s, d)
      /\ \A d \in Doc : d = o.doc \/ Remembers(s, d) => Remembers(r, d)
      /\ \A b \in Comebacks(r) : \/ b \in Comebacks(s)
                                 \/ b = [After(s, Len(s.log)) EXCEPT ![o.doc] = o.version]
                                 \/ b = [Finds(s) EXCEPT ![o.doc] = o.version]
    BY <1>2, <1>5, <1>6, PutStore
<1>8. store'["primary"] = r /\ store'["delta"] = store["delta"]
    BY <1>5 DEF TypeOK, Family
<1>9. LogsInMemory'
    <2>1. \A d \in Doc : Remembers(store'["delta"], d)
        BY <1>8 DEF OrderInv, LogsInMemory
    <2>2. \A d \in Doc : d \notin bits \/ d = o.doc => Remembers(store'["primary"], d)
        BY <1>6, <1>7, <1>8 DEF OrderInv, LogsInMemory
    <2> QED
        BY <1>1, <1>4, <2>1, <2>2 DEF LogsInMemory
<1>10. InOrder'
    <2> SUFFICES ASSUME ~mode.bitmap PROVE Comebacks(r) \subseteq past'
        BY <1>1, <1>8 DEF InOrder
    <2>1. After(s, Len(s.log)) = Finds(s) /\ Comebacks(s) \subseteq past
        BY <1>6, AllInMemory DEF OrderInv, InOrder
    <2>2. Bases' = [Finds(s) EXCEPT ![o.doc] = o.version]
        <3>1. Bases' = Finds(r)
            BY <1>7, <1>8, BasesTyped
        <3> QED
            BY <1>7, <3>1 DEF Finds
    <2>3. past' = past \cup {Bases'}
        BY <1>1
    <2> QED
        BY <1>7, <2>1, <2>2, <2>3
<1>11. Flushing'
    BY <1>3 DEF Flushing
<1> QED
    BY <1>9, <1>10, <1>11 DEF OrderInv

(* delete, first half. *)
LEMMA DeletePrimaryOrder ==
    ASSUME TypeOK, OrderInv, BitsUsed', DeletePrimary
    PROVE  OrderInv'
<1>0. PICK o : o = Head(call.todo)
    OBVIOUS
<1>1. /\ call.at = "op" /\ call.todo # <<>> /\ o.kind = "delete"
      /\ call' = [call EXCEPT !.at = "cover"]
      /\ UNCHANGED <<mode, bitsDisk>>
      /\ past' = IF mode.bitmap THEN past ELSE past \cup {Bases'}
    BY <1>0 DEF DeletePrimary, Here, Remember
<1>2. o.doc \in Doc /\ 0 \in Version
    BY <1>0, <1>1, HeadOp, BoundsAssumption DEF Version
<1>3. /\ call'.at = "cover" /\ call'.todo = call.todo
    BY <1>1 DEF TypeOK, Calls
<1>4. \A d \in Doc : ~(Halfway(d)' /\ Head(call'.todo).kind = "put")
    BY <1>0, <1>1, <1>3 DEF Halfway
<1>6. PICK s : s = store["primary"] /\ GoodStore(s)
    BY Families
<1>7. Flushing'
    BY <1>3 DEF Flushing
<1>8. CASE mode.bitmap
    <2>1. /\ bits' = bits \cup {o.doc}
          /\ store' = [store EXCEPT !["primary"] = Logged(s, o.doc, 0)]
        BY <1>0, <1>6, <1>8 DEF DeletePrimary
    <2>2. \A d \in Doc \ {o.doc} : Remembers(s, d) => Remembers(Logged(s, o.doc, 0), d)
        BY <1>2, <1>6, LoggedStore
    <2>3. store'["primary"] = Logged(s, o.doc, 0) /\ store'["delta"] = store["delta"]
        BY <2>1 DEF TypeOK, Family
    <2>4. LogsInMemory'
        <3>1. \A d \in Doc : Remembers(store'["delta"], d)
            BY <2>3 DEF OrderInv, LogsInMemory
        <3>2. \A d \in Doc : d \notin bits' => Remembers(store'["primary"], d)
            BY <1>6, <2>1, <2>2, <2>3 DEF OrderInv, LogsInMemory
        <3> QED
            BY <1>4, <3>1, <3>2 DEF LogsInMemory
    <2>5. InOrder'
        BY <1>1, <1>8 DEF InOrder
    <2> QED
        BY <1>7, <2>4, <2>5 DEF OrderInv
<1>9. CASE ~mode.bitmap
    <2> DEFINE r == Synced(Written(s, o.doc, 0))
    <2>1. bits' = bits /\ store' = [store EXCEPT !["primary"] = r]
        BY <1>0, <1>6, <1>9 DEF DeletePrimary
    <2>2. \A d \in Doc : Remembers(s, d)
        BY <1>6, <1>9, AllInMemory
    <2>3. /\ GoodStore(r) /\ \A d \in Doc : d = o.doc \/ Remembers(s, d) => Remembers(r, d)
          /\ Comebacks(r) = {Finds(r)}
        BY <1>2, <1>6, <2>2, BuriedStore
    <2>4. store'["primary"] = r /\ store'["delta"] = store["delta"]
        BY <2>1 DEF TypeOK, Family
    <2> HIDE DEF r
    <2>5. LogsInMemory'
        <3>1. \A d \in Doc : Remembers(store'["delta"], d) /\ Remembers(store'["primary"], d)
            BY <2>2, <2>3, <2>4 DEF OrderInv, LogsInMemory
        <3> QED
            BY <3>1 DEF LogsInMemory
    <2>6. InOrder'
        <3>1. Bases' = Finds(store'["primary"])
            BY <2>3, <2>4, BasesTyped
        <3> QED
            BY <1>1, <1>9, <2>3, <2>4, <3>1 DEF InOrder
    <2> QED
        BY <1>7, <2>5, <2>6 DEF OrderInv
<1> QED
    BY <1>8, <1>9

(* put_nosync, second half: what was put is remembered already. *)
LEMMA PutCoverOrder ==
    ASSUME TypeOK, OrderInv, BitsUsed', PutCover
    PROVE  OrderInv'
<1>0. PICK o : o = Head(call.todo)
    OBVIOUS
<1>1. /\ call.at = "cover" /\ call.todo # <<>> /\ o.kind = "put"
      /\ store' = [store EXCEPT !["delta"] = Covered(@, o.doc)]
      /\ bits' = bits \ {o.doc} /\ OpDone
      /\ UNCHANGED <<mode, bitsDisk, past>>
    BY <1>0 DEF PutCover, Here, histVars
<1>2. o.doc \in Doc
    BY <1>0, <1>1, HeadOp
<1>3. call'.at \in {"idle", "op", "bits"}
    BY <1>1, CallTyped
<1>4. store'["primary"] = store["primary"] /\ store'["delta"] = Covered(store["delta"], o.doc)
    BY <1>1 DEF TypeOK, Family
<1>5. \A d \in Doc : Remembers(store'["delta"], d)
    <2>1. PICK s : s = store["delta"] /\ GoodStore(s)
        BY Families
    <2> QED
        BY <1>2, <1>4, <2>1, CoveredStore DEF OrderInv, LogsInMemory
<1>6. \A d \in Doc : d \notin bits' => Remembers(store'["primary"], d)
    <2>1. Halfway(o.doc) /\ Head(call.todo).kind = "put"
        BY <1>0, <1>1 DEF Halfway
    <2> QED
        BY <1>0, <1>1, <1>2, <1>4, <2>1 DEF OrderInv, LogsInMemory
<1>7. LogsInMemory'
    <2>1. \A d \in Doc : ~Halfway(d)'
        BY <1>3 DEF Halfway
    <2> QED
        BY <1>5, <1>6, <2>1 DEF LogsInMemory
<1>8. InOrder'
    BY <1>1, <1>4 DEF OrderInv, InOrder
<1>9. Flushing'
    BY <1>3 DEF Flushing
<1> QED
    BY <1>7, <1>8, <1>9 DEF OrderInv

(* delete, second half, and patch: rows of the delta family. *)
LEMMA DeltaOrder ==
    ASSUME TypeOK, OrderInv, BitsUsed', DeleteCover \/ PatchDelta
    PROVE  OrderInv'
<1>0. PICK o : o = Head(call.todo)
    OBVIOUS
<1>1. /\ call.todo # <<>> /\ OpDone /\ UNCHANGED <<mode, bits, past>>
    BY DEF DeleteCover, PatchDelta, Here
<1>2. o.doc \in Doc /\ o.version \in Version
    BY <1>0, <1>1, HeadOp
<1>3. call'.at \in {"idle", "op", "bits"}
    BY <1>1, CallTyped
<1>4. PICK s : s = store["delta"] /\ GoodStore(s)
    BY Families
<1>5. PICK r : /\ store' = [store EXCEPT !["delta"] = r]
               /\ \A d \in Doc : Remembers(s, d) => Remembers(r, d)
    <2>1. CASE DeleteCover
        <3>1. store' = [store EXCEPT !["delta"] = Covered(s, o.doc)]
            BY <1>0, <1>4, <2>1 DEF DeleteCover
        <3> QED
            BY <1>2, <1>4, <3>1, CoveredStore
    <2>2. CASE PatchDelta
        <3>1. PICK r \in PutBytes(s, o.doc, o.version) : store' = [store EXCEPT !["delta"] = r]
            BY <1>0, <1>4, <2>2 DEF PatchDelta
        <3>2. \A d \in Doc : Remembers(s, d) => Remembers(r, d)
            BY <1>2, <1>4, <3>1, PutStore
        <3> QED
            BY <3>1, <3>2
    <2> QED
        BY <2>1, <2>2
<1>6. /\ store'["primary"] = store["primary"]
      /\ \A g \in Family : \A d \in Doc : Remembers(store[g], d) => Remembers(store'[g], d)
    BY <1>4, <1>5, OneChanges, Families
<1> QED
    BY <1>1, <1>3, <1>6, KeptOrder

(* A log reaches the disk. *)
LEMMA SyncOrder ==
    ASSUME TypeOK, OrderInv, BitsUsed',
           SyncPrimary \/ SyncDelta \/ \E f \in Family : GroupCommit(f)
    PROVE  OrderInv'
<1>1. PICK f \in Family : /\ store' = [store EXCEPT ![f] = Synced(@)]
                          /\ SyncPrimary => f = "primary"
    BY Families DEF SyncPrimary, SyncDelta, GroupCommit
<1>2. PICK s : s = store[f] /\ GoodStore(s)
    BY Families
<1>3. PICK r : r = Synced(s)
    OBVIOUS
<1>4. /\ GoodStore(r) /\ r.synced = Len(r.log)
      /\ \A d \in Doc : Remembers(r, d) <=> Remembers(s, d)
      /\ Comebacks(r) \subseteq Comebacks(s)
    BY <1>2, <1>3, SyncedStore
<1>5. store' = [store EXCEPT ![f] = r]
    BY <1>1, <1>2, <1>3
<1>6. /\ store'[f] = r /\ \A g \in Family \ {f} : store'[g] = store[g]
      /\ \A g \in Family : \A d \in Doc : Remembers(store[g], d) => Remembers(store'[g], d)
    BY <1>2, <1>4, <1>5, OneChanges
<1>7. /\ Comebacks(store'["primary"]) \subseteq Comebacks(store["primary"])
      /\ store["primary"].synced = Len(store["primary"].log) =>
             store'["primary"].synced = Len(store'["primary"].log)
    <2>1. CASE f = "primary"
        BY <1>2, <1>4, <1>6, <2>1
    <2>2. CASE f # "primary"
        <3>1. store'["primary"] = store["primary"]
            BY <1>6, <2>2, Families
        <3> QED
            BY <3>1
    <2> QED
        BY <2>1, <2>2
<1>8. CASE SyncPrimary
    <2>1. /\ call.at = "primary" /\ call' = [call EXCEPT !.at = "delta"]
          /\ UNCHANGED <<mode, bits, bitsDisk, past>>
        BY <1>8 DEF SyncPrimary, histVars
    <2>2. call'.at = "delta"
        BY <2>1 DEF TypeOK, Calls
    <2>3. Flushing'
        BY <1>1, <1>4, <1>6, <1>8, <2>1, <2>2 DEF OrderInv, Flushing
    <2>4. LogsInMemory'
        <3>1. \A d \in Doc : ~Halfway(d) /\ ~Halfway(d)'
            BY <2>1, <2>2 DEF Halfway
        <3> QED
            BY <1>6, <2>1, <3>1, Families DEF OrderInv, LogsInMemory
    <2>5. InOrder'
        BY <1>7, <2>1 DEF OrderInv, InOrder
    <2> QED
        BY <2>3, <2>4, <2>5 DEF OrderInv
<1>9. CASE SyncDelta \/ \E g \in Family : GroupCommit(g)
    <2>1. /\ UNCHANGED <<mode, bits, bitsDisk>>
          /\ call' = call \/ call'.at \notin {"cover", "primary", "delta"}
        BY <1>9 DEF SyncDelta, GroupCommit, Idle
    <2>2. past' = past \/ (~mode.bitmap => Comebacks(store'["primary"]) \subseteq past')
        <3> SUFFICES ASSUME past' # past, ~mode.bitmap
                     PROVE  Comebacks(store'["primary"]) \subseteq past'
            OBVIOUS
        <3>1. Acknowledge /\ store'["primary"].synced = Len(store'["primary"].log)
            <4>1. CASE SyncDelta
                BY <1>7, <4>1 DEF OrderInv, Flushing, SyncDelta
            <4>2. CASE \E g \in Family : GroupCommit(g)
                BY <4>2, Families DEF GroupCommit
            <4> QED
                BY <1>9, <4>1, <4>2
        <3>2. past' = {Finds(store["primary"])}
            BY <3>1, BasesTyped DEF Acknowledge
        <3>3. PICK p, q : p = store["primary"] /\ q = store'["primary"]
            OBVIOUS
        <3>4. GoodStore(q) /\ \A d \in Doc : Remembers(q, d)
            BY <1>4, <1>6, <3>3, AllInMemory, Families
        <3>5. \A d \in Doc : Find(q, d) = Find(p, d)
            <4>1. CASE f = "primary"
                BY <1>2, <1>3, <1>6, <3>3, <4>1, SyncedStore
            <4>2. CASE f # "primary"
                BY <1>6, <3>3, <4>2, Families
            <4> QED
                BY <4>1, <4>2
        <3>6. Comebacks(q) = {Finds(q)}
            BY <3>1, <3>3, <3>4, WholeStore
        <3>7. Finds(q) = Finds(p)
            BY <3>5 DEF Finds
        <3> QED
            BY <3>2, <3>3, <3>6, <3>7
    <2> QED
        BY <1>6, <1>7, <2>1, <2>2, KeptOrder
<1> QED
    BY <1>8, <1>9

(* flush_primary: what is found is what the log would bring back. *)
LEMMA FlushOrder ==
    ASSUME TypeOK, OrderInv, BitsUsed', FlushPrimary
    PROVE  OrderInv'
<1>1. /\ call.at \notin {"cover", "primary", "delta"}
      /\ store' = [store EXCEPT !["primary"] = Flushed(@)]
      /\ UNCHANGED <<mode, bits, bitsDisk, call, past>>
    BY DEF FlushPrimary, histVars, Idle
<1>2. PICK s : s = store["primary"] /\ GoodStore(s)
    BY Families
<1>3. PICK r : r = Flushed(s)
    OBVIOUS
<1>4. /\ \A d \in Doc : Remembers(r, d)
      /\ Comebacks(r) = {Finds(s)}
    BY <1>2, <1>3, FlushedStore
<1>5. store' = [store EXCEPT !["primary"] = r]
    BY <1>1, <1>2, <1>3
<1>6. /\ store'["primary"] = r
      /\ \A g \in Family : \A d \in Doc : Remembers(store[g], d) => Remembers(store'[g], d)
    BY <1>2, <1>4, <1>5, OneChanges, Families
<1>7. ~mode.bitmap => Comebacks(store'["primary"]) \subseteq Comebacks(store["primary"])
    BY <1>2, <1>4, <1>6, AllInMemory
<1>8. store'["primary"].synced = Len(store'["primary"].log)
    BY <1>3, <1>6 DEF Flushed, GoodStore, StoreSet, TypeOK, Family
<1> QED
    BY <1>1, <1>6, <1>7, <1>8, KeptOrder

(* compact. *)
LEMMA CompactOrder ==
    ASSUME TypeOK, OrderInv, BitsUsed', NEW d \in Doc, Compact(d)
    PROVE  OrderInv'
<1>1. d \in bits /\ UNCHANGED <<mode, bits, bitsDisk, call, past>>
    BY DEF Compact
<1>2. PICK n \in 1..Len(store["primary"].seg[d]) :
          store' = [store EXCEPT !["primary"].seg[d] = SubSeq(@, n + 1, Len(@))]
    BY DEF Compact
<1>3. PICK s : s = store["primary"] /\ GoodStore(s)
    BY Families
<1>4. PICK r : r = [s EXCEPT !.seg[d] = SubSeq(@, n + 1, Len(@))]
    OBVIOUS
<1>5. store' = [store EXCEPT !["primary"] = r]
    BY <1>2, <1>3, <1>4
<1>6. /\ r.synced = s.synced /\ r.log = s.log
      /\ \A e \in Doc : Remembers(r, e) <=> Remembers(s, e)
    <2>1. n \in 1..Len(s.seg[d])
        BY <1>3
    <2>2. r.synced = s.synced /\ r.log = s.log
        BY <1>3, <1>4, <2>1, CutStore
    <2>3. r.mem = s.mem
        BY <1>3, <1>4 DEF GoodStore, StoreSet
    <2>4. \A e \in Doc : Remembers(r, e) <=> Remembers(s, e)
        BY <2>2, <2>3 DEF Remembers
    <2> QED
        BY <2>2, <2>4
<1>7. /\ store'["primary"] = r
      /\ \A g \in Family : \A e \in Doc : Remembers(store[g], e) => Remembers(store'[g], e)
    BY <1>3, <1>5, <1>6, OneChanges, Families
<1>8. mode.bitmap
    BY <1>1 DEF OrderInv, BitsUsed
<1> QED
    BY <1>1, <1>3, <1>6, <1>7, <1>8, KeptOrder

(* A restart. *)
LEMMA CrashOrder ==
    ASSUME TypeOK, BitsUsed', Crash
    PROVE  OrderInv'
<1>1. /\ call'.at = "idle" /\ mode' = mode
      /\ past' = IF mode.bitmap THEN past ELSE {Bases'}
    BY DEF Crash, Idle
<1>2. \A f \in Family : /\ GoodStore(store'[f]) /\ \A d \in Doc : Remembers(store'[f], d)
                        /\ Comebacks(store'[f]) = {Finds(store'[f])}
    BY CrashStores
<1>3. LogsInMemory'
    BY <1>2, Families DEF LogsInMemory
<1>4. InOrder'
    BY <1>1, <1>2, Families, BasesTyped DEF InOrder
<1>5. Flushing'
    BY <1>1 DEF Flushing
<1> QED
    BY <1>3, <1>4, <1>5 DEF OrderInv

(* Everything that leaves the families as they are. *)
LEMMA OtherOrder ==
    ASSUME TypeOK, OrderInv, BitsUsed',
           \/ UNCHANGED vars
           \/ \E d \in Doc : put(d) \/ patch(d) \/ delete(d) \/ get(d) \/ Evict(d)
           \/ write \/ flush_wal \/ FlushBits \/ Fail
    PROVE  OrderInv'
<1>1. UNCHANGED <<mode, bits, past, store>>
    <2>1. CASE \/ UNCHANGED vars \/ write \/ flush_wal \/ FlushBits \/ Fail
        BY <2>1 DEF vars, histVars, write, Start, flush_wal, FlushBits, Fail
    <2>2. CASE \E d \in Doc : put(d) \/ patch(d) \/ delete(d) \/ get(d) \/ Evict(d)
        BY <2>2 DEF histVars, put, patch, delete, Start, get, Evict
    <2> QED
        BY <2>1, <2>2
<1>2. CASE FlushBits
    <2>1. call'.at = "primary" /\ bitsDisk' = bits
        BY <1>2 DEF FlushBits, TypeOK, Calls
    <2>2. call.at = "bits"
        BY <1>2 DEF FlushBits
    <2>3. LogsInMemory'
        BY <1>1, <2>1, <2>2 DEF OrderInv, LogsInMemory, Halfway
    <2>4. InOrder' /\ Flushing'
        BY <1>1, <2>1 DEF OrderInv, InOrder, Flushing
    <2> QED
        BY <2>3, <2>4 DEF OrderInv
<1>3. CASE ~FlushBits
    <2>1. \/ call' = call /\ bitsDisk' = bitsDisk
          \/ call'.at \notin {"cover", "primary", "delta"}
        <3>1. CASE UNCHANGED vars \/ Fail
            BY <3>1 DEF vars, Fail, Idle
        <3>2. CASE write
            BY <3>2 DEF write, Start
        <3>3. CASE flush_wal
            BY <3>3 DEF flush_wal, Idle
        <3>4. CASE \E d \in Doc : put(d) \/ patch(d) \/ delete(d) \/ get(d) \/ Evict(d)
            BY <3>4 DEF put, patch, delete, Start, get, Evict
        <3> QED
            BY <1>3, <3>1, <3>2, <3>3, <3>4
    <2> QED
        BY <1>1, <2>1, KeptOrder
<1> QED
    BY <1>2, <1>3

LEMMA StepOrder == TypeOK /\ OrderInv /\ ~FlushFails /\ [Next]_vars => OrderInv'
<1> SUFFICES ASSUME TypeOK, OrderInv, ~FlushFails, [Next]_vars PROVE OrderInv'
    OBVIOUS
<1>1. BitsUsed'
    BY BitsStep DEF OrderInv
<1>2. CASE PutPrimary \/ PutCover \/ DeletePrimary \/ DeleteCover \/ PatchDelta
    BY <1>1, <1>2, PutPrimaryOrder, PutCoverOrder, DeletePrimaryOrder, DeltaOrder
<1>3. CASE \/ SyncPrimary \/ SyncDelta \/ (\E f \in Family : GroupCommit(f))
           \/ FlushPrimary \/ Crash \/ (\E d \in Doc : Compact(d))
    BY <1>1, <1>3, SyncOrder, FlushOrder, CrashOrder, CompactOrder
<1>4. CASE \/ UNCHANGED vars
           \/ \E d \in Doc : put(d) \/ patch(d) \/ delete(d) \/ get(d) \/ Evict(d)
           \/ write \/ flush_wal \/ FlushBits \/ Fail
    BY <1>1, <1>4, OtherOrder
<1> QED
    BY <1>2, <1>3, <1>4 DEF Next

(* After a failed flush all this is true again with the next restart. *)
LEMMA LostStep ==
    [Next]_vars => \/ lost' = lost /\ ~FlushFails
                   \/ lost' # {}
                   \/ Crash
<1> SUFFICES ASSUME [Next]_vars, ~Crash, lost' = {} PROVE lost' = lost /\ ~FlushFails
    OBVIOUS
<1>1. ~FlushFails
    BY DEF FlushFails, Drop
<1>2. CASE PutPrimary \/ PutCover \/ DeletePrimary \/ DeleteCover \/ PatchDelta
    BY <1>1, <1>2 DEF PutPrimary, PutCover, DeletePrimary, DeleteCover, PatchDelta, histVars
<1>3. CASE \/ SyncPrimary \/ SyncDelta \/ (\E f \in Family : GroupCommit(f))
           \/ FlushBits \/ FlushPrimary \/ (\E d \in Doc : Compact(d))
    BY <1>1, <1>3 DEF SyncPrimary, SyncDelta, GroupCommit, FlushBits, FlushPrimary, Compact, histVars
<1>4. CASE \/ UNCHANGED vars
           \/ \E d \in Doc : put(d) \/ patch(d) \/ delete(d) \/ get(d) \/ Evict(d)
           \/ write \/ flush_wal \/ Fail
    BY <1>1, <1>4 DEF vars, histVars, put, patch, delete, write, Start, get, Evict, flush_wal, Fail
<1> QED
    BY <1>1, <1>2, <1>3, <1>4 DEF Next

LEMMA LostOrder ==
    TypeOK /\ BitsUsed /\ (lost = {} => OrderInv) /\ [Next]_vars => (lost = {} => OrderInv)'
<1> SUFFICES ASSUME TypeOK, BitsUsed, lost = {} => OrderInv, [Next]_vars, lost' = {}
             PROVE  OrderInv'
    OBVIOUS
<1>1. CASE Crash
    BY <1>1, BitsStep, CrashOrder
<1>2. CASE ~Crash
    BY <1>2, LostStep, StepOrder
<1> QED
    BY <1>1, <1>2

LEMMA CrashKeepsOrder == TypeOK /\ OrderInv /\ Crash /\ ~mode.bitmap => Bases' \in past
<1> SUFFICES ASSUME TypeOK, OrderInv, Crash, ~mode.bitmap PROVE Bases' \in past
    OBVIOUS
<1>1. Finds(store'["primary"]) \in Comebacks(store["primary"]) /\ GoodStore(store'["primary"])
    BY CrashStores, Families
<1> QED
    BY <1>1, BasesTyped DEF OrderInv, InOrder

(* Without the deletion bitmap the primary family comes back from a crash  *)
(* as it was after some of the writes not yet acknowledged, in their order *)
(* (the one log of put_bytes_nosync), in every setting.                    *)
THEOREM PrimaryKeepsOrder == Spec => PrimaryInOrder
<1> DEFINE Inv == TypeOK /\ BitsUsed /\ (lost = {} => OrderInv)
<1>1. Init => Inv
    BY InitTyped, InitOrder DEF OrderInv
<1>2. Inv /\ [Next]_vars => Inv'
    BY StepTyped, BitsStep, LostOrder
<1>3. Inv /\ [Next]_vars => [Crash /\ ~mode.bitmap /\ lost = {} => Bases' \in past]_vars
    BY CrashKeepsOrder
<1> HIDE DEF Inv
<1> QED
    BY <1>1, <1>2, <1>3, PTL DEF Spec, PrimaryInOrder

-----------------------------------------------------------------------------
(* What a crash leaves of a document                                       *)

(* A document of which nothing changes but what has reached the disk. *)
LEMMA KeptTracked ==
    ASSUME NEW e \in Doc, Tracked(e),
           Find(store'["primary"], e) = Find(store["primary"], e),
           Find(store'["delta"], e) = Find(store["delta"], e),
           \A b \in Comebacks(store'["primary"]) :
               \/ b[e] = Find(store["primary"], e)
               \/ \E a \in Comebacks(store["primary"]) : b[e] = a[e],
           \A c \in Comebacks(store'["delta"]) :
               \E a \in Comebacks(store["delta"]) : c[e] = a[e],
           e \in bits' <=> e \in bits, e \in bitsDisk' <=> e \in bitsDisk,
           touched'[e] = touched[e], may[e] \subseteq may'[e], logical'[e] \in may'[e]
    PROVE  Tracked(e)'
<1>1. BitsTouched(e)'
    BY DEF Tracked, BitsTouched
<1>2. DeltaTouched(e)'
    BY DEF Tracked, DeltaTouched
<1>3. PrimaryTouched(e)'
    BY DEF Tracked, PrimaryTouched
<1>4. Whole(e)'
    <2> SUFFICES ASSUME OnePlace(touched[e]),
                        NEW c \in Comebacks(store'["delta"]), e \notin bitsDisk
                 PROVE  /\ Read(Find(store["primary"], e), c[e]) \in may'[e]
                        /\ \A b \in Comebacks(store'["primary"]) : Read(b[e], c[e]) \in may'[e]
        BY DEF Tracked, Whole
    <2>1. PICK a \in Comebacks(store["delta"]) : c[e] = a[e]
        OBVIOUS
    <2>2. Read(Find(store["primary"], e), a[e]) \in may[e]
        BY DEF Tracked, Whole
    <2>3. \A b \in Comebacks(store["primary"]) : Read(b[e], a[e]) \in may[e]
        BY DEF Tracked, Whole
    <2> QED
        BY <2>1, <2>2, <2>3
<1> QED
    BY <1>1, <1>2, <1>3, <1>4 DEF Tracked

(* The comebacks of the delta family while its log is all in memory. *)
LEMMA DeltaInMemory ==
    ASSUME TypeOK, OrderInv
    PROVE  /\ GoodStore(store["delta"])
           /\ After(store["delta"], Len(store["delta"].log)) = Finds(store["delta"])
           /\ Finds(store["delta"]) \in Comebacks(store["delta"])
<1>1. GoodStore(store["delta"]) /\ \A d \in Doc : Remembers(store["delta"], d)
    BY Families DEF OrderInv, LogsInMemory
<1>2. \A d \in Doc : After(store["delta"], Len(store["delta"].log))[d] = Find(store["delta"], d)
    BY <1>1, AfterAll
<1>3. After(store["delta"], Len(store["delta"].log)) = Finds(store["delta"])
    BY <1>2 DEF After, Finds
<1> QED
    BY <1>1, <1>3, AfterAll

LEMMA InitTracks == Init => TrackInv
<1> SUFFICES ASSUME Init, NEW d \in Doc PROVE Tracked(d)
    BY DEF TrackInv, HalfTouched, Init, Idle
<1>1. /\ store["primary"] = EmptyStore /\ store["delta"] = EmptyStore
      /\ touched[d] = {} /\ bits = {} /\ bitsDisk = {} /\ logical[d] = NoDoc /\ may[d] = {NoDoc}
    BY DEF Init, Family
<1>2. TypeOK /\ ReadInv /\ OrderInv
    BY InitTyped, InitReads, InitOrder
<1>3. GoodStore(EmptyStore) /\ EmptyStore.log = <<>> /\ EmptyStore.synced = 0
      /\ \A e \in Doc : Remembers(EmptyStore, e)
    BY <1>1, <1>2, Families DEF OrderInv, LogsInMemory, EmptyStore
<1>4. Comebacks(EmptyStore) = {Finds(EmptyStore)}
    BY <1>3, WholeStore
<1>5. Find(EmptyStore, d) = 0
    <2>1. EmptyStore \in StoreSet /\ EmptyStore.mem[d] = <<>> /\ EmptyStore.seg[d] = <<>>
        BY <1>3 DEF GoodStore, EmptyStore
    <2> QED
        BY <2>1, FindParts
<1>6. \A b \in Comebacks(EmptyStore) : b[d] = 0
    BY <1>4, <1>5 DEF Finds
<1>7. BitsTouched(d) /\ DeltaTouched(d) /\ PrimaryTouched(d)
    BY <1>1, <1>5, <1>6 DEF BitsTouched, DeltaTouched, PrimaryTouched
<1>8. Whole(d)
    BY <1>1, <1>5, <1>6 DEF Whole, Read
<1> QED
    BY <1>1, <1>7, <1>8 DEF Tracked

(* What is appended to the log of one family is not seen of other          *)
(* documents.                                                              *)
LEMMA OthersTracked ==
    ASSUME TypeOK, OrderInv, TrackInv, NEW e \in Doc, NEW d \in Doc \ {e},
           Find(store'["primary"], d) = Find(store["primary"], d),
           Find(store'["delta"], d) = Find(store["delta"], d),
           \A b \in Comebacks(store'["primary"]) :
               \/ b \in Comebacks(store["primary"])
               \/ \E v : b = [After(store["primary"], Len(store["primary"].log)) EXCEPT ![e] = v]
               \/ \E v : b = [Finds(store["primary"]) EXCEPT ![e] = v],
           \A c \in Comebacks(store'["delta"]) :
               \/ c \in Comebacks(store["delta"])
               \/ c = Finds(store'["delta"])
               \/ \E v : c = [After(store["delta"], Len(store["delta"].log)) EXCEPT ![e] = v]
               \/ \E v : c = [Finds(store["delta"]) EXCEPT ![e] = v],
           d \in bits' <=> d \in bits, bitsDisk' = bitsDisk,
           touched'[d] = touched[d], may'[d] = may[d], logical'[d] = logical[d]
    PROVE  Tracked(d)'
<1>1. PICK p, q : p = store["primary"] /\ q = store["delta"] /\ GoodStore(p) /\ GoodStore(q)
    BY Families
<1>2. PICK a, c : a = After(p, Len(p.log)) /\ c = After(q, Len(q.log))
    OBVIOUS
<1>3. a \in Comebacks(p) /\ c \in Comebacks(q) /\ c = Finds(q)
    BY <1>1, <1>2, AfterAll, DeltaInMemory
<1>4. DOMAIN a = Doc /\ DOMAIN c = Doc /\ DOMAIN Finds(p) = Doc /\ Finds(p)[d] = Find(p, d)
      /\ c[d] = Find(q, d)
    BY <1>2, <1>3 DEF After, Finds
<1>5. \A b \in Comebacks(store'["primary"]) :
          b[d] = Find(p, d) \/ \E x \in Comebacks(p) : b[d] = x[d]
    <2> TAKE b \in Comebacks(store'["primary"])
    <2>1. CASE b \in Comebacks(p)
        BY <2>1
    <2>2. CASE \E v : b = [a EXCEPT ![e] = v]
        BY <1>3, <1>4, <2>2
    <2>3. CASE \E v : b = [Finds(p) EXCEPT ![e] = v]
        BY <1>4, <2>3
    <2> QED
        BY <1>1, <1>2, <2>1, <2>2, <2>3
<1>6. \A b \in Comebacks(store'["delta"]) : \E x \in Comebacks(q) : b[d] = x[d]
    <2> TAKE b \in Comebacks(store'["delta"])
    <2>1. CASE b \in Comebacks(q)
        BY <2>1
    <2>2. CASE \E v : b = [c EXCEPT ![e] = v]
        BY <1>3, <1>4, <2>2
    <2>3. CASE b = Finds(store'["delta"])
        <3>1. b[d] = c[d]
            BY <1>1, <1>4, <2>3 DEF Finds
        <3> QED
            BY <1>3, <3>1
    <2> QED
        BY <1>1, <1>2, <1>3, <2>1, <2>2, <2>3
<1>7. Tracked(d) /\ logical[d] \in may[d]
    BY DEF TrackInv, Tracked
<1> QED
    BY <1>1, <1>5, <1>6, <1>7, KeptTracked

(* A document is touched somewhere, and becomes something it may be. *)
LEMMA BecomesWhat ==
    ASSUME TypeOK, NEW e \in Doc, NEW x, NEW places, Becomes(e, x, places)
    PROVE  /\ logical'[e] = x /\ may'[e] = may[e] \cup {x} /\ touched'[e] = touched[e] \cup places
           /\ \A d \in Doc \ {e} : /\ logical'[d] = logical[d] /\ may'[d] = may[d]
                                   /\ touched'[d] = touched[d]
<1>1. logical' = [logical EXCEPT ![e] = x] /\ DOMAIN logical = Doc
    BY DEF Becomes, TypeOK
<1>2. may' = [may EXCEPT ![e] = @ \cup {x}] /\ DOMAIN may = Doc
    BY DEF Becomes, TypeOK
<1>3. touched' = [touched EXCEPT ![e] = @ \cup places] /\ DOMAIN touched = Doc
    BY DEF Becomes, TypeOK
<1> QED
    BY <1>1, <1>2, <1>3

(* put_nosync, first half. *)
LEMMA PutPrimaryTracks ==
    ASSUME TypeOK, OrderInv, TrackInv, PutPrimary
    PROVE  TrackInv'
<1>0. PICK o : o = Head(call.todo)
    OBVIOUS
<1>1. PICK e : e = o.doc
    OBVIOUS
<1>2. PICK v : v = o.version
    OBVIOUS
<1>3. PICK places : places = {"primary"}
              \cup (IF Find(store["delta"], e) # 0 THEN {"delta"} ELSE {})
              \cup (IF e \in bits THEN {"bits"} ELSE {})
    OBVIOUS
<1>4. /\ call.todo # <<>> /\ o.kind = "put"
      /\ call' = [call EXCEPT !.at = "cover"]
      /\ UNCHANGED <<mode, bits, bitsDisk>>
      /\ Becomes(e, [base |-> v, patch |-> 0], places)
    BY <1>0, <1>1, <1>2, <1>3 DEF PutPrimary, Here
<1>5. e \in Doc /\ v \in Version /\ v # 0
    BY <1>0, <1>1, <1>2, <1>4, HeadOp
<1>6. /\ logical'[e] = [base |-> v, patch |-> 0] /\ may'[e] = may[e] \cup {[base |-> v, patch |-> 0]}
      /\ touched'[e] = touched[e] \cup places
      /\ \A d \in Doc \ {e} : /\ logical'[d] = logical[d] /\ may'[d] = may[d]
                              /\ touched'[d] = touched[d]
    BY <1>4, <1>5, BecomesWhat
<1>7. PICK s : s = store["primary"] /\ GoodStore(s)
    BY Families
<1>8. PICK r \in PutBytes(s, e, v) : store' = [store EXCEPT !["primary"] = r]
    BY <1>0, <1>1, <1>2, <1>7 DEF PutPrimary
<1>9. store'["primary"] = r /\ store'["delta"] = store["delta"]
    BY <1>8 DEF TypeOK, Family
<1>10. /\ \A d \in Doc : Find(r, d) = IF d = e THEN v ELSE Find(s, d)
       /\ \A b \in Comebacks(r) : \/ b \in Comebacks(s)
                                  \/ b = [After(s, Len(s.log)) EXCEPT ![e] = v]
                                  \/ b = [Finds(s) EXCEPT ![e] = v]
    BY <1>5, <1>7, <1>8, PutStore
<1>11. \A b \in Comebacks(r) : b \in Comebacks(s) \/ b[e] = v
    <2>1. DOMAIN After(s, Len(s.log)) = Doc /\ DOMAIN Finds(s) = Doc
        BY DEF After, Finds
    <2> QED
        BY <1>5, <1>10, <2>1
<1>12. Tracked(e)
    BY <1>5 DEF TrackInv
<1>13. BitsTouched(e)'
    BY <1>3, <1>4, <1>6, <1>12 DEF Tracked, BitsTouched
<1>14. DeltaTouched(e)'
    BY <1>6, <1>9, <1>12 DEF Tracked, DeltaTouched
<1>15. PrimaryTouched(e)'
    BY <1>3, <1>6 DEF PrimaryTouched
<1>16. Whole(e)'
    <2> SUFFICES ASSUME OnePlace(touched'[e])
                 PROVE  /\ e \notin bitsDisk'
                        /\ \A c \in Comebacks(store'["delta"]) :
                              /\ Read(Find(store'["primary"], e), c[e]) \in may'[e]
                              /\ \A b \in Comebacks(store'["primary"]) : Read(b[e], c[e]) \in may'[e]
        BY DEF Whole
    <2>1. touched'[e] = {"primary"}
        BY <1>3, <1>6 DEF OnePlace
    <2>2. Find(store["delta"], e) = 0 /\ e \notin bits /\ OnePlace(touched[e])
        BY <1>3, <1>6, <2>1 DEF OnePlace
    <2>3. e \notin bitsDisk
        BY <1>6, <1>12, <2>1, <2>2 DEF Tracked, BitsTouched
    <2>4. ASSUME NEW c \in Comebacks(store["delta"])
          PROVE  /\ Read(v, c[e]) \in may'[e]
                 /\ \A b \in Comebacks(r) : Read(b[e], c[e]) \in may'[e]
        <3>1. c[e] = 0
            BY <1>12, <2>2 DEF Tracked, DeltaTouched
        <3>2. Read(v, c[e]) \in may'[e]
            BY <1>5, <1>6, <3>1 DEF Read
        <3>3. \A b \in Comebacks(s) : Read(b[e], c[e]) \in may'[e]
            BY <1>6, <1>7, <1>12, <2>2, <2>3 DEF Tracked, Whole
        <3> QED
            BY <1>11, <3>2, <3>3
    <2> QED
        BY <1>4, <1>5, <1>9, <1>10, <2>3, <2>4
<1>17. Tracked(e)'
    BY <1>6, <1>13, <1>14, <1>15, <1>16 DEF Tracked
<1>18. \A d \in Doc \ {e} : Tracked(d)'
    BY <1>4, <1>5, <1>6, <1>7, <1>9, <1>10, OthersTracked
<1>19. HalfTouched'
    <2>1. Head(call'.todo) = o
        BY <1>0, <1>4 DEF TypeOK, Calls
    <2> QED
        BY <1>1, <1>3, <1>4, <1>6, <1>9, <2>1 DEF HalfTouched
<1> QED
    BY <1>17, <1>18, <1>19 DEF TrackInv

(* delete, first half, with the bitmap. *)
LEMMA MarkTracks ==
    ASSUME TypeOK, OrderInv, TrackInv, DeletePrimary, mode.bitmap
    PROVE  TrackInv'
<1>0. PICK o : o = Head(call.todo)
    OBVIOUS
<1>1. PICK e : e = o.doc
    OBVIOUS
<1>2. PICK places : places = {"bits"} \cup (IF Find(store["delta"], e) # 0 THEN {"delta"} ELSE {})
    OBVIOUS
<1>3. PICK s : s = store["primary"] /\ GoodStore(s)
    BY Families
<1>4. /\ call.todo # <<>> /\ o.kind = "delete"
      /\ call' = [call EXCEPT !.at = "cover"]
      /\ UNCHANGED <<mode, bitsDisk>>
      /\ bits' = bits \cup {e}
      /\ store' = [store EXCEPT !["primary"] = Logged(s, e, 0)]
      /\ Becomes(e, NoDoc, places)
    BY <1>0, <1>1, <1>2, <1>3 DEF DeletePrimary, Here
<1>5. e \in Doc /\ 0 \in Version
    BY <1>0, <1>1, <1>4, HeadOp, BoundsAssumption DEF Version
<1>6. /\ logical'[e] = NoDoc /\ may'[e] = may[e] \cup {NoDoc}
      /\ touched'[e] = touched[e] \cup places
      /\ \A d \in Doc \ {e} : /\ logical'[d] = logical[d] /\ may'[d] = may[d]
                              /\ touched'[d] = touched[d]
    BY <1>4, <1>5, BecomesWhat
<1>7. PICK r : r = Logged(s, e, 0)
    OBVIOUS
<1>8. store'["primary"] = r /\ store'["delta"] = store["delta"]
    BY <1>4, <1>7 DEF TypeOK, Family
<1>9. /\ \A d \in Doc : Find(r, d) = Find(s, d)
      /\ \A b \in Comebacks(r) :
             b \in Comebacks(s) \/ b = [After(s, Len(s.log)) EXCEPT ![e] = 0]
    BY <1>3, <1>5, <1>7, LoggedStore
<1>10. \A b \in Comebacks(r) : b \in Comebacks(s) \/ b[e] = 0
    <2>1. DOMAIN After(s, Len(s.log)) = Doc
        BY DEF After
    <2> QED
        BY <1>5, <1>9, <2>1
<1>11. Tracked(e)
    BY <1>5 DEF TrackInv
<1>12. BitsTouched(e)'
    BY <1>2, <1>4, <1>6, <1>11 DEF Tracked, BitsTouched
<1>13. DeltaTouched(e)'
    BY <1>6, <1>8, <1>11 DEF Tracked, DeltaTouched
<1>14. PrimaryTouched(e)'
    BY <1>4 DEF PrimaryTouched
<1>15. Whole(e)'
    <2> SUFFICES ASSUME OnePlace(touched'[e]), e \notin bitsDisk,
                        NEW c \in Comebacks(store["delta"])
                 PROVE  /\ Read(Find(s, e), c[e]) \in may'[e]
                        /\ \A b \in Comebacks(r) : Read(b[e], c[e]) \in may'[e]
        BY <1>4, <1>5, <1>6, <1>8, <1>9 DEF Whole
    <2>1. OnePlace(touched[e])
        BY <1>6 DEF OnePlace
    <2>2. /\ Read(Find(s, e), c[e]) \in may'[e]
          /\ \A b \in Comebacks(s) : Read(b[e], c[e]) \in may'[e]
        BY <1>3, <1>6, <1>11, <2>1 DEF Tracked, Whole
    <2>3. Read(0, c[e]) \in may'[e]
        BY <1>6 DEF Read
    <2> QED
        BY <1>10, <2>2, <2>3
<1>16. Tracked(e)'
    BY <1>6, <1>12, <1>13, <1>14, <1>15 DEF Tracked
<1>17. \A d \in Doc \ {e} : Tracked(d)'
    BY <1>3, <1>4, <1>5, <1>6, <1>8, <1>9, OthersTracked
<1>18. HalfTouched'
    <2>1. Head(call'.todo) = o
        BY <1>0, <1>4 DEF TypeOK, Calls
    <2> QED
        BY <1>1, <1>2, <1>4, <1>6, <1>8, <2>1 DEF HalfTouched
<1> QED
    BY <1>16, <1>17, <1>18 DEF TrackInv

(* delete, first half, with a tombstone. *)
LEMMA BuryTracks ==
    ASSUME TypeOK, OrderInv, TrackInv, DeletePrimary, ~mode.bitmap
    PROVE  TrackInv'
<1>0. PICK o : o = Head(call.todo)
    OBVIOUS
<1>1. PICK e : e = o.doc
    OBVIOUS
<1>2. PICK s : s = store["primary"] /\ GoodStore(s)
    BY Families
<1>3. PICK r : r = Synced(Written(s, e, 0))
    OBVIOUS
<1>4. /\ call.todo # <<>> /\ o.kind = "delete"
      /\ call' = [call EXCEPT !.at = "cover"]
      /\ UNCHANGED <<mode, bits, bitsDisk>>
      /\ store' = [store EXCEPT !["primary"] = r]
      /\ Becomes(e, NoDoc, {"primary"})
    BY <1>0, <1>1, <1>2, <1>3 DEF DeletePrimary, Here
<1>5. e \in Doc /\ bits = {} /\ bitsDisk = {}
    BY <1>0, <1>1, <1>4, HeadOp DEF OrderInv, BitsUsed
<1>6. /\ logical'[e] = NoDoc /\ may'[e] = may[e] \cup {NoDoc}
      /\ touched'[e] = touched[e] \cup {"primary"}
      /\ \A d \in Doc \ {e} : /\ logical'[d] = logical[d] /\ may'[d] = may[d]
                              /\ touched'[d] = touched[d]
    BY <1>4, <1>5, BecomesWhat
<1>7. store'["primary"] = r /\ store'["delta"] = store["delta"]
    BY <1>4 DEF TypeOK, Family
<1>8. /\ \A d \in Doc : Find(r, d) = IF d = e THEN 0 ELSE Find(s, d)
      /\ \A b \in Comebacks(r) :
             (b \in Comebacks(s) /\ b[e] = 0) \/ b = [After(s, Len(s.log)) EXCEPT ![e] = 0]
    BY <1>2, <1>3, <1>5, BuriedStore
<1>9. \A b \in Comebacks(r) : b[e] = 0
    <2>1. DOMAIN After(s, Len(s.log)) = Doc
        BY DEF After
    <2> QED
        BY <1>5, <1>8, <2>1
<1>10. Tracked(e)
    BY <1>5 DEF TrackInv
<1>11. BitsTouched(e)'
    BY <1>4, <1>5 DEF BitsTouched
<1>12. DeltaTouched(e)'
    BY <1>6, <1>7, <1>10 DEF Tracked, DeltaTouched
<1>13. PrimaryTouched(e)'
    BY <1>6 DEF PrimaryTouched
<1>14. Whole(e)'
    <2>1. \A x : Read(0, x) \in may'[e]
        BY <1>6 DEF Read
    <2>2. Find(store'["primary"], e) = 0 /\ \A b \in Comebacks(store'["primary"]) : b[e] = 0
        BY <1>5, <1>7, <1>8, <1>9
    <2>3. e \notin bitsDisk'
        BY <1>4, <1>5
    <2> QED
        BY <2>1, <2>2, <2>3 DEF Whole
<1>15. Tracked(e)'
    BY <1>6, <1>11, <1>12, <1>13, <1>14 DEF Tracked
<1>16. \A d \in Doc \ {e} : Tracked(d)'
    BY <1>2, <1>4, <1>5, <1>6, <1>7, <1>8, OthersTracked
<1>17. HalfTouched'
    <2>1. Head(call'.todo) = o
        BY <1>0, <1>4 DEF TypeOK, Calls
    <2> QED
        BY <1>1, <1>4, <1>7, <1>9, <2>1 DEF HalfTouched
<1> QED
    BY <1>15, <1>16, <1>17 DEF TrackInv

(* delete_prefix: the patches of a document are gone for good. *)
LEMMA CoverTracks ==
    ASSUME TypeOK, OrderInv, TrackInv, NEW e \in Doc,
           store' = [store EXCEPT !["delta"] = Covered(@, e)]
    PROVE  /\ store'["primary"] = store["primary"]
           /\ Find(store["delta"], e) = 0 => store'["delta"] = store["delta"]
           /\ \A d \in Doc : Find(store'["delta"], d) =
                                 IF d = e THEN 0 ELSE Find(store["delta"], d)
           /\ \A c \in Comebacks(store'["delta"]) :
                  c \in Comebacks(store["delta"]) \/ c = Finds(store'["delta"])
           /\ \A c \in Comebacks(store'["delta"]) : c[e] = 0
<1>1. PICK s : s = store["delta"] /\ GoodStore(s) /\ \A d \in Doc : Remembers(s, d)
    BY Families DEF OrderInv, LogsInMemory
<1>2. PICK r : r = Covered(s, e)
    OBVIOUS
<1>3. store'["delta"] = r /\ store'["primary"] = store["primary"]
    BY <1>1, <1>2 DEF TypeOK, Family
<1>4. /\ \A d \in Doc : Find(r, d) = IF d = e THEN 0 ELSE Find(s, d)
      /\ Find(s, e) = 0 => r = s
      /\ Find(s, e) # 0 => Comebacks(r) = {Finds(r)}
    BY <1>1, <1>2, CoveredStore
<1>5. \A c \in Comebacks(r) : c[e] = 0
    <2>1. CASE Find(s, e) = 0
        <3>1. Tracked(e)
            BY DEF TrackInv
        <3> QED
            BY <1>1, <1>4, <2>1, <3>1 DEF Tracked, DeltaTouched
    <2>2. CASE Find(s, e) # 0
        BY <1>4, <2>2 DEF Finds
    <2> QED
        BY <2>1, <2>2
<1> QED
    BY <1>1, <1>3, <1>4, <1>5

(* put_nosync, second half. *)
LEMMA PutCoverTracks ==
    ASSUME TypeOK, OrderInv, TrackInv, PutCover
    PROVE  TrackInv'
<1>0. PICK o : o = Head(call.todo)
    OBVIOUS
<1>1. PICK e : e = o.doc
    OBVIOUS
<1>2. /\ call.at = "cover" /\ call.todo # <<>> /\ o.kind = "put"
      /\ store' = [store EXCEPT !["delta"] = Covered(@, e)]
      /\ bits' = bits \ {e} /\ OpDone
      /\ UNCHANGED <<mode, bitsDisk, logical, may, touched>>
    BY <1>0, <1>1 DEF PutCover, Here, histVars
<1>3. e \in Doc /\ call'.at # "cover"
    BY <1>0, <1>1, <1>2, HeadOp, CallTyped
<1>4. /\ store'["primary"] = store["primary"]
      /\ Find(store["delta"], e) = 0 => store'["delta"] = store["delta"]
      /\ \A d \in Doc : Find(store'["delta"], d) = IF d = e THEN 0 ELSE Find(store["delta"], d)
      /\ \A c \in Comebacks(store'["delta"]) :
             c \in Comebacks(store["delta"]) \/ c = Finds(store'["delta"])
      /\ \A c \in Comebacks(store'["delta"]) : c[e] = 0
    BY <1>2, <1>3, CoverTracks
<1>5. /\ "primary" \in touched[e]
      /\ e \in bits => "bits" \in touched[e]
      /\ Find(store["delta"], e) # 0 => "delta" \in touched[e]
    BY <1>0, <1>1, <1>2 DEF TrackInv, HalfTouched
<1>6. Tracked(e)
    BY <1>3 DEF TrackInv
<1>7. BitsTouched(e)'
    BY <1>2, <1>5, <1>6 DEF Tracked, BitsTouched
<1>8. DeltaTouched(e)'
    BY <1>3, <1>4 DEF DeltaTouched
<1>9. PrimaryTouched(e)'
    BY <1>2, <1>5 DEF PrimaryTouched
<1>10. Whole(e)'
    <2>1. OnePlace(touched[e]) => store'["delta"] = store["delta"]
        BY <1>4, <1>5 DEF OnePlace
    <2> QED
        BY <1>2, <1>4, <1>6, <2>1 DEF Tracked, Whole
<1>11. Tracked(e)'
    BY <1>2, <1>6, <1>7, <1>8, <1>9, <1>10 DEF Tracked
<1>12. \A d \in Doc \ {e} : Tracked(d)'
    BY <1>2, <1>3, <1>4, OthersTracked
<1>13. HalfTouched'
    BY <1>3 DEF HalfTouched
<1> QED
    BY <1>11, <1>12, <1>13 DEF TrackInv

(* delete, second half. *)
LEMMA DeleteCoverTracks ==
    ASSUME TypeOK, ReadInv, OrderInv, TrackInv, DeleteCover
    PROVE  TrackInv'
<1>0. PICK o : o = Head(call.todo)
    OBVIOUS
<1>1. PICK e : e = o.doc
    OBVIOUS
<1>2. /\ call.at = "cover" /\ call.todo # <<>> /\ o.kind = "delete"
      /\ store' = [store EXCEPT !["delta"] = Covered(@, e)]
      /\ IF mode.bitmap THEN UNCHANGED <<may, touched>>
         ELSE /\ may' = [may EXCEPT ![e] = {NoDoc}]
              /\ touched' = [touched EXCEPT ![e] = {}]
      /\ OpDone
      /\ UNCHANGED <<mode, bits, bitsDisk, logical>>
    BY <1>0, <1>1 DEF DeleteCover, Here
<1>3. e \in Doc /\ call'.at # "cover"
    BY <1>0, <1>1, <1>2, HeadOp, CallTyped
<1>4. /\ store'["primary"] = store["primary"]
      /\ Find(store["delta"], e) = 0 => store'["delta"] = store["delta"]
      /\ \A d \in Doc : Find(store'["delta"], d) = IF d = e THEN 0 ELSE Find(store["delta"], d)
      /\ \A c \in Comebacks(store'["delta"]) :
             c \in Comebacks(store["delta"]) \/ c = Finds(store'["delta"])
      /\ \A c \in Comebacks(store'["delta"]) : c[e] = 0
    BY <1>2, <1>3, CoverTracks
<1>5. /\ logical[e] = NoDoc
      /\ IF mode.bitmap THEN e \in bits ELSE Find(store["primary"], e) = 0
    BY <1>0, <1>1, <1>2 DEF ReadInv, HalfDone
<1>6. Tracked(e)
    BY <1>3 DEF TrackInv
<1>7. \A d \in Doc \ {e} : touched'[d] = touched[d] /\ may'[d] = may[d]
    BY <1>2 DEF TypeOK
<1>8. \A d \in Doc \ {e} : Tracked(d)'
    BY <1>2, <1>3, <1>4, <1>7, OthersTracked
<1>9. DeltaTouched(e)'
    BY <1>3, <1>4 DEF DeltaTouched
<1>10. Tracked(e)'
    <2>1. CASE mode.bitmap
        <3>1. /\ "bits" \in touched[e]
              /\ Find(store["delta"], e) # 0 => "delta" \in touched[e]
            BY <1>0, <1>1, <1>2, <1>5, <2>1 DEF TrackInv, HalfTouched
        <3>2. BitsTouched(e)' /\ PrimaryTouched(e)'
            BY <1>2, <1>4, <1>5, <1>6, <2>1 DEF Tracked, BitsTouched, PrimaryTouched
        <3>3. OnePlace(touched[e]) => store'["delta"] = store["delta"]
            BY <1>4, <3>1 DEF OnePlace
        <3>4. Whole(e)'
            BY <1>2, <1>4, <1>6, <2>1, <3>3 DEF Tracked, Whole
        <3> QED
            BY <1>2, <1>6, <1>9, <2>1, <3>2, <3>4 DEF Tracked
    <2>2. CASE ~mode.bitmap
        <3>1. \A b \in Comebacks(store["primary"]) : b[e] = 0
            BY <1>0, <1>1, <1>2, <2>2 DEF TrackInv, HalfTouched
        <3>2. bits = {} /\ bitsDisk = {} /\ Find(store["primary"], e) = 0
            BY <1>5, <2>2 DEF OrderInv, BitsUsed
        <3>3. may'[e] = {NoDoc}
            BY <1>2, <1>3, <2>2 DEF TypeOK
        <3>4. BitsTouched(e)' /\ PrimaryTouched(e)'
            BY <1>2, <1>4, <3>1, <3>2 DEF BitsTouched, PrimaryTouched
        <3>5. Whole(e)'
            <4>1. \A x : Read(0, x) \in may'[e]
                BY <3>3 DEF Read
            <4> QED
                BY <1>2, <1>4, <3>1, <3>2, <4>1 DEF Whole
        <3> QED
            BY <1>2, <1>5, <1>9, <3>3, <3>4, <3>5 DEF Tracked
    <2> QED
        BY <2>1, <2>2
<1>11. HalfTouched'
    BY <1>3 DEF HalfTouched
<1> QED
    BY <1>8, <1>10, <1>11 DEF TrackInv

(* patch: where only patches are not on disk, the document comes back with *)
(* one of them.                                                            *)
LEMMA PatchDeltaTracks ==
    ASSUME TypeOK, ReadInv, OrderInv, TrackInv, lost = {}, PatchDelta
    PROVE  TrackInv'
<1>0. PICK o : o = Head(call.todo)
    OBVIOUS
<1>1. PICK e, v : e = o.doc /\ v = o.version
    OBVIOUS
<1>2. PICK x : x = IF logical[e] = NoDoc THEN NoDoc ELSE [logical[e] EXCEPT !.patch = v]
    OBVIOUS
<1>3. /\ call.at = "op" /\ call.todo # <<>> /\ OpDone
      /\ UNCHANGED <<mode, bits, bitsDisk>>
      /\ Becomes(e, x, {"delta"})
    BY <1>0, <1>1, <1>2 DEF PatchDelta, Here
<1>4. e \in Doc /\ v \in Version /\ v # 0 /\ call'.at # "cover"
    BY <1>0, <1>1, <1>3, HeadOp, CallTyped
<1>5. /\ logical'[e] = x /\ may'[e] = may[e] \cup {x} /\ touched'[e] = touched[e] \cup {"delta"}
      /\ \A d \in Doc \ {e} : /\ logical'[d] = logical[d] /\ may'[d] = may[d]
                              /\ touched'[d] = touched[d]
    BY <1>3, <1>4, BecomesWhat
<1>6. PICK s : s = store["delta"] /\ GoodStore(s)
    BY Families
<1>7. PICK r \in PutBytes(s, e, v) : store' = [store EXCEPT !["delta"] = r]
    BY <1>0, <1>1, <1>6 DEF PatchDelta
<1>8. store'["delta"] = r /\ store'["primary"] = store["primary"]
    BY <1>7 DEF TypeOK, Family
<1>9. /\ \A d \in Doc : Find(r, d) = IF d = e THEN v ELSE Find(s, d)
      /\ \A b \in Comebacks(r) : \/ b \in Comebacks(s)
                                 \/ b = [After(s, Len(s.log)) EXCEPT ![e] = v]
                                 \/ b = [Finds(s) EXCEPT ![e] = v]
    BY <1>4, <1>6, <1>7, PutStore
<1>10. \A b \in Comebacks(r) : b \in Comebacks(s) \/ b[e] = v
    <2>1. DOMAIN After(s, Len(s.log)) = Doc /\ DOMAIN Finds(s) = Doc
        BY DEF After, Finds
    <2> QED
        BY <1>4, <1>9, <2>1
<1>11. Tracked(e)
    BY <1>4 DEF TrackInv
<1>12. BitsTouched(e)' /\ PrimaryTouched(e)'
    BY <1>3, <1>5, <1>8, <1>11 DEF Tracked, BitsTouched, PrimaryTouched
<1>13. DeltaTouched(e)'
    BY <1>4, <1>5, <1>8, <1>9 DEF DeltaTouched
<1>14. Whole(e)'
    <2> DEFINE p == Find(store["primary"], e)
    <2> SUFFICES ASSUME OnePlace(touched'[e]), e \notin bitsDisk, NEW c \in Comebacks(r)
                 PROVE  /\ Read(p, c[e]) \in may'[e]
                        /\ \A b \in Comebacks(store["primary"]) : Read(b[e], c[e]) \in may'[e]
        <3>1. e \in bitsDisk /\ OnePlace(touched'[e]) => NoDoc \in may'[e]
            BY <1>5, <1>11 DEF Tracked, Whole, OnePlace
        <3> QED
            BY <1>3, <1>8, <3>1 DEF Whole
    <2>1. touched'[e] = {"delta"} /\ OnePlace(touched[e])
        BY <1>5 DEF OnePlace
    <2>2. "bits" \notin touched[e] /\ "primary" \notin touched[e]
        BY <1>5, <2>1
    <2>3. e \notin bits
        BY <1>11, <2>2 DEF Tracked, BitsTouched
    <2>4. \A b \in Comebacks(store["primary"]) : b[e] = p
        BY <1>11, <2>2, <2>3 DEF Tracked, PrimaryTouched
    <2>5. Read(p, c[e]) \in may'[e]
        <3>1. CASE c \in Comebacks(s)
            BY <1>5, <1>6, <1>11, <2>1, <3>1 DEF Tracked, Whole
        <3>2. CASE c[e] = v
            <4>1. logical[e] = Read(p, Find(s, e))
                <5>1. ~Halfway(e)
                    BY <1>3 DEF Halfway
                <5>2. logical[e] = ReadThrough(e)
                    BY <1>4, <2>3, <5>1 DEF ReadInv, Shown
                <5> QED
                    BY <1>6, <5>2, ReadIs
            <4>2. x = Read(p, v)
                <5>1. CASE p = 0
                    BY <1>2, <4>1, <5>1 DEF Read
                <5>2. CASE p # 0
                    <6>1. logical[e] = [base |-> p, patch |-> Find(s, e)] /\ logical[e] # NoDoc
                        BY <4>1, <5>2 DEF Read, NoDoc
                    <6> QED
                        BY <1>2, <5>2, <6>1 DEF Read
                <5> QED
                    BY <5>1, <5>2
            <4> QED
                BY <1>5, <3>2, <4>2
        <3> QED
            BY <1>10, <3>1, <3>2
    <2> QED
        BY <2>4, <2>5
<1>15. Tracked(e)'
    BY <1>5, <1>12, <1>13, <1>14 DEF Tracked
<1>16. \A d \in Doc \ {e} : Tracked(d)'
    BY <1>3, <1>4, <1>5, <1>6, <1>8, <1>9, OthersTracked
<1>17. HalfTouched'
    BY <1>4 DEF HalfTouched
<1> QED
    BY <1>15, <1>16, <1>17 DEF TrackInv

(* The bitmap reaches the disk. *)
LEMMA FlushBitsTracks ==
    ASSUME TypeOK, ReadInv, TrackInv, lost = {}, FlushBits
    PROVE  TrackInv'
<1>1. /\ call.at = "bits" /\ call'.at = "primary" /\ bitsDisk' = bits
      /\ UNCHANGED <<store, bits, logical, may, touched>>
    BY DEF FlushBits, histVars, TypeOK, Calls
<1>2. HalfTouched'
    BY <1>1 DEF HalfTouched
<1>3. ASSUME NEW d \in Doc PROVE Tracked(d)'
    <2>1. Tracked(d)
        BY DEF TrackInv
    <2>2. BitsTouched(d)' /\ DeltaTouched(d)' /\ PrimaryTouched(d)'
        BY <1>1, <2>1 DEF Tracked, BitsTouched, DeltaTouched, PrimaryTouched
    <2>3. CASE d \in bits
        <3>1. logical[d] = NoDoc
            BY <1>1, <2>3 DEF ReadInv, Shown, Halfway
        <3>2. NoDoc \in may'[d]
            BY <1>1, <2>1, <3>1 DEF Tracked
        <3> QED
            BY <1>1, <2>1, <2>2, <2>3, <3>2 DEF Tracked, Whole
    <2>4. CASE d \notin bits /\ d \in bitsDisk
        <3>1. ~OnePlace(touched[d])
            BY <2>1, <2>4 DEF Tracked, BitsTouched, OnePlace
        <3> QED
            BY <1>1, <2>1, <2>2, <3>1 DEF Tracked, Whole
    <2>5. CASE d \notin bits /\ d \notin bitsDisk
        BY <1>1, <2>1, <2>2, <2>5 DEF Tracked, Whole
    <2> QED
        BY <2>3, <2>4, <2>5
<1> QED
    BY <1>2, <1>3 DEF TrackInv

(* Everything is on disk and is acknowledged. *)
LEMMA AcknowledgeTracks ==
    ASSUME TypeOK, ReadInv, OrderInv, lost = {}, Acknowledge,
           UNCHANGED <<bits, bitsDisk, logical>>, bitsDisk = bits,
           call.at # "cover", call'.at # "cover",
           \A f \in Family :
               /\ store'[f].synced = Len(store'[f].log) /\ GoodStore(store'[f])
               /\ \A d \in Doc : Find(store'[f], d) = Find(store[f], d)
               /\ \A d \in Doc : Remembers(store[f], d) => Remembers(store'[f], d)
    PROVE  TrackInv'
<1>1. PICK p, q : p = store'["primary"] /\ q = store'["delta"]
    OBVIOUS
<1>2. /\ GoodStore(p) /\ p.synced = Len(p.log) /\ GoodStore(q) /\ q.synced = Len(q.log)
      /\ \A d \in Doc : Find(p, d) = Find(store["primary"], d) /\ Find(q, d) = Find(store["delta"], d)
      /\ \A d \in Doc : Remembers(q, d) /\ (d \notin bits => Remembers(p, d))
    BY <1>1, Families DEF OrderInv, LogsInMemory
<1>3. Comebacks(p) = {After(p, Len(p.log))} /\ Comebacks(q) = {After(q, Len(q.log))}
    <2>1. p.synced..Len(p.log) = {Len(p.log)} /\ q.synced..Len(q.log) = {Len(q.log)}
        BY <1>2 DEF GoodStore, StoreSet
    <2> QED
        BY <2>1 DEF Comebacks
<1>4. HalfTouched'
    BY DEF HalfTouched
<1>5. ASSUME NEW d \in Doc PROVE Tracked(d)'
    <2>1. touched'[d] = {} /\ may'[d] = {logical[d]}
        BY DEF Acknowledge
    <2>2. \A c \in Comebacks(q) : c[d] = Find(q, d)
        BY <1>2, <1>3, AfterAll
    <2>3. d \notin bits => \A b \in Comebacks(p) : b[d] = Find(p, d)
        BY <1>2, <1>3, AfterAll
    <2>4. logical[d] = IF d \in bits THEN NoDoc ELSE Read(Find(p, d), Find(q, d))
        <3>1. ~Halfway(d)
            BY DEF Halfway
        <3> QED
            BY <1>2, <3>1, ReadIs DEF ReadInv, Shown
    <2>5. BitsTouched(d)' /\ DeltaTouched(d)' /\ PrimaryTouched(d)'
        BY <1>1, <2>2, <2>3 DEF BitsTouched, DeltaTouched, PrimaryTouched
    <2>6. Whole(d)'
        BY <1>1, <2>1, <2>2, <2>3, <2>4 DEF Whole
    <2> QED
        BY <2>1, <2>5, <2>6 DEF Tracked
<1> QED
    BY <1>4, <1>5 DEF TrackInv

(* The bitmap, the documents and what they may be stay; the comebacks of   *)
(* the families become fewer, or what is found.                            *)
LEMMA FewerTracked ==
    ASSUME TrackInv, OrderInv, UNCHANGED <<mode, bits, bitsDisk, touched>>,
           call' = call \/ call'.at # "cover", call.at = "cover" => Head(call.todo).doc \in Doc,
           \A d \in Doc : may[d] \subseteq may'[d] /\ logical'[d] \in may'[d],
           \A d \in Doc : /\ Find(store'["primary"], d) = Find(store["primary"], d)
                          /\ Find(store'["delta"], d) = Find(store["delta"], d),
           \/ Comebacks(store'["primary"]) \subseteq Comebacks(store["primary"])
           \/ /\ call'.at # "cover"
              /\ Comebacks(store'["primary"]) = {Finds(store["primary"])},
           Comebacks(store'["delta"]) \subseteq Comebacks(store["delta"])
    PROVE  TrackInv'
<1>1. ASSUME NEW d \in Doc PROVE Tracked(d)'
    <2>1. Tracked(d)
        BY DEF TrackInv
    <2>2. \A b \in Comebacks(store'["primary"]) :
              \/ b[d] = Find(store["primary"], d)
              \/ \E a \in Comebacks(store["primary"]) : b[d] = a[d]
        <3>1. Finds(store["primary"])[d] = Find(store["primary"], d)
            BY DEF Finds
        <3> QED
            BY <3>1
    <2>3. \A c \in Comebacks(store'["delta"]) : \E a \in Comebacks(store["delta"]) : c[d] = a[d]
        OBVIOUS
    <2> QED
        BY <2>1, <2>2, <2>3, KeptTracked
<1>2. HalfTouched'
    <2> SUFFICES ASSUME call'.at = "cover" PROVE HalfTouched'
        BY DEF HalfTouched
    <2>1. call' = call /\ Comebacks(store'["primary"]) \subseteq Comebacks(store["primary"])
        OBVIOUS
    <2>2. PICK o : o = Head(call.todo) /\ o = Head(call'.todo) /\ o.doc \in Doc
        BY <2>1
    <2>3. IF o.kind = "delete" /\ ~mode.bitmap
          THEN \A b \in Comebacks(store["primary"]) : b[o.doc] = 0
          ELSE /\ o.kind = "put" => "primary" \in touched[o.doc]
               /\ o.doc \in bits => "bits" \in touched[o.doc]
               /\ Find(store["delta"], o.doc) # 0 => "delta" \in touched[o.doc]
        BY <2>1, <2>2 DEF TrackInv, HalfTouched
    <2>4. Find(store'["delta"], o.doc) = Find(store["delta"], o.doc)
        BY <2>2
    <2> QED
        BY <2>1, <2>2, <2>3, <2>4 DEF HalfTouched
<1> QED
    BY <1>1, <1>2 DEF TrackInv

(* A log reaches the disk. *)
LEMMA SyncTracks ==
    ASSUME TypeOK, ReadInv, OrderInv, TrackInv, lost = {}, Alone,
           SyncPrimary \/ SyncDelta \/ \E f \in Family : GroupCommit(f)
    PROVE  TrackInv'
<1>1. PICK f \in Family : /\ store' = [store EXCEPT ![f] = Synced(@)]
                          /\ SyncDelta => f = "delta"
    BY Families DEF SyncPrimary, SyncDelta, GroupCommit
<1>2. PICK s : s = store[f] /\ GoodStore(s)
    BY Families
<1>3. PICK r : r = Synced(s)
    OBVIOUS
<1>4. /\ GoodStore(r) /\ r.synced = Len(r.log)
      /\ \A d \in Doc : Find(r, d) = Find(s, d)
      /\ \A d \in Doc : Remembers(r, d) <=> Remembers(s, d)
      /\ Comebacks(r) \subseteq Comebacks(s)
    BY <1>2, <1>3, SyncedStore
<1>5. store' = [store EXCEPT ![f] = r]
    BY <1>1, <1>2, <1>3
<1>6. /\ store'[f] = r /\ \A g \in Family \ {f} : store'[g] = store[g]
      /\ \A g \in Family : GoodStore(store[g])
    BY <1>2, <1>4, <1>5, OneChanges
<1>7. ASSUME NEW g \in Family
      PROVE  /\ GoodStore(store'[g])
             /\ \A d \in Doc : Find(store'[g], d) = Find(store[g], d)
             /\ \A d \in Doc : Remembers(store[g], d) => Remembers(store'[g], d)
             /\ Comebacks(store'[g]) \subseteq Comebacks(store[g])
    <2>1. CASE g = f
        BY <1>2, <1>4, <1>6, <2>1
    <2>2. CASE g # f
        <3>1. store'[g] = store[g] /\ GoodStore(store[g])
            BY <1>6, <2>2
        <3> QED
            BY <3>1
    <2> QED
        BY <2>1, <2>2
<1> DEFINE all == call = Idle /\ \A g \in Family : store'[g].synced = Len(store'[g].log)
<1>8. CASE SyncDelta \/ (all /\ \E g \in Family : GroupCommit(g))
    <2>1. /\ Acknowledge /\ UNCHANGED <<bits, bitsDisk, logical>> /\ bitsDisk = bits
          /\ call.at # "cover" /\ call'.at # "cover"
          /\ \A g \in Family : store'[g].synced = Len(store'[g].log)
        <3>1. CASE SyncDelta
            <4>1. /\ call.at = "delta" /\ call'.at = "idle"
                  /\ Acknowledge /\ UNCHANGED <<bits, bitsDisk, logical>>
                BY <3>1 DEF SyncDelta, Idle
            <4>2. /\ bitsDisk = bits
                  /\ store["primary"].synced = Len(store["primary"].log)
                BY <4>1 DEF OrderInv, Flushing
            <4>3. \A g \in Family : store'[g].synced = Len(store'[g].log)
                BY <1>1, <1>4, <1>6, <3>1, <4>2 DEF Family
            <4> QED
                BY <4>1, <4>2, <4>3
        <3>2. CASE all /\ \E g \in Family : GroupCommit(g)
            <4>1. /\ mode.group /\ Acknowledge
                  /\ UNCHANGED <<bits, bitsDisk, logical, call>>
                BY <3>2 DEF GroupCommit
            <4>2. bits = {} /\ bitsDisk = {}
                BY <4>1 DEF Alone, TypeOK, OrderInv, BitsUsed
            <4> QED
                BY <3>2, <4>1, <4>2 DEF Idle
        <3> QED
            BY <1>8, <3>1, <3>2
    <2> HIDE DEF all
    <2> QED
        BY <1>7, <2>1, AcknowledgeTracks
<1>9. CASE SyncPrimary \/ (~all /\ \E g \in Family : GroupCommit(g))
    <2>1. UNCHANGED <<mode, bits, bitsDisk, touched, may, logical>>
        <3>1. CASE SyncPrimary
            BY <3>1 DEF SyncPrimary, histVars
        <3>2. CASE ~all /\ \E g \in Family : GroupCommit(g)
            BY <3>2 DEF GroupCommit
        <3> QED
            BY <1>9, <3>1, <3>2
    <2>2. call' = call \/ call'.at # "cover"
        BY <1>9 DEF SyncPrimary, GroupCommit, TypeOK, Calls
    <2>3. call.at = "cover" => Head(call.todo).doc \in Doc
        BY HeadOp DEF ReadInv, HalfDone
    <2>4. \A d \in Doc : may[d] \subseteq may'[d] /\ logical'[d] \in may'[d]
        BY <2>1 DEF TrackInv, Tracked
    <2>5. /\ \A d \in Doc : /\ Find(store'["primary"], d) = Find(store["primary"], d)
                            /\ Find(store'["delta"], d) = Find(store["delta"], d)
          /\ Comebacks(store'["primary"]) \subseteq Comebacks(store["primary"])
          /\ Comebacks(store'["delta"]) \subseteq Comebacks(store["delta"])
        BY <1>7, Families
    <2> HIDE DEF all
    <2> QED
        BY <2>1, <2>2, <2>3, <2>4, <2>5, FewerTracked
<1> QED
    BY <1>8, <1>9

(* flush_primary. *)
LEMMA FlushTracks ==
    ASSUME TypeOK, OrderInv, TrackInv, FlushPrimary
    PROVE  TrackInv'
<1>1. /\ call.at # "cover" /\ call'.at # "cover"
      /\ store' = [store EXCEPT !["primary"] = Flushed(@)]
      /\ UNCHANGED <<mode, bits, bitsDisk, call, touched, may, logical>>
    BY DEF FlushPrimary, histVars, Idle
<1>2. PICK s : s = store["primary"] /\ GoodStore(s)
    BY Families
<1>3. PICK r : r = Flushed(s)
    OBVIOUS
<1>4. /\ \A d \in Doc : Find(r, d) = Find(s, d)
      /\ Comebacks(r) = {Finds(s)}
    BY <1>2, <1>3, FlushedStore
<1>5. store'["primary"] = r /\ store'["delta"] = store["delta"]
    BY <1>1, <1>2, <1>3 DEF TypeOK, Family
<1>6. \A d \in Doc : may[d] \subseteq may'[d] /\ logical'[d] \in may'[d]
    BY <1>1 DEF TrackInv, Tracked
<1>7. \A d \in Doc : /\ Find(store'["primary"], d) = Find(store["primary"], d)
                      /\ Find(store'["delta"], d) = Find(store["delta"], d)
    BY <1>2, <1>4, <1>5
<1>8. /\ Comebacks(store'["primary"]) = {Finds(store["primary"])}
      /\ Comebacks(store'["delta"]) \subseteq Comebacks(store["delta"])
    BY <1>2, <1>4, <1>5
<1> QED
    BY <1>1, <1>6, <1>7, <1>8, FewerTracked

(* compact: a document whose bit is not on disk is touched twice. *)
LEMMA CompactTracks ==
    ASSUME TypeOK, ReadInv, TrackInv, Apart, NEW e \in Doc, Compact(e)
    PROVE  TrackInv'
<1>1. /\ e \in bits /\ (mode.worker \/ call.at # "cover")
      /\ touched' = [touched EXCEPT ![e] = IF e \in bitsDisk THEN @ ELSE @ \cup {"segments"}]
      /\ UNCHANGED <<mode, bits, bitsDisk, call, may, logical>>
    BY DEF Compact
<1>2. call.at # "cover"
    BY <1>1 DEF ReadInv, BitsUsed, Apart, TypeOK
<1>3. PICK n \in 1..Len(store["primary"].seg[e]) :
          store' = [store EXCEPT !["primary"].seg[e] = SubSeq(@, n + 1, Len(@))]
    BY DEF Compact
<1>4. PICK s : s = store["primary"] /\ GoodStore(s)
    BY Families
<1>5. PICK r : r = [s EXCEPT !.seg[e] = SubSeq(@, n + 1, Len(@))]
    OBVIOUS
<1>6. store' = [store EXCEPT !["primary"] = r]
    BY <1>3, <1>4, <1>5
<1>7. store'["primary"] = r /\ store'["delta"] = store["delta"]
    BY <1>6 DEF TypeOK, Family
<1>8. n \in 1..Len(s.seg[e])
    BY <1>4
<1>9. \A d \in Doc \ {e} : Find(r, d) = Find(s, d)
    BY <1>4, <1>5, <1>8, CutStore
<1>10. \A b \in Comebacks(r) : \E c \in Comebacks(s) : \A d \in Doc \ {e} : b[d] = c[d]
    BY <1>4, <1>5, <1>8, CutStore
<1>11. HalfTouched'
    BY <1>1, <1>2 DEF HalfTouched
<1>12. touched'[e] = (IF e \in bitsDisk THEN touched[e] ELSE touched[e] \cup {"segments"})
       /\ \A d \in Doc \ {e} : touched'[d] = touched[d]
    BY <1>1 DEF TypeOK
<1>13. ASSUME NEW d \in Doc \ {e} PROVE Tracked(d)'
    <2>1. Tracked(d) /\ logical[d] \in may[d]
        BY DEF TrackInv, Tracked
    <2>2. \A b \in Comebacks(r) : \E a \in Comebacks(s) : b[d] = a[d]
        BY <1>10
    <2>3. /\ Find(store'["primary"], d) = Find(store["primary"], d)
          /\ \A b \in Comebacks(store'["primary"]) :
                 \E a \in Comebacks(store["primary"]) : b[d] = a[d]
        BY <1>4, <1>7, <1>9, <2>2
    <2>4. \A c \in Comebacks(store'["delta"]) : \E a \in Comebacks(store["delta"]) : c[d] = a[d]
        BY <1>7
    <2> QED
        BY <1>1, <1>7, <1>12, <2>1, <2>3, <2>4, KeptTracked
<1>14. Tracked(e)'
    <2>1. Tracked(e)
        BY DEF TrackInv
    <2>2. BitsTouched(e)' /\ DeltaTouched(e)' /\ PrimaryTouched(e)'
        BY <1>1, <1>7, <1>12, <2>1 DEF Tracked, BitsTouched, DeltaTouched, PrimaryTouched
    <2>3. Whole(e)'
        <3>1. CASE e \in bitsDisk
            BY <1>1, <1>12, <2>1, <3>1 DEF Tracked, Whole
        <3>2. CASE e \notin bitsDisk
            <4>1. "bits" \in touched'[e] /\ "segments" \in touched'[e]
                BY <1>1, <1>12, <2>1, <3>2 DEF Tracked, BitsTouched
            <4>2. ~OnePlace(touched'[e])
                BY <4>1 DEF OnePlace
            <4> QED
                BY <4>2 DEF Whole
        <3> QED
            BY <3>1, <3>2
    <2> QED
        BY <1>1, <2>1, <2>2, <2>3 DEF Tracked
<1> QED
    BY <1>11, <1>13, <1>14 DEF TrackInv

(* A restart. *)
LEMMA CrashTracks ==
    ASSUME TypeOK, Crash
    PROVE  TrackInv'
<1>1. PICK p, q : p = store'["primary"] /\ q = store'["delta"]
    OBVIOUS
<1>2. Comebacks(p) = {Finds(p)} /\ Comebacks(q) = {Finds(q)}
    BY <1>1, CrashStores, Families
<1>3. call'.at = "idle" /\ bits' = bitsDisk /\ bitsDisk' = bitsDisk
    BY DEF Crash, Idle
<1>4. ASSUME NEW d \in Doc PROVE Tracked(d)'
    <2>1. touched'[d] = {} /\ may'[d] = {View(d)'} /\ logical'[d] = View(d)'
        BY DEF Crash
    <2>2. View(d)' = IF d \in bitsDisk THEN NoDoc ELSE Read(Find(p, d), Find(q, d))
        BY <1>1, CrashViews
    <2>3. (\A b \in Comebacks(p) : b[d] = Find(p, d)) /\ \A c \in Comebacks(q) : c[d] = Find(q, d)
        BY <1>2 DEF Finds
    <2>4. BitsTouched(d)' /\ DeltaTouched(d)' /\ PrimaryTouched(d)'
        BY <1>1, <1>3, <2>3 DEF BitsTouched, DeltaTouched, PrimaryTouched
    <2>5. Whole(d)'
        BY <1>1, <1>3, <2>1, <2>2, <2>3 DEF Whole
    <2> QED
        BY <2>1, <2>4, <2>5 DEF Tracked
<1> QED
    BY <1>3, <1>4 DEF TrackInv, HalfTouched

(* Steps that leave the families and the bitmap, an error among them. *)
LEMMA OtherTracks ==
    ASSUME TypeOK, ReadInv, OrderInv, TrackInv,
           \/ UNCHANGED vars
           \/ \E d \in Doc : put(d) \/ patch(d) \/ delete(d) \/ get(d) \/ Evict(d)
           \/ write \/ flush_wal \/ Fail
    PROVE  TrackInv'
<1>1. UNCHANGED <<mode, store, bits, bitsDisk, touched>>
    <2>1. CASE UNCHANGED vars \/ write \/ flush_wal \/ Fail
        BY <2>1 DEF vars, histVars, write, Start, flush_wal, Fail
    <2>2. CASE \E d \in Doc : put(d) \/ patch(d) \/ delete(d) \/ get(d) \/ Evict(d)
        BY <2>2 DEF histVars, put, patch, delete, Start, get, Evict
    <2> QED
        BY <2>1, <2>2
<1>2. call' = call \/ call'.at # "cover"
    <2>1. CASE UNCHANGED vars \/ Fail
        BY <2>1 DEF vars, Fail, Idle
    <2>2. CASE write
        BY <2>2 DEF write, Start
    <2>3. CASE flush_wal
        BY <2>3 DEF flush_wal, Idle
    <2>4. CASE \E d \in Doc : put(d) \/ patch(d) \/ delete(d) \/ get(d) \/ Evict(d)
        BY <2>4 DEF put, patch, delete, Start, get, Evict
    <2> QED
        BY <2>1, <2>2, <2>3, <2>4
<1>3. \A d \in Doc : may[d] \subseteq may'[d] /\ logical'[d] \in may'[d]
    <2>1. CASE Fail
        BY <2>1 DEF Fail
    <2>2. CASE UNCHANGED vars \/ write \/ flush_wal
        <3>1. UNCHANGED <<may, logical>>
            BY <2>2 DEF vars, histVars, write, Start, flush_wal
        <3> QED
            BY <3>1 DEF TrackInv, Tracked
    <2>3. CASE \E d \in Doc : put(d) \/ patch(d) \/ delete(d) \/ get(d) \/ Evict(d)
        <3>1. UNCHANGED <<may, logical>>
            BY <2>3 DEF histVars, put, patch, delete, Start, get, Evict
        <3> QED
            BY <3>1 DEF TrackInv, Tracked
    <2> QED
        BY <2>1, <2>2, <2>3
<1>4. call.at = "cover" => Head(call.todo).doc \in Doc
    BY HeadOp DEF ReadInv, HalfDone
<1>5. /\ \A d \in Doc : /\ Find(store'["primary"], d) = Find(store["primary"], d)
                        /\ Find(store'["delta"], d) = Find(store["delta"], d)
      /\ Comebacks(store'["primary"]) \subseteq Comebacks(store["primary"])
      /\ Comebacks(store'["delta"]) \subseteq Comebacks(store["delta"])
    BY <1>1
<1> QED
    BY <1>1, <1>2, <1>3, <1>4, <1>5, FewerTracked

LEMMA StepTracks ==
    ASSUME Alone
    PROVE  TypeOK /\ ReadInv /\ OrderInv /\ TrackInv /\ lost = {} /\ ~FlushFails /\ [Next]_vars
               => TrackInv'
<1> SUFFICES ASSUME TypeOK, ReadInv, OrderInv, TrackInv, lost = {}, ~FlushFails, [Next]_vars
             PROVE  TrackInv'
    OBVIOUS
<1>1. CASE PutPrimary \/ PutCover \/ DeletePrimary \/ DeleteCover \/ PatchDelta
    BY <1>1, PutPrimaryTracks, PutCoverTracks, MarkTracks, BuryTracks, DeleteCoverTracks,
       PatchDeltaTracks
<1>2. CASE \/ FlushBits \/ SyncPrimary \/ SyncDelta \/ (\E f \in Family : GroupCommit(f))
           \/ FlushPrimary \/ Crash
    BY <1>2, FlushBitsTracks, SyncTracks, FlushTracks, CrashTracks
<1>3. CASE \E d \in Doc : Compact(d)
    <2>1. Apart
        BY DEF Alone, Apart
    <2> QED
        BY <1>3, <2>1, CompactTracks
<1>4. CASE \/ UNCHANGED vars
           \/ \E d \in Doc : put(d) \/ patch(d) \/ delete(d) \/ get(d) \/ Evict(d)
           \/ write \/ flush_wal \/ Fail
    BY <1>4, OtherTracks
<1> QED
    BY <1>1, <1>2, <1>3, <1>4 DEF Next

LEMMA CrashIsWhole ==
    ASSUME TypeOK, TrackInv, Crash, NEW d \in Doc, Cardinality(touched[d]) <= 1
    PROVE  View(d)' \in may[d]
<1>1. OnePlace(touched[d])
    <2> SUFFICES ASSUME NEW x \in touched[d], NEW y \in touched[d], x # y PROVE FALSE
        BY DEF OnePlace
    <2>1. {x, y} \subseteq touched[d] /\ IsFiniteSet(touched[d])
        <3>1. touched[d] \subseteq {"primary", "delta", "bits", "segments"}
            BY DEF TypeOK
        <3>2. IsFiniteSet({"primary", "delta", "bits", "segments"})
            <4>1. IsFiniteSet({"primary"})
                BY FS_Singleton
            <4>2. {"primary", "delta", "bits", "segments"} =
                      (({"primary"} \cup {"delta"}) \cup {"bits"}) \cup {"segments"}
                OBVIOUS
            <4>3. IsFiniteSet({"primary"} \cup {"delta"})
                BY <4>1, FS_AddElement
            <4>4. IsFiniteSet(({"primary"} \cup {"delta"}) \cup {"bits"})
                BY <4>3, FS_AddElement
            <4>5. IsFiniteSet((({"primary"} \cup {"delta"}) \cup {"bits"}) \cup {"segments"})
                BY <4>4, FS_AddElement
            <4> QED
                BY <4>2, <4>5
        <3> QED
            BY <3>1, <3>2, FS_Subset
    <2>2. Cardinality({x, y}) = 2 /\ IsFiniteSet({x})
        <3>1. IsFiniteSet({x}) /\ Cardinality({x}) = 1
            BY FS_Singleton
        <3>2. {x} \cup {y} = {x, y} /\ y \notin {x}
            OBVIOUS
        <3> QED
            BY <3>1, <3>2, FS_AddElement
    <2>3. Cardinality({x, y}) <= Cardinality(touched[d])
        BY <2>1, FS_Subset
    <2>4. Cardinality(touched[d]) \in Nat
        BY <2>1, FS_CardinalityType
    <2> QED
        BY <2>2, <2>3, <2>4
<1>2. Whole(d)
    BY DEF TrackInv, Tracked
<1>3. View(d)' = IF d \in bitsDisk THEN NoDoc
                 ELSE Read(Find(store'["primary"], d), Find(store'["delta"], d))
    BY CrashViews
<1>4. /\ Finds(store'["primary"]) \in Comebacks(store["primary"])
      /\ Finds(store'["delta"]) \in Comebacks(store["delta"])
    BY CrashStores, Families
<1>5. /\ Finds(store'["primary"])[d] = Find(store'["primary"], d)
      /\ Finds(store'["delta"])[d] = Find(store'["delta"], d)
    BY DEF Finds
<1> QED
    BY <1>1, <1>2, <1>3, <1>4, <1>5 DEF Whole

(* Without the deletion bitmap, whatever files were touched, one of the    *)
(* documents it may be has the primary version that a crash leaves.        *)
HalfDeleted ==
    call.at = "cover" /\ Head(call.todo).kind = "delete" =>
        \A b \in Comebacks(store["primary"]) : b[Head(call.todo).doc] = 0
Based == \A d \in Doc : \A b \in Comebacks(store["primary"]) : \E c \in may[d] : c.base = b[d]
BaseInv == ~mode.bitmap => HalfDeleted /\ Based

(* Steps in which the primary family gains no comeback that the documents  *)
(* do not have.                                                            *)
LEMMA KeptBased ==
    ASSUME BaseInv, mode' = mode, ~mode.bitmap,
           call' = call \/ call'.at # "cover",
           \A d \in Doc : may[d] \subseteq may'[d],
           Comebacks(store'["primary"]) \subseteq Comebacks(store["primary"])
    PROVE  BaseInv'
<1>1. Based'
    BY DEF BaseInv, Based
<1>2. HalfDeleted'
    BY DEF BaseInv, HalfDeleted
<1> QED
    BY <1>1, <1>2 DEF BaseInv

LEMMA InitBased == Init => BaseInv
<1> SUFFICES ASSUME Init PROVE BaseInv
    OBVIOUS
<1>1. /\ store["primary"] = EmptyStore /\ GoodStore(EmptyStore)
      /\ \A d \in Doc : Remembers(EmptyStore, d) /\ Find(EmptyStore, d) = 0
    <2>1. TypeOK /\ OrderInv
        BY InitTyped, InitOrder
    <2>2. store["primary"] = EmptyStore /\ GoodStore(EmptyStore) /\ bits = {}
        BY <2>1 DEF Init, TypeOK, Family, GoodStore
    <2>3. \A d \in Doc : Remembers(EmptyStore, d)
        BY <2>1, <2>2 DEF OrderInv, LogsInMemory
    <2>4. \A d \in Doc : Find(EmptyStore, d) = 0
        <3> TAKE d \in Doc
        <3>1. EmptyStore.mem[d] = <<>> /\ EmptyStore.seg[d] = <<>>
            BY DEF EmptyStore
        <3>2. <<>> \o <<>> \o <<0>> = <<0>> /\ Head(<<0>>) = 0
            OBVIOUS
        <3> QED
            BY <3>1, <3>2 DEF Find
    <2> QED
        BY <2>2, <2>3, <2>4
<1>2. EmptyStore.synced = Len(EmptyStore.log)
    BY DEF EmptyStore
<1>3. Comebacks(EmptyStore) = {Finds(EmptyStore)}
    BY <1>1, <1>2, WholeStore
<1>4. Based
    <2> SUFFICES ASSUME NEW d \in Doc PROVE \E c \in may[d] : c.base = 0
        BY <1>1, <1>3 DEF Based, Finds
    <2>1. may[d] = {NoDoc} /\ NoDoc.base = 0
        BY DEF Init, NoDoc
    <2> QED
        BY <2>1
<1>5. HalfDeleted
    BY DEF Init, Idle, HalfDeleted
<1> QED
    BY <1>4, <1>5 DEF BaseInv

(* put_nosync, first half. *)
LEMMA PutPrimaryBased ==
    ASSUME TypeOK, OrderInv, BaseInv, ~mode.bitmap, PutPrimary
    PROVE  BaseInv'
<1>0. PICK o : o = Head(call.todo)
    OBVIOUS
<1>1. PICK e, v : e = o.doc /\ v = o.version
    OBVIOUS
<1>2. PICK places : Becomes(e, [base |-> v, patch |-> 0], places)
    BY <1>0, <1>1 DEF PutPrimary
<1>3. /\ call.at = "op" /\ call.todo # <<>> /\ o.kind = "put"
      /\ call' = [call EXCEPT !.at = "cover"]
      /\ mode' = mode
    BY <1>0 DEF PutPrimary, Here
<1>4. e \in Doc /\ v \in Version
    BY <1>0, <1>1, <1>3, HeadOp
<1>5. /\ may'[e] = may[e] \cup {[base |-> v, patch |-> 0]}
      /\ \A d \in Doc \ {e} : may'[d] = may[d]
    BY <1>2, <1>4 DEF Becomes, TypeOK
<1>6. PICK s : s = store["primary"] /\ GoodStore(s)
    BY Families
<1>7. PICK r \in PutBytes(s, e, v) : store' = [store EXCEPT !["primary"] = r]
    BY <1>0, <1>1, <1>6 DEF PutPrimary
<1>8. store'["primary"] = r
    BY <1>7 DEF TypeOK, Family
<1>9. \A b \in Comebacks(r) : \/ b \in Comebacks(s)
                              \/ b = [After(s, Len(s.log)) EXCEPT ![e] = v]
                              \/ b = [Finds(s) EXCEPT ![e] = v]
    BY <1>4, <1>6, <1>7, PutStore
<1>10. After(s, Len(s.log)) = Finds(s) /\ Finds(s) \in Comebacks(s)
    BY <1>6, AllInMemory
<1>11. Based'
    <2> SUFFICES ASSUME NEW d \in Doc, NEW b \in Comebacks(r)
                 PROVE  \E c \in may'[d] : c.base = b[d]
        BY <1>8 DEF Based
    <2>1. CASE b \in Comebacks(s)
        BY <1>5, <1>6, <2>1 DEF BaseInv, Based
    <2>2. CASE b = [Finds(s) EXCEPT ![e] = v]
        <3>1. b[d] = IF d = e THEN v ELSE Finds(s)[d]
            BY <2>2 DEF Finds
        <3>2. CASE d = e
            <4>1. [base |-> v, patch |-> 0] \in may'[d] /\ [base |-> v, patch |-> 0].base = v
                BY <1>5, <3>2
            <4> QED
                BY <3>1, <3>2, <4>1
        <3>3. CASE d # e
            BY <1>5, <1>6, <1>10, <3>1, <3>3 DEF BaseInv, Based
        <3> QED
            BY <3>2, <3>3
    <2> QED
        BY <1>9, <1>10, <2>1, <2>2
<1>12. HalfDeleted'
    <2>1. Head(call'.todo).kind = "put"
        BY <1>0, <1>3 DEF TypeOK, Calls
    <2> QED
        BY <2>1 DEF HalfDeleted
<1> QED
    BY <1>11, <1>12 DEF BaseInv

(* delete, first half: the tombstone is on disk. *)
LEMMA DeletePrimaryBased ==
    ASSUME TypeOK, OrderInv, BaseInv, ~mode.bitmap, DeletePrimary
    PROVE  BaseInv'
<1>0. PICK o : o = Head(call.todo)
    OBVIOUS
<1>1. PICK e : e = o.doc
    OBVIOUS
<1>2. Becomes(e, NoDoc, {"primary"})
    BY <1>0, <1>1 DEF DeletePrimary
<1>3. /\ call.todo # <<>> /\ o.kind = "delete"
      /\ call' = [call EXCEPT !.at = "cover"]
      /\ mode' = mode
    BY <1>0 DEF DeletePrimary, Here
<1>4. e \in Doc
    BY <1>0, <1>1, <1>3, HeadOp
<1>5. /\ may'[e] = may[e] \cup {NoDoc} /\ NoDoc.base = 0
      /\ \A d \in Doc \ {e} : may'[d] = may[d]
    BY <1>2, <1>4 DEF Becomes, TypeOK, NoDoc
<1>6. PICK s : s = store["primary"] /\ GoodStore(s)
    BY Families
<1>7. PICK r : r = Synced(Written(s, e, 0))
    OBVIOUS
<1>8. store'["primary"] = r
    BY <1>0, <1>1, <1>6, <1>7 DEF DeletePrimary, TypeOK, Family
<1>9. /\ \A d \in Doc : Remembers(s, d)
      /\ Finds(s) \in Comebacks(s)
    BY <1>6, AllInMemory
<1>10. /\ \A d \in Doc : Find(r, d) = IF d = e THEN 0 ELSE Find(s, d)
       /\ Comebacks(r) = {Finds(r)}
    BY <1>4, <1>6, <1>7, <1>9, BuriedStore
<1>11. Based'
    <2> SUFFICES ASSUME NEW d \in Doc PROVE \E c \in may'[d] : c.base = Find(r, d)
        BY <1>8, <1>10 DEF Based, Finds
    <2>1. CASE d = e
        BY <1>5, <1>10, <2>1
    <2>2. CASE d # e
        <3>1. Finds(s)[d] = Find(r, d)
            BY <1>10, <2>2 DEF Finds
        <3> QED
            BY <1>5, <1>6, <1>9, <2>2, <3>1 DEF BaseInv, Based
    <2> QED
        BY <2>1, <2>2
<1>12. HalfDeleted'
    <2>1. Head(call'.todo).doc = e
        BY <1>0, <1>1, <1>3 DEF TypeOK, Calls
    <2>2. Finds(r)[e] = 0
        BY <1>4, <1>10 DEF Finds
    <2> QED
        BY <1>8, <1>10, <2>1, <2>2 DEF HalfDeleted
<1> QED
    BY <1>11, <1>12 DEF BaseInv

(* delete, second half: the deletion is acknowledged. *)
LEMMA DeleteCoverBased ==
    ASSUME TypeOK, BaseInv, ~mode.bitmap, DeleteCover
    PROVE  BaseInv'
<1>0. PICK e : e = Head(call.todo).doc
    OBVIOUS
<1>1. /\ call.at = "cover" /\ call.todo # <<>> /\ Head(call.todo).kind = "delete" /\ OpDone
      /\ may' = [may EXCEPT ![e] = {NoDoc}] /\ mode' = mode
    BY <1>0 DEF DeleteCover, Here
<1>2. e \in Doc /\ call'.at # "cover"
    BY <1>0, <1>1, HeadOp, CallTyped
<1>3. store'["primary"] = store["primary"]
    BY DEF DeleteCover, TypeOK, Family
<1>4. may'[e] = {NoDoc} /\ NoDoc.base = 0 /\ \A d \in Doc \ {e} : may'[d] = may[d]
    BY <1>1, <1>2 DEF TypeOK, NoDoc
<1>5. \A b \in Comebacks(store["primary"]) : b[e] = 0
    BY <1>0, <1>1 DEF BaseInv, HalfDeleted
<1>6. Based'
    <2> SUFFICES ASSUME NEW d \in Doc, NEW b \in Comebacks(store["primary"])
                 PROVE  \E c \in may'[d] : c.base = b[d]
        BY <1>3 DEF Based
    <2>1. CASE d = e
        BY <1>4, <1>5, <2>1
    <2>2. CASE d # e
        BY <1>4, <2>2 DEF BaseInv, Based
    <2> QED
        BY <2>1, <2>2
<1> QED
    BY <1>2, <1>6 DEF BaseInv, HalfDeleted

(* Everything that is acknowledged is on disk as it is found. *)
LEMMA AcknowledgeBased ==
    ASSUME TypeOK, ReadInv, ~mode.bitmap, lost = {}, Acknowledge, UNCHANGED mode,
           call.at # "cover", call'.at # "cover",
           Comebacks(store'["primary"]) = {Finds(store["primary"])}
    PROVE  BaseInv'
<1>1. Based'
    <2> SUFFICES ASSUME NEW d \in Doc
                 PROVE  \E c \in may'[d] : c.base = Find(store["primary"], d)
        BY DEF Based, Finds
    <2>1. may'[d] = {logical[d]}
        BY DEF Acknowledge
    <2>2. logical[d] = Read(Find(store["primary"], d), Find(store["delta"], d))
        <3>1. ~Halfway(d) /\ bits = {}
            BY DEF Halfway, ReadInv, BitsUsed
        <3> QED
            BY <3>1, ReadIs DEF ReadInv, Shown
    <2>3. logical[d].base = Find(store["primary"], d)
        BY <2>2 DEF Read, NoDoc
    <2> QED
        BY <2>1, <2>3
<1> QED
    BY <1>1 DEF BaseInv, HalfDeleted

(* A log reaches the disk, or the memtable a segment. *)
LEMMA SyncBased ==
    ASSUME TypeOK, ReadInv, OrderInv, BaseInv, ~mode.bitmap, lost = {},
           \/ SyncPrimary \/ SyncDelta \/ FlushPrimary \/ \E f \in Family : GroupCommit(f)
    PROVE  BaseInv'
<1>1. PICK s : s = store["primary"] /\ GoodStore(s)
    BY Families
<1>2. PICK r : r = store'["primary"]
    OBVIOUS
<1>3. /\ \A d \in Doc : Remembers(s, d)
      /\ Finds(s) \in Comebacks(s)
    BY <1>1, AllInMemory
<1>4. /\ Comebacks(r) \subseteq Comebacks(s)
      /\ r.synced = Len(r.log) => Comebacks(r) = {Finds(s)}
    <2>1. CASE r = s
        BY <1>1, <1>3, <2>1, WholeStore
    <2>2. CASE r = Synced(s)
        <3>1. /\ GoodStore(r) /\ Comebacks(r) \subseteq Comebacks(s)
              /\ r.synced = Len(r.log)
              /\ \A d \in Doc : Find(r, d) = Find(s, d) /\ Remembers(r, d)
            BY <1>1, <1>3, <2>2, SyncedStore
        <3>2. Comebacks(r) = {Finds(r)}
            BY <3>1, WholeStore
        <3>3. Finds(r) = Finds(s)
            BY <3>1 DEF Finds
        <3> QED
            BY <3>1, <3>2, <3>3
    <2>3. CASE r = Flushed(s)
        BY <1>1, <1>3, <2>3, FlushedStore
    <2>4. r = s \/ r = Synced(s) \/ r = Flushed(s)
        <3>1. CASE SyncPrimary \/ SyncDelta \/ FlushPrimary
            BY <1>1, <1>2, <3>1, Families DEF SyncPrimary, SyncDelta, FlushPrimary, TypeOK, Family
        <3>2. CASE \E f \in Family : GroupCommit(f)
            BY <1>1, <1>2, <3>2, Families DEF GroupCommit, TypeOK, Family
        <3> QED
            BY <3>1, <3>2
    <2> QED
        BY <2>1, <2>2, <2>3, <2>4
<1>5. /\ mode' = mode
      /\ call' = call \/ call'.at # "cover"
    BY DEF SyncPrimary, SyncDelta, FlushPrimary, GroupCommit, TypeOK, Calls, Idle
<1>6. \/ may' = may
      \/ /\ Acknowledge /\ call.at # "cover" /\ call'.at # "cover"
         /\ r.synced = Len(r.log)
    <2>1. CASE SyncPrimary \/ FlushPrimary
        BY <2>1 DEF SyncPrimary, FlushPrimary, histVars
    <2>2. CASE SyncDelta
        <3>1. /\ call.at = "delta" /\ call'.at = "idle" /\ Acknowledge
              /\ store'["primary"] = store["primary"]
            BY <2>2 DEF SyncDelta, Idle, TypeOK, Family
        <3>2. store["primary"].synced = Len(store["primary"].log)
            BY <3>1 DEF OrderInv, Flushing
        <3> QED
            BY <1>2, <3>1, <3>2
    <2>3. CASE \E f \in Family : GroupCommit(f)
        BY <1>2, <2>3, Families DEF GroupCommit, Idle
    <2> QED
        BY <2>1, <2>2, <2>3
<1>7. CASE may' = may
    BY <1>1, <1>2, <1>4, <1>5, <1>7, KeptBased
<1>8. CASE /\ Acknowledge /\ call.at # "cover" /\ call'.at # "cover"
           /\ r.synced = Len(r.log)
    BY <1>1, <1>2, <1>4, <1>5, <1>8, AcknowledgeBased
<1> QED
    BY <1>6, <1>7, <1>8

(* A restart. *)
LEMMA CrashBased ==
    ASSUME TypeOK, BitsUsed, ~mode.bitmap, Crash
    PROVE  BaseInv' /\ \A d \in Doc : View(d)'.base = Finds(store'["primary"])[d]
<1>1. /\ Comebacks(store'["primary"]) = {Finds(store'["primary"])}
      /\ call'.at = "idle" /\ bitsDisk = {}
      /\ \A d \in Doc : may'[d] = {View(d)'}
    BY CrashStores, Families DEF Crash, Idle, BitsUsed
<1>2. \A d \in Doc : View(d)'.base = Finds(store'["primary"])[d]
    <2> TAKE d \in Doc
    <2>1. View(d)' = Read(Find(store'["primary"], d), Find(store'["delta"], d))
        BY <1>1, CrashViews
    <2>2. View(d)'.base = Find(store'["primary"], d)
        BY <2>1 DEF Read, NoDoc
    <2> QED
        BY <2>2 DEF Finds
<1>3. Based'
    BY <1>1, <1>2 DEF Based
<1> QED
    BY <1>1, <1>2, <1>3 DEF BaseInv, HalfDeleted

(* Everything else leaves the primary family. *)
LEMMA OtherBased ==
    ASSUME TypeOK, BaseInv, ~mode.bitmap,
           \/ PutCover \/ PatchDelta \/ FlushBits \/ Fail \/ UNCHANGED vars
           \/ \E d \in Doc : put(d) \/ patch(d) \/ delete(d) \/ get(d) \/ Evict(d)
           \/ write \/ flush_wal
    PROVE  BaseInv'
<1>1. mode' = mode /\ store'["primary"] = store["primary"]
    <2>1. CASE PutCover \/ PatchDelta
        BY <2>1 DEF PutCover, PatchDelta, TypeOK, Family
    <2>2. CASE FlushBits \/ Fail \/ UNCHANGED vars \/ write \/ flush_wal
        BY <2>2 DEF FlushBits, Fail, vars, write, Start, flush_wal
    <2>3. CASE \E d \in Doc : put(d) \/ patch(d) \/ delete(d) \/ get(d) \/ Evict(d)
        BY <2>3 DEF put, patch, delete, Start, get, Evict
    <2> QED
        BY <2>1, <2>2, <2>3
<1>2. call' = call \/ call'.at # "cover"
    <2>1. CASE PutCover \/ PatchDelta
        <3>1. call.todo # <<>> /\ OpDone
            BY <2>1 DEF PutCover, PatchDelta, Here
        <3> QED
            BY <3>1, CallTyped
    <2>2. CASE UNCHANGED vars \/ Fail
        BY <2>2 DEF vars, Fail, Idle
    <2>3. CASE write
        BY <2>3 DEF write, Start
    <2>4. CASE flush_wal \/ FlushBits
        BY <2>4 DEF flush_wal, FlushBits, Idle, TypeOK, Calls
    <2>5. CASE \E d \in Doc : put(d) \/ patch(d) \/ delete(d) \/ get(d) \/ Evict(d)
        BY <2>5 DEF put, patch, delete, Start, get, Evict
    <2> QED
        BY <2>1, <2>2, <2>3, <2>4, <2>5
<1>3. \A d \in Doc : may[d] \subseteq may'[d]
    <2>1. CASE PatchDelta
        BY <2>1 DEF PatchDelta, Becomes, TypeOK
    <2>2. CASE Fail
        BY <2>2 DEF Fail
    <2>3. CASE PutCover \/ FlushBits \/ UNCHANGED vars \/ write \/ flush_wal
        BY <2>3 DEF PutCover, FlushBits, vars, histVars, write, Start, flush_wal
    <2>4. CASE \E d \in Doc : put(d) \/ patch(d) \/ delete(d) \/ get(d) \/ Evict(d)
        BY <2>4 DEF put, patch, delete, Start, get, Evict, histVars
    <2> QED
        BY <2>1, <2>2, <2>3, <2>4
<1> QED
    BY <1>1, <1>2, <1>3, KeptBased

LEMMA StepBased ==
    TypeOK /\ ReadInv /\ OrderInv /\ BaseInv /\ ~mode.bitmap /\ lost = {} /\ ~FlushFails
        /\ [Next]_vars => BaseInv'
<1> SUFFICES ASSUME TypeOK, ReadInv, OrderInv, BaseInv, ~mode.bitmap, lost = {}, ~FlushFails,
                    [Next]_vars
             PROVE  BaseInv'
    OBVIOUS
<1>1. CASE PutPrimary \/ DeletePrimary \/ DeleteCover
    BY <1>1, PutPrimaryBased, DeletePrimaryBased, DeleteCoverBased
<1>2. CASE \/ SyncPrimary \/ SyncDelta \/ FlushPrimary \/ \E f \in Family : GroupCommit(f)
    BY <1>2, SyncBased
<1>3. CASE Crash
    BY <1>3, CrashBased DEF ReadInv
<1>4. CASE \E d \in Doc : Compact(d)
    BY <1>4 DEF Compact, ReadInv, BitsUsed
<1>5. CASE \/ PutCover \/ PatchDelta \/ FlushBits \/ Fail \/ UNCHANGED vars
           \/ \E d \in Doc : put(d) \/ patch(d) \/ delete(d) \/ get(d) \/ Evict(d)
           \/ write \/ flush_wal
    BY <1>5, OtherBased
<1> QED
    BY <1>1, <1>2, <1>3, <1>4, <1>5 DEF Next

LEMMA CrashIsBased ==
    ASSUME TypeOK, BitsUsed, BaseInv, ~mode.bitmap, Crash, NEW d \in Doc
    PROVE  \E c \in may[d] : View(d)'.base = c.base
<1>1. Finds(store'["primary"]) \in Comebacks(store["primary"])
    BY CrashStores, Families
<1>2. View(d)'.base = Finds(store'["primary"])[d]
    BY CrashBased
<1> QED
    BY <1>1, <1>2 DEF BaseInv, Based

LEMMA LostBased ==
    TypeOK /\ BitsUsed /\ ~mode.bitmap /\ ReadInv /\ (lost = {} => OrderInv /\ BaseInv)
        /\ [Next]_vars
    => (ReadInv /\ (lost = {} => OrderInv /\ BaseInv))'
<1> SUFFICES ASSUME TypeOK, BitsUsed, ~mode.bitmap, ReadInv, lost = {} => OrderInv /\ BaseInv,
                    [Next]_vars
             PROVE  ReadInv' /\ (lost' = {} => OrderInv' /\ BaseInv')
    OBVIOUS
<1>1. ReadInv'
    BY StepReads
<1>2. ASSUME lost' = {} PROVE OrderInv' /\ BaseInv'
    <2>1. CASE Crash
        BY <2>1, BitsStep, CrashOrder, CrashBased
    <2>2. CASE ~Crash
        <3>1. lost = {} /\ ~FlushFails
            BY <1>2, <2>2, LostStep
        <3> QED
            BY <3>1, StepOrder, StepBased
    <2> QED
        BY <2>1, <2>2
<1> QED
    BY <1>1, <1>2

(* With tombstones, whichever of the logs were ahead of each other, a      *)
(* crash at any moment of any call, batch or group commit leaves a         *)
(* document that has been put since it was last acknowledged, if not with  *)
(* the patches it then had: put_nosync may lose patches of a document that *)
(* comes back, and flush_wal may bring back the document without them, but *)
(* an acknowledged document is neither lost nor older.                     *)
THEOREM BasesComeBack ==
    Spec => [][Crash /\ ~mode.bitmap /\ lost = {} =>
                   \A d \in Doc : \E c \in may[d] : View(d)'.base = c.base]_vars
<1> DEFINE Inv == /\ TypeOK /\ BitsUsed
                  /\ ~mode.bitmap => ReadInv /\ (lost = {} => OrderInv /\ BaseInv)
<1>1. Init => Inv
    BY InitTyped, InitReads, InitOrder, InitBased DEF OrderInv
<1>2. Inv /\ [Next]_vars => Inv'
    BY StepTyped, BitsStep, LostBased
<1>3. Inv /\ [Next]_vars =>
          [Crash /\ ~mode.bitmap /\ lost = {} =>
               \A d \in Doc : \E c \in may[d] : View(d)'.base = c.base]_vars
    BY CrashIsBased
<1> HIDE DEF Inv
<1> QED
    BY <1>1, <1>2, <1>3, PTL DEF Spec

(* The same of whole documents, patches included, where one file alone has *)
(* been touched, if the bitmap has neither the worker nor the thread       *)
(* beside it.                                                              *)
LEMMA CrashesAreWhole ==
    ASSUME TypeOK, BitsUsed, lost = {} => TrackInv /\ BaseInv
    PROVE  Crash /\ lost = {} =>
               \A d \in Doc : /\ Cardinality(touched[d]) <= 1 => View(d)' \in may[d]
                              /\ ~mode.bitmap => \E c \in may[d] : View(d)'.base = c.base
BY CrashIsWhole, CrashIsBased

LEMMA LostTracks ==
    ASSUME Alone
    PROVE  TypeOK /\ ReadInv /\ (lost = {} => OrderInv /\ TrackInv /\ BaseInv) /\ [Next]_vars
           => (ReadInv /\ (lost = {} => OrderInv /\ TrackInv /\ BaseInv))'
<1> SUFFICES ASSUME TypeOK, ReadInv, lost = {} => OrderInv /\ TrackInv /\ BaseInv, [Next]_vars
             PROVE  ReadInv' /\ (lost' = {} => OrderInv' /\ TrackInv' /\ BaseInv')
    OBVIOUS
<1>1. ReadInv'
    BY StepReads DEF Alone, TypeOK
<1>2. BitsUsed /\ BitsUsed' /\ mode' = mode
    BY BitsStep DEF ReadInv
<1>3. ASSUME lost' = {} PROVE OrderInv' /\ TrackInv' /\ BaseInv'
    <2>1. CASE Crash
        <3>1. mode.bitmap => BaseInv'
            BY <1>2 DEF BaseInv
        <3> QED
            BY <1>2, <2>1, <3>1, CrashOrder, CrashTracks, CrashBased
    <2>2. CASE ~Crash
        <3>1. lost = {} /\ ~FlushFails
            BY <1>3, <2>2, LostStep
        <3>2. mode.bitmap => BaseInv'
            BY <1>2 DEF BaseInv
        <3> QED
            BY <3>1, <3>2, StepOrder, StepTracks, StepBased
    <2> QED
        BY <2>1, <2>2
<1> QED
    BY <1>1, <1>3

THEOREM ComesBackWhole ==
    ASSUME Alone
    PROVE  Spec => RecoversWhole
<1> DEFINE Inv == TypeOK /\ ReadInv /\ (lost = {} => OrderInv /\ TrackInv /\ BaseInv)
<1>1. Init => Inv
    BY InitTyped, InitReads, InitOrder, InitTracks, InitBased
<1>2. Inv /\ [Next]_vars => Inv'
    BY StepTyped, LostTracks
<1>3. Inv /\ [Next]_vars =>
          [Crash /\ lost = {} =>
               \A d \in Doc : /\ Cardinality(touched[d]) <= 1 => View(d)' \in may[d]
                              /\ ~mode.bitmap => \E c \in may[d] : View(d)'.base = c.base]_vars
    BY CrashesAreWhole DEF ReadInv
<1> HIDE DEF Inv
<1> QED
    BY <1>1, <1>2, <1>3, PTL DEF Spec, RecoversWhole
=============================================================================
