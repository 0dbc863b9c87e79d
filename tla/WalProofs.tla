----------------------------- MODULE WalProofs -----------------------------
(***************************************************************************)
(* Theorems about Wal, for any ring and any number of calls and restarts:  *)
(* what was synced survives, what a restart replays is in order, and no    *)
(* call finds the log full.  They hold where the ring has one record in a  *)
(* sync, no deletions that only a bitmap keeps and an fsync that is all or *)
(* nothing, and where a crash leaves whole records in the log that grows.  *)
(***************************************************************************)
EXTENDS Wal, WellFoundedInduction, TLAPS

Careful ==
    \A s \in Settings :
        /\ s.mode = "ring" => ~s.group /\ ~s.bitmap /\ ~s.split
        /\ s.mode = "append" => ~s.torn

Entries == [no : 0..MaxWrites, seq : 1..MaxWrites, len : Lengths]
Wals ==
    [next : Nat \ {0}, pending : Seq(Entries), bytes : Nat, tail : 0..Size,
     flushed : Nat, written : Nat]
Disks ==
    [log : Seq(Entries), next : Nat \ {0}, tail : 0..Size,
     cells : [Offsets -> Entries \cup {Gap}]]
States ==
    [wal : Wals, disk : Disks, mem : SUBSET Entries, sst : SUBSET (0..MaxWrites),
     ext : Nat \ {0}, ok : BOOLEAN]

(* No counter is ahead of the engine's.                                    *)
Counted(s) ==
    /\ s.wal.next <= s.ext /\ s.disk.next <= s.ext
    /\ s.wal.flushed < s.ext /\ s.wal.written < s.ext
    /\ \A r \in s.mem : r.seq < s.ext

(* The log and the buffer ascend together, and what is in them is in the   *)
(* memtable or in a segment, unless only the bitmap needs it.              *)
Kept(s, r) == r.no = Mark \/ r \in s.mem \/ r.no \in s.sst
LogGood(s) ==
    /\ \A i \in DOMAIN s.disk.log : Kept(s, s.disk.log[i])
    /\ \A i \in DOMAIN s.wal.pending : Kept(s, s.wal.pending[i])
    /\ \A i \in DOMAIN s.disk.log : s.disk.log[i].seq \in s.disk.next..s.ext - 1
    /\ \A i \in DOMAIN s.wal.pending : s.wal.pending[i].seq \in s.disk.next..s.ext - 1
    /\ \A i, j \in DOMAIN s.disk.log : i < j => s.disk.log[i].seq < s.disk.log[j].seq
    /\ \A i, j \in DOMAIN s.wal.pending : i < j => s.wal.pending[i].seq < s.wal.pending[j].seq
    /\ \A i \in DOMAIN s.disk.log, j \in DOMAIN s.wal.pending :
          s.disk.log[i].seq < s.wal.pending[j].seq

(* The records of the ring's last lap follow each other from the start to  *)
(* the tail.                                                               *)
Follows(d, o) == \A S \in Followed(d) : o \in S
Chained(d) ==
    /\ Follows(d, d.tail)
    /\ \A o \in 0..Size : Follows(d, o) => o = d.tail \/ Whole(d, o)

(* They ascend and are in the memtable or in a segment.  What is in the    *)
(* memtable is not reported as flushed, and while something written is not *)
(* reported the memtable has the last record written.                      *)
RingGood(s) ==
    /\ s.disk.next = 1 /\ s.wal.tail = s.disk.tail
    /\ Chained(s.disk)
    /\ \A o, p \in Starts(s.disk) : o < p => s.disk.cells[o].seq < s.disk.cells[p].seq
    /\ \A o \in Starts(s.disk) :
          /\ s.disk.cells[o].seq <= s.wal.written
          /\ s.disk.cells[o] \in s.mem \/ s.disk.cells[o].no \in s.sst
    /\ \A r \in s.mem : s.wal.flushed < r.seq
    /\ s.wal.written > s.wal.flushed => \E r \in s.mem : r.seq = s.wal.written
    /\ s.wal.pending = <<>> => s.wal.bytes = 0
    /\ s.wal.pending # <<>> =>
          \E r \in Entries :
              /\ s.wal.pending = <<r>>
              /\ s.wal.written < r.seq /\ r.seq < s.ext
              /\ r \in s.mem \/ (r.no \in s.sst /\ r.seq <= s.wal.flushed)

Good(s) == s \in States /\ s.ok /\ Counted(s) /\ (IF Ring THEN RingGood(s) ELSE LogGood(s))

(* What a segment or a restart would have.                                 *)
Held(s) == s.sst \cup NosOf(Scan(s.disk))

Inv ==
    /\ setting \in Settings /\ refused = FALSE
    /\ waiting \subseteq 0..MaxWrites /\ acked \subseteq 1..MaxWrites
    /\ writes \in 0..MaxWrites /\ crashes \in 0..MaxCrashes
    /\ Good(State) /\ ext <= writes + 1
    /\ acked \subseteq Held(State)
    /\ waiting \ {Mark} \subseteq Held(State) \cup NosOf(ToSet(wal.pending))
    /\ Ring /\ waiting = {} => wal.pending = <<>>

-----------------------------------------------------------------------------
(* Numbers                                                                 *)

(* A nonempty set of numbers has a least element, and a bounded one a      *)
(* greatest.                                                               *)
LEMMA LeastExists ==
    ASSUME NEW S, S \subseteq Nat, S # {}
    PROVE  \E x \in S : \A y \in S : x <= y
<1>1. PICK x \in S : \A y \in S : ~(<<y, x>> \in OpToRel(<, Nat))
    BY NatLessThanWellFounded, WFMin, Zenon
<1>2. ASSUME NEW y \in S PROVE x <= y
    <2>1. <<y, x>> \notin OpToRel(<, Nat) /\ x \in Nat /\ y \in Nat
        BY <1>1
    <2> QED
        BY <2>1 DEF OpToRel
<1> QED
    BY <1>2

LEMMA MaxIs ==
    ASSUME NEW S, S \subseteq Nat, S # {}, NEW n \in Nat, \A y \in S : y <= n
    PROVE  Max(S) \in S /\ \A y \in S : y <= Max(S)
<1> DEFINE over == {k \in Nat : \A y \in S : y <= k}
<1>1. PICK k \in over : \A h \in over : k <= h
    <2>1. over # {} /\ over \subseteq Nat
        OBVIOUS
    <2> HIDE DEF over
    <2> QED
        BY <2>1, LeastExists
<1>2. k \in Nat /\ \A y \in S : y <= k
    OBVIOUS
<1>3. k \in S
    <2> SUFFICES ASSUME k \notin S PROVE FALSE
        OBVIOUS
    <2>1. \A y \in S : y \in Nat /\ y <= k - 1
        BY <1>2
    <2>2. k - 1 \in Nat
        <3>1. PICK y \in S : TRUE
            OBVIOUS
        <3> QED
            BY <3>1, <2>1, <1>2
    <2>3. k - 1 \in over
        BY <2>1, <2>2
    <2>4. k <= k - 1
        <3> HIDE DEF over
        <3> QED
            BY <1>1, <2>3
    <2> QED
        BY <2>4, <1>2
<1>4. \E x \in S : \A y \in S : x >= y
    BY <1>2, <1>3
<1> QED
    BY <1>4 DEF Max

LEMMA Bounds == Size \in Nat \ {0} /\ MaxWrites \in Nat /\ \A len \in Lengths : len \in 1..Size
    BY BoundsAssumption

-----------------------------------------------------------------------------
(* The ring                                                                *)

(* Cells after a record is written at an offset.                           *)
Placed(cells, a, r) ==
    [o \in Offsets |-> IF o = a THEN r
                       ELSE IF o < a + r.len /\ a < o + cells[o].len THEN Gap ELSE cells[o]]

LEMMA Closes ==
    ASSUME NEW d, NEW o \in 0..Size, Follows(d, o), Whole(d, o)
    PROVE  Follows(d, o + d.cells[o].len)
    BY DEF Follows, Followed

LEMMA BeginsAtZero == ASSUME NEW d PROVE Follows(d, 0)
    BY DEF Follows, Followed

LEMMA StartsAre ==
    ASSUME NEW d
    PROVE  Starts(d) = {o \in Offsets : Whole(d, o) /\ Follows(d, o)}
    BY DEF Starts, Follows

(* A record written at the tail is the next of the lap.                    *)
LEMMA ChainGrows ==
    ASSUME NEW d, NEW e, NEW r \in Entries,
           d.cells \in [Offsets -> Entries \cup {Gap}], d.tail \in 0..Size, Chained(d),
           d.tail + r.len <= Size, e.tail = d.tail + r.len, e.cells = Placed(d.cells, d.tail, r)
    PROVE  /\ Chained(e)
           /\ Starts(e) = Starts(d) \cup {d.tail}
           /\ \A o \in Starts(d) : o < d.tail /\ e.cells[o] = d.cells[o]
           /\ e.cells[d.tail] = r
<1>1. Size \in Nat /\ r.len \in 1..Size /\ r # Gap
    BY Bounds DEF Entries, Gap
<1>2. d.tail \in Offsets /\ e.tail \in 0..Size
    BY <1>1 DEF Offsets
<1>3. \A o \in Offsets : o \in 0..Size /\ d.cells[o].len \in Nat /\ (d.cells[o] # Gap => d.cells[o].len \in 1..Size)
    BY Bounds DEF Offsets, Entries, Gap
<1>4. \A o : Whole(d, o) => /\ o \in Offsets /\ o < d.tail /\ e.cells[o] = d.cells[o] /\ Whole(e, o)
    <2> SUFFICES ASSUME NEW o, Whole(d, o)
                 PROVE  o \in Offsets /\ o < d.tail /\ e.cells[o] = d.cells[o] /\ Whole(e, o)
        OBVIOUS
    <2>1. o \in Offsets /\ d.cells[o] # Gap /\ o + d.cells[o].len <= d.tail
        BY DEF Whole
    <2>2. o \in Int /\ d.cells[o].len \in 1..Size
        BY <1>3, <2>1
    <2>3. o < d.tail /\ o + d.cells[o].len <= e.tail
        BY <1>1, <2>1, <2>2
    <2>4. e.cells[o] = d.cells[o]
        BY <1>2, <2>1, <2>2, <2>3 DEF Placed
    <2> QED
        BY <2>1, <2>3, <2>4 DEF Whole
<1>5. e.cells[d.tail] = r /\ Whole(e, d.tail) /\ ~Whole(e, e.tail)
    <2>1. e.cells[d.tail] = r /\ Whole(e, d.tail)
        BY <1>1, <1>2 DEF Placed, Whole
    <2>2. ASSUME Whole(e, e.tail) PROVE FALSE
        <3>1. e.tail \in Offsets /\ e.cells[e.tail] # Gap /\ e.tail + e.cells[e.tail].len <= e.tail
            BY <2>2 DEF Whole
        <3>2. e.cells[e.tail] = d.cells[e.tail]
            BY <1>1, <1>2, <3>1 DEF Placed
        <3> QED
            BY <1>1, <1>2, <1>3, <3>1, <3>2
    <2> QED
        BY <2>1, <2>2
<1>6. ASSUME NEW o, Follows(d, o) PROVE Follows(e, o)
    <2> SUFFICES ASSUME NEW S \in Followed(e) PROVE o \in S
        BY DEF Follows
    <2>1. S \in Followed(d)
        BY <1>4 DEF Followed
    <2> QED
        BY <1>6, <2>1 DEF Follows
<1>7. Follows(e, d.tail) /\ Follows(e, e.tail)
    <2>1. Follows(e, d.tail)
        BY <1>6 DEF Chained
    <2>2. d.tail + e.cells[d.tail].len = e.tail
        BY <1>5
    <2> QED
        BY <1>5, <2>1, <2>2, Closes
<1> DEFINE T == {o \in 0..Size : Follows(d, o)} \cup {e.tail}
<1>8. T \in Followed(e)
    <2>1. T \in SUBSET (0..Size) /\ 0 \in T
        BY <1>1, <1>2, BeginsAtZero
    <2>2. ASSUME NEW o \in T, Whole(e, o) PROVE o + e.cells[o].len \in T
        <3>1. o # e.tail /\ o \in 0..Size /\ Follows(d, o)
            BY <1>5, <2>2
        <3>2. CASE o = d.tail
            BY <1>5, <3>2
        <3>3. CASE Whole(d, o)
            <4>1. Follows(d, o + d.cells[o].len)
                BY <3>1, <3>3, Closes
            <4>2. o + d.cells[o].len \in 0..Size
                BY <1>1, <1>3, <3>1, <3>3 DEF Whole
            <4> QED
                BY <1>4, <3>3, <4>1, <4>2
        <3> QED
            BY <3>1, <3>2, <3>3 DEF Chained
    <2> HIDE DEF T
    <2> QED
        BY <2>1, <2>2 DEF Followed
<1>9. \A o : Follows(e, o) => o = e.tail \/ (o \in 0..Size /\ Follows(d, o))
    BY <1>8 DEF Follows
<1>10. Chained(e)
    <2>1. ASSUME NEW o \in 0..Size, Follows(e, o) PROVE o = e.tail \/ Whole(e, o)
        BY <1>4, <1>5, <1>9, <2>1 DEF Chained
    <2> QED
        BY <1>7, <2>1 DEF Chained
<1>11. Starts(e) = Starts(d) \cup {d.tail}
    <2>1. \A o : o \in Starts(e) <=> o \in Offsets /\ Whole(e, o) /\ Follows(e, o)
        BY StartsAre
    <2>2. \A o : o \in Starts(d) <=> o \in Offsets /\ Whole(d, o) /\ Follows(d, o)
        BY StartsAre
    <2>3. \A o : o \in Starts(d) => o \in Starts(e)
        BY <1>4, <1>6, <2>1, <2>2
    <2>4. d.tail \in Starts(e)
        BY <1>2, <1>5, <1>7, <2>1
    <2>5. \A o : o \in Starts(e) => o \in Starts(d) \/ o = d.tail
        BY <1>3, <1>5, <1>9, <2>1, <2>2 DEF Chained
    <2> QED
        BY <2>3, <2>4, <2>5
<1>12. \A o \in Starts(d) : o < d.tail /\ e.cells[o] = d.cells[o]
    BY <1>4, StartsAre
<1> QED
    BY <1>5, <1>10, <1>11, <1>12

(* A record written at the start is the first of a new lap.                *)
LEMMA ChainBegins ==
    ASSUME NEW d, NEW e, NEW r \in Entries,
           d.cells \in [Offsets -> Entries \cup {Gap}], d.tail \in 0..Size,
           e.tail = r.len, e.cells = Placed(d.cells, 0, r)
    PROVE  Chained(e) /\ Starts(e) = {0} /\ e.cells[0] = r
<1>1. Size \in Nat /\ r.len \in 1..Size /\ r # Gap /\ 0 \in Offsets
    BY Bounds DEF Entries, Gap, Offsets
<1>2. e.cells[0] = r /\ Whole(e, 0)
    BY <1>1 DEF Placed, Whole
<1>3. ~Whole(e, r.len)
    <2> SUFFICES ASSUME Whole(e, r.len) PROVE FALSE
        OBVIOUS
    <2>1. r.len \in Offsets /\ e.cells[r.len] # Gap /\ r.len + e.cells[r.len].len <= r.len
        BY DEF Whole
    <2>2. e.cells[r.len] = d.cells[r.len]
        BY <1>1, <2>1 DEF Placed
    <2>3. d.cells[r.len] # Gap => d.cells[r.len].len \in 1..Size
        BY <2>1, Bounds DEF Entries
    <2> QED
        BY <1>1, <2>1, <2>2, <2>3
<1>4. Follows(e, 0) /\ Follows(e, r.len)
    <2>1. 0 + e.cells[0].len = r.len
        BY <1>1, <1>2
    <2> QED
        BY <1>1, <1>2, <2>1, BeginsAtZero, Closes
<1>5. {0, r.len} \in Followed(e)
    <2>1. {0, r.len} \in SUBSET (0..Size)
        BY <1>1
    <2>2. \A o \in {0, r.len} : Whole(e, o) => o + e.cells[o].len \in {0, r.len}
        BY <1>1, <1>2, <1>3
    <2> QED
        BY <2>1, <2>2 DEF Followed
<1>6. \A o : Follows(e, o) => o = 0 \/ o = r.len
    BY <1>5 DEF Follows
<1>7. Starts(e) = {0}
    BY <1>1, <1>2, <1>3, <1>4, <1>6, StartsAre
<1>8. Chained(e)
    BY <1>2, <1>4, <1>6 DEF Chained
<1> QED
    BY <1>2, <1>7, <1>8

(* Where the one record that is pending goes.                              *)
LEMMA EndsIs ==
    ASSUME NEW w, NEW r \in Entries, w.pending = <<r>>, w.tail \in 0..Size
    PROVE  /\ Ends(w)[0] = w.tail
           /\ Ends(w)[1] = IF w.tail + r.len <= Size THEN w.tail + r.len ELSE r.len
           /\ NewTail(w) = Ends(w)[1]
           /\ Place(w, 1) = IF w.tail + r.len <= Size THEN w.tail ELSE 0
           /\ Wraps(w) <=> w.tail + r.len > Size
<1>1. Size \in Nat /\ r.len \in 1..Size /\ Len(w.pending) = 1 /\ w.pending[1] = r /\ DOMAIN w.pending = {1}
    BY Bounds DEF Entries
<1> DEFINE Solves(f) ==
        f = [i \in 0..Len(w.pending) |->
                IF i = 0 THEN w.tail
                ELSE LET len == w.pending[i].len
                     IN  IF f[i - 1] + len <= Size THEN f[i - 1] + len ELSE len]
           last == IF w.tail + r.len <= Size THEN w.tail + r.len ELSE r.len
<1>2. \E f : Solves(f)
    <2> DEFINE g == [i \in 0..1 |-> IF i = 0 THEN w.tail ELSE last]
    <2>1. g[0] = w.tail /\ 0..1 = {0, 1}
        OBVIOUS
    <2>2. Solves(g)
        <3>1. \A i \in 0..1 : g[i] = IF i = 0 THEN w.tail
                ELSE LET len == w.pending[i].len
                     IN  IF g[i - 1] + len <= Size THEN g[i - 1] + len ELSE len
            <4>1. g[1] = last /\ 1 - 1 = 0
                OBVIOUS
            <4> HIDE DEF g
            <4> QED
                BY <1>1, <2>1, <4>1
        <3>2. g = [i \in 0..1 |-> g[i]]
            OBVIOUS
        <3> HIDE DEF g
        <3> QED
            BY <1>1, <3>1, <3>2
    <2> QED
        BY <2>2
<1>3. Solves(Ends(w))
    <2>1. Ends(w) = CHOOSE f : Solves(f)
        BY DEF Ends
    <2> HIDE DEF Solves
    <2> QED
        BY <1>2, <2>1
<1>4. Ends(w)[0] = w.tail
    BY <1>1, <1>3
<1>5. Ends(w)[1] = last
    <2>1. 1 \in 0..Len(w.pending) /\ 1 - 1 = 0
        BY <1>1
    <2>2. Ends(w)[1] = LET len == w.pending[1].len
                       IN  IF Ends(w)[1 - 1] + len <= Size THEN Ends(w)[1 - 1] + len ELSE len
        BY <1>3, <2>1
    <2> QED
        BY <1>1, <1>4, <2>1, <2>2
<1> HIDE DEF Solves
<1>6. Place(w, 1) = IF w.tail + r.len <= Size THEN w.tail ELSE 0
    BY <1>1, <1>5 DEF Place
<1>7. Wraps(w) <=> w.tail + r.len > Size
    <2>1. 1 - 1 = 0
        OBVIOUS
    <2> QED
        BY <1>1, <1>4, <2>1 DEF Wraps
<1> QED
    BY <1>1, <1>4, <1>5, <1>6, <1>7 DEF NewTail

LEMMA WrittenIs ==
    ASSUME NEW w, NEW r \in Entries, w.pending = <<r>>, w.tail \in 0..Size,
           NEW cells \in [Offsets -> Entries \cup {Gap}]
    PROVE  Written(cells, w, DOMAIN w.pending) = Placed(cells, Place(w, 1), r)
<1> DEFINE a == Place(w, 1)
<1>1. Size \in Nat /\ r.len \in 1..Size /\ w.pending[1] = r /\ DOMAIN w.pending = {1}
    BY Bounds DEF Entries
<1>2. a \in 0..Size /\ Ends(w)[1] = a + r.len
    BY <1>1, EndsIs
<1> DEFINE Stands(i, o) ==
               /\ Place(w, i) = o
               /\ \A j \in {1} : j > i => ~Overwrites(w, j, o, w.pending[i].len)
<1>3. \A o : Stands(1, o) <=> a = o
    OBVIOUS
<1>4. \A o : (\E i \in {1} : Stands(i, o)) <=> a = o
    <2> HIDE DEF Stands, a
    <2> QED
        BY <1>3
<1>5. \A o : a = o => (CHOOSE i \in {1} : Stands(i, o)) = 1
    <2> HIDE DEF Stands, a
    <2> QED
        BY <1>3
<1>6. \A o, n : Overwrites(w, 1, o, n) <=> o < a + r.len /\ a < o + n
    BY <1>2 DEF Overwrites
<1>7. Written(cells, w, DOMAIN w.pending) =
        [o \in Offsets |->
            IF \E i \in {1} : Stands(i, o)
            THEN w.pending[CHOOSE i \in {1} : Stands(i, o)]
            ELSE IF \E i \in {1} : Overwrites(w, i, o, cells[o].len) THEN Gap ELSE cells[o]]
    BY <1>1, Zenon DEF Written
<1> HIDE DEF Stands, a
<1>8. \A o \in Offsets :
          (IF \E i \in {1} : Stands(i, o)
           THEN w.pending[CHOOSE i \in {1} : Stands(i, o)]
           ELSE IF \E i \in {1} : Overwrites(w, i, o, cells[o].len) THEN Gap ELSE cells[o])
          = (IF o = a THEN r
             ELSE IF o < a + r.len /\ a < o + cells[o].len THEN Gap ELSE cells[o])
    BY <1>1, <1>4, <1>5, <1>6
<1>9. Written(cells, w, DOMAIN w.pending) = Placed(cells, a, r)
    BY <1>7, <1>8 DEF Placed
<1> QED
    BY <1>9 DEF a

(* What a sync of the ring makes of the file.                              *)
LEMMA StoredIs ==
    ASSUME Ring, NEW s \in States, NEW r \in Entries, s.wal.pending = <<r>>,
           s.wal.tail = s.disk.tail, Chained(s.disk), ~Full(s.wal)
    PROVE  LET e == Stored(s.wal, s.disk)
           IN  /\ e \in Disks
               /\ e.tail = NewTail(s.wal) /\ e.next = s.disk.next
               /\ Chained(e)
               /\ \E o \in Starts(e) : e.cells[o] = r
               /\ \A o \in Starts(e) : \/ e.cells[o] = r /\ \A p \in Starts(e) : p <= o
                                       \/ o \in Starts(s.disk) /\ e.cells[o] = s.disk.cells[o]
               /\ \/ \A o \in Starts(s.disk) : o \in Starts(e) /\ e.cells[o] = s.disk.cells[o]
                  \/ s.wal.written <= s.wal.flushed
<1> DEFINE d == s.disk
           e == Stored(s.wal, s.disk)
           a == Place(s.wal, 1)
<1>1. Size \in Nat /\ r.len \in 1..Size /\ 0 \in Offsets
    BY Bounds DEF Entries, Offsets
<1>2. d.tail \in 0..Size /\ d.cells \in [Offsets -> Entries \cup {Gap}] /\ s.wal.tail = d.tail
    BY DEF States, Disks
<1>3. e = [d EXCEPT !.tail = NewTail(s.wal), !.cells = Placed(d.cells, a, r)]
    BY <1>2, WrittenIs DEF Stored
<1>4. /\ a = (IF d.tail + r.len <= Size THEN d.tail ELSE 0)
      /\ NewTail(s.wal) = a + r.len
      /\ Wraps(s.wal) <=> d.tail + r.len > Size
    BY <1>1, <1>2, EndsIs
<1>5. a \in Offsets /\ NewTail(s.wal) \in 0..Size
    BY <1>1, <1>2, <1>4 DEF Offsets
<1>6. d \in Disks
    BY DEF States
<1>7. Placed(d.cells, a, r) \in [Offsets -> Entries \cup {Gap}]
    BY <1>2, <1>5 DEF Placed
<1> HIDE DEF e, d, a
<1>8. /\ e \in Disks
      /\ e.tail = NewTail(s.wal) /\ e.next = d.next /\ e.cells = Placed(d.cells, a, r)
    BY <1>3, <1>5, <1>6, <1>7 DEF Disks
<1>9. CASE d.tail + r.len <= Size
    <2>1. Chained(d)
        BY DEF d
    <2>2. e.tail = d.tail + r.len /\ e.cells = Placed(d.cells, d.tail, r)
        BY <1>4, <1>8, <1>9
    <2>3. /\ Chained(e)
          /\ Starts(e) = Starts(d) \cup {d.tail}
          /\ \A o \in Starts(d) : o < d.tail /\ e.cells[o] = d.cells[o]
          /\ e.cells[d.tail] = r
        BY <1>2, <1>9, <2>1, <2>2, ChainGrows
    <2>4. \A p \in Starts(e) : p <= d.tail
        BY <1>2, <2>3 DEF Starts, Offsets
    <2> QED
        BY <1>8, <2>3, <2>4 DEF e, d
<1>10. CASE d.tail + r.len > Size
    <2>1. e.tail = r.len /\ e.cells = Placed(d.cells, 0, r) /\ s.wal.written <= s.wal.flushed
        <3>1. ~(s.wal.written > s.wal.flushed) /\ s.wal.written \in Nat /\ s.wal.flushed \in Nat
            BY <1>4, <1>10 DEF Full, States, Wals
        <3>2. ~(d.tail + r.len <= Size)
            BY <1>1, <1>2, <1>10
        <3> QED
            BY <1>1, <1>4, <1>8, <3>1, <3>2
    <2>2. Chained(e) /\ Starts(e) = {0} /\ e.cells[0] = r
        BY <1>2, <2>1, ChainBegins
    <2> QED
        BY <1>8, <2>1, <2>2 DEF e, d
<1> QED
    BY <1>1, <1>2, <1>9, <1>10

-----------------------------------------------------------------------------
(* What the calls of a family make of the log                              *)

LEMMA ScansRing == ASSUME Ring, NEW d PROVE Scan(d) = {d.cells[o] : o \in Starts(d)}
    BY DEF Scan, Found, At

LEMMA ScansLog ==
    ASSUME ~Ring, NEW d, d.log \in Seq(Entries)
    PROVE  Found(d) = DOMAIN d.log /\ Scan(d) = {d.log[i] : i \in DOMAIN d.log}
<1>1. \A i \in DOMAIN d.log : \A j \in 1..i : d.log[j] # Gap
    <2> SUFFICES ASSUME NEW i \in DOMAIN d.log, NEW j \in 1..i PROVE d.log[j] # Gap
        OBVIOUS
    <2>1. j \in 1..Len(d.log)
        OBVIOUS
    <2>2. d.log[j] \in Entries
        BY <2>1
    <2> QED
        BY <2>2 DEF Entries, Gap
<1>2. Found(d) = DOMAIN d.log
    BY <1>1 DEF Found
<1> QED
    BY <1>2 DEF Scan, At

LEMMA ScanTyped ==
    ASSUME NEW d \in Disks
    PROVE  Scan(d) \subseteq Entries
<1>1. CASE Ring
    <2>1. \A o \in Starts(d) : d.cells[o] \in Entries
        BY DEF Starts, Whole, Disks
    <2> QED
        BY <1>1, <2>1, ScansRing
<1>2. CASE ~Ring
    <2>1. d.log \in Seq(Entries)
        BY DEF Disks
    <2>2. \A i \in DOMAIN d.log : d.log[i] \in Entries
        BY <2>1
    <2> QED
        BY <1>2, <2>1, <2>2, ScansLog
<1> QED
    BY <1>1, <1>2

LEMMA MaxOfTwo ==
    ASSUME NEW m \in Nat, NEW n \in Nat
    PROVE  Max({m, n}) = IF m >= n THEN m ELSE n
<1>1. Max({m, n}) \in {m, n} /\ \A y \in {m, n} : y <= Max({m, n})
    BY MaxIs, {m, n} \subseteq Nat, m + n \in Nat, \A y \in {m, n} : y <= m + n
<1> QED
    BY <1>1

(* A record is noted in the buffer, with the engine's next number.         *)
LEMMA Appends ==
    ASSUME NEW s \in States, s.ok, s.ext <= MaxWrites, Ring => s.wal.bytes = 0,
           NEW no \in 0..MaxWrites, NEW len \in Lengths, NEW deletes
    PROVE  LET r == Numbered(s, no, len)
               t == Appended(s, no, len, deletes)
           IN  /\ r \in Entries /\ r.no = no /\ r.seq = s.ext /\ r.len = len
               /\ t \in States /\ t.ok
               /\ t.wal.pending = Append(s.wal.pending, r) /\ t.wal.bytes = s.wal.bytes + len
               /\ t.wal.next = (IF s.wal.next >= s.ext + 1 THEN s.wal.next ELSE s.ext + 1)
               /\ t.wal.tail = s.wal.tail /\ t.wal.flushed = s.wal.flushed
               /\ t.wal.written = s.wal.written
               /\ t.disk = s.disk /\ t.mem = s.mem /\ t.sst = s.sst /\ t.ext = s.ext + 1
<1> DEFINE r == Numbered(s, no, len)
           c == [[s EXCEPT !.ext = @ + 1] EXCEPT !.wal.next = Max({@, r.seq + 1})]
           t == [c EXCEPT !.wal.pending = Append(@, r), !.wal.bytes = @ + r.len]
<1>1. len \in 1..Size /\ Size \in Nat /\ len \in Nat
    BY Bounds
<1>2. r \in Entries /\ r.no = no /\ r.seq = s.ext /\ r.len = len
    <2>1. s.ext \in 1..MaxWrites
        BY Bounds DEF States
    <2> QED
        BY <2>1 DEF Numbered, Entries
<1>3. /\ s.ext \in Nat \ {0} /\ s.wal.next \in Nat \ {0} /\ s.wal \in Wals /\ s.wal.bytes \in Nat
      /\ s.wal.pending \in Seq(Entries)
    BY DEF States, Wals
<1>4. Max({s.wal.next, s.ext + 1}) = IF s.wal.next >= s.ext + 1 THEN s.wal.next ELSE s.ext + 1
    BY <1>3, MaxOfTwo, s.ext + 1 \in Nat
<1> DEFINE m == Max({s.wal.next, s.ext + 1})
<1>5. c = [s EXCEPT !.ext = s.ext + 1, !.wal.next = m]
    BY <1>2, <1>3 DEF States, Wals
<1>6. wal_append(s, no, len) = IF Ring /\ s.wal.bytes + r.len > Size THEN [c EXCEPT !.ok = FALSE] ELSE t
    <2> DEFINE x == [s EXCEPT !.ext = @ + 1]
    <2>1. wal_append(s, no, len) = append_at(x, r)
        BY DEF wal_append
    <2>2. c = [x EXCEPT !.wal.next = Max({@, r.seq + 1})]
        OBVIOUS
    <2> HIDE DEF x, r
    <2>3. append_at(x, r) =
            IF Ring /\ x.wal.bytes + r.len > Size
            THEN [[x EXCEPT !.wal.next = Max({@, r.seq + 1})] EXCEPT !.ok = FALSE]
            ELSE [[x EXCEPT !.wal.next = Max({@, r.seq + 1})] EXCEPT
                    !.wal.pending = Append(@, r), !.wal.bytes = @ + r.len]
        BY DEF append_at
    <2>4. x.wal.bytes = s.wal.bytes
        BY DEF x, States, Wals
    <2> HIDE DEF c
    <2> QED
        BY <2>1, <2>2, <2>3, <2>4
<1>7. m \in Nat \ {0}
    BY <1>3, <1>4
<1> HIDE DEF r, m
<1>8. /\ c \in States /\ c.ok /\ c.wal.bytes = s.wal.bytes
      /\ c.wal.pending = s.wal.pending /\ c.wal.next = m
      /\ c.wal.tail = s.wal.tail /\ c.wal.flushed = s.wal.flushed /\ c.wal.written = s.wal.written
      /\ c.disk = s.disk /\ c.mem = s.mem /\ c.sst = s.sst /\ c.ext = s.ext + 1
    <2> DEFINE w == [s.wal EXCEPT !.next = m]
    <2>1. w \in Wals /\ w.bytes = s.wal.bytes /\ w.pending = s.wal.pending /\ w.next = m
          /\ w.tail = s.wal.tail /\ w.flushed = s.wal.flushed /\ w.written = s.wal.written
        BY <1>3, <1>7 DEF Wals
    <2>2. c = [s EXCEPT !.ext = s.ext + 1, !.wal = w]
        BY <1>5 DEF States
    <2> HIDE DEF w, c
    <2>3. /\ c.wal = w /\ c.disk = s.disk /\ c.mem = s.mem /\ c.sst = s.sst
          /\ c.ext = s.ext + 1 /\ c.ok = s.ok
        BY <2>2 DEF States
    <2>4. c \in States
        <3>1. s.ext + 1 \in Nat \ {0} /\ w \in Wals
            BY <1>3, <2>1
        <3> QED
            BY <2>2, <3>1 DEF States
    <2> QED
        BY <2>1, <2>3, <2>4
<1>9. wal_append(s, no, len) = t
    <2>1. ~(Ring /\ s.wal.bytes + r.len > Size)
        <3> HIDE DEF c
        <3> QED
            BY <1>1, <1>2, <1>3, <1>8
    <2> QED
        BY <1>6, <2>1
<1> HIDE DEF c
<1>10. /\ t \in States /\ t.ok
       /\ t.wal.pending = Append(s.wal.pending, r) /\ t.wal.bytes = s.wal.bytes + r.len
       /\ t.wal.next = m
       /\ t.wal.tail = s.wal.tail /\ t.wal.flushed = s.wal.flushed /\ t.wal.written = s.wal.written
       /\ t.disk = s.disk /\ t.mem = s.mem /\ t.sst = s.sst /\ t.ext = s.ext + 1
    <2> DEFINE w == [c.wal EXCEPT !.pending = Append(s.wal.pending, r), !.bytes = s.wal.bytes + r.len]
    <2>1. Append(s.wal.pending, r) \in Seq(Entries) /\ s.wal.bytes + r.len \in Nat /\ c.wal \in Wals
        BY <1>1, <1>2, <1>3, <1>8 DEF States
    <2>2. w \in Wals /\ w.pending = Append(s.wal.pending, r) /\ w.bytes = s.wal.bytes + r.len
          /\ w.next = c.wal.next
          /\ w.tail = c.wal.tail /\ w.flushed = c.wal.flushed /\ w.written = c.wal.written
        BY <2>1 DEF Wals
    <2>3. t = [c EXCEPT !.wal = w]
        BY <1>8, <2>1 DEF States, Wals
    <2> HIDE DEF w, t
    <2> QED
        BY <1>8, <2>2, <2>3 DEF States
<1> HIDE DEF t
<1>11. Appended(s, no, len, deletes) = t
    BY <1>9, <1>10 DEF Appended
<1> QED
    BY <1>2, <1>4, <1>10, <1>11 DEF r, m

LEMMA Parts ==
    ASSUME NEW s \in States
    PROVE  /\ s.wal \in Wals /\ s.disk \in Disks /\ s.mem \in SUBSET Entries
           /\ s.sst \in SUBSET (0..MaxWrites) /\ s.ext \in Nat \ {0}
           /\ s.wal.next \in Nat \ {0} /\ s.wal.pending \in Seq(Entries) /\ s.wal.bytes \in Nat
           /\ s.wal.tail \in 0..Size /\ s.wal.flushed \in Nat /\ s.wal.written \in Nat
           /\ s.disk.log \in Seq(Entries) /\ s.disk.next \in Nat \ {0} /\ s.disk.tail \in 0..Size
           /\ s.disk.cells \in [Offsets -> Entries \cup {Gap}]
    BY DEF States, Wals, Disks

LEMMA AppendIs ==
    ASSUME NEW S, NEW p \in Seq(S), NEW x \in S
    PROVE  /\ Len(p) \in Nat /\ DOMAIN p = 1..Len(p)
           /\ DOMAIN Append(p, x) = 1..Len(p) + 1 /\ Append(p, x) \in Seq(S)
           /\ \A i \in DOMAIN p : Append(p, x)[i] = p[i]
           /\ Append(p, x)[Len(p) + 1] = x
    OBVIOUS

LEMMA EntryParts ==
    ASSUME NEW r \in Entries
    PROVE  r.no \in 0..MaxWrites /\ r.seq \in Nat \ {0} /\ r.len \in Lengths
    BY DEF Entries

(* A record noted behind all others in the log that grows.                 *)
LEMMA LogGrows ==
    ASSUME NEW s \in States, NEW t \in States, NEW r \in Entries, LogGood(s),
           t.disk = s.disk, s.mem \subseteq t.mem, t.sst = s.sst,
           t.wal.pending = Append(s.wal.pending, r), r.seq = s.ext, t.ext = s.ext + 1, Kept(t, r),
           Counted(s)
    PROVE  LogGood(t)
<1>1. /\ s.ext \in Nat \ {0} /\ s.wal.pending \in Seq(Entries) /\ s.disk.log \in Seq(Entries)
      /\ s.disk.next \in Nat /\ s.disk.next <= s.ext
    BY Parts DEF Counted
<1>2. Kept(t, r)
    OBVIOUS
<1>3. \A q : Kept(s, q) => Kept(t, q)
    BY DEF Kept
<1>4. /\ DOMAIN t.wal.pending = 1..Len(s.wal.pending) + 1 /\ Len(s.wal.pending) \in Nat
      /\ DOMAIN s.wal.pending = 1..Len(s.wal.pending)
      /\ \A i \in DOMAIN s.wal.pending : t.wal.pending[i] = s.wal.pending[i]
      /\ t.wal.pending[Len(s.wal.pending) + 1] = r
    <2>1. t.wal.pending = Append(s.wal.pending, r)
        OBVIOUS
    <2> QED
        BY <1>1, <2>1, AppendIs
<1>5. /\ \A i \in DOMAIN s.wal.pending : s.wal.pending[i].seq \in s.disk.next..s.ext - 1
      /\ \A i \in DOMAIN s.disk.log : s.disk.log[i].seq \in s.disk.next..s.ext - 1
    BY DEF LogGood
<1>6. /\ \A i \in DOMAIN t.disk.log : Kept(t, t.disk.log[i])
      /\ \A i \in DOMAIN t.disk.log : t.disk.log[i].seq \in t.disk.next..t.ext - 1
    <2>1. \A i \in DOMAIN t.disk.log : Kept(t, t.disk.log[i])
        BY <1>3 DEF LogGood
    <2> QED
        BY <1>1, <1>5, <2>1
<1>7. \A i \in DOMAIN t.wal.pending : Kept(t, t.wal.pending[i])
    <2> SUFFICES ASSUME NEW i \in DOMAIN t.wal.pending PROVE Kept(t, t.wal.pending[i])
        OBVIOUS
    <2>1. CASE i \in DOMAIN s.wal.pending
        BY <1>3, <1>4, <2>1 DEF LogGood
    <2>2. CASE i = Len(s.wal.pending) + 1
        BY <1>2, <1>4, <2>2
    <2> QED
        BY <1>4, <2>1, <2>2
<1>8. \A i \in DOMAIN t.wal.pending : t.wal.pending[i].seq \in t.disk.next..t.ext - 1
    BY <1>1, <1>4, <1>5
<1>9. \A i, j \in DOMAIN t.wal.pending : i < j => t.wal.pending[i].seq < t.wal.pending[j].seq
    <2> SUFFICES ASSUME NEW i \in DOMAIN t.wal.pending, NEW j \in DOMAIN t.wal.pending, i < j
                 PROVE  t.wal.pending[i].seq < t.wal.pending[j].seq
        OBVIOUS
    <2>1. i \in DOMAIN s.wal.pending
        BY <1>4
    <2>2. CASE j \in DOMAIN s.wal.pending
        BY <1>4, <2>1, <2>2 DEF LogGood
    <2>3. CASE j = Len(s.wal.pending) + 1
        <3>1. s.wal.pending[i].seq \in s.disk.next..s.ext - 1
            BY <1>5, <2>1
        <3>2. t.wal.pending[i].seq = s.wal.pending[i].seq /\ t.wal.pending[j].seq = s.ext
            BY <1>4, <2>1, <2>3
        <3> QED
            BY <1>1, <3>1, <3>2
    <2> QED
        BY <1>4, <2>2, <2>3
<1>10. \A i \in DOMAIN t.disk.log, j \in DOMAIN t.wal.pending :
           t.disk.log[i].seq < t.wal.pending[j].seq
    <2> SUFFICES ASSUME NEW i \in DOMAIN t.disk.log, NEW j \in DOMAIN t.wal.pending
                 PROVE  t.disk.log[i].seq < t.wal.pending[j].seq
        OBVIOUS
    <2>1. CASE j \in DOMAIN s.wal.pending
        BY <1>4, <2>1 DEF LogGood
    <2>2. CASE j = Len(s.wal.pending) + 1
        BY <1>1, <1>4, <1>5, <2>2
    <2> QED
        BY <1>4, <2>1, <2>2
<1>11. \A i, j \in DOMAIN t.disk.log : i < j => t.disk.log[i].seq < t.disk.log[j].seq
    BY DEF LogGood
<1> QED
    BY <1>6, <1>7, <1>8, <1>9, <1>10, <1>11 DEF LogGood

(* A record noted and remembered.                                          *)
LEMMA PutGood ==
    ASSUME NEW s, Good(s), s.ext <= MaxWrites, Ring => s.wal.pending = <<>>,
           NEW no \in 0..MaxWrites, NEW len \in Lengths, NEW deletes
    PROVE  LET t == Remembered(Appended(s, no, len, deletes))
               r == Numbered(s, no, len)
           IN  /\ Good(t) /\ Appended(s, no, len, deletes).ok
               /\ t.ext = s.ext + 1 /\ Held(t) = Held(s)
               /\ t.wal.pending = Append(s.wal.pending, r) /\ r.no = no
               /\ t.disk = s.disk /\ t.sst = s.sst
               /\ t.wal.flushed = s.wal.flushed /\ t.wal.written = s.wal.written
<1> DEFINE r == Numbered(s, no, len)
           a == Appended(s, no, len, deletes)
           t == Remembered(a)
<1>1. s \in States /\ s.ok /\ Counted(s) /\ (Ring => RingGood(s)) /\ (~Ring => LogGood(s))
    BY DEF Good
<1>2. Ring => s.wal.bytes = 0
    BY <1>1 DEF RingGood
<1>3. /\ r \in Entries /\ r.no = no /\ r.seq = s.ext /\ r.len = len
      /\ a \in States /\ a.ok
      /\ a.wal.pending = Append(s.wal.pending, r)
      /\ a.wal.next = (IF s.wal.next >= s.ext + 1 THEN s.wal.next ELSE s.ext + 1)
      /\ a.wal.tail = s.wal.tail /\ a.wal.flushed = s.wal.flushed
      /\ a.wal.written = s.wal.written
      /\ a.disk = s.disk /\ a.mem = s.mem /\ a.sst = s.sst /\ a.ext = s.ext + 1
    BY <1>1, <1>2, Appends
<1> HIDE DEF r, a
<1>4. Last(a.wal.pending) = r
    BY <1>1, <1>3, Parts DEF Last
<1>5. t = [a EXCEPT !.mem = s.mem \cup {r}]
    BY <1>3, <1>4 DEF Remembered, States
<1>6. /\ t \in States /\ t.ok /\ t.wal = a.wal /\ t.disk = s.disk
      /\ t.mem = s.mem \cup {r} /\ t.sst = s.sst /\ t.ext = s.ext + 1
    <2>1. s.mem \cup {r} \in SUBSET Entries
        BY <1>1, <1>3, Parts
    <2> HIDE DEF t
    <2> QED
        BY <1>3, <1>5, <2>1 DEF States
<1> HIDE DEF t
<1>7. /\ s.ext \in Nat \ {0} /\ s.wal.next \in Nat /\ s.disk.next \in Nat
      /\ s.wal.flushed \in Nat /\ s.wal.written \in Nat /\ s.wal.pending \in Seq(Entries)
      /\ s.disk.log \in Seq(Entries) /\ s.mem \subseteq Entries
    BY <1>1, Parts
<1>8. \A q \in s.mem : q.seq \in Nat
    BY <1>7, EntryParts
<1>9. Counted(t)
    BY <1>1, <1>3, <1>6, <1>7, <1>8 DEF Counted
<1>10. ASSUME Ring PROVE RingGood(t)
    <2>1. s.wal.pending = <<>> /\ t.wal.pending = <<r>>
        BY <1>3, <1>6, <1>10
    <2>2. /\ t.disk.next = 1 /\ t.wal.tail = t.disk.tail /\ Chained(t.disk)
          /\ \A o, p \in Starts(t.disk) : o < p => t.disk.cells[o].seq < t.disk.cells[p].seq
          /\ \A o \in Starts(t.disk) :
                /\ t.disk.cells[o].seq <= t.wal.written
                /\ t.disk.cells[o] \in t.mem \/ t.disk.cells[o].no \in t.sst
        BY <1>1, <1>3, <1>6, <1>10 DEF RingGood
    <2>3. \A q \in t.mem : t.wal.flushed < q.seq
        BY <1>1, <1>3, <1>6, <1>10 DEF RingGood, Counted
    <2>4. t.wal.written > t.wal.flushed => \E q \in t.mem : q.seq = t.wal.written
        BY <1>1, <1>3, <1>6, <1>10 DEF RingGood
    <2>5. t.wal.written < r.seq /\ r.seq < t.ext /\ r \in t.mem
        BY <1>1, <1>3, <1>6, <1>7 DEF Counted
    <2>6. t.wal.pending # <<>>
        BY <2>1
    <2> QED
        BY <1>3, <2>1, <2>2, <2>3, <2>4, <2>5, <2>6 DEF RingGood
<1>11. ASSUME ~Ring PROVE LogGood(t)
    <2>1. Kept(t, r) /\ LogGood(s) /\ s.mem \subseteq t.mem
        BY <1>1, <1>6, <1>11 DEF Kept
    <2> QED
        BY <1>1, <1>3, <1>6, <2>1, LogGrows
<1>12. Held(t) = Held(s)
    BY <1>6 DEF Held
<1>13. Good(t)
    BY <1>6, <1>9, <1>10, <1>11 DEF Good
<1> QED
    BY <1>3, <1>6, <1>12, <1>13 DEF t, a, r

(* What a sync that succeeds makes of the writer.                          *)
LEMMA SyncIs ==
    ASSUME NEW s \in States, s.wal.pending # <<>>, ~(Ring /\ Full(s.wal)),
           Stored(s.wal, s.disk) \in Disks, Ring => NewTail(s.wal) \in 0..Size,
           Max({s.wal.written} \cup SeqsOf(ToSet(s.wal.pending))) \in Nat
    PROVE  LET t == sync(s)
           IN  /\ t \in States /\ (t.ok <=> s.ok)
               /\ t.disk = Stored(s.wal, s.disk)
               /\ t.wal.pending = <<>> /\ t.wal.bytes = 0
               /\ t.wal.next = s.wal.next /\ t.wal.flushed = s.wal.flushed
               /\ t.wal.tail = (IF Ring THEN NewTail(s.wal) ELSE s.wal.tail)
               /\ t.wal.written = Max({s.wal.written} \cup SeqsOf(ToSet(s.wal.pending)))
               /\ t.mem = s.mem /\ t.sst = s.sst /\ t.ext = s.ext
<1> DEFINE e == Stored(s.wal, s.disk)
           to == IF Ring THEN NewTail(s.wal) ELSE s.wal.tail
           top == Max({s.wal.written} \cup SeqsOf(ToSet(s.wal.pending)))
           w == [s.wal EXCEPT !.pending = <<>>, !.bytes = 0, !.tail = to, !.written = top]
           t == sync(s)
<1>1. to \in 0..Size /\ top \in Nat /\ e \in Disks /\ s.wal \in Wals
    BY Parts
<1>2. t = [s EXCEPT !.disk = e, !.wal.pending = <<>>, !.wal.bytes = 0,
                    !.wal.tail = to, !.wal.written = top]
    <2>1. t = [s EXCEPT !.disk = e, !.wal.pending = <<>>, !.wal.bytes = 0,
                        !.wal.tail = IF Ring THEN NewTail(s.wal) ELSE @,
                        !.wal.written = Max({@} \cup SeqsOf(ToSet(s.wal.pending)))]
        BY DEF sync
    <2> QED
        BY <2>1 DEF States, Wals
<1> HIDE DEF e, to, top, t
<1>3. w \in Wals /\ w.pending = <<>> /\ w.bytes = 0 /\ w.next = s.wal.next
      /\ w.flushed = s.wal.flushed /\ w.tail = to /\ w.written = top
    <2>1. <<>> \in Seq(Entries) /\ 0 \in Nat
        OBVIOUS
    <2> QED
        BY <1>1, <2>1 DEF Wals
<1>4. t = [s EXCEPT !.disk = e, !.wal = w]
    BY <1>2 DEF States, Wals
<1> HIDE DEF w
<1>5. /\ t \in States /\ (t.ok <=> s.ok) /\ t.disk = e /\ t.wal = w
      /\ t.mem = s.mem /\ t.sst = s.sst /\ t.ext = s.ext
    BY <1>1, <1>3, <1>4 DEF States
<1> QED
    BY <1>3, <1>5 DEF e, to, top, t

(* The highest number among what is pending and what is written.           *)
LEMMA TopIs ==
    ASSUME NEW S, S \subseteq Entries, NEW m \in Nat, NEW n \in Nat, m < n, \A r \in S : r.seq < n
    PROVE  LET top == Max({m} \cup SeqsOf(S))
           IN  /\ top \in Nat /\ top < n /\ m <= top /\ \A r \in S : r.seq <= top
               /\ top = m \/ \E r \in S : r.seq = top
<1> DEFINE T == {m} \cup SeqsOf(S)
<1>1. \A r \in S : r.seq \in Nat
    BY EntryParts
<1>2. T \subseteq Nat /\ T # {} /\ \A y \in T : y <= n
    BY <1>1 DEF SeqsOf
<1> HIDE DEF T
<1>3. Max(T) \in T /\ \A y \in T : y <= Max(T)
    BY <1>2, MaxIs
<1> QED
    BY <1>1, <1>3 DEF T, SeqsOf

LEMMA SyncGood ==
    ASSUME NEW s, Good(s), ~(Ring /\ Full(s.wal))
    PROVE  LET t == sync(s)
           IN  /\ Good(t) /\ t.ext = s.ext /\ t.mem = s.mem /\ t.sst = s.sst
               /\ t.wal.pending = <<>>
               /\ Held(s) \cup NosOf(ToSet(s.wal.pending)) \subseteq Held(t)
<1> DEFINE t == sync(s)
           d == s.disk
           e == Stored(s.wal, s.disk)
           recs == ToSet(s.wal.pending)
           top == Max({s.wal.written} \cup SeqsOf(recs))
<1>1. s \in States /\ s.ok /\ Counted(s) /\ (Ring => RingGood(s)) /\ (~Ring => LogGood(s))
    BY DEF Good
<1>2. /\ s.ext \in Nat /\ s.wal.written \in Nat /\ s.wal.flushed \in Nat /\ d \in Disks
      /\ d.log \in Seq(Entries) /\ s.wal.pending \in Seq(Entries) /\ s.mem \subseteq Entries
      /\ s.wal.written < s.ext
    BY <1>1, Parts DEF Counted
<1>3. CASE s.wal.pending = <<>>
    <2>1. t = s
        BY <1>3 DEF sync
    <2>2. NosOf(ToSet(s.wal.pending)) = {}
        BY <1>3 DEF NosOf, ToSet
    <2> QED
        BY <1>3, <2>1, <2>2
<1>4. /\ recs \subseteq Entries
      /\ recs = {s.wal.pending[i] : i \in DOMAIN s.wal.pending}
    BY <1>2 DEF ToSet
<1>5. ASSUME \A r \in recs : r.seq < s.ext
      PROVE  /\ top \in Nat /\ top < s.ext /\ s.wal.written <= top
             /\ \A r \in recs : r.seq <= top
             /\ top = s.wal.written \/ \E r \in recs : r.seq = top
    <2> HIDE DEF recs
    <2> QED
        BY <1>2, <1>4, <1>5, TopIs
<1>6. ASSUME s.wal.pending # <<>>, e \in Disks, Ring => NewTail(s.wal) \in 0..Size,
             \A r \in recs : r.seq < s.ext
      PROVE  /\ t \in States /\ t.ok /\ t.disk = e
             /\ t.wal.pending = <<>> /\ t.wal.bytes = 0
             /\ t.wal.next = s.wal.next /\ t.wal.flushed = s.wal.flushed
             /\ Ring => t.wal.tail = NewTail(s.wal)
             /\ t.wal.written = top
             /\ t.mem = s.mem /\ t.sst = s.sst /\ t.ext = s.ext
    <2>1. top \in Nat
        BY <1>5, <1>6
    <2> QED
        BY <1>1, <1>6, <2>1, SyncIs
<1> HIDE DEF t, e, top, recs, d
<1>7. CASE Ring /\ s.wal.pending # <<>>
    <2>1. RingGood(s)
        BY <1>1, <1>7
    <2>2. PICK r \in Entries :
              /\ s.wal.pending = <<r>>
              /\ s.wal.written < r.seq /\ r.seq < s.ext
              /\ r \in s.mem \/ (r.no \in s.sst /\ r.seq <= s.wal.flushed)
        BY <1>7, <2>1 DEF RingGood
    <2>3. recs = {r} /\ r.seq \in Nat
        BY <2>2, EntryParts DEF recs, ToSet
    <2>4. /\ e \in Disks /\ e.tail = NewTail(s.wal) /\ e.next = d.next /\ Chained(e)
          /\ \E o \in Starts(e) : e.cells[o] = r
          /\ \A o \in Starts(e) : \/ e.cells[o] = r /\ \A p \in Starts(e) : p <= o
                                  \/ o \in Starts(d) /\ e.cells[o] = d.cells[o]
          /\ \/ \A o \in Starts(d) : o \in Starts(e) /\ e.cells[o] = d.cells[o]
             \/ s.wal.written <= s.wal.flushed
        <3>1. s.wal.tail = s.disk.tail /\ Chained(s.disk)
            BY <2>1 DEF RingGood
        <3> QED
            BY <1>1, <1>7, <2>2, <3>1, StoredIs DEF e, d
    <2>5. NewTail(s.wal) \in 0..Size
        BY <2>4 DEF Disks
    <2>6. /\ t \in States /\ t.ok /\ t.disk = e
          /\ t.wal.pending = <<>> /\ t.wal.bytes = 0
          /\ t.wal.next = s.wal.next /\ t.wal.flushed = s.wal.flushed
          /\ t.wal.tail = NewTail(s.wal) /\ t.wal.written = top
          /\ t.mem = s.mem /\ t.sst = s.sst /\ t.ext = s.ext
        BY <1>6, <1>7, <2>2, <2>3, <2>4, <2>5
    <2>7. top = r.seq
        BY <1>2, <1>5, <2>2, <2>3
    <2>8. \A o \in Starts(d) :
              /\ d.cells[o] \in Entries /\ d.cells[o].seq \in Nat /\ o \in Int
              /\ d.cells[o].seq <= s.wal.written
              /\ d.cells[o] \in s.mem \/ d.cells[o].no \in s.sst
        <3>1. \A o \in Starts(d) : o \in Offsets /\ d.cells[o] # Gap
            BY DEF Starts, Whole
        <3>2. \A o \in Starts(d) : d.cells[o] \in Entries /\ o \in Int
            <4>1. \A o \in Starts(d) : d.cells[o] \in Entries
                BY <1>2, <3>1 DEF Disks
            <4> QED
                BY <3>1, <4>1 DEF Offsets
        <3> QED
            BY <2>1, <3>2, EntryParts DEF RingGood, d
    <2>9. \A o, p \in Starts(e) : o < p => e.cells[o].seq < e.cells[p].seq
        <3> SUFFICES ASSUME NEW o \in Starts(e), NEW p \in Starts(e), o < p
                     PROVE  e.cells[o].seq < e.cells[p].seq
            OBVIOUS
        <3>1. o \in Int /\ p \in Int
            BY DEF Starts, Offsets
        <3>2. o \in Starts(d) /\ e.cells[o] = d.cells[o]
            BY <2>4, <3>1
        <3>3. CASE e.cells[p] = r
            BY <1>2, <2>2, <2>3, <2>8, <3>2, <3>3
        <3>4. CASE p \in Starts(d) /\ e.cells[p] = d.cells[p]
            BY <2>1, <3>2, <3>4 DEF RingGood, d
        <3> QED
            BY <2>4, <3>3, <3>4
    <2>10. \A o \in Starts(e) :
              /\ e.cells[o].seq <= top
              /\ e.cells[o] \in s.mem \/ e.cells[o].no \in s.sst
        BY <1>2, <2>2, <2>3, <2>4, <2>7, <2>8
    <2>11. \A q \in s.mem : s.wal.flushed < q.seq
        BY <2>1 DEF RingGood
    <2>12. top > s.wal.flushed => \E q \in s.mem : q.seq = top
        BY <1>2, <2>2, <2>3, <2>7
    <2>13. RingGood(t)
        BY <2>1, <2>4, <2>6, <2>9, <2>10, <2>11, <2>12 DEF RingGood, d
    <2>14. Counted(t)
        BY <1>1, <2>2, <2>4, <2>6, <2>7 DEF Counted, d
    <2>15. Held(s) \subseteq Held(t)
        <3>1. CASE \A o \in Starts(d) : o \in Starts(e) /\ e.cells[o] = d.cells[o]
            BY <1>7, <2>6, <3>1, ScansRing DEF Held, NosOf, d
        <3>2. CASE s.wal.written <= s.wal.flushed
            <4>1. \A o \in Starts(d) : d.cells[o] \notin s.mem
                BY <1>2, <2>8, <2>11, <3>2
            <4>2. NosOf(Scan(d)) \subseteq s.sst
                BY <1>7, <2>8, <4>1, ScansRing DEF NosOf
            <4> QED
                BY <2>6, <4>2 DEF Held, d
        <3> QED
            BY <2>4, <3>1, <3>2
    <2>16. NosOf(recs) \subseteq Held(t)
        BY <1>7, <2>3, <2>4, <2>6, ScansRing DEF Held, NosOf
    <2> QED
        BY <1>7, <2>6, <2>13, <2>14, <2>15, <2>16 DEF Good, t, recs
<1>8. CASE ~Ring /\ s.wal.pending # <<>>
    <2>1. LogGood(s)
        BY <1>1, <1>8
    <2> DEFINE log == d.log
               pending == s.wal.pending
    <2>2. e = [d EXCEPT !.log = log \o pending]
        BY <1>8 DEF Stored, e, d
    <2>3. log \o pending \in Seq(Entries) /\ log \in Seq(Entries) /\ pending \in Seq(Entries)
        BY <1>2
    <2> HIDE DEF log, pending
    <2>4. e \in Disks /\ e.log = log \o pending /\ e.next = d.next
        BY <1>2, <2>2, <2>3 DEF Disks
    <2>5. \A r \in recs : r.seq < s.ext
        <3>1. \A i \in DOMAIN s.wal.pending : s.wal.pending[i].seq \in s.disk.next..s.ext - 1
            BY <2>1 DEF LogGood
        <3> QED
            BY <1>2, <1>4, <3>1
    <2>6. /\ t \in States /\ t.ok /\ t.disk = e
          /\ t.wal.pending = <<>> /\ t.wal.bytes = 0
          /\ t.wal.next = s.wal.next /\ t.wal.flushed = s.wal.flushed
          /\ t.wal.written = top
          /\ t.mem = s.mem /\ t.sst = s.sst /\ t.ext = s.ext
        BY <1>6, <1>8, <2>4, <2>5
    <2>7. top < s.ext
        BY <1>5, <2>5
    <2>8. Counted(t)
        BY <1>1, <2>4, <2>6, <2>7 DEF Counted, d
    <2>9. \A q : Kept(s, q) => Kept(t, q)
        BY <2>6 DEF Kept
    <2>10. /\ \A i \in DOMAIN log : log[i].seq \in d.next..s.ext - 1 /\ Kept(s, log[i])
           /\ \A i \in DOMAIN pending : pending[i].seq \in d.next..s.ext - 1 /\ Kept(s, pending[i])
           /\ \A i, j \in DOMAIN log : i < j => log[i].seq < log[j].seq
           /\ \A i, j \in DOMAIN pending : i < j => pending[i].seq < pending[j].seq
           /\ \A i \in DOMAIN log, j \in DOMAIN pending : log[i].seq < pending[j].seq
        BY <2>1 DEF LogGood, log, pending, d
    <2>11. /\ DOMAIN log = 1..Len(log) /\ DOMAIN pending = 1..Len(pending)
           /\ Len(log) \in Nat /\ Len(pending) \in Nat
           /\ DOMAIN (log \o pending) = 1..Len(log) + Len(pending)
           /\ \A i \in 1..Len(log) + Len(pending) :
                 (log \o pending)[i] = IF i <= Len(log) THEN log[i] ELSE pending[i - Len(log)]
        BY <2>3
    <2>12. \A i \in DOMAIN e.log : e.log[i].seq \in e.next..t.ext - 1 /\ Kept(t, e.log[i])
        <3> SUFFICES ASSUME NEW i \in 1..Len(log) + Len(pending)
                     PROVE  (log \o pending)[i].seq \in d.next..s.ext - 1 /\ Kept(t, (log \o pending)[i])
            BY <2>4, <2>6, <2>11
        <3>1. CASE i <= Len(log)
            BY <2>9, <2>10, <2>11, <3>1
        <3>2. CASE i > Len(log)
            <4>1. i - Len(log) \in DOMAIN pending
                BY <2>11, <3>2
            <4> QED
                BY <2>9, <2>10, <2>11, <3>2, <4>1
        <3> QED
            BY <2>11, <3>1, <3>2
    <2>13. \A i, j \in DOMAIN e.log : i < j => e.log[i].seq < e.log[j].seq
        <3> SUFFICES ASSUME NEW i \in 1..Len(log) + Len(pending),
                            NEW j \in 1..Len(log) + Len(pending), i < j
                     PROVE  (log \o pending)[i].seq < (log \o pending)[j].seq
            BY <2>4, <2>11
        <3>1. CASE j <= Len(log)
            BY <2>10, <2>11, <3>1
        <3>2. CASE i <= Len(log) /\ j > Len(log)
            <4>1. j - Len(log) \in DOMAIN pending /\ i \in DOMAIN log
                BY <2>11, <3>2
            <4> QED
                BY <2>10, <2>11, <3>2, <4>1
        <3>3. CASE i > Len(log)
            <4>1. /\ i - Len(log) \in DOMAIN pending /\ j - Len(log) \in DOMAIN pending
                  /\ i - Len(log) < j - Len(log) /\ j > Len(log)
                BY <2>11, <3>3
            <4> QED
                BY <2>10, <2>11, <3>3, <4>1
        <3> QED
            BY <2>11, <3>1, <3>2, <3>3
    <2>14. LogGood(t)
        <3>1. t.disk = e /\ t.wal.pending = <<>>
            BY <2>6
        <3> QED
            BY <2>12, <2>13, <3>1 DEF LogGood
    <2>15. Scan(d) \cup recs \subseteq Scan(e)
        <3>1. Scan(d) = {log[i] : i \in DOMAIN log}
            BY <1>2, <1>8, ScansLog DEF log
        <3>2. Scan(e) = {(log \o pending)[i] : i \in 1..Len(log) + Len(pending)}
            <4>1. e.log \in Seq(Entries)
                BY <2>3, <2>4
            <4>2. Scan(e) = {e.log[i] : i \in DOMAIN e.log}
                BY <1>8, <4>1, ScansLog
            <4> QED
                BY <2>4, <2>11, <4>2
        <3>3. recs = {pending[i] : i \in DOMAIN pending}
            BY <1>4 DEF pending
        <3>4. \A i \in DOMAIN log :
                  i \in 1..Len(log) + Len(pending) /\ (log \o pending)[i] = log[i]
            BY <2>11
        <3>5. \A i \in DOMAIN pending :
                  /\ i + Len(log) \in 1..Len(log) + Len(pending)
                  /\ (log \o pending)[i + Len(log)] = pending[i]
            BY <2>11
        <3> QED
            BY <3>1, <3>2, <3>3, <3>4, <3>5
    <2>16. Held(s) \cup NosOf(recs) \subseteq Held(t)
        BY <2>6, <2>15 DEF Held, NosOf, d
    <2> QED
        BY <1>8, <2>6, <2>8, <2>14, <2>16 DEF Good, t, recs
<1> QED
    BY <1>3, <1>7, <1>8 DEF t

(* A bitmap's deletion noted in the log that grows.                        *)
LEMMA MarkGood ==
    ASSUME ~Ring, NEW s, Good(s), s.ext <= MaxWrites, NEW len \in Lengths, NEW deletes
    PROVE  LET t == Appended(s, Mark, len, deletes)
           IN  /\ Good(t) /\ t.ok
               /\ t.ext = s.ext + 1 /\ Held(t) = Held(s)
               /\ \E r \in Entries : t.wal.pending = Append(s.wal.pending, r)
<1> DEFINE r == Numbered(s, Mark, len)
           t == Appended(s, Mark, len, deletes)
<1>1. s \in States /\ s.ok /\ Counted(s) /\ LogGood(s) /\ Mark \in 0..MaxWrites
    BY Bounds DEF Good, Mark
<1>2. /\ r \in Entries /\ r.no = Mark /\ r.seq = s.ext
      /\ t \in States /\ t.ok
      /\ t.wal.pending = Append(s.wal.pending, r)
      /\ t.wal.next = (IF s.wal.next >= s.ext + 1 THEN s.wal.next ELSE s.ext + 1)
      /\ t.wal.flushed = s.wal.flushed /\ t.wal.written = s.wal.written
      /\ t.disk = s.disk /\ t.mem = s.mem /\ t.sst = s.sst /\ t.ext = s.ext + 1
    BY <1>1, Appends
<1> HIDE DEF r, t
<1>3. Kept(t, r)
    BY <1>2 DEF Kept
<1>4. LogGood(t)
    BY <1>1, <1>2, <1>3, LogGrows
<1>5. /\ s.ext \in Nat \ {0} /\ s.wal.next \in Nat /\ s.disk.next \in Nat
      /\ s.wal.flushed \in Nat /\ s.wal.written \in Nat /\ \A q \in s.mem : q.seq \in Nat
    BY <1>1, Parts, EntryParts
<1>6. Counted(t)
    BY <1>1, <1>2, <1>5 DEF Counted
<1>7. Held(t) = Held(s)
    BY <1>2 DEF Held
<1> QED
    BY <1>2, <1>4, <1>6, <1>7 DEF Good, t

(* A flush leaves nothing unreported, and all that was held is held.       *)
LEMMA SegmentIs ==
    ASSUME NEW s \in States, Counted(s)
    PROVE  LET t == Segment(s)
           IN  /\ t \in States /\ (t.ok <=> s.ok) /\ Counted(t)
               /\ t.mem = {} /\ t.sst = s.sst \cup NosOf(s.mem)
               /\ t.disk = s.disk /\ t.ext = s.ext
               /\ t.wal.next = s.wal.next /\ t.wal.pending = s.wal.pending
               /\ t.wal.bytes = s.wal.bytes /\ t.wal.tail = s.wal.tail
               /\ t.wal.written = s.wal.written
               /\ t.wal.flushed = Max({s.wal.flushed} \cup SeqsOf(s.mem))
               /\ s.wal.flushed <= t.wal.flushed
               /\ \A r \in s.mem : r.seq <= t.wal.flushed
<1> DEFINE top == Max({s.wal.flushed} \cup SeqsOf(s.mem))
           w == [s.wal EXCEPT !.flushed = top]
           segments == s.sst \cup NosOf(s.mem)
           t == Segment(s)
<1>1. /\ s.wal \in Wals /\ s.disk \in Disks /\ s.mem \subseteq Entries /\ s.ext \in Nat
      /\ s.sst \subseteq 0..MaxWrites /\ s.wal.flushed \in Nat /\ s.wal.flushed < s.ext
      /\ \A r \in s.mem : r.seq < s.ext
    BY Parts DEF Counted
<1>2. top \in Nat /\ top < s.ext /\ s.wal.flushed <= top /\ \A r \in s.mem : r.seq <= top
    BY <1>1, TopIs
<1>3. segments \subseteq 0..MaxWrites
    BY <1>1, EntryParts DEF NosOf
<1>4. t = [s EXCEPT !.sst = segments, !.mem = {}, !.wal.flushed = top]
    BY DEF Segment, States, Wals
<1> HIDE DEF top, segments, t
<1>5. /\ w \in Wals /\ w.next = s.wal.next /\ w.pending = s.wal.pending
      /\ w.bytes = s.wal.bytes /\ w.tail = s.wal.tail
      /\ w.written = s.wal.written /\ w.flushed = top
    BY <1>1, <1>2 DEF Wals
<1>6. t = [s EXCEPT !.sst = segments, !.mem = {}, !.wal = w]
    BY <1>4 DEF States, Wals
<1> HIDE DEF w
<1>7. /\ t \in States /\ (t.ok <=> s.ok) /\ t.mem = {} /\ t.sst = segments
      /\ t.disk = s.disk /\ t.ext = s.ext /\ t.wal = w
    BY <1>1, <1>3, <1>5, <1>6 DEF States
<1>8. Counted(t)
    BY <1>2, <1>5, <1>7 DEF Counted
<1> QED
    BY <1>2, <1>5, <1>7, <1>8 DEF t, top, segments

LEMMA FlushGood ==
    ASSUME NEW s, Good(s)
    PROVE  LET t == switch_and_flush(s)
           IN  /\ Good(t) /\ t.ext = s.ext /\ t.mem = {}
               /\ Ring => /\ t = Segment(s) /\ t.wal.written <= t.wal.flushed
                          /\ t.wal.pending = s.wal.pending
               /\ Held(s) \ {Mark} \subseteq Held(t)
               /\ NosOf(ToSet(s.wal.pending)) \ {Mark}
                      \subseteq Held(t) \cup NosOf(ToSet(t.wal.pending))
<1> DEFINE u == Segment(s)
           t == switch_and_flush(s)
<1>1. s \in States /\ s.ok /\ Counted(s) /\ (Ring => RingGood(s)) /\ (~Ring => LogGood(s))
    BY DEF Good
<1>2. /\ u \in States /\ u.ok /\ Counted(u)
      /\ u.mem = {} /\ u.sst = s.sst \cup NosOf(s.mem)
      /\ u.disk = s.disk /\ u.ext = s.ext
      /\ u.wal.next = s.wal.next /\ u.wal.pending = s.wal.pending
      /\ u.wal.bytes = s.wal.bytes /\ u.wal.tail = s.wal.tail
      /\ u.wal.written = s.wal.written
      /\ s.wal.flushed <= u.wal.flushed
      /\ \A r \in s.mem : r.seq <= u.wal.flushed
    BY <1>1, SegmentIs
<1> HIDE DEF u, t
<1>3. /\ u.wal.flushed \in Nat /\ s.wal.flushed \in Nat /\ s.wal.written \in Nat
      /\ s.mem \subseteq Entries /\ s.disk \in Disks
      /\ s.wal.pending \in Seq(Entries) /\ s.disk.log \in Seq(Entries)
    BY <1>1, <1>2, Parts
<1>4. \A q \in s.mem : q.no \in u.sst
    BY <1>2 DEF NosOf
<1>5. Held(s) \subseteq Held(u)
    BY <1>2 DEF Held
<1>6. CASE Ring
    <2>1. RingGood(s)
        BY <1>1, <1>6
    <2>2. u.wal.written <= u.wal.flushed
        BY <1>2, <1>3, <2>1 DEF RingGood
    <2>3. \A o \in Starts(u.disk) :
              /\ u.disk.cells[o].seq <= u.wal.written
              /\ u.disk.cells[o] \in u.mem \/ u.disk.cells[o].no \in u.sst
        BY <1>2, <1>4, <2>1 DEF RingGood
    <2>4. u.wal.pending # <<>> =>
              \E r \in Entries :
                  /\ u.wal.pending = <<r>>
                  /\ u.wal.written < r.seq /\ r.seq < u.ext
                  /\ r \in u.mem \/ (r.no \in u.sst /\ r.seq <= u.wal.flushed)
        <3> SUFFICES ASSUME s.wal.pending # <<>>
                     PROVE  \E r \in Entries :
                                /\ s.wal.pending = <<r>>
                                /\ s.wal.written < r.seq /\ r.seq < s.ext
                                /\ r.no \in u.sst /\ r.seq <= u.wal.flushed
            BY <1>2
        <3>1. PICK r \in Entries :
                  /\ s.wal.pending = <<r>>
                  /\ s.wal.written < r.seq /\ r.seq < s.ext
                  /\ r \in s.mem \/ (r.no \in s.sst /\ r.seq <= s.wal.flushed)
            BY <2>1 DEF RingGood
        <3>2. r.no \in u.sst /\ r.seq <= u.wal.flushed
            BY <1>2, <1>3, <1>4, <3>1, EntryParts
        <3> QED
            BY <3>1, <3>2
    <2>5. RingGood(u)
        <3>1. /\ u.disk.next = 1 /\ u.wal.tail = u.disk.tail /\ Chained(u.disk)
              /\ \A o, p \in Starts(u.disk) : o < p => u.disk.cells[o].seq < u.disk.cells[p].seq
              /\ u.wal.pending = <<>> => u.wal.bytes = 0
            BY <1>2, <2>1 DEF RingGood
        <3>2. ~(u.wal.written > u.wal.flushed)
            BY <1>2, <1>3, <2>2
        <3> QED
            BY <1>2, <2>3, <2>4, <3>1, <3>2 DEF RingGood
    <2>6. t = u
        BY <1>6 DEF t, u, switch_and_flush
    <2> QED
        BY <1>2, <1>5, <1>6, <2>2, <2>5, <2>6 DEF Good, t, u
<1>7. CASE ~Ring
    <2> DEFINE w == [u.wal EXCEPT !.pending = <<>>, !.bytes = 0]
               e == [s.disk EXCEPT !.log = <<>>, !.next = s.wal.next]
    <2>1. t = [u EXCEPT !.wal = w, !.disk = e]
        <3>1. t = [u EXCEPT !.wal.pending = <<>>, !.wal.bytes = 0, !.disk.log = <<>>,
                            !.disk.next = s.wal.next]
            BY <1>7 DEF t, u, switch_and_flush
        <3> QED
            BY <1>2, <3>1 DEF States, Wals, Disks
    <2>2. u.wal \in Wals /\ s.disk \in Disks /\ s.wal.next \in Nat \ {0} /\ <<>> \in Seq(Entries)
        BY <1>1, <1>2, Parts
    <2>3. /\ w \in Wals /\ w.pending = <<>> /\ w.next = u.wal.next
          /\ w.flushed = u.wal.flushed /\ w.written = u.wal.written
        BY <2>2 DEF Wals
    <2>4. e \in Disks /\ e.log = <<>> /\ e.next = s.wal.next
        BY <2>2 DEF Disks
    <2> HIDE DEF w, e
    <2>5. /\ t \in States /\ t.ok /\ t.wal = w /\ t.disk = e
          /\ t.mem = {} /\ t.sst = u.sst /\ t.ext = s.ext
        BY <1>2, <2>1, <2>3, <2>4 DEF States
    <2>6. Counted(t)
        BY <1>1, <1>2, <2>3, <2>4, <2>5 DEF Counted
    <2>7. LogGood(t)
        BY <2>3, <2>4, <2>5 DEF LogGood
    <2>8. LogGood(s)
        BY <1>1, <1>7
    <2>9. \A q : Kept(s, q) => q.no = Mark \/ q.no \in t.sst
        BY <1>2, <1>4, <2>5 DEF Kept
    <2>10. NosOf(Scan(s.disk)) \ {Mark} \subseteq t.sst
        <3>1. Scan(s.disk) = {s.disk.log[i] : i \in DOMAIN s.disk.log}
            BY <1>3, <1>7, ScansLog
        <3> QED
            BY <2>8, <2>9, <3>1 DEF LogGood, NosOf
    <2>11. NosOf(ToSet(s.wal.pending)) \ {Mark} \subseteq t.sst
        BY <2>8, <2>9 DEF LogGood, NosOf, ToSet
    <2>12. s.sst \subseteq t.sst
        BY <1>2, <2>5
    <2>13. Held(s) \ {Mark} \subseteq Held(t)
        BY <2>10, <2>12 DEF Held
    <2>14. NosOf(ToSet(s.wal.pending)) \ {Mark} \subseteq Held(t)
        BY <2>11 DEF Held
    <2> QED
        BY <1>7, <2>5, <2>6, <2>7, <2>13, <2>14 DEF Good, t
<1> QED
    BY <1>6, <1>7 DEF t

LEMMA FullPends == ASSUME NEW w, w.pending = <<>> PROVE ~Full(w)
    BY DEF Full, Wraps

(* The sync of a family succeeds, with a flush if it has to.               *)
LEMMA SyncWalIs ==
    ASSUME NEW s \in States, s.ok
    PROVE  sync_wal(s) = IF Ring /\ Full(s.wal) THEN sync(switch_and_flush(s))
                         ELSE IF sync(s).ok THEN sync(s) ELSE sync(switch_and_flush(s))
<1>1. CASE Ring /\ Full(s.wal)
    <2>1. s.wal.pending # <<>>
        BY <1>1, FullPends
    <2>2. sync(s) = [s EXCEPT !.ok = FALSE]
        BY <1>1, <2>1 DEF sync
    <2>3. ~sync(s).ok
        BY <2>2 DEF States
    <2> QED
        BY <1>1, <2>3 DEF sync_wal
<1> QED
    BY <1>1 DEF sync_wal

LEMMA SyncWalGood ==
    ASSUME NEW s, Good(s)
    PROVE  LET t == sync_wal(s)
           IN  /\ Good(t) /\ t.ok /\ t.ext = s.ext /\ t.wal.pending = <<>>
               /\ (Held(s) \cup NosOf(ToSet(s.wal.pending))) \ {Mark} \subseteq Held(t)
<1>1. s \in States /\ s.ok
    BY DEF Good
<1>2. CASE Ring /\ Full(s.wal)
    <2> DEFINE u == switch_and_flush(s)
    <2>1. /\ Good(u) /\ u.ext = s.ext /\ u.wal.written <= u.wal.flushed
          /\ Held(s) \ {Mark} \subseteq Held(u)
          /\ NosOf(ToSet(s.wal.pending)) \ {Mark} \subseteq Held(u) \cup NosOf(ToSet(u.wal.pending))
        BY <1>2, FlushGood
    <2>2. sync_wal(s) = sync(u)
        BY <1>1, <1>2, SyncWalIs
    <2> HIDE DEF u
    <2>3. u.wal.written \in Nat /\ u.wal.flushed \in Nat
        BY <2>1, Parts DEF Good
    <2>4. ~Full(u.wal)
        BY <2>1, <2>3 DEF Full
    <2>5. /\ Good(sync(u)) /\ sync(u).ext = u.ext /\ sync(u).wal.pending = <<>>
          /\ Held(u) \cup NosOf(ToSet(u.wal.pending)) \subseteq Held(sync(u))
        BY <2>1, <2>4, SyncGood
    <2> QED
        BY <2>1, <2>2, <2>5 DEF Good
<1>3. CASE ~(Ring /\ Full(s.wal))
    <2>1. /\ Good(sync(s)) /\ sync(s).ext = s.ext /\ sync(s).wal.pending = <<>>
          /\ Held(s) \cup NosOf(ToSet(s.wal.pending)) \subseteq Held(sync(s))
        BY <1>3, SyncGood
    <2>2. sync_wal(s) = sync(s)
        BY <1>1, <1>3, <2>1, SyncWalIs DEF Good
    <2> QED
        BY <2>1, <2>2 DEF Good
<1> QED
    BY <1>2, <1>3

(* A sync does not look at the memtable.                                   *)
LEMMA SyncBeside ==
    ASSUME NEW s \in States, NEW m, ~(Ring /\ Full(s.wal))
    PROVE  sync([s EXCEPT !.mem = m]) = [sync(s) EXCEPT !.mem = m]
<1> DEFINE u == [s EXCEPT !.mem = m]
<1>1. u.wal = s.wal /\ u.disk = s.disk
    BY DEF States
<1>2. CASE s.wal.pending = <<>>
    BY <1>1, <1>2 DEF sync
<1>3. CASE s.wal.pending # <<>>
    <2> DEFINE e == Stored(s.wal, s.disk)
               to == IF Ring THEN NewTail(s.wal) ELSE s.wal.tail
               top == Max({s.wal.written} \cup SeqsOf(ToSet(s.wal.pending)))
    <2>1. sync(s) = [s EXCEPT !.disk = e, !.wal.pending = <<>>, !.wal.bytes = 0,
                              !.wal.tail = IF Ring THEN NewTail(s.wal) ELSE @,
                              !.wal.written = Max({@} \cup SeqsOf(ToSet(s.wal.pending)))]
        BY <1>3 DEF sync
    <2>2. sync(s) = [s EXCEPT !.disk = e, !.wal.pending = <<>>, !.wal.bytes = 0,
                              !.wal.tail = to, !.wal.written = top]
        BY <2>1 DEF States, Wals
    <2>3. sync(u) = [u EXCEPT !.disk = e, !.wal.pending = <<>>, !.wal.bytes = 0,
                              !.wal.tail = IF Ring THEN NewTail(u.wal) ELSE @,
                              !.wal.written = Max({@} \cup SeqsOf(ToSet(u.wal.pending)))]
        <3> HIDE DEF u
        <3>1. ~(Ring /\ Full(u.wal)) /\ u.wal.pending # <<>>
            BY <1>1, <1>3
        <3>2. sync(u) = [u EXCEPT !.disk = Stored(u.wal, @), !.wal.pending = <<>>, !.wal.bytes = 0,
                              !.wal.tail = IF Ring THEN NewTail(u.wal) ELSE @,
                              !.wal.written = Max({@} \cup SeqsOf(ToSet(u.wal.pending)))]
            BY <3>1 DEF sync
        <3>3. Stored(u.wal, u.disk) = e
            BY <1>1
        <3> HIDE DEF e
        <3> QED
            BY <3>2, <3>3
    <2>4. sync(u) = [u EXCEPT !.disk = e, !.wal.pending = <<>>, !.wal.bytes = 0,
                              !.wal.tail = to, !.wal.written = top]
        <3> HIDE DEF e
        <3> QED
            BY <1>1, <2>3 DEF States, Wals
    <2> HIDE DEF e, to, top
    <2> QED
        BY <2>2, <2>4 DEF States, Wals
<1> QED
    BY <1>2, <1>3

LEMMA DeleteGood ==
    ASSUME NEW s, Good(s), s.ext <= MaxWrites, Ring => s.wal.pending = <<>>,
           NEW no \in 0..MaxWrites, NEW len \in Lengths, NEW deletes
    PROVE  LET a == Appended(s, no, len, deletes)
               synced == sync_wal(a)
               t == [synced EXCEPT !.mem = @ \cup {Last(a.wal.pending)}]
           IN  /\ a.ok /\ synced.ok
               /\ Good(t) /\ t.ext = s.ext + 1 /\ t.wal.pending = <<>>
               /\ (Held(s) \cup NosOf(ToSet(s.wal.pending)) \cup {no}) \ {Mark} \subseteq Held(t)
<1> DEFINE r == Numbered(s, no, len)
           a == Appended(s, no, len, deletes)
           p == Remembered(a)
           synced == sync_wal(a)
           t == [synced EXCEPT !.mem = @ \cup {Last(a.wal.pending)}]
<1>1. s \in States /\ s.ok /\ Counted(s) /\ (Ring => RingGood(s)) /\ (Ring => s.wal.bytes = 0)
    BY DEF Good, RingGood
<1>2. /\ r \in Entries /\ r.no = no /\ r.seq = s.ext /\ r.len = len
      /\ a \in States /\ a.ok
      /\ a.wal.pending = Append(s.wal.pending, r) /\ a.wal.bytes = s.wal.bytes + len
      /\ a.wal.next = (IF s.wal.next >= s.ext + 1 THEN s.wal.next ELSE s.ext + 1)
      /\ a.wal.tail = s.wal.tail /\ a.wal.flushed = s.wal.flushed
      /\ a.wal.written = s.wal.written
      /\ a.disk = s.disk /\ a.mem = s.mem /\ a.sst = s.sst /\ a.ext = s.ext + 1
    BY <1>1, Appends
<1>3. /\ Good(p) /\ p.ext = s.ext + 1 /\ Held(p) = Held(s)
      /\ p.wal.pending = Append(s.wal.pending, r)
    BY PutGood
<1> HIDE DEF r, a, synced, p
<1>4. s.wal.pending \in Seq(Entries)
    BY <1>1, Parts
<1>5. Last(a.wal.pending) = r
    BY <1>2, <1>4 DEF Last
<1>6. p = [a EXCEPT !.mem = s.mem \cup {r}] /\ p.wal = a.wal
    BY <1>2, <1>5 DEF Remembered, p, States
<1>7. NosOf(ToSet(s.wal.pending)) \cup {no} \subseteq NosOf(ToSet(p.wal.pending))
    <2>1. \A i \in DOMAIN s.wal.pending :
              i \in DOMAIN p.wal.pending /\ p.wal.pending[i] = s.wal.pending[i]
        BY <1>2, <1>3, <1>4, AppendIs
    <2>2. \E i \in DOMAIN p.wal.pending : p.wal.pending[i] = r
        <3>1. Len(s.wal.pending) + 1 \in 1..Len(s.wal.pending) + 1
            BY <1>4
        <3> QED
            BY <1>2, <1>3, <1>4, <3>1, AppendIs
    <2> QED
        BY <1>2, <2>1, <2>2 DEF NosOf, ToSet
<1>8. ASSUME NEW q, Good(q), ~(Ring /\ Full(q.wal)), q.ext = s.ext + 1,
             Held(s) \ {Mark} \subseteq Held(q), q.wal.pending = p.wal.pending, t = sync(q)
      PROVE  /\ Good(t) /\ t.ext = s.ext + 1 /\ t.wal.pending = <<>>
             /\ (Held(s) \cup NosOf(ToSet(s.wal.pending)) \cup {no}) \ {Mark} \subseteq Held(t)
    <2> HIDE DEF t
    <2>1. /\ Good(sync(q)) /\ sync(q).ext = q.ext /\ sync(q).wal.pending = <<>>
          /\ Held(q) \cup NosOf(ToSet(q.wal.pending)) \subseteq Held(sync(q))
        BY <1>8, SyncGood
    <2> QED
        BY <1>7, <1>8, <2>1
<1>9. CASE ~(Ring /\ Full(a.wal))
    <2>1. sync(p) = [sync(a) EXCEPT !.mem = s.mem \cup {r}]
        BY <1>2, <1>6, <1>9, SyncBeside
    <2>2. Good(sync(p)) /\ sync(p).ok
        BY <1>3, <1>6, <1>9, SyncGood DEF Good
    <2>3. sync(a) \in States /\ sync(a).ok /\ sync(a).mem = s.mem
        <3>1. sync(a) = [sync(p) EXCEPT !.mem = a.mem]
            <4>1. a = [p EXCEPT !.mem = a.mem] /\ p \in States
                BY <1>2, <1>3, <1>6 DEF States, Good
            <4> QED
                BY <1>6, <1>9, <4>1, SyncBeside
        <3>2. sync(p) \in States /\ a.mem \in SUBSET Entries
            BY <1>2, <2>2, Parts DEF Good
        <3> QED
            BY <1>2, <2>2, <3>1, <3>2 DEF States
    <2>4. synced = sync(a)
        BY <1>2, <1>9, <2>3, SyncWalIs DEF synced
    <2>5. t = sync(p)
        BY <1>5, <2>1, <2>3, <2>4 DEF States
    <2>6. Held(s) \ {Mark} \subseteq Held(p)
        BY <1>3
    <2>7. ~(Ring /\ Full(p.wal))
        BY <1>6, <1>9
    <2> QED
        BY <1>2, <1>3, <1>8, <2>3, <2>4, <2>5, <2>6, <2>7 DEF a, synced
<1>10. CASE Ring /\ Full(a.wal)
    <2> DEFINE u == Segment(s)
               v == Segment(a)
               q == Remembered(Appended(u, no, len, deletes))
    <2>1. s.wal.pending = <<>> /\ p.wal.pending = <<r>> /\ a.wal.pending = <<r>>
        <3>1. Append(<<>>, r) = <<r>> /\ s.wal.pending = <<>>
            BY <1>10
        <3> QED
            BY <1>2, <1>3, <3>1
    <2>2. /\ Good(u) /\ u.wal.written <= u.wal.flushed /\ u.wal.pending = <<>>
          /\ Held(s) \ {Mark} \subseteq Held(u)
        BY <1>10, <2>1, FlushGood
    <2>3. /\ u \in States /\ u.mem = {} /\ u.sst = s.sst \cup NosOf(s.mem)
          /\ u.disk = s.disk /\ u.ext = s.ext
          /\ u.wal.next = s.wal.next /\ u.wal.bytes = s.wal.bytes /\ u.wal.tail = s.wal.tail
          /\ u.wal.written = s.wal.written
          /\ u.wal.flushed = Max({s.wal.flushed} \cup SeqsOf(s.mem))
        BY <1>1, SegmentIs
    <2>4. Counted(a)
        <3>1. /\ s.ext \in Nat \ {0} /\ s.wal.next \in Nat /\ s.disk.next \in Nat
              /\ s.wal.flushed \in Nat /\ s.wal.written \in Nat /\ \A m \in s.mem : m.seq \in Nat
            BY <1>1, Parts, EntryParts
        <3> QED
            BY <1>1, <1>2, <3>1 DEF Counted
    <2>5. /\ v \in States /\ v.ok /\ v.mem = {} /\ v.sst = s.sst \cup NosOf(s.mem)
          /\ v.disk = s.disk /\ v.ext = s.ext + 1
          /\ v.wal.next = a.wal.next /\ v.wal.pending = <<r>>
          /\ v.wal.bytes = s.wal.bytes + len /\ v.wal.tail = s.wal.tail
          /\ v.wal.written = s.wal.written
          /\ v.wal.flushed = Max({s.wal.flushed} \cup SeqsOf(s.mem))
        BY <1>2, <2>1, <2>4, SegmentIs
    <2>6. Numbered(u, no, len) = r
        BY <2>3 DEF Numbered, r
    <2>7. /\ Good(q) /\ q.ext = s.ext + 1 /\ Held(q) = Held(u) /\ q.wal.pending = <<r>>
          /\ q.wal.written <= q.wal.flushed
        <3> HIDE DEF u
        <3> QED
            BY <2>2, <2>3, <2>6, PutGood
    <2>8. q = [v EXCEPT !.mem = {r}]
        <3> DEFINE b == Appended(u, no, len, deletes)
        <3>1. u.ok /\ u.wal.bytes = 0
            BY <1>1, <1>10, <2>2, <2>3 DEF Good
        <3>2. /\ b \in States /\ b.ok
              /\ b.wal.pending = <<r>> /\ b.wal.bytes = s.wal.bytes + len
              /\ b.wal.next = a.wal.next
              /\ b.wal.tail = s.wal.tail /\ b.wal.flushed = u.wal.flushed
              /\ b.wal.written = s.wal.written
              /\ b.disk = s.disk /\ b.mem = {} /\ b.sst = u.sst /\ b.ext = s.ext + 1
            <4> HIDE DEF u
            <4>1. Append(u.wal.pending, r) = <<r>>
                BY <2>2
            <4>2. /\ b \in States /\ b.ok
                  /\ b.wal.pending = Append(u.wal.pending, r) /\ b.wal.bytes = u.wal.bytes + len
                  /\ b.wal.next = (IF u.wal.next >= u.ext + 1 THEN u.wal.next ELSE u.ext + 1)
                  /\ b.wal.tail = u.wal.tail /\ b.wal.flushed = u.wal.flushed
                  /\ b.wal.written = u.wal.written
                  /\ b.disk = u.disk /\ b.mem = u.mem /\ b.sst = u.sst /\ b.ext = u.ext + 1
                BY <2>3, <2>6, <3>1, Appends
            <4> HIDE DEF b
            <4> QED
                BY <1>2, <2>3, <4>1, <4>2
        <3>3. q = [b EXCEPT !.mem = {r}]
            <4>1. Last(b.wal.pending) = r
                BY <3>2 DEF Last
            <4>2. q = [b EXCEPT !.mem = @ \cup {Last(b.wal.pending)}]
                BY DEF Remembered
            <4> HIDE DEF b, u, q
            <4> QED
                BY <3>2, <4>1, <4>2 DEF States
        <3> HIDE DEF b, u, v, q
        <3>4. b.wal = v.wal
            <4>1. b.wal \in Wals /\ v.wal \in Wals
                BY <2>5, <3>2, Parts
            <4>2. \A x \in Wals : x = [next |-> x.next, pending |-> x.pending, bytes |-> x.bytes,
                                      tail |-> x.tail, flushed |-> x.flushed, written |-> x.written]
                BY DEF Wals
            <4>3. /\ b.wal.next = v.wal.next /\ b.wal.pending = v.wal.pending
                  /\ b.wal.bytes = v.wal.bytes /\ b.wal.tail = v.wal.tail
                  /\ b.wal.flushed = v.wal.flushed /\ b.wal.written = v.wal.written
                BY <2>3, <2>5, <3>2
            <4> QED
                BY <4>1, <4>2, <4>3
        <3>5. b = v
            <4>1. \A x \in States : x = [wal |-> x.wal, disk |-> x.disk, mem |-> x.mem,
                                        sst |-> x.sst, ext |-> x.ext, ok |-> x.ok]
                BY DEF States
            <4>2. b.ok = TRUE /\ v.ok = TRUE
                BY <2>5, <3>2 DEF States
            <4>3. /\ b.wal = v.wal /\ b.disk = v.disk /\ b.mem = v.mem
                  /\ b.sst = v.sst /\ b.ext = v.ext
                BY <2>3, <2>5, <3>2, <3>4
            <4>4. b \in States /\ v \in States
                BY <2>5, <3>2
            <4> QED
                BY <4>1, <4>2, <4>3, <4>4
        <3> QED
            BY <3>3, <3>2, <3>5
    <2> HIDE DEF u, v, q
    <2>9. q.wal = v.wal
        BY <2>5, <2>8 DEF States
    <2>10. ~Full(q.wal) /\ ~Full(v.wal)
        <3>1. q.wal.written \in Nat /\ q.wal.flushed \in Nat
            BY <2>7, Parts DEF Good
        <3> QED
            BY <2>7, <2>9, <3>1 DEF Full
    <2>11. sync(q) = [sync(v) EXCEPT !.mem = {r}]
        BY <2>5, <2>8, <2>10, SyncBeside
    <2>12. Good(sync(q)) /\ sync(q).ok
        BY <2>7, <2>10, SyncGood DEF Good
    <2>13. sync(v) \in States /\ sync(v).ok /\ sync(v).mem = {}
        <3>1. sync(v) = [sync(q) EXCEPT !.mem = {}]
            <4>1. v = [q EXCEPT !.mem = {}] /\ q \in States
                BY <2>5, <2>7, <2>8 DEF States, Good
            <4> QED
                BY <2>10, <4>1, SyncBeside
        <3>2. sync(q) \in States /\ {} \in SUBSET Entries
            BY <2>12 DEF Good
        <3> QED
            BY <2>12, <3>1, <3>2 DEF States
    <2>14. synced = sync(v)
        <3>1. switch_and_flush(a) = v
            BY <1>10 DEF switch_and_flush, v
        <3> QED
            BY <1>2, <1>10, <3>1, SyncWalIs DEF synced
    <2>15. t = sync(q)
        BY <1>5, <2>11, <2>13, <2>14 DEF States
    <2>16. Held(s) \ {Mark} \subseteq Held(q)
        BY <2>2, <2>7
    <2>17. q.wal.pending = p.wal.pending
        BY <2>1, <2>7
    <2> QED
        BY <1>2, <1>8, <2>7, <2>10, <2>13, <2>14, <2>15, <2>16, <2>17 DEF a, synced
<1> QED
    BY <1>9, <1>10 DEF a, synced

-----------------------------------------------------------------------------
(* Restarts                                                                *)

(* A file that a restart can go on from, no number of it reaching n.       *)
Legible(d, n) ==
    /\ d.next <= n
    /\ Ring => /\ d.next = 1 /\ Chained(d)
               /\ \A o, p \in Starts(d) : o < p => d.cells[o].seq < d.cells[p].seq
               /\ \A o \in Starts(d) : d.cells[o].seq < n
    /\ ~Ring => /\ \A i \in DOMAIN d.log : d.log[i].seq \in d.next..n - 1
                /\ \A i, j \in DOMAIN d.log : i < j => d.log[i].seq < d.log[j].seq

LEMMA GoodIsLegible ==
    ASSUME NEW s, Good(s)
    PROVE  Legible(s.disk, s.ext)
<1>1. s \in States /\ Counted(s) /\ (Ring => RingGood(s)) /\ (~Ring => LogGood(s))
    BY DEF Good
<1>2. s.disk.next <= s.ext /\ s.wal.written < s.ext
    BY <1>1 DEF Counted
<1>3. s.wal.written \in Nat /\ s.ext \in Nat
    BY <1>1, Parts
<1>4. ASSUME Ring PROVE \A o \in Starts(s.disk) : s.disk.cells[o].seq < s.ext
    <2>1. \A o \in Starts(s.disk) : s.disk.cells[o] \in Scan(s.disk)
        BY <1>4, ScansRing
    <2>2. Scan(s.disk) \subseteq Entries
        BY <1>1, ScanTyped, Parts
    <2>3. \A o \in Starts(s.disk) : s.disk.cells[o].seq \in Nat
        BY <2>1, <2>2, EntryParts
    <2>4. \A o \in Starts(s.disk) : s.disk.cells[o].seq <= s.wal.written
        BY <1>1, <1>4 DEF RingGood
    <2> QED
        BY <1>2, <1>3, <2>3, <2>4
<1>5. Ring => /\ s.disk.next = 1 /\ Chained(s.disk)
              /\ \A o, p \in Starts(s.disk) : o < p => s.disk.cells[o].seq < s.disk.cells[p].seq
    BY <1>1 DEF RingGood
<1>6. ~Ring => /\ \A i \in DOMAIN s.disk.log : s.disk.log[i].seq \in s.disk.next..s.ext - 1
               /\ \A i, j \in DOMAIN s.disk.log : i < j => s.disk.log[i].seq < s.disk.log[j].seq
    BY <1>1 DEF LogGood
<1> QED
    BY <1>2, <1>4, <1>5, <1>6 DEF Legible

LEMMA ReopenGood ==
    ASSUME NEW d \in Disks, NEW n \in Nat, Legible(d, n), NEW segments \in SUBSET (0..MaxWrites)
    PROVE  LET t == Reopened(d, segments)
           IN  /\ Good(t) /\ t.ext <= n /\ t.wal.pending = <<>>
               /\ Held(t) = segments \cup NosOf(Scan(d))
<1> DEFINE found == Scan(d)
           top == Max({0} \cup SeqsOf(found))
           next == IF top > 0 THEN top + 1 ELSE IF Ring THEN 1 ELSE d.next
           w == [next |-> next, pending |-> <<>>, bytes |-> 0, tail |-> d.tail, flushed |-> 0,
                 written |-> IF Ring THEN top ELSE 0]
           t == Reopened(d, segments)
<1>1. /\ found \subseteq Entries /\ d.next \in Nat \ {0} /\ d.next <= n /\ d.tail \in 0..Size
      /\ d.log \in Seq(Entries)
    BY ScanTyped DEF Disks, Legible
<1>2. \A r \in found : r.seq \in Nat /\ 0 < r.seq /\ r.seq < n
    <2>1. \A r \in found : r.seq \in Nat \ {0}
        BY <1>1, EntryParts
    <2>2. CASE Ring
        BY <2>1, <2>2, ScansRing DEF Legible
    <2>3. CASE ~Ring
        <3>1. \A i \in DOMAIN d.log : d.log[i].seq < n
            <4>1. \A i \in DOMAIN d.log : d.log[i].seq \in d.next..n - 1
                BY <2>3 DEF Legible
            <4> QED
                BY <1>1, <4>1
        <3>2. found = {d.log[i] : i \in DOMAIN d.log}
            BY <1>1, <2>3, ScansLog
        <3> QED
            BY <2>1, <3>1, <3>2
    <2> QED
        BY <2>2, <2>3
<1>3. /\ top \in Nat /\ top < n /\ \A r \in found : r.seq <= top
      /\ top = 0 \/ \E r \in found : r.seq = top
    <2>1. 0 < n
        BY <1>1
    <2> HIDE DEF found
    <2> QED
        BY <1>1, <1>2, <2>1, TopIs
<1>4. t = [wal |-> w, disk |-> d, mem |-> found, sst |-> segments, ext |-> next, ok |-> TRUE]
    BY DEF Reopened
<1> HIDE DEF t, found, top
<1>5. next \in Nat \ {0} /\ next <= n /\ top < next
    BY <1>1, <1>3
<1>6. d.next <= next
    <2>1. CASE Ring
        BY <1>1, <1>5, <2>1 DEF Legible
    <2>2. CASE ~Ring /\ top = 0
        BY <1>1, <2>2
    <2>3. CASE ~Ring /\ top # 0
        <3>1. PICK r \in found : r.seq = top
            BY <1>3, <2>3
        <3>2. PICK i \in DOMAIN d.log : r = d.log[i]
            BY <1>1, <2>3, <3>1, ScansLog DEF found
        <3>3. d.log[i].seq \in d.next..n - 1
            BY <2>3 DEF Legible
        <3> QED
            BY <1>1, <1>3, <1>5, <3>1, <3>2, <3>3
    <2> QED
        BY <2>1, <2>2, <2>3
<1> HIDE DEF next
<1>7. /\ w \in Wals /\ w.next = next /\ w.pending = <<>> /\ w.bytes = 0 /\ w.tail = d.tail
      /\ w.flushed = 0 /\ w.written = (IF Ring THEN top ELSE 0)
    <2>1. <<>> \in Seq(Entries)
        OBVIOUS
    <2> QED
        BY <1>1, <1>3, <1>5, <2>1 DEF Wals
<1> HIDE DEF w
<1>8. /\ t \in States /\ t.ok /\ t.wal = w /\ t.disk = d /\ t.mem = found
      /\ t.sst = segments /\ t.ext = next
    BY <1>1, <1>4, <1>5, <1>7 DEF States
<1>9. Counted(t)
    BY <1>2, <1>3, <1>5, <1>6, <1>7, <1>8 DEF Counted
<1>10. ASSUME Ring PROVE RingGood(t)
    <2>1. found = {d.cells[o] : o \in Starts(d)}
        BY <1>10, ScansRing DEF found
    <2>2. \A o \in Starts(t.disk) :
              /\ t.disk.cells[o].seq <= t.wal.written
              /\ t.disk.cells[o] \in t.mem \/ t.disk.cells[o].no \in t.sst
        BY <1>3, <1>7, <1>8, <1>10, <2>1
    <2>3. \A r \in t.mem : t.wal.flushed < r.seq
        BY <1>2, <1>7, <1>8
    <2>4. t.wal.written > t.wal.flushed => \E r \in t.mem : r.seq = t.wal.written
        BY <1>3, <1>7, <1>8, <1>10
    <2>5. /\ t.disk.next = 1 /\ t.wal.tail = t.disk.tail /\ Chained(t.disk)
          /\ \A o, p \in Starts(t.disk) : o < p => t.disk.cells[o].seq < t.disk.cells[p].seq
        BY <1>7, <1>8, <1>10 DEF Legible
    <2>6. t.wal.pending = <<>> /\ t.wal.bytes = 0
        BY <1>7, <1>8
    <2> QED
        BY <2>2, <2>3, <2>4, <2>5, <2>6 DEF RingGood
<1>11. ASSUME ~Ring PROVE LogGood(t)
    <2>1. found = {d.log[i] : i \in DOMAIN d.log}
        BY <1>1, <1>11, ScansLog DEF found
    <2>2. \A i \in DOMAIN d.log : d.log[i].seq \in d.next..next - 1
        <3>1. \A i \in DOMAIN d.log : d.log[i] \in found /\ d.log[i].seq \in d.next..n - 1
            BY <1>11, <2>1 DEF Legible
        <3> QED
            BY <1>1, <1>3, <1>5, <3>1
    <2>3. \A i \in DOMAIN d.log : Kept(t, d.log[i])
        BY <1>8, <2>1 DEF Kept
    <2>4. \A i, j \in DOMAIN d.log : i < j => d.log[i].seq < d.log[j].seq
        BY <1>11 DEF Legible
    <2>5. t.disk = d /\ t.wal.pending = <<>> /\ t.ext = next
        BY <1>7, <1>8
    <2> QED
        BY <2>2, <2>3, <2>4, <2>5 DEF LogGood
<1>12. Held(t) = segments \cup NosOf(Scan(d))
    BY <1>8 DEF Held, found
<1> QED
    BY <1>5, <1>7, <1>8, <1>9, <1>10, <1>11, <1>12 DEF Good, t

-----------------------------------------------------------------------------
(* The actions                                                             *)

LEMMA SettingIs ==
    ASSUME Careful, setting \in Settings
    PROVE  /\ setting.lens \subseteq Lengths
           /\ Ring => ~setting.group /\ ~setting.bitmap /\ ~setting.split
           /\ ~Ring => ~setting.torn
<1>1. /\ setting \in [mode : {"append", "ring"}, group : BOOLEAN, bitmap : BOOLEAN,
                      torn : BOOLEAN, split : BOOLEAN, lens : SUBSET Lengths]
    BY SettingsAssumption
<1>2. setting.mode \in {"append", "ring"} /\ setting.lens \subseteq Lengths
    BY <1>1
<1> QED
    BY <1>2 DEF Careful, Ring

LEMMA BecomesIs ==
    ASSUME NEW t, t \in States, t.ok, Becomes(t)
    PROVE  State' = t
<1>1. t = [wal |-> t.wal, disk |-> t.disk, mem |-> t.mem, sst |-> t.sst, ext |-> t.ext, ok |-> TRUE]
    BY DEF States
<1> QED
    BY <1>1 DEF State, Becomes

LEMMA StateIs ==
    /\ State.wal = wal /\ State.disk = disk /\ State.mem = mem /\ State.sst = sst
    /\ State.ext = ext
    BY DEF State

LEMMA NosAppend ==
    ASSUME NEW p \in Seq(Entries), NEW r \in Entries
    PROVE  NosOf(ToSet(Append(p, r))) = NosOf(ToSet(p)) \cup {r.no}
<1>1. /\ Len(p) \in Nat /\ DOMAIN p = 1..Len(p)
      /\ DOMAIN Append(p, r) = 1..Len(p) + 1
      /\ \A i \in DOMAIN p : Append(p, r)[i] = p[i]
      /\ Append(p, r)[Len(p) + 1] = r
    BY AppendIs
<1>2. ToSet(Append(p, r)) = ToSet(p) \cup {r}
    <2>1. \A x : x \in ToSet(Append(p, r)) <=> \E i \in 1..Len(p) + 1 : Append(p, r)[i] = x
        BY <1>1 DEF ToSet
    <2>2. \A x : x \in ToSet(p) <=> \E i \in 1..Len(p) : p[i] = x
        BY <1>1 DEF ToSet
    <2>3. \A i : i \in 1..Len(p) + 1 <=> i \in 1..Len(p) \/ i = Len(p) + 1
        BY <1>1
    <2>4. \A i \in 1..Len(p) : Append(p, r)[i] = p[i]
        BY <1>1
    <2>5. \A x : x \in ToSet(Append(p, r)) <=> x \in ToSet(p) \/ x = r
        BY <1>1, <2>1, <2>2, <2>3, <2>4
    <2> QED
        BY <2>5
<1> QED
    BY <1>2 DEF NosOf

(* What a step must show to keep the invariant.                            *)
LEMMA StepKeeps ==
    ASSUME NEW t, Good(t), Becomes(t), setting \in Settings, UNCHANGED setting, refused' = FALSE,
           waiting' \subseteq 0..MaxWrites, acked' \subseteq 1..MaxWrites,
           writes' \in 0..MaxWrites, crashes' \in 0..MaxCrashes, t.ext <= writes' + 1,
           acked' \subseteq Held(t),
           waiting' \ {Mark} \subseteq Held(t) \cup NosOf(ToSet(t.wal.pending)),
           Ring /\ waiting' = {} => t.wal.pending = <<>>
    PROVE  Inv'
<1>1. State' = t
    <2>1. t \in States /\ t.ok
        BY DEF Good
    <2> QED
        BY <2>1, BecomesIs
<1>2. Good(State)'
    BY <1>1 DEF Good, Ring
<1>3. Held(State)' = Held(t)
    BY <1>1 DEF Held, Scan, Found, At, Ring
<1>4. ext' = t.ext /\ wal' = t.wal
    BY DEF Becomes
<1>5. Ring' <=> Ring
    BY DEF Ring
<1> QED
    BY <1>2, <1>3, <1>4, <1>5 DEF Inv

(* A call that writes still has a number, and finds the buffer of a ring   *)
(* empty.                                                                  *)
LEMMA CallHas ==
    ASSUME Careful, Inv, Call
    PROVE  /\ State.ext <= MaxWrites
           /\ Ring => State.wal.pending = <<>>
           /\ writes \in Nat /\ writes' = writes + 1 /\ writes' \in 1..MaxWrites
           /\ State.ext + 1 <= writes' + 1
           /\ UNCHANGED <<setting, crashes>>
<1>1. writes < MaxWrites /\ writes' = writes + 1 /\ UNCHANGED <<setting, crashes>>
    BY DEF Call
<1>2. ext <= writes + 1 /\ writes \in Nat /\ ext \in Nat
    <2>1. ext <= writes + 1 /\ writes \in 0..MaxWrites /\ Good(State)
        BY DEF Inv
    <2>2. State \in States
        BY <2>1 DEF Good
    <2> QED
        BY <2>1, <2>2, Parts, StateIs, Bounds
<1>3. Ring => wal.pending = <<>>
    <2>1. Ring => ~setting.group
        BY SettingIs DEF Inv
    <2>2. Ring => waiting = {}
        BY <2>1 DEF Call
    <2> QED
        BY <2>2 DEF Inv
<1> QED
    BY <1>1, <1>2, <1>3, StateIs, Bounds
LEMMA PutKeepsInv ==
    ASSUME Careful, Inv, NEW len \in setting.lens, put(len)
    PROVE  Inv'
<1> DEFINE deletes == FALSE
           s == Appended(State, writes', len, deletes)
           t == Remembered(s)
           u == switch_and_flush(t)
           r == Numbered(State, writes', len)
<1>1. Call
    BY DEF put
<1>2. /\ State.ext <= MaxWrites /\ (Ring => State.wal.pending = <<>>)
      /\ writes' \in 1..MaxWrites /\ State.ext + 1 <= writes' + 1
      /\ UNCHANGED <<setting, crashes>>
    BY <1>1, CallHas
<1>3. /\ setting \in Settings /\ refused = FALSE /\ waiting \subseteq 0..MaxWrites
      /\ acked \subseteq 1..MaxWrites /\ crashes \in 0..MaxCrashes
      /\ Good(State) /\ acked \subseteq Held(State)
      /\ waiting \ {Mark} \subseteq Held(State) \cup NosOf(ToSet(State.wal.pending))
    BY StateIs DEF Inv
<1>4. len \in Lengths /\ writes' \in 0..MaxWrites
    BY <1>2, <1>3, SettingIs, Bounds
<1>5. IF ~s.ok THEN Refuses(s) ELSE Waits(t, writes') \/ Waits(u, writes')
    BY DEF put
<1> HIDE DEF deletes
<1>6. /\ Good(t) /\ s.ok
      /\ t.ext = State.ext + 1 /\ Held(t) = Held(State)
      /\ t.wal.pending = Append(State.wal.pending, r) /\ r.no = writes'
    BY <1>2, <1>3, <1>4, PutGood
<1>7. Good(u) /\ u.ext = t.ext /\ Held(t) \ {Mark} \subseteq Held(u)
      /\ NosOf(ToSet(t.wal.pending)) \ {Mark} \subseteq Held(u) \cup NosOf(ToSet(u.wal.pending))
    BY <1>6, FlushGood
<1>8. NosOf(ToSet(t.wal.pending)) = NosOf(ToSet(State.wal.pending)) \cup {writes'}
    <2>1. State \in States
        BY <1>3 DEF Good
    <2>2. State.wal.pending \in Seq(Entries) /\ State.ext \in Nat \ {0}
        BY <2>1, Parts
    <2>3. r \in Entries
        BY <1>2, <1>4, <2>2, Bounds DEF Numbered, Entries
    <2> QED
        BY <1>6, <2>2, <2>3, NosAppend
<1>9. acked \cap {Mark} = {}
    BY <1>3 DEF Mark
<1> HIDE DEF s, t, u, r
<1>10. CASE Waits(t, writes')
    <2>1. Becomes(t) /\ waiting' = waiting \cup {writes'} /\ UNCHANGED <<acked, refused>>
        BY <1>10 DEF Waits
    <2> QED
        BY <1>2, <1>3, <1>4, <1>6, <1>8, <2>1, StepKeeps
<1>11. CASE Waits(u, writes')
    <2>1. Becomes(u) /\ waiting' = waiting \cup {writes'} /\ UNCHANGED <<acked, refused>>
        BY <1>11 DEF Waits
    <2>2. acked' \subseteq Held(u)
        BY <1>3, <1>6, <1>7, <1>9, <2>1
    <2>3. waiting' \ {Mark} \subseteq Held(u) \cup NosOf(ToSet(u.wal.pending))
        BY <1>3, <1>6, <1>7, <1>8, <2>1
    <2> QED
        BY <1>2, <1>3, <1>4, <1>6, <1>7, <2>1, <2>2, <2>3, StepKeeps
<1> QED
    BY <1>5, <1>6, <1>10, <1>11

LEMMA DeleteKeepsInv ==
    ASSUME Careful, Inv, NEW len \in setting.lens, delete(len)
    PROVE  Inv'
<1> DEFINE deletes == TRUE
           s == Appended(State, writes', len, deletes)
           synced == sync_wal(s)
           t == [synced EXCEPT !.mem = @ \cup {Last(s.wal.pending)}]
<1>1. Call
    BY DEF delete
<1>2. /\ State.ext <= MaxWrites /\ (Ring => State.wal.pending = <<>>)
      /\ writes' \in 1..MaxWrites /\ State.ext + 1 <= writes' + 1
      /\ UNCHANGED <<setting, crashes>>
    BY <1>1, CallHas
<1>3. /\ setting \in Settings /\ refused = FALSE /\ waiting \subseteq 0..MaxWrites
      /\ acked \subseteq 1..MaxWrites /\ crashes \in 0..MaxCrashes
      /\ Good(State) /\ acked \subseteq Held(State)
      /\ waiting \ {Mark} \subseteq Held(State) \cup NosOf(ToSet(State.wal.pending))
    BY StateIs DEF Inv
<1>4. len \in Lengths /\ writes' \in 0..MaxWrites
    BY <1>2, <1>3, SettingIs, Bounds
<1>5. IF s.ok /\ synced.ok
      THEN Becomes(t) /\ acked' = acked \cup {writes'} /\ UNCHANGED <<waiting, refused>>
      ELSE Refuses([synced EXCEPT !.ok = FALSE])
    BY DEF delete
<1> HIDE DEF deletes
<1>6. /\ s.ok /\ synced.ok
      /\ Good(t) /\ t.ext = State.ext + 1 /\ t.wal.pending = <<>>
      /\ (Held(State) \cup NosOf(ToSet(State.wal.pending)) \cup {writes'}) \ {Mark} \subseteq Held(t)
    BY <1>2, <1>3, <1>4, DeleteGood
<1>7. acked \cap {Mark} = {} /\ writes' # Mark
    BY <1>2, <1>3 DEF Mark
<1> HIDE DEF s, t, synced
<1>8. Becomes(t) /\ acked' = acked \cup {writes'} /\ UNCHANGED <<waiting, refused>>
    BY <1>5, <1>6
<1>9. acked' \subseteq Held(t) /\ acked' \subseteq 1..MaxWrites
    BY <1>2, <1>3, <1>6, <1>7, <1>8
<1>10. waiting' \ {Mark} \subseteq Held(t) \cup NosOf(ToSet(t.wal.pending))
    BY <1>3, <1>6, <1>8
<1> QED
    BY <1>2, <1>3, <1>4, <1>6, <1>8, <1>9, <1>10, StepKeeps

LEMMA MarkKeepsInv ==
    ASSUME Careful, Inv, NEW len \in setting.lens, delete_record_wal(len)
    PROVE  Inv'
<1> DEFINE deletes == TRUE
           t == Appended(State, Mark, len, deletes)
<1>1. Call /\ setting.bitmap
    BY DEF delete_record_wal
<1>2. /\ State.ext <= MaxWrites
      /\ writes' \in 1..MaxWrites /\ State.ext + 1 <= writes' + 1
      /\ UNCHANGED <<setting, crashes>>
    BY <1>1, CallHas
<1>3. /\ setting \in Settings /\ refused = FALSE /\ waiting \subseteq 0..MaxWrites
      /\ acked \subseteq 1..MaxWrites /\ crashes \in 0..MaxCrashes
      /\ Good(State) /\ acked \subseteq Held(State)
      /\ waiting \ {Mark} \subseteq Held(State) \cup NosOf(ToSet(State.wal.pending))
    BY StateIs DEF Inv
<1>4. len \in Lengths /\ writes' \in 0..MaxWrites /\ ~Ring /\ Mark \in 0..MaxWrites
    BY <1>1, <1>2, <1>3, SettingIs, Bounds DEF Mark
<1>5. IF t.ok THEN Waits(t, Mark) ELSE Refuses(t)
    BY DEF delete_record_wal
<1> HIDE DEF deletes
<1>6. /\ Good(t) /\ t.ok /\ t.ext = State.ext + 1 /\ Held(t) = Held(State)
      /\ \E r \in Entries : t.wal.pending = Append(State.wal.pending, r)
    BY <1>2, <1>3, <1>4, MarkGood
<1>7. NosOf(ToSet(State.wal.pending)) \subseteq NosOf(ToSet(t.wal.pending))
    <2>1. State \in States
        BY <1>3 DEF Good
    <2>2. State.wal.pending \in Seq(Entries)
        BY <2>1, Parts
    <2> QED
        BY <1>6, <2>2, NosAppend
<1> HIDE DEF t
<1>8. Becomes(t) /\ waiting' = waiting \cup {Mark} /\ UNCHANGED <<acked, refused>>
    BY <1>5, <1>6 DEF Waits
<1>9. waiting' \ {Mark} \subseteq Held(t) \cup NosOf(ToSet(t.wal.pending))
    BY <1>3, <1>6, <1>7, <1>8
<1>10. acked' \subseteq Held(t) /\ acked' \subseteq 1..MaxWrites /\ waiting' \subseteq 0..MaxWrites
    BY <1>3, <1>4, <1>6, <1>8
<1> QED
    BY <1>2, <1>3, <1>4, <1>6, <1>8, <1>9, <1>10, StepKeeps

LEMMA SyncKeepsInv ==
    ASSUME Inv, Sync
    PROVE  Inv'
<1> DEFINE t == sync_wal(State)
<1>1. /\ setting \in Settings /\ refused = FALSE /\ waiting \subseteq 0..MaxWrites
      /\ acked \subseteq 1..MaxWrites /\ writes \in 0..MaxWrites /\ crashes \in 0..MaxCrashes
      /\ Good(State) /\ State.ext <= writes + 1 /\ acked \subseteq Held(State)
      /\ waiting \ {Mark} \subseteq Held(State) \cup NosOf(ToSet(State.wal.pending))
    BY StateIs DEF Inv
<1>2. /\ Good(t) /\ t.ok /\ t.ext = State.ext /\ t.wal.pending = <<>>
      /\ (Held(State) \cup NosOf(ToSet(State.wal.pending))) \ {Mark} \subseteq Held(t)
    BY <1>1, SyncWalGood
<1>3. /\ Becomes(t) /\ waiting' = {} /\ acked' = acked \cup (waiting \ {Mark})
      /\ UNCHANGED <<refused, setting, writes, crashes>>
    BY <1>2 DEF Sync, Reported
<1> HIDE DEF t
<1>4. acked' \subseteq Held(t) /\ acked' \subseteq 1..MaxWrites
    BY <1>1, <1>2, <1>3 DEF Mark
<1>5. /\ waiting' \subseteq 0..MaxWrites
      /\ waiting' \ {Mark} \subseteq Held(t) \cup NosOf(ToSet(t.wal.pending))
    BY <1>3
<1> QED
    BY <1>1, <1>2, <1>3, <1>4, <1>5, StepKeeps

LEMMA FlushKeepsInv ==
    ASSUME Inv, Flush
    PROVE  Inv'
<1> DEFINE t == switch_and_flush(State)
<1>1. /\ setting \in Settings /\ refused = FALSE /\ waiting \subseteq 0..MaxWrites
      /\ acked \subseteq 1..MaxWrites /\ writes \in 0..MaxWrites /\ crashes \in 0..MaxCrashes
      /\ Good(State) /\ State.ext <= writes + 1 /\ acked \subseteq Held(State)
      /\ waiting \ {Mark} \subseteq Held(State) \cup NosOf(ToSet(State.wal.pending))
      /\ Ring /\ waiting = {} => State.wal.pending = <<>>
    BY StateIs DEF Inv
<1>2. /\ Good(t) /\ t.ext = State.ext
      /\ Ring => t.wal.pending = State.wal.pending
      /\ Held(State) \ {Mark} \subseteq Held(t)
      /\ NosOf(ToSet(State.wal.pending)) \ {Mark} \subseteq Held(t) \cup NosOf(ToSet(t.wal.pending))
    BY <1>1, FlushGood
<1>3. Becomes(t) /\ UNCHANGED <<setting, waiting, acked, refused, writes, crashes>>
    BY DEF Flush
<1> HIDE DEF t
<1>4. acked' \subseteq Held(t)
    BY <1>1, <1>2, <1>3 DEF Mark
<1>5. waiting' \ {Mark} \subseteq Held(t) \cup NosOf(ToSet(t.wal.pending))
    BY <1>1, <1>2, <1>3
<1> QED
    BY <1>1, <1>2, <1>3, <1>4, <1>5, StepKeeps

(* A restart from a file that has at least what the file had.              *)
LEMMA RestartKeeps ==
    ASSUME Inv, Restarts, NEW d \in Disks, Legible(d, ext),
           NEW segments \in SUBSET (0..MaxWrites), Becomes(Reopened(d, segments)),
           Held(State) \subseteq segments \cup NosOf(Scan(d))
    PROVE  Inv'
<1> DEFINE t == Reopened(d, segments)
<1>1. /\ setting \in Settings /\ refused = FALSE /\ acked \subseteq 1..MaxWrites
      /\ writes \in 0..MaxWrites /\ crashes \in 0..MaxCrashes
      /\ Good(State) /\ ext <= writes + 1 /\ acked \subseteq Held(State)
    BY DEF Inv
<1>2. /\ crashes < MaxCrashes /\ crashes' = crashes + 1 /\ waiting' = {}
      /\ UNCHANGED <<setting, acked, refused, writes>>
    BY DEF Restarts
<1>3. ext \in Nat
    <2>1. State \in States
        BY <1>1 DEF Good
    <2> QED
        BY <2>1, Parts, StateIs
<1>4. /\ Good(t) /\ t.ext <= ext /\ t.wal.pending = <<>>
      /\ Held(t) = segments \cup NosOf(Scan(d))
    BY <1>3, ReopenGood
<1>5. t.ext \in Nat
    <2>1. t \in States
        BY <1>4 DEF Good
    <2> QED
        BY <2>1, Parts
<1>6. Becomes(t)
    OBVIOUS
<1> HIDE DEF t
<1>7. crashes' \in 0..MaxCrashes /\ t.ext <= writes' + 1
    BY <1>1, <1>2, <1>3, <1>4, <1>5, BoundsAssumption
<1>8. acked' \subseteq Held(t)
    BY <1>1, <1>2, <1>4
<1> QED
    BY <1>1, <1>2, <1>4, <1>6, <1>7, <1>8, StepKeeps

LEMMA InvParts ==
    ASSUME Inv
    PROVE  /\ Good(State) /\ State \in States /\ Counted(State)
           /\ disk \in Disks /\ Legible(disk, ext) /\ sst \in SUBSET (0..MaxWrites)
           /\ wal.pending \in Seq(Entries) /\ mem \subseteq Entries /\ ext \in Nat
           /\ Held(State) = sst \cup NosOf(Scan(disk))
<1>1. Good(State)
    BY DEF Inv
<1>2. State \in States /\ Counted(State)
    BY <1>1 DEF Good
<1>3. Legible(disk, ext)
    BY <1>1, GoodIsLegible, StateIs
<1>4. Held(State) = sst \cup NosOf(Scan(disk))
    BY StateIs DEF Held
<1> QED
    BY <1>1, <1>2, <1>3, <1>4, Parts, StateIs

LEMMA CrashKeepsInv ==
    ASSUME Inv, Crash
    PROVE  Inv'
<1>1. Restarts /\ Becomes(Reopened(disk, sst))
    BY DEF Crash
<1> QED
    BY <1>1, InvParts, RestartKeeps

LEMMA CrashInFlushKeepsInv ==
    ASSUME Inv, CrashInFlush
    PROVE  Inv'
<1> DEFINE segments == Segment(State).sst
<1>1. Restarts /\ Becomes(Reopened(disk, segments))
    BY DEF CrashInFlush
<1>2. segments = sst \cup NosOf(mem)
    BY InvParts, SegmentIs, StateIs
<1>3. NosOf(mem) \subseteq 0..MaxWrites
    BY InvParts, EntryParts DEF NosOf
<1>4. segments \in SUBSET (0..MaxWrites) /\ sst \subseteq segments
    BY <1>2, <1>3, InvParts
<1> HIDE DEF segments
<1>5. Held(State) \subseteq segments \cup NosOf(Scan(disk))
    BY <1>4, InvParts
<1> QED
    BY <1>1, <1>4, <1>5, InvParts, RestartKeeps

(* A write of the buffer that ends with the records it has begun.          *)
LEMMA PrefixLegible ==
    ASSUME ~Ring, NEW s, Good(s), NEW n \in DOMAIN s.wal.pending, NEW d,
           d = [s.disk EXCEPT !.log = @ \o SubSeq(s.wal.pending, 1, n)]
    PROVE  d \in Disks /\ Legible(d, s.ext) /\ Scan(s.disk) \subseteq Scan(d)
<1> DEFINE log == s.disk.log
           part == SubSeq(s.wal.pending, 1, n)
<1>1. s \in States /\ LogGood(s) /\ Counted(s)
    BY DEF Good
<1>2. /\ s.wal.pending \in Seq(Entries) /\ log \in Seq(Entries) /\ s.disk \in Disks
      /\ s.disk.next \in Nat /\ s.disk.next <= s.ext /\ s.ext \in Nat
    BY <1>1, Parts DEF Counted
<1>3. /\ Len(s.wal.pending) \in Nat /\ n \in 1..Len(s.wal.pending)
      /\ DOMAIN s.wal.pending = 1..Len(s.wal.pending)
    BY <1>2
<1>4. /\ part \in Seq(Entries) /\ Len(part) = n /\ DOMAIN part = 1..n
      /\ \A i \in 1..n : part[i] = s.wal.pending[i] /\ i \in DOMAIN s.wal.pending
    BY <1>2, <1>3
<1>5. /\ Len(log) \in Nat /\ DOMAIN log = 1..Len(log)
    BY <1>2
<1>6. /\ \A i \in DOMAIN log : log[i].seq \in s.disk.next..s.ext - 1
      /\ \A i \in DOMAIN part : part[i].seq \in s.disk.next..s.ext - 1
      /\ \A i, j \in DOMAIN log : i < j => log[i].seq < log[j].seq
      /\ \A i, j \in DOMAIN part : i < j => part[i].seq < part[j].seq
      /\ \A i \in DOMAIN log, j \in DOMAIN part : log[i].seq < part[j].seq
    BY <1>1, <1>4 DEF LogGood
<1>7. d.log = log \o part /\ d.next = s.disk.next
    BY <1>2 DEF Disks
<1> HIDE DEF part, log
<1>8. /\ log \o part \in Seq(Entries)
      /\ DOMAIN (log \o part) = 1..Len(log) + n
      /\ \A i \in 1..Len(log) : (log \o part)[i] = log[i]
      /\ \A i \in 1..n : (log \o part)[i + Len(log)] = part[i]
      /\ \A i \in 1..Len(log) + n :
            \/ i \in DOMAIN log /\ (log \o part)[i] = log[i]
            \/ i > Len(log) /\ i - Len(log) \in DOMAIN part /\ (log \o part)[i] = part[i - Len(log)]
    BY <1>2, <1>3, <1>4, <1>5
<1>9. d \in Disks
    <2>1. d = [s.disk EXCEPT !.log = log \o part]
        BY DEF log, part
    <2> QED
        BY <1>2, <1>8, <2>1 DEF Disks
<1>10. \A i \in DOMAIN d.log : d.log[i].seq \in d.next..s.ext - 1
    BY <1>6, <1>7, <1>8
<1>11. \A i, j \in DOMAIN d.log : i < j => d.log[i].seq < d.log[j].seq
    <2> SUFFICES ASSUME NEW i \in 1..Len(log) + n, NEW j \in 1..Len(log) + n, i < j
                 PROVE  (log \o part)[i].seq < (log \o part)[j].seq
        BY <1>7, <1>8
    <2>1. CASE j <= Len(log)
        BY <1>5, <1>6, <1>8, <2>1
    <2>2. CASE i <= Len(log) /\ j > Len(log)
        <3>1. j - Len(log) \in DOMAIN part /\ (log \o part)[j] = part[j - Len(log)]
            BY <1>3, <1>4, <1>5, <1>8, <2>2
        <3> QED
            BY <1>5, <1>6, <1>8, <2>2, <3>1
    <2>3. CASE i > Len(log)
        <3>1. /\ i - Len(log) \in DOMAIN part /\ j - Len(log) \in DOMAIN part
              /\ i - Len(log) < j - Len(log)
              /\ (log \o part)[i] = part[i - Len(log)] /\ (log \o part)[j] = part[j - Len(log)]
            BY <1>3, <1>4, <1>5, <1>8, <2>3
        <3> QED
            BY <1>6, <3>1
    <2>4. j <= Len(log) \/ (i <= Len(log) /\ j > Len(log)) \/ i > Len(log)
        <3>1. i \in Nat /\ j \in Nat /\ Len(log) \in Nat
            BY <1>3, <1>5
        <3> QED
            BY <3>1
    <2> QED
        BY <2>1, <2>2, <2>3, <2>4
<1>12. Scan(s.disk) \subseteq Scan(d)
    <2>1. Scan(s.disk) = {log[i] : i \in DOMAIN log}
        BY <1>2, ScansLog DEF log
    <2>2. d.log \in Seq(Entries)
        BY <1>7, <1>8
    <2>3. Scan(d) = {d.log[i] : i \in DOMAIN d.log}
        <3>1. \A e : e.log \in Seq(Entries) => Scan(e) = {e.log[i] : i \in DOMAIN e.log}
            BY ScansLog
        <3> QED
            BY ONLY <2>2, <3>1
    <2>4. \A i \in DOMAIN log : i \in DOMAIN d.log /\ d.log[i] = log[i]
        BY <1>3, <1>5, <1>7, <1>8
    <2> QED
        BY <2>1, <2>3, <2>4
<1> QED
    BY <1>2, <1>7, <1>9, <1>10, <1>11, <1>12 DEF Legible

LEMMA CrashInSyncKeepsInv ==
    ASSUME Careful, Inv, CrashInSync
    PROVE  Inv'
<1>1. Restarts /\ wal.pending # <<>> /\ setting \in Settings
    BY DEF CrashInSync, Inv
<1>2. CASE Ring
    <2> DEFINE d == Stored(State.wal, State.disk)
               t == sync(State)
    <2>1. ~setting.split /\ ~Full(wal)
        BY <1>1, <1>2, SettingIs DEF CrashInSync
    <2>2. Becomes(Reopened([disk EXCEPT !.tail = NewTail(wal),
                                        !.cells = Written(@, wal, DOMAIN wal.pending)], sst))
        BY <1>2, <2>1 DEF CrashInSync
    <2>3. d = [disk EXCEPT !.tail = NewTail(wal), !.cells = Written(@, wal, DOMAIN wal.pending)]
        BY <1>2, StateIs DEF Stored
    <2>4. ~(Ring /\ Full(State.wal)) /\ State.wal.pending # <<>>
        BY <1>1, <2>1, StateIs
    <2>5. /\ Good(t) /\ t.ext = ext /\ t.sst = sst /\ Held(State) \subseteq Held(t)
        BY <2>4, InvParts, SyncGood, StateIs
    <2>6. t = [State EXCEPT !.disk = Stored(State.wal, @), !.wal.pending = <<>>, !.wal.bytes = 0,
                   !.wal.tail = IF Ring THEN NewTail(State.wal) ELSE @,
                   !.wal.written = Max({@} \cup SeqsOf(ToSet(State.wal.pending)))]
        BY <2>4 DEF sync
    <2>7. t.disk = d
        BY <2>6, InvParts DEF States
    <2> HIDE DEF t
    <2>8. d \in Disks /\ Legible(d, ext)
        <3>1. t \in States
            BY <2>5 DEF Good
        <3>2. t.disk \in Disks /\ Legible(t.disk, t.ext)
            BY <2>5, <3>1, Parts, GoodIsLegible
        <3> QED
            BY <2>5, <2>7, <3>2
    <2>9. Held(t) = sst \cup NosOf(Scan(d))
        BY <2>5, <2>7 DEF Held
    <2>10. Becomes(Reopened(d, sst))
        BY <2>2, <2>3
    <2> HIDE DEF d
    <2> QED
        BY <1>1, <2>5, <2>8, <2>9, <2>10, InvParts, RestartKeeps
<1>3. CASE ~Ring
    <2>1. ~setting.torn
        BY <1>1, <1>3, SettingIs
    <2>2. PICK n \in DOMAIN wal.pending :
              Becomes(Reopened([disk EXCEPT !.log = @ \o SubSeq(wal.pending, 1, n - Len(<<>>)) \o <<>>],
                               sst))
        BY <1>3, <2>1 DEF CrashInSync
    <2> DEFINE d == [disk EXCEPT !.log = @ \o SubSeq(wal.pending, 1, n)]
    <2>3. [disk EXCEPT !.log = @ \o SubSeq(wal.pending, 1, n - Len(<<>>)) \o <<>>] = d
        <3>1. disk.log \in Seq(Entries) /\ n \in Nat
            BY InvParts DEF Disks
        <3>2. SubSeq(wal.pending, 1, n) \in Seq(Entries)
            BY InvParts, <3>1
        <3>3. n - Len(<<>>) = n
            BY <3>1
        <3>4. disk.log \o SubSeq(wal.pending, 1, n) \in Seq(Entries)
            BY <3>1, <3>2
        <3>5. (disk.log \o SubSeq(wal.pending, 1, n)) \o <<>> = disk.log \o SubSeq(wal.pending, 1, n)
            BY <3>4
        <3> QED
            BY <3>3, <3>5
    <2>4. Becomes(Reopened(d, sst))
        BY <2>2, <2>3
    <2>5. d \in Disks /\ Legible(d, ext) /\ Scan(disk) \subseteq Scan(d)
        BY <1>3, InvParts, PrefixLegible, StateIs
    <2> HIDE DEF d
    <2>6. Held(State) \subseteq sst \cup NosOf(Scan(d))
        BY <2>5, InvParts DEF NosOf
    <2> QED
        BY <1>1, <2>4, <2>5, <2>6, InvParts, RestartKeeps
<1> QED
    BY <1>2, <1>3

LEMMA InitInv == Init => Inv
<1> SUFFICES ASSUME Init PROVE Inv
    OBVIOUS
<1>1. /\ State.wal = [next |-> 1, pending |-> <<>>, bytes |-> 0, tail |-> 0, flushed |-> 0,
                      written |-> 0]
      /\ State.disk = [log |-> <<>>, next |-> 1, tail |-> 0, cells |-> [o \in Offsets |-> Gap]]
      /\ State.mem = {} /\ State.sst = {} /\ State.ext = 1
    BY StateIs DEF Init
<1>2. State \in States /\ State.ok
    <2>1. State = [wal |-> State.wal, disk |-> State.disk, mem |-> {}, sst |-> {}, ext |-> 1,
                   ok |-> TRUE]
        BY <1>1 DEF State
    <2>2. State.wal \in Wals /\ State.disk \in Disks
        BY <1>1, Bounds DEF Wals, Disks
    <2>3. \A w \in Wals, d \in Disks :
              LET s == [wal |-> w, disk |-> d, mem |-> {}, sst |-> {}, ext |-> 1, ok |-> TRUE]
              IN  s \in States /\ s.ok
        BY DEF States
    <2> QED
        BY ONLY <2>1, <2>2, <2>3
<1>3. Counted(State)
    BY <1>1 DEF Counted
<1>4. \A o : ~Whole(State.disk, o)
    BY <1>1 DEF Whole
<1>5. Starts(State.disk) = {}
    BY <1>4 DEF Starts
<1>6. Chained(State.disk)
    <2>1. {0} \in Followed(State.disk)
        BY <1>4, Bounds DEF Followed
    <2>2. \A o : Follows(State.disk, o) => o = 0
        BY <2>1 DEF Follows
    <2> QED
        BY <1>1, <2>2, BeginsAtZero DEF Chained
<1>7. RingGood(State)
    BY <1>1, <1>5, <1>6 DEF RingGood
<1>8. LogGood(State)
    BY <1>1 DEF LogGood
<1>9. Good(State)
    BY <1>2, <1>3, <1>7, <1>8 DEF Good
<1> QED
    BY <1>1, <1>9, StateIs, BoundsAssumption DEF Init, Inv

LEMMA NextInv == ASSUME Careful, Inv, [Next]_vars PROVE Inv'
<1>1. CASE Next
    <2>1. CASE \E len \in setting.lens : put(len) \/ delete(len) \/ delete_record_wal(len)
        BY <2>1, PutKeepsInv, DeleteKeepsInv, MarkKeepsInv
    <2>2. CASE Sync
        BY <2>2, SyncKeepsInv
    <2>3. CASE Flush
        BY <2>3, FlushKeepsInv
    <2>4. CASE Crash
        BY <2>4, CrashKeepsInv
    <2>5. CASE CrashInFlush
        BY <2>5, CrashInFlushKeepsInv
    <2>6. CASE CrashInSync
        BY <2>6, CrashInSyncKeepsInv
    <2> QED
        BY <1>1, <2>1, <2>2, <2>3, <2>4, <2>5, <2>6 DEF Next
<1>2. CASE UNCHANGED vars
    <2>1. /\ UNCHANGED setting
          /\ UNCHANGED <<wal, disk, mem, sst, ext>>
          /\ UNCHANGED <<waiting, acked, refused, writes, crashes>>
        BY <1>2 DEF vars
    <2>2. State' = State
        BY <2>1 DEF State
    <2>3. Good(State)' <=> Good(State)
        BY <2>1, <2>2 DEF Good, Ring
    <2>4. Held(State)' = Held(State)
        BY <2>1, <2>2 DEF Held, Scan, Found, At, Ring
    <2> QED
        BY <2>1, <2>3, <2>4 DEF Inv, Ring
<1> QED
    BY <1>1, <1>2

THEOREM InvAlways == ASSUME Careful PROVE Spec => []Inv
<1>1. Inv /\ [Next]_vars => Inv'
    BY NextInv
<1> QED
    BY <1>1, InitInv, PTL DEF Spec

-----------------------------------------------------------------------------
(* What it is for                                                          *)

(* The states of the log, of its file and of the callers are typed; no     *)
(* number passes what the writes account for.                              *)
THEOREM TypeCorrect == ASSUME Careful PROVE Spec => []TypeOK
<1>1. ASSUME Inv PROVE TypeOK
    <2>1. /\ State \in States /\ Counted(State) /\ ext <= writes + 1 /\ writes \in 0..MaxWrites
        BY <1>1, InvParts DEF Inv
    <2>2. /\ wal \in Wals /\ disk \in Disks /\ mem \subseteq Entries /\ sst \subseteq 0..MaxWrites
          /\ ext \in Nat \ {0}
        BY <2>1, Parts, StateIs
    <2>3. Entries \subseteq Record
        BY Bounds DEF Entries, Record, Seqs
    <2>4. /\ wal.next <= ext /\ disk.next <= ext /\ wal.flushed < ext /\ wal.written < ext
        BY <2>1, StateIs DEF Counted
    <2>5. ext <= MaxWrites + 1
        BY <2>1, <2>2, Bounds
    <2>6. /\ wal.next \in Nat \ {0} /\ wal.flushed \in Nat /\ wal.written \in Nat
          /\ wal.pending \in Seq(Entries) /\ wal.bytes \in Nat /\ wal.tail \in 0..Size
          /\ disk.next \in Nat \ {0} /\ disk.tail \in 0..Size
          /\ disk.cells \in [Offsets -> Entries \cup {Gap}] /\ disk.log \in Seq(Entries)
        BY <2>2 DEF Wals, Disks
    <2>7. /\ wal.next \in Seqs \ {0} /\ wal.flushed \in Seqs /\ wal.written \in Seqs
          /\ disk.next \in Seqs \ {0} /\ ext \in Seqs \ {0}
        BY <2>2, <2>4, <2>5, <2>6, Bounds DEF Seqs
    <2>8. wal.pending \in Seq(Record)
        BY <2>3, <2>6
    <2>9. ToSet(disk.log) \subseteq Record
        BY <2>3, <2>6 DEF ToSet
    <2>10. disk.cells \in [Offsets -> Record \cup {Gap}]
        BY <2>3, <2>6
    <2>11. /\ setting \in Settings /\ refused \in BOOLEAN
           /\ waiting \subseteq 0..MaxWrites /\ acked \subseteq 1..MaxWrites
           /\ writes \in 0..MaxWrites /\ crashes \in 0..MaxCrashes
        <3>1. refused = FALSE
            BY <1>1 DEF Inv
        <3> QED
            BY <1>1, <3>1 DEF Inv
    <2>12. mem \subseteq Record
        BY <2>2, <2>3
    <2> QED
        BY <2>2, <2>6, <2>7, <2>8, <2>9, <2>10, <2>11, <2>12 DEF TypeOK
<1> QED
    BY <1>1, InvAlways, PTL

(* A write reported done is in a segment, or a restart finds it in the log,*)
(* whatever the ring overwrites and a flush cuts off, and wherever a crash *)
(* falls.                                                                  *)
THEOREM SyncedIsFound == ASSUME Careful PROVE Spec => []SyncedSurvive
<1>1. ASSUME Inv PROVE SyncedSurvive
    BY <1>1, InvParts DEF Inv, SyncedSurvive
<1> QED
    BY <1>1, InvAlways, PTL

(* What a restart would replay ascends: the ring shows no record of an     *)
(* earlier lap, and no number is given twice.                              *)
THEOREM ReplaysInOrder == ASSUME Careful PROVE Spec => []InOrder
<1>1. ASSUME Inv PROVE InOrder
    <2>1. Legible(disk, ext) /\ disk.log \in Seq(Entries)
        BY <1>1, InvParts DEF Disks
    <2>2. CASE Ring
        BY <2>1, <2>2 DEF Legible, InOrder, Found, At
    <2>3. CASE ~Ring
        <3>1. Found(disk) = DOMAIN disk.log
            BY <2>1, <2>3, ScansLog
        <3> QED
            BY <2>1, <2>3, <3>1 DEF Legible, InOrder, At
    <2> QED
        BY <2>2, <2>3
<1> QED
    BY <1>1, InvAlways, PTL

(* No call fails because the log is full: a flush always makes room.       *)
THEOREM LogNeverRefuses == ASSUME Careful PROVE Spec => []NeverRefused
<1>1. ASSUME Inv PROVE NeverRefused
    BY <1>1 DEF Inv, NeverRefused
<1> QED
    BY <1>1, InvAlways, PTL
=============================================================================
