------------------------- MODULE ReplicationProofs -------------------------
(***************************************************************************)
(* Theorems about Replication, for any slaves, documents, bounds and       *)
(* settings: its states are typed, nothing leaves the log before it is     *)
(* applied, and slaves that have caught up hold the last writes.           *)
(***************************************************************************)
EXTENDS Replication, Integers, FiniteSetTheorems, WellFoundedInduction, TLAPS

-----------------------------------------------------------------------------
(* Entries in their order                                                  *)

Top == Tail_seq(log)

(* The numbers of a log have no gaps. *)
Ascends(b) == \A i \in DOMAIN b : b[i].seq = b[1].seq + i - 1

Docs(b) == {b[i].doc : i \in DOMAIN b}

(* The entry at i is the last of its document in b. *)
Final(b, i) == \A j \in DOMAIN b : j > i => b[j].doc # b[i].doc

(* A bounded set of numbers has a greatest element. *)
LEMMA GreatestExists ==
    ASSUME NEW S, S \subseteq Nat, S # {}, NEW n \in Nat, \A y \in S : y <= n
    PROVE  \E x \in S : \A y \in S : x >= y
<1> DEFINE gaps == {k \in Nat : n - k \in S}
<1>1. gaps # {} /\ gaps \subseteq Nat
    <2>1. PICK y \in S : TRUE
        OBVIOUS
    <2>2. n - y \in Nat /\ n - (n - y) = y
        OBVIOUS
    <2> QED
        BY <2>2
<1>2. PICK k \in gaps : \A h \in gaps : ~(<<h, k>> \in OpToRel(<, Nat))
    <2> HIDE DEF gaps
    <2> QED
        BY <1>1, NatLessThanWellFounded, WFMin, Zenon
<1>3. ASSUME NEW y \in S PROVE n - k >= y
    <2>1. n - y \in gaps /\ n - y \in Nat /\ k \in Nat
        OBVIOUS
    <2>2. <<n - y, k>> \notin OpToRel(<, Nat)
        BY <1>2, <2>1
    <2> QED
        BY <2>1, <2>2 DEF OpToRel
<1> QED
    BY <1>2, <1>3

LEMMA MaxIs ==
    ASSUME NEW S, S \subseteq Int, NEW x \in S, \A y \in S : x >= y
    PROVE  Max(S) = x
<1> DEFINE m == CHOOSE y \in S : \A z \in S : y >= z
<1>1. m \in S /\ \A z \in S : m >= z
    OBVIOUS
<1>2. m = x
    <2> HIDE DEF m
    <2> QED
        BY <1>1
<1> QED
    BY <1>2 DEF Max

(* What retain leaves of a log: its end behind the entries up to a number. *)
LEMMA AfterIs ==
    ASSUME log \in Seq(Entry), Ascends(log), NEW to \in Nat
    PROVE  \E m \in 0..Len(log) :
              /\ After(to) = SubSeq(log, m + 1, Len(log))
              /\ \A i \in DOMAIN log : log[i].seq <= to <=> i <= m
<1> DEFINE gone == {i \in DOMAIN log : log[i].seq <= to}
           m == IF log = <<>> \/ to < log[1].seq THEN 0
                ELSE IF to >= log[1].seq + Len(log) - 1 THEN Len(log)
                ELSE to - log[1].seq + 1
<1>1. Len(log) \in Nat /\ DOMAIN log = 1..Len(log)
    OBVIOUS
<1>2. \A i \in DOMAIN log : log[i] \in Entry /\ log[i].seq \in Nat
    <2>1. \A i \in DOMAIN log : log[i] \in Entry
        OBVIOUS
    <2> QED
        BY <2>1 DEF Entry, Write
<1>3. log # <<>> => 1 \in DOMAIN log
    OBVIOUS
<1>4. m \in 0..Len(log) /\ \A i \in DOMAIN log : log[i].seq <= to <=> i <= m
    <2>1. CASE log = <<>>
        BY <2>1
    <2>2. CASE log # <<>>
        BY <1>1, <1>2, <1>3, <2>2 DEF Ascends
    <2> QED
        BY <2>1, <2>2
<1>5. Max({0} \cup gone) = m
    <2>1. m \in {0} \cup gone /\ \A y \in {0} \cup gone : m >= y
        BY <1>1, <1>4
    <2> HIDE DEF m
    <2> QED
        BY <1>1, <2>1, MaxIs
<1> QED
    BY <1>4, <1>5 DEF After

(* What a slave holds after a batch: of each document in it the last write. *)
LEMMA LastOfDoc ==
    ASSUME NEW b \in Seq(Entry), NEW d \in Docs(b)
    PROVE  \E i \in DOMAIN b : b[i].doc = d /\ Final(b, i)
<1> DEFINE of == {i \in DOMAIN b : b[i].doc = d}
<1>1. of \subseteq Nat /\ of # {} /\ \A y \in of : y <= Len(b)
    BY DEF Docs
<1>2. PICK i \in of : \A j \in of : i >= j
    <2>1. Len(b) \in Nat
        OBVIOUS
    <2> HIDE DEF of
    <2> QED
        BY <1>1, <2>1, GreatestExists, Zenon
<1>3. Final(b, i)
    <2> SUFFICES ASSUME NEW j \in DOMAIN b, j > i PROVE b[j].doc # d
        BY DEF Final
    <2> QED
        BY <1>1, <1>2
<1> QED
    BY <1>3

LEMMA AppliedIs ==
    ASSUME NEW b \in Seq(Entry), NEW state \in [Doc -> 0..MaxWrites]
    PROVE  /\ Applied(state, b) \in [Doc -> 0..MaxWrites]
           /\ \A d \in Doc \ Docs(b) : Applied(state, b)[d] = state[d]
           /\ \A i \in DOMAIN b : Final(b, i) => Applied(state, b)[b[i].doc] = b[i].no
<1> DEFINE of(d) == {i \in DOMAIN b : b[i].doc = d}
<1>1. \A d : Applied(state, b) = [d_1 \in Doc |-> IF of(d_1) = {} THEN state[d_1] ELSE b[Max(of(d_1))].no]
    BY DEF Applied
<1>2. ASSUME NEW d \in Doc \ Docs(b) PROVE Applied(state, b)[d] = state[d]
    <2>1. of(d) = {}
        BY DEF Docs
    <2> QED
        BY <1>1, <2>1
<1>3. ASSUME NEW i \in DOMAIN b, Final(b, i) PROVE Applied(state, b)[b[i].doc] = b[i].no
    <2>1. i \in of(b[i].doc) /\ of(b[i].doc) \subseteq Int
        OBVIOUS
    <2>2. \A j \in of(b[i].doc) : i >= j
        BY <1>3 DEF Final
    <2>3. Max(of(b[i].doc)) = i
        <3> HIDE DEF of
        <3> QED
            BY <2>1, <2>2, MaxIs
    <2>4. b[i] \in Entry /\ b[i].doc \in Doc
        <3>1. b[i] \in Entry
            OBVIOUS
        <3> QED
            BY <3>1 DEF Entry
    <2> QED
        BY <1>1, <2>1, <2>3, <2>4
<1>4. ASSUME NEW d \in Doc PROVE Applied(state, b)[d] \in 0..MaxWrites
    <2>1. CASE d \in Docs(b)
        <3>1. PICK i \in DOMAIN b : b[i].doc = d /\ Final(b, i)
            BY <2>1, LastOfDoc
        <3>2. b[i] \in Entry
            BY <3>1
        <3>3. b[i].no \in 0..MaxWrites
            BY <3>2, BoundsAssumption DEF Entry, Write
        <3> QED
            BY <1>3, <3>1, <3>3
    <2> QED
        BY <1>2, <2>1
<1>5. Applied(state, b) \in [Doc -> 0..MaxWrites]
    <2>1. DOMAIN Applied(state, b) = Doc /\ Applied(state, b) = [d \in Doc |-> Applied(state, b)[d]]
        BY DEF Applied
    <2> QED
        BY <1>4, <2>1
<1> QED
    BY <1>2, <1>3, <1>5

LEMMA EntryParts ==
    ASSUME NEW b \in Seq(Entry), NEW i \in DOMAIN b
    PROVE  /\ b[i] \in Entry /\ b[i].seq \in Write /\ b[i].doc \in Doc /\ b[i].no \in Write
           /\ b[i].seq \in Nat /\ b[i].seq > 0 /\ i \in Nat /\ 1 <= i /\ i <= Len(b)
<1>1. b[i] \in Entry
    OBVIOUS
<1> QED
    BY <1>1, BoundsAssumption DEF Entry, Write

LEMMA TailIs ==
    ASSUME NEW b \in Seq(Entry)
    PROVE  /\ Tail_seq(b) \in 0..MaxWrites /\ Tail_seq(b) \in Nat
           /\ b = <<>> => Tail_seq(b) = 0
           /\ b # <<>> => Tail_seq(b) = b[Len(b)].seq /\ Tail_seq(b) \in Write /\ Tail_seq(b) > 0
<1>1. CASE b = <<>>
    BY <1>1, BoundsAssumption DEF Tail_seq
<1>2. CASE b # <<>>
    <2>1. Len(b) \in DOMAIN b
        BY <1>2
    <2>2. Tail_seq(b) = b[Len(b)].seq
        BY <1>2 DEF Tail_seq, Last
    <2> QED
        BY <1>2, <2>1, <2>2, EntryParts, BoundsAssumption DEF Write
<1> QED
    BY <1>1, <1>2

(* A log whose numbers have no gaps ends with the greatest of them. *)
LEMMA AscendsTo ==
    ASSUME NEW b \in Seq(Entry), Ascends(b)
    PROVE  /\ \A i, j \in DOMAIN b : b[i].seq - b[j].seq = i - j
           /\ \A i \in DOMAIN b : b[i].seq <= Tail_seq(b)
<1>1. ASSUME NEW i \in DOMAIN b, NEW j \in DOMAIN b PROVE b[i].seq - b[j].seq = i - j
    <2>1. 1 \in DOMAIN b
        OBVIOUS
    <2>2. b[1].seq \in Nat /\ b[i].seq \in Nat /\ b[j].seq \in Nat
        BY <2>1, EntryParts
    <2> QED
        BY <2>2 DEF Ascends
<1>2. ASSUME NEW i \in DOMAIN b PROVE b[i].seq <= Tail_seq(b)
    <2>1. Len(b) \in DOMAIN b /\ b # <<>>
        OBVIOUS
    <2>2. Tail_seq(b) = b[Len(b)].seq /\ b[Len(b)].seq \in Nat /\ b[i].seq \in Nat
        BY <2>1, TailIs, EntryParts
    <2> QED
        BY <1>1, <2>1, <2>2
<1> QED
    BY <1>1, <1>2

LEMMA Nonempty == ASSUME NEW S, NEW b \in Seq(S), Len(b) > 0 PROVE b # <<>>
    OBVIOUS

LEMMA Counts == ASSUME NEW S, NEW b \in Seq(S), b # <<>> PROVE Len(b) > 1 \/ Len(b) = 1
<1>1. 1 \in DOMAIN b /\ DOMAIN b = 1..Len(b) /\ Len(b) \in Nat
    OBVIOUS
<1> QED
    BY <1>1

(* The end of such a log has no gaps either, and the same last number. *)
LEMMA EndAscends ==
    ASSUME NEW b \in Seq(Entry), Ascends(b), NEW m \in 0..Len(b), NEW c,
           c = SubSeq(b, m + 1, Len(b))
    PROVE  /\ c \in Seq(Entry) /\ Ascends(c) /\ Len(c) = Len(b) - m
           /\ \A i \in DOMAIN c : m + i \in DOMAIN b /\ c[i] = b[m + i]
           /\ Tail_seq(c) = IF m = Len(b) THEN 0 ELSE Tail_seq(b)
<1>1. c \in Seq(Entry) /\ Len(c) = Len(b) - m /\ \A i \in DOMAIN c : m + i \in DOMAIN b /\ c[i] = b[m + i]
    OBVIOUS
<1>2. Ascends(c)
    <2> SUFFICES ASSUME NEW i \in DOMAIN c PROVE c[i].seq = c[1].seq + i - 1
        BY DEF Ascends
    <2>1. 1 \in DOMAIN c /\ i \in Nat
        BY <1>1
    <2>2. c[i] = b[m + i] /\ c[1] = b[m + 1] /\ m + i \in DOMAIN b /\ m + 1 \in DOMAIN b
        BY <1>1, <2>1
    <2>3. b[m + i].seq - b[m + 1].seq = (m + i) - (m + 1)
        BY <2>2, AscendsTo
    <2>4. b[m + i].seq \in Nat /\ b[m + 1].seq \in Nat /\ m \in Nat
        BY <2>2, EntryParts
    <2>5. b[m + i].seq = b[m + 1].seq + i - 1
        BY <2>1, <2>3, <2>4
    <2> QED
        BY <2>2, <2>5
<1>3. CASE m = Len(b)
    <2>1. c = <<>>
        BY <1>1, <1>3
    <2> QED
        BY <1>1, <1>2, <1>3, <2>1, TailIs
<1>4. CASE m # Len(b)
    <2>1. c # <<>> /\ b # <<>> /\ Len(c) \in DOMAIN c /\ m + Len(c) = Len(b)
        <3>1. Len(c) = Len(b) - m /\ Len(b) \in Nat /\ m \in Nat /\ m < Len(b)
            BY <1>1, <1>4
        <3>2. Len(c) \in Nat /\ Len(c) > 0 /\ c \in Seq(Entry) /\ Len(b) > 0
            BY <3>1, <1>1
        <3>3. c # <<>>
            BY <3>2, Nonempty
        <3>4. DOMAIN c = 1..Len(c) /\ Len(c) >= 1
            BY <3>2
        <3>5. Len(c) \in DOMAIN c
            BY <3>2, <3>4
        <3>6. b # <<>>
            BY <3>2
        <3> QED
            BY <3>1, <3>3, <3>5, <3>6
    <2>2. Tail_seq(c) = c[Len(c)].seq /\ Tail_seq(b) = b[Len(b)].seq
        BY <1>1, <2>1, TailIs
    <2> QED
        BY <1>1, <1>2, <1>4, <2>1, <2>2
<1> QED
    BY <1>3, <1>4

-----------------------------------------------------------------------------
(* Types                                                                   *)

(* The numbers of the logs, and how many restarts the master can have had. *)
Numbers ==
    /\ Ascends(log) /\ Ascends(disk)
    /\ Top <= writes /\ Tail_seq(disk) <= writes
    /\ epoch <= faults

(* What a push sends is the log, which stays as it is until the push ends; *)
(* no batch is empty, and the connections of later masters are not made.   *)
Pushes ==
    /\ push.of \in kept \cup {0}
    /\ push.at # "idle" =>
          push.batch = log /\ log # <<>> /\ push.left # <<>> /\ ToSet(push.left) \subseteq Slaves
    /\ \A s \in Slave, e \in Epoch :
          /\ e > epoch => requests[s][e] = <<>>
          /\ \A i \in DOMAIN requests[s][e] : requests[s][e][i] # <<>>

BaseInv == TypeOK /\ Numbers /\ Pushes

LEMMA SettingParts ==
    ASSUME TypeOK
    PROVE  setting.slaves \in Seq(Slave) /\ Slaves \subseteq Slave
<1>1. setting.slaves \in Seq(Slave)
    BY SettingsAssumption DEF TypeOK
<1> QED
    BY <1>1 DEF Slaves, ToSet

LEMMA SlavesFinite == ASSUME TypeOK PROVE IsFiniteSet(Slaves)
<1>1. setting.slaves \in Seq(Slave)
    BY SettingParts
<1>2. Len(setting.slaves) \in Nat /\ DOMAIN setting.slaves = 1..Len(setting.slaves)
    BY <1>1
<1>3. IsFiniteSet(DOMAIN setting.slaves)
    BY <1>2, FS_Interval
<1>4. setting.slaves \in Surjection(DOMAIN setting.slaves, Slaves)
    <2>1. setting.slaves \in [DOMAIN setting.slaves -> Slaves]
        BY <1>1 DEF Slaves, ToSet
    <2>2. \A s \in Slaves : \E i \in DOMAIN setting.slaves : setting.slaves[i] = s
        BY DEF Slaves, ToSet
    <2> QED
        BY <2>1, <2>2 DEF Surjection
<1> QED
    BY <1>3, <1>4, FS_Surjection

LEMMA CalleeIs ==
    ASSUME BaseInv, push.at # "idle"
    PROVE  Callee \in Slaves /\ Callee \in Slave /\ Callee \in ToSet(push.left)
<1>1. push.left \in Seq(Slave) /\ push.left # <<>>
    BY DEF BaseInv, TypeOK, Pushes
<1>2. Callee = push.left[1] /\ 1 \in DOMAIN push.left
    BY <1>1 DEF Callee
<1> QED
    BY <1>2, SettingParts DEF BaseInv, Pushes, ToSet

LEMMA InitBase == Init => BaseInv
<1> SUFFICES ASSUME Init PROVE BaseInv
    OBVIOUS
<1>1. TypeOK
    BY BoundsAssumption DEF Init, TypeOK, Idle, Epoch, Write
<1>2. Tail_seq(<<>>) = 0
    BY DEF Tail_seq
<1> QED
    BY <1>1, <1>2 DEF Init, BaseInv, Numbers, Pushes, Ascends, Idle, Top

(* The next entry: its number is the one after the last. *)
LEMMA Appended ==
    ASSUME NEW b \in Seq(Entry), Ascends(b), NEW e \in Entry, e.seq = Tail_seq(b) + 1
    PROVE  /\ Append(b, e) \in Seq(Entry) /\ Ascends(Append(b, e)) /\ Append(b, e) # <<>>
           /\ Tail_seq(Append(b, e)) = e.seq
<1> DEFINE c == Append(b, e)
<1>1. /\ c \in Seq(Entry) /\ c # <<>> /\ Len(c) = Len(b) + 1 /\ Len(b) \in Nat
      /\ DOMAIN c = 1..Len(b) + 1 /\ DOMAIN b = 1..Len(b)
      /\ c[Len(b) + 1] = e /\ \A i \in DOMAIN b : c[i] = b[i]
    OBVIOUS
<1> HIDE DEF c
<1>2. Tail_seq(c) = e.seq
    BY <1>1, TailIs
<1>3. ASSUME b = <<>> PROVE Ascends(c)
    <2>1. Len(b) = 0
        BY <1>3
    <2>2. DOMAIN c = {1} /\ e.seq \in Nat
        BY <1>1, <2>1 DEF Entry, Write
    <2>3. Ascends(c)
        BY <1>1, <2>1, <2>2 DEF Ascends
    <2> QED
        BY <2>3
<1>4. ASSUME b # <<>> PROVE Ascends(c)
    <2>1. Len(b) \in DOMAIN b /\ 1 \in DOMAIN b
        BY <1>1, <1>4
    <2>2. e.seq = b[Len(b)].seq + 1 /\ b[Len(b)].seq \in Nat /\ b[1].seq \in Nat
        BY <1>4, <2>1, TailIs, EntryParts
    <2>3. b[Len(b)].seq = b[1].seq + Len(b) - 1
        BY <2>1 DEF Ascends
    <2>4. c[1] = b[1] /\ c[Len(b) + 1].seq = b[1].seq + (Len(b) + 1) - 1
        BY <1>1, <2>1, <2>2, <2>3
    <2>5. ASSUME NEW i \in DOMAIN c PROVE c[i].seq = c[1].seq + i - 1
        <3>1. CASE i \in DOMAIN b
            BY <1>1, <2>4, <3>1 DEF Ascends
        <3>2. CASE i = Len(b) + 1
            BY <2>4, <3>2
        <3> QED
            BY <1>1, <3>1, <3>2
    <2> QED
        BY <2>5 DEF Ascends
<1> QED
    BY <1>1, <1>2, <1>3, <1>4 DEF c

LEMMA RecordBase == ASSUME BaseInv, NEW d \in Doc, record(d) PROVE BaseInv'
<1> USE DEF BaseInv
<1> DEFINE entry == [seq |-> Tail_seq(log) + 1, doc |-> d, no |-> writes']
<1>1. /\ push = Idle /\ writes < MaxWrites /\ writes' = writes + 1 /\ log' = Append(log, entry)
      /\ newest' = [newest EXCEPT ![d] = writes']
      /\ UNCHANGED <<setting, pushed, epoch, client, requests, answers, data, applied, promised>>
    BY DEF record, wireVars, slaveVars
<1>2. \/ /\ disk' = log' /\ kept' = kept \cup {writes'} /\ UNCHANGED faults
         /\ push' = IF setting.sync THEN Pushing(log', writes') ELSE Idle
      \/ Happens("file") /\ UNCHANGED <<disk, kept, push>>
    BY DEF record
<1>3. log \in Seq(Entry) /\ disk \in Seq(Entry) /\ writes \in 0..MaxWrites /\ MaxWrites \in Nat /\ faults \in 0..MaxFaults
    BY BoundsAssumption DEF TypeOK
<1>4. Tail_seq(log) \in Nat /\ Tail_seq(log) <= writes /\ Ascends(log) /\ Ascends(disk) /\ Tail_seq(disk) <= writes /\ epoch <= faults
    BY <1>3, TailIs DEF Numbers, Top
<1>5. entry \in Entry /\ entry.seq = Tail_seq(log) + 1 /\ writes' \in Write /\ writes' \in 0..MaxWrites
    BY <1>1, <1>3, <1>4 DEF Entry, Write
<1>6. log' \in Seq(Entry) /\ Ascends(log') /\ log' # <<>> /\ Tail_seq(log') = Tail_seq(log) + 1
    <2>1. log' = Append(log, entry) /\ entry.seq = Tail_seq(log) + 1 /\ entry \in Entry
        BY <1>1, <1>5
    <2> HIDE DEF entry
    <2>2. log \in Seq(Entry) /\ Ascends(log)
        BY <1>3, <1>4
    <2> QED
        BY <2>1, <2>2, Appended
<1>7. faults' \in 0..MaxFaults /\ epoch' <= faults'
    <2>1. epoch \in Nat
        BY BoundsAssumption DEF TypeOK, Epoch
    <2> QED
        BY <1>1, <1>2, <1>3, <1>4, <2>1, BoundsAssumption DEF Happens
<1>8. disk' \in Seq(Entry) /\ Ascends(disk') /\ Tail_seq(disk') <= writes' /\ kept \subseteq kept' /\ kept' \subseteq Write
    <2>1. kept \subseteq Write /\ Tail_seq(disk) \in Nat
        BY <1>3, TailIs DEF TypeOK
    <2>2. CASE disk' = log' /\ kept' = kept \cup {writes'}
        BY <1>1, <1>3, <1>4, <1>5, <1>6, <2>1, <2>2
    <2>3. CASE UNCHANGED <<disk, kept>>
        BY <1>1, <1>3, <1>4, <2>1, <2>3
    <2> QED
        BY <1>2, <2>2, <2>3
<1>9. Numbers'
    <2>1. Tail_seq(log') <= writes'
        BY <1>1, <1>3, <1>4, <1>6
    <2> QED
        BY <1>6, <1>7, <1>8, <2>1 DEF Numbers, Top
<1>10. CASE push' = Idle
    <2>1. Pushes'
        BY <1>1, <1>10 DEF Pushes, Idle
    <2>2. TypeOK'
        BY <1>1, <1>3, <1>5, <1>6, <1>7, <1>8, <1>10, BoundsAssumption DEF TypeOK, Idle
    <2> QED
        BY <1>9, <2>1, <2>2
<1>11. CASE push' = [at |-> "call", left |-> setting.slaves, batch |-> log', acked |-> 0, of |-> writes']
             /\ setting.slaves # <<>> /\ kept' = kept \cup {writes'}
    <2>1. Pushes'
        BY <1>1, <1>6, <1>11 DEF Pushes, Slaves
    <2>2. setting.slaves \in Seq(Slave)
        BY SettingParts
    <2>3. push' \in [at : {"idle", "call", "wait"}, left : Seq(Slave), batch : Seq(Entry),
                 acked : 0..MaxWrites, of : 0..MaxWrites]
        BY <1>3, <1>5, <1>6, <1>11, <2>2
    <2>4. TypeOK'
        BY <1>1, <1>5, <1>6, <1>7, <1>8, <2>3 DEF TypeOK
    <2> QED
        BY <1>9, <2>1, <2>4
<1> QED
    <2>1. push' = Idle \/ (push' = Pushing(log', writes') /\ kept' = kept \cup {writes'})
        BY <1>1, <1>2
    <2> QED
        BY <1>10, <1>11, <2>1 DEF Pushing

LEMMA PushBase == ASSUME BaseInv, push_pending PROVE BaseInv'
<1> USE DEF BaseInv
<1>1. push' = Pushing(log, 0) /\ log # <<>> /\ UNCHANGED <<setting, log, disk, pushed, epoch, faults, client, requests,
          answers, data, applied, newest, kept, promised, writes>>
    BY DEF push_pending, wireVars, slaveVars, histVars
<1>2. Numbers'
    BY <1>1 DEF Numbers, Top
<1>3. push' \in [at : {"idle", "call", "wait"}, left : Seq(Slave), batch : Seq(Entry),
                 acked : 0..MaxWrites, of : 0..MaxWrites]
    BY <1>1, SettingParts, BoundsAssumption DEF Pushing, Idle, TypeOK
<1>4. TypeOK'
    BY <1>1, <1>3 DEF TypeOK
<1>5. Pushes'
    BY <1>1 DEF Pushes, Pushing, Idle, Slaves
<1> QED
    BY <1>2, <1>4, <1>5

LEMMA CallBase == ASSUME BaseInv, call PROVE BaseInv'
<1> USE DEF BaseInv
<1>1. push.at = "call" /\ UNCHANGED <<setting, log, disk, pushed, epoch, answers, data, applied, newest, kept, promised, writes>>
    BY DEF call, slaveVars, histVars
<1>2. Callee \in Slave /\ epoch \in Epoch /\ push.batch \in Seq(Entry) /\ push.batch # <<>>
    BY <1>1, CalleeIs DEF TypeOK, Pushes
<1>3. /\ client' \in [Slave -> {"none", "up", "broken"}]
      /\ requests' \in [Slave -> [Epoch -> Seq(Seq(Entry))]]
    <2>1. CASE client' = [client EXCEPT ![Callee] = "up"] /\ requests' = [requests EXCEPT ![Callee][epoch] = Append(@, push.batch)]
        BY <1>2, <2>1 DEF TypeOK
    <2>2. CASE UNCHANGED <<client, requests>>
        BY <2>2 DEF TypeOK
    <2> QED
        BY <2>1, <2>2 DEF call
<1>4. \A s \in Slave, e \in Epoch :
          /\ e > epoch' => requests'[s][e] = <<>>
          /\ \A i \in DOMAIN requests'[s][e] : requests'[s][e][i] # <<>>
    <2>1. CASE requests' = [requests EXCEPT ![Callee][epoch] = Append(@, push.batch)]
        <3> SUFFICES ASSUME NEW s \in Slave, NEW e \in Epoch
            PROVE  /\ e > epoch' => requests'[s][e] = <<>>
                   /\ \A i \in DOMAIN requests'[s][e] : requests'[s][e][i] # <<>>
            OBVIOUS
        <3>1. CASE s = Callee /\ e = epoch
            <4>1. requests'[s][e] = Append(requests[s][e], push.batch) /\ requests[s][e] \in Seq(Seq(Entry))
                BY <1>2, <2>1, <3>1 DEF TypeOK
            <4>2. epoch \in Nat
                BY BoundsAssumption DEF TypeOK, Epoch
            <4>3. \A i \in DOMAIN requests[s][e] : requests[s][e][i] # <<>>
                BY DEF Pushes
            <4> QED
                BY <1>1, <1>2, <3>1, <4>1, <4>2, <4>3
        <3>2. CASE ~(s = Callee /\ e = epoch)
            <4>1. requests'[s][e] = requests[s][e]
                BY <1>2, <2>1, <3>2 DEF TypeOK
            <4> QED
                BY <1>1, <4>1 DEF Pushes
        <3> QED
            BY <3>1, <3>2
    <2>2. CASE UNCHANGED requests
        BY <1>1, <2>2 DEF Pushes
    <2> QED
        BY <2>1, <2>2 DEF call
<1>5. push' \in {Idle, [push EXCEPT !.at = "wait"]}
    BY DEF call
<1>6. faults' \in 0..MaxFaults /\ epoch' <= faults'
    <2>1. faults \in 0..MaxFaults /\ epoch \in Nat /\ epoch <= faults
        BY BoundsAssumption DEF TypeOK, Epoch, Numbers
    <2>2. faults' = faults \/ Happens("slave")
        BY DEF call
    <2> QED
        BY <1>1, <2>1, <2>2, BoundsAssumption DEF Happens
<1>7. push' \in [at : {"idle", "call", "wait"}, left : Seq(Slave), batch : Seq(Entry),
                 acked : 0..MaxWrites, of : 0..MaxWrites]
    <2>1. CASE push' = Idle
        BY <2>1, BoundsAssumption DEF Idle
    <2>2. CASE push' = [push EXCEPT !.at = "wait"]
        BY <2>2 DEF TypeOK
    <2> QED
        BY <1>5, <2>1, <2>2
<1>8. TypeOK'
    BY <1>1, <1>3, <1>6, <1>7 DEF TypeOK
<1>9. Numbers'
    BY <1>1, <1>6 DEF Numbers, Top
<1>10. push'.of \in kept \cup {0} /\ (push'.at # "idle" => push'.batch = log /\ log # <<>> /\ push'.left # <<>> /\ ToSet(push'.left) \subseteq Slaves)
    BY <1>1, <1>5 DEF Pushes, Idle, TypeOK
<1>11. Pushes'
    BY <1>1, <1>4, <1>10 DEF Pushes, Slaves
<1> QED
    BY <1>8, <1>9, <1>11

LEMMA GivesUpBase == ASSUME BaseInv, GivesUp PROVE BaseInv'
<1> USE DEF BaseInv
<1>1. push' = Idle /\ UNCHANGED <<setting, log, disk, pushed, epoch, client, requests,
          answers, data, applied, newest, kept, promised, writes>>
    BY DEF GivesUp, wireVars, slaveVars, histVars
<1>2. faults' \in 0..MaxFaults /\ epoch' <= faults'
    <2>1. faults \in 0..MaxFaults /\ epoch \in Nat /\ epoch <= faults
        BY BoundsAssumption DEF TypeOK, Epoch, Numbers
    <2> QED
        BY <1>1, <2>1, BoundsAssumption DEF Happens, GivesUp
<1>3. TypeOK'
    BY <1>1, <1>2, BoundsAssumption DEF TypeOK, Idle
<1> QED
    BY <1>1, <1>2, <1>3 DEF Numbers, Top, Pushes, Idle

LEMMA MasterBase == ASSUME BaseInv, MasterRestarts PROVE BaseInv'
<1> USE DEF BaseInv
<1>1. /\ log' = disk /\ pushed' = Tail_seq(disk) /\ push' = Idle /\ epoch' = epoch + 1
      /\ client' = [s \in Slave |-> "none"] /\ answers' = [s \in Slave |-> <<>>]
      /\ faults < MaxFaults /\ faults' = faults + 1
      /\ UNCHANGED <<setting, disk, requests, data, applied, newest, kept, promised, writes>>
    BY DEF MasterRestarts, slaveVars, histVars, Happens
<1>2. faults \in 0..MaxFaults /\ epoch \in Nat /\ epoch <= faults /\ MaxFaults \in Nat
    BY BoundsAssumption DEF TypeOK, Epoch, Numbers
<1>3. pushed' \in 0..MaxWrites
    BY <1>1, TailIs DEF TypeOK
<1>4. epoch' \in Epoch /\ faults' \in 0..MaxFaults /\ epoch' <= faults'
    BY <1>1, <1>2 DEF Epoch
<1>5. TypeOK'
    BY <1>1, <1>3, <1>4, BoundsAssumption DEF TypeOK, Idle
<1>6. Numbers'
    BY <1>1, <1>4 DEF Numbers, Top
<1>7. \A e \in Epoch : e > epoch' => e > epoch
    BY <1>1, <1>2 DEF Epoch
<1>8. Pushes'
    BY <1>1, <1>7 DEF Pushes, Idle
<1> QED
    BY <1>5, <1>6, <1>8

(* What a slave does with the beginning of a batch. *)
LEMMA DoesBase ==
    ASSUME TypeOK, NEW s \in Slave, NEW b \in Seq(Entry), Does(s, b)
    PROVE  /\ data' \in [Slave -> [Doc -> 0..MaxWrites]]
           /\ applied' \in [Slave -> SUBSET Write]
           /\ data'[s] = Applied(data[s], b) /\ applied'[s] = applied[s] \cup Nos(b)
           /\ \A t \in Slave \ {s} : data'[t] = data[t] /\ applied'[t] = applied[t]
<1>1. data \in [Slave -> [Doc -> 0..MaxWrites]] /\ applied \in [Slave -> SUBSET Write]
    BY DEF TypeOK
<1>2. data' = [data EXCEPT ![s] = Applied(data[s], b)] /\ applied' = [applied EXCEPT ![s] = applied[s] \cup Nos(b)]
    BY DEF Does
<1>3. Applied(data[s], b) \in [Doc -> 0..MaxWrites]
    BY <1>1, AppliedIs
<1>4. Nos(b) \subseteq Write
    <2> SUFFICES ASSUME NEW i \in DOMAIN b PROVE b[i].no \in Write
        BY DEF Nos, ToSet
    <2> QED
        BY EntryParts
<1> QED
    BY <1>1, <1>2, <1>3, <1>4

(* The beginning of a batch. *)
LEMMA PrefixIs ==
    ASSUME NEW b \in Seq(Entry), NEW n \in 0..Len(b)
    PROVE  SubSeq(b, 1, n) \in Seq(Entry)
OBVIOUS

(* One request less. *)
LEMMA TailOf ==
    ASSUME NEW S, NEW q \in Seq(S), q # <<>>
    PROVE  /\ Head(q) \in S /\ Head(q) = q[1] /\ 1 \in DOMAIN q /\ Tail(q) \in Seq(S)
           /\ \A i \in DOMAIN Tail(q) : i + 1 \in DOMAIN q /\ Tail(q)[i] = q[i + 1]
OBVIOUS

LEMMA ApplyParts ==
    ASSUME BaseInv, NEW s \in Slave, NEW e \in Epoch, apply(s, e)
    PROVE  LET b == Head(requests[s][e])
           IN  /\ b \in Seq(Entry) /\ b # <<>> /\ b = requests[s][e][1] /\ 1 \in DOMAIN requests[s][e]
               /\ \/ Does(s, b) /\ Answer(s, e, Tail_seq(b)) /\ faults' = faults
                  \/ \E n \in 0..Len(b) - 1 :
                       /\ SubSeq(b, 1, n) \in Seq(Entry)
                       /\ Does(s, SubSeq(b, 1, n)) /\ Answer(s, e, Failed) /\ Happens("apply")
<1> DEFINE b == Head(requests[s][e])
<1>1. requests[s][e] \in Seq(Seq(Entry)) /\ requests[s][e] # <<>>
    BY DEF BaseInv, TypeOK, apply
<1>2. b \in Seq(Entry) /\ b = requests[s][e][1] /\ 1 \in DOMAIN requests[s][e]
    BY <1>1, TailOf
<1>3. b # <<>>
    BY <1>2 DEF BaseInv, Pushes
<1>4. \A n \in 0..Len(b) - 1 : SubSeq(b, 1, n) \in Seq(Entry)
    <2> HIDE DEF b
    <2> TAKE n \in 0..Len(b) - 1
    <2>1. n \in 0..Len(b)
        BY <1>2
    <2> QED
        BY <1>2, <2>1, PrefixIs
<1> QED
    BY <1>2, <1>3, <1>4 DEF apply

(* What a slave does leaves everything of the master but its answers. *)
LEMMA ApplyBase == ASSUME BaseInv, NEW s \in Slave, NEW e \in Epoch, apply(s, e) PROVE BaseInv'
<1> USE DEF BaseInv
<1>1. requests' = [requests EXCEPT ![s][e] = Tail(@)] /\ requests[s][e] # <<>>
      /\ UNCHANGED <<setting, log, disk, pushed, push, epoch, client, newest, kept, promised, writes>>
    BY DEF apply, masterVars, histVars
<1>2. PICK b \in Seq(Entry), a \in Write \cup {Failed} :
          Does(s, b) /\ Answer(s, e, a) /\ (faults' = faults \/ Happens("apply"))
    BY ApplyParts, TailIs DEF Failed
<1>3. data' \in [Slave -> [Doc -> 0..MaxWrites]] /\ applied' \in [Slave -> SUBSET Write]
    BY <1>2, DoesBase
<1>4. answers' \in [Slave -> Seq(Write \cup {Failed})]
    BY <1>2 DEF Answer, TypeOK
<1>5. faults' \in 0..MaxFaults /\ epoch' <= faults'
    <2>1. faults \in 0..MaxFaults /\ epoch \in Nat /\ epoch <= faults
        BY BoundsAssumption DEF TypeOK, Epoch, Numbers
    <2> QED
        BY <1>1, <1>2, <2>1, BoundsAssumption DEF Happens
<1>6. requests' \in [Slave -> [Epoch -> Seq(Seq(Entry))]]
    BY <1>1 DEF TypeOK
<1>7. TypeOK'
    BY <1>1, <1>3, <1>4, <1>5, <1>6 DEF TypeOK
<1>8. ASSUME NEW t \in Slave, NEW f \in Epoch
      PROVE  /\ f > epoch' => requests'[t][f] = <<>>
             /\ \A i \in DOMAIN requests'[t][f] : requests'[t][f][i] # <<>>
    <2>1. CASE t = s /\ f = e
        <3>1. requests'[t][f] = Tail(requests[s][e]) /\ requests[s][e] \in Seq(Seq(Entry))
            BY <1>1, <2>1 DEF TypeOK
        <3>2. ~(e > epoch)
            BY <1>1 DEF Pushes
        <3>3. \A i \in DOMAIN Tail(requests[s][e]) : i + 1 \in DOMAIN requests[s][e] /\ Tail(requests[s][e])[i] = requests[s][e][i + 1]
            BY <1>1, <3>1, TailOf
        <3> QED
            BY <1>1, <2>1, <3>1, <3>2, <3>3 DEF Pushes
    <2>2. CASE ~(t = s /\ f = e)
        <3>1. requests'[t][f] = requests[t][f] /\ epoch' = epoch
            BY <1>1, <2>2 DEF TypeOK
        <3>2. /\ f > epoch => requests[t][f] = <<>>
              /\ \A i \in DOMAIN requests[t][f] : requests[t][f][i] # <<>>
            BY DEF Pushes
        <3> QED
            BY ONLY <3>1, <3>2
    <2> QED
        BY <2>1, <2>2
<1>9. Pushes'
    BY <1>1, <1>8 DEF Pushes, Slaves
<1>10. Numbers'
    BY <1>1, <1>5 DEF Numbers, Top
<1> QED
    BY <1>7, <1>9, <1>10

LEMMA SlaveParts ==
    ASSUME BaseInv, NEW s \in Slave, SlaveRestarts(s)
    PROVE  /\ Happens("slave")
           /\ UNCHANGED <<setting, log, disk, pushed, push, epoch, answers, newest, kept, promised, writes>>
           /\ client' \in [Slave -> {"none", "up", "broken"}]
           /\ client'[s] = (IF client[s] = "up" THEN "broken" ELSE client[s])
           /\ \A t \in Slave \ {s} : client'[t] = client[t] /\ requests'[t] = requests[t]
           /\ requests' \in [Slave -> [Epoch -> Seq(Seq(Entry))]]
           /\ \A e \in Epoch : requests'[s][e] = <<>>
           /\ \/ UNCHANGED <<data, applied>>
              \/ \E e \in Epoch : \E n \in DOMAIN Head(requests[s][e]) :
                    /\ requests[s][e] # <<>> /\ Head(requests[s][e]) \in Seq(Entry)
                    /\ SubSeq(Head(requests[s][e]), 1, n) \in Seq(Entry)
                    /\ Does(s, SubSeq(Head(requests[s][e]), 1, n))
<1>1. /\ Happens("slave")
      /\ UNCHANGED <<setting, log, disk, pushed, push, epoch, answers, newest, kept, promised, writes>>
      /\ requests' = [requests EXCEPT ![s] = [e \in Epoch |-> <<>>]]
      /\ client' = [client EXCEPT ![s] = IF @ = "up" THEN "broken" ELSE @]
    BY DEF SlaveRestarts, masterVars, histVars
<1>2. requests \in [Slave -> [Epoch -> Seq(Seq(Entry))]] /\ client \in [Slave -> {"none", "up", "broken"}]
    BY DEF BaseInv, TypeOK
<1>3. \A e \in Epoch : requests[s][e] # <<>> => Head(requests[s][e]) \in Seq(Entry)
    BY <1>2, TailOf
<1>4. \A e \in Epoch : requests[s][e] # <<>> => \A n \in DOMAIN Head(requests[s][e]) : SubSeq(Head(requests[s][e]), 1, n) \in Seq(Entry)
    <2> SUFFICES ASSUME NEW b \in Seq(Entry), NEW n \in DOMAIN b PROVE SubSeq(b, 1, n) \in Seq(Entry)
        BY <1>3, Zenon
    <2>1. n \in 0..Len(b)
        OBVIOUS
    <2> QED
        BY <2>1, PrefixIs
<1>5. \/ UNCHANGED <<data, applied>>
      \/ \E e \in Epoch : \E n \in DOMAIN Head(requests[s][e]) :
            /\ requests[s][e] # <<>> /\ Head(requests[s][e]) \in Seq(Entry)
            /\ SubSeq(Head(requests[s][e]), 1, n) \in Seq(Entry)
            /\ Does(s, SubSeq(Head(requests[s][e]), 1, n))
    BY <1>3, <1>4, Zenon DEF SlaveRestarts, slaveVars
<1>6. requests' \in [Slave -> [Epoch -> Seq(Seq(Entry))]] /\ client' \in [Slave -> {"none", "up", "broken"}]
    BY <1>1, <1>2
<1>7. \A e \in Epoch : requests'[s][e] = <<>>
    BY <1>1, <1>2
<1>8. client'[s] = (IF client[s] = "up" THEN "broken" ELSE client[s])
      /\ \A t \in Slave \ {s} : client'[t] = client[t] /\ requests'[t] = requests[t]
    BY <1>1, <1>2
<1> QED
    BY <1>1, <1>5, <1>6, <1>7, <1>8

LEMMA SlaveBase == ASSUME BaseInv, NEW s \in Slave, SlaveRestarts(s) PROVE BaseInv'
<1> USE DEF BaseInv
<1>1. /\ Happens("slave")
      /\ UNCHANGED <<setting, log, disk, pushed, push, epoch, answers, newest, kept, promised, writes>>
      /\ client' \in [Slave -> {"none", "up", "broken"}]
      /\ \A t \in Slave \ {s} : requests'[t] = requests[t]
      /\ requests' \in [Slave -> [Epoch -> Seq(Seq(Entry))]]
      /\ \A e \in Epoch : requests'[s][e] = <<>>
    BY SlaveParts
<1>2. data' \in [Slave -> [Doc -> 0..MaxWrites]] /\ applied' \in [Slave -> SUBSET Write]
    <2>1. CASE UNCHANGED <<data, applied>>
        BY <2>1 DEF TypeOK
    <2>2. CASE ~UNCHANGED <<data, applied>>
        <3>1. PICK b \in Seq(Entry) : Does(s, b)
            BY <2>2, SlaveParts
        <3> QED
            BY <3>1, DoesBase
    <2> QED
        BY <2>1, <2>2
<1>3. faults' \in 0..MaxFaults /\ epoch' <= faults'
    <2>1. faults \in 0..MaxFaults /\ epoch \in Nat /\ epoch <= faults
        BY BoundsAssumption DEF TypeOK, Epoch, Numbers
    <2> QED
        BY <1>1, <2>1, BoundsAssumption DEF Happens
<1>4. TypeOK'
    BY <1>1, <1>2, <1>3 DEF TypeOK
<1>5. Numbers'
    BY <1>1, <1>3 DEF Numbers, Top
<1>6. ASSUME NEW t \in Slave, NEW f \in Epoch
      PROVE  /\ f > epoch' => requests'[t][f] = <<>>
             /\ \A i \in DOMAIN requests'[t][f] : requests'[t][f][i] # <<>>
    <2>1. CASE t = s
        BY <1>1, <2>1
    <2>2. CASE t # s
        <3>1. requests'[t][f] = requests[t][f] /\ epoch' = epoch
            BY <1>1, <2>2
        <3>2. /\ f > epoch => requests[t][f] = <<>>
              /\ \A i \in DOMAIN requests[t][f] : requests[t][f][i] # <<>>
            BY DEF Pushes
        <3> QED
            BY ONLY <3>1, <3>2
    <2> QED
        BY <2>1, <2>2
<1>7. Pushes'
    BY <1>1, <1>6 DEF Pushes, Slaves
<1> QED
    BY <1>4, <1>5, <1>7

LEMMA ReadParts ==
    ASSUME BaseInv, Read
    PROVE  /\ push.at = "wait" /\ Callee \in Slaves /\ Callee \in Slave /\ Callee \in ToSet(push.left)
           /\ answers[Callee] \in Seq(Write \cup {Failed}) /\ answers[Callee] # <<>>
           /\ Head(answers[Callee]) \in 0..MaxWrites /\ Head(answers[Callee]) = answers[Callee][1]
           /\ 1 \in DOMAIN answers[Callee]
           /\ answers' \in [Slave -> Seq(Write \cup {Failed})]
           /\ answers'[Callee] = Tail(answers[Callee])
           /\ \A s \in Slave \ {Callee} : answers'[s] = answers[s]
           /\ \A i \in DOMAIN answers'[Callee] :
                 i + 1 \in DOMAIN answers[Callee] /\ answers'[Callee][i] = answers[Callee][i + 1]
           /\ UNCHANGED <<setting, epoch, client, requests, data, applied, newest, kept, writes>>
<1>1. push.at = "wait" /\ answers[Callee] # <<>> /\ answers' = [answers EXCEPT ![Callee] = Tail(@)]
      /\ UNCHANGED <<setting, epoch, client, requests, data, applied, newest, kept, writes>>
    BY DEF Read, slaveVars
<1>2. Callee \in Slaves /\ Callee \in Slave /\ Callee \in ToSet(push.left)
    BY <1>1, CalleeIs
<1>3. answers \in [Slave -> Seq(Write \cup {Failed})] /\ answers[Callee] \in Seq(Write \cup {Failed})
    BY <1>2 DEF BaseInv, TypeOK
<1>4. Head(answers[Callee]) \in Write \cup {Failed} /\ Head(answers[Callee]) = answers[Callee][1]
      /\ 1 \in DOMAIN answers[Callee] /\ Tail(answers[Callee]) \in Seq(Write \cup {Failed})
      /\ \A i \in DOMAIN Tail(answers[Callee]) :
            i + 1 \in DOMAIN answers[Callee] /\ Tail(answers[Callee])[i] = answers[Callee][i + 1]
    BY <1>1, <1>3, TailOf
<1>5. answers' \in [Slave -> Seq(Write \cup {Failed})]
      /\ answers'[Callee] = Tail(answers[Callee])
      /\ \A s \in Slave \ {Callee} : answers'[s] = answers[s]
    BY <1>1, <1>2, <1>3, <1>4
<1>6. Head(answers[Callee]) \in 0..MaxWrites
    BY <1>4, BoundsAssumption DEF Write, Failed
<1> QED
    BY <1>1, <1>2, <1>3, <1>4, <1>5, <1>6

LEMMA MostIs ==
    ASSUME NEW n \in Nat, NEW x \in 0..n, NEW y \in 0..n
    PROVE  /\ Max({x, y}) \in 0..n /\ Max({x, y}) \in {x, y}
           /\ Max({x, y}) >= x /\ Max({x, y}) >= y
<1>1. CASE x >= y
    <2>1. Max({x, y}) = x
        BY <1>1, MaxIs
    <2> QED
        BY <1>1, <2>1
<1>2. CASE y >= x
    <2>1. Max({x, y}) = y
        BY <1>2, MaxIs
    <2> QED
        BY <1>2, <2>1
<1> QED
    BY <1>1, <1>2

(* What the last answer of a push does to the log. *)
LEMMA AdvanceParts ==
    ASSUME BaseInv, NEW to \in 0..MaxWrites, advance(to)
    PROVE  /\ log' \in Seq(Entry) /\ Ascends(log') /\ Tail_seq(log') <= Tail_seq(log)
           /\ disk' \in {disk, log'} /\ pushed' \in 0..MaxWrites
           /\ faults' = faults \/ Happens("file")
           /\ to <= pushed => UNCHANGED <<log, disk, pushed, faults>>
           /\ to > pushed => pushed' = to /\ \E m \in 0..Len(log) :
                 /\ log' = SubSeq(log, m + 1, Len(log)) /\ log' = After(to)
                 /\ \A i \in DOMAIN log : log[i].seq <= to <=> i <= m
<1>1. log \in Seq(Entry) /\ Ascends(log) /\ to \in Nat /\ pushed \in 0..MaxWrites /\ pushed \in Nat /\ Len(log) \in Nat
    BY BoundsAssumption DEF BaseInv, TypeOK, Numbers
<1>2. CASE to <= pushed
    <2>1. UNCHANGED <<log, disk, pushed, faults>>
        BY <1>2 DEF advance
    <2>2. Tail_seq(log) \in Nat
        BY <1>1, TailIs
    <2>3. ~(to > pushed)
        BY <1>1, <1>2
    <2> QED
        BY <1>1, <2>1, <2>2, <2>3
<1>3. CASE to > pushed
    <2>1. ~(to <= pushed)
        BY <1>1, <1>3
    <2>2. pushed' = to /\ log' = After(to) /\ disk' \in {disk, log'} /\ (faults' = faults \/ Happens("file"))
        BY <2>1 DEF advance
    <2>3. PICK m \in 0..Len(log) : After(to) = SubSeq(log, m + 1, Len(log))
                                 /\ \A i \in DOMAIN log : log[i].seq <= to <=> i <= m
        BY <1>1, AfterIs
    <2>4. log' \in Seq(Entry) /\ Ascends(log') /\ Tail_seq(log') = (IF m = Len(log) THEN 0 ELSE Tail_seq(log))
        BY <1>1, <2>2, <2>3, EndAscends
    <2>5. Tail_seq(log) \in Nat
        BY <1>1, TailIs
    <2>6. Tail_seq(log') <= Tail_seq(log)
        BY <2>4, <2>5
    <2>7. \E n \in 0..Len(log) : /\ log' = SubSeq(log, n + 1, Len(log)) /\ log' = After(to)
                 /\ \A i \in DOMAIN log : log[i].seq <= to <=> i <= n
        BY <2>2, <2>3
    <2> QED
        BY <1>1, <2>1, <2>2, <2>4, <2>6, <2>7
<1> QED
    BY <1>1, <1>2, <1>3

(* An answer ends the push, goes on with the next slave, or cuts the log. *)
LEMMA ReadCases ==
    ASSUME BaseInv, Read
    PROVE  LET answer == Head(answers[Callee])
               most == Max({push.acked, answer})
           IN  \/ /\ answer = Failed /\ push' = Idle
                  /\ UNCHANGED <<log, disk, pushed, promised, faults>>
               \/ /\ answer # Failed /\ most \in 0..MaxWrites
                  /\ most \in {push.acked, answer} /\ most >= push.acked /\ most >= answer
                  /\ \/ /\ Len(push.left) > 1
                        /\ push' = [push EXCEPT !.at = "call", !.left = Tail(@), !.acked = most]
                        /\ UNCHANGED <<log, disk, pushed, promised, faults>>
                     \/ /\ Len(push.left) = 1
                        /\ advance(most) /\ push' = Idle /\ promised' = promised \cup ({push.of} \cap Write)
<1> DEFINE answer == Head(answers[Callee])
           most == Max({push.acked, answer})
<1>1. answer \in 0..MaxWrites /\ push.acked \in 0..MaxWrites /\ MaxWrites \in Nat
    BY ReadParts, BoundsAssumption DEF BaseInv, TypeOK
<1>2. most \in 0..MaxWrites /\ most \in {push.acked, answer} /\ most >= push.acked /\ most >= answer
    <2> HIDE DEF answer
    <2> QED
        BY <1>1, MostIs
<1>3. push.left \in Seq(Slave) /\ push.left # <<>>
    BY ReadParts DEF BaseInv, TypeOK, Pushes
<1>4. Len(push.left) > 1 \/ Len(push.left) = 1
    BY <1>3, Counts
<1>5. \/ /\ answer = Failed /\ push' = Idle
         /\ UNCHANGED <<log, disk, pushed, promised, faults>>
      \/ /\ answer # Failed
         /\ \/ /\ Len(push.left) > 1
               /\ push' = [push EXCEPT !.at = "call", !.left = Tail(@), !.acked = most]
               /\ UNCHANGED <<log, disk, pushed, promised, faults>>
            \/ /\ Len(push.left) = 1
               /\ advance(most) /\ push' = Idle /\ promised' = promised \cup ({push.of} \cap Write)
    <2> HIDE DEF answer, most
    <2>1. IF answer = Failed
           THEN push' = Idle /\ UNCHANGED <<log, disk, pushed, promised, faults>>
           ELSE IF Len(push.left) > 1
                    THEN /\ push' = [push EXCEPT !.at = "call", !.left = Tail(@), !.acked = most]
                         /\ UNCHANGED <<log, disk, pushed, promised, faults>>
                    ELSE /\ advance(most)
                         /\ push' = Idle
                         /\ promised' = promised \cup ({push.of} \cap Write)
        BY DEF Read, answer, most
    <2> QED
        BY <2>1, <1>4, Zenon
<1> HIDE DEF answer, most
<1>6. \/ /\ answer = Failed /\ push' = Idle
         /\ UNCHANGED <<log, disk, pushed, promised, faults>>
      \/ /\ answer # Failed /\ most \in 0..MaxWrites
         /\ most \in {push.acked, answer} /\ most >= push.acked /\ most >= answer
         /\ \/ /\ Len(push.left) > 1
               /\ push' = [push EXCEPT !.at = "call", !.left = Tail(@), !.acked = most]
               /\ UNCHANGED <<log, disk, pushed, promised, faults>>
            \/ /\ Len(push.left) = 1
               /\ advance(most) /\ push' = Idle /\ promised' = promised \cup ({push.of} \cap Write)
    BY <1>2, <1>5, Zenon
<1> QED
    BY <1>6 DEF answer, most

LEMMA LeftIs ==
    ASSUME NEW S, NEW q \in Seq(S), Len(q) > 1
    PROVE  Tail(q) \in Seq(S) /\ Tail(q) # <<>> /\ ToSet(Tail(q)) \subseteq ToSet(q)
<1>1. Tail(q) \in Seq(S) /\ Len(Tail(q)) = Len(q) - 1 /\ DOMAIN Tail(q) = 1..Len(q) - 1
      /\ \A i \in DOMAIN Tail(q) : i + 1 \in DOMAIN q /\ Tail(q)[i] = q[i + 1]
    OBVIOUS
<1>2. Len(q) - 1 > 0
    OBVIOUS
<1>3. Tail(q) # <<>>
    BY <1>1, <1>2, Nonempty
<1>4. ASSUME NEW i \in DOMAIN Tail(q) PROVE Tail(q)[i] \in ToSet(q)
    <2>1. i + 1 \in DOMAIN q /\ Tail(q)[i] = q[i + 1]
        BY <1>1
    <2> QED
        BY <2>1 DEF ToSet
<1>5. ToSet(Tail(q)) \subseteq ToSet(q)
    BY <1>4, Zenon DEF ToSet
<1> QED
    BY <1>1, <1>3, <1>5

LEMMA OneLeft ==
    ASSUME NEW S, NEW q \in Seq(S), Len(q) = 1
    PROVE  ToSet(q) = {Head(q)}
<1>1. DOMAIN q = {1} /\ Head(q) = q[1]
    OBVIOUS
<1> QED
    BY <1>1 DEF ToSet

LEMMA LeftLoses ==
    ASSUME NEW S, NEW q \in Seq(S), q # <<>>, NEW x, x \notin ToSet(Tail(q))
    PROVE  x \notin ToSet(q) \/ x = Head(q)
<1> SUFFICES ASSUME NEW i \in DOMAIN q, q[i] = x, x # Head(q) PROVE FALSE
    BY DEF ToSet
<1>1. DOMAIN q = 1..Len(q) /\ Len(q) \in Nat /\ Head(q) = q[1] /\ Tail(q) \in Seq(S)
    OBVIOUS
<1>2. i - 1 \in DOMAIN Tail(q) /\ Tail(q)[i - 1] = q[i]
    <2>1. i # 1
        BY <1>1
    <2>2. Len(Tail(q)) = Len(q) - 1 /\ DOMAIN Tail(q) = 1..Len(q) - 1
        OBVIOUS
    <2>3. i - 1 \in 1..Len(q) - 1
        BY <1>1, <2>1
    <2> QED
        BY <1>1, <2>2, <2>3
<1> QED
    BY <1>2 DEF ToSet

LEMMA ReadBase == ASSUME BaseInv, Read PROVE BaseInv'
<1> USE DEF BaseInv
<1> DEFINE answer == Head(answers[Callee])
           most == Max({push.acked, answer})
<1>1. /\ answers' \in [Slave -> Seq(Write \cup {Failed})] /\ push.at # "idle"
      /\ UNCHANGED <<setting, epoch, client, requests, data, applied, newest, kept, writes>>
    BY ReadParts
<1>2. \A s \in Slave, e \in Epoch :
          /\ e > epoch' => requests'[s][e] = <<>>
          /\ \A i \in DOMAIN requests'[s][e] : requests'[s][e][i] # <<>>
    BY <1>1 DEF Pushes
<1>3. faults \in 0..MaxFaults /\ epoch \in Nat /\ epoch <= faults
    BY BoundsAssumption DEF TypeOK, Epoch, Numbers
<1>4. Tail_seq(log) \in Nat /\ Tail_seq(disk) \in Nat /\ Tail_seq(log) <= writes /\ Tail_seq(disk) <= writes /\ writes \in Nat
    BY TailIs, BoundsAssumption DEF TypeOK, Numbers, Top
<1>5. CASE push' = Idle /\ UNCHANGED <<log, disk, pushed, promised, faults>>
    <2>1. TypeOK'
        BY <1>1, <1>5, BoundsAssumption DEF TypeOK, Idle
    <2>2. Numbers'
        BY <1>1, <1>5 DEF Numbers, Top
    <2>3. Pushes'
        BY <1>1, <1>2, <1>5 DEF Pushes, Idle
    <2> QED
        BY <2>1, <2>2, <2>3
<1>6. CASE /\ most \in 0..MaxWrites /\ Len(push.left) > 1
           /\ push' = [push EXCEPT !.at = "call", !.left = Tail(@), !.acked = most]
           /\ UNCHANGED <<log, disk, pushed, promised, faults>>
    <2> HIDE DEF most
    <2>1. Tail(push.left) \in Seq(Slave) /\ Tail(push.left) # <<>> /\ ToSet(Tail(push.left)) \subseteq ToSet(push.left)
        BY <1>6, LeftIs DEF TypeOK
    <2>2. push' \in [at : {"idle", "call", "wait"}, left : Seq(Slave), batch : Seq(Entry),
                 acked : 0..MaxWrites, of : 0..MaxWrites]
        BY <1>6, <2>1 DEF TypeOK
    <2>3. push'.left = Tail(push.left) /\ push'.batch = push.batch /\ push'.of = push.of
        BY <1>6 DEF TypeOK
    <2>4. TypeOK'
        BY <1>1, <1>6, <2>2 DEF TypeOK
    <2>5. Numbers'
        BY <1>1, <1>6 DEF Numbers, Top
    <2>6. push'.of \in kept \cup {0} /\ push'.batch = log /\ log # <<>> /\ push'.left # <<>> /\ ToSet(push'.left) \subseteq Slaves
        BY <1>1, <2>1, <2>3 DEF Pushes
    <2>7. Pushes'
        BY <1>1, <1>2, <1>6, <2>6 DEF Pushes, Slaves
    <2> QED
        BY <2>4, <2>5, <2>7
<1>7. CASE /\ most \in 0..MaxWrites
           /\ advance(most) /\ push' = Idle /\ promised' = promised \cup ({push.of} \cap Write)
    <2> HIDE DEF most
    <2>1. /\ log' \in Seq(Entry) /\ Ascends(log') /\ Tail_seq(log') <= Tail_seq(log)
          /\ disk' \in {disk, log'} /\ pushed' \in 0..MaxWrites
          /\ faults' = faults \/ Happens("file")
        BY <1>7, AdvanceParts
    <2>2. faults' \in 0..MaxFaults /\ epoch' <= faults'
        BY <1>1, <1>3, <2>1, BoundsAssumption DEF Happens
    <2>3. disk' \in Seq(Entry) /\ Ascends(disk') /\ Tail_seq(disk') <= writes /\ Tail_seq(log') <= writes
        <3>1. Tail_seq(log') \in Nat
            BY <2>1, TailIs
        <3>2. disk \in Seq(Entry) /\ Ascends(disk)
            BY DEF TypeOK, Numbers
        <3> QED
            BY <1>4, <2>1, <3>1, <3>2
    <2>4. promised' \subseteq kept
        <3>1. push.of \in kept \cup {0} /\ promised \subseteq kept /\ 0 \notin Write
            BY BoundsAssumption DEF Pushes, TypeOK, Write
        <3> QED
            BY <1>7, <3>1
    <2>5. TypeOK'
        BY <1>1, <1>7, <2>1, <2>2, <2>3, <2>4, BoundsAssumption DEF TypeOK, Idle
    <2>6. Numbers'
        BY <1>1, <2>1, <2>2, <2>3 DEF Numbers, Top
    <2>7. Pushes'
        BY <1>1, <1>2, <1>7 DEF Pushes, Idle
    <2> QED
        BY <2>5, <2>6, <2>7
<1> QED
    BY <1>5, <1>6, <1>7, ReadCases, Zenon

(* Types: the log and its file, the push, what is on the wire, and what the *)
(* slaves hold stay of the types they have.                                 *)
LEMMA NextBase == ASSUME BaseInv, [Next]_vars PROVE BaseInv'
<1>1. CASE UNCHANGED vars
    <2>1. UNCHANGED <<setting, log, disk, pushed, push, epoch, client, requests, answers, data, applied,
                      newest, kept, promised, writes, faults>>
        BY <1>1 DEF vars, masterVars, wireVars, slaveVars, histVars
    <2> QED
        BY <2>1 DEF BaseInv, TypeOK, Numbers, Pushes, Slaves, Top
<1>2. CASE Next
    BY <1>2, RecordBase, PushBase, CallBase, ReadBase, GivesUpBase, MasterBase, ApplyBase, SlaveBase DEF Next
<1> QED
    BY <1>1, <1>2

(* The types of the log, the push, the connections and the slaves           *)
(* (replication.rs).                                                        *)
THEOREM TypeCorrect == Spec => []TypeOK
<1>1. Spec => []BaseInv
    BY InitBase, NextBase, PTL DEF Spec
<1>2. BaseInv => TypeOK
    BY DEF BaseInv
<1> QED
    BY <1>1, <1>2, PTL

-----------------------------------------------------------------------------
(* What leaves the log                                                     *)

(* A request whose last number is not yet acknowledged ends with the       *)
(* beginning of the log, up to that number.                                *)
Fits(b) ==
    Tail_seq(b) > pushed =>
        \E k \in DOMAIN log : k <= Len(b) /\ \A i \in 1..k : log[i] = b[Len(b) - k + i]

(* A number that would cut the log is one of it, and s has applied what it *)
(* cuts.                                                                   *)
Served(s, a) ==
    a > pushed => a <= Top /\ \A i \in DOMAIN log : log[i].seq <= a => log[i].no \in applied[s]

(* What s has yet to read of the master there is. *)
Wire(s) == requests[s][epoch]

Wired(s) ==
    /\ \A i \in DOMAIN Wire(s) : Fits(Wire(s)[i])
    /\ \A i \in DOMAIN answers[s] : Served(s, answers[s][i])
    /\ client[s] = "broken" => Wire(s) = <<>>

(* The largest acknowledgement of the push under way. *)
Acked ==
    push.at # "idle" =>
        /\ push.acked > pushed => push.acked <= Top
        /\ Cardinality(Slaves) = 1 => \A s \in Slaves : Served(s, push.acked)

Silent(s) == answers[s] = <<>> /\ Wire(s) = <<>>

(* As long as no call times out, a connection carries the call under way   *)
(* and nothing else.                                                       *)
Calm ==
    "timeout" \notin setting.faults =>
        /\ \A s \in Slave :
              \/ Silent(s)
              \/ /\ push.at = "wait" /\ s = Callee
                 /\ \/ answers[s] = <<>> /\ Wire(s) = <<log>>
                    \/ Wire(s) = <<>> /\ answers[s] \in {<<Failed>>, <<Top>>}
        /\ push.at # "idle" => \A s \in Slaves \ ToSet(push.left) : Served(s, Top)

(* What is recorded is applied or in the log, and in its file. *)
Kept ==
    Trusted => \A s \in Slaves : /\ kept \subseteq applied[s] \cup Nos(log)
                                 /\ kept \subseteq applied[s] \cup Nos(disk)

SafeInv == BaseInv /\ (\A s \in Slave : Wired(s)) /\ Acked /\ Calm /\ Kept

(* The types the proofs need again and again. *)
LEMMA Parts ==
    ASSUME BaseInv
    PROVE  /\ log \in Seq(Entry) /\ disk \in Seq(Entry) /\ Ascends(log) /\ Ascends(disk)
           /\ pushed \in Nat /\ Top \in Nat /\ epoch \in Epoch /\ epoch \in Nat
           /\ push.acked \in Nat /\ Slaves \subseteq Slave /\ push.left \in Seq(Slave)
           /\ \A s \in Slave : /\ Wire(s) \in Seq(Seq(Entry))
                               /\ answers[s] \in Seq(Write \cup {Failed})
                               /\ \A i \in DOMAIN Wire(s) : Wire(s)[i] \in Seq(Entry) /\ Wire(s)[i] # <<>>
                               /\ \A i \in DOMAIN answers[s] : answers[s][i] \in Nat
<1>1. TypeOK /\ Numbers /\ Pushes /\ BoundsAssumption
    BY BoundsAssumption DEF BaseInv
<1>2. log \in Seq(Entry) /\ disk \in Seq(Entry) /\ Ascends(log) /\ Ascends(disk)
    BY <1>1 DEF TypeOK, Numbers
<1>3. pushed \in Nat /\ epoch \in Epoch /\ epoch \in Nat /\ push.acked \in Nat /\ push.left \in Seq(Slave)
    BY <1>1 DEF TypeOK, Epoch
<1>4. Top \in Nat
    BY <1>2, TailIs DEF Top
<1>5. ASSUME NEW s \in Slave
      PROVE  /\ Wire(s) \in Seq(Seq(Entry))
             /\ answers[s] \in Seq(Write \cup {Failed})
             /\ \A i \in DOMAIN Wire(s) : Wire(s)[i] \in Seq(Entry) /\ Wire(s)[i] # <<>>
             /\ \A i \in DOMAIN answers[s] : answers[s][i] \in Nat
    <2>1. Wire(s) \in Seq(Seq(Entry)) /\ answers[s] \in Seq(Write \cup {Failed})
        BY <1>1, <1>3 DEF TypeOK, Wire
    <2>2. Write \cup {Failed} \subseteq Nat
        BY <1>1 DEF Write, Failed
    <2>3. \A i \in DOMAIN Wire(s) : Wire(s)[i] # <<>>
        BY <1>1, <1>3 DEF Pushes, Wire
    <2>4. \A i \in DOMAIN Wire(s) : Wire(s)[i] \in Seq(Entry)
        BY <2>1
    <2>5. \A i \in DOMAIN answers[s] : answers[s][i] \in Write \cup {Failed}
        BY <2>1
    <2> QED
        BY <2>1, <2>2, <2>3, <2>4, <2>5
<1>6. Slaves \subseteq Slave
    BY <1>1, SettingParts
<1> QED
    BY <1>2, <1>3, <1>4, <1>5, <1>6

(* Where a request ends in the log. *)
LEMMA FitsAt ==
    ASSUME BaseInv, NEW b \in Seq(Entry), b # <<>>, Fits(b), Tail_seq(b) > pushed
    PROVE  \E k \in DOMAIN log :
              /\ k <= Len(b) /\ \A i \in 1..k : log[i] = b[Len(b) - k + i]
              /\ Tail_seq(b) = log[k].seq /\ Tail_seq(b) <= Top
              /\ \A i \in DOMAIN log : log[i].seq <= Tail_seq(b) <=> i <= k
<1>1. PICK k \in DOMAIN log : k <= Len(b) /\ \A i \in 1..k : log[i] = b[Len(b) - k + i]
    BY DEF Fits
<1>2. log \in Seq(Entry) /\ Ascends(log)
    BY Parts
<1>3. k \in Nat /\ k >= 1 /\ Len(b) \in Nat /\ log[k].seq \in Nat
    BY <1>2, EntryParts
<1>4. log[k] = b[Len(b)]
    <2>1. k \in 1..k /\ Len(b) - k + k = Len(b)
        BY <1>3
    <2>2. log[k] = b[Len(b) - k + k]
        BY ONLY <1>1, <2>1
    <2> QED
        BY <2>1, <2>2
<1>5. Tail_seq(b) = log[k].seq
    BY <1>4, TailIs
<1>6. log[k].seq <= Top
    BY <1>2, AscendsTo DEF Top
<1>7. ASSUME NEW i \in DOMAIN log PROVE log[i].seq <= Tail_seq(b) <=> i <= k
    <2>1. log[i].seq - log[k].seq = i - k
        BY <1>2, AscendsTo
    <2>2. log[i].seq \in Nat /\ i \in Nat
        BY <1>2, EntryParts
    <2> QED
        BY <1>3, <1>5, <2>1, <2>2
<1> QED
    BY <1>1, <1>5, <1>6, <1>7

(* Who has applied a request has applied what its number cuts. *)
LEMMA FitsServes ==
    ASSUME BaseInv, NEW b \in Seq(Entry), b # <<>>, Fits(b), Tail_seq(b) > pushed
    PROVE  Tail_seq(b) <= Top /\ \A i \in DOMAIN log : log[i].seq <= Tail_seq(b) => log[i].no \in Nos(b)
<1>1. PICK k \in DOMAIN log :
              /\ k <= Len(b) /\ \A i \in 1..k : log[i] = b[Len(b) - k + i]
              /\ Tail_seq(b) = log[k].seq /\ Tail_seq(b) <= Top
              /\ \A i \in DOMAIN log : log[i].seq <= Tail_seq(b) <=> i <= k
    BY FitsAt
<1>2. ASSUME NEW i \in DOMAIN log, log[i].seq <= Tail_seq(b) PROVE log[i].no \in Nos(b)
    <2>1. i <= k /\ i \in Nat /\ i >= 1 /\ k \in Nat /\ Len(b) \in Nat /\ DOMAIN b = 1..Len(b)
        BY <1>1, <1>2, Parts, EntryParts
    <2>2. i \in 1..k /\ Len(b) - k + i \in DOMAIN b
        BY <1>1, <2>1
    <2>3. log[i] = b[Len(b) - k + i]
        BY ONLY <1>1, <2>2
    <2>4. b[Len(b) - k + i] \in ToSet(b)
        BY <2>2 DEF ToSet
    <2> QED
        BY <2>3, <2>4 DEF Nos
<1> QED
    BY <1>1, <1>2

(* The log itself fits. *)
LEMMA LogFits == ASSUME BaseInv, log # <<>> PROVE Fits(log)
<1>1. log \in Seq(Entry)
    BY Parts
<1>2. Len(log) \in DOMAIN log /\ Len(log) \in Nat
    BY <1>1
<1>3. \A i \in 1..Len(log) : log[i] = log[Len(log) - Len(log) + i]
    BY <1>2
<1> QED
    BY <1>2, <1>3 DEF Fits

LEMMA ServedStays ==
    ASSUME NEW s, NEW a, Served(s, a), UNCHANGED <<log, pushed>>, applied[s] \subseteq applied'[s]
    PROVE  a > pushed' => a <= Tail_seq(log') /\ \A i \in DOMAIN log' : log'[i].seq <= a => log'[i].no \in applied'[s]
BY DEF Served, Top

LEMMA FitsStays ==
    ASSUME NEW b, Fits(b), UNCHANGED <<log, pushed>>
    PROVE  Tail_seq(b) > pushed' =>
              \E k \in DOMAIN log' : k <= Len(b) /\ \A i \in 1..k : log'[i] = b[Len(b) - k + i]
BY DEF Fits

(* A slave whose connection a step leaves alone. *)
LEMMA WiredStays ==
    ASSUME NEW s \in Slave, Wired(s), UNCHANGED <<log, pushed, epoch>>, applied[s] \subseteq applied'[s],
           requests'[s][epoch] = Wire(s), answers'[s] = answers[s], client'[s] = client[s]
    PROVE  Wired(s)'
<1>1. Wire(s)' = Wire(s)
    BY DEF Wire
<1>2. \A i \in DOMAIN Wire(s) : Fits(Wire(s)[i])'
    <2> TAKE i \in DOMAIN Wire(s)
    <2>1. Fits(Wire(s)[i])
        BY DEF Wired
    <2> QED
        BY <1>1, <2>1, FitsStays DEF Fits
<1>3. \A i \in DOMAIN answers[s] : Served(s, answers[s][i])'
    <2> TAKE i \in DOMAIN answers[s]
    <2>1. Served(s, answers[s][i])
        BY DEF Wired
    <2> QED
        BY <2>1, ServedStays DEF Served, Top
<1> QED
    BY <1>1, <1>2, <1>3 DEF Wired

LEMMA KeptStays ==
    ASSUME Kept, UNCHANGED <<setting, log, disk, kept>>, \A s \in Slaves : applied[s] \subseteq applied'[s]
    PROVE  Kept'
<1>1. Trusted' = Trusted /\ Slaves' = Slaves
    BY DEF Trusted, Slaves
<1> QED
    BY <1>1 DEF Kept

LEMMA InitSafe == Init => SafeInv
<1> SUFFICES ASSUME Init PROVE SafeInv
    OBVIOUS
<1>1. BaseInv
    BY InitBase
<1>2. \A s \in Slave : Wire(s) = <<>> /\ answers[s] = <<>> /\ client[s] = "none"
    BY BoundsAssumption DEF Init, Wire, Epoch
<1>3. push.at = "idle" /\ kept = {}
    BY DEF Init, Idle
<1> QED
    BY <1>1, <1>2, <1>3 DEF SafeInv, Wired, Acked, Calm, Silent, Kept

LEMMA RecordSafe == ASSUME SafeInv, NEW d \in Doc, record(d) PROVE SafeInv'
<1> DEFINE entry == [seq |-> Tail_seq(log) + 1, doc |-> d, no |-> writes']
<1>1. /\ push = Idle /\ writes' = writes + 1 /\ log' = Append(log, entry)
      /\ UNCHANGED <<setting, pushed, epoch, client, requests, answers, data, applied, promised>>
      /\ \/ disk' = log' /\ kept' = kept \cup {writes'}
         \/ UNCHANGED <<disk, kept>>
    BY DEF record, wireVars, slaveVars
<1>2. BaseInv /\ BaseInv'
    BY RecordBase DEF SafeInv
<1>3. Top' = Top + 1 /\ Top \in Nat /\ log \in Seq(Entry) /\ pushed \in Nat /\ log' # <<>>
    <2>0. log' \in Seq(Entry) /\ Len(log') = Len(log) + 1 /\ Len(log) \in Nat
        <3>1. log \in Seq(Entry) /\ log' \in Seq(Entry)
            BY <1>2, Parts DEF BaseInv, TypeOK
        <3> HIDE DEF entry
        <3> QED
            BY <1>1, <3>1
    <2>1. log' \in Seq(Entry) /\ log' # <<>>
        <3>1. Len(log') > 0
            BY <2>0
        <3> QED
            BY <2>0, <3>1, Nonempty
    <2>2. Tail_seq(log') = log'[Len(log')].seq
        BY <2>1, TailIs
    <2>3. Len(log') = Len(log) + 1 /\ log'[Len(log) + 1] = entry /\ log \in Seq(Entry)
        BY <1>1, <1>2, Parts
    <2> QED
        BY <1>2, <2>1, <2>2, <2>3, Parts DEF Top
<1>4. /\ DOMAIN log' = 1..Len(log) + 1 /\ DOMAIN log = 1..Len(log) /\ Len(log) \in Nat
      /\ log'[Len(log) + 1] = entry /\ \A i \in DOMAIN log : log'[i] = log[i]
    BY <1>1, <1>3
<1>5. entry.seq = Top + 1 /\ entry.no = writes'
    BY DEF Top
<1> HIDE DEF entry
<1>6. ASSUME NEW s, NEW a \in Nat, Served(s, a) PROVE Served(s, a)'
    <2> SUFFICES ASSUME a > pushed
                 PROVE  a <= Top + 1 /\ \A i \in DOMAIN log' : log'[i].seq <= a => log'[i].no \in applied[s]
        BY <1>1, <1>3 DEF Served
    <2>1. a <= Top /\ \A i \in DOMAIN log : log[i].seq <= a => log[i].no \in applied[s]
        BY <1>6 DEF Served
    <2>2. ~(entry.seq <= a)
        BY <1>3, <1>5, <2>1
    <2> QED
        BY <1>3, <1>4, <2>1, <2>2
<1>7. ASSUME NEW b \in Seq(Entry), Fits(b) PROVE Fits(b)'
    <2> SUFFICES ASSUME Tail_seq(b) > pushed
                 PROVE  \E k \in DOMAIN log' : k <= Len(b) /\ \A i \in 1..k : log'[i] = b[Len(b) - k + i]
        BY <1>1 DEF Fits
    <2>1. PICK k \in DOMAIN log : k <= Len(b) /\ \A i \in 1..k : log[i] = b[Len(b) - k + i]
        BY <1>7 DEF Fits
    <2>2. k \in DOMAIN log' /\ \A i \in 1..k : i \in DOMAIN log
        BY <1>4
    <2> QED
        BY <1>4, <2>1, <2>2
<1>8. \A s \in Slave : Wire(s)' = Wire(s)
    BY <1>1 DEF Wire
<1>9. \A s \in Slave : Wired(s)'
    <2> SUFFICES ASSUME NEW s \in Slave PROVE Wired(s)'
        OBVIOUS
    <2>1. Wired(s)
        BY DEF SafeInv
    <2>2. \A i \in DOMAIN Wire(s) : Wire(s)[i] \in Seq(Entry)
        BY <1>2, Parts
    <2>3. \A i \in DOMAIN answers[s] : answers[s][i] \in Nat
        BY <1>2, Parts
    <2>4. \A i \in DOMAIN Wire(s)' : Fits(Wire(s)[i])'
        BY <1>7, <1>8, <2>1, <2>2 DEF Wired, Fits
    <2>5. \A i \in DOMAIN answers'[s] : Served(s, answers[s][i])'
        BY <1>1, <1>6, <2>1, <2>3 DEF Wired, Served
    <2> QED
        BY <1>1, <1>8, <2>1, <2>4, <2>5 DEF Wired
<1>10. push' = Idle \/ (push'.acked = 0 /\ push'.left = setting.slaves /\ push'.at = "call")
    BY <1>1 DEF record, Pushing
<1>11. Slaves' = Slaves /\ Trusted' = Trusted
    BY <1>1 DEF Slaves, Trusted
<1>12. Acked'
    <2>1. push'.acked = 0 /\ ~(0 > pushed)
        BY <1>3, <1>10 DEF Idle
    <2> QED
        BY <1>1, <2>1 DEF Acked, Served
<1>13. Calm'
    <2>1. "timeout" \notin setting.faults => \A s \in Slave : Silent(s)
        BY <1>1 DEF SafeInv, Calm, Idle
    <2>2. push'.at # "idle" => Slaves \ ToSet(push'.left) = {}
        BY <1>10 DEF Idle, Slaves
    <2> QED
        BY <1>1, <1>8, <1>11, <2>1, <2>2 DEF Calm, Silent
<1>14. Kept'
    <2>1. Nos(log') = Nos(log) \cup {writes'}
        <3>1. \A i \in DOMAIN log' : i \in DOMAIN log \/ i = Len(log) + 1
            BY <1>4
        <3>2. Len(log) + 1 \in DOMAIN log' /\ DOMAIN log \subseteq DOMAIN log'
            BY <1>4
        <3>3. ToSet(log') = ToSet(log) \cup {entry}
            BY <1>4, <3>1, <3>2 DEF ToSet
        <3> QED
            BY <1>5, <3>3 DEF Nos
    <2> SUFFICES ASSUME Trusted, NEW s \in Slaves
                 PROVE  kept' \subseteq applied[s] \cup Nos(log') /\ kept' \subseteq applied[s] \cup Nos(disk')
        BY <1>1, <1>11 DEF Kept
    <2>2. kept \subseteq applied[s] \cup Nos(log) /\ kept \subseteq applied[s] \cup Nos(disk)
        BY DEF SafeInv, Kept
    <2> QED
        BY <1>1, <2>1, <2>2
<1> QED
    BY <1>2, <1>9, <1>12, <1>13, <1>14 DEF SafeInv

LEMMA PushSafe == ASSUME SafeInv, push_pending PROVE SafeInv'
<1>1. push = Idle /\ push' = Pushing(log, 0) /\ log # <<>>
      /\ UNCHANGED <<setting, log, disk, pushed, epoch, faults, client, requests, answers, data, applied, newest,
                     kept, promised, writes>>
    BY DEF push_pending, wireVars, slaveVars, histVars
<1>2. BaseInv /\ BaseInv'
    BY PushBase DEF SafeInv
<1>3. \A s \in Slave : Wired(s)'
    BY <1>1, WiredStays DEF SafeInv, Wire
<1>4. push' = Idle \/ (push'.acked = 0 /\ push'.left = setting.slaves /\ push'.at = "call")
    BY <1>1 DEF Pushing
<1>5. Slaves' = Slaves
    BY <1>1 DEF Slaves
<1>6. Acked'
    <2>1. push'.acked = 0 /\ ~(0 > pushed)
        BY <1>2, <1>4, Parts DEF Idle
    <2> QED
        BY <1>1, <2>1 DEF Acked, Served
<1>7. Calm'
    <2>1. "timeout" \notin setting.faults => \A s \in Slave : Silent(s)
        BY <1>1 DEF SafeInv, Calm, Idle
    <2>2. push'.at # "idle" => Slaves \ ToSet(push'.left) = {}
        BY <1>4 DEF Idle, Slaves
    <2> QED
        BY <1>1, <1>5, <2>1, <2>2 DEF Calm, Silent, Wire
<1>8. Kept'
    BY <1>1, KeptStays DEF SafeInv
<1> QED
    BY <1>2, <1>3, <1>6, <1>7, <1>8 DEF SafeInv

LEMMA CallSafe == ASSUME SafeInv, call PROVE SafeInv'
<1>1. push.at = "call" /\ UNCHANGED <<setting, log, disk, pushed, epoch, answers, data, applied, newest, kept, promised, writes>>
    BY DEF call, slaveVars, histVars
<1>2. BaseInv /\ BaseInv'
    BY CallBase DEF SafeInv
<1>3. Callee \in Slaves /\ Callee \in Slave /\ push.batch = log /\ log # <<>> /\ epoch \in Epoch
    BY <1>1, <1>2, CalleeIs, Parts DEF BaseInv, Pushes
<1>4. "timeout" \notin setting.faults => (\A s \in Slave : Silent(s)) /\ \A s \in Slaves \ ToSet(push.left) : Served(s, Top)
    BY <1>1 DEF SafeInv, Calm
<1>5. push' \in {Idle, [push EXCEPT !.at = "wait"]}
    BY DEF call
<1>6. push'.at # "idle" => push' = [push EXCEPT !.at = "wait"] /\ push'.left = push.left /\ push'.acked = push.acked
                           /\ push'.at = "wait"
    BY <1>2, <1>5 DEF Idle, BaseInv, TypeOK
<1>7. Slaves' = Slaves /\ Trusted' = Trusted
    BY <1>1 DEF Slaves, Trusted
<1>8. Acked'
    BY <1>1, <1>6, <1>7 DEF SafeInv, Acked, Served, Top
<1>9. Kept'
    BY <1>1, KeptStays DEF SafeInv
<1>10. CASE client' = [client EXCEPT ![Callee] = "up"]
            /\ requests' = [requests EXCEPT ![Callee][epoch] = Append(@, push.batch)]
            /\ push' = [push EXCEPT !.at = "wait"]
    <2>1. PICK c \in Slave : c = Callee
        BY <1>3
    <2>2. client' = [client EXCEPT ![c] = "up"] /\ requests' = [requests EXCEPT ![c][epoch] = Append(@, log)]
        BY <1>3, <1>10, <2>1
    <2>3. requests \in [Slave -> [Epoch -> Seq(Seq(Entry))]] /\ client \in [Slave -> {"none", "up", "broken"}]
        BY <1>2 DEF BaseInv, TypeOK
    <2>4. client'[c] = "up" /\ \A s \in Slave \ {c} : client'[s] = client[s]
        BY <2>2, <2>3
    <2>5. requests'[c][epoch] = Append(requests[c][epoch], log) /\ \A s \in Slave \ {c} : requests'[s] = requests[s]
        BY <1>3, <2>2, <2>3
    <2>6. Wire(c)' = Append(Wire(c), log) /\ \A s \in Slave \ {c} : Wire(s)' = Wire(s)
        BY <1>1, <2>5 DEF Wire
    <2>7. Wired(c)'
        <3>1. Wired(c) /\ Wire(c) \in Seq(Seq(Entry)) /\ log \in Seq(Entry)
            BY <1>2, Parts DEF SafeInv
        <3>2. ASSUME NEW i \in DOMAIN Append(Wire(c), log) PROVE Fits(Append(Wire(c), log)[i])
            <4>1. CASE i \in DOMAIN Wire(c)
                <5>1. Append(Wire(c), log)[i] = Wire(c)[i]
                    BY <3>1, <4>1
                <5> QED
                    BY <3>1, <4>1, <5>1 DEF Wired
            <4>2. CASE i \notin DOMAIN Wire(c)
                <5>1. Append(Wire(c), log)[i] = log
                    BY <3>1, <4>2
                <5> QED
                    BY <1>2, <1>3, <5>1, LogFits
            <4> QED
                BY <4>1, <4>2
        <3>3. \A i \in DOMAIN Wire(c)' : Fits(Wire(c)[i])'
            BY <1>1, <2>6, <3>2 DEF Fits
        <3>4. \A i \in DOMAIN answers[c] : Served(c, answers[c][i])
            BY <3>1 DEF Wired
        <3>5. \A i \in DOMAIN answers'[c] : Served(c, answers[c][i])'
            BY <1>1, <3>4 DEF Served, Top
        <3> QED
            BY <2>4, <3>3, <3>5 DEF Wired
    <2>8. ASSUME NEW s \in Slave, s # c PROVE Wired(s)'
        <3>1. requests'[s][epoch] = Wire(s) /\ answers'[s] = answers[s] /\ client'[s] = client[s]
            BY <1>1, <2>4, <2>5, <2>8 DEF Wire
        <3> QED
            BY <1>1, <3>1, WiredStays DEF SafeInv
    <2>9. Calm'
        <3> SUFFICES ASSUME "timeout" \notin setting.faults
                     PROVE  /\ \A s \in Slave :
                                 \/ Silent(s)'
                                 \/ /\ push'.at = "wait" /\ s = Callee'
                                    /\ answers'[s] = <<>> /\ Wire(s)' = <<log'>>
                            /\ \A s \in Slaves \ ToSet(push.left) : Served(s, Top)'
            BY <1>1, <1>6, <1>7 DEF Calm
        <3>1. push'.at = "wait" /\ Callee' = c
            BY <1>2, <1>6, <1>10, <2>1 DEF Callee, BaseInv, TypeOK
        <3>2. \A s \in Slave : Silent(s)
            BY <1>4
        <3>3. \A s \in Slave \ {c} : Silent(s)'
            BY <1>1, <2>6, <3>2 DEF Silent
        <3>4. answers'[c] = <<>> /\ Wire(c)' = <<log'>>
            <4>1. Wire(c) = <<>> /\ answers[c] = <<>>
                BY <3>2 DEF Silent
            <4> QED
                BY <1>1, <2>6, <4>1
        <3>5. \A s \in Slaves \ ToSet(push.left) : Served(s, Top)'
            BY <1>1, <1>4 DEF Served, Top
        <3> QED
            BY <3>1, <3>3, <3>4, <3>5
    <2> QED
        BY <1>2, <1>8, <1>9, <2>7, <2>8, <2>9 DEF SafeInv
<1>11. CASE UNCHANGED <<client, requests>>
    <2>1. \A s \in Slave : Wired(s)'
        BY <1>1, <1>11, WiredStays DEF SafeInv, Wire
    <2>2. Calm'
        BY <1>1, <1>4, <1>6, <1>7, <1>11 DEF Calm, Silent, Wire, Served, Top
    <2> QED
        BY <1>2, <1>8, <1>9, <2>1, <2>2 DEF SafeInv
<1> QED
    BY <1>10, <1>11 DEF call

LEMMA GivesUpSafe == ASSUME SafeInv, GivesUp PROVE SafeInv'
<1>1. push' = Idle /\ push.at = "wait" /\ answers[Callee] = <<>>
      /\ UNCHANGED <<setting, log, disk, pushed, epoch, client, requests,
          answers, data, applied, newest, kept, promised, writes>>
    BY DEF GivesUp, wireVars, slaveVars, histVars
<1>2. BaseInv /\ BaseInv'
    BY GivesUpBase DEF SafeInv
<1>3. \A s \in Slave : Wired(s)'
    BY <1>1, WiredStays DEF SafeInv, Wire
<1>4. Acked' /\ push'.at = "idle"
    BY <1>1 DEF Acked, Idle
<1>5. Kept'
    BY <1>1, KeptStays DEF SafeInv
<1>6. Calm'
    <2> SUFFICES ASSUME "timeout" \notin setting.faults, NEW s \in Slave PROVE Silent(s)
        BY <1>1, <1>4 DEF Calm, Silent, Wire
    <2>1. client[Callee] = "broken"
        BY DEF GivesUp, Happens
    <2>2. \/ Silent(s)
          \/ /\ s = Callee
             /\ \/ answers[s] = <<>> /\ Wire(s) = <<log>>
                \/ Wire(s) = <<>> /\ answers[s] \in {<<Failed>>, <<Top>>}
        BY DEF SafeInv, Calm
    <2>3. s = Callee => Wire(s) = <<>> /\ answers[s] = <<>>
        BY <1>1, <2>1 DEF SafeInv, Wired
    <2> QED
        BY <2>2, <2>3 DEF Silent
<1> QED
    BY <1>2, <1>3, <1>4, <1>5, <1>6 DEF SafeInv

LEMMA MasterSafe == ASSUME SafeInv, MasterRestarts PROVE SafeInv'
<1>1. /\ log' = disk /\ push' = Idle /\ epoch' = epoch + 1
      /\ client' = [s \in Slave |-> "none"] /\ answers' = [s \in Slave |-> <<>>]
      /\ UNCHANGED <<setting, disk, requests, data, applied, newest, kept, promised, writes>>
    BY DEF MasterRestarts, slaveVars, histVars
<1>2. BaseInv /\ BaseInv'
    BY MasterBase DEF SafeInv
<1>3. \A s \in Slave : Wire(s)' = <<>>
    <2>1. epoch' \in Epoch
        BY <1>2 DEF BaseInv, TypeOK
    <2>2. epoch' > epoch
        BY <1>1, <1>2, Parts
    <2> QED
        BY <1>1, <1>2, <2>1, <2>2 DEF BaseInv, Pushes, Wire
<1>4. \A s \in Slave : Wired(s)' /\ Silent(s)'
    BY <1>1, <1>3 DEF Wired, Silent
<1>5. Acked' /\ Calm'
    BY <1>1, <1>4 DEF Acked, Calm, Idle
<1>6. Kept'
    <2>1. Slaves' = Slaves /\ Trusted' = Trusted
        BY <1>1 DEF Slaves, Trusted
    <2> QED
        BY <1>1, <2>1 DEF SafeInv, Kept
<1> QED
    BY <1>2, <1>4, <1>5, <1>6 DEF SafeInv

(* A step that leaves the log, the push and all of the wire but, perhaps,  *)
(* that of one slave, and in which slaves only apply more.                 *)
LEMMA SlaveStep ==
    ASSUME SafeInv, BaseInv', NEW s \in Slave, Wired(s)',
           UNCHANGED <<setting, log, disk, pushed, push, epoch, kept>>,
           \A t \in Slave : applied[t] \subseteq applied'[t],
           \A t \in Slave \ {s} : requests'[t][epoch] = Wire(t) /\ answers'[t] = answers[t] /\ client'[t] = client[t],
           "timeout" \notin setting.faults =>
               \/ answers'[s] = answers[s] /\ requests'[s][epoch] = Wire(s)
               \/ answers'[s] = <<>> /\ requests'[s][epoch] = <<>>
               \/ /\ push.at = "wait" /\ s = Callee /\ requests'[s][epoch] = <<>>
                  /\ answers'[s] \in {<<Failed>>, <<Top>>}
    PROVE  SafeInv'
<1>1. \A t \in Slave : Wired(t)'
    <2> SUFFICES ASSUME NEW t \in Slave, t # s PROVE Wired(t)'
        OBVIOUS
    <2>1. Wired(t)
        BY DEF SafeInv
    <2> QED
        BY <2>1, WiredStays
<1>2. Slaves' = Slaves /\ Slaves \subseteq Slave
    BY Parts DEF Slaves, SafeInv
<1>3. Acked'
    <2> SUFFICES ASSUME push.at # "idle"
                 PROVE  /\ push.acked > pushed => push.acked <= Top
                        /\ Cardinality(Slaves) = 1 => \A t \in Slaves : Served(t, push.acked)'
        BY <1>2 DEF Acked, Top
    <2>1. /\ push.acked > pushed => push.acked <= Top
          /\ Cardinality(Slaves) = 1 => \A t \in Slaves : Served(t, push.acked)
        BY DEF SafeInv, Acked
    <2>2. ASSUME NEW t \in Slaves, Served(t, push.acked) PROVE Served(t, push.acked)'
        <3>1. applied[t] \subseteq applied'[t]
            BY <1>2
        <3> QED
            BY <2>2, <3>1 DEF Served, Top
    <2> QED
        BY <2>1, <2>2
<1>4. Kept'
    <2>1. \A t \in Slaves : applied[t] \subseteq applied'[t]
        BY <1>2
    <2>2. Kept
        BY DEF SafeInv
    <2> QED
        BY <2>1, <2>2, KeptStays
<1>5. Calm'
    <2> SUFFICES ASSUME "timeout" \notin setting.faults
                 PROVE  /\ \A t \in Slave :
                              \/ Silent(t)'
                              \/ /\ push.at = "wait" /\ t = Callee
                                 /\ \/ answers'[t] = <<>> /\ Wire(t)' = <<log>>
                                    \/ Wire(t)' = <<>> /\ answers'[t] \in {<<Failed>>, <<Top>>}
                        /\ push.at # "idle" => \A t \in Slaves \ ToSet(push.left) : Served(t, Top)'
        BY <1>2 DEF Calm, Callee, Top
    <2>1. ASSUME NEW t \in Slave
          PROVE  \/ Silent(t)'
                 \/ /\ push.at = "wait" /\ t = Callee
                    /\ \/ answers'[t] = <<>> /\ Wire(t)' = <<log>>
                       \/ Wire(t)' = <<>> /\ answers'[t] \in {<<Failed>>, <<Top>>}
        <3>1. \/ Silent(t)
              \/ /\ push.at = "wait" /\ t = Callee
                 /\ \/ answers[t] = <<>> /\ Wire(t) = <<log>>
                    \/ Wire(t) = <<>> /\ answers[t] \in {<<Failed>>, <<Top>>}
            BY DEF SafeInv, Calm
        <3>2. Wire(t)' = requests'[t][epoch]
            BY DEF Wire
        <3>3. CASE answers'[t] = answers[t] /\ requests'[t][epoch] = Wire(t)
            BY <3>1, <3>2, <3>3 DEF Silent
        <3>4. CASE answers'[t] = <<>> /\ requests'[t][epoch] = <<>>
            BY <3>2, <3>4 DEF Silent
        <3>5. CASE /\ push.at = "wait" /\ t = Callee /\ requests'[t][epoch] = <<>>
                   /\ answers'[t] \in {<<Failed>>, <<Top>>}
            BY <3>2, <3>5
        <3> QED
            BY <3>3, <3>4, <3>5
    <2>2. ASSUME push.at # "idle", NEW t \in Slaves \ ToSet(push.left) PROVE Served(t, Top)'
        <3>1. Served(t, Top)
            BY <2>2 DEF SafeInv, Calm
        <3>2. applied[t] \subseteq applied'[t]
            BY <1>2
        <3> QED
            BY <3>1, <3>2 DEF Served, Top
    <2> QED
        BY <2>1, <2>2
<1> QED
    BY <1>1, <1>3, <1>4, <1>5 DEF SafeInv

LEMMA ApplySafe == ASSUME SafeInv, NEW s \in Slave, NEW e \in Epoch, apply(s, e) PROVE SafeInv'
<1>1. requests' = [requests EXCEPT ![s][e] = Tail(@)] /\ requests[s][e] # <<>>
      /\ UNCHANGED <<setting, log, disk, pushed, push, epoch, client, newest, kept, promised, writes>>
    BY DEF apply, masterVars, histVars
<1>2. BaseInv /\ BaseInv' /\ Wired(s)
    BY ApplyBase DEF SafeInv
<1> DEFINE b == Head(requests[s][e])
<1>3. b \in Seq(Entry) /\ b # <<>> /\ b = requests[s][e][1] /\ 1 \in DOMAIN requests[s][e]
      /\ \/ Does(s, b) /\ Answer(s, e, Tail_seq(b))
         \/ \E c \in Seq(Entry) : Does(s, c) /\ Answer(s, e, Failed)
    BY <1>2, ApplyParts, Zenon
<1> HIDE DEF b
<1>4. \A t \in Slave : applied[t] \subseteq applied'[t]
    <2>1. PICK c \in Seq(Entry) : Does(s, c)
        BY <1>3
    <2> QED
        BY <1>2, <2>1, DoesBase DEF BaseInv
<1>5. requests \in [Slave -> [Epoch -> Seq(Seq(Entry))]] /\ answers \in [Slave -> Seq(Write \cup {Failed})]
      /\ requests[s][e] \in Seq(Seq(Entry)) /\ epoch \in Epoch
    <2>1. requests \in [Slave -> [Epoch -> Seq(Seq(Entry))]] /\ answers \in [Slave -> Seq(Write \cup {Failed})]
          /\ epoch \in Epoch
        BY <1>2 DEF BaseInv, TypeOK
    <2> QED
        BY <2>1
<1>6. \A t \in Slave \ {s} : requests'[t][epoch] = Wire(t) /\ answers'[t] = answers[t] /\ client'[t] = client[t]
    <2>1. \A t \in Slave \ {s} : requests'[t] = requests[t]
        BY <1>1, <1>5
    <2>2. PICK a : Answer(s, e, a)
        BY <1>3
    <2>3. \A t \in Slave \ {s} : answers'[t] = answers[t]
        BY <1>5, <2>2 DEF Answer
    <2> QED
        BY <1>1, <2>1, <2>3 DEF Wire
<1>7. CASE e # epoch
    <2>1. requests'[s][epoch] = Wire(s)
        BY <1>1, <1>5, <1>7 DEF Wire
    <2>2. answers' = answers
        BY <1>3, <1>7 DEF Answer
    <2>3. Wired(s)'
        BY <1>1, <1>2, <1>4, <2>1, <2>2, WiredStays
    <2> QED
        BY <1>1, <1>2, <1>4, <1>6, <2>1, <2>2, <2>3, SlaveStep
<1>8. CASE e = epoch
    <2>1. requests'[s][epoch] = Tail(Wire(s)) /\ Wire(s)' = Tail(Wire(s)) /\ Wire(s) # <<>>
        BY <1>1, <1>5, <1>8 DEF Wire
    <2>2. Wire(s) \in Seq(Seq(Entry)) /\ b = Wire(s)[1] /\ 1 \in DOMAIN Wire(s) /\ b = Head(Wire(s))
        BY <1>3, <1>5, <1>8 DEF Wire, b
    <2>3. PICK a : /\ answers' = [answers EXCEPT ![s] = Append(@, a)]
                   /\ \/ Does(s, b) /\ a = Tail_seq(b)
                      \/ a = Failed
        BY <1>3, <1>8 DEF Answer
    <2>4. answers'[s] = Append(answers[s], a) /\ answers[s] \in Seq(Write \cup {Failed})
        BY <1>5, <2>3
    <2>5. a \in Nat /\ (a > pushed => a <= Top /\ \A i \in DOMAIN log : log[i].seq <= a => log[i].no \in applied'[s])
        <3>1. CASE a = Failed
            BY <1>2, <3>1, Parts DEF Failed
        <3>2. CASE a = Tail_seq(b) /\ Does(s, b)
            <4>1. Nos(b) \subseteq applied'[s]
                BY <1>2, <1>3, <3>2, DoesBase DEF BaseInv
            <4>2. a > pushed => a <= Top /\ \A i \in DOMAIN log : log[i].seq <= a => log[i].no \in Nos(b)
                <5>1. Fits(b)
                    BY <1>2, <2>2 DEF Wired
                <5> QED
                    BY <1>2, <1>3, <3>2, <5>1, FitsServes
            <4>3. a \in Nat
                BY <1>3, <3>2, TailIs
            <4> QED
                BY <4>1, <4>2, <4>3
        <3> QED
            BY <2>3, <3>1, <3>2
    <2>6. Wired(s)'
        <3>1. \A i \in DOMAIN Wire(s)' : Fits(Wire(s)[i])'
            <4> SUFFICES ASSUME NEW i \in DOMAIN Tail(Wire(s)) PROVE Fits(Tail(Wire(s))[i])
                BY <1>1, <2>1 DEF Fits
            <4>1. i + 1 \in DOMAIN Wire(s) /\ Tail(Wire(s))[i] = Wire(s)[i + 1]
                BY <2>1, <2>2, TailOf
            <4> QED
                BY <1>2, <4>1 DEF Wired
        <3>2. \A i \in DOMAIN answers'[s] : Served(s, answers[s][i])'
            <4> SUFFICES ASSUME NEW i \in DOMAIN Append(answers[s], a)
                         PROVE  LET x == Append(answers[s], a)[i]
                                IN  x > pushed => x <= Top /\ \A j \in DOMAIN log : log[j].seq <= x => log[j].no \in applied'[s]
                BY <1>1, <2>4 DEF Served, Top
            <4>1. CASE i \in DOMAIN answers[s]
                <5>1. Append(answers[s], a)[i] = answers[s][i]
                    BY <2>4, <4>1
                <5>2. Served(s, answers[s][i])
                    BY <1>2, <4>1 DEF Wired
                <5> QED
                    BY <1>4, <5>1, <5>2 DEF Served
            <4>2. CASE i \notin DOMAIN answers[s]
                <5>1. Append(answers[s], a)[i] = a
                    BY <2>4, <4>2
                <5> QED
                    BY <2>5, <5>1
            <4> QED
                BY <4>1, <4>2
        <3>3. client'[s] # "broken"
            BY <1>1, <1>2, <2>1 DEF Wired
        <3> QED
            BY <3>1, <3>2, <3>3 DEF Wired
    <2>7. "timeout" \notin setting.faults =>
               /\ push.at = "wait" /\ s = Callee /\ requests'[s][epoch] = <<>>
               /\ answers'[s] \in {<<Failed>>, <<Top>>}
        <3> SUFFICES ASSUME "timeout" \notin setting.faults
                     PROVE  /\ push.at = "wait" /\ s = Callee /\ Tail(Wire(s)) = <<>>
                            /\ answers'[s] \in {<<Failed>>, <<Top>>}
            BY <2>1
        <3>1. push.at = "wait" /\ s = Callee /\ answers[s] = <<>> /\ Wire(s) = <<log>>
            BY <2>1 DEF SafeInv, Calm, Silent
        <3>2. Tail(Wire(s)) = <<>> /\ b = log
            BY <2>2, <3>1
        <3>3. answers'[s] = <<a>>
            BY <2>4, <3>1
        <3> QED
            BY <2>3, <3>1, <3>2, <3>3 DEF Top
    <2> QED
        BY <1>1, <1>2, <1>4, <1>6, <2>6, <2>7, SlaveStep
<1> QED
    BY <1>7, <1>8

LEMMA SlaveSafe == ASSUME SafeInv, NEW s \in Slave, SlaveRestarts(s) PROVE SafeInv'
<1>1. BaseInv /\ BaseInv' /\ Wired(s)
    BY SlaveBase DEF SafeInv
<1>2. /\ UNCHANGED <<setting, log, disk, pushed, push, epoch, answers, newest, kept, promised, writes>>
      /\ \A t \in Slave \ {s} : client'[t] = client[t] /\ requests'[t] = requests[t]
      /\ \A e \in Epoch : requests'[s][e] = <<>>
    BY <1>1, SlaveParts
<1>3. \A t \in Slave : applied[t] \subseteq applied'[t]
    <2>1. CASE UNCHANGED <<data, applied>>
        BY <2>1
    <2>2. CASE ~UNCHANGED <<data, applied>>
        <3>1. PICK b \in Seq(Entry) : Does(s, b)
            BY <1>1, <2>2, SlaveParts
        <3> QED
            BY <1>1, <3>1, DoesBase DEF BaseInv
    <2> QED
        BY <2>1, <2>2
<1>4. requests'[s][epoch] = <<>> /\ Wire(s)' = <<>>
    BY <1>1, <1>2, Parts DEF Wire
<1>5. Wired(s)'
    <2>1. \A i \in DOMAIN answers[s] : Served(s, answers[s][i])'
        <3> TAKE i \in DOMAIN answers[s]
        <3>1. Served(s, answers[s][i])
            BY <1>1 DEF Wired
        <3> QED
            BY <1>2, <1>3, <3>1, ServedStays DEF Served, Top
    <2> QED
        BY <1>2, <1>4, <2>1 DEF Wired
<1>6. \A t \in Slave \ {s} : requests'[t][epoch] = Wire(t) /\ answers'[t] = answers[t] /\ client'[t] = client[t]
    BY <1>2 DEF Wire
<1>7. "timeout" \notin setting.faults =>
          \/ answers'[s] = answers[s] /\ requests'[s][epoch] = Wire(s)
          \/ answers'[s] = <<>> /\ requests'[s][epoch] = <<>>
          \/ /\ push.at = "wait" /\ s = Callee /\ requests'[s][epoch] = <<>>
             /\ answers'[s] \in {<<Failed>>, <<Top>>}
    BY <1>2, <1>4 DEF SafeInv, Calm, Silent
<1> QED
    BY <1>1, <1>2, <1>3, <1>5, <1>6, <1>7, SlaveStep

(* With one slave, the one called is it; with more of them and no timeout,  *)
(* what comes behind the last answer finds nothing on the wire.             *)
LEMMA ReadServes ==
    ASSUME SafeInv, Read
    PROVE  LET answer == Head(answers[Callee])
           IN  /\ Served(Callee, answer) /\ answer \in Nat
               /\ "timeout" \notin setting.faults =>
                      /\ \A s \in Slave : answers'[s] = <<>> /\ Wire(s) = <<>>
                      /\ answer # Failed => answer = Top
               /\ Cardinality(Slaves) = 1 => Slaves = {Callee}
<1>1. PICK c \in Slave : c = Callee
    BY ReadParts DEF SafeInv
<1>2. BaseInv /\ Wired(c) /\ c \in Slaves
    BY <1>1, ReadParts DEF SafeInv
<1>3. answers[c] # <<>> /\ Head(answers[c]) = answers[c][1] /\ 1 \in DOMAIN answers[c]
      /\ answers'[c] = Tail(answers[c]) /\ \A s \in Slave \ {c} : answers'[s] = answers[s]
    BY <1>1, <1>2, ReadParts
<1>4. Served(c, Head(answers[c])) /\ Head(answers[c]) \in Nat
    BY <1>2, <1>3, Parts DEF Wired
<1>5. ASSUME "timeout" \notin setting.faults
      PROVE  /\ \A s \in Slave : answers'[s] = <<>> /\ Wire(s) = <<>>
             /\ Head(answers[c]) # Failed => Head(answers[c]) = Top
    <2>1. \A s \in Slave \ {c} : Silent(s)
        BY <1>1, <1>5 DEF SafeInv, Calm
    <2>2. Wire(c) = <<>> /\ answers[c] \in {<<Failed>>, <<Top>>}
        BY <1>1, <1>3, <1>5 DEF SafeInv, Calm, Silent
    <2>3. Head(answers[c]) # Failed => Head(answers[c]) = Top
        BY <2>2
    <2>4. Tail(answers[c]) = <<>>
        <3>1. CASE answers[c] = <<Failed>>
            BY <3>1
        <3>2. CASE answers[c] = <<Top>>
            BY <3>2
        <3> QED
            BY <2>2, <3>1, <3>2
    <2> QED
        BY <1>3, <2>1, <2>2, <2>3, <2>4 DEF Silent
<1>6. ASSUME Cardinality(Slaves) = 1 PROVE Slaves = {c}
    <2>1. IsFiniteSet(Slaves)
        BY <1>2, SlavesFinite DEF BaseInv
    <2>2. PICK x : Slaves = {x}
        BY <1>6, <2>1, FS_Singleton
    <2> QED
        BY <1>2, <2>2
<1> QED
    BY <1>1, <1>4, <1>5, <1>6

LEMMA ReadSafe == ASSUME SafeInv, Read PROVE SafeInv'
<1>1. PICK c \in Slave : c = Callee
    BY ReadParts DEF SafeInv
<1>2. BaseInv /\ BaseInv' /\ \A s \in Slave : Wired(s)
    BY ReadBase DEF SafeInv
<1>3. /\ push.at = "wait" /\ c \in Slaves /\ c \in ToSet(push.left)
      /\ \A s \in Slave \ {c} : answers'[s] = answers[s]
      /\ \A i \in DOMAIN answers'[c] : i + 1 \in DOMAIN answers[c] /\ answers'[c][i] = answers[c][i + 1]
      /\ UNCHANGED <<setting, epoch, client, requests, data, applied, newest, kept, writes>>
    BY <1>1, <1>2, ReadParts
<1> DEFINE answer == Head(answers[c])
           most == Max({push.acked, answer})
<1>4. \/ /\ answer = Failed /\ push' = Idle
         /\ UNCHANGED <<log, disk, pushed, promised, faults>>
      \/ /\ answer # Failed /\ most \in 0..MaxWrites
         /\ most \in {push.acked, answer} /\ most >= push.acked /\ most >= answer
         /\ \/ /\ Len(push.left) > 1
               /\ push' = [push EXCEPT !.at = "call", !.left = Tail(@), !.acked = most]
               /\ UNCHANGED <<log, disk, pushed, promised, faults>>
            \/ /\ Len(push.left) = 1
               /\ advance(most) /\ push' = Idle
    BY <1>1, <1>2, ReadCases, Zenon
<1>5. /\ Served(c, answer) /\ answer \in Nat
      /\ "timeout" \notin setting.faults =>
             /\ \A s \in Slave : answers'[s] = <<>> /\ Wire(s) = <<>>
             /\ answer # Failed => answer = Top
      /\ Cardinality(Slaves) = 1 => Slaves = {c}
    BY <1>1, ReadServes
<1> HIDE DEF answer, most
<1>6. /\ Slaves' = Slaves /\ Slaves \subseteq Slave /\ Trusted' = Trusted
      /\ pushed \in Nat /\ Top \in Nat /\ push.acked \in Nat /\ log \in Seq(Entry)
      /\ \A s \in Slave : Wire(s)' = Wire(s)
    BY <1>2, <1>3, Parts DEF Slaves, Trusted, Wire
(* Each answer that is left is one of those there were. *)
<1>7. \A s \in Slave : \A i \in DOMAIN answers'[s] : answers'[s][i] \in Nat /\ Served(s, answers'[s][i])
    <2> SUFFICES ASSUME NEW s \in Slave, NEW i \in DOMAIN answers'[s]
                 PROVE  answers'[s][i] \in Nat /\ Served(s, answers'[s][i])
        OBVIOUS
    <2>1. PICK j \in DOMAIN answers[s] : answers'[s][i] = answers[s][j]
        BY <1>3
    <2>2. Served(s, answers[s][j]) /\ answers[s][j] \in Nat
        BY <1>2, Parts DEF Wired
    <2> QED
        BY <2>1, <2>2
<1>8. "timeout" \notin setting.faults => \A s \in Slave : Silent(s)'
    BY <1>5, <1>6 DEF Silent
(* What the push has come to know. *)
<1>9. /\ most > pushed => most <= Top
      /\ Cardinality(Slaves) = 1 => \A s \in Slaves : Served(s, most)
      /\ "timeout" \notin setting.faults =>
             \A s \in Slaves : s \notin ToSet(push.left) \/ s = c => (answer # Failed => Served(s, Top))
    <2>1. /\ push.acked > pushed => push.acked <= Top
          /\ Cardinality(Slaves) = 1 => \A s \in Slaves : Served(s, push.acked)
          /\ "timeout" \notin setting.faults => \A s \in Slaves \ ToSet(push.left) : Served(s, Top)
        BY <1>3 DEF SafeInv, Acked, Calm
    <2>2. answer > pushed => answer <= Top
        BY <1>5 DEF Served
    <2>3. most \in {push.acked, answer}
        <3>1. answer \in 0..MaxWrites /\ push.acked \in 0..MaxWrites /\ MaxWrites \in Nat
            BY <1>1, <1>2, ReadParts, BoundsAssumption DEF answer, BaseInv, TypeOK
        <3> QED
            BY <3>1, MostIs DEF most
    <2> QED
        BY <1>5, <2>1, <2>2, <2>3
<1>10. CASE UNCHANGED <<log, disk, pushed>> /\ push' = Idle
    <2>1. \A s \in Slave : Wired(s)'
        <3> SUFFICES ASSUME NEW s \in Slave PROVE Wired(s)'
            OBVIOUS
        <3>1. Wired(s)
            BY <1>2
        <3> QED
            BY <1>3, <1>6, <1>7, <1>10, <3>1 DEF Wired, Fits, Served, Top
    <2>2. Acked' /\ Calm'
        BY <1>3, <1>8, <1>10 DEF Acked, Calm, Idle
    <2>3. Kept'
        BY <1>3, <1>10, KeptStays DEF SafeInv
    <2> QED
        BY <1>2, <2>1, <2>2, <2>3 DEF SafeInv
<1>11. CASE /\ answer # Failed /\ Len(push.left) > 1
            /\ push' = [push EXCEPT !.at = "call", !.left = Tail(@), !.acked = most]
            /\ UNCHANGED <<log, disk, pushed, promised, faults>>
    <2>1. \A s \in Slave : Wired(s)'
        <3> SUFFICES ASSUME NEW s \in Slave PROVE Wired(s)'
            OBVIOUS
        <3>1. Wired(s)
            BY <1>2
        <3> QED
            BY <1>3, <1>6, <1>7, <1>11, <3>1 DEF Wired, Fits, Served, Top
    <2>2. push'.left = Tail(push.left) /\ push'.acked = most
        BY <1>2, <1>11 DEF BaseInv, TypeOK
    <2>3. Acked'
        BY <1>3, <1>6, <1>9, <1>11, <2>2 DEF Acked, Served, Top
    <2>4. Calm'
        <3> SUFFICES ASSUME "timeout" \notin setting.faults, NEW s \in Slaves, s \notin ToSet(Tail(push.left))
                     PROVE  Served(s, Top)'
            BY <1>3, <1>6, <1>8, <2>2 DEF Calm
        <3>1. s \notin ToSet(push.left) \/ s = c
            <4>1. push.left \in Seq(Slave) /\ push.left # <<>>
                BY <1>2, <1>3, Parts DEF BaseInv, Pushes
            <4> QED
                BY <1>1, <4>1, LeftLoses DEF Callee
        <3>2. Served(s, Top)
            BY <1>9, <1>11, <3>1
        <3> QED
            BY <1>3, <1>11, <3>2 DEF Served, Top
    <2>5. Kept'
        BY <1>3, <1>11, KeptStays DEF SafeInv
    <2> QED
        BY <1>2, <2>1, <2>3, <2>4, <2>5 DEF SafeInv
<1>12. CASE /\ answer # Failed /\ most \in 0..MaxWrites /\ most >= answer
            /\ Len(push.left) = 1 /\ advance(most) /\ push' = Idle /\ most > pushed
    <2>1. /\ disk' \in {disk, log'} /\ pushed' = most
          /\ \E m \in 0..Len(log) :
                 /\ log' = SubSeq(log, m + 1, Len(log))
                 /\ \A i \in DOMAIN log : log[i].seq <= most <=> i <= m
        BY <1>2, <1>12, AdvanceParts
    <2>2. PICK m \in 0..Len(log) :
                 /\ log' = SubSeq(log, m + 1, Len(log))
                 /\ \A i \in DOMAIN log : log[i].seq <= most <=> i <= m
        BY <2>1
    <2>3. /\ Len(log') = Len(log) - m /\ Len(log) \in Nat /\ m \in Nat /\ most \in Nat
          /\ \A i \in DOMAIN log' : m + i \in DOMAIN log /\ log'[i] = log[m + i]
          /\ Top' = IF m = Len(log) THEN 0 ELSE Top
        <3>1. Len(log) \in Nat /\ m \in Nat /\ most \in Nat
            BY <1>6, <1>12, BoundsAssumption
        <3>2. Ascends(log)
            BY <1>2, Parts
        <3>3. /\ Len(log') = Len(log) - m
              /\ \A i \in DOMAIN log' : m + i \in DOMAIN log /\ log'[i] = log[m + i]
              /\ Tail_seq(log') = IF m = Len(log) THEN 0 ELSE Tail_seq(log)
            <4>1. log \in Seq(Entry) /\ m \in 0..Len(log) /\ log' = SubSeq(log, m + 1, Len(log))
                BY <1>6, <2>2
            <4>2. PICK c_1 : c_1 = log'
                OBVIOUS
            <4>3. Len(c_1) = Len(log) - m
                BY <3>2, <4>1, <4>2, EndAscends
            <4>4. \A i \in DOMAIN c_1 : m + i \in DOMAIN log /\ c_1[i] = log[m + i]
                BY <3>2, <4>1, <4>2, EndAscends
            <4>5. Tail_seq(c_1) = IF m = Len(log) THEN 0 ELSE Tail_seq(log)
                BY <3>2, <4>1, <4>2, EndAscends
            <4> QED
                BY <4>2, <4>3, <4>4, <4>5
        <3> QED
            BY <3>1, <3>3 DEF Top
    <2>4. most <= Top
        BY <1>9, <1>12
    <2>5. ASSUME NEW s, NEW a \in Nat, Served(s, a) PROVE Served(s, a)'
        <3> SUFFICES ASSUME a > most
                     PROVE  a <= Top' /\ \A i \in DOMAIN log' : log'[i].seq <= a => log'[i].no \in applied[s]
            BY <1>3, <2>1 DEF Served
        <3>1. a > pushed
            BY <1>6, <1>12, <2>3
        <3>2. a <= Top /\ \A i \in DOMAIN log : log[i].seq <= a => log[i].no \in applied[s]
            BY <2>5, <3>1 DEF Served
        <3>3. m # Len(log)
            <4> SUFFICES ASSUME m = Len(log) PROVE FALSE
                OBVIOUS
            <4>1. log # <<>>
                BY <1>2, <1>3 DEF BaseInv, Pushes
            <4>2. Top = log[Len(log)].seq /\ Len(log) \in DOMAIN log
                BY <1>6, <4>1, TailIs DEF Top
            <4>3. Top <= most
                BY <2>2, <2>3, <4>2
            <4> QED
                BY <1>6, <2>3, <3>2, <4>3
        <3> QED
            BY <2>3, <3>2, <3>3
    <2>6. ASSUME NEW b \in Seq(Entry), b # <<>>, Fits(b) PROVE Fits(b)'
        <3> SUFFICES ASSUME Tail_seq(b) > most
                     PROVE  \E k \in DOMAIN log' : k <= Len(b) /\ \A i \in 1..k : log'[i] = b[Len(b) - k + i]
            BY <2>1 DEF Fits
        <3>1. Tail_seq(b) \in Nat /\ Tail_seq(b) > pushed
            BY <1>6, <1>12, <2>3, TailIs
        <3>2. PICK k \in DOMAIN log :
                 /\ k <= Len(b) /\ \A i \in 1..k : log[i] = b[Len(b) - k + i]
                 /\ Tail_seq(b) = log[k].seq
            BY <1>2, <2>6, <3>1, FitsAt
        <3>3. k > m /\ k \in Nat /\ k <= Len(log) /\ Len(b) \in Nat
            BY <1>6, <2>2, <2>3, <3>1, <3>2, EntryParts
        <3>4. DOMAIN log' = 1..Len(log') /\ k - m \in DOMAIN log' /\ k - m <= Len(b)
            <4>1. log' \in Seq(Entry)
                BY <1>2 DEF BaseInv, TypeOK
            <4>2. DOMAIN log' = 1..Len(log')
                BY <4>1
            <4> QED
                BY <2>3, <3>2, <3>3, <4>2
        <3>5. ASSUME NEW i \in 1..(k - m) PROVE log'[i] = b[Len(b) - (k - m) + i]
            <4>1. i \in DOMAIN log' /\ m + i \in 1..k /\ i \in Nat
                BY <2>3, <3>3, <3>4
            <4>2. log[m + i] = b[Len(b) - k + (m + i)]
                BY ONLY <3>2, <4>1
            <4>3. Len(b) - k + (m + i) = Len(b) - (k - m) + i
                BY <2>3, <3>3, <4>1
            <4> QED
                BY <2>3, <4>1, <4>2, <4>3
        <3> QED
            BY <3>4, <3>5
    <2>7. \A s \in Slave : Wired(s)'
        <3> SUFFICES ASSUME NEW s \in Slave PROVE Wired(s)'
            OBVIOUS
        <3>1. Wired(s)
            BY <1>2
        <3>2. \A i \in DOMAIN Wire(s) : Wire(s)[i] \in Seq(Entry) /\ Wire(s)[i] # <<>>
            BY <1>2, Parts
        <3>3. \A i \in DOMAIN Wire(s)' : Fits(Wire(s)[i])'
            <4> SUFFICES ASSUME NEW i \in DOMAIN Wire(s) PROVE Fits(Wire(s)[i])'
                BY <1>6
            <4>1. PICK b \in Seq(Entry) : b = Wire(s)[i] /\ b # <<>>
                BY <3>2
            <4>2. Fits(b)
                BY <3>1, <4>1 DEF Wired
            <4>3. Fits(b)'
                BY <2>6, <4>1, <4>2
            <4>4. (Wire(s)[i])' = b
                BY <1>6, <4>1
            <4> QED
                BY <4>3, <4>4 DEF Fits
        <3>4. \A i \in DOMAIN answers'[s] : Served(s, answers[s][i])'
            BY <1>7, <2>5 DEF Served
        <3> QED
            BY <1>3, <1>6, <3>1, <3>3, <3>4 DEF Wired
    <2>8. Acked' /\ Calm'
        BY <1>3, <1>8, <1>12 DEF Acked, Calm, Idle
    <2>9. Kept'
        <3> SUFFICES ASSUME Trusted, NEW s \in Slaves
                     PROVE  kept \subseteq applied[s] \cup Nos(log') /\ kept \subseteq applied[s] \cup Nos(disk')
            BY <1>3, <1>6 DEF Kept
        <3>1. kept \subseteq applied[s] \cup Nos(log) /\ kept \subseteq applied[s] \cup Nos(disk)
            BY DEF SafeInv, Kept
        <3>2. Served(s, most)
            <4>1. CASE Cardinality(Slaves) = 1
                BY <1>9, <4>1
            <4>2. CASE "timeout" \notin setting.faults
                <5>1. answer = Top
                    BY <1>5, <1>12, <4>2
                <5>2. most = Top
                    BY <1>6, <1>12, <2>3, <2>4, <5>1
                <5>3. s \notin ToSet(push.left) \/ s = c
                    <6>1. push.left \in Seq(Slave)
                        BY <1>2, Parts
                    <6>2. ToSet(push.left) = {Head(push.left)}
                        BY <1>12, <6>1, OneLeft
                    <6> QED
                        BY <1>1, <6>2 DEF Callee
                <5> QED
                    BY <1>9, <1>12, <4>2, <5>2, <5>3
            <4> QED
                BY <4>1, <4>2 DEF Trusted
        <3>3. \A i \in DOMAIN log : i <= m => log[i].no \in applied[s]
            BY <1>12, <2>2, <3>2 DEF Served
        <3>4. Nos(log) \subseteq applied[s] \cup Nos(log')
            <4> SUFFICES ASSUME NEW i \in DOMAIN log, i > m PROVE log[i] \in ToSet(log')
                <5>1. \A i \in DOMAIN log : i <= m \/ i > m
                    BY <1>6, <2>3
                <5> QED
                    BY <3>3, <5>1 DEF Nos, ToSet
            <4>0. log' \in Seq(Entry)
                BY <1>2 DEF BaseInv, TypeOK
            <4>1. i \in Nat /\ i <= Len(log)
                BY <1>6
            <4>2. DOMAIN log' = 1..Len(log')
                BY <4>0
            <4>3. i - m \in DOMAIN log' /\ m + (i - m) = i
                BY <2>3, <4>1, <4>2
            <4> QED
                BY <2>3, <4>3 DEF ToSet
        <3> QED
            BY <2>1, <3>1, <3>4
    <2> QED
        BY <1>2, <2>7, <2>8, <2>9 DEF SafeInv
<1> QED
    <2>1. ASSUME most \in 0..MaxWrites, advance(most), ~(most > pushed) PROVE UNCHANGED <<log, disk, pushed>>
        <3>1. most <= pushed
            BY <1>6, <2>1, BoundsAssumption
        <3> QED
            BY <3>1, <2>1 DEF advance
    <2> QED
        BY <1>4, <1>10, <1>11, <1>12, <2>1, Zenon

LEMMA NextSafe == ASSUME SafeInv, [Next]_vars PROVE SafeInv'
<1>1. CASE UNCHANGED vars
    <2>1. UNCHANGED <<setting, log, disk, pushed, push, epoch, client, requests, answers, data, applied,
                      newest, kept, promised, writes, faults>>
        BY <1>1 DEF vars, masterVars, wireVars, slaveVars, histVars
    <2>2. BaseInv'
        BY <1>1, NextBase DEF SafeInv
    <2> QED
        BY <2>1, <2>2 DEF SafeInv, Wired, Acked, Calm, Silent, Kept, Trusted, Slaves, Fits, Served, Wire, Top, Callee
<1>2. CASE Next
    BY <1>2, RecordSafe, PushSafe, CallSafe, ReadSafe, GivesUpSafe, MasterSafe, ApplySafe, SlaveSafe DEF Next
<1> QED
    BY <1>1, <1>2

(* A write leaves the log only when every slave has applied it, whatever    *)
(* times out, fails and restarts: with one slave always, with several as    *)
(* long as no call times out (advance, push_pending).                       *)
THEOREM DropsOnlyApplied == Spec => []NothingDropped
<1>1. Spec => []SafeInv
    BY InitSafe, NextSafe, PTL DEF Spec
<1>2. SafeInv => NothingDropped
    BY DEF SafeInv, Kept, NothingDropped
<1> QED
    BY <1>1, <1>2, PTL

-----------------------------------------------------------------------------
(* Which writes the slaves hold                                            *)

Orderly == Trusted /\ InOrder

(* The slave s holds the last write of d, and no request on its way takes  *)
(* it back.                                                                *)
Current(s, d) ==
    /\ data[s][d] = newest[d]
    /\ \A k \in DOMAIN Wire(s) : \A i \in DOMAIN Wire(s)[k] :
          Wire(s)[k][i].doc = d /\ Final(Wire(s)[k], i) => Wire(s)[k][i].no = newest[d]

(* So it does of the documents whose last writes a number cuts. *)
Holds(s, a) ==
    a > pushed => \A i \in DOMAIN log : log[i].seq <= a /\ Final(log, i) => Current(s, log[i].doc)

(* Requests come in the order of the calls. *)
Queued(s) ==
    \A i, j \in DOMAIN Wire(s) :
        i < j /\ Tail_seq(Wire(s)[i]) > pushed => Tail_seq(Wire(s)[i]) <= Tail_seq(Wire(s)[j])

(* The log has the last write of each of its documents; the slaves have    *)
(* those of all others.                                                    *)
Lasts ==
    /\ \A i \in DOMAIN log : Final(log, i) => newest[log[i].doc] = log[i].no
    /\ \A s \in Slaves, d \in Doc \ Docs(log) : Current(s, d)

(* What the answers to come and the push under way stand for. *)
Stands ==
    /\ \A s \in Slaves : \A i \in DOMAIN answers[s] : Holds(s, answers[s][i])
    /\ push.at # "idle" =>
          IF "timeout" \in setting.faults THEN \A s \in Slaves : Holds(s, push.acked)
                                          ELSE \A s \in Slaves \ ToSet(push.left) : Holds(s, Top)

Order == epoch = 0 /\ Lasts /\ Stands /\ \A s \in Slaves : Queued(s)

OrderInv == SafeInv /\ (Orderly => Order)

LEMMA OneFinal ==
    ASSUME NEW b \in Seq(Entry), NEW i \in DOMAIN b, NEW j \in DOMAIN b, Final(b, i), Final(b, j),
           b[i].doc = b[j].doc
    PROVE  i = j
<1>1. i \in Nat /\ j \in Nat
    OBVIOUS
<1>2. ~(i > j) /\ ~(j > i)
    BY DEF Final
<1> QED
    BY <1>1, <1>2

(* The last write of a document in the log is its last in every request    *)
(* that has come so far.                                                   *)
LEMMA FitsFinal ==
    ASSUME BaseInv, NEW b \in Seq(Entry), b # <<>>, Fits(b), Tail_seq(b) > pushed,
           NEW i \in DOMAIN log, log[i].seq <= Tail_seq(b), Final(log, i)
    PROVE  \E p \in DOMAIN b : /\ b[p] = log[i] /\ Final(b, p)
                               /\ \A j \in DOMAIN b : Final(b, j) /\ b[j].doc = log[i].doc => j = p
<1>1. PICK k \in DOMAIN log :
              /\ k <= Len(b) /\ \A h \in 1..k : log[h] = b[Len(b) - k + h]
              /\ \A h \in DOMAIN log : log[h].seq <= Tail_seq(b) <=> h <= k
    BY FitsAt
<1>2. i <= k /\ i \in Nat /\ i >= 1 /\ k \in Nat /\ k <= Len(log) /\ Len(b) \in Nat
      /\ DOMAIN b = 1..Len(b) /\ DOMAIN log = 1..Len(log) /\ Len(log) \in Nat
    BY <1>1, Parts, EntryParts
<1> DEFINE p == Len(b) - k + i
<1>3. p \in DOMAIN b /\ b[p] = log[i]
    <2>1. i \in 1..k
        BY <1>2
    <2>2. log[i] = b[Len(b) - k + i]
        BY ONLY <1>1, <2>1
    <2> QED
        BY <1>1, <1>2, <2>2
<1>4. Final(b, p)
    <2> SUFFICES ASSUME NEW j \in DOMAIN b, j > p PROVE b[j].doc # b[p].doc
        BY DEF Final
    <2> DEFINE h == j - (Len(b) - k)
    <2>1. h \in 1..k /\ h > i /\ h \in DOMAIN log /\ Len(b) - k + h = j
        BY <1>1, <1>2
    <2>2. log[h] = b[Len(b) - k + h]
        BY ONLY <1>1, <2>1
    <2>3. log[h].doc # log[i].doc
        BY <2>1 DEF Final
    <2> QED
        BY <1>3, <2>1, <2>2, <2>3
<1>5. \A j \in DOMAIN b : Final(b, j) /\ b[j].doc = log[i].doc => j = p
    <2> HIDE DEF p
    <2> QED
        BY <1>3, <1>4, OneFinal
<1> QED
    BY <1>3, <1>4, <1>5

LEMMA CurrentStays ==
    ASSUME NEW s, NEW d, Current(s, d), newest'[d] = newest[d], data'[s][d] = data[s][d],
           \A k \in DOMAIN Wire(s)' : \E j \in DOMAIN Wire(s) : Wire(s)'[k] = Wire(s)[j]
    PROVE  Current(s, d)'
<1>1. ASSUME NEW k \in DOMAIN Wire(s)', NEW i \in DOMAIN Wire(s)'[k],
             Wire(s)'[k][i].doc = d, Final(Wire(s)'[k], i)
      PROVE  Wire(s)'[k][i].no = newest'[d]
    <2>1. PICK j \in DOMAIN Wire(s) : Wire(s)'[k] = Wire(s)[j]
        OBVIOUS
    <2> QED
        BY <1>1, <2>1 DEF Current
<1>2. data'[s][d] = newest'[d]
    BY DEF Current
<1>3. \A k \in DOMAIN Wire(s)' : \A i \in DOMAIN Wire(s)'[k] :
          Wire(s)'[k][i].doc = d /\ Final(Wire(s)'[k], i) => Wire(s)'[k][i].no = newest'[d]
    BY <1>1
<1> QED
    BY <1>2, <1>3 DEF Current, Final

LEMMA HoldsStays ==
    ASSUME BaseInv, NEW s, NEW a, Holds(s, a), UNCHANGED <<log, pushed>>,
           \A d \in Doc : Current(s, d) => Current(s, d)'
    PROVE  Holds(s, a)'
<1>1. \A i \in DOMAIN log : log[i].doc \in Doc
    BY Parts, EntryParts
<1>2. ASSUME NEW i \in DOMAIN log, Current(s, log[i].doc) PROVE Current(s, log[i].doc)'
    <2>1. PICK d \in Doc : d = log[i].doc
        BY <1>1
    <2>2. Current(s, d)'
        BY <1>2, <2>1
    <2>3. (log[i].doc)' = d
        BY <2>1
    <2> QED
        BY <2>2, <2>3 DEF Current
<1> QED
    BY <1>2 DEF Holds

LEMMA LastsStay ==
    ASSUME BaseInv, Lasts, UNCHANGED <<setting, log, newest>>,
           \A s \in Slaves, d \in Doc \ Docs(log) : Current(s, d) => Current(s, d)'
    PROVE  Lasts'
<1>1. Slaves' = Slaves /\ Docs(log') = Docs(log)
    BY DEF Slaves
<1>2. \A i \in DOMAIN log' : Final(log', i) => newest'[log'[i].doc] = log'[i].no
    BY DEF Lasts
<1>3. \A s \in Slaves, d \in Doc \ Docs(log) : Current(s, d)'
    BY DEF Lasts
<1> QED
    BY <1>1, <1>2, <1>3 DEF Lasts

LEMMA StandsStay ==
    ASSUME BaseInv, Stands, UNCHANGED <<setting, log, pushed>>,
           \A s \in Slaves, d \in Doc : Current(s, d) => Current(s, d)',
           \A s \in Slaves : \A i \in DOMAIN answers'[s] : \E j \in DOMAIN answers[s] : answers'[s][i] = answers[s][j],
           push'.at # "idle" =>
               \/ push.at # "idle" /\ push'.acked = push.acked /\ push'.left = push.left
               \/ push'.acked = 0 /\ Slaves \subseteq ToSet(push'.left)
    PROVE  Stands'
<1>1. Slaves' = Slaves /\ Top' = Top
    BY DEF Slaves, Top
<1>2. ASSUME NEW s \in Slaves, NEW a, Holds(s, a) PROVE Holds(s, a)'
    BY <1>2, HoldsStays
<1>3. ASSUME NEW s \in Slaves, NEW i \in DOMAIN answers'[s] PROVE Holds(s, answers[s][i])'
    <2>1. PICK a : a = answers'[s][i]
        OBVIOUS
    <2>2. Holds(s, a)
        BY <1>3, <2>1 DEF Stands
    <2>3. Holds(s, a)'
        BY <1>2, <2>2
    <2> QED
        BY <2>1, <2>3 DEF Holds
<1>4. CASE push.at # "idle" /\ push'.acked = push.acked /\ push'.left = push.left
    <2>1. ASSUME NEW s \in Slaves, Holds(s, push.acked) PROVE Holds(s, push.acked)'
        <3>1. PICK a : a = push.acked
            OBVIOUS
        <3>2. Holds(s, a)'
            BY <1>2, <2>1, <3>1
        <3> QED
            BY <1>4, <3>1, <3>2 DEF Holds
    <2>2. ASSUME NEW s \in Slaves, Holds(s, Top) PROVE Holds(s, Top)'
        <3>1. PICK a : a = Top
            OBVIOUS
        <3>2. Holds(s, a)'
            BY <1>2, <2>2, <3>1
        <3> QED
            BY <1>1, <3>1, <3>2 DEF Holds
    <2>3. IF "timeout" \in setting.faults THEN \A s \in Slaves : Holds(s, push.acked)
                                          ELSE \A s \in Slaves \ ToSet(push.left) : Holds(s, Top)
        BY <1>4 DEF Stands
    <2>4. CASE "timeout" \in setting.faults
        BY <1>1, <1>3, <2>1, <2>3, <2>4 DEF Stands
    <2>5. CASE "timeout" \notin setting.faults
        <3>1. \A s \in Slaves \ ToSet(push'.left) : Holds(s, Top)'
            BY <1>4, <2>2, <2>3, <2>5
        <3> QED
            BY <1>1, <1>3, <2>5, <3>1 DEF Stands
    <2> QED
        BY <2>4, <2>5
<1>5. CASE push'.acked = 0 /\ Slaves \subseteq ToSet(push'.left)
    <2>1. \A s \in Slaves : Holds(s, push.acked)'
        <3>1. ~(0 > pushed)
            BY Parts
        <3> QED
            BY <1>5, <3>1 DEF Holds
    <2>2. Slaves \ ToSet(push'.left) = {}
        BY <1>5
    <2> QED
        BY <1>1, <1>3, <2>1, <2>2 DEF Stands
<1>6. CASE push'.at = "idle"
    BY <1>1, <1>3, <1>6 DEF Stands
<1> QED
    BY <1>4, <1>5, <1>6

(* A step that leaves the log and what the slaves have and are sent. *)
LEMMA MasterStep ==
    ASSUME BaseInv, Order, UNCHANGED <<setting, log, pushed, epoch, requests, data, newest>>,
           \A s \in Slaves : \A i \in DOMAIN answers'[s] : \E j \in DOMAIN answers[s] : answers'[s][i] = answers[s][j],
           push'.at # "idle" =>
               \/ push.at # "idle" /\ push'.acked = push.acked /\ push'.left = push.left
               \/ push'.acked = 0 /\ Slaves \subseteq ToSet(push'.left)
    PROVE  Order'
<1>1. Slaves' = Slaves /\ \A s : Wire(s)' = Wire(s)
    BY DEF Slaves, Wire
<1>2. \A s \in Slaves, d \in Doc : Current(s, d) => Current(s, d)'
    BY <1>1, CurrentStays
<1>3. Lasts'
    BY <1>2, LastsStay DEF Order
<1>4. Stands'
    BY <1>2, StandsStay DEF Order
<1>5. \A s \in Slaves : Queued(s)'
    BY <1>1 DEF Order, Queued
<1> QED
    BY <1>1, <1>3, <1>4, <1>5 DEF Order

LEMMA OrderlyStays == ASSUME UNCHANGED setting PROVE Orderly' = Orderly
BY DEF Orderly, Trusted, InOrder, Slaves

LEMMA InitOrder == Init => OrderInv
<1> SUFFICES ASSUME Init PROVE OrderInv
    OBVIOUS
<1>1. SafeInv
    BY InitSafe
<1>2. \A s \in Slave : Wire(s) = <<>> /\ answers[s] = <<>>
    BY BoundsAssumption DEF Init, Wire, Epoch
<1>3. Slaves \subseteq Slave
    BY <1>1, Parts DEF SafeInv
<1>4. \A s \in Slave, d \in Doc : Current(s, d)
    BY <1>2 DEF Init, Current
<1>5. log = <<>> /\ push.at = "idle" /\ epoch = 0
    BY DEF Init, Idle
<1>6. Lasts
    BY <1>3, <1>4, <1>5 DEF Lasts
<1>7. Stands /\ \A s \in Slaves : Queued(s)
    BY <1>2, <1>3, <1>5 DEF Stands, Queued
<1> QED
    BY <1>1, <1>5, <1>6, <1>7 DEF OrderInv, Order

LEMMA PushOrder == ASSUME OrderInv, push_pending PROVE OrderInv'
<1>1. push = Idle /\ push' = Pushing(log, 0) /\ log # <<>>
      /\ UNCHANGED <<setting, log, pushed, epoch, requests, answers, data, newest>>
    BY DEF push_pending, wireVars, slaveVars, histVars
<1>2. SafeInv' /\ BaseInv
    BY PushSafe DEF OrderInv, SafeInv
<1>3. push'.at # "idle" => push'.acked = 0 /\ Slaves \subseteq ToSet(push'.left)
    BY <1>1 DEF Pushing, Idle, Slaves
<1>4. Order => Order'
    BY <1>1, <1>2, <1>3, MasterStep
<1> QED
    BY <1>1, <1>2, <1>4, OrderlyStays DEF OrderInv

LEMMA GivesUpOrder == ASSUME OrderInv, GivesUp PROVE OrderInv'
<1>1. push' = Idle /\ UNCHANGED <<setting, log, pushed, epoch, requests, answers, data, newest>>
    BY DEF GivesUp, wireVars, slaveVars, histVars
<1>2. SafeInv' /\ BaseInv
    BY GivesUpSafe DEF OrderInv, SafeInv
<1>3. Order => Order'
    BY <1>1, <1>2, MasterStep DEF Idle
<1> QED
    BY <1>1, <1>2, <1>3, OrderlyStays DEF OrderInv

LEMMA MasterOrder == ASSUME OrderInv, MasterRestarts PROVE OrderInv'
<1>1. SafeInv' /\ UNCHANGED setting
    BY MasterSafe DEF OrderInv, MasterRestarts
<1>2. ~Orderly
    BY DEF MasterRestarts, Happens, Orderly, InOrder
<1> QED
    BY <1>1, <1>2, OrderlyStays DEF OrderInv

LEMMA CallOrder == ASSUME OrderInv, call PROVE OrderInv'
<1>1. push.at = "call" /\ UNCHANGED <<setting, log, disk, pushed, epoch, answers, data, applied, newest, kept, promised, writes>>
    BY DEF call, slaveVars, histVars
<1>2. SafeInv /\ SafeInv' /\ BaseInv
    BY CallSafe DEF OrderInv, SafeInv
<1>3. PICK c \in Slave : c = Callee
    BY <1>1, <1>2, CalleeIs
<1>4. c \in Slaves /\ push.batch = log /\ log # <<>> /\ epoch \in Epoch /\ Wired(c) /\ log \in Seq(Entry)
      /\ Wire(c) \in Seq(Seq(Entry)) /\ Slaves' = Slaves /\ Slaves \subseteq Slave
    BY <1>1, <1>2, <1>3, CalleeIs, Parts DEF SafeInv, BaseInv, Pushes, Slaves
<1>5. push'.at # "idle" => push.at # "idle" /\ push'.acked = push.acked /\ push'.left = push.left
    <2>1. push' \in {Idle, [push EXCEPT !.at = "wait"]}
        BY DEF call
    <2> QED
        BY <1>1, <1>2, <2>1 DEF Idle, BaseInv, TypeOK
<1>6. CASE UNCHANGED requests
    <2>1. Order => Order'
        BY <1>1, <1>2, <1>5, <1>6, MasterStep
    <2> QED
        BY <1>1, <1>2, <2>1, OrderlyStays DEF OrderInv
<1>7. CASE requests' = [requests EXCEPT ![Callee][epoch] = Append(@, push.batch)]
    <2> SUFFICES ASSUME Order PROVE Order'
        BY <1>1, <1>2, OrderlyStays DEF OrderInv
    <2>1. requests'[c][epoch] = Append(requests[c][epoch], log) /\ \A s \in Slave \ {c} : requests'[s] = requests[s]
        BY <1>2, <1>3, <1>4, <1>7 DEF BaseInv, TypeOK
    <2>2. Wire(c)' = Append(Wire(c), log) /\ \A s \in Slave \ {c} : Wire(s)' = Wire(s)
        BY <1>1, <2>1 DEF Wire
    <2>3. DOMAIN Wire(c) = 1..Len(Wire(c)) /\ DOMAIN Wire(c)' = 1..Len(Wire(c)) + 1 /\ Len(Wire(c)) \in Nat
          /\ Wire(c)'[Len(Wire(c)) + 1] = log /\ \A i \in DOMAIN Wire(c) : Wire(c)'[i] = Wire(c)[i]
        BY <1>4, <2>2
    <2>4. ASSUME NEW s \in Slaves, NEW d \in Doc, Current(s, d) PROVE Current(s, d)'
        <3>1. CASE s # c
            BY <1>1, <1>4, <2>2, <2>4, <3>1, CurrentStays
        <3>2. CASE s = c
            <4>1. \A i \in DOMAIN log : log[i].doc = d /\ Final(log, i) => log[i].no = newest[d]
                BY DEF Order, Lasts
            <4>2. \A k \in DOMAIN Wire(c) : \A i \in DOMAIN Wire(c)[k] :
                     Wire(c)[k][i].doc = d /\ Final(Wire(c)[k], i) => Wire(c)[k][i].no = newest[d]
                BY <2>4, <3>2 DEF Current
            <4>3. ASSUME NEW k \in DOMAIN Wire(c)', NEW i \in DOMAIN Wire(c)'[k],
                         Wire(c)'[k][i].doc = d, Final(Wire(c)'[k], i)
                  PROVE  Wire(c)'[k][i].no = newest[d]
                <5>1. CASE k \in DOMAIN Wire(c)
                    <6>1. Wire(c)'[k] = Wire(c)[k]
                        BY <2>3, <5>1
                    <6> QED
                        BY <4>2, <4>3, <5>1, <6>1
                <5>2. CASE k = Len(Wire(c)) + 1
                    <6>1. Wire(c)'[k] = log
                        BY <2>3, <5>2
                    <6> QED
                        BY <4>1, <4>3, <6>1
                <5> QED
                    BY <2>3, <5>1, <5>2
            <4> QED
                BY <1>1, <2>4, <3>2, <4>3 DEF Current, Final
        <3> QED
            BY <3>1, <3>2
    <2>5. Lasts'
        BY <1>1, <1>2, <2>4, LastsStay DEF Order
    <2>6. Stands'
        BY <1>1, <1>2, <1>5, <2>4, StandsStay DEF Order
    <2>7. ASSUME NEW s \in Slaves PROVE Queued(s)'
        <3>1. CASE s # c
            BY <1>1, <1>4, <2>2, <3>1 DEF Order, Queued
        <3>2. CASE s = c
            <4> SUFFICES ASSUME NEW i \in DOMAIN Wire(c)', NEW j \in DOMAIN Wire(c)', i < j,
                                Tail_seq(Wire(c)'[i]) > pushed
                         PROVE  Tail_seq(Wire(c)'[i]) <= Tail_seq(Wire(c)'[j])
                BY <1>1, <3>2 DEF Queued
            <4>1. i \in DOMAIN Wire(c) /\ Wire(c)'[i] = Wire(c)[i]
                BY <2>3
            <4>2. CASE j \in DOMAIN Wire(c)
                <5>1. Wire(c)'[j] = Wire(c)[j] /\ Queued(c)
                    BY <1>4, <2>3, <4>2 DEF Order
                <5> QED
                    BY <4>1, <4>2, <5>1 DEF Queued
            <4>3. CASE j = Len(Wire(c)) + 1
                <5>1. Wire(c)[i] \in Seq(Entry) /\ Wire(c)[i] # <<>> /\ Fits(Wire(c)[i])
                    BY <1>2, <1>4, <4>1, Parts DEF Wired
                <5>2. Tail_seq(Wire(c)[i]) <= Top
                    BY <1>2, <4>1, <5>1, FitsServes
                <5> QED
                    BY <2>3, <4>1, <4>3, <5>2 DEF Top
            <4> QED
                BY <2>3, <4>2, <4>3
        <3> QED
            BY <3>1, <3>2
    <2> QED
        BY <1>1, <1>4, <2>5, <2>6, <2>7 DEF Order
<1> QED
    BY <1>6, <1>7 DEF call

LEMMA RecordOrder == ASSUME OrderInv, NEW d \in Doc, record(d) PROVE OrderInv'
<1> DEFINE entry == [seq |-> Tail_seq(log) + 1, doc |-> d, no |-> writes']
<1>1. /\ push = Idle /\ log' = Append(log, entry) /\ newest' = [newest EXCEPT ![d] = writes']
      /\ UNCHANGED <<setting, pushed, epoch, client, requests, answers, data, applied, promised>>
    BY DEF record, wireVars, slaveVars
<1>2. SafeInv /\ SafeInv' /\ BaseInv /\ BaseInv'
    BY RecordSafe DEF OrderInv, SafeInv
<1>3. /\ log \in Seq(Entry) /\ Top \in Nat /\ pushed \in Nat
      /\ DOMAIN log' = 1..Len(log) + 1 /\ DOMAIN log = 1..Len(log) /\ Len(log) \in Nat
      /\ log'[Len(log) + 1] = entry /\ \A i \in DOMAIN log : log'[i] = log[i]
    <2>1. log \in Seq(Entry) /\ Top \in Nat /\ pushed \in Nat
        BY <1>2, Parts
    <2> QED
        BY <1>1, <2>1
<1>4. entry.seq = Top + 1 /\ entry.no = writes' /\ entry.doc = d
    BY DEF Top
<1> HIDE DEF entry
<1>5. /\ \A e \in Doc \ {d} : newest'[e] = newest[e]
      /\ newest'[d] = writes' /\ Slaves' = Slaves /\ Slaves \subseteq Slave
    BY <1>1, <1>2, Parts DEF BaseInv, TypeOK, Slaves
<1> SUFFICES ASSUME Order PROVE Order'
    BY <1>1, <1>2, OrderlyStays DEF OrderInv
<1>6. \A s : Wire(s)' = Wire(s)
    BY <1>1 DEF Wire
<1>7. ASSUME NEW s, NEW e \in Doc \ {d}, Current(s, e) PROVE Current(s, e)'
    BY <1>1, <1>5, <1>6, <1>7, CurrentStays
(* What is last in the longer log. *)
<1>8. ASSUME NEW i \in DOMAIN log, Final(log', i) PROVE Final(log, i) /\ log[i].doc \in Doc \ {d}
    <2>1. i \in Nat /\ log[i].doc \in Doc
        BY <1>3, EntryParts
    <2>2. Len(log) + 1 \in DOMAIN log' /\ Len(log) + 1 > i
        BY <1>3, <2>1
    <2>3. log[i].doc # d
        BY <1>3, <1>4, <1>8, <2>2 DEF Final
    <2>4. \A j \in DOMAIN log : j \in DOMAIN log' /\ log'[j] = log[j]
        BY <1>3
    <2> QED
        BY <1>8, <2>1, <2>3, <2>4 DEF Final
<1>9. Lasts'
    <2>1. ASSUME NEW i \in DOMAIN log', Final(log', i) PROVE newest'[log'[i].doc] = log'[i].no
        <3>1. CASE i \in DOMAIN log
            BY <1>3, <1>5, <1>8, <2>1, <3>1 DEF Order, Lasts
        <3>2. CASE i = Len(log) + 1
            BY <1>3, <1>4, <1>5, <3>2
        <3> QED
            BY <1>3, <3>1, <3>2
    <2>2. ASSUME NEW s \in Slaves, NEW e \in Doc \ Docs(log') PROVE Current(s, e)'
        <3>1. e # d
            <4>1. Len(log) + 1 \in DOMAIN log'
                BY <1>3
            <4>2. d \in Docs(log')
                BY <1>3, <1>4, <4>1 DEF Docs
            <4> QED
                BY <4>2
        <3>2. Docs(log) \subseteq Docs(log')
            BY <1>3 DEF Docs
        <3>3. Current(s, e)
            BY <3>2 DEF Order, Lasts
        <3> QED
            BY <1>7, <3>1, <3>3
    <2> QED
        BY <1>5, <2>1, <2>2 DEF Lasts
(* Numbers that have come before stay within the log there was. *)
<1>10. ASSUME NEW s \in Slaves, NEW a \in Nat, Holds(s, a), a > pushed => a <= Top PROVE Holds(s, a)'
    <2> SUFFICES ASSUME a > pushed, NEW i \in DOMAIN log', log'[i].seq <= a, Final(log', i)
                 PROVE  Current(s, log[i].doc)'
        BY <1>1 DEF Holds
    <2>1. i # Len(log) + 1
        BY <1>3, <1>4, <1>10
    <2>2. i \in DOMAIN log /\ log'[i] = log[i]
        BY <1>3, <2>1
    <2>3. Final(log, i) /\ log[i].doc \in Doc \ {d}
        BY <1>8, <2>2
    <2>4. Current(s, log[i].doc)
        BY <1>10, <2>2, <2>3 DEF Holds
    <2>5. PICK e \in Doc \ {d} : e = log[i].doc
        BY <2>3
    <2>6. Current(s, e)'
        BY <1>7, <2>4, <2>5
    <2>7. (log[i].doc)' = e
        BY <2>2, <2>5
    <2> QED
        BY <2>6, <2>7 DEF Current
<1>11. \A s \in Slaves : \A i \in DOMAIN answers'[s] : Holds(s, answers[s][i])'
    <2> SUFFICES ASSUME NEW s \in Slaves, NEW i \in DOMAIN answers[s] PROVE Holds(s, answers[s][i])'
        BY <1>1
    <2>1. PICK a \in Nat : a = answers[s][i]
        BY <1>2, <1>5, Parts
    <2>2. Holds(s, a)
        BY <2>1 DEF Order, Stands
    <2>3. a > pushed => a <= Top
        BY <1>2, <1>5, <2>1 DEF SafeInv, Wired, Served
    <2>4. Holds(s, a)'
        BY <1>10, <2>2, <2>3
    <2> QED
        BY <1>1, <2>1, <2>4 DEF Holds
<1>12. push' = Idle \/ (push'.acked = 0 /\ push'.left = setting.slaves)
    BY <1>1 DEF record, Pushing
<1>13. Stands'
    <2>1. ~(0 > pushed)
        BY <1>3
    <2>2. \A s \in Slaves : Holds(s, push.acked)'
        BY <1>1, <1>12, <2>1 DEF Holds, Idle
    <2>3. push'.at # "idle" => Slaves \ ToSet(push'.left) = {}
        BY <1>12 DEF Idle, Slaves
    <2> QED
        BY <1>1, <1>5, <1>11, <2>2, <2>3 DEF Stands
<1>14. \A s \in Slaves : Queued(s)'
    BY <1>1, <1>6 DEF Order, Queued
<1> QED
    BY <1>1, <1>5, <1>9, <1>13, <1>14 DEF Order

LEMMA ReadOrder == ASSUME OrderInv, Read PROVE OrderInv'
<1>1. SafeInv /\ SafeInv' /\ BaseInv /\ BaseInv' /\ \A s \in Slave : Wired(s)
    BY ReadSafe DEF OrderInv, SafeInv
<1>2. PICK c \in Slave : c = Callee
    BY <1>1, ReadParts
<1>3. /\ push.at = "wait" /\ c \in Slaves
      /\ 1 \in DOMAIN answers[c] /\ Head(answers[c]) = answers[c][1]
      /\ \A s \in Slave \ {c} : answers'[s] = answers[s]
      /\ \A i \in DOMAIN answers'[c] : i + 1 \in DOMAIN answers[c] /\ answers'[c][i] = answers[c][i + 1]
      /\ UNCHANGED <<setting, epoch, client, requests, data, applied, newest, kept, writes>>
    BY <1>1, <1>2, ReadParts
<1> DEFINE answer == Head(answers[c])
           most == Max({push.acked, answer})
<1>4. \/ /\ answer = Failed /\ push' = Idle
         /\ UNCHANGED <<log, disk, pushed, promised, faults>>
      \/ /\ answer # Failed /\ most \in 0..MaxWrites
         /\ most \in {push.acked, answer} /\ most >= push.acked /\ most >= answer
         /\ \/ /\ Len(push.left) > 1
               /\ push' = [push EXCEPT !.at = "call", !.left = Tail(@), !.acked = most]
               /\ UNCHANGED <<log, disk, pushed, promised, faults>>
            \/ /\ Len(push.left) = 1
               /\ advance(most) /\ push' = Idle
    BY <1>1, <1>2, ReadCases, Zenon
<1>5. /\ answer \in Nat
      /\ "timeout" \notin setting.faults => (answer # Failed => answer = Top)
      /\ Cardinality(Slaves) = 1 => Slaves = {c}
    BY <1>1, <1>2, ReadServes
<1>6. /\ Slaves' = Slaves /\ Slaves \subseteq Slave
      /\ pushed \in Nat /\ Top \in Nat /\ push.acked \in Nat /\ log \in Seq(Entry) /\ push.left \in Seq(Slave)
      /\ \A s : Wire(s)' = Wire(s)
    BY <1>1, <1>3, Parts DEF Slaves, Wire
<1>7. most > pushed => most <= Top
    <2>1. push.acked > pushed => push.acked <= Top
        BY <1>1, <1>3 DEF SafeInv, Acked
    <2>2. answer > pushed => answer <= Top
        BY <1>1, <1>2, ReadServes DEF Served
    <2>3. most \in {push.acked, answer}
        <3>1. answer \in 0..MaxWrites /\ push.acked \in 0..MaxWrites /\ MaxWrites \in Nat
            BY <1>1, <1>2, ReadParts, BoundsAssumption DEF BaseInv, TypeOK
        <3> HIDE DEF answer
        <3> QED
            BY <3>1, MostIs
    <2> HIDE DEF answer, most
    <2> QED
        BY <2>1, <2>2, <2>3
<1> SUFFICES ASSUME Orderly, Order PROVE Order'
    BY <1>1, <1>3, OrderlyStays DEF OrderInv
<1>8. Holds(c, answer)
    BY <1>3 DEF Order, Stands
<1> HIDE DEF answer, most
<1>9. \A s \in Slaves : \A i \in DOMAIN answers'[s] : \E j \in DOMAIN answers[s] : answers'[s][i] = answers[s][j]
    BY <1>3, <1>6
<1>10. \A s \in Slaves : \A d : Current(s, d) => Current(s, d)'
    BY <1>3, <1>6, CurrentStays
(* What the push has come to know. *)
<1>11. ASSUME answer # Failed, most \in {push.acked, answer}
       PROVE  IF "timeout" \in setting.faults
              THEN \A s \in Slaves : Holds(s, most)
              ELSE \A s \in Slaves : s \notin ToSet(push.left) \/ s = c => Holds(s, Top)
    <2>1. IF "timeout" \in setting.faults THEN \A s \in Slaves : Holds(s, push.acked)
                                          ELSE \A s \in Slaves \ ToSet(push.left) : Holds(s, Top)
        BY <1>3 DEF Order, Stands
    <2>2. CASE "timeout" \in setting.faults
        <3>1. Slaves = {c}
            BY <1>5, <2>2 DEF Orderly, Trusted
        <3> QED
            BY <1>8, <1>11, <2>1, <2>2, <3>1
    <2>3. CASE "timeout" \notin setting.faults
        BY <1>5, <1>8, <1>11, <2>1, <2>3
    <2> QED
        BY <2>2, <2>3
<1>12. CASE UNCHANGED <<log, disk, pushed>> /\ push' = Idle
    BY <1>1, <1>3, <1>9, <1>12, MasterStep DEF Idle
<1>13. CASE /\ answer # Failed /\ Len(push.left) > 1 /\ most \in {push.acked, answer}
            /\ push' = [push EXCEPT !.at = "call", !.left = Tail(@), !.acked = most]
            /\ UNCHANGED <<log, disk, pushed>>
    <2>1. push'.left = Tail(push.left) /\ push'.acked = most
        BY <1>1, <1>13 DEF BaseInv, TypeOK
    <2>2. Lasts'
        BY <1>1, <1>3, <1>10, <1>13, LastsStay DEF Order
    <2>3. \A s \in Slaves : Queued(s)'
        BY <1>6, <1>13 DEF Order, Queued
    <2>4. ASSUME NEW s \in Slaves, NEW a, Holds(s, a) PROVE Holds(s, a)'
        BY <1>1, <1>10, <1>13, <2>4, HoldsStays
    <2>5. \A s \in Slaves : \A i \in DOMAIN answers'[s] : Holds(s, answers[s][i])'
        <3> SUFFICES ASSUME NEW s \in Slaves, NEW i \in DOMAIN answers'[s] PROVE Holds(s, answers[s][i])'
            OBVIOUS
        <3>1. PICK a : a = answers'[s][i]
            OBVIOUS
        <3>2. Holds(s, a)
            BY <1>9, <3>1 DEF Order, Stands
        <3>3. Holds(s, a)'
            BY <2>4, <3>2
        <3> QED
            BY <3>1, <3>3 DEF Holds
    <2>6. CASE "timeout" \in setting.faults
        <3>1. ASSUME NEW s \in Slaves PROVE Holds(s, push.acked)'
            <4>1. PICK a : a = most
                OBVIOUS
            <4>2. Holds(s, a)'
                BY <1>11, <1>13, <2>4, <2>6, <4>1
            <4> QED
                BY <2>1, <4>1, <4>2 DEF Holds
        <3> QED
            BY <1>3, <1>6, <2>2, <2>3, <2>5, <2>6, <3>1 DEF Order, Stands
    <2>7. CASE "timeout" \notin setting.faults
        <3>1. ASSUME NEW s \in Slaves \ ToSet(push'.left) PROVE Holds(s, Top)'
            <4>1. s \notin ToSet(push.left) \/ s = c
                <5>1. push.left # <<>>
                    BY <1>1, <1>3 DEF BaseInv, Pushes
                <5> QED
                    BY <1>2, <1>6, <2>1, <5>1, LeftLoses DEF Callee
            <4>2. PICK a : a = Top
                OBVIOUS
            <4>3. Holds(s, a)'
                BY <1>11, <1>13, <2>4, <2>7, <4>1, <4>2
            <4> QED
                BY <1>13, <4>2, <4>3 DEF Holds, Top
        <3> QED
            BY <1>3, <1>6, <2>2, <2>3, <2>5, <2>7, <3>1 DEF Order, Stands
    <2> QED
        BY <2>6, <2>7
<1>14. CASE /\ answer # Failed /\ most \in 0..MaxWrites /\ most \in {push.acked, answer} /\ most >= answer
            /\ Len(push.left) = 1 /\ advance(most) /\ push' = Idle /\ most > pushed
    <2>1. /\ pushed' = most
          /\ \E m \in 0..Len(log) :
                 /\ log' = SubSeq(log, m + 1, Len(log))
                 /\ \A i \in DOMAIN log : log[i].seq <= most <=> i <= m
        BY <1>1, <1>14, AdvanceParts
    <2>2. PICK m \in 0..Len(log) :
                 /\ log' = SubSeq(log, m + 1, Len(log))
                 /\ \A i \in DOMAIN log : log[i].seq <= most <=> i <= m
        BY <2>1
    <2>3. /\ Len(log) \in Nat /\ m \in Nat /\ most \in Nat
          /\ \A i \in DOMAIN log' : m + i \in DOMAIN log /\ log'[i] = log[m + i]
          /\ DOMAIN log' = 1..Len(log) - m /\ DOMAIN log = 1..Len(log)
        BY <1>6, <1>14, <2>2, BoundsAssumption
    <2>4. \A i \in DOMAIN log : i > m => i - m \in DOMAIN log' /\ log'[i - m] = log[i]
        <3> SUFFICES ASSUME NEW i \in DOMAIN log, i > m PROVE i - m \in DOMAIN log' /\ log'[i - m] = log[i]
            OBVIOUS
        <3>1. i \in Nat /\ i - m \in DOMAIN log' /\ m + (i - m) = i
            BY <2>3
        <3> QED
            BY <2>3, <3>1
    <2>5. ASSUME NEW i \in DOMAIN log', Final(log', i) PROVE Final(log, m + i)
        <3> SUFFICES ASSUME NEW j \in DOMAIN log, j > m + i PROVE log[j].doc # log[m + i].doc
            BY DEF Final
        <3>1. i \in Nat /\ j \in Nat /\ i >= 1
            BY <2>3
        <3>2. j - m \in DOMAIN log' /\ log'[j - m] = log[j] /\ j - m > i
            BY <2>3, <2>4, <3>1
        <3> QED
            BY <2>3, <2>5, <3>2 DEF Final
    <2>6. \A s \in Slaves : Holds(s, most)
        <3>1. CASE "timeout" \in setting.faults
            BY <1>11, <1>14, <3>1
        <3>2. CASE "timeout" \notin setting.faults
            <4>1. most = Top
                BY <1>5, <1>6, <1>7, <1>14, <2>3, <3>2
            <4>2. ToSet(push.left) = {Head(push.left)}
                BY <1>6, <1>14, OneLeft
            <4> QED
                BY <1>2, <1>11, <1>14, <3>2, <4>1, <4>2 DEF Callee
        <3> QED
            BY <3>1, <3>2
    <2>7. Lasts'
        <3>1. \A i \in DOMAIN log' : Final(log', i) => newest'[log'[i].doc] = log'[i].no
            BY <1>3, <2>3, <2>5 DEF Order, Lasts
        <3>2. ASSUME NEW s \in Slaves, NEW d \in Doc \ Docs(log') PROVE Current(s, d)'
            <4>1. CASE d \in Docs(log)
                <5>1. PICK i \in DOMAIN log : log[i].doc = d /\ Final(log, i)
                    BY <1>6, <4>1, LastOfDoc
                <5>2. ~(i > m)
                    BY <2>4, <3>2, <5>1 DEF Docs
                <5>3. log[i].seq <= most
                    BY <2>2, <2>3, <5>2
                <5>4. Current(s, d)
                    BY <1>14, <2>6, <5>1, <5>3 DEF Holds
                <5> QED
                    BY <1>10, <5>4
            <4>2. CASE d \notin Docs(log)
                BY <1>10, <4>2 DEF Order, Lasts
            <4> QED
                BY <4>1, <4>2
        <3> QED
            BY <1>6, <3>1, <3>2 DEF Lasts
    <2>8. ASSUME NEW s \in Slaves, NEW a \in Nat, Holds(s, a) PROVE Holds(s, a)'
        <3> SUFFICES ASSUME a > most, NEW i \in DOMAIN log', log'[i].seq <= a, Final(log', i)
                     PROVE  Current(s, log[i].doc)'
            BY <2>1 DEF Holds
        <3>1. m + i \in DOMAIN log /\ log'[i] = log[m + i] /\ Final(log, m + i)
            BY <2>3, <2>5
        <3>2. a > pushed
            BY <1>6, <1>14, <2>3
        <3>3. Current(s, log[m + i].doc)
            BY <2>8, <3>1, <3>2 DEF Holds
        <3>4. PICK d : d = log[m + i].doc
            OBVIOUS
        <3>5. Current(s, d)'
            BY <1>10, <3>3, <3>4
        <3>6. (log[i].doc)' = d
            BY <3>1, <3>4
        <3> QED
            BY <3>5, <3>6 DEF Current
    <2>9. Stands'
        <3>1. \A s \in Slaves : \A i \in DOMAIN answers'[s] : Holds(s, answers[s][i])'
            <4> SUFFICES ASSUME NEW s \in Slaves, NEW i \in DOMAIN answers'[s] PROVE Holds(s, answers[s][i])'
                OBVIOUS
            <4>1. PICK a : a = answers'[s][i]
                OBVIOUS
            <4>2. Holds(s, a) /\ a \in Nat
                BY <1>1, <1>6, <1>9, <4>1, Parts DEF Order, Stands
            <4>3. Holds(s, a)'
                BY <2>8, <4>2
            <4> QED
                BY <4>1, <4>3 DEF Holds
        <3> QED
            BY <1>6, <1>14, <3>1 DEF Stands, Idle
    <2>10. \A s \in Slaves : Queued(s)'
        <3> SUFFICES ASSUME NEW s \in Slaves, NEW i \in DOMAIN Wire(s), NEW j \in DOMAIN Wire(s), i < j,
                            Tail_seq(Wire(s)[i]) > most
                     PROVE  Tail_seq(Wire(s)[i]) <= Tail_seq(Wire(s)[j])
            BY <1>6, <2>1 DEF Queued
        <3>1. Tail_seq(Wire(s)[i]) \in Nat
            BY <1>1, <1>6, Parts, TailIs
        <3>2. Tail_seq(Wire(s)[i]) > pushed
            BY <1>6, <1>14, <2>3, <3>1
        <3> QED
            BY <3>2 DEF Order, Queued
    <2> QED
        BY <1>3, <1>6, <2>7, <2>9, <2>10 DEF Order
<1> QED
    <2>1. ASSUME most \in 0..MaxWrites, advance(most), ~(most > pushed) PROVE UNCHANGED <<log, disk, pushed>>
        <3>1. most <= pushed
            BY <1>6, <2>1, BoundsAssumption
        <3> QED
            BY <3>1, <2>1 DEF advance
    <2> QED
        BY <1>4, <1>12, <1>13, <1>14, <2>1, Zenon

(* A request applied to its end: what was current stays so, and what its   *)
(* number cuts becomes so.                                                 *)
LEMMA WholeBatch ==
    ASSUME SafeInv, NEW s \in Slave, Queued(s), NEW b \in Seq(Entry), Does(s, b), Wire(s) # <<>>, b = Wire(s)[1],
           \A i \in DOMAIN log : Final(log, i) => newest[log[i].doc] = log[i].no,
           UNCHANGED newest, Wire(s)' = Tail(Wire(s))
    PROVE  /\ \A d \in Doc : Current(s, d) => Current(s, d)'
           /\ Tail_seq(b) > pushed =>
                 \A i \in DOMAIN log : log[i].seq <= Tail_seq(b) /\ Final(log, i) =>
                     \A d \in Doc : d = log[i].doc => Current(s, d)'
<1>1. BaseInv /\ Wired(s) /\ TypeOK
    BY DEF SafeInv, BaseInv
<1>2. Wire(s) \in Seq(Seq(Entry)) /\ b # <<>> /\ 1 \in DOMAIN Wire(s)
      /\ \A k \in DOMAIN Wire(s) : Wire(s)[k] \in Seq(Entry) /\ Wire(s)[k] # <<>> /\ Fits(Wire(s)[k])
    <2>1. Wire(s) \in Seq(Seq(Entry)) /\ \A k \in DOMAIN Wire(s) : Wire(s)[k] \in Seq(Entry) /\ Wire(s)[k] # <<>>
        BY <1>1, Parts
    <2>2. 1 \in DOMAIN Wire(s)
        BY <2>1, TailOf
    <2> QED
        BY <1>1, <2>1, <2>2 DEF Wired
<1>3. \A k \in DOMAIN Wire(s)' : k \in Nat /\ k >= 1 /\ k + 1 \in DOMAIN Wire(s) /\ Wire(s)'[k] = Wire(s)[k + 1]
    <2>1. Tail(Wire(s)) \in Seq(Seq(Entry))
        BY <1>2, TailOf
    <2>2. \A k \in DOMAIN Tail(Wire(s)) : k \in Nat /\ k >= 1
        BY <2>1
    <2> QED
        BY <1>2, <2>2, TailOf
<1>4. data'[s] = Applied(data[s], b) /\ data[s] \in [Doc -> 0..MaxWrites]
    BY <1>1, DoesBase DEF TypeOK
<1>5. /\ \A d \in Doc \ Docs(b) : data'[s][d] = data[s][d]
      /\ \A i \in DOMAIN b : Final(b, i) => data'[s][b[i].doc] = b[i].no
    BY <1>4, AppliedIs
<1>6. ASSUME NEW d \in Doc, Current(s, d) PROVE Current(s, d)'
    <2>1. data'[s][d] = newest[d]
        <3>1. CASE d \in Docs(b)
            <4>1. PICK i \in DOMAIN b : b[i].doc = d /\ Final(b, i)
                BY <3>1, LastOfDoc
            <4>2. b[i].no = newest[d]
                BY <1>2, <1>6, <4>1 DEF Current
            <4> QED
                BY <1>5, <4>1, <4>2
        <3>2. CASE d \notin Docs(b)
            BY <1>5, <1>6, <3>2 DEF Current
        <3> QED
            BY <3>1, <3>2
    <2>2. ASSUME NEW k \in DOMAIN Wire(s)', NEW i \in DOMAIN Wire(s)'[k],
                 Wire(s)'[k][i].doc = d, Final(Wire(s)'[k], i)
          PROVE  Wire(s)'[k][i].no = newest[d]
        BY <1>3, <1>6, <2>2 DEF Current
    <2> QED
        BY <2>1, <2>2 DEF Current, Final
<1>7. ASSUME Tail_seq(b) > pushed, NEW i \in DOMAIN log, log[i].seq <= Tail_seq(b), Final(log, i),
             NEW d \in Doc, d = log[i].doc
      PROVE  Current(s, d)'
    <2>1. log[i].no = newest[d] /\ log[i].seq \in Nat /\ pushed \in Nat
        BY <1>1, <1>7, Parts, EntryParts
    <2>2. data'[s][d] = newest[d]
        <3>1. PICK p \in DOMAIN b : b[p] = log[i] /\ Final(b, p)
            BY <1>1, <1>2, <1>7, FitsFinal
        <3> QED
            BY <1>5, <1>7, <2>1, <3>1
    <2>3. ASSUME NEW k \in DOMAIN Wire(s)', NEW j \in DOMAIN Wire(s)'[k],
                 Wire(s)'[k][j].doc = d, Final(Wire(s)'[k], j)
          PROVE  Wire(s)'[k][j].no = newest[d]
        <3> DEFINE w == Wire(s)[k + 1]
        <3>1. k + 1 \in DOMAIN Wire(s) /\ 1 < k + 1 /\ Wire(s)'[k] = w
            BY <1>3
        <3>2. w \in Seq(Entry) /\ w # <<>> /\ Fits(w)
            BY <1>2, <3>1
        <3>3. Tail_seq(b) <= Tail_seq(w)
            BY <1>2, <1>7, <3>1 DEF Queued
        <3> HIDE DEF w
        <3>4. Tail_seq(w) \in Nat /\ Tail_seq(b) \in Nat
            BY <3>2, TailIs
        <3>5. Tail_seq(w) > pushed /\ log[i].seq <= Tail_seq(w)
            BY <1>7, <2>1, <3>3, <3>4
        <3>6. PICK p \in DOMAIN w :
                 /\ w[p] = log[i]
                 /\ \A h \in DOMAIN w : Final(w, h) /\ w[h].doc = log[i].doc => h = p
            BY <1>1, <1>7, <3>2, <3>5, FitsFinal
        <3>7. j = p
            BY <1>7, <2>3, <3>1, <3>6
        <3> QED
            BY <2>1, <3>1, <3>6, <3>7
    <2> QED
        BY <2>2, <2>3 DEF Current, Final
<1> QED
    BY <1>6, <1>7

(* A request applied in part, when it is the log itself and the only one:  *)
(* the documents that are not in the log stay current.                     *)
LEMMA PartOfBatch ==
    ASSUME SafeInv, NEW s \in Slave, NEW n \in 0..Len(log), Does(s, SubSeq(log, 1, n)),
           UNCHANGED newest, Wire(s)' = <<>>, NEW d \in Doc \ Docs(log), Current(s, d)
    PROVE  Current(s, d)'
<1>1. log \in Seq(Entry) /\ TypeOK /\ data[s] \in [Doc -> 0..MaxWrites]
    BY Parts DEF SafeInv, BaseInv, TypeOK
<1> DEFINE b == SubSeq(log, 1, n)
<1>2. b \in Seq(Entry) /\ \A i \in DOMAIN b : i \in DOMAIN log /\ b[i] = log[i]
    BY <1>1
<1>3. d \notin Docs(b)
    BY <1>2 DEF Docs
<1> HIDE DEF b
<1>4. data'[s] = Applied(data[s], b)
    BY <1>1, <1>2, DoesBase DEF b
<1>5. data'[s][d] = data[s][d]
    BY <1>1, <1>2, <1>3, <1>4, AppliedIs
<1> QED
    BY <1>5 DEF Current

(* What another slave does is nothing to s. *)
LEMMA OthersCurrent ==
    ASSUME TypeOK, NEW t \in Slave, NEW b \in Seq(Entry), Does(t, b), NEW s \in Slave \ {t}, Wire(s)' = Wire(s),
           UNCHANGED newest, NEW d \in Doc, Current(s, d)
    PROVE  Current(s, d)'
<1>1. data'[s] = data[s]
    BY DoesBase
<1> QED
    BY <1>1, CurrentStays

LEMMA AppendOne ==
    ASSUME NEW S, NEW q \in Seq(S), NEW x, NEW y, Append(q, x) = Append(q, y)
    PROVE  x = y
<1>1. Append(q, x)[Len(q) + 1] = x /\ Append(q, y)[Len(q) + 1] = y
    OBVIOUS
<1> QED
    BY <1>1

(* A step of the slave s. *)
LEMMA SlaveOrdered ==
    ASSUME BaseInv, Order, NEW s \in Slave,
           UNCHANGED <<setting, log, pushed, push, epoch, newest>>,
           \A t \in Slave \ {s} : Wire(t)' = Wire(t) /\ answers'[t] = answers[t],
           \A t \in Slaves \ {s}, d \in Doc : Current(t, d) => Current(t, d)',
           s \in Slaves =>
               /\ \A d \in Doc \ Docs(log) : Current(s, d)'
               /\ Queued(s)'
               /\ \A i \in DOMAIN answers'[s] : \E a : a = answers'[s][i] /\ Holds(s, a)'
               /\ \/ \A d \in Doc : Current(s, d) => Current(s, d)'
                  \/ "timeout" \notin setting.faults /\ s \in ToSet(push.left)
    PROVE  Order'
<1>1. Slaves' = Slaves /\ Slaves \subseteq Slave /\ Docs(log') = Docs(log) /\ Top' = Top
    BY Parts DEF Slaves, Top
<1>2. Lasts'
    <2>1. \A i \in DOMAIN log' : Final(log', i) => newest'[log'[i].doc] = log'[i].no
        BY DEF Order, Lasts
    <2>2. \A t \in Slaves, d \in Doc \ Docs(log) : Current(t, d)'
        <3> TAKE t \in Slaves, d \in Doc \ Docs(log)
        <3>1. CASE t = s
            BY <3>1
        <3>2. CASE t # s
            BY <3>2 DEF Order, Lasts
        <3> QED
            BY <3>1, <3>2
    <2> QED
        BY <1>1, <2>1, <2>2 DEF Lasts
<1>3. ASSUME NEW t \in Slaves, \A d \in Doc : Current(t, d) => Current(t, d)', NEW a, Holds(t, a) PROVE Holds(t, a)'
    BY <1>3, HoldsStays
<1>4. ASSUME NEW t \in Slaves, NEW i \in DOMAIN answers'[t] PROVE Holds(t, answers[t][i])'
    <2>1. PICK a : a = answers'[t][i] /\ (Holds(t, a) \/ Holds(t, a)') /\ (t = s => Holds(t, a)')
        <3>1. CASE t = s
            BY <1>4, <3>1
        <3>2. CASE t # s
            BY <1>1, <1>4, <3>2 DEF Order, Stands
        <3> QED
            BY <3>1, <3>2
    <2>2. Holds(t, a)'
        BY <1>3, <2>1
    <2> QED
        BY <2>1, <2>2 DEF Holds
<1>5. ASSUME push.at # "idle"
      PROVE  IF "timeout" \in setting.faults THEN \A t \in Slaves : Holds(t, push.acked)'
                                             ELSE \A t \in Slaves \ ToSet(push.left) : Holds(t, Top)'
    <2>1. IF "timeout" \in setting.faults THEN \A t \in Slaves : Holds(t, push.acked)
                                          ELSE \A t \in Slaves \ ToSet(push.left) : Holds(t, Top)
        BY <1>5 DEF Order, Stands
    <2>2. ASSUME NEW t \in Slaves, "timeout" \in setting.faults \/ t \notin ToSet(push.left)
          PROVE  \A d \in Doc : Current(t, d) => Current(t, d)'
        BY <2>2
    <2>3. ASSUME "timeout" \in setting.faults, NEW t \in Slaves PROVE Holds(t, push.acked)'
        <3>1. PICK a : a = push.acked
            OBVIOUS
        <3>2. Holds(t, a)'
            BY <1>3, <2>1, <2>2, <2>3, <3>1
        <3> QED
            BY <3>1, <3>2 DEF Holds
    <2>4. ASSUME "timeout" \notin setting.faults, NEW t \in Slaves \ ToSet(push.left) PROVE Holds(t, Top)'
        <3>1. PICK a : a = Top
            OBVIOUS
        <3>2. Holds(t, a)'
            BY <1>3, <2>1, <2>2, <2>4, <3>1
        <3> QED
            BY <1>1, <3>1, <3>2 DEF Holds
    <2> QED
        BY <2>3, <2>4
<1>6. Stands'
    BY <1>1, <1>4, <1>5 DEF Stands
<1>7. \A t \in Slaves : Queued(t)'
    <2> TAKE t \in Slaves
    <2>1. CASE t = s
        BY <2>1
    <2>2. CASE t # s
        BY <1>1, <2>2 DEF Order, Queued
    <2> QED
        BY <2>1, <2>2
<1> QED
    BY <1>1, <1>2, <1>6, <1>7 DEF Order

LEMMA ApplyOrder == ASSUME OrderInv, NEW s \in Slave, NEW e \in Epoch, apply(s, e) PROVE OrderInv'
<1>1. requests' = [requests EXCEPT ![s][e] = Tail(@)] /\ requests[s][e] # <<>>
      /\ UNCHANGED <<setting, log, disk, pushed, push, epoch, client, newest, kept, promised, writes>>
    BY DEF apply, masterVars, histVars
<1>2. SafeInv /\ SafeInv' /\ BaseInv /\ TypeOK /\ Wired(s)
    BY ApplySafe DEF OrderInv, SafeInv, BaseInv
<1> SUFFICES ASSUME Orderly, Order PROVE Order'
    BY <1>1, <1>2, OrderlyStays DEF OrderInv
<1>3. e = epoch
    <2>1. epoch = 0 /\ e \in Nat
        BY BoundsAssumption DEF Order, Epoch
    <2>2. ~(e > epoch)
        BY <1>1, <1>2 DEF BaseInv, Pushes
    <2> QED
        BY <2>1, <2>2
<1> DEFINE b == Head(requests[s][e])
<1>4. b \in Seq(Entry) /\ b # <<>> /\ b = requests[s][e][1] /\ 1 \in DOMAIN requests[s][e]
      /\ \/ Does(s, b) /\ Answer(s, e, Tail_seq(b))
         \/ \E n \in 0..Len(b) - 1 : /\ SubSeq(b, 1, n) \in Seq(Entry)
                                     /\ Does(s, SubSeq(b, 1, n)) /\ Answer(s, e, Failed) /\ Happens("apply")
    BY <1>2, ApplyParts, Zenon
<1> HIDE DEF b
<1>5. requests \in [Slave -> [Epoch -> Seq(Seq(Entry))]] /\ answers \in [Slave -> Seq(Write \cup {Failed})]
      /\ pushed \in Nat
    BY <1>2, Parts DEF TypeOK
<1>6. requests'[s][epoch] = Tail(requests[s][epoch]) /\ \A t \in Slave \ {s} : requests'[t] = requests[t]
    BY <1>1, <1>3, <1>5
<1>7. /\ Wire(s)' = Tail(Wire(s)) /\ Wire(s) # <<>> /\ b = Wire(s)[1] /\ Wire(s) \in Seq(Seq(Entry))
      /\ \A t \in Slave \ {s} : Wire(t)' = Wire(t)
    <2>1. Wire(s) \in Seq(Seq(Entry))
        BY <1>2, Parts
    <2> QED
        BY <1>1, <1>3, <1>4, <1>6, <2>1 DEF Wire
<1>8. PICK a : answers' = [answers EXCEPT ![s] = Append(@, a)] /\ ((a = Tail_seq(b) /\ Does(s, b)) \/ a = Failed)
    BY <1>3, <1>4 DEF Answer
<1>9. answers'[s] = Append(answers[s], a) /\ answers[s] \in Seq(Write \cup {Failed})
      /\ \A t \in Slave \ {s} : answers'[t] = answers[t]
    BY <1>5, <1>8
<1>10. ASSUME NEW t \in Slave \ {s}, NEW d \in Doc, Current(t, d) PROVE Current(t, d)'
    <2>1. PICK c \in Seq(Entry) : Does(s, c)
        BY <1>4
    <2> QED
        BY <1>1, <1>2, <1>7, <1>10, <2>1, OthersCurrent
<1>11. CASE s \notin Slaves
    <2>1. \A t \in Slaves \ {s} : t \in Slave \ {s}
        BY <1>2, Parts
    <2> QED
        BY <1>1, <1>2, <1>7, <1>9, <1>10, <1>11, <2>1, SlaveOrdered
<1>12. CASE s \in Slaves /\ Does(s, b) /\ a = Tail_seq(b)
    <2>1. Queued(s) /\ \A i \in DOMAIN log : Final(log, i) => newest[log[i].doc] = log[i].no
        BY <1>12 DEF Order, Lasts
    <2>2. /\ \A d \in Doc : Current(s, d) => Current(s, d)'
          /\ Tail_seq(b) > pushed =>
                \A i \in DOMAIN log : log[i].seq <= Tail_seq(b) /\ Final(log, i) =>
                     \A d \in Doc : d = log[i].doc => Current(s, d)'
        BY <1>1, <1>2, <1>4, <1>7, <1>12, <2>1, WholeBatch
    <2>3. \A d \in Doc \ Docs(log) : Current(s, d)'
        BY <1>12, <2>2 DEF Order, Lasts
    <2>4. Queued(s)'
        <3>1. \A i \in DOMAIN Tail(Wire(s)) : i \in Nat /\ i + 1 \in DOMAIN Wire(s) /\ Tail(Wire(s))[i] = Wire(s)[i + 1]
            <4>1. Tail(Wire(s)) \in Seq(Seq(Entry))
                BY <1>7, TailOf
            <4>2. \A i \in DOMAIN Tail(Wire(s)) : i \in Nat
                BY <4>1
            <4> QED
                BY <1>7, <4>2, TailOf
        <3> SUFFICES ASSUME NEW i \in DOMAIN Tail(Wire(s)), NEW j \in DOMAIN Tail(Wire(s)), i < j,
                            Tail_seq(Tail(Wire(s))[i]) > pushed
                     PROVE  Tail_seq(Tail(Wire(s))[i]) <= Tail_seq(Tail(Wire(s))[j])
            BY <1>1, <1>7 DEF Queued
        <3>2. i + 1 < j + 1
            BY <3>1
        <3> QED
            BY <2>1, <3>1, <3>2 DEF Queued
    <2>5. Holds(s, a)'
        <3> SUFFICES ASSUME a > pushed, NEW i \in DOMAIN log, log[i].seq <= a, Final(log, i)
                     PROVE  Current(s, log[i].doc)'
            BY <1>1 DEF Holds
        <3>1. PICK d \in Doc : d = log[i].doc
            BY <1>2, Parts, EntryParts
        <3>2. Current(s, d)'
            BY <1>12, <2>2, <3>1
        <3>3. (log[i].doc)' = d
            BY <1>1, <3>1
        <3> QED
            BY <3>2, <3>3 DEF Current
    <2>6. ASSUME NEW i \in DOMAIN answers'[s] PROVE \E x : x = answers'[s][i] /\ Holds(s, x)'
        <3>1. CASE i \in DOMAIN answers[s]
            <4>1. PICK x : x = answers[s][i]
                OBVIOUS
            <4>2. answers'[s][i] = x
                BY <1>9, <3>1, <4>1
            <4>3. Holds(s, x)
                BY <1>12, <3>1, <4>1 DEF Order, Stands
            <4>4. Holds(s, x)'
                BY <1>1, <1>2, <2>2, <4>3, HoldsStays
            <4> QED
                BY <4>2, <4>4
        <3>2. CASE i \notin DOMAIN answers[s]
            <4>1. answers'[s][i] = a
                BY <1>9, <3>2
            <4> QED
                BY <2>5, <4>1
        <3> QED
            BY <3>1, <3>2
    <2>7. \A t \in Slaves \ {s} : t \in Slave \ {s}
        BY <1>2, Parts
    <2> QED
        BY <1>1, <1>2, <1>7, <1>9, <1>10, <2>2, <2>3, <2>4, <2>6, <2>7, SlaveOrdered
<1>13. CASE s \in Slaves /\ \E n \in 0..Len(b) - 1 : /\ SubSeq(b, 1, n) \in Seq(Entry)
                                     /\ Does(s, SubSeq(b, 1, n)) /\ Answer(s, e, Failed) /\ Happens("apply")
    <2>1. "timeout" \notin setting.faults
        BY <1>13 DEF Happens, Orderly, InOrder
    <2>2. push.at = "wait" /\ s = Callee /\ answers[s] = <<>> /\ Wire(s) = <<log>>
        BY <1>2, <1>7, <2>1 DEF SafeInv, Calm, Silent
    <2>3. b = log /\ Wire(s)' = <<>>
        BY <1>7, <2>2
    <2>4. PICK n \in 0..Len(log) : Does(s, SubSeq(log, 1, n))
        <3>1. Len(log) \in Nat
            BY <1>2, Parts
        <3> QED
            BY <1>13, <2>3, <3>1
    <2>5. \A d \in Doc \ Docs(log) : Current(s, d)'
        BY <1>1, <1>2, <1>13, <2>3, <2>4, PartOfBatch DEF Order, Lasts
    <2>6. answers'[s] = <<Failed>>
        <3>1. Answer(s, e, Failed)
            BY <1>13
        <3>2. answers' = [answers EXCEPT ![s] = Append(@, Failed)]
            BY <1>3, <3>1 DEF Answer
        <3> QED
            BY <1>5, <2>2, <3>2
    <2>7. ASSUME NEW i \in DOMAIN answers'[s] PROVE \E x : x = answers'[s][i] /\ Holds(s, x)'
        <3>1. answers'[s][i] = Failed /\ ~(Failed > pushed)
            BY <1>5, <2>6 DEF Failed
        <3>2. PICK x : x = Failed
            OBVIOUS
        <3>3. Holds(s, x)'
            BY <1>1, <3>1, <3>2 DEF Holds
        <3> QED
            BY <3>1, <3>2, <3>3
    <2>8. Queued(s)'
        BY <2>3 DEF Queued
    <2>9. s \in ToSet(push.left)
        BY <1>2, <2>2, CalleeIs
    <2>10. \A t \in Slaves \ {s} : t \in Slave \ {s}
        BY <1>2, Parts
    <2> QED
        BY <1>1, <1>2, <1>7, <1>9, <1>10, <2>1, <2>5, <2>7, <2>8, <2>9, <2>10, SlaveOrdered
<1> QED
    <2>1. Does(s, b) /\ Answer(s, e, Tail_seq(b)) /\ s \in Slaves => Order'
        <3> SUFFICES ASSUME Does(s, b), Answer(s, e, Tail_seq(b)), s \in Slaves PROVE Order'
            OBVIOUS
        <3>1. answers' = [answers EXCEPT ![s] = Append(@, Tail_seq(b))]
            BY <1>3 DEF Answer
        <3>2. answers'[s] = Append(answers[s], Tail_seq(b))
            BY <1>5, <3>1
        <3>3. a = Tail_seq(b)
            <4>1. Append(answers[s], a) = Append(answers[s], Tail_seq(b))
                BY <1>9, <3>2
            <4> QED
                BY <1>9, <4>1, AppendOne
        <3> QED
            BY <1>12, <3>3
    <2> QED
        BY <1>4, <1>11, <1>13, <2>1

LEMMA SlaveOrder == ASSUME OrderInv, NEW s \in Slave, SlaveRestarts(s) PROVE OrderInv'
<1>1. SafeInv /\ SafeInv' /\ BaseInv /\ TypeOK /\ Wired(s)
    BY SlaveSafe DEF OrderInv, SafeInv, BaseInv
<1>2. /\ Happens("slave")
      /\ UNCHANGED <<setting, log, disk, pushed, push, epoch, answers, newest, kept, promised, writes>>
      /\ \A t \in Slave \ {s} : client'[t] = client[t] /\ requests'[t] = requests[t]
      /\ \A e \in Epoch : requests'[s][e] = <<>>
      /\ \/ UNCHANGED <<data, applied>>
         \/ \E e \in Epoch : \E n \in DOMAIN Head(requests[s][e]) :
               /\ requests[s][e] # <<>> /\ Head(requests[s][e]) \in Seq(Entry)
               /\ SubSeq(Head(requests[s][e]), 1, n) \in Seq(Entry)
               /\ Does(s, SubSeq(Head(requests[s][e]), 1, n))
    BY <1>1, SlaveParts
<1> SUFFICES ASSUME Orderly, Order PROVE Order'
    BY <1>1, <1>2, OrderlyStays DEF OrderInv
<1>3. "timeout" \notin setting.faults
    BY <1>2 DEF Happens, Orderly, InOrder
<1>4. Wire(s)' = <<>> /\ (\A t \in Slave \ {s} : Wire(t)' = Wire(t)) /\ \A t \in Slaves : t \in Slave
    BY <1>1, <1>2, Parts DEF Wire
<1>5. Queued(s)'
    BY <1>4 DEF Queued
<1>6. CASE UNCHANGED <<data, applied>>
    <2>1. \A t \in Slave : \A d : Current(t, d) => Current(t, d)'
        <3> SUFFICES ASSUME NEW t \in Slave, NEW d, Current(t, d) PROVE Current(t, d)'
            OBVIOUS
        <3>1. CASE t = s
            BY <1>2, <1>4, <1>6, <3>1, CurrentStays
        <3>2. CASE t # s
            BY <1>2, <1>4, <1>6, <3>2, CurrentStays
        <3> QED
            BY <3>1, <3>2
    <2>2. ASSUME s \in Slaves, NEW i \in DOMAIN answers'[s] PROVE \E a : a = answers'[s][i] /\ Holds(s, a)'
        <3>1. PICK a : a = answers[s][i]
            OBVIOUS
        <3>2. Holds(s, a)
            BY <1>2, <2>2, <3>1 DEF Order, Stands
        <3>3. Holds(s, a)'
            BY <1>1, <1>2, <2>1, <3>2, HoldsStays
        <3> QED
            BY <1>2, <3>1, <3>3
    <2>3. s \in Slaves => \A d \in Doc \ Docs(log) : Current(s, d)'
        BY <2>1 DEF Order, Lasts
    <2> QED
        BY <1>1, <1>2, <1>4, <1>5, <2>1, <2>2, <2>3, SlaveOrdered
<1>7. CASE ~UNCHANGED <<data, applied>>
    <2>1. PICK e \in Epoch : requests[s][e] # <<>> /\ Head(requests[s][e]) \in Seq(Entry)
             /\ \E n \in DOMAIN Head(requests[s][e]) :
                   /\ SubSeq(Head(requests[s][e]), 1, n) \in Seq(Entry)
                   /\ Does(s, SubSeq(Head(requests[s][e]), 1, n))
        BY <1>2, <1>7
    <2>2. e = epoch
        <3>1. epoch = 0 /\ e \in Nat
            BY BoundsAssumption DEF Order, Epoch
        <3>2. ~(e > epoch)
            BY <1>1, <2>1 DEF BaseInv, Pushes
        <3> QED
            BY <3>1, <3>2
    <2>3. push.at = "wait" /\ s = Callee /\ answers[s] = <<>> /\ Wire(s) = <<log>> /\ Head(requests[s][e]) = log
        <3>1. Wire(s) # <<>> /\ Head(requests[s][e]) = Head(Wire(s))
            BY <2>1, <2>2 DEF Wire
        <3>2. push.at = "wait" /\ s = Callee /\ answers[s] = <<>> /\ Wire(s) = <<log>>
            BY <1>1, <1>3, <3>1 DEF SafeInv, Calm, Silent
        <3> QED
            BY <3>1, <3>2
    <2>4. PICK n \in DOMAIN log : Does(s, SubSeq(log, 1, n)) /\ SubSeq(log, 1, n) \in Seq(Entry)
        BY <2>1, <2>3
    <2>5. n \in 0..Len(log)
        BY <1>1, Parts
    <2>6. s \in Slaves => \A d \in Doc \ Docs(log) : Current(s, d)'
        BY <1>1, <1>2, <1>4, <2>4, <2>5, PartOfBatch DEF Order, Lasts
    <2>7. \A i \in DOMAIN answers'[s] : \E a : a = answers'[s][i] /\ Holds(s, a)'
        <3>1. DOMAIN answers'[s] = {}
            BY <1>2, <2>3
        <3> QED
            BY <3>1
    <2>8. s \in ToSet(push.left)
        BY <1>1, <2>3, CalleeIs
    <2>9. \A t \in Slaves \ {s}, d \in Doc : Current(t, d) => Current(t, d)'
        BY <1>1, <1>2, <1>4, <2>4, OthersCurrent
    <2> QED
        BY <1>1, <1>2, <1>3, <1>4, <1>5, <2>6, <2>7, <2>8, <2>9, SlaveOrdered
<1> QED
    BY <1>6, <1>7

LEMMA NextOrder == ASSUME OrderInv, [Next]_vars PROVE OrderInv'
<1>1. CASE UNCHANGED vars
    <2>1. UNCHANGED <<setting, log, pushed, push, epoch, requests, answers, data, newest>>
        BY <1>1 DEF vars, masterVars, wireVars, slaveVars, histVars
    <2>2. SafeInv' /\ BaseInv
        BY <1>1, NextSafe DEF OrderInv, SafeInv
    <2>3. Order => Order'
        BY <2>1, <2>2, MasterStep
    <2> QED
        BY <2>1, <2>2, <2>3, OrderlyStays DEF OrderInv
<1>2. CASE Next
    BY <1>2, RecordOrder, PushOrder, CallOrder, ReadOrder, GivesUpOrder, MasterOrder, ApplyOrder, SlaveOrder DEF Next
<1> QED
    BY <1>1, <1>2

(* When the log is empty and nothing is on its way, every slave holds the   *)
(* last write of every document, although whole logs are sent and applied   *)
(* again, calls time out and engines fail (push_pending, repl.apply).       *)
THEOREM CatchesUp == Spec => []CaughtUp
<1>1. Spec => []OrderInv
    BY InitOrder, NextOrder, PTL DEF Spec
<1>2. OrderInv => CaughtUp
    <2> SUFFICES ASSUME OrderInv, Orderly, log = <<>>, NEW s \in Slaves PROVE data[s] = newest
        BY DEF CaughtUp, Settled, Orderly
    <2>1. Docs(log) = {}
        BY DEF Docs
    <2>2. \A d \in Doc : data[s][d] = newest[d]
        BY <2>1 DEF OrderInv, Order, Lasts, Current
    <2>3. s \in Slave /\ TypeOK
        BY Parts DEF OrderInv, SafeInv, BaseInv
    <2>4. data[s] \in [Doc -> 0..MaxWrites] /\ newest \in [Doc -> 0..MaxWrites]
        BY <2>3 DEF TypeOK
    <2> QED
        BY <2>2, <2>4
<1> QED
    BY <1>1, <1>2, PTL
=============================================================================
