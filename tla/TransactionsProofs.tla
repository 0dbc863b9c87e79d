------------------------ MODULE TransactionsProofs ------------------------
(***************************************************************************)
(* Theorems about the transactions, for any documents, any number of       *)
(* transactions, any settings of the engine and any bounds; about the      *)
(* clients of the same lock table (LockClients), whatever they ask for;    *)
(* and about sagas, the transactions over several nodes (Saga), for any    *)
(* branches, dependencies and faults: a saga ends done or undone as a      *)
(* whole, dependents are undone first, what has ended is not called again. *)
(***************************************************************************)
EXTENDS Transactions, LockClients, Saga, FiniteSetTheorems, WellFoundedInduction, TLAPS

-----------------------------------------------------------------------------
(* What the operations do to the lock table.                               *)

\* Nobody shares an exclusive lock, and both sides of the table agree.
SoundTable == TableTypeOK /\ LocksExclude /\ HeldMatches

LEMMA TableInitSound == TableInit => SoundTable
    BY NoneAssumption
    DEF TableInit, SoundTable, TableTypeOK, LocksExclude, HeldMatches

\* A granted request leaves a sound table.
LEMMA GrantSound ==
    ASSUME SoundTable, NEW t \in Txn, NEW d \in Doc, NEW mode \in Mode,
           Grants(t, d, mode), Grant(t, d, mode)
    PROVE  SoundTable'
    <1> USE DEF SoundTable, TableTypeOK
    <1>1. TableTypeOK'
        <2>1. /\ holders' \in [Doc -> SUBSET Txn]
              /\ exclusive' \in [Doc -> BOOLEAN]
              /\ held' \in [Txn -> SUBSET Doc]
              /\ waiting' \in [Txn -> Doc \cup {None}]
            BY DEF Grant, Mode
        <2>2. ASSUME NEW e \in Doc, holders'[e] = {}
              PROVE  ~exclusive'[e]
            BY <2>2 DEF Grant
        <2> QED BY <2>1, <2>2
    <1>2. LocksExclude'
        <2> SUFFICES ASSUME NEW e \in Doc, exclusive'[e],
                            NEW u \in holders'[e], NEW v \in holders'[e]
                     PROVE  u = v
            BY DEF LocksExclude
        <2>1. CASE e = d
            <3>1. mode = "exclusive"
                BY <2>1 DEF Grant
            <3>2. holders[d] \subseteq {t}
                BY <3>1 DEF Grants
            <3> QED BY <2>1, <3>2 DEF Grant
        <2>2. CASE e # d
            BY <2>2 DEF Grant, LocksExclude
        <2> QED BY <2>1, <2>2
    <1>3. HeldMatches'
        BY DEF Grant, HeldMatches
    <1> QED BY <1>1, <1>2, <1>3

LEMMA RefuseSound ==
    ASSUME SoundTable, NEW t \in Txn, NEW d \in Doc, Refuse(t, d)
    PROVE  SoundTable'
    BY DEF SoundTable, TableTypeOK, LocksExclude, HeldMatches, Refuse

\* What held knows is everything release has to give back.
LEMMA ReleaseSound ==
    ASSUME SoundTable, NEW t \in Txn, Release(t)
    PROVE  SoundTable'
    <1> USE DEF SoundTable, TableTypeOK
    <1>1. TableTypeOK'
        <2>1. /\ holders' \in [Doc -> SUBSET Txn]
              /\ exclusive' \in [Doc -> BOOLEAN]
              /\ held' \in [Txn -> SUBSET Doc]
              /\ waiting' \in [Txn -> Doc \cup {None}]
            BY DEF Release
        <2>2. ASSUME NEW e \in Doc, holders'[e] = {}
              PROVE  ~exclusive'[e]
            BY <2>2 DEF Release
        <2> QED BY <2>1, <2>2
    <1>2. LocksExclude'
        BY DEF Release, LocksExclude
    <1>3. HeldMatches'
        BY DEF Release, HeldMatches
    <1> QED BY <1>1, <1>2, <1>3

-----------------------------------------------------------------------------
(* A non-empty set of natural numbers with an upper bound has a greatest   *)
(* element.                                                                *)
LEMMA GreatestExists ==
    ASSUME NEW S, S \subseteq Nat, S # {}, NEW b \in Nat, \A y \in S : y <= b
    PROVE  \E x \in S : \A y \in S : y <= x
<1> DEFINE gaps == {n \in Nat : b - n \in S}
<1>1. gaps # {} /\ gaps \subseteq Nat
    <2>1. PICK y \in S : TRUE
        OBVIOUS
    <2>2. b - y \in Nat /\ b - (b - y) = y
        OBVIOUS
    <2> QED
        BY <2>2
<1>2. PICK g \in gaps : \A h \in gaps : ~(<<h, g>> \in OpToRel(<, Nat))
    <2> HIDE DEF gaps
    <2> QED
        BY <1>1, NatLessThanWellFounded, WFMin, Zenon
<1>3. ASSUME NEW y \in S PROVE y <= b - g
    <2>1. b - y \in gaps /\ b - y \in Nat /\ g \in Nat
        OBVIOUS
    <2>2. ~(b - y < g)
        <3>1. <<b - y, g>> \notin OpToRel(<, Nat)
            BY <1>2, <2>1
        <3> QED
            BY <2>1, <3>1 DEF OpToRel
    <2> QED
        BY <2>1, <2>2
<1> QED
    BY <1>2, <1>3

-----------------------------------------------------------------------------
(* What a read finds.                                                      *)

LEMMA LiveIsSeq ==
    ASSUME NEW vs \in SUBSET Entry
    PROVE  Live(vs) \in Seqs
    <1> USE BoundsAssumption DEF Seqs
    <1>1. CASE vs = {}
        BY <1>1 DEF Live
    <1>2. CASE vs # {}
        <2> DEFINE newest == CHOOSE v \in vs : \A w \in vs : w.seq <= v.seq
                   S == {v.seq : v \in vs}
        <2>1. S \subseteq Nat /\ S # {} /\ \A s \in S : s <= MaxSeq
            BY <1>2 DEF Entry
        <2>2. PICK s \in S : \A r \in S : r <= s
            BY <2>1, GreatestExists
        <2>3. \E v \in vs : \A w \in vs : w.seq <= v.seq
            BY <2>2
        <2>4. newest \in vs
            BY <2>3
        <2>5. newest.seq \in 0..MaxSeq
            BY <2>4 DEF Entry
        <2> HIDE DEF newest
        <2>6. Live(vs) = IF newest.live THEN newest.seq ELSE 0
            BY <1>2 DEF Live, newest
        <2> QED BY <2>5, <2>6
    <1> QED BY <1>1, <1>2

\* The newest version answers, if its number is given out once.
LEMMA LiveIsNewest ==
    ASSUME NEW vs, NEW m \in vs,
           \A w \in vs : w.seq \in Int /\ w.seq <= m.seq /\ (w.seq = m.seq => w = m)
    PROVE  Live(vs) = IF m.live THEN m.seq ELSE 0
    <1> DEFINE newest == CHOOSE v \in vs : \A w \in vs : w.seq <= v.seq
    <1>1. newest \in vs /\ \A w \in vs : w.seq <= newest.seq
        OBVIOUS
    <1>2. newest.seq \in Int /\ m.seq \in Int
        BY <1>1
    <1> HIDE DEF newest
    <1>3. newest = m
        BY <1>1, <1>2
    <1> QED BY <1>3 DEF Live, newest

LEMMA ReadIsValue ==
    ASSUME TypeOK, NEW d \in Doc, NEW s \in Seqs
    PROVE  /\ get_at(d, s) \in Value
           /\ get(d) \in Value
           /\ last_write_seq(d) \in Seqs
    <1>1. \A r : Upto(d, r) \in SUBSET Entry
        BY DEF Upto, TypeOK
    <1>2. Live(Upto(d, s)) \in Seqs /\ Live(Upto(d, seq)) \in Seqs
        BY <1>1, LiveIsSeq
    <1>3. delta[d].seq \in Seqs /\ 0 \in Seqs /\ seq \in Seqs
        BY BoundsAssumption DEF TypeOK, Row, Seqs
    <1> QED BY <1>2, <1>3 DEF get_at, get, last_write_seq, Value, NoDoc

-----------------------------------------------------------------------------
(* Types.                                                                  *)

\* The part of the state that writes change.
DbTypeOK ==
    /\ seq \in Seqs /\ primarySeq \in 0..seq
    /\ versions \subseteq Entry
    /\ delta \in [Doc -> Row] /\ \A d \in Doc : delta[d].seq <= seq
    /\ dead \subseteq Doc
    /\ log \subseteq [doc : Doc, seq : 1..seq, live : BOOLEAN, by : Txn \cup {None}]

LEMMA ApplyTyped ==
    ASSUME TypeOK, NEW ops \in [Doc -> Op], NEW by \in Txn \cup {None}, Apply(ops, by)
    PROVE  DbTypeOK' /\ seq < seq'
    <1> USE BoundsAssumption DEF Seqs
    <1> DEFINE D == Written(ops)
               puts == {d \in D : ops[d] = "put"}
    <1>1. PICK n \in {0, 1} : seq' = seq + 1 + n /\ delta' = Unpatched(D, seq + 1 + n)
        BY DEF Apply, DeltaNumbers
    <1>2. seq \in 0..MaxSeq /\ seq' \in 0..MaxSeq /\ seq < seq' /\ seq + 1 \in 1..seq'
        BY <1>1 DEF TypeOK, Apply
    <1>3. primarySeq' \in 0..seq'
        BY <1>2 DEF Apply
    <1>4. D \subseteq Doc /\ puts \subseteq D
        BY DEF Written
    <1> HIDE DEF D, puts
    <1>5. versions' \subseteq Entry
        <2>1. \/ versions' = Store(puts, puts)
              \/ versions' = Store(D, puts)
            BY DEF Apply, D, puts
        <2>2. ASSUME NEW S \in SUBSET Doc PROVE Store(S, puts) \subseteq Entry
            <3> SUFFICES ASSUME NEW d \in S
                         PROVE  [doc |-> d, seq |-> seq + 1, live |-> d \in puts] \in Entry
                BY DEF Store, TypeOK
            <3>1. d \in Doc /\ (d \in puts) \in BOOLEAN /\ seq + 1 \in Seqs
                BY <1>2
            <3> QED BY <3>1 DEF Entry
        <2> QED BY <1>4, <2>1, <2>2
    <1>6. delta' \in [Doc -> Row] /\ \A d \in Doc : delta'[d].seq <= seq'
        <2>1. ASSUME NEW d \in Doc PROVE delta'[d] \in Row /\ delta'[d].seq <= seq'
            BY <1>1, <1>2 DEF Unpatched, TypeOK, Row
        <2>2. delta' = [d \in Doc |-> delta'[d]]
            BY <1>1 DEF Unpatched
        <2> QED BY <2>1, <2>2
    <1>7. dead' \subseteq Doc
        BY <1>4 DEF Apply, TypeOK, D, puts
    <1>8. log' \subseteq [doc : Doc, seq : 1..seq', live : BOOLEAN, by : Txn \cup {None}]
        <2>1. log' = log \cup {[doc |-> d, seq |-> seq + 1, live |-> d \in puts, by |-> by] : d \in D}
            BY DEF Apply, D, puts
        <2>2. ASSUME NEW d \in D
              PROVE  [doc |-> d, seq |-> seq + 1, live |-> d \in puts, by |-> by]
                        \in [doc : Doc, seq : 1..seq', live : BOOLEAN, by : Txn \cup {None}]
            <3>1. d \in Doc /\ (d \in puts) \in BOOLEAN
                BY <1>4
            <3> QED BY <1>2, <3>1
        <2>3. log \subseteq [doc : Doc, seq : 1..seq', live : BOOLEAN, by : Txn \cup {None}]
            BY <1>2 DEF TypeOK
        <2> QED BY <2>1, <2>2, <2>3
    <1> QED BY <1>2, <1>3, <1>5, <1>6, <1>7, <1>8 DEF DbTypeOK

-----------------------------------------------------------------------------
(* Locks.                                                                  *)

\* Of a transaction that was dropped or has not begun nothing is remembered.
ReadsOfTheLiving ==
    \A t \in Txn : txn[t].status \notin {"active", "committed"} => reads[t] = {}

LockInv == TypeOK /\ OnlyReadersHoldLocks /\ ReadsOfTheLiving

LEMMA LockInvSound == ASSUME LockInv PROVE SoundTable
    BY DEF LockInv, TypeOK, OnlyReadersHoldLocks, SoundTable, LocksExclude

LEMMA LockInvInit == Init => LockInv
    <1> SUFFICES ASSUME Init PROVE LockInv
        OBVIOUS
    <1> USE BoundsAssumption, SettingsAssumption DEF Init, Seqs
    <1>1. SoundTable
        BY TableInitSound
    <1>2. \A t \in Txn : \E level \in setting.levels : txn[t] = Fresh(level)
        OBVIOUS
    <1>3. ASSUME NEW t \in Txn
          PROVE  txn[t] \in Transaction /\ txn[t].snapshot = 0 /\ txn[t].status = "new"
        <2>1. PICK level \in setting.levels : txn[t] = Fresh(level)
            BY <1>2
        <2>2. level \in Isolation
            BY DEF Setting
        <2> QED BY <2>1, <2>2 DEF Fresh, Transaction, Status
    <1>4. txn \in [Txn -> Transaction]
        BY <1>3
    <1>5. TypeOK
        BY <1>1, <1>3, <1>4 DEF TypeOK, SoundTable, Row, NoRow
    <1>6. OnlyReadersHoldLocks
        BY <1>1, <1>3 DEF OnlyReadersHoldLocks, SoundTable, TableInit, Active
    <1> QED BY <1>3, <1>5, <1>6 DEF LockInv, ReadsOfTheLiving

LEMMA Numbers ==
    ASSUME TypeOK
    PROVE  /\ MaxSeq \in Nat /\ seq \in 0..MaxSeq /\ seq \in Nat
           /\ primarySeq \in 0..MaxSeq /\ primarySeq <= seq
           /\ txn \in [Txn -> Transaction]
    BY BoundsAssumption DEF TypeOK, Seqs

\* The end of a transaction, however it ends.
LEMMA EndKeepsLocks ==
    ASSUME LockInv, NEW t \in Txn, Release(t), txn'[t].status # "active",
           \A u \in Txn \ {t} : txn'[u] = txn[u] /\ reads'[u] = reads[u]
    PROVE  TableTypeOK' /\ OnlyReadersHoldLocks'
    <1>1. SoundTable'
        BY LockInvSound, ReleaseSound
    <1>2. \A d \in Doc : ~exclusive'[d]
        BY DEF LockInv, OnlyReadersHoldLocks, Release
    <1>3. ASSUME NEW u \in Txn
          PROVE  /\ waiting'[u] = None
                 /\ held'[u] = IF txn'[u].status = "active" /\ locks_reads(txn'[u].isolation)
                               THEN {r.doc : r \in reads'[u]} ELSE {}
        <2>1. waiting'[u] = IF u = t THEN None ELSE waiting[u]
            BY DEF Release, LockInv, TypeOK, TableTypeOK
        <2>2. held'[u] = IF u = t THEN {} ELSE held[u]
            BY DEF Release, LockInv, TypeOK, TableTypeOK
        <2> QED BY <2>1, <2>2 DEF LockInv, OnlyReadersHoldLocks, Active
    <1> QED BY <1>1, <1>2, <1>3 DEF SoundTable, OnlyReadersHoldLocks, Active

LEMMA DropKeepsInv ==
    ASSUME LockInv, NEW t \in Txn, NEW status \in {"refused", "rolledback"},
           Active(t), Drop(t, status), alone' \subseteq alone,
           UNCHANGED <<dbVars, setting, log>>
    PROVE  LockInv'
    <1> USE DEF LockInv
    <1> DEFINE dropped == [Fresh(txn[t].isolation) EXCEPT !.status = status]
    <1>1. dropped \in Transaction /\ dropped.snapshot = 0 /\ dropped.status = status
        <2>1. dropped = [status |-> status, isolation |-> txn[t].isolation, snapshot |-> 0,
                         begun |-> 0, snap_cache |-> {}]
            BY DEF Fresh
        <2>2. txn[t].isolation \in Isolation
            BY Numbers DEF Transaction
        <2>3. status \in Status /\ 0 \in Seqs
            BY Numbers DEF Status, Seqs
        <2> HIDE DEF dropped, LockInv
        <2> QED BY <2>1, <2>2, <2>3 DEF Transaction
    <1>2. txn' = [txn EXCEPT ![t] = dropped] /\ reads' = [reads EXCEPT ![t] = {}]
        BY DEF Drop
    <1> HIDE DEF dropped
    <1>3. TableTypeOK' /\ OnlyReadersHoldLocks'
        BY <1>1, <1>2, EndKeepsLocks DEF Drop, TypeOK
    <1>4. TypeOK'
        <2>1. txn' \in [Txn -> Transaction]
            BY <1>1, <1>2, Numbers
        <2>2. ASSUME NEW u \in Txn PROVE txn'[u].snapshot <= seq'
            <3>1. seq' = seq /\ 0 <= seq
                BY Numbers DEF dbVars
            <3>2. CASE u = t
                BY <1>1, <1>2, <3>1, <3>2, Numbers
            <3>3. CASE u # t
                BY <1>2, <3>1, <3>3, Numbers DEF TypeOK
            <3> QED BY <3>2, <3>3
        <2>3. reads' \in [Txn -> SUBSET [doc : Doc, value : Value]]
            BY <1>2 DEF TypeOK
        <2> QED BY <1>3, <2>1, <2>2, <2>3 DEF dbVars, TypeOK
    <1>5. ReadsOfTheLiving'
        BY <1>1, <1>2, Numbers DEF ReadsOfTheLiving, TypeOK
    <1> QED BY <1>3, <1>4, <1>5

\* A step that leaves the locks, the transactions and what they read alone.
LEMMA WritersKeepInv ==
    ASSUME LockInv, DbTypeOK', seq <= seq', alone' \subseteq alone,
           UNCHANGED <<lockVars, setting, txn, reads>>
    PROVE  LockInv'
    <1>1. TypeOK'
        <2>1. \A t \in Txn : txn'[t].snapshot <= seq'
            <3> SUFFICES ASSUME NEW t \in Txn PROVE txn[t].snapshot <= seq'
                OBVIOUS
            <3>1. txn[t].snapshot \in Int /\ seq \in Int /\ seq' \in Int
                BY BoundsAssumption DEF LockInv, TypeOK, DbTypeOK, Transaction, Seqs
            <3> QED BY <3>1 DEF LockInv, TypeOK
        <2> QED BY <2>1 DEF LockInv, TypeOK, DbTypeOK, TableTypeOK, lockVars
    <1>2. OnlyReadersHoldLocks' /\ ReadsOfTheLiving'
        BY DEF LockInv, OnlyReadersHoldLocks, ReadsOfTheLiving, HeldMatches, Active, lockVars
    <1> QED BY <1>1, <1>2 DEF LockInv

LEMMA BeginKeepsInv ==
    ASSUME LockInv, NEW t \in Txn, txn_begin(t)
    PROVE  LockInv'
    <1> USE BoundsAssumption DEF LockInv, TypeOK, Seqs
    <1> DEFINE begun == [txn[t] EXCEPT !.status = "active",
                                       !.snapshot = begin_snapshot, !.begun = seq]
    <1>1. begun \in Transaction /\ begun.snapshot <= seq /\ begun.status = "active"
        <2>1. /\ txn[t] \in Transaction /\ "active" \in Status
              /\ primarySeq \in 0..MaxSeq /\ seq \in 0..MaxSeq /\ primarySeq <= seq
            BY DEF Status
        <2> HIDE DEF LockInv, TypeOK
        <2> QED BY <2>1 DEF Transaction, begin_snapshot
    <1>2. txn' = [txn EXCEPT ![t] = begun]
        BY DEF txn_begin
    <1> HIDE DEF begun
    <1>3. TypeOK'
        <2>1. txn' \in [Txn -> Transaction]
            BY <1>1, <1>2
        <2>2. ASSUME NEW u \in Txn PROVE txn'[u].snapshot <= seq
            BY <1>1, <1>2
        <2> QED BY <2>1, <2>2 DEF txn_begin, dbVars, lockVars, TableTypeOK
    <1>4. ReadsOfTheLiving'
        BY <1>1, <1>2 DEF ReadsOfTheLiving, txn_begin
    <1>5. OnlyReadersHoldLocks'
        <2>1. held[t] = {} /\ reads[t] = {}
            BY DEF txn_begin, OnlyReadersHoldLocks, ReadsOfTheLiving, Active
        <2>2. ASSUME NEW u \in Txn
              PROVE  held[u] = IF txn'[u].status = "active" /\ locks_reads(txn'[u].isolation)
                               THEN {r.doc : r \in reads[u]} ELSE {}
            <3>1. CASE u = t
                BY <2>1, <3>1
            <3>2. CASE u # t
                BY <1>2, <3>2 DEF OnlyReadersHoldLocks, Active
            <3> QED BY <3>1, <3>2
        <2> QED BY <2>2 DEF OnlyReadersHoldLocks, HeldMatches, txn_begin, lockVars, Active
    <1> QED BY <1>3, <1>4, <1>5

\* A shared lock is always granted: nobody is left with an exclusive one.
LEMMA GetKeepsInv ==
    ASSUME LockInv, NEW t \in Txn, NEW d \in Doc, txn_get(t, d)
    PROVE  LockInv'
    <1> USE DEF LockInv
    <1> DEFINE level == txn[t].isolation
               value == IF uses_snapshot(level) THEN get_at(d, txn[t].snapshot) ELSE get(d)
               entry == [doc |-> d, value |-> value]
               cache == IF uses_snapshot(level) THEN SnapPut(txn[t].snap_cache, d, value)
                                                ELSE txn[t].snap_cache
    <1>1. Grants(t, d, "shared")
        BY DEF OnlyReadersHoldLocks, Grants
    <1>2. /\ Active(t)
          /\ IF locks_reads(level) THEN Grant(t, d, "shared") ELSE UNCHANGED lockVars
          /\ txn' = [txn EXCEPT ![t].snap_cache = cache]
          /\ reads' = [reads EXCEPT ![t] = @ \cup {entry}]
          /\ UNCHANGED <<dbVars, setting, log, alone>>
        BY <1>1 DEF txn_get, Acquire, TypeOK
    <1>3. entry \in [doc : Doc, value : Value]
        BY ReadIsValue DEF TypeOK, Transaction
    <1>4. cache \in SUBSET [doc : Doc, value : Value]
        BY <1>3 DEF SnapPut, TypeOK, Transaction
    <1> HIDE DEF value, cache
    <1>5. /\ txn' \in [Txn -> Transaction]
          /\ \A u \in Txn : /\ txn'[u].status = txn[u].status
                            /\ txn'[u].isolation = txn[u].isolation
                            /\ txn'[u].snapshot = txn[u].snapshot
        BY <1>2, <1>4 DEF TypeOK, Transaction
    <1>6. SoundTable'
        <2>1. CASE locks_reads(level)
            BY <1>1, <1>2, <2>1, LockInvSound, GrantSound DEF Mode
        <2>2. CASE ~locks_reads(level)
            BY <1>2, <2>2, LockInvSound
            DEF lockVars, SoundTable, TableTypeOK, LocksExclude, HeldMatches
        <2> QED BY <2>1, <2>2
    <1>7. TypeOK'
        <2>1. reads' \in [Txn -> SUBSET [doc : Doc, value : Value]]
            BY <1>2, <1>3 DEF TypeOK
        <2> QED BY <1>2, <1>5, <1>6, <2>1 DEF TypeOK, SoundTable, dbVars
    <1>8. OnlyReadersHoldLocks'
        <2>1. \A e \in Doc : ~exclusive'[e]
            BY <1>2 DEF OnlyReadersHoldLocks, Grant, lockVars, TypeOK, TableTypeOK
        <2>2. \A u \in Txn : waiting'[u] = None
            BY <1>2 DEF OnlyReadersHoldLocks, Grant, lockVars
        <2>3. ASSUME NEW u \in Txn
              PROVE  held'[u] = IF txn'[u].status = "active" /\ locks_reads(txn'[u].isolation)
                                THEN {r.doc : r \in reads'[u]} ELSE {}
            <3>1. held[u] = IF txn[u].status = "active" /\ locks_reads(txn[u].isolation)
                            THEN {r.doc : r \in reads[u]} ELSE {}
                BY DEF OnlyReadersHoldLocks, Active
            <3>2. CASE u = t /\ locks_reads(level)
                <4>1. held'[t] = held[t] \cup {d} /\ reads'[t] = reads[t] \cup {entry}
                    BY <1>2, <3>2 DEF Grant, TypeOK, TableTypeOK
                <4>2. held[t] = {r.doc : r \in reads[t]}
                    BY <1>2, <3>1, <3>2 DEF Active
                <4>3. {r.doc : r \in reads'[t]} = {r.doc : r \in reads[t]} \cup {d}
                    <5>1. entry.doc = d
                        OBVIOUS
                    <5> HIDE DEF entry
                    <5> QED BY <4>1, <5>1
                <4>4. txn'[u].status = "active" /\ locks_reads(txn'[u].isolation)
                    BY <1>2, <1>5, <3>2 DEF Active
                <4> QED BY <3>2, <4>1, <4>2, <4>3, <4>4
            <3>3. CASE u = t /\ ~locks_reads(level)
                BY <1>2, <1>5, <3>1, <3>3 DEF lockVars
            <3>4. CASE u # t
                <4>1. held'[u] = held[u] /\ reads'[u] = reads[u]
                    BY <1>2, <3>4 DEF Grant, lockVars, TypeOK, TableTypeOK
                <4> QED BY <1>5, <3>1, <4>1
            <3> QED BY <3>2, <3>3, <3>4
        <2> QED BY <1>6, <2>1, <2>2, <2>3 DEF OnlyReadersHoldLocks, SoundTable, Active
    <1>9. ReadsOfTheLiving'
        BY <1>2, <1>5 DEF ReadsOfTheLiving, Active, TypeOK
    <1> QED BY <1>7, <1>8, <1>9

LEMMA CommitKeepsInv ==
    ASSUME LockInv, NEW t \in Txn, NEW ops \in [Doc -> Op], Committed(t, ops)
    PROVE  LockInv'
    <1> DEFINE done == [txn[t] EXCEPT !.status = "committed", !.snap_cache = {}]
    <1>1. /\ done \in Transaction /\ done.status = "committed"
          /\ done.snapshot = txn[t].snapshot
        BY DEF LockInv, TypeOK, Transaction, Status
    <1>2. txn' = [txn EXCEPT ![t] = done]
        BY DEF Committed, LockInv, TypeOK
    <1> HIDE DEF done
    <1>3. DbTypeOK' /\ seq <= seq'
        <2>1. CASE Written(ops) = {}
            BY <2>1, BoundsAssumption
            DEF Committed, dbVars, LockInv, TypeOK, DbTypeOK, Seqs
        <2>2. CASE Written(ops) # {}
            <3>1. DbTypeOK' /\ seq < seq'
                BY <2>2, ApplyTyped DEF Committed, LockInv
            <3>2. seq \in Int /\ seq' \in Int
                BY <3>1, BoundsAssumption DEF LockInv, TypeOK, DbTypeOK, Seqs
            <3> QED BY <3>1, <3>2
        <2> QED BY <2>1, <2>2
    <1>4. TableTypeOK' /\ OnlyReadersHoldLocks'
        BY <1>1, <1>2, EndKeepsLocks DEF Committed, LockInv, TypeOK
    <1>5. TypeOK'
        <2>1. ASSUME NEW u \in Txn PROVE txn'[u].snapshot <= seq'
            <3>1. txn'[u].snapshot = txn[u].snapshot /\ txn[u].snapshot <= seq
                BY <1>1, <1>2 DEF LockInv, TypeOK
            <3>2. txn[u].snapshot \in Int /\ seq \in Int /\ seq' \in Int
                BY <1>3, BoundsAssumption DEF LockInv, TypeOK, DbTypeOK, Transaction, Seqs
            <3> QED BY <1>3, <3>1, <3>2
        <2>2. txn' \in [Txn -> Transaction]
            BY <1>1, <1>2 DEF LockInv, TypeOK
        <2> QED BY <1>3, <1>4, <2>1, <2>2 DEF Committed, LockInv, TypeOK, DbTypeOK
    <1>6. ReadsOfTheLiving'
        BY <1>1, <1>2 DEF Committed, LockInv, TypeOK, ReadsOfTheLiving
    <1> QED BY <1>4, <1>5, <1>6 DEF LockInv

LEMMA LockInvNext == LockInv /\ [Next]_vars => LockInv'
    <1> SUFFICES ASSUME LockInv, [Next]_vars PROVE LockInv'
        OBVIOUS
    <1>1. ASSUME NEW d \in Doc, NEW op \in Op \ {"none"}, Write(d, op)
          PROVE  LockInv'
        <2> DEFINE ops == [e \in Doc |-> IF e = d THEN op ELSE "none"]
        <2>1. ops \in [Doc -> Op] /\ Apply(ops, None)
            BY <1>1 DEF Write, Op
        <2> HIDE DEF ops
        <2>2. DbTypeOK' /\ seq < seq'
            BY <2>1, ApplyTyped DEF LockInv
        <2>3. seq <= seq'
            BY <2>2, BoundsAssumption DEF LockInv, TypeOK, DbTypeOK, Seqs
        <2> QED BY <1>1, <2>2, <2>3, WritersKeepInv DEF Write
    <1>2. ASSUME NEW d \in Doc, Patch(d)
          PROVE  LockInv'
        <2>1. seq' = seq + 1 /\ seq \in Nat /\ seq' \in Seqs /\ primarySeq' \in 0..seq'
            BY <1>2, BoundsAssumption DEF Patch, LockInv, TypeOK, Seqs
        <2>2. delta' \in [Doc -> Row] /\ \A e \in Doc : delta'[e].seq <= seq'
            <3>1. [seq |-> seq + 1, live |-> TRUE] \in Row
                BY <2>1 DEF Row
            <3>2. \A e \in Doc : delta[e].seq \in Int /\ delta[e].seq <= seq
                BY BoundsAssumption DEF LockInv, TypeOK, Row, Seqs
            <3> QED BY <1>2, <2>1, <3>1, <3>2 DEF Patch, LockInv, TypeOK
        <2>3. log' \subseteq [doc : Doc, seq : 1..seq', live : BOOLEAN, by : Txn \cup {None}]
            BY <1>2, <2>1 DEF Patch, LockInv, TypeOK
        <2>4. DbTypeOK'
            BY <1>2, <2>1, <2>2, <2>3 DEF Patch, LockInv, TypeOK, DbTypeOK
        <2> QED BY <1>2, <2>1, <2>4, WritersKeepInv DEF Patch
    <1>3. CASE Compact
        <2>1. DbTypeOK' /\ seq <= seq'
            BY <1>3, BoundsAssumption DEF Compact, LockInv, TypeOK, DbTypeOK, Seqs
        <2> QED BY <1>3, <2>1, WritersKeepInv DEF Compact
    <1>4. ASSUME NEW t \in Txn, NEW ops \in [Doc -> Op], Refused(t, ops)
          PROVE  LockInv'
        BY <1>4, DropKeepsInv DEF Refused
    <1>5. ASSUME NEW t \in Txn, txn_rollback(t)
          PROVE  LockInv'
        BY <1>5, DropKeepsInv DEF txn_rollback
    <1>6. CASE UNCHANGED vars
        <2>1. DbTypeOK' /\ seq <= seq'
            BY <1>6, BoundsAssumption DEF vars, dbVars, LockInv, TypeOK, DbTypeOK, Seqs
        <2> QED BY <1>6, <2>1, WritersKeepInv DEF vars
    <1> QED BY <1>1, <1>2, <1>3, <1>4, <1>5, <1>6, BeginKeepsInv, GetKeepsInv, CommitKeepsInv
            DEF Next

\* Every reachable state is typed.
THEOREM TypeCorrect == Spec => []TypeOK
    <1>1. LockInv => TypeOK
        BY DEF LockInv
    <1> QED BY <1>1, LockInvInit, LockInvNext, PTL DEF Spec

(***************************************************************************)
(* No lock outlives its transaction, and between two calls there are only  *)
(* shared locks on what active serializable transactions have read.        *)
(***************************************************************************)
THEOREM LocksEndWithTransactions == Spec => []OnlyReadersHoldLocks
    <1>1. LockInv => OnlyReadersHoldLocks
        BY DEF LockInv
    <1> QED BY <1>1, LockInvInit, LockInvNext, PTL DEF Spec

-----------------------------------------------------------------------------
(* Lost updates.                                                           *)

Newest(e) == \A f \in log : f.doc = e.doc => f.seq <= e.seq

(***************************************************************************)
(* What last_write_seq goes by: the store and the bitmap know the newest   *)
(* write of every document, if it is not a deletion by tombstone.          *)
(***************************************************************************)
LogOnce == \A e, f \in log : e.doc = f.doc /\ e.seq = f.seq => e = f

VersionsLogged ==
    \A v \in versions : \E e \in log : e.doc = v.doc /\ e.seq = v.seq /\ e.live = v.live

NewestKept ==
    \A e \in log : Newest(e) =>
        IF e.live
        THEN [doc |-> e.doc, seq |-> e.seq, live |-> TRUE] \in versions /\ e.doc \notin dead
        ELSE setting.bitmap => e.doc \in dead

WritersCommitted ==
    \A e \in log : e.by # None => e.by \in Txn /\ txn[e.by].status = "committed"

BitmapOnly == setting.bitmap \/ dead = {}

StoreKnows == LogOnce /\ VersionsLogged /\ NewestKept /\ BitmapOnly

CommitInv == LockInv /\ StoreKnows /\ WritersCommitted /\ FirstCommitterWins

LEMMA CommitInvInit == Init => CommitInv
    BY LockInvInit
    DEF Init, CommitInv, StoreKnows, LogOnce, VersionsLogged, NewestKept, BitmapOnly,
        WritersCommitted, FirstCommitterWins, Checked

\* The check sees a newest write that is not a deletion by tombstone.
LEMMA LastWriteKnown ==
    ASSUME TypeOK, StoreKnows, NEW e \in log, Newest(e), e.live \/ setting.bitmap
    PROVE  e.seq <= last_write_seq(e.doc)
    <1>1. e.doc \in Doc /\ e.seq \in 1..seq /\ e.live \in BOOLEAN /\ seq \in Nat
        BY Numbers DEF TypeOK
    <1>2. CASE e.doc \in dead
        BY <1>1, <1>2 DEF last_write_seq
    <1>3. CASE e.doc \notin dead
        <2> DEFINE m == [doc |-> e.doc, seq |-> e.seq, live |-> TRUE]
                   vs == Upto(e.doc, seq)
        <2>1. e.live /\ m \in versions
            BY <1>3 DEF StoreKnows, NewestKept
        <2>2. vs \in SUBSET Entry /\ m \in vs
            BY <1>1, <2>1 DEF Upto, TypeOK
        <2>3. ASSUME NEW w \in vs
              PROVE  w.seq \in Int /\ w.seq <= m.seq /\ (w.seq = m.seq => w = m)
            <3>1. w \in Entry /\ w \in versions /\ w.doc = e.doc
                BY <2>2 DEF Upto
            <3>2. PICK f \in log : f.doc = w.doc /\ f.seq = w.seq /\ f.live = w.live
                BY <3>1 DEF StoreKnows, VersionsLogged
            <3>3. w.seq <= e.seq
                BY <3>1, <3>2 DEF Newest
            <3>4. ASSUME w.seq = e.seq PROVE w = m
                <4>1. f = e
                    BY <3>1, <3>2, <3>4 DEF StoreKnows, LogOnce
                <4>2. w.live = TRUE
                    BY <1>1, <2>1, <3>2, <4>1
                <4> QED BY <3>1, <3>4, <4>2 DEF Entry
            <3>5. w.seq \in Int
                BY <3>1, BoundsAssumption DEF Entry, Seqs
            <3> QED BY <3>3, <3>4, <3>5
        <2>4. m.live = TRUE /\ m.seq = e.seq
            OBVIOUS
        <2> HIDE DEF m, vs
        <2>5. Live(vs) = e.seq
            BY <2>2, <2>3, <2>4, LiveIsNewest
        <2> QED BY <1>1, <1>3, <2>5 DEF last_write_seq, vs
    <1> QED BY <1>2, <1>3

\* What a write adds to the history.
LEMMA ApplyLogs ==
    ASSUME TypeOK, NEW ops \in [Doc -> Op], NEW by, Apply(ops, by)
    PROVE  /\ log \subseteq log'
           /\ \A e \in log' \ log :
                  /\ e.doc \in Written(ops) /\ e.seq = seq + 1 /\ e.by = by
                  /\ e.live \in BOOLEAN
                  /\ e.live <=> ops[e.doc] = "put"
           /\ \A d \in Written(ops) : \E e \in log' : e.doc = d /\ e.seq = seq + 1
           /\ \A e \in log : e.seq < seq + 1
    <1> DEFINE D == Written(ops)
               puts == {d \in D : ops[d] = "put"}
               new == {[doc |-> d, seq |-> seq + 1, live |-> d \in puts, by |-> by] : d \in D}
    <1>1. log' = log \cup new
        BY DEF Apply
    <1>2. \A e \in log : e.seq < seq + 1
        BY Numbers DEF TypeOK
    <1>3. ASSUME NEW e \in new
          PROVE  /\ e.doc \in D /\ e.seq = seq + 1 /\ e.by = by
                 /\ e.live \in BOOLEAN
                 /\ e.live <=> ops[e.doc] = "put"
        <2>1. PICK d \in D : e = [doc |-> d, seq |-> seq + 1, live |-> d \in puts, by |-> by]
            OBVIOUS
        <2>2. (d \in puts) \in BOOLEAN /\ (d \in puts <=> ops[d] = "put")
            OBVIOUS
        <2> QED BY <2>1, <2>2
    <1>4. ASSUME NEW d \in D PROVE \E e \in new : e.doc = d /\ e.seq = seq + 1
        <2> DEFINE e == [doc |-> d, seq |-> seq + 1, live |-> d \in puts, by |-> by]
        <2>1. e \in new /\ e.doc = d /\ e.seq = seq + 1
            OBVIOUS
        <2> QED BY <2>1
    <1> HIDE DEF new
    <1> QED BY <1>1, <1>2, <1>3, <1>4

LEMMA ApplyKnows ==
    ASSUME TypeOK, StoreKnows, NEW ops \in [Doc -> Op], NEW by, Apply(ops, by),
           setting' = setting
    PROVE  StoreKnows'
    <1> DEFINE D == Written(ops)
               puts == {d \in D : ops[d] = "put"}
    <1> USE DEF StoreKnows
    <1>1. seq \in Nat /\ log \subseteq log'
        BY Numbers, ApplyLogs
    <1>2. ASSUME NEW e \in log' \ log
          PROVE  /\ e.doc \in D /\ e.seq = seq + 1 /\ e.live \in BOOLEAN /\ e.by = by
                 /\ e.live <=> e.doc \in puts
        BY <1>2, ApplyLogs
    <1>3. \A e \in log : e.seq \in Int /\ e.seq < seq + 1
        BY ApplyLogs DEF TypeOK
    <1>4. D \subseteq Doc /\ puts \subseteq D
        BY DEF Written
    <1>5. /\ versions' = Store(IF setting.bitmap THEN puts ELSE D, puts)
          /\ dead' = IF setting.bitmap THEN (dead \ puts) \cup (D \ puts) ELSE dead
          /\ log' = log \cup
                 {[doc |-> d, seq |-> seq + 1, live |-> d \in puts, by |-> by] : d \in D}
        BY DEF Apply
    <1> HIDE DEF D, puts
    <1>6. LogOnce'
        <2> SUFFICES ASSUME NEW e \in log', NEW f \in log', e.doc = f.doc, e.seq = f.seq
                     PROVE  e = f
            BY DEF LogOnce
        <2>1. CASE e \in log /\ f \in log
            BY <2>1 DEF LogOnce
        <2>2. CASE e \notin log /\ f \notin log
            BY <1>5, <2>2
        <2>3. CASE e \in log <=> f \notin log
            BY <1>2, <1>3, <2>3
        <2> QED BY <2>1, <2>2, <2>3
    <1>7. VersionsLogged'
        <2> SUFFICES ASSUME NEW v \in versions'
                     PROVE  \E e \in log' : e.doc = v.doc /\ e.seq = v.seq /\ e.live = v.live
            BY DEF VersionsLogged
        <2>1. CASE v \in versions
            BY <1>1, <2>1 DEF VersionsLogged
        <2>2. CASE v \notin versions
            <3>1. PICK d \in D : v = [doc |-> d, seq |-> seq + 1, live |-> d \in puts]
                BY <1>4, <1>5, <2>2 DEF Store
            <3>2. [doc |-> d, seq |-> seq + 1, live |-> d \in puts, by |-> by] \in log'
                BY <1>5
            <3> QED BY <3>1, <3>2
        <2> QED BY <2>1, <2>2
    <1>8. NewestKept'
        <2> SUFFICES ASSUME NEW e \in log', Newest(e)'
                     PROVE  IF e.live
                            THEN [doc |-> e.doc, seq |-> e.seq, live |-> TRUE] \in versions'
                                 /\ e.doc \notin dead'
                            ELSE setting.bitmap => e.doc \in dead'
            BY DEF NewestKept
        <2>1. CASE e \in log
            <3>1. e.doc \notin D
                <4> SUFFICES ASSUME e.doc \in D PROVE FALSE
                    OBVIOUS
                <4>1. PICK f \in log' : f.doc = e.doc /\ f.seq = seq + 1
                    BY ApplyLogs DEF D
                <4> QED BY <1>3, <2>1, <4>1, <1>1 DEF Newest
            <3>2. Newest(e)
                BY <1>1 DEF Newest
            <3>3. versions \subseteq versions' /\ (e.doc \in dead' <=> e.doc \in dead)
                BY <1>4, <1>5, <3>1 DEF Store
            <3> QED BY <2>1, <3>2, <3>3 DEF NewestKept
        <2>2. CASE e \notin log
            <3>1. CASE e.live
                <4>1. e.doc \in puts /\ e.seq = seq + 1
                    BY <1>2, <2>2, <3>1
                <4>2. [doc |-> e.doc, seq |-> e.seq, live |-> e.doc \in puts] \in versions'
                    BY <1>4, <1>5, <4>1 DEF Store
                <4>3. [doc |-> e.doc, seq |-> e.seq, live |-> TRUE] \in versions'
                    BY <4>1, <4>2
                <4>4. ~setting.bitmap => e.doc \notin dead
                    BY DEF BitmapOnly
                <4> QED BY <1>5, <3>1, <4>1, <4>3, <4>4
            <3>2. CASE ~e.live
                BY <1>2, <1>5, <2>2, <3>2
            <3> QED BY <3>1, <3>2
        <2> QED BY <2>1, <2>2
    <1>9. BitmapOnly'
        BY <1>5 DEF BitmapOnly
    <1> QED BY <1>6, <1>7, <1>8, <1>9

\* Committed transactions do not change any more.
CommittedKept == \A u \in Txn : txn[u].status = "committed" => txn'[u] = txn[u]

LEMMA NextKeepsCommitted ==
    ASSUME TypeOK, [Next]_vars
    PROVE  CommittedKept /\ setting' = setting
    <1>1. ASSUME NEW t \in Txn, Active(t) \/ txn[t].status = "new",
                 NEW r, txn' = [txn EXCEPT ![t] = r]
          PROVE  CommittedKept
        BY <1>1 DEF CommittedKept, Active, TypeOK
    <1>2. ASSUME UNCHANGED txn PROVE CommittedKept
        BY <1>2 DEF CommittedKept
    <1>3. CASE UNCHANGED vars
        BY <1>2, <1>3 DEF vars
    <1>4. ASSUME NEW d \in Doc, Patch(d) \/ \E op \in Op \ {"none"} : Write(d, op)
          PROVE  CommittedKept /\ setting' = setting
        BY <1>2, <1>4 DEF Patch, Write
    <1>5. CASE Compact
        BY <1>2, <1>5 DEF Compact
    <1>6. ASSUME NEW t \in Txn, txn_begin(t)
          PROVE  CommittedKept /\ setting' = setting
        <2>1. txn[t].status = "new" /\ setting' = setting
            BY <1>6 DEF txn_begin
        <2>2. \E r : txn' = [txn EXCEPT ![t] = r]
            BY <1>6, Zenon DEF txn_begin
        <2> QED BY <1>1, <2>1, <2>2
    <1>7. ASSUME NEW t \in Txn, NEW d \in Doc, txn_get(t, d)
          PROVE  CommittedKept /\ setting' = setting
        <2>1. Active(t) /\ setting' = setting
            BY <1>7 DEF txn_get
        <2>2. \/ UNCHANGED txn
              \/ \E r : txn' = [txn EXCEPT ![t] = r]
            BY <1>7 DEF txn_get
        <2> QED BY <1>1, <1>2, <2>1, <2>2
    <1>8. ASSUME NEW t \in Txn, NEW ops, Committed(t, ops) \/ Refused(t, ops) \/ txn_rollback(t)
          PROVE  CommittedKept /\ setting' = setting
        <2>1. Active(t) /\ setting' = setting
            BY <1>8 DEF Committed, Refused, txn_rollback
        <2>2. \E r : txn' = [txn EXCEPT ![t] = r]
            BY <1>8 DEF Committed, Refused, txn_rollback, Drop
        <2> QED BY <1>1, <2>1, <2>2
    <1> QED BY <1>3, <1>4, <1>5, <1>6, <1>7, <1>8 DEF Next

\* A step that writes nothing keeps what it is about.
LEMMA QuietKeepsWins ==
    ASSUME CommitInv, CommittedKept, UNCHANGED <<log, setting>>
    PROVE  WritersCommitted' /\ FirstCommitterWins'
    <1>1. WritersCommitted'
        BY DEF CommitInv, WritersCommitted, CommittedKept
    <1>2. Checked' = Checked
        BY DEF CommitInv, WritersCommitted, CommittedKept, Checked
    <1>3. \A w \in Checked : txn'[w.by].snapshot = txn[w.by].snapshot
        BY DEF CommitInv, WritersCommitted, CommittedKept, Checked
    <1> QED BY <1>1, <1>2, <1>3 DEF CommitInv, FirstCommitterWins

LEMMA CompactKnows ==
    ASSUME TypeOK, StoreKnows, Compact
    PROVE  StoreKnows'
    <1> USE DEF StoreKnows
    <1>1. PICK v \in Droppable : versions' = versions \ {v}
        BY DEF Compact
    <1>2. UNCHANGED <<log, dead, setting>>
        BY DEF Compact
    <1>3. LogOnce' /\ VersionsLogged' /\ BitmapOnly'
        BY <1>1, <1>2 DEF LogOnce, VersionsLogged, BitmapOnly
    <1>4. NewestKept'
        <2> SUFFICES ASSUME NEW e \in log, Newest(e), e.live
                     PROVE  [doc |-> e.doc, seq |-> e.seq, live |-> TRUE] # v
            BY <1>1, <1>2 DEF NewestKept, Newest
        <2> SUFFICES ASSUME v = [doc |-> e.doc, seq |-> e.seq, live |-> TRUE]
                     PROVE  FALSE
            OBVIOUS
        <2>1. v.doc = e.doc /\ v.seq = e.seq /\ v.doc \notin dead
            BY DEF NewestKept
        <2>2. PICK w \in versions : w.doc = v.doc /\ v.seq < w.seq
            BY <2>1 DEF Droppable
        <2>3. PICK f \in log : f.doc = w.doc /\ f.seq = w.seq
            BY DEF VersionsLogged
        <2>4. f.seq <= e.seq /\ f.seq \in Int /\ e.seq \in Int
            BY <2>1, <2>2, <2>3, Numbers DEF Newest, TypeOK
        <2> QED BY <2>1, <2>2, <2>3, <2>4
    <1> QED BY <1>3, <1>4

(***************************************************************************)
(* Writes for by, which is a transaction that commits and has been checked *)
(* or nobody.                                                              *)
(***************************************************************************)
LEMMA ApplyKeepsWins ==
    ASSUME CommitInv, CommittedKept, setting' = setting,
           NEW ops \in [Doc -> Op], NEW by \in Txn \cup {None}, Apply(ops, by),
           by # None =>
               /\ Unchanged(by, Written(ops))
               /\ txn'[by].status = "committed"
               /\ txn'[by].isolation = txn[by].isolation
               /\ txn'[by].snapshot = txn[by].snapshot
    PROVE  WritersCommitted' /\ FirstCommitterWins'
    <1> USE DEF CommitInv, LockInv
    <1>1. /\ log \subseteq log'
          /\ \A e \in log' \ log : e.doc \in Written(ops) /\ e.seq = seq + 1 /\ e.by = by
          /\ \A e \in log : e.seq < seq + 1
        BY ApplyLogs
    <1>2. WritersCommitted'
        BY <1>1, NoneAssumption DEF WritersCommitted, CommittedKept
    <1>3. FirstCommitterWins'
        <2> SUFFICES ASSUME NEW w \in Checked', NEW e \in log',
                            e.doc = w.doc, e.seq < w.seq,
                            \A f \in log' : f.doc = w.doc /\ f.seq < w.seq => f.seq <= e.seq,
                            e.live \/ setting.bitmap
                     PROVE  e.seq <= txn'[w.by].snapshot
            BY DEF FirstCommitterWins
        <2>1. w \in log' /\ w.by # None /\ checks_write_conflict(txn'[w.by].isolation)
            BY DEF Checked
        <2>2. seq \in Nat /\ \A f \in log : f.seq \in Int
            BY Numbers DEF TypeOK
        <2>3. e \in log
            <3>1. w.seq <= seq + 1
                BY <1>1, <2>1, <2>2
            <3> QED BY <1>1, <2>1, <2>2, <3>1
        <2>4. CASE w \in log
            <3>1. txn'[w.by] = txn[w.by]
                BY <2>1, <2>4 DEF WritersCommitted, CommittedKept
            <3>2. w \in Checked
                BY <2>1, <2>4, <3>1 DEF Checked
            <3>3. \A f \in log : f.doc = w.doc /\ f.seq < w.seq => f.seq <= e.seq
                BY <1>1
            <3> QED BY <2>3, <3>1, <3>2, <3>3 DEF FirstCommitterWins
        <2>5. CASE w \notin log
            <3>1. w.by = by /\ w.doc \in Written(ops) /\ w.seq = seq + 1
                BY <1>1, <2>1, <2>5
            <3>2. Newest(e)
                BY <1>1, <3>1 DEF Newest
            <3>3. e.seq <= last_write_seq(w.doc)
                BY <2>3, <3>2, LastWriteKnown
            <3>4. last_write_seq(w.doc) <= txn[by].snapshot
                BY <2>1, <3>1 DEF Unchanged
            <3>5. w.doc \in Doc /\ by \in Txn
                BY <2>1, <3>1 DEF Written
            <3>6. last_write_seq(w.doc) \in Seqs /\ txn[by].snapshot \in Seqs
                <4>1. 0 \in Seqs
                    BY Numbers DEF Seqs
                <4> QED BY <3>5, <4>1, Numbers, ReadIsValue DEF Transaction
            <3>7. last_write_seq(w.doc) \in Int /\ txn[by].snapshot \in Int /\ e.seq \in Int
                BY <2>2, <2>3, <3>6, Numbers DEF Seqs
            <3>8. txn'[w.by].snapshot = txn[by].snapshot
                BY <2>1, <3>1
            <3> QED BY <3>3, <3>4, <3>7, <3>8
        <2> QED BY <2>4, <2>5
    <1> QED BY <1>2, <1>3

LEMMA CommitInvNext == CommitInv /\ [Next]_vars => CommitInv'
    <1> SUFFICES ASSUME CommitInv, [Next]_vars
                 PROVE  StoreKnows' /\ WritersCommitted' /\ FirstCommitterWins'
        BY LockInvNext DEF CommitInv
    <1> USE DEF CommitInv, LockInv
    <1>1. CommittedKept /\ setting' = setting
        BY NextKeepsCommitted
    <1>2. ASSUME UNCHANGED <<versions, dead, log>>
          PROVE  StoreKnows' /\ WritersCommitted' /\ FirstCommitterWins'
        <2>1. StoreKnows'
            BY <1>1, <1>2
            DEF StoreKnows, LogOnce, VersionsLogged, NewestKept, BitmapOnly, Newest
        <2> QED BY <1>1, <1>2, <2>1, QuietKeepsWins
    <1>3. CASE Compact
        BY <1>1, <1>3, CompactKnows, QuietKeepsWins DEF Compact
    <1>4. ASSUME NEW d \in Doc, NEW op \in Op \ {"none"}, Write(d, op)
          PROVE  StoreKnows' /\ WritersCommitted' /\ FirstCommitterWins'
        <2> DEFINE ops == [e \in Doc |-> IF e = d THEN op ELSE "none"]
        <2>1. ops \in [Doc -> Op] /\ Apply(ops, None)
            BY <1>4 DEF Write, Op
        <2> HIDE DEF ops
        <2> QED BY <1>1, <2>1, ApplyKnows, ApplyKeepsWins
    <1>5. ASSUME NEW t \in Txn, NEW ops \in [Doc -> Op], Committed(t, ops)
          PROVE  StoreKnows' /\ WritersCommitted' /\ FirstCommitterWins'
        <2>1. CASE Written(ops) = {}
            BY <1>2, <1>5, <2>1 DEF Committed, dbVars
        <2>2. CASE Written(ops) # {}
            <3>1. Apply(ops, t) /\ Unchanged(t, Written(ops))
                BY <1>5, <2>2 DEF Committed, Commits
            <3>2. /\ txn'[t].status = "committed"
                  /\ txn'[t].isolation = txn[t].isolation
                  /\ txn'[t].snapshot = txn[t].snapshot
                BY <1>5 DEF Committed, TypeOK, Transaction
            <3> QED BY <1>1, <3>1, <3>2, ApplyKnows, ApplyKeepsWins
        <2> QED BY <2>1, <2>2
    <1>6. ASSUME NEW t \in Txn,
                 \/ txn_begin(t) \/ txn_rollback(t)
                 \/ \E d \in Doc : txn_get(t, d)
                 \/ \E ops \in [Doc -> Op] : Refused(t, ops)
          PROVE  StoreKnows' /\ WritersCommitted' /\ FirstCommitterWins'
        BY <1>2, <1>6 DEF txn_begin, txn_rollback, txn_get, Refused, dbVars
    <1>7. ASSUME NEW d \in Doc, Patch(d)
          PROVE  StoreKnows' /\ WritersCommitted' /\ FirstCommitterWins'
        BY <1>2, <1>7 DEF Patch
    <1>8. CASE UNCHANGED vars
        BY <1>2, <1>8 DEF vars, dbVars
    <1> QED BY <1>3, <1>4, <1>5, <1>6, <1>7, <1>8 DEF Next

(***************************************************************************)
(* No lost update, for any number of transactions of any levels, deletions *)
(* by bitmap or tombstone, patches and merges: the write a checked         *)
(* transaction replaced was in its snapshot, but for a deletion by         *)
(* tombstone.                                                              *)
(***************************************************************************)
THEOREM NoLostUpdate == Spec => []FirstCommitterWins
    <1>1. CommitInv => FirstCommitterWins
        BY DEF CommitInv
    <1> QED BY <1>1, CommitInvInit, CommitInvNext, PTL DEF Spec

-----------------------------------------------------------------------------
(* What transactions read.                                                 *)

AsVersion(e) == [doc |-> e.doc, seq |-> e.seq, live |-> e.live]

\* The primary has seen every acknowledged write.
PrimaryLast == \A e \in log : e.seq <= primarySeq

\* Between the number a snapshot is taken at and the last one there is no write.
SnapshotsTaken ==
    \A t \in Txn :
        /\ txn[t].snapshot <= txn[t].begun /\ txn[t].begun <= seq
        /\ \A e \in log : e.seq <= txn[t].begun => e.seq <= txn[t].snapshot

\* A deletion by tombstone is a version, and the newest one stays.
TombstonesKept ==
    ~setting.bitmap =>
        \A e \in log : Newest(e) \/ ~setting.compacts => AsVersion(e) \in versions

\* A patch is newer than the document it is for.
PatchesNewest ==
    \A d \in Doc : delta[d].live => \A e \in log : e.doc = d => e.seq < delta[d].seq

FieldsGiven ==
    \A t \in Txn : \A r \in reads[t] :
        r.value.field \notin {0, r.value.base} => r.value.field <= seq

\* Without patches the primary's numbers are all numbers.
NoPatches == ~setting.patches => primarySeq = seq /\ \A d \in Doc : ~delta[d].live

\* A transaction that is alone is active, and nothing is written beside it.
AloneIs ==
    ~(setting.bitmap /\ setting.patches) =>
        \A t \in alone : /\ Active(t) /\ txn[t].snapshot = primarySeq
                         /\ \A u \in Txn : u # t => ~Active(u)

ReadInv ==
    /\ CommitInv /\ PrimaryLast /\ SnapshotsTaken /\ TombstonesKept /\ PatchesNewest
    /\ FieldsGiven /\ NoPatches /\ AloneIs /\ SnapshotReads /\ PatchOverBase

LEMMA ReadInvInit == Init => ReadInv
    <1> SUFFICES ASSUME Init PROVE ReadInv
        OBVIOUS
    <1>1. CommitInv
        BY CommitInvInit
    <1>2. \A t \in Txn : txn[t].snapshot = 0 /\ txn[t].begun = 0
        BY DEF Init, Fresh
    <1>3. /\ log = {} /\ seq = 0 /\ primarySeq = 0 /\ alone = {}
          /\ \A t \in Txn : reads[t] = {}
          /\ \A d \in Doc : ~delta[d].live
        BY DEF Init, NoRow
    <1>4. PrimaryLast /\ SnapshotsTaken /\ TombstonesKept /\ PatchesNewest
        BY <1>2, <1>3 DEF PrimaryLast, SnapshotsTaken, TombstonesKept, PatchesNewest
    <1>5. FieldsGiven /\ NoPatches /\ AloneIs /\ SnapshotReads /\ PatchOverBase
        BY <1>3 DEF FieldsGiven, NoPatches, AloneIs, SnapshotReads, PatchOverBase
    <1> QED BY <1>1, <1>4, <1>5 DEF ReadInv

\* The store still has what a snapshot finds, or it has the newest write.
LEMMA SnapshotHas ==
    ASSUME ReadInv, NEW t \in Txn, NEW d \in Doc, d \notin dead, ~Replaced(t, d),
           NEW e \in log, e.doc = d, e.seq <= txn[t].begun,
           (setting.bitmap \/ setting.compacts) => Newest(e)
    PROVE  AsVersion(e) \in versions /\ e.seq <= txn[t].snapshot
    <1> USE DEF ReadInv, CommitInv, LockInv
    <1>1. e.seq <= txn[t].snapshot
        BY DEF SnapshotsTaken
    <1>2. CASE ~setting.bitmap
        BY <1>1, <1>2 DEF TombstonesKept
    <1>3. CASE setting.bitmap
        <2>1. Newest(e)
            BY <1>3
        <2>2. e.live /\ [doc |-> e.doc, seq |-> e.seq, live |-> TRUE] \in versions
            BY <1>3, <2>1 DEF StoreKnows, NewestKept
        <2>3. e.live = TRUE
            BY <2>2 DEF TypeOK
        <2> QED BY <1>1, <2>2, <2>3 DEF AsVersion
    <1> QED BY <1>2, <1>3

\* A snapshot finds what was written when its transaction began, where nothing is replaced.
LEMMA SnapshotFinds ==
    ASSUME ReadInv, NEW t \in Txn, NEW d \in Doc, ~Replaced(t, d)
    PROVE  get_at(d, txn[t].snapshot).base = AsOf(d, txn[t].begun)
    <1> USE DEF ReadInv, CommitInv, LockInv
    <1> DEFINE vs == Upto(d, txn[t].snapshot)
               es == {e \in log : e.doc = d /\ e.seq <= txn[t].begun}
               S == {e.seq : e \in es}
    <1>1. /\ txn[t].snapshot \in Int /\ txn[t].begun \in Int
          /\ txn[t].snapshot <= txn[t].begun
          /\ \A e \in log : /\ e.seq \in Int /\ e.seq \in 0..MaxSeq /\ e.seq <= MaxSeq
                            /\ e.live \in BOOLEAN
          /\ MaxSeq \in Nat
        BY Numbers DEF TypeOK, Transaction, Seqs, SnapshotsTaken
    <1>2. ASSUME NEW v \in vs PROVE \E e \in es : e.seq = v.seq /\ e.live = v.live
        <2>1. v \in versions /\ v.doc = d /\ v.seq <= txn[t].snapshot
            BY DEF Upto
        <2>2. PICK e \in log : e.doc = v.doc /\ e.seq = v.seq /\ e.live = v.live
            BY <2>1 DEF StoreKnows, VersionsLogged
        <2> QED BY <1>1, <2>1, <2>2
    <1>3. \A e, f \in es : e.seq = f.seq => e = f
        BY DEF StoreKnows, LogOnce
    <1>4. CASE es = {}
        <2>1. vs = {}
            BY <1>2, <1>4
        <2> QED BY <1>4, <2>1 DEF get_at, NoDoc, Live, AsOf
    <1>5. CASE es # {}
        <2>1. S \subseteq Nat /\ S # {} /\ \A n \in S : n <= MaxSeq
            BY <1>1, <1>5
        <2>2. PICK n \in S : \A k \in S : k <= n
            BY <1>1, <2>1, GreatestExists
        <2>3. PICK e \in es : e.seq = n
            OBVIOUS
        <2>4. /\ e \in log /\ e.doc = d /\ e.seq <= txn[t].begun
              /\ \A f \in es : f.seq \in Int /\ f.seq <= e.seq /\ (f.seq = e.seq => f = e)
            BY <1>1, <1>3, <2>2, <2>3
        <2>5. (setting.bitmap \/ setting.compacts) => Newest(e)
            BY <1>1, <2>4 DEF Replaced, Newest
        <2>6. AsOf(d, txn[t].begun) = IF e.live THEN e.seq ELSE 0
            <3> HIDE DEF es
            <3>1. Live(es) = IF e.live THEN e.seq ELSE 0
                BY <2>3, <2>4, LiveIsNewest
            <3> QED BY <3>1 DEF AsOf, es
        <2>7. CASE d \in dead
            <3>1. ~e.live
                BY <2>4, <2>5, <2>7 DEF StoreKnows, NewestKept, BitmapOnly
            <3> QED BY <2>6, <2>7, <3>1 DEF get_at, NoDoc
        <2>8. CASE d \notin dead
            <3>1. AsVersion(e) \in versions /\ e.seq <= txn[t].snapshot
                BY <2>4, <2>5, <2>8, SnapshotHas
            <3>2. AsVersion(e).seq = e.seq /\ AsVersion(e).live = e.live /\ AsVersion(e).doc = d
                BY <2>4 DEF AsVersion
            <3>3. AsVersion(e) \in vs
                BY <3>1, <3>2 DEF Upto
            <3>4. ASSUME NEW w \in vs
                  PROVE  /\ w.seq \in Int /\ w.seq <= AsVersion(e).seq
                         /\ w.seq = AsVersion(e).seq => w = AsVersion(e)
                <4>1. PICK f \in es : f.seq = w.seq /\ f.live = w.live
                    BY <1>2
                <4>2. w.seq \in Int /\ w.seq <= e.seq
                    BY <2>4, <4>1
                <4>3. w \in Entry /\ w.doc = d
                    BY DEF Upto, TypeOK
                <4>4. ASSUME w.seq = e.seq PROVE w = AsVersion(e)
                    <5>1. f = e
                        BY <2>4, <4>1, <4>4
                    <5> QED BY <2>4, <4>1, <4>3, <4>4, <5>1 DEF Entry, AsVersion
                <4> QED BY <3>2, <4>2, <4>4
            <3> HIDE DEF vs
            <3>5. Live(vs) = IF e.live THEN e.seq ELSE 0
                BY <3>2, <3>3, <3>4, LiveIsNewest
            <3> QED BY <2>6, <2>8, <3>5 DEF get_at, NoDoc, vs
        <2> QED BY <2>7, <2>8
    <1> QED BY <1>4, <1>5

\* Nothing newer than the number it is asked for.
LEMMA LiveUpto ==
    ASSUME TypeOK, NEW d \in Doc, NEW s \in Nat
    PROVE  Live(Upto(d, s)) <= s
    <1> DEFINE vs == Upto(d, s)
               newest == CHOOSE v \in vs : \A w \in vs : w.seq <= v.seq
               S == {v.seq : v \in vs}
    <1>1. CASE vs = {}
        BY <1>1 DEF Live
    <1>2. CASE vs # {}
        <2>1. S \subseteq Nat /\ S # {} /\ \A n \in S : n <= s
            BY <1>2 DEF Upto, TypeOK, Entry, Seqs
        <2>2. PICK n \in S : \A k \in S : k <= n
            BY <2>1, GreatestExists
        <2>3. PICK v \in vs : v.seq = n
            OBVIOUS
        <2>4. newest \in vs
            BY <2>2, <2>3
        <2>5. newest.seq <= s
            BY <2>4 DEF Upto
        <2> QED BY <1>2, <2>5 DEF Live
    <1> QED BY <1>1, <1>2

\* A read that sees every version of a document finds the newest write of it.
LEMMA NewestFound ==
    ASSUME ReadInv, NEW d \in Doc, d \notin dead, NEW s,
           \A e \in log : e.doc = d => e.seq <= s,
           Live(Upto(d, s)) # 0
    PROVE  \E e \in log : /\ e.doc = d /\ Newest(e)
                          /\ Live(Upto(d, s)) = e.seq
    <1> USE DEF ReadInv, CommitInv, LockInv
    <1> DEFINE vs == Upto(d, s)
               es == {e \in log : e.doc = d}
               S == {e.seq : e \in es}
    <1>1. /\ \A e \in log : /\ e.seq \in Int /\ e.seq \in 0..MaxSeq /\ e.seq <= MaxSeq
                            /\ e.live \in BOOLEAN
          /\ MaxSeq \in Nat
        BY Numbers DEF TypeOK
    <1>2. ASSUME NEW v \in vs PROVE \E e \in es : e.seq = v.seq /\ e.live = v.live
        <2>1. v \in versions /\ v.doc = d
            BY DEF Upto
        <2>2. PICK e \in log : e.doc = v.doc /\ e.seq = v.seq /\ e.live = v.live
            BY <2>1 DEF StoreKnows, VersionsLogged
        <2> QED BY <2>1, <2>2
    <1>3. vs # {}
        BY DEF Live
    <1>4. S \subseteq Nat /\ S # {} /\ \A n \in S : n <= MaxSeq
        BY <1>1, <1>2, <1>3
    <1>5. PICK n \in S : \A m \in S : m <= n
        BY <1>1, <1>4, GreatestExists
    <1>6. PICK e \in es : e.seq = n
        OBVIOUS
    <1>7. Newest(e) /\ e \in log /\ e.doc = d
        BY <1>5, <1>6 DEF Newest
    <1>8. AsVersion(e) \in versions
        <2>1. CASE setting.bitmap
            <3>1. e.live /\ [doc |-> e.doc, seq |-> e.seq, live |-> TRUE] \in versions
                BY <1>7, <2>1 DEF StoreKnows, NewestKept
            <3>2. e.live = TRUE
                BY <1>1, <1>7, <3>1
            <3> QED BY <3>1, <3>2 DEF AsVersion
        <2>2. CASE ~setting.bitmap
            BY <1>7, <2>2 DEF TombstonesKept
        <2> QED BY <2>1, <2>2
    <1>9. AsVersion(e) \in vs
        BY <1>7, <1>8 DEF Upto, AsVersion
    <1>10. AsVersion(e).seq = e.seq /\ AsVersion(e).live = e.live
        BY DEF AsVersion
    <1>11. ASSUME NEW w \in vs
           PROVE  /\ w.seq \in Int /\ w.seq <= AsVersion(e).seq
                  /\ w.seq = AsVersion(e).seq => w = AsVersion(e)
        <2>1. PICK f \in es : f.seq = w.seq /\ f.live = w.live
            BY <1>2
        <2>2. w.seq \in Int /\ w.seq <= e.seq
            BY <1>1, <1>5, <1>6, <2>1
        <2>3. w \in Entry /\ w.doc = d
            BY DEF Upto, TypeOK
        <2>4. ASSUME w.seq = e.seq PROVE w = AsVersion(e)
            <3>1. f = e
                BY <1>7, <2>1, <2>4 DEF StoreKnows, LogOnce
            <3> QED BY <1>7, <2>1, <2>3, <2>4, <3>1 DEF Entry, AsVersion
        <2> QED BY <1>10, <2>2, <2>4
    <1> HIDE DEF vs
    <1>12. Live(vs) = IF e.live THEN e.seq ELSE 0
        BY <1>9, <1>10, <1>11, LiveIsNewest
    <1> QED BY <1>7, <1>12 DEF vs

\* What SnapshotReads says of one read.
SnapshotFits(t, r) ==
    /\ r.value.base <= txn[t].begun /\ r.value.field <= txn[t].begun
    /\ Replaced(t, r.doc) \/ r.value.base = AsOf(r.doc, txn[t].begun)
    /\ Settled(t, r.doc) =>
           r.value.field = IF r.value.base # 0 /\ delta[r.doc].live
                           THEN delta[r.doc].seq ELSE r.value.base

LEMMA SnapshotReadsIs ==
    SnapshotReads <=> \A t \in Txn : uses_snapshot(txn[t].isolation) =>
                          \A r \in reads[t] : SnapshotFits(t, r)
    BY DEF SnapshotReads, SnapshotFits

\* A read fits as long as its document has the same row, and what is written is later.
LEMMA FitsStays ==
    ASSUME NEW t \in Txn, NEW r, SnapshotFits(t, r), setting' = setting,
           txn'[t].begun = txn[t].begun, txn'[t].snapshot = txn[t].snapshot,
           log \subseteq log', \A e \in log' \ log : ~(e.seq <= txn[t].begun),
           Settled(t, r.doc)' => delta'[r.doc] = delta[r.doc]
    PROVE  SnapshotFits(t, r)'
    <1>1. {e \in log' : e.doc = r.doc /\ e.seq <= txn[t].begun}
          = {e \in log : e.doc = r.doc /\ e.seq <= txn[t].begun}
        OBVIOUS
    <1>2. (AsOf(r.doc, txn[t].begun))' = AsOf(r.doc, txn[t].begun)
        <2>1. (AsOf(r.doc, txn[t].begun))'
              = Live({e \in log' : e.doc = r.doc /\ e.seq <= txn'[t].begun})
            BY DEF AsOf
        <2>2. AsOf(r.doc, txn[t].begun)
              = Live({e \in log : e.doc = r.doc /\ e.seq <= txn[t].begun})
            BY DEF AsOf
        <2> QED BY ONLY <1>1, <2>1, <2>2, txn'[t].begun = txn[t].begun
    <1>3. Replaced(t, r.doc) => Replaced(t, r.doc)'
        BY DEF Replaced
    <1>4. Settled(t, r.doc)' => Settled(t, r.doc)
        BY DEF Settled
    <1> QED BY <1>2, <1>3, <1>4 DEF SnapshotFits

\* What is said of the reads and the numbers, apart from who is alone.
StoreReads ==
    /\ PrimaryLast /\ SnapshotsTaken /\ TombstonesKept /\ PatchesNewest
    /\ FieldsGiven /\ NoPatches /\ SnapshotReads /\ PatchOverBase

\* Writes get numbers that no snapshot and no read covers.
LEMMA ApplyKeepsReads ==
    ASSUME ReadInv, NEW ops \in [Doc -> Op], NEW by \in Txn \cup {None}, Apply(ops, by),
           setting' = setting, reads' = reads,
           \A t \in Txn : /\ txn'[t].snapshot = txn[t].snapshot
                          /\ txn'[t].begun = txn[t].begun
                          /\ txn'[t].isolation = txn[t].isolation
    PROVE  StoreReads'
    <1> USE DEF ReadInv, CommitInv, LockInv
    <1> DEFINE D == Written(ops)
               puts == {d \in D : ops[d] = "put"}
    <1>1. PICK n \in {0, 1} :
              /\ seq' = seq + 1 + n /\ delta' = Unpatched(D, seq + 1 + n)
              /\ n = 1 => Patched(D) # {}
        BY DEF Apply, DeltaNumbers
    <1>2. /\ primarySeq' = seq + 1
          /\ versions' = Store(IF setting.bitmap THEN puts ELSE D, puts)
          /\ log' = log \cup
                 {[doc |-> d, seq |-> seq + 1, live |-> d \in puts, by |-> by] : d \in D}
        BY DEF Apply
    <1>3. /\ log \subseteq log'
          /\ \A e \in log' \ log : e.doc \in D /\ e.seq = seq + 1
          /\ \A e \in log : e.seq < seq + 1
        BY ApplyLogs
    <1>4. /\ seq \in Nat /\ seq <= seq' /\ seq' \in Nat
          /\ \A e \in log : e.seq \in Int
          /\ \A t \in Txn : txn[t].begun \in Int /\ txn[t].snapshot \in Int
        BY <1>1, Numbers DEF TypeOK, Transaction, Seqs
    <1>5. D \subseteq Doc
        BY DEF Written
    <1> HIDE DEF D, puts
    <1>6. PrimaryLast'
        BY <1>2, <1>3, <1>4 DEF PrimaryLast
    <1>7. SnapshotsTaken'
        <2> SUFFICES ASSUME NEW t \in Txn
                     PROVE  /\ txn'[t].snapshot <= txn'[t].begun /\ txn'[t].begun <= seq'
                            /\ \A e \in log' : e.seq <= txn'[t].begun => e.seq <= txn'[t].snapshot
            BY DEF SnapshotsTaken
        <2>1. txn[t].snapshot <= txn[t].begun /\ txn[t].begun <= seq
            BY DEF SnapshotsTaken
        <2>2. \A e \in log' \ log : ~(e.seq <= txn[t].begun)
            BY <1>3, <1>4, <2>1
        <2> QED BY <1>4, <2>1, <2>2 DEF SnapshotsTaken
    <1>8. TombstonesKept'
        <2> SUFFICES ASSUME ~setting.bitmap, NEW e \in log', Newest(e)' \/ ~setting.compacts
                     PROVE  AsVersion(e) \in versions'
            BY DEF TombstonesKept
        <2>1. versions' = Store(D, puts)
            BY <1>2
        <2>2. CASE e \in log
            <3>1. Newest(e) \/ ~setting.compacts
                BY <1>3 DEF Newest
            <3> QED BY <2>1, <2>2, <3>1 DEF TombstonesKept, Store
        <2>3. CASE e \notin log
            <3>1. PICK d \in D : e = [doc |-> d, seq |-> seq + 1, live |-> d \in puts, by |-> by]
                BY <1>2, <2>3
            <3>2. AsVersion(e) = [doc |-> d, seq |-> seq + 1, live |-> d \in puts]
                BY <3>1 DEF AsVersion
            <3> QED BY <2>1, <3>2 DEF Store
        <2> QED BY <2>2, <2>3
    <1>9. PatchesNewest'
        <2> SUFFICES ASSUME NEW d \in Doc, delta'[d].live, NEW e \in log', e.doc = d
                     PROVE  e.seq < delta'[d].seq
            BY DEF PatchesNewest
        <2>1. d \notin Patched(D) /\ delta'[d] = delta[d]
            BY <1>1 DEF Unpatched
        <2>2. d \notin D
            BY <2>1 DEF Patched
        <2>3. e \in log
            BY <1>3, <2>2
        <2> QED BY <2>1, <2>3 DEF PatchesNewest
    <1>10. FieldsGiven'
        <2> SUFFICES ASSUME NEW t \in Txn, NEW r \in reads[t],
                            r.value.field \notin {0, r.value.base}
                     PROVE  r.value.field <= seq'
            BY DEF FieldsGiven
        <2>1. r.value.field <= seq /\ r.value.field \in Int
            BY Numbers DEF FieldsGiven, TypeOK, Value, Seqs
        <2> QED BY <1>4, <2>1
    <1>11. NoPatches'
        <2> SUFFICES ASSUME ~setting.patches
                     PROVE  primarySeq' = seq' /\ \A d \in Doc : ~delta'[d].live
            BY DEF NoPatches
        <2>1. Patched(D) = {}
            BY <1>5 DEF NoPatches, Patched
        <2> QED BY <1>1, <1>2, <1>4, <2>1 DEF NoPatches, Unpatched
    <1>12. SnapshotReads'
        <2> SUFFICES ASSUME NEW t \in Txn, uses_snapshot(txn[t].isolation), NEW r \in reads[t]
                     PROVE  SnapshotFits(t, r)'
            BY DEF SnapshotReads, SnapshotFits
        <2>1. SnapshotFits(t, r) /\ r.doc \in Doc
            BY SnapshotReadsIs DEF TypeOK
        <2>2. \A e \in log' \ log : ~(e.seq <= txn[t].begun)
            BY <1>3, <1>4 DEF SnapshotsTaken
        <2>3. ASSUME Settled(t, r.doc)' PROVE delta'[r.doc] = delta[r.doc]
            <3>1. CASE r.doc \in Patched(D)
                <4>1. delta'[r.doc] = [seq |-> seq + 1 + n, live |-> FALSE]
                    BY <1>1, <2>1, <3>1 DEF Unpatched
                <4>2. seq + 1 + n # 0
                    BY <1>4
                <4> QED BY <2>3, <4>1, <4>2 DEF Settled, NoRow
            <3>2. CASE r.doc \notin Patched(D)
                BY <1>1, <2>1, <3>2 DEF Unpatched
            <3> QED BY <3>1, <3>2
        <2> QED BY <1>3, <2>1, <2>2, <2>3, FitsStays
    <1>13. PatchOverBase'
        <2> SUFFICES ASSUME NEW t \in Txn, NEW r \in reads[t],
                            r.value.field \notin {0, r.value.base},
                            NEW e \in log' \ log
                     PROVE  r.value.field < e.seq
            BY DEF PatchOverBase
        <2>1. r.value.field <= seq /\ r.value.field \in Int
            BY Numbers DEF FieldsGiven, TypeOK, Value, Seqs
        <2> QED BY <1>3, <1>4, <2>1
    <1> QED BY <1>6, <1>7, <1>8, <1>9, <1>10, <1>11, <1>12, <1>13 DEF StoreReads

\* What SnapshotReads, PatchOverBase and FieldsGiven say of one transaction.
ReadsFit(t) ==
    \A r \in reads[t] :
        /\ uses_snapshot(txn[t].isolation) => SnapshotFits(t, r)
        /\ r.value.field \notin {0, r.value.base} =>
               /\ r.value.field <= seq /\ r.value.base < r.value.field
               /\ \A e \in log : e.doc = r.doc =>
                      e.seq <= r.value.base \/ r.value.field < e.seq

\* A step of one transaction that writes nothing.
LEMMA OneReads ==
    ASSUME ReadInv, UNCHANGED <<dbVars, setting, log>>, NEW t \in Txn,
           \A u \in Txn : u # t => txn'[u] = txn[u] /\ reads'[u] = reads[u],
           txn'[t].snapshot <= txn'[t].begun, txn'[t].begun <= seq,
           \A e \in log : e.seq <= txn'[t].begun => e.seq <= txn'[t].snapshot,
           ReadsFit(t)'
    PROVE  StoreReads'
    <1> USE DEF ReadInv, dbVars
    <1>1. PrimaryLast' /\ TombstonesKept' /\ PatchesNewest' /\ NoPatches'
        BY DEF PrimaryLast, TombstonesKept, PatchesNewest, NoPatches, Newest
    <1>2. SnapshotsTaken'
        BY DEF SnapshotsTaken
    <1>3. FieldsGiven'
        BY DEF FieldsGiven, ReadsFit
    <1>4. SnapshotReads'
        <2> SUFFICES ASSUME NEW u \in Txn, uses_snapshot(txn'[u].isolation), NEW r \in reads'[u]
                     PROVE  SnapshotFits(u, r)'
            BY DEF SnapshotReads, SnapshotFits
        <2>1. CASE u = t
            BY <2>1 DEF ReadsFit
        <2>2. CASE u # t
            <3>1. SnapshotFits(u, r)
                BY <2>2, SnapshotReadsIs
            <3> QED BY <2>2, <3>1, FitsStays
        <2> QED BY <2>1, <2>2
    <1>5. PatchOverBase'
        BY DEF PatchOverBase, ReadsFit
    <1> QED BY <1>1, <1>2, <1>3, <1>4, <1>5 DEF StoreReads

\* A patch that a read lays over a version is of that version.
LEMMA ReadLaysOver ==
    ASSUME ReadInv, NEW d \in Doc, NEW s \in Seqs, NEW value,
           value \in {get(d), get_at(d, s)}, value.field \notin {0, value.base}
    PROVE  /\ value.field <= seq /\ value.base < value.field
           /\ \A e \in log : e.doc = d => e.seq <= value.base
    <1> USE DEF ReadInv, CommitInv, LockInv
    <1>1. /\ \A e \in log : e.seq \in Int /\ e.seq <= seq
          /\ seq \in Int /\ s \in Int
          /\ delta[d].seq \in Int /\ delta[d].seq <= seq
        BY Numbers DEF TypeOK, Row, Seqs
    <1>2. PICK n : /\ n \in {s, seq}
                   /\ value.base = Live(Upto(d, n)) /\ value.base # 0
                   /\ value.field = delta[d].seq
                   /\ delta[d].live /\ d \notin dead
                   /\ n = seq \/ delta[d].seq <= n
        <2>1. CASE value = get(d)
            BY <2>1 DEF get, NoDoc
        <2>2. CASE value = get_at(d, s)
            BY <1>1, <2>2 DEF get_at, NoDoc
        <2> QED BY <2>1, <2>2
    <1>3. \A e \in log : e.doc = d => e.seq < delta[d].seq
        BY <1>2 DEF PatchesNewest
    <1>4. \A e \in log : e.doc = d => e.seq <= n
        BY <1>1, <1>2, <1>3
    <1>5. PICK e \in log : e.doc = d /\ Newest(e) /\ value.base = e.seq
        BY <1>2, <1>4, NewestFound
    <1> QED BY <1>1, <1>2, <1>3, <1>5 DEF Newest

LEMMA GetKeepsReads ==
    ASSUME ReadInv, NEW t \in Txn, NEW d \in Doc, txn_get(t, d)
    PROVE  StoreReads' /\ UNCHANGED alone
           /\ \A u \in Txn : txn'[u].status = txn[u].status /\ txn'[u].snapshot = txn[u].snapshot
    <1> USE DEF ReadInv, CommitInv, LockInv
    <1> DEFINE level == txn[t].isolation
               value == IF uses_snapshot(level) THEN get_at(d, txn[t].snapshot) ELSE get(d)
    <1>1. /\ UNCHANGED <<dbVars, setting, log, alone>>
          /\ \/ UNCHANGED <<txn, reads>>
             \/ /\ \E c : txn' = [txn EXCEPT ![t].snap_cache = c]
                /\ reads' = [reads EXCEPT ![t] = @ \cup {[doc |-> d, value |-> value]}]
        BY DEF txn_get
    <1>2. txn[t].snapshot \in Seqs
        BY DEF TypeOK, Transaction
    <1>3. /\ \A u \in Txn : /\ txn'[u].snapshot = txn[u].snapshot
                            /\ txn'[u].begun = txn[u].begun
                            /\ txn'[u].isolation = txn[u].isolation
                            /\ txn'[u].status = txn[u].status
          /\ \A u \in Txn : u # t => txn'[u] = txn[u] /\ reads'[u] = reads[u]
        BY <1>1 DEF TypeOK, Transaction
    <1>4. \A r \in reads'[t] : r \in reads[t] \/ r = [doc |-> d, value |-> value]
        BY <1>1 DEF TypeOK
    <1>5. value \in {get(d), get_at(d, txn[t].snapshot)}
        OBVIOUS
    <1>6. ASSUME uses_snapshot(level)
          PROVE  /\ value.base <= txn[t].begun /\ value.field <= txn[t].begun
                 /\ Replaced(t, d) \/ value.base = AsOf(d, txn[t].begun)
                 /\ Settled(t, d) => value.field = IF value.base # 0 /\ delta[d].live
                                                   THEN delta[d].seq ELSE value.base
        <2> DEFINE s == txn[t].snapshot
        <2>1. value = get_at(d, s)
            BY <1>6
        <2>2. /\ s \in Nat /\ txn[t].begun \in Nat /\ s <= txn[t].begun
              /\ delta[d].seq \in Nat
            BY Numbers DEF TypeOK, Transaction, Row, Seqs, SnapshotsTaken
        <2> HIDE DEF s
        <2>3. Live(Upto(d, s)) <= s /\ Live(Upto(d, s)) \in Nat
            <3>1. Upto(d, s) \in SUBSET Entry
                BY DEF Upto, TypeOK
            <3> QED BY <2>2, <3>1, LiveUpto, LiveIsSeq, Numbers DEF Seqs
        <2>4. /\ value.base \in {0, Live(Upto(d, s))}
              /\ value.field \in {0, Live(Upto(d, s))}
                     \/ (value.field = delta[d].seq /\ ~(delta[d].seq > s))
            BY <2>1 DEF get_at, NoDoc
        <2>5. value.base <= txn[t].begun /\ value.field <= txn[t].begun
            BY <2>2, <2>3, <2>4
        <2>6. Replaced(t, d) \/ value.base = AsOf(d, txn[t].begun)
            BY <2>1, SnapshotFinds DEF s
        <2>7. ASSUME Settled(t, d)
              PROVE  value.field = IF value.base # 0 /\ delta[d].live
                                   THEN delta[d].seq ELSE value.base
            <3>1. CASE d \in dead \/ Live(Upto(d, s)) = 0
                BY <2>1, <3>1 DEF get_at, NoDoc
            <3>2. CASE ~(d \in dead \/ Live(Upto(d, s)) = 0) /\ delta[d] = NoRow
                BY <2>1, <3>2 DEF get_at, NoRow
            <3>3. CASE /\ ~(d \in dead \/ Live(Upto(d, s)) = 0)
                       /\ delta[d].live /\ delta[d].seq <= s
                <4>1. delta[d] # NoRow /\ ~(delta[d].seq > s)
                    BY <2>2, <3>3 DEF NoRow
                <4> QED BY <2>1, <3>3, <4>1 DEF get_at
            <3> QED BY <2>7, <3>1, <3>2, <3>3 DEF Settled, s
        <2> QED BY <2>5, <2>6, <2>7
    <1> HIDE DEF value
    <1>7. ReadsFit(t)'
        <2> SUFFICES ASSUME NEW r \in reads'[t]
                     PROVE  /\ uses_snapshot(level) => SnapshotFits(t, r)
                            /\ r.value.field \notin {0, r.value.base} =>
                                  /\ r.value.field <= seq /\ r.value.base < r.value.field
                                  /\ \A e \in log : e.doc = r.doc =>
                                         e.seq <= r.value.base \/ r.value.field < e.seq
            <3>1. ASSUME NEW r \in reads'[t], SnapshotFits(t, r)
                  PROVE  SnapshotFits(t, r)'
                BY <1>1, <1>3, <3>1, FitsStays DEF dbVars
            <3> QED BY <1>1, <1>3, <3>1 DEF ReadsFit, dbVars
        <2>1. CASE r \in reads[t]
            BY <2>1, SnapshotReadsIs DEF FieldsGiven, PatchOverBase
        <2>2. CASE r = [doc |-> d, value |-> value]
            <3>1. r.doc = d /\ r.value = value
                BY <2>2
            <3>2. r.value.field \notin {0, r.value.base} =>
                        /\ r.value.field <= seq /\ r.value.base < r.value.field
                        /\ \A e \in log : e.doc = d => e.seq <= r.value.base
                BY <1>2, <1>5, <3>1, ReadLaysOver
            <3>3. uses_snapshot(level) => SnapshotFits(t, r)
                BY <1>6, <3>1 DEF SnapshotFits
            <3> QED BY <3>1, <3>2, <3>3
        <2> QED BY <1>4, <2>1, <2>2
    <1>8. /\ txn'[t].snapshot <= txn'[t].begun /\ txn'[t].begun <= seq
          /\ \A e \in log : e.seq <= txn'[t].begun => e.seq <= txn'[t].snapshot
        BY <1>3 DEF SnapshotsTaken
    <1> QED BY <1>1, <1>3, <1>7, <1>8, OneReads

LEMMA BeginKeepsReads ==
    ASSUME ReadInv, NEW t \in Txn, txn_begin(t)
    PROVE  StoreReads'
    <1> USE DEF ReadInv, CommitInv, LockInv
    <1>1. /\ txn[t].status = "new"
          /\ txn' = [txn EXCEPT ![t].status = "active",
                                ![t].snapshot = begin_snapshot, ![t].begun = seq]
          /\ UNCHANGED <<dbVars, setting, log, reads>>
        BY DEF txn_begin
    <1>2. /\ txn'[t].snapshot = primarySeq /\ txn'[t].begun = seq
          /\ \A u \in Txn : u # t => txn'[u] = txn[u]
        BY <1>1 DEF TypeOK, Transaction, begin_snapshot
    <1>3. reads'[t] = {}
        BY <1>1 DEF ReadsOfTheLiving
    <1>4. primarySeq <= seq /\ seq <= seq
        BY Numbers
    <1> QED BY <1>1, <1>2, <1>3, <1>4, OneReads DEF PrimaryLast, ReadsFit

LEMMA DropKeepsReads ==
    ASSUME ReadInv, NEW t \in Txn, NEW status, Drop(t, status),
           UNCHANGED <<dbVars, setting, log>>
    PROVE  StoreReads'
    <1> USE DEF ReadInv, CommitInv, LockInv
    <1>1. PICK r : /\ txn' = [txn EXCEPT ![t] = r]
                   /\ r = [Fresh(txn[t].isolation) EXCEPT !.status = status]
        BY DEF Drop
    <1>2. r.snapshot = 0 /\ r.begun = 0
        BY <1>1 DEF Fresh
    <1>3. /\ txn'[t] = r /\ reads'[t] = {}
          /\ \A u \in Txn : u # t => txn'[u] = txn[u] /\ reads'[u] = reads[u]
        BY <1>1 DEF TypeOK, Drop
    <1>4. 0 <= seq /\ \A e \in log : ~(e.seq <= 0)
        BY Numbers DEF TypeOK
    <1> QED BY <1>2, <1>3, <1>4, OneReads DEF ReadsFit

\* A patch is newer than all there is.
LEMMA PatchKeepsReads ==
    ASSUME ReadInv, NEW d \in Doc, Patch(d)
    PROVE  StoreReads'
    <1> USE DEF ReadInv, CommitInv, LockInv
    <1>1. /\ setting.patches
          /\ seq' = seq + 1 /\ delta' = [delta EXCEPT ![d] = [seq |-> seq + 1, live |-> TRUE]]
          /\ UNCHANGED <<primarySeq, versions, dead, setting, txn, log, reads>>
        BY DEF Patch
    <1>2. /\ seq \in Int /\ \A e \in log : e.seq \in Int /\ e.seq <= seq
          /\ \A t \in Txn : txn[t].begun \in Int
        BY Numbers DEF TypeOK, Transaction, Seqs
    <1>3. /\ PrimaryLast' /\ TombstonesKept'
          /\ SnapshotReads' /\ PatchOverBase'
        <2>1. PrimaryLast' /\ TombstonesKept'
            BY <1>1 DEF PrimaryLast, TombstonesKept, Newest
        <2>2. SnapshotReads'
            <3> SUFFICES ASSUME NEW t \in Txn, uses_snapshot(txn[t].isolation), NEW r \in reads[t]
                         PROVE  SnapshotFits(t, r)'
                BY <1>1 DEF SnapshotReads, SnapshotFits
            <3>1. SnapshotFits(t, r)
                BY SnapshotReadsIs
            <3>2. ASSUME Settled(t, r.doc)' PROVE delta'[r.doc] = delta[r.doc]
                <4>1. CASE r.doc = d
                    <5>1. delta'[d] = [seq |-> seq + 1, live |-> TRUE]
                        BY <1>1 DEF TypeOK
                    <5>2. txn[t].snapshot \in Nat /\ txn[t].snapshot <= seq
                        BY <1>2, Numbers DEF TypeOK, Transaction, Seqs
                    <5>3. delta'[d] # NoRow
                        BY <5>1 DEF NoRow
                    <5>4. delta'[d].seq = seq + 1
                        BY <5>1
                    <5> QED BY <1>1, <1>2, <3>2, <4>1, <5>2, <5>3, <5>4 DEF Settled
                <4>2. CASE r.doc # d
                    BY <1>1, <4>2
                <4> QED BY <4>1, <4>2
            <3> QED BY <1>1, <3>1, <3>2, FitsStays
        <2>3. PatchOverBase'
            BY <1>1 DEF PatchOverBase
        <2> QED BY <2>1, <2>2, <2>3
    <1>4. SnapshotsTaken'
        BY <1>1, <1>2 DEF SnapshotsTaken
    <1>5. PatchesNewest'
        <2>1. \A e \in Doc : delta'[e] = IF e = d THEN [seq |-> seq + 1, live |-> TRUE] ELSE delta[e]
            BY <1>1 DEF TypeOK
        <2> QED BY <1>1, <1>2, <2>1 DEF PatchesNewest
    <1>6. FieldsGiven'
        <2> SUFFICES ASSUME NEW t \in Txn, NEW r \in reads[t],
                            r.value.field \notin {0, r.value.base}
                     PROVE  r.value.field <= seq + 1
            BY <1>1 DEF FieldsGiven
        <2>1. r.value.field <= seq /\ r.value.field \in Int
            BY Numbers DEF FieldsGiven, TypeOK, Value, Seqs
        <2> QED BY <1>2, <2>1
    <1>7. NoPatches'
        BY <1>1 DEF NoPatches
    <1> QED BY <1>3, <1>4, <1>5, <1>6, <1>7 DEF StoreReads

\* A merge drops what is replaced, never the newest tombstone.
LEMMA CompactKeepsReads ==
    ASSUME ReadInv, Compact
    PROVE  StoreReads'
    <1> USE DEF ReadInv, CommitInv, LockInv
    <1>1. PICK v \in Droppable : versions' = versions \ {v}
        BY DEF Compact
    <1>2. setting.compacts /\ UNCHANGED <<seq, primarySeq, delta, setting, txn, log, reads>>
        BY DEF Compact
    <1>3. TombstonesKept'
        <2> SUFFICES ASSUME ~setting.bitmap, NEW e \in log, Newest(e), v = AsVersion(e)
                     PROVE  FALSE
            BY <1>1, <1>2 DEF TombstonesKept, Newest
        <2>1. v.doc = e.doc /\ v.seq = e.seq /\ v.doc \notin dead
            BY DEF AsVersion, StoreKnows, BitmapOnly
        <2>2. PICK w \in versions : w.doc = v.doc /\ v.seq < w.seq
            BY <2>1 DEF Droppable
        <2>3. PICK f \in log : f.doc = w.doc /\ f.seq = w.seq
            BY DEF StoreKnows, VersionsLogged
        <2>4. f.seq <= e.seq /\ f.seq \in Int /\ e.seq \in Int
            BY <2>1, <2>2, <2>3, Numbers DEF Newest, TypeOK
        <2> QED BY <2>1, <2>2, <2>3, <2>4
    <1>4. PrimaryLast' /\ SnapshotsTaken' /\ PatchesNewest' /\ FieldsGiven' /\ NoPatches'
        BY <1>2 DEF PrimaryLast, SnapshotsTaken, PatchesNewest, FieldsGiven, NoPatches
    <1>5. SnapshotReads'
        <2> SUFFICES ASSUME NEW t \in Txn, uses_snapshot(txn[t].isolation), NEW r \in reads[t]
                     PROVE  SnapshotFits(t, r)'
            BY <1>2 DEF SnapshotReads, SnapshotFits
        <2>1. SnapshotFits(t, r)
            BY SnapshotReadsIs
        <2> QED BY <1>2, <2>1, FitsStays
    <1>6. PatchOverBase'
        BY <1>2 DEF PatchOverBase
    <1> QED BY <1>3, <1>4, <1>5, <1>6 DEF StoreReads

\* A transaction that is alone commits whatever it has written.
LEMMA AloneCommits ==
    ASSUME ReadInv, ~(setting.bitmap /\ setting.patches), NEW t \in alone,
           NEW D \in SUBSET Doc
    PROVE  Commits(t, D)
    <1> USE DEF ReadInv, CommitInv, LockInv
    <1>1. /\ t \in Txn /\ txn[t].snapshot = primarySeq
          /\ \A u \in Txn : u # t => ~Active(u)
        BY DEF AloneIs, TypeOK
    <1>2. ASSUME NEW d \in D PROVE Grants(t, d, "exclusive")
        <2>1. \A u \in Txn : u # t => held[u] = {}
            BY <1>1 DEF OnlyReadersHoldLocks
        <2>2. holders[d] \subseteq {t}
            BY <2>1 DEF OnlyReadersHoldLocks, HeldMatches, TypeOK, TableTypeOK
        <2> QED BY <2>2 DEF Grants, OnlyReadersHoldLocks
    <1>3. ASSUME NEW d \in D PROVE last_write_seq(d) <= txn[t].snapshot
        <2>1. primarySeq \in Nat /\ seq \in Nat /\ \A e \in log : e.seq \in Int /\ e.seq <= seq
            BY Numbers DEF TypeOK
        <2>2. CASE d \in dead
            <3>1. seq = primarySeq
                BY <2>2 DEF StoreKnows, BitmapOnly, NoPatches
            <3> QED BY <1>1, <2>1, <2>2, <3>1 DEF last_write_seq
        <2>3. CASE d \notin dead /\ Live(Upto(d, seq)) # 0
            <3>1. PICK e \in log : Live(Upto(d, seq)) = e.seq
                BY <2>1, <2>3, NewestFound
            <3> QED BY <1>1, <2>3, <3>1 DEF last_write_seq, PrimaryLast
        <2>4. CASE d \notin dead /\ Live(Upto(d, seq)) = 0
            BY <1>1, <2>1, <2>4 DEF last_write_seq
        <2> QED BY <2>2, <2>3, <2>4
    <1> QED BY <1>2, <1>3 DEF Commits, Locks, Unchanged

LEMMA ReadInvNext == ReadInv /\ [Next]_vars => ReadInv'
    <1> SUFFICES ASSUME ReadInv, [Next]_vars
                 PROVE  StoreReads' /\ AloneIs'
        BY CommitInvNext DEF ReadInv, StoreReads
    <1> USE DEF ReadInv, CommitInv, LockInv
    <1>1. ASSUME NEW d \in Doc, NEW op \in Op \ {"none"}, Write(d, op)
          PROVE  StoreReads' /\ AloneIs'
        <2> DEFINE ops == [e \in Doc |-> IF e = d THEN op ELSE "none"]
        <2>1. ops \in [Doc -> Op] /\ Apply(ops, None)
            BY <1>1 DEF Write, Op
        <2> HIDE DEF ops
        <2>2. setting' = setting /\ reads' = reads /\ txn' = txn /\ alone' = {}
            BY <1>1 DEF Write
        <2>3. StoreReads'
            BY <2>1, <2>2, ApplyKeepsReads
        <2> QED BY <2>2, <2>3 DEF AloneIs
    <1>2. ASSUME NEW d \in Doc, Patch(d)
          PROVE  StoreReads' /\ AloneIs'
        BY <1>2, PatchKeepsReads DEF Patch, AloneIs
    <1>3. CASE Compact
        <2>1. UNCHANGED <<setting, txn, primarySeq, alone>>
            BY <1>3 DEF Compact
        <2> QED BY <1>3, <2>1, CompactKeepsReads DEF AloneIs, Active
    <1>4. ASSUME NEW t \in Txn, txn_begin(t)
          PROVE  StoreReads' /\ AloneIs'
        <2>1. /\ txn' = [txn EXCEPT ![t].status = "active",
                                    ![t].snapshot = begin_snapshot, ![t].begun = seq]
              /\ alone' = IF \E u \in Txn : Active(u) THEN {} ELSE {t}
              /\ UNCHANGED <<dbVars, setting>>
            BY <1>4 DEF txn_begin
        <2>2. /\ txn'[t].status = "active" /\ txn'[t].snapshot = primarySeq
              /\ \A u \in Txn : u # t => txn'[u] = txn[u]
            BY <2>1 DEF TypeOK, Transaction, begin_snapshot
        <2>3. AloneIs'
            BY <2>1, <2>2 DEF AloneIs, Active, dbVars
        <2> QED BY <1>4, <2>3, BeginKeepsReads
    <1>5. ASSUME NEW t \in Txn, NEW d \in Doc, txn_get(t, d)
          PROVE  StoreReads' /\ AloneIs'
        <2>1. UNCHANGED <<setting, primarySeq>>
            BY <1>5 DEF txn_get, dbVars
        <2>2. /\ StoreReads' /\ UNCHANGED alone
              /\ \A u \in Txn : /\ txn'[u].status = txn[u].status
                                /\ txn'[u].snapshot = txn[u].snapshot
            BY <1>5, GetKeepsReads
        <2> QED BY <2>1, <2>2 DEF AloneIs, Active, TypeOK
    <1>6. ASSUME NEW t \in Txn, NEW ops \in [Doc -> Op], Refused(t, ops)
          PROVE  StoreReads' /\ AloneIs'
        <2>1. /\ Active(t) /\ ~Commits(t, Written(ops)) /\ Drop(t, "refused")
              /\ UNCHANGED <<dbVars, setting, log, alone>>
            BY <1>6 DEF Refused
        <2>2. Written(ops) \in SUBSET Doc
            BY DEF Written
        <2>3. ~(setting.bitmap /\ setting.patches) => alone = {}
            <3> SUFFICES ASSUME ~(setting.bitmap /\ setting.patches), NEW u \in alone PROVE FALSE
                OBVIOUS
            <3>1. u = t
                BY <2>1 DEF AloneIs
            <3> QED BY <2>1, <2>2, <3>1, AloneCommits
        <2>4. AloneIs'
            BY <2>1, <2>3 DEF AloneIs
        <2> QED BY <2>1, <2>4, DropKeepsReads
    <1>7. ASSUME NEW t \in Txn, txn_rollback(t)
          PROVE  StoreReads' /\ AloneIs'
        <2>1. /\ Drop(t, "rolledback") /\ alone' = alone \ {t} /\ Active(t)
              /\ UNCHANGED <<dbVars, setting, log>>
            BY <1>7 DEF txn_rollback
        <2>2. ~(setting.bitmap /\ setting.patches) => alone' = {}
            BY <2>1 DEF AloneIs
        <2>3. AloneIs'
            BY <2>1, <2>2 DEF AloneIs
        <2> QED BY <2>1, <2>3, DropKeepsReads
    <1>8. ASSUME NEW t \in Txn, NEW ops \in [Doc -> Op], Committed(t, ops)
          PROVE  StoreReads' /\ AloneIs'
        <2>1. /\ Active(t) /\ alone' = alone \ {t} /\ UNCHANGED <<setting, reads>>
              /\ txn' = [txn EXCEPT ![t].status = "committed", ![t].snap_cache = {}]
            BY <1>8 DEF Committed
        <2>2. \A u \in Txn : /\ txn'[u].snapshot = txn[u].snapshot
                             /\ txn'[u].begun = txn[u].begun
                             /\ txn'[u].isolation = txn[u].isolation
            BY <2>1 DEF TypeOK, Transaction
        <2>3. ~(setting.bitmap /\ setting.patches) => alone' = {}
            BY <2>1 DEF AloneIs
        <2>4. AloneIs'
            BY <2>1, <2>3 DEF AloneIs
        <2>5. CASE Written(ops) # {}
            BY <1>8, <2>1, <2>2, <2>4, <2>5, ApplyKeepsReads DEF Committed
        <2>6. CASE Written(ops) = {}
            <3>1. UNCHANGED <<dbVars, log>>
                BY <1>8, <2>6 DEF Committed
            <3>2. \A u \in Txn : u # t => txn'[u] = txn[u] /\ reads'[u] = reads[u]
                BY <2>1 DEF TypeOK
            <3>3. ReadsFit(t)'
                <4> SUFFICES ASSUME NEW r \in reads[t]
                             PROVE  /\ uses_snapshot(txn[t].isolation) => SnapshotFits(t, r)'
                                    /\ r.value.field \notin {0, r.value.base} =>
                                           /\ r.value.field <= seq
                                           /\ r.value.base < r.value.field
                                           /\ \A e \in log : e.doc = r.doc =>
                                                  \/ e.seq <= r.value.base
                                                  \/ r.value.field < e.seq
                    BY <2>1, <2>2, <3>1 DEF ReadsFit, dbVars
                <4>1. uses_snapshot(txn[t].isolation) => SnapshotFits(t, r)
                    BY SnapshotReadsIs
                <4>2. uses_snapshot(txn[t].isolation) => SnapshotFits(t, r)'
                    BY <2>1, <2>2, <3>1, <4>1, FitsStays DEF dbVars
                <4> QED BY <4>2 DEF FieldsGiven, PatchOverBase
            <3>4. /\ txn'[t].snapshot <= txn'[t].begun /\ txn'[t].begun <= seq
                  /\ \A e \in log : e.seq <= txn'[t].begun => e.seq <= txn'[t].snapshot
                BY <2>2 DEF SnapshotsTaken
            <3> QED BY <2>1, <2>4, <3>1, <3>2, <3>3, <3>4, OneReads
        <2> QED BY <2>5, <2>6
    <1>9. CASE UNCHANGED vars
        <2>1. UNCHANGED <<seq, primarySeq, versions, delta, setting, txn, log, reads, alone>>
            BY <1>9 DEF vars, dbVars
        <2>2. PrimaryLast' /\ SnapshotsTaken' /\ PatchesNewest' /\ FieldsGiven' /\ NoPatches'
            BY <2>1 DEF PrimaryLast, SnapshotsTaken, PatchesNewest, FieldsGiven, NoPatches
        <2>3. TombstonesKept' /\ AloneIs'
            BY <2>1 DEF TombstonesKept, Newest, AloneIs, Active
        <2>4. SnapshotReads'
            BY <2>1 DEF SnapshotReads, Replaced, Settled, AsOf, Live
        <2>5. PatchOverBase'
            BY <2>1 DEF PatchOverBase
        <2> QED BY <2>2, <2>3, <2>4, <2>5 DEF StoreReads
    <1> QED BY <1>1, <1>2, <1>3, <1>4, <1>5, <1>6, <1>7, <1>8, <1>9 DEF Next

LEMMA ReadInvAlways == Spec => []ReadInv
    BY ReadInvInit, ReadInvNext, PTL DEF Spec

(***************************************************************************)
(* A snapshot read returns nothing written after its transaction began;    *)
(* the version acknowledged last by then, where deletions are tombstones   *)
(* and nothing is merged also of documents written since, and in every     *)
(* setting of the others; and the document's patch, if the snapshot covers *)
(* it and nothing took its place (begin_snapshot, get_at, snap_cache; run  *)
(* TXIsolation).                                                           *)
(***************************************************************************)
THEOREM SnapshotsHold == Spec => []SnapshotReads
    <1>1. ReadInv => SnapshotReads
        BY DEF ReadInv
    <1> QED BY <1>1, ReadInvAlways, PTL

(***************************************************************************)
(* No read lays a patch over a version it was not made for, in any setting *)
(* (get, get_at; run TXIsolation).                                         *)
(***************************************************************************)
THEOREM PatchesFit == Spec => []PatchOverBase
    <1>1. ReadInv => PatchOverBase
        BY DEF ReadInv
    <1> QED BY <1>1, ReadInvAlways, PTL

(***************************************************************************)
(* A transaction nobody was active beside commits, but for deletions by    *)
(* bitmap together with patches (txn_commit; run TXIsolation).             *)
(***************************************************************************)
THEOREM AloneNeverRefused == Spec => []NeverRefusedAlone
    <1>1. ReadInv => NeverRefusedAlone
        BY DEF ReadInv, AloneIs, NeverRefusedAlone, Active
    <1> QED BY <1>1, ReadInvAlways, PTL

-----------------------------------------------------------------------------
(* The same lock table in the hands of any clients (LockClients).          *)

\* What a client still wants is what the table remembers it was refused.
AsksWaiting == \A t \in Txn : asks[t] # None => waiting[t] = asks[t].doc

Sound == ClientsTypeOK /\ SoundTable /\ AsksWaiting

LEMMA WantsType ==
    ASSUME ClientsTypeOK
    PROVE  /\ Wants \in [Txn -> Doc \cup {None}]
           /\ WaitsFor(Wants) \in [Txn -> SUBSET Txn]
    <1>1. ASSUME NEW t \in Txn
          PROVE  (IF asks[t] = None THEN None ELSE asks[t].doc) \in Doc \cup {None}
        BY DEF ClientsTypeOK, Requests
    <1>2. Wants \in [Txn -> Doc \cup {None}]
        BY <1>1 DEF Wants
    <1>3. ASSUME NEW t \in Txn
          PROVE  (IF Wants[t] = None THEN {} ELSE holders[Wants[t]] \ {t}) \in SUBSET Txn
        BY <1>2 DEF ClientsTypeOK, TableTypeOK
    <1> QED BY <1>2, <1>3 DEF WaitsFor

LEMMA SoundInit == ClientsInit => Sound
    BY TableInitSound, HabitsAssumption
    DEF ClientsInit, Sound, SoundTable, ClientsTypeOK, AsksWaiting

LEMMA SoundNext == Sound /\ [ClientsNext]_clientVars => Sound'
    <1> SUFFICES ASSUME Sound, [ClientsNext]_clientVars PROVE Sound'
        OBVIOUS
    <1> USE DEF Sound, SoundTable, ClientsTypeOK
    <1>1. ASSUME NEW t \in Txn, NEW d \in Doc, NEW mode \in Mode, Ask(t, d, mode)
          PROVE  Sound'
        <2>1. SoundTable'
            BY <1>1, GrantSound, RefuseSound DEF Ask, Acquire
        <2>2. habit' \in Habit /\ asks' \in [Txn -> Requests \cup {None}]
              /\ victims' \in SUBSET Txn
            <3>1. Request(d, mode) \in Requests
                BY DEF Request, Requests
            <3> QED BY <1>1, <3>1 DEF Ask
        <2>3. AsksWaiting'
            <3> SUFFICES ASSUME NEW u \in Txn, asks'[u] # None
                         PROVE  waiting'[u] = asks'[u].doc
                BY DEF AsksWaiting
            <3>1. CASE u = t
                <4>1. ~Grants(t, d, mode) /\ ~Deadlocks(t, d) /\ asks'[t] = Request(d, mode)
                    BY <1>1, <3>1 DEF Ask
                <4>2. waiting'[t] = d
                    BY <1>1, <4>1 DEF Ask, Acquire, Refuse, TableTypeOK
                <4> QED BY <3>1, <4>1, <4>2 DEF Request
            <3>2. CASE u # t
                <4>1. asks'[u] = asks[u]
                    BY <1>1, <3>2 DEF Ask
                <4>2. waiting'[u] = waiting[u]
                    BY <1>1, <3>2 DEF Ask, Acquire, Grant, Refuse, TableTypeOK
                <4> QED BY <4>1, <4>2 DEF AsksWaiting
            <3> QED BY <3>1, <3>2
        <2> QED BY <2>1, <2>2, <2>3
    <1>2. ASSUME NEW t \in Txn, Finish(t)
          PROVE  Sound'
        <2>1. SoundTable'
            BY <1>2, ReleaseSound DEF Finish
        <2>2. habit' \in Habit /\ asks' \in [Txn -> Requests \cup {None}]
              /\ victims' \in SUBSET Txn
            BY <1>2 DEF Finish
        <2>3. AsksWaiting'
            BY <1>2 DEF Finish, Release, AsksWaiting, TableTypeOK
        <2> QED BY <2>1, <2>2, <2>3
    <1>3. CASE UNCHANGED clientVars
        BY <1>3 DEF clientVars, lockVars, TableTypeOK, LocksExclude, HeldMatches, AsksWaiting
    <1> QED BY <1>1, <1>2, <1>3 DEF ClientsNext

\* Every reachable state of the lock table and its clients is typed.
THEOREM ClientsTypeCorrect == ClientsSpec => []ClientsTypeOK
    <1>1. Sound => ClientsTypeOK
        BY DEF Sound
    <1> QED BY <1>1, SoundInit, SoundNext, PTL DEF ClientsSpec

(***************************************************************************)
(* An exclusive lock has one holder, and held and holders agree, whatever  *)
(* is asked, upgraded, refused and released in whatever order.             *)
(***************************************************************************)
THEOREM TableSound == ClientsSpec => [](LocksExclude /\ HeldMatches)
    <1>1. Sound => LocksExclude /\ HeldMatches
        BY DEF Sound, SoundTable
    <1> QED BY <1>1, SoundInit, SoundNext, PTL DEF ClientsSpec

-----------------------------------------------------------------------------
(***************************************************************************)
(* No circle of waiting clients.  A graph has no cycle through a node when *)
(* some closed set holds the node's successors and not the node.  Taking   *)
(* all edges out of one node keeps a graph free of cycles, even if edges   *)
(* into it are added; putting edges in keeps it so if none of the new ones *)
(* leads back.                                                             *)
(***************************************************************************)
NoCycle(g) == \A u \in Txn : ~OnCycle(g, u)

\* The client that is granted a lock or releases its locks waits for nobody.
LEMMA SinkKeepsAcyclic ==
    ASSUME NEW g \in [Txn -> SUBSET Txn], NEW h \in [Txn -> SUBSET Txn],
           NEW t \in Txn, NoCycle(g), h[t] = {},
           \A u \in Txn \ {t} : h[u] \subseteq g[u] \cup {t}
    PROVE  NoCycle(h)
    <1> SUFFICES ASSUME NEW u \in Txn PROVE ~OnCycle(h, u)
        BY DEF NoCycle
    <1>1. CASE u = t
        <2>1. h[u] \subseteq {} /\ Closed(h, {}) /\ u \notin {}
            BY <1>1 DEF Closed
        <2> QED BY <2>1 DEF OnCycle
    <1>2. CASE u # t
        <2>1. PICK S \in SUBSET Txn : g[u] \subseteq S /\ Closed(g, S) /\ u \notin S
            BY DEF NoCycle, OnCycle
        <2> DEFINE R == S \cup {t}
        <2>2. R \in SUBSET Txn /\ h[u] \subseteq R /\ u \notin R
            BY <1>2, <2>1
        <2>3. Closed(h, R)
            BY <2>1 DEF Closed
        <2> QED BY <2>2, <2>3 DEF OnCycle
    <1> QED BY <1>1, <1>2

\* The client that is refused without a deadlock gets new edges.
LEMMA NewEdgesKeepAcyclic ==
    ASSUME NEW g \in [Txn -> SUBSET Txn], NEW h \in [Txn -> SUBSET Txn],
           NEW t \in Txn, NoCycle(g), ~OnCycle(h, t),
           \A u \in Txn \ {t} : h[u] = g[u]
    PROVE  NoCycle(h)
    <1> SUFFICES ASSUME NEW u \in Txn PROVE ~OnCycle(h, u)
        BY DEF NoCycle
    <1>1. PICK T \in SUBSET Txn : h[t] \subseteq T /\ Closed(h, T) /\ t \notin T
        BY DEF OnCycle
    <1>2. CASE u = t
        BY <1>2
    <1>3. CASE u # t
        <2>1. PICK S \in SUBSET Txn : g[u] \subseteq S /\ Closed(g, S) /\ u \notin S
            BY DEF NoCycle, OnCycle
        <2>2. CASE u \in T
            <3> DEFINE R == S \cap T
            <3>1. R \in SUBSET Txn /\ h[u] \subseteq R /\ u \notin R
                BY <1>1, <1>3, <2>1, <2>2 DEF Closed
            <3>2. Closed(h, R)
                BY <1>1, <2>1 DEF Closed
            <3> QED BY <3>1, <3>2 DEF OnCycle
        <2>3. CASE u \notin T
            <3> DEFINE R == S \cup T
            <3>1. R \in SUBSET Txn /\ h[u] \subseteq R /\ u \notin R
                BY <1>3, <2>1, <2>3
            <3>2. Closed(h, R)
                BY <1>1, <2>1 DEF Closed
            <3> QED BY <3>1, <3>2 DEF OnCycle
        <2> QED BY <2>2, <2>3
    <1> QED BY <1>2, <1>3

LEMMA StuckInit == ClientsInit => NobodyStuck
    <1> SUFFICES ASSUME ClientsInit, NEW u \in Txn PROVE ~OnCycle(WaitsFor(Wants), u)
        BY DEF NobodyStuck
    <1>1. \A t \in Txn : Wants[t] = None
        BY DEF ClientsInit, Wants
    <1>2. \A t \in Txn : WaitsFor(Wants)[t] = {}
        BY <1>1 DEF WaitsFor
    <1>3. WaitsFor(Wants)[u] \subseteq {} /\ Closed(WaitsFor(Wants), {}) /\ u \notin {}
        BY <1>2 DEF Closed
    <1> QED BY <1>3 DEF OnCycle

LEMMA StuckNext == Sound /\ Sound' /\ NobodyStuck /\ [ClientsNext]_clientVars => NobodyStuck'
    <1> SUFFICES ASSUME Sound, Sound', NobodyStuck, [ClientsNext]_clientVars PROVE NobodyStuck'
        OBVIOUS
    <1> DEFINE g == WaitsFor(Wants)
               h == WaitsFor(Wants)'
    <1>1. g \in [Txn -> SUBSET Txn] /\ NoCycle(g)
        BY WantsType DEF Sound, NobodyStuck, NoCycle
    <1>2. h \in [Txn -> SUBSET Txn]
        BY DEF Sound, ClientsTypeOK, TableTypeOK, WaitsFor, Wants, Requests
    <1>3. ASSUME NoCycle(h) PROVE NobodyStuck'
        BY <1>3 DEF NobodyStuck, NoCycle, OnCycle, Closed, WaitsFor, Wants
    <1>4. ASSUME NEW t \in Txn, NEW d \in Doc, NEW mode \in Mode, Ask(t, d, mode)
          PROVE  NoCycle(h)
        <2>1. \A u \in Txn \ {t} : Wants'[u] = Wants[u]
            BY <1>4 DEF Ask, Wants, Sound, ClientsTypeOK
        <2>2. CASE Grants(t, d, mode)
            <3>1. Wants'[t] = None
                BY <1>4, <2>2 DEF Ask, Wants, Sound, ClientsTypeOK
            <3>2. \A e \in Doc : holders'[e] \subseteq holders[e] \cup {t}
                BY <1>4, <2>2 DEF Ask, Acquire, Grant, Sound, ClientsTypeOK, TableTypeOK
            <3>3. h[t] = {} /\ \A u \in Txn \ {t} : h[u] \subseteq g[u] \cup {t}
                BY <2>1, <3>1, <3>2, WantsType DEF WaitsFor, Sound
            <3> QED BY <1>1, <1>2, <3>3, SinkKeepsAcyclic
        <2>3. CASE ~Grants(t, d, mode) /\ Deadlocks(t, d)
            <3>1. Wants'[t] = None
                BY <1>4, <2>3 DEF Ask, Wants, Sound, ClientsTypeOK
            <3>2. holders' = holders
                BY <1>4, <2>3 DEF Ask, Acquire, Refuse
            <3>3. h[t] = {} /\ \A u \in Txn \ {t} : h[u] \subseteq g[u] \cup {t}
                BY <2>1, <3>1, <3>2 DEF WaitsFor
            <3> QED BY <1>1, <1>2, <3>3, SinkKeepsAcyclic
        <2>4. CASE ~Grants(t, d, mode) /\ ~Deadlocks(t, d)
            <3> DEFINE w == WaitsFor([waiting EXCEPT ![t] = d])
            <3>1. asks'[t] = Request(d, mode) /\ holders' = holders
                BY <1>4, <2>4 DEF Ask, Acquire, Refuse, Sound, ClientsTypeOK
            <3>2. Wants'[t] = d
                BY <3>1, RequestsAssumption DEF Wants, Request, Requests, Sound, ClientsTypeOK
            <3>3. \A u \in Txn \ {t} : h[u] = g[u]
                BY <2>1, <3>1 DEF WaitsFor
            <3>4. PICK T \in SUBSET Txn : w[t] \subseteq T /\ Closed(w, T) /\ t \notin T
                BY <2>4 DEF Deadlocks, OnCycle
            <3>5. h[t] \subseteq w[t]
                BY <3>1, <3>2 DEF WaitsFor, Sound, ClientsTypeOK, TableTypeOK
            <3>6. \A u \in Txn \ {t} : h[u] \subseteq w[u]
                <4> SUFFICES ASSUME NEW u \in Txn \ {t} PROVE h[u] \subseteq w[u]
                    OBVIOUS
                <4>1. Wants'[u] = None \/ Wants'[u] = waiting[u]
                    BY <2>1 DEF Wants, Sound, AsksWaiting
                <4> QED BY <3>1, <4>1 DEF WaitsFor, Sound, ClientsTypeOK, TableTypeOK
            <3>7. h[t] \subseteq T /\ Closed(h, T)
                BY <3>4, <3>5, <3>6 DEF Closed
            <3>8. ~OnCycle(h, t)
                BY <3>4, <3>7 DEF OnCycle
            <3> QED BY <1>1, <1>2, <3>3, <3>8, NewEdgesKeepAcyclic
        <2> QED BY <2>2, <2>3, <2>4
    <1>5. ASSUME NEW t \in Txn, Finish(t)
          PROVE  NoCycle(h)
        <2>1. Wants'[t] = None /\ \A u \in Txn \ {t} : Wants'[u] = Wants[u]
            BY <1>5 DEF Finish, Wants, Sound, ClientsTypeOK
        <2>2. \A e \in Doc : holders'[e] \subseteq holders[e]
            BY <1>5 DEF Finish, Release, Sound, ClientsTypeOK, TableTypeOK
        <2>3. h[t] = {} /\ \A u \in Txn \ {t} : h[u] \subseteq g[u] \cup {t}
            BY <2>1, <2>2, WantsType DEF WaitsFor, Sound
        <2> QED BY <1>1, <1>2, <2>3, SinkKeepsAcyclic
    <1>6. ASSUME UNCHANGED clientVars
          PROVE  NoCycle(h)
        <2>1. h = g
            BY <1>6 DEF clientVars, lockVars, WaitsFor, Wants
        <2> QED BY <1>1, <2>1
    <1> QED BY <1>3, <1>4, <1>5, <1>6 DEF ClientsNext

(***************************************************************************)
(* Every circle of clients that wait for each other is found when it would *)
(* close, for any number of transactions and documents, shared locks,      *)
(* upgrades and clients that change their minds included.                  *)
(***************************************************************************)
THEOREM NobodyEverStuck == ClientsSpec => []NobodyStuck
    <1>1. ClientsInit => Sound /\ NobodyStuck
        BY SoundInit, StuckInit
    <1>2. Sound /\ NobodyStuck /\ [ClientsNext]_clientVars => Sound' /\ NobodyStuck'
        BY SoundNext, StuckNext
    <1> QED BY <1>1, <1>2, PTL DEF ClientsSpec

-----------------------------------------------------------------------------
(* Sagas                                                                   *)

Running == saga.status \in {"Init", "Executing"}
Undoes == saga.status \in {"Compensating", "Compensated"}
Recorded == ToSet(saga.executed)

(* What the call under way has taken over from the state, which states it  *)
(* can be in, and that only a late call does again what it has undone.     *)
Phases ==
    /\ work.doing \in {"forward", "register"} =>
          Running /\ work.executed = saga.executed /\ ~Cyclic
    /\ work.doing \in {"undo", "undone"} => saga.status = "Compensating"
    /\ work.doing = "undone" =>
          ToUndo # {} /\ (effect[Undoing] = "undone" \/ Undoing \in doubt)
    /\ work.doing # "register" => work.answered = {}
    /\ work.ok \subseteq work.answered

(* Branches are recorded once, each behind those it is built on; so will   *)
(* be those whose answers are there.                                       *)
Plans ==
    /\ \A i, j \in DOMAIN saga.executed : saga.executed[i] = saga.executed[j] => i = j
    /\ \A i \in DOMAIN saga.executed : \A s \in Step :
          Follows(saga.executed[i], s) => \E j \in DOMAIN saga.executed : j < i /\ saga.executed[j] = s
    /\ work.answered \cap Recorded = {}
    /\ \A t \in work.answered, s \in Step : Follows(t, s) => s \in Recorded

(* What is undone is the end of what was recorded, the branch a call has   *)
(* undone and not recorded yet included.                                   *)
Backwards ==
    /\ saga.undone \subseteq Recorded
    /\ \A s \in Step : s \in saga.undone \/ effect[s] = "undone" =>
          /\ Undoes
          /\ \E i \in DOMAIN saga.executed :
                /\ saga.executed[i] = s
                /\ \A j \in DOMAIN saga.executed : j > i => saga.executed[j] \in saga.undone

(* Who answers for what is done, and what an end means.                    *)
Effects ==
    /\ late \subseteq doubt
    /\ \A s \in work.ok : effect[s] = "done"
    /\ \A s \in Step : effect[s] = "done" =>
          s \in doubt \cup overlooked \cup work.ok \cup (Recorded \ saga.undone)
    /\ ~Undoes => \A s \in Recorded : effect[s] = "done"
    /\ saga.status = "Succeeded" => Recorded = Step
    /\ saga.status = "Compensated" => Recorded \subseteq saga.undone

Inv == SagaTypeOK /\ Phases /\ Plans /\ Backwards /\ Effects

-----------------------------------------------------------------------------
(* The plan                                                                *)

(* A nonempty set of numbers has a least element, and a bounded one a      *)
(* greatest.                                                               *)
LEMMA LeastExists ==
    ASSUME NEW S, S \subseteq Nat, S # {}
    PROVE  \E x \in S : \A y \in S : x <= y
<1>1. PICK x \in S : \A y \in S : ~(<<y, x>> \in OpToRel(<, Nat))
    BY NatLessThanWellFounded, WFMin, Zenon
<1>2. ASSUME NEW y \in S PROVE x <= y
    <2>1. <<y, x>> \notin OpToRel(<, Nat) /\ x \in Nat /\ y \in Nat
        BY <1>1
    <2> QED
        BY <2>1 DEF OpToRel
<1> QED
    BY <1>2

LEMMA MinIs ==
    ASSUME NEW S, S \subseteq Nat, S # {}
    PROVE  Min(S) \in S /\ \A y \in S : Min(S) <= y
    BY LeastExists DEF Min

LEMMA MaxIs ==
    ASSUME NEW S, S \subseteq Nat, S # {}, NEW n \in Nat, \A y \in S : y <= n
    PROVE  Max(S) \in S /\ \A y \in S : Max(S) >= y
<1>1. \E x \in S : \A y \in S : x >= y
    BY GreatestExists
<1> QED
    BY <1>1 DEF Max

LEMMA RoundsNat == Rounds \in Nat
    BY StepAssumption, FS_CardinalityType DEF Rounds

(* The definition of Reached has a solution. *)
LEMMA ReachedIs ==
    Reached = [i \in 0..Rounds |->
                  IF i = 0 THEN {} ELSE {s \in Step : deps[s] \subseteq Reached[i - 1]}]
<1> DEFINE Solves(f, n) ==
               f = [i \in 0..n |-> IF i = 0 THEN {} ELSE {s \in Step : deps[s] \subseteq f[i - 1]}]
           Unsolved == {n \in Nat : ~\E f : Solves(f, n)}
<1>1. Unsolved = {}
    <2> SUFFICES ASSUME Unsolved # {} PROVE FALSE
        OBVIOUS
    <2>1. PICK n \in Unsolved : \A m \in Unsolved : n <= m
        <3>1. Unsolved \subseteq Nat
            OBVIOUS
        <3> HIDE DEF Unsolved
        <3> QED
            BY <3>1, LeastExists
    <2>2. n \in Nat /\ ~\E f : Solves(f, n)
        OBVIOUS
    <2>3. CASE n = 0
        <3> DEFINE f == [i \in 0..0 |-> {}]
        <3>1. Solves(f, 0)
            OBVIOUS
        <3> QED
            BY <2>2, <2>3, <3>1
    <2>4. CASE n # 0
        <3>1. n - 1 \in Nat /\ n - 1 \notin Unsolved
            <4>1. n - 1 \in Nat /\ ~(n <= n - 1)
                BY <2>2, <2>4
            <4> HIDE DEF Unsolved
            <4> QED
                BY <2>1, <4>1
        <3>2. PICK g : Solves(g, n - 1)
            BY <3>1
        <3> DEFINE f == [i \in 0..n |->
                IF i = n THEN {s \in Step : deps[s] \subseteq g[n - 1]} ELSE g[i]]
        <3>3. \A i \in 0..n : f[i] = IF i = 0 THEN {} ELSE {s \in Step : deps[s] \subseteq f[i - 1]}
            <4> SUFFICES ASSUME NEW i \in 0..n
                         PROVE  f[i] = IF i = 0 THEN {} ELSE {s \in Step : deps[s] \subseteq f[i - 1]}
                OBVIOUS
            <4>1. CASE i = n
                <5>1. f[n - 1] = g[n - 1]
                    BY <2>2, <2>4
                <5> QED
                    BY <2>2, <2>4, <4>1, <5>1
            <4>2. CASE i # n
                <5>1. i \in 0..(n - 1) /\ (i # 0 => i - 1 \in 0..n /\ i - 1 # n)
                    BY <2>2, <4>2
                <5>2. g[i] = IF i = 0 THEN {} ELSE {s \in Step : deps[s] \subseteq g[i - 1]}
                    BY <3>2, <5>1
                <5>3. f[i] = g[i] /\ (i # 0 => f[i - 1] = g[i - 1])
                    BY <4>2, <5>1
                <5> QED
                    BY <5>2, <5>3
            <4> QED
                BY <4>1, <4>2
        <3>4. Solves(f, n)
            <4>1. f = [i \in 0..n |-> f[i]]
                OBVIOUS
            <4> HIDE DEF f
            <4> QED
                BY <3>3, <4>1
        <3> HIDE DEF f
        <3> QED
            BY <2>2, <3>4
    <2> QED
        BY <2>3, <2>4
<1>2. \E f : Solves(f, Rounds)
    BY <1>1, RoundsNat
<1> QED
    BY <1>2 DEF Reached

LEMMA LayerIs ==
    ASSUME ~Cyclic, deps \in Graphs
    PROVE  /\ \A s \in Step : Layer(s) \in Nat
           /\ \A s, t \in Step : Follows(t, s) => Layer(s) < Layer(t)
<1> DEFINE in(s) == {i \in 0..Rounds : s \in Reached[i]}
<1>1. ASSUME NEW s \in Step PROVE Min(in(s)) \in in(s) /\ \A i \in in(s) : Min(in(s)) <= i
    <2>1. Rounds \in in(s)
        BY RoundsNat DEF Cyclic
    <2>2. in(s) \subseteq Nat
        OBVIOUS
    <2> HIDE DEF in
    <2> QED
        BY <2>1, <2>2, MinIs
<1>2. ASSUME NEW s \in Step PROVE Layer(s) \in Nat
    BY <1>1, StepAssumption DEF Layer
<1>3. ASSUME NEW s \in Step, NEW t \in Step, Follows(t, s) PROVE Layer(s) < Layer(t)
    <2>1. CASE ~has_deps
        BY <1>3, <2>1 DEF Layer, Follows
    <2>2. CASE has_deps
        <3>1. s \in deps[t]
            BY <1>3, <2>2 DEF Follows
        <3>2. Layer(t) \in in(t) /\ Layer(s) = Min(in(s))
            BY <1>1, <2>2 DEF Layer
        <3>3. Layer(t) \in 0..Rounds /\ t \in Reached[Layer(t)]
            BY <3>2
        <3>4. Layer(t) # 0 /\ deps[t] \subseteq Reached[Layer(t) - 1]
            <4> DEFINE l == Layer(t)
            <4>1. Reached[l] = IF l = 0 THEN {} ELSE {u \in Step : deps[u] \subseteq Reached[l - 1]}
                <5> HIDE DEF l
                <5> QED
                    BY <3>3, ReachedIs DEF l
            <4> QED
                BY <3>3, <4>1
        <3>5. Layer(t) - 1 \in in(s)
            BY <3>1, <3>3, <3>4, RoundsNat
        <3>6. Layer(s) <= Layer(t) - 1
            BY <1>1, <3>2, <3>5
        <3> QED
            BY <1>2, <3>6
    <2> QED
        BY <2>1, <2>2
<1> QED
    BY <1>2, <1>3

-----------------------------------------------------------------------------
(* Types                                                                   *)

LEMMA Fields ==
    ASSUME SagaTypeOK
    PROVE  /\ deps \in Graphs /\ deps \in [Step -> SUBSET Step]
           /\ saga.status \in SagaStatus /\ saga.executed \in Seq(Step) /\ saga.undone \subseteq Step
           /\ work.doing \in {"nothing", "forward", "register", "compensate", "undo", "undone"}
           /\ work.answered \subseteq Step /\ work.ok \subseteq Step
           /\ work.executed \in Seq(Step) /\ work.defs \subseteq Step
           /\ Recorded \subseteq Step
           /\ DOMAIN saga.executed \subseteq Nat /\ Len(saga.executed) \in Nat
           /\ \A i \in DOMAIN saga.executed : saga.executed[i] \in Step /\ i <= Len(saga.executed)
<1>1. saga \in SagaState /\ work \in Work /\ deps \in Graphs
    BY DEF SagaTypeOK
<1>2. saga.executed \in Seq(Step)
    BY <1>1 DEF SagaState
<1>3. \A i \in DOMAIN saga.executed : saga.executed[i] \in Step /\ i <= Len(saga.executed)
    BY <1>2
<1>4. Recorded \subseteq Step
    BY <1>3 DEF Recorded, ToSet
<1>5. DOMAIN saga.executed \subseteq Nat /\ Len(saga.executed) \in Nat
    BY <1>2
<1> QED
    BY <1>1, <1>2, <1>3, <1>4, <1>5, GraphsAssumption DEF SagaState, Work

LEMMA SaveIs ==
    ASSUME SagaTypeOK, NEW status \in SagaStatus, Save(status)
    PROVE  /\ saga' \in SagaState
           /\ saga'.status = status /\ saga'.executed = saga.executed /\ saga'.undone = saga.undone
    BY DEF SagaTypeOK, SagaState, Save

(* What a call begins with. *)
LEMMA IdleIs ==
    ASSUME NEW d \in {"nothing", "compensate"}, NEW D \in SUBSET Step, NEW w,
           w = [Idle EXCEPT !.doing = d, !.defs = D]
    PROVE  /\ w \in Work /\ w.doing = d /\ w.answered = {} /\ w.ok = {}
           /\ w = Idle => w.doing = "nothing"
<1>1. <<>> \in Seq(Step)
    OBVIOUS
<1> QED
    BY <1>1 DEF Idle, Work

LEMMA RestIs ==
    /\ Idle \in Work /\ Idle.doing = "nothing" /\ Idle.answered = {} /\ Idle.ok = {}
<1>1. <<>> \in Seq(Step)
    OBVIOUS
<1> QED
    BY <1>1 DEF Idle, Work

LEMMA CompensatesIs ==
    ASSUME NEW D \in SUBSET Step, Compensates(D)
    PROVE  work' \in Work /\ work'.doing = "compensate" /\ work'.answered = {} /\ work'.ok = {}
<1>1. <<>> \in Seq(Step)
    OBVIOUS
<1> QED
    BY <1>1 DEF Idle, Work, Compensates

(* The place of the branch that is undone next. *)
LEMMA UndoingIs ==
    ASSUME SagaTypeOK, ToUndo # {}
    PROVE  \E i \in ToUndo : /\ Undoing = saga.executed[i] /\ Undoing \in Step
                             /\ \A j \in DOMAIN saga.executed : j > i => saga.executed[j] \in saga.undone
<1>1. Max(ToUndo) \in ToUndo /\ \A j \in ToUndo : Max(ToUndo) >= j
    <2>1. /\ ToUndo \subseteq Nat /\ Len(saga.executed) \in Nat
          /\ \A j \in ToUndo : j <= Len(saga.executed)
        BY Fields DEF ToUndo
    <2> QED
        BY <2>1, MaxIs
<1>2. Max(ToUndo) \in DOMAIN saga.executed /\ Undoing \in Step
    BY <1>1, Fields DEF ToUndo, Undoing
<1>3. ASSUME NEW j \in DOMAIN saga.executed, j > Max(ToUndo) PROVE saga.executed[j] \in saga.undone
    <2>1. j \in Nat /\ Max(ToUndo) \in Nat
        BY <1>2, Fields
    <2>2. j \notin ToUndo
        BY <1>1, <1>3, <2>1
    <2> QED
        BY <2>2 DEF ToUndo
<1> QED
    BY <1>1, <1>2, <1>3 DEF Undoing

(* What is left of the plan. *)
LEMMA LeftIs ==
    ASSUME SagaTypeOK, NEW executed
    PROVE  Left(executed) \subseteq Step /\ Pending(executed) \subseteq Left(executed)
           /\ IsFiniteSet(Pending(executed))
<1>1. Left(executed) \subseteq Step /\ Pending(executed) \subseteq Left(executed)
    BY DEF Left, Pending
<1> QED
    BY <1>1, StepAssumption, FS_Subset

LEMMA InitTyped == SagaInit => SagaTypeOK
<1> SUFFICES ASSUME SagaInit PROVE SagaTypeOK
    OBVIOUS
<1>1. saga \in SagaState
    BY DEF SagaInit, SagaState, SagaStatus
<1> QED
    BY <1>1, RestIs, FaultsAssumption DEF SagaInit, SagaTypeOK

LEMMA FaultTyped == ASSUME faults \in 0..MaxFaults, Fault PROVE faults' \in 0..MaxFaults
    BY FaultsAssumption DEF Fault

LEMMA StartTyped == ASSUME SagaTypeOK, handle_saga_start PROVE SagaTypeOK'
<1> USE DEF handle_saga_start
<1>1. /\ cached' = Step /\ UNCHANGED <<deps, effect, late, doubt, overlooked>>
      /\ faults' \in 0..MaxFaults
    BY FaultTyped DEF nodeVars, SagaTypeOK
<1>2. saga' \in SagaState
    <2>1. saga \in SagaState
        BY DEF SagaTypeOK
    <2> QED
        BY <2>1, SaveIs DEF SagaStatus
<1>3. work' \in Work
    <2>1. work \in Work
        BY DEF SagaTypeOK
    <2>2. [Idle EXCEPT !.doing = "forward", !.executed = saga.executed, !.defs = Step] \in Work
        BY Fields DEF Idle, Work
    <2>3. Compensates(Step) => work' \in Work
        BY CompensatesIs
    <2> QED
        BY <2>1, <2>2, <2>3, RestIs
<1> QED
    BY <1>1, <1>2, <1>3 DEF SagaTypeOK

(* What Forward does. *)
Calls(layer, ok, lost, given_up) ==
    /\ ok \cap lost = {} /\ (ok \cup lost) \cap given_up = {}
    /\ effect' = [s \in Step |-> IF s \in ok \cup lost THEN "done" ELSE effect[s]]
    /\ late' = late \cup given_up
    /\ doubt' = doubt \cup lost \cup given_up
    /\ faults' = faults + Cardinality(layer \ ok)
    /\ faults' <= MaxFaults
    /\ work' = [work EXCEPT !.doing = "register", !.answered = layer, !.ok = ok]

LEMMA ForwardIs ==
    ASSUME Forward
    PROVE  \E ok, lost, given_up \in SUBSET Pending(work.executed) :
               Calls(Pending(work.executed), ok, lost, given_up)
    BY DEF Forward, Calls

LEMMA ForwardTyped == ASSUME SagaTypeOK, Forward PROVE SagaTypeOK'
<1> DEFINE layer == Pending(work.executed)
<1>1. PICK ok \in SUBSET layer, lost \in SUBSET layer, given_up \in SUBSET layer :
          Calls(layer, ok, lost, given_up)
    BY ForwardIs
<1>2. layer \subseteq Step /\ IsFiniteSet(layer)
    BY LeftIs
<1>3. Cardinality(layer \ ok) \in Nat
    BY <1>2, FS_Subset, FS_CardinalityType
<1> HIDE DEF layer
<1>4. faults' \in 0..MaxFaults
    BY <1>1, <1>3, FaultsAssumption DEF Calls, SagaTypeOK
<1>5. work' \in Work
    BY <1>1, <1>2 DEF Calls, SagaTypeOK, Work
<1>6. effect' \in [Step -> {"none", "done", "undone"}]
    BY <1>1 DEF Calls, SagaTypeOK
<1>7. late' \in SUBSET Step /\ doubt' \in SUBSET Step
    BY <1>1, <1>2 DEF Calls, SagaTypeOK
<1>8. UNCHANGED <<deps, saga, cached, overlooked>>
    BY DEF Forward
<1> QED
    BY <1>4, <1>5, <1>6, <1>7, <1>8 DEF SagaTypeOK

LEMMA RegisterTyped == ASSUME SagaTypeOK, Register PROVE SagaTypeOK'
<1>1. PICK s \in Step :
       /\ IsFirst(s, work.answered)
       /\ \/ /\ s \in work.ok
             /\ saga' = [saga EXCEPT !.status = "Executing",
                                     !.executed = Append(work.executed, s)]
             /\ work' = [work EXCEPT !.answered = @ \ {s}, !.ok = @ \ {s},
                           !.executed = Append(@, s),
                           !.doing = IF work.answered = {s} THEN "forward" ELSE @]
             /\ doubt' = doubt \ ({s} \ late)
             /\ UNCHANGED overlooked
          \/ /\ s \notin work.ok
             /\ Save("Failed")
             /\ overlooked' = overlooked \cup work.ok
             /\ Compensates(work.defs)
             /\ UNCHANGED doubt
    BY DEF Register
<1>2. UNCHANGED <<deps, cached, effect, late, faults>> /\ doubt' \in SUBSET Step
    BY <1>1 DEF Register, nodeVars, SagaTypeOK
<1>3. Append(work.executed, s) \in Seq(Step)
    BY Fields
<1>4. saga' \in SagaState /\ work' \in Work /\ overlooked' \in SUBSET Step
    <2>1. CASE s \in work.ok
        <3>1. saga' \in SagaState
            BY <1>1, <1>3, <2>1 DEF SagaTypeOK, SagaState, SagaStatus
        <3>2. work' \in Work
            <4>1. Append(work.executed, s) \in Seq(Step) /\ work \in Work
                BY Fields DEF SagaTypeOK
            <4>2. work' = [work EXCEPT !.answered = work.answered \ {s}, !.ok = work.ok \ {s},
                             !.executed = Append(work.executed, s),
                             !.doing = IF work.answered = {s} THEN "forward" ELSE work.doing]
                BY <1>1, <2>1
            <4> QED
                BY <4>1, <4>2 DEF Work
        <3> QED
            BY <1>1, <2>1, <3>1, <3>2 DEF SagaTypeOK
    <2>2. CASE s \notin work.ok
        <3>1. saga' \in SagaState
            BY <1>1, <2>2, SaveIs DEF SagaStatus
        <3>2. work' \in Work
            BY <1>1, <2>2, CompensatesIs, Fields
        <3> QED
            BY <1>1, <2>2, <3>1, <3>2, Fields DEF SagaTypeOK
    <2> QED
        BY <2>1, <2>2
<1> QED
    BY <1>2, <1>4 DEF SagaTypeOK

LEMMA UndoTyped == ASSUME SagaTypeOK, Undo PROVE SagaTypeOK'
<1>1. UNCHANGED <<deps, saga, cached, late, doubt, overlooked>>
    BY DEF Undo
<1>2. effect' \in [Step -> {"none", "done", "undone"}]
    BY DEF Undo, SagaTypeOK
<1>3. work' \in Work
    <2>1. [work EXCEPT !.doing = "undone"] \in Work
        BY DEF SagaTypeOK, Work
    <2> QED
        BY <2>1, RestIs DEF Undo
<1>4. faults' \in 0..MaxFaults
    BY FaultTyped DEF Undo, SagaTypeOK
<1> QED
    BY <1>1, <1>2, <1>3, <1>4 DEF SagaTypeOK

LEMMA RecordUndoneTyped == ASSUME SagaTypeOK, RecordUndone, ToUndo # {} PROVE SagaTypeOK'
<1>1. UNCHANGED <<deps, cached, effect, late, doubt, overlooked, faults>>
    BY DEF RecordUndone, nodeVars
<1>2. work' \in Work
    BY DEF RecordUndone, SagaTypeOK, Work
<1>3. saga' \in SagaState
    <2>1. Undoing \in Step
        BY UndoingIs
    <2> QED
        BY <2>1 DEF RecordUndone, SagaTypeOK, SagaState
<1> QED
    BY <1>1, <1>2, <1>3 DEF SagaTypeOK

LEMMA EndTyped == ASSUME SagaTypeOK, Succeed \/ BeginCompensate \/ Compensated PROVE SagaTypeOK'
<1>1. UNCHANGED <<deps, cached, effect, late, doubt, overlooked, faults>>
    BY DEF Succeed, BeginCompensate, Compensated, nodeVars
<1>2. work' \in Work
    <2>1. [work EXCEPT !.doing = "undo"] \in Work
        BY DEF SagaTypeOK, Work
    <2> QED
        BY <2>1, RestIs DEF Succeed, BeginCompensate, Compensated
<1>3. saga' \in SagaState
    <2>1. saga \in SagaState
        BY DEF SagaTypeOK
    <2> QED
        BY <2>1, SaveIs DEF Succeed, BeginCompensate, Compensated, SagaStatus
<1> QED
    BY <1>1, <1>2, <1>3 DEF SagaTypeOK

LEMMA ComesTyped ==
    ASSUME SagaTypeOK, \/ \E D \in SUBSET Step \ {{}} : handle_saga_compensate(D)
                   \/ retry_pending
    PROVE  SagaTypeOK'
<1>1. UNCHANGED <<deps, effect, late, doubt, overlooked, faults>> /\ cached' \in SUBSET Step
    BY DEF handle_saga_compensate, retry_pending, nodeVars, SagaTypeOK
<1>2. work' \in Work
    <2>1. \A D \in SUBSET Step : Compensates(D) => work' \in Work
        BY CompensatesIs
    <2>2. work \in Work /\ cached \in SUBSET Step
        BY DEF SagaTypeOK
    <2> QED
        BY <2>1, <2>2 DEF handle_saga_compensate, retry_pending
<1>3. saga' \in SagaState
    <2>1. saga \in SagaState
        BY DEF SagaTypeOK
    <2> QED
        BY <2>1, SaveIs DEF handle_saga_compensate, retry_pending, SagaStatus
<1> QED
    BY <1>1, <1>2, <1>3 DEF SagaTypeOK

LEMMA LateTyped == ASSUME SagaTypeOK, NEW s \in Step, LateForward(s) PROVE SagaTypeOK'
    BY DEF SagaTypeOK, LateForward

LEMMA FailsTyped == ASSUME SagaTypeOK, SaveFails \/ Crash PROVE SagaTypeOK'
<1>1. UNCHANGED <<deps, saga, effect, late, overlooked>> /\ work' = Idle
    BY DEF SaveFails, Crash, nodeVars
<1>2. cached' \in SUBSET Step /\ doubt' \in SUBSET Step
    BY Fields DEF SaveFails, Crash, Forgets, SagaTypeOK
<1>3. faults' \in 0..MaxFaults
    BY FaultTyped DEF SaveFails, Crash, SagaTypeOK
<1> QED
    BY <1>1, <1>2, <1>3, RestIs DEF SagaTypeOK

LEMMA NextTyped == ASSUME SagaTypeOK, Phases, [SagaNext]_sagaVars PROVE SagaTypeOK'
<1>1. CASE UNCHANGED sagaVars
    BY <1>1 DEF sagaVars, SagaTypeOK
<1>2. CASE RecordUndone
    BY <1>2, RecordUndoneTyped DEF RecordUndone, Phases
<1> QED
    BY <1>1, <1>2, StartTyped, ForwardTyped, RegisterTyped, UndoTyped, EndTyped, ComesTyped, LateTyped,
       FailsTyped DEF SagaNext

-----------------------------------------------------------------------------
(* Who is done and who undone                                              *)

LEMMA SameGraph == ASSUME UNCHANGED deps PROVE Cyclic' <=> Cyclic
<1>1. Reached' = Reached
    BY DEF Reached
<1> QED
    BY <1>1 DEF Cyclic, Rounds

LEMMA SameRecords ==
    ASSUME saga'.executed = saga.executed
    PROVE  Recorded' = Recorded /\ (saga'.undone = saga.undone => ToUndo' = ToUndo)
    BY DEF Recorded, ToUndo

(* What the steps that record nothing leave as it is. *)
LEMMA PlansStay ==
    ASSUME Inv, UNCHANGED deps, saga'.executed = saga.executed, work'.answered \subseteq work.answered
    PROVE  Plans'
<1>2. Recorded' = Recorded
    BY SameRecords
<1>4. (\A i \in DOMAIN saga.executed : \A s \in Step :
          Follows(saga.executed[i], s) => \E j \in DOMAIN saga.executed : j < i /\ saga.executed[j] = s)'
    BY DEF Inv, Plans, Follows, has_deps
<1>5. (\A t \in work.answered, s \in Step : Follows(t, s) => s \in Recorded)'
    BY <1>2 DEF Inv, Plans, Follows, has_deps
<1>6. work'.answered \cap Recorded' = {}
    BY <1>2 DEF Inv, Plans
<1>7. \A i, j \in DOMAIN saga'.executed : saga'.executed[i] = saga'.executed[j] => i = j
    BY DEF Inv, Plans
<1> QED
    BY <1>4, <1>5, <1>6, <1>7 DEF Plans

LEMMA BackwardsStay ==
    ASSUME Inv, saga'.executed = saga.executed, saga'.undone = saga.undone, Undoes => Undoes',
           \A s \in Step : effect'[s] = "undone" => effect[s] = "undone"
    PROVE  Backwards'
    BY SameRecords DEF Inv, Backwards

LEMMA EffectsStay ==
    ASSUME Inv, saga'.executed = saga.executed, saga'.undone = saga.undone, Undoes => Undoes',
           late' \subseteq doubt', doubt \subseteq doubt', overlooked \subseteq overlooked',
           \A s \in Step : effect'[s] = effect[s] \/ (s \in doubt' /\ effect'[s] = "done"),
           work'.ok \subseteq work.ok, work.ok \subseteq work'.ok \cup doubt' \cup overlooked',
           saga'.status = "Succeeded" => saga.status = "Succeeded",
           saga'.status = "Compensated" => saga.status = "Compensated"
    PROVE  Effects'
<1>1. Recorded' = Recorded
    BY SameRecords
<1>2. Recorded \subseteq Step /\ work.ok \subseteq Step
    BY Fields DEF Inv
<1>3. \A s \in Step : effect'[s] = "done" =>
          s \in doubt' \cup overlooked' \cup work'.ok \cup (Recorded' \ saga'.undone)
    BY <1>1 DEF Inv, Effects
<1>4. \A s \in Step : effect[s] = "done" => effect'[s] = "done"
    OBVIOUS
<1>5. \A s \in work'.ok : effect'[s] = "done"
    BY <1>2, <1>4 DEF Inv, Effects
<1>6. ~Undoes' => \A s \in Recorded' : effect'[s] = "done"
    BY <1>1, <1>2, <1>4 DEF Inv, Effects
<1> QED
    BY <1>1, <1>3, <1>5, <1>6 DEF Inv, Effects

LEMMA InitInv == SagaInit => Inv
<1> SUFFICES ASSUME SagaInit PROVE Inv
    OBVIOUS
<1>1. SagaTypeOK
    BY InitTyped
<1>2. saga.status = "none" /\ saga.executed = <<>> /\ saga.undone = {} /\ ~Undoes /\ Recorded = {}
    BY DEF SagaInit, Undoes, Recorded, ToSet
<1>3. DOMAIN saga.executed = {}
    BY <1>2
<1>4. Phases /\ Plans /\ Backwards /\ Effects
    BY <1>2, <1>3, RestIs DEF SagaInit, Phases, Plans, Backwards, Effects
<1> QED
    BY <1>1, <1>4 DEF Inv

LEMMA StartInv == ASSUME Inv, handle_saga_start PROVE Inv'
<1>1. SagaTypeOK'
    BY StartTyped DEF Inv
<1>2. UNCHANGED <<deps, effect, late, doubt, overlooked>> /\ work = Idle
    BY DEF handle_saga_start, nodeVars
<1>3. /\ saga'.executed = saga.executed /\ saga'.undone = saga.undone
      /\ saga' # saga => saga.status = "none" /\ saga'.status = "Init"
    <2>1. Save("Init") =>
              saga'.executed = saga.executed /\ saga'.undone = saga.undone /\ saga'.status = "Init"
        BY SaveIs DEF Inv, SagaStatus
    <2> QED
        BY <2>1 DEF handle_saga_start
<1>4. /\ work'.answered = {} /\ work'.ok = {} /\ work'.doing \in {"nothing", "forward", "compensate"}
      /\ work'.doing = "forward" => /\ ~Cyclic /\ work'.executed = saga.executed
                                    /\ saga'.status \in {"Init", "Executing"}
    <2>1. CASE work' = Idle
        BY <2>1, RestIs
    <2>2. CASE Compensates(Step)
        BY <2>2, CompensatesIs
    <2>3. CASE /\ saga.status \in {"none", "Init", "Executing"} /\ ~Cyclic
               /\ work' = [Idle EXCEPT !.doing = "forward", !.executed = saga.executed, !.defs = Step]
        <3>1. saga'.status \in {"Init", "Executing"}
            <4>1. saga.status = "none" => saga'.status = "Init"
                <5>1. work' # work
                    BY <1>2, <2>3, RestIs DEF Idle
                <5> QED
                    BY <2>3, <5>1, SaveIs DEF handle_saga_start, is_terminal, Inv, SagaStatus
            <4> QED
                BY <1>3, <2>3, <4>1
        <3> QED
            BY <2>3, <3>1 DEF Idle
    <2> QED
        BY <1>2, <2>1, <2>2, <2>3 DEF handle_saga_start
<1>5. work.ok = {} /\ work.answered = {}
    BY <1>2, RestIs
<1>6. Undoes => Undoes'
    BY <1>3 DEF Undoes
<1>7. Phases'
    BY <1>2, <1>3, <1>4, SameGraph DEF Phases, Running
<1>8. Plans' /\ Backwards'
    BY <1>2, <1>3, <1>4, <1>5, <1>6, PlansStay, BackwardsStay
<1>9. Effects'
    <2>1. /\ saga'.status = "Succeeded" => saga.status = "Succeeded"
          /\ saga'.status = "Compensated" => saga.status = "Compensated"
        BY <1>3
    <2>2. late' \subseteq doubt'
        BY <1>2 DEF Inv, Effects
    <2>3. /\ doubt \subseteq doubt' /\ overlooked \subseteq overlooked'
          /\ work'.ok \subseteq work.ok /\ work.ok \subseteq work'.ok \cup doubt' \cup overlooked'
          /\ \A s \in Step : effect'[s] = effect[s]
        BY <1>2, <1>4, <1>5
    <2> QED
        BY <1>3, <1>6, <2>1, <2>2, <2>3, EffectsStay
<1> QED
    BY <1>1, <1>7, <1>8, <1>9 DEF Inv

(* What follows the branches of a layer has a later one. *)
LEMMA LayersFirst ==
    ASSUME SagaTypeOK, ~Cyclic, NEW executed, NEW t \in Pending(executed), NEW s \in Step, Follows(t, s)
    PROVE  s \notin Left(executed)
<1>1. t \in Step /\ t \in Left(executed)
    BY DEF Pending, Left
<1>2. Layer(s) \in Nat /\ Layer(t) \in Nat /\ Layer(s) < Layer(t)
    BY <1>1, LayerIs, Fields
<1>3. s \in Left(executed) => Layer(t) <= Layer(s)
    BY DEF Pending
<1> QED
    BY <1>2, <1>3

LEMMA ForwardInv == ASSUME Inv, Forward PROVE Inv'
<1> DEFINE layer == Pending(work.executed)
<1>1. PICK ok \in SUBSET layer, lost \in SUBSET layer, given_up \in SUBSET layer :
          Calls(layer, ok, lost, given_up)
    BY ForwardIs
<1>2. UNCHANGED <<deps, saga, cached, overlooked>> /\ work.doing = "forward"
    BY DEF Forward
<1>3. Running /\ work.executed = saga.executed /\ ~Cyclic /\ work.answered = {} /\ work.ok = {}
    BY <1>2 DEF Inv, Phases
<1>4. layer \subseteq Step /\ layer \cap Recorded = {} /\ layer \cap saga.undone = {}
    BY <1>3 DEF Pending, Left, Recorded
<1>5. /\ work'.doing = "register" /\ work'.answered = layer /\ work'.ok = ok
      /\ work'.executed = work.executed
    <2>1. work \in Work
        BY DEF Inv, SagaTypeOK
    <2> QED
        BY <1>1, <2>1 DEF Calls, Work
<1>6. SagaTypeOK'
    BY ForwardTyped DEF Inv
<1>7. saga.undone = {} /\ \A s \in Step : effect[s] # "undone"
    <2>1. saga.undone \subseteq Step
        BY Fields DEF Inv
    <2>2. ~Undoes
        BY <1>3 DEF Running, Undoes
    <2> QED
        BY <2>1, <2>2 DEF Inv, Backwards
<1>8. Recorded' = Recorded
    BY <1>2, SameRecords
<1>9. Phases'
    BY <1>2, <1>3, <1>5, SameGraph DEF Phases, Running
<1>10. Plans'
    <2>1. ASSUME NEW t \in layer, NEW s \in Step, Follows(t, s) PROVE s \in Recorded
        <3>1. s \notin Left(work.executed)
            BY <1>3, <2>1, LayersFirst DEF Inv
        <3> QED
            BY <1>3, <1>7, <3>1 DEF Left, Recorded
    <2>4. (\A i \in DOMAIN saga.executed : \A s \in Step :
              Follows(saga.executed[i], s) =>
                  \E j \in DOMAIN saga.executed : j < i /\ saga.executed[j] = s)'
        BY <1>2 DEF Inv, Plans, Follows, has_deps
    <2>5. (\A t \in work.answered, s \in Step : Follows(t, s) => s \in Recorded)'
        <3> HIDE DEF layer
        <3> QED
            BY <1>2, <1>5, <1>8, <2>1 DEF Follows, has_deps
    <2>6. work'.answered \cap Recorded' = {}
        BY <1>4, <1>5, <1>8
    <2>7. \A i, j \in DOMAIN saga'.executed : saga'.executed[i] = saga'.executed[j] => i = j
        BY <1>2 DEF Inv, Plans
    <2> QED
        BY <2>4, <2>5, <2>6, <2>7 DEF Plans
<1>11. \A s \in Step : effect'[s] = IF s \in ok \cup lost THEN "done" ELSE effect[s]
    BY <1>1 DEF Calls
<1>12. Backwards'
    BY <1>2, <1>7, <1>11, BackwardsStay DEF Undoes
<1>13. Effects'
    <2>1. late' = late \cup given_up /\ doubt' = doubt \cup lost \cup given_up
        BY <1>1 DEF Calls
    <2>2. Recorded \subseteq Step
        BY Fields DEF Inv
    <2> HIDE DEF layer
    <2>3. \A s \in Step : effect'[s] = "done" =>
              s \in doubt' \cup overlooked' \cup work'.ok \cup (Recorded' \ saga'.undone)
        BY <1>2, <1>3, <1>5, <1>8, <1>11, <2>1 DEF Inv, Effects
    <2>4. \A s \in work'.ok : effect'[s] = "done"
        BY <1>4, <1>5, <1>11
    <2>5. \A s \in Recorded' : effect'[s] = "done"
        BY <1>3, <1>8, <1>11, <2>2 DEF Inv, Effects, Running, Undoes
    <2> QED
        BY <1>2, <1>3, <2>1, <2>3, <2>4, <2>5 DEF Inv, Effects, Running
<1> QED
    BY <1>6, <1>9, <1>10, <1>12, <1>13 DEF Inv

LEMMA RegisterInv == ASSUME Inv, Register PROVE Inv'
<1>1. PICK s \in Step :
       /\ IsFirst(s, work.answered)
       /\ \/ /\ s \in work.ok
             /\ saga' = [saga EXCEPT !.status = "Executing",
                                     !.executed = Append(work.executed, s)]
             /\ work' = [work EXCEPT !.answered = @ \ {s}, !.ok = @ \ {s},
                           !.executed = Append(@, s),
                           !.doing = IF work.answered = {s} THEN "forward" ELSE @]
             /\ doubt' = doubt \ ({s} \ late)
             /\ UNCHANGED overlooked
          \/ /\ s \notin work.ok
             /\ Save("Failed")
             /\ overlooked' = overlooked \cup work.ok
             /\ Compensates(work.defs)
             /\ UNCHANGED doubt
    BY DEF Register
<1>2. UNCHANGED <<deps, effect, late>> /\ work.doing = "register"
    BY DEF Register, nodeVars
<1>3. SagaTypeOK'
    BY RegisterTyped DEF Inv
<1>4. Running /\ work.executed = saga.executed /\ ~Cyclic /\ s \in work.answered
    BY <1>1, <1>2 DEF Inv, Phases, IsFirst
<1>5. saga.undone = {} /\ \A t \in Step : effect[t] # "undone"
    <2>1. saga.undone \subseteq Step
        BY Fields DEF Inv
    <2>2. ~Undoes
        BY <1>4 DEF Running, Undoes
    <2> QED
        BY <2>1, <2>2 DEF Inv, Backwards
<1>6. CASE s \in work.ok
    <2> DEFINE n == Len(saga.executed)
    <2>1. /\ saga'.status = "Executing" /\ saga'.undone = {}
          /\ saga'.executed = Append(saga.executed, s)
        BY <1>1, <1>4, <1>5, <1>6 DEF Inv, SagaTypeOK, SagaState
    <2>2. /\ work'.answered = work.answered \ {s} /\ work'.ok = work.ok \ {s}
          /\ work'.executed = Append(saga.executed, s)
          /\ work'.doing \in {"forward", "register"}
          /\ work'.doing = "forward" => work'.answered = {}
        <3>1. work \in Work
            BY DEF Inv, SagaTypeOK
        <3> QED
            BY <1>1, <1>2, <1>4, <1>6, <3>1 DEF Work
    <2>3. /\ n \in Nat /\ DOMAIN saga.executed = 1..n /\ DOMAIN saga'.executed = 1..(n + 1)
          /\ saga'.executed[n + 1] = s
          /\ \A i \in 1..n : saga'.executed[i] = saga.executed[i]
        <3>1. saga.executed \in Seq(Step)
            BY Fields DEF Inv
        <3> QED
            BY <2>1, <3>1
    <2> HIDE DEF n
    <2>4. Recorded' = Recorded \cup {s}
        <3>1. /\ Recorded' = {saga'.executed[i] : i \in 1..(n + 1)}
              /\ Recorded = {saga.executed[i] : i \in 1..n}
            BY <2>3 DEF Recorded, ToSet
        <3> QED
            BY <2>3, <3>1
    <2>5. s \notin Recorded
        BY <1>4 DEF Inv, Plans
    <2>6. Phases'
        BY <1>2, <1>4, <2>1, <2>2, SameGraph DEF Inv, Phases, Running
    <2>7. Plans'
        <3>1. ASSUME NEW i \in 1..(n + 1), NEW j \in 1..(n + 1),
                     saga'.executed[i] = saga'.executed[j]
              PROVE  i = j
            <4>1. \A k \in 1..n : saga.executed[k] # s
                BY <2>3, <2>5 DEF Recorded, ToSet
            <4>2. \A k \in 1..(n + 1) : k \in 1..n \/ k = n + 1
                BY <2>3
            <4> QED
                BY <2>3, <3>1, <4>1, <4>2 DEF Inv, Plans
        <3>2. ASSUME NEW i \in 1..(n + 1), NEW u \in Step, Follows(saga'.executed[i], u)
              PROVE  \E j \in 1..(n + 1) : j < i /\ saga'.executed[j] = u
            <4>1. CASE i \in 1..n
                <5>1. \E j \in 1..n : j < i /\ saga.executed[j] = u
                    BY <2>3, <3>2, <4>1 DEF Inv, Plans
                <5> QED
                    BY <2>3, <5>1
            <4>2. CASE i = n + 1
                <5>1. u \in Recorded
                    BY <1>4, <2>3, <3>2, <4>2 DEF Inv, Plans
                <5>2. PICK j \in 1..n : saga.executed[j] = u
                    BY <2>3, <5>1 DEF Recorded, ToSet
                <5> QED
                    BY <2>3, <4>2, <5>2
            <4> QED
                BY <2>3, <4>1, <4>2
        <3>3. work'.answered \cap Recorded' = {}
            BY <2>2, <2>4 DEF Inv, Plans
        <3>4. ASSUME NEW t \in work'.answered, NEW u \in Step, Follows(t, u) PROVE u \in Recorded'
            BY <2>2, <2>4, <3>4 DEF Inv, Plans
        <3>5. (\A i \in DOMAIN saga.executed : \A u \in Step :
                  Follows(saga.executed[i], u) =>
                      \E j \in DOMAIN saga.executed : j < i /\ saga.executed[j] = u)'
            BY <1>2, <2>3, <3>2 DEF Follows, has_deps
        <3>6. (\A t \in work.answered, u \in Step : Follows(t, u) => u \in Recorded)'
            BY <1>2, <3>4 DEF Follows, has_deps
        <3> QED
            BY <2>3, <3>1, <3>3, <3>5, <3>6 DEF Plans
    <2>8. Backwards'
        BY <1>2, <1>5, <2>1 DEF Backwards
    <2>9. Effects'
        <3>1. overlooked' = overlooked /\ doubt' = doubt \ ({s} \ late)
            BY <1>1, <1>6
        <3>2. effect[s] = "done"
            BY <1>6 DEF Inv, Effects
        <3>3. \A t \in Step : effect'[t] = "done" =>
                  t \in doubt' \cup overlooked' \cup work'.ok \cup (Recorded' \ saga'.undone)
            BY <1>2, <1>5, <2>1, <2>2, <2>4, <3>1 DEF Inv, Effects
        <3>4. ~Undoes
            BY <1>4 DEF Undoes, Running
        <3> QED
            BY <1>2, <2>1, <2>2, <2>4, <3>1, <3>2, <3>3, <3>4 DEF Inv, Effects
    <2> QED
        BY <1>3, <2>6, <2>7, <2>8, <2>9 DEF Inv
<1>7. CASE s \notin work.ok
    <2>1. saga'.status = "Failed" /\ saga'.executed = saga.executed /\ saga'.undone = saga.undone
        BY <1>1, <1>7, SaveIs DEF Inv, SagaStatus
    <2>2. work'.doing = "compensate" /\ work'.answered = {} /\ work'.ok = {}
        BY <1>1, <1>7, CompensatesIs, Fields DEF Inv
    <2>3. overlooked' = overlooked \cup work.ok /\ doubt' = doubt
        BY <1>1, <1>7
    <2>4. ~Undoes
        BY <1>4 DEF Undoes, Running
    <2>5. Phases'
        BY <2>2 DEF Phases
    <2>6. Plans' /\ Backwards'
        BY <1>2, <2>1, <2>2, <2>4, PlansStay, BackwardsStay
    <2>7. Effects'
        <3>1. late' \subseteq doubt'
            BY <1>2, <2>3 DEF Inv, Effects
        <3>2. /\ doubt \subseteq doubt' /\ overlooked \subseteq overlooked'
              /\ work'.ok \subseteq work.ok /\ work.ok \subseteq work'.ok \cup doubt' \cup overlooked'
              /\ \A t \in Step : effect'[t] = effect[t]
            BY <1>2, <2>2, <2>3
        <3> QED
            BY <2>1, <2>4, <3>1, <3>2, EffectsStay
    <2> QED
        BY <1>3, <2>5, <2>6, <2>7 DEF Inv
<1> QED
    BY <1>6, <1>7

LEMMA SucceedInv == ASSUME Inv, Succeed PROVE Inv'
<1>1. UNCHANGED <<deps, effect, late, doubt, overlooked>> /\ work' = Idle
    BY DEF Succeed, nodeVars
<1>2. saga'.status = "Succeeded" /\ saga'.executed = saga.executed /\ saga'.undone = saga.undone
    BY SaveIs DEF Succeed, Inv, SagaStatus
<1>3. SagaTypeOK'
    BY EndTyped DEF Inv
<1>4. /\ Running /\ work.executed = saga.executed /\ work.answered = {} /\ work.ok = {}
      /\ Left(work.executed) = {}
    BY DEF Succeed, Inv, Phases
<1>5. ~Undoes
    BY <1>4 DEF Undoes, Running
<1>6. saga.undone = {}
    <2>1. saga.undone \subseteq Step
        BY Fields DEF Inv
    <2> QED
        BY <1>5, <2>1 DEF Inv, Backwards
<1>7. Recorded = Step /\ Recorded' = Recorded
    <2>1. Recorded \subseteq Step
        BY Fields DEF Inv
    <2>2. Recorded' = Recorded
        BY <1>2, SameRecords
    <2> QED
        BY <1>4, <1>6, <2>1, <2>2 DEF Left, Recorded
<1>8. Phases'
    BY <1>1, RestIs DEF Phases
<1>9. Plans' /\ Backwards'
    BY <1>1, <1>2, <1>5, RestIs, PlansStay, BackwardsStay
<1>10. Effects'
    BY <1>1, <1>2, <1>4, <1>5, <1>7, RestIs DEF Inv, Effects
<1> QED
    BY <1>3, <1>8, <1>9, <1>10 DEF Inv

(* A step that changes no branch, and the status only between those that   *)
(* mean nothing for them.                                                  *)
LEMMA StatusInv ==
    ASSUME Inv, SagaTypeOK', UNCHANGED <<deps, effect, late>>, doubt \subseteq doubt',
           overlooked \subseteq overlooked',
           saga'.executed = saga.executed, saga'.undone = saga.undone, Undoes => Undoes',
           saga'.status = "Succeeded" => saga.status = "Succeeded",
           saga'.status = "Compensated" => saga.status = "Compensated",
           work'.answered = {}, work'.ok = {}, work.ok \subseteq doubt' \cup overlooked', Phases'
    PROVE  Inv'
<1>1. Plans' /\ Backwards'
    BY PlansStay, BackwardsStay
<1>2. late' \subseteq doubt' /\ \A s \in Step : effect'[s] = effect[s]
    BY DEF Inv, Effects
<1>3. work'.ok \subseteq work.ok /\ work.ok \subseteq work'.ok \cup doubt' \cup overlooked'
    OBVIOUS
<1>4. Effects'
    BY <1>2, <1>3, EffectsStay
<1> QED
    BY <1>1, <1>4 DEF Inv

LEMMA BeginCompensateInv == ASSUME Inv, BeginCompensate PROVE Inv'
<1>1. UNCHANGED <<deps, effect, late, doubt, overlooked>> /\ work.doing = "compensate"
    BY DEF BeginCompensate, nodeVars
<1>2. SagaTypeOK'
    BY EndTyped DEF Inv
<1>3. work.answered = {} /\ work.ok = {}
    BY <1>1 DEF Inv, Phases
<1>4. CASE ~is_terminal /\ Save("Compensating") /\ work' = [work EXCEPT !.doing = "undo"]
    <2>1. saga'.status = "Compensating" /\ saga'.executed = saga.executed /\ saga'.undone = saga.undone
        BY <1>4, SaveIs DEF Inv, SagaStatus
    <2>2. work'.doing = "undo" /\ work'.answered = {} /\ work'.ok = {}
        <3>1. work \in Work
            BY DEF Inv, SagaTypeOK
        <3> QED
            BY <1>3, <1>4, <3>1 DEF Work
    <2>3. Undoes'
        BY <2>1 DEF Undoes
    <2>4. Phases'
        BY <2>1, <2>2 DEF Phases
    <2> QED
        BY <1>1, <1>2, <1>3, <2>1, <2>2, <2>3, <2>4, StatusInv
<1>5. CASE work' = Idle /\ UNCHANGED saga
    <2>1. Phases'
        BY <1>5, RestIs DEF Phases
    <2>2. Undoes => Undoes'
        BY <1>5 DEF Undoes
    <2> QED
        BY <1>1, <1>2, <1>3, <1>5, <2>1, <2>2, RestIs, StatusInv
<1> QED
    BY <1>4, <1>5 DEF BeginCompensate

LEMMA UndoInv == ASSUME Inv, Undo PROVE Inv'
<1>1. UNCHANGED <<deps, saga, cached, late, doubt, overlooked>> /\ work.doing = "undo" /\ ToUndo # {}
    BY DEF Undo
<1>2. SagaTypeOK'
    BY UndoTyped DEF Inv
<1>3. /\ \A s \in Step \ {Undoing} : effect'[s] = effect[s]
      /\ effect'[Undoing] \in {effect[Undoing], "undone"}
    BY DEF Undo, Inv, SagaTypeOK
<1>4. saga.status = "Compensating" /\ work.answered = {} /\ work.ok = {}
    BY <1>1 DEF Inv, Phases
<1>5. work'.answered = {} /\ work'.ok = {} /\ work'.doing \in {"nothing", "undone"}
    <2>1. work \in Work
        BY DEF Inv, SagaTypeOK
    <2>2. \/ work' = Idle
          \/ work' = [work EXCEPT !.doing = "undone"]
        BY DEF Undo
    <2> QED
        BY <1>4, <2>1, <2>2, RestIs DEF Work
<1>6. Recorded' = Recorded /\ ToUndo' = ToUndo
    BY <1>1, SameRecords
<1>7. Phases'
    <2>1. Undoing' = Undoing
        BY <1>1, <1>6 DEF Undoing
    <2>2. Undoing \in Step
        BY <1>1, UndoingIs DEF Inv
    <2>3. work'.doing = "undone" => effect'[Undoing] = "undone"
        <3>1. work' = Idle => work'.doing # "undone"
            BY RestIs
        <3> QED
            BY <2>2, <3>1 DEF Undo, Inv, SagaTypeOK
    <2> QED
        BY <1>1, <1>4, <1>5, <1>6, <2>1, <2>3 DEF Phases
<1>8. Plans'
    BY <1>1, <1>4, <1>5, PlansStay
<1>9. Backwards'
    <2>1. ASSUME NEW s \in Step, s \in saga.undone \/ effect'[s] = "undone"
          PROVE  \E i \in DOMAIN saga.executed :
                    /\ saga.executed[i] = s
                    /\ \A j \in DOMAIN saga.executed : j > i => saga.executed[j] \in saga.undone
        <3>1. CASE s \in saga.undone \/ effect[s] = "undone"
            BY <3>1 DEF Inv, Backwards
        <3>2. CASE s = Undoing
            BY <1>1, <3>2, UndoingIs DEF Inv, ToUndo
        <3> QED
            BY <1>3, <2>1, <3>1, <3>2
    <2>2. Undoes'
        BY <1>1, <1>4 DEF Undoes
    <2> QED
        BY <1>1, <1>6, <2>1, <2>2 DEF Inv, Backwards
<1>10. Effects'
    <2>1. \A s \in Step : effect'[s] = "done" => effect[s] = "done"
        BY <1>3
    <2>2. Undoes'
        BY <1>1, <1>4 DEF Undoes
    <2> QED
        BY <1>1, <1>4, <1>5, <1>6, <2>1, <2>2 DEF Inv, Effects
<1> QED
    BY <1>2, <1>7, <1>8, <1>9, <1>10 DEF Inv

LEMMA RecordUndoneInv == ASSUME Inv, RecordUndone PROVE Inv'
<1>1. UNCHANGED <<deps, effect, late, doubt, overlooked>> /\ work.doing = "undone"
    BY DEF RecordUndone, nodeVars
<1>2. saga.status = "Compensating" /\ work.answered = {} /\ work.ok = {} /\ ToUndo # {}
    BY <1>1 DEF Inv, Phases
<1>3. SagaTypeOK'
    BY <1>2, RecordUndoneTyped DEF Inv
<1>4. PICK i \in ToUndo : /\ Undoing = saga.executed[i] /\ Undoing \in Step
                          /\ \A j \in DOMAIN saga.executed : j > i => saga.executed[j] \in saga.undone
    BY <1>2, UndoingIs DEF Inv
<1>5. /\ saga'.status = "Compensating" /\ saga'.executed = saga.executed
      /\ saga'.undone = saga.undone \cup {Undoing}
    BY <1>2 DEF RecordUndone, Inv, SagaTypeOK, SagaState
<1>6. work'.doing = "undo" /\ work'.answered = {} /\ work'.ok = {}
    <2>1. work \in Work
        BY DEF Inv, SagaTypeOK
    <2> QED
        BY <1>2, <2>1 DEF RecordUndone, Work
<1>7. i \in DOMAIN saga.executed
    BY DEF ToUndo
<1>8. Undoing \in Recorded /\ Recorded' = Recorded
    BY <1>4, <1>5, <1>7, SameRecords DEF Recorded, ToSet
<1>9. Undoes /\ Undoes'
    BY <1>2, <1>5 DEF Undoes
<1>10. Phases'
    BY <1>5, <1>6 DEF Phases
<1>11. Plans'
    BY <1>1, <1>2, <1>5, <1>6, PlansStay
<1>12. Backwards'
    <2>1. ASSUME NEW s \in Step, s \in saga'.undone \/ effect'[s] = "undone"
          PROVE  \E k \in DOMAIN saga.executed :
                    /\ saga.executed[k] = s
                    /\ \A j \in DOMAIN saga.executed : j > k => saga.executed[j] \in saga'.undone
        <3>1. CASE s \in saga.undone \/ effect[s] = "undone"
            <4>1. PICK k \in DOMAIN saga.executed :
                      /\ saga.executed[k] = s
                      /\ \A j \in DOMAIN saga.executed : j > k => saga.executed[j] \in saga.undone
                BY <3>1 DEF Inv, Backwards
            <4> QED
                BY <1>5, <4>1
        <3>2. CASE s = Undoing
            BY <1>4, <1>5, <1>7, <3>2
        <3> QED
            BY <1>1, <1>5, <2>1, <3>1, <3>2
    <2>2. saga'.undone \subseteq Recorded'
        BY <1>5, <1>8 DEF Inv, Backwards
    <2> QED
        BY <1>5, <1>9, <2>1, <2>2 DEF Backwards
<1>13. Effects'
    <2>1. effect[Undoing] = "done" => Undoing \in doubt \cup overlooked
        BY <1>1 DEF Inv, Phases
    <2> QED
        BY <1>1, <1>2, <1>5, <1>6, <1>8, <1>9, <2>1 DEF Inv, Effects
<1> QED
    BY <1>3, <1>10, <1>11, <1>12, <1>13 DEF Inv

LEMMA CompensatedInv == ASSUME Inv, Compensated PROVE Inv'
<1>1. /\ UNCHANGED <<deps, effect, late, doubt, overlooked>>
      /\ work' = Idle /\ work.doing = "undo" /\ ToUndo = {}
    BY DEF Compensated, nodeVars
<1>2. saga'.status = "Compensated" /\ saga'.executed = saga.executed /\ saga'.undone = saga.undone
    BY SaveIs DEF Compensated, Inv, SagaStatus
<1>3. SagaTypeOK'
    BY EndTyped DEF Inv
<1>4. saga.status = "Compensating" /\ work.answered = {} /\ work.ok = {}
    BY <1>1 DEF Inv, Phases
<1>5. Recorded' = Recorded /\ Recorded \subseteq saga.undone
    BY <1>1, <1>2, SameRecords DEF ToUndo, Recorded, ToSet
<1>6. Undoes /\ Undoes'
    BY <1>2, <1>4 DEF Undoes
<1>7. Phases'
    BY <1>1, RestIs DEF Phases
<1>8. Plans' /\ Backwards'
    BY <1>1, <1>2, <1>6, RestIs, PlansStay, BackwardsStay
<1>9. Effects'
    BY <1>1, <1>2, <1>4, <1>5, <1>6, RestIs DEF Inv, Effects
<1> QED
    BY <1>3, <1>7, <1>8, <1>9 DEF Inv

LEMMA ComesInv ==
    ASSUME Inv, \/ \E D \in SUBSET Step \ {{}} : handle_saga_compensate(D)
                \/ retry_pending
    PROVE  Inv'
<1>1. UNCHANGED <<deps, effect, late, doubt, overlooked>> /\ work = Idle
    BY DEF handle_saga_compensate, retry_pending, nodeVars
<1>2. SagaTypeOK'
    BY ComesTyped DEF Inv
<1>3. work'.doing \in {"nothing", "compensate"} /\ work'.answered = {} /\ work'.ok = {}
    <2>1. \A D \in SUBSET Step : Compensates(D) =>
              work'.doing = "compensate" /\ work'.answered = {} /\ work'.ok = {}
        BY CompensatesIs
    <2>2. cached \in SUBSET Step
        BY DEF Inv, SagaTypeOK
    <2> QED
        BY <1>1, <2>1, <2>2, RestIs DEF handle_saga_compensate, retry_pending
<1>4. /\ saga'.executed = saga.executed /\ saga'.undone = saga.undone
      /\ saga'.status = saga.status \/ (saga'.status = "Failed" /\ saga.status = "Executing")
    <2>1. Save("Failed") =>
              saga'.executed = saga.executed /\ saga'.undone = saga.undone /\ saga'.status = "Failed"
        BY SaveIs DEF Inv, SagaStatus
    <2> QED
        BY <2>1 DEF handle_saga_compensate, retry_pending
<1>5. Undoes => Undoes'
    BY <1>4 DEF Undoes
<1>6. Phases'
    BY <1>3 DEF Phases
<1>7. work.ok = {}
    BY <1>1, RestIs
<1> QED
    BY <1>1, <1>2, <1>3, <1>4, <1>5, <1>6, <1>7, StatusInv

LEMMA FailsInv == ASSUME Inv, SaveFails \/ Crash PROVE Inv'
<1>1. /\ UNCHANGED <<deps, saga, effect, late, overlooked>> /\ work' = Idle
      /\ doubt' = doubt \cup work.ok
    BY DEF SaveFails, Crash, Forgets, nodeVars
<1>2. SagaTypeOK'
    BY FailsTyped DEF Inv
<1>3. Phases'
    BY <1>1, RestIs DEF Phases
<1>4. Undoes => Undoes'
    BY <1>1 DEF Undoes
<1> QED
    BY <1>1, <1>2, <1>3, <1>4, RestIs, StatusInv

LEMMA LateInv == ASSUME Inv, NEW s \in Step, LateForward(s) PROVE Inv'
<1>1. /\ UNCHANGED <<deps, saga, work, cached, doubt, overlooked>> /\ s \in late /\ late' = late \ {s}
      /\ effect' = [effect EXCEPT ![s] = "done"]
    BY DEF LateForward
<1>2. SagaTypeOK'
    BY LateTyped DEF Inv
<1>3. s \in doubt /\ late' \subseteq doubt'
    BY <1>1 DEF Inv, Effects
<1>4. /\ \A t \in Step : effect'[t] = effect[t] \/ (t \in doubt' /\ effect'[t] = "done")
      /\ \A t \in Step : effect'[t] = "undone" => effect[t] = "undone"
    BY <1>1, <1>3 DEF Inv, SagaTypeOK
<1>5. Undoes => Undoes'
    BY <1>1 DEF Undoes
<1>6. Phases'
    <2>1. ToUndo' = ToUndo /\ Undoing' = Undoing /\ (Cyclic' <=> Cyclic)
        BY <1>1, SameGraph DEF ToUndo, Undoing
    <2>2. ToUndo # {} => Undoing \in Step
        BY UndoingIs DEF Inv
    <2>3. work.doing = "undone" => effect'[Undoing] = "undone" \/ Undoing \in doubt
        BY <1>4, <1>1, <2>2 DEF Inv, Phases
    <2> QED
        BY <1>1, <2>1, <2>3 DEF Inv, Phases, Running
<1>7. Plans' /\ Backwards'
    BY <1>1, <1>4, <1>5, PlansStay, BackwardsStay
<1>8. Effects'
    <2>1. /\ doubt \subseteq doubt' /\ overlooked \subseteq overlooked'
          /\ work'.ok \subseteq work.ok /\ work.ok \subseteq work'.ok \cup doubt' \cup overlooked'
        BY <1>1
    <2> QED
        BY <1>1, <1>3, <1>4, <1>5, <2>1, EffectsStay
<1> QED
    BY <1>2, <1>6, <1>7, <1>8 DEF Inv

LEMMA NextInv == ASSUME Inv, [SagaNext]_sagaVars PROVE Inv'
<1>1. CASE UNCHANGED sagaVars
    <2>1. SagaTypeOK'
        BY <1>1, NextTyped DEF Inv
    <2>2. UNCHANGED <<deps, saga, work, effect, late, doubt, overlooked>>
        BY <1>1 DEF sagaVars
    <2>3. Phases'
        BY <2>2, SameGraph DEF Inv, Phases, Running, ToUndo, Undoing
    <2>4. Plans' /\ Backwards'
        BY <2>2, PlansStay, BackwardsStay DEF Undoes
    <2>5. Effects'
        BY <2>2, SameRecords DEF Inv, Effects, Undoes
    <2> QED
        BY <2>1, <2>3, <2>4, <2>5 DEF Inv
<1>2. CASE SagaNext
    BY <1>2, StartInv, ForwardInv, RegisterInv, SucceedInv, BeginCompensateInv, UndoInv, RecordUndoneInv,
       CompensatedInv, ComesInv, LateInv, FailsInv DEF SagaNext
<1> QED
    BY <1>1, <1>2

LEMMA AlwaysInv == SagaSpec => []Inv
    BY InitInv, NextInv, PTL DEF SagaSpec

(* The types of the saga, of the call under way and of what the nodes have  *)
(* done (saga.rs).                                                          *)
THEOREM SagaTypeCorrect == SagaSpec => []SagaTypeOK
<1>1. Inv => SagaTypeOK
    BY DEF Inv
<1> QED
    BY <1>1, AlwaysInv, PTL

(* A saga ends with all branches done or none, except where the coordinator *)
(* never recorded the answer, over any crashes, failed saves, lost answers  *)
(* and late calls (run, run_parallel, compensate).                          *)
THEOREM EndsAsAWhole == SagaSpec => []AllOrNothing
<1>1. Inv => AllOrNothing
    <2> SUFFICES ASSUME Inv PROVE AllOrNothing
        OBVIOUS
    <2>1. CASE saga.status = "Succeeded"
        <3>1. Recorded = Step /\ ~Undoes
            BY <2>1 DEF Inv, Effects, Undoes
        <3>2. \A s \in Step : effect[s] = "done"
            BY <3>1 DEF Inv, Effects
        <3> QED
            BY <2>1, <3>2 DEF AllOrNothing, InEffect
    <2>2. CASE saga.status = "Compensated"
        <3>1. Recorded \subseteq saga.undone
            BY <2>2 DEF Inv, Effects
        <3>2. work.ok = {}
            BY <2>2 DEF Inv, Phases, Running
        <3> QED
            BY <2>2, <3>1, <3>2 DEF Inv, Effects, AllOrNothing, InEffect
    <2> QED
        BY <2>1, <2>2 DEF AllOrNothing
<1> QED
    BY <1>1, AlwaysInv, PTL

(* A branch is undone only after everything that was built on it, however   *)
(* often a compensation is interrupted and taken up again (compensate,      *)
(* retry_pending).                                                          *)
THEOREM UndoneBackwards == SagaSpec => []DependentsFirst
<1>1. Inv => DependentsFirst
    <2> SUFFICES ASSUME Inv, NEW s \in Step, NEW t \in Step, Follows(t, s), effect[s] = "undone",
                        effect[t] = "done"
                 PROVE  t \in doubt \cup overlooked
        BY DEF DependentsFirst
    <2>1. PICK i \in DOMAIN saga.executed :
              /\ saga.executed[i] = s
              /\ \A j \in DOMAIN saga.executed : j > i => saga.executed[j] \in saga.undone
        BY DEF Inv, Backwards
    <2>2. work.ok = {}
        BY DEF Inv, Backwards, Phases, Running, Undoes
    <2>3. t \in Recorded => t \in saga.undone
        <3> SUFFICES ASSUME t \in Recorded PROVE t \in saga.undone
            OBVIOUS
        <3>1. PICK k \in DOMAIN saga.executed : saga.executed[k] = t
            BY DEF Recorded, ToSet
        <3>2. PICK j \in DOMAIN saga.executed : j < k /\ saga.executed[j] = s
            BY <3>1 DEF Inv, Plans
        <3>3. i = j
            BY <2>1, <3>2 DEF Inv, Plans
        <3>4. k \in Nat /\ i \in Nat
            BY Fields DEF Inv
        <3> QED
            BY <2>1, <3>1, <3>2, <3>3, <3>4
    <2> QED
        BY <2>2, <2>3 DEF Inv, Effects
<1> QED
    BY <1>1, AlwaysInv, PTL

(* The coordinator never calls a branch forward again once it has ended a   *)
(* saga or compensated the branch (run: terminal states, the barrier).      *)
THEOREM NeverForwardAgain == SagaSpec => NoForwardAfterUndo
<1> DEFINE Stands == \A s \in Step :
               (is_terminal \/ s \in saga.undone) /\ effect[s] # "done" /\ s \notin late
                   => effect'[s] # "done"
<1>1. ASSUME Inv, [SagaNext]_sagaVars PROVE Stands
    <2> SUFFICES ASSUME NEW s \in Step, is_terminal \/ s \in saga.undone, effect[s] # "done",
                        s \notin late, effect'[s] = "done"
                 PROVE  FALSE
        OBVIOUS
    <2>1. CASE Forward
        <3>1. PICK ok, lost, given_up \in SUBSET Pending(work.executed) :
                  Calls(Pending(work.executed), ok, lost, given_up)
            BY <2>1, ForwardIs
        <3>2. s \in Pending(work.executed)
            BY <3>1 DEF Calls
        <3>3. s \notin saga.undone
            BY <3>2 DEF Pending, Left
        <3>4. Running
            BY <1>1, <2>1 DEF Forward, Inv, Phases
        <3> QED
            BY <3>3, <3>4 DEF Running, is_terminal
    <2>2. CASE \E t \in Step : LateForward(t)
        BY <1>1, <2>2 DEF LateForward, Inv, SagaTypeOK
    <2>3. CASE Undo
        BY <1>1, <2>3 DEF Undo, Inv, SagaTypeOK
    <2>4. CASE UNCHANGED effect
        BY <2>4
    <2> QED
        BY <1>1, <2>1, <2>2, <2>3, <2>4
        DEF SagaNext, sagaVars, handle_saga_start, Register, Succeed, BeginCompensate, RecordUndone, Compensated,
            handle_saga_compensate, retry_pending, SaveFails, Crash, nodeVars
<1> QED
    BY <1>1, AlwaysInv, PTL DEF SagaSpec, NoForwardAfterUndo
=============================================================================
