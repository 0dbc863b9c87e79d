---------------------------- MODULE Transactions ----------------------------
(***************************************************************************)
(* Transactions of the engine (txn.rs, engine.rs): snapshot reads, the     *)
(* writes kept until the commit, the locks, the check for conflicts, and   *)
(* the writes, patches and deletions of other connections that go on       *)
(* beside them.  The engine's lock makes every call one step: reads share  *)
(* it, begin, commit and writes have it to themselves.                     *)
(*                                                                         *)
(* Transaction::put and delete only take note of an operation in the       *)
(* client's own handle, and read_own answers from there, so the model lets *)
(* the commit say what the transaction wrote, the last operation on each   *)
(* document.  A version or a patch is known by its sequence number, and    *)
(* all writes of a commit have one number.  A document has one field that  *)
(* can be patched.                                                         *)
(***************************************************************************)
EXTENDS LockTable, Integers

(***************************************************************************)
(* How the engine is set up and used: deletions by bitmap or by tombstone, *)
(* with or without patches and compaction, and the isolation levels.       *)
(***************************************************************************)
CONSTANTS Settings,
          MaxSeq,       \* bound on the sequence numbers given out
          MaxReads,     \* bound on the values read and remembered, of all transactions
          CacheSize     \* snap_cache is emptied when it is full (256 entries)

Isolation == {"ReadCommitted", "RepeatableRead", "Serializable"}
uses_snapshot(level) == level # "ReadCommitted"
checks_write_conflict(level) == level # "ReadCommitted"
locks_reads(level) == level = "Serializable"

Setting ==
    [bitmap : BOOLEAN, patches : BOOLEAN, compacts : BOOLEAN, levels : SUBSET Isolation]

ASSUME SettingsAssumption == Settings \subseteq Setting
ASSUME BoundsAssumption == MaxSeq \in Nat /\ MaxReads \in Nat /\ CacheSize \in Nat \ {0}

VARIABLES
    setting,    \* one of Settings
    seq,        \* global_seq - 1, the last number given out
    primarySeq, \* the primary's WAL next_seq - 1
    versions,   \* the versions of the primary column family
    delta,      \* the newest row of the delta column family for each document
    dead,       \* the documents of the deletion bitmap
    txn,        \* the transactions
    log,        \* history: every write that was acknowledged, and whose it is
    reads,      \* history: what a transaction's reads took from the engine
    alone       \* history: the active transaction nobody has been active beside

dbVars == <<seq, primarySeq, versions, delta, dead>>
vars == <<lockVars, dbVars, setting, txn, log, reads, alone>>

Status == {"new", "active", "committed", "refused", "rolledback"}
Op == {"none", "put", "delete"}
Seqs == 0..MaxSeq

\* A patch, or the tombstone that took its place, or neither.
Row == [seq : Seqs, live : BOOLEAN]
NoRow == [seq |-> 0, live |-> FALSE]

(***************************************************************************)
(* What a read returns: the number of the version and the number of the    *)
(* version or patch the field is from.  0 is no document, and no field.    *)
(***************************************************************************)
Value == [base : Seqs, field : Seqs]
NoDoc == [base |-> 0, field |-> 0]

Transaction ==
    [status : Status, isolation : Isolation, snapshot : Seqs, begun : Seqs,
     snap_cache : SUBSET [doc : Doc, value : Value]]

Fresh(level) ==
    [status |-> "new", isolation |-> level, snapshot |-> 0, begun |-> 0,
     snap_cache |-> {}]

Active(t) == txn[t].status = "active"

Init ==
    /\ TableInit
    /\ setting \in Settings
    /\ seq = 0 /\ primarySeq = 0
    /\ versions = {} /\ delta = [d \in Doc |-> NoRow] /\ dead = {}
    /\ txn \in [Txn -> {Fresh(level) : level \in setting.levels}]
    /\ log = {} /\ alone = {}
    /\ reads = [t \in Txn |-> {}]

-----------------------------------------------------------------------------
(* Reading.                                                                *)

Upto(d, s) == {v \in versions : v.doc = d /\ v.seq <= s}

\* The number of the newest of some versions, 0 if there is none or it is a tombstone.
Live(vs) ==
    IF vs = {} THEN 0
    ELSE LET newest == CHOOSE v \in vs : \A w \in vs : w.seq <= v.seq
         IN IF newest.live THEN newest.seq ELSE 0

(***************************************************************************)
(* get_at: the delta answers with one row a field, and a newer row hides   *)
(* an older one.  A tombstone in the snapshot takes the field away.        *)
(***************************************************************************)
get_at(d, snapshot) ==
    LET base == Live(Upto(d, snapshot))
        row == delta[d]
    IN IF d \in dead \/ base = 0 THEN NoDoc
       ELSE [base |-> base,
             field |-> IF row = NoRow \/ row.seq > snapshot THEN base
                       ELSE IF row.live THEN row.seq ELSE 0]

\* get sees no tombstones: scan_raw_range leaves them out.
get(d) ==
    LET base == Live(Upto(d, seq))
    IN IF d \in dead \/ base = 0 THEN NoDoc
       ELSE [base |-> base, field |-> IF delta[d].live THEN delta[d].seq ELSE base]

\* Mutant: the bitmap is not asked.
last_write_seqUndeleted(d) == Live(Upto(d, seq))

\* Mutant: a document that is not there counts as written last of all.
last_write_seqCautious(d) ==
    IF d \in dead \/ Live(Upto(d, seq)) = 0 THEN seq ELSE Live(Upto(d, seq))

last_write_seq(d) == IF d \in dead THEN seq ELSE Live(Upto(d, seq))

Cached(t, d) == \E c \in txn[t].snap_cache : c.doc = d

\* snap_put empties a full cache first.
SnapPut(cache, d, value) ==
    (IF Cardinality(cache) >= CacheSize THEN {} ELSE cache)
        \cup {[doc |-> d, value |-> value]}

-----------------------------------------------------------------------------
(* Writing: puts and deletions of some documents under the next number.    *)
(* Each put or deletion also deletes the document's patches from the       *)
(* delta, which takes numbers the primary does not see: the last of them   *)
(* may be above all numbers of the primary.                                *)

Written(ops) == {d \in Doc : ops[d] # "none"}

Patched(D) == {d \in D : delta[d].live}

DeltaNumbers(D) ==
    {n \in {0, 1} : IF n = 1 THEN Patched(D) # {} ELSE Patched(D) # D}

\* Mutant: a new version takes the place of the old ones.
StoreInPlace(D, puts) ==
    {v \in versions : v.doc \notin D}
        \cup {[doc |-> d, seq |-> seq + 1, live |-> d \in puts] : d \in D}

\* The memtable and the segments keep the older versions.
Store(D, puts) ==
    versions \cup {[doc |-> d, seq |-> seq + 1, live |-> d \in puts] : d \in D}

\* Mutant: the delta of a document survives it.
UnpatchedNot(D, number) == delta

\* delete_prefix on the delta.
Unpatched(D, number) ==
    [d \in Doc |-> IF d \in Patched(D) THEN [seq |-> number, live |-> FALSE] ELSE delta[d]]

Apply(ops, by) ==
    LET D == Written(ops)
        puts == {d \in D : ops[d] = "put"}
    IN /\ primarySeq' = seq + 1
       /\ \E n \in DeltaNumbers(D) :
              seq' = seq + 1 + n /\ delta' = Unpatched(D, seq + 1 + n)
       /\ seq' <= MaxSeq
       /\ versions' = Store(IF setting.bitmap THEN puts ELSE D, puts)
       /\ dead' = IF setting.bitmap THEN (dead \ puts) \cup (D \ puts) ELSE dead
       /\ log' = log \cup
              {[doc |-> d, seq |-> seq + 1, live |-> d \in puts, by |-> by] : d \in D}

\* Engine::put and Engine::delete outside of transactions do not look at locks.
Write(d, op) ==
    /\ Apply([e \in Doc |-> IF e = d THEN op ELSE "none"], None)
    /\ alone' = {}
    /\ UNCHANGED <<lockVars, setting, txn, reads>>

\* Engine::patch does not ask whether there is a document.
Patch(d) ==
    /\ setting.patches /\ seq < MaxSeq
    /\ seq' = seq + 1
    /\ delta' = [delta EXCEPT ![d] = [seq |-> seq + 1, live |-> TRUE]]
    /\ alone' = {}
    /\ UNCHANGED <<lockVars, primarySeq, versions, dead, setting, txn, log, reads>>

\* What a merge drops: versions that newer ones of their key replace, and keys of the bitmap.
Droppable ==
    {v \in versions : v.doc \in dead \/ \E w \in versions : w.doc = v.doc /\ v.seq < w.seq}

\* One version after the other: a merge that drops several is several steps.
Compact ==
    /\ setting.compacts
    /\ \E v \in Droppable : versions' = versions \ {v}
    /\ UNCHANGED <<lockVars, seq, primarySeq, delta, dead, setting, txn, log, reads, alone>>

-----------------------------------------------------------------------------
(* Transactions.                                                           *)

begin_snapshot == primarySeq

txn_begin(t) ==
    /\ txn[t].status = "new"
    /\ txn' = [txn EXCEPT ![t].status = "active",
                          ![t].snapshot = begin_snapshot, ![t].begun = seq]
    /\ alone' = IF \E u \in Txn : Active(u) THEN {} ELSE {t}
    /\ UNCHANGED <<lockVars, dbVars, setting, log, reads>>

\* A read that read_own or snap_cache answers changes nothing and is left out.
txn_get(t, d) ==
    LET level == txn[t].isolation
        value == IF uses_snapshot(level) THEN get_at(d, txn[t].snapshot) ELSE get(d)
    IN /\ Active(t)
       /\ ~(uses_snapshot(level) /\ Cached(t, d))
       /\ IF locks_reads(level) THEN Acquire(t, d, "shared") ELSE UNCHANGED lockVars
       /\ IF locks_reads(level) /\ ~Grants(t, d, "shared")
             THEN UNCHANGED <<txn, reads>>
             ELSE /\ txn' = [txn EXCEPT ![t].snap_cache =
                                 IF uses_snapshot(level) THEN SnapPut(@, d, value) ELSE @]
                  /\ reads' = [reads EXCEPT ![t] = @ \cup {[doc |-> d, value |-> value]}]
                  /\ Cardinality(UNION {{u} \X reads'[u] : u \in Txn}) <= MaxReads
       /\ UNCHANGED <<dbVars, setting, log, alone>>

(***************************************************************************)
(* txn_commit: an exclusive lock on everything written, one document after *)
(* the other, then the check, then the writes.  The locks are given back   *)
(* however it ends, so nobody ever sees the exclusive ones.                *)
(***************************************************************************)
Locks(t, D) == \A d \in D : Grants(t, d, "exclusive")

Unchanged(t, D) ==
    checks_write_conflict(txn[t].isolation) =>
        \A d \in D : last_write_seq(d) <= txn[t].snapshot

Commits(t, D) == Locks(t, D) /\ Unchanged(t, D)

\* Mutant: the locks are given back on success only.
DropKeepsLocks(t, status) ==
    /\ txn' = [txn EXCEPT ![t] = [Fresh(@.isolation) EXCEPT !.status = status]]
    /\ reads' = [reads EXCEPT ![t] = {}]
    /\ UNCHANGED lockVars

\* Nothing is left of a transaction that does not commit.
Drop(t, status) ==
    /\ txn' = [txn EXCEPT ![t] = [Fresh(@.isolation) EXCEPT !.status = status]]
    /\ reads' = [reads EXCEPT ![t] = {}]
    /\ Release(t)

Committed(t, ops) ==
    /\ Active(t) /\ Commits(t, Written(ops))
    /\ IF Written(ops) = {} THEN UNCHANGED <<dbVars, log>> ELSE Apply(ops, t)
    /\ txn' = [txn EXCEPT ![t].status = "committed", ![t].snap_cache = {}]
    /\ Release(t)
    /\ alone' = alone \ {t}
    /\ UNCHANGED <<setting, reads>>

Refused(t, ops) ==
    /\ Active(t) /\ ~Commits(t, Written(ops))
    /\ Drop(t, "refused")
    /\ UNCHANGED <<dbVars, setting, log, alone>>

txn_rollback(t) ==
    /\ Active(t)
    /\ Drop(t, "rolledback")
    /\ alone' = alone \ {t}
    /\ UNCHANGED <<dbVars, setting, log>>

Next ==
    \/ \E d \in Doc : Patch(d) \/ \E op \in Op \ {"none"} : Write(d, op)
    \/ Compact
    \/ \E t \in Txn :
        \/ txn_begin(t) \/ txn_rollback(t)
        \/ \E d \in Doc : txn_get(t, d)
        \/ \E ops \in [Doc -> Op] : Committed(t, ops) \/ Refused(t, ops)

Spec == Init /\ [][Next]_vars

-----------------------------------------------------------------------------
Entry == [doc : Doc, seq : Seqs, live : BOOLEAN]

\* The state is typed, and no snapshot is ahead of the numbers given out.
TypeOK ==
    /\ TableTypeOK
    /\ setting \in Setting
    /\ seq \in Seqs /\ primarySeq \in 0..seq
    /\ versions \subseteq Entry
    /\ delta \in [Doc -> Row] /\ \A d \in Doc : delta[d].seq <= seq
    /\ dead \subseteq Doc
    /\ txn \in [Txn -> Transaction]
    /\ \A t \in Txn : txn[t].snapshot <= seq
    /\ log \subseteq [doc : Doc, seq : 1..seq, live : BOOLEAN, by : Txn \cup {None}]
    /\ reads \in [Txn -> SUBSET [doc : Doc, value : Value]]
    /\ alone \subseteq Txn

(***************************************************************************)
(* No lost update (txn_commit, last_write_seq): the write that a committed *)
(* transaction with conflict checks replaced was in its snapshot.  A       *)
(* deletion by tombstone is excepted: last_write_seq takes it for a        *)
(* document that was never written.                                        *)
(***************************************************************************)
Checked == {w \in log : w.by # None /\ checks_write_conflict(txn[w.by].isolation)}

FirstCommitterWins ==
    \A w \in Checked :
        LET before == {e \in log : e.doc = w.doc /\ e.seq < w.seq}
        IN \A e \in before :
            (\A f \in before : f.seq <= e.seq) /\ (e.live \/ setting.bitmap)
                => e.seq <= txn[w.by].snapshot

(***************************************************************************)
(* A snapshot read (begin_snapshot, get_at, snap_cache) returns nothing    *)
(* written after its transaction began, in any setting; the version that   *)
(* was acknowledged last by then, whatever has been put or deleted since,  *)
(* although the snapshot is taken from the primary's own numbers; and with *)
(* it the document's patch.  The code does not give, and ConsistentView    *)
(* asks for,                                                               *)
(*   - the version, once a document that was written since is merged or    *)
(*     deleted by bitmap: neither looks at snapshots (Replaced);           *)
(*   - the patch, if its number is above the last one of the primary, or   *)
(*     a later patch or its tombstone took its place (Settled).            *)
(***************************************************************************)
Replaced(t, d) ==
    /\ setting.bitmap \/ setting.compacts
    /\ \E e \in log : e.doc = d /\ e.seq > txn[t].begun

Settled(t, d) ==
    delta[d] = NoRow \/ (delta[d].live /\ delta[d].seq <= txn[t].snapshot)

AsOf(d, s) == Live({e \in log : e.doc = d /\ e.seq <= s})

SnapshotReads ==
    \A t \in Txn : uses_snapshot(txn[t].isolation) =>
        \A r \in reads[t] :
            /\ r.value.base <= txn[t].begun /\ r.value.field <= txn[t].begun
            /\ Replaced(t, r.doc) \/ r.value.base = AsOf(r.doc, txn[t].begun)
            /\ Settled(t, r.doc) =>
                   r.value.field = IF r.value.base # 0 /\ delta[r.doc].live
                                   THEN delta[r.doc].seq ELSE r.value.base

(***************************************************************************)
(* A read never lays a patch over a version it was not made for (put       *)
(* clears the delta, get_at and get filter it): between the version and    *)
(* the patch nothing was put or deleted.                                   *)
(***************************************************************************)
PatchOverBase ==
    \A t \in Txn : \A r \in reads[t] :
        r.value.field \notin {0, r.value.base} =>
            /\ r.value.base < r.value.field
            /\ \A e \in log : e.doc = r.doc =>
                   e.seq <= r.value.base \/ r.value.field < e.seq

(***************************************************************************)
(* No lock outlives its transaction (txn_commit on every path,             *)
(* txn_rollback): between two calls the only locks are the shared ones of  *)
(* active serializable transactions on what they read, and nobody waits.   *)
(***************************************************************************)
OnlyReadersHoldLocks ==
    /\ HeldMatches
    /\ \A d \in Doc : ~exclusive[d]
    /\ \A t \in Txn :
        /\ waiting[t] = None
        /\ held[t] = IF Active(t) /\ locks_reads(txn[t].isolation)
                     THEN {r.doc : r \in reads[t]} ELSE {}

(***************************************************************************)
(* A transaction that nobody else was active beside is not refused         *)
(* (begin_snapshot against last_write_seq): the snapshot covers every      *)
(* write before it, so repeating a refused transaction helps in the end.   *)
(* With deletions by bitmap and patches it does not, as a deleted document *)
(* counts as written at the latest number of all, patches included.        *)
(***************************************************************************)
NeverRefusedAlone ==
    ~(setting.bitmap /\ setting.patches) => \A t \in alone : txn[t].status # "refused"

-----------------------------------------------------------------------------
(* What the comments promise and the code does not keep.                   *)

(***************************************************************************)
(* Serializable transactions are serializable (txn.rs: "equivalent to      *)
(* strict two-phase locking"): of two that committed, not each read what   *)
(* the other then replaced.                                                *)
(***************************************************************************)
Missed(t, u) ==
    \E r \in reads[t], w \in log :
        w.by = u /\ w.doc = r.doc /\ txn[t].snapshot < w.seq

NoWriteSkew ==
    \A t, u \in {x \in Txn : txn[x].status = "committed"
                             /\ txn[x].isolation = "Serializable"} :
        t # u => ~(Missed(t, u) /\ Missed(u, t))

\* No lost update, deletions by tombstone included.
NoLostDelete ==
    \A w \in Checked, e \in log :
        e.doc = w.doc /\ e.seq < w.seq => e.seq <= txn[w.by].snapshot

(***************************************************************************)
(* A snapshot is a consistent view (comment of begin_snapshot): a read     *)
(* finds the version as of the begin, and the document's patch if it was   *)
(* acknowledged by then.                                                   *)
(***************************************************************************)
ConsistentView ==
    \A t \in Txn : uses_snapshot(txn[t].isolation) =>
        \A r \in reads[t] :
            /\ r.value.base = AsOf(r.doc, txn[t].begun)
            /\ r.value.base # 0 /\ delta[r.doc].live /\ delta[r.doc].seq <= txn[t].begun
                   => r.value.field = delta[r.doc].seq

\* The comment of txn_get: a snapshot read that is repeated gives the same.
ReadsRepeat ==
    \A t \in Txn : uses_snapshot(txn[t].isolation) =>
        \A r, q \in reads[t] : r.doc = q.doc => r = q

(***************************************************************************)
(* A put replaces the whole document, patches included (put_nosync): a     *)
(* read that finds a version finds its field.                              *)
(***************************************************************************)
FieldsKept ==
    \A t \in Txn : \A r \in reads[t] : r.value.base # 0 => r.value.field # 0

\* A refused transaction that is repeated alone commits.
RetrySucceeds == \A t \in alone : txn[t].status # "refused"
=============================================================================
