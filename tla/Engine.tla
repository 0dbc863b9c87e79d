------------------------------ MODULE Engine ------------------------------
(***************************************************************************)
(* The storage engine (engine.rs) on top of its column families: documents *)
(* in the primary family, field patches in the delta family, deletions as  *)
(* tombstones or in the deletion bitmap (bitmap.rs), whole documents in    *)
(* the hot cache (hotcache.rs).  Each of the three has its own file and    *)
(* its own moment to reach the disk; this module is about what a crash     *)
(* between those moments leaves of a document.                             *)
(*                                                                         *)
(* A family is what ColumnFamily promises: a log, a memtable and segments. *)
(* A version is the number of the operation that wrote it; 0 is a          *)
(* tombstone.  A document has one field that patches change.  Writers hold *)
(* the engine exclusively; the group-commit thread, the compaction and the *)
(* end of the process come in between any two of their steps.              *)
(***************************************************************************)
EXTENDS Naturals, Sequences, FiniteSets, SequencesExt

CONSTANTS
    Doc,        \* document ids
    Modes,      \* settings: deletion_bitmap_enabled, group commit, and whether
                \* compaction has the background worker of the MySQL server
    MaxOps,     \* bound: operations of a behaviour
    MaxBatch,   \* bound: operations of a batch
    MaxFaults   \* bound: crashes and failing calls

ASSUME ModesAssumption == Modes \subseteq [bitmap : BOOLEAN, group : BOOLEAN, worker : BOOLEAN]
ASSUME BoundsAssumption == MaxOps \in Nat /\ MaxBatch \in Nat \ {0} /\ MaxFaults \in Nat

Family == {"primary", "delta"}
Version == 0..MaxOps
Record == [doc : Doc, version : Version]
Op == [kind : {"put", "delete", "patch"}, doc : Doc, version : 1..MaxOps]

VARIABLES
    mode,
    store,      \* store[f]: log, how much of it is on disk, memtable, segments
    bits,       \* the deletion bitmap in memory
    bitsDisk,   \* deletion.bitmap
    hot,        \* hot[d]: <<the cached document>> or <<>>
    call,       \* the write call under way
    \* history
    logical,    \* logical[d]: the document as the calls so far have made it
    may,        \* may[d]: what it has been since the last acknowledgement
    touched,    \* touched[d]: where it has changed since then
    past,       \* the primary contents since then (without the bitmap)
    lost,       \* the documents of which a failed flush has dropped a version,
                \* until the next restart
    ops, faults

histVars == <<logical, may, touched, past, lost, ops, faults>>
vars == <<mode, store, bits, bitsDisk, hot, call, histVars>>

Idle == [todo |-> <<>>, at |-> "idle", sync |-> FALSE]
Step == {"idle", "op", "cover", "bits", "primary", "delta"}
Calls == [todo : SeqOf(Op, MaxBatch), at : Step, sync : BOOLEAN]

---------------------------------------------------------------------------
(* A column family *)

StoreSet == [log : Seq(Record), synced : Nat, mem : [Doc -> SeqOf(Version, 1)],
             seg : [Doc -> Seq(Version)]]
EmptyStore == [log |-> <<>>, synced |-> 0,
               mem |-> [d \in Doc |-> <<>>], seg |-> [d \in Doc |-> <<>>]]

\* The version a read finds: the memtable, then the segments, newest first.
Find(s, d) == Head(s.mem[d] \o s.seg[d] \o <<0>>)

Logged(s, d, v) == [s EXCEPT !.log = Append(@, [doc |-> d, version |-> v])]
Written(s, d, v) == [Logged(s, d, v) EXCEPT !.mem[d] = <<v>>]
Synced(s) == [s EXCEPT !.synced = Len(s.log)]

\* switch_and_flush: the memtable becomes a segment, the log is cut.
Flushed(s) == [s EXCEPT !.log = <<>>, !.synced = 0,
                        !.mem = [d \in Doc |-> <<>>],
                        !.seg = [d \in Doc |-> s.mem[d] \o s.seg[d]]]

\* put_bytes_nosync, whose maybe_flush finds the memtable full or not.
PutBytes(s, d, v) == {Written(s, d, v), Flushed(Written(s, d, v))}

\* delete_prefix: the rows it finds get a tombstone that is synced.
Covered(s, d) == IF Find(s, d) = 0 THEN s ELSE Synced(Written(s, d, 0))

\* What replay_records leaves of a document in the memtable: the version of
\* its last record.
Newest(log, d) ==
    LET last == {i \in DOMAIN log : /\ log[i].doc = d
                                    /\ \A j \in DOMAIN log : log[j].doc = d => j <= i}
    IN  IF last = {} THEN <<>> ELSE <<log[CHOOSE i \in last : TRUE].version>>

Restarted(s, kept) == [s EXCEPT !.log = kept, !.synced = Len(kept),
                                !.mem = [d \in Doc |-> Newest(kept, d)]]

(* Mutant: a torn record is left out and the replay goes on behind it. *)
ReplayedSkipping(s, n) ==
    Restarted(s, SubSeq(s.log, 1, n) \o SubSeq(s.log, n + 2, Len(s.log)))

\* A restart replays the n records of the log that reached the disk.
Replayed(s, n) == Restarted(s, SubSeq(s.log, 1, n))

---------------------------------------------------------------------------
(* Documents *)

Content == [base : Version, patch : Version]
NoDoc == [base |-> 0, patch |-> 0]

\* get: the bitmap, the hot cache, then base and delta.
ReadThrough(d) ==
    IF Find(store["primary"], d) = 0 THEN NoDoc
    ELSE [base |-> Find(store["primary"], d), patch |-> Find(store["delta"], d)]
View(d) == IF d \in bits THEN NoDoc ELSE Head(hot[d] \o <<ReadThrough(d)>>)

Bases == [d \in Doc |-> Find(store["primary"], d)]

Init ==
    /\ mode \in Modes
    /\ store = [f \in Family |-> EmptyStore]
    /\ bits = {} /\ bitsDisk = {}
    /\ hot = [d \in Doc |-> <<>>]
    /\ call = Idle
    /\ logical = [d \in Doc |-> NoDoc]
    /\ may = [d \in Doc |-> {NoDoc}]
    /\ touched = [d \in Doc |-> {}]
    /\ past = {[d \in Doc |-> 0]}
    /\ lost = {}
    /\ ops = 0 /\ faults = 0

---------------------------------------------------------------------------
(* Calls *)

\* A call that the caller starts: its operations get the next numbers.
Start(kinds, docs, sync) ==
    /\ call = Idle
    /\ ops + Len(kinds) <= MaxOps
    /\ ops' = ops + Len(kinds)
    /\ call' = [todo |-> [i \in DOMAIN kinds |->
                    [kind |-> kinds[i], doc |-> docs[i], version |-> ops + i]],
                at |-> "op", sync |-> sync]
    /\ UNCHANGED <<mode, store, bits, bitsDisk, hot, logical, may, touched, past, lost, faults>>

\* put, patch: maybe_group_commit leaves the sync to the thread.
put(d) == Start(<<"put">>, <<d>>, ~mode.group)
patch(d) == Start(<<"patch">>, <<d>>, ~mode.group)
delete(d) == Start(<<"delete">>, <<d>>, FALSE)

\* put_batch and write (a WriteBatch): every operation, then one flush_wal.
write ==
    \E n \in 2..MaxBatch :
        \E kinds \in [1..n -> {"put", "delete"}], docs \in [1..n -> Doc] :
            Start(kinds, docs, TRUE)

\* flush_wal on its own: importers, backups, dispatch_outbox.
flush_wal ==
    /\ call = Idle
    /\ call' = [Idle EXCEPT !.at = "bits", !.sync = TRUE]
    /\ UNCHANGED <<mode, store, bits, bitsDisk, hot, histVars>>

Here(kind, at) == call.at = at /\ call.todo # <<>> /\ Head(call.todo).kind = kind

\* What the operation under way makes of document d, and where.
Becomes(d, c, places) ==
    /\ logical' = [logical EXCEPT ![d] = c]
    /\ may' = [may EXCEPT ![d] = @ \cup {c}]
    /\ touched' = [touched EXCEPT ![d] = @ \cup places]

Remember == past' = IF mode.bitmap THEN past ELSE past \cup {Bases'}

OpDone == call' = IF Len(call.todo) > 1 THEN [call EXCEPT !.todo = Tail(@), !.at = "op"]
                  ELSE IF call.sync THEN [call EXCEPT !.todo = <<>>, !.at = "bits"]
                  ELSE Idle

(* Mutant: the cached document survives the patch. *)
Invalidated(d) == hot

\* The write-invalidate chain starts with the hot cache.
Invalidate(d) == [hot EXCEPT ![d] = <<>>]

(* put_nosync, first half: the primary record. *)
PutPrimary ==
    /\ Here("put", "op")
    /\ LET o == Head(call.todo) IN
       /\ hot' = Invalidate(o.doc)
       /\ \E s \in PutBytes(store["primary"], o.doc, o.version) :
             store' = [store EXCEPT !["primary"] = s]
       /\ call' = [call EXCEPT !.at = "cover"]
       /\ Becomes(o.doc, [base |-> o.version, patch |-> 0],
             {"primary"} \cup (IF Find(store["delta"], o.doc) # 0 THEN {"delta"} ELSE {})
                         \cup (IF o.doc \in bits THEN {"bits"} ELSE {}))
    /\ Remember
    /\ UNCHANGED <<mode, bits, bitsDisk, lost, ops, faults>>

(* put_nosync, second half: the patches go, the bit is cleared, the cache  *)
(* gets the new document.                                                  *)
PutCover ==
    /\ Here("put", "cover")
    /\ LET o == Head(call.todo) IN
       /\ store' = [store EXCEPT !["delta"] = Covered(@, o.doc)]
       /\ bits' = bits \ {o.doc}
       /\ hot' = [hot EXCEPT ![o.doc] = <<[base |-> o.version, patch |-> 0]>>]
    /\ OpDone
    /\ UNCHANGED <<mode, bitsDisk, histVars>>

(* delete: a bit and a log record that is not synced, or a tombstone that  *)
(* is.                                                                     *)
DeletePrimary ==
    /\ Here("delete", "op")
    /\ LET d == Head(call.todo).doc
           covers == IF Find(store["delta"], d) # 0 THEN {"delta"} ELSE {}
       IN
       /\ hot' = Invalidate(d)
       /\ call' = [call EXCEPT !.at = "cover"]
       /\ \/ /\ mode.bitmap
             /\ bits' = bits \cup {d}
             /\ store' = [store EXCEPT !["primary"] = Logged(@, d, 0)]
             /\ Becomes(d, NoDoc, {"bits"} \cup covers)
          \/ /\ ~mode.bitmap
             /\ UNCHANGED bits
             /\ store' = [store EXCEPT !["primary"] = Synced(Written(@, d, 0))]
             /\ Becomes(d, NoDoc, {"primary"})
    /\ Remember
    /\ UNCHANGED <<mode, bitsDisk, lost, ops, faults>>

\* The deletion alone is durable when its tombstone is.
DeleteCover ==
    /\ Here("delete", "cover")
    /\ LET d == Head(call.todo).doc IN
       /\ store' = [store EXCEPT !["delta"] = Covered(@, d)]
       /\ IF mode.bitmap THEN UNCHANGED <<may, touched>>
          ELSE /\ may' = [may EXCEPT ![d] = {NoDoc}]
               /\ touched' = [touched EXCEPT ![d] = {}]
    /\ OpDone
    /\ UNCHANGED <<mode, bits, bitsDisk, hot, logical, past, lost, ops, faults>>

(* patch: a row of the delta family; a document that is not there stays    *)
(* that way.                                                               *)
PatchDelta ==
    /\ Here("patch", "op")
    /\ LET o == Head(call.todo) IN
       /\ hot' = Invalidate(o.doc)
       /\ \E s \in PutBytes(store["delta"], o.doc, o.version) :
             store' = [store EXCEPT !["delta"] = s]
       /\ Becomes(o.doc, IF logical[o.doc] = NoDoc THEN NoDoc
                         ELSE [logical[o.doc] EXCEPT !.patch = o.version], {"delta"})
    /\ OpDone
    /\ UNCHANGED <<mode, bits, bitsDisk, past, lost, ops, faults>>

---------------------------------------------------------------------------
(* Reaching the disk *)

Acknowledge ==
    /\ may' = [d \in Doc |-> {logical[d]}]
    /\ touched' = [d \in Doc |-> {}]
    /\ past' = IF mode.bitmap THEN past ELSE {Bases}

(* flush_wal: the bitmap, then the logs, one after the other. *)
FlushBits ==
    /\ call.at = "bits"
    /\ bitsDisk' = bits
    /\ call' = [call EXCEPT !.at = "primary"]
    /\ UNCHANGED <<mode, store, bits, hot, histVars>>

(* Mutant: the primary log is left to the next flush. *)
SyncNothing ==
    /\ call.at = "primary"
    /\ call' = [call EXCEPT !.at = "delta"]
    /\ UNCHANGED <<mode, store, bits, bitsDisk, hot, histVars>>

SyncPrimary ==
    /\ call.at = "primary"
    /\ store' = [store EXCEPT !["primary"] = Synced(@)]
    /\ call' = [call EXCEPT !.at = "delta"]
    /\ UNCHANGED <<mode, bits, bitsDisk, hot, histVars>>

SyncDelta ==
    /\ call.at = "delta"
    /\ store' = [store EXCEPT !["delta"] = Synced(@)]
    /\ call' = Idle
    /\ Acknowledge
    /\ UNCHANGED <<mode, bits, bitsDisk, hot, logical, lost, ops, faults>>

(* The group-commit thread syncs one log after the other, at any moment.   *)
(* It never writes the bitmap.                                             *)
GroupCommit(f) ==
    /\ mode.group
    /\ store[f].synced < Len(store[f].log)
    /\ store' = [store EXCEPT ![f] = Synced(@)]
    /\ IF call = Idle /\ \A g \in Family : store'[g].synced = Len(store'[g].log)
       THEN Acknowledge ELSE UNCHANGED <<may, touched, past>>
    /\ UNCHANGED <<mode, bits, bitsDisk, hot, call, logical, lost, ops, faults>>

\* flush_primary.
FlushPrimary ==
    /\ call = Idle
    /\ store' = [store EXCEPT !["primary"] = Flushed(@)]
    /\ store' # store
    /\ UNCHANGED <<mode, bits, bitsDisk, hot, call, histVars>>

(* compact with the bitmap as its filter drops the versions of a deleted   *)
(* document in the segments it merges, and perhaps not the older ones in   *)
(* the levels below.  Without the worker it runs at the end of put_nosync. *)
Compact(d) ==
    /\ d \in bits
    /\ mode.worker \/ call.at # "cover"
    /\ store["primary"].seg[d] # <<>>
    /\ \E n \in 1..Len(store["primary"].seg[d]) :
          store' = [store EXCEPT !["primary"].seg[d] = SubSeq(@, n + 1, Len(@))]
    /\ touched' = [touched EXCEPT ![d] = IF d \in bitsDisk THEN @ ELSE @ \cup {"segments"}]
    /\ UNCHANGED <<mode, bits, bitsDisk, hot, call, logical, may, past, lost, ops, faults>>

---------------------------------------------------------------------------
(* get fills the hot cache, which may evict. *)
get(d) ==
    /\ call = Idle
    /\ d \notin bits /\ hot[d] = <<>> /\ ReadThrough(d) # NoDoc
    /\ hot' = [hot EXCEPT ![d] = <<ReadThrough(d)>>]
    /\ UNCHANGED <<mode, store, bits, bitsDisk, call, histVars>>

Evict(d) ==
    /\ hot[d] # <<>>
    /\ hot' = [hot EXCEPT ![d] = <<>>]
    /\ UNCHANGED <<mode, store, bits, bitsDisk, call, histVars>>

Fault == faults < MaxFaults /\ faults' = faults + 1

(* An error between two records ends the call half way; what it has done   *)
(* stays.                                                                  *)
Fail ==
    /\ Fault
    /\ call # Idle
    /\ call' = Idle
    /\ logical' = [d \in Doc |-> View(d)]
    /\ may' = [d \in Doc |-> may[d] \cup {View(d)}]
    /\ UNCHANGED <<mode, store, bits, bitsDisk, hot, touched, past, lost, ops>>

(* switch_and_flush of a family that fails, at the end of put_bytes_nosync *)
(* or called outright: the memtable it took is gone, its records are in    *)
(* the log alone, and the next flush cuts them off.                        *)
Drop(f, s) ==
    /\ \E d \in Doc : s.mem[d] # <<>>
    /\ store' = [store EXCEPT ![f] = [s EXCEPT !.mem = [d \in Doc |-> <<>>]]]
    /\ lost' = lost \cup {d \in Doc : s.mem[d] # <<>>}

FlushFails ==
    /\ Fault
    /\ \/ /\ call = Idle
          /\ Drop("primary", store["primary"])
          /\ UNCHANGED hot
       \/ /\ Here("put", "op")
          /\ LET o == Head(call.todo) IN
             /\ Drop("primary", Written(store["primary"], o.doc, o.version))
             /\ hot' = Invalidate(o.doc)
       \/ /\ Here("patch", "op")
          /\ LET o == Head(call.todo) IN
             /\ Drop("delta", Written(store["delta"], o.doc, o.version))
             /\ hot' = Invalidate(o.doc)
    /\ call' = Idle
    /\ UNCHANGED <<mode, bits, bitsDisk, logical, may, touched, past, ops>>

(* The process dies: of each log a part comes back that holds everything   *)
(* synced.                                                                 *)
Crash ==
    /\ Fault
    /\ \E n \in [Family -> 0..MaxOps] :
          /\ \A f \in Family : n[f] \in store[f].synced..Len(store[f].log)
          /\ store' = [f \in Family |-> Replayed(store[f], n[f])]
    /\ bits' = bitsDisk
    /\ hot' = [d \in Doc |-> <<>>]
    /\ call' = Idle
    /\ logical' = [d \in Doc |-> View(d)']
    /\ may' = [d \in Doc |-> {View(d)'}]
    /\ touched' = [d \in Doc |-> {}]
    /\ past' = IF mode.bitmap THEN past ELSE {Bases'}
    /\ lost' = {}
    /\ UNCHANGED <<mode, bitsDisk, ops>>

Next ==
    \/ \E d \in Doc : put(d) \/ patch(d) \/ delete(d) \/ get(d) \/ Evict(d) \/ Compact(d)
    \/ write \/ flush_wal
    \/ PutPrimary \/ PutCover \/ DeletePrimary \/ DeleteCover \/ PatchDelta
    \/ FlushBits \/ SyncPrimary \/ SyncDelta
    \/ \E f \in Family : GroupCommit(f)
    \/ FlushPrimary \/ Fail \/ FlushFails \/ Crash

Spec == Init /\ [][Next]_vars

---------------------------------------------------------------------------
TypeOK ==
    /\ mode \in Modes
    /\ store \in [Family -> StoreSet]
    /\ \A f \in Family : store[f].synced <= Len(store[f].log)
    /\ bits \subseteq Doc /\ bitsDisk \subseteq Doc
    /\ hot \in [Doc -> SeqOf(Content, 1)]
    /\ call \in Calls
    /\ logical \in [Doc -> Content]
    /\ may \in [Doc -> SUBSET Content]
    /\ touched \in [Doc -> SUBSET {"primary", "delta", "bits", "segments"}]
    /\ past \subseteq [Doc -> Version]
    /\ lost \subseteq Doc
    /\ ops \in 0..MaxOps /\ faults \in 0..MaxFaults

(* Between calls a read finds what the calls have written, through cache,  *)
(* bitmap and patches (get after put_nosync, patch, delete, compact), but  *)
(* for the documents of which a failed flush has dropped a version.        *)
ReadsLast == call = Idle => \A d \in Doc \ lost : View(d) = logical[d]

(* "Safe beside writes" (CompactTargets::run): what the background worker  *)
(* drops is deleted.                                                       *)
CompactsDeleted ==
    call = Idle => \A d \in Doc \ lost : logical[d].base # 0 => ReadThrough(d) # NoDoc

(* What three files that reach the disk one after the other keep of a      *)
(* document over a crash at any step of put, patch, delete, a batch, its   *)
(* flush_wal or the group commit, as long as no flush has failed.  If its  *)
(* unacknowledged changes are all in one file, it comes back as it has     *)
(* been at some moment since it was last acknowledged.  If they are in     *)
(* several, its patches may not fit it: put_nosync syncs their tombstones  *)
(* ahead of the document they belonged to, flush_wal the primary ahead of  *)
(* the patches; but with tombstones what comes back is one of the          *)
(* documents put since then, or none if it was deleted.  With the bitmap,  *)
(* written ahead of both logs, not even that is so.                        *)
RecoversWhole ==
    [][Crash /\ lost = {} =>
        \A d \in Doc :
            /\ Cardinality(touched[d]) <= 1 => View(d)' \in may[d]
            /\ ~mode.bitmap => \E c \in may[d] : View(d)'.base = c.base]_vars

(* However many puts, tombstones and batches are unacknowledged, the       *)
(* primary family comes back as it was after some of them, in order (the   *)
(* one log of put_bytes_nosync), all those acknowledged among them: later  *)
(* records never survive without earlier ones.  A batch may be parted; the *)
(* deletion bitmap and a failed flush break the order.                     *)
PrimaryInOrder ==
    [][Crash /\ ~mode.bitmap /\ lost = {} => Bases' \in past]_vars
===========================================================================
