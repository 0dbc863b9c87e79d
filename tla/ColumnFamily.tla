--------------------------- MODULE ColumnFamily ---------------------------
(***************************************************************************)
(* One column family of the LSM kernel (src/src/column_family.rs) with its *)
(* append-mode write-ahead log (src/src/wal.rs) and its double-buffered    *)
(* memtable (src/src/memtable.rs).                                         *)
(*                                                                         *)
(* A version of a key is a record: the key, the sequence number the log    *)
(* gave it, whether it is a put or a tombstone, and the number of the      *)
(* write that made it, which stands for the payload.  A segment (SST file) *)
(* is a set of versions; the in-memory list of segments, newest first, is  *)
(* a set of [id, level, rank] records, the newest having the highest rank. *)
(*                                                                         *)
(* Writers hold the engine's write lock, readers its read lock, so a write *)
(* call runs to its end before the next one, but its steps are separate    *)
(* actions because two things do not take that lock: the process may die   *)
(* between any two of them, and the background compaction of the MySQL     *)
(* server (CompactTargets::run) works beside them, sharing only the        *)
(* sst_mutate mutex with a flush.                                          *)
(***************************************************************************)
EXTENDS Naturals, FiniteSetsExt

CONSTANTS
    Key,        \* document keys, natural numbers in key order
    Limits,     \* values effective_l0_threshold may take under write pressure
    Serialized, \* TRUE: compaction runs inside a write call (auto_compact);
                \* FALSE: it runs in the background worker
    Strong,     \* TRUE: every put is synced before the next write (put_bytes);
                \* FALSE: puts may pile up unsynced (put_bytes_nosync)
    Hot,        \* TRUE: point reads have given segments a read heat
    Capped,     \* TRUE: segments may exceed compact_input_max_mb together
    Cooldown,   \* compaction_cooldown: rounds an output segment rests
    EmptyFlush, \* TRUE: flush_primary may be called on an empty memtable
    CrashAt,    \* flush steps at which the process may die
    FailAt,     \* flush steps that may stop with an I/O error
    MaxWrites,  \* bound: writes of a behaviour
    MaxSegs,    \* bound: segment ids of a behaviour
    MaxCrashes, \* bound: crashes of a behaviour
    MaxFails    \* bound: flushes of a behaviour that stop with an error

FlushStep == {"idle", "frozen", "written", "installed", "emptied"}

ASSUME KeyAssumption == Key \subseteq Nat \ {0}
ASSUME LimitsAssumption == Limits \subseteq Nat \ {0, 1}
ASSUME BoundAssumption ==
    /\ MaxWrites \in Nat
    /\ MaxSegs \in Nat
    /\ MaxCrashes \in Nat
    /\ MaxFails \in Nat
    /\ Cooldown \in Nat
ASSUME ModeAssumption ==
    /\ Serialized \in BOOLEAN
    /\ Strong \in BOOLEAN
    /\ CrashAt \subseteq FlushStep
    /\ FailAt \subseteq FlushStep \ {"idle", "emptied"}

Level == 0..2
SegId == 1..MaxSegs
Version == [key : Key, seq : 1..MaxWrites, no : 1..MaxWrites, op : {"put", "delete"}]

VARIABLES
    \* the write-ahead log: records on disk, pending buffer, the next_seq of
    \* the file header (1 when the file has none), the writer's next_seq
    walDisk, walBuf, walHead, nextSeq,
    mem,        \* the mutable memtable
    flush,      \* step the flush has reached
    imm,        \* the memtable the flush has frozen and taken
    flushId,    \* the file the flush has written
    segs,       \* the published segment list (SstSnapshot)
    nextId,     \* next_sst_id
    content,    \* content[i]: the versions in file i
    onDisk,     \* files that exist in the directory
    manifest, manifestNext, \* manifest.json: [id, level] entries, next_sst_id
    comp,       \* the compaction under way
    cool,       \* cool[i]: rounds segment i still rests after a compaction
    \* history, not state of the program
    writes,     \* writes so far
    latest,     \* latest[k]: the newest write of k since the last restart,
                \* or what the restart brought back
    acked,      \* acked[k]: the newest write of k a sync has acknowledged
    dropped,    \* writes that failed flushes have dropped since the last restart
    crashes, fails

walVars  == <<walDisk, walBuf, walHead, nextSeq>>
fileVars == <<nextId, content, onDisk, manifest, manifestNext>>
histVars == <<writes, latest, acked, dropped, crashes, fails>>
flushVars == <<flush, imm, flushId>>
vars == <<walVars, mem, flushVars, segs, fileVars, comp, cool, histVars>>

NoComp == [step |-> "idle", sel |-> {}, out |-> 0, id |-> 0, old |-> {}]

---------------------------------------------------------------------------
(* Versions and segments *)

(* The versions of k in S, and the newest of them (versions.last() of the  *)
(* memtable, the maximum sequence number of a block scan).                 *)
Of(S, k) == {v \in S : v.key = k}
Newest(S, k) == CHOOSE v \in Of(S, k) : \A w \in Of(S, k) : w.seq <= v.seq

(* Mutant: the oldest segment of a level is read first. *)
BeforeOldestFirst(s, t) == s.level < t.level \/ (s.level = t.level /\ s.rank < t.rank)

(* Read order: level by level, newest first inside a level. *)
Before(s, t) == s.level < t.level \/ (s.level = t.level /\ s.rank > t.rank)

(* Position of s in the published list S, which ignores levels. *)
IndexOf(s, S) == Cardinality({t \in S : t.rank > s.rank})
AtIndexes(I, S) == {s \in S : IndexOf(s, S) \in I}

NextRank(S) == IF S = {} THEN 1 ELSE 1 + Max({s.rank : s \in S})

Keys(i) == {v.key : v \in content[i]}

(* build_layer_meta folds the segments of a level from newest to oldest:   *)
(* an empty segment resets the range to None, a later one starts it anew.  *)
(* So the range covers the segments older than the last empty one, and is  *)
(* None (never skipped) when no segment follows.                           *)
Covered(S, l) ==
    LET layer == {s \in S : s.level = l} IN
    {s \in layer : /\ Keys(s.id) # {}
                   /\ \A e \in layer : Keys(e.id) = {} => e.rank > s.rank}
Skipped(S, l, k) ==
    LET ranged == UNION {Keys(s.id) : s \in Covered(S, l)} IN
    ranged # {} /\ (k < Min(ranged) \/ k > Max(ranged))

(* get_bytes: the memtable, then the first segment in read order that has  *)
(* the key; 0 when there is none.                                          *)
Read(M, S, k) ==
    LET hits == {s \in S : k \in Keys(s.id) /\ ~Skipped(S, s.level, k)} IN
    IF Of(M, k) # {} THEN Newest(M, k).no
    ELSE IF hits = {} THEN 0
    ELSE LET first == CHOOSE s \in hits : \A t \in hits : ~Before(t, s)
         IN  Newest(content[first.id], k).no

(* scan_raw_range: the maximum sequence number over everything, the        *)
(* memtable and then the newest segment winning a tie.                     *)
Scan(M, S, k) ==
    LET cands == Of(M, k) \cup UNION {Of(content[s.id], k) : s \in S}
        best  == {v \in cands : \A w \in cands : w.seq <= v.seq}
        owner == {s \in S : best \cap content[s.id] # {}}
    IN  IF cands = {} THEN 0
        ELSE IF best \cap M # {} THEN (CHOOSE v \in best \cap M : TRUE).no
        ELSE LET s == CHOOSE s \in owner : \A t \in owner : t.rank <= s.rank
             IN  (CHOOSE v \in best \cap content[s.id] : TRUE).no

(* Mutant: the files are opened oldest name first. *)
LoadedOldestFirst(man, files) ==
    {[id |-> m.id, level |-> m.level, rank |-> MaxSegs + 1 - m.id] :
        m \in {e \in man : e.id \in files}}

(* What open_inner loads: the manifest's files that exist, newest name     *)
(* first, and the log's records as memtable.                               *)
Loaded(man, files) ==
    {[id |-> m.id, level |-> m.level, rank |-> m.id] :
        m \in {e \in man : e.id \in files}}
RecoveredRead(k) == Read(walDisk, Loaded(manifest, onDisk), k)

Listed(S) == {[id |-> s.id, level |-> s.level] : s \in S}

---------------------------------------------------------------------------
Init ==
    /\ walDisk = {} /\ walBuf = {} /\ walHead = 1 /\ nextSeq = 1
    /\ mem = {}
    /\ flush = "idle" /\ imm = {} /\ flushId = 0
    /\ segs = {} /\ nextId = 1
    /\ content = [i \in SegId |-> {}] /\ onDisk = {}
    /\ manifest = {} /\ manifestNext = 1
    /\ comp = NoComp
    /\ cool = [i \in SegId |-> 0]
    /\ writes = 0 /\ crashes = 0 /\ fails = 0 /\ dropped = {}
    /\ latest = [k \in Key |-> 0] /\ acked = [k \in Key |-> 0]

(* The engine's write lock is free: no write call is half way. *)
WriterFree == flush = "idle" /\ (Serialized => comp.step = "idle")

NewVersion(k, op) == [key |-> k, seq |-> nextSeq, no |-> writes + 1, op |-> op]

(* MemTableBuffer::switch and take_immutable. *)
Freeze(M) == imm' = M /\ mem' = {} /\ flush' = "frozen" /\ UNCHANGED flushId

(* put_bytes_nosync: append to the log's buffer, insert into the memtable, *)
(* and freeze it for a flush when it has reached its size limit (sizes are *)
(* abstracted: any put may be the one that fills it).                      *)
Put(k) ==
    /\ WriterFree
    /\ writes < MaxWrites
    /\ Strong => walBuf = {}
    /\ LET v == NewVersion(k, "put") IN
       /\ walBuf' = walBuf \cup {v}
       /\ \/ mem' = mem \cup {v} /\ UNCHANGED flushVars
          \/ Freeze(mem \cup {v})
    /\ nextSeq' = nextSeq + 1
    /\ writes' = writes + 1
    /\ latest' = [latest EXCEPT ![k] = writes + 1]
    /\ UNCHANGED <<walDisk, walHead, segs, fileVars, comp, cool, acked, dropped, crashes, fails>>

(* delete_bytes: append, sync the log, then the tombstone in the memtable. *)
Delete(k) ==
    /\ WriterFree
    /\ writes < MaxWrites
    /\ Strong => walBuf = {}
    /\ LET v == NewVersion(k, "delete") IN
       /\ walDisk' = walDisk \cup walBuf \cup {v}
       /\ mem' = mem \cup {v}
    /\ walBuf' = {}
    /\ nextSeq' = nextSeq + 1
    /\ writes' = writes + 1
    /\ latest' = [latest EXCEPT ![k] = writes + 1]
    /\ acked' = latest'
    /\ UNCHANGED <<walHead, flushVars, segs, fileVars, comp, cool, dropped, crashes, fails>>

(* sync_wal, by the writer or by the group-commit thread: only the log's   *)
(* own mutex is needed, so it may happen during a flush, but not while     *)
(* truncate_and_reset holds that mutex.                                    *)
SyncWal ==
    /\ walBuf # {}
    /\ flush # "emptied"
    /\ walDisk' = walDisk \cup walBuf
    /\ walBuf' = {}
    /\ acked' = latest
    /\ UNCHANGED <<walHead, nextSeq, mem, flushVars, segs, fileVars, comp, cool,
                   writes, latest, dropped, crashes, fails>>

(* put_bytes returns after a sync that finds the buffer already emptied by *)
(* the flush of the same call: the write is acknowledged all the same.     *)
SyncNothing ==
    /\ flush = "idle"
    /\ walBuf = {}
    /\ acked # latest
    /\ acked' = latest
    /\ UNCHANGED <<walVars, mem, flushVars, segs, fileVars, comp, cool,
                   writes, latest, dropped, crashes, fails>>

---------------------------------------------------------------------------
(* Flush: switch_and_flush with flush_single *)

(* switch_and_flush called outright (flush_primary, prepare_backup). *)
SwitchAndFlush ==
    /\ WriterFree
    /\ mem # {} \/ EmptyFlush
    /\ nextId <= MaxSegs
    /\ Freeze(mem)
    /\ UNCHANGED <<walVars, segs, fileVars, comp, cool, histVars>>

(* flush_single takes sst_mutate, allocates the id and writes the file. *)
FlushWrite ==
    /\ flush = "frozen"
    /\ comp.step # "published"
    /\ nextId <= MaxSegs
    /\ content' = [content EXCEPT ![nextId] = imm]
    /\ onDisk' = onDisk \cup {nextId}
    /\ flushId' = nextId
    /\ nextId' = nextId + 1
    /\ flush' = "written"
    /\ UNCHANGED <<walVars, mem, imm, segs, manifest, manifestNext, comp, cool, histVars>>

(* Mutant: the new segment is published but the manifest is not persisted. *)
FlushInstallUnsaved ==
    /\ flush = "written"
    /\ segs' = segs \cup {[id |-> flushId, level |-> 0, rank |-> NextRank(segs)]}
    /\ flush' = "installed"
    /\ UNCHANGED <<walVars, mem, imm, flushId, fileVars, comp, cool, histVars>>

(* snapshot_insert in front at level 0, persist_manifest, mutex released. *)
FlushInstall ==
    /\ flush = "written"
    /\ segs' = segs \cup {[id |-> flushId, level |-> 0, rank |-> NextRank(segs)]}
    /\ manifest' = Listed(segs')
    /\ manifestNext' = nextId
    /\ flush' = "installed"
    /\ UNCHANGED <<walVars, mem, imm, flushId, nextId, content, onDisk, comp, cool, histVars>>

(* truncate_and_reset cuts the file to nothing first ... *)
TruncateWal ==
    /\ flush = "installed"
    /\ walDisk' = {}
    /\ walHead' = 1
    /\ flush' = "emptied"
    /\ UNCHANGED <<walBuf, nextSeq, mem, imm, flushId, segs, fileVars, comp, cool, histVars>>

(* Mutant: the header is one ahead of the sequence numbers handed out. *)
WriteWalHeaderAhead ==
    /\ flush = "emptied"
    /\ walHead' = nextSeq + 1
    /\ walBuf' = {}
    /\ flush' = "idle" /\ imm' = {} /\ flushId' = 0
    /\ UNCHANGED <<walDisk, nextSeq, mem, segs, fileVars, comp, cool, histVars>>

(* ... and then writes the header and drops the pending buffer. *)
WriteWalHeader ==
    /\ flush = "emptied"
    /\ walHead' = nextSeq
    /\ walBuf' = {}
    /\ flush' = "idle" /\ imm' = {} /\ flushId' = 0
    /\ UNCHANGED <<walDisk, nextSeq, mem, segs, fileVars, comp, cool, histVars>>

(* An I/O error ends the flush: `?` returns from switch_and_flush, and the *)
(* frozen memtable goes with it.  An error in writing or opening the file  *)
(* leaves the id used up and what was frozen in the log only; one in       *)
(* persist_manifest leaves the segment published and the manifest as it    *)
(* was; one in truncate_and_reset leaves the log uncut.                    *)
FlushFails ==
    /\ flush \in FailAt
    /\ fails < MaxFails
    /\ \/ /\ flush = "frozen"
          /\ comp.step # "published"
          /\ nextId <= MaxSegs
          /\ nextId' = nextId + 1
          /\ dropped' = dropped \cup {v.no : v \in imm}
          /\ UNCHANGED segs
       \/ /\ flush = "written"
          /\ segs' = segs \cup {[id |-> flushId, level |-> 0, rank |-> NextRank(segs)]}
          /\ UNCHANGED <<nextId, dropped>>
       \/ /\ flush = "installed"
          /\ UNCHANGED <<segs, nextId, dropped>>
    /\ flush' = "idle" /\ imm' = {} /\ flushId' = 0
    /\ fails' = fails + 1
    /\ UNCHANGED <<walVars, mem, content, onDisk, manifest, manifestNext, comp, cool,
                   writes, latest, acked, crashes>>

---------------------------------------------------------------------------
(* Compaction *)

Layer(l, C) == {s \in segs : s.level = l /\ s.id \notin C}

(* Mutant: a merge waits for more segments than needs_compact counts. *)
SelectInnerLate(limit, C) ==
    IF Cardinality(Layer(0, C)) <= limit + 1 THEN {}
    ELSE {[sel |-> Layer(0, C), out |-> 1, hot |-> FALSE]}

(* select_inner with the segments of C left out: every selection the heat  *)
(* counters may lead to, as records; hot ones are in the order of heat.    *)
SelectInner(limit, C) ==
    LET l0 == Layer(0, C)
        l1 == Layer(1, C)
        l2 == Layer(2, C)
        hottest == IF Hot /\ Cardinality(l0) > limit THEN kSubset(limit, l0) ELSE {}
        into(S, l) == {[sel |-> x, out |-> l, hot |-> x \in hottest] : x \in S}
    IN  IF l0 # {}
        THEN IF Cardinality(l0) < 2 THEN {}
             ELSE IF Cardinality(l1) < limit THEN into(hottest \cup {l0}, 1)
             ELSE into({l0 \cup l1}, 1)
        ELSE IF Cardinality(l1) > 1 THEN into({l1}, 2)
        ELSE IF Cardinality(l2) > 1 THEN into({l2}, 2)
        ELSE {}

(* cap_by_size: segments are taken off the tail of the selection until it  *)
(* fits; two always stay.  Only merges into level 1 are capped.            *)
CapBySize(c) ==
    IF c.out # 1 \/ ~Capped THEN {c}
    ELSE {[sel |-> x, out |-> 1, hot |-> c.hot] :
            x \in {p \in SUBSET c.sel :
                    /\ Cardinality(p) >= 2
                    /\ c.hot \/ \A s \in p, t \in c.sel \ p : Before(s, t)}}

(* select_compaction_inputs: resting segments are left out unless nothing  *)
(* can be merged without them.                                             *)
Selections(limit) ==
    LET resting   == {i \in SegId : cool[i] > 0}
        preferred == UNION {CapBySize(c) : c \in SelectInner(limit, resting)}
    IN  IF preferred # {} THEN preferred ELSE SelectInner(limit, {})

(* compact loads the published list and picks positions in it. *)
CompactSelect ==
    /\ comp.step = "idle"
    /\ Serialized => flush = "idle"
    /\ nextId <= MaxSegs
    /\ \E limit \in Limits : \E c \in Selections(limit) :
        comp' = [NoComp EXCEPT !.step = "selected",
                               !.sel = {IndexOf(s, segs) : s \in c.sel},
                               !.out = c.out]
    /\ UNCHANGED <<walVars, mem, flushVars, segs, fileVars, cool, histVars>>

(* Mutant: the sort is ascending, the merge keeps the oldest version. *)
MergedOldest(sel) ==
    {v \in UNION {content[s.id] : s \in sel} :
        \A t \in sel : \A w \in Of(content[t.id], v.key) : w.seq >= v.seq}

(* The highest version of each key; of two with the same number, the one   *)
(* read first (the sort is stable) from the newest segment.                *)
Merged(sel) ==
    {v \in UNION {content[s.id] : s \in sel} :
        \E s \in sel :
            /\ v \in content[s.id]
            /\ \A t \in sel : \A w \in Of(content[t.id], v.key) :
                w.seq < v.seq \/ (w.seq = v.seq /\ t.rank <= s.rank)}

(* try_meta_only_compact: when no two key ranges touch the data blocks are *)
(* concatenated as they are, all versions kept (an empty segment has the   *)
(* empty key as its range).                                                *)
Low(i)  == IF Keys(i) = {} THEN 0 ELSE Min(Keys(i))
High(i) == IF Keys(i) = {} THEN 0 ELSE Max(Keys(i))
Disjoint(sel) ==
    \A s, t \in sel : s # t => High(s.id) < Low(t.id) \/ High(t.id) < Low(s.id)

Output(sel) == IF Disjoint(sel) THEN UNION {content[s.id] : s \in sel} ELSE Merged(sel)

(* compact_merge loads the published list again, reads the segments at the *)
(* positions chosen before and writes the new file.                        *)
CompactMerge ==
    /\ comp.step = "selected"
    /\ nextId <= MaxSegs
    /\ content' = [content EXCEPT ![nextId] = Output(AtIndexes(comp.sel, segs))]
    /\ onDisk' = onDisk \cup {nextId}
    /\ nextId' = nextId + 1
    /\ comp' = [comp EXCEPT !.step = "merged", !.id = nextId]
    /\ UNCHANGED <<walVars, mem, flushVars, segs, manifest, manifestNext, cool, histVars>>

(* Mutant: the manifest is persisted before the list is switched. *)
CompactPublishStale ==
    /\ comp.step = "merged"
    /\ flush # "written"
    /\ LET old == AtIndexes(comp.sel, segs) IN
       /\ segs' = (segs \ old) \cup
                    {[id |-> comp.id, level |-> comp.out, rank |-> NextRank(segs)]}
       /\ comp' = [comp EXCEPT !.step = "published", !.old = {s.id : s \in old}]
    /\ manifest' = Listed(segs)
    /\ manifestNext' = nextId
    /\ UNCHANGED <<walVars, mem, flushVars, nextId, content, onDisk, cool, histVars>>

(* finalize_compact under sst_mutate: the positions are taken out of the   *)
(* list as it is now, the output goes in front, the manifest is persisted. *)
CompactPublish ==
    /\ comp.step = "merged"
    /\ flush # "written"
    /\ LET old == AtIndexes(comp.sel, segs) IN
       /\ segs' = (segs \ old) \cup
                    {[id |-> comp.id, level |-> comp.out, rank |-> NextRank(segs)]}
       /\ comp' = [comp EXCEPT !.step = "published", !.old = {s.id : s \in old}]
    /\ manifest' = Listed(segs')
    /\ manifestNext' = nextId
    /\ UNCHANGED <<walVars, mem, flushVars, nextId, content, onDisk, cool, histVars>>

(* The old files are removed, the mutex is released, the output rests.     *)
CompactRemove ==
    /\ comp.step = "published"
    /\ onDisk' = onDisk \ comp.old
    /\ cool' = [i \in SegId |-> IF i = comp.id THEN Cooldown
                                ELSE IF cool[i] > 0 THEN cool[i] - 1 ELSE 0]
    /\ comp' = NoComp
    /\ UNCHANGED <<walVars, mem, flushVars, segs, nextId, content, manifest, manifestNext,
                   histVars>>

---------------------------------------------------------------------------
(* Mutant: the next file id is not restored from the manifest. *)
CrashForgetsId ==
    /\ crashes < MaxCrashes
    /\ flush \in CrashAt
    /\ mem' = walDisk
    /\ walBuf' = {}
    /\ nextSeq' = IF walDisk = {} THEN walHead ELSE 1 + Max({v.seq : v \in walDisk})
    /\ flush' = "idle" /\ imm' = {} /\ flushId' = 0
    /\ segs' = Loaded(manifest, onDisk)
    /\ nextId' = 1
    /\ comp' = NoComp
    /\ cool' = [i \in SegId |-> 0]
    /\ latest' = [k \in Key |-> RecoveredRead(k)]
    /\ crashes' = crashes + 1
    /\ dropped' = {}
    /\ UNCHANGED <<walDisk, walHead, content, onDisk, manifest, manifestNext, writes, acked,
                   fails>>

(* The process dies and open_inner restarts the column family: segments    *)
(* from the manifest, memtable from the log, sequence numbers after the    *)
(* highest record replayed, or from the header when there was none.        *)
Crash ==
    /\ crashes < MaxCrashes
    /\ flush \in CrashAt
    /\ mem' = walDisk
    /\ walBuf' = {}
    /\ nextSeq' = IF walDisk = {} THEN walHead ELSE 1 + Max({v.seq : v \in walDisk})
    /\ flush' = "idle" /\ imm' = {} /\ flushId' = 0
    /\ segs' = Loaded(manifest, onDisk)
    /\ nextId' = manifestNext
    /\ comp' = NoComp
    /\ cool' = [i \in SegId |-> 0]
    /\ latest' = [k \in Key |-> RecoveredRead(k)]
    /\ crashes' = crashes + 1
    /\ dropped' = {}
    /\ UNCHANGED <<walDisk, walHead, content, onDisk, manifest, manifestNext, writes, acked,
                   fails>>

Next ==
    \/ \E k \in Key : Put(k) \/ Delete(k)
    \/ SyncWal
    \/ SyncNothing
    \/ SwitchAndFlush
    \/ FlushWrite
    \/ FlushInstall
    \/ TruncateWal
    \/ WriteWalHeader
    \/ FlushFails
    \/ CompactSelect
    \/ CompactMerge
    \/ CompactPublish
    \/ CompactRemove
    \/ Crash

Spec == Init /\ [][Next]_vars

(* needs_compact by segment counts (the size trigger l0_max_size_mb is off *)
(* by default).                                                            *)
NeedsCompact(limit) ==
    \/ Cardinality(Layer(0, {})) > limit
    \/ /\ Layer(0, {}) = {}
       /\ Cardinality(Layer(1, {})) > 1 \/ Cardinality(Layer(2, {})) > 1

(* A flush that has started runs on in the thread that called it unless an *)
(* error ends it, and auto_compact calls Engine::compact for as long as    *)
(* needs_compact says so; after a restart or a call that an error ended it *)
(* is the next put that does.  That call goes by compaction_urgency: with  *)
(* level 0 empty it leaves the family alone, although needs_compact also   *)
(* asks for the merges of the other levels.                                *)
Fairness ==
    /\ WF_vars(FlushWrite) /\ WF_vars(FlushInstall)
    /\ WF_vars(TruncateWal) /\ WF_vars(WriteWalHeader)
    /\ WF_vars(/\ \E limit \in Limits : NeedsCompact(limit)
               /\ Layer(0, {}) # {}
               /\ CompactSelect)
    /\ WF_vars(CompactMerge) /\ WF_vars(CompactPublish) /\ WF_vars(CompactRemove)
FairSpec == Spec /\ Fairness

---------------------------------------------------------------------------
(* Properties *)

TypeOK ==
    /\ writes \in 0..MaxWrites /\ crashes \in Nat /\ fails \in Nat
    /\ walDisk \subseteq Version /\ walBuf \subseteq Version
    /\ mem \subseteq Version /\ imm \subseteq Version
    /\ walHead \in 1..writes + 1 /\ nextSeq \in 1..writes + 1
    /\ flush \in FlushStep /\ flushId \in SegId \cup {0}
    /\ segs \subseteq [id : SegId, level : Level, rank : Nat]
    /\ nextId \in 1..MaxSegs + 1 /\ manifestNext \in 1..MaxSegs + 1
    /\ content \in [SegId -> SUBSET Version] /\ onDisk \subseteq SegId
    /\ manifest \subseteq [id : SegId, level : Level]
    /\ comp \in [step : {"idle", "selected", "merged", "published"},
                 sel : SUBSET Nat, out : Level, id : SegId \cup {0}, old : SUBSET SegId]
    /\ cool \in [SegId -> Nat]
    /\ latest \in [Key -> 0..MaxWrites] /\ acked \in [Key -> 0..MaxWrites]
    /\ dropped \subseteq 1..MaxWrites

(* Whatever is going on, the manifest on disk names only files that exist: *)
(* a restart finds every segment it expects (the P73 ordering of store,    *)
(* persist and remove under sst_mutate).                                   *)
ManifestClosed == \A m \in manifest : m.id \in onDisk

(* What a restart can use: the log's file and the files of the manifest.   *)
Recoverable == walDisk \cup UNION {content[m.id] : m \in {e \in manifest : e.id \in onDisk}}
Superseded(v, S) == \E w \in S : w.key = v.key /\ w.seq >= v.seq

(* No step, a crash included, loses a version that a restart could have    *)
(* used, except to a version of the same key with a sequence number at     *)
(* least as high: a log is truncated only after the manifest holds what it *)
(* held, a segment leaves the manifest only after its contents were merged.*)
(* The exception is what a flush that could not write its file dropped:    *)
(* that is in the log only, and the next flush cuts the log.               *)
NeverForgets ==
    [][\A v \in Recoverable : v.no \in dropped \/ Superseded(v, Recoverable')]_vars

(* If the process died now, a restart would serve each key its last        *)
(* acknowledged write or a newer one.                                      *)
Durable == \A k \in Key : RecoveredRead(k) >= acked[k]

(* Between two write calls a point read returns the newest write of the    *)
(* key: not a version a compaction or a restart has put in front of it.    *)
ReadsNewest == flush = "idle" => \A k \in Key : Read(mem, segs, k) = latest[k]

(* A range scan and a point read agree on every key (get_bytes goes by     *)
(* position, scan_raw_range by sequence number).                           *)
ScanAgrees == flush = "idle" => \A k \in Key : Scan(mem, segs, k) = Read(mem, segs, k)

(* Compaction catches up: too many segments in level 0, where writes would *)
(* stall, do not stay too many, whatever heat, the size cap and resting    *)
(* segments leave to choose from.                                          *)
Converges ==
    \A limit \in Limits :
        Cardinality(Layer(0, {})) > limit ~> Cardinality(Layer(0, {})) <= limit

(* The column family keeps the promise of DurableStore, where a key's      *)
(* value is what a point read returns between write calls and, while a     *)
(* flush holds the write lock, what it will return when the flush is over. *)
Visible == [k \in Key |-> Read(IF flush \in {"frozen", "written"} THEN mem \cup imm ELSE mem,
                               segs, k)]
Store == INSTANCE DurableStore WITH store <- Visible
KeepsPromise == Store!Spec
===========================================================================
