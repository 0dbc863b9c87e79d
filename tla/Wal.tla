------------------------------- MODULE Wal --------------------------------
(***************************************************************************)
(* The write-ahead log of a column family (wal.rs) as the family uses it   *)
(* (column_family.rs): a file that grows until a flush cuts it, or a ring  *)
(* of fixed size whose records are overwritten once they are flushed.      *)
(*                                                                         *)
(* A record stands for its bytes: it has a length, and in the ring an      *)
(* offset.  Whatever a write overlaps is no record any more: its checksum  *)
(* fails.  Lengths are counted in cells, the headers left out.  Calls are  *)
(* made under the engine's lock, one at a time; a caller without group     *)
(* commit waits for sync_wal after every put.                              *)
(***************************************************************************)
EXTENDS Integers, Sequences, FiniteSets, SequencesExt, FiniteSetsExt

CONSTANTS
    Settings,   \* the mode, what callers do, and what a crash may leave
    Size,       \* cells of the ring's record area
    Lengths,    \* lengths of records
    MaxWrites,  \* bound: calls that write
    MaxCrashes  \* bound: restarts

ASSUME SettingsAssumption ==
    Settings \subseteq [mode : {"append", "ring"}, group : BOOLEAN, bitmap : BOOLEAN,
                        torn : BOOLEAN, split : BOOLEAN, lens : SUBSET Lengths]
ASSUME BoundsAssumption ==
    /\ Size \in Nat \ {0} /\ Lengths \subseteq 1..Size
    /\ MaxWrites \in Nat /\ MaxCrashes \in Nat

VARIABLES
    setting,
    wal,        \* the writer: next_seq, pending and its bytes, and of the ring tail,
                \* flushed_seq, max_written_seq
    disk,       \* the file: log and the next_seq of its header; cells and tail of the ring
    mem,        \* records in the memtable
    sst,        \* the writes that are in segments
    ext,        \* the engine's counter of sequence numbers
    \* history
    waiting,    \* writes whose caller has not yet called sync_wal
    acked,      \* writes reported done
    refused,    \* whether a call has failed because the log is full
    writes, crashes

vars == <<setting, wal, disk, mem, sst, ext, waiting, acked, refused, writes, crashes>>

Ring == setting.mode = "ring"
Offsets == 0..Size - 1
Seqs == 0..2 * MaxWrites + 1
Record == [no : 0..MaxWrites, seq : Seqs, len : Lengths]
Gap == [no |-> 0, seq |-> 0, len |-> 0]     \* no record, or a torn one
Mark == 0       \* stands for every deletion the engine's bitmap keeps

SeqsOf(recs) == {r.seq : r \in recs}
NosOf(recs) == {r.no : r \in recs}

Init ==
    /\ setting \in Settings
    /\ wal = [next |-> 1, pending |-> <<>>, bytes |-> 0, tail |-> 0, flushed |-> 0, written |-> 0]
    /\ disk = [log |-> <<>>, next |-> 1, tail |-> 0, cells |-> [o \in Offsets |-> Gap]]
    /\ mem = {} /\ sst = {} /\ ext = 1
    /\ waiting = {} /\ acked = {} /\ refused = FALSE /\ writes = 0 /\ crashes = 0

\* What a call works on; the operators below map one such state to the next.
State == [wal |-> wal, disk |-> disk, mem |-> mem, sst |-> sst, ext |-> ext, ok |-> TRUE]

Becomes(s) == wal' = s.wal /\ disk' = s.disk /\ mem' = s.mem /\ sst' = s.sst /\ ext' = s.ext

---------------------------------------------------------------------------
(* The log *)

\* sync of the ring: where each pending record ends.  One that does not fit
\* goes to the start.
Ends(w) ==
    LET end[i \in 0..Len(w.pending)] ==
            IF i = 0 THEN w.tail
            ELSE LET len == w.pending[i].len
                 IN  IF end[i - 1] + len <= Size THEN end[i - 1] + len ELSE len
    IN  end

Place(w, i) == Ends(w)[i] - w.pending[i].len
NewTail(w) == Ends(w)[Len(w.pending)]
Wraps(w) == \E i \in DOMAIN w.pending : Ends(w)[i - 1] + w.pending[i].len > Size

\* Mutant of Full: the wrap does not ask whether the records are flushed.
FullUnasked(w) == FALSE

\* A wrap asks that everything written before this sync is flushed.
Full(w) == Wraps(w) /\ w.written > w.flushed

\* Record i of the plan overlaps the cells from o on.
Overwrites(w, i, o, len) == o < Ends(w)[i] /\ Place(w, i) < o + len

\* The records of the plan at the positions in `which`, written in order.
Written(cells, w, which) ==
    LET Stands(i, o) ==
            /\ Place(w, i) = o
            /\ \A j \in which : j > i => ~Overwrites(w, j, o, w.pending[i].len)
    IN  [o \in Offsets |->
            IF \E i \in which : Stands(i, o)
            THEN w.pending[CHOOSE i \in which : Stands(i, o)]
            ELSE IF \E i \in which : Overwrites(w, i, o, cells[o].len) THEN Gap ELSE cells[o]]

\* The file after everything pending has been written and synced.
Stored(w, d) ==
    IF Ring THEN [d EXCEPT !.tail = NewTail(w), !.cells = Written(@, w, DOMAIN w.pending)]
    ELSE [d EXCEPT !.log = @ \o w.pending]

sync(s) ==
    IF s.wal.pending = <<>> THEN s
    ELSE IF Ring /\ Full(s.wal) THEN [s EXCEPT !.ok = FALSE]
    ELSE [s EXCEPT !.disk = Stored(s.wal, @), !.wal.pending = <<>>, !.wal.bytes = 0,
                   !.wal.tail = IF Ring THEN NewTail(s.wal) ELSE @,
                   !.wal.written = Max({@} \cup SeqsOf(ToSet(s.wal.pending)))]

\* append_at: the number is used up although the record does not fit.
append_at(s, r) ==
    LET counted == [s EXCEPT !.wal.next = Max({@, r.seq + 1})]
    IN  IF Ring /\ s.wal.bytes + r.len > Size
        THEN [counted EXCEPT !.ok = FALSE]
        ELSE [counted EXCEPT !.wal.pending = Append(@, r), !.wal.bytes = @ + r.len]

\* scan_ring: a record that ends behind the tail is not read, and the next one
\* starts where this one ends.  Starts(d) are the offsets reached from 0.
Whole(d, o) == o \in Offsets /\ d.cells[o] # Gap /\ o + d.cells[o].len <= d.tail
Followed(d) ==
    {S \in SUBSET (0..Size) :
        0 \in S /\ \A o \in S : Whole(d, o) => o + d.cells[o].len \in S}
Starts(d) == {o \in Offsets : Whole(d, o) /\ \A S \in Followed(d) : o \in S}

\* WalReader::recover of the log: up to the first gap.
Found(d) == IF Ring THEN Starts(d) ELSE {i \in DOMAIN d.log : \A j \in 1..i : d.log[j] # Gap}
At(d, p) == IF Ring THEN d.cells[p] ELSE d.log[p]
Scan(d) == {At(d, p) : p \in Found(d)}

---------------------------------------------------------------------------
(* What the column family does *)

\* Mutant of Segment: set_flushed_seq is left out.
SegmentUnreported(s) == [s EXCEPT !.sst = @ \cup NosOf(s.mem), !.mem = {}]

Segment(s) == [s EXCEPT !.sst = @ \cup NosOf(s.mem), !.mem = {},
                        !.wal.flushed = Max({@} \cup SeqsOf(s.mem))]

\* switch_and_flush: a segment, be it an empty one, then set_flushed_seq and
\* truncate_and_reset, which drops what is pending as well.
switch_and_flush(s) ==
    IF Ring THEN Segment(s)
    ELSE [Segment(s) EXCEPT !.wal.pending = <<>>, !.wal.bytes = 0, !.disk.log = <<>>, !.disk.next = s.wal.next]

\* sync_wal, ensure_wal_room: a full ring is flushed and tried once more.
sync_wal(s) == IF sync(s).ok THEN sync(s) ELSE sync(switch_and_flush(s))

Numbered(s, no, len) == [no |-> no, seq |-> s.ext, len |-> len]
wal_append(s, no, len) ==
    append_at([s EXCEPT !.ext = @ + 1], Numbered(s, no, len))

\* A record that finds the buffer full is tried again once the buffer is
\* written: a deletion with the engine's next number, a put with the log's own.
Appended(s, no, len, deletes) ==
    LET first == wal_append(s, no, len)
        room == sync_wal([first EXCEPT !.ok = TRUE])
    IN  IF first.ok THEN first
        ELSE IF ~room.ok THEN room
        ELSE IF deletes THEN wal_append(room, no, len)
        ELSE append_at(room, [no |-> no, seq |-> room.wal.next, len |-> len])

Remembered(s) == [s EXCEPT !.mem = @ \cup {Last(s.wal.pending)}]

\* Without group commit a caller waits for its sync before the next call.
Call ==
    /\ ~refused
    /\ setting.group \/ waiting = {}
    /\ writes < MaxWrites /\ writes' = writes + 1
    /\ UNCHANGED <<setting, crashes>>

Refuses(s) == Becomes(s) /\ refused' = TRUE /\ UNCHANGED <<waiting, acked>>
Waits(s, no) == Becomes(s) /\ waiting' = waiting \cup {no} /\ UNCHANGED <<acked, refused>>
Reported(s) ==
    /\ Becomes(s)
    /\ waiting' = {} /\ acked' = acked \cup (waiting \ {Mark})
    /\ UNCHANGED refused

\* put_bytes_nosync: the log, the memtable, and a flush when that is full.
put(len) ==
    /\ Call
    /\ LET s == Appended(State, writes', len, FALSE)
       IN  IF ~s.ok THEN Refuses(s)
           ELSE \/ Waits(Remembered(s), writes')
                \/ Waits(switch_and_flush(Remembered(s)), writes')

\* delete_bytes: the log and its sync, then the memtable.
delete(len) ==
    /\ Call
    /\ LET s == Appended(State, writes', len, TRUE)
           synced == sync_wal(s)
       IN  IF s.ok /\ synced.ok
           THEN /\ Becomes([synced EXCEPT !.mem = @ \cup {Last(s.wal.pending)}])
                /\ acked' = acked \cup {writes'}
                /\ UNCHANGED <<waiting, refused>>
           ELSE Refuses([synced EXCEPT !.ok = FALSE])

\* delete_record_wal: the log alone; the engine marks its bitmap.
delete_record_wal(len) ==
    /\ setting.bitmap /\ Call
    /\ LET s == Appended(State, Mark, len, TRUE)
       IN  IF s.ok THEN Waits(s, Mark) ELSE Refuses(s)

\* sync_wal, for everything put since the last one.
Sync ==
    /\ waiting # {}
    /\ IF sync_wal(State).ok THEN Reported(sync_wal(State)) ELSE Refuses(sync_wal(State))
    /\ UNCHANGED <<setting, writes, crashes>>

\* flush_primary, which does not ask whether the memtable holds anything.
Flush ==
    /\ Becomes(switch_and_flush(State))
    /\ UNCHANGED <<setting, waiting, acked, refused, writes, crashes>>

---------------------------------------------------------------------------
(* Crashes *)

\* Mutant of Reopened: resume_seq is left out.
ReopenedUnresumed(d, segments) ==
    LET next == IF Ring THEN 1 ELSE d.next
    IN  [wal |-> [next |-> next, pending |-> <<>>, bytes |-> 0, tail |-> d.tail, flushed |-> 0,
                  written |-> IF Ring THEN Max({0} \cup SeqsOf(Scan(d))) ELSE 0],
         disk |-> d, mem |-> Scan(d), sst |-> segments, ext |-> next, ok |-> TRUE]

\* open: the writer starts from the file, the records found fill the memtable
\* and set the next number; without any a log has its header's, a ring 1.
Reopened(d, segments) ==
    LET top == Max({0} \cup SeqsOf(Scan(d)))
        next == IF top > 0 THEN top + 1 ELSE IF Ring THEN 1 ELSE d.next
    IN  [wal |-> [next |-> next, pending |-> <<>>, bytes |-> 0, tail |-> d.tail, flushed |-> 0,
                  written |-> IF Ring THEN top ELSE 0],
         disk |-> d, mem |-> Scan(d), sst |-> segments, ext |-> next, ok |-> TRUE]

Restarts ==
    /\ crashes < MaxCrashes /\ crashes' = crashes + 1
    /\ waiting' = {}
    /\ UNCHANGED <<setting, acked, refused, writes>>

Crash == Restarts /\ Becomes(Reopened(disk, sst))

\* Between the segment and the cut of the log.
CrashInFlush == Restarts /\ mem # {} /\ Becomes(Reopened(disk, Segment(State).sst))

\* Between the write and the end of its fsync: of a log a prefix is left, of
\* the ring everything, or with "split" any of the blocks.
CrashInSync ==
    /\ Restarts /\ wal.pending # <<>>
    /\ IF Ring
       THEN /\ ~Full(wal)
            /\ \E which \in SUBSET DOMAIN wal.pending, tail \in {disk.tail, NewTail(wal)} :
                   /\ setting.split \/ (which = DOMAIN wal.pending /\ tail = NewTail(wal))
                   /\ Becomes(Reopened([disk EXCEPT !.tail = tail,
                                                    !.cells = Written(@, wal, which)], sst))
       ELSE \E n \in DOMAIN wal.pending, end \in {<<>>} \cup (IF setting.torn THEN {<<Gap>>} ELSE {}) :
                Becomes(Reopened([disk EXCEPT !.log = @ \o SubSeq(wal.pending, 1, n - Len(end)) \o end],
                                 sst))

Next ==
    \/ \E len \in setting.lens : put(len) \/ delete(len) \/ delete_record_wal(len)
    \/ Sync \/ Flush
    \/ Crash \/ CrashInFlush \/ CrashInSync

Spec == Init /\ [][Next]_vars

---------------------------------------------------------------------------

TypeOK ==
    /\ setting \in Settings
    /\ wal.next \in Seqs \ {0} /\ wal.pending \in Seq(Record) /\ wal.bytes \in Nat
    /\ wal.tail \in 0..Size
    /\ wal.flushed \in Seqs /\ wal.written \in Seqs
    /\ ToSet(disk.log) \subseteq Record \cup {Gap} /\ disk.next \in Seqs \ {0}
    /\ disk.tail \in 0..Size /\ disk.cells \in [Offsets -> Record \cup {Gap}]
    /\ mem \subseteq Record /\ sst \subseteq 0..MaxWrites /\ ext \in Seqs \ {0}
    /\ waiting \subseteq 0..MaxWrites /\ acked \subseteq 1..MaxWrites
    /\ refused \in BOOLEAN /\ writes \in 0..MaxWrites /\ crashes \in 0..MaxCrashes

\* A write that has been reported done is in a segment, or a restart at this
\* very moment finds it in the log: neither the wrap of the ring nor the cut of
\* the log takes a record that is still needed, and nothing hides one
\* (RingWal::sync, set_flushed_seq, truncate_and_reset, recover).
SyncedSurvive == acked \subseteq sst \cup NosOf(Scan(disk))

\* What a restart would replay has ascending numbers: no record of an earlier
\* lap of the ring is among those of the last one, and no number is given
\* twice (scan_ring, wal_append, resume_seq).
InOrder ==
    \A p, q \in Found(disk) : p < q => At(disk, p).seq < At(disk, q).seq

\* A full ring is always made room in by a flush: no call fails because the log
\* is full, however writes, deletions, flushes and restarts come (sync_wal,
\* ensure_wal_room).
NeverRefused == ~refused
===========================================================================
