----------------------------- MODULE Inverted -----------------------------
(***************************************************************************)
(* The inverted index (inverted.rs) as the engine uses it (engine.rs): the *)
(* terms of a written document wait in pending_inverted, move into the     *)
(* memory dictionary in batches, and a flush writes the dictionary as a    *)
(* segment.  The collection (gc) merges all segments into one and deletes  *)
(* them; the MySQL server runs it in a thread that holds no engine lock.   *)
(*                                                                         *)
(* One term stands for all of them: they share the files and the list of   *)
(* segments and nothing else.  `mode.listed` says whether its field is one *)
(* of bitmap_fields.  Postings are only ever added.  Writers hold the      *)
(* engine alone; searches through `inverted_posting` share it.             *)
(***************************************************************************)
EXTENDS Naturals, Sequences, FiniteSets, SequencesExt

CONSTANTS
    Doc,        \* document ids
    Searcher,   \* threads that search
    Modes,      \* settings: bitmap_fields holds the field, the server's worker runs
    Cap,        \* INVERTED_PENDING_CAP
    MaxPuts,    \* bound: documents written
    MaxIds,     \* bound: segment numbers
    MaxFaults   \* bound: crashes and failing calls

ASSUME DocAssumption == Doc \subseteq Nat /\ IsFiniteSet(Doc)
ASSUME ModesAssumption == Modes \subseteq [listed : BOOLEAN, worker : BOOLEAN]
ASSUME BoundsAssumption ==
    /\ Cap \in Nat \ {0}
    /\ MaxPuts \in Nat /\ MaxIds \in Nat /\ MaxFaults \in Nat

Id == 1..MaxIds

VARIABLES
    mode,
    pending,    \* pending_inverted: documents whose term is not in the dictionary yet
    mem,        \* the memory dictionary: the term's documents as they came
    bitmap,     \* the term's whitelist bitmap
    cache,      \* posting_cache: <<the cached posting>> or <<>>
    segs,       \* the list of segments, newest first
    mapped,     \* data_files: segments mapped into memory
    next,       \* next_seg_id
    files,      \* the segment files
    posting,    \* posting[i]: what segment i holds, in its file and in its map
    manifest,   \* manifest.json
    search,     \* search[s]: the search of a thread
    change,     \* the flush or collection that holds `mutate`
    \* history
    ever,       \* documents ever written with the term
    known,      \* those the index must know: written since the last restart, or saved
    saved,      \* those of an acknowledged flush
    missing,    \* documents the search missed that made the cached posting
    puts, faults

indexVars == <<pending, mem, bitmap, cache>>
listVars == <<segs, mapped, next>>
diskVars == <<files, posting, manifest>>
histVars == <<ever, known, saved, puts>>
vars == <<mode, indexVars, listVars, diskVars, search, change, histVars, missing, faults>>

Resting == [at |-> "idle", count |-> FALSE, batch |-> <<>>, mem |-> <<>>, left |-> <<>>,
            got |-> {}, missed |-> {}]
Searches == [at : {"idle", "add", "extend", "lookup", "read", "done"}, count : BOOLEAN,
             batch : Seq(Doc), mem : Seq(Doc), left : Seq(Id), got : SUBSET Doc,
             missed : SUBSET Doc]
NoChange == [by |-> "nobody", at |-> "idle", new |-> 0, old |-> <<>>]
Changes == [by : {"nobody", "flush", "caller", "worker"},
            at : {"idle", "lock", "write", "publish", "persist", "finish"},
            new : 0..MaxIds, old : Seq(Id)]

(* `mutate` is held; a thread has the engine; nobody has it. *)
Mutating == change.by # "nobody"
Searching == \E s \in Searcher : search[s].at # "idle"
Counting == \E s \in Searcher : search[s].at # "idle" /\ search[s].count
Exclusive == ~Searching /\ change.by \in {"nobody", "worker"}

Init ==
    /\ mode \in Modes
    /\ pending = <<>> /\ mem = <<>> /\ bitmap = {} /\ cache = <<>>
    /\ segs = <<>> /\ mapped = {} /\ next = 1
    /\ files = {} /\ posting = [i \in Id |-> {}]
    /\ manifest = [segs |-> <<>>, next |-> 1]
    /\ search = [s \in Searcher |-> Resting]
    /\ change = NoChange
    /\ ever = {} /\ known = {} /\ saved = {} /\ missing = {}
    /\ puts = 0 /\ faults = 0

---------------------------------------------------------------------------
(* Writing *)

\* add_batch, by a thread that has the engine to itself.
AddBatch(items) ==
    /\ pending' = <<>>
    /\ cache' = IF items = <<>> THEN cache ELSE <<>>
    /\ bitmap' = IF mode.listed THEN bitmap \cup ToSet(items) ELSE bitmap
    /\ mem' = mem \o items

put(d) ==
    /\ Exclusive
    /\ puts < MaxPuts /\ puts' = puts + 1
    /\ IF Len(pending) + 1 >= Cap THEN AddBatch(Append(pending, d))
       ELSE pending' = Append(pending, d) /\ UNCHANGED <<mem, bitmap, cache>>
    /\ ever' = ever \cup {d} /\ known' = known \cup {d}
    /\ UNCHANGED <<mode, listVars, diskVars, search, change, saved, missing, faults>>

---------------------------------------------------------------------------
(* Flushing and collecting, each under `mutate` from its first step on *)

\* flush_inverted: the buffered terms first; an empty dictionary ends it.
flush_inverted ==
    /\ Exclusive /\ ~Mutating
    /\ AddBatch(pending)
    /\ IF mem \o pending = <<>> THEN UNCHANGED change
       ELSE change' = [by |-> "flush", at |-> "lock", new |-> 0, old |-> <<>>]
    /\ UNCHANGED <<mode, listVars, diskVars, search, histVars, missing, faults>>

\* inverted_gc, by a caller that has the engine; too little to merge ends it.
inverted_gc ==
    /\ Exclusive /\ ~Mutating
    /\ AddBatch(pending)
    /\ IF Len(segs) < 2 THEN UNCHANGED change
       ELSE change' = [by |-> "caller", at |-> "lock", new |-> 0, old |-> segs]
    /\ UNCHANGED <<mode, listVars, diskVars, search, histVars, missing, faults>>

\* gc, by the server's worker, which holds no engine lock.
WorkerCollects ==
    /\ mode.worker /\ ~Mutating /\ Len(segs) > 1
    /\ change' = [by |-> "worker", at |-> "lock", new |-> 0, old |-> segs]
    /\ UNCHANGED <<mode, indexVars, listVars, diskVars, search, histVars, missing, faults>>

\* The cached posting goes, and the new segment gets its number.
TakeNumber ==
    /\ change.at = "lock" /\ next <= MaxIds
    /\ cache' = <<>> /\ missing' = {}
    /\ next' = next + 1
    /\ change' = [change EXCEPT !.at = "write", !.new = next]
    /\ UNCHANGED <<mode, pending, mem, bitmap, segs, mapped, diskVars, search, histVars, faults>>

Collecting == change.by \in {"worker", "caller"}

(* Mutant: the list is read before the newest segment was in it. *)
PostingButNewest ==
    IF Collecting THEN UNION {posting[i] : i \in ToSet(Tail(change.old))} ELSE ToSet(mem)

\* The new segment's posting: the dictionary's, or all that the old ones hold.
NewPosting == IF Collecting THEN UNION {posting[i] : i \in ToSet(change.old)} ELSE ToSet(mem)

\* The segment and its dictionary of terms, written and renamed.
WriteSegment ==
    /\ change.at = "write"
    /\ files' = files \cup {change.new}
    /\ posting' = [posting EXCEPT ![change.new] = NewPosting]
    /\ change' = [change EXCEPT !.at = "publish"]
    /\ UNCHANGED <<mode, indexVars, listVars, manifest, search, histVars, missing, faults>>

(* Mutant: the collection deletes the old files before it writes the manifest. *)
PublishThenDelete ==
    /\ change.at = "publish"
    /\ segs' = IF Collecting THEN <<change.new>> ELSE <<change.new>> \o segs
    /\ mapped' = IF Collecting THEN {change.new} ELSE mapped \cup {change.new}
    /\ change' = [change EXCEPT !.at = IF Collecting THEN "finish" ELSE "persist"]
    /\ UNCHANGED <<mode, indexVars, next, diskVars, search, histVars, missing, faults>>

\* The list in memory; the collection also replaces the maps.
Publish ==
    /\ change.at = "publish"
    /\ segs' = IF Collecting THEN <<change.new>> ELSE <<change.new>> \o segs
    /\ mapped' = IF Collecting THEN {change.new} ELSE mapped \cup {change.new}
    /\ change' = [change EXCEPT !.at = "persist"]
    /\ UNCHANGED <<mode, indexVars, next, diskVars, search, histVars, missing, faults>>

persist_manifest ==
    /\ change.at = "persist"
    /\ manifest' = [segs |-> segs, next |-> next]
    /\ change' = [change EXCEPT !.at = "finish"]
    /\ UNCHANGED <<mode, indexVars, listVars, files, posting, search, histVars, missing, faults>>

\* The flush empties the dictionary and returns.
ClearMemory ==
    /\ change.at = "finish" /\ change.by = "flush"
    /\ mem' = <<>>
    /\ saved' = saved \cup ToSet(mem)
    /\ change' = NoChange
    /\ UNCHANGED <<mode, pending, bitmap, cache, listVars, diskVars, search, ever, known, puts,
                   missing, faults>>

(* A search that still has to read a segment file the collection deleted *)
(* reads nothing from it: history notes what was in it.                  *)
Overtaken(s, i) == search[s].at = "read" /\ i \in ToSet(search[s].left) /\ i \notin mapped

\* The collection deletes the old segments, one by one.
DeleteOld ==
    /\ change.at = "finish" /\ Collecting
    /\ change.old # <<>>
    /\ files' = files \ {Head(change.old)}
    /\ search' = [s \in Searcher |->
                    IF Overtaken(s, Head(change.old))
                    THEN [search[s] EXCEPT !.missed = @ \cup posting[Head(change.old)]]
                    ELSE search[s]]
    /\ change' = IF Len(change.old) = 1 THEN NoChange ELSE [change EXCEPT !.old = Tail(@)]
    /\ UNCHANGED <<mode, indexVars, listVars, posting, manifest, histVars, missing, faults>>

\* Creating, writing or renaming a file fails: the flush or collection ends
\* where it is; what it published stays published.
ChangeFails ==
    /\ change.at \in {"write", "persist"} /\ faults < MaxFaults
    /\ faults' = faults + 1
    /\ change' = NoChange
    /\ UNCHANGED <<mode, indexVars, listVars, diskVars, search, histVars, missing>>

---------------------------------------------------------------------------
(* Searching *)

Set(s, r) == search' = [search EXCEPT ![s] = r]

\* flush_inverted_pending takes the buffered terms.  inverted_posting shares
\* the engine with other searches; doc_count and search_paged do not.
Begin(s, count) ==
    /\ search[s].at = "idle"
    /\ change.by \in {"nobody", "worker"}
    /\ IF count THEN ~Searching ELSE ~Counting
    /\ Set(s, [Resting EXCEPT !.at = IF pending = <<>> THEN "lookup" ELSE "add",
                              !.count = count, !.batch = pending])
    /\ pending' = <<>>
    /\ UNCHANGED <<mode, mem, bitmap, cache, listVars, diskVars, change, histVars, missing, faults>>

inverted_posting(s) == Begin(s, FALSE)
inverted_doc_count(s) == Begin(s, TRUE)

(* Mutant: a batch added on the way to a search leaves the cache alone. *)
add_batchUncleared(s) ==
    /\ search[s].at = "add"
    /\ bitmap' = IF mode.listed THEN bitmap \cup ToSet(search[s].batch) ELSE bitmap
    /\ mem' = mem \o search[s].batch
    /\ Set(s, [search[s] EXCEPT !.at = "lookup", !.batch = <<>>])
    /\ UNCHANGED <<mode, pending, cache, listVars, diskVars, change, histVars, missing, faults>>

\* add_batch clears the cache first, then extends bitmap and dictionary.
add_batch(s) ==
    \/ /\ search[s].at = "add"
       /\ cache' = <<>>
       /\ Set(s, [search[s] EXCEPT !.at = "extend"])
       /\ UNCHANGED <<mode, pending, mem, bitmap, listVars, diskVars, change, histVars, missing, faults>>
    \/ /\ search[s].at = "extend"
       /\ bitmap' = IF mode.listed THEN bitmap \cup ToSet(search[s].batch) ELSE bitmap
       /\ mem' = mem \o search[s].batch
       /\ Set(s, [search[s] EXCEPT !.at = "lookup", !.batch = <<>>])
       /\ UNCHANGED <<mode, pending, cache, listVars, diskVars, change, histVars, missing, faults>>

(* What other searches have taken from the buffer and not added yet. *)
InFlight(s) == UNION {ToSet(search[r].batch) : r \in Searcher \ {s}}

\* search, doc_count: the whitelist bitmap, the posting cache, and then the
\* dictionary and the list of segments as they are now.
Lookup(s) ==
    /\ search[s].at = "lookup"
    /\ LET found(docs, missed) ==
               [search[s] EXCEPT !.at = "done", !.got = docs, !.missed = missed]
       IN  Set(s, IF mode.listed /\ bitmap # {} THEN found(bitmap, InFlight(s))
                  ELSE IF cache # <<>> /\ ~search[s].count
                       THEN found(cache[1], missing \cup InFlight(s))
                  ELSE [search[s] EXCEPT !.at = "read", !.mem = mem, !.left = segs,
                                         !.missed = InFlight(s)])
    /\ UNCHANGED <<mode, indexVars, listVars, diskVars, change, histVars, missing, faults>>

\* read_segment_posting, segment_posting_entry: the map, or else the file, or
\* nothing when the collection has deleted the file.
ReadSegment(s) ==
    /\ search[s].at = "read" /\ search[s].left # <<>>
    /\ LET i == Head(search[s].left)
           there == {i} \cap (mapped \cup files)
       IN  /\ Set(s, [search[s] EXCEPT !.left = Tail(@),
                                       !.got = @ \cup UNION {posting[j] : j \in there}])
           /\ mapped' = mapped \cup there
    /\ UNCHANGED <<mode, indexVars, segs, next, diskVars, change, histVars, missing, faults>>

Answer(s) == search[s].got \cup ToSet(search[s].mem)

\* What merge_distinct hands on: it takes the smallest of the next values and
\* leaves out what equals the one before; m as it came, g in order.
Merged(m, g) ==
    LET from[i \in 1..Len(m) + 1, j \in 1..Len(g) + 1] ==
            IF i > Len(m) THEN SubSeq(g, j, Len(g))
            ELSE IF j > Len(g) \/ m[i] <= g[j] THEN <<m[i]>> \o from[i + 1, j]
            ELSE <<g[j]>> \o from[i, j + 1]
        all == from[1, 1]
        fresh == {i \in DOMAIN all : i = 1 \/ all[i] # all[i - 1]}
    IN  [i \in 1..Cardinality(fresh) |->
            all[CHOOSE k \in fresh : Cardinality({h \in fresh : h <= k}) = i]]

\* search caches what it found; doc_count and search_paged do not.
Finish(s) ==
    /\ search[s].at = "read" /\ search[s].left = <<>>
    /\ Set(s, [search[s] EXCEPT !.at = "done"])
    /\ IF search[s].count THEN UNCHANGED <<cache, missing>>
       ELSE cache' = <<Answer(s)>> /\ missing' = search[s].missed
    /\ UNCHANGED <<mode, pending, mem, bitmap, listVars, diskVars, change, histVars, faults>>

Return(s) ==
    /\ search[s].at = "done"
    /\ Set(s, Resting)
    /\ UNCHANGED <<mode, indexVars, listVars, diskVars, change, histVars, missing, faults>>

---------------------------------------------------------------------------
(* The end of the process *)

\* open_with_gc and with_bitmap_fields: the manifest's segments and the
\* bitmap of what they hold; nothing replays the terms of the documents.
Restart ==
    /\ faults < MaxFaults /\ faults' = faults + 1
    /\ pending' = <<>> /\ mem' = <<>> /\ cache' = <<>> /\ missing' = {}
    /\ segs' = manifest.segs /\ next' = manifest.next /\ mapped' = {}
    /\ bitmap' = IF mode.listed THEN UNION {posting[i] : i \in ToSet(manifest.segs)} ELSE {}
    /\ search' = [s \in Searcher |-> Resting]
    /\ change' = NoChange
    /\ known' = saved
    /\ UNCHANGED <<mode, diskVars, ever, saved, puts>>

Next ==
    \/ \E d \in Doc : put(d)
    \/ flush_inverted \/ inverted_gc \/ WorkerCollects
    \/ TakeNumber \/ WriteSegment \/ Publish \/ persist_manifest
    \/ ClearMemory \/ DeleteOld \/ ChangeFails
    \/ \E s \in Searcher :
        \/ inverted_posting(s) \/ inverted_doc_count(s) \/ add_batch(s)
        \/ Lookup(s) \/ ReadSegment(s) \/ Finish(s) \/ Return(s)
    \/ Restart

Spec == Init /\ [][Next]_vars

---------------------------------------------------------------------------
(* Properties *)

\* The types of the index, its files and the calls under way (inverted.rs).
TypeOK ==
    /\ mode \in Modes
    /\ pending \in Seq(Doc) /\ mem \in Seq(Doc)
    /\ bitmap \subseteq Doc /\ cache \in {<<>>} \cup {<<docs>> : docs \in SUBSET Doc}
    /\ segs \in Seq(Id) /\ mapped \subseteq Id /\ next \in 1..MaxIds + 1
    /\ files \subseteq Id /\ posting \in [Id -> SUBSET Doc]
    /\ manifest \in [segs : Seq(Id), next : 1..MaxIds + 1]
    /\ search \in [Searcher -> Searches] /\ change \in Changes
    /\ saved \subseteq known /\ known \subseteq ever /\ ever \subseteq Doc
    /\ missing \subseteq Doc /\ puts \in 0..MaxPuts /\ faults \in 0..MaxFaults

\* What an acknowledged flush wrote stays in segments that the manifest on
\* disk names and that exist, whatever a flush, a collection, their failures
\* and the end of the process in between do (flush_segment, gc).
Kept ==
    /\ ToSet(manifest.segs) \subseteq files
    /\ saved \subseteq UNION {posting[i] : i \in ToSet(manifest.segs)}

\* A search finds every document the index must know, cached or not, across
\* flushes, collections, failed ones and restarts, but for those of a batch
\* that was on its way into the dictionary, or of a segment file that a
\* collection had deleted, when this search looked, or the one that made the
\* cached posting it takes; and no search invents one (search, doc_count).
FindsAll ==
    \A s \in Searcher : search[s].at = "done" =>
        /\ Answer(s) \subseteq ever
        /\ known \subseteq Answer(s) \cup search[s].missed

Current == ToSet(mem) \cup UNION {posting[i] : i \in ToSet(segs)}

\* At any moment the cached posting is what the dictionary and the segments
\* hold, but for what the search missed that made it: every way of adding to
\* them or replacing them clears the cache (posting_cache).  That clearing does
\* not reach a search that caches after it is CacheConsistent in MCInverted.
CacheFresh ==
    cache # <<>> => cache[1] \subseteq Current /\ Current \subseteq cache[1] \cup missing
=============================================================================
