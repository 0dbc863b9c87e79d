---------------------------- MODULE MCInverted ----------------------------
(***************************************************************************)
(* Instances of Inverted for TLC, and what the code's comments say of it   *)
(* beyond what it keeps.                                                   *)
(***************************************************************************)
EXTENDS Inverted, TLC

AllModes == [listed : BOOLEAN, worker : BOOLEAN]
Alone == {[listed |-> FALSE, worker |-> FALSE]}
Collected == {[listed |-> FALSE, worker |-> TRUE]}
Alike == Permutations(Searcher)

\* "WAL 回放重新走 put 重建倒排，缓冲丢失不丢数据" (engine.rs:1456): what was written
\* before a crash is found after it.
RecoveredFound ==
    \A s \in Searcher : search[s].at = "done" => ever \subseteq Answer(s)

\* A search beside a collection reads the same as before or after it
\* (inverted.rs:543): with one searching thread, every search finds all.
SnapshotsWhole ==
    \A s \in Searcher : search[s].at = "done" => known \subseteq Answer(s)

\* Clearing the cache at every write keeps it consistent (inverted.rs:99): while
\* nothing runs, the cached posting is what the index holds.
CacheConsistent ==
    (cache # <<>> /\ ~Searching /\ ~Mutating) => cache[1] = Current

\* doc_count counts each document once (inverted.rs:651).
CountsOnce ==
    \A s \in Searcher : search[s].at = "done" /\ search[s].count =>
        LET merged == Merged(search[s].mem, SetToSortSeq(search[s].got, LAMBDA a, b : a < b))
        IN  Len(merged) = Cardinality(Answer(s))
=============================================================================
