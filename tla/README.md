# Verification of the shanshui-cunji document store

This directory models the storage and coordination core of shanshui-cunji
(`src/src/*.rs`, Rust) in TLA+, checks it with TLC on small instances and proves
its central invariants with TLAPS. `PROJECT.json` lists the components, the runs,
the line of source every definition translates, the hazards the properties are
aimed at, and the theorems.

## The system

A document database on an LSM kernel. Sources are relative to `src/src/`.

| Part | State | Operations | Works with |
|---|---|---|---|
| Column family (`column_family.rs`, `memtable.rs`) | memtable (mutable and frozen), published segment list, manifest, cooldowns, heat | put, delete, sync, get, scan, flush, compact, restart | its log; the engine's lock; the background worker through `sst_mutate` |
| Write-ahead log (`wal.rs`) | file, pending buffer, `next_seq`; ring tail and `flushed_seq` | append, sync, truncate, recover | column family, group-commit thread |
| Segments (`sstable.rs`, `bloom.rs`, `blockcache.rs`) | one immutable file each | write, point search, range search | column family |
| Engine (`engine.rs`, `bitmap.rs`) | primary, index and delta column families, deletion bitmap, global sequence, hot cache, outbox | put, patch, delete, batch, snapshot reads, backup, compaction | everything below, under one `RwLock` |
| Transactions (`txn.rs`, `engine.rs`) | lock table, wait-for edges, snapshots, write sets | begin, get, put, commit, rollback | engine |
| MySQL server (`mysql.rs`) | sessions with at most one transaction, compaction worker, index GC worker | queries, transactions | engine |
| Outbox (`outbox.rs`) | pending messages in a column family of their own | enqueue, dispatch, mark done | engine, consumers |
| Saga coordinator (`saga.rs`, `server.rs`) | one persisted state per saga | run, run in parallel layers, compensate, retry | remote branches, reconciler thread |
| Metadata Raft (`raft_meta.rs`, `raft_rpc.rs`) | role, term, vote, log, commit per node; message queues | elect, propose, append, acknowledge | shard metadata (`meta.rs`) |
| Replication (`replication.rs`) | persisted log of operations, `pushed_seq` | record, push, advance, restart | slaves over `rpc.rs` |
| Gateway (`gateway.rs`, `meta.rs`, `reshard.rs`, `term_cache.rs`) | routing, migration under way, term cache | put, batch, get, search, migrate | shard nodes |
| Scale-out (`scale_out.rs`) | persisted phase | advance, switch, roll back, resume | shard metadata, outbox |
| Caches (`hotcache.rs`, `external_cache.rs`, `sdk_cache.rs`) | cached documents, circuit breaker | get, put, invalidate | engine, Redis |
| Ids and locks (`docid_alloc.rs`, `seqlock.rs`) | counters, version word | allocate, resize, read, write | engine, gateway |
| Inverted index (`inverted.rs`) | memory dictionary, segments, pending terms | add, flush, search, collect | engine |
| Materialized views (`mv.rs`) | cursor and aggregates | refresh | engine |

The rest (parsers, planners, encoders, importers and exporters, servers' packet
formats, platform crates, operating-system watchdogs) is listed in `PROJECT.json`
with the reason it is not modelled.

### What is hard about it

* **Crashes between two file operations.** A flush writes a segment, the manifest,
  cuts the log, writes a header; a compaction writes a segment, the manifest and
  removes files; the engine syncs three logs and a bitmap one after the other.
* **Two orders of versions.** Point reads go by the position of a segment, scans
  and merges by sequence number. Everything that moves segments or hands out
  numbers has to keep the two in agreement.
* **The background worker** compacts without the engine's lock and shares only one
  mutex with flushes.
* **Progress rules that restrain each other**: thresholds, cooling of fresh
  segments, size caps, heat.
* **Distributed parts** that promise majorities, at-least-once delivery,
  compensation or double writes.

What makes each part correct: an acknowledged write survives and is the one that is
read (column family, log, engine); transactions keep their isolation level and no
waiting cycle is missed, nor reported where there is none (transactions); one leader a term
and state machines that agree (Raft); nothing recorded is skipped on a slave
(replication); every executed branch of a failed saga is compensated (saga); no
write is lost over a migration (gateway, scale-out); no cache serves a value older
than its invalidation (caches).

## Modules

| Module | What it is |
|---|---|
| `ColumnFamily` | one column family with its append-mode log, flush, manifest, compaction and restart |
| `DurableStore` | what a column family promises: a map of keys to writes, acknowledged writes survive |
| `ColumnFamilyProofs` | theorems about `ColumnFamily`; lemmas on least and greatest elements and on finiteness |
| `LockTable` | the lock table of the transactions: the state and the operations, without a next-state relation |
| `LockClients` | clients that ask for locks, ask again, and give up, over `LockTable` |
| `Transactions` | begin, get, commit and rollback over the versions of the engine, with `LockTable` and writers outside of transactions |
| `TransactionsProofs` | lemmas on the operations of the table, on least and greatest elements and on the layers of a saga; theorems about `Transactions`, `LockClients` and `Saga` |
| `Wal` | the two modes of the write-ahead log, record by record, under the calls of a column family |
| `WalProofs` | theorems about `Wal`; lemmas on the lap of the ring and on what each call of the family leaves of the log |
| `Engine` | primary and delta family, deletion bitmap and hot cache, each with its own moment to reach the disk |
| `EngineProofs` | theorems about `Engine` |
| `Inverted` | the inverted index: buffered terms, dictionary, cache, segments, collection, search |
| `InvertedProofs` | theorems about `Inverted` |
| `RaftMeta` | the group of metadata nodes in one process (`raft_meta.rs`): a call is one step |
| `RaftRpc` | the same protocol with inboxes (`raft_rpc.rs`): a message is one step |
| `RaftRpcProofs` | theorems about `RaftRpc` |
| `Replication` | the master's log, its pushes over connections, slaves that apply |
| `ReplicationProofs` | theorems about `Replication` |
| `Gateway` | routing, broadcast search through the term cache, adding a node |
| `ClusterProofs` | theorems about `RaftMeta` and about `Gateway`; lemmas on what a failing call leaves done |
| `Saga` | one saga of several branches, its persisted progress, compensation, clients and reconciler |
| `MC...` | one module for each of these with an instance for TLC: symmetry, settings, crash points, and what comments of the code say beyond what it keeps |

`Transactions` and `LockClients` both extend `LockTable`: the first holds the locks as
the engine uses it, the second as its interface allows. They share no other name, and none
with `Saga`, the transactions over several nodes, so that `TransactionsProofs` extends the
three and proves what the table does once. `RaftMeta` and `Gateway`,
the group that keeps the topology and the gateway that routes by it, share no name either;
`ClusterProofs` extends both. `ColumnFamily` refines
`DurableStore` (`KeepsPromise`). `Engine` takes each of its families as what
`ColumnFamily` promises, a log, a memtable and segments, and adds what lies between two
families, the bitmap and the cache; `Wal` opens up the log that `ColumnFamily` takes as a
sequence of records. Modules take what varies between deployments and
clients (isolation levels, deletions by bitmap or tombstone, how persistent clients
are, the mode of the log, which faults occur) from a constant set of settings, one of which is
chosen in the initial state and never changes, so that one run covers them all.

### ColumnFamily: state and actions against the code

| Model | Code |
|---|---|
| `walDisk`, `walBuf`, `walHead`, `nextSeq` | the log's file, `WalWriter::buf`, the `next_seq` of the header, `WalWriter::next_seq` |
| `mem`, `imm`, `flush`, `flushId` | `MemTableBuffer`, the memtable `take_immutable` handed to the flush, how far `switch_and_flush` has come |
| `segs` | `SstSnapshot`: a record per segment; `rank` is its place (highest is first), `level` its level |
| `content`, `onDisk`, `manifest`, `manifestNext`, `nextId` | files and their versions, `manifest.json`, `next_sst_id` |
| `comp` | the local variables of `compact`, `compact_merge` and `finalize_compact`: the chosen *positions*, the output level, the new file, the old files |
| `cool` | `cooldown` and `merge_round` |
| `Put`, `Delete`, `SyncWal`, `SyncNothing` | `put_bytes_nosync`, `delete_bytes`, `sync_wal` by the writer or the group-commit thread |
| `SwitchAndFlush`, `FlushWrite`, `FlushInstall`, `TruncateWal`, `WriteWalHeader` | `switch_and_flush`, `flush_single`, `truncate_and_reset`, cut where a crash or the worker can come in between |
| `CompactSelect`, `CompactMerge`, `CompactPublish`, `CompactRemove` | `compact` with `select_compaction_inputs`, `compact_merge` or `try_meta_only_compact`, `finalize_compact` |
| `FlushFails` | an I/O error in `write_sst`, `persist_manifest` or `truncate_and_reset` that ends `switch_and_flush`; `FailAt` says where, `MaxFails` how often |
| `Crash` | death of the process and `open_inner` |
| `Read`, `Scan` | `get_bytes`, `scan_raw_range` |

Abstractions: a value is the number of the write that stored it; the size of a
memtable and of a segment is left open (any put may fill the memtable, any merge
into level 1 may be capped at any length of at least two); heat is left open (any
`limit` segments may be the hottest); a segment is the set of its versions. The
write lock of the engine is the guard `WriterFree`. Snapshot reads are in
`Transactions`, `compact_filtered` in `Engine`, the ring and `delete_record_wal` in `Wal`;
TTL buckets, an error inside a compaction, and a cut that fails after it has emptied the file
are not modelled. `dropped` is a history: the writes a failed flush has left in the log alone.

### LockTable and LockClients

| Model | Code (`txn.rs`) |
|---|---|
| `holders`, `exclusive` | `LockState` of each document; no state is no holder |
| `held`, `waiting` | `LockTable::held`, `LockTable::waiting` |
| `Grants`, `Grant`, `Refuse`, `Acquire` | `can_grant`, the branches of `acquire`, `cancel_wait` |
| `WaitsFor`, `OnCycle`, `Deadlocks` | `detect_deadlock` |
| `Release` | `release` |
| `Ask`, `Finish` | a client's call of `acquire_shared` or `acquire_exclusive`, and its end |
| `asks`, `victims` | what clients know: the request they were refused, the deadlock they were told of |

The search of `detect_deadlock` is given by its result: it finds its start again exactly
if every set of transactions that is closed under waiting and holds those the start
waits for holds the start (the proof uses the same form). The queues of waiters are
left out because nothing is decided by them. A request is answered at once, so
"waiting" is an entry that a refused client leaves while it asks again.

### Transactions

| Model | Code |
|---|---|
| `seq`, `primarySeq` | `global_seq - 1`, the primary's `wal_next_seq - 1`: delta rows take numbers the primary does not see |
| `versions`, `delta`, `dead` | all versions the primary keeps; the newest row of the delta column family; the deletion bitmap |
| `txn` | the handles: isolation, snapshot, `snap_cache`, whether finished |
| `txn_begin`, `txn_get`, `txn_rollback` | the calls of the same name |
| `Committed`, `Refused` | `txn_commit`: locks, check, writes and release are one step under the engine's write lock |
| `Write`, `Patch`, `Compact` | `put`, `delete`, `patch`, `compact` of other connections |
| `get_at`, `get`, `last_write_seq`, `begin_snapshot` | the functions of the same name |
| `log`, `reads`, `alone` | histories for the properties |

A value is the number of the version and of the patch it comes from. The operations a
transaction has noted are chosen at the commit, the last on each document, because
`Transaction::put` and `delete` touch the client's handle only. `scan_range_txn` takes no locks
and reads neither bitmap nor patches nor the transaction's own writes; it is not modelled.
`WriteBatch` and crashes are in `Engine`. `begun` is a history too: the engine's number when the
transaction began, which the snapshot, taken from the primary's own, may be below.

### Wal

| Model | Code (`wal.rs`, `column_family.rs`) |
|---|---|
| `wal` | `WalWriter` or `RingWal`: `next_seq`, `buf` or `pending`, and of the ring `tail`, `flushed_seq`, `max_written_seq` |
| `disk` | the file: the records and the header's `next_seq`; of the ring the record area in cells and the header's tail |
| `mem`, `sst`, `ext` | what a memtable and the segments hold; the engine's global counter |
| `append_at`, `sync`, `Ends`, `Full`, `Written`, `Scan` | `append_at` of both modes, `sync`, its placing of records with the wrap, what the file then holds, `recover` and `scan_ring` |
| `switch_and_flush`, `sync_wal`, `Appended` | the functions of the column family with `set_flushed_seq`, `truncate_and_reset`, `ensure_wal_room` and the second try of `wal_append` |
| `put`, `delete`, `delete_record_wal`, `Sync`, `Flush` | `put_bytes_nosync`, `delete_bytes`, `delete_record_wal`, `sync_wal` of a caller or the group-commit thread, a flush from outside |
| `Crash`, `CrashInFlush`, `CrashInSync` | death between calls, between segment and cut of the log, between write and end of `fsync`; then `open` and `resume_seq` |

A record is its number and its length in cells; what a later record overlaps is a gap, as
its checksum fails. In the file that grows lengths play no part, so there every record
has one cell. A group commit is several records before one sync. A deletion kept by the
bitmap is a `Mark`: it uses space and a number, and nothing ever flushes it. A flush of an
empty memtable, which `flush_primary` may ask for, writes a segment and cuts the log like any
other.

### Engine

| Model | Code (`engine.rs`, `bitmap.rs`, `hotcache.rs`) |
|---|---|
| `store[f]` | a column family: log, how much of it is synced, memtable, segments newest first |
| `bits`, `bitsDisk` | the deletion bitmap, and its file as of the last `flush` |
| `hot` | the cached document, if it is cached |
| `call` | the write call under way: the operations left, where it stands, whether it ends in `flush_wal` |
| `put`, `patch`, `delete`, `write`, `flush_wal` | the beginning of the calls of that name, `put_batch` among them |
| `PutPrimary`, `PutCover` | `put_nosync` before and after the primary record |
| `DeletePrimary`, `DeleteCover`, `PatchDelta` | the parts of `delete`, and `patch` |
| `FlushBits`, `SyncPrimary`, `SyncDelta`, `GroupCommit` | `flush_wal` file by file; the thread of group commit |
| `FlushPrimary`, `Compact`, `get`, `Evict` | `flush_primary`, `compact` with the bitmap as filter, the cache filled and emptied |
| `Fail`, `Crash` | an error between two records, out of any step; death and `open` |
| `Drop`, `FlushFails` | a flush of the primary or the delta that fails: the memtable it took is gone, its records are in the log alone |
| `logical`, `may`, `touched`, `past`, `lost` | histories: the document as the calls made it, what it has been since the last acknowledgement and where it has changed, the contents of the primary since then, and the documents of which a failed flush has dropped a version |

A document has one field that patches change; a version is the number of the operation.
Indexes, views, backups, tiers and the outbox are left out.

### Inverted

| Model | Code (`inverted.rs`, `engine.rs`, `mysql.rs`) |
|---|---|
| `pending`, `mem`, `bitmap`, `cache` | `pending_inverted`, the memory dictionary, the whitelist bitmap and `posting_cache` of one term |
| `segs`, `mapped`, `next`, `files`, `posting`, `manifest` | the list of segments, the maps, `next_seg_id`, and what is on disk |
| `put`, `flush_inverted`, `inverted_gc`, `WorkerCollects` | the terms of a written document that wait in `pending_inverted`, the flush, the collection by a caller and by the server's thread |
| `TakeNumber`, `WriteSegment`, `Publish`, `persist_manifest`, `ClearMemory`, `DeleteOld`, `ChangeFails` | `flush_segment` and `gc` under `mutate`, cut where a search, an error or the end of the process can come in between |
| `inverted_posting`, `inverted_doc_count`, `add_batch`, `Lookup`, `ReadSegment`, `Finish`, `Return` | a search: `flush_inverted_pending`, `add_batch`, `search` or `doc_count` |
| `Restart` | `open_with_gc`, `with_bitmap_fields` |

One term stands for all, as terms share only files and lists. `known`, `saved`, `missed` and
`missing` are histories: what the index must find and what a flush saved; which documents a
search could not see, because another search had their batch on its way or a collection had
deleted their file; and which of them the cached posting lacks, from the search that made it.

### Replication

| Model | Code (`replication.rs`, `rpc.rs`) |
|---|---|
| `log`, `disk`, `pushed` | `ReplicationLog`: entries, file, `pushed_seq` |
| `push` | `push_pending` under way: slaves left, the entries it took, the largest acknowledgement |
| `client`, `requests`, `answers`, `epoch` | `RpcClient` for each slave, the two directions of its connection, and the incarnation of the master it belongs to |
| `record`, `push_pending`, `call`, `Read`, `GivesUp`, `advance` | the functions of the same name; the end of a call by answer, timeout or broken connection |
| `apply`, `SlaveRestarts`, `MasterRestarts` | the handler of `repl.apply`; `open` and `new` |

Answers carry no request number, as in `rpc.rs`: the answer of a call that timed out
is what the next call reads. A file that cannot be written, and an error of the slave's
engine in the middle of a batch, are faults of their own.

### Gateway

| Model | Code (`gateway.rs`, `meta.rs`, `sharding.rs`, `reshard.rs`, `term_cache.rs`) |
|---|---|
| `meta`, `Precedes` | `MetaCenter`'s nodes as they were registered, and the order `register` sorts them in |
| `migration`, `link` | the migration under way; whether a node's connection works, is broken, or carries the answer of an earlier call first (`"late"`) |
| `cache`, `counts` | `TermCache`: chunks with their age, writes of a term in the window (`own` is a history: whether the chunk is the node's answer to this call) |
| `docs`, `posts` | what the nodes hold and have indexed |
| `resolve`, `Owner` | the ring |
| `put`, `put_batch`, `get`, `broadcast_search` | the calls of the same name |
| `begin_migration`, `catch_up`, `commit_migration`, `abort_migration` | the steps of adding a node |
| `Fails`, `Served` | a call to a node that fails, breaks or times out, before or after it has done its work; calls that succeed |
| `Unread`, `Answers`, `unseen` | a call that fails while its caller reads the answer of an earlier one: a write taken for done, postings of another term or none, rows that are older or missing |
| `astray` | history: documents of such a write or copy |
| `TimePasses`, `Restart` | time for the cache; a gateway built anew from the saved topology |

A document stands for its virtual shard, and the hash ring is the order in which it
prefers nodes. A gateway serves one call at a time, so a call is one step; its calls to
nodes happen in order and any of them may fail, before or after the node has stored. A step
therefore is one of few effects: a write on the owner, on the new node as well, or on neither; the
copies made up to some row; the chunks cached up to some node. `begin_migration` asks nobody
what the new node holds; a setting says whether callers take only nodes without rows of
documents they do not get (`leftovers`). The
cache drops any entry where the code drops the one unused for longest. `catch_up`
lets the node derive the terms of a row anew; they are taken to be the writer's.

A call that times out leaves its client in place, so from then on each call on this connection
reads the answer of an earlier one, until the gateway is built anew. The node has done
the work of a call, if at all, by the next call it gets on the connection, as it takes them in
order; a request that still waits when the gateway restarts, and the older text of a row that
such an answer shows, are left out (a row it shows has been copied before it was replaced).

### Saga

| Model | Code (`saga.rs`, `server.rs`) |
|---|---|
| `saga` | `SagaState`, which `persist` writes to its file and to memory |
| `work` | the call that holds the coordinator's mutex |
| `cached` | `steps_cache` of the server |
| `effect`, `late` | what the business nodes have done; forward calls given up that may still arrive (external) |
| `Reached`, `Layer`, `Before` | `topo_layers`: the layer of a branch, and the order inside a layer |
| `Left`, `Pending` | what `run` or `run_parallel` has left to do, and the layer it does next |
| `handle_saga_start`, `handle_saga_compensate`, `retry_pending` | the two requests and the reconciler |
| `Forward`, `Register`, `Succeed` | a layer called side by side, its answers recorded one by one |
| `BeginCompensate`, `Undo`, `RecordUndone`, `Compensated` | `compensate` |
| `Saving`, `SaveFails`, `Crash` | the calls of `persist`; an error of one; death and `open` |

Sagas share only the mutex, so there is one. An answer may be a refusal, may get lost, or
comes too late while the work is still done. `doubt` and `overlooked` are histories:
the branches whose answer was not recorded, until a later call of theirs is, with none under way,
and those of a layer that the coordinator forgets behind a failed sibling. A request to
compensate a saga nobody has started panics in the server's only thread, which is a crash.

### RaftMeta and RaftRpc

| Model | Code |
|---|---|
| `role`, `term`, `votedFor`, `log`, and in `RaftRpc` `votes`, `commit` | the fields of `RaftMetaNode` and `RaftNodeRuntime`; in `RaftMeta` every entry is committed as it is logged, and votes are counted within a step |
| reachability in `RaftMeta` | `set_reachable` (`DropOut`, `Rejoin`) |
| `StartElection`, `Tick`, `Propose` | `start_election` with the answers, `tick`, `propose` with `handle_append` |
| inboxes in `RaftRpc` | the queues of `LocalRaftTransport`, one a node, in order |
| `HandleVoteReq`, `HandleVoteResp`, `HandleAppend`, `HandleAppendAck` | the arms of `RaftNodeRuntime::handle`, run by `pump` |
| `Elect`, `Propose`, `SendFails` | `maybe_elect`, `propose`, a refused `send` |

In `RaftMeta` a call runs through all nodes before it returns, as in the code, where
`deliver` is a function call; in `RaftRpc` any node may run between two messages. Any node of
`RaftMeta` may propose, as nothing in `propose` asks for the role. An
entry is a term and an operation; what operations do to the shard metadata is left out.

## Runs

`CHECK_DEADLOCK FALSE` is set where a behaviour ends when its bounds are used up (all
but `LTClients`, where somebody must always be able to go on).

| Run | Setting | Result |
|---|---|---|
| `CFPromise` | 2 keys, thresholds 2 and 3, puts synced or not, no segment resting, compaction inside the write call, one crash up to the moment a flush has written its file | `TypeOK`, `Durable`, `ReadsNewest`, `ScanAgrees` hold, and `KeepsPromise`: every step is a step of `DurableStore` or none |
| `CFAnyCrash` | unsynced puts, hot and capped selections, cooling for two rounds, a crash at any step, a flush that fails at any step, fairness | `ManifestClosed`, `NeverForgets`, `Converges` hold (`Converges` of level 0) |
| `WLRing` | a log that grows and a ring of 4 cells, records of 1 to 3 cells, 5 writes, 2 crashes | `SyncedSurvive`, `InOrder`, `NeverRefused` hold |
| `ENEngine` | 2 documents, 4 operations, one crash, error or failed flush, in three settings: tombstones; group commit; the bitmap | `ReadsLast`, `RecoversWhole`, `PrimaryInOrder` hold |
| `INIndex` | 2 documents, 2 searching threads, 3 writes, 4 segments, 2 faults, with and without whitelist bitmap and worker | `Kept`, `FindsAll`, `CacheFresh` hold |
| `LTClients` | 3 transactions, 3 documents; clients that ask for anything, and clients that insist on exclusive locks | `LocksExclude`, `NobodyStuck`, `InsistingVictimsReal` hold |
| `TXIsolation` | 2 transactions, 2 documents, in five settings: repeatable read; the same with compaction; serializable with patches; read committed beside serializable with the bitmap; repeatable read with bitmap, patches and compaction | `FirstCommitterWins`, `SnapshotReads`, `PatchOverBase`, `OnlyReadersHoldLocks`, `NeverRefusedAlone` hold |
| `RMGroup` | 3 nodes that drop out and rejoin, proposals at any of them | `SingleLeader`, `CommittedByMajority`, `FailsOver` hold |
| `RRNodes` | 3 nodes, messages in any interleaving, three settings of elections, proposals and refused sends | `OneLeaderATerm`, `TermsAgree`, `FollowersAgree` hold |
| `RPLog` | 3 writes, 1 or 2 slaves, both modes, 2 faults of the setting's kinds | `NothingDropped`, `CaughtUp`, `Reaches` hold (`Reaches` of async mode) |
| `GWMigrate` | 2 documents, 4 nodes of which 2 or 1 are there at first; 3 writes, 2 faults (a late answer among them), 2 migrations; 2, 1, 4; or 2, 1, 1 with a term | `ReadsNewest`, `SearchFinds` hold |
| `SGSaga` | 4 branches in order or in three graphs (diamond, two crossed pairs, a circle), 3 faults, fairness | `AllOrNothing`, `DependentsFirst`, `NoForwardAfterUndo`, `Settles` hold |

What the properties say, in short:

* *Column family.* Acknowledged writes survive; point reads and scans return the newest;
  the manifest names only files that exist; no version disappears without a newer one, but for
  what a flush could not write; level 0 comes back under its threshold.
* *Log.* What was synced is in a segment or found by recovery; recovery finds ascending
  numbers, so no record of an earlier lap; a full ring is never a reason to refuse a call.
* *Engine.* Between calls a read finds the last write through cache, bitmap and patches, unless
  a failed flush has dropped it. After a crash a document whose unacknowledged changes are all
  in one file is as it was at some moment since it was last acknowledged; one whose changes are
  in both logs is, patches aside, one that was put since then; and the primary family as a whole
  is as it was after some prefix of the operations. A batch may come back in part.
* *Index.* What a flush saved stays; a search finds all the index must know but for what was out
  of its reach when it looked (a batch another search had taken and not added, a file a
  collection had deleted); a cached posting lacks only what the search had missed that made it.
* *Locks, transactions.* No lost updates; a snapshot shows nothing later than the begin, the
  version of the begin unless a merge or the bitmap has taken it, and the patches whose numbers
  it covers; no patch over the wrong base, no lock left behind, no deadlock missed, nobody
  refused without a reason.
* *Raft.* One leader; what a leader that reaches a majority proposes is with a majority;
  followers agree.
* *Replication.* A write leaves the log only when every slave has it; an empty log means
  equal data; in async mode what is in the log gets there.
* *Gateway.* Reads find the newest acknowledged write before, during and after migrations by
  careful callers; searches find what is older than the lifetime of a cached chunk; both but
  for the writes and chunks that are answered by another call.
* *Saga.* Done or undone as a whole up to unrecorded answers; dependents first; never
  forward again after the end; it ends.

`CFPromise` checks its module's `TypeOK`. The other modules' `TypeOK` hold on the same instances
and are proved for `RaftMeta`, `RaftRpc`, `LockClients`, `Transactions`, `Inverted`, `Engine`,
`Replication`, `Saga`, `Gateway` and `Wal`; they are not among the listed properties.

### Where the code does not keep what it says

Each row is a disagreement between the code and a comment of its own, or with what a caller
would expect, and is reproduced by TLC. The settings of the runs above leave the case out, or
the property does so in its definition: `ReadsLast`, `NeverForgets`, `SnapshotReads`,
`RecoversWhole`, `FindsAll`, `CacheFresh`, `CommittedByMajority`, `AllOrNothing`, `ReadsNewest`
and `SearchFinds` of the gateway each say which documents or branches they speak of, and the
stronger statement is in the table. What the runs show is what the code keeps beside these
cases; what the models themselves leave out is said with each model and under "Not modelled".
None of the rows is listed as a run of `PROJECT.json`; they are reproduced by hand.

By a configuration of its own, with the module `MC...` of its prefix (`CF`, `RM`, `TX`):

| Configuration | Violates | What happens |
|---|---|---|
| `CFHotL0` | `ReadsNewest` | the hottest level-0 segments sink below an older one (`column_family.rs:1917`) |
| `CFResting` | `ReadsNewest` | a resting segment of level 1 is left out of a merge into level 1 and ends up behind its older output (`column_family.rs:1872`) |
| `CFCapped` | `ReadsNewest` | the size cap leaves the oldest level-0 segment in front of the merged output (`column_family.rs:1888`) |
| `CFEmptySegment` | `ReadsNewest` | a segment without keys resets the range of its level (`column_family.rs:928`) |
| `CFSeqRegress` | `ScanAgrees` | a crash between manifest and truncation (`column_family.rs:891`) |
| `CFWalHeader` | `Durable` | a crash between cutting the log and writing its header (`wal.rs:151`) |
| `CFNosyncRegress` | `Durable` | unsynced puts reach a segment before the log (`column_family.rs:434`) |
| `CFWorkerLoses` | `Durable` | the background worker merges the segments at positions that have shifted (`column_family.rs:1316`) |
| `TXSkew` | `NoWriteSkew` | two serializable transactions that each read what the other writes |
| `TXField` | `FieldsKept` | a snapshot read loses the field of a patch that a later put covers |
| `TXLostDelete` | `NoLostDelete` | a deletion by tombstone counts as no write (`engine.rs:801`) |
| `TXRetry` | `RetrySucceeds` | a deleted document counts as written at the latest number, which a patch put beyond every snapshot (`engine.rs:796`) |
| `RMCatchUp` | `ReachableAgree` | a node that rejoins never gets what it missed (`raft_meta.rs:295`) |

`CFWorker` passes: with the background worker and crashes anywhere, `ManifestClosed`
holds, which `ManifestAlwaysClosed` proves for every instance.

By a change of a listed configuration: the setting in the second column in place of its
own, and the property in the third in place of its properties (as `PROPERTY` where marked).

| Configuration | Setting | Violates | What happens |
|---|---|---|---|
| `CFPromise` without its `PROPERTY` | `FailAt <- OnlyWrite`, `MaxFails = 1` | `Durable`, `ReadsNewest` | a flush that cannot write its file drops the memtable it has taken, acknowledged writes included; they are missing from reads at once, and the next flush cuts them off the log (`column_family.rs:884`, `893`) |
| `CFPromise` without its `PROPERTY` | `FailAt <- OnlyCut`, `MaxFails = 1` | `Durable`, `ReadsNewest`, `ScanAgrees` | the cut of the log fails and its header stays: after a crash numbers of stored writes are given out again (`column_family.rs:893`) |
| `CFAnyCrash` | | `NeedsNothing` (`PROPERTY`) | with level 0 empty nothing merges levels 1 and 2, although `needs_compact` asks for it: `auto_compact` turns its eight rounds for nothing after every write (`engine.rs:1561`) |
| `RRNodes` | `Settings <- Repeating` | `SameState` | an operation repeated in a term is taken for a duplicate (`raft_rpc.rs:190`) |
| `RRNodes` | `Settings <- OnlyReliable` | `AppliedAgree` | a deposed leader that has not heard of it applies what it proposes |
| `RMGroup` | | `NeverByMinority` | a proposal is committed without acknowledgements, at a leader in a minority or at a node that does not lead (`raft_meta.rs:247`, `261`) |
| `LTClients` | `Habits <- SharedToo` | `VictimsReal` (`PROPERTY`) | a grant leaves the entry of an earlier refusal behind, and a later request runs into it (`txn.rs:233`) |
| `SGSaga` | | `NoneOverlooked` | a branch that succeeded behind a failed sibling of its layer is neither recorded nor undone (`saga.rs:279`) |
| `TXIsolation` | `Settings <- OnlyPatching` | `ConsistentView` | a snapshot is taken from the primary's numbers, which are behind those of acknowledged patches: a read lacks a patch that was there at the begin (`engine.rs:1075`, `1076`) |
| `TXIsolation` | `Settings <- OnlyMerging` | `ConsistentView` | a compaction keeps the newest version only, and a snapshot that is older finds nothing (`column_family.rs:1199`) |
| `TXIsolation` | `Settings <- OnlyPatching`, `MaxReads = 3` | `ReadsRepeat` | a document read, dropped from the transaction's cache and read again has lost the patch that another replaced since (`engine.rs:696`, `1117`) |
| `ENEngine` | `Modes <- OnlyPlain` | `DocumentsWhole` (`PROPERTY`) | a put syncs the tombstones of a document's patches while its own record is pending: a crash leaves the old document without its patches, which no prefix of the calls explains (`engine.rs:600`-`612`) |
| `ENEngine` | `Modes <- OnlyBitmap` | `DeletionsWhole` (`PROPERTY`) | `flush_wal` writes the bitmap ahead of the logs: a put after a deletion has cleared the bit on disk, and a crash brings the deleted document back (`engine.rs:824`-`831`) |
| `ENEngine` | `Modes <- OnlyPlain` | `BatchesWhole` (`PROPERTY`) | a put of a batch fills the memtable and is flushed to a segment while the rest is in a log not yet synced, or one of the two logs is synced before the other: a crash leaves part of the batch, where the comments say all or none (`column_family.rs:434`, `engine.rs:636`, `650`, `txn.rs:4`, `11`) |
| `ENEngine` | | `ReadsLastAlways` | a failed flush has dropped acknowledged versions, and reads go on without them (`column_family.rs:876`-`894`) |
| `ENEngine` | `Modes <- Worker` | `CompactsDeleted` | a compaction between the primary record of a put and the clearing of its bit drops the new version (`engine.rs:612`) |
| `ENEngine` | `Modes <- Worker` | `ReadsLast` | the same: the put returns and its document reads as deleted |
| `ENEngine` | `Modes <- Marked` | `RecoversWhole` (`PROPERTY`) | the group-commit thread writes both logs to disk and never the bitmap (`engine.rs:519`): when a flush then cuts the log, the deletion's only record is gone and a crash brings the document back |
| `INIndex` | `Modes <- Alone` | `CountsOnce` | a document written twice is counted twice when its posting is not in order (`inverted.rs:1162`) |
| `INIndex` | `Modes <- Alone` | `RecoveredFound` | terms in memory do not come back after a restart (`engine.rs:1456`) |
| `INIndex` | `Modes <- Alone` | `CacheConsistent` | a search that has read before another's batch is added caches after it has cleared the cache; the old posting stays and later searches take it (`inverted.rs:99`, `308`, `523`, `engine.rs:1505`) |
| `INIndex` | `Modes <- Collected` | `SnapshotsWhole` | a search whose list is older than a collection reads deleted files as empty (`inverted.rs:548`) |
| `RPLog` | `Settings <- Two` | `DropsNothing` | after a timeout the answer of an earlier call is taken for that of a later one, and the largest answer of all slaves cuts the log (`replication.rs:8`) |
| `RPLog` | `Settings <- Late` | `SyncWaits` | the same for one slave: a synchronous `record` returns before its entry is applied (`replication.rs:10`) |
| `RPLog` | `Settings <- Again` | `AllReach` (`PROPERTY`) | the connection to a slave that restarted is never made anew (`replication.rs:5`) |
| `RPLog` | `Settings <- Reborn` | `ResendHarmless` | requests of a dead master are applied after those of the new one (`replication.rs:104`) |
| `RPLog` | `Settings <- Plain` | `NumbersGrow` (`PROPERTY`) | numbers start again when the log is empty (`replication.rs:7`) |
| `GWMigrate` | `Settings <- Batched` | `ReadsNewest` | a batch is not written to the new node (`gateway.rs:122`) |
| `GWMigrate` | `Settings <- Hasty` | `ReadsNewest` | a commit does not ask whether the copy was made (`gateway.rs:269`) |
| `GWMigrate` | `Settings <- Masters` | `ReadsNewest` | a second migration reads nodes in order, and stale rows left on a former owner go over fresh ones |
| `GWMigrate` | `Settings <- Retaken` | `ReadsNewest` | a node keeps the rows of an aborted migration; registered later it may stand behind their owner, and the next migration copies its old rows last (`gateway.rs:245`) |
| `GWMigrate` | `Settings <- Two` | `ReadsNewest` | a second gateway knows nothing of the migration |
| `GWMigrate` | | `EveryWriteReads` | after a timeout a write is reported done by the answer of an earlier call, or a copy takes an earlier answer for a node's rows and the commit leaves them behind (`gateway.rs:414`-`421`, `463`-`473`, `rpc.rs:191`) |
| `GWMigrate` | | `EveryWriteFound` | after a timeout the documents of one term, or none, are cached for another (`gateway.rs:448`-`460`) |
| `WLRing` | `Settings <- Grouped` | `SyncedSurvive`, `InOrder` | a wrap inside a batch overwrites the batch's own records (`wal.rs:535`); a number is given twice by the second try of a full buffer (`column_family.rs:438`) |
| `WLRing` | `Settings <- Marked` | `NeverRefused` | deletions kept by the bitmap never raise `flushed_seq`, so the ring stays full |
| `WLRing` | `Settings <- Split` | `SyncedSurvive`, `InOrder` | header and records are one `fsync`, not one atomic write (`wal.rs:554`) |
| `WLRing` | `Settings <- Ragged` | `SyncedSurvive` | a log is appended to behind a torn record, where recovery stops (`wal.rs:85`) |

### Bounds

*Column family.* Four writes on two keys fill two levels and make a merge of a merge; the
thresholds 2 and 3 are below the code's 8 to 16 because the rules only compare
counts with them; seven file ids allow three flushes and three merges; one crash is
enough for every property about what a restart finds, since the state after a
restart is again a state without flush or merge under way. `CFAnyCrash` uses one
key, as the selection rules do not look at keys, with four writes and nine ids, so that
a merge of a merge happens with a resting segment in the way, and one flush fails at any of its
steps: every failure leaves the memtable lost and whatever stages were done, so a second adds
no other state to compare with what came before it. `CFResting` needs eight
writes, each of which fills the memtable (`CONSTRAINT Filled`), until a segment that rests is
newer than what is merged past it.

*Log.* Four cells and lengths up to three make every way a record can fail to fit: it
wraps alone, it leaves a gap at the end, it covers one or several old records, it finds the
buffer full. Five writes go round the ring more than once, two crashes let a
recovery work on what a recovery has left.

*Engine.* Two documents and four operations: a put, a patch, a deletion and a put of the
same document, or a batch across two. One fault, which may be a crash, an error or a flush that
fails, as what a crash leaves is compared with what was there before it, and the state after
it has calls of its own left.

*Index.* Three writes with a buffer of two (`Cap`) put documents in the buffer, the
dictionary and a segment at once; four segment numbers allow two flushes and a
collection of them with another flush or a failure beside it; two threads overtake each other.

*Replication.* Three writes make the numbers start again after a first cut and leave one
in the log; two documents tell an old write from a new one. Two faults: a timeout
and what may follow it. Two slaves are the least for which the acknowledgements differ.

*Gateway.* Two documents whose preferences differ, so that each of two new nodes takes one of
them first; two migrations, so that the second finds what the first left behind, or an aborted
one is begun anew, with three writes, one each before, during and after; and four with fewer
writes, so that a node can be left, joined by another, and taken after all. The term is in a
setting of its own with fewer writes, as it doubles every write. A call that times out takes one
fault and leaves its connection late for good, so the second fault can strike what reads it. A
lifetime of two ticks and a window of one have chunks of two ages.

*Saga.* Four branches make layers of one, two, one (the diamond) and of two and two, where
the second layer stands in the order of the first and not of the request (the crossed
pairs); in order they are four layers of one; a circle is refused. Three faults: a forward
call fails, its compensation fails, and the process dies.

*Locks.* No bound: the state space is finite. Three transactions make circles of two
and three, upgrades beside a reader, and a bystander that a stale entry can hit.

*Transactions.* Three sequence numbers (`MaxSeq`): a write before the begin, one beside the
transaction and the commit, or a write whose delta row takes a number of its own. Two remembered
reads of all transactions together (`MaxReads`): two for one, or one for each, which most
anomalies of two transactions need; where one takes a third (`ReadsRepeat`) the table says so. A
cache of one entry is emptied at the second read. The settings combine what interacts: the
mechanisms that decide between two transactions (locks, check, snapshot) with tombstones or the
bitmap, compaction beside snapshots, and patches and compaction with each.

*Raft.* Three nodes have majorities that meet in one node. Terms and, for reachability,
the number of changes are bounded (`MaxTerm`, `MaxFlips`), as are elections and
proposals in the settings of `RRNodes`: one setting for each combination that fits,
because long logs, many terms and lost sends do not all have to come together.

### Fairness

*`CFAnyCrash`.* A flush runs on in the thread that called it unless an error ends it, a
merge in the call or the worker that started it, and `auto_compact` starts a merge
as long as `needs_compact` asks for one and level 0, by which `compaction_urgency` goes,
is not empty: weak fairness of exactly these steps.
Writes, crashes and outright flushes are not assumed to happen.

*`RMGroup`.* Weak fairness of `Tick`: the owner of the group calls `tick` again and
again, and a follower's deadline passes because nothing renews it when there is no
leader. Nothing is assumed of proposals, elections by hand or reachability.

*`SGSaga`.* Weak fairness of the steps of a call, as a thread that holds the mutex runs
on; strong fairness of `retry_pending`, as the reconciler's thread wakes up every minute
and clients that take the mutex in between do not keep it for ever. Nothing is assumed
of clients, nor that a late call arrives. Faults are bounded, so `Settles` says that the
saga ends once they are over and as long as the server still has the definitions. It speaks of
sagas whose state says that they have run: one whose first answers were never recorded is
still `Init` or unknown, and the reconciler passes it over (`saga.rs:204`, `377`-`380`), whatever
its branches have done.

*`RPLog`.* Weak fairness of the background push in async mode, which is the mode the module
has one for (`replication.rs:9`), of a call and of the end of a call (an
answer is read, or the call gives up), and of the slaves, which serve what they have
been sent. In sync mode an entry whose push failed waits for the next `record`, which nobody owes,
so `Reaches` is about async mode. It leaves out restarts of slaves, as a broken connection stays
broken.

## Proofs

All theorems hold for any values of the constants under the assumptions the modules
state on them, which TLC evaluates on every run.

**`ColumnFamilyProofs`**: `TypeCorrect` (`Spec => []TypeOK`); `ManifestAlwaysClosed`
(`Spec => []ManifestClosed`, the worker included); `NothingForgotten` (with compaction
inside the write call, `Spec => NeverForgets`); and for `CalmSpec == Init /\ [][Next /\ Calm]_vars`
`AcknowledgedSurvive` (`CalmSpec => []Durable`), `ReadsAreNewest` (`CalmSpec => []ReadsNewest`),
`ScansAgreeWithReads` (`CalmSpec => []ScanAgrees`) and `ImplementsDurableStore`
(`CalmSpec => KeepsPromise`, the refinement).

*Argument.* `ManifestClosed` and `TypeOK` are not inductive. `Inv` adds: numbers in the log and
the memtables are below the next one (`LogBounded`); the ids of the published list are distinct,
exist as files and are those of the manifest, in its order of levels (`SegmentsKnown`); a file
being written by a flush or a merge is in no list (`PendingFresh`), so publishing it cannot hide
a listed file and removing the inputs of a merge cannot remove it. `NothingForgotten` needs in
addition that what the log holds is in the memtable or the segment that a truncation relies on
(`LogCovered`) and that a merge's output supersedes every version of the segments at the chosen
positions (`MergeCovers`); that is where `Serialized` is used, as with the worker the positions
may have shifted. What a failed flush has dropped is in the log alone (`dropped`) and may go
with it.

`Calm` is a condition on steps and assumes nothing of the settings: heat, size cap, cooling and
the worker are as they may be. It says of a step that no flush runs beside a compaction, that no
flush fails or is empty, that no crash falls between the manifest and the end of the cut, and
that a selection can be replaced in place by its output (`Clean`: a segment it leaves out is
read before all it takes if its level is above the output's, and after all of it otherwise). So
the theorems say which selections are harmless, hot, capped and resting ones included, and not
which settings are. Each part is a row of the tables above: without it TLC finds a stale read or
a lost write. In the settings of `CFPromise` every step is `Calm`, as TLC confirms for
`[][Calm]_vars`, so there the theorems are about `Spec` itself. Puts may be synced or not, and
keys, thresholds, bounds and the number of crashes are arbitrary. The invariant `Ordered`
relates where a version is to when it was written: of two segments the one read first has only
newer versions of a common key (`ByAge`), and ranks go by file ids, so that a restart finds the
same order (`Aged`); what the log holds is in the memtable or in the segment being written, and
the header's `next_seq` parts it from what is stored (`LogHeld`, `HeadSplits`, `LogNewer`);
numbers and writes grow together (`Numbered`); a merge under way is still one that its output
can stand in for (`Merging`). Then the first hit of a point read, the highest number of a scan
and `latest` are the same version (`ReadIsNewest`, `ScanIsNewest`), and what a restart would
serve is the newest version of the log's file and the segments (`RecoveredIs`). The refinement
maps `store` to what a point read returns, which the invariant makes `latest`.

**`TransactionsProofs`**: `TypeCorrect`; `LocksEndWithTransactions` (`Spec =>
[]OnlyReadersHoldLocks`); `NoLostUpdate` (`Spec => []FirstCommitterWins`); `SnapshotsHold`
(`Spec => []SnapshotReads`, with compaction and bitmap too); `PatchesFit` (`Spec =>
[]PatchOverBase`); `AloneNeverRefused` (`Spec => []NeverRefusedAlone`), for any documents,
transactions, bounds and settings.

*Argument.* Locks (`LockInv`): `OnlyReadersHoldLocks` is inductive with the types and with
`ReadsOfTheLiving`, that nothing is remembered of a transaction which was dropped or has not
begun. It implies that an exclusive lock is never left behind, which the lemmas on the table
ask for. Lost updates (`CommitInv`): the check of a commit compares the snapshot with
`last_write_seq`, so the store has to know every write that counts. `StoreKnows` says so: a
number is given to a document once (`LogOnce`), every version is one of the writes
(`VersionsLogged`), the newest write of a document is still a version, however often
compaction ran, or a mark in the bitmap (`NewestKept`), and there are no marks without a
bitmap (`BitmapOnly`). Then `last_write_seq` is at least the number of the newest write,
unless that is a deletion by tombstone, which `TXLostDelete` shows to go unnoticed. What a
later write replaces never changes, because a number is above all the earlier ones, and
neither do the transactions that have committed (`CommittedKept`).

Reads (`ReadInv`): nothing is written between the number a snapshot is taken at and the last one
given (`SnapshotsTaken`), so the newest version up to the snapshot is the newest of the begin
(`AsOf`). It can be found until a compaction or the bitmap takes it, which `SnapshotReads`
allows only for a document that was written since (`Replaced`): a compaction keeps the newest of
each document, and a deletion by tombstone is a version of its own (`NewestKept`,
`TombstonesKept`). The patch is given exactly if it is still the document's last and the
snapshot covers its number (`Settled`, `FieldsGiven`), and it is laid over the version it was
made for: the delta row is the newest write of its document or a later version hides it
(`PatchesNewest`). Who was alone is not refused, because the primary's numbers do not fall
behind (`PrimaryLast`), so nobody else's write is above its snapshot (`AloneIs`).

About the clients of the same table (`LockClients`): `ClientsTypeCorrect`; `TableSound` (an
exclusive lock has one holder and both sides of the table agree); `NobodyEverStuck`
(`ClientsSpec => []NobodyStuck`: no circle of clients that still want what they were refused).

*Argument.* `TableSound` is inductive with the types: an upgrade is granted to the only
holder, and a release goes by `held`, which matches (`GrantSound`, `RefuseSound`,
`ReleaseSound`, which `Transactions` uses as well). For `NobodyEverStuck` the invariant adds
that what a client still asks for is what `waiting` records, so that the detector's graph
contains the clients' graph. A grant or a release only removes edges, except for edges to a
transaction that is granted a lock, and that one wants nothing, so it is a sink and on no
circle. A refusal adds the edges of one transaction; a circle they close goes through it, and
then `Deadlocks` had made it a victim. Circles are handled through closed sets, so no
induction over paths is needed.

**`ClusterProofs`**, about `RaftMeta`: `TypeCorrect`; `NeverTwoLeaders` (`Spec => []SingleLeader`);
`CommitsReachMajority` (`Spec => []CommittedByMajority`).

*Argument.* `SingleLeader` is not inductive: it needs to be known who stands behind a leader.
The invariant `Backed` says that a majority voted for it in its term; two majorities meet in a
node, which votes once a term. For `CommittedByMajority` the invariant adds that, as long as a
majority was always reachable and only leaders have proposed, what a node holds is held by a
majority: a proposal reaches every reachable node in the same call, and nodes that miss one take
nothing after it.

About `Gateway`: `GatewayTypeCorrect`; `SearchesFind` (`GatewaySpec => []SearchFinds`);
`AbortedMigrationsHarmNothing` (`ReadsNewest` as long as no migration has been committed, without
any assumption); and `ReadsFindNewest` (`GatewaySpec => []ReadsNewest` for `Careful` callers), for
any nodes, documents, terms, ring and bounds.

*Argument.* For `AbortedMigrationsHarmNothing` no caller has to be careful and there may be
several gateways: until a node is registered the owners stay who they are, so whatever a
migration copies or leaves behind, a write reported done is on its owner (`HomeInv`), unless the
report was the answer to another call (`astray`). The hypotheses of the other two are about
callers, and the code checks none of them. `Alone` says that there is one gateway. `Careful`
adds that it commits only complete copies, writes no batches during a migration, and adds slaves
that hold nothing of what they do not get: `Two`, `Hasty`, `Batched`, `Masters` and `Retaken` in
the table above are the five ways to be less careful, and TLC finds a stale read with each. The
last of them was found by the proof: what the invariant says of rows behind the owner is not
kept by a node that comes with rows. A search needs `Alone` only. Its invariant (`Indexed`) says
of every document and term indexed that a registered node holds the posting and that each chunk
of this node without it that is the answer to its own call is as old as the indexing; postings
and nodes are only added, so this changes with time alone, when chunks and indexing age
together, and a chunk that has reached `Ttl` is gone; a chunk that was the answer to another
call is what `SearchFinds` leaves out. For reads (`ReadInv`) the owner has the newest row and no
node behind it in the order of the broadcast has any row of the document (`Owned`); a node on
its way in is not registered, holds nothing of what it does not get, and after a complete copy
the newest row of what it gets (`Moving`). So the last row a copy takes is the owner's
(`OwnerIsLatest`), and since a node that joins takes a document over or leaves it where it is
(`OwnerMoves`), comes last, and has nothing of what stays, the commit keeps both. What a failing
call leaves done is in three lemmas (`PutIs`, `BatchIs`, `CatchUpIs`): some of the calls, and a
report of success or a copy counted as complete only if all, or if the answer to another call
was read, which `astray` records. `ReadsFindNewest` is a contract for callers; as the code does
not enforce it, it is not among the listed theorems.

**`RaftRpcProofs`**: `TypeCorrect`; `LeaderOfATermIsOne` (`Spec => []OneLeaderATerm`), for any
nodes, with messages in any order of handling; `LogsOfATermAgree` (`Spec => []TermsAgree`) and
`QuietFollowersAgree` (`Spec => []FollowersAgree`).

*Argument.* A vote is in one place only: in the answer on its way or in the count of the
candidate. The invariant speaks of two sets of ballots that exist, those given and those
counted: a node gives one a term (`GivenOnce`, `GivenInTerm`), an answer on its way was given
and is not counted yet (`AnsweredGiven`), and the counter is at most the number of the voters
counted (`Tally`). So a leader has a majority of given ballots (`Won`), and two majorities
meet in a node that gave one.

For the order of entries the invariant is `OrderInv`, which holds while no send is refused and
nothing is repeated. An entry in a log, an inbox or on its way out is in the log of the one
leader of its term (`Logged`, `Queued`, `Proposing`), and what is on its way from a leader to a
node - in the node's log, then its inbox, then still to be sent - stands in the order of the
leader's log (`InOrder`). It is all there for every node that has not gone on to a later term
(`Delivered`), and a log has no entry without those before it (`NoGap`): a node that has gone
on refuses the rest of the old term and so keeps a beginning. Two beginnings of one log are
comparable, and with empty inboxes a node in the leader's term has everything.

**`InvertedProofs`**: `FlushesAreKept` (`Spec => []Kept`), `SearchesFindAll`
(`Spec => []FindsAll`), `CacheIsFresh` (`Spec => []CacheFresh`), for any documents, threads,
bounds and modes.

*Argument.* A published segment has a file and a map of its own number, which no later one gets
(`Numbers`); a change of the list is in one of few stages, in each of which the documents it
moves are still in memory, or in a file that is listed or about to be (`Stages`, `Safe`,
`Buffers`). So what the index must know is at any moment in the dictionary or in a listed
segment (`Knows`), and a search, which takes the dictionary and the list under one lock, has
found all of it, has it left in files it can still read, or has noted it as `missed`: the
batches that were taken and not added yet, and what was in files a collection has deleted
(`Wide`, `Reading`). A search that fills the cache leaves what it missed in `missing`, and
whatever adds to the dictionary or replaces segments drops the cached posting, so at any moment
it is what the index has but for `missing` (`Fresh`), however many searches overtake each other.
What a later search takes from the cache it misses with it; nothing is left out because it is in
doubt. That a posting with something missing stays until the next change is the row
`CacheConsistent` above.

**`EngineProofs`**: `TypeCorrect`; `LastIsRead` (where the bitmap is not used beside the
worker, `Spec => []ReadsLast`); `PrimaryKeepsOrder` (`Spec => PrimaryInOrder`, in every
setting until a flush has failed); `BasesComeBack` (with tombstones, in every setting: after a
crash the document a read finds has a base that is one of those it may have); and
`ComesBackWhole` (where the bitmap is used neither beside the worker nor beside group commit,
`Spec => RecoversWhole`), for any documents, batches, bounds and crashes.

*Argument.* The two hypotheses, `Apart` and `Alone`, say which of the settings are combined;
with the combinations they leave out TLC finds the counterexamples in the rows of `ENEngine`
above, so neither can be weakened for this code. For reads (`ReadInv`) the cache holds of a
document what the families would give and nothing of a deleted one (`Cached`, `Clear`), which is
true in the middle of a call too, because a put and a deletion drop the cached copy with the
first record and a put fills the cache only with its last step; and the families hold what the
calls have written except for the document of a half-done call (`Shown`, `HalfDone`) and those a
failed flush has dropped (`lost`). For crashes, what a restart may find of a family is the set
of its contents after each number of records from the synced ones to all (`Comebacks`). The
lemmas about stores say how a write, a sync, a flush, a deletion in the bitmap and a restart
change that set. Then `PrimaryInOrder` follows from the set being within `past` (`InOrder`), for
which a flush needs memory to hold what the log holds (`LogsInMemory`). `BasesComeBack` asks
nothing of the order in which the two logs reach the disk: every comeback of the primary gives a
document a base that `may` has (`Based`), and while a deletion has written its tombstone and no
more, every comeback is without the document (`HalfDeleted`). So what the tables show of a delta
or a batch ahead of the primary costs patches and not documents. `RecoversWhole` needs to know
of every document and each of the three places that a crash changes nothing where nothing was
touched (`BitsTouched`, `PrimaryTouched`, `DeltaTouched`), in which order `flush_wal` has
reached the disk (`Flushing`), and that with one place touched every combination of what may
come back is in `may`, from the log as it is and from the segment a flush would make of it
(`Whole`). What the replay of a log leaves is the version of a document's last record
(`Newest`), so that no induction over the log is needed.

**`ReplicationProofs`**: `TypeCorrect`; `DropsOnlyApplied` (`Spec => []NothingDropped`);
`CatchesUp` (`Spec => []CaughtUp`), for any slaves, documents, bounds and settings.

*Argument.* The master cuts its log at a number it reads from a connection, and numbers are
given again once the log is empty, so the question is whether such a number may belong to an
earlier log. The invariant `SafeInv` says that it does no harm if it does. The log ascends
without gaps (`Numbers`) and stays as it is during a push (`Pushes`). A request that could still
cut the log, because its last number is above `pushed`, ends with the beginning of the log
(`Fits`): a request from before a cut has only numbers up to `pushed`, and one that shares its
tail with the log keeps sharing it while the log grows. So an answer above `pushed` is for
entries that the slave has applied (`Served`), whichever call it is read by. With several slaves
one number cuts for all of them; `Calm` says that without timeouts a connection carries nothing
but the call under way, so the acknowledged number is that of the whole log, for every slave
already called. What was recorded is applied or in the log, and in its file too, as a restart of
the master reads the file and a failed write leaves an older one (`Kept`).

For `CatchesUp` the invariant adds which writes the slaves hold. A slave is `Current` in a
document if it holds its last write and every request on its way ends up with that write again;
it is current in every document that is not in the log (`Lasts`), and an answer that would cut
entries is from a slave that is current in the documents whose last write they are (`Holds`,
`Stands`). An entry is the last of its document in a request exactly if none behind it has the
same document, which is why an older request must not follow a newer one (`Queued`). Both
exceptions, restarts of the master and timeouts together with errors, are needed: a batch that
ends in the middle, or the request of a dead master, is what leaves an older write over a newer
one (rows of `MCReplication` above).

**`TransactionsProofs`, of `Saga`**: `SagaTypeCorrect`; `EndsAsAWhole` (`SagaSpec =>
[]AllOrNothing`); `UndoneBackwards` (`SagaSpec => []DependentsFirst`); `NeverForwardAgain`
(`SagaSpec => NoForwardAfterUndo`), for any branches, dependencies and number of faults.

*Argument.* `Reached` is a recursive function of the number of layers; that it has a value
for every number is shown by the least one for which it had none (`ReachedIs`). Then a branch
lies in a later layer than those it depends on unless there is a circle (`LayerIs`), so the
layer called next has all its dependencies recorded. The invariant says in four parts what
this comes to. `Phases`: which status a saga has in which stage of a call. `Plans`: each
branch is recorded once and behind those it depends on, and so will be those whose answers
are there. `Backwards`: nothing is undone before the saga is compensated, and what is undone
is the end of what was recorded, over every interruption and whatever definitions a call
brings. `Effects`: a branch that is done is recorded and not undone, about to be recorded, or
in `doubt` or `overlooked`. With `Plans` and `Backwards` together, a branch is undone only
when all recorded ones that follow it are.

**`WalProofs`**: `TypeCorrect`; `SyncedIsFound` (`Spec => []SyncedSurvive`); `ReplaysInOrder`
(`Spec => []InOrder`); `LogNeverRefuses` (`Spec => []NeverRefused`), for any size of the ring,
lengths of records, calls and restarts, in both modes, under `Careful`.

*Argument.* The hypothesis `Careful`, which the code does not ensure, is what the settings of
`WLRing` are: a ring without several records in a sync, without deletions only the bitmap keeps,
and with an `fsync` that is all or nothing, and a growing log of which a crash leaves whole
records. `SyncedIsFound` is not among the listed theorems for that reason. Each part is needed:
the rows of `WLRing` above are the counterexamples without it. A call is a composition of the
operators `Appended`, `sync`, `switch_and_flush`, so the invariant is a predicate of the record
they map (`Good`), and there is one lemma for each of them. No counter is ahead of the engine's
(`Counted`), which is what makes a number unique over restarts. Of the growing log (`LogGood`):
file and buffer ascend together, and what is in them is in the memtable or in a segment, as a
flush drops both. Of the ring (`RingGood`): the records found from the start follow each other
without a gap up to the tail and ascend (`Chained`), each of them is in the memtable or a
segment, and as long as something written is not reported as flushed the memtable has the last
record written. That last part is why a flush always makes room: it reports a number as high as
any that was written, so the wrap that follows is allowed; and a wrap that is allowed finds
everything behind it in segments. The end of a chain in the ring is a least fixed point
(`Followed`), of which the proof only needs that it contains its start and its successors. A
restart reads such a file back into such a state (`Legible`, `ReopenGood`), also from the prefix
of a write or between a segment and the cut.

Only model-checked: `Converges`, `FailsOver`, `Settles` and `Reaches` (liveness is out of
the prover's reach), and `InsistingVictimsReal`.

## Not modelled

* *Outbox.* A queue in a column family of its own; nothing in the repository consumes its
  messages, so nothing says which order or number of deliveries is right.
* *Scale-out coordinator.* A phase in a file; only tests call it, and what its caller
  does between the phases is not in the code. The migration it names is in `Gateway`.
* *External cache.* The delayed second deletion rests on times alone, and the two servers
  behind it are stand-ins; nothing but its lifetime is promised.
* *Document id allocation.* Sequential arithmetic on one counter for each shard.
* *Seqlock, materialized views, term dictionary service.* No component uses them, so the
  order of calls they must stand is not in the code.
* *Watchdogs.* Thresholds on what the operating system reports; the engine refuses a write
  before it has changed anything.
* *I/O scheduling.* Token bucket, `io_uring` and binding to cores: timing, no state of a protocol.
* *Queries, tools, configuration, platform crates.* Parsing, planning and encoding of one
  request; batch programs around the engine; wrappers of operating-system calls.
* *Parts of modelled components.* The format of segments and the search inside a block; TTL
  buckets; backups; secondary indexes, tiers and aggregation of the engine; the layout of
  the bitmap's pages; promotion and admission in the hot cache; encoding and paging of
  postings; `scan_range_txn`, which takes no locks and reads neither bitmap nor patches.

The lines the map names are about a seventh of the implementation. A large part of the rest
is sequential (the list above), and the source files hold their unit tests, which count as
lines of theirs.

## Plan

Done: the modules above and their proofs. Left, in this order: that group commit is safe in the
growing log with respect to time (what is lost is younger than the window), which needs a clock
in `Wal`; `scan_range_txn` in `Transactions`; the time-to-live buckets in `ColumnFamily`.
