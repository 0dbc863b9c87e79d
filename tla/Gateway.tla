----------------------------- MODULE Gateway ------------------------------
(***************************************************************************)
(* The gateway (gateway.rs) in front of the shards: it routes by the       *)
(* topology (meta.rs, sharding.rs), searches every node through the term   *)
(* cache (term_cache.rs), and adds a node in three steps: double writes,   *)
(* copying what the old nodes hold, switching the route (reshard.rs).      *)
(*                                                                         *)
(* A document stands for its virtual shard.  The hash ring is, for each of *)
(* them, the order in which it prefers the nodes.  A call of a gateway is  *)
(* one step here: a gateway serves one call at a time, and its calls to    *)
(* nodes happen in order until one fails.  A connection that breaks stays  *)
(* broken until the gateway is built anew, and one on which a call timed   *)
(* out stays in use (RpcClient::call): from then on each call reads the    *)
(* answer to an earlier one.  A node has done a call's work, if at all, by *)
(* the next call it gets: it takes those of a connection in their order.   *)
(* A row is the number of the write it comes from.                         *)
(***************************************************************************)
EXTENDS Naturals, Sequences, FiniteSets, FiniteSetsExt

CONSTANTS
    DataNode,
    Doc,          \* documents, numbers
    Term,
    Ring,         \* Ring[d]: the nodes as d prefers them
    GW,           \* gateways
    Settings,     \* the nodes at first, the roles of new ones, what callers do,
                  \* the terms in use, and bounds: writes, calls to
                  \* nodes that fail and restarts, migrations begun
    Ttl,          \* ticks a cached chunk lives
    Window,       \* WRITE_WINDOW in ticks
    Threshold,    \* invalid_threshold
    CacheSize,    \* max_entries
    MaxWrites     \* bound: writes

NodeRole == {"master", "slave"}
NodeInfo == [id : DataNode, role : NodeRole]

ASSUME RingAssumption ==
    /\ Ring \in [Doc -> Seq(DataNode)]
    /\ \A d \in Doc, n \in DataNode : \E i \in DOMAIN Ring[d] : Ring[d][i] = n
ASSUME SettingsAssumption ==
    \A s \in Settings :
        /\ s \in [nodes : Seq(NodeInfo), gateways : SUBSET GW, roles : SUBSET NodeRole,
                  batches : BOOLEAN, hasty : BOOLEAN, leftovers : BOOLEAN,
                  terms : SUBSET Term, writes : 0..MaxWrites, faults : Nat, moves : Nat]
        /\ s.nodes # <<>>
        /\ \A i, j \in DOMAIN s.nodes : s.nodes[i].id = s.nodes[j].id => i = j
ASSUME BoundsAssumption ==
    /\ Ttl \in Nat \ {0} /\ CacheSize \in Nat \ {0}
    /\ Window \in Nat /\ Threshold \in Nat /\ MaxWrites \in Nat
ASSUME DocAssumption == Doc \subseteq Nat

VARIABLES
    setting,
    meta,       \* meta[g]: the nodes as they were registered
    migration,  \* migration[g]: the migration under way, or NoMigration
    link,       \* link[g][n]: the connection of g to n
    cache,      \* cache[g]: the chunks g keeps
    counts,     \* counts[g][t]: writes of t in its window, and the window's age
    docs,       \* docs[n][d]: the row of d on n, 0 if none
    posts,      \* posts[n][t]: the documents n's index holds for t
    \* history
    terms,      \* terms[w]: the terms of write w
    acked,      \* acked[d]: the newest write of d that was reported done
    indexed,    \* indexed[d][t]: ticks since d was first written with t, at most Ttl
    astray,     \* the documents for which a call was reported done by the answer
                \* to another, and was not
    writes, faults, moves

gatewayVars == <<meta, migration, link, cache, counts>>
nodeVars == <<docs, posts>>
histVars == <<terms, acked, indexed, astray, writes>>
allVars == <<setting, gatewayVars, nodeVars, histVars, faults, moves>>

Write == 1..MaxWrites
Migration == [node : DataNode, role : NodeRole, moved : SUBSET Doc, copied : BOOLEAN]
NoMigration == [node |-> "none"]
Never == Ttl + 1
\* `own`: whether the node gave these documents for this term (not the code's).
Chunk == [node : DataNode, term : Term, docs : SUBSET Doc, age : 0..Ttl - 1, own : BOOLEAN]
\* "late": the next answer on it belongs to an earlier call.
Connection == {"up", "late", "down"}

Ids(nodes) == {nodes[i].id : i \in DOMAIN nodes}

\* The order of broadcast_targets (register sorts by it): masters first,
\* otherwise as they came.
Precedes(nodes, i, j) ==
    IF nodes[i].role = nodes[j].role THEN i < j ELSE nodes[i].role = "master"

\* route: the first node of the ring that is registered.
Owner(ids, d) == Ring[d][Min({i \in DOMAIN Ring[d] : Ring[d][i] \in ids})]
resolve(g, d) == Owner(Ids(meta[g]), d)

GatewayInit ==
    /\ setting \in Settings
    /\ meta = [g \in GW |-> setting.nodes]
    /\ migration = [g \in GW |-> NoMigration]
    /\ link = [g \in GW |-> [n \in DataNode |-> "up"]]
    /\ cache = [g \in GW |-> {}]
    /\ counts = [g \in GW |-> [t \in Term |-> [n |-> 0, age |-> 0]]]
    /\ docs = [n \in DataNode |-> [d \in Doc |-> 0]]
    /\ posts = [n \in DataNode |-> [t \in Term |-> {}]]
    /\ terms = [w \in Write |-> {}]
    /\ acked = [d \in Doc |-> 0]
    /\ indexed = [d \in Doc |-> [t \in Term |-> Never]]
    /\ astray = {}
    /\ writes = 0 /\ faults = 0 /\ moves = 0

Happens == faults < setting.faults /\ faults' = faults + 1

---------------------------------------------------------------------------
(* Calls to nodes *)

\* A call to n is reported as failed: its connection is down, breaks, or n does
\* not answer in time, or with an error; whether or not n has done its work.
Fails(g, n, undone, done) ==
    \/ link[g][n] = "down" /\ undone /\ UNCHANGED <<link, faults>>
    \/ /\ link[g][n] # "down" /\ Happens
       /\ undone \/ done
       /\ \E l \in {link[g][n], "late", "down"} : link' = [link EXCEPT ![g][n] = l]

\* The calls up to this one are answered and their work is done.
Served(g, S) == \A n \in S : link[g][n] # "down"

\* A call to n fails, and g reads the answer to an earlier one.
Unread(g, n) == link[g][n] = "late" /\ Happens /\ UNCHANGED link

\* A call that reads changes nothing; it fails.
ReadFails(g, n) == Fails(g, n, UNCHANGED nodeVars, UNCHANGED nodeVars)

\* The nodes store write w of the documents they are given.  They index what
\* they store: a term is added, never taken away.
Store(given, w, ts) ==
    LET gets(n, d) == n \in DOMAIN given /\ d \in given[n]
    IN  /\ docs' = [n \in DataNode |-> [d \in Doc |-> IF gets(n, d) THEN w ELSE docs[n][d]]]
        /\ posts' = [n \in DataNode |-> [t \in Term |->
                posts[n][t] \cup {d \in Doc : gets(n, d) /\ t \in ts}]]

---------------------------------------------------------------------------
(* Reading and writing *)

\* Mutant of Migrating: double writes end with the copy.
MigratingUntilCopied(g, d) ==
    migration[g] # NoMigration /\ ~migration[g].copied /\ d \in migration[g].moved

Migrating(g, d) == migration[g] # NoMigration /\ d \in migration[g].moved

\* record_write: more than Threshold writes in one window drop the chunks of
\* the term.
record_write(g, ts) ==
    LET over == {t \in ts : counts[g][t].n + 1 > Threshold}
        counted(t) == IF t \in over THEN [n |-> 0, age |-> 0]
                      ELSE IF t \notin ts THEN counts[g][t]
                      ELSE [counts[g][t] EXCEPT !.n = @ + 1]
    IN  /\ counts' = [counts EXCEPT ![g] = [t \in Term |-> counted(t)]]
        /\ cache' = [cache EXCEPT ![g] = {c \in @ : c.term \notin over}]

Acknowledged(D, w, ts) ==
    /\ acked' = [d \in Doc |-> IF d \in D THEN w ELSE acked[d]]
    /\ indexed' = [d \in Doc |-> [t \in Term |->
            IF t \in ts /\ d \in D /\ indexed[d][t] = Never THEN 0 ELSE indexed[d][t]]]

\* put: the owner, then the new node while the document migrates, then the
\* counts of its terms.
put(g, d, ts) ==
    /\ writes < setting.writes /\ writes' = writes + 1
    /\ terms' = [terms EXCEPT ![writes'] = ts]
    /\ LET owner == resolve(g, d)
           shadow == IF Migrating(g, d) THEN {migration[g].node} ELSE {}
           Puts(S) == Store([n \in S |-> {d}], writes', ts)
       IN  \/ /\ Served(g, {owner} \cup shadow)
              /\ Puts({owner} \cup shadow) /\ UNCHANGED <<link, faults, astray>>
              /\ record_write(g, ts) /\ Acknowledged({d}, writes', ts)
           \/ /\ Served(g, {owner} \cup shadow)
              /\ \E n \in {owner} \cup shadow :
                    Unread(g, n) /\ Puts(({owner} \cup shadow) \ {n})
              /\ record_write(g, ts) /\ Acknowledged({d}, writes', ts)
              /\ astray' = astray \cup {d}
           \/ /\ \/ Fails(g, owner, Puts({}), Puts({owner}))
                 \/ /\ Served(g, {owner})
                    /\ \E n \in shadow : Fails(g, n, Puts({owner}), Puts({owner, n}))
              /\ UNCHANGED <<cache, counts, acked, indexed, astray>>
    /\ UNCHANGED <<setting, meta, migration, moves>>

\* put_batch: one call per owner, in the order of a hash map; no double
\* write, no counts.  A node takes a batch as a whole (Engine::put_batch).
put_batch(g, ts) ==
    /\ setting.batches \/ migration[g] = NoMigration
    /\ writes < setting.writes /\ writes' = writes + 1
    /\ terms' = [terms EXCEPT ![writes'] = ts]
    /\ LET owners == {resolve(g, d) : d \in Doc}
           Puts(S) == Store([n \in S |-> {d \in Doc : resolve(g, d) = n}], writes', ts)
       IN  \/ /\ Served(g, owners)
              /\ Puts(owners) /\ UNCHANGED <<link, faults, astray>>
              /\ Acknowledged(Doc, writes', ts)
           \/ /\ Served(g, owners)
              /\ \E n \in owners :
                    /\ Unread(g, n) /\ Puts(owners \ {n})
                    /\ astray' = astray \cup {d \in Doc : resolve(g, d) = n}
              /\ Acknowledged(Doc, writes', ts)
           \/ /\ \E n \in owners : \E before \in SUBSET (owners \ {n}) :
                    Served(g, before) /\ Fails(g, n, Puts(before), Puts(before \cup {n}))
              /\ UNCHANGED <<acked, indexed, astray>>
    /\ UNCHANGED <<setting, meta, migration, cache, counts, moves>>

Cached(g, n, t) == {c \in cache[g] : c.node = n /\ c.term = t}

\* What g may read as n's documents for t: on a late connection those n had for
\* some term when it was asked, or none, the answer to a call of another kind.
Answers(g, n, t) ==
    IF link[g][n] = "late" THEN SUBSET UNION {posts[n][u] : u \in Term} ELSE {posts[n][t]}

\* The answers of the nodes at the places in `got` are cached.  The cache
\* drops the entry longest unused, here any.
Caches(g, t, got) ==
    \E answer \in [got -> SUBSET Doc] :
        LET id(i) == meta[g][i].id
            full == cache[g] \cup {[node |-> id(i), term |-> t, age |-> 0, docs |-> answer[i],
                                    own |-> link[g][id(i)] # "late"] : i \in got}
        IN  /\ \A i \in got : answer[i] \in Answers(g, id(i), t)
            /\ \E left \in SUBSET full :
                  /\ Cardinality(left) = Min({CacheSize, Cardinality(full)})
                  /\ cache' = [cache EXCEPT ![g] = left]

\* broadcast_search: every node's chunk, cached or asked for and cached; a
\* node that fails ends it, with the chunks so far in the cache.
broadcast_search(g, t) ==
    /\ LET nodes == meta[g]
           asked == {i \in DOMAIN nodes : Cached(g, nodes[i].id, t) = {}}
           before(i) == {j \in asked : Precedes(nodes, j, i)}
           all(I) == {nodes[i].id : i \in I}
       IN  /\ asked # {}
           /\ \/ /\ Served(g, all(asked)) /\ UNCHANGED <<link, faults, nodeVars>>
                 /\ Caches(g, t, asked)
              \/ \E i \in asked :
                    /\ Served(g, all(before(i))) /\ ReadFails(g, nodes[i].id)
                    /\ Caches(g, t, before(i))
    /\ UNCHANGED <<setting, meta, migration, counts, histVars, moves>>

\* get: one call to the owner; a failure can cost the connection.
get(g, d) ==
    /\ ReadFails(g, resolve(g, d))
    /\ UNCHANGED <<setting, meta, migration, cache, counts, histVars, moves>>

AfterTick(count) ==
    IF count.n = 0 \/ count.age = Window THEN [n |-> 0, age |-> 0] ELSE [count EXCEPT !.age = @ + 1]

\* Mutant of TimePasses: a chunk lives one tick longer.
TimePassesLate ==
    /\ cache' = [g \in GW |-> {[c EXCEPT !.age = @ + 1] : c \in {x \in cache[g] : x.age < Ttl}}]
    /\ counts' = [g \in GW |-> [t \in Term |-> AfterTick(counts[g][t])]]
    /\ indexed' = [d \in Doc |-> [t \in Term |->
            IF indexed[d][t] < Ttl THEN indexed[d][t] + 1 ELSE indexed[d][t]]]
    /\ UNCHANGED <<setting, meta, migration, link, nodeVars, terms, acked, astray, writes, faults, moves>>

\* Time passes; a chunk that has lived for Ttl is as good as gone,
\* and so is a window that has ended.
TimePasses ==
    /\ cache' = [g \in GW |-> {[c EXCEPT !.age = @ + 1] : c \in {x \in cache[g] : x.age + 1 < Ttl}}]
    /\ counts' = [g \in GW |-> [t \in Term |-> AfterTick(counts[g][t])]]
    /\ indexed' = [d \in Doc |-> [t \in Term |->
            IF indexed[d][t] < Ttl THEN indexed[d][t] + 1 ELSE indexed[d][t]]]
    /\ UNCHANGED <<setting, meta, migration, link, nodeVars, terms, acked, astray, writes, faults, moves>>

---------------------------------------------------------------------------
(* Adding a node *)

\* compute_moved_vshards.
compute_moved_vshards(ids, n) == {d \in Doc : Owner(ids, d) # Owner(ids \cup {n}, d)}

\* begin_migration: connects to the new node, which is not registered yet.
\* It asks nobody what the node holds; callers do, without "leftovers".
begin_migration(g, n, role) ==
    /\ moves < setting.moves /\ moves' = moves + 1
    /\ role \in setting.roles
    /\ migration[g] = NoMigration /\ n \notin Ids(meta[g])
    /\ LET moved == compute_moved_vshards(Ids(meta[g]), n)
       IN  /\ setting.leftovers \/ \A d \in Doc \ moved : docs[n][d] = 0
           /\ migration' = [migration EXCEPT ![g] =
                  [node |-> n, role |-> role, moved |-> moved, copied |-> FALSE]]
    /\ UNCHANGED <<setting, meta, link, cache, counts, nodeVars, histVars, faults>>

\* The rows to copy: the place of the node that holds one, and the document.
Copies(g) ==
    {c \in (DOMAIN meta[g]) \X migration[g].moved :
        meta[g][c[1]].id # migration[g].node /\ docs[meta[g][c[1]].id][c[2]] # 0}

\* The node whose row is copied last.
Latest(g, places) == CHOOSE i \in places : \A j \in places : ~Precedes(meta[g], i, j)

\* The copies in C are made, in their order; terms are derived anew.
Copied(g, C) ==
    LET row(i, d) == docs[meta[g][i].id][d]
        places(d) == {i \in DOMAIN meta[g] : <<i, d>> \in C}
    IN  /\ docs' = [docs EXCEPT ![migration[g].node] = [d \in Doc |->
                IF places(d) = {} THEN @[d] ELSE row(Latest(g, places(d)), d)]]
        /\ posts' = [posts EXCEPT ![migration[g].node] = [t \in Term |->
                @[t] \cup {d \in Doc : \E i \in places(d) : t \in terms[row(i, d)]}]]

\* catch_up: node after node in their order, each read as a whole, then its
\* rows in the order of the documents.  A failed call ends it.  A node that
\* answers late shows none of its rows, or only those it had once (`unseen`;
\* a row replaced since then counts among them).
catch_up(g) ==
    /\ migration[g] # NoMigration
    /\ \E unseen \in SUBSET {c \in Copies(g) : link[g][meta[g][c[1]].id] = "late"} :
       LET nodes == meta[g]
           new == migration[g].node
           rows == Copies(g) \ unseen
           sources == {i \in DOMAIN nodes : nodes[i].id # new}
           earlier(i) == {j \in sources : Precedes(nodes, j, i)}
           of(I) == {c \in rows : c[1] \in I}
           upto(c) == of(earlier(c[1])) \cup {b \in of({c[1]}) : b[2] < c[2]}
           served(I, C) == Served(g, {nodes[i].id : i \in I} \cup IF C = {} THEN {} ELSE {new})
           made(C) == Copied(g, C) /\ astray' = astray \cup {c[2] : c \in Copies(g) \ C}
       IN  \/ /\ served(sources, rows)
              /\ \/ made(rows) /\ UNCHANGED <<link, faults>>
                 \/ \E c \in rows : Unread(g, new) /\ made(rows \ {c})
              /\ migration' = [migration EXCEPT ![g].copied = TRUE]
           \/ /\ \/ \E i \in sources :
                       /\ served(earlier(i), of(earlier(i)))
                       /\ LET part == Copied(g, of(earlier(i)))
                          IN  Fails(g, nodes[i].id, part, part)
                 \/ \E c \in rows :
                       /\ served(earlier(c[1]) \cup {c[1]}, upto(c))
                       /\ Fails(g, new, Copied(g, upto(c)), Copied(g, upto(c) \cup {c}))
              /\ UNCHANGED astray
              /\ migration' = [migration EXCEPT ![g].copied = FALSE]
    /\ UNCHANGED <<setting, meta, cache, counts, terms, acked, indexed, writes, moves>>

\* commit_migration: asks nobody whether the copy is complete; callers do.
commit_migration(g) ==
    /\ migration[g] # NoMigration
    /\ migration[g].copied \/ setting.hasty
    /\ LET joined == [id |-> migration[g].node, role |-> migration[g].role]
       IN  meta' = [meta EXCEPT ![g] = Append(@, joined)]
    /\ migration' = [migration EXCEPT ![g] = NoMigration]
    /\ UNCHANGED <<setting, link, cache, counts, nodeVars, histVars, faults, moves>>

abort_migration(g) ==
    /\ migration[g] # NoMigration
    /\ migration' = [migration EXCEPT ![g] = NoMigration]
    /\ UNCHANGED <<setting, meta, link, cache, counts, nodeVars, histVars, faults, moves>>

\* A gateway is built anew from the topology its owner has saved (save, load).
Restart(g) ==
    /\ Happens
    /\ migration' = [migration EXCEPT ![g] = NoMigration]
    /\ link' = [link EXCEPT ![g] = [n \in DataNode |-> "up"]]
    /\ cache' = [cache EXCEPT ![g] = {}]
    /\ counts' = [counts EXCEPT ![g] = [t \in Term |-> [n |-> 0, age |-> 0]]]
    /\ UNCHANGED <<setting, meta, nodeVars, histVars, moves>>

GatewayNext ==
    \/ TimePasses
    \/ \E g \in setting.gateways :
        \/ \E ts \in SUBSET setting.terms : put_batch(g, ts) \/ \E d \in Doc : put(g, d, ts)
        \/ \E t \in setting.terms : broadcast_search(g, t)
        \/ \E d \in Doc : get(g, d)
        \/ \E n \in DataNode, role \in NodeRole : begin_migration(g, n, role)
        \/ catch_up(g) \/ commit_migration(g) \/ abort_migration(g) \/ Restart(g)

GatewaySpec == GatewayInit /\ [][GatewayNext]_allVars

---------------------------------------------------------------------------
(* Properties *)

\* The types of the gateways' state and the nodes' (gateway.rs).
GatewayTypeOK ==
    /\ setting \in Settings
    /\ meta \in [GW -> Seq(NodeInfo)]
    /\ migration \in [GW -> Migration \cup {NoMigration}]
    /\ link \in [GW -> [DataNode -> Connection]]
    /\ cache \in [GW -> SUBSET Chunk]
    /\ \A g \in GW : IsFiniteSet(cache[g]) /\ Cardinality(cache[g]) <= CacheSize
    /\ counts \in [GW -> [Term -> [n : 0..Threshold, age : 0..Window]]]
    /\ docs \in [DataNode -> [Doc -> 0..MaxWrites]]
    /\ posts \in [DataNode -> [Term -> SUBSET Doc]]
    /\ terms \in [Write -> SUBSET Term]
    /\ acked \in [Doc -> 0..MaxWrites]
    /\ indexed \in [Doc -> [Term -> 0..Never]]
    /\ astray \subseteq Doc
    /\ writes \in 0..setting.writes /\ faults \in 0..setting.faults /\ moves \in 0..setting.moves

\* The node a read asks has the newest write that was reported done, or one made
\* since, before, during and after every migration, aborted and begun anew,
\* whatever call to a node failed, broke or timed out in the middle of a write or
\* of a copy: of one gateway whose callers commit complete copies, write no
\* batches meanwhile and add slaves without leftovers, and but for the documents
\* of a call that was itself reported done by the answer to another (put,
\* catch_up, commit_migration, get).
ReadsNewest ==
    \A g \in setting.gateways, d \in Doc \ astray : docs[resolve(g, d)][d] >= acked[d]

Found(g, t) ==
    UNION {IF Cached(g, n, t) = {} THEN posts[n][t] ELSE (CHOOSE c \in Cached(g, n, t) : TRUE).docs :
           n \in Ids(meta[g])}

\* The chunks a search puts together, cached or held by the nodes, have every
\* document written with the term at least Ttl ago, through migrations and
\* failures, but for those of a write reported done by the answer to another,
\* and while no answer to another call is cached (broadcast_search, TermCache).
SearchFinds ==
    \A g \in setting.gateways, d \in Doc \ astray, t \in Term :
        indexed[d][t] = Ttl /\ (\A n \in Ids(meta[g]) : \A c \in Cached(g, n, t) : c.own)
            => d \in Found(g, t)
===========================================================================
