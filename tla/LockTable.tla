----------------------------- MODULE LockTable -----------------------------
(***************************************************************************)
(* The lock table of the transactions (txn.rs): shared and exclusive locks *)
(* on documents, and for every transaction the document it was last        *)
(* refused.  Nobody is put to sleep: a refused request is answered at once *)
(* with a conflict, or with a deadlock when the transaction would wait for *)
(* itself, and it is for the caller to ask again.  Every operation runs    *)
(* under the table's mutex.  The queues of waiters are left out: the code  *)
(* fills and clears them and decides nothing by them.                      *)
(***************************************************************************)
EXTENDS FiniteSets

CONSTANTS Doc, Txn, None

ASSUME NoneAssumption == None \notin Doc \cup Txn

VARIABLES
    holders,    \* LockState::holders of each document, empty if it has no state
    exclusive,  \* LockState::exclusive
    held,       \* LockTable::held
    waiting     \* LockTable::waiting: the document a transaction was refused

lockVars == <<holders, exclusive, held, waiting>>

Mode == {"shared", "exclusive"}

TableInit ==
    /\ holders = [d \in Doc |-> {}]
    /\ exclusive = [d \in Doc |-> FALSE]
    /\ held = [t \in Txn |-> {}]
    /\ waiting = [t \in Txn |-> None]

\* Mutant: whoever shares the lock may raise it.
GrantsAnyUpgrade(t, d, mode) ==
    \/ holders[d] = {}
    \/ mode = "shared" /\ ~exclusive[d]
    \/ mode = "exclusive" /\ ~exclusive[d] /\ t \in holders[d]

(***************************************************************************)
(* A free document is granted, a shared lock joins shared locks, and the   *)
(* only holder of a shared lock may raise it.  A transaction that holds    *)
(* the exclusive lock and asks again is refused like anybody else.         *)
(***************************************************************************)
Grants(t, d, mode) ==
    \/ holders[d] = {}
    \/ mode = "shared" /\ ~exclusive[d]
    \/ mode = "exclusive" /\ ~exclusive[d] /\ holders[d] = {t}

\* A grant leaves waiting alone, even if it is the document that was refused.
Grant(t, d, mode) ==
    /\ holders' = [holders EXCEPT ![d] = @ \cup {t}]
    /\ exclusive' = [exclusive EXCEPT ![d] = (mode = "exclusive")]
    /\ held' = [held EXCEPT ![t] = @ \cup {d}]
    /\ UNCHANGED waiting

(***************************************************************************)
(* Who waits for whom when the transactions of wants (a function) want a   *)
(* document each: for its holders, itself excepted.  A transaction is on a *)
(* cycle when every set that holds those it waits for, and with each       *)
(* member those the member waits for, holds the transaction too.           *)
(***************************************************************************)
WaitsFor(wants) ==
    [t \in Txn |-> IF wants[t] = None THEN {} ELSE holders[wants[t]] \ {t}]

Closed(graph, S) == \A t \in S : graph[t] \subseteq S

OnCycle(graph, t) ==
    \A S \in SUBSET Txn : graph[t] \subseteq S /\ Closed(graph, S) => t \in S

\* detect_deadlock, after the wait has been entered.
Deadlocks(t, d) == OnCycle(WaitsFor([waiting EXCEPT ![t] = d]), t)

\* Mutant: every refused request takes its wait back, as the answer is an error.
RefuseForgets(t, d) ==
    /\ waiting' = [waiting EXCEPT ![t] = None]
    /\ UNCHANGED <<holders, exclusive, held>>

\* The victim's wait is taken back, another one's stays.
Refuse(t, d) ==
    /\ waiting' = [waiting EXCEPT ![t] = IF Deadlocks(t, d) THEN None ELSE d]
    /\ UNCHANGED <<holders, exclusive, held>>

Acquire(t, d, mode) ==
    IF Grants(t, d, mode) THEN Grant(t, d, mode) ELSE Refuse(t, d)

\* Mutant: the wait outlives the transaction that gives up.
ReleaseKeepsWait(t) ==
    /\ holders' = [d \in Doc |-> IF d \in held[t] THEN holders[d] \ {t} ELSE holders[d]]
    /\ exclusive' = [d \in Doc |-> exclusive[d] /\ d \notin held[t]]
    /\ held' = [held EXCEPT ![t] = {}]
    /\ UNCHANGED waiting

Release(t) ==
    /\ holders' = [d \in Doc |-> IF d \in held[t] THEN holders[d] \ {t} ELSE holders[d]]
    /\ exclusive' = [d \in Doc |-> exclusive[d] /\ d \notin held[t]]
    /\ held' = [held EXCEPT ![t] = {}]
    /\ waiting' = [waiting EXCEPT ![t] = None]

-----------------------------------------------------------------------------
\* The table is typed and a document nobody holds is not locked exclusively.
TableTypeOK ==
    /\ holders \in [Doc -> SUBSET Txn]
    /\ exclusive \in [Doc -> BOOLEAN]
    /\ held \in [Txn -> SUBSET Doc]
    /\ waiting \in [Txn -> Doc \cup {None}]
    /\ \A d \in Doc : holders[d] = {} => ~exclusive[d]

(***************************************************************************)
(* An exclusive lock has one holder (acquire, release), although it may    *)
(* have grown out of a shared one and shared locks come and go.            *)
(***************************************************************************)
LocksExclude ==
    \A d \in Doc : exclusive[d] => \A t, u \in holders[d] : t = u

(***************************************************************************)
(* The two sides of the table agree: release goes by held, so a lock that  *)
(* held does not know would never be given back.                           *)
(***************************************************************************)
HeldMatches ==
    \A d \in Doc, t \in Txn : t \in holders[d] <=> d \in held[t]
=============================================================================
