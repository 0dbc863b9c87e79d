---------------------------- MODULE LockClients ----------------------------
(***************************************************************************)
(* Transactions that use the lock table: they ask for locks one at a time, *)
(* ask again or for something else after a conflict, give up after a       *)
(* deadlock and release everything at the end.                             *)
(***************************************************************************)
EXTENDS LockTable

(***************************************************************************)
(* What the clients are like: the modes they ask for, and whether they ask *)
(* for what they were refused until they get it or give up.                *)
(***************************************************************************)
CONSTANTS Habits

Habit == [modes : SUBSET Mode, insist : BOOLEAN]

ASSUME HabitsAssumption == Habits \subseteq Habit

VARIABLES
    habit,      \* one of Habits, chosen at the start
    asks,       \* the request a client was refused and still makes
    victims     \* clients that were told of a deadlock and have not released yet

clientVars == <<lockVars, habit, asks, victims>>

Request(d, mode) == [doc |-> d, mode |-> mode]
Requests == [doc : Doc, mode : Mode]

ASSUME RequestsAssumption == None \notin Requests

Wants == [t \in Txn |-> IF asks[t] = None THEN None ELSE asks[t].doc]

ClientsInit ==
    /\ TableInit
    /\ habit \in Habits
    /\ asks = [t \in Txn |-> None]
    /\ victims = {}

(***************************************************************************)
(* acquire_shared or acquire_exclusive.  A victim has to abort, and a      *)
(* client does not ask for what it has locked exclusively: a commit asks   *)
(* once for each document it wrote.                                        *)
(***************************************************************************)
Ask(t, d, mode) ==
    /\ t \notin victims
    /\ mode \in habit.modes
    /\ habit.insist /\ asks[t] # None => asks[t] = Request(d, mode)
    /\ ~(exclusive[d] /\ t \in holders[d])
    /\ LET refused == ~Grants(t, d, mode)
           deadlock == refused /\ Deadlocks(t, d)
       IN /\ asks' = [asks EXCEPT ![t] = IF refused /\ ~deadlock THEN Request(d, mode) ELSE None]
          /\ victims' = IF deadlock THEN victims \cup {t} ELSE victims
    /\ Acquire(t, d, mode)
    /\ UNCHANGED habit

\* Commit, rollback, or giving up.
Finish(t) ==
    /\ held[t] # {} \/ waiting[t] # None \/ t \in victims
    /\ Release(t)
    /\ asks' = [asks EXCEPT ![t] = None]
    /\ victims' = victims \ {t}
    /\ UNCHANGED habit

ClientsNext ==
    \E t \in Txn :
        \/ \E d \in Doc, mode \in Mode : Ask(t, d, mode)
        \/ Finish(t)

ClientsSpec == ClientsInit /\ [][ClientsNext]_clientVars

-----------------------------------------------------------------------------
ClientsTypeOK ==
    /\ TableTypeOK
    /\ habit \in Habit
    /\ asks \in [Txn -> Requests \cup {None}]
    /\ victims \in SUBSET Txn

(***************************************************************************)
(* No cycle goes unnoticed (detect_deadlock): clients that still want what *)
(* they were refused never wait for each other in a circle, whichever      *)
(* request, grant or upgrade would have closed it.                         *)
(***************************************************************************)
NobodyStuck == \A t \in Txn : ~OnCycle(WaitsFor(Wants), t)

(***************************************************************************)
(* Only a real cycle makes a victim (acquire): a client told of a deadlock *)
(* would, by this request, have waited for itself through clients that     *)
(* still want what they were refused.                                      *)
(***************************************************************************)
Wronged(t, d, mode) ==
    /\ Ask(t, d, mode)
    /\ t \in victims'
    /\ ~OnCycle(WaitsFor([Wants EXCEPT ![t] = d]), t)

VictimsReal ==
    [][\A t \in Txn, d \in Doc, mode \in Mode : ~Wronged(t, d, mode)]_clientVars

(***************************************************************************)
(* The same for clients that insist and ask for exclusive locks only: the  *)
(* wait that a grant leaves behind is then one for a document the client   *)
(* holds alone, and leads nowhere.                                         *)
(***************************************************************************)
Insisting == habit.insist /\ habit.modes = {"exclusive"}

InsistingVictimsReal ==
    [][Insisting => \A t \in Txn, d \in Doc, mode \in Mode : ~Wronged(t, d, mode)]_clientVars
=============================================================================
