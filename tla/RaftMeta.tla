----------------------------- MODULE RaftMeta -----------------------------
(***************************************************************************)
(* The metadata group of src/src/raft_meta.rs: replicas of the cluster     *)
(* metadata with elections and a replicated log.  Messages are routed      *)
(* synchronously inside one call (deliver calls the handler, the handler   *)
(* delivers the answer), so an election and a proposal are one step each;  *)
(* what goes wrong is reachability, switched on and off by set_reachable.  *)
(*                                                                         *)
(* Every path that appends to a log sets commit to the new length and      *)
(* applies up to it, so "committed", "applied" and "in the log" are one    *)
(* and the same in this program and the log stands for all three.          *)
(***************************************************************************)
EXTENDS Naturals, Sequences, FiniteSets

CONSTANTS
    Node,
    None,     \* voted_for of a node that has not voted
    Op,       \* metadata operations
    MaxTerm,  \* bound: elections above it only where a leader is missing
    MaxLog,   \* bound: entries of a log
    MaxFlips  \* bound: changes of reachability

ASSUME NodeAssumption == IsFiniteSet(Node) /\ None \notin Node
ASSUME BoundAssumption == MaxTerm \in Nat /\ MaxLog \in Nat /\ MaxFlips \in Nat

VARIABLES
    role, term, votedFor, log, reachable,
    parted,  \* history: no majority was reachable, an unreachable node stood for election,
             \* or a node that does not lead made a proposal
    flips

vars == <<role, term, votedFor, log, reachable, parted, flips>>

Role == {"follower", "candidate", "leader"}

(* quorum: half of the nodes and one more, so more than all the others. *)
Majority(S) == Cardinality(S) > Cardinality(Node \ S)

Init ==
    /\ role = [n \in Node |-> "follower"]
    /\ term = [n \in Node |-> 0]
    /\ votedFor = [n \in Node |-> None]
    /\ log = [n \in Node |-> <<>>]
    /\ reachable = Node
    /\ parted = FALSE
    /\ flips = 0

(* deliver drops a message when either end is unreachable. *)
Hears(n) == IF n \in reachable THEN reachable \ {n} ELSE {}

(* Mutant: a vote already given in the term is given again. *)
GrantingAgain(c, t) == {p \in Hears(c) : term[p] <= t}

(* handle_vote_req: the peers that grant c their vote in term t. *)
Granting(c, t) ==
    {p \in Hears(c) : term[p] < t \/ (term[p] = t /\ votedFor[p] \in {None, c})}

(* Where the bound on terms does not apply: an election is due and can be  *)
(* won.                                                                    *)
LeaderMissing(c) ==
    c \in reachable /\ Majority(reachable) /\ \A n \in Node : role[n] # "leader"

(* start_election: the term is raised, every peer that hears of it follows *)
(* the higher term and votes at most once in it, and the candidate leads   *)
(* when an answer completes a majority.  It may also be called by hand, on *)
(* an unreachable node too.                                                *)
StartElection(c) ==
    /\ role[c] # "leader"
    /\ term[c] < MaxTerm \/ LeaderMissing(c)
    /\ LET t     == term[c] + 1
           votes == Granting(c, t)
           won   == votes # {} /\ Majority(votes \cup {c})
           moved == {p \in Hears(c) : term[p] < t}
       IN  /\ term' = [n \in Node |-> IF n = c \/ n \in moved THEN t ELSE term[n]]
           /\ votedFor' = [n \in Node |-> IF n = c \/ n \in votes THEN c ELSE votedFor[n]]
           /\ role' = [n \in Node |->
                        IF n = c THEN IF won THEN "leader" ELSE "candidate"
                        ELSE IF n \in moved THEN "follower" ELSE role[n]]
    /\ parted' = (parted \/ c \notin reachable)
    /\ UNCHANGED <<log, reachable, flips>>

(* Mutant: a candidate that did not win does not try again. *)
TickFollower(n) == n \in reachable /\ role[n] = "follower" /\ StartElection(n)

(* tick: the heartbeat timeout of a reachable node has passed (nothing     *)
(* sends heartbeats, so this may be at any time).                          *)
Tick(n) == n \in reachable /\ StartElection(n)

(* Mutant: a peer of an older term does not take the entry. *)
TakersSameTerm(l) == {p \in Hears(l) : term[p] = term[l]}

(* handle_append: the peers that take an entry of l. *)
Takers(l) == {p \in Hears(l) : term[p] <= term[l]}

(* propose: the entry goes to the proposer's log and to every peer that    *)
(* takes it, whatever either log holds, and is committed at once.  Nothing *)
(* asks for the role: any node may propose, the one that leads or another. *)
Propose(l, op) ==
    /\ \A n \in Node : Len(log[n]) < MaxLog
    /\ log' = [n \in Node |->
                IF n = l \/ n \in Takers(l) THEN Append(log[n], [term |-> term[l], op |-> op])
                ELSE log[n]]
    /\ term' = [n \in Node |-> IF n \in Takers(l) THEN term[l] ELSE term[n]]
    /\ role' = [n \in Node |-> IF n \in Takers(l) /\ term[n] < term[l] THEN "follower"
                               ELSE role[n]]
    /\ parted' = (parted \/ role[l] # "leader")
    /\ UNCHANGED <<votedFor, reachable, flips>>

(* set_reachable(n, false) *)
DropOut(n) ==
    /\ flips < MaxFlips
    /\ n \in reachable
    /\ reachable' = reachable \ {n}
    /\ parted' = (parted \/ ~Majority(reachable'))
    /\ role' = [role EXCEPT ![n] = "follower"]
    /\ flips' = flips + 1
    /\ UNCHANGED <<term, votedFor, log>>

(* set_reachable(n, true): nothing is caught up. *)
Rejoin(n) ==
    /\ flips < MaxFlips
    /\ n \notin reachable
    /\ reachable' = reachable \cup {n}
    /\ flips' = flips + 1
    /\ UNCHANGED <<role, term, votedFor, log, parted>>

Next ==
    \/ \E n \in Node : StartElection(n) \/ DropOut(n) \/ Rejoin(n)
    \/ \E n \in Node, op \in Op : Propose(n, op)

Spec == Init /\ [][Next]_vars

(* Every node's tick is called again and again. *)
FairSpec == Spec /\ \A n \in Node : WF_vars(Tick(n))

---------------------------------------------------------------------------
(* Properties *)

Entry == [term : Nat, op : Op]

TypeOK ==
    /\ role \in [Node -> Role]
    /\ term \in [Node -> Nat]
    /\ votedFor \in [Node -> Node \cup {None}]
    /\ log \in [Node -> Seq(Entry)]
    /\ reachable \subseteq Node
    /\ parted \in BOOLEAN
    /\ flips \in Nat

(* There is never a second leader, not even one of an older term in        *)
(* another part of a partition: nodes that drop out stop leading, and a    *)
(* rejoining node cannot win below the term of the majority.               *)
SingleLeader ==
    \A m, n \in Node : role[m] = "leader" /\ role[n] = "leader" => m = n

(* As long as the reachable nodes have always been a majority, isolated    *)
(* nodes do not stand for election and only a leader has proposed, what a  *)
(* node has applied a majority has applied, although nobody counts         *)
(* acknowledgements.                                                       *)
AppliedByMajority(n) ==
    \A i \in 1..Len(log[n]) :
        Majority({m \in Node : \E j \in 1..Len(log[m]) : log[m][j] = log[n][i]})
CommittedByMajority == parted \/ \A n \in Node : AppliedByMajority(n)

(* The promise itself, whoever proposes, with or without a majority. *)
NeverByMinority == \A n \in Node : AppliedByMajority(n)

(* Without any of that, nodes that are reachable and follow the same term  *)
(* have applied the same operations in the same order.                     *)
ReachableAgree ==
    parted \/ \A m, n \in reachable :
                 log[m] # <<>> /\ log[n] # <<>> /\ term[m] = term[n] => log[m] = log[n]

(* Automatic failover: when a majority stays reachable from some time on,  *)
(* a leader is there again and again.                                      *)
MajorityUp == Majority(reachable)
LeaderUp == \E n \in Node : role[n] = "leader"
FailsOver == <>[]MajorityUp => []<>LeaderUp
===========================================================================
