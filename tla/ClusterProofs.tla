--------------------------- MODULE ClusterProofs ---------------------------
(***************************************************************************)
(* Theorems about the two modules of the cluster.  RaftMeta, for any       *)
(* finite set of nodes: its states are typed, there is never a second      *)
(* leader, and what is applied is held by a majority as long as one has    *)
(* always been reachable.  Gateway, for any nodes, documents, terms and    *)
(* bounds: its states are typed, reads find the newest write reported done *)
(* and searches find what was written, each under what it asks of the      *)
(* gateway's callers.                                                      *)
(***************************************************************************)
EXTENDS RaftMeta, Gateway, Integers, FiniteSetTheorems, WellFoundedInduction, TLAPS

-----------------------------------------------------------------------------
(* The metadata group                                                      *)

(* Two majorities have a node in common. *)
LEMMA MajoritiesMeet ==
    ASSUME NEW S \in SUBSET Node, NEW T \in SUBSET Node, Majority(S), Majority(T)
    PROVE  \E v \in Node : v \in S /\ v \in T
<1> SUFFICES ASSUME ~\E v \in Node : v \in S /\ v \in T PROVE FALSE
    OBVIOUS
<1>1. S \subseteq Node \ T /\ T \subseteq Node \ S
    OBVIOUS
<1>2. IsFiniteSet(Node \ T) /\ IsFiniteSet(Node \ S) /\ IsFiniteSet(S) /\ IsFiniteSet(T)
    BY NodeAssumption, FS_Subset
<1>3. Cardinality(S) <= Cardinality(Node \ T) /\ Cardinality(T) <= Cardinality(Node \ S)
    BY <1>1, <1>2, FS_Subset
<1>4. /\ Cardinality(S) \in Nat /\ Cardinality(T) \in Nat
      /\ Cardinality(Node \ S) \in Nat /\ Cardinality(Node \ T) \in Nat
    BY <1>2, FS_CardinalityType
<1> QED
    BY <1>3, <1>4 DEF Majority

(* A leader is reachable. *)
LeadersReachable == \A l \in Node : role[l] = "leader" => l \in reachable

(* v stands behind l: it voted for l in its term, or has moved on. *)
Behind(v, l) == term[v] > term[l] \/ (term[v] = term[l] /\ votedFor[v] = l)

(* A majority stands behind every leader. *)
Backed ==
    \A l \in Node : role[l] = "leader" =>
        \E Q \in SUBSET Node : Majority(Q) /\ \A v \in Q : Behind(v, l)

(* The inductive invariant. *)
Inv == TypeOK /\ LeadersReachable /\ Backed /\ SingleLeader

(* At the start nobody leads. *)
LEMMA InitInv == Init => Inv
<1> SUFFICES ASSUME Init PROVE Inv
    OBVIOUS
<1>1. \A n \in Node : role[n] # "leader"
    BY DEF Init
<1>2. TypeOK
    <2>1. parted \in BOOLEAN
        BY DEF Init
    <2> QED
        BY <2>1 DEF Init, TypeOK, Role
<1> QED
    BY <1>1, <1>2 DEF Inv, LeadersReachable, Backed, SingleLeader

(* An election keeps the invariant: its votes and the votes behind a       *)
(* leader who has not heard of it would meet in a node that can be in      *)
(* neither camp.                                                           *)
LEMMA ElectionKeepsInv ==
    ASSUME Inv, NEW c \in Node, StartElection(c)
    PROVE  Inv'
<1> DEFINE t     == term[c] + 1
           votes == Granting(c, t)
           won   == votes # {} /\ Majority(votes \cup {c})
           moved == {p \in Hears(c) : term[p] < t}
<1> USE DEF Inv
<1>1. /\ term' = [n \in Node |-> IF n = c \/ n \in moved THEN t ELSE term[n]]
      /\ votedFor' = [n \in Node |-> IF n = c \/ n \in votes THEN c ELSE votedFor[n]]
      /\ role' = [n \in Node |-> IF n = c THEN IF won THEN "leader" ELSE "candidate"
                                 ELSE IF n \in moved THEN "follower" ELSE role[n]]
      /\ UNCHANGED <<log, reachable, flips>>
      /\ parted' = (parted \/ c \notin reachable)
      /\ role[c] # "leader"
    BY DEF StartElection
<1>2. t \in Nat /\ \A n \in Node : term[n] \in Nat
    BY DEF TypeOK
<1>3. TypeOK'
    <2>1. term' \in [Node -> Nat]
        BY <1>1, <1>2
    <2>2. votedFor' \in [Node -> Node \cup {None}]
        BY <1>1 DEF TypeOK
    <2>3. role' \in [Node -> Role]
        BY <1>1 DEF TypeOK, Role
    <2> QED
        BY <1>1, <2>1, <2>2, <2>3 DEF TypeOK
<1>4. \A p \in votes : p \in Hears(c) /\ p \in Node /\ p # c
    BY DEF Granting, Hears, TypeOK
<1>5. ASSUME NEW l \in Node, l # c, role'[l] = "leader"
      PROVE  role[l] = "leader" /\ l \in reachable /\ term'[l] = term[l] /\ l \notin moved
    BY <1>1, <1>5 DEF LeadersReachable
<1>6. ASSUME NEW l \in Node, l # c, role'[l] = "leader", NEW v \in Node, Behind(v, l)
      PROVE  Behind(v, l)' /\ (v \notin votes \/ v \in moved)
    <2>1. term'[l] = term[l] /\ term[l] \in Nat /\ term[v] \in Nat
        BY <1>2, <1>5, <1>6
    <2>2. CASE v = c \/ v \in moved
        BY <1>1, <1>2, <1>4, <2>1, <2>2, <1>6 DEF Behind
    <2>3. CASE v # c /\ v \notin moved
        <3>1. term'[v] = term[v]
            BY <1>1, <2>3
        <3>2. v \notin votes
            <4> SUFFICES ASSUME v \in votes PROVE FALSE
                OBVIOUS
            <4>1. term[v] = t /\ votedFor[v] \in {None, c} /\ v \in Hears(c)
                BY <2>3, <1>2 DEF Granting
            <4>2. l \in Hears(c)
                BY <1>5, <1>6, <4>1 DEF Hears
            <4>3. term[l] >= t
                BY <1>2, <1>5, <1>6, <4>2
            <4>4. votedFor[v] = l
                BY <1>6, <4>1, <4>3, <1>2, <2>1 DEF Behind
            <4> QED
                BY <4>1, <4>4, <1>6, NodeAssumption
        <3>3. votedFor'[v] = votedFor[v]
            BY <1>1, <2>3, <3>2
        <3> QED
            BY <3>1, <3>2, <3>3, <2>1, <1>6 DEF Behind
    <2> QED
        BY <2>2, <2>3
<1>7. won => \A v \in votes \cup {c} : Behind(v, c)'
    <2> SUFFICES ASSUME NEW v \in votes \cup {c} PROVE Behind(v, c)'
        OBVIOUS
    <2>1. v \in Node /\ votedFor'[v] = c /\ term'[c] = t
        BY <1>1, <1>4
    <2>2. term'[v] = t
        BY <1>1, <1>2, <1>4, <2>1 DEF Granting
    <2> QED
        BY <2>1, <2>2 DEF Behind
<1>8. LeadersReachable'
    <2> SUFFICES ASSUME NEW l \in Node, role'[l] = "leader" PROVE l \in reachable'
        BY DEF LeadersReachable
    <2>1. CASE l = c
        BY <1>1, <1>4, <2>1 DEF Hears
    <2>2. CASE l # c
        BY <1>1, <1>5, <2>2
    <2> QED
        BY <2>1, <2>2
<1>9. Backed'
    <2> SUFFICES ASSUME NEW l \in Node, role'[l] = "leader"
                 PROVE  \E Q \in SUBSET Node : Majority(Q) /\ \A v \in Q : Behind(v, l)'
        BY DEF Backed, Majority
    <2>1. CASE l = c
        <3>1. won
            BY <1>1, <2>1
        <3>2. votes \cup {c} \in SUBSET Node
            BY <1>4
        <3> QED
            BY <3>1, <3>2, <1>7, <2>1
    <2>2. CASE l # c
        <3>1. PICK Q \in SUBSET Node : Majority(Q) /\ \A v \in Q : Behind(v, l)
            BY <1>5, <2>2 DEF Backed
        <3> QED
            BY <3>1, <1>6, <2>2
    <2> QED
        BY <2>1, <2>2
<1>10. SingleLeader'
    <2>1. ASSUME won, NEW l \in Node, l # c, role'[l] = "leader" PROVE FALSE
        <3>1. PICK Q \in SUBSET Node : Majority(Q) /\ \A v \in Q : Behind(v, l)
            BY <1>5, <2>1 DEF Backed
        <3>2. PICK v \in Node : v \in Q /\ v \in votes \cup {c}
            BY <3>1, <2>1, <1>4, MajoritiesMeet
        <3>3. l \in Hears(c) /\ term[l] >= t
            <4>1. c \in reachable
                BY <2>1, <1>4 DEF Hears
            <4> QED
                BY <4>1, <1>2, <1>5, <2>1 DEF Hears
        <3>4. term[v] >= t
            BY <3>1, <3>2, <3>3, <1>2 DEF Behind
        <3>5. v # c /\ v \notin moved
            BY <3>4, <1>2
        <3> QED
            BY <3>1, <3>2, <3>5, <1>6, <2>1
    <2>2. ASSUME NEW l \in Node, NEW m \in Node, l # c, m # c,
                 role'[l] = "leader", role'[m] = "leader"
          PROVE  l = m
        BY <2>2, <1>5 DEF SingleLeader
    <2>3. role'[c] = "leader" => won
        BY <1>1
    <2> QED
        BY <2>1, <2>2, <2>3 DEF SingleLeader
<1> QED
    BY <1>3, <1>8, <1>9, <1>10

(* A proposal keeps the invariant, whichever node makes it: a leader it    *)
(* raises the term of stops leading.                                       *)
LEMMA ProposeKeepsInv ==
    ASSUME Inv, NEW l \in Node, NEW op \in Op, Propose(l, op)
    PROVE  Inv'
<1> USE DEF Inv
<1>1. /\ term' = [n \in Node |-> IF n \in Takers(l) THEN term[l] ELSE term[n]]
      /\ role' = [n \in Node |-> IF n \in Takers(l) /\ term[n] < term[l] THEN "follower"
                                 ELSE role[n]]
      /\ UNCHANGED <<votedFor, reachable, flips>>
      /\ parted' = (parted \/ role[l] # "leader")
    BY DEF Propose
<1>2. \A n \in Node : term[n] \in Nat
    BY DEF TypeOK
<1>3. TypeOK'
    <2>1. log' \in [Node -> Seq(Entry)]
        <3>1. [term |-> term[l], op |-> op] \in Entry
            BY <1>2 DEF Entry
        <3>2. \A n \in Node : Append(log[n], [term |-> term[l], op |-> op]) \in Seq(Entry)
            BY <3>1 DEF TypeOK
        <3> QED
            BY <3>2 DEF Propose, TypeOK
    <2>2. term' \in [Node -> Nat] /\ role' \in [Node -> Role]
        BY <1>1, <1>2 DEF TypeOK, Role
    <2> QED
        BY <1>1, <2>1, <2>2 DEF TypeOK
<1>4. \A m \in Node : role'[m] = "leader" => role[m] = "leader" /\ term'[m] = term[m]
    BY <1>1, <1>2 DEF Takers
<1>5. LeadersReachable' /\ SingleLeader'
    BY <1>1, <1>4 DEF LeadersReachable, SingleLeader
<1>6. ASSUME NEW v \in Node, NEW m \in Node, role'[m] = "leader", Behind(v, m)
      PROVE  Behind(v, m)'
    BY <1>1, <1>2, <1>4, <1>6 DEF Behind, Takers
<1>7. Backed'
    <2> SUFFICES ASSUME NEW m \in Node, role'[m] = "leader"
                 PROVE  \E Q \in SUBSET Node : Majority(Q) /\ \A v \in Q : Behind(v, m)'
        BY DEF Backed, Majority
    <2>1. PICK Q \in SUBSET Node : Majority(Q) /\ \A v \in Q : Behind(v, m)
        BY <1>4 DEF Backed
    <2> QED
        BY <2>1, <1>6
<1> QED
    BY <1>3, <1>5, <1>7

(* A node that drops out stops leading; one that rejoins changes nothing.  *)
LEMMA ReachabilityKeepsInv ==
    ASSUME Inv, NEW n \in Node, DropOut(n) \/ Rejoin(n)
    PROVE  Inv'
<1> USE DEF Inv
<1>1. /\ UNCHANGED <<term, votedFor, log>>
      /\ \A m \in Node : role'[m] = "leader" => role[m] = "leader"
    <2>1. CASE DropOut(n)
        BY <2>1 DEF DropOut, TypeOK
    <2>2. CASE Rejoin(n)
        BY <2>2 DEF Rejoin
    <2> QED
        BY <2>1, <2>2
<1>2. TypeOK'
    <2>1. role' \in [Node -> Role]
        <3>1. CASE DropOut(n)
            BY <3>1 DEF DropOut, TypeOK, Role
        <3>2. CASE Rejoin(n)
            BY <3>2 DEF Rejoin, TypeOK
        <3> QED
            BY <3>1, <3>2
    <2>2. reachable' \subseteq Node /\ flips' \in Nat
        BY DEF DropOut, Rejoin, TypeOK
    <2>3. parted' \in BOOLEAN
        <3>1. CASE DropOut(n)
            BY <3>1, ZenonT(20) DEF DropOut
        <3>2. CASE Rejoin(n)
            BY <3>2 DEF Rejoin, TypeOK
        <3> QED
            BY <3>1, <3>2
    <2> QED
        BY <1>1, <2>1, <2>2, <2>3 DEF TypeOK
<1>3. LeadersReachable'
    <2>1. CASE DropOut(n)
        BY <2>1 DEF DropOut, TypeOK, LeadersReachable
    <2>2. CASE Rejoin(n)
        BY <2>2 DEF Rejoin, LeadersReachable
    <2> QED
        BY <2>1, <2>2
<1>4. \A v, l : Behind(v, l)' <=> Behind(v, l)
    BY <1>1 DEF Behind
<1>5. Backed'
    BY <1>1, <1>4 DEF Backed, Majority
<1> QED
    BY <1>1, <1>2, <1>3, <1>5 DEF SingleLeader

(* The invariant holds in every reachable state. *)
LEMMA InvAlways == Spec => []Inv
<1>1. Inv /\ [Next]_vars => Inv'
    <2> SUFFICES ASSUME Inv, [Next]_vars PROVE Inv'
        OBVIOUS
    <2>1. CASE Next
        BY <2>1, ElectionKeepsInv, ProposeKeepsInv, ReachabilityKeepsInv DEF Next
    <2>2. CASE UNCHANGED vars
        BY <2>2 DEF vars, Inv, TypeOK, LeadersReachable, Backed, Behind, Majority, SingleLeader
    <2> QED
        BY <2>1, <2>2
<1> QED
    BY <1>1, InitInv, PTL DEF Spec

---------------------------------------------------------------------------
(* What is logged is held by a majority, as long as a majority has always  *)
(* been reachable.                                                         *)

(* A set of nodes that contains a majority is one. *)
LEMMA MajorityGrows ==
    ASSUME NEW S \in SUBSET Node, NEW T \in SUBSET Node, S \subseteq T, Majority(S)
    PROVE  Majority(T)
<1>1. IsFiniteSet(T) /\ IsFiniteSet(Node \ S)
    BY NodeAssumption, FS_Subset
<1>2. IsFiniteSet(S) /\ IsFiniteSet(Node \ T)
    BY NodeAssumption, FS_Subset
<1>3. Cardinality(S) <= Cardinality(T)
    BY <1>1, FS_Subset
<1>4. Cardinality(Node \ T) <= Cardinality(Node \ S)
    BY <1>1, FS_Subset
<1>5. /\ Cardinality(S) \in Nat /\ Cardinality(T) \in Nat
      /\ Cardinality(Node \ S) \in Nat /\ Cardinality(Node \ T) \in Nat
    BY <1>1, <1>2, FS_CardinalityType
<1> QED
    BY <1>3, <1>4, <1>5 DEF Majority

(* As long as any node exists, all the nodes are a majority. *)
LEMMA AllAreMajority == ASSUME NEW n \in Node PROVE Majority(Node)
<1>1. Cardinality(Node) \in Nat /\ Cardinality(Node) # 0
    BY NodeAssumption, FS_CardinalityType, FS_EmptySet
<1>2. Node \ Node = {} /\ Cardinality({}) = 0
    BY FS_EmptySet
<1> QED
    BY <1>1, <1>2 DEF Majority

(* The nodes that have reached the term of n. *)
Reached(n) == {m \in Node : term[m] >= term[n]}

(* Without a partition a majority is reachable, and no node is ahead of a  *)
(* majority: who raises a term takes every reachable node along.           *)
NoneAhead == ~parted => \A n \in Node : Majority(reachable) /\ Majority(Reached(n))

(* Without a partition no node is ahead of the leader, so every reachable  *)
(* node takes what the leader proposes.                                    *)
LeaderNewest ==
    ~parted => \A l \in Node : role[l] = "leader" => \A n \in Node : term[n] <= term[l]

(* The inductive invariant of CommittedByMajority. *)
WideInv == Inv /\ NoneAhead /\ LeaderNewest /\ CommittedByMajority

(* At the start every node is reachable, in term 0 and without a log. *)
LEMMA InitWideInv == Init => WideInv
<1> SUFFICES ASSUME Init PROVE WideInv
    OBVIOUS
<1>1. ASSUME NEW n \in Node PROVE Majority(reachable) /\ Majority(Reached(n))
    <2>1. reachable = Node /\ Reached(n) = Node
        BY DEF Init, Reached
    <2> QED
        BY <2>1, AllAreMajority
<1>2. NoneAhead
    BY <1>1 DEF NoneAhead
<1>3. LeaderNewest
    BY DEF Init, LeaderNewest
<1>4. CommittedByMajority
    <2>1. \A n \in Node : 1..Len(log[n]) = {}
        BY DEF Init
    <2> QED
        BY <2>1 DEF CommittedByMajority, AppliedByMajority
<1> QED
    BY <1>2, <1>3, <1>4, InitInv DEF WideInv

(* Terms and reachability that only grow leave a majority where it was. *)
LEMMA ReachedGrows ==
    ASSUME TypeOK, TypeOK', NEW n \in Node,
           \A m \in Node : term[m] <= term'[m], term'[n] = term[n], Majority(Reached(n))
    PROVE  Majority(Reached(n))'
<1>1. \A m \in Node : term[m] \in Nat /\ term'[m] \in Nat
    BY DEF TypeOK
<1>2. Reached(n) \subseteq Reached(n)'
    BY <1>1 DEF Reached
<1>3. Reached(n) \in SUBSET Node /\ Reached(n)' \in SUBSET Node
    BY DEF Reached
<1>4. Majority(Reached(n)')
    BY <1>2, <1>3, MajorityGrows
<1> QED
    BY <1>4 DEF Majority

(* Logs that keep their entries in place keep what a majority has applied. *)
LEMMA LogsGrow ==
    ASSUME TypeOK, NEW n \in Node, AppliedByMajority(n), NEW i \in 1..Len(log[n]),
           \A m \in Node : /\ Len(log[m]) <= Len(log'[m])
                           /\ Len(log'[m]) \in Nat
                           /\ \A j \in 1..Len(log[m]) : log'[m][j] = log[m][j]
    PROVE  Majority({m \in Node : \E j \in 1..Len(log'[m]) : log'[m][j] = log'[n][i]})
<1> DEFINE Old == {m \in Node : \E j \in 1..Len(log[m]) : log[m][j] = log[n][i]}
           New == {m \in Node : \E j \in 1..Len(log'[m]) : log'[m][j] = log'[n][i]}
<1>1. Majority(Old)
    BY DEF AppliedByMajority
<1>2. \A m \in Node : Len(log[m]) \in Nat
    BY DEF TypeOK
<1>3. Old \subseteq New
    <2> SUFFICES ASSUME NEW m \in Node, NEW j \in 1..Len(log[m]), log[m][j] = log[n][i]
                 PROVE  \E k \in 1..Len(log'[m]) : log'[m][k] = log'[n][i]
        OBVIOUS
    <2>1. log'[m][j] = log'[n][i] /\ j \in 1..Len(log'[m])
        BY <1>2
    <2> QED
        BY <2>1
<1>4. Old \in SUBSET Node /\ New \in SUBSET Node
    OBVIOUS
<1> HIDE DEF Old, New
<1>5. Majority(New)
    BY <1>1, <1>3, <1>4, MajorityGrows
<1> QED
    BY <1>5 DEF New

(* Logs that stay as they are keep it too. *)
LEMMA SameLogs ==
    ASSUME UNCHANGED log
    PROVE  \A n \in Node : AppliedByMajority(n)' <=> AppliedByMajority(n)
BY DEF AppliedByMajority, Majority

(* An election of a reachable candidate takes every reachable node to the  *)
(* new term; it cannot be won below the term of any node, whose majority   *)
(* would not vote.                                                         *)
LEMMA ElectionKeepsWide ==
    ASSUME WideInv, Inv', NEW c \in Node, StartElection(c)
    PROVE  WideInv'
<1> DEFINE t     == term[c] + 1
           votes == Granting(c, t)
           won   == votes # {} /\ Majority(votes \cup {c})
           moved == {p \in Hears(c) : term[p] < t}
<1> USE DEF WideInv
<1>1. /\ term' = [n \in Node |-> IF n = c \/ n \in moved THEN t ELSE term[n]]
      /\ role' = [n \in Node |-> IF n = c THEN IF won THEN "leader" ELSE "candidate"
                                 ELSE IF n \in moved THEN "follower" ELSE role[n]]
      /\ UNCHANGED <<log, reachable>>
      /\ parted' = (parted \/ c \notin reachable)
    BY DEF StartElection
<1>2. t \in Nat /\ t = term[c] + 1 /\ \A n \in Node : term[n] \in Nat /\ term'[n] \in Nat
    BY DEF Inv, TypeOK
<1>3. \A n \in Node : term[n] <= term'[n]
    BY <1>1, <1>2
<1>4. CommittedByMajority'
    BY <1>1, SameLogs, ZenonT(20) DEF CommittedByMajority
<1>5. ASSUME ~parted' PROVE ~parted /\ c \in reachable /\ Hears(c) = reachable \ {c}
    BY <1>1, <1>5, ZenonT(20) DEF Hears
<1>6. ASSUME ~parted', NEW n \in Node PROVE (Majority(reachable) /\ Majority(Reached(n)))'
    <2>1. Majority(reachable) /\ Majority(Reached(n))
        BY <1>5, <1>6 DEF NoneAhead
    <2>2. CASE n = c \/ n \in moved
        <3>1. term'[n] = t
            BY <1>1, <2>2
        <3>2. \A m \in reachable : m \in Node /\ term'[m] >= t
            BY <1>1, <1>2, <1>5, <1>6 DEF Inv, TypeOK
        <3>3. reachable \subseteq Reached(n)'
            BY <3>1, <3>2 DEF Reached
        <3>4. reachable \in SUBSET Node /\ Reached(n)' \in SUBSET Node
            BY DEF Inv, TypeOK, Reached
        <3>5. Majority(Reached(n)')
            BY <2>1, <3>3, <3>4, MajorityGrows
        <3> QED
            BY <1>1, <2>1, <3>5 DEF Majority
    <2>3. CASE ~(n = c \/ n \in moved)
        <3>1. term'[n] = term[n]
            BY <1>1, <2>3
        <3>2. Majority(Reached(n))'
            BY <1>3, <2>1, <3>1, ReachedGrows DEF Inv
        <3> QED
            BY <1>1, <2>1, <3>2 DEF Majority
    <2> QED
        BY <2>2, <2>3
<1>7. NoneAhead'
    BY <1>6 DEF NoneAhead
<1>8. ASSUME ~parted', won, NEW n \in Node PROVE term'[n] <= t
    <2> SUFFICES ASSUME term[n] > t PROVE FALSE
        BY <1>1, <1>2
    <2>1. Majority(Reached(n))
        BY <1>5, <1>8 DEF NoneAhead
    <2>2. votes \cup {c} \in SUBSET Node /\ Reached(n) \in SUBSET Node
        BY DEF Granting, Hears, Inv, TypeOK, Reached
    <2>3. Majority(votes \cup {c})
        BY <1>8
    <2>4. PICK v \in Node : v \in Reached(n) /\ v \in votes \cup {c}
        BY <2>1, <2>2, <2>3, MajoritiesMeet
    <2>5. term[v] >= term[n]
        BY <2>4 DEF Reached
    <2>6. term[v] <= t
        BY <2>4, <1>2 DEF Granting
    <2> QED
        BY <1>2, <2>5, <2>6
<1>9. LeaderNewest'
    <2> SUFFICES ASSUME ~parted', NEW l \in Node, role'[l] = "leader", NEW n \in Node
                 PROVE  term'[n] <= term'[l]
        BY DEF LeaderNewest
    <2>1. CASE l = c
        BY <1>1, <1>8, <2>1
    <2>2. CASE l # c
        <3>1. role[l] = "leader" /\ l \notin moved /\ term'[l] = term[l]
            BY <1>1, <2>2
        <3>2. l \in Hears(c)
            BY <1>5, <2>2, <3>1 DEF Inv, LeadersReachable
        <3>3. term[l] >= t
            BY <1>2, <3>1, <3>2
        <3>4. term[n] <= term[l]
            BY <1>5, <3>1 DEF LeaderNewest
        <3> QED
            BY <1>1, <1>2, <3>1, <3>3, <3>4
    <2> QED
        BY <2>1, <2>2
<1> QED
    BY <1>4, <1>7, <1>9

(* A leader's proposal without a partition reaches every reachable node,   *)
(* since none is ahead of it: its entry is at once held by a majority.     *)
LEMMA ProposeKeepsWide ==
    ASSUME WideInv, Inv', NEW l \in Node, NEW op \in Op, Propose(l, op)
    PROVE  WideInv'
<1> DEFINE e == [term |-> term[l], op |-> op]
<1> USE DEF WideInv
<1>1. /\ term' = [n \in Node |-> IF n \in Takers(l) THEN term[l] ELSE term[n]]
      /\ role' = [n \in Node |-> IF n \in Takers(l) /\ term[n] < term[l] THEN "follower"
                                 ELSE role[n]]
      /\ log' = [n \in Node |-> IF n = l \/ n \in Takers(l) THEN Append(log[n], e) ELSE log[n]]
      /\ UNCHANGED reachable
      /\ ~parted' => ~parted /\ role[l] = "leader" /\ l \in reachable
    BY DEF Propose, Inv, LeadersReachable
<1>2. \A n \in Node : term[n] \in Nat /\ term'[n] \in Nat
    BY DEF Inv, TypeOK
<1>3. \A n \in Node : term[n] <= term'[n] /\ (n \in Takers(l) => term'[n] = term[l])
    BY <1>1, <1>2 DEF Takers
<1>4. l \notin Takers(l) /\ term'[l] = term[l]
    BY <1>1 DEF Takers, Hears
<1>5. NoneAhead'
    <2> SUFFICES ASSUME ~parted', NEW n \in Node
                 PROVE  (Majority(reachable) /\ Majority(Reached(n)))'
        BY DEF NoneAhead
    <2>1. ASSUME NEW m \in Node PROVE Majority(reachable) /\ Majority(Reached(m))
        BY <1>1 DEF NoneAhead
    <2>2. Majority(Reached(l))' /\ Majority(reachable)'
        <3>1. Majority(Reached(l))'
            BY <1>3, <1>4, <2>1, ReachedGrows DEF Inv
        <3> QED
            BY <3>1, <2>1, <1>1 DEF Majority
    <2>3. Majority(Reached(n))'
        <3>1. CASE n \in Takers(l)
            <4>1. term'[n] = term'[l]
                BY <1>3, <1>4, <3>1
            <4>2. Reached(n)' = Reached(l)'
                BY <4>1 DEF Reached
            <4> QED
                BY <2>2, <4>2 DEF Majority
        <3>2. CASE n \notin Takers(l)
            <4>1. term'[n] = term[n]
                BY <1>1, <3>2
            <4> QED
                BY <1>3, <2>1, <4>1, ReachedGrows DEF Inv
        <3> QED
            BY <3>1, <3>2
    <2> QED
        BY <2>2, <2>3
<1>6. LeaderNewest'
    <2> SUFFICES ASSUME ~parted', NEW m \in Node, role'[m] = "leader", NEW n \in Node
                 PROVE  term'[n] <= term'[m]
        BY DEF LeaderNewest
    <2>1. m = l
        <3>1. role[m] = "leader" /\ role[l] = "leader"
            BY <1>1
        <3> QED
            BY <3>1 DEF Inv, SingleLeader
    <2>2. term[n] <= term[l]
        BY <1>1 DEF LeaderNewest
    <2> QED
        BY <1>1, <1>2, <1>4, <2>1, <2>2
<1>7. ASSUME ~parted' PROVE Takers(l) = reachable \ {l}
    <2>1. (\A n \in Node : term[n] <= term[l]) /\ l \in reachable
        BY <1>1, <1>7 DEF LeaderNewest
    <2>2. reachable \subseteq Node
        BY DEF Inv, TypeOK
    <2> QED
        BY <2>1, <2>2 DEF Takers, Hears
<1>8. ASSUME NEW m \in Node
      PROVE  /\ Len(log[m]) \in Nat
             /\ \/ log'[m] = log[m] /\ m # l /\ m \notin Takers(l)
                \/ /\ Len(log'[m]) = Len(log[m]) + 1
                   /\ log'[m][Len(log[m]) + 1] = e
             /\ \A j \in 1..Len(log[m]) : log'[m][j] = log[m][j]
    <2>1. log[m] \in Seq(Entry) /\ e \in Entry
        BY <1>2 DEF Inv, TypeOK, Entry
    <2>2. CASE m = l \/ m \in Takers(l)
        <3>1. log'[m] = Append(log[m], e)
            BY <1>1, <2>2
        <3> HIDE DEF e
        <3> QED
            BY <2>1, <3>1
    <2>3. CASE ~(m = l \/ m \in Takers(l))
        <3>1. log'[m] = log[m]
            BY <1>1, <2>3
        <3> QED
            BY <2>1, <2>3, <3>1
    <2> QED
        BY <2>2, <2>3
<1> HIDE DEF e
<1>9. CommittedByMajority'
    <2> SUFFICES ASSUME ~parted', NEW n \in Node, NEW i \in 1..Len(log'[n])
                 PROVE  Majority({m \in Node : \E j \in 1..Len(log'[m]) : log'[m][j] = log'[n][i]})
        BY DEF CommittedByMajority, AppliedByMajority, Majority
    <2>1. CASE i \in 1..Len(log[n])
        <3>1. AppliedByMajority(n)
            BY <1>1 DEF CommittedByMajority
        <3>2. ASSUME NEW m \in Node
              PROVE  /\ Len(log[m]) <= Len(log'[m])
                     /\ Len(log'[m]) \in Nat
                     /\ \A j \in 1..Len(log[m]) : log'[m][j] = log[m][j]
            BY <1>8
        <3> QED
            BY <2>1, <3>1, <3>2, LogsGrow DEF Inv
    <2>2. CASE i \notin 1..Len(log[n])
        <3>1. i = Len(log[n]) + 1 /\ log'[n][i] = e
            BY <1>8, <2>2
        <3>2. \A m \in reachable : m \in Node /\ Len(log[m]) + 1 \in 1..Len(log'[m])
                                   /\ log'[m][Len(log[m]) + 1] = e
            BY <1>7, <1>8 DEF Inv, TypeOK
        <3>3. reachable \subseteq {m \in Node : \E j \in 1..Len(log'[m]) : log'[m][j] = log'[n][i]}
            BY <3>1, <3>2
        <3>4. Majority(reachable) /\ reachable \in SUBSET Node
            BY <1>1 DEF NoneAhead, Inv, TypeOK
        <3> QED
            BY <3>3, <3>4, MajorityGrows
    <2> QED
        BY <2>1, <2>2
<1> QED
    BY <1>5, <1>6, <1>9

(* Changes of reachability touch neither terms nor logs, and a majority    *)
(* that is left is remembered in parted.                                   *)
LEMMA ReachabilityKeepsWide ==
    ASSUME WideInv, Inv', NEW n \in Node, DropOut(n) \/ Rejoin(n)
    PROVE  WideInv'
<1> USE DEF WideInv
<1>1. /\ UNCHANGED <<term, log>>
      /\ \A m \in Node : role'[m] = "leader" => role[m] = "leader"
    <2>1. CASE DropOut(n)
        BY <2>1 DEF DropOut, Inv, TypeOK
    <2>2. CASE Rejoin(n)
        BY <2>2 DEF Rejoin
    <2> QED
        BY <2>1, <2>2
<1>2. ASSUME ~parted' PROVE ~parted
    <2>1. CASE DropOut(n)
        BY <1>2, <2>1, ZenonT(20) DEF DropOut
    <2>2. CASE Rejoin(n)
        BY <1>2, <2>2 DEF Rejoin
    <2> QED
        BY <2>1, <2>2
<1>3. ASSUME ~parted', NEW m \in Node PROVE Majority(reachable')
    <2>1. CASE DropOut(n)
        BY <1>3, <2>1, ZenonT(20) DEF DropOut
    <2>2. CASE Rejoin(n)
        <3>1. Majority(reachable)
            BY <1>2, <1>3 DEF NoneAhead
        <3>2. reachable \subseteq reachable' /\ reachable \in SUBSET Node
              /\ reachable' \in SUBSET Node
            BY <2>2 DEF Rejoin, Inv, TypeOK
        <3> QED
            BY <3>1, <3>2, MajorityGrows
    <2> QED
        BY <2>1, <2>2
<1>4. NoneAhead'
    <2> SUFFICES ASSUME ~parted', NEW m \in Node
                 PROVE  (Majority(reachable) /\ Majority(Reached(m)))'
        BY DEF NoneAhead
    <2>1. Majority(Reached(m)) /\ Reached(m)' = Reached(m)
        BY <1>1, <1>2 DEF NoneAhead, Reached
    <2> QED
        BY <1>3, <2>1 DEF Majority
<1>5. LeaderNewest'
    BY <1>1, <1>2 DEF LeaderNewest
<1>6. CommittedByMajority'
    BY <1>1, <1>2, SameLogs, ZenonT(20) DEF CommittedByMajority
<1> QED
    BY <1>4, <1>5, <1>6

(* The wide invariant holds in every reachable state. *)
LEMMA WideInvAlways == Spec => []WideInv
<1>1. WideInv /\ Inv' /\ [Next]_vars => WideInv'
    <2> SUFFICES ASSUME WideInv, Inv', [Next]_vars PROVE WideInv'
        OBVIOUS
    <2>1. CASE Next
        BY <2>1, ElectionKeepsWide, ProposeKeepsWide, ReachabilityKeepsWide DEF Next
    <2>2. CASE UNCHANGED vars
        <3>1. UNCHANGED <<role, term, log, reachable, parted>>
            BY <2>2 DEF vars
        <3>2. NoneAhead' /\ LeaderNewest'
            BY <3>1 DEF WideInv, NoneAhead, LeaderNewest, Reached, Majority
        <3>3. CommittedByMajority'
            BY <3>1, SameLogs, ZenonT(20) DEF WideInv, CommittedByMajority
        <3> QED
            BY <3>2, <3>3 DEF WideInv
    <2> QED
        BY <2>1, <2>2
<1> QED
    BY <1>1, InitWideInv, InvAlways, PTL DEF Spec

(* No second leader, whatever nodes drop out and rejoin, in whatever order *)
(* elections are tried: start_election, the vote handlers and              *)
(* set_reachable together exclude a split brain of leaders.                *)
THEOREM NeverTwoLeaders == Spec => []SingleLeader
BY InvAlways, PTL DEF Inv

(* Every reachable state is typed. *)
THEOREM TypeCorrect == Spec => []TypeOK
BY InvAlways, PTL DEF Inv

(* Whatever a node has applied is held by a majority, as long as a majority*)
(* has always been reachable and no isolated node stood for election:      *)
(* propose commits without counting answers, and it may, because the       *)
(* elections keep every reachable node at or below the leader's term.      *)
THEOREM CommitsReachMajority == Spec => []CommittedByMajority
BY WideInvAlways, PTL DEF WideInv

-----------------------------------------------------------------------------
(* The gateway                                                             *)

(* A nonempty set of numbers has a least element. *)
LEMMA LeastExists ==
    ASSUME NEW S, S \subseteq Nat, S # {}
    PROVE  \E x \in S : \A y \in S : x <= y
<1>1. PICK x \in S : \A y \in S : ~(<<y, x>> \in OpToRel(<, Nat))
    BY NatLessThanWellFounded, WFMin, Zenon
<1>2. ASSUME NEW y \in S PROVE x <= y
    <2>1. <<y, x>> \notin OpToRel(<, Nat) /\ x \in Nat /\ y \in Nat
        BY <1>1
    <2> QED
        BY <2>1 DEF OpToRel
<1> QED
    BY <1>2

LEMMA MinIs ==
    ASSUME NEW S, S \subseteq Nat, S # {}
    PROVE  Min(S) \in S /\ \A y \in S : Min(S) <= y
    BY LeastExists DEF Min

(* The owner of a document is the one of the nodes the ring names first. *)
LEMMA OwnerIs ==
    ASSUME NEW ids \in SUBSET DataNode, ids # {}, NEW d \in Doc
    PROVE  \E i \in DOMAIN Ring[d] :
               /\ Ring[d][i] = Owner(ids, d) /\ Owner(ids, d) \in ids
               /\ \A j \in DOMAIN Ring[d] : Ring[d][j] \in ids => i <= j
<1> DEFINE Places == {i \in DOMAIN Ring[d] : Ring[d][i] \in ids}
<1>1. Places \subseteq Nat /\ Places # {}
    BY RingAssumption
<1>2. Min(Places) \in Places /\ \A j \in Places : Min(Places) <= j
    <2> HIDE DEF Places
    <2> QED
        BY <1>1, MinIs
<1>3. Owner(ids, d) = Ring[d][Min(Places)]
    BY DEF Owner
<1> QED
    BY <1>2, <1>3

(* A node that joins takes a document over or leaves it where it is. *)
LEMMA OwnerMoves ==
    ASSUME NEW ids \in SUBSET DataNode, ids # {}, NEW n \in DataNode, NEW d \in Doc
    PROVE  Owner(ids \cup {n}, d) \in {Owner(ids, d), n}
<1>1. PICK i \in DOMAIN Ring[d] :
          /\ Ring[d][i] = Owner(ids, d) /\ Owner(ids, d) \in ids
          /\ \A j \in DOMAIN Ring[d] : Ring[d][j] \in ids => i <= j
    BY OwnerIs
<1>2. PICK k \in DOMAIN Ring[d] :
          /\ Ring[d][k] = Owner(ids \cup {n}, d) /\ Owner(ids \cup {n}, d) \in ids \cup {n}
          /\ \A j \in DOMAIN Ring[d] : Ring[d][j] \in ids \cup {n} => k <= j
    <2> DEFINE joined == ids \cup {n}
    <2>1. joined \in SUBSET DataNode /\ joined # {}
        OBVIOUS
    <2> HIDE DEF joined
    <2>2. \E k \in DOMAIN Ring[d] :
              /\ Ring[d][k] = Owner(joined, d) /\ Owner(joined, d) \in joined
              /\ \A j \in DOMAIN Ring[d] : Ring[d][j] \in joined => k <= j
        BY <2>1, OwnerIs
    <2> QED
        BY <2>2 DEF joined
<1>3. CASE Owner(ids \cup {n}, d) = n
    BY <1>3
<1>4. CASE Owner(ids \cup {n}, d) \in ids
    <2>1. i <= k /\ k <= i /\ i \in Nat /\ k \in Nat
        BY <1>1, <1>2, <1>4, RingAssumption
    <2>2. i = k
        BY <2>1
    <2> QED
        BY <1>1, <1>2, <2>2
<1> QED
    BY <1>2, <1>3, <1>4

(* A nonempty bounded set of numbers has a greatest element. *)
LEMMA GreatestExists ==
    ASSUME NEW S, S \subseteq Nat, S # {}, NEW n \in Nat, \A y \in S : y <= n
    PROVE  \E x \in S : \A y \in S : x >= y
<1> DEFINE gaps == {k \in 0..n : n - k \in S}
<1>1. gaps # {} /\ gaps \subseteq Nat
    <2>1. PICK y \in S : TRUE
        OBVIOUS
    <2>2. n - y \in 0..n /\ n - (n - y) = y
        OBVIOUS
    <2> QED
        BY <2>2
<1>2. PICK k \in gaps : \A h \in gaps : k <= h
    <2> HIDE DEF gaps
    <2> QED
        BY <1>1, LeastExists
<1>3. ASSUME NEW y \in S PROVE n - k >= y
    <2>1. n - y \in gaps /\ n - y \in Nat /\ k \in Nat /\ y \in Nat
        OBVIOUS
    <2>2. k <= n - y
        BY <1>2, <2>1
    <2> HIDE DEF gaps
    <2> QED
        BY <2>1, <2>2
<1> QED
    BY <1>2, <1>3

(* One of the places copied from is the last in the order of the nodes. *)
LEMMA LatestIs ==
    ASSUME GatewayTypeOK, NEW g \in GW, NEW P, P \subseteq DOMAIN meta[g], P # {}
    PROVE  Latest(g, P) \in P /\ \A j \in P : ~Precedes(meta[g], Latest(g, P), j)
<1>1. /\ meta[g] \in Seq(NodeInfo) /\ DOMAIN meta[g] = 1..Len(meta[g]) /\ Len(meta[g]) \in Nat
      /\ P \subseteq Nat /\ \A y \in P : y <= Len(meta[g])
      /\ \A i \in P : meta[g][i].role \in NodeRole
    <2>1. meta[g] \in Seq(NodeInfo) /\ DOMAIN meta[g] = 1..Len(meta[g]) /\ Len(meta[g]) \in Nat
        BY DEF GatewayTypeOK
    <2>2. ASSUME NEW i \in P PROVE i \in Nat /\ i <= Len(meta[g]) /\ meta[g][i] \in NodeInfo
        BY <2>1
    <2> QED
        BY <2>1, <2>2 DEF NodeInfo
<1> DEFINE Slaves == {i \in P : meta[g][i].role # "master"}
<1>2. \E x \in P : \A j \in P : ~Precedes(meta[g], x, j)
    <2>1. CASE Slaves = {}
        <3>1. PICK x \in P : \A j \in P : x >= j
            BY <1>1, GreatestExists
        <3>2. ASSUME NEW j \in P PROVE ~Precedes(meta[g], x, j)
            BY <2>1, <3>1, <1>1 DEF Precedes
        <3> QED
            BY <3>2
    <2>2. CASE Slaves # {}
        <3>1. /\ Slaves \subseteq Nat
              /\ \A y \in Slaves : y <= Len(meta[g])
            BY <1>1
        <3>2. PICK x \in Slaves : \A j \in Slaves : x >= j
            <4> HIDE DEF Slaves
            <4> QED
                BY <2>2, <3>1, <1>1, GreatestExists
        <3>3. ASSUME NEW j \in P PROVE ~Precedes(meta[g], x, j)
            BY <3>2, <1>1 DEF Precedes, NodeRole
        <3> QED
            BY <3>2, <3>3
    <2> QED
        BY <2>1, <2>2
<1> QED
    BY <1>2 DEF Latest

-----------------------------------------------------------------------------
(* What the steps do to the nodes                                          *)

Nodes(g) == Ids(meta[g])

LEMMA NodesAre ==
    ASSUME GatewayTypeOK, NEW g \in GW, meta[g] # <<>>
    PROVE  /\ Nodes(g) \in SUBSET DataNode /\ Nodes(g) # {}
           /\ \A d \in Doc : resolve(g, d) \in Nodes(g) /\ resolve(g, d) \in DataNode
<1>1. meta[g] \in Seq(NodeInfo)
    BY DEF GatewayTypeOK
<1>2. Nodes(g) \in SUBSET DataNode /\ Nodes(g) # {}
    <2>1. ASSUME NEW i \in DOMAIN meta[g] PROVE meta[g][i].id \in DataNode
        <3>1. meta[g][i] \in NodeInfo
            BY <1>1
        <3> QED
            BY <3>1 DEF NodeInfo
    <2>2. 1 \in DOMAIN meta[g]
        BY <1>1
    <2> QED
        BY <2>1, <2>2 DEF Nodes, Ids
<1>3. ASSUME NEW d \in Doc PROVE resolve(g, d) \in Nodes(g)
    BY <1>2, OwnerIs DEF resolve, Nodes
<1> QED
    BY <1>2, <1>3

(* A failing call leaves the connections typed and the faults in bounds. *)
LEMMA FailsIs ==
    ASSUME GatewayTypeOK, NEW g \in GW, NEW n \in DataNode, Fails(g, n, TRUE, TRUE)
    PROVE  /\ link' \in [GW -> [DataNode -> Connection]]
           /\ faults' \in 0..setting.faults
<1>1. /\ link \in [GW -> [DataNode -> Connection]] /\ setting.faults \in Nat
      /\ faults \in 0..setting.faults
    BY SettingsAssumption DEF GatewayTypeOK
<1>2. /\ link' = link \/ \E l \in {link[g][n], "late", "down"} : link' = [link EXCEPT ![g][n] = l]
      /\ faults' = faults \/ Happens
    BY DEF Fails
<1>3. link' \in [GW -> [DataNode -> Connection]]
    BY <1>1, <1>2 DEF Connection
<1>4. faults' \in 0..setting.faults
    BY <1>1, <1>2 DEF Happens
<1> QED
    BY <1>3, <1>4

(* So does one whose failure goes unread. *)
LEMMA UnreadIs ==
    ASSUME GatewayTypeOK, NEW g, NEW n, Unread(g, n)
    PROVE  link' \in [GW -> [DataNode -> Connection]] /\ faults' \in 0..setting.faults
    BY SettingsAssumption DEF GatewayTypeOK, Unread, Happens

(* A node that joins comes after the others, and they stay. *)
LEMMA CommitAdds ==
    ASSUME GatewayTypeOK, NEW g \in GW, commit_migration(g)
    PROVE  /\ DOMAIN meta'[g] = 1..(Len(meta[g]) + 1) /\ Len(meta[g]) \in Nat
           /\ DOMAIN meta[g] = 1..Len(meta[g])
           /\ \A i \in DOMAIN meta[g] : meta'[g][i] = meta[g][i]
           /\ meta'[g][Len(meta[g]) + 1] = [id |-> migration[g].node, role |-> migration[g].role]
           /\ Nodes(g)' = Nodes(g) \cup {migration[g].node}
           /\ Nodes(g) \subseteq Nodes(g)'
<1> DEFINE joined == [id |-> migration[g].node, role |-> migration[g].role]
<1>1. meta \in [GW -> Seq(NodeInfo)] /\ meta' = [meta EXCEPT ![g] = Append(meta[g], joined)]
    BY DEF commit_migration, GatewayTypeOK
<1>2. meta[g] \in Seq(NodeInfo) /\ meta'[g] = Append(meta[g], joined)
    BY <1>1
<1>3. /\ DOMAIN meta'[g] = 1..(Len(meta[g]) + 1) /\ Len(meta[g]) \in Nat
      /\ DOMAIN meta[g] = 1..Len(meta[g])
      /\ \A i \in DOMAIN meta[g] : meta'[g][i] = meta[g][i]
      /\ meta'[g][Len(meta[g]) + 1] = joined
    BY <1>2
<1>4. DOMAIN meta'[g] = DOMAIN meta[g] \cup {Len(meta[g]) + 1}
    BY <1>3
<1>5. Nodes(g)' = Nodes(g) \cup {migration[g].node}
    BY <1>3, <1>4 DEF Nodes, Ids
<1> QED
    BY <1>3, <1>5

Shadow(g, d) == IF Migrating(g, d) THEN {migration[g].node} ELSE {}

(* A put reaches the owner, the new node, both or none, and is reported    *)
(* done only when it reached them all, or its document has gone astray.    *)
LEMMA PutIs ==
    ASSUME GatewayTypeOK, NEW g \in GW, NEW d \in Doc, NEW ts \in SUBSET Term,
           meta[g] # <<>>, put(g, d, ts)
    PROVE  /\ link' \in [GW -> [DataNode -> Connection]] /\ faults' \in 0..setting.faults
           /\ Shadow(g, d) \in SUBSET DataNode /\ astray' \in {astray, astray \cup {d}}
           /\ \E S \in SUBSET ({resolve(g, d)} \cup Shadow(g, d)) :
                 /\ Store([n \in S |-> {d}], writes', ts)
                 /\ \/ /\ S = {resolve(g, d)} \cup Shadow(g, d) \/ d \in astray'
                       /\ record_write(g, ts) /\ Acknowledged({d}, writes', ts)
                    \/ UNCHANGED <<cache, counts, acked, indexed>>
<1> DEFINE owner == resolve(g, d)
           Puts(S) == Store([n \in S |-> {d}], writes', ts)
<1>1. owner \in DataNode
    BY NodesAre
<1>2. Shadow(g, d) \in SUBSET DataNode
    BY DEF Shadow, Migrating, Migration, GatewayTypeOK
<1>3. \/ /\ Puts({owner} \cup Shadow(g, d)) /\ UNCHANGED <<link, faults, astray>>
         /\ record_write(g, ts) /\ Acknowledged({d}, writes', ts)
      \/ Fails(g, owner, Puts({}), Puts({owner})) /\ UNCHANGED <<cache, counts, acked, indexed, astray>>
      \/ /\ \E n \in Shadow(g, d) : Fails(g, n, Puts({owner}), Puts({owner, n}))
         /\ UNCHANGED <<cache, counts, acked, indexed, astray>>
      \/ /\ \E n \in {owner} \cup Shadow(g, d) :
               Unread(g, n) /\ Puts(({owner} \cup Shadow(g, d)) \ {n})
         /\ record_write(g, ts) /\ Acknowledged({d}, writes', ts) /\ astray' = astray \cup {d}
    BY Zenon DEF put, Shadow
<1>4. CASE /\ Puts({owner} \cup Shadow(g, d)) /\ UNCHANGED <<link, faults, astray>>
           /\ record_write(g, ts) /\ Acknowledged({d}, writes', ts)
    <2>1. link' \in [GW -> [DataNode -> Connection]] /\ faults' \in 0..setting.faults
        BY <1>4 DEF GatewayTypeOK
    <2>2. astray' \in {astray, astray \cup {d}}
        BY <1>4
    <2> QED
        BY <1>2, <1>4, <2>1, <2>2, Zenon
<1>5. CASE Fails(g, owner, Puts({}), Puts({owner})) /\ UNCHANGED <<cache, counts, acked, indexed, astray>>
    <2> HIDE DEF Puts
    <2>1. Fails(g, owner, TRUE, TRUE) /\ (Puts({}) \/ Puts({owner}))
        BY <1>5, Zenon DEF Fails
    <2>2. link' \in [GW -> [DataNode -> Connection]] /\ faults' \in 0..setting.faults
        BY <1>1, <2>1, FailsIs
    <2>3. \E S \in SUBSET ({owner} \cup Shadow(g, d)) : Puts(S)
        BY <2>1
    <2> QED
        BY <1>2, <1>5, <2>2, <2>3, Zenon DEF Puts
<1>6. CASE /\ \E n \in Shadow(g, d) : Fails(g, n, Puts({owner}), Puts({owner, n}))
           /\ UNCHANGED <<cache, counts, acked, indexed, astray>>
    <2> HIDE DEF Puts
    <2>1. PICK n \in Shadow(g, d) : Fails(g, n, Puts({owner}), Puts({owner, n}))
        BY <1>6
    <2>2. Fails(g, n, TRUE, TRUE) /\ (Puts({owner}) \/ Puts({owner, n}))
        BY <2>1, Zenon DEF Fails
    <2>3. link' \in [GW -> [DataNode -> Connection]] /\ faults' \in 0..setting.faults
        BY <1>2, <2>2, FailsIs
    <2>4. \E S \in SUBSET ({owner} \cup Shadow(g, d)) : Puts(S)
        BY <2>2
    <2> QED
        BY <1>2, <1>6, <2>3, <2>4, Zenon DEF Puts
<1>7. CASE /\ \E n \in {owner} \cup Shadow(g, d) :
                 Unread(g, n) /\ Puts(({owner} \cup Shadow(g, d)) \ {n})
           /\ record_write(g, ts) /\ Acknowledged({d}, writes', ts) /\ astray' = astray \cup {d}
    <2> HIDE DEF Puts
    <2>1. PICK n : Unread(g, n) /\ Puts(({owner} \cup Shadow(g, d)) \ {n})
        BY <1>7
    <2>2. link' \in [GW -> [DataNode -> Connection]] /\ faults' \in 0..setting.faults
        BY <2>1, UnreadIs
    <2>3. \E S \in SUBSET ({owner} \cup Shadow(g, d)) : Puts(S)
        BY <2>1
    <2>4. d \in astray' /\ astray' \in {astray, astray \cup {d}}
        BY <1>7
    <2> QED
        BY <1>2, <1>7, <2>2, <2>3, <2>4, Zenon DEF Puts
<1> QED
    BY <1>3, <1>4, <1>5, <1>6, <1>7

(* A batch reaches the owners of some documents, and is reported done only *)
(* when it reached them all, or those it did not reach have gone astray.   *)
LEMMA BatchIs ==
    ASSUME GatewayTypeOK, NEW g \in GW, NEW ts \in SUBSET Term, meta[g] # <<>>, put_batch(g, ts)
    PROVE  /\ link' \in [GW -> [DataNode -> Connection]] /\ faults' \in 0..setting.faults
           /\ astray \subseteq astray' /\ astray' \subseteq astray \cup Doc
           /\ \E S \in SUBSET {resolve(g, d) : d \in Doc} :
                 /\ Store([n \in S |-> {d \in Doc : resolve(g, d) = n}], writes', ts)
                 /\ \/ /\ \A d \in Doc : resolve(g, d) \in S \/ d \in astray'
                       /\ Acknowledged(Doc, writes', ts)
                    \/ UNCHANGED <<acked, indexed>>
<1> DEFINE owners == {resolve(g, d) : d \in Doc}
           Puts(S) == Store([n \in S |-> {d \in Doc : resolve(g, d) = n}], writes', ts)
<1>1. owners \subseteq DataNode
    BY NodesAre
<1>2. \/ Puts(owners) /\ UNCHANGED <<link, faults, astray>> /\ Acknowledged(Doc, writes', ts)
      \/ /\ \E n \in owners : \E before \in SUBSET (owners \ {n}) :
               Fails(g, n, Puts(before), Puts(before \cup {n}))
         /\ UNCHANGED <<acked, indexed, astray>>
      \/ /\ \E n \in owners :
               /\ Unread(g, n) /\ Puts(owners \ {n})
               /\ astray' = astray \cup {d \in Doc : resolve(g, d) = n}
         /\ Acknowledged(Doc, writes', ts)
    BY Zenon DEF put_batch
<1>3. CASE Puts(owners) /\ UNCHANGED <<link, faults, astray>> /\ Acknowledged(Doc, writes', ts)
    <2>1. link' \in [GW -> [DataNode -> Connection]] /\ faults' \in 0..setting.faults
        BY <1>3 DEF GatewayTypeOK
    <2>2. /\ owners \in SUBSET owners /\ \A d \in Doc : resolve(g, d) \in owners
          /\ astray \subseteq astray' /\ astray' \subseteq astray \cup Doc
        BY <1>3
    <2> QED
        BY <1>3, <2>1, <2>2, Zenon
<1>4. CASE /\ \E n \in owners : \E before \in SUBSET (owners \ {n}) :
                 Fails(g, n, Puts(before), Puts(before \cup {n}))
           /\ UNCHANGED <<acked, indexed, astray>>
    <2> HIDE DEF Puts
    <2>1. PICK n \in owners, before \in SUBSET owners :
              Fails(g, n, Puts(before), Puts(before \cup {n}))
        BY <1>4
    <2>2. Fails(g, n, TRUE, TRUE) /\ (Puts(before) \/ Puts(before \cup {n}))
        BY <2>1, Zenon DEF Fails
    <2>3. link' \in [GW -> [DataNode -> Connection]] /\ faults' \in 0..setting.faults
        BY <1>1, <2>2, FailsIs
    <2>4. before \in SUBSET owners /\ before \cup {n} \in SUBSET owners
        BY <2>1
    <2>5. astray \subseteq astray' /\ astray' \subseteq astray \cup Doc
        BY <1>4
    <2> QED
        BY <1>4, <2>2, <2>3, <2>4, <2>5, Zenon DEF Puts
<1>5. CASE /\ \E n \in owners :
                 /\ Unread(g, n) /\ Puts(owners \ {n})
                 /\ astray' = astray \cup {d \in Doc : resolve(g, d) = n}
           /\ Acknowledged(Doc, writes', ts)
    <2> HIDE DEF Puts
    <2>1. PICK n : /\ Unread(g, n) /\ Puts(owners \ {n})
                   /\ astray' = astray \cup {d \in Doc : resolve(g, d) = n}
        BY <1>5
    <2>2. link' \in [GW -> [DataNode -> Connection]] /\ faults' \in 0..setting.faults
        BY <2>1, UnreadIs
    <2>3. owners \ {n} \in SUBSET owners /\ \A d \in Doc : resolve(g, d) \in owners \ {n} \/ d \in astray'
        BY <2>1
    <2>4. astray \subseteq astray' /\ astray' \subseteq astray \cup Doc
        BY <2>1
    <2> QED
        BY <1>5, <2>1, <2>2, <2>3, <2>4, Zenon DEF Puts
<1> QED
    BY <1>2, <1>3, <1>4, <1>5

(* A copy that is counted as done has taken every row there was, but for   *)
(* those of documents that have gone astray.                               *)
LEMMA CatchUpIs ==
    ASSUME GatewayTypeOK, NEW g \in GW, catch_up(g)
    PROVE  /\ link' \in [GW -> [DataNode -> Connection]] /\ faults' \in 0..setting.faults
           /\ astray \subseteq astray' /\ astray' \subseteq astray \cup Doc
           /\ \E C \in SUBSET Copies(g) :
                 /\ Copied(g, C)
                 /\ \/ /\ \A c \in Copies(g) \ C : c[2] \in astray'
                       /\ migration' = [migration EXCEPT ![g].copied = TRUE]
                    \/ migration' = [migration EXCEPT ![g].copied = FALSE]
<1> DEFINE nodes == meta[g]
           new == migration[g].node
           sources == {i \in DOMAIN nodes : nodes[i].id # new}
           earlier(i) == {j \in sources : Precedes(nodes, j, i)}
           rows(U) == Copies(g) \ U
           of(U, I) == {c \in rows(U) : c[1] \in I}
           upto(U, c) == of(U, earlier(c[1])) \cup {b \in of(U, {c[1]}) : b[2] < c[2]}
           made(C) == Copied(g, C) /\ astray' = astray \cup {c[2] : c \in Copies(g) \ C}
           whole == migration' = [migration EXCEPT ![g].copied = TRUE]
           part == migration' = [migration EXCEPT ![g].copied = FALSE]
<1>1. migration[g] \in Migration /\ new \in DataNode
    BY DEF catch_up, GatewayTypeOK, Migration
<1>2. ASSUME NEW i \in sources PROVE nodes[i].id \in DataNode
    <2>1. nodes[i] \in NodeInfo
        BY DEF GatewayTypeOK
    <2> QED
        BY <2>1 DEF NodeInfo
<1>3. ASSUME NEW U, NEW I, NEW c \in rows(U)
      PROVE  /\ of(U, I) \in SUBSET Copies(g) /\ upto(U, c) \in SUBSET Copies(g)
             /\ upto(U, c) \cup {c} \in SUBSET Copies(g)
    <2> HIDE DEF Copies
    <2> QED
        OBVIOUS
<1>4. \E U :
         \/ /\ \/ made(rows(U)) /\ UNCHANGED <<link, faults>>
               \/ \E c \in rows(U) : Unread(g, new) /\ made(rows(U) \ {c})
            /\ whole
         \/ /\ \E i \in sources :
                  Fails(g, nodes[i].id, Copied(g, of(U, earlier(i))), Copied(g, of(U, earlier(i))))
            /\ UNCHANGED astray /\ part
         \/ /\ \E c \in rows(U) :
                  Fails(g, new, Copied(g, upto(U, c)), Copied(g, upto(U, c) \cup {c}))
            /\ UNCHANGED astray /\ part
    BY Zenon DEF catch_up
<1>5. PICK U :
         \/ /\ \/ made(rows(U)) /\ UNCHANGED <<link, faults>>
               \/ \E c \in rows(U) : Unread(g, new) /\ made(rows(U) \ {c})
            /\ whole
         \/ /\ \E i \in sources :
                  Fails(g, nodes[i].id, Copied(g, of(U, earlier(i))), Copied(g, of(U, earlier(i))))
            /\ UNCHANGED astray /\ part
         \/ /\ \E c \in rows(U) :
                  Fails(g, new, Copied(g, upto(U, c)), Copied(g, upto(U, c) \cup {c}))
            /\ UNCHANGED astray /\ part
    BY <1>4
<1>6. ASSUME NEW C \in SUBSET Copies(g), made(C)
      PROVE  /\ astray \subseteq astray' /\ astray' \subseteq astray \cup Doc
             /\ \A c \in Copies(g) \ C : c[2] \in astray'
    <2>1. \A c \in Copies(g) : c[2] \in Doc
        BY <1>1 DEF Copies, Migration
    <2> HIDE DEF Copies
    <2> QED
        BY <1>6, <2>1
<1>7. rows(U) \in SUBSET Copies(g) /\ \A c : rows(U) \ {c} \in SUBSET Copies(g)
    BY DEF rows
<1> HIDE DEF new, sources, of, upto, rows
<1>8. CASE /\ \/ made(rows(U)) /\ UNCHANGED <<link, faults>>
              \/ \E c \in rows(U) : Unread(g, new) /\ made(rows(U) \ {c})
           /\ whole
    <2> HIDE DEF made, whole
    <2>1. PICK C \in SUBSET Copies(g) :
              made(C) /\ (UNCHANGED <<link, faults>> \/ Unread(g, new)) /\ whole
        BY <1>7, <1>8
    <2>2. link' \in [GW -> [DataNode -> Connection]] /\ faults' \in 0..setting.faults
        BY <2>1, UnreadIs DEF GatewayTypeOK
    <2>3. /\ astray \subseteq astray' /\ astray' \subseteq astray \cup Doc
          /\ \A c \in Copies(g) \ C : c[2] \in astray'
        BY <1>6, <2>1
    <2> QED
        BY <2>1, <2>2, <2>3, Zenon DEF made, whole
<1>9. CASE /\ \E i \in sources :
                 Fails(g, nodes[i].id, Copied(g, of(U, earlier(i))), Copied(g, of(U, earlier(i))))
           /\ UNCHANGED astray /\ part
    <2>1. PICK i \in sources :
              Fails(g, nodes[i].id, Copied(g, of(U, earlier(i))), Copied(g, of(U, earlier(i))))
        BY <1>9
    <2>2. Fails(g, nodes[i].id, TRUE, TRUE) /\ Copied(g, of(U, earlier(i)))
        BY <2>1, Zenon DEF Fails
    <2>3. link' \in [GW -> [DataNode -> Connection]] /\ faults' \in 0..setting.faults
        BY <1>2, <2>2, FailsIs
    <2>4. of(U, earlier(i)) \in SUBSET Copies(g)
        BY DEF of, rows
    <2>5. astray \subseteq astray' /\ astray' \subseteq astray \cup Doc
        BY <1>9
    <2> QED
        BY <1>9, <2>2, <2>3, <2>4, <2>5, Zenon
<1>10. CASE /\ \E c \in rows(U) :
                  Fails(g, new, Copied(g, upto(U, c)), Copied(g, upto(U, c) \cup {c}))
            /\ UNCHANGED astray /\ part
    <2>1. PICK c \in rows(U) : Fails(g, new, Copied(g, upto(U, c)), Copied(g, upto(U, c) \cup {c}))
        BY <1>10
    <2>2. Fails(g, new, TRUE, TRUE) /\ (Copied(g, upto(U, c)) \/ Copied(g, upto(U, c) \cup {c}))
        BY <2>1, Zenon DEF Fails
    <2>3. link' \in [GW -> [DataNode -> Connection]] /\ faults' \in 0..setting.faults
        BY <1>1, <2>2, FailsIs
    <2>4. astray \subseteq astray' /\ astray' \subseteq astray \cup Doc
        BY <1>10
    <2>5. upto(U, c) \in SUBSET Copies(g) /\ upto(U, c) \cup {c} \in SUBSET Copies(g)
        BY <1>3
    <2> QED
        BY <1>10, <2>2, <2>3, <2>4, <2>5, Zenon
<1> QED
    BY <1>5, <1>8, <1>9, <1>10

(* The nodes that answered a search are cached with what they hold. *)
LEMMA SearchIs ==
    ASSUME GatewayTypeOK, NEW g \in GW, NEW t \in Term, broadcast_search(g, t)
    PROVE  /\ link' \in [GW -> [DataNode -> Connection]] /\ faults' \in 0..setting.faults
           /\ UNCHANGED nodeVars
           /\ \E I \in SUBSET DOMAIN meta[g] : Caches(g, t, I)
<1> DEFINE nodes == meta[g]
           asked == {i \in DOMAIN nodes : Cached(g, nodes[i].id, t) = {}}
           before(i) == {j \in asked : Precedes(nodes, j, i)}
<1>1. \/ Caches(g, t, asked) /\ UNCHANGED <<link, faults, nodeVars>>
      \/ \E i \in asked : ReadFails(g, nodes[i].id) /\ Caches(g, t, before(i))
    BY Zenon DEF broadcast_search
<1>2. asked \in SUBSET DOMAIN meta[g]
    OBVIOUS
<1>3. CASE Caches(g, t, asked) /\ UNCHANGED <<link, faults, nodeVars>>
    <2>1. link' \in [GW -> [DataNode -> Connection]] /\ faults' \in 0..setting.faults
        BY <1>3 DEF GatewayTypeOK
    <2> QED
        BY <1>2, <1>3, <2>1, Zenon
<1>4. CASE \E i \in asked : ReadFails(g, nodes[i].id) /\ Caches(g, t, before(i))
    <2>1. PICK i \in asked : ReadFails(g, nodes[i].id) /\ Caches(g, t, before(i))
        BY <1>4, Zenon
    <2>2. Fails(g, nodes[i].id, TRUE, TRUE) /\ UNCHANGED nodeVars
        BY <2>1, Zenon DEF Fails, ReadFails
    <2>3. nodes[i].id \in DataNode
        <3>1. nodes[i] \in NodeInfo
            BY DEF GatewayTypeOK
        <3> QED
            BY <3>1 DEF NodeInfo
    <2>4. link' \in [GW -> [DataNode -> Connection]] /\ faults' \in 0..setting.faults
        BY <2>2, <2>3, FailsIs
    <2>5. before(i) \in SUBSET DOMAIN meta[g]
        OBVIOUS
    <2> QED
        BY <2>1, <2>2, <2>4, <2>5, Zenon
<1> QED
    BY <1>1, <1>3, <1>4

-----------------------------------------------------------------------------
(* Types                                                                   *)

(* The cache's part of the types. *)
CacheTypeOK ==
    /\ cache \in [GW -> SUBSET Chunk]
    /\ \A g \in GW : IsFiniteSet(cache[g]) /\ Cardinality(cache[g]) <= CacheSize

LEMMA StoreIs ==
    ASSUME GatewayTypeOK, NEW given, NEW ts, Store(given, writes', ts), writes' \in 0..MaxWrites
    PROVE  /\ docs' \in [DataNode -> [Doc -> 0..MaxWrites]]
           /\ posts' \in [DataNode -> [Term -> SUBSET Doc]]
<1>1. ASSUME NEW n \in DataNode, NEW d \in Doc PROVE docs[n][d] \in 0..MaxWrites
    BY DEF GatewayTypeOK
<1>2. ASSUME NEW n \in DataNode, NEW t \in Term PROVE posts[n][t] \subseteq Doc
    BY DEF GatewayTypeOK
<1> QED
    BY <1>1, <1>2 DEF Store

CopyPlaces(g, C, d) == {i \in DOMAIN meta[g] : <<i, d>> \in C}

(* The new node's rows after copies, and their types. *)
LEMMA CopiedIs ==
    ASSUME GatewayTypeOK, NEW g \in GW, migration[g] # NoMigration,
           NEW C \in SUBSET Copies(g), Copied(g, C)
    PROVE  /\ docs' \in [DataNode -> [Doc -> 0..MaxWrites]]
           /\ posts' \in [DataNode -> [Term -> SUBSET Doc]]
           /\ \A n \in DataNode, d \in Doc :
                 docs'[n][d] = IF n # migration[g].node \/ CopyPlaces(g, C, d) = {} THEN docs[n][d]
                               ELSE docs[meta[g][Latest(g, CopyPlaces(g, C, d))].id][d]
           /\ \A n \in DataNode, t \in Term : posts[n][t] \subseteq posts'[n][t]
<1> DEFINE row(i, d) == docs[meta[g][i].id][d]
           new == migration[g].node
<1>1. migration[g] \in Migration /\ new \in DataNode
    BY DEF GatewayTypeOK, Migration
<1>2. ASSUME NEW i \in DOMAIN meta[g], NEW d \in Doc PROVE row(i, d) \in 0..MaxWrites
    <2>1. meta[g][i].id \in DataNode
        <3>1. meta[g][i] \in NodeInfo
            BY DEF GatewayTypeOK
        <3> QED
            BY <3>1 DEF NodeInfo
    <2> QED
        BY <2>1 DEF GatewayTypeOK
<1>3. ASSUME NEW d \in Doc, CopyPlaces(g, C, d) # {}
      PROVE  Latest(g, CopyPlaces(g, C, d)) \in DOMAIN meta[g]
    <2>1. CopyPlaces(g, C, d) \subseteq DOMAIN meta[g]
        BY DEF CopyPlaces
    <2> QED
        BY <1>3, <2>1, LatestIs
<1>4. /\ docs' = [docs EXCEPT ![new] = [d \in Doc |->
                IF CopyPlaces(g, C, d) = {} THEN docs[new][d] ELSE row(Latest(g, CopyPlaces(g, C, d)), d)]]
      /\ posts' = [posts EXCEPT ![new] = [t \in Term |->
                posts[new][t] \cup {d \in Doc : \E i \in CopyPlaces(g, C, d) : t \in terms[row(i, d)]}]]
    BY DEF Copied, CopyPlaces
<1>5. docs \in [DataNode -> [Doc -> 0..MaxWrites]] /\ posts \in [DataNode -> [Term -> SUBSET Doc]]
    BY DEF GatewayTypeOK
<1> HIDE DEF new, row
<1>6. docs' \in [DataNode -> [Doc -> 0..MaxWrites]]
    <2>1. [d \in Doc |-> IF CopyPlaces(g, C, d) = {} THEN docs[new][d]
                         ELSE row(Latest(g, CopyPlaces(g, C, d)), d)] \in [Doc -> 0..MaxWrites]
        BY <1>1, <1>2, <1>3, <1>5
    <2> QED
        BY <1>4, <1>5, <2>1
<1>7. posts' \in [DataNode -> [Term -> SUBSET Doc]]
    BY <1>1, <1>4, <1>5
<1>8. ASSUME NEW n \in DataNode, NEW d \in Doc
      PROVE  docs'[n][d] = IF n # new \/ CopyPlaces(g, C, d) = {} THEN docs[n][d]
                           ELSE row(Latest(g, CopyPlaces(g, C, d)), d)
    BY <1>4, <1>5
<1>9. \A n \in DataNode, t \in Term : posts[n][t] \subseteq posts'[n][t]
    BY <1>4, <1>5
<1> QED
    BY <1>6, <1>7, <1>8, <1>9 DEF new, row

(* The image of a finite set is finite and no larger. *)
LEMMA ImageIs ==
    ASSUME NEW S, NEW f, f = [x \in S |-> f[x]], IsFiniteSet(S)
    PROVE  IsFiniteSet({f[x] : x \in S}) /\ Cardinality({f[x] : x \in S}) <= Cardinality(S)
<1> DEFINE T == {f[x] : x \in S}
<1>1. f \in Surjection(S, T)
    BY DEF Surjection
<1> HIDE DEF T
<1>2. IsFiniteSet(T) /\ Cardinality(T) <= Cardinality(S)
    BY <1>1, FS_Surjection
<1> QED
    BY <1>2 DEF T

(* What a search leaves in the cache was there or is fresh. *)
LEMMA CachesIs ==
    ASSUME GatewayTypeOK, NEW g \in GW, NEW t \in Term, NEW I \in SUBSET DOMAIN meta[g],
           Caches(g, t, I)
    PROVE  /\ CacheTypeOK'
           /\ \A h \in GW \ {g} : cache'[h] = cache[h]
           /\ \A c \in cache'[g] :
                 c \in cache[g] \/ (c.term = t /\ c.age = 0 /\ (c.own => c.docs = posts[c.node][t]))
<1>0. PICK answer \in [I -> SUBSET Doc] :
        LET id(i) == meta[g][i].id
            full == cache[g] \cup {[node |-> id(i), term |-> t, age |-> 0, docs |-> answer[i],
                                    own |-> link[g][id(i)] # "late"] : i \in I}
        IN  /\ \A i \in I : answer[i] \in Answers(g, id(i), t)
            /\ \E left \in SUBSET full :
                  /\ Cardinality(left) = Min({CacheSize, Cardinality(full)})
                  /\ cache' = [cache EXCEPT ![g] = left]
    BY DEF Caches
<1> DEFINE chunk(i) == [node |-> meta[g][i].id, term |-> t, age |-> 0, docs |-> answer[i],
                        own |-> link[g][meta[g][i].id] # "late"]
           fresh == {chunk(i) : i \in I}
           full == cache[g] \cup fresh
<1>1. /\ cache \in [GW -> SUBSET Chunk] /\ \A h \in GW : IsFiniteSet(cache[h]) /\ Cardinality(cache[h]) <= CacheSize
      /\ meta[g] \in Seq(NodeInfo)
    BY DEF GatewayTypeOK
<1>2. ASSUME NEW i \in I PROVE chunk(i) \in Chunk
    <2>1. meta[g][i] \in NodeInfo
        BY <1>1
    <2>2. /\ meta[g][i].id \in DataNode /\ answer[i] \in SUBSET Doc
          /\ (link[g][meta[g][i].id] # "late") \in BOOLEAN
        BY <1>0, <2>1 DEF NodeInfo
    <2>3. 0 \in 0..Ttl - 1
        BY BoundsAssumption
    <2> QED
        BY <2>2, <2>3 DEF Chunk
<1>3. IsFiniteSet(full)
    <2>1. IsFiniteSet(DOMAIN meta[g])
        <3>1. DOMAIN meta[g] = 1..Len(meta[g]) /\ Len(meta[g]) \in Nat
            BY <1>1
        <3> QED
            BY <3>1, FS_Interval
    <2>2. IsFiniteSet(I)
        BY <2>1, FS_Subset
    <2>3. IsFiniteSet(fresh)
        <3> DEFINE f == [i \in I |-> chunk(i)]
        <3>1. fresh = {f[i] : i \in I} /\ f = [i \in I |-> f[i]]
            OBVIOUS
        <3> HIDE DEF f, fresh
        <3> QED
            BY <2>2, <3>1, ImageIs
    <2> QED
        BY <1>1, <2>3, FS_Union
<1>4. PICK left \in SUBSET full :
          /\ Cardinality(left) = Min({CacheSize, Cardinality(full)})
          /\ cache' = [cache EXCEPT ![g] = left]
    BY <1>0
<1>5. left \subseteq Chunk
    BY <1>1, <1>2
<1>6. IsFiniteSet(left) /\ Cardinality(left) <= CacheSize
    <2>1. IsFiniteSet(left) /\ Cardinality(full) \in Nat /\ CacheSize \in Nat
        BY <1>3, FS_Subset, FS_CardinalityType, BoundsAssumption
    <2>2. Min({CacheSize, Cardinality(full)}) <= CacheSize
        <3> DEFINE both == {CacheSize, Cardinality(full)}
        <3>1. both \subseteq Nat /\ both # {} /\ CacheSize \in both
            BY <2>1
        <3> HIDE DEF both
        <3>2. Min(both) <= CacheSize
            BY <3>1, MinIs
        <3> QED
            BY <3>2 DEF both
    <2> QED
        BY <1>4, <2>1, <2>2
<1>7. CacheTypeOK'
    BY <1>1, <1>4, <1>5, <1>6 DEF CacheTypeOK
<1>8. cache'[g] = left /\ \A h \in GW \ {g} : cache'[h] = cache[h]
    BY <1>1, <1>4
<1>9. ASSUME NEW c \in left
      PROVE  c \in cache[g] \/ (c.term = t /\ c.age = 0 /\ (c.own => c.docs = posts[c.node][t]))
    <2>1. CASE c \in cache[g]
        BY <2>1
    <2>2. ASSUME NEW i \in I, c = chunk(i)
          PROVE  c.term = t /\ c.age = 0 /\ (c.own => c.docs = posts[c.node][t])
        <3>1. /\ c.term = t /\ c.age = 0 /\ c.node = meta[g][i].id /\ c.docs = answer[i]
              /\ c.own = (link[g][meta[g][i].id] # "late")
            BY <2>2
        <3>2. answer[i] \in Answers(g, meta[g][i].id, t)
            BY <1>0
        <3>3. link[g][meta[g][i].id] # "late" => answer[i] = posts[meta[g][i].id][t]
            BY <3>2 DEF Answers
        <3> HIDE DEF chunk
        <3> QED
            BY <3>1, <3>3
    <2>3. c \in cache[g] \/ \E i \in I : c = chunk(i)
        BY <1>4
    <2> QED
        BY <2>1, <2>2, <2>3
<1> QED
    BY <1>7, <1>8, <1>9

(* The gateways know a node. *)
Rooted == \A g \in GW : meta[g] # <<>>

LEMMA AcknowledgedIs ==
    ASSUME GatewayTypeOK, NEW D \in SUBSET Doc, NEW ts \in SUBSET Term, writes' \in 1..MaxWrites,
           Acknowledged(D, writes', ts)
    PROVE  acked' \in [Doc -> 0..MaxWrites] /\ indexed' \in [Doc -> [Term -> 0..Never]]
<1>1. Never \in Nat
    BY BoundsAssumption DEF Never
<1>2. ASSUME NEW d \in Doc PROVE (IF d \in D THEN writes' ELSE acked[d]) \in 0..MaxWrites
    BY BoundsAssumption DEF GatewayTypeOK
<1>3. ASSUME NEW d \in Doc, NEW t \in Term
      PROVE  (IF t \in ts /\ d \in D /\ indexed[d][t] = Never THEN 0 ELSE indexed[d][t]) \in 0..Never
    BY <1>1 DEF GatewayTypeOK
<1> QED
    BY <1>2, <1>3 DEF Acknowledged

LEMMA RecordIs ==
    ASSUME GatewayTypeOK, NEW g \in GW, NEW ts \in SUBSET Term, record_write(g, ts)
    PROVE  CacheTypeOK' /\ counts' \in [GW -> [Term -> [n : 0..Threshold, age : 0..Window]]]
<1> DEFINE over == {t \in ts : counts[g][t].n + 1 > Threshold}
           kept == {c \in cache[g] : c.term \notin over}
           Count == [n : 0..Threshold, age : 0..Window]
           next(t) == IF t \in over THEN [n |-> 0, age |-> 0]
                      ELSE IF t \notin ts THEN counts[g][t] ELSE [counts[g][t] EXCEPT !.n = @ + 1]
<1>1. cache' = [cache EXCEPT ![g] = kept] /\ counts' = [counts EXCEPT ![g] = [t \in Term |-> next(t)]]
    BY DEF record_write
<1>2. IsFiniteSet(kept) /\ Cardinality(kept) <= CacheSize /\ kept \subseteq Chunk
    <2>1. /\ kept \subseteq cache[g] /\ cache[g] \subseteq Chunk /\ IsFiniteSet(cache[g])
          /\ Cardinality(cache[g]) <= CacheSize
        BY DEF GatewayTypeOK
    <2> HIDE DEF kept
    <2>2. IsFiniteSet(kept) /\ Cardinality(kept) <= Cardinality(cache[g])
        BY <2>1, FS_Subset
    <2>3. Cardinality(kept) \in Nat /\ Cardinality(cache[g]) \in Nat /\ CacheSize \in Nat
        BY <2>1, <2>2, FS_CardinalityType, BoundsAssumption
    <2> QED
        BY <2>1, <2>2, <2>3
<1>3. CacheTypeOK'
    <2> HIDE DEF kept
    <2> QED
        BY <1>1, <1>2 DEF CacheTypeOK, GatewayTypeOK
<1>4. ASSUME NEW t \in Term PROVE next(t) \in Count
    <2>1. counts[g][t] \in Count
        BY DEF GatewayTypeOK
    <2>2. 0 \in 0..Threshold /\ 0 \in 0..Window
        BY BoundsAssumption
    <2>3. CASE t \in ts \ over
        <3>1. counts[g][t].n \in 0..Threshold /\ ~(counts[g][t].n + 1 > Threshold)
            BY <2>1, <2>3
        <3>2. counts[g][t].n + 1 \in 0..Threshold
            BY <3>1, BoundsAssumption
        <3> QED
            BY <2>1, <2>3, <3>2
    <2> QED
        BY <2>1, <2>2, <2>3
<1>5. counts' \in [GW -> [Term -> Count]]
    <2> HIDE DEF next, Count
    <2>1. counts \in [GW -> [Term -> Count]]
        BY DEF GatewayTypeOK, Count
    <2> QED
        BY <1>1, <1>4, <2>1
<1> QED
    BY <1>3, <1>5

LEMMA PutTyped ==
    ASSUME GatewayTypeOK, Rooted, NEW g \in GW, NEW d \in Doc, NEW ts \in SUBSET Term, put(g, d, ts)
    PROVE  GatewayTypeOK'
<1>1. meta[g] # <<>>
    BY DEF Rooted
<1>2. /\ link' \in [GW -> [DataNode -> Connection]] /\ faults' \in 0..setting.faults
      /\ astray' \in {astray, astray \cup {d}}
      /\ \E S \in SUBSET ({resolve(g, d)} \cup Shadow(g, d)) :
                 /\ Store([n \in S |-> {d}], writes', ts)
                 /\ \/ /\ S = {resolve(g, d)} \cup Shadow(g, d) \/ d \in astray'
                       /\ record_write(g, ts) /\ Acknowledged({d}, writes', ts)
                    \/ UNCHANGED <<cache, counts, acked, indexed>>
    BY <1>1, PutIs
<1>3. PICK S : /\ Store([n \in S |-> {d}], writes', ts)
               /\ \/ record_write(g, ts) /\ Acknowledged({d}, writes', ts)
                  \/ UNCHANGED <<cache, counts, acked, indexed>>
    BY <1>2
<1>4. writes' \in 0..setting.writes /\ writes' \in 1..MaxWrites
    BY SettingsAssumption, BoundsAssumption DEF put, GatewayTypeOK
<1>5. /\ docs' \in [DataNode -> [Doc -> 0..MaxWrites]]
      /\ posts' \in [DataNode -> [Term -> SUBSET Doc]]
    <2> DEFINE given == [n \in S |-> {d}]
    <2>1. Store(given, writes', ts)
        BY <1>3
    <2> HIDE DEF given
    <2> QED
        BY <1>4, <2>1, StoreIs
<1>6. terms' \in [Write -> SUBSET Term]
    BY <1>4 DEF put, GatewayTypeOK
<1>7. acked' \in [Doc -> 0..MaxWrites] /\ indexed' \in [Doc -> [Term -> 0..Never]]
    BY <1>3, <1>4, AcknowledgedIs DEF GatewayTypeOK
<1>8. CacheTypeOK' /\ counts' \in [GW -> [Term -> [n : 0..Threshold, age : 0..Window]]]
    BY <1>3, RecordIs DEF GatewayTypeOK, CacheTypeOK
<1>9. UNCHANGED <<setting, meta, migration, moves>> /\ astray' \subseteq Doc
    BY <1>2 DEF put, GatewayTypeOK
<1> QED
    BY <1>2, <1>4, <1>5, <1>6, <1>7, <1>8, <1>9 DEF GatewayTypeOK, CacheTypeOK

LEMMA BatchTyped ==
    ASSUME GatewayTypeOK, Rooted, NEW g \in GW, NEW ts \in SUBSET Term, put_batch(g, ts)
    PROVE  GatewayTypeOK'
<1>1. meta[g] # <<>>
    BY DEF Rooted
<1>2. /\ link' \in [GW -> [DataNode -> Connection]] /\ faults' \in 0..setting.faults
      /\ astray' \subseteq astray \cup Doc
      /\ \E S \in SUBSET {resolve(g, d) : d \in Doc} :
            /\ Store([n \in S |-> {d \in Doc : resolve(g, d) = n}], writes', ts)
            /\ \/ /\ \A d \in Doc : resolve(g, d) \in S \/ d \in astray'
                  /\ Acknowledged(Doc, writes', ts)
               \/ UNCHANGED <<acked, indexed>>
    BY <1>1, BatchIs
<1>3. PICK given : /\ Store(given, writes', ts)
                   /\ Acknowledged(Doc, writes', ts) \/ UNCHANGED <<acked, indexed>>
    BY <1>2, Zenon
<1>4. writes' \in 0..setting.writes /\ writes' \in 1..MaxWrites
    BY SettingsAssumption, BoundsAssumption DEF put_batch, GatewayTypeOK
<1>5. /\ docs' \in [DataNode -> [Doc -> 0..MaxWrites]]
      /\ posts' \in [DataNode -> [Term -> SUBSET Doc]]
    BY <1>3, <1>4, StoreIs
<1>6. terms' \in [Write -> SUBSET Term]
    BY <1>4 DEF put_batch, GatewayTypeOK
<1>7. acked' \in [Doc -> 0..MaxWrites] /\ indexed' \in [Doc -> [Term -> 0..Never]]
    BY <1>3, <1>4, AcknowledgedIs DEF GatewayTypeOK
<1>8. UNCHANGED <<setting, meta, migration, cache, counts, moves>> /\ astray' \subseteq Doc
    BY <1>2 DEF put_batch, GatewayTypeOK
<1> QED
    BY <1>2, <1>4, <1>5, <1>6, <1>7, <1>8 DEF GatewayTypeOK

LEMMA SearchTyped ==
    ASSUME GatewayTypeOK, NEW g \in GW, NEW t \in Term, broadcast_search(g, t)
    PROVE  GatewayTypeOK'
<1>1. /\ link' \in [GW -> [DataNode -> Connection]] /\ faults' \in 0..setting.faults
      /\ UNCHANGED nodeVars
      /\ \E I \in SUBSET DOMAIN meta[g] : Caches(g, t, I)
    BY SearchIs
<1>2. CacheTypeOK'
    BY <1>1, CachesIs
<1>3. UNCHANGED <<setting, meta, migration, counts, histVars, moves>>
    BY DEF broadcast_search
<1> QED
    BY <1>1, <1>2, <1>3 DEF GatewayTypeOK, CacheTypeOK, histVars, nodeVars

LEMMA GetTyped ==
    ASSUME GatewayTypeOK, Rooted, NEW g \in GW, NEW d \in Doc, get(g, d)
    PROVE  GatewayTypeOK' /\ UNCHANGED nodeVars
<1>1. resolve(g, d) \in DataNode
    BY NodesAre DEF Rooted
<1>2. Fails(g, resolve(g, d), TRUE, TRUE) /\ UNCHANGED nodeVars
    BY Zenon DEF get, ReadFails, Fails
<1>3. link' \in [GW -> [DataNode -> Connection]] /\ faults' \in 0..setting.faults
    BY <1>1, <1>2, FailsIs
<1>4. UNCHANGED <<setting, meta, migration, cache, counts, histVars, moves>>
    BY DEF get
<1> QED
    BY <1>2, <1>3, <1>4 DEF GatewayTypeOK, histVars, nodeVars

LEMMA TimeTyped ==
    ASSUME GatewayTypeOK, TimePasses
    PROVE  GatewayTypeOK'
<1> DEFINE kept(g) == {c \in cache[g] : c.age + 1 < Ttl}
           aged(g) == {[c EXCEPT !.age = @ + 1] : c \in kept(g)}
<1>1. cache' = [g \in GW |-> aged(g)]
    BY DEF TimePasses
<1>2. ASSUME NEW g \in GW
      PROVE  aged(g) \subseteq Chunk /\ IsFiniteSet(aged(g)) /\ Cardinality(aged(g)) <= CacheSize
    <2>1. /\ cache[g] \subseteq Chunk /\ IsFiniteSet(cache[g]) /\ Cardinality(cache[g]) <= CacheSize
          /\ CacheSize \in Nat
        BY BoundsAssumption DEF GatewayTypeOK
    <2>2. ASSUME NEW c \in kept(g) PROVE [c EXCEPT !.age = @ + 1] \in Chunk
        <3>1. c \in Chunk /\ c.age + 1 < Ttl
            BY <2>1
        <3>2. c.age + 1 \in 0..Ttl - 1
            BY <3>1, BoundsAssumption DEF Chunk
        <3> QED
            BY <3>1, <3>2 DEF Chunk
    <2>3. IsFiniteSet(kept(g)) /\ Cardinality(kept(g)) <= Cardinality(cache[g])
        BY <2>1, FS_Subset
    <2>4. IsFiniteSet(aged(g)) /\ Cardinality(aged(g)) <= Cardinality(kept(g))
        <3> DEFINE S == kept(g)
                   f == [c \in S |-> [c EXCEPT !.age = @ + 1]]
        <3>1. aged(g) = {f[c] : c \in S} /\ f = [c \in S |-> f[c]]
            OBVIOUS
        <3>2. IsFiniteSet(S)
            BY <2>3
        <3> HIDE DEF f, S
        <3>3. IsFiniteSet({f[c] : c \in S}) /\ Cardinality({f[c] : c \in S}) <= Cardinality(S)
            BY <3>1, <3>2, ImageIs
        <3> QED
            BY <3>1, <3>3 DEF S
    <2>5. /\ Cardinality(aged(g)) \in Nat /\ Cardinality(kept(g)) \in Nat
          /\ Cardinality(cache[g]) \in Nat
        BY <2>1, <2>3, <2>4, FS_CardinalityType
    <2>6. Cardinality(aged(g)) <= CacheSize
        <3> HIDE DEF aged, kept
        <3> QED
            BY <2>1, <2>3, <2>4, <2>5
    <2> QED
        BY <2>2, <2>4, <2>6
<1>3. CacheTypeOK'
    <2> HIDE DEF aged
    <2> QED
        BY <1>1, <1>2 DEF CacheTypeOK
<1>4. counts' \in [GW -> [Term -> [n : 0..Threshold, age : 0..Window]]]
    <2> DEFINE Count == [n : 0..Threshold, age : 0..Window]
    <2>1. ASSUME NEW g \in GW, NEW t \in Term PROVE AfterTick(counts[g][t]) \in Count
        <3>1. counts[g][t] \in Count
            BY DEF GatewayTypeOK
        <3>2. counts[g][t].age # Window => counts[g][t].age + 1 \in 0..Window
            BY <3>1, BoundsAssumption
        <3>3. 0 \in 0..Threshold /\ 0 \in 0..Window
            BY BoundsAssumption
        <3> QED
            BY <3>1, <3>2, <3>3 DEF AfterTick
    <2>2. counts' = [g \in GW |-> [t \in Term |-> AfterTick(counts[g][t])]]
        BY DEF TimePasses
    <2> HIDE DEF Count
    <2>3. counts' \in [GW -> [Term -> Count]]
        BY <2>1, <2>2
    <2> QED
        BY <2>3 DEF Count
<1>5. indexed' \in [Doc -> [Term -> 0..Never]]
    <2>1. ASSUME NEW d \in Doc, NEW t \in Term
          PROVE (IF indexed[d][t] < Ttl THEN indexed[d][t] + 1 ELSE indexed[d][t]) \in 0..Never
        BY BoundsAssumption DEF GatewayTypeOK, Never
    <2> QED
        BY <2>1 DEF TimePasses
<1>6. UNCHANGED <<setting, meta, migration, link, nodeVars, terms, acked, astray, writes, faults, moves>>
    BY DEF TimePasses
<1> QED
    BY <1>3, <1>4, <1>5, <1>6 DEF GatewayTypeOK, CacheTypeOK, nodeVars

LEMMA BeginTyped ==
    ASSUME GatewayTypeOK, NEW g \in GW, NEW n \in DataNode, NEW r \in NodeRole, begin_migration(g, n, r)
    PROVE  GatewayTypeOK'
<1>1. migration' \in [GW -> Migration \cup {NoMigration}]
    <2> DEFINE m == [node |-> n, role |-> r, moved |-> compute_moved_vshards(Ids(meta[g]), n),
                     copied |-> FALSE]
    <2>1. m \in Migration
        BY DEF Migration, compute_moved_vshards
    <2>2. migration' = [migration EXCEPT ![g] = m]
        BY DEF begin_migration
    <2> HIDE DEF m
    <2> QED
        BY <2>1, <2>2 DEF GatewayTypeOK
<1>2. moves' \in 0..setting.moves
    BY SettingsAssumption DEF begin_migration, GatewayTypeOK
<1>3. UNCHANGED <<setting, meta, link, cache, counts, nodeVars, histVars, faults>>
    BY DEF begin_migration
<1> QED
    BY <1>1, <1>2, <1>3 DEF GatewayTypeOK, nodeVars, histVars

LEMMA CatchUpTyped ==
    ASSUME GatewayTypeOK, NEW g \in GW, catch_up(g)
    PROVE  GatewayTypeOK'
<1>1. /\ link' \in [GW -> [DataNode -> Connection]] /\ faults' \in 0..setting.faults
      /\ astray' \subseteq astray \cup Doc
      /\ \E C \in SUBSET Copies(g) :
            /\ Copied(g, C)
            /\ \/ migration' = [migration EXCEPT ![g].copied = TRUE]
               \/ migration' = [migration EXCEPT ![g].copied = FALSE]
    BY CatchUpIs, Zenon
<1>2. migration[g] # NoMigration /\ migration[g] \in Migration
    BY DEF catch_up, GatewayTypeOK
<1>3. /\ docs' \in [DataNode -> [Doc -> 0..MaxWrites]]
      /\ posts' \in [DataNode -> [Term -> SUBSET Doc]]
    BY <1>1, <1>2, CopiedIs
<1>4. migration' \in [GW -> Migration \cup {NoMigration}]
    <2>1. /\ [migration[g] EXCEPT !.copied = TRUE] \in Migration
          /\ [migration[g] EXCEPT !.copied = FALSE] \in Migration
        BY <1>2 DEF Migration
    <2>2. migration \in [GW -> Migration \cup {NoMigration}]
        BY DEF GatewayTypeOK
    <2>3. \/ migration' = [migration EXCEPT ![g] = [migration[g] EXCEPT !.copied = TRUE]]
          \/ migration' = [migration EXCEPT ![g] = [migration[g] EXCEPT !.copied = FALSE]]
        BY <1>1
    <2> QED
        BY <2>1, <2>2, <2>3
<1>5. UNCHANGED <<setting, meta, cache, counts, terms, acked, indexed, writes, moves>>
    BY DEF catch_up
<1> QED
    BY <1>1, <1>3, <1>4, <1>5 DEF GatewayTypeOK

LEMMA CommitTyped ==
    ASSUME GatewayTypeOK, NEW g \in GW, commit_migration(g)
    PROVE  GatewayTypeOK'
<1>1. migration[g] \in Migration
    BY DEF commit_migration, GatewayTypeOK
<1>2. meta' \in [GW -> Seq(NodeInfo)]
    <2> DEFINE joined == [id |-> migration[g].node, role |-> migration[g].role]
    <2>1. joined \in NodeInfo
        BY <1>1 DEF Migration, NodeInfo
    <2>2. meta' = [meta EXCEPT ![g] = Append(meta[g], joined)]
        BY DEF commit_migration
    <2> HIDE DEF joined
    <2>3. Append(meta[g], joined) \in Seq(NodeInfo)
        BY <2>1 DEF GatewayTypeOK
    <2> QED
        BY <2>2, <2>3 DEF GatewayTypeOK
<1>3. migration' \in [GW -> Migration \cup {NoMigration}]
    BY DEF commit_migration, GatewayTypeOK
<1>4. UNCHANGED <<setting, link, cache, counts, nodeVars, histVars, faults, moves>>
    BY DEF commit_migration
<1> QED
    BY <1>2, <1>3, <1>4 DEF GatewayTypeOK, nodeVars, histVars

LEMMA AbortTyped ==
    ASSUME GatewayTypeOK, NEW g \in GW, abort_migration(g)
    PROVE  GatewayTypeOK'
<1>1. migration' \in [GW -> Migration \cup {NoMigration}]
    BY DEF abort_migration, GatewayTypeOK
<1>2. UNCHANGED <<setting, meta, link, cache, counts, nodeVars, histVars, faults, moves>>
    BY DEF abort_migration
<1> QED
    BY <1>1, <1>2 DEF GatewayTypeOK, nodeVars, histVars

LEMMA RestartTyped ==
    ASSUME GatewayTypeOK, NEW g \in GW, Restart(g)
    PROVE  GatewayTypeOK'
<1>1. migration' \in [GW -> Migration \cup {NoMigration}]
    BY DEF Restart, GatewayTypeOK
<1>2. link' \in [GW -> [DataNode -> Connection]]
    BY DEF Restart, GatewayTypeOK, Connection
<1>3. CacheTypeOK'
    <2>1. IsFiniteSet({}) /\ Cardinality({}) = 0 /\ CacheSize \in Nat
        BY FS_EmptySet, BoundsAssumption
    <2>2. cache' = [cache EXCEPT ![g] = {}]
        BY DEF Restart
    <2> QED
        BY <2>1, <2>2 DEF CacheTypeOK, GatewayTypeOK
<1>4. counts' \in [GW -> [Term -> [n : 0..Threshold, age : 0..Window]]]
    <2>1. [n |-> 0, age |-> 0] \in [n : 0..Threshold, age : 0..Window]
        BY BoundsAssumption
    <2>2. counts' = [counts EXCEPT ![g] = [t \in Term |-> [n |-> 0, age |-> 0]]]
        BY DEF Restart
    <2> QED
        BY <2>1, <2>2 DEF GatewayTypeOK
<1>5. faults' \in 0..setting.faults
    BY SettingsAssumption DEF Restart, Happens, GatewayTypeOK
<1>6. UNCHANGED <<setting, meta, nodeVars, histVars, moves>>
    BY DEF Restart
<1> QED
    BY <1>1, <1>2, <1>3, <1>4, <1>5, <1>6 DEF GatewayTypeOK, CacheTypeOK, nodeVars, histVars

LEMMA SettingIs ==
    ASSUME setting \in Settings
    PROVE  /\ setting.gateways \subseteq GW /\ setting.terms \subseteq Term
           /\ setting.roles \subseteq NodeRole
           /\ setting.nodes \in Seq(NodeInfo) /\ setting.nodes # <<>>
           /\ \A i, j \in DOMAIN setting.nodes : setting.nodes[i].id = setting.nodes[j].id => i = j
           /\ setting.writes \in 0..MaxWrites /\ setting.faults \in Nat /\ setting.moves \in Nat
    BY SettingsAssumption

(* A step is time passing, or one of the calls at one gateway. *)
LEMMA StepIs ==
    ASSUME setting \in Settings, GatewayNext
    PROVE  \/ TimePasses
           \/ \E g \in setting.gateways : g \in GW /\
                \/ \E ts \in SUBSET Term : put_batch(g, ts) \/ \E d \in Doc : put(g, d, ts)
                \/ \E t \in Term : broadcast_search(g, t)
                \/ \E d \in Doc : get(g, d)
                \/ \E n \in DataNode, r \in NodeRole : begin_migration(g, n, r)
                \/ catch_up(g) \/ commit_migration(g) \/ abort_migration(g) \/ Restart(g)
<1>1. /\ \A g \in setting.gateways : g \in GW
      /\ \A t \in setting.terms : t \in Term
      /\ \A ts \in SUBSET setting.terms : ts \in SUBSET Term
    BY SettingIs
<1> QED
    BY <1>1, Zenon DEF GatewayNext

LEMMA InitTyped ==
    ASSUME GatewayInit
    PROVE  GatewayTypeOK /\ Rooted
<1>1. /\ setting.nodes \in Seq(NodeInfo) /\ setting.nodes # <<>>
      /\ setting.writes \in Nat /\ setting.faults \in Nat /\ setting.moves \in Nat
    BY SettingIs DEF GatewayInit
<1>2. CacheTypeOK
    <2>1. IsFiniteSet({}) /\ Cardinality({}) = 0 /\ 0 <= CacheSize
        BY FS_EmptySet, BoundsAssumption
    <2> QED
        BY <2>1 DEF CacheTypeOK, GatewayInit
<1>3. counts \in [GW -> [Term -> [n : 0..Threshold, age : 0..Window]]]
    BY BoundsAssumption DEF GatewayInit
<1>4. /\ link \in [GW -> [DataNode -> Connection]]
      /\ docs \in [DataNode -> [Doc -> 0..MaxWrites]]
      /\ posts \in [DataNode -> [Term -> SUBSET Doc]]
      /\ terms \in [Write -> SUBSET Term]
      /\ acked \in [Doc -> 0..MaxWrites] /\ astray \subseteq Doc
    BY BoundsAssumption DEF GatewayInit, Connection
<1>5. indexed \in [Doc -> [Term -> 0..Never]]
    BY BoundsAssumption DEF GatewayInit, Never
<1>6. /\ migration \in [GW -> Migration \cup {NoMigration}] /\ meta \in [GW -> Seq(NodeInfo)]
      /\ setting \in Settings /\ Rooted
      /\ writes \in 0..setting.writes /\ faults \in 0..setting.faults /\ moves \in 0..setting.moves
    BY <1>1 DEF GatewayInit, Rooted
<1> QED
    BY <1>2, <1>3, <1>4, <1>5, <1>6 DEF GatewayTypeOK, CacheTypeOK

(* Nodes are added, never taken away. *)
LEMMA StaysRooted ==
    ASSUME GatewayTypeOK, Rooted, GatewayNext
    PROVE  Rooted'
<1>1. CASE UNCHANGED meta
    BY <1>1 DEF Rooted
<1>2. ASSUME NEW g \in GW, commit_migration(g) PROVE Rooted'
    <2>1. meta \in [GW -> Seq(NodeInfo)]
        BY DEF GatewayTypeOK
    <2>2. PICK joined : meta' = [meta EXCEPT ![g] = Append(meta[g], joined)]
        BY <1>2 DEF commit_migration
    <2>3. Append(meta[g], joined) # <<>>
        BY <2>1
    <2> QED
        BY <2>1, <2>2, <2>3 DEF Rooted
<1>3. UNCHANGED meta \/ \E g \in GW : commit_migration(g)
    <2>1. setting \in Settings
        BY DEF GatewayTypeOK
    <2>2. \/ TimePasses
          \/ \E g \in setting.gateways : g \in GW /\
                \/ \E ts \in SUBSET Term : put_batch(g, ts) \/ \E d \in Doc : put(g, d, ts)
                \/ \E t \in Term : broadcast_search(g, t)
                \/ \E d \in Doc : get(g, d)
                \/ \E n \in DataNode, r \in NodeRole : begin_migration(g, n, r)
                \/ catch_up(g) \/ commit_migration(g) \/ abort_migration(g) \/ Restart(g)
        BY <2>1, StepIs
    <2>3. TimePasses => UNCHANGED meta
        BY DEF TimePasses
    <2>4. ASSUME NEW g
          PROVE  /\ \A ts : put_batch(g, ts) => UNCHANGED meta
                 /\ \A ts, d : put(g, d, ts) => UNCHANGED meta
                 /\ \A t : broadcast_search(g, t) => UNCHANGED meta
                 /\ \A d : get(g, d) => UNCHANGED meta
                 /\ \A n, r : begin_migration(g, n, r) => UNCHANGED meta
                 /\ catch_up(g) \/ abort_migration(g) \/ Restart(g) => UNCHANGED meta
        <3>1. \A ts : put_batch(g, ts) => UNCHANGED meta
            BY Zenon DEF put_batch
        <3>2. \A ts, d : put(g, d, ts) => UNCHANGED meta
            BY Zenon DEF put
        <3>3. \A t : broadcast_search(g, t) => UNCHANGED meta
            BY Zenon DEF broadcast_search
        <3>4. \A d : get(g, d) => UNCHANGED meta
            BY DEF get
        <3>5. \A n, r : begin_migration(g, n, r) => UNCHANGED meta
            BY DEF begin_migration
        <3>6. catch_up(g) \/ abort_migration(g) \/ Restart(g) => UNCHANGED meta
            BY Zenon DEF catch_up, abort_migration, Restart
        <3> QED
            BY <3>1, <3>2, <3>3, <3>4, <3>5, <3>6
    <2> QED
        BY <2>2, <2>3, <2>4, Zenon
<1> QED
    BY <1>1, <1>2, <1>3

LEMMA StaysTyped ==
    ASSUME GatewayTypeOK, Rooted, GatewayNext
    PROVE  GatewayTypeOK'
<1>1. setting \in Settings
    BY DEF GatewayTypeOK
<1>2. CASE TimePasses
    BY <1>2, TimeTyped
<1>3. ASSUME NEW g \in GW,
             \/ \E ts \in SUBSET Term : put_batch(g, ts) \/ \E d \in Doc : put(g, d, ts)
             \/ \E t \in Term : broadcast_search(g, t)
             \/ \E d \in Doc : get(g, d)
             \/ \E n \in DataNode, r \in NodeRole : begin_migration(g, n, r)
             \/ catch_up(g) \/ commit_migration(g) \/ abort_migration(g) \/ Restart(g)
      PROVE  GatewayTypeOK'
    <2>1. ASSUME NEW ts \in SUBSET Term, put_batch(g, ts) PROVE GatewayTypeOK'
        BY <2>1, BatchTyped
    <2>2. ASSUME NEW ts \in SUBSET Term, NEW d \in Doc, put(g, d, ts) PROVE GatewayTypeOK'
        BY <2>2, PutTyped
    <2>3. ASSUME NEW t \in Term, broadcast_search(g, t) PROVE GatewayTypeOK'
        BY <2>3, SearchTyped
    <2>4. ASSUME NEW d \in Doc, get(g, d) PROVE GatewayTypeOK'
        BY <2>4, GetTyped
    <2>5. ASSUME NEW n \in DataNode, NEW r \in NodeRole, begin_migration(g, n, r) PROVE GatewayTypeOK'
        BY <2>5, BeginTyped
    <2>6. catch_up(g) => GatewayTypeOK'
        BY CatchUpTyped
    <2>7. commit_migration(g) => GatewayTypeOK'
        BY CommitTyped
    <2>8. abort_migration(g) => GatewayTypeOK'
        BY AbortTyped
    <2>9. Restart(g) => GatewayTypeOK'
        BY RestartTyped
    <2> QED
        BY <1>3, <2>1, <2>2, <2>3, <2>4, <2>5, <2>6, <2>7, <2>8, <2>9, Zenon
<1>4. \/ TimePasses
      \/ \E g \in setting.gateways : g \in GW /\
            \/ \E ts \in SUBSET Term : put_batch(g, ts) \/ \E d \in Doc : put(g, d, ts)
            \/ \E t \in Term : broadcast_search(g, t)
            \/ \E d \in Doc : get(g, d)
            \/ \E n \in DataNode, r \in NodeRole : begin_migration(g, n, r)
            \/ catch_up(g) \/ commit_migration(g) \/ abort_migration(g) \/ Restart(g)
    BY <1>1, StepIs
<1> QED
    BY <1>2, <1>3, <1>4, Zenon

LEMMA TypedAlways == GatewaySpec => [](GatewayTypeOK /\ Rooted)
<1>1. GatewayInit => GatewayTypeOK /\ Rooted
    BY InitTyped
<1>2. GatewayTypeOK /\ Rooted /\ [GatewayNext]_allVars => (GatewayTypeOK /\ Rooted)'
    <2>1. CASE GatewayNext
        BY <2>1, StaysTyped, StaysRooted
    <2>2. CASE UNCHANGED allVars
        BY <2>2 DEF allVars, gatewayVars, nodeVars, histVars, GatewayTypeOK, Rooted
    <2> QED
        BY <2>1, <2>2
<1> QED
    BY <1>1, <1>2, PTL DEF GatewaySpec

(* The gateways' and the nodes' state has its types: rows are writes made,  *)
(* chunks live less than Ttl, and the cache keeps to its size              *)
(* (gateway.rs, term_cache.rs).                                            *)
THEOREM GatewayTypeCorrect == GatewaySpec => []GatewayTypeOK
    BY TypedAlways, PTL

-----------------------------------------------------------------------------
(* Searches                                                                *)

(* One gateway writes. *)
Alone == \A s \in Settings : \A g, h \in s.gateways : g = h

(* Node n holds d for t, and a chunk of it that leaves d out is as old as  *)
(* d's indexing.                                                           *)
Finds(g, n, d, t) ==
    /\ d \in posts[n][t]
    /\ \A c \in cache[g] : c.node = n /\ c.term = t /\ c.own => d \in c.docs \/ c.age >= indexed[d][t]

(* What is indexed is found on a node, by the time old chunks are gone. *)
Indexed ==
    \A g \in setting.gateways, d \in Doc \ astray, t \in Term :
        indexed[d][t] # Never => \E n \in Nodes(g) : Finds(g, n, d, t)

SearchInv == GatewayTypeOK /\ Rooted /\ Indexed

LEMMA ChunksAged ==
    ASSUME GatewayTypeOK, NEW g \in GW, NEW c \in cache[g]
    PROVE  c.age \in Nat /\ c.age < Ttl /\ c.node \in DataNode /\ c.term \in Term
<1>1. c \in Chunk
    BY DEF GatewayTypeOK
<1> QED
    BY <1>1, BoundsAssumption DEF Chunk

LEMMA IndexedFound ==
    ASSUME SearchInv
    PROVE  SearchFinds
<1> SUFFICES ASSUME NEW g \in setting.gateways, NEW d \in Doc \ astray, NEW t \in Term,
                    indexed[d][t] = Ttl, \A n \in Ids(meta[g]) : \A c \in Cached(g, n, t) : c.own
             PROVE  d \in Found(g, t)
    BY DEF SearchFinds
<1>1. g \in GW
    BY SettingIs DEF SearchInv, GatewayTypeOK
<1>2. PICK n \in Nodes(g) : Finds(g, n, d, t)
    BY BoundsAssumption DEF SearchInv, Indexed, Never
<1>3. \A c \in Cached(g, n, t) : d \in c.docs
    BY <1>1, <1>2, ChunksAged, BoundsAssumption DEF Cached, Finds, SearchInv, Nodes
<1>4. d \in (IF Cached(g, n, t) = {} THEN posts[n][t] ELSE (CHOOSE c \in Cached(g, n, t) : TRUE).docs)
    BY <1>2, <1>3 DEF Finds
<1> QED
    BY <1>2, <1>4 DEF Found, Nodes

(* A step that takes no node and no posting away, whose new chunks hold    *)
(* what the nodes hold, and that indexes only what a node holds, but for    *)
(* what is or goes astray.                                                 *)
LEMMA KeepsIndexed ==
    ASSUME Alone, SearchInv, NEW g \in setting.gateways, setting' = setting, GatewayTypeOK',
           Nodes(g) \subseteq Nodes(g)',
           \A n \in DataNode, t \in Term : posts[n][t] \subseteq posts'[n][t],
           astray \subseteq astray',
           \A c \in cache'[g] : c \in cache[g] \/ (c.own => c.docs = posts[c.node][c.term]),
           \A d \in Doc \ astray', t \in Term : indexed'[d][t] # indexed[d][t] =>
               indexed'[d][t] = 0 /\ \E n \in Nodes(g) : d \in posts'[n][t]
    PROVE  Indexed'
<1>1. g \in GW /\ \A h \in setting.gateways : h = g
    BY SettingIs DEF Alone, SearchInv, GatewayTypeOK
<1>2. Nodes(g) \subseteq DataNode
    BY <1>1, NodesAre DEF SearchInv, Rooted
<1> SUFFICES ASSUME NEW d \in Doc \ astray', NEW t \in Term, indexed'[d][t] # Never
             PROVE  (\E n \in Nodes(g) : Finds(g, n, d, t))'
    BY <1>1 DEF Indexed
<1>3. CASE indexed'[d][t] = indexed[d][t]
    <2>1. PICK n \in Nodes(g) : Finds(g, n, d, t)
        BY <1>3 DEF SearchInv, Indexed
    <2>2. d \in posts[n][t] /\ d \in posts'[n][t]
        BY <1>2, <2>1 DEF Finds
    <2>3. ASSUME NEW c \in cache'[g], c.node = n, c.term = t, c.own
          PROVE  d \in c.docs \/ c.age >= indexed'[d][t]
        BY <1>3, <2>1, <2>2, <2>3 DEF Finds
    <2>4. Finds(g, n, d, t)'
        BY <2>2, <2>3 DEF Finds
    <2> QED
        BY <2>1, <2>4
<1>4. CASE indexed'[d][t] # indexed[d][t]
    <2>1. PICK n \in Nodes(g) : d \in posts'[n][t]
        BY <1>4
    <2>2. indexed'[d][t] = 0
        BY <1>4
    <2>3. ASSUME NEW c \in cache'[g] PROVE c.age >= 0
        <3>1. (cache \in [GW -> SUBSET Chunk])'
            BY DEF GatewayTypeOK
        <3>2. c \in Chunk
            BY <1>1, <3>1
        <3> QED
            BY <3>2, BoundsAssumption DEF Chunk
    <2>4. Finds(g, n, d, t)'
        BY <2>1, <2>2, <2>3 DEF Finds
    <2> QED
        BY <2>1, <2>4
<1> QED
    BY <1>3, <1>4

LEMMA TimeIndexed ==
    ASSUME SearchInv, TimePasses
    PROVE  Indexed'
<1> SUFFICES ASSUME NEW g \in setting.gateways, NEW d \in Doc \ astray, NEW t \in Term,
                    indexed'[d][t] # Never
             PROVE  (\E n \in Nodes(g) : Finds(g, n, d, t))'
    BY DEF Indexed, TimePasses
<1>1. g \in GW /\ Nodes(g)' = Nodes(g) /\ posts' = posts
    BY SettingIs DEF SearchInv, GatewayTypeOK, TimePasses, Nodes, Ids, nodeVars
<1>2. /\ indexed'[d][t] = IF indexed[d][t] < Ttl THEN indexed[d][t] + 1 ELSE indexed[d][t]
      /\ indexed[d][t] \in 0..Never
    BY DEF SearchInv, GatewayTypeOK, TimePasses
<1>3. indexed[d][t] # Never
    BY <1>2, BoundsAssumption DEF Never
<1>4. PICK n \in Nodes(g) : Finds(g, n, d, t)
    BY <1>3 DEF SearchInv, Indexed
<1>5. ASSUME NEW c \in cache'[g], c.node = n, c.term = t, c.own
      PROVE  d \in c.docs \/ c.age >= indexed'[d][t]
    <2>1. PICK b \in cache[g] : c = [b EXCEPT !.age = b.age + 1] /\ b.age + 1 < Ttl
        BY <1>1 DEF TimePasses
    <2>2. b \in Chunk
        BY <1>1 DEF SearchInv, GatewayTypeOK
    <2>3. c.node = b.node /\ c.term = b.term /\ c.docs = b.docs /\ c.age = b.age + 1 /\ c.own = b.own
        BY <2>1, <2>2 DEF Chunk
    <2>4. d \in b.docs \/ b.age >= indexed[d][t]
        BY <1>4, <1>5, <2>3 DEF Finds
    <2>5. b.age \in Nat
        BY <1>1, ChunksAged DEF SearchInv
    <2> QED
        BY <1>2, <2>1, <2>3, <2>4, <2>5, BoundsAssumption
<1>6. Finds(g, n, d, t)'
    BY <1>1, <1>4, <1>5 DEF Finds
<1> QED
    BY <1>1, <1>4, <1>6

LEMMA StorePosts ==
    ASSUME NEW given, NEW w, NEW ts, Store(given, w, ts)
    PROVE  /\ \A n \in DataNode, t \in Term : posts[n][t] \subseteq posts'[n][t]
           /\ \A n \in DOMAIN given \cap DataNode, t \in ts \cap Term : given[n] \cap Doc \subseteq posts'[n][t]
<1>1. posts' = [n \in DataNode |-> [t \in Term |->
                posts[n][t] \cup {d \in Doc : (n \in DOMAIN given /\ d \in given[n]) /\ t \in ts}]]
    BY DEF Store
<1> QED
    BY <1>1

LEMMA AcknowledgedNew ==
    ASSUME NEW D, NEW w, NEW ts, Acknowledged(D, w, ts), NEW d \in Doc, NEW t \in Term,
           indexed'[d][t] # indexed[d][t]
    PROVE  indexed'[d][t] = 0 /\ t \in ts /\ d \in D
    BY DEF Acknowledged

LEMMA PutIndexed ==
    ASSUME Alone, SearchInv, GatewayTypeOK', NEW g \in setting.gateways, NEW d \in Doc,
           NEW ts \in SUBSET Term, put(g, d, ts)
    PROVE  Indexed'
<1>1. g \in GW /\ meta[g] # <<>> /\ GatewayTypeOK
    BY SettingIs DEF SearchInv, GatewayTypeOK, Rooted
<1>2. PICK S \in SUBSET ({resolve(g, d)} \cup Shadow(g, d)) :
          /\ Store([n \in S |-> {d}], writes', ts)
          /\ \/ /\ S = {resolve(g, d)} \cup Shadow(g, d) \/ d \in astray'
                /\ record_write(g, ts) /\ Acknowledged({d}, writes', ts)
             \/ UNCHANGED <<cache, counts, acked, indexed>>
          /\ astray \subseteq astray'
    <2>1. astray' \in {astray, astray \cup {d}}
        BY <1>1, PutIs
    <2>2. astray \subseteq astray'
        BY <2>1
    <2> QED
        BY <1>1, <2>2, PutIs
<1>3. UNCHANGED <<setting, meta>>
    BY DEF put
<1> DEFINE given == [n \in S |-> {d}]
<1>4. /\ \A n \in DataNode, t \in Term : posts[n][t] \subseteq posts'[n][t]
      /\ \A n \in DOMAIN given \cap DataNode, t \in ts \cap Term : given[n] \cap Doc \subseteq posts'[n][t]
    <2>1. Store(given, writes', ts)
        BY <1>2
    <2> HIDE DEF given
    <2> QED
        BY <2>1, StorePosts
<1>5. \A c \in cache'[g] : c \in cache[g]
    BY <1>1, <1>2 DEF record_write, GatewayTypeOK
<1>6. ASSUME NEW e \in Doc \ astray', NEW t \in Term, indexed'[e][t] # indexed[e][t]
      PROVE  indexed'[e][t] = 0 /\ \E n \in Nodes(g) : e \in posts'[n][t]
    <2>1. /\ S = {resolve(g, d)} \cup Shadow(g, d) \/ d \in astray'
          /\ Acknowledged({d}, writes', ts)
        BY <1>2, <1>6
    <2>2. indexed'[e][t] = 0 /\ t \in ts /\ e = d
        BY <1>6, <2>1, AcknowledgedNew
    <2>3. resolve(g, d) \in Nodes(g) /\ resolve(g, d) \in DataNode
        BY <1>1, NodesAre
    <2> QED
        BY <1>4, <2>1, <2>2, <2>3
<1>7. Nodes(g)' = Nodes(g)
    BY <1>3 DEF Nodes, Ids
<1> QED
    BY <1>2, <1>3, <1>4, <1>5, <1>6, <1>7, KeepsIndexed

LEMMA BatchIndexed ==
    ASSUME Alone, SearchInv, GatewayTypeOK', NEW g \in setting.gateways, NEW ts \in SUBSET Term,
           put_batch(g, ts)
    PROVE  Indexed'
<1>1. g \in GW /\ meta[g] # <<>> /\ GatewayTypeOK
    BY SettingIs DEF SearchInv, GatewayTypeOK, Rooted
<1>2. PICK S \in SUBSET {resolve(g, d) : d \in Doc} :
          /\ Store([n \in S |-> {d \in Doc : resolve(g, d) = n}], writes', ts)
          /\ \/ /\ \A d \in Doc : resolve(g, d) \in S \/ d \in astray'
                /\ Acknowledged(Doc, writes', ts)
             \/ UNCHANGED <<acked, indexed>>
          /\ astray \subseteq astray'
    BY <1>1, BatchIs, Zenon
<1>3. UNCHANGED <<setting, meta, cache>>
    BY DEF put_batch
<1> DEFINE given == [n \in S |-> {d \in Doc : resolve(g, d) = n}]
<1>4. /\ \A n \in DataNode, t \in Term : posts[n][t] \subseteq posts'[n][t]
      /\ \A n \in DOMAIN given \cap DataNode, t \in ts \cap Term : given[n] \cap Doc \subseteq posts'[n][t]
    <2>1. Store(given, writes', ts)
        BY <1>2
    <2> HIDE DEF given
    <2> QED
        BY <2>1, StorePosts
<1>5. ASSUME NEW e \in Doc \ astray', NEW t \in Term, indexed'[e][t] # indexed[e][t]
      PROVE  indexed'[e][t] = 0 /\ \E n \in Nodes(g) : e \in posts'[n][t]
    <2>1. (\A d \in Doc : resolve(g, d) \in S \/ d \in astray') /\ Acknowledged(Doc, writes', ts)
        BY <1>2, <1>5
    <2>2. indexed'[e][t] = 0 /\ t \in ts
        BY <1>5, <2>1, AcknowledgedNew
    <2>3. resolve(g, e) \in Nodes(g) /\ resolve(g, e) \in DataNode /\ resolve(g, e) \in S
        BY <1>1, <2>1, NodesAre
    <2>4. e \in given[resolve(g, e)] /\ resolve(g, e) \in DOMAIN given
        BY <2>3
    <2> QED
        BY <1>4, <2>2, <2>3, <2>4
<1>6. Nodes(g)' = Nodes(g)
    BY <1>3 DEF Nodes, Ids
<1> QED
    BY <1>2, <1>3, <1>4, <1>5, <1>6, KeepsIndexed

(* The remaining calls index nothing. *)
LEMMA CallsIndexed ==
    ASSUME Alone, SearchInv, GatewayTypeOK', NEW g \in setting.gateways,
           \/ \E t \in Term : broadcast_search(g, t)
           \/ \E d \in Doc : get(g, d)
           \/ \E n \in DataNode, r \in NodeRole : begin_migration(g, n, r)
           \/ catch_up(g) \/ commit_migration(g) \/ abort_migration(g) \/ Restart(g)
    PROVE  Indexed'
<1>1. g \in GW /\ meta[g] # <<>> /\ GatewayTypeOK
    BY SettingIs DEF SearchInv, GatewayTypeOK, Rooted
<1>2. ASSUME NEW t \in Term, broadcast_search(g, t) PROVE Indexed'
    <2>1. UNCHANGED nodeVars /\ \E I \in SUBSET DOMAIN meta[g] : Caches(g, t, I)
        BY <1>1, <1>2, SearchIs
    <2>2. \A c \in cache'[g] : c \in cache[g] \/ (c.term = t /\ c.age = 0 /\ (c.own => c.docs = posts[c.node][t]))
        BY <1>1, <2>1, CachesIs
    <2>3. \A c \in cache'[g] : c \in cache[g] \/ (c.own => c.docs = posts[c.node][c.term])
        BY <2>2
    <2>4. UNCHANGED <<setting, meta, posts, indexed, astray>>
        BY <1>2, <2>1 DEF broadcast_search, nodeVars, histVars
    <2>5. Nodes(g)' = Nodes(g)
        BY <2>4 DEF Nodes, Ids
    <2> QED
        BY <2>3, <2>4, <2>5, KeepsIndexed
<1>3. ASSUME NEW d \in Doc, get(g, d) PROVE Indexed'
    <2>1. UNCHANGED <<setting, meta, cache, posts, indexed, astray>>
        <3>1. UNCHANGED nodeVars
            BY <1>3, Zenon DEF get, ReadFails, Fails
        <3> QED
            BY <1>3, <3>1 DEF get, nodeVars, histVars
    <2>2. Nodes(g)' = Nodes(g)
        BY <2>1 DEF Nodes, Ids
    <2> QED
        BY <2>1, <2>2, KeepsIndexed
<1>4. ASSUME NEW n \in DataNode, NEW r \in NodeRole, begin_migration(g, n, r) PROVE Indexed'
    <2>1. UNCHANGED <<setting, meta, cache, posts, indexed, astray>>
        BY <1>4 DEF begin_migration, nodeVars, histVars
    <2>2. Nodes(g)' = Nodes(g)
        BY <2>1 DEF Nodes, Ids
    <2> QED
        BY <2>1, <2>2, KeepsIndexed
<1>5. CASE catch_up(g)
    <2>1. UNCHANGED <<setting, meta, cache, indexed>> /\ migration[g] # NoMigration
        BY <1>5 DEF catch_up
    <2>2. astray \subseteq astray' /\ \E C \in SUBSET Copies(g) : Copied(g, C)
        BY <1>1, <1>5, CatchUpIs, Zenon
    <2>3. \A n \in DataNode, t \in Term : posts[n][t] \subseteq posts'[n][t]
        BY <1>1, <2>1, <2>2, CopiedIs
    <2>4. Nodes(g)' = Nodes(g)
        BY <2>1 DEF Nodes, Ids
    <2> QED
        BY <2>1, <2>2, <2>3, <2>4, KeepsIndexed
<1>6. CASE commit_migration(g)
    <2>1. UNCHANGED <<setting, cache, posts, indexed, astray>>
        BY <1>6 DEF commit_migration, nodeVars, histVars
    <2>2. Nodes(g) \subseteq Nodes(g)'
        BY <1>1, <1>6, CommitAdds
    <2> QED
        BY <2>1, <2>2, KeepsIndexed
<1>7. CASE abort_migration(g)
    <2>1. UNCHANGED <<setting, meta, cache, posts, indexed, astray>>
        BY <1>7 DEF abort_migration, nodeVars, histVars
    <2>2. Nodes(g)' = Nodes(g)
        BY <2>1 DEF Nodes, Ids
    <2> QED
        BY <2>1, <2>2, KeepsIndexed
<1>8. CASE Restart(g)
    <2>1. UNCHANGED <<setting, meta, posts, indexed, astray>>
        BY <1>8 DEF Restart, nodeVars, histVars
    <2>2. cache'[g] = {}
        BY <1>1, <1>8 DEF Restart, GatewayTypeOK
    <2>3. Nodes(g)' = Nodes(g)
        BY <2>1 DEF Nodes, Ids
    <2> QED
        BY <2>1, <2>2, <2>3, KeepsIndexed
<1> QED
    BY <1>2, <1>3, <1>4, <1>5, <1>6, <1>7, <1>8

LEMMA SearchInvAlways == ASSUME Alone PROVE GatewaySpec => []SearchInv
<1>1. GatewayInit => SearchInv
    <2> SUFFICES ASSUME GatewayInit PROVE SearchInv
        OBVIOUS
    <2>1. Indexed
        BY DEF GatewayInit, Indexed
    <2> QED
        BY <2>1, InitTyped DEF SearchInv
<1>2. SearchInv /\ [GatewayNext]_allVars => SearchInv'
    <2> SUFFICES ASSUME SearchInv, [GatewayNext]_allVars PROVE SearchInv'
        OBVIOUS
    <2>1. CASE UNCHANGED allVars
        <3>1. GatewayTypeOK' /\ Rooted'
            BY <2>1 DEF allVars, gatewayVars, nodeVars, histVars, SearchInv, GatewayTypeOK, Rooted
        <3>2. Indexed'
            BY <2>1 DEF allVars, gatewayVars, nodeVars, histVars, SearchInv, Indexed, Finds, Nodes, Ids
        <3> QED
            BY <3>1, <3>2 DEF SearchInv
    <2>2. CASE GatewayNext
        <3>1. GatewayTypeOK' /\ Rooted'
            BY <2>2, StaysTyped, StaysRooted DEF SearchInv
        <3>2. TimePasses => Indexed'
            BY TimeIndexed
        <3>3. ASSUME NEW g \in setting.gateways, NEW ts \in SUBSET Term,
                     put_batch(g, ts) \/ \E d \in Doc : put(g, d, ts)
              PROVE  Indexed'
            BY <3>1, <3>3, PutIndexed, BatchIndexed
        <3>4. ASSUME NEW g \in setting.gateways,
                     \/ \E t \in Term : broadcast_search(g, t)
                     \/ \E d \in Doc : get(g, d)
                     \/ \E n \in DataNode, r \in NodeRole : begin_migration(g, n, r)
                     \/ catch_up(g) \/ commit_migration(g) \/ abort_migration(g) \/ Restart(g)
              PROVE  Indexed'
            BY <3>1, <3>4, CallsIndexed
        <3>5. setting \in Settings
            BY DEF SearchInv, GatewayTypeOK
        <3>6. TimePasses \/ \E g \in setting.gateways :
                  \/ \E ts \in SUBSET Term : put_batch(g, ts) \/ \E d \in Doc : put(g, d, ts)
                  \/ \E t \in Term : broadcast_search(g, t)
                  \/ \E d \in Doc : get(g, d)
                  \/ \E n \in DataNode, r \in NodeRole : begin_migration(g, n, r)
                  \/ catch_up(g) \/ commit_migration(g) \/ abort_migration(g) \/ Restart(g)
            BY <2>2, <3>5, StepIs, Zenon
        <3>7. ASSUME NEW g \in setting.gateways,
                     \/ \E ts \in SUBSET Term : put_batch(g, ts) \/ \E d \in Doc : put(g, d, ts)
                     \/ \E t \in Term : broadcast_search(g, t)
                     \/ \E d \in Doc : get(g, d)
                     \/ \E n \in DataNode, r \in NodeRole : begin_migration(g, n, r)
                     \/ catch_up(g) \/ commit_migration(g) \/ abort_migration(g) \/ Restart(g)
              PROVE  Indexed'
            <4>1. CASE \E ts \in SUBSET Term : put_batch(g, ts) \/ \E d \in Doc : put(g, d, ts)
                BY <3>3, <4>1, Zenon
            <4>2. CASE ~\E ts \in SUBSET Term : put_batch(g, ts) \/ \E d \in Doc : put(g, d, ts)
                <5>1. \/ \E t \in Term : broadcast_search(g, t)
                      \/ \E d \in Doc : get(g, d)
                      \/ \E n \in DataNode, r \in NodeRole : begin_migration(g, n, r)
                      \/ catch_up(g) \/ commit_migration(g) \/ abort_migration(g) \/ Restart(g)
                    BY <3>7, <4>2, Zenon
                <5> QED
                    BY <3>4, <5>1
            <4> QED
                BY <4>1, <4>2
        <3>8. Indexed'
            BY <3>2, <3>6, <3>7
        <3> QED
            BY <3>1, <3>8 DEF SearchInv
    <2> QED
        BY <2>1, <2>2
<1> QED
    BY <1>1, <1>2, PTL DEF GatewaySpec

(* With one gateway, whatever its callers do and wherever calls fail, a     *)
(* search finds what was written with the term at least Ttl ago            *)
(* (broadcast_search, TermCache::insert).                                  *)
THEOREM SearchesFind == ASSUME Alone PROVE GatewaySpec => []SearchFinds
<1>1. SearchInv => SearchFinds
    BY IndexedFound
<1> QED
    BY <1>1, SearchInvAlways, PTL

-----------------------------------------------------------------------------
(* Reads                                                                   *)

(* One gateway, whose callers let a copy end before they commit it, write  *)
(* no batches meanwhile, and add slaves that hold nothing they do not get. *)
Careful ==
    /\ Alone
    /\ \A s \in Settings : ~s.batches /\ ~s.hasty /\ ~s.leftovers /\ s.roles \subseteq {"slave"}

At(g, i) == meta[g][i].id

(* A node is registered once; one that joins is not registered yet.        *)
Topology(g) ==
    /\ \A i, j \in DOMAIN meta[g] : At(g, i) = At(g, j) => i = j
    /\ migration[g] # NoMigration =>
          /\ migration[g].node \notin Nodes(g)
          /\ migration[g].role = "slave"
          /\ migration[g].moved = compute_moved_vshards(Nodes(g), migration[g].node)

(* Rows are no newer than the writes. *)
Rows == \A d \in Doc : acked[d] <= writes /\ \A n \in DataNode : docs[n][d] <= writes

(* The owner has the newest row, and nobody behind it has any: that is     *)
(* what lets a copy of all nodes, one after the other, end with it.        *)
Owned(g, d) ==
    /\ d \notin astray => docs[resolve(g, d)][d] >= acked[d]
    /\ \A o, i \in DOMAIN meta[g] :
          At(g, o) = resolve(g, d) /\ Precedes(meta[g], o, i) => docs[At(g, i)][d] = 0

(* A node that joins holds nothing of what it does not get, and after the  *)
(* copy the newest row of what it gets.                                    *)
Moving(g, d) ==
    migration[g] # NoMigration =>
        /\ d \notin migration[g].moved => docs[migration[g].node][d] = 0
        /\ d \in migration[g].moved /\ migration[g].copied /\ d \notin astray =>
              docs[migration[g].node][d] >= acked[d]

Standing ==
    \A g \in setting.gateways : Topology(g) /\ \A d \in Doc : Owned(g, d) /\ Moving(g, d)

ReadInv == GatewayTypeOK /\ Rooted /\ Rows /\ Standing

LEMMA StandingReads == ASSUME ReadInv PROVE ReadsNewest
    BY DEF ReadInv, Standing, Owned, ReadsNewest

LEMMA CarefulIs ==
    ASSUME Careful, ReadInv
    PROVE  /\ ~setting.batches /\ ~setting.hasty /\ ~setting.leftovers /\ setting.roles \subseteq {"slave"}
           /\ \A g, h \in setting.gateways : g = h
    BY DEF Careful, Alone, ReadInv, GatewayTypeOK

(* What is known of the acting gateway. *)
LEMMA ReadParts ==
    ASSUME ReadInv, NEW g \in setting.gateways
    PROVE  /\ g \in GW /\ meta[g] # <<>> /\ GatewayTypeOK /\ Rows /\ Topology(g)
           /\ meta[g] \in Seq(NodeInfo) /\ writes \in Nat
           /\ Nodes(g) \subseteq DataNode /\ Nodes(g) # {}
           /\ \A i \in DOMAIN meta[g] : At(g, i) \in Nodes(g) /\ At(g, i) \in DataNode
           /\ \A n \in Nodes(g) : \E i \in DOMAIN meta[g] : At(g, i) = n
           /\ migration[g] # NoMigration => migration[g] \in Migration /\ migration[g].node \in DataNode
           /\ \A d \in Doc : /\ Owned(g, d) /\ Moving(g, d) /\ acked[d] \in Nat
                             /\ resolve(g, d) \in Nodes(g) /\ resolve(g, d) \in DataNode
                             /\ \A n \in DataNode : docs[n][d] \in Nat
<1>1. g \in GW
    BY SettingIs DEF ReadInv, GatewayTypeOK
<1>2. meta[g] # <<>> /\ GatewayTypeOK /\ Rows /\ Topology(g)
    BY <1>1 DEF ReadInv, Rooted, Standing
<1>3. meta[g] \in Seq(NodeInfo) /\ writes \in Nat
    BY <1>1, <1>2, SettingIs DEF GatewayTypeOK
<1>4. /\ Nodes(g) \subseteq DataNode /\ Nodes(g) # {}
      /\ \A d \in Doc : resolve(g, d) \in Nodes(g) /\ resolve(g, d) \in DataNode
    BY <1>1, <1>2, NodesAre
<1>5. /\ \A i \in DOMAIN meta[g] : At(g, i) \in Nodes(g)
      /\ \A n \in Nodes(g) : \E i \in DOMAIN meta[g] : At(g, i) = n
    BY DEF At, Nodes, Ids
<1>6. migration[g] # NoMigration => migration[g] \in Migration /\ migration[g].node \in DataNode
    BY <1>1, <1>2 DEF GatewayTypeOK, Migration
<1>7. \A d \in Doc : Owned(g, d) /\ Moving(g, d) /\ acked[d] \in Nat /\ \A n \in DataNode : docs[n][d] \in Nat
    BY <1>2, BoundsAssumption DEF ReadInv, Standing, GatewayTypeOK
<1> QED
    BY <1>1, <1>2, <1>3, <1>4, <1>5, <1>6, <1>7

(* What is left to show of a step of gateway g. *)
LEMMA Acting ==
    ASSUME Careful, ReadInv, NEW g \in setting.gateways, setting' = setting, Topology(g)',
           \A d \in Doc : Owned(g, d)' /\ Moving(g, d)'
    PROVE  Standing'
<1>1. \A h \in setting.gateways : h = g
    BY CarefulIs
<1> QED
    BY <1>1 DEF Standing

(* A step that moves no row and begins nothing. *)
LEMMA Resting ==
    ASSUME Careful, ReadInv, NEW g \in setting.gateways,
           UNCHANGED <<setting, meta, docs, acked, astray, writes>>,
           migration'[g] = migration[g] \/ migration'[g] = NoMigration
    PROVE  Rows' /\ Standing'
<1>1. Topology(g) /\ \A d \in Doc : Owned(g, d) /\ Moving(g, d)
    BY DEF ReadInv, Standing
<1>2. Topology(g)'
    BY <1>1 DEF Topology, At, Nodes, Ids
<1>3. ASSUME NEW d \in Doc PROVE Owned(g, d)' /\ Moving(g, d)'
    <2>1. Owned(g, d) /\ Moving(g, d)
        BY <1>1
    <2>2. Owned(g, d)'
        BY <2>1 DEF Owned, At, resolve, Ids
    <2>3. CASE migration'[g] = migration[g]
        BY <2>1, <2>2, <2>3 DEF Moving
    <2>4. CASE migration'[g] = NoMigration
        BY <2>2, <2>4 DEF Moving
    <2> QED
        BY <2>3, <2>4
<1>4. Standing'
    BY <1>2, <1>3, Acting
<1> QED
    BY <1>4 DEF ReadInv, Rows

LEMMA PutReads ==
    ASSUME Careful, ReadInv, NEW g \in setting.gateways, NEW d \in Doc, NEW ts \in SUBSET Term,
           put(g, d, ts)
    PROVE  Rows' /\ Standing'
<1> DEFINE new == migration[g].node
<1>1. PICK S \in SUBSET ({resolve(g, d)} \cup Shadow(g, d)) :
          /\ Store([n \in S |-> {d}], writes', ts)
          /\ \/ /\ S = {resolve(g, d)} \cup Shadow(g, d) \/ d \in astray'
                /\ Acknowledged({d}, writes', ts)
             \/ UNCHANGED <<cache, counts, acked, indexed>>
    <2>1. g \in GW /\ meta[g] # <<>> /\ GatewayTypeOK
        BY ReadParts
    <2>2. \E S \in SUBSET ({resolve(g, d)} \cup Shadow(g, d)) :
              /\ Store([n \in S |-> {d}], writes', ts)
              /\ \/ /\ S = {resolve(g, d)} \cup Shadow(g, d) \/ d \in astray'
                    /\ record_write(g, ts) /\ Acknowledged({d}, writes', ts)
                 \/ UNCHANGED <<cache, counts, acked, indexed>>
        BY <2>1, PutIs
    <2> QED
        BY <2>2, Zenon
<1>0. astray' \in {astray, astray \cup {d}}
    BY ReadParts, PutIs
<1>2. UNCHANGED <<setting, meta, migration>> /\ writes' = writes + 1 /\ writes \in Nat
    BY ReadParts DEF put
<1>3. \A n \in DataNode, e \in Doc : docs'[n][e] = IF n \in S /\ e = d THEN writes + 1 ELSE docs[n][e]
    BY <1>1, <1>2 DEF Store
<1>4. /\ \A e \in Doc : acked'[e] = acked[e] \/ (e = d /\ acked'[e] = writes + 1)
      /\ S # {resolve(g, d)} \cup Shadow(g, d) => acked' = acked \/ d \in astray'
    BY <1>1, <1>2 DEF Acknowledged
<1>5. /\ \A e \in Doc : acked[e] \in Nat /\ acked[e] <= writes
      /\ \A n \in DataNode, e \in Doc : docs[n][e] \in Nat /\ docs[n][e] <= writes
    BY ReadParts DEF Rows
<1>6. Rows'
    BY <1>2, <1>3, <1>4, <1>5 DEF Rows
<1>7. /\ \A o \in DOMAIN meta[g] : At(g, o)' = At(g, o)
      /\ \A e \in Doc : resolve(g, e)' = resolve(g, e)
      /\ Nodes(g)' = Nodes(g)
    BY <1>2 DEF At, resolve, Nodes, Ids
<1>8. Topology(g)'
    <2>1. Topology(g)
        BY ReadParts
    <2> QED
        BY <1>2, <2>1 DEF Topology, At, Nodes, Ids
<1>9. Shadow(g, d) # {} => migration[g] # NoMigration /\ d \in migration[g].moved /\ Shadow(g, d) = {new}
    BY DEF Shadow, Migrating
<1>10. ASSUME NEW e \in Doc PROVE Owned(g, e)'
    <2>1. ASSUME e \notin astray' PROVE docs'[resolve(g, e)][e] >= acked'[e]
        <3>1. resolve(g, e) \in DataNode /\ docs[resolve(g, e)][e] >= acked[e]
            BY <2>1, <1>0, ReadParts DEF Owned
        <3> QED
            BY <2>1, <3>1, <1>2, <1>3, <1>4, <1>5
    <2>2. ASSUME NEW o \in DOMAIN meta[g], NEW i \in DOMAIN meta[g],
                 At(g, o) = resolve(g, e), Precedes(meta[g], o, i)
          PROVE  docs'[At(g, i)][e] = 0
        <3>1. docs[At(g, i)][e] = 0 /\ At(g, i) \in DataNode /\ At(g, i) \in Nodes(g)
            BY <2>2, ReadParts DEF Owned
        <3>2. At(g, i) # resolve(g, e)
            <4>1. i # o
                BY <2>2, ReadParts DEF Precedes
            <4> QED
                BY <2>2, <4>1, ReadParts DEF Topology
        <3>3. e = d => At(g, i) \notin S
            BY <1>9, <3>1, <3>2, ReadParts DEF Topology
        <3> QED
            BY <3>1, <3>3, <1>3
    <2> QED
        BY <2>1, <2>2, <1>2, <1>7 DEF Owned
<1>11. ASSUME NEW e \in Doc PROVE Moving(g, e)'
    <2> SUFFICES ASSUME migration[g] # NoMigration
                 PROVE  /\ e \notin migration[g].moved => docs'[new][e] = 0
                        /\ e \in migration[g].moved /\ migration[g].copied /\ e \notin astray' =>
                              docs'[new][e] >= acked'[e]
        BY <1>2 DEF Moving
    <2>1. new \in DataNode /\ new \notin Nodes(g) /\ new # resolve(g, d) /\ Moving(g, e)
        BY ReadParts DEF Topology
    <2>2. CASE e \notin migration[g].moved
        <3>1. e = d => new \notin S
            BY <1>9, <2>1, <2>2
        <3> QED
            BY <1>3, <2>1, <2>2, <3>1 DEF Moving
    <2>3. CASE e \in migration[g].moved /\ migration[g].copied /\ e \notin astray'
        <3>1. e = d => Shadow(g, d) = {new}
            BY <2>3 DEF Shadow, Migrating
        <3>2. docs[new][e] >= acked[e]
            BY <1>0, <2>1, <2>3 DEF Moving
        <3> QED
            BY <1>2, <1>3, <1>4, <1>5, <2>1, <2>3, <3>1, <3>2
    <2> QED
        BY <2>2, <2>3
<1> QED
    BY <1>2, <1>6, <1>8, <1>10, <1>11, Acting

LEMMA BatchReads ==
    ASSUME Careful, ReadInv, NEW g \in setting.gateways, NEW ts \in SUBSET Term, put_batch(g, ts)
    PROVE  Rows' /\ Standing'
<1>1. PICK S \in SUBSET {resolve(g, d) : d \in Doc} :
          /\ Store([n \in S |-> {d \in Doc : resolve(g, d) = n}], writes', ts)
          /\ \/ /\ \A d \in Doc : resolve(g, d) \in S \/ d \in astray'
                /\ Acknowledged(Doc, writes', ts)
             \/ UNCHANGED <<acked, indexed>>
    BY ReadParts, BatchIs
<1>0. astray \subseteq astray'
    BY ReadParts, BatchIs
<1>2. /\ UNCHANGED <<setting, meta, migration>> /\ writes' = writes + 1 /\ writes \in Nat
      /\ migration[g] = NoMigration
    BY ReadParts, CarefulIs DEF put_batch
<1>3. \A n \in DataNode, e \in Doc :
          docs'[n][e] = IF n \in S /\ resolve(g, e) = n THEN writes + 1 ELSE docs[n][e]
    BY <1>1, <1>2 DEF Store
<1>4. \/ acked' = acked
      \/ \A e \in Doc : acked'[e] = writes + 1 /\ (resolve(g, e) \in S \/ e \in astray')
    BY <1>1, <1>2 DEF Acknowledged
<1>5. /\ \A e \in Doc : acked[e] \in Nat /\ acked[e] <= writes
      /\ \A n \in DataNode, e \in Doc : docs[n][e] \in Nat /\ docs[n][e] <= writes
    BY ReadParts DEF Rows
<1>6. Rows'
    BY <1>2, <1>3, <1>4, <1>5 DEF Rows
<1>7. /\ \A o \in DOMAIN meta[g] : At(g, o)' = At(g, o)
      /\ \A e \in Doc : resolve(g, e)' = resolve(g, e)
    BY <1>2 DEF At, resolve, Ids
<1>8. Topology(g)'
    <2>1. Topology(g)
        BY ReadParts
    <2> QED
        BY <1>2, <2>1 DEF Topology, At, Nodes, Ids
<1>9. ASSUME NEW e \in Doc PROVE Owned(g, e)'
    <2>1. ASSUME e \notin astray' PROVE docs'[resolve(g, e)][e] >= acked'[e]
        <3>1. resolve(g, e) \in DataNode /\ docs[resolve(g, e)][e] >= acked[e]
            BY <2>1, <1>0, ReadParts DEF Owned
        <3> QED
            BY <2>1, <3>1, <1>2, <1>3, <1>4, <1>5
    <2>2. ASSUME NEW o \in DOMAIN meta[g], NEW i \in DOMAIN meta[g],
                 At(g, o) = resolve(g, e), Precedes(meta[g], o, i)
          PROVE  docs'[At(g, i)][e] = 0
        <3>1. docs[At(g, i)][e] = 0 /\ At(g, i) \in DataNode
            BY <2>2, ReadParts DEF Owned
        <3>2. At(g, i) # resolve(g, e)
            <4>1. i # o
                BY <2>2, ReadParts DEF Precedes
            <4> QED
                BY <2>2, <4>1, ReadParts DEF Topology
        <3> QED
            BY <3>1, <3>2, <1>3
    <2> QED
        BY <2>1, <2>2, <1>2, <1>7 DEF Owned
<1>10. \A e \in Doc : Moving(g, e)'
    BY <1>2 DEF Moving
<1> QED
    BY <1>2, <1>6, <1>8, <1>9, <1>10, Acting

LEMMA BeginReads ==
    ASSUME Careful, ReadInv, NEW g \in setting.gateways, NEW n \in DataNode, NEW r \in NodeRole,
           begin_migration(g, n, r)
    PROVE  Rows' /\ Standing'
<1> DEFINE moved == compute_moved_vshards(Nodes(g), n)
<1>1. /\ UNCHANGED <<setting, meta, docs, acked, astray, writes>> /\ n \notin Nodes(g) /\ r = "slave"
      /\ \A d \in Doc \ moved : docs[n][d] = 0
    BY CarefulIs DEF begin_migration, nodeVars, histVars, Nodes
<1>2. migration'[g] = [node |-> n, role |-> r, moved |-> moved, copied |-> FALSE]
    BY ReadParts DEF begin_migration, GatewayTypeOK, Nodes
<1>3. Nodes(g)' = Nodes(g) /\ \A i \in DOMAIN meta[g] : At(g, i)' = At(g, i)
    BY <1>1 DEF Nodes, Ids, At
<1>4. Topology(g)'
    <2>1. \A i, j \in DOMAIN meta[g] : At(g, i) = At(g, j) => i = j
        BY ReadParts DEF Topology
    <2>2. compute_moved_vshards(Nodes(g)', n) = moved
        BY <1>3
    <2> HIDE DEF moved
    <2>3. /\ migration'[g].node = n /\ migration'[g].role = r /\ migration'[g].moved = moved
        BY <1>2
    <2> QED
        BY <1>1, <1>3, <2>1, <2>2, <2>3 DEF Topology, At, compute_moved_vshards
<1>5. ASSUME NEW d \in Doc PROVE Owned(g, d)' /\ Moving(g, d)'
    <2>1. Owned(g, d)
        BY ReadParts
    <2> HIDE DEF moved
    <2>2. Owned(g, d)'
        <3>1. UNCHANGED <<meta, docs, acked, astray>>
            BY <1>1
        <3> QED
            BY <2>1, <3>1 DEF Owned, At, resolve, Ids
    <2>3. Moving(g, d)'
        BY <1>1, <1>2 DEF Moving
    <2> QED
        BY <2>2, <2>3
<1>6. Standing'
    BY <1>1, <1>4, <1>5, Acting
<1> QED
    BY <1>1, <1>6, ReadParts DEF Rows

(* The last of the nodes that hold a row of d is its owner. *)
LEMMA OwnerIsLatest ==
    ASSUME ReadInv, NEW g \in setting.gateways, migration[g] # NoMigration,
           NEW d \in migration[g].moved, docs[resolve(g, d)][d] # 0
    PROVE  /\ CopyPlaces(g, Copies(g), d) # {}
           /\ At(g, Latest(g, CopyPlaces(g, Copies(g), d))) = resolve(g, d)
<1> DEFINE P == CopyPlaces(g, Copies(g), d)
<1>1. d \in Doc
    BY ReadParts DEF Migration
<1>2. P = {i \in DOMAIN meta[g] : At(g, i) # migration[g].node /\ docs[At(g, i)][d] # 0}
    BY DEF CopyPlaces, Copies, At
<1>3. PICK o \in DOMAIN meta[g] : At(g, o) = resolve(g, d)
    BY <1>1, ReadParts
<1>4. o \in P
    <2>1. resolve(g, d) # migration[g].node
        BY <1>1, ReadParts DEF Topology
    <2> QED
        BY <1>2, <1>3, <2>1
<1> DEFINE l == Latest(g, P)
<1>5. l \in P /\ ~Precedes(meta[g], l, o)
    <2>1. P \subseteq DOMAIN meta[g] /\ P # {}
        BY <1>2, <1>4
    <2> HIDE DEF P
    <2> QED
        BY <1>4, <2>1, LatestIs, ReadParts
<1>6. ~Precedes(meta[g], o, l)
    <2>1. l \in DOMAIN meta[g] /\ docs[At(g, l)][d] # 0
        BY <1>2, <1>5
    <2> QED
        BY <1>1, <1>3, <2>1, ReadParts DEF Owned
<1>7. l = o
    <2>1. meta[g] \in Seq(NodeInfo) /\ l \in DOMAIN meta[g] /\ o \in DOMAIN meta[g]
        BY <1>2, <1>5, ReadParts
    <2>2. meta[g][l] \in NodeInfo /\ meta[g][o] \in NodeInfo /\ l \in Nat /\ o \in Nat
        BY <2>1
    <2>3. meta[g][l].role \in NodeRole /\ meta[g][o].role \in NodeRole
        BY <2>2 DEF NodeInfo
    <2> HIDE DEF l
    <2> QED
        BY <1>5, <1>6, <2>2, <2>3 DEF Precedes, NodeRole
<1> QED
    BY <1>3, <1>4, <1>7

LEMMA CatchUpReads ==
    ASSUME Careful, ReadInv, NEW g \in setting.gateways, catch_up(g)
    PROVE  Rows' /\ Standing'
<1> DEFINE new == migration[g].node
           latest(C, d) == Latest(g, CopyPlaces(g, C, d))
<1>1. PICK C \in SUBSET Copies(g) :
          /\ Copied(g, C)
          /\ \/ /\ \A c \in Copies(g) \ C : c[2] \in astray'
                /\ migration' = [migration EXCEPT ![g].copied = TRUE]
             \/ migration' = [migration EXCEPT ![g].copied = FALSE]
    BY ReadParts, CatchUpIs
<1>0. astray \subseteq astray'
    BY ReadParts, CatchUpIs
<1>2. UNCHANGED <<setting, meta, acked, writes>> /\ migration[g] # NoMigration
    BY DEF catch_up
<1>3. \A n \in DataNode, d \in Doc :
          docs'[n][d] = IF n # new \/ CopyPlaces(g, C, d) = {} THEN docs[n][d]
                        ELSE docs[At(g, latest(C, d))][d]
    BY <1>1, <1>2, ReadParts, CopiedIs DEF At
<1>4. /\ new \notin Nodes(g) /\ new \in DataNode /\ migration[g] \in Migration
      /\ g \in GW /\ migration \in [GW -> Migration \cup {NoMigration}]
    BY <1>2, ReadParts DEF Topology, GatewayTypeOK
<1>5. ASSUME NEW d \in Doc, CopyPlaces(g, C, d) # {} PROVE At(g, latest(C, d)) \in DataNode
    <2>1. CopyPlaces(g, C, d) \subseteq DOMAIN meta[g]
        BY DEF CopyPlaces
    <2>2. latest(C, d) \in DOMAIN meta[g]
        BY <1>5, <2>1, ReadParts, LatestIs
    <2> HIDE DEF latest
    <2> QED
        BY <2>2, ReadParts
<1>6. Rows'
    <2>1. \A d \in Doc : acked[d] <= writes /\ \A n \in DataNode : docs[n][d] <= writes
        BY ReadParts DEF Rows
    <2> HIDE DEF latest, new
    <2>2. ASSUME NEW d \in Doc, NEW n \in DataNode PROVE docs'[n][d] <= writes
        BY <1>3, <1>5, <2>1
    <2> QED
        BY <1>2, <2>1, <2>2 DEF Rows
<1>7. /\ migration'[g].node = new /\ migration'[g].role = migration[g].role
      /\ migration'[g].moved = migration[g].moved
      /\ migration'[g].copied => \A c \in Copies(g) \ C : c[2] \in astray'
    BY <1>1, <1>4 DEF Migration
<1>8. Topology(g)'
    <2>1. Topology(g)
        BY ReadParts
    <2> HIDE DEF new
    <2>2. /\ \A i, j \in DOMAIN meta[g] : At(g, i) = At(g, j) => i = j
          /\ migration[g].node \notin Nodes(g) /\ migration[g].role = "slave"
          /\ migration[g].moved = compute_moved_vshards(Nodes(g), migration[g].node)
        BY <1>2, <2>1 DEF Topology
    <2>3. Nodes(g)' = Nodes(g) /\ \A i : At(g, i)' = At(g, i)
        BY <1>2 DEF Nodes, Ids, At
    <2>4. compute_moved_vshards(Nodes(g)', migration'[g].node) = compute_moved_vshards(Nodes(g), new)
        BY <1>7, <2>3
    <2> QED
        BY <1>2, <1>7, <2>2, <2>3, <2>4 DEF Topology, new, compute_moved_vshards
<1>9. ASSUME NEW d \in Doc PROVE Owned(g, d)'
    <2>1. Owned(g, d) /\ resolve(g, d) \in Nodes(g) /\ resolve(g, d) \in DataNode
        BY ReadParts
    <2>2. ASSUME NEW n \in Nodes(g) PROVE docs'[n][d] = docs[n][d]
        BY <1>3, <1>4, ReadParts
    <2>3. resolve(g, d)' = resolve(g, d) /\ \A i : At(g, i)' = At(g, i)
        BY <1>2 DEF resolve, Ids, At
    <2>4. \A i \in DOMAIN meta[g] : docs'[At(g, i)][d] = docs[At(g, i)][d]
        BY <2>2, ReadParts
    <2>5. docs'[resolve(g, d)][d] = docs[resolve(g, d)][d]
        BY <2>1, <2>2
    <2> QED
        BY <1>0, <1>2, <2>1, <2>3, <2>4, <2>5 DEF Owned
<1>10. ASSUME NEW d \in Doc PROVE Moving(g, d)'
    <2>1. CASE d \notin migration[g].moved
        <3>1. docs[new][d] = 0
            BY <1>2, <2>1, ReadParts DEF Moving
        <3>2. CopyPlaces(g, C, d) = {}
            BY <2>1 DEF CopyPlaces, Copies
        <3>3. docs'[new][d] = 0
            BY <1>3, <1>4, <3>1, <3>2
        <3> HIDE DEF new
        <3> QED
            BY <1>7, <2>1, <3>3 DEF Moving
    <2>2. CASE /\ d \in migration[g].moved /\ d \notin astray'
               /\ \A c \in Copies(g) \ C : c[2] \in astray'
        <3>0. d \notin astray /\ CopyPlaces(g, C, d) = CopyPlaces(g, Copies(g), d)
            <4>1. \A i : <<i, d>> \in Copies(g) => <<i, d>> \in C
                BY <2>2
            <4> QED
                BY <1>0, <2>2, <4>1 DEF CopyPlaces
        <3>1. /\ docs[resolve(g, d)][d] >= acked[d] /\ acked[d] \in Nat
              /\ docs[new][d] \in Nat /\ docs[resolve(g, d)][d] \in Nat
            BY <1>4, <3>0, ReadParts DEF Owned
        <3>2. CASE docs[resolve(g, d)][d] = 0
            <4>1. acked[d] = 0
                BY <3>1, <3>2
            <4>2. docs'[new][d] \in Nat
                <5>1. CopyPlaces(g, C, d) # {} => docs[At(g, latest(C, d))][d] \in Nat
                    BY <1>5, ReadParts
                <5> HIDE DEF latest
                <5> QED
                    BY <1>3, <1>4, <3>1, <5>1
            <4> HIDE DEF new
            <4> QED
                BY <1>2, <1>7, <2>2, <4>1, <4>2 DEF Moving
        <3>3. CASE docs[resolve(g, d)][d] # 0
            <4>1. CopyPlaces(g, C, d) # {} /\ At(g, latest(C, d)) = resolve(g, d)
                BY <1>2, <2>2, <3>0, <3>3, OwnerIsLatest
            <4>2. docs'[new][d] = docs[resolve(g, d)][d]
                <5> HIDE DEF latest
                <5> QED
                    BY <1>3, <1>4, <4>1
            <4> HIDE DEF new
            <4> QED
                BY <1>2, <1>7, <2>2, <3>1, <4>2 DEF Moving
        <3> QED
            BY <3>2, <3>3
    <2>3. CASE /\ d \in migration[g].moved
               /\ d \in astray' \/ ~\A c \in Copies(g) \ C : c[2] \in astray'
        <3> HIDE DEF new
        <3> QED
            BY <1>7, <2>3 DEF Moving
    <2> QED
        BY <2>1, <2>2, <2>3
<1> QED
    BY <1>2, <1>6, <1>8, <1>9, <1>10, Acting

LEMMA CommitReads ==
    ASSUME Careful, ReadInv, NEW g \in setting.gateways, commit_migration(g)
    PROVE  Rows' /\ Standing'
<1> DEFINE new == migration[g].node
           moved == migration[g].moved
<1>0. PICK last : last = Len(meta[g]) + 1
    OBVIOUS
<1>1. /\ UNCHANGED <<setting, docs, acked, astray, writes>>
      /\ migration[g] # NoMigration /\ migration[g].copied
    BY CarefulIs DEF commit_migration, nodeVars, histVars
<1>2. migration'[g] = NoMigration
    BY ReadParts DEF commit_migration, GatewayTypeOK
<1>3. /\ new \notin Nodes(g) /\ new \in DataNode /\ migration[g].role = "slave"
      /\ moved = compute_moved_vshards(Nodes(g), new)
    BY <1>1, ReadParts DEF Topology
<1>4. /\ DOMAIN meta'[g] = 1..last /\ DOMAIN meta[g] = 1..Len(meta[g]) /\ Len(meta[g]) \in Nat
      /\ \A i \in DOMAIN meta[g] : meta'[g][i] = meta[g][i]
      /\ meta'[g][last] = [id |-> new, role |-> "slave"]
      /\ Nodes(g)' = Nodes(g) \cup {new}
    BY <1>0, <1>3, ReadParts, CommitAdds
<1>5. /\ \A i \in DOMAIN meta[g] : At(g, i)' = At(g, i) /\ At(g, i) \in Nodes(g)
      /\ At(g, last)' = new
      /\ DOMAIN meta'[g] = DOMAIN meta[g] \cup {last}
    <2>1. \A i \in DOMAIN meta[g] : At(g, i) \in Nodes(g)
        BY ReadParts
    <2>2. \A i \in DOMAIN meta[g] : At(g, i)' = At(g, i)
        BY <1>4 DEF At
    <2>3. At(g, last)' = new
        BY <1>4 DEF At
    <2>4. DOMAIN meta'[g] = DOMAIN meta[g] \cup {last}
        BY <1>0, <1>4
    <2> QED
        BY <2>1, <2>2, <2>3, <2>4
<1> HIDE DEF new
<1>6. Topology(g)'
    <2>1. \A i, j \in DOMAIN meta[g] : At(g, i) = At(g, j) => i = j
        BY ReadParts DEF Topology
    <2>2. \A i, j \in DOMAIN meta'[g] : At(g, i)' = At(g, j)' => i = j
        BY <1>3, <1>5, <2>1
    <2> QED
        BY <1>2, <2>2 DEF Topology
<1>7. ASSUME NEW d \in Doc
      PROVE  /\ d \in moved => resolve(g, d)' = new
             /\ d \notin moved => resolve(g, d)' = resolve(g, d)
    <2>1. resolve(g, d)' = Owner(Nodes(g) \cup {new}, d) /\ resolve(g, d) = Owner(Nodes(g), d)
        BY <1>4 DEF resolve, Nodes
    <2>2. Owner(Nodes(g) \cup {new}, d) \in {Owner(Nodes(g), d), new}
        BY <1>3, ReadParts, OwnerMoves
    <2>3. d \in moved <=> Owner(Nodes(g), d) # Owner(Nodes(g) \cup {new}, d)
        BY <1>3 DEF compute_moved_vshards
    <2> QED
        BY <2>1, <2>2, <2>3
<1>8. ASSUME NEW d \in Doc PROVE Owned(g, d)'
    <2>1. Owned(g, d) /\ resolve(g, d) \in Nodes(g) /\ Moving(g, d)
        BY ReadParts
    <2>2. CASE d \in moved
        <3>1. d \notin astray => docs[new][d] >= acked[d]
            BY <1>1, <2>1, <2>2 DEF Moving, new
        <3>2. ASSUME NEW o \in DOMAIN meta'[g], NEW i \in DOMAIN meta'[g], At(g, o)' = new
              PROVE  ~Precedes(meta'[g], o, i)
            <4>1. o = last
                BY <1>3, <1>5, <3>2
            <4>2. meta'[g][o].role = "slave" /\ i <= o /\ i \in Nat /\ o \in Nat
                BY <1>0, <1>4, <4>1
            <4> QED
                BY <4>2 DEF Precedes
        <3> QED
            BY <1>1, <1>7, <2>2, <3>1, <3>2 DEF Owned
    <2>3. CASE d \notin moved
        <3>1. /\ resolve(g, d)' = resolve(g, d) /\ docs[new][d] = 0
              /\ d \notin astray => docs[resolve(g, d)][d] >= acked[d]
            BY <1>1, <1>7, <2>1, <2>3 DEF Owned, Moving, new
        <3>2. ASSUME NEW o \in DOMAIN meta'[g], NEW i \in DOMAIN meta'[g],
                     At(g, o)' = resolve(g, d), Precedes(meta'[g], o, i)
              PROVE  docs[At(g, i)'][d] = 0
            <4>1. CASE i = last
                BY <1>5, <3>1, <4>1
            <4>2. CASE i \in DOMAIN meta[g]
                <5>1. o \in DOMAIN meta[g]
                    BY <1>3, <1>5, <2>1, <3>2
                <5>2. Precedes(meta[g], o, i)
                    BY <1>4, <3>2, <4>2, <5>1 DEF Precedes
                <5> QED
                    BY <1>5, <2>1, <3>2, <4>2, <5>1, <5>2 DEF Owned
            <4> QED
                BY <1>5, <4>1, <4>2
        <3> QED
            BY <1>1, <3>1, <3>2 DEF Owned
    <2> QED
        BY <2>2, <2>3
<1>9. \A d \in Doc : Moving(g, d)'
    BY <1>2 DEF Moving
<1>10. Standing'
    BY <1>1, <1>6, <1>8, <1>9, Acting
<1> QED
    BY <1>1, <1>10, ReadParts DEF Rows

(* The remaining calls move no row. *)
LEMMA CallsRead ==
    ASSUME Careful, ReadInv, NEW g \in setting.gateways,
           \/ \E t \in Term : broadcast_search(g, t)
           \/ \E d \in Doc : get(g, d)
           \/ abort_migration(g) \/ Restart(g)
    PROVE  Rows' /\ Standing'
<1>1. ASSUME NEW t \in Term, broadcast_search(g, t) PROVE Rows' /\ Standing'
    <2>1. UNCHANGED nodeVars
        BY <1>1, ReadParts, SearchIs
    <2>2. UNCHANGED <<setting, meta, docs, acked, astray, writes, migration>>
        BY <1>1, <2>1 DEF broadcast_search, nodeVars, histVars
    <2> QED
        BY <2>2, Resting
<1>2. ASSUME NEW d \in Doc, get(g, d) PROVE Rows' /\ Standing'
    <2>1. UNCHANGED nodeVars
        BY <1>2, Zenon DEF get, ReadFails, Fails
    <2>2. UNCHANGED <<setting, meta, docs, acked, astray, writes, migration>>
        BY <1>2, <2>1 DEF get, nodeVars, histVars
    <2> QED
        BY <2>2, Resting
<1>3. CASE abort_migration(g)
    <2>1. UNCHANGED <<setting, meta, docs, acked, astray, writes>> /\ migration'[g] = NoMigration
        BY <1>3, ReadParts DEF abort_migration, nodeVars, histVars, GatewayTypeOK
    <2> QED
        BY <2>1, Resting
<1>4. CASE Restart(g)
    <2>1. UNCHANGED <<setting, meta, docs, acked, astray, writes>> /\ migration'[g] = NoMigration
        BY <1>4, ReadParts DEF Restart, nodeVars, histVars, GatewayTypeOK
    <2> QED
        BY <2>1, Resting
<1> QED
    BY <1>1, <1>2, <1>3, <1>4

LEMMA StillReads ==
    ASSUME ReadInv, UNCHANGED <<setting, meta, docs, acked, astray, writes, migration>>
    PROVE  Rows' /\ Standing'
<1>1. Rows'
    BY DEF ReadInv, Rows
<1>2. ASSUME NEW g \in setting.gateways PROVE Topology(g)'
    <2>1. Topology(g)
        BY DEF ReadInv, Standing
    <2> QED
        BY <2>1 DEF Topology, At, Nodes, Ids
<1>3. ASSUME NEW g \in setting.gateways, NEW d \in Doc PROVE Owned(g, d)' /\ Moving(g, d)'
    <2>1. Owned(g, d) /\ Moving(g, d)
        BY DEF ReadInv, Standing
    <2>2. Owned(g, d)'
        BY <2>1 DEF Owned, At, resolve, Ids
    <2>3. Moving(g, d)'
        BY <2>1 DEF Moving
    <2> QED
        BY <2>2, <2>3
<1> QED
    BY <1>1, <1>2, <1>3 DEF Standing

LEMMA ReadInvStarts ==
    ASSUME GatewayInit
    PROVE  ReadInv
<1>1. GatewayTypeOK /\ Rooted
    BY InitTyped
<1>2. Rows
    BY DEF GatewayInit, Rows
<1>3. ASSUME NEW g \in setting.gateways PROVE Topology(g) /\ \A d \in Doc : Owned(g, d) /\ Moving(g, d)
    <2>1. /\ g \in GW /\ meta[g] = setting.nodes /\ migration[g] = NoMigration
          /\ \A i, j \in DOMAIN setting.nodes : setting.nodes[i].id = setting.nodes[j].id => i = j
        BY SettingIs DEF GatewayInit
    <2>2. Topology(g)
        BY <2>1 DEF Topology, At
    <2>3. ASSUME NEW d \in Doc PROVE Owned(g, d) /\ Moving(g, d)
        <3>1. resolve(g, d) \in DataNode
            BY <1>1, <2>1, NodesAre DEF Rooted
        <3>2. ASSUME NEW i \in DOMAIN meta[g] PROVE At(g, i) \in DataNode
            <4>1. meta[g][i] \in NodeInfo
                BY <1>1, <2>1 DEF GatewayTypeOK
            <4> QED
                BY <4>1 DEF NodeInfo, At
        <3>3. acked[d] = 0 /\ \A n \in DataNode : docs[n][d] = 0
            BY DEF GatewayInit
        <3> QED
            BY <2>1, <3>1, <3>2, <3>3 DEF Owned, Moving
    <2> QED
        BY <2>2, <2>3
<1> QED
    BY <1>1, <1>2, <1>3 DEF ReadInv, Standing

LEMMA StaysRead ==
    ASSUME Careful, ReadInv, GatewayNext
    PROVE  ReadInv'
<1>1. setting \in Settings
    BY DEF ReadInv, GatewayTypeOK
<1>2. GatewayTypeOK' /\ Rooted'
    BY StaysTyped, StaysRooted DEF ReadInv
<1>3. TimePasses => Rows' /\ Standing'
    BY StillReads DEF TimePasses, nodeVars
<1>4. ASSUME NEW g \in setting.gateways,
             \/ \E ts \in SUBSET Term : put_batch(g, ts) \/ \E d \in Doc : put(g, d, ts)
             \/ \E t \in Term : broadcast_search(g, t)
             \/ \E d \in Doc : get(g, d)
             \/ \E n \in DataNode, r \in NodeRole : begin_migration(g, n, r)
             \/ catch_up(g) \/ commit_migration(g) \/ abort_migration(g) \/ Restart(g)
      PROVE  Rows' /\ Standing'
    <2>1. ASSUME NEW ts \in SUBSET Term, put_batch(g, ts) PROVE Rows' /\ Standing'
        BY <2>1, BatchReads
    <2>2. ASSUME NEW ts \in SUBSET Term, NEW d \in Doc, put(g, d, ts) PROVE Rows' /\ Standing'
        BY <2>2, PutReads
    <2>3. ASSUME NEW n \in DataNode, NEW r \in NodeRole, begin_migration(g, n, r)
          PROVE  Rows' /\ Standing'
        BY <2>3, BeginReads
    <2>4. catch_up(g) => Rows' /\ Standing'
        BY CatchUpReads
    <2>5. commit_migration(g) => Rows' /\ Standing'
        BY CommitReads
    <2>6. ASSUME \/ \E t \in Term : broadcast_search(g, t)
                 \/ \E d \in Doc : get(g, d)
                 \/ abort_migration(g) \/ Restart(g)
          PROVE  Rows' /\ Standing'
        BY <2>6, CallsRead
    <2> QED
        BY <1>4, <2>1, <2>2, <2>3, <2>4, <2>5, <2>6
<1>5. TimePasses \/ \E g \in setting.gateways :
          \/ \E ts \in SUBSET Term : put_batch(g, ts) \/ \E d \in Doc : put(g, d, ts)
          \/ \E t \in Term : broadcast_search(g, t)
          \/ \E d \in Doc : get(g, d)
          \/ \E n \in DataNode, r \in NodeRole : begin_migration(g, n, r)
          \/ catch_up(g) \/ commit_migration(g) \/ abort_migration(g) \/ Restart(g)
    BY <1>1, StepIs, Zenon
<1>6. Rows' /\ Standing'
    BY <1>3, <1>4, <1>5
<1> QED
    BY <1>2, <1>6 DEF ReadInv

(* With one gateway whose callers are careful, a read finds the newest      *)
(* write reported done, before, during and after any number of migrations, *)
(* wherever calls fail (put, begin_migration, catch_up, commit_migration). *)
THEOREM ReadsFindNewest == ASSUME Careful PROVE GatewaySpec => []ReadsNewest
<1>1. GatewayInit => ReadInv
    BY ReadInvStarts
<1>2. ReadInv /\ [GatewayNext]_allVars => ReadInv'
    <2> SUFFICES ASSUME ReadInv, [GatewayNext]_allVars PROVE ReadInv'
        OBVIOUS
    <2>1. CASE GatewayNext
        BY <2>1, StaysRead
    <2>2. CASE UNCHANGED allVars
        <3>1. GatewayTypeOK' /\ Rooted'
            BY <2>2 DEF allVars, gatewayVars, nodeVars, histVars, ReadInv, GatewayTypeOK, Rooted
        <3>2. Rows' /\ Standing'
            BY <2>2, StillReads DEF allVars, gatewayVars, nodeVars, histVars
        <3> QED
            BY <3>1, <3>2 DEF ReadInv
    <2> QED
        BY <2>1, <2>2
<1>3. ReadInv => ReadsNewest
    BY StandingReads
<1> QED
    BY <1>1, <1>2, <1>3, PTL DEF GatewaySpec
-----------------------------------------------------------------------------
(* Migrations that are not committed                                       *)

(* No gateway has registered a node since the start. *)
Home == \A g \in setting.gateways : meta[g] = setting.nodes

(* The topology only grows, no node joins that is registered already, and  *)
(* the owners have the newest rows.                                        *)
HomeInv ==
    /\ GatewayTypeOK /\ Rooted /\ Rows
    /\ \A g \in setting.gateways :
          /\ Len(meta[g]) >= Len(setting.nodes)
          /\ migration[g] # NoMigration => migration[g].node \notin Nodes(g)
    /\ Home => ReadsNewest

LEMMA HomeParts ==
    ASSUME HomeInv, NEW g \in setting.gateways
    PROVE  /\ g \in GW /\ meta[g] # <<>> /\ GatewayTypeOK /\ Rows /\ writes \in Nat
           /\ Len(meta[g]) \in Nat /\ Len(setting.nodes) \in Nat
           /\ Len(meta[g]) >= Len(setting.nodes)
           /\ migration[g] # NoMigration =>
                 migration[g].node \notin Nodes(g) /\ migration[g].node \in DataNode
           /\ \A d \in Doc : /\ resolve(g, d) \in Nodes(g) /\ resolve(g, d) \in DataNode
                             /\ acked[d] \in Nat /\ acked[d] <= writes
                             /\ \A n \in DataNode : docs[n][d] \in Nat /\ docs[n][d] <= writes
<1>1. g \in GW /\ setting.nodes \in Seq(NodeInfo)
    BY SettingIs DEF HomeInv, GatewayTypeOK
<1>2. meta[g] # <<>> /\ GatewayTypeOK /\ Rows
    BY <1>1 DEF HomeInv, Rooted
<1>3. meta[g] \in Seq(NodeInfo) /\ writes \in Nat
    BY <1>1, <1>2, SettingIs DEF GatewayTypeOK
<1>4. \A d \in Doc : resolve(g, d) \in Nodes(g) /\ resolve(g, d) \in DataNode
    BY <1>1, <1>2, NodesAre
<1>5. migration[g] # NoMigration => migration[g].node \in DataNode
    BY <1>1, <1>2 DEF GatewayTypeOK, Migration
<1>6. \A d \in Doc : /\ acked[d] \in Nat /\ acked[d] <= writes
                     /\ \A n \in DataNode : docs[n][d] \in Nat /\ docs[n][d] <= writes
    BY <1>2, BoundsAssumption DEF GatewayTypeOK, Rows
<1> QED
    BY <1>1, <1>2, <1>3, <1>4, <1>5, <1>6 DEF HomeInv

(* Of a step of gateway g that registers no node it is left to show that   *)
(* the owners, the same for every gateway, still have the newest rows.     *)
LEMMA StaysHome ==
    ASSUME HomeInv, NEW g \in setting.gateways, UNCHANGED <<setting, meta>>,
           \A h \in GW \ {g} : migration'[h] = migration[h],
           migration'[g] # NoMigration => migration'[g].node \notin Nodes(g),
           Home => \A d \in Doc \ astray' : docs'[resolve(g, d)][d] >= acked'[d],
           GatewayTypeOK', Rooted', Rows'
    PROVE  HomeInv'
<1>1. \A h : Nodes(h)' = Nodes(h) /\ \A d : resolve(h, d)' = resolve(h, d)
    BY DEF Nodes, Ids, resolve
<1>2. ASSUME NEW h \in setting'.gateways
      PROVE  /\ Len(meta[h])' >= Len(setting.nodes)'
             /\ migration'[h] # NoMigration => migration'[h].node \notin Nodes(h)'
    <2>1. h \in setting.gateways /\ h \in GW
        BY HomeParts
    <2>2. CASE h = g
        BY <1>1, <2>1, <2>2, HomeParts
    <2>3. CASE h # g
        BY <1>1, <2>1, <2>3, HomeParts
    <2> QED
        BY <2>2, <2>3
<1>3. ASSUME Home' PROVE ReadsNewest'
    <2>1. Home
        BY <1>3 DEF Home
    <2>2. ASSUME NEW h \in setting.gateways, NEW d \in Doc PROVE resolve(h, d) = resolve(g, d)
        BY <2>1 DEF Home, resolve
    <2>3. \A h \in setting.gateways, d \in Doc \ astray' : docs'[resolve(h, d)'][d] >= acked'[d]
        BY <1>1, <2>1, <2>2
    <2> QED
        BY <2>3 DEF ReadsNewest
<1> QED
    BY <1>2, <1>3 DEF HomeInv

(* A step that leaves rows and topology as they are. *)
LEMMA RestsHome ==
    ASSUME HomeInv, NEW g \in setting.gateways,
           UNCHANGED <<setting, meta, docs, acked, astray, writes>>,
           \A h \in GW \ {g} : migration'[h] = migration[h],
           migration'[g] # NoMigration => migration'[g].node \notin Nodes(g),
           GatewayTypeOK', Rooted'
    PROVE  HomeInv'
<1>1. Rows'
    BY DEF HomeInv, Rows
<1>2. Home => \A d \in Doc \ astray' : docs'[resolve(g, d)][d] >= acked'[d]
    BY DEF HomeInv, ReadsNewest
<1> QED
    BY <1>1, <1>2, StaysHome

LEMMA PutHome ==
    ASSUME HomeInv, NEW g \in setting.gateways, NEW d \in Doc, NEW ts \in SUBSET Term,
           put(g, d, ts), GatewayTypeOK', Rooted'
    PROVE  HomeInv'
<1>1. g \in GW /\ meta[g] # <<>> /\ GatewayTypeOK /\ writes \in Nat
    BY HomeParts
<1>2. /\ astray' \in {astray, astray \cup {d}}
      /\ \E S \in SUBSET ({resolve(g, d)} \cup Shadow(g, d)) :
            /\ Store([n \in S |-> {d}], writes', ts)
            /\ \/ /\ S = {resolve(g, d)} \cup Shadow(g, d) \/ d \in astray'
                  /\ record_write(g, ts) /\ Acknowledged({d}, writes', ts)
               \/ UNCHANGED <<cache, counts, acked, indexed>>
    BY <1>1, PutIs
<1>3. PICK S \in SUBSET ({resolve(g, d)} \cup Shadow(g, d)) :
          /\ Store([n \in S |-> {d}], writes', ts)
          /\ \/ /\ S = {resolve(g, d)} \cup Shadow(g, d) \/ d \in astray'
                /\ Acknowledged({d}, writes', ts)
             \/ UNCHANGED <<cache, counts, acked, indexed>>
    BY <1>2, Zenon
<1>4. UNCHANGED <<setting, meta, migration>> /\ writes' = writes + 1
    BY DEF put
<1>5. \A n \in DataNode, e \in Doc : docs'[n][e] = IF n \in S /\ e = d THEN writes + 1 ELSE docs[n][e]
    BY <1>3, <1>4 DEF Store
<1>6. \A e \in Doc : \/ acked'[e] = acked[e]
                     \/ e = d /\ acked'[e] = writes + 1 /\ (resolve(g, d) \in S \/ d \in astray')
    BY <1>3, <1>4 DEF Acknowledged
<1>7. \A e \in Doc : /\ acked[e] \in Nat /\ acked[e] <= writes
                     /\ resolve(g, e) \in DataNode
                     /\ \A n \in DataNode : docs[n][e] \in Nat /\ docs[n][e] <= writes
    BY HomeParts
<1>8. Rows'
    BY <1>1, <1>4, <1>5, <1>6, <1>7 DEF Rows
<1>9. ASSUME Home, NEW e \in Doc \ astray' PROVE docs'[resolve(g, e)][e] >= acked'[e]
    <2>1. e \notin astray
        BY <1>2, <1>9
    <2>2. docs[resolve(g, e)][e] >= acked[e]
        BY <1>9, <2>1 DEF HomeInv, ReadsNewest
    <2> QED
        BY <1>1, <1>5, <1>6, <1>7, <1>9, <2>2
<1>10. migration'[g] # NoMigration => migration'[g].node \notin Nodes(g)
    BY <1>4, HomeParts
<1> QED
    BY <1>4, <1>8, <1>9, <1>10, StaysHome

LEMMA BatchHome ==
    ASSUME HomeInv, NEW g \in setting.gateways, NEW ts \in SUBSET Term, put_batch(g, ts),
           GatewayTypeOK', Rooted'
    PROVE  HomeInv'
<1>1. g \in GW /\ meta[g] # <<>> /\ GatewayTypeOK /\ writes \in Nat
    BY HomeParts
<1>2. /\ astray \subseteq astray'
      /\ \E S \in SUBSET {resolve(g, d) : d \in Doc} :
            /\ Store([n \in S |-> {d \in Doc : resolve(g, d) = n}], writes', ts)
            /\ \/ /\ \A d \in Doc : resolve(g, d) \in S \/ d \in astray'
                  /\ Acknowledged(Doc, writes', ts)
               \/ UNCHANGED <<acked, indexed>>
    BY <1>1, BatchIs
<1>3. PICK S \in SUBSET {resolve(g, d) : d \in Doc} :
          /\ Store([n \in S |-> {d \in Doc : resolve(g, d) = n}], writes', ts)
          /\ \/ /\ \A d \in Doc : resolve(g, d) \in S \/ d \in astray'
                /\ Acknowledged(Doc, writes', ts)
             \/ UNCHANGED <<acked, indexed>>
    BY <1>2
<1>4. UNCHANGED <<setting, meta, migration>> /\ writes' = writes + 1
    BY DEF put_batch
<1>5. \A n \in DataNode, e \in Doc :
          docs'[n][e] = IF n \in S /\ resolve(g, e) = n THEN writes + 1 ELSE docs[n][e]
    BY <1>3, <1>4 DEF Store
<1>6. \/ acked' = acked
      \/ \A e \in Doc : acked'[e] = writes + 1 /\ (resolve(g, e) \in S \/ e \in astray')
    BY <1>3, <1>4 DEF Acknowledged
<1>7. \A e \in Doc : /\ acked[e] \in Nat /\ acked[e] <= writes
                     /\ resolve(g, e) \in DataNode
                     /\ \A n \in DataNode : docs[n][e] \in Nat /\ docs[n][e] <= writes
    BY HomeParts
<1>8. Rows'
    BY <1>1, <1>4, <1>5, <1>6, <1>7 DEF Rows
<1>9. ASSUME Home, NEW e \in Doc \ astray' PROVE docs'[resolve(g, e)][e] >= acked'[e]
    <2>1. docs[resolve(g, e)][e] >= acked[e]
        BY <1>2, <1>9 DEF HomeInv, ReadsNewest
    <2> QED
        BY <1>1, <1>5, <1>6, <1>7, <1>9, <2>1
<1>10. migration'[g] # NoMigration => migration'[g].node \notin Nodes(g)
    BY <1>4, HomeParts
<1> QED
    BY <1>4, <1>8, <1>9, <1>10, StaysHome

LEMMA CatchUpHome ==
    ASSUME HomeInv, NEW g \in setting.gateways, catch_up(g), GatewayTypeOK', Rooted'
    PROVE  HomeInv'
<1>1. g \in GW /\ meta[g] # <<>> /\ GatewayTypeOK /\ writes \in Nat
    BY HomeParts
<1>2. /\ migration[g] # NoMigration
      /\ UNCHANGED <<setting, meta, acked, writes>>
    BY DEF catch_up
<1>3. /\ astray \subseteq astray'
      /\ \E C \in SUBSET Copies(g) :
            /\ Copied(g, C)
            /\ \/ migration' = [migration EXCEPT ![g].copied = TRUE]
               \/ migration' = [migration EXCEPT ![g].copied = FALSE]
    BY <1>1, CatchUpIs, Zenon
<1>4. PICK C \in SUBSET Copies(g) :
          /\ Copied(g, C)
          /\ \/ migration' = [migration EXCEPT ![g].copied = TRUE]
             \/ migration' = [migration EXCEPT ![g].copied = FALSE]
    BY <1>3
<1>5. \A n \in DataNode, d \in Doc :
          docs'[n][d] = IF n # migration[g].node \/ CopyPlaces(g, C, d) = {} THEN docs[n][d]
                        ELSE docs[meta[g][Latest(g, CopyPlaces(g, C, d))].id][d]
    BY <1>1, <1>2, <1>4, CopiedIs
<1>6. ASSUME NEW d \in Doc, CopyPlaces(g, C, d) # {}
      PROVE  meta[g][Latest(g, CopyPlaces(g, C, d))].id \in DataNode
    <2>1. CopyPlaces(g, C, d) \subseteq DOMAIN meta[g] /\ meta[g] \in Seq(NodeInfo)
        BY <1>1 DEF CopyPlaces, GatewayTypeOK
    <2>2. Latest(g, CopyPlaces(g, C, d)) \in DOMAIN meta[g]
        BY <1>1, <1>6, <2>1, LatestIs
    <2>3. meta[g][Latest(g, CopyPlaces(g, C, d))] \in NodeInfo
        BY <2>1, <2>2
    <2> QED
        BY <2>3 DEF NodeInfo
<1>7. ASSUME NEW n \in DataNode, NEW d \in Doc PROVE docs'[n][d] <= writes
    <2>1. PICK row : row = meta[g][Latest(g, CopyPlaces(g, C, d))].id
        OBVIOUS
    <2>2. docs'[n][d] = docs[n][d] \/ (row \in DataNode /\ docs'[n][d] = docs[row][d])
        BY <1>5, <1>6, <2>1
    <2> QED
        BY <2>2, HomeParts
<1>8. Rows'
    BY <1>2, <1>7, HomeParts DEF Rows
<1>9. ASSUME Home, NEW e \in Doc \ astray' PROVE docs'[resolve(g, e)][e] >= acked'[e]
    <2>1. docs[resolve(g, e)][e] >= acked[e]
        BY <1>3, <1>9 DEF HomeInv, ReadsNewest
    <2>2. resolve(g, e) # migration[g].node /\ resolve(g, e) \in DataNode
        BY <1>2, HomeParts
    <2>3. docs'[resolve(g, e)][e] = docs[resolve(g, e)][e]
        BY <1>5, <2>2
    <2> QED
        BY <1>2, <2>1, <2>3
<1>10. /\ \A h \in GW \ {g} : migration'[h] = migration[h]
       /\ migration'[g].node = migration[g].node
    <2>1. migration \in [GW -> Migration \cup {NoMigration}] /\ migration[g] \in Migration
        BY <1>1, <1>2 DEF GatewayTypeOK
    <2> QED
        BY <1>4, <2>1 DEF Migration
<1>11. migration'[g] # NoMigration => migration'[g].node \notin Nodes(g)
    BY <1>2, <1>10, HomeParts
<1> QED
    BY <1>2, <1>8, <1>9, <1>10, <1>11, StaysHome

(* With the first node registered the topology is another, for good. *)
LEMMA CommitHome ==
    ASSUME HomeInv, NEW g \in setting.gateways, commit_migration(g), GatewayTypeOK', Rooted'
    PROVE  HomeInv'
<1>1. g \in GW /\ GatewayTypeOK /\ Len(meta[g]) >= Len(setting.nodes)
      /\ Len(meta[g]) \in Nat /\ Len(setting.nodes) \in Nat
    BY HomeParts
<1>2. UNCHANGED <<setting, docs, acked, astray, writes>>
    BY DEF commit_migration, nodeVars, histVars
<1>3. Rows'
    BY <1>2 DEF HomeInv, Rows
<1>4. \A h \in GW \ {g} : meta'[h] = meta[h] /\ migration'[h] = migration[h]
    BY <1>1 DEF commit_migration, GatewayTypeOK
<1>5. meta'[g] \in Seq(NodeInfo) /\ Len(meta'[g]) = Len(meta[g]) + 1 /\ migration'[g] = NoMigration
    <2>1. PICK joined : meta' = [meta EXCEPT ![g] = Append(meta[g], joined)]
        BY DEF commit_migration
    <2>2. meta \in [GW -> Seq(NodeInfo)] /\ migration \in [GW -> Migration \cup {NoMigration}]
          /\ (meta \in [GW -> Seq(NodeInfo)])'
        BY <1>1 DEF GatewayTypeOK
    <2>3. meta'[g] = Append(meta[g], joined)
        BY <1>1, <2>1, <2>2
    <2>4. Len(meta'[g]) = Len(meta[g]) + 1 /\ meta'[g] \in Seq(NodeInfo)
        BY <1>1, <2>2, <2>3
    <2> QED
        BY <1>1, <2>2, <2>4 DEF commit_migration
<1>6. ASSUME NEW h \in setting.gateways
      PROVE  /\ Len(meta'[h]) >= Len(setting.nodes)
             /\ migration'[h] # NoMigration => migration'[h].node \notin Nodes(h)'
    <2>1. CASE h = g
        BY <1>1, <1>5, <2>1
    <2>2. CASE h # g
        <3>1. h \in GW /\ meta'[h] = meta[h] /\ migration'[h] = migration[h]
            BY <1>4, <2>2, HomeParts
        <3>2. Nodes(h)' = Nodes(h)
            BY <3>1 DEF Nodes, Ids
        <3> QED
            BY <3>1, <3>2, HomeParts
    <2> QED
        BY <2>1, <2>2
<1>7. ~Home'
    <2>1. meta'[g] # setting.nodes
        BY <1>1, <1>5
    <2> QED
        BY <1>2, <2>1 DEF Home
<1> QED
    BY <1>2, <1>3, <1>6, <1>7 DEF HomeInv

(* The remaining calls move no row and register no node. *)
LEMMA CallsHome ==
    ASSUME HomeInv, NEW g \in setting.gateways, GatewayTypeOK', Rooted',
           \/ \E t \in Term : broadcast_search(g, t)
           \/ \E d \in Doc : get(g, d)
           \/ \E n \in DataNode, r \in NodeRole : begin_migration(g, n, r)
           \/ abort_migration(g) \/ Restart(g)
    PROVE  HomeInv'
<1>1. g \in GW /\ GatewayTypeOK /\ migration \in [GW -> Migration \cup {NoMigration}]
      /\ (migration[g] # NoMigration => migration[g].node \notin Nodes(g))
    BY HomeParts DEF GatewayTypeOK
<1>2. ASSUME NEW t \in Term, broadcast_search(g, t) PROVE HomeInv'
    <2>1. UNCHANGED nodeVars
        BY <1>1, <1>2, SearchIs
    <2>2. UNCHANGED <<setting, meta, docs, acked, astray, writes, migration>>
        BY <1>2, <2>1 DEF broadcast_search, nodeVars, histVars
    <2> QED
        BY <1>1, <2>2, RestsHome
<1>3. ASSUME NEW d \in Doc, get(g, d) PROVE HomeInv'
    <2>1. UNCHANGED nodeVars
        BY <1>3, Zenon DEF get, ReadFails, Fails
    <2>2. UNCHANGED <<setting, meta, docs, acked, astray, writes, migration>>
        BY <1>3, <2>1 DEF get, nodeVars, histVars
    <2> QED
        BY <1>1, <2>2, RestsHome
<1>4. ASSUME NEW n \in DataNode, NEW r \in NodeRole, begin_migration(g, n, r) PROVE HomeInv'
    <2>1. UNCHANGED <<setting, meta, docs, acked, astray, writes>> /\ n \notin Nodes(g)
        BY <1>4 DEF begin_migration, nodeVars, histVars, Nodes
    <2>2. PICK moved : migration' = [migration EXCEPT ![g] =
                  [node |-> n, role |-> r, moved |-> moved, copied |-> FALSE]]
        BY <1>4 DEF begin_migration
    <2>3. /\ \A h \in GW \ {g} : migration'[h] = migration[h]
          /\ migration'[g].node = n
        BY <1>1, <2>2
    <2> QED
        BY <2>1, <2>3, RestsHome
<1>5. CASE abort_migration(g) \/ Restart(g)
    <2>1. UNCHANGED <<setting, meta, docs, acked, astray, writes>>
        BY <1>5 DEF abort_migration, Restart, nodeVars, histVars
    <2>2. migration' = [migration EXCEPT ![g] = NoMigration]
        BY <1>5 DEF abort_migration, Restart
    <2>3. migration'[g] = NoMigration /\ \A h \in GW \ {g} : migration'[h] = migration[h]
        BY <1>1, <2>2
    <2> QED
        BY <2>1, <2>3, RestsHome
<1> QED
    BY <1>2, <1>3, <1>4, <1>5

LEMMA StillHome ==
    ASSUME HomeInv, UNCHANGED <<setting, meta, docs, acked, astray, writes, migration>>,
           GatewayTypeOK', Rooted'
    PROVE  HomeInv'
<1>1. Rows'
    BY DEF HomeInv, Rows
<1>2. \A g : Nodes(g)' = Nodes(g) /\ \A d : resolve(g, d)' = resolve(g, d)
    BY DEF Nodes, Ids, resolve
<1>3. Home' => ReadsNewest'
    BY <1>2 DEF HomeInv, Home, ReadsNewest
<1> QED
    BY <1>1, <1>2, <1>3 DEF HomeInv

(* As long as no migration has been committed, every owner has the newest  *)
(* write reported done of each of its documents: for any number of         *)
(* gateways and whatever their callers do, with double writes, copies made *)
(* in part, migrations aborted and begun anew, nodes that fail, break off  *)
(* or answer late, and gateways built anew; only the documents of a call   *)
(* that was reported done by the answer to another are left out (put,      *)
(* put_batch, begin_migration, catch_up, abort_migration; gateway.rs:282). *)
THEOREM AbortedMigrationsHarmNothing ==
    GatewaySpec => []((\A g \in setting.gateways : meta[g] = setting.nodes) => ReadsNewest)
<1>1. GatewayInit => HomeInv
    <2> SUFFICES ASSUME GatewayInit PROVE HomeInv
        OBVIOUS
    <2>1. GatewayTypeOK /\ Rooted
        BY InitTyped
    <2>2. Rows
        BY DEF GatewayInit, Rows
    <2>3. \A g \in setting.gateways : meta[g] = setting.nodes /\ migration[g] = NoMigration
        BY <2>1, SettingIs DEF GatewayInit
    <2>4. ReadsNewest
        <3> SUFFICES ASSUME NEW g \in setting.gateways, NEW d \in Doc
                     PROVE  docs[resolve(g, d)][d] >= acked[d]
            BY DEF ReadsNewest
        <3>1. g \in GW
            BY <2>1, SettingIs DEF GatewayTypeOK
        <3>2. resolve(g, d) \in DataNode
            BY <2>1, <3>1, NodesAre DEF Rooted
        <3> QED
            BY <3>2 DEF GatewayInit
    <2>5. Len(setting.nodes) \in Nat
        BY <2>1, SettingIs DEF GatewayTypeOK
    <2> QED
        BY <2>1, <2>2, <2>3, <2>4, <2>5 DEF HomeInv
<1>2. HomeInv /\ [GatewayNext]_allVars => HomeInv'
    <2> SUFFICES ASSUME HomeInv, [GatewayNext]_allVars PROVE HomeInv'
        OBVIOUS
    <2>1. CASE UNCHANGED allVars
        <3>1. GatewayTypeOK' /\ Rooted'
            BY <2>1 DEF allVars, gatewayVars, nodeVars, histVars, HomeInv, GatewayTypeOK, Rooted
        <3> QED
            BY <2>1, <3>1, StillHome DEF allVars, gatewayVars, nodeVars, histVars
    <2>2. CASE GatewayNext
        <3>1. GatewayTypeOK' /\ Rooted'
            BY <2>2, StaysTyped, StaysRooted DEF HomeInv
        <3>2. TimePasses => HomeInv'
            BY <3>1, StillHome DEF TimePasses, nodeVars
        <3>3. ASSUME NEW g \in setting.gateways,
                     \/ \E ts \in SUBSET Term : put_batch(g, ts) \/ \E d \in Doc : put(g, d, ts)
                     \/ \E t \in Term : broadcast_search(g, t)
                     \/ \E d \in Doc : get(g, d)
                     \/ \E n \in DataNode, r \in NodeRole : begin_migration(g, n, r)
                     \/ catch_up(g) \/ commit_migration(g) \/ abort_migration(g) \/ Restart(g)
              PROVE  HomeInv'
            <4>1. ASSUME NEW ts \in SUBSET Term, put_batch(g, ts) PROVE HomeInv'
                BY <3>1, <4>1, BatchHome
            <4>2. ASSUME NEW ts \in SUBSET Term, NEW d \in Doc, put(g, d, ts) PROVE HomeInv'
                BY <3>1, <4>2, PutHome
            <4>3. catch_up(g) => HomeInv'
                BY <3>1, CatchUpHome
            <4>4. commit_migration(g) => HomeInv'
                BY <3>1, CommitHome
            <4>5. ASSUME \/ \E t \in Term : broadcast_search(g, t)
                         \/ \E d \in Doc : get(g, d)
                         \/ \E n \in DataNode, r \in NodeRole : begin_migration(g, n, r)
                         \/ abort_migration(g) \/ Restart(g)
                  PROVE  HomeInv'
                BY <3>1, <4>5, CallsHome
            <4> QED
                BY <3>3, <4>1, <4>2, <4>3, <4>4, <4>5
        <3>4. setting \in Settings
            BY DEF HomeInv, GatewayTypeOK
        <3>5. TimePasses \/ \E g \in setting.gateways :
                  \/ \E ts \in SUBSET Term : put_batch(g, ts) \/ \E d \in Doc : put(g, d, ts)
                  \/ \E t \in Term : broadcast_search(g, t)
                  \/ \E d \in Doc : get(g, d)
                  \/ \E n \in DataNode, r \in NodeRole : begin_migration(g, n, r)
                  \/ catch_up(g) \/ commit_migration(g) \/ abort_migration(g) \/ Restart(g)
            BY <2>2, <3>4, StepIs, Zenon
        <3> QED
            BY <3>2, <3>3, <3>5
    <2> QED
        BY <2>1, <2>2
<1>3. HomeInv => ((\A g \in setting.gateways : meta[g] = setting.nodes) => ReadsNewest)
    BY DEF HomeInv, Home
<1> QED
    BY <1>1, <1>2, <1>3, PTL DEF GatewaySpec
=============================================================================

