--------------------------- MODULE RaftRpcProofs ---------------------------
(***************************************************************************)
(* Theorems about RaftRpc, for any finite set of nodes and any bounds: its *)
(* states are typed, a term has at most one leader, and the logs have the  *)
(* entries of a term in one order, the followers in the end all of them.   *)
(***************************************************************************)
EXTENDS RaftRpc, FiniteSetTheorems, TLAPS

---------------------------------------------------------------------------
(* Types *)

(* The parts of a message. *)
LEMMA MessageParts ==
    ASSUME NEW m \in Message
    PROVE  /\ m.from \in Node /\ m.term \in Nat
           /\ m.type \in {"VoteReq", "VoteResp", "Append", "AppendAck"}
           /\ m.type = "Append" => m.entry \in Entry
BY DEF Message

(* A quorum is a number of nodes, and two quorums are more than all nodes. *)
LEMMA QuorumIsHalf ==
    /\ Cardinality(Node) \in Nat
    /\ quorum \in Nat \ {0}
    /\ quorum + quorum > Cardinality(Node)
<1>1. Cardinality(Node) \in Nat
    BY NodeAssumption, FS_CardinalityType
<1> QED
    BY <1>1 DEF quorum

(* The log after an Append is typed and not shorter. *)
LEMMA ExtendedTyped ==
    ASSUME NEW l \in Seq(Entry), NEW e \in Entry
    PROVE  Extended(l, e) \in Seq(Entry) /\ Len(Extended(l, e)) >= Len(l)
BY DEF Extended

(* What is left to be sent is typed. *)
LEMMA RestTyped ==
    ASSUME TypeOK, NEW n \in Node, NEW p \in sending[n].to
    PROVE  /\ Rest(n, p) \in [to : SUBSET Node, msg : Message \cup {<<>>}]
           /\ Rest(n, p).to = sending[n].to \ {p}
           /\ Rest(n, p).to # {} => Rest(n, p).msg = sending[n].msg
           /\ sending[n].msg \in Message
<1>1. sending[n] \in [to : SUBSET Node, msg : Message \cup {<<>>}]
    BY DEF TypeOK
<1>2. sending[n].msg \in Message
    BY DEF TypeOK, Idle
<1>3. CASE sending[n].to = {p}
    BY <1>2, <1>3 DEF Rest, Nothing
<1>4. CASE sending[n].to # {p}
    BY <1>1, <1>2, <1>4 DEF Rest
<1> QED
    BY <1>3, <1>4

(* The message at the head of an inbox. *)
LEMMA HeadTyped ==
    ASSUME TypeOK, NEW n \in Node, NEW type, Receives(n, type)
    PROVE  /\ Head(inbox[n]) \in Message /\ Head(inbox[n]).type = type
           /\ inbox' \in [Node -> Seq(Message)]
<1>1. inbox \in [Node -> Seq(Message)] /\ inbox[n] \in Seq(Message) /\ inbox[n] # <<>>
    BY DEF TypeOK, Receives
<1>2. Head(inbox[n]) \in Message /\ Tail(inbox[n]) \in Seq(Message)
    BY <1>1
<1> QED
    BY <1>1, <1>2 DEF Receives

(* An answer keeps what is being sent typed. *)
LEMMA ReplyTyped ==
    ASSUME TypeOK, NEW n \in Node, NEW p \in Node, NEW m \in Message, Reply(n, p, m)
    PROVE  /\ sending' \in [Node -> [to : SUBSET Node, msg : Message \cup {<<>>}]]
           /\ \A k \in Node : sending'[k].to # {} => sending'[k].msg \in Message
<1>1. [to |-> {p}, msg |-> m] \in [to : SUBSET Node, msg : Message \cup {<<>>}]
    OBVIOUS
<1>2. \A k \in Node : sending'[k] = IF k = n THEN [to |-> {p}, msg |-> m] ELSE sending[k]
    BY DEF TypeOK, Reply
<1> QED
    BY <1>1, <1>2 DEF TypeOK, Reply, Idle

(* The initial state is typed. *)
LEMMA InitTyped == Init => TypeOK
<1> SUFFICES ASSUME Init PROVE TypeOK
    OBVIOUS
<1>1. votes \in [Node -> 0..quorum]
    BY QuorumIsHalf DEF Init
<1>2. \A n \in Node : Len(log[n]) = 0 /\ commit[n] = 0 /\ sending[n].to = {}
    BY DEF Init, Nothing
<1>3. sending \in [Node -> [to : SUBSET Node, msg : Message \cup {<<>>}]]
    BY DEF Init, Nothing
<1> QED
    BY <1>1, <1>2, <1>3 DEF Init, TypeOK, Idle

(* Sending a message, and being refused. *)
LEMMA SendTyped ==
    ASSUME TypeOK, NEW n \in Node, Send(n) \/ SendFails(n)
    PROVE  TypeOK'
<1>1. CASE Send(n)
    <2>1. PICK p \in sending[n].to :
            /\ sending' = [sending EXCEPT ![n] = Rest(n, p)]
            /\ inbox' = [inbox EXCEPT ![p] = Append(@, sending[n].msg)]
            /\ commit' = IF sending[n].to = {p} /\ sending[n].msg.type = "Append"
                         THEN [commit EXCEPT ![n] = Len(log[n])]
                         ELSE commit
        BY <1>1 DEF Send
    <2>2. UNCHANGED <<role, term, votedFor, votes, log, elected, setting, elections, proposals>>
        BY <1>1 DEF Send
    <2>3. p \in Node /\ sending[n].msg \in Message
        BY RestTyped DEF TypeOK
    <2>4. inbox' \in [Node -> Seq(Message)]
        BY <2>1, <2>3 DEF TypeOK
    <2>5. /\ sending' \in [Node -> [to : SUBSET Node, msg : Message \cup {<<>>}]]
          /\ \A k \in Node : sending'[k].to # {} => sending'[k].msg \in Message
        <3>1. /\ Rest(n, p) \in [to : SUBSET Node, msg : Message \cup {<<>>}]
              /\ Rest(n, p).to # {} => Rest(n, p).msg \in Message
            BY <2>3, RestTyped
        <3>2. \A k \in Node : sending'[k] = IF k = n THEN Rest(n, p) ELSE sending[k]
            BY <2>1 DEF TypeOK
        <3> QED
            BY <2>1, <3>1, <3>2 DEF TypeOK, Idle
    <2>6. commit' \in [Node -> Nat] /\ \A k \in Node : commit'[k] <= Len(log'[k])
        BY <2>1, <2>2 DEF TypeOK
    <2> QED
        BY <2>2, <2>4, <2>5, <2>6 DEF TypeOK, Idle
<1>2. CASE SendFails(n)
    <2>1. PICK p \in sending[n].to :
            sending' = [sending EXCEPT ![n] =
                            IF sending[n].msg.type = "Append" THEN Nothing ELSE Rest(n, p)]
        BY <1>2 DEF SendFails
    <2> DEFINE r == IF sending[n].msg.type = "Append" THEN Nothing ELSE Rest(n, p)
    <2>2. /\ Rest(n, p) \in [to : SUBSET Node, msg : Message \cup {<<>>}]
          /\ Rest(n, p).to # {} => Rest(n, p).msg \in Message
        BY RestTyped
    <2>3. /\ sending' \in [Node -> [to : SUBSET Node, msg : Message \cup {<<>>}]]
          /\ \A k \in Node : sending'[k].to # {} => sending'[k].msg \in Message
        <3>1. /\ Nothing \in [to : SUBSET Node, msg : Message \cup {<<>>}]
              /\ Nothing.to = {}
            BY DEF Nothing
        <3>2. /\ r \in [to : SUBSET Node, msg : Message \cup {<<>>}]
              /\ r.to # {} => r.msg \in Message
            BY <2>2, <3>1
        <3>3. sending' = [sending EXCEPT ![n] = r]
            BY <2>1
        <3> HIDE DEF r
        <3>4. \A k \in Node : sending'[k] = IF k = n THEN r ELSE sending[k]
            BY <3>3 DEF TypeOK
        <3> QED
            BY <3>2, <3>3, <3>4 DEF TypeOK, Idle
    <2> QED
        BY <1>2, <2>3 DEF SendFails, TypeOK, Idle
<1> QED
    BY <1>1, <1>2

(* The handlers of elections. *)
LEMMA VoteTyped ==
    ASSUME TypeOK, NEW n \in Node, HandleVoteReq(n) \/ HandleVoteResp(n)
    PROVE  TypeOK'
<1> DEFINE m == Head(inbox[n])
<1>1. CASE HandleVoteReq(n)
    <2>1. /\ m \in Message /\ m.from \in Node /\ m.term \in Nat
          /\ inbox' \in [Node -> Seq(Message)]
        BY <1>1, HeadTyped, MessageParts DEF HandleVoteReq
    <2>2. term' \in [Node -> Nat]
        BY <1>1, <2>1 DEF HandleVoteReq, TypeOK
    <2>3. role' \in [Node -> {"follower", "candidate", "leader"}]
        BY <1>1 DEF HandleVoteReq, TypeOK
    <2>4. votedFor' \in [Node -> Node \cup {None}]
        BY <1>1, <2>1 DEF HandleVoteReq, TypeOK
    <2>5. /\ sending' \in [Node -> [to : SUBSET Node, msg : Message \cup {<<>>}]]
          /\ \A k \in Node : sending'[k].to # {} => sending'[k].msg \in Message
        <3>1. PICK g \in BOOLEAN : Reply(n, m.from, [type |-> "VoteResp", from |-> n,
                                                    term |-> term'[n], granted |-> g])
            BY <1>1 DEF HandleVoteReq
        <3>2. [type |-> "VoteResp", from |-> n, term |-> term'[n], granted |-> g] \in Message
            BY <2>2 DEF Message
        <3> QED
            BY <2>1, <3>1, <3>2, ReplyTyped
    <2>6. UNCHANGED <<votes, log, commit, elected, setting, elections, proposals>>
        BY <1>1 DEF HandleVoteReq
    <2> QED
        BY <2>1, <2>2, <2>3, <2>4, <2>5, <2>6 DEF TypeOK, Idle
<1>2. CASE HandleVoteResp(n)
    <2>1. inbox' \in [Node -> Seq(Message)]
        BY <1>2, HeadTyped DEF HandleVoteResp
    <2>2. votes' \in [Node -> 0..quorum]
        BY <1>2, QuorumIsHalf DEF HandleVoteResp, TypeOK
    <2>3. role' \in [Node -> {"follower", "candidate", "leader"}]
        BY <1>2 DEF HandleVoteResp, TypeOK
    <2>4. elected' \subseteq Nat \X Node
        BY <1>2 DEF HandleVoteResp, TypeOK
    <2>5. UNCHANGED <<term, votedFor, log, commit, sending, setting, elections, proposals>>
        BY <1>2 DEF HandleVoteResp
    <2> QED
        BY <2>1, <2>2, <2>3, <2>4, <2>5 DEF TypeOK, Idle
<1> QED
    BY <1>1, <1>2

(* The handlers of the log. *)
LEMMA AppendTyped ==
    ASSUME TypeOK, NEW n \in Node, HandleAppend(n) \/ HandleAppendAck(n)
    PROVE  TypeOK'
<1> DEFINE m == Head(inbox[n])
<1>1. CASE HandleAppend(n)
    <2>1. /\ m \in Message /\ m.from \in Node /\ m.term \in Nat /\ m.entry \in Entry
          /\ inbox' \in [Node -> Seq(Message)]
        BY <1>1, HeadTyped, MessageParts DEF HandleAppend
    <2>2. term' \in [Node -> Nat] /\ role' \in [Node -> {"follower", "candidate", "leader"}]
        BY <1>1, <2>1 DEF HandleAppend, TypeOK
    <2>3. log[n] \in Seq(Entry) /\ Extended(log[n], m.entry) \in Seq(Entry)
          /\ Len(Extended(log[n], m.entry)) >= Len(log[n])
        BY <2>1, ExtendedTyped DEF TypeOK
    <2>4. /\ log' = [log EXCEPT ![n] = IF m.term >= term[n] THEN Extended(@, m.entry) ELSE @]
          /\ commit' = [commit EXCEPT ![n] = IF m.term >= term[n] THEN Len(log'[n]) ELSE @]
        BY <1>1 DEF HandleAppend
    <2>5. log' \in [Node -> Seq(Entry)]
        BY <2>3, <2>4 DEF TypeOK
    <2>6. commit' \in [Node -> Nat] /\ \A k \in Node : commit'[k] <= Len(log'[k])
        BY <2>3, <2>4, <2>5 DEF TypeOK
    <2>7. /\ sending' \in [Node -> [to : SUBSET Node, msg : Message \cup {<<>>}]]
          /\ \A k \in Node : sending'[k].to # {} => sending'[k].msg \in Message
        <3> DEFINE ok == m.term >= term[n]
        <3>1. Reply(n, m.from, [type |-> "AppendAck", from |-> n, term |-> m.term, ok |-> ok])
            BY <1>1, Zenon DEF HandleAppend
        <3>3. ok \in BOOLEAN
            OBVIOUS
        <3> HIDE DEF ok
        <3>2. [type |-> "AppendAck", from |-> n, term |-> m.term, ok |-> ok] \in Message
            BY <2>1, <3>3 DEF Message
        <3> QED
            BY <2>1, <3>1, <3>2, ReplyTyped
    <2>8. UNCHANGED <<votedFor, votes, elected, setting, elections, proposals>>
        BY <1>1 DEF HandleAppend
    <2> QED
        BY <2>1, <2>2, <2>5, <2>6, <2>7, <2>8 DEF TypeOK, Idle
<1>2. CASE HandleAppendAck(n)
    <2>1. inbox' \in [Node -> Seq(Message)]
        BY <1>2, HeadTyped DEF HandleAppendAck
    <2>2. commit' \in [Node -> Nat] /\ \A k \in Node : commit'[k] <= Len(log[k])
        BY <1>2 DEF HandleAppendAck, TypeOK
    <2>3. UNCHANGED <<role, term, votedFor, votes, log, sending, elected, setting, elections,
                      proposals>>
        BY <1>2 DEF HandleAppendAck
    <2> QED
        BY <2>1, <2>2, <2>3 DEF TypeOK, Idle
<1> QED
    BY <1>1, <1>2

(* Standing for election, and proposing. *)
LEMMA StartTyped ==
    ASSUME TypeOK, NEW n \in Node, Elect(n) \/ \E op \in Op : Propose(n, op)
    PROVE  TypeOK'
<1>1. CASE Elect(n)
    <2>1. term' \in [Node -> Nat] /\ role' \in [Node -> {"follower", "candidate", "leader"}]
          /\ votedFor' \in [Node -> Node \cup {None}]
        BY <1>1 DEF Elect, TypeOK
    <2>2. votes' \in [Node -> 0..quorum]
        BY <1>1, QuorumIsHalf DEF Elect, TypeOK
    <2>3. [type |-> "VoteReq", from |-> n, term |-> term'[n]] \in Message
        BY <2>1 DEF Message
    <2>4. /\ sending' \in [Node -> [to : SUBSET Node, msg : Message \cup {<<>>}]]
          /\ \A k \in Node : sending'[k].to # {} => sending'[k].msg \in Message
        BY <1>1, <2>3 DEF Elect, TypeOK, Idle
    <2>5. UNCHANGED <<log, commit, inbox, elected, setting, proposals>> /\ elections' = elections + 1
        BY <1>1 DEF Elect
    <2> QED
        BY <2>1, <2>2, <2>4, <2>5 DEF TypeOK, Idle
<1>2. ASSUME NEW op \in Op, Propose(n, op) PROVE TypeOK'
    <2> DEFINE entry == [term |-> term[n], op |-> op]
               m     == [type |-> "Append", from |-> n, term |-> term[n], entry |-> entry]
    <2>1. entry \in Entry /\ m \in Message
        BY DEF Entry, Message, TypeOK
    <2>2. /\ log' = [log EXCEPT ![n] = Append(@, entry)]
          /\ sending' = [sending EXCEPT ![n] = [to |-> Node \ {n}, msg |-> m]]
          /\ UNCHANGED <<role, term, votedFor, votes, commit, inbox, elected, setting, elections>>
          /\ proposals' = proposals + 1
        BY <1>2 DEF Propose
    <2> HIDE DEF entry, m
    <2>3. log' \in [Node -> Seq(Entry)] /\ \A k \in Node : Len(log'[k]) >= Len(log[k])
        BY <2>1, <2>2 DEF TypeOK
    <2>4. \A k \in Node : commit'[k] <= Len(log'[k])
        BY <2>2, <2>3 DEF TypeOK
    <2>5. /\ sending' \in [Node -> [to : SUBSET Node, msg : Message \cup {<<>>}]]
          /\ \A k \in Node : sending'[k].to # {} => sending'[k].msg \in Message
        BY <2>1, <2>2 DEF TypeOK, Idle
    <2> QED
        BY <2>2, <2>3, <2>4, <2>5 DEF TypeOK, Idle
<1> QED
    BY <1>1, <1>2

(* Every step keeps the types. *)
LEMMA StepTyped == TypeOK /\ [Next]_vars => TypeOK'
<1> SUFFICES ASSUME TypeOK, [Next]_vars PROVE TypeOK'
    OBVIOUS
<1>1. CASE Next
    BY <1>1, SendTyped, VoteTyped, AppendTyped, StartTyped DEF Next, Handle
<1>2. CASE UNCHANGED vars
    BY <1>2 DEF vars, TypeOK, Idle
<1> QED
    BY <1>1, <1>2

(* Every reachable state is typed; in particular no node commits beyond    *)
(* its log, whichever acknowledgement or Append commits it.                *)
THEOREM TypeCorrect == Spec => []TypeOK
BY InitTyped, StepTyped, PTL DEF Spec

---------------------------------------------------------------------------
(* The way of a ballot                                                     *)

(* m asks for a vote for c in term t; m is p's vote in term t. *)
Asks(m, c, t) == m.type = "VoteReq" /\ m.from = c /\ m.term = t
Grants(m, p, t) == m.type = "VoteResp" /\ m.from = p /\ m.term = t /\ m.granted

(* Where the ballot of p for candidate c in term t is: still to be sent by *)
(* c, in p's inbox, to be sent back by p as a vote, or in c's inbox; i is  *)
(* the place in the inbox.                                                 *)
OnItsWay(t, p, c, k, i) ==
    \/ k = 1 /\ i = 0 /\ p \in sending[c].to /\ Asks(sending[c].msg, c, t)
    \/ k = 2 /\ i \in 1..Len(inbox[p]) /\ Asks(inbox[p][i], c, t)
    \/ k = 3 /\ i = 0 /\ c \in sending[p].to /\ Grants(sending[p].msg, p, t)
    \/ k = 4 /\ i \in 1..Len(inbox[c]) /\ Grants(inbox[c][i], p, t)

Underway(t, p, c) == \E k \in 1..4, i \in Nat : OnItsWay(t, p, c, k, i)
Answered(t, p, c) == \E k \in 3..4, i \in Nat : OnItsWay(t, p, c, k, i)

(* A ballot is in one place: no vote is ever counted twice. *)
Once ==
    \A t \in Nat, p, c \in Node : \A k, l \in 1..4, i, j \in Nat :
        OnItsWay(t, p, c, k, i) /\ OnItsWay(t, p, c, l, j) => k = l /\ i = j

(* The queue after its first message is taken. *)
LEMMA TailAt ==
    ASSUME NEW S, NEW q \in Seq(S), q # <<>>
    PROVE  /\ Len(q) \in Nat \ {0} /\ Len(Tail(q)) = Len(q) - 1 /\ Head(q) = q[1]
           /\ \A i \in 1..Len(Tail(q)) : Tail(q)[i] = q[i + 1]
OBVIOUS

(* Handling a message: every ballot underway was underway before, a vote   *)
(* sent back takes the place of the request that was at the head, and a    *)
(* vote that was at the head is gone.                                      *)
LEMMA ReceiveFlow ==
    ASSUME TypeOK, TypeOK', Once, NEW n \in Node, NEW type, Receives(n, type),
           \A m \in Node : m # n => sending'[m] = sending[m],
           \A t \in Nat : sending'[n].to # {} => ~Asks(sending'[n].msg, n, t),
           \A t \in Nat, c \in Node :
                c \in sending'[n].to /\ Grants(sending'[n].msg, n, t) => Asks(Head(inbox[n]), c, t)
    PROVE  /\ Once'
           /\ \A t \in Nat, p, c \in Node : Underway(t, p, c)' => Underway(t, p, c)
           /\ \A t \in Nat, p, c \in Node : Answered(t, p, c)' =>
                \/ Answered(t, p, c)
                \/ p = n /\ c \in sending'[n].to /\ Grants(sending'[n].msg, n, t)
           /\ \A t \in Nat, p \in Node : Grants(Head(inbox[n]), p, t) =>
                Underway(t, p, n) /\ ~Underway(t, p, n)'
<1>1. /\ sending[n].to = {}
      /\ inbox[n] \in Seq(Message) /\ inbox[n] # <<>>
      /\ inbox'[n] = Tail(inbox[n])
      /\ \A m \in Node : m # n => inbox'[m] = inbox[m]
    BY DEF Receives, Idle, TypeOK
<1>2. /\ Len(inbox[n]) \in Nat \ {0} /\ Len(Tail(inbox[n])) = Len(inbox[n]) - 1
      /\ Head(inbox[n]) = inbox[n][1]
      /\ \A i \in 1..Len(Tail(inbox[n])) : Tail(inbox[n])[i] = inbox[n][i + 1]
    BY <1>1, TailAt
<1>3. ASSUME NEW t \in Nat, NEW p \in Node, NEW c \in Node, NEW k \in 1..4, NEW i \in Nat,
             OnItsWay(t, p, c, k, i)'
      PROVE  \/ k = 1 /\ i = 0 /\ OnItsWay(t, p, c, 1, 0)
             \/ k = 2 /\ p # n /\ OnItsWay(t, p, c, 2, i)
             \/ k = 2 /\ p = n /\ i >= 1 /\ OnItsWay(t, p, c, 2, i + 1)
             \/ k = 3 /\ i = 0 /\ p # n /\ OnItsWay(t, p, c, 3, 0)
             \/ /\ k = 3 /\ i = 0 /\ p = n /\ OnItsWay(t, p, c, 2, 1)
                /\ c \in sending'[n].to /\ Grants(sending'[n].msg, n, t)
             \/ k = 4 /\ c # n /\ OnItsWay(t, p, c, 4, i)
             \/ k = 4 /\ c = n /\ i >= 1 /\ OnItsWay(t, p, c, 4, i + 1)
    <2>1. CASE k = 1
        BY <1>3, <2>1 DEF OnItsWay
    <2>2. CASE k = 2
        <3>1. i \in 1..Len(inbox'[p]) /\ Asks(inbox'[p][i], c, t)
            BY <1>3, <2>2 DEF OnItsWay, Asks
        <3>2. CASE p = n
            <4>1. i \in 1..Len(Tail(inbox[n])) /\ Asks(inbox[n][i + 1], c, t)
                BY <1>1, <1>2, <3>1, <3>2
            <4> QED
                BY <1>2, <2>2, <3>2, <4>1 DEF OnItsWay
        <3>3. CASE p # n
            BY <1>1, <2>2, <3>1, <3>3 DEF OnItsWay
        <3> QED
            BY <3>2, <3>3
    <2>3. CASE k = 3
        BY <1>1, <1>2, <1>3, <2>3 DEF OnItsWay
    <2>4. CASE k = 4
        <3>1. i \in 1..Len(inbox'[c]) /\ Grants(inbox'[c][i], p, t)
            BY <1>3, <2>4 DEF OnItsWay, Grants
        <3>2. CASE c = n
            <4>1. i \in 1..Len(Tail(inbox[n])) /\ Grants(inbox[n][i + 1], p, t)
                BY <1>1, <1>2, <3>1, <3>2
            <4> QED
                BY <1>2, <2>4, <3>2, <4>1 DEF OnItsWay
        <3>3. CASE c # n
            BY <1>1, <2>4, <3>1, <3>3 DEF OnItsWay
        <3> QED
            BY <3>2, <3>3
    <2> QED
        BY <2>1, <2>2, <2>3, <2>4
<1>4. Once'
    <2> SUFFICES ASSUME NEW t \in Nat, NEW p \in Node, NEW c \in Node,
                        NEW k \in 1..4, NEW l \in 1..4, NEW i \in Nat, NEW j \in Nat,
                        OnItsWay(t, p, c, k, i)', OnItsWay(t, p, c, l, j)'
                 PROVE  k = l /\ i = j
        BY DEF Once
    <2>1. \A u, v \in 1..4, x, y \in Nat :
            OnItsWay(t, p, c, u, x) /\ OnItsWay(t, p, c, v, y) => u = v /\ x = y
        BY DEF Once
    <2> HIDE DEF OnItsWay
    <2>2. i + 1 \in Nat /\ j + 1 \in Nat
        OBVIOUS
    <2> QED
        BY <1>3, <2>1, <2>2
<1>5. ASSUME NEW t \in Nat, NEW p \in Node, NEW c \in Node, Underway(t, p, c)'
      PROVE  Underway(t, p, c)
    <2>1. PICK k \in 1..4, i \in Nat : OnItsWay(t, p, c, k, i)'
        BY <1>5 DEF Underway
    <2>2. i + 1 \in Nat
        OBVIOUS
    <2> QED
        BY <1>3, <2>1, <2>2 DEF Underway
<1>6. ASSUME NEW t \in Nat, NEW p \in Node, NEW c \in Node, Answered(t, p, c)'
      PROVE  \/ Answered(t, p, c)
             \/ p = n /\ c \in sending'[n].to /\ Grants(sending'[n].msg, n, t)
    <2>1. PICK k \in 3..4, i \in Nat : OnItsWay(t, p, c, k, i)'
        BY <1>6 DEF Answered
    <2>2. i + 1 \in Nat /\ k \in 1..4 /\ 3 \in 3..4 /\ 4 \in 3..4 /\ 0 \in Nat
        OBVIOUS
    <2> QED
        BY <1>3, <2>1, <2>2 DEF Answered
<1>7. ASSUME NEW t \in Nat, NEW p \in Node, Grants(Head(inbox[n]), p, t)
      PROVE  Underway(t, p, n) /\ ~Underway(t, p, n)'
    <2>1. OnItsWay(t, p, n, 4, 1)
        BY <1>2, <1>7 DEF OnItsWay
    <2>2. \A v \in 1..4, y \in Nat : OnItsWay(t, p, n, v, y) => v = 4 /\ y = 1
        BY <2>1 DEF Once
    <2>3. ASSUME NEW k \in 1..4, NEW i \in Nat, OnItsWay(t, p, n, k, i)' PROVE FALSE
        <3>1. i + 1 \in Nat /\ (i >= 1 => i + 1 # 1)
            OBVIOUS
        <3> QED
            BY <1>3, <2>2, <2>3, <3>1
    <2> QED
        BY <2>1, <2>3 DEF Underway
<1> QED
    BY <1>4, <1>5, <1>6, <1>7

(* Sending a message moves a ballot into an inbox. *)
LEMMA SendFlow ==
    ASSUME TypeOK, TypeOK', Once, NEW n \in Node, Send(n),
           ~Idle(n) => sending[n].msg.from = n
    PROVE  /\ Once'
           /\ \A t \in Nat, p, c \in Node : Underway(t, p, c)' => Underway(t, p, c)
           /\ \A t \in Nat, p, c \in Node : Answered(t, p, c)' => Answered(t, p, c)
<1>1. PICK r \in sending[n].to :
        /\ sending' = [sending EXCEPT ![n] = Rest(n, r)]
        /\ inbox' = [inbox EXCEPT ![r] = Append(@, sending[n].msg)]
    BY DEF Send
<1>2. /\ r \in Node /\ sending[n].msg \in Message /\ sending[n].msg.from = n
      /\ Rest(n, r).to = sending[n].to \ {r}
      /\ Rest(n, r).to # {} => Rest(n, r).msg = sending[n].msg
    BY <1>1, RestTyped DEF TypeOK, Idle
<1>3. /\ sending'[n] = Rest(n, r)
      /\ \A m \in Node : m # n => sending'[m] = sending[m]
      /\ inbox[r] \in Seq(Message) /\ inbox'[r] = Append(inbox[r], sending[n].msg)
      /\ \A m \in Node : m # r => inbox'[m] = inbox[m]
    BY <1>1, <1>2 DEF TypeOK
<1>4. /\ Len(inbox[r]) \in Nat /\ Len(inbox'[r]) = Len(inbox[r]) + 1
      /\ inbox'[r][Len(inbox[r]) + 1] = sending[n].msg
      /\ \A i \in 1..Len(inbox[r]) : inbox'[r][i] = inbox[r][i]
    BY <1>2, <1>3
<1>5. ASSUME NEW t \in Nat, NEW p \in Node, NEW c \in Node, NEW k \in 1..4, NEW i \in Nat,
             OnItsWay(t, p, c, k, i)'
      PROVE  \/ ~(k = 1 /\ c = n /\ p = r) /\ ~(k = 3 /\ p = n /\ c = r) /\ OnItsWay(t, p, c, k, i)
             \/ k = 2 /\ p = r /\ c = n /\ i = Len(inbox[r]) + 1 /\ OnItsWay(t, p, c, 1, 0)
             \/ k = 4 /\ c = r /\ p = n /\ i = Len(inbox[r]) + 1 /\ OnItsWay(t, p, c, 3, 0)
    <2>1. CASE k = 1
        BY <1>2, <1>3, <1>5, <2>1 DEF OnItsWay
    <2>2. CASE k = 2
        <3>1. CASE p = r /\ i = Len(inbox[r]) + 1
            BY <1>1, <1>2, <1>4, <1>5, <2>2, <3>1 DEF OnItsWay, Asks
        <3>2. CASE ~(p = r /\ i = Len(inbox[r]) + 1)
            <4>1. i \in 1..Len(inbox'[p]) /\ Asks(inbox'[p][i], c, t)
                BY <1>5, <2>2 DEF OnItsWay, Asks
            <4>2. i \in 1..Len(inbox[p]) /\ inbox'[p][i] = inbox[p][i]
                BY <1>3, <1>4, <3>2, <4>1
            <4> QED
                BY <2>2, <4>1, <4>2 DEF OnItsWay
        <3> QED
            BY <3>1, <3>2
    <2>3. CASE k = 3
        BY <1>2, <1>3, <1>5, <2>3 DEF OnItsWay
    <2>4. CASE k = 4
        <3>1. CASE c = r /\ i = Len(inbox[r]) + 1
            BY <1>1, <1>2, <1>4, <1>5, <2>4, <3>1 DEF OnItsWay, Grants
        <3>2. CASE ~(c = r /\ i = Len(inbox[r]) + 1)
            <4>1. i \in 1..Len(inbox'[c]) /\ Grants(inbox'[c][i], p, t)
                BY <1>5, <2>4 DEF OnItsWay, Grants
            <4>2. i \in 1..Len(inbox[c]) /\ inbox'[c][i] = inbox[c][i]
                BY <1>3, <1>4, <3>2, <4>1
            <4> QED
                BY <2>4, <4>1, <4>2 DEF OnItsWay
        <3> QED
            BY <3>1, <3>2
    <2> QED
        BY <2>1, <2>2, <2>3, <2>4
<1>6. Once'
    <2> SUFFICES ASSUME NEW t \in Nat, NEW p \in Node, NEW c \in Node,
                        NEW k \in 1..4, NEW l \in 1..4, NEW i \in Nat, NEW j \in Nat,
                        OnItsWay(t, p, c, k, i)', OnItsWay(t, p, c, l, j)'
                 PROVE  k = l /\ i = j
        BY DEF Once
    <2>1. \A u, v \in 1..4, x, y \in Nat :
            OnItsWay(t, p, c, u, x) /\ OnItsWay(t, p, c, v, y) => u = v /\ x = y
        BY DEF Once
    <2>2. \/ ~(k = 1 /\ c = n /\ p = r) /\ ~(k = 3 /\ p = n /\ c = r) /\ OnItsWay(t, p, c, k, i)
          \/ k = 2 /\ p = r /\ c = n /\ i = Len(inbox[r]) + 1 /\ OnItsWay(t, p, c, 1, 0)
          \/ k = 4 /\ c = r /\ p = n /\ i = Len(inbox[r]) + 1 /\ OnItsWay(t, p, c, 3, 0)
        BY <1>5
    <2>3. \/ ~(l = 1 /\ c = n /\ p = r) /\ ~(l = 3 /\ p = n /\ c = r) /\ OnItsWay(t, p, c, l, j)
          \/ l = 2 /\ p = r /\ c = n /\ j = Len(inbox[r]) + 1 /\ OnItsWay(t, p, c, 1, 0)
          \/ l = 4 /\ c = r /\ p = n /\ j = Len(inbox[r]) + 1 /\ OnItsWay(t, p, c, 3, 0)
        BY <1>5
    <2>4. CASE OnItsWay(t, p, c, k, i) /\ OnItsWay(t, p, c, l, j)
        BY <2>1, <2>4
    <2>5. CASE ~(OnItsWay(t, p, c, k, i) /\ OnItsWay(t, p, c, l, j))
        BY <2>1, <2>2, <2>3, <2>5
    <2> QED
        BY <2>4, <2>5
<1>7. ASSUME NEW t \in Nat, NEW p \in Node, NEW c \in Node, Underway(t, p, c)'
      PROVE  Underway(t, p, c)
    <2>1. PICK k \in 1..4, i \in Nat : OnItsWay(t, p, c, k, i)'
        BY <1>7 DEF Underway
    <2> QED
        BY <1>5, <2>1 DEF Underway
<1>8. ASSUME NEW t \in Nat, NEW p \in Node, NEW c \in Node, Answered(t, p, c)'
      PROVE  Answered(t, p, c)
    <2>1. PICK k \in 3..4, i \in Nat : OnItsWay(t, p, c, k, i)'
        BY <1>8 DEF Answered
    <2>2. k \in 1..4 /\ 3 \in 3..4 /\ 0 \in Nat
        OBVIOUS
    <2> QED
        BY <1>5, <2>1, <2>2 DEF Answered
<1> QED
    BY <1>6, <1>7, <1>8

(* Where a node only stops sending, or starts sending what is no ballot,   *)
(* ballots can only get lost.                                              *)
LEMMA LossFlow ==
    ASSUME Once, UNCHANGED inbox, NEW n \in Node,
           \A m \in Node : m # n => sending'[m] = sending[m],
           \/ \A p, c \in Node, t \in Nat :
                /\ ~(p \in sending'[n].to /\ Asks(sending'[n].msg, n, t))
                /\ ~(c \in sending'[n].to /\ Grants(sending'[n].msg, n, t))
           \/ sending'[n].to \subseteq sending[n].to
              /\ (sending'[n].to # {} => sending'[n].msg = sending[n].msg)
    PROVE  /\ Once'
           /\ \A t \in Nat, p, c \in Node : Underway(t, p, c)' => Underway(t, p, c)
           /\ \A t \in Nat, p, c \in Node : Answered(t, p, c)' => Answered(t, p, c)
<1>1. ASSUME NEW t \in Nat, NEW p \in Node, NEW c \in Node, NEW k \in 1..4, NEW i \in Nat,
             OnItsWay(t, p, c, k, i)'
      PROVE  OnItsWay(t, p, c, k, i)
    BY <1>1 DEF OnItsWay
<1>2. Once'
    <2> SUFFICES ASSUME NEW t \in Nat, NEW p \in Node, NEW c \in Node,
                        NEW k \in 1..4, NEW l \in 1..4, NEW i \in Nat, NEW j \in Nat,
                        OnItsWay(t, p, c, k, i)', OnItsWay(t, p, c, l, j)'
                 PROVE  k = l /\ i = j
        BY DEF Once
    <2>1. OnItsWay(t, p, c, k, i) /\ OnItsWay(t, p, c, l, j)
        BY <1>1
    <2> QED
        BY <2>1 DEF Once
<1>3. \A k \in 3..4 : k \in 1..4
    OBVIOUS
<1> QED
    BY <1>1, <1>2, <1>3 DEF Underway, Answered

---------------------------------------------------------------------------
(* One leader a term                                                       *)

(* What a node sends carries its name. *)
OwnMessages == \A n \in Node : ~Idle(n) => sending[n].msg.from = n

(* A candidate has reached the term of every ballot for it. *)
Called == \A t \in Nat, p, c \in Node : Underway(t, p, c) => t <= term[c]

(* The program keeps of its votes only the last one; the proof speaks of   *)
(* all votes ever given.  G holds <<t, p, c>> when p voted for c in term   *)
(* t, and K[n] holds the voters that candidate n has counted.              *)
Votes == SUBSET (Nat \X Node \X Node)

(* A node votes for one candidate in a term. *)
GivenOnce(G) ==
    \A t \in Nat, p, c, d \in Node : <<t, p, c>> \in G /\ <<t, p, d>> \in G => c = d

(* A vote is of a term that voter and candidate have reached, and          *)
(* voted_for is the vote of the running term.                              *)
GivenInTerm(G) ==
    \A t \in Nat, p, c \in Node : <<t, p, c>> \in G =>
        t <= term[p] /\ t <= term[c] /\ (t = term[p] => votedFor[p] = c)

(* Every vote sent was given. *)
AnsweredGiven(G) == \A t \in Nat, p, c \in Node : Answered(t, p, c) => <<t, p, c>> \in G

(* A candidate's count is the number of different voters it has counted,   *)
(* of whom nothing is underway any more.                                   *)
Tally(G, K) ==
    \A n \in Node, t \in Nat : role[n] = "candidate" /\ t = term[n] =>
        /\ votes[n] = Cardinality(K[n])
        /\ \A p \in K[n] : <<t, p, n>> \in G /\ ~Underway(t, p, n)

(* A quorum voted for every leader ever elected. *)
Won(G) ==
    \A t \in Nat, n \in Node : <<t, n>> \in elected =>
        \E Q \in SUBSET Node : Cardinality(Q) >= quorum /\ \A v \in Q : <<t, v, n>> \in G

BallotInv(G, K) ==
    GivenOnce(G) /\ GivenInTerm(G) /\ AnsweredGiven(G) /\ Tally(G, K) /\ Won(G)

(* The inductive invariant. *)
Inv ==
    /\ TypeOK /\ OwnMessages /\ Once /\ Called
    /\ \E G \in Votes, K \in [Node -> SUBSET Node] : BallotInv(G, K)

(* Two quorums have a node in common. *)
LEMMA QuorumsMeet ==
    ASSUME NEW P \in SUBSET Node, NEW Q \in SUBSET Node,
           Cardinality(P) >= quorum, Cardinality(Q) >= quorum
    PROVE  \E v \in Node : v \in P /\ v \in Q
<1> SUFFICES ASSUME P \cap Q = {} PROVE FALSE
    OBVIOUS
<1>1. IsFiniteSet(P) /\ IsFiniteSet(Q) /\ P \cup Q \subseteq Node
    BY NodeAssumption, FS_Subset
<1>2. Cardinality(P \cup Q) = Cardinality(P) + Cardinality(Q) - Cardinality(P \cap Q)
    BY <1>1, FS_Union
<1>3. Cardinality(P \cup Q) <= Cardinality(Node)
    BY <1>1, NodeAssumption, FS_Subset
<1>4. Cardinality(P) \in Nat /\ Cardinality(Q) \in Nat /\ Cardinality(P \cap Q) = 0
    BY <1>1, FS_CardinalityType, FS_EmptySet
<1> QED
    BY <1>2, <1>3, <1>4, QuorumIsHalf

(* At the start nothing is underway and no vote is given. *)
LEMMA InitInv == Init => Inv
<1> SUFFICES ASSUME Init PROVE Inv
    OBVIOUS
<1>1. \A n \in Node : /\ sending[n].to = {} /\ inbox[n] = <<>>
                      /\ role[n] = "follower"
    BY DEF Init, Nothing
<1>2. \A t \in Nat, p, c \in Node, k \in 1..4, i \in Nat : ~OnItsWay(t, p, c, k, i)
    BY <1>1 DEF OnItsWay
<1>3. Once /\ Called /\ OwnMessages
    BY <1>1, <1>2 DEF Once, Called, Underway, OwnMessages, Idle
<1>4. \A t \in Nat, p, c \in Node : ~Answered(t, p, c)
    <2>1. \A k \in 3..4 : k \in 1..4
        OBVIOUS
    <2> QED
        BY <1>2, <2>1 DEF Answered
<1>5. BallotInv({}, [n \in Node |-> {}])
    <2>1. elected = {}
        BY DEF Init
    <2> QED
        BY <1>1, <1>4, <2>1 DEF BallotInv, GivenOnce, GivenInTerm, AnsweredGiven, Tally, Won
<1>6. {} \in Votes /\ [n \in Node |-> {}] \in [Node -> SUBSET Node]
    BY DEF Votes
<1> QED
    BY <1>3, <1>5, <1>6, InitTyped DEF Inv

(* A step that gives and counts no vote, that lets nobody follow a lower   *)
(* term and makes no candidate.                                            *)
LEMMA KeepsBallots ==
    ASSUME Inv, TypeOK', OwnMessages', Once',
           \A t \in Nat, p, c \in Node : Underway(t, p, c)' => Underway(t, p, c),
           \A t \in Nat, p, c \in Node : Answered(t, p, c)' => Answered(t, p, c),
           UNCHANGED <<votedFor, votes, elected>>,
           \A m \in Node : /\ term[m] <= term'[m]
                           /\ role'[m] = "candidate" => role[m] = "candidate" /\ term'[m] = term[m]
    PROVE  Inv'
<1>1. \A m \in Node : term[m] \in Nat /\ term'[m] \in Nat
    BY DEF Inv, TypeOK
<1>2. Called'
    BY <1>1 DEF Inv, Called
<1>3. PICK G \in Votes, K \in [Node -> SUBSET Node] : BallotInv(G, K)
    BY DEF Inv
<1>4. GivenOnce(G)'
    BY <1>3 DEF BallotInv, GivenOnce
<1>5. GivenInTerm(G)'
    <2> SUFFICES ASSUME NEW t \in Nat, NEW p \in Node, NEW c \in Node, <<t, p, c>> \in G
                 PROVE  t <= term'[p] /\ t <= term'[c] /\ (t = term'[p] => votedFor'[p] = c)
        BY DEF GivenInTerm
    <2>1. t <= term[p] /\ t <= term[c] /\ (t = term[p] => votedFor[p] = c)
        BY <1>3 DEF BallotInv, GivenInTerm
    <2> QED
        BY <1>1, <2>1
<1>6. AnsweredGiven(G)'
    BY <1>3 DEF BallotInv, AnsweredGiven
<1>7. Tally(G, K)'
    <2> SUFFICES ASSUME NEW n \in Node, NEW t \in Nat, role'[n] = "candidate", t = term'[n]
                 PROVE  /\ votes'[n] = Cardinality(K[n])
                        /\ \A p \in K[n] : <<t, p, n>> \in G /\ ~Underway(t, p, n)'
        BY DEF Tally
    <2>1. t = term[n] /\ role[n] = "candidate" /\ K[n] \subseteq Node
        OBVIOUS
    <2> QED
        BY <1>3, <2>1 DEF BallotInv, Tally
<1>8. Won(G)'
    BY <1>3 DEF BallotInv, Won
<1>9. BallotInv(G, K)'
    BY <1>4, <1>5, <1>6, <1>7, <1>8 DEF BallotInv
<1> QED
    BY <1>2, <1>3, <1>9 DEF Inv

(* Sending and being refused move ballots or lose them. *)
LEMMA SendKeepsInv ==
    ASSUME Inv, TypeOK', NEW n \in Node, Send(n) \/ SendFails(n)
    PROVE  Inv'
<1> USE DEF Inv
<1>1. UNCHANGED <<role, term, votedFor, votes, elected>>
    BY DEF Send, SendFails
<1>2. \A m \in Node : term[m] \in Nat
    BY DEF TypeOK
<1>3. \A m \in Node : /\ term[m] <= term'[m]
                      /\ role'[m] = "candidate" => role[m] = "candidate" /\ term'[m] = term[m]
    BY <1>1, <1>2
<1>4. \A p \in sending[n].to : /\ Rest(n, p).to = sending[n].to \ {p}
                               /\ Rest(n, p).to # {} => Rest(n, p).msg = sending[n].msg
    BY RestTyped
<1>5. /\ \A m \in Node : m # n => sending'[m] = sending[m]
      /\ sending'[n].to \subseteq sending[n].to
      /\ sending'[n].to # {} => sending'[n].msg = sending[n].msg
    <2>1. CASE Send(n)
        <3>1. PICK p \in sending[n].to : sending' = [sending EXCEPT ![n] = Rest(n, p)]
            BY <2>1 DEF Send
        <3>2. sending'[n] = Rest(n, p) /\ \A m \in Node : m # n => sending'[m] = sending[m]
            BY <3>1 DEF TypeOK
        <3> QED
            BY <1>4, <3>2
    <2>2. CASE SendFails(n)
        <3>1. PICK p \in sending[n].to :
                sending' = [sending EXCEPT ![n] =
                                IF sending[n].msg.type = "Append" THEN Nothing ELSE Rest(n, p)]
            BY <2>2 DEF SendFails
        <3>2. Nothing.to = {}
            BY DEF Nothing
        <3>3. \A m \in Node : m # n => sending'[m] = sending[m]
            BY <3>1 DEF TypeOK
        <3>4. sending'[n] = Nothing \/ sending'[n] = Rest(n, p)
            BY <3>1 DEF TypeOK
        <3> QED
            BY <1>4, <3>2, <3>3, <3>4
    <2> QED
        BY <2>1, <2>2
<1>6. OwnMessages'
    BY <1>5 DEF OwnMessages, Idle
<1>7. /\ Once'
      /\ \A t \in Nat, p, c \in Node : Underway(t, p, c)' => Underway(t, p, c)
      /\ \A t \in Nat, p, c \in Node : Answered(t, p, c)' => Answered(t, p, c)
    <2>1. CASE Send(n)
        BY <2>1, SendFlow DEF OwnMessages
    <2>2. CASE SendFails(n)
        <3>1. UNCHANGED inbox
            BY <2>2 DEF SendFails
        <3> QED
            BY <1>5, <3>1, LossFlow
    <2> QED
        BY <2>1, <2>2
<1> QED
    BY <1>1, <1>3, <1>6, <1>7, KeepsBallots

(* The log's messages touch no ballot; an Append of a higher term ends a   *)
(* candidacy.                                                              *)
LEMMA LogKeepsInv ==
    ASSUME Inv, TypeOK', NEW n \in Node,
           HandleAppend(n) \/ HandleAppendAck(n) \/ \E op \in Op : Propose(n, op)
    PROVE  Inv'
<1> USE DEF Inv
<1>1. UNCHANGED <<votedFor, votes, elected>>
    BY DEF HandleAppend, HandleAppendAck, Propose
<1>2. /\ \A m \in Node : m # n => sending'[m] = sending[m]
      /\ sending'[n].to # {} => /\ sending'[n].msg.from = n
                                /\ sending'[n].msg.type \in {"Append", "AppendAck"}
      /\ Idle(n)
    <2>1. CASE HandleAppend(n)
        BY <2>1 DEF HandleAppend, Reply, Receives, TypeOK
    <2>2. CASE HandleAppendAck(n)
        BY <2>2 DEF HandleAppendAck, Receives, Idle
    <2>3. CASE \E op \in Op : Propose(n, op)
        BY <2>3 DEF Propose, TypeOK
    <2> QED
        BY <2>1, <2>2, <2>3
<1>3. OwnMessages'
    BY <1>2 DEF OwnMessages, Idle
<1>4. \A t \in Nat, p \in Node :
        sending'[n].to # {} => ~Asks(sending'[n].msg, n, t) /\ ~Grants(sending'[n].msg, n, t)
    BY <1>2 DEF Asks, Grants
<1>5. /\ Once'
      /\ \A t \in Nat, p, c \in Node : Underway(t, p, c)' => Underway(t, p, c)
      /\ \A t \in Nat, p, c \in Node : Answered(t, p, c)' => Answered(t, p, c)
    <2>1. ASSUME NEW type, Receives(n, type)
          PROVE  /\ Once'
                 /\ \A t \in Nat, p, c \in Node : Underway(t, p, c)' => Underway(t, p, c)
                 /\ \A t \in Nat, p, c \in Node : Answered(t, p, c)' => Answered(t, p, c)
        <3>1. \A t \in Nat, c \in Node : ~(c \in sending'[n].to /\ Grants(sending'[n].msg, n, t))
            BY <1>4
        <3>2. /\ Once'
              /\ \A t \in Nat, p, c \in Node : Underway(t, p, c)' => Underway(t, p, c)
              /\ \A t \in Nat, p, c \in Node : Answered(t, p, c)' =>
                    \/ Answered(t, p, c)
                    \/ p = n /\ c \in sending'[n].to /\ Grants(sending'[n].msg, n, t)
            BY <1>2, <1>4, <2>1, <3>1, ReceiveFlow
        <3> QED
            BY <3>1, <3>2
    <2>2. CASE \E op \in Op : Propose(n, op)
        <3>1. UNCHANGED inbox
            BY <2>2 DEF Propose
        <3>2. \A p, c \in Node, t \in Nat :
                /\ ~(p \in sending'[n].to /\ Asks(sending'[n].msg, n, t))
                /\ ~(c \in sending'[n].to /\ Grants(sending'[n].msg, n, t))
            BY <1>4
        <3> QED
            BY <1>2, <3>1, <3>2, LossFlow
    <2> QED
        BY <2>1, <2>2 DEF HandleAppend, HandleAppendAck
<1>6. \A m \in Node : /\ term[m] <= term'[m]
                      /\ role'[m] = "candidate" => role[m] = "candidate" /\ term'[m] = term[m]
    <2>1. \A m \in Node : term[m] \in Nat
        BY DEF TypeOK
    <2>2. CASE HandleAppend(n)
        <3>1. Head(inbox[n]).term \in Nat
            BY <2>2, HeadTyped, MessageParts DEF HandleAppend
        <3>2. \A m \in Node : m # n => term'[m] = term[m] /\ role'[m] = role[m]
            BY <2>2 DEF HandleAppend, TypeOK
        <3>3. /\ term'[n] = IF Head(inbox[n]).term >= term[n] THEN Head(inbox[n]).term ELSE term[n]
              /\ role'[n] = IF Head(inbox[n]).term > term[n] THEN "follower" ELSE role[n]
            BY <2>2 DEF HandleAppend, TypeOK
        <3> QED
            BY <2>1, <3>1, <3>2, <3>3
    <2>3. CASE HandleAppendAck(n) \/ \E op \in Op : Propose(n, op)
        <3>1. UNCHANGED <<role, term>>
            BY <2>3 DEF HandleAppendAck, Propose
        <3> QED
            BY <2>1, <3>1
    <2> QED
        BY <2>2, <2>3
<1> QED
    BY <1>1, <1>3, <1>5, <1>6, KeepsBallots

(* A vote given is new in its term, or the one already given: the request  *)
(* is not of an older term, and voted_for is empty or the candidate.       *)
LEMMA VoteReqKeepsInv ==
    ASSUME Inv, TypeOK', NEW n \in Node, HandleVoteReq(n)
    PROVE  Inv'
<1> DEFINE m     == Head(inbox[n])
           newer == m.term > term[n]
           grant == newer \/ (m.term = term[n] /\ votedFor[n] \in {None, m.from})
<1> USE DEF Inv
<1>1. /\ m \in Message /\ m.type = "VoteReq" /\ m.from \in Node /\ m.term \in Nat
      /\ \A k \in Node : term[k] \in Nat
    BY HeadTyped, MessageParts DEF HandleVoteReq, TypeOK
<1>2. /\ Receives(n, "VoteReq")
      /\ term' = [term EXCEPT ![n] = IF newer THEN m.term ELSE @]
      /\ role' = [role EXCEPT ![n] = IF newer THEN "follower" ELSE @]
      /\ votedFor' = [votedFor EXCEPT ![n] = IF grant THEN m.from ELSE @]
      /\ UNCHANGED <<votes, elected>>
    BY DEF HandleVoteReq
<1>3. PICK g \in BOOLEAN :
        /\ g <=> grant
        /\ Reply(n, m.from, [type |-> "VoteResp", from |-> n, term |-> term'[n], granted |-> g])
    <2>1. grant \in BOOLEAN
        OBVIOUS
    <2>2. Reply(n, m.from, [type |-> "VoteResp", from |-> n, term |-> term'[n],
                            granted |-> grant])
        BY Zenon DEF HandleVoteReq
    <2> HIDE DEF grant
    <2> QED
        BY <2>1, <2>2, Zenon
<1>4. /\ term'[n] = IF newer THEN m.term ELSE term[n]
      /\ votedFor'[n] = IF grant THEN m.from ELSE votedFor[n]
      /\ role'[n] = IF newer THEN "follower" ELSE role[n]
      /\ \A k \in Node : k # n => /\ term'[k] = term[k] /\ votedFor'[k] = votedFor[k]
                                  /\ role'[k] = role[k]
    BY <1>2 DEF TypeOK
<1>5. /\ sending'[n] = [to |-> {m.from},
                        msg |-> [type |-> "VoteResp", from |-> n, term |-> term'[n], granted |-> g]]
      /\ \A k \in Node : k # n => sending'[k] = sending[k]
    BY <1>3 DEF Reply, TypeOK
<1>6. \A k \in Node : term[k] <= term'[k]
    BY <1>1, <1>4
<1>7. grant => m.term = term'[n] /\ m.term >= term[n]
    BY <1>1, <1>4
<1>8. ASSUME NEW t \in Nat, NEW c \in Node,
             c \in sending'[n].to, Grants(sending'[n].msg, n, t)
      PROVE  grant /\ c = m.from /\ t = m.term
    BY <1>3, <1>5, <1>7, <1>8 DEF Grants
<1> HIDE DEF m, newer, grant
<1>9. /\ Once'
      /\ \A t \in Nat, p, c \in Node : Underway(t, p, c)' => Underway(t, p, c)
      /\ \A t \in Nat, p, c \in Node : Answered(t, p, c)' =>
            \/ Answered(t, p, c)
            \/ p = n /\ c \in sending'[n].to /\ Grants(sending'[n].msg, n, t)
    <2>1. \A t \in Nat : sending'[n].to # {} => ~Asks(sending'[n].msg, n, t)
        BY <1>5 DEF Asks
    <2>2. \A t \in Nat, c \in Node :
            c \in sending'[n].to /\ Grants(sending'[n].msg, n, t) => Asks(Head(inbox[n]), c, t)
        BY <1>1, <1>8 DEF Asks, m
    <2> QED
        BY <1>2, <1>5, <2>1, <2>2, ReceiveFlow
<1>10. OwnMessages'
    BY <1>5 DEF OwnMessages, Idle
<1>11. Called'
    <2> SUFFICES ASSUME NEW t \in Nat, NEW p \in Node, NEW c \in Node, Underway(t, p, c)'
                 PROVE  t <= term'[c]
        BY DEF Called
    <2>1. t <= term[c]
        BY <1>9 DEF Called
    <2>2. term[c] <= term'[c] /\ term[c] \in Nat /\ term'[c] \in Nat
        BY <1>1, <1>6 DEF TypeOK
    <2> QED
        BY <2>1, <2>2
<1>12. m.term <= term[m.from]
    <2>1. OnItsWay(m.term, n, m.from, 2, 1)
        <3>1. inbox[n] \in Seq(Message) /\ inbox[n] # <<>>
            BY <1>2 DEF TypeOK, Receives
        <3>2. Len(inbox[n]) \in Nat \ {0} /\ m = inbox[n][1]
            BY <3>1 DEF m
        <3> QED
            BY <1>1, <3>2 DEF OnItsWay, Asks
    <2>2. 2 \in 1..4 /\ 1 \in Nat
        OBVIOUS
    <2> QED
        BY <1>1, <2>1, <2>2 DEF Called, Underway
<1>13. PICK G \in Votes, K \in [Node -> SUBSET Node] : BallotInv(G, K)
    OBVIOUS
<1>14. PICK H : H = IF grant THEN G \cup {<<m.term, n, m.from>>} ELSE G
    OBVIOUS
<1>15. /\ H \in Votes /\ G \subseteq H
       /\ grant => <<m.term, n, m.from>> \in H
       /\ \A t \in Nat, p, c \in Node : <<t, p, c>> \in H =>
            <<t, p, c>> \in G \/ (grant /\ t = m.term /\ p = n /\ c = m.from)
    BY <1>1, <1>13, <1>14 DEF Votes
<1>16. ASSUME grant, NEW d \in Node, <<m.term, n, d>> \in G PROVE d = m.from
    <2>1. m.term <= term[n] /\ (m.term = term[n] => votedFor[n] = d)
        BY <1>1, <1>13, <1>16 DEF BallotInv, GivenInTerm
    <2>2. m.term = term[n] /\ votedFor[n] \in {None, m.from}
        BY <1>1, <1>7, <1>16, <2>1 DEF grant, newer
    <2> QED
        BY <2>1, <2>2, NodeAssumption
<1>17. GivenOnce(H)'
    <2> SUFFICES ASSUME NEW t \in Nat, NEW p \in Node, NEW c \in Node, NEW d \in Node,
                        <<t, p, c>> \in H, <<t, p, d>> \in H
                 PROVE  c = d
        BY DEF GivenOnce
    <2>1. <<t, p, c>> \in G /\ <<t, p, d>> \in G => c = d
        BY <1>13 DEF BallotInv, GivenOnce
    <2> QED
        BY <1>15, <1>16, <2>1
<1>18. GivenInTerm(H)'
    <2> SUFFICES ASSUME NEW t \in Nat, NEW p \in Node, NEW c \in Node, <<t, p, c>> \in H
                 PROVE  t <= term'[p] /\ t <= term'[c] /\ (t = term'[p] => votedFor'[p] = c)
        BY DEF GivenInTerm
    <2>1. CASE <<t, p, c>> \in G
        <3>1. t <= term[p] /\ t <= term[c] /\ (t = term[p] => votedFor[p] = c)
            BY <1>13, <2>1 DEF BallotInv, GivenInTerm
        <3>2. term[p] <= term'[p] /\ term[c] <= term'[c] /\ term'[p] \in Nat /\ term'[c] \in Nat
            BY <1>6 DEF TypeOK
        <3>3. t <= term'[p] /\ t <= term'[c]
            BY <1>1, <3>1, <3>2
        <3>4. ASSUME t = term'[p] PROVE votedFor'[p] = c
            <4>1. t = term[p] /\ term'[p] = term[p] /\ votedFor[p] = c
                BY <1>1, <3>1, <3>2, <3>4
            <4>2. CASE p = n /\ grant
                <5>1. <<m.term, n, c>> \in G
                    BY <1>7, <2>1, <3>4, <4>2
                <5> QED
                    BY <1>4, <1>16, <4>2, <5>1
            <4>3. CASE ~(p = n /\ grant)
                BY <1>4, <4>1, <4>3
            <4> QED
                BY <4>2, <4>3
        <3> QED
            BY <3>3, <3>4
    <2>2. CASE grant /\ t = m.term /\ p = n /\ c = m.from
        <3>1. term[c] <= term'[c] /\ term'[c] \in Nat
            BY <1>6 DEF TypeOK
        <3>2. t = term'[p] /\ votedFor'[p] = c
            BY <1>4, <1>7, <2>2
        <3> QED
            BY <1>1, <1>12, <2>2, <3>1, <3>2
    <2> QED
        BY <1>15, <2>1, <2>2
<1>19. AnsweredGiven(H)'
    <2> SUFFICES ASSUME NEW t \in Nat, NEW p \in Node, NEW c \in Node, Answered(t, p, c)'
                 PROVE  <<t, p, c>> \in H
        BY DEF AnsweredGiven
    <2>1. Answered(t, p, c) => <<t, p, c>> \in G
        BY <1>13 DEF BallotInv, AnsweredGiven
    <2> QED
        BY <1>8, <1>9, <1>15, <2>1
<1>20. Tally(H, K)'
    <2> SUFFICES ASSUME NEW k \in Node, NEW t \in Nat, role'[k] = "candidate", t = term'[k]
                 PROVE  /\ votes'[k] = Cardinality(K[k])
                        /\ \A p \in K[k] : <<t, p, k>> \in H /\ ~Underway(t, p, k)'
        BY DEF Tally
    <2>1. t = term[k] /\ role[k] = "candidate" /\ K[k] \subseteq Node
        BY <1>4
    <2> QED
        BY <1>2, <1>9, <1>13, <1>15, <2>1 DEF BallotInv, Tally
<1>21. Won(H)'
    <2>1. Won(G) /\ elected' = elected
        BY <1>2, <1>13 DEF BallotInv
    <2> QED
        BY <1>15, <2>1 DEF Won
<1>22. BallotInv(H, K)'
    BY <1>17, <1>18, <1>19, <1>20, <1>21 DEF BallotInv
<1> QED
    BY <1>9, <1>10, <1>11, <1>13, <1>15, <1>22

(* A vote is counted once, since its ballot is not underway after that;    *)
(* the count that completes the quorum is of different voters, who all     *)
(* voted in this term.                                                     *)
LEMMA VoteRespKeepsInv ==
    ASSUME Inv, TypeOK', NEW n \in Node, HandleVoteResp(n)
    PROVE  Inv'
<1> DEFINE m   == Head(inbox[n])
           won == Counts(n, m) /\ votes[n] + 1 >= quorum
<1> USE DEF Inv
<1>1. /\ m \in Message /\ m.type = "VoteResp" /\ m.from \in Node /\ m.term \in Nat
      /\ \A k \in Node : term[k] \in Nat
    BY HeadTyped, MessageParts DEF HandleVoteResp, TypeOK
<1>2. /\ Receives(n, "VoteResp")
      /\ votes' = [votes EXCEPT ![n] = IF won THEN 0 ELSE IF Counts(n, m) THEN @ + 1 ELSE @]
      /\ role' = [role EXCEPT ![n] = IF won THEN "leader" ELSE @]
      /\ elected' = IF won THEN elected \cup {<<term[n], n>>} ELSE elected
      /\ UNCHANGED <<term, votedFor, sending>>
    BY DEF HandleVoteResp
<1>3. /\ Once'
      /\ \A t \in Nat, p, c \in Node : Underway(t, p, c)' => Underway(t, p, c)
      /\ \A t \in Nat, p, c \in Node : Answered(t, p, c)' => Answered(t, p, c)
      /\ \A t \in Nat, p \in Node : Grants(m, p, t) => Underway(t, p, n) /\ ~Underway(t, p, n)'
    <2>1. sending'[n].to = {}
        BY <1>2 DEF Receives, Idle
    <2> QED
        BY <1>2, <2>1, ReceiveFlow
<1>4. OwnMessages' /\ Called'
    <2>1. OwnMessages'
        BY <1>2 DEF OwnMessages, Idle
    <2>2. Called'
        BY <1>2, <1>3 DEF Called
    <2> QED
        BY <2>1, <2>2
<1>5. PICK G \in Votes, K \in [Node -> SUBSET Node] : BallotInv(G, K)
    OBVIOUS
<1>6. GivenOnce(G)' /\ GivenInTerm(G)' /\ AnsweredGiven(G)'
    <2>1. GivenOnce(G)'
        BY <1>5 DEF BallotInv, GivenOnce
    <2>2. GivenInTerm(G)'
        BY <1>2, <1>5 DEF BallotInv, GivenInTerm
    <2>3. AnsweredGiven(G)'
        BY <1>3, <1>5 DEF BallotInv, AnsweredGiven
    <2> QED
        BY <2>1, <2>2, <2>3
<1>7. ASSUME Counts(n, m)
      PROVE  /\ role[n] = "candidate" /\ m.term = term[n]
             /\ <<term[n], m.from, n>> \in G /\ m.from \notin K[n]
             /\ \A t \in Nat, p \in Node : t = m.term /\ p = m.from => ~Underway(t, p, n)'
             /\ \A p \in K[n] : <<term[n], p, n>> \in G
             /\ votes[n] = Cardinality(K[n])
             /\ Cardinality(K[n] \cup {m.from}) = votes[n] + 1
    <2>1. role[n] = "candidate" /\ m.term = term[n] /\ Grants(m, m.from, m.term)
        BY <1>1, <1>7 DEF Counts, Grants
    <2>2. /\ Underway(m.term, m.from, n)
          /\ \A t \in Nat, p \in Node : t = m.term /\ p = m.from => ~Underway(t, p, n)'
        BY <1>1, <1>3, <2>1
    <2>3. /\ votes[n] = Cardinality(K[n])
          /\ \A p \in K[n] : <<term[n], p, n>> \in G /\ ~Underway(m.term, p, n)
        BY <1>1, <1>5, <2>1 DEF BallotInv, Tally
    <2>4. m.from \notin K[n]
        BY <2>2, <2>3
    <2>5. IsFiniteSet(K[n])
        BY NodeAssumption, FS_Subset
    <2>6. Cardinality(K[n] \cup {m.from}) = Cardinality(K[n]) + 1
        BY <2>4, <2>5, FS_AddElement
    <2>7. Answered(m.term, m.from, n)
        <3>1. inbox[n] \in Seq(Message) /\ inbox[n] # <<>>
            BY <1>2 DEF TypeOK, Receives
        <3>2. Len(inbox[n]) \in Nat \ {0} /\ m = inbox[n][1]
            BY <3>1
        <3>3. OnItsWay(m.term, m.from, n, 4, 1)
            BY <1>1, <2>1, <3>2 DEF OnItsWay
        <3>4. 4 \in 3..4 /\ 1 \in Nat
            OBVIOUS
        <3> QED
            BY <3>3, <3>4 DEF Answered
    <2>8. <<m.term, m.from, n>> \in G
        BY <1>1, <1>5, <2>7 DEF BallotInv, AnsweredGiven
    <2> QED
        BY <2>1, <2>2, <2>3, <2>4, <2>6, <2>8
<1> HIDE DEF m
<1>8. Won(G)'
    <2> SUFFICES ASSUME NEW t \in Nat, NEW k \in Node, <<t, k>> \in elected'
                 PROVE  \E Q \in SUBSET Node :
                            Cardinality(Q) >= quorum /\ \A v \in Q : <<t, v, k>> \in G
        BY DEF Won
    <2>1. CASE <<t, k>> \in elected
        BY <1>5, <2>1 DEF BallotInv, Won
    <2>2. CASE <<t, k>> \notin elected
        <3>1. won /\ t = term[n] /\ k = n
            BY <1>2, <2>2
        <3>2. /\ K[n] \cup {m.from} \in SUBSET Node
              /\ Cardinality(K[n] \cup {m.from}) >= quorum
              /\ \A v \in K[n] \cup {m.from} : <<t, v, k>> \in G
            BY <1>1, <1>7, <3>1
        <3> QED
            BY <3>2
    <2> QED
        BY <2>1, <2>2
<1>9. PICK L : L = IF Counts(n, m) THEN [K EXCEPT ![n] = @ \cup {m.from}] ELSE K
    OBVIOUS
<1>10. L \in [Node -> SUBSET Node]
    BY <1>1, <1>9
<1>11. Tally(G, L)'
    <2> SUFFICES ASSUME NEW k \in Node, NEW t \in Nat, role'[k] = "candidate", t = term'[k]
                 PROVE  /\ votes'[k] = Cardinality(L[k])
                        /\ \A p \in L[k] : <<t, p, k>> \in G /\ ~Underway(t, p, k)'
        BY DEF Tally
    <2>1. t = term[k] /\ role[k] = "candidate" /\ K[k] \subseteq Node
        BY <1>2 DEF TypeOK
    <2>2. /\ votes[k] = Cardinality(K[k])
          /\ \A p \in K[k] : <<t, p, k>> \in G /\ ~Underway(t, p, k)'
        BY <1>3, <1>5, <2>1 DEF BallotInv, Tally
    <2>3. CASE k = n /\ Counts(n, m)
        <3>1. ~won
            BY <1>2, <2>3 DEF TypeOK
        <3>2. votes'[n] = votes[n] + 1
            BY <1>2, <2>3, <3>1 DEF TypeOK
        <3>3. L[n] = K[n] \cup {m.from}
            BY <1>9, <2>3
        <3> QED
            BY <1>1, <1>7, <2>1, <2>2, <2>3, <3>2, <3>3
    <2>4. CASE ~(k = n /\ Counts(n, m))
        <3>1. votes'[k] = votes[k]
            BY <1>2, <2>4 DEF TypeOK
        <3>2. L[k] = K[k]
            BY <1>9, <2>4
        <3> QED
            BY <2>2, <3>1, <3>2
    <2> QED
        BY <2>3, <2>4
<1>12. BallotInv(G, L)'
    BY <1>6, <1>8, <1>11 DEF BallotInv
<1> QED
    BY <1>3, <1>4, <1>5, <1>10, <1>12

(* Standing for election starts a term of its own: no ballot of it is      *)
(* underway yet and nobody has voted in it for this candidate.             *)
LEMMA ElectKeepsInv ==
    ASSUME Inv, TypeOK', NEW n \in Node, Elect(n)
    PROVE  Inv'
<1> DEFINE s == term[n] + 1
<1> USE DEF Inv
<1>1. /\ sending[n].to = {}
      /\ \A k \in Node : term[k] \in Nat /\ term'[k] \in Nat
      /\ s \in Nat /\ s > term[n]
      /\ term'[n] = s /\ role'[n] = "candidate" /\ votedFor'[n] = n /\ votes'[n] = 1
      /\ \A k \in Node : k # n => /\ term'[k] = term[k] /\ role'[k] = role[k]
                                  /\ votedFor'[k] = votedFor[k] /\ votes'[k] = votes[k]
      /\ UNCHANGED <<inbox, elected>>
    BY DEF Elect, Idle, TypeOK
<1>2. /\ sending'[n] = [to |-> Node \ {n}, msg |-> [type |-> "VoteReq", from |-> n, term |-> s]]
      /\ \A k \in Node : k # n => sending'[k] = sending[k]
    BY <1>1 DEF Elect, TypeOK
<1> HIDE DEF s
<1>3. ASSUME NEW t \in Nat, NEW p \in Node, NEW c \in Node, NEW k \in 1..4, NEW i \in Nat,
             OnItsWay(t, p, c, k, i)'
      PROVE  \/ OnItsWay(t, p, c, k, i)
             \/ t = s /\ c = n /\ p # n /\ k = 1 /\ i = 0
    BY <1>1, <1>2, <1>3 DEF OnItsWay, Asks, Grants
<1>4. \A t \in Nat, p \in Node : Underway(t, p, n) => t # s
    BY <1>1 DEF Called
<1>5. Once'
    <2> SUFFICES ASSUME NEW t \in Nat, NEW p \in Node, NEW c \in Node,
                        NEW k \in 1..4, NEW l \in 1..4, NEW i \in Nat, NEW j \in Nat,
                        OnItsWay(t, p, c, k, i)', OnItsWay(t, p, c, l, j)'
                 PROVE  k = l /\ i = j
        BY DEF Once
    <2>1. CASE t = s /\ c = n
        BY <1>3, <1>4, <2>1 DEF Underway
    <2>2. CASE ~(t = s /\ c = n)
        <3>1. OnItsWay(t, p, c, k, i) /\ OnItsWay(t, p, c, l, j)
            BY <1>3, <2>2
        <3> QED
            BY <3>1 DEF Once
    <2> QED
        BY <2>1, <2>2
<1>6. \A t \in Nat, p, c \in Node : Underway(t, p, c)' =>
        Underway(t, p, c) \/ (t = s /\ c = n /\ p # n)
    BY <1>3 DEF Underway
<1>7. \A t \in Nat, p, c \in Node : Answered(t, p, c)' => Answered(t, p, c)
    <2> SUFFICES ASSUME NEW t \in Nat, NEW p \in Node, NEW c \in Node, Answered(t, p, c)'
                 PROVE  Answered(t, p, c)
        OBVIOUS
    <2>1. PICK k \in 3..4, i \in Nat : OnItsWay(t, p, c, k, i)'
        BY DEF Answered
    <2>2. k \in 1..4 /\ k # 1
        OBVIOUS
    <2> QED
        BY <1>3, <2>1, <2>2 DEF Answered
<1>8. OwnMessages'
    BY <1>2 DEF OwnMessages, Idle
<1>9. Called'
    <2> SUFFICES ASSUME NEW t \in Nat, NEW p \in Node, NEW c \in Node, Underway(t, p, c)'
                 PROVE  t <= term'[c]
        BY DEF Called
    <2>1. CASE Underway(t, p, c)
        <3>1. t <= term[c]
            BY <2>1 DEF Called
        <3> QED
            BY <1>1, <3>1
    <2>2. CASE t = s /\ c = n
        BY <1>1, <2>2
    <2> QED
        BY <1>6, <2>1, <2>2
<1>10. PICK G \in Votes, K \in [Node -> SUBSET Node] : BallotInv(G, K)
    OBVIOUS
<1>11. PICK H : H = G \cup {<<s, n, n>>}
    OBVIOUS
<1>12. /\ H \in Votes /\ G \subseteq H /\ <<s, n, n>> \in H
       /\ \A t \in Nat, p, c \in Node : <<t, p, c>> \in H =>
            <<t, p, c>> \in G \/ (t = s /\ p = n /\ c = n)
    BY <1>1, <1>10, <1>11 DEF Votes
<1>13. PICK L : L = [K EXCEPT ![n] = {n}]
    OBVIOUS
<1>14. /\ L \in [Node -> SUBSET Node] /\ L[n] = {n}
       /\ \A k \in Node : k # n => L[k] = K[k]
    BY <1>10, <1>13
<1>15. \A t \in Nat, p, c \in Node : <<t, p, c>> \in G =>
            t <= term[p] /\ t <= term[c] /\ (t = term[p] => votedFor[p] = c)
    BY <1>10 DEF BallotInv, GivenInTerm
<1>16. GivenOnce(H)'
    <2> SUFFICES ASSUME NEW t \in Nat, NEW p \in Node, NEW c \in Node, NEW d \in Node,
                        <<t, p, c>> \in H, <<t, p, d>> \in H
                 PROVE  c = d
        BY DEF GivenOnce
    <2>1. <<t, p, c>> \in G /\ <<t, p, d>> \in G => c = d
        BY <1>10 DEF BallotInv, GivenOnce
    <2>2. \A e \in Node : <<s, n, e>> \notin G
        BY <1>1, <1>15
    <2> QED
        BY <1>12, <2>1, <2>2
<1>17. GivenInTerm(H)'
    <2> SUFFICES ASSUME NEW t \in Nat, NEW p \in Node, NEW c \in Node, <<t, p, c>> \in H
                 PROVE  t <= term'[p] /\ t <= term'[c] /\ (t = term'[p] => votedFor'[p] = c)
        BY DEF GivenInTerm
    <2>1. CASE <<t, p, c>> \in G
        BY <1>1, <1>15, <2>1
    <2>2. CASE t = s /\ p = n /\ c = n
        BY <1>1, <2>2
    <2> QED
        BY <1>12, <2>1, <2>2
<1>18. AnsweredGiven(H)'
    BY <1>7, <1>10, <1>12 DEF BallotInv, AnsweredGiven
<1>19. Tally(H, L)'
    <2> SUFFICES ASSUME NEW k \in Node, NEW t \in Nat, role'[k] = "candidate", t = term'[k]
                 PROVE  /\ votes'[k] = Cardinality(L[k])
                        /\ \A p \in L[k] : <<t, p, k>> \in H /\ ~Underway(t, p, k)'
        BY DEF Tally
    <2>1. CASE k = n
        <3>1. votes'[n] = 1 /\ Cardinality(L[n]) = 1
            BY <1>1, <1>14, FS_Singleton
        <3>2. t = s /\ ~Underway(t, n, n)'
            BY <1>1, <1>4, <1>6, <2>1
        <3> QED
            BY <1>12, <1>14, <2>1, <3>1, <3>2
    <2>2. CASE k # n
        <3>1. t = term[k] /\ role[k] = "candidate" /\ K[k] \subseteq Node /\ L[k] = K[k]
              /\ votes'[k] = votes[k]
            BY <1>1, <1>14, <2>2
        <3>2. /\ votes[k] = Cardinality(K[k])
              /\ \A p \in K[k] : <<t, p, k>> \in G /\ ~Underway(t, p, k)
            BY <1>10, <3>1 DEF BallotInv, Tally
        <3> QED
            BY <1>6, <1>12, <2>2, <3>1, <3>2
    <2> QED
        BY <2>1, <2>2
<1>20. Won(H)'
    <2>1. Won(G) /\ elected' = elected
        BY <1>1, <1>10 DEF BallotInv
    <2> QED
        BY <1>12, <2>1 DEF Won
<1>21. BallotInv(H, L)'
    BY <1>16, <1>17, <1>18, <1>19, <1>20 DEF BallotInv
<1> QED
    BY <1>5, <1>8, <1>9, <1>12, <1>14, <1>21

(* The invariant holds in every reachable state. *)
LEMMA InvAlways == Spec => []Inv
<1>1. Inv /\ [Next]_vars => Inv'
    <2> SUFFICES ASSUME Inv, [Next]_vars PROVE Inv'
        OBVIOUS
    <2>1. TypeOK'
        BY StepTyped DEF Inv
    <2>2. CASE Next
        BY <2>1, <2>2, SendKeepsInv, LogKeepsInv, VoteReqKeepsInv, VoteRespKeepsInv,
           ElectKeepsInv DEF Next, Handle
    <2>3. CASE UNCHANGED vars
        <3>1. UNCHANGED <<role, term, votedFor, votes, inbox, sending, elected>>
            BY <2>3 DEF vars
        <3>2. \A t, p, c, k, i : OnItsWay(t, p, c, k, i)' <=> OnItsWay(t, p, c, k, i)
            BY <3>1 DEF OnItsWay
        <3>3. Once'
            BY <3>2 DEF Inv, Once
        <3>4. OwnMessages'
            BY <3>1 DEF Inv, OwnMessages, Idle
        <3>5. \A m \in Node : term[m] \in Nat
            BY DEF Inv, TypeOK
        <3>6. \A t, p, c : /\ Underway(t, p, c)' => Underway(t, p, c)
                           /\ Answered(t, p, c)' => Answered(t, p, c)
            BY <3>2 DEF Underway, Answered
        <3> QED
            BY <2>1, <3>1, <3>3, <3>4, <3>5, <3>6, KeepsBallots
    <2> QED
        BY <2>2, <2>3
<1> QED
    BY <1>1, InitInv, PTL DEF Spec

(* The quorums that made two leaders of a term share a voter. *)
LEMMA OneLeader == Inv => OneLeaderATerm
<1> SUFFICES ASSUME Inv, NEW x \in elected, NEW y \in elected, x[1] = y[1] PROVE x = y
    BY DEF OneLeaderATerm
<1>1. x \in Nat \X Node /\ y \in Nat \X Node
    BY DEF Inv, TypeOK
<1>2. PICK t \in Nat, m \in Node, n \in Node : x = <<t, m>> /\ y = <<t, n>>
    BY <1>1
<1>3. PICK G \in Votes, K \in [Node -> SUBSET Node] : BallotInv(G, K)
    BY DEF Inv
<1>4. PICK P \in SUBSET Node : Cardinality(P) >= quorum /\ \A v \in P : <<t, v, m>> \in G
    BY <1>2, <1>3 DEF BallotInv, Won
<1>5. PICK Q \in SUBSET Node : Cardinality(Q) >= quorum /\ \A v \in Q : <<t, v, n>> \in G
    BY <1>2, <1>3 DEF BallotInv, Won
<1>6. PICK v \in Node : v \in P /\ v \in Q
    BY <1>4, <1>5, QuorumsMeet
<1>7. m = n
    BY <1>3, <1>4, <1>5, <1>6 DEF BallotInv, GivenOnce
<1> QED
    BY <1>2, <1>7

(* At most one node ever leads a term, however requests and votes are      *)
(* delayed and candidacies overtake each other: maybe_elect and the two    *)
(* vote handlers, which keep one voted_for and a bare count, give every    *)
(* term to one quorum.                                                     *)
THEOREM LeaderOfATermIsOne == Spec => []OneLeaderATerm
BY OneLeader, InvAlways, PTL

---------------------------------------------------------------------------
(* The order of the entries of a term                                      *)

(* e is in n's log; l has made it, as leader of its term. *)
InLog(n, e) == \E i \in 1..Len(log[n]) : log[n][i] = e
Made(l, e) == <<e.term, l>> \in elected /\ InLog(l, e)

Sends(n) == ~Idle(n) /\ sending[n].msg.type = "Append"

(* Where entry e is on its way from leader l to n: in n's log, in n's      *)
(* inbox, or still to be sent to n.                                        *)
At(l, n, e, k, i) ==
    \/ k = 1 /\ i \in 1..Len(log[n]) /\ log[n][i] = e
    \/ k = 2 /\ i \in 1..Len(inbox[n]) /\ inbox[n][i].type = "Append" /\ inbox[n][i].entry = e
    \/ /\ k = 3 /\ i = 0 /\ n \in sending[l].to
       /\ sending[l].msg.type = "Append" /\ sending[l].msg.entry = e

Earlier(k, i, q, j) == k < q \/ (k = q /\ i < j)

(* Nobody sends to itself, and a leader is one of its term and has peers. *)
Peers ==
    \A n \in Node :
        /\ n \notin sending[n].to
        /\ \A i \in 1..Len(inbox[n]) : inbox[n][i].from # n
        /\ role[n] = "leader" => Node # {n} /\ <<term[n], n>> \in elected

(* Entries in logs, in inboxes and being sent are a leader's. *)
Logged == \A n \in Node : \A i \in 1..Len(log[n]) : \E l \in Node : Made(l, log[n][i])
Queued ==
    \A n \in Node : \A i \in 1..Len(inbox[n]) :
        inbox[n][i].type = "Append" =>
            /\ inbox[n][i].term = inbox[n][i].entry.term
            /\ Made(inbox[n][i].from, inbox[n][i].entry)
Proposing ==
    \A n \in Node : Sends(n) =>
        /\ sending[n].msg.term = sending[n].msg.entry.term
        /\ Made(n, sending[n].msg.entry)

Distinct == \A n \in Node : \A i, j \in 1..Len(log[n]) : log[n][i] = log[n][j] => i = j

(* What is on its way from a leader is in the order of the leader's log. *)
InOrder ==
    \A l, n \in Node : \A d, e \in Entry : \A k, q \in 1..3, i, j \in Nat :
        /\ l # n /\ <<e.term, l>> \in elected /\ d.term = e.term
        /\ At(l, n, d, k, i) /\ At(l, n, e, q, j) /\ Earlier(k, i, q, j)
        => Before(l, d, e)

(* An entry of a leader is on its way to every node not in a later term. *)
Delivered ==
    \A l, n \in Node : \A e \in Entry :
        l # n /\ Made(l, e) =>
            term[n] > e.term \/ \E k \in 1..3, i \in Nat : At(l, n, e, k, i)

(* A log has no entry of a term without the ones before it. *)
NoGap ==
    \A l, n \in Node : \A d, e \in Entry :
        <<e.term, l>> \in elected /\ d.term = e.term /\ InLog(n, e) /\ Before(l, d, e)
        => InLog(n, d)

(* Only while an entry is being sent is there one not committed. *)
Committed == \A n \in Node : Sends(n) \/ commit[n] = Len(log[n])

OrderInv ==
    /\ Peers /\ Logged /\ Queued /\ Proposing /\ Distinct
    /\ InOrder /\ Delivered /\ NoGap /\ Committed

OneLeads == \A t \in Nat, l, m \in Node : <<t, l>> \in elected /\ <<t, m>> \in elected => l = m

(* The order in a log without repetitions is strict. *)
LEMMA BeforeStrict ==
    ASSUME TypeOK, Distinct, NEW n \in Node, NEW d \in Entry, NEW e \in Entry, Before(n, d, e)
    PROVE  d # e /\ ~Before(n, e, d) /\ InLog(n, d) /\ InLog(n, e)
<1>1. Len(log[n]) \in Nat
    BY DEF TypeOK
<1>2. PICK i \in 1..Len(log[n]), j \in 1..Len(log[n]) : i < j /\ log[n][i] = d /\ log[n][j] = e
    BY DEF Before
<1>3. d # e
    BY <1>1, <1>2 DEF Distinct
<1>4. ASSUME Before(n, e, d) PROVE FALSE
    <2>1. PICK a \in 1..Len(log[n]), b \in 1..Len(log[n]) : a < b /\ log[n][a] = e /\ log[n][b] = d
        BY <1>4 DEF Before
    <2>2. a = j /\ b = i
        BY <1>2, <2>1 DEF Distinct
    <2> QED
        BY <1>1, <1>2, <2>1, <2>2
<1> QED
    BY <1>2, <1>3, <1>4 DEF InLog

(* Of two entries of a log one is first. *)
LEMMA BeforeTotal ==
    ASSUME TypeOK, NEW n \in Node, NEW d, NEW e, InLog(n, d), InLog(n, e), d # e
    PROVE  Before(n, d, e) \/ Before(n, e, d)
<1>1. Len(log[n]) \in Nat
    BY DEF TypeOK
<1>2. PICK i \in 1..Len(log[n]) : log[n][i] = d
    BY DEF InLog
<1>3. PICK j \in 1..Len(log[n]) : log[n][j] = e
    BY DEF InLog
<1>4. i < j \/ j < i
    BY <1>1, <1>2, <1>3
<1> QED
    BY <1>2, <1>3, <1>4 DEF Before

(* A log with an entry more. *)
LEMMA LongerLog ==
    ASSUME TypeOK, NEW n \in Node, NEW x \in Entry, log'[n] = Append(log[n], x)
    PROVE  /\ Len(log[n]) \in Nat /\ Len(log'[n]) = Len(log[n]) + 1
           /\ log'[n][Len(log[n]) + 1] = x
           /\ \A i \in 1..Len(log[n]) : log'[n][i] = log[n][i]
           /\ \A e : InLog(n, e)' <=> InLog(n, e) \/ e = x
           /\ \A d, e : Before(n, d, e) => Before(n, d, e)'
           /\ \A d, e : Before(n, d, e)' => Before(n, d, e) \/ e = x
           /\ \A d : InLog(n, d) => Before(n, d, x)'
<1>1. /\ Len(log[n]) \in Nat /\ Len(log'[n]) = Len(log[n]) + 1
      /\ log'[n][Len(log[n]) + 1] = x
      /\ \A i \in 1..Len(log[n]) : log'[n][i] = log[n][i]
    BY DEF TypeOK
<1> DEFINE N == Len(log[n])
<1>2. /\ N \in Nat /\ Len(log'[n]) = N + 1 /\ log'[n][N + 1] = x
      /\ \A i \in 1..N : log'[n][i] = log[n][i]
    BY <1>1
<1>3. \A i : i \in 1..(N + 1) <=> i \in 1..N \/ i = N + 1
    BY <1>2
<1>4. \A i \in 1..N : i < N + 1 /\ i # N + 1 /\ ~(N + 1 < i)
    BY <1>2
<1>5. N + 1 \in 1..(N + 1) /\ ~(N + 1 < N + 1)
    BY <1>2
<1>6. \A e : InLog(n, e) <=> \E i \in 1..N : log[n][i] = e
    BY DEF InLog
<1>7. \A e : InLog(n, e)' <=> \E i \in 1..(N + 1) : log'[n][i] = e
    BY <1>2 DEF InLog
<1>8. \A d, e : Before(n, d, e) <=> \E i, j \in 1..N : i < j /\ log[n][i] = d /\ log[n][j] = e
    BY DEF Before
<1>9. \A d, e : Before(n, d, e)' <=>
            \E i, j \in 1..(N + 1) : i < j /\ log'[n][i] = d /\ log'[n][j] = e
    BY <1>2 DEF Before
<1> HIDE DEF N
<1>10. \A e : InLog(n, e)' <=> InLog(n, e) \/ e = x
    BY <1>2, <1>3, <1>6, <1>7
<1>11. \A d, e : Before(n, d, e) => Before(n, d, e)'
    BY <1>2, <1>3, <1>8, <1>9
<1>12. \A d, e : Before(n, d, e)' => Before(n, d, e) \/ e = x
    BY <1>2, <1>3, <1>4, <1>5, <1>8, <1>9
<1>13. \A d : InLog(n, d) => Before(n, d, x)'
    BY <1>2, <1>3, <1>4, <1>5, <1>6, <1>9
<1> QED
    BY <1>1, <1>10, <1>11, <1>12, <1>13

(* A log that stays as it is. *)
LEMMA SameLog ==
    ASSUME NEW n \in Node, log'[n] = log[n]
    PROVE  /\ \A e : InLog(n, e)' <=> InLog(n, e)
           /\ \A d, e : Before(n, d, e)' <=> Before(n, d, e)
BY DEF InLog, Before

(* What n's log growing by x means for all logs. *)
LEMMA MadeGrows ==
    ASSUME TypeOK, NEW n \in Node, NEW x \in Entry, log' = [log EXCEPT ![n] = Append(@, x)],
           elected' = elected
    PROVE  /\ \A k \in Node : \A e : InLog(k, e)' <=> InLog(k, e) \/ (k = n /\ e = x)
           /\ \A k \in Node : \A e : Made(k, e) => Made(k, e)'
           /\ \A k \in Node : \A d, e : Before(k, d, e) => Before(k, d, e)'
           /\ \A k \in Node : \A d, e : Before(k, d, e)' => Before(k, d, e) \/ (k = n /\ e = x)
<1>1. /\ log'[n] = Append(log[n], x)
      /\ \A k \in Node : k # n => log'[k] = log[k]
    BY DEF TypeOK
<1>2. /\ \A e : InLog(n, e)' <=> InLog(n, e) \/ e = x
      /\ \A d, e : Before(n, d, e) => Before(n, d, e)'
      /\ \A d, e : Before(n, d, e)' => Before(n, d, e) \/ e = x
    BY <1>1, LongerLog
<1>3. \A k \in Node : k # n => /\ \A e : InLog(k, e)' <=> InLog(k, e)
                             /\ \A d, e : Before(k, d, e)' <=> Before(k, d, e)
    BY <1>1, SameLog
<1>4. \A k \in Node : \A e : InLog(k, e)' <=> InLog(k, e) \/ (k = n /\ e = x)
    BY <1>2, <1>3
<1>5. \A k \in Node : \A e : Made(k, e) => Made(k, e)'
    BY <1>4 DEF Made
<1> QED
    BY <1>2, <1>3, <1>4, <1>5

(* Everything on its way is a leader's. *)
LEMMA FromLeader ==
    ASSUME TypeOK, OneLeads, Logged, Queued, Proposing,
           NEW l \in Node, NEW n \in Node, NEW e \in Entry, NEW k \in 1..3, NEW i \in Nat,
           At(l, n, e, k, i)
    PROVE  /\ \E m \in Node : Made(m, e)
           /\ <<e.term, l>> \in elected => Made(l, e)
<1>1. \E m \in Node : Made(m, e)
    <2>1. CASE k = 1
        BY <2>1 DEF At, Logged
    <2>2. CASE k = 2
        <3>1. i \in 1..Len(inbox[n]) /\ inbox[n][i].type = "Append" /\ inbox[n][i].entry = e
            BY <2>2 DEF At
        <3>2. inbox[n][i] \in Message
            BY <3>1 DEF TypeOK
        <3>3. inbox[n][i].from \in Node
            BY <3>2, MessageParts
        <3> QED
            BY <3>1, <3>3 DEF Queued
    <2>3. CASE k = 3
        <3>1. Sends(l) /\ sending[l].msg.entry = e
            BY <2>3 DEF At, Sends, Idle
        <3> QED
            BY <3>1 DEF Proposing
    <2> QED
        BY <2>1, <2>2, <2>3
<1>2. e.term \in Nat
    BY DEF Entry
<1> QED
    BY <1>1, <1>2 DEF OneLeads, Made

(* All that is on its way from the leader of its term is in the leader's log. *)
OnlyMade ==
    \A l, n \in Node : \A e \in Entry : \A k \in 1..3, i \in Nat :
        At(l, n, e, k, i) /\ <<e.term, l>> \in elected => Made(l, e)

LEMMA FromLeaderAll == TypeOK /\ OneLeads /\ Logged /\ Queued /\ Proposing => OnlyMade
BY FromLeader DEF OnlyMade

(* A step keeps the order on the way when entries of a leader that are in  *)
(* an order after it were in this order before it.                         *)
LEMMA FlowInOrder ==
    ASSUME TypeOK', OneLeads', Logged', Queued', Proposing', InOrder,
           \A n \in Node : \A d, e : Before(n, d, e) => Before(n, d, e)',
           \A l \in Node, e \in Entry : Made(l, e)' => Made(l, e),
           \A l, n \in Node : \A d, e \in Entry : \A k, q \in 1..3, i, j \in Nat :
                /\ l # n /\ Made(l, d) /\ Made(l, e)
                /\ At(l, n, d, k, i)' /\ At(l, n, e, q, j)' /\ Earlier(k, i, q, j)
                => \E a, b \in 1..3, x, y \in Nat :
                      At(l, n, d, a, x) /\ At(l, n, e, b, y) /\ Earlier(a, x, b, y)
    PROVE  InOrder'
<1> SUFFICES ASSUME NEW l \in Node, NEW n \in Node, NEW d \in Entry, NEW e \in Entry,
                    NEW k \in 1..3, NEW q \in 1..3, NEW i \in Nat, NEW j \in Nat,
                    l # n, <<e.term, l>> \in elected', d.term = e.term,
                    At(l, n, d, k, i)', At(l, n, e, q, j)', Earlier(k, i, q, j)
             PROVE  Before(l, d, e)'
    BY DEF InOrder, Earlier
<1>1. OnlyMade'
    BY FromLeaderAll, PTL
<1>2. Made(l, d) /\ Made(l, e)
    <2>1. Made(l, d)' /\ Made(l, e)'
        BY <1>1 DEF OnlyMade
    <2> QED
        BY <2>1
<1>3. PICK a \in 1..3, b \in 1..3, x \in Nat, y \in Nat :
            At(l, n, d, a, x) /\ At(l, n, e, b, y) /\ Earlier(a, x, b, y)
    BY <1>2
<1>4. Before(l, d, e)
    BY <1>2, <1>3 DEF InOrder, Made
<1> QED
    BY <1>4

(* Nothing gets lost in a step that leaves everything on its way. *)
LEMMA FlowDelivered ==
    ASSUME TypeOK, TypeOK', Delivered,
           \A n \in Node : term'[n] >= term[n],
           \A l \in Node, e \in Entry : Made(l, e)' => Made(l, e),
           \A l, n \in Node : \A e \in Entry : \A k \in 1..3, i \in Nat :
                l # n /\ Made(l, e) /\ At(l, n, e, k, i) =>
                    term'[n] > e.term \/ \E q \in 1..3, j \in Nat : At(l, n, e, q, j)'
    PROVE  Delivered'
<1> SUFFICES ASSUME NEW l \in Node, NEW n \in Node, NEW e \in Entry, l # n, Made(l, e)'
             PROVE  term'[n] > e.term \/ \E k \in 1..3, i \in Nat : At(l, n, e, k, i)'
    BY DEF Delivered
<1>1. Made(l, e)
    OBVIOUS
<1>2. term[n] > e.term \/ \E k \in 1..3, i \in Nat : At(l, n, e, k, i)
    BY <1>1 DEF Delivered
<1>3. CASE term[n] > e.term
    <2>1. term[n] \in Nat /\ term'[n] \in Nat /\ e.term \in Nat /\ term'[n] >= term[n]
        BY DEF TypeOK, Entry
    <2> QED
        BY <1>3, <2>1
<1>4. CASE \E k \in 1..3, i \in Nat : At(l, n, e, k, i)
    BY <1>1, <1>4
<1> QED
    BY <1>2, <1>3, <1>4

(* What was made before a step that leaves the logs is all that is made    *)
(* after it, although a leader may be new.                                 *)
LEMMA NothingMade ==
    ASSUME Logged, OneLeads', log' = log, elected \subseteq elected'
    PROVE  \A l \in Node, e \in Entry : Made(l, e)' => Made(l, e)
<1> SUFFICES ASSUME NEW l \in Node, NEW e \in Entry, Made(l, e)' PROVE Made(l, e)
    OBVIOUS
<1>1. InLog(l, e) /\ <<e.term, l>> \in elected'
    BY SameLog DEF Made
<1>2. PICK m \in Node : Made(m, e)
    BY <1>1 DEF Logged, InLog
<1>3. e.term \in Nat /\ <<e.term, m>> \in elected'
    BY <1>2 DEF Made, Entry
<1>4. l = m
    BY <1>1, <1>3 DEF OneLeads
<1> QED
    BY <1>2, <1>4

(* The parts about logs, in a step that leaves the logs. *)
LEMMA SameLogsKeep ==
    ASSUME TypeOK, OneLeads', Logged, Distinct, NoGap, log' = log, elected \subseteq elected'
    PROVE  Logged' /\ Distinct' /\ NoGap'
<1>1. \A l \in Node, e \in Entry : Made(l, e)' => Made(l, e)
    BY NothingMade
<1>2. \A n \in Node : /\ \A e : InLog(n, e)' <=> InLog(n, e)
                      /\ \A d, e : Before(n, d, e)' <=> Before(n, d, e)
    BY SameLog
<1>3. \A l \in Node : \A e : Made(l, e) => Made(l, e)'
    BY <1>2 DEF Made
<1>4. Logged'
    BY <1>3 DEF Logged
<1>5. Distinct'
    BY DEF Distinct
<1>6. NoGap'
    <2> SUFFICES ASSUME NEW l \in Node, NEW n \in Node, NEW d \in Entry, NEW e \in Entry,
                        <<e.term, l>> \in elected', d.term = e.term, InLog(n, e)', Before(l, d, e)'
                 PROVE  InLog(n, d)'
        BY DEF NoGap
    <2>1. Before(l, d, e) /\ InLog(n, e)
        BY <1>2
    <2>2. InLog(l, e)
        BY <2>1 DEF Before, InLog
    <2>3. Made(l, e)
        BY <1>1, <1>2, <2>2 DEF Made
    <2>4. InLog(n, d)
        BY <2>1, <2>3 DEF NoGap, Made
    <2> QED
        BY <1>2, <2>4
<1> QED
    BY <1>4, <1>5, <1>6

(* The inbox of n after its first message is taken. *)
LEMMA Taken ==
    ASSUME TypeOK, NEW n \in Node, NEW type, Receives(n, type)
    PROVE  /\ sending[n].to = {}
           /\ Len(inbox[n]) \in Nat \ {0} /\ Len(inbox'[n]) = Len(inbox[n]) - 1
           /\ Head(inbox[n]) = inbox[n][1] /\ Head(inbox[n]) \in Message
           /\ Head(inbox[n]).type = type
           /\ \A i \in 1..Len(inbox'[n]) : inbox'[n][i] = inbox[n][i + 1]
           /\ \A k \in Node : k # n => inbox'[k] = inbox[k]
<1>1. /\ sending[n].to = {} /\ Head(inbox[n]).type = type
      /\ inbox[n] \in Seq(Message) /\ inbox[n] # <<>>
      /\ inbox'[n] = Tail(inbox[n])
      /\ \A k \in Node : k # n => inbox'[k] = inbox[k]
    BY DEF Receives, Idle, TypeOK
<1> QED
    BY <1>1, TailAt

(* Messages that were in the inbox before have what Queued asks of them. *)
LEMMA QueuedStays ==
    ASSUME TypeOK, Queued, \A k \in Node : \A e : Made(k, e) => Made(k, e)',
           \A k \in Node : \A i \in 1..Len(inbox'[k]) :
                \E j \in 1..Len(inbox[k]) : inbox'[k][i] = inbox[k][j]
    PROVE  Queued'
<1> SUFFICES ASSUME NEW k \in Node, NEW i \in 1..Len(inbox'[k]), inbox'[k][i].type = "Append"
             PROVE  (/\ inbox[k][i].term = inbox[k][i].entry.term
                     /\ Made(inbox[k][i].from, inbox[k][i].entry))'
    BY DEF Queued
<1>1. PICK j \in 1..Len(inbox[k]) : inbox'[k][i] = inbox[k][j]
    OBVIOUS
<1>2. inbox[k][j] \in Message
    <2>1. inbox[k] \in Seq(Message)
        BY DEF TypeOK
    <2> QED
        BY <2>1
<1>3. PICK f, e : f = inbox[k][j].from /\ e = inbox[k][j].entry
    OBVIOUS
<1>4. f \in Node
    BY <1>2, <1>3, MessageParts
<1>5. inbox[k][j].term = e.term /\ Made(f, e)
    BY <1>1, <1>3 DEF Queued
<1>6. Made(f, e)'
    BY <1>4, <1>5
<1>7. f = inbox'[k][i].from /\ e = inbox'[k][i].entry /\ inbox'[k][i].term = e.term
    BY <1>1, <1>3, <1>5
<1> QED
    BY <1>6, <1>7

(* A node that only n's step could have made send was sending before. *)
LEMMA ProposingStays ==
    ASSUME Proposing, \A k \in Node : \A e : Made(k, e) => Made(k, e)', NEW n \in Node, ~Sends(n)',
           \A k \in Node : k # n => sending'[k] = sending[k]
    PROVE  Proposing'
<1> SUFFICES ASSUME NEW k \in Node, Sends(k)'
             PROVE  (/\ sending[k].msg.term = sending[k].msg.entry.term
                     /\ Made(k, sending[k].msg.entry))'
    BY DEF Proposing
<1>1. Sends(k) /\ sending'[k] = sending[k]
    BY DEF Sends, Idle
<1>2. PICK e : e = sending[k].msg.entry
    OBVIOUS
<1>3. sending[k].msg.term = e.term /\ Made(k, e)
    BY <1>1, <1>2 DEF Proposing
<1>4. Made(k, e)'
    BY <1>3
<1> QED
    BY <1>1, <1>2, <1>3, <1>4

(* A log without repetitions stays so with an entry it does not have. *)
LEMMA DistinctStays ==
    ASSUME TypeOK, Distinct, NEW n \in Node, NEW x \in Entry, ~InLog(n, x),
           log' = [log EXCEPT ![n] = Append(@, x)]
    PROVE  Distinct'
<1> DEFINE N == Len(log[n])
<1>1. log'[n] = Append(log[n], x) /\ \A k \in Node : k # n => log'[k] = log[k]
    BY DEF TypeOK
<1>2. /\ N \in Nat /\ Len(log'[n]) = N + 1 /\ log'[n][N + 1] = x
      /\ \A i \in 1..N : log'[n][i] = log[n][i]
    BY <1>1, LongerLog
<1>3. \A i : i \in 1..(N + 1) <=> i \in 1..N \/ i = N + 1
    BY <1>2
<1>4. \A h \in 1..N : log'[n][h] = log[n][h] /\ log[n][h] # x
    BY <1>2 DEF InLog
<1>5. \A g, h \in 1..N : log[n][g] = log[n][h] => g = h
    BY DEF Distinct
<1> HIDE DEF N
<1> SUFFICES ASSUME NEW k \in Node, NEW i \in 1..Len(log'[k]), NEW j \in 1..Len(log'[k]),
                    log'[k][i] = log'[k][j]
             PROVE  i = j
    BY DEF Distinct
<1>6. CASE k # n
    BY <1>1, <1>6 DEF Distinct
<1>7. CASE k = n
    <2>1. i \in 1..(N + 1) /\ j \in 1..(N + 1) /\ log'[n][i] = log'[n][j]
        BY <1>2, <1>7
    <2> QED
        BY <1>2, <1>3, <1>4, <1>5, <2>1
<1> QED
    BY <1>6, <1>7

(* Handling a message that leaves the logs, an Append of an older term     *)
(* among them.                                                             *)
LEMMA HandledKeepsOrder ==
    ASSUME TypeOK, TypeOK', OrderInv, OneLeads', NEW n \in Node, NEW type, Receives(n, type),
           log' = log, elected \subseteq elected',
           \A k \in Node : term'[k] >= term[k],
           \A k \in Node : k # n => sending'[k] = sending[k],
           sending'[n].to \subseteq {Head(inbox[n]).from},
           sending'[n].to # {} => sending'[n].msg.type # "Append",
           type = "Append" => term[n] > Head(inbox[n]).term,
           \A k \in Node : commit'[k] \in {commit[k], Len(log[k])},
           \A k \in Node : role'[k] = "leader" =>
                \/ role[k] = "leader" /\ term'[k] = term[k]
                \/ k = n /\ <<term'[k], k>> \in elected'
    PROVE  OrderInv'
<1> DEFINE m == Head(inbox[n])
<1> USE DEF OrderInv
<1>1. /\ sending[n].to = {}
      /\ Len(inbox[n]) \in Nat \ {0} /\ Len(inbox'[n]) = Len(inbox[n]) - 1
      /\ m = inbox[n][1] /\ m \in Message /\ m.type = type
      /\ \A i \in 1..Len(inbox'[n]) : inbox'[n][i] = inbox[n][i + 1]
      /\ \A k \in Node : k # n => inbox'[k] = inbox[k]
    BY Taken
<1>2. m.from # n
    <2>1. 1 \in 1..Len(inbox[n])
        BY <1>1
    <2>2. \A i \in 1..Len(inbox[n]) : inbox[n][i].from # n
        BY DEF Peers
    <2>3. inbox[n][1].from # n
        BY <2>1, <2>2
    <2> QED
        BY <1>1, <2>3
<1>3. \A i \in 1..Len(inbox'[n]) : i + 1 \in 1..Len(inbox[n])
    BY <1>1
<1>4. \A k \in Node : \A i \in 1..Len(inbox'[k]) :
            \E j \in 1..Len(inbox[k]) : inbox'[k][i] = inbox[k][j]
    BY <1>1, <1>3
<1>5. Peers'
    <2> SUFFICES ASSUME NEW k \in Node
                 PROVE  /\ k \notin sending'[k].to
                        /\ \A i \in 1..Len(inbox'[k]) : inbox'[k][i].from # k
                        /\ role'[k] = "leader" => Node # {k} /\ <<term'[k], k>> \in elected'
        BY DEF Peers
    <2>1. k \notin sending'[k].to
        BY <1>2 DEF Peers
    <2>2. \A i \in 1..Len(inbox'[k]) : inbox'[k][i].from # k
        <3>1. \A j \in 1..Len(inbox[k]) : inbox[k][j].from # k
            BY DEF Peers
        <3> QED
            BY <1>4, <3>1
    <2>3. ASSUME role'[k] = "leader" PROVE Node # {k} /\ <<term'[k], k>> \in elected'
        <3>1. m.from \in Node
            BY <1>1, MessageParts
        <3>2. n # k \/ Node # {k}
            BY <1>2, <3>1
        <3> QED
            BY <2>3, <3>2 DEF Peers
    <2> QED
        BY <2>1, <2>2, <2>3
<1> HIDE DEF m
<1>6. Logged' /\ Distinct' /\ NoGap'
    BY SameLogsKeep
<1>7. \A l \in Node : \A e : Made(l, e) => Made(l, e)'
    BY SameLog DEF Made
<1>8. Queued'
    BY <1>4, <1>7, QueuedStays
<1>9. Proposing'
    <2>1. ~Sends(n)'
        BY DEF Sends, Idle
    <2> QED
        BY <1>7, <2>1, ProposingStays
<1>10. ASSUME NEW l \in Node, NEW k \in Node, NEW e \in Entry, NEW a \in 1..3, NEW i \in Nat,
              At(l, k, e, a, i)'
       PROVE  /\ a = 2 /\ k = n => i >= 1 /\ At(l, k, e, 2, i + 1)
              /\ ~(a = 2 /\ k = n) => At(l, k, e, a, i)
    <2>1. CASE a = 1
        BY <1>10, <2>1 DEF At
    <2>2. CASE a = 2
        <3>1. i \in 1..Len(inbox'[k]) /\ inbox'[k][i].type = "Append" /\ inbox'[k][i].entry = e
            BY <1>10, <2>2 DEF At
        <3>2. CASE k = n
            <4>1. i + 1 \in 1..Len(inbox[n]) /\ inbox'[n][i] = inbox[n][i + 1]
                BY <1>1, <1>3, <3>1, <3>2
            <4> QED
                BY <2>2, <3>1, <3>2, <4>1 DEF At
        <3>3. CASE k # n
            BY <1>1, <2>2, <3>1, <3>3 DEF At
        <3> QED
            BY <3>2, <3>3
    <2>3. CASE a = 3
        BY <1>10, <2>3 DEF At
    <2> QED
        BY <2>1, <2>2, <2>3
<1>11. \A k \in Node : \A d, e : Before(k, d, e) => Before(k, d, e)'
    BY SameLog
<1>12. \A l \in Node, e \in Entry : Made(l, e)' => Made(l, e)
    BY NothingMade
<1>13. InOrder'
    <2>1. \A l, k \in Node : \A d, e \in Entry : \A a, b \in 1..3, i, j \in Nat :
                /\ l # k /\ Made(l, d) /\ Made(l, e)
                /\ At(l, k, d, a, i)' /\ At(l, k, e, b, j)' /\ Earlier(a, i, b, j)
                => \E g, h \in 1..3, x, y \in Nat :
                      At(l, k, d, g, x) /\ At(l, k, e, h, y) /\ Earlier(g, x, h, y)
        <3> TAKE l, k \in Node
        <3> TAKE d, e \in Entry
        <3> TAKE a, b \in 1..3, i, j \in Nat
        <3> HAVE /\ l # k /\ Made(l, d) /\ Made(l, e)
                 /\ At(l, k, d, a, i)' /\ At(l, k, e, b, j)' /\ Earlier(a, i, b, j)
        <3> DEFINE x == IF a = 2 /\ k = n THEN i + 1 ELSE i
                   y == IF b = 2 /\ k = n THEN j + 1 ELSE j
        <3>1. x \in Nat /\ y \in Nat /\ Earlier(a, x, b, y)
            BY DEF Earlier
        <3>2. At(l, k, d, a, x) /\ At(l, k, e, b, y)
            BY <1>10
        <3> QED
            BY <3>1, <3>2
    <2> HIDE DEF OrderInv
    <2>2. InOrder
        BY DEF OrderInv
    <2> QED
        BY <1>6, <1>8, <1>9, <1>11, <1>12, <2>1, <2>2, FlowInOrder, Zenon
<1>14. Delivered'
    <2>1. ASSUME NEW l \in Node, NEW k \in Node, NEW e \in Entry, NEW a \in 1..3, NEW i \in Nat,
                 At(l, k, e, a, i)
          PROVE  term'[k] > e.term \/ \E b \in 1..3, j \in Nat : At(l, k, e, b, j)'
        <3>1. CASE a = 1
            BY <2>1, <3>1 DEF At
        <3>2. CASE a = 2 /\ k # n
            BY <1>1, <2>1, <3>2 DEF At
        <3>3. CASE a = 2 /\ k = n
            <4>1. i \in 1..Len(inbox[n]) /\ inbox[n][i].type = "Append" /\ inbox[n][i].entry = e
                BY <2>1, <3>3 DEF At
            <4>2. CASE i = 1
                <5>1. m.type = "Append" /\ m.entry = e /\ m.term = e.term /\ m.term \in Nat
                    BY <1>1, <4>1, <4>2, MessageParts DEF Queued
                <5>2. term[n] > e.term /\ term'[n] >= term[n]
                    BY <1>1, <5>1 DEF m
                <5>3. term[n] \in Nat /\ term'[n] \in Nat
                    BY DEF TypeOK
                <5> QED
                    BY <3>3, <5>1, <5>2, <5>3
            <4>3. CASE i # 1
                <5>1. i - 1 \in 1..Len(inbox'[n]) /\ i - 1 \in Nat
                    BY <1>1, <4>1, <4>3
                <5>2. inbox'[n][i - 1] = inbox[n][i]
                    BY <1>1, <5>1
                <5>3. At(l, k, e, 2, i - 1)'
                    BY <3>3, <4>1, <5>1, <5>2 DEF At
                <5> QED
                    BY <5>1, <5>3
            <4> QED
                BY <4>2, <4>3
        <3>4. CASE a = 3
            <4>1. i = 0 /\ k \in sending[l].to
                BY <2>1, <3>4 DEF At
            <4>2. l # n
                BY <1>1, <4>1
            <4> QED
                BY <2>1, <3>4, <4>2 DEF At
        <3> QED
            BY <3>1, <3>2, <3>3, <3>4
    <2> HIDE DEF OrderInv
    <2>2. Delivered
        BY DEF OrderInv
    <2> QED
        BY <1>12, <2>1, <2>2, FlowDelivered
<1>15. Committed'
    <2> SUFFICES ASSUME NEW k \in Node PROVE Sends(k)' \/ commit'[k] = Len(log'[k])
        BY DEF Committed
    <2>1. CASE k = n
        BY <1>1, <2>1 DEF Committed, Sends, Idle
    <2>2. CASE k # n
        BY <2>2 DEF Committed, Sends, Idle
    <2> QED
        BY <2>1, <2>2
<1> QED
    BY <1>5, <1>6, <1>8, <1>9, <1>13, <1>14, <1>15

(* Standing for election leaves all that is on its way. *)
LEMMA ElectKeepsOrder ==
    ASSUME TypeOK, TypeOK', OrderInv, OneLeads', NEW n \in Node, Elect(n)
    PROVE  OrderInv'
<1> USE DEF OrderInv
<1>1. /\ sending[n].to = {}
      /\ sending'[n].to = Node \ {n} /\ sending'[n].msg.type = "VoteReq"
      /\ \A k \in Node : k # n =>
            sending'[k] = sending[k] /\ role'[k] = role[k] /\ term'[k] = term[k]
      /\ role'[n] = "candidate" /\ term'[n] = term[n] + 1
      /\ UNCHANGED <<log, commit, inbox, elected>>
    BY DEF Elect, Idle, TypeOK
<1>2. \A k \in Node : term'[k] >= term[k]
    <2>1. \A k \in Node : term[k] \in Nat
        BY DEF TypeOK
    <2> QED
        BY <1>1, <2>1
<1>3. Peers'
    BY <1>1 DEF Peers
<1>4. Logged' /\ Distinct' /\ NoGap'
    BY <1>1, SameLogsKeep
<1>5. \A l, e : Made(l, e)' <=> Made(l, e)
    BY <1>1 DEF Made, InLog
<1>6. Queued'
    BY <1>1, <1>5, QueuedStays
<1>7. Proposing'
    <2>1. ~Sends(n)'
        BY <1>1 DEF Sends, Idle
    <2> QED
        BY <1>1, <1>5, <2>1, ProposingStays
<1>8. \A l, k \in Node : \A e : \A a, i : At(l, k, e, a, i)' <=> At(l, k, e, a, i)
    BY <1>1 DEF At
<1>9. InOrder'
    BY <1>1, <1>8, SameLog DEF InOrder, Earlier
<1>10. Delivered'
    <2>1. \A l \in Node, e \in Entry : Made(l, e)' => Made(l, e)
        BY <1>5
    <2> QED
        BY <1>2, <1>8, <2>1, FlowDelivered
<1>11. Committed'
    BY <1>1 DEF Committed, Sends, Idle
<1> QED
    BY <1>3, <1>4, <1>6, <1>7, <1>9, <1>10, <1>11

(* Sending a message moves an entry from the sender to the end of an inbox. *)
LEMMA SendKeepsOrder ==
    ASSUME TypeOK, TypeOK', OrderInv, OneLeads, OneLeads', OwnMessages, NEW n \in Node, Send(n)
    PROVE  OrderInv'
<1> USE DEF OrderInv
<1>1. PICK r \in sending[n].to :
        /\ sending' = [sending EXCEPT ![n] = Rest(n, r)]
        /\ inbox' = [inbox EXCEPT ![r] = Append(@, sending[n].msg)]
        /\ commit' = IF sending[n].to = {r} /\ sending[n].msg.type = "Append"
                     THEN [commit EXCEPT ![n] = Len(log[n])]
                     ELSE commit
    BY DEF Send
<1>2. UNCHANGED <<role, term, log, elected>>
    BY DEF Send
<1> DEFINE m == sending[n].msg
           N == Len(inbox[r])
<1>3. /\ r \in Node /\ m \in Message /\ m.from = n
      /\ Rest(n, r).to = sending[n].to \ {r}
      /\ Rest(n, r).to # {} => Rest(n, r).msg = m
    BY <1>1, RestTyped DEF TypeOK, OwnMessages, Idle
<1>4. r # n
    BY <1>1 DEF Peers
<1>5. /\ sending'[n] = Rest(n, r)
      /\ \A k \in Node : k # n => sending'[k] = sending[k]
      /\ inbox[r] \in Seq(Message) /\ inbox'[r] = Append(inbox[r], m)
      /\ \A k \in Node : k # r => inbox'[k] = inbox[k]
    BY <1>1, <1>3 DEF TypeOK
<1>6. /\ N \in Nat /\ Len(inbox'[r]) = N + 1 /\ inbox'[r][N + 1] = m
      /\ \A i \in 1..N : inbox'[r][i] = inbox[r][i]
    BY <1>3, <1>5
<1>7. \A i : i \in 1..(N + 1) <=> i \in 1..N \/ i = N + 1
    BY <1>6
<1> HIDE DEF m, N
<1>8. \A k \in Node : \A i \in 1..Len(inbox'[k]) :
            \/ i \in 1..Len(inbox[k]) /\ inbox'[k][i] = inbox[k][i] /\ ~(k = r /\ i = N + 1)
            \/ k = r /\ i = N + 1 /\ inbox'[k][i] = m
    BY <1>5, <1>6, <1>7 DEF N
<1>9. Logged' /\ Distinct' /\ NoGap'
    BY <1>2, SameLogsKeep
<1>10. \A l, e : Made(l, e)' <=> Made(l, e)
    BY <1>2 DEF Made, InLog
<1>11. m.type = "Append" => m.term = m.entry.term /\ Made(n, m.entry)
    BY <1>1 DEF m, Proposing, Sends, Idle
<1>12. Peers'
    <2> SUFFICES ASSUME NEW k \in Node
                 PROVE  /\ k \notin sending'[k].to
                        /\ \A i \in 1..Len(inbox'[k]) : inbox'[k][i].from # k
        BY <1>2 DEF Peers
    <2>1. k \notin sending'[k].to
        BY <1>3, <1>5 DEF Peers
    <2>2. \A i \in 1..Len(inbox[k]) : inbox[k][i].from # k
        BY DEF Peers
    <2> QED
        BY <1>3, <1>4, <1>8, <2>1, <2>2
<1>13. Queued'
    <2> SUFFICES ASSUME NEW k \in Node, NEW i \in 1..Len(inbox'[k]), inbox'[k][i].type = "Append"
                 PROVE  (/\ inbox[k][i].term = inbox[k][i].entry.term
                         /\ Made(inbox[k][i].from, inbox[k][i].entry))'
        BY DEF Queued
    <2>1. PICK x : x = inbox'[k][i]
        OBVIOUS
    <2>2. x.term = x.entry.term /\ Made(x.from, x.entry)
        <3>1. CASE i \in 1..Len(inbox[k]) /\ x = inbox[k][i]
            BY <2>1, <3>1 DEF Queued
        <3>2. CASE x = m
            BY <1>3, <1>11, <2>1, <3>2
        <3> QED
            BY <1>8, <2>1, <3>1, <3>2
    <2>3. Made(x.from, x.entry)'
        BY <1>10, <2>2
    <2> QED
        BY <2>1, <2>2, <2>3
<1>14. Proposing'
    <2> SUFFICES ASSUME NEW k \in Node, Sends(k)'
                 PROVE  (/\ sending[k].msg.term = sending[k].msg.entry.term
                         /\ Made(k, sending[k].msg.entry))'
        BY DEF Proposing
    <2>1. Sends(k) /\ sending'[k].msg = sending[k].msg
        BY <1>1, <1>3, <1>5 DEF Sends, Idle, m
    <2>2. sending[k].msg.term = sending[k].msg.entry.term /\ Made(k, sending[k].msg.entry)
        BY <2>1 DEF Proposing
    <2> QED
        BY <1>2, <2>1, <2>2 DEF Made, InLog
<1>15. ASSUME NEW l \in Node, NEW k \in Node, NEW e \in Entry, NEW a \in 1..3, NEW i \in Nat,
              Made(l, e), At(l, k, e, a, i)'
       PROVE  \/ /\ At(l, k, e, a, i) /\ ~(a = 2 /\ k = r /\ i = N + 1)
                 /\ ~(a = 3 /\ l = n /\ k = r)
              \/ a = 2 /\ k = r /\ i = N + 1 /\ l = n /\ At(n, r, e, 3, 0)
    <2>1. CASE a = 1
        BY <1>2, <1>15, <2>1 DEF At
    <2>2. CASE a = 2
        <3>1. i \in 1..Len(inbox'[k]) /\ inbox'[k][i].type = "Append" /\ inbox'[k][i].entry = e
            BY <1>15, <2>2 DEF At
        <3>2. CASE i \in 1..Len(inbox[k]) /\ inbox'[k][i] = inbox[k][i] /\ ~(k = r /\ i = N + 1)
            BY <2>2, <3>1, <3>2 DEF At
        <3>3. CASE k = r /\ i = N + 1 /\ inbox'[k][i] = m
            <4>1. m.type = "Append" /\ m.entry = e /\ Made(n, e) /\ e.term \in Nat
                BY <1>11, <3>1, <3>3 DEF Entry
            <4>2. l = n
                BY <1>15, <4>1 DEF OneLeads, Made
            <4>3. At(n, r, e, 3, 0)
                BY <1>1, <4>1 DEF At, m
            <4> QED
                BY <2>2, <3>3, <4>2, <4>3
        <3> QED
            BY <1>8, <3>1, <3>2, <3>3
    <2>3. CASE a = 3
        BY <1>3, <1>5, <1>15, <2>3 DEF At, m
    <2> QED
        BY <2>1, <2>2, <2>3
<1>16. InOrder'
    <2>1. \A l, k \in Node : \A d, e \in Entry : \A a, b \in 1..3, i, j \in Nat :
                /\ l # k /\ Made(l, d) /\ Made(l, e)
                /\ At(l, k, d, a, i)' /\ At(l, k, e, b, j)' /\ Earlier(a, i, b, j)
                => \E g, h \in 1..3, x, y \in Nat :
                      At(l, k, d, g, x) /\ At(l, k, e, h, y) /\ Earlier(g, x, h, y)
        <3> TAKE l, k \in Node
        <3> TAKE d, e \in Entry
        <3> TAKE a, b \in 1..3, i, j \in Nat
        <3> HAVE /\ l # k /\ Made(l, d) /\ Made(l, e)
                 /\ At(l, k, d, a, i)' /\ At(l, k, e, b, j)' /\ Earlier(a, i, b, j)
        <3> DEFINE moved(c, p) == c = 2 /\ k = r /\ p = N + 1 /\ l = n
        <3>1. CASE moved(a, i)
            <4>1. b = 2 => j > N + 1
                BY <3>1 DEF Earlier
            <4>2. ~(b = 2 /\ j \in 1..Len(inbox'[k]))
                BY <1>6, <3>1, <4>1
            <4>3. b = 3
                BY <3>1, <4>2 DEF Earlier, At
            <4> QED
                BY <1>15, <3>1, <4>3
        <3>2. CASE ~moved(a, i)
            <4>1. At(l, k, d, a, i)
                BY <1>15, <3>2
            <4>2. CASE moved(b, j)
                <5>1. At(l, k, e, 3, 0) /\ Earlier(a, i, 3, 0)
                    BY <1>15, <4>2 DEF Earlier
                <5>2. 3 \in 1..3 /\ 0 \in Nat
                    OBVIOUS
                <5> QED
                    BY <4>1, <5>1, <5>2
            <4>3. CASE ~moved(b, j)
                <5>1. At(l, k, e, b, j)
                    BY <1>15, <4>3
                <5> QED
                    BY <4>1, <5>1
            <4> QED
                BY <4>2, <4>3
        <3> QED
            BY <3>1, <3>2
    <2> HIDE DEF OrderInv
    <2>2. InOrder
        BY DEF OrderInv
    <2>3. \A k \in Node : \A d, e : Before(k, d, e) => Before(k, d, e)'
        BY <1>2, SameLog
    <2>4. \A l \in Node, e \in Entry : Made(l, e)' => Made(l, e)
        BY <1>10
    <2> QED
        BY <1>9, <1>13, <1>14, <2>1, <2>2, <2>3, <2>4, FlowInOrder, Zenon
<1>17. Delivered'
    <2>1. ASSUME NEW l \in Node, NEW k \in Node, NEW e \in Entry, NEW a \in 1..3, NEW i \in Nat,
                 At(l, k, e, a, i)
          PROVE  \E b \in 1..3, j \in Nat : At(l, k, e, b, j)'
        <3>1. CASE a = 1
            BY <1>2, <2>1, <3>1 DEF At
        <3>2. CASE a = 2
            <4>1. i \in 1..Len(inbox[k]) /\ inbox[k][i].type = "Append" /\ inbox[k][i].entry = e
                BY <2>1, <3>2 DEF At
            <4>2. i \in 1..Len(inbox'[k]) /\ inbox'[k][i] = inbox[k][i]
                BY <1>5, <1>6, <1>7, <4>1 DEF N
            <4>3. At(l, k, e, 2, i)'
                BY <4>1, <4>2 DEF At
            <4> QED
                BY <4>3
        <3>3. CASE a = 3
            <4>1. i = 0 /\ k \in sending[l].to /\ sending[l].msg.type = "Append"
                  /\ sending[l].msg.entry = e
                BY <2>1, <3>3 DEF At
            <4>2. CASE l = n /\ k = r
                <5>1. PICK j \in Nat : j \in 1..Len(inbox'[k]) /\ inbox'[k][j] = m
                    BY <1>6, <4>2
                <5>2. At(l, k, e, 2, j)'
                    BY <4>1, <4>2, <5>1 DEF At, m
                <5> QED
                    BY <5>2
            <4>3. CASE ~(l = n /\ k = r)
                <5>1. At(l, k, e, 3, 0)'
                    BY <1>3, <1>5, <4>1, <4>3 DEF At, m
                <5> QED
                    BY <5>1
            <4> QED
                BY <4>2, <4>3
        <3> QED
            BY <3>1, <3>2, <3>3
    <2>2. \A k \in Node : term'[k] >= term[k]
        BY <1>2 DEF TypeOK
    <2> HIDE DEF OrderInv
    <2>3. Delivered
        BY DEF OrderInv
    <2>4. \A l \in Node, e \in Entry : Made(l, e)' => Made(l, e)
        BY <1>10
    <2> QED
        BY <2>1, <2>2, <2>3, <2>4, FlowDelivered
<1>18. Committed'
    <2> SUFFICES ASSUME NEW k \in Node PROVE Sends(k)' \/ commit'[k] = Len(log[k])
        BY <1>2 DEF Committed
    <2>1. CASE k # n
        BY <1>1, <1>5, <2>1 DEF Committed, Sends, Idle, TypeOK
    <2>2. CASE k = n /\ sending[n].msg.type = "Append"
        <3>1. CASE sending[n].to = {r}
            BY <1>1, <2>2, <3>1 DEF TypeOK
        <3>2. CASE sending[n].to # {r}
            BY <1>1, <1>3, <1>5, <2>2, <3>2 DEF Sends, Idle, m
        <3> QED
            BY <3>1, <3>2
    <2>3. CASE k = n /\ sending[n].msg.type # "Append"
        BY <1>1, <2>3 DEF Committed, Sends
    <2> QED
        BY <2>1, <2>2, <2>3
<1> QED
    BY <1>9, <1>12, <1>13, <1>14, <1>16, <1>17, <1>18

(* An Append that is followed brings an entry that is not in the log yet,  *)
(* from the inbox to the end of the log; all entries before it in the      *)
(* leader's log are already there.                                         *)
LEMMA FollowKeepsOrder ==
    ASSUME TypeOK, TypeOK', OrderInv, OneLeads, OneLeads', NEW n \in Node, HandleAppend(n),
           Head(inbox[n]).term >= term[n]
    PROVE  OrderInv'
<1> USE DEF OrderInv
<1> DEFINE m == Head(inbox[n])
           N == Len(log[n])
<1>1. /\ Receives(n, "Append")
      /\ term' = [term EXCEPT ![n] = m.term]
      /\ role' = [role EXCEPT ![n] = IF m.term > term[n] THEN "follower" ELSE @]
      /\ log' = [log EXCEPT ![n] = Extended(@, m.entry)]
      /\ commit' = [commit EXCEPT ![n] = Len(log'[n])]
      /\ elected' = elected
    BY DEF HandleAppend
<1>2. /\ sending'[n].to = {m.from} /\ sending'[n].msg.type = "AppendAck"
      /\ \A k \in Node : k # n => sending'[k] = sending[k]
    <2>1. sending' = [sending EXCEPT ![n] = [to |-> {m.from},
                msg |-> [type |-> "AppendAck", from |-> n, term |-> m.term,
                         ok |-> m.term >= term[n]]]]
        BY DEF HandleAppend, Reply
    <2> QED
        BY <2>1 DEF TypeOK
<1>3. /\ sending[n].to = {}
      /\ Len(inbox[n]) \in Nat \ {0} /\ Len(inbox'[n]) = Len(inbox[n]) - 1
      /\ m = inbox[n][1] /\ m \in Message /\ m.type = "Append"
      /\ \A i \in 1..Len(inbox'[n]) : inbox'[n][i] = inbox[n][i + 1]
      /\ \A k \in Node : k # n => inbox'[k] = inbox[k]
    BY <1>1, Taken
<1>4. PICK x, l : x = m.entry /\ l = m.from
    OBVIOUS
<1>5. x \in Entry /\ l \in Node /\ m.term \in Nat /\ x.term \in Nat
    BY <1>3, <1>4, MessageParts DEF Entry
<1>6. 1 \in 1..Len(inbox[n])
    BY <1>3
<1>7. l # n /\ m.term = x.term /\ Made(l, x) /\ At(l, n, x, 2, 1)
    <2>1. m.from # n
        BY <1>3, <1>6 DEF Peers
    <2>2. m.term = m.entry.term /\ Made(m.from, m.entry)
        BY <1>3, <1>6 DEF Queued
    <2>3. At(l, n, x, 2, 1)
        BY <1>3, <1>4, <1>6 DEF At
    <2> QED
        BY <1>4, <2>1, <2>2, <2>3
<1> HIDE DEF m, N
<1>8. ~InLog(n, x)
    <2> SUFFICES ASSUME InLog(n, x) PROVE FALSE
        OBVIOUS
    <2>1. PICK i \in 1..Len(log[n]) : log[n][i] = x
        BY DEF InLog
    <2>2. At(l, n, x, 1, i) /\ i \in Nat /\ Earlier(1, i, 2, 1)
        BY <2>1 DEF At, Earlier
    <2>3. Before(l, x, x)
        BY <1>5, <1>7, <2>2 DEF InOrder, Made
    <2> QED
        BY <1>5, <2>3, BeforeStrict
<1>9. log' = [log EXCEPT ![n] = Append(@, x)]
    <2>1. log[n] \in Seq(Entry)
        BY DEF TypeOK
    <2>2. x \notin ToSet(log[n])
        BY <1>8, <2>1 DEF ToSet, InLog
    <2>3. Extended(log[n], x) = Append(log[n], x)
        BY <2>2 DEF Extended
    <2> QED
        BY <1>1, <1>4, <2>3
<1>10. /\ N \in Nat /\ Len(log'[n]) = N + 1 /\ log'[n][N + 1] = x
       /\ \A i \in 1..N : log'[n][i] = log[n][i]
       /\ \A k \in Node : k # n => log'[k] = log[k]
    <2>1. log'[n] = Append(log[n], x) /\ \A k \in Node : k # n => log'[k] = log[k]
        BY <1>9 DEF TypeOK
    <2> QED
        BY <1>5, <2>1, LongerLog DEF N
<1>11. \A i : i \in 1..(N + 1) <=> i \in 1..N \/ i = N + 1
    BY <1>10
<1>12. /\ \A k \in Node : \A e : InLog(k, e)' <=> InLog(k, e) \/ (k = n /\ e = x)
       /\ \A k \in Node : \A e : Made(k, e) => Made(k, e)'
       /\ \A k \in Node : \A d, e : Before(k, d, e) => Before(k, d, e)'
       /\ \A k \in Node : \A d, e : Before(k, d, e)' => Before(k, d, e) \/ (k = n /\ e = x)
    BY <1>1, <1>5, <1>9, MadeGrows
<1>13. \A k \in Node : \A i \in 1..Len(inbox'[k]) :
            \E j \in 1..Len(inbox[k]) : inbox'[k][i] = inbox[k][j]
    <2>1. \A i \in 1..Len(inbox'[n]) : i + 1 \in 1..Len(inbox[n])
        BY <1>3
    <2> QED
        BY <1>3, <2>1
<1>14. <<x.term, n>> \notin elected
    BY <1>5, <1>7 DEF OneLeads, Made
<1>15. \A k \in Node, e \in Entry : Made(k, e)' => Made(k, e)
    BY <1>1, <1>12, <1>14 DEF Made
<1>16. Peers'
    <2> SUFFICES ASSUME NEW k \in Node
                 PROVE  /\ k \notin sending'[k].to
                        /\ \A i \in 1..Len(inbox'[k]) : inbox'[k][i].from # k
                        /\ role'[k] = "leader" => Node # {k} /\ <<term'[k], k>> \in elected
        BY <1>1 DEF Peers
    <2>1. k \notin sending'[k].to
        BY <1>2, <1>4, <1>7 DEF Peers
    <2>2. \A i \in 1..Len(inbox'[k]) : inbox'[k][i].from # k
        <3>1. \A j \in 1..Len(inbox[k]) : inbox[k][j].from # k
            BY DEF Peers
        <3> QED
            BY <1>13, <3>1
    <2>3. ASSUME role'[k] = "leader" PROVE Node # {k} /\ <<term'[k], k>> \in elected
        <3>1. k = n => ~(m.term > term[n])
            BY <1>1, <2>3 DEF TypeOK
        <3>2. role[k] = "leader" /\ term'[k] = term[k]
            <4>1. m.term >= term[n]
                BY DEF m
            <4>2. term[n] \in Nat
                BY DEF TypeOK
            <4>3. k = n => m.term = term[n]
                BY <1>5, <3>1, <4>1, <4>2
            <4>4. term'[k] = IF k = n THEN m.term ELSE term[k]
                BY <1>1 DEF TypeOK
            <4>5. role[k] = "leader"
                BY <1>1, <2>3, <3>1 DEF TypeOK
            <4> QED
                BY <4>3, <4>4, <4>5
        <3> QED
            BY <3>2 DEF Peers
    <2> QED
        BY <2>1, <2>2, <2>3
<1>17. Logged'
    <2> SUFFICES ASSUME NEW k \in Node, NEW i \in 1..Len(log'[k])
                 PROVE  (\E h \in Node : Made(h, log[k][i]))'
        BY DEF Logged
    <2>1. PICK e : e = log'[k][i]
        OBVIOUS
    <2>2. InLog(k, e)'
        BY <2>1 DEF InLog
    <2>3. \E h \in Node : Made(h, e)
        <3>1. CASE InLog(k, e)
            BY <3>1 DEF Logged, InLog
        <3>2. CASE e = x
            BY <1>5, <1>7, <3>2
        <3> QED
            BY <1>12, <2>2, <3>1, <3>2
    <2>4. PICK h \in Node : Made(h, e)'
        BY <1>12, <2>3
    <2> QED
        BY <2>1, <2>4
<1>18. Queued'
    BY <1>12, <1>13, QueuedStays
<1>19. Proposing'
    <2>1. ~Sends(n)'
        BY <1>2 DEF Sends
    <2> QED
        BY <1>2, <1>12, <2>1, ProposingStays
<1>20. Distinct'
    BY <1>5, <1>8, <1>9, DistinctStays
<1>21. ASSUME NEW h \in Node, NEW k \in Node, NEW e \in Entry, NEW a \in 1..3, NEW i \in Nat,
              h # k, At(h, k, e, a, i)'
       PROVE  \/ k # n /\ At(h, k, e, a, i)
              \/ k = n /\ a = 1 /\ i \in 1..N /\ At(h, k, e, 1, i)
              \/ k = n /\ a = 1 /\ i = N + 1 /\ At(h, k, e, 2, 1)
              \/ k = n /\ a = 2 /\ i >= 1 /\ At(h, k, e, 2, i + 1)
              \/ k = n /\ a = 3 /\ At(h, k, e, 3, i)
    <2>1. CASE a = 1
        <3>1. i \in 1..Len(log'[k]) /\ log'[k][i] = e
            BY <1>21, <2>1 DEF At
        <3>2. CASE k # n
            BY <1>10, <2>1, <3>1, <3>2 DEF At
        <3>3. CASE k = n
            <4>1. i \in 1..N \/ i = N + 1
                BY <1>10, <1>11, <3>1, <3>3
            <4>2. CASE i \in 1..N
                BY <1>10, <2>1, <3>1, <3>3, <4>2 DEF At, N
            <4>3. CASE i = N + 1
                <5>1. e = x
                    BY <1>10, <3>1, <3>3, <4>3
                <5> QED
                    BY <1>7, <2>1, <3>3, <4>3, <5>1 DEF At
            <4> QED
                BY <4>1, <4>2, <4>3
        <3> QED
            BY <3>2, <3>3
    <2>2. CASE a = 2
        <3>1. i \in 1..Len(inbox'[k]) /\ inbox'[k][i].type = "Append" /\ inbox'[k][i].entry = e
            BY <1>21, <2>2 DEF At
        <3>2. CASE k = n
            <4>1. i + 1 \in 1..Len(inbox[n]) /\ inbox'[n][i] = inbox[n][i + 1] /\ i >= 1
                BY <1>3, <3>1, <3>2
            <4> QED
                BY <2>2, <3>1, <3>2, <4>1 DEF At
        <3>3. CASE k # n
            BY <1>3, <2>2, <3>1, <3>3 DEF At
        <3> QED
            BY <3>2, <3>3
    <2>3. CASE a = 3
        BY <1>2, <1>21, <2>3 DEF At
    <2> QED
        BY <2>1, <2>2, <2>3
<1>22. InOrder'
    <2>1. \A h, k \in Node : \A d, e \in Entry : \A a, b \in 1..3, i, j \in Nat :
                /\ h # k /\ Made(h, d) /\ Made(h, e)
                /\ At(h, k, d, a, i)' /\ At(h, k, e, b, j)' /\ Earlier(a, i, b, j)
                => \E v, w \in 1..3, y, z \in Nat :
                      At(h, k, d, v, y) /\ At(h, k, e, w, z) /\ Earlier(v, y, w, z)
        <3> TAKE h, k \in Node
        <3> TAKE d, e \in Entry
        <3> TAKE a, b \in 1..3, i, j \in Nat
        <3> HAVE /\ h # k /\ Made(h, d) /\ Made(h, e)
                 /\ At(h, k, d, a, i)' /\ At(h, k, e, b, j)' /\ Earlier(a, i, b, j)
        <3>1. CASE k # n
            <4>1. At(h, k, d, a, i) /\ At(h, k, e, b, j)
                BY <1>21, <3>1
            <4> QED
                BY <4>1
        <3>2. CASE k = n
            <4> DEFINE v == IF a = 1 /\ i = N + 1 THEN 2 ELSE a
                       w == IF b = 1 /\ j = N + 1 THEN 2 ELSE b
                       y == IF a = 1 /\ i = N + 1 THEN 1 ELSE IF a = 2 THEN i + 1 ELSE i
                       z == IF b = 1 /\ j = N + 1 THEN 1 ELSE IF b = 2 THEN j + 1 ELSE j
            <4>1. v \in 1..3 /\ w \in 1..3 /\ y \in Nat /\ z \in Nat
                OBVIOUS
            <4>2. /\ a = 1 => i \in 1..N \/ i = N + 1
                  /\ b = 1 => j \in 1..N \/ j = N + 1
                  /\ a = 2 => i >= 1
                  /\ b = 2 => j >= 1
                BY <1>21, <3>2
            <4>3. Earlier(v, y, w, z)
                BY <1>10, <4>2 DEF Earlier
            <4>4. At(h, k, d, v, y)
                BY <1>10, <1>21, <3>2
            <4>5. At(h, k, e, w, z)
                BY <1>10, <1>21, <3>2
            <4> QED
                BY <4>1, <4>3, <4>4, <4>5
        <3> QED
            BY <3>1, <3>2
    <2> HIDE DEF OrderInv
    <2>2. InOrder
        BY DEF OrderInv
    <2>3. \A k \in Node : \A d, e : Before(k, d, e) => Before(k, d, e)'
        BY <1>12
    <2> QED
        BY <1>15, <1>17, <1>18, <1>19, <2>1, <2>2, <2>3, FlowInOrder, Zenon
<1>23. Delivered'
    <2>1. ASSUME NEW h \in Node, NEW k \in Node, NEW e \in Entry, NEW a \in 1..3, NEW i \in Nat,
                 At(h, k, e, a, i)
          PROVE  \E b \in 1..3, j \in Nat : At(h, k, e, b, j)'
        <3>1. CASE a = 1
            <4>1. i \in 1..Len(log[k]) /\ log[k][i] = e
                BY <2>1, <3>1 DEF At
            <4>2. i \in 1..Len(log'[k]) /\ log'[k][i] = e
                BY <1>10, <1>11, <4>1 DEF N
            <4>3. At(h, k, e, 1, i)'
                BY <4>2 DEF At
            <4> QED
                BY <4>3
        <3>2. CASE a = 2
            <4>1. i \in 1..Len(inbox[k]) /\ inbox[k][i].type = "Append" /\ inbox[k][i].entry = e
                BY <2>1, <3>2 DEF At
            <4>2. CASE k # n
                <5>1. At(h, k, e, 2, i)'
                    BY <1>3, <4>1, <4>2 DEF At
                <5> QED
                    BY <5>1
            <4>3. CASE k = n /\ i = 1
                <5>1. PICK j \in Nat : j \in 1..Len(log'[n]) /\ log'[n][j] = x
                    BY <1>10
                <5>2. e = x
                    BY <1>3, <1>4, <4>1, <4>3
                <5>3. At(h, k, e, 1, j)'
                    BY <4>3, <5>1, <5>2 DEF At
                <5> QED
                    BY <5>3
            <4>4. CASE k = n /\ i # 1
                <5>1. i - 1 \in 1..Len(inbox'[n]) /\ i - 1 \in Nat
                    BY <1>3, <4>1, <4>4
                <5>2. inbox'[n][i - 1] = inbox[n][i]
                    BY <1>3, <5>1
                <5>3. At(h, k, e, 2, i - 1)'
                    BY <4>1, <4>4, <5>1, <5>2 DEF At
                <5> QED
                    BY <5>1, <5>3
            <4> QED
                BY <4>2, <4>3, <4>4
        <3>3. CASE a = 3
            <4>1. i = 0 /\ k \in sending[h].to
                BY <2>1, <3>3 DEF At
            <4>2. h # n
                BY <1>3, <4>1
            <4>3. At(h, k, e, 3, i)'
                BY <1>2, <2>1, <3>3, <4>2 DEF At
            <4> QED
                BY <4>3
        <3> QED
            BY <3>1, <3>2, <3>3
    <2>2. \A k \in Node : term'[k] >= term[k]
        <3>1. m.term >= term[n]
            BY DEF m
        <3>2. \A k \in Node : term[k] \in Nat /\ term'[k] = IF k = n THEN m.term ELSE term[k]
            BY <1>1 DEF TypeOK
        <3> QED
            BY <3>1, <3>2
    <2> HIDE DEF OrderInv
    <2>3. Delivered
        BY DEF OrderInv
    <2> QED
        BY <1>15, <2>1, <2>2, <2>3, FlowDelivered
<1>24. NoGap'
    <2> SUFFICES ASSUME NEW h \in Node, NEW k \in Node, NEW d \in Entry, NEW e \in Entry,
                        <<e.term, h>> \in elected, d.term = e.term, InLog(k, e)', Before(h, d, e)'
                 PROVE  InLog(k, d)'
        BY <1>1 DEF NoGap
    <2>1. Before(h, d, e)
        BY <1>12, <1>14
    <2>2. CASE InLog(k, e)
        <3>1. InLog(k, d)
            BY <2>1, <2>2 DEF NoGap
        <3> QED
            BY <1>12, <3>1
    <2>3. CASE k = n /\ e = x
        <3>1. h = l
            BY <1>5, <1>7, <2>3 DEF OneLeads, Made
        <3>2. d # x /\ ~Before(l, x, d) /\ Made(l, d)
            BY <2>1, <2>3, <3>1, BeforeStrict DEF Made
        <3>3. ~(term[n] > d.term)
            <4>1. m.term >= term[n] /\ term[n] \in Nat
                BY DEF m, TypeOK
            <4> QED
                BY <1>5, <1>7, <2>3, <4>1
        <3>4. PICK a \in 1..3, i \in Nat : At(l, n, d, a, i)
            BY <1>5, <1>7, <3>2, <3>3 DEF Delivered
        <3>5. ~Earlier(2, 1, a, i)
            <4>1. 2 \in 1..3 /\ 1 \in Nat
                OBVIOUS
            <4>2. <<d.term, l>> \in elected /\ x.term = d.term
                BY <2>3, <3>1
            <4>3. \A b, c \in 1..3, i1, j1 \in Nat :
                    At(l, n, x, b, i1) /\ At(l, n, d, c, j1) /\ Earlier(b, i1, c, j1)
                    => Before(l, x, d)
                BY <1>5, <1>7, <4>2 DEF InOrder
            <4> QED
                BY <1>7, <3>2, <3>4, <4>1, <4>3
        <3>6. ~(a = 2 /\ i = 1)
            BY <1>3, <1>4, <3>2, <3>4 DEF At
        <3>7. a = 2 => i >= 1
            BY <3>4 DEF At
        <3>8. a = 1
            BY <3>5, <3>6, <3>7 DEF Earlier
        <3>9. InLog(n, d)
            BY <3>4, <3>8 DEF At, InLog
        <3> QED
            BY <1>12, <2>3, <3>9
    <2> QED
        BY <1>12, <2>2, <2>3
<1>25. Committed'
    <2> SUFFICES ASSUME NEW k \in Node PROVE Sends(k)' \/ commit'[k] = Len(log'[k])
        BY DEF Committed
    <2>1. CASE k = n
        BY <1>1, <2>1 DEF TypeOK
    <2>2. CASE k # n
        BY <1>1, <1>2, <1>10, <2>2 DEF Committed, Sends, Idle, TypeOK
    <2> QED
        BY <2>1, <2>2
<1> QED
    BY <1>16, <1>17, <1>18, <1>19, <1>20, <1>22, <1>23, <1>24, <1>25

(* A proposal is an entry new to every log and not on its way yet, behind  *)
(* all entries of the term.                                                *)
LEMMA ProposeKeepsOrder ==
    ASSUME TypeOK, TypeOK', OrderInv, OneLeads, OneLeads', Orderly,
           NEW n \in Node, NEW op \in Op, Propose(n, op)
    PROVE  OrderInv'
<1> USE DEF OrderInv
<1> DEFINE N == Len(log[n])
<1>1. PICK x : x = [term |-> term[n], op |-> op]
    OBVIOUS
<1>2. x \in Entry /\ x.term = term[n] /\ x.term \in Nat
    BY <1>1 DEF Entry, TypeOK
<1>3. /\ sending[n].to = {} /\ role[n] = "leader"
      /\ x \notin ToSet(log[n])
      /\ log' = [log EXCEPT ![n] = Append(@, x)]
      /\ sending' = [sending EXCEPT ![n] =
                [to |-> Node \ {n},
                 msg |-> [type |-> "Append", from |-> n, term |-> term[n], entry |-> x]]]
      /\ UNCHANGED <<role, term, commit, inbox, elected>>
    BY <1>1 DEF Propose, Idle, Orderly
<1>4. /\ sending'[n].to = Node \ {n}
      /\ sending'[n].msg.type = "Append" /\ sending'[n].msg.term = x.term
      /\ sending'[n].msg.entry = x
      /\ \A k \in Node : k # n => sending'[k] = sending[k]
    BY <1>2, <1>3 DEF TypeOK
<1>5. <<x.term, n>> \in elected /\ Node # {n}
    BY <1>2, <1>3 DEF Peers
<1>6. ~InLog(n, x)
    <2>1. log[n] \in Seq(Entry)
        BY DEF TypeOK
    <2> QED
        BY <1>3, <2>1 DEF ToSet, InLog
<1>7. /\ N \in Nat /\ Len(log'[n]) = N + 1 /\ log'[n][N + 1] = x
      /\ \A i \in 1..N : log'[n][i] = log[n][i]
      /\ \A k \in Node : k # n => log'[k] = log[k]
      /\ \A d : InLog(n, d) => Before(n, d, x)'
    <2>1. log'[n] = Append(log[n], x) /\ \A k \in Node : k # n => log'[k] = log[k]
        BY <1>3 DEF TypeOK
    <2> QED
        BY <1>2, <2>1, LongerLog
<1>8. \A i : i \in 1..(N + 1) <=> i \in 1..N \/ i = N + 1
    BY <1>7
<1> HIDE DEF N
<1>9. /\ \A k \in Node : \A e : InLog(k, e)' <=> InLog(k, e) \/ (k = n /\ e = x)
      /\ \A k \in Node : \A e : Made(k, e) => Made(k, e)'
      /\ \A k \in Node : \A d, e : Before(k, d, e) => Before(k, d, e)'
      /\ \A k \in Node : \A d, e : Before(k, d, e)' => Before(k, d, e) \/ (k = n /\ e = x)
    BY <1>2, <1>3, MadeGrows
<1>10. Made(n, x)'
    BY <1>3, <1>5, <1>9 DEF Made
<1>11. \A k \in Node : ~InLog(k, x)
    <2> SUFFICES ASSUME NEW k \in Node, InLog(k, x) PROVE FALSE
        OBVIOUS
    <2>1. PICK l \in Node : Made(l, x)
        BY DEF InLog, Logged
    <2>2. l = n
        BY <1>2, <1>5, <2>1 DEF OneLeads, Made
    <2> QED
        BY <1>6, <2>1, <2>2 DEF Made
<1>12. Peers'
    BY <1>3, <1>4 DEF Peers
<1>13. Logged'
    <2> SUFFICES ASSUME NEW k \in Node, NEW i \in 1..Len(log'[k])
                 PROVE  (\E h \in Node : Made(h, log[k][i]))'
        BY DEF Logged
    <2>1. PICK e : e = log'[k][i]
        OBVIOUS
    <2>2. InLog(k, e)'
        BY <2>1 DEF InLog
    <2>3. CASE InLog(k, e)
        <3>1. PICK h \in Node : Made(h, e)
            BY <2>3 DEF Logged, InLog
        <3>2. Made(h, e)'
            BY <1>9, <3>1
        <3> QED
            BY <2>1, <3>2
    <2>4. CASE e = x
        BY <1>10, <2>1, <2>4
    <2> QED
        BY <1>9, <2>2, <2>3, <2>4
<1>14. Queued'
    BY <1>3, <1>9, QueuedStays
<1>15. Proposing'
    <2> SUFFICES ASSUME NEW k \in Node, Sends(k)'
                 PROVE  (/\ sending[k].msg.term = sending[k].msg.entry.term
                         /\ Made(k, sending[k].msg.entry))'
        BY DEF Proposing
    <2>1. PICK e : e = sending'[k].msg.entry
        OBVIOUS
    <2>2. sending'[k].msg.term = e.term /\ Made(k, e)'
        <3>1. CASE k = n
            BY <1>4, <1>10, <2>1, <3>1
        <3>2. CASE k # n
            <4>1. Sends(k)
                BY <1>4, <3>2 DEF Sends, Idle
            <4>2. sending[k].msg.term = e.term /\ Made(k, e)
                BY <1>4, <2>1, <3>2, <4>1 DEF Proposing
            <4> QED
                BY <1>4, <1>9, <3>2, <4>2
        <3> QED
            BY <3>1, <3>2
    <2> QED
        BY <2>1, <2>2
<1>16. Distinct'
    BY <1>2, <1>3, <1>6, DistinctStays
<1>17. ASSUME NEW h \in Node, NEW k \in Node, NEW e \in Entry, NEW a \in 1..3, NEW i \in Nat,
              h # k, <<e.term, h>> \in elected, At(h, k, e, a, i)'
       PROVE  \/ At(h, k, e, a, i) /\ ~(a = 3 /\ h = n)
              \/ a = 3 /\ i = 0 /\ h = n /\ e = x
    <2>1. CASE a = 1
        <3>1. i \in 1..Len(log'[k]) /\ log'[k][i] = e
            BY <1>17, <2>1 DEF At
        <3>2. InLog(k, e)'
            BY <3>1 DEF InLog
        <3>3. ~(k = n /\ e = x)
            BY <1>2, <1>5, <1>17 DEF OneLeads
        <3>4. i \in 1..Len(log[k]) /\ log[k][i] = e
            BY <1>7, <1>8, <3>1, <3>3 DEF N
        <3> QED
            BY <2>1, <3>4 DEF At
    <2>2. CASE a = 2
        BY <1>3, <1>17, <2>2 DEF At
    <2>3. CASE a = 3
        BY <1>4, <1>17, <2>3 DEF At
    <2> QED
        BY <2>1, <2>2, <2>3
<1>18. InOrder'
    <2> SUFFICES ASSUME NEW h \in Node, NEW k \in Node, NEW d \in Entry, NEW e \in Entry,
                        NEW a \in 1..3, NEW b \in 1..3, NEW i \in Nat, NEW j \in Nat,
                        h # k, <<e.term, h>> \in elected', d.term = e.term,
                        At(h, k, d, a, i)', At(h, k, e, b, j)', Earlier(a, i, b, j)
                 PROVE  Before(h, d, e)'
        BY DEF InOrder, Earlier
    <2>1. a # 3
        BY DEF Earlier, At
    <2>2. /\ <<e.term, h>> \in elected
          /\ At(h, k, d, a, i) /\ <<d.term, h>> \in elected
        BY <1>3, <1>17, <2>1
    <2>3. CASE At(h, k, e, b, j)
        <3>1. Before(h, d, e)
            BY <2>2, <2>3 DEF InOrder
        <3> QED
            BY <1>9, <3>1
    <2>4. CASE h = n /\ e = x
        <3>1. Made(h, d)
            BY <2>2, FromLeader
        <3> QED
            BY <1>7, <2>4, <3>1 DEF Made
    <2> QED
        BY <1>17, <2>2, <2>3, <2>4
<1>19. Delivered'
    <2> SUFFICES ASSUME NEW h \in Node, NEW k \in Node, NEW e \in Entry, h # k, Made(h, e)'
                 PROVE  term[k] > e.term \/ \E a \in 1..3, i \in Nat : At(h, k, e, a, i)'
        BY <1>3 DEF Delivered
    <2>1. CASE Made(h, e)
        <3>1. term[k] > e.term \/ \E a \in 1..3, i \in Nat : At(h, k, e, a, i)
            BY <2>1 DEF Delivered
        <3>2. ASSUME NEW a \in 1..3, NEW i \in Nat, At(h, k, e, a, i) PROVE At(h, k, e, a, i)'
            <4>1. CASE a = 1
                <5>1. i \in 1..Len(log[k]) /\ log[k][i] = e
                    BY <3>2, <4>1 DEF At
                <5>2. i \in 1..Len(log'[k]) /\ log'[k][i] = e
                    BY <1>7, <1>8, <5>1 DEF N
                <5> QED
                    BY <4>1, <5>2 DEF At
            <4>2. CASE a = 2
                BY <1>3, <3>2, <4>2 DEF At
            <4>3. CASE a = 3
                BY <1>3, <1>4, <3>2, <4>3 DEF At
            <4> QED
                BY <4>1, <4>2, <4>3
        <3> QED
            BY <3>1, <3>2
    <2>2. CASE h = n /\ e = x
        <3>1. At(h, k, e, 3, 0)'
            BY <1>4, <2>2 DEF At
        <3>2. 3 \in 1..3 /\ 0 \in Nat
            OBVIOUS
        <3> QED
            BY <3>1, <3>2
    <2> QED
        BY <1>3, <1>9, <2>1, <2>2 DEF Made
<1>20. NoGap'
    <2> SUFFICES ASSUME NEW h \in Node, NEW k \in Node, NEW d \in Entry, NEW e \in Entry,
                        <<e.term, h>> \in elected, d.term = e.term, InLog(k, e)', Before(h, d, e)'
                 PROVE  InLog(k, d)'
        BY <1>3 DEF NoGap
    <2>1. CASE k = h
        BY <2>1 DEF InLog, Before
    <2>2. CASE k # h
        <3>1. ~(k = n /\ e = x)
            BY <1>2, <1>5, <2>2 DEF OneLeads
        <3>2. InLog(k, e)
            BY <1>9, <3>1
        <3>3. Before(h, d, e)
            BY <1>9, <1>11, <3>2
        <3>4. InLog(k, d)
            BY <3>2, <3>3 DEF NoGap
        <3> QED
            BY <1>9, <3>4
    <2> QED
        BY <2>1, <2>2
<1>21. Committed'
    <2> SUFFICES ASSUME NEW k \in Node PROVE Sends(k)' \/ commit'[k] = Len(log'[k])
        BY DEF Committed
    <2>1. CASE k = n
        BY <1>4, <1>5, <2>1 DEF Sends, Idle
    <2>2. CASE k # n
        BY <1>3, <1>4, <1>7, <2>2 DEF Committed, Sends, Idle
    <2> QED
        BY <2>1, <2>2
<1> QED
    BY <1>12, <1>13, <1>14, <1>15, <1>16, <1>18, <1>19, <1>20, <1>21

(* The initial state has nothing in order. *)
LEMMA InitOrder == Init => OrderInv
<1> SUFFICES ASSUME Init PROVE OrderInv
    OBVIOUS
<1>1. /\ \A n \in Node : /\ log[n] = <<>> /\ Len(log[n]) = 0 /\ commit[n] = 0
                         /\ inbox[n] = <<>> /\ Len(inbox[n]) = 0
                         /\ sending[n].to = {} /\ role[n] = "follower"
      /\ elected = {}
    BY DEF Init, Nothing
<1>2. Peers
    BY <1>1 DEF Peers
<1>3. Logged /\ Queued /\ Distinct
    BY <1>1 DEF Logged, Queued, Distinct
<1>4. Proposing
    BY <1>1 DEF Proposing, Sends, Idle
<1>5. InOrder /\ Delivered /\ NoGap
    BY <1>1 DEF InOrder, Delivered, NoGap, Made
<1>6. Committed
    BY <1>1 DEF Committed
<1> QED
    BY <1>2, <1>3, <1>4, <1>5, <1>6 DEF OrderInv

(* The handlers that leave the logs. *)
LEMMA HandleKeepsOrder ==
    ASSUME TypeOK, TypeOK', OrderInv, OneLeads, OneLeads', NEW n \in Node, Handle(n)
    PROVE  OrderInv'
<1> DEFINE m == Head(inbox[n])
<1>1. \A k \in Node : term[k] \in Nat
    BY DEF TypeOK
<1>2. CASE HandleVoteReq(n)
    <2>1. Receives(n, "VoteReq") /\ m.term \in Nat
        BY <1>2, HeadTyped, MessageParts DEF HandleVoteReq
    <2>2. /\ term' = [term EXCEPT ![n] = IF m.term > term[n] THEN m.term ELSE @]
          /\ role' = [role EXCEPT ![n] = IF m.term > term[n] THEN "follower" ELSE @]
          /\ UNCHANGED <<log, commit, elected>>
        BY <1>2 DEF HandleVoteReq
    <2>3. /\ sending'[n].to = {m.from} /\ sending'[n].msg.type = "VoteResp"
          /\ \A k \in Node : k # n => sending'[k] = sending[k]
        <3>1. PICK g : Reply(n, m.from, [type |-> "VoteResp", from |-> n,
                                         term |-> term'[n], granted |-> g])
            BY <1>2 DEF HandleVoteReq
        <3> QED
            BY <3>1 DEF Reply, TypeOK
    <2>4. \A k \in Node : /\ term'[k] >= term[k]
                          /\ role'[k] = "leader" => role[k] = "leader" /\ term'[k] = term[k]
        <3> TAKE k \in Node
        <3>1. CASE k = n /\ m.term > term[n]
            BY <1>1, <2>1, <2>2, <3>1 DEF TypeOK
        <3>2. CASE ~(k = n /\ m.term > term[n])
            BY <1>1, <2>2, <3>2 DEF TypeOK
        <3> QED
            BY <3>1, <3>2
    <2> HIDE DEF m
    <2> QED
        BY <2>1, <2>2, <2>3, <2>4, HandledKeepsOrder DEF m
<1>3. CASE HandleVoteResp(n)
    <2> DEFINE won == Counts(n, m) /\ votes[n] + 1 >= quorum
    <2>1. /\ Receives(n, "VoteResp")
          /\ role' = [role EXCEPT ![n] = IF won THEN "leader" ELSE @]
          /\ elected' = IF won THEN elected \cup {<<term[n], n>>} ELSE elected
          /\ UNCHANGED <<term, log, commit, sending>>
        BY <1>3 DEF HandleVoteResp
    <2>2. sending'[n].to = {}
        BY <2>1 DEF Receives, Idle
    <2>3. \A k \in Node : role'[k] = "leader" =>
                \/ role[k] = "leader" /\ term'[k] = term[k]
                \/ k = n /\ <<term'[k], k>> \in elected'
        BY <2>1 DEF TypeOK
    <2> QED
        BY <1>1, <2>1, <2>2, <2>3, HandledKeepsOrder
<1>4. CASE HandleAppend(n) /\ m.term >= term[n]
    BY <1>4, FollowKeepsOrder
<1>5. CASE HandleAppend(n) /\ ~(m.term >= term[n])
    <2>1. Receives(n, "Append") /\ m.term \in Nat
        BY <1>5, HeadTyped, MessageParts DEF HandleAppend
    <2>2. term[n] > m.term
        BY <1>1, <1>5, <2>1
    <2>3. /\ term' = [term EXCEPT ![n] = IF m.term >= term[n] THEN m.term ELSE @]
          /\ role' = [role EXCEPT ![n] = IF m.term > term[n] THEN "follower" ELSE @]
          /\ log' = [log EXCEPT ![n] = IF m.term >= term[n] THEN Extended(@, m.entry) ELSE @]
          /\ commit' = [commit EXCEPT ![n] = IF m.term >= term[n] THEN Len(log'[n]) ELSE @]
          /\ elected' = elected
        BY <1>5 DEF HandleAppend
    <2>4. UNCHANGED <<term, role, log, commit, elected>>
        <3>1. ~(m.term >= term[n]) /\ ~(m.term > term[n])
            BY <1>1, <1>5, <2>1, <2>2
        <3> HIDE DEF m
        <3>2. term' = term
            BY <2>3, <3>1 DEF TypeOK
        <3>3. role' = role
            BY <2>3, <3>1 DEF TypeOK
        <3>4. log' = log
            BY <2>3, <3>1 DEF TypeOK
        <3>5. commit' = commit
            BY <2>3, <3>1 DEF TypeOK
        <3> QED
            BY <2>3, <3>2, <3>3, <3>4, <3>5
    <2>5. /\ sending'[n].to = {m.from} /\ sending'[n].msg.type = "AppendAck"
          /\ \A k \in Node : k # n => sending'[k] = sending[k]
        <3>1. PICK g : Reply(n, m.from, [type |-> "AppendAck", from |-> n,
                                         term |-> m.term, ok |-> g])
            BY <1>5 DEF HandleAppend
        <3> QED
            BY <3>1 DEF Reply, TypeOK
    <2> HIDE DEF m
    <2> QED
        BY <1>1, <2>1, <2>2, <2>4, <2>5, HandledKeepsOrder DEF m
<1>6. CASE HandleAppendAck(n)
    <2>1. /\ Receives(n, "AppendAck")
          /\ UNCHANGED <<role, term, log, sending, elected>>
          /\ \A k \in Node : commit'[k] \in {commit[k], Len(log[k])}
        BY <1>6 DEF HandleAppendAck, TypeOK
    <2>2. sending'[n].to = {}
        BY <2>1 DEF Receives, Idle
    <2> QED
        BY <1>1, <2>1, <2>2, HandledKeepsOrder
<1> QED
    BY <1>2, <1>3, <1>4, <1>5, <1>6 DEF Handle

LEMMA LeadsOnce == Inv => OneLeads
<1> SUFFICES ASSUME Inv, NEW t \in Nat, NEW l \in Node, NEW m \in Node,
                    <<t, l>> \in elected, <<t, m>> \in elected
             PROVE  l = m
    BY DEF OneLeads
<1>1. OneLeaderATerm
    BY OneLeader
<1>2. <<t, l>> = <<t, m>>
    BY <1>1 DEF OneLeaderATerm
<1> QED
    BY <1>2

(* A step that changes none of the parts keeps the order. *)
LEMMA StutterKeepsOrder ==
    ASSUME OrderInv, UNCHANGED vars
    PROVE  OrderInv'
<1>1. UNCHANGED <<role, term, log, commit, inbox, sending, elected>>
    BY DEF vars
<1>2. /\ \A k, e : InLog(k, e)' <=> InLog(k, e)
      /\ \A k, d, e : Before(k, d, e)' <=> Before(k, d, e)
      /\ \A k, e : Made(k, e)' <=> Made(k, e)
      /\ \A k : Sends(k)' <=> Sends(k)
      /\ \A l, k, e, a, i : At(l, k, e, a, i)' <=> At(l, k, e, a, i)
    BY <1>1 DEF InLog, Before, Made, Sends, Idle, At
<1>3. Peers' /\ Distinct' /\ Committed'
    BY <1>1, <1>2 DEF OrderInv, Peers, Distinct, Committed
<1>4. Logged'
    <2> SUFFICES ASSUME NEW n \in Node, NEW i \in 1..Len(log'[n])
                 PROVE  (\E l \in Node : Made(l, log[n][i]))'
        BY DEF Logged
    <2>1. PICK e : e = log[n][i] /\ e = log'[n][i]
        BY <1>1
    <2>2. PICK l \in Node : Made(l, e)
        BY <1>1, <2>1 DEF OrderInv, Logged
    <2>3. Made(l, e)'
        BY <1>2, <2>2
    <2> QED
        BY <2>1, <2>3
<1>9. Queued'
    BY <1>1 DEF OrderInv, Queued, Made, InLog
<1>10. Proposing'
    BY <1>1 DEF OrderInv, Proposing, Made, InLog, Sends, Idle
<1>5. InOrder'
    BY <1>1, <1>2 DEF OrderInv, InOrder, Earlier
<1>6. Delivered'
    BY <1>1, <1>2 DEF OrderInv, Delivered
<1>7. NoGap'
    BY <1>1, <1>2 DEF OrderInv, NoGap
<1> QED
    BY <1>3, <1>4, <1>5, <1>6, <1>7, <1>9, <1>10 DEF OrderInv

(* Without refused sends and repetitions, the order holds always. *)
LEMMA OrderAlways == Spec => [](Orderly => OrderInv)
<1>1. Inv /\ Inv' /\ (Orderly => OrderInv) /\ [Next]_vars => (Orderly => OrderInv)'
    <2> SUFFICES ASSUME Inv, Inv', Orderly => OrderInv, [Next]_vars, Orderly'
                 PROVE  OrderInv'
        OBVIOUS
    <2>1. TypeOK /\ TypeOK' /\ OwnMessages
        BY DEF Inv
    <2>2. OneLeads /\ OneLeads'
        BY LeadsOnce, PTL
    <2>3. setting' = setting
        BY DEF Next, vars, Send, SendFails, Handle, HandleVoteReq, HandleVoteResp, HandleAppend,
           HandleAppendAck, Elect, Propose
    <2>4. Orderly /\ OrderInv
        BY <2>3 DEF Orderly
    <2>5. CASE UNCHANGED vars
        BY <2>4, <2>5, StutterKeepsOrder
    <2>6. ASSUME NEW n \in Node,
                 \/ Send(n) \/ SendFails(n) \/ Handle(n) \/ Elect(n)
                 \/ \E op \in Op : Propose(n, op)
          PROVE  OrderInv'
        <3>1. ~SendFails(n)
            BY <2>4 DEF SendFails, Orderly
        <3> QED
            BY <2>1, <2>2, <2>4, <2>6, <3>1, SendKeepsOrder, HandleKeepsOrder, ElectKeepsOrder,
               ProposeKeepsOrder
    <2> QED
        BY <2>5, <2>6 DEF Next
<1> QED
    BY <1>1, InitOrder, InvAlways, PTL DEF Spec


(* The entries of a term that a node has are those in its log. *)
LEMMA HasLogged ==
    ASSUME TypeOK, NEW n \in Node, NEW t
    PROVE  \A e : e \in Has(n, t) <=> e \in Entry /\ InLog(n, e) /\ e.term = t
<1>1. log[n] \in Seq(Entry) /\ DOMAIN log[n] = 1..Len(log[n])
    BY DEF TypeOK
<1>2. \A i \in 1..Len(log[n]) : log[n][i] \in Entry
    BY <1>1
<1>3. \A e : e \in ToSet(log[n]) <=> e \in Entry /\ InLog(n, e)
    BY <1>1, <1>2 DEF ToSet, InLog
<1> QED
    BY <1>3 DEF Has

(* What a node has of a term is the beginning of what the leader made. *)
LEMMA LeadersLogBegins ==
    ASSUME TypeOK, OrderInv, OneLeads, NEW t \in Nat, NEW l \in Node, NEW n \in Node,
           <<t, l>> \in elected
    PROVE  Begins(n, l, t)
<1>1. /\ \A e : e \in Has(n, t) <=> e \in Entry /\ InLog(n, e) /\ e.term = t
      /\ \A e : e \in Has(l, t) <=> e \in Entry /\ InLog(l, e) /\ e.term = t
    BY HasLogged
<1>2. Has(n, t) \subseteq Has(l, t)
    <2> SUFFICES ASSUME NEW e \in Has(n, t) PROVE InLog(l, e)
        BY <1>1
    <2>1. PICK i \in 1..Len(log[n]) : log[n][i] = e
        BY <1>1 DEF InLog
    <2>2. PICK m \in Node : Made(m, e)
        BY <2>1 DEF OrderInv, Logged
    <2>3. m = l
        BY <1>1, <2>2 DEF Made, OneLeads
    <2> QED
        BY <2>2, <2>3 DEF Made
<1>3. \A d \in Entry, e \in Entry : d.term = t /\ e.term = t /\ Before(n, d, e) => Before(l, d, e)
    <2> TAKE d \in Entry, e \in Entry
    <2> HAVE d.term = t /\ e.term = t /\ Before(n, d, e)
    <2>1. PICK i \in 1..Len(log[n]), j \in 1..Len(log[n]) :
                i < j /\ log[n][i] = d /\ log[n][j] = e
        BY DEF Before
    <2>2. At(l, n, d, 1, i) /\ At(l, n, e, 1, j)
        BY <2>1 DEF At
    <2>3. 1 \in 1..3 /\ i \in Nat /\ j \in Nat /\ Earlier(1, i, 1, j)
        BY <2>1 DEF Earlier
    <2>4. CASE n = l
        BY <2>4
    <2>5. CASE n # l
        <3>1. InOrder
            BY DEF OrderInv
        <3> QED
            BY <2>2, <2>3, <2>5, <3>1 DEF InOrder
    <2> QED
        BY <2>4, <2>5
<1>4. ASSUME NEW d \in Has(l, t), NEW e \in Has(n, t), Before(l, d, e)
      PROVE  Before(n, d, e)
    <2>1. /\ d \in Entry /\ d.term = t /\ e \in Entry /\ e.term = t
          /\ InLog(n, e)
        BY <1>1
    <2>2. InLog(n, d)
        BY <1>4, <2>1 DEF OrderInv, NoGap
    <2>3. d # e /\ ~Before(l, e, d)
        BY <1>4, <2>1, BeforeStrict DEF OrderInv
    <2> QED
        BY <1>3, <2>1, <2>2, <2>3, BeforeTotal
<1> QED
    BY <1>1, <1>2, <1>3, <1>4 DEF Begins

(* Of two beginnings the one with fewer entries is a beginning of the other. *)
LEMMA FewerBegins ==
    ASSUME NEW t, NEW l \in Node, NEW m \in Node, NEW n \in Node,
           Begins(m, l, t), Begins(n, l, t), Has(m, t) \subseteq Has(n, t)
    PROVE  Begins(m, n, t)
<1> SUFFICES ASSUME NEW d \in Has(n, t), NEW e \in Has(m, t)
             PROVE  Before(m, d, e) <=> Before(n, d, e)
    BY DEF Begins
<1>1. Before(m, d, e) <=> Before(l, d, e)
    BY DEF Begins
<1>2. Before(n, d, e) <=> Before(l, d, e)
    BY DEF Begins
<1> QED
    BY <1>1, <1>2

LEMMA BeginningsCompare ==
    ASSUME TypeOK, Distinct, NEW t, NEW l \in Node, NEW m \in Node, NEW n \in Node,
           Begins(m, l, t), Begins(n, l, t)
    PROVE  Begins(m, n, t) \/ Begins(n, m, t)
<1>1. /\ \A e : e \in Has(l, t) <=> e \in Entry /\ InLog(l, e) /\ e.term = t
      /\ \A e : e \in Has(m, t) <=> e \in Entry /\ InLog(m, e) /\ e.term = t
      /\ \A e : e \in Has(n, t) <=> e \in Entry /\ InLog(n, e) /\ e.term = t
    BY HasLogged
<1>2. ASSUME NEW e \in Has(m, t), e \notin Has(n, t), NEW d \in Has(n, t)
      PROVE  d \in Has(m, t)
    <2>1. d \in Has(l, t) /\ e \in Has(l, t) /\ d # e
        BY <1>2 DEF Begins
    <2>2. CASE Before(l, d, e)
        <3>1. Before(m, d, e)
            BY <2>1, <2>2 DEF Begins
        <3>2. InLog(m, d)
            BY <1>1, <2>1, <3>1, BeforeStrict
        <3> QED
            BY <1>1, <2>1, <3>2
    <2>3. CASE Before(l, e, d)
        <3>1. Before(n, e, d)
            BY <2>1, <2>3 DEF Begins
        <3>2. InLog(n, e)
            BY <1>1, <2>1, <3>1, BeforeStrict
        <3> QED
            BY <1>1, <1>2, <2>1, <3>2
    <2> QED
        BY <1>1, <2>1, <2>2, <2>3, BeforeTotal
<1>3. Has(m, t) \subseteq Has(n, t) \/ Has(n, t) \subseteq Has(m, t)
    BY <1>2
<1> QED
    BY <1>3, FewerBegins

LEMMA TermsOfOrder == Inv /\ (Orderly => OrderInv) => TermsAgree
<1> SUFFICES ASSUME Inv, OrderInv
             PROVE  /\ \A n \in Node : IsInjective(log[n])
                    /\ \A m, n \in Node, t \in 0..elections : Begins(m, n, t) \/ Begins(n, m, t)
    BY DEF TermsAgree
<1>1. TypeOK /\ OneLeads
    BY LeadsOnce DEF Inv
<1>2. ASSUME NEW n \in Node PROVE IsInjective(log[n])
    <2>1. DOMAIN log[n] = 1..Len(log[n])
        BY <1>1 DEF TypeOK
    <2> QED
        BY <2>1 DEF OrderInv, Distinct, IsInjective
<1>3. ASSUME NEW m \in Node, NEW n \in Node, NEW t \in 0..elections
      PROVE  Begins(m, n, t) \/ Begins(n, m, t)
    <2>1. t \in Nat
        BY <1>1 DEF TypeOK
    <2>2. CASE \E l \in Node : <<t, l>> \in elected
        <3>1. PICK l \in Node : <<t, l>> \in elected
            BY <2>2
        <3>2. Begins(m, l, t) /\ Begins(n, l, t)
            BY <1>1, <2>1, <3>1, LeadersLogBegins
        <3> QED
            BY <1>1, <3>2, BeginningsCompare DEF OrderInv
    <2>3. CASE ~\E l \in Node : <<t, l>> \in elected
        <3>1. ASSUME NEW e \in Has(m, t) PROVE FALSE
            <4>1. InLog(m, e) /\ e.term = t
                BY <1>1, HasLogged
            <4>2. PICK l \in Node : Made(l, e)
                BY <4>1 DEF InLog, OrderInv, Logged
            <4> QED
                BY <2>3, <4>1, <4>2 DEF Made
        <3> QED
            BY <3>1 DEF Begins
    <2> QED
        BY <2>2, <2>3
<1> QED
    BY <1>2, <1>3

LEMMA FollowersOfOrder == Inv /\ (Orderly => OrderInv) => FollowersAgree
<1> SUFFICES ASSUME Inv, OrderInv, NEW l \in Node, NEW n \in Node,
                    Quiet, role[l] = "leader", term[n] = term[l]
             PROVE  commit[n] = Len(log[n]) /\ Begins(l, n, term[l]) /\ Begins(n, l, term[l])
    BY DEF FollowersAgree
<1>1. TypeOK /\ OneLeads /\ term[l] \in Nat
    BY LeadsOnce DEF Inv, TypeOK
<1>2. \A k \in Node : sending[k].to = {} /\ inbox[k] = <<>> /\ Len(inbox[k]) = 0 /\ ~Sends(k)
    BY DEF Quiet, Idle, Sends
<1>3. commit[n] = Len(log[n])
    BY <1>2 DEF OrderInv, Committed
<1>4. <<term[l], l>> \in elected
    BY DEF OrderInv, Peers
<1>5. Begins(n, l, term[l]) /\ Begins(l, l, term[l])
    BY <1>1, <1>4, LeadersLogBegins
<1>6. Has(l, term[l]) \subseteq Has(n, term[l])
    <2> SUFFICES ASSUME NEW e \in Has(l, term[l]), n # l PROVE e \in Has(n, term[l])
        OBVIOUS
    <2>1. e \in Entry /\ InLog(l, e) /\ e.term = term[l]
        BY <1>1, HasLogged
    <2>2. Made(l, e) /\ ~(term[n] > e.term)
        BY <1>1, <1>4, <2>1 DEF Made
    <2>3. PICK k \in 1..3, i \in Nat : At(l, n, e, k, i)
        BY <2>1, <2>2 DEF OrderInv, Delivered
    <2>4. InLog(n, e)
        BY <1>2, <2>3 DEF At, InLog
    <2> QED
        BY <1>1, <2>1, <2>4, HasLogged
<1> QED
    BY <1>3, <1>5, <1>6, FewerBegins

(* While the transport takes every message and no operation is repeated,   *)
(* no log holds an entry twice and two logs have the entries of a term in  *)
(* one order, one of them a beginning of the other: propose broadcasts the *)
(* entries of a term in their order, and an Append that finds its entry    *)
(* known, or comes from a term gone by, leaves nothing out.                *)
THEOREM LogsOfATermAgree == Spec => []TermsAgree
BY TermsOfOrder, OrderAlways, InvAlways, PTL

(* Then, once every inbox has been pumped empty, the nodes in a leader's   *)
(* term have committed all they have and hold what the leader proposed, in *)
(* its order: HandleAppend refuses no entry of the term a node is in.      *)
THEOREM QuietFollowersAgree == Spec => []FollowersAgree
BY FollowersOfOrder, OrderAlways, InvAlways, PTL
============================================================================
