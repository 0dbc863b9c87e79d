------------------------------ MODULE RaftRpc ------------------------------
(***************************************************************************)
(* The metadata group over a transport, src/src/raft_rpc.rs: every node is *)
(* a runtime with an inbox; pump handles what is in the inbox and then may *)
(* stand for election, propose logs an operation and broadcasts it.        *)
(*                                                                         *)
(* Runtimes run side by side, so every message is sent in a step of its    *)
(* own; a runtime does nothing else while it still has messages to send.   *)
(* Heartbeats are never sent: a timeout may have passed at any time.       *)
(***************************************************************************)
EXTENDS Naturals, Sequences, SequencesExt, FiniteSets

CONSTANTS
    Node,
    None,          \* voted_for of a node that has not voted
    Op,            \* metadata operations
    Settings       \* what is looked at together, see below

(* A setting bounds the elections started and the proposals made, and says *)
(* whether the transport may refuse a message (send returns Err) and       *)
(* whether a leader may propose the same operation again.                  *)
Setting == [elections : Nat, proposals : Nat, fails : BOOLEAN, repeats : BOOLEAN]

ASSUME NodeAssumption == IsFiniteSet(Node) /\ None \notin Node
ASSUME SettingAssumption == Settings \subseteq Setting

VARIABLES
    role, term, votedFor, votes, log, commit,
    inbox,    \* the hub: the queue of each node
    sending,  \* what a node is sending and to whom it is still to be sent
    elected,  \* history: who has become leader of which term
    setting, elections, proposals

vars == <<role, term, votedFor, votes, log, commit, inbox, sending, elected, setting, elections, proposals>>

Entry == [term : Nat, op : Op]

Message ==
    [type : {"VoteReq"}, from : Node, term : Nat]
    \cup [type : {"VoteResp"}, from : Node, term : Nat, granted : BOOLEAN]
    \cup [type : {"Append"}, from : Node, term : Nat, entry : Entry]
    \cup [type : {"AppendAck"}, from : Node, term : Nat, ok : BOOLEAN]

(* N / 2 + 1 *)
quorum == Cardinality(Node) \div 2 + 1

Nothing == [to |-> {}, msg |-> <<>>]

Init ==
    /\ role = [n \in Node |-> "follower"]
    /\ term = [n \in Node |-> 0]
    /\ votedFor = [n \in Node |-> None]
    /\ votes = [n \in Node |-> 0]
    /\ log = [n \in Node |-> <<>>]
    /\ commit = [n \in Node |-> 0]
    /\ inbox = [n \in Node |-> <<>>]
    /\ sending = [n \in Node |-> Nothing]
    /\ elected = {}
    /\ elections = 0 /\ proposals = 0
    /\ setting \in Settings

(* n has nothing left to send. *)
Idle(n) == sending[n].to = {}

(* What is left to be sent after p has been served. *)
Rest(n, p) == IF sending[n].to = {p} THEN Nothing ELSE [sending[n] EXCEPT !.to = @ \ {p}]

(* One of the remaining messages goes out; peers are served in any order.  *)
(* After the last Append propose commits and applies the whole log.        *)
Send(n) ==
    \E p \in sending[n].to :
        /\ sending' = [sending EXCEPT ![n] = Rest(n, p)]
        /\ inbox' = [inbox EXCEPT ![p] = Append(@, sending[n].msg)]
        /\ commit' = IF sending[n].to = {p} /\ sending[n].msg.type = "Append"
                     THEN [commit EXCEPT ![n] = Len(log[n])]
                     ELSE commit
        /\ UNCHANGED <<role, term, votedFor, votes, log, elected, setting, elections, proposals>>

(* A message is refused: an election goes on with the next peer, a         *)
(* proposal ends there, with the entry in the log and not committed.       *)
SendFails(n) ==
    /\ setting.fails
    /\ \E p \in sending[n].to :
        sending' = [sending EXCEPT ![n] =
                        IF @.msg.type = "Append" THEN Nothing ELSE Rest(n, p)]
    /\ UNCHANGED <<role, term, votedFor, votes, log, commit, inbox, elected, setting, elections, proposals>>

(* pump takes the next message of a type from the inbox. *)
Receives(n, type) ==
    /\ Idle(n)
    /\ inbox[n] # <<>> /\ Head(inbox[n]).type = type
    /\ inbox' = [inbox EXCEPT ![n] = Tail(@)]

Reply(n, p, m) == sending' = [sending EXCEPT ![n] = [to |-> {p}, msg |-> m]]

(* handle, VoteReq: a higher term is followed; in its term a node votes    *)
(* for one candidate, and for that one as often as it asks.                *)
HandleVoteReq(n) ==
    LET m     == Head(inbox[n])
        newer == m.term > term[n]
        grant == newer \/ (m.term = term[n] /\ votedFor[n] \in {None, m.from})
    IN  /\ Receives(n, "VoteReq")
        /\ term' = [term EXCEPT ![n] = IF newer THEN m.term ELSE @]
        /\ role' = [role EXCEPT ![n] = IF newer THEN "follower" ELSE @]
        /\ votedFor' = [votedFor EXCEPT ![n] = IF grant THEN m.from ELSE @]
        /\ Reply(n, m.from, [type |-> "VoteResp", from |-> n, term |-> term'[n],
                             granted |-> grant])
        /\ UNCHANGED <<votes, log, commit, elected, setting, elections, proposals>>

(* Mutant: an answer of an earlier election counts. *)
CountsLate(n, m) == m.granted /\ role[n] = "candidate"

(* A vote of the running election. *)
Counts(n, m) == m.granted /\ m.term = term[n] /\ role[n] = "candidate"

(* handle, VoteResp: the vote that completes the quorum makes the leader;  *)
(* answers of other terms are ignored, higher ones too.                    *)
HandleVoteResp(n) ==
    LET m   == Head(inbox[n])
        won == Counts(n, m) /\ votes[n] + 1 >= quorum
    IN  /\ Receives(n, "VoteResp")
        /\ votes' = [votes EXCEPT ![n] = IF won THEN 0 ELSE IF Counts(n, m) THEN @ + 1 ELSE @]
        /\ role' = [role EXCEPT ![n] = IF won THEN "leader" ELSE @]
        /\ elected' = IF won THEN elected \cup {<<term[n], n>>} ELSE elected
        /\ UNCHANGED <<term, votedFor, log, commit, sending, setting, elections, proposals>>

(* Mutant: an operation already in the log is skipped in every term. *)
ExtendedByOp(l, e) == IF \E i \in 1..Len(l) : l[i].op = e.op THEN l ELSE Append(l, e)

(* Entries already in the log are skipped. *)
Extended(l, e) == IF e \in ToSet(l) THEN l ELSE Append(l, e)

(* Mutant: the entries of a node's own term are refused. *)
HandleAppendNewer(n) ==
    LET m  == Head(inbox[n])
        ok == m.term > term[n]
    IN  /\ Receives(n, "Append")
        /\ term' = [term EXCEPT ![n] = IF ok THEN m.term ELSE @]
        /\ role' = [role EXCEPT ![n] = IF ok THEN "follower" ELSE @]
        /\ log' = [log EXCEPT ![n] = IF ok THEN Extended(@, m.entry) ELSE @]
        /\ commit' = [commit EXCEPT ![n] = IF ok THEN Len(log'[n]) ELSE @]
        /\ Reply(n, m.from, [type |-> "AppendAck", from |-> n, term |-> m.term, ok |-> ok])
        /\ UNCHANGED <<votedFor, votes, elected, setting, elections, proposals>>

(* handle, Append: unless its term is older it is followed (voted_for is   *)
(* left as it is), and the whole log is committed and applied.             *)
HandleAppend(n) ==
    LET m  == Head(inbox[n])
        ok == m.term >= term[n]
    IN  /\ Receives(n, "Append")
        /\ term' = [term EXCEPT ![n] = IF ok THEN m.term ELSE @]
        /\ role' = [role EXCEPT ![n] = IF m.term > term[n] THEN "follower" ELSE @]
        /\ log' = [log EXCEPT ![n] = IF ok THEN Extended(@, m.entry) ELSE @]
        /\ commit' = [commit EXCEPT ![n] = IF ok THEN Len(log'[n]) ELSE @]
        /\ Reply(n, m.from, [type |-> "AppendAck", from |-> n, term |-> m.term, ok |-> ok])
        /\ UNCHANGED <<votedFor, votes, elected, setting, elections, proposals>>

(* handle, AppendAck: one acknowledgement commits the leader's whole log.  *)
HandleAppendAck(n) ==
    LET m == Head(inbox[n])
    IN  /\ Receives(n, "AppendAck")
        /\ commit' = [commit EXCEPT ![n] =
                        IF m.ok /\ role[n] = "leader" /\ m.term = term[n] THEN Len(log[n]) ELSE @]
        /\ UNCHANGED <<role, term, votedFor, votes, log, sending, elected, setting, elections, proposals>>

(* maybe_elect, when pump has emptied the inbox and the timeout has passed. *)
Elect(n) ==
    /\ Idle(n) /\ inbox[n] = <<>>
    /\ role[n] # "leader"
    /\ elections < setting.elections /\ elections' = elections + 1
    /\ term' = [term EXCEPT ![n] = @ + 1]
    /\ role' = [role EXCEPT ![n] = "candidate"]
    /\ votedFor' = [votedFor EXCEPT ![n] = n]
    /\ votes' = [votes EXCEPT ![n] = 1]
    /\ sending' = [sending EXCEPT ![n] =
                    [to |-> Node \ {n}, msg |-> [type |-> "VoteReq", from |-> n, term |-> term'[n]]]]
    /\ UNCHANGED <<log, commit, inbox, elected, setting, proposals>>

(* propose: between two pumps, at a leader. *)
Propose(n, op) ==
    LET entry == [term |-> term[n], op |-> op]
    IN  /\ Idle(n)
        /\ role[n] = "leader"
        /\ proposals < setting.proposals /\ proposals' = proposals + 1
        /\ setting.repeats \/ entry \notin ToSet(log[n])
        /\ log' = [log EXCEPT ![n] = Append(@, entry)]
        /\ sending' = [sending EXCEPT ![n] =
                [to |-> Node \ {n},
                 msg |-> [type |-> "Append", from |-> n, term |-> term[n], entry |-> entry]]]
        /\ UNCHANGED <<role, term, votedFor, votes, commit, inbox, elected, setting, elections>>

Handle(n) ==
    HandleVoteReq(n) \/ HandleVoteResp(n) \/ HandleAppend(n) \/ HandleAppendAck(n)

Next ==
    \E n \in Node :
        \/ Send(n) \/ SendFails(n) \/ Handle(n) \/ Elect(n)
        \/ \E op \in Op : Propose(n, op)

Spec == Init /\ [][Next]_vars

---------------------------------------------------------------------------
(* Properties *)

(* The parts have their types; in particular a node never commits beyond   *)
(* its log, where apply_to_state would index past the end.                 *)
TypeOK ==
    /\ role \in [Node -> {"follower", "candidate", "leader"}]
    /\ term \in [Node -> Nat]
    /\ votedFor \in [Node -> Node \cup {None}]
    /\ votes \in [Node -> 0..quorum]
    /\ log \in [Node -> Seq(Entry)]
    /\ commit \in [Node -> Nat] /\ \A n \in Node : commit[n] <= Len(log[n])
    /\ inbox \in [Node -> Seq(Message)]
    /\ sending \in [Node -> [to : SUBSET Node, msg : Message \cup {<<>>}]]
    /\ \A n \in Node : ~Idle(n) => sending[n].msg \in Message
    /\ elected \subseteq Nat \X Node
    /\ elections \in Nat /\ proposals \in Nat /\ setting \in Settings

(* At most one node ever becomes leader of a term, although candidates     *)
(* start over at any pump, answers arrive late, and an Append moves the    *)
(* term of a node without clearing its vote.                               *)
OneLeaderATerm == \A x, y \in elected : x[1] = y[1] => x = y

(* The entries of a term that a node has, and their order. *)
Has(n, t) == {e \in ToSet(log[n]) : e.term = t}
Before(n, d, e) == \E i, j \in 1..Len(log[n]) : i < j /\ log[n][i] = d /\ log[n][j] = e

(* What m has of term t is the beginning of what n has of it. *)
Begins(m, n, t) ==
    /\ Has(m, t) \subseteq Has(n, t)
    /\ \A d \in Has(n, t), e \in Has(m, t) : Before(m, d, e) <=> Before(n, d, e)

Orderly == ~setting.fails /\ ~setting.repeats

(* When no send is refused and no operation repeated in a term, no entry  *)
(* is twice in a log, and the entries of a term stand in the same order in *)
(* all logs and without gaps: of two nodes one has the beginning of what   *)
(* the other has.                                                          *)
TermsAgree ==
    Orderly => /\ \A n \in Node : IsInjective(log[n])
               /\ \A m, n \in Node, t \in 0..elections : Begins(m, n, t) \/ Begins(n, m, t)

(* State machine safety: what two nodes have applied at the same place is  *)
(* the same.                                                               *)
AppliedAgree ==
    \A m, n \in Node : \A i \in 1..commit[m] : i <= commit[n] => log[m][i] = log[n][i]

Quiet == \A n \in Node : Idle(n) /\ inbox[n] = <<>>

(* Then also, when all messages have been handled, the nodes in a leader's *)
(* term have applied everything and hold all entries the leader made.      *)
FollowersAgree ==
    Orderly => \A l, n \in Node : Quiet /\ role[l] = "leader" /\ term[n] = term[l] =>
        commit[n] = Len(log[n]) /\ Begins(l, n, term[l]) /\ Begins(n, l, term[l])

(* When all messages have been handled, the nodes in a leader's term agree *)
(* on the state: of the operations on one and the same metadata node the   *)
(* last one applied decides.                                               *)
SameState ==
    \A l, n \in Node : Quiet /\ role[l] = "leader" /\ term[n] = term[l]
                        /\ commit[l] > 0 /\ commit[n] > 0 =>
        log[n][commit[n]].op = log[l][commit[l]].op
============================================================================
