----------------------------- MODULE MCRaftRpc -----------------------------
(***************************************************************************)
(* Instances of RaftRpc for TLC: nodes and operations are alike.           *)
(***************************************************************************)
EXTENDS RaftRpc, TLC

Alike == Permutations(Node) \cup Permutations(Op)

(* Two elections and three proposals; three elections and one proposal;    *)
(* one leader whose messages are refused and who repeats itself.           *)
Reliable == [elections |-> 2, proposals |-> 3, fails |-> FALSE, repeats |-> FALSE]
Elections == [Reliable EXCEPT !.elections = 3, !.proposals = 1]
Refusing == [Reliable EXCEPT !.elections = 1, !.proposals = 3, !.fails = TRUE, !.repeats = TRUE]
AllSettings == {Reliable, Elections, Refusing}
Repeating == {[Reliable EXCEPT !.elections = 1, !.proposals = 3, !.repeats = TRUE]}
OnlyReliable == {Reliable}
============================================================================
