---------------------------- MODULE MCGateway -----------------------------
(***************************************************************************)
(* Instances of Gateway for TLC.                                           *)
(***************************************************************************)
EXTENDS Gateway, TLC

CONSTANTS n1, n2, n3, n4, g1, g2

MCNodes == {n1, n2, n3, n4}
\* Either document moves to one of the new nodes and stays there; the other
\* one it takes as well if it comes first.
MCRing == <<<<n3, n4, n1, n2>>, <<n4, n3, n2, n1>>>>

Master(n) == [id |-> n, role |-> "master"]
Slave(n) == [id |-> n, role |-> "slave"]

Base == [nodes |-> <<Master(n1), Slave(n2)>>, gateways |-> {g1}, roles |-> {"slave"},
         batches |-> FALSE, hasty |-> FALSE, leftovers |-> FALSE, terms |-> {},
         writes |-> 3, faults |-> 2, moves |-> 2]
Growing == [Base EXCEPT !.nodes = <<Master(n1)>>, !.writes = 2, !.faults = 1, !.moves = 4]
Searched == [Base EXCEPT !.terms = Term, !.writes = 2, !.faults = 1, !.moves = 1]

Sound == {Base, Growing, Searched}
Batched == {[Base EXCEPT !.batches = TRUE]}
Hasty == {[Base EXCEPT !.hasty = TRUE]}
Masters == {[Base EXCEPT !.roles = {"master"}]}
\* A node may join again with the rows an aborted migration left on it.
Retaken == {[Growing EXCEPT !.leftovers = TRUE]}
Two == {[Base EXCEPT !.gateways = {g1, g2}]}

\* What the documents promise (reshard.rs:3, no data is lost; rpc.rs:191, a call
\* returns its result): the node asked has every write reported done, and a search
\* finds what was written long ago, whatever answered late.
EveryWriteReads ==
    \A g \in setting.gateways, d \in Doc : docs[resolve(g, d)][d] >= acked[d]
EveryWriteFound ==
    \A g \in setting.gateways, d \in Doc, t \in Term : indexed[d][t] = Ttl => d \in Found(g, t)
===========================================================================
