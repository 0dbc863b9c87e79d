---------------------------- MODULE MCRaftMeta ----------------------------
(***************************************************************************)
(* Instances of RaftMeta for TLC.  Nodes are alike, so they are permuted   *)
(* in the runs without liveness.                                           *)
(***************************************************************************)
EXTENDS RaftMeta, TLC

Alike == Permutations(Node)
===========================================================================
