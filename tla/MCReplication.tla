-------------------------- MODULE MCReplication ---------------------------
(***************************************************************************)
(* Instances of Replication for TLC, and what its comments say beyond what *)
(* the code keeps.                                                         *)
(***************************************************************************)
EXTENDS Replication, TLC

CONSTANTS s1, s2

Calm == Fault \ {"timeout"}
Sound ==
    [slaves : {<<s1>>}, sync : BOOLEAN,
        faults : {Fault, Fault \ {"slave"}, {"timeout", "file"}}]
        \cup [slaves : {<<s1, s2>>}, sync : BOOLEAN, faults : {Calm \ {"slave"}, Calm \ {"master"}}]
Two == [slaves : {<<s1, s2>>}, sync : {TRUE}, faults : {{"timeout", "slave"}}]
Late == [slaves : {<<s1>>}, sync : {TRUE}, faults : {{"timeout"}}]
Again == [slaves : {<<s1>>}, sync : {FALSE}, faults : {{"slave"}}]
Reborn == [slaves : {<<s1>>}, sync : {FALSE}, faults : {{"master"}}]
Plain == [slaves : {<<s1>>}, sync : {FALSE}, faults : {{}}]

\* Asynchronous replication is eventually consistent (replication.rs:5): what
\* was recorded reaches every slave.
AllReach == \A w \in Write : \A s \in Slave : (w \in kept /\ s \in Slaves) ~> (w \in applied[s])

\* In sync mode `record` waits for the acknowledgement (replication.rs:10).
SyncWaits == \A s \in Slaves : promised \subseteq applied[s]

\* A cut log has lost nothing a slave still lacks.
DropsNothing == \A s \in Slaves : kept \subseteq applied[s] \cup Nos(log)

\* Sending again is harmless (replication.rs:104).
ResendHarmless == Settled => \A s \in Slaves : data[s] = newest

\* Numbers only grow (replication.rs:7).
NumbersGrow == [][log' # log /\ Len(log') = Len(log) + 1 => Last(log').seq > pushed]_vars
===========================================================================
