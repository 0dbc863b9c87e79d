--------------------------- MODULE MCLockClients ---------------------------
(***************************************************************************)
(* Instances of LockClients for TLC: transactions and documents are alike. *)
(***************************************************************************)
EXTENDS LockClients, TLC

Alike == Permutations(Doc) \cup Permutations(Txn)

AnyMode == [modes |-> Mode, insist |-> FALSE]
Insistent == [modes |-> {"exclusive"}, insist |-> TRUE]
InsistentAnyMode == [modes |-> Mode, insist |-> TRUE]
AllHabits == {AnyMode, Insistent}
SharedToo == {InsistentAnyMode}
============================================================================
