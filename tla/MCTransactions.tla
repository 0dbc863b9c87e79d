-------------------------- MODULE MCTransactions --------------------------
(***************************************************************************)
(* Instances of Transactions for TLC: transactions and documents are       *)
(* alike.                                                                  *)
(***************************************************************************)
EXTENDS Transactions, TLC

Alike == Permutations(Doc) \cup Permutations(Txn)

Tombstones ==
    [bitmap |-> FALSE, patches |-> FALSE, compacts |-> FALSE, levels |-> {"Serializable"}]
Repeatable == [Tombstones EXCEPT !.levels = {"RepeatableRead"}]
Patching == [Tombstones EXCEPT !.patches = TRUE]
Merging == [Repeatable EXCEPT !.compacts = TRUE]
Bitmap == [Tombstones EXCEPT !.bitmap = TRUE, !.levels = {"ReadCommitted", "Serializable"}]
Everything ==
    [bitmap |-> TRUE, patches |-> TRUE, compacts |-> TRUE, levels |-> {"RepeatableRead"}]
AllSettings == {Repeatable, Merging, Patching, Bitmap, Everything}
OnlyPatching == {Patching}
OnlyMerging == {Merging}
OnlyTombstones == {Tombstones}
OnlyEverything == {Everything}
===========================================================================
