----------------------------- MODULE MCEngine -----------------------------
(* Instances of Engine for TLC. *)
EXTENDS Engine

Plain == [bitmap |-> FALSE, group |-> FALSE, worker |-> TRUE]
Grouped == [bitmap |-> FALSE, group |-> TRUE, worker |-> TRUE]
Bitmapped == [bitmap |-> TRUE, group |-> FALSE, worker |-> FALSE]
Sound == {Plain, Grouped, Bitmapped}
\* What the MySQL server runs with by default.
Worker == {[bitmap |-> TRUE, group |-> FALSE, worker |-> TRUE]}
\* The group-commit thread beside deletions by bitmap.
Marked == {[bitmap |-> TRUE, group |-> TRUE, worker |-> FALSE]}
OnlyPlain == {Plain}
OnlyBitmap == {Bitmapped}

(* put_nosync: the patches go with the document they belong to.  A crash   *)
(* when the operations are done and nothing of flush_wal is brings back a  *)
(* document as it has been since its last acknowledgement.                 *)
DocumentsWhole ==
    [][Crash /\ call.at = "bits" => \A d \in Doc : View(d)' \in may[d]]_vars

(* put_nosync and flush_wal: the bitmap is durable together with the log.  *)
(* A crash between the two brings back a document as it has been put since *)
(* the last acknowledgement, whatever its patches, and none that was       *)
(* deleted.                                                                *)
DeletionsWhole ==
    [][Crash /\ call.at = "primary" =>
        \A d \in Doc : "segments" \notin touched[d] =>
            \E c \in may[d] : View(d)'.base = c.base]_vars

(* put_batch, write and txn.rs: after a crash in its one flush_wal all of  *)
(* a batch is there, or none of it.                                        *)
BatchesWhole ==
    [][Crash /\ ~mode.group /\ ~mode.bitmap /\ call.at = "primary" =>
        LET changed == {d \in Doc : may[d] # {logical[d]}} IN
        \/ \A d \in changed : View(d)' = logical[d]
        \/ \A d \in changed : View(d)' # logical[d]]_vars

(* Between calls every read finds what was written, failed flushes or not. *)
ReadsLastAlways == call = Idle => \A d \in Doc : View(d) = logical[d]

Symmetric == Permutations(Doc)
===========================================================================
