------------------------------ MODULE MCWal -------------------------------
(***************************************************************************)
(* Instances of Wal for TLC: the two modes as they are safe to use, and    *)
(* each way of use, or of crashing, that the log does not survive.  In the *)
(* file that grows, the length of a record plays no part.                  *)
(***************************************************************************)
EXTENDS Wal, TLC

Ringed == [mode : {"ring"}, group : {FALSE}, bitmap : {FALSE}, torn : {FALSE}, split : {FALSE},
           lens : {Lengths}]
Appending == [mode : {"append"}, group : BOOLEAN, bitmap : BOOLEAN, torn : {FALSE}, split : {FALSE},
              lens : {{1}}]
Sound == Ringed \cup Appending

\* Several records in one sync of the ring.
Grouped == {[s EXCEPT !.group = TRUE] : s \in Ringed}
\* Deletions that never reach the memtable.
Marked == {[s EXCEPT !.bitmap = TRUE] : s \in Ringed}
\* A crash in the fsync leaves the header without the records, or the reverse.
Split == {[s EXCEPT !.split = TRUE] : s \in Ringed}
\* A crash in the fsync leaves part of a record at the end of the file.
Ragged == {[s EXCEPT !.torn = TRUE] : s \in Appending}
===========================================================================
