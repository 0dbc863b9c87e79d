--------------------------- MODULE DurableStore ---------------------------
(***************************************************************************)
(* What a column family promises to the engine above it: a map from keys   *)
(* to writes.  A write replaces the value of one key, a sync acknowledges  *)
(* everything written so far, and a crash may lose writes, but never one   *)
(* that has been acknowledged.  Nothing else changes what a read returns.  *)
(*                                                                         *)
(* A value is the number of the write that stored it; 0 is "never written" *)
(* (a deletion is a write like any other: reading its number means "not    *)
(* found" to the caller).                                                  *)
(***************************************************************************)
EXTENDS Naturals

CONSTANTS Key, MaxWrites

VARIABLES store,  \* store[k]: the write a read of k returns
          acked   \* acked[k]: the newest acknowledged write of k

vars == <<store, acked>>

Init == store = [k \in Key |-> 0] /\ acked = [k \in Key |-> 0]

(* A write of k; the writes of a key are numbered upwards.  It may be      *)
(* acknowledged in the same call, as a delete is.                          *)
Write(k) ==
    /\ store'[k] > store[k]
    /\ \A j \in Key \ {k} : store'[j] = store[j]
    /\ UNCHANGED acked \/ acked' = store'

(* A sync acknowledges what the store holds.                               *)
Sync == acked' # acked /\ acked' = store /\ UNCHANGED store

(* A crash falls back to some write between the acknowledged one and the   *)
(* current one, key by key.                                                *)
Crash ==
    /\ UNCHANGED acked
    /\ DOMAIN store' = Key
    /\ store' # store
    /\ \A k \in Key : acked[k] <= store'[k] /\ store'[k] <= store[k]

(* Most steps below the interface change nothing of it; naming them first  *)
(* spares TLC the rest.                                                    *)
Next == UNCHANGED vars \/ Sync \/ Crash \/ \E k \in Key : Write(k)

Spec == Init /\ [][Next]_vars
===========================================================================
