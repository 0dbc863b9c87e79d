------------------------------ MODULE MCSaga ------------------------------
(***************************************************************************)
(* Instances of Saga for TLC: branches in order or by dependencies.        *)
(***************************************************************************)
EXTENDS Saga

InOrder == [s \in Step |-> {}]

\* The first opens, two in the middle, the last joins them.
Diamond ==
    [s \in Step |-> CASE s = 1 -> {} [] s = 4 -> {2, 3} [] OTHER -> {1}]

\* Two pairs, the second layer in the order of the first, not of the request.
Cross == [s \in Step |-> CASE s = 3 -> {2} [] s = 4 -> {1} [] OTHER -> {}]

\* All but the first wait in a circle.
Loop == [s \in Step |-> CASE s = 1 -> {} [] s = 2 -> {4} [] OTHER -> {s - 1}]

AllGraphs == {InOrder, Diamond, Cross, Loop}
===========================================================================
