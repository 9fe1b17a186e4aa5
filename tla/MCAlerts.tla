------------------------------ MODULE MCAlerts ------------------------------
(***************************************************************************)
(* Instances of Alerts for TLC: two payloads of one service and title, say *)
(* a warning and its escalation, and one of another title.                 *)
(***************************************************************************)
EXTENDS Alerts, TLC

CONSTANTS c1, c2, i1, i2, i3, i4

Payloads == {[key |-> "latency", severity |-> "warning"],
             [key |-> "latency", severity |-> "critical"],
             [key |-> "cpu", severity |-> "warning"]}

Titles == {[key |-> "latency"], [key |-> "cpu"]}

\* Calls and ids are interchangeable.
Symmetry == Permutations(Calls) \cup Permutations(Ids)
=============================================================================
