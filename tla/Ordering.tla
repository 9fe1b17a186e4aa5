------------------------------ MODULE Ordering ------------------------------
(***************************************************************************)
(* Array.prototype.sort with a comparison of numbers, as AiService and     *)
(* UsabilityService use it: ascending, and equals stay as they were.       *)
(*                                                                         *)
(* The sorting operators of the standard modules have no definition the    *)
(* proof system can expand.                                                *)
(***************************************************************************)
EXTENDS Integers, FiniteSets

\* keys[i] is the number entry i is compared by.  Where the entry ends up:
Place(keys, i) ==
  Cardinality({j \in DOMAIN keys :
    keys[j] < keys[i] \/ (keys[j] = keys[i] /\ j <= i)})

\* Which entry ends up in each place.
Sorted(keys) ==
  [n \in 1 .. Cardinality(DOMAIN keys) |->
     CHOOSE i \in DOMAIN keys : Place(keys, i) = n]
=============================================================================
