------------------------------ MODULE MCViews -------------------------------
(***************************************************************************)
(* Instances of Views for TLC.  One run checks three scenes: two requests  *)
(* that write and overlap while nobody looks; a client that walks through  *)
(* the pages while one request at a time creates services; a client that   *)
(* opens the summary while one request at a time writes services and       *)
(* incidents.                                                              *)
(***************************************************************************)
EXTENDS Views, TLC

CONSTANTS s1, s2, s3, d1, d2, i1, r1, r2, c1

VARIABLE scene

\* Three services, and one that has the slug of the first.
Services == {[name |-> "a", slug |-> "a", status |-> "healthy"],
             [name |-> "b", slug |-> "b", status |-> "degraded"],
             [name |-> "c", slug |-> "c", status |-> "healthy"],
             [name |-> "d", slug |-> "a", status |-> "healthy"]}

MCInit == ViewInit /\ scene \in {"writing", "pages", "summary"}

\* Two services are enough for overlapping writes, and for a sum.
Few == now' <= 1 /\ Cardinality(Listed') <= 2

OneByOne == req'[r2] = Idle /\ req'[r1].pc \notin {"target", "dependency"}

MCNext ==
  /\ ViewNext
  /\ UNCHANGED scene
  /\ CASE scene = "writing" -> Few /\ UNCHANGED view
       [] scene = "pages"   -> OneByOne /\ UNCHANGED incidents /\ view'[c1].pc # "summary"
       [] scene = "summary" -> Few /\ OneByOne /\ view'[c1].pc # "walk"

MCSpec == MCInit /\ [][MCNext]_<<allVars, scene>>

\* Documents of one kind are interchangeable.
Symmetry == Permutations(ServiceIds) \cup Permutations(DependencyIds)
=============================================================================
