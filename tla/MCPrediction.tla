---------------------------- MODULE MCPrediction ----------------------------
(***************************************************************************)
(* Instances of Prediction and Ranking for TLC.  A run checks requests, or *)
(* the ranking of samples of signals as well, each an initial state of its *)
(* own.                                                                    *)
(***************************************************************************)
EXTENDS Prediction, Ranking

CONSTANTS r1, r2, s1, i1, i2, i3

VARIABLE sample

\* Up to two anomalies and two dependencies: scores below, between and above
\* the confidence of dependencies, and equal ones.
Samples ==
  [anomalies : BoundedSeq({20, 65, 90}, 2), dependencies : BoundedSeq(Levels, 2),
   topK : 1 .. 3, context : {<<>>, [anomaly_score |-> 10]}]

Requesting == sample = NoData

MCInit == Init /\ sample \in Samples \cup {NoData}

MCNext == UNCHANGED sample /\ (IF Requesting THEN Next ELSE UNCHANGED vars)

MCSpec == MCInit /\ [][MCNext]_<<vars, sample>>

\* One run asks for requests alone.
RequestInit == Init /\ sample = NoData
RequestNext == Next /\ UNCHANGED sample
RequestSpec == RequestInit /\ [][RequestNext]_<<vars, sample>> /\ Fairness

\* Whatever signals a prediction has read, the heuristic ranks them soundly.
HeuristicSound ==
  Requesting
    \/ RankingSound(sample.anomalies, sample.dependencies, sample.topK, sample.context)

\* Requests and alert ids are interchangeable.
Symmetry == Permutations(Requests) \cup Permutations(Ids)
=============================================================================
