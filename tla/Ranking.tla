------------------------------ MODULE Ranking -------------------------------
(***************************************************************************)
(* What AiService makes of the signals it has read: the features it sends  *)
(* to the model and saves, and the candidates the heuristic ranks when the *)
(* model fails.  Pure functions; numbers are in hundredths, and summaries  *)
(* and names of candidates are left out.                                   *)
(*                                                                         *)
(* A definition headed "Faulty" is a plausible bug in the definition below *)
(* it: nothing uses it, and a property is checked to fail with it.         *)
(***************************************************************************)
EXTENDS Integers, Sequences, SequencesExt, Ordering

CONSTANT NoEvidence  \* the fallback candidate names the service itself

Levels == {"low", "medium", "high", "critical"}

\* A metric is its value and the words its name includes; the newest is first.
Value(metrics, word) ==
  LET i == SelectInSeq(metrics, LAMBDA m : word \in m.words)
  IN  IF i = 0 THEN 0 ELSE metrics[i].value

Highest(S) == IF S = {} THEN 0 ELSE Max(S)

\* riskFromCriticality
Risk == [low |-> 20, medium |-> 45, high |-> 75, critical |-> 100]

\* buildFeatures; numbers in the context of the request come first.
Features(metrics, anomalies, dependencies, errorLogs, context) ==
  LET read == [error_rate      |-> Value(metrics, "error"),
               latency_ms      |-> Value(metrics, "latency"),
               cpu_pct         |-> Value(metrics, "cpu"),
               memory_pct      |-> Value(metrics, "memory"),
               anomaly_score   |-> Highest(Range(anomalies)),
               dependency_risk |-> Highest({Risk[l] : l \in Range(dependencies)}),
               log_error_count |-> errorLogs]
  IN  [feature \in DOMAIN read |->
         IF feature \in DOMAIN context THEN context[feature] ELSE read[feature]]

-----------------------------------------------------------------------------
\* heuristicPredict

Candidate(type, confidence, evidence) ==
  [type |-> type, confidence |-> confidence, evidence |-> evidence]

Confidence == [high |-> 65, critical |-> 80]

Grave(dependencies) ==
  {i \in DOMAIN dependencies : dependencies[i] \in DOMAIN Confidence}

\* Anomalies by their score, then dependencies of the two upper levels.
Signals(anomalies, dependencies) ==
  LET grave == Sorted([i \in Grave(dependencies) |-> i])
  IN  [i \in DOMAIN anomalies |-> Candidate("anomaly", anomalies[i], i)]
        \o [n \in DOMAIN grave |->
              Candidate("dependency", Confidence[dependencies[grave[n]]], grave[n])]

\* Faulty: the operands of the comparison change places.
RankedAscending(signals) ==
  LET order == Sorted([i \in DOMAIN signals |-> signals[i].confidence])
  IN  [n \in DOMAIN signals |-> signals[order[n]]]

\* The most confident first, and equals as they were.
Ranked(signals) ==
  LET order == Sorted([i \in DOMAIN signals |-> -signals[i].confidence])
  IN  [n \in DOMAIN signals |-> signals[order[n]]]

\* The best topK of them, or the candidate that says there are none.
Heuristic(anomalies, dependencies, topK) ==
  LET ranked == Ranked(Signals(anomalies, dependencies))
      best   == SubSeq(ranked, 1, Min({topK, Len(ranked)}))
  IN  IF best = <<>> THEN <<Candidate("anomaly", 40, NoEvidence)>> ELSE best

-----------------------------------------------------------------------------
\* Properties

\* What the heuristic shows, and the features saved beside it, rest on the same
\* signals: it shows as many candidates as there are and were asked for, each
\* of a signal of its own, in descending order, and leaves out none that is
\* more confident than the last one shown; and unless the context says
\* otherwise, the best anomaly it shows is the anomaly_score, and a dependency
\* it shows makes for a dependency_risk of 0.75 at least.
RankingSound(anomalies, dependencies, topK, context) ==
  LET signals  == Signals(anomalies, dependencies)
      shown    == Heuristic(anomalies, dependencies, topK)
      features == Features(<<>>, anomalies, dependencies, 0, context)
  IN  IF signals = <<>> THEN shown = <<Candidate("anomaly", 40, NoEvidence)>>
      ELSE
      /\ Len(shown) = Min({topK, Len(signals)})
      /\ Range(shown) \subseteq Range(signals)
      /\ IsInjective(shown)
      /\ \A m, n \in DOMAIN shown : m < n => shown[m].confidence >= shown[n].confidence
      /\ \A c \in Range(signals) \ Range(shown), d \in Range(shown) :
           c.confidence <= d.confidence
      /\ context = <<>> =>
           /\ \A c \in Range(shown) :
                c.type = "dependency" => features.dependency_risk >= 75
           /\ LET anomalous == {c \in Range(shown) : c.type = "anomaly"}
              IN  anomalous # {} =>
                    features.anomaly_score = Max({c.confidence : c \in anomalous})
=============================================================================
