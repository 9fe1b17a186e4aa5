----------------------------- MODULE Thresholds -----------------------------
(***************************************************************************)
(* Which metrics and how many error logs raise an alert, under which title *)
(* and how severe: alert-thresholds.ts.  Pure functions; values are in     *)
(* thousandths, and messages are left out.                                 *)
(*                                                                         *)
(* A definition headed "Faulty" is a plausible bug in the definition below *)
(* it: nothing uses it, and a property is checked to fail with it.         *)
(***************************************************************************)
EXTENDS Integers, Sequences, SequencesExt

CONSTANT NoMatch  \* null

\* A name matters by the words it includes, and a title by the rule's word.
MetricRules ==
  << [word |-> "error_rate", threshold |-> 50],
     [word |-> "latency",    threshold |-> 400000],
     [word |-> "cpu",        threshold |-> 80000],
     [word |-> "memory",     threshold |-> 85000] >>

Words == {MetricRules[i].word : i \in DOMAIN MetricRules}

ASSUME NoMatchApart ==
  NoMatch \notin [title : Words \cup {"spike"}, severity : {"warning", "critical"}]

\* Half as much again as the threshold.  In doubles 0.075 / 0.05 is less than
\* 1.5; the other quotients are exact.
Extreme(rule, value) ==
  /\ 2 * value >= 3 * rule.threshold
  /\ rule.word = "error_rate" => value # 75

Match(rule, value) ==
  IF value < rule.threshold THEN NoMatch
  ELSE [title    |-> rule.word,
        severity |-> IF Extreme(rule, value) THEN "critical" ELSE "warning"]

\* Faulty: the first rule that the value exceeds as well.
MatchMetricThresholdAny(words, value) ==
  LET i == SelectInSeq(MetricRules, LAMBDA rule : rule.word \in words
                                                    /\ value >= rule.threshold)
  IN  IF i = 0 THEN NoMatch ELSE Match(MetricRules[i], value)

\* Only the first rule whose word the name includes is consulted.
MatchMetricThreshold(words, value) ==
  LET i == SelectInSeq(MetricRules, LAMBDA rule : rule.word \in words)
  IN  IF i = 0 THEN NoMatch ELSE Match(MetricRules[i], value)

LogErrorCountThreshold == 10

LogErrorVolumeMatch(count) ==
  IF count < LogErrorCountThreshold THEN NoMatch
  ELSE [title    |-> "spike",
        severity |-> IF count >= 2 * LogErrorCountThreshold THEN "critical"
                                                           ELSE "warning"]

-----------------------------------------------------------------------------
\* Properties

Grade(match) ==
  IF match = NoMatch THEN 0 ELSE IF match.severity = "warning" THEN 1 ELSE 2

\* A worse figure never raises less, and never under another title: what a
\* metric, or the errors of a service, raise as they get worse is one alert
\* to the search for duplicates.
Worsens(match, worse) ==
  /\ Grade(match) <= Grade(worse)
  /\ match # NoMatch => worse.title = match.title

EscalationSound(words, value, worse) ==
  /\ Worsens(MatchMetricThreshold(words, value), MatchMetricThreshold(words, worse))
  /\ Worsens(LogErrorVolumeMatch(value), LogErrorVolumeMatch(worse))
=============================================================================
