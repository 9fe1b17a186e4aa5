---------------------------- MODULE MCUsability -----------------------------
(***************************************************************************)
(* Instances of Usability for TLC.  One run checks three scenes: actors    *)
(* who write and purge at one time; a summary that is read while one actor *)
(* records a task and submits a survey as time passes; and the figures of *)
(* samples of durations and of web vitals, each an initial state.          *)
(***************************************************************************)
EXTENDS Usability

CONSTANTS a1, a2, r1, r2, e1, e2, e3, s1, s2

VARIABLES scene, sample

\* The best answers there are, and indifferent ones.
AllSheets == {[q \in Questions |-> IF q % 2 = 1 THEN 5 ELSE 1],
              [q \in Questions |-> 3]}

\* Durations of tasks in any order: every sequence of up to four out of three
\* values, and descending ones of up to forty-one, where the 95th percentile has
\* left the maximum for the second time.
Samples == BoundedSeq(1 .. 3, 4) \cup {[i \in 1 .. n |-> n - i] : n \in 1 .. 41}

\* Up to three events of two metrics, with a number or without.
Vitals == BoundedSeq([metric : {"LCP", "INP"}, value : {1, 2, 4, NoFigure}], 3)

MCInit ==
  /\ Init
  /\ \/ scene \in {"purges", "summary"} /\ sample = <<>>
     \/ scene = "figures" /\ sample \in Samples
     \/ scene = "vitals" /\ sample \in Vitals

Summing(local) == local.pc \in {"readEvents", "readSurveys", "summary"}

\* Two documents of each kind, of one moment and with one score.
Purges ==
  /\ now' = 0
  /\ Cardinality(Unstored(events')) >= 1
  /\ \A r \in Requests :
       /\ ~Summing(req'[r])
       /\ req'[r].pc = "event" =>
            req'[r].doc.at = 0 /\ req'[r].doc.name # "task_completed"
       /\ req'[r].pc = "survey" => req'[r].doc.score = 1000

\* The first request sums up what the second stores, which is one survey and
\* the events of one actor.
Summary ==
  /\ purged' = {}
  /\ req'[r1] = Idle \/ Summing(req'[r1])
  /\ ~Summing(req'[r2])
  /\ Cardinality(Unstored(surveys')) >= 1
  /\ req'[r2].pc \in {"event", "survey"} => req'[r2].doc.actor = a1

MCNext ==
  /\ UNCHANGED <<scene, sample>>
  /\ \/ scene = "purges" /\ Next /\ Purges
     \/ scene = "summary" /\ Next /\ Summary
     \/ scene \in {"figures", "vitals"} /\ UNCHANGED vars

MCSpec == MCInit /\ [][MCNext]_<<vars, scene, sample>>

\* What a summary computes, it computes as intended.
FiguresRight ==
  /\ scene = "figures" => RanksNearest(sample)
  /\ scene = "vitals" => VitalsAccounted(sample)

\* Documents of one kind are interchangeable.
Symmetry == Permutations(EventIds) \cup Permutations(SurveyIds)
=============================================================================
