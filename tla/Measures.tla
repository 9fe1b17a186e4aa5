------------------------------ MODULE Measures ------------------------------
(***************************************************************************)
(* The arithmetic of usability.service.ts, over exact numbers: scores are  *)
(* in tenths, rates and averages in thousandths of the figures shown.      *)
(* Rounding is exact here.  The doubles of the code may send an exact half *)
(* the other way (1001/2000 is shown as 0.5, not 0.501): a difference of   *)
(* one thousandth that no property depends on.                             *)
(*                                                                         *)
(* A definition headed "Faulty" is a plausible bug in the definition below *)
(* it: nothing uses it, and a property is checked to fail with it.         *)
(***************************************************************************)
EXTENDS Integers, Sequences, SequencesExt, Ordering

CONSTANT NoFigure  \* null

\* round, to three decimals: n/d in thousandths, halves up.
Rounded(n, d) == (2000 * n + d) \div (2 * d)

Rate(n, d) == IF d > 0 THEN Rounded(n, d) ELSE 0

Questions == 1 .. 10

\* Faulty: the odd questions count from one.
SusScoreFromOne(answers) ==
  25 * FoldFunction(+, 0, [q \in Questions |->
         IF q % 2 = 1 THEN answers[q] ELSE 5 - answers[q]])

\* calculateSusScore: agreement counts for the odd questions, disagreement for
\* the even ones.
SusScore(answers) ==
  25 * FoldFunction(+, 0, [q \in Questions |->
         IF q % 2 = 1 THEN answers[q] - 1 ELSE 5 - answers[q]])

\* The average of a bag of scores, in thousandths.
Average(scores) ==
  IF DOMAIN scores = {} THEN NoFigure
  ELSE Rounded(FoldFunction(+, 0, scores), 10 * Cardinality(DOMAIN scores))

\* Faulty: the rank is rounded down.
RankBelow(n, percent) == Max({1, Min({n, (percent * n) \div 100})})

\* Which of n values in ascending order stands for the percentile.
Rank(n, percent) == Min({n, (percent * n + 99) \div 100})

Percentile(values, percent) ==
  IF values = <<>> THEN NoFigure
  ELSE values[Sorted(values)[Rank(Len(values), percent)]]

\* summarizeWebVitals: count and average per metric of the events that carry a
\* number.
WebVitals(events) ==
  LET valid == {i \in DOMAIN events : events[i].value # NoFigure}
      of(metric) == {i \in valid : events[i].metric = metric}
  IN  [metric \in {events[i].metric : i \in valid} |->
         [count   |-> Cardinality(of(metric)),
          average |-> Rounded(FoldFunction(+, 0, [i \in of(metric) |-> events[i].value]),
                              Cardinality(of(metric)))]]

-----------------------------------------------------------------------------
\* Properties

\* The reference definition of a percentile: the smallest of the values that at
\* least so many of them do not exceed.
Nearest(values, percent) ==
  Min({v \in Range(values) :
         100 * Cardinality({i \in DOMAIN values : values[i] <= v})
           >= percent * Len(values)})

\* The median and the 95th percentile of a summary are nearest ranks, whatever
\* the durations and their order.
RanksNearest(values) ==
  values # <<>> =>
    \A percent \in {50, 95} : Percentile(values, percent) = Nearest(values, percent)

\* The averages of web vitals account for every number recorded: what a metric
\* shows, times how often, differs from the sum by rounding only, and no event
\* without a number counts.
VitalsAccounted(events) ==
  LET figures == WebVitals(events)
      sum(m)  == FoldFunction(+, 0, [i \in DOMAIN events |->
                   IF events[i].metric = m /\ events[i].value # NoFigure
                     THEN events[i].value ELSE 0])
  IN  /\ FoldFunction(+, 0, [m \in DOMAIN figures |-> figures[m].count])
           = Cardinality({i \in DOMAIN events : events[i].value # NoFigure})
      /\ \A m \in DOMAIN figures :
           2 * (figures[m].count * figures[m].average - 1000 * sum(m))
             \in -figures[m].count .. figures[m].count
=============================================================================
