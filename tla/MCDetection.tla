---------------------------- MODULE MCDetection ----------------------------
(***************************************************************************)
(* Instances of Detection, Sanitizing and Thresholds for TLC.  A run       *)
(* checks some of four scenes: error logs and batches at one moment;       *)
(* metrics, anomalies and incidents as time passes; payloads of logs,      *)
(* deeper than the limit; figures about every threshold.  In the last two  *)
(* each sample is an initial state.                                        *)
(***************************************************************************)
EXTENDS Detection, Sanitizing, Thresholds

CONSTANTS Scenes, Levels,  \* how deep the sampled payloads nest
          r1, r2, i1, i2, i3, s1, x1

VARIABLES scene, sample

Keys == {Key("access token", "-"), Key("set cookie", "-"), Key("path", "_")}

\* Containers of at most one value, and two or three values at the bottom.
Values[n \in 0 .. Levels] ==
  LET leaves == {Plain, Text("clean"), Text("credential")}
      below  == Values[n - 1]
  IN  IF n = 0
        THEN leaves \cup {Array(pair) : pair \in leaves \X leaves}
                    \cup {Object(fields) : fields \in [Keys -> leaves]}
        ELSE leaves \cup {Array(<<>>), Object(<<>>)}
               \cup {Array(<<value>>) : value \in below}
               \cup {Object([key \in {k} |-> value]) : k \in Keys, value \in below}

LogPayloads ==
  [message : {Text("clean"), Text("credential")},
   metadata : {Undefined} \cup {value \in Values[Levels] : value.kind = "object"}]

\* Below, at and above each threshold, and half as much again.
Figures ==
  {0, 9, 10, 19, 20}
    \cup UNION {{t - 1, t, (3 * t) \div 2 - 1, (3 * t) \div 2, (3 * t) \div 2 + 1} :
                  t \in {MetricRules[i].threshold : i \in DOMAIN MetricRules}}

Escalations ==
  {e \in [words : SUBSET Words, value : Figures, worse : Figures] : e.value <= e.worse}

MCInit ==
  /\ Init
  /\ scene \in Scenes
  /\ sample \in CASE scene = "payloads"    -> LogPayloads
                  [] scene = "escalations" -> Escalations
                  [] OTHER                 -> {NoData}

Spikes == now' = 0 /\ \A r \in Requests : req'[r].pc # "storeEvent"

Events == \A r \in Requests : req'[r].pc \notin {"storeLog", "ingest"}

MCNext ==
  /\ UNCHANGED <<scene, sample>>
  /\ \/ scene = "spikes" /\ Next /\ Spikes
     \/ scene = "events" /\ Next /\ Events
     \/ scene \in {"payloads", "escalations"} /\ UNCHANGED vars

MCSpec == MCInit /\ [][MCNext]_<<vars, scene, sample>>


\* As figures get worse, so do their alerts.
EscalationsSound ==
  scene = "escalations" => EscalationSound(sample.words, sample.value, sample.worse)

\* Requests and alert ids are interchangeable.
Symmetry == Permutations(Requests) \cup Permutations(Ids)
=============================================================================
