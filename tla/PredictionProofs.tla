-------------------------- MODULE PredictionProofs --------------------------
(***************************************************************************)
(* Theorems about Prediction, for any services, requests and data: type    *)
(* correctness, and each of its safety properties.                         *)
(*                                                                         *)
(* The argument joins three parts of the state: what a request has done    *)
(* (req), the call of createSafely it awaits (calls) and the collections.  *)
(* Underway says how they go together while a request is under way; what   *)
(* it says of a call that has returned is what AnomalyAlerted needs once   *)
(* the request is over.                                                    *)
(*                                                                         *)
(* The last part is about Ranking, for any signals a request may read.     *)
(***************************************************************************)
EXTENDS MCPrediction, OrderingProofs

-----------------------------------------------------------------------------
\* The inductive invariant

\* What a request carries with it.
Carried(local) ==
  /\ local.pc = "idle" => local = Idle
  /\ local.pc # "idle" => local.service \in Services
  /\ local.pc = "evidence" => local.pending > 0

Alerted(p) == p \in lost \/ RecentlyRaised(p)

\* A request that awaits createSafely, and its call.
Awaiting(r) ==
  /\ req[r].result = "anomalous"
  /\ Saved(r) \in predictions
  /\ req[r].createdAt <= now
  /\ calls[r].pc # "idle" => calls[r].data = Payload(req[r].service)
  /\ calls[r].pc = "find" => calls[r].at = req[r].createdAt
  /\ calls[r].pc = "insert" => calls[r].at >= req[r].createdAt
  /\ calls[r].pc = "idle" => Alerted(Saved(r))

Steady(r) ==
  /\ Carried(req[r])
  /\ IF req[r].pc = "alerting" THEN Awaiting(r) ELSE calls[r].pc = "idle"

Underway == \A r \in Requests : Steady(r)

Covered == \A p \in predictions : p.isAnomaly => Alerted(p) \/ InFlight(p)

Inv == TypeOK /\ Underway /\ AlertHasPrediction /\ Covered

-----------------------------------------------------------------------------
\* Types

LEMMA IdleTypes ==
  /\ Idle \in Locals /\ Idle.pc = "idle"
  /\ Alerting!Idle \in Alerting!Locals /\ Alerting!Idle.pc = "idle"
  /\ 0 \in Times
BY Parameters DEF Idle, Locals, Counts, Times, Unread, Alerting!Idle,
   Alerting!Locals, Alerting!Times

LEMMA LocalFields ==
  ASSUME NEW local \in Locals
  PROVE  /\ local.service \in Services \cup {NoService}
         /\ local.seen \in [Kinds -> Nat \cup {Unread}]
         /\ local.pending \in Nat
         /\ local.createdAt \in Times
BY DEF Locals, Counts

LEMMA IdleCarried == Carried(Idle)
BY DEF Carried, Idle

-----------------------------------------------------------------------------
\* Requests on their own

\* A request that awaits no call goes on, and stores nothing.
LEMMA QuietStep ==
  ASSUME Inv, NEW r \in Requests, NEW local \in Locals,
         Carried(local), local.pc # "alerting", calls[r].pc = "idle",
         GoTo(r, local),
         UNCHANGED <<alerting, fallback, signals, predictions, lost>>
  PROVE  Inv'
<1>1. /\ req'[r] = local
      /\ \A q \in Requests : q # r => req'[q] = req[q]
  BY DEF Inv, TypeOK, GoTo
<1>2. TypeOK'
  BY DEF Inv, TypeOK, GoTo, alerting, Alerting!TypeOK, Alerting!Exists
<1>3. Underway'
  <2> SUFFICES ASSUME NEW q \in Requests PROVE Steady(q)'
    BY DEF Underway
  <2>1. CASE q = r
    BY <1>1, <2>1 DEF Steady, Carried, alerting
  <2>2. CASE q # r
    BY <1>1, <2>2 DEF Inv, Underway, Steady, Carried, Awaiting, Saved, Doc,
       Alerted, RecentlyRaised, Alerting!Exists, alerting
  <2> QED
    BY <2>1, <2>2
<1>4. AlertHasPrediction'
  BY DEF Inv, AlertHasPrediction, alerting, Alerting!Exists
<1>5. Covered'
  <2> SUFFICES ASSUME NEW p \in predictions, p.isAnomaly
               PROVE  (Alerted(p) \/ InFlight(p))'
    BY DEF Covered
  <2>1. Alerted(p) => Alerted(p)'
    BY DEF Alerted, RecentlyRaised, Alerting!Exists, alerting
  <2>2. ASSUME NEW q \in Requests, req[q].pc = "alerting", Saved(q) = p
        PROVE  (Alerted(p) \/ InFlight(p))'
    <3>1. CASE q = r
      BY <2>1, <2>2, <3>1 DEF Inv, Underway, Steady, Awaiting
    <3>2. CASE q # r
      BY <1>1, <2>2, <3>2 DEF InFlight, Saved, Doc
    <3> QED
      BY <3>1, <3>2
  <2> QED
    BY <2>1, <2>2 DEF Inv, Covered, InFlight
<1> QED
  BY <1>2, <1>3, <1>4, <1>5 DEF Inv

LEMMA PredictStep ==
  ASSUME Inv, NEW r \in Requests, NEW s \in Services, Predict(r, s)
  PROVE  Inv'
<1> DEFINE local == [Idle EXCEPT !.pc = "reading", !.service = s]
<1>1. local \in Locals
  BY IdleTypes DEF Locals, Idle, Counts
<1>2. Carried(local)
  BY DEF Carried, Idle
<1>3. calls[r].pc = "idle"
  BY DEF Predict, Inv, Underway, Steady
<1>4. local.pc # "alerting"
  BY DEF Idle
<1> QED
  BY <1>1, <1>2, <1>3, <1>4, QuietStep DEF Predict

LEMMA ReadStep ==
  ASSUME Inv, NEW r \in Requests, NEW k \in Kinds, Read(r, k)
  PROVE  Inv'
<1> DEFINE l    == req[r]
           seen == [l.seen EXCEPT ![k] = Found(l.service, k)]
           partly == [l EXCEPT !.seen = seen]
           wholly == [l EXCEPT !.seen = seen,
                        !.pc = IF seen["dependencies"] = 0 THEN "model" ELSE "evidence",
                        !.pending = seen["dependencies"]]
<1>1. /\ l \in Locals /\ l.pc = "reading" /\ Carried(l) /\ calls[r].pc = "idle"
      /\ l.service \in Services
  BY DEF Read, Inv, TypeOK, Underway, Steady, Carried
<1>2. /\ signals[l.service] \in [Kinds -> Nat]
      /\ l.seen \in [Kinds -> Nat \cup {Unread}]
  BY <1>1, LocalFields DEF Inv, TypeOK, Counts
<1>3. Found(l.service, k) \in Nat
  BY <1>2, Parameters DEF Found
<1>4. seen \in [Kinds -> Nat \cup {Unread}]
  BY <1>2, <1>3
<1>5. CASE \E j \in Kinds : seen[j] = Unread
  <2>1. partly \in Locals /\ partly.pc = "reading" /\ partly.service = l.service
    BY <1>1, <1>4 DEF Locals, Counts
  <2>2. GoTo(r, partly)
    BY <1>5 DEF Read
  <2> HIDE DEF partly, seen
  <2>3. Carried(partly)
    BY <1>1, <2>1 DEF Carried
  <2> QED
    BY <1>1, <2>1, <2>2, <2>3, QuietStep DEF Read
<1>6. CASE ~\E j \in Kinds : seen[j] = Unread
  <2>1. seen["dependencies"] \in Nat
    BY <1>4, <1>6, Parameters
  <2>2. /\ wholly \in Locals /\ wholly.pc \in {"model", "evidence"}
        /\ wholly.service = l.service
        /\ wholly.pc = IF seen["dependencies"] = 0 THEN "model" ELSE "evidence"
        /\ wholly.pending = seen["dependencies"]
    <3> HIDE DEF seen
    <3> QED
      BY <1>1, <1>4, <2>1 DEF Locals, Counts
  <2>3. GoTo(r, wholly)
    BY <1>6 DEF Read
  <2> HIDE DEF wholly, seen
  <2>4. wholly.pc = "evidence" => wholly.pending > 0
    BY <2>1, <2>2
  <2>5. Carried(wholly)
    BY <1>1, <2>2, <2>4 DEF Carried
  <2> QED
    BY <1>1, <2>2, <2>3, <2>5, QuietStep DEF Read
<1> QED
  BY <1>5, <1>6

\* Steps to a later place in predict.
LEMMA OnwardStep ==
  ASSUME Inv, NEW r \in Requests, req[r].pc \notin {"idle", "alerting"},
         NEW local \in Locals, local.pc \in {"evidence", "model", "save"},
         local.pc = "evidence" => local.pending > 0,
         local.service = req[r].service, GoTo(r, local),
         UNCHANGED <<alerting, fallback, signals, predictions, lost>>
  PROVE  Inv'
<1>1. Carried(req[r]) /\ calls[r].pc = "idle"
  BY DEF Inv, Underway, Steady
<1>2. Carried(local)
  BY <1>1 DEF Carried
<1> QED
  BY <1>1, <1>2, QuietStep

LEMMA EndStep ==
  ASSUME Inv, NEW r \in Requests, calls[r].pc = "idle", GoTo(r, Idle),
         UNCHANGED <<alerting, fallback, signals, predictions, lost>>
  PROVE  Inv'
BY IdleTypes, IdleCarried, QuietStep

LEMMA LoadEvidenceStep ==
  ASSUME Inv, NEW r \in Requests, LoadEvidence(r)
  PROVE  Inv'
<1> DEFINE local == [req[r] EXCEPT !.pending = @ - 1,
                                   !.pc = IF req[r].pending = 1 THEN "model" ELSE @]
<1>1. /\ req[r] \in Locals /\ req[r].pc = "evidence"
      /\ req[r].pending \in Nat /\ req[r].pending > 0
  BY LocalFields DEF LoadEvidence, Inv, TypeOK, Underway, Steady, Carried
<1>2. req[r].pending - 1 \in Nat /\ (req[r].pending # 1 => req[r].pending - 1 > 0)
  BY <1>1
<1>3. /\ local \in Locals /\ local.pc \in {"evidence", "model"}
      /\ local.service = req[r].service
  BY <1>1, <1>2 DEF Locals, Counts
<1>4. local.pc = "evidence" => local.pending > 0
  <2>1. /\ local.pc = IF req[r].pending = 1 THEN "model" ELSE "evidence"
        /\ local.pending = req[r].pending - 1
    BY <1>1 DEF Locals
  <2> QED
    BY <1>2, <2>1
<1> QED
  BY <1>1, <1>3, <1>4, OnwardStep DEF LoadEvidence

LEMMA ModelAnswersStep ==
  ASSUME Inv, NEW r \in Requests, NEW answer \in Answers, ModelAnswers(r, answer)
  PROVE  Inv'
<1> DEFINE local == [req[r] EXCEPT !.pc = "save", !.result = answer]
<1>1. req[r] \in Locals /\ req[r].pc = "model"
  BY DEF ModelAnswers, Inv, TypeOK
<1>2. /\ local \in Locals /\ local.pc = "save"
      /\ local.service = req[r].service
  BY <1>1 DEF Locals
<1> QED
  BY <1>1, <1>2, OnwardStep DEF ModelAnswers

LEMMA ModelFailsStep ==
  ASSUME Inv, NEW r \in Requests, NEW cause, ModelFails(r, cause)
  PROVE  Inv'
<1> DEFINE local == [req[r] EXCEPT !.pc = "save", !.result = "heuristic"]
<1>1. req[r] \in Locals /\ req[r].pc = "model" /\ calls[r].pc = "idle"
  BY DEF ModelFails, Inv, TypeOK, Underway, Steady
<1>2. /\ local \in Locals /\ local.pc = "save"
      /\ local.service = req[r].service
  BY <1>1 DEF Locals, Storable
<1>3. GoTo(r, local) \/ GoTo(r, Idle)
  BY DEF ModelFails
<1> QED
  BY <1>1, <1>2, <1>3, OnwardStep, EndStep DEF ModelFails

LEMMA RefuseToSaveStep ==
  ASSUME Inv, NEW r \in Requests, RefuseToSave(r)
  PROVE  Inv'
BY EndStep DEF RefuseToSave, Inv, Underway, Steady

LEMMA FinishStep ==
  ASSUME Inv, NEW r \in Requests, Finish(r)
  PROVE  Inv'
BY EndStep DEF Finish

-----------------------------------------------------------------------------
\* Steps that change the collections

\* No step turns back the clock, takes out a prediction, or changes an alert
\* but in its status.
Grows ==
  /\ now <= now'
  /\ predictions \subseteq predictions'
  /\ lost \subseteq lost'
  /\ \A a \in Ids : Alerting!Exists(a) =>
       /\ Alerting!Exists(a)'
       /\ alerts'[a].data = alerts[a].data
       /\ alerts'[a].triggeredAt = alerts[a].triggeredAt

LEMMA AlertedLasts ==
  ASSUME Grows, NEW p, Alerted(p)
  PROVE  p \in lost' \/ \E a \in Ids : /\ Alerting!Exists(a)'
                                       /\ alerts'[a].data = Payload(p.service)
                                       /\ alerts'[a].triggeredAt >= p.createdAt - Window
BY DEF Grows, Alerted, RecentlyRaised

\* What a step of one request leaves of the others.
LEMMA OthersSteady ==
  ASSUME Inv, Grows, TypeOK', NEW q \in Requests,
         req'[q] = req[q], calls'[q] = calls[q]
  PROVE  Steady(q)'
<1>1. Steady(q) /\ req[q] \in Locals
  BY DEF Inv, Underway, TypeOK
<1>2. Carried(req[q])'
  BY <1>1 DEF Steady, Carried, Idle
<1>3. CASE req[q].pc = "alerting"
  <2>1. Awaiting(q) /\ Saved(q)' = Saved(q)
    BY <1>1, <1>3 DEF Steady, Saved, Doc
  <2>2. Alerted(Saved(q)) => Alerted(Saved(q))'
    BY <2>1, AlertedLasts DEF Alerted, RecentlyRaised
  <2>3. req[q].createdAt <= now'
    BY <1>1, <2>1, LocalFields, Parameters DEF Awaiting, Grows, Times, Inv, TypeOK,
       Alerting!TypeOK, Alerting!Times
  <2>4. Awaiting(q)'
    BY <2>1, <2>2, <2>3 DEF Awaiting, Grows
  <2> QED
    BY <1>2, <1>3, <2>4 DEF Steady
<1>4. CASE req[q].pc # "alerting"
  BY <1>1, <1>2, <1>4 DEF Steady
<1> QED
  BY <1>3, <1>4

\* What is left to show of a step of request r and its call.
LEMMA StepOfOne ==
  ASSUME Inv, Grows, TypeOK', NEW r \in Requests,
         \A q \in Requests : q # r => req'[q] = req[q] /\ calls'[q] = calls[q],
         Steady(r)',
         \A p \in predictions' : (p \notin predictions \/ (req[r].pc = "alerting" /\ Saved(r) = p))
              /\ p.isAnomaly => (Alerted(p) \/ InFlight(p))'
  PROVE  Underway' /\ Covered'
<1>1. Underway'
  BY OthersSteady DEF Underway
<1>2. Covered'
  <2> SUFFICES ASSUME NEW p \in predictions', p.isAnomaly, p \in predictions,
                      ~(req[r].pc = "alerting" /\ Saved(r) = p)
               PROVE  (Alerted(p) \/ InFlight(p))'
    BY DEF Covered
  <2>1. CASE Alerted(p)
    BY <2>1, AlertedLasts DEF Alerted, RecentlyRaised
  <2>2. CASE InFlight(p)
    BY <2>2 DEF InFlight, Saved, Doc
  <2> QED
    BY <2>1, <2>2 DEF Inv, Covered
<1> QED
  BY <1>1, <1>2

\* A step that raises no alert.
LEMMA NoNewAlert ==
  ASSUME Inv, Grows, \A a \in Ids : Alerting!Exists(a)' => Alerting!Exists(a)
  PROVE  AlertHasPrediction'
BY DEF Inv, AlertHasPrediction, Grows

\* What TypeOK says of the alerts and calls.
LEMMA AlertTypes ==
  ASSUME Inv
  PROVE  /\ now \in Times /\ now \in Nat /\ MaxTime \in Nat /\ Window \in Nat
         /\ alerts \in [Ids -> Alerting!AlertDocs]
         /\ calls \in [Requests -> Alerting!Locals]
         /\ \A r \in Requests : calls[r].at \in Times
         /\ \A a \in Ids : Alerting!Exists(a) =>
              alerts[a].data \in Payloads /\ alerts[a].triggeredAt \in Times
         /\ \A n \in Times : n \in Nat
<1>1. MaxTime \in Nat /\ Window \in Nat
  BY Parameters
<1>2. /\ now \in Times
      /\ alerts \in [Ids -> Alerting!AlertDocs]
      /\ calls \in [Requests -> Alerting!Locals]
      /\ \A a \in Ids : Alerting!Exists(a) => alerts[a].data \in Payloads
  BY DEF Inv, TypeOK, Alerting!TypeOK, Times, Alerting!Times
<1>3. /\ \A r \in Requests : calls[r].at \in Times
      /\ \A a \in Ids : alerts[a].triggeredAt \in Times
  BY <1>2 DEF Alerting!Locals, Alerting!AlertDocs, Times, Alerting!Times
<1> QED
  BY <1>1, <1>2, <1>3 DEF Times

\* The request ends as it stores a document.
LEMMA StoreStep ==
  ASSUME Inv, NEW r \in Requests, req[r].pc # "alerting",
         NEW doc \in PredictionDocs, predictions' = predictions \cup {doc},
         lost \subseteq lost', lost' \subseteq AnomalousDocs,
         doc.isAnomaly => doc \in lost',
         GoTo(r, Idle), UNCHANGED <<alerting, fallback, signals>>
  PROVE  Inv'
<1>1. /\ req'[r] = Idle
      /\ \A q \in Requests : q # r => req'[q] = req[q]
  BY DEF Inv, TypeOK, GoTo
<1>2. TypeOK'
  BY IdleTypes DEF Inv, TypeOK, GoTo, alerting, Alerting!TypeOK, Alerting!Exists
<1>3. Grows
  BY AlertTypes DEF Grows, alerting, Alerting!Exists
<1>4. Steady(r)'
  BY <1>1, IdleTypes, IdleCarried DEF Steady, Carried, Idle, Inv, Underway, alerting
<1>5. ASSUME NEW p \in predictions', p \notin predictions, p.isAnomaly
      PROVE  (Alerted(p) \/ InFlight(p))'
  BY <1>5 DEF Alerted
<1>6. Underway' /\ Covered'
  BY <1>1, <1>2, <1>3, <1>4, <1>5, StepOfOne DEF alerting
<1>7. AlertHasPrediction'
  BY <1>3, NoNewAlert DEF alerting, Alerting!Exists
<1> QED
  BY <1>2, <1>6, <1>7 DEF Inv

LEMMA DocType ==
  ASSUME Inv, NEW r \in Requests, req[r].pc # "idle"
  PROVE  Doc(r, now) \in PredictionDocs
BY AlertTypes DEF Inv, Underway, Steady, Carried, Doc, PredictionDocs

LEMMA AbortStep ==
  ASSUME Inv, NEW r \in Requests, Abort(r)
  PROVE  Inv'
<1>1. req[r].pc \notin {"idle", "alerting"} /\ calls[r].pc = "idle"
  BY DEF Abort, Inv, Underway, Steady
<1>2. CASE UNCHANGED <<predictions, lost>>
  BY <1>1, <1>2, EndStep DEF Abort
<1>3. CASE /\ predictions' = predictions \cup {Doc(r, now)}
           /\ lost' = lost \cup ({Doc(r, now)} \cap AnomalousDocs)
  <2>1. Doc(r, now) \in PredictionDocs
    BY <1>1, DocType
  <2>2. /\ lost \subseteq lost' /\ lost' \subseteq AnomalousDocs
        /\ Doc(r, now).isAnomaly => Doc(r, now) \in lost'
    BY <1>3, <2>1 DEF AnomalousDocs, Inv, TypeOK
  <2>3. GoTo(r, Idle) /\ UNCHANGED <<alerting, fallback, signals>>
    BY DEF Abort
  <2> QED
    BY <1>1, <1>3, <2>1, <2>2, <2>3, StoreStep
<1> QED
  BY <1>2, <1>3 DEF Abort

LEMMA SaveStep ==
  ASSUME Inv, NEW r \in Requests, Save(r)
  PROVE  Inv'
<1> DEFINE doc   == Doc(r, now)
           local == [req[r] EXCEPT !.pc = "alerting", !.createdAt = now]
           call  == [pc |-> "find", data |-> Payload(req[r].service), at |-> now]
<1>1. /\ req[r] \in Locals /\ req[r].pc = "save" /\ Carried(req[r])
      /\ req[r].service \in Services /\ calls[r].pc = "idle"
  BY DEF Save, Inv, TypeOK, Underway, Steady, Carried
<1>2. /\ doc \in PredictionDocs
      /\ doc.isAnomaly <=> req[r].result \in Anomalous
  BY <1>1, DocType DEF Doc
<1>3. lost \subseteq lost' /\ lost' \subseteq AnomalousDocs
  BY <1>2 DEF Save, Inv, TypeOK, AnomalousDocs, Anomalous
<1>4. CASE req[r].result # "anomalous"
  <2>1. doc.isAnomaly => doc \in lost'
    BY <1>2, <1>4 DEF Save, Anomalous
  <2>2. /\ GoTo(r, Idle) /\ UNCHANGED <<alerting, fallback, signals>>
        /\ predictions' = predictions \cup {doc}
    BY <1>4 DEF Save
  <2> QED
    BY <1>1, <1>2, <1>3, <2>1, <2>2, StoreStep
<1>5. CASE req[r].result = "anomalous"
  <2>1. /\ local \in Locals /\ local.pc = "alerting" /\ local.createdAt = now
        /\ local.service = req[r].service /\ local.result = "anomalous"
    BY <1>1, <1>5, AlertTypes DEF Locals
  <2>2. call \in Alerting!Locals /\ Payload(req[r].service) \in Payloads
    BY <1>1, AlertTypes DEF Alerting!Locals, Payloads, Payload, Times, Alerting!Times
  <2>3. /\ req' = [req EXCEPT ![r] = local]
        /\ Alerting!CreateSafely([c \in {r} |-> Payload(req[r].service)])
        /\ predictions' = predictions \cup {doc} /\ lost' = lost
        /\ UNCHANGED <<fallback, signals, now, alerts>>
    BY <1>5 DEF Save, GoTo, Alerting!CreateSafely
  <2>4. /\ calls' \in [Requests -> Alerting!Locals] /\ calls'[r] = call
        /\ \A q \in Requests : q # r => calls'[q] = calls[q]
    BY <2>2, <2>3, AlertTypes DEF Alerting!CreateSafely, Alerting!Started
  <2>5. /\ req'[r] = local /\ req' \in [Requests -> Locals]
        /\ \A q \in Requests : q # r => req'[q] = req[q]
    BY <2>1, <2>3 DEF Inv, TypeOK
  <2> HIDE DEF local
  <2>6. TypeOK'
    BY <1>2, <2>2, <2>3, <2>4, <2>5 DEF Inv, TypeOK, Alerting!TypeOK, Alerting!Exists
  <2>7. Grows
    BY <2>3, AlertTypes DEF Grows, Alerting!Exists
  <2>8. Saved(r)' = doc
    BY <1>5, <2>1, <2>5 DEF Saved, Doc
  <2>9. Carried(req[r])'
    BY <1>1, <2>1, <2>3, <2>5 DEF Carried
  <2>10. Steady(r)'
    BY <2>1, <2>3, <2>4, <2>5, <2>8, <2>9, AlertTypes DEF Steady, Awaiting
  <2>11. ASSUME NEW p \in predictions', p \notin predictions PROVE InFlight(p)'
    BY <2>1, <2>3, <2>5, <2>8, <2>11 DEF InFlight
  <2>12. Underway' /\ Covered'
    BY <1>1, <2>3, <2>4, <2>5, <2>6, <2>7, <2>10, <2>11, StepOfOne
  <2>13. AlertHasPrediction'
    BY <2>3, <2>7, NoNewAlert DEF Alerting!Exists
  <2> QED
    BY <2>6, <2>12, <2>13 DEF Inv
<1> QED
  BY <1>4, <1>5

-----------------------------------------------------------------------------
\* Steps of the call of createSafely

LEMMA FailCallStep ==
  ASSUME Inv, NEW r \in Requests, FailCall(r)
  PROVE  Inv'
<1>1. /\ req[r].pc = "alerting" /\ Awaiting(r) /\ Carried(req[r])
      /\ Saved(r) \in AnomalousDocs
  BY DEF FailCall, Alerting!Fail, Inv, TypeOK, Underway, Steady, Awaiting, Saved,
     Doc, Anomalous, AnomalousDocs
<1>2. /\ calls' = [calls EXCEPT ![r] = Alerting!Idle] /\ lost' = lost \cup {Saved(r)}
      /\ UNCHANGED <<now, alerts, fallback, signals, predictions, req>>
  BY DEF FailCall, Alerting!Fail
<1>3. /\ calls' \in [Requests -> Alerting!Locals] /\ calls'[r].pc = "idle"
      /\ \A q \in Requests : q # r => calls'[q] = calls[q]
  BY <1>2, AlertTypes, IdleTypes
<1>4. TypeOK'
  BY <1>1, <1>2, <1>3, IdleTypes DEF Inv, TypeOK, Alerting!TypeOK, Alerting!Exists
<1>5. Grows
  BY <1>2, AlertTypes DEF Grows, Alerting!Exists
<1>6. Saved(r)' = Saved(r) /\ Alerted(Saved(r))'
  BY <1>2 DEF Saved, Doc, Alerted
<1>7. Steady(r)'
  BY <1>1, <1>2, <1>3, <1>6 DEF Steady, Awaiting, Carried
<1>8. Underway' /\ Covered'
  BY <1>2, <1>3, <1>4, <1>5, <1>6, <1>7, StepOfOne DEF Alerted
<1>9. AlertHasPrediction'
  BY <1>2, <1>5, NoNewAlert DEF Alerting!Exists
<1> QED
  BY <1>4, <1>8, <1>9 DEF Inv

LEMMA FindStep ==
  ASSUME Inv, NEW r \in Requests, Alerting!Find(r),
         UNCHANGED <<fallback, signals, predictions, req, lost>>
  PROVE  Inv'
<1> DEFINE call == calls[r]
           found == Alerting!Duplicates(call.data.key, call.at - Window)
           next == IF found # {} THEN Alerting!Idle
                   ELSE [call EXCEPT !.pc = "insert", !.at = now]
<1>1. /\ req[r].pc = "alerting" /\ Awaiting(r) /\ Carried(req[r])
      /\ call.pc = "find" /\ call.data = Payload(req[r].service)
      /\ call.at = req[r].createdAt /\ call \in Alerting!Locals
  BY DEF Alerting!Find, Inv, TypeOK, Alerting!TypeOK, Underway, Steady, Awaiting
<1>2. calls' = [calls EXCEPT ![r] = next] /\ UNCHANGED <<now, alerts>>
  BY DEF Alerting!Find
<1>3. /\ next \in Alerting!Locals /\ next.pc \in {"idle", "insert"}
      /\ next.pc = "idle" => found # {}
      /\ next.pc = "insert" => next.data = call.data /\ next.at = now
  BY <1>1, AlertTypes, IdleTypes DEF Alerting!Locals, Times, Alerting!Times
<1> HIDE DEF next
<1>4. /\ calls' \in [Requests -> Alerting!Locals] /\ calls'[r] = next
      /\ \A q \in Requests : q # r => calls'[q] = calls[q]
  BY <1>2, <1>3, AlertTypes
<1>5. TypeOK'
  BY <1>1, <1>2, <1>3, <1>4 DEF Inv, TypeOK, Alerting!TypeOK, Alerting!Exists
<1>6. Grows
  BY <1>2, AlertTypes DEF Grows, Alerting!Exists
<1>7. ASSUME found # {} PROVE Alerted(Saved(r))
  <2>1. PICK a \in Ids : /\ alerts[a].status = "active"
                         /\ alerts[a].data.key = req[r].service
                         /\ alerts[a].triggeredAt >= req[r].createdAt - Window
    BY <1>1, <1>7 DEF Alerting!Duplicates, Alerting!Active, Payload
  <2>2. Alerting!Exists(a) /\ alerts[a].data \in Payloads
    BY <2>1, AlertTypes DEF Alerting!Exists
  <2>3. alerts[a].data = Payload(req[r].service)
    BY <2>1, <2>2 DEF Payloads, Payload
  <2> QED
    BY <2>1, <2>2, <2>3 DEF Alerted, RecentlyRaised, Saved, Doc
<1>8. /\ Saved(r)' = Saved(r)
      /\ Alerted(Saved(r)) => Alerted(Saved(r))'
  BY <1>2 DEF Saved, Doc, Alerted, RecentlyRaised, Alerting!Exists
<1>9. Steady(r)'
  BY <1>1, <1>2, <1>3, <1>4, <1>7, <1>8 DEF Steady, Awaiting, Carried
<1>10. ASSUME NEW p \in predictions', req[r].pc = "alerting", Saved(r) = p
       PROVE  InFlight(p)'
  BY <1>8, <1>10 DEF InFlight
<1>11. Underway' /\ Covered'
  BY <1>4, <1>5, <1>6, <1>9, <1>10, StepOfOne
<1>12. AlertHasPrediction'
  BY <1>2, <1>6, NoNewAlert DEF Alerting!Exists
<1> QED
  BY <1>5, <1>11, <1>12 DEF Inv

LEMMA InsertStep ==
  ASSUME Inv, NEW r \in Requests, Alerting!Insert(r),
         UNCHANGED <<fallback, signals, predictions, req, lost>>
  PROVE  Inv'
<1> DEFINE data == Payload(req[r].service)
<1>1. /\ req[r].pc = "alerting" /\ Awaiting(r) /\ Carried(req[r])
      /\ calls[r].pc = "insert" /\ calls[r].data = data
      /\ calls[r].at >= req[r].createdAt /\ req[r].createdAt \in Times
      /\ req[r].service \in Services
  BY LocalFields DEF Alerting!Insert, Inv, TypeOK, Underway, Steady, Awaiting, Carried
<1>2. PICK b \in Ids, t \in calls[r].at .. now :
        /\ ~Alerting!Exists(b)
        /\ alerts' = [alerts EXCEPT ![b] = Alerting!NewAlert(data, t)]
  BY <1>1 DEF Alerting!Insert
<1>3. t \in Times /\ t >= req[r].createdAt /\ data \in Payloads
  BY <1>1, AlertTypes DEF Times, Payloads, Payload
<1>4. /\ calls' = [calls EXCEPT ![r] = Alerting!Idle] /\ now' = now
      /\ calls' \in [Requests -> Alerting!Locals] /\ calls'[r].pc = "idle"
      /\ \A q \in Requests : q # r => calls'[q] = calls[q]
  BY AlertTypes, IdleTypes DEF Alerting!Insert
<1>5. /\ alerts' \in [Ids -> Alerting!AlertDocs]
      /\ alerts'[b].data = data /\ alerts'[b].status = "active"
      /\ alerts'[b].triggeredAt = t
      /\ \A a \in Ids : a # b => alerts'[a] = alerts[a]
  BY <1>2, <1>3, AlertTypes
  DEF Alerting!AlertDocs, Alerting!Statuses, Times, Alerting!Times, Alerting!NewAlert
<1>6. TypeOK'
  BY <1>3, <1>4, <1>5, IdleTypes DEF Inv, TypeOK, Alerting!TypeOK, Alerting!Exists
<1>7. Grows
  BY <1>2, <1>4, <1>5, AlertTypes DEF Grows, Alerting!Exists
<1>8. /\ Saved(r)' = Saved(r) /\ Saved(r) \in predictions
      /\ Saved(r).isAnomaly /\ Saved(r).service = req[r].service
      /\ Saved(r).createdAt = req[r].createdAt
  BY <1>1 DEF Saved, Doc, Awaiting, Anomalous
<1>9. Alerted(Saved(r))'
  <2>1. t >= req[r].createdAt - Window
    <3>1. t \in Nat /\ req[r].createdAt \in Nat /\ Window \in Nat
      BY <1>1, <1>3, AlertTypes
    <3> QED
      BY <1>3, <3>1
  <2>2. /\ Alerting!Exists(b)'
        /\ alerts'[b].data = Payload(Saved(r)'.service)
        /\ alerts'[b].triggeredAt >= Saved(r)'.createdAt - Window
    BY <1>5, <1>8, <2>1 DEF Alerting!Exists
  <2> QED
    BY <2>2 DEF Alerted, RecentlyRaised
<1>10. Steady(r)'
  BY <1>1, <1>4, <1>8, <1>9 DEF Steady, Awaiting, Carried
<1>11. ASSUME NEW p \in predictions', Saved(r) = p PROVE Alerted(p)'
  BY <1>8, <1>9, <1>11 DEF Alerted, RecentlyRaised
<1>12. Underway' /\ Covered'
  BY <1>4, <1>6, <1>7, <1>10, <1>11, StepOfOne
<1>13. AlertHasPrediction'
  <2> SUFFICES ASSUME NEW a \in Ids, Alerting!Exists(a)'
               PROVE  \E p \in predictions : /\ p.isAnomaly
                                              /\ Payload(p.service) = alerts'[a].data
                                              /\ p.createdAt <= alerts'[a].triggeredAt
    BY DEF AlertHasPrediction
  <2>1. CASE a = b
    BY <1>3, <1>5, <1>8, <2>1
  <2>2. CASE a # b
    BY <1>5, <2>2 DEF Inv, AlertHasPrediction, Alerting!Exists
  <2> QED
    BY <2>1, <2>2
<1> QED
  BY <1>6, <1>12, <1>13 DEF Inv

-----------------------------------------------------------------------------
\* Steps of nobody's request

LEMMA NobodysStep ==
  ASSUME Inv, Grows, TypeOK', UNCHANGED <<calls, predictions, req, lost>>,
         \A a \in Ids : Alerting!Exists(a)' => Alerting!Exists(a)
  PROVE  Inv'
<1>1. Underway'
  BY OthersSteady DEF Underway
<1>2. Covered'
  <2> SUFFICES ASSUME NEW p \in predictions, p.isAnomaly
               PROVE  (Alerted(p) \/ InFlight(p))'
    BY DEF Covered
  <2>1. Alerted(p) => Alerted(p)'
    BY AlertedLasts DEF Alerted, RecentlyRaised
  <2>2. InFlight(p) => InFlight(p)'
    BY DEF InFlight, Saved, Doc
  <2> QED
    BY <2>1, <2>2 DEF Inv, Covered
<1> QED
  BY <1>1, <1>2, NoNewAlert DEF Inv

LEMMA UpdateStep ==
  ASSUME Inv, NEW a \in Ids, NEW status \in Patchable, Alerting!Update(a, status),
         UNCHANGED <<fallback, signals, predictions, req, lost>>
  PROVE  Inv'
<1>1. /\ Alerting!Exists(a)
      /\ UNCHANGED <<now, calls>>
      /\ status \in Alerting!Statuses /\ status # "none"
      /\ \E reopened \in BOOLEAN :
           alerts' = [alerts EXCEPT ![a].status = status, ![a].reopened = reopened]
  BY AlertParameters DEF Alerting!Update, Alerting!Statuses
<1>2. /\ alerts' \in [Ids -> Alerting!AlertDocs]
      /\ \A b \in Ids : b # a => alerts'[b] = alerts[b]
      /\ alerts'[a].status = status /\ alerts'[a].data = alerts[a].data
      /\ alerts'[a].triggeredAt = alerts[a].triggeredAt
  <2>1. PICK reopened \in BOOLEAN :
          alerts' = [alerts EXCEPT ![a].status = status, ![a].reopened = reopened]
    BY <1>1
  <2>2. alerts \in [Ids -> Alerting!AlertDocs]
    BY <1>1, AlertTypes
  <2>3. [alerts[a] EXCEPT !.status = status, !.reopened = reopened] \in Alerting!AlertDocs
    BY <1>1, <2>2 DEF Alerting!AlertDocs
  <2> QED
    BY <2>1, <2>2, <2>3 DEF Alerting!AlertDocs
<1>3. TypeOK'
  BY <1>1, <1>2 DEF Inv, TypeOK, Alerting!TypeOK, Alerting!Exists
<1>4. Grows
  BY <1>1, <1>2, AlertTypes DEF Grows, Alerting!Exists
<1> QED
  BY <1>1, <1>2, <1>3, <1>4, NobodysStep DEF Alerting!Exists

LEMMA TickStep ==
  ASSUME Inv, Alerting!Tick, UNCHANGED <<fallback, signals, predictions, req, lost>>
  PROVE  Inv'
<1>1. now' \in Times /\ now <= now' /\ UNCHANGED <<alerts, calls>>
  BY AlertTypes DEF Alerting!Tick, Times
<1>2. TypeOK'
  BY <1>1 DEF Inv, TypeOK, Alerting!TypeOK, Alerting!Exists, Times, Alerting!Times
<1>3. Grows
  BY <1>1 DEF Grows, Alerting!Exists
<1> QED
  BY <1>1, <1>2, <1>3, NobodysStep DEF Alerting!Exists

LEMMA GrowStep ==
  ASSUME Inv, NEW s \in Services, NEW k \in Kinds, Grow(s, k)
  PROVE  Inv'
<1>1. /\ signals' = [signals EXCEPT ![s][k] = @ + 1]
      /\ UNCHANGED <<now, alerts, calls, fallback, predictions, req, lost>>
  BY DEF Grow, alerting
<1>2. signals' \in [Services -> [Kinds -> Nat]]
  BY <1>1 DEF Inv, TypeOK, Counts
<1>3. TypeOK'
  BY <1>1, <1>2 DEF Inv, TypeOK, Counts, Alerting!TypeOK, Alerting!Exists
<1>4. Grows
  BY <1>1, AlertTypes DEF Grows, Alerting!Exists
<1> QED
  BY <1>1, <1>3, <1>4, NobodysStep DEF Alerting!Exists

LEMMA AgeStep ==
  ASSUME Inv, NEW s \in Services, Age(s)
  PROVE  Inv'
<1>1. /\ "errorLogs" \in Kinds /\ signals[s]["errorLogs"] > 0
      /\ signals' = [signals EXCEPT ![s]["errorLogs"] = @ - 1]
      /\ UNCHANGED <<now, alerts, calls, fallback, predictions, req, lost>>
  BY DEF Age, alerting
<1>2. signals' \in [Services -> [Kinds -> Nat]]
  <2>1. signals \in [Services -> [Kinds -> Nat]]
    BY DEF Inv, TypeOK, Counts
  <2>2. signals[s]["errorLogs"] - 1 \in Nat
    BY <1>1, <2>1
  <2> QED
    BY <1>1, <2>1, <2>2
<1>3. TypeOK'
  BY <1>1, <1>2 DEF Inv, TypeOK, Counts, Alerting!TypeOK, Alerting!Exists
<1>4. Grows
  BY <1>1, AlertTypes DEF Grows, Alerting!Exists
<1> QED
  BY <1>1, <1>3, <1>4, NobodysStep DEF Alerting!Exists

-----------------------------------------------------------------------------
\* The theorems

LEMMA Initially == Init => Inv
<1> SUFFICES ASSUME Init PROVE Inv
  OBVIOUS
<1>1. /\ now = 0 /\ alerts = [a \in Ids |-> Alerting!NoAlert]
      /\ calls = [r \in Requests |-> Alerting!Idle]
  BY DEF Init, Alerting!Init
<1>2. Alerting!NoAlert \in Alerting!AlertDocs /\ Alerting!NoAlert.status = "none"
  BY IdleTypes DEF Alerting!NoAlert, Alerting!AlertDocs, Alerting!Statuses, Times,
     Alerting!Times
<1>3. Alerting!TypeOK
  BY <1>1, <1>2, IdleTypes DEF Alerting!TypeOK, Alerting!Exists, Times, Alerting!Times
<1>4. TypeOK
  BY <1>3, IdleTypes DEF TypeOK, Init, Counts
<1>5. Underway
  BY <1>1, IdleTypes, IdleCarried DEF Underway, Steady, Init
<1>6. AlertHasPrediction
  BY <1>1, <1>2 DEF AlertHasPrediction, Alerting!Exists
<1>7. Covered
  BY DEF Covered, Init
<1> QED
  BY <1>4, <1>5, <1>6, <1>7 DEF Inv

LEMMA Inductive == Inv /\ [Next]_vars => Inv'
<1> SUFFICES ASSUME Inv, [Next]_vars PROVE Inv'
  OBVIOUS
<1>1. ASSUME NEW r \in Requests, NEW s \in Services, Predict(r, s) PROVE Inv'
  BY <1>1, PredictStep
<1>2. ASSUME NEW r \in Requests, Proceed(r) PROVE Inv'
  BY <1>2, ReadStep, LoadEvidenceStep, ModelFailsStep, SaveStep, RefuseToSaveStep,
     FinishStep DEF Proceed
<1>3. ASSUME NEW r \in Requests, ModelFails(r, "refused") PROVE Inv'
  BY <1>3, ModelFailsStep
<1>4. ASSUME NEW r \in Requests, NEW answer \in Answers, ModelAnswers(r, answer)
      PROVE  Inv'
  BY <1>4, ModelAnswersStep
<1>5. ASSUME NEW r \in Requests, Abort(r) \/ FailCall(r) PROVE Inv'
  BY <1>5, AbortStep, FailCallStep
<1>6. ASSUME NEW r \in Requests, AlertStep(r), Untouched PROVE Inv'
  BY <1>6, FindStep, InsertStep DEF AlertStep, Untouched
<1>7. ASSUME NEW a \in Ids, NEW status \in Patchable, Alerting!Update(a, status),
             Untouched
      PROVE  Inv'
  BY <1>7, UpdateStep DEF Untouched
<1>8. ASSUME Alerting!Tick, Untouched PROVE Inv'
  BY <1>8, TickStep DEF Untouched
<1>9. ASSUME NEW s \in Services, NEW k \in Kinds, Grow(s, k) PROVE Inv'
  BY <1>9, GrowStep
<1>10. ASSUME NEW s \in Services, Age(s) PROVE Inv'
  BY <1>10, AgeStep
<1>11. CASE UNCHANGED vars
  <2>1. UNCHANGED <<now, alerts, calls, fallback, signals, predictions, req, lost>>
    BY <1>11 DEF vars
  <2>2. TypeOK'
    BY <2>1 DEF Inv, TypeOK, Alerting!TypeOK, Alerting!Exists
  <2>3. Grows
    BY <2>1, AlertTypes DEF Grows, Alerting!Exists
  <2> QED
    BY <2>1, <2>2, <2>3, NobodysStep DEF Alerting!Exists
<1> QED
  BY <1>1, <1>2, <1>3, <1>4, <1>5, <1>6, <1>7, <1>8, <1>9, <1>10,
     <1>11 DEF Next

LEMMA Always == Spec => []Inv
BY Initially, Inductive, PTL DEF Spec

\* However many requests, alerts and documents there are, every variable stays
\* in its type; in particular only anomalous predictions are given up.
THEOREM TypeCorrect == Spec => []TypeOK
<1>1. Inv => TypeOK
  BY DEF Inv
<1> QED
  BY <1>1, Always, PTL

\* AiService.predict saves before it awaits createSafely: an alert about an
\* anomalous prediction always has such a prediction behind it, not later than
\* the alert, whatever fails and whichever requests overlap.
THEOREM AlertsHavePrediction == Spec => []AlertHasPrediction
<1>1. Inv => AlertHasPrediction
  BY DEF Inv
<1> QED
  BY <1>1, Always, PTL

\* However requests overlap and share alerts through the window of
\* createSafely, an anomalous prediction whose request is over has a recent
\* alert of its service, unless a fault gave it up.
THEOREM AnomaliesAlerted == Spec => []AnomalyAlerted
<1>1. Inv => AnomalyAlerted
  BY DEF Inv, Covered, Alerted, AnomalyAlerted
<1> QED
  BY <1>1, Always, PTL

-----------------------------------------------------------------------------
\* The ranking of the heuristic

Named(anomalies, dependencies) ==
  [type : {"anomaly", "dependency"}, confidence : Int,
   evidence : DOMAIN anomalies \cup DOMAIN dependencies]

\* Every dependency of the two upper levels is listed once.
LEMMA GraveListed ==
  ASSUME NEW dependencies \in Seq(Levels)
  PROVE  LET grave == Sorted([i \in Grave(dependencies) |-> i])
             size  == Cardinality(Grave(dependencies))
         IN  /\ size \in Nat
             /\ grave \in [1 .. size -> Grave(dependencies)]
             /\ \A m, n \in 1 .. size : grave[m] = grave[n] => m = n
<1> DEFINE keys == [i \in Grave(dependencies) |-> i]
           size == Cardinality(Grave(dependencies))
           grave == Sorted(keys)
<1>1. DOMAIN dependencies = 1 .. Len(dependencies) /\ Len(dependencies) \in Nat
  OBVIOUS
<1>2. Grave(dependencies) \in SUBSET (1 .. Len(dependencies))
  BY <1>1 DEF Grave
<1>3. IsFiniteSet(Grave(dependencies))
  <2>1. IsFiniteSet(1 .. Len(dependencies))
    BY <1>1, FS_Interval
  <2> QED
    BY <1>2, <2>1, FS_Subset
<1>4. /\ DOMAIN keys = Grave(dependencies) /\ DOMAIN keys \subseteq Int
      /\ \A i \in DOMAIN keys : keys[i] \in Int
  BY <1>2
<1>5. /\ size \in Nat
      /\ grave \in [1 .. size -> Grave(dependencies)]
      /\ \A m, n \in 1 .. size : m < n => grave[m] # grave[n]
  <2> HIDE DEF keys
  <2> QED
    BY <1>3, <1>4, SortedSorts
<1> HIDE DEF grave, size
<1>6. \A m, n \in 1 .. size : grave[m] = grave[n] => m = n
  <2> SUFFICES ASSUME NEW m \in 1 .. size, NEW n \in 1 .. size, grave[m] = grave[n], m # n
               PROVE  FALSE
    OBVIOUS
  <2>1. m < n \/ n < m
    BY <1>5
  <2> QED
    BY <1>5, <2>1
<1> QED
  BY <1>5, <1>6 DEF grave, size

LEMMA Joined ==
  ASSUME NEW X, NEW s \in Seq(X), NEW t \in Seq(X)
  PROVE  /\ s \o t \in Seq(X) /\ Len(s \o t) = Len(s) + Len(t)
         /\ \A i \in 1 .. Len(s) + Len(t) :
              (s \o t)[i] = IF i <= Len(s) THEN s[i] ELSE t[i - Len(s)]
OBVIOUS

\* Signals are the anomalies and then grave dependencies, each of them once.
LEMMA SignalsListed ==
  ASSUME NEW anomalies \in Seq(Int), NEW dependencies \in Seq(Levels)
  PROVE  LET listed == Signals(anomalies, dependencies)
             A == Len(anomalies)
         IN  /\ listed \in Seq(Named(anomalies, dependencies))
             /\ A \in Nat /\ A <= Len(listed)
             /\ \A i \in 1 .. A : listed[i] = Candidate("anomaly", anomalies[i], i)
             /\ \A i \in 1 .. Len(listed) :
                  ~ (i <= A) => /\ listed[i].type = "dependency"
                                /\ \E d \in DOMAIN dependencies :
                                     dependencies[d] \in {"high", "critical"}
             /\ \A i, j \in 1 .. Len(listed) : listed[i] = listed[j] => i = j
<1> DEFINE grave == Sorted([i \in Grave(dependencies) |-> i])
           size == Cardinality(Grave(dependencies))
           A == Len(anomalies)
           X == Named(anomalies, dependencies)
           first == [i \in DOMAIN anomalies |-> Candidate("anomaly", anomalies[i], i)]
           entry(n) == Candidate("dependency", Confidence[dependencies[grave[n]]], grave[n])
           second == [n \in DOMAIN grave |-> entry(n)]
           listed == first \o second
<1>1. Signals(anomalies, dependencies) = listed
  BY DEF Signals
<1>2. /\ size \in Nat /\ grave \in [1 .. size -> Grave(dependencies)]
      /\ \A m, n \in 1 .. size : grave[m] = grave[n] => m = n
  BY GraveListed
<1>3. /\ A \in Nat /\ DOMAIN anomalies = 1 .. A
      /\ \A i \in 1 .. A : anomalies[i] \in Int
  OBVIOUS
<1>4. \A d \in Grave(dependencies) :
        /\ d \in DOMAIN dependencies
        /\ dependencies[d] \in {"high", "critical"}
        /\ Confidence[dependencies[d]] \in Int
  BY DEF Grave, Confidence
<1> HIDE DEF grave, size, A
<1>5. first \in [1 .. A -> X] /\ DOMAIN first = 1 .. A
  BY <1>3 DEF Candidate, Named
<1>6. /\ second \in [1 .. size -> X] /\ DOMAIN second = 1 .. size
      /\ \A n \in 1 .. size : second[n] = entry(n)
  <2>1. DOMAIN grave = 1 .. size
    BY <1>2
  <2>2. ASSUME NEW n \in 1 .. size PROVE entry(n) \in X
    <3>1. grave[n] \in Grave(dependencies)
      BY <1>2
    <3> QED
      BY <1>4, <3>1 DEF Candidate, Named
  <2> HIDE DEF entry, X
  <2> QED
    BY <2>1, <2>2
<1>7. \A i \in 1 .. A : first[i] = Candidate("anomaly", anomalies[i], i)
  BY <1>3
<1> HIDE DEF first, second, X, entry
<1>8. /\ first \in Seq(X) /\ second \in Seq(X) /\ Len(first) = A /\ Len(second) = size
  BY <1>2, <1>3, <1>5, <1>6
<1>9. /\ listed \in Seq(X) /\ Len(listed) = A + size
      /\ \A i \in 1 .. A : listed[i] = first[i]
      /\ \A i \in 1 .. A + size : ~ (i <= A) => listed[i] = second[i - A] /\ i - A \in 1 .. size
  <2>1. /\ listed \in Seq(X) /\ Len(listed) = A + size
        /\ \A i \in 1 .. A + size :
             listed[i] = IF i <= A THEN first[i] ELSE second[i - A]
    BY <1>8, Joined
  <2>3. \A i \in 1 .. A : i \in 1 .. A + size /\ i <= A
    BY <1>2, <1>3
  <2>4. \A i \in 1 .. A + size : ~ (i <= A) => i - A \in 1 .. size
    BY <1>2, <1>3
  <2> HIDE DEF listed
  <2> QED
    BY <2>1, <2>3, <2>4
<1> HIDE DEF listed
<1>10. \A i \in 1 .. A : listed[i].type = "anomaly" /\ listed[i].evidence = i
  <2> SUFFICES ASSUME NEW i \in 1 .. A
               PROVE  listed[i].type = "anomaly" /\ listed[i].evidence = i
    OBVIOUS
  <2>1. listed[i] = Candidate("anomaly", anomalies[i], i)
    BY <1>7, <1>9
  <2>2. /\ Candidate("anomaly", anomalies[i], i).type = "anomaly"
        /\ Candidate("anomaly", anomalies[i], i).evidence = i
    BY DEF Candidate
  <2> QED
    BY <2>1, <2>2, Zenon
<1>11. ASSUME NEW i \in 1 .. A + size, ~ (i <= A)
       PROVE  /\ i - A \in 1 .. size
              /\ listed[i].type = "dependency" /\ listed[i].evidence = grave[i - A]
              /\ \E d \in DOMAIN dependencies : dependencies[d] \in {"high", "critical"}
  <2>1. i - A \in 1 .. size /\ listed[i] = entry(i - A)
    BY <1>6, <1>9, <1>11
  <2>2. listed[i].type = "dependency" /\ listed[i].evidence = grave[i - A]
    BY <2>1 DEF entry, Candidate
  <2>3. grave[i - A] \in Grave(dependencies)
    BY <1>2, <2>1
  <2> QED
    BY <1>4, <2>1, <2>2, <2>3
<1>12. ASSUME NEW i \in 1 .. A + size, NEW j \in 1 .. A + size, listed[i] = listed[j]
       PROVE  i = j
  <2>1. i \in Int /\ j \in Int
    BY <1>2, <1>3
  <2>2. CASE i <= A
    <3>1. i \in 1 .. A /\ (j <= A => j \in 1 .. A)
      BY <1>2, <1>3, <2>2
    <3>2. "anomaly" # "dependency"
      OBVIOUS
    <3>3. j <= A
      BY <1>10, <1>11, <1>12, <3>1, <3>2
    <3> QED
      BY <1>10, <1>12, <3>1, <3>3
  <2>3. CASE ~ (i <= A)
    <3>1. j <= A => j \in 1 .. A
      BY <1>2, <1>3
    <3>2. ~ (j <= A)
      BY <1>10, <1>11, <1>12, <2>3, <3>1
    <3>3. grave[i - A] = grave[j - A] /\ i - A \in 1 .. size /\ j - A \in 1 .. size
      BY <1>11, <1>12, <2>3, <3>2
    <3>4. i - A = j - A
      BY <1>2, <3>3
    <3> QED
      BY <1>3, <2>1, <3>4
  <2> QED
    BY <2>2, <2>3
<1>13. A <= Len(listed) /\ Len(listed) \in Nat
  BY <1>2, <1>3, <1>9
<1> QED
  BY <1>1, <1>3, <1>7, <1>9, <1>11, <1>12, <1>13 DEF A, X
\* Ranking changes the order of signals, and nothing else.
LEMMA RankedInOrder ==
  ASSUME NEW X, NEW listed \in Seq(X),
         \A i \in 1 .. Len(listed) : listed[i].confidence \in Int
  PROVE  LET N == Len(listed)
             ranked == Ranked(listed)
         IN  /\ ranked \in [1 .. N -> X]
             /\ \A n \in 1 .. N : \E i \in 1 .. N : ranked[n] = listed[i]
             /\ \A i \in 1 .. N : \E n \in 1 .. N : ranked[n] = listed[i]
             /\ \A m, n \in 1 .. N : m < n => ranked[m].confidence >= ranked[n].confidence
             /\ (\A i, j \in 1 .. N : listed[i] = listed[j] => i = j)
                  => \A m, n \in 1 .. N : ranked[m] = ranked[n] => m = n
<1> DEFINE N == Len(listed)
           keys == [i \in DOMAIN listed |-> -listed[i].confidence]
           order == Sorted(keys)
           ranked == Ranked(listed)
<1>1. /\ N \in Nat /\ DOMAIN listed = 1 .. N
      /\ \A i \in 1 .. N : listed[i] \in X
  OBVIOUS
<1>2. IsFiniteSet(1 .. N) /\ Cardinality(1 .. N) = N
  BY <1>1, FS_Interval
<1>3. /\ DOMAIN keys = 1 .. N
      /\ \A i \in 1 .. N : keys[i] = -listed[i].confidence /\ listed[i].confidence \in Int
  BY <1>1
<1>4. ranked = [n \in 1 .. N |-> listed[order[n]]]
  BY <1>1 DEF Ranked
<1> HIDE DEF N, keys, ranked, order
<1>5. /\ order \in [1 .. N -> 1 .. N]
      /\ \A m, n \in 1 .. N : m < n => keys[order[m]] <= keys[order[n]] /\ order[m] # order[n]
      /\ \A i \in 1 .. N : \E n \in 1 .. N : order[n] = i
  <2>1. /\ DOMAIN keys \subseteq Int /\ \A i \in DOMAIN keys : keys[i] \in Int
        /\ IsFiniteSet(DOMAIN keys) /\ Cardinality(DOMAIN keys) = N
    BY <1>1, <1>2, <1>3
  <2> QED
    BY <1>3, <2>1, SortedSorts DEF order
<1>6. ranked \in [1 .. N -> X]
  BY <1>1, <1>4, <1>5
<1>7. \A m, n \in 1 .. N : m < n => ranked[m].confidence >= ranked[n].confidence
  <2> SUFFICES ASSUME NEW m \in 1 .. N, NEW n \in 1 .. N, m < n
               PROVE  ranked[m].confidence >= ranked[n].confidence
    OBVIOUS
  <2>1. order[m] \in 1 .. N /\ order[n] \in 1 .. N /\ keys[order[m]] <= keys[order[n]]
    BY <1>5
  <2>2. ranked[m] = listed[order[m]] /\ ranked[n] = listed[order[n]]
    BY <1>4
  <2> DEFINE a == listed[order[m]].confidence
             b == listed[order[n]].confidence
  <2>3. a \in Int /\ b \in Int /\ keys[order[m]] = -a /\ keys[order[n]] = -b
    BY <1>3, <2>1
  <2> HIDE DEF a, b
  <2>4. a >= b
    BY <2>1, <2>3
  <2> QED
    BY <2>2, <2>4 DEF a, b
<1>8. \A m, n \in 1 .. N : order[m] = order[n] => m = n
  <2> SUFFICES ASSUME NEW m \in 1 .. N, NEW n \in 1 .. N, order[m] = order[n], m # n
               PROVE  FALSE
    OBVIOUS
  <2>1. m < n \/ n < m
    BY <1>1
  <2> QED
    BY <1>5, <2>1
<1>9. \A n \in 1 .. N : ranked[n] = listed[order[n]] /\ order[n] \in 1 .. N
  BY <1>4, <1>5
<1>10. \A i \in 1 .. N : \E n \in 1 .. N : ranked[n] = listed[i]
  BY <1>5, <1>9
<1>11. \A n \in 1 .. N : \E i \in 1 .. N : ranked[n] = listed[i]
  BY <1>9
<1>12. (\A i, j \in 1 .. N : listed[i] = listed[j] => i = j)
         => \A m, n \in 1 .. N : ranked[m] = ranked[n] => m = n
  <2> SUFFICES ASSUME \A i, j \in 1 .. N : listed[i] = listed[j] => i = j,
                      NEW m \in 1 .. N, NEW n \in 1 .. N, ranked[m] = ranked[n]
               PROVE  m = n
    OBVIOUS
  <2>1. order[m] \in 1 .. N /\ order[n] \in 1 .. N /\ listed[order[m]] = listed[order[n]]
    BY <1>9
  <2>2. order[m] = order[n]
    BY <2>1
  <2> QED
    BY <1>8, <2>2
<1> QED
  BY <1>6, <1>7, <1>10, <1>11, <1>12, Zenon DEF N, ranked

Fewer(k, n) == Min({k, n})

\* The first of a ranking, as many as were asked for.
Foremost(ranked, topK) == SubSeq(ranked, 1, Fewer(topK, Len(ranked)))

LEMMA BestOf ==
  ASSUME NEW X, NEW ranked \in Seq(X), ranked # <<>>, NEW topK \in Nat \ {0}
  PROVE  /\ Fewer(topK, Len(ranked)) \in 1 .. Len(ranked)
         /\ Foremost(ranked, topK) \in Seq(X)
         /\ Len(Foremost(ranked, topK)) = Fewer(topK, Len(ranked))
         /\ Foremost(ranked, topK) # <<>>
         /\ \A n \in 1 .. Fewer(topK, Len(ranked)) : Foremost(ranked, topK)[n] = ranked[n]
<1> DEFINE N == Len(ranked)
           K == Min({topK, N})
<1>0. N \in Nat \ {0}
  OBVIOUS
<1> HIDE DEF N
<1>1. K \in 1 .. N
  <2> DEFINE least == IF topK <= N THEN topK ELSE N
  <2>1. least \in {topK, N} /\ \A y \in {topK, N} : least <= y
    BY <1>0
  <2>2. \A x \in {topK, N} : (\A y \in {topK, N} : x <= y) => x = least
    BY <1>0
  <2>3. least \in 1 .. N
    BY <1>0
  <2> HIDE DEF least
  <2>4. K = least
    BY <2>1, <2>2 DEF Min
  <2> QED
    BY <2>3, <2>4
<1> HIDE DEF K
<1> DEFINE best == SubSeq(ranked, 1, K)
<1>2. /\ best \in Seq(X) /\ Len(best) = K
      /\ \A n \in 1 .. K : best[n] = ranked[n]
  BY <1>1 DEF N
<1> HIDE DEF best
<1>3. best # <<>>
  <2>1. K >= 1 /\ Len(<<>>) = 0
    BY <1>0, <1>1
  <2> QED
    BY <1>2, <2>1
<1>4. K = Fewer(topK, Len(ranked)) /\ best = Foremost(ranked, topK)
  BY Zenon DEF N, K, best, Fewer, Foremost
<1> QED
  BY <1>1, <1>2, <1>3, <1>4, Zenon DEF N

LEMMA MaxIsGreatest ==
  ASSUME NEW S, NEW x \in S, \A y \in S : y \in Int /\ x >= y
  PROVE  Max(S) = x
<1>1. \A z \in S : (\A y \in S : z >= y) => z = x
  OBVIOUS
<1> QED
  BY <1>1 DEF Max

\* The features that stand for the signals, unless the context names them.
LEMMA FeaturesOfSignals ==
  ASSUME NEW anomalies, NEW dependencies
  PROVE  LET features == Features(<<>>, anomalies, dependencies, 0, <<>>)
         IN  /\ features.anomaly_score = Highest(Range(anomalies))
             /\ features.dependency_risk = Highest({Risk[l] : l \in Range(dependencies)})
<1> DEFINE score == Highest(Range(anomalies))
           risk  == Highest({Risk[l] : l \in Range(dependencies)})
           figure(word) == Value(<<>>, word)
           read == [error_rate      |-> figure("error"),
                    latency_ms      |-> figure("latency"),
                    cpu_pct         |-> figure("cpu"),
                    memory_pct      |-> figure("memory"),
                    anomaly_score   |-> score,
                    dependency_risk |-> risk,
                    log_error_count |-> 0]
           none == <<>>
           features == [feature \in DOMAIN read |->
                          IF feature \in DOMAIN none THEN none[feature] ELSE read[feature]]
<1>1. Features(<<>>, anomalies, dependencies, 0, <<>>) = features
  BY Zenon DEF Features
<1>2. DOMAIN none = {}
  OBVIOUS
<1> HIDE DEF score, risk, figure, none
<1>3. /\ "anomaly_score" \in DOMAIN read /\ read["anomaly_score"] = score
      /\ "dependency_risk" \in DOMAIN read /\ read["dependency_risk"] = risk
  OBVIOUS
<1> HIDE DEF read
<1>4. features["anomaly_score"] = score /\ features["dependency_risk"] = risk
  BY <1>2, <1>3
<1> HIDE DEF features
<1>5. features.anomaly_score = score /\ features.dependency_risk = risk
  BY <1>4
<1> QED
  BY <1>1, <1>5, Zenon DEF score, risk

LEMMA RiskOfGrave ==
  ASSUME NEW dependencies \in Seq(Levels), NEW d \in DOMAIN dependencies,
         dependencies[d] \in {"high", "critical"}
  PROVE  Highest({Risk[l] : l \in Range(dependencies)}) >= 75
<1> DEFINE S == {Risk[l] : l \in Range(dependencies)}
<1>1. \A i \in DOMAIN dependencies : dependencies[i] \in Levels
  OBVIOUS
<1>2. Range(dependencies) \subseteq Levels /\ dependencies[d] \in Range(dependencies)
  BY <1>1 DEF Range
<1>3. \A l \in Levels : Risk[l] \in 0 .. 100
  <2>1. \A l \in Levels : Risk[l] \in {20, 45, 75, 100}
    BY DEF Levels, Risk
  <2>2. \A x \in {20, 45, 75, 100} : x \in 0 .. 100
    OBVIOUS
  <2> QED
    BY <2>1, <2>2, Zenon
<1>4. S \in SUBSET (0 .. 100)
  BY <1>2, <1>3
<1>5. IsFiniteSet(0 .. 100)
  <2>1. 0 \in Int /\ 100 \in Int
    OBVIOUS
  <2>2. \A a, b \in Int : IsFiniteSet(a .. b)
    BY FS_Interval
  <2> QED
    BY <2>1, <2>2, Zenon
<1>6. Risk[dependencies[d]] \in S /\ Risk[dependencies[d]] >= 75
  <2>1. \A l \in {"high", "critical"} : Risk[l] >= 75
    BY DEF Risk
  <2> QED
    BY <1>2, <2>1
<1> HIDE DEF S
<1>7. IsFiniteSet(S) /\ S # {} /\ \A x \in S : x \in Int
  <2>1. IsFiniteSet(S)
    BY <1>4, <1>5, FS_Subset, Zenon
  <2> QED
    BY <1>4, <1>6, <2>1
<1>8. PICK x \in S : \A y \in S : x >= y
  BY <1>7, GreatestExists
<1>9. Max(S) = x
  BY <1>7, <1>8, MaxIsGreatest
<1>10. Highest(S) >= 75
  BY <1>6, <1>7, <1>8, <1>9 DEF Highest
<1> QED
  BY <1>10 DEF S

\* What the heuristic shows is sound for any signals, as many candidates as the
\* caller asks for, and any context.
THEOREM HeuristicRanks ==
  ASSUME NEW anomalies \in Seq(Int), NEW dependencies \in Seq(Levels),
         NEW topK \in Nat \ {0}, NEW context
  PROVE  RankingSound(anomalies, dependencies, topK, context)
<1> DEFINE listed == Signals(anomalies, dependencies)
           X == Named(anomalies, dependencies)
           A == Len(anomalies)
           N == Len(listed)
           ranked == Ranked(listed)
           best == SubSeq(ranked, 1, Min({topK, Len(ranked)}))
           none == <<Candidate("anomaly", 40, NoEvidence)>>
           shown == Heuristic(anomalies, dependencies, topK)
           K == Min({topK, N})
           features == Features(<<>>, anomalies, dependencies, 0, context)
<1>1. /\ listed \in Seq(X) /\ N \in Nat /\ DOMAIN listed = 1 .. N
      /\ A \in Nat /\ A <= N
      /\ \A i \in 1 .. A : listed[i] = Candidate("anomaly", anomalies[i], i)
      /\ \A i \in 1 .. N : ~ (i <= A) =>
           /\ listed[i].type = "dependency"
           /\ \E d \in DOMAIN dependencies : dependencies[d] \in {"high", "critical"}
      /\ \A i, j \in 1 .. N : listed[i] = listed[j] => i = j
  <2> HIDE DEF X
  <2>1. listed \in Seq(X)
    BY SignalsListed DEF X
  <2>2. N \in Nat /\ DOMAIN listed = 1 .. N
    <3> HIDE DEF listed
    <3> QED
      BY <2>1
  <2> QED
    BY <2>1, <2>2, SignalsListed
<1>2. \A i \in 1 .. N : listed[i] \in X /\ listed[i].confidence \in Int
  <2> HIDE DEF listed, X
  <2>1. \A i \in 1 .. N : listed[i] \in X
    BY <1>1
  <2>2. \A c \in X : c.confidence \in Int
    BY DEF X, Named
  <2> QED
    BY <2>1, <2>2
<1>3. shown = IF best = <<>> THEN none ELSE best
  BY Zenon DEF Heuristic
<1> HIDE DEF listed, X, ranked, best, none, shown, features
<1>4. /\ ranked \in [1 .. N -> X]
      /\ \A n \in 1 .. N : \E i \in 1 .. N : ranked[n] = listed[i]
      /\ \A i \in 1 .. N : \E n \in 1 .. N : ranked[n] = listed[i]
      /\ \A m, n \in 1 .. N : m < n => ranked[m].confidence >= ranked[n].confidence
      /\ \A m, n \in 1 .. N : ranked[m] = ranked[n] => m = n
  BY <1>1, <1>2, RankedInOrder DEF ranked
<1>5. CASE listed = <<>>
  <2>1. N = 0 /\ Len(ranked) = 0 /\ ranked \in Seq(X)
    BY <1>4, <1>5
  <2>2. Min({topK, 0}) = 0
    <3>1. \A x \in {topK, 0} : (\A y \in {topK, 0} : x <= y) => x = 0
      OBVIOUS
    <3>2. \A y \in {topK, 0} : 0 <= y
      OBVIOUS
    <3> QED
      BY <3>1, <3>2 DEF Min
  <2>3. best = SubSeq(ranked, 1, 0)
    BY <2>1, <2>2, Zenon DEF best
  <2>4. best = <<>>
    BY <2>1, <2>3
  <2>5. shown = none
    BY <1>3, <2>4
  <2> QED
    BY <1>5, <2>5, Zenon DEF RankingSound, listed, shown, none
<1>6. CASE listed # <<>>
  <2>1. N \in Nat \ {0}
    BY <1>1, <1>6
  <2>2. /\ K \in 1 .. N /\ shown \in [1 .. K -> X] /\ Len(shown) = K
        /\ \A n \in 1 .. K : shown[n] = ranked[n] /\ n \in 1 .. N
    <3>1. /\ K \in 1 .. N /\ best \in [1 .. K -> X] /\ Len(best) = K /\ best # <<>>
          /\ \A n \in 1 .. K : best[n] = ranked[n]
      <4> HIDE DEF N, K
      <4>1. ranked \in Seq(X) /\ Len(ranked) = N /\ ranked # <<>>
        <5>1. ranked \in [1 .. N -> X] /\ N \in Nat /\ N >= 1
          BY <1>4, <2>1
        <5>2. ranked \in Seq(X) /\ Len(ranked) = N
          BY <5>1
        <5> QED
          BY <5>1, <5>2
      <4>2. K = Fewer(topK, Len(ranked)) /\ best = Foremost(ranked, topK)
        BY <4>1, Zenon DEF K, best, Fewer, Foremost
      <4>3. /\ K \in 1 .. N /\ best \in Seq(X) /\ Len(best) = K /\ best # <<>>
            /\ \A n \in 1 .. K : best[n] = ranked[n]
        BY <4>1, <4>2, BestOf
      <4>4. best \in [1 .. K -> X]
        BY <4>3
      <4> QED
        BY <4>3, <4>4
    <3>2. shown = best
      BY <1>3, <3>1
    <3>3. \A n \in 1 .. K : n \in 1 .. N
      BY <2>1, <3>1
    <3> QED
      BY <3>1, <3>2, <3>3
  <2> HIDE DEF N, K, A
  <2>3. /\ DOMAIN shown = 1 .. K
        /\ Range(shown) = {shown[n] : n \in 1 .. K}
        /\ Range(listed) = {listed[i] : i \in 1 .. N}
    BY <1>1, <2>2 DEF Range
  <2>4. Range(shown) \subseteq Range(listed)
    <3> SUFFICES ASSUME NEW n \in 1 .. K PROVE shown[n] \in Range(listed)
      BY <2>3
    <3>1. n \in 1 .. N /\ shown[n] = ranked[n]
      BY <2>2
    <3>2. PICK i \in 1 .. N : ranked[n] = listed[i]
      BY <1>4, <3>1
    <3> QED
      BY <2>3, <3>1, <3>2
  <2>5. IsInjective(shown)
    BY <1>4, <2>2, <2>3 DEF IsInjective
  <2>6. \A m, n \in DOMAIN shown : m < n => shown[m].confidence >= shown[n].confidence
    BY <1>4, <2>2, <2>3
  <2>7. \A c \in Range(listed) \ Range(shown), d \in Range(shown) :
          c.confidence <= d.confidence
    <3> SUFFICES ASSUME NEW c \in Range(listed) \ Range(shown), NEW d \in Range(shown)
                 PROVE  c.confidence <= d.confidence
      OBVIOUS
    <3>1. PICK n \in 1 .. N : c = ranked[n]
      <4>1. PICK i \in 1 .. N : c = listed[i]
        BY <2>3
      <4>2. PICK n \in 1 .. N : ranked[n] = listed[i]
        BY <1>4
      <4> QED
        BY <4>1, <4>2
    <3>2. PICK m \in 1 .. K : d = ranked[m]
      BY <2>2, <2>3
    <3>3. n \notin 1 .. K
      BY <2>2, <2>3, <3>1
    <3>4. m \in 1 .. N /\ m < n
      BY <2>1, <2>2, <3>3
    <3>5. d.confidence >= c.confidence
      BY <1>4, <3>1, <3>2, <3>4
    <3>6. c.confidence \in Int /\ d.confidence \in Int
      BY <1>2, <2>3, <2>4
    <3> QED
      BY <3>5, <3>6
  <2>8. ASSUME context = <<>>, NEW c \in Range(shown), c.type = "dependency"
        PROVE  features.dependency_risk >= 75
    <3>1. PICK i \in 1 .. N : c = listed[i]
      BY <2>3, <2>4
    <3>2. ~ (i <= A)
      <4> SUFFICES ASSUME i <= A PROVE FALSE
        OBVIOUS
      <4>1. i \in 1 .. A
        BY <1>1
      <4>2. c = Candidate("anomaly", anomalies[i], i)
        BY <1>1, <3>1, <4>1
      <4>3. c.type = "anomaly"
        BY <4>2 DEF Candidate
      <4> QED
        BY <2>8, <4>3
    <3>3. PICK d \in DOMAIN dependencies : dependencies[d] \in {"high", "critical"}
      BY <1>1, <3>2
    <3>4. Highest({Risk[l] : l \in Range(dependencies)}) >= 75
      BY <3>3, RiskOfGrave
    <3>5. features.dependency_risk = Highest({Risk[l] : l \in Range(dependencies)})
      BY <2>8, FeaturesOfSignals DEF features
    <3> QED
      BY <3>4, <3>5, Zenon
  <2> DEFINE anomalous == {c \in Range(shown) : c.type = "anomaly"}
             scores == {c.confidence : c \in anomalous}
  <2>9. ASSUME context = <<>>, anomalous # {}
        PROVE  features.anomaly_score = Max(scores)
    <3>1. PICK c \in anomalous : TRUE
      BY <2>9
    <3>2. ASSUME NEW b \in anomalous
          PROVE  \E i \in 1 .. A : b = Candidate("anomaly", anomalies[i], i)
      <4>1. PICK i \in 1 .. N : b = listed[i]
        BY <2>3, <2>4
      <4>2. i <= A
        BY <1>1, <4>1
      <4>3. i \in 1 .. A
        BY <1>1, <4>2
      <4> QED
        BY <1>1, <4>1, <4>3
    <3>3. /\ DOMAIN anomalies = 1 .. A
          /\ \A i \in 1 .. A : anomalies[i] \in Int
          /\ Range(anomalies) = {anomalies[i] : i \in 1 .. A}
      BY DEF A, Range
    <3>4. IsFiniteSet(Range(anomalies)) /\ Range(anomalies) # {}
          /\ \A y \in Range(anomalies) : y \in Int
      <4>1. anomalies \in Surjection(1 .. A, Range(anomalies))
        BY <3>3 DEF Surjection
      <4>2. IsFiniteSet(1 .. A)
        BY <1>1, FS_Interval
      <4>3. IsFiniteSet(Range(anomalies))
        BY <4>1, <4>2, FS_Surjection
      <4>4. Range(anomalies) # {}
        <5>1. PICK i \in 1 .. A : c = Candidate("anomaly", anomalies[i], i)
          BY <3>1, <3>2
        <5>2. anomalies[i] \in Range(anomalies)
          BY <3>3
        <5> QED
          BY <5>2
      <4> QED
        BY <3>3, <4>3, <4>4
    <3>5. PICK most \in Range(anomalies) : \A y \in Range(anomalies) : most >= y
      BY <3>4, GreatestExists
    <3>6. features.anomaly_score = most
      <4>1. Max(Range(anomalies)) = most
        BY <3>4, <3>5, MaxIsGreatest
      <4>2. features.anomaly_score = Highest(Range(anomalies))
        BY <2>9, FeaturesOfSignals DEF features
      <4> QED
        BY <3>4, <4>1, <4>2 DEF Highest
    <3>7. ASSUME NEW b \in anomalous
          PROVE  b.confidence \in Int /\ most >= b.confidence
      <4>1. PICK i \in 1 .. A : b = Candidate("anomaly", anomalies[i], i)
        BY <3>2
      <4>2. b.confidence = anomalies[i]
        BY <4>1 DEF Candidate
      <4> QED
        BY <3>3, <3>5, <4>2
    <3>8. PICK i \in 1 .. A : anomalies[i] = most
      BY <3>3, <3>5
    <3>9. i \in 1 .. N /\ listed[i] = Candidate("anomaly", most, i)
      BY <1>1, <3>8
    <3>10. listed[i].type = "anomaly" /\ listed[i].confidence = most /\ listed[i] \in Range(listed)
      BY <2>3, <3>9 DEF Candidate
    <3>11. most \in scores
      <4>1. CASE listed[i] \in Range(shown)
        BY <3>10, <4>1
      <4>2. CASE listed[i] \notin Range(shown)
        <5>1. most <= c.confidence
          BY <2>7, <3>10, <4>2
        <5>2. c.confidence \in Int /\ most >= c.confidence /\ most \in Int
          BY <3>4, <3>5, <3>7
        <5>3. c.confidence = most
          BY <5>1, <5>2
        <5> QED
          BY <5>3
      <4> QED
        BY <4>1, <4>2
    <3>12. \A y \in scores : y \in Int /\ most >= y
      BY <3>7
    <3> HIDE DEF scores
    <3>13. Max(scores) = most
      BY <3>11, <3>12, MaxIsGreatest
    <3> QED
      BY <3>6, <3>13, Zenon
  <2>10. Len(shown) = Min({topK, Len(listed)})
    BY <2>2 DEF K, N
  <2>11. context = <<>> =>
           /\ \A c \in Range(shown) : c.type = "dependency" => features.dependency_risk >= 75
           /\ anomalous # {} => features.anomaly_score = Max(scores)
    BY <2>8, <2>9
  <2> QED
    BY <1>6, <2>4, <2>5, <2>6, <2>7, <2>10, <2>11, Zenon
    DEF RankingSound, listed, shown, features
<1> QED
  BY <1>5, <1>6

\* Nothing of it depends on the samples TLC ranks: they are signals like any.
THEOREM HeuristicAlwaysSound == MCSpec => []HeuristicSound
<1>1. \A S, n : BoundedSeq(S, n) \subseteq Seq(S)
  BY DEF BoundedSeq, SeqOf
<1>2. ASSUME NEW s \in Samples
      PROVE  RankingSound(s.anomalies, s.dependencies, s.topK, s.context)
  <2>1. s.anomalies \in Seq(Int)
    <3>1. s.anomalies \in Seq({20, 65, 90})
      BY <1>1 DEF Samples
    <3> QED
      BY <3>1
  <2>2. s.dependencies \in Seq(Levels) /\ s.topK \in Nat \ {0}
    BY <1>1 DEF Samples
  <2> QED
    BY <2>1, <2>2, HeuristicRanks
<1>3. MCInit => HeuristicSound
  BY <1>2 DEF MCInit, HeuristicSound, Requesting
<1>4. HeuristicSound /\ [MCNext]_<<vars, sample>> => HeuristicSound'
  BY DEF MCNext, HeuristicSound, Requesting
<1> QED
  BY <1>3, <1>4, PTL DEF MCSpec
=============================================================================
