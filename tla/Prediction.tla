----------------------------- MODULE Prediction -----------------------------
(***************************************************************************)
(* AiService.predict, composed with Alerts.                                *)
(*                                                                         *)
(* A request reads what is known of its service in four parallel queries,  *)
(* loads evidence about each dependency in parallel, asks the model over   *)
(* HTTP, saves the prediction and, if the model found an anomaly, awaits   *)
(* createSafely.  Meanwhile other requests add metrics, anomalies, logs    *)
(* and dependencies, and error logs leave the last 24 hours, which is as   *)
(* far back as they are counted.                                           *)
(*                                                                         *)
(* The model is a service of its own.  It may answer, refuse, answer       *)
(* something that cannot be used, or stay silent until the HTTP client     *)
(* times out.  Whatever goes wrong there, the heuristic takes over if      *)
(* ai.fallbackEnabled is set.  Which candidates a prediction ranks, and    *)
(* what the heuristic makes of the signals, is left out.                   *)
(*                                                                         *)
(* A definition headed "Faulty" is a plausible bug in the definition below *)
(* it: no action uses it, and a property is checked to fail with it.       *)
(***************************************************************************)
EXTENDS Integers, Functions

CONSTANTS Services, Requests,
          Kinds,       \* the kinds of documents the queries ask for
          Ids,         \* ids of documents of the alerts collection
          Patchable,   \* statuses clients send to PATCH /alerts/:id
          Window,      \* ALERT_DEDUPE_WINDOW_MS
          MaxTime,     \* bound on the clock
          Limit,       \* the limit of the queries, 50 in the code
          MaxSignals,  \* bound on the documents about a service
          NoData, NoService

ASSUME Parameters ==
  /\ "dependencies" \in Kinds
  /\ Kinds \subseteq {"anomalies", "dependencies", "metrics", "errorLogs"}
  /\ Limit \in Nat
  /\ MaxSignals \in Nat
  /\ Window \in Nat
  /\ MaxTime \in Nat

VARIABLES now, alerts, calls,  \* as in Alerts
          fallback,     \* ai.fallbackEnabled
          signals,      \* signals[s][k]: documents of kind k about s; of error
                        \* logs, those of the last 24 hours
          predictions,  \* the contents of the predictions collection
          req,          \* req[r]: where request r is and its local variables
          lost          \* history: predictions whose alert a fault gave up

vars == <<now, alerts, calls, fallback, signals, predictions, req, lost>>
alerting == <<now, alerts, calls>>

-----------------------------------------------------------------------------

Payloads == [key : Services]

\* Faulty: the alert does not say which service it is about.
PayloadOfNone(s) == [key |-> NoService]

\* The title is the same for all anomalous predictions of a service.
Payload(s) == [key |-> s]

\* A request has at most one call of createSafely.
Alerting == INSTANCE Alerts WITH Data <- Payloads, Calls <- Requests

ASSUME AlertParameters ==
  /\ NoData \notin Payloads
  /\ Patchable \subseteq Alerting!Statuses

Times == 0 .. MaxTime
Counts == Nat
Unread == -1

\* Answers of the model that can be used.  A garbled one passes every check
\* up to and including the save and throws at score.toFixed, because its
\* anomaly_score is a number in quotes.  An unstorable one, such as one whose
\* generated_at is no date, is refused by the schema.
Answers == {"normal", "anomalous", "garbled", "unstorable"}
Storable == {"normal", "anomalous", "garbled", "heuristic"}

\* The model's verdict is true.
Anomalous == {"anomalous", "garbled"}

\* isAnomaly is true, or else false or null.
PredictionDocs == [service : Services, isAnomaly : BOOLEAN, createdAt : Times]
AnomalousDocs == {p \in PredictionDocs : p.isAnomaly}

\* pending: dependencies whose evidence is still to come.
\* createdAt: once saved, the prediction's.
Locals == [pc : {"idle", "reading", "evidence", "model", "save", "alerting"},
           service : Services \cup {NoService},
           seen : [Kinds -> Counts \cup {Unread}],
           pending : Counts, createdAt : Times,
           result : Answers \cup Storable \cup {"none"}]
Idle == [pc |-> "idle", service |-> NoService,
         seen |-> [k \in Kinds |-> Unread], pending |-> 0, createdAt |-> 0,
         result |-> "none"]

Init ==
  /\ Alerting!Init
  /\ fallback \in BOOLEAN
  /\ signals = [s \in Services |-> [k \in Kinds |-> 0]]
  /\ predictions = {}
  /\ req = [r \in Requests |-> Idle]
  /\ lost = {}

GoTo(r, local) == req' = [req EXCEPT ![r] = local]

Total(s) == FoldFunction(LAMBDA n, total : n + total, 0, signals[s])

\* Another request stores a document about a service.
Grow(s, k) ==
  /\ Total(s) < MaxSignals
  /\ signals' = [signals EXCEPT ![s][k] = @ + 1]
  /\ UNCHANGED <<alerting, fallback, predictions, req, lost>>

\* An error log gets older than 24 hours.
Age(s) ==
  /\ "errorLogs" \in Kinds
  /\ signals[s]["errorLogs"] > 0
  /\ signals' = [signals EXCEPT ![s]["errorLogs"] = @ - 1]
  /\ UNCHANGED <<alerting, fallback, predictions, req, lost>>

-----------------------------------------------------------------------------
\* The request

\* servicesService.findById finds the service.
Predict(r, s) ==
  /\ req[r].pc = "idle"
  /\ GoTo(r, [Idle EXCEPT !.pc = "reading", !.service = s])
  /\ UNCHANGED <<alerting, fallback, signals, predictions, lost>>

\* Error logs are counted; the others are found, up to a limit.
Found(s, k) ==
  IF k # "errorLogs" /\ signals[s][k] > Limit THEN Limit ELSE signals[s][k]

\* One of the queries of Promise.all.
Read(r, k) ==
  /\ req[r].pc = "reading"
  /\ req[r].seen[k] = Unread
  /\ LET seen == [req[r].seen EXCEPT ![k] = Found(req[r].service, k)]
     IN  GoTo(r, IF \E j \in Kinds : seen[j] = Unread
                   THEN [req[r] EXCEPT !.seen = seen]
                   ELSE [req[r] EXCEPT !.seen = seen,
                           !.pc = IF seen["dependencies"] = 0 THEN "model" ELSE "evidence",
                           !.pending = seen["dependencies"]])
  /\ UNCHANGED <<alerting, fallback, signals, predictions, lost>>

\* The evidence about one dependency is there: loaded, or unknown because one
\* of its two queries threw, which is caught.
LoadEvidence(r) ==
  /\ req[r].pc = "evidence"
  /\ GoTo(r, [req[r] EXCEPT !.pending = @ - 1,
                            !.pc = IF req[r].pending = 1 THEN "model" ELSE @])
  /\ UNCHANGED <<alerting, fallback, signals, predictions, lost>>

ModelAnswers(r, answer) ==
  /\ req[r].pc = "model"
  /\ GoTo(r, [req[r] EXCEPT !.pc = "save", !.result = answer])
  /\ UNCHANGED <<alerting, fallback, signals, predictions, lost>>

\* Faulty: the HTTP request carries no timeout.
ModelFailsWithoutTimeout(r, cause) ==
  /\ cause # "timeout"
  /\ req[r].pc = "model"
  /\ GoTo(r, IF fallback THEN [req[r] EXCEPT !.pc = "save", !.result = "heuristic"]
                         ELSE Idle)
  /\ UNCHANGED <<alerting, fallback, signals, predictions, lost>>

\* The model refuses or cannot be read, or the timeout of the HTTP request
\* fires; an answer that comes later is dropped.  The heuristic never sets
\* isAnomaly.  Without it the answer is 503.
ModelFails(r, cause) ==
  /\ req[r].pc = "model"
  /\ GoTo(r, IF fallback THEN [req[r] EXCEPT !.pc = "save", !.result = "heuristic"]
                         ELSE Idle)
  /\ UNCHANGED <<alerting, fallback, signals, predictions, lost>>

Doc(r, time) ==
  [service |-> req[r].service, isAnomaly |-> req[r].result \in Anomalous,
   createdAt |-> time]
Saved(r) == Doc(r, req[r].createdAt)

\* Faulty: the alert goes out first, and the save comes after it.
SaveLast(r) ==
  /\ req[r].pc = "save"
  /\ IF req[r].result = "anomalous"
       THEN /\ Alerting!CreateSafely([c \in {r} |-> Payload(req[r].service)])
            /\ GoTo(r, [req[r] EXCEPT !.pc = "alerting", !.createdAt = now])
            /\ UNCHANGED predictions
       ELSE /\ GoTo(r, Idle)
            /\ predictions' = predictions \cup {Doc(r, now)}
            /\ UNCHANGED alerting
  /\ UNCHANGED <<fallback, signals, lost>>

\* createdAt is set as the document is sent.  A garbled score throws after the
\* save, so its request fails and no alert is raised.
Save(r) ==
  /\ req[r].pc = "save"
  /\ req[r].result \in Storable
  /\ predictions' = predictions \cup {Doc(r, now)}
  /\ IF req[r].result = "anomalous"
       THEN /\ Alerting!CreateSafely([c \in {r} |-> Payload(req[r].service)])
            /\ GoTo(r, [req[r] EXCEPT !.pc = "alerting", !.createdAt = now])
       ELSE GoTo(r, Idle) /\ UNCHANGED alerting
  /\ lost' = lost \cup IF req[r].result = "garbled" THEN {Doc(r, now)} ELSE {}
  /\ UNCHANGED <<fallback, signals>>

\* predictionsRepository.create throws out of predict.
RefuseToSave(r) ==
  /\ req[r].pc = "save"
  /\ req[r].result \notin Storable
  /\ GoTo(r, Idle)
  /\ UNCHANGED <<alerting, fallback, signals, predictions, lost>>

\* createSafely returned, with or without an alert.
Finish(r) ==
  /\ req[r].pc = "alerting"
  /\ calls[r].pc = "idle"
  /\ GoTo(r, Idle)
  /\ UNCHANGED <<alerting, fallback, signals, predictions, lost>>

\* A database call throws or the process dies.  A save that throws may have
\* stored its document all the same.
Abort(r) ==
  /\ req[r].pc \in {"reading", "evidence", "model", "save"}
  /\ GoTo(r, Idle)
  /\ \/ UNCHANGED <<predictions, lost>>
     \/ /\ req[r].pc = "save"
        /\ req[r].result \in Storable
        /\ predictions' = predictions \cup {Doc(r, now)}
        /\ lost' = lost \cup ({Doc(r, now)} \cap AnomalousDocs)
  /\ UNCHANGED <<alerting, fallback, signals>>

\* createSafely swallows a failure of its own.
FailCall(r) ==
  /\ Alerting!Fail(r)
  /\ lost' = lost \cup {Saved(r)}
  /\ UNCHANGED <<fallback, signals, predictions, req>>

-----------------------------------------------------------------------------

\* What the event loop, the driver and the HTTP client's timer carry on
\* without the model and without anything going wrong.
Proceed(r) ==
  \/ \E k \in Kinds : Read(r, k)
  \/ LoadEvidence(r)
  \/ ModelFails(r, "timeout")
  \/ Save(r)
  \/ RefuseToSave(r)
  \/ Finish(r)

AlertStep(r) == Alerting!Find(r) \/ Alerting!Insert(r)

Untouched == UNCHANGED <<fallback, signals, predictions, req, lost>>

Next ==
  \/ \E r \in Requests, s \in Services : Predict(r, s)
  \/ \E r \in Requests : Proceed(r)
  \/ \E r \in Requests : ModelFails(r, "refused")
  \/ \E r \in Requests, answer \in Answers : ModelAnswers(r, answer)
  \/ \E r \in Requests : Abort(r) \/ FailCall(r)
  \/ \E r \in Requests : AlertStep(r) /\ Untouched
  \/ \E a \in Ids, status \in Patchable : Alerting!Update(a, status) /\ Untouched
  \/ Alerting!Tick /\ Untouched
  \/ \E s \in Services, k \in Kinds : Grow(s, k)
  \/ \E s \in Services : Age(s)

\* A call of the driver comes back, if only as a failure.
Fairness ==
  \A r \in Requests :
    /\ WF_vars(Proceed(r))
    /\ WF_vars((AlertStep(r) /\ Untouched) \/ FailCall(r))

Spec == Init /\ [][Next]_vars

FairSpec == Spec /\ Fairness

-----------------------------------------------------------------------------
\* Properties

\* Every variable stays in its type, and the alerts and calls in theirs.
TypeOK ==
  /\ Alerting!TypeOK
  /\ fallback \in BOOLEAN
  /\ signals \in [Services -> [Kinds -> Counts]]
  /\ predictions \subseteq PredictionDocs
  /\ req \in [Requests -> Locals]
  /\ lost \subseteq AnomalousDocs

\* An alert about an anomalous prediction is only raised once such a
\* prediction of its service can be looked up, whatever died on the way.
AlertHasPrediction ==
  \A a \in Ids : Alerting!Exists(a) =>
    \E p \in predictions : /\ p.isAnomaly
                           /\ Payload(p.service) = alerts[a].data
                           /\ p.createdAt <= alerts[a].triggeredAt

InFlight(p) == \E r \in Requests : req[r].pc = "alerting" /\ Saved(r) = p

RecentlyRaised(p) ==
  \E a \in Ids : /\ Alerting!Exists(a)
                 /\ alerts[a].data = Payload(p.service)
                 /\ alerts[a].triggeredAt >= p.createdAt - Window

\* A saved anomalous prediction whose request is over has an alert of its
\* service from its own time or the window before it, whichever request
\* raised that one, unless a fault gave it up.
AnomalyAlerted ==
  \A p \in predictions :
    p.isAnomaly /\ p \notin lost /\ ~InFlight(p) => RecentlyRaised(p)

\* Every request ends, although the model may never answer.
RequestsEnd ==
  \A r \in Requests : req[r].pc # "idle" ~> req[r].pc = "idle"
=============================================================================
