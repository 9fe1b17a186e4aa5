----------------------------- MODULE Detection -----------------------------
(***************************************************************************)
(* The producers of alerts: LogsService.create, MetricsService.create,     *)
(* AnomaliesService.create, IncidentsService.create and                    *)
(* TelemetryService.ingest, composed with Alerts.                          *)
(*                                                                         *)
(* Each request stores what it was sent and only then calls createSafely,  *)
(* once per alert and through Promise.all, and answers when every call has *)
(* returned.  A step is one awaited database call and the code up to the   *)
(* next await.                                                             *)
(*                                                                         *)
(* Only events that can raise an alert are modelled: error and fatal logs, *)
(* metrics at or above their threshold, anomalies and incidents.  All      *)
(* error logs are recent: the clock spans far less than the 24 hours       *)
(* countErrorLogsByServiceId looks back.                                   *)
(*                                                                         *)
(* A definition headed "Faulty" is a plausible bug in the definition below *)
(* it: no action uses it, and a property is checked to fail with it.       *)
(***************************************************************************)
EXTENDS Integers, Sequences, FiniteSets

CONSTANTS Services, Incidents, Requests,
          Endpoints,       \* the endpoints clients use
          Ids,             \* ids of documents of the alerts collection
          Patchable,       \* statuses clients send to PATCH /alerts/:id
          ErrorThreshold,  \* LOG_ERROR_COUNT_THRESHOLD
          Window,          \* ALERT_DEDUPE_WINDOW_MS
          MaxTime,         \* bound on the clock
          MaxLogs,         \* bound on the error logs of a service
          MaxJobs,         \* bound on the alerts of one request
          NoData, NoIncident, NoService

ASSUME Parameters ==
  /\ ErrorThreshold \in Nat \ {0}
  /\ MaxJobs \in Nat \ {0}
  /\ Window \in Nat
  /\ MaxTime \in Nat

VARIABLES now, alerts, calls,  \* as in Alerts
          logged,    \* logged[s]: error logs of s stored by POST /logs
          ingested,  \* ingested[s]: error logs of s stored by telemetry
          stored,    \* payloads whose metric, anomaly or incident is stored
          req,       \* req[r]: where request r is and its local variables
          lost       \* history: keys whose alert a fault has given up

vars == <<now, alerts, calls, logged, ingested, stored, req, lost>>
events == <<logged, ingested, stored>>

-----------------------------------------------------------------------------

\* All metric rules are alike here: one title stands for those of Thresholds.
Titles == {"spike", "threshold", "anomaly", "incident"}

\* Faulty: service and title change places.
PayloadSwapped(s, title) == [key |-> <<title, s>>, incident |-> NoIncident]

\* What is passed to createSafely: the dedupe key and incidentId.
Payloads == [key : Services \X Titles, incident : Incidents \cup {NoIncident}]
Payload(s, title) == [key |-> <<s, title>>, incident |-> NoIncident]
IncidentPayload(s, i) == [key |-> <<s, "incident">>, incident |-> i]

Calls == Requests \X (1 .. MaxJobs)
CallsOf(r) == {c \in Calls : c[1] = r}

Alerting == INSTANCE Alerts WITH Data <- Payloads

ASSUME AlertParameters ==
  /\ NoData \notin Payloads
  /\ Patchable \subseteq Alerting!Statuses

Jobs == UNION {[1 .. n -> Payloads] : n \in 0 .. MaxJobs}

\* service and errors: whose error logs the request carries, and how many.
\* jobs: the alerts to raise.  since: when it began to raise them.
Locals ==
  [pc : {"idle", "storeLog", "countErrors", "storeEvent", "ingest", "alerting"},
   service : Services \cup {NoService}, errors : 0 .. ErrorThreshold,
   jobs : Jobs, pending : SUBSET {"logs", "metrics"}, failed : BOOLEAN,
   since : 0 .. MaxTime]
Idle == [pc |-> "idle", service |-> NoService, errors |-> 0, jobs |-> <<>>,
         pending |-> {}, failed |-> FALSE, since |-> 0]

GoTo(r, local) == req' = [req EXCEPT ![r] = local]

Init ==
  /\ Alerting!Init
  /\ logged = [s \in Services |-> 0]
  /\ ingested = [s \in Services |-> 0]
  /\ stored = {}
  /\ req = [r \in Requests |-> Idle]
  /\ lost = {}

KeysOf(jobs) == {jobs[j].key : j \in DOMAIN jobs}
PayloadsOf(jobs) == {jobs[j] : j \in DOMAIN jobs}

\* Promise.all over createSafely, or nothing to raise.
Emit(r, jobs) ==
  IF jobs = <<>>
    THEN GoTo(r, Idle) /\ UNCHANGED <<now, alerts, calls>>
    ELSE /\ Alerting!CreateSafely([c \in {<<r, j>> : j \in DOMAIN jobs} |-> jobs[c[2]]])
         /\ GoTo(r, [Idle EXCEPT !.pc = "alerting", !.jobs = jobs, !.since = now])

-----------------------------------------------------------------------------
\* Requests arrive

Arrive(r, local) ==
  /\ req[r].pc = "idle"
  /\ GoTo(r, local)
  /\ UNCHANGED <<now, alerts, calls, events, lost>>

Log(r, s) ==
  /\ logged[s] + ingested[s] < MaxLogs
  /\ Arrive(r, [Idle EXCEPT !.pc = "storeLog", !.service = s, !.errors = 1])

\* A metric at or above its threshold, or an anomaly.
Record(r, s, title) ==
  Arrive(r, [Idle EXCEPT !.pc = "storeEvent", !.jobs = <<Payload(s, title)>>])

\* One alert per element of serviceIds, which may repeat a service.
Incident(r, i, services) ==
  /\ \A p \in stored : p.incident # i
  /\ \A q \in Requests : \A p \in PayloadsOf(req[q].jobs) : p.incident # i
  /\ Arrive(r, [Idle EXCEPT !.pc = "storeEvent",
       !.jobs = [j \in DOMAIN services |-> IncidentPayload(services[j], i)]])

\* What a batch holds of one service: how many error logs, and how many metrics
\* over their threshold.
Batches == {batch \in [errors : 0 .. ErrorThreshold, metrics : 0 .. MaxJobs] :
              batch.errors + batch.metrics > 0}

\* The alerts of a batch.  Its error logs are counted in the batch alone.
BatchJobs(s, batch) ==
  [j \in 1 .. batch.metrics |-> Payload(s, "threshold")]
    \o IF batch.errors >= ErrorThreshold THEN <<Payload(s, "spike")>> ELSE <<>>

Ingest(r, s, batch) ==
  /\ batch.errors > 0 => logged[s] + ingested[s] + batch.errors <= MaxLogs
  /\ Len(BatchJobs(s, batch)) <= MaxJobs
  /\ Arrive(r, [Idle EXCEPT !.pc = "ingest", !.service = s,
       !.errors = batch.errors, !.jobs = BatchJobs(s, batch),
       !.pending = (IF batch.errors > 0 THEN {"logs"} ELSE {})
                     \cup (IF batch.metrics > 0 THEN {"metrics"} ELSE {})])

-----------------------------------------------------------------------------
\* Requests proceed

StoreLog(r) ==
  /\ req[r].pc = "storeLog"
  /\ logged' = [logged EXCEPT ![req[r].service] = @ + 1]
  /\ GoTo(r, [req[r] EXCEPT !.pc = "countErrors"])
  /\ UNCHANGED <<now, alerts, calls, ingested, stored, lost>>

\* Faulty: the threshold itself is not a spike yet.
CountErrorsAbove(r) ==
  /\ req[r].pc = "countErrors"
  /\ LET s == req[r].service
     IN  Emit(r, IF logged[s] + ingested[s] > ErrorThreshold
                   THEN <<Payload(s, "spike")>> ELSE <<>>)
  /\ UNCHANGED <<events, lost>>

\* countErrorLogsByServiceId counts every error log, whoever stored it.
CountErrors(r) ==
  /\ req[r].pc = "countErrors"
  /\ LET s == req[r].service
     IN  Emit(r, IF logged[s] + ingested[s] >= ErrorThreshold
                   THEN <<Payload(s, "spike")>> ELSE <<>>)
  /\ UNCHANGED <<events, lost>>

StoreEvent(r) ==
  /\ req[r].pc = "storeEvent"
  /\ stored' = stored \cup PayloadsOf(req[r].jobs)
  /\ Emit(r, req[r].jobs)
  /\ UNCHANGED <<logged, ingested, lost>>

Metrics(jobs) == {p \in PayloadsOf(jobs) : p.key[2] = "threshold"}

\* insertMany of one part of a batch.  It is not atomic: when it fails, any
\* number of its documents but the last may be there.
StoredPart(r, part, whole) ==
  \/ /\ part = "logs"
     /\ \E n \in 0 .. req[r].errors :
          /\ whole <=> n = req[r].errors
          /\ ingested' = [ingested EXCEPT ![req[r].service] = @ + n]
     /\ UNCHANGED <<logged, stored>>
  \/ /\ part = "metrics"
     /\ \/ stored' = stored \cup Metrics(req[r].jobs)
        \/ ~whole /\ UNCHANGED stored
     /\ UNCHANGED <<logged, ingested>>

\* Faulty: Promise.allSettled, so that alerts are raised for a failed batch.
StoreBatchSettled(r, part) ==
  /\ req[r].pc = "ingest"
  /\ part \in req[r].pending
  /\ \E whole \in BOOLEAN : StoredPart(r, part, whole)
  /\ LET rest == req[r].pending \ {part}
     IN  IF rest # {}
           THEN /\ GoTo(r, [req[r] EXCEPT !.pending = rest])
                /\ UNCHANGED <<now, alerts, calls>>
           ELSE Emit(r, req[r].jobs)
  /\ UNCHANGED lost

\* Promise.all rejects when either part fails, while the other part runs on;
\* no part is undone.
StoreBatch(r, part) ==
  /\ req[r].pc = "ingest"
  /\ part \in req[r].pending
  /\ \E whole \in BOOLEAN :
       LET rest   == req[r].pending \ {part}
           failed == req[r].failed \/ ~whole
       IN  /\ StoredPart(r, part, whole)
           /\ \/ /\ rest # {}
                 /\ GoTo(r, [req[r] EXCEPT !.pending = rest, !.failed = failed])
                 /\ UNCHANGED <<now, alerts, calls, lost>>
              \/ /\ rest = {} /\ failed
                 /\ GoTo(r, Idle)
                 /\ lost' = lost \cup KeysOf(req[r].jobs)
                 /\ UNCHANGED <<now, alerts, calls>>
              \/ /\ rest = {} /\ ~failed
                 /\ Emit(r, req[r].jobs)
                 /\ UNCHANGED lost

\* Promise.all over the calls resolves; createSafely never rejects.
Finish(r) ==
  /\ req[r].pc = "alerting"
  /\ \A c \in CallsOf(r) : calls[c].pc = "idle"
  /\ GoTo(r, Idle)
  /\ UNCHANGED <<now, alerts, calls, events, lost>>

\* A database call throws, or the process dies under the request.  Once it
\* raises alerts, each call fails on its own and none fails the request.
Abort(r) ==
  /\ req[r].pc \in {"storeLog", "countErrors", "storeEvent", "ingest"}
  /\ GoTo(r, Idle)
  /\ lost' = lost \cup KeysOf(req[r].jobs)
       \cup IF req[r].pc = "countErrors" THEN {<<req[r].service, "spike">>} ELSE {}
  /\ UNCHANGED <<now, alerts, calls, events>>

FailCall(c) ==
  /\ Alerting!Fail(c)
  /\ lost' = lost \cup {calls[c].data.key}
  /\ UNCHANGED <<events, req>>

-----------------------------------------------------------------------------

Arrival(r) ==
  \/ \E s \in Services :
       \/ "logs" \in Endpoints /\ Log(r, s)
       \/ "metrics" \in Endpoints /\ Record(r, s, "threshold")
       \/ "anomalies" \in Endpoints /\ Record(r, s, "anomaly")
       \/ /\ "telemetry" \in Endpoints
          /\ \E batch \in Batches : Ingest(r, s, batch)
  \/ /\ "incidents" \in Endpoints
     /\ \E i \in Incidents, n \in 1 .. MaxJobs :
          \E services \in [1 .. n -> Services] : Incident(r, i, services)

RequestStep(r) ==
  \/ Arrival(r)
  \/ StoreLog(r)
  \/ CountErrors(r)
  \/ StoreEvent(r)
  \/ \E part \in {"logs", "metrics"} : StoreBatch(r, part)
  \/ Finish(r)
  \/ Abort(r)

AlertStep ==
  \/ \E c \in Calls : Alerting!Find(c) \/ Alerting!Insert(c)
  \/ \E a \in Ids, status \in Patchable : Alerting!Update(a, status)
  \/ Alerting!Tick

Next ==
  \/ \E r \in Requests : RequestStep(r)
  \/ AlertStep /\ UNCHANGED <<events, req, lost>>
  \/ \E c \in Calls : FailCall(c)

Spec == Init /\ [][Next]_vars

-----------------------------------------------------------------------------
\* Properties

TypeOK ==
  /\ Alerting!TypeOK
  /\ logged \in [Services -> Nat]
  /\ ingested \in [Services -> Nat]
  /\ stored \subseteq Payloads
  /\ req \in [Requests -> Locals]
  /\ lost \subseteq Services \X Titles

Raised(key) == \E a \in Ids : Alerting!Exists(a) /\ alerts[a].data.key = key

Logging(s) == \E r \in Requests :
  \/ req[r].pc = "countErrors" /\ req[r].service = s
  \/ req[r].pc = "alerting" /\ <<s, "spike">> \in KeysOf(req[r].jobs)

\* No spike is missed: once the error logs of a service stored by POST /logs
\* reach the threshold and the requests that stored them are through, an
\* alert was raised unless a fault gave it up.  Each request stores its log
\* before it counts, so of any that overlap the last one counts them all.
SpikeRaised ==
  \A s \in Services :
    /\ logged[s] >= ErrorThreshold
    /\ ~Logging(s)
    /\ <<s, "spike">> \notin lost
    => Raised(<<s, "spike">>)

\* A request that raised alerts ends with an alert of each of its keys
\* triggered within the window before it began, whoever inserted it, unless
\* a fault gave it up: no older alert swallows a new one.
RecentlyRaised(r) ==
  \A key \in KeysOf(req[r].jobs) \ lost :
    \E a \in Ids : /\ Alerting!Exists(a)
                   /\ alerts[a].data.key = key
                   /\ alerts[a].triggeredAt >= req[r].since - Window

DetectionComplete ==
  [][\A r \in Requests : Finish(r) => RecentlyRaised(r)]_vars

\* Every alert is about something that is stored, although a batch may be
\* stored in part and its request fail.
AlertJustified ==
  \A a \in Ids : Alerting!Exists(a) =>
    LET p == alerts[a].data
    IN  IF p.key[2] = "spike"
          THEN logged[p.key[1]] + ingested[p.key[1]] >= ErrorThreshold
          ELSE p \in stored

\* The promise of the alert search (alerts.service.spec.ts): an active alert
\* is returned instead of duplicated.
NoActiveDuplicate == Alerting!NoActiveDuplicate
=============================================================================
