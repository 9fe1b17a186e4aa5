-------------------------- MODULE DetectionProofs --------------------------
(***************************************************************************)
(* Theorems about Detection, for any services, requests, batches and       *)
(* thresholds: type correctness, and each of its properties.               *)
(*                                                                         *)
(* The inductive invariant says what each request has done by the await it *)
(* is at.  Of a request that raises alerts it says, call by call, that the *)
(* alert was met: given up by a fault, or raised recently enough.  Once a  *)
(* request is through that is what is known of its alerts.                 *)
(***************************************************************************)
EXTENDS Detection, TLAPS

-----------------------------------------------------------------------------
\* The inductive invariant

Justified(p) ==
  IF p.key[2] = "spike"
    THEN logged[p.key[1]] + ingested[p.key[1]] >= ErrorThreshold
    ELSE p \in stored

RaisedSince(key, since) ==
  \E a \in Ids : /\ Alerting!Exists(a)
                 /\ alerts[a].data.key = key
                 /\ alerts[a].triggeredAt >= since

Met(key, since) == key \in lost \/ RaisedSince(key, since)

\* What a request that does not raise alerts yet has made sure of.
Prepared(local) ==
  /\ local.pc \in {"storeLog", "countErrors", "ingest"} => local.service \in Services
  /\ local.pc = "storeEvent" => \A p \in PayloadsOf(local.jobs) : p.key[2] # "spike"
  /\ local.pc = "ingest" =>
       /\ \A p \in PayloadsOf(local.jobs) :
            \/ p.key[2] = "threshold"
            \/ p = Payload(local.service, "spike") /\ local.errors >= ErrorThreshold
       /\ "logs" \notin local.pending /\ ~local.failed =>
            logged[local.service] + ingested[local.service] >= local.errors
       /\ "metrics" \notin local.pending /\ ~local.failed =>
            Metrics(local.jobs) \subseteq stored

\* The call that raises an alert of a request since some time.
Raising(call, p, since) ==
  /\ Justified(p)
  /\ call.pc # "idle" => call.data = p
  /\ call.pc = "find" => call.at = since
  /\ call.pc = "insert" => call.at >= since
  /\ call.pc = "idle" => Met(p.key, since - Window)

Numbers == 1 .. MaxJobs

Quiet(r) == \A j \in Numbers : calls[<<r, j>>].pc = "idle"

Awaiting(r) ==
  /\ req[r].since <= now
  /\ \A j \in Numbers :
       IF j \in DOMAIN req[r].jobs
         THEN Raising(calls[<<r, j>>], req[r].jobs[j], req[r].since)
         ELSE calls[<<r, j>>].pc = "idle"

Steady(r) ==
  IF req[r].pc = "alerting" THEN Awaiting(r) ELSE Prepared(req[r]) /\ Quiet(r)

Underway == \A r \in Requests : Steady(r)

Inv == TypeOK /\ Underway /\ AlertJustified /\ SpikeRaised

-----------------------------------------------------------------------------
\* Types

LEMMA IdleTypes ==
  /\ <<>> \in Jobs /\ PayloadsOf(<<>>) = {}
  /\ Idle \in Locals /\ Idle.pc = "idle"
  /\ Alerting!Idle \in Alerting!Locals /\ Alerting!Idle.pc = "idle"
<1>1. <<>> \in [1 .. 0 -> Payloads] /\ 0 \in 0 .. MaxJobs
  BY Parameters
<1>2. <<>> \in Jobs
  BY <1>1 DEF Jobs
<1> QED
  BY <1>2, Parameters DEF PayloadsOf, Idle, Locals, Alerting!Idle, Alerting!Locals, Alerting!Times

LEMMA JobTypes ==
  ASSUME NEW jobs \in Jobs
  PROVE  /\ DOMAIN jobs \subseteq Numbers
         /\ \A j \in DOMAIN jobs : jobs[j] \in Payloads
         /\ PayloadsOf(jobs) \subseteq Payloads
         /\ KeysOf(jobs) \subseteq Services \X Titles
<1>1. PICK n \in 0 .. MaxJobs : jobs \in [1 .. n -> Payloads]
  BY DEF Jobs
<1>2. DOMAIN jobs = 1 .. n /\ n \in Nat /\ MaxJobs \in Nat /\ n <= MaxJobs
  BY <1>1, Parameters
<1>3. \A j \in DOMAIN jobs : jobs[j] \in Payloads
  BY <1>1
<1>4. \A p \in Payloads : p.key \in Services \X Titles
  BY DEF Payloads
<1>5. \A j \in DOMAIN jobs : jobs[j].key \in Services \X Titles
  BY <1>3, <1>4
<1>6. DOMAIN jobs \subseteq Numbers
  BY <1>2 DEF Numbers
<1> QED
  BY <1>3, <1>5, <1>6 DEF PayloadsOf, KeysOf

LEMMA OneJob ==
  ASSUME NEW p \in Payloads
  PROVE  /\ <<p>> \in Jobs /\ <<p>> # <<>>
         /\ PayloadsOf(<<p>>) = {p} /\ KeysOf(<<p>>) = {p.key}
<1>1. <<p>> \in [1 .. 1 -> Payloads] /\ 1 \in 0 .. MaxJobs
  BY Parameters
<1>2. DOMAIN <<p>> = {1} /\ <<p>>[1] = p
  OBVIOUS
<1> QED
  BY <1>1, <1>2 DEF Jobs, PayloadsOf, KeysOf

LEMMA PayloadType ==
  ASSUME NEW s \in Services, NEW title \in Titles
  PROVE  /\ Payload(s, title) \in Payloads
         /\ Payload(s, title).key = <<s, title>>
BY DEF Payload, Payloads

LEMMA CallPairs ==
  /\ \A r \in Requests, j \in Numbers : <<r, j>> \in Calls
  /\ \A c \in Calls : c[1] \in Requests /\ c[2] \in Numbers /\ c = <<c[1], c[2]>>
  /\ \A r \in Requests : CallsOf(r) = {<<r, j>> : j \in Numbers}
BY DEF Calls, CallsOf, Numbers

\* What TypeOK says, field by field.
LEMMA Types ==
  ASSUME TypeOK
  PROVE  /\ now \in Nat /\ now \in 0 .. MaxTime /\ MaxTime \in Nat /\ Window \in Nat
         /\ ErrorThreshold \in Nat \ {0}
         /\ alerts \in [Ids -> Alerting!AlertDocs]
         /\ calls \in [Calls -> Alerting!Locals]
         /\ \A c \in Calls : calls[c].at \in Nat
         /\ \A a \in Ids : /\ alerts[a].triggeredAt \in Nat
                           /\ Alerting!Exists(a) => alerts[a].data \in Payloads
         /\ \A c \in Calls : calls[c].pc # "idle" => calls[c].data \in Payloads
         /\ \A s \in Services : logged[s] \in Nat /\ ingested[s] \in Nat
         /\ \A r \in Requests : /\ req[r] \in Locals
                                /\ req[r].jobs \in Jobs
                                /\ req[r].since \in Nat
                                /\ req[r].errors \in Nat
<1>1. MaxTime \in Nat /\ Window \in Nat /\ ErrorThreshold \in Nat \ {0}
  BY Parameters
<1>2. /\ now \in 0 .. MaxTime
      /\ alerts \in [Ids -> Alerting!AlertDocs]
      /\ calls \in [Calls -> Alerting!Locals]
      /\ \A a \in Ids : Alerting!Exists(a) => alerts[a].data \in Payloads
      /\ \A c \in Calls : calls[c].pc # "idle" => calls[c].data \in Payloads
  BY DEF TypeOK, Alerting!TypeOK, Alerting!Times
<1>3. /\ \A c \in Calls : calls[c].at \in 0 .. MaxTime
      /\ \A a \in Ids : alerts[a].triggeredAt \in 0 .. MaxTime
  BY <1>2 DEF Alerting!Locals, Alerting!AlertDocs, Alerting!Times
<1>4. \A r \in Requests : /\ req[r] \in Locals /\ req[r].jobs \in Jobs
                          /\ req[r].since \in 0 .. MaxTime
                          /\ req[r].errors \in 0 .. ErrorThreshold
  BY DEF TypeOK, Locals
<1>5. \A s \in Services : logged[s] \in Nat /\ ingested[s] \in Nat
  BY DEF TypeOK
<1> QED
  BY <1>1, <1>2, <1>3, <1>4, <1>5

-----------------------------------------------------------------------------
\* What lasts

\* No step turns back the clock, takes anything out of the collections, or
\* changes an alert but in its status.
Grows ==
  /\ now <= now'
  /\ lost \subseteq lost'
  /\ stored \subseteq stored'
  /\ \A s \in Services : /\ logged[s] <= logged'[s]
                         /\ ingested[s] <= ingested'[s]
  /\ \A a \in Ids : Alerting!Exists(a) =>
       /\ Alerting!Exists(a)'
       /\ alerts'[a].data = alerts[a].data
       /\ alerts'[a].triggeredAt = alerts[a].triggeredAt

LEMMA CountsGrow ==
  ASSUME TypeOK, TypeOK', Grows, NEW s \in Services
  PROVE  /\ logged[s] + ingested[s] \in Nat
         /\ logged'[s] + ingested'[s] \in Nat
         /\ logged[s] + ingested[s] <= logged'[s] + ingested'[s]
<1>1. /\ logged[s] \in Nat /\ ingested[s] \in Nat
      /\ logged'[s] \in Nat /\ ingested'[s] \in Nat
  BY DEF TypeOK
<1> QED
  BY <1>1 DEF Grows

LEMMA JustifiedLasts ==
  ASSUME TypeOK, TypeOK', Grows, NEW p \in Payloads, Justified(p)
  PROVE  Justified(p)'
<1>1. p.key[1] \in Services
  BY DEF Payloads
<1>2. CASE p.key[2] = "spike"
  BY <1>1, <1>2, CountsGrow, Parameters DEF Justified
<1>3. CASE p.key[2] # "spike"
  BY <1>3 DEF Justified, Grows
<1> QED
  BY <1>2, <1>3

LEMMA MetLasts ==
  ASSUME Grows, NEW key, NEW since, Met(key, since)
  PROVE  Met(key, since)'
BY DEF Grows, Met, RaisedSince

LEMMA PreparedLasts ==
  ASSUME TypeOK, TypeOK', Grows, NEW local \in Locals, Prepared(local)
  PROVE  Prepared(local)'
<1>1. ASSUME local.pc = "ingest", "logs" \notin local.pending, ~local.failed
      PROVE  logged'[local.service] + ingested'[local.service] >= local.errors
  <2>1. /\ local.service \in Services
        /\ logged[local.service] + ingested[local.service] >= local.errors
        /\ local.errors \in Nat
    BY <1>1, Parameters DEF Prepared, Locals
  <2> QED
    BY <2>1, CountsGrow
<1> QED
  BY <1>1 DEF Prepared, Grows

\* What a step of one request leaves of the others.
LEMMA OthersSteady ==
  ASSUME Inv, Grows, TypeOK', NEW q \in Requests, req'[q] = req[q],
         \A j \in Numbers : calls'[<<q, j>>] = calls[<<q, j>>]
  PROVE  Steady(q)'
<1>1. Steady(q) /\ TypeOK
  BY DEF Inv, Underway
<1>2. CASE req[q].pc = "alerting"
  <2>1. req[q].since <= now'
    <3>1. now \in Nat /\ now' \in Nat /\ req[q].since \in Nat
      BY <1>1, Types DEF TypeOK, Alerting!TypeOK, Alerting!Times
    <3> QED
      BY <1>1, <1>2, <3>1 DEF Steady, Awaiting, Grows
  <2>2. ASSUME NEW j \in Numbers, j \in DOMAIN req[q].jobs
        PROVE  Raising(calls[<<q, j>>], req[q].jobs[j], req[q].since)'
    <3>1. req[q].jobs[j] \in Payloads
      BY <1>1, <2>2, Types, JobTypes
    <3>2. Raising(calls[<<q, j>>], req[q].jobs[j], req[q].since)
      BY <1>1, <1>2, <2>2 DEF Steady, Awaiting
    <3> DEFINE call == calls[<<q, j>>]
               p == req[q].jobs[j]
               since == req[q].since
    <3>3. call' = call /\ p' = p /\ since' = since
      OBVIOUS
    <3>4. /\ Justified(p)' /\ (Met(p.key, since - Window) => Met(p.key, since - Window)')
      BY <1>1, <3>1, <3>2, <3>3, JustifiedLasts, MetLasts DEF Raising
    <3> QED
      BY <3>2, <3>3, <3>4 DEF Raising
  <2>3. Awaiting(q)'
    BY <1>1, <1>2, <2>1, <2>2 DEF Steady, Awaiting
  <2> QED
    BY <1>2, <2>3 DEF Steady
<1>3. CASE req[q].pc # "alerting"
  <2>1. Prepared(req[q])'
    BY <1>1, <1>3, Types, PreparedLasts DEF Steady, Prepared
  <2> QED
    BY <1>1, <1>3, <2>1 DEF Steady, Quiet
<1> QED
  BY <1>2, <1>3

LoggingBy(r, s) ==
  \/ req[r].pc = "countErrors" /\ req[r].service = s
  \/ req[r].pc = "alerting" /\ <<s, "spike">> \in KeysOf(req[r].jobs)

\* A request may only leave off a spike once that is met.
Leaves(r) ==
  \A s \in Services :
    /\ LoggingBy(r, s) \/ logged'[s] # logged[s]
    /\ logged'[s] >= ErrorThreshold
    => LoggingBy(r, s)' \/ <<s, "spike">> \in lost' \/ Raised(<<s, "spike">>)'

LEMMA SpikesLast ==
  ASSUME Inv, Grows, NEW r \in Requests, Leaves(r),
         \A q \in Requests : q # r => req'[q] = req[q]
  PROVE  SpikeRaised'
<1> SUFFICES ASSUME NEW s \in Services, logged'[s] >= ErrorThreshold,
                    ~Logging(s)', <<s, "spike">> \notin lost'
             PROVE  Raised(<<s, "spike">>)'
  BY DEF SpikeRaised
<1>1. Raised(<<s, "spike">>) => Raised(<<s, "spike">>)'
  BY DEF Grows, Raised
<1>2. ~LoggingBy(r, s)'
  BY DEF Logging, LoggingBy
<1>3. CASE LoggingBy(r, s) \/ logged'[s] # logged[s]
  BY <1>2, <1>3 DEF Leaves
<1>4. CASE ~LoggingBy(r, s) /\ logged'[s] = logged[s]
  <2>1. ~Logging(s)
    BY <1>4 DEF Logging, LoggingBy
  <2>2. <<s, "spike">> \notin lost
    BY DEF Grows
  <2> QED
    BY <1>1, <1>4, <2>1, <2>2 DEF Inv, SpikeRaised
<1> QED
  BY <1>3, <1>4

\* A step that raises no alert.
LEMMA NoNewAlert ==
  ASSUME Inv, Grows, TypeOK', \A a \in Ids : Alerting!Exists(a)' => Alerting!Exists(a)
  PROVE  AlertJustified'
<1> SUFFICES ASSUME NEW a \in Ids, Alerting!Exists(a)' PROVE Justified(alerts[a].data)'
  BY DEF AlertJustified, Justified
<1>1. Alerting!Exists(a) /\ alerts'[a].data = alerts[a].data
  BY DEF Grows
<1>2. Justified(alerts[a].data) /\ alerts[a].data \in Payloads
  BY <1>1, Types DEF Inv, AlertJustified, Justified
<1>3. \A p \in Payloads : Justified(p) => Justified(p)'
  BY JustifiedLasts DEF Inv
<1> QED
  BY <1>1, <1>2, <1>3 DEF Justified

\* What is left to show of a step of request r that raises no alert.
LEMMA StepOfOne ==
  ASSUME Inv, Grows, TypeOK', NEW r \in Requests, Steady(r)', Leaves(r),
         \A q \in Requests : q # r => req'[q] = req[q],
         \A q \in Requests, j \in Numbers : q # r => calls'[<<q, j>>] = calls[<<q, j>>],
         \A a \in Ids : Alerting!Exists(a)' => Alerting!Exists(a)
  PROVE  Inv'
<1>1. Underway'
  BY OthersSteady DEF Underway
<1> QED
  BY <1>1, SpikesLast, NoNewAlert DEF Inv

-----------------------------------------------------------------------------
\* Raising alerts

Raises(r, jobs) ==
  /\ req'[r].pc = "alerting" /\ req'[r].jobs = jobs /\ req'[r].since = now
  /\ \A j \in Numbers :
       IF j \in DOMAIN jobs
         THEN calls'[<<r, j>>] = [pc |-> "find", data |-> jobs[j], at |-> now]
         ELSE calls'[<<r, j>>].pc = "idle"

LEMMA EmitEffect ==
  ASSUME TypeOK, NEW r \in Requests, Quiet(r), NEW jobs \in Jobs, Emit(r, jobs)
  PROVE  /\ now' = now /\ alerts' = alerts
         /\ req' \in [Requests -> Locals]
         /\ \A q \in Requests : q # r => req'[q] = req[q]
         /\ Alerting!TypeOK'
         /\ \A q \in Requests, j \in Numbers : q # r => calls'[<<q, j>>] = calls[<<q, j>>]
         /\ \/ jobs = <<>> /\ req'[r] = Idle /\ calls' = calls
            \/ Raises(r, jobs)
<1>1. CASE jobs = <<>>
  <2>1. /\ req' = [req EXCEPT ![r] = Idle] /\ UNCHANGED <<now, alerts, calls>>
    BY <1>1 DEF Emit, GoTo
  <2> QED
    BY <1>1, <2>1, IdleTypes DEF TypeOK, Alerting!TypeOK, Alerting!Exists
<1>2. CASE jobs # <<>>
  <2> DEFINE C == {<<r, j>> : j \in DOMAIN jobs}
             started == [c \in C |-> jobs[c[2]]]
             local == [Idle EXCEPT !.pc = "alerting", !.jobs = jobs, !.since = now]
  <2>1. /\ now' = now /\ alerts' = alerts
        /\ calls' = [c \in Calls |-> IF c \in C
                        THEN [pc |-> "find", data |-> jobs[c[2]], at |-> now]
                        ELSE calls[c]]
        /\ req' = [req EXCEPT ![r] = local]
    BY <1>2 DEF Emit, GoTo, Alerting!CreateSafely, Alerting!Started
  <2>2. /\ DOMAIN jobs \subseteq Numbers
        /\ \A j \in DOMAIN jobs : jobs[j] \in Payloads
    BY JobTypes
  <2>3. /\ \A j \in Numbers : <<r, j>> \in C <=> j \in DOMAIN jobs
        /\ \A q \in Requests, j \in Numbers : q # r => <<q, j>> \notin C
        /\ \A c \in C : c[2] \in DOMAIN jobs
    OBVIOUS
  <2>4. /\ local \in Locals /\ local.pc = "alerting" /\ local.jobs = jobs
        /\ local.since = now
    BY Types, IdleTypes DEF Locals, Idle
  <2>5. /\ req' \in [Requests -> Locals] /\ req'[r] = local
        /\ \A q \in Requests : q # r => req'[q] = req[q]
    BY <2>1, <2>4 DEF TypeOK
  <2>6. \A j \in Numbers :
          IF j \in DOMAIN jobs
            THEN calls'[<<r, j>>] = [pc |-> "find", data |-> jobs[j], at |-> now]
            ELSE calls'[<<r, j>>].pc = "idle"
    BY <2>1, <2>3, CallPairs DEF Quiet
  <2>7. \A q \in Requests, j \in Numbers : q # r => calls'[<<q, j>>] = calls[<<q, j>>]
    BY <2>1, <2>3, CallPairs
  <2>8. \A c \in C : /\ jobs[c[2]] \in Payloads
                     /\ [pc |-> "find", data |-> jobs[c[2]], at |-> now] \in Alerting!Locals
    BY <2>2, <2>3, Types DEF Alerting!Locals, Alerting!Times
  <2>9. /\ calls' \in [Calls -> Alerting!Locals]
        /\ \A c \in Calls : calls'[c].pc # "idle" => calls'[c].data \in Payloads
    BY <2>1, <2>8, Types
  <2>10. Alerting!TypeOK'
    BY <2>1, <2>9 DEF TypeOK, Alerting!TypeOK, Alerting!Exists
  <2> HIDE DEF local
  <2> QED
    BY <2>1, <2>4, <2>5, <2>6, <2>7, <2>10 DEF Raises
<1> QED
  BY <1>1, <1>2

\* A request that raises alerts about what is stored is steady.
LEMMA EmitSteady ==
  ASSUME TypeOK, NEW r \in Requests, Quiet(r), NEW jobs \in Jobs, Emit(r, jobs),
         \A p \in PayloadsOf(jobs) : Justified(p)'
  PROVE  Steady(r)'
<1>1. /\ now' = now /\ now \in Nat
      /\ \/ jobs = <<>> /\ req'[r] = Idle /\ calls' = calls
         \/ Raises(r, jobs)
  BY EmitEffect, Types
<1>2. CASE req'[r] = Idle /\ calls' = calls
  BY <1>2, IdleTypes DEF Steady, Prepared, Quiet
<1>3. CASE Raises(r, jobs)
  <2>1. req'[r].pc = "alerting" /\ req'[r].jobs = jobs /\ req'[r].since = now
    BY <1>3 DEF Raises
  <2>2. ASSUME NEW j \in Numbers, j \in DOMAIN jobs
        PROVE  Raising(calls[<<r, j>>], req[r].jobs[j], req[r].since)'
    <3>1. /\ calls'[<<r, j>>] = [pc |-> "find", data |-> jobs[j], at |-> now]
          /\ req'[r].jobs[j] = jobs[j]
      BY <1>3, <2>1, <2>2 DEF Raises
    <3>2. Justified(jobs[j])' /\ jobs' = jobs
      BY <2>2 DEF PayloadsOf
    <3> QED
      BY <2>1, <3>1, <3>2 DEF Raising, Justified
  <2>3. \A j \in Numbers : j \notin DOMAIN jobs => calls'[<<r, j>>].pc = "idle"
    BY <1>3 DEF Raises
  <2> QED
    BY <1>1, <2>1, <2>2, <2>3 DEF Steady, Awaiting
<1> QED
  BY <1>1, <1>2, <1>3

-----------------------------------------------------------------------------
\* Requests on their own

\* A step that stores documents, or gives alerts up.
Stores ==
  /\ logged' \in [Services -> Nat] /\ ingested' \in [Services -> Nat]
  /\ \A s \in Services : logged[s] <= logged'[s] /\ ingested[s] <= ingested'[s]
  /\ stored \subseteq stored' /\ stored' \subseteq Payloads
  /\ lost \subseteq lost' /\ lost' \subseteq Services \X Titles

LEMMA StoresNothing ==
  ASSUME TypeOK, UNCHANGED <<events, lost>>
  PROVE  Stores
BY Types DEF TypeOK, Stores, events

LEMMA QuietStep ==
  ASSUME Inv, NEW r \in Requests, req[r].pc # "alerting", Stores, Leaves(r),
         NEW local \in Locals, local.pc # "alerting", Prepared(local)',
         GoTo(r, local), UNCHANGED <<now, alerts, calls>>
  PROVE  Inv'
<1>1. /\ req' \in [Requests -> Locals] /\ req'[r] = local
      /\ \A q \in Requests : q # r => req'[q] = req[q]
  BY DEF Inv, TypeOK, GoTo
<1>2. TypeOK'
  BY <1>1 DEF Inv, TypeOK, Stores, Alerting!TypeOK, Alerting!Exists
<1>3. Grows
  BY Types DEF Inv, Grows, Stores, Alerting!Exists
<1>4. Quiet(r)
  BY DEF Inv, Underway, Steady
<1>5. Steady(r)'
  BY <1>1, <1>4 DEF Steady, Prepared, Quiet
<1> QED
  BY <1>1, <1>2, <1>3, <1>5, StepOfOne DEF Alerting!Exists

LEMMA EmitStep ==
  ASSUME Inv, NEW r \in Requests, req[r].pc # "alerting", Stores, Leaves(r),
         NEW jobs \in Jobs, Emit(r, jobs), \A p \in PayloadsOf(jobs) : Justified(p)'
  PROVE  Inv'
<1>1. TypeOK /\ Quiet(r)
  BY DEF Inv, Underway, Steady
<1>2. /\ now' = now /\ alerts' = alerts /\ req' \in [Requests -> Locals]
      /\ \A q \in Requests : q # r => req'[q] = req[q]
      /\ Alerting!TypeOK'
      /\ \A q \in Requests, j \in Numbers : q # r => calls'[<<q, j>>] = calls[<<q, j>>]
  BY <1>1, EmitEffect
<1>3. TypeOK'
  BY <1>2 DEF TypeOK, Stores
<1>4. Grows
  BY <1>1, <1>2, Types DEF Grows, Stores, Alerting!Exists
<1>5. Steady(r)'
  BY <1>1, EmitSteady
<1> QED
  BY <1>2, <1>3, <1>4, <1>5, StepOfOne DEF Alerting!Exists

LEMMA ArriveStep ==
  ASSUME Inv, NEW r \in Requests, NEW local \in Locals, Arrive(r, local),
         local.pc # "alerting", Prepared(local)
  PROVE  Inv'
<1>1. /\ req[r].pc = "idle" /\ GoTo(r, local) /\ UNCHANGED <<now, alerts, calls>>
      /\ UNCHANGED <<logged, ingested, stored, lost>>
  BY DEF Arrive, events
<1>2. Stores
  BY <1>1, StoresNothing DEF Inv, events
<1>3. Leaves(r)
  BY <1>1 DEF Leaves, LoggingBy
<1>4. Prepared(local)'
  BY <1>1 DEF Prepared
<1> QED
  BY <1>1, <1>2, <1>3, <1>4, QuietStep

LEMMA LogStep ==
  ASSUME Inv, NEW r \in Requests, NEW s \in Services, Log(r, s)
  PROVE  Inv'
<1> DEFINE local == [Idle EXCEPT !.pc = "storeLog", !.service = s, !.errors = 1]
<1>0. 1 \in 0 .. ErrorThreshold
  BY Parameters
<1>1. local \in Locals /\ local.pc = "storeLog" /\ local.service = s
  BY <1>0, IdleTypes DEF Locals, Idle
<1> HIDE DEF local
<1>2. Prepared(local)
  BY <1>1 DEF Prepared
<1> QED
  BY <1>1, <1>2, ArriveStep DEF Log, local

LEMMA RecordStep ==
  ASSUME Inv, NEW r \in Requests, NEW s \in Services,
         NEW title \in {"threshold", "anomaly"}, Record(r, s, title)
  PROVE  Inv'
<1> DEFINE p == Payload(s, title)
           local == [Idle EXCEPT !.pc = "storeEvent", !.jobs = <<p>>]
<1>1. p \in Payloads /\ p.key = <<s, title>>
  BY PayloadType DEF Titles
<1>2. local \in Locals /\ local.pc = "storeEvent" /\ local.jobs = <<p>>
  BY <1>1, OneJob, IdleTypes DEF Locals, Idle
<1> HIDE DEF local
<1>3. Prepared(local)
  BY <1>1, <1>2, OneJob DEF Prepared
<1> QED
  BY <1>2, <1>3, ArriveStep DEF Record, local

LEMMA IncidentStep ==
  ASSUME Inv, NEW r \in Requests, NEW i \in Incidents, NEW n \in 1 .. MaxJobs,
         NEW services \in [1 .. n -> Services], Incident(r, i, services)
  PROVE  Inv'
<1> DEFINE jobs == [j \in DOMAIN services |-> IncidentPayload(services[j], i)]
           local == [Idle EXCEPT !.pc = "storeEvent", !.jobs = jobs]
<1>1. jobs \in [1 .. n -> Payloads] /\ n \in 0 .. MaxJobs
  BY Parameters DEF IncidentPayload, Payloads, Titles
<1>2. \A p \in PayloadsOf(jobs) : p.key[2] = "incident"
  BY DEF PayloadsOf, IncidentPayload
<1> HIDE DEF jobs
<1>3. jobs \in Jobs
  BY <1>1 DEF Jobs
<1>4. local \in Locals /\ local.pc = "storeEvent" /\ local.jobs = jobs
  BY <1>3, IdleTypes DEF Locals, Idle
<1>5. Prepared(local)
  <2> HIDE DEF local
  <2> QED
    BY <1>2, <1>4 DEF Prepared
<1> QED
  BY <1>4, <1>5, ArriveStep DEF Incident, jobs

LEMMA BatchJobsAre ==
  ASSUME NEW s \in Services, NEW batch \in Batches, Len(BatchJobs(s, batch)) <= MaxJobs
  PROVE  /\ BatchJobs(s, batch) \in Jobs
         /\ \A p \in PayloadsOf(BatchJobs(s, batch)) :
              \/ p = Payload(s, "threshold") /\ batch.metrics > 0
              \/ p = Payload(s, "spike") /\ batch.errors >= ErrorThreshold
<1> DEFINE m == batch.metrics
           p == Payload(s, "threshold")
           q == Payload(s, "spike")
           metrics == [j \in 1 .. m |-> p]
           spike == IF batch.errors >= ErrorThreshold THEN <<q>> ELSE <<>>
           jobs == metrics \o spike
<1>1. p \in Payloads /\ q \in Payloads
  BY PayloadType DEF Titles
<1>2. m \in Nat
  BY Parameters DEF Batches
<1> HIDE DEF p, q, m
<1>3. metrics \in Seq(Payloads) /\ Len(metrics) = m
  BY <1>1, <1>2
<1>4. /\ spike \in Seq(Payloads) /\ Len(spike) \in Nat
      /\ \A j \in 1 .. Len(spike) : spike[j] = q /\ batch.errors >= ErrorThreshold
  BY <1>1
<1>5. /\ jobs \in Seq(Payloads) /\ DOMAIN jobs = 1 .. Len(jobs)
      /\ Len(jobs) \in Nat /\ Len(jobs) = m + Len(spike)
      /\ \A j \in 1 .. Len(jobs) :
           jobs[j] = IF j <= m THEN metrics[j] ELSE spike[j - m]
  <2> HIDE DEF metrics, spike
  <2> QED
    BY <1>2, <1>3, <1>4
<1>6. jobs = BatchJobs(s, batch)
  BY DEF BatchJobs, p, q, m
<1> HIDE DEF jobs
<1>7. jobs \in [1 .. Len(jobs) -> Payloads] /\ Len(jobs) \in 0 .. MaxJobs
  BY <1>5, <1>6, Parameters
<1>8. ASSUME NEW j \in DOMAIN jobs
      PROVE  \/ jobs[j] = p /\ m > 0
             \/ jobs[j] = q /\ batch.errors >= ErrorThreshold
  <2>1. CASE j <= m
    <3>1. j \in 1 .. m /\ m > 0
      BY <1>2, <1>5, <1>8, <2>1
    <3> QED
      BY <1>5, <1>8, <2>1, <3>1
  <2>2. CASE ~(j <= m)
    <3>1. j - m \in 1 .. Len(spike)
      BY <1>2, <1>4, <1>5, <1>8, <2>2
    <3> QED
      BY <1>4, <1>5, <1>8, <2>2, <3>1
  <2> QED
    BY <2>1, <2>2
<1>9. jobs \in Jobs
  BY <1>7 DEF Jobs
<1> QED
  BY <1>6, <1>8, <1>9 DEF PayloadsOf, p, q, m

LEMMA IngestStep ==
  ASSUME Inv, NEW r \in Requests, NEW s \in Services, NEW batch \in Batches,
         Ingest(r, s, batch)
  PROVE  Inv'
<1> DEFINE jobs == BatchJobs(s, batch)
           pending == (IF batch.errors > 0 THEN {"logs"} ELSE {})
                        \cup (IF batch.metrics > 0 THEN {"metrics"} ELSE {})
           local == [Idle EXCEPT !.pc = "ingest", !.service = s, !.errors = batch.errors,
                                 !.jobs = jobs, !.pending = pending]
<1>1. /\ Len(jobs) <= MaxJobs /\ Arrive(r, local)
  BY DEF Ingest
<1>2. /\ jobs \in Jobs
      /\ \A p \in PayloadsOf(jobs) :
           \/ p = Payload(s, "threshold") /\ batch.metrics > 0
           \/ p = Payload(s, "spike") /\ batch.errors >= ErrorThreshold
  BY <1>1, BatchJobsAre
<1>3. batch.errors \in 0 .. ErrorThreshold /\ batch.errors \in Nat /\ batch.metrics \in Nat
  BY Parameters DEF Batches
<1> HIDE DEF jobs
<1>4. pending \subseteq {"logs", "metrics"}
  OBVIOUS
<1>5. /\ "logs" \notin pending => batch.errors = 0
      /\ "metrics" \notin pending => batch.metrics = 0
  BY <1>3
<1> HIDE DEF pending
<1>6. /\ local \in Locals /\ local.pc = "ingest" /\ local.service = s
      /\ local.errors = batch.errors /\ local.jobs = jobs /\ local.pending = pending
  BY <1>2, <1>3, <1>4, IdleTypes DEF Locals, Idle
<1> HIDE DEF local
<1>7. Payload(s, "threshold").key = <<s, "threshold">> /\ Payload(s, "spike").key = <<s, "spike">>
  BY DEF Payload
<1>8. \A p \in PayloadsOf(jobs) :
        \/ p.key[2] = "threshold" /\ batch.metrics > 0
        \/ p = Payload(s, "spike") /\ batch.errors >= ErrorThreshold
  BY <1>2, <1>7
<1>9. batch.metrics = 0 => Metrics(jobs) = {}
  BY <1>7, <1>8 DEF Metrics
<1>10. logged[s] + ingested[s] >= 0
  BY Types DEF Inv
<1>11. Prepared(local)
  BY <1>5, <1>6, <1>8, <1>9, <1>10 DEF Prepared
<1> QED
  BY <1>1, <1>6, <1>11, ArriveStep

LEMMA StoreLogStep ==
  ASSUME Inv, NEW r \in Requests, StoreLog(r)
  PROVE  Inv'
<1> DEFINE s == req[r].service
           local == [req[r] EXCEPT !.pc = "countErrors"]
<1>1. /\ req[r].pc = "storeLog" /\ req[r] \in Locals /\ s \in Services
      /\ logged' = [logged EXCEPT ![s] = @ + 1] /\ GoTo(r, local)
      /\ UNCHANGED <<now, alerts, calls, ingested, stored, lost>>
  BY DEF StoreLog, Inv, TypeOK, Underway, Steady, Prepared
<1>2. local \in Locals /\ local.pc = "countErrors" /\ local.service = s
  BY <1>1 DEF Locals
<1> HIDE DEF local
<1>3. Stores
  BY <1>1, Types DEF Stores, Inv, TypeOK
<1>4. \A z \in Services : z # s => logged'[z] = logged[z]
  BY <1>1 DEF Inv, TypeOK
<1>5. req'[r] = local
  BY <1>1 DEF GoTo, Inv, TypeOK
<1>6. Leaves(r)
  BY <1>1, <1>2, <1>4, <1>5 DEF Leaves, LoggingBy
<1>7. Prepared(req[r])'
  BY <1>1, <1>2, <1>5 DEF Prepared
<1>8. \A l : l = local => Prepared(l)'
  BY <1>5, <1>7 DEF Prepared
<1>9. Inv /\ req[r].pc # "alerting" /\ local.pc # "alerting"
  BY <1>1, <1>2
<1> QED
  BY <1>1, <1>2, <1>3, <1>6, <1>8, <1>9, QuietStep

LEMMA CountErrorsStep ==
  ASSUME Inv, NEW r \in Requests, CountErrors(r)
  PROVE  Inv'
<1> DEFINE s == req[r].service
           enough == logged[s] + ingested[s] >= ErrorThreshold
<1>1. /\ req[r].pc = "countErrors" /\ s \in Services /\ TypeOK /\ Quiet(r)
      /\ Emit(r, IF enough THEN <<Payload(s, "spike")>> ELSE <<>>)
      /\ UNCHANGED <<logged, ingested, stored, lost>>
  BY DEF CountErrors, Inv, Underway, Steady, Prepared, events
<1>2. Stores
  BY <1>1, StoresNothing DEF events
<1>3. /\ logged[s] \in Nat /\ ingested[s] \in Nat /\ ErrorThreshold \in Nat
  BY <1>1, Types
<1>4. CASE enough
  <2>1. PICK p \in Payloads : p = Payload(s, "spike") /\ p.key = <<s, "spike">>
    BY <1>1, PayloadType DEF Titles
  <2>2. /\ <<p>> \in Jobs /\ <<p>> # <<>>
        /\ PayloadsOf(<<p>>) = {p} /\ KeysOf(<<p>>) = {<<s, "spike">>}
    BY <2>1, OneJob
  <2>3. Emit(r, <<p>>)
    BY <1>1, <1>4, <2>1
  <2>4. Justified(p)'
    BY <1>1, <1>4, <2>1 DEF Justified
  <2>5. Raises(r, <<p>>)
    BY <1>1, <2>2, <2>3, EmitEffect
  <2>6. Leaves(r)
    BY <1>1, <2>2, <2>5 DEF Leaves, LoggingBy, Raises
  <2>7. \A z \in PayloadsOf(<<p>>) : Justified(z)'
    BY <2>2, <2>4
  <2> QED
    BY <1>1, <1>2, <2>2, <2>3, <2>6, <2>7, EmitStep
<1>5. CASE ~enough
  <2>1. Emit(r, <<>>)
    BY <1>1, <1>5
  <2>2. ~(logged[s] >= ErrorThreshold)
    BY <1>3, <1>5
  <2>3. Leaves(r)
    BY <1>1, <2>2 DEF Leaves, LoggingBy
  <2>4. \A z \in PayloadsOf(<<>>) : Justified(z)'
    BY IdleTypes
  <2> QED
    BY <1>1, <1>2, <2>1, <2>3, <2>4, EmitStep, IdleTypes
<1> QED
  BY <1>4, <1>5

LEMMA StoreEventStep ==
  ASSUME Inv, NEW r \in Requests, StoreEvent(r)
  PROVE  Inv'
<1> DEFINE jobs == req[r].jobs
<1>1. /\ req[r].pc = "storeEvent" /\ Emit(r, jobs) /\ jobs \in Jobs /\ TypeOK
      /\ stored' = stored \cup PayloadsOf(jobs)
      /\ UNCHANGED <<logged, ingested, lost>>
      /\ \A p \in PayloadsOf(jobs) : p.key[2] # "spike"
  BY Types DEF StoreEvent, Inv, Underway, Steady, Prepared
<1>2. Stores
  BY <1>1, JobTypes, Types DEF Stores, TypeOK
<1>3. Leaves(r)
  BY <1>1 DEF Leaves, LoggingBy
<1>4. ASSUME NEW p \in PayloadsOf(jobs) PROVE Justified(p)'
  BY <1>1, <1>4 DEF Justified
<1> HIDE DEF jobs
<1> QED
  BY <1>1, <1>2, <1>3, <1>4, EmitStep

LEMMA StoredPartEffect ==
  ASSUME TypeOK, NEW r \in Requests, req[r].service \in Services,
         NEW part \in {"logs", "metrics"}, NEW whole \in BOOLEAN,
         StoredPart(r, part, whole), lost \subseteq lost', lost' \subseteq Services \X Titles
  PROVE  /\ Stores /\ logged' = logged
         /\ part = "logs" /\ whole =>
              logged'[req[r].service] + ingested'[req[r].service] >= req[r].errors
         /\ part = "metrics" /\ whole => Metrics(req[r].jobs) \subseteq stored'
<1> DEFINE s == req[r].service
<1>1. /\ logged[s] \in Nat /\ ingested[s] \in Nat /\ req[r].errors \in Nat
      /\ PayloadsOf(req[r].jobs) \subseteq Payloads
  BY Types, JobTypes
<1>2. CASE part = "logs"
  <2>1. PICK n \in 0 .. req[r].errors :
          /\ whole <=> n = req[r].errors
          /\ ingested' = [ingested EXCEPT ![s] = @ + n]
          /\ UNCHANGED <<logged, stored>>
    BY <1>2 DEF StoredPart
  <2>2. /\ ingested' \in [Services -> Nat] /\ ingested'[s] = ingested[s] + n
        /\ \A z \in Services : ingested[z] <= ingested'[z]
    BY <1>1, <2>1, Types DEF TypeOK
  <2>3. Stores
    BY <2>1, <2>2, Types DEF Stores, TypeOK
  <2> QED
    BY <1>1, <1>2, <2>1, <2>2, <2>3
<1>3. CASE part = "metrics"
  <2>1. /\ UNCHANGED <<logged, ingested>>
        /\ \/ stored' = stored \cup Metrics(req[r].jobs)
           \/ ~whole /\ stored' = stored
    BY <1>3 DEF StoredPart
  <2>2. Stores
    BY <1>1, <2>1, Types DEF Stores, TypeOK, Metrics
  <2> QED
    BY <1>3, <2>1, <2>2
<1> QED
  BY <1>2, <1>3

LEMMA StoreBatchStep ==
  ASSUME Inv, NEW r \in Requests, NEW part \in {"logs", "metrics"}, StoreBatch(r, part)
  PROVE  Inv'
<1> DEFINE l == req[r]
           s == l.service
           rest == l.pending \ {part}
<1>1. PICK whole \in BOOLEAN :
        /\ StoredPart(r, part, whole)
        /\ \/ /\ rest # {}
              /\ GoTo(r, [l EXCEPT !.pending = rest, !.failed = l.failed \/ ~whole])
              /\ UNCHANGED <<now, alerts, calls, lost>>
           \/ /\ rest = {} /\ (l.failed \/ ~whole)
              /\ GoTo(r, Idle)
              /\ lost' = lost \cup KeysOf(l.jobs)
              /\ UNCHANGED <<now, alerts, calls>>
           \/ /\ rest = {} /\ ~(l.failed \/ ~whole)
              /\ Emit(r, l.jobs)
              /\ UNCHANGED lost
  BY DEF StoreBatch
<1>2. /\ l.pc = "ingest" /\ part \in l.pending /\ l \in Locals /\ l.jobs \in Jobs
      /\ s \in Services /\ Prepared(l) /\ TypeOK /\ l.errors \in Nat
  BY Types DEF StoreBatch, Inv, Underway, Steady, Prepared
<1>3. l.pending \subseteq {"logs", "metrics"} /\ l.failed \in BOOLEAN
  BY <1>2 DEF Locals
<1>4. lost \subseteq lost' /\ lost' \subseteq Services \X Titles
  BY <1>1, <1>2, JobTypes DEF TypeOK
<1>5. /\ Stores /\ logged' = logged
      /\ part = "logs" /\ whole => logged'[s] + ingested'[s] >= l.errors
      /\ part = "metrics" /\ whole => Metrics(l.jobs) \subseteq stored'
  BY <1>1, <1>2, <1>4, StoredPartEffect
<1>6. Leaves(r)
  BY <1>2, <1>5 DEF Leaves, LoggingBy
<1>7. /\ "logs" \notin rest /\ ~(l.failed \/ ~whole) =>
           logged'[s] + ingested'[s] >= l.errors
      /\ "metrics" \notin rest /\ ~(l.failed \/ ~whole) =>
           Metrics(l.jobs) \subseteq stored'
  <2>1. /\ part # "logs" /\ "logs" \notin rest => "logs" \notin l.pending
        /\ part # "metrics" /\ "metrics" \notin rest => "metrics" \notin l.pending
    OBVIOUS
  <2>2. /\ logged[s] \in Nat /\ ingested[s] \in Nat
        /\ logged'[s] \in Nat /\ ingested'[s] \in Nat
        /\ logged[s] <= logged'[s] /\ ingested[s] <= ingested'[s]
        /\ stored \subseteq stored'
    BY <1>2, <1>5, Types DEF Stores
  <2>3. /\ "logs" \notin l.pending /\ ~l.failed => logged[s] + ingested[s] >= l.errors
        /\ "metrics" \notin l.pending /\ ~l.failed => Metrics(l.jobs) \subseteq stored
    BY <1>2 DEF Prepared
  <2>4. "logs" \notin l.pending /\ ~l.failed => logged'[s] + ingested'[s] >= l.errors
    BY <1>2, <2>2, <2>3
  <2> QED
    BY <1>5, <2>1, <2>2, <2>3, <2>4
<1>8. CASE rest # {}
  <2> DEFINE local == [l EXCEPT !.pending = rest, !.failed = l.failed \/ ~whole]
  <2>1. GoTo(r, local) /\ UNCHANGED <<now, alerts, calls, lost>>
    BY <1>1, <1>8
  <2>2. /\ local \in Locals /\ local.pc = "ingest" /\ local.service = s
        /\ local.pending = rest /\ local.failed = (l.failed \/ ~whole)
        /\ local.jobs = l.jobs /\ local.errors = l.errors
    BY <1>2, <1>3 DEF Locals
  <2> HIDE DEF local
  <2>3. req'[r] = local
    BY <2>1 DEF GoTo, Inv, TypeOK
  <2>4. ASSUME NEW k, k = local PROVE Prepared(k)'
    BY <1>2, <1>7, <2>2, <2>4 DEF Prepared
  <2>5. req[r].pc # "alerting" /\ local.pc # "alerting"
    BY <1>2, <2>2
  <2> QED
    BY <1>5, <1>6, <2>1, <2>2, <2>4, <2>5, QuietStep
<1>9. CASE rest = {} /\ (l.failed \/ ~whole)
  <2>1. GoTo(r, Idle) /\ UNCHANGED <<now, alerts, calls>>
    BY <1>1, <1>9
  <2>2. Prepared(Idle)'
    BY IdleTypes DEF Prepared
  <2> QED
    BY <1>2, <1>5, <1>6, <2>1, <2>2, IdleTypes, QuietStep
<1>10. CASE rest = {} /\ ~(l.failed \/ ~whole)
  <2>1. Emit(r, l.jobs)
    BY <1>1, <1>10
  <2>2. /\ logged'[s] + ingested'[s] >= l.errors
        /\ Metrics(l.jobs) \subseteq stored'
    BY <1>7, <1>10
  <2>3. /\ logged'[s] \in Nat /\ ingested'[s] \in Nat /\ ErrorThreshold \in Nat
    BY <1>2, <1>5, Types DEF Stores
  <2>4. ASSUME NEW p \in PayloadsOf(l.jobs) PROVE Justified(p)'
    <3>1. CASE p.key[2] = "threshold"
      BY <2>2, <2>4, <3>1 DEF Metrics, Justified
    <3>2. CASE p = Payload(s, "spike") /\ l.errors >= ErrorThreshold
      <4>1. p.key = <<s, "spike">>
        BY <3>2 DEF Payload
      <4>2. logged'[s] + ingested'[s] >= ErrorThreshold
        BY <1>2, <2>2, <2>3, <3>2
      <4> QED
        BY <4>1, <4>2 DEF Justified
    <3> QED
      BY <1>2, <2>4, <3>1, <3>2 DEF Prepared
  <2>5. req[r].pc # "alerting"
    BY <1>2
  <2> QED
    BY <1>2, <1>5, <1>6, <2>1, <2>4, <2>5, EmitStep
<1> QED
  BY <1>1, <1>8, <1>9, <1>10

\* Once all its calls have returned, each alert of a request was met.
LEMMA AllMet ==
  ASSUME Inv, NEW r \in Requests, req[r].pc = "alerting",
         \A c \in CallsOf(r) : calls[c].pc = "idle"
  PROVE  \A key \in KeysOf(req[r].jobs) : Met(key, req[r].since - Window)
<1> SUFFICES ASSUME NEW j \in DOMAIN req[r].jobs
             PROVE  Met(req[r].jobs[j].key, req[r].since - Window)
  BY DEF KeysOf
<1>1. j \in Numbers
  BY Types, JobTypes DEF Inv
<1>2. Raising(calls[<<r, j>>], req[r].jobs[j], req[r].since)
  BY <1>1 DEF Inv, Underway, Steady, Awaiting
<1>3. calls[<<r, j>>].pc = "idle"
  BY <1>1, CallPairs
<1> QED
  BY <1>2, <1>3 DEF Raising

LEMMA FinishStep ==
  ASSUME Inv, NEW r \in Requests, Finish(r)
  PROVE  Inv'
<1>1. /\ req[r].pc = "alerting" /\ \A c \in CallsOf(r) : calls[c].pc = "idle"
      /\ req' = [req EXCEPT ![r] = Idle] /\ TypeOK
      /\ UNCHANGED <<now, alerts, calls, logged, ingested, stored, lost>>
  BY DEF Finish, GoTo, events, Inv
<1>2. /\ req' \in [Requests -> Locals] /\ req'[r] = Idle
      /\ \A q \in Requests : q # r => req'[q] = req[q]
  BY <1>1, IdleTypes DEF TypeOK
<1>3. TypeOK'
  BY <1>1, <1>2 DEF TypeOK, Alerting!TypeOK, Alerting!Exists
<1>4. Grows
  BY <1>1, Types DEF Grows, Alerting!Exists
<1>5. Steady(r)'
  BY <1>1, <1>2, IdleTypes, CallPairs DEF Steady, Prepared, Quiet
<1>6. Leaves(r)
  <2> SUFFICES ASSUME NEW s \in Services, LoggingBy(r, s)
               PROVE  <<s, "spike">> \in lost' \/ Raised(<<s, "spike">>)'
    BY <1>1 DEF Leaves
  <2>1. Met(<<s, "spike">>, req[r].since - Window)
    BY <1>1, AllMet DEF LoggingBy
  <2> QED
    BY <1>1, <2>1 DEF Met, RaisedSince, Raised, Alerting!Exists
<1> QED
  BY <1>1, <1>2, <1>3, <1>4, <1>5, <1>6, StepOfOne DEF Alerting!Exists

LEMMA AbortStep ==
  ASSUME Inv, NEW r \in Requests, Abort(r)
  PROVE  Inv'
<1>1. /\ req[r].pc \in {"storeLog", "countErrors", "storeEvent", "ingest"}
      /\ GoTo(r, Idle) /\ UNCHANGED <<now, alerts, calls, logged, ingested, stored>>
      /\ TypeOK /\ Prepared(req[r]) /\ KeysOf(req[r].jobs) \subseteq Services \X Titles
      /\ lost' = lost \cup KeysOf(req[r].jobs)
           \cup IF req[r].pc = "countErrors" THEN {<<req[r].service, "spike">>} ELSE {}
  BY Types, JobTypes DEF Abort, events, Inv, Underway, Steady
<1>2. lost \subseteq lost' /\ lost' \subseteq Services \X Titles
  BY <1>1 DEF Prepared, TypeOK, Titles
<1>3. Stores
  BY <1>1, <1>2, Types DEF Stores, TypeOK
<1>4. Leaves(r)
  BY <1>1 DEF Leaves, LoggingBy
<1>5. Prepared(Idle)'
  BY IdleTypes DEF Prepared
<1>6. req[r].pc # "alerting"
  BY <1>1
<1> QED
  BY <1>1, <1>3, <1>4, <1>5, <1>6, IdleTypes, QuietStep

-----------------------------------------------------------------------------
\* Steps of a call of createSafely

LEMMA CallUnderway ==
  ASSUME Inv, NEW c \in Calls, calls[c].pc # "idle"
  PROVE  /\ c[1] \in Requests /\ c[2] \in Numbers /\ c = <<c[1], c[2]>>
         /\ req[c[1]].pc = "alerting" /\ c[2] \in DOMAIN req[c[1]].jobs
         /\ Raising(calls[c], req[c[1]].jobs[c[2]], req[c[1]].since)
         /\ calls[c].data = req[c[1]].jobs[c[2]] /\ calls[c].data \in Payloads
<1>1. c[1] \in Requests /\ c[2] \in Numbers /\ c = <<c[1], c[2]>>
  BY CallPairs
<1>2. Steady(c[1]) /\ calls[<<c[1], c[2]>>].pc # "idle"
  BY <1>1 DEF Inv, Underway
<1>3. /\ req[c[1]].pc = "alerting" /\ c[2] \in DOMAIN req[c[1]].jobs
      /\ Raising(calls[<<c[1], c[2]>>], req[c[1]].jobs[c[2]], req[c[1]].since)
  BY <1>1, <1>2 DEF Steady, Awaiting, Quiet
<1>4. Raising(calls[c], req[c[1]].jobs[c[2]], req[c[1]].since)
  BY <1>1, <1>3
<1> QED
  BY <1>1, <1>3, <1>4, Types DEF Raising, Inv

\* What is left to show of a step of one call.
LEMMA StepOfCall ==
  ASSUME Inv, Grows, TypeOK', NEW r \in Requests, NEW j \in Numbers,
         req[r].pc = "alerting", j \in DOMAIN req[r].jobs, req' = req, logged' = logged,
         \A d \in Calls : d # <<r, j>> => calls'[d] = calls[d],
         Raising(calls[<<r, j>>], req[r].jobs[j], req[r].since)'
  PROVE  Underway' /\ SpikeRaised'
<1>1. \A q \in Requests, k \in Numbers :
        ~(q = r /\ k = j) => calls'[<<q, k>>] = calls[<<q, k>>]
  BY CallPairs
<1>2. Awaiting(r) /\ TypeOK
  BY DEF Inv, Underway, Steady
<1>3. ASSUME NEW k \in Numbers, k # j, k \in DOMAIN req[r].jobs
      PROVE  Raising(calls[<<r, k>>], req[r].jobs[k], req[r].since)'
  <2> DEFINE p == req[r].jobs[k]
             since == req[r].since
  <2>1. calls'[<<r, k>>] = calls[<<r, k>>] /\ p' = p /\ since' = since
    BY <1>1, <1>3
  <2>2. Raising(calls[<<r, k>>], p, since) /\ p \in Payloads
    BY <1>2, <1>3, Types, JobTypes DEF Awaiting
  <2>3. /\ Justified(p)' /\ (Met(p.key, since - Window) => Met(p.key, since - Window)')
    BY <1>2, <2>1, <2>2, JustifiedLasts, MetLasts DEF Raising
  <2> QED
    BY <2>1, <2>2, <2>3 DEF Raising
<1>4. req[r].since <= now'
  <2>1. now \in Nat /\ now' \in Nat /\ req[r].since \in Nat
    BY <1>2, Types DEF TypeOK, Alerting!TypeOK, Alerting!Times
  <2> QED
    BY <1>2, <2>1 DEF Awaiting, Grows
<1>5. \A k \in Numbers : k \notin DOMAIN req[r].jobs => calls'[<<r, k>>].pc = "idle"
  BY <1>1, <1>2 DEF Awaiting
<1>6. Steady(r)'
  BY <1>3, <1>4, <1>5 DEF Steady, Awaiting
<1>7. Underway'
  BY <1>1, <1>6, OthersSteady DEF Underway
<1>8. Leaves(r)
  BY DEF Leaves, LoggingBy
<1> QED
  BY <1>7, <1>8, SpikesLast

LEMMA FailCallStep ==
  ASSUME Inv, NEW c \in Calls, FailCall(c)
  PROVE  Inv'
<1> DEFINE r == c[1]
           j == c[2]
           p == req[r].jobs[j]
<1>1. /\ calls[c].pc # "idle" /\ calls' = [calls EXCEPT ![c] = Alerting!Idle]
      /\ lost' = lost \cup {calls[c].data.key} /\ TypeOK
      /\ UNCHANGED <<now, alerts, logged, ingested, stored, req>>
  BY DEF FailCall, Alerting!Fail, events, Inv
<1>2. /\ r \in Requests /\ j \in Numbers /\ c = <<r, j>>
      /\ req[r].pc = "alerting" /\ j \in DOMAIN req[r].jobs
      /\ Raising(calls[c], p, req[r].since)
      /\ calls[c].data = p /\ p \in Payloads
  BY <1>1, CallUnderway
<1>3. /\ calls' \in [Calls -> Alerting!Locals] /\ calls'[c] = Alerting!Idle
      /\ \A d \in Calls : d # c => calls'[d] = calls[d]
  BY <1>1, Types, IdleTypes
<1>4. p.key \in Services \X Titles
  BY <1>2 DEF Payloads
<1>5. TypeOK'
  BY <1>1, <1>2, <1>3, <1>4, IdleTypes DEF TypeOK, Alerting!TypeOK, Alerting!Exists
<1>6. Grows
  BY <1>1, Types DEF Grows, Alerting!Exists
<1>7. Raising(calls[<<r, j>>], p, req[r].since)'
  <2>1. Justified(p)'
    BY <1>1, <1>2 DEF Raising, Justified
  <2>2. p.key \in lost'
    BY <1>1, <1>2
  <2> QED
    BY <1>1, <1>2, <1>3, <2>1, <2>2, IdleTypes DEF Raising, Met
<1>8. Underway' /\ SpikeRaised'
  BY <1>1, <1>2, <1>3, <1>5, <1>6, <1>7, StepOfCall
<1>9. AlertJustified'
  BY <1>1, <1>5, <1>6, NoNewAlert DEF Alerting!Exists
<1> QED
  BY <1>5, <1>8, <1>9 DEF Inv

LEMMA FindStep ==
  ASSUME Inv, NEW c \in Calls, Alerting!Find(c), UNCHANGED <<events, req, lost>>
  PROVE  Inv'
<1> DEFINE r == c[1]
           j == c[2]
           p == req[r].jobs[j]
           since == req[r].since
           found == Alerting!Duplicates(calls[c].data.key, calls[c].at - Window)
           next == IF found # {} THEN Alerting!Idle
                   ELSE [calls[c] EXCEPT !.pc = "insert", !.at = now]
<1>1. /\ calls[c].pc = "find" /\ calls' = [calls EXCEPT ![c] = next] /\ TypeOK
      /\ UNCHANGED <<now, alerts, logged, ingested, stored, req, lost>>
  BY DEF Alerting!Find, events, Inv
<1>2. /\ r \in Requests /\ j \in Numbers /\ c = <<r, j>>
      /\ req[r].pc = "alerting" /\ j \in DOMAIN req[r].jobs
      /\ Raising(calls[c], p, since)
      /\ calls[c].data = p /\ p \in Payloads /\ calls[c].at = since
  BY <1>1, CallUnderway DEF Raising
<1>3. /\ next \in Alerting!Locals /\ next.pc \in {"idle", "insert"}
      /\ next.pc = "idle" => found # {}
      /\ next.pc = "insert" => next.data = p /\ next.at = now
  BY <1>1, <1>2, Types, IdleTypes DEF Alerting!Locals, Alerting!Times
<1>4. found # {} => RaisedSince(p.key, since - Window)
  BY <1>2 DEF Alerting!Duplicates, Alerting!Active, RaisedSince, Alerting!Exists
<1> HIDE DEF next
<1>5. /\ calls' \in [Calls -> Alerting!Locals] /\ calls'[c] = next
      /\ \A d \in Calls : d # c => calls'[d] = calls[d]
  BY <1>1, <1>3, Types
<1>6. TypeOK'
  BY <1>1, <1>2, <1>3, <1>5 DEF TypeOK, Alerting!TypeOK, Alerting!Exists
<1>7. Grows
  BY <1>1, Types DEF Grows, Alerting!Exists
<1>8. since <= now
  BY <1>2 DEF Inv, Underway, Steady, Awaiting
<1>9. Raising(calls[<<r, j>>], p, req[r].since)'
  <2>1. Justified(p)'
    BY <1>1, <1>2 DEF Raising, Justified
  <2>2. found # {} => RaisedSince(p.key, since - Window)'
    BY <1>1, <1>4 DEF RaisedSince, Alerting!Exists
  <2>3. since \in Nat /\ now \in Nat
    BY <1>1, <1>2, Types
  <2> HIDE DEF found
  <2> QED
    BY <1>1, <1>2, <1>3, <1>5, <1>8, <2>1, <2>2, <2>3 DEF Raising, Met
<1>10. Underway' /\ SpikeRaised'
  BY <1>1, <1>2, <1>5, <1>6, <1>7, <1>9, StepOfCall
<1>11. AlertJustified'
  BY <1>1, <1>6, <1>7, NoNewAlert DEF Alerting!Exists
<1> QED
  BY <1>6, <1>10, <1>11 DEF Inv

LEMMA InsertStep ==
  ASSUME Inv, NEW c \in Calls, Alerting!Insert(c), UNCHANGED <<events, req, lost>>
  PROVE  Inv'
<1> DEFINE r == c[1]
           j == c[2]
           p == req[r].jobs[j]
           since == req[r].since
<1>1. /\ calls[c].pc = "insert" /\ calls' = [calls EXCEPT ![c] = Alerting!Idle]
      /\ TypeOK /\ UNCHANGED <<now, logged, ingested, stored, req, lost>>
  BY DEF Alerting!Insert, events, Inv
<1>2. /\ r \in Requests /\ j \in Numbers /\ c = <<r, j>>
      /\ req[r].pc = "alerting" /\ j \in DOMAIN req[r].jobs
      /\ Raising(calls[c], p, since)
      /\ calls[c].data = p /\ p \in Payloads /\ calls[c].at >= since
  BY <1>1, CallUnderway DEF Raising
<1>3. PICK b \in Ids, t \in calls[c].at .. now :
        /\ ~Alerting!Exists(b)
        /\ alerts' = [alerts EXCEPT ![b] = Alerting!NewAlert(p, t)]
  BY <1>2 DEF Alerting!Insert
<1>4. t \in Nat /\ t \in 0 .. MaxTime /\ t >= since - Window
  <2>1. /\ calls[c].at \in Nat /\ now \in 0 .. MaxTime /\ MaxTime \in Nat
        /\ Window \in Nat /\ since \in Nat
    BY <1>1, <1>2, Types
  <2> HIDE DEF since
  <2> QED
    BY <1>2, <2>1
<1>5. /\ calls' \in [Calls -> Alerting!Locals] /\ calls'[c] = Alerting!Idle
      /\ \A d \in Calls : d # c => calls'[d] = calls[d]
  BY <1>1, Types, IdleTypes
<1>6. /\ alerts' \in [Ids -> Alerting!AlertDocs]
      /\ alerts'[b].data = p /\ alerts'[b].status = "active"
      /\ alerts'[b].triggeredAt = t
      /\ \A a \in Ids : a # b => alerts'[a] = alerts[a]
  BY <1>1, <1>2, <1>3, <1>4, Types
  DEF Alerting!AlertDocs, Alerting!Statuses, Alerting!Times, Alerting!NewAlert
<1>7. TypeOK'
  BY <1>1, <1>2, <1>5, <1>6, IdleTypes DEF TypeOK, Alerting!TypeOK, Alerting!Exists
<1>8. Grows
  BY <1>1, <1>3, <1>6, Types DEF Grows, Alerting!Exists
<1>9. Justified(p)'
  BY <1>1, <1>2 DEF Raising, Justified
<1>10. RaisedSince(p.key, since - Window)'
  BY <1>1, <1>4, <1>6 DEF RaisedSince, Alerting!Exists
<1>11. Raising(calls[<<r, j>>], p, req[r].since)'
  BY <1>1, <1>2, <1>5, <1>9, <1>10, IdleTypes DEF Raising, Met
<1>12. Underway' /\ SpikeRaised'
  BY <1>1, <1>2, <1>5, <1>7, <1>8, <1>11, StepOfCall
<1>13. AlertJustified'
  <2> SUFFICES ASSUME NEW a \in Ids, Alerting!Exists(a)' PROVE Justified(alerts[a].data)'
    BY DEF AlertJustified, Justified
  <2>1. CASE a = b
    BY <1>1, <1>6, <1>9, <2>1 DEF Justified
  <2>2. CASE a # b
    BY <1>1, <1>6, <2>2 DEF Inv, AlertJustified, Justified, Alerting!Exists
  <2> QED
    BY <2>1, <2>2
<1> QED
  BY <1>7, <1>12, <1>13 DEF Inv

-----------------------------------------------------------------------------
\* Steps of nobody's request

LEMMA NobodysStep ==
  ASSUME Inv, Grows, TypeOK', UNCHANGED <<calls, logged, ingested, stored, req, lost>>,
         \A a \in Ids : Alerting!Exists(a)' => Alerting!Exists(a)
  PROVE  Inv'
<1>1. Underway'
  BY OthersSteady DEF Underway
<1>2. SpikeRaised'
  <2>1. \A key : Raised(key) => Raised(key)'
    BY DEF Raised, Grows
  <2> QED
    BY <2>1 DEF Inv, SpikeRaised, Logging
<1> QED
  BY <1>1, <1>2, NoNewAlert DEF Inv

LEMMA UpdateStep ==
  ASSUME Inv, NEW a \in Ids, NEW status \in Patchable, Alerting!Update(a, status),
         UNCHANGED <<events, req, lost>>
  PROVE  Inv'
<1>1. /\ Alerting!Exists(a)
      /\ UNCHANGED <<now, calls, logged, ingested, stored, req, lost>> /\ TypeOK
      /\ status \in Alerting!Statuses /\ status # "none"
      /\ \E reopened \in BOOLEAN :
           alerts' = [alerts EXCEPT ![a].status = status, ![a].reopened = reopened]
  BY AlertParameters DEF Alerting!Update, Alerting!Statuses, events, Inv
<1>2. /\ alerts' \in [Ids -> Alerting!AlertDocs]
      /\ \A b \in Ids : b # a => alerts'[b] = alerts[b]
      /\ alerts'[a].status = status /\ alerts'[a].data = alerts[a].data
      /\ alerts'[a].triggeredAt = alerts[a].triggeredAt
  <2>1. PICK reopened \in BOOLEAN :
          alerts' = [alerts EXCEPT ![a].status = status, ![a].reopened = reopened]
    BY <1>1
  <2>2. alerts \in [Ids -> Alerting!AlertDocs]
    BY <1>1, Types
  <2>3. [alerts[a] EXCEPT !.status = status, !.reopened = reopened] \in Alerting!AlertDocs
    BY <1>1, <2>2 DEF Alerting!AlertDocs
  <2> QED
    BY <2>1, <2>2, <2>3 DEF Alerting!AlertDocs
<1>3. TypeOK'
  BY <1>1, <1>2 DEF TypeOK, Alerting!TypeOK, Alerting!Exists
<1>4. Grows
  BY <1>1, <1>2, Types DEF Grows, Alerting!Exists
<1> QED
  BY <1>1, <1>2, <1>3, <1>4, NobodysStep DEF Alerting!Exists

LEMMA TickStep ==
  ASSUME Inv, Alerting!Tick, UNCHANGED <<events, req, lost>>
  PROVE  Inv'
<1>1. /\ now' \in 0 .. MaxTime /\ now <= now' /\ TypeOK
      /\ UNCHANGED <<alerts, calls, logged, ingested, stored, req, lost>>
  BY Types DEF Alerting!Tick, events, Inv
<1>2. TypeOK'
  BY <1>1 DEF TypeOK, Alerting!TypeOK, Alerting!Exists, Alerting!Times
<1>3. Grows
  BY <1>1, Types DEF Grows, Alerting!Exists
<1> QED
  BY <1>1, <1>2, <1>3, NobodysStep DEF Alerting!Exists

-----------------------------------------------------------------------------
\* The theorems

LEMMA Initially == Init => Inv
<1> SUFFICES ASSUME Init PROVE Inv
  OBVIOUS
<1>1. /\ now = 0 /\ alerts = [a \in Ids |-> Alerting!NoAlert]
      /\ calls = [c \in Calls |-> Alerting!Idle]
  BY DEF Init, Alerting!Init
<1>2. Alerting!NoAlert \in Alerting!AlertDocs /\ Alerting!NoAlert.status = "none"
  BY Parameters DEF Alerting!NoAlert, Alerting!AlertDocs, Alerting!Statuses, Alerting!Times
<1>3. Alerting!TypeOK
  BY <1>1, <1>2, IdleTypes, Parameters DEF Alerting!TypeOK, Alerting!Exists, Alerting!Times
<1>4. TypeOK
  BY <1>3, IdleTypes DEF TypeOK, Init
<1>5. Underway
  BY <1>1, IdleTypes, CallPairs DEF Underway, Steady, Quiet, Prepared, Init
<1>6. AlertJustified
  BY <1>1, <1>2 DEF AlertJustified, Alerting!Exists
<1>7. SpikeRaised
  BY Parameters DEF SpikeRaised, Init
<1> QED
  BY <1>4, <1>5, <1>6, <1>7 DEF Inv

LEMMA ArrivalStep ==
  ASSUME Inv, NEW r \in Requests, Arrival(r)
  PROVE  Inv'
BY LogStep, RecordStep, IngestStep, IncidentStep DEF Arrival

LEMMA Inductive == Inv /\ [Next]_vars => Inv'
<1> SUFFICES ASSUME Inv, [Next]_vars PROVE Inv'
  OBVIOUS
<1>1. ASSUME NEW r \in Requests, RequestStep(r) PROVE Inv'
  BY <1>1, ArrivalStep, StoreLogStep, CountErrorsStep, StoreEventStep, StoreBatchStep,
     FinishStep, AbortStep DEF RequestStep
<1>2. ASSUME AlertStep, UNCHANGED <<events, req, lost>> PROVE Inv'
  BY <1>2, FindStep, InsertStep, UpdateStep, TickStep DEF AlertStep
<1>3. ASSUME NEW c \in Calls, FailCall(c) PROVE Inv'
  BY <1>3, FailCallStep
<1>4. CASE UNCHANGED vars
  <2>1. UNCHANGED <<now, alerts, calls, logged, ingested, stored, req, lost>> /\ TypeOK
    BY <1>4 DEF vars, Inv
  <2>2. TypeOK'
    BY <2>1 DEF TypeOK, Alerting!TypeOK, Alerting!Exists
  <2>3. Grows
    BY <2>1, Types DEF Grows, Alerting!Exists
  <2> QED
    BY <2>1, <2>2, <2>3, NobodysStep DEF Alerting!Exists
<1> QED
  BY <1>1, <1>2, <1>3, <1>4 DEF Next

LEMMA Always == Spec => []Inv
BY Initially, Inductive, PTL DEF Spec

\* However many requests of the five endpoints overlap, with the calls of
\* createSafely they make, every variable stays in its type.
THEOREM TypeCorrect == Spec => []TypeOK
<1>1. Inv => TypeOK
  BY DEF Inv
<1> QED
  BY <1>1, Always, PTL

\* LogsService.create stores its log before it counts: whichever requests
\* overlap, a service with as many error logs as the threshold has got its
\* alert once they are through, unless a fault gave it up.
THEOREM SpikesRaised == Spec => []SpikeRaised
<1>1. Inv => SpikeRaised
  BY DEF Inv
<1> QED
  BY <1>1, Always, PTL

\* No producer raises an alert before all it is about is stored, although
\* insertMany may store part of a batch and fail.
THEOREM AlertsJustified == Spec => []AlertJustified
<1>1. Inv => AlertJustified
  BY DEF Inv
<1> QED
  BY <1>1, Always, PTL

\* When Promise.all over createSafely resolves, each alert of the request is
\* there and no older than the window allows, whoever raised it, unless a
\* fault gave it up.
THEOREM DetectionsComplete == Spec => DetectionComplete
<1>1. ASSUME Inv, NEW r \in Requests, Finish(r) PROVE RecentlyRaised(r)
  <2>1. \A key \in KeysOf(req[r].jobs) : Met(key, req[r].since - Window)
    BY <1>1, AllMet DEF Finish
  <2> QED
    BY <2>1 DEF Met, RaisedSince, RecentlyRaised
<1>2. Inv /\ [Next]_vars => [\A r \in Requests : Finish(r) => RecentlyRaised(r)]_vars
  BY <1>1
<1> QED
  BY <1>2, Always, PTL DEF Spec, DetectionComplete
=============================================================================
