------------------------------- MODULE Alerts -------------------------------
(***************************************************************************)
(* AlertsService and the alerts collection.                                *)
(*                                                                         *)
(* Every producer of alerts calls createSafely, several of them at once    *)
(* through Promise.all.  A call first looks for an active alert with the   *)
(* same service and title triggered within the last fifteen minutes, and   *)
(* only then inserts one: two awaits, with no index behind them that would *)
(* refuse a duplicate.  Operators change the status of an alert by PATCH,  *)
(* and may set one back to active that was not: searches find it again,    *)
(* but no search could have kept it from standing beside its successors.   *)
(*                                                                         *)
(* The clock is Date.now() in units of the modeller's choice; Window is    *)
(* ALERT_DEDUPE_WINDOW_MS in the same unit.  acknowledgedAt, which no      *)
(* query reads, is left out.                                               *)
(*                                                                         *)
(* A definition headed "Faulty" is a plausible bug in the definition below *)
(* it: no action uses it, and a property is checked to fail with it.       *)
(***************************************************************************)
EXTENDS Integers, FiniteSets

CONSTANTS Data,       \* what callers pass: records whose field key stands for
                      \* the service and the title, other fields for the rest
          Calls,      \* createSafely calls that can be under way at once
          Ids,        \* ids of documents of the alerts collection
          Patchable,  \* the statuses clients send to PATCH /alerts/:id
          Window,     \* ALERT_DEDUPE_WINDOW_MS
          MaxTime,    \* bound on the clock
          NoData

Statuses == {"active", "acknowledged", "resolved", "suppressed"}

ASSUME Parameters == /\ Window \in Nat
                     /\ MaxTime \in Nat
                     /\ NoData \notin Data
                     /\ Patchable \subseteq Statuses

VARIABLES now,     \* the clock
          alerts,  \* alerts[a]: the document with id a, if any
          calls    \* calls[c]: where call c is and its local variables

vars == <<now, alerts, calls>>

-----------------------------------------------------------------------------

Times == 0 .. MaxTime

\* reopened: history, whether the alert is active because an operator made it
\* so after it had been something else.
AlertDocs == [data : Data \cup {NoData}, status : Statuses \cup {"none"},
              triggeredAt : Times, reopened : BOOLEAN]
NoAlert == [data |-> NoData, status |-> "none", triggeredAt |-> 0, reopened |-> FALSE]

\* at: the time of the call until it has looked for a duplicate, then the
\* time of that look.
Locals == [pc : {"idle", "find", "insert"}, data : Data \cup {NoData}, at : Times]
Idle == [pc |-> "idle", data |-> NoData, at |-> 0]

Init ==
  /\ now = 0
  /\ alerts = [a \in Ids |-> NoAlert]
  /\ calls = [c \in Calls |-> Idle]

Exists(a) == alerts[a].status # "none"

\* The alert of the given data, triggered at t.
NewAlert(data, t) ==
  [data |-> data, status |-> "active", triggeredAt |-> t, reopened |-> FALSE]

\* The active alerts of the given service and title.
Active(key) == {a \in Ids : alerts[a].status = "active" /\ alerts[a].data.key = key}

\* Faulty: the window is open at its far end.
DuplicatesAfter(key, since) == {a \in Active(key) : alerts[a].triggeredAt > since}

\* Faulty: an active alert is a duplicate whatever its age.
DuplicatesEver(key, since) == Active(key)

\* findActiveDuplicate
Duplicates(key, since) == {a \in Active(key) : alerts[a].triggeredAt >= since}

\* Calls that some producer issues in one go, before its first await.
Started(jobs) ==
  [c \in Calls |-> IF c \in DOMAIN jobs
                     THEN [pc |-> "find", data |-> jobs[c], at |-> now]
                     ELSE calls[c]]

CreateSafely(jobs) ==
  /\ \A c \in DOMAIN jobs : calls[c].pc = "idle"
  /\ calls' = Started(jobs)
  /\ UNCHANGED <<now, alerts>>

\* Faulty: the window is looked for ahead of the call, not behind it.
FindAhead(c) ==
  /\ calls[c].pc = "find"
  /\ LET call == calls[c]
     IN  calls' = [calls EXCEPT ![c] =
           IF Duplicates(call.data.key, call.at + Window) # {} THEN Idle
           ELSE [call EXCEPT !.pc = "insert", !.at = now]]
  /\ UNCHANGED <<now, alerts>>

Find(c) ==
  /\ calls[c].pc = "find"
  /\ LET call == calls[c]
     IN  calls' = [calls EXCEPT ![c] =
           IF Duplicates(call.data.key, call.at - Window) # {} THEN Idle
           ELSE [call EXCEPT !.pc = "insert", !.at = now]]
  /\ UNCHANGED <<now, alerts>>

\* Faulty: triggeredAt is the end of the window the alert will be found in.
InsertAhead(c) ==
  /\ calls[c].pc = "insert"
  /\ \E a \in Ids :
       /\ ~Exists(a)
       /\ alerts' = [alerts EXCEPT ![a] = NewAlert(calls[c].data, now + Window)]
  /\ calls' = [calls EXCEPT ![c] = Idle]
  /\ UNCHANGED now

\* triggeredAt is read from the clock once the answer of Find is in, and
\* stored some time later.
Insert(c) ==
  /\ calls[c].pc = "insert"
  /\ \E a \in Ids, t \in calls[c].at .. now :
       /\ ~Exists(a)
       /\ alerts' = [alerts EXCEPT ![a] = NewAlert(calls[c].data, t)]
  /\ calls' = [calls EXCEPT ![c] = Idle]
  /\ UNCHANGED now

\* A database call throws and createSafely swallows it, or the process dies.
Fail(c) ==
  /\ calls[c].pc # "idle"
  /\ calls' = [calls EXCEPT ![c] = Idle]
  /\ UNCHANGED <<now, alerts>>

\* PATCH /alerts/:id.  @IsEnum(AlertStatus) lets every status through,
\* whatever the alert's own status is.
Update(a, status) ==
  /\ Exists(a)
  /\ alerts' = [alerts EXCEPT
       ![a].status = status,
       ![a].reopened = status = "active" /\ (@ \/ alerts[a].status # "active")]
  /\ UNCHANGED <<now, calls>>

Tick ==
  /\ now < MaxTime
  /\ now' = now + 1
  /\ UNCHANGED <<alerts, calls>>

Next ==
  \/ \E C \in SUBSET Calls \ {{}} : \E jobs \in [C -> Data] : CreateSafely(jobs)
  \/ \E c \in Calls : Find(c) \/ Insert(c) \/ Fail(c)
  \/ \E a \in Ids, status \in Patchable : Update(a, status)
  \/ Tick

Spec == Init /\ [][Next]_vars

-----------------------------------------------------------------------------
\* Properties

\* Every variable stays in its type; in particular no alert carries a time
\* the clock has not reached.
TypeOK ==
  /\ now \in Times
  /\ alerts \in [Ids -> AlertDocs]
  /\ calls \in [Calls -> Locals]
  /\ \A a \in Ids : Exists(a) => alerts[a].data \in Data
  /\ \A c \in Calls : calls[c].pc # "idle" => calls[c].data \in Data

Apart(a, b) == \/ alerts[a].triggeredAt - alerts[b].triggeredAt > Window
               \/ alerts[b].triggeredAt - alerts[a].triggeredAt > Window

\* Alerts active ever since they were raised.
Standing == {a \in Ids : alerts[a].status = "active" /\ ~alerts[a].reopened}

\* Two standing alerts of one service and title are further apart than the
\* window of the search that should have found the first.
NoActiveDuplicate ==
  \A a, b \in Standing :
    a # b /\ alerts[a].data.key = alerts[b].data.key => Apart(a, b)

\* The standing alerts of a key triggered in the window that begins at from.
Near(key, from) ==
  {a \in Standing \cap Active(key) : alerts[a].triggeredAt \in from .. from + Window}

\* However calls overlap, and whatever operators do, a burst of one service
\* and title leaves at most as many standing alerts in any window as calls
\* could be under way at once: a single one if calls do not overlap.
BurstBounded ==
  \A a \in Standing :
    Cardinality(Near(alerts[a].data.key, alerts[a].triggeredAt))
      <= Cardinality(Calls)

\* The calls that have searched for a key in vain and may still add to Near.
Cleared(key, from) ==
  {c \in Calls : /\ calls[c].pc = "insert"
                 /\ calls[c].data.key = key
                 /\ calls[c].at <= from + Window}

\* Why: from the first insert into a window on, every search that could lead
\* to another one finds it, so only calls that searched before can follow.
BurstShared ==
  \A key \in {data.key : data \in Data}, from \in Times :
    Cardinality(Near(key, from)) + Cardinality(Cleared(key, from))
      <= Cardinality(Calls)
=============================================================================
