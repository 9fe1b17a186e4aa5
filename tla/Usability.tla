----------------------------- MODULE Usability ------------------------------
(***************************************************************************)
(* Usability events and surveys: recordEvent, submitSus, getSummary and    *)
(* purgeActor of usability.service.ts, and the repository below it.        *)
(*                                                                         *)
(* Requests of any actors overlap; one step of a request is the code from  *)
(* one await to the next together with the write or read it waits for.     *)
(* deleteMany is no transaction: it deletes one document after another,    *)
(* and one stored meanwhile may or may not be among them.  A request may   *)
(* fail, or die with the process, at any await.                            *)
(*                                                                         *)
(* An actor works in one session and on one task, so neither is a field.   *)
(* Events keep what the summary tells apart: the name and occurredAt.      *)
(* durationMs and the properties are left out, and so is the index that    *)
(* expires documents after ninety days, far longer than the clock runs.    *)
(* A request that is refused (no consent, an occurredAt or a period out of *)
(* bounds) changes nothing and is no step.                                 *)
(*                                                                         *)
(* A definition headed "Faulty" is a plausible bug in the definition below *)
(* it: no action uses it, and a property is checked to fail with it.       *)
(***************************************************************************)
EXTENDS Measures

CONSTANTS Actors, Requests,
          EventIds, SurveyIds,  \* bound on the documents ever stored
          Names,                \* the events clients record
          Sheets,               \* the answers clients submit
          MaxTime,              \* bound on the clock
          MaxAge, MaxSkew,      \* MAX_EVENT_AGE_MS, MAX_FUTURE_SKEW_MS
          MaxPeriod,            \* the ninety days a summary may cover
          Limit,                \* the 10,000 documents a summary reads
          Unused                \* no document

\* USABILITY_EVENT_NAMES
EventNames ==
  {"task_started", "task_completed", "task_failed", "task_abandoned",
   "validation_error", "result_viewed", "alert_opened", "web_vital_recorded",
   "feedback_submitted"}

ASSUME UsabilityParameters ==
  /\ Names \subseteq EventNames
  /\ MaxTime \in Nat /\ MaxAge \in Nat /\ MaxSkew \in Nat
  /\ MaxPeriod \in Nat /\ Limit \in Nat \ {0}
  /\ Sheets \subseteq [Questions -> 1 .. 5]

VARIABLES events, surveys,  \* the documents by id; deleted ones are marked gone
          req,              \* what each request is about to do
          now,              \* Date.now()
          purged            \* history: the actors that ever began a purge

vars == <<events, surveys, req, now, purged>>

-----------------------------------------------------------------------------

Times == -MaxAge .. MaxTime + MaxSkew

\* survey: the survey submitSus had stored before, which the document only
\* hints at.
EventDocs == [actor : Actors, name : EventNames, at : Times,
              survey : SurveyIds \cup {Unused}, gone : BOOLEAN]
SurveysWith(scores) == [actor : Actors, at : 0 .. MaxTime, score : scores,
                        gone : BOOLEAN]
SurveyDocs == SurveysWith(0 .. 1000)

ASSUME DocumentsApart ==
  /\ EventIds \cap SurveyIds = {}
  /\ IsFiniteSet(EventIds) /\ IsFiniteSet(SurveyIds)
  /\ Unused \notin EventDocs
  /\ Unused \notin SurveysWith({SusScore(answers) : answers \in Sheets})

Kinds == {"events", "surveys"}
Idle == [pc |-> "idle"]

Recording == [pc : {"event"}, doc : EventDocs]
Submitting(docs) == [pc : {"survey"}, doc : docs, feedback : BOOLEAN]

\* had: history, the documents of the actor when its purge began.
Purging == [pc : {"purge", "purged"}, actor : Actors, pending : SUBSET Kinds,
            failed : BOOLEAN, had : SUBSET (EventIds \cup SurveyIds)]

\* known: history, the events that matched when the summary read them.
SummingUp == [pc : {"readEvents", "readSurveys", "summary"}, from : Times,
              to : Times, known : SUBSET EventIds, found : SUBSET EventIds,
              surveys : SUBSET SurveyIds]

Locals == {Idle} \cup Recording \cup Submitting(SurveyDocs) \cup Purging \cup SummingUp

Unstored(docs) == {d \in DOMAIN docs : docs[d] = Unused}
Stored(docs) == {d \in DOMAIN docs : docs[d] # Unused /\ ~docs[d].gone}
OfActor(docs, actor) == {d \in Stored(docs) : docs[d].actor = actor}

Go(r, local) == req' = [req EXCEPT ![r] = local]

Init ==
  /\ events = [e \in EventIds |-> Unused]
  /\ surveys = [s \in SurveyIds |-> Unused]
  /\ req = [r \in Requests |-> Idle]
  /\ now = 0
  /\ purged = {}

-----------------------------------------------------------------------------
\* Writing

\* normalizeOccurredAt: what passes as the time of an event; without one it is
\* that of the request.
Occurrable == now - MaxAge .. now + MaxSkew

\* RecordUsabilityEventDto
Recorded == [name : Names, at : Occurrable]

RecordEvent(r) ==
  /\ req[r] = Idle
  /\ \E actor \in Actors, sent \in Recorded :
       Go(r, [pc |-> "event",
              doc |-> [actor |-> actor, name |-> sent.name, at |-> sent.at,
                       survey |-> Unused, gone |-> FALSE]])
  /\ UNCHANGED <<events, surveys, now, purged>>

StoreEvent(r) ==
  /\ req[r].pc = "event"
  /\ \E e \in Unstored(events) : events' = [events EXCEPT ![e] = req[r].doc]
  /\ Go(r, Idle)
  /\ UNCHANGED <<surveys, now, purged>>

SubmitSus(r) ==
  /\ req[r] = Idle
  /\ \E actor \in Actors, answers \in Sheets, feedback \in BOOLEAN :
       Go(r, [pc |-> "survey", feedback |-> feedback,
              doc |-> [actor |-> actor, at |-> now,
                       score |-> SusScore(answers), gone |-> FALSE]])
  /\ UNCHANGED <<events, surveys, now, purged>>

\* The event that follows a survey with feedback.
Feedback(r, s) ==
  IF req[r].feedback
    THEN [pc |-> "event",
          doc |-> [actor |-> req[r].doc.actor, name |-> "feedback_submitted",
                   at |-> now, survey |-> s, gone |-> FALSE]]
    ELSE Idle

\* Faulty: nobody awaits the survey, whose write may fail.
StoreSurveyUnawaited(r) ==
  /\ req[r].pc = "survey"
  /\ \E s \in Unstored(surveys), lost \in BOOLEAN :
       /\ surveys' = [surveys EXCEPT ![s] = [req[r].doc EXCEPT !.gone = lost]]
       /\ Go(r, Feedback(r, s))
  /\ UNCHANGED <<events, now, purged>>

StoreSurvey(r) ==
  /\ req[r].pc = "survey"
  /\ \E s \in Unstored(surveys) :
       /\ surveys' = [surveys EXCEPT ![s] = req[r].doc]
       /\ Go(r, Feedback(r, s))
  /\ UNCHANGED <<events, now, purged>>

-----------------------------------------------------------------------------
\* Purging: two deleteMany at once

PurgeActor(r) ==
  /\ req[r] = Idle
  /\ \E actor \in Actors :
       /\ Go(r, [pc |-> "purge", actor |-> actor, pending |-> Kinds,
                 failed |-> FALSE,
                 had |-> OfActor(events, actor) \cup OfActor(surveys, actor)])
       /\ purged' = purged \cup {actor}
  /\ UNCHANGED <<events, surveys, now>>

Deleting(r, kind) == req[r].pc = "purge" /\ kind \in req[r].pending

DeleteEvent(r) ==
  /\ Deleting(r, "events")
  /\ \E e \in OfActor(events, req[r].actor) :
       events' = [events EXCEPT ![e].gone = TRUE]
  /\ UNCHANGED <<surveys, req, now, purged>>

DeleteSurvey(r) ==
  /\ Deleting(r, "surveys")
  /\ \E s \in OfActor(surveys, req[r].actor) :
       surveys' = [surveys EXCEPT ![s].gone = TRUE]
  /\ UNCHANGED <<events, req, now, purged>>

\* Promise.all: the request has its answer when both calls have returned; once
\* one has failed it never has, while the other call goes on.
Settled(local) ==
  IF local.pending # {} THEN local
  ELSE IF local.failed THEN Idle ELSE [local EXCEPT !.pc = "purged"]

\* Faulty: Promise.allSettled.
ReturnSettled(r, kind) ==
  /\ Deleting(r, kind)
  /\ \E failed \in BOOLEAN :
       /\ \/ failed
          \/ req[r].had \cap (IF kind = "events" THEN Stored(events)
                                                 ELSE Stored(surveys)) = {}
       /\ Go(r, Settled([req[r] EXCEPT !.pending = @ \ {kind}]))
  /\ UNCHANGED <<events, surveys, now, purged>>

\* A deleteMany returns when what it had to find is gone, or throws.
Return(r, kind) ==
  /\ Deleting(r, kind)
  /\ \E failed \in BOOLEAN :
       /\ \/ failed
          \/ req[r].had \cap (IF kind = "events" THEN Stored(events)
                                                 ELSE Stored(surveys)) = {}
       /\ Go(r, Settled([req[r] EXCEPT !.pending = @ \ {kind},
                                       !.failed = @ \/ failed]))
  /\ UNCHANGED <<events, surveys, now, purged>>

-----------------------------------------------------------------------------
\* The summary: events, then surveys

\* Faulty: the surveys are read first.
AfterSurveys == [start |-> "readSurveys", readSurveys |-> "readEvents",
                 readEvents |-> "summary"]

After == [start |-> "readEvents", readEvents |-> "readSurveys",
          readSurveys |-> "summary"]

\* resolvePeriod
GetSummary(r) ==
  /\ req[r] = Idle
  /\ \E from, to \in Times :
       /\ from <= to
       /\ to - from <= MaxPeriod
       /\ Go(r, [pc |-> After.start, from |-> from, to |-> to, known |-> {},
                 found |-> {}, surveys |-> {}])
  /\ UNCHANGED <<events, surveys, now, purged>>

InPeriod(r, docs) ==
  {d \in Stored(docs) : docs[d].at \in req[r].from .. req[r].to}

UpTo(docs) == kSubset(Min({Limit, Cardinality(docs)}), docs)

\* Faulty: newest first.
Newest(docs) ==
  {S \in UpTo(docs) : \A e \in S, f \in docs \ S : events[e].at >= events[f].at}

\* findEvents: occurredAt ascending, up to the limit.
Earliest(docs) ==
  {S \in UpTo(docs) : \A e \in S, f \in docs \ S : events[e].at <= events[f].at}

ReadEvents(r) ==
  /\ req[r].pc = "readEvents"
  /\ LET matching == InPeriod(r, events)
     IN  \E S \in Earliest(matching) :
           Go(r, [req[r] EXCEPT !.pc = After[@], !.known = matching,
                                !.found = S])
  /\ UNCHANGED <<events, surveys, now, purged>>

\* findSurveyScores: in no order, up to the limit.
ReadSurveys(r) ==
  /\ req[r].pc = "readSurveys"
  /\ \E S \in UpTo(InPeriod(r, surveys)) :
       Go(r, [req[r] EXCEPT !.pc = After[@], !.surveys = S])
  /\ UNCHANGED <<events, surveys, now, purged>>

\* What the summary shows of the task and of the surveys.
Named(S, name) == {e \in S : events[e].name = name}
CompletionRate(S) ==
  Rate(Cardinality(Named(S, "task_completed")),
       Cardinality(Named(S, "task_started")))
SampleSize(S) == Cardinality({events[e].actor : e \in S})
AverageScore(S) == Average([s \in S |-> surveys[s].score])

-----------------------------------------------------------------------------

\* The client has read the answer.
Leave(r) ==
  /\ req[r].pc \in {"purged", "summary"}
  /\ Go(r, Idle)
  /\ UNCHANGED <<events, surveys, now, purged>>

Abort(r) ==
  /\ req[r].pc \notin {"idle", "purged", "summary"}
  /\ Go(r, Idle)
  /\ UNCHANGED <<events, surveys, now, purged>>

Tick ==
  /\ now < MaxTime
  /\ now' = now + 1
  /\ UNCHANGED <<events, surveys, req, purged>>

RequestStep(r) ==
  \/ RecordEvent(r) \/ StoreEvent(r)
  \/ SubmitSus(r) \/ StoreSurvey(r)
  \/ PurgeActor(r) \/ DeleteEvent(r) \/ DeleteSurvey(r)
  \/ \E kind \in Kinds : Return(r, kind)
  \/ GetSummary(r) \/ ReadEvents(r) \/ ReadSurveys(r)
  \/ Leave(r) \/ Abort(r)

Next == Tick \/ \E r \in Requests : RequestStep(r)

Spec == Init /\ [][Next]_vars

-----------------------------------------------------------------------------
\* Properties

Submitted(e) == events[e].survey # Unused

\* Every variable stays in its type: a score is within what the schema of a
\* survey admits, no survey is of the future, and the figures of a summary are
\* within their scales.
TypeOK ==
  /\ events \in [EventIds -> EventDocs \cup {Unused}]
  /\ surveys \in [SurveyIds -> SurveyDocs \cup {Unused}]
  /\ req \in [Requests -> Locals]
  /\ now \in 0 .. MaxTime
  /\ purged \subseteq Actors
  /\ \A r \in Requests : req[r].pc = "summary" =>
       LET average == AverageScore(req[r].surveys)
       IN  /\ SampleSize(req[r].found) <= Limit
           /\ average # NoFigure => average \in Nat /\ average <= 100000

\* A purge that was answered has left nothing its actor had when it began,
\* although the two calls run at once and either may fail.  What other requests
\* of the actor store meanwhile may survive it.
PurgeComplete ==
  \A r \in Requests : req[r].pc = "purged" =>
    req[r].had \cap (Stored(events) \cup Stored(surveys)) = {}

\* The feedback event of a submission is there only if its survey is, whichever
\* write failed; only a purge may part the two.
FeedbackHasSurvey ==
  \A e \in Stored(events) : Submitted(e) /\ events[e].actor \notin purged =>
    events[e].survey \in Stored(surveys)

\* A summary counts no session for its feedback without the survey it came
\* with, unless the survey is older than the period, an actor purged, or there
\* are more surveys than a summary reads: events are read before surveys.
SummarySessions ==
  \A r \in Requests : req[r].pc = "summary" =>
    \A e \in req[r].found :
      /\ Submitted(e)
      /\ events[e].actor \notin purged
      /\ surveys[events[e].survey].at >= req[r].from
      /\ Cardinality(req[r].surveys) < Limit
      => events[e].survey \in req[r].surveys

\* Every completion among the events has a start of its own before it.
Paired(S) ==
  \E start \in [Named(S, "task_completed") -> Named(S, "task_started")] :
    /\ IsInjective(start)
    /\ \A e \in DOMAIN start : events[start[e]].at < events[e].at

\* The limit never makes a summary show more tasks completed than started: if
\* every completion in the period followed a start in it, the summary counts no
\* more completions than starts, and no rate above one, however many of the
\* events it reads.
CompletionBounded ==
  \A r \in Requests : req[r].pc = "summary" /\ Paired(req[r].known) =>
    /\ Cardinality(Named(req[r].found, "task_completed"))
         <= Cardinality(Named(req[r].found, "task_started"))
    /\ CompletionRate(req[r].found) <= 1000
=============================================================================
