-------------------------- MODULE UsabilityProofs --------------------------
(***************************************************************************)
(* Theorems about Usability, for any actors, answers, periods and limits:  *)
(* what a purge has deleted, what an event with feedback and a summary may *)
(* refer to, and the scales that scores and figures keep to.               *)
(*                                                                         *)
(* Scores, averages and percentiles rest on the sums and the sorting of    *)
(* OrderingProofs.                                                         *)
(***************************************************************************)
EXTENDS MCUsability, OrderingProofs

-----------------------------------------------------------------------------
\* The inductive invariant

Scored == SurveysWith({SusScore(answers) : answers \in Sheets})

\* An event with feedback came after a survey of its actor, which is there
\* still unless somebody purged the actor.
Linked(doc) ==
  doc.survey # Unused =>
    /\ doc.survey \in SurveyIds
    /\ surveys[doc.survey] # Unused
    /\ surveys[doc.survey].actor = doc.actor
    /\ surveys[doc.survey].at <= doc.at
    /\ doc.actor \notin purged => ~surveys[doc.survey].gone

Documents ==
  /\ events \in [EventIds -> EventDocs \cup {Unused}]
  /\ surveys \in [SurveyIds -> Scored \cup {Unused}]
  /\ now \in 0 .. MaxTime
  /\ purged \subseteq Actors
  /\ \A e \in EventIds : events[e] # Unused => Linked(events[e])

\* What a purge had to delete was stored, so that no later write brings it back,
\* and is gone once the call that had to delete it returned.
PurgeSound(local) ==
  /\ local \in Purging
  /\ local.actor \in purged
  /\ \A d \in local.had : /\ d \in EventIds => events[d] # Unused
                          /\ d \in SurveyIds => surveys[d] # Unused
  /\ local.pc = "purged" => local.pending = {} /\ ~local.failed
  /\ ~local.failed =>
       /\ "events" \notin local.pending => local.had \cap Stored(events) = {}
       /\ "surveys" \notin local.pending => local.had \cap Stored(surveys) = {}

Counted(local, e) ==
  /\ Submitted(e)
  /\ events[e].actor \notin purged
  /\ surveys[events[e].survey].at >= local.from
  /\ Cardinality(local.surveys) < Limit

\* A summary has read the earliest of the events it could, and no document that
\* was not stored.
SummarySound(local) ==
  /\ local \in SummingUp
  /\ \A e \in local.found : /\ events[e] # Unused
                            /\ events[e].at \in local.from .. local.to
  /\ Cardinality(local.found) <= Limit
  /\ local.found \subseteq local.known
  /\ \A e \in local.known : events[e] # Unused
  /\ \A e \in local.found, f \in local.known \ local.found :
       events[e].at <= events[f].at
  /\ \A z \in local.surveys : surveys[z] # Unused
  /\ local.pc = "summary" =>
       \A e \in local.found : Counted(local, e) => events[e].survey \in local.surveys

Sound(local) ==
  \/ local = Idle
  \/ local \in Recording /\ Linked(local.doc)
  \/ local \in Submitting(Scored) /\ ~local.doc.gone /\ local.doc.at <= now
  \/ PurgeSound(local)
  \/ SummarySound(local)

Anywhere == {Idle} \cup Recording \cup Submitting(Scored) \cup Purging \cup SummingUp

Inv ==
  /\ Documents
  /\ req \in [Requests -> Anywhere]
  /\ \A r \in Requests : Sound(req[r])

-----------------------------------------------------------------------------
\* Scores and averages

LEMMA ScoreIsSum ==
  ASSUME NEW answers
  PROVE  SusScore(answers) =
           25 * SumOver([q \in Questions |-> IF q % 2 = 1 THEN answers[q] - 1 ELSE 5 - answers[q]],
                      Questions)
<1> DEFINE f == [q \in Questions |-> IF q % 2 = 1 THEN answers[q] - 1 ELSE 5 - answers[q]]
<1>1. FoldFunction(+, 0, f) = SumOver(f, DOMAIN f)
  BY FoldIsSum
<1>2. DOMAIN f = Questions
  OBVIOUS
<1>3. FoldFunction(+, 0, f) = SumOver(f, Questions)
  <2> HIDE DEF f
  <2> QED
    BY <1>1, <1>2, Zenon
<1>4. SusScore(answers) = 25 * FoldFunction(+, 0, f)
  BY Zenon DEF SusScore
<1> HIDE DEF f
<1>5. SusScore(answers) = 25 * SumOver(f, Questions)
  BY <1>3, <1>4, Zenon
<1> QED
  BY <1>5 DEF f

LEMMA AverageIsSum ==
  ASSUME NEW scores
  PROVE  Average(scores) =
           IF DOMAIN scores = {} THEN NoFigure
           ELSE Rounded(SumOver(scores, DOMAIN scores), 10 * Cardinality(DOMAIN scores))
BY FoldIsSum, Zenon DEF Average

LEMMA ScoreInScale ==
  ASSUME NEW answers \in [Questions -> 1 .. 5]
  PROVE  SusScore(answers) \in 0 .. 1000
<1> DEFINE f == [q \in Questions |-> IF q % 2 = 1 THEN answers[q] - 1 ELSE 5 - answers[q]]
<1>1. IsFiniteSet(Questions) /\ Cardinality(Questions) = 10
  <2>1. \A n \in Nat : IsFiniteSet(1 .. n) /\ Cardinality(1 .. n) = n
    BY FS_Interval
  <2>2. 10 \in Nat
    OBVIOUS
  <2> QED
    BY <2>1, <2>2, Zenon DEF Questions
<1>2. f \in [Questions -> Nat] /\ \A q \in Questions : f[q] <= 4
  <2> SUFFICES ASSUME NEW q \in Questions PROVE f[q] \in Nat /\ f[q] <= 4
    OBVIOUS
  <2>1. answers[q] \in 1 .. 5
    OBVIOUS
  <2> QED
    BY <2>1
<1>3. SusScore(answers) = 25 * SumOver(f, Questions)
  BY ScoreIsSum
<1> HIDE DEF f
<1>4. SumOver(f, Questions) \in Nat /\ SumOver(f, Questions) <= 4 * 10
  BY <1>1, <1>2, SumBounded
<1> QED
  BY <1>3, <1>4

LEMMA AverageInScale ==
  ASSUME NEW S, IsFiniteSet(S), NEW scores \in [S -> Nat], \A z \in S : scores[z] <= 1000
  PROVE  Average(scores) # NoFigure => Average(scores) \in Nat /\ Average(scores) <= 100000
<1>1. CASE S = {}
  BY <1>1, AverageIsSum
<1>2. CASE S # {}
  <2> DEFINE n == Cardinality(S)
             t == SumOver(scores, S)
  <2>1. t \in Nat /\ t <= 1000 * n
    BY SumBounded
  <2>2. n \in Nat \ {0}
    BY <1>2, FS_CardinalityType, FS_EmptySet
  <2>3. Average(scores) = Rounded(t, 10 * n)
    BY <1>2, AverageIsSum
  <2> HIDE DEF n, t
  <2>4. Rounded(t, 10 * n) \in Nat /\ Rounded(t, 10 * n) <= 100000
    BY <2>1, <2>2 DEF Rounded
  <2> QED
    BY <2>3, <2>4
<1> QED
  BY <1>1, <1>2

LEMMA RateInScale ==
  ASSUME NEW n \in Nat, NEW d \in Nat, n <= d
  PROVE  Rate(n, d) <= 1000
BY DEF Rate, Rounded

-----------------------------------------------------------------------------
\* Types

LEMMA Apart ==
  /\ Unused \notin EventDocs /\ Unused \notin Scored
  /\ EventIds \cap SurveyIds = {} /\ IsFiniteSet(SurveyIds)
  /\ IsFiniteSet(EventIds)
BY DocumentsApart DEF Scored

LEMMA Numbers ==
  /\ MaxTime \in Nat /\ MaxAge \in Nat /\ MaxSkew \in Nat /\ Limit \in Nat
  /\ Names \subseteq EventNames
  /\ \A t \in Times : t \in Int
  /\ \A t \in 0 .. MaxTime : t \in Int /\ t \in Times
BY UsabilityParameters DEF Times

\* What the program counter of a request tells.
LEMMA Positions ==
  ASSUME NEW local, Sound(local)
  PROVE  /\ local.pc = "event" => local \in Recording /\ Linked(local.doc)
         /\ local.pc = "survey" =>
              local \in Submitting(Scored) /\ ~local.doc.gone /\ local.doc.at <= now
         /\ local.pc \in {"purge", "purged"} => PurgeSound(local)
         /\ local.pc \in {"readEvents", "readSurveys", "summary"} => SummarySound(local)
BY DEF Sound, Idle, Recording, Submitting, PurgeSound, Purging, SummarySound, SummingUp

LEMMA StoredDocuments ==
  ASSUME Documents
  PROVE  /\ \A e \in EventIds : e \in Stored(events) <=> events[e] # Unused /\ ~events[e].gone
         /\ \A z \in SurveyIds : z \in Stored(surveys) <=> surveys[z] # Unused /\ ~surveys[z].gone
         /\ Stored(events) \subseteq EventIds /\ Stored(surveys) \subseteq SurveyIds
         /\ \A e \in EventIds : events[e] # Unused => events[e] \in EventDocs
         /\ \A z \in SurveyIds : surveys[z] # Unused => surveys[z] \in Scored
BY DEF Documents, Stored

-----------------------------------------------------------------------------
\* What lasts

\* A document keeps what it says; once gone it stays gone, and it only goes for
\* an actor that was purged.
Grows ==
  /\ now <= now'
  /\ purged \subseteq purged'
  /\ \A e \in EventIds : events[e] # Unused =>
       /\ events'[e] # Unused
       /\ events'[e].at = events[e].at
       /\ events'[e].actor = events[e].actor
       /\ events'[e].survey = events[e].survey
       /\ events[e].gone => events'[e].gone
  /\ \A z \in SurveyIds : surveys[z] # Unused =>
       /\ surveys'[z] # Unused
       /\ surveys'[z].at = surveys[z].at
       /\ surveys'[z].actor = surveys[z].actor
       /\ surveys[z].gone => surveys'[z].gone
       /\ surveys[z].actor \notin purged' /\ ~surveys[z].gone => ~surveys'[z].gone

LEMMA LinkedLasts ==
  ASSUME Grows, NEW doc, Linked(doc)
  PROVE  Linked(doc)'
BY DEF Grows, Linked

LEMMA PurgeSoundLasts ==
  ASSUME Documents, Documents', Grows, NEW local, PurgeSound(local)
  PROVE  PurgeSound(local)'
<1>1. ASSUME local.had \cap Stored(events) = {}
      PROVE  local.had \cap Stored(events)' = {}
  <2> SUFFICES ASSUME NEW e \in local.had, e \in Stored(events)' PROVE FALSE
    OBVIOUS
  <2>1. e \in EventIds /\ ~events'[e].gone
    BY DEF Stored, Documents
  <2>2. events[e] # Unused
    BY <2>1 DEF PurgeSound
  <2>3. ~events[e].gone
    BY <2>1, <2>2 DEF Grows
  <2> QED
    BY <1>1, <2>1, <2>2, <2>3, StoredDocuments
<1>2. ASSUME local.had \cap Stored(surveys) = {}
      PROVE  local.had \cap Stored(surveys)' = {}
  <2> SUFFICES ASSUME NEW z \in local.had, z \in Stored(surveys)' PROVE FALSE
    OBVIOUS
  <2>1. z \in SurveyIds /\ ~surveys'[z].gone
    BY DEF Stored, Documents
  <2>2. surveys[z] # Unused
    BY <2>1 DEF PurgeSound
  <2>3. ~surveys[z].gone
    BY <2>1, <2>2 DEF Grows
  <2> QED
    BY <1>2, <2>1, <2>2, <2>3, StoredDocuments
<1> QED
  BY <1>1, <1>2 DEF PurgeSound, Grows

LEMMA SummarySoundLasts ==
  ASSUME Documents, Grows, NEW local, SummarySound(local)
  PROVE  SummarySound(local)'
<1>1. ASSUME NEW e \in local.found
      PROVE  /\ events'[e] # Unused
             /\ events'[e].at \in local.from .. local.to
             /\ Counted(local, e)' => Counted(local, e)
             /\ events'[e].survey = events[e].survey
  <2>1. e \in EventIds /\ events[e] # Unused /\ Linked(events[e])
    BY DEF SummarySound, SummingUp, Documents
  <2>2. Submitted(e) => /\ events[e].survey \in SurveyIds
                        /\ surveys[events[e].survey] # Unused
    BY <2>1 DEF Linked, Submitted
  <2> QED
    BY <2>1, <2>2 DEF SummarySound, Grows, Counted, Submitted
<1>2. ASSUME NEW e \in local.known
      PROVE  events'[e] # Unused /\ events'[e].at = events[e].at
  BY DEF SummarySound, SummingUp, Grows
<1>3. ASSUME NEW z \in local.surveys PROVE surveys'[z] # Unused
  BY DEF SummarySound, SummingUp, Grows
<1> QED
  BY <1>1, <1>2, <1>3 DEF SummarySound

LEMMA SoundLasts ==
  ASSUME Documents, Documents', Grows, NEW local, Sound(local)
  PROVE  Sound(local)'
<1>1. ASSUME local \in Submitting(Scored), local.doc.at <= now
      PROVE  local.doc.at <= now'
  <2>1. local.doc.at \in Int /\ now \in Int /\ now' \in Int
    BY <1>1, Numbers DEF Submitting, Scored, SurveysWith, Documents
  <2> QED
    BY <1>1, <2>1 DEF Grows
<1> QED
  BY <1>1, LinkedLasts, PurgeSoundLasts, SummarySoundLasts DEF Sound

\* What a request goes on with is as sound as what it carries then.
LEMMA SoundNext ==
  ASSUME NEW q, NEW local, req'[q] = local, Sound(local)'
  PROVE  Sound(req[q])'
<1>1. CASE (local = Idle)'
  BY <1>1 DEF Sound, Idle
<1>2. CASE (local \in Recording /\ Linked(local.doc))'
  BY <1>2 DEF Sound, Recording, Linked
<1>3. CASE (local \in Submitting(Scored) /\ ~local.doc.gone /\ local.doc.at <= now)'
  BY <1>3 DEF Sound, Submitting
<1>4. CASE PurgeSound(local)'
  <2>1. PurgeSound(req[q])'
    BY <1>4 DEF PurgeSound, Purging
  <2> QED
    BY <2>1 DEF Sound
<1>5. CASE SummarySound(local)'
  <2>1. SummarySound(req[q])'
    BY <1>5 DEF SummarySound, SummingUp, Counted, Submitted
  <2> QED
    BY <2>1 DEF Sound
<1> QED
  BY <1>1, <1>2, <1>3, <1>4, <1>5 DEF Sound

\* What is left to show of a step of one request.
LEMMA StepOfOne ==
  ASSUME Inv, Documents', Grows, NEW r \in Requests, NEW local \in Anywhere,
         Go(r, local), Sound(local)'
  PROVE  Inv'
<1>1. /\ req' \in [Requests -> Anywhere] /\ req'[r] = local
      /\ \A q \in Requests : q # r => req'[q] = req[q]
  BY DEF Inv, Go
<1>2. \A l : Sound(l) => Sound(l)'
  BY SoundLasts DEF Inv
<1>3. ASSUME NEW q \in Requests PROVE Sound(req[q])'
  <2>1. CASE q = r
    <3>1. req'[q] = local
      BY <1>1, <2>1
    <3> QED
      BY <3>1, SoundNext
  <2>2. CASE q # r
    <3>1. PICK other : other = req[q]
      OBVIOUS
    <3>2. Sound(other) /\ req'[q] = other
      BY <1>1, <2>2, <3>1 DEF Inv
    <3>3. Sound(other)'
      BY <1>2, <3>2
    <3> QED
      BY <3>2, <3>3, SoundNext
  <2> QED
    BY <2>1, <2>2
<1> QED
  BY <1>1, <1>3 DEF Inv

\* A step of no request's own locals.
LEMMA StepOfNone ==
  ASSUME Inv, Documents', Grows, req' = req
  PROVE  Inv'
<1>1. \A l : Sound(l) => Sound(l)'
  BY SoundLasts DEF Inv
<1>2. ASSUME NEW q \in Requests PROVE Sound(req[q])'
  <2>1. PICK other : other = req[q]
    OBVIOUS
  <2>2. Sound(other) /\ req'[q] = other
    BY <2>1 DEF Inv
  <2>3. Sound(other)'
    BY <1>1, <2>2
  <2> QED
    BY <2>2, <2>3, SoundNext
<1> QED
  BY <1>2 DEF Inv, Anywhere

\* A step that changes no document.
LEMMA QuietStep ==
  ASSUME Inv, UNCHANGED <<events, surveys, now, purged>>,
         NEW r \in Requests, NEW local \in Anywhere, Sound(local), Go(r, local)
  PROVE  Inv'
<1>1. Documents'
  BY DEF Inv, Documents, Linked
<1>2. Grows
  BY Numbers DEF Inv, Documents, Grows
<1>3. Sound(local)'
  BY <1>1, <1>2, SoundLasts DEF Inv
<1> QED
  BY <1>1, <1>2, <1>3, StepOfOne

-----------------------------------------------------------------------------
\* Writing

LEMMA RecordEventStep ==
  ASSUME Inv, NEW r \in Requests, RecordEvent(r)
  PROVE  Inv'
<1>1. PICK actor \in Actors, sent \in Recorded :
        Go(r, [pc |-> "event",
               doc |-> [actor |-> actor, name |-> sent.name, at |-> sent.at,
                        survey |-> Unused, gone |-> FALSE]])
  BY DEF RecordEvent
<1> DEFINE doc == [actor |-> actor, name |-> sent.name, at |-> sent.at,
                   survey |-> Unused, gone |-> FALSE]
           local == [pc |-> "event", doc |-> doc]
<1>2. sent.name \in EventNames /\ sent.at \in Times
  <2>1. now \in 0 .. MaxTime
    BY DEF Inv, Documents
  <2> QED
    BY <2>1, Numbers DEF Recorded, Occurrable, Times
<1>3. doc \in EventDocs /\ Linked(doc)
  BY <1>2 DEF EventDocs, Linked
<1> HIDE DEF doc
<1>4. local \in Recording /\ local.doc = doc
  BY <1>3 DEF Recording
<1> QED
  BY <1>1, <1>3, <1>4, QuietStep DEF RecordEvent, Sound, Anywhere, doc

LEMMA StoreEventStep ==
  ASSUME Inv, NEW r \in Requests, StoreEvent(r)
  PROVE  Inv'
<1> DEFINE doc == req[r].doc
<1>1. PICK e \in Unstored(events) : events' = [events EXCEPT ![e] = doc]
  BY DEF StoreEvent
<1>2. /\ doc \in EventDocs /\ Linked(doc) /\ doc # Unused
      /\ e \in EventIds /\ events[e] = Unused /\ Documents
      /\ UNCHANGED <<surveys, now, purged>> /\ Go(r, Idle)
  BY Positions, Apart DEF StoreEvent, Inv, Recording, Documents, Unstored
<1>3. /\ events' \in [EventIds -> EventDocs \cup {Unused}] /\ events'[e] = doc
      /\ \A f \in EventIds : f # e => events'[f] = events[f]
  BY <1>1, <1>2 DEF Documents
<1>4. Grows
  BY <1>2, <1>3, Numbers DEF Grows, Documents
<1>5. Documents'
  BY <1>2, <1>3 DEF Documents, Linked
<1>6. Idle \in Anywhere /\ Sound(Idle)'
  BY DEF Anywhere, Sound
<1> QED
  BY <1>2, <1>4, <1>5, <1>6, StepOfOne

LEMMA SubmitSusStep ==
  ASSUME Inv, NEW r \in Requests, SubmitSus(r)
  PROVE  Inv'
<1>1. PICK actor \in Actors, answers \in Sheets, feedback \in BOOLEAN :
        Go(r, [pc |-> "survey", feedback |-> feedback,
               doc |-> [actor |-> actor, at |-> now,
                        score |-> SusScore(answers), gone |-> FALSE]])
  BY DEF SubmitSus
<1> DEFINE doc == [actor |-> actor, at |-> now,
                   score |-> SusScore(answers), gone |-> FALSE]
           local == [pc |-> "survey", feedback |-> feedback, doc |-> doc]
<1>2. now \in 0 .. MaxTime
  BY DEF Inv, Documents
<1>3. doc \in Scored /\ ~doc.gone /\ doc.at <= now
  BY <1>2, Numbers DEF Scored, SurveysWith
<1> HIDE DEF doc
<1>4. local \in Submitting(Scored) /\ local.doc = doc
  BY <1>3 DEF Submitting
<1> QED
  BY <1>1, <1>3, <1>4, QuietStep DEF SubmitSus, Sound, Anywhere, doc

LEMMA StoreSurveyStep ==
  ASSUME Inv, NEW r \in Requests, StoreSurvey(r)
  PROVE  Inv'
<1> DEFINE survey == req[r].doc
<1>1. PICK z \in Unstored(surveys) :
        surveys' = [surveys EXCEPT ![z] = survey] /\ Go(r, Feedback(r, z))
  BY DEF StoreSurvey
<1>2. /\ survey \in Scored /\ survey # Unused /\ ~survey.gone /\ survey.at <= now
      /\ z \in SurveyIds /\ surveys[z] = Unused /\ Documents
      /\ UNCHANGED <<events, now, purged>> /\ survey.actor \in Actors
  BY Positions, Apart DEF StoreSurvey, Inv, Submitting, Documents, Unstored, Scored,
     SurveysWith
<1>3. /\ surveys' \in [SurveyIds -> Scored \cup {Unused}] /\ surveys'[z] = survey
      /\ \A y \in SurveyIds : y # z => surveys'[y] = surveys[y]
  BY <1>1, <1>2 DEF Documents
<1>4. Grows
  BY <1>2, <1>3, Numbers DEF Grows, Documents
<1>5. Documents'
  BY <1>2, <1>3, <1>4, LinkedLasts DEF Documents, Linked
<1> DEFINE doc == [actor |-> survey.actor, name |-> "feedback_submitted",
                   at |-> now, survey |-> z, gone |-> FALSE]
           local == [pc |-> "event", doc |-> doc]
<1>6. CASE req[r].feedback
  <2>1. now \in Times
    BY <1>2, Numbers DEF Documents
  <2>2. /\ doc \in EventDocs /\ doc.survey = z /\ doc.actor = survey.actor
        /\ doc.at = now
    BY <1>2, <2>1 DEF EventDocs, EventNames
  <2>3. local \in Recording /\ local.doc = doc
    BY <2>2 DEF Recording
  <2>4. PICK l \in Anywhere : l = local
    BY <2>3 DEF Anywhere
  <2>5. Go(r, l)
    BY <1>1, <1>6, <2>4 DEF Feedback
  <2> HIDE DEF survey, doc
  <2>6. Linked(l.doc)'
    BY <1>2, <1>3, <2>2, <2>3, <2>4 DEF Linked
  <2>7. Sound(l)'
    BY <2>3, <2>4, <2>6 DEF Sound
  <2> QED
    BY <1>4, <1>5, <2>5, <2>7, StepOfOne
<1>7. CASE ~req[r].feedback
  <2>1. Idle \in Anywhere /\ Sound(Idle)' /\ Go(r, Idle)
    BY <1>1, <1>7 DEF Anywhere, Sound, Feedback
  <2> QED
    BY <1>4, <1>5, <2>1, StepOfOne
<1> QED
  BY <1>6, <1>7

-----------------------------------------------------------------------------
\* Purging

LEMMA PurgeActorStep ==
  ASSUME Inv, NEW r \in Requests, PurgeActor(r)
  PROVE  Inv'
<1>1. PICK actor \in Actors :
        /\ Go(r, [pc |-> "purge", actor |-> actor, pending |-> Kinds, failed |-> FALSE,
                  had |-> OfActor(events, actor) \cup OfActor(surveys, actor)])
        /\ purged' = purged \cup {actor}
  BY DEF PurgeActor
<1>2. Documents /\ UNCHANGED <<events, surveys, now>>
  BY DEF PurgeActor, Inv
<1>3. PICK had : had = OfActor(events, actor) \cup OfActor(surveys, actor)
  OBVIOUS
<1>4. /\ had \subseteq EventIds \cup SurveyIds
      /\ \A d \in had : /\ d \in EventIds => events[d] # Unused
                        /\ d \in SurveyIds => surveys[d] # Unused
  BY <1>2, <1>3, StoredDocuments, Apart DEF OfActor
<1>5. Documents'
  BY <1>1, <1>2 DEF Documents, Linked
<1>6. Grows
  BY <1>1, <1>2, Numbers DEF Grows, Documents
<1> DEFINE local == [pc |-> "purge", actor |-> actor, pending |-> Kinds,
                     failed |-> FALSE, had |-> had]
<1>7. /\ local \in Purging /\ local.pc = "purge" /\ local.actor = actor
      /\ local.pending = {"events", "surveys"} /\ local.had = had
  BY <1>4 DEF Purging, Kinds
<1>8. Go(r, local)
  BY <1>1, <1>3
<1> HIDE DEF local
<1>9. PICK l \in Anywhere : l = local
  BY <1>7 DEF Anywhere
<1>10. PurgeSound(l)'
  BY <1>1, <1>2, <1>4, <1>7, <1>9 DEF PurgeSound
<1>11. Sound(l)'
  BY <1>10 DEF Sound
<1> QED
  BY <1>5, <1>6, <1>8, <1>9, <1>11, StepOfOne

LEMMA DeletingPurges ==
  ASSUME Inv, NEW r \in Requests, NEW kind, Deleting(r, kind)
  PROVE  PurgeSound(req[r]) /\ req[r].actor \in purged
BY Positions DEF Deleting, Inv, PurgeSound

LEMMA DeleteEventStep ==
  ASSUME Inv, NEW r \in Requests, DeleteEvent(r)
  PROVE  Inv'
<1>1. PICK e \in OfActor(events, req[r].actor) : events' = [events EXCEPT ![e].gone = TRUE]
  BY DEF DeleteEvent
<1>2. /\ e \in EventIds /\ events[e] # Unused /\ events[e] \in EventDocs /\ Documents
      /\ UNCHANGED <<surveys, req, now, purged>>
  BY StoredDocuments DEF DeleteEvent, OfActor, Inv
<1> DEFINE doc == [events[e] EXCEPT !.gone = TRUE]
<1>3. /\ doc \in EventDocs /\ doc # Unused /\ doc.gone /\ doc.actor = events[e].actor
      /\ doc.at = events[e].at /\ doc.survey = events[e].survey
  BY <1>2, Apart DEF EventDocs
<1>4. events' = [events EXCEPT ![e] = doc]
  BY <1>1
<1> HIDE DEF doc
<1>5. /\ events' \in [EventIds -> EventDocs \cup {Unused}] /\ events'[e] = doc
      /\ \A f \in EventIds : f # e => events'[f] = events[f]
  BY <1>2, <1>3, <1>4 DEF Documents
<1>6. Grows
  BY <1>2, <1>3, <1>5, Numbers DEF Grows, Documents
<1>7. Documents'
  BY <1>2, <1>3, <1>5 DEF Documents, Linked
<1> QED
  BY <1>2, <1>6, <1>7, StepOfNone

LEMMA DeleteSurveyStep ==
  ASSUME Inv, NEW r \in Requests, DeleteSurvey(r)
  PROVE  Inv'
<1>1. PICK z \in OfActor(surveys, req[r].actor) :
        surveys' = [surveys EXCEPT ![z].gone = TRUE]
  BY DEF DeleteSurvey
<1>2. /\ z \in SurveyIds /\ surveys[z] # Unused /\ surveys[z] \in Scored /\ Documents
      /\ UNCHANGED <<events, req, now, purged>> /\ surveys[z].actor \in purged
  BY StoredDocuments, DeletingPurges DEF DeleteSurvey, OfActor, Inv
<1> DEFINE doc == [surveys[z] EXCEPT !.gone = TRUE]
<1>3. /\ doc \in Scored /\ doc # Unused /\ doc.gone /\ doc.actor = surveys[z].actor
      /\ doc.at = surveys[z].at
  BY <1>2, Apart DEF Scored, SurveysWith
<1>4. surveys' = [surveys EXCEPT ![z] = doc]
  BY <1>1
<1> HIDE DEF doc
<1>5. /\ surveys' \in [SurveyIds -> Scored \cup {Unused}] /\ surveys'[z] = doc
      /\ \A y \in SurveyIds : y # z => surveys'[y] = surveys[y]
  BY <1>2, <1>3, <1>4 DEF Documents
<1>6. Grows
  BY <1>2, <1>3, <1>5, Numbers DEF Grows, Documents
<1>7. Documents'
  <2>1. \A e \in EventIds : events'[e] # Unused => Linked(events[e])'
    BY <1>2, <1>6, LinkedLasts DEF Documents, Linked
  <2> QED
    BY <1>2, <1>5, <2>1 DEF Documents
<1> QED
  BY <1>2, <1>6, <1>7, StepOfNone

LEMMA ReturnStep ==
  ASSUME Inv, NEW r \in Requests, NEW kind \in Kinds, Return(r, kind)
  PROVE  Inv'
<1> DEFINE l == req[r]
<1>1. /\ l.pc = "purge" /\ kind \in l.pending /\ PurgeSound(l) /\ l \in Purging
      /\ UNCHANGED <<events, surveys, now, purged>>
  BY DeletingPurges DEF Return, Deleting, PurgeSound
<1>2. PICK failed \in BOOLEAN :
        /\ \/ failed
           \/ l.had \cap (IF kind = "events" THEN Stored(events) ELSE Stored(surveys)) = {}
        /\ Go(r, Settled([l EXCEPT !.pending = @ \ {kind}, !.failed = @ \/ failed]))
  BY DEF Return
<1> DEFINE next == [l EXCEPT !.pending = @ \ {kind}, !.failed = @ \/ failed]
<1>3. /\ next \in Purging /\ next.pc = "purge" /\ next.actor = l.actor /\ next.had = l.had
      /\ next.pending = l.pending \ {kind} /\ (next.failed <=> l.failed \/ failed)
  BY <1>1 DEF Purging
<1>4. Go(r, Settled(next))
  BY <1>2
<1> HIDE DEF next
<1>5. \A k : k = "events" \/ k = "surveys" =>
        (k \notin next.pending => k = kind \/ k \notin l.pending)
  BY <1>3
<1>6. /\ "events" \notin next.pending /\ ~next.failed => l.had \cap Stored(events) = {}
      /\ "surveys" \notin next.pending /\ ~next.failed => l.had \cap Stored(surveys) = {}
  BY <1>1, <1>2, <1>3, <1>5 DEF PurgeSound
<1>7. CASE next.pending # {}
  <2>1. PurgeSound(next)
    BY <1>1, <1>3, <1>6 DEF PurgeSound
  <2>2. next \in Anywhere /\ Sound(next) /\ Go(r, next)
    BY <1>3, <1>4, <1>7, <2>1 DEF Settled, Anywhere, Sound
  <2> QED
    BY <1>1, <2>2, QuietStep
<1>8. CASE next.pending = {} /\ next.failed
  <2>1. Idle \in Anywhere /\ Sound(Idle) /\ Go(r, Idle)
    BY <1>4, <1>8 DEF Settled, Anywhere, Sound
  <2> QED
    BY <1>1, <2>1, QuietStep
<1>9. CASE next.pending = {} /\ ~next.failed
  <2> DEFINE done == [next EXCEPT !.pc = "purged"]
  <2>1. /\ done \in Purging /\ done.pc = "purged" /\ done.actor = l.actor
        /\ done.had = l.had /\ done.pending = {} /\ ~done.failed
    BY <1>3, <1>9 DEF Purging
  <2>2. Go(r, done)
    BY <1>4, <1>9 DEF Settled
  <2> HIDE DEF done
  <2>3. PurgeSound(done)
    BY <1>1, <1>6, <1>9, <2>1 DEF PurgeSound
  <2>4. done \in Anywhere /\ Sound(done)
    BY <2>1, <2>3 DEF Anywhere, Sound
  <2> QED
    BY <1>1, <2>2, <2>4, QuietStep
<1> QED
  BY <1>7, <1>8, <1>9

-----------------------------------------------------------------------------
\* The summary

\* A query finds no more documents than its limit, and if fewer then all.
LEMMA BelowLimit ==
  ASSUME NEW docs, IsFiniteSet(docs), NEW S \in UpTo(docs)
  PROVE  Cardinality(S) <= Limit /\ (Cardinality(S) < Limit => S = docs)
<1> DEFINE c == Cardinality(docs)
<1>1. c \in Nat /\ Limit \in Nat
  BY FS_CardinalityType, Numbers
<1>2. \E x \in {Limit, c} : \A y \in {Limit, c} : x <= y
  BY <1>1
<1>3. Min({Limit, c}) \in {Limit, c} /\ Min({Limit, c}) <= Limit /\ Min({Limit, c}) <= c
  BY <1>2 DEF Min
<1>4. S \in SUBSET docs /\ Cardinality(S) = Min({Limit, c})
  BY DEF UpTo, kSubset
<1>5. Cardinality(S) <= Limit /\ (Cardinality(S) < Limit => Cardinality(S) = c)
  BY <1>1, <1>3, <1>4
<1> QED
  BY <1>4, <1>5, FS_Subset

LEMMA GetSummaryStep ==
  ASSUME Inv, NEW r \in Requests, GetSummary(r)
  PROVE  Inv'
<1>1. PICK from \in Times, to \in Times :
        Go(r, [pc |-> After.start, from |-> from, to |-> to, known |-> {},
               found |-> {}, surveys |-> {}])
  BY DEF GetSummary
<1> DEFINE local == [pc |-> "readEvents", from |-> from, to |-> to, known |-> {},
                     found |-> {}, surveys |-> {}]
<1>2. Go(r, local)
  BY <1>1 DEF After
<1>3. /\ local \in SummingUp /\ local.pc = "readEvents"
      /\ local.known = {} /\ local.found = {} /\ local.surveys = {}
  BY DEF SummingUp
<1> HIDE DEF local
<1>4. local \in Anywhere /\ Sound(local)
  BY <1>3, FS_EmptySet, Numbers DEF Anywhere, Sound, SummarySound
<1> QED
  BY <1>2, <1>4, QuietStep DEF GetSummary

LEMMA ReadEventsStep ==
  ASSUME Inv, NEW r \in Requests, ReadEvents(r)
  PROVE  Inv'
<1> DEFINE l == req[r]
           matching == InPeriod(r, events)
<1>1. PICK S \in Earliest(matching) :
        Go(r, [l EXCEPT !.pc = After[@], !.known = matching, !.found = S])
  BY DEF ReadEvents
<1>2. l.pc = "readEvents" /\ l \in SummingUp /\ Documents
  BY Positions DEF ReadEvents, Inv, SummarySound
<1>3. /\ matching \subseteq EventIds /\ S \subseteq matching
      /\ \A e \in matching : events[e] # Unused /\ events[e].at \in l.from .. l.to
      /\ \A e \in S, f \in matching \ S : events[e].at <= events[f].at
      /\ \A z \in l.surveys : surveys[z] # Unused
  <2>1. \A z \in l.surveys : surveys[z] # Unused
    BY <1>2, Positions DEF ReadEvents, Inv, SummarySound
  <2>2. /\ S \subseteq matching
        /\ \A e \in S, f \in matching \ S : events[e].at <= events[f].at
    BY DEF Earliest, UpTo, kSubset
  <2>3. /\ matching \subseteq EventIds
        /\ \A e \in matching : events[e] # Unused /\ events[e].at \in l.from .. l.to
    BY <1>2, StoredDocuments DEF InPeriod
  <2> QED
    BY <2>1, <2>2, <2>3
<1> DEFINE local == [l EXCEPT !.pc = "readSurveys", !.known = matching, !.found = S]
<1>4. Go(r, local)
  BY <1>1, <1>2 DEF After
<1>5. Cardinality(S) <= Limit
  <2> HIDE DEF matching
  <2>1. IsFiniteSet(matching)
    BY <1>3, Apart, FS_Subset
  <2> QED
    BY <2>1, BelowLimit DEF Earliest
<1> HIDE DEF matching
<1>6. /\ local \in SummingUp /\ local.pc = "readSurveys"
      /\ local.known = matching /\ local.found = S
      /\ local.from = l.from /\ local.to = l.to /\ local.surveys = l.surveys
  BY <1>2, <1>3 DEF SummingUp
<1> HIDE DEF local
<1>7. local \in Anywhere /\ Sound(local)
  BY <1>3, <1>5, <1>6 DEF Anywhere, Sound, SummarySound
<1> QED
  BY <1>4, <1>7, QuietStep DEF ReadEvents

LEMMA ReadSurveysStep ==
  ASSUME Inv, NEW r \in Requests, ReadSurveys(r)
  PROVE  Inv'
<1> DEFINE l == req[r]
           matching == InPeriod(r, surveys)
<1>1. PICK S \in UpTo(matching) : Go(r, [l EXCEPT !.pc = After[@], !.surveys = S])
  BY DEF ReadSurveys
<1>2. l.pc = "readSurveys" /\ SummarySound(l) /\ l \in SummingUp /\ Documents
  BY Positions DEF ReadSurveys, Inv, SummarySound
<1>3. /\ matching \subseteq SurveyIds /\ S \subseteq matching /\ IsFiniteSet(matching)
      /\ \A z \in S : surveys[z] # Unused
  <2>1. /\ matching \subseteq SurveyIds /\ S \subseteq matching
        /\ \A z \in S : surveys[z] # Unused
    BY <1>2, StoredDocuments DEF InPeriod, UpTo, kSubset
  <2> QED
    BY <2>1, Apart, FS_Subset
<1> DEFINE local == [l EXCEPT !.pc = "summary", !.surveys = S]
<1>4. Go(r, local)
  BY <1>1, <1>2 DEF After
<1>5. /\ local \in SummingUp /\ local.pc = "summary" /\ local.found = l.found
      /\ local.from = l.from /\ local.to = l.to /\ local.surveys = S
      /\ local.known = l.known
  BY <1>2, <1>3 DEF SummingUp
<1> HIDE DEF local
<1>6. ASSUME NEW e \in l.found, Counted(local, e) PROVE events[e].survey \in S
  <2> DEFINE z == events[e].survey
  <2>1. e \in EventIds /\ events[e] # Unused /\ Linked(events[e])
    BY <1>2 DEF SummarySound, SummingUp, Documents
  <2>2. /\ z \in SurveyIds /\ surveys[z] # Unused /\ ~surveys[z].gone
        /\ surveys[z].at <= events[e].at /\ surveys[z].at >= l.from
        /\ Cardinality(S) < Limit
    BY <1>5, <1>6, <2>1 DEF Linked, Counted, Submitted
  <2>3. /\ events[e].at \in l.from .. l.to /\ surveys[z].at \in Int
        /\ l.from \in Int /\ l.to \in Int
    BY <1>2, <2>2, StoredDocuments, Numbers DEF SummarySound, SummingUp, Scored, SurveysWith
  <2>4. surveys[z].at \in l.from .. l.to
    BY <2>2, <2>3
  <2>5. z \in matching
    BY <1>2, <2>2, <2>4, StoredDocuments DEF InPeriod
  <2> QED
    BY <1>3, <2>2, <2>5, BelowLimit
<1>7. local \in Anywhere /\ Sound(local)
  BY <1>2, <1>3, <1>5, <1>6 DEF Anywhere, Sound, SummarySound
<1> QED
  BY <1>4, <1>7, QuietStep DEF ReadSurveys

-----------------------------------------------------------------------------
\* The theorems

LEMMA LeaveOrAbortStep ==
  ASSUME Inv, NEW r \in Requests, Leave(r) \/ Abort(r)
  PROVE  Inv'
<1>1. Idle \in Anywhere /\ Sound(Idle)
  BY DEF Anywhere, Sound
<1> QED
  BY <1>1, QuietStep DEF Leave, Abort

LEMMA TickStep ==
  ASSUME Inv, Tick
  PROVE  Inv'
<1>1. /\ now' = now + 1 /\ now < MaxTime /\ Documents
      /\ UNCHANGED <<events, surveys, req, purged>>
  BY DEF Tick, Inv
<1>2. now' \in 0 .. MaxTime /\ now <= now'
  BY <1>1, Numbers DEF Documents
<1>3. Documents'
  BY <1>1, <1>2 DEF Documents, Linked
<1>4. Grows
  BY <1>1, <1>2 DEF Grows
<1> QED
  BY <1>1, <1>3, <1>4, StepOfNone

LEMMA Initially == Init => Inv
BY Numbers DEF Init, Inv, Documents, Anywhere, Sound

LEMMA Inductive == Inv /\ [Next]_vars => Inv'
<1> SUFFICES ASSUME Inv, [Next]_vars PROVE Inv'
  OBVIOUS
<1>1. ASSUME NEW r \in Requests, RequestStep(r) PROVE Inv'
  BY <1>1, RecordEventStep, StoreEventStep, SubmitSusStep, StoreSurveyStep,
     PurgeActorStep, DeleteEventStep, DeleteSurveyStep, ReturnStep, GetSummaryStep,
     ReadEventsStep, ReadSurveysStep, LeaveOrAbortStep DEF RequestStep
<1>2. CASE Tick
  BY <1>2, TickStep
<1>3. CASE UNCHANGED vars
  <2>1. UNCHANGED <<events, surveys, req, now, purged>> /\ Documents
    BY <1>3 DEF vars, Inv
  <2>2. Documents'
    BY <2>1 DEF Documents, Linked
  <2>3. Grows
    BY <2>1, Numbers DEF Grows, Documents
  <2> QED
    BY <2>1, <2>2, <2>3, StepOfNone
<1> QED
  BY <1>1, <1>2, <1>3 DEF Next

LEMMA Always == Spec => []Inv
BY Initially, Inductive, PTL DEF Spec

\* However the two deleteMany of a purge interleave with each other, fail, and
\* overlap with other requests: an answered purge has left nothing its actor had
\* when it began.
THEOREM PurgesComplete == Spec => []PurgeComplete
<1>1. Inv => PurgeComplete
  <2> SUFFICES ASSUME Inv, NEW r \in Requests, req[r].pc = "purged"
               PROVE  req[r].had \cap (Stored(events) \cup Stored(surveys)) = {}
    BY DEF PurgeComplete
  <2>1. PurgeSound(req[r])
    BY Positions DEF Inv
  <2> QED
    BY <2>1 DEF PurgeSound
<1> QED
  BY <1>1, Always, PTL

\* submitSus awaits the survey before it records the feedback event: no event
\* with feedback lacks its survey, unless somebody purged the actor.
THEOREM FeedbackHasItsSurvey == Spec => []FeedbackHasSurvey
<1>1. Inv => FeedbackHasSurvey
  <2> SUFFICES ASSUME Inv, NEW e \in Stored(events), Submitted(e),
                      events[e].actor \notin purged
               PROVE  events[e].survey \in Stored(surveys)
    BY DEF FeedbackHasSurvey
  <2>1. Documents /\ e \in EventIds /\ events[e] # Unused
    BY StoredDocuments DEF Inv
  <2>2. Linked(events[e])
    BY <2>1 DEF Documents
  <2> QED
    BY <2>1, <2>2, StoredDocuments DEF Linked, Submitted
<1> QED
  BY <1>1, Always, PTL

\* getSummary reads events before surveys: whatever is stored or purged between
\* the two reads, a session is counted for its feedback only with its survey,
\* within the bounds the property names.
THEOREM SummariesSound == Spec => []SummarySessions
<1>1. Inv => SummarySessions
  <2> SUFFICES ASSUME Inv, NEW r \in Requests, req[r].pc = "summary",
                      NEW e \in req[r].found, Counted(req[r], e)
               PROVE  events[e].survey \in req[r].surveys
    BY DEF SummarySessions, Counted
  <2>1. SummarySound(req[r])
    BY Positions DEF Inv
  <2> QED
    BY <2>1 DEF SummarySound
<1> QED
  BY <1>1, Always, PTL

LEMMA ScoredDocs == Scored \subseteq SurveyDocs
<1>1. ASSUME NEW answers \in Sheets PROVE SusScore(answers) \in 0 .. 1000
  BY ScoreInScale, UsabilityParameters
<1> QED
  BY <1>1 DEF Scored, SurveyDocs, SurveysWith

\* Every score stored is one the schema admits, and the figures of a summary
\* stay within their scales, however many documents it reads: calculateSusScore
\* and average are right about any answers.
THEOREM TypeCorrect == Spec => []TypeOK
<1>1. Inv => TypeOK
  <2> SUFFICES ASSUME Inv PROVE TypeOK
    OBVIOUS
  <2>1. surveys \in [SurveyIds -> SurveyDocs \cup {Unused}] /\ Documents
    BY ScoredDocs DEF Inv, Documents
  <2>2. req \in [Requests -> Locals]
    BY ScoredDocs DEF Inv, Anywhere, Locals, Submitting
  <2>3. ASSUME NEW r \in Requests, req[r].pc = "summary"
        PROVE  SampleSize(req[r].found) <= Limit
    <3> DEFINE S == req[r].found
    <3>1. SummarySound(req[r]) /\ S \subseteq EventIds
      BY <2>3, Positions DEF Inv, SummarySound, SummingUp
    <3>2. IsFiniteSet(S) /\ Cardinality(S) \in Nat /\ Cardinality(S) <= Limit
      BY <3>1, Apart, FS_Subset, FS_CardinalityType DEF SummarySound
    <3> HIDE DEF S
    <3> DEFINE T == {events[e].actor : e \in S}
               actor == [e \in S |-> events[e].actor]
    <3>3. actor \in Surjection(S, T)
      <4>1. actor \in [S -> T] /\ \A t \in T : \E e \in S : actor[e] = t
        OBVIOUS
      <4> HIDE DEF actor, T
      <4> QED
        BY <4>1, Fun_IsSurj
    <3>4. SampleSize(S) = Cardinality(T)
      BY DEF SampleSize
    <3> HIDE DEF actor, T
    <3>5. IsFiniteSet(T) /\ Cardinality(T) <= Cardinality(S)
      BY <3>2, <3>3, FS_Surjection
    <3> QED
      BY <3>2, <3>4, <3>5, FS_CardinalityType, Numbers DEF S
  <2>4. ASSUME NEW r \in Requests, req[r].pc = "summary",
               AverageScore(req[r].surveys) # NoFigure
        PROVE  /\ AverageScore(req[r].surveys) \in Nat
               /\ AverageScore(req[r].surveys) <= 100000
    <3> DEFINE S == req[r].surveys
               scores == [z \in S |-> surveys[z].score]
    <3>1. S \subseteq SurveyIds /\ \A z \in S : surveys[z] # Unused
      BY <2>4, Positions DEF Inv, SummarySound, SummingUp
    <3>2. IsFiniteSet(S)
      BY <3>1, Apart, FS_Subset
    <3>3. ASSUME NEW z \in S PROVE surveys[z].score \in Nat /\ surveys[z].score <= 1000
      BY <2>1, <3>1 DEF SurveyDocs, SurveysWith
    <3>4. scores \in [S -> Nat] /\ \A z \in S : scores[z] <= 1000
      BY <3>3
    <3> HIDE DEF S
    <3>5. AverageScore(S) = Average(scores)
      BY DEF AverageScore
    <3> HIDE DEF scores
    <3> QED
      BY <2>4, <3>2, <3>4, <3>5, AverageInScale DEF S
  <2> QED
    BY <2>1, <2>2, <2>3, <2>4 DEF TypeOK, Documents
<1> QED
  BY <1>1, Always, PTL

\* findEvents reads the earliest events up to its limit: whatever it leaves out,
\* no task is shown as completed whose start is not, so a summary never shows
\* more completions than starts unless there were more.
THEOREM CompletionsBounded == Spec => []CompletionBounded
<1>1. Inv => CompletionBounded
  <2> SUFFICES ASSUME Inv, NEW r \in Requests, req[r].pc = "summary",
                      Paired(req[r].known)
               PROVE  /\ Cardinality(Named(req[r].found, "task_completed"))
                           <= Cardinality(Named(req[r].found, "task_started"))
                      /\ CompletionRate(req[r].found) <= 1000
    BY DEF CompletionBounded
  <2> DEFINE K == req[r].known
             F == req[r].found
             completed == Named(F, "task_completed")
             started == Named(F, "task_started")
  <2>1. /\ F \subseteq K /\ K \subseteq EventIds
        /\ \A e \in K : events[e] # Unused
        /\ \A e \in F, f \in K \ F : events[e].at <= events[f].at
    BY Positions DEF Inv, SummarySound, SummingUp
  <2>2. \A e \in K : events[e].at \in Int
    BY <2>1, StoredDocuments, Numbers DEF Inv, EventDocs
  <2>3. PICK start \in [Named(K, "task_completed") -> Named(K, "task_started")] :
          /\ IsInjective(start)
          /\ \A e \in DOMAIN start : events[start[e]].at < events[e].at
    BY DEF Paired
  <2>4. ASSUME NEW e \in completed PROVE start[e] \in started
    <3>1. e \in F /\ e \in Named(K, "task_completed")
      BY <2>1 DEF Named
    <3>2. /\ start[e] \in K /\ events[start[e]].name = "task_started"
          /\ events[start[e]].at < events[e].at
      BY <2>3, <3>1 DEF Named
    <3>3. start[e] \in F
      BY <2>1, <2>2, <3>1, <3>2
    <3> QED
      BY <3>2, <3>3 DEF Named
  <2> DEFINE own == [e \in completed |-> start[e]]
  <2>5. own \in Injection(completed, started)
    <3>1. own \in [completed -> started]
      BY <2>4
    <3>2. completed \subseteq Named(K, "task_completed")
      BY <2>1 DEF Named
    <3>3. \A e, f \in completed : own[e] = own[f] => e = f
      BY <2>3, <3>2 DEF IsInjective
    <3> HIDE DEF own, completed, started
    <3> QED
      BY <3>1, <3>3, Fun_IsInj
  <2>6. IsFiniteSet(started)
    <3>1. started \subseteq EventIds
      BY <2>1 DEF Named
    <3> QED
      BY <3>1, Apart, FS_Subset
  <2>7. /\ Cardinality(completed) \in Nat /\ Cardinality(started) \in Nat
        /\ Cardinality(completed) <= Cardinality(started)
    <3> HIDE DEF own, completed, started
    <3> QED
      BY <2>5, <2>6, FS_Injection, FS_CardinalityType
  <2>8. CompletionRate(F) <= 1000
    BY <2>7, RateInScale DEF CompletionRate
  <2> QED
    BY <2>7, <2>8
<1> QED
  BY <1>1, Always, PTL

-----------------------------------------------------------------------------
\* Percentiles and web vitals

LEMMA SequenceOfNumbers ==
  ASSUME NEW values \in Seq(Int)
  PROVE  /\ Len(values) \in Nat /\ DOMAIN values = 1 .. Len(values)
         /\ IsFiniteSet(DOMAIN values) /\ Cardinality(DOMAIN values) = Len(values)
         /\ \A i \in DOMAIN values : values[i] \in Int
         /\ values # <<>> => Len(values) >= 1
<1>1. /\ Len(values) \in Nat /\ DOMAIN values = 1 .. Len(values)
      /\ \A i \in DOMAIN values : values[i] \in Int
      /\ values # <<>> => Len(values) >= 1
  OBVIOUS
<1>2. \A n \in Nat : IsFiniteSet(1 .. n) /\ Cardinality(1 .. n) = n
  BY FS_Interval
<1> QED
  BY <1>1, <1>2

\* The rank of a percentile is the least that covers so many of the values.
LEMMA RankCovers ==
  ASSUME NEW n \in Nat \ {0}, NEW percent \in Nat, 1 <= percent, percent <= 100
  PROVE  LET r == Rank(n, percent)
         IN  /\ r \in Nat /\ 1 <= r /\ r <= n
             /\ percent * n <= 100 * r
             /\ 100 * (r - 1) < percent * n
<1> DEFINE p == percent * n
           q == (p + 99) \div 100
<1>1. p \in Nat /\ 1 <= p /\ p <= 100 * n
  <2>1. \A k \in Nat : k * n \in Nat
    OBVIOUS
  <2>2. /\ percent - 1 \in Nat /\ percent * n = n + (percent - 1) * n
        /\ 100 - percent \in Nat /\ 100 * n = percent * n + (100 - percent) * n
    OBVIOUS
  <2>3. percent * n \in Nat /\ (percent - 1) * n \in Nat /\ (100 - percent) * n \in Nat
    BY <2>1, <2>2
  <2> QED
    BY <2>2, <2>3
<1> HIDE DEF p
<1>2. q \in Nat /\ p <= 100 * q /\ 100 * (q - 1) < p
  BY <1>1
<1>3. 1 <= q /\ q <= n
  BY <1>1, <1>2
<1> HIDE DEF q
<1>4. Min({n, q}) = q
  <2>1. \A y \in {n, q} : q <= y
    BY <1>2, <1>3
  <2>2. \A x \in {n, q} : (\A y \in {n, q} : x <= y) => x = q
    BY <1>2, <1>3
  <2> QED
    BY <2>1, <2>2 DEF Min
<1>5. Rank(n, percent) = q
  BY <1>4 DEF Rank, p, q
<1> QED
  BY <1>2, <1>3, <1>5 DEF p

\* For any values in any order, the percentile shown is the smallest value that
\* so many of them do not exceed.
THEOREM PercentileIsNearest ==
  ASSUME NEW values \in Seq(Int), values # <<>>,
         NEW percent \in Nat, 1 <= percent, percent <= 100
  PROVE  Percentile(values, percent) = Nearest(values, percent)
<1> DEFINE n == Len(values)
           D == DOMAIN values
           order == Sorted(values)
           r == Rank(n, percent)
           v == values[order[r]]
           upto(w) == {i \in D : values[i] <= w}
           Covering == {w \in Range(values) : 100 * Cardinality(upto(w)) >= percent * n}
<1>1. /\ n \in Nat \ {0} /\ D = 1 .. n /\ IsFiniteSet(D) /\ Cardinality(D) = n
      /\ \A i \in D : values[i] \in Int
  BY SequenceOfNumbers
<1>2. /\ order \in [1 .. n -> D]
      /\ \A k, m \in 1 .. n : k < m =>
           values[order[k]] <= values[order[m]] /\ order[k] # order[m]
      /\ \A i \in D : \E k \in 1 .. n : order[k] = i
  <2>1. D \subseteq Int
    BY <1>1
  <2> HIDE DEF order
  <2> QED
    BY <1>1, <2>1, SortedSorts DEF order
<1>3. /\ r \in Nat /\ 1 <= r /\ r <= n
      /\ percent * n <= 100 * r /\ 100 * (r - 1) < percent * n
  BY <1>1, RankCovers
<1>4. Percentile(values, percent) = v
  BY DEF Percentile
<1>5. Nearest(values, percent) = Min(Covering)
  BY DEF Nearest
<1> HIDE DEF n, D, order, r
<1>6. /\ order[r] \in D /\ v \in Int /\ v \in Range(values)
      /\ percent * n \in Int
  BY <1>1, <1>2, <1>3 DEF D, Range
<1>7. \A w : IsFiniteSet(upto(w)) /\ Cardinality(upto(w)) \in Nat
  <2>1. \A w : upto(w) \in SUBSET D
    OBVIOUS
  <2> HIDE DEF upto
  <2> QED
    BY <1>1, <2>1, FS_Subset, FS_CardinalityType
<1>8. \A k \in Nat : IsFiniteSet(1 .. k) /\ Cardinality(1 .. k) = k
  BY FS_Interval
<1>9. r <= Cardinality(upto(v))
  <2> DEFINE f == [k \in 1 .. r |-> order[k]]
  <2>1. ASSUME NEW k \in 1 .. r PROVE order[k] \in upto(v)
    <3>1. k \in 1 .. n /\ r \in 1 .. n /\ order[k] \in D
      <4>1. k \in 1 .. n /\ r \in 1 .. n
        BY <1>1, <1>3
      <4> QED
        BY <1>2, <4>1
    <3>2. CASE k = r
      BY <1>6, <3>2
    <3>3. CASE k # r
      BY <1>2, <1>3, <3>1, <3>3
    <3> QED
      BY <3>2, <3>3
  <2>2. \A k, m \in 1 .. r : order[k] = order[m] => k = m
    <3>1. \A k \in 1 .. r : k \in 1 .. n
      BY <1>1, <1>3
    <3> QED
      BY <1>2, <1>3, <3>1
  <2>3. f \in [1 .. r -> upto(v)] /\ \A k, m \in 1 .. r : f[k] = f[m] => k = m
    BY <2>1, <2>2
  <2> HIDE DEF f, upto, v
  <2>4. f \in Injection(1 .. r, upto(v))
    BY <2>3, Fun_IsInj
  <2>5. Cardinality(1 .. r) <= Cardinality(upto(v))
    BY <1>7, <2>4, FS_Injection
  <2> QED
    BY <1>3, <1>8, <2>5
<1>10. v \in Covering
  <2>1. 100 * Cardinality(upto(v)) >= percent * n
    <3> HIDE DEF upto, v
    <3> QED
      BY <1>3, <1>6, <1>7, <1>9
  <2> QED
    BY <1>6, <2>1
<1>11. ASSUME NEW w \in Covering PROVE v <= w
  <2>1. w \in Int
    BY <1>1 DEF D, Range
  <2> SUFFICES ASSUME w < v PROVE FALSE
    BY <1>6, <2>1
  <2> DEFINE place == [i \in upto(w) |-> CHOOSE k \in 1 .. n : order[k] = i]
  <2>2. ASSUME NEW i \in upto(w)
        PROVE  place[i] \in 1 .. r - 1 /\ order[place[i]] = i
    <3>1. place[i] \in 1 .. n /\ order[place[i]] = i /\ i \in D /\ values[i] <= w
      <4>1. i \in D /\ values[i] <= w
        OBVIOUS
      <4>2. place[i] = CHOOSE k \in 1 .. n : order[k] = i
        OBVIOUS
      <4>3. \E k \in 1 .. n : order[k] = i
        BY <1>2, <4>1
      <4> HIDE DEF place
      <4> QED
        BY <4>1, <4>2, <4>3
    <3>2. ASSUME NEW k \in 1 .. n, r <= k PROVE v <= values[order[k]]
      <4>1. CASE k = r
        BY <1>6, <4>1
      <4>2. CASE k # r
        BY <1>1, <1>2, <1>3, <3>2, <4>2
      <4> QED
        BY <4>1, <4>2
    <3> HIDE DEF place, v
    <3>3. values[i] \in Int
      BY <1>1, <3>1
    <3>4. ~ (r <= place[i])
      BY <1>6, <2>1, <3>1, <3>2, <3>3
    <3> QED
      BY <1>1, <1>3, <3>1, <3>4
  <2>3. /\ place \in [upto(w) -> 1 .. r - 1]
        /\ \A i, j \in upto(w) : place[i] = place[j] => i = j
    <3> HIDE DEF upto, v
    <3>1. place = [i \in upto(w) |-> place[i]]
      OBVIOUS
    <3> HIDE DEF place
    <3>2. \A i \in upto(w) : place[i] \in 1 .. r - 1 /\ order[place[i]] = i
      BY <2>2
    <3>3. place \in [upto(w) -> 1 .. r - 1]
      BY <3>1, <3>2
    <3> QED
      BY <3>2, <3>3
  <2> HIDE DEF place, upto, v
  <2>4. place \in Injection(upto(w), 1 .. r - 1)
    BY <2>3, Fun_IsInj
  <2>5. r - 1 \in Nat
    BY <1>3
  <2>6. Cardinality(upto(w)) <= r - 1
    <3>1. IsFiniteSet(1 .. r - 1) /\ Cardinality(1 .. r - 1) = r - 1
      BY <1>8, <2>5
    <3>2. Cardinality(upto(w)) <= Cardinality(1 .. r - 1)
      BY <2>4, <3>1, FS_Injection
    <3> QED
      BY <3>1, <3>2
  <2> QED
    BY <1>3, <1>6, <1>7, <2>6
<1>12. Min(Covering) = v
  <2>1. \A w \in Covering : w \in Int
    BY <1>1 DEF D, Range
  <2> HIDE DEF Covering, v
  <2>2. \A x \in Covering : (\A y \in Covering : x <= y) => x = v
    BY <1>6, <1>10, <1>11, <2>1
  <2>3. \A y \in Covering : v <= y
    BY <1>11
  <2> QED
    BY <1>10, <2>2, <2>3 DEF Min
<1> QED
  BY <1>4, <1>5, <1>12

\* The median and the 95th percentile of a summary are the nearest ranks of any
\* durations whatever.
THEOREM RanksAreNearest ==
  ASSUME NEW values \in Seq(Int)
  PROVE  RanksNearest(values)
<1>1. /\ 50 \in Nat /\ 1 <= 50 /\ 50 <= 100
      /\ 95 \in Nat /\ 1 <= 95 /\ 95 <= 100
  OBVIOUS
<1>2. values # <<>> =>
        /\ Percentile(values, 50) = Nearest(values, 50)
        /\ Percentile(values, 95) = Nearest(values, 95)
  BY <1>1, PercentileIsNearest
<1> QED
  BY <1>2, Zenon DEF RanksNearest

\* What is shown, so many times, is the sum but for rounding.
Close(shown, times, sum) == 2 * (times * shown - 1000 * sum) \in -times .. times

LEMMA RoundedClosely ==
  ASSUME NEW n \in Int, NEW d \in Nat \ {0}
  PROVE  Close(Rounded(n, d), d, n)
<1> DEFINE p == 2000 * n + d
           e == 2 * d
           q == p \div e
<1>1. p \in Int /\ e \in Nat \ {0}
  OBVIOUS
<1>2. q \in Int /\ e * q <= p /\ p < e * q + e
  <2> HIDE DEF p, e
  <2> QED
    BY <1>1
<1>3. Rounded(n, d) = q
  BY DEF Rounded
<1> HIDE DEF q
<1>4. e * q = 2 * (d * q)
  BY <1>2
<1> DEFINE t == d * q
<1>5. t \in Int
  BY <1>2
<1>6. 2 * t <= 2000 * n + d /\ 2000 * n + d < 2 * t + 2 * d
  <2>1. e * q = 2 * t
    BY <1>4
  <2> HIDE DEF t
  <2> QED
    BY <1>2, <2>1, <1>5
<1>7. 2 * (t - 1000 * n) \in -d .. d
  <2> HIDE DEF t
  <2> QED
    BY <1>5, <1>6
<1> QED
  BY <1>2, <1>3, <1>7 DEF Close

\* The figures shown for web vitals account for any events, of any metrics.
THEOREM VitalsAreAccounted ==
  ASSUME NEW Metrics, NEW reports \in Seq([metric : Metrics, value : Int \cup {NoFigure}])
  PROVE  VitalsAccounted(reports)
<1> DEFINE D == DOMAIN reports
           valid == {i \in D : reports[i].value # NoFigure}
           of(m) == {i \in valid : reports[i].metric = m}
           M == {reports[i].metric : i \in valid}
           class == [i \in valid |-> reports[i].metric]
           worth == [i \in D |-> reports[i].value]
           figures == WebVitals(reports)
           counts == [m \in M |-> figures[m].count]
           among(m) == [i \in D |-> IF reports[i].metric = m /\ reports[i].value # NoFigure
                                      THEN reports[i].value ELSE 0]
<1>1. /\ IsFiniteSet(D) /\ IsFiniteSet(valid)
      /\ \A m : of(m) \in SUBSET D /\ IsFiniteSet(of(m)) /\ Cardinality(of(m)) \in Nat
  <2>1. D = 1 .. Len(reports) /\ Len(reports) \in Nat
    OBVIOUS
  <2>2. IsFiniteSet(D)
    BY <2>1, FS_Interval
  <2>3. valid \in SUBSET D /\ \A m : of(m) \in SUBSET D
    OBVIOUS
  <2> HIDE DEF D, valid, of
  <2> QED
    BY <2>2, <2>3, FS_Subset, FS_CardinalityType
<1>2. \A i \in valid : reports[i].value \in Int
  <2> SUFFICES ASSUME NEW i \in valid PROVE reports[i].value \in Int
    OBVIOUS
  <2>1. reports[i] \in [metric : Metrics, value : Int \cup {NoFigure}]
    <3> DEFINE some == [metric : Metrics, value : Int \cup {NoFigure}]
    <3>1. reports \in Seq(some) /\ i \in DOMAIN reports
      OBVIOUS
    <3> HIDE DEF some, valid
    <3>2. reports[i] \in some
      BY <3>1
    <3> QED
      BY <3>2 DEF some
  <2> QED
    BY <2>1
<1>3. IsFiniteSet(M)
  <2>1. class \in Surjection(valid, M)
    BY DEF Surjection
  <2> HIDE DEF class, valid, M
  <2> QED
    BY <1>1, <2>1, FS_Surjection
<1>4. ASSUME NEW m \in M PROVE Cardinality(of(m)) \in Nat \ {0}
  <2>1. of(m) # {}
    OBVIOUS
  <2> HIDE DEF of, M
  <2> QED
    BY <1>1, <2>1, FS_EmptySet
<1>5. /\ DOMAIN figures = M
      /\ \A m \in M :
           /\ figures[m].count = Cardinality(of(m))
           /\ figures[m].average =
                Rounded(FoldFunction(+, 0, [i \in of(m) |-> reports[i].value]),
                        Cardinality(of(m)))
  BY Zenon DEF WebVitals
<1> HIDE DEF figures
<1>6. FoldFunction(+, 0, [m \in DOMAIN figures |-> figures[m].count]) = Cardinality(valid)
  <2>1. [m \in DOMAIN figures |-> figures[m].count] = counts
    BY <1>5
  <2>2. DOMAIN counts = M
    OBVIOUS
  <2>3. \A m \in M : counts[m] = Cardinality(Among(valid, class, {m}))
    <3> SUFFICES ASSUME NEW m \in M
                 PROVE  counts[m] = Cardinality(Among(valid, class, {m}))
      OBVIOUS
    <3>1. Among(valid, class, {m}) = of(m)
      BY DEF Among
    <3> QED
      BY <1>5, <3>1
  <2>4. Among(valid, class, M) = valid
    BY DEF Among
  <2> HIDE DEF counts, class, valid, M
  <2>5. SumOver(counts, M) = Cardinality(Among(valid, class, M))
    <3>1. IsFiniteSet(valid) /\ IsFiniteSet(M)
      BY <1>1, <1>3
    <3> QED
      BY <2>3, <3>1, CountedByClass
  <2>6. FoldFunction(+, 0, counts) = SumOver(counts, M)
    BY <2>2, FoldIsSum, Zenon
  <2> QED
    BY <2>1, <2>4, <2>5, <2>6, Zenon
<1>7. ASSUME NEW m \in M
      PROVE  FoldFunction(+, 0, among(m)) =
               FoldFunction(+, 0, [i \in of(m) |-> reports[i].value])
  <2> DEFINE f == among(m)
             g == [i \in of(m) |-> reports[i].value]
             S == of(m)
  <2>1. /\ DOMAIN f = D /\ DOMAIN g = S /\ S \in SUBSET D
        /\ \A i \in S : f[i] = g[i] /\ g[i] \in Int
        /\ \A i \in D \ S : f[i] = 0
        /\ \A i \in D : f[i] \in Int
    <3>1. DOMAIN f = D /\ DOMAIN g = S /\ S \in SUBSET D
      OBVIOUS
    <3>2. ASSUME NEW i \in S
          PROVE  f[i] = reports[i].value /\ g[i] = reports[i].value /\ f[i] \in Int
      <4>1. i \in valid /\ i \in D /\ reports[i].metric = m /\ reports[i].value # NoFigure
        OBVIOUS
      <4> QED
        BY <1>2, <4>1
    <3>3. ASSUME NEW i \in D \ S PROVE f[i] = 0
      OBVIOUS
    <3> HIDE DEF f, g, D, S
    <3> QED
      BY <3>1, <3>2, <3>3
  <2>2. FoldFunction(+, 0, f) = SumOver(f, D) /\ FoldFunction(+, 0, g) = SumOver(g, S)
    <3> HIDE DEF f, g, D, S
    <3> QED
      BY <2>1, FoldIsSum, Zenon
  <2>3. SumOver(f, D) = SumOver(g, S)
    <3> HIDE DEF f, g, D, S
    <3> QED
      BY <1>1, <2>1, SumOfOthers
  <2> QED
    BY <2>2, <2>3
<1>8. ASSUME NEW m \in M
      PROVE  Close(figures[m].average, figures[m].count, FoldFunction(+, 0, among(m)))
  <2> DEFINE s == FoldFunction(+, 0, [i \in of(m) |-> reports[i].value])
             c == Cardinality(of(m))
  <2>1. s \in Int
    <3> DEFINE g == [i \in of(m) |-> reports[i].value]
    <3>1. DOMAIN g = of(m) /\ \A i \in of(m) : g[i] \in Int
      BY <1>2
    <3> HIDE DEF g, of
    <3>2. SumOver(g, of(m)) \in Int
      BY <1>1, <3>1, SumIsNumber
    <3>3. FoldFunction(+, 0, g) = SumOver(g, of(m))
      BY <3>1, FoldIsSum, Zenon
    <3> QED
      BY <3>2, <3>3 DEF g
  <2>2. c \in Nat \ {0}
    BY <1>4
  <2>3. figures[m].count = c /\ figures[m].average = Rounded(s, c)
    BY <1>5, Zenon
  <2>4. FoldFunction(+, 0, among(m)) = s
    BY <1>7, Zenon
  <2> HIDE DEF s, c, among, M
  <2>5. Close(Rounded(s, c), c, s)
    BY <2>1, <2>2, RoundedClosely
  <2> QED
    BY <2>3, <2>4, <2>5, Zenon
<1> QED
  <2>1. DOMAIN figures = M
    BY <1>5
  <2>2. \A m \in DOMAIN figures :
          2 * (figures[m].count * figures[m].average - 1000 * FoldFunction(+, 0, among(m)))
            \in -figures[m].count .. figures[m].count
    BY <2>1, <1>8, Zenon DEF Close
  <2>3. Cardinality(valid) = Cardinality({i \in DOMAIN reports : reports[i].value # NoFigure})
    OBVIOUS
  <2> QED
    BY <1>6, <2>2, <2>3, Zenon DEF VitalsAccounted, figures

\* What a summary computes is right in every state of the instance that TLC
\* explores too.
THEOREM FiguresAlwaysRight == MCSpec => []FiguresRight
<1>1. \A S, n : BoundedSeq(S, n) \subseteq Seq(S)
  BY DEF BoundedSeq, SeqOf
<1>2. Samples \subseteq Seq(Int)
  <2>1. BoundedSeq(1 .. 3, 4) \subseteq Seq(1 .. 3) /\ Seq(1 .. 3) \subseteq Seq(Int)
    BY <1>1
  <2>2. \A n \in 1 .. 41 : [i \in 1 .. n |-> n - i] \in Seq(Int)
    OBVIOUS
  <2> QED
    BY <2>1, <2>2 DEF Samples
<1>3. Vitals \subseteq Seq([metric : {"LCP", "INP"}, value : Int \cup {NoFigure}])
  <2> DEFINE few == [metric : {"LCP", "INP"}, value : {1, 2, 4, NoFigure}]
             all == [metric : {"LCP", "INP"}, value : Int \cup {NoFigure}]
  <2>1. few \subseteq all
    OBVIOUS
  <2>2. Vitals \subseteq Seq(few)
    BY <1>1 DEF Vitals
  <2>3. \A S, T : S \subseteq T => Seq(S) \subseteq Seq(T)
    OBVIOUS
  <2> HIDE DEF few, all
  <2>4. Vitals \subseteq Seq(all)
    BY <2>1, <2>2, <2>3, Zenon
  <2> QED
    BY <2>4 DEF all
<1>4. MCInit => FiguresRight
  <2> SUFFICES ASSUME MCInit PROVE FiguresRight
    OBVIOUS
  <2>1. CASE scene = "figures"
    <3>1. sample \in Samples
      BY <2>1 DEF MCInit
    <3> QED
      BY <1>2, <2>1, <3>1, RanksAreNearest DEF FiguresRight
  <2>2. CASE scene = "vitals"
    <3>1. sample \in Vitals
      BY <2>2 DEF MCInit
    <3> QED
      BY <1>3, <2>2, <3>1, VitalsAreAccounted DEF FiguresRight
  <2>3. CASE scene \notin {"figures", "vitals"}
    BY <2>3 DEF FiguresRight
  <2> QED
    BY <2>1, <2>2, <2>3
<1>5. FiguresRight /\ [MCNext]_<<vars, scene, sample>> => FiguresRight'
  BY DEF MCNext, FiguresRight
<1> QED
  BY <1>4, <1>5, PTL DEF MCSpec
=============================================================================
