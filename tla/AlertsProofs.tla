---------------------------- MODULE AlertsProofs ----------------------------
(***************************************************************************)
(* Theorems about Alerts: type correctness, the bound on the duplicates    *)
(* that overlapping calls can leave behind, and the promise of the alert   *)
(* search as its special case, for any statuses that operators set.  The   *)
(* last part is about Thresholds, for any figures.                         *)
(***************************************************************************)
EXTENDS Alerts, Thresholds, FiniteSetTheorems, TLAPS

-----------------------------------------------------------------------------
\* Type correctness

LEMMA IdleType == Idle \in Locals /\ 0 \in Times
BY Parameters DEF Idle, Locals, Times

LEMMA CallsType ==
  ASSUME TypeOK
  PROVE  /\ \A c \in Calls : calls[c] \in Locals /\ calls[c].at \in Times
         /\ Times \subseteq Int
BY DEF TypeOK, Locals, Times

\* Setting one call back to idle.
LEMMA ReturnType ==
  ASSUME TypeOK, NEW c \in Calls, calls' = [calls EXCEPT ![c] = Idle]
  PROVE  /\ calls' \in [Calls -> Locals]
         /\ \A d \in Calls : calls'[d].pc # "idle" => calls'[d].data \in Data
BY IdleType DEF TypeOK, Idle

LEMMA CreateSafelyType ==
  ASSUME TypeOK, NEW C \in SUBSET Calls, NEW jobs \in [C -> Data],
         CreateSafely(jobs)
  PROVE  TypeOK'
<1>1. \A c \in C : [pc |-> "find", data |-> jobs[c], at |-> now] \in Locals
  BY DEF TypeOK, Locals
<1>2. calls' = [c \in Calls |-> IF c \in C
                  THEN [pc |-> "find", data |-> jobs[c], at |-> now]
                  ELSE calls[c]]
  BY DEF CreateSafely, Started
<1>3. calls' \in [Calls -> Locals]
  BY <1>1, <1>2 DEF TypeOK
<1>4. \A c \in Calls : calls'[c].pc # "idle" => calls'[c].data \in Data
  BY <1>2 DEF TypeOK
<1> QED
  BY <1>3, <1>4 DEF CreateSafely, TypeOK, Exists

LEMMA FindType ==
  ASSUME TypeOK, NEW c \in Calls, Find(c)
  PROVE  TypeOK'
<1> DEFINE q == [calls[c] EXCEPT !.pc = "insert", !.at = now]
<1>1. q \in Locals /\ q.data = calls[c].data
  BY CallsType DEF TypeOK, Locals
<1>2. calls[c].data \in Data
  BY DEF Find, TypeOK
<1>3. calls' = [calls EXCEPT ![c] = Idle] \/ calls' = [calls EXCEPT ![c] = q]
  BY DEF Find
<1> HIDE DEF q
<1>4. /\ calls' \in [Calls -> Locals]
      /\ \A d \in Calls : calls'[d].pc # "idle" => calls'[d].data \in Data
  BY <1>1, <1>2, <1>3, ReturnType DEF TypeOK
<1> QED
  BY <1>4 DEF Find, TypeOK, Exists

LEMMA InsertType ==
  ASSUME TypeOK, NEW c \in Calls, Insert(c)
  PROVE  TypeOK'
<1>1. PICK a \in Ids, t \in calls[c].at .. now :
        alerts' = [alerts EXCEPT ![a] =
          NewAlert(calls[c].data, t)]
  BY DEF Insert
<1>2. t \in Times
  <2>1. calls[c].at \in 0 .. MaxTime /\ now \in 0 .. MaxTime
    BY CallsType DEF TypeOK, Times
  <2> QED
    BY <2>1, Parameters DEF Times
<1>3. calls[c].data \in Data
  BY DEF Insert, TypeOK
<1> DEFINE doc == NewAlert(calls[c].data, t)
<1>4. doc \in AlertDocs /\ doc.data \in Data
  BY <1>2, <1>3 DEF AlertDocs, Statuses, NewAlert
<1> HIDE DEF doc
<1>5. alerts' = [alerts EXCEPT ![a] = doc]
  BY <1>1 DEF doc
<1>6. /\ alerts' \in [Ids -> AlertDocs]
      /\ \A b \in Ids : Exists(b)' => alerts'[b].data \in Data
  BY <1>4, <1>5 DEF TypeOK, Exists
<1> QED
  BY <1>6, ReturnType DEF Insert, TypeOK

LEMMA UpdateType ==
  ASSUME TypeOK, NEW a \in Ids, NEW status \in Patchable, Update(a, status)
  PROVE  TypeOK'
<1>1. status \in Statuses
  BY Parameters
<1>2. PICK reopened \in BOOLEAN :
        alerts' = [alerts EXCEPT ![a].status = status, ![a].reopened = reopened]
  BY DEF Update
<1>3. alerts[a] \in AlertDocs
  BY DEF TypeOK
<1>4. [alerts[a] EXCEPT !.status = status, !.reopened = reopened] \in AlertDocs
  BY <1>1, <1>3 DEF AlertDocs
<1>5. alerts' \in [Ids -> AlertDocs]
  BY <1>2, <1>4 DEF TypeOK
<1>6. \A b \in Ids : Exists(b)' => alerts'[b].data \in Data
  BY <1>2 DEF Update, TypeOK, Exists, AlertDocs
<1> QED
  BY <1>5, <1>6 DEF Update, TypeOK

LEMMA TypeStep ==
  ASSUME TypeOK, [Next]_vars
  PROVE  TypeOK'
<1>1. ASSUME NEW c \in Calls, Fail(c) PROVE TypeOK'
  BY <1>1, ReturnType DEF Fail, TypeOK, Exists
<1>2. CASE Tick
  BY <1>2, Parameters DEF Tick, TypeOK, Times, Exists
<1>3. CASE UNCHANGED vars
  BY <1>3 DEF vars, TypeOK, Exists
<1> QED
  BY <1>1, <1>2, <1>3, CreateSafelyType, FindType, InsertType, UpdateType DEF Next

\* Type correctness, for any number of overlapping calls and any statuses.
THEOREM TypeCorrect == Spec => []TypeOK
<1>1. Init => TypeOK
  BY IdleType DEF Init, TypeOK, AlertDocs, NoAlert, Exists, Idle
<1> QED
  BY <1>1, TypeStep, PTL DEF Spec

-----------------------------------------------------------------------------
\* The bound on duplicates

\* A call's clock reading is not ahead of the clock.
ReadingsPast == \A c \in Calls : calls[c].at <= now

LEMMA ReadingsStep ==
  ASSUME TypeOK, ReadingsPast, [Next]_vars
  PROVE  ReadingsPast'
<1> USE CallsType DEF ReadingsPast
<1>1. now \in Int /\ now >= 0 /\ (now' = now \/ now' = now + 1)
  <2>1. now' = now \/ now' = now + 1
    BY DEF Next, CreateSafely, Find, Insert, Fail, Update, Tick, vars
  <2>2. now \in Int /\ now >= 0
    BY DEF TypeOK, Times
  <2> QED
    BY <2>1, <2>2
<1>2. ASSUME NEW C \in SUBSET Calls, NEW jobs \in [C -> Data], CreateSafely(jobs)
      PROVE  \A c \in Calls : calls'[c].at \in {now, calls[c].at}
  BY <1>2 DEF CreateSafely, Started
<1>3. ASSUME NEW c \in Calls, Find(c) \/ Insert(c) \/ Fail(c)
      PROVE  \A d \in Calls : calls'[d].at \in {0, now, calls[d].at}
  <2> DEFINE q == [calls[c] EXCEPT !.pc = "insert", !.at = now]
  <2>1. q.at = now /\ Idle.at = 0
    BY DEF TypeOK, Locals, Idle
  <2>2. calls' = [calls EXCEPT ![c] = Idle] \/ calls' = [calls EXCEPT ![c] = q]
    BY <1>3 DEF Find, Insert, Fail
  <2> HIDE DEF q
  <2> QED
    BY <2>1, <2>2 DEF TypeOK
<1>4. \A c \in Calls : calls'[c].at \in {0, now, calls[c].at}
  <2>1. CASE calls' = calls
    BY <2>1
  <2> QED
    BY <1>2, <1>3, <2>1 DEF Next, Update, Tick, vars
<1> QED
  BY <1>1, <1>4

\* No step but an insert makes an alert stand, or moves one in time.
LEMMA StandingKept ==
  ASSUME TypeOK, [Next]_vars, \A c \in Calls : ~Insert(c),
         NEW a \in Ids, a \in Standing'
  PROVE  /\ a \in Standing
         /\ alerts'[a].data = alerts[a].data
         /\ alerts'[a].triggeredAt = alerts[a].triggeredAt
<1>1. CASE alerts' = alerts
  BY <1>1 DEF Standing
<1>2. ASSUME NEW b \in Ids, NEW status \in Patchable, Update(b, status)
      PROVE  /\ a \in Standing
             /\ alerts'[a].data = alerts[a].data
             /\ alerts'[a].triggeredAt = alerts[a].triggeredAt
  <2>1. alerts[a] \in AlertDocs
    BY DEF TypeOK
  <2>2. CASE a = b
    <3>1. alerts'[a] = [alerts[a] EXCEPT
            !.status = status,
            !.reopened = status = "active" /\ (@ \/ alerts[a].status # "active")]
      BY <1>2, <2>2 DEF Update, TypeOK
    <3>2. /\ alerts'[a].data = alerts[a].data
          /\ alerts'[a].triggeredAt = alerts[a].triggeredAt
          /\ alerts'[a].status = status
      BY <2>1, <3>1 DEF AlertDocs
    <3>3. alerts'[a].reopened
            = (status = "active" /\ (alerts[a].reopened \/ alerts[a].status # "active"))
      BY <2>1, <3>1, Zenon DEF AlertDocs
    <3> QED
      BY <3>2, <3>3 DEF Standing
  <2>3. CASE a # b
    BY <1>2, <2>3 DEF Update, TypeOK, Standing
  <2> QED
    BY <2>2, <2>3
<1> QED
  BY <1>1, <1>2 DEF Next, CreateSafely, Find, Fail, Tick, vars

\* No step but a search clears a call, or moves its clock reading.
LEMMA ClearedKept ==
  ASSUME TypeOK, [Next]_vars, NEW c \in Calls, ~Find(c), calls'[c].pc = "insert"
  PROVE  calls'[c] = calls[c]
<1>1. ASSUME NEW C \in SUBSET Calls, NEW jobs \in [C -> Data], CreateSafely(jobs)
      PROVE  calls'[c] = calls[c]
  BY <1>1 DEF CreateSafely, Started
<1>2. ASSUME NEW d \in Calls, Find(d) \/ Insert(d) \/ Fail(d)
      PROVE  calls'[c] = calls[c]
  <2>1. CASE d = c
    BY <1>2, <2>1 DEF Insert, Fail, TypeOK, Idle
  <2>2. CASE d # c
    BY <1>2, <2>2 DEF Find, Insert, Fail, TypeOK
  <2> QED
    BY <2>1, <2>2
<1> QED
  BY <1>1, <1>2 DEF Next, Update, Tick, vars

\* An insert adds at most one alert, after the reading of the call, which is
\* then no longer cleared.
LEMMA InsertAdds ==
  ASSUME TypeOK, [Next]_vars, NEW c \in Calls, Insert(c), NEW key, NEW from \in Times
  PROVE  \/ /\ Near(key, from)' \subseteq Near(key, from)
            /\ Cleared(key, from)' \subseteq Cleared(key, from)
         \/ /\ c \in Cleared(key, from)
            /\ Cleared(key, from)' \subseteq Cleared(key, from) \ {c}
            /\ \E a \in Ids : Near(key, from)' \subseteq Near(key, from) \cup {a}
<1>1. PICK a \in Ids, t \in calls[c].at .. now :
        alerts' = [alerts EXCEPT ![a] =
          NewAlert(calls[c].data, t)]
  BY DEF Insert
<1>2. /\ \A b \in Ids \ {a} : alerts'[b] = alerts[b]
      /\ alerts'[a].data = calls[c].data
      /\ alerts'[a].triggeredAt = t
  BY <1>1 DEF TypeOK, NewAlert
<1>3. t \in Int /\ calls[c].at \in Int /\ calls[c].at <= t
  BY CallsType DEF TypeOK, Times
<1>4. Window \in Int /\ from \in Int
  BY Parameters DEF Times
<1>5. /\ calls'[c].pc = "idle"
      /\ \A d \in Calls \ {c} : calls'[d] = calls[d]
  BY DEF Insert, TypeOK, Idle
<1>6. Cleared(key, from)' \subseteq Cleared(key, from) \ {c}
  BY <1>5 DEF Cleared
<1>7. Near(key, from)' \subseteq Near(key, from) \cup {a}
  BY <1>2 DEF Near, Standing, Active
<1>8. CASE a \in Near(key, from)'
  <2>1. calls[c].data.key = key /\ t \in from .. from + Window
    BY <1>2, <1>8 DEF Near, Standing, Active
  <2>2. calls[c].at <= from + Window
    BY <1>3, <1>4, <2>1
  <2>3. c \in Cleared(key, from)
    BY <2>1, <2>2 DEF Cleared, Insert
  <2> QED
    BY <1>6, <1>7, <2>3
<1> QED
  BY <1>6, <1>7, <1>8

\* A search clears its call only when no alert is near, or after the window.
LEMMA FindClears ==
  ASSUME TypeOK, ReadingsPast, NEW c \in Calls, Find(c), NEW key, NEW from \in Times
  PROVE  /\ Near(key, from)' = Near(key, from)
         /\ \/ Near(key, from) = {}
            \/ Cleared(key, from)' \subseteq Cleared(key, from)
<1> DEFINE q == [calls[c] EXCEPT !.pc = "insert", !.at = now]
<1>1. q.at = now /\ q.data = calls[c].data
  BY DEF TypeOK, Locals
<1>2. Near(key, from)' = Near(key, from)
  BY DEF Find, Near, Standing, Active
<1>3. ASSUME NEW d \in Cleared(key, from)', d \notin Cleared(key, from)
      PROVE  Near(key, from) = {}
  <2>1. d = c
    BY <1>3 DEF Find, Cleared, TypeOK
  <2>2. /\ Duplicates(calls[c].data.key, calls[c].at - Window) = {}
        /\ calls' = [calls EXCEPT ![c] = q]
    BY <1>3, <2>1 DEF Find, Cleared, TypeOK, Idle
  <2>3. calls'[c] = q
    BY <2>2 DEF TypeOK
  <2>4. calls[c].data.key = key /\ now <= from + Window
    BY <1>1, <1>3, <2>1, <2>3 DEF Cleared
  <2>5. /\ now \in Int /\ calls[c].at \in Int /\ calls[c].at <= now
        /\ Window \in Int /\ from \in Int
    BY CallsType, Parameters DEF TypeOK, Times, ReadingsPast
  <2>6. calls[c].at - Window <= from
    BY <2>4, <2>5
  <2>7. \A a \in Near(key, from) : a \in Duplicates(key, calls[c].at - Window)
    <3> TAKE a \in Near(key, from)
    <3>1. a \in Active(key) /\ alerts[a].triggeredAt \in from .. from + Window
      BY DEF Near
    <3>2. alerts[a].triggeredAt >= calls[c].at - Window
      BY <2>5, <2>6, <3>1
    <3> QED
      BY <3>1, <3>2 DEF Duplicates
  <2> QED
    BY <2>2, <2>4, <2>7
<1> QED
  BY <1>2, <1>3

LEMMA BurstStep ==
  ASSUME TypeOK, ReadingsPast, BurstShared, [Next]_vars,
         IsFiniteSet(Calls), IsFiniteSet(Ids)
  PROVE  BurstShared'
<1> SUFFICES ASSUME NEW key \in {data.key : data \in Data}, NEW from \in Times
             PROVE  Cardinality(Near(key, from)') + Cardinality(Cleared(key, from)')
                      <= Cardinality(Calls)
  BY DEF BurstShared
<1> DEFINE N == Near(key, from)
           C == Cleared(key, from)
<1>1. /\ IsFiniteSet(N) /\ IsFiniteSet(N')
      /\ IsFiniteSet(C) /\ IsFiniteSet(C')
      /\ Cardinality(C') <= Cardinality(Calls)
  <2>1. N \in SUBSET Ids /\ N' \in SUBSET Ids
    BY DEF Near, Standing, Active
  <2>2. C \in SUBSET Calls /\ C' \in SUBSET Calls
    BY DEF Cleared
  <2> QED
    BY <2>1, <2>2, FS_Subset
<1>2. /\ Cardinality(N) \in Nat /\ Cardinality(N') \in Nat
      /\ Cardinality(C) \in Nat /\ Cardinality(C') \in Nat
      /\ Cardinality(Calls) \in Nat
  BY <1>1, FS_CardinalityType
<1>3. Cardinality(N) + Cardinality(C) <= Cardinality(Calls)
  BY DEF BurstShared
<1> HIDE DEF N, C
<1>4. CASE N' \subseteq N /\ C' \subseteq C
  <2>1. Cardinality(N') <= Cardinality(N) /\ Cardinality(C') <= Cardinality(C)
    BY <1>1, <1>4, FS_Subset
  <2> QED
    BY <1>2, <1>3, <2>1 DEF N, C
<1>5. CASE N' = {}
  <2>1. Cardinality(N') = 0
    BY <1>5, FS_EmptySet
  <2> QED
    BY <1>1, <1>2, <2>1 DEF N, C
<1>6. ASSUME NEW a, NEW c \in C, N' \subseteq N \cup {a}, C' \subseteq C \ {c}
      PROVE  Cardinality(Near(key, from)') + Cardinality(Cleared(key, from)')
               <= Cardinality(Calls)
  <2>1. IsFiniteSet(N \cup {a}) /\ Cardinality(N \cup {a}) <= Cardinality(N) + 1
    <3>1. /\ IsFiniteSet(N \cup {a})
          /\ Cardinality(N \cup {a}) \in {Cardinality(N), Cardinality(N) + 1}
      BY <1>1, FS_AddElement
    <3> QED
      BY <1>2, <3>1
  <2>2. IsFiniteSet(C \ {c}) /\ Cardinality(C \ {c}) = Cardinality(C) - 1
    BY <1>1, <1>6, FS_RemoveElement
  <2>3. Cardinality(N') <= Cardinality(N \cup {a})
    BY <1>6, <2>1, FS_Subset
  <2>4. Cardinality(C') <= Cardinality(C \ {c})
    BY <1>6, <2>2, FS_Subset
  <2>5. Cardinality(N \cup {a}) \in Nat
    BY <2>1, FS_CardinalityType
  <2> QED
    BY <1>2, <1>3, <2>1, <2>2, <2>3, <2>4, <2>5 DEF N, C
<1>7. ASSUME NEW c \in Calls, Insert(c)
      PROVE  Cardinality(Near(key, from)') + Cardinality(Cleared(key, from)')
               <= Cardinality(Calls)
  BY <1>4, <1>6, <1>7, InsertAdds DEF N, C
<1>8. ASSUME NEW c \in Calls, Find(c)
      PROVE  Cardinality(Near(key, from)') + Cardinality(Cleared(key, from)')
               <= Cardinality(Calls)
  BY <1>4, <1>5, <1>8, FindClears DEF N, C
<1>9. CASE \A c \in Calls : ~Insert(c) /\ ~Find(c)
  <2>1. N' \subseteq N
    BY <1>9, StandingKept DEF N, Near, Active, Standing
  <2>2. C' \subseteq C
    BY <1>9, ClearedKept DEF C, Cleared
  <2> QED
    BY <1>4, <2>1, <2>2
<1> QED
  BY <1>7, <1>8, <1>9

LEMMA BurstInit ==
  ASSUME Init, IsFiniteSet(Calls)
  PROVE  ReadingsPast /\ BurstShared
<1>1. ReadingsPast
  BY DEF Init, ReadingsPast, Idle
<1>2. ASSUME NEW key, NEW from PROVE Near(key, from) = {} /\ Cleared(key, from) = {}
  BY DEF Init, Near, Standing, Active, Cleared, NoAlert, Idle
<1>3. Cardinality({}) = 0 /\ Cardinality(Calls) \in Nat
  BY FS_EmptySet, FS_CardinalityType
<1>4. ASSUME NEW key, NEW from
      PROVE  Cardinality(Near(key, from)) = 0 /\ Cardinality(Cleared(key, from)) = 0
  <2>1. Near(key, from) = {} /\ Cleared(key, from) = {}
    BY <1>2
  <2> QED
    BY <1>3, <2>1
<1> QED
  BY <1>1, <1>3, <1>4 DEF BurstShared

\* However many calls overlap, the alerts in a window and the calls that may
\* still add to it are together no more than the calls.
THEOREM DuplicatesShared ==
  ASSUME IsFiniteSet(Calls), IsFiniteSet(Ids)
  PROVE  Spec => []BurstShared
<1>1. Init => ReadingsPast /\ BurstShared
  BY BurstInit
<1>2. TypeOK /\ ReadingsPast /\ BurstShared /\ [Next]_vars
        => ReadingsPast' /\ BurstShared'
  BY ReadingsStep, BurstStep
<1> QED
  BY <1>1, <1>2, TypeCorrect, PTL DEF Spec

\* A burst of one service and title leaves no more standing alerts in a window
\* than calls can be under way, whatever operators do.
THEOREM DuplicatesBounded ==
  ASSUME IsFiniteSet(Calls), IsFiniteSet(Ids)
  PROVE  Spec => []BurstBounded
<1>1. TypeOK /\ BurstShared => BurstBounded
  <2> SUFFICES ASSUME TypeOK, BurstShared, NEW a \in Standing
               PROVE  Cardinality(Near(alerts[a].data.key, alerts[a].triggeredAt))
                        <= Cardinality(Calls)
    BY DEF BurstBounded
  <2> DEFINE key == alerts[a].data.key
             from == alerts[a].triggeredAt
  <2>1. alerts[a].data \in Data /\ from \in Times
    BY DEF TypeOK, Exists, AlertDocs, Standing
  <2>2. Cardinality(Near(key, from)) + Cardinality(Cleared(key, from))
          <= Cardinality(Calls)
    BY <2>1 DEF BurstShared
  <2>3. Near(key, from) \in SUBSET Ids /\ Cleared(key, from) \in SUBSET Calls
    BY DEF Near, Standing, Active, Cleared
  <2>4. /\ Cardinality(Near(key, from)) \in Nat
        /\ Cardinality(Cleared(key, from)) \in Nat
        /\ Cardinality(Calls) \in Nat
    BY <2>3, FS_Subset, FS_CardinalityType
  <2> HIDE DEF key, from
  <2>5. Cardinality(Near(key, from)) <= Cardinality(Calls)
    BY <2>2, <2>4
  <2> QED
    BY <2>5 DEF key, from
<1> QED
  BY <1>1, TypeCorrect, DuplicatesShared, PTL

\* Calls overlap only if there are several.
Serial == \A c, d \in Calls : c = d

\* In particular a standing alert is returned instead of duplicated when calls
\* do not overlap.
THEOREM SerialNoActiveDuplicate ==
  ASSUME Serial, IsFiniteSet(Ids)
  PROVE  Spec => []NoActiveDuplicate
<1>1. IsFiniteSet(Calls) /\ Cardinality(Calls) <= 1
  <2>1. CASE Calls = {}
    BY <2>1, FS_EmptySet
  <2>2. CASE Calls # {}
    <3>1. PICK c : Calls = {c}
      BY <2>2 DEF Serial
    <3>2. IsFiniteSet({c}) /\ Cardinality({c}) = 1
      BY FS_Singleton
    <3> QED
      BY <3>1, <3>2
  <2> QED
    BY <2>1, <2>2
<1>2. TypeOK /\ BurstBounded => NoActiveDuplicate
  <2> SUFFICES ASSUME TypeOK, BurstBounded, NEW a \in Standing, NEW b \in Standing, a # b,
                      alerts[a].data.key = alerts[b].data.key,
                      alerts[a].triggeredAt <= alerts[b].triggeredAt,
                      ~(alerts[b].triggeredAt - alerts[a].triggeredAt > Window)
               PROVE  FALSE
    BY CallsType, Parameters DEF NoActiveDuplicate, Apart, Standing, TypeOK, AlertDocs
  <2> DEFINE N == Near(alerts[a].data.key, alerts[a].triggeredAt)
  <2>1. /\ alerts[a].triggeredAt \in Int /\ alerts[b].triggeredAt \in Int
        /\ Window \in Nat
    BY CallsType, Parameters DEF TypeOK, AlertDocs, Standing
  <2>2. {a, b} \in SUBSET N
    BY <2>1 DEF Near, Standing, Active
  <2>3. N \in SUBSET Ids /\ Cardinality(N) <= Cardinality(Calls)
    BY DEF Near, Standing, Active, BurstBounded
  <2> HIDE DEF N
  <2>4. IsFiniteSet(N) /\ IsFiniteSet({a, b})
    BY <2>2, <2>3, FS_Subset
  <2>5. Cardinality({a, b}) <= Cardinality(N)
    BY <2>2, <2>4, FS_Subset
  <2>6. Cardinality({a, b}) = 2
    <3>1. Cardinality({a} \cup {b}) = Cardinality({a}) + 1
      <4>1. IsFiniteSet({a}) /\ b \notin {a}
        BY FS_Singleton
      <4> QED
        BY <4>1, FS_AddElement, Zenon
    <3>2. {a} \cup {b} = {a, b}
      OBVIOUS
    <3>3. Cardinality({a}) = 1
      BY FS_Singleton
    <3> QED
      BY <3>1, <3>2, <3>3
  <2>7. Cardinality(N) \in Nat /\ Cardinality(Calls) \in Nat
    BY <1>1, <2>4, FS_CardinalityType
  <2> QED
    BY <1>1, <2>3, <2>5, <2>6, <2>7
<1> QED
  BY <1>1, <1>2, TypeCorrect, DuplicatesBounded, PTL

-----------------------------------------------------------------------------
\* Alerts of one metric as it gets worse

\* The rule that is consulted, and whether there is one, do not depend on the
\* value.
LEMMA RuleConsulted ==
  ASSUME NEW words
  PROVE  \/ \A value : MatchMetricThreshold(words, value) = NoMatch
         \/ \E i \in 1 .. 4 : \A value :
              MatchMetricThreshold(words, value) = Match(MetricRules[i], value)
<1> DEFINE I == {j \in 1 .. Len(MetricRules) : MetricRules[j].word \in words}
           i == SelectInSeq(MetricRules, LAMBDA rule : rule.word \in words)
<1>1. i = IF I # {} THEN Min(I) ELSE 0
  BY DEF SelectInSeq
<1>2. CASE I = {}
  BY <1>1, <1>2 DEF MatchMetricThreshold
<1>3. CASE I # {}
  <2>1. Len(MetricRules) = 4
    BY DEF MetricRules
  <2>2. I \subseteq 1 .. 4
    BY <2>1
  <2>3. PICK j \in I : \A k \in I : j <= k
    <3>1. \/ 1 \in I \/ 2 \in I \/ 3 \in I \/ 4 \in I
      BY <1>3, <2>2
    <3>2. CASE 1 \in I
      BY <2>2, <3>2
    <3>3. CASE 1 \notin I /\ 2 \in I
      BY <2>2, <3>3
    <3>4. CASE 1 \notin I /\ 2 \notin I /\ 3 \in I
      BY <2>2, <3>4
    <3>5. CASE 1 \notin I /\ 2 \notin I /\ 3 \notin I /\ 4 \in I
      BY <2>2, <3>5
    <3> QED
      BY <3>1, <3>2, <3>3, <3>4, <3>5
  <2>4. Min(I) \in 1 .. 4
    <3> HIDE DEF I
    <3> QED
      BY <2>2, <2>3 DEF Min
  <2>5. i \in 1 .. 4 /\ i # 0
    BY <1>1, <1>3, <2>4
  <2> QED
    BY <2>5 DEF MatchMetricThreshold
<1> QED
  BY <1>2, <1>3

\* What a figure raises, in numbers.
LEMMA Graded ==
  ASSUME NEW title \in Words \cup {"spike"}, NEW severity \in {"warning", "critical"}
  PROVE  /\ [title |-> title, severity |-> severity] # NoMatch
         /\ Grade([title |-> title, severity |-> severity])
              = IF severity = "warning" THEN 1 ELSE 2
  BY NoMatchApart DEF Grade

LEMMA NoneGraded == Grade(NoMatch) = 0
  BY DEF Grade

LEMMA RuleWorsens ==
  ASSUME NEW i \in 1 .. 4, NEW value \in Int, NEW worse \in Int, value <= worse
  PROVE  Worsens(Match(MetricRules[i], value), Match(MetricRules[i], worse))
<1> DEFINE rule == MetricRules[i]
<1>1. /\ rule.threshold \in Int
      /\ rule.word \in Words
      /\ rule.word = "error_rate" => rule.threshold = 50
  BY DEF MetricRules, Words
<1> HIDE DEF rule
<1>2. Extreme(rule, value) => Extreme(rule, worse)
  BY <1>1 DEF Extreme
<1>3. CASE value < rule.threshold
  <2>1. Match(rule, value) = NoMatch
    BY <1>3 DEF Match
  <2>2. Grade(Match(rule, worse)) \in 0 .. 2
    BY DEF Grade
  <2> QED
    BY <2>1, <2>2, NoneGraded DEF Worsens, rule
<1>4. CASE ~(value < rule.threshold)
  <2>1. ~(worse < rule.threshold)
    BY <1>1, <1>4
  <2> DEFINE warning  == [title |-> rule.word, severity |-> "warning"]
             critical == [title |-> rule.word, severity |-> "critical"]
  <2>2. Match(rule, value) = IF Extreme(rule, value) THEN critical ELSE warning
    BY <1>4 DEF Match
  <2>3. Match(rule, worse) = IF Extreme(rule, worse) THEN critical ELSE warning
    BY <2>1 DEF Match
  <2>4. warning.title = rule.word /\ critical.title = rule.word
    OBVIOUS
  <2>5. warning # NoMatch /\ Grade(warning) = 1
    BY <1>1, Graded
  <2>6. critical # NoMatch /\ Grade(critical) = 2
    BY <1>1, Graded
  <2> HIDE DEF warning, critical
  <2>7. Worsens(Match(rule, value), Match(rule, worse))
    <3>1. CASE Extreme(rule, value)
      BY <1>2, <2>2, <2>3, <2>6, <3>1 DEF Worsens
    <3>2. CASE ~Extreme(rule, value)
      BY <2>2, <2>3, <2>4, <2>5, <2>6, <3>2 DEF Worsens
    <3> QED
      BY <3>1, <3>2
  <2> QED
    BY <2>7 DEF rule
<1> QED
  BY <1>3, <1>4

\* Whatever a metric is called and however many errors a service logs, a worse
\* figure raises no less and under the same title, so the search for
\* duplicates takes both for one.
THEOREM AlertsWorsen ==
  ASSUME NEW words, NEW value \in Int, NEW worse \in Int, value <= worse
  PROVE  EscalationSound(words, value, worse)
<1>1. Worsens(MatchMetricThreshold(words, value), MatchMetricThreshold(words, worse))
  <2>1. CASE \A v : MatchMetricThreshold(words, v) = NoMatch
    BY <2>1, NoneGraded DEF Worsens
  <2>2. CASE \E i \in 1 .. 4 : \A v :
               MatchMetricThreshold(words, v) = Match(MetricRules[i], v)
    BY <2>2, RuleWorsens
  <2> QED
    BY <2>1, <2>2, RuleConsulted
<1>2. Worsens(LogErrorVolumeMatch(value), LogErrorVolumeMatch(worse))
  <2> DEFINE spike(severity) == [title |-> "spike", severity |-> severity]
  <2>1. /\ spike("warning") # NoMatch /\ Grade(spike("warning")) = 1
        /\ spike("critical") # NoMatch /\ Grade(spike("critical")) = 2
    BY Graded
  <2>2. \A count \in Int : LogErrorVolumeMatch(count) =
          IF count < 10 THEN NoMatch
          ELSE IF count >= 20 THEN spike("critical") ELSE spike("warning")
    BY DEF LogErrorVolumeMatch, LogErrorCountThreshold
  <2>3. spike("warning").title = spike("critical").title
    OBVIOUS
  <2> HIDE DEF spike
  <2> QED
    BY <2>1, <2>2, <2>3, NoneGraded DEF Worsens
<1> QED
  BY <1>1, <1>2 DEF EscalationSound
=============================================================================
