--------------------------- MODULE RegistryProofs ---------------------------
(***************************************************************************)
(* Theorems about Registry and Views, for any services, incidents, clients *)
(* and data, and requests that overlap: the invariants of the collections, *)
(* what a walk through the pages may miss while services are created, and  *)
(* by how much the figures of a summary may differ.                        *)
(*                                                                         *)
(* No invariant of the collections is inductive alone.  What a request was *)
(* told at one await must still hold at the next: nothing in these         *)
(* collections is deleted, so documents found stay found.  Sound says what *)
(* is left of each check while its request is under way, and Inv joins it  *)
(* to the invariants.  On top of Inv, WalkSound and FiguresSound say what  *)
(* each query answered so far has established for a client: a page leaves  *)
(* a service out only if enough others come before it, and nothing that is *)
(* stored later takes these away.                                          *)
(***************************************************************************)
EXTENDS Views, FiniteSetTheorems, FunctionTheorems, WellFoundedInduction, TLAPS

-----------------------------------------------------------------------------
\* The inductive invariant of the collections

\* What a request has been told and relies on.
Sound(local) ==
  /\ local.pc \in {"target", "dependency"} => local.doc.source \in Listed
  /\ local.pc = "dependency" => local.doc.target \in Listed
  /\ local.pc = "incident" => local.id \in Opened /\ local.at <= now

Inv ==
  /\ TypeOK
  /\ \A r \in Requests : Sound(req[r])
  /\ ServicesUnique
  /\ DependenciesSound
  /\ EndedHasTime

-----------------------------------------------------------------------------
\* What a request holds where it is

LEMMA LocalTypes ==
  ASSUME NEW local \in Locals
  PROVE  /\ local.pc = "service" =>
              local.data \in Offered /\ local.at \in Times
         /\ local.pc \in {"target", "dependency"} => local.doc \in DependencyDocs
         /\ local.pc = "incident" =>
              /\ local.id \in IncidentIds /\ local.status \in IncidentStatuses
              /\ local.at \in Times
BY DEF Locals

LEMMA TimesAreNumbers == Times \subseteq Int /\ Never \notin Times /\ 0 \in Times
BY Parameters DEF Times

\* A step of one request that stores nothing, to a place where it is sound.
LEMMA LocalStep ==
  ASSUME Inv, NEW r \in Requests, NEW local \in Locals, Sound(local),
         GoTo(r, local), UNCHANGED <<now, stores>>
  PROVE  Inv'
<1>1. TypeOK'
  BY DEF Inv, TypeOK, GoTo, stores
<1>2. ASSUME NEW q \in Requests PROVE Sound(req[q])'
  <2>1. req'[q] = local \/ req'[q] = req[q]
    BY DEF Inv, TypeOK, GoTo
  <2> QED
    BY <2>1 DEF Inv, Sound, Listed, Opened, stores
<1>3. ServicesUnique' /\ DependenciesSound' /\ EndedHasTime'
  BY DEF Inv, ServicesUnique, DependenciesSound, EndedHasTime, Listed, Linked,
     Opened, stores
<1> QED
  BY <1>1, <1>2, <1>3 DEF Inv

LEMMA IdleSound == Idle \in Locals /\ Sound(Idle)
BY DEF Idle, Locals, Sound

LEMMA RequestSteps ==
  ASSUME Inv, NEW r \in Requests
  PROVE  /\ \A data \in Offered : CreateService(r, data) => Inv'
         /\ \A doc \in DependencyDocs : FindSource(r, doc) => Inv'
         /\ FindTarget(r) => Inv'
         /\ \A i \in IncidentIds, status \in Reported :
              UpdateIncident(r, i, status) => Inv'
         /\ RejectService(r) \/ RejectDependency(r) \/ Abort(r) => Inv'
<1>1. ASSUME NEW data \in Offered, CreateService(r, data) PROVE Inv'
  <2> DEFINE local == [pc |-> "service", data |-> data, at |-> now]
  <2>1. local \in Locals
    BY DEF Inv, TypeOK, Locals
  <2>2. Sound(local)
    BY DEF Sound
  <2> QED
    BY <1>1, <2>1, <2>2, LocalStep DEF CreateService
<1>2. ASSUME NEW doc \in DependencyDocs, FindSource(r, doc) PROVE Inv'
  <2> DEFINE local == [pc |-> "target", doc |-> doc]
  <2>1. local \in Locals /\ Sound(local)
    BY <1>2 DEF FindSource, Locals, Sound
  <2> QED
    BY <1>2, <2>1, LocalStep DEF FindSource
<1>3. ASSUME FindTarget(r) PROVE Inv'
  <2> DEFINE found == [req[r] EXCEPT !.pc = "dependency"]
  <2>1. req[r] \in Locals /\ req[r].pc = "target" /\ Sound(req[r])
    BY <1>3 DEF FindTarget, Inv, TypeOK
  <2>2. req[r] = [pc |-> "target", doc |-> req[r].doc] /\ req[r].doc \in DependencyDocs
    BY <2>1 DEF Locals
  <2>3. found = [pc |-> "dependency", doc |-> req[r].doc]
    BY <2>2
  <2>4. found \in Locals
    BY <2>2, <2>3 DEF Locals
  <2>5. CASE req[r].doc.target \in Listed
    <3>1. Sound(found)
      BY <2>1, <2>3, <2>5 DEF Sound
    <3> QED
      BY <1>3, <2>4, <2>5, <3>1, LocalStep DEF FindTarget
  <2>6. CASE req[r].doc.target \notin Listed
    BY <1>3, <2>6, IdleSound, LocalStep DEF FindTarget
  <2> QED
    BY <2>5, <2>6
<1>4. ASSUME NEW i \in IncidentIds, NEW status \in Reported,
             UpdateIncident(r, i, status)
      PROVE  Inv'
  <2> DEFINE local == [pc |-> "incident", id |-> i, status |-> status, at |-> now]
  <2>1. local \in Locals
    BY Parameters DEF Inv, TypeOK, Locals
  <2>2. Sound(local)
    BY <1>4, TimesAreNumbers DEF UpdateIncident, Sound, Inv, TypeOK
  <2> QED
    BY <1>4, <2>1, <2>2, LocalStep DEF UpdateIncident
<1>5. ASSUME RejectService(r) \/ RejectDependency(r) \/ Abort(r) PROVE Inv'
  BY <1>5, IdleSound, LocalStep DEF RejectService, RejectDependency, Abort
<1> QED
  BY <1>1, <1>2, <1>3, <1>4, <1>5

-----------------------------------------------------------------------------
\* The steps that store

LEMMA InsertServiceStep ==
  ASSUME Inv, NEW r \in Requests, NEW s \in ServiceIds, InsertService(r, s)
  PROVE  Inv'
<1>1. PICK t \in req[r].at .. now :
        services' = [services EXCEPT ![s] = [data |-> req[r].data, createdAt |-> t]]
  BY DEF InsertService
<1> DEFINE doc == [data |-> req[r].data, createdAt |-> t]
<1>2. req[r] \in Locals /\ req[r].data \in Offered /\ req[r].at \in Times /\ now \in Times
  BY LocalTypes DEF InsertService, Inv, TypeOK
<1>3. doc \in ServiceDocs
  BY <1>2, Parameters DEF ServiceDocs, Times
<1> HIDE DEF doc
<1>4. services' = [services EXCEPT ![s] = doc] /\ doc.data = req[r].data
  BY <1>1 DEF doc
<1>5. /\ \A x \in Listed : x # s /\ x \in Listed' /\ services'[x] = services[x]
      /\ Listed' \subseteq Listed \cup {s}
      /\ services'[s] = doc
  BY <1>4 DEF InsertService, Listed, Inv, TypeOK
<1>6. TypeOK'
  BY <1>3, <1>4, IdleSound DEF Inv, TypeOK, InsertService, GoTo
<1>7. ASSUME NEW q \in Requests PROVE Sound(req[q])'
  <2>1. req'[q] = Idle \/ req'[q] = req[q]
    BY DEF Inv, TypeOK, InsertService, GoTo
  <2>2. Sound(req[q])
    BY DEF Inv
  <2> QED
    BY <1>5, <2>1, <2>2 DEF Sound, Idle, Opened, InsertService
<1>8. ServicesUnique'
  BY <1>4, <1>5 DEF ServicesUnique, Inv, InsertService, Admitted
<1>9. DependenciesSound'
  BY <1>5 DEF DependenciesSound, Inv, InsertService, Linked
<1>10. EndedHasTime'
  BY DEF EndedHasTime, Inv, InsertService, Opened
<1> QED
  BY <1>6, <1>7, <1>8, <1>9, <1>10 DEF Inv

LEMMA InsertDependencyStep ==
  ASSUME Inv, NEW r \in Requests, NEW d \in DependencyIds, InsertDependency(r, d)
  PROVE  Inv'
<1>1. /\ req[r] \in Locals /\ req[r].doc \in DependencyDocs
      /\ {req[r].doc.source, req[r].doc.target} \subseteq Listed
  BY LocalTypes DEF InsertDependency, Inv, TypeOK, Sound
<1>2. /\ \A e \in Linked : e # d /\ dependencies'[e] = dependencies[e]
      /\ Linked' \subseteq Linked \cup {d}
      /\ dependencies'[d] = req[r].doc
  BY DEF InsertDependency, Linked, Inv, TypeOK
<1>3. TypeOK'
  BY <1>1, IdleSound DEF Inv, TypeOK, InsertDependency, GoTo
<1>4. ASSUME NEW q \in Requests PROVE Sound(req[q])'
  <2>1. req'[q] = Idle \/ req'[q] = req[q]
    BY DEF Inv, TypeOK, InsertDependency, GoTo
  <2> QED
    BY <2>1 DEF Inv, Sound, Idle, Listed, Opened, InsertDependency
<1>5. DependenciesSound'
  BY <1>1, <1>2 DEF DependenciesSound, Inv, InsertDependency, Listed
<1>6. ServicesUnique' /\ EndedHasTime'
  BY DEF ServicesUnique, EndedHasTime, Inv, InsertDependency, Listed, Opened
<1> QED
  BY <1>3, <1>4, <1>5, <1>6 DEF Inv

\* What changes nothing but incidents, and loses none, leaves requests sound.
LEMMA IncidentFrame ==
  ASSUME Inv, Opened \subseteq Opened', UNCHANGED <<now, services, dependencies>>,
         \A q \in Requests : req'[q] = Idle \/ req'[q] = req[q]
  PROVE  (\A q \in Requests : Sound(req[q])') /\ ServicesUnique' /\ DependenciesSound'
<1>1. ASSUME NEW q \in Requests PROVE Sound(req[q])'
  <2>1. Sound(req[q]) /\ (req'[q] = Idle \/ req'[q] = req[q])
    BY DEF Inv
  <2> QED
    BY <2>1 DEF Sound, Idle, Listed
<1> QED
  BY <1>1 DEF Inv, ServicesUnique, DependenciesSound, Listed, Linked

LEMMA CreateIncidentStep ==
  ASSUME Inv, NEW i \in IncidentIds, NEW status \in Reported, CreateIncident(i, status)
  PROVE  Inv'
<1> DEFINE doc == [status |-> status, resolvedAt |-> Never, first |-> status]
<1>1. doc \in IncidentDocs
  BY Parameters DEF IncidentDocs
<1>2. /\ incidents' = [incidents EXCEPT ![i] = doc]
      /\ doc.resolvedAt = Never /\ doc.status = doc.first
  BY DEF CreateIncident
<1> HIDE DEF doc
<1>3. TypeOK'
  BY <1>1, <1>2 DEF Inv, TypeOK, CreateIncident
<1>4. /\ Opened \subseteq Opened' /\ Opened' \subseteq Opened \cup {i}
      /\ \A j \in Opened : incidents'[j] = incidents[j]
      /\ incidents'[i] = doc
  BY <1>2 DEF Opened, CreateIncident, Inv, TypeOK
<1>5. EndedHasTime'
  BY <1>2, <1>4 DEF EndedHasTime, Inv, CreateIncident
<1> QED
  BY <1>3, <1>4, <1>5, IncidentFrame DEF Inv, CreateIncident

LEMMA WriteIncidentStep ==
  ASSUME Inv, NEW r \in Requests, WriteIncident(r)
  PROVE  Inv'
<1> DEFINE i == req[r].id
           doc == Resolution(incidents[i], req[r].status, req[r].at)
<1>1. /\ req[r].status \in IncidentStatuses /\ req[r].at \in Times
      /\ i \in Opened /\ i \in IncidentIds /\ req[r].at <= now
  BY LocalTypes DEF WriteIncident, Inv, TypeOK, Sound
<1>2. incidents[i] \in IncidentDocs
  BY <1>1 DEF Inv, TypeOK, Opened
<1>3. /\ doc \in IncidentDocs
      /\ doc.status = req[r].status /\ doc.first = incidents[i].first
      /\ doc.resolvedAt = IF req[r].status \in Over THEN req[r].at
                                                     ELSE incidents[i].resolvedAt
  BY <1>1, <1>2 DEF Resolution, IncidentDocs
<1>4. incidents' = [incidents EXCEPT ![i] = doc]
  BY DEF WriteIncident
<1> HIDE DEF i, doc
<1>5. TypeOK'
  BY <1>3, <1>4, IdleSound DEF Inv, TypeOK, WriteIncident, GoTo
<1>6. /\ Opened' = Opened
      /\ incidents'[i] = doc
      /\ \A j \in Opened : j # i => incidents'[j] = incidents[j]
  BY <1>1, <1>3, <1>4, Absent DEF Opened, Inv, TypeOK
<1>7. EndedHasTime'
  <2>1. doc.resolvedAt = Never \/ doc.resolvedAt <= now
    BY <1>1, <1>3 DEF Inv, EndedHasTime
  <2>2. doc.status \in Over => doc.resolvedAt # Never
    BY <1>1, <1>3, TimesAreNumbers
  <2> QED
    BY <1>6, <2>1, <2>2 DEF EndedHasTime, Inv, WriteIncident
<1>8. \A q \in Requests : req'[q] = Idle \/ req'[q] = req[q]
  BY DEF Inv, TypeOK, WriteIncident, GoTo
<1> QED
  BY <1>5, <1>6, <1>7, <1>8, IncidentFrame DEF Inv, WriteIncident

LEMMA TickStep ==
  ASSUME Inv, Tick
  PROVE  Inv'
<1>1. now \in Int /\ now' = now + 1 /\ now' \in Times
  BY TimesAreNumbers, Parameters DEF Inv, TypeOK, Tick, Times
<1>2. TypeOK'
  BY <1>1 DEF Inv, TypeOK, Tick, stores
<1>3. ASSUME NEW q \in Requests PROVE Sound(req[q])'
  <2>1. req[q].pc = "incident" => req[q].at \in Int
    BY LocalTypes, TimesAreNumbers DEF Inv, TypeOK
  <2> QED
    BY <1>1, <2>1 DEF Inv, Sound, Tick, stores, Listed, Opened
<1>4. EndedHasTime'
  <2> SUFFICES ASSUME NEW i \in Opened
               PROVE  /\ incidents[i].resolvedAt = Never \/ incidents[i].resolvedAt <= now'
                      /\ incidents[i].status \in Over /\ incidents[i].first \notin Over
                           => incidents[i].resolvedAt # Never
    BY DEF EndedHasTime, Tick, stores, Opened
  <2>1. incidents[i].resolvedAt = Never \/ incidents[i].resolvedAt \in Int
    BY TimesAreNumbers DEF Inv, TypeOK, Opened, IncidentDocs
  <2> QED
    BY <1>1, <2>1 DEF Inv, EndedHasTime
<1>5. ServicesUnique' /\ DependenciesSound'
  BY DEF Inv, ServicesUnique, DependenciesSound, Tick, stores, Listed, Linked
<1> QED
  BY <1>2, <1>3, <1>4, <1>5 DEF Inv

-----------------------------------------------------------------------------
\* The theorems about the collections

LEMMA Initially == Init => Inv
<1> SUFFICES ASSUME Init PROVE Inv
  OBVIOUS
<1>1. Listed = {} /\ Linked = {} /\ Opened = {}
  BY DEF Init, Listed, Linked, Opened
<1>2. TypeOK
  BY IdleSound, TimesAreNumbers DEF Init, TypeOK
<1> QED
  BY <1>1, <1>2, IdleSound DEF Init, Inv, ServicesUnique, DependenciesSound, EndedHasTime

LEMMA Inductive ==
  ASSUME Inv, [Next]_vars
  PROVE  Inv'
<1>1. CASE UNCHANGED vars
  <2>1. UNCHANGED <<now, stores, req>>
    BY <1>1 DEF vars, stores
  <2> QED
    BY <2>1 DEF Inv, TypeOK, Sound, ServicesUnique, DependenciesSound,
       EndedHasTime, Listed, Linked, Opened, stores
<1>2. CASE Next
  BY <1>2, RequestSteps, InsertServiceStep, InsertDependencyStep,
     CreateIncidentStep, WriteIncidentStep, TickStep DEF Next
<1> QED
  BY <1>1, <1>2

LEMMA Always == Spec => []Inv
BY Initially, Inductive, PTL DEF Spec

\* Documents and requests keep their types, for any data clients send.
THEOREM TypeCorrect == Spec => []TypeOK
<1>1. Inv => TypeOK
  BY DEF Inv
<1> QED
  BY <1>1, Always, PTL

\* No two services ever share a name or a slug, whatever creates overlap.
THEOREM ServicesStayUnique == Spec => []ServicesUnique
<1>1. Inv => ServicesUnique
  BY DEF Inv
<1> QED
  BY <1>1, Always, PTL

\* Dependencies join services that exist, one per source, target and type.
THEOREM DependenciesStaySound == Spec => []DependenciesSound
<1>1. Inv => DependenciesSound
  BY DEF Inv
<1> QED
  BY <1>1, Always, PTL

\* An incident ended by an update says when, and that time has passed.
THEOREM EndedIncidentsHaveTime == Spec => []EndedHasTime
<1>1. Inv => EndedHasTime
  BY DEF Inv
<1> QED
  BY <1>1, Always, PTL

-----------------------------------------------------------------------------
\* The inductive invariant of what clients look at

\* The services that come before s, when no two share a createdAt.
Ahead(s) == {t \in Listed : services[t].createdAt > services[s].createdAt}

Missed(v) == v.known \ v.seen

\* What is missed comes after so many full pages.
Beyond(v, pages) ==
  \A s \in Missed(v) : pages * Limit <= Cardinality(Ahead(s))

\* What the queries of a walk have established.
WalkSound(v) ==
  v.pc \in {"walk", "end"} =>
    /\ v.known \subseteq Listed /\ v.late \subseteq Listed
    /\ v.pc = "end" => v.pending = {}
    /\ v.pending = {"items"} => Cardinality(Listed) <= v.total + Cardinality(v.late)
    /\ Untied =>
         /\ Beyond(v, IF "items" \in v.pending THEN v.page - 1 ELSE v.page)
         /\ v.pending = {} =>
              \/ Missed(v) = {}
              \/ Cardinality(Missed(v)) + v.page * Limit <= v.total + Cardinality(v.late)
         /\ v.pc = "end" => Cardinality(Missed(v)) <= Cardinality(v.late)

StillOpen == {i \in Opened : IsOpen(i)}

SumOf(by) == by["healthy"] + by["degraded"] + by["unhealthy"] + by["unknown"]

\* What the queries of a summary have established.
FiguresSound(v) ==
  v.pc = "summary" =>
    /\ v.known \subseteq Listed
    /\ "total" \notin v.pending =>
         Cardinality(v.known) <= v.total /\ v.total <= Cardinality(Listed)
    /\ "byStatus" \notin v.pending =>
         /\ Cardinality(v.known) <= SumOf(v.byStatus)
         /\ SumOf(v.byStatus) <= Cardinality(Listed)
    /\ "recent" \notin v.pending /\ "open" \in v.pending =>
         v.recent \ v.touched \subseteq StillOpen
    /\ "recent" \in v.pending /\ "open" \notin v.pending =>
         Cardinality(StillOpen \ v.touched) <= v.open
    /\ "recent" \notin v.pending /\ "open" \notin v.pending =>
         Cardinality(v.recent \ v.touched) <= v.open

Shown == Walks \cup Summaries \cup {Away}

ViewInv ==
  /\ Inv
  /\ view \in [Clients -> Shown]
  /\ \A c \in Clients : WalkSound(view[c]) /\ FiguresSound(view[c])

-----------------------------------------------------------------------------
\* What clients hold

LEMMA FiniteCollections ==
  /\ IsFiniteSet(ServiceIds) /\ IsFiniteSet(IncidentIds)
  /\ \A S \in SUBSET ServiceIds :
       IsFiniteSet(S) /\ Cardinality(S) \in Nat /\ Cardinality(S) <= Cardinality(ServiceIds)
  /\ \A S \in SUBSET IncidentIds :
       IsFiniteSet(S) /\ Cardinality(S) \in Nat /\ Cardinality(S) <= Cardinality(IncidentIds)
BY ViewParameters, FS_Subset, FS_CardinalityType

LEMMA SubsetSize ==
  ASSUME NEW S, IsFiniteSet(S), NEW T \in SUBSET S
  PROVE  Cardinality(T) \in Nat /\ Cardinality(S) \in Nat /\ Cardinality(T) <= Cardinality(S)
BY FS_Subset, FS_CardinalityType

LEMMA CollectionTypes == Listed \in SUBSET ServiceIds /\ Opened \in SUBSET IncidentIds
BY DEF Listed, Opened

LEMMA ShownTypes ==
  ASSUME NEW v \in Shown
  PROVE  /\ v.pc \in {"walk", "end"} => v \in Walks
         /\ v.pc = "summary" => v \in Summaries
         /\ v.pc \in {"walk", "end", "summary", "away"}
BY DEF Shown, Walks, Summaries, Away

LEMMA WalkTypes ==
  ASSUME NEW v \in Walks
  PROVE  /\ v.pc \in {"walk", "end"}
         /\ v.pending \in SUBSET {"items", "total"}
         /\ v.page \in Nat \ {0}
         /\ v.total \in Nat
         /\ {v.seen, v.known, v.late, Missed(v)} \subseteq SUBSET ServiceIds
BY DEF Walks, Totals, Missed

LEMMA FigureTypes ==
  ASSUME NEW v \in Summaries
  PROVE  /\ v.pc = "summary"
         /\ v.pending \in SUBSET Queries
         /\ v.total \in Nat /\ v.open \in Nat
         /\ v.byStatus \in [ServiceStatuses -> Nat] /\ SumOf(v.byStatus) \in Nat
         /\ v.known \in SUBSET ServiceIds
         /\ v.recent \in SUBSET IncidentIds /\ v.touched \in SUBSET IncidentIds
<1>1. /\ v.pc = "summary" /\ v.pending \in SUBSET Queries
      /\ v.total \in Nat /\ v.open \in Nat
      /\ v.byStatus \in [ServiceStatuses -> Nat]
      /\ v.known \in SUBSET ServiceIds
      /\ v.recent \in SUBSET IncidentIds /\ v.touched \in SUBSET IncidentIds
  BY DEF Summaries, Totals
<1>2. SumOf(v.byStatus) \in Nat
  BY <1>1 DEF SumOf, ServiceStatuses
<1> QED
  BY <1>1, <1>2

\* Division rounds down.
LEMMA Quotient ==
  ASSUME NEW a \in Nat
  PROVE  /\ a \div Limit \in Nat
         /\ (a \div Limit) * Limit <= a
         /\ a < ((a \div Limit) + 1) * Limit
<1>1. Limit \in Nat /\ Limit > 0
  BY ViewParameters
<1>2. \A q \in Int : (q + 1) * Limit = q * Limit + Limit
  BY <1>1
<1>3. a \div Limit \in Int /\ Limit * (a \div Limit) <= a /\ a < Limit * (a \div Limit) + Limit
  BY <1>1
<1>4. a \div Limit \in Nat
  BY <1>1
<1> QED
  BY <1>1, <1>2, <1>3, <1>4

LEMMA FewerPages ==
  ASSUME NEW m \in Nat, NEW n \in Nat
  PROVE  /\ m <= n => m * Limit <= n * Limit
         /\ m * Limit < n * Limit => m < n
         /\ (m + 1) * Limit = m * Limit + Limit
         /\ m * Limit \in Nat
<1>1. Limit \in Nat
  BY ViewParameters
<1>2. ASSUME NEW k \in Nat PROVE (m + k) * Limit >= m * Limit /\ (n + k) * Limit >= n * Limit
  <2>1. k * Limit >= 0
    BY <1>1
  <2> QED
    BY <1>1, <2>1
<1>3. m <= n => m * Limit <= n * Limit
  <2>1. m <= n => n - m \in Nat /\ m + (n - m) = n
    OBVIOUS
  <2> QED
    BY <1>2, <2>1
<1>4. n <= m => n * Limit <= m * Limit
  <2>1. n <= m => m - n \in Nat /\ n + (m - n) = m
    OBVIOUS
  <2> QED
    BY <1>2, <2>1
<1>5. (m + 1) * Limit = m * Limit + Limit /\ m * Limit \in Nat /\ n * Limit \in Nat
  BY <1>1
<1> QED
  BY <1>3, <1>4, <1>5

LEMMA AtLeastOne ==
  ASSUME NEW q \in Nat
  PROVE  Max({1, q}) \in {1, q} /\ Max({1, q}) >= 1 /\ Max({1, q}) >= q
<1>1. \E x \in {1, q} : \A y \in {1, q} : x >= y
  <2>1. CASE q >= 1
    BY <2>1
  <2>2. CASE q < 1
    BY <2>2
  <2> QED
    BY <2>1, <2>2
<1> QED
  BY <1>1 DEF Max

\* The last page there could be is no nearer than the last one a total shows.
LEMMA PagesGrow ==
  ASSUME NEW m \in Nat, NEW n \in Nat, m <= n
  PROVE  /\ TotalPages(m) \in Nat /\ 1 <= TotalPages(m)
         /\ TotalPages(m) <= TotalPages(n)
         /\ m <= TotalPages(m) * Limit
<1> DEFINE q(k) == (k + Limit - 1) \div Limit
<1>1. Limit \in Nat /\ Limit > 0
  BY ViewParameters
<1>2. ASSUME NEW k \in Nat
      PROVE  /\ q(k) \in Nat /\ q(k) * Limit <= k + Limit - 1
             /\ k <= q(k) * Limit
  <2>1. k + Limit - 1 \in Nat
    BY <1>1
  <2>2. q(k) \in Nat /\ q(k) * Limit <= k + Limit - 1 /\ k + Limit - 1 < (q(k) + 1) * Limit
    BY <2>1, Quotient
  <2>3. (q(k) + 1) * Limit = q(k) * Limit + Limit /\ q(k) * Limit \in Nat
    BY <2>2, FewerPages
  <2> QED
    BY <1>1, <2>2, <2>3
<1>3. \A k \in Nat : TotalPages(k) = Max({1, q(k)})
  BY DEF TotalPages
<1> HIDE DEF q
<1>4. q(m) <= q(n)
  <2>1. (q(n) + 1) * Limit = q(n) * Limit + Limit /\ q(m) \in Nat /\ q(n) + 1 \in Nat
        /\ q(n) * Limit \in Nat /\ q(m) * Limit \in Nat
    BY <1>2, FewerPages
  <2>2. q(m) * Limit <= m + Limit - 1 /\ n <= q(n) * Limit
    BY <1>2
  <2>3. q(m) * Limit < (q(n) + 1) * Limit
    BY <1>1, <2>1, <2>2
  <2>4. q(m) < q(n) + 1
    BY <2>1, <2>3, FewerPages
  <2> QED
    BY <1>2, <2>4
<1>5. ASSUME NEW k \in Nat
      PROVE  /\ TotalPages(k) \in {1, q(k)}
             /\ TotalPages(k) >= 1 /\ TotalPages(k) >= q(k)
  BY <1>2, <1>3, AtLeastOne
<1>6. q(m) * Limit <= TotalPages(m) * Limit
  BY <1>2, <1>5, FewerPages
<1>7. q(m) \in Nat /\ q(n) \in Nat /\ q(m) * Limit \in Nat /\ TotalPages(m) * Limit \in Nat
  BY <1>2, <1>5, FewerPages
<1>8. m <= q(m) * Limit
  BY <1>2
<1> QED
  BY <1>4, <1>5, <1>6, <1>7, <1>8

\* Among some services one is the newest.
LEMMA NewestOf ==
  ASSUME Inv, NEW S \in SUBSET Listed, S # {}
  PROVE  \E s \in S : \A t \in S : services[t].createdAt <= services[s].createdAt
<1> DEFINE age(s) == MaxTime - services[s].createdAt
           T == {age(s) : s \in S}
           R == {p \in Nat \X Nat : p[1] < p[2]}
<1>1. \A s \in S : services[s].createdAt \in Times
  BY DEF Inv, TypeOK, Listed, ServiceDocs
<1>2. T \subseteq Nat /\ T # {}
  BY <1>1, Parameters DEF Times
<1>3. IsWellFoundedOn(R, Nat)
  <2>1. R = OpToRel(<, Nat)
    BY DEF OpToRel
  <2> QED
    BY <2>1, NatLessThanWellFounded
<1>4. PICK x \in T : \A y \in T : <<y, x>> \notin R
  <2> HIDE DEF T, R
  <2> QED
    BY <1>2, <1>3, WFMin
<1>5. \A y \in T : x <= y
  <2> HIDE DEF T, R
  <2> SUFFICES ASSUME NEW y \in T PROVE x <= y
    OBVIOUS
  <2>1. x \in Nat /\ y \in Nat /\ <<y, x>> \notin R
    BY <1>2, <1>4
  <2>2. ~ (y < x)
    BY <2>1 DEF R
  <2> QED
    BY <2>1, <2>2
<1>6. PICK s \in S : x = age(s)
  OBVIOUS
<1>7. \A t \in S : age(s) <= age(t)
  BY <1>5, <1>6
<1>8. \A t \in S : services[t].createdAt <= services[s].createdAt
  BY <1>1, <1>7, Parameters DEF Times
<1> QED
  BY <1>8

-----------------------------------------------------------------------------
\* The pages

\* Services are stored and never lost or changed: what is ahead of one stays so.
LEMMA ServicesGrow ==
  ASSUME Inv, Next
  PROVE  /\ Listed \subseteq Listed'
         /\ \A s \in Listed : services'[s] = services[s]
         /\ Stored = Listed' \ Listed
         /\ Untied' => Untied
         /\ \A s \in Listed : Ahead(s) \subseteq Ahead(s)'
<1>1. /\ Listed \subseteq Listed'
      /\ \A s \in Listed : services'[s] = services[s]
  <2>1. CASE UNCHANGED services
    BY <2>1 DEF Listed
  <2>2. ASSUME NEW r \in Requests, NEW x \in ServiceIds, InsertService(r, x)
        PROVE  /\ Listed \subseteq Listed'
               /\ \A s \in Listed : services'[s] = services[s]
    <3>1. PICK doc : services' = [services EXCEPT ![x] = doc]
      BY <2>2 DEF InsertService
    <3>2. x \notin Listed
      BY <2>2 DEF InsertService, Listed
    <3> QED
      BY <3>1, <3>2 DEF Inv, TypeOK, Listed
  <2> QED
    BY <2>1, <2>2 DEF Next, CreateService, RejectService, FindSource, FindTarget,
       InsertDependency, RejectDependency, UpdateIncident, WriteIncident, Abort,
       CreateIncident, Tick, stores
<1>2. Stored = Listed' \ Listed
  BY <1>1 DEF Listed, Stored
<1> QED
  BY <1>1, <1>2 DEF Untied, Ahead

LEMMA AheadSize ==
  ASSUME NEW s
  PROVE  Ahead(s) \in SUBSET Listed /\ IsFiniteSet(Ahead(s)) /\ Cardinality(Ahead(s)) \in Nat
BY FiniteCollections, CollectionTypes DEF Ahead

\* In whatever order a query returns them, a service comes right after those
\* that are ahead of it.
LEMMA PlaceInOrder ==
  ASSUME Inv, Untied, NEW order \in NewestFirst, NEW s \in Listed
  PROVE  \E n \in DOMAIN order : order[n] = s /\ Cardinality(Ahead(s)) = n - 1
<1> DEFINE size == Cardinality(Listed)
<1>1. size \in Nat /\ IsFiniteSet(Listed)
  BY FiniteCollections, CollectionTypes
<1> HIDE DEF size
<1>2. /\ order \in [1 .. size -> Listed] /\ DOMAIN order = 1 .. size
      /\ IsInjective(order)
      /\ \A m, n \in 1 .. size :
           m < n => services[order[m]].createdAt >= services[order[n]].createdAt
  BY DEF NewestFirst, size
<1>3. \A m, n \in 1 .. size : order[m] = order[n] => m = n
  BY <1>2 DEF IsInjective
<1>4. order \in Surjection(1 .. size, Listed)
  <2>1. order \in Injection(1 .. size, Listed)
    BY <1>2, <1>3, Fun_IsInj
  <2>2. Cardinality(1 .. size) = size
    <3>1. Cardinality(1 .. size) = IF 1 > size THEN 0 ELSE size - 1 + 1
      BY <1>1, FS_Interval
    <3> QED
      BY <1>1, <3>1
  <2> QED
    BY <1>1, <2>1, <2>2, FS_Injection DEF size
<1>5. \A t \in Listed : \E m \in 1 .. size : order[m] = t
  BY <1>4 DEF Surjection
<1>6. PICK n \in 1 .. size : order[n] = s
  BY <1>5
<1>7. ASSUME NEW m \in 1 .. size PROVE order[m] \in Ahead(s) <=> m < n
  <2>1. order[m] \in Listed /\ services[order[m]].createdAt \in Int
        /\ services[s].createdAt \in Int
    BY <1>2, TimesAreNumbers DEF Inv, TypeOK, Listed, ServiceDocs
  <2>2. CASE m < n
    <3>1. services[order[m]].createdAt >= services[s].createdAt /\ order[m] # s
      BY <1>2, <1>3, <1>6, <2>2
    <3> QED
      BY <2>1, <2>2, <3>1 DEF Untied, Ahead
  <2>3. CASE m = n
    BY <1>6, <2>1, <2>3 DEF Ahead
  <2>4. CASE n < m
    <3>1. services[s].createdAt >= services[order[m]].createdAt
      BY <1>2, <1>6, <2>4
    <3> QED
      BY <2>1, <2>4, <3>1 DEF Ahead
  <2> QED
    BY <2>2, <2>3, <2>4
<1> DEFINE before == [m \in 1 .. n - 1 |-> order[m]]
<1>8. n - 1 \in Nat /\ 1 .. n - 1 \subseteq 1 .. size /\ \A m \in 1 .. n - 1 : m < n
  BY <1>1
<1>9. before \in [1 .. n - 1 -> Ahead(s)]
  BY <1>7, <1>8
<1>10. \A k, m \in 1 .. n - 1 : before[k] = before[m] => k = m
  BY <1>3, <1>8
<1>11. \A t \in Ahead(s) : \E m \in 1 .. n - 1 : before[m] = t
  <2> SUFFICES ASSUME NEW t \in Ahead(s) PROVE \E m \in 1 .. n - 1 : before[m] = t
    OBVIOUS
  <2>1. PICK m \in 1 .. size : order[m] = t
    BY <1>5 DEF Ahead
  <2>2. m \in 1 .. n - 1
    BY <1>7, <2>1
  <2> QED
    BY <2>1, <2>2
<1>12. Cardinality(Ahead(s)) = n - 1
  <2> HIDE DEF before
  <2>1. before \in Bijection(1 .. n - 1, Ahead(s))
    BY <1>9, <1>10, <1>11, Fun_IsBij
  <2>2. ExistsBijection(1 .. n - 1, Ahead(s))
    BY <2>1, Fun_ExistsBij
  <2> QED
    BY <1>8, <2>2, FS_CountingElements
<1> QED
  BY <1>2, <1>6, <1>12

\* What is missed and what comes before all of it are different services.
LEMMA RoomFor ==
  ASSUME Inv, NEW M \in SUBSET Listed, M # {}, NEW n \in Nat,
         \A s \in M : n <= Cardinality(Ahead(s))
  PROVE  Cardinality(M) + n <= Cardinality(Listed)
<1>1. PICK s \in M : \A t \in M : services[t].createdAt <= services[s].createdAt
  BY NewestOf
<1>2. \A t \in Listed : services[t].createdAt \in Int
  BY TimesAreNumbers DEF Inv, TypeOK, Listed, ServiceDocs
<1>3. M \cap Ahead(s) = {}
  BY <1>1, <1>2 DEF Ahead
<1>4. /\ IsFiniteSet(M) /\ IsFiniteSet(Ahead(s)) /\ IsFiniteSet(Listed)
      /\ Cardinality(M) \in Nat /\ Cardinality(Ahead(s)) \in Nat
      /\ M \cup Ahead(s) \in SUBSET Listed
  BY FiniteCollections, CollectionTypes, AheadSize
<1>5. Cardinality(M \cup Ahead(s)) = Cardinality(M) + Cardinality(Ahead(s))
  <2>1. Cardinality(M \cup Ahead(s)) =
          Cardinality(M) + Cardinality(Ahead(s)) - Cardinality(M \cap Ahead(s))
    BY <1>4, FS_Union
  <2>2. Cardinality(M \cap Ahead(s)) = 0
    BY <1>3, FS_EmptySet
  <2> QED
    BY <1>4, <2>1, <2>2
<1>6. Cardinality(M \cup Ahead(s)) <= Cardinality(Listed) /\ Cardinality(Listed) \in Nat
  BY <1>4, SubsetSize
<1> QED
  BY <1>1, <1>4, <1>5, <1>6

\* A page leaves out only what another page comes before.
LEMMA PageLeavesOut ==
  ASSUME Inv, Untied, NEW order \in NewestFirst, NEW s \in Listed,
         NEW page \in Nat \ {0}, (page - 1) * Limit <= Cardinality(Ahead(s)),
         s \notin Items(order, page)
  PROVE  page * Limit <= Cardinality(Ahead(s))
<1>1. PICK n \in DOMAIN order : order[n] = s /\ Cardinality(Ahead(s)) = n - 1
  BY PlaceInOrder
<1>2. n \in Int
  <2>1. Cardinality(Listed) \in Nat /\ DOMAIN order = 1 .. Cardinality(Listed)
    BY FiniteCollections, CollectionTypes DEF NewestFirst
  <2> QED
    BY <1>1, <2>1
<1>3. n \notin Skip(page) + 1 .. Skip(page) + Limit
  BY <1>1 DEF Items
<1>4. /\ page - 1 \in Nat /\ (page - 1) * Limit \in Nat
      /\ page * Limit = (page - 1) * Limit + Limit /\ Limit \in Nat
  <2>1. page - 1 \in Nat /\ page - 1 + 1 = page
    OBVIOUS
  <2> QED
    BY <2>1, FewerPages, ViewParameters
<1> QED
  BY <1>1, <1>2, <1>3, <1>4 DEF Skip

-----------------------------------------------------------------------------
\* Steps of Registry

\* What a client notes of a step.
LEMMA NotedTypes ==
  ASSUME NEW v \in Shown
  PROVE  /\ Noted(v) \in Shown
         /\ v \in Walks =>
              /\ Noted(v).pc = v.pc /\ Noted(v).pending = v.pending
              /\ Noted(v).page = v.page /\ Noted(v).total = v.total
              /\ Noted(v).known = v.known /\ Noted(v).seen = v.seen
              /\ Noted(v).late = IF v.pc = "walk" /\ Cardinality(v.pending) = 1
                                   THEN v.late \cup Stored ELSE v.late
         /\ v \in Summaries =>
              /\ Noted(v).pc = v.pc /\ Noted(v).pending = v.pending
              /\ Noted(v).total = v.total /\ Noted(v).byStatus = v.byStatus
              /\ Noted(v).open = v.open /\ Noted(v).recent = v.recent
              /\ Noted(v).known = v.known
              /\ Noted(v).touched = IF v.pending # {} THEN v.touched \cup Written
                                                      ELSE v.touched
<1>1. CASE v \in Walks
  <2>1. v.pc # "summary" /\ Stored \in SUBSET ServiceIds
    BY <1>1 DEF Walks, Stored
  <2>2. v \notin Summaries
    BY <1>1 DEF Walks, Summaries
  <2>3. [v EXCEPT !.late = @ \cup Stored] \in Walks
    BY <1>1, <2>1 DEF Walks
  <2> QED
    BY <1>1, <2>1, <2>2, <2>3 DEF Noted, Walks, Shown
<1>2. CASE v \in Summaries
  <2>1. v.pc = "summary" /\ Written \in SUBSET IncidentIds
    BY <1>2 DEF Summaries, Written
  <2>2. v \notin Walks
    BY <1>2 DEF Walks, Summaries
  <2>3. [v EXCEPT !.touched = @ \cup Written] \in Summaries
    BY <1>2, <2>1 DEF Summaries
  <2> QED
    BY <1>2, <2>1, <2>2, <2>3 DEF Noted, Summaries, Shown
<1>3. CASE v = Away
  BY <1>3 DEF Noted, Away, Shown, Walks, Summaries
<1> QED
  BY <1>1, <1>2, <1>3 DEF Shown

LEMMA WriteWalk ==
  ASSUME ViewInv, Inv', Write, NEW c \in Clients, view[c] \in Walks
  PROVE  WalkSound(view[c])'
<1> DEFINE v == view[c]
           w == Noted(v)
<1>1. view'[c] = w
  BY DEF Write
<1>2. v \in Shown /\ WalkSound(v) /\ Inv /\ Next /\ v \in Walks
  BY DEF ViewInv, Write, Shown
<1> HIDE DEF v
<1>3. /\ w.pc = v.pc /\ w.pending = v.pending /\ w.page = v.page /\ w.total = v.total
      /\ w.known = v.known /\ w.seen = v.seen
      /\ w.late = IF v.pc = "walk" /\ Cardinality(v.pending) = 1
                    THEN v.late \cup Stored ELSE v.late
  BY <1>2, NotedTypes
<1> HIDE DEF w
<1>4. /\ v.pc \in {"walk", "end"} /\ v.page \in Nat \ {0} /\ v.total \in Nat
      /\ {v.seen, v.known, v.late, Missed(v)} \subseteq SUBSET ServiceIds
  BY <1>2, WalkTypes
<1>5. /\ Listed \subseteq Listed' /\ Stored = Listed' \ Listed
      /\ Untied' => Untied
      /\ \A s \in Listed : Ahead(s) \subseteq Ahead(s)'
  BY <1>2, ServicesGrow
<1>6. /\ v.known \subseteq Listed /\ v.late \subseteq Listed
      /\ v.pc = "end" => v.pending = {}
  BY <1>2, <1>4 DEF WalkSound
<1>7. /\ w.known \subseteq Listed' /\ w.late \subseteq Listed'
      /\ w.pc = "end" => w.pending = {}
  BY <1>3, <1>5, <1>6
<1>8. ASSUME v.pending = {"items"}
      PROVE  Cardinality(Listed') <= w.total + Cardinality(w.late)
  <2>1. Cardinality(v.pending) = 1
    BY <1>8, FS_Singleton
  <2>2. w.late = v.late \cup Stored
    BY <1>3, <1>4, <1>6, <1>8, <2>1
  <2>3. Cardinality(Listed) <= v.total + Cardinality(v.late)
    BY <1>2, <1>4, <1>8 DEF WalkSound
  <2>4. /\ IsFiniteSet(Listed) /\ IsFiniteSet(Stored) /\ IsFiniteSet(v.late)
        /\ Cardinality(Listed) \in Nat /\ Cardinality(Stored) \in Nat
        /\ Cardinality(v.late) \in Nat
    <3>1. Stored \in SUBSET ServiceIds
      BY DEF Stored
    <3> QED
      BY <1>4, <3>1, FiniteCollections, CollectionTypes
  <2>5. ASSUME NEW S \in SUBSET Listed, IsFiniteSet(S), Cardinality(S) \in Nat
        PROVE  Cardinality(S \cup Stored) = Cardinality(S) + Cardinality(Stored)
    <3>1. Cardinality(S \cup Stored) =
            Cardinality(S) + Cardinality(Stored) - Cardinality(S \cap Stored)
      BY <2>4, <2>5, FS_Union
    <3>2. S \cap Stored = {}
      BY <1>5
    <3> QED
      BY <2>4, <2>5, <3>1, <3>2, FS_EmptySet
  <2>6. Listed' = Listed \cup Stored
    BY <1>5
  <2>7. Cardinality(Listed') = Cardinality(Listed) + Cardinality(Stored)
    BY <2>4, <2>5, <2>6
  <2>8. Cardinality(w.late) = Cardinality(v.late) + Cardinality(Stored)
    BY <1>6, <2>2, <2>4, <2>5
  <2> QED
    BY <1>3, <1>4, <2>3, <2>4, <2>7, <2>8
<1>9. v.pending = {} => w.late = v.late
  BY <1>3, FS_EmptySet
<1>10. ASSUME Untied'
       PROVE  /\ \A s \in Missed(w) :
                   (IF "items" \in w.pending THEN w.page - 1 ELSE w.page) * Limit
                     <= Cardinality(Ahead(s)')
              /\ w.pending = {} =>
                   \/ Missed(w) = {}
                   \/ Cardinality(Missed(w)) + w.page * Limit <= w.total + Cardinality(w.late)
              /\ w.pc = "end" => Cardinality(Missed(w)) <= Cardinality(w.late)
  <2>1. Untied /\ Missed(w) = Missed(v)
    BY <1>3, <1>5, <1>10 DEF Missed
  <2>2. /\ Beyond(v, IF "items" \in v.pending THEN v.page - 1 ELSE v.page)
        /\ v.pending = {} =>
             \/ Missed(v) = {}
             \/ Cardinality(Missed(v)) + v.page * Limit <= v.total + Cardinality(v.late)
        /\ v.pc = "end" => Cardinality(Missed(v)) <= Cardinality(v.late)
    BY <1>2, <1>4, <2>1 DEF WalkSound
  <2>3. \A n \in Nat : n * Limit \in Nat
    BY FewerPages
  <2>4. ASSUME NEW s \in Missed(v), NEW n \in Nat, n <= Cardinality(Ahead(s))
        PROVE  n <= Cardinality(Ahead(s)')
    <3>1. Ahead(s) \subseteq Ahead(s)'
      BY <1>5, <1>6 DEF Missed
    <3>2. Ahead(s)' \in SUBSET ServiceIds
      BY DEF Ahead, Listed
    <3>3. Cardinality(Ahead(s)) \in Nat /\ Cardinality(Ahead(s)') \in Nat
          /\ Cardinality(Ahead(s)) <= Cardinality(Ahead(s)')
      BY <3>1, <3>2, FiniteCollections, SubsetSize
    <3> QED
      BY <2>4, <3>3
  <2>5. (IF "items" \in v.pending THEN v.page - 1 ELSE v.page) \in Nat
    BY <1>4
  <2>6. \A s \in Missed(v) :
          (IF "items" \in v.pending THEN v.page - 1 ELSE v.page) * Limit
            <= Cardinality(Ahead(s)')
    BY <2>2, <2>3, <2>4, <2>5 DEF Beyond
  <2> QED
    BY <1>3, <1>6, <1>9, <2>1, <2>2, <2>6
<1> QED
  BY <1>1, <1>3, <1>7, <1>8, <1>10 DEF WalkSound, Beyond, Missed

\* What is open and not written stays what it is.
LEMMA OpenStays ==
  ASSUME NEW i \in IncidentIds, i \notin Written
  PROVE  i \in StillOpen' <=> i \in StillOpen
BY DEF Written, StillOpen, Opened, IsOpen

LEMMA WriteFigures ==
  ASSUME ViewInv, Inv', Write, NEW c \in Clients, view[c] \in Summaries
  PROVE  FiguresSound(view[c])'
<1> DEFINE v == view[c]
           w == Noted(v)
<1>1. view'[c] = w
  BY DEF Write
<1>2. v \in Shown /\ FiguresSound(v) /\ Inv /\ Next /\ v \in Summaries
  BY DEF ViewInv, Write, Shown
<1> HIDE DEF v
<1>3. /\ w.pc = v.pc /\ w.pending = v.pending /\ w.total = v.total
      /\ w.byStatus = v.byStatus /\ w.open = v.open /\ w.recent = v.recent
      /\ w.known = v.known
      /\ w.touched = IF v.pending # {} THEN v.touched \cup Written ELSE v.touched
  BY <1>2, NotedTypes
<1> HIDE DEF w
<1>4. /\ v.pc = "summary" /\ v.total \in Nat /\ v.open \in Nat /\ SumOf(v.byStatus) \in Nat
      /\ v.recent \in SUBSET IncidentIds /\ v.touched \in SUBSET IncidentIds
      /\ v.known \in SUBSET ServiceIds
  BY <1>2, FigureTypes
<1>5. /\ v.known \subseteq Listed
      /\ "total" \notin v.pending =>
           Cardinality(v.known) <= v.total /\ v.total <= Cardinality(Listed)
      /\ "byStatus" \notin v.pending =>
           /\ Cardinality(v.known) <= SumOf(v.byStatus)
           /\ SumOf(v.byStatus) <= Cardinality(Listed)
  BY <1>2, <1>4 DEF FiguresSound
<1>6. /\ Listed \subseteq Listed' /\ Cardinality(Listed) <= Cardinality(Listed')
      /\ Cardinality(Listed) \in Nat /\ Cardinality(Listed') \in Nat
  <2>1. Listed \subseteq Listed' /\ Listed' \in SUBSET ServiceIds
    BY <1>2, ServicesGrow DEF Listed
  <2> QED
    BY <2>1, FiniteCollections, SubsetSize
<1>7. /\ w.known \subseteq Listed'
      /\ "total" \notin w.pending =>
           Cardinality(w.known) <= w.total /\ w.total <= Cardinality(Listed')
      /\ "byStatus" \notin w.pending =>
           /\ Cardinality(w.known) <= SumOf(w.byStatus)
           /\ SumOf(w.byStatus) <= Cardinality(Listed')
  BY <1>3, <1>4, <1>5, <1>6
<1>8. /\ StillOpen \in SUBSET IncidentIds /\ StillOpen' \in SUBSET IncidentIds
  BY DEF StillOpen, Opened
<1>9. ASSUME "recent" \notin w.pending, "open" \in w.pending
      PROVE  w.recent \ w.touched \subseteq StillOpen'
  <2>1. v.recent \ v.touched \subseteq StillOpen
    BY <1>2, <1>3, <1>4, <1>9 DEF FiguresSound
  <2>2. w.touched = v.touched \cup Written
    BY <1>3, <1>9
  <2> QED
    BY <1>3, <1>8, <2>1, <2>2, OpenStays
<1>10. ASSUME "recent" \in w.pending, "open" \notin w.pending
       PROVE  Cardinality(StillOpen' \ w.touched) <= w.open
  <2>1. Cardinality(StillOpen \ v.touched) <= v.open
    BY <1>2, <1>3, <1>4, <1>10 DEF FiguresSound
  <2>2. w.touched = v.touched \cup Written
    BY <1>3, <1>10
  <2>3. StillOpen' \ w.touched \subseteq StillOpen \ v.touched
    BY <1>8, <2>2, OpenStays
  <2>4. StillOpen \ v.touched \in SUBSET IncidentIds
    BY <1>8
  <2> QED
    BY <1>3, <1>4, <2>1, <2>3, <2>4, FiniteCollections, SubsetSize
<1>11. ASSUME "recent" \notin w.pending, "open" \notin w.pending
       PROVE  Cardinality(w.recent \ w.touched) <= w.open
  <2>1. Cardinality(v.recent \ v.touched) <= v.open
    BY <1>2, <1>3, <1>4, <1>11 DEF FiguresSound
  <2>2. w.recent \ w.touched \subseteq v.recent \ v.touched
    BY <1>3
  <2>3. v.recent \ v.touched \in SUBSET IncidentIds
    BY <1>4
  <2> QED
    BY <1>3, <1>4, <2>1, <2>2, <2>3, FiniteCollections, SubsetSize
<1> QED
  BY <1>1, <1>7, <1>9, <1>10, <1>11 DEF FiguresSound

LEMMA WriteStep ==
  ASSUME ViewInv, Write
  PROVE  ViewInv'
<1>1. Inv'
  BY Inductive DEF ViewInv, Write
<1>2. view' \in [Clients -> Shown]'
  <2>1. \A c \in Clients : Noted(view[c]) \in Shown
    BY NotedTypes DEF ViewInv
  <2> QED
    BY <2>1 DEF Write, Shown, Walks, Summaries, Totals, TotalPages, Away
<1>3. ASSUME NEW c \in Clients
      PROVE  WalkSound(view[c])' /\ FiguresSound(view[c])'
  <2>1. view[c] \in Shown /\ view'[c] = Noted(view[c])
    BY DEF ViewInv, Write
  <2>2. CASE view[c] \in Walks
    <3>1. view[c].pc \in {"walk", "end"}
      BY <2>2, WalkTypes
    <3>2. view'[c].pc = view[c].pc
      BY <2>1, <2>2, NotedTypes
    <3> QED
      BY <1>1, <2>2, <3>1, <3>2, WriteWalk DEF FiguresSound
  <2>3. CASE view[c] \in Summaries
    <3>1. view'[c].pc = "summary"
      BY <2>1, <2>3, NotedTypes, FigureTypes
    <3> QED
      BY <1>1, <2>3, <3>1, WriteFigures DEF WalkSound
  <2>4. CASE view[c] = Away
    <3>1. view'[c].pc = "away"
      BY <2>1, <2>4 DEF Away, Noted
    <3> QED
      BY <3>1 DEF WalkSound, FiguresSound
  <2> QED
    BY <2>1, <2>2, <2>3, <2>4 DEF Shown
<1> QED
  BY <1>1, <1>2, <1>3 DEF ViewInv

-----------------------------------------------------------------------------
\* Steps of a client

LEMMA LookStep ==
  ASSUME ViewInv, NEW c \in Clients, NEW w \in Shown, Show(c, w),
         WalkSound(w), FiguresSound(w)
  PROVE  ViewInv'
<1>1. Inv'
  BY Inductive DEF ViewInv, Show
<1>2. view' \in [Clients -> Shown]'
  BY DEF ViewInv, Show, Shown, Walks, Summaries, Totals, TotalPages, Away
<1>3. ASSUME NEW d \in Clients PROVE WalkSound(view[d])' /\ FiguresSound(view[d])'
  <2>1. /\ view'[d] = w \/ view'[d] = view[d]
        /\ WalkSound(view'[d]) /\ FiguresSound(view'[d])
    BY DEF ViewInv, Show
  <2>2. UNCHANGED <<services, incidents>>
    BY DEF Show, vars
  <2> QED
    BY <2>1, <2>2 DEF WalkSound, FiguresSound, Untied, Beyond, Missed, Ahead, Listed,
       StillOpen, Opened, IsOpen
<1> QED
  BY <1>1, <1>2, <1>3 DEF ViewInv

\* A record in one type is not in another, by where it is.
LEMMA WalkOnly ==
  ASSUME NEW w \in Walks, WalkSound(w)
  PROVE  w \in Shown /\ WalkSound(w) /\ FiguresSound(w)
BY DEF Shown, Walks, FiguresSound

LEMMA FiguresOnly ==
  ASSUME NEW w \in Summaries, FiguresSound(w)
  PROVE  w \in Shown /\ WalkSound(w) /\ FiguresSound(w)
BY DEF Shown, Summaries, WalkSound

LEMMA BeginAndLeave ==
  ASSUME ViewInv, NEW c \in Clients
  PROVE  FirstPage(c) \/ OpenSummary(c) \/ Leave(c) => ViewInv'
<1>1. ASSUME FirstPage(c) PROVE ViewInv'
  <2> DEFINE w == [pc |-> "walk", pending |-> {"items", "total"}, page |-> 1,
                   total |-> 0, seen |-> {}, known |-> Listed, late |-> {}]
  <2>1. w \in Walks
    <3>1. 0 \in Totals /\ 1 \in 1 .. TotalPages(Cardinality(ServiceIds))
      <4>1. Cardinality(ServiceIds) \in Nat
        BY FiniteCollections
      <4>2. TotalPages(Cardinality(ServiceIds)) \in Nat
            /\ 1 <= TotalPages(Cardinality(ServiceIds))
        BY <4>1, PagesGrow
      <4> QED
        BY <4>1, <4>2 DEF Totals
    <3> QED
      BY <3>1, CollectionTypes DEF Walks
  <2>2. WalkSound(w)
    <3>1. Beyond(w, w.page - 1)
      <4>1. (w.page - 1) * Limit = 0
        BY ViewParameters
      <4> QED
        BY <4>1, AheadSize DEF Beyond
    <3> QED
      BY <3>1 DEF WalkSound
  <2> QED
    BY <1>1, <2>1, <2>2, WalkOnly, LookStep DEF FirstPage
<1>2. ASSUME OpenSummary(c) PROVE ViewInv'
  <2> DEFINE w == [pc |-> "summary", pending |-> Queries, total |-> 0,
                   byStatus |-> [status \in ServiceStatuses |-> 0], open |-> 0,
                   recent |-> {}, known |-> Listed, touched |-> {}]
  <2>1. w \in Summaries
    <3>1. 0 \in Totals /\ 0 \in 0 .. Cardinality(IncidentIds)
      BY FiniteCollections DEF Totals
    <3> QED
      BY <3>1, CollectionTypes DEF Summaries
  <2>2. FiguresSound(w)
    BY DEF FiguresSound, Queries
  <2> QED
    BY <1>2, <2>1, <2>2, FiguresOnly, LookStep DEF OpenSummary
<1>3. ASSUME Leave(c) PROVE ViewInv'
  <2>1. Away \in Shown /\ WalkSound(Away) /\ FiguresSound(Away)
    BY DEF Shown, Away, WalkSound, FiguresSound
  <2> QED
    BY <1>3, <2>1, LookStep DEF Leave
<1> QED
  BY <1>1, <1>2, <1>3

\* The items of a page, answered before the total or after it.
LEMMA FindPageStep ==
  ASSUME ViewInv, NEW c \in Clients, FindPage(c)
  PROVE  ViewInv'
<1> DEFINE v == view[c]
<1>1. v \in Walks /\ WalkSound(v) /\ Inv /\ v.pc = "walk" /\ "items" \in v.pending
  BY ShownTypes DEF ViewInv, FindPage
<1>2. PICK order \in NewestFirst :
        Show(c, [v EXCEPT !.pending = @ \ {"items"},
                          !.seen = @ \cup Items(order, v.page)])
  BY DEF FindPage
<1> DEFINE w == [v EXCEPT !.pending = @ \ {"items"},
                          !.seen = @ \cup Items(order, v.page)]
<1> HIDE DEF v
<1>3. /\ v.pending \in SUBSET {"items", "total"} /\ v.page \in Nat \ {0}
      /\ v.total \in Nat
      /\ {v.seen, v.known, v.late, Missed(v)} \subseteq SUBSET ServiceIds
  BY <1>1, WalkTypes
<1>4. Items(order, v.page) \in SUBSET ServiceIds
  BY CollectionTypes DEF Items, NewestFirst
<1>5. /\ w \in Walks
      /\ w.pc = "walk" /\ w.pending = v.pending \ {"items"} /\ w.page = v.page
      /\ w.total = v.total /\ w.known = v.known /\ w.late = v.late
      /\ w.seen = v.seen \cup Items(order, v.page)
  BY <1>1, <1>4 DEF Walks
<1> HIDE DEF w
<1>6. /\ v.known \subseteq Listed /\ v.late \subseteq Listed
      /\ v.pending = {"items"} => Cardinality(Listed) <= v.total + Cardinality(v.late)
      /\ Untied => Beyond(v, v.page - 1)
  BY <1>1 DEF WalkSound
<1>7. ASSUME Untied PROVE Beyond(w, w.page)
  <2> SUFFICES ASSUME NEW s \in Missed(w)
               PROVE  w.page * Limit <= Cardinality(Ahead(s))
    BY DEF Beyond
  <2>1. s \in Missed(v) /\ s \in Listed /\ s \notin Items(order, v.page)
    BY <1>5, <1>6 DEF Missed
  <2>2. (v.page - 1) * Limit <= Cardinality(Ahead(s))
    BY <1>6, <1>7, <2>1 DEF Beyond
  <2> QED
    BY <1>1, <1>3, <1>5, <1>7, <2>1, <2>2, PageLeavesOut
<1>8. ASSUME Untied, w.pending = {}
      PROVE  \/ Missed(w) = {}
             \/ Cardinality(Missed(w)) + w.page * Limit <= w.total + Cardinality(w.late)
  <2>1. w.page * Limit \in Nat
    BY <1>3, <1>5, FewerPages
  <2>2. Missed(w) \in SUBSET Listed
    BY <1>5, <1>6 DEF Missed
  <2>3. Missed(w) # {} => Cardinality(Missed(w)) + w.page * Limit <= Cardinality(Listed)
    BY <1>1, <1>7, <1>8, <2>1, <2>2, RoomFor DEF Beyond
  <2>4. v.pending = {"items"}
    BY <1>1, <1>3, <1>5, <1>8
  <2>5. /\ Cardinality(Missed(w)) \in Nat /\ Cardinality(Listed) \in Nat
        /\ Cardinality(v.late) \in Nat
    BY <1>3, <2>2, FiniteCollections, CollectionTypes
  <2> QED
    BY <1>3, <1>5, <1>6, <2>1, <2>3, <2>4, <2>5
<1>9. WalkSound(w)
  BY <1>5, <1>6, <1>7, <1>8 DEF WalkSound
<1> QED
  BY <1>2, <1>5, <1>9, WalkOnly, LookStep DEF w

LEMMA CountTotalStep ==
  ASSUME ViewInv, NEW c \in Clients, CountTotal(c)
  PROVE  ViewInv'
<1> DEFINE v == view[c]
           w == [v EXCEPT !.pending = @ \ {"total"}, !.total = Cardinality(Listed)]
<1>1. v \in Walks /\ WalkSound(v) /\ Inv /\ v.pc = "walk" /\ "total" \in v.pending
  BY ShownTypes DEF ViewInv, CountTotal
<1>2. Show(c, w)
  BY DEF CountTotal
<1> HIDE DEF v
<1>3. /\ v.pending \in SUBSET {"items", "total"} /\ v.page \in Nat \ {0}
      /\ {v.seen, v.known, v.late, Missed(v)} \subseteq SUBSET ServiceIds
  BY <1>1, WalkTypes
<1>4. Cardinality(Listed) \in Totals /\ Cardinality(Listed) \in Nat
  BY FiniteCollections, CollectionTypes DEF Totals
<1>5. /\ w \in Walks
      /\ w.pc = "walk" /\ w.pending = v.pending \ {"total"} /\ w.page = v.page
      /\ w.total = Cardinality(Listed) /\ w.known = v.known /\ w.late = v.late
      /\ w.seen = v.seen
  BY <1>1, <1>4 DEF Walks
<1> HIDE DEF w
<1>6. /\ v.known \subseteq Listed /\ v.late \subseteq Listed
      /\ Untied => Beyond(v, IF "items" \in v.pending THEN v.page - 1 ELSE v.page)
  BY <1>1 DEF WalkSound
<1>7. Missed(w) = Missed(v) /\ ("items" \in w.pending <=> "items" \in v.pending)
  BY <1>5 DEF Missed
<1>8. Cardinality(Listed) <= w.total + Cardinality(w.late)
  BY <1>3, <1>4, <1>5, FiniteCollections
<1>9. ASSUME Untied, w.pending = {}
      PROVE  \/ Missed(w) = {}
             \/ Cardinality(Missed(w)) + w.page * Limit <= w.total + Cardinality(w.late)
  <2>1. w.page * Limit \in Nat
    BY <1>3, <1>5, FewerPages
  <2>2. Missed(w) \in SUBSET Listed
    BY <1>5, <1>6 DEF Missed
  <2>3. \A s \in Missed(w) : w.page * Limit <= Cardinality(Ahead(s))
    BY <1>5, <1>6, <1>7, <1>9 DEF Beyond
  <2>4. Missed(w) # {} => Cardinality(Missed(w)) + w.page * Limit <= Cardinality(Listed)
    BY <1>1, <2>1, <2>2, <2>3, RoomFor
  <2>5. Cardinality(Missed(w)) \in Nat /\ Cardinality(v.late) \in Nat
    BY <1>3, <2>2, FiniteCollections, CollectionTypes
  <2> QED
    BY <1>4, <1>5, <2>1, <2>4, <2>5
<1>10. WalkSound(w)
  BY <1>5, <1>6, <1>7, <1>8, <1>9 DEF WalkSound, Beyond
<1> QED
  BY <1>2, <1>5, <1>10, WalkOnly, LookStep DEF w

\* A client stops at a page only if that covers the total it was told.
LEMMA NextPageStep ==
  ASSUME ViewInv, NEW c \in Clients, NextPage(c)
  PROVE  ViewInv'
<1> DEFINE v == view[c]
           on == [v EXCEPT !.page = @ + 1, !.late = {}, !.pending = {"items", "total"}]
           end == [v EXCEPT !.pc = "end"]
<1>1. v \in Walks /\ WalkSound(v) /\ v.pc = "walk" /\ v.pending = {}
  BY ShownTypes DEF ViewInv, NextPage
<1>2. IF v.page < TotalPages(v.total) THEN Show(c, on) ELSE Show(c, end)
  BY DEF NextPage
<1> HIDE DEF v
<1>3. /\ v.page \in Nat \ {0} /\ v.total \in Totals /\ v.total \in Nat
      /\ v.page <= TotalPages(Cardinality(ServiceIds))
      /\ {v.seen, v.known, v.late, Missed(v)} \subseteq SUBSET ServiceIds
  <2>1. v.page \in 1 .. TotalPages(Cardinality(ServiceIds)) /\ v.total \in Totals
    BY <1>1 DEF Walks
  <2>2. Cardinality(ServiceIds) \in Nat
    BY FiniteCollections
  <2>3. TotalPages(Cardinality(ServiceIds)) \in Nat
    BY <2>2, PagesGrow
  <2> QED
    BY <1>1, <2>1, <2>3, WalkTypes
<1>4. /\ Cardinality(ServiceIds) \in Nat
      /\ TotalPages(v.total) \in Nat /\ TotalPages(Cardinality(ServiceIds)) \in Nat
      /\ TotalPages(v.total) <= TotalPages(Cardinality(ServiceIds))
      /\ v.total <= TotalPages(v.total) * Limit
  <2>1. Cardinality(ServiceIds) \in Nat /\ v.total <= Cardinality(ServiceIds)
    BY <1>3, FiniteCollections DEF Totals
  <2> QED
    BY <1>3, <2>1, PagesGrow
<1>5. /\ v.known \subseteq Listed /\ v.late \subseteq Listed
      /\ Untied =>
           /\ Beyond(v, v.page)
           /\ \/ Missed(v) = {}
              \/ Cardinality(Missed(v)) + v.page * Limit <= v.total + Cardinality(v.late)
  BY <1>1 DEF WalkSound
<1>6. CASE v.page < TotalPages(v.total)
  <2>1. v.page + 1 \in 1 .. TotalPages(Cardinality(ServiceIds))
    BY <1>3, <1>4, <1>6
  <2>2. /\ on \in Walks
        /\ on.pc = "walk" /\ on.pending = {"items", "total"} /\ on.page = v.page + 1
        /\ on.total = v.total /\ on.known = v.known /\ on.late = {} /\ on.seen = v.seen
    BY <1>1, <2>1 DEF Walks
  <2> HIDE DEF on
  <2>3. Untied => Beyond(on, on.page - 1)
    <3>1. on.page - 1 = v.page /\ Missed(on) = Missed(v)
      BY <1>3, <2>2 DEF Missed
    <3> QED
      BY <1>5, <3>1 DEF Beyond
  <2>4. WalkSound(on)
    BY <1>5, <2>2, <2>3 DEF WalkSound
  <2> QED
    BY <1>2, <1>6, <2>2, <2>4, WalkOnly, LookStep
<1>7. CASE ~ (v.page < TotalPages(v.total))
  <2>1. /\ end \in Walks
        /\ end.pc = "end" /\ end.pending = {} /\ end.page = v.page
        /\ end.total = v.total /\ end.known = v.known /\ end.late = v.late
        /\ end.seen = v.seen
    BY <1>1 DEF Walks
  <2> HIDE DEF end
  <2>2. Missed(end) = Missed(v)
    BY <2>1 DEF Missed
  <2>3. v.total <= v.page * Limit /\ v.page * Limit \in Nat
    <3>1. TotalPages(v.total) <= v.page
      BY <1>3, <1>4, <1>7
    <3>2. TotalPages(v.total) * Limit <= v.page * Limit /\ v.page * Limit \in Nat
          /\ TotalPages(v.total) * Limit \in Nat
      BY <1>3, <1>4, <3>1, FewerPages
    <3> QED
      BY <1>3, <1>4, <3>2
  <2>4. Untied => Cardinality(Missed(v)) <= Cardinality(v.late)
    <3>1. Cardinality(Missed(v)) \in Nat /\ Cardinality(v.late) \in Nat
      BY <1>3, FiniteCollections
    <3>2. Missed(v) = {} => Cardinality(Missed(v)) = 0
      BY FS_EmptySet
    <3> QED
      BY <1>3, <1>5, <2>3, <3>1, <3>2
  <2>5. WalkSound(end)
    BY <1>5, <2>1, <2>2, <2>4 DEF WalkSound, Beyond
  <2> QED
    BY <1>2, <1>7, <2>1, <2>5, WalkOnly, LookStep
<1> QED
  BY <1>6, <1>7

\* Every service has one of the four statuses.
LEMMA StatusesPartition ==
  ASSUME Inv
  PROVE  SumOf([status \in ServiceStatuses |-> Cardinality(WithStatus(status))])
           = Cardinality(Listed)
<1> DEFINE H == WithStatus("healthy")
           D == WithStatus("degraded")
           U == WithStatus("unhealthy")
           N == WithStatus("unknown")
<1>1. \A s \in Listed : services[s].data.status \in ServiceStatuses
  BY Parameters DEF Inv, TypeOK, Listed, ServiceDocs
<1>2. /\ Listed = (H \cup D) \cup (U \cup N)
      /\ H \cap D = {} /\ U \cap N = {} /\ (H \cup D) \cap (U \cup N) = {}
  BY <1>1 DEF WithStatus, ServiceStatuses
<1>3. H \in SUBSET ServiceIds /\ D \in SUBSET ServiceIds
      /\ U \in SUBSET ServiceIds /\ N \in SUBSET ServiceIds
  BY CollectionTypes DEF WithStatus
<1>4. SumOf([status \in ServiceStatuses |-> Cardinality(WithStatus(status))])
        = Cardinality(H) + Cardinality(D) + Cardinality(U) + Cardinality(N)
  BY DEF SumOf, ServiceStatuses
<1> HIDE DEF H, D, U, N
<1>5. ASSUME NEW S \in SUBSET ServiceIds, NEW T \in SUBSET ServiceIds, S \cap T = {}
      PROVE  /\ S \cup T \in SUBSET ServiceIds
             /\ Cardinality(S \cup T) = Cardinality(S) + Cardinality(T)
             /\ Cardinality(S) \in Nat /\ Cardinality(T) \in Nat
  <2>1. IsFiniteSet(S) /\ IsFiniteSet(T) /\ Cardinality(S) \in Nat /\ Cardinality(T) \in Nat
    BY FiniteCollections
  <2>2. Cardinality(S \cup T) = Cardinality(S) + Cardinality(T) - Cardinality(S \cap T)
    BY <2>1, FS_Union
  <2>3. Cardinality(S \cap T) = 0
    BY <1>5, FS_EmptySet
  <2> QED
    BY <2>1, <2>2, <2>3
<1>6. /\ Cardinality(H \cup D) = Cardinality(H) + Cardinality(D)
      /\ Cardinality(U \cup N) = Cardinality(U) + Cardinality(N)
      /\ Cardinality(H) \in Nat /\ Cardinality(D) \in Nat
      /\ Cardinality(U) \in Nat /\ Cardinality(N) \in Nat
      /\ H \cup D \in SUBSET ServiceIds /\ U \cup N \in SUBSET ServiceIds
  BY <1>2, <1>3, <1>5
<1>7. Cardinality(Listed) = Cardinality(H \cup D) + Cardinality(U \cup N)
  BY <1>2, <1>5, <1>6
<1> QED
  BY <1>4, <1>6, <1>7

LEMMA CountAllStep ==
  ASSUME ViewInv, NEW c \in Clients, CountAll(c)
  PROVE  ViewInv'
<1> DEFINE v == view[c]
           w == [v EXCEPT !.pending = @ \ {"total"}, !.total = Cardinality(Listed)]
<1>1. v \in Summaries /\ FiguresSound(v) /\ v.pc = "summary"
  BY ShownTypes DEF ViewInv, CountAll, Asked
<1>2. Show(c, w)
  BY DEF CountAll
<1> HIDE DEF v
<1>3. Cardinality(Listed) \in Totals /\ Cardinality(Listed) \in Nat
  BY FiniteCollections, CollectionTypes DEF Totals
<1>4. /\ w \in Summaries
      /\ w.pc = "summary" /\ w.pending = v.pending \ {"total"}
      /\ w.total = Cardinality(Listed) /\ w.byStatus = v.byStatus
      /\ w.open = v.open /\ w.recent = v.recent /\ w.known = v.known
      /\ w.touched = v.touched
  BY <1>1, <1>3 DEF Summaries
<1> HIDE DEF w
<1>5. Cardinality(w.known) <= w.total /\ w.total <= Cardinality(Listed)
  <2>1. w.known \in SUBSET Listed
    BY <1>1, <1>4 DEF FiguresSound
  <2> QED
    BY <1>3, <1>4, <2>1, FiniteCollections, CollectionTypes, SubsetSize
<1>6. FiguresSound(w)
  BY <1>1, <1>4, <1>5 DEF FiguresSound
<1> QED
  BY <1>2, <1>4, <1>6, FiguresOnly, LookStep

LEMMA CountByStatusStep ==
  ASSUME ViewInv, NEW c \in Clients, CountByStatus(c)
  PROVE  ViewInv'
<1> DEFINE v == view[c]
           by == [status \in ServiceStatuses |-> Cardinality(WithStatus(status))]
           w == [v EXCEPT !.pending = @ \ {"byStatus"}, !.byStatus = by]
<1>1. v \in Summaries /\ FiguresSound(v) /\ v.pc = "summary"
  BY ShownTypes DEF ViewInv, CountByStatus, Asked
<1>2. Show(c, w)
  BY DEF CountByStatus
<1>3. by \in [ServiceStatuses -> Totals] /\ SumOf(by) = Cardinality(Listed)
  <2>1. \A status : Cardinality(WithStatus(status)) \in Totals
    <3>1. \A status : WithStatus(status) \in SUBSET ServiceIds
      BY CollectionTypes DEF WithStatus
    <3> QED
      BY <3>1, FiniteCollections DEF Totals
  <2> QED
    BY <2>1, StatusesPartition DEF ViewInv
<1> HIDE DEF v, by
<1>4. /\ w \in Summaries
      /\ w.pc = "summary" /\ w.pending = v.pending \ {"byStatus"}
      /\ w.total = v.total /\ w.byStatus = by
      /\ w.open = v.open /\ w.recent = v.recent /\ w.known = v.known
      /\ w.touched = v.touched
  BY <1>1, <1>3 DEF Summaries
<1> HIDE DEF w
<1>5. /\ Cardinality(w.known) <= SumOf(w.byStatus)
      /\ SumOf(w.byStatus) <= Cardinality(Listed)
  <2>1. w.known \in SUBSET Listed
    BY <1>1, <1>4 DEF FiguresSound
  <2> QED
    BY <1>3, <1>4, <2>1, FiniteCollections, CollectionTypes, SubsetSize
<1>6. FiguresSound(w)
  BY <1>1, <1>4, <1>5 DEF FiguresSound
<1> QED
  BY <1>2, <1>4, <1>6, FiguresOnly, LookStep

LEMMA CountOpenStep ==
  ASSUME ViewInv, NEW c \in Clients, CountOpen(c)
  PROVE  ViewInv'
<1> DEFINE v == view[c]
           w == [v EXCEPT !.pending = @ \ {"open"}, !.open = Cardinality(StillOpen)]
<1>1. v \in Summaries /\ FiguresSound(v) /\ v.pc = "summary" /\ "open" \in v.pending
  BY ShownTypes DEF ViewInv, CountOpen, Asked
<1>2. Show(c, w)
  BY DEF CountOpen, StillOpen
<1> HIDE DEF v
<1>3. /\ StillOpen \in SUBSET IncidentIds /\ IsFiniteSet(StillOpen)
      /\ Cardinality(StillOpen) \in 0 .. Cardinality(IncidentIds)
  <2>1. StillOpen \in SUBSET IncidentIds
    BY DEF StillOpen, Opened
  <2> QED
    BY <2>1, FiniteCollections
<1>4. /\ w \in Summaries
      /\ w.pc = "summary" /\ w.pending = v.pending \ {"open"}
      /\ w.total = v.total /\ w.byStatus = v.byStatus
      /\ w.open = Cardinality(StillOpen) /\ w.recent = v.recent /\ w.known = v.known
      /\ w.touched = v.touched
  BY <1>1, <1>3 DEF Summaries
<1> HIDE DEF w
<1>5. ASSUME "recent" \in w.pending PROVE Cardinality(StillOpen \ w.touched) <= w.open
  BY <1>3, <1>4, SubsetSize
<1>6. ASSUME "recent" \notin w.pending PROVE Cardinality(w.recent \ w.touched) <= w.open
  <2>1. w.recent \ w.touched \in SUBSET StillOpen
    BY <1>1, <1>4, <1>6 DEF FiguresSound
  <2> QED
    BY <1>3, <1>4, <2>1, SubsetSize
<1>7. FiguresSound(w)
  BY <1>1, <1>4, <1>5, <1>6 DEF FiguresSound
<1> QED
  BY <1>2, <1>4, <1>7, FiguresOnly, LookStep

LEMMA FindRecentStep ==
  ASSUME ViewInv, NEW c \in Clients, FindRecent(c)
  PROVE  ViewInv'
<1> DEFINE v == view[c]
<1>1. v \in Summaries /\ FiguresSound(v) /\ v.pc = "summary" /\ "recent" \in v.pending
  BY ShownTypes DEF ViewInv, FindRecent, Asked
<1>2. PICK S \in SUBSET Opened :
        Show(c, [v EXCEPT !.pending = @ \ {"recent"},
                          !.recent = {i \in S : incidents[i].status \notin Over}])
  BY DEF FindRecent, kSubset
<1> DEFINE recent == {i \in S : incidents[i].status \notin Over}
           w == [v EXCEPT !.pending = @ \ {"recent"}, !.recent = recent]
<1>3. recent \subseteq StillOpen /\ recent \in SUBSET IncidentIds
  BY DEF StillOpen, IsOpen, Opened
<1> HIDE DEF v, recent
<1>4. /\ w \in Summaries
      /\ w.pc = "summary" /\ w.pending = v.pending \ {"recent"}
      /\ w.total = v.total /\ w.byStatus = v.byStatus
      /\ w.open = v.open /\ w.recent = recent /\ w.known = v.known
      /\ w.touched = v.touched /\ w.open \in Nat
  BY <1>1, <1>3, FigureTypes DEF Summaries
<1>5. Show(c, w)
  BY <1>2 DEF recent
<1> HIDE DEF w
<1>6. ASSUME "open" \notin w.pending PROVE Cardinality(w.recent \ w.touched) <= w.open
  <2>1. Cardinality(StillOpen \ w.touched) <= w.open
    BY <1>1, <1>4, <1>6 DEF FiguresSound
  <2>2. StillOpen \ w.touched \in SUBSET IncidentIds
    BY DEF StillOpen, Opened
  <2>3. w.recent \ w.touched \in SUBSET (StillOpen \ w.touched)
    BY <1>3, <1>4
  <2> QED
    BY <1>4, <2>1, <2>2, <2>3, FiniteCollections, SubsetSize
<1>7. FiguresSound(w)
  BY <1>1, <1>3, <1>4, <1>6 DEF FiguresSound
<1> QED
  BY <1>4, <1>5, <1>7, FiguresOnly, LookStep

-----------------------------------------------------------------------------
\* The theorems about what clients look at

LEMMA ViewsInitially == ViewInit => ViewInv
<1> SUFFICES ASSUME ViewInit PROVE ViewInv
  OBVIOUS
<1>1. Inv
  BY Initially DEF ViewInit
<1>2. Away \in Shown /\ WalkSound(Away) /\ FiguresSound(Away)
  BY DEF Shown, Away, WalkSound, FiguresSound
<1> QED
  BY <1>1, <1>2 DEF ViewInit, ViewInv

LEMMA ViewsInductive ==
  ASSUME ViewInv, [ViewNext]_allVars
  PROVE  ViewInv'
<1>1. CASE UNCHANGED allVars
  <2>1. UNCHANGED <<services, incidents, vars, view>>
    BY <1>1 DEF allVars, vars
  <2>2. Inv'
    BY <2>1, Inductive DEF ViewInv
  <2> QED
    BY <2>1, <2>2 DEF ViewInv, Shown, Walks, Summaries, Totals, TotalPages, Away,
       WalkSound, FiguresSound, Untied, Beyond, Missed, Ahead, Listed, StillOpen,
       Opened, IsOpen
<1>2. CASE ViewNext
  BY <1>2, WriteStep, BeginAndLeave, FindPageStep, CountTotalStep, NextPageStep,
     CountAllStep, CountByStatusStep, CountOpenStep, FindRecentStep DEF ViewNext, Look
<1> QED
  BY <1>1, <1>2

LEMMA ViewsAlways == ViewSpec => []ViewInv
BY ViewsInitially, ViewsInductive, PTL DEF ViewSpec

\* What clients look at keeps its type, and nobody is sent past the last page
\* there could be, for any limit.
THEOREM ViewsTyped == ViewSpec => []ViewTypeOK
<1>1. ViewInv => ViewTypeOK
  BY DEF ViewInv, Inv, ViewTypeOK, Shown
<1> QED
  BY <1>1, ViewsAlways, PTL

\* A client that follows hasNextPage to the end misses no more services than
\* were stored between the two queries of its last page.
THEOREM WalksMissLittle == ViewSpec => []WalkMisses
<1>1. ViewInv => WalkMisses
  BY DEF ViewInv, WalkMisses, WalkSound, Missed
<1> QED
  BY <1>1, ViewsAlways, PTL

\* The figures of a summary differ by no more than was written meanwhile.
THEOREM SummariesAgree == ViewSpec => []SummaryAgrees
<1>1. ASSUME ViewInv, NEW c \in Clients, Answered(c)
      PROVE  TotalsAgree(c) /\ RecentCounted(c)
  <2> DEFINE v == view[c]
             born == Cardinality(Listed \ v.known)
  <2>1. v \in Summaries /\ FiguresSound(v) /\ v.pc = "summary" /\ v.pending = {}
    BY <1>1, ShownTypes DEF ViewInv, Answered
  <2> HIDE DEF v
  <2>2. /\ v.known \in SUBSET Listed
        /\ Cardinality(v.known) <= v.total /\ v.total <= Cardinality(Listed)
        /\ Cardinality(v.known) <= SumOf(v.byStatus)
        /\ SumOf(v.byStatus) <= Cardinality(Listed)
        /\ Cardinality(v.recent \ v.touched) <= v.open
    BY <2>1 DEF FiguresSound
  <2>3. v.total \in Nat /\ SumOf(v.byStatus) \in Nat
    BY <2>1, FigureTypes
  <2>4. /\ Cardinality(Listed) \in Nat /\ Cardinality(v.known) \in Nat
        /\ born = Cardinality(Listed) - Cardinality(v.known)
    <3>1. IsFiniteSet(Listed) /\ Cardinality(Listed) \in Nat
      BY FiniteCollections, CollectionTypes
    <3>2. born = Cardinality(Listed) - Cardinality(Listed \cap v.known)
      BY <3>1, FS_Difference
    <3>3. Listed \cap v.known = v.known
      BY <2>2
    <3> QED
      BY <2>2, <3>1, <3>2, <3>3, SubsetSize
  <2>5. SumOf(v.byStatus) - v.total \in -born .. born
    BY <2>2, <2>3, <2>4
  <2> QED
    BY <2>2, <2>5 DEF v, TotalsAgree, RecentCounted, SumOf
<1>2. ViewInv => SummaryAgrees
  BY <1>1 DEF SummaryAgrees
<1> QED
  BY <1>2, ViewsAlways, PTL
=============================================================================
