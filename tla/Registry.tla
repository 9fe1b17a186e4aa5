------------------------------ MODULE Registry ------------------------------
(***************************************************************************)
(* What the operators keep up by hand: monitored services, dependencies    *)
(* between them, and incidents.                                            *)
(*                                                                         *)
(* ServicesService.create looks for the slug in one await and inserts in   *)
(* the next; the collection has a unique index on the slug and another on  *)
(* the name, which nobody looks for.  DependenciesService.create finds     *)
(* both ends and inserts, three awaits in a row.  IncidentsService.update  *)
(* reads the clock and writes one await later.  Nothing in these           *)
(* collections is ever deleted.                                            *)
(*                                                                         *)
(* Names and slugs stand for their values as stored.  createdAt is the     *)
(* clock at some moment of the insert, so documents need not be stored in  *)
(* the order of their createdAt, and two may share it.  A request that is  *)
(* refused at its first await is not a step; the alerts of an incident are *)
(* the subject of Detection.                                               *)
(*                                                                         *)
(* A definition headed "Faulty" is a plausible bug in the definition below *)
(* it: no action uses it, and a property is checked to fail with it.       *)
(***************************************************************************)
EXTENDS Integers, FiniteSets

CONSTANTS ServiceIds, DependencyIds, IncidentIds, Requests,
          Offered,    \* what clients send to POST /services
          Types,      \* the types of dependencies they send
          Reported,   \* the statuses they send for incidents
          MaxTime,    \* bound on the clock
          NoService, NoDependency, NoIncident, Never

ServiceStatuses == {"healthy", "degraded", "unhealthy", "unknown"}
IncidentStatuses ==
  {"open", "investigating", "identified", "monitoring", "resolved", "closed"}

ASSUME Parameters ==
  /\ \A data \in Offered :
       DOMAIN data = {"name", "slug", "status"} /\ data.status \in ServiceStatuses
  /\ Reported \subseteq IncidentStatuses
  /\ MaxTime \in Nat
  /\ Never \notin Nat

VARIABLES now,          \* the clock
          services,     \* services[s]: the service with id s, if any
          dependencies, \* dependencies[d]: the dependency with id d, if any
          incidents,    \* incidents[i]: the incident with id i, if any
          req           \* req[r]: where request r is and its local variables

stores == <<services, dependencies, incidents>>
vars == <<now, services, dependencies, incidents, req>>

-----------------------------------------------------------------------------

Times == 0 .. MaxTime

ServiceDocs == [data : Offered, createdAt : Times]
DependencyDocs == [source : ServiceIds, target : ServiceIds, type : Types]
\* first is history: the status the incident was stored with.
IncidentDocs == [status : IncidentStatuses, resolvedAt : Times \cup {Never},
                 first : IncidentStatuses]

\* No document is taken for a missing one.
ASSUME Absent == NoIncident \notin IncidentDocs

Listed == {s \in ServiceIds : services[s] # NoService}
Linked == {d \in DependencyIds : dependencies[d] # NoDependency}
Opened == {i \in IncidentIds : incidents[i] # NoIncident}

\* A request for a service: data.  For a dependency: the document to be.  For
\* an incident: the id and the status.  at: the clock when it began or read it.
Locals ==
  [pc : {"service"}, data : Offered, at : Times]
    \cup [pc : {"target", "dependency"}, doc : DependencyDocs]
    \cup [pc : {"incident"}, id : IncidentIds, status : IncidentStatuses, at : Times]
    \cup [pc : {"idle"}]
Idle == [pc |-> "idle"]

GoTo(r, local) == req' = [req EXCEPT ![r] = local]

Init ==
  /\ now = 0
  /\ services = [s \in ServiceIds |-> NoService]
  /\ dependencies = [d \in DependencyIds |-> NoDependency]
  /\ incidents = [i \in IncidentIds |-> NoIncident]
  /\ req = [r \in Requests |-> Idle]

-----------------------------------------------------------------------------
\* Services

Named(name) == {s \in Listed : services[s].data.name = name}

\* findBySlug
BySlug(data) == {s \in Listed : services[s].data.slug = data.slug}

CreateService(r, data) ==
  /\ req[r].pc = "idle"
  /\ BySlug(data) = {}
  /\ GoTo(r, [pc |-> "service", data |-> data, at |-> now])
  /\ UNCHANGED <<now, stores>>

\* Faulty: the index on the slug is missing.
AdmittedByName(data) == Named(data.name) = {}

\* The unique indexes on name and slug.
Admitted(data) ==
  \A s \in Listed : /\ services[s].data.name # data.name
                    /\ services[s].data.slug # data.slug

InsertService(r, s) ==
  /\ req[r].pc = "service"
  /\ services[s] = NoService
  /\ Admitted(req[r].data)
  /\ \E t \in req[r].at .. now :
       services' = [services EXCEPT ![s] = [data |-> req[r].data, createdAt |-> t]]
  /\ GoTo(r, Idle)
  /\ UNCHANGED <<now, dependencies, incidents>>

\* Duplicate key: an error no handler knows, answered with 500.
RejectService(r) ==
  /\ req[r].pc = "service"
  /\ ~Admitted(req[r].data)
  /\ GoTo(r, Idle)
  /\ UNCHANGED <<now, stores>>

-----------------------------------------------------------------------------
\* Dependencies

FindSource(r, doc) ==
  /\ req[r].pc = "idle"
  /\ doc.source \in Listed
  /\ GoTo(r, [pc |-> "target", doc |-> doc])
  /\ UNCHANGED <<now, stores>>

\* Faulty: only the source is looked for.
FindNoTarget(r) ==
  /\ req[r].pc = "target"
  /\ GoTo(r, [req[r] EXCEPT !.pc = "dependency"])
  /\ UNCHANGED <<now, stores>>

FindTarget(r) ==
  /\ req[r].pc = "target"
  /\ GoTo(r, IF req[r].doc.target \in Listed
               THEN [req[r] EXCEPT !.pc = "dependency"] ELSE Idle)
  /\ UNCHANGED <<now, stores>>

\* The unique index on source, target and type.
InsertDependency(r, d) ==
  /\ req[r].pc = "dependency"
  /\ dependencies[d] = NoDependency
  /\ \A e \in Linked : dependencies[e] # req[r].doc
  /\ dependencies' = [dependencies EXCEPT ![d] = req[r].doc]
  /\ GoTo(r, Idle)
  /\ UNCHANGED <<now, services, incidents>>

RejectDependency(r) ==
  /\ req[r].pc = "dependency"
  /\ \E e \in Linked : dependencies[e] = req[r].doc
  /\ GoTo(r, Idle)
  /\ UNCHANGED <<now, stores>>

-----------------------------------------------------------------------------
\* Incidents

Over == {"resolved", "closed"}

\* POST /incidents takes any status and never sets resolvedAt.
CreateIncident(i, status) ==
  /\ incidents[i] = NoIncident
  /\ incidents' = [incidents EXCEPT ![i] =
       [status |-> status, resolvedAt |-> Never, first |-> status]]
  /\ UNCHANGED <<now, services, dependencies, req>>

\* PATCH /incidents/:id with a status; without one it changes nothing here.
UpdateIncident(r, i, status) ==
  /\ req[r].pc = "idle"
  /\ i \in Opened
  /\ GoTo(r, [pc |-> "incident", id |-> i, status |-> status, at |-> now])
  /\ UNCHANGED <<now, stores>>

\* Faulty: only "resolved" ends an incident.
ResolutionOnly(doc, status, at) ==
  [doc EXCEPT !.status = status,
              !.resolvedAt = IF status = "resolved" THEN at ELSE @]

\* A resolvedAt that is undefined is not written: reopened incidents keep theirs.
Resolution(doc, status, at) ==
  [doc EXCEPT !.status = status,
              !.resolvedAt = IF status \in Over THEN at ELSE @]

WriteIncident(r) ==
  /\ req[r].pc = "incident"
  /\ incidents' = [incidents EXCEPT ![req[r].id] =
                     Resolution(@, req[r].status, req[r].at)]
  /\ GoTo(r, Idle)
  /\ UNCHANGED <<now, services, dependencies>>

\* A database call of a request throws, or the process dies under it.
Abort(r) ==
  /\ req[r].pc # "idle"
  /\ GoTo(r, Idle)
  /\ UNCHANGED <<now, stores>>

Tick ==
  /\ now < MaxTime
  /\ now' = now + 1
  /\ UNCHANGED <<stores, req>>

Next ==
  \/ \E r \in Requests :
       \/ \E data \in Offered : CreateService(r, data)
       \/ \E s \in ServiceIds : InsertService(r, s)
       \/ RejectService(r)
       \/ \E doc \in DependencyDocs : FindSource(r, doc)
       \/ FindTarget(r)
       \/ \E d \in DependencyIds : InsertDependency(r, d)
       \/ RejectDependency(r)
       \/ \E i \in IncidentIds, status \in Reported : UpdateIncident(r, i, status)
       \/ WriteIncident(r)
       \/ Abort(r)
  \/ \E i \in IncidentIds, status \in Reported : CreateIncident(i, status)
  \/ Tick

Spec == Init /\ [][Next]_vars

-----------------------------------------------------------------------------
\* Properties

\* Every variable stays in its type.
TypeOK ==
  /\ now \in Times
  /\ services \in [ServiceIds -> ServiceDocs \cup {NoService}]
  /\ dependencies \in [DependencyIds -> DependencyDocs \cup {NoDependency}]
  /\ incidents \in [IncidentIds -> IncidentDocs \cup {NoIncident}]
  /\ req \in [Requests -> Locals]

\* No two services share a name or a slug, however creates overlap.
ServicesUnique ==
  \A s, t \in Listed : s # t =>
    /\ services[s].data.name # services[t].data.name
    /\ services[s].data.slug # services[t].data.slug

\* Dependencies join services that exist, one per source, target and type.
DependenciesSound ==
  /\ \A d \in Linked : {dependencies[d].source, dependencies[d].target} \subseteq Listed
  /\ \A d, e \in Linked : d # e => dependencies[d] # dependencies[e]

\* An incident that was ended by an update, however updates overlap, says when,
\* and never a time that is still to come.
EndedHasTime ==
  \A i \in Opened :
    /\ incidents[i].resolvedAt = Never \/ incidents[i].resolvedAt <= now
    /\ incidents[i].status \in Over /\ incidents[i].first \notin Over
         => incidents[i].resolvedAt # Never
=============================================================================
