\* One client that looks at services and the dashboard while two requests write.
SPECIFICATION MCSpec
CONSTANTS
  s1 = s1  s2 = s2  s3 = s3  d1 = d1  d2 = d2  i1 = i1  r1 = r1  r2 = r2  c1 = c1
  ServiceIds = {s1, s2, s3}
  DependencyIds = {d1, d2}
  IncidentIds = {i1}
  Requests = {r1, r2}
  Clients = {c1}
  Offered <- Services
  Types = {"http"}
  Reported = {"investigating", "closed"}
  Limit = 2
  Recent = 1
  MaxTime = 2
  NoService = NoService
  NoDependency = NoDependency
  NoIncident = NoIncident
  Never = Never
SYMMETRY Symmetry
INVARIANTS
  ViewTypeOK
  ServicesUnique
  DependenciesSound
  EndedHasTime
  WalkMisses
  SummaryAgrees
