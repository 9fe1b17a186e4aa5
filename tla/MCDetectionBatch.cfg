\* One batch at a time, with two metrics of one service over one threshold.
SPECIFICATION MCSpec
CONSTANTS
  r1 = r1  r2 = r2  i1 = i1  i2 = i2  i3 = i3  s1 = s1  x1 = x1
  Scenes = {"spikes"}
  Services = {s1}
  Incidents = {x1}
  Requests = {r1}
  Endpoints = {"telemetry"}
  Ids = {i1, i2, i3}
  Patchable = {"active", "resolved"}
  ErrorThreshold = 2
  Window = 1
  MaxTime = 1
  MaxLogs = 2
  MaxJobs = 2
  MaxDepth = 2
  Levels = 0
  NoMatch = NoMatch
  NoData = NoData
  NoIncident = NoIncident
  NoService = NoService
SYMMETRY Symmetry
INVARIANTS
  NoActiveDuplicate
