\* Two overlapping requests of every endpoint about one service; payloads that
\* nest up to two levels deeper than the limit, and figures about every threshold.
SPECIFICATION MCSpec
CONSTANTS
  r1 = r1  r2 = r2  i1 = i1  i2 = i2  i3 = i3  s1 = s1  x1 = x1
  Scenes = {"spikes", "events", "payloads", "escalations"}
  Services = {s1}
  Incidents = {x1}
  Requests = {r1, r2}
  Endpoints = {"logs", "telemetry", "metrics", "anomalies", "incidents"}
  Ids = {i1, i2}
  Patchable = {"resolved"}
  ErrorThreshold = 2
  Window = 1
  MaxTime = 2
  MaxLogs = 3
  MaxJobs = 2
  MaxDepth = 2
  Levels = 4
  NoMatch = NoMatch
  NoData = NoData
  NoIncident = NoIncident
  NoService = NoService
SYMMETRY Symmetry
INVARIANTS
  TypeOK
  SpikeRaised
  AlertJustified
  
  EscalationsSound
PROPERTIES
  DetectionComplete
