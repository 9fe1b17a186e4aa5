\* One prediction while data grow and the model may stay silent.
SPECIFICATION RequestSpec
CONSTANTS
  r1 = r1  r2 = r2  s1 = s1  i1 = i1  i2 = i2  i3 = i3
  Kinds = {"anomalies", "dependencies", "metrics", "errorLogs"}
  Services = {s1}
  Requests = {r1}
  Ids = {i1}
  Patchable = {"active", "resolved"}
  Window = 0
  MaxTime = 0
  Limit = 2
  MaxSignals = 3
  NoData = NoData
  NoEvidence = NoEvidence
  NoService = NoService
PROPERTIES
  RequestsEnd
