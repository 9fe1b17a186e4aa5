\* Two overlapping predictions of one service, as time passes.
SPECIFICATION MCSpec
CONSTANTS
  r1 = r1  r2 = r2  s1 = s1  i1 = i1  i2 = i2  i3 = i3
  Kinds = {"dependencies"}
  Services = {s1}
  Requests = {r1, r2}
  Ids = {i1, i2}
  Patchable = {"active", "resolved"}
  Window = 1
  MaxTime = 2
  Limit = 1
  MaxSignals = 0
  NoData = NoData
  NoEvidence = NoEvidence
  NoService = NoService
SYMMETRY Symmetry
INVARIANTS
  TypeOK
  AlertHasPrediction
  AnomalyAlerted
  HeuristicSound
