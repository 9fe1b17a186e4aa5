\* Overlapping writes and purges; a summary while a task is recorded.
SPECIFICATION MCSpec
CONSTANTS
  a1 = a1  a2 = a2  r1 = r1  r2 = r2
  e1 = e1  e2 = e2  e3 = e3  s1 = s1  s2 = s2
  Actors = {a1, a2}
  Requests = {r1, r2}
  EventIds = {e1, e2, e3}
  SurveyIds = {s1, s2}
  Names = {"task_started", "task_completed"}
  Sheets <- AllSheets
  MaxTime = 1
  MaxAge = 1
  MaxSkew = 0
  MaxPeriod = 1
  Limit = 2
  Unused = Unused
  NoFigure = NoFigure
SYMMETRY Symmetry
INVARIANTS
  TypeOK
  PurgeComplete
  FeedbackHasSurvey
  SummarySessions
  CompletionBounded
  FiguresRight
