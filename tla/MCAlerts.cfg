\* Two overlapping calls about two titles, and alerts that get resolved.
SPECIFICATION Spec
CONSTANTS
  c1 = c1  c2 = c2  i1 = i1  i2 = i2  i3 = i3  i4 = i4
  Data <- Titles
  Calls = {c1, c2}
  Ids = {i1, i2, i3, i4}
  Patchable = {"active", "resolved"}
  Window = 1
  MaxTime = 3
  NoData = NoData
SYMMETRY Symmetry
INVARIANTS
  TypeOK
  BurstBounded
  BurstShared
