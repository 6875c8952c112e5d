SPECIFICATION Spec
CONSTANTS
  c1 = c1
  c2 = c2
  Creates = {c1, c2}
  Sources = {"a"}
  Versions <- MCVersions
  Layouts <- MCLayouts
  MaxEdits = 1
INVARIANTS
  SetIsOfOneVersion
  FailsOnlyIfDisturbed
  SameRequestEndsWhole
  VolumesFitTheIndex
SYMMETRY MCSymmetry
CHECK_DEADLOCK FALSE
