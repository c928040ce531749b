SPECIFICATION Spec
CONSTANTS
  Ids = {i1, i2, i3}
  Names = {n1, n2}
  Contents = {c1}
  Requests = {q1, q2}
  NoParent = NoParent
SYMMETRY Symmetry
INVARIANTS
  SubmittedUnlessDraft
  LineageIsComplete
  DisapprovedHasDraft
PROPERTIES
  NeverDraftAgain
