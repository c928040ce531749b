SPECIFICATION Spec
CONSTANTS
  Ids = {i1, i2, i3}
  Names = {n1}
  Contents = {c1, c2}
  Requests = {q1}
  NoParent = NoParent
SYMMETRY Symmetry
INVARIANTS
  DisapprovalGoesThrough

