CONSTANTS
  p0 = p0
  i0 = i0
  a = a
  b = b
  n1 = n1
  n2 = n2
  e1 = e1
  e2 = e2
  o1 = o1
  o2 = o2
  o3 = o3
  None = None
  Caps = {i0, a}
  Legacy = {}
  Initials = {i0}
  Nodes = {n1, n2}
  Endpoints = {e1, e2}
  Ops = {o1, o2}
SYMMETRY MCSymmetry
SPECIFICATION Spec
INVARIANTS RevokedIsFinal ConfirmationRepeats
PROPERTIES PinNeverMoves NoSuccessorOfRevoked
CHECK_DEADLOCK FALSE
