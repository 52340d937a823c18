CONSTANTS
  p0 = p0
  i0 = i0
  a = a
  b = b
  n1 = n1
  e1 = e1
  o1 = o1
  o2 = o2
  None = None
  Caps = {p0, i0, a, b}
  Legacy = {p0}
  Initials = {i0}
  Handover = p0
  Nodes = {n1}
  Endpoints = {e1}
  Ops = {o1, o2}
SYMMETRY MCSymmetry
CONSTRAINT MCBound
SPECIFICATION CoordinatorSpec
INVARIANTS OneReservation OneSuccessor
PROPERTIES OwnerNeverLost PinNeverDestroyed
CHECK_DEADLOCK FALSE
