CONSTANTS
  p0 = p0
  i0 = i0
  a = a
  b = b
  n1 = n1
  e1 = e1
  o1 = o1
  o2 = o2
  None = None
  Caps = {p0, i0, a}
  Legacy = {p0}
  Initials = {i0}
  Handover = p0
  Nodes = {n1}
  Endpoints = {e1}
  Ops = {o1, o2}
CONSTRAINT MCBound
SPECIFICATION CoordinatorSpec
PROPERTIES ReconnectStartsFresh
CHECK_DEADLOCK FALSE
