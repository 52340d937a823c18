CONSTANTS
  c1 = c1
  c2 = c2
  c3 = c3
  n1 = n1
  n2 = n2
  Callers = {c1, c2}
  Keys = {n1, n2}
  MaxPending = 1
  MaxVersion = 1
SPECIFICATION FairSpec
INVARIANTS ServedByNextSend
PROPERTIES EveryRequestSettles CloseEnds ImplementsControlPush
CHECK_DEADLOCK FALSE
