CONSTANTS
  c1 = c1
  c2 = c2
  c3 = c3
  i1 = i1
  i2 = i2
  Chats = {c1, c2, c3}
  Titles = {}
  Clients = {i1}
  Last = 1
  Rpm = 3
  Rpd = 3
  Tpm = 3
  Tpd = 3
  Sizes = {1}
  Usages = {1}
  Cools = {1, 3}
  Pause = 1
  Explicit = {TRUE, FALSE}
  Minute = 2
  Day = 4
  MaxTotal = 3
  Capacity = 3
  MaxTime = 3
SPECIFICATION Spec
PROPERTIES RetryAfterRespected
CHECK_DEADLOCK FALSE
