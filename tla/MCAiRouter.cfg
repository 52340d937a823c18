CONSTANTS
  c1 = c1
  c2 = c2
  c3 = c3
  i1 = i1
  i2 = i2
  Chats = {c1, c2}
  Titles = {c2}
  Clients = {i1, i2}
  Last = 2
  Rpm = 1
  Rpd = 2
  Tpm = 2
  Tpd = 2
  Sizes = {1, 2}
  Usages = {0, 2}
  Cools = {2}
  Pause = 1
  Explicit = {FALSE}
  Minute = 2
  Day = 3
  MaxTotal = 2
  Capacity = 1
  MaxTime = 3
SPECIFICATION Spec
INVARIANTS OneModelPerAnswer SlotsExact WindowsAccount
PROPERTIES RetryIsAChance
CHECK_DEADLOCK FALSE
