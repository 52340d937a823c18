\* Two transactions of the website, two checkpoints, two lives of the database
CONSTANTS
  LastKey = 3
  MaxKeys = 2
  Slice = 2
  Transactions <- MCTransactions
  MaxPast = 3
  MaxIncarnation = 2
  Passes = 1
  Versions = {1, 2, 3, 4, 5}
  MaxSequence = 2
  Faults = {"stop", "reject"}
SPECIFICATION Spec
INVARIANTS
  NothingForgotten
  NeverInConflict
  PreparedIsKept
  HeadsAgree
  RowsCapturable
  SweepLeavesNothing
PROPERTIES
  ImplementsBackupChain
CHECK_DEADLOCK FALSE
