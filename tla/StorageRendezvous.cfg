CONSTANTS
  Docs = {d1}
  Calls = {c1, c2}
  MaxSocket = 2
  MaxSeq = 2
  MaxPending = 1
  MaxReceipts = 1
  MaxDocuments = 1
  LocalReceipts = TRUE
  Values = {"committed"}
  None = None
SPECIFICATION FairSpec
INVARIANTS
  WaitersHeld
  AnswersAreTheWorkers
  OneAcknowledgement
PROPERTIES
  NewestReceiptsKept
  EveryCommitAnswered
CHECK_DEADLOCK FALSE
