SPECIFICATION FairSpec
CONSTANTS
  Groups = {"a", "b"}
  Directories = {"b"}
  Batch = 2
  MaxMade <- MCMade
  MaxFaults = 1
  Faults = {"restart", "offline", "late", "lost", "takeover", "quota"}
INVARIANTS LostAnswerExplained NothingStranded
PROPERTIES ImplementsProfileJournal EveryChangeSaved
CHECK_DEADLOCK TRUE
