CONSTANTS
  NEvents = 5
  Awaited <- MCAwaited
  Completed = 4
  MaxBatch = 2
  MaxFailures = 1
  MaxChunk = 2
SPECIFICATION FairSpec
INVARIANTS
  AppliedInOrder
  NothingStranded
PROPERTIES
  ImplementsJournal
  TurnSettles
