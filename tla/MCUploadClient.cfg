SPECIFICATION Spec
CONSTANTS
  Batches <- MCBatches
  Attempts = 2
  MaxPolls = 1
  MaxFaults = 2
  MaxEdits = 1
INVARIANTS
  RepetitionIsHarmless
  ReceiptIsTrue
PROPERTY UploadEnds
CHECK_DEADLOCK FALSE
