\* Pairs of transfers: in a batch, over FTP, to existing files.
SPECIFICATION EngineFairSpec
CONSTANTS
  t1 = t1 t2 = t2 b1 = b1 x1 = x1 x2 = x2 x3 = x3
  NoBatch = NoBatch NoTransfer = NoTransfer
  Transfers <- MCTwo
  Batches <- MCBatches
  Targets <- MCTargets
  OldFiles <- MCOldFiles
  Plans <- MCPlans
  Chunks = 2
  MaxAttempts = 2
INVARIANTS BatchCancelHolds AnswersAreTrue ExistingFileKept
PROPERTY CommandsEnd
