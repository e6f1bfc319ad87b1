SPECIFICATION UncancelledSpec
CONSTANTS
  Job = {j1}
  Worker = {w1, w2}
  Owner = {w1, w2}
  OwnerOf <- MCOwnerOf
  MaxAttempts = 2
  NoOwner = NoOwner
  NoJob = NoJob
PROPERTIES SettleByOwner
