SPECIFICATION QuietSpec
CONSTANTS
  Job = {j1, j2}
  Worker = {w1, w2}
  Owner = {w1, w2}
  OwnerOf <- MCOwnerOf
  MaxAttempts = 2
  NoOwner = NoOwner
  NoJob = NoJob
INVARIANTS ScrubbedOnlyWhenSettled
SYMMETRY Symmetry
PROPERTIES LeaseProtectsDelivery KeepsDeliveryPromise
