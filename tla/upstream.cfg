SPECIFICATION BoundedSpec
CONSTANTS
  Job = {d1}
  Daily = {d1}
  Plan = {p1, p2}
  Content = {c1}
  Worker = {w1, w2}
  Helper = {w2}
  Spare = {p2}
  Owner = {w1, w2}
  OwnerOf <- MCOwnerOf
  MaxAttempts = 2
  NoOwner = NoOwner
  NoJob = NoJob
  NoPlan = NoPlan
  NoContent = NoContent
INVARIANTS ContentOnce PublishedIsInCatalog
PROPERTIES NothingAfterTransfer RefusalReachesAttempt GivenUpIsTold KeepsPublicationPromise
CHECK_DEADLOCK FALSE
