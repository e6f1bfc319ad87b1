SPECIFICATION LedgerSpec
CONSTANTS
  Entity = {e1, e2}
  Singleton = {e1, e2}
  EventId = {v1, v2, v3, v4}
  MaxUndelivered = 2
  MaxEvents = 5
INVARIANTS StreamApplicable StreamUnique HeadCoversStream OneLiveIdentity ReceiptsAreTrue
SYMMETRY SyncSymmetry
CHECK_DEADLOCK FALSE
