SPECIFICATION FairEngineSpec
CONSTANTS
  Entity = {passport}
  Singleton = {passport}
  Passport = passport
  EventId <- MCEventId
  MaxUndelivered = 5
  MaxEvents = 12
  Device = {a, b}
  Origin = a
  MaxEdits = 2
  MaxReplacements <- MCReplacements
INVARIANTS PageApplies LogIsTrue CaughtUpCanGoOn NoEditLost
PROPERTIES Converges
CHECK_DEADLOCK FALSE
