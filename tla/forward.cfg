SPECIFICATION FairForwardSpec
CONSTANTS
  o1 = o1
  o2 = o2
  f1 = f1
  f2 = f2
  Op = {o1, o2}
  File = {f1, f2}
  Dir = {d1, d2}
  ChangesOf <- MCChangesOf
  MetaOf <- MCMetaOf
  RemovedBy <- MCRemovedBy
  Base = Base
  Foreign = Foreign
  Gone = Gone
  NoOp = NoOp
  NoDir = NoDir
  NoRow = NoRow
  NoFile = NoFile
  MaxEdits = 2
INVARIANTS GuardedFromFirstEffect ActiveKeepsStaging LeftoversHaveAnOwner DoneWasPublished
PROPERTIES ReplacesOnlyObserved KeepsPromise ForwardSettles
