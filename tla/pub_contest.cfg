SPECIFICATION AttendedSpec
CONSTANTS
  Plan = {p1, p2}
  Request = {q1}
  Coordinate = {c1}
  Digest = {p1, p2}
  ObjectKind = "setup"
  Job <- MCJob
  ValidateJob <- MCValidateJob
  PublishJob <- MCPublishJob
  CoordinateOf <- MCCoordinateOf
  DigestOf <- MCDigestOf
  Worker = {w1, w2}
  Owner = {w1, w2}
  OwnerOf <- MCOwnerOf
  MaxAttempts = 1
  NoOwner = NoOwner
  NoJob = NoJob
  NoPlan = NoPlan
  NoDigest = NoDigest
INVARIANTS PublishedIsValidated
PROPERTIES KeepsPublicationPromise
SYMMETRY PubSymmetry
CHECK_DEADLOCK FALSE
