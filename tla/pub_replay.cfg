SPECIFICATION AttendedSpec
CONSTANTS
  Plan = {p1}
  Request = {q1}
  Coordinate = {c1}
  Digest = {p1}
  ObjectKind = "component"
  Job <- MCJob
  ValidateJob <- MCValidateJob
  PublishJob <- MCPublishJob
  CoordinateOf <- MCCoordinateOf
  DigestOf <- MCDigestOf
  Worker = {w1}
  Owner = {w1}
  OwnerOf <- MCOwnerOf
  MaxAttempts = 1
  NoOwner = NoOwner
  NoJob = NoJob
  NoPlan = NoPlan
  NoDigest = NoDigest
PROPERTIES PublishedStaysPublished
CHECK_DEADLOCK FALSE
