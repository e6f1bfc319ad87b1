SPECIFICATION FairPubSpec
CONSTANTS
  Plan = {p1}
  Request = {q1}
  Coordinate = {c1}
  Digest = {p1}
  ObjectKind = "component"
  Job <- MCJob
  ValidateJob <- MCValidateJob
  PublishJob <- MCPublishJob
  CoordinateOf <- MCCoordinateOf
  DigestOf <- MCDigestOf
  Worker = {w1, w2}
  Owner = {w1, w2}
  OwnerOf <- MCOwnerOf
  MaxAttempts = 2
  NoOwner = NoOwner
  NoJob = NoJob
  NoPlan = NoPlan
  NoDigest = NoDigest
PROPERTIES NoSilentLimbo
CHECK_DEADLOCK FALSE
