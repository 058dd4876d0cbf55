SPECIFICATION LiveSpec
CONSTANTS
  Handlers = {h1, h2}
  Ids = {i1, i2, i3}
  NoId = noId
  Requested <- MCRequested
  MaxAttempts = 3
  Schedule <- MCSchedule
  MaxJobs = 1
INVARIANTS
  Escalation
  ClaimIsLive
  AttemptsBounded
PROPERTIES
  RecoveriesEnd
  JobsSettleOnce
