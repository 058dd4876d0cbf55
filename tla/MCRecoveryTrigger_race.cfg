SPECIFICATION Spec
CONSTANTS
  Handlers = {h1, h2}
  Ids = {i1, i2, i3, i4}
  NoId = noId
  Requested <- MCRequested
  MaxAttempts = 3
  Schedule <- MCSchedule
  MaxJobs = 2
INVARIANT OneRecoveryAtATime
