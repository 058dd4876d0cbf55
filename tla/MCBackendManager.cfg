SPECIFICATION LiveAdmissionSpec
CONSTANTS
  t1 = t1
  t2 = t2
  m1 = m1
  none = none
  Threads <- MCTwoThreads
  Models <- MCModels
  NoLaunch = none
  RequireGpu = TRUE
  GpuRetries = 1
  CrashReports = TRUE
  HealthPolls = 1
INVARIANTS
  OneLifecycleThread
  SnapshotTruthful
  ReadyMeansServable
PROPERTIES
  LifecycleSpec
  OperationsEnd
