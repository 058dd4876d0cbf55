SPECIFICATION ReportSpec
CONSTANTS
  NoModel = none
  Launch = launch
  Other = other
INVARIANTS
  AcceptedIsServed
  AdvisedActionFeasible
  
CHECK_DEADLOCK FALSE
