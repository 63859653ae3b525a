SPECIFICATION Spec
CONSTANTS
  MaxPollErrors = 2
  MaxPolls = 4
  ListLimit = 2
  MaxDeployments = 4
  Jobs <- MCJobs
INVARIANTS
  TypeOK
  GreenIsLiveOrReplaced
  HealthyNeverFails
PROPERTY
  WaitsEnd
CHECK_DEADLOCK FALSE
