SPECIFICATION FairRunnerSpec
CONSTANTS
  o1 = o1
  o2 = o2
  j1 = j1
  j2 = j2
  r1 = r1
  r2 = r2
  Operation = {o1, o2}
  Job = {j1, j2}
  OperationOf <- TwoJobs
  TypeOf <- UpgradeAndEmail
  Runner = {r1, r2}
  NoRunner = none
  NoJob = none
  Handled = {"collector_upgrade_device", "agent_analysis_openclaw"}
  MaxAttempts = 2
  Lease = 1
  RetryAfter = 1
  Window = 2
  HandlerOutcome = {}
  ExternalOutcome = {"failed"}
  MaxFaults = 1
  Horizon = 2
  MaxTime = 6
INVARIANTS AtMostOneLeaseholder DispatchesAreCounted
PROPERTIES OutcomeUndoneOnlyByFailure EveryJobEnds
CHECK_DEADLOCK FALSE
