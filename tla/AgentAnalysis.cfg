SPECIFICATION FairAnalysisSpec
CONSTANTS
  o1 = o1
  j1 = j1
  t1 = t1
  r1 = r1
  Operation = {o1}
  Job = {j1}
  OperationOf <- OneJob
  TypeOf <- Analysis
  Runner = {r1}
  NoRunner = none
  NoJob = none
  Handled = {"agent_analysis_openclaw", "collector_upgrade_device"}
  MaxAttempts = 2
  Lease = 1
  RetryAfter = 1
  Window = 2
  HandlerOutcome = {}
  ExternalOutcome = {"succeeded", "failed", "unsupported"}
  MaxFaults = 1
  Horizon = 3
  MaxTime = 7
  Target = {t1}
  TargetOf <- OneTarget
  NoTarget = none
  NoOperation = none
  Trigger = {p1}
  Handler = {h1, h2}
INVARIANTS SuccessHasReport
PROPERTIES EveryJobEnds OutcomeUndoneOnlyByFailure
CHECK_DEADLOCK FALSE
