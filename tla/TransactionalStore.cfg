SPECIFICATION TxSpec
CONSTANTS
  o1 = o1
  o2 = o2
  j1 = j1
  j2 = j2
  c1 = c1
  c2 = c2
  Operation = {o1, o2}
  Job = {j1, j2}
  OperationOf <- OneJobEach
  TypeOf <- JobTypes
  Runner = {backend}
  NoRunner = none
  Client = {c1, c2}
  MaxAttempts = 2
  Lease = 1
  RetryAfter = 1
  Window = 1
  MaxClock = 1
  HandlerOutcome = {"unsupported"}
  ExternalOutcome = {"succeeded", "requires_manual_step"}
SYMMETRY ClientSymmetry
INVARIANTS OperationReflectsJobs
PROPERTIES AtomicSpec
CHECK_DEADLOCK FALSE
