SPECIFICATION Spec
CONSTANTS
  w1 = w1
  w2 = w2
  u1 = u1
  u2 = u2
  failed = failed
  done = done
  Keys = {failed, done}
  Users = {u1}
  Writers = {w1, w2}
  Warnings = {failed}
  Cooldown = 2
  MaxTime = 3
  MaxEvents = 3
  MaxFaults = 1
INVARIANTS
  ThreadsCountEvents
  OneEmailPerCooldown
  LossHasATwin
PROPERTIES
  EventsEnd
CHECK_DEADLOCK FALSE
