SPECIFICATION Spec
CONSTANTS
  service = service
  manual = manual
  t1 = t1
  t2 = t2
  t3 = t3
  k1 = k1
  k2 = k2
  c1 = c1
  Gone = Gone
  Actors <- MCActors
  Tasks <- MCTasks
  Contents <- MCContents
  KindOf <- MCKindOf
  Rank <- MCRank
  Refused <- MCRefused
  BatchMax = 1
  MaxTries = 2
  MaxChanges = 3
  MaxFaults = 1
  MaxRobberies = 1
INVARIANTS
  CacheTellsTheTruth
PROPERTIES
  ListedTasksGetThrough
  ImplementsMirror
