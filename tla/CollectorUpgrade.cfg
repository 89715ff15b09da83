SPECIFICATION Spec
CONSTANTS
  h1 = h1
  h2 = h2
  c = c
  j2 = j2
  j3 = j3
  Down = 0
  NoJob = NoJob
  Actors <- MCActors
  Handlers <- MCHandlers
  Collections <- MCCollections
  Jobs <- MCJobs
  TargetOf <- MCTargetOf
  NewestVersion = 3
  NFiles = 2
  MaxRequests = 3
  MaxFaults = 2
  MaxRobberies = 1
INVARIANTS
  UpgradeTypeOK
  SuccessMeansInstalled
  CollectionsSeeOneVersion
PROPERTIES
  NeverOlder
  InstalledIsConfirmed
