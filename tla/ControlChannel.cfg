SPECIFICATION FairSpec
CONSTANTS
  d1 = d1
  s1 = s1
  s2 = s2
  s3 = s3
  Device = {d1}
  Socket = {s1, s2, s3}
  Owner <- OneDevice
  NoDevice = none
  NoSocket = none
  TokenRequired = TRUE
  StaleAfter = 1
  MaxQueue = 2
INVARIANTS TypeOK RegistryAgrees ProgressIsNotDropped
PROPERTIES StableDeviceIsShownOnline GoneDeviceIsNotShownOnline
