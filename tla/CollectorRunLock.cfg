SPECIFICATION LockSpec
CONSTANTS
  collect = collect
  upgrade = upgrade
  manual = manual
  successor = successor
  service = service
  shell = shell
  restarted = restarted
  Contenders <- MCContenders
  Processes <- MCProcesses
  ProcessOf <- MCProcessOf
PROPERTIES
  AbandonedLockGoes
  ImplementsSingleFlight
