SPECIFICATION FairSpec
CONSTANTS
  j1 = j1
  j2 = j2
  d1 = d1
  NoJob = NoJob
  Jobs <- TwoJobs
  Devices = {d1}
  DeviceOf <- OneDevice
  Repeats <- OneRun
  Shared = {}
  MaxRunning = 1
  MaxPending = 2
  Events = {"manual", "shutdown"}
PROPERTIES JobsSettle
CHECK_DEADLOCK FALSE
