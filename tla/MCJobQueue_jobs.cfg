SPECIFICATION Spec
CONSTANTS
  j1 = j1
  j2 = j2
  d1 = d1
  NoJob = NoJob
  Jobs <- TwoJobs
  Devices = {d1}
  DeviceOf <- OneDevice
  Repeats <- TwoRuns
  Shared = {j1}
  MaxRunning = 2
  MaxPending = 2
  Events = {"manual", "restart", "shutdown", "cancel", "revoke"}
INVARIANTS TypeOK WorkersAccounted QueuedUntouched NoRerun
PROPERTIES SubmissionOrder FinishedStays SuccessConfirmed
CHECK_DEADLOCK FALSE
