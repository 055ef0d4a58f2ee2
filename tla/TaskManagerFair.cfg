SPECIFICATION FairSpec
CONSTANTS
  TaskIds = {t1, t2}
  MaxRuns = 2
  MaxCrashes = 1
  MaxFaults = 0
  Resubmission = FALSE
  SourceGymTasks = {}
  UploadedTasks = {t2}
  NoRun = NoRun
  Torn = Torn
INVARIANTS
  CompletedHasReceipt
  StreamClosedAfterTask
PROPERTIES
  CancelKills
  DeadlineEnforced
  StreamEnds
\* An idle daemon that has served MaxRuns submissions has no further step.
CHECK_DEADLOCK FALSE
