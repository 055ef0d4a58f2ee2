SPECIFICATION FairSpec
CONSTANTS
  TaskIds = {t1, t2}
  MaxRuns = 1
  MaxCrashes = 0
  MaxFaults = 0
  Resubmission = FALSE
  SourceGymTasks = {t1}
  UploadedTasks = {t2}
  NoRun = NoRun
  Torn = Torn
PROPERTY DeadlineEnforced
\* An idle daemon that has served MaxRuns submissions has no further step.
CHECK_DEADLOCK FALSE
