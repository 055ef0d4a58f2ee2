SPECIFICATION Spec
CONSTANTS
  TaskIds = {t1, t2}
  MaxRuns = 2
  MaxCrashes = 2
  MaxFaults = 1
  Resubmission = TRUE
  SourceGymTasks = {t1}
  UploadedTasks = {t2}
  NoRun = NoRun
  Torn = Torn
INVARIANTS
  TypeOK
  LiveTaskHasRun
  DiskCurrent
  SettledOncePerSuccess
\* An idle daemon that has served MaxRuns submissions has no further step.
CHECK_DEADLOCK FALSE
