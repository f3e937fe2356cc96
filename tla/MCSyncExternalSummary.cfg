SPECIFICATION Spec
CONSTANTS
  Projects = {1, 2}
  Configs <- MCConfigs
  Threads = 2
  MaxBackups = 1
  MaxRuns = 2
  MaxTip = 2
  MaxEdits = 1
INVARIANT SummaryTrue
CHECK_DEADLOCK FALSE
