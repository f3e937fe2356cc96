SPECIFICATION FairSpec
CONSTANTS
  Projects = {1, 2}
  Configs <- MCConfigs
  Threads = 2
  MaxBackups = 1
  MaxRuns = 2
  MaxTip = 2
  MaxEdits = 1
INVARIANTS TypeOK StatusTrue Tidy
PROPERTIES WorkKept RunEnds
CHECK_DEADLOCK FALSE
