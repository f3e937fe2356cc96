SPECIFICATION FairSpec
CONSTANTS
  Workers = {w1, w2, w3}
  Clients = {c1, c2}
  MaxTasks = 4
INVARIANTS
  TypeOK
  NoLostWakeup
  NobodySleepsOn
PROPERTIES
  ImplementsTaskPool
  EveryTaskRuns
  DestructorReturns
