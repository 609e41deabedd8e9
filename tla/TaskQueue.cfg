SPECIFICATION FairSpec
CONSTANTS
  Tasks = {t1, t2, t3}
  Slots <- MCSlots
  Listeners = {l1}
  NoTask = NoTask
INVARIANTS
  TypeOK
  NoConcurrentJobs
  NoTaskLost
PROPERTIES
  ImplementsExecutor
  TasksEnd
CHECK_DEADLOCK FALSE
