CONSTANTS
  Idle = idle
  Tasks = {t1, t2, t3}
  InitTask = t1
  None = none
  Sems = {"disk"}
  Mutexes = {"task_mutex"}
  IrqSems = {"disk"}
  TaskMutex = "task_mutex"
  ReclaimMutexes = {"task_mutex"}
  SemInit <- MCSemInit
  Slices = 2
  SleepArgs = {1, 2}
  MaxCount = 1
  MaxNest = 1
  Undisturbed = TRUE
SPECIFICATION FairSpec
INVARIANT ListContract
INVARIANT NoTaskLost
PROPERTY ReadyRuns
PROPERTY SleeperWakes
PROPERTY WaiterOwns
