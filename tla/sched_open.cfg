CONSTANTS
  Idle = idle
  Tasks = {t1, t2, t3}
  InitTask = t1
  None = none
  Sems = {"disk"}
  Mutexes = {"task_mutex"}
  IrqSems = {"disk"}
  TaskMutex = "task_mutex"
  ReclaimMutexes = {"task_mutex"}
  SemInit <- MCSemInit
  Slices = 2
  SleepArgs = {0, 2}
  MaxCount = 1
  MaxNest = 2
  Undisturbed = FALSE
SPECIFICATION Spec
INVARIANT TypeOK
INVARIANT QueuesSound
INVARIANT MutualExclusion
INVARIANT NoMissedWakeup
PROPERTY FirstComeFirstServed
PROPERTY SyncRefined
CHECK_DEADLOCK FALSE
