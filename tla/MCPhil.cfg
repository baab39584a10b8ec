SPECIFICATION PSpec
CONSTANTS
  Idle = Idle
  None = None
  NUM_PHIL = 6
  Threads <- MCThreads
  Mutexes <- MCForks
  WaitQs <- MCForks
  Timers = {}
  PREEMPT = FALSE
  CEILING = 0
  SLICE = 0
INVARIANTS ForksExclusive DropsOwned NoDeadlock
CHECK_DEADLOCK FALSE
