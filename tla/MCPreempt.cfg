SPECIFICATION PreemptSpec
CONSTANTS
  Idle = Idle
  None = None
  NUM_PHIL = 4
  Threads <- MCThreads
  Mutexes <- MCForks
  WaitQs <- MCForks
  Timers = {}
  PREEMPT = TRUE
  CEILING = 0
  SLICE = 0
INVARIANTS DropsOwned
CHECK_DEADLOCK FALSE
