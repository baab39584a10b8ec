SPECIFICATION KSpec
CONSTANTS
  a = a
  b = b
  c = c
  sem = sem
  Idle = Idle
  None = None
  Threads = {a, b, c}
  Timers = {}
  Sems = {sem}
  WaitQs = {sem}
  InitPrio <- MCPrio
  Prios <- MCPrios
  RESUME_READY = FALSE
  PREEMPT = TRUE
  CEILING = 0
  SLICE = 1
  LOCKS = 2
  LIMIT = 1
  Sleeps = {0, 2}
  Waits = {1}
  Managers = {c}
  Managed = {a}
  Lockers = {a}
INVARIANTS QueuesAgree BestRuns
PROPERTIES KeepsCpu TimeoutsExact SemaphoreKept TimeoutsEnd SlicesShare
