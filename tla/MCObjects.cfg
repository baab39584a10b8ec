SPECIFICATION OSpec
CONSTANTS
  a = a
  b = b
  c = c
  Idle = Idle
  None = None
  Stack = Stack
  Slab = Slab
  Msgq = Msgq
  mtx = mtx
  tm = tm
  Threads = {a, b, c}
  Items = {a, b, c}
  Timers = {tm}
  Mutexes = {mtx}
  WaitQs = {Stack, Slab, Msgq, mtx, tm}
  PREEMPT = TRUE
  CEILING = 0
  SLICE = 0
  LOCKS = 1
  NUM_ENTRIES = 3
  MAX_MSGS = 2
  Waits = {1}
  Prios = {0, 1}
  Movers = {a, b}
  Durations = {1, 2}
  LOCK_COUNT = 2
  SYNCS = 1
INVARIANTS ItemsOnce WaitersBlocked
PROPERTIES RingIsFifo ItemsKept
