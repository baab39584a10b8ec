SPECIFICATION QSpec
CONSTANTS
  a = a
  b = b
  c = c
  Idle = Idle
  None = None
  Queue = Queue
  Threads = {a, b, c}
  Items = {a, b, c}
  Timers = {}
  WaitQs = {Queue}
  PREEMPT = TRUE
  CEILING = 0
  SLICE = 1
INVARIANTS AppendedStays
