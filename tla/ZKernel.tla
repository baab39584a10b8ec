------------------------------- MODULE ZKernel ------------------------------
(***************************************************************************)
(* The scheduler, the clock and semaphores with threads that call them in  *)
(* every order, interrupted at every place by the clock and by a handler   *)
(* that gives a semaphore.                                                 *)
(***************************************************************************)
EXTENDS ZThread, ZClock, ZSem

CONSTANTS Sleeps,     \* ticks a thread sleeps
          Waits,      \* ticks a thread waits for a semaphore or to be started
          Managers,   \* the threads that act on other threads
          Managed,    \* the threads that are suspended, ended and the like
          Lockers,    \* the threads that lock the scheduler
          InitPrio,   \* the priority each thread starts with
          Prios,      \* the priorities a thread may be given, for each thread
          RESUME_READY  \* whether threads resume threads that are ready

ASSUME KernelAssumption == /\ Sleeps \subseteq Nat /\ Waits \subseteq Nat
                           /\ InitPrio \in [Threads -> Int]
                           /\ Prios \in [Threads -> SUBSET Int]
                           /\ RESUME_READY \in BOOLEAN

vars == <<k, call, count>>

KInit == /\ k \in Started(InitPrio)
         /\ call = AllOutside
         /\ count = [sem \in Sems |-> 0]

\* The id of a thread that has ended is only used to create it again, and only
\* the environment RESUME_READY resumes a thread that is ready.
Manage(t, u) ==
  \/ /\ "dead" \notin k.state[u]
     /\ \/ k_wakeup(t, u)
        \/ k_thread_suspend(t, u)
        \/ (RESUME_READY \/ ~is_thread_ready(k, u)) /\ k_thread_resume(t, u)
        \/ k_thread_start(t, u) \/ k_thread_cancel(t, u) \/ k_thread_abort(t, u)
  \/ \E d \in Waits \cup {0, FOREVER} : k_thread_create(t, u, d)

\* The threads a thread acts on.
Acts(t) == IF t \in Managers THEN Threads ELSE {t}

ThreadCall(t) == \/ k_yield(t)
                 \/ \E d \in Sleeps : k_sleep(t, d)
                 \/ t \in Lockers /\ k_sched_lock(t)
                 \/ k_sched_unlock(t)
                 \/ resched(t)
                 \/ \E u \in Acts(t) : \/ u \in Managed /\ Manage(t, u)
                                     \/ \E p \in Prios[u] : k_thread_priority_set(t, u, p)

SemCall(t, sem) == \/ k_sem_give(t, sem)
                   \/ \E d \in Waits \cup {0, FOREVER} : k_sem_take(t, sem, d)
                   \/ sem_taken(t, sem)

Clock == Tick \/ handle_expired_timeout \/ TickEnd

KNext == \/ \E t \in Threads : ThreadCall(t) /\ UNCHANGED count
         \/ \E t \in Threads, sem \in Sems : SemCall(t, sem)
         \/ Clock /\ UNCHANGED count
         \/ \E sem \in Sems : isr_sem_give(sem)

\* The clock goes on ticking and its handler ends.  A pending interrupt is taken
\* in the end however often interrupts are locked, and what runs with interrupts
\* locked, the handler or a thread that returns from a wait, goes on: this is
\* SF(Tick) and WF of those steps, in a form that needs no ENABLED.
KFairness == []<>k.nested /\ []<>~k.nested

KSpec == KInit /\ [][KNext]_vars /\ KFairness

-----------------------------------------------------------------------------
\* The flags of a thread, its timeout and the queues agree: a thread is in the
\* run queue, once, if it is ready and not otherwise; it is in one wait queue,
\* once, if it is pending and in none otherwise; the run queue is sorted
\* (add and remove in sched.c, which look at one of them to change another).
QueuesAgree ==
  /\ IsInjective(k.runq) /\ Ordered(k.prio, k.runq)
  /\ \A t \in Threads : t \in Range(k.runq) <=> is_thread_ready(k, t)
  /\ \A w \in WaitQs : IsInjective(k.waitq[w])
  /\ \A t \in Threads :
       "pending" \in k.state[t] <=> \E w \in WaitQs : t \in Range(k.waitq[w])
  /\ \A w, x \in WaitQs : w # x => Range(k.waitq[w]) \cap Range(k.waitq[x]) = {}

\* What kernel.h says of k_thread_resume: "If thread is not currently suspended,
\* the routine has no effect."
ResumeNoEffect ==
  [][\A t, u \in Threads :
       "suspended" \notin k.state[u] /\ k_thread_resume(t, u) => UNCHANGED k]_vars

\* Outside of interrupts the running thread is ready, and if it may be preempted
\* no ready thread is better, unless it is just about to give way: no call and
\* no interrupt forgets to switch, or switches to a thread from a cache that is
\* stale, also after priorities have changed (update_cache, _reschedule, isr.S).
BestRuns ==
  ~k.nested => /\ is_thread_ready(k, k.current)
               /\ is_preempt(k, k.current) /\ call[k.current] # Rescheduling =>
                    \A t \in Threads : is_thread_ready(k, t) =>
                      k.current # Idle /\ k.prio[t] >= k.prio[k.current]

\* A cooperative thread, or one that has locked the scheduler, stays the running
\* one while it is ready, except inside of its own k_yield, k_sched_unlock or
\* k_thread_priority_set (should_preempt in sched.c, and what an interrupt in
\* one of these calls does with the cache it finds).
KeepsCpu ==
  [][LET t == k.current
     IN  t \in Threads /\ ~is_preempt(k, t) /\ k'.current # t /\ is_thread_ready(k', t)
           => call[t] = Rescheduling]_vars

\* A timeout expires after the ticks it was given, whatever is queued in front
\* of it, taken out or woken early: a tick brings it one tick nearer, and
\* nothing else changes its distance (_add_timeout, _abort_timeout and
\* handle_timeouts, which keep differences only).
TimeoutsExact ==
  [][\A e \in Range(k.timeoutq) :
       LET left == Due(k.timeoutq)[Index(k.timeoutq, e.who)]
           i == Index(k'.timeoutq, e.who)
           tick == ~k.nested /\ k'.nested
       IN  IF tick /\ left = 1 THEN i = 0 /\ Index(k'.expired, e.who) # 0
           ELSE i # 0 => Due(k'.timeoutq)[i] = left - (IF tick THEN 1 ELSE 0)]_vars

\* A sleep, a timed wait and a delayed start end, and then the thread does not
\* wait for the object any more (handle_timeouts, handle_one_expired_timeout).
TimeoutsEnd ==
  \A t \in Threads :
    is_timeout_active(k, t) ~> ~is_timeout_active(k, t) /\ "pending" \notin k.state[t]

\* With time slicing a ready thread runs in the end, unless a better or a
\* cooperative thread has the processor (handle_time_slicing).
SlicesShare ==
  \A t \in Threads :
    is_thread_ready(k, t) ~>
      \/ k.current = t \/ ~is_thread_ready(k, t)
      \/ k.current \in Threads /\ (~is_preempt(k, k.current) \/ k.prio[k.current] < k.prio[t])
=============================================================================
