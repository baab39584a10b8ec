------------------------------- MODULE ZThread ------------------------------
(***************************************************************************)
(* The calls by which threads act on threads: kernel/sched.c (k_yield,     *)
(* k_sleep, k_wakeup, k_sched_lock, k_thread_priority_set), thread.c and   *)
(* thread_abort.c.  The caller t is the running thread, u any thread.      *)
(***************************************************************************)
EXTENDS ZSched

CONSTANT LOCKS        \* bound on how often a thread locks the scheduler

k_yield(t) == /\ Running(t, Outside)
              /\ k' = yield(k)
              /\ Goto(t, Rescheduling)

k_sleep(t, duration) ==
  \/ duration = 0 /\ k_yield(t)
  \/ /\ duration # 0 /\ Running(t, Outside)
     /\ k' = Swap(add_timeout(remove_thread_from_ready_q(k, t), t, None,
                              TICK_ALIGN + duration))
     /\ UNCHANGED call

\* Mutant of wakeup: the thread is made ready before its timeout is aborted.
wakeup_early(s, u) ==
  IF "pending" \in s.state[u] \/ ~is_timeout_active(s, u) THEN s
  ELSE reschedule(abort_timeout(ready_thread(s, u), u))

wakeup(s, u) ==
  IF "pending" \in s.state[u] \/ ~is_timeout_active(s, u) THEN s
  ELSE reschedule(ready_thread(abort_timeout(s, u), u))

k_wakeup(t, u) == /\ Running(t, Outside)
                  /\ k' = wakeup(k, u)
                  /\ UNCHANGED call

k_sched_lock(t) == /\ Running(t, Outside)
                   /\ k.locked[t] < LOCKS
                   /\ k' = sched_lock(k)
                   /\ UNCHANGED call

k_sched_unlock(t) == /\ Running(t, Outside)
                     /\ k.locked[t] > 0
                     /\ k' = sched_unlock(k)
                     /\ Goto(t, Unlocked)

k_thread_priority_set(t, u, prio) ==
  /\ Running(t, Outside)
  /\ k' = priority_change(k, u, prio)
  /\ Goto(t, IF is_thread_ready(k, u) THEN Rescheduling ELSE Outside)

-----------------------------------------------------------------------------

thread_suspend(s, u) ==
  LET off == mark(IF is_thread_ready(s, u) THEN remove_thread_from_ready_q(s, u) ELSE s,
                  u, "suspended")
  IN  IF u = s.current THEN Swap(off) ELSE off

k_thread_suspend(t, u) == /\ Running(t, Outside)
                          /\ k' = thread_suspend(k, u)
                          /\ UNCHANGED call

\* The code does not ask whether u is suspended.  A thread that is ready is put
\* into the run queue again: the queue shows both insertions, the links of the
\* list only the second.
k_thread_resume(t, u) == /\ Running(t, Outside)
                         /\ k' = reschedule(ready_thread(unmark(k, u, "suspended"), u))
                         /\ UNCHANGED call

thread_start(s, u) == IF "prestart" \notin s.state[u] THEN s
                      ELSE reschedule(ready_thread(unmark(s, u, "prestart"), u))

k_thread_start(t, u) == /\ Running(t, Outside)
                        /\ k' = thread_start(k, u)
                        /\ UNCHANGED call

\* The control block of a thread that has ended is used again.
k_thread_create(t, u, delay) ==
  LET new == [k EXCEPT !.state[u] = {"prestart"}, !.locked[u] = 0]
  IN  /\ Running(t, Outside)
      /\ "dead" \in k.state[u]
      /\ k' = CASE delay = FOREVER -> new
                [] delay = 0 -> thread_start(new, u)
                [] OTHER -> add_timeout(new, u, None, TICK_ALIGN + delay)
      /\ Goto(u, Outside)

k_thread_cancel(t, u) ==
  /\ Running(t, Outside)
  /\ k' = IF "prestart" \notin k.state[u] THEN k ELSE abort_timeout(k, u)
  /\ UNCHANGED call

single_abort(s, u) ==
  LET off == IF "pending" \in s.state[u] THEN unpend_thread_no_timeout(s, u) ELSE s
  IN  mark(IF is_thread_ready(s, u) THEN remove_thread_from_ready_q(s, u)
           ELSE abort_timeout(off, u), u, "dead")

k_thread_abort(t, u) ==
  LET off == single_abort(k, u)
  IN  /\ Running(t, Outside)
      /\ k' = IF u = t THEN Swap(off) ELSE reschedule(off)
      /\ UNCHANGED call
=============================================================================
