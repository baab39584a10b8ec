------------------------------- MODULE ZClock -------------------------------
(***************************************************************************)
(* The system clock and the timers: kernel/sys_clock.c, the walk over the  *)
(* expired timeouts of timeout_q.h, kernel/timer.c, idle.c.                *)
(*                                                                         *)
(* An interrupt is not interrupted: isr.S runs handlers with interrupts    *)
(* disabled, and irq_unlock restores that.  The handler of the clock       *)
(* interrupt is split into its loop iterations.                            *)
(***************************************************************************)
EXTENDS ZSched

\* One tick: the timeouts that expire, last queued first; the next one has come
\* nearer by what is left of the tick.
handle_timeouts(s) ==
  LET q == s.timeoutq
      n == First(q, {i \in DOMAIN q : Due(q)[i] > 1}) - 1
      rest == SubSeq(q, n + 1, Len(q))
  IN  [s EXCEPT !.expired = [i \in 1 .. n |-> [q[n + 1 - i] EXCEPT !.delta = EXPIRED]],
                !.timeoutq = IF rest = <<>> THEN rest
                             ELSE [rest EXCEPT ![1].delta = @ - (1 - Due(q)[n])]]

Tick == /\ Interruptible
        /\ k' = handle_timeouts([k EXCEPT !.nested = TRUE])
        /\ UNCHANGED call

\* No timeout: where the walk over the expired ones ends up below.
Astray == [who |-> None, delta |-> EXPIRED, wait_q |-> None]

\* The loop reads the link of a timeout after handling it.  A periodic timer has
\* been queued again by then, so unless it was the last, its link leads through
\* _timeout_q to the head of that list, which is no timeout, and the rest of the
\* expired ones is lost.  What the code does from there is left out.
handle_expired_timeout ==
  LET e == Head(k.expired)
      left == Tail(k.expired)
      again == e.who \in Timers /\ k.period[e.who] > 0
  IN  /\ k.expired \notin {<<>>, <<Astray>>}
      /\ k' = handle_one_expired_timeout(
                [k EXCEPT !.expired = IF again /\ left # <<>> THEN <<Astray>> ELSE left], e)
      /\ UNCHANGED call

is_thread_time_slicing(s, t) == /\ SLICE > 0 /\ is_preempt(s, t)
                                /\ t # Idle /\ s.runq # <<>>
                                /\ s.prio[t] = s.prio[Head(s.runq)]

handle_time_slicing(s) ==
  IF ~is_thread_time_slicing(s, s.current) THEN s
  ELSE IF s.elapsed + 1 < SLICE THEN [s EXCEPT !.elapsed = @ + 1]
  ELSE move_thread_to_end_of_prio_q([s EXCEPT !.elapsed = 0], s.current)

TickEnd == /\ k.nested /\ k.expired = <<>>
           /\ k' = isr_exit(handle_time_slicing(k))
           /\ UNCHANGED call

\* Without preemption the idle loop yields after each interrupt.  Its check and
\* its swap are one step: once there is a ready thread there is one until it runs.
IdleYield == /\ Running(Idle, Outside) /\ ~PREEMPT
             /\ k.cache # Idle
             /\ k' = Swap(k)
             /\ UNCHANGED call

\* k_cpu_idle waits for an interrupt by wfi.  To TRA5 that is a break: the idle
\* thread is essential, so the handler of the fault spins for ever, with
\* interrupts disabled.
IdleFault == /\ Running(Idle, Outside)
             /\ Goto(Idle, <<"fault", None>>)
             /\ UNCHANGED k

-----------------------------------------------------------------------------
\* k_timer; status only tells whether the timer has expired

k_timer_start(t, tm, duration, period) ==
  LET new == [abort_timeout(k, tm) EXCEPT !.period[tm] = period, !.status[tm] = 0]
  IN  /\ Running(t, Outside)
      /\ duration # 0 \/ period # 0
      /\ k' = add_timeout(new, tm, tm, duration)
      /\ UNCHANGED call

k_timer_stop(t, tm) == /\ Running(t, Outside)
                       /\ is_timeout_active(k, tm)
                       /\ k' = abort_timeout(k, tm)
                       /\ Goto(t, <<"stop", tm>>)

\* Mutant of stop_wakes: the thread that waits for the timer is left waiting.
stop_wakes_none(s, tm) == s

stop_wakes(s, tm) ==
  LET u == waitq_head(s, tm)
  IN  IF u = None THEN s ELSE ready_thread(unpend_thread_no_timeout(s, u), u)

timer_stop_wake(t, tm) == /\ Running(t, <<"stop", tm>>)
                          /\ k' = reschedule(stop_wakes(k, tm))
                          /\ Goto(t, Outside)

k_timer_status_get(t, tm) == /\ Running(t, Outside)
                             /\ k' = [k EXCEPT !.status[tm] = 0]
                             /\ UNCHANGED call

k_timer_status_sync(t, tm) ==
  LET waits == k.status[tm] = 0 /\ is_timeout_active(k, tm)
  IN  /\ Running(t, Outside)
      /\ k' = IF waits THEN pend_current_thread(k, tm, FOREVER)
              ELSE [k EXCEPT !.status[tm] = 0]
      /\ IF waits THEN Goto(t, <<"sync", tm>>) ELSE UNCHANGED call

timer_status_synced(t, tm) == /\ Running(t, <<"sync", tm>>)
                              /\ k' = [k EXCEPT !.status[tm] = 0, !.ret[t] = "EAGAIN"]
                              /\ Goto(t, Outside)
=============================================================================
