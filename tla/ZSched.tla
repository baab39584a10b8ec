------------------------------- MODULE ZSched -------------------------------
(***************************************************************************)
(* The uniprocessor scheduler of Zephyr as TRA5 builds it: kernel/sched.c, *)
(* ksched.h, kswap.h, timeout_q.h, what timer.c does when a timeout        *)
(* expires, and the context switch of isr.S.                               *)
(*                                                                         *)
(* The kernel changes its data with interrupts locked, so what happens     *)
(* between irq_lock and irq_unlock is one function from kernel states to   *)
(* kernel states.  A kernel state is a record, the variable k:             *)
(*   current, cache  the running thread; the one to run after a swap       *)
(*   runq            the ready threads, best first, the running one too    *)
(*   prio, state     priority (smaller is better) and thread_state flags   *)
(*   locked          how often a thread has locked the scheduler           *)
(*   ret, data       swap_return_value and swap_data of a thread           *)
(*   waitq           the threads pending on an object, best first          *)
(*   timeoutq        _timeout_q: ticks after the timeout before            *)
(*   expired         the timeouts handle_timeouts has still to handle      *)
(*   nested          an interrupt is being served                          *)
(*   elapsed         ticks of the running time slice                       *)
(*   period, status  of a timer                                            *)
(* Durations are in ticks, as _ms_to_ticks returns them.                   *)
(***************************************************************************)
EXTENDS Integers, Sequences, FiniteSets, FiniteSetsExt, Functions

CONSTANTS Threads,    \* the threads of the application
          Idle,       \* the idle thread
          Timers,     \* the k_timer objects, also the names of their wait queues
          WaitQs,     \* the wait queues of all kernel objects
          None,       \* NULL
          PREEMPT,    \* CONFIG_PREEMPT_ENABLED
          CEILING,    \* CONFIG_PRIORITY_CEILING
          SLICE       \* ticks of a time slice, 0 for no time slicing

VARIABLES k,          \* the kernel state
          call        \* where a thread stands in a call of the kernel

ASSUME SchedAssumption ==
  /\ Cardinality(Threads) \in Nat \ {0}
  /\ Idle \notin Threads /\ None \notin WaitQs /\ Timers \subseteq WaitQs
  /\ Timers \cap Threads = {} /\ PREEMPT \in BOOLEAN /\ CEILING \in Int /\ SLICE \in Nat

FOREVER == -1                        \* K_FOREVER
INACTIVE == -1                       \* _INACTIVE
EXPIRED == -2                        \* _EXPIRED
TICK_ALIGN == 1                      \* _TICK_ALIGN

-----------------------------------------------------------------------------
\* Lists and priority queues

\* Before the i-th node; behind the last one it is sys_dlist_append.
sys_dlist_insert_before(q, i, x) ==
  [j \in 1 .. Len(q) + 1 |-> IF j < i THEN q[j] ELSE IF j = i THEN x ELSE q[j - 1]]

sys_dlist_remove(q, i) == [j \in 1 .. Len(q) - 1 |-> IF j < i THEN q[j] ELSE q[j + 1]]

\* The first of some places of a list, or the one behind its end.
First(q, places) == IF places = {} THEN Len(q) + 1 ELSE Min(places)

\* Mutant of priq_dumb_add: in front of the threads of the same priority.
priq_dumb_add_lifo(prio, pq, t) ==
  sys_dlist_insert_before(pq, First(pq, {i \in DOMAIN pq : prio[t] <= prio[pq[i]]}), t)

\* Before the first thread of lower priority.
priq_dumb_add(prio, pq, t) ==
  sys_dlist_insert_before(pq, First(pq, {i \in DOMAIN pq : prio[t] < prio[pq[i]]}), t)

priq_dumb_remove(pq, t) == IF t \in Range(pq)
                           THEN sys_dlist_remove(pq, CHOOSE i \in DOMAIN pq : pq[i] = t)
                           ELSE pq

mark(s, t, flag) == [s EXCEPT !.state[t] = @ \cup {flag}]
unmark(s, t, flag) == [s EXCEPT !.state[t] = @ \ {flag}]

-----------------------------------------------------------------------------
\* The timeout queue

\* Ticks until the i-th timeout of a queue expires.
Due(q) == LET due[i \in 0 .. Len(q)] == IF i = 0 THEN 0 ELSE due[i - 1] + q[i].delta
          IN  due

Index(q, who) == LET places == {i \in DOMAIN q : q[i].who = who}
                 IN  IF places = {} THEN 0 ELSE CHOOSE i \in places : TRUE

is_timeout_active(s, who) ==
  \E e \in Range(s.timeoutq) \cup Range(s.expired) : e.who = who /\ e.delta # INACTIVE

\* A new timeout goes in front of the ones that expire at the same tick.
insert_timeout(s, who, w, ticks) ==
  LET q == s.timeoutq
      p == First(q, {i \in DOMAIN q : ticks <= Due(q)[i]})
      delta == ticks - Due(q)[p - 1]
      rest == IF p > Len(q) THEN q ELSE [q EXCEPT ![p].delta = @ - delta]
      new == [who |-> who, delta |-> delta, wait_q |-> w]
  IN  [s EXCEPT !.timeoutq = sys_dlist_insert_before(rest, p, new)]

\* Mutant of abort_timeout: the ticks of the aborted timeout are forgotten.
abort_timeout_drop(s, who) ==
  LET i == Index(s.timeoutq, who)
  IN  IF i = 0 THEN s ELSE [s EXCEPT !.timeoutq = sys_dlist_remove(@, i)]

\* The ticks of a timeout that is taken out are added to the next one.  A
\* timeout is never aborted between its expiry and its handling: the clock
\* interrupt is not interrupted and no timer has an expiry function here.
abort_timeout(s, who) ==
  LET q == s.timeoutq
      i == Index(q, who)
      merged == IF i < Len(q) THEN [q EXCEPT ![i + 1].delta = @ + q[i].delta] ELSE q
  IN  IF i = 0 THEN s ELSE [s EXCEPT !.timeoutq = sys_dlist_remove(merged, i)]

-----------------------------------------------------------------------------
\* The ready queue and its cache

prevented == {"pending", "prestart", "dead", "suspended"}
is_thread_ready(s, t) == \/ t = Idle
                         \/ s.state[t] \cap prevented = {} /\ ~is_timeout_active(s, t)
is_preempt(s, t) == PREEMPT /\ (t = Idle \/ (s.prio[t] >= 0 /\ s.locked[t] = 0))

should_preempt(s, preempt_ok) == \/ preempt_ok
                                 \/ ~is_thread_ready(s, s.current)
                                 \/ is_preempt(s, s.current)
                                 \/ s.current = Idle

next_up(s) == IF s.runq = <<>> THEN Idle ELSE Head(s.runq)

\* Mutant of update_cache: a cooperative thread gives way too.
update_cache_always(s, preempt_ok) == [s EXCEPT !.cache = next_up(s)]

update_cache(s, preempt_ok) ==
  [s EXCEPT !.cache = IF should_preempt(s, preempt_ok) THEN next_up(s) ELSE s.current]

add_thread_to_ready_q(s, t) ==
  update_cache(mark([s EXCEPT !.runq = priq_dumb_add(s.prio, @, t)], t, "queued"), FALSE)

move_thread_to_end_of_prio_q(s, t) ==
  add_thread_to_ready_q([s EXCEPT !.runq = priq_dumb_remove(@, t)], t)

remove_thread_from_ready_q(s, t) ==
  IF "queued" \notin s.state[t] THEN s
  ELSE update_cache(unmark([s EXCEPT !.runq = priq_dumb_remove(@, t)], t, "queued"), t = s.current)

ready_thread(s, t) == IF is_thread_ready(s, t) THEN add_thread_to_ready_q(s, t) ELSE s

-----------------------------------------------------------------------------
\* Pending on an object, and the end of a wait

unpend_thread_no_timeout(s, t) ==
  unmark([s EXCEPT !.waitq = [w \in WaitQs |-> priq_dumb_remove(s.waitq[w], t)]], t, "pending")

unpend_thread(s, t) == abort_timeout(unpend_thread_no_timeout(s, t), t)

waitq_head(s, w) == IF s.waitq[w] = <<>> THEN None ELSE Head(s.waitq[w])

\* Mutant of wake_first: swap_data is not set.
wake_first_no_data(s, w, ret, data) ==
  LET t == Head(s.waitq[w])
  IN  [ready_thread(unpend_thread(s, t), t) EXCEPT !.ret[t] = ret]

\* _unpend_first_thread, _ready_thread, _set_thread_return_value_with_data.
wake_first(s, w, ret, data) ==
  LET t == Head(s.waitq[w])
  IN  [ready_thread(unpend_thread(s, t), t) EXCEPT !.ret[t] = ret, !.data[t] = data]

timer_expiration_handler(s, tm) ==
  LET again == IF s.period[tm] > 0 THEN insert_timeout(s, tm, tm, s.period[tm]) ELSE s
      ticked == [again EXCEPT !.status[tm] = 1]
      t == waitq_head(s, tm)
  IN  IF t = None THEN ticked
      ELSE [ready_thread(unpend_thread_no_timeout(ticked, t), t) EXCEPT !.ret[t] = "0"]

\* Mutant of handle_one_expired_timeout: the thread stays in the wait queue.
handle_one_expired_timeout_pends(s, e) ==
  IF e.who \in Timers THEN timer_expiration_handler(s, e.who)
  ELSE ready_thread(unmark(s, e.who, "prestart"), e.who)

\* e has just been made inactive in s.
handle_one_expired_timeout(s, e) ==
  LET t == e.who
      off == IF e.wait_q = None THEN s ELSE unpend_thread_no_timeout(s, t)
  IN  IF t \in Timers THEN timer_expiration_handler(s, t)
      ELSE ready_thread(unmark(off, t, "prestart"), t)

add_timeout(s, who, w, ticks) ==
  IF ticks = 0 THEN handle_one_expired_timeout(s, [who |-> who, wait_q |-> w])
  ELSE insert_timeout(s, who, w, ticks)

pend(s, t, w, timeout) ==
  LET off == mark(remove_thread_from_ready_q(s, t), t, "pending")
      timed == IF timeout = FOREVER THEN off
               ELSE add_timeout(off, t, w, TICK_ALIGN + timeout)
  IN  [timed EXCEPT !.waitq[w] = priq_dumb_add(s.prio, @, t)]

-----------------------------------------------------------------------------
\* Context switches

\* _Swap, and reschedule of isr.S.
Swap(s) == [s EXCEPT !.ret = IF s.current = Idle THEN @
                             ELSE [@ EXCEPT ![s.current] = "EAGAIN"],
                     !.current = s.cache, !.elapsed = 0]

reschedule(s) == IF ~s.nested /\ s.cache # s.current THEN Swap(s) ELSE s

\* Mutant of isr_exit: an interrupt returns to the thread it has interrupted.
isr_exit_returns(s) == [s EXCEPT !.nested = FALSE]

\* The exit from an interrupt; without preemption it never switches threads.
isr_exit(s) == LET out == [s EXCEPT !.nested = FALSE]
               IN  IF PREEMPT /\ out.cache # out.current THEN Swap(out) ELSE out

pend_current_thread(s, w, timeout) == Swap(pend(s, s.current, w, timeout))

\* The section of _thread_priority_set that changes the priority.  A pending
\* thread's place in its wait queue does not follow its priority.
priority_change(s, t, prio) ==
  LET new == [s EXCEPT !.prio[t] = prio]
      moved == [new EXCEPT !.runq = priq_dumb_add(new.prio, priq_dumb_remove(@, t), t)]
  IN  IF is_thread_ready(s, t) THEN update_cache(moved, TRUE) ELSE new

\* All of it, for a caller that has locked interrupts.
thread_priority_set(s, t, prio) ==
  LET new == priority_change(s, t, prio)
  IN  IF is_thread_ready(s, t) THEN reschedule(new) ELSE new

sched_lock(s) == IF PREEMPT THEN [s EXCEPT !.locked[s.current] = @ + 1] ELSE s

\* The locked sections of k_sched_unlock and of k_yield.
sched_unlock(s) ==
  IF PREEMPT THEN update_cache([s EXCEPT !.locked[s.current] = @ - 1], TRUE) ELSE s

yield(s) ==
  LET moved == [s EXCEPT !.runq = priq_dumb_add(s.prio, priq_dumb_remove(@, s.current), s.current)]
  IN  update_cache(moved, TRUE)

-----------------------------------------------------------------------------
\* Threads that take turns

\* Where a thread is: outside the kernel, or at a place of a call on an object.
\* A place that is not Open is one with interrupts locked.
Outside == <<"run", None>>
Open == {"run", "resched", "stop", "sync", "lock_got", "append"}
AllOutside == [t \in Threads \cup {Idle} |-> Outside]
Running(t, at) == k.current = t /\ ~k.nested /\ call[t] = at
Interruptible == ~k.nested /\ call[k.current][1] \in Open
Goto(t, at) == call' = [call EXCEPT ![t] = at]

\* After their locked section k_yield, k_sched_unlock and _thread_priority_set
\* switch threads in a section of its own; interrupts come in between and may
\* change the cache.  That k_yield looks at the cache before it locks interrupts
\* again makes no difference but for elapsed: at worst it swaps to itself.
Rescheduling == <<"resched", None>>
resched(t) == Running(t, Rescheduling) /\ k' = reschedule(k) /\ Goto(t, Outside)

\* Where k_sched_unlock goes on: without preemption it does nothing.
Unlocked == IF PREEMPT THEN Rescheduling ELSE Outside

Ordered(prio, pq) == \A i, j \in DOMAIN pq : i < j => prio[pq[i]] <= prio[pq[j]]

\* All threads are ready, in the order they were created in, and the best one runs.
Started(prio) ==
  {[current |-> Head(runq), cache |-> Head(runq), runq |-> runq, prio |-> prio,
    state |-> [t \in Threads |-> {"queued"}], locked |-> [t \in Threads |-> 0],
    ret |-> [t \in Threads |-> "EAGAIN"], data |-> [t \in Threads |-> None],
    waitq |-> [w \in WaitQs |-> <<>>], timeoutq |-> <<>>, expired |-> <<>>,
    nested |-> FALSE, elapsed |-> 0,
    period |-> [tm \in Timers |-> 0], status |-> [tm \in Timers |-> 0]] :
   runq \in {q \in Bijection(1 .. Cardinality(Threads), Threads) : Ordered(prio, q)}}

=============================================================================
