------------------------------- MODULE ZMutex -------------------------------
(***************************************************************************)
(* Mutexes with priority inheritance: kernel/mutex.c.  The wait queue of a *)
(* mutex has its name.  Only waits without a time limit are modelled: a    *)
(* wait that times out reads mutex->owner, which may be NULL by then.      *)
(***************************************************************************)
EXTENDS ZSched

CONSTANT Mutexes

VARIABLE mutex        \* owner, lock_count and owner_orig_prio of each mutex

ASSUME MutexAssumption == Mutexes \subseteq WaitQs

Free == [owner |-> None, lock_count |-> 0, owner_orig_prio |-> 0]

is_prio_higher(p, q) == p < q

new_prio_for_inheritance(target, limit) ==
  LET new == IF is_prio_higher(target, limit) THEN target ELSE limit
  IN  IF is_prio_higher(new, CEILING) THEN CEILING ELSE new

\* May switch to another thread, whether or not the scheduler is locked.
adjust_owner_prio(s, m, prio) ==
  LET t == mutex[m].owner
  IN  IF s.prio[t] # prio THEN thread_priority_set(s, t, prio) ELSE s

\* Mutant of k_mutex_lock: whoever asks gets the mutex.
k_mutex_lock_any(t, m, timeout) ==
  /\ Running(t, Outside)
  /\ k' = sched_unlock(sched_lock(k))
  /\ mutex' = [mutex EXCEPT ![m].lock_count = @ + 1, ![m].owner = t]
  /\ Goto(t, Unlocked)

\* From the call to the end of k_sched_unlock's section, to the wait, or to a
\* thread switch before it.
\* What the code finds at the address NULL if there is no owner is left out.
k_mutex_lock(t, m, timeout) ==
  LET s == sched_lock(k)
      mx == mutex[m]
      prio == new_prio_for_inheritance(s.prio[t], s.prio[mx.owner])
      up == IF is_prio_higher(prio, s.prio[mx.owner]) THEN adjust_owner_prio(s, m, prio) ELSE s
  IN  /\ Running(t, Outside)
      /\ \/ /\ mx.lock_count = 0 \/ mx.owner = t
            /\ mutex' = [mutex EXCEPT ![m].lock_count = @ + 1, ![m].owner = t,
                           ![m].owner_orig_prio = IF mx.lock_count = 0 THEN s.prio[t] ELSE @]
            /\ k' = sched_unlock(s)
            /\ Goto(t, Unlocked)
         \/ /\ mx.lock_count # 0 /\ mx.owner # t /\ timeout # FOREVER
            /\ k' = sched_unlock(s)
            /\ Goto(t, Unlocked)
            /\ UNCHANGED mutex
         \/ /\ mx.lock_count # 0 /\ mx.owner \notin {t, None} /\ timeout = FOREVER
            /\ k' = IF up.current = t THEN pend_current_thread(up, m, FOREVER) ELSE up
            /\ Goto(t, <<IF up.current = t THEN "lock_got" ELSE "lock_pend", m>>)
            /\ UNCHANGED mutex

lock_pend(t, m) == /\ Running(t, <<"lock_pend", m>>)
                   /\ k' = pend_current_thread(k, m, FOREVER)
                   /\ Goto(t, <<"lock_got", m>>)
                   /\ UNCHANGED mutex

lock_got(t, m) == /\ Running(t, <<"lock_got", m>>)
                  /\ k' = sched_unlock([k EXCEPT !.ret[t] = "EAGAIN"])
                  /\ Goto(t, Unlocked)
                  /\ UNCHANGED mutex

\* Mutant of Passed: the owner is cleared even if there is a new one.
Passed_clears_owner(s, m, count) ==
  [mutex[m] EXCEPT !.owner = None, !.lock_count = IF s.waitq[m] = <<>> THEN count ELSE count + 1]

\* What an unlock does to the mutex once the owner's priority is restored.
Passed(s, m, count) ==
  LET u == waitq_head(s, m)
  IN  IF u = None THEN [mutex[m] EXCEPT !.owner = None, !.lock_count = count]
      ELSE [owner |-> u, lock_count |-> count + 1, owner_orig_prio |-> s.prio[u]]

\* Mutant of Woken: the new owner is not made ready.
Woken_lost(s, m) == sched_unlock(s)

Woken(s, m) == sched_unlock(IF s.waitq[m] = <<>> THEN s ELSE wake_first(s, m, "0", None))

k_mutex_unlock(t, m) ==
  LET s == sched_lock(k)
      count == mutex[m].lock_count - 1
      down == adjust_owner_prio(s, m, mutex[m].owner_orig_prio)
  IN  /\ Running(t, Outside)
      /\ mutex[m].owner = t /\ mutex[m].lock_count > 0
      /\ \/ /\ count # 0
            /\ mutex' = [mutex EXCEPT ![m].lock_count = count]
            /\ k' = sched_unlock(s)
            /\ Goto(t, Unlocked)
         \/ /\ count = 0
            /\ mutex' = [mutex EXCEPT ![m] = IF down.current = t THEN Passed(down, m, 0)
                                            ELSE [@ EXCEPT !.lock_count = 0]]
            /\ k' = IF down.current = t THEN Woken(down, m) ELSE down
            /\ Goto(t, IF down.current = t THEN Unlocked ELSE <<"unlock_hand", m>>)

unlock_hand(t, m) == /\ Running(t, <<"unlock_hand", m>>)
                     /\ mutex' = [mutex EXCEPT ![m] = Passed(k, m, @.lock_count)]
                     /\ k' = Woken(k, m)
                     /\ Goto(t, Unlocked)
=============================================================================
