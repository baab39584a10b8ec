-------------------------------- MODULE ZSem --------------------------------
(***************************************************************************)
(* Semaphores: kernel/sem.c.  The wait queue of a semaphore has its name.  *)
(***************************************************************************)
EXTENDS ZSched

CONSTANTS Sems,       \* the semaphores
          LIMIT       \* the largest count

VARIABLE count        \* of each semaphore

ASSUME SemAssumption == Sems \subseteq WaitQs /\ LIMIT \in Nat \ {0}

\* Mutant of increment_count_up_to_limit: no limit.
increment_count(c) == c + 1

increment_count_up_to_limit(c) == IF c # LIMIT THEN c + 1 ELSE c

\* What a give does to the kernel and to the count.
do_sem_give(s, sem) == IF s.waitq[sem] = <<>> THEN s ELSE wake_first(s, sem, "0", None)
count_given(sem) == IF k.waitq[sem] # <<>> THEN count
                    ELSE [count EXCEPT ![sem] = increment_count_up_to_limit(@)]

k_sem_give(t, sem) == /\ Running(t, Outside)
                      /\ k' = reschedule(do_sem_give(k, sem))
                      /\ count' = count_given(sem)
                      /\ UNCHANGED call

\* An interrupt handler that gives a semaphore.
isr_sem_give(sem) == /\ Interruptible
                     /\ k' = isr_exit(do_sem_give([k EXCEPT !.nested = TRUE], sem))
                     /\ count' = count_given(sem)
                     /\ UNCHANGED call

\* The place of a thread that waits in k_sem_take.
At(sem) == <<"take", sem>>

\* timeout = 0 is K_NO_WAIT.
k_sem_take(t, sem, timeout) ==
  /\ Running(t, Outside)
  /\ \/ /\ count[sem] > 0
        /\ count' = [count EXCEPT ![sem] = @ - 1]
        /\ UNCHANGED <<k, call>>
     \/ /\ count[sem] = 0 /\ timeout = 0
        /\ UNCHANGED <<k, call, count>>
     \/ /\ count[sem] = 0 /\ timeout # 0
        /\ k' = pend_current_thread(k, sem, timeout)
        /\ Goto(t, At(sem))
        /\ UNCHANGED count

\* The thread runs again and returns what its swap returned, which does not
\* matter any more after that.
sem_taken(t, sem) == /\ Running(t, At(sem))
                     /\ k' = [k EXCEPT !.ret[t] = "EAGAIN"]
                     /\ Goto(t, Outside)
                     /\ UNCHANGED count

-----------------------------------------------------------------------------
\* How a caller of k_sem_take stands with the semaphore.
Standing(t, sem) == IF call[t] # At(sem) \/ "dead" \in k.state[t] THEN "out"
                    ELSE IF "pending" \in k.state[t] THEN "waiting"
                    ELSE IF k.ret[t] = "0" THEN "granted"
                    ELSE "timedout"
=============================================================================
