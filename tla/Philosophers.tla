---------------------------- MODULE Philosophers ----------------------------
(***************************************************************************)
(* The sample TRA5 runs: samples/philosophers/src/main.c with mutexes as   *)
(* forks.  Its prj.conf selects a scheduler without preemption, PSpec; by  *)
(* its description some of the threads are preemptible, PreemptSpec.       *)
(***************************************************************************)
EXTENDS ZMutex, ZClock

CONSTANT NUM_PHIL

VARIABLE pc           \* the statement of its loop a philosopher executes next

phil_vars == <<k, call, mutex, pc>>

ASSUME PhilAssumption == Threads = 0 .. NUM_PHIL - 1

fork(i) == <<"fork", i>>
is_last_philosopher(id) == id = NUM_PHIL - 1

fork1(id) == IF is_last_philosopher(id) THEN fork(0) ELSE fork(id)
fork2(id) == IF is_last_philosopher(id) THEN fork(id) ELSE fork(id + 1)
new_prio(id) == IF PREEMPT THEN -(id - NUM_PHIL \div 2) ELSE -id - 2

\* get_random_delay: 1 to 16 ms, one tick of a second
delay == 1

take(t, m) == k_mutex_lock(t, m, FOREVER)
drop(t, m) == k_mutex_unlock(t, m)
sleep(t) == /\ Running(t, Outside)
            /\ k' = Swap(add_timeout(remove_thread_from_ready_q(k, t), t, None,
                                     TICK_ALIGN + delay))
            /\ UNCHANGED <<call, mutex>>

philosopher(t) ==
  /\ \/ pc[t] = 0 /\ take(t, fork1(t))
     \/ pc[t] = 1 /\ take(t, fork2(t))
     \/ pc[t] = 2 /\ sleep(t)
     \/ pc[t] = 3 /\ drop(t, fork2(t))
     \/ pc[t] = 4 /\ drop(t, fork1(t))
     \/ pc[t] = 5 /\ sleep(t)
  /\ pc' = [pc EXCEPT ![t] = (@ + 1) % 6]

\* The rest of a take that had to wait.
Resume(t) == \E m \in Mutexes : lock_got(t, m) /\ UNCHANGED pc

PInit == /\ k \in Started([t \in Threads |-> new_prio(t)])
         /\ call = AllOutside
         /\ mutex = [m \in Mutexes |-> Free]
         /\ pc = [t \in Threads |-> 0]

PNext == \/ \E t \in Threads : philosopher(t) \/ Resume(t)
         \/ /\ Tick \/ handle_expired_timeout \/ TickEnd \/ IdleYield \/ IdleFault
            /\ UNCHANGED <<mutex, pc>>

PSpec == PInit /\ [][PNext]_phil_vars

\* With preemption a change of priority switches threads inside of a call.
PreemptNext == \/ PNext
               \/ \E t \in Threads : resched(t) /\ UNCHANGED <<mutex, pc>>
               \/ \E t \in Threads, m \in Mutexes :
                    (lock_pend(t, m) \/ unlock_hand(t, m)) /\ UNCHANGED pc

PreemptSpec == PInit /\ [][PreemptNext]_phil_vars

-----------------------------------------------------------------------------
\* Between the return of take and the call of drop.
Holds(t, m) == \/ m = fork1(t) /\ \/ pc[t] \in {2, 3, 4}
                                  \/ pc[t] = 1 /\ call[t] = Outside
               \/ m = fork2(t) /\ (pc[t] = 3 \/ (pc[t] = 2 /\ call[t] = Outside))

\* A fork is in one hand (take and drop, which rely on k_mutex_lock and
\* k_mutex_unlock of mutex.c).
ForksExclusive == \A t, u \in Threads, m \in Mutexes : Holds(t, m) /\ Holds(u, m) => t = u

\* A fork that is dropped is owned by the philosopher who drops it: the
\* assertions at the start of k_mutex_unlock in mutex.c.
DropsOwned ==
  \A t \in Threads :
    k.current = t /\ call[t] = Outside /\ pc[t] \in {3, 4} =>
      LET m == IF pc[t] = 3 THEN fork2(t) ELSE fork1(t)
      IN  mutex[m].lock_count > 0 /\ mutex[m].owner = t

\* No philosophers wait for each other, and none for a fork that is on the table
\* or has been handed over already: whoever waits, waits in the end for one who
\* eats, thinks or can run (the order of fork1 and fork2 in main.c, the hand-over
\* in k_mutex_unlock).
NoDeadlock ==
  \A S \in SUBSET Threads \ {{}} :
    \E t \in S : \A m \in Mutexes : t \in Range(k.waitq[m]) =>
                   mutex[m].owner \in Threads \ S
=============================================================================
