------------------------------- MODULE ZObjects -----------------------------
(***************************************************************************)
(* Threads that use one kernel object in every order: a stack, a memory    *)
(* slab, a message queue, a mutex or a timer, with preemption, changes of  *)
(* priority and waits that time out.                                       *)
(***************************************************************************)
EXTENDS FiniteSets, ZData, ZMutex, ZThread, ZClock

CONSTANTS Waits,      \* ticks a thread waits for an object
          Prios,      \* the priorities threads are given
          Movers,     \* the threads that yield and give priorities
          Durations,  \* ticks of a timer, periods too
          LOCK_COUNT, \* bound on how often a mutex is locked
          SYNCS       \* bound on the threads that wait for a timer at a time

VARIABLE obj          \* the object in use

obj_vars == <<k, call, held, stack, slab, msgq, mutex, obj>>
data_vars == <<held, stack, slab, msgq>>

Timeouts == Waits \cup {0, FOREVER}

\* Of words and blocks there is one less than threads.
Spare == CHOOSE x \in Items : TRUE

\* The threads have the words and the messages, the slab has the blocks.
OInit == /\ obj \in WaitQs
         /\ k \in Started([t \in Threads |-> 0])
         /\ call = AllOutside
         /\ held = [t \in Threads |-> IF obj = Msgq \/ (obj = Stack /\ t # Spare)
                                       THEN t ELSE None]
         /\ stack = <<>>
         /\ slab = [free_list |-> SetToSeq(Items \ {Spare}), num_used |-> 0]
         /\ msgq = [buffer |-> [i \in 0 .. MAX_MSGS - 1 |-> None],
                    read_ptr |-> 0, write_ptr |-> 0, used_msgs |-> 0]
         /\ mutex = [m \in Mutexes |-> Free]

DataCall(t) ==
  \/ obj = Stack /\ \/ k_stack_push(t) \/ data_received(t, <<"pop", Stack>>)
                    \/ \E d \in Timeouts : k_stack_pop(t, d)
  \/ obj = Slab /\ \/ k_mem_slab_free(t) \/ data_received(t, <<"alloc", Slab>>)
                   \/ \E d \in Timeouts : k_mem_slab_alloc(t, d)
  \/ obj = Msgq /\ \/ k_msgq_purge(t) \/ msgq_returned(t)
                   \/ \E d \in Timeouts : k_msgq_put(t, d) \/ k_msgq_get(t, d)

MutexCall(t, m) == \/ /\ mutex[m].lock_count < LOCK_COUNT
                      /\ \E d \in {0, FOREVER} : k_mutex_lock(t, m, d)
                   \/ lock_got(t, m)
                   \/ k_mutex_unlock(t, m)

TimerCall(t, tm) ==
  \/ \E d, p \in Durations \cup {0} : k_timer_start(t, tm, d, p)
  \/ k_timer_stop(t, tm) \/ timer_stop_wake(t, tm)
  \/ k_timer_status_get(t, tm)
  \/ /\ Cardinality({u \in Threads : call[u] = <<"sync", tm>>}) < SYNCS
     /\ k_timer_status_sync(t, tm)
  \/ timer_status_synced(t, tm)

\* Priorities are left alone while they are inherited.
ThreadCall(t) == \/ resched(t)
                 \/ t \in Movers /\ k_yield(t)
                 \/ /\ t \in Movers /\ obj \notin Mutexes
                    /\ \E u \in Threads, p \in Prios : k_thread_priority_set(t, u, p)

ONext ==
  /\ \/ \E t \in Threads : DataCall(t) /\ UNCHANGED mutex
     \/ \E t \in Threads : obj \in Mutexes /\ MutexCall(t, obj) /\ UNCHANGED data_vars
     \/ \E t \in Threads : \/ obj \in Timers /\ TimerCall(t, obj)
                           \/ ThreadCall(t)
        /\ UNCHANGED <<data_vars, mutex>>
     \/ (Tick \/ handle_expired_timeout \/ TickEnd) /\ UNCHANGED <<data_vars, mutex>>
  /\ UNCHANGED obj

OSpec == OInit /\ [][ONext]_obj_vars

-----------------------------------------------------------------------------
\* The place of the i-th message of the ring buffer, and the messages, oldest first.
Slot(q, i) == LET p == q.read_ptr + i - 1 IN IF p < MAX_MSGS THEN p ELSE p - MAX_MSGS
Content(q) == [i \in 1 .. q.used_msgs |-> q.buffer[Slot(q, i)]]

\* An item a thread has: one it holds, unless it is the message of a put that
\* has succeeded, or one that has been handed to it by swap_data.
Owned(t) == {x \in Items : \/ held[t] = x /\ ~(call[t] = <<"put", Msgq>> /\ k.ret[t] = "0")
                           \/ k.ret[t] = "0" /\ k.data[t] = x}

Places(x) == LET occurs(q) == Len(SelectSeq(q, LAMBDA y : y = x))
             IN  Cardinality({t \in Threads : x \in Owned(t)}) + occurs(stack)
                   + occurs(Content(msgq))
                   + (IF obj = Slab THEN occurs(slab.free_list) ELSE 0)

\* No word, block or message is ever in two places, whatever a time-out, a
\* change of priority or a purge comes between (the hand-over of data to a
\* waiting thread in stack.c, mem_slab.c and msg_q.c), and num_used counts.
ItemsOnce == /\ \A x \in Items : Places(x) <= 1
             /\ slab.num_used = Cardinality({x \in Items : \E t \in Threads : x \in Owned(t)})
                  \/ obj # Slab

\* No item is lost, except by a purge of the message queue.
ItemsKept == [][\A x \in Items : Places(x) = 1 /\ Places(x)' # 1 =>
                  \E t \in Threads : k_msgq_purge(t)]_obj_vars

\* Messages leave the ring buffer in the order they came, also when the pointers
\* wrap and when a waiting writer fills the place a reader has freed.
FifoStep == LET old == Content(msgq)
                new == Content(msgq')
                rest == IF old = <<>> THEN {} ELSE {Tail(old)}
            IN  \/ new \in {old, <<>>} \cup rest
                \/ new # <<>> /\ Front(new) \in {old} \cup rest
RingIsFifo == [][FifoStep]_obj_vars

\* The writer's pointer is as far ahead of the reader's as there are messages.
Rings(S) == [buffer : [0 .. MAX_MSGS - 1 -> S], read_ptr : 0 .. MAX_MSGS - 1,
             write_ptr : 0 .. MAX_MSGS - 1, used_msgs : 0 .. MAX_MSGS]
Ahead(q) == q.write_ptr = IF q.used_msgs = MAX_MSGS THEN q.read_ptr
                          ELSE Slot(q, q.used_msgs + 1)
RingInv == msgq \in Rings(Range(msgq.buffer)) /\ Ahead(msgq)

\* What kernel.h says of k_timer_status_sync: it "blocks the calling thread until
\* the timer's status is non-zero [...] or the timer is stopped".  A timer that
\* is not active any more, and which no k_timer_stop is about to see to, does
\* neither.
SyncEnds ==
  \A tm \in Timers : k.waitq[tm] # <<>> =>
    is_timeout_active(k, tm) \/ \E u \in Threads : call[u] = <<"stop", tm>>

\* A thread waits for an object only as long as the object cannot serve it: no
\* wake-up is lost.  In the message queue, where readers and writers share one
\* wait queue, the waiting threads are all readers or all writers, and the one
\* thread that waits for a timer (SYNCS) is not left behind when the timer is
\* stopped, or started again while it is being stopped.
WaitersBlocked ==
  /\ SyncEnds
  /\ \A t \in Range(k.waitq[obj]) :
       CASE obj = Stack -> stack = <<>>
         [] obj = Slab -> slab.free_list = <<>>
         [] obj = Msgq -> msgq.used_msgs = IF call[t][1] = "get" THEN 0 ELSE MAX_MSGS
         [] obj \in Mutexes -> mutex[obj].lock_count > 0 /\ mutex[obj].owner \notin {None, t}
         [] OTHER -> TRUE
=============================================================================
