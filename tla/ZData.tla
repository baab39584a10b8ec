-------------------------------- MODULE ZData -------------------------------
(***************************************************************************)
(* The objects by which threads pass data: kernel/stack.c, mem_slab.c and  *)
(* msg_q.c, one object of each.  A thread that calls with K_NO_WAIT, here  *)
(* timeout 0, never waits.                                                 *)
(***************************************************************************)
EXTENDS ZSched, SequencesExt

CONSTANTS Stack, Slab, Msgq,     \* the objects, also the names of their wait queues
          Items,                 \* the words, blocks and messages
          NUM_ENTRIES,           \* room in the stack
          MAX_MSGS               \* room in the message queue

VARIABLES held,       \* the item a thread has, or None
          stack,      \* the words from base to next
          slab,       \* free_list and num_used
          msgq        \* buffer, read_ptr, write_ptr and used_msgs

ASSUME DataAssumption == /\ {Stack, Slab, Msgq} \subseteq WaitQs /\ None \notin Items
                         /\ NUM_ENTRIES \in Nat \ {0} /\ MAX_MSGS \in Nat \ {0}

Give(t) == held' = [held EXCEPT ![t] = None]
Have(t, x) == held' = [held EXCEPT ![t] = x]

k_stack_push(t) ==
  /\ Running(t, Outside) /\ held[t] # None /\ Len(stack) < NUM_ENTRIES
  /\ IF k.waitq[Stack] # <<>>
     THEN k' = reschedule(wake_first(k, Stack, "0", held[t])) /\ UNCHANGED stack
     ELSE stack' = Append(stack, held[t]) /\ UNCHANGED k
  /\ Give(t)
  /\ UNCHANGED <<call, slab, msgq>>

k_stack_pop(t, timeout) ==
  /\ Running(t, Outside) /\ held[t] = None
  /\ \/ /\ stack # <<>>
        /\ stack' = Front(stack) /\ Have(t, Last(stack))
        /\ UNCHANGED <<k, call>>
     \/ /\ stack = <<>> /\ timeout # 0
        /\ k' = pend_current_thread(k, Stack, timeout) /\ Goto(t, <<"pop", Stack>>)
        /\ UNCHANGED <<held, stack>>
  /\ UNCHANGED <<slab, msgq>>

-----------------------------------------------------------------------------
\* Mutant of k_mem_slab_free: the block is kept in the list for the waiter too.
k_mem_slab_free_both(t) ==
  /\ Running(t, Outside) /\ held[t] # None
  /\ k' = IF k.waitq[Slab] = <<>> THEN k ELSE reschedule(wake_first(k, Slab, "0", held[t]))
  /\ slab' = [free_list |-> <<held[t]>> \o slab.free_list, num_used |-> slab.num_used - 1]
  /\ Give(t)
  /\ UNCHANGED <<call, stack, msgq>>

k_mem_slab_free(t) ==
  /\ Running(t, Outside) /\ held[t] # None
  /\ IF k.waitq[Slab] # <<>>
     THEN k' = reschedule(wake_first(k, Slab, "0", held[t])) /\ UNCHANGED slab
     ELSE /\ slab' = [free_list |-> <<held[t]>> \o slab.free_list,
                      num_used |-> slab.num_used - 1]
          /\ UNCHANGED k
  /\ Give(t)
  /\ UNCHANGED <<call, stack, msgq>>

k_mem_slab_alloc(t, timeout) ==
  /\ Running(t, Outside) /\ held[t] = None
  /\ \/ /\ slab.free_list # <<>>
        /\ slab' = [free_list |-> Tail(slab.free_list), num_used |-> slab.num_used + 1]
        /\ Have(t, Head(slab.free_list))
        /\ UNCHANGED <<k, call>>
     \/ /\ slab.free_list = <<>> /\ timeout # 0
        /\ k' = pend_current_thread(k, Slab, timeout) /\ Goto(t, <<"alloc", Slab>>)
        /\ UNCHANGED <<held, slab>>
  /\ UNCHANGED <<stack, msgq>>

\* The rest of k_stack_pop and k_mem_slab_alloc: the item comes in swap_data.
data_received(t, at) == /\ Running(t, at)
                        /\ k' = [k EXCEPT !.ret[t] = "EAGAIN", !.data[t] = None]
                        /\ Have(t, IF k.ret[t] = "0" THEN k.data[t] ELSE None)
                        /\ Goto(t, Outside)
                        /\ UNCHANGED <<stack, slab, msgq>>

-----------------------------------------------------------------------------
\* Mutant of advance: a pointer wraps one place early.
advance_early(ptr) == IF ptr + 1 >= MAX_MSGS - 1 THEN 0 ELSE ptr + 1

advance(ptr) == IF ptr + 1 = MAX_MSGS THEN 0 ELSE ptr + 1

\* What a place without a message contains does not matter: None.
Written(q, x) == [buffer |-> [q.buffer EXCEPT ![q.write_ptr] = x], read_ptr |-> q.read_ptr,
                  write_ptr |-> advance(q.write_ptr), used_msgs |-> q.used_msgs + 1]
Read(q) == [buffer |-> [q.buffer EXCEPT ![q.read_ptr] = None], write_ptr |-> q.write_ptr,
            read_ptr |-> advance(q.read_ptr), used_msgs |-> q.used_msgs - 1]

\* The message goes straight to the first waiting thread, which waits to read
\* because the queue is not full.
k_msgq_put(t, timeout) ==
  LET u == waitq_head(k, Msgq)
  IN  /\ Running(t, Outside) /\ held[t] # None
      /\ \/ /\ msgq.used_msgs < MAX_MSGS /\ u # None
            /\ k' = reschedule(wake_first(k, Msgq, "0", None))
            /\ held' = [held EXCEPT ![u] = held[t], ![t] = None]
            /\ UNCHANGED <<call, msgq>>
         \/ /\ msgq.used_msgs < MAX_MSGS /\ u = None
            /\ msgq' = Written(msgq, held[t]) /\ Give(t)
            /\ UNCHANGED <<k, call>>
         \/ /\ msgq.used_msgs = MAX_MSGS /\ timeout # 0
            /\ k' = pend_current_thread(k, Msgq, timeout) /\ Goto(t, <<"put", Msgq>>)
            /\ UNCHANGED <<held, msgq>>
      /\ UNCHANGED <<stack, slab>>

\* The message of the first thread that waits to write takes the free place.
k_msgq_get(t, timeout) ==
  LET u == waitq_head(k, Msgq)
  IN  /\ Running(t, Outside) /\ held[t] = None
      /\ \/ /\ msgq.used_msgs > 0
            /\ Have(t, msgq.buffer[msgq.read_ptr])
            /\ msgq' = IF u = None THEN Read(msgq) ELSE Written(Read(msgq), held[u])
            /\ k' = IF u = None THEN k ELSE reschedule(wake_first(k, Msgq, "0", None))
            /\ UNCHANGED call
         \/ /\ msgq.used_msgs = 0 /\ timeout # 0
            /\ k' = pend_current_thread(k, Msgq, timeout) /\ Goto(t, <<"get", Msgq>>)
            /\ UNCHANGED <<held, msgq>>
      /\ UNCHANGED <<stack, slab>>

\* A message that was sent is not the writer's any more, and one that could not
\* be received is not the reader's.
msgq_returned(t) ==
  \E op \in {"put", "get"} :
    /\ Running(t, <<op, Msgq>>)
    /\ IF (op = "put") <=> (k.ret[t] = "0") THEN Give(t) ELSE UNCHANGED held
    /\ k' = [k EXCEPT !.ret[t] = "EAGAIN"]
    /\ Goto(t, Outside)
    /\ UNCHANGED <<stack, slab, msgq>>

Purged(q) == [buffer |-> [i \in DOMAIN q.buffer |-> None], read_ptr |-> q.write_ptr,
              write_ptr |-> q.write_ptr, used_msgs |-> 0]

k_msgq_purge(t) ==
  LET waiters == k.waitq[Msgq]
      woken == FoldLeft(LAMBDA s, u : wake_first(s, Msgq, "ENOMSG", None), k, waiters)
  IN  /\ Running(t, Outside)
      /\ k' = reschedule(woken)
      /\ msgq' = Purged(msgq)
      /\ UNCHANGED <<call, held, stack, slab>>
=============================================================================
