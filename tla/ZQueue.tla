------------------------------- MODULE ZQueue -------------------------------
(***************************************************************************)
(* A queue of data items, kernel/queue.c, with the list of                 *)
(* include/misc/list_gen.h it is made of.  Each thread has one item, which *)
(* it appends or prepends and gets back.                                   *)
(***************************************************************************)
EXTENDS ZClock

CONSTANTS Queue,      \* the queue, also the name of its wait queue
          Items       \* the data items

VARIABLES held,       \* the item a thread has, or None
          data_q      \* head and tail of the list, and the link of each item

queue_vars == <<k, call, held, data_q>>

list_prepend(q, x) == [q EXCEPT !.next[x] = q.head, !.head = x,
                                !.tail = IF @ = None THEN x ELSE @]

list_append(q, x) ==
  LET new == [q EXCEPT !.next[x] = None, !.tail = x]
  IN  IF q.tail = None THEN [new EXCEPT !.head = x] ELSE [new EXCEPT !.next[q.tail] = x]

list_insert(q, prev, x) ==
  CASE prev = None -> list_prepend(q, x)
    [] prev # None /\ q.next[prev] = None -> list_append(q, x)
    [] OTHER -> [q EXCEPT !.next[x] = q.next[prev], !.next[prev] = x]

list_get_not_empty(q) == LET new == q.next[q.head]
                         IN  [q EXCEPT !.head = new, !.tail = IF @ = q.head THEN new ELSE @]

\* sys_sfnode_init clears the link of the new item.
queue_insert(t, prev) ==
  LET x == held[t]
      clear == [data_q EXCEPT !.next[x] = None]
  IN  /\ IF k.waitq[Queue] # <<>>
         THEN k' = reschedule(wake_first(k, Queue, "0", x)) /\ UNCHANGED data_q
         ELSE k' = reschedule(k) /\ data_q' = list_insert(clear, prev, x)
      /\ held' = [held EXCEPT ![t] = None]

\* The tail is read before interrupts are locked.
k_queue_append(t) == /\ Running(t, Outside) /\ held[t] # None
                     /\ Goto(t, <<"append", data_q.tail>>)
                     /\ UNCHANGED <<k, held, data_q>>

append_insert(t) == \E prev \in Items \cup {None} : /\ Running(t, <<"append", prev>>)
                                                   /\ queue_insert(t, prev)
                                                   /\ Goto(t, Outside)

k_queue_prepend(t) == /\ Running(t, Outside) /\ held[t] # None
                      /\ queue_insert(t, None)
                      /\ UNCHANGED call

k_queue_get(t, timeout) ==
  /\ Running(t, Outside) /\ held[t] = None
  /\ \/ /\ data_q.head # None
        /\ data_q' = list_get_not_empty(data_q)
        /\ held' = [held EXCEPT ![t] = data_q.head]
        /\ UNCHANGED <<k, call>>
     \/ /\ data_q.head = None /\ timeout # 0
        /\ k' = pend_current_thread(k, Queue, timeout) /\ Goto(t, <<"get", Queue>>)
        /\ UNCHANGED <<held, data_q>>

queue_got(t) == /\ Running(t, <<"get", Queue>>)
                /\ held' = [held EXCEPT ![t] = IF k.ret[t] = "0" THEN k.data[t] ELSE None]
                /\ k' = [k EXCEPT !.ret[t] = "EAGAIN", !.data[t] = None]
                /\ Goto(t, Outside)
                /\ UNCHANGED data_q

\* The first waiting thread returns with NULL.
k_queue_cancel_wait(t) ==
  /\ Running(t, Outside)
  /\ k' = reschedule(IF k.waitq[Queue] = <<>> THEN k ELSE wake_first(k, Queue, "0", None))
  /\ UNCHANGED <<call, held, data_q>>

QInit == /\ k \in Started([t \in Threads |-> 0])
         /\ call = AllOutside
         /\ held = [t \in Threads |-> t]
         /\ data_q = [head |-> None, tail |-> None, next |-> [x \in Items |-> None]]

QNext == \/ \E t \in Threads : \/ k_queue_append(t) \/ append_insert(t) \/ k_queue_prepend(t)
                               \/ \E d \in {0, FOREVER} : k_queue_get(t, d)
                               \/ queue_got(t) \/ k_queue_cancel_wait(t)
         \/ (Tick \/ handle_expired_timeout \/ TickEnd) /\ UNCHANGED <<held, data_q>>

QSpec == QInit /\ [][QNext]_queue_vars

-----------------------------------------------------------------------------
\* The items of the list.
Chain(q) == LET upto[n \in 0 .. Cardinality(Items)] ==
                  IF n = 0 THEN {q.head}
                  ELSE upto[n - 1] \cup {q.next[x] : x \in upto[n - 1] \ {None}}
            IN  upto[Cardinality(Items)] \ {None}

\* An item that has been appended is in the queue until a thread gets it
\* (k_queue_append in queue.c).
AppendedStays == \A x \in Items : \/ x \in Chain(data_q)
                                  \/ \E t \in Threads : x \in {held[t], k.data[t]}
=============================================================================
