--------------------------- MODULE ZObjects_proofs --------------------------
(***************************************************************************)
(* The message queue of msg_q.c is a FIFO for every size of its buffer and *)
(* every number of threads, whatever the scheduler does: what the wait     *)
(* queue and the threads contain is not used.                              *)
(***************************************************************************)
EXTENDS ZObjects, SequenceTheorems, TLAPS

Wrap(p) == IF p < MAX_MSGS THEN p ELSE p - MAX_MSGS

\* The place behind the last message follows the writer, and it is free.
LEMMA WrapFacts ==
    ASSUME NEW r \in 0 .. MAX_MSGS - 1, NEW u \in 0 .. MAX_MSGS - 1
    PROVE  /\ advance(Wrap(r + u)) = IF u + 1 = MAX_MSGS THEN r ELSE Wrap(r + u + 1)
           /\ \A i \in 1 .. u : /\ Wrap(r + i - 1) \in 0 .. MAX_MSGS - 1
                                /\ Wrap(r + i - 1) # Wrap(r + u)
  <1>1. MAX_MSGS \in Nat \ {0}
    BY SMTT(60), DataAssumption
  <1>2. advance(Wrap(r + u)) = IF u + 1 = MAX_MSGS THEN r ELSE Wrap(r + u + 1)
    <2>1. CASE r + u < MAX_MSGS
      BY SMTT(60), <1>1, <2>1 DEF Wrap, advance
    <2>2. CASE r + u >= MAX_MSGS
      BY SMTT(60), <1>1, <2>2 DEF Wrap, advance
    <2> QED
      BY SMTT(60), <1>1, <2>1, <2>2
  <1>3. ASSUME NEW i \in 1 .. u
        PROVE  Wrap(r + i - 1) \in 0 .. MAX_MSGS - 1 /\ Wrap(r + i - 1) # Wrap(r + u)
    BY SMTT(60), <1>1 DEF Wrap
  <1> QED
    BY SMTT(60), <1>2, <1>3

\* A message that is written comes after the ones that are there.
LEMMA WrittenRing ==
    ASSUME NEW S, NEW q \in Rings(S), Ahead(q), q.used_msgs < MAX_MSGS, NEW x
    PROVE  LET new == Written(q, x)
           IN  /\ new \in Rings(S \cup {x}) /\ Ahead(new)
               /\ new.used_msgs = q.used_msgs + 1
               /\ \A i \in 1 .. q.used_msgs : Content(new)[i] = Content(q)[i]
  <1> DEFINE new == Written(q, x)
  <1>1. /\ MAX_MSGS \in Nat \ {0}
        /\ q.buffer \in [0 .. MAX_MSGS - 1 -> S]
        /\ q.read_ptr \in 0 .. MAX_MSGS - 1 /\ q.write_ptr \in 0 .. MAX_MSGS - 1
        /\ q.used_msgs \in 0 .. MAX_MSGS - 1
    BY SMTT(60), DataAssumption DEF Rings
  <1>2. /\ new.buffer = [q.buffer EXCEPT ![q.write_ptr] = x]
        /\ new.write_ptr = advance(q.write_ptr) /\ new.read_ptr = q.read_ptr
        /\ new.used_msgs = q.used_msgs + 1
    BY SMTT(60) DEF Written, Rings
  <1>3. advance(q.write_ptr) \in 0 .. MAX_MSGS - 1
    BY SMTT(60), <1>1 DEF advance
  <1>4. new \in Rings(S \cup {x})
    BY SMTT(60), <1>1, <1>3 DEF Written, Rings
  <1>5. Ahead(new)
    <2> HIDE DEF new
    <2>1. q.write_ptr = Wrap(q.read_ptr + q.used_msgs)
      BY SMTT(60), <1>1 DEF Ahead, Slot, Wrap
    <2>2. advance(Wrap(q.read_ptr + q.used_msgs))
            = IF q.used_msgs + 1 = MAX_MSGS THEN q.read_ptr
              ELSE Wrap(q.read_ptr + q.used_msgs + 1)
      BY ONLY <1>1, WrapFacts, ZenonT(60)
    <2>3. advance(q.write_ptr) = IF q.used_msgs + 1 = MAX_MSGS THEN q.read_ptr
                                 ELSE Wrap(q.read_ptr + q.used_msgs + 1)
      BY ONLY <2>1, <2>2, ZenonT(60)
    <2> QED
      BY SMTT(60), <1>1, <1>2, <2>3 DEF Ahead, Slot, Wrap
  <1>6. ASSUME NEW i \in 1 .. q.used_msgs
        PROVE  Content(new)[i] = Content(q)[i]
    <2>1. Slot(q, i) \in 0 .. MAX_MSGS - 1 /\ Slot(q, i) # q.write_ptr
      <3>1. q.write_ptr = Wrap(q.read_ptr + q.used_msgs)
        BY SMTT(60), <1>1 DEF Ahead, Slot, Wrap
      <3>2. Slot(q, i) = Wrap(q.read_ptr + i - 1)
        BY SMTT(60) DEF Slot, Wrap
      <3>3. /\ Wrap(q.read_ptr + i - 1) \in 0 .. MAX_MSGS - 1
            /\ Wrap(q.read_ptr + i - 1) # Wrap(q.read_ptr + q.used_msgs)
        BY ONLY <1>1, i \in 1 .. q.used_msgs, WrapFacts, ZenonT(60)
      <3> QED
        BY ONLY <3>1, <3>2, <3>3, ZenonT(60)
    <2>2. Slot(new, i) = Slot(q, i)
      BY SMTT(60), <1>2 DEF Slot
    <2>3. Content(new)[i] = new.buffer[Slot(q, i)] /\ Content(q)[i] = q.buffer[Slot(q, i)]
      BY SMTT(60), <1>1, <1>2, <2>2 DEF Content
    <2> QED
      BY SMTT(60), <1>1, <1>2, <2>1, <2>3
  <1> QED
    BY SMTT(60), <1>2, <1>4, <1>5, <1>6

\* Reading takes the oldest message.
LEMMA ReadRing ==
    ASSUME NEW S, NEW q \in Rings(S), Ahead(q), q.used_msgs > 0
    PROVE  LET new == Read(q)
           IN  /\ new \in Rings(S \cup {None}) /\ Ahead(new)
               /\ new.used_msgs = q.used_msgs - 1
               /\ \A i \in 1 .. q.used_msgs - 1 : Content(new)[i] = Content(q)[i + 1]
  <1> DEFINE new == Read(q)
  <1>1. /\ MAX_MSGS \in Nat \ {0}
        /\ q.buffer \in [0 .. MAX_MSGS - 1 -> S]
        /\ q.read_ptr \in 0 .. MAX_MSGS - 1 /\ q.write_ptr \in 0 .. MAX_MSGS - 1
        /\ q.used_msgs \in 1 .. MAX_MSGS
    BY SMTT(60), DataAssumption DEF Rings
  <1>2. /\ new.buffer = [q.buffer EXCEPT ![q.read_ptr] = None]
        /\ new.read_ptr = advance(q.read_ptr) /\ new.write_ptr = q.write_ptr
        /\ new.used_msgs = q.used_msgs - 1
    BY SMTT(60) DEF Read, Rings
  <1>3. advance(q.read_ptr) \in 0 .. MAX_MSGS - 1
    BY SMTT(60), <1>1 DEF advance
  <1>4. new \in Rings(S \cup {None})
    BY SMTT(60), <1>1, <1>3 DEF Read, Rings
  <1>5. Ahead(new)
    <2> HIDE DEF new
    <2>1. q.write_ptr = IF q.used_msgs = MAX_MSGS THEN q.read_ptr
                        ELSE Wrap(q.read_ptr + q.used_msgs)
      BY SMTT(60), <1>1 DEF Ahead, Slot, Wrap
    <2>2. q.write_ptr = Wrap(advance(q.read_ptr) + q.used_msgs - 1)
      BY SMTT(60), <1>1, <2>1 DEF Wrap, advance
    <2> QED
      BY SMTT(60), <1>1, <1>2, <1>3, <2>2 DEF Ahead, Slot, Wrap
  <1>6. ASSUME NEW i \in 1 .. q.used_msgs - 1
        PROVE  Content(new)[i] = Content(q)[i + 1]
    <2>1. Slot(q, i + 1) \in 0 .. MAX_MSGS - 1 /\ Slot(q, i + 1) # q.read_ptr
      BY SMTT(60), <1>1 DEF Slot
    <2>2. Slot(new, i) = Slot(q, i + 1)
      BY SMTT(60), <1>1, <1>2 DEF Slot, advance
    <2>3. Content(new)[i] = new.buffer[Slot(q, i + 1)] /\ Content(q)[i + 1] = q.buffer[Slot(q, i + 1)]
      BY SMTT(60), <1>1, <1>2, <2>2 DEF Content
    <2> QED
      BY SMTT(60), <1>1, <1>2, <2>1, <2>3
  <1> QED
    BY SMTT(60), <1>2, <1>4, <1>5, <1>6
-----------------------------------------------------------------------------
\* The content of a ring is a sequence of its messages.
LEMMA ContentSeq ==
    ASSUME NEW S, NEW q \in Rings(S)
    PROVE  Content(q) \in Seq(S) /\ Len(Content(q)) = q.used_msgs
  <1>1. /\ MAX_MSGS \in Nat \ {0} /\ q.buffer \in [0 .. MAX_MSGS - 1 -> S]
        /\ q.read_ptr \in 0 .. MAX_MSGS - 1 /\ q.used_msgs \in 0 .. MAX_MSGS
    BY SMTT(60), DataAssumption DEF Rings
  <1>2. ASSUME NEW i \in 1 .. q.used_msgs
        PROVE  q.buffer[Slot(q, i)] \in S
    <2>1. Slot(q, i) \in 0 .. MAX_MSGS - 1
      BY SMTT(60), <1>1 DEF Slot
    <2> QED
      BY SMTT(60), <1>1, <2>1
  <1> QED
    BY SMTT(60), <1>1, <1>2 DEF Content

\* A ring is one over the values its buffer has.
LEMMA RingRange ==
    ASSUME NEW S, NEW q \in Rings(S)
    PROVE  q \in Rings(Range(q.buffer))
  <1>1. q.buffer \in [0 .. MAX_MSGS - 1 -> Range(q.buffer)]
    BY ZenonT(60) DEF Rings, Range
  <1> QED
    BY SMTT(60), <1>1 DEF Rings

\* A sequence that is one longer than another and agrees with it.
LEMMA FrontEqual ==
    ASSUME NEW S, NEW old \in Seq(S), NEW new \in Seq(S), Len(new) = Len(old) + 1,
           \A i \in 1 .. Len(old) : new[i] = old[i]
    PROVE  new # <<>> /\ Front(new) = old
  <1>1. Len(old) \in Nat /\ new # <<>>
    BY SMTT(60), EmptySeq, LenProperties
  <1>2. /\ Front(new) \in Seq(S) /\ Len(Front(new)) = Len(old)
        /\ \A i \in 1 .. Len(old) : Front(new)[i] = new[i]
    BY SMTT(60), <1>1 DEF Front
  <1> QED
    BY SMTT(60), <1>1, <1>2, SeqEqual

\* A sequence that is one shorter than another and agrees with the end of it.
LEMMA TailEqual ==
    ASSUME NEW S, NEW old \in Seq(S), NEW new \in Seq(S), Len(old) = Len(new) + 1,
           \A i \in 1 .. Len(new) : new[i] = old[i + 1]
    PROVE  old # <<>> /\ Tail(old) = new
  <1>1. Len(new) \in Nat /\ old # <<>>
    BY SMTT(60), EmptySeq, LenProperties
  <1>2. /\ Tail(old) \in Seq(S) /\ Len(Tail(old)) = Len(new)
        /\ \A i \in 1 .. Len(new) : Tail(old)[i] = old[i + 1]
    BY SMTT(60), <1>1, HeadTailProperties
  <1> QED
    BY SMTT(60), <1>1, <1>2, SeqEqual
-----------------------------------------------------------------------------
\* What a step can do to the message queue.
Puts == msgq.used_msgs < MAX_MSGS /\ \E x : msgq' = Written(msgq, x)
Gets == msgq.used_msgs > 0 /\ msgq' = Read(msgq)
GetsAndPuts == msgq.used_msgs > 0 /\ \E x : msgq' = Written(Read(msgq), x)
Purges == msgq' = Purged(msgq)

\* Every step, whichever call or interrupt it belongs to, leaves the ring buffer
\* alone or changes it in one of these four ways (msg_q.c).
LEMMA Effects ==
    ASSUME [ONext]_obj_vars
    PROVE  UNCHANGED msgq \/ Puts \/ Gets \/ GetsAndPuts \/ Purges
  <1>1. CASE UNCHANGED obj_vars
    BY SMTT(60), <1>1 DEF obj_vars
  <1>2. ASSUME NEW t, DataCall(t)
        PROVE  UNCHANGED msgq \/ Puts \/ Gets \/ GetsAndPuts \/ Purges
    <2>1. ASSUME k_stack_push(t) \/ k_mem_slab_free(t) \/ msgq_returned(t)
                 \/ (\E at : data_received(t, at))
                 \/ (\E d : k_stack_pop(t, d) \/ k_mem_slab_alloc(t, d))
          PROVE  UNCHANGED msgq
      BY <2>1, ZenonT(60) DEF k_stack_push, k_mem_slab_free, msgq_returned, data_received,
                         k_stack_pop, k_mem_slab_alloc
    <2>2. ASSUME NEW d, k_msgq_put(t, d)
          PROVE  UNCHANGED msgq \/ Puts
      BY <2>2, ZenonT(60) DEF k_msgq_put, Puts
    <2>3. ASSUME NEW d, k_msgq_get(t, d)
          PROVE  UNCHANGED msgq \/ Gets \/ GetsAndPuts
      BY <2>3, ZenonT(60) DEF k_msgq_get, Gets, GetsAndPuts
    <2>4. ASSUME k_msgq_purge(t) PROVE Purges
      BY <2>4, ZenonT(60) DEF k_msgq_purge, Purges
    <2> QED
      BY <1>2, <2>1, <2>2, <2>3, <2>4, ZenonT(60) DEF DataCall
  <1>3. CASE ONext
    BY <1>2, <1>3, ZenonT(60) DEF ONext, data_vars
  <1> QED
    BY SMTT(60), <1>1, <1>3

\* Every step keeps the pointers apart and the order of the messages.
LEMMA RingStep ==
    ASSUME RingInv, [ONext]_obj_vars
    PROVE  RingInv' /\ FifoStep
  <1> DEFINE S == Range(msgq.buffer)
             old == Content(msgq)
             new == Content(msgq')
  <1>1. msgq \in Rings(S) /\ Ahead(msgq) /\ MAX_MSGS \in Nat \ {0}
    BY SMTT(60), DataAssumption DEF RingInv
  <1>2. msgq.used_msgs \in 0 .. MAX_MSGS
    BY SMTT(60), <1>1 DEF Rings
  <1>3. old \in Seq(S) /\ Len(old) = msgq.used_msgs
    BY SMTT(60), <1>1, ContentSeq
  <1>4. ASSUME NEW T, msgq' \in Rings(T), Ahead(msgq')
        PROVE  RingInv'
    BY SMTT(60), <1>4, RingRange DEF RingInv
  <1>5. CASE UNCHANGED msgq
    BY SMTT(60), <1>5 DEF RingInv, FifoStep
  <1>6. CASE Puts
    <2>1. PICK x : msgq' = Written(msgq, x)
      BY SMTT(60), <1>6 DEF Puts
    <2> DEFINE T == S \cup {x}
    <2>2. /\ msgq' \in Rings(T) /\ Ahead(msgq') /\ msgq'.used_msgs = msgq.used_msgs + 1
          /\ \A i \in 1 .. msgq.used_msgs : new[i] = old[i]
      <3>1. \A r \in Rings(S) : Ahead(r) /\ r.used_msgs < MAX_MSGS =>
              /\ Written(r, x) \in Rings(T) /\ Ahead(Written(r, x))
              /\ Written(r, x).used_msgs = r.used_msgs + 1
              /\ \A i \in 1 .. r.used_msgs : Content(Written(r, x))[i] = Content(r)[i]
        BY ONLY WrittenRing, SMTT(60)
      <3>2. msgq.used_msgs < MAX_MSGS
        BY <1>6, ZenonT(60) DEF Puts
      <3> QED
        BY ONLY <1>1, <2>1, <3>1, <3>2, ZenonT(60)
    <2>3. new \in Seq(T) /\ Len(new) = Len(old) + 1
      BY SMTT(60), <1>3, <2>2, ContentSeq
    <2>4. old \in Seq(T)
      BY SMTT(60), <1>3
    <2>5. new # <<>> /\ Front(new) = old
      BY SMTT(60), <1>3, <2>2, <2>3, <2>4, FrontEqual
    <2> QED
      BY <1>4, <2>2, <2>5, ZenonT(60) DEF FifoStep
  <1>7. CASE Gets
    <2> DEFINE T == S \cup {None}
    <2>1. /\ msgq' \in Rings(T) /\ Ahead(msgq') /\ msgq'.used_msgs = msgq.used_msgs - 1
          /\ \A i \in 1 .. msgq.used_msgs - 1 : new[i] = old[i + 1]
      BY SMTT(60), <1>1, <1>7, ReadRing DEF Gets
    <2>2. new \in Seq(T) /\ Len(new) = msgq.used_msgs - 1 /\ Len(old) = Len(new) + 1
      BY SMTT(60), <1>2, <1>3, <2>1, ContentSeq
    <2>3. old \in Seq(T)
      BY SMTT(60), <1>3
    <2>4. old # <<>> /\ Tail(old) = new
      BY SMTT(60), <2>1, <2>2, <2>3, TailEqual
    <2> QED
      BY <1>4, <2>1, <2>4, ZenonT(60) DEF FifoStep
  <1>8. CASE GetsAndPuts
    <2>1. PICK x : msgq' = Written(Read(msgq), x)
      BY SMTT(60), <1>8 DEF GetsAndPuts
    <2> DEFINE T == S \cup {None}
               U == T \cup {x}
               mid == Content(Read(msgq))
    <2>2. /\ Read(msgq) \in Rings(T) /\ Ahead(Read(msgq))
          /\ Read(msgq).used_msgs = msgq.used_msgs - 1
          /\ \A i \in 1 .. msgq.used_msgs - 1 : mid[i] = old[i + 1]
      BY SMTT(60), <1>1, <1>8, ReadRing DEF GetsAndPuts
    <2>3. /\ mid \in Seq(T) /\ Len(mid) = msgq.used_msgs - 1 /\ old \in Seq(T)
          /\ Len(old) = Len(mid) + 1
      BY SMTT(60), <1>2, <1>3, <2>2, ContentSeq
    <2>4. old # <<>> /\ Tail(old) = mid
      BY SMTT(60), <2>2, <2>3, TailEqual
    <2>5. Read(msgq).used_msgs < MAX_MSGS
      BY SMTT(60), <1>1, <1>2, <2>2
    <2>6. /\ msgq' \in Rings(U) /\ Ahead(msgq') /\ msgq'.used_msgs = Read(msgq).used_msgs + 1
          /\ \A i \in 1 .. Read(msgq).used_msgs : new[i] = mid[i]
      <3>1. \A r \in Rings(T) : Ahead(r) /\ r.used_msgs < MAX_MSGS =>
              /\ Written(r, x) \in Rings(U) /\ Ahead(Written(r, x))
              /\ Written(r, x).used_msgs = r.used_msgs + 1
              /\ \A i \in 1 .. r.used_msgs : Content(Written(r, x))[i] = Content(r)[i]
        BY ONLY WrittenRing, SMTT(60)
      <3> QED
        BY ONLY <2>1, <2>2, <2>5, <3>1, ZenonT(60)
    <2>7. new \in Seq(U) /\ Len(new) = Len(mid) + 1 /\ mid \in Seq(U)
      BY SMTT(60), <2>2, <2>3, <2>6, ContentSeq
    <2>8. new # <<>> /\ Front(new) = mid
      BY SMTT(60), <2>2, <2>3, <2>6, <2>7, FrontEqual
    <2> QED
      BY <1>4, <2>4, <2>6, <2>8, ZenonT(60) DEF FifoStep
  <1>9. CASE Purges
    <2>1. /\ msgq' \in Rings({None}) /\ msgq'.used_msgs = 0
          /\ msgq'.read_ptr = msgq'.write_ptr /\ msgq'.read_ptr \in 0 .. MAX_MSGS - 1
      BY SMTT(60), <1>1, <1>9 DEF Purges, Purged, Rings
    <2>2. Ahead(msgq')
      BY SMTT(60), <1>1, <2>1 DEF Ahead, Slot
    <2>3. new \in Seq({None}) /\ Len(new) = 0
      BY SMTT(60), <2>1, ContentSeq
    <2>4. new = <<>>
      BY SMTT(60), <2>3, EmptySeq
    <2> QED
      BY <1>4, <2>1, <2>2, <2>4, ZenonT(60) DEF FifoStep
  <1> QED
    BY SMTT(60), <1>5, <1>6, <1>7, <1>8, <1>9, Effects

\* The message queue never loses its order: k_msgq_put, k_msgq_get and
\* k_msgq_purge keep the ring buffer a queue, wherever its pointers are.
THEOREM MessagesInOrder == OSpec => RingIsFifo
  <1>1. OInit => RingInv
    <2> SUFFICES ASSUME OInit PROVE RingInv
      BY SMTT(60)
    <2>1. MAX_MSGS \in Nat \ {0}
      BY SMTT(60), DataAssumption
    <2>2. msgq \in Rings({None}) /\ msgq.used_msgs = 0 /\ msgq.read_ptr = 0 /\ msgq.write_ptr = 0
      BY SMTT(60), <2>1 DEF OInit, Rings
    <2>3. Ahead(msgq)
      BY SMTT(60), <2>1, <2>2 DEF Ahead, Slot
    <2> QED
      BY SMTT(60), <2>2, <2>3, RingRange DEF RingInv
  <1>2. RingInv /\ [ONext]_obj_vars => RingInv' /\ [FifoStep]_obj_vars
    BY SMTT(60), RingStep
  <1> QED
    BY <1>1, <1>2, PTL DEF OSpec, RingIsFifo
=============================================================================
