------------------------------ MODULE MCKernel ------------------------------
(***************************************************************************)
(* Two preemptible threads of the same priority and a cooperative one.     *)
(***************************************************************************)
EXTENDS ZKernel

CONSTANTS a, b, c, sem

MCPrio == [t \in Threads |-> IF t = c THEN -1 ELSE 0]

\* c becomes the worst, b a second cooperative one.
MCPrios == [t \in Threads |-> CASE t = a -> {} [] t = b -> {-1, 0} [] t = c -> {-1, 1}]

\* What a semaphore promises: the specification of Semaphore (k_sem_give and
\* k_sem_take of sem.c against timeouts, aborts, suspension and interrupts).
Kept == INSTANCE Semaphore WITH Callers <- Threads, MAX <- LIMIT, units <- count[sem],
          standing <- [t \in Threads |-> Standing(t, sem)]
SemaphoreKept == Kept!Spec
=============================================================================
