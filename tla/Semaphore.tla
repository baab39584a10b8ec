------------------------------ MODULE Semaphore -----------------------------
(***************************************************************************)
(* What a semaphore promises: it has a count and callers.  There is no     *)
(* scheduler, no queue and no clock.  A unit that is given goes to one     *)
(* waiting caller, or is counted; a caller gets a unit or times out, not   *)
(* both, and no caller waits while there are units.                        *)
(***************************************************************************)
EXTENDS Naturals

CONSTANTS Callers, MAX

VARIABLES units, standing

Init == /\ units \in 0 .. MAX
        /\ standing = [c \in Callers |-> "out"]

Become(c, from, to) == /\ standing[c] \in from
                       /\ standing' = [standing EXCEPT ![c] = to]

Take(c) == /\ units > 0 /\ standing[c] = "out"
           /\ units' = units - 1
           /\ UNCHANGED standing

Wait(c) == units = 0 /\ Become(c, {"out"}, "waiting") /\ UNCHANGED units

Give == IF \E c \in Callers : standing[c] = "waiting"
        THEN UNCHANGED units /\ \E c \in Callers : Become(c, {"waiting"}, "granted")
        ELSE UNCHANGED standing /\ units < MAX /\ units' = units + 1

TimeOut(c) == Become(c, {"waiting"}, "timedout") /\ UNCHANGED units

\* Return from the call, or the end of the thread.
Leave(c) == Become(c, {"waiting", "granted", "timedout"}, "out") /\ UNCHANGED units

Next == Give \/ \E c \in Callers : Take(c) \/ Wait(c) \/ TimeOut(c) \/ Leave(c)

Spec == Init /\ [][Next]_<<units, standing>>
=============================================================================
