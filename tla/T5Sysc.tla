------------------------------- MODULE T5Sysc -------------------------------
(***************************************************************************)
(* t5_sysc.v: the reset stretcher and the clock enable.  A reset of any    *)
(* length keeps srst up for four further edges, and ena keeps the pipeline *)
(* still for one more.                                                     *)
(***************************************************************************)
EXTENDS T5Word

VARIABLES rst,     \* 4-bit shift register
          ena
syscVars == <<rst, ena>>

SyscTypeOK == rst \in 0..15 /\ ena \in BOOLEAN

srst == rst >= 8                               \* rst[3]

\* Mutant of sena: an access waits for an acknowledge that is not looked at.
senaDeaf(sys_ena, xstb, dwb_ack) == sys_ena /\ ena /\ ~(xstb >= 2)

\* The pipeline advances unless its data access waits for the acknowledge.
sena(sys_ena, xstb, dwb_ack) == sys_ena /\ ena /\ ((xstb >= 2) <=> dwb_ack)

SyscEdge(sys_rst) ==
    /\ rst' = IF sys_rst THEN 15 ELSE (2 * rst) % 16
    /\ ena' = ~srst
=============================================================================
