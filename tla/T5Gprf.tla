------------------------------- MODULE T5Gprf -------------------------------
(***************************************************************************)
(* t5_gprf.v, t5_regs.v and dpram.v: the register file.  Two RAMs, one for *)
(* each read port, are written alike and are one function here.  The write *)
(* is not gated by the clock enable.                                       *)
(***************************************************************************)
EXTENDS T5Word

VARIABLE rRAM

GprfTypeOK == rRAM \in [Hart -> [Reg -> Val]]

\* An undefined value may be stored as any value.
GprfEdge(mwre, mhart, rd0a, rd0d) ==
    IF mwre
    THEN \E v \in IF rd0d = X THEN Val ELSE {rd0d} :
            rRAM' = [rRAM EXCEPT ![mhart][rd0a] = v]
    ELSE UNCHANGED rRAM
=============================================================================
