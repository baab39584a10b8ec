------------------------------- MODULE T5Ctrl -------------------------------
(***************************************************************************)
(* t5_ctrl.v: the decode stage.  It latches operands and control bits for  *)
(* the execute slot and carries the return address (dpc, xpc) and the      *)
(* address (depc, xepc) of the instruction to the memory slot.             *)
(*                                                                         *)
(* Bits [31:20] and [19:15] of dcp2, which only a SYSTEM instruction uses  *)
(* as such, are the variables dcsn and dzim; the sum dcp1 + dcp2 of such   *)
(* an instruction has undefined low bits, so dcp2 is then X.  mpc, which   *)
(* nothing reads, is left out.                                             *)
(***************************************************************************)
EXTENDS T5Word

VARIABLES dexc, dcsr, dsub, dbra, djmp,
          dop1, dop2, dcp1, dcp2, dcsn, dzim,
          dopc, dfn3, dfn7,
          dpc, xpc, depc, xepc
ctrlVars == <<dexc, dcsr, dsub, dbra, djmp, dop1, dop2, dcp1, dcp2, dcsn, dzim,
              dopc, dfn3, dfn7, dpc, xpc, depc, xepc>>

CtrlTypeOK ==
    /\ {dexc, dcsr, dsub, dbra, djmp, dfn7} \subseteq BOOLEAN
    /\ dop1 \in Val /\ dop2 \in Val /\ dcp1 \in Val /\ dcp2 \in XVal
    /\ dcsn \in Csr \cup {X} /\ dzim \in Reg \cup {X}
    /\ dopc \in 0..31 /\ dfn3 \in 0..7
    /\ dpc \in PC /\ xpc \in PC /\ depc \in PC /\ xepc \in PC

BUBBLE == 13                                   \* 5'h0D, LUI x0

CtrlReset ==
    /\ dexc' = FALSE /\ dcsr' = FALSE /\ dsub' = FALSE /\ dbra' = FALSE /\ djmp' = FALSE
    /\ dop1' = 0 /\ dop2' = 0 /\ dcp1' = 0 /\ dcp2' = 0 /\ dcsn' = 0 /\ dzim' = 0
    /\ dopc' = BUBBLE /\ dfn3' = 0 /\ dfn7' = FALSE
    /\ dpc' = 0 /\ xpc' = 0 /\ depc' = 0 /\ xepc' = 0

(***************************************************************************)
(* The control bits follow every word; the rest holds when bits [1:0] of   *)
(* the word are not 11.                                                    *)
(***************************************************************************)
CtrlAdvance(i, fpc, rs1d, rs2d) ==
    /\ dexc' = etype(i) /\ dcsr' = ctype(i) /\ dsub' = DSub(i)
    /\ dbra' = btype(i.opc) /\ djmp' = DJmp(i)
    /\ IF i.rv32
       THEN /\ dcp1' = DCp1(i, fpc, rs1d) /\ dcp2' = DCp2(i)
            /\ dop1' = DOp1(i, rs1d) /\ dop2' = DOp2(i, rs2d)
            /\ dcsn' = IF system(i.opc) THEN i.csr ELSE X
            /\ dzim' = IF system(i.opc) THEN i.rs1 ELSE X
            /\ dopc' = i.opc /\ dfn3' = i.fn3 /\ dfn7' = i.b30
            /\ xpc' = dpc /\ dpc' = (fpc + 1) % WORDS
            /\ xepc' = depc /\ depc' = fpc
       ELSE UNCHANGED <<dcp1, dcp2, dop1, dop2, dcsn, dzim, dopc, dfn3, dfn7,
                        xpc, dpc, xepc, depc>>

CtrlHold == UNCHANGED ctrlVars
=============================================================================
