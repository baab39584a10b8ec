------------------------------- MODULE T5Back -------------------------------
(***************************************************************************)
(* t5_back.v: load extension, the result selector and the write enable of  *)
(* the register file.                                                      *)
(***************************************************************************)
EXTENDS T5Aslu

VARIABLES mopc, dext, drd, xrd, mrd, mwre
backVars == <<mopc, dext, drd, xrd, mrd, mwre>>

BackTypeOK == /\ mopc \in 0..31 /\ dext \in XVal /\ mwre \in BOOLEAN
              /\ drd \in Reg /\ xrd \in Reg /\ mrd \in Reg

rd0d == IF mopc = 0 THEN dext ELSE malu        \* dmux

\* Mutant of BackReset: the write enable is down during reset.
BackResetNoWrite == /\ mopc' = BUBBLE /\ dext' = 0
                    /\ drd' = 0 /\ xrd' = 0 /\ mrd' = 0 /\ mwre' = FALSE

\* The write enable is up during reset: it clears x0 of one hart per edge.
BackReset == /\ mopc' = BUBBLE /\ dext' = 0
             /\ drd' = 0 /\ xrd' = 0 /\ mrd' = 0 /\ mwre' = TRUE

\* Mutant of BackAdvance: a misaligned load writes its register.
BackAdvanceFault(i, dwb_dti) ==
    /\ mopc' = xopc
    /\ dext' = Dext(xsel, xfn3, dwb_dti)
    /\ drd' = i.rd /\ xrd' = drd /\ mrd' = xrd
    /\ mwre' = (xrd # 0 /\ ~stype(xopc) /\ ~btype(xopc))

BackAdvance(i, dwb_dti) ==
    /\ mopc' = xopc
    /\ dext' = Dext(xsel, xfn3, dwb_dti)
    /\ drd' = i.rd /\ xrd' = drd /\ mrd' = xrd
    /\ mwre' = (~misaligned /\ xrd # 0 /\ ~stype(xopc) /\ ~btype(xopc))

BackHold == UNCHANGED backVars
=============================================================================
