------------------------------- MODULE T5Data -------------------------------
(***************************************************************************)
(* t5_data.v: byte selection and control of the data bus.  xsel is a set   *)
(* of lanes.  xstb is the number {access, misaligned}.                     *)
(***************************************************************************)
EXTENDS T5Alu, T5Ctrl

VARIABLES xsel, xstb, xwre
dataVars == <<xsel, xstb, xwre>>

DataTypeOK == xsel \in SUBSET Lane /\ xstb \in 0..3 /\ xwre \in BOOLEAN

dwb_stb == xstb >= 2                           \* xstb[1]
dwb_wre == xwre
misaligned == xstb = 3                         \* &xstb

Off == IF dcp2 = X THEN X ELSE (dcp1 + dcp2) % 4

DataReset == xsel' = {} /\ xstb' = 0 /\ xwre' = FALSE

DataAdvance ==
    /\ xsel' = Xsel(dfn3, Off)
    /\ xstb' = 2 * ToNat(~opc6(dopc) /\ ~opc4(dopc) /\ ~opc2(dopc))
                 + ToNat(Xsel(dfn3, Off) = {})
    /\ xwre' = opc5(dopc)

DataHold == UNCHANGED dataVars
=============================================================================
