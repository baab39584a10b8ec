--------------------------- MODULE T5Rv32i_proofs ---------------------------
(***************************************************************************)
(* The core in a free environment keeps its types, its zero registers and  *)
(* its slots, and lets no undefined value out, for every word size, every  *)
(* register set, every menu of instruction words, and every sequence of    *)
(* stalls, bus answers and resets.                                         *)
(*                                                                         *)
(* IndInv of T5Rv32i is shown to be inductive; the four properties follow  *)
(* from it.                                                                *)
(***************************************************************************)
EXTENDS T5Execute_proofs, T5Reset_proofs

\* An edge at which the pipeline advances preserves the inductive invariant.
LEMMA AdvanceStep ==
    ASSUME IndInv, NEW sys_rst \in BOOLEAN, NEW sys_ena \in BOOLEAN, NEW dwb_ack \in BOOLEAN,
           NEW i \in Instr, NEW dti \in Val, Advance(sys_rst, sys_ena, dwb_ack, i, dti)
    PROVE  IndInv'
  <1>1. PICK rcsr \in Rcsr(dcsn, dhart) : AsluAdvance(rcsr)
    BY DEF Advance
  <1>2. SyscTypeOK' /\ GprfTypeOK' /\ hart' \in Hart /\ dhart' \in Hart
    BY ZenonT(40), AlwaysType DEF IndInv, Advance
  <1>3. InstTypeOK'
    BY SMTT(40), <1>2, FetchAdrType DEF IndInv, TypeOK, InstTypeOK, Advance, InstAdvance
  <1>4. CtrlTypeOK' /\ DecodeInv'
    <2>1. drd' = i.rd
      BY SMTT(40) DEF Advance, BackAdvance
    <2> QED
      BY SMTT(40), <2>1, DecodeStep DEF Advance
  <1>5. /\ DataTypeOK'
        /\ xsel' \in LaneSets
        /\ xstb' >= 2 <=> dopc \in {0, 8}
        /\ xstb' = 2 => xsel' # {} /\ dfn3 % 4 # 3
        /\ xstb' = 3 => xsel' = {}
    BY SMTT(40), DataStep DEF Advance
  <1>6. /\ AsluTypeOK'
        /\ xbpc' = X => dopc = 28
        /\ dopc = 28 => xcsr' # X
        /\ dopc \in {4, 12} => xalu' # X
        /\ dfn3 % 4 # 3 => xdat' # X
    BY SMTT(40), <1>1, ExecuteStep
  <1>7. CsrTypeOK'
    BY SMTT(40), <1>1, CsrStep
  <1>8. BackTypeOK' /\ (mwre' => rd0d' # X)
    BY SMTT(40), <1>1, WriteBackStep DEF Advance
  <1>9. TypeOK'
    BY SMTT(40), <1>2, <1>3, <1>4, <1>5, <1>6, <1>7, <1>8 DEF TypeOK
  <1>10. ResetInv'
    <2>1. fhart' = hart /\ hart \in Hart
      BY DEF Advance, InstAdvance, IndInv, TypeOK, InstTypeOK
    <2>2. ~(mwre' /\ mrd' = 0)
      BY ZenonT(40) DEF Advance, BackAdvance
    <2>3. rst = 0 /\ ena' /\ rst' = IF sys_rst THEN 15 ELSE 0
      <3>1. rst = 0
        <4>1. ResetInv /\ ~srst
          BY DEF IndInv, Advance
        <4> QED
          BY SMTT(40), <4>1 DEF ResetInv, srst
      <3>2. ena' /\ rst' = IF sys_rst THEN 15 ELSE (2 * rst) % 16
        BY ZenonT(40) DEF Advance, Always, SyscEdge
      <3> QED
        BY SMTT(40), <3>1, <3>2
    <2>4. /\ hart' = IF sys_rst THEN 0 ELSE NextHart(hart)
          /\ dhart' = IF sys_rst THEN 3 ELSE 3 - NextHart(hart)
      BY SMTT(40) DEF Advance, Always, HartEdge
    <2>5. \A h \in Hart : rRAM'[h][0] = 0
      <3>1. \A h \in Hart : rRAM[h][0] = 0
        <4>1. ResetInv /\ ena
          BY SMTT(40) DEF IndInv, Advance, sena
        <4> QED
          BY SMTT(40), <2>3, <4>1 DEF ResetInv
      <3>2. \A h \in Hart : rRAM[h][0] = 0 => rRAM'[h][0] = 0
        BY SMTT(40), ZeroKept DEF IndInv, ResetInv, Advance, Always
      <3> QED
        BY SMTT(40), <3>1, <3>2
    <2>6. CASE sys_rst
      <3>1. rst' = 15 /\ hart' = 0 /\ dhart' = 3
        BY SMTT(40), <2>3, <2>4, <2>6
      <3>2. ~Cleared'
        BY SMTT(40), <3>1 DEF Cleared
      <3> QED
        BY SMTT(40), <2>2, <3>1, <3>2 DEF ResetInv
    <2>7. CASE ~sys_rst
      <3>1. fhart' = PrevHart(hart')
        BY SMTT(40), <2>1, <2>4, <2>7, HartRing
      <3> QED
        BY SMTT(40), <2>2, <2>3, <2>4, <2>5, <2>7, <3>1 DEF ResetInv, Cleared
    <2> QED
      BY SMTT(40), <2>6, <2>7
  <1>11. ExecuteInv'
    <2>1. xopc' = dopc /\ dopc \in Opcodes
      BY SMTT(40), <1>1 DEF AsluAdvance, IndInv, DecodeInv
    <2>2. xrd' # 0 => dopc # 3
      BY SMTT(40) DEF Advance, BackAdvance, IndInv, DecodeInv
    <2>3. /\ dopc \in {0, 8} => xbra' = 0
          /\ xbra' = 2 => dopc \in {24, 25, 27}
      BY SMTT(40), <1>1, BranchStep
    <2>4. xstb' = 3 => xbra' = 0
      BY <1>5, <2>3
    <2> QED
      BY SMTT(40), <1>5, <1>6, <1>8, <2>1, <2>2, <2>3, <2>4 DEF ExecuteInv, LaneSets
  <1> QED
    BY SMTT(40), <1>4, <1>9, <1>10, <1>11 DEF IndInv

\* A step that leaves the core alone preserves the invariant.
LEMMA StutterStep ==
    ASSUME IndInv, UNCHANGED vars
    PROVE  IndInv'
  <1>1. TypeOK'
    <2>1. SyscTypeOK' /\ InstTypeOK'
      BY SMTT(40) DEF IndInv, TypeOK, SyscTypeOK, InstTypeOK, vars, syscVars, instVars
    <2>2. CtrlTypeOK'
      BY SMTT(40) DEF IndInv, TypeOK, CtrlTypeOK, vars, ctrlVars
    <2>3. DataTypeOK' /\ BackTypeOK' /\ GprfTypeOK'
      BY SMTT(40) DEF IndInv, TypeOK, DataTypeOK, BackTypeOK, GprfTypeOK, vars, dataVars, backVars
    <2>4. AsluTypeOK'
      BY SMTT(40) DEF IndInv, TypeOK, AsluTypeOK, vars, asluVars
    <2>5. CsrTypeOK'
      BY SMTT(40) DEF IndInv, TypeOK, CsrTypeOK, vars, csrVars
    <2> QED
      BY SMTT(40), <2>1, <2>2, <2>3, <2>4, <2>5 DEF TypeOK
  <1>2. ResetInv'
    <2>1. /\ UNCHANGED <<rst, ena, hart, dhart, fhart, depc, rRAM, mwre, mrd>>
          /\ UNCHANGED <<mopc, dext, malu>>
      BY DEF vars, syscVars, instVars, ctrlVars, asluVars, backVars
    <2>2. ResetInv
      BY SMTT(40) DEF IndInv
    <2> QED
      BY ZenonT(40), <2>1, <2>2 DEF ResetInv, Cleared, rd0d
  <1>3. DecodeInv'
    <2>1. DecodeInv /\ UNCHANGED ctrlVars /\ UNCHANGED backVars
      BY SMTT(40) DEF IndInv, vars
    <2> QED
      BY SMTT(40), <2>1 DEF DecodeInv, ctrlVars, backVars
  <1>4. ExecuteInv'
    <2>1. ExecuteInv /\ UNCHANGED dataVars /\ UNCHANGED asluVars /\ UNCHANGED backVars
      BY DEF IndInv, vars
    <2> QED
      BY SMTT(40), <2>1 DEF ExecuteInv, rd0d, dataVars, asluVars, backVars
  <1> QED
    BY SMTT(40), <1>1, <1>2, <1>3, <1>4 DEF IndInv

-----------------------------------------------------------------------------
(***************************************************************************)
(* The theorems                                                            *)
(***************************************************************************)
\* IndInv is an invariant of the core in a free environment.
THEOREM Inductive == Spec => []IndInv
  <1>1. Init => IndInv
    BY InitInv
  <1>2. IndInv /\ [Next]_vars => IndInv'
    <2> SUFFICES ASSUME IndInv, [Next]_vars PROVE IndInv'
      BY SMTT(40)
    <2>1. CASE Next
      <3>1. PICK sys_rst, sys_ena, dwb_ack \in BOOLEAN :
               \/ Reset(sys_rst)
               \/ \E i \in Instr, dti \in Dti : Advance(sys_rst, sys_ena, dwb_ack, i, dti)
               \/ Stall(sys_rst, sys_ena, dwb_ack)
        BY <2>1 DEF Next
      <3>2. CASE Reset(sys_rst)
        BY SMTT(40), <3>2, ResetStep
      <3>3. CASE \E i \in Instr, dti \in Dti : Advance(sys_rst, sys_ena, dwb_ack, i, dti)
        BY SMTT(40), <3>3, AdvanceStep, DtiAssumption
      <3>4. CASE Stall(sys_rst, sys_ena, dwb_ack)
        BY SMTT(40), <3>4, StallStep
      <3> QED
        BY SMTT(40), <3>1, <3>2, <3>3, <3>4
    <2>2. CASE UNCHANGED vars
      BY <2>2, StutterStep
    <2> QED
      BY <2>1, <2>2
  <1> QED
    BY <1>1, <1>2, PTL DEF Spec

\* Every register of the core keeps its type.
THEOREM TypeCorrect == Spec => []TypeOK
  <1>1. IndInv => TypeOK
    BY DEF IndInv
  <1> QED
    BY <1>1, Inductive, PTL

\* Whatever the length and the moment of a reset, x0 of every hart is zero
\* whenever the pipeline may advance.
THEOREM ZeroRegister == Spec => []X0Zero
  <1>1. IndInv => X0Zero
    BY SMTT(40) DEF IndInv, ResetInv, X0Zero, Running, srst
  <1> QED
    BY <1>1, Inductive, PTL

\* The slots of the pipeline belong to the harts the hart counter says.
THEOREM Alignment == Spec => []SlotsAligned
  <1>1. IndInv => SlotsAligned
    <2> SUFFICES ASSUME IndInv PROVE SlotsAligned
      BY SMTT(40)
    <2>1. hart \in Hart /\ dhart = NextHart(NextHart(hart))
      BY SMTT(40), HartRing DEF IndInv, TypeOK, InstTypeOK, ResetInv
    <2> QED
      BY <2>1 DEF IndInv, ResetInv, SlotsAligned, Running, srst, Cleared
  <1> QED
    BY <1>1, Inductive, PTL

\* No undefined value reaches the register file, the fetch address or a store.
THEOREM Defined == Spec => []NoUnknown
  <1>1. IndInv => NoUnknown
    BY DEF IndInv, ExecuteInv, NoUnknown
  <1> QED
    BY <1>1, Inductive, PTL
=============================================================================
