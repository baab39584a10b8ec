--------------------------- MODULE T5Reset_proofs ---------------------------
(***************************************************************************)
(* The initial state, reset and stalls: the steps of the core that do not  *)
(* advance the pipeline keep the inductive invariant.                      *)
(***************************************************************************)
EXTENDS T5Decode_proofs

\* What every edge does keeps the types of reset, hart counter and registers.
LEMMA AlwaysType ==
    ASSUME TypeOK, NEW sys_rst \in BOOLEAN, NEW tick \in BOOLEAN, Always(sys_rst, tick)
    PROVE  SyscTypeOK' /\ GprfTypeOK' /\ hart' \in Hart /\ dhart' \in Hart
  <1>1. SyscTypeOK'
    BY DEF TypeOK, SyscTypeOK, Always, SyscEdge, srst
  <1>2. hart' \in Hart /\ dhart' \in Hart
    <2>1. hart \in Hart /\ dhart \in Hart
      BY DEF TypeOK, InstTypeOK
    <2>2. NextHart(hart) \in Hart /\ 3 - NextHart(hart) \in Hart /\ 0 \in Hart /\ 3 \in Hart
      BY <2>1, HartRing DEF Hart
    <2> QED
      BY <2>1, <2>2 DEF Always, HartEdge
  <1>3. GprfTypeOK'
    <2>1. rd0d \in XVal /\ mrd \in Reg /\ hart \in Hart /\ rRAM \in [Hart -> [Reg -> Val]]
      BY DEF TypeOK, BackTypeOK, AsluTypeOK, InstTypeOK, GprfTypeOK, rd0d
    <2>2. CASE mwre
      <3>1. PICK v \in (IF rd0d = X THEN Val ELSE {rd0d}) :
               rRAM' = [rRAM EXCEPT ![hart][mrd] = v]
        BY <2>2 DEF Always, GprfEdge
      <3>2. v \in Val
        BY <2>1 DEF XVal
      <3> QED
        BY <2>1, <3>1, <3>2 DEF GprfTypeOK
    <2>3. CASE ~mwre
      BY SMTT(40), <2>1, <2>3 DEF Always, GprfEdge, GprfTypeOK
    <2> QED
      BY SMTT(40), <2>2, <2>3
  <1> QED
    BY <1>1, <1>2, <1>3

\* Zero, which registers are reset to, is a value of every type but undefined.
LEMMA ZeroType ==
    0 \in Val /\ 0 \in PC /\ 0 \in Reg /\ 0 # X /\ 0 \in Hart /\ 0 \in Lane /\ 0 \in Csr
  <1>1. 0 \in Val /\ 0 \in PC
    BY Sizes DEF Val, PC
  <1>2. 0 \in Reg
    BY ONLY RegAssumption, Zenon
  <1>3. 0 # X
    BY ONLY <1>2, UnknownAssumption, Zenon
  <1>4. 0 \in Hart /\ 0 \in Lane /\ 0 \in Csr
    BY DEF Hart, Lane, Csr
  <1> QED
    BY <1>1, <1>2, <1>3, <1>4, Zenon

\* The register file keeps an x0 that is zero, and clears the one it writes.
LEMMA ZeroKept ==
    ASSUME TypeOK, mwre /\ mrd = 0 => rd0d = 0, GprfEdge(mwre, hart, mrd, rd0d)
    PROVE  /\ \A h \in Hart : rRAM[h][0] = 0 => rRAM'[h][0] = 0
           /\ mwre /\ mrd = 0 => rRAM'[hart][0] = 0
  <1>1. /\ rRAM \in [Hart -> [Reg -> Val]] /\ hart \in Hart /\ mrd \in Reg
        /\ 0 \in Reg /\ 0 # X
    BY SMTT(40), RegAssumption, UnknownAssumption DEF TypeOK, GprfTypeOK, InstTypeOK, BackTypeOK
  <1>2. CASE mwre
    <2>1. PICK v \in (IF rd0d = X THEN Val ELSE {rd0d}) :
             rRAM' = [rRAM EXCEPT ![hart][mrd] = v]
      BY <1>2 DEF GprfEdge
    <2>2. mrd = 0 => v = 0
      BY SMTT(40), <1>1, <1>2, <2>1
    <2> QED
      BY SMTT(40), <1>1, <2>1, <2>2
  <1>3. CASE ~mwre
    BY SMTT(40), <1>3 DEF GprfEdge
  <1> QED
    BY SMTT(40), <1>2, <1>3

\* The initial state satisfies the inductive invariant.
LEMMA InitInv == Init => IndInv
  <1> SUFFICES ASSUME Init PROVE IndInv
    BY SMTT(40)
  <1>1. 0 \in Val /\ 0 \in PC /\ 0 \in Reg /\ 0 # X /\ 0 \in Hart /\ 0 \in Lane /\ 0 \in Csr
    BY ZeroType, Zenon
  <1>2. /\ rst \in {14, 15} /\ ena = FALSE
        /\ rst = 14 => hart = 1
        /\ rst = 15 => hart = 0
        /\ dhart = 3 - hart
    BY SMTT(40) DEF Init
  <1>3. rRAM \in [Hart -> [Reg -> Val]]
    BY DtiAssumption DEF Init
  <1>4. /\ ena \in BOOLEAN /\ xwre \in BOOLEAN /\ xbrk \in BOOLEAN /\ xexc \in BOOLEAN
        /\ mwre \in BOOLEAN
        /\ {dexc, dcsr, dsub, dbra, djmp, dfn7} \subseteq BOOLEAN
    BY ZenonT(40) DEF Init
  <1>5. SyscTypeOK /\ InstTypeOK /\ GprfTypeOK
    BY SMTT(40), <1>1, <1>2, <1>3, <1>4 DEF Init, SyscTypeOK, InstTypeOK, GprfTypeOK, Hart
  <1>6. CtrlTypeOK /\ DataTypeOK /\ AsluTypeOK /\ CsrTypeOK /\ BackTypeOK
    BY SMTT(40), <1>1, <1>4 DEF Init, CtrlTypeOK, DataTypeOK, AsluTypeOK, CsrTypeOK, BackTypeOK,
                      BUBBLE, XVal, XPC
  <1>7. ResetInv
    BY SMTT(40), <1>1, <1>2 DEF Init, ResetInv, Cleared, rd0d, BUBBLE
  <1>8. DecodeInv /\ ExecuteInv
    BY SMTT(40), <1>1 DEF Init, DecodeInv, ExecuteInv, BUBBLE, Opcodes, rd0d
  <1> QED
    BY SMTT(40), <1>5, <1>6, <1>7, <1>8 DEF IndInv, TypeOK

\* An edge under reset preserves the inductive invariant.
LEMMA ResetStep ==
    ASSUME IndInv, NEW sys_rst \in BOOLEAN, Reset(sys_rst)
    PROVE  IndInv'
  <1>1. 0 \in Val /\ 0 \in PC /\ 0 \in Reg /\ 0 # X /\ 0 \in Hart /\ 0 \in Lane /\ 0 \in Csr
    BY ZeroType, Zenon
  <1>2. SyscTypeOK' /\ GprfTypeOK' /\ hart' \in Hart /\ dhart' \in Hart
    BY ZenonT(40), AlwaysType DEF IndInv, Reset
  <1>3. /\ xwre' \in BOOLEAN /\ xbrk' \in BOOLEAN /\ xexc' \in BOOLEAN /\ mwre' \in BOOLEAN
        /\ {dexc', dcsr', dsub', dbra', djmp', dfn7'} \subseteq BOOLEAN
    BY ZenonT(40) DEF Reset, CtrlReset, DataReset, AsluReset, BackReset
  <1>4. InstTypeOK' /\ CtrlTypeOK' /\ DataTypeOK'
    BY SMTT(40), <1>1, <1>2, <1>3 DEF Reset, InstReset, CtrlReset, DataReset,
                            InstTypeOK, CtrlTypeOK, DataTypeOK, BUBBLE, XVal
  <1>5. AsluTypeOK' /\ CsrTypeOK' /\ BackTypeOK'
    BY <1>1, <1>3 DEF Reset, AsluReset, BackReset, AsluTypeOK, CsrTypeOK, BackTypeOK,
                      BUBBLE, XVal, XPC
  <1>6. ResetInv'
    <2>1. rd0d' = 0 /\ mwre' /\ mrd' = 0 /\ fhart' = 0 /\ depc' = 0
      BY DEF Reset, InstReset, CtrlReset, AsluReset, BackReset, rd0d, BUBBLE
    <2>2. ena' = FALSE /\ rst' = (IF sys_rst THEN 15 ELSE (2 * rst) % 16)
      BY ZenonT(40) DEF Reset, Always, SyscEdge
    <2>3. /\ hart' = IF sys_rst THEN 0 ELSE NextHart(hart)
          /\ dhart' = IF sys_rst THEN 3 ELSE 3 - NextHart(hart)
      BY SMTT(40) DEF Reset, Always, HartEdge
    <2>4. /\ \A h \in Hart : rRAM[h][0] = 0 => rRAM'[h][0] = 0
          /\ mwre /\ mrd = 0 => rRAM'[hart][0] = 0
      BY ZeroKept DEF IndInv, ResetInv, Reset, Always
    <2>5. dhart' = 3 - hart'
      BY SMTT(40), <2>3
    <2>6. CASE sys_rst
      BY SMTT(40), <2>1, <2>2, <2>3, <2>5, <2>6 DEF ResetInv, Cleared
    <2>7. CASE ~sys_rst
      <3>1. CASE rst = 15 /\ hart = 0
        BY SMTT(40), <2>1, <2>2, <2>3, <2>5, <2>7, <3>1 DEF ResetInv, Cleared, NextHart
      <3>2. CASE rst = 14 /\ hart = 1
        BY SMTT(40), <2>1, <2>2, <2>3, <2>4, <2>5, <2>7, <3>2 DEF IndInv, ResetInv, Cleared, NextHart, Hart
      <3>3. CASE rst = 12 /\ hart = 3 /\ rRAM[1][0] = 0
        BY SMTT(40), <2>1, <2>2, <2>3, <2>4, <2>5, <2>7, <3>3 DEF IndInv, ResetInv, Cleared, NextHart, Hart
      <3>4. CASE rst = 8 /\ hart = 2 /\ rRAM[1][0] = 0 /\ rRAM[3][0] = 0
        BY SMTT(40), <2>1, <2>2, <2>3, <2>4, <2>5, <2>7, <3>4 DEF IndInv, ResetInv, Cleared, NextHart, Hart
      <3>5. ResetInv /\ srst
        BY DEF IndInv, Reset
      <3>6. rst # 0
        BY SMTT(40), <3>5 DEF srst
      <3> QED
        BY ZenonT(40), <3>1, <3>2, <3>3, <3>4, <3>5, <3>6 DEF ResetInv
    <2> QED
      BY SMTT(40), <2>6, <2>7
  <1>7. DecodeInv'
    BY SMTT(40), <1>1 DEF Reset, CtrlReset, BackReset, DecodeInv, BUBBLE, Opcodes
  <1>8. ExecuteInv'
    BY SMTT(40), <1>1 DEF Reset, DataReset, AsluReset, BackReset, ExecuteInv, BUBBLE, Opcodes, rd0d
  <1> QED
    BY SMTT(40), <1>2, <1>4, <1>5, <1>6, <1>7, <1>8 DEF IndInv, TypeOK

\* An edge at which the pipeline is held preserves it.
LEMMA StallStep ==
    ASSUME IndInv, NEW sys_rst \in BOOLEAN, NEW sys_ena \in BOOLEAN, NEW dwb_ack \in BOOLEAN,
           Stall(sys_rst, sys_ena, dwb_ack)
    PROVE  IndInv'
  <1>1. SyscTypeOK' /\ GprfTypeOK' /\ hart' \in Hart /\ dhart' \in Hart
    BY ZenonT(40), AlwaysType DEF IndInv, Stall
  <1>2. InstTypeOK' /\ CtrlTypeOK' /\ DataTypeOK'
    BY SMTT(40), <1>1 DEF IndInv, TypeOK, Stall, InstHold, CtrlHold, DataHold, ctrlVars, dataVars,
                InstTypeOK, CtrlTypeOK, DataTypeOK
  <1>3. AsluTypeOK' /\ CsrTypeOK' /\ BackTypeOK'
    BY DEF IndInv, TypeOK, Stall, AsluHold, BackHold, asluVars, csrVars, backVars,
           AsluTypeOK, CsrTypeOK, BackTypeOK
  <1>4. ResetInv'
    <2>1. /\ fhart' = fhart /\ depc' = depc /\ mwre' = mwre /\ mrd' = mrd /\ rd0d' = rd0d
      BY SMTT(40) DEF Stall, InstHold, CtrlHold, AsluHold, BackHold, ctrlVars, asluVars, backVars, rd0d
    <2>2. rst = 0 /\ ena' /\ rst' = (IF sys_rst THEN 15 ELSE 0)
      <3>1. rst = 0
        BY DEF IndInv, ResetInv, Stall, srst
      <3>2. ena' /\ rst' = (IF sys_rst THEN 15 ELSE (2 * rst) % 16)
        BY ZenonT(40) DEF Stall, Always, SyscEdge
      <3> QED
        BY SMTT(40), <3>1, <3>2
    <2>3. /\ hart' = IF sys_rst THEN 0 ELSE hart
          /\ dhart' = IF sys_rst THEN 3 ELSE dhart
      BY SMTT(40) DEF Stall, Always, HartEdge
    <2>4. /\ \A h \in Hart : rRAM[h][0] = 0 => rRAM'[h][0] = 0
          /\ mwre /\ mrd = 0 => rRAM'[hart][0] = 0
      BY SMTT(40), ZeroKept DEF IndInv, ResetInv, Stall, Always
    <2>5. CASE sys_rst
      BY SMTT(40), <2>1, <2>2, <2>3, <2>5 DEF IndInv, ResetInv, Cleared
    <2>6. CASE ~sys_rst /\ ~ena
      BY SMTT(40), <2>1, <2>2, <2>3, <2>4, <2>6 DEF IndInv, ResetInv, Cleared, Hart
    <2>7. CASE ~sys_rst /\ ena
      BY SMTT(40), <2>1, <2>2, <2>3, <2>4, <2>7 DEF IndInv, ResetInv, Cleared
    <2> QED
      BY SMTT(40), <2>5, <2>6, <2>7
  <1>5. DecodeInv'
    BY SMTT(40) DEF IndInv, DecodeInv, Stall, CtrlHold, BackHold, ctrlVars, backVars
  <1>6. ExecuteInv'
    BY DEF IndInv, ExecuteInv, Stall, DataHold, AsluHold, BackHold,
           dataVars, asluVars, backVars, rd0d
  <1> QED
    BY SMTT(40), <1>1, <1>2, <1>3, <1>4, <1>5, <1>6 DEF IndInv, TypeOK
=============================================================================
