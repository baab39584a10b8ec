-------------------------- MODULE T5Decode_proofs ---------------------------
(***************************************************************************)
(* The decode stage and the data bus: what a supported word makes of the   *)
(* operands, the control bits and the byte lanes, and what address is      *)
(* fetched next.                                                           *)
(***************************************************************************)
EXTENDS T5Rv32i, T5Alu_proofs

\* The format decoder on the base opcodes.
LEMMA OpcodeTypes ==
    ASSUME NEW o \in Opcodes
    PROVE  /\ btype(o) <=> o = 24
           /\ stype(o) <=> o = 8
           /\ jtype(o) <=> o = 27
           /\ itype(o) <=> o \in {0, 4, 25}
           /\ rtype(o) <=> o = 12
           /\ system(o) <=> o = 28
           /\ (~opc6(o) /\ ~opc4(o) /\ ~opc2(o)) <=> o \in {0, 8}
           /\ (opc6(o) /\ opc5(o) /\ ~opc4(o)) <=> o \in {24, 25, 27}
           /\ opc2(o) <=> o \in {3, 5, 13, 25, 27}
           /\ (itype(o) /\ opc6(o)) <=> o = 25
  BY DEF Opcodes, btype, stype, jtype, itype, rtype, system,
         opc6, opc5, opc4, opc3, opc2, Bit

\* The hart counter is a cycle of four in which dhart is two steps away.
LEMMA HartRing ==
    ASSUME NEW h \in Hart
    PROVE  /\ NextHart(h) \in Hart /\ PrevHart(h) \in Hart /\ 3 - h \in Hart
           /\ PrevHart(NextHart(h)) = h
           /\ NextHart(NextHart(h)) = 3 - h
           /\ 3 - NextHart(h) = NextHart(3 - h)
  BY DEF Hart, NextHart, PrevHart

\* The operands of the decode stage are words, except for the sum of a SYSTEM
\* instruction.
LEMMA OperandTypes ==
    ASSUME NEW i \in Word, NEW pc \in PC, NEW rs1d \in Val, NEW rs2d \in Val
    PROVE  /\ DCp1(i, pc, rs1d) \in Val
           /\ DCp2(i) \in XVal
           /\ ~system(i.opc) => DCp2(i) \in Val
           /\ DOp1(i, rs1d) \in Val
           /\ DOp2(i, rs2d) \in Val
           /\ DSub(i) \in BOOLEAN /\ DJmp(i) \in BOOLEAN
           /\ btype(i.opc) \in BOOLEAN /\ etype(i) \in BOOLEAN /\ ctype(i) \in BOOLEAN
  <1>1. i.imm \in Val /\ 4 * pc \in Val /\ 0 \in Val
    BY Sizes DEF Word, PC, Val
  <1>2. DCp1(i, pc, rs1d) \in Val
    BY <1>1 DEF DCp1
  <1>3. DCp2(i) \in XVal /\ (~system(i.opc) => DCp2(i) \in Val)
    BY <1>1 DEF DCp2, XVal
  <1>4. DOp1(i, rs1d) \in Val /\ DOp2(i, rs2d) \in Val
    BY <1>1 DEF DOp1, DOp2
  <1>5. /\ DSub(i) \in BOOLEAN /\ DJmp(i) \in BOOLEAN
        /\ btype(i.opc) \in BOOLEAN /\ etype(i) \in BOOLEAN /\ ctype(i) \in BOOLEAN
    BY DEF DSub, DJmp, btype, etype, ctype
  <1> QED
    BY SMTT(40), <1>2, <1>3, <1>4, <1>5

\* The next fetch address is known: only a taken branch uses xbpc.
LEMMA FetchAdrType ==
    ASSUME IndInv
    PROVE  FetchAdr(xbra, xstb, mtvec, mepc, xbpc, xpc) \in PC
  <1>1. mtvec \div 4 \in PC /\ mepc \div 4 \in PC /\ xpc \in PC
    BY SMTT(40), Sizes DEF IndInv, TypeOK, CsrTypeOK, CtrlTypeOK, Val, PC
  <1>2. xbra = 2 => xbpc \in PC
    BY DEF IndInv, TypeOK, AsluTypeOK, ExecuteInv, XPC
  <1> QED
    BY SMTT(40), <1>1, <1>2 DEF FetchAdr

\* The decode stage.
LEMMA DecodeStep ==
    ASSUME IndInv, NEW i \in Instr, drd' = i.rd,
           CtrlAdvance(i, fpc, rRAM[fhart][i.rs1], rRAM[fhart][i.rs2])
    PROVE  CtrlTypeOK' /\ DecodeInv'
  <1> DEFINE rs1d == rRAM[fhart][i.rs1]
             rs2d == rRAM[fhart][i.rs2]
  <1>1. Supported(i) /\ i \in Word
    BY InstrAssumption DEF Supported
  <1>2. i.opc \in 0..31 /\ i.fn3 \in 0..7 /\ i.b30 \in BOOLEAN
    BY <1>1 DEF Word
  <1>3. i.rs1 \in Reg /\ i.rs2 \in Reg /\ i.csr \in Csr
    BY SMTT(40), <1>1 DEF Word
  <1>4. rs1d \in Val /\ rs2d \in Val /\ fpc \in PC
    BY SMTT(40), <1>3 DEF IndInv, TypeOK, GprfTypeOK, InstTypeOK
  <1> HIDE DEF rs1d, rs2d
  <1>5. /\ DCp1(i, fpc, rs1d) \in Val
        /\ DCp2(i) \in XVal
        /\ ~system(i.opc) => DCp2(i) \in Val
        /\ DOp1(i, rs1d) \in Val
        /\ DOp2(i, rs2d) \in Val
    BY SMTT(40), <1>1, <1>4, OperandTypes
  <1>6. {dexc', dcsr', dsub', dbra', djmp'} \subseteq BOOLEAN
    BY ZenonT(40), <1>1, <1>4, OperandTypes DEF CtrlAdvance
  <1>7. (fpc + 1) % WORDS \in PC
    BY SMTT(40), <1>4, Sizes DEF PC
  <1>8. CtrlTypeOK /\ DecodeInv
    BY SMTT(40) DEF IndInv, TypeOK
  <1>9. CASE i.rv32
    <2>1. dcp1' = DCp1(i, fpc, rs1d) /\ dop1' = DOp1(i, rs1d) /\ dop2' = DOp2(i, rs2d)
      BY SMTT(40), <1>9 DEF CtrlAdvance, rs1d, rs2d
    <2>2. /\ dcp2' = DCp2(i)
          /\ dcsn' = IF system(i.opc) THEN i.csr ELSE X
          /\ dzim' = IF system(i.opc) THEN i.rs1 ELSE X
          /\ dopc' = i.opc /\ dfn3' = i.fn3
      BY SMTT(40), <1>9 DEF CtrlAdvance
    <2>3. xpc' = dpc /\ dpc' = (fpc + 1) % WORDS /\ xepc' = depc /\ depc' = fpc
      BY SMTT(40), <1>9 DEF CtrlAdvance
    <2>4. dfn7' = i.b30
      BY SMTT(40), <1>9 DEF CtrlAdvance
    <2>5. CtrlTypeOK'
      <3>1. {dexc', dcsr', dsub', dbra', djmp', dfn7'} \subseteq BOOLEAN
        BY SMTT(40), <1>2, <1>6, <2>4
      <3>2. dop1' \in Val /\ dop2' \in Val /\ dcp1' \in Val /\ dcp2' \in XVal
        BY SMTT(40), <1>5, <2>1, <2>2
      <3>3. dcsn' \in Csr \cup {X} /\ dzim' \in Reg \cup {X}
        BY SMTT(40), <1>3, <2>2
      <3>4. dopc' \in 0..31 /\ dfn3' \in 0..7
        BY SMTT(40), <1>2, <2>2
      <3>5. dpc' \in PC /\ xpc' \in PC /\ depc' \in PC /\ xepc' \in PC
        BY SMTT(40), <1>4, <1>7, <1>8, <2>3 DEF CtrlTypeOK
      <3> QED
        BY SMTT(40), <3>1, <3>2, <3>3, <3>4, <3>5 DEF CtrlTypeOK
    <2>6. /\ i.opc \in Opcodes
          /\ i.opc = 3 => i.rd = 0
          /\ i.opc \in {4, 12} /\ i.fn3 = 1 => ~i.b30
      BY SMTT(40), <1>1, <1>9 DEF Supported
    <2>7. /\ system(i.opc) <=> i.opc = 28
          /\ btype(i.opc) <=> i.opc = 24
          /\ DJmp(i) <=> i.opc \in {25, 27}
      BY SMTT(40), <2>6, OpcodeTypes DEF DJmp
    <2>8. /\ dexc' => i.opc = 28
          /\ dcsr' => i.opc = 28 /\ i.fn3 % 4 # 0
          /\ dbra' => i.opc = 24
          /\ djmp' => i.opc \in {25, 27}
      BY ZenonT(40), <2>7 DEF CtrlAdvance, etype, ctype
    <2>9. dopc' = 28 => dcsn' # X /\ dzim' # X
      <3>1. dopc' = 28 => dcsn' = i.csr /\ dzim' = i.rs1
        BY SMTT(40), <2>2, <2>7
      <3> QED
        BY SMTT(40), <1>3, <3>1, UnknownAssumption
    <2>10. dcp2' = X => dopc' = 28
      BY SMTT(40), <1>5, <2>2, <2>7, UnknownAssumption
    <2> QED
      BY SMTT(40), <2>2, <2>4, <2>5, <2>6, <2>8, <2>9, <2>10 DEF DecodeInv
  <1>10. CASE ~i.rv32
    <2>1. UNCHANGED <<dcp1, dcp2, dop1, dop2, dcsn, dzim, dopc, dfn3, dfn7,
                      xpc, dpc, xepc, depc>>
      BY SMTT(120), <1>10 DEF CtrlAdvance
    <2>2. CtrlTypeOK'
      <3>1. {dexc', dcsr', dsub', dbra', djmp', dfn7'} \subseteq BOOLEAN
        BY SMTT(40), <1>6, <1>8, <2>1 DEF CtrlTypeOK
      <3> QED
        BY SMTT(40), <1>8, <2>1, <3>1 DEF CtrlTypeOK
    <2>3. i.rd = 0 /\ ~btype(i.opc) /\ ~DJmp(i) /\ ~system(i.opc)
      BY SMTT(40), <1>1, <1>10 DEF Supported
    <2>4. ~dexc' /\ ~dcsr' /\ ~dbra' /\ ~djmp'
      BY ZenonT(40), <2>3 DEF CtrlAdvance, etype, ctype
    <2> QED
      BY ZenonT(40), <1>8, <2>1, <2>2, <2>3, <2>4 DEF DecodeInv
  <1> QED
    BY SMTT(40), <1>9, <1>10

\* The effective address and its parts.
LEMMA AddressType ==
    ASSUME IndInv
    PROVE  /\ xadr \in XVal /\ Off \in Lane \cup {X}
           /\ xadr = X => dopc = 28
           /\ xadr # X => xadr \in Val /\ xadr \div 4 \in PC /\ xadr % 4 \in Lane
  <1>1. dcp1 \in Val /\ dcp2 \in XVal /\ (dcp2 = X => dopc = 28)
    BY SMTT(40) DEF IndInv, TypeOK, CtrlTypeOK, DecodeInv
  <1>2. CASE dcp2 = X
    BY SMTT(40), <1>1, <1>2 DEF xadr, Off, XVal
  <1>3. CASE dcp2 # X
    <2>1. dcp2 \in Val
      BY SMTT(40), <1>1, <1>3 DEF XVal
    <2>2. (dcp1 + dcp2) % M \in Val /\ (dcp1 + dcp2) % 4 \in Lane
      BY SMTT(40), <1>1, <2>1, Sizes DEF Val, Lane
    <2>3. xadr \in Val /\ Off \in Lane
      BY SMTT(40), <1>3, <2>2 DEF xadr, Off
    <2>4. xadr \div 4 \in PC /\ xadr % 4 \in Lane
      BY SMTT(40), <2>3, Sizes DEF Val, PC, Lane
    <2> QED
      BY <2>3, <2>4, UnknownAssumption DEF XVal
  <1> QED
    BY SMTT(40), <1>2, <1>3

\* The data bus: types, lanes, and which opcodes access memory.
LEMMA DataStep ==
    ASSUME IndInv, DataAdvance
    PROVE  /\ DataTypeOK'
           /\ xsel' \in LaneSets
           /\ xstb' >= 2 <=> dopc \in {0, 8}
           /\ xstb' = 2 => xsel' # {} /\ dfn3 % 4 # 3
           /\ xstb' = 3 => xsel' = {}
  <1> DEFINE sel == Xsel(dfn3, Off)
             acc == ~opc6(dopc) /\ ~opc4(dopc) /\ ~opc2(dopc)
  <1>1. dfn3 \in 0..7 /\ dopc \in Opcodes
    BY SMTT(40) DEF IndInv, TypeOK, CtrlTypeOK, DecodeInv
  <1>2. sel \in LaneSets /\ (dfn3 % 4 = 3 => sel = {})
    BY SMTT(40), <1>1, AddressType, XselType
  <1>3. acc <=> dopc \in {0, 8}
    BY SMTT(40), <1>1, OpcodeTypes
  <1>4. xsel' = sel /\ xstb' = 2 * ToNat(acc) + ToNat(sel = {})
    BY SMTT(40) DEF DataAdvance
  <1>5. xwre' \in BOOLEAN
    BY DEF DataAdvance, opc5, Bit
  <1> HIDE DEF sel, acc
  <1>6. xstb' \in 0..3 /\ (xstb' >= 2 <=> acc) /\ (xstb' = 2 => sel # {})
        /\ (xstb' = 3 => sel = {})
    BY <1>4 DEF ToNat
  <1>7. sel \in SUBSET Lane
    BY SMTT(40), <1>2 DEF LaneSets, Lane
  <1>8. DataTypeOK'
    BY SMTT(40), <1>4, <1>5, <1>6, <1>7 DEF DataTypeOK
  <1> QED
    BY SMTT(40), <1>2, <1>3, <1>4, <1>6, <1>8
=============================================================================
