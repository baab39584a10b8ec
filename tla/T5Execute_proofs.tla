-------------------------- MODULE T5Execute_proofs --------------------------
(***************************************************************************)
(* The execute stage, the CSRs, the traps and write-back: types, and which *)
(* values are known when the pipeline advances.                            *)
(***************************************************************************)
EXTENDS T5Decode_proofs

\* What a CSR reads as: a word, whenever the number of the CSR is known.
LEMMA RcsrType ==
    ASSUME CsrTypeOK, NEW n \in Csr \cup {X}, NEW h \in Hart, NEW rcsr \in Rcsr(n, h)
    PROVE  rcsr \in XVal /\ (n # X => rcsr \in Val)
  <1>1. h \in Val /\ 0 \in Val /\ mcause \in Val /\ 4 * (mepc \div 4) \in Val
    BY Sizes DEF CsrTypeOK, Hart, Val
  <1>2. 1073742080 % M \in Val
    BY Sizes DEF Val
  <1>3. MPIE \in Val /\ MIE \in Val
    BY StatusAssumption
  <1>4. \A p, e \in {0, 1} : (6144 + p * MPIE + e * MIE) % M \in Val
    BY <1>3, Sizes DEF Val
  <1>5. Known(mtval, Val) \subseteq Val
    BY DEF Known, CsrTypeOK, XVal
  <1>6. Known(mpie, {0, 1}) \subseteq {0, 1} /\ Known(mie, {0, 1}) \subseteq {0, 1}
    BY DEF Known, CsrTypeOK
  <1>7. {(6144 + p * MPIE + e * MIE) % M :
            p \in Known(mpie, {0, 1}), e \in Known(mie, {0, 1})} \subseteq Val
    BY SMTT(40), <1>4, <1>6
  <1> QED
    BY SMTT(40), <1>1, <1>2, <1>3, <1>5, <1>7 DEF Rcsr, CsrTypeOK, XVal

\* The value a CSR instruction writes is a word.
LEMMA WcsrType ==
    ASSUME CtrlTypeOK, NEW rcsr \in XVal
    PROVE  /\ Wcsr(rcsr) \in XVal
           /\ dfn3 % 4 # 0 /\ dzim # X /\ rcsr # X => Wcsr(rcsr) \in Val
  <1>1. dzim \in XVal /\ (dzim # X => dzim \in Val)
    BY SMTT(40), RegAssumption, Sizes DEF CtrlTypeOK, XVal, Val, M
  <1>2. dop1 \in Val /\ dfn3 \in 0..7
    BY DEF CtrlTypeOK
  <1>3. \A a, b \in Val : Or(a, b) \in Val /\ AndNot(a, b) \in Val
    BY BitwiseType
  <1>4. X \notin Val
    BY UnknownAssumption
  <1> DEFINE mask == IF dfn3 >= 4 THEN dzim ELSE dop1
  <1>5. mask \in XVal /\ (dzim # X => mask \in Val)
    BY <1>1, <1>2 DEF XVal
  <1>6. Wcsr(rcsr) = CASE dfn3 % 4 = 1 -> mask
          [] dfn3 % 4 = 2 /\ rcsr # X /\ mask # X -> Or(rcsr, mask)
          [] dfn3 % 4 = 3 /\ rcsr # X /\ mask # X -> AndNot(rcsr, mask)
          [] OTHER -> X
    BY DEF Wcsr
  <1> HIDE DEF mask
  <1> QED
    BY SMTT(40), <1>2, <1>3, <1>4, <1>5, <1>6 DEF XVal

\* A bit of that value.
LEMMA WBitType ==
    ASSUME NEW wcsr \in XVal, NEW n \in Val
    PROVE  WBit(wcsr, n) \in {0, 1, X}
  BY DEF WBit, ToNat

\* The execute stage: an access neither branches nor traps through xbra, and
\* a taken branch is a branch or a jump.
LEMMA BranchStep ==
    ASSUME IndInv, NEW rcsr, AsluAdvance(rcsr)
    PROVE  /\ xbra' \in 0..3
           /\ dopc \in {0, 8} => xbra' = 0
           /\ xbra' = 2 => dopc \in {24, 25, 27}
  <1>1. /\ dopc \in Opcodes /\ (dexc => dopc = 28) /\ (dbra => dopc = 24)
        /\ djmp => dopc \in {25, 27}
    BY SMTT(40) DEF IndInv, DecodeInv
  <1>2. xbra' = 2 * ToNat(wbra \/ (dexc /\ ~isret)) + ToNat(balign \/ dexc)
    BY SMTT(40) DEF AsluAdvance
  <1>3. wbra => dopc \in {24, 25, 27}
    BY SMTT(40), <1>1, OpcodeTypes DEF wbra
  <1>4. balign => dopc \in {24, 25, 27}
    BY <1>1 DEF balign
  <1>5. dopc \in {0, 8} => ~wbra /\ ~balign /\ ~dexc
    BY SMTT(40), <1>1, <1>3, <1>4
  <1> QED
    BY SMTT(40), <1>2, <1>3, <1>5 DEF ToNat

\* The execute stage: types, and which results are known.
LEMMA ExecuteStep ==
    ASSUME IndInv, NEW rcsr \in Rcsr(dcsn, dhart), AsluAdvance(rcsr)
    PROVE  /\ AsluTypeOK'
           /\ xbpc' = X => dopc = 28
           /\ dopc = 28 => xcsr' # X
           /\ dopc \in {4, 12} => xalu' # X
           /\ dfn3 % 4 # 3 => xdat' # X
  <1>1. /\ dop1 \in Val /\ dop2 \in Val /\ dfn3 \in 0..7 /\ dopc \in 0..31
        /\ dcsn \in Csr \cup {X} /\ dhart \in Hart /\ CsrTypeOK
    BY SMTT(40) DEF IndInv, TypeOK, CtrlTypeOK, InstTypeOK
  <1>2. dsub \in BOOLEAN /\ dfn7 \in BOOLEAN /\ dexc \in BOOLEAN
    BY SMTT(40) DEF IndInv, TypeOK, CtrlTypeOK
  <1>3. xadd \in 0 .. 2 * M - 1 /\ xadd % M \in Val
    BY SMTT(40), <1>1, <1>2, XaddType DEF xadd
  <1>4. xmov' \in Val /\ xdat' \in XVal /\ (dfn3 % 4 # 3 => xdat' # X)
    BY SMTT(40), <1>1, <1>3, XdatType, UnknownAssumption DEF AsluAdvance
  <1>5. xalu' \in XVal /\ (dopc \in {4, 12} => xalu' # X)
    <2>1. dopc \in {4, 12} /\ dfn3 = 1 => ~dfn7
      BY SMTT(40) DEF IndInv, DecodeInv
    <2> QED
      BY SMTT(40), <1>1, <1>2, <1>3, <2>1, XaluType, UnknownAssumption DEF AsluAdvance
  <1>6. xcsr' \in XVal /\ (dopc = 28 => xcsr' # X)
    <2>1. dopc = 28 => dcsn # X
      BY DEF IndInv, DecodeInv
    <2> QED
      BY SMTT(40), <1>1, <2>1, RcsrType, UnknownAssumption DEF AsluAdvance
  <1>7. xbpc' \in XPC /\ (xbpc' = X => dopc = 28)
    <2>1. mepc \div 4 \in PC
      BY SMTT(40), <1>1, Sizes DEF CsrTypeOK, Val, PC
    <2>2. xbpc' = IF isret THEN mepc \div 4 ELSE IF xadr = X THEN X ELSE xadr \div 4
      BY SMTT(40) DEF AsluAdvance
    <2>3. X \notin PC
      BY UnknownAssumption, Sizes DEF PC, Val
    <2> QED
      BY SMTT(40), <2>1, <2>2, <2>3, AddressType DEF XPC
  <1>8. xoff' \in Lane \cup {X}
    <2>1. \A b \in BOOLEAN : 2 * ToNat(b) \in Lane
      BY SMTT(40) DEF ToNat, Lane
    <2> QED
      BY ZenonT(40), <2>1, AddressType DEF AsluAdvance, Bit
  <1>9. xbrk' \in BOOLEAN /\ xexc' \in BOOLEAN
    BY SMTT(40), <1>2 DEF AsluAdvance, Bit
  <1>10. malu' \in XVal
    <2>1. /\ xmov \in Val /\ xalu \in XVal /\ xcsr \in XVal /\ xpc \in PC /\ xbpc \in XPC
      BY SMTT(40) DEF IndInv, TypeOK, AsluTypeOK, CtrlTypeOK
    <2>2. 4 * xpc \in Val /\ (xbpc # X => 4 * xbpc \in Val)
      BY SMTT(40), <2>1, Sizes DEF XPC, PC, Val
    <2> QED
      BY SMTT(40), <2>1, <2>2 DEF AsluAdvance, Malu, XVal
  <1>11. xopc' \in 0..31 /\ xfn3' \in 0..7 /\ xbra' \in 0..3
    BY SMTT(40), <1>1, BranchStep DEF AsluAdvance
  <1> QED
    BY SMTT(40), <1>4, <1>5, <1>6, <1>7, <1>8, <1>9, <1>10, <1>11 DEF AsluTypeOK

\* The CSRs: only a CSR instruction, whose operand is known, writes a CSR, and
\* the two sources of a trap exclude each other.
LEMMA CsrStep ==
    ASSUME IndInv, NEW rcsr \in Rcsr(dcsn, dhart), AsluAdvance(rcsr)
    PROVE  CsrTypeOK'
  <1> DEFINE w == Wcsr(rcsr)
  <1>1. CtrlTypeOK /\ CsrTypeOK /\ dcsn \in Csr \cup {X} /\ dhart \in Hart
    BY SMTT(40) DEF IndInv, TypeOK, CtrlTypeOK, InstTypeOK
  <1>2. w \in XVal
    BY SMTT(40), <1>1, RcsrType, WcsrType
  <1>3. dcsr => w \in Val
    <2>1. dcsr => dfn3 % 4 # 0 /\ dcsn # X /\ dzim # X
      BY SMTT(40) DEF IndInv, DecodeInv
    <2>2. dcsr => rcsr \in Val
      BY SMTT(40), <1>1, <2>1, RcsrType
    <2> QED
      BY SMTT(40), <1>1, <2>1, <2>2, WcsrType, UnknownAssumption DEF XVal
  <1>4. \A n : writes(n) => w \in Val
    BY SMTT(40), <1>3 DEF writes
  <1>5. ~(trap /\ misaligned)
    BY SMTT(40) DEF IndInv, ExecuteInv, trap, misaligned
  <1>6. CsrWrite(w) /\ TrapEdge(w)
    BY SMTT(40) DEF AsluAdvance
  <1> HIDE DEF w
  <1>7. medeleg' \in Val /\ mscratch' \in Val /\ mtvec' \in Val
    BY SMTT(40), <1>1, <1>4, <1>6 DEF CsrWrite, CsrTypeOK
  <1>8. 4 * xepc \in Val
    BY SMTT(40), <1>1, Sizes DEF CtrlTypeOK, PC, Val
  <1>9. mepc' \in Val
    <2> DEFINE s == writes(CSR_MEPC)
    <2>1. mepc' = CASE (trap \/ s) /\ (misaligned \/ s) -> w
                    [] (trap \/ s) # (misaligned \/ s) -> 4 * xepc
                    [] OTHER -> mepc
      BY SMTT(40), <1>6 DEF TrapEdge
    <2>2. s => w \in Val
      BY <1>4
    <2> HIDE DEF s
    <2>3. mepc' \in {4 * xepc, mepc} \/ (s /\ mepc' = w)
      BY SMTT(40), <1>5, <2>1
    <2> QED
      BY SMTT(40), <1>1, <1>8, <2>2, <2>3 DEF CsrTypeOK
  <1>10. mtval' \in XVal
    <2> DEFINE fault == IF xbpc = X \/ xoff = X THEN X ELSE 4 * xbpc + xoff
               s == writes(CSR_MTVAL)
    <2>1. xbpc \in XPC /\ xoff \in Lane \cup {X}
      BY SMTT(40) DEF IndInv, TypeOK, AsluTypeOK
    <2>2. fault \in XVal
      BY SMTT(40), <2>1, Sizes DEF XPC, PC, Lane, Val, XVal
    <2>3. mtval' = CASE (trap \/ s) /\ (misaligned \/ s) -> w
                     [] (trap \/ s) # (misaligned \/ s) -> fault
                     [] OTHER -> mtval
      BY <1>6 DEF TrapEdge
    <2> HIDE DEF fault, s
    <2>4. mtval' \in {w, fault, mtval}
      BY SMTT(40), <2>3
    <2> QED
      BY SMTT(40), <1>1, <1>2, <2>2, <2>4 DEF CsrTypeOK
  <1>11. mcause' \in 0..15
    <2> DEFINE s == writes(CSR_MCAUSE)
    <2>1. mcause' = CASE ~xexc /\ (trap \/ s) /\ (misaligned \/ s) -> w % 16
                      [] ~xexc /\ (trap \/ s) /\ ~(misaligned \/ s) -> 0
                      [] xexc /\ (trap \/ s) /\ ~(misaligned \/ s) ->
                             IF xbrk THEN 3 ELSE 11
                      [] ~xexc /\ ~(trap \/ s) /\ (misaligned \/ s) ->
                             4 + 2 * ToNat(xwre)
                      [] OTHER -> mcause
      BY SMTT(40), <1>6 DEF TrapEdge
    <2>2. s => w \in Val
      BY <1>4
    <2> HIDE DEF s
    <2>3. \/ mcause' \in {0, 3, 11, 4, 6, mcause}
          \/ s /\ mcause' = w % 16
      BY SMTT(40), <1>5, <2>1 DEF ToNat
    <2>4. s => w % 16 \in 0..15
      BY SMTT(40), <2>2, Sizes DEF Val
    <2> QED
      BY SMTT(40), <1>1, <2>3, <2>4 DEF CsrTypeOK
  <1>12. mie' \in {0, 1, X} /\ mpie' \in {0, 1, X}
    <2>1. WBit(w, MPIE) \in {0, 1, X} /\ WBit(w, MIE) \in {0, 1, X}
      BY SMTT(40), <1>2, WBitType, StatusAssumption
    <2>2. mie \in {0, 1, X} /\ mpie \in {0, 1, X}
      BY SMTT(40), <1>1 DEF CsrTypeOK
    <2>3. mie' \in {0, mpie, WBit(w, MIE)} /\ mpie' \in {1, mie, WBit(w, MPIE)}
      BY SMTT(40), <1>6 DEF TrapEdge
    <2> QED
      BY SMTT(40), <2>1, <2>2, <2>3
  <1> QED
    BY SMTT(40), <1>7, <1>9, <1>10, <1>11, <1>12 DEF CsrTypeOK

\* The write-back stage: a result that is written is known.
LEMMA WriteBackStep ==
    ASSUME IndInv, NEW i \in Instr, NEW dti \in Val, NEW rcsr,
           BackAdvance(i, dti), AsluAdvance(rcsr)
    PROVE  BackTypeOK' /\ (mwre' => rd0d' # X)
  <1>1. i.rd \in Reg
    BY SMTT(40), InstrAssumption DEF Supported, Word
  <1>2. /\ xopc \in 0..31 /\ xopc \in Opcodes /\ xfn3 \in 0..7 /\ xsel \in LaneSets
        /\ drd \in Reg /\ xrd \in Reg
    BY SMTT(40) DEF IndInv, TypeOK, AsluTypeOK, BackTypeOK, ExecuteInv, LaneSets
  <1>3. dext' \in XVal /\ (xsel # {} => dext' \in Val)
    BY SMTT(40), <1>2, DextType DEF BackAdvance
  <1>4. mwre' \in BOOLEAN
    BY SMTT(40) DEF BackAdvance, stype, btype, misaligned
  <1>5. mopc' = xopc /\ drd' = i.rd /\ xrd' = drd /\ mrd' = xrd
    BY SMTT(40) DEF BackAdvance
  <1>6. BackTypeOK'
    BY SMTT(40), <1>1, <1>2, <1>3, <1>4, <1>5 DEF BackTypeOK
  <1>7. ASSUME mwre' PROVE rd0d' # X
    <2>1. xstb # 3 /\ xopc \in {0, 4, 5, 12, 13, 25, 27, 28}
      <3>1. xstb # 3 /\ xrd # 0 /\ ~stype(xopc) /\ ~btype(xopc)
        BY ZenonT(40), <1>7 DEF BackAdvance, misaligned
      <3>2. xopc # 3
        BY SMTT(40), <3>1 DEF IndInv, ExecuteInv
      <3>3. xopc # 8 /\ xopc # 24
        BY SMTT(40), <1>2, <3>1, OpcodeTypes
      <3> QED
        BY SMTT(40), <1>2, <3>1, <3>2, <3>3 DEF Opcodes
    <2>2. CASE xopc = 0
      <3>1. xsel # {}
        BY SMTT(40), <2>1, <2>2 DEF IndInv, TypeOK, DataTypeOK, ExecuteInv
      <3>2. rd0d' = dext'
        BY SMTT(40), <1>5, <2>2 DEF rd0d
      <3> QED
        BY SMTT(40), <1>3, <3>1, <3>2, UnknownAssumption
    <2>3. CASE xopc # 0
      <3>1. rd0d' = Malu
        BY SMTT(40), <1>5, <2>3 DEF rd0d, AsluAdvance
      <3>2. xmov \in Val /\ 4 * xpc \in Val /\ (xbpc # X => 4 * xbpc \in Val)
        BY SMTT(40), Sizes DEF IndInv, TypeOK, AsluTypeOK, CtrlTypeOK, XPC, PC, Val
      <3>3. /\ xopc # 28 => xbpc # X
            /\ xopc = 28 => xcsr # X
            /\ xopc \in {4, 12} => xalu # X
        BY SMTT(40) DEF IndInv, ExecuteInv
      <3>4. /\ xopc = 13 => Malu = xmov
            /\ xopc \in {25, 27} => Malu = 4 * xpc
            /\ xopc = 5 => Malu = 4 * xbpc
            /\ xopc \in {4, 12} => Malu = xalu
            /\ xopc = 28 => Malu = xcsr
        BY <3>3 DEF Malu
      <3> QED
        BY SMTT(40), <2>1, <2>3, <3>1, <3>2, <3>3, <3>4, UnknownAssumption
    <2> QED
      BY SMTT(40), <2>2, <2>3
  <1> QED
    BY SMTT(40), <1>6, <1>7
=============================================================================
