------------------------------- MODULE T5Aslu -------------------------------
(***************************************************************************)
(* t5_aslu.v: the execute stage and the machine-mode CSRs.  The execute    *)
(* slot belongs to dhart; the trap logic looks at xbra and xstb and so     *)
(* works for the hart in the memory slot, one behind.  There is one set of *)
(* CSRs for the four harts.                                                *)
(*                                                                         *)
(* xbra is the number {branch, exception}: 2 branch taken, 3 trap, 1 mret. *)
(* xbpc is the word address [31:2]; bit 20 of the sum of an ECALL or       *)
(* EBREAK, which tells the two apart, is the variable xbrk.                *)
(***************************************************************************)
EXTENDS T5Data

CONSTANTS MIE, MPIE      \* weights of mstatus.MIE and MPIE (8 and 128)

VARIABLES xopc, xfn3, xbra, xbpc, xbrk, xoff, xexc,
          xmov, xdat, xalu, xcsr, malu,
          medeleg, mscratch, mtvec, mepc, mcause, mtval, mie, mpie
asluVars == <<xopc, xfn3, xbra, xbpc, xbrk, xoff, xexc, xmov, xdat, xalu, xcsr, malu>>
csrVars == <<medeleg, mscratch, mtvec, mepc, mcause, mtval, mie, mpie>>

ASSUME StatusAssumption == MIE \in Val \ {0} /\ MPIE \in Val \ {0} /\ MIE # MPIE

AsluTypeOK ==
    /\ xopc \in 0..31 /\ xfn3 \in 0..7 /\ xbra \in 0..3 /\ xbpc \in XPC
    /\ xbrk \in BOOLEAN /\ xexc \in BOOLEAN /\ xoff \in Lane \cup {X}
    /\ xmov \in Val /\ xdat \in XVal /\ xalu \in XVal /\ xcsr \in XVal /\ malu \in XVal
CsrTypeOK ==
    /\ medeleg \in Val /\ mscratch \in Val /\ mtvec \in Val /\ mepc \in Val
    /\ mcause \in 0..15 /\ mtval \in XVal /\ mie \in {0, 1, X} /\ mpie \in {0, 1, X}

CSR_MSTATUS == 768
CSR_MISA == 769
CSR_MEDELEG == 770
CSR_MIE == 772
CSR_MTVEC == 773
CSR_MSCRATCH == 832
CSR_MEPC == 833
CSR_MCAUSE == 834
CSR_MTVAL == 835
CSR_MIP == 836
CSR_MHARTID == 3860

\* The values an undefined signal can be read as.
Known(v, S) == IF v = X THEN S ELSE {v}

\* rcsr: the values CSR n can be read as by hart h.
Rcsr(n, h) ==
    CASE n = CSR_MHARTID -> {h}
      [] n = CSR_MISA -> {1073742080 % M}
      [] n = CSR_MSCRATCH -> {mscratch}
      [] n = CSR_MEDELEG -> {medeleg}
      [] n = CSR_MEPC -> {4 * (mepc \div 4)}
      [] n = CSR_MTVAL -> Known(mtval, Val)
      [] n = CSR_MTVEC -> {mtvec}
      [] n \in {CSR_MIE, CSR_MIP} -> {MPIE}
      [] n = CSR_MCAUSE -> {mcause}
      [] n = CSR_MSTATUS -> {(6144 + p * MPIE + e * MIE) % M :
                               p \in Known(mpie, {0, 1}), e \in Known(mie, {0, 1})}
      [] n = X -> {X}
      [] OTHER -> {0}

\* wcsr, computed for every instruction, undefined for most.
Wcsr(rcsr) ==
    LET mask == IF dfn3 >= 4 THEN dzim ELSE dop1
    IN  CASE dfn3 % 4 = 1 -> mask
          [] dfn3 % 4 = 2 /\ rcsr # X /\ mask # X -> Or(rcsr, mask)
          [] dfn3 % 4 = 3 /\ rcsr # X /\ mask # X -> AndNot(rcsr, mask)
          [] OTHER -> X
WBit(wcsr, n) == IF wcsr = X THEN X ELSE ToNat(Bit(wcsr, n))

writes(n) == dcsr /\ dcsn = n                  \* wtval, wepc, wcause, wstatus
xadr == IF dcp2 = X THEN X ELSE (dcp1 + dcp2) % M
xadd == Xadd(dsub, dfn3, dop1, dop2)
xcmp == Xcmp(dfn3, xadd)
isretBit20 == dexc /\ Bit(dcsn, 1)             \* mutant of isret: the wrong bit
isret == dexc /\ Bit(dcsn, 2)                  \* dcp2[21]
wbra == opc6(dopc) /\ opc5(dopc) /\ ~opc4(dopc) /\ (opc2(dopc) \/ xcmp)
\* Mutant of balign: the target of a jump is not looked at.
balignBranch == dbra /\ xcmp /\ xadr % 4 # 0
balign == \/ dbra /\ xcmp /\ xadr % 4 # 0
          \/ djmp /\ Bit(xadr, 2)
trap == xbra = 3                               \* &xbra

(***************************************************************************)
(* Traps.  A misaligned access (xstb) or a trap of xbra saves xepc and the *)
(* faulting address; a CSR write of the hart in the execute slot, at the   *)
(* same edge, takes precedence (mepc, mtval) or is lost with it (mcause).  *)
(* mie and mpie are overwritten at every other edge.                       *)
(***************************************************************************)
TrapEdge(wcsr) ==
    LET taken(w) == trap \/ w
        misal(w) == misaligned \/ w
        wepc == writes(CSR_MEPC)
        wcause == writes(CSR_MCAUSE)
        wtval == writes(CSR_MTVAL)
        fault == IF xbpc = X \/ xoff = X THEN X ELSE 4 * xbpc + xoff
    IN  /\ IF xbra \in {1, 3} /\ ~writes(CSR_MSTATUS)
           THEN IF trap THEN mpie' = mie /\ mie' = 0
                        ELSE mpie' = 1 /\ mie' = mpie
           ELSE mpie' = WBit(wcsr, MPIE) /\ mie' = WBit(wcsr, MIE)
        /\ mepc' = CASE taken(wepc) /\ misal(wepc) -> wcsr
                     [] taken(wepc) # misal(wepc) -> 4 * xepc
                     [] OTHER -> mepc
        /\ mtval' = CASE taken(wtval) /\ misal(wtval) -> wcsr
                      [] taken(wtval) # misal(wtval) -> fault
                      [] OTHER -> mtval
        /\ mcause' = CASE ~xexc /\ taken(wcause) /\ misal(wcause) -> wcsr % 16
                       [] ~xexc /\ taken(wcause) /\ ~misal(wcause) -> 0
                       [] xexc /\ taken(wcause) /\ ~misal(wcause) ->
                              IF xbrk THEN 3 ELSE 11
                       [] ~xexc /\ ~taken(wcause) /\ misal(wcause) ->
                              4 + 2 * ToNat(xwre)
                       [] OTHER -> mcause

AsluReset ==
    /\ xopc' = BUBBLE /\ xfn3' = 0 /\ xbra' = 0 /\ xbpc' = 0 /\ xbrk' = FALSE
    /\ xoff' = 0 /\ xexc' = FALSE
    /\ xmov' = 0 /\ xdat' = 0 /\ xalu' = 0 /\ xcsr' = 0 /\ malu' = 0
    /\ medeleg' = 0 /\ mscratch' = 0 /\ mtvec' = 0
    /\ mepc' = 0 /\ mcause' = 0 /\ mtval' = 0 /\ mie' = 0 /\ mpie' = 0

\* malu: the result of the instruction in the memory slot.
Malu == CASE xopc \in {13, 15} -> xmov                           \* LUI
          [] xopc \in {25, 27} -> 4 * xpc                        \* JALR, JAL
          [] xopc \in {5, 7} -> IF xbpc = X THEN X ELSE 4 * xbpc \* AUIPC
          [] xopc \in {4, 6, 12, 14} -> xalu
          [] xopc \in {28, 30} -> xcsr
          [] OTHER -> X

CsrWrite(wcsr) ==
    /\ medeleg' = IF writes(CSR_MEDELEG) THEN wcsr ELSE medeleg
    /\ mscratch' = IF writes(CSR_MSCRATCH) THEN wcsr ELSE mscratch
    /\ mtvec' = IF writes(CSR_MTVEC) THEN wcsr ELSE mtvec

AsluAdvance(rcsr) ==
    /\ xopc' = dopc /\ xfn3' = dfn3
    /\ xbra' = 2 * ToNat(wbra \/ (dexc /\ ~isret)) + ToNat(balign \/ dexc)
    /\ xbpc' = IF isret THEN mepc \div 4 ELSE IF xadr = X THEN X ELSE xadr \div 4
    /\ xbrk' = (dexc /\ Bit(dcsn, 1)) /\ xexc' = dexc
    /\ xoff' = IF xadr = X THEN X ELSE IF djmp THEN 2 * ToNat(Bit(xadr, 2)) ELSE xadr % 4
    /\ xmov' = xadd % M /\ xdat' = Xdat(dfn3, xadd % M)
    /\ xalu' = Xalu(dfn3, dfn7, xadd, dop1, dop2)
    /\ xcsr' = rcsr /\ malu' = Malu
    /\ CsrWrite(Wcsr(rcsr)) /\ TrapEdge(Wcsr(rcsr))

AsluHold == UNCHANGED <<asluVars, csrVars>>
=============================================================================
