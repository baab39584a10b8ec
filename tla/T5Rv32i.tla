------------------------------ MODULE T5Rv32i -------------------------------
(***************************************************************************)
(* t5_rv32i.v: the TRA5 core, the composition of its units.  A step is one *)
(* rising clock edge: every register takes the value its unit computes     *)
(* from the state before the edge.                                         *)
(*                                                                         *)
(* The four slots of the pipeline belong to four different harts:          *)
(*    fetch (and write-back)  hart        execute  dhart                   *)
(*    decode                  PrevHart(hart)      memory  NextHart(hart)   *)
(*                                                                         *)
(* In Spec the environment is free: any instruction word, any load data,   *)
(* any acknowledge, any enable and a reset at any edge.                    *)
(***************************************************************************)
EXTENDS T5Sysc, T5Inst, T5Back, T5Gprf

CONSTANTS Instr,   \* the instruction words the environment may supply
          Dti,     \* the words it may supply on the data bus
          PowerUp  \* the contents a register may have at power-up

vars == <<syscVars, instVars, ctrlVars, dataVars, asluVars, csrVars, backVars, rRAM>>

ASSUME InstrAssumption == \A i \in Instr : Supported(i)
ASSUME DtiAssumption == Dti \subseteq Val /\ PowerUp \subseteq Val

TypeOK == /\ SyscTypeOK /\ InstTypeOK /\ CtrlTypeOK /\ DataTypeOK
          /\ AsluTypeOK /\ CsrTypeOK /\ BackTypeOK /\ GprfTypeOK

(***************************************************************************)
(* Power-up: the state after the second edge with sys_rst up, or after a   *)
(* one-edge sys_rst.  The register file holds anything.                    *)
(***************************************************************************)
Init ==
    /\ \E short \in BOOLEAN :
          /\ rst = IF short THEN 14 ELSE 15
          /\ hart = IF short THEN 1 ELSE 0
          /\ dhart = 3 - hart
    /\ ena = FALSE /\ fpc = 0 /\ fhart = 0 /\ iwb_adr = 0
    /\ dexc = FALSE /\ dcsr = FALSE /\ dsub = FALSE /\ dbra = FALSE /\ djmp = FALSE
    /\ dop1 = 0 /\ dop2 = 0 /\ dcp1 = 0 /\ dcp2 = 0 /\ dcsn = 0 /\ dzim = 0
    /\ dopc = BUBBLE /\ dfn3 = 0 /\ dfn7 = FALSE
    /\ dpc = 0 /\ xpc = 0 /\ depc = 0 /\ xepc = 0
    /\ xsel = {} /\ xstb = 0 /\ xwre = FALSE
    /\ xopc = BUBBLE /\ xfn3 = 0 /\ xbra = 0 /\ xbpc = 0 /\ xbrk = FALSE
    /\ xoff = 0 /\ xexc = FALSE
    /\ xmov = 0 /\ xdat = 0 /\ xalu = 0 /\ xcsr = 0 /\ malu = 0
    /\ medeleg = 0 /\ mscratch = 0 /\ mtvec = 0
    /\ mepc = 0 /\ mcause = 0 /\ mtval = 0 /\ mie = 0 /\ mpie = 0
    /\ mopc = BUBBLE /\ dext = 0 /\ drd = 0 /\ xrd = 0 /\ mrd = 0 /\ mwre = TRUE
    /\ rRAM \in [Hart -> [Reg -> PowerUp]]

\* What every edge does, whatever the rest of the pipeline does.
Always(sys_rst, tick) ==
    /\ SyscEdge(sys_rst)
    /\ HartEdge(sys_rst, tick)
    /\ GprfEdge(mwre, hart, mrd, rd0d)

Reset(sys_rst) ==
    /\ srst
    /\ Always(sys_rst, TRUE)
    /\ InstReset /\ CtrlReset /\ DataReset /\ AsluReset /\ BackReset

\* The word in the decode slot is i, the data bus carries dti.
Advance(sys_rst, sys_ena, dwb_ack, i, dti) ==
    /\ ~srst /\ sena(sys_ena, xstb, dwb_ack)
    /\ Always(sys_rst, TRUE)
    /\ InstAdvance(FetchAdr(xbra, xstb, mtvec, mepc, xbpc, xpc))
    /\ CtrlAdvance(i, fpc, rRAM[fhart][i.rs1], rRAM[fhart][i.rs2])
    /\ DataAdvance
    /\ \E rcsr \in Rcsr(dcsn, dhart) : AsluAdvance(rcsr)
    /\ BackAdvance(i, dti)

Stall(sys_rst, sys_ena, dwb_ack) ==
    /\ ~srst /\ ~sena(sys_ena, xstb, dwb_ack)
    /\ Always(sys_rst, FALSE)
    /\ InstHold /\ CtrlHold /\ DataHold /\ AsluHold /\ BackHold

Next == \E sys_rst, sys_ena, dwb_ack \in BOOLEAN :
           \/ Reset(sys_rst)
           \/ \E i \in Instr, dti \in Dti : Advance(sys_rst, sys_ena, dwb_ack, i, dti)
           \/ Stall(sys_rst, sys_ena, dwb_ack)

Spec == Init /\ [][Next]_vars

-----------------------------------------------------------------------------
(***************************************************************************)
(* Properties                                                              *)
(***************************************************************************)
\* The pipeline may advance.
Running == ~srst /\ ena

(***************************************************************************)
(* Register x0 of every hart reads as zero from the first edge at which an *)
(* operand can be read.  The register file has no hard-wired zero: t5_back *)
(* keeps mwre up while in reset, and the write happens for one hart per    *)
(* edge, so this needs the reset to outlast a full turn of the hart        *)
(* counter (t5_sysc.v, rst), however short sys_rst is and whenever it      *)
(* strikes.                                                                *)
(***************************************************************************)
X0Zero == Running => \A h \in Hart : rRAM[h][0] = 0

(***************************************************************************)
(* The slots stay aligned: reset ends with hart 0 in the fetch slot; from  *)
(* then on the execute slot (mhartid, CSR writes) and the decode slot      *)
(* (register read) belong to the harts two and one steps behind, through   *)
(* every stall.  Only the first word after reset is decoded with the       *)
(* registers of hart 0 instead of hart 2 (fpc is reset to 0, t5_inst.v).   *)
(***************************************************************************)
SlotsAligned ==
    /\ ~srst /\ ~ena => hart = 0 /\ fhart = 0
    /\ Running => /\ dhart = NextHart(NextHart(hart))
                  /\ fhart = PrevHart(hart) \/ (hart = 0 /\ fhart = 0 /\ depc = 0)

(***************************************************************************)
(* No undefined value (a 32'hX of the RTL) reaches the register file, the  *)
(* fetch address or an effective store, whatever mixture of instructions,  *)
(* stalls and resets came before: each is masked by a control bit that     *)
(* another unit computes for the same slot.                                *)
(***************************************************************************)
NoUnknown ==
    /\ mwre => rd0d # X
    /\ xbra = 2 => xbpc # X
    /\ xstb = 2 => xbpc # X /\ (xwre => xdat # X)

-----------------------------------------------------------------------------
(***************************************************************************)
(* The inductive invariant behind the properties.                          *)
(***************************************************************************)
\* At least one edge of the reset has passed and the pipeline has not moved since.
Cleared == rst \in {14, 12, 8} \/ (rst = 0 /\ ~ena)

\* Reset is a walk of rst and hart in step; every edge of it clears one x0.
ResetInv ==
    /\ dhart = 3 - hart
    /\ \/ rst = 15 /\ hart = 0
       \/ rst = 14 /\ hart = 1 /\ ~ena
       \/ rst = 12 /\ hart = 3 /\ ~ena /\ rRAM[1][0] = 0
       \/ rst = 8 /\ hart = 2 /\ ~ena /\ rRAM[1][0] = 0 /\ rRAM[3][0] = 0
       \/ rst = 0 /\ hart = 0 /\ ~ena
            /\ rRAM[1][0] = 0 /\ rRAM[3][0] = 0 /\ rRAM[2][0] = 0
       \/ rst = 0 /\ ena /\ (\A h \in Hart : rRAM[h][0] = 0)
            /\ (fhart = PrevHart(hart) \/ (hart = 0 /\ fhart = 0 /\ depc = 0))
    /\ Cleared => fhart = 0 /\ depc = 0 /\ mwre /\ mrd = 0 /\ rd0d = 0
    /\ mwre /\ mrd = 0 => rd0d = 0

\* What each slot holds can be told from its opcode.
DecodeInv ==
    /\ dopc \in Opcodes
    /\ dcp2 = X => dopc = 28
    /\ dopc = 28 => dcsn # X /\ dzim # X
    /\ dexc => dopc = 28
    /\ dcsr => dopc = 28 /\ dfn3 % 4 # 0
    /\ dbra => dopc = 24
    /\ djmp => dopc \in {25, 27}
    /\ drd # 0 => dopc # 3
    /\ dopc \in {4, 12} /\ dfn3 = 1 => ~dfn7
ExecuteInv ==
    /\ xopc \in Opcodes
    /\ xrd # 0 => xopc # 3
    /\ xbpc = X => xopc = 28
    /\ xopc = 28 => xcsr # X
    /\ xopc \in {4, 12} => xalu # X
    /\ xstb >= 2 <=> xopc \in {0, 8}
    /\ xstb = 3 => xbra = 0
    /\ xstb = 2 => xsel # {}
    /\ xstb = 3 => xsel = {}
    /\ xsel \in {{}, {0}, {1}, {2}, {3}, {0, 1}, {2, 3}, Lane}
    /\ xbra = 2 => xopc \in {24, 25, 27}
    /\ xstb = 2 => xdat # X
    /\ mwre => rd0d # X

IndInv == TypeOK /\ ResetInv /\ DecodeInv /\ ExecuteInv
=============================================================================
