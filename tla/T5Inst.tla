------------------------------- MODULE T5Inst -------------------------------
(***************************************************************************)
(* t5_inst.v: the hart switcher, the fetch address and the first stage of  *)
(* the PC pipeline.  fpc[1:0] of the RTL is the variable fhart.            *)
(***************************************************************************)
EXTENDS T5Word

VARIABLES hart,    \* hart in the fetch and write-back slots (mhart)
          dhart,   \* hart in the execute slot
          fpc,     \* address of the word in the decode slot
          fhart,   \* hart of the decode slot, as the register file sees it
          iwb_adr  \* fetch address
instVars == <<hart, dhart, fpc, fhart, iwb_adr>>

InstTypeOK == /\ hart \in Hart /\ dhart \in Hart /\ fhart \in Hart
              /\ fpc \in PC /\ iwb_adr \in PC

\* whart: the successor in the Johnson counter 0, 1, 3, 2.
NextHart(h) == 2 * (h % 2) + (1 - (h \div 2))
PrevHart(h) == 2 * (1 - (h % 2)) + (h \div 2)

\* Mutant of HartEdge: the execute slot keeps the hart of the edge before.
HartEdgeLate(sys_rst, tick) ==
    /\ hart' = IF sys_rst THEN 0 ELSE IF tick THEN NextHart(hart) ELSE hart
    /\ dhart' = IF sys_rst THEN 3 ELSE IF tick THEN 3 - hart ELSE dhart

\* The hart switcher, whose own reset is sys_rst; tick is sena | srst.
HartEdge(sys_rst, tick) ==
    /\ hart' = IF sys_rst THEN 0 ELSE IF tick THEN NextHart(hart) ELSE hart
    /\ dhart' = IF sys_rst THEN 3 ELSE IF tick THEN 3 - NextHart(hart) ELSE dhart

\* Mutants of FetchAdr: the trap of xbra or the misaligned access is not decoded.
FetchAdrNoTrap(xbra, xstb, mtvec, mepc, xbpc, xpc) ==
    CASE xbra = 0 /\ xstb = 3 -> mtvec \div 4
      [] xbra = 1 /\ xstb # 3 -> mepc \div 4
      [] xbra \in {2, 3} /\ xstb # 3 -> xbpc
      [] OTHER -> xpc
FetchAdrNoFault(xbra, xstb, mtvec, mepc, xbpc, xpc) ==
    CASE xbra = 3 -> mtvec \div 4 [] xbra = 1 -> mepc \div 4
      [] xbra = 2 -> xbpc [] OTHER -> xpc

\* The next fetch address of the hart in the memory slot.
FetchAdr(xbra, xstb, mtvec, mepc, xbpc, xpc) ==
    CASE (xbra = 3 /\ xstb # 3) \/ (xbra = 0 /\ xstb = 3) -> mtvec \div 4
      [] xbra = 1 /\ xstb # 3 -> mepc \div 4
      [] xbra = 2 /\ xstb # 3 -> xbpc
      [] OTHER -> xpc

InstReset == fpc' = 0 /\ fhart' = 0 /\ iwb_adr' = 0

\* Mutant of InstAdvance: the registers of the next hart are read.
InstAdvanceWrongHart(adr) == fpc' = iwb_adr /\ fhart' = NextHart(hart) /\ iwb_adr' = adr

InstAdvance(adr) == fpc' = iwb_adr /\ fhart' = hart /\ iwb_adr' = adr

InstHold == UNCHANGED <<fpc, fhart, iwb_adr>>
=============================================================================
