------------------------------- MODULE MCTrap -------------------------------
(***************************************************************************)
(* Traps under the lock-out of Zephyr's vector.S: harts 1 to 3 spin in     *)
(* words 0 and 1; hart 0 installs the handler at word 8, which skips the   *)
(* instruction that trapped, and loops over two instructions of the menu.  *)
(***************************************************************************)
EXTENDS T5Sim, MCInstr, Sequences

Trapping == << ECALL, EBREAK, JAL(1, 2), JALR(1, 0, 22), BEQ(0, 0, 6), LW(1, 0, 49),
               LH(1, 0, 49), SW(1, 0, 50), SH(1, 0, 51) >>
Plain == << CSRRW(1, CSR_MSCRATCH, 2), CSRRS(1, CSR_MCAUSE, 0), LW(1, 0, 48),
            SW(1, 0, 48), CSRRSI(1, CSR_MSTATUS, 0) >>
Fixed == << CSRRS(1, CSR_MHARTID, 0), BNE(1, 0, -4), ADDI(2, 0, 32),
            CSRRW(0, CSR_MTVEC, 2), JAL(0, -8), CSRRS(2, CSR_MEPC, 0),
            ADDI(2, 2, 4), CSRRW(0, CSR_MEPC, 2), MRET >>
Status == << ADDI(2, 0, 136), CSRRW(0, CSR_MSTATUS, 2), ADDI(2, 0, 28), JAL(0, 0) >>
Menu == Fixed \o Trapping \o Plain \o Status

MCDecode == [v \in Val |-> IF v \in 1 .. Len(Menu) THEN Menu[v] ELSE ADDI(0, 0, 0)]
MCInstrs == {MCDecode[v] : v \in Val}
Index(s, off) == {off + k : k \in 1 .. Len(s)}
MCImages ==
    {[a \in Ram |-> CASE a < 4 -> a + 1 [] a = 4 -> i [] a = 5 -> j [] a = 6 -> 5
                      [] a \in 8 .. 11 -> a - 2 [] OTHER -> 0] :
       i \in Index(Trapping, Len(Fixed)),
       j \in Index(Trapping \o Plain, Len(Fixed))}

\* Hart 0 restores mstatus with MIE and MPIE set, then mepc, and returns.
MCStatusImage ==
    LET p == <<1, 2, 24, 25, 26, 8, 9, 27>>
    IN  {[a \in Ram |-> IF a < 8 THEN p[a + 1] ELSE 0]}

(***************************************************************************)
(* A handler that adds 4 to mepc and executes mret resumes hart 0 behind   *)
(* the instruction that trapped, whatever the other harts do meanwhile.    *)
(***************************************************************************)
HandlerReturns ==
    \A a \in {4, 5} : (NextHart(hart) = 0 /\ (trap \/ misaligned) /\ xepc = a)
                      ~> (halt \/ HartPc[0] = a + 1)
=============================================================================
