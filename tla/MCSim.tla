------------------------------- MODULE MCSim --------------------------------
(***************************************************************************)
(* The simulator with 8-bit words and a RAM of six words: four of program, *)
(* one of data and the HALT word.  Small numbers in memory are             *)
(* instructions of the menu, any other is a NOP.  Words 16 and 18 are the  *)
(* timer.                                                                  *)
(***************************************************************************)
EXTENDS T5Sim, MCInstr, Sequences

Menu == << CSRRS(1, CSR_MHARTID, 0), JAL(0, -8), SW(1, 0, 20),
           ADDI(1, 1, 64), SUB(1, 0, 1), LUI(1, 12), AUIPC(1, 4), FENCE,
           LW(1, 0, 16), LB(1, 1, 16), LBU(1, 1, 17), SW(1, 0, 16), SB(1, 1, 16), SH(1, 0, 17),
           SW(1, 0, 72), LW(1, 0, 64),
           BEQ(1, 0, -4), BLT(0, 1, 4), JALR(1, 1, 2), ECALL, MRET,
           CSRRW(1, CSR_MSCRATCH, 1) >>

MCDecode == [v \in Val |-> IF v \in 1 .. Len(Menu) THEN Menu[v] ELSE ADDI(0, 0, 0)]
MCInstrs == {MCDecode[v] : v \in Val}
MCProgram == {<<1, i, j, k, 130, 0>> : i, j \in 4 .. Len(Menu), k \in {2, 3}}
AsRam(p) == [a \in Ram |-> p[a + 1]]
MCImages == {AsRam(p) : p \in MCProgram}
=============================================================================
