------------------------------ MODULE MCInstr -------------------------------
(***************************************************************************)
(* An assembler for the models: instruction words by mnemonic.             *)
(***************************************************************************)
EXTENDS T5Word

Asm(opc, fn3, b30, rd, rs1, rs2, imm) ==
    [rv32 |-> TRUE, opc |-> opc, fn3 |-> fn3, b30 |-> b30, rd |-> rd,
     rs1 |-> rs1, rs2 |-> rs2, imm |-> imm % M, csr |-> 0]
AsmI(opc, fn3, rd, rs1, imm) == Asm(opc, fn3, FALSE, rd, rs1, 0, imm)
AsmSys(fn3, rd, rs1, csr) == [Asm(28, fn3, FALSE, rd, rs1, 0, 0) EXCEPT !.csr = csr]

LB(rd, rs1, imm) == AsmI(0, 0, rd, rs1, imm)
LH(rd, rs1, imm) == AsmI(0, 1, rd, rs1, imm)
LW(rd, rs1, imm) == AsmI(0, 2, rd, rs1, imm)
LBU(rd, rs1, imm) == AsmI(0, 4, rd, rs1, imm)
FENCE == AsmI(3, 0, 0, 0, 0)
ADDI(rd, rs1, imm) == AsmI(4, 0, rd, rs1, imm)
AUIPC(rd, imm) == AsmI(5, 0, rd, 0, imm)
SB(rs2, rs1, imm) == Asm(8, 0, FALSE, 0, rs1, rs2, imm)
SH(rs2, rs1, imm) == Asm(8, 1, FALSE, 0, rs1, rs2, imm)
SW(rs2, rs1, imm) == Asm(8, 2, FALSE, 0, rs1, rs2, imm)
ADD(rd, rs1, rs2) == Asm(12, 0, FALSE, rd, rs1, rs2, 0)
SUB(rd, rs1, rs2) == Asm(12, 0, TRUE, rd, rs1, rs2, 0)
LUI(rd, imm) == AsmI(13, 0, rd, 0, imm)
BEQ(rs1, rs2, imm) == Asm(24, 0, FALSE, 0, rs1, rs2, imm)
BNE(rs1, rs2, imm) == Asm(24, 1, FALSE, 0, rs1, rs2, imm)
BLT(rs1, rs2, imm) == Asm(24, 4, FALSE, 0, rs1, rs2, imm)
JALR(rd, rs1, imm) == AsmI(25, 0, rd, rs1, imm)
JAL(rd, imm) == AsmI(27, 0, rd, 0, imm)
ECALL == AsmSys(0, 0, 0, 0)
EBREAK == AsmSys(0, 0, 0, 1)
MRET == AsmSys(0, 0, 0, 770)
CSRRW(rd, csr, rs1) == AsmSys(1, rd, rs1, csr)
CSRRS(rd, csr, rs1) == AsmSys(2, rd, rs1, csr)
CSRRC(rd, csr, rs1) == AsmSys(3, rd, rs1, csr)
CSRRWI(rd, csr, zimm) == AsmSys(5, rd, zimm, csr)
CSRRSI(rd, csr, zimm) == AsmSys(6, rd, zimm, csr)
ZERO == [AsmI(0, 0, 0, 0, 0) EXCEPT !.rv32 = FALSE]     \* the all-zero word
=============================================================================
