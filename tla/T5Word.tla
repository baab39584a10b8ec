------------------------------- MODULE T5Word -------------------------------
(***************************************************************************)
(* The data the TRA5 core works on: machine words, word addresses, hart    *)
(* numbers and instruction words.  The RTL has bytes of 8 bits and words   *)
(* of 32; the size of a byte is a parameter here, so that the same         *)
(* definitions are proved for 32-bit words and model-checked for 4- and    *)
(* 8-bit ones.  A word always has four byte lanes.                         *)
(***************************************************************************)
EXTENDS Integers

CONSTANTS BYTE,    \* number of values of a byte (256 in the RTL)
          Reg,     \* register numbers, a subset of 0..31 that contains 0
          X        \* the value of a Verilog signal nobody has defined

ASSUME ByteAssumption == BYTE \in {2, 4, 16, 256}
ASSUME RegAssumption == 0 \in Reg /\ \A r \in Reg : r \in 0..31 /\ r < BYTE*BYTE*BYTE*BYTE

M == BYTE * BYTE * BYTE * BYTE                 \* 2^XLEN
XLEN == CASE BYTE = 2 -> 4 [] BYTE = 4 -> 8 [] BYTE = 16 -> 16 [] OTHER -> 32
WORDS == M \div 4                              \* number of word addresses
Val == 0 .. M - 1
PC == 0 .. WORDS - 1                           \* a word address, bits [31:2]
XVal == Val \cup {X}
XPC == PC \cup {X}

Hart == 0..3
Lane == 0..3
Csr == 0..4095                                 \* CSR numbers

ASSUME UnknownAssumption == X \notin Val /\ X \notin Csr /\ X \notin Reg

Bit(v, n) == (v \div n) % 2 = 1                \* n is the weight of the bit
Neg(v) == v >= M \div 2                        \* v[31]
ToNat(b) == IF b THEN 1 ELSE 0
Byte(v, k) == CASE k = 0 -> v % BYTE
                [] k = 1 -> (v \div BYTE) % BYTE
                [] k = 2 -> (v \div (BYTE * BYTE)) % BYTE
                [] OTHER -> (v \div (BYTE * BYTE * BYTE)) % BYTE
Word4(b0, b1, b2, b3) == b0 + BYTE * b1 + BYTE * BYTE * b2 + BYTE * BYTE * BYTE * b3

(***************************************************************************)
(* Bitwise operations, byte by byte; op is applied to every pair of bits.  *)
(***************************************************************************)
BitwiseByte(op(_, _), a, b) ==
    LET at(n) == op((a \div n) % 2, (b \div n) % 2) * n
    IN  at(1) + at(2) + at(4) + at(8) + at(16) + at(32) + at(64) + at(128)

BitwiseOp(op(_, _), a, b) ==
    LET at(k) == BitwiseByte(op, Byte(a, k), Byte(b, k))
    IN  Word4(at(0), at(1), at(2), at(3))

Xor(a, b) == BitwiseOp(LAMBDA p, q : (p + q) % 2, a, b)
Or(a, b) == BitwiseOp(LAMBDA p, q : p + q - p * q, a, b)
And(a, b) == BitwiseOp(LAMBDA p, q : p * q, a, b)
AndNot(a, b) == BitwiseOp(LAMBDA p, q : p * (1 - q), a, b)

Pow2(n) == (IF Bit(n, 1) THEN 2 ELSE 1) * (IF Bit(n, 2) THEN 4 ELSE 1)
             * (IF Bit(n, 4) THEN 16 ELSE 1) * (IF Bit(n, 8) THEN 256 ELSE 1)
             * (IF Bit(n, 16) THEN 65536 ELSE 1)

(***************************************************************************)
(* An instruction word, by its fields: rv32 says that bits [1:0] are 11,   *)
(* imm is the output of the immediate decoder, csr is bits [31:20] of a    *)
(* SYSTEM instruction, and rs1 doubles as its 5-bit immediate.             *)
(***************************************************************************)
Word == [rv32 : BOOLEAN, opc : 0..31, fn3 : 0..7, b30 : BOOLEAN,
         rd : Reg, rs1 : Reg, rs2 : Reg, imm : Val, csr : Csr]

(***************************************************************************)
(* Format decoder: opcode bits [6:2] and the types derived from them.      *)
(***************************************************************************)
opc6(o) == Bit(o, 16)
opc5(o) == Bit(o, 8)
opc4(o) == Bit(o, 4)
opc3(o) == Bit(o, 2)
opc2(o) == Bit(o, 1)

btype(o) == opc6(o) /\ ~opc4(o) /\ ~opc2(o)
stype(o) == ~opc6(o) /\ opc5(o) /\ ~opc4(o)
utype(o) == ~opc6(o) /\ ~opc3(o) /\ opc2(o)
jtypeLoose(o) == opc6(o) /\ opc2(o)            \* mutant of jtype: takes JALR
jtype(o) == opc6(o) /\ opc3(o) /\ opc2(o)
rtype(o) == ~opc6(o) /\ opc5(o) /\ opc4(o) /\ ~opc2(o)
itype(o) == (~opc5(o) /\ ~opc2(o)) \/ o = 25
system(o) == opc6(o) /\ opc4(o)
ctype(i) == system(i.opc) /\ i.fn3 % 4 # 0
etype(i) == system(i.opc) /\ i.fn3 % 4 = 0

(***************************************************************************)
(* Operand decoder: what the decode stage makes of a word.                 *)
(***************************************************************************)
DSub(i) == \/ btype(i.opc)
           \/ rtype(i.opc) /\ (Bit(i.fn3, 2) \/ i.b30)
           \/ itype(i.opc) /\ Bit(i.fn3, 2)
DJmp(i) == jtype(i.opc) \/ (itype(i.opc) /\ opc6(i.opc))
DCp1(i, pc, rs1d) == IF stype(i.opc) \/ itype(i.opc) \/ etype(i) THEN rs1d ELSE 4 * pc
DCp2(i) == IF system(i.opc) THEN X ELSE i.imm
DOp1(i, rs1d) == IF rtype(i.opc) \/ itype(i.opc) \/ btype(i.opc) \/ ctype(i)
                 THEN rs1d ELSE 0
DOp2(i, rs2d) == IF rtype(i.opc) \/ stype(i.opc) \/ btype(i.opc) THEN rs2d ELSE i.imm

(***************************************************************************)
(* The words the models feed to the core.  A 32-bit word has a base        *)
(* opcode, a FENCE has no destination, and a left shift has bit 30 clear.  *)
(* Any other word (bits [1:0] are not 11) must not look like a branch, a   *)
(* jump or a SYSTEM instruction and names no destination: the all-zero     *)
(* word is one.                                                            *)
(***************************************************************************)
Opcodes == {0, 3, 4, 5, 8, 12, 13, 24, 25, 27, 28}
Supported(i) ==
    /\ i \in Word
    /\ IF i.rv32
       THEN /\ i.opc \in Opcodes
            /\ i.opc = 3 => i.rd = 0
            /\ i.opc \in {4, 12} /\ i.fn3 = 1 => ~i.b30
       ELSE i.rd = 0 /\ ~btype(i.opc) /\ ~DJmp(i) /\ ~system(i.opc)
=============================================================================
