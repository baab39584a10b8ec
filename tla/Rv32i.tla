------------------------------- MODULE Rv32i --------------------------------
(***************************************************************************)
(* What the RV32I instructions compute, written from the instruction set   *)
(* and not from the RTL: the reference the datapath is compared with.      *)
(***************************************************************************)
EXTENDS T5Word

Signed(v) == IF Neg(v) THEN v - M ELSE v

AluResult(fn3, alt, a, b) ==
    LET n == Pow2(b % XLEN)
    IN  CASE fn3 = 0 -> (IF alt THEN a - b ELSE a + b) % M
          [] fn3 = 1 -> (a * n) % M
          [] fn3 = 2 -> ToNat(Signed(a) < Signed(b))
          [] fn3 = 3 -> ToNat(a < b)
          [] fn3 = 4 -> Xor(a, b)
          [] fn3 = 5 -> (IF alt THEN Signed(a) \div n ELSE a \div n) % M
          [] fn3 = 6 -> Or(a, b)
          [] fn3 = 7 -> And(a, b)

BranchTaken(fn3, a, b) == \/ fn3 = 0 /\ a = b
                          \/ fn3 = 1 /\ a # b
                          \/ fn3 = 4 /\ Signed(a) < Signed(b)
                          \/ fn3 = 5 /\ Signed(a) >= Signed(b)
                          \/ fn3 = 6 /\ a < b
                          \/ fn3 = 7 /\ a >= b

\* Size in bytes of an access, and the weight of byte n of a word.
Size(fn3) == CASE fn3 % 4 = 0 -> 1 [] fn3 % 4 = 1 -> 2 [] OTHER -> 4
Weight(n) == CASE n = 0 -> 1 [] n = 1 -> BYTE [] n = 2 -> BYTE * BYTE
               [] n = 3 -> BYTE * BYTE * BYTE [] OTHER -> M
Field(w, adr, size) == (w \div Weight(adr % 4)) % Weight(size)

LoadResult(fn3, adr, w) ==
    LET f == Field(w, adr, Size(fn3))
        n == Weight(Size(fn3))
    IN  IF fn3 < 4 /\ 2 * f >= n THEN f + M - n ELSE f

StoreResult(fn3, adr, w, v) ==
    w + Weight(adr % 4) * (Field(v, 0, Size(fn3)) - Field(w, adr, Size(fn3)))

OPC_LOAD == 0
OPC_FENCE == 3
OPC_IMM == 4
OPC_AUIPC == 5
OPC_STORE == 8
OPC_OP == 12
OPC_LUI == 13
OPC_BRANCH == 24
OPC_JALR == 25
OPC_JAL == 27
OPC_SYSTEM == 28

\* The encodings of RV32I with machine-mode CSR instructions and MRET.
Legal(i) ==
    /\ i.rv32
    /\ \/ i.opc = OPC_LOAD /\ i.fn3 \in {0, 1, 2, 4, 5}
       \/ i.opc = OPC_FENCE /\ i.rd = 0
       \/ i.opc = OPC_IMM /\ (i.b30 => i.fn3 # 1)
       \/ i.opc = OPC_OP /\ (i.b30 => i.fn3 \in {0, 5})
       \/ i.opc \in {OPC_AUIPC, OPC_LUI} /\ i.imm % 4 = 0
       \/ i.opc = OPC_STORE /\ i.fn3 \in {0, 1, 2}
       \/ i.opc = OPC_BRANCH /\ i.fn3 \notin {2, 3} /\ i.imm % 2 = 0
       \/ i.opc = OPC_JALR /\ i.fn3 = 0
       \/ i.opc = OPC_JAL /\ i.imm % 2 = 0
       \/ i.opc = OPC_SYSTEM /\ i.fn3 # 4 /\ (i.fn3 = 0 => i.rd = 0 /\ i.rs1 = 0
                                                      /\ i.csr \in {0, 1, 261, 770})
=============================================================================
