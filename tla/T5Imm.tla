-------------------------------- MODULE T5Imm -------------------------------
(***************************************************************************)
(* The immediate decoder of t5_ctrl.v, bit by bit: which bit of the        *)
(* instruction word each bit of the immediate is wired to, compared with   *)
(* the five immediate formats of the instruction set.                      *)
(***************************************************************************)
EXTENDS T5Datapath

CONSTANT ZEROBIT       \* a bit wired to 0

\* The bit of ireg that drives imm[k], one row for each case of the decoder.
Imm(o, k) ==
    LET it == itype(o)
        s == stype(o)
        u == utype(o)
        j == jtype(o)
        br == btype(o)
    IN  CASE k = 0 /\ it /\ ~s -> 20
          [] k = 0 /\ ~it /\ s -> 7
          [] k = 0 /\ ~it /\ ~s -> ZEROBIT
          [] k = 0 /\ it /\ s -> X
          [] k \in 1..4 /\ (it \/ j) /\ ~(s \/ br) -> k + 20
          [] k \in 1..4 /\ ~(it \/ j) /\ (s \/ br) -> k + 7
          [] k \in 1..4 /\ ~(it \/ j) /\ ~(s \/ br) -> ZEROBIT
          [] k \in 1..4 /\ (it \/ j) /\ (s \/ br) -> X
          [] k \in 5..10 -> IF u THEN ZEROBIT ELSE k + 20
          [] k = 11 /\ (u \/ j) /\ ~(u \/ br) -> 20
          [] k = 11 /\ ~(u \/ j) /\ (u \/ br) -> 7
          [] k = 11 /\ u -> ZEROBIT
          [] k \in 12..19 /\ (u \/ j) -> k
          [] k \in 20..30 /\ u -> k
          [] OTHER -> 31

-----------------------------------------------------------------------------
\* The formats: <<high, low, first>> wires imm[high:low] to ireg from bit first up.
IFormat == {<<10, 0, 20>>}
SFormat == {<<4, 0, 7>>, <<10, 5, 25>>}
BFormat == {<<4, 1, 8>>, <<10, 5, 25>>, <<11, 11, 7>>}
UFormat == {<<30, 12, 12>>}
JFormat == {<<10, 1, 21>>, <<11, 11, 20>>, <<19, 12, 12>>}

Format(o) == CASE o \in {OPC_LOAD, OPC_IMM, OPC_JALR} -> IFormat
               [] o = OPC_STORE -> SFormat
               [] o = OPC_BRANCH -> BFormat
               [] o \in {OPC_AUIPC, OPC_LUI} -> UFormat
               [] o = OPC_JAL -> JFormat

\* The lowest bit a format defines; the bits above its fields copy the sign.
Lowest(o) == CASE o \in {OPC_AUIPC, OPC_LUI} -> 12
               [] o \in {OPC_BRANCH, OPC_JAL} -> 1
               [] OTHER -> 0
Reference(o, k) ==
    IF k < Lowest(o) THEN ZEROBIT
    ELSE IF \E f \in Format(o) : k \in f[2] .. f[1]
    THEN LET f == CHOOSE g \in Format(o) : k \in g[2] .. g[1] IN f[3] + (k - f[2])
    ELSE 31

(***************************************************************************)
(* Every bit of the immediate comes from the bit of the instruction word   *)
(* its format prescribes; the overlapping case statements of the decoder   *)
(* (t5_ctrl.v, imm) leave none undefined or doubly driven.                 *)
(***************************************************************************)
ImmediatesDecoded ==
    i.opc # OPC_OP => \A k \in 0..31 : Imm(i.opc, k) = Reference(i.opc, k)
=============================================================================
