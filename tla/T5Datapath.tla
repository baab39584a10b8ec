----------------------------- MODULE T5Datapath -----------------------------
(***************************************************************************)
(* A test bench for the combinational datapath: it sweeps instruction      *)
(* words and operands and compares adder, shifter, comparator, byte        *)
(* selection and extension with the instruction set.                       *)
(***************************************************************************)
EXTENDS T5Alu, Rv32i, Sequences

CONSTANTS Samples      \* the operands of the sweep, a sequence

ASSUME SamplesAssumption == Samples \in Seq(Val) /\ Samples # <<>>

VARIABLES i,           \* the instruction word
          m, n         \* which operands it gets
vars == <<i, m, n>>

a == Samples[m]
b == Samples[n]

\* The words that matter here; the immediate is the offset of an access.
Swept == {OPC_LOAD, OPC_IMM, OPC_AUIPC, OPC_STORE, OPC_OP, OPC_LUI, OPC_BRANCH, OPC_JALR,
          OPC_JAL}
Words == {w \in [rv32 : {TRUE}, opc : Swept, fn3 : 0..7, b30 : BOOLEAN,
                 rd : {0}, rs1 : {0}, rs2 : {0}, imm : 0..3, csr : {0}] :
            /\ Legal(w)
            /\ w.opc \notin {OPC_LOAD, OPC_STORE} => w.imm = 0
            /\ w.opc \notin {OPC_IMM, OPC_OP} => ~w.b30
            /\ w.opc \in {OPC_AUIPC, OPC_LUI, OPC_JAL} => w.fn3 = 0}

Init == i \in Words /\ m = 1 /\ n = 1

\* The operands are swept in order, as by two nested loops.
Next == /\ n' = IF n < Len(Samples) THEN n + 1 ELSE 1
        /\ m' = IF n < Len(Samples) THEN m ELSE IF m < Len(Samples) THEN m + 1 ELSE 1
        /\ UNCHANGED i

Spec == Init /\ [][Next]_vars

-----------------------------------------------------------------------------
sum == Xadd(DSub(i), i.fn3, a, b)

(***************************************************************************)
(* An ALU instruction writes what the instruction set says: in particular  *)
(* SLT and SLTU, which take bit 32 of a 33-bit difference, are right when  *)
(* the 32-bit difference overflows (xset, t5_aslu.v).                      *)
(***************************************************************************)
AluCorrect ==
    i.opc \in {OPC_IMM, OPC_OP} =>
        Xalu(i.fn3, i.b30, sum, a, b)
          = AluResult(i.fn3, i.b30 /\ (i.opc = OPC_OP \/ i.fn3 = 5), a, b)

(***************************************************************************)
(* A branch is taken exactly when its comparison holds; signed and         *)
(* unsigned comparisons share one subtraction (xcmp, t5_aslu.v).           *)
(***************************************************************************)
BranchCorrect == i.opc = OPC_BRANCH => (Xcmp(i.fn3, sum) <=> BranchTaken(i.fn3, a, b))

(***************************************************************************)
(* The byte lanes of a load (xsel, t5_data.v) are empty exactly for a      *)
(* misaligned one; otherwise the load extends the bytes it names (dext,    *)
(* t5_back.v).                                                             *)
(***************************************************************************)
LoadCorrect ==
    i.opc = OPC_LOAD =>
        LET sel == Xsel(i.fn3, i.imm)
        IN  /\ sel = {} <=> i.imm % Size(i.fn3) # 0
            /\ sel # {} => Dext(sel, i.fn3, a) = LoadResult(i.fn3, i.imm, a)

(***************************************************************************)
(* The same for a store, whose replicated data (xdat, t5_aslu.v) the       *)
(* switch of t5_sim.cc merges lane by lane into the memory word.           *)
(***************************************************************************)
StoreCorrect ==
    i.opc = OPC_STORE =>
        LET sel == Xsel(i.fn3, i.imm)
        IN  /\ sel = {} <=> i.imm % Size(i.fn3) # 0
            /\ sel # {} =>
                  Merge(sel, a, Xdat(i.fn3, b)) = StoreResult(i.fn3, i.imm, a, b)
=============================================================================
