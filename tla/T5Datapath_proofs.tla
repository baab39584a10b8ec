------------------------- MODULE T5Datapath_proofs --------------------------
(***************************************************************************)
(* The datapath agrees with the instruction set for all operands, at every *)
(* word size, the 32 bits of the RTL included.                             *)
(***************************************************************************)
EXTENDS T5Datapath, T5Alu_proofs

\* The two words and the instruction of the sweep.
LEMMA SweepType == Spec => [](i \in Words /\ a \in Val /\ b \in Val)
  <1> DEFINE Inv == i \in Words /\ m \in 1 .. Len(Samples) /\ n \in 1 .. Len(Samples)
  <1>1. Len(Samples) \in Nat /\ Len(Samples) >= 1
    BY SamplesAssumption
  <1>2. Init => Inv
    BY <1>1 DEF Init
  <1>3. Inv /\ [Next]_vars => Inv'
    BY SMTT(40), <1>1 DEF Next, vars
  <1>4. Inv => i \in Words /\ a \in Val /\ b \in Val
    BY SamplesAssumption DEF a, b
  <1> QED
    BY <1>2, <1>3, <1>4, PTL DEF Spec

\* The comparison of a branch, on the sign and the low word of a 33-bit
\* difference.
LEMMA Comparison ==
    ASSUME NEW fn3 \in {0, 1, 4, 5, 6, 7}, NEW p \in Val, NEW q \in Val
    PROVE  Xcmp(fn3, Xadd(TRUE, fn3, p, q)) <=> BranchTaken(fn3, p, q)
  <1>1. CASE fn3 = 0
    BY <1>1, Sizes DEF Xcmp, BranchTaken, Xadd, wop, Neg, Signed, Val
  <1>2. CASE fn3 = 1
    BY <1>2, Sizes DEF Xcmp, BranchTaken, Xadd, wop, Neg, Signed, Val
  <1>3. CASE fn3 = 4
    BY <1>3, Sizes DEF Xcmp, BranchTaken, Xadd, wop, Neg, Signed, Val
  <1>4. CASE fn3 = 5
    BY <1>4, Sizes DEF Xcmp, BranchTaken, Xadd, wop, Neg, Signed, Val
  <1>5. CASE fn3 = 6
    BY <1>5, Sizes DEF Xcmp, BranchTaken, Xadd, wop, Neg, Signed, Val
  <1>6. CASE fn3 = 7
    BY <1>6, Sizes DEF Xcmp, BranchTaken, Xadd, wop, Neg, Signed, Val
  <1> QED
    BY ZenonT(40), <1>1, <1>2, <1>3, <1>4, <1>5, <1>6

\* Bit 32 of a number does not matter to its low word.
LEMMA LowWord ==
    ASSUME NEW v \in Int
    PROVE  (v % (2 * M)) % M = v % M /\ (v + M) % M = v % M /\ (v - M) % M = v % M
  <1>1. CASE M = 16
    BY <1>1
  <1>2. CASE M = 256
    BY <1>2
  <1>3. CASE M = 65536
    BY <1>3
  <1>4. CASE M = 4294967296
    BY <1>4
  <1> QED
    BY <1>1, <1>2, <1>3, <1>4, Sizes

\* The quotient of a number below twice the divisor.
LEMMA Quotient ==
    ASSUME NEW d \in Nat, d > 0, NEW v \in Int
    PROVE  /\ 0 <= v /\ v < d => v \div d = 0
           /\ d <= v /\ v < 2 * d => v \div d = 1
  OBVIOUS

\* Bit 32 of a 33-bit number.
LEMMA TopBit ==
    ASSUME NEW v \in 0 .. 2 * M - 1
    PROVE  v \div M = IF v >= M THEN 1 ELSE 0
  <1>1. M \in Nat /\ M > 0
    BY Sizes
  <1>2. v \in Int /\ 0 <= v /\ v < 2 * M
    BY <1>1
  <1>3. CASE v >= M
    BY <1>1, <1>2, <1>3, Quotient
  <1>4. CASE v < M
    BY <1>1, <1>2, <1>4, Quotient
  <1> QED
    BY <1>1, <1>2, <1>3, <1>4

\* The low word of sum and difference, and the sign of the difference.
LEMMA Adder ==
    ASSUME NEW p \in Val, NEW q \in Val
    PROVE  /\ Xadd(FALSE, 0, p, q) % M = (p + q) % M
           /\ Xadd(TRUE, 0, p, q) % M = (p - q) % M
           /\ Xadd(TRUE, 2, p, q) \div M = ToNat(Signed(p) < Signed(q))
           /\ Xadd(TRUE, 3, p, q) \div M = ToNat(p < q)
  <1>1. M \in Int /\ M > 0 /\ p \in Int /\ q \in Int
    BY Sizes DEF Val
  <1>2. /\ wop(0, p) = p \/ wop(0, p) = p + M
        /\ wop(0, q) = q \/ wop(0, q) = q + M
    BY <1>1 DEF wop
  <1>3. Xadd(FALSE, 0, p, q) % M = (p + q) % M
    <2>1. (wop(0, p) + wop(0, q)) \in {p + q, (p + q) + M, ((p + q) + M) + M}
      BY <1>1, <1>2
    <2>2. (wop(0, p) + wop(0, q)) % M = (p + q) % M
      <3>1. ((p + q) + M) % M = (p + q) % M
        BY <1>1, LowWord
      <3>2. (((p + q) + M) + M) % M = ((p + q) + M) % M
        BY <1>1, LowWord
      <3> QED
        BY <2>1, <3>1, <3>2
    <2>3. Xadd(FALSE, 0, p, q) = (wop(0, p) + wop(0, q)) % (2 * M)
      BY DEF Xadd
    <2>4. wop(0, p) + wop(0, q) \in Int
      BY <1>1, <1>2
    <2> QED
      BY ZenonT(40), <2>2, <2>3, <2>4, LowWord
  <1>4. Xadd(TRUE, 0, p, q) % M = (p - q) % M
    <2>1. (wop(0, p) - wop(0, q)) \in {p - q, (p - q) + M, (p - q) - M}
      BY <1>1, <1>2
    <2>2. (wop(0, p) - wop(0, q)) % M = (p - q) % M
      <3>1. ((p - q) + M) % M = (p - q) % M
        BY <1>1, LowWord
      <3>2. ((p - q) - M) % M = (p - q) % M
        BY <1>1, LowWord
      <3> QED
        BY <2>1, <3>1, <3>2
    <2>3. Xadd(TRUE, 0, p, q) = (wop(0, p) - wop(0, q)) % (2 * M)
      BY DEF Xadd
    <2>4. wop(0, p) - wop(0, q) \in Int
      BY <1>1, <1>2
    <2> QED
      BY ZenonT(40), <2>2, <2>3, <2>4, LowWord
  <1>5. Xadd(TRUE, 2, p, q) \div M = ToNat(Signed(p) < Signed(q))
    <2>1. /\ Xadd(TRUE, 2, p, q) \in 0 .. 2 * M - 1
          /\ Xadd(TRUE, 2, p, q) >= M <=> Signed(p) < Signed(q)
      BY Sizes DEF Xadd, wop, Neg, Signed, Val
    <2> QED
      BY ZenonT(40), <2>1, TopBit DEF ToNat
  <1>6. Xadd(TRUE, 3, p, q) \div M = ToNat(p < q)
    <2>1. /\ Xadd(TRUE, 3, p, q) \in 0 .. 2 * M - 1
          /\ Xadd(TRUE, 3, p, q) >= M <=> p < q
      BY Sizes DEF Xadd, wop, Val
    <2> QED
      BY ZenonT(40), <2>1, TopBit DEF ToNat
  <1> QED
    BY ZenonT(40), <1>3, <1>4, <1>5, <1>6

\* The fields of the words of the sweep.
LEMMA WordFields ==
    ASSUME i \in Words
    PROVE  /\ i.fn3 \in 0..7 /\ i.b30 \in BOOLEAN /\ i.imm \in 0..3 /\ Legal(i)
           /\ i.opc \in Swept
  BY DEF Words

\* Which instructions subtract.
LEMMA Subtracts ==
    ASSUME i \in Words
    PROVE  /\ i.opc = OPC_BRANCH => DSub(i)
           /\ i.opc = OPC_OP => (DSub(i) <=> i.fn3 \in {2, 3, 6, 7} \/ i.b30)
           /\ i.opc = OPC_IMM => (DSub(i) <=> i.fn3 \in {2, 3, 6, 7})
           /\ DSub(i) \in BOOLEAN
  BY WordFields DEF DSub, btype, rtype, itype, opc6, opc5, opc4, opc3, opc2, Bit,
                    Swept, OPC_LOAD, OPC_IMM, OPC_AUIPC, OPC_STORE, OPC_OP, OPC_LUI,
                    OPC_BRANCH, OPC_JALR, OPC_JAL

\* Branches compare as the instruction set says, for all operands.
THEOREM Branches == Spec => []BranchCorrect
  <1>1. i \in Words /\ a \in Val /\ b \in Val => BranchCorrect
    <2> SUFFICES ASSUME i \in Words, a \in Val, b \in Val, i.opc = OPC_BRANCH
                 PROVE  Xcmp(i.fn3, sum) <=> BranchTaken(i.fn3, a, b)
      BY DEF BranchCorrect
    <2>1. i.fn3 \in {0, 1, 4, 5, 6, 7}
      BY WordFields DEF Legal, OPC_LOAD, OPC_FENCE, OPC_IMM, OPC_AUIPC, OPC_STORE, OPC_OP,
                        OPC_LUI, OPC_BRANCH, OPC_JALR, OPC_JAL, OPC_SYSTEM
    <2>2. DSub(i)
      BY Subtracts
    <2>3. sum = Xadd(TRUE, i.fn3, a, b)
      BY <2>2 DEF sum, Xadd
    <2> QED
      BY ZenonT(40), <2>1, <2>3, Comparison
  <1> QED
    BY <1>1, SweepType, PTL

\* A right shift of a word is a word.
LEMMA ShiftRight ==
    ASSUME NEW p \in Val, NEW q \in Val
    PROVE  p \div Pow2(q % XLEN) \in Val
  <1>1. q % XLEN \in 0..31
    BY Sizes DEF Val
  <1>2. Pow2(q % XLEN) \in Nat /\ Pow2(q % XLEN) >= 1
    BY <1>1, Pow2Type
  <1> QED
    BY <1>2, Sizes DEF Val

\* The ALU computes what the instruction set says, for all operands.
THEOREM Arithmetic == Spec => []AluCorrect
  <1>1. i \in Words /\ a \in Val /\ b \in Val => AluCorrect
    <2> SUFFICES ASSUME i \in Words, a \in Val, b \in Val, i.opc \in {OPC_IMM, OPC_OP}
                 PROVE  Xalu(i.fn3, i.b30, sum, a, b)
                          = AluResult(i.fn3, i.b30 /\ (i.opc = OPC_OP \/ i.fn3 = 5), a, b)
      BY DEF AluCorrect
    <2> DEFINE alt == i.b30 /\ (i.opc = OPC_OP \/ i.fn3 = 5)
    <2>1. /\ i.fn3 \in 0..7 /\ i.b30 \in BOOLEAN
          /\ i.fn3 = 1 => ~i.b30
      BY WordFields DEF Legal, OPC_LOAD, OPC_FENCE, OPC_IMM, OPC_AUIPC, OPC_STORE, OPC_OP,
                        OPC_LUI, OPC_BRANCH, OPC_JALR, OPC_JAL, OPC_SYSTEM
    <2>2. CASE i.fn3 = 0
      <3>1. DSub(i) <=> alt
        BY <2>1, <2>2, Subtracts DEF OPC_OP, OPC_IMM
      <3>2. sum = IF alt THEN Xadd(TRUE, 0, a, b) ELSE Xadd(FALSE, 0, a, b)
        BY <2>2, <3>1 DEF sum, Xadd
      <3>3. sum % M = (IF alt THEN a - b ELSE a + b) % M
        BY ZenonT(40), <3>2, Adder
      <3> HIDE DEF alt
      <3>4. AluResult(i.fn3, alt, a, b) = (IF alt THEN a - b ELSE a + b) % M
        BY <2>2 DEF AluResult
      <3>5. Xalu(i.fn3, i.b30, sum, a, b) = sum % M
        BY <2>2 DEF Xalu
      <3> QED
        BY <3>3, <3>4, <3>5 DEF alt
    <2>3. CASE i.fn3 \in {2, 3}
      <3>1. DSub(i)
        BY <2>3, Subtracts
      <3>2. sum = Xadd(TRUE, i.fn3, a, b)
        BY <3>1 DEF sum, Xadd
      <3>3. Xalu(i.fn3, i.b30, sum, a, b) = sum \div M
        BY <2>3 DEF Xalu
      <3>4. /\ i.fn3 = 2 => AluResult(i.fn3, alt, a, b) = ToNat(Signed(a) < Signed(b))
            /\ i.fn3 = 3 => AluResult(i.fn3, alt, a, b) = ToNat(a < b)
        BY DEF AluResult
      <3>5. /\ i.fn3 = 2 => sum \div M = ToNat(Signed(a) < Signed(b))
            /\ i.fn3 = 3 => sum \div M = ToNat(a < b)
        BY ZenonT(40), <3>2, Adder
      <3> QED
        BY <2>3, <3>3, <3>4, <3>5
    <2>4. CASE i.fn3 = 1
      BY <2>1, <2>4 DEF Xalu, Xshf, AluResult
    <2>5. CASE i.fn3 = 5
      <3>1. (a \div Pow2(b % XLEN)) % M = a \div Pow2(b % XLEN)
        BY ShiftRight, Sizes DEF Val
      <3>2. alt <=> i.b30
        BY <2>5
      <3>3. CASE i.b30
        BY <2>5, <3>2, <3>3 DEF Xalu, Xshf, AluResult, Signed
      <3>4. CASE ~i.b30
        BY <2>5, <3>1, <3>2, <3>4 DEF Xalu, Xshf, AluResult
      <3> QED
        BY <3>3, <3>4
    <2>6. CASE i.fn3 \in {4, 6, 7}
      BY <2>6 DEF Xalu, Xlog, AluResult
    <2> QED
      BY <2>1, <2>2, <2>3, <2>4, <2>5, <2>6
  <1> QED
    BY <1>1, SweepType, PTL

\* No lane is selected exactly when the access is misaligned.
LEMMA Selection ==
    ASSUME NEW fn3 \in {0, 1, 2, 4, 5}, NEW off \in 0..3
    PROVE  Xsel(fn3, off) = {} <=> off % Size(fn3) # 0
  <1>1. {off} # {} /\ {off, off + 1} # {} /\ Lane # {}
    BY DEF Lane
  <1>2. CASE fn3 \in {0, 4}
    BY <1>1, <1>2 DEF Xsel, Size, Lane
  <1>3. CASE fn3 \in {1, 5}
    BY <1>1, <1>3 DEF Xsel, Size
  <1>4. CASE fn3 = 2
    BY <1>1, <1>4 DEF Xsel, Size
  <1> QED
    BY <1>2, <1>3, <1>4

\* A load extracts and extends the bytes its address names.
LEMMA Load ==
    ASSUME NEW fn3 \in {0, 1, 2, 4, 5}, NEW off \in 0..3, NEW w \in Val,
           Xsel(fn3, off) # {}
    PROVE  Dext(Xsel(fn3, off), fn3, w) = LoadResult(fn3, off, w)
  <1>1. CASE fn3 \in {0, 4}
    <2>1. Xsel(fn3, off) = {off}
      BY <1>1 DEF Xsel, Lane
    <2>2. Dext({off}, fn3, w) = Extend(fn3, Byte(w, off), BYTE)
      <3>1. /\ Dext({0}, fn3, w) = Extend(fn3, Byte(w, 0), BYTE)
            /\ Dext({1}, fn3, w) = Extend(fn3, Byte(w, 1), BYTE)
            /\ Dext({2}, fn3, w) = Extend(fn3, Byte(w, 2), BYTE)
            /\ Dext({3}, fn3, w) = Extend(fn3, Byte(w, 3), BYTE)
        BY LaneSetsDiffer DEF Dext
      <3> QED
        BY <3>1
    <2>3. Extend(fn3, Byte(w, off), BYTE) = LoadResult(fn3, off, w)
      BY <1>1, ByteAssumption, Sizes DEF Extend, Byte, LoadResult, Field, Size, Weight, Val
    <2> QED
      BY <2>1, <2>2, <2>3
  <1>2. CASE fn3 \in {1, 5}
    <2>1. off \in {0, 2} /\ Xsel(fn3, off) = {off, off + 1}
      BY <1>2 DEF Xsel
    <2>2. CASE off = 0
      <3>1. Dext({0, 1}, fn3, w) = Extend(fn3, w % (BYTE * BYTE), BYTE * BYTE)
        BY LaneSetsDiffer DEF Dext
      <3>2. Extend(fn3, w % (BYTE * BYTE), BYTE * BYTE) = LoadResult(fn3, 0, w)
        BY <1>2, ByteAssumption, Sizes DEF Extend, LoadResult, Field, Size, Weight, Val
      <3> QED
        BY <2>1, <2>2, <3>1, <3>2
    <2>3. CASE off = 2
      <3>1. Dext({2, 3}, fn3, w) = Extend(fn3, w \div (BYTE * BYTE), BYTE * BYTE)
        BY LaneSetsDiffer DEF Dext
      <3>2. Extend(fn3, w \div (BYTE * BYTE), BYTE * BYTE) = LoadResult(fn3, 2, w)
        BY <1>2, ByteAssumption, Sizes DEF Extend, LoadResult, Field, Size, Weight, Val
      <3> QED
        BY <2>1, <2>3, <3>1, <3>2
    <2> QED
      BY <2>1, <2>2, <2>3
  <1>3. CASE fn3 = 2
    <2>1. off = 0 /\ Xsel(fn3, off) = Lane
      BY <1>3 DEF Xsel
    <2>2. Dext(Lane, fn3, w) = w
      BY LaneSetsDiffer DEF Dext
    <2>3. LoadResult(2, 0, w) = w
      BY Sizes DEF LoadResult, Field, Size, Weight, Val
    <2> QED
      BY <1>3, <2>1, <2>2, <2>3
  <1> QED
    BY <1>1, <1>2, <1>3

\* Loads return what the instruction set says, for all words and offsets.
THEOREM Loads == Spec => []LoadCorrect
  <1>1. i \in Words /\ a \in Val => LoadCorrect
    <2> SUFFICES ASSUME i \in Words, a \in Val, i.opc = OPC_LOAD
                 PROVE  LET sel == Xsel(i.fn3, i.imm)
                        IN  /\ sel = {} <=> i.imm % Size(i.fn3) # 0
                            /\ sel # {} => Dext(sel, i.fn3, a) = LoadResult(i.fn3, i.imm, a)
      BY DEF LoadCorrect
    <2>1. i.fn3 \in {0, 1, 2, 4, 5} /\ i.imm \in 0..3
      BY WordFields DEF Legal, OPC_LOAD, OPC_FENCE, OPC_IMM, OPC_AUIPC, OPC_STORE, OPC_OP,
                        OPC_LUI, OPC_BRANCH, OPC_JALR, OPC_JAL, OPC_SYSTEM
    <2>2. Xsel(i.fn3, i.imm) = {} <=> i.imm % Size(i.fn3) # 0
      BY <2>1, Selection
    <2> QED
      BY <2>1, <2>2, Load
  <1> QED
    BY <1>1, SweepType, PTL

\* What another byte on a lane changes in a word.
LEMMA ReplaceByte ==
    ASSUME NEW b0 \in Int, NEW b1 \in Int, NEW b2 \in Int, NEW b3 \in Int,
           NEW c \in Int
    PROVE  \A w \in Int : w = Word4(b0, b1, b2, b3) =>
               /\ Word4(c, b1, b2, b3) = w + Weight(0) * (c - b0)
               /\ Word4(b0, c, b2, b3) = w + Weight(1) * (c - b1)
               /\ Word4(b0, b1, c, b3) = w + Weight(2) * (c - b2)
               /\ Word4(b0, b1, b2, c) = w + Weight(3) * (c - b3)
  <1>1. CASE BYTE = 2
    BY <1>1 DEF Word4, Weight
  <1>2. CASE BYTE = 4
    BY <1>2 DEF Word4, Weight
  <1>3. CASE BYTE = 16
    BY <1>3 DEF Word4, Weight
  <1>4. CASE BYTE = 256
    BY <1>4 DEF Word4, Weight
  <1> QED
    BY ByteAssumption, <1>1, <1>2, <1>3, <1>4

\* The same for a half.
LEMMA ReplaceHalf ==
    ASSUME NEW b0 \in Int, NEW b1 \in Int, NEW b2 \in Int, NEW b3 \in Int,
           NEW c0 \in Int, NEW c1 \in Int
    PROVE  \A w \in Int : w = Word4(b0, b1, b2, b3) =>
               /\ Word4(c0, c1, b2, b3)
                    = w + Weight(0) * ((c0 + BYTE * c1) - (b0 + BYTE * b1))
               /\ Word4(b0, b1, c0, c1)
                    = w + Weight(2) * ((c0 + BYTE * c1) - (b2 + BYTE * b3))
  <1>1. CASE BYTE = 2
    BY <1>1 DEF Word4, Weight
  <1>2. CASE BYTE = 4
    BY <1>2 DEF Word4, Weight
  <1>3. CASE BYTE = 16
    BY <1>3 DEF Word4, Weight
  <1>4. CASE BYTE = 256
    BY <1>4 DEF Word4, Weight
  <1> QED
    BY ByteAssumption, <1>1, <1>2, <1>3, <1>4

\* The store data repeats the bytes that are stored on the lanes of the access.
LEMMA Replicated ==
    ASSUME NEW v \in Val
    PROVE  /\ Xdat(0, v) \in Val /\ \A l \in Lane : Byte(Xdat(0, v), l) = Byte(v, 0)
           /\ Xdat(1, v) \in Val /\ \A l \in Lane : Byte(Xdat(1, v), l) = Byte(v, l % 2)
           /\ Xdat(2, v) = v
  <1>1. Byte(v, 0) \in 0 .. BYTE - 1 /\ Byte(v, 1) \in 0 .. BYTE - 1
    BY Bytes DEF Lane
  <1>2. /\ Xdat(0, v) = Word4(Byte(v, 0), Byte(v, 0), Byte(v, 0), Byte(v, 0))
        /\ Xdat(1, v) = Word4(Byte(v, 0), Byte(v, 1), Byte(v, 0), Byte(v, 1))
        /\ Xdat(2, v) = v
    BY DEF Xdat
  <1>3. Xdat(0, v) \in Val /\ Xdat(1, v) \in Val
    BY <1>1, <1>2, Word4Type
  <1>4. /\ Byte(Xdat(0, v), 0) = Byte(v, 0) /\ Byte(Xdat(0, v), 1) = Byte(v, 0)
        /\ Byte(Xdat(0, v), 2) = Byte(v, 0) /\ Byte(Xdat(0, v), 3) = Byte(v, 0)
    BY <1>1, <1>2, ByteOfWord4
  <1>5. /\ Byte(Xdat(1, v), 0) = Byte(v, 0) /\ Byte(Xdat(1, v), 1) = Byte(v, 1)
        /\ Byte(Xdat(1, v), 2) = Byte(v, 0) /\ Byte(Xdat(1, v), 3) = Byte(v, 1)
    BY <1>1, <1>2, ByteOfWord4
  <1> QED
    BY <1>2, <1>3, <1>4, <1>5 DEF Lane

\* A store changes the bytes its address names and no other.
LEMMA Store ==
    ASSUME NEW fn3 \in {0, 1, 2}, NEW off \in 0..3, NEW w \in Val, NEW v \in Val,
           Xsel(fn3, off) # {}
    PROVE  Merge(Xsel(fn3, off), w, Xdat(fn3, v)) = StoreResult(fn3, off, w, v)
  <1> DEFINE w0 == Byte(w, 0)
             w1 == Byte(w, 1)
             w2 == Byte(w, 2)
             w3 == Byte(w, 3)
             v0 == Byte(v, 0)
             v1 == Byte(v, 1)
  <1>1. /\ w0 \in Int /\ w1 \in Int /\ w2 \in Int /\ w3 \in Int /\ v0 \in Int /\ v1 \in Int
        /\ w = Word4(w0, w1, w2, w3) /\ w \in Int
    <2>1. BYTE \in Nat /\ w \in Int
      BY Sizes, ByteAssumption DEF Val
    <2> QED
      BY <2>1, Bytes DEF Lane
  <1>2. CASE fn3 = 0
    <2>1. Xsel(fn3, off) = {off}
      BY <1>2 DEF Xsel, Lane
    <2>2. \A l \in Lane : Byte(Xdat(0, v), l) = v0
      BY Replicated, Zenon
    <2>3. /\ Merge({0}, w, Xdat(0, v)) = Word4(v0, w1, w2, w3)
          /\ Merge({1}, w, Xdat(0, v)) = Word4(w0, v0, w2, w3)
          /\ Merge({2}, w, Xdat(0, v)) = Word4(w0, w1, v0, w3)
          /\ Merge({3}, w, Xdat(0, v)) = Word4(w0, w1, w2, v0)
      BY <2>2 DEF Merge, Lane
    <2>4. StoreResult(0, off, w, v) = w + Weight(off) * (v0 - Byte(w, off))
      <3>1. Field(v, 0, 1) = v0 /\ Field(w, off, 1) = Byte(w, off)
        <4>1. /\ Field(v, 0, 1) = (v \div 1) % BYTE
              /\ Field(w, off, 1) = (w \div Weight(off)) % BYTE
          BY DEF Field, Weight
        <4>2. v \div 1 = v /\ w \div 1 = w
          BY DEF Val
        <4> QED
          BY <4>1, <4>2 DEF Byte, Weight
      <3>2. Size(0) = 1 /\ off % 4 = off
        BY DEF Size
      <3> QED
        BY <3>1, <3>2, Zenon DEF StoreResult
    <2>5. Merge({off}, w, Xdat(0, v)) = w + Weight(off) * (v0 - Byte(w, off))
      <3> HIDE DEF w0, w1, w2, w3, v0
      <3>1. /\ Merge({0}, w, Xdat(0, v)) = w + Weight(0) * (v0 - w0)
            /\ Merge({1}, w, Xdat(0, v)) = w + Weight(1) * (v0 - w1)
            /\ Merge({2}, w, Xdat(0, v)) = w + Weight(2) * (v0 - w2)
            /\ Merge({3}, w, Xdat(0, v)) = w + Weight(3) * (v0 - w3)
        BY ONLY <1>1, <2>3, ReplaceByte
      <3>2. off \in {0, 1, 2, 3}
        OBVIOUS
      <3> QED
        BY <3>1, <3>2, Zenon DEF w0, w1, w2, w3
    <2> QED
      BY <1>2, <2>1, <2>4, <2>5, Zenon
  <1>3. CASE fn3 = 1
    <2>1. off \in {0, 2} /\ Xsel(fn3, off) = {off, off + 1}
      BY <1>3 DEF Xsel
    <2>2. /\ Byte(Xdat(1, v), 0) = v0 /\ Byte(Xdat(1, v), 1) = v1
          /\ Byte(Xdat(1, v), 2) = v0 /\ Byte(Xdat(1, v), 3) = v1
      BY Replicated DEF Lane
    <2>3. /\ Merge({0, 1}, w, Xdat(1, v)) = Word4(v0, v1, w2, w3)
          /\ Merge({2, 3}, w, Xdat(1, v)) = Word4(w0, w1, v0, v1)
      BY <2>2 DEF Merge
    <2>4. /\ StoreResult(1, 0, w, v) = w + Weight(0) * ((v0 + BYTE * v1) - (w0 + BYTE * w1))
          /\ StoreResult(1, 2, w, v) = w + Weight(2) * ((v0 + BYTE * v1) - (w2 + BYTE * w3))
      <3>1. /\ Field(v, 0, 2) = v0 + BYTE * v1
            /\ Field(w, 0, 2) = w0 + BYTE * w1
            /\ Field(w, 2, 2) = w2 + BYTE * w3
        <4>1. /\ Field(v, 0, 2) = (v \div 1) % (BYTE * BYTE)
              /\ Field(w, 0, 2) = (w \div 1) % (BYTE * BYTE)
              /\ Field(w, 2, 2) = (w \div (BYTE * BYTE)) % (BYTE * BYTE)
          BY DEF Field, Weight
        <4>2. w \div 1 = w /\ v \div 1 = v
          BY DEF Val
        <4> QED
          BY <4>1, <4>2, Bytes, Zenon
      <3>2. Size(1) = 2 /\ 0 % 4 = 0 /\ 2 % 4 = 2
        BY DEF Size
      <3> QED
        BY <3>1, <3>2, Zenon DEF StoreResult
    <2>5. /\ Merge({0, 1}, w, Xdat(1, v)) = StoreResult(1, 0, w, v)
          /\ Merge({2, 3}, w, Xdat(1, v)) = StoreResult(1, 2, w, v)
      <3> HIDE DEF w0, w1, w2, w3, v0, v1
      <3> QED
        BY ONLY <1>1, <2>3, <2>4, ReplaceHalf
    <2>6. 0 + 1 = 1 /\ 2 + 1 = 3
      OBVIOUS
    <2> QED
      BY <1>3, <2>1, <2>5, <2>6, Zenon
  <1>4. CASE fn3 = 2
    <2>1. off = 0 /\ Xsel(fn3, off) = Lane
      BY <1>4 DEF Xsel
    <2>2. Merge(Lane, w, Xdat(2, v)) = v
      <3>1. Merge(Lane, w, v) = Word4(Byte(v, 0), Byte(v, 1), Byte(v, 2), Byte(v, 3))
        BY DEF Merge, Lane
      <3> QED
        BY <3>1, Bytes, Replicated, Zenon
    <2>3. StoreResult(2, 0, w, v) = v
      <3>1. Field(w, 0, 4) = w /\ Field(v, 0, 4) = v
        BY Sizes DEF Field, Weight, Val
      <3>2. Size(2) = 4 /\ Weight(0 % 4) = 1
        BY DEF Size, Weight
      <3>3. w + 1 * (v - w) = v
        BY Sizes DEF Val
      <3> QED
        BY <3>1, <3>2, <3>3, Zenon DEF StoreResult
    <2> QED
      BY <1>4, <2>1, <2>2, <2>3, Zenon
  <1> QED
    BY <1>2, <1>3, <1>4

\* Stores leave in memory what the instruction set says, for all words, values
\* and offsets: xdat (t5_aslu.v) puts every byte on a lane where the switch of
\* t5_sim.cc, driven by xsel (t5_data.v), picks it up.
THEOREM Stores == Spec => []StoreCorrect
  <1>1. i \in Words /\ a \in Val /\ b \in Val => StoreCorrect
    <2> SUFFICES ASSUME i \in Words, a \in Val, b \in Val, i.opc = OPC_STORE
                 PROVE  LET sel == Xsel(i.fn3, i.imm)
                        IN  /\ sel = {} <=> i.imm % Size(i.fn3) # 0
                            /\ sel # {} => Merge(sel, a, Xdat(i.fn3, b))
                                             = StoreResult(i.fn3, i.imm, a, b)
      BY DEF StoreCorrect
    <2>1. i.fn3 \in {0, 1, 2} /\ i.imm \in 0..3
      BY WordFields DEF Legal, OPC_LOAD, OPC_FENCE, OPC_IMM, OPC_AUIPC, OPC_STORE, OPC_OP,
                        OPC_LUI, OPC_BRANCH, OPC_JALR, OPC_JAL, OPC_SYSTEM
    <2>2. Xsel(i.fn3, i.imm) = {} <=> i.imm % Size(i.fn3) # 0
      BY <2>1, Selection
    <2> QED
      BY <2>1, <2>2, Store
  <1> QED
    BY <1>1, SweepType, PTL
=============================================================================
