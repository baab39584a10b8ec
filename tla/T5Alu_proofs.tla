---------------------------- MODULE T5Alu_proofs ----------------------------
(***************************************************************************)
(* Facts about the datapath that hold for words of 4, 8, 16 and 32 bits.   *)
(***************************************************************************)
EXTENDS T5Alu, TLAPS

\* The word sizes the models allow, 32 bits being the one of the RTL.
LEMMA Sizes ==
    /\ M \in {16, 256, 65536, 4294967296}
    /\ WORDS \in Nat /\ M = 4 * WORDS /\ WORDS >= 4
    /\ XLEN \in {4, 8, 16, 32}
    /\ BYTE = 2 => M = 16
    /\ BYTE = 4 => M = 256
    /\ BYTE = 16 => M = 65536
    /\ BYTE = 256 => M = 4294967296
  BY ByteAssumption DEF M, WORDS, XLEN

\* A byte lane of a word is a byte.
LEMMA ByteType ==
    ASSUME NEW v \in Val, NEW k \in Lane
    PROVE  Byte(v, k) \in 0 .. BYTE - 1
  BY ByteAssumption, Sizes DEF Byte, Val, Lane

\* Four bytes make a word.
LEMMA Word4Type ==
    ASSUME NEW b0 \in 0 .. BYTE - 1, NEW b1 \in 0 .. BYTE - 1,
           NEW b2 \in 0 .. BYTE - 1, NEW b3 \in 0 .. BYTE - 1
    PROVE  Word4(b0, b1, b2, b3) \in Val
  <1>1. CASE BYTE = 2
    BY <1>1, Sizes DEF Word4, Val
  <1>2. CASE BYTE = 4
    BY <1>2, Sizes DEF Word4, Val
  <1>3. CASE BYTE = 16
    BY <1>3, Sizes DEF Word4, Val
  <1>4. CASE BYTE = 256
    BY <1>4, Sizes DEF Word4, Val
  <1> QED
    BY <1>1, <1>2, <1>3, <1>4, ByteAssumption

\* A sum of bits, each with its weight, is a byte; the bits a byte does not
\* have are 0.
LEMMA BitSum ==
    ASSUME NEW p1 \in {0, 1}, NEW p2 \in {0, 1}, NEW p4 \in {0, 1}, NEW p8 \in {0, 1},
           NEW p16 \in {0, 1}, NEW p32 \in {0, 1}, NEW p64 \in {0, 1}, NEW p128 \in {0, 1},
           BYTE <= 16 => p16 = 0 /\ p32 = 0 /\ p64 = 0 /\ p128 = 0,
           BYTE <= 4 => p4 = 0 /\ p8 = 0,
           BYTE <= 2 => p2 = 0
    PROVE  p1 * 1 + p2 * 2 + p4 * 4 + p8 * 8 + p16 * 16 + p32 * 32 + p64 * 64 + p128 * 128
             \in 0 .. BYTE - 1
  BY ByteAssumption

\* Bit n of a byte; a small byte has no high bits.
LEMMA BitType ==
    ASSUME NEW a \in 0 .. BYTE - 1
    PROVE  /\ \A n \in {1, 2, 4, 8, 16, 32, 64, 128} : (a \div n) % 2 \in {0, 1}
           /\ BYTE <= 16 => \A n \in {16, 32, 64, 128} : (a \div n) % 2 = 0
           /\ BYTE <= 4 => \A n \in {4, 8} : (a \div n) % 2 = 0
           /\ BYTE <= 2 => (a \div 2) % 2 = 0
  BY ByteAssumption

\* A bitwise operation on bytes is a byte: exclusive or.
LEMMA XorByte ==
    ASSUME NEW a \in 0 .. BYTE - 1, NEW b \in 0 .. BYTE - 1
    PROVE  BitwiseByte(LAMBDA p, q : (p + q) % 2, a, b) \in 0 .. BYTE - 1
  <1> DEFINE A(n) == (a \div n) % 2
             B(n) == (b \div n) % 2
             P(n) == (A(n) + B(n)) % 2
  <1>1. \A n \in {1, 2, 4, 8, 16, 32, 64, 128} : A(n) \in {0, 1} /\ B(n) \in {0, 1}
    BY BitType
  <1>2. /\ BYTE <= 16 => \A n \in {16, 32, 64, 128} : A(n) = 0 /\ B(n) = 0
        /\ BYTE <= 4 => \A n \in {4, 8} : A(n) = 0 /\ B(n) = 0
        /\ BYTE <= 2 => A(2) = 0 /\ B(2) = 0
    BY BitType
  <1> HIDE DEF A, B
  <1>3. \A n \in {1, 2, 4, 8, 16, 32, 64, 128} : P(n) \in {0, 1}
    BY <1>1
  <1>4. /\ BYTE <= 16 => P(16) = 0 /\ P(32) = 0 /\ P(64) = 0 /\ P(128) = 0
        /\ BYTE <= 4 => P(4) = 0 /\ P(8) = 0
        /\ BYTE <= 2 => P(2) = 0
    BY <1>1, <1>2
  <1> HIDE DEF P
  <1>5. P(1) * 1 + P(2) * 2 + P(4) * 4 + P(8) * 8 + P(16) * 16 + P(32) * 32
          + P(64) * 64 + P(128) * 128 \in 0 .. BYTE - 1
    BY SMTT(40), <1>3, <1>4, BitSum
  <1> QED
    BY <1>5 DEF BitwiseByte, P, A, B

\* The same for or.
LEMMA OrByte ==
    ASSUME NEW a \in 0 .. BYTE - 1, NEW b \in 0 .. BYTE - 1
    PROVE  BitwiseByte(LAMBDA p, q : p + q - p * q, a, b) \in 0 .. BYTE - 1
  <1> DEFINE A(n) == (a \div n) % 2
             B(n) == (b \div n) % 2
             P(n) == A(n) + B(n) - A(n) * B(n)
  <1>1. \A n \in {1, 2, 4, 8, 16, 32, 64, 128} : A(n) \in {0, 1} /\ B(n) \in {0, 1}
    BY BitType
  <1>2. /\ BYTE <= 16 => \A n \in {16, 32, 64, 128} : A(n) = 0 /\ B(n) = 0
        /\ BYTE <= 4 => \A n \in {4, 8} : A(n) = 0 /\ B(n) = 0
        /\ BYTE <= 2 => A(2) = 0 /\ B(2) = 0
    BY BitType
  <1> HIDE DEF A, B
  <1>3. \A n \in {1, 2, 4, 8, 16, 32, 64, 128} : P(n) \in {0, 1}
    BY <1>1
  <1>4. /\ BYTE <= 16 => P(16) = 0 /\ P(32) = 0 /\ P(64) = 0 /\ P(128) = 0
        /\ BYTE <= 4 => P(4) = 0 /\ P(8) = 0
        /\ BYTE <= 2 => P(2) = 0
    BY <1>1, <1>2
  <1> HIDE DEF P
  <1>5. P(1) * 1 + P(2) * 2 + P(4) * 4 + P(8) * 8 + P(16) * 16 + P(32) * 32
          + P(64) * 64 + P(128) * 128 \in 0 .. BYTE - 1
    BY SMTT(40), <1>3, <1>4, BitSum
  <1> QED
    BY <1>5 DEF BitwiseByte, P, A, B

\* The same for and.
LEMMA AndByte ==
    ASSUME NEW a \in 0 .. BYTE - 1, NEW b \in 0 .. BYTE - 1
    PROVE  BitwiseByte(LAMBDA p, q : p * q, a, b) \in 0 .. BYTE - 1
  <1> DEFINE A(n) == (a \div n) % 2
             B(n) == (b \div n) % 2
             P(n) == A(n) * B(n)
  <1>1. \A n \in {1, 2, 4, 8, 16, 32, 64, 128} : A(n) \in {0, 1} /\ B(n) \in {0, 1}
    BY BitType
  <1>2. /\ BYTE <= 16 => \A n \in {16, 32, 64, 128} : A(n) = 0 /\ B(n) = 0
        /\ BYTE <= 4 => \A n \in {4, 8} : A(n) = 0 /\ B(n) = 0
        /\ BYTE <= 2 => A(2) = 0 /\ B(2) = 0
    BY BitType
  <1> HIDE DEF A, B
  <1>3. \A n \in {1, 2, 4, 8, 16, 32, 64, 128} : P(n) \in {0, 1}
    BY <1>1
  <1>4. /\ BYTE <= 16 => P(16) = 0 /\ P(32) = 0 /\ P(64) = 0 /\ P(128) = 0
        /\ BYTE <= 4 => P(4) = 0 /\ P(8) = 0
        /\ BYTE <= 2 => P(2) = 0
    BY <1>1, <1>2
  <1> HIDE DEF P
  <1>5. P(1) * 1 + P(2) * 2 + P(4) * 4 + P(8) * 8 + P(16) * 16 + P(32) * 32
          + P(64) * 64 + P(128) * 128 \in 0 .. BYTE - 1
    BY <1>3, <1>4, BitSum
  <1> QED
    BY <1>5 DEF BitwiseByte, P, A, B

\* The same for and-not, with which CSR bits are cleared.
LEMMA AndNotByte ==
    ASSUME NEW a \in 0 .. BYTE - 1, NEW b \in 0 .. BYTE - 1
    PROVE  BitwiseByte(LAMBDA p, q : p * (1 - q), a, b) \in 0 .. BYTE - 1
  <1> DEFINE A(n) == (a \div n) % 2
             B(n) == (b \div n) % 2
             P(n) == A(n) * (1 - B(n))
  <1>1. \A n \in {1, 2, 4, 8, 16, 32, 64, 128} : A(n) \in {0, 1} /\ B(n) \in {0, 1}
    BY BitType
  <1>2. /\ BYTE <= 16 => \A n \in {16, 32, 64, 128} : A(n) = 0 /\ B(n) = 0
        /\ BYTE <= 4 => \A n \in {4, 8} : A(n) = 0 /\ B(n) = 0
        /\ BYTE <= 2 => A(2) = 0 /\ B(2) = 0
    BY BitType
  <1> HIDE DEF A, B
  <1>3. \A n \in {1, 2, 4, 8, 16, 32, 64, 128} : P(n) \in {0, 1}
    BY <1>1
  <1>4. /\ BYTE <= 16 => P(16) = 0 /\ P(32) = 0 /\ P(64) = 0 /\ P(128) = 0
        /\ BYTE <= 4 => P(4) = 0 /\ P(8) = 0
        /\ BYTE <= 2 => P(2) = 0
    BY <1>1, <1>2
  <1> HIDE DEF P
  <1>5. P(1) * 1 + P(2) * 2 + P(4) * 4 + P(8) * 8 + P(16) * 16 + P(32) * 32
          + P(64) * 64 + P(128) * 128 \in 0 .. BYTE - 1
    BY <1>3, <1>4, BitSum
  <1> QED
    BY <1>5 DEF BitwiseByte, P, A, B

\* A bitwise operation on words is a word.
LEMMA BitwiseType ==
    ASSUME NEW a \in Val, NEW b \in Val
    PROVE  /\ Xor(a, b) \in Val
           /\ Or(a, b) \in Val
           /\ And(a, b) \in Val
           /\ AndNot(a, b) \in Val
  <1>1. \A k \in Lane : Byte(a, k) \in 0 .. BYTE - 1 /\ Byte(b, k) \in 0 .. BYTE - 1
    BY ByteType
  <1>2. {0, 1, 2, 3} = Lane
    BY DEF Lane
  <1>3. Xor(a, b) \in Val
    BY ZenonT(40), <1>1, <1>2, XorByte, Word4Type DEF Xor, BitwiseOp
  <1>4. Or(a, b) \in Val
    BY ZenonT(40), <1>1, <1>2, OrByte, Word4Type DEF Or, BitwiseOp
  <1>5. And(a, b) \in Val
    BY ZenonT(40), <1>1, <1>2, AndByte, Word4Type DEF And, BitwiseOp
  <1>6. AndNot(a, b) \in Val
    BY ZenonT(40), <1>1, <1>2, AndNotByte, Word4Type DEF AndNot, BitwiseOp
  <1> QED
    BY <1>3, <1>4, <1>5, <1>6

\* The 33-bit adder.
LEMMA XaddType ==
    ASSUME NEW sub \in BOOLEAN, NEW fn3 \in 0..7, NEW a \in Val, NEW b \in Val
    PROVE  /\ Xadd(sub, fn3, a, b) \in 0 .. 2 * M - 1
           /\ Xadd(sub, fn3, a, b) % M \in Val
           /\ Xadd(sub, fn3, a, b) \div M \in {0, 1}
  BY Sizes DEF Xadd, wop, Neg, Val

\* The power of two of the shifter.
LEMMA Pow2Type ==
    ASSUME NEW n \in 0..31
    PROVE  Pow2(n) \in Nat /\ Pow2(n) >= 1
  BY DEF Pow2, Bit

\* The shifter yields a word, except for the left shift with bit 30 set.
LEMMA XshfType ==
    ASSUME NEW fn3 \in 0..7, NEW b30 \in BOOLEAN, NEW a \in Val, NEW b \in Val
    PROVE  /\ Xshf(fn3, b30, a, b) \in XVal
           /\ fn3 >= 4 \/ ~b30 => Xshf(fn3, b30, a, b) \in Val
  <1> DEFINE n == Pow2(b % XLEN)
  <1>1. b % XLEN \in 0..31
    BY Sizes DEF Val
  <1>2. n \in Nat /\ n >= 1
    BY <1>1, Pow2Type
  <1> HIDE DEF n
  <1>3. a * n \in Nat
    BY <1>2, Sizes DEF Val
  <1>4. (a * n) % M \in Val
    BY <1>3, Sizes DEF Val
  <1>5. a \div n \in Val
    BY <1>2, Sizes DEF Val
  <1>6. ((IF Neg(a) THEN a - M ELSE a) \div n) % M \in Val
    BY <1>2, Sizes DEF Val
  <1> QED
    BY <1>4, <1>5, <1>6 DEF Xshf, XVal, n

\* The result of the ALU is a word; the encodings that have none are those
\* with a left shift and bit 30 set.
LEMMA XaluType ==
    ASSUME NEW fn3 \in 0..7, NEW b30 \in BOOLEAN, NEW add \in 0 .. 2 * M - 1,
           NEW a \in Val, NEW b \in Val
    PROVE  /\ Xalu(fn3, b30, add, a, b) \in XVal
           /\ (fn3 = 1 => ~b30) => Xalu(fn3, b30, add, a, b) \in Val
  <1>1. add % M \in Val /\ add \div M \in Val
    BY Sizes DEF Val
  <1>2. /\ Xshf(fn3, b30, a, b) \in XVal
        /\ fn3 >= 4 \/ ~b30 => Xshf(fn3, b30, a, b) \in Val
    BY XshfType
  <1>3. fn3 \in {4, 6, 7} => Xlog(fn3, a, b) \in Val
    BY BitwiseType DEF Xlog
  <1> QED
    BY <1>1, <1>2, <1>3 DEF Xalu, XVal

\* The store data is a word for the three sizes of a store.
LEMMA XdatType ==
    ASSUME NEW fn3 \in 0..7, NEW v \in Val
    PROVE  /\ Xdat(fn3, v) \in XVal
           /\ fn3 % 4 # 3 => Xdat(fn3, v) \in Val
  <1>1. \A k \in Lane : Byte(v, k) \in 0 .. BYTE - 1
    BY ByteType
  <1>2. \A j, k, l, m \in Lane : Word4(Byte(v, j), Byte(v, k), Byte(v, l), Byte(v, m)) \in Val
    BY <1>1, Word4Type
  <1>3. {0, 1, 2, 3} = Lane
    BY DEF Lane
  <1> QED
    BY <1>2, <1>3 DEF Xdat, XVal

\* The lane sets the byte selection can produce.
LaneSets == {{}, {0}, {1}, {2}, {3}, {0, 1}, {2, 3}, Lane}

\* Byte selection; a known offset and a size of 3 give no lane.
LEMMA XselType ==
    ASSUME NEW fn3 \in 0..7, NEW off \in Lane \cup {X}
    PROVE  /\ Xsel(fn3, off) \in LaneSets
           /\ fn3 % 4 = 3 => Xsel(fn3, off) = {}
  BY DEF Xsel, LaneSets, Lane

\* Sign or zero extension of a byte or a half yields a word.
LEMMA ExtendType ==
    ASSUME NEW fn3 \in 0..7, NEW n \in {BYTE, BYTE * BYTE}, NEW v \in 0 .. n - 1
    PROVE  Extend(fn3, v, n) \in Val
  BY ByteAssumption, Sizes DEF Extend, Val

\* The lane sets are different from one another.
LEMMA LaneSetsDiffer ==
    /\ {0} # {1} /\ {0} # {2} /\ {0} # {3} /\ {1} # {2} /\ {1} # {3} /\ {2} # {3}
    /\ {0} # {0, 1} /\ {1} # {0, 1} /\ {2} # {0, 1} /\ {3} # {0, 1}
    /\ {0} # {2, 3} /\ {1} # {2, 3} /\ {2} # {2, 3} /\ {3} # {2, 3}
    /\ {0} # Lane /\ {1} # Lane /\ {2} # Lane /\ {3} # Lane
    /\ {0, 1} # {2, 3} /\ {0, 1} # Lane /\ {2, 3} # Lane
    /\ {0} # {} /\ {1} # {} /\ {2} # {} /\ {3} # {}
    /\ {0, 1} # {} /\ {2, 3} # {} /\ Lane # {}
  BY DEF Lane

\* The load extension yields a word for every lane set but the empty one.
LEMMA DextType ==
    ASSUME NEW sel \in LaneSets, NEW fn3 \in 0..7, NEW dti \in Val
    PROVE  /\ Dext(sel, fn3, dti) \in XVal
           /\ sel # {} => Dext(sel, fn3, dti) \in Val
  <1>1. \A k \in Lane : Extend(fn3, Byte(dti, k), BYTE) \in Val
    BY ByteType, ExtendType
  <1>2. /\ dti % (BYTE * BYTE) \in 0 .. BYTE * BYTE - 1
        /\ dti \div (BYTE * BYTE) \in 0 .. BYTE * BYTE - 1
    BY ByteAssumption, Sizes DEF Val
  <1>3. /\ Extend(fn3, dti % (BYTE * BYTE), BYTE * BYTE) \in Val
        /\ Extend(fn3, dti \div (BYTE * BYTE), BYTE * BYTE) \in Val
    BY <1>2, ExtendType
  <1>4. 0 \in Lane /\ 1 \in Lane /\ 2 \in Lane /\ 3 \in Lane
    BY DEF Lane
  <1> QED
    BY <1>1, <1>3, <1>4, LaneSetsDiffer DEF Dext, XVal, LaneSets

\* Quotient and remainder by the size of a byte, and divisions in a row.
LEMMA ByteDivision ==
    ASSUME NEW v \in Nat
    PROVE  /\ v \div BYTE \in Nat /\ v % BYTE \in 0 .. BYTE - 1
           /\ (v % BYTE) + BYTE * (v \div BYTE) = v
           /\ (v \div BYTE) \div BYTE = v \div (BYTE * BYTE)
           /\ (v \div (BYTE * BYTE)) \div BYTE = v \div (BYTE * BYTE * BYTE)
  <1>1. CASE BYTE = 2
    <2>1. /\ v \div 2 \in Nat /\ v % 2 \in 0 .. 1 /\ (v % 2) + 2 * (v \div 2) = v
          /\ (v \div 2) \div 2 = v \div 4
          /\ (v \div 4) \div 2 = v \div 8
      OBVIOUS
    <2> QED
      BY <1>1, <2>1
  <1>2. CASE BYTE = 4
    <2>1. /\ v \div 4 \in Nat /\ v % 4 \in 0 .. 3 /\ (v % 4) + 4 * (v \div 4) = v
          /\ (v \div 4) \div 4 = v \div 16
          /\ (v \div 16) \div 4 = v \div 64
      OBVIOUS
    <2> QED
      BY <1>2, <2>1
  <1>3. CASE BYTE = 16
    <2>1. /\ v \div 16 \in Nat /\ v % 16 \in 0 .. 15 /\ (v % 16) + 16 * (v \div 16) = v
          /\ (v \div 16) \div 16 = v \div 256
          /\ (v \div 256) \div 16 = v \div 4096
      OBVIOUS
    <2> QED
      BY <1>3, <2>1
  <1>4. CASE BYTE = 256
    <2>1. /\ v \div 256 \in Nat /\ v % 256 \in 0 .. 255 /\ (v % 256) + 256 * (v \div 256) = v
          /\ (v \div 256) \div 256 = v \div 65536
          /\ (v \div 65536) \div 256 = v \div 16777216
      OBVIOUS
    <2> QED
      BY <1>4, <2>1
  <1> QED
    BY <1>1, <1>2, <1>3, <1>4, ByteAssumption

\* A number with its last byte split off is put together in one way.
LEMMA ByteUnique ==
    ASSUME NEW r \in 0 .. BYTE - 1, NEW q \in Nat
    PROVE  (r + BYTE * q) % BYTE = r /\ (r + BYTE * q) \div BYTE = q
  <1>1. CASE BYTE = 2
    <2>1. r \in 0 .. 1 => (r + 2 * q) % 2 = r /\ (r + 2 * q) \div 2 = q
      OBVIOUS
    <2> QED
      BY <1>1, <2>1
  <1>2. CASE BYTE = 4
    <2>1. r \in 0 .. 3 => (r + 4 * q) % 4 = r /\ (r + 4 * q) \div 4 = q
      OBVIOUS
    <2> QED
      BY <1>2, <2>1
  <1>3. CASE BYTE = 16
    <2>1. r \in 0 .. 15 => (r + 16 * q) % 16 = r /\ (r + 16 * q) \div 16 = q
      OBVIOUS
    <2> QED
      BY <1>3, <2>1
  <1>4. CASE BYTE = 256
    <2>1. r \in 0 .. 255 => (r + 256 * q) % 256 = r /\ (r + 256 * q) \div 256 = q
      OBVIOUS
    <2> QED
      BY <1>4, <2>1
  <1> QED
    BY <1>1, <1>2, <1>3, <1>4, ByteAssumption

\* The weights of the bytes of a word.
LEMMA Horner ==
    ASSUME NEW b0 \in Int, NEW b1 \in Int, NEW b2 \in Int, NEW b3 \in Int
    PROVE  Word4(b0, b1, b2, b3) = b0 + BYTE * (b1 + BYTE * (b2 + BYTE * b3))
  BY ByteAssumption DEF Word4

\* The bytes of a word that is put together from bytes.
LEMMA ByteOfWord4 ==
    ASSUME NEW b0 \in 0 .. BYTE - 1, NEW b1 \in 0 .. BYTE - 1,
           NEW b2 \in 0 .. BYTE - 1, NEW b3 \in 0 .. BYTE - 1
    PROVE  /\ Byte(Word4(b0, b1, b2, b3), 0) = b0
           /\ Byte(Word4(b0, b1, b2, b3), 1) = b1
           /\ Byte(Word4(b0, b1, b2, b3), 2) = b2
           /\ Byte(Word4(b0, b1, b2, b3), 3) = b3
  <1> DEFINE q3 == b3 + BYTE * 0
             q2 == b2 + BYTE * q3
             q1 == b1 + BYTE * q2
             w == b0 + BYTE * q1
  <1>1. BYTE \in Nat /\ q3 \in Nat /\ q3 = b3
    BY ByteAssumption
  <1> HIDE DEF q3
  <1>2. q2 \in Nat
    BY <1>1
  <1>3. q2 % BYTE = b2 /\ q2 \div BYTE = q3
    BY <1>1, ByteUnique
  <1> HIDE DEF q2
  <1>4. q1 \in Nat
    BY <1>1, <1>2
  <1>5. q1 % BYTE = b1 /\ q1 \div BYTE = q2
    BY <1>2, ByteUnique
  <1> HIDE DEF q1
  <1>6. w \in Nat
    BY <1>1, <1>4
  <1>7. w % BYTE = b0 /\ w \div BYTE = q1
    BY <1>4, ByteUnique
  <1>8. Word4(b0, b1, b2, b3) = w
    BY <1>1, Horner DEF q1, q2
  <1> HIDE DEF w
  <1>9. w \div (BYTE * BYTE) = q2 /\ w \div (BYTE * BYTE * BYTE) = q3
    BY <1>3, <1>5, <1>6, <1>7, ByteDivision, Zenon
  <1>10. q3 % BYTE = b3
    BY <1>1
  <1> QED
    BY <1>3, <1>5, <1>7, <1>8, <1>9, <1>10 DEF Byte

\* A word is made of its four bytes, and a half of it of two.
LEMMA Bytes ==
    ASSUME NEW w \in Val
    PROVE  /\ \A n \in Lane : Byte(w, n) \in 0 .. BYTE - 1
           /\ w = Word4(Byte(w, 0), Byte(w, 1), Byte(w, 2), Byte(w, 3))
           /\ w % (BYTE * BYTE) = Byte(w, 0) + BYTE * Byte(w, 1)
           /\ (w \div (BYTE * BYTE)) % (BYTE * BYTE) = Byte(w, 2) + BYTE * Byte(w, 3)
  <1> DEFINE q1 == w \div BYTE
             q2 == w \div (BYTE * BYTE)
             q3 == w \div (BYTE * BYTE * BYTE)
  <1>1. w \in Nat
    BY Sizes DEF Val
  <1>2. BYTE \in Nat /\ q1 \in Nat /\ q1 \div BYTE = q2 /\ q2 \div BYTE = q3
    BY <1>1, ByteDivision, ByteAssumption
  <1> HIDE DEF q1, q2, q3
  <1>3. (w % BYTE) + BYTE * q1 = w /\ w % BYTE \in 0 .. BYTE - 1
    BY <1>1, ByteDivision, Zenon DEF q1
  <1>4. (q1 % BYTE) + BYTE * q2 = q1 /\ q1 % BYTE \in 0 .. BYTE - 1 /\ q2 \in Nat
    BY <1>2, ByteDivision, Zenon
  <1>5. (q2 % BYTE) + BYTE * q3 = q2 /\ q2 % BYTE \in 0 .. BYTE - 1 /\ q3 \in Nat
    BY <1>2, <1>4, ByteDivision, Zenon
  <1>6. q3 \in 0 .. BYTE - 1 /\ q3 % BYTE = q3
    <2>1. w < BYTE * (BYTE * (BYTE * BYTE))
      BY <1>1, <1>2 DEF Val, M
    <2> QED
      BY <1>2, <1>3, <1>4, <1>5, <2>1, ByteAssumption
  <1>7. /\ Byte(w, 0) = w % BYTE /\ Byte(w, 1) = q1 % BYTE
        /\ Byte(w, 2) = q2 % BYTE /\ Byte(w, 3) = q3 % BYTE
    BY DEF Byte, q1, q2, q3
  <1> DEFINE b0 == w % BYTE
             b1 == q1 % BYTE
             b2 == q2 % BYTE
             b3 == q3 % BYTE
  <1> HIDE DEF b0, b1, b2, b3
  <1>8. /\ b0 \in 0 .. BYTE - 1 /\ b1 \in 0 .. BYTE - 1
        /\ b2 \in 0 .. BYTE - 1 /\ b3 \in 0 .. BYTE - 1
    BY <1>3, <1>4, <1>5, <1>6 DEF b0, b1, b2, b3
  <1>9. b0 + BYTE * q1 = w /\ b1 + BYTE * q2 = q1 /\ b2 + BYTE * b3 = q2
    BY <1>3, <1>4, <1>5, <1>6 DEF b0, b1, b2, b3
  <1>10. w = Word4(b0, b1, b2, b3)
    <2>1. b0 \in Int /\ b1 \in Int /\ b2 \in Int /\ b3 \in Int
      BY <1>2, <1>8
    <2>2. Word4(b0, b1, b2, b3) = b0 + BYTE * (b1 + BYTE * (b2 + BYTE * b3))
      BY <2>1, Horner
    <2> QED
      BY <1>1, <1>2, <1>4, <1>9, <2>1, <2>2
  <1>11. q2 \in 0 .. BYTE * BYTE - 1 /\ q2 % (BYTE * BYTE) = q2
    BY <1>8, <1>9, ByteAssumption
  <1>12. w % (BYTE * BYTE) = b0 + BYTE * b1
    BY <1>2, <1>4, <1>8, <1>9, ByteAssumption
  <1> QED
    BY <1>7, <1>8, <1>9, <1>10, <1>11, <1>12 DEF b0, b1, b2, b3, q2, Lane
=============================================================================
