------------------------------- MODULE T5Alu --------------------------------
(***************************************************************************)
(* The combinational datapath of t5_aslu.v, t5_data.v and t5_back.v, as    *)
(* operators on words: adder, logic unit, shifter, comparator, byte        *)
(* selection, store data replication and load extension.                   *)
(***************************************************************************)
EXTENDS T5Word

(***************************************************************************)
(* ADD32: the operands are extended to 33 bits, with the sign unless fn3   *)
(* is 3, 6 or 7.                                                           *)
(***************************************************************************)
\* Mutants of wop: no sign, or the sign for BLTU too.
wopUnsigned(fn3, v) == v
wopSigned6(fn3, v) == v + (IF fn3 \notin {3, 7} /\ Neg(v) THEN M ELSE 0)
wop(fn3, v) == v + (IF fn3 \notin {3, 6, 7} /\ Neg(v) THEN M ELSE 0)
Xadd(sub, fn3, a, b) == (IF sub THEN wop(fn3, a) - wop(fn3, b)
                                ELSE wop(fn3, a) + wop(fn3, b)) % (2 * M)

Xlog(fn3, a, b) == CASE fn3 % 4 = 0 -> Xor(a, b)
                     [] fn3 % 4 = 2 -> Or(a, b)
                     [] fn3 % 4 = 3 -> And(a, b)
                     [] OTHER -> X

Xshf(fn3, b30, a, b) ==
    LET n == Pow2(b % XLEN)
    IN  CASE fn3 < 4 /\ ~b30 -> (a * n) % M
          [] fn3 >= 4 /\ ~b30 -> a \div n
          [] fn3 >= 4 /\ b30 -> ((IF Neg(a) THEN a - M ELSE a) \div n) % M
          [] OTHER -> X

\* xcmp, from the result of the 33-bit subtraction.
Xcmp(fn3, add) == \/ fn3 = 0 /\ add % M = 0
                  \/ fn3 = 1 /\ add % M # 0
                  \/ fn3 \in {5, 7} /\ add < M
                  \/ fn3 \in {2, 3, 4, 6} /\ add >= M

Xalu(fn3, b30, add, a, b) ==
    CASE fn3 = 0 -> add % M
      [] fn3 \in {1, 5} -> Xshf(fn3, b30, a, b)
      [] fn3 \in {2, 3} -> add \div M
      [] OTHER -> Xlog(fn3, a, b)

\* Byte lanes of an access of size fn3[13:12] at offset off; none: misaligned.
Xsel(fn3, off) == CASE fn3 % 4 = 0 /\ off \in Lane -> {off}
                    [] fn3 % 4 = 1 /\ off \in {0, 2} -> {off, off + 1}
                    [] fn3 % 4 = 2 /\ off = 0 -> Lane
                    [] OTHER -> {}

\* Mutant of Xdat: a half is not replicated.
XdatLow(fn3, v) == IF fn3 % 4 = 0 THEN Word4(Byte(v, 0), Byte(v, 0), Byte(v, 0), Byte(v, 0))
                                  ELSE v

\* The store data: a byte on all four lanes, a half on both halves.
Xdat(fn3, v) ==
    LET b(k) == Byte(v, k)
    IN  CASE fn3 % 4 = 0 -> Word4(b(0), b(0), b(0), b(0))
          [] fn3 % 4 = 1 -> Word4(b(0), b(1), b(0), b(1))
          [] fn3 % 4 = 2 -> v
          [] OTHER -> X

\* Mutant of Extend: the smallest negative value is taken for a positive one.
ExtendLate(fn3, v, n) == IF fn3 < 4 /\ v > n \div 2 THEN v + M - n ELSE v

\* Extension of a value of n < M values to a word; fn3[14] asks for zeroes.
Extend(fn3, v, n) == IF fn3 < 4 /\ v >= n \div 2 THEN v + M - n ELSE v

\* The loaded value, from the lanes selected on the data bus.
Dext(sel, fn3, dti) ==
    LET byte(k) == Extend(fn3, Byte(dti, k), BYTE)
        half(v) == Extend(fn3, v, BYTE * BYTE)
    IN  CASE sel = {0} -> byte(0)
          [] sel = {1} -> byte(1)
          [] sel = {2} -> byte(2)
          [] sel = {3} -> byte(3)
          [] sel = {0, 1} -> half(dti % (BYTE * BYTE))
          [] sel = {2, 3} -> half(dti \div (BYTE * BYTE))
          [] sel = Lane -> dti
          [] OTHER -> X

\* What a store of dat with lanes sel leaves in a word.
Merge(sel, old, dat) ==
    LET b(k) == IF k \in sel THEN Byte(dat, k) ELSE Byte(old, k)
    IN  Word4(b(0), b(1), b(2), b(3))
=============================================================================
