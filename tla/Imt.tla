-------------------------------- MODULE Imt ---------------------------------
(***************************************************************************)
(* What TRA5 promises its software: interleaved multi-threading.  Four     *)
(* harts with registers and a program counter of their own share a memory; *)
(* one instruction at a time is executed, whole, by the hart whose turn it *)
(* is, and the turns go round.  No pipeline, no bus, no stall.             *)
(*                                                                         *)
(* The CSRs are shared and are not part of this specification: mtvec and   *)
(* mepc are inputs and what a CSR instruction reads is not determined,     *)
(* except for mhartid.                                                     *)
(***************************************************************************)
EXTENDS Rv32i, T5Mem

VARIABLES pc, reg, ram,
          turn,          \* the hart that executes next
          stopped,       \* the simulation has ended
          mtvec, mepc
imtVars == <<pc, reg, ram, turn, stopped>>

Init == /\ pc = [h \in Hart |-> 0]
        /\ reg \in [Hart -> [Reg -> Val]] /\ \A h \in Hart : reg[h][0] = 0
        /\ ram \in [Ram -> Val]
        /\ turn = 2 /\ stopped = FALSE

\* The operands of the next instruction of hart h, and what it would do.
Ins(h) == Decode[ram[Mask(pc[h])]]
Rs1(h) == reg[h][Ins(h).rs1]
Rs2(h) == reg[h][Ins(h).rs2]
DataAdr(h) == (Rs1(h) + Ins(h).imm) % M
DataWord(h) == Mask(DataAdr(h) \div 4)
RelAdr(h) == (4 * pc[h] + Ins(h).imm) % M
Target(h) == IF Ins(h).opc = OPC_JALR THEN 2 * (DataAdr(h) \div 2) ELSE RelAdr(h)
Jumps(h) == \/ Ins(h).opc \in {OPC_JAL, OPC_JALR}
            \/ Ins(h).opc = OPC_BRANCH /\ BranchTaken(Ins(h).fn3, Rs1(h), Rs2(h))
BadAccess(h) == /\ Ins(h).opc \in {OPC_LOAD, OPC_STORE}
                /\ DataAdr(h) % Size(Ins(h).fn3) # 0
Environment(h) == Ins(h).opc = OPC_SYSTEM /\ Ins(h).fn3 = 0
Traps(h) == \/ BadAccess(h)
            \/ Jumps(h) /\ Target(h) % 4 # 0
            \/ Environment(h) /\ Ins(h).csr # 770

NextPc(h) == IF Traps(h) THEN mtvec \div 4
             ELSE IF Environment(h) THEN mepc \div 4
             ELSE IF Jumps(h) THEN Target(h) \div 4
             ELSE (pc[h] + 1) % WORDS

\* The values rd may receive.  A jump writes the link even if it traps.
Result(h) ==
    LET i == Ins(h)
    IN  CASE i.opc = OPC_LUI -> {i.imm}
          [] i.opc = OPC_AUIPC -> {RelAdr(h)}
          [] i.opc \in {OPC_JAL, OPC_JALR} -> {(4 * pc[h] + 4) % M}
          [] i.opc = OPC_IMM -> {AluResult(i.fn3, i.b30 /\ i.fn3 = 5, Rs1(h), i.imm)}
          [] i.opc = OPC_OP -> {AluResult(i.fn3, i.b30, Rs1(h), Rs2(h))}
          [] i.opc = OPC_LOAD -> IF DataWord(h) \in Ram
                                 THEN {LoadResult(i.fn3, DataAdr(h), ram[DataWord(h)])}
                                 ELSE Val
          [] i.opc = OPC_SYSTEM -> IF i.csr = 3860 THEN {h} ELSE Val
WritesRd(h) == /\ Ins(h).rd # 0 /\ ~BadAccess(h)
               /\ Ins(h).opc \notin {OPC_STORE, OPC_BRANCH, OPC_FENCE}

\* Hart h executes one instruction.
Execute(h) ==
    /\ ~stopped /\ turn = h /\ Mask(pc[h]) \in Ram
    /\ pc' = [pc EXCEPT ![h] = NextPc(h)]
    /\ IF WritesRd(h) THEN \E v \in Result(h) : reg' = [reg EXCEPT ![h][Ins(h).rd] = v]
                      ELSE reg' = reg
    /\ ram' = IF Ins(h).opc = OPC_STORE /\ ~BadAccess(h) /\ DataWord(h) \in Ram
              THEN [ram EXCEPT ![DataWord(h)] =
                       StoreResult(Ins(h).fn3, DataAdr(h), @, Rs2(h))]
              ELSE ram
    /\ turn' = 2 * (h % 2) + (1 - (h \div 2))
    /\ UNCHANGED stopped

\* A store to the HALT word, or a hart that leaves the memory, ends it all.
Stop == /\ ~stopped
        /\ \/ \E h \in Hart : Mask(pc[h]) \notin Ram
           \/ Ins(turn).opc = OPC_STORE /\ DataWord(turn) = HALT
        /\ stopped' = TRUE
        /\ UNCHANGED <<pc, reg, ram, turn>>

Next == Stop \/ \E h \in Hart : Execute(h)

Spec == Init /\ [][Next]_imtVars
=============================================================================
