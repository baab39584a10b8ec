------------------------------- MODULE T5Sim --------------------------------
(***************************************************************************)
(* t5_sim.cc: the simulator, which gives the core a memory and a clock.  A *)
(* step is one iteration of its main loop: serve the buses, then one       *)
(* rising edge of the core, then put the fetched words on the buses.       *)
(*                                                                         *)
(* The acknowledge computed in an iteration is seen by the core from the   *)
(* next one on, as from a register clocked by the same edge.               *)
(***************************************************************************)
EXTENDS T5Rv32i, T5Mem

CONSTANTS IadrInit,    \* what the uninitialised variable iadr may hold
          Program,     \* the images the RAM may be loaded with
          Mtime        \* what the timer may read

VARIABLES cnt,         \* iteration of the main loop, up to FREE
          halt,        \* the loop has been left by a break
          ram, iadr, dadr, iwb_dat, dwb_dti, dwb_ack, mtimecmp
simVars == <<cnt, halt, ram, iadr, dadr, iwb_dat, dwb_dti, dwb_ack, mtimecmp>>
allVars == <<vars, simVars>>

ASSUME SimAssumption == /\ IadrInit \subseteq PC /\ Program \subseteq [Ram -> Val]
                        /\ Mtime \subseteq Val
                        /\ \A v \in Val : Decode[v] \in Instr

FREE == 6                                      \* the first iteration without reset

SimTypeOK == /\ TypeOK
             /\ cnt \in 3 .. FREE /\ halt \in BOOLEAN /\ dwb_ack \in BOOLEAN
             /\ ram \in [Ram -> Val] /\ iadr \in PC /\ dadr \in PC
             /\ iwb_dat \in Val /\ dwb_dti \in Val /\ mtimecmp \in XVal

\* The inductive invariant of the core carries over to the simulator.
SimInv == IndInv /\ SimTypeOK

sys_rst == cnt < FREE

\* The word on the instruction bus is the one at iadr from the first iteration
\* without sys_rst on, and iadr follows fpc, if it starts at 0 as fpc does.
FetchInv == /\ sys_rst => rst = 15
            /\ srst => ~ena /\ iadr = 0
            /\ rst # 15 => iwb_dat = ram[iadr]
            /\ iadr = Mask(fpc)

iwb_stb == sena(TRUE, xstb, dwb_ack)
dwb_adr == Mask(xbpc)

SimInit == /\ Init /\ rst = 15
           /\ cnt = 3 /\ halt = FALSE
           /\ ram \in Program /\ iadr \in IadrInit /\ dadr = 0
           /\ iwb_dat = 0 /\ dwb_dti = 0 /\ dwb_ack = FALSE /\ mtimecmp = M - 1

\* The bus cycles an iteration completes.
Storing == ~sys_rst /\ dwb_stb /\ dwb_wre /\ dwb_ack
Loading == ~sys_rst /\ dwb_stb /\ ~dwb_wre /\ dwb_ack
\* Mutant of Fetched: the fetch goes on while the pipeline waits.
FetchedAlways == IF ~sys_rst THEN Mask(iwb_adr) ELSE iadr
Fetched == IF ~sys_rst /\ iwb_stb THEN Mask(iwb_adr) ELSE iadr

\* What an IO register reads as.
IoRead(adr) == CASE adr = MTIME -> Mtime
                 [] adr = MTIMECMP -> Known(mtimecmp, Val)
                 [] OTHER -> {0}

\* break: the fetch address is outside the RAM.
BadFetch == /\ ~halt /\ ~sys_rst /\ Fetched \notin Ram
            /\ halt' = TRUE
            /\ UNCHANGED <<vars, cnt, ram, iadr, dadr, iwb_dat, dwb_dti, dwb_ack, mtimecmp>>

\* break: the program stores to the HALT word.
TestEnd == /\ ~halt /\ Fetched \in Ram /\ Storing /\ dwb_adr = HALT
           /\ halt' = TRUE
           /\ UNCHANGED <<vars, cnt, ram, iadr, dadr, iwb_dat, dwb_dti, dwb_ack, mtimecmp>>

\* The bus side of an iteration.
Serve == /\ iadr' = Fetched
         /\ dadr' = IF dwb_stb THEN dwb_adr ELSE dadr
         /\ ram' = IF Storing /\ dwb_adr \in Ram
                   THEN [ram EXCEPT ![dwb_adr] = Merge(xsel, @, xdat)] ELSE ram
         /\ mtimecmp' = IF Storing /\ dwb_adr = MTIMECMP THEN xdat ELSE mtimecmp
         /\ dwb_ack' = (dwb_stb /\ ~dwb_ack)
         /\ iwb_dat' = ram'[iadr']
         /\ dwb_dti' = IF dadr' \in Ram THEN ram'[dadr'] ELSE 0

Clock(dti) == \/ Reset(sys_rst)
              \/ Advance(sys_rst, TRUE, dwb_ack, Decode[iwb_dat], dti)
              \/ Stall(sys_rst, TRUE, dwb_ack)

Cycle == /\ ~halt /\ (sys_rst \/ Fetched \in Ram) /\ ~(Storing /\ dwb_adr = HALT)
         /\ cnt' = IF sys_rst THEN cnt + 1 ELSE cnt
         /\ IF sys_rst THEN UNCHANGED <<ram, iadr, dadr, iwb_dat, dwb_dti, dwb_ack, mtimecmp>>
                       ELSE Serve
         /\ \E dti \in IF Loading /\ dwb_adr \notin Ram THEN IoRead(dwb_adr) ELSE {dwb_dti} :
               Clock(dti)
         /\ UNCHANGED halt

SimNext == BadFetch \/ TestEnd \/ Cycle

\* The main loop runs on as long as nothing breaks it.
SimSpec == SimInit /\ [][SimNext]_allVars /\ WF_allVars(SimNext)

-----------------------------------------------------------------------------
(***************************************************************************)
(* Properties                                                              *)
(***************************************************************************)
\* The program counter of every hart: the address its slot carries.
HartPc == [h \in Hart |-> CASE h = hart -> iwb_adr
                            [] h = PrevHart(hart) -> fpc
                            [] h = dhart -> depc
                            [] OTHER -> xepc]

\* The registers of every hart, with the write that is under way.
HartReg == [h \in Hart |-> [r \in Reg |->
               CASE r = 0 /\ ~Running -> 0
                 [] h = hart /\ mwre /\ mrd = r /\ Running -> rd0d
                 [] OTHER -> rRAM[h][r]]]

\* The hart in the memory slot; the bubbles that follow a reset are nobody's.
HartTurn == IF xpc = xepc THEN 2 ELSE NextHart(hart)

Threads == INSTANCE Imt WITH pc <- HartPc, reg <- HartReg, turn <- HartTurn,
                             stopped <- halt

(***************************************************************************)
(* The pipelined core with its buses, stalls and traps implements four     *)
(* harts that execute whole instructions in turn: every edge is one        *)
(* instruction of one hart, or nothing.                                    *)
(***************************************************************************)
ImplementsThreads == Threads!Spec

(***************************************************************************)
(* The word in the decode slot is the one at the address that travels with *)
(* it (iwb_dat and fpc, fetched by t5_sim.cc and latched by t5_inst.v).    *)
(***************************************************************************)
WordMatchesPc == ~halt /\ Running => iwb_dat = ram[Mask(fpc)]

(***************************************************************************)
(* The instruction a hart executes at address 0, where the reset vector    *)
(* was installed, is the one in word 0 of the RAM.                         *)
(***************************************************************************)
ResetVector == ~halt /\ Running /\ fpc = 0 => iwb_dat = ram[0]

(***************************************************************************)
(* Every hart gets its turn for ever, or the simulation is over: no bus    *)
(* cycle, trap or stall of one hart starves another.                       *)
(***************************************************************************)
EveryHartRuns == \A h \in Hart : []<>(halt \/ (HartTurn = h /\ iwb_stb))

\* This iteration completes the instruction in the memory slot.
Retires == ~halt /\ Running /\ iwb_stb /\ xpc # xepc

\* mcause of the trap hart h takes.
Cause(h) == LET i == Threads!Ins(h)
            IN  CASE i.opc = Threads!OPC_LOAD -> 4
                  [] i.opc = Threads!OPC_STORE -> 6
                  [] i.opc = Threads!OPC_SYSTEM -> IF i.csr % 2 = 1 THEN 3 ELSE 11
                  [] OTHER -> 0

(***************************************************************************)
(* While only hart 0 uses CSRs or traps (the lock-out in Zephyr's          *)
(* vector.S), a trap leaves its cause and the address of the trapping      *)
(* instruction in the shared mcause and mepc: no instruction of the hart   *)
(* that is in the execute slot at that edge disturbs them.                 *)
(***************************************************************************)
TrapRecorded ==
    [][Retires /\ ~halt' /\ Threads!Traps(HartTurn)
         => mepc' = 4 * HartPc[HartTurn] /\ mcause' = Cause(HartTurn)]_allVars

(***************************************************************************)
(* mstatus keeps the value software gave it: once MPIE has been restored   *)
(* to 1, mret enables interrupts (Zephyr's thread.c relies on it for every *)
(* new thread).                                                            *)
(***************************************************************************)
InterruptsRestored == [][Retires /\ ~halt' /\ xbra = 1 => mie' = 1]_allVars
=============================================================================
