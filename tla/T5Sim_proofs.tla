---------------------------- MODULE T5Sim_proofs ----------------------------
(***************************************************************************)
(* What the core keeps in a free environment it keeps in the simulator,    *)
(* and the simulator keeps its own types, for every program, every memory  *)
(* map, every word size and every value iadr may start with.  The          *)
(* simulator's part of the argument is that it puts words on the buses     *)
(* only: what is stored is defined, or no byte lane of it is.              *)
(***************************************************************************)
EXTENDS T5Sim, T5Rv32i_proofs

\* The result of a store is a word if the stored value is one or no lane is.
LEMMA MergeType ==
    ASSUME NEW sel, NEW old \in Val, NEW dat, dat \in Val \/ sel = {}
    PROVE  Merge(sel, old, dat) \in Val
  <1> DEFINE b(k) == IF k \in sel THEN Byte(dat, k) ELSE Byte(old, k)
  <1>1. \A k \in Lane : b(k) \in 0 .. BYTE - 1
    BY ByteType
  <1>2. Merge(sel, old, dat) = Word4(b(0), b(1), b(2), b(3))
    BY DEF Merge
  <1>3. b(0) \in 0 .. BYTE - 1 /\ b(1) \in 0 .. BYTE - 1
        /\ b(2) \in 0 .. BYTE - 1 /\ b(3) \in 0 .. BYTE - 1
    BY <1>1 DEF Lane
  <1> HIDE DEF b
  <1> QED
    BY <1>2, <1>3, Word4Type

\* A masked address is an address.
LEMMA MaskType == \A adr \in PC : Mask(adr) \in PC
  BY Sizes DEF Mask, PC

\* Serving the buses keeps the types of the simulator.
LEMMA ServeType ==
    ASSUME SimInv, Fetched \in Ram, Serve
    PROVE  /\ ram' \in [Ram -> Val] /\ iadr' \in PC /\ dadr' \in PC
           /\ iwb_dat' \in Val /\ dwb_dti' \in Val /\ mtimecmp' \in XVal /\ dwb_ack' \in BOOLEAN
  <1>1. /\ iwb_adr \in PC /\ xbpc \in XPC /\ xdat \in XVal /\ xstb \in 0..3
        /\ ram \in [Ram -> Val] /\ iadr \in PC /\ dadr \in PC /\ mtimecmp \in XVal
    BY DEF SimInv, SimTypeOK, TypeOK, InstTypeOK, AsluTypeOK, DataTypeOK
  <1>2. /\ dwb_stb => xbpc \in PC
        /\ dwb_stb => xdat \in Val \/ xsel = {}
    BY <1>1 DEF SimInv, IndInv, ExecuteInv, dwb_stb, XPC, XVal
  <1>3. iadr' \in PC /\ iadr' \in Ram /\ dadr' \in PC
    BY <1>1, <1>2, MaskType DEF Serve, Fetched, dwb_adr
  <1>4. ram' \in [Ram -> Val]
    <2>1. CASE Storing /\ dwb_adr \in Ram
      <3>1. Merge(xsel, ram[dwb_adr], xdat) \in Val
        BY <1>1, <1>2, <2>1, MergeType DEF Storing
      <3> QED
        BY <1>1, <2>1, <3>1 DEF Serve
    <2>2. CASE ~(Storing /\ dwb_adr \in Ram)
      BY <1>1, <2>2 DEF Serve
    <2> QED
      BY <2>1, <2>2
  <1>5. mtimecmp' \in XVal
    BY <1>1 DEF Serve
  <1>6. dwb_ack' \in BOOLEAN
    BY Zenon DEF Serve
  <1>7. 0 \in Val
    BY Sizes DEF Val
  <1>8. iwb_dat' \in Val /\ dwb_dti' \in Val
    BY <1>3, <1>4, <1>7 DEF Serve
  <1> QED
    BY <1>3, <1>4, <1>5, <1>6, <1>8

\* What is on the data bus when the core is clocked is a word.
LEMMA BusWord ==
    ASSUME SimInv,
           NEW dti \in IF Loading /\ dwb_adr \notin Ram THEN IoRead(dwb_adr) ELSE {dwb_dti}
    PROVE  dti \in Val
  <1>1. dwb_dti \in Val /\ mtimecmp \in XVal /\ 0 \in Val
    BY Sizes DEF SimInv, SimTypeOK, Val
  <1>2. IoRead(dwb_adr) \subseteq Val
    BY <1>1, SimAssumption DEF IoRead, Known, XVal
  <1> QED
    BY <1>1, <1>2

\* An edge of the core in the simulator preserves the invariant of the core.
LEMMA ClockStep ==
    ASSUME SimInv, NEW dti \in Val, Clock(dti)
    PROVE  IndInv'
  <1>1. /\ IndInv /\ Decode[iwb_dat] \in Instr
        /\ dwb_ack \in BOOLEAN /\ sys_rst \in BOOLEAN /\ TRUE \in BOOLEAN
    BY SimAssumption DEF SimInv, SimTypeOK, sys_rst
  <1>2. CASE Reset(sys_rst)
    BY <1>1, <1>2, ResetStep, Zenon
  <1>3. CASE Advance(sys_rst, TRUE, dwb_ack, Decode[iwb_dat], dti)
    BY <1>1, <1>3, AdvanceStep, Zenon
  <1>4. CASE Stall(sys_rst, TRUE, dwb_ack)
    BY <1>1, <1>4, StallStep, Zenon
  <1> QED
    BY <1>2, <1>3, <1>4 DEF Clock

\* An iteration, a break or a step of something else preserves the invariant.
LEMMA SimStep ==
    ASSUME SimInv, [SimNext]_allVars
    PROVE  SimInv'
  <1>1. IndInv
    BY DEF SimInv
  <1>2. CASE Cycle
    <2>1. IndInv'
      BY <1>2, BusWord, ClockStep DEF Cycle
    <2>2. cnt' \in 3 .. FREE /\ halt' \in BOOLEAN
      BY <1>2 DEF Cycle, SimInv, SimTypeOK, FREE, sys_rst
    <2>3. CASE sys_rst
      <3>1. UNCHANGED <<ram, iadr, dadr, iwb_dat, dwb_dti, dwb_ack, mtimecmp>>
        BY <1>2, <2>3 DEF Cycle
      <3> QED
        BY <2>1, <2>2, <3>1 DEF SimInv, SimTypeOK, IndInv
    <2>4. CASE ~sys_rst
      <3>1. Fetched \in Ram /\ Serve
        BY <1>2, <2>4 DEF Cycle
      <3> QED
        BY <2>1, <2>2, <3>1, ServeType DEF SimInv, SimTypeOK, IndInv
    <2> QED
      BY <2>3, <2>4
  <1>3. CASE BadFetch \/ TestEnd \/ UNCHANGED allVars
    <2>1. /\ UNCHANGED vars /\ halt' \in BOOLEAN
          /\ UNCHANGED <<cnt, ram, iadr, dadr, iwb_dat, dwb_dti, dwb_ack, mtimecmp>>
      BY <1>3 DEF BadFetch, TestEnd, allVars, simVars, SimInv, SimTypeOK
    <2>2. IndInv'
      BY <1>1, <2>1, StutterStep
    <2> QED
      BY <2>1, <2>2 DEF SimInv, SimTypeOK, IndInv
  <1> QED
    BY <1>2, <1>3 DEF SimNext

-----------------------------------------------------------------------------
(***************************************************************************)
(* The theorems                                                            *)
(***************************************************************************)
\* SimInv is an invariant of the core in the simulator.
THEOREM SimInductive == SimSpec => []SimInv
  <1>1. SimInit => SimInv
    <2> SUFFICES ASSUME SimInit PROVE SimInv
      OBVIOUS
    <2>1. IndInv
      BY InitInv DEF SimInit
    <2>2. 0 \in Val /\ 0 \in PC /\ M - 1 \in Val
      BY Sizes DEF Val, PC
    <2>3. halt \in BOOLEAN /\ dwb_ack \in BOOLEAN
      BY Zenon DEF SimInit
    <2>4. cnt \in 3 .. FREE
      BY DEF SimInit, FREE
    <2>5. /\ ram \in [Ram -> Val] /\ iadr \in PC /\ dadr \in PC
          /\ iwb_dat \in Val /\ dwb_dti \in Val /\ mtimecmp \in XVal
      BY <2>2, SimAssumption, Zenon DEF SimInit, XVal
    <2> QED
      BY <2>1, <2>3, <2>4, <2>5 DEF SimInv, SimTypeOK, IndInv
  <1>2. SimInv /\ [SimNext]_allVars => SimInv'
    BY SimStep
  <1> QED
    BY <1>1, <1>2, PTL DEF SimSpec

\* The simulator and the core keep their types (t5_sim.cc indexes the memory
\* with iadr and dadr, and what it reads there is always a word).
THEOREM SimTypeCorrect == SimSpec => []SimTypeOK
  <1>1. SimInv => SimTypeOK
    BY DEF SimInv
  <1> QED
    BY <1>1, SimInductive, PTL

\* Whatever program is loaded, no undefined value reaches the register file,
\* the fetch address or the memory.
THEOREM SimDefined == SimSpec => []NoUnknown
  <1>1. SimInv => NoUnknown
    BY DEF SimInv, IndInv, ExecuteInv, NoUnknown
  <1> QED
    BY <1>1, SimInductive, PTL

-----------------------------------------------------------------------------
\* An edge of the core moves fpc and the reset register as follows.
LEMMA FetchEdge ==
    ASSUME SimInv, FetchInv, NEW dti, Clock(dti)
    PROVE  \/ srst /\ fpc' = 0 /\ ena' = FALSE /\ rst' = IF sys_rst THEN 15 ELSE (2 * rst) % 16
           \/ /\ rst = 0 /\ rst' = 0 /\ ~sys_rst
              /\ fpc' = IF iwb_stb THEN iwb_adr ELSE fpc
  <1>1. rst \in {15, 14, 12, 8, 0} /\ (sys_rst => rst = 15)
    BY DEF SimInv, IndInv, ResetInv, FetchInv
  <1>2. CASE Reset(sys_rst)
    BY <1>2, Zenon DEF Reset, Always, SyscEdge, InstReset
  <1>3. CASE Advance(sys_rst, TRUE, dwb_ack, Decode[iwb_dat], dti)
    <2>1. iwb_stb /\ ~srst /\ Always(sys_rst, TRUE) /\ fpc' = iwb_adr
      BY <1>3, Zenon DEF Advance, iwb_stb, InstAdvance
    <2> QED
      BY <1>1, <2>1 DEF Always, SyscEdge, srst
  <1>4. CASE Stall(sys_rst, TRUE, dwb_ack)
    <2>1. ~iwb_stb /\ ~srst /\ Always(sys_rst, FALSE) /\ fpc' = fpc
      BY <1>4, Zenon DEF Stall, iwb_stb, InstHold
    <2> QED
      BY <1>1, <2>1 DEF Always, SyscEdge, srst
  <1> QED
    BY <1>2, <1>3, <1>4, Zenon DEF Clock

\* An iteration keeps the fetched word and its address together.
LEMMA FetchStep ==
    ASSUME SimInv, FetchInv, [SimNext]_allVars
    PROVE  FetchInv'
  <1>1. CASE Cycle
    <2>1. PICK dti : Clock(dti)
      BY <1>1 DEF Cycle
    <2>2. (sys_rst)' => sys_rst
      BY <1>1 DEF Cycle, sys_rst, FREE, SimInv, SimTypeOK
    <2>3. CASE srst
      <3>1. fpc' = 0 /\ ena' = FALSE /\ rst' = IF sys_rst THEN 15 ELSE (2 * rst) % 16
        <4>1. rst # 0
          BY <2>3 DEF srst
        <4> QED
          BY <2>1, <4>1, FetchEdge, Zenon
      <3>2. ~iwb_stb /\ iadr = 0
        BY <2>3, Zenon DEF FetchInv, iwb_stb, sena
      <3>3. iadr' = 0
        BY <1>1, <3>2 DEF Cycle, Serve, Fetched
      <3>4. rst' # 15 => iwb_dat' = ram'[iadr']
        BY <1>1, <3>1 DEF Cycle, Serve
      <3>5. Mask(0) = 0
        BY Sizes DEF Mask
      <3> QED
        BY <2>2, <3>1, <3>3, <3>4, <3>5 DEF FetchInv, Mask
    <2>4. CASE ~srst
      <3>1. rst = 0 /\ rst' = 0 /\ ~sys_rst /\ fpc' = IF iwb_stb THEN iwb_adr ELSE fpc
        BY <2>1, <2>4, FetchEdge, Zenon
      <3>2. iadr' = Mask(fpc') /\ iwb_dat' = ram'[iadr']
        BY <1>1, <3>1 DEF Cycle, Serve, Fetched, FetchInv
      <3>3. ~(srst)'
        BY <3>1 DEF srst
      <3> QED
        BY <2>2, <3>1, <3>2, <3>3 DEF FetchInv, Mask
    <2> QED
      BY <2>3, <2>4
  <1>2. CASE BadFetch \/ TestEnd \/ UNCHANGED allVars
    BY <1>2 DEF BadFetch, TestEnd, allVars, simVars, vars, syscVars, instVars, FetchInv,
                sys_rst, srst, Mask
  <1> QED
    BY <1>1, <1>2 DEF SimNext

\* If the variable iadr of t5_sim.cc starts at 0, the word every hart decodes is
\* the one at the address that travels with it, whatever the program, its
\* stores into itself included, the stalls and the break.
THEOREM WordFetched == ASSUME IadrInit \subseteq {0} PROVE SimSpec => []WordMatchesPc
  <1>1. SimInit => FetchInv
    <2> SUFFICES ASSUME SimInit PROVE FetchInv
      OBVIOUS
    <2>1. rst = 15 /\ iadr = 0 /\ fpc = 0 /\ ena = FALSE
      BY DEF SimInit, Init
    <2>2. Mask(0) = 0
      BY Sizes DEF Mask
    <2> QED
      BY <2>1, <2>2 DEF FetchInv
  <1>2. SimInv /\ FetchInv /\ [SimNext]_allVars => FetchInv'
    BY FetchStep
  <1>3. SimInv /\ FetchInv => WordMatchesPc
    BY DEF FetchInv, WordMatchesPc, Running, srst
  <1> QED
    BY <1>1, <1>2, <1>3, SimInductive, PTL DEF SimSpec
=============================================================================
