------------------------------- MODULE T5Mem --------------------------------
(***************************************************************************)
(* The memory map of the simulator, t5_sim.cc: RAM from word 0 up, an UART *)
(* and a timer above it.                                                   *)
(***************************************************************************)
EXTENDS T5Word

CONSTANTS Decode,      \* the instruction a memory word encodes
          RAMW,        \* size of the RAM in words
          HALT,        \* a store to this word ends the simulation (0x400)
          MTIME, MTIMECMP

ASSUME DecodeAssumption == Decode \in [Val -> Word]
ASSUME MapAssumption == /\ RAMW \in 1 .. WORDS \div 2 /\ HALT \in 0 .. RAMW - 1
                        /\ {MTIME, MTIMECMP} \subseteq RAMW .. (WORDS \div 2) - 1
                        /\ MTIME # MTIMECMP

Ram == 0 .. RAMW - 1
Mask(adr) == adr % (WORDS \div 2)              \* & 0x1FFFFFFF
=============================================================================
