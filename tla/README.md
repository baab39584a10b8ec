# TRA5: TLA+ models, checks and proofs

TRA5 is a 32-bit RISC-V core (RV32I, machine mode) with four hardware threads, or
harts, that share one pipeline: at any time each stage of the pipeline holds an
instruction of a different hart. It runs the Zephyr kernel (1.13.0), which is kept
in the repository. This directory models the core (`rtl/verilog/*.v`), the simulator
that drives it (`sim/t5_sim.cc`), and the part of the Zephyr kernel a TRA5 image is
made of, with the philosophers sample on top. The models are checked with TLC, and
part of what is checked is proved with TLAPS.

## 1. Inventory

| Part | Source | Model |
|---|---|---|
| system controller: reset stretcher, clock enable | `t5_sysc.v` | `T5Sysc` |
| fetch: hart switcher, fetch address | `t5_inst.v` | `T5Inst` |
| decode: formats, operands, immediates, PC pipeline | `t5_ctrl.v` | `T5Word`, `T5Ctrl`, `T5Imm` |
| data bus control: byte lanes, strobe, misalignment | `t5_data.v` | `T5Alu`, `T5Data` |
| execute: ALU, CSRs, branches, traps | `t5_aslu.v` | `T5Alu`, `T5Aslu` |
| write-back: load extension, result, write enable | `t5_back.v` | `T5Alu`, `T5Back` |
| register file | `t5_gprf.v`, `t5_regs.v`, `dpram.v` | `T5Gprf` |
| the core | `t5_rv32i.v` | `T5Rv32i` |
| simulator: memory, buses, reset, end of test | `t5_sim.cc` | `T5Mem`, `T5Sim` |
| what the software sees | (the instruction set) | `Rv32i`, `Imt` |
| Zephyr port: lock-out of harts 1-3, trap handler | `vector.S`, `isr.S` | programs in `MCTrap` |
| Zephyr: scheduler, swap, interrupt exit | `sched.c`, `ksched.h`, `kswap.h`, `swap.S`, `isr.S` | `ZSched` |
| Zephyr: tick, timeouts, time slices, timers, idle | `sys_clock.c`, `timeout_q.h`, `timer.c`, `idle.c` (kernel and port) | `ZSched`, `ZClock` |
| Zephyr: threads | `thread.c`, `thread_abort.c`, `sched.c` | `ZThread` |
| Zephyr: semaphores | `sem.c` | `ZSem`; `Semaphore` is what they promise |
| Zephyr: mutexes | `mutex.c` | `ZMutex` |
| Zephyr: stacks, slabs, message queues | `stack.c`, `mem_slab.c`, `msg_q.c` | `ZData` |
| Zephyr: queues | `queue.c`, `list_gen.h` | `ZQueue` |
| Zephyr: these parts together | | `ZKernel`, `ZObjects` |
| philosophers sample | `samples/philosophers/src` | `Philosophers` |

`MC*` modules and configurations are instances for TLC, `*_proofs` modules hold
theorems. What is left out is in section 7.

## 2. The system and the models

### One step is one clock edge

Every register of the RTL is clocked by the same edge, so a step of the model is
one rising edge and every unit takes part in it. A unit `U` is a module with its
registers as variables and up to three operators, one per branch of its clocked
blocks: `UReset` (`srst`), `UAdvance` (`sena`) and `UHold` (neither). `T5Rv32i`
conjoins them into the actions `Reset`, `Advance` and `Stall`. Three things happen
at every edge whatever `srst` and `sena` say (`Always`): the reset register, the
hart counter with its own reset, and the register file write.

The hart counter runs 0, 1, 3, 2. With `hart` in the fetch slot, the decode slot
belongs to its predecessor, the execute slot to `dhart` and the memory slot to its
successor; the write-back slot is the fetch slot again.

### Data

`BYTE`, the number of values of a byte, is a parameter (2, 4, 16 or 256; four bytes
to a word), so the same definitions are model-checked at 4 and 8 bits and proved
at every size, 32 bits included. An instruction word is a record of its fields
(`Word`); how the immediate is assembled from the bits of the word is the subject
of `T5Imm` alone. Field names follow the RTL, and so do the variables.

* `X` is the value of a signal nobody has defined (`32'hX`, and registers computed
  from one). It is carried along, and turned into an arbitrary value where it
  is stored in the register file or read from a CSR.
* `dcp2` of a SYSTEM instruction is the CSR number `dcsn`, the immediate `dzim` and
  15 undefined bits. Bit 20 of the address sum, which tells ECALL from EBREAK, is
  the variable `xbrk`; it is the bit of the instruction word as long as `rs1` is
  `x0`, which the encodings of both prescribe.
* `xbra` and `xstb` are the numbers the two bits of the RTL make.
* `xbpc` is declared `[31:2]` as a port of `t5_aslu.v` and `[31:0]` as its register;
  it is taken as the port says, a word address, which is how every unit and
  the simulator use it. `xstb` is listed as an output of `t5_aslu.v` too but only
  driven by `t5_data.v`.
* Words whose bits [1:0] are not 11 are not instructions of the core. Only those
  are supplied that look like no branch, jump or SYSTEM instruction and name no
  destination (`Supported`); the all-zero word is one. The RTL does not gate
  the control bits of the others, and what it then does depends on the operands
  of an earlier instruction.

### The simulator

`T5Sim` adds the memory and the loop of `t5_sim.cc`. An iteration (`Cycle`) serves
the buses (`Serve`), clocks the core and puts the fetched words on the buses;
`BadFetch` and `TestEnd` are the two `break`s. The acknowledge of an iteration is
seen by the core from the next one on, like a register clocked by the same edge:
the loop sets it between two calls of `eval`, and the order in which Verilator
then evaluates clocked and combinational logic is not in the sources. The code
that sets `dwb_dti` of an IO register when the acknowledge is up relies on the same
order. The timer reads as any member of `Mtime`. Execution starts at the third
iteration (`cnt = 3`), when two edges of reset have given every register a value.

### What the software is promised

`Imt` is the abstract specification: four program counters, four register sets, one
memory, and one whole instruction per step by the hart whose turn it is. It has no
pipeline, no bus and no stall. `Rv32i` says what the instructions compute, from
the instruction set and not from the RTL. The CSRs are shared by the harts and are
left open in `Imt`: it takes `mtvec` and `mepc` as inputs and any value as the
result of a CSR read except that of `mhartid`. A jump to a misaligned target writes
its link register before it traps, as the RTL does.

### The Zephyr kernel

The kernel is configured for one processor, without nested interrupts and with
list-based queues. (`prj.conf` of the philosophers selects the red-black tree, which
keeps the same order: by priority, first come first served among equals.) Its shared
state is one
record `k` (`ZSched`): the running thread and the cached next one, the run queue,
wait queues, state flags, priorities, scheduler lock counts, the timeout queue with
its differences, the list of expired timeouts, and what a swap will return
(`ret`, `data`). What the code does between `irq_lock` and `irq_unlock`, or up to the
next swap, cannot be interrupted and is a function from such a record to the next
one, named after the C function; an action applies them.

* `call[t]` is where thread `t` is: outside of the kernel or at the statement after
  a swap or an `irq_unlock` of the call it is in. A call that can be left in
  the middle is several actions, one per section (`k_mutex_unlock` and `unlock_hand`,
  `k_timer_stop` and `timer_stop_wake`, `k_queue_append` and `append_insert`).
  `k_yield`, `k_sched_unlock` and `k_thread_priority_set` change queue and cache in one
  locked section and switch threads in another, `resched`, with interrupts enabled
  between them. Inside of `k_mutex_lock` and `k_mutex_unlock` a change of priority is one
  section, because these have locked interrupts.
* An interrupt is taken between two actions, unless the running thread is at a
  place where interrupts are locked (`Interruptible`). The clock handler is `Tick`,
  one `handle_expired_timeout` per timeout, and `TickEnd` with the time slice and the
  switch on the way out. `isr_sem_give` is any other handler.
* A swap sets `ret` to `-EAGAIN`, as `swap.S` does, and whoever hands something over
  overwrites it.
* `handle_expired_timeout` reads the link of a timeout after its handler has run, as the
  code does. A periodic timer is back in `_timeout_q` by then, and unless it was the last
  of the expired ones its link leads the walk through that queue to its head, which
  is no timeout (`Astray`). What the code makes of it is not modelled.
* `k_cpu_idle` ends in `wfi`. On hardware that has it, the idle loop waits for the next
  interrupt and, without preemption, yields (`IdleYield`). To TRA5 it is a break, which
  is fatal (`IdleFault`): `README.md:97` of the repository says that the sample crashes
  there. `ZKernel` and `ZObjects` have the first, `Philosophers` both.
* `ZKernel` lets threads call the thread operations and semaphores in any order;
  `ZObjects` does the same with one object of each kind; `ZQueue` with a queue.
* `Philosophers` is the program of the sample, each statement of the loop an action.

TRA5 itself has no timer (`README.md:70`). The models of the kernel have a clock
interrupt all the same: safety properties that hold with ticks at any moment hold
without them too, and the two liveness properties are about hardware with a timer.

The memory is not part of these models: a C statement is taken to do what it says,
which is what the models of the core are about.

## 3. What is checked with TLC

| Run | Configuration | What it shows |
|---|---|---|
| `sim_threads` | `MCSim`: 8-bit words, 6 words of RAM, 722 programs, all four harts | `SimTypeOK`, `X0Zero`, `SlotsAligned`, `WordMatchesPc`; refinement `ImplementsThreads`; `EveryHartRuns` |
| `sim_traps` | `MCTrap`: 8-bit words, 14 words of RAM, 126 programs of two instructions that trap or use CSRs, with a handler; harts 1-3 locked out | `TrapRecorded`, `HandlerReturns`, `NoUnknown`, `ImplementsThreads` |
| `datapath` | `MCDatapath`: 8-bit words, 24 x 24 operands, every ALU, branch, load and store word; every opcode with an immediate, all 32 bits | `AluCorrect`, `BranchCorrect`, `LoadCorrect`, `StoreCorrect`, `ImmediatesDecoded` |
| `kernel` | `MCKernel`: three threads (two preemptible, one cooperative), two of which change priority, a semaphore with limit 1, sleeps of two ticks, waits of one | `QueuesAgree`, `BestRuns`, `KeepsCpu`, `TimeoutsExact`, `TimeoutsEnd`, `SlicesShare`; refinement `SemaphoreKept` |
| `philosophers` | `MCPhil`: six philosophers as in the sample, the scheduler of `prj.conf` | `ForksExclusive`, `DropsOwned`, `NoDeadlock` |
| `objects` | `MCObjects`: three threads with a stack, a slab of two blocks, a message queue of two places, a mutex or a timer | `ItemsOnce`, `ItemsKept`, `RingIsFifo`, `WaitersBlocked` |
| `boot_word` | `MCBoot.cfg`: as `sim_threads`, `iadr` is 0 or 1 at start | `ResetVector` is violated |
| `status_restored` | `MCStatus.cfg`: hart 0 restores `mstatus` and returns | `InterruptsRestored` is violated |
| `drop_asserts` | `MCPreempt.cfg`: four philosophers, preemptible priorities | `DropsOwned` is violated |
| `queue_append` | `MCQueue`: three threads that append, prepend, get and cancel | `AppendedStays` is violated |
| `resume_ready` | `MCResume.cfg`: as `kernel`, and threads resume threads that are ready | `ResumeNoEffect` is violated |
| `timer_sync` | `MCSync.cfg`: as `objects`, and two threads wait for the timer | `SyncEnds` is violated |

Why the bounds are enough:

* A program of `MCSim` is: read `mhartid`, two instructions of a menu with at least
  one of every kind, then loop or end the test. All pairs are run, so every hazard
  between neighbours of one hart occurs; the four harts run them one slot apart, and
  take different branches and addresses because these depend on the hart number.
  Stores go to word 4, behind the program: the harts do not modify code, because an
  instruction is decoded before the stores of harts further down the pipeline.
  These runs reset the core once and give it 32-bit words only; that `X0Zero`,
  `SlotsAligned` and `NoUnknown` hold with resets, stalls, acknowledges and
  supported words of any kind at any edge is proved (section 4).
* `MCTrap` pairs every way to trap with every other and with CSR accesses.
* The operands of `MCDatapath` are the neighbours of every boundary of sign, byte
  and half, plus mixed patterns.
* `MCKernel`: two equals are needed for round robin, one better thread for
  preemption. Only the cooperative thread acts on others (`Managers`), on one that is
  suspended, resumed, aborted and so on (`Managed`). `Prios` gives one of the equals
  a cooperative priority, which makes it the equal of the cooperative thread, and takes
  that one below the others. One thread locks the scheduler, up to
  `LOCKS` = 2 deep, so that there is an unlock after which it is still locked. Sleeps
  (2) and waits (1) differ, so the differences in the timeout queue are not all alike.
  `SLICE` = 1 makes a slice end at every tick. `RESUME_READY` = FALSE keeps threads from
  resuming a thread that is ready, which `resume_ready` is about.
* `MCPhil`: `NUM_PHIL` = 6 is the default of the sample. Four already show the violation
  with preemption.
* `MCObjects`: one object at a time, because the objects share nothing but the
  scheduler. Three threads are two that wait and one that serves them. Two places
  make a ring that is empty, full and wraps. `LOCK_COUNT` = 2 locks a mutex again. Two
  threads yield and set priorities (`Movers`). `SYNCS` = 1 lets one thread at a time
  wait for the timer; with two, `timer_sync`, `WaitersBlocked` fails.

`CHECK_DEADLOCK FALSE` is given for the simulator, which ends at a HALT store or a bad
fetch, and for the philosophers, who end with the fault of the idle thread.

Fairness: `SimSpec` assumes weak fairness of `SimNext`, that is, the loop of
`t5_sim.cc` goes on until it breaks. Nothing is assumed of the core or the bus. The
core in a free environment has no fairness and no liveness property. `KSpec` assumes
that interrupts come again and again and end again and again (`KFairness`). This is
strong fairness of `Tick`, as the interrupt stays pending until it is taken and locking
interrupts again and again does not hold it off, with weak fairness of the handler
and of a thread that returns from a wait with interrupts locked; threads need not do
anything else. It is an assumption about hardware with a timer: TRA5 has none.
`SlicesShare` excludes threads that are better or cooperative, which may keep the
processor by design. The other specifications of the kernel have safety properties
only. In particular nothing is said of who eats: with a scheduler without preemption
that takes an idle loop that waits for the clock.

### Disagreements

* `t5_aslu.v:342`. The `default` branch writes `mie` and `mpie` from `wcsr` at every
  enabled edge, whatever is in the execute slot. A value of `mstatus` that software
  restores is gone an edge later. Zephyr's `thread.c` counts on it being kept
  (run `status_restored`).
* `t5_sim.cc:78`. `iadr` is uninitialised and used by the first fetch, in which
  `iwb_stb` is still down: the first word executed at address 0 (by hart 2, in the
  decode slot when reset ends) is whatever word the variable happens to name, or the
  simulation stops at once with `ERR IADR` (run `boot_word`). The other runs start
  with `iadr = 0`.
* `mutex.c:235`. `k_mutex_unlock` sets `lock_count` to 0 and then restores its own
  priority, which swaps to a better thread even though the scheduler is locked. That
  thread, or one after it, may take the free mutex; the unlocking thread goes on and
  clears or overwrites the owner. The assertions in lines 216 and 217 fail when the
  mutex is unlocked next (run `drop_asserts`). It takes preemptible threads:
  `philosophers` has none, so no priority is inherited, and there the assertions hold.
* `queue.c:192`. `k_queue_append` reads the tail of the list before interrupts are
  locked. If another item is appended behind it and the former tail is taken out in
  between, the new one is linked behind an item that is in no list and never found
  (run `queue_append`). If the tail is taken out while it is the last, its link is
  `NULL` and `list_gen.h:149` appends the new item as it should.
* `thread.c:523`. `k_thread_resume` does not ask whether the thread is suspended and puts
  a thread that is ready into the run queue again, although `kernel.h:1102` says that
  it has no effect then (run `resume_ready`).
* `timer.c:166`. `k_timer_stop`, and the expiry of a timer, wake one of the threads in
  `k_timer_status_sync`, any number of which may wait; `kernel.h:1577` promises each that
  it waits until the timer has expired or is stopped (run `timer_sync`).

Others have no run of their own; the models do what the code does, and the properties
are stated so as to allow it:

* `sched.c:375` and `sched.c:427`. `_thread_priority_set` and `k_sched_unlock` update the
  cache with `preempt_ok`, so a cooperative caller, or one that has the scheduler locked
  still, gives way. `kernel.h:1023-1028` says this happens if "the caller is
  preemptible", and `kernel.h:1212` that k_sched_unlock must be called once for each lock
  "before the thread becomes preemptible". `KeepsCpu` excepts these calls.
* `sched.c:783`. If an interrupt comes between the two sections of `k_yield` of a
  cooperative thread and makes a thread ready, the cache is computed anew without
  `preempt_ok`, and `k_yield` returns without a switch, against `kernel.h:838`.
* `timeout_q.h:114`. The walk over expired timeouts uses a macro of which `dlist.h:143`
  says that the element "should not be detached"; a periodic timer is (`Astray`).

## 4. What is proved with TLAPS

The proofs about TRA5 hold for every `BYTE` in {2, 4, 16, 256}, every set of registers
that contains x0, every set of supported words, and anything on the data bus; the one
about Zephyr for any threads, objects, priorities and sizes. They use the assumptions
named in the modules (`T5Word`, `T5Aslu`, `T5Rv32i`, `T5Datapath`, `ZData`, ...) and
nothing else.

**The core** (`T5Rv32i_proofs`). `Inductive` proves `Spec => []IndInv`;
`TypeCorrect`, `ZeroRegister`, `Alignment` and `Defined` draw `TypeOK`, `X0Zero`,
`SlotsAligned` and `NoUnknown` from it. None of the four is inductive by itself:

* `ResetInv`: during reset, `rst` and `hart` walk in step (15/0, 14/1, 12/3, 8/2, 0/0)
  and each edge clears x0 of the hart it passes, so that `rst = 0` finds all but one
  cleared and the last is cleared at the edge that raises `ena`. From then on no
  write to register 0 carries anything but 0.
* `DecodeInv` and `ExecuteInv`: what a slot holds can be told from its opcode. For
  instance `dcp2` is undefined only for SYSTEM, which uses no address sum; `xalu` is
  defined for ALU opcodes because a left shift has bit 30 clear; an access whose
  lanes are empty is a trap and writes no register; a misaligned access (`xstb` = 3)
  has no lanes.

The proof has one lemma per action: `ResetStep` and `StallStep` (`T5Reset_proofs`),
`AdvanceStep`, and `StutterStep` for steps that leave the core alone. `AdvanceStep`
has one per unit: `DecodeStep`, `DataStep` (`T5Decode_proofs`), `BranchStep`,
`ExecuteStep`, `CsrStep` and `WriteBackStep` (`T5Execute_proofs`). The modules are checked one by one; in a single long module
the prover slows down until leaves near the end time out.

**The datapath** (`T5Alu_proofs`, `T5Datapath_proofs`). `T5Alu_proofs` shows that
every operator yields a word. `Branches`, `Arithmetic`, `Loads` and `Stores` prove
`BranchCorrect`, `AluCorrect`, `LoadCorrect` and `StoreCorrect` for all operands. The core is the
lemma `Comparison`: bit 32 of the 33-bit difference is the comparison, signed or
unsigned according to how the operands were extended, also when the 32-bit
difference overflows. Another, `Adder`, rests on `LowWord`, `Quotient` and `TopBit`,
which say what the low bits and the carry of a sum are.

**The simulator** (`T5Sim_proofs`). `SimInductive` proves `SimSpec => []SimInv`, where
`SimInv` is `IndInv` with the types of memory and buses. `AdvanceStep` holds for any
word on the data bus; what is added is that the bus carries a word, that the memory
stores words (`MergeType`, `MaskType`, `ServeType`: an undefined store operand comes
with no lanes, hence the conjunct on misaligned accesses), and that each step of the loop is
`Reset`, `Advance`, `Stall` or a stutter of the core. `SimTypeCorrect` and
`SimDefined` draw `SimTypeOK` and `NoUnknown` from it. `WordFetched` proves
`WordMatchesPc` if `iadr` starts at 0: `FetchInv` follows `iadr`, `fpc` and the word on the
bus from the reset on.

**Message queues** (`ZObjects_proofs`). `MessagesInOrder` proves
`OSpec => RingIsFifo` for every number of places. `RingIsFifo` looks at one step, but
whether a message written at `write_ptr` is the last of the content depends on where
that pointer is: `RingInv` says that it is `used_msgs` places ahead of `read_ptr`,
modulo the size. `Effects` reduces every action to one of five effects on the ring
(none, write, read, read and write for a waiting writer, purge); `WrittenRing`,
`ReadRing` and `RingStep` follow the content through them.

**Only model-checked**: `ImmediatesDecoded` (bits of words),
`TrapRecorded` and `HandlerReturns`, the refinements of `Imt` and
`Semaphore`, the other properties of Zephyr, which rest on recursive functions over
queues, and the liveness properties, which are beyond this prover.

## 5. Mutants

Next to some definitions stands a variant with a plausible mistake, marked "mutant
of". Nothing uses them; replacing the definition by the variant must break the
property that `PROJECT.json` names, which shows that the property depends on
that line of the code.

## 6. Plan

Done: the core with its units, environment, simulator and abstract harts; the
datapath and the immediates; scheduler, clock, threads, semaphores, mutexes, stacks,
slabs, message queues and queues of Zephyr and the philosophers; the inductive
invariants of the core and the simulator, the order of messages.

Next, in this order:

1. A bus with arbitrary wait states and `sys_ena`: exactly one memory access per
   load or store, or the sequence in which it is repeated.
2. `k_mutex_lock` with a timeout, and mutexes under preemption with a corrected
   `k_mutex_unlock`.
3. The walk over the expired list after a periodic timer, on a model of the links;
   `k_timer_stop` with all waiting threads woken.
4. The shared CSRs as a specification of their own: what harts that trap at the same
   time may find in `mepc`, `mcause` and `mtval`.
5. Zephyr's trap entry, exit and context switch (`isr.S`, `swap.S`) on top of `Imt`.
6. Proofs: the steps of the refinement of `Imt` for the program counters; `ItemsOnce`.

## 7. Not modelled

* TRA5: `dpsram.v` (not instantiated); linker scripts and Makefiles; the UART output,
  the signature dump and the limit on `cnt` of the simulator; `mpc`, `mip` and `sexe`,
  which nothing uses. Words that are not 32-bit instructions are restricted as said
  in section 2.
* Zephyr, in the parts that are modelled: a call with `K_NO_WAIT` that fails returns
  at once and changes nothing, so it is no step. `k_mutex_lock` with a timeout. What
  follows when a periodic timer has led the walk over the expired list astray. Expiry
  and stop functions of timers. SMP, tickless operation, poll, user mode, red-black and
  multi-level queues, nested interrupts, power management; registers and stacks of
  threads. The check of the cache in `k_yield` before interrupts are locked is part of
  the step that swaps: at worst the code swaps to the caller itself, which starts its
  slice anew.
* The rest of Zephyr: pipes, mailboxes, memory pools, work queues, and nearly half a
  million lines of drivers, boards, network and other protocol stacks, file systems,
  libraries and other architectures. They are vendored as a whole and are not part
  of a TRA5 image. Most of them are sequential library code or drive hardware that
  is not there, and each protocol stack would be a project of its own; the map
  therefore covers a small share of the lines of the repository, but all of the RTL,
  most of the simulator and the kernel calls named above.
* The compliance suite: test programs and signatures, inputs of the simulator.
