# qe6502 in TLA+

Specifications, model-checking configurations and proofs for the `qe6502` CPU core of this
repository (`src/cores/qe6502`) and the code around it that drives it.  The core is a C library:
a 6502/65C02 that is advanced one external bus cycle at a time by `qe6502_tick()`.  Its
instructions are sequences of *microcode handlers* in a control store, five blocks of it, one for
each CPU model.  What is hard to get right in it, and hard to test, is the meeting of two things
that do not know of each other: the handlers, which run one per tick, and the interrupt lines,
which the host may move between any two ticks.  A further difficulty is self-made: so as to be
fast, `qe6502_tick()` does not look at the lines at all unless a flag, `hijack_microcode`, hooks
the interrupt resolver in.  The second difficulty is that no handler knows its instruction: an
address is put together over several cycles in two latches that any handler may have used before.

## 1. Inventory

| Component | State | Operations | Talks to |
|---|---|---|---|
| Interrupt resolver and lines (`qe6502.c`) | `interrupts` (a word of eight bits), `hijack_microcode` | `interrupt_resolver`, `find_active_interrupt`, `qe6502_nmi_assert`, `qe6502_irq_assert`, and the push-status and vector handlers that rewrite the word | called by `qe6502_tick` after a handler; shares `interrupts` and `microcode` with the handlers |
| Microcode engine (`qe6502.c`) | `microcode` (the cursor), `P`, `PC`, `S`, `A`, `X`, `Y`, `latch_addr`, `latch_data` | `qe6502_tick`, `qe6502_goto`, `qe6502_restart`, the `mc_*` and `op_*` handlers | the host, by the returned bus request and the data byte of the next tick |
| Control store (`control_store/*.inc`) | none (constant tables) | none | read by the engine at `QE6502_IDX(model, slot, cycle)` |
| Opcode metadata (`opcode_metadata.hpp`) | none | lookup of addressing mode, bytes, cycles, extra cycles | used by the interrupt tests to place their pulses |
| ALU (`qe6502.c`) | `A`, N, V, D, Z, C | `adc_*`, `sbc_*`, `compare_*`, shifts, logical operations | called by `op_*` handlers |
| Snapshots (`qe6502_save`, `qe6502_load`) | a 64-byte image | save, load | a host that stores and restores between two ticks |
| Binary ABI, C++ wrapper (`qe6502abi_*`, `binds/cpp`) | a context | forwarding, register access | the C functions |
| JavaScript binding (`binds/js`) | in C: a pool of contexts, their flags and a stack of the free ones; in JS: per CPU object a pointer, the last tick, a `disposed` flag | `createCpu`, `tick`, `jumpTo`, `restart`, `irqAssert`, `nmiAssert`, `save`, `load`, `dispose`, getters | the WASM module; `save` and `load` borrow a context of the same pool |
| Instruction adapter (`toolbox/qe6502/src/instruction_cpu.cpp`) | 64 KiB of memory, the pending tick, instruction count, two release deadlines | `reset`, `step_instruction`, `assert_irq_for`, `assert_nmi_for` | drives the core, driven by the interrupt tests |
| Adapters of the other cores (`toolbox/{clk,fake6502,fceux}`) | the same bookkeeping | the same | vendored cores |
| SingleStep, Klaus runners; interrupt test suites; lockstep harness; assembler | drivers | | the adapters, the core, `perfect6502` |
| Other cores (`src/cores/*`, `src/toolbox/mame`) | | | vendored, mostly generated; only compared with |

Nothing here is concurrent in the sense of threads; a context has one owner.  The interleaving
that matters is between ticks and line changes: the host may call `qe6502_nmi_assert`,
`qe6502_irq_assert`, `qe6502_goto`, `qe6502_restart`, `qe6502_save` and `qe6502_load` after any
tick.  Nothing is persisted but snapshots, and nothing times out but the adapter's cycle budgets
and line releases.

What makes each component correct:

* **Resolver and lines.**  Taking the fast path must be indistinguishable from looking at the
  lines in every cycle.  An NMI edge is served once and is never forgotten; a level is never taken
  for an edge.  IRQ is taken only when unmasked in the polling cycle.  NMI goes before IRQ.
  Interrupts are taken at the end of the instruction that polled them, not one earlier or later.
  The NMOS edge detector is off only between a status push and its vector, and always comes on
  again.
* **Microcode engine and control store.**  The cursor never reaches an entry that no `.inc` file
  fills (a null function pointer).  Interrupt sequences, including those entered in the middle,
  push one whole frame and read one whole vector.  The return address is right although the fetch
  is repeated.  An instruction takes the documented cycles, accesses memory where its addressing
  mode says and nowhere else that matters, and goes on where it should, whatever the last one
  left in the latches and wherever pages wrap.
* **ALU.**  Decimal arithmetic of the different models gives the digits of sum and difference.
* **Snapshots.** A core restored between any two ticks goes on as the one saved would have.
* **JavaScript binding.**  Objects do not share state, and no call, thrown or not, loses a context.
* **Adapter.** A line asserted for *n* calls is released after *n*, whatever happens between; a
  call always ends before an opcode.

`PROJECT.json` lists the hazards at their lines.

## 2. Plan and where it stands

Done, in this order:

1. `InterruptLines`, `ControlStore`, `Microcode`, `Execution`, `Qe6502`: the core.
2. `PolledCore`, `Qe6502Polled`: the abstract core that polls in every cycle, and the refinement.
3. `BusTrace`: what a logic analyser sees.
4. `InterruptLedger`: an independent account of the lines; liveness.
5. `Qe6502_proofs`: types, the hook, the sampling bit, and the refinement for every program.
6. `Snapshot`: save and load between any two ticks, as a checkpoint of the polled core.
7. `InstructionCpu` over `LineContract`: the adapter driving the whole core.
8. `ContextPool`, `JsBinding` over `PrivateCpus`, with `JsBinding_proofs`.
9. `Alu`, `AluMachine`: binary and decimal arithmetic against definitions on numbers.
10. `Sequencing`: what the control store promises the interrupt logic; `NoHoleHolds` and
    `CmosRefinement` from it; `InterruptLedger_proofs`: the ledger for every program.
11. `AddressPath`, `InstructionSet`: the addresses of the NMOS core, against the tools' table;
    `AddressPath_proofs`: the sums of halves, for all bytes.
12. `InstructionPromises_proofs`: the adapter's line contract, budgets and patience, for every
    program and any number of calls; `Alu_proofs`: the arithmetic, for every operand.
13. `PollTiming`: which cycles poll the lines.  From it `TakenInTime` in `InterruptLedger_proofs`, and
    `NmiServed` and `IrqFollows`, the call after which an interrupt is entered.
14. `BusTrace_proofs`: the frames on the bus and the addresses in them.
15. `Snapshot_proofs`: the image gives back what was put into it, and the refinement.

Left: the address path of the CMOS models (a class table of their own and about thirty more
handlers), of the undocumented opcodes and of the interrupt sequences; the remaining operations of
the ALU; proofs of the whole data path, of which the sums are proved.

## 3. The modules

| Module | Models | State |
|---|---|---|
| `InterruptLines` | the interrupt word and every operation on it, those of the resolver and those in handlers | none (operators on a set of bit names) |
| `ControlStore` | the five model blocks, slot by slot | none (constants) |
| `Microcode` | what each handler does to cursor, I and D, interrupt word, PC advance, bus request | none |
| `Sequencing` | the order of micro-operations that the interrupt logic and the frames on the stack rely on, as assumptions that TLC evaluates over the whole store | none |
| `PollTiming` | which cycles of which sequences poll the lines: the second last but for the exceptions it names, and with the I flag from before; says what the set of polling handlers must be, where `Sequencing` says in which order handlers come | none |
| `Execution` | `mc_dispatch`, one handler call, `qe6502_restart` | `microcode`, `P`, `latch_data`, `advance`, `tick` |
| `Qe6502` | `qe6502_tick` with both paths, the line functions, `qe6502_goto`, `qe6502_restart` | and `interrupts`, `hijack` |
| `PolledCore` | the promise: no hook, no sampling bit | `Execution`'s and `lines` |
| `Qe6502Polled` | the refinement `lines <- interrupts \ {"sampling"}` and the patient host | |
| `BusTrace` | an observer of the requests since the last opcode fetch | and `trace` |
| `InterruptLedger` | an observer of the lines with its own edge detector | and `seen`, `owed`, `polls`, `cycle` |
| `AddressPath` | the handlers with PC, S, both latches and addresses, NMOS | and `PC`, `S`, `latch_addr`, `data`, `index`, `address`; histories `memory`, `written`, `origin` |
| `OpcodeMetadata`, `InstructionSet` | the tools' table; what whole instructions promise | |
| `Snapshot` | the image byte by byte over `Qe6502`, and the promise of a snapshot: a checkpoint of the polled core | and `image`, `age` |
| `LineContract`, `LineSchedule`, `InstructionCpu`, `InstructionPromises` | the interface's promise of one line; the adapter's deadlines; its loops over the core; what the suites rely on | and `instruction_count`, `deassert_at`, `asked`, `phase`, `spent` |
| `PrivateCpus`, `ContextPool`, `JsBinding` | CPU objects with a memory each; the pool's C functions; the JavaScript methods | `pool`, `memory`, `cpus`, `snapshot`, `outcome` |
| `Alu`, `AluMachine` | the arithmetic functions; programs of arithmetic instructions | `model`, `A`, `P` |
| `MC*` | the sets of opcodes, bytes, counts for TLC | |
| `*_proofs` | theorems | |

### The core

How state corresponds:

* `microcode` is the C index without the model's offset: `slot * 8 + cycle`.  Slots 0..255 are
  opcodes, 256.. are the services (internal reset, reset, goto, NMI, IRQ, illegal extension).
* `interrupts` is the set of the names of the bits set in the C word.
* `P` holds only I and D: no other flag decides control flow or arbitration in a way that is not
  covered by letting a branch go either way.
* `latch_data` is modelled in the core where control depends on it: the eight ticks of the
  internal reset.  (`AddressPath` has all of it, as `data`.)
* `advance` is PC minus the address of the last opcode fetched, for as long as control does not
  transfer.
* `tick` is the returned bus request by kind.  Reads that nothing tells apart are one value.

What data decides is a nondeterministic choice in `Choices`: a branch taken or not, a page crossed
or not, any I and D from the stack, any opcode on the data bus.  Handlers that differ only in
data are one *micro-operation* ("read_pf" is every operand read that polls).  For the NMOS, WDC
and Synertek blocks every handler named in an `.inc` file is one micro-operation and the sequences
have the lengths of the file.  The NES block differs from NMOS, and Rockwell from WDC, only in
the handlers of ADC, SBC, ARR, ISC and RRA, whose control is the same; `NesStore` and `RwStore` say
so.

One action is one call of the C API.  `Tick` is `FastTick` or `HijackedTick` by the hook.  A
hijacked tick senses NMI, runs the handler and ends in one of three outcomes, in the code's
order: `Arbitrate` if the handler polled, `EnterSequence` if an opcode was requested and an
interrupt won, `Resume` otherwise.  Dispatching is not a tick of its own: `mc_dispatch` calls the
first handler of the opcode.  `Goto` runs the first tick of the goto service.

### Addresses

`AddressPath` runs the same ticks with the handlers taken apart by what they do with addresses: a
`Path` lists the handlers of each class of opcodes by their C names, and `PCAfter`, `SAfter`,
`LatchAddrAfter`, `DataAfter`, `AddressAfter` and `Written` say what a handler makes of PC, S, the
latches and the request.  The choices of the core that stand for a page crossing are taken by the
bytes here (`Crosses`).  Memory answers a request with any of `Bytes`, and with what it answered
before if the address was read before in the same instruction; that history, what was written, and
PC and S at the fetch are what `InstructionSet` judges a finished instruction by.  X or Y is
chosen when the opcode is dispatched.  Between two instructions the host loads a context
(`qe6502_load`) and sends the core to its PC: the context stands for whatever other instructions
have left in the registers and latches, so that a program of several instructions is as many
starts.  The lines are at rest; the interrupt sequences push what BRK pushes and `InterruptFrame`
and `ReturnAddress` judge them.  `InstructionSet` shares nothing with the handlers: it is written in
the modes, bytes and cycles of the tools' table.

### Snapshots

`Snapshot` writes the image of `qe6502abi_save` byte by byte into a blank buffer, words with the high
byte first and bit masks included, and rebuilds the core from it.  It is composed with the whole
core: a save after any tick, a load in any later state.  The magic number and the version are
written by the save and not compared by the load, so there is no error path.
`ResumesFromSnapshot` says that this is a checkpoint of the *polled* core: `Kept` is the state the
image holds, `Take` stores the present one and changes nothing, `Restore` goes back to it, and
every other step is one of `PolledCore`'s.

### The adapter

`InstructionCpu` has an action for every cycle of the loops of `reset` and `step_instruction`
(`ResetCycle`, `LoopCycle`, `Execute`), for their returns, for the two releases in their order, and
for an assertion.  `phase` is the program counter of the call; the owner calls one function at a
time, from `idle`.  `IrqLineContract` and `NmiLineContract` show that each line behaves as the
comments of the interface say (`LineContract`), with the count left read off the deadline.

### The JavaScript binding

One action is one method call; JavaScript runs one at a time.  A context holds one of a few core
states, `Drive` and the like replacing it by any: what a core does inside a call is the core's
business.  `save` and `load` allocate a scratch context of the same pool, copy and free it, and
throw if there is none; `createCpu` with a bad model number throws after it has its context and
gives it back.  `KeepsCpusApart` maps the living objects to a memory each, a thrown call to
a reason and nothing else changed.

### Arithmetic

`Alu` has the C functions for a byte, a flag word and an operand, widths and masks by remainder and
quotient.  `AluMachine` reaches every accumulator and flag state that programs of these
instructions reach, for three kinds of model (NMOS, NES without a decimal mode, CMOS), and the
properties try every operand in each of them.

## 4. The runs

| Run | Module, model | Distinct states | What it checks |
|---|---|---|---|
| `core_nes` | `MCQe6502`, nes | 205,854 | types; `PendingHijacks`; `NoStaleSampling`; `NoHole`; `InterruptFrame`; `ReturnAddress` |
| `datapath_nmos` | `MCInstructionSet`, nmos | 584,317 | `InstructionCycles`, `OperandAddress`, `NextInstruction`, `WritesInPlace` for all 151 documented opcodes |
| `ledger_nmos` | `MCInterrupts`, nmos | 77,918 | `NmiLevelKnown` and the refinement of the polled core; `NmiNeverForgotten`, `DeafOnlyBetweenPushAndVector`, `NmiIsEdge`, `TakenOnTime`; patient host |
| `ledger_cmos` | `MCCmosInterrupts`, rw | 78,494 | `NmiNeverForgotten`, `NmiIsEdge`, `TakenOnTime` and the refinement for any host; `PollTiming` on CMOS |
| `live_nmos` | `MCInterrupts`, nmos | | `IrqIsServiced`, `NmiIsServiced` |
| `adapter_nmos` | `MCInstructionCpu`, nmos | | the line contract of both lines, returns at a boundary, an NMI entered by the next call, an IRQ after the right one, patience |
| `snapshot_st` | `MCSnapshot`, st | 155,881 | `ResumesFromSnapshot`; the two core invariants across loads |
| `js_pool` | `JsBinding` | 44,602 | `PoolWellFormed`, `NoLeak`, `KeepsCpusApart` |
| `alu` | `MCAluMachine` | 12,444 | decimal and binary ADC and SBC, compares, overflow |
| `missed_edge`, `branch_nmi`, `irq_entry_nmi` | `MCInterrupts`, the last `MCCmosInterrupts` | | the three findings below |

**Bounds.**  In the runs of the core there is no bound on time, on the number of line changes or on
the length of the program: the state is finite.  What is bounded is the set of opcodes that memory
may hold.  In `core_nes` it has one opcode for every distinct sequence of micro-operations in the
store, and the assumption `OneOfEachSequence`, which TLC evaluates, says that it does; so as to
this state nothing is left out.  A trace is cut at every fetch, and no sequence is longer than eight
cycles.  The runs that carry a ledger use the opcodes that differ in how they poll, change I or D,
push, or fetch: BRK, PLP, CLI, SEI, JSR, branches, page probes, KIL, an undocumented
read-modify-write, and on CMOS BBR, the one-cycle NOP and decimal ADC.

* `datapath_nmos`: bytes 0, 127, 128 and 255, at which sums carry, signs change and pointers wrap;
  X or Y 0, 1 or 255; three contexts: in the middle of a page, at its end with the stack pointer
  at 255 and the latches empty, and at the end of memory with the stack pointer at 0 and the latches
  full.  What these bytes could leave out of a sum is what `AddressPath_proofs` proves for all.
* `adapter_nmos`: counts -1, 0, 1 and 2, four calls from one reset to the next
  (`MaxInstructions`), so that deadlines meet releases, other assertions and resets.  The program
  does not start at the address that the fetch in the middle of the reset sequence happens to show
  (`ShamFetchAtStart = FALSE`); with it, `reset()` would return there, and the interface cannot say
  what happens then.
* `snapshot_st`: three opcodes that have every kind of cycle the Synertek core can be
  stopped in, and at most one step of the core between save and load (`MaxAge`): the load replaces
  all of the state, so what a longer wait could add is only states that a save reaches by itself.
* `js_pool`: two contexts for four objects, so that the pool is exhausted with objects alive, and
  objects die and leave their context to others; two core states are enough to tell two owners
  apart.  The theorems remove all of these bounds.
* `alu`: the operands of programs are those of `EdgeOperands`; those the properties try are all 256.

**Hosts.**  `Spec` lets the host do anything after any tick.  `PatientSpec` and
`PatientLedgerSpec` forbid one thing: to release NMI while the NMOS edge detector is off (from the
status push to the high byte of the vector in BRK, IRQ or NMI entry).  Why that is needed is the
first finding; `AdapterIsPatient` shows that the adapter is such a host.  The ledger lets
`qe6502_goto` be called between instructions, in a jammed core and instead of a reset
(`GotoPoint`), since a core sent away in the middle of an interrupt sequence has no account to
agree with; `core_nes` lets it be called anywhere.

**Fairness.**  Only `WF(LedgerTick)`: the host goes on ticking.  The core does nothing by itself and
`qe6502_tick` always returns, so this is what "running" means.  Lines move or rest at will, and the
host may restart the core; it does not call goto (a host that did so in every cycle would keep
any core from finishing an instruction).  The program has no KIL, which stops an NMOS
core by design.

**What the ledger is.**  `InterruptLedger` does not read `nmi_last`, `nmi_edge` or `hijack`: it keeps
its own last level (`seen`) and its own debt (`owed`), paid when the high byte of the NMI vector is
read, and its own memory of what the last two cycles would have polled.  `TakenOnTime` then says
which interrupt may displace which opcode.  The one thing it takes from the core is the time in
which the detector is off, and `DeafOnlyBetweenPushAndVector` bounds that.  Two places in the
code drop an owed NMI; they are named (`LosesToSecondPoll`, `LosesToIrqEntry`), so that the
properties hold the rest to account, and each is a finding of its own.

## 5. Findings

* `missed_edge` (`qe6502.c:512`).  The resolver unhooks itself when it sees the NMI line low, without
  asking whether the level it last *sampled* is low.  With the edge detector off (NMOS, BRK or
  IRQ entry) a release is not sampled; the resolver unhooks with `nmi_last_sampled` set, and the next
  assertion, however late, is no edge to it.
* `branch_nmi` (`qe6502.c:456`).  A taken branch that crosses a page polls twice.  The first poll turns
  the latched edge into `nmi_taken`; the second, finding IRQ and no edge, replaces it by
  `irq_taken`.  The NMI is never served, even when both lines were asserted at the same tick.
  Driving the C code and `perfect6502` (which the core is documented to match) through this branch
  shows the difference: `perfect6502` serves both.
* `irq_entry_nmi` (`qe6502.c:880`).  On CMOS the vector handler of the *IRQ* sequence also clears the NMI
  latch and takes the line's level as seen: an edge that arrives during IRQ entry is dropped.

Documented limits, not findings: CMOS BRK and one-cycle NOPs do not poll, so that a program of
only these is never interrupted; `qe6502_restart` forgets the levels of held lines.

## 6. Proofs

Assumptions on constants: `ModelAssumption` (one of the five models), `OpcodesAssumption` (opcodes
are opcodes), for the adapter `CountsAssumption` and `ShamFetchAssumption`, and for the binding `CapacityAssumption`, `BlankAssumption` and `MarkersAssumption`
(the pool has a context; markers are not CPU states), and `MaxAgeAssumption` (a natural number).
The assumptions of `Sequencing` and `PollTiming` are facts of the control store, a constant table, and
all that the proofs know of it; TLC evaluates each of them over the whole store of the model of a
run.  Those of `Sequencing` are evaluated in every run of the core; those of `PollTiming` in
`core_nes` (nes), `datapath_nmos` (nmos), `irq_entry_nmi` (wdc), `ledger_cmos` (rw) and `snapshot_st`
(st), so that both are evaluated over all five models.

`Qe6502_proofs`, of which the first three need nothing of the control store and would hold for any
assignment of sequences to slots:

* `TypeCorrect`: `Spec => []TypeOK`; inductive by itself.
* `HijackSafety`: `Spec => []PendingHijacks`.  On the fast path nothing is pending before the handler;
  each of the eight ways in which a handler rewrites the word is shown to raise nothing
  (`HandlersRaiseNothing`), since only the host drives lines.  On the hooked path the resolver
  recomputes the hook, or keeps it when it enters a sequence.
* `NoStaleSamplingHolds`: `Spec => []NoStaleSampling`.
* `NoHoleHolds`: `Spec => []NoHole`.  Wherever a handler and the resolver may leave the cursor is a
  `Successor` of the entry, and `ClosedAssumption` says that those are filled.
* `PatientRefinement`: `PatientSpec => ImplementsPolledCore`, with `NmiLevelKnownHolds` on the way.  The
  invariant is `PendingHijacks /\ NoStaleSampling /\ NmiLevelKnown`.  The first is what makes
  arbitration and entry void on the fast path; the second makes the sampling bit mean "this
  cycle's handler polled"; the third makes sensing NMI void on the fast path, and it is the one
  that needs the patient host, at exactly one step (`PatientLineChangeKnowsLevel`).  The rest is that
  handlers do not look at the sampling bit (`HandlersIgnoreSampling`), and that the instance's copies
  of the operators are the operators (`SameStore` and the like).

* `CmosRefinement`: a CMOS core refines the polled core for *every* host: no sequence of a CMOS store
  has a handler that switches the detector off (`DeafUntilVectorAssumption`), so `NeverDeaf` is
  invariant and every host is patient.

`BusTrace_proofs`, for any host and with no condition on the core but that its cursor is in a slot:

* `FramesComplete`: `TracedSpec => []InterruptFrame`.  `FrameInv` says that in a slot which pushes a status
  the bus has seen what the cycles before the cursor ask for.  It survives a hijacked push because
  the entry to another frame is at the same distance from its start: the status push, cycle 3,
  sends the cursor to cycle 4 of another frame, whose cycles 0 to 3 ask for the same.
* `ReturnsWhereLeft`: `TracedSpec => []ReturnAddress`.  `AdvanceInv` says where PC stands until it is
  pushed: on the displaced opcode in an interrupt, two bytes on in BRK and JSR, which
  are entered by their dispatch only (`StraightIntoFrames`), so that both bytes have been fetched.
  The cycles of the frames themselves are `FrameCycles`.

`Snapshot_proofs`, for any distance between save and load:

* The bytes: eight weighted bits and their sum determine each other (`InterruptsReadBack`,
  `FlagsReadBack`), a word is its two bytes (`WordReadsBack`), the model's digit does not touch
  the cursor (`CursorReadsBack`), no field overlaps another (`ImageBytes`); so `ReadsBack`: what a
  load would read is the present context.  This needs `NoHole`: the cursor is in the store.
* `SnapshotsKeepHook`: `SnapshotInv` is the core's invariants, and the same of the context in the image
  (`Sound`).  Without the second half a load could bring back a pending interrupt without the hook.
* `PatientSnapshots`: with `LevelInv`, `NmiLevelKnown` here and in the image, every step is one of the
  checkpoint: `StepIsPolled`, `SaveTakes`, `LoadRestores`.
* `CmosSnapshots`: the same for any host on CMOS; an image of a core that is never deaf is not deaf.

`InterruptLedger_proofs`: every tick, hooked or not, is one cycle of the polled core (`TickIsCycle`,
from the refinement), so that the invariant only has to survive cycles.  It is `LedgerInv`:
`SeenIsLast` (the ledger's level is `nmi_last`), `WonIsAwaited` (an interrupt is won only before a
fetch or within a branch), `OwedIsHeld` (an edge is owed exactly if it is latched, won, or in
service), `VectorIsClean` (nothing is latched in the cycles that read the NMOS vector) and
`DeafIsCycle`.  None of them is inductive alone: that an edge acknowledged by the vector was the one
owed needs all five, and what the sequences look like (`Sequencing`).  It gives `NmiKept`,
`NmiEdgesOnly` and `DeafBriefly` for the patient host.  `TakenInTime` adds `TimeInv`: `cycle` tells where in
a branch the cursor stands (`InStep`), and what has been won is what the observer, with its own
debt and the I flag from before the cycle, would have won in the cycle that polled last
(`WonOnTime`); that a debt is an edge the resolver senses in that very cycle is `PollIsFound`.
`CmosLedger` is all of this, `TakenOnTime` included, on CMOS for any host.

`JsBinding_proofs`: `JsInv` adds to the two invariants the types and `OwnsCore` (a living object's
pointer is a context, and that holds a core and not the bytes of a snapshot).  The pool
functions are lemmas of their own, `AllocTakesFree`, `FreeGivesBack`, `BorrowAndReturn`; that a full
stack never keeps a context from being freed is counting (`RoomToFree`), and so is that `createCpu`
fails exactly if `Capacity` objects are alive (`StackCountsTheLiving`), which the refinement
`ObjectsStayApart` needs.

`InstructionPromises_proofs`: nothing is assumed of the program, the number of calls or the counts, but
that they are integers.

* The lines (`IrqLineKeepsContract`, `NmiLineKeepsContract`): `ScheduleInv` says that a line is
  asserted exactly while its release is scheduled, and that no release is overdue, except by one
  call while the line waits for its turn in `apply_scheduled_interrupt_deasserts`.  Each step of the
  adapter is then one of four steps of each line's contract (`Assertion`, `Completion`,
  `Forgetting`, `Resting`), and never of both lines in a way that mixes them.  That a tick does not
  drive a line is `TickKeepsPins`.
* The budgets (`CallsEndAtBoundary`): `CyclesToFetch` bounds the cycles from an entry of the store to
  the next fetch or jam.  `BoundaryInv` says that in a call the cycles spent and this bound are less
  than the budget; that it goes down with every tick, also when an interrupt sequence takes the
  fetch, is `TickApproaches` from `EndsInFetch`.  `reset()` is followed cycle by cycle (`Waiting`,
  `Starting`), because its loop must not take the fetch in the middle for the last one.
  `CallsEndAtBoundary` is proved for a program that does not start at the address which that fetch
  shows (`~ShamFetchAtStart`); with it the statement is false.  `AdapterTypeCorrect` needs no such
  condition.
* `AdapterPatience`: the detector is off only while a vector is read (`DeafInv`), lines move between
  calls only, and calls end before an opcode.  So the first finding does not arise under the
  adapter, and `AdapterRunsPolledCore` follows for every model.

* The next call, on NMOS (the CMOS BRK and one-cycle NOPs do not poll, and the statements are false
  there).  `NmiServed`: a call starts at a fetch at which nothing is won but by the cycle that polled
  (`CallStart`); `low_seen` is what the detector has of the line (`LevelSeen`); an NMI raised before
  a call is an edge from its first cycle on, and then `Owing`: latched or won while the instruction
  still has a cycle that polls ahead (`UnservedInv`).  Its exceptions are a jam and an IRQ that wins
  the second poll of a branch, the second finding.  `IrqFollows`: while an unmasked IRQ is asserted in a call, it
  is won or there is a poll ahead (`IrqPending`); a masked one is not won unless RTI has cleared
  I, since every other instruction clears it after its poll (`OnTheWay`, `FlagBeforeFetch`).
  Both are for `~ShamFetchAtStart`.

`Alu_proofs`: for every operand and every register the programs reach (`AluType` is all the proofs need
of that).  The functions are read nibble by nibble: `NmosAdds`, `NmosSubtracts`, `CmosAdds` and
`CmosSubtracts` each say which digits and which carry come out, by cases on which of the two
nibbles is corrected.  From these: `DecimalSum`, `DecimalDifference`, and `SubtractionUndoes`
(`BinaryUndone`, `DecimalUndone`).  `CompareIsSubtraction` and `OverflowMeansSigned` are about the binary
path and hold in every model.

`AddressPath_proofs`: for all bytes, what the handlers put together from halves is the sum:
`StoreProbeCompletes` and `ReadProbeDecides` for an index added in one handler and its carry two
handlers later, `BranchLands` for a branch within its page.

**Only model-checked:** liveness; the data path but for the sums above (`InstructionCycles`,
`OperandAddress`, `NextInstruction`, `WritesInPlace`), whose handlers read what a class table says of
each opcode.

## 7. Not modelled

* Operand values and the N, V, Z and C flags in the core; ALU operations other than arithmetic,
  compares and shifts (the logical ones, BIT, TSB and TRB, the undocumented ARR, ANC, SBX and
  their kind).  They compute from a byte and touch nothing else.
* The addresses of CMOS instructions, of undocumented and unstable opcodes, and of the interrupt
  sequences; they are in the core by the kind of their requests only.
* The setters and getters of the ABI and the C++ wrapper, which forward to modelled functions or
  touch an abstracted register.
* The other adapters: their bookkeeping is `LineSchedule`'s, and what a line does is decided by a
  core that is not this repository's.
* The runners, the test suites, the lockstep harness and the assembler: sequential tools.  The suites
  were read for what they demand (`InstructionPromises`).
* The other cores, by far the most lines in the repository: vendored and for the most part
  generated (MAME's state machines, the test tables); there is no logic of this project in them.
