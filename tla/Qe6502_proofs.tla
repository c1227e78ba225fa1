---------------------------- MODULE Qe6502_proofs ----------------------------
(***************************************************************************)
(* Proofs of the invariants of Qe6502, and that it implements PolledCore,  *)
(* for every model, every set of opcodes and whatever the host does with   *)
(* lines, goto and restart.  In this order: types, the hook and the        *)
(* sampling bit, which do not depend on the control store; what the order  *)
(* of its micro-operations (Sequencing) means for the cursor; the          *)
(* refinement; and a tick told as one cycle of the refined core, for the   *)
(* modules that watch or drive it.                                         *)
(***************************************************************************)
EXTENDS Qe6502Polled, TLAPS

-----------------------------------------------------------------------------
(* The operations on the interrupt word.                                   *)

(* find_active_interrupt() sets no bit but those of the word.              *)
LEMMA FindActiveInterruptType ==
  ASSUME NEW ints \in SUBSET InterruptBits, NEW flags
  PROVE  FindActiveInterrupt(ints, flags) \in SUBSET InterruptBits
BY DEF FindActiveInterrupt, InterruptBits

(* Nor does the NMI edge detector.                                         *)
LEMMA SenseNmiType ==
  ASSUME NEW ints \in SUBSET InterruptBits
  PROVE  SenseNmi(ints) \in SUBSET InterruptBits
BY DEF SenseNmi, UpdateNmiLastSampled, InterruptBits

(* Nor does a handler.                                                     *)
LEMMA InterruptsAfterType ==
  ASSUME NEW ints \in SUBSET InterruptBits, NEW op, NEW flags, NEW choice
  PROVE  InterruptsAfter(op, ints, flags, choice) \in SUBSET InterruptBits
<1> DEFINE found == FindActiveInterrupt(ints, flags)
<1>1. found \in SUBSET InterruptBits
  BY FindActiveInterruptType
<1>2. NmosPushStatus(ints, flags) \in SUBSET InterruptBits
  BY <1>1 DEF NmosPushStatus, InterruptBits
<1>3. NmosNmiPushStatus(ints, flags) \in SUBSET InterruptBits
  BY <1>2 DEF NmosNmiPushStatus
<1>4. NmosVectorHigh(ints) \in SUBSET InterruptBits
  BY DEF NmosVectorHigh
<1>5. NmosNmiVectorHigh(ints) \in SUBSET InterruptBits
  BY DEF NmosNmiVectorHigh, UpdateNmiLastSampled, InterruptBits
<1>6. CmosNmiPushStatus(ints) \in SUBSET InterruptBits
  BY DEF CmosNmiPushStatus, UpdateNmiLastSampled, InterruptBits
<1>7. CmosIrqPushStatus(ints) \in SUBSET InterruptBits
  BY DEF CmosIrqPushStatus
<1>8. CmosVectorHigh(ints) \in SUBSET InterruptBits
  BY DEF CmosVectorHigh, UpdateNmiLastSampled, InterruptBits
<1>9. Prefetch(ints) \in SUBSET InterruptBits
  BY DEF Prefetch, InterruptBits
<1>. QED
  BY <1>2, <1>3, <1>4, <1>5, <1>6, <1>7, <1>8, <1>9 DEF InterruptsAfter

(* An arbitration never marks the next cycle as a polling one.             *)
LEMMA FindActiveInterruptKeepsSampling ==
  ASSUME NEW ints, NEW flags, "sampling" \notin ints
  PROVE  "sampling" \notin FindActiveInterrupt(ints, flags)
BY DEF FindActiveInterrupt

(* With nothing pending an arbitration finds nothing.                      *)
LEMMA NothingPendingNothingFound ==
  ASSUME NEW ints, NEW flags, ~Pending(ints)
  PROVE  FindActiveInterrupt(ints, flags) = ints
BY DEF Pending, FindActiveInterrupt

(* With nothing pending, a handler leaves nothing pending: only a line can *)
(* raise an interrupt.                                                     *)
LEMMA HandlersRaiseNothing ==
  ASSUME NEW ints, NEW op, NEW flags, NEW choice, ~Pending(ints)
  PROVE  ~Pending(InterruptsAfter(op, ints, flags, choice))
<1>1. ~Pending(NmosPushStatus(ints, flags))
  BY NothingPendingNothingFound DEF NmosPushStatus, Pending, TakenBits
<1>2. ~Pending(NmosNmiPushStatus(ints, flags))
  BY NothingPendingNothingFound DEF NmosNmiPushStatus, NmosPushStatus, Pending, TakenBits
<1>3. ~Pending(NmosVectorHigh(ints))
  BY DEF NmosVectorHigh, Pending, TakenBits
<1>4. ~Pending(NmosNmiVectorHigh(ints))
  BY DEF NmosNmiVectorHigh, UpdateNmiLastSampled, Pending, TakenBits
<1>5. ~Pending(CmosNmiPushStatus(ints))
  BY DEF CmosNmiPushStatus, UpdateNmiLastSampled, Pending, TakenBits
<1>6. ~Pending(CmosIrqPushStatus(ints))
  BY DEF CmosIrqPushStatus, Pending, TakenBits
<1>7. ~Pending(CmosVectorHigh(ints))
  BY DEF CmosVectorHigh, UpdateNmiLastSampled, Pending, TakenBits
<1>8. ~Pending(Prefetch(ints))
  BY DEF Prefetch, Pending, TakenBits
<1>. QED
  BY <1>1, <1>2, <1>3, <1>4, <1>5, <1>6, <1>7, <1>8 DEF InterruptsAfter

-----------------------------------------------------------------------------
(* The handlers.                                                           *)

(* What is pulled from the stack or decided by data are status flags.      *)
LEMMA ChoicesOfFlags ==
  ASSUME NEW op, NEW choice \in Choices(op), op \in {"pull_status", "plp_fetch"}
  PROVE  choice \subseteq Flags
<1>1. op \notin ProbeOps \cup {"branch_apply"} /\ op # "branch_offset"
  BY DEF ProbeOps
<1>. QED
  BY <1>1 DEF Choices

(* A handler sets no flag but I and D.                                     *)
LEMMA FlagsAfterType ==
  ASSUME NEW op, NEW choice \in Choices(op), NEW flags \in SUBSET Flags
  PROVE  FlagsAfter(op, flags, choice) \in SUBSET Flags
<1>1. CASE op \in {"pull_status", "plp_fetch"}
  <2>1. choice \subseteq Flags
    BY <1>1, ChoicesOfFlags
  <2>. QED
    BY <1>1, <2>1 DEF FlagsAfter
<1>2. CASE op \notin {"pull_status", "plp_fetch"}
  BY <1>2 DEF FlagsAfter, Flags
<1>. QED
  BY <1>1, <1>2

(* The cursor stays an index.                                              *)
LEMMA NextMicrocodeType ==
  ASSUME NEW at \in Nat, NEW flags, NEW choice, NEW winner, NEW count
  PROVE  NextMicrocode(at, flags, choice, winner, count) \in Nat
<1>1. MiddleOf(SlotNmi) \in Nat /\ MiddleOf(SlotIrq) \in Nat
  BY DEF MiddleOf, Index, MicrocodePerSlot, SlotNmi, SlotIrq
<1>2. Index(SlotIllegalExt, 0) \in Nat /\ Index(SlotReset0, 0) \in Nat
  BY DEF Index, MicrocodePerSlot, SlotIllegalExt, SlotReset0
<1>3. at + 1 + Ahead(OpAt(at), flags, choice) \in Nat
  <2>1. Ahead(OpAt(at), flags, choice) \in {0, 1, 2}
    BY DEF Ahead
  <2>. QED
    BY <2>1
<1>. QED
  BY <1>1, <1>2, <1>3 DEF NextMicrocode

(* Every handler asks for one of the bus cycles.                           *)
LEMMA RequestType ==
  ASSUME NEW op, NEW flags, NEW count
  PROVE  Request(op, flags, count) \in Requests
BY DEF Request, Requests

(* A handler starts at an index, with a count of instruction bytes.        *)
LEMMA EntriesType ==
  ASSUME NEW from \in Nat, advance \in Nat, NEW e \in Entries(from)
  PROVE  e.at \in Nat /\ e.advance \in Nat
<1>1. \A opcode \in Opcodes : Index(opcode, 0) \in Nat
  BY OpcodesAssumption DEF OpcodeSlots, Index, MicrocodePerSlot
<1>. QED
  BY <1>1 DEF Entries

(* Running a handler keeps the part of the state the resolver leaves alone *)
(* in its type.                                                            *)
LEMMA HandlerType ==
  ASSUME ExecutionTypeOK, NEW e, e.at \in Nat, e.advance \in Nat,
         NEW choice \in Choices(OpAt(e.at)), Handler(e, choice)
  PROVE  /\ P' \subseteq Flags
         /\ latch_data' \in Nat
         /\ advance' \in Nat
         /\ tick' \in Requests
<1> DEFINE op == OpAt(e.at)
<1>1. P' \subseteq Flags
  <2>1. P' = FlagsAfter(op, P, choice)
    BY DEF Handler
  <2>. QED
    BY <2>1, FlagsAfterType DEF ExecutionTypeOK
<1>2. latch_data' \in Nat
  BY DEF Handler, ExecutionTypeOK
<1>3. tick' \in Requests
  BY RequestType DEF Handler
<1>4. advance' \in Nat
  <2>1. advance' = CASE tick' = "fetch" -> 0
                     [] tick' # "fetch" /\ op \in AdvanceOps -> e.advance + 1
                     [] OTHER -> e.advance
    BY DEF Handler
  <2>2. e.advance + 1 \in Nat
    OBVIOUS
  <2>. QED
    BY <2>1, <2>2
<1>. QED
  BY <1>1, <1>2, <1>3, <1>4

-----------------------------------------------------------------------------
(* The steps.                                                              *)

(* A tick that starts at an index keeps every type, on the fast path ...   *)
LEMMA FastTickType ==
  ASSUME TypeOK, NEW from \in Nat, FastTick(from)
  PROVE  TypeOK'
<1>0. PICK e \in Entries(from) : \E choice \in Choices(OpAt(e.at)) :
        /\ Handler(e, choice)
        /\ interrupts' = InterruptsAfter(OpAt(e.at), interrupts, P, choice)
        /\ microcode' = Continue(e, interrupts, choice)
  BY DEF FastTick
<1>1. PICK choice \in Choices(OpAt(e.at)) :
        /\ Handler(e, choice)
        /\ interrupts' = InterruptsAfter(OpAt(e.at), interrupts, P, choice)
        /\ microcode' = Continue(e, interrupts, choice)
  BY <1>0
<1>2. e.at \in Nat /\ e.advance \in Nat
  BY EntriesType DEF TypeOK, ExecutionTypeOK
<1>3. microcode' \in Nat
  BY <1>1, <1>2, NextMicrocodeType DEF Continue
<1>4. interrupts' \subseteq InterruptBits
  BY <1>1, InterruptsAfterType DEF TypeOK
<1>5. hijack' \in BOOLEAN
  BY DEF FastTick, TypeOK
<1>6. /\ P' \subseteq Flags
      /\ latch_data' \in Nat
      /\ advance' \in Nat
      /\ tick' \in Requests
  BY <1>1, <1>2, HandlerType DEF TypeOK
<1>. QED
  BY <1>3, <1>4, <1>5, <1>6 DEF TypeOK, ExecutionTypeOK

(* ... and with the resolver, in each of its three outcomes.               *)
LEMMA HijackedTickType ==
  ASSUME TypeOK, NEW from \in Nat, HijackedTick(from)
  PROVE  TypeOK'
<1> DEFINE found == SenseNmi(interrupts)
<1> DEFINE left(e, choice) == InterruptsAfter(OpAt(e.at), found, P, choice)
           next(e, choice) == Continue(e, found, choice)
           Outcome(e, choice) ==
             /\ Handler(e, choice)
             /\ \/ Arbitrate(left(e, choice), next(e, choice))
                \/ EnterSequence(left(e, choice))
                \/ Resume(left(e, choice), next(e, choice))
<1>0. PICK e \in Entries(from) : \E choice \in Choices(OpAt(e.at)) : Outcome(e, choice)
  BY DEF HijackedTick
<1>1. PICK choice \in Choices(OpAt(e.at)) : Outcome(e, choice)
  BY <1>0
<1>2. e.at \in Nat /\ e.advance \in Nat
  BY EntriesType DEF TypeOK, ExecutionTypeOK
<1>3. next(e, choice) \in Nat
  BY <1>2, NextMicrocodeType DEF Continue
<1>4. found \in SUBSET InterruptBits
  BY SenseNmiType DEF TypeOK
<1>5. left(e, choice) \in SUBSET InterruptBits
  BY <1>4, InterruptsAfterType
<1>6. /\ P' \subseteq Flags
      /\ latch_data' \in Nat
      /\ advance' \in Nat
      /\ tick' \in Requests
  BY <1>1, <1>2, HandlerType DEF TypeOK
<1>7. /\ microcode' \in Nat
      /\ interrupts' \subseteq InterruptBits
      /\ hijack' \in BOOLEAN
  <2>. HIDE DEF left, next
  <2>1. CASE Arbitrate(left(e, choice), next(e, choice))
    <3>1. left(e, choice) \ {"sampling"} \in SUBSET InterruptBits
      BY <1>5
    <3>2. interrupts' \subseteq InterruptBits
      BY <2>1, <3>1, FindActiveInterruptType DEF Arbitrate
    <3>. QED
      BY <1>3, <2>1, <3>2 DEF Arbitrate, Pending
  <2>2. CASE EnterSequence(left(e, choice))
    <3>1. microcode' \in Nat
      BY <2>2 DEF EnterSequence, Index, MicrocodePerSlot, SlotNmi, SlotIrq
    <3>. QED
      BY <1>5, <2>2, <3>1 DEF EnterSequence, TypeOK
  <2>3. CASE Resume(left(e, choice), next(e, choice))
    BY <1>3, <1>5, <2>3 DEF Resume, Pending
  <2>. QED
    BY <1>1, <2>1, <2>2, <2>3
<1>. QED
  BY <1>6, <1>7 DEF TypeOK, ExecutionTypeOK

(* The lines: types, hooking and the sampling bit, whichever pin moves.    *)
LEMMA LineChangeType ==
  ASSUME TypeOK, LineChange
  PROVE  TypeOK'
<1>1. PICK level \in BOOLEAN : NmiAssert(level) \/ IrqAssert(level)
  BY DEF LineChange
<1>2. UNCHANGED execution
  BY <1>1 DEF NmiAssert, IrqAssert
<1>3. interrupts' \subseteq InterruptBits
  BY <1>1 DEF NmiAssert, IrqAssert, TypeOK, InterruptBits
<1>4. hijack' \in BOOLEAN
  BY <1>1 DEF NmiAssert, IrqAssert, TypeOK
<1>. QED
  BY <1>2, <1>3, <1>4 DEF TypeOK, ExecutionTypeOK, execution

(* A restarted core is well typed.                                         *)
LEMMA RestartedType ==
  /\ Restarted.microcode \in Nat
  /\ Restarted.P \subseteq Flags
  /\ Restarted.latch_data \in Nat
  /\ Restarted.advance \in Nat
  /\ Restarted.tick \in Requests
BY DEF Restarted, Index, MicrocodePerSlot, SlotInternalReset, Requests

LEMMA TypeKept ==
  ASSUME TypeOK, [Next]_vars
  PROVE  TypeOK'
<1>1. microcode \in Nat /\ Index(SlotGoto, 0) \in Nat
  BY DEF TypeOK, ExecutionTypeOK, Index, MicrocodePerSlot, SlotGoto
<1>2. CASE Tick
  BY <1>1, <1>2, FastTickType, HijackedTickType DEF Tick
<1>3. CASE Goto
  BY <1>1, <1>3, FastTickType, HijackedTickType DEF Goto
<1>4. CASE LineChange
  BY <1>4, LineChangeType
<1>5. CASE Restart
  BY <1>5, RestartedType DEF Restart, TypeOK, ExecutionTypeOK
<1>6. CASE UNCHANGED vars
  BY <1>6 DEF vars, TypeOK, ExecutionTypeOK
<1>. QED
  BY <1>2, <1>3, <1>4, <1>5, <1>6 DEF Next

(* Every variable of the core keeps its type, whatever program runs and    *)
(* whatever the host does to the lines.                                    *)
THEOREM TypeCorrect == Spec => []TypeOK
<1>1. Init => TypeOK
  BY RestartedType DEF Init, TypeOK, ExecutionTypeOK
<1>2. TypeOK /\ [Next]_vars => TypeOK'
  BY TypeKept
<1>. QED
  BY <1>1, <1>2, PTL DEF Spec

-----------------------------------------------------------------------------
(* The optimisation.                                                       *)

(* With the resolver unhooked a tick leaves nothing pending.               *)
LEMMA FastTickHooked ==
  ASSUME PendingHijacks, NEW from, FastTick(from)
  PROVE  PendingHijacks'
<1>1. ~hijack /\ ~Pending(interrupts)
  BY DEF FastTick, PendingHijacks
<1>2. ~Pending(interrupts')
  BY <1>1, HandlersRaiseNothing DEF FastTick
<1>. QED
  BY <1>2 DEF PendingHijacks

(* With the resolver hooked in, it stays so as long as it must.            *)
LEMMA HijackedTickHooked ==
  ASSUME NEW from, HijackedTick(from)
  PROVE  PendingHijacks'
<1>1. PICK left, next : Arbitrate(left, next) \/ EnterSequence(left) \/ Resume(left, next)
  BY DEF HijackedTick
<1>2. hijack
  BY DEF HijackedTick
<1>3. CASE Arbitrate(left, next)
  BY <1>3 DEF Arbitrate, PendingHijacks
<1>4. CASE EnterSequence(left)
  BY <1>2, <1>4 DEF EnterSequence, PendingHijacks
<1>5. CASE Resume(left, next)
  BY <1>5 DEF Resume, PendingHijacks
<1>. QED
  BY <1>1, <1>3, <1>4, <1>5

(* A line that moves hooks the resolver, unless it is a line going low     *)
(* that leaves nothing to do.                                              *)
LEMMA LineChangeHooked ==
  ASSUME PendingHijacks, LineChange
  PROVE  PendingHijacks'
<1>1. CASE \E level \in BOOLEAN : NmiAssert(level)
  BY <1>1 DEF NmiAssert, PendingHijacks, Pending, TakenBits
<1>2. CASE \E level \in BOOLEAN : IrqAssert(level)
  BY <1>2 DEF IrqAssert, PendingHijacks, Pending, TakenBits
<1>. QED
  BY <1>1, <1>2 DEF LineChange

LEMMA HookKept ==
  ASSUME PendingHijacks, [Next]_vars
  PROVE  PendingHijacks'
<1>1. CASE Tick
  BY <1>1, FastTickHooked, HijackedTickHooked DEF Tick
<1>2. CASE Goto
  BY <1>2, FastTickHooked, HijackedTickHooked DEF Goto
<1>3. CASE LineChange
  BY <1>3, LineChangeHooked
<1>4. CASE Restart
  BY <1>4 DEF Restart, PendingHijacks, Pending, TakenBits
<1>5. CASE UNCHANGED vars
  BY <1>5 DEF vars, PendingHijacks, Pending
<1>. QED
  BY <1>1, <1>2, <1>3, <1>4, <1>5 DEF Next

(* The resolver is never unhooked while an NMI edge is latched or still to *)
(* be sensed, the IRQ line is asserted or a won interrupt waits for its    *)
(* fetch: the fast path of qe6502_tick() can miss none of them.            *)
THEOREM HijackSafety == Spec => []PendingHijacks
<1>1. Init => PendingHijacks
  BY DEF Init, PendingHijacks, Pending, TakenBits
<1>2. PendingHijacks /\ [Next]_vars => PendingHijacks'
  BY HookKept
<1>. QED
  BY <1>1, <1>2, PTL DEF Spec

-----------------------------------------------------------------------------
(* The sampling bit.                                                       *)

(* A tick with the resolver ends with no sampling bit if it ends hooked    *)
(* in: the arbitration consumed it or the handler did not set it.          *)
LEMMA HijackedTickNotSampling ==
  ASSUME NEW from, HijackedTick(from)
  PROVE  "sampling" \notin interrupts'
<1>1. PICK left, next : Arbitrate(left, next) \/ EnterSequence(left) \/ Resume(left, next)
  BY DEF HijackedTick
<1>2. CASE Arbitrate(left, next)
  BY <1>2, FindActiveInterruptKeepsSampling DEF Arbitrate
<1>3. CASE EnterSequence(left)
  BY <1>3 DEF EnterSequence
<1>4. CASE Resume(left, next)
  BY <1>4 DEF Resume
<1>. QED
  BY <1>1, <1>2, <1>3, <1>4

LEMMA SamplingKept ==
  ASSUME NoStaleSampling, [Next]_vars
  PROVE  NoStaleSampling'
<1>1. ASSUME NEW from, FastTick(from) PROVE NoStaleSampling'
  BY <1>1 DEF FastTick, NoStaleSampling
<1>2. ASSUME NEW from, HijackedTick(from) PROVE NoStaleSampling'
  BY <1>2, HijackedTickNotSampling DEF NoStaleSampling
<1>3. CASE Tick \/ Goto
  BY <1>1, <1>2, <1>3 DEF Tick, Goto
<1>4. CASE LineChange
  <2>1. "sampling" \notin interrupts'
    BY <1>4 DEF LineChange, NmiAssert, IrqAssert
  <2>. QED
    BY <2>1 DEF NoStaleSampling
<1>5. CASE Restart
  BY <1>5 DEF Restart, NoStaleSampling
<1>6. CASE UNCHANGED vars
  BY <1>6 DEF vars, NoStaleSampling
<1>. QED
  BY <1>3, <1>4, <1>5, <1>6 DEF Next

(* The resolver never starts a cycle with the sampling bit of an earlier   *)
(* one: it arbitrates exactly in the cycles whose handler asks for it.     *)
THEOREM NoStaleSamplingHolds == Spec => []NoStaleSampling
<1>1. Init => NoStaleSampling
  BY DEF Init, NoStaleSampling
<1>2. NoStaleSampling /\ [Next]_vars => NoStaleSampling'
  BY SamplingKept
<1>. QED
  BY <1>1, <1>2, PTL DEF Spec

-----------------------------------------------------------------------------
(* What the order of the micro-operations in the control store             *)
(* (Sequencing) means for the running core: the cursor never leaves it.    *)

(* What is not empty lies within the model's block.                        *)
LEMMA FilledIsCursor ==
  ASSUME NEW at \in Nat, OpAt(at) # "empty"
  PROVE  at \in Cursors
<1>1. at \div 8 \in 0 .. 263
  BY DEF OpAt, SlotOf, MicrocodePerSlot, OpcodeSlots, ServiceSlots
<1>2. at <= 263 * 8 + 7
  BY <1>1
<1>. QED
  BY <1>2 DEF Cursors, Index, MicrocodePerSlot, SlotIrq

(* A handler starts at an entry that holds one.                            *)
LEMMA EntriesRun ==
  ASSUME NEW from \in Nat, NEW e \in Entries(from)
  PROVE  e.at \in Nat /\ Running(e.at) /\ e.at \in Cursors
<1>1. CASE OpAt(from) = "dispatch"
  <2>1. PICK opcode \in Opcodes : e.at = Index(opcode, 0)
    BY <1>1 DEF Entries
  <2>2. opcode \in OpcodeSlots
    BY OpcodesAssumption
  <2>3. Running(e.at)
    BY <2>1, <2>2, ClosedAssumption DEF Closed
  <2>4. e.at \in Nat
    BY <2>1, <2>2 DEF OpcodeSlots, Index, MicrocodePerSlot
  <2>. QED
    BY <2>3, <2>4, FilledIsCursor DEF Running
<1>2. CASE OpAt(from) # "dispatch"
  <2>1. e.at = from /\ OpAt(from) # "empty"
    BY <1>2 DEF Entries
  <2>. QED
    BY <1>2, <2>1, FilledIsCursor DEF Running
<1>. QED
  BY <1>1, <1>2

LEMMA WinnerType == \A ints : Winner(ints) \in {"none", "nmi", "irq"}
BY DEF Winner

(* The cursor a handler leaves is one of the successors the store has: the *)
(* count of the internal reset matters only for being eight or not.        *)
LEMMA NextIsSuccessor ==
  ASSUME NEW at, NEW flags, NEW choice, NEW winner \in {"none", "nmi", "irq"}, NEW count
  PROVE  NextMicrocode(at, flags, choice, winner, count) \in Successors(at, flags, choice)
<1> DEFINE same == IF count = 8 THEN 8 ELSE 0
<1>1. NextMicrocode(at, flags, choice, winner, count)
        = NextMicrocode(at, flags, choice, winner, same)
  BY DEF NextMicrocode, LoopsHere
<1>2. same \in {0, 8}
  OBVIOUS
<1>. HIDE DEF same
<1>. QED
  BY <1>1, <1>2 DEF Successors

LEMMA ContinueIsSuccessor ==
  ASSUME NEW e, NEW ints, NEW choice
  PROVE  Continue(e, ints, choice) \in Successors(e.at, P, choice)
BY NextIsSuccessor, WinnerType DEF Continue

(* A tick runs a handler and goes on with one of its successors, or enters *)
(* an interrupt sequence in place of the opcode it has asked for.          *)
Moves(e, choice) ==
  /\ Handler(e, choice)
  /\ \/ microcode' \in Successors(e.at, P, choice)
     \/ tick' = "fetch" /\ microcode' \in {Index(SlotNmi, 0), Index(SlotIrq, 0)}

LEMMA TickMoves ==
  ASSUME NEW from, FastTick(from) \/ HijackedTick(from)
  PROVE  \E e \in Entries(from) : \E choice \in Choices(OpAt(e.at)) : Moves(e, choice)
<1>1. CASE FastTick(from)
  BY <1>1, ContinueIsSuccessor DEF FastTick, Moves
<1>2. CASE HijackedTick(from)
  <2>1. PICK e \in Entries(from) : \E choice \in Choices(OpAt(e.at)) : \E left :
          /\ Handler(e, choice)
          /\ \/ Arbitrate(left, Continue(e, SenseNmi(interrupts), choice))
             \/ EnterSequence(left)
             \/ Resume(left, Continue(e, SenseNmi(interrupts), choice))
    BY <1>2 DEF HijackedTick
  <2>2. PICK choice \in Choices(OpAt(e.at)) : \E left :
          /\ Handler(e, choice)
          /\ \/ Arbitrate(left, Continue(e, SenseNmi(interrupts), choice))
             \/ EnterSequence(left)
             \/ Resume(left, Continue(e, SenseNmi(interrupts), choice))
    BY <2>1
  <2>3. Moves(e, choice)
    BY <2>2, ContinueIsSuccessor DEF Arbitrate, EnterSequence, Resume, Moves
  <2>. QED
    BY <2>3
<1>. QED
  BY <1>1, <1>2

LEMMA TickFilled ==
  ASSUME TypeOK, NEW from \in Nat, FastTick(from) \/ HijackedTick(from)
  PROVE  NoHole'
<1>1. PICK e \in Entries(from) : \E choice \in Choices(OpAt(e.at)) : Moves(e, choice)
  BY TickMoves
<1>2. PICK choice \in Choices(OpAt(e.at)) : Moves(e, choice)
  BY <1>1
<1>3. Running(e.at) /\ e.at \in Cursors /\ P \in SUBSET Flags
  BY EntriesRun DEF TypeOK, ExecutionTypeOK
<1>4. OpAt(Index(SlotNmi, 0)) # "empty" /\ OpAt(Index(SlotIrq, 0)) # "empty"
  BY ClosedAssumption DEF Closed, Running
<1>. QED
  BY <1>2, <1>3, <1>4, ClosedAssumption DEF Moves, Closed, NoHole

LEMMA FillingKept ==
  ASSUME TypeOK, NoHole, [Next]_vars
  PROVE  NoHole'
<1>1. microcode \in Nat /\ Index(SlotGoto, 0) \in Nat
  BY DEF TypeOK, ExecutionTypeOK, Index, MicrocodePerSlot, SlotGoto
<1>2. CASE Tick \/ Goto
  BY <1>1, <1>2, TickFilled DEF Tick, Goto
<1>3. CASE LineChange
  BY <1>3 DEF LineChange, NmiAssert, IrqAssert, execution, NoHole
<1>4. CASE Restart
  BY <1>4, ClosedAssumption DEF Restart, Restarted, NoHole, Closed, Running
<1>5. CASE UNCHANGED vars
  BY <1>5 DEF vars, NoHole
<1>. QED
  BY <1>2, <1>3, <1>4, <1>5 DEF Next

(* The core never runs a null pointer of the control store, whatever       *)
(* program it executes and whatever the host does and when.                *)
THEOREM NoHoleHolds == Spec => []NoHole
<1>1. Init => NoHole
  BY ClosedAssumption DEF Init, Restarted, NoHole, Closed, Running
<1>2. TypeOK /\ NoHole /\ [Next]_vars => NoHole'
  BY FillingKept
<1>. QED
  BY <1>1, <1>2, TypeCorrect, PTL DEF Spec

LEMMA SlotStarts ==
  ASSUME NEW slot \in Nat
  PROVE  Index(slot, 0) \in Nat /\ SlotOf(Index(slot, 0)) = slot
BY DEF Index, SlotOf, MicrocodePerSlot

-----------------------------------------------------------------------------
(* CMOS: the edge detector is never off.                                   *)
NeverDeaf == "sampling_off" \notin interrupts

LEMMA HandlersDoNotDeafen ==
  ASSUME NEW op, op \notin DeafeningOps, NEW ints, "sampling_off" \notin ints,
         NEW flags, NEW choice
  PROVE  "sampling_off" \notin InterruptsAfter(op, ints, flags, choice)
<1>1. op \notin {"push_status_b", "irq_push_p", "nmi_push_p"}
  BY DEF DeafeningOps
<1>. QED
  BY <1>1 DEF InterruptsAfter, NmosVectorHigh, NmosNmiVectorHigh, CmosNmiPushStatus,
              CmosIrqPushStatus, CmosVectorHigh, UpdateNmiLastSampled, Prefetch

LEMMA SensingDoesNotDeafen ==
  ASSUME NEW ints, "sampling_off" \notin ints
  PROVE  "sampling_off" \notin SenseNmi(ints)
BY DEF SenseNmi, UpdateNmiLastSampled

LEMMA CmosTickNeverDeaf ==
  ASSUME Model \in {"wdc", "rw", "st"}, NeverDeaf, NEW from \in Nat,
         FastTick(from) \/ HijackedTick(from)
  PROVE  NeverDeaf'
<1>1. \A e \in Entries(from) : OpAt(e.at) \notin DeafeningOps
  BY EntriesRun, DeafUntilVectorAssumption DEF DeafUntilVector
<1>2. CASE FastTick(from)
  BY <1>1, <1>2, HandlersDoNotDeafen DEF FastTick, NeverDeaf
<1>3. CASE HijackedTick(from)
  <2>1. PICK left, next :
          /\ "sampling_off" \notin left
          /\ Arbitrate(left, next) \/ EnterSequence(left) \/ Resume(left, next)
    BY <1>1, <1>3, HandlersDoNotDeafen, SensingDoesNotDeafen DEF HijackedTick, NeverDeaf
  <2>. QED
    BY <2>1 DEF Arbitrate, EnterSequence, Resume, FindActiveInterrupt, NeverDeaf
<1>. QED
  BY <1>2, <1>3

LEMMA CmosStepNeverDeaf ==
  ASSUME Model \in {"wdc", "rw", "st"}, TypeOK, NeverDeaf, [Next]_vars
  PROVE  NeverDeaf'
<1>1. microcode \in Nat /\ Index(SlotGoto, 0) \in Nat
  BY DEF TypeOK, ExecutionTypeOK, Index, MicrocodePerSlot, SlotGoto
<1>2. CASE Tick \/ Goto
  BY <1>1, <1>2, CmosTickNeverDeaf DEF Tick, Goto
<1>3. CASE LineChange
  BY <1>3 DEF LineChange, NmiAssert, IrqAssert, NeverDeaf
<1>4. CASE Restart
  BY <1>4 DEF Restart, NeverDeaf
<1>5. CASE UNCHANGED vars
  BY <1>5 DEF vars, NeverDeaf
<1>. QED
  BY <1>2, <1>3, <1>4, <1>5 DEF Next

-----------------------------------------------------------------------------
(* Qe6502 implements PolledCore, for a host that does not release NMI      *)
(* while the edge detector is off.  With the resolver unhooked nothing is  *)
(* pending (PendingHijacks) and the level of NMI last sampled is its level *)
(* now (NmiLevelKnown), so that sensing, arbitrating and entering would    *)
(* all change nothing.  With it hooked in, the cycle is that of the polled *)
(* core, since the sampling bit is set just when the handler of this very  *)
(* cycle polls (NoStaleSampling).                                          *)

(* The instance has its own copy of the control store and of the handlers: *)
(* they are the same.                                                      *)
LEMMA SameStore == Polled!Store = Store
<1>1. Polled!NmosStore = NmosStore
  BY DEF Polled!NmosStore, NmosStore, Polled!NmosClass, NmosClass,
    Polled!NmosMatrix, NmosMatrix,
    Polled!NmosServices, NmosServices, Polled!Nmos0, Nmos0, Polled!Nmos1,
    Nmos1, Polled!Nmos2, Nmos2, Polled!Nmos3, Nmos3, Polled!Nmos4, Nmos4,
    Polled!Nmos5, Nmos5, Polled!Nmos6, Nmos6, Polled!Nmos7, Nmos7,
    Polled!Nmos8, Nmos8, Polled!Nmos9, Nmos9, Polled!NmosA, NmosA,
    Polled!NmosB, NmosB, Polled!NmosC, NmosC, Polled!NmosD, NmosD,
    Polled!NmosE, NmosE, Polled!NmosF, NmosF, Polled!CommonServices,
    CommonServices, Polled!InterruptSequence, InterruptSequence,
    Polled!Opcode, Opcode, Polled!OpcodeSlots, OpcodeSlots,
    Polled!ServiceSlots, ServiceSlots, Polled!SlotIllegalExt,
    SlotIllegalExt, Polled!SlotInternalReset, SlotInternalReset,
    Polled!SlotReset0, SlotReset0, Polled!SlotReset1, SlotReset1,
    Polled!SlotGoto, SlotGoto, Polled!SlotNmi, SlotNmi, Polled!SlotIrq,
    SlotIrq
<1>2. Polled!WdcStore = WdcStore
  BY DEF Polled!WdcStore, WdcStore, Polled!CmosClass, CmosClass,
    Polled!CmosServices, CmosServices, Polled!Wdc0, Wdc0, Polled!Wdc1, Wdc1,
    Polled!Wdc2, Wdc2, Polled!Wdc3, Wdc3, Polled!Wdc4, Wdc4, Polled!Wdc5,
    Wdc5, Polled!Wdc6, Wdc6, Polled!Wdc7, Wdc7, Polled!Wdc8, Wdc8,
    Polled!Wdc9, Wdc9, Polled!WdcA, WdcA, Polled!WdcB, WdcB, Polled!WdcC,
    WdcC, Polled!WdcD, WdcD, Polled!WdcE, WdcE, Polled!WdcF, WdcF,
    Polled!CommonServices, CommonServices, Polled!InterruptSequence,
    InterruptSequence, Polled!Opcode, Opcode, Polled!OpcodeSlots,
    OpcodeSlots, Polled!ServiceSlots, ServiceSlots, Polled!SlotIllegalExt,
    SlotIllegalExt, Polled!SlotInternalReset, SlotInternalReset,
    Polled!SlotReset0, SlotReset0, Polled!SlotReset1, SlotReset1,
    Polled!SlotGoto, SlotGoto, Polled!SlotNmi, SlotNmi, Polled!SlotIrq,
    SlotIrq
<1>3. Polled!StStore = StStore
  <2>1. Polled!CmosClass = CmosClass /\ Polled!OpcodeSlots = OpcodeSlots
    BY DEF Polled!CmosClass, CmosClass, Polled!Opcode, Opcode,
      Polled!OpcodeSlots, OpcodeSlots
  <2>2. \A slot : Polled!StNop(slot) = StNop(slot)
    BY DEF Polled!StNop, StNop
  <2>. QED
    BY <1>2, <2>1, <2>2 DEF Polled!StStore, StStore
<1>. QED
  BY <1>1, <1>2, <1>3
  DEF Polled!Store, Store, Polled!StoreOf, StoreOf, Polled!NesStore, NesStore,
      Polled!RwStore, RwStore

(* Slots and indices.                                                      *)
LEMMA SameIndices ==
  /\ \A slot, cycle : Polled!Index(slot, cycle) = Index(slot, cycle)
  /\ Polled!SlotNmi = SlotNmi
  /\ Polled!SlotIrq = SlotIrq
  /\ Polled!SlotGoto = SlotGoto
BY DEF Polled!Index, Index, Polled!MicrocodePerSlot, MicrocodePerSlot,
  Polled!SlotNmi, SlotNmi, Polled!SlotIrq, SlotIrq, Polled!SlotGoto,
  SlotGoto

(* The handler at an index.                                                *)
LEMMA SameOpAt == \A at : Polled!OpAt(at) = OpAt(at)
BY SameStore
DEF Polled!OpAt, OpAt, Polled!SlotOf, SlotOf, Polled!MicrocodePerSlot,
    MicrocodePerSlot, Polled!OpcodeSlots, OpcodeSlots, Polled!ServiceSlots,
    ServiceSlots

(* The handler that starts a tick, through mc_dispatch or not.             *)
LEMMA SameEntries == \A from : Polled!Entries(from) = Entries(from)
BY SameOpAt, SameIndices DEF Polled!Entries, Entries

(* What data may decide.                                                   *)
LEMMA SameChoices == \A op : Polled!Choices(op) = Choices(op)
BY DEF Polled!Choices, Choices, Polled!ProbeOps, ProbeOps, Polled!Flags, Flags

(* Which handlers poll.                                                    *)
LEMMA SameSamples ==
  \A op, flags, choice : Polled!Samples(op, flags, choice) = Samples(op, flags, choice)
BY DEF Polled!Samples, Samples, Polled!PrefetchOps, PrefetchOps,
       Polled!BinaryPrefetchOps, BinaryPrefetchOps

(* The operations on the interrupt word.                                   *)
LEMMA SameArbitration ==
  /\ \A ints : Polled!SenseNmi(ints) = SenseNmi(ints)
  /\ \A ints, flags :
       Polled!FindActiveInterrupt(ints, flags) = FindActiveInterrupt(ints, flags)
  /\ \A ints : Polled!Winner(ints) = Winner(ints)
  /\ Polled!TakenBits = TakenBits
BY DEF Polled!SenseNmi, SenseNmi, Polled!UpdateNmiLastSampled, UpdateNmiLastSampled,
       Polled!FindActiveInterrupt, FindActiveInterrupt, Polled!Winner, Winner,
       Polled!TakenBits, TakenBits

(* What a handler does to the interrupt word.                              *)
LEMMA SameInterruptsAfter ==
  \A op, ints, flags, choice :
    Polled!InterruptsAfter(op, ints, flags, choice) = InterruptsAfter(op, ints, flags, choice)
<1>. TAKE op, ints, flags, choice
<1>1. Polled!Samples(op, flags, choice) = Samples(op, flags, choice)
  BY SameSamples
<1>2. /\ Polled!NmosPushStatus(ints, flags) = NmosPushStatus(ints, flags)
      /\ Polled!NmosNmiPushStatus(ints, flags) = NmosNmiPushStatus(ints, flags)
      /\ Polled!NmosVectorHigh(ints) = NmosVectorHigh(ints)
      /\ Polled!NmosNmiVectorHigh(ints) = NmosNmiVectorHigh(ints)
      /\ Polled!CmosNmiPushStatus(ints) = CmosNmiPushStatus(ints)
      /\ Polled!CmosIrqPushStatus(ints) = CmosIrqPushStatus(ints)
      /\ Polled!CmosVectorHigh(ints) = CmosVectorHigh(ints)
      /\ Polled!Prefetch(ints) = Prefetch(ints)
  BY DEF Polled!NmosPushStatus, NmosPushStatus, Polled!NmosNmiPushStatus,
    NmosNmiPushStatus, Polled!NmosVectorHigh, NmosVectorHigh,
    Polled!NmosNmiVectorHigh, NmosNmiVectorHigh, Polled!CmosNmiPushStatus,
    CmosNmiPushStatus, Polled!CmosIrqPushStatus, CmosIrqPushStatus,
    Polled!CmosVectorHigh, CmosVectorHigh, Polled!Prefetch, Prefetch,
    Polled!UpdateNmiLastSampled, UpdateNmiLastSampled,
    Polled!FindActiveInterrupt, FindActiveInterrupt, Polled!TakenBits,
    TakenBits
<1>. QED
  BY <1>1, <1>2 DEF Polled!InterruptsAfter, InterruptsAfter

(* What it does to the rest of the state ...                               *)
LEMMA SameHandler ==
  ASSUME NEW e, NEW choice
  PROVE  Polled!Handler(e, choice) = Handler(e, choice)
<1>1. \A op, flags, c : Polled!FlagsAfter(op, flags, c) = FlagsAfter(op, flags, c)
  BY DEF Polled!FlagsAfter, FlagsAfter
<1>2. \A op, flags, count : Polled!Request(op, flags, count) = Request(op, flags, count)
  BY DEF Polled!Request, Request, Polled!FetchOps, FetchOps
<1>3. Polled!AdvanceOps = AdvanceOps
  BY DEF Polled!AdvanceOps, AdvanceOps
<1>. QED
  BY SameOpAt, <1>1, <1>2, <1>3 DEF Polled!Handler, Handler

(* ... and to the cursor.                                                  *)
LEMMA SameContinue ==
  ASSUME NEW e, NEW ints, NEW choice
  PROVE  Polled!Continue(e, ints, choice) = Continue(e, ints, choice)
<1>1. \A at, flags, c, winner, count :
        Polled!NextMicrocode(at, flags, c, winner, count)
          = NextMicrocode(at, flags, c, winner, count)
  <2>1. \A op, flags, c : Polled!Ahead(op, flags, c) = Ahead(op, flags, c)
    BY DEF Polled!Ahead, Ahead, Polled!ProbeOps, ProbeOps
  <2>2. \A op, count : Polled!LoopsHere(op, count) = LoopsHere(op, count)
    BY DEF Polled!LoopsHere, LoopsHere
  <2>3. \A slot : Polled!MiddleOf(slot) = MiddleOf(slot)
    BY SameIndices DEF Polled!MiddleOf, MiddleOf
  <2>4. Polled!SlotIllegalExt = SlotIllegalExt /\ Polled!SlotReset0 = SlotReset0
    BY DEF Polled!SlotIllegalExt, SlotIllegalExt, Polled!SlotReset0, SlotReset0
  <2>. QED
    BY SameOpAt, SameIndices, <2>1, <2>2, <2>3, <2>4
    DEF Polled!NextMicrocode, NextMicrocode
<1>. QED
  BY SameArbitration, <1>1 DEF Polled!Continue, Continue

(* What qe6502_restart() leaves.                                           *)
LEMMA SameRestarted == Polled!Restarted = Restarted
BY SameIndices DEF Polled!Restarted, Restarted, Polled!SlotInternalReset,
SlotInternalReset

-----------------------------------------------------------------------------
(* The sampling bit is of no consequence to anything else in the word.     *)

(* An arbitration does not depend on the sampling bit, nor change it.      *)
LEMMA ArbitrationIgnoresSampling ==
  ASSUME NEW ints, NEW flags
  PROVE  /\ FindActiveInterrupt(ints \ {"sampling"}, flags)
              = FindActiveInterrupt(ints, flags) \ {"sampling"}
         /\ Winner(ints \ {"sampling"}) = Winner(ints)
         /\ Pending(ints \ {"sampling"}) = Pending(ints)
<1>1. FindActiveInterrupt(ints \ {"sampling"}, flags)
        = FindActiveInterrupt(ints, flags) \ {"sampling"}
  BY DEF FindActiveInterrupt
<1>2. Winner(ints \ {"sampling"}) = Winner(ints)
  BY DEF Winner
<1>3. Pending(ints \ {"sampling"}) = Pending(ints)
  <2>1. (ints \ {"sampling"}) \cap TakenBits = ints \cap TakenBits
    BY DEF TakenBits
  <2>. QED
    BY <2>1 DEF Pending
<1>. QED
  BY <1>1, <1>2, <1>3

(* What a handler leaves in the other bits does not depend on it either.   *)
LEMMA HandlersIgnoreSampling ==
  ASSUME NEW op, NEW ints, NEW flags, NEW choice
  PROVE  InterruptsAfter(op, ints \ {"sampling"}, flags, choice) \ {"sampling"}
           = InterruptsAfter(op, ints, flags, choice) \ {"sampling"}
<1> DEFINE quiet == ints \ {"sampling"}
<1>1. NmosPushStatus(quiet, flags) \ {"sampling"} = NmosPushStatus(ints, flags) \ {"sampling"}
  <2>1. FindActiveInterrupt(quiet, flags) = FindActiveInterrupt(ints, flags) \ {"sampling"}
    BY ArbitrationIgnoresSampling
  <2>. HIDE DEF quiet
  <2>. QED
    BY <2>1 DEF NmosPushStatus, TakenBits
<1>2. NmosNmiPushStatus(quiet, flags) \ {"sampling"}
        = NmosNmiPushStatus(ints, flags) \ {"sampling"}
  BY <1>1 DEF NmosNmiPushStatus
<1>3. NmosVectorHigh(quiet) \ {"sampling"} = NmosVectorHigh(ints) \ {"sampling"}
  BY DEF NmosVectorHigh
<1>4. NmosNmiVectorHigh(quiet) \ {"sampling"} = NmosNmiVectorHigh(ints) \ {"sampling"}
  BY DEF NmosNmiVectorHigh, UpdateNmiLastSampled
<1>5. CmosNmiPushStatus(quiet) \ {"sampling"} = CmosNmiPushStatus(ints) \ {"sampling"}
  BY DEF CmosNmiPushStatus, UpdateNmiLastSampled
<1>6. CmosIrqPushStatus(quiet) \ {"sampling"} = CmosIrqPushStatus(ints) \ {"sampling"}
  BY DEF CmosIrqPushStatus
<1>7. CmosVectorHigh(quiet) \ {"sampling"} = CmosVectorHigh(ints) \ {"sampling"}
  BY DEF CmosVectorHigh, UpdateNmiLastSampled
<1>8. Prefetch(quiet) \ {"sampling"} = Prefetch(ints) \ {"sampling"}
  BY DEF Prefetch
<1>. QED
  BY <1>1, <1>2, <1>3, <1>4, <1>5, <1>6, <1>7, <1>8 DEF InterruptsAfter

(* The bit is set after a cycle just when the handler of that cycle polls. *)
LEMMA SamplingIsThisCycles ==
  ASSUME NEW op, NEW ints, "sampling" \notin ints, NEW flags, NEW choice
  PROVE  "sampling" \in InterruptsAfter(op, ints, flags, choice)
           <=> Samples(op, flags, choice)
<1>1. "sampling" \notin FindActiveInterrupt(ints, flags)
  BY FindActiveInterruptKeepsSampling
<1>2. /\ "sampling" \notin NmosPushStatus(ints, flags)
      /\ "sampling" \notin NmosNmiPushStatus(ints, flags)
  BY <1>1 DEF NmosPushStatus, NmosNmiPushStatus
<1>3. /\ "sampling" \notin NmosVectorHigh(ints)
      /\ "sampling" \notin NmosNmiVectorHigh(ints)
      /\ "sampling" \notin CmosNmiPushStatus(ints)
      /\ "sampling" \notin CmosIrqPushStatus(ints)
      /\ "sampling" \notin CmosVectorHigh(ints)
  BY DEF NmosVectorHigh, NmosNmiVectorHigh, CmosNmiPushStatus, CmosIrqPushStatus,
         CmosVectorHigh, UpdateNmiLastSampled
<1>4. "sampling" \in Prefetch(ints)
  BY DEF Prefetch
<1>5. op \in { "push_status_b", "irq_push_p", "nmi_push_p", "brk_vec_hi", "irq_vec_hi",
               "nmi_vec_hi", "cmos_nmi_push_p", "cmos_irq_push_p", "cmos_nmi_vec_hi",
               "cmos_irq_vec_hi" }
        => ~Samples(op, flags, choice)
  BY DEF Samples, PrefetchOps, BinaryPrefetchOps
<1>. QED
  BY <1>2, <1>3, <1>4, <1>5 DEF InterruptsAfter

(* Sensing NMI does not touch it.                                          *)
LEMMA SenseNmiKeepsSampling ==
  ASSUME NEW ints, "sampling" \notin ints
  PROVE  "sampling" \notin SenseNmi(ints)
BY DEF SenseNmi, UpdateNmiLastSampled

-----------------------------------------------------------------------------
(* The level of NMI last sampled.                                          *)

(* It is not above the level of the pin.                                    *)
LevelKnown(ints) == "nmi_last" \in ints => "nmi_pin" \in ints

(* A handler that rewrites the last level takes it from the pin.           *)
LEMMA HandlersKeepLevelKnown ==
  ASSUME NEW op, NEW ints, NEW flags, NEW choice, LevelKnown(ints)
  PROVE  LevelKnown(InterruptsAfter(op, ints, flags, choice))
<1>1. LevelKnown(FindActiveInterrupt(ints, flags))
  BY DEF LevelKnown, FindActiveInterrupt
<1>2. LevelKnown(NmosPushStatus(ints, flags))
  BY <1>1 DEF LevelKnown, NmosPushStatus, TakenBits
<1>3. LevelKnown(NmosNmiPushStatus(ints, flags))
  BY <1>2 DEF LevelKnown, NmosNmiPushStatus
<1>4. /\ LevelKnown(NmosVectorHigh(ints))
      /\ LevelKnown(NmosNmiVectorHigh(ints))
      /\ LevelKnown(CmosNmiPushStatus(ints))
      /\ LevelKnown(CmosIrqPushStatus(ints))
      /\ LevelKnown(CmosVectorHigh(ints))
      /\ LevelKnown(Prefetch(ints))
  BY DEF LevelKnown, NmosVectorHigh, NmosNmiVectorHigh, CmosNmiPushStatus,
         CmosIrqPushStatus, CmosVectorHigh, Prefetch, UpdateNmiLastSampled
<1>. QED
  BY <1>2, <1>3, <1>4 DEF InterruptsAfter

(* After a tick the level is known, hooked or not.                         *)
LEMMA TickKnowsLevel ==
  ASSUME NmiLevelKnown, NEW from, FastTick(from) \/ HijackedTick(from)
  PROVE  LevelKnown(interrupts')
<1>1. CASE FastTick(from)
  <2>1. LevelKnown(interrupts)
    BY <1>1 DEF FastTick, NmiLevelKnown, LevelKnown
  <2>. QED
    BY <1>1, <2>1, HandlersKeepLevelKnown DEF FastTick
<1>2. CASE HijackedTick(from)
  <2> DEFINE found == SenseNmi(interrupts)
  <2>1. LevelKnown(found)
    BY DEF SenseNmi, UpdateNmiLastSampled, LevelKnown, NmiLevelKnown
  <2>2. PICK op, choice, next :
          LET left == InterruptsAfter(op, found, P, choice)
          IN  Arbitrate(left, next) \/ EnterSequence(left) \/ Resume(left, next)
    BY <1>2 DEF HijackedTick
  <2> DEFINE left == InterruptsAfter(op, found, P, choice)
  <2>3. LevelKnown(left)
    BY <2>1, HandlersKeepLevelKnown
  <2>4. Arbitrate(left, next) \/ EnterSequence(left) \/ Resume(left, next)
    BY <2>2
  <2>. HIDE DEF left
  <2>. QED
    BY <2>3, <2>4
    DEF Arbitrate, EnterSequence, Resume, FindActiveInterrupt, LevelKnown, TakenBits
<1>. QED
  BY <1>1, <1>2

-----------------------------------------------------------------------------
(* The invariant of the refinement: what is pending hooks the resolver, no *)
(* sampling bit waits for it, and the level of NMI is known to it.         *)
RefinementInv == PendingHijacks /\ NoStaleSampling /\ NmiLevelKnown

(* A patient host keeps the level known.                                   *)
LEMMA PatientLineChangeKnowsLevel ==
  ASSUME NmiLevelKnown, LineChange, ~ReleasesNmiWhileDeaf
  PROVE  NmiLevelKnown'
<1>1. CASE NmiAssert(TRUE)
  BY <1>1 DEF NmiAssert, NmiLevelKnown
<1>2. CASE NmiAssert(FALSE) /\ "nmi_pin" \in interrupts
  <2>1. "sampling_off" \notin interrupts
    BY <1>2 DEF ReleasesNmiWhileDeaf
  <2>. QED
    BY <1>2, <2>1 DEF NmiAssert, NmiLevelKnown
<1>3. CASE NmiAssert(FALSE) /\ "nmi_pin" \notin interrupts
  BY <1>3 DEF NmiAssert, NmiLevelKnown
<1>4. ASSUME NEW level \in BOOLEAN, IrqAssert(level) PROVE NmiLevelKnown'
  BY <1>4 DEF IrqAssert, NmiLevelKnown
<1>. QED
  BY <1>1, <1>2, <1>3, <1>4 DEF LineChange

(* It is inductive under a patient host.                                   *)
LEMMA RefinementInvInductive ==
  ASSUME RefinementInv, [PatientNext]_vars
  PROVE  RefinementInv'
<1>1. ASSUME NEW from, FastTick(from) \/ HijackedTick(from) PROVE RefinementInv'
  <2>1. PendingHijacks'
    BY <1>1, FastTickHooked, HijackedTickHooked DEF RefinementInv
  <2>2. NoStaleSampling'
    BY <1>1, HijackedTickNotSampling DEF FastTick, NoStaleSampling
  <2>3. NmiLevelKnown'
    BY <1>1, TickKnowsLevel DEF RefinementInv, LevelKnown, NmiLevelKnown
  <2>. QED
    BY <2>1, <2>2, <2>3 DEF RefinementInv
<1>2. CASE Tick \/ Goto
  BY <1>1, <1>2 DEF Tick, Goto
<1>3. CASE LineChange /\ ~ReleasesNmiWhileDeaf
  <2>1. PendingHijacks'
    BY <1>3, LineChangeHooked DEF RefinementInv
  <2>2. NoStaleSampling'
    <3>1. "sampling" \notin interrupts'
      BY <1>3 DEF LineChange, NmiAssert, IrqAssert
    <3>. QED
      BY <3>1 DEF NoStaleSampling
  <2>3. NmiLevelKnown'
    BY <1>3, PatientLineChangeKnowsLevel DEF RefinementInv
  <2>. QED
    BY <2>1, <2>2, <2>3 DEF RefinementInv
<1>4. CASE Restart
  BY <1>4 DEF Restart, RefinementInv, PendingHijacks, NoStaleSampling, NmiLevelKnown,
              Pending, TakenBits
<1>5. CASE UNCHANGED vars
  BY <1>5 DEF vars, RefinementInv, PendingHijacks, NoStaleSampling, NmiLevelKnown, Pending
<1>. QED
  BY <1>2, <1>3, <1>4, <1>5 DEF PatientNext

-----------------------------------------------------------------------------
(* Every step is one of the polled core.                                   *)

(* With the resolver unhooked: it would have found nothing.                *)
LEMMA FastTickIsCycle ==
  ASSUME RefinementInv, NEW from, FastTick(from)
  PROVE  Polled!Cycle(from)
<1> DEFINE quiet == interrupts \ {"sampling"}
<1>1. ~Pending(interrupts) /\ ~Pending(quiet)
  BY ArbitrationIgnoresSampling DEF RefinementInv, PendingHijacks, FastTick
<1>2. SenseNmi(quiet) = quiet
  BY <1>1 DEF Pending, SenseNmi, UpdateNmiLastSampled, RefinementInv, NmiLevelKnown, FastTick
<1>3. PICK e \in Entries(from) : \E choice \in Choices(OpAt(e.at)) :
        /\ Handler(e, choice)
        /\ interrupts' = InterruptsAfter(OpAt(e.at), interrupts, P, choice)
        /\ microcode' = Continue(e, interrupts, choice)
  BY DEF FastTick
<1>4. PICK choice \in Choices(OpAt(e.at)) :
        /\ Handler(e, choice)
        /\ interrupts' = InterruptsAfter(OpAt(e.at), interrupts, P, choice)
        /\ microcode' = Continue(e, interrupts, choice)
  BY <1>3
<1> DEFINE op   == OpAt(e.at)
           left == InterruptsAfter(op, quiet, P, choice) \ {"sampling"}
<1>5. left = interrupts' \ {"sampling"}
  BY <1>4, HandlersIgnoreSampling
<1>6. ~Pending(left)
  BY <1>1, HandlersRaiseNothing, ArbitrationIgnoresSampling
<1>7. FindActiveInterrupt(left, P) = left
  BY <1>6, NothingPendingNothingFound
<1>8. Winner(left) = "none"
  BY <1>6 DEF Pending, Winner, TakenBits
<1>9. microcode' = Continue(e, quiet, choice)
  BY <1>1, <1>4, NothingPendingNothingFound, ArbitrationIgnoresSampling DEF Continue
<1>10. /\ e \in Polled!Entries(from)
       /\ choice \in Polled!Choices(Polled!OpAt(e.at))
       /\ Polled!Handler(e, choice)
  BY <1>4, SameEntries, SameOpAt, SameChoices, SameHandler
<1>11. /\ Polled!SenseNmi(quiet) = quiet
       /\ Polled!InterruptsAfter(Polled!OpAt(e.at), quiet, P, choice) \ {"sampling"} = left
       /\ Polled!Winner(left) = "none"
       /\ Polled!FindActiveInterrupt(left, P) = left
       /\ Polled!Continue(e, quiet, choice) = microcode'
  BY <1>2, <1>7, <1>8, <1>9, SameArbitration, SameInterruptsAfter, SameOpAt, SameContinue
<1>. HIDE DEF left, op
<1>. QED
  BY <1>5, <1>10, <1>11 DEF Polled!Cycle

(* With the resolver hooked in: its three outcomes are the three of the    *)
(* polled core.                                                            *)
LEMMA HijackedTickIsCycle ==
  ASSUME RefinementInv, NEW from, HijackedTick(from)
  PROVE  Polled!Cycle(from)
<1>1. "sampling" \notin interrupts /\ interrupts \ {"sampling"} = interrupts
  BY DEF RefinementInv, NoStaleSampling, HijackedTick
<1> DEFINE found == SenseNmi(interrupts)
<1> DEFINE left(e, choice) == InterruptsAfter(OpAt(e.at), found, P, choice)
           next(e, choice) == Continue(e, found, choice)
           Outcome(e, choice) ==
             /\ Handler(e, choice)
             /\ \/ Arbitrate(left(e, choice), next(e, choice))
                \/ EnterSequence(left(e, choice))
                \/ Resume(left(e, choice), next(e, choice))
<1>2. PICK e \in Entries(from) : \E choice \in Choices(OpAt(e.at)) : Outcome(e, choice)
  BY DEF HijackedTick
<1>3. PICK choice \in Choices(OpAt(e.at)) : Outcome(e, choice)
  BY <1>2
<1> DEFINE word == left(e, choice)
           rest == word \ {"sampling"}
           goes == next(e, choice)
           polls == Samples(OpAt(e.at), P, choice)
<1>4. "sampling" \in word <=> polls
  BY <1>1, SenseNmiKeepsSampling, SamplingIsThisCycles
<1>5. /\ e \in Polled!Entries(from)
      /\ choice \in Polled!Choices(Polled!OpAt(e.at))
      /\ Polled!Handler(e, choice)
  BY <1>3, SameEntries, SameOpAt, SameChoices, SameHandler
<1>6. /\ Polled!SenseNmi(interrupts \ {"sampling"}) = found
      /\ Polled!InterruptsAfter(Polled!OpAt(e.at), found, P, choice) \ {"sampling"} = rest
      /\ Polled!Samples(Polled!OpAt(e.at), P, choice) = polls
      /\ Polled!Continue(e, found, choice) = goes
  BY <1>1, SameArbitration, SameInterruptsAfter, SameOpAt, SameSamples, SameContinue
<1>7. /\ Arbitrate(word, goes) \/ EnterSequence(word) \/ Resume(word, goes)
      /\ polls \in BOOLEAN
  BY <1>3 DEF Samples
<1>. HIDE DEF found, word, goes, polls
<1> DEFINE Ends ==
      CASE polls ->
             /\ interrupts' \ {"sampling"} = Polled!FindActiveInterrupt(rest, P)
             /\ microcode' = goes
        [] ~polls /\ tick' = "fetch" /\ Polled!Winner(rest) # "none" ->
             /\ interrupts' \ {"sampling"} = rest \ Polled!TakenBits
             /\ microcode'
                  = Polled!Index(IF Polled!Winner(rest) = "nmi" THEN Polled!SlotNmi
                                 ELSE Polled!SlotIrq, 0)
        [] OTHER ->
             /\ interrupts' \ {"sampling"} = rest
             /\ microcode' = goes
<1>8. Ends
  <2>1. "sampling" \notin interrupts' /\ interrupts' \ {"sampling"} = interrupts'
    BY HijackedTickNotSampling
  <2>2. Winner(rest) = Winner(word) /\ (Winner(rest) # "none" <=> word \cap TakenBits # {})
    BY ArbitrationIgnoresSampling DEF Winner, TakenBits
  <2>3. CASE Arbitrate(word, goes)
    BY <1>4, <2>1, <2>3, SameArbitration DEF Arbitrate
  <2>4. CASE EnterSequence(word)
    <3>1. rest = word /\ ~polls
      BY <1>4, <2>4 DEF EnterSequence
    <3>. QED
      BY <2>1, <2>2, <2>4, <3>1, SameArbitration, SameIndices DEF EnterSequence
  <2>5. CASE Resume(word, goes)
    <3>1. rest = word /\ ~polls
      BY <1>4, <2>5 DEF Resume
    <3>. QED
      BY <2>1, <2>2, <2>5, <3>1, SameArbitration DEF Resume
  <2>. QED
    BY <1>7, <2>3, <2>4, <2>5
<1>. QED
  BY <1>5, <1>6, <1>8 DEF Polled!Cycle

(* A line that moves is the polled core's line.                            *)
LEMMA LineChangeIsSetLine ==
  ASSUME LineChange
  PROVE  \E pin \in {"nmi_pin", "irq_pin"} : \E level \in BOOLEAN : Polled!SetLine(pin, level)
<1>1. PICK level \in BOOLEAN : NmiAssert(level) \/ IrqAssert(level)
  BY DEF LineChange
<1>2. NmiAssert(level) => Polled!SetLine("nmi_pin", level)
  BY DEF NmiAssert, Polled!SetLine, execution, Polled!execution
<1>3. IrqAssert(level) => Polled!SetLine("irq_pin", level)
  BY DEF IrqAssert, Polled!SetLine, execution, Polled!execution
<1>. QED
  BY <1>1, <1>2, <1>3

(* Every step of the core under a patient host is a step of the polled     *)
(* core.                                                                   *)
LEMMA StepIsPolled ==
  ASSUME RefinementInv, PatientNext
  PROVE  Polled!Next
<1>1. CASE Tick
  <2>1. Polled!Cycle(microcode)
    BY <1>1, FastTickIsCycle, HijackedTickIsCycle DEF Tick
  <2>. QED
    BY <2>1 DEF Polled!Next
<1>2. CASE Goto
  <2>1. Polled!Cycle(Polled!Index(Polled!SlotGoto, 0))
    BY <1>2, FastTickIsCycle, HijackedTickIsCycle, SameIndices DEF Goto
  <2>. QED
    BY <2>1 DEF Polled!Next
<1>3. CASE LineChange
  BY <1>3, LineChangeIsSetLine DEF Polled!Next
<1>4. CASE Restart
  <2>1. Polled!Reset
    BY <1>4, SameRestarted DEF Restart, Polled!Reset
  <2>. QED
    BY <2>1 DEF Polled!Next
<1>. QED
  BY <1>1, <1>2, <1>3, <1>4 DEF PatientNext

LEMMA StepRefines ==
  ASSUME RefinementInv, [PatientNext]_vars
  PROVE  [Polled!Next]_(Polled!vars)
<1>1. UNCHANGED vars => UNCHANGED Polled!vars
  BY DEF vars, Polled!vars
<1>. QED
  BY <1>1, StepIsPolled

(* The level of NMI that the unhooked core does not look at is the one it  *)
(* saw last, as long as the host is patient.                               *)
THEOREM NmiLevelKnownHolds == PatientSpec => []NmiLevelKnown
<1>1. Init => RefinementInv
  BY DEF Init, RefinementInv, PendingHijacks, NoStaleSampling, NmiLevelKnown, Pending,
         TakenBits
<1>2. RefinementInv /\ [PatientNext]_vars => RefinementInv'
  BY RefinementInvInductive
<1>3. RefinementInv => NmiLevelKnown
  BY DEF RefinementInv
<1>. QED
  BY <1>1, <1>2, <1>3, PTL DEF PatientSpec

(* The core cannot be told from one that looks at its lines in every       *)
(* cycle, for a host that does not release NMI while the core is deaf.     *)
THEOREM PatientRefinement == PatientSpec => ImplementsPolledCore
<1>1. Init => RefinementInv
  BY DEF Init, RefinementInv, PendingHijacks, NoStaleSampling, NmiLevelKnown, Pending,
         TakenBits
<1>2. RefinementInv /\ [PatientNext]_vars => RefinementInv'
  BY RefinementInvInductive
<1>3. Init => Polled!Init
  BY SameRestarted DEF Init, Polled!Init
<1>4. RefinementInv /\ [PatientNext]_vars => [Polled!Next]_(Polled!vars)
  BY StepRefines
<1>. QED
  BY <1>1, <1>2, <1>3, <1>4, PTL DEF PatientSpec, ImplementsPolledCore, Polled!Spec

(* The CMOS models implement PolledCore for every host: the condition that *)
(* the NMOS models put on the release of NMI is void where nothing         *)
(* switches the edge detector off.                                         *)
THEOREM CmosRefinement ==
  ASSUME Model \in {"wdc", "rw", "st"}
  PROVE  Spec => ImplementsPolledCore
<1>1. Init => NeverDeaf
  BY DEF Init, NeverDeaf
<1>2. TypeOK /\ NeverDeaf /\ [Next]_vars => NeverDeaf'
  BY CmosStepNeverDeaf
<1>3. NeverDeaf /\ [Next]_vars => [PatientNext]_vars
  BY DEF NeverDeaf, Next, PatientNext, ReleasesNmiWhileDeaf
<1>4. Spec => PatientSpec
  BY <1>1, <1>2, <1>3, TypeCorrect, PTL DEF Spec, PatientSpec
<1>. QED
  BY <1>4, PatientRefinement
-----------------------------------------------------------------------------
(* A tick, with the resolver hooked in or not, told as one cycle.          *)

Word == interrupts \ {"sampling"}

Sensed == SenseNmi(Word)

Left(e, choice) == InterruptsAfter(OpAt(e.at), Sensed, P, choice) \ {"sampling"}

(* Its outcomes: the cycle polls, an interrupt takes the fetch, or neither. *)
Polling(e, choice) ==
  /\ Samples(OpAt(e.at), P, choice)
  /\ Word' = FindActiveInterrupt(Left(e, choice), P)
  /\ microcode' = Continue(e, Sensed, choice)

Entering(e, choice, slot) ==
  /\ ~Samples(OpAt(e.at), P, choice)
  /\ tick' = "fetch"
  /\ Word' = Left(e, choice) \ TakenBits
  /\ microcode' = Index(slot, 0)

GoingOn(e, choice) ==
  /\ ~Samples(OpAt(e.at), P, choice)
  /\ tick' = "fetch" => Left(e, choice) \cap TakenBits = {}
  /\ Word' = Left(e, choice)
  /\ microcode' = Continue(e, Sensed, choice)

CycleOf(e, choice) ==
  /\ Handler(e, choice)
  /\ \/ Polling(e, choice)
     \/ Winner(Left(e, choice)) = "nmi" /\ Entering(e, choice, SlotNmi)
     \/ Winner(Left(e, choice)) = "irq" /\ Entering(e, choice, SlotIrq)
     \/ GoingOn(e, choice)

LEMMA TickIsCycle ==
  ASSUME RefinementInv, NEW from, FastTick(from) \/ HijackedTick(from)
  PROVE  \E e \in Entries(from) : \E choice \in Choices(OpAt(e.at)) : CycleOf(e, choice)
<1>1. Polled!Cycle(from)
  BY FastTickIsCycle, HijackedTickIsCycle
<1> DEFINE Ends(e, choice) ==
      /\ Handler(e, choice)
      /\ CASE Samples(OpAt(e.at), P, choice) ->
                /\ Word' = FindActiveInterrupt(Left(e, choice), P)
                /\ microcode' = Continue(e, Sensed, choice)
           [] ~Samples(OpAt(e.at), P, choice) /\ tick' = "fetch"
                /\ Winner(Left(e, choice)) # "none" ->
                /\ Word' = Left(e, choice) \ TakenBits
                /\ microcode' = Index(IF Winner(Left(e, choice)) = "nmi" THEN SlotNmi
                                      ELSE SlotIrq, 0)
           [] OTHER ->
                /\ Word' = Left(e, choice)
                /\ microcode' = Continue(e, Sensed, choice)
      Step(e, choice) ==
        LET sensed == Polled!SenseNmi(Word)
            left   == Polled!InterruptsAfter(Polled!OpAt(e.at), sensed, P, choice)
                        \ {"sampling"}
            won    == Polled!Winner(left)
        IN  /\ Polled!Handler(e, choice)
            /\ CASE Polled!Samples(Polled!OpAt(e.at), P, choice) ->
                      /\ Word' = Polled!FindActiveInterrupt(left, P)
                      /\ microcode' = Polled!Continue(e, sensed, choice)
                 [] ~Polled!Samples(Polled!OpAt(e.at), P, choice)
                      /\ tick' = "fetch" /\ won # "none" ->
                      /\ Word' = left \ Polled!TakenBits
                      /\ microcode' = Polled!Index(IF won = "nmi" THEN Polled!SlotNmi
                                                   ELSE Polled!SlotIrq, 0)
                 [] OTHER ->
                      /\ Word' = left
                      /\ microcode' = Polled!Continue(e, sensed, choice)
<1>2. \E e \in Entries(from) : \E choice \in Choices(OpAt(e.at)) : Ends(e, choice)
  <2>1. \E e \in Polled!Entries(from) : \E choice \in Polled!Choices(Polled!OpAt(e.at)) :
          Step(e, choice)
    BY <1>1 DEF Polled!Cycle, Word
  <2>2. ASSUME NEW e, NEW choice, Step(e, choice) PROVE Ends(e, choice)
    <3>1. Polled!Handler(e, choice) = Handler(e, choice)
      BY SameHandler
    <3>2. /\ Polled!Samples(Polled!OpAt(e.at), P, choice) = Samples(OpAt(e.at), P, choice)
          /\ Polled!SenseNmi(Word) = Sensed
          /\ Polled!InterruptsAfter(Polled!OpAt(e.at), Sensed, P, choice) \ {"sampling"}
               = Left(e, choice)
          /\ Polled!Continue(e, Sensed, choice) = Continue(e, Sensed, choice)
      BY SameOpAt, SameSamples, SameArbitration, SameInterruptsAfter, SameContinue
      DEF Sensed, Left
    <3>. QED
      BY <2>2, <3>1, <3>2, SameArbitration, SameIndices
  <2>3. PICK e \in Polled!Entries(from) : \E choice \in Polled!Choices(Polled!OpAt(e.at)) :
          Step(e, choice)
    BY <2>1
  <2>4. PICK choice \in Polled!Choices(Polled!OpAt(e.at)) : Step(e, choice)
    BY <2>3
  <2>5. e \in Entries(from) /\ choice \in Choices(OpAt(e.at))
    BY SameEntries, SameChoices, SameOpAt
  <2>6. Ends(e, choice)
    BY <2>2, <2>4
  <2>. HIDE DEF Ends
  <2>. QED
    BY <2>5, <2>6
<1>3. ASSUME NEW e, NEW choice, Ends(e, choice) PROVE CycleOf(e, choice)
  <2>1. Winner(Left(e, choice)) = "none" <=> Left(e, choice) \cap TakenBits = {}
    BY DEF Winner, TakenBits
  <2>2. Samples(OpAt(e.at), P, choice) \in BOOLEAN
    BY DEF Samples
  <2>. QED
    BY <1>3, <2>1, <2>2, WinnerType DEF CycleOf, Polling, Entering, GoingOn
<1>. QED
  BY <1>2, <1>3

-----------------------------------------------------------------------------
(* What sensing NMI and the handler do to the word.                        *)

LEMMA SensedWord ==
  /\ "sampling" \notin Sensed
  /\ Sensed \cap TakenBits = interrupts \cap TakenBits
  /\ "sampling_off" \in Sensed <=> "sampling_off" \in interrupts
  /\ "nmi_pin" \in Sensed <=> "nmi_pin" \in interrupts
  /\ "irq_pin" \in Sensed <=> "irq_pin" \in interrupts
  /\ "nmi_last" \in Sensed
       <=> IF "sampling_off" \in interrupts THEN "nmi_last" \in interrupts ELSE "nmi_pin" \in interrupts
  /\ "nmi_edge" \in Sensed <=> "nmi_edge" \in SenseNmi(interrupts)
  /\ "nmi_edge" \in Sensed
       <=> \/ "nmi_edge" \in interrupts
           \/ "sampling_off" \notin interrupts /\ "nmi_pin" \in interrupts /\ "nmi_last" \notin interrupts
BY DEF Sensed, Word, SenseNmi, UpdateNmiLastSampled,  TakenBits

(* The detector is off and no edge is latched.                             *)
Clean(ints) == "sampling_off" \in ints /\ "nmi_edge" \notin ints

VectorHighOps ==
  { "brk_vec_hi", "irq_vec_hi", "nmi_vec_hi", "cmos_nmi_vec_hi", "cmos_irq_vec_hi" }

(* The handlers that write to the word, other than to ask for a poll.      *)
WritingOps == DeafeningOps \cup VectorHighOps \cup {"cmos_nmi_push_p", "cmos_irq_push_p"}

(* The definition of InterruptsAfter, one writing handler at a time.       *)
LEMMA WritesByHandler ==
  ASSUME NEW op, NEW ints, NEW flags, NEW choice
  PROVE  /\ op \in {"push_status_b", "irq_push_p"}
              => InterruptsAfter(op, ints, flags, choice) = NmosPushStatus(ints, flags)
         /\ op = "nmi_push_p"
              => InterruptsAfter(op, ints, flags, choice) = NmosNmiPushStatus(ints, flags)
         /\ op \in {"brk_vec_hi", "irq_vec_hi"}
              => InterruptsAfter(op, ints, flags, choice) = NmosVectorHigh(ints)
         /\ op = "nmi_vec_hi"
              => InterruptsAfter(op, ints, flags, choice) = NmosNmiVectorHigh(ints)
         /\ op = "cmos_nmi_push_p"
              => InterruptsAfter(op, ints, flags, choice) = CmosNmiPushStatus(ints)
         /\ op = "cmos_irq_push_p"
              => InterruptsAfter(op, ints, flags, choice) = CmosIrqPushStatus(ints)
         /\ op \in {"cmos_nmi_vec_hi", "cmos_irq_vec_hi"}
              => InterruptsAfter(op, ints, flags, choice) = CmosVectorHigh(ints)
<1>1. op \in WritingOps => ~Samples(op, flags, choice)
  BY DEF Samples, PrefetchOps, BinaryPrefetchOps, WritingOps, DeafeningOps, VectorHighOps
<1>. QED
  BY <1>1 DEF InterruptsAfter, WritingOps, DeafeningOps, VectorHighOps

LEMMA PlainHandlersLeaveAll ==
  ASSUME NEW e, NEW choice, OpAt(e.at) \notin WritingOps
  PROVE  Left(e, choice) = Sensed
BY SensedWord
DEF Left, InterruptsAfter, WritingOps, DeafeningOps, VectorHighOps, Prefetch

LEMMA PushesLeave ==
  ASSUME NEW e, NEW choice, OpAt(e.at) \in DeafeningOps
  PROVE  /\ Left(e, choice) \cap TakenBits = {}
         /\ Clean(Left(e, choice))
         /\ "nmi_last" \in Left(e, choice) <=> "nmi_last" \in Sensed
<1> DEFINE won    == FindActiveInterrupt(Sensed, P)
           pushed == NmosPushStatus(Sensed, P)
<1>1. "nmi_edge" \notin won /\ ("nmi_last" \in won <=> "nmi_last" \in Sensed)
  BY DEF FindActiveInterrupt
<1>2. /\ pushed \cap TakenBits = {}
      /\ "sampling_off" \in pushed /\ "nmi_edge" \notin pushed
      /\ "nmi_last" \in pushed <=> "nmi_last" \in won
  BY <1>1 DEF NmosPushStatus, TakenBits
<1>3. \/ Left(e, choice) = pushed \ {"sampling"}
      \/ Left(e, choice) = (pushed \ {"nmi_edge"}) \ {"sampling"}
  BY WritesByHandler DEF Left, DeafeningOps, NmosNmiPushStatus
<1>. HIDE DEF won, pushed
<1>. QED
  BY <1>1, <1>2, <1>3 DEF TakenBits, Clean

LEMMA OtherWritesLeave ==
  ASSUME NEW e, NEW choice
  PROVE  LET op == OpAt(e.at)
             left == Left(e, choice)
         IN  /\ op \in {"brk_vec_hi", "irq_vec_hi"} => left = Sensed \ {"sampling_off"}
             /\ op = "nmi_vec_hi"
                  => left = UpdateNmiLastSampled(Sensed \ {"sampling_off"})
             /\ op = "cmos_nmi_push_p"
                  => left = UpdateNmiLastSampled(Sensed \ {"nmi_edge", "nmi_taken"})
             /\ op = "cmos_irq_push_p" => left = Sensed \ {"irq_taken"}
             /\ op \in {"cmos_nmi_vec_hi", "cmos_irq_vec_hi"}
                  => left = UpdateNmiLastSampled(Sensed \ {"nmi_edge"})
<1> DEFINE op    == OpAt(e.at)
           after == InterruptsAfter(op, Sensed, P, choice)
<1>1. \A ints : "sampling" \notin ints /\ after = ints => Left(e, choice) = ints
  <2>. SUFFICES ASSUME NEW ints, "sampling" \notin ints, after = ints
                PROVE  ints \ {"sampling"} = ints
    BY DEF Left
  <2>. QED
    OBVIOUS
<1>2. \A ints : "sampling" \notin ints => "sampling" \notin UpdateNmiLastSampled(ints)
  BY DEF UpdateNmiLastSampled
<1>3. "sampling" \notin Sensed
  BY SensedWord
<1>4. CASE op \in {"brk_vec_hi", "irq_vec_hi"}
  <2>1. after = Sensed \ {"sampling_off"}
    BY <1>4, WritesByHandler DEF NmosVectorHigh
  <2>. QED
    BY <1>1, <1>3, <1>4, <2>1
<1>5. CASE op = "nmi_vec_hi"
  <2>1. after = UpdateNmiLastSampled(Sensed \ {"sampling_off"})
    BY <1>5, WritesByHandler DEF NmosNmiVectorHigh
  <2>. QED
    BY <1>1, <1>2, <1>3, <1>5, <2>1
<1>6. CASE op = "cmos_nmi_push_p"
  <2>1. after = UpdateNmiLastSampled(Sensed \ {"nmi_edge", "nmi_taken"})
    BY <1>6, WritesByHandler DEF CmosNmiPushStatus
  <2>. QED
    BY <1>1, <1>2, <1>3, <1>6, <2>1
<1>7. CASE op = "cmos_irq_push_p"
  <2>1. after = Sensed \ {"irq_taken"}
    BY <1>7, WritesByHandler DEF CmosIrqPushStatus
  <2>. QED
    BY <1>1, <1>3, <1>7, <2>1
<1>8. CASE op \in {"cmos_nmi_vec_hi", "cmos_irq_vec_hi"}
  <2>1. after = UpdateNmiLastSampled(Sensed \ {"nmi_edge"})
    BY <1>8, WritesByHandler DEF CmosVectorHigh
  <2>. QED
    BY <1>1, <1>2, <1>3, <1>8, <2>1
<1>. QED
  BY <1>4, <1>5, <1>6, <1>7, <1>8

-----------------------------------------------------------------------------
(* Where the cursor goes.                                                  *)

(* Handlers that neither poll nor fetch nor skip a cycle.                  *)
StraightOps ==
  WritingOps
    \cup {"read", "push_pc_high", "push_pc_low", "nmi_vec_lo", "irq_vec_lo", "read_fffe"}

LEMMA StraightOn ==
  ASSUME NEW e, e.at \in Nat, NEW choice, CycleOf(e, choice), OpAt(e.at) \in StraightOps
  PROVE  /\ GoingOn(e, choice)
         /\ OpAt(e.at) \notin {"push_status_b", "irq_push_p"} => microcode' = e.at + 1
<1> DEFINE op == OpAt(e.at)
<1>1. ~Samples(op, P, choice)
  BY DEF Samples, PrefetchOps, BinaryPrefetchOps, StraightOps, WritingOps, DeafeningOps,
         VectorHighOps
<1>2. \A count : Request(op, P, count) # "fetch"
  BY DEF Request, FetchOps, StraightOps, WritingOps, DeafeningOps, VectorHighOps
<1>3. tick' # "fetch"
  BY <1>2 DEF CycleOf, Handler
<1>4. GoingOn(e, choice)
  BY <1>1, <1>3 DEF CycleOf, Polling, Entering
<1>5. ASSUME NEW winner, NEW count, op \notin {"push_status_b", "irq_push_p"}
      PROVE  NextMicrocode(e.at, P, choice, winner, count) = e.at + 1 + 0
  <2>1. op \notin {"fetch_ext", "internal_reset"} /\ ~LoopsHere(op, count)
    BY DEF LoopsHere, StraightOps, WritingOps, DeafeningOps, VectorHighOps
  <2>2. Ahead(op, P, choice) = 0
    BY DEF Ahead, ProbeOps, StraightOps, WritingOps, DeafeningOps, VectorHighOps
  <2>. QED
    BY <1>5, <2>1, <2>2 DEF NextMicrocode
<1>6. op \notin {"push_status_b", "irq_push_p"} => microcode' = e.at + 1 + 0
  BY <1>4, <1>5 DEF GoingOn, Continue
<1>7. e.at + 1 + 0 = e.at + 1
  OBVIOUS
<1>. QED
  BY <1>4, <1>6, <1>7

LEMMA NextOfContinue ==
  ASSUME NEW e, NEW choice, Polling(e, choice) \/ GoingOn(e, choice)
  PROVE  microcode' \in Successors(e.at, P, choice)
BY ContinueIsSuccessor DEF Polling, GoingOn

(* Only a fetch, or a branch on its way to one, finds an interrupt won.    *)
WonIsAwaited ==
  interrupts \cap TakenBits # {} => Awaited(OpAt(microcode), P)

(* An interrupt that is won waits for a fetch, and no longer.              *)
LEMMA WonAfterTick ==
  ASSUME TypeOK, NEW e, e.at \in Cursors, Running(e.at),
         interrupts \cap TakenBits # {} => Awaited(OpAt(e.at), P),
         NEW choice \in Choices(OpAt(e.at)), CycleOf(e, choice)
  PROVE  WonIsAwaited'
<1> DEFINE op   == OpAt(e.at)
           left == Left(e, choice)
<1>1. interrupts' \cap TakenBits = Word' \cap TakenBits
  BY DEF Word, TakenBits
<1>2. P' = FlagsAfter(op, P, choice) /\ P \in SUBSET Flags
  BY DEF CycleOf, Handler, TypeOK, ExecutionTypeOK
<1>3. ASSUME Samples(op, P, choice) \/ (Awaited(op, P) /\ Request(op, P, 0) # "fetch"),
             Polling(e, choice) \/ GoingOn(e, choice)
      PROVE  Awaited(OpAt(microcode'), P')
  <2>1. microcode' \in Successors(e.at, P, choice)
    BY <1>3, NextOfContinue
  <2>. QED
    BY <1>2, <1>3, <2>1, PollsBeforeFetchAssumption DEF PollsBeforeFetch
<1>4. CASE Polling(e, choice)
  BY <1>3, <1>4 DEF Polling, WonIsAwaited
<1>5. ASSUME NEW slot, Entering(e, choice, slot) PROVE WonIsAwaited'
  BY <1>1, <1>5 DEF Entering, WonIsAwaited
<1>6. CASE GoingOn(e, choice)
  <2>. SUFFICES ASSUME interrupts' \cap TakenBits # {} PROVE Awaited(OpAt(microcode'), P')
    BY DEF WonIsAwaited
  <2>1. left \cap TakenBits # {}
    BY <1>1, <1>6 DEF GoingOn
  <2>2. Sensed \cap TakenBits # {}
    <3>1. CASE op \in DeafeningOps
      BY <2>1, <3>1, PushesLeave
    <3>2. CASE op \in WritingOps \ DeafeningOps
      BY <2>1, <3>2, OtherWritesLeave
      DEF WritingOps, VectorHighOps, UpdateNmiLastSampled, TakenBits
    <3>3. CASE op \notin WritingOps
      BY <2>1, <3>3, PlainHandlersLeaveAll
    <3>. QED
      BY <3>1, <3>2, <3>3
  <2>3. Awaited(op, P)
    BY <2>2, SensedWord
  <2>4. Request(op, P, 0) # "fetch"
    <3>1. \A count : Request(op, P, count) = "fetch" <=> Request(op, P, 0) = "fetch"
      BY DEF Request, FetchOps
    <3>2. tick' # "fetch"
      BY <1>6, <2>1 DEF GoingOn
    <3>. QED
      BY <3>1, <3>2 DEF CycleOf, Handler
  <2>. QED
    BY <1>3, <1>6, <2>3, <2>4
<1>. QED
  BY <1>4, <1>5, <1>6 DEF CycleOf

(* Whether a handler asks for an opcode does not depend on the countdown.  *)
LEMMA FetchesByHandler ==
  ASSUME NEW e, NEW choice, CycleOf(e, choice)
  PROVE  tick' = "fetch" <=> Request(OpAt(e.at), P, 0) = "fetch"
<1>1. \A count : Request(OpAt(e.at), P, count) = "fetch" <=> Request(OpAt(e.at), P, 0) = "fetch"
  BY DEF Request, FetchOps
<1>. QED
  BY <1>1 DEF CycleOf, Handler

(* Who asks for an opcode does not poll, and writes nothing to the word.   *)
LEMMA FetchersLeaveAll ==
  ASSUME NEW e, NEW choice, Request(OpAt(e.at), P, 0) = "fetch"
  PROVE  ~Samples(OpAt(e.at), P, choice) /\ Left(e, choice) = Sensed
<1> DEFINE op == OpAt(e.at)
<1>1. op \in FetchOps \/ (op = "adc_or_dummy" /\ "D" \notin P)
  BY DEF Request
<1>2. op \notin WritingOps
  BY <1>1 DEF FetchOps, WritingOps, DeafeningOps, VectorHighOps
<1>3. ~Samples(op, P, choice)
  BY <1>1 DEF FetchOps, Samples, PrefetchOps, BinaryPrefetchOps
<1>. QED
  BY <1>2, <1>3, PlainHandlersLeaveAll
=============================================================================
