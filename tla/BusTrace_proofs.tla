---------------------------- MODULE BusTrace_proofs ----------------------------
(***************************************************************************)
(* Proofs of what the bus shows of an interrupt: the frame is complete and *)
(* the address in it is the right one, for every model and every set of    *)
(* opcodes, and whatever the host does with lines, goto and restart.       *)
(* qe6502_goto() and qe6502_restart() may cut a sequence short at any      *)
(* cycle, and no opcode of a handler is fetched after half a frame.        *)
(***************************************************************************)
EXTENDS BusTrace, Qe6502_proofs, SequenceTheorems

-----------------------------------------------------------------------------
(* The inductive invariants.                                               *)
CycleIn(at) == at % MicrocodePerSlot

Statuses == {"push_status_b0", "push_status_b1"}

VectorOf(slot) == IF slot = SlotNmi THEN <<"fffa", "fffb">> ELSE <<"fffe", "ffff">>

(* What each cycle of a frame may ask of the bus.                          *)
Asked(slot, cycle) ==
  CASE cycle = 0 -> {"read"}
    [] cycle = 1 -> {"push_pc_high"}
    [] cycle = 2 -> {"push_pc_low"}
    [] cycle = 3 -> Statuses
    [] cycle = 4 -> {VectorOf(slot)[1]}
    [] cycle = 5 -> {VectorOf(slot)[2]}

(* What the bus has seen of a frame when its sequence comes to `cycle'.    *)
SoFar(slot, cycle, seen) ==
  /\ seen \in Seq(Requests)
  /\ Len(seen) = cycle
  /\ \A i \in 0 .. cycle - 1 : seen[i + 1] \in Asked(slot, i)

(* A sequence that pushes a status has come as far as its cursor, whether  *)
(* it was entered at its first cycle or by the status push of another.     *)
FrameInv ==
  /\ OpAt(microcode) = "dispatch" => trace = <<>>
  /\ SlotOf(microcode) \in FrameSlots /\ CycleIn(microcode) <= 6
       => SoFar(SlotOf(microcode), CycleIn(microcode), trace)

(* Until the address is pushed PC stands at the displaced opcode in an     *)
(* interrupt, and past the two bytes fetched in BRK and JSR, which are     *)
(* entered by their dispatch and in no other way.                          *)
AdvanceInv ==
  /\ SlotOf(microcode) \in {SlotNmi, SlotIrq} /\ CycleIn(microcode) <= 2 => advance = 0
  /\ SlotOf(microcode) = SlotBrk /\ CycleIn(microcode) <= 2
       => CycleIn(microcode) # 0 /\ advance = 2
  /\ SlotOf(microcode) = SlotJsr /\ CycleIn(microcode) <= 3
       => CycleIn(microcode) # 0 /\ advance = 2

-----------------------------------------------------------------------------
(* The cycles of these sequences.                                          *)

LEMMA CursorParts ==
  ASSUME NEW at \in Nat
  PROVE  /\ SlotOf(at) \in Nat /\ CycleIn(at) \in 0 .. 7
         /\ at = Index(SlotOf(at), CycleIn(at))
BY DEF SlotOf, CycleIn, Index, MicrocodePerSlot

LEMMA IndexParts ==
  ASSUME NEW slot \in Nat, NEW cycle \in 0 .. 7
  PROVE  /\ Index(slot, cycle) \in Nat
         /\ SlotOf(Index(slot, cycle)) = slot
         /\ CycleIn(Index(slot, cycle)) = cycle
BY DEF SlotOf, CycleIn, Index, MicrocodePerSlot

LEMMA ServiceSlotsApart ==
  /\ SlotNmi \in Nat /\ SlotIrq \in Nat /\ SlotInternalReset \in Nat /\ SlotGoto \in Nat
  /\ SlotBrk \in Nat /\ SlotJsr \in Nat
  /\ SlotNmi # SlotIrq /\ SlotNmi # SlotBrk /\ SlotNmi # SlotJsr
  /\ SlotIrq # SlotBrk /\ SlotIrq # SlotJsr /\ SlotBrk # SlotJsr
  /\ {SlotInternalReset, SlotGoto, SlotReset1} \cap (FrameSlots \cup {SlotJsr}) = {}
BY DEF SlotNmi, SlotIrq, SlotBrk, SlotJsr, SlotInternalReset, SlotGoto, SlotReset1, FrameSlots

(* Where an interrupt sequence is entered.                                 *)
LEMMA EntryCycles ==
  /\ CycleIn(Index(SlotNmi, 0)) = 0 /\ CycleIn(Index(SlotIrq, 0)) = 0
  /\ CycleIn(MiddleOf(SlotNmi)) = 4 /\ CycleIn(MiddleOf(SlotIrq)) = 4
  /\ SlotOf(MiddleOf(SlotNmi)) = SlotNmi /\ SlotOf(MiddleOf(SlotIrq)) = SlotIrq
<1>1. CycleIn(Index(SlotNmi, 0)) = 0 /\ CycleIn(Index(SlotIrq, 0)) = 0
  BY IndexParts, ServiceSlotsApart
<1>2. /\ CycleIn(Index(SlotNmi, 4)) = 4 /\ CycleIn(Index(SlotIrq, 4)) = 4
      /\ SlotOf(Index(SlotNmi, 4)) = SlotNmi /\ SlotOf(Index(SlotIrq, 4)) = SlotIrq
  BY IndexParts, ServiceSlotsApart
<1>. QED
  BY <1>1, <1>2 DEF MiddleOf

(* Only the internal reset asks for something that depends on its count.   *)
LEMMA RequestIgnoresCount ==
  ASSUME NEW op, op # "internal_reset", NEW flags, NEW count
  PROVE  Request(op, flags, count) = Request(op, flags, 0)
BY DEF Request

LEMMA NotTheReset ==
  ASSUME NEW at \in Nat, SlotOf(at) # SlotInternalReset
  PROVE  OpAt(at) # "internal_reset"
<1>1. CASE at \in Cursors
  <2>1. at # Index(SlotInternalReset, 0)
    BY SlotStarts, ServiceSlotsApart
  <2>. QED
    BY <1>1, <2>1, ResetSequenceAssumption DEF ResetSequence
<1>2. CASE at \notin Cursors
  BY <1>2, FilledIsCursor
<1>. QED
  BY <1>1, <1>2

(* A cycle of a frame asks for what it is to ask for ...                    *)
LEMMA FrameAsks ==
  ASSUME NEW at \in Nat, SlotOf(at) \in FrameSlots, CycleIn(at) <= 5,
         NEW flags \in SUBSET Flags, NEW count
  PROVE  /\ Request(OpAt(at), flags, count) \in Asked(SlotOf(at), CycleIn(at))
         /\ Request(OpAt(at), flags, count) \notin Boundaries
<1> DEFINE slot == SlotOf(at)
           cycle == CycleIn(at)
           request == Request(OpAt(at), flags, count)
<1>1. at = Index(slot, cycle) /\ cycle \in 0 .. 5
  BY CursorParts
<1>2. request = Request(OpAt(at), flags, 0)
  <2>1. slot # SlotInternalReset
    BY ServiceSlotsApart
  <2>. QED
    BY <2>1, NotTheReset, RequestIgnoresCount
<1>3. /\ cycle = 0 => OpAt(at) \in {"read_inc", "read"}
      /\ cycle = 1 => OpAt(at) = "push_pc_high"
      /\ cycle = 2 => OpAt(at) = "push_pc_low"
      /\ cycle = 3 => request \in Statuses
      /\ cycle = 4 => request = VectorOf(slot)[1]
      /\ cycle = 5 => request = VectorOf(slot)[2]
  BY <1>1, <1>2, FrameCyclesAssumption DEF FrameCycles, VectorOf, Statuses
<1>4. /\ cycle = 0 => request = "read"
      /\ cycle = 1 => request = "push_pc_high"
      /\ cycle = 2 => request = "push_pc_low"
  BY <1>2, <1>3 DEF Request, FetchOps
<1>5. VectorOf(slot)[1] \in {"fffa", "fffe"} /\ VectorOf(slot)[2] \in {"fffb", "ffff"}
  BY DEF VectorOf
<1>. HIDE DEF slot, cycle, request
<1>6. request \in Asked(slot, cycle) /\ request \notin Boundaries
  BY <1>1, <1>3, <1>4, <1>5 DEF Asked, Statuses, Boundaries
<1>. QED
  BY <1>6 DEF slot, cycle, request

(* ... and so adds to what the bus has seen.                               *)
LEMMA FrameGrows ==
  ASSUME NEW slot, NEW cycle \in 0 .. 5, NEW seen, SoFar(slot, cycle, seen),
         NEW request \in Requests, request \in Asked(slot, cycle)
  PROVE  SoFar(slot, cycle + 1, Append(seen, request))
<1> DEFINE longer == Append(seen, request)
<1>1. /\ longer \in Seq(Requests)
      /\ Len(longer) = cycle + 1
      /\ \A i \in 1 .. cycle : longer[i] = seen[i]
      /\ longer[cycle + 1] = request
  BY AppendProperties DEF SoFar
<1>2. \A i \in 0 .. cycle : longer[i + 1] \in Asked(slot, i)
  BY <1>1 DEF SoFar
<1>. QED
  BY <1>1, <1>2 DEF SoFar

(* The status push knows nothing of the vector to come.                    *)
LEMMA SlotsShareStatus ==
  ASSUME NEW slot, NEW other, NEW seen, SoFar(slot, 4, seen)
  PROVE  SoFar(other, 4, seen)
<1>1. \A i \in 0 .. 3 : Asked(slot, i) = Asked(other, i)
  BY DEF Asked
<1>. QED
  BY <1>1 DEF SoFar

(* With all six requests made the frame is complete.                       *)
LEMMA SixMakeAFrame ==
  ASSUME NEW slot \in FrameSlots, NEW seen, SoFar(slot, 6, seen)
  PROVE  seen \in Frames
<1> DEFINE pushes == <<"read", "push_pc_high", "push_pc_low", seen[4]>>
<1>1. /\ seen[1] = "read" /\ seen[2] = "push_pc_high" /\ seen[3] = "push_pc_low"
      /\ seen[4] \in Statuses
      /\ seen[5] = VectorOf(slot)[1] /\ seen[6] = VectorOf(slot)[2]
  <2>1. \A i \in 0 .. 5 : seen[i + 1] \in Asked(slot, i)
    BY DEF SoFar
  <2>2. /\ seen[1] \in Asked(slot, 0) /\ seen[2] \in Asked(slot, 1)
        /\ seen[3] \in Asked(slot, 2) /\ seen[4] \in Asked(slot, 3)
        /\ seen[5] \in Asked(slot, 4) /\ seen[6] \in Asked(slot, 5)
    BY <2>1
  <2>. QED
    BY <2>2 DEF Asked
<1>2. VectorOf(slot) \in Vectors
  BY DEF VectorOf, Vectors
<1>3. pushes \in Seq(Requests) /\ Len(pushes) = 4
  BY <1>1 DEF Requests, Statuses
<1>4. VectorOf(slot) \in Seq(Requests) /\ Len(VectorOf(slot)) = 2
  <2>1. CASE slot = SlotNmi
    BY <2>1 DEF VectorOf, Requests
  <2>2. CASE slot # SlotNmi
    BY <2>2 DEF VectorOf, Requests
  <2>. QED
    BY <2>1, <2>2
<1>5. seen \in Seq(Requests) /\ Len(seen) = 6
  BY DEF SoFar
<1>6. /\ pushes \o VectorOf(slot) \in Seq(Requests)
      /\ Len(pushes \o VectorOf(slot)) = Len(pushes) + Len(VectorOf(slot))
      /\ \A i \in 1 .. Len(pushes) + Len(VectorOf(slot)) :
           (pushes \o VectorOf(slot))[i]
             = IF i <= Len(pushes) THEN pushes[i] ELSE VectorOf(slot)[i - Len(pushes)]
  <2>. HIDE DEF pushes
  <2>. QED
    BY <1>3, <1>4, ConcatProperties, Zenon
<1>7. \A i \in 1 .. 6 : seen[i] = (pushes \o VectorOf(slot))[i]
  <2>1. /\ pushes[1] = seen[1] /\ pushes[2] = seen[2]
        /\ pushes[3] = seen[3] /\ pushes[4] = seen[4]
    BY <1>1
  <2>. HIDE DEF pushes
  <2>. QED
    BY <1>1, <1>3, <1>4, <1>6, <2>1
<1>8. seen = pushes \o VectorOf(slot)
  <2>. HIDE DEF pushes
  <2>. QED
    BY <1>3, <1>4, <1>5, <1>6, <1>7, SeqEqual
<1>9. pushes \o VectorOf(slot) \in Frames
  BY <1>1, <1>2, Z3 DEF Frames, Statuses
<1>. QED
  BY <1>8, <1>9

-----------------------------------------------------------------------------
(* The steps.                                                              *)

(* A request for an opcode does not depend on the count either.            *)
LEMMA FetchIgnoresCount ==
  ASSUME NEW op, NEW flags, NEW count, Request(op, flags, 0) = "fetch"
  PROVE  Request(op, flags, count) = "fetch"
<1>1. op # "internal_reset"
  BY DEF Request, FetchOps
<1>. QED
  BY <1>1, RequestIgnoresCount

(* A handler of these sequences runs where the cursor stood, or is their   *)
(* first and comes through a dispatch.                                     *)
LEMMA FrameEntries ==
  ASSUME NEW from \in {microcode, Index(SlotGoto, 0)}, NEW e \in Entries(from),
         SlotOf(e.at) \in FrameSlots \cup {SlotJsr}
  PROVE  \/ e.at = microcode /\ e.advance = advance
         \/ /\ OpAt(microcode) = "dispatch" /\ e.advance = 1
            /\ SlotOf(e.at) \in {SlotBrk, SlotJsr} /\ CycleIn(e.at) = 0
<1>1. OpAt(Index(SlotGoto, 0)) # "dispatch"
  BY ClosedAssumption DEF Closed, Running
<1>2. SlotOf(Index(SlotGoto, 0)) \notin FrameSlots \cup {SlotJsr}
  BY SlotStarts, ServiceSlotsApart
<1>3. \A opcode \in Opcodes :
        SlotOf(Index(opcode, 0)) = opcode /\ CycleIn(Index(opcode, 0)) = 0
  BY OpcodesAssumption, IndexParts DEF OpcodeSlots
<1>4. Opcodes \cap {SlotNmi, SlotIrq} = {}
  BY OpcodesAssumption DEF OpcodeSlots, SlotNmi, SlotIrq
<1>5. CASE OpAt(from) = "dispatch"
  <2>1. PICK opcode \in Opcodes : e = [at |-> Index(opcode, 0), advance |-> 1]
    BY <1>5 DEF Entries
  <2>. QED
    BY <1>1, <1>3, <1>4, <1>5, <2>1 DEF FrameSlots
<1>6. CASE OpAt(from) # "dispatch"
  <2>1. e = [at |-> from, advance |-> advance]
    BY <1>6 DEF Entries
  <2>. QED
    BY <1>2, <2>1
<1>. QED
  BY <1>5, <1>6

(* After a tick the bus has seen as much of a frame as the cursor says.    *)
LEMMA TickKeepsFrame ==
  ASSUME TypeOK, FrameInv, Record, NEW from \in {microcode, Index(SlotGoto, 0)},
         FastTick(from) \/ HijackedTick(from)
  PROVE  FrameInv'
<1>1. PICK e \in Entries(from) : \E choice \in Choices(OpAt(e.at)) : Moves(e, choice)
  BY TickMoves
<1>2. PICK choice \in Choices(OpAt(e.at)) : Moves(e, choice)
  BY <1>1
<1>3. from \in Nat
  BY SlotStarts, ServiceSlotsApart DEF TypeOK, ExecutionTypeOK
<1>4. Running(e.at) /\ e.at \in Cursors /\ e.at \in Nat /\ P \in SUBSET Flags
  BY <1>3, EntriesRun DEF TypeOK, ExecutionTypeOK
<1>5. tick' = Request(OpAt(e.at), P, latch_data') /\ tick' \in Requests
  BY <1>2, RequestType DEF Moves, Handler
<1>6. CASE tick' = "fetch" /\ microcode' \in {Index(SlotNmi, 0), Index(SlotIrq, 0)}
  <2>1. trace' = <<>>
    BY <1>6 DEF Record, Boundaries
  <2>2. CycleIn(microcode') = 0
    BY <1>6, EntryCycles
  <2>3. SoFar(SlotOf(microcode'), 0, trace')
    BY <2>1, EmptySeq DEF SoFar
  <2>. QED
    BY <2>1, <2>2, <2>3 DEF FrameInv
<1>7. CASE microcode' \in Successors(e.at, P, choice)
  <2>1. OpAt(microcode') = "dispatch" => trace' = <<>>
    <3>1. OpAt(microcode') = "dispatch" => Request(OpAt(e.at), P, 0) = "fetch"
      BY <1>4, <1>7, FirstCyclesApartAssumption DEF FirstCyclesApart
    <3>. QED
      BY <1>5, <3>1, FetchIgnoresCount DEF Record, Boundaries
  <2>2. ASSUME SlotOf(microcode') \in FrameSlots, CycleIn(microcode') <= 6
        PROVE  SoFar(SlotOf(microcode'), CycleIn(microcode'), trace')
    <3>1. \/ SlotOf(microcode') = SlotOf(e.at) /\ CycleIn(microcode') = CycleIn(e.at) + 1
          \/ /\ SlotOf(e.at) \in FrameSlots /\ CycleIn(e.at) = 3
             /\ microcode' \in {MiddleOf(SlotNmi), MiddleOf(SlotIrq)}
      BY <1>4, <1>7, <2>2, StraightIntoFramesAssumption DEF StraightIntoFrames, CycleIn
    <3>2. SlotOf(e.at) \in FrameSlots /\ CycleIn(e.at) \in 0 .. 5
      BY <1>4, <2>2, <3>1, CursorParts
    <3>3. SoFar(SlotOf(e.at), CycleIn(e.at), trace)
      <4>1. CASE e.at = microcode
        BY <3>2, <4>1 DEF FrameInv
      <4>2. CASE OpAt(microcode) = "dispatch" /\ CycleIn(e.at) = 0
        BY <4>2, EmptySeq DEF FrameInv, SoFar
      <4>. QED
        BY <3>2, <4>1, <4>2, FrameEntries
    <3>4. tick' \in Asked(SlotOf(e.at), CycleIn(e.at)) /\ trace' = Append(trace, tick')
      BY <1>4, <1>5, <3>2, FrameAsks DEF Record
    <3>5. SoFar(SlotOf(e.at), CycleIn(e.at) + 1, trace')
      BY <1>5, <3>2, <3>3, <3>4, FrameGrows
    <3>6. CASE microcode' \in {MiddleOf(SlotNmi), MiddleOf(SlotIrq)} /\ CycleIn(e.at) = 3
      <4>1. CycleIn(microcode') = 4
        BY <3>6, EntryCycles
      <4>. QED
        BY <3>5, <3>6, <4>1, SlotsShareStatus
    <3>. QED
      BY <3>1, <3>5, <3>6
  <2>. QED
    BY <2>1, <2>2 DEF FrameInv
<1>. QED
  BY <1>2, <1>6, <1>7 DEF Moves

(* After a tick PC stands where it must while the address is not pushed.   *)
LEMMA TickKeepsAdvance ==
  ASSUME TypeOK, AdvanceInv, NEW from \in {microcode, Index(SlotGoto, 0)},
         FastTick(from) \/ HijackedTick(from)
  PROVE  AdvanceInv'
<1>1. PICK e \in Entries(from) : \E choice \in Choices(OpAt(e.at)) : Moves(e, choice)
  BY TickMoves
<1>2. PICK choice \in Choices(OpAt(e.at)) : Moves(e, choice)
  BY <1>1
<1>3. from \in Nat
  BY SlotStarts, ServiceSlotsApart DEF TypeOK, ExecutionTypeOK
<1>4. Running(e.at) /\ e.at \in Cursors /\ e.at \in Nat /\ P \in SUBSET Flags
  BY <1>3, EntriesRun DEF TypeOK, ExecutionTypeOK
<1>5. CASE tick' = "fetch" /\ microcode' \in {Index(SlotNmi, 0), Index(SlotIrq, 0)}
  <2>1. advance' = 0
    BY <1>2, <1>5 DEF Moves, Handler
  <2>2. SlotOf(microcode') \in {SlotNmi, SlotIrq}
    BY <1>5, SlotStarts, ServiceSlotsApart
  <2>. QED
    BY <2>1, <2>2, ServiceSlotsApart DEF AdvanceInv
<1>6. CASE microcode' \in Successors(e.at, P, choice)
  <2> DEFINE Early == \/ SlotOf(microcode') \in FrameSlots /\ CycleIn(microcode') <= 2
                      \/ SlotOf(microcode') = SlotJsr /\ CycleIn(microcode') <= 3
             slot == SlotOf(e.at)
             cycle == CycleIn(e.at)
             op == OpAt(e.at)
  <2>1. SUFFICES ASSUME Early
                 PROVE  /\ CycleIn(microcode') # 0
                        /\ advance' = IF SlotOf(microcode') \in {SlotNmi, SlotIrq} THEN 0 ELSE 2
    BY ServiceSlotsApart DEF AdvanceInv, FrameSlots
  <2>2. SlotOf(microcode') = slot /\ CycleIn(microcode') = cycle + 1
    <3>1. \/ SlotOf(microcode') = slot /\ CycleIn(microcode') = cycle + 1
          \/ microcode' \in {MiddleOf(SlotNmi), MiddleOf(SlotIrq)}
      BY <1>4, <1>6, <2>1, StraightIntoFramesAssumption DEF StraightIntoFrames, CycleIn
    <3>. QED
      BY <2>1, <3>1, EntryCycles, ServiceSlotsApart
  <2>3. /\ e.at = Index(slot, cycle) /\ cycle \in 0 .. 2 /\ slot \in FrameSlots \cup {SlotJsr}
        /\ slot \in FrameSlots => cycle <= 1
    <3>1. SlotJsr \notin FrameSlots
      BY DEF SlotJsr, FrameSlots, SlotBrk, SlotNmi, SlotIrq
    <3>2. e.at = Index(slot, cycle) /\ cycle \in 0 .. 7
      BY <1>4, CursorParts
    <3>. HIDE DEF slot, cycle
    <3>. QED
      BY <2>1, <2>2, <3>1, <3>2
  <2>4. /\ cycle = 0 => op = IF slot \in {SlotNmi, SlotIrq} THEN "read" ELSE "read_inc"
        /\ cycle # 0 => op \in {"read", "push_pc_high"}
    BY <2>3, FrameCyclesAssumption, ServiceSlotsApart DEF FrameCycles, FrameSlots
  <2>5. advance' = IF op = "read_inc" THEN e.advance + 1 ELSE e.advance
    <3>1. op \in {"read", "read_inc", "push_pc_high"}
      BY <2>3, <2>4
    <3>2. tick' # "fetch"
      BY <1>2, <3>1 DEF Moves, Handler, Request, FetchOps
    <3>. QED
      BY <1>2, <3>1, <3>2 DEF Moves, Handler, AdvanceOps
  <2>6. /\ slot \in {SlotNmi, SlotIrq} => e.advance = 0
        /\ slot \in {SlotBrk, SlotJsr} => e.advance = IF cycle = 0 THEN 1 ELSE 2
    BY <2>3, FrameEntries, ServiceSlotsApart DEF AdvanceInv, FrameSlots
  <2>. HIDE DEF slot, cycle, op
  <2>7. slot \in {SlotNmi, SlotIrq, SlotBrk, SlotJsr}
    BY <2>3 DEF FrameSlots
  <2>8. advance' = IF slot \in {SlotNmi, SlotIrq} THEN 0 ELSE 2
    BY <2>4, <2>5, <2>6, <2>7, ServiceSlotsApart
  <2>. QED
    BY <2>2, <2>3, <2>8
<1>. QED
  BY <1>2, <1>5, <1>6 DEF Moves

(* The steps of the recorded core are steps of the core.                   *)
LEMMA TracedTypeCorrect == TracedSpec => []TypeOK
<1>1. TracedInit => TypeOK
  BY RestartedType DEF TracedInit, Init, TypeOK, ExecutionTypeOK
<1>2. TypeOK /\ [TracedNext]_tracedVars => TypeOK'
  <2>1. TypeOK /\ [Next]_vars => TypeOK'
    BY TypeKept
  <2>2. [TracedNext]_tracedVars => [Next]_vars
    BY DEF TracedNext, Next, tracedVars, vars
  <2>. QED
    BY <2>1, <2>2
<1>. QED
  BY <1>1, <1>2, PTL DEF TracedSpec

LEMMA TracesKept ==
  ASSUME TypeOK, FrameInv, AdvanceInv, [TracedNext]_tracedVars
  PROVE  FrameInv' /\ AdvanceInv'
<1>1. CASE Tick /\ Record
  BY <1>1, TickKeepsFrame, TickKeepsAdvance DEF Tick
<1>2. CASE Goto /\ Record
  BY <1>2, TickKeepsFrame, TickKeepsAdvance DEF Goto
<1>3. CASE Restart
  <2>1. microcode' = Index(SlotInternalReset, 0)
    BY <1>3 DEF Restart, Restarted
  <2>2. SlotOf(microcode') = SlotInternalReset
    BY <2>1, SlotStarts, ServiceSlotsApart
  <2>3. OpAt(microcode') # "dispatch"
    BY <2>1, ClosedAssumption DEF Closed, Running
  <2>. QED
    BY <2>2, <2>3, ServiceSlotsApart DEF FrameInv, AdvanceInv, FrameSlots
<1>4. CASE LineChange /\ UNCHANGED trace
  BY <1>4 DEF LineChange, NmiAssert, IrqAssert, execution, FrameInv, AdvanceInv
<1>5. CASE UNCHANGED tracedVars
  BY <1>5 DEF tracedVars, FrameInv, AdvanceInv
<1>. QED
  BY <1>1, <1>2, <1>3, <1>4, <1>5 DEF TracedNext

LEMMA TracesInductive == TracedSpec => [](TypeOK /\ FrameInv /\ AdvanceInv)
<1>1. TracedInit => FrameInv /\ AdvanceInv
  <2>. SUFFICES ASSUME TracedInit PROVE FrameInv /\ AdvanceInv
    OBVIOUS
  <2>1. microcode = Index(SlotInternalReset, 0) /\ trace = <<>>
    BY DEF TracedInit, Init, Restarted
  <2>2. SlotOf(microcode) = SlotInternalReset
    BY <2>1, SlotStarts, ServiceSlotsApart
  <2>. QED
    BY <2>1, <2>2, ServiceSlotsApart DEF FrameInv, AdvanceInv, FrameSlots
<1>2. TypeOK /\ FrameInv /\ AdvanceInv /\ [TracedNext]_tracedVars => FrameInv' /\ AdvanceInv'
  BY TracesKept
<1>. QED
  BY <1>1, <1>2, TracedTypeCorrect, PTL DEF TracedSpec

-----------------------------------------------------------------------------
(* Whenever a handler's first opcode is about to be fetched the bus has    *)
(* seen a complete frame, PC and status pushed once each and both bytes of *)
(* one vector read, even if NMI took an IRQ's or a BRK's frame over.       *)
THEOREM FramesComplete == TracedSpec => InterruptFrame
<1>1. TypeOK /\ FrameInv =>
        (OpAt(microcode) = "vector_fetch" /\ SlotOf(microcode) # SlotReset1 => trace \in Frames)
  <2>. SUFFICES ASSUME TypeOK, FrameInv,
                       OpAt(microcode) = "vector_fetch", SlotOf(microcode) # SlotReset1
                PROVE  trace \in Frames
    OBVIOUS
  <2>1. microcode \in Cursors
    BY FilledIsCursor DEF TypeOK, ExecutionTypeOK
  <2>2. SlotOf(microcode) \in FrameSlots /\ CycleIn(microcode) = 6
    BY <2>1, FrameCyclesAssumption DEF FrameCycles, CycleIn
  <2>. QED
    BY <2>2, SixMakeAFrame DEF FrameInv
<1>. QED
  BY <1>1, TracesInductive, PTL DEF InterruptFrame

(* The address pushed is the one where the program goes on, for every      *)
(* interrupt, BRK and JSR, whatever was fetched and thrown away before.    *)
THEOREM ReturnsWhereLeft == TracedSpec => ReturnAddress
<1> DEFINE Pushed ==
      tick' = "push_pc_low" /\ tick # "push_pc_low"
        => advance' = IF SlotOf(microcode) \in {SlotNmi, SlotIrq} THEN 0 ELSE 2
<1>1. TypeOK /\ FrameInv /\ AdvanceInv /\ [TracedNext]_tracedVars => Pushed
  <2>. SUFFICES ASSUME TypeOK, AdvanceInv, [TracedNext]_tracedVars,
                       tick' = "push_pc_low", tick # "push_pc_low"
                PROVE  advance' = IF SlotOf(microcode) \in {SlotNmi, SlotIrq} THEN 0 ELSE 2
    OBVIOUS
  <2>1. PICK from \in {microcode, Index(SlotGoto, 0)} : FastTick(from) \/ HijackedTick(from)
    BY DEF TracedNext, Tick, Goto, Restart, Restarted, LineChange, NmiAssert, IrqAssert,
           execution, tracedVars
  <2>2. PICK e \in Entries(from) : \E choice \in Choices(OpAt(e.at)) : Moves(e, choice)
    BY <2>1, TickMoves
  <2>3. PICK choice \in Choices(OpAt(e.at)) : Moves(e, choice)
    BY <2>2
  <2>4. e.at \in Cursors /\ e.at \in Nat
    <3>1. from \in Nat
      BY SlotStarts, ServiceSlotsApart DEF TypeOK, ExecutionTypeOK
    <3>. QED
      BY <3>1, EntriesRun
  <2>5. OpAt(e.at) = "push_pc_low"
    BY <2>3 DEF Moves, Handler, Request
  <2>6. \/ SlotOf(e.at) \in FrameSlots /\ CycleIn(e.at) = 2
        \/ SlotOf(e.at) = SlotJsr /\ CycleIn(e.at) = 3
    BY <2>4, <2>5, FrameCyclesAssumption DEF FrameCycles, CycleIn
  <2>7. e.at = microcode /\ e.advance = advance
    BY <2>6, FrameEntries
  <2>8. advance' = advance
    BY <2>3, <2>5, <2>7 DEF Moves, Handler, AdvanceOps
  <2>. QED
    BY <2>6, <2>7, <2>8, ServiceSlotsApart DEF AdvanceInv, FrameSlots
<1>. QED
  BY <1>1, TracesInductive, PTL DEF TracedSpec, ReturnAddress
=============================================================================
