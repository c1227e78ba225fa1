----------------------------- MODULE PollTiming -----------------------------
(***************************************************************************)
(* More of what holds of every sequence in the control store: which cycles *)
(* poll the interrupt lines before the next opcode fetch, and what has     *)
(* become of the I flag by then.  TLC evaluates these assumptions over the *)
(* whole store of the model it runs with; the proofs about whole           *)
(* instructions take them from here.                                       *)
(***************************************************************************)
EXTENDS Sequencing

NmosFamily == Model \in {"nmos", "nes"}

ResetSlots == {SlotInternalReset, SlotReset0}

(* Where an interrupt that has won is waited for, the cycle before polled; *)
(* only a branch that stays in its page leaves out a cycle between the two. *)
PolledJustBefore ==
  \A at \in Cursors, flags \in SUBSET Flags : Running(at) =>
    \A choice \in Choices(OpAt(at)) : \A next \in Successors(at, flags, choice) :
      Awaited(OpAt(next), FlagsAfter(OpAt(at), flags, choice))
        => Samples(OpAt(at), flags, choice) \/ OpAt(at) = "branch_apply"

(* The first cycles of what may follow an opcode fetch.                    *)
FirstCycles == { Index(slot, 0) : slot \in OpcodeSlots \cup {SlotNmi, SlotIrq} }

(* The cycles after which nobody asks who has interrupted: a reset, and    *)
(* the fetch through a vector with the two cycles before it.               *)
Unpolled(at) ==
  \/ DeafCycle(at)
  \/ OpAt(at) = "vector_fetch"
  \/ SlotOf(at) \in ResetSlots

(* On NMOS a fetch that an interrupt may take comes after a cycle that     *)
(* polls, with nothing but a branch in between, and every other sequence   *)
(* than those that read a vector ends in such a fetch.                     *)
PolledBeforeFetch ==
  NmosFamily =>
    /\ \A at \in FirstCycles :
         ~Unpolled(at) /\ \A flags \in SUBSET Flags : ~Awaited(OpAt(at), flags)
    /\ \A at \in Cursors, flags \in SUBSET Flags : Running(at) =>
         \A choice \in Choices(OpAt(at)) : \A next \in Successors(at, flags, choice) :
           Unpolled(next) => Unpolled(at) \/ OpAt(at) \in DeafeningOps

(* After an opcode fetch the cursor is at a dispatch, but for the fetch in *)
(* the middle of the reset, which is also the only one of its kind.        *)
FetchThenDispatch ==
  /\ OpAt(Index(SlotReset1, 1)) = "dispatch"
  /\ \A at \in Cursors, flags \in SUBSET Flags : Running(at) =>
       /\ OpAt(at) = "fake_fetch" => SlotOf(at) = SlotReset0
       /\ \A choice \in Choices(OpAt(at)) : \A next \in Successors(at, flags, choice) :
            /\ Request(OpAt(at), flags, 0) = "fetch"
                 => SlotOf(at) = SlotReset0 \/ OpAt(next) = "dispatch"
            /\ SlotOf(next) \in ResetSlots => SlotOf(at) \in ResetSlots

ClearingOps == {"cli", "pull_status", "plp_fetch"}

(* One of the handlers from `at' on to the end of its slot may clear I.    *)
MayClear(at) ==
  \E cycle \in 0 .. MicrocodePerSlot - 1 :
    at % MicrocodePerSlot <= cycle /\ OpAt(Index(SlotOf(at), cycle)) \in ClearingOps

SlotRti == \h40

(* An instruction that sets I does not clear it again; one that clears it  *)
(* polls no more, unless it is RTI; and before a vector's fetch it is set. *)
FlagBeforeFetch ==
  NmosFamily =>
    \A at \in Cursors, flags \in SUBSET Flags : Running(at) =>
      \A choice \in Choices(OpAt(at)) : \A next \in Successors(at, flags, choice) :
        LET op    == OpAt(at)
            after == FlagsAfter(op, flags, choice)
        IN  /\ MayClear(next) => MayClear(at)
            /\ "I" \in after \ flags => ~MayClear(next)
            /\ "I" \in flags \ after =>
                 \/ SlotOf(next) = SlotRti
                 \/ OpAt(next) \in FetchOps
                 \/ Request(op, flags, 0) = "fetch"
            /\ SlotOf(next) = SlotRti => SlotOf(at) = SlotRti
            /\ OpAt(next) = "vector_fetch" => "I" \in after \/ SlotOf(at) \in ResetSlots

ASSUME PolledJustBeforeAssumption == PolledJustBefore
ASSUME PolledBeforeFetchAssumption == PolledBeforeFetch
ASSUME FetchThenDispatchAssumption == FetchThenDispatch
ASSUME FlagBeforeFetchAssumption == FlagBeforeFetch
=============================================================================
