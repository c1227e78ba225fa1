------------------------------ MODULE BusTrace ------------------------------
(***************************************************************************)
(* The core with the bus requests it made since the last opcode fetch, as  *)
(* a host with a logic analyser would record them: what an interrupt does  *)
(* to the stack and the vectors is spread over seven ticks and, on NMOS,   *)
(* over two slots of the control store.                                    *)
(***************************************************************************)
EXTENDS Qe6502

VARIABLE trace      \* history: requests since the last fetch, without it

tracedVars == <<microcode, P, latch_data, advance, tick, interrupts, hijack, trace>>

Boundaries == {"fetch", "internal_reset", "jammed"}

Record == trace' = IF tick' \in Boundaries THEN <<>> ELSE Append(trace, tick')

TracedInit == Init /\ trace = <<>>

TracedNext ==
  \/ Tick /\ Record
  \/ Goto /\ Record
  \/ Restart /\ Record
  \/ LineChange /\ UNCHANGED trace

TracedSpec == TracedInit /\ [][TracedNext]_tracedVars

(* The same with the interrupt lines at rest.                              *)
QuietNext == (Tick \/ Goto \/ Restart) /\ Record

QuietSpec == TracedInit /\ [][QuietNext]_tracedVars

-----------------------------------------------------------------------------
Vectors == { <<"fffa", "fffb">>, <<"fffe", "ffff">> }

Frames ==
  { <<"read", "push_pc_high", "push_pc_low", status>> \o vector :
      status \in {"push_status_b0", "push_status_b1"}, vector \in Vectors }

(* A handler's first opcode is fetched only after a complete frame: PC and *)
(* status pushed once each, and the two bytes of one and the same vector   *)
(* read.  The NMOS status push may leave for the middle of another         *)
(* sequence, so neither half is fixed by one slot of the store.            *)
InterruptFrame ==
  [][ OpAt(microcode) = "vector_fetch" /\ SlotOf(microcode) # SlotReset1
        /\ tick' = "fetch" /\ SlotOf(microcode') # SlotGoto
      => trace \in Frames ]_tracedVars

(* The address pushed is where the program goes on: the opcode an          *)
(* interrupt displaced, for an interrupt; past the two bytes fetched, for  *)
(* BRK and JSR.  The fetch that an interrupt replaces must not count.      *)
ReturnAddress ==
  [][ tick' = "push_pc_low" /\ tick # "push_pc_low"
      => advance' = IF SlotOf(microcode) \in {SlotNmi, SlotIrq} THEN 0 ELSE 2
    ]_tracedVars
=============================================================================
