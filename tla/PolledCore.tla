----------------------------- MODULE PolledCore -----------------------------
(***************************************************************************)
(* What the core promises about its interrupt lines, without the           *)
(* optimisation: a CPU that looks at both lines in every cycle, as the     *)
(* hardware does.  No hijack flag, no hooking and unhooking, no sampling   *)
(* bit carried from a handler to its caller: each cycle senses NMI, runs   *)
(* the handler, and then arbitrates, enters an interrupt sequence or goes  *)
(* on.  Qe6502 must not be distinguishable from this.                      *)
(***************************************************************************)
EXTENDS Execution

VARIABLE lines      \* the interrupt word, without its sampling bit

vars == <<microcode, P, latch_data, advance, tick, lines>>

Cycle(from) ==
  \E e \in Entries(from) : \E choice \in Choices(OpAt(e.at)) :
    LET op     == OpAt(e.at)
        sensed == SenseNmi(lines)
        left   == InterruptsAfter(op, sensed, P, choice) \ {"sampling"}
        won    == Winner(left)
    IN  /\ Handler(e, choice)
        /\ CASE Samples(op, P, choice) ->
                  /\ lines' = FindActiveInterrupt(left, P)
                  /\ microcode' = Continue(e, sensed, choice)
             [] ~Samples(op, P, choice) /\ tick' = "fetch" /\ won # "none" ->
                  /\ lines' = left \ TakenBits
                  /\ microcode' = Index(IF won = "nmi" THEN SlotNmi ELSE SlotIrq, 0)
             [] OTHER ->
                  /\ lines' = left
                  /\ microcode' = Continue(e, sensed, choice)

SetLine(pin, level) ==
  /\ lines' = IF level THEN lines \cup {pin} ELSE lines \ {pin}
  /\ UNCHANGED execution

Reset ==
  /\ microcode' = Restarted.microcode
  /\ P' = Restarted.P
  /\ latch_data' = Restarted.latch_data
  /\ advance' = Restarted.advance
  /\ tick' = Restarted.tick
  /\ lines' = {}

Init ==
  /\ microcode = Restarted.microcode
  /\ P = Restarted.P
  /\ latch_data = Restarted.latch_data
  /\ advance = Restarted.advance
  /\ tick = Restarted.tick
  /\ lines = {}

Next ==
  \/ Cycle(microcode)
  \/ Cycle(Index(SlotGoto, 0))
  \/ \E pin \in {"nmi_pin", "irq_pin"} : \E level \in BOOLEAN : SetLine(pin, level)
  \/ Reset

Spec == Init /\ [][Next]_vars
=============================================================================
