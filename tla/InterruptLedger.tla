-------------------------- MODULE InterruptLedger --------------------------
(***************************************************************************)
(* The core with an observer that keeps its own account of the interrupt   *)
(* lines: it looks at the levels the host drives in every cycle, detects   *)
(* NMI edges itself, and remembers what an arbitration would have found in *)
(* the last two cycles.  The properties compare what the core does with    *)
(* that account.                                                           *)
(***************************************************************************)
EXTENDS Qe6502Polled

VARIABLES
  seen,    \* history: level of NMI in the last cycle with the detector on
  owed,    \* history: an NMI edge has been seen and not yet acknowledged
  polls,   \* history: what arbitration would have found in the cycle before
           \* last, and in the last
  cycle    \* history: cycles since the last opcode fetch

ledger == <<seen, owed, polls, cycle>>

ledgerVars ==
  <<microcode, P, latch_data, advance, tick, interrupts, hijack, seen, owed, polls, cycle>>

-----------------------------------------------------------------------------
Cmos == Model \in {"wdc", "rw", "st"}

Deaf == "sampling_off" \in interrupts

(* An edge is owed in the cycle about to run.                              *)
Owed == owed \/ (~Deaf /\ "nmi_pin" \in interrupts /\ ~seen)

(* Two places where the core drops an NMI that is owed, on the way to an   *)
(* IRQ.  They are named so that everything else can be held to account;    *)
(* NmiBeatsIrq and NmiOutlivesIrqEntry say that they should not be.        *)

(* A page-crossing branch polls twice; an unmasked IRQ found by the second *)
(* poll replaces the NMI the first one had won.                            *)
LosesToSecondPoll ==
  /\ OpAt(microcode) = "branch_pgfix"
  /\ "nmi_taken" \in interrupts
  /\ "nmi_edge" \notin SenseNmi(interrupts)
  /\ "irq_pin" \in interrupts
  /\ "I" \notin P

(* On CMOS the IRQ sequence, too, clears the NMI latch when it reads the   *)
(* high byte of its vector.                                                *)
LosesToIrqEntry ==
  /\ Cmos
  /\ SlotOf(microcode) = SlotIrq
  /\ OpAt(microcode) = "cmos_irq_vec_hi"

(* What an arbitration in the cycle about to run ought to find.            *)
Poll ==
  IF Owed /\ ~LosesToSecondPoll THEN "nmi"
  ELSE IF "irq_pin" \in interrupts /\ "I" \notin P THEN "irq" ELSE "none"

(* The high byte of the NMI vector acknowledges every edge up to then.     *)
Observe ==
  /\ seen' = IF Deaf /\ tick' # "fffb" THEN seen ELSE "nmi_pin" \in interrupts
  /\ owed' = (Owed /\ tick' # "fffb" /\ ~LosesToSecondPoll /\ ~LosesToIrqEntry)
  /\ polls' = << polls[2], Poll >>
  /\ cycle' = IF tick' \in {"fetch", "jammed", "internal_reset"} THEN 0 ELSE cycle + 1

NothingObserved ==
  [ seen |-> FALSE, owed |-> FALSE, polls |-> <<"none", "none">>, cycle |-> 0 ]

(* The host starts execution elsewhere only between two instructions, in a *)
(* jammed core, or instead of a reset.                                     *)
GotoPoint == OpAt(microcode) \in {"dispatch", "kil_jam", "internal_reset"}

LedgerInit ==
  /\ Init
  /\ seen = NothingObserved.seen
  /\ owed = NothingObserved.owed
  /\ polls = NothingObserved.polls
  /\ cycle = NothingObserved.cycle

LedgerTick == Tick /\ Observe

LedgerGoto == GotoPoint /\ Goto /\ Observe

LedgerRestart ==
  /\ Restart
  /\ seen' = NothingObserved.seen
  /\ owed' = NothingObserved.owed
  /\ polls' = NothingObserved.polls
  /\ cycle' = NothingObserved.cycle

LedgerLineChange == LineChange /\ UNCHANGED ledger

LedgerNext == LedgerTick \/ LedgerGoto \/ LedgerRestart \/ LedgerLineChange

LedgerSpec == LedgerInit /\ [][LedgerNext]_ledgerVars

(* The host does not release NMI while the edge detector is off.           *)
PatientLineChange ==
  /\ LedgerLineChange
  /\ Deaf /\ "nmi_pin" \in interrupts => "nmi_pin" \in interrupts'

PatientLedgerNext ==
  LedgerTick \/ LedgerGoto \/ LedgerRestart \/ PatientLineChange

PatientLedgerSpec == LedgerInit /\ [][PatientLedgerNext]_ledgerVars

-----------------------------------------------------------------------------
(* An NMI edge that has been seen is latched, won, or being serviced, until *)
(* it is acknowledged: no handler, and no unhooking of the resolver, makes *)
(* the core forget it or miss it.                                          *)
NmiNeverForgotten ==
  owed => \/ "nmi_edge" \in interrupts
          \/ "nmi_taken" \in interrupts
          \/ SlotOf(microcode) = SlotNmi

(* The NMI vector is read only for an edge of the line, once for each: a   *)
(* line held low, or one edge latched twice, does not interrupt again.     *)
NmiIsEdge == [][ tick' = "fffa" /\ tick # "fffa" => Owed ]_ledgerVars

(* A cycle that polls while an NMI edge is owed is won by NMI, whatever    *)
(* the IRQ line does.                                                      *)
NmiBeatsIrq ==
  [][ OpAt(microcode) \in PrefetchOps /\ microcode' = microcode + 1 /\ Owed
      => "nmi_taken" \in interrupts' ]_ledgerVars

(* An NMI edge that arrives while an IRQ is being entered is still there   *)
(* when the IRQ's vector has been read.                                    *)
NmiOutlivesIrqEntry ==
  [][ OpAt(microcode) = "cmos_irq_vec_hi" /\ microcode' = microcode + 1 /\ Owed
      => "nmi_edge" \in interrupts' ]_ledgerVars

(* Who may take the fetch that ends an instruction.  An instruction polls  *)
(* in its last cycle; a branch polls when it reads its offset and, if it   *)
(* crosses a page, again in the cycle that corrects PC, but not in the     *)
(* cycle in between.  Nobody may take the fetch of a handler's first       *)
(* opcode, of a dispatched one-cycle NOP or of the reset sequence.         *)
Due ==
  IF OpAt(microcode) \in {"dispatch", "vector_fetch", "fake_fetch"} THEN {"none"}
  ELSE IF ~IsBranch(SlotOf(microcode)) THEN {polls[2]}
  ELSE LET after == cycle - BranchCycle(SlotOf(microcode))
       IN  CASE after = 0 -> {polls[2]}
             [] after = 1 -> {polls[1]}
             [] after = 2 -> IF polls[2] = "none" THEN {"none", "irq"} ELSE {polls[2]}

Entered ==
  CASE microcode' = Index(SlotNmi, 0) -> "nmi"
    [] microcode' = Index(SlotIrq, 0) -> "irq"
    [] OTHER -> "none"

(* An interrupt sequence displaces an opcode exactly when the lines asked  *)
(* for it in the cycle in which that instruction polls, NMI before IRQ,    *)
(* with the I flag from before that cycle.                                 *)
TakenOnTime ==
  [][ tick' = "fetch" /\ microcode' # microcode /\ SlotOf(microcode') # SlotGoto
      => Entered \in Due ]_ledgerVars

(* The edge detector is off only from a status push to the high byte of    *)
(* the vector that follows.                                                *)
DeafOnlyBetweenPushAndVector ==
  Deaf => OpAt(microcode) \in { "nmi_vec_lo", "nmi_vec_hi", "irq_vec_lo", "irq_vec_hi",
                                "read_fffe", "brk_vec_hi" }

-----------------------------------------------------------------------------
(* The host goes on ticking, whatever the lines do; it does not send the   *)
(* core elsewhere again and again.                                         *)
FairLedgerSpec ==
  /\ LedgerInit
  /\ [][LedgerTick \/ LedgerRestart \/ PatientLineChange]_ledgerVars
  /\ WF_ledgerVars(LedgerTick)

(* An IRQ line that stays asserted and unmasked is serviced: the core does *)
(* not run on for ever with the I flag clear and IRQ asserted.             *)
IrqIsServiced == []<>("irq_pin" \notin interrupts \/ "I" \in P)

(* An NMI edge that has been seen reaches its vector.                      *)
NmiIsServiced == owed ~> ~owed
=============================================================================
