---------------------------- MODULE Qe6502Polled ----------------------------
(***************************************************************************)
(* Qe6502 implements PolledCore: hooking the resolver into qe6502_tick()   *)
(* only when a line moves, and unhooking it when nothing is pending,       *)
(* changes nothing a host can see.                                         *)
(***************************************************************************)
EXTENDS Qe6502

Polled == INSTANCE PolledCore WITH lines <- interrupts \ {"sampling"}

(* Every behaviour of the core, seen without hijack_microcode and without  *)
(* the sampling bit, is one of the core that looks at its lines in every   *)
(* cycle.                                                                  *)
ImplementsPolledCore == Polled!Spec

(* The NMOS core does so for a host that does not release the NMI line     *)
(* while the edge detector is off, between the status push and the high    *)
(* byte of the vector.                                                     *)
ReleasesNmiWhileDeaf ==
  /\ "sampling_off" \in interrupts
  /\ "nmi_pin" \in interrupts
  /\ NmiAssert(FALSE)

PatientNext ==
  Tick \/ (LineChange /\ ~ReleasesNmiWhileDeaf) \/ Restart \/ Goto

PatientSpec == Init /\ [][PatientNext]_vars
(* What lets qe6502_tick() skip the edge detector: unless the resolver is  *)
(* to look at the NMI line anyway, the line is not below the level it had  *)
(* when it was last looked at, so that the next rise will be seen as one.  *)
(* A pulse released while the detector is off would break it: the resolver *)
(* unhooks itself with the low level unseen.                               *)
NmiLevelKnown ==
  (~hijack \/ "sampling_off" \in interrupts) /\ "nmi_last" \in interrupts
    => "nmi_pin" \in interrupts
=============================================================================
