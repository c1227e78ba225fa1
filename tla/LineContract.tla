---------------------------- MODULE LineContract ----------------------------
(***************************************************************************)
(* What IInstructionCpu promises about one interrupt line: asserted at     *)
(* once, kept asserted through the next n completed step_instruction()     *)
(* calls, deasserted when that many calls have finished, and left          *)
(* deasserted by a count that is not positive.                             *)
(***************************************************************************)
EXTENDS Integers

VARIABLES
  asked,    \* the interface: was the line's assert_..._for() just called, and
            \* with what count
  left,     \* calls still to be completed with the line asserted
  level,    \* the line
  done      \* calls completed since the last reset

vars == <<asked, left, level, done>>

NotAsked == [called |-> FALSE, count |-> 0]

AssertFor(n) ==
  /\ left' = IF n > 0 THEN n ELSE 0
  /\ level' = (n > 0)
  /\ UNCHANGED done

CompleteCall ==
  /\ done' = done + 1
  /\ left' = IF left = 0 THEN 0 ELSE left - 1
  /\ level' = (left > 1)

Reset ==
  /\ left' = 0
  /\ level' = FALSE
  /\ done' = 0

Init ==
  /\ asked = NotAsked
  /\ left = 0
  /\ level = FALSE
  /\ done = 0

Next ==
  \/ asked'.called /\ AssertFor(asked'.count)
  \/ asked' = NotAsked /\ (CompleteCall \/ Reset \/ UNCHANGED <<left, level, done>>)

Spec == Init /\ [][Next]_vars
=============================================================================
