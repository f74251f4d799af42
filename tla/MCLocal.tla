------------------------------ MODULE MCLocal ------------------------------
(***************************************************************************)
(* A Local one of whose desks is busy.  At the desk of the signals it gets *)
(* every request about trains, pedestrians, sensors and links; at the desk *)
(* of the modes every request about modes and the time of day, and trains, *)
(* resets and coordination (with offset 0) besides.  Both desks busy are   *)
(* too much for TLC; the proofs treat any mixture.                         *)
(***************************************************************************)
EXTENDS LocalController

VARIABLE desk

Clockless == UNCHANGED <<temp, peak, sim_running>>

Quiet ==
  /\ UNCHANGED <<high, train_connected>>
  /\ state'.request = Both(FALSE)
  /\ TrainPresent(state') => state'.train_waiting_for_clear
  /\ state'.coordination_offset_sec = 0

SignalDesk ==
  /\ desk = "signals"
  /\ SignalRequest \/ (Tick /\ Clockless)
  /\ UNCHANGED desk

ModeDesk ==
  /\ desk = "modes"
  /\ Request \/ Tick
  /\ Quiet
  /\ UNCHANGED desk

DeskInit == Init /\ desk \in {"signals", "modes"}

DeskSpec == DeskInit /\ [][SignalDesk \/ ModeDesk]_<<vars, desk>>
=============================================================================
