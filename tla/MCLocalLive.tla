---------------------------- MODULE MCLocalLive ----------------------------
(***************************************************************************)
(* FairSpec of LocalController, stated through a bit that every Tick       *)
(* flips.  Tick is enabled in every state, so "infinitely many ticks" is   *)
(* what WF_vars(Tick) says; TLC tests the flip of a bit much faster than   *)
(* it tests a whole Tick.                                                  *)
(***************************************************************************)
EXTENDS LocalController

VARIABLE tock

TickTock == Tick /\ tock' = ~tock

RequestBetween == Request /\ UNCHANGED tock

LiveInit == Init /\ tock = FALSE

LiveSpec ==
  /\ LiveInit
  /\ [][TickTock \/ RequestBetween]_<<vars, tock>>
  /\ WF_tock(tock' = ~tock)
=============================================================================
