----------------------------- MODULE MCCrossing -----------------------------
(***************************************************************************)
(* One crossing under every order of events, with every timer's stale      *)
(* expiries kept around.  Two generations per timer are enough to tell a   *)
(* current expiry from a stale one.                                        *)
(***************************************************************************)
EXTENDS CrossingSystem
=============================================================================
