---------------------------- MODULE MCReporting ----------------------------
(* A Local, or a Train with two crossings, whose ids 1 and 2, or 0 and 1,   *)
(* overlap in the two dialects.                                             *)
EXTENDS Reporting

MCRunning == {{"LOCAL"}, {"TRAIN"}}
=============================================================================
