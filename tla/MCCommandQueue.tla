--------------------------- MODULE MCCommandQueue ---------------------------
(***************************************************************************)
(* One intersection behind the common Local endpoint, and the operator     *)
(* requests that differ in what they do to the queue and to the policy.    *)
(***************************************************************************)
EXTENDS CommandQueue, TLC

MCRoute == [t \in Target |-> "local"]
MCRequests == [kind: {"TEMPORARY", "COORDINATE_AT"}, target: {0}]
MCSymmetry == Permutations(Id) \cup Permutations(Mode)
=============================================================================
