---------------------------- MODULE MCLinkWorker ----------------------------
(***************************************************************************)
(* A command id with the byte 0xa5 that marks unwritten bytes of a reply.  *)
(***************************************************************************)
EXTENDS LinkWorker

MCCommandId == {<< 1, 165 >>}
=============================================================================
