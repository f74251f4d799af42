------------------------------- MODULE Frames -------------------------------
(***************************************************************************)
(* The reports that Central receives and how it tells their two dialects   *)
(* apart (central_frame_normalize and central_frame_valid of ipc.c).  A    *)
(* frame is an envelope of fixed size, or compact: a header and its bare   *)
(* payload, whose size depends on the type and, for a railway status, on   *)
(* the age of the Train's build.  Contents other than the id are one       *)
(* value, assumed within the ranges the code checks field by field.        *)
(***************************************************************************)
EXTENDS Monitor

Size == {"envelope", "compact", "old"}
Type == {"HEARTBEAT", "STATUS_UPDATE", "RAILWAY_STATUS", "FAULT_ALERT"}

\* "old": the first four bytes of a railway status, without the two tracks.
KnownSize(frame) ==
  \/ frame.size \in {"envelope", "compact"}
  \/ frame.size = "old" /\ frame.type = "RAILWAY_STATUS"

\* Compact frames of the Train number the crossings from 1.
OneBased(frame) ==
  frame.size # "envelope" /\ frame.src = "TRAIN" /\ frame.type \in {"RAILWAY_STATUS", "FAULT_ALERT"}

Sources(type) ==
  CASE type = "STATUS_UPDATE" -> {"LOCAL"}
    [] type = "RAILWAY_STATUS" -> {"TRAIN"}
    [] OTHER -> {"LOCAL", "TRAIN"}

central_frame_valid(frame) ==
  /\ frame.src \in Sources(frame.type)
  /\ frame.id < (IF frame.src = "TRAIN" THEN NUM_CROSSINGS ELSE NUM_INTERSECTIONS)

\* Mutant: an id that could be an envelope's is taken for one.
normalized_ByValue(frame) ==
  IF OneBased(frame) /\ frame.id >= NUM_CROSSINGS THEN [frame EXCEPT !.id = @ - 1] ELSE frame

\* The frame with its ids counted from 0.
normalized(frame) ==
  IF OneBased(frame) THEN [frame EXCEPT !.id = @ - 1] ELSE frame

\* Whether Central takes the frame; it then handles normalized(frame).
central_frame_normalize(frame) ==
  /\ KnownSize(frame)
  /\ OneBased(frame) => frame.id \in 1 .. NUM_CROSSINGS
  /\ central_frame_valid(normalized(frame))
=============================================================================
