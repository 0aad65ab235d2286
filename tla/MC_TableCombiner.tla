-------------------------- MODULE MC_TableCombiner ---------------------------
(***************************************************************************)
(* Two frames and two poses; present_called from {2, 3} and pose_accessed *)
(* from 1..3 so that an access comes before, at and after Present; up to  *)
(* two pose accesses (two of one pose, one of each, or one repeated).     *)
(* The driver's tracking table holds every pose (the server's, which      *)
(* varies, already exercises the inner join), and the client's varies     *)
(* only when the caller asks for client tracking: otherwise the function  *)
(* never reads it.  frame_index is 0 or 1 where keep_dropped reads it.   *)
(***************************************************************************)
EXTENDS TableCombiner

\* Default mode never reads frame_index, so it sees index 0 only; client
\* tracking only narrows the poses before the deduplication, so
\* keep_dropped mode runs without it.
MCInit ==
  /\ keep_dropped \in KeepDroppedArgs
  /\ client_tracking \in IF keep_dropped THEN {FALSE} ELSE ClientTrackingArgs
  /\ m \in {x \in MeasurementsWith({Poses}, IF client_tracking THEN SUBSET Poses ELSE {Poses}) :
             keep_dropped \/ \A f \in DOMAIN x.client_frame : x.client_frame[f].frame_index = 0}
  /\ called = "none"
  /\ df = None

MCSpec == MCInit /\ [][Next]_vars
=============================================================================
