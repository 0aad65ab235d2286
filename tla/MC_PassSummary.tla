--------------------------- MODULE MC_PassSummary -----------------------------
(***************************************************************************)
(* Directories of pass 1 with no file, one file, two files, or one file   *)
(* beside a file of pass 2, a .txt file of pass 1 holding a valid capture *)
(* and a name without the pass prefix.  A file is malformed or holds one  *)
(* of three runs of two frames (all logged; the client missing frame 2;  *)
(* frame 1 logged by the client alone) and one of six network tables      *)
(* (none, no row, one row, two rows, an empty rtt, an empty clock_error). *)
(***************************************************************************)
EXTENDS PassSummary

MCDriftArgs == {<<None, None>>}

FAll ==
  [driver_frame |-> [f \in {1, 2} |-> [present_called |-> f, vsync |-> f + 1]],
   server_frame |-> {1, 2},
   client_frame |-> [f \in {1, 2} |-> [tracking_sampled |-> f + 1, end_frame |-> 3]]]

FClientMissed ==
  [driver_frame |-> [f \in {1, 2} |-> [present_called |-> f, vsync |-> f + 1]],
   server_frame |-> {1, 2},
   client_frame |-> [f \in {1} |-> [tracking_sampled |-> 3, end_frame |-> 3]]]

FClientOnly ==
  [driver_frame |-> [f \in {2} |-> [present_called |-> 2, vsync |-> 3]],
   server_frame |-> {2},
   client_frame |-> [f \in {1, 2} |-> [tracking_sampled |-> 1, end_frame |-> 2]]]

Networks ==
  {NoTable, <<>>,
   <<[rtt |-> 2, clock_error |-> 1]>>,
   <<[rtt |-> 1, clock_error |-> 3], [rtt |-> 2, clock_error |-> 0]>>,
   <<[rtt |-> Empty, clock_error |-> 1]>>,
   <<[rtt |-> 1, clock_error |-> Empty]>>}

Meas(fr, n) ==
  [driver_frame |-> fr.driver_frame, server_frame |-> fr.server_frame,
   client_frame |-> fr.client_frame, network |-> n]

Contents == {Meas(fr, n) : fr \in {FAll, FClientMissed, FClientOnly}, n \in Networks} \cup {Malformed}

File(p, r, e, c) == [pass |-> p, run |-> r, ext |-> e, content |-> c]

MCDirs ==
  {{}} \cup
  {{File(1, 0, "csv", a)} : a \in Contents} \cup
  {{File(1, 0, "csv", a), File(1, 1, "csv", b)} : a, b \in Contents} \cup
  {{File(1, 0, "csv", a), File(2, 0, "csv", b), File(1, 1, "txt", a),
    File(None, 0, "csv", b)} : a, b \in Contents}
====
