-------------------------- MODULE MC_ClockDriftFit ---------------------------
(***************************************************************************)
(* Up to two runs, in one pass or in two, of up to two frames each; two   *)
(* passes of unequal length (a run twice, then a pass without a file).   *)
(* present_called in {1, 2} lets two runs' minima fall on the same time;  *)
(* tracking_sampled 0 is a frame without a client pose (dropped by the    *)
(* loop); errors range over -1..2.                                        *)
(***************************************************************************)
EXTENDS ClockDriftFit

MCRows ==
  [present_called : {1, 2}, tracking_sampled : {0, 1},
   server_tracking_received : {0, 1, 2}]

MCRuns == BoundedSeq(MCRows, 2)

MCData ==
  {<<>>, <<<<>>>>}
  \cup {<<<<r>>>> : r \in MCRuns}
  \cup {<<<<r1, r2>>>> : r1, r2 \in MCRuns}
  \cup {<<<<r1>>, <<r2>>>> : r1, r2 \in MCRuns}
  \cup {<<<<r, r>>, <<>>>> : r \in MCRuns}
  \cup {<<<<>>, <<r>>>> : r \in MCRuns}
====
