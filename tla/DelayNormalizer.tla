--------------------------- MODULE DelayNormalizer ----------------------------
(***************************************************************************)
(* wvb_frame_times_to_delays and wvb_convert_time_to_delay                 *)
(* (src/tools/wvb_measurements.py): one run's frame tables are combined,  *)
(* the client clock is optionally corrected, and every timestamp is       *)
(* rebased to the frame's present_called.                                 *)
(*                                                                         *)
(* The combine keeps the columns the rebase treats differently: frame_id  *)
(* (exempt), present_called (the base, anchored at the first row), vsync  *)
(* (a driver time) and tracking_sampled and end_frame (client times, the  *)
(* first also the input of the drift model).  The outer merge sorts its   *)
(* keys, so the rows come in frame_id order.  The correction is the one   *)
(* of ClockCorrection, taken by INSTANCE.                                 *)
(***************************************************************************)
EXTENDS Integers, Sequences, SequencesExt, FiniteSets

CONSTANTS
  FrameIds,     \* frame_id values
  Times,        \* timestamps the processes log
  DriftArgs,    \* the (m, c) pairs a caller passes; <<None, None>> for none
  Margin, NaN, None

VARIABLES
  ms,           \* the measurement: the frame tables of one run
  m_arg, c_arg,
  called,
  df            \* the frame returned (None before the call)

vars == <<ms, m_arg, c_arg, called, df>>

CC == INSTANCE ClockCorrection WITH input <- ms, Frames <- {}

PartialFns(D, R) == UNION {[S -> R] : S \in SUBSET D}

Measurements ==
  [ driver_frame : PartialFns(FrameIds, [present_called : Times, vsync : Times]),
    server_frame : SUBSET FrameIds,
    client_frame : PartialFns(FrameIds, [tracking_sampled : Times, end_frame : Times]) ]

FrameColumns == {"frame_id", "present_called", "vsync", "tracking_sampled", "end_frame"}

\* Frames both the driver and the server logged (the inner merge).
DriverFrames(m) == DOMAIN m.driver_frame \cap m.server_frame

\* wvb_combine_frame_times: inner merge driver/server, outer merge with the
\* client, rows in key order, fillna(0).
CombineFrameTimes(m) ==
  LET ds     == DriverFrames(m)
      cl     == DOMAIN m.client_frame
      keys   == SetToSortSeq(ds \cup cl, <)
      row(f) == [frame_id         |-> f,
                 present_called   |-> IF f \in ds THEN m.driver_frame[f].present_called ELSE 0,
                 vsync            |-> IF f \in ds THEN m.driver_frame[f].vsync ELSE 0,
                 tracking_sampled |-> IF f \in cl THEN m.client_frame[f].tracking_sampled ELSE 0,
                 end_frame        |-> IF f \in cl THEN m.client_frame[f].end_frame ELSE 0]
  IN  [columns |-> FrameColumns, rows |-> [k \in DOMAIN keys |-> row(keys[k])]]

\* Mutant: frame_id left out of the exempt list.
ExcludedWithoutFrameId == {"dropped", "frame_index", "frame_delay", "present_called"}

\* The columns wvb_convert_time_to_delay does not rebase.
Excluded == {"frame_id", "dropped", "frame_index", "frame_delay", "present_called"}

\* Every other column minus the row's present_called, then present_called
\* minus its value in the first row.
ConvertTimeToDelay(d) ==
  LET rebased == [i \in DOMAIN d.rows |->
                   [col \in d.columns |->
                      IF col \in Excluded THEN d.rows[i][col]
                      ELSE CC!Minus(d.rows[i][col], d.rows[i]["present_called"])]]
      first   == d.rows[1]["present_called"]
  IN  [columns |-> d.columns,
       rows    |-> IF Len(d.rows) > 0
                   THEN [i \in DOMAIN rebased |->
                           [rebased[i] EXCEPT !["present_called"] = @ - first]]
                   ELSE rebased]

WithDrift(m, c) == m # None /\ c # None

\* Mutant: the rebase done before the correction.
FrameTimesToDelaysRebaseFirst(m, mm, c) ==
  LET d == ConvertTimeToDelay(CombineFrameTimes(m))
  IN  IF WithDrift(mm, c) THEN CC!FixClientClockError(d, mm, c) ELSE d

\* The whole function: the correction mutates the combined frame in place
\* before the rebase reads it.
FrameTimesToDelays(m, mm, c) ==
  LET d == CombineFrameTimes(m)
  IN  ConvertTimeToDelay(IF WithDrift(mm, c) THEN CC!FixClientClockError(d, mm, c) ELSE d)

Init ==
  /\ ms \in Measurements
  /\ \E mc \in DriftArgs : m_arg = mc[1] /\ c_arg = mc[2]
  /\ called = FALSE
  /\ df = None

FrameTimesToDelaysCall ==
  /\ ~called
  /\ df' = FrameTimesToDelays(ms, m_arg, c_arg)
  /\ called' = TRUE
  /\ UNCHANGED <<ms, m_arg, c_arg>>

Next == FrameTimesToDelaysCall

Spec == Init /\ [][Next]_vars

-----------------------------------------------------------------------------
(* Properties                                                              *)

TypeOK ==
  /\ ms \in Measurements
  /\ called \in BOOLEAN
  /\ called =>
       /\ df.columns = FrameColumns \cup
                       (IF WithDrift(m_arg, c_arg) THEN {"client_clock_error"} ELSE {})
       /\ \A i \in DOMAIN df.rows : /\ df.rows[i] \in [df.columns -> Int]
                                   /\ df.rows[i]["frame_id"] \in FrameIds

\* What the tables say of frame f: a driver or client time, 0 when that
\* process never logged the frame (the fill value of spec 4.2).
DriverTime(f, col) == IF f \in DriverFrames(ms) THEN ms.driver_frame[f][col] ELSE 0
ClientTime(f, col) == IF f \in DOMAIN ms.client_frame THEN ms.client_frame[f][col] ELSE 0

\* The drift model's correction for frame f: m * tracking_sampled + c on
\* the absolute client time, none without a model.
Correction(f) ==
  IF WithDrift(m_arg, c_arg) THEN m_arg * ClientTime(f, "tracking_sampled") + c_arg ELSE 0

\* Spec 4.4: the result has one row per frame any process logged.  In
\* every row, frames some process missed included, each stage is its time
\* on the driver's clock (a client time minus the correction computed
\* from the absolute tracking_sampled) minus the row's present_called;
\* client_clock_error, the correction itself, is rebased the same way.
\* So a stage the client never reached holds -correction - present_called.
StageDelays ==
  called =>
    /\ {df.rows[i]["frame_id"] : i \in DOMAIN df.rows} = DriverFrames(ms) \cup DOMAIN ms.client_frame
    /\ \A i \in DOMAIN df.rows :
         LET f  == df.rows[i]["frame_id"]
             pc == DriverTime(f, "present_called")
         IN  /\ df.rows[i]["vsync"] = DriverTime(f, "vsync") - pc
             /\ \A col \in {"tracking_sampled", "end_frame"} :
                  df.rows[i][col] = ClientTime(f, col) - Correction(f) - pc
             /\ WithDrift(m_arg, c_arg) =>
                  df.rows[i]["client_clock_error"] = Correction(f) - pc

\* Spec 4.4: present_called is anchored at the start of the capture: for
\* every frame the driver presented it is the time since the first frame
\* the driver presented.
CaptureAnchor ==
  called =>
    \A i \in DOMAIN df.rows :
      LET f     == df.rows[i]["frame_id"]
          first == Min(DriverFrames(ms))
      IN  f \in DriverFrames(ms) =>
            df.rows[i]["present_called"] =
              ms.driver_frame[f].present_called - ms.driver_frame[first].present_called

====
