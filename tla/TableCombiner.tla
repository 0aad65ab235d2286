---------------------------- MODULE TableCombiner ----------------------------
(***************************************************************************)
(* wvb_combine_frame_times, wvb_combine_tracking_times and                 *)
(* wvb_combine_all_times (src/tools/wvb_measurements.py): the joins that   *)
(* turn one run's per-process tables into one row per frame.              *)
(*                                                                         *)
(* Data abstraction.  Columns are kept only where a join, the filter or   *)
(* the deduplication reads them: frame_id, frame_index, pose_timestamp,   *)
(* present_called and driver_pose_accessed.  The per-frame tables of the  *)
(* driver, server and client hold one row per frame_id, and the server,   *)
(* driver and client tracking tables one row per pose_timestamp, so they *)
(* are functions (or key sets); driver_pose_access_measurements may hold  *)
(* several rows per pose and is a sequence.  frame_index and              *)
(* pose_timestamp come from the client's frame table, as the column list  *)
(* of wvb_combine_frame_times files them.  Pandas' NaN is the model value *)
(* NaN: a comparison with it is false.                                    *)
(***************************************************************************)
EXTENDS Integers, Sequences, SequencesExt, FiniteSets, TLC

CONSTANTS
  FrameIds,      \* frame_id values
  Poses,         \* pose_timestamp values (never 0: 0 is the fillna value)
  Times,         \* timestamps (present_called, pose_accessed)
  FrameIndexes,  \* frame_index values a client may log (0: none assigned)
  MaxAccesses,   \* bound on the rows of driver_pose_access_measurements
  ClientTrackingArgs, KeepDroppedArgs,  \* argument values a caller passes
  NaN, None

ASSUME 0 \notin Poses /\ 0 \in FrameIndexes /\ Times \subseteq Nat \ {0}

VARIABLES
  m,               \* the measurement: the tables this run logged
  client_tracking, \* the call's arguments
  keep_dropped,
  called,          \* which function has been called, "none" before
  df               \* the data frame it returned (None before)

vars == <<m, client_tracking, keep_dropped, called, df>>

\* A partial function from a subset of D to R.
PartialFns(D, R) == UNION {[S -> R] : S \in SUBSET D}

MeasurementsWith(DriverTracking, ClientTracking) ==
  [ driver_frame     : PartialFns(FrameIds, Times),        \* -> present_called
    server_frame     : SUBSET FrameIds,
    client_frame     : PartialFns(FrameIds, [frame_index : FrameIndexes,
                                             pose_timestamp : Poses]),
    server_tracking  : SUBSET Poses,
    driver_tracking  : DriverTracking,
    client_tracking  : ClientTracking,
    driver_pose_access : BoundedSeq([pose_timestamp : Poses,
                                     pose_accessed  : Times], MaxAccesses) ]

Measurements == MeasurementsWith(SUBSET Poses, SUBSET Poses)

-----------------------------------------------------------------------------
(* Helpers for data frames as sequences of records                        *)

\* The rows of s whose index passes Keep, in order.
SelectIdx(s, Keep(_)) ==
  LET picked == SelectSeq([i \in DOMAIN s |-> <<i, s[i]>>], LAMBDA p : Keep(p[1]))
  IN  [k \in DOMAIN picked |-> picked[k][2]]

\* Mutant: the filter written as ~(df[a] > df[b]), which keeps NaN rows.
NaNNotAfter(a, b) == ~(a # NaN /\ b # NaN /\ b < a)

\* df[a] < df[b] on numbers, false when either side is NaN.
NaNLess(a, b) == a # NaN /\ b # NaN /\ a < b

\* sort_values(by=["frame_id", "driver_pose_accessed"])
SortKeyLess(r, q) ==
  \/ r.frame_id < q.frame_id
  \/ r.frame_id = q.frame_id /\ r.driver_pose_accessed < q.driver_pose_accessed

SortByFrameAndAccess(s) == SortSeq(s, SortKeyLess)

-----------------------------------------------------------------------------
(* wvb_combine_frame_times                                                *)

\* driver.merge(server, on="frame_id"), then an outer merge with the
\* client table; fillna(0) turns every missing column into 0.
FrameTimes(ms) ==
  LET ds  == DOMAIN ms.driver_frame \cap ms.server_frame
      cl  == DOMAIN ms.client_frame
  IN  [f \in ds \cup cl |->
        [frame_id       |-> f,
         present_called |-> IF f \in ds THEN ms.driver_frame[f] ELSE 0,
         frame_index    |-> IF f \in cl THEN ms.client_frame[f].frame_index ELSE 0,
         pose_timestamp |-> IF f \in cl THEN ms.client_frame[f].pose_timestamp ELSE 0]]

-----------------------------------------------------------------------------
(* wvb_combine_tracking_times                                             *)

\* Inner merges of (client,) server and driver tracking and the pose
\* accesses on pose_timestamp: one row per access of a pose every tracking
\* table holds.
TrackingTimes(ms, ct) ==
  LET tracked == ms.server_tracking \cap ms.driver_tracking
                   \cap (IF ct THEN ms.client_tracking ELSE Poses)
      acc     == SelectSeq(ms.driver_pose_access, LAMBDA a : a.pose_timestamp \in tracked)
  IN  [i \in DOMAIN acc |-> [pose_timestamp       |-> acc[i].pose_timestamp,
                             driver_pose_accessed |-> acc[i].pose_accessed]]

-----------------------------------------------------------------------------
(* wvb_combine_all_times                                                  *)

NoFrame(p) ==
  [frame_id |-> NaN, present_called |-> NaN, frame_index |-> NaN, pose_timestamp |-> p]

Joined(t, fr) ==
  [pose_timestamp |-> fr.pose_timestamp, driver_pose_accessed |-> t.driver_pose_accessed,
   frame_id |-> fr.frame_id, frame_index |-> fr.frame_index,
   present_called |-> fr.present_called]

\* df.merge(df2, on=["pose_timestamp"], how="outer"): every matching pair,
\* then the tracking rows no frame used and the frames no tracking row
\* matches, with NaN on the missing side.  The order of the rows is left
\* to the later sort.
OuterMerge(tr, fr) ==
  LET byPose(p) == {f \in DOMAIN fr : fr[f].pose_timestamp = p}
      trPoses   == {tr[i].pose_timestamp : i \in DOMAIN tr}
      pairs(i)  == SetToSortSeq({Joined(tr[i], fr[f]) : f \in byPose(tr[i].pose_timestamp)},
                                SortKeyLess)
      leftOnly  == SelectSeq(tr, LAMBDA t : byPose(t.pose_timestamp) = {})
      rightOnly == SetToSortSeq({Joined([driver_pose_accessed |-> NaN], fr[f]) :
                                   f \in {g \in DOMAIN fr : fr[g].pose_timestamp \notin trPoses}},
                                SortKeyLess)
  IN  FlattenSeq([i \in DOMAIN tr |-> pairs(i)])
        \o [i \in DOMAIN leftOnly |-> Joined(leftOnly[i], NoFrame(leftOnly[i].pose_timestamp))]
        \o rightOnly

\* df[df["driver_pose_accessed"] < df["present_called"]]
AccessedBeforePresent(s) ==
  SelectSeq(s, LAMBDA r : NaNLess(r.driver_pose_accessed, r.present_called))

\* Mutant: keep="first".
KeepFirstFrame(s) ==
  SelectIdx(s, LAMBDA i : \A j \in 1..i-1 : s[j].frame_id # s[i].frame_id)

\* drop_duplicates(subset=["frame_id"], keep="last")
DropDuplicateFrames(s) ==
  SelectIdx(s, LAMBDA i : \A j \in i+1..Len(s) : s[j].frame_id # s[i].frame_id)

\* Mutant: the frame_index == 0 to NaN step left out.
DroppedFrameRowsNoNull(s) ==
  LET u == SortByFrameAndAccess(s)
  IN  SelectIdx(u, LAMBDA i : \/ \E j \in 1..i-1 : u[j].frame_index = u[i].frame_index
                              \/ u[i].frame_index = NaN)

\* frame_index == 0 set to NaN, then the rows whose frame_index is
\* duplicated() (an equal value, NaN included, at an earlier row) or null.
DroppedFrameRows(s) ==
  LET t == [i \in DOMAIN s |->
              [s[i] EXCEPT !.frame_index = IF @ = 0 THEN NaN ELSE @]]
      u == SortByFrameAndAccess(t)
  IN  SelectIdx(u, LAMBDA i : \/ \E j \in 1..i-1 : u[j].frame_index = u[i].frame_index
                              \/ u[i].frame_index = NaN)

\* The whole function; moving the id columns first changes no row.
CombineAll(ms, ct, kd) ==
  LET kept == AccessedBeforePresent(OuterMerge(TrackingTimes(ms, ct), FrameTimes(ms)))
  IN  IF kd THEN DroppedFrameRows(kept)
            ELSE DropDuplicateFrames(SortByFrameAndAccess(kept))

-----------------------------------------------------------------------------
(* The calls                                                              *)

\* Ms(ct): the measurements enumerated when the caller passes
\* client_tracking = ct.
CombinerInit(Ms(_)) ==
  /\ client_tracking \in ClientTrackingArgs
  /\ m \in Ms(client_tracking)
  /\ keep_dropped \in KeepDroppedArgs
  /\ called = "none"
  /\ df = None

CombineFrameTimes ==
  /\ called = "none"
  /\ called' = "frame"
  /\ df' = FrameTimes(m)
  /\ UNCHANGED <<m, client_tracking, keep_dropped>>

CombineTrackingTimes ==
  /\ called = "none"
  /\ called' = "tracking"
  /\ df' = TrackingTimes(m, client_tracking)
  /\ UNCHANGED <<m, client_tracking, keep_dropped>>

CombineAllTimes ==
  /\ called = "none"
  /\ called' = "all"
  /\ df' = CombineAll(m, client_tracking, keep_dropped)
  /\ UNCHANGED <<m, client_tracking, keep_dropped>>

Init == CombinerInit(LAMBDA ct : Measurements)

Next == CombineFrameTimes \/ CombineTrackingTimes \/ CombineAllTimes

Spec == Init /\ [][Next]_vars

-----------------------------------------------------------------------------
(* Properties                                                              *)

\* A row of the unified table: after the filter no column read by it is
\* NaN; frame_index is NaN where keep_dropped cleared a 0.
Row == [pose_timestamp : Poses, driver_pose_accessed : Times,
        frame_id : FrameIds, frame_index : FrameIndexes \cup {NaN},
        present_called : Times]

TypeOK ==
  /\ m \in Measurements
  /\ client_tracking \in BOOLEAN /\ keep_dropped \in BOOLEAN
  /\ called \in {"none", "frame", "tracking", "all"}
  /\ called = "all" => df \in Seq(Row)

\* The accesses a frame's rendering may have used, read off the raw tables
\* as spec section 3 describes a unified record: the driver and the server
\* logged frame f, the client logged the pose it showed, every tracking
\* table (the client's too when asked for) holds that pose, and the driver
\* accessed the pose before Present was called for f.
UsableAccessRows(ms, ct, f) ==
  LET acc == ms.driver_pose_access
      p   == ms.client_frame[f].pose_timestamp
  IN  IF /\ f \in DOMAIN ms.driver_frame \cap ms.server_frame \cap DOMAIN ms.client_frame
         /\ p \in ms.server_tracking \cap ms.driver_tracking
         /\ ct => p \in ms.client_tracking
      THEN {j \in DOMAIN acc : /\ acc[j].pose_timestamp = p
                               /\ acc[j].pose_accessed < ms.driver_frame[f]}
      ELSE {}

UsableAccesses(ms, ct, f) ==
  {ms.driver_pose_access[i].pose_accessed : i \in UsableAccessRows(ms, ct, f)}

MaxOf(S) == CHOOSE x \in S : \A y \in S : y <= x

\* Default mode of wvb_combine_all_times: the result holds exactly one row
\* for each frame that has a usable pose access, none for any other frame,
\* and that row carries the latest usable access (the maximal
\* driver_pose_accessed still before present_called).
OneRowPerFrameWithLatestAccess ==
  (called = "all" /\ ~keep_dropped) =>
    /\ {df[i].frame_id : i \in DOMAIN df} = {f \in FrameIds : UsableAccesses(m, client_tracking, f) # {}}
    /\ \A i, j \in DOMAIN df : i # j => df[i].frame_id # df[j].frame_id
    /\ \A i \in DOMAIN df :
         df[i].driver_pose_accessed = MaxOf(UsableAccesses(m, client_tracking, df[i].frame_id))

\* keep_dropped mode of wvb_combine_all_times, read off the raw tables: a
\* frame is returned exactly when it has a usable pose access and either
\* the client gave it no index (0), or its index repeats, on a second
\* usable access of the same frame or on a usable frame of smaller id.  A
\* frame the client never logged has the fill values frame_index 0 and
\* pose_timestamp 0, no tracking row and so no usable access: it is never
\* returned, although it is the frame most surely lost.
DroppedFramesSurfaced ==
  (called = "all" /\ keep_dropped) =>
    LET rows(f)   == UsableAccessRows(m, client_tracking, f)
        idx(f)    == m.client_frame[f].frame_index
    IN  {df[i].frame_id : i \in DOMAIN df} =
          {f \in FrameIds :
             /\ rows(f) # {}
             /\ \/ idx(f) = 0
                \/ Cardinality(rows(f)) >= 2
                \/ \E g \in FrameIds : g < f /\ rows(g) # {} /\ idx(g) = idx(f)}

\* Spec section 3: for a given frame_id at most one unified record is
\* retained, whichever mode wvb_combine_all_times runs in.
AtMostOneRowPerFrame ==
  called = "all" => \A i, j \in DOMAIN df : i # j => df[i].frame_id # df[j].frame_id

=============================================================================
