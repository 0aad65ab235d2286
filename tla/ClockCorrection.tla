--------------------------- MODULE ClockCorrection ---------------------------
(***************************************************************************)
(* wvb_get_min_client_clock_error and wvb_fix_client_clock_error           *)
(* (src/tools/wvb_measurements.py): the client's clock is shifted so that  *)
(* no pose is sampled by the client after the server received it.         *)
(*                                                                         *)
(* A data frame is [columns |-> set of names, rows |-> sequence of         *)
(* records over those names].  Values are integers (microsecond ticks) or *)
(* NaN; arithmetic with NaN gives NaN.  The drift model's m and c are     *)
(* integers here: the properties below hold for any m and c, and the      *)
(* float fit itself is modelled in ClockDriftFit.                         *)
(***************************************************************************)
EXTENDS Integers, Sequences, SequencesExt, FiniteSets

CONSTANTS
  Margin,       \* the 500 us added for client->server transfer
  NaN, None

\* The client_cols list of wvb_fix_client_clock_error.
ClientColumns ==
  { "client_tracking_received", "client_tracking_processed", "tracking_sampled",
    "last_packet_received", "pushed_to_decoder", "begin_wait_frame", "begin_frame",
    "after_wait_swapchain", "after_render", "end_frame", "predicted_present_time",
    "pose_timestamp" }

\* client_cols filtered to the columns the frame has.
PresentClientColumns(cols) == ClientColumns \cap cols

Minus(a, b) == IF a = NaN \/ b = NaN THEN NaN ELSE a - b

\* errs = server_tracking_received - tracking_sampled, one per row.
Errors(df) ==
  { Minus(df.rows[i].server_tracking_received, df.rows[i].tracking_sampled) :
      i \in DOMAIN df.rows }

\* errs.min() skips NaN and is NaN for no value at all.
SeriesMin(S) ==
  LET nums == S \ {NaN}
  IN  IF nums = {} THEN NaN ELSE CHOOSE x \in nums : \A y \in nums : x <= y

\* Mutant: the margin added with the wrong sign.
MinClientClockErrorSignSlip(df) ==
  LET min_err == SeriesMin(Errors(df))
  IN  IF min_err # NaN /\ min_err >= 0 THEN 0 ELSE Minus(0, Minus(min_err, -Margin))

\* NaN >= 0 is false, so an empty frame falls through to -(NaN - 500).
MinClientClockError(df) ==
  LET min_err == SeriesMin(Errors(df))
  IN  IF min_err # NaN /\ min_err >= 0 THEN 0 ELSE Minus(0, Minus(min_err, Margin))

\* Mutant: the client_clock_error column never assigned.
WithoutClockErrorColumn(cols) == cols

\* df["client_clock_error"] = ... adds the column in both modes.
WithClockErrorColumn(cols) == cols \cup {"client_clock_error"}

\* The whole function: the client_clock_error column is set (a scalar
\* broadcast, or m * tracking_sampled + c per row) and subtracted from
\* every client column present.
FixClientClockError(df, m, c) ==
  LET scalar   == m = None \/ c = None
      err      == IF scalar THEN MinClientClockError(df) ELSE 0
      cce(r)   == IF scalar THEN err
                  ELSE IF r.tracking_sampled = NaN THEN NaN ELSE m * r.tracking_sampled + c
      shifted  == PresentClientColumns(df.columns)
      cols     == WithClockErrorColumn(df.columns)
  IN  [columns |-> cols,
       rows    |-> [i \in DOMAIN df.rows |->
                      LET r == df.rows[i]
                      IN  [col \in cols |->
                             IF col = "client_clock_error" THEN cce(r)
                             ELSE IF col \in shifted THEN Minus(r[col], cce(r))
                             ELSE r[col]]]]

-----------------------------------------------------------------------------
(* A caller holding one run's unified frame calls the function once.      *)

CONSTANTS
  Frames,       \* the data frames a caller may pass (combine_all outputs)
  DriftArgs     \* the (m, c) pairs it may pass; <<None, None>> for none

VARIABLES
  input,        \* the frame as the caller built it
  df,           \* the same frame object, mutated in place by the call
  m_arg, c_arg,
  called

vars == <<input, df, m_arg, c_arg, called>>

Init ==
  /\ input \in Frames
  /\ df = input
  /\ \E mc \in DriftArgs : m_arg = mc[1] /\ c_arg = mc[2]
  /\ called = FALSE

FixCall ==
  /\ ~called
  /\ df' = FixClientClockError(df, m_arg, c_arg)
  /\ called' = TRUE
  /\ UNCHANGED <<input, m_arg, c_arg>>

Next == FixCall

Spec == Init /\ [][Next]_vars

-----------------------------------------------------------------------------
(* Properties                                                              *)

Value == Int \cup {NaN}

TypeOK ==
  /\ called \in BOOLEAN
  /\ df.columns = input.columns \cup (IF called THEN {"client_clock_error"} ELSE {})
  /\ \A i \in DOMAIN df.rows : df.rows[i] \in [df.columns -> Value]
  /\ Len(df.rows) = Len(input.rows)

Causal(r) == r.tracking_sampled <= r.server_tracking_received

\* Without a drift model the correction restores the physical order of
\* spec 4.3 in every row: afterwards no pose is sampled by the client
\* after the server received it; and a run already in that order is left
\* as it was (its correction is 0).
ScalarCorrectionRestoresCausality ==
  (called /\ m_arg = None) =>
    /\ \A i \in DOMAIN df.rows : Causal(df.rows[i])
    /\ (\A i \in DOMAIN input.rows : Causal(input.rows[i])) =>
         \A i \in DOMAIN df.rows : \A col \in input.columns : df.rows[i][col] = input.rows[i][col]

====
