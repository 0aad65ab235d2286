---------------------------- MODULE ClockDriftFit -----------------------------
(***************************************************************************)
(* wvb_get_client_clock_error_fn (src/tools/wvb_measurements.py): the     *)
(* loop over every run of every pass that collects (time, error) points,  *)
(* the deduplication and sort of the points, and the degree-1 polyfit.    *)
(*                                                                         *)
(* A run is the output of wvb_combine_all_times reduced to the columns    *)
(* the loop reads (present_called, tracking_sampled,                      *)
(* server_tracking_received), rows in frame_id order.  One step handles   *)
(* one run, as one iteration of the inner for loop.  The fit is computed  *)
(* exactly over the rationals: a slope and an intercept are numerators   *)
(* over a common denominator (the float64 rounding of numpy is left out). *)
(***************************************************************************)
EXTENDS Integers, Sequences, SequencesExt, FiniteSets

CONSTANTS
  Data,         \* the data sets a caller may pass: passes of runs of rows
  OnlyMinArgs,  \* the values of only_take_min_of_run a caller passes
  None

VARIABLES
  data, only_min,
  pass_id, run_id,  \* the loop indices (0-based, as range(len(...)))
  errors,           \* the collected points [time, error]
  status,           \* "collecting", "done" (returned) or "error" (raised)
  fit               \* [mn, cn, d]: m = mn / d, c = cn / d; None before

vars == <<data, only_min, pass_id, run_id, errors, status, fit>>

\* df = df[df['tracking_sampled'] != 0], then the time/error frame dt.
Points(run) ==
  LET usable == SelectSeq(run, LAMBDA r : r.tracking_sampled # 0)
  IN  [i \in DOMAIN usable |->
         [time  |-> usable[i].present_called,
          error |-> usable[i].server_tracking_received - usable[i].tracking_sampled]]

\* Mutant: the row with the greatest error picked.
IdxMax(dt) ==
  SelectInSeq(dt, LAMBDA p : \A i \in DOMAIN dt : p.error >= dt[i].error)

\* dt['error'].idxmin(): the first row holding the least error.
IdxMin(dt) ==
  SelectInSeq(dt, LAMBDA p : \A i \in DOMAIN dt : p.error <= dt[i].error)

\* errors.drop_duplicates(subset=['time']): the first row of each time.
DropDuplicateTimes(s) ==
  LET firsts == SelectSeq([i \in DOMAIN s |-> <<i, s[i]>>],
                          LAMBDA p : \A j \in 1..(p[1] - 1) : s[j].time # p[2].time)
  IN  [k \in DOMAIN firsts |-> firsts[k][2]]

\* errors.sort_values(by=['time']); the times are unique by now.
SortByTime(s) == SortSeq(s, LAMBDA p, q : p.time < q.time)

Sum(s, F(_)) == FoldLeft(LAMBDA acc, p : acc + F(p), 0, s)

\* Mutant: the closed form used for a single point too.
PolyfitClosedForm(pts) ==
  LET n == Len(pts)
      sx == Sum(pts, LAMBDA p : p.time)      sy  == Sum(pts, LAMBDA p : -p.error)
      sxx == Sum(pts, LAMBDA p : p.time * p.time)
      sxy == Sum(pts, LAMBDA p : p.time * (-p.error))
  IN  [mn |-> n * sxy - sx * sy, cn |-> sxx * sy - sx * sxy, d |-> n * sxx - sx * sx]

\* np.polyfit(time, -error, 1) for at least one point.  With two or more
\* distinct times it is the least-squares line; with one point x, y the
\* scaled Vandermonde system is rank deficient and lstsq returns its
\* minimum-norm solution, which unscaled is m = y / 2x, c = y / 2 (x # 0).
Polyfit(pts) ==
  LET n == Len(pts)
      sx == Sum(pts, LAMBDA p : p.time)      sy  == Sum(pts, LAMBDA p : -p.error)
      sxx == Sum(pts, LAMBDA p : p.time * p.time)
      sxy == Sum(pts, LAMBDA p : p.time * (-p.error))
  IN  IF n = 1
      THEN [mn |-> sy, cn |-> sy * sx, d |-> 2 * sx]
      ELSE [mn |-> n * sxy - sx * sy, cn |-> sxx * sy - sx * sxy, d |-> n * sxx - sx * sx]

-----------------------------------------------------------------------------

Run == data[pass_id + 1][run_id + 1]

\* The inner loop still has a run of this pass to handle.
InRun ==
  /\ status = "collecting"
  /\ pass_id < Len(data)
  /\ run_id < Len(data[pass_id + 1])

NextRun ==
  /\ run_id' = run_id + 1
  /\ UNCHANGED <<data, only_min, pass_id, fit>>

\* only_take_min_of_run: errors.loc[len(errors)] = the run's min row.
CollectMin ==
  /\ InRun
  /\ only_min
  /\ Points(Run) # <<>>
  /\ errors' = Append(errors, Points(Run)[IdxMin(Points(Run))])
  /\ UNCHANGED status
  /\ NextRun

\* idxmin of an empty Series raises ValueError: the whole call fails.
EmptyRun ==
  /\ InRun
  /\ only_min
  /\ Points(Run) = <<>>
  /\ status' = "error"
  /\ UNCHANGED <<errors, run_id, data, only_min, pass_id, fit>>

\* Otherwise errors = pd.concat([errors, dt]).
CollectAll ==
  /\ InRun
  /\ ~only_min
  /\ errors' = errors \o Points(Run)
  /\ UNCHANGED status
  /\ NextRun

\* The inner range is exhausted: the outer loop moves to the next pass.
NextPass ==
  /\ status = "collecting"
  /\ pass_id < Len(data)
  /\ run_id = Len(data[pass_id + 1])
  /\ pass_id' = pass_id + 1
  /\ run_id' = 0
  /\ UNCHANGED <<data, only_min, errors, status, fit>>

\* After the loops: drop_duplicates, sort, polyfit.  polyfit of no point
\* raises TypeError.
FitLine ==
  /\ status = "collecting"
  /\ pass_id = Len(data)
  /\ LET pts == SortByTime(DropDuplicateTimes(errors))
     IN  IF pts = <<>>
         THEN status' = "error" /\ UNCHANGED <<errors, fit>>
         ELSE /\ errors' = pts
              /\ fit' = Polyfit(pts)
              /\ status' = "done"
  /\ UNCHANGED <<data, only_min, pass_id, run_id>>

Init ==
  /\ data \in Data
  /\ only_min \in OnlyMinArgs
  /\ pass_id = 0
  /\ run_id = 0
  /\ errors = <<>>
  /\ status = "collecting"
  /\ fit = None

Next == CollectMin \/ EmptyRun \/ CollectAll \/ NextPass \/ FitLine

Spec == Init /\ [][Next]_vars

-----------------------------------------------------------------------------
(* Properties                                                              *)

Point == [time : Int, error : Int]

TypeOK ==
  /\ status \in {"collecting", "done", "error"}
  /\ pass_id \in 0..Len(data)
  /\ errors \in Seq(Point)
  /\ fit = None <=> status # "done"
  /\ status = "done" => fit \in [mn : Int, cn : Int, d : Int \ {0}]

AllRuns == UNION {ToSet(data[p]) : p \in DOMAIN data}

\* The times of a run's points that carry its least error.
MinTimes(run) ==
  LET pts == Points(run)
  IN  {pts[i].time : i \in {j \in DOMAIN pts : \A k \in DOMAIN pts : pts[j].error <= pts[k].error}}

\* Spec 4.3, one point per run: when the fit is taken from run minima, the
\* points fitted have strictly increasing times, each is the least error
\* of some run at a time that run reached it, and every run has a point
\* at one of its least-error times.
FitPointsAreRunMinima ==
  (status = "done" /\ only_min) =>
    /\ IsSorted(errors, LAMBDA p, q : p.time < q.time)
    /\ \A k \in DOMAIN errors :
         \E r \in AllRuns : Points(r) # <<>> /\ errors[k].time \in MinTimes(r)
                          /\ errors[k].error = Min({Points(r)[i].error : i \in DOMAIN Points(r)})
    /\ \A r \in AllRuns : \E k \in DOMAIN errors : errors[k].time \in MinTimes(r)

\* Spec 4.3 promises a fit from one minimum-error point per run; a run in
\* which no frame has a usable tracking_sampled contributes no point, and
\* the fit is still made when some other run has one.
NoRunAbortsFit ==
  status = "error" => \A r \in AllRuns : Points(r) = <<>>

====
