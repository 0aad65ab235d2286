----------------------------- MODULE PassSummary ------------------------------
(***************************************************************************)
(* A pass as the analysis reads it (src/tools/wvb_measurements.py):        *)
(* wvb_load_measurement_pass lists a directory and loads the files of one *)
(* pass, and the three cross-run summaries of a pass read the list it     *)
(* returns: wvb_combine_delays (the per-frame mean of the delay tables),  *)
(* wvb_avg_rtt and wvb_med_clock_error (the mean over runs of a per-run   *)
(* statistic of network_measurements).                                     *)
(*                                                                         *)
(* A file is a record: the pass its name carries (None for a name without *)
(* the wvb_measurements_pass_ prefix), its extension, and what            *)
(* wvb_load_measurements makes of it: Malformed when it raises, else a    *)
(* measurement with the frame tables of DelayNormalizer and the           *)
(* network_measurements table (NoTable when the file has none).  A field  *)
(* of that table is the text the parser stored: an integer's digits,      *)
(* abstracted by its value, or Empty for "".  Every call is one step: the *)
(* code is sequential and none of them is interrupted.  A statistic is    *)
(* kept exact as a rational [num, den].                                    *)
(***************************************************************************)
EXTENDS Integers, Sequences, SequencesExt, FiniteSets

CONSTANTS
  Dirs,         \* the directories a caller may point at: sets of files
  PassId,       \* the pass_id argument
  Malformed,    \* the content of a file wvb_load_measurements rejects
  NoTable,      \* a measurement without network_measurements
  Empty,        \* an empty field ("") of a value line
  Raised,       \* the outcome of a call that raised
  FrameIds, Times, DriftArgs, Margin, NaN, None

VARIABLES
  dir,          \* the files of the directory
  measurements, \* what wvb_load_measurement_pass returned (None before)
  delays,       \* wvb_combine_delays(measurements) (None before)
  rtt,          \* wvb_avg_rtt(measurements) (None before)
  clock_error   \* wvb_med_clock_error(measurements) (None before)

vars == <<dir, measurements, delays, rtt, clock_error>>

DN == INSTANCE DelayNormalizer
        WITH ms <- None, m_arg <- None, c_arg <- None, called <- FALSE, df <- None

-----------------------------------------------------------------------------
(* wvb_load_measurement_pass                                               *)

\* f.startswith(f"wvb_measurements_pass_{pass_id}_") and f.endswith(".csv").
PassFile(f) == f.pass = PassId /\ f.ext = "csv"

\* os.listdir returns the names in an arbitrary order; the files kept are
\* loaded in that order, and the first one the parser rejects aborts the
\* call.
LoadMeasurementPass ==
  /\ measurements = None
  /\ \E order \in SetToSeqs({f \in dir : PassFile(f)}) :
       measurements' = IF \E i \in DOMAIN order : order[i].content = Malformed
                       THEN Raised
                       ELSE [i \in DOMAIN order |-> order[i].content]
  /\ UNCHANGED <<dir, delays, rtt, clock_error>>

Loaded == measurements \notin {None, Raised}

-----------------------------------------------------------------------------
(* wvb_combine_delays                                                      *)

\* wvb_frame_times_to_delays(m), with neither m nor c.
DelayRows(m) == DN!FrameTimesToDelays(m, None, None).rows

\* Mutant: each run's table replaces the one before (df = df2).
ConcatLast(ms) == IF ms = <<>> THEN None ELSE DelayRows(ms[Len(ms)])

\* df = df2 for the first run, pd.concat([df, df2]) after; None when the
\* loop never ran.
ConcatDelays(ms) ==
  IF ms = <<>> THEN None ELSE FoldLeft(LAMBDA acc, m : acc \o DelayRows(m), <<>>, ms)

MeanColumns == DN!FrameColumns \ {"frame_id"}

\* Mutant: frame_id kept among the averaged columns.
GroupByFrameWithKey(rows) ==
  LET grp(f) == {i \in DOMAIN rows : rows[i]["frame_id"] = f}
  IN  [f \in {rows[i]["frame_id"] : i \in DOMAIN rows} |->
         [count |-> Cardinality(grp(f)),
          sum   |-> [c \in DN!FrameColumns |-> FoldSet(LAMBDA i, s : s + rows[i][c], 0, grp(f))]]]

\* df.groupby(df.frame_id).mean(): per frame_id, the number of rows and
\* the sum of every other column over them.
GroupByFrame(rows) ==
  LET grp(f) == {i \in DOMAIN rows : rows[i]["frame_id"] = f}
  IN  [f \in {rows[i]["frame_id"] : i \in DOMAIN rows} |->
         [count |-> Cardinality(grp(f)),
          sum   |-> [c \in MeanColumns |-> FoldSet(LAMBDA i, s : s + rows[i][c], 0, grp(f))]]]

\* None.groupby raises AttributeError for an empty list.
CombineDelays ==
  /\ Loaded
  /\ delays = None
  /\ delays' = IF ConcatDelays(measurements) = None THEN Raised
               ELSE GroupByFrame(ConcatDelays(measurements))
  /\ UNCHANGED <<dir, measurements, rtt, clock_error>>

-----------------------------------------------------------------------------
(* wvb_avg_rtt and wvb_med_clock_error                                     *)

Column(table, col) == [i \in DOMAIN table |-> table[i][col]]

HasEmpty(table, col) == \E i \in DOMAIN table : table[i][col] = Empty

RatSum(xs) ==
  FoldLeft(LAMBDA a, x : [num |-> a.num * x.den + x.num * a.den, den |-> a.den * x.den],
           [num |-> 0, den |-> 1], xs)

\* Mutant: the empty fields dropped before the conversion.
ColumnMeanDropFirst(table, col) ==
  LET vals == SelectSeq(Column(table, col), LAMBDA v : v # Empty)
  IN  IF vals = <<>> THEN NaN ELSE [num |-> RatSum([i \in DOMAIN vals |-> [num |-> vals[i], den |-> 1]]).num,
                                    den |-> Len(vals)]

\* table[col].astype(int).dropna().mean(): astype(int) raises ValueError
\* on an empty field, so dropna finds nothing to drop.
ColumnMean(table, col) ==
  IF HasEmpty(table, col) THEN Raised
  ELSE [num |-> FoldLeft(+, 0, Column(table, col)), den |-> Len(table)]

\* table[col].astype(int).dropna().median(): the middle value, or the mean
\* of the two middle values for an even count.
ColumnMedian(table, col) ==
  IF HasEmpty(table, col) THEN Raised
  ELSE LET s == SortSeq(Column(table, col), <)
           n == Len(s)
       IN  IF n % 2 = 1 THEN [num |-> s[(n + 1) \div 2], den |-> 1]
           ELSE [num |-> s[n \div 2] + s[n \div 2 + 1], den |-> 2]

\* np.mean(list): nan for an empty list.
NpMean(xs) ==
  IF xs = <<>> THEN NaN ELSE [num |-> RatSum(xs).num, den |-> RatSum(xs).den * Len(xs)]

\* The statistics of a loop, or Raised when one of them raised.
MeanOrRaise(st) == IF \E i \in DOMAIN st : st[i] \in {Raised, NaN} THEN
                     (IF \E i \in DOMAIN st : st[i] = Raised THEN Raised ELSE NaN)
                   ELSE NpMean(st)

\* table = m['network_measurements'] raises KeyError without the table;
\* the runs whose table has a row give their statistic.
NetworkTables(ms) == [i \in DOMAIN ms |-> ms[i].network]

NonEmptyTables(ms) == SelectSeq(NetworkTables(ms), LAMBDA t : Len(t) > 0)

AvgRtt(ms) ==
  IF \E i \in DOMAIN ms : ms[i].network = NoTable THEN Raised
  ELSE LET ts == NonEmptyTables(ms)
       IN  MeanOrRaise([i \in DOMAIN ts |-> ColumnMean(ts[i], "rtt")])

\* Mutant: the len(table) > 0 guard left out; the median of an empty
\* Series is nan.
MedClockErrorNoLenGuard(ms) ==
  IF \E i \in DOMAIN ms : ms[i].network = NoTable THEN Raised
  ELSE LET ts == NetworkTables(ms)
       IN  MeanOrRaise([i \in DOMAIN ts |-> IF ts[i] = <<>> THEN NaN
                                            ELSE ColumnMedian(ts[i], "clock_error")])

MedClockError(ms) ==
  IF \E i \in DOMAIN ms : ms[i].network = NoTable THEN Raised
  ELSE LET ts == NonEmptyTables(ms)
       IN  MeanOrRaise([i \in DOMAIN ts |-> ColumnMedian(ts[i], "clock_error")])

AvgRttCall ==
  /\ Loaded
  /\ rtt = None
  /\ rtt' = AvgRtt(measurements)
  /\ UNCHANGED <<dir, measurements, delays, clock_error>>

MedClockErrorCall ==
  /\ Loaded
  /\ clock_error = None
  /\ clock_error' = MedClockError(measurements)
  /\ UNCHANGED <<dir, measurements, delays, rtt>>

-----------------------------------------------------------------------------

Init ==
  /\ dir \in Dirs
  /\ measurements = None
  /\ delays = None
  /\ rtt = None
  /\ clock_error = None

Next == LoadMeasurementPass \/ CombineDelays \/ AvgRttCall \/ MedClockErrorCall

Spec == Init /\ [][Next]_vars

-----------------------------------------------------------------------------
(* Properties                                                              *)

Rational == [num : Int, den : Int \ {0}]

TypeOK ==
  /\ measurements \in {None, Raised} \cup Seq({f.content : f \in dir})
  /\ delays = None \/ delays = Raised \/
       \A f \in DOMAIN delays : delays[f].count > 0 /\ delays[f].sum \in [MeanColumns -> Int]
  /\ rtt \in {None, Raised, NaN} \cup Rational
  /\ clock_error \in {None, Raised, NaN} \cup Rational

\* The files of the pass, named independently of the loader's filter.
PassFiles == {f \in dir : f.pass = PassId /\ f.ext = "csv"}

RatEq(a, b) == a.num * b.den = b.num * a.den

\* The rows of a file's delay table for frame f.
FrameRow(x, f) == CHOOSE r \in ToSet(DelayRows(x.content)) : r["frame_id"] = f

\* Spec 4.5 and 6, combineDelays over a pass: one row per frame_id some
\* run of the pass has, holding the mean of that frame's row over the runs
\* that have it, whatever order the directory lists the files in; the
\* call fails only for a pass without files.
FrameMeans ==
  delays # None =>
    LET runs(f) == {x \in PassFiles : \E r \in ToSet(DelayRows(x.content)) : r["frame_id"] = f}
    IN  /\ delays = Raised <=> PassFiles = {}
        /\ delays # Raised =>
             /\ DOMAIN delays = {f \in FrameIds : runs(f) # {}}
             /\ \A f \in DOMAIN delays :
                  /\ delays[f].count = Cardinality(runs(f))
                  /\ \A c \in MeanColumns :
                       delays[f].sum[c] = FoldSet(LAMBDA x, s : s + FrameRow(x, f)[c], 0, runs(f))

\* Spec 3 makes a client stage a frame never reached null, and 4.5 averages
\* the stages of a frame over the runs: the mean tracking_sampled delay of
\* a frame is the mean over the runs whose client logged it (and whose
\* driver and server did, so that the delay exists) of its delay there.
ClientStageAveragedOverClientRuns ==
  delays \notin {None, Raised} =>
    \A f \in DOMAIN delays :
      LET cl == {x \in PassFiles : f \in DOMAIN x.content.client_frame
                                  /\ f \in DN!DriverFrames(x.content)}
          delay(x) == x.content.client_frame[f].tracking_sampled
                        - x.content.driver_frame[f].present_called
      IN  cl # {} =>
            delays[f].sum["tracking_sampled"] * Cardinality(cl) =
              FoldSet(LAMBDA x, s : s + delay(x), 0, cl) * delays[f].count

\* A run's network table, and the runs of the pass whose table has a row.
Net(x) == x.content.network
Measured == {x \in PassFiles : Net(x) # NoTable /\ Len(Net(x)) > 0}

\* Spec 4.5 avgRtt: the mean over the runs with a network measurement of
\* each run's mean rtt, nan when no run has one; the call raises exactly
\* when a run lacks the table or a measured rtt field is empty.
RttMeanOfRunMeans ==
  rtt # None =>
    IF \E x \in PassFiles : Net(x) = NoTable \/ \E i \in DOMAIN Net(x) : Net(x)[i].rtt = Empty
    THEN rtt = Raised
    ELSE IF Measured = {} THEN rtt = NaN
    ELSE rtt \in Rational /\
         RatEq([num |-> rtt.num * Cardinality(Measured), den |-> rtt.den],
               FoldSet(LAMBDA x, a : [num |-> a.num * Len(Net(x)) + FoldLeft(+, 0, Column(Net(x), "rtt")) * a.den,
                                      den |-> a.den * Len(Net(x))],
                       [num |-> 0, den |-> 1], Measured))

\* Spec 4.5 medClockError: the mean over the runs with a network
\* measurement of each run's median clock error; nan only when no run of
\* the pass has one.
ClockErrorMeanOfMedians ==
  (clock_error # None /\ \A x \in PassFiles : Net(x) # NoTable
                      /\ \A i \in DOMAIN Net(x) : Net(x)[i].clock_error # Empty) =>
    IF Measured = {} THEN clock_error = NaN
    ELSE clock_error \in Rational /\
         RatEq([num |-> clock_error.num * Cardinality(Measured), den |-> clock_error.den],
               FoldSet(LAMBDA x, a : [num |-> a.num * ColumnMedian(Net(x), "clock_error").den
                                                + ColumnMedian(Net(x), "clock_error").num * a.den,
                                      den |-> a.den * ColumnMedian(Net(x), "clock_error").den],
                       [num |-> 0, den |-> 1], Measured))

====
