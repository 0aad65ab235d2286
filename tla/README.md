# TLA+ models of the WVB measurement analysis

The code under `src/tools/` analyses latency logs from the wireless VR
bridge. Three processes (driver, server, client) each write their own event
tables. `wvb_measurements.py` parses the logs, joins the tables into one row
per frame, corrects the client's clock, turns absolute timestamps into
per-frame delays and averages them over repeated runs.
`wvb_driver_control.py` is a separate CLI that registers the driver with
SteamVR.

The analysis is single-threaded and has no concurrency, network or crash
recovery. What is hard about it is data-dependent control: a line-driven
parser state machine, joins whose NaN and fill-value semantics decide which
rows survive, a sort plus deduplication that must keep the right access,
and numeric boundaries in the clock correction. Each module below keeps all
of the control of the functions it models. It abstracts the data to the
columns that a join, filter, sort or property reads. TLC then checks every
small input the abstraction allows, not a few hand-picked ones.

## Inventory

| Component | Code | State it keeps | Operations |
|---|---|---|---|
| Log parser | `wvb_load_measurements` (155-221) | loop state, `table_name`, `n_cols`, `columns`, the dict of tables | one step per line: skip separator, table name, column names, end of table, value row, three raises, end of file |
| Pass loader | `wvb_load_measurement_pass` (224-239) | list of parsed runs | directory listing, prefix/suffix filter, one parse per file |
| Table combiner | `wvb_combine_frame_times`, `wvb_combine_tracking_times`, `wvb_combine_all_times` (15-152) | none (returns new frames) | inner/outer merges, `fillna(0)`, ordering filter, sort, deduplication in two modes |
| Clock alignment | `wvb_get_min_client_clock_error`, `wvb_get_client_clock_error_fn`, `wvb_fix_client_clock_error` (283-366) | the error points collected across runs; the frame it mutates | per-run minimum, collection loop over passes and runs, dedup/sort, linear fit, in-place correction of client columns |
| Delay normalizer | `wvb_convert_time_to_delay`, `wvb_frame_times_to_delays` (267-386) | the frame it mutates in place | rebase to `present_called`, anchor `present_called` at the first row, optional correction before it |
| Aggregator | `wvb_average_table`, `wvb_combine_delays`, `wvb_avg_rtt`, `wvb_med_clock_error` (242-264, 389-403, 478-499) | the running concatenation | loops over captures with early raises, group-by-index or group-by-frame means |
| Raw images, PSNR | `wvb_load_rgba_image`, `wvb_psnr` (594-625) | none (returns arrays) | size check, reshape, alpha reset; uint8 MSE, `inf` branch |
| Plotting, SSIM | `wvb_plot_*`, `wvb_ssim` | none | presentation; one library call |
| Driver CLI | `wvb_driver_control.py` | none | `enable`, `disable`, `status` through `subprocess` |

How the components interact. The only interaction is function calls in a
pipeline: parser → combiner → (clock alignment) → normalizer → aggregator.
Two functions mutate their argument in place: `wvb_fix_client_clock_error`
adds `client_clock_error` and shifts the client columns, and
`wvb_convert_time_to_delay` rebases and also returns the frame. Because of
this mutation, the order of the calls in `wvb_frame_times_to_delays` matters.
The clock fit reads every run of every pass, in the order that `os.listdir`
returns them.

What makes each component correct:

* Parser: the dict it returns (or the `ValueError` it raises) is the meaning
  of the file under the grammar of spec 4.1. Column names are identifiers.
  Rows have the width of their columns. The parse always finishes.
* Combiner: default mode keeps exactly one row per frame that has a usable
  pose access. That row carries the latest access before `present_called`.
  No unmatched (NaN) row survives. keep_dropped mode should surface dropped
  frames without breaking the one-record-per-frame invariant.
* Clock alignment: after the scalar correction no row has
  `tracking_sampled` after `server_tracking_received`. No correction is made
  when none is needed. The fit uses one point per run whatever the run order.
* Normalizer: the result is a lossless re-encoding: adding back
  `present_called` recovers every absolute time. The correction uses absolute
  client times. Columns that are not timestamps are left alone.
* Aggregator: a missing table fails the whole call. Every capture should
  contribute its number to every row it has, but the parser stores text,
  and what pandas makes of a text mean depends on its version.
* PSNR: `inf`, the score of a perfect reconstruction, only for equal images,
  and a larger pixel error never scores better.

The hazards that these properties are aimed at are listed, each at its line,
under `"hazards"` in `PROJECT.json`.

## Modules

### MeasurementGrammar: what a file means (abstract)

This module is written from spec 4.1, not from the loop. A file is cut into
blocks at separator lines. A block is a name line, a column line and value
lines. Rows are cut to the column count, and a short row is a
`FormatError`. A later table of the same name replaces an earlier one. The
recursive `Tables` computes the meaning of any sequence of lines. The
abstract machine reads one line per step, and its outcome is always
`Meaning(prefix read)`. It stops at the first malformed prefix. Weak
fairness says that reading continues.

### MeasurementParser: `wvb_load_measurements`

* A line is its stripped text split at commas, i.e. a sequence of field
  tokens (`"a"`, `"b"` identifiers, `"1"`, `""`, `"---"`). The line equals
  `"---"` iff it is `<<"---">>`. `line.isidentifier()` iff it has one field
  and that field is an identifier. A comma-joined line is never an
  identifier.
* Variables: `file`, `pos` (lines consumed by the `for`), `state`,
  `table_name`, `n_cols`, `columns`, `measurements`, `status` (`running`,
  `done` = returned, `error` = raised).
* There is one action per branch: `SkipSeparator`, `InvalidTableName`,
  `ReadTableName`, `InvalidColumnName`, `ReadColumnNames`, `EndTable`,
  `InvalidValueCount`, `ReadValues` and `EndOfFile`. Both the first-row
  branch and the `.loc` branch of the value case append a row, so they are
  one action.
* `GrammarSpec` is the refinement. `Grammar == INSTANCE MeasurementGrammar
  WITH consumed <- pos, outcome <- (error ? FormatError : measurements)`,
  and `Grammar!Spec` is checked as a PROPERTY, fairness included.

### TableCombiner: the three combine functions

* Input tables: the driver frame table (frame_id → `present_called`), the
  server frame table (frame ids), and the client frame table (frame_id →
  `frame_index`, `pose_timestamp`). There are also the server, driver and
  client tracking tables (pose sets) and `driver_pose_access_measurements` (a
  sequence of (pose, `pose_accessed`) rows, several per pose). One row per
  key is assumed wherever the code joins on a key. `frame_index` and
  `pose_timestamp` are taken from the client table, where the code's column
  list files `pose_timestamp`.
* `FrameTimes` is the inner merge driver⋈server, then an outer merge with
  the client table, then `fillna(0)`. `TrackingTimes` is the chain of inner
  merges. `OuterMerge` is the outer merge on `pose_timestamp`, with NaN on
  unmatched rows. `AccessedBeforePresent` is the `<` filter, where a
  comparison with NaN is false. `SortByFrameAndAccess` and
  `DropDuplicateFrames` handle default mode, and `DroppedFrameRows` handles
  keep_dropped.
* The actions are `CombineFrameTimes`, `CombineTrackingTimes` and
  `CombineAllTimes`. Each is one whole call, with the caller's arguments
  chosen in `Init`.

### ClockCorrection: `wvb_get_min_client_clock_error`, `wvb_fix_client_clock_error`

* A data frame is `[columns, rows]`, with rows as records over the columns.
  Values are integers, or `NaN`, where arithmetic with `NaN` gives `NaN`.
* `MinClientClockError` takes the NaN-skipping minimum of
  `server_tracking_received - tracking_sampled`. It returns 0 when the
  minimum is ≥ 0, and otherwise `-(min - Margin)`. An empty frame's minimum
  is `NaN`, which fails the `>= 0` test.
* `FixClientClockError` is the whole function. It adds `client_clock_error`
  (a scalar, or `m * tracking_sampled + c` per row) and subtracts it from
  every column of the code's `client_cols` list that the frame has.
* There is one action, `FixCall`. It models the caller that holds one run's
  frame and calls the function once with the `(m, c)` chosen in `Init`.
  `input` keeps the frame as it was before the in-place mutation, so
  properties can relate before and after.

### ClockDriftFit: `wvb_get_client_clock_error_fn`

* `data` is a sequence of passes, each a sequence of runs. A run is its
  `wvb_combine_all_times` output, reduced to `present_called`,
  `tracking_sampled` and `server_tracking_received`, in frame_id order.
* `pass_id` and `run_id` are the two loop indices. Each loop iteration is
  one action:
  * `CollectMin` appends the first least-error row, as `idxmin` does;
  * `EmptyRun` is the `idxmin` on an empty Series, which raises;
  * `CollectAll` concatenates all rows;
  * `NextPass` moves to the next pass and restarts `run_id` at 0;
  * `FitLine` drops duplicate times (keeping the first), sorts, and fits.
* `Polyfit` is `np.polyfit(time, -error, 1)` computed exactly over the
  rationals. The slope and intercept are numerators over a common
  denominator. For one point the system is rank deficient. numpy's lstsq
  then returns the minimum-norm solution of the column-scaled system, which
  is `m = y/2x, c = y/2`. Float rounding is left out.

### DelayNormalizer: `wvb_frame_times_to_delays`, `wvb_convert_time_to_delay`

* The measurement holds the driver, server and client frame tables.
  `CombineFrameTimes` keeps the columns that the rebase treats
  differently:
  * `frame_id` (exempt);
  * `present_called` (the base, anchored at the first row);
  * `vsync` (a driver time);
  * `tracking_sampled` and `end_frame` (client times).

  The inner and outer merges and the `fillna(0)` are as in TableCombiner.
  The outer merge sorts its keys, so rows come in frame_id order.
* `FrameTimesToDelays` is the whole function. When `m` and `c` are given,
  it applies ClockCorrection's `FixClientClockError` (taken by `INSTANCE`)
  to the combined frame. It then applies `ConvertTimeToDelay`, which uses
  the exempt list and the first-row anchor. One action,
  `FrameTimesToDelaysCall`, is one call.
* `MC_DelayNormalizer` also takes `ClockCorrection` by INSTANCE (`Fix`),
  with its variables renamed, so that a direct call of
  `wvb_fix_client_clock_error` is checked in the same run. An initial state
  gives one side any input and the other its smallest one.

### Aggregator: `wvb_average_table`

* A capture is one parsed dict reduced to the table that was asked for.
  It is `NoTable` when the dict lacks that table. Otherwise it is the
  table's single column, as a sequence whose position is its RangeIndex.
  The parser does no type inference, so the column holds text. The digits
  of a field are abstracted by their value.
* `build` is the pandas version, chosen in `Init` from `MeanOnText`:
  `ConcatText` (the object column's sum joins the strings, which `nanmean`
  then reads as one number), `DropText` (pandas 1 drops the non-numeric
  column, leaving no value) or `RaiseOnText` (pandas 2 raises `TypeError`).
* The variables are the loop's `k`, the concatenation `df` (rows carrying
  their index), `status` and `result`. The actions are:
  * `NoCaptures`, the raise on an empty list;
  * `MissingTable`, the raise;
  * `AddTable`, either the first assignment or `pd.concat`;
  * `Average`, the `groupby(df.index).mean()`, kept as `[sum, count]`
    where `sum` is what the build computes (`ConcatValue` joins the
    digits);
  * `MeanRaises`, the same call in the build that raises on text.

### PassSummary: `wvb_load_measurement_pass`, `wvb_combine_delays`, `wvb_avg_rtt`, `wvb_med_clock_error`

This module composes the pass loader with the three summaries that read the
list it returns. The per-run delay table comes from `DelayNormalizer` by
INSTANCE, so `wvb_combine_delays` uses the same combine and rebase that the
`delays` run checks.

* A file is a record: the pass its name carries (`None` for a name without
  the prefix), its extension, and what the parser makes of it. That is
  either `Malformed` (the parser raises) or a measurement: the frame tables
  of `DelayNormalizer` plus `network_measurements` (`NoTable` when the file
  has none). A field of the network table is the parser's text. The digits
  of an integer are abstracted by its value, and `""` is `Empty`.
* The variables are `dir`, the list `measurements`, and the outcome of each
  summary: `delays`, `rtt` and `clock_error`. An outcome is `None` before
  the call and `Raised` when the call raised.
* The actions are:
  * `LoadMeasurementPass`: the prefix and suffix filter, then every order
    `os.listdir` may give, then a raise when one file is malformed;
  * `CombineDelays`: `wvb_frame_times_to_delays(m)` per run, `concat`, and
    `groupby(frame_id).mean()` kept as a count and column sums. An empty
    pass raises `AttributeError` (`None.groupby`);
  * `AvgRttCall` and `MedClockErrorCall`: `KeyError` without the table, the
    `len(table) > 0` guard, `astype(int)` raising on an empty field before
    `dropna`, the mean or median kept as a rational, and `np.mean` of an
    empty list giving `NaN`.

### ImageMetrics: `wvb_load_rgba_image`, `wvb_psnr`

A caller (the evaluation notebooks, which are not in `src/`) loads a
reference frame and a decoded frame and compares them by PSNR.

* A file is its byte sequence. An image is the uint8 array of shape
  `(height, width, 4)`, a function from `<<y, x, channel>>` to `0..255`.
* `LoadRgbaImage` is the whole loader: the `ValueError` when the size is
  not `width * height * 4`, the row-major `Reshape`, and the alpha channel
  set to 255.
* `Mse` is `np.mean((image1 - image2) ** 2)`. numpy keeps both operations in
  uint8, so `U8` takes each result modulo 2^8. The mean is kept exact as
  `[num, den]`. `Psnr` is `Inf` when it is 0, and otherwise the MSE itself,
  since `20 log10(255 / sqrt(mse))` is strictly decreasing in it.
* The actions are `LoadImage(1)`, `LoadImage(2)` (a raise ends the caller)
  and `PsnrCall`.

### MC_Aggregation: one run for the Aggregator component

`MC_Aggregation` extends `MC_PassSummary` and takes `Aggregator` by
INSTANCE, with its `measurements` renamed `a_measurements`. It also defines
the captures. Either module may step
while the other keeps its state. Each initial state gives one module any of
its inputs and the other an empty capture list or an empty directory. The
run then has about the sum of the two state spaces rather than their
product. Its properties are those of the two modules, under the same names, except that Aggregator's type invariant is `AverageTableTypeOK`.

## Runs

| Run | Expect | What it shows |
|---|---|---|
| `parser` (`MC_MeasurementParser.cfg`) | pass | All 37,449 files of ≤5 lines over an 8-line alphabet. The loop refines the grammar after every line and always ends. Column names of stored tables are identifiers. |
| `parser_roundtrip` | violation | Spec 8's round trip fails. `a / a / --- / ...`: a one-column table whose value is `---` ends early, and the next row raises. |
| `combiner` (`MC_TableCombiner.cfg`) | pass | For every input over 2 frames and 2 poses, with and without client tracking, default mode returns exactly one row per frame with a usable access, carrying the maximal access before Present. No NaN row survives. keep_dropped mode returns exactly the frames with a usable access whose index is null (0) or repeats. Because the fill value 0 gives a frame the client never logged no pose to join on, that frame is never among them, although spec 4.2 wants dropped frames surfaced for loss analysis. |
| `combiner_keep_dropped` | violation | keep_dropped returns two rows for one frame with frame_index 0 and two accesses of its pose, against spec 3's at-most-one invariant. |
| `drift_fit` (`MC_ClockDriftFit.cfg`) | pass | For every data set of up to two runs of up to two frames, in one pass or two and in both modes: the min-of-run points are sorted, each is a run's least error, and every run is represented. The fit's denominator is never 0, including the one-point case. |
| `drift_fit_empty_run` | violation | One run without a usable frame makes `idxmin` raise, which aborts the fit for all runs. |
| `delays` (`MC_DelayNormalizer.cfg`) | pass | For two frames, each logged or not by each process, and with no drift model, an offset, or a slope: there is one row per logged frame. Every row, including frames some process missed, holds each stage's time on the driver clock minus its `present_called`, with the fill value 0 for a process that did not log the frame. The drift correction is computed from the absolute `tracking_sampled`. `client_clock_error` is rebased like a timestamp, and an unreached client stage holds `-correction - present_called`. In the same run (`Fix`, 136,416 states in all), `wvb_fix_client_clock_error` called directly on every frame of up to two rows, with errors from −2 to 2: the scalar correction leaves no row with `tracking_sampled > server_tracking_received` and does not touch a run that is already causal. |
| `aggregation` (`MC_Aggregation.cfg`) | pass | The two modules of the Aggregator component in one run (`MC_Aggregation` extends `MC_PassSummary` and takes `Aggregator` by INSTANCE). Each initial state gives one of them any of its inputs and the other its empty input, so the run has about the sum of the two state spaces and not their product (118,863 states). `wvb_average_table`: for every list of up to three captures, each holding a table of up to two rows or lacking it, and in every pandas build, the call fails whenever the list is empty or a table is missing. The pass summaries: for about 750 directories of pass 1 (no file; one or two files; or a file beside a file of pass 2, a `.txt` of pass 1 and an unprefixed name) and every listing order: `combine_delays` has one row per frame that some run has. That row is the mean over exactly those runs, and the call fails only for an empty pass. `avg_rtt` is the mean of the per-run mean rtts. It is `nan` when no run measured one, and it raises exactly when a table is missing or an rtt field is empty. `med_clock_error` is the mean of the per-run medians, with runs without rows skipped. |
| `average_table_text` (`MC_Aggregation_text.cfg`) | violation | A code bug. Spec 4.5's row means fail in every pandas build, because the parsed values are text: pandas 2 raises on any table, pandas 1 drops the column (one capture holding `10` gives no value), or it joins the strings (`10` and `20` give 1020 / 2 = 510). |
| `pass_summary_unreached` | violation | `combine_delays` averages a frame's `tracking_sampled` delay over every run that has the frame, including a run whose client never logged it. There the fill value 0 enters the mean as `-present_called`. |
| `psnr_wrap` (`MC_ImageMetrics.cfg`) | violation | A code bug. Two one-pixel frames that differ by 16 in one colour channel get PSNR `inf`, because the uint8 difference squared is 256, which wraps to 0. Every pixel difference that is a multiple of 16 is ignored in this way, and others are undercounted (a difference of 255 counts as 1). |
| `delays_anchor` | violation | A frame logged only by the client, and sorting first, anchors `present_called` at its fill value 0. No driver frame is then rebased to the start of the capture. |

Bounds:

* Parser. Column lists of width 1 and 2 meet value lines of 1, 2 and 3
  fields. An invalid name occurs in the first and in the second column.
  Files have separators before, between and after tables, repeated names,
  and end inside every state. Five lines are enough for a table to be
  redefined, or for a table to be followed by the start of another.
* Combiner. `present_called ∈ {2,3}` and `pose_accessed ∈ 1..3`, so an
  access can fall before, at and after Present. Up to two accesses allow
  two accesses of one frame's pose, a repeated access, and one access per
  pose. Two frames can share a pose. The server tracking table varies, and
  the driver's holds every pose (both are plain inner-join filters). The
  client tracking table varies only when the caller asks for it, because
  the function never reads it otherwise. `frame_index ∈ {0, 1}` in
  keep_dropped mode gives null, unique and repeated indexes. Default mode,
  which never reads the index, sees only 0, and keep_dropped mode runs
  without client tracking, which only narrows the poses before the
  deduplication.

* Clock correction. With `tracking_sampled`, `server_tracking_received ∈
  0..2`, the per-row error ranges over −2..2. So the minimum is negative,
  exactly 0 (the no-correction boundary) or positive. `end_frame` stands for
  the other client columns and `present_called` for the columns that must
  not move. The drift arguments are none, a slope of 1 with no offset, an
  offset only, and a slope of 2 with an offset.
* Drift fit. Two runs, either in one pass or in two passes, cover both
  loop levels. Two frames per run give a run two candidate minima (a tie
  included). Times in {1, 2} let two runs' minima fall on one time, which
  exercises `drop_duplicates`. `tracking_sampled = 0` gives the filtered
  frame and the empty run. A pass of two runs followed by a pass without
  a file, and the reverse, give passes of unequal length.
* Delays. Two frames, each in or out of the driver, server and client
  tables, produce client-only, driver-only and fully logged frames in
  either order. The slope of 2 separates correcting before rebasing from
  correcting after it.

* Aggregator. Three captures let a missing table come first, in the
  middle or last, and tables of length 0, 1 and 2 give positions reached by
  some captures only. Values 10 and 20 have two digits, so joining them
  differs from adding them. All three pandas builds are explored.

* Pass summary. Three frame patterns cover the cases of the join: all
  three processes log both frames, the client misses frame 2, and frame 1
  is logged by the client alone. Six network tables cover the branches of
  the statistics: no table, no row, one row, two rows (an even count for
  the median), an empty rtt and an empty clock_error. Two files of the
  pass, with every pair of contents, give two listing orders and runs that
  share a frame. The 4-file directories hold one run of the pass plus a
  file of another pass, a `.txt` file and an unprefixed name.

Fairness: the parser and the averaging loop are each one thread that runs
to the end of its input, so weak fairness of `Next` is what the code does
(the parser's refinement needs it). The drift-fit loop has no liveness
property: a Python `for` over a finite list always ends. The combiner, correction, delay, loader and summary calls are single steps that return, so
they need no fairness. Final states are returns, which
is why deadlock checking is off.

Each property of a passing run has a mutant in `PROJECT.json`, a plausible
bug under which TLC finds the property violated:

* only the first column name checked;
* the `[:n_cols]` slice dropped;
* the filter written as `~(a > b)`, which keeps NaN rows;
* `keep="first"`;
* the `client_clock_error` column never assigned;
* the 500 µs margin added with the wrong sign;
* `end_frame` missing from `client_cols`;
* `frame_id` missing from the exempt list;
* the rebase done before the correction;
* the closed form used for a single point;
* `idxmax` for `idxmin`;
* the index counted from 1;
* a capture without the table skipped;
* the `frame_index == 0` to NaN step left out of keep_dropped;
* `df = df2`, dropping the `concat` in `wvb_combine_delays`;
* `frame_id` kept among the averaged columns;
* the empty fields dropped before `astype(int)`;
* the `len(table) > 0` guard dropped in `wvb_med_clock_error`.

## Not modelled

* The driver CLI. Each command is one `subprocess.run` of the vendor
  `vrpathreg` tool, preceded by checks on files and directories. The only
  state is SteamVR's driver registry, which lives in that tool. Its
  behaviour (what `adddriver` does with a path that is already registered,
  and whether `removedriverswithname` fails when no driver matches) is not
  in the repository or the spec. A model of it would check assumptions
  rather than this code.
* Plotting is presentation. `wvb_ssim` is one call of skimage's
  `structural_similarity`, whose algorithm is the library's.
* `strip()` and whitespace are not modelled: lines are already-stripped
  token sequences.
* `np.polyfit` is computed exactly, so its float64 rounding is not modelled.
* `wvb_average_table`'s comment says string columns keep their first value.
  The code has no such branch: every column reaches `.mean()`, whose result
  on text is modelled per pandas build.
* File names are records of (pass, extension), not strings. Prefix
  matching on the pass number is exact, since `_` follows it, so
  `pass_1_` never matches `pass_11_`. The run part of the name is never
  read.
* The parser does no type inference. Values stay text, and the combiner
  works on the integers that `astype('int64')` produces.

## Plan

The modules are listed in order of importance.

1. `MeasurementGrammar` + `MeasurementParser`: done.
2. `TableCombiner`: done, both modes of `wvb_combine_all_times` included.
3. `ClockCorrection` and `ClockDriftFit`: done. Still to add: composing
   `ClockDriftFit` with `TableCombiner!CombineAll` by INSTANCE, so that a
   run is built from raw tables rather than given as combined rows.
4. `DelayNormalizer`: done, including the composition with ClockCorrection.
5. `Aggregator` and `PassSummary`: done. The pass loader and the three
   pass summaries are composed, and combine_delays goes through
   `DelayNormalizer`.
6. `Pipeline`. Still to add: composing parser → combiner → clock → normalizer for one
   pass of runs, with the run order taken from the directory listing
   (`wvb_load_measurement_pass`).
7. `ImageMetrics`: done. It models the loader and `wvb_psnr`, and its
   run shows the uint8 wrap in the MSE.
