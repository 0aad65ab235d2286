------------------------------ MODULE Aggregator ------------------------------
(***************************************************************************)
(* wvb_average_table (src/tools/wvb_measurements.py): the loop over the   *)
(* captures that raises on a missing table and concatenates the others,   *)
(* then the mean of each row index over the captures.                     *)
(*                                                                         *)
(* A capture is the dict of one parsed file, reduced to the table asked   *)
(* for: NoTable when the dict lacks it, else the table's one column as a  *)
(* sequence (its RangeIndex is the position, from 0).  The parser stores  *)
(* text and nothing here converts it, so a value is the digit string of   *)
(* an integer, abstracted by that integer.  What .mean() makes of an      *)
(* object column depends on the pandas the analysis runs on; the build is *)
(* drawn from MeanOnText (see GroupMean).                                  *)
(***************************************************************************)
EXTENDS Integers, Sequences, SequencesExt, FiniteSets

CONSTANTS
  Captures,     \* the capture lists a caller may pass
  Values,       \* the values a table's column holds
  MaxRows,      \* bound on the rows of one table
  NoTable,      \* a capture whose dict lacks table_name
  MeanOnText,   \* the builds: {ConcatText, DropText, RaiseOnText}
  ConcatText, DropText, RaiseOnText,
  None

VARIABLES
  measurements, \* the captures, in the caller's (directory) order
  k,            \* how many captures the for loop has consumed
  df,           \* the concatenation so far: a sequence of [index, value]
  status,       \* "running", "done" (returned) or "error" (raised)
  result,       \* index -> [sum, count]; None before the return
  build         \* how this pandas averages a text column

vars == <<measurements, k, df, status, result, build>>

\* Mutant: the index counted from 1.
ConcatOneBased(acc, t) == acc \o [i \in DOMAIN t |-> [index |-> i, value |-> t[i]]]

\* pd.concat appends the rows of one more table, keeping their index.
Concat(acc, t) == acc \o [i \in DOMAIN t |-> [index |-> i - 1, value |-> t[i]]]

RECURSIVE Digits(_)
Digits(v) == IF v < 10 THEN 1 ELSE 1 + Digits(v \div 10)

\* Series.mean of text: sum() concatenates the strings in row order, and
\* nanmean's _ensure_numeric reads the concatenation as a number.
ConcatValue(vals) == FoldLeft(LAMBDA acc, v : acc * 10^Digits(v) + v, 0, vals)

\* df.groupby(df.index).mean() on the text column, for a build that does
\* not raise: one group per index; pandas 1.x either drops the column
\* (numeric_only, the group keeps no value) or falls back to Series.mean.
GroupMean(acc) ==
  LET idx == {acc[i].index : i \in DOMAIN acc}
      vals(x) == [j \in DOMAIN SelectSeq(acc, LAMBDA r : r.index = x) |->
                    SelectSeq(acc, LAMBDA r : r.index = x)[j].value]
  IN  [x \in idx |-> [sum   |-> IF build = DropText THEN None ELSE ConcatValue(vals(x)),
                      count |-> Len(vals(x))]]

Init ==
  /\ measurements \in Captures
  /\ k = 0
  /\ df = None
  /\ status = "running"
  /\ result = None
  /\ build \in MeanOnText

\* if len(measurements) == 0: raise ValueError
NoCaptures ==
  /\ status = "running"
  /\ k = 0
  /\ measurements = <<>>
  /\ status' = "error"
  /\ UNCHANGED <<measurements, k, df, result, build>>

Capture == measurements[k + 1]

\* Mutant: a capture without the table skipped instead of raising.
SkipMissing ==
  /\ status = "running"
  /\ k < Len(measurements)
  /\ Capture = NoTable
  /\ k' = k + 1
  /\ UNCHANGED <<measurements, df, status, result, build>>

\* if table_name not in m: raise ValueError
MissingTable ==
  /\ status = "running"
  /\ k < Len(measurements)
  /\ Capture = NoTable
  /\ status' = "error"
  /\ UNCHANGED <<measurements, k, df, result, build>>

\* df = m[table_name] the first time, pd.concat([df, m[table_name]]) after.
AddTable ==
  /\ status = "running"
  /\ k < Len(measurements)
  /\ Capture # NoTable
  /\ df' = Concat(IF df = None THEN <<>> ELSE df, Capture)
  /\ k' = k + 1
  /\ UNCHANGED <<measurements, status, result, build>>

\* After the loop: the group-by mean is returned ...
Average ==
  /\ status = "running"
  /\ measurements # <<>>
  /\ k = Len(measurements)
  /\ build # RaiseOnText \/ df \in {None, <<>>}
  /\ result' = GroupMean(IF df = None THEN <<>> ELSE df)
  /\ status' = "done"
  /\ UNCHANGED <<measurements, k, df, build>>

\* ... or, in pandas 2, the mean of a text group raises TypeError.
MeanRaises ==
  /\ status = "running"
  /\ measurements # <<>>
  /\ k = Len(measurements)
  /\ build = RaiseOnText
  /\ df \notin {None, <<>>}
  /\ status' = "error"
  /\ UNCHANGED <<measurements, k, df, result, build>>

\* Mutant: the loop skips captures that lack the table.
ReadCaptureSkipping == SkipMissing \/ AddTable

ReadCapture == MissingTable \/ AddTable

Next == NoCaptures \/ ReadCapture \/ Average \/ MeanRaises

\* One thread runs the loop to the end.
Spec == Init /\ [][Next]_vars /\ WF_vars(Next)

-----------------------------------------------------------------------------
(* Properties                                                              *)

TypeOK ==
  /\ k \in 0..Len(measurements)
  /\ df \in Seq([index : 0..(MaxRows - 1), value : Values]) \cup {None}
  /\ status \in {"running", "done", "error"}
  /\ (result # None) <=> (status = "done")
  /\ build \in MeanOnText

Tables == {i \in DOMAIN measurements : measurements[i] # NoTable}

\* Spec 4.5 and 7: a capture is never silently left out of the average:
\* when the capture list is empty or some capture lacks the table, the
\* call raises, whatever the build.  (It may raise otherwise too.)
FailsIfTableMissing ==
  (status # "running" /\ (measurements = <<>> \/ Tables # DOMAIN measurements))
    => status = "error"

\* Spec 4.5, row-index-aligned averaging: the result has a row for every
\* position some capture's table has, and that row is the mean over the
\* captures whose table reaches that position.
RowMeans ==
  status = "done" =>
    LET reach(x) == {i \in Tables : Len(measurements[i]) > x}
    IN  /\ DOMAIN result = {x \in 0..(MaxRows - 1) : reach(x) # {}}
        /\ \A x \in DOMAIN result :
             /\ result[x].count = Cardinality(reach(x))
             /\ result[x].sum = FoldSet(LAMBDA i, s : s + measurements[i][x + 1], 0, reach(x))

====
