--------------------------- MODULE MC_Aggregation -----------------------------
(***************************************************************************)
(* The Aggregator component in one run: the pass loader and the three     *)
(* cross-run summaries (PassSummary, with the directories of              *)
(* MC_PassSummary, extended here) beside wvb_average_table (Aggregator,   *)
(* taken by INSTANCE).  The two share no state, and any of their steps   *)
(* may interleave.  So that the run explores about the sum of the two     *)
(* state spaces, not their product, each initial state gives one module  *)
(* any of its inputs and the other its smallest one: an empty capture     *)
(* list or an empty directory, whose few steps still interleave with the *)
(* first.                                                                  *)
(***************************************************************************)
EXTENDS MC_PassSummary

CONSTANTS
  Captures, Values, MaxRows,
  MeanOnText, ConcatText, DropText, RaiseOnText

VARIABLES
  a_measurements, k, df, status, result, build   \* wvb_average_table

avars   == <<a_measurements, k, df, status, result, build>>
allvars == <<avars, vars>>

A == INSTANCE Aggregator WITH measurements <- a_measurements

\* Up to three captures, each lacking the table or holding a table of up
\* to two rows of 10 or 20: tables of different lengths, a missing table
\* first, in the middle and last.
MCTables == BoundedSeq({10, 20}, 2)

MCCaptures == BoundedSeq(MCTables \cup {NoTable}, 3)

MCInit ==
  /\ A!Init
  /\ Init
  /\ a_measurements = <<>> \/ dir = {}

MCNext ==
  \/ A!Next /\ UNCHANGED vars
  \/ Next /\ UNCHANGED avars

\* wvb_average_table's loop runs to its end (see Aggregator).
MCSpec == MCInit /\ [][MCNext]_allvars /\ WF_avars(A!Next)

-----------------------------------------------------------------------------
(* The properties of Aggregator; those of PassSummary are extended.       *)

\* Aggregator's type invariant.
AverageTableTypeOK == A!TypeOK

\* wvb_average_table raises, in every build, when the list is empty or a
\* capture lacks the table: no capture is silently left out.
FailsIfTableMissing == A!FailsIfTableMissing

\* Spec 4.5: wvb_average_table's result row x is the numeric mean over the
\* captures whose table reaches position x.
RowMeans == A!RowMeans
====
