-------------------------- MODULE MeasurementParser ---------------------------
(***************************************************************************)
(* wvb_load_measurements (src/tools/wvb_measurements.py): the three-state  *)
(* loop that reads a measurement file line by line into a dict from table  *)
(* name to DataFrame.                                                      *)
(*                                                                         *)
(* A line is modelled as its stripped text split at commas: a sequence of  *)
(* field tokens.  The whole line equals "---" exactly when it is the       *)
(* one-field sequence <<Separator>>, and line.isidentifier() holds exactly *)
(* when it has one field and that field is an identifier token.  A table  *)
(* is [columns, rows]; every value stays a text token (the parser does no  *)
(* type conversion).  One action per branch of the loop; a raise is an     *)
(* action that ends the run with status "error".                           *)
(***************************************************************************)
EXTENDS Naturals, Sequences, SequencesExt

CONSTANTS
  Idents,       \* identifier field tokens (table and column names)
  Fields,       \* all field tokens, Idents and Separator included
  Separator,    \* the field token "---"
  Lines,        \* the lines a file is made of (sequences of Fields)
  MaxLines,     \* bound on the length of a file
  None,         \* Python's None
  FormatError   \* the outcome of a raised ValueError

ASSUME Idents \subseteq Fields /\ Separator \in Fields \ Idents
ASSUME Lines \subseteq Seq(Fields) \ {<<>>}
ASSUME MaxLines \in Nat

EXPECTING_TABLE_NAME   == 0
EXPECTING_COLUMN_NAMES == 1
EXPECTING_VALUES       == 2

VARIABLES
  file,          \* the lines of the file being read
  pos,           \* how many lines the for loop has consumed
  state,
  table_name,
  n_cols,
  columns,
  measurements,  \* table name -> [columns |-> ..., rows |-> ...]
  status         \* "running", "done" (returned) or "error" (raised)

vars == <<file, pos, state, table_name, n_cols, columns, measurements, status>>

SeparatorLine == <<Separator>>

\* str.isidentifier() of a whole stripped line.
IsIdentifier(line) == Len(line) = 1 /\ line[1] \in Idents

\* Mutant: the slice left out.
Untruncated(values, n) == values

\* values[:n_cols]
Truncated(values, n) == IF Len(values) <= n THEN values ELSE SubSeq(values, 1, n)

\* The loop body runs on the next line while the function has not returned.
Line == file[pos + 1]

ReadLine ==
  /\ status = "running"
  /\ pos < Len(file)
  /\ pos' = pos + 1

Raise ==
  /\ status' = "error"
  /\ UNCHANGED <<state, table_name, n_cols, columns, measurements>>

ParserInit(Files) ==
  /\ file \in Files
  /\ pos = 0
  /\ state = EXPECTING_TABLE_NAME
  /\ table_name = None
  /\ n_cols = None
  /\ columns = None
  /\ measurements = [n \in {} |-> None]
  /\ status = "running"

-----------------------------------------------------------------------------
(* EXPECTING_TABLE_NAME                                                    *)

SkipSeparator ==
  /\ ReadLine
  /\ state = EXPECTING_TABLE_NAME
  /\ Line = SeparatorLine
  /\ UNCHANGED <<file, state, table_name, n_cols, columns, measurements, status>>

InvalidTableName ==
  /\ ReadLine
  /\ state = EXPECTING_TABLE_NAME
  /\ Line # SeparatorLine
  /\ ~IsIdentifier(Line)
  /\ Raise
  /\ UNCHANGED file

ReadTableName ==
  /\ ReadLine
  /\ state = EXPECTING_TABLE_NAME
  /\ Line # SeparatorLine
  /\ IsIdentifier(Line)
  /\ table_name' = Line[1]
  /\ state' = EXPECTING_COLUMN_NAMES
  /\ UNCHANGED <<file, n_cols, columns, measurements, status>>

-----------------------------------------------------------------------------
(* EXPECTING_COLUMN_NAMES                                                  *)

\* Mutant: only the first column name checked.
FirstColumnValid(cols) == cols[1] \in Idents

\* The loop over the columns raises at the first one that is not an
\* identifier; only whether one exists matters.
ColumnsValid(cols) == \A i \in DOMAIN cols : cols[i] \in Idents

InvalidColumnName ==
  /\ ReadLine
  /\ state = EXPECTING_COLUMN_NAMES
  /\ ~ColumnsValid(Line)
  /\ Raise
  /\ UNCHANGED file

\* n_cols = len(columns) is set before the names are checked; the check
\* raises, so the value is never seen after a failure.
ReadColumnNames ==
  /\ ReadLine
  /\ state = EXPECTING_COLUMN_NAMES
  /\ ColumnsValid(Line)
  /\ columns' = Line
  /\ n_cols' = Len(Line)
  /\ measurements' = (table_name :> [columns |-> Line, rows |-> <<>>]) @@ measurements
  /\ state' = EXPECTING_VALUES
  /\ UNCHANGED <<file, table_name, status>>

-----------------------------------------------------------------------------
(* EXPECTING_VALUES                                                        *)

EndTable ==
  /\ ReadLine
  /\ state = EXPECTING_VALUES
  /\ Line = SeparatorLine
  /\ state' = EXPECTING_TABLE_NAME
  /\ UNCHANGED <<file, table_name, n_cols, columns, measurements, status>>

InvalidValueCount ==
  /\ ReadLine
  /\ state = EXPECTING_VALUES
  /\ Line # SeparatorLine
  /\ Len(Truncated(Line, n_cols)) # n_cols
  /\ Raise
  /\ UNCHANGED file

\* Both the first-row branch (a new DataFrame built from [values]) and the
\* .loc[len(...)] branch append the row to the table.
ReadValues ==
  /\ ReadLine
  /\ state = EXPECTING_VALUES
  /\ Line # SeparatorLine
  /\ Len(Truncated(Line, n_cols)) = n_cols
  /\ measurements' = [measurements EXCEPT ![table_name].rows =
                        Append(@, Truncated(Line, n_cols))]
  /\ UNCHANGED <<file, state, table_name, n_cols, columns, status>>

-----------------------------------------------------------------------------

\* The for loop runs out of lines: the with block closes the file and the
\* dict is returned, whatever state the loop is in.
EndOfFile ==
  /\ status = "running"
  /\ pos = Len(file)
  /\ status' = "done"
  /\ UNCHANGED <<file, pos, state, table_name, n_cols, columns, measurements>>

Next ==
  \/ SkipSeparator \/ InvalidTableName \/ ReadTableName
  \/ InvalidColumnName \/ ReadColumnNames
  \/ EndTable \/ InvalidValueCount \/ ReadValues
  \/ EndOfFile

Init == ParserInit(BoundedSeq(Lines, MaxLines))

\* The loop never blocks: a single thread runs it to the end of the file.
Spec == Init /\ [][Next]_vars /\ WF_vars(Next)

-----------------------------------------------------------------------------
(* Properties                                                              *)

Table == [columns : Seq(Idents), rows : Seq(Seq(Fields))]

\* Types; in particular a stored table's column names are all identifiers.
TypeOK ==
  /\ file \in Seq(Lines)
  /\ pos \in 0..Len(file)
  /\ state \in {EXPECTING_TABLE_NAME, EXPECTING_COLUMN_NAMES, EXPECTING_VALUES}
  /\ table_name \in Idents \cup {None}
  /\ n_cols \in Nat \cup {None}
  /\ columns \in Seq(Idents) \cup {None}
  /\ DOMAIN measurements \subseteq Idents
  /\ \A n \in DOMAIN measurements : measurements[n] \in Table
  /\ status \in {"running", "done", "error"}

\* The parser implements the grammar of spec 4.1: after every line it has
\* read, the dict it holds (or the error it raised) is the meaning of the
\* lines read so far, and it always reaches the end of the file or an error.
Grammar == INSTANCE MeasurementGrammar
             WITH consumed <- pos,
                  outcome  <- IF status = "error" THEN FormatError ELSE measurements

GrammarSpec == Grammar!Spec

=============================================================================
