-------------------------- MODULE MeasurementGrammar --------------------------
(***************************************************************************)
(* What a WVB measurement file means, stated as the spec's grammar         *)
(* (spec section 4.1), not as the parser's loop:                           *)
(*                                                                         *)
(*   file       := (separator? table)*                                     *)
(*   table      := identifier NEWLINE column_list NEWLINE value_line*      *)
(*   value_line := value (',' value)*   -- ended by a "---" line or EOF    *)
(*                                                                         *)
(* A line is the sequence of its comma-separated fields.  A table is a     *)
(* whole block, cut at the next separator line; a value line with fewer    *)
(* fields than the column list is a FormatError, extra fields are dropped. *)
(* A file that ends after a table name holds no table of that name.  A     *)
(* later table of the same name replaces the earlier one (the result is a  *)
(* mapping from name to table).                                            *)
(*                                                                         *)
(* The abstract machine reads the file one line at a time; after i lines   *)
(* its outcome is the meaning of the first i lines, and it stops at the    *)
(* first prefix that is already malformed.                                 *)
(***************************************************************************)
EXTENDS Naturals, Sequences, TLC

CONSTANTS
  Idents,       \* field tokens that are identifiers
  Separator,    \* the field token "---"
  FormatError   \* the outcome of a malformed file

VARIABLES
  file,         \* the lines of the file
  consumed,     \* how many lines have been read
  outcome       \* table name -> [columns, rows], or FormatError

vars == <<file, consumed, outcome>>

IsIdentLine(l) == Len(l) = 1 /\ l[1] \in Idents

AllIdents(l) == \A i \in DOMAIN l : l[i] \in Idents

NoTables == [n \in {} |-> <<>>]

\* The index of the first separator line at or after i (Len(f) + 1 if none).
RECURSIVE BlockEnd(_, _)
BlockEnd(f, i) ==
  IF i > Len(f) \/ f[i] = <<Separator>> THEN i ELSE BlockEnd(f, i + 1)

\* The tables of the lines f, added to the tables acc already read.
RECURSIVE Tables(_, _)
Tables(f, acc) ==
  IF f = <<>> THEN acc
  ELSE IF Head(f) = <<Separator>> THEN Tables(Tail(f), acc)
  ELSE IF ~IsIdentLine(Head(f)) THEN FormatError
  ELSE IF Len(f) = 1 THEN acc
  ELSE LET cols == f[2]
           end  == BlockEnd(f, 3)
           body == SubSeq(f, 3, end - 1)
           tbl  == [columns |-> cols,
                    rows    |-> [i \in DOMAIN body |-> SubSeq(body[i], 1, Len(cols))]]
       IN  IF ~AllIdents(cols) \/ \E i \in DOMAIN body : Len(body[i]) < Len(cols)
           THEN FormatError
           ELSE Tables(SubSeq(f, end + 1, Len(f)), (Head(f)[1] :> tbl) @@ acc)

Meaning(f) == Tables(f, NoTables)

Init ==
  /\ consumed = 0
  /\ outcome = Meaning(<<>>)

ReadLine ==
  /\ outcome # FormatError
  /\ consumed < Len(file)
  /\ consumed' = consumed + 1
  /\ outcome' = Meaning(SubSeq(file, 1, consumed + 1))
  /\ UNCHANGED file

Spec == Init /\ [][ReadLine]_vars /\ WF_vars(ReadLine)

=============================================================================
