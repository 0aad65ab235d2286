------------------------- MODULE MC_ParserRoundTrip --------------------------
(***************************************************************************)
(* Spec section 8: serializing a table back to the format of 4.1 and      *)
(* parsing it again gives back the same column names and the same row     *)
(* values, as strings.  The parser is run on the serialization of every   *)
(* table of one or two columns and up to two rows whose values are drawn  *)
(* from the field tokens.                                                 *)
(***************************************************************************)
EXTENDS MeasurementParser

MCIdents == {"a", "b"}
MCFields == {"a", "b", "1", "", "---"}
MCLines  == [1..1 -> MCFields] \cup [1..2 -> MCFields]

RTColumns == {<<"a">>, <<"a", "b">>}

RTTables ==
  UNION { [columns : {c}, rows : BoundedSeq([1..Len(c) -> MCFields], 2)] : c \in RTColumns }

\* The table named "a", written as the spec's grammar lays it out.
Serialize(t) == <<<<"a">>, t.columns>> \o t.rows \o <<SeparatorLine>>

RTInit == ParserInit({Serialize(t) : t \in RTTables})

RTSpec == RTInit /\ [][Next]_vars /\ WF_vars(Next)

\* Once wvb_load_measurements has returned or raised, it has returned
\* exactly the table that was serialized.
RoundTrip ==
  status # "running" =>
    \E t \in RTTables : file = Serialize(t) /\ status = "done" /\ measurements = ("a" :> t)
=============================================================================
