------------------------ MODULE MC_MeasurementParser -------------------------
(***************************************************************************)
(* Every file of up to MaxLines lines built from a small alphabet of       *)
(* lines: the separator, an empty line, one-field lines (two identifiers   *)
(* and a number) and lines of two and three fields, so that column lists  *)
(* of width 1 and 2 meet value lines with fewer, as many and more fields,  *)
(* and a column list with a non-identifier in its second place.           *)
(***************************************************************************)
EXTENDS MeasurementParser

MCIdents == {"a", "b"}
MCFields == {"a", "b", "1", "", "---"}
MCLines ==
  { <<"---">>, <<"">>, <<"a">>, <<"b">>, <<"1">>,
    <<"a", "b">>, <<"a", "1">>, <<"1", "1", "1">> }
=============================================================================
