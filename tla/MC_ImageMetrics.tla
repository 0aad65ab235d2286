-------------------------- MODULE MC_ImageMetrics -----------------------------
(***************************************************************************)
(* One-pixel frames (4 bytes) and files of 3 or 4 bytes, the first of the *)
(* wrong size.  Bytes 0, 1 and 16 give equal pixels, a difference of 1   *)
(* and a difference of 16, whose square is 256.                          *)
(***************************************************************************)
EXTENDS ImageMetrics

MCFiles == UNION {[1..n -> {0, 1, 16}] : n \in {3, 4}}
====
