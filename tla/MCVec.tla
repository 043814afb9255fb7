---------------------------------- MODULE MCVec ----------------------------------
(***************************************************************************)
(* Model-checking instance of Vec: two stored values, counts up to 3, so  *)
(* that growth rounds 3 up to 4 and shrinks produce sizes 1 and 3.         *)
(***************************************************************************)
EXTENDS Vec

CONSTANTS a, b, zero, undef

ValsAB == {a, b}
================================================================================
