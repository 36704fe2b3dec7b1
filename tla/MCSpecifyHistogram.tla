------------------------- MODULE MCSpecifyHistogram -------------------------
(* Model checking of SpecifyHistogram, which has no parameters: every      *)
(* place the needle can have among the 256 levels.                         *)
EXTENDS SpecifyHistogram
=============================================================================
