------------------------- MODULE MCFaceSwapActivity -------------------------
(* Model checking of FaceSwapActivity: the loader of a destroyed activity  *)
(* beside the current one, and frames enough to use each Mat twice.        *)
EXTENDS FaceSwapActivity, TLC

CONSTANTS l1, l2

MCLoaders == {l1, l2}

MCSymmetry == Permutations(MCLoaders)
=============================================================================
