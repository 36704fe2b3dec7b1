---------------------------- MODULE MCFaceSwapper ----------------------------
EXTENDS FaceSwapper

(* Faces of two sizes, some of them cut off by the border of the crop. *)
HullsMC == {[lo |-> x, hi |-> x + w] : x \in 0 .. 3, w \in 1 .. 2}

(* No line, the left or right edge of a rectangle, both, and its upper edge. *)
OutlinesMC == {{}, {2}, {1, 4}, {1, 2, 3}}
=============================================================================
