--------------------------- MODULE MCFaceBlending ---------------------------
EXTENDS FaceBlending

(* For the rectangles: a wide and a high frame; faces of two shapes, one   *)
(* with a quarter that is wider than the border, inside of the frame,      *)
(* across and outside.                                                     *)
Wide == [cols |-> 12, rows |-> 7]
High == [cols |-> 6, rows |-> 9]

FacesAround ==
  { Rect(x, y, s[1], s[2]) :
      x \in -8 .. 13, y \in {-6, -1, 0, 4, 8}, s \in {<<4, 4>>, <<7, 13>>} }

(* For the feather: a row of one grey, faces of another, and rectangles    *)
(* with a quarter of one, two and four pixels.                             *)
Row == [cols |-> 20, rows |-> 1]
FacesInRow == {Rect(x, 0, w, 1) : x \in {-3, 0, 2, 7, 13}, w \in {4, 8, 16}}
Grey(g) == [p \in 1 .. 20 |-> g]

(* For the colours: three pixels of any colour, faces on some of them. *)
Pixel3 == [cols |-> 3, rows |-> 1]
FacesInThree == {Rect(x, 0, w, 1) : x \in {-1, 0, 1}, w \in {2, 3}}

FramesMC == {Wide, High, Row, Pixel3}
FacesMC == FacesAround \cup FacesInRow \cup FacesInThree

ScenesMC ==
  {[frame |-> f, rects |-> FacesAround, feathers |-> {1},
    pictures |-> {NoPixels}, faces |-> {NoPixels}] : f \in {Wide, High}}
  \cup
  {[frame |-> Row, rects |-> FacesInRow, feathers |-> 1 .. 4,
    pictures |-> {Grey(0), Grey(255)}, faces |-> {Grey(0), Grey(255)}],
   [frame |-> Pixel3, rects |-> FacesInThree, feathers |-> {1},
    pictures |-> [1 .. 3 -> {0, 100, 101, 255}], faces |-> [1 .. 3 -> {0, 100, 255}]]}
=============================================================================
