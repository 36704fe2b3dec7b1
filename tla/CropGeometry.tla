---------------------------- MODULE CropGeometry ----------------------------
(***************************************************************************)
(* getCroppedFrame (FaceSwapper.cpp): the rectangles that every later step *)
(* of nativeSwapFaces cuts out of the frame.  A cut that leaves its image  *)
(* makes OpenCV throw, and nothing between it and the JVM catches.         *)
(*                                                                         *)
(* The tracker extrapolates the way of a face, so a rectangle it reports   *)
(* may lie at the border of the frame, across it, or outside of it.        *)
(***************************************************************************)
EXTENDS Integers

CONSTANTS
  Frames,   \* the sizes a frame may have: records [cols, rows]
  Faces,    \* the rectangles the tracker may report
  Border    \* what the crop is wider than the faces, on each side: 50

ASSUME CropAssumption ==
  /\ Frames \subseteq [cols : Nat, rows : Nat]
  /\ Faces \subseteq [x : Int, y : Int, width : Nat, height : Nat]
  /\ Border \in Nat

VARIABLES
  frame,                                \* the size of the frame
  rect1, rect2,                         \* the two faces, in the frame
  bounding_rect,                        \* the crop, in the frame
  rect_face1, rect_face2,               \* the faces, in the crop
  big_rect_face1, big_rect_face2,       \* what is cut for them, in the crop
  pc                                    \* "detected", "cropped"

vars == <<frame, rect1, rect2, bounding_rect, rect_face1, rect_face2,
          big_rect_face1, big_rect_face2, pc>>

-----------------------------------------------------------------------------
(* cv::Rect, as OpenCV defines its operators. *)

Rect(x, y, w, h) == [x |-> x, y |-> y, width |-> w, height |-> h]

NoRect == Rect(0, 0, 0, 0)

Larger(a, b) == IF a >= b THEN a ELSE b
Smaller(a, b) == IF a <= b THEN a ELSE b

Right(r) == r.x + r.width
Bottom(r) == r.y + r.height

(* a | b *)
Hull(a, b) ==
  LET x == Smaller(a.x, b.x)
      y == Smaller(a.y, b.y)
  IN  Rect(x, y, Larger(Right(a), Right(b)) - x, Larger(Bottom(a), Bottom(b)) - y)

(* a & b; an empty intersection is the rectangle of zeros *)
Meet(a, b) ==
  LET x == Larger(a.x, b.x)
      y == Larger(a.y, b.y)
      w == Smaller(Right(a), Right(b)) - x
      h == Smaller(Bottom(a), Bottom(b)) - y
  IN  IF w <= 0 \/ h <= 0 THEN NoRect ELSE Rect(x, y, w, h)

(* r - Point(dx, dy) and r + Size(dw, dh) *)
Moved(r, dx, dy) == Rect(r.x - dx, r.y - dy, r.width, r.height)
Grown(r, dw, dh) == Rect(r.x, r.y, r.width + dw, r.height + dh)

(* cv::Rect(0, 0, cols, rows), and what cv::Mat asserts of a cut *)
Whole(cols, rows) == Rect(0, 0, cols, rows)

CutOk(r, cols, rows) ==
  /\ 0 <= r.x /\ 0 <= r.width /\ Right(r) <= cols
  /\ 0 <= r.y /\ 0 <= r.height /\ Bottom(r) <= rows

-----------------------------------------------------------------------------
(* A mutant: the crop is not clipped. *)
CropUnclipped(f, a, b) == Grown(Moved(Hull(a, b), Border, Border), 2 * Border, 2 * Border)

(* A mutant: the crop is moved but does not grow. *)
CropUngrown(f, a, b) == Meet(Moved(Hull(a, b), Border, Border), Whole(f.cols, f.rows))

Crop(f, a, b) ==
  Meet(Grown(Moved(Hull(a, b), Border, Border), 2 * Border, 2 * Border),
       Whole(f.cols, f.rows))

(* Half a face larger, a quarter on each side.  The sizes are not          *)
(* negative, so C++ and \div round alike.                                  *)
Surroundings(face) ==
  Grown(Moved(face, face.width \div 4, face.height \div 4),
        face.width \div 2, face.height \div 2)

(* ... inside of the crop. *)
Big(face, crop) == Meet(Surroundings(face), Whole(crop.width, crop.height))

Init ==
  /\ frame \in Frames /\ rect1 \in Faces /\ rect2 \in Faces
  /\ bounding_rect = NoRect
  /\ rect_face1 = NoRect /\ rect_face2 = NoRect
  /\ big_rect_face1 = NoRect /\ big_rect_face2 = NoRect
  /\ pc = "detected"

getCroppedFrame ==
  /\ pc = "detected"
  /\ pc' = "cropped"
  /\ bounding_rect' = Crop(frame, rect1, rect2)
  /\ rect_face1' = Moved(rect1, bounding_rect'.x, bounding_rect'.y)
  /\ rect_face2' = Moved(rect2, bounding_rect'.x, bounding_rect'.y)
  /\ big_rect_face1' = Big(rect_face1', bounding_rect')
  /\ big_rect_face2' = Big(rect_face2', bounding_rect')
  /\ UNCHANGED <<frame, rect1, rect2>>

(* The rectangles are globals, but each call assigns all of them before it *)
(* reads one: a call is a computation of its own.                          *)
Next == getCroppedFrame

Spec == Init /\ [][Next]_vars

-----------------------------------------------------------------------------
(* Properties. *)

Rects == [x : Int, y : Int, width : Nat, height : Nat]

TypeOK ==
  /\ frame \in Frames /\ rect1 \in Faces /\ rect2 \in Faces
  /\ {bounding_rect, rect_face1, rect_face2, big_rect_face1, big_rect_face2} \subseteq Rects
  /\ pc \in {"detected", "cropped"}

(* Wherever the faces are, the crop can be cut out of the frame, and what  *)
(* nativeSwapFaces and colorCorrectFaces cut out of the crop and of the    *)
(* images of its size is inside of them: no cv::Mat throws.                *)
CutsInside ==
  pc = "cropped" =>
    /\ CutOk(bounding_rect, frame.cols, frame.rows)
    /\ CutOk(big_rect_face1, bounding_rect.width, bounding_rect.height)
    /\ CutOk(big_rect_face2, bounding_rect.width, bounding_rect.height)

Covers(r, s) ==
  s = NoRect \/ /\ r.x <= s.x /\ Right(s) <= Right(r)
                /\ r.y <= s.y /\ Bottom(s) <= Bottom(r)

(* All that the frame shows of a face is in the crop (getCroppedFrame) ... *)
FacesCropped ==
  pc = "cropped" =>
    /\ Covers(bounding_rect, Meet(rect1, Whole(frame.cols, frame.rows)))
    /\ Covers(bounding_rect, Meet(rect2, Whole(frame.cols, frame.rows)))

(* ... and in what is cut for it, which is where its colours are corrected *)
(* and its mask is feathered.                                              *)
BigCoversFace ==
  pc = "cropped" =>
    LET crop == Whole(bounding_rect.width, bounding_rect.height)
    IN  /\ Covers(big_rect_face1, Meet(rect_face1, crop))
        /\ Covers(big_rect_face2, Meet(rect_face2, crop))
=============================================================================
