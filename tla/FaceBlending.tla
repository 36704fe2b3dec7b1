---------------------------- MODULE FaceBlending ----------------------------
(***************************************************************************)
(* What nativeSwapFaces (FaceSwapper.cpp) does with the rectangles of      *)
(* CropGeometry once the faces have been warped: the faces get the colours *)
(* of those they cover (colorCorrectFaces), the mask of the pasted pixels  *)
(* is eroded and blurred in the rectangle of the one face and then in that *)
(* of the other (featherMask), and serves as the weight of the faces'      *)
(* pixels in 8-bit arithmetic (pasteFacesOnFrame).  Both the correction    *)
(* and the feathering work in place, and the rectangles may overlap.       *)
(*                                                                         *)
(* A bound: pixels are followed in frames of one row; erosion and box blur *)
(* act on columns as they act on rows.  Where the faces and their masks    *)
(* come from is FaceSwapper's, and so are the lines drawn over the result; *)
(* here a face fills its rectangle, and so does the other one when it is   *)
(* warped onto it.  Pictures are grey until they are blended.  Green and   *)
(* blue take the weights of the next pixels of the mask; what lies past    *)
(* the end of the row may be anything.                                     *)
(***************************************************************************)
EXTENDS CropGeometry, HistogramMatching, Sequences, FiniteSetsExt

(* What may be given: records [frame, rects, feathers, pictures, faces],   *)
(* each a size of the frame and what may come with it: the rectangles, the *)
(* feather_amounts, and rows of greys of the frame and of the warped faces.*)
CONSTANT Scenes

ASSUME ScenesAssumption ==
  \A s \in Scenes :
    /\ s.frame \in Frames /\ s.rects \subseteq Faces
    /\ s.feathers \subseteq Nat \ {0}
    /\ s.frame.rows = 1 =>
         \A row \in s.pictures \cup s.faces : row \in [1 .. s.frame.cols -> Level]

VARIABLES
  feather_amount,
  picture, faces,       \* what is seen in the row of the frame, and what the
                        \* warped faces show there
  refined_masks,        \* of every pixel the weight
  warped_faces,
  cropped_frame,        \* of every pixel the three channels
  masked, before,       \* history: the last mask of specifiyHistogram, and
                        \* warped_faces before it
  stage

givenVars == <<feather_amount, picture, faces>>
blendVars == <<givenVars, refined_masks, warped_faces, cropped_frame, masked, before, stage>>
swapVars == <<vars, blendVars>>

Pixels == 0 .. bounding_rect.width - 1
Columns(rect, margin) == {p \in Pixels : rect.x - margin <= p /\ p < Right(rect) + margin}
pasted == Columns(rect_face1, 0) \cup Columns(rect_face2, 0)

(* The crop, before anything is pasted into it. *)
camera == [p \in Pixels |-> picture[bounding_rect.x + p + 1]]

NoPixels == <<>>

SwapInit ==
  /\ \E s \in Scenes :
       /\ frame = s.frame /\ rect1 \in s.rects /\ rect2 \in s.rects
       /\ feather_amount \in s.feathers
       /\ picture \in s.pictures /\ faces \in s.faces
  /\ Init
  /\ refined_masks = NoPixels /\ warped_faces = NoPixels /\ cropped_frame = NoPixels
  /\ masked = {} /\ before = NoPixels
  /\ stage = "crop"

CropFaces ==
  /\ stage = "crop" /\ stage' = "warp"
  /\ getCroppedFrame
  /\ UNCHANGED <<givenVars, refined_masks, warped_faces, cropped_frame, masked, before>>

(* getRefinedMasks and getWarpedFaces: outside of the mask the picture of  *)
(* the faces is black.                                                     *)
WarpFaces ==
  /\ stage = "warp" /\ frame.rows = 1 /\ stage' = "colour1"
  /\ refined_masks' = [p \in Pixels |-> IF p \in pasted THEN 255 ELSE 0]
  /\ warped_faces' =
       [p \in Pixels |-> IF p \in pasted THEN faces[bounding_rect.x + p + 1] ELSE 0]
  /\ cropped_frame' = [p \in Pixels |-> <<camera[p], camera[p], camera[p]>>]
  /\ UNCHANGED <<vars, givenVars, masked, before>>

-----------------------------------------------------------------------------
(* colorCorrectFaces: the face warped onto the first, and that onto the    *)
(* second.                                                                 *)
Correct(mask) ==
  /\ warped_faces' = specifiyHistogram(camera, warped_faces, mask)
  /\ masked' = mask /\ before' = warped_faces
  /\ UNCHANGED <<vars, givenVars, refined_masks, cropped_frame>>

colorCorrectFace1 ==
  /\ stage = "colour1" /\ stage' = "colour2"
  /\ Correct(Columns(rect_face1, 0) \cap Columns(big_rect_face1, 0))

colorCorrectFace2 ==
  /\ stage = "colour2" /\ stage' = "feather1"
  /\ Correct(Columns(rect_face2, 0) \cap Columns(big_rect_face2, 0))

-----------------------------------------------------------------------------
(* OpenCV, as the code uses it: a kernel of n pixels is anchored at its    *)
(* pixel n / 2; what is outside of the picture is 0; pixels outside of a   *)
(* part of a picture are read, but not written.                            *)
Window(p, n) == p - (n \div 2) .. p - (n \div 2) + n - 1

Eroded(mask, rect, n) ==
  [p \in Pixels |-> IF p \notin rect THEN mask[p]
                    ELSE IF Window(p, n) \subseteq Pixels
                    THEN Min({mask[q] : q \in Window(p, n)}) ELSE 0]

Blurred(mask, rect, n) ==
  [p \in Pixels |-> IF p \notin rect THEN mask[p]
                    ELSE (2 * MapThenSumSet(LAMBDA q : mask[q], Window(p, n) \cap Pixels) + n)
                           \div (2 * n)]

(* A mutant: the mask is not eroded. *)
featherMaskBlurOnly(rect) ==
  refined_masks' = Blurred(refined_masks, rect, feather_amount)

featherMask(rect) ==
  refined_masks' =
    Blurred(Eroded(refined_masks, rect, feather_amount), rect, feather_amount)

featherFace1 ==
  /\ stage = "feather1" /\ stage' = "feather2"
  /\ featherMask(Columns(big_rect_face1, 0))
  /\ UNCHANGED <<vars, givenVars, warped_faces, cropped_frame, masked, before>>

featherFace2 ==
  /\ stage = "feather2" /\ stage' = "paste"
  /\ featherMask(Columns(big_rect_face2, 0))
  /\ UNCHANGED <<vars, givenVars, warped_faces, cropped_frame, masked, before>>

-----------------------------------------------------------------------------
(* A mutant: both products are divided, and both rounded down. *)
BlendTwice(m, frm, face) == ((255 - m) * frm) \div 256 + (m * face) \div 256

Blend(m, frm, face) == ((255 - m) * frm + m * face) \div 256

(* beyond: what the memory past the end of the row holds. *)
pasteFacesOnFrame(beyond) ==
  LET weight(p) == IF p \in Pixels THEN refined_masks[p] ELSE beyond
  IN  cropped_frame' =
        [p \in Pixels |->
           IF refined_masks[p] = 0 THEN cropped_frame[p]
           ELSE [c \in 1 .. 3 |-> Blend(weight(p + c - 1), camera[p], warped_faces[p])]]

Paste ==
  /\ stage = "paste" /\ stage' = "done"
  /\ \E beyond \in {0, 128, 255} : pasteFacesOnFrame(beyond)
  /\ UNCHANGED <<vars, givenVars, refined_masks, warped_faces, masked, before>>

SwapNext ==
  \/ CropFaces \/ WarpFaces
  \/ colorCorrectFace1 \/ colorCorrectFace2
  \/ featherFace1 \/ featherFace2
  \/ Paste

SwapSpec == SwapInit /\ [][SwapNext]_swapVars

-----------------------------------------------------------------------------
(* Properties. *)

(* What is lighter stays lighter, or becomes the same: the search is       *)
(* monotone although it returns a level it has not compared last           *)
(* (specifiyHistogram).                                                    *)
OrderKept ==
  \A p, q \in masked : before[p] <= before[q] => warped_faces[p] <= warped_faces[q]

(* A pixel of the face gets the level that the pixel of the same rank has  *)
(* in the frame, off by two at most below it and one above it: the colours *)
(* are matched as a histogram specification by its definition would,       *)
(* though in the second call on what the first one made.                   *)
Matched ==
  \A p \in masked : \E q \in masked :
    /\ Cumulated(camera, masked, camera[q] - 1) < Cumulated(before, masked, before[p])
    /\ Cumulated(before, masked, before[p]) <= Cumulated(camera, masked, camera[q])
    /\ camera[q] - 2 <= warped_faces[p] /\ warped_faces[p] <= camera[q] + 1

Weighted == {p \in DOMAIN refined_masks : refined_masks[p] # 0}

(* The rectangles in which the mask has been feathered. *)
Feathered == CASE stage = "feather2"        -> <<big_rect_face1>>
               [] stage \in {"paste", "done"} -> <<big_rect_face1, big_rect_face2>>
               [] OTHER                     -> <<>>

Times(p) == Cardinality({i \in DOMAIN Feathered : p \in Columns(Feathered[i], 0)})

(* A rectangle leaves room for the feather around a face, or has no part   *)
(* in it.                                                                  *)
Roomy ==
  \A face \in {rect_face1, rect_face2}, rect \in {big_rect_face1, big_rect_face2} :
    \/ Columns(face, feather_amount) \subseteq Columns(rect, 0)
    \/ Columns(face, feather_amount) \cap Columns(rect, 0) = {}

(* Feathering takes the weight from the border of the faces inwards: what  *)
(* the blur spreads, the erosion has made room for.  A feather of an even  *)
(* number of pixels is anchored off its middle both times, and passes the  *)
(* border by a pixel to the right each time (featherMask).                 *)
FeatherStaysIn ==
  Roomy =>
    \A p \in Weighted :
      \E q \in pasted : q <= p /\ p <= q + (IF feather_amount % 2 = 1 THEN 0 ELSE Times(p))

(* No channel of a blended pixel is brighter than both pictures, and none  *)
(* is darker than both by more than one: in 8 bits nothing wraps, whatever *)
(* weight a channel was given (pasteFacesOnFrame).                         *)
BlendStaysBetween ==
  stage = "done" =>
    \A p \in Pixels, c \in 1 .. 3 :
      /\ cropped_frame[p][c] <= Max({camera[p], warped_faces[p]})
      /\ cropped_frame[p][c] >= Min({camera[p], warped_faces[p]}) - 1
=============================================================================
