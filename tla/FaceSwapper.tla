----------------------------- MODULE FaceSwapper -----------------------------
(***************************************************************************)
(* swapFaces over a sequence of frames (FaceSwapper.cpp): where the pixels *)
(* come from that it pastes.  All of its images are globals, so what one   *)
(* frame leaves in them the next one may see.                              *)
(*                                                                         *)
(* An image is a line of pixels; of a pixel it is kept what it shows: one  *)
(* face, the other, both, the ground, something of an earlier frame, a     *)
(* line that was drawn over it, or nothing (black).  A bitwise or of two   *)
(* pixels shows what either shows.                                         *)
(* A face is an interval: its hull (points_face), whose ends stand for the *)
(* key points from which the transformation onto the other face is made.   *)
(* Feathering and colours are left to FaceBlending.                        *)
(***************************************************************************)
EXTENDS Integers

CONSTANTS
  Sizes,   \* the sizes a crop may have
  Hulls,   \* the hulls a face may have in a crop: records [lo, hi]
  Outlines \* where the outlines of rectangles may cross: sets of pixels

ASSUME SwapperAssumption ==
  /\ Sizes \subseteq Nat
  /\ Hulls \subseteq [lo : Int, hi : Int]
  /\ \A h \in Hulls : h.lo < h.hi
  /\ Outlines \subseteq SUBSET Int /\ {} \in Outlines

VARIABLES
  cropped_frame,                       \* the crop, as the camera delivered it
  face1, face2,                        \* the hulls of the two faces
  mask_face1, mask_face2,              \* masks: the pixels that are not zero
  warped_mask_face1, warped_mask_face2,
  refined_masks,
  extracted_face1, extracted_face2,
  warped_faces,
  outlines,                            \* the pixels with a line drawn over them
  shown,                               \* the crop when swapFaces returns
  resized                              \* history: the size of the crop is new

vars == <<cropped_frame, face1, face2, mask_face1, mask_face2, warped_mask_face1,
          warped_mask_face2, refined_masks, extracted_face1, extracted_face2,
          warped_faces, outlines, shown, resized>>

Values == SUBSET {"one", "two", "ground", "stale", "line"}
Black == {}
Line == {"line"}

(* A cv::Mat that was never created has no pixels. *)
NoImage == [p \in {} |-> Black]
Pixels(n) == 1 .. n
IsImage(image) == image = NoImage \/ \E n \in Sizes : image \in [Pixels(n) -> Values]

(* What an image still shows when the next frame comes. *)
Aged(image) == [p \in DOMAIN image |-> IF image[p] = Black THEN Black ELSE {"stale"}]

In(p, h) == h.lo <= p /\ p <= h.hi

Init ==
  /\ cropped_frame = NoImage /\ shown = NoImage
  /\ face1 \in Hulls /\ face2 \in Hulls
  /\ mask_face1 = {} /\ mask_face2 = {}
  /\ warped_mask_face1 = {} /\ warped_mask_face2 = {}
  /\ refined_masks = {}
  /\ extracted_face1 = NoImage /\ extracted_face2 = NoImage
  /\ warped_faces = NoImage /\ outlines = {}
  /\ resized = TRUE

-----------------------------------------------------------------------------
(* OpenCV, as the code uses it. *)

(* warpAffine with INTER_NEAREST asks, for every pixel of the result, for  *)
(* the pixel of the source that lands there; the key points of the face at *)
(* a are mapped to those of the face at b.                                 *)
Source(p, a, b) ==
  a.lo + (2 * (p - b.lo) * (a.hi - a.lo) + (b.hi - b.lo)) \div (2 * (b.hi - b.lo))

WarpMask(mask, n, a, b) == {p \in Pixels(n) : Source(p, a, b) \in mask}

Warp(image, a, b) ==
  [p \in DOMAIN image |->
     IF Source(p, a, b) \in DOMAIN image THEN image[Source(p, a, b)] ELSE Black]

(* copyTo with a mask: an image of another size is made anew, and black;   *)
(* one of the same size keeps its pixels outside of the mask.              *)
CopyTo(image, old, mask) ==
  [p \in DOMAIN image |->
     IF p \in mask THEN image[p] ELSE IF DOMAIN old = DOMAIN image THEN old[p] ELSE Black]

-----------------------------------------------------------------------------
(* The steps of nativeSwapFaces. *)

(* getCroppedFrame and getFaceGeometry *)
Detect(n, a, b) ==
  /\ face1' = a /\ face2' = b
  /\ cropped_frame' =
       [p \in Pixels(n) |->
          LET seen == (IF In(p, a) THEN {"one"} ELSE {}) \cup (IF In(p, b) THEN {"two"} ELSE {})
          IN  IF seen = {} THEN {"ground"} ELSE seen]
  /\ resized' = (DOMAIN cropped_frame # Pixels(n))

createMasks ==
  /\ mask_face1' = {p \in DOMAIN cropped_frame' : In(p, face1')}
  /\ mask_face2' = {p \in DOMAIN cropped_frame' : In(p, face2')}

getWarpedMasks(n) ==
  /\ warped_mask_face1' = WarpMask(mask_face1', n, face1', face2')
  /\ warped_mask_face2' = WarpMask(mask_face2', n, face2', face1')

(* A mutant: a pixel of either mask is in. *)
getRefinedMasksUnion ==
  refined_masks' = (mask_face1' \cup warped_mask_face2') \cup (mask_face2' \cup warped_mask_face1')

getRefinedMasks ==
  refined_masks' = (mask_face1' \cap warped_mask_face2') \cup (mask_face2' \cap warped_mask_face1')

extractFaces ==
  /\ extracted_face1' = CopyTo(cropped_frame', Aged(extracted_face1), mask_face1')
  /\ extracted_face2' = CopyTo(cropped_frame', Aged(extracted_face2), mask_face2')

getWarpedFaces ==
  LET warped_face1 == Warp(extracted_face1', face1', face2')
      warped_face2 == Warp(extracted_face2', face2', face1')
  IN  warped_faces' = [p \in DOMAIN cropped_frame' |->
                         IF p \in refined_masks' THEN warped_face1[p] \cup warped_face2[p]
                         ELSE Black]

(* A mutant: an extracted face is pasted wherever it is not black, by no mask. *)
pasteUnmasked(p) ==
  IF extracted_face1'[p] # Black THEN extracted_face1'[p] ELSE cropped_frame'[p]

pasteFacesOnFrame(p) == IF p \in refined_masks' THEN warped_faces'[p] ELSE cropped_frame'[p]

(* cv::rectangle, four times: the two rectangles that were detected, and   *)
(* the two grown ones.  They do not follow the hulls: their outlines may   *)
(* cross the line of pixels anywhere, in or outside of a face.             *)
drawRectangles ==
  /\ outlines' \in {o \cap DOMAIN cropped_frame' : o \in Outlines}
  /\ shown' = [p \in DOMAIN cropped_frame' |->
                 IF p \in outlines' THEN Line ELSE pasteFacesOnFrame(p)]

nativeSwapFaces(n, a, b) ==
  /\ Detect(n, a, b)
  /\ createMasks /\ getWarpedMasks(n) /\ getRefinedMasks
  /\ extractFaces /\ getWarpedFaces
  /\ drawRectangles

(* Frames without exactly two faces are returned as they are: swapFaces    *)
(* touches no global, and the next frame with two faces follows.           *)
swapFaces == \E n \in Sizes, a \in Hulls, b \in Hulls : nativeSwapFaces(n, a, b)

(* The process ends and the library is loaded anew. *)
Restart ==
  /\ cropped_frame # NoImage
  /\ cropped_frame' = NoImage /\ shown' = NoImage
  /\ mask_face1' = {} /\ mask_face2' = {}
  /\ warped_mask_face1' = {} /\ warped_mask_face2' = {}
  /\ refined_masks' = {}
  /\ extracted_face1' = NoImage /\ extracted_face2' = NoImage
  /\ warped_faces' = NoImage /\ outlines' = {}
  /\ resized' = TRUE
  /\ UNCHANGED <<face1, face2>>

Next == swapFaces \/ Restart

Spec == Init /\ [][Next]_vars

-----------------------------------------------------------------------------
(* Properties. *)

TypeOK ==
  /\ IsImage(cropped_frame)
  /\ \A image \in {extracted_face1, extracted_face2, warped_faces, shown} :
       IsImage(image) /\ DOMAIN image = DOMAIN cropped_frame
  /\ face1 \in Hulls /\ face2 \in Hulls
  /\ {mask_face1, mask_face2, warped_mask_face1, warped_mask_face2, refined_masks, outlines}
       \subseteq SUBSET DOMAIN cropped_frame
  /\ resized \in BOOLEAN

(* Outside of the two faces of this frame and of the lines drawn around    *)
(* them the picture is the camera's, whatever earlier frames left in the   *)
(* masks (createMasks, getRefinedMasks).                                   *)
OnlyFacesChange ==
  \A p \in DOMAIN shown \ outlines :
    ~In(p, face1) /\ ~In(p, face2) => shown[p] = cropped_frame[p]

(* Every pixel pasted into a face shows the other face of this frame, but  *)
(* for the lines drawn over it: the masks and the faces are warped alike,  *)
(* so no pixel is pasted that the warped face does not reach               *)
(* (getWarpedMasks, getWarpedFaces).                                       *)
PastedShowsOther ==
  \A p \in refined_masks \ outlines :
    \/ In(p, face1) /\ "two" \in shown[p]
    \/ In(p, face2) /\ "one" \in shown[p]

(* Something of an earlier frame can show only if the crop has kept its    *)
(* size, and only within a face (extractFaces).                            *)
GhostNeedsSameSize ==
  \A p \in DOMAIN shown : "stale" \in shown[p] => ~resized /\ p \in refined_masks
=============================================================================
