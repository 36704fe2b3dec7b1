-------------------------- MODULE FaceSwapperProofs --------------------------
(***************************************************************************)
(* swapFaces works out every image of a frame from that frame alone, but   *)
(* for the extracted faces: that what it pastes shows the other face, and  *)
(* that nothing outside of the faces changes, holds for every size of a    *)
(* crop, every place of the faces and of the lines drawn around them,      *)
(* whatever was there before.                                              *)
(***************************************************************************)
EXTENDS FaceSwapper, TLAPS

(* The refined masks lie within the crop, and in each face there is only   *)
(* what the mask of the other is warped onto.                              *)
LEMMA RefinedMasks ==
  ASSUME NEW n \in Sizes, NEW a \in Hulls, NEW b \in Hulls, nativeSwapFaces(n, a, b)
  PROVE  /\ DOMAIN cropped_frame' = Pixels(n)
         /\ refined_masks' \subseteq Pixels(n)
         /\ \A p \in refined_masks' :
              \/ In(p, face1') /\ Source(p, face2', face1') \in mask_face2'
              \/ In(p, face2') /\ Source(p, face1', face2') \in mask_face1'
<1>1. DOMAIN cropped_frame' = Pixels(n)
  BY DEF nativeSwapFaces, Detect
<1>2. /\ \A p \in mask_face1' : In(p, face1') /\ p \in Pixels(n)
      /\ \A p \in mask_face2' : In(p, face2') /\ p \in Pixels(n)
  BY <1>1 DEF nativeSwapFaces, createMasks
<1>3. /\ \A p \in warped_mask_face1' : Source(p, face1', face2') \in mask_face1'
      /\ \A p \in warped_mask_face2' : Source(p, face2', face1') \in mask_face2'
  BY DEF nativeSwapFaces, getWarpedMasks, WarpMask
<1>4. \A p \in refined_masks' : \/ p \in mask_face1' /\ p \in warped_mask_face2'
                                \/ p \in mask_face2' /\ p \in warped_mask_face1'
  BY DEF nativeSwapFaces, getRefinedMasks
<1> QED
  BY <1>1, <1>2, <1>3, <1>4

(* A pixel of a mask shows the face of that mask in the face extracted.    *)
LEMMA ExtractedFaces ==
  ASSUME NEW n \in Sizes, NEW a \in Hulls, NEW b \in Hulls, nativeSwapFaces(n, a, b)
  PROVE  /\ DOMAIN extracted_face1' = Pixels(n) /\ DOMAIN extracted_face2' = Pixels(n)
         /\ mask_face1' \subseteq Pixels(n) /\ mask_face2' \subseteq Pixels(n)
         /\ \A p \in mask_face1' : "one" \in extracted_face1'[p]
         /\ \A p \in mask_face2' : "two" \in extracted_face2'[p]
<1>1. /\ DOMAIN cropped_frame' = Pixels(n)
      /\ \A p \in Pixels(n) : In(p, face1') => "one" \in cropped_frame'[p]
      /\ \A p \in Pixels(n) : In(p, face2') => "two" \in cropped_frame'[p]
  BY DEF nativeSwapFaces, Detect
<1>2. /\ mask_face1' = {p \in Pixels(n) : In(p, face1')}
      /\ mask_face2' = {p \in Pixels(n) : In(p, face2')}
  BY <1>1 DEF nativeSwapFaces, createMasks
<1>3. /\ DOMAIN extracted_face1' = DOMAIN cropped_frame'
      /\ DOMAIN extracted_face2' = DOMAIN cropped_frame'
      /\ \A p \in DOMAIN cropped_frame' :
           /\ p \in mask_face1' => extracted_face1'[p] = cropped_frame'[p]
           /\ p \in mask_face2' => extracted_face2'[p] = cropped_frame'[p]
  BY DEF nativeSwapFaces, extractFaces, CopyTo
<1> QED
  BY <1>1, <1>2, <1>3

(* What a pixel shows after it was warped.                                 *)
LEMMA Warped ==
  ASSUME NEW image, NEW a, NEW b, NEW p \in DOMAIN image, NEW face,
         Source(p, a, b) \in DOMAIN image, face \in image[Source(p, a, b)]
  PROVE  face \in Warp(image, a, b)[p]
BY DEF Warp

(* What a pixel of the crop shows in the end.                              *)
LEMMA ShownPixel ==
  ASSUME NEW n \in Sizes, NEW a \in Hulls, NEW b \in Hulls, nativeSwapFaces(n, a, b)
  PROVE  /\ DOMAIN shown' = DOMAIN cropped_frame'
         /\ outlines' \subseteq DOMAIN cropped_frame'
         /\ \A p \in DOMAIN cropped_frame' :
              /\ p \in outlines' => shown'[p] = Line
              /\ p \notin outlines' /\ p \in refined_masks' => shown'[p] = warped_faces'[p]
              /\ p \notin outlines' /\ p \notin refined_masks' =>
                   shown'[p] = cropped_frame'[p]
BY DEF nativeSwapFaces, drawRectangles, pasteFacesOnFrame

LEMMA Pasted ==
  ASSUME NEW n \in Sizes, NEW a \in Hulls, NEW b \in Hulls, nativeSwapFaces(n, a, b)
  PROVE  PastedShowsOther'
<1> SUFFICES ASSUME NEW p \in refined_masks', p \notin outlines'
             PROVE  \/ In(p, face1') /\ "two" \in shown'[p]
                    \/ In(p, face2') /\ "one" \in shown'[p]
  BY DEF PastedShowsOther
<1>1. p \in Pixels(n) /\ DOMAIN cropped_frame' = Pixels(n)
  BY RefinedMasks
<1>2. shown'[p] = Warp(extracted_face1', face1', face2')[p]
                    \cup Warp(extracted_face2', face2', face1')[p]
  <2>1. shown'[p] = warped_faces'[p]
    BY <1>1, ShownPixel
  <2>2. warped_faces'[p] = Warp(extracted_face1', face1', face2')[p]
                             \cup Warp(extracted_face2', face2', face1')[p]
    BY <1>1 DEF nativeSwapFaces, getWarpedFaces
  <2> QED
    BY <2>1, <2>2
<1>3. CASE In(p, face1') /\ Source(p, face2', face1') \in mask_face2'
  <2>1. "two" \in Warp(extracted_face2', face2', face1')[p]
    BY <1>1, <1>3, ExtractedFaces, Warped
  <2> QED
    BY <1>2, <1>3, <2>1
<1>4. CASE In(p, face2') /\ Source(p, face1', face2') \in mask_face1'
  <2>1. "one" \in Warp(extracted_face1', face1', face2')[p]
    BY <1>1, <1>4, ExtractedFaces, Warped
  <2> QED
    BY <1>2, <1>4, <2>1
<1> QED
  BY <1>3, <1>4, RefinedMasks

LEMMA RestIsCamera ==
  ASSUME NEW n \in Sizes, NEW a \in Hulls, NEW b \in Hulls, nativeSwapFaces(n, a, b)
  PROVE  OnlyFacesChange'
<1>1. DOMAIN shown' = DOMAIN cropped_frame'
  BY ShownPixel
<1>2. \A p \in DOMAIN cropped_frame' :
        p \notin refined_masks' /\ p \notin outlines' => shown'[p] = cropped_frame'[p]
  BY ShownPixel
<1>3. \A p \in refined_masks' : In(p, face1') \/ In(p, face2')
  BY RefinedMasks
<1> QED
  BY <1>1, <1>2, <1>3 DEF OnlyFacesChange

(* Every pixel that swapFaces pastes into a face and draws no line over    *)
(* shows the other face when it returns.                                   *)
THEOREM PastedShowsOtherFace == Spec => []PastedShowsOther
<1>1. Init => PastedShowsOther
  BY DEF Init, PastedShowsOther
<1>2. PastedShowsOther /\ [Next]_vars => PastedShowsOther'
  <2> SUFFICES ASSUME PastedShowsOther, [Next]_vars
               PROVE  PastedShowsOther'
    OBVIOUS
  <2>1. CASE swapFaces
    BY <2>1, Pasted DEF swapFaces
  <2>2. CASE Restart
    BY <2>2 DEF Restart, PastedShowsOther
  <2>3. CASE UNCHANGED vars
    BY <2>3 DEF vars, PastedShowsOther
  <2> QED
    BY <2>1, <2>2, <2>3 DEF Next
<1> QED
  BY <1>1, <1>2, PTL DEF Spec

(* Outside of the two faces and of the lines around them the picture stays *)
(* the camera's.                                                           *)
THEOREM OnlyFacesAreChanged == Spec => []OnlyFacesChange
<1>1. Init => OnlyFacesChange
  BY DEF Init, OnlyFacesChange, NoImage
<1>2. OnlyFacesChange /\ [Next]_vars => OnlyFacesChange'
  <2> SUFFICES ASSUME OnlyFacesChange, [Next]_vars
               PROVE  OnlyFacesChange'
    OBVIOUS
  <2>1. CASE swapFaces
    BY <2>1, RestIsCamera DEF swapFaces
  <2>2. CASE Restart
    BY <2>2 DEF Restart, OnlyFacesChange, NoImage
  <2>3. CASE UNCHANGED vars
    BY <2>3 DEF vars, OnlyFacesChange
  <2> QED
    BY <2>1, <2>2, <2>3 DEF Next
<1> QED
  BY <1>1, <1>2, PTL DEF Spec

-----------------------------------------------------------------------------
(* The invariant behind GhostNeedsSameSize: the extracted faces are of the *)
(* size of the crop they were taken from.                                  *)
Extracted ==
  /\ DOMAIN extracted_face1 = DOMAIN cropped_frame
  /\ DOMAIN extracted_face2 = DOMAIN cropped_frame

(* A new crop shows nothing old, and a face extracted from it does so only *)
(* if the image it is copied to has its size.                              *)
LEMMA GhostsNeedRoom ==
  ASSUME Extracted,
         NEW n \in Sizes, NEW a \in Hulls, NEW b \in Hulls, nativeSwapFaces(n, a, b)
  PROVE  /\ \A p \in Pixels(n) : "stale" \notin cropped_frame'[p]
         /\ \A p \in Pixels(n) : "stale" \in extracted_face1'[p] => ~resized'
         /\ \A p \in Pixels(n) : "stale" \in extracted_face2'[p] => ~resized'
<1>1. /\ DOMAIN cropped_frame' = Pixels(n)
      /\ \A p \in Pixels(n) : "stale" \notin cropped_frame'[p]
  BY DEF nativeSwapFaces, Detect
<1>2. resized' = (DOMAIN cropped_frame # Pixels(n))
  BY DEF nativeSwapFaces, Detect
<1>3. ASSUME NEW image, NEW old, NEW mask, NEW p \in DOMAIN image,
             "stale" \notin image[p], "stale" \in CopyTo(image, Aged(old), mask)[p]
      PROVE  DOMAIN old = DOMAIN image
  BY <1>3 DEF CopyTo, Aged, Black
<1>4. \A p \in Pixels(n) : "stale" \in extracted_face1'[p] => DOMAIN extracted_face1 = Pixels(n)
  BY <1>1, <1>3 DEF nativeSwapFaces, extractFaces
<1>5. \A p \in Pixels(n) : "stale" \in extracted_face2'[p] => DOMAIN extracted_face2 = Pixels(n)
  BY <1>1, <1>3 DEF nativeSwapFaces, extractFaces
<1> QED
  BY <1>1, <1>2, <1>4, <1>5 DEF Extracted

LEMMA GhostsInFaces ==
  ASSUME Extracted,
         NEW n \in Sizes, NEW a \in Hulls, NEW b \in Hulls, nativeSwapFaces(n, a, b)
  PROVE  GhostNeedsSameSize'
<1> SUFFICES ASSUME NEW p \in DOMAIN shown', "stale" \in shown'[p]
             PROVE  ~resized' /\ p \in refined_masks'
  BY DEF GhostNeedsSameSize
<1>1. p \in Pixels(n)
  BY RefinedMasks, ShownPixel
<1>2. p \in refined_masks' /\ shown'[p] = warped_faces'[p]
  BY <1>1, GhostsNeedRoom, RefinedMasks, ShownPixel DEF Line
<1>3. warped_faces'[p] = Warp(extracted_face1', face1', face2')[p]
                           \cup Warp(extracted_face2', face2', face1')[p]
  BY <1>1, <1>2, RefinedMasks DEF nativeSwapFaces, getWarpedFaces
<1>4. ASSUME NEW image, DOMAIN image = Pixels(n), NEW c, NEW d,
             "stale" \in Warp(image, c, d)[p]
      PROVE  \E q \in Pixels(n) : "stale" \in image[q]
  BY <1>1, <1>4 DEF Warp, Black
<1>5. CASE "stale" \in Warp(extracted_face1', face1', face2')[p]
  <2>1. \E q \in Pixels(n) : "stale" \in extracted_face1'[q]
    BY <1>4, <1>5, ExtractedFaces
  <2> QED
    BY <1>2, <2>1, GhostsNeedRoom
<1>6. CASE "stale" \in Warp(extracted_face2', face2', face1')[p]
  <2>1. \E q \in Pixels(n) : "stale" \in extracted_face2'[q]
    BY <1>4, <1>6, ExtractedFaces
  <2> QED
    BY <1>2, <2>1, GhostsNeedRoom
<1> QED
  BY <1>2, <1>3, <1>5, <1>6

(* A pixel of an earlier frame comes back only in a crop that has kept its *)
(* size, and within a face.                                                *)
THEOREM GhostsNeedSameSize == Spec => []GhostNeedsSameSize
<1>1. Init => Extracted /\ GhostNeedsSameSize
  BY DEF Init, Extracted, GhostNeedsSameSize, NoImage
<1>2. Extracted /\ GhostNeedsSameSize /\ [Next]_vars => (Extracted /\ GhostNeedsSameSize)'
  <2> SUFFICES ASSUME Extracted, GhostNeedsSameSize, [Next]_vars
               PROVE  (Extracted /\ GhostNeedsSameSize)'
    OBVIOUS
  <2>1. CASE swapFaces
    <3>1. PICK n \in Sizes, a \in Hulls, b \in Hulls : nativeSwapFaces(n, a, b)
      BY <2>1 DEF swapFaces
    <3>2. Extracted'
      BY <3>1, ExtractedFaces, RefinedMasks DEF Extracted
    <3> QED
      BY <3>1, <3>2, GhostsInFaces
  <2>2. CASE Restart
    BY <2>2 DEF Restart, Extracted, GhostNeedsSameSize, NoImage
  <2>3. CASE UNCHANGED vars
    BY <2>3 DEF vars, Extracted, GhostNeedsSameSize
  <2> QED
    BY <2>1, <2>2, <2>3 DEF Next
<1> QED
  BY <1>1, <1>2, PTL DEF Spec

-----------------------------------------------------------------------------
LEMMA CopiedAreImages ==
  ASSUME NEW S, NEW image \in [S -> Values], NEW old, NEW mask,
         \A p \in DOMAIN old : old[p] \in Values
  PROVE  CopyTo(image, Aged(old), mask) \in [S -> Values]
<1>1. /\ DOMAIN Aged(old) = DOMAIN old
      /\ \A p \in DOMAIN old : Aged(old)[p] \in Values
  BY DEF Aged, Values, Black
<1>2. \A p \in S : image[p] \in Values
  OBVIOUS
<1>3. Black \in Values /\ DOMAIN image = S
  BY DEF Values, Black
<1> QED
  BY <1>1, <1>2, <1>3 DEF CopyTo

LEMMA WarpedAreImages ==
  ASSUME NEW S, NEW image \in [S -> Values], NEW a, NEW b
  PROVE  Warp(image, a, b) \in [S -> Values]
<1>1. Black \in Values
  BY DEF Values, Black
<1> QED
  BY <1>1 DEF Warp

LEMMA NewImages ==
  ASSUME TypeOK, NEW n \in Sizes, NEW a \in Hulls, NEW b \in Hulls, nativeSwapFaces(n, a, b)
  PROVE  /\ cropped_frame' \in [Pixels(n) -> Values]
         /\ extracted_face1' \in [Pixels(n) -> Values]
         /\ extracted_face2' \in [Pixels(n) -> Values]
         /\ warped_faces' \in [Pixels(n) -> Values]
         /\ shown' \in [Pixels(n) -> Values]
<1>1. cropped_frame' \in [Pixels(n) -> Values]
  BY DEF nativeSwapFaces, Detect, Values
<1>2. ASSUME NEW image, IsImage(image)
      PROVE  \A p \in DOMAIN image : image[p] \in Values
  BY <1>2 DEF IsImage, NoImage
<1>3. IsImage(extracted_face1) /\ IsImage(extracted_face2)
  BY DEF TypeOK
<1>4. /\ extracted_face1' \in [Pixels(n) -> Values]
      /\ extracted_face2' \in [Pixels(n) -> Values]
  BY <1>1, <1>2, <1>3, CopiedAreImages DEF nativeSwapFaces, extractFaces
<1>5. /\ Warp(extracted_face1', face1', face2') \in [Pixels(n) -> Values]
      /\ Warp(extracted_face2', face2', face1') \in [Pixels(n) -> Values]
  BY <1>4, WarpedAreImages
<1>6. warped_faces' \in [Pixels(n) -> Values]
  <2>1. \A v, w \in Values : v \cup w \in Values
    BY DEF Values
  <2>2. Black \in Values /\ DOMAIN cropped_frame' = Pixels(n)
    BY <1>1 DEF Values, Black
  <2>3. warped_faces' = [p \in Pixels(n) |->
                           IF p \in refined_masks'
                           THEN Warp(extracted_face1', face1', face2')[p]
                                  \cup Warp(extracted_face2', face2', face1')[p]
                           ELSE Black]
    BY <2>2 DEF nativeSwapFaces, getWarpedFaces
  <2> QED
    BY <1>5, <2>1, <2>2, <2>3
<1>7. shown' \in [Pixels(n) -> Values]
  <2>1. Line \in Values
    BY DEF Line, Values
  <2>2. \A p \in Pixels(n) :
          (IF p \in outlines' THEN Line ELSE pasteFacesOnFrame(p)) \in Values
    BY <1>1, <1>6, <2>1 DEF pasteFacesOnFrame
  <2>3. shown' = [p \in Pixels(n) |-> IF p \in outlines' THEN Line ELSE pasteFacesOnFrame(p)]
    BY <1>1 DEF nativeSwapFaces, drawRectangles
  <2> QED
    BY <2>2, <2>3
<1> QED
  BY <1>1, <1>4, <1>6, <1>7

(* Every image of swapFaces is of the size of its crop, and every mask     *)
(* lies within it.                                                         *)
THEOREM TypeCorrect == Spec => []TypeOK
<1>1. Init => TypeOK
  BY DEF Init, TypeOK, IsImage, NoImage
<1>2. TypeOK /\ [Next]_vars => TypeOK'
  <2> SUFFICES ASSUME TypeOK, [Next]_vars
               PROVE  TypeOK'
    OBVIOUS
  <2>1. CASE swapFaces
    <3>1. PICK n \in Sizes, a \in Hulls, b \in Hulls : nativeSwapFaces(n, a, b)
      BY <2>1 DEF swapFaces
    <3>2. /\ IsImage(cropped_frame')
          /\ \A image \in {extracted_face1', extracted_face2', warped_faces', shown'} :
               IsImage(image) /\ DOMAIN image = DOMAIN cropped_frame'
      BY <3>1, NewImages DEF IsImage
    <3>3. /\ face1' \in Hulls /\ face2' \in Hulls /\ resized' \in BOOLEAN
          /\ DOMAIN cropped_frame' = Pixels(n)
      BY <3>1 DEF nativeSwapFaces, Detect
    <3>4. /\ mask_face1' \subseteq Pixels(n) /\ mask_face2' \subseteq Pixels(n)
          /\ warped_mask_face1' \subseteq Pixels(n) /\ warped_mask_face2' \subseteq Pixels(n)
          /\ refined_masks' \subseteq Pixels(n) /\ outlines' \subseteq Pixels(n)
      BY <3>1, <3>3, RefinedMasks, ExtractedFaces, ShownPixel
         DEF nativeSwapFaces, getWarpedMasks, WarpMask
    <3> QED
      BY <3>2, <3>3, <3>4 DEF TypeOK
  <2>2. CASE Restart
    BY <2>2 DEF Restart, TypeOK, IsImage, NoImage
  <2>3. CASE UNCHANGED vars
    BY <2>3 DEF vars, TypeOK, IsImage
  <2> QED
    BY <2>1, <2>2, <2>3 DEF Next
<1> QED
  BY <1>1, <1>2, PTL DEF Spec
=============================================================================
