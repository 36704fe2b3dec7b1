---------------------- MODULE FaceSwapActivityProofs ----------------------
(***************************************************************************)
(* Proofs that the properties of FaceSwapActivity hold for any loaders,    *)
(* and any number of frames and clicks.                                    *)
(*                                                                         *)
(* The inductive invariant says what keeps the loader, the life cycle and  *)
(* the camera worker apart: a loader that is not cancelled is the one the  *)
(* activity knows (CurrentLoader), a detector is published only once the   *)
(* model is whole (ModelOrder), a view is enabled only once there is a     *)
(* detector (EnabledHasDetector), and every photo, posted or being asked   *)
(* for, is paid for by a click (Paid).                                     *)
(***************************************************************************)
EXTENDS FaceSwapActivity, TLAPS

(* A loader at work that is not cancelled is the loader of the activity,   *)
(* and there is none of a destroyed activity.                              *)
CurrentLoader ==
  /\ life = "none" => mRuntimeFilesLoaderTask = NoLoader
  /\ \A l \in Loaders : loaderPc[l] # "none" /\ ~cancelled[l]
                        => l = mRuntimeFilesLoaderTask

(* Loaders that were not started beside each other are one at most, and    *)
(* the model is whole from its loading on and with a detector.             *)
ModelOrder ==
  ~overlapped =>
    /\ \A k, l \in Loaders : loaderPc[k] # "none" /\ loaderPc[l] # "none" => k = l
    /\ model # "raced"
    /\ \A l \in Loaders :
         loaderPc[l] \in {"cascade", "copy", "detector", "succeeded"} => model = "whole"
    /\ mNativeDetector =>
         /\ model = "whole"
         /\ \A l \in Loaders : loaderPc[l] \notin {"queued", "model"}

(* What enables the view comes after the detector. *)
EnabledHasDetector ==
  /\ \A l \in Loaders : loaderPc[l] = "succeeded" /\ l = mRuntimeFilesLoaderTask
                        => mNativeDetector
  /\ mIsRuntimeFilesLoaded => mNativeDetector
  /\ enabled /\ ~switchedEarly => mNativeDetector

(* A frame in hand has a number, and one being swapped has a detector. *)
FrameInHand ==
  /\ framePc # "idle" => frame > 0
  /\ framePc = "swap" => mNativeDetector

(* The photos made and to come, each paid for by a click. *)
Posting == IF framePc = "post" THEN 1 ELSE 0
Requested == IF mIsTakePictureRequested \/ framePc = "clear" THEN 1 ELSE 0
Asked == Len(posted) + Posting + Requested
Paid == /\ photos + Asked <= clicks
        /\ saving => posted # <<>>

LoaderInv == /\ CurrentLoader /\ ModelOrder /\ EnabledHasDetector
             /\ FrameInHand /\ DetectorBeforeFrames /\ DestroyedIsOff

IInv == TypeOK /\ LoaderInv /\ Paid

-----------------------------------------------------------------------------
(* The images a Mat may hold. *)
LEMMA ImageTypes ==
  /\ Released \in Images
  /\ \A n \in 1 .. MaxFrames : /\ [of |-> n, as |-> "camera"] \in Images
                               /\ [of |-> n, as |-> "swapped"] \in Images
  /\ [s \in Slots |-> Released] \in [Slots -> Images]
  BY DEF Images

(* What a stopped view and a killed process leave behind keeps the types. *)
LEMMA StoppedTypes ==
  ASSUME TypeOK, ViewStopped
  PROVE  /\ framePc' \in FramePcs /\ frame' \in 0 .. MaxFrames
         /\ mats' \in [Slots -> Images]
         /\ mIsTakePictureRequested' \in BOOLEAN
         /\ mTemp' \in Slots \cup {"null", "released"}
         /\ posted' \in Seq(Images) /\ saving' \in BOOLEAN
         /\ clicks' \in 0 .. MaxClicks /\ photos' \in Nat
<1>1. mats' \in [Slots -> Images]
  BY ImageTypes DEF ViewStopped
<1>2. mTemp' \in Slots \cup {"null", "released"}
  BY DEF ViewStopped
<1>3. QED
  BY <1>1, <1>2 DEF TypeOK, ViewStopped

LEMMA KilledTypes ==
  ASSUME TypeOK, Killed
  PROVE  TypeOK'
<1>1. mats' \in [Slots -> Images] /\ posted' \in Seq(Images)
  BY ImageTypes DEF Killed
<1>2. /\ loaderPc' \in [Loaders -> LoaderPcs] /\ cancelled' \in [Loaders -> BOOLEAN]
      /\ framePc' \in FramePcs
  BY DEF Killed, LoaderPcs, FramePcs
<1>3. frame' \in 0 .. MaxFrames /\ clicks' \in 0 .. MaxClicks /\ photos' \in Nat
  BY ActivityAssumption DEF Killed
<1>4. QED
  BY <1>1, <1>2, <1>3 DEF Killed, TypeOK

LEMMA InitIInv == Init => IInv
<1> SUFFICES ASSUME Init PROVE IInv
  OBVIOUS
<1> USE ActivityAssumption DEF Init
<1>1. TypeOK
  <2>1. mats \in [Slots -> Images] /\ posted \in Seq(Images)
    BY ImageTypes
  <2>2. loaderPc \in [Loaders -> LoaderPcs] /\ framePc \in FramePcs
    BY DEF LoaderPcs, FramePcs
  <2>3. /\ cancelled \in [Loaders -> BOOLEAN] /\ frame \in 0 .. MaxFrames
        /\ clicks \in 0 .. MaxClicks /\ photos \in Nat
    OBVIOUS
  <2>4. QED
    BY <2>1, <2>2, <2>3 DEF TypeOK
<1>2. CurrentLoader /\ ModelOrder /\ EnabledHasDetector /\ FrameInHand
  BY DEF CurrentLoader, ModelOrder, EnabledHasDetector, FrameInHand
<1>3. Paid
  BY DEF Paid, Asked, Posting, Requested
<1>4. QED
  BY <1>1, <1>2, <1>3 DEF IInv, LoaderInv, DetectorBeforeFrames, DestroyedIsOff

(* Every action keeps the types. *)
LEMMA TypeStep ==
  ASSUME TypeOK, FrameInHand, Paid, [Next]_vars
  PROVE  TypeOK'
<1> USE ActivityAssumption, ImageTypes
    DEF TypeOK, FrameInHand, LoaderPcs, FramePcs, Slots, Slot,
        viewVars, loaderVars, frameVars, photoVars
<1>1. CASE Create
  BY <1>1, ZenonT(30) DEF Create
<1>2. CASE SurfaceChanged
  BY <1>2, StoppedTypes DEF SurfaceChanged, ViewStopped, ViewUnchanged
<1>3. CASE Pause
  BY <1>3, StoppedTypes, ZenonT(30) DEF Pause
<1>4. CASE Resume
  BY <1>4 DEF Resume, ViewUnchanged
<1>5. CASE Stop
  BY <1>5, StoppedTypes, ZenonT(30) DEF Stop
<1>6. CASE Destroy
  BY <1>6, StoppedTypes, ZenonT(30) DEF Destroy, CancelLoader
<1>7. CASE Kill
  BY <1>7, KilledTypes DEF Kill
<1>8. CASE ClickSwitchCamera
  BY <1>8, StoppedTypes DEF ClickSwitchCamera
<1>9. CASE ClickCaptureImage
  BY <1>9 DEF ClickCaptureImage
<1>10. ASSUME NEW l \in Loaders, LoadPoseModel(l) PROVE TypeOK'
  BY <1>10 DEF LoadPoseModel, LoaderOnly, LoaderGoesTo
<1>11. ASSUME NEW l \in Loaders, PoseModelLoaded(l) PROVE TypeOK'
  BY <1>11 DEF PoseModelLoaded, LoaderOnly, LoaderGoesTo
<1>12. ASSUME NEW l \in Loaders, FindCascade(l) PROVE TypeOK'
  BY <1>12 DEF FindCascade, LoaderOnly, LoaderGoesTo
<1>13. ASSUME NEW l \in Loaders, CopyCascade(l) PROVE TypeOK'
  BY <1>13 DEF CopyCascade, LoaderOnly, LoaderGoesTo
<1>14. ASSUME NEW l \in Loaders, MakeDetector(l) PROVE TypeOK'
  <2>1. loaderPc' \in [Loaders -> LoaderPcs]
    BY <1>14 DEF MakeDetector, LoaderGoesTo
  <2>2. mNativeDetector' \in BOOLEAN
    BY <1>14 DEF MakeDetector
  <2>3. QED
    BY <1>14, <2>1, <2>2 DEF MakeDetector, LoaderOnly
<1>15. ASSUME NEW l \in Loaders, OnPostExecute(l) PROVE TypeOK'
  BY <1>15 DEF OnPostExecute, ViewUnchanged, LoaderGoesTo
<1>16. ASSUME NEW l \in Loaders, OnCancelled(l) PROVE TypeOK'
  BY <1>16 DEF OnCancelled, LoaderOnly, LoaderGoesTo
<1>17. CASE FrameArrives
  <2>1. frame' \in 0 .. MaxFrames /\ frame + 1 \in 1 .. MaxFrames
    BY <1>17 DEF FrameArrives
  <2>2. mats' \in [Slots -> Images]
    BY <1>17, <2>1 DEF FrameArrives
  <2>3. QED
    BY <1>17, <2>1, <2>2 DEF FrameArrives, WorkerOnly
<1>18. CASE Detect
  <2>1. CASE mNativeDetector
    BY <1>18, <2>1 DEF Detect, WorkerOnly
  <2>2. CASE ~mNativeDetector
    BY <1>18, <2>2, KilledTypes DEF Detect
  <2>3. QED
    BY <2>1, <2>2
<1>19. CASE SwapFaces
  <2>1. frame \in 1 .. MaxFrames
    BY <1>19 DEF SwapFaces
  <2>2. mats' \in [Slots -> Images]
    BY <1>19, <2>1 DEF SwapFaces
  <2>3. QED
    BY <1>19, <2>2 DEF SwapFaces, WorkerOnly
<1>20. CASE CheckRequest
  BY <1>20 DEF CheckRequest, WorkerOnly
<1>21. CASE ClearRequest
  <2>1. framePc' \in FramePcs /\ mIsTakePictureRequested' \in BOOLEAN
    BY <1>21 DEF ClearRequest
  <2>2. QED
    BY <1>21, <2>1 DEF ClearRequest, WorkerOnly
<1>22. CASE RunTakePictureTask
  BY <1>22 DEF RunTakePictureTask, WorkerOnly
<1>23. CASE TakePictureBegins
  BY <1>23 DEF TakePictureBegins
<1>24. CASE TakePictureEnds
  <2>1. posted' \in Seq(Images)
    BY <1>24 DEF TakePictureEnds, Paid
  <2>2. photos' \in {photos, photos + 1}
    BY <1>24 DEF TakePictureEnds
  <2>3. photos' \in Nat
    BY <2>2
  <2>4. /\ UNCHANGED <<viewVars, loaderVars, cascade, frameVars,
                       mIsTakePictureRequested, mTemp, clicks, switchedEarly>>
        /\ saving' \in BOOLEAN
    BY <1>24 DEF TakePictureEnds
  <2>5. QED
    BY <2>1, <2>3, <2>4
<1>25. CASE UNCHANGED vars
  BY <1>25 DEF vars
<1>26. QED
  BY <1>1, <1>2, <1>3, <1>4, <1>5, <1>6, <1>7, <1>8, <1>9, <1>10, <1>11, <1>12, <1>13, <1>14, <1>15, <1>16, <1>17, <1>18, <1>19, <1>20, <1>21, <1>22, <1>23, <1>24, <1>25
  DEF Next, LifeCycle, Click, Background, LoaderResult, OnCameraFrame, TakePicture

(* The loader, the life cycle and the worker: the part of the invariant    *)
(* about the model and the detector.                                       *)
LEMMA LoaderStep ==
  ASSUME TypeOK, LoaderInv, [Next]_vars
  PROVE  LoaderInv'
<1> USE ActivityAssumption
    DEF TypeOK, LoaderInv, CurrentLoader, ModelOrder, EnabledHasDetector,
        FrameInHand, DetectorBeforeFrames, DestroyedIsOff, viewVars, loaderVars, frameVars, photoVars
<1>1. CASE Create
  BY <1>1 DEF Create
<1>2. CASE SurfaceChanged
  BY <1>2 DEF SurfaceChanged, ViewStopped, ViewUnchanged
<1>3. CASE Pause
  BY <1>3 DEF Pause, ViewStopped
<1>4. CASE Resume
  BY <1>4 DEF Resume, ViewUnchanged
<1>5. CASE Stop
  BY <1>5 DEF Stop, ViewStopped
<1>6. CASE Destroy
  BY <1>6 DEF Destroy, ViewStopped, CancelLoader
<1>7. CASE Kill
  BY <1>7 DEF Kill, Killed
<1>8. CASE ClickSwitchCamera
  BY <1>8 DEF ClickSwitchCamera, ViewStopped
<1>9. CASE ClickCaptureImage
  BY <1>9 DEF ClickCaptureImage
<1>10. ASSUME NEW l \in Loaders, LoadPoseModel(l) PROVE LoaderInv'
  BY <1>10 DEF LoadPoseModel, LoaderOnly, LoaderGoesTo
<1>11. ASSUME NEW l \in Loaders, PoseModelLoaded(l) PROVE LoaderInv'
  BY <1>11 DEF PoseModelLoaded, LoaderOnly, LoaderGoesTo
<1>12. ASSUME NEW l \in Loaders, FindCascade(l) PROVE LoaderInv'
  BY <1>12 DEF FindCascade, LoaderOnly, LoaderGoesTo
<1>13. ASSUME NEW l \in Loaders, CopyCascade(l) PROVE LoaderInv'
  BY <1>13 DEF CopyCascade, LoaderOnly, LoaderGoesTo
<1>14. ASSUME NEW l \in Loaders, MakeDetector(l) PROVE LoaderInv'
  <2>1. CASE cascade = "whole"
    <3>1. /\ loaderPc' = [loaderPc EXCEPT ![l] = "succeeded"]
          /\ mNativeDetector' <=> (mNativeDetector \/ l = mRuntimeFilesLoaderTask)
      BY <1>14, <2>1 DEF MakeDetector, LoaderGoesTo
    <3>2. QED
      BY <1>14, <3>1 DEF MakeDetector, LoaderOnly
  <2>2. CASE cascade # "whole"
    BY <1>14, <2>2 DEF MakeDetector, LoaderOnly, LoaderGoesTo
  <2>3. QED
    BY <2>1, <2>2
<1>15. ASSUME NEW l \in Loaders, OnPostExecute(l) PROVE LoaderInv'
  BY <1>15 DEF OnPostExecute, ViewUnchanged, LoaderGoesTo
<1>16. ASSUME NEW l \in Loaders, OnCancelled(l) PROVE LoaderInv'
  BY <1>16 DEF OnCancelled, LoaderOnly, LoaderGoesTo
<1>17. CASE FrameArrives
  BY <1>17 DEF FrameArrives, WorkerOnly
<1>18. CASE Detect
  <2>1. CASE mNativeDetector
    BY <1>18, <2>1 DEF Detect, WorkerOnly
  <2>2. CASE ~mNativeDetector
    BY <1>18, <2>2 DEF Detect, Killed
  <2>3. QED
    BY <2>1, <2>2
<1>19. CASE SwapFaces
  BY <1>19 DEF SwapFaces, WorkerOnly
<1>20. CASE CheckRequest
  BY <1>20 DEF CheckRequest, WorkerOnly
<1>21. CASE ClearRequest
  BY <1>21 DEF ClearRequest, WorkerOnly
<1>22. CASE RunTakePictureTask
  BY <1>22 DEF RunTakePictureTask, WorkerOnly
<1>23. CASE TakePictureBegins
  BY <1>23 DEF TakePictureBegins
<1>24. CASE TakePictureEnds
  BY <1>24 DEF TakePictureEnds, SavedImage
<1>25. CASE UNCHANGED vars
  BY <1>25 DEF vars
<1>26. QED
  BY <1>1, <1>2, <1>3, <1>4, <1>5, <1>6, <1>7, <1>8, <1>9, <1>10, <1>11, <1>12, <1>13, <1>14, <1>15, <1>16, <1>17, <1>18, <1>19, <1>20, <1>21, <1>22, <1>23, <1>24, <1>25
  DEF Next, LifeCycle, Click, Background, LoaderResult, OnCameraFrame, TakePicture

(* The account is one of natural numbers. *)
LEMMA AskedTypes ==
  ASSUME TypeOK
  PROVE  /\ Len(posted) \in Nat /\ Asked \in Nat
         /\ photos \in Nat /\ clicks \in Nat
         /\ Posting \in {0, 1} /\ Requested \in {0, 1}
<1>1. posted \in Seq(Images) /\ photos \in Nat /\ clicks \in Nat
  BY ActivityAssumption DEF TypeOK
<1>2. Len(posted) \in Nat
  BY <1>1
<1>3. Posting \in {0, 1} /\ Requested \in {0, 1}
  BY DEF Posting, Requested
<1>4. QED
  BY <1>1, <1>2, <1>3 DEF Asked

(* Every action keeps the account of the photos. *)
LEMMA PhotoStep ==
  ASSUME TypeOK, DestroyedIsOff, Paid, [Next]_vars
  PROVE  Paid'
<1> USE ActivityAssumption
    DEF TypeOK, DestroyedIsOff, Paid, Asked, Posting, Requested, viewVars, loaderVars, frameVars, photoVars
<1>1. CASE Create
  BY <1>1 DEF Create
<1>2. CASE SurfaceChanged
  BY <1>2 DEF SurfaceChanged, ViewStopped, ViewUnchanged
<1>3. CASE Pause
  BY <1>3 DEF Pause, ViewStopped
<1>4. CASE Resume
  BY <1>4 DEF Resume, ViewUnchanged
<1>5. CASE Stop
  BY <1>5 DEF Stop, ViewStopped
<1>6. CASE Destroy
  BY <1>6 DEF Destroy, ViewStopped, CancelLoader
<1>7. CASE Kill
  BY <1>7 DEF Kill, Killed
<1>8. CASE ClickSwitchCamera
  BY <1>8 DEF ClickSwitchCamera, ViewStopped
<1>9. CASE ClickCaptureImage
  <2>1. posted' = posted /\ photos' = photos /\ clicks' = clicks + 1
    BY <1>9 DEF ClickCaptureImage
  <2>2. Posting' = Posting /\ Requested' = 1
    BY <1>9 DEF ClickCaptureImage
  <2>3. saving' => posted' # <<>>
    BY <1>9 DEF ClickCaptureImage
  <2>4. photos + Asked <= clicks
    BY DEF Paid
  <2> HIDE DEF Paid, Posting, Requested, TypeOK
  <2>5. photos' + Asked' <= clicks'
    BY <2>1, <2>2, <2>4, AskedTypes DEF Asked
  <2>6. QED
    BY <2>3, <2>5 DEF Paid
<1>10. ASSUME NEW l \in Loaders, LoadPoseModel(l) PROVE Paid'
  BY <1>10 DEF LoadPoseModel, LoaderOnly, LoaderGoesTo
<1>11. ASSUME NEW l \in Loaders, PoseModelLoaded(l) PROVE Paid'
  BY <1>11 DEF PoseModelLoaded, LoaderOnly, LoaderGoesTo
<1>12. ASSUME NEW l \in Loaders, FindCascade(l) PROVE Paid'
  BY <1>12 DEF FindCascade, LoaderOnly, LoaderGoesTo
<1>13. ASSUME NEW l \in Loaders, CopyCascade(l) PROVE Paid'
  BY <1>13 DEF CopyCascade, LoaderOnly, LoaderGoesTo
<1>14. ASSUME NEW l \in Loaders, MakeDetector(l) PROVE Paid'
  BY <1>14 DEF MakeDetector, LoaderOnly, LoaderGoesTo
<1>15. ASSUME NEW l \in Loaders, OnPostExecute(l) PROVE Paid'
  BY <1>15 DEF OnPostExecute, ViewUnchanged, LoaderGoesTo
<1>16. ASSUME NEW l \in Loaders, OnCancelled(l) PROVE Paid'
  BY <1>16 DEF OnCancelled, LoaderOnly, LoaderGoesTo
<1>17. CASE FrameArrives
  BY <1>17 DEF FrameArrives, WorkerOnly
<1>18. CASE Detect
  <2>1. CASE mNativeDetector
    BY <1>18, <2>1 DEF Detect, WorkerOnly
  <2>2. CASE ~mNativeDetector
    BY <1>18, <2>2 DEF Detect, Killed
  <2>3. QED
    BY <2>1, <2>2
<1>19. CASE SwapFaces
  BY <1>19 DEF SwapFaces, WorkerOnly
<1>20. CASE CheckRequest
  BY <1>20 DEF CheckRequest, WorkerOnly
<1>21. CASE ClearRequest
  BY <1>21 DEF ClearRequest, WorkerOnly
<1>22. CASE RunTakePictureTask
  BY <1>22 DEF RunTakePictureTask, WorkerOnly
<1>23. CASE TakePictureBegins
  BY <1>23 DEF TakePictureBegins
<1>24. CASE TakePictureEnds
  <2>1. Len(posted') = Len(posted) - 1
    BY <1>24 DEF TakePictureEnds
  <2>2. photos' \in {photos, photos + 1} /\ ~saving'
    BY <1>24 DEF TakePictureEnds
  <2>3. Asked' = Asked - 1
    BY <1>24, <2>1, AskedTypes DEF TakePictureEnds
  <2>4. photos' + Asked' <= clicks'
    <3>1. clicks' = clicks /\ photos + Asked <= clicks
      BY <1>24 DEF TakePictureEnds
    <3> HIDE DEF Asked, Paid, TypeOK
    <3>2. QED
      BY <2>2, <2>3, <3>1, AskedTypes
  <2>5. QED
    BY <2>2, <2>4
<1>25. CASE UNCHANGED vars
  BY <1>25 DEF vars
<1>26. QED
  BY <1>1, <1>2, <1>3, <1>4, <1>5, <1>6, <1>7, <1>8, <1>9, <1>10, <1>11, <1>12, <1>13, <1>14, <1>15, <1>16, <1>17, <1>18, <1>19, <1>20, <1>21, <1>22, <1>23, <1>24, <1>25
  DEF Next, LifeCycle, Click, Background, LoaderResult, OnCameraFrame, TakePicture

LEMMA Invariance == Spec => []IInv
<1>1. IInv /\ [Next]_vars => IInv'
  BY TypeStep, LoaderStep, PhotoStep DEF IInv, LoaderInv
<1>2. QED
  BY InitIInv, <1>1, PTL DEF Spec

-----------------------------------------------------------------------------
(* The variables keep their types, for any loaders, frames and clicks.     *)
THEOREM TypeCorrect == Spec => []TypeOK
<1>1. IInv => TypeOK
  BY DEF IInv
<1>2. QED
  BY <1>1, Invariance, PTL

(* swapFaces never runs on a model that is missing, partly read or being   *)
(* written, as long as loaders do not overlap (RuntimeFilesLoaderTask).    *)
THEOREM SwapsUseWholeModel == Spec => []ModelUsable
<1>1. IInv => ModelUsable
  BY DEF IInv, LoaderInv, ModelOrder, FrameInHand, ModelUsable
<1>2. QED
  BY <1>1, Invariance, PTL

(* Every frame finds a detector, unless the camera was switched before the *)
(* files were loaded (onPostExecute, onResume, onCameraFrame).             *)
THEOREM DetectorComesFirst == Spec => []DetectorBeforeFrames
<1>1. IInv => DetectorBeforeFrames
  BY DEF IInv, LoaderInv
<1>2. QED
  BY <1>1, Invariance, PTL

(* No loader left behind enables the view of a destroyed activity          *)
(* (onDestroy, onPostExecute).                                             *)
THEOREM DestroyedStaysOff == Spec => []DestroyedIsOff
<1>1. IInv => DestroyedIsOff
  BY DEF IInv, LoaderInv
<1>2. QED
  BY <1>1, Invariance, PTL

(* A click makes one photo at most and there is none without a click, for  *)
(* any order of frames, clicks and saves (onCameraFrame, takePicture).     *)
THEOREM PhotosAreAskedFor == Spec => []NoUnaskedPhoto
<1>1. IInv => NoUnaskedPhoto
  <2> SUFFICES ASSUME IInv PROVE NoUnaskedPhoto
    OBVIOUS
  <2>1. Requests <= Asked /\ Requests \in Nat
    <3> DEFINE Now == IF framePc \in {"clear", "post"} THEN 1 ELSE 0
    <3>1. Now \in {0, 1} /\ Now <= Posting + Requested
      BY DEF Posting, Requested
    <3>2. Requests = Len(posted) + Now
      BY DEF Requests
    <3> HIDE DEF Now
    <3>3. QED
      BY <3>1, <3>2, AskedTypes DEF IInv, Asked
  <2>2. photos + Asked <= clicks
    BY DEF IInv, Paid
  <2>3. photos \in Nat /\ clicks \in Nat /\ Asked \in Nat
    BY AskedTypes DEF IInv
  <2>4. QED
    BY <2>1, <2>2, <2>3 DEF NoUnaskedPhoto
<1>2. QED
  BY <1>1, Invariance, PTL
=============================================================================
