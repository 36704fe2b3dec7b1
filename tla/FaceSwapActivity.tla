-------------------------- MODULE FaceSwapActivity --------------------------
(***************************************************************************)
(* FaceSwapActivity: its life cycle, the task that loads its run-time      *)
(* files, its onCameraFrame and the photos it takes.                       *)
(*                                                                         *)
(* Threads: the UI thread (life cycle, clicks, the results of tasks, the   *)
(* runnables posted by onCameraFrame), one thread per loader task, and the *)
(* camera worker.  The camera view is taken as what CameraView proves of   *)
(* it: it runs when it is enabled and has a surface, calls onCameraFrame   *)
(* one frame at a time, uses two Mats in turn, and returns from a stop     *)
(* only when the worker is out of the callback.  So an action of the UI    *)
(* thread that stops the view waits for framePc = "idle".                  *)
(*                                                                         *)
(* Loaders of destroyed activities are cancelled but run on, and all of    *)
(* them write one global face_predictor_model.                             *)
(***************************************************************************)
EXTENDS Naturals, Sequences

CONSTANTS
  Loaders,    \* identities of loader tasks, reused once they are over
  NoLoader,   \* the null of mRuntimeFilesLoaderTask
  MaxFrames,  \* bound on the frames of a process
  MaxClicks   \* bound on the clicks on the capture button

ASSUME ActivityAssumption ==
  NoLoader \notin Loaders /\ MaxFrames \in Nat /\ MaxClicks \in Nat

VARIABLES
  life,                     \* "none", "resumed", "paused" or "stopped"
  enabled, surface,         \* of the camera view of this activity
  mRuntimeFilesLoaderTask, mIsRuntimeFilesLoaded,
  mNativeDetector,          \* it is not null
  loaderPc, cancelled,      \* of each loader task
  model,                    \* face_predictor_model
  cascade,                  \* the file copyCascade makes; it outlives the process
  framePc,                  \* where onCameraFrame is
  frame,                    \* the number of the last frame delivered
  mats,                     \* the RGBA images of the two camera frames
  mIsTakePictureRequested,
  mTemp,                    \* the Mat to be saved
  posted,                   \* what each posted takePicture was asked to save
  saving,                   \* the UI thread is in takePicture
  clicks, photos,           \* history: capture clicks made, photos saved
  overlapped,               \* history: a loader was started beside another
  switchedEarly             \* history: switchCamera before the files were loaded

viewVars == <<life, enabled, surface>>
loaderVars == <<mRuntimeFilesLoaderTask, mIsRuntimeFilesLoaded, mNativeDetector,
                loaderPc, cancelled, model, overlapped>>
frameVars == <<framePc, frame, mats>>
photoVars == <<mIsTakePictureRequested, mTemp, posted, saving, clicks, photos>>

vars == <<viewVars, loaderVars, cascade, frameVars, photoVars, switchedEarly>>

Slots == {"even", "odd"}
Slot(n) == IF n % 2 = 0 THEN "even" ELSE "odd"

(* The image of a frame before and after swapFaces, or an empty Mat. *)
Released == [of |-> 0, as |-> "released"]
Images == {Released} \cup [of : 1 .. MaxFrames, as : {"camera", "swapped"}]

LoaderPcs == {"none", "queued", "model", "cascade", "copy", "detector",
              "succeeded", "failed"}
FramePcs == {"idle", "detect", "swap", "check", "clear", "post"}

TypeOK ==
  /\ life \in {"none", "resumed", "paused", "stopped"}
  /\ enabled \in BOOLEAN /\ surface \in BOOLEAN
  /\ mRuntimeFilesLoaderTask \in Loaders \cup {NoLoader}
  /\ mIsRuntimeFilesLoaded \in BOOLEAN /\ mNativeDetector \in BOOLEAN
  /\ loaderPc \in [Loaders -> LoaderPcs]
  /\ cancelled \in [Loaders -> BOOLEAN]
  /\ model \in {"empty", "partial", "whole", "raced"}
  /\ cascade \in {"absent", "partial", "whole"}
  /\ framePc \in FramePcs
  /\ frame \in 0 .. MaxFrames
  /\ mats \in [Slots -> Images]
  /\ mIsTakePictureRequested \in BOOLEAN
  /\ mTemp \in Slots \cup {"null", "released"}
  /\ posted \in Seq(Images)
  /\ saving \in BOOLEAN
  /\ clicks \in 0 .. MaxClicks /\ photos \in Nat
  /\ overlapped \in BOOLEAN /\ switchedEarly \in BOOLEAN

Init ==
  /\ life = "none" /\ enabled = FALSE /\ surface = FALSE
  /\ mRuntimeFilesLoaderTask = NoLoader
  /\ mIsRuntimeFilesLoaded = FALSE /\ mNativeDetector = FALSE
  /\ loaderPc = [l \in Loaders |-> "none"]
  /\ cancelled = [l \in Loaders |-> FALSE]
  /\ model = "empty" /\ cascade = "absent"
  /\ framePc = "idle" /\ frame = 0 /\ mats = [s \in Slots |-> Released]
  /\ mIsTakePictureRequested = FALSE /\ mTemp = "null"
  /\ posted = <<>> /\ saving = FALSE /\ clicks = 0 /\ photos = 0
  /\ overlapped = FALSE /\ switchedEarly = FALSE

-----------------------------------------------------------------------------
(* The camera view, as the activity uses it. *)

UiFree == ~saving

(* disableView, or a lost surface: the worker has left onCameraFrame, the  *)
(* Mats of the connection are released, and with them the one mTemp names. *)
ViewStopped ==
  /\ framePc = "idle"
  /\ mats' = [s \in Slots |-> Released]
  /\ mTemp' = IF mTemp = "null" THEN "null" ELSE "released"
  /\ UNCHANGED <<framePc, frame, mIsTakePictureRequested, posted, saving,
                 clicks, photos>>

ViewUnchanged == UNCHANGED <<frameVars, photoVars>>

-----------------------------------------------------------------------------
(* The life cycle. *)

(* A mutant: a cancelled loader is only forgotten. *)
ForgetLoader ==
  /\ mRuntimeFilesLoaderTask' = NoLoader
  /\ UNCHANGED <<cancelled, loaderPc>>

(* mRuntimeFilesLoaderTask.cancel(true): a task in the queue is dropped, a *)
(* running one runs on.                                                    *)
CancelLoader ==
  /\ mRuntimeFilesLoaderTask' = NoLoader
  /\ cancelled' = [l \in Loaders |-> cancelled[l] \/ l = mRuntimeFilesLoaderTask]
  /\ loaderPc' = [l \in Loaders |->
                    IF l = mRuntimeFilesLoaderTask /\ loaderPc[l] = "queued"
                    THEN "failed" ELSE loaderPc[l]]

(* onCreate finds the OpenCV library in the package and starts the loader; *)
(* onResume follows at once and finds nothing loaded yet.  What an earlier *)
(* activity posted has been handled by now.                                *)
Create ==
  /\ life = "none" /\ UiFree /\ posted = <<>>
  /\ life' = "resumed"
  /\ mIsRuntimeFilesLoaded' = FALSE /\ mNativeDetector' = FALSE
  /\ mIsTakePictureRequested' = FALSE /\ mTemp' = "null"
  /\ switchedEarly' = FALSE
  /\ \E l \in Loaders :
       /\ loaderPc[l] = "none"
       /\ mRuntimeFilesLoaderTask' = l
       /\ loaderPc' = [loaderPc EXCEPT ![l] = "queued"]
       /\ cancelled' = [cancelled EXCEPT ![l] = FALSE]
  /\ overlapped' = (overlapped \/ \E l \in Loaders : loaderPc[l] # "none")
  /\ UNCHANGED <<enabled, surface, model, cascade, frameVars,
                 posted, saving, clicks, photos>>

(* The window manager hands the view a surface, or changes the one it has, *)
(* which stops the view and starts it again.                               *)
SurfaceChanged ==
  /\ life \in {"resumed", "paused"} /\ UiFree
  /\ surface' = TRUE
  /\ IF surface THEN ViewStopped ELSE ViewUnchanged
  /\ UNCHANGED <<life, enabled, loaderVars, cascade, switchedEarly>>

Pause ==
  /\ life = "resumed" /\ UiFree
  /\ life' = "paused" /\ enabled' = FALSE
  /\ ViewStopped /\ UNCHANGED <<surface, loaderVars, cascade, switchedEarly>>

(* A mutant: onResume does not ask whether the files are loaded. *)
ResumeUnguarded ==
  /\ life \in {"paused", "stopped"} /\ UiFree
  /\ life' = "resumed" /\ enabled' = TRUE
  /\ ViewUnchanged /\ UNCHANGED <<surface, loaderVars, cascade, switchedEarly>>

Resume ==
  /\ life \in {"paused", "stopped"} /\ UiFree
  /\ life' = "resumed"
  /\ enabled' = (enabled \/ mIsRuntimeFilesLoaded)
  /\ ViewUnchanged /\ UNCHANGED <<surface, loaderVars, cascade, switchedEarly>>

(* The activity is no longer visible, and its surface is destroyed. *)
Stop ==
  /\ life = "paused" /\ UiFree
  /\ life' = "stopped" /\ surface' = FALSE
  /\ ViewStopped /\ UNCHANGED <<enabled, loaderVars, cascade, switchedEarly>>

Destroy ==
  /\ life = "stopped" /\ UiFree
  /\ life' = "none" /\ enabled' = FALSE
  /\ CancelLoader
  /\ ViewStopped
  /\ UNCHANGED <<surface, mIsRuntimeFilesLoaded, mNativeDetector, model, overlapped,
                 cascade, switchedEarly>>

(* The process dies; only the cascade file survives. *)
Killed ==
  /\ life' = "none" /\ enabled' = FALSE /\ surface' = FALSE
  /\ mRuntimeFilesLoaderTask' = NoLoader
  /\ mIsRuntimeFilesLoaded' = FALSE /\ mNativeDetector' = FALSE
  /\ loaderPc' = [l \in Loaders |-> "none"]
  /\ cancelled' = [l \in Loaders |-> FALSE]
  /\ model' = "empty"
  /\ framePc' = "idle" /\ frame' = 0 /\ mats' = [s \in Slots |-> Released]
  /\ mIsTakePictureRequested' = FALSE /\ mTemp' = "null"
  /\ posted' = <<>> /\ saving' = FALSE /\ clicks' = 0 /\ photos' = 0
  /\ overlapped' = FALSE /\ switchedEarly' = FALSE
  /\ UNCHANGED cascade

Kill == life # "none" /\ Killed

-----------------------------------------------------------------------------
(* The buttons. *)

(* switchCamera disables and enables the view, loaded or not. *)
ClickSwitchCamera ==
  /\ life = "resumed" /\ UiFree
  /\ enabled' = TRUE
  /\ switchedEarly' = (switchedEarly \/ ~mIsRuntimeFilesLoaded)
  /\ ViewStopped /\ UNCHANGED <<life, surface, loaderVars, cascade>>

ClickCaptureImage ==
  /\ life = "resumed" /\ UiFree /\ clicks < MaxClicks
  /\ mIsTakePictureRequested' = TRUE
  /\ clicks' = clicks + 1
  /\ UNCHANGED <<viewVars, loaderVars, cascade, frameVars, mTemp, posted, saving,
                 photos, switchedEarly>>

-----------------------------------------------------------------------------
(* The loader task: doInBackground, then its result on the UI thread. *)

LoaderOnly == UNCHANGED <<viewVars, mRuntimeFilesLoaderTask, mIsRuntimeFilesLoaded,
                          cancelled, overlapped, frameVars, photoVars, switchedEarly>>

LoaderGoesTo(l, pc) == loaderPc' = [loaderPc EXCEPT ![l] = pc]

(* A mutant: the detector is published before the model is loaded. *)
LoadPoseModelLast(l) ==
  /\ loaderPc[l] = "queued"
  /\ LoaderGoesTo(l, "model")
  /\ model' = "partial"
  /\ mNativeDetector' = (mNativeDetector \/ l = mRuntimeFilesLoaderTask)
  /\ LoaderOnly /\ UNCHANGED cascade

(* loadPoseModel begins to assign face_predictor_model.  Two threads that  *)
(* assign it at once leave it in a state nothing is known of.              *)
LoadPoseModel(l) ==
  /\ loaderPc[l] = "queued"
  /\ LoaderGoesTo(l, "model")
  /\ model' = IF model = "raced" \/ \E k \in Loaders : loaderPc[k] = "model"
              THEN "raced" ELSE "partial"
  /\ LoaderOnly /\ UNCHANGED <<mNativeDetector, cascade>>

(* ... and returns, true or false (an absent or broken landmarks file).    *)
PoseModelLoaded(l) ==
  /\ loaderPc[l] = "model"
  /\ \/ LoaderGoesTo(l, "cascade") /\ model' = IF model = "raced" THEN "raced" ELSE "whole"
     \/ LoaderGoesTo(l, "failed") /\ UNCHANGED model
  /\ LoaderOnly /\ UNCHANGED <<mNativeDetector, cascade>>

(* copyCascade takes any file that exists for a whole one. *)
FindCascade(l) ==
  /\ loaderPc[l] = "cascade"
  /\ IF cascade = "absent"
     THEN LoaderGoesTo(l, "copy") /\ cascade' = "partial"
     ELSE LoaderGoesTo(l, "detector") /\ UNCHANGED cascade
  /\ LoaderOnly /\ UNCHANGED <<mNativeDetector, model>>

CopyCascade(l) ==
  /\ loaderPc[l] = "copy"
  /\ \/ LoaderGoesTo(l, "detector") /\ cascade' = "whole"
     \/ LoaderGoesTo(l, "failed") /\ UNCHANGED cascade
  /\ LoaderOnly /\ UNCHANGED <<mNativeDetector, model>>

(* The native detector is made of the cascade file and started; it throws  *)
(* for a file that is not whole.  mNativeDetector belongs to the activity  *)
(* that started the task.                                                  *)
MakeDetector(l) ==
  /\ loaderPc[l] = "detector"
  /\ IF cascade = "whole"
     THEN /\ LoaderGoesTo(l, "succeeded")
          /\ mNativeDetector' = (mNativeDetector \/ l = mRuntimeFilesLoaderTask)
     ELSE LoaderGoesTo(l, "failed") /\ UNCHANGED mNativeDetector
  /\ LoaderOnly /\ UNCHANGED <<model, cascade>>

(* onPostExecute enables the view whatever the activity is doing. *)
OnPostExecute(l) ==
  /\ loaderPc[l] \in {"succeeded", "failed"} /\ ~cancelled[l] /\ UiFree
  /\ LoaderGoesTo(l, "none")
  /\ mRuntimeFilesLoaderTask' = NoLoader
  /\ mIsRuntimeFilesLoaded' = (loaderPc[l] = "succeeded")
  /\ enabled' = (enabled \/ loaderPc[l] = "succeeded")
  /\ ViewUnchanged
  /\ UNCHANGED <<life, surface, mNativeDetector, cancelled, model, overlapped,
                 cascade, switchedEarly>>

(* The result of a cancelled task is dropped. *)
OnCancelled(l) ==
  /\ loaderPc[l] \in {"succeeded", "failed"} /\ cancelled[l] /\ UiFree
  /\ LoaderGoesTo(l, "none")
  /\ LoaderOnly /\ UNCHANGED <<mNativeDetector, model, cascade>>

-----------------------------------------------------------------------------
(* onCameraFrame, on the camera worker. *)

WorkerOnly == UNCHANGED <<viewVars, loaderVars, cascade, switchedEarly>>

(* The worker calls back with the next frame, and rgba() converts it into  *)
(* the Mat of its slot.                                                    *)
FrameArrives ==
  /\ enabled /\ surface /\ framePc = "idle" /\ frame < MaxFrames
  /\ frame' = frame + 1
  /\ mats' = [mats EXCEPT ![Slot(frame + 1)] = [of |-> frame + 1, as |-> "camera"]]
  /\ framePc' = "detect"
  /\ WorkerOnly /\ UNCHANGED photoVars

(* Two faces or not.  Without a detector the first call already is on a    *)
(* null reference, and the uncaught exception ends the process.            *)
Detect ==
  /\ framePc = "detect"
  /\ IF mNativeDetector
     THEN /\ framePc' \in {"swap", "check"}
          /\ WorkerOnly /\ UNCHANGED <<frame, mats, photoVars>>
     ELSE Killed

SwapFaces ==
  /\ framePc = "swap"
  /\ mats' = [mats EXCEPT ![Slot(frame)] = [of |-> frame, as |-> "swapped"]]
  /\ framePc' = "check"
  /\ WorkerOnly /\ UNCHANGED <<frame, photoVars>>

CheckRequest ==
  /\ framePc = "check"
  /\ IF mIsTakePictureRequested
     THEN mTemp' = Slot(frame) /\ framePc' = "clear"
     ELSE framePc' = "idle" /\ UNCHANGED mTemp
  /\ WorkerOnly
  /\ UNCHANGED <<frame, mats, mIsTakePictureRequested, posted, saving, clicks, photos>>

(* A mutant: the request is not cleared. *)
RequestKept ==
  /\ framePc = "clear"
  /\ framePc' = "post"
  /\ WorkerOnly /\ UNCHANGED <<frame, mats, photoVars>>

ClearRequest ==
  /\ framePc = "clear"
  /\ mIsTakePictureRequested' = FALSE
  /\ framePc' = "post"
  /\ WorkerOnly /\ UNCHANGED <<frame, mats, mTemp, posted, saving, clicks, photos>>

(* runTakePictureTask posts the rest to the UI thread. *)
RunTakePictureTask ==
  /\ framePc = "post"
  /\ posted' = Append(posted, mats[Slot(frame)])
  /\ framePc' = "idle"
  /\ WorkerOnly
  /\ UNCHANGED <<frame, mats, mIsTakePictureRequested, mTemp, saving, clicks, photos>>

-----------------------------------------------------------------------------
(* takePicture, on the UI thread, with what mTemp refers to by then. *)

SavedImage == IF mTemp \in Slots THEN mats[mTemp] ELSE Released

TakePictureBegins ==
  /\ UiFree /\ posted # <<>>
  /\ saving' = TRUE
  /\ UNCHANGED <<viewVars, loaderVars, cascade, frameVars, mIsTakePictureRequested,
                 mTemp, posted, clicks, photos, switchedEarly>>

(* An empty Mat makes no bitmap, and a write may fail: then there is no    *)
(* photo.                                                                  *)
TakePictureEnds ==
  /\ saving
  /\ saving' = FALSE
  /\ posted' = Tail(posted)
  /\ \/ photos' = photos + 1 /\ SavedImage # Released
     \/ UNCHANGED photos
  /\ UNCHANGED <<viewVars, loaderVars, cascade, frameVars, mIsTakePictureRequested,
                 mTemp, clicks, switchedEarly>>

-----------------------------------------------------------------------------
LifeCycle == \/ Create \/ SurfaceChanged \/ Pause \/ Resume \/ Stop \/ Destroy \/ Kill

Click == ClickSwitchCamera \/ ClickCaptureImage

Background(l) == \/ LoadPoseModel(l) \/ PoseModelLoaded(l)
                 \/ FindCascade(l) \/ CopyCascade(l) \/ MakeDetector(l)

LoaderResult(l) == OnPostExecute(l) \/ OnCancelled(l)

OnCameraFrame == \/ FrameArrives \/ Detect \/ SwapFaces
                 \/ CheckRequest \/ ClearRequest \/ RunTakePictureTask

TakePicture == TakePictureBegins \/ TakePictureEnds

Next == \/ LifeCycle \/ Click \/ OnCameraFrame \/ TakePicture
        \/ \E l \in Loaders : Background(l) \/ LoaderResult(l)

Spec == Init /\ [][Next]_vars

-----------------------------------------------------------------------------
(* Properties. *)

(* swapFaces uses a model that is loaded and that no thread is writing, as *)
(* long as loaders of successive activities do not overlap: publishing     *)
(* mNativeDetector after loadPoseModel is what keeps frames away from it.  *)
ModelUsable == framePc = "swap" /\ ~overlapped => model = "whole"

(* No frame is delivered before there is a detector, however the loader    *)
(* and the life cycle interleave, unless the switch button was used before *)
(* the files were loaded.                                                  *)
DetectorBeforeFrames == framePc # "idle" /\ ~switchedEarly => mNativeDetector

(* A destroyed activity never uses the camera again: the loader it left    *)
(* behind cannot enable its view.                                          *)
DestroyedIsOff == life = "none" => ~enabled /\ framePc = "idle"

(* However clicks and frames interleave, a click makes one photo at most   *)
(* and no photo is made without one.                                       *)
Requests == Len(posted) + (IF framePc \in {"clear", "post"} THEN 1 ELSE 0)
NoUnaskedPhoto == photos + Requests <= clicks

(* CameraBridgeViewBase.java, line 177: "Do not use objects, that          *)
(* represents this interface out of onCameraFrame callback!"  takePicture  *)
(* does, through mTemp; what it saves should be what it was asked to.      *)
PhotoIsFrame == saving => SavedImage = Head(posted)

(* privacy-policy.txt, line 5: "Faces processed in real time and never     *)
(* saved anywhere."                                                        *)
NeverSaved == photos = 0
=============================================================================
