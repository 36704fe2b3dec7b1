----------------------------- MODULE CameraView -----------------------------
(***************************************************************************)
(* The camera view of the application: ExtendedCameraView, with the        *)
(* JavaCameraView and CameraBridgeViewBase it inherits from.               *)
(*                                                                         *)
(* Three parties share its state.                                          *)
(*   - The UI thread runs the surface callbacks, enableView, disableView,  *)
(*     switchCamera and (because it is the thread that opened the camera)  *)
(*     onPreviewFrame, one handler at a time.                              *)
(*   - A CameraWorker thread takes frames out of a chain of two buffers    *)
(*     and hands them to the listener.                                     *)
(*   - The camera (external) fills the one callback buffer it was given.   *)
(*                                                                         *)
(* The UI handlers all run under mSyncObject, which no other thread takes, *)
(* so uiPc and todo say where the running handler is.  The Java monitor of *)
(* the view protects the chain: a critical section of the worker is one    *)
(* action, and the one of onPreviewFrame lasts as long as uiPc = "put".    *)
(***************************************************************************)
EXTENDS Integers, Sequences

CONSTANTS
  Workers,    \* identities of CameraWorker threads, reused once terminated
  NoWorker,   \* the null of mThread
  Cameras,    \* the cameras the device has, a subset of {"back", "front"}
  MaxFrames   \* bound on the frames the camera takes

ASSUME CameraAssumption ==
  /\ NoWorker \notin Workers
  /\ Cameras \subseteq {"back", "front"}
  /\ MaxFrames \in Nat

VARIABLES
  uiPc,              \* where the UI thread is in the running handler
  todo,              \* what the running handler still has to set
  mEnabled, mSurfaceExist, mState, mCameraIndex,
  mCacheBitmap,      \* "null", "valid" or "recycled"
  listener,          \* the last life-cycle callback the listener got
  mCamera,           \* the open camera, or "none"
  preview,           \* the callback buffer: "off", "queued" or "filled"
  captured,          \* number of frames taken by the camera
  mFrameChain, mChainIdx, mCameraFrameReady,
  mThread, mStopThread,
  workerPc,          \* where each worker thread is
  slot,              \* the chain entry each worker delivers from
  last               \* the number of the last frame delivered

uiVars     == <<uiPc, todo>>
bridgeVars == <<mEnabled, mSurfaceExist, mState, mCameraIndex,
                mCacheBitmap, listener>>
deviceVars == <<mCamera, preview, captured>>
chainVars  == <<mFrameChain, mChainIdx, mCameraFrameReady>>
threadVars == <<mThread, mStopThread>>
workerVars == <<workerPc, slot, last>>

vars == <<uiVars, bridgeVars, deviceVars, chainVars, threadVars, workerVars>>

Slots == {0, 1}
Settings == {"enable", "disable", "surfaceFound", "surfaceLost", "switch"}
UiPcs == {"idle", "next", "stop", "notify", "join", "release",
          "connect", "started", "put"}

(* The places of the worker.  Only that of PortraitCameraView gets to      *)
(* "cleared", where it has a frame and has put the flag down.              *)
WorkerPcs == {"none", "enter", "waiting", "hasFrame", "cleared", "deliver", "draw", "loop"}

(* Entries of mFrameChain: a frame number, a Mat allocated but not yet     *)
(* written, or a Mat whose data has been released (Mat.empty()).           *)
Blank    == 0
Released == -1

TypeOK ==
  /\ uiPc \in UiPcs
  /\ todo \in Seq(Settings)
  /\ mEnabled \in BOOLEAN /\ mSurfaceExist \in BOOLEAN
  /\ mState \in {"STOPPED", "STARTED"}
  /\ mCameraIndex \in {"any", "back", "front"}
  /\ mCacheBitmap \in {"null", "valid", "recycled"}
  /\ listener \in {"stopped", "started"}
  /\ mCamera \in {"none", "back", "front"}
  /\ preview \in {"off", "queued", "filled"}
  /\ captured \in Nat
  /\ mFrameChain \in [Slots -> Nat \cup {Released}]
  /\ mChainIdx \in Slots
  /\ mCameraFrameReady \in BOOLEAN
  /\ mThread \in Workers \cup {NoWorker}
  /\ mStopThread \in BOOLEAN
  /\ workerPc \in [Workers -> WorkerPcs]
  /\ slot \in [Workers -> Slots]
  /\ last \in Nat

Init ==
  /\ uiPc = "idle" /\ todo = <<>>
  /\ mEnabled = FALSE /\ mSurfaceExist = FALSE
  /\ mState = "STOPPED" /\ mCameraIndex = "any"
  /\ mCacheBitmap = "null" /\ listener = "stopped"
  /\ mCamera = "none" /\ preview = "off" /\ captured = 0
  /\ mFrameChain = [i \in Slots |-> Released]
  /\ mChainIdx = 0 /\ mCameraFrameReady = FALSE
  /\ mThread = NoWorker /\ mStopThread = FALSE
  /\ workerPc = [w \in Workers |-> "none"]
  /\ slot = [w \in Workers |-> 0]
  /\ last = 0

-----------------------------------------------------------------------------
(* The handlers of the UI thread.  Each is the list of settings it makes;  *)
(* checkCurrentState runs after every one of them.                         *)

Handle(settings) ==
  /\ uiPc = "idle"
  /\ uiPc' = "next"
  /\ todo' = settings
  /\ UNCHANGED <<bridgeVars, deviceVars, chainVars, threadVars, workerVars>>

EnableView == Handle(<<"enable">>)

DisableView == Handle(<<"disable">>)

SurfaceDestroyed == Handle(<<"surfaceLost">>)

(* A change of an existing surface pretends the old one was destroyed. *)
SurfaceChanged ==
  Handle(IF mSurfaceExist THEN <<"surfaceLost", "surfaceFound">>
                          ELSE <<"surfaceFound">>)

SwitchCamera == Handle(<<"disable", "switch", "enable">>)

(* A mutant: the surface is not asked for. *)
TargetStateAnySurface(enabled, surface) == IF enabled THEN "STARTED" ELSE "STOPPED"

(* checkCurrentState: the state the flags call for. *)
TargetState(enabled, surface) ==
  IF enabled /\ surface THEN "STARTED" ELSE "STOPPED"

OtherCamera == IF mCameraIndex # "front" THEN "front" ELSE "back"

(* One assignment of the running handler followed by checkCurrentState,    *)
(* which goes on with disconnectCamera or connectCamera on a change.       *)
Apply ==
  /\ uiPc = "next" /\ todo # <<>>
  /\ todo' = Tail(todo)
  /\ mEnabled' = IF Head(todo) \in {"enable", "disable"}
                 THEN Head(todo) = "enable" ELSE mEnabled
  /\ mSurfaceExist' = IF Head(todo) \in {"surfaceFound", "surfaceLost"}
                      THEN Head(todo) = "surfaceFound" ELSE mSurfaceExist
  /\ mCameraIndex' = IF Head(todo) = "switch" THEN OtherCamera ELSE mCameraIndex
  /\ uiPc' = IF TargetState(mEnabled', mSurfaceExist') = mState THEN "next"
             ELSE IF mState = "STARTED" THEN "stop" ELSE "connect"
  /\ UNCHANGED <<mState, mCacheBitmap, listener,
                 deviceVars, chainVars, threadVars, workerVars>>

HandlerDone ==
  /\ uiPc = "next" /\ todo = <<>>
  /\ uiPc' = "idle"
  /\ UNCHANGED <<todo, bridgeVars, deviceVars, chainVars, threadVars, workerVars>>

-----------------------------------------------------------------------------
(* Leaving STARTED: disconnectCamera, releaseCamera, onCameraViewStopped.  *)

(* this.notify(): one waiting thread, if any, goes back to the monitor.    *)
Waiting == {w \in Workers : workerPc[w] = "waiting"}

(* A mutant: the waiting thread is not woken up. *)
NotifyNobody == UNCHANGED workerPc

Notify ==
  IF Waiting = {}
  THEN UNCHANGED workerPc
  ELSE \E w \in Waiting : workerPc' = [workerPc EXCEPT ![w] = "enter"]

StopThread ==
  /\ uiPc = "stop"
  /\ mStopThread' = TRUE
  /\ uiPc' = "notify"
  /\ UNCHANGED <<todo, bridgeVars, deviceVars, chainVars, mThread, workerVars>>

(* A mutant: the thread to stop is not notified. *)
NotifyThreadOmitted ==
  /\ uiPc = "notify"
  /\ uiPc' = "join"
  /\ UNCHANGED <<todo, bridgeVars, deviceVars, chainVars, threadVars, workerVars>>

NotifyThread ==
  /\ uiPc = "notify"
  /\ Notify
  /\ uiPc' = "join"
  /\ UNCHANGED <<todo, bridgeVars, deviceVars, chainVars, threadVars, slot, last>>

(* A mutant: the thread is not joined. *)
JoinableAtOnce == TRUE

(* mThread.join() returns once the thread has terminated. *)
Joinable == IF mThread = NoWorker THEN TRUE ELSE workerPc[mThread] = "none"

JoinThread ==
  /\ uiPc = "join"
  /\ Joinable
  /\ mThread' = NoWorker
  /\ uiPc' = "release"
  /\ UNCHANGED <<todo, bridgeVars, deviceVars, chainVars, mStopThread, workerVars>>

ReleaseCamera ==
  /\ uiPc = "release"
  /\ mCamera' = "none" /\ preview' = "off"
  /\ mFrameChain' = [i \in Slots |-> Released]
  /\ mCameraFrameReady' = FALSE
  /\ mCacheBitmap' = IF mCacheBitmap = "null" THEN "null" ELSE "recycled"
  /\ mState' = "STOPPED" /\ listener' = "stopped"
  /\ uiPc' = "next"
  /\ UNCHANGED <<todo, mEnabled, mSurfaceExist, mCameraIndex, captured,
                 mChainIdx, threadVars, workerVars>>

-----------------------------------------------------------------------------
(* Entering STARTED: initializeCamera, connectCamera, onCameraViewStarted. *)

(* The cameras that Camera.open may return for an index: "any" tries the   *)
(* default camera and then each one in turn.                               *)
Selected == IF mCameraIndex = "any" THEN Cameras ELSE Cameras \cap {mCameraIndex}

ConnectCamera ==
  /\ uiPc = "connect"
  /\ mCamera' \in Selected /\ preview' = "queued"
  /\ mFrameChain' = [i \in Slots |-> Blank]
  /\ mCacheBitmap' = "valid"
  /\ mCameraFrameReady' = FALSE
  /\ mStopThread' = FALSE
  /\ \E w \in Workers :
       /\ workerPc[w] = "none"
       /\ mThread' = w
       /\ workerPc' = [workerPc EXCEPT ![w] = "enter"]
  /\ mState' = "STARTED"
  /\ uiPc' = "started"
  /\ UNCHANGED <<todo, mEnabled, mSurfaceExist, mCameraIndex, listener,
                 captured, mChainIdx, slot, last>>

(* initializeCamera returns false: no camera could be opened, or one was   *)
(* and setting it up threw an exception, before or after AllocateCache.    *)
(* No worker is started, yet the view goes on to its STARTED state.        *)
ConnectCameraFails ==
  /\ uiPc = "connect"
  /\ \/ mCamera' = "none" /\ UNCHANGED <<mCacheBitmap, mFrameChain>>
     \/ mCamera' \in Selected /\ UNCHANGED <<mCacheBitmap, mFrameChain>>
     \/ /\ mCamera' \in Selected
        /\ mCacheBitmap' = "valid"
        /\ mFrameChain' = [i \in Slots |-> Blank]
  /\ mState' = "STARTED"
  /\ uiPc' = "started"
  /\ UNCHANGED <<todo, mEnabled, mSurfaceExist, mCameraIndex, listener,
                 preview, captured, mChainIdx, mCameraFrameReady,
                 threadVars, workerVars>>

EnterStarted ==
  /\ uiPc = "started"
  /\ listener' = "started"
  /\ uiPc' = "next"
  /\ UNCHANGED <<todo, mEnabled, mSurfaceExist, mState, mCameraIndex,
                 mCacheBitmap, deviceVars, chainVars, threadVars, workerVars>>

-----------------------------------------------------------------------------
(* The camera (external) and the preview callback.                         *)

(* The camera fills the callback buffer and posts onPreviewFrame to the    *)
(* UI thread; it has no other buffer until it is given this one again.     *)
Capture ==
  /\ preview = "queued" /\ captured < MaxFrames
  /\ captured' = captured + 1
  /\ preview' = "filled"
  /\ UNCHANGED <<uiVars, bridgeVars, mCamera, chainVars, threadVars, workerVars>>

(* onPreviewFrame takes the monitor and copies the buffer into the chain;  *)
(* the copy lasts until EndPreviewFrame.                                   *)
BeginPreviewFrame ==
  /\ uiPc = "idle" /\ preview = "filled"
  /\ uiPc' = "put"
  /\ UNCHANGED <<todo, bridgeVars, deviceVars, chainVars, threadVars, workerVars>>

(* A mutant: the flag is raised only for a worker that waits. *)
EndPreviewFrameIfAwaited ==
  /\ uiPc = "put"
  /\ mFrameChain' = [mFrameChain EXCEPT ![mChainIdx] = captured]
  /\ mCameraFrameReady' = (mCameraFrameReady \/ Waiting # {})
  /\ Notify
  /\ preview' = IF mCamera # "none" THEN "queued" ELSE preview
  /\ uiPc' = "idle"
  /\ UNCHANGED <<todo, bridgeVars, mCamera, captured, mChainIdx, threadVars,
                 slot, last>>

EndPreviewFrame ==
  /\ uiPc = "put"
  /\ mFrameChain' = [mFrameChain EXCEPT ![mChainIdx] = captured]
  /\ mCameraFrameReady' = TRUE
  /\ Notify
  /\ preview' = IF mCamera # "none" THEN "queued" ELSE preview
  /\ uiPc' = "idle"
  /\ UNCHANGED <<todo, bridgeVars, mCamera, captured, mChainIdx, threadVars,
                 slot, last>>

-----------------------------------------------------------------------------
(* CameraWorker.run. *)

MonitorFree == uiPc # "put"

(* The critical section finds nothing to do and waits. *)
WaitForFrame(w) ==
  /\ workerPc[w] = "enter" /\ MonitorFree
  /\ ~mCameraFrameReady /\ ~mStopThread
  /\ workerPc' = [workerPc EXCEPT ![w] = "waiting"]
  /\ UNCHANGED <<uiVars, bridgeVars, deviceVars, chainVars, threadVars, slot, last>>

(* Object.wait may return without a notify. *)
SpuriousWakeup(w) ==
  /\ workerPc[w] = "waiting"
  /\ workerPc' = [workerPc EXCEPT ![w] = "enter"]
  /\ UNCHANGED <<uiVars, bridgeVars, deviceVars, chainVars, threadVars, slot, last>>

(* A mutant: the index runs out of the chain. *)
TakeFrameNoWrap(w) ==
  /\ workerPc[w] = "enter" /\ MonitorFree
  /\ mCameraFrameReady
  /\ mChainIdx' = mChainIdx + 1
  /\ mCameraFrameReady' = FALSE
  /\ workerPc' = [workerPc EXCEPT ![w] = "hasFrame"]
  /\ UNCHANGED <<uiVars, bridgeVars, deviceVars, mFrameChain, threadVars, slot, last>>

(* The critical section swaps the chain if a frame is ready. *)
TakeFrame(w) ==
  /\ workerPc[w] = "enter" /\ MonitorFree
  /\ mCameraFrameReady
  /\ mChainIdx' = 1 - mChainIdx
  /\ mCameraFrameReady' = FALSE
  /\ workerPc' = [workerPc EXCEPT ![w] = "hasFrame"]
  /\ UNCHANGED <<uiVars, bridgeVars, deviceVars, mFrameChain, threadVars, slot, last>>

(* The critical section was left because the thread is to stop. *)
TakeNothing(w) ==
  /\ workerPc[w] = "enter" /\ MonitorFree
  /\ ~mCameraFrameReady /\ mStopThread
  /\ workerPc' = [workerPc EXCEPT ![w] = "loop"]
  /\ UNCHANGED <<uiVars, bridgeVars, deviceVars, chainVars, threadVars, slot, last>>

(* Outside the monitor: call the listener with the entry just swapped out. *)
DeliverFrame(w) ==
  /\ workerPc[w] = "hasFrame"
  /\ ~mStopThread /\ mFrameChain[1 - mChainIdx] # Released
  /\ slot' = [slot EXCEPT ![w] = 1 - mChainIdx]
  /\ last' = mFrameChain[1 - mChainIdx]
  /\ workerPc' = [workerPc EXCEPT ![w] = "deliver"]
  /\ UNCHANGED <<uiVars, bridgeVars, deviceVars, chainVars, threadVars>>

DropFrame(w) ==
  /\ workerPc[w] = "hasFrame"
  /\ mStopThread \/ mFrameChain[1 - mChainIdx] = Released
  /\ workerPc' = [workerPc EXCEPT ![w] = "loop"]
  /\ UNCHANGED <<uiVars, bridgeVars, deviceVars, chainVars, threadVars, slot, last>>

(* onCameraFrame returns, and deliverAndDrawFrame copies the result into   *)
(* mCacheBitmap and posts it to the canvas.                                *)
DrawFrame(w) ==
  /\ workerPc[w] = "deliver"
  /\ workerPc' = [workerPc EXCEPT ![w] = "draw"]
  /\ UNCHANGED <<uiVars, bridgeVars, deviceVars, chainVars, threadVars, slot, last>>

FrameDrawn(w) ==
  /\ workerPc[w] = "draw"
  /\ workerPc' = [workerPc EXCEPT ![w] = "loop"]
  /\ UNCHANGED <<uiVars, bridgeVars, deviceVars, chainVars, threadVars, slot, last>>

LoopTest(w) ==
  /\ workerPc[w] = "loop"
  /\ workerPc' = [workerPc EXCEPT ![w] = IF mStopThread THEN "none" ELSE "enter"]
  /\ UNCHANGED <<uiVars, bridgeVars, deviceVars, chainVars, threadVars, slot, last>>

-----------------------------------------------------------------------------
NewHandler == \/ EnableView \/ DisableView
              \/ SurfaceChanged \/ SurfaceDestroyed \/ SwitchCamera

UiStep == \/ Apply \/ HandlerDone
          \/ StopThread \/ NotifyThread \/ JoinThread \/ ReleaseCamera
          \/ ConnectCamera \/ ConnectCameraFails \/ EnterStarted
          \/ EndPreviewFrame

WorkerStep(w) == \/ WaitForFrame(w) \/ TakeFrame(w) \/ TakeNothing(w)
                 \/ DeliverFrame(w) \/ DropFrame(w)
                 \/ DrawFrame(w) \/ FrameDrawn(w) \/ LoopTest(w)

Next == \/ NewHandler
        \/ UiStep
        \/ Capture \/ BeginPreviewFrame
        \/ \E w \in Workers : WorkerStep(w) \/ SpuriousWakeup(w)

Spec == Init /\ [][Next]_vars

-----------------------------------------------------------------------------
(* Properties. *)

(* At most one worker thread is alive, and it is the one the view joins:   *)
(* stopping and restarting never leaves an old worker beside a new one     *)
(* (connectCamera and disconnectCamera, mThread).                          *)
OneWorker == \A w \in Workers : workerPc[w] # "none" => w = mThread

(* onPreviewFrame never writes the entry the listener is reading: the two  *)
(* sides of mFrameChain stay apart although onCameraFrame runs outside the *)
(* monitor.                                                                *)
NoTearing ==
  \A w \in Workers :
    uiPc = "put" /\ workerPc[w] = "deliver" => slot[w] # mChainIdx

(* As long as onCameraFrame runs, its frame holds the image it was called  *)
(* with: not overwritten, not released, never a buffer without an image.   *)
FrameIntact ==
  \A w \in Workers :
    workerPc[w] = "deliver" => last > 0 /\ mFrameChain[slot[w]] = last

(* A worker that has nothing to do leaves no frame behind: what the camera *)
(* put into the chain has been taken out of it when the flag is down (the  *)
(* flag is cleared in the monitor, with the swap, in CameraWorker.run).    *)
NoFrameForgotten ==
  ~mCameraFrameReady /\ (\E w \in Workers : workerPc[w] = "waiting")
    => mFrameChain[mChainIdx] <= last

(* deliverAndDrawFrame draws into a bitmap that exists and has not been    *)
(* recycled by onExitStartedState.                                         *)
BitmapValid ==
  \A w \in Workers : workerPc[w] \in {"deliver", "draw"} => mCacheBitmap = "valid"

(* When disableView or surfaceDestroyed has returned, the camera is free   *)
(* for other applications, no preview runs and no worker is alive.         *)
StoppedIsReleased ==
  uiPc = "idle" /\ ~(mEnabled /\ mSurfaceExist) =>
    /\ mCamera = "none" /\ preview = "off"
    /\ \A w \in Workers : workerPc[w] = "none"
    /\ listener = "stopped"

(* CameraBridgeViewBase.java, lines 117-118: "This method is invoked when  *)
(* camera preview has started. After this method is invoked the frames     *)
(* will start to be delivered".  onEnterStartedState goes on when          *)
(* connectCamera has failed.                                               *)
StartedMeansPreview == listener = "started" /\ uiPc = "idle" => preview # "off"

(* The view keeps the promises made to its listener (CameraListener).      *)
Listener == INSTANCE CameraListener WITH
  view <- listener,
  busy <- \E w \in Workers : workerPc[w] = "deliver"

ImplementsListener == Listener!Spec

(* Every handler of the UI thread returns: disconnectCamera, which joins   *)
(* the worker while it holds mSyncObject, always gets to see it end.       *)
HandlersReturn == (uiPc # "idle") ~> (uiPc = "idle")

(* A frame put into the chain does not stay there: the worker wakes up and *)
(* takes it (or the camera is released); no notify is lost.                *)
FrameTaken == mCameraFrameReady ~> ~mCameraFrameReady
=============================================================================
