-------------------------- MODULE CameraViewProofs --------------------------
(***************************************************************************)
(* Proofs about CameraView and PortraitCameraView, for any number of       *)
(* workers, cameras and frames: the type invariant, the safety invariants, *)
(* and that a view of either class implements CameraListener.  Everything  *)
(* rests on one inductive invariant, IInv, whose parameter is the class.   *)
(***************************************************************************)
EXTENDS PortraitCameraView, TLAPS

Classes == {"java", "portrait"}

(* A step of a view of the class. *)
StepOf(class) ==
  \/ class = "java" /\ Next
  \/ class = "portrait" /\ PortraitNext

-----------------------------------------------------------------------------
(* The inductive invariant. *)

(* checkCurrentState is either done or on its way: what the flags call for *)
(* is what the view is in, unless a transition is running.                 *)
Settled ==
  /\ uiPc \in {"idle", "next", "put"} => mState = TargetState(mEnabled, mSurfaceExist)
  /\ uiPc \in {"stop", "notify", "join", "release"} =>
       mState = "STARTED" /\ TargetState(mEnabled, mSurfaceExist) = "STOPPED"
  /\ uiPc = "connect" =>
       mState = "STOPPED" /\ TargetState(mEnabled, mSurfaceExist) = "STARTED"
  /\ uiPc = "started" =>
       mState = "STARTED" /\ TargetState(mEnabled, mSurfaceExist) = "STARTED"

(* A worker lives only inside the STARTED state, with its bitmap. *)
WorkerInside ==
  mThread # NoWorker => /\ mState = "STARTED" /\ uiPc # "release"
                        /\ mCacheBitmap = "valid"

(* The listener hears of both transitions when they are complete. *)
ListenerFollows ==
  listener = IF mState = "STARTED" /\ uiPc # "started" THEN "started" ELSE "stopped"

(* The camera and the chain are inactive in the STOPPED state. *)
DeviceInside ==
  /\ mState = "STOPPED" => mCamera = "none" /\ preview = "off" /\ ~mCameraFrameReady
  /\ uiPc = "put" => preview = "filled"
  /\ preview # "off" => mCamera # "none"
  /\ mCameraFrameReady => uiPc # "started"

(* What a worker past the critical section is about to deliver: a frame    *)
(* newer than the last one.  The worker of the portrait view knows that    *)
(* only if it was not told to stop when it swapped the chain.              *)
WorkerHolds(class, w) ==
  /\ workerPc[w] \in {"hasFrame", "cleared", "deliver", "draw"} => uiPc # "started"
  /\ workerPc[w] = "cleared" => class = "portrait"
  /\ workerPc[w] = "cleared" \/ (workerPc[w] = "hasFrame" /\ class = "java") =>
       /\ last < mFrameChain[1 - mChainIdx]
       /\ mCameraFrameReady => mFrameChain[1 - mChainIdx] < mFrameChain[mChainIdx]
  /\ workerPc[w] = "hasFrame" /\ ~mStopThread => last < mFrameChain[1 - mChainIdx]
  /\ workerPc[w] = "deliver" =>
       slot[w] = 1 - mChainIdx /\ mFrameChain[slot[w]] = last /\ last > 0

(* The worker of the portrait view has swapped the chain and not put the   *)
(* flag down, or will not put it down any more.                            *)
FlagLeft(class) ==
  class = "portrait" /\ (mStopThread \/ \E w \in Workers : workerPc[w] = "hasFrame")

(* Frames are numbered in the order the camera takes them; one that has    *)
(* not been copied yet is newer than every frame in the chain.             *)
FramesOrdered(class) ==
  /\ last <= captured
  /\ \A i \in Slots : mFrameChain[i] <= captured
  /\ preview = "filled" =>
       last < captured /\ \A i \in Slots : mFrameChain[i] < captured
  /\ mCameraFrameReady => last < mFrameChain[mChainIdx] \/ FlagLeft(class)

IInv(class) ==
  /\ TypeOK
  /\ Settled
  /\ OneWorker
  /\ WorkerInside
  /\ ListenerFollows
  /\ DeviceInside
  /\ \A w \in Workers : WorkerHolds(class, w)
  /\ FramesOrdered(class)

-----------------------------------------------------------------------------
(* Type correctness. *)

LEMMA InitIInv ==
  ASSUME NEW class \in Classes PROVE Init => IInv(class)
<1> SUFFICES ASSUME Init PROVE IInv(class)
  OBVIOUS
<1>1. TypeOK
  BY CameraAssumption
  DEF Init, TypeOK, Slots, UiPcs, WorkerPcs, Settings, Released
<1>2. \A w \in Workers : WorkerHolds(class, w)
  BY DEF Init, WorkerHolds
<1>3. FramesOrdered(class)
  BY DEF Init, FramesOrdered, Slots, Released
<1>4. Settled /\ OneWorker /\ WorkerInside /\ ListenerFollows /\ DeviceInside
  BY DEF Init, Settled, TargetState, OneWorker, WorkerInside, ListenerFollows,
         DeviceInside
<1>5. QED
  BY <1>1, <1>2, <1>3, <1>4 DEF IInv

(* The values of a step are in the sets TypeOK names. *)
LEMMA TypeStep ==
  ASSUME NEW class \in Classes
  PROVE  TypeOK /\ [StepOf(class)]_vars => TypeOK'
<1> SUFFICES ASSUME TypeOK, [StepOf(class)]_vars PROVE TypeOK'
  OBVIOUS
<1> USE CameraAssumption
<1> USE DEF TypeOK, Slots, Settings, UiPcs, WorkerPcs, Blank, Released,
            uiVars, bridgeVars, deviceVars, chainVars, threadVars, workerVars
<1>1. CASE NewHandler
  <2>1. todo' \in Seq(Settings)
    <3>1. /\ <<"enable">> \in Seq(Settings)
          /\ <<"disable">> \in Seq(Settings)
          /\ <<"surfaceLost">> \in Seq(Settings)
          /\ <<"surfaceFound">> \in Seq(Settings)
      OBVIOUS
    <3>2. <<"surfaceLost", "surfaceFound">> \in Seq(Settings)
      OBVIOUS
    <3>3. <<"disable", "switch", "enable">> \in Seq(Settings)
      OBVIOUS
    <3>4. QED
      BY <1>1, <3>1, <3>2, <3>3
      DEF NewHandler, EnableView, DisableView, SurfaceChanged,
          SurfaceDestroyed, SwitchCamera, Handle
  <2>2. /\ uiPc' = "next"
        /\ UNCHANGED <<bridgeVars, deviceVars, chainVars, threadVars, workerVars>>
    BY <1>1 DEF NewHandler, EnableView, DisableView, SurfaceChanged,
                SurfaceDestroyed, SwitchCamera, Handle
  <2>3. QED
    BY <2>1, <2>2
<1>2. CASE Apply
  <2>1. todo' \in Seq(Settings)
    BY <1>2 DEF Apply
  <2>2. mEnabled' \in BOOLEAN /\ mSurfaceExist' \in BOOLEAN
    BY <1>2, Zenon DEF Apply
  <2>3. mCameraIndex' \in {"any", "back", "front"} /\ uiPc' \in UiPcs
    BY <1>2 DEF Apply, OtherCamera
  <2>4. UNCHANGED <<mState, mCacheBitmap, listener,
                    deviceVars, chainVars, threadVars, workerVars>>
    BY <1>2 DEF Apply
  <2>5. QED
    BY <2>1, <2>2, <2>3, <2>4
<1>3. CASE HandlerDone
  BY <1>3 DEF HandlerDone
<1>4. CASE StopThread
  BY <1>4 DEF StopThread
<1>5. CASE NotifyThread
  BY <1>5 DEF NotifyThread, Notify, Waiting
<1>6. CASE JoinThread
  BY <1>6 DEF JoinThread, Joinable
<1>7. CASE ReleaseCamera
  <2>1. mFrameChain' \in [Slots -> Nat \cup {Released}]
    BY <1>7 DEF ReleaseCamera
  <2>2. mCacheBitmap' \in {"null", "valid", "recycled"}
    BY <1>7 DEF ReleaseCamera
  <2>3. QED
    BY <1>7, <2>1, <2>2 DEF ReleaseCamera
<1>8. CASE ConnectCamera
  <2>1. mFrameChain' \in [Slots -> Nat \cup {Released}]
    BY <1>8 DEF ConnectCamera
  <2>2. mCamera' \in {"none", "back", "front"}
    BY <1>8 DEF ConnectCamera, Selected
  <2>3. mThread' \in Workers /\ workerPc' \in [Workers -> WorkerPcs]
    BY <1>8 DEF ConnectCamera
  <2>4. QED
    BY <1>8, <2>1, <2>2, <2>3 DEF ConnectCamera
<1>9. CASE ConnectCameraFails
  <2>1. mFrameChain' \in [Slots -> Nat \cup {Released}]
    BY <1>9 DEF ConnectCameraFails
  <2>2. mCamera' \in {"none", "back", "front"}
    BY <1>9 DEF ConnectCameraFails, Selected
  <2>3. mCacheBitmap' \in {"null", "valid", "recycled"}
    BY <1>9 DEF ConnectCameraFails
  <2>4. QED
    BY <1>9, <2>1, <2>2, <2>3 DEF ConnectCameraFails
<1>10. CASE EnterStarted
  BY <1>10 DEF EnterStarted
<1>11. CASE EndPreviewFrame
  BY <1>11 DEF EndPreviewFrame, Notify, Waiting
<1>12. CASE Capture
  BY <1>12 DEF Capture
<1>13. CASE BeginPreviewFrame
  BY <1>13 DEF BeginPreviewFrame
<1>14. ASSUME NEW w \in Workers, WaitForFrame(w) PROVE TypeOK'
  BY <1>14 DEF WaitForFrame, MonitorFree
<1>15. ASSUME NEW w \in Workers, TakeFrame(w) PROVE TypeOK'
  <2>1. mChainIdx' \in Slots
    BY <1>15 DEF TakeFrame
  <2>2. workerPc' \in [Workers -> WorkerPcs]
    BY <1>15 DEF TakeFrame
  <2>3. /\ mCameraFrameReady' = FALSE
        /\ UNCHANGED <<uiVars, bridgeVars, deviceVars, mFrameChain, threadVars,
                       slot, last>>
    BY <1>15 DEF TakeFrame
  <2>4. /\ mCameraFrameReady' \in BOOLEAN
        /\ mFrameChain' \in [Slots -> Nat \cup {Released}]
    BY <2>3
  <2>5. /\ slot' \in [Workers -> Slots] /\ last' \in Nat
        /\ mThread' \in Workers \cup {NoWorker} /\ mStopThread' \in BOOLEAN
    BY <2>3
  <2>6. QED
    BY <2>1, <2>2, <2>3, <2>4, <2>5
<1>16. ASSUME NEW w \in Workers, TakeNothing(w) PROVE TypeOK'
  BY <1>16 DEF TakeNothing, MonitorFree
<1>17. ASSUME NEW w \in Workers, DeliverFrame(w) PROVE TypeOK'
  <2>1. 1 - mChainIdx \in Slots
    OBVIOUS
  <2>2. slot' \in [Workers -> Slots] /\ workerPc' \in [Workers -> WorkerPcs]
    BY <1>17, <2>1 DEF DeliverFrame
  <2>3. last' \in Nat
    BY <1>17, <2>1 DEF DeliverFrame
  <2>4. QED
    BY <1>17, <2>2, <2>3 DEF DeliverFrame
<1>18. ASSUME NEW w \in Workers, DropFrame(w) PROVE TypeOK'
  BY <1>18 DEF DropFrame
<1>19. ASSUME NEW w \in Workers, DrawFrame(w) PROVE TypeOK'
  BY <1>19 DEF DrawFrame
<1>20. ASSUME NEW w \in Workers, FrameDrawn(w) PROVE TypeOK'
  BY <1>20 DEF FrameDrawn
<1>21. ASSUME NEW w \in Workers, LoopTest(w) PROVE TypeOK'
  BY <1>21 DEF LoopTest
<1>22. ASSUME NEW w \in Workers, SpuriousWakeup(w) PROVE TypeOK'
  BY <1>22 DEF SpuriousWakeup
<1>24. ASSUME NEW w \in Workers, SwapChain(w) PROVE TypeOK'
  <2>1. mChainIdx' \in Slots
    BY <1>24 DEF SwapChain
  <2>2. workerPc' \in [Workers -> WorkerPcs]
    BY <1>24 DEF SwapChain, GoTo
  <2>3. QED
    BY <1>24, <2>1, <2>2 DEF SwapChain, WorkerOnly
<1>25. ASSUME NEW w \in Workers, ClearReady(w) PROVE TypeOK'
  <2>1. workerPc' \in [Workers -> WorkerPcs] /\ mCameraFrameReady' \in BOOLEAN
    BY <1>25 DEF ClearReady, GoTo
  <2>2. QED
    BY <1>25, <2>1 DEF ClearReady, WorkerOnly
<1>26. ASSUME NEW w \in Workers, DeliverSwapped(w) PROVE TypeOK'
  <2>1. 1 - mChainIdx \in Slots
    OBVIOUS
  <2>2. slot' \in [Workers -> Slots] /\ workerPc' \in [Workers -> WorkerPcs]
    BY <1>26, <2>1 DEF DeliverSwapped, GoTo
  <2>3. last' \in Nat
    BY <1>26, <2>1 DEF DeliverSwapped
  <2>4. QED
    BY <1>26, <2>2, <2>3 DEF DeliverSwapped, WorkerOnly
<1>27. ASSUME NEW w \in Workers, SkipFrame(w) PROVE TypeOK'
  BY <1>27 DEF SkipFrame, GoTo, WorkerOnly
<1>23. CASE UNCHANGED vars
  BY <1>23 DEF vars
<1>28. QED
  BY <1>1, <1>2, <1>3, <1>4, <1>5, <1>6, <1>7, <1>8, <1>9, <1>10, <1>11, <1>12,
     <1>13, <1>14, <1>15, <1>16, <1>17, <1>18, <1>19, <1>20, <1>21, <1>22, <1>23,
     <1>24, <1>25, <1>26, <1>27
  DEF StepOf, Next, PortraitNext, UiStep, WorkerStep, PortraitWorkerStep

(* Every behaviour of the view stays within the values TypeOK names. *)
THEOREM TypeCorrect == Spec => []TypeOK
<1>1. Init => TypeOK
  BY InitIInv DEF IInv, Classes
<1>2. TypeOK /\ [Next]_vars => TypeOK'
  BY TypeStep DEF StepOf, Classes
<1>3. QED
  BY <1>1, <1>2, PTL DEF Spec

-----------------------------------------------------------------------------
(* The invariant is inductive. *)

(* While the camera is released or connected, no worker is alive. *)
LEMMA TransitionAlone ==
  ASSUME NEW class \in Classes, IInv(class), uiPc \in {"release", "connect"}
  PROVE  /\ mThread = NoWorker
         /\ \A w \in Workers : workerPc[w] = "none"
         /\ uiPc = "connect" => /\ listener = "stopped" /\ mCamera = "none"
                                /\ preview = "off" /\ ~mCameraFrameReady
<1>1. mThread = NoWorker
  BY DEF IInv, Settled, WorkerInside
<1>2. uiPc = "connect" => mState = "STOPPED"
  BY DEF IInv, Settled
<1>3. QED
  BY <1>1, <1>2, CameraAssumption DEF IInv, OneWorker, ListenerFollows, DeviceInside

LEMMA IInvStep ==
  ASSUME NEW class \in Classes
  PROVE  IInv(class) /\ [StepOf(class)]_vars => IInv(class)'
<1> SUFFICES ASSUME IInv(class), [StepOf(class)]_vars PROVE IInv(class)'
  OBVIOUS
<1> USE CameraAssumption
<1> USE DEF TypeOK, Slots, Blank, Released,
            uiVars, bridgeVars, deviceVars, chainVars, threadVars, workerVars
<1>0. TypeOK'
  BY TypeStep DEF IInv
<1>1. CASE NewHandler
  <2>1. /\ uiPc = "idle" /\ uiPc' = "next"
        /\ UNCHANGED <<bridgeVars, deviceVars, chainVars, threadVars, workerVars>>
    BY <1>1 DEF NewHandler, EnableView, DisableView, SurfaceChanged, SurfaceDestroyed,
                SwitchCamera, Handle
  <2>2. QED
    BY <1>0, <2>1
    DEF IInv, Settled, TargetState, OneWorker, WorkerInside, ListenerFollows,
        DeviceInside, WorkerHolds, FramesOrdered, FlagLeft
<1>2. CASE Apply
  BY <1>0, <1>2
  DEF Apply, OtherCamera,
      IInv, Settled, TargetState, OneWorker, WorkerInside, ListenerFollows,
      DeviceInside, WorkerHolds, FramesOrdered, FlagLeft
<1>3. CASE HandlerDone
  BY <1>0, <1>3
  DEF HandlerDone,
      IInv, Settled, TargetState, OneWorker, WorkerInside, ListenerFollows,
      DeviceInside, WorkerHolds, FramesOrdered, FlagLeft
<1>4. CASE StopThread
  BY <1>0, <1>4
  DEF StopThread,
      IInv, Settled, TargetState, OneWorker, WorkerInside, ListenerFollows,
      DeviceInside, WorkerHolds, FramesOrdered, FlagLeft
<1>5. CASE NotifyThread
  BY <1>0, <1>5
  DEF NotifyThread, Notify, Waiting,
      IInv, Settled, TargetState, OneWorker, WorkerInside, ListenerFollows,
      DeviceInside, WorkerHolds, FramesOrdered, FlagLeft
<1>6. CASE JoinThread
  BY <1>0, <1>6
  DEF JoinThread, Joinable,
      IInv, Settled, TargetState, OneWorker, WorkerInside, ListenerFollows,
      DeviceInside, WorkerHolds, FramesOrdered, FlagLeft
<1>7. CASE ReleaseCamera
  <2>1. Settled'
    BY <1>7 DEF ReleaseCamera, IInv, Settled, TargetState
  <2>2. OneWorker'
    BY <1>7 DEF ReleaseCamera, IInv, OneWorker
  <2>3. WorkerInside'
    BY <1>7 DEF ReleaseCamera, IInv, WorkerInside
  <2>4. ListenerFollows'
    BY <1>7 DEF ReleaseCamera, IInv, ListenerFollows
  <2>5. DeviceInside'
    BY <1>7 DEF ReleaseCamera, IInv, DeviceInside
  <2>6. \A v \in Workers : WorkerHolds(class, v)'
    BY <1>7, TransitionAlone DEF ReleaseCamera, WorkerHolds, IInv
  <2>7. FramesOrdered(class)'
    BY <1>7 DEF ReleaseCamera, IInv, FramesOrdered, FlagLeft
  <2>8. QED
    BY <1>0, <2>1, <2>2, <2>3, <2>4, <2>5, <2>6, <2>7 DEF IInv
<1>8. CASE ConnectCamera
  <2>1. Settled'
    BY <1>8 DEF ConnectCamera, Selected, IInv, Settled, TargetState
  <2>2. OneWorker'
    <3>1. \A v \in Workers : workerPc[v] = "none"
      BY <1>8, TransitionAlone DEF ConnectCamera
    <3>2. PICK w \in Workers :
            mThread' = w /\ workerPc' = [workerPc EXCEPT ![w] = "enter"]
      BY <1>8 DEF ConnectCamera
    <3>3. QED
      BY <3>1, <3>2 DEF IInv, OneWorker
  <2>3. WorkerInside'
    BY <1>8 DEF ConnectCamera, Selected, IInv, WorkerInside
  <2>4. ListenerFollows'
    BY <1>8, TransitionAlone DEF ConnectCamera, ListenerFollows, IInv
  <2>5. DeviceInside'
    BY <1>8 DEF ConnectCamera, Selected, IInv, DeviceInside
  <2>6. \A v \in Workers : WorkerHolds(class, v)'
    <3>1. \A v \in Workers : workerPc[v] = "none"
      BY <1>8, TransitionAlone DEF ConnectCamera
    <3>2. PICK w \in Workers : workerPc' = [workerPc EXCEPT ![w] = "enter"]
      BY <1>8 DEF ConnectCamera
    <3>3. \A v \in Workers : workerPc'[v] \in {"none", "enter"}
      BY <3>1, <3>2 DEF IInv
    <3>4. QED
      BY <3>3 DEF WorkerHolds
  <2>7. FramesOrdered(class)'
    BY <1>8 DEF ConnectCamera, Selected, IInv, FramesOrdered, FlagLeft
  <2>8. QED
    BY <1>0, <2>1, <2>2, <2>3, <2>4, <2>5, <2>6, <2>7 DEF IInv
<1>9. CASE ConnectCameraFails
  <2>1. Settled'
    BY <1>9 DEF ConnectCameraFails, Selected, IInv, Settled, TargetState
  <2>2. OneWorker'
    BY <1>9 DEF ConnectCameraFails, Selected, IInv, OneWorker
  <2>3. WorkerInside'
    BY <1>9 DEF ConnectCameraFails, Selected, IInv, WorkerInside
  <2>4. ListenerFollows'
    BY <1>9, TransitionAlone DEF ConnectCameraFails, ListenerFollows, IInv
  <2>5. DeviceInside'
    BY <1>9, TransitionAlone DEF ConnectCameraFails, DeviceInside, IInv
  <2>6. \A v \in Workers : WorkerHolds(class, v)'
    <3>1. \A v \in Workers : workerPc'[v] = "none"
      BY <1>9, TransitionAlone DEF ConnectCameraFails
    <3>2. QED
      BY <3>1 DEF WorkerHolds
  <2>7. FramesOrdered(class)'
    <3>1. preview' = "off" /\ ~mCameraFrameReady'
      BY <1>9, TransitionAlone DEF ConnectCameraFails
    <3>2. captured' = captured /\ last' = last
      BY <1>9 DEF ConnectCameraFails
    <3>3. mFrameChain' = mFrameChain \/ mFrameChain' = [i \in Slots |-> Blank]
      BY <1>9 DEF ConnectCameraFails
    <3>4. QED
      BY <3>1, <3>2, <3>3 DEF IInv, FramesOrdered, FlagLeft
  <2>8. QED
    BY <1>0, <2>1, <2>2, <2>3, <2>4, <2>5, <2>6, <2>7 DEF IInv
<1>10. CASE EnterStarted
  BY <1>0, <1>10
  DEF EnterStarted,
      IInv, Settled, TargetState, OneWorker, WorkerInside, ListenerFollows,
      DeviceInside, WorkerHolds, FramesOrdered, FlagLeft
<1>11. CASE EndPreviewFrame
  <2>1. Settled'
    BY <1>11 DEF EndPreviewFrame, Notify, Waiting, IInv, Settled, TargetState
  <2>2. OneWorker'
    BY <1>11 DEF EndPreviewFrame, Notify, Waiting, IInv, OneWorker
  <2>3. WorkerInside'
    BY <1>11 DEF EndPreviewFrame, Notify, Waiting, IInv, WorkerInside
  <2>4. ListenerFollows'
    BY <1>11 DEF EndPreviewFrame, Notify, Waiting, IInv, ListenerFollows
  <2>5. DeviceInside'
    BY <1>11 DEF EndPreviewFrame, Notify, Waiting, IInv, DeviceInside
  <2>6. \A v \in Workers : WorkerHolds(class, v)'
    <3>1. \A v \in Workers : workerPc'[v] = workerPc[v] \/ workerPc'[v] = "enter"
      BY <1>11 DEF EndPreviewFrame, Notify, Waiting, IInv
    <3>2. /\ mFrameChain' = [mFrameChain EXCEPT ![mChainIdx] = captured]
          /\ uiPc' = "idle" /\ mChainIdx' = mChainIdx
          /\ slot' = slot /\ last' = last /\ mStopThread' = mStopThread
      BY <1>11 DEF EndPreviewFrame
    <3>3. preview = "filled"
      BY <1>11 DEF EndPreviewFrame, IInv, DeviceInside
    <3>4. /\ mFrameChain'[mChainIdx] = captured
          /\ mFrameChain'[1 - mChainIdx] = mFrameChain[1 - mChainIdx]
          /\ mFrameChain[1 - mChainIdx] < captured
      BY <3>2, <3>3 DEF IInv, FramesOrdered, FlagLeft
    <3>5. QED
      BY <3>1, <3>2, <3>4 DEF IInv, WorkerHolds
  <2>7. FramesOrdered(class)'
    <3>1. preview = "filled" /\ mCamera # "none"
      BY <1>11 DEF EndPreviewFrame, IInv, DeviceInside
    <3>2. /\ mFrameChain' = [mFrameChain EXCEPT ![mChainIdx] = captured]
          /\ captured' = captured /\ last' = last /\ mChainIdx' = mChainIdx
      BY <1>11 DEF EndPreviewFrame
    <3>3. preview' = "queued"
      BY <1>11, <3>1 DEF EndPreviewFrame
    <3>4. QED
      BY <3>1, <3>2, <3>3 DEF IInv, FramesOrdered, FlagLeft
  <2>8. QED
    BY <1>0, <2>1, <2>2, <2>3, <2>4, <2>5, <2>6, <2>7 DEF IInv
<1>12. CASE Capture
  BY <1>0, <1>12
  DEF Capture,
      IInv, Settled, TargetState, OneWorker, WorkerInside, ListenerFollows,
      DeviceInside, WorkerHolds, FramesOrdered, FlagLeft
<1>13. CASE BeginPreviewFrame
  BY <1>0, <1>13
  DEF BeginPreviewFrame,
      IInv, Settled, TargetState, OneWorker, WorkerInside, ListenerFollows,
      DeviceInside, WorkerHolds, FramesOrdered, FlagLeft
<1>14. ASSUME NEW w \in Workers, WaitForFrame(w) PROVE IInv(class)'
  BY <1>0, <1>14
  DEF WaitForFrame, MonitorFree,
      IInv, Settled, TargetState, OneWorker, WorkerInside, ListenerFollows,
      DeviceInside, WorkerHolds, FramesOrdered, FlagLeft
<1>15. ASSUME NEW w \in Workers, class = "java", TakeFrame(w) PROVE IInv(class)'
  <2>1. Settled'
    BY <1>15 DEF TakeFrame, MonitorFree, IInv, Settled, TargetState
  <2>2. OneWorker'
    BY <1>15 DEF TakeFrame, MonitorFree, IInv, OneWorker
  <2>3. WorkerInside'
    BY <1>15 DEF TakeFrame, MonitorFree, IInv, WorkerInside
  <2>4. ListenerFollows'
    BY <1>15 DEF TakeFrame, MonitorFree, IInv, ListenerFollows
  <2>5. DeviceInside'
    BY <1>15 DEF TakeFrame, MonitorFree, IInv, DeviceInside
  <2>6. \A v \in Workers : WorkerHolds(class, v)'
    <3>1. /\ mChainIdx' = 1 - mChainIdx /\ ~mCameraFrameReady'
          /\ workerPc' = [workerPc EXCEPT ![w] = "hasFrame"]
          /\ mFrameChain' = mFrameChain /\ uiPc' = uiPc /\ last' = last
      BY <1>15 DEF TakeFrame
    <3>2. \A v \in Workers \ {w} : workerPc'[v] = "none"
      BY <1>15 DEF TakeFrame, IInv, OneWorker
    <3>3. 1 - mChainIdx' = mChainIdx /\ last < mFrameChain[mChainIdx] /\ uiPc # "started"
      BY <1>15, <3>1 DEF TakeFrame, IInv, FramesOrdered, FlagLeft, DeviceInside
    <3>4. QED
      BY <3>1, <3>2, <3>3 DEF WorkerHolds, IInv
  <2>7. FramesOrdered(class)'
    BY <1>15 DEF TakeFrame, MonitorFree, IInv, FramesOrdered, FlagLeft
  <2>8. QED
    BY <1>0, <2>1, <2>2, <2>3, <2>4, <2>5, <2>6, <2>7 DEF IInv
<1>16. ASSUME NEW w \in Workers, TakeNothing(w) PROVE IInv(class)'
  BY <1>0, <1>16
  DEF TakeNothing, MonitorFree,
      IInv, Settled, TargetState, OneWorker, WorkerInside, ListenerFollows,
      DeviceInside, WorkerHolds, FramesOrdered, FlagLeft
<1>17. ASSUME NEW w \in Workers, class = "java", DeliverFrame(w) PROVE IInv(class)'
  <2>1. Settled'
    BY <1>17 DEF DeliverFrame, IInv, Settled, TargetState
  <2>2. OneWorker'
    BY <1>17 DEF DeliverFrame, IInv, OneWorker
  <2>3. WorkerInside'
    BY <1>17 DEF DeliverFrame, IInv, WorkerInside
  <2>4. ListenerFollows'
    BY <1>17 DEF DeliverFrame, IInv, ListenerFollows
  <2>5. DeviceInside'
    BY <1>17 DEF DeliverFrame, IInv, DeviceInside
  <2>6. \A v \in Workers : WorkerHolds(class, v)'
    <3>1. /\ workerPc[w] = "hasFrame"
          /\ slot' = [slot EXCEPT ![w] = 1 - mChainIdx]
          /\ last' = mFrameChain[1 - mChainIdx]
          /\ workerPc' = [workerPc EXCEPT ![w] = "deliver"]
          /\ UNCHANGED <<uiPc, mFrameChain, mChainIdx, mCameraFrameReady>>
      BY <1>17 DEF DeliverFrame
    <3>2. \A v \in Workers \ {w} : workerPc'[v] = "none"
      BY <3>1 DEF IInv, OneWorker
    <3>3. uiPc # "started" /\ last < last'
      BY <1>17, <3>1 DEF IInv, WorkerHolds
    <3>4. workerPc'[w] = "deliver" /\ slot'[w] = 1 - mChainIdx
      BY <3>1 DEF IInv
    <3>5. last' > 0
      BY <1>0, <3>3 DEF IInv
    <3>6. WorkerHolds(class, w)'
      BY <3>1, <3>3, <3>4, <3>5 DEF WorkerHolds
    <3>7. QED
      BY <3>2, <3>6 DEF WorkerHolds
  <2>7. FramesOrdered(class)'
    <3>1. /\ workerPc[w] = "hasFrame" /\ last' = mFrameChain[1 - mChainIdx]
          /\ UNCHANGED <<preview, captured, mFrameChain, mChainIdx, mCameraFrameReady>>
      BY <1>17 DEF DeliverFrame
    <3>2. 1 - mChainIdx \in Slots
      BY DEF IInv
    <3>3. mCameraFrameReady => last' < mFrameChain[mChainIdx]
      BY <1>17, <3>1 DEF IInv, WorkerHolds
    <3>4. QED
      BY <3>1, <3>2, <3>3 DEF IInv, FramesOrdered, FlagLeft
  <2>8. QED
    BY <1>0, <2>1, <2>2, <2>3, <2>4, <2>5, <2>6, <2>7 DEF IInv
<1>18. ASSUME NEW w \in Workers, class = "java", DropFrame(w) PROVE IInv(class)'
  BY <1>0, <1>18
  DEF DropFrame,
      IInv, Settled, TargetState, OneWorker, WorkerInside, ListenerFollows,
      DeviceInside, WorkerHolds, FramesOrdered, FlagLeft
<1>19. ASSUME NEW w \in Workers, DrawFrame(w) PROVE IInv(class)'
  BY <1>0, <1>19
  DEF DrawFrame,
      IInv, Settled, TargetState, OneWorker, WorkerInside, ListenerFollows,
      DeviceInside, WorkerHolds, FramesOrdered, FlagLeft
<1>20. ASSUME NEW w \in Workers, FrameDrawn(w) PROVE IInv(class)'
  BY <1>0, <1>20
  DEF FrameDrawn,
      IInv, Settled, TargetState, OneWorker, WorkerInside, ListenerFollows,
      DeviceInside, WorkerHolds, FramesOrdered, FlagLeft
<1>21. ASSUME NEW w \in Workers, LoopTest(w) PROVE IInv(class)'
  BY <1>0, <1>21
  DEF LoopTest,
      IInv, Settled, TargetState, OneWorker, WorkerInside, ListenerFollows,
      DeviceInside, WorkerHolds, FramesOrdered, FlagLeft
<1>22. ASSUME NEW w \in Workers, SpuriousWakeup(w) PROVE IInv(class)'
  BY <1>0, <1>22
  DEF SpuriousWakeup,
      IInv, Settled, TargetState, OneWorker, WorkerInside, ListenerFollows,
      DeviceInside, WorkerHolds, FramesOrdered, FlagLeft
<1>23. CASE UNCHANGED vars
  BY <1>0, <1>23
  DEF vars,
      IInv, Settled, TargetState, OneWorker, WorkerInside, ListenerFollows,
      DeviceInside, WorkerHolds, FramesOrdered, FlagLeft
<1>24. ASSUME NEW w \in Workers, class = "portrait", SwapChain(w) PROVE IInv(class)'
  <2>1. /\ workerPc[w] = "enter" /\ mCameraFrameReady
        /\ workerPc' = [workerPc EXCEPT ![w] = "hasFrame"]
        /\ mChainIdx' = 1 - mChainIdx
        /\ UNCHANGED <<uiVars, bridgeVars, deviceVars, mFrameChain, mCameraFrameReady,
                       threadVars, slot, last>>
    BY <1>24 DEF SwapChain, GoTo, WorkerOnly
  <2>2. /\ \A v \in Workers : v # w => workerPc[v] = "none" /\ workerPc'[v] = "none"
        /\ workerPc'[w] = "hasFrame"
    BY <2>1 DEF IInv, OneWorker
  <2>3. Settled' /\ OneWorker' /\ WorkerInside' /\ ListenerFollows' /\ DeviceInside'
    BY <2>1, <2>2
    DEF IInv, Settled, TargetState, OneWorker, WorkerInside, ListenerFollows,
        DeviceInside
  <2>4. \A v \in Workers : WorkerHolds(class, v)'
    <3>1. uiPc # "started"
      BY <2>1 DEF IInv, DeviceInside
    <3>2. ~mStopThread => last < mFrameChain[mChainIdx]
      BY <2>1, <2>2 DEF IInv, FramesOrdered, FlagLeft
    <3>3. 1 - mChainIdx' = mChainIdx
      BY <2>1 DEF IInv
    <3>4. QED
      BY <1>24, <2>1, <2>2, <3>1, <3>2, <3>3 DEF WorkerHolds
  <2>5. FramesOrdered(class)'
    BY <1>24, <2>1, <2>2 DEF IInv, FramesOrdered, FlagLeft
  <2>6. QED
    BY <1>0, <2>3, <2>4, <2>5 DEF IInv
<1>25. ASSUME NEW w \in Workers, class = "portrait", ClearReady(w) PROVE IInv(class)'
  <2>1. /\ workerPc[w] = "hasFrame" /\ ~mStopThread /\ mCameraFrameReady' = FALSE
        /\ workerPc' = [workerPc EXCEPT ![w] = "cleared"]
        /\ UNCHANGED <<uiVars, bridgeVars, deviceVars, mFrameChain, mChainIdx,
                       threadVars, slot, last>>
    BY <1>25 DEF ClearReady, GoTo, WorkerOnly
  <2>2. /\ \A v \in Workers : v # w => workerPc'[v] = "none"
        /\ workerPc'[w] = "cleared"
    BY <2>1 DEF IInv, OneWorker
  <2>3. Settled' /\ OneWorker' /\ WorkerInside' /\ ListenerFollows' /\ DeviceInside'
    BY <2>1, <2>2
    DEF IInv, Settled, TargetState, OneWorker, WorkerInside, ListenerFollows,
        DeviceInside
  <2>4. \A v \in Workers : WorkerHolds(class, v)'
    BY <1>25, <2>1, <2>2 DEF IInv, WorkerHolds
  <2>5. FramesOrdered(class)'
    BY <2>1 DEF IInv, FramesOrdered
  <2>6. QED
    BY <1>0, <2>3, <2>4, <2>5 DEF IInv
<1>26. ASSUME NEW w \in Workers, class = "portrait", DeliverSwapped(w) PROVE IInv(class)'
  <2>1. /\ workerPc[w] = "cleared"
        /\ slot' = [slot EXCEPT ![w] = 1 - mChainIdx]
        /\ last' = mFrameChain[1 - mChainIdx]
        /\ workerPc' = [workerPc EXCEPT ![w] = "deliver"]
        /\ UNCHANGED <<uiVars, bridgeVars, deviceVars, chainVars, threadVars>>
    BY <1>26 DEF DeliverSwapped, GoTo, WorkerOnly
  <2>2. /\ \A v \in Workers : v # w => workerPc'[v] = "none"
        /\ workerPc'[w] = "deliver" /\ slot'[w] = 1 - mChainIdx
    BY <2>1 DEF IInv, OneWorker
  <2>3. Settled' /\ OneWorker' /\ WorkerInside' /\ ListenerFollows' /\ DeviceInside'
    BY <2>1, <2>2
    DEF IInv, Settled, TargetState, OneWorker, WorkerInside, ListenerFollows,
        DeviceInside
  <2>4. /\ uiPc # "started" /\ last < last' /\ last' > 0
        /\ mCameraFrameReady => last' < mFrameChain[mChainIdx]
    BY <1>0, <2>1 DEF IInv, WorkerHolds
  <2>5. \A v \in Workers : WorkerHolds(class, v)'
    BY <2>1, <2>2, <2>4 DEF WorkerHolds
  <2>6. FramesOrdered(class)'
    <3>1. 1 - mChainIdx \in Slots
      BY DEF IInv
    <3>2. QED
      BY <2>1, <2>4, <3>1 DEF IInv, FramesOrdered
  <2>7. QED
    BY <1>0, <2>3, <2>5, <2>6 DEF IInv
<1>27. ASSUME NEW w \in Workers, class = "portrait", SkipFrame(w) PROVE IInv(class)'
  <2>1. /\ workerPc[w] \in {"hasFrame", "cleared"}
        /\ workerPc[w] = "hasFrame" => mStopThread \/ ~mCameraFrameReady
        /\ workerPc' = [workerPc EXCEPT ![w] = "loop"]
        /\ UNCHANGED <<uiVars, bridgeVars, deviceVars, chainVars, threadVars, slot, last>>
    BY <1>27 DEF SkipFrame, GoTo, WorkerOnly
  <2>2. /\ \A v \in Workers : v # w => workerPc[v] = "none" /\ workerPc'[v] = "none"
        /\ workerPc'[w] = "loop"
    BY <2>1 DEF IInv, OneWorker
  <2>3. Settled' /\ OneWorker' /\ WorkerInside' /\ ListenerFollows' /\ DeviceInside'
    BY <2>1, <2>2
    DEF IInv, Settled, TargetState, OneWorker, WorkerInside, ListenerFollows,
        DeviceInside
  <2>4. \A v \in Workers : WorkerHolds(class, v)'
    BY <2>2 DEF WorkerHolds
  <2>5. FramesOrdered(class)'
    <3>1. mCameraFrameReady => mStopThread \/ last < mFrameChain[mChainIdx]
      BY <2>1, <2>2 DEF IInv, WorkerHolds
    <3>2. QED
      BY <1>27, <2>1, <3>1 DEF IInv, FramesOrdered, FlagLeft
  <2>6. QED
    BY <1>0, <2>3, <2>4, <2>5 DEF IInv
<1>28. QED
  BY <1>1, <1>2, <1>3, <1>4, <1>5, <1>6, <1>7, <1>8, <1>9, <1>10, <1>11, <1>12,
     <1>13, <1>14, <1>15, <1>16, <1>17, <1>18, <1>19, <1>20, <1>21, <1>22, <1>23,
     <1>24, <1>25, <1>26, <1>27
  DEF StepOf, Next, PortraitNext, UiStep, WorkerStep, PortraitWorkerStep

(* The inductive invariant holds throughout. *)
LEMMA Invariance == Spec => []IInv("java")
<1>1. Init => IInv("java")
  BY InitIInv DEF Classes
<1>2. IInv("java") /\ [Next]_vars => IInv("java")'
  BY IInvStep DEF StepOf, Classes
<1>3. QED
  BY <1>1, <1>2, PTL DEF Spec

-----------------------------------------------------------------------------
(* Safety. *)

(* The safety of a view of either class, for any of its workers. *)
ViewSafety == OneWorker /\ NoTearing /\ FrameIntact /\ BitmapValid /\ StoppedIsReleased

LEMMA SafetyFromIInv ==
  ASSUME NEW class \in Classes, IInv(class)
  PROVE  ViewSafety
<1>1. OneWorker
  BY DEF IInv
<1>2. NoTearing
  BY DEF IInv, TypeOK, Slots, NoTearing, WorkerHolds
<1>3. FrameIntact
  BY DEF IInv, FrameIntact, WorkerHolds
<1>4. BitmapValid
  BY CameraAssumption DEF IInv, BitmapValid, OneWorker, WorkerInside
<1>5. ASSUME uiPc = "idle", ~(mEnabled /\ mSurfaceExist)
      PROVE  /\ mCamera = "none" /\ preview = "off" /\ listener = "stopped"
             /\ \A w \in Workers : workerPc[w] = "none"
  <2>1. mState = "STOPPED"
    BY <1>5 DEF IInv, Settled, TargetState
  <2>2. QED
    BY <1>5, <2>1, CameraAssumption
    DEF IInv, OneWorker, WorkerInside, ListenerFollows, DeviceInside
<1>6. StoppedIsReleased
  BY <1>5 DEF StoppedIsReleased
<1>7. QED
  BY <1>1, <1>2, <1>3, <1>4, <1>6 DEF ViewSafety

LEMMA SafetyOfJavaView == Spec => []ViewSafety
<1>1. IInv("java") => ViewSafety
  BY SafetyFromIInv DEF Classes
<1>2. QED
  BY <1>1, Invariance, PTL

(* However often the view is stopped and restarted, at most one worker is  *)
(* alive, and it is the one disconnectCamera will join.                    *)
THEOREM OneWorkerAlive == Spec => []OneWorker
<1>1. ViewSafety => OneWorker
  BY DEF ViewSafety
<1>2. QED
  BY <1>1, SafetyOfJavaView, PTL

(* onPreviewFrame and the listener never use the same entry of the chain.  *)
THEOREM FramesNotTorn == Spec => []NoTearing
<1>1. ViewSafety => NoTearing
  BY DEF ViewSafety
<1>2. QED
  BY <1>1, SafetyOfJavaView, PTL

(* The frame handed to onCameraFrame keeps its image until the call ends.  *)
THEOREM FramesIntact == Spec => []FrameIntact
<1>1. ViewSafety => FrameIntact
  BY DEF ViewSafety
<1>2. QED
  BY <1>1, SafetyOfJavaView, PTL

(* deliverAndDrawFrame never draws into a missing or recycled bitmap.      *)
THEOREM BitmapsValid == Spec => []BitmapValid
<1>1. ViewSafety => BitmapValid
  BY DEF ViewSafety
<1>2. QED
  BY <1>1, SafetyOfJavaView, PTL

(* After disableView or surfaceDestroyed the camera, the preview and the   *)
(* worker are gone and the listener has been told.                         *)
THEOREM StopReleases == Spec => []StoppedIsReleased
<1>1. ViewSafety => StoppedIsReleased
  BY DEF ViewSafety
<1>2. QED
  BY <1>1, SafetyOfJavaView, PTL

-----------------------------------------------------------------------------
(* No frame is forgotten: beside IInv, what has been taken out of the      *)
(* chain.  A worker told to stop may drop the frame it has taken, but it   *)
(* never waits again.                                                      *)

GoesOn(w) == workerPc[w] = "waiting" \/ (workerPc[w] # "none" /\ ~mStopThread)

AllTaken ==
  \A w \in Workers : GoesOn(w) =>
    /\ ~mCameraFrameReady => mFrameChain[mChainIdx] <= last
    /\ workerPc[w] # "hasFrame" => mFrameChain[1 - mChainIdx] <= last

LEMMA AllTakenStep == IInv("java") /\ AllTaken /\ [Next]_vars => AllTaken'
<1> SUFFICES ASSUME IInv("java"), AllTaken, [Next]_vars PROVE AllTaken'
  OBVIOUS
<1> USE CameraAssumption
<1> USE DEF AllTaken, GoesOn, IInv, TypeOK, Slots, Blank, Released,
            uiVars, bridgeVars, deviceVars, chainVars, threadVars, workerVars
<1>1. CASE NewHandler \/ Apply \/ HandlerDone \/ StopThread \/ JoinThread
           \/ Capture \/ BeginPreviewFrame \/ EnterStarted
  BY <1>1 DEF NewHandler, EnableView, DisableView, SurfaceChanged, SurfaceDestroyed,
              SwitchCamera, Handle, Apply, HandlerDone, StopThread, JoinThread,
              Capture, BeginPreviewFrame, EnterStarted
<1>2. CASE NotifyThread
  BY <1>2 DEF NotifyThread, Notify, Waiting
<1>3. CASE ReleaseCamera
  BY <1>3, TransitionAlone DEF ReleaseCamera, Classes
<1>4. CASE ConnectCamera
  BY <1>4 DEF ConnectCamera
<1>5. CASE ConnectCameraFails
  BY <1>5, TransitionAlone DEF ConnectCameraFails, Classes
<1>6. CASE EndPreviewFrame
  BY <1>6 DEF EndPreviewFrame, Notify, Waiting
<1>7. ASSUME NEW w \in Workers, WorkerStep(w) \/ SpuriousWakeup(w) PROVE AllTaken'
  <2> USE DEF OneWorker, WorkerHolds, FramesOrdered, FlagLeft, WorkerPcs
  <2>1. CASE WaitForFrame(w) \/ SpuriousWakeup(w)
    BY <2>1 DEF WaitForFrame, SpuriousWakeup
  <2>2. CASE TakeFrame(w)
    BY <2>2 DEF TakeFrame
  <2>3. CASE TakeNothing(w)
    BY <2>3 DEF TakeNothing
  <2>4. CASE DeliverFrame(w)
    BY <2>4 DEF DeliverFrame
  <2>5. CASE DropFrame(w)
    BY <2>5 DEF DropFrame
  <2>6. CASE DrawFrame(w) \/ FrameDrawn(w)
    BY <2>6 DEF DrawFrame, FrameDrawn
  <2>7. CASE LoopTest(w)
    BY <2>7 DEF LoopTest
  <2>8. QED
    BY <1>7, <2>1, <2>2, <2>3, <2>4, <2>5, <2>6, <2>7 DEF WorkerStep
<1>8. CASE UNCHANGED vars
  BY <1>8 DEF vars
<1>9. QED
  BY <1>1, <1>2, <1>3, <1>4, <1>5, <1>6, <1>7, <1>8 DEF Next, UiStep

LEMMA AllTakenAtInit == Init => AllTaken
  BY DEF Init, AllTaken, GoesOn

LEMMA TakenIsNotForgotten == AllTaken => NoFrameForgotten
<1> SUFFICES ASSUME AllTaken, ~mCameraFrameReady,
                    NEW w \in Workers, workerPc[w] = "waiting"
             PROVE  mFrameChain[mChainIdx] <= last
  BY DEF NoFrameForgotten
<1>1. GoesOn(w)
  BY DEF GoesOn
<1>2. QED
  BY <1>1, Zenon DEF AllTaken

(* A waiting worker has taken every frame that was put into the chain      *)
(* (CameraWorker.run clears the flag in the monitor, with the swap).       *)
THEOREM FramesNotForgotten == Spec => []NoFrameForgotten
  BY AllTakenAtInit, TakenIsNotForgotten, Invariance, AllTakenStep, PTL DEF Spec

-----------------------------------------------------------------------------
(* Refinement. *)

Busy == \E w \in Workers : workerPc[w] = "deliver"

(* A step of the UI thread or of the camera is a life-cycle callback of    *)
(* the listener or invisible to it; one of a worker begins or ends a call  *)
(* of onCameraFrame or is invisible.                                       *)
LEMMA ListenerStep ==
  ASSUME NEW class \in Classes
  PROVE  IInv(class) /\ [StepOf(class)]_vars => [Listener!Next]_(Listener!vars)
<1> SUFFICES ASSUME IInv(class), [StepOf(class)]_vars
             PROVE  Listener!Next \/ UNCHANGED <<listener, Busy, last>>
  BY DEF Listener!vars, Busy
<1> USE CameraAssumption
<1> USE DEF TypeOK, uiVars, bridgeVars, deviceVars, chainVars, threadVars, workerVars
<1>a. IInv(class)'
  BY IInvStep
<1>b. ASSUME NEW w \in Workers, NEW pc, pc # "deliver", workerPc[w] # "deliver",
             workerPc' = [workerPc EXCEPT ![w] = pc]
      PROVE  Busy' = Busy
  BY <1>b DEF Busy, IInv
<1>c. ASSUME NEW w \in Workers, workerPc[w] # "none", workerPc[w] # "deliver"
      PROVE  ~Busy
  BY <1>c DEF Busy, IInv, OneWorker
<1>1. CASE ReleaseCamera
  <2>1. ~Busy
    BY <1>1, TransitionAlone DEF ReleaseCamera, Busy
  <2>2. listener = "started"
    BY <1>1 DEF ReleaseCamera, IInv, Settled, ListenerFollows
  <2>3. listener' = "stopped" /\ workerPc' = workerPc /\ last' = last
    BY <1>1 DEF ReleaseCamera
  <2>4. Listener!OnCameraViewStopped
    BY <2>1, <2>2, <2>3 DEF Listener!OnCameraViewStopped, Busy
  <2>5. QED
    BY <2>4 DEF Listener!Next
<1>2. CASE EnterStarted
  <2>1. ~Busy /\ listener = "stopped"
    BY <1>2 DEF EnterStarted, IInv, ListenerFollows, WorkerHolds, Busy
  <2>2. listener' = "started" /\ workerPc' = workerPc /\ last' = last
    BY <1>2 DEF EnterStarted
  <2>3. Listener!OnCameraViewStarted
    BY <2>1, <2>2 DEF Listener!OnCameraViewStarted, Busy
  <2>4. QED
    BY <2>3 DEF Listener!Next
<1>3. ASSUME NEW w \in Workers,
             \/ class = "java" /\ DeliverFrame(w)
             \/ DeliverSwapped(w)
      PROVE  Listener!BeginOnCameraFrame
  <2>1. /\ workerPc[w] \in {"hasFrame", "cleared"}
        /\ workerPc[w] = "hasFrame" => class = "java"
        /\ workerPc' = [workerPc EXCEPT ![w] = "deliver"]
        /\ listener' = listener /\ last' = mFrameChain[1 - mChainIdx]
    BY <1>3 DEF DeliverFrame, DeliverSwapped, GoTo, WorkerOnly
  <2>2. ~Busy /\ Busy'
    BY <1>c, <2>1 DEF Busy, IInv
  <2>3. listener = "started" /\ listener' = listener
    BY <2>1 DEF IInv, OneWorker, WorkerInside, WorkerHolds, ListenerFollows
  <2>4. last' = mFrameChain[1 - mChainIdx] /\ last < last'
    BY <2>1 DEF IInv, WorkerHolds
  <2>5. last' \in Nat
    BY <1>a DEF IInv
  <2>6. QED
    BY <2>2, <2>3, <2>4, <2>5, <1>a DEF Listener!BeginOnCameraFrame, Busy, IInv
<1>4. ASSUME NEW w \in Workers, DrawFrame(w)
      PROVE  Listener!EndOnCameraFrame
  <2>1. workerPc[w] = "deliver" /\ workerPc' = [workerPc EXCEPT ![w] = "draw"]
    BY <1>4 DEF DrawFrame
  <2>2. \A v \in Workers : workerPc'[v] # "deliver"
    BY <2>1 DEF IInv, OneWorker
  <2>3. listener' = listener /\ last' = last
    BY <1>4 DEF DrawFrame
  <2>4. QED
    BY <2>1, <2>2, <2>3 DEF Listener!EndOnCameraFrame
<1>5. ASSUME NEW w \in Workers,
             \/ WaitForFrame(w) \/ TakeFrame(w) \/ TakeNothing(w) \/ DropFrame(w)
             \/ SwapChain(w) \/ ClearReady(w) \/ SkipFrame(w)
             \/ FrameDrawn(w) \/ LoopTest(w) \/ SpuriousWakeup(w)
      PROVE  UNCHANGED <<listener, Busy, last>>
  <2>1. \E pc \in WorkerPcs \ {"deliver"} : workerPc' = [workerPc EXCEPT ![w] = pc]
    BY <1>5 DEF WaitForFrame, TakeFrame, TakeNothing, DropFrame, FrameDrawn,
                LoopTest, SpuriousWakeup, SwapChain, ClearReady, SkipFrame, GoTo,
                WorkerOnly, WorkerPcs
  <2>2. workerPc[w] # "deliver" /\ listener' = listener /\ last' = last
    BY <1>5 DEF WaitForFrame, TakeFrame, TakeNothing, DropFrame, FrameDrawn,
                LoopTest, SpuriousWakeup, SwapChain, ClearReady, SkipFrame, GoTo,
                WorkerOnly
  <2>3. QED
    BY <1>b, <2>1, <2>2
<1>6. CASE NotifyThread \/ EndPreviewFrame
  <2>1. \/ workerPc' = workerPc
        \/ \E w \in Waiting : workerPc' = [workerPc EXCEPT ![w] = "enter"]
    BY <1>6 DEF NotifyThread, EndPreviewFrame, Notify
  <2>2. Busy' = Busy
    BY <1>b, <2>1 DEF Waiting, Busy
  <2>3. QED
    BY <1>6, <2>2 DEF NotifyThread, EndPreviewFrame
<1>7. CASE ConnectCamera
  <2>1. \E w \in Workers : /\ workerPc[w] = "none"
                          /\ workerPc' = [workerPc EXCEPT ![w] = "enter"]
    BY <1>7 DEF ConnectCamera
  <2>2. QED
    BY <1>7, <1>b, <2>1 DEF ConnectCamera
<1>8. CASE \/ NewHandler \/ Apply \/ HandlerDone \/ StopThread \/ JoinThread
           \/ ConnectCameraFails \/ Capture \/ BeginPreviewFrame
  <2>1. listener' = listener /\ workerPc' = workerPc /\ last' = last
    BY <1>8 DEF NewHandler, EnableView, DisableView, SurfaceChanged, SurfaceDestroyed,
                SwitchCamera, Handle, Apply, HandlerDone, StopThread, JoinThread,
                ConnectCameraFails, Capture, BeginPreviewFrame
  <2>2. QED
    BY <2>1 DEF Busy
<1>9. CASE UNCHANGED vars
  BY <1>9 DEF vars, Busy
<1>10. QED
  BY <1>1, <1>2, <1>3, <1>4, <1>5, <1>6, <1>7, <1>8, <1>9
  DEF StepOf, Next, PortraitNext, UiStep, WorkerStep, PortraitWorkerStep, Listener!Next

LEMMA ListenerInit == Init => Listener!Init
  BY DEF Init, Listener!Init

(* The view keeps the promises of CvCameraViewListener2: frames reach the  *)
(* listener one at a time, in order, each at most once, and only between   *)
(* onCameraViewStarted and onCameraViewStopped.                            *)
THEOREM ListenerImplemented == Spec => ImplementsListener
<1>1. IInv("java") /\ [Next]_vars => [Listener!Next]_(Listener!vars)
  BY ListenerStep DEF StepOf, Classes
<1>2. QED
  BY <1>1, ListenerInit, Invariance, PTL DEF Spec, ImplementsListener, Listener!Spec

-----------------------------------------------------------------------------
(* A view of either class. *)

ViewIInv ==
  /\ portrait \in BOOLEAN
  /\ portrait => IInv("portrait")
  /\ ~portrait => IInv("java") /\ AllTaken

LEMMA ViewStepOf ==
  ASSUME portrait \in BOOLEAN, [ViewNext]_viewVars
  PROVE  /\ portrait' = portrait
         /\ portrait => [StepOf("portrait")]_vars
         /\ ~portrait => [Next]_vars /\ [StepOf("java")]_vars
  BY DEF ViewNext, viewVars, StepOf

LEMMA ViewIInvInit == ViewInit => ViewIInv
  BY InitIInv, AllTakenAtInit DEF ViewInit, ViewIInv, Classes

LEMMA ViewIInvStep == ViewIInv /\ [ViewNext]_viewVars => ViewIInv'
<1> SUFFICES ASSUME ViewIInv, [ViewNext]_viewVars PROVE ViewIInv'
  OBVIOUS
<1>1. /\ portrait \in BOOLEAN /\ portrait' = portrait
      /\ portrait => [StepOf("portrait")]_vars
      /\ ~portrait => [Next]_vars /\ [StepOf("java")]_vars
  BY ViewStepOf DEF ViewIInv
<1>2. CASE portrait
  <2>1. IInv("portrait")'
    BY <1>1, <1>2, IInvStep DEF ViewIInv, Classes
  <2>2. QED
    BY <1>1, <1>2, <2>1 DEF ViewIInv
<1>3. CASE ~portrait
  <2>1. IInv("java")'
    BY <1>1, <1>3, IInvStep DEF ViewIInv, Classes
  <2>2. AllTaken'
    BY <1>1, <1>3, AllTakenStep DEF ViewIInv
  <2>3. QED
    BY <1>1, <1>3, <2>1, <2>2 DEF ViewIInv
<1>4. QED
  BY <1>2, <1>3

LEMMA ViewInvariance == ViewSpec => []ViewIInv
  BY ViewIInvInit, ViewIInvStep, PTL DEF ViewSpec

(* The portrait view is as safe as the one it was copied from: to leave    *)
(* the flag up outside of the monitor costs no worker, no frame that is    *)
(* being read, no bitmap and no camera (CameraWorker.run of                *)
(* PortraitCameraBridgeViewBase).                                          *)
THEOREM EitherViewIsSafe ==
  ViewSpec => [](TypeOK /\ OneWorker /\ NoTearing /\ FrameIntact /\ BitmapValid
                   /\ StoppedIsReleased)
<1>1. ViewIInv => TypeOK /\ ViewSafety
  BY SafetyFromIInv DEF ViewIInv, IInv, Classes
<1>2. ViewSafety => OneWorker /\ NoTearing /\ FrameIntact /\ BitmapValid /\ StoppedIsReleased
  BY DEF ViewSafety
<1>3. QED
  BY <1>1, <1>2, ViewInvariance, PTL

(* Only the portrait view forgets a frame. *)
THEOREM ForgottenOnlyInPortrait == ViewSpec => []FrameForgottenOnlyInPortrait
<1>1. ViewIInv => FrameForgottenOnlyInPortrait
  BY TakenIsNotForgotten DEF ViewIInv, FrameForgottenOnlyInPortrait
<1>2. QED
  BY <1>1, ViewInvariance, PTL

(* The listener cannot tell the classes apart: a view of either keeps the  *)
(* promises of CvCameraViewListener2.                                      *)
THEOREM EitherViewImplements == ViewSpec => ImplementsListener
<1>1. ViewInit => Listener!Init
  BY ListenerInit DEF ViewInit
<1>2. ViewIInv /\ [ViewNext]_viewVars => [Listener!Next]_(Listener!vars)
  <2> SUFFICES ASSUME ViewIInv, [ViewNext]_viewVars
               PROVE  [Listener!Next]_(Listener!vars)
    OBVIOUS
  <2>1. CASE portrait
    BY <2>1, ViewStepOf, ListenerStep DEF ViewIInv, Classes
  <2>2. CASE ~portrait
    BY <2>2, ViewStepOf, ListenerStep DEF ViewIInv, Classes
  <2>3. QED
    BY <2>1, <2>2
<1>3. QED
  BY <1>1, <1>2, ViewInvariance, PTL DEF ViewSpec, ImplementsListener, Listener!Spec
=============================================================================
