------------------------- MODULE PortraitCameraView -------------------------
(***************************************************************************)
(* The portrait camera view under development: PortraitCameraView and      *)
(* PortraitCameraBridgeViewBase are copies of JavaCameraView and           *)
(* CameraBridgeViewBase that rotate the frame they draw.  The one change   *)
(* of control is in CameraWorker.run: the critical section swaps the chain *)
(* and leaves mCameraFrameReady set; the flag is tested and cleared after  *)
(* the monitor has been left, while onPreviewFrame may put the next frame. *)
(* Everything else is the state and the actions of CameraView.             *)
(***************************************************************************)
EXTENDS CameraView

VARIABLE portrait   \* the class of the view: which of the two it is

viewVars == <<vars, portrait>>

GoTo(w, pc) == workerPc' = [workerPc EXCEPT ![w] = pc]

WorkerOnly == UNCHANGED <<uiVars, bridgeVars, deviceVars, mFrameChain, threadVars>>

(* The critical section: the chain is swapped, the flag stays.             *)
SwapChain(w) ==
  /\ workerPc[w] = "enter" /\ MonitorFree
  /\ mCameraFrameReady
  /\ mChainIdx' = 1 - mChainIdx
  /\ GoTo(w, "hasFrame")
  /\ WorkerOnly /\ UNCHANGED <<mCameraFrameReady, slot, last>>

(* Outside of the monitor: the flag is cleared, that of a frame put since  *)
(* the swap included.                                                      *)
ClearReady(w) ==
  /\ workerPc[w] = "hasFrame"
  /\ ~mStopThread /\ mCameraFrameReady
  /\ mCameraFrameReady' = FALSE
  /\ GoTo(w, "cleared")
  /\ WorkerOnly /\ UNCHANGED <<mChainIdx, slot, last>>

(* A mutant: the entry onPreviewFrame writes to is the one delivered. *)
DeliverWrongEntry(w) ==
  /\ workerPc[w] = "cleared" /\ mFrameChain[mChainIdx] # Released
  /\ slot' = [slot EXCEPT ![w] = mChainIdx]
  /\ last' = mFrameChain[mChainIdx]
  /\ GoTo(w, "deliver")
  /\ WorkerOnly /\ UNCHANGED <<mChainIdx, mCameraFrameReady>>

(* The listener is called, even if the thread has been told to stop since. *)
DeliverSwapped(w) ==
  /\ workerPc[w] = "cleared" /\ mFrameChain[1 - mChainIdx] # Released
  /\ slot' = [slot EXCEPT ![w] = 1 - mChainIdx]
  /\ last' = mFrameChain[1 - mChainIdx]
  /\ GoTo(w, "deliver")
  /\ WorkerOnly /\ UNCHANGED <<mChainIdx, mCameraFrameReady>>

(* The thread is to stop, or the flag is gone, or the Mat has been released. *)
SkipFrame(w) ==
  /\ workerPc[w] \in {"hasFrame", "cleared"}
  /\ IF workerPc[w] = "hasFrame" THEN mStopThread \/ ~mCameraFrameReady
                                 ELSE mFrameChain[1 - mChainIdx] = Released
  /\ GoTo(w, "loop")
  /\ WorkerOnly /\ UNCHANGED <<mChainIdx, mCameraFrameReady, slot, last>>

PortraitWorkerStep(w) ==
  \/ WaitForFrame(w) \/ SwapChain(w) \/ TakeNothing(w)
  \/ ClearReady(w) \/ DeliverSwapped(w) \/ SkipFrame(w)
  \/ DrawFrame(w) \/ FrameDrawn(w) \/ LoopTest(w)

PortraitNext ==
  \/ NewHandler
  \/ UiStep
  \/ Capture \/ BeginPreviewFrame
  \/ \E w \in Workers : PortraitWorkerStep(w) \/ SpuriousWakeup(w)

(* A view of either class. *)
ViewInit == Init /\ portrait \in BOOLEAN

ViewNext ==
  /\ UNCHANGED portrait
  /\ \/ ~portrait /\ Next
     \/ portrait /\ PortraitNext

ViewUiStep == UiStep /\ UNCHANGED portrait

ViewWorkerStep(w) ==
  /\ UNCHANGED portrait
  /\ \/ ~portrait /\ WorkerStep(w)
     \/ portrait /\ PortraitWorkerStep(w)

EnterMonitor(w) ==
  /\ UNCHANGED portrait
  /\ \/ ~portrait /\ TakeFrame(w)
     \/ portrait /\ SwapChain(w)

ViewSpec == ViewInit /\ [][ViewNext]_viewVars

(* Threads that can run do run, and one that contends for the monitor gets *)
(* it in the end; nobody owes the view a handler, a frame or a spurious    *)
(* wake-up.                                                                *)
FairViewSpec ==
  /\ ViewSpec
  /\ WF_viewVars(ViewUiStep)
  /\ \A w \in Workers : WF_viewVars(ViewWorkerStep(w)) /\ SF_viewVars(EnterMonitor(w))

-----------------------------------------------------------------------------
(* Properties. *)

(* The one promise of CameraView that the change of control breaks, so     *)
(* that the views differ in nothing else: a frame is left in the chain     *)
(* with the flag down only by the portrait view, whose worker clears the   *)
(* flag of a frame that was put since the swap (CameraWorker.run).         *)
FrameForgottenOnlyInPortrait == ~portrait => NoFrameForgotten
=============================================================================
