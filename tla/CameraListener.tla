--------------------------- MODULE CameraListener ---------------------------
(***************************************************************************)
(* What a camera view promises to its CvCameraViewListener2, as the        *)
(* comments of the interface state it (CameraBridgeViewBase.java, lines    *)
(* 115-136): frames are delivered, one call at a time and in the order     *)
(* the camera took them, only between onCameraViewStarted and              *)
(* onCameraViewStopped.  CameraView implements this specification.         *)
(***************************************************************************)
EXTENDS Naturals

VARIABLES
  view,   \* the last life-cycle callback: "started" or "stopped"
  busy,   \* TRUE while a call of onCameraFrame is running
  last    \* the number of the last frame delivered, 0 before the first

vars == <<view, busy, last>>

Init == view = "stopped" /\ busy = FALSE /\ last = 0

OnCameraViewStarted ==
  /\ view = "stopped" /\ ~busy
  /\ view' = "started"
  /\ UNCHANGED <<busy, last>>

OnCameraViewStopped ==
  /\ view = "started" /\ ~busy
  /\ view' = "stopped"
  /\ UNCHANGED <<busy, last>>

(* Frames may be skipped, but never repeated nor delivered out of order. *)
BeginOnCameraFrame ==
  /\ view = "started" /\ ~busy
  /\ busy' = TRUE
  /\ last' \in Nat /\ last' > last
  /\ UNCHANGED view

EndOnCameraFrame ==
  /\ busy
  /\ busy' = FALSE
  /\ UNCHANGED <<view, last>>

Next == \/ OnCameraViewStarted \/ OnCameraViewStopped
        \/ BeginOnCameraFrame \/ EndOnCameraFrame

Spec == Init /\ [][Next]_vars
=============================================================================
