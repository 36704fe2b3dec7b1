---------------------------- MODULE MCCameraView ----------------------------
(* Model checking of CameraView and PortraitCameraView: two worker         *)
(* identities, so that a new worker can be started while an old one would  *)
(* still be alive.                                                         *)
EXTENDS PortraitCameraView

CONSTANTS w1, w2

MCWorkers == {w1, w2}
MCCameras == {"back", "front"}
=============================================================================
