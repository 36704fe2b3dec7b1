------------------------------ MODULE Landmarks ------------------------------
(***************************************************************************)
(* Loading the landmarks model and finding landmarks with it               *)
(* (FaceSwapper.cpp): the two calls share the global face_predictor_model. *)
(* What is walked are the forests that the last load has left, whichever   *)
(* file they are of; between two faces another file may be loaded.         *)
(*                                                                         *)
(* The activity looks for faces only after a load that returned true.  No  *)
(* load of its own runs beside a walk (ModelUsable of FaceSwapActivity),   *)
(* but one of an earlier activity may still begin: what a walk reads then  *)
(* is undefined, and it is not followed any further.                       *)
(***************************************************************************)
EXTENDS ShapePredictorFile, ShapePredictor

CONSTANT Forest   \* of each model its forests

ASSUME ForestAssumption ==
  /\ Forest \in [Models -> Forests]
  /\ \A m \in Models : Len(Forest[m]) = Cascades[m]

landmarksVars == <<vars, walkVars>>

(* No walk is under way, and nothing is kept of the last one. *)
NotWalking ==
  /\ at' = "done" /\ forests' = Forest[model']
  /\ iter' = 1 /\ tree' = 1
  /\ node' = 0 /\ level' = 1 /\ path' = 0
  /\ added' = <<>>

LandmarksInit ==
  /\ Init
  /\ forests = Forest[model]
  /\ iter = 1 /\ tree = 1
  /\ node = 0 /\ level = 1 /\ path = 0
  /\ added = <<>> /\ at = "done"

-----------------------------------------------------------------------------
Load ==
  /\ \E m \in Models : \/ at = "done" /\ Open(m)
                       \/ (at # "done" \/ pc # "idle") /\ Overlap(m)
  /\ NotWalking

LoadStep ==
  /\ Catch \/ ReadVersion \/ ReadSize \/ ReadElement \/ Return \/ Race
  /\ UNCHANGED walkVars

(* A mutant: looks for faces whatever the load returned. *)
FindAnyhow ==
  /\ at = "done" /\ pc = "idle" /\ item["forests"] # <<>>
  /\ forests' = [k \in DOMAIN item["forests"] |->
                   IF item["forests"][k] = Unread THEN <<>> ELSE Forest[item["forests"][k]][k]]
  /\ iter' = 1 /\ tree' = 1
  /\ node' = 0 /\ level' = 1 /\ path' = 0
  /\ added' = <<>> /\ at' = "forest"
  /\ UNCHANGED vars

(* getFaceGeometry: the predictor is called for a face. *)
Find ==
  /\ at = "done" /\ pc = "idle" /\ result
  /\ forests' = [k \in DOMAIN item["forests"] |-> Forest[item["forests"][k]][k]]
  /\ iter' = 1 /\ tree' = 1
  /\ node' = 0 /\ level' = 1 /\ path' = 0
  /\ added' = <<>> /\ at' = "forest"
  /\ UNCHANGED vars

Walk == WalkNext /\ UNCHANGED vars

(* The process ends and the library is loaded anew. *)
NewProcess == Restart /\ NotWalking

LandmarksNext == Load \/ LoadStep \/ Find \/ Walk \/ NewProcess

LandmarksSpec == LandmarksInit /\ [][LandmarksNext]_landmarksVars

-----------------------------------------------------------------------------
(* Properties. *)

(* What is walked are the forests of one model, all of them and of the     *)
(* file that was loaded last: parts of two files are never mixed in a      *)
(* walk, whatever loads have failed before (face_predictor_model).  A walk *)
(* that a load begins beside is not meant: it ends there (Load).           *)
WalksLoadedModel == at \in {"forest", "tree"} => forests = Forest[model]
=============================================================================
