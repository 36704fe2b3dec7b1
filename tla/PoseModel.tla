------------------------------ MODULE PoseModel ------------------------------
(***************************************************************************)
(* What loading the landmarks model promises to FaceSwapActivity, which    *)
(* sees no more of it than loadPoseModel's result: after true, the model   *)
(* in memory is the one of the file, whole.  After false, and while a load *)
(* is under way, it may be unusable, but it is never that of another file. *)
(* This holds for loads that use the model alone, one after another: from  *)
(* a load that begins beside another use of the model on, nothing is       *)
(* promised before the process ends.                                       *)
(***************************************************************************)
CONSTANT Models

VARIABLES
  held,     \* the model in memory: one of Models, or Broken
  model,    \* the model that is, or was last, to be loaded
  busy,     \* a load is under way
  raced,    \* one has begun beside another use of the model
  result    \* of the last load

vars == <<held, model, busy, raced, result>>

Broken == "broken"

Init ==
  /\ held = Broken /\ model \in Models
  /\ busy = FALSE /\ raced = FALSE /\ result = FALSE

Begin(m) ==
  /\ ~busy /\ busy' = TRUE /\ model' = m /\ result' = FALSE
  /\ UNCHANGED <<held, raced>>

Assign ==
  /\ busy /\ ~raced
  /\ held' \in {Broken, model}
  /\ UNCHANGED <<model, busy, raced, result>>

Return ==
  /\ busy /\ ~raced /\ busy' = FALSE
  /\ result' \in BOOLEAN /\ (result' => held = model)
  /\ UNCHANGED <<held, model, raced>>

(* A load begins beside another one, or beside a search for faces in what  *)
(* an earlier one has loaded.                                              *)
Overlap(m) ==
  /\ busy \/ result
  /\ busy' = TRUE /\ raced' = TRUE
  /\ model' = m /\ result' = FALSE
  /\ UNCHANGED held

Race ==
  /\ raced
  /\ held' \in Models \cup {Broken} /\ result' \in BOOLEAN
  /\ UNCHANGED <<model, busy, raced>>

Restart ==
  /\ held' = Broken /\ busy' = FALSE /\ raced' = FALSE /\ result' = FALSE
  /\ UNCHANGED model

Next ==
  \/ \E m \in Models : Begin(m) \/ Overlap(m)
  \/ Assign \/ Return \/ Race \/ Restart

Spec == Init /\ [][Next]_vars
=============================================================================
