-------------------------- MODULE ShapePredictorFile --------------------------
(***************************************************************************)
(* Loading the landmarks model: nativeLoadPoseModel (FaceSwapper.cpp),     *)
(* which reads a file into the global face_predictor_model, and dlib's     *)
(* deserialize for shape_predictor, matrix and vector.  The file may be    *)
(* missing, of another version, or cut anywhere; loading may be tried      *)
(* again, with the same file or another one, into what the last attempt    *)
(* has left.                                                               *)
(*                                                                         *)
(* Nothing guards the global: loadPoseModel takes no lock, and a loader of *)
(* FaceSwapActivity that was cancelled runs on beside the next one, on the *)
(* threads of a pool.  What two calls at a time do to the vectors is       *)
(* undefined; the model says "raced" from then on, and that memory may     *)
(* hold any of what such loads can leave, until the process ends.          *)
(*                                                                         *)
(* A part of the model is a sequence of elements, each read whole: the     *)
(* coordinates of the initial shape, and the forest, the anchors and the   *)
(* deltas of every cascade.  An element is known by the model it is of.    *)
(* How a number is read is left out.                                       *)
(***************************************************************************)
EXTENDS Integers, Sequences

CONSTANTS
  Models,     \* the models there are files of
  Shape,      \* of each the size of its initial shape
  Cascades,   \* of each the number of its cascades
  Remains     \* what calls that run at the same time may leave in memory

ASSUME FileAssumption ==
  /\ Shape \in [Models -> Nat \ {0}]
  /\ Cascades \in [Models -> Nat \ {0}]
  /\ {"broken", "unread"} \cap Models = {}

VARIABLES
  item,       \* face_predictor_model
  model,      \* the model in the file that is, or was last, read
  left,       \* the numbers that can still be read of it
  part,       \* the part that is being read ...
  index,      \* ... and the element of it; 0: its size
  pc,         \* "idle", "reading" or "raced"
  result      \* what nativeLoadPoseModel returned last

vars == <<item, model, left, part, index, pc, result>>

Parts == {"initial_shape", "forests", "anchor_idx", "deltas"}
After == [version |-> "initial_shape", initial_shape |-> "forests", forests |-> "anchor_idx",
          anchor_idx |-> "deltas", deltas |-> "end"]

ASSUME RemainsAssumption == Remains \subseteq [Parts -> Seq(Models \cup {"unread"})]

Size(m, p) == IF p = "initial_shape" THEN Shape[m] ELSE Cascades[m]
Numbers(m) == 5 + Shape[m] + 3 * Cascades[m]

Whole(m) == [p \in Parts |-> [i \in 1 .. Size(m, p) |-> m]]

(* An element that was made but not read yet: of a vector the default, of  *)
(* a matrix whatever the memory holds.                                     *)
Unread == "unread"

Init ==
  /\ item = [p \in Parts |-> <<>>]
  /\ model \in Models
  /\ left = 0 /\ part = "version" /\ index = 0
  /\ pc = "idle" /\ result = FALSE

-----------------------------------------------------------------------------
(* A mutant: a vector only grows. *)
ResizedUp(p, elements, n) ==
  [i \in 1 .. (IF Len(elements) > n THEN Len(elements) ELSE n) |->
     IF i <= Len(elements) THEN elements[i] ELSE Unread]

(* vector::resize keeps the elements there are; matrix::set_size keeps     *)
(* them if their number stays the same.                                    *)
Resized(p, elements, n) ==
  [i \in 1 .. n |->
     IF i <= Len(elements) /\ (p = "initial_shape" => Len(elements) = n)
     THEN elements[i] ELSE Unread]

(* dlib::deserialize(model_path): how much of the file is there is         *)
(* decided before.  No other call uses the model.                          *)
Open(m) ==
  /\ pc = "idle" /\ pc' = "reading"
  /\ model' = m /\ left' \in 0 .. Numbers(m)
  /\ part' = "version" /\ index' = 0
  /\ result' = FALSE
  /\ UNCHANGED item

(* The same beside another load, or when faces may be looked for with what *)
(* a load has left: nothing in loadPoseModel prevents it.                  *)
Overlap(m) ==
  /\ pc # "idle" \/ result
  /\ pc' = "raced"
  /\ model' = m /\ left' = 0
  /\ part' = "version" /\ index' = 0
  /\ result' = FALSE
  /\ UNCHANGED item

(* What such calls do and return, in whatever order.                       *)
Race ==
  /\ pc = "raced"
  /\ item' \in Remains /\ result' \in BOOLEAN
  /\ UNCHANGED <<model, left, part, index, pc>>

(* A mutant: a file that has ended passes for read. *)
CatchTrue ==
  /\ pc = "reading" /\ pc' = "idle"
  /\ part # "end" /\ (left = 0 \/ part = "version")
  /\ result' = TRUE
  /\ UNCHANGED <<item, model, left, part, index>>

(* catch (std::exception& e): the file cannot be opened, is of another     *)
(* version or has ended.                                                   *)
Catch ==
  /\ pc = "reading" /\ pc' = "idle"
  /\ part # "end" /\ (left = 0 \/ part = "version")
  /\ result' = FALSE
  /\ UNCHANGED <<item, model, left, part, index>>

ReadVersion ==
  /\ pc = "reading" /\ part = "version" /\ left > 0
  /\ left' = left - 1 /\ part' = After[part] /\ index' = 0
  /\ UNCHANGED <<item, model, pc, result>>

(* The next element of a part of n elements, or the next part. *)
Advance(n) ==
  IF index < n THEN index' = index + 1 /\ UNCHANGED part
               ELSE index' = 0 /\ part' = After[part]

ReadSize ==
  /\ pc = "reading" /\ part \in Parts /\ index = 0 /\ left > 0
  /\ left' = left - 1
  /\ item' = [item EXCEPT ![part] = Resized(part, @, Size(model, part))]
  /\ Advance(Size(model, part))
  /\ UNCHANGED <<model, pc, result>>

ReadElement ==
  /\ pc = "reading" /\ part \in Parts /\ index > 0 /\ left > 0
  /\ left' = left - 1
  /\ item' = [item EXCEPT ![part][index] = model]
  /\ Advance(Size(model, part))
  /\ UNCHANGED <<model, pc, result>>

Return ==
  /\ pc = "reading" /\ part = "end"
  /\ pc' = "idle" /\ result' = TRUE
  /\ UNCHANGED <<item, model, left, part, index>>

(* The process ends and the library is loaded anew. *)
Restart ==
  /\ item' = [p \in Parts |-> <<>>]
  /\ left' = 0 /\ part' = "version" /\ index' = 0
  /\ pc' = "idle" /\ result' = FALSE
  /\ UNCHANGED model

Next ==
  \/ \E m \in Models : Open(m) \/ Overlap(m)
  \/ Race
  \/ Catch \/ ReadVersion \/ ReadSize \/ ReadElement \/ Return \/ Restart

Spec == Init /\ [][Next]_vars

-----------------------------------------------------------------------------
(* Properties. *)

TypeOK ==
  /\ DOMAIN item = Parts
  /\ \A p \in Parts : \A i \in DOMAIN item[p] : item[p][i] \in Models \cup {Unread}
  /\ model \in Models /\ left \in 0 .. Numbers(model)
  /\ part \in Parts \cup {"version", "end"}
  /\ index \in Nat /\ (part \in Parts => index <= Len(item[part]) \/ pc # "reading")
  /\ pc \in {"idle", "reading", "raced"} /\ result \in BOOLEAN

(* As long as no load has run beside another use of the model: after true  *)
(* the model is the one of the file, whole, and nothing is left of what    *)
(* earlier attempts have read, from whatever file and up to wherever.      *)
LoadedIsWhole == result /\ pc # "raced" => item = Whole(model)

(* What is in memory, to the caller of loadPoseModel. *)
ModelOf(content) ==
  IF \E m \in Models : content = Whole(m)
  THEN CHOOSE m \in Models : content = Whole(m) ELSE "broken"

PM == INSTANCE PoseModel WITH
        held <- ModelOf(item), busy <- (pc # "idle"), raced <- (pc = "raced")

(* At every step of a load the model in memory stays what it is, becomes   *)
(* unusable or becomes the one of the file: the parts of two models never  *)
(* pass for a third one.  PoseModel promises it only as long as no load    *)
(* has run beside another use of the model.                                *)
LoadsPoseModel == PM!Spec
=============================================================================
