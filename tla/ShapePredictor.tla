---------------------------- MODULE ShapePredictor ----------------------------
(***************************************************************************)
(* How the landmarks of a face are found: shape_predictor::operator() and  *)
(* regression_tree::operator() of dlib's shape_predictor.h.  In every      *)
(* cascade each tree is walked from its root to a leaf, by comparisons of  *)
(* two pixels, and the leaf's values are added to the shape.               *)
(*                                                                         *)
(* Landmarks has the model that is walked.  A comparison may come out      *)
(* either way: pixels and thresholds are left out, and of the shape it is  *)
(* kept which leaves were added to it.                                     *)
(***************************************************************************)
EXTENDS Integers, Sequences

(* The models: of every cascade, and in it of every tree, the number of    *)
(* its splits.  A tree has one leaf more than it has splits.               *)
CONSTANT Forests

ASSUME PredictorAssumption == Forests \subseteq Seq(Seq(Nat))

VARIABLES
  forests,     \* of the model in memory
  iter, tree,  \* the loops of operator(): cascade and tree, from 1
  node,        \* i of the tree's operator(): an index of splits, or beyond
  level, path, \* history: how many nodes node's level has, and which it is
  added,       \* the leaves added to current_shape
  at           \* "forest", "tree" or "done"

walkVars == <<forests, iter, tree, node, level, path, added, at>>

splits == forests[iter][tree]

WalkInit ==
  /\ forests \in Forests
  /\ iter = 1 /\ tree = 1
  /\ node = 0 /\ level = 1 /\ path = 0
  /\ added = <<>>
  /\ at = "forest"

-----------------------------------------------------------------------------
(* A mutant: the wrong child. *)
left_child_right(idx) == 2 * idx + 2

left_child(idx) == 2 * idx + 1

right_child(idx) == 2 * idx + 2

(* A cascade begins: its features are extracted. *)
BeginForest ==
  /\ at = "forest" /\ iter <= Len(forests)
  /\ at' = "tree" /\ tree' = 1
  /\ UNCHANGED <<forests, iter, node, level, path, added>>

BeginTree ==
  /\ node' = 0 /\ level' = 1 /\ path' = 0

GoLeft ==
  /\ at = "tree" /\ tree <= Len(forests[iter]) /\ node < splits
  /\ node' = left_child(node)
  /\ level' = 2 * level /\ path' = 2 * path
  /\ UNCHANGED <<forests, iter, tree, added, at>>

GoRight ==
  /\ at = "tree" /\ tree <= Len(forests[iter]) /\ node < splits
  /\ node' = right_child(node)
  /\ level' = 2 * level /\ path' = 2 * path + 1
  /\ UNCHANGED <<forests, iter, tree, added, at>>

(* A mutant: the leaves are counted from the last split. *)
leafFromLast == node - splits + 1

leaf == node - splits

AddLeaf ==
  /\ at = "tree" /\ tree <= Len(forests[iter]) /\ node >= splits
  /\ added' = Append(added, [iter |-> iter, tree |-> tree, leaf |-> leaf,
                             level |-> level, path |-> path])
  /\ tree' = tree + 1
  /\ BeginTree
  /\ UNCHANGED <<forests, iter, at>>

EndForest ==
  /\ at = "tree" /\ tree > Len(forests[iter])
  /\ iter' = iter + 1
  /\ at' = "forest"
  /\ UNCHANGED <<forests, tree, node, level, path, added>>

WalkReturn ==
  /\ at = "forest" /\ iter > Len(forests)
  /\ at' = "done"
  /\ UNCHANGED <<forests, iter, tree, node, level, path, added>>

WalkNext == BeginForest \/ GoLeft \/ GoRight \/ AddLeaf \/ EndForest \/ WalkReturn

WalkSpec == WalkInit /\ [][WalkNext]_walkVars

-----------------------------------------------------------------------------
(* Properties. *)

WalkTypeOK ==
  /\ forests \in Forests
  /\ iter \in 1 .. Len(forests) + 1 /\ tree \in Nat
  /\ node \in Nat /\ (at = "tree" /\ tree <= Len(forests[iter]) => node <= 2 * splits)
  /\ level \in Nat /\ path \in Nat
  /\ at \in {"forest", "tree", "done"}

(* A walk ends at a leaf that there is, whatever the number of splits: no  *)
(* comparison takes it past the leaves (regression_tree::operator()).      *)
LeafExists ==
  \A k \in DOMAIN added :
    added[k].leaf \in 0 .. forests[added[k].iter][added[k].tree]

(* A full tree: the number of its leaves is a power of two, one of which   *)
(* every factor but 1 is even.                                             *)
Full(leaves) ==
  \A factor, other \in 1 .. leaves :
    leaves = factor * other => factor = 1 \/ factor % 2 = 0

(* In a full tree all walks are of the same length, and the leaves are     *)
(* numbered from left to right: each is the one its turns lead to.         *)
LeafIsPath ==
  \A k \in DOMAIN added :
    LET leaves == forests[added[k].iter][added[k].tree] + 1
    IN  Full(leaves) => added[k].level = leaves /\ added[k].leaf = added[k].path
=============================================================================
