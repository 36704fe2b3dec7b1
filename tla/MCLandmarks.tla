----------------------------- MODULE MCLandmarks -----------------------------
EXTENDS Landmarks

CONSTANTS small, wide, long

(* Models of which two have a shape of the same size, and two have as many *)
(* cascades; full trees of up to 16 leaves and trees that are not full,    *)
(* alone and one after another.                                            *)
ModelsMC == {small, wide, long}
ShapeMC == [m \in ModelsMC |-> IF m = wide THEN 2 ELSE 1]
CascadesMC == [m \in ModelsMC |-> IF m = long THEN 2 ELSE 1]
ForestMC == [m \in ModelsMC |-> CASE m = small -> <<<<15>>>>
                                  [] m = wide  -> <<<<6, 2>>>>
                                  [] m = long  -> <<<<1>>, <<3, 4>>>>]

(* What loads at the same time leave: nothing, a model, or a mixture.      *)
RemainsMC == {[p \in Parts |-> <<>>], Whole(long),
              [Whole(small) EXCEPT !["forests"] = <<wide>>],
              [Whole(long) EXCEPT !["deltas"] = <<long, Unread>>]}

ForestsMC == {ForestMC[m] : m \in ModelsMC}
=============================================================================
