--------------------------- MODULE LandmarksProofs ---------------------------
(***************************************************************************)
(* Proofs about the landmarks model, for models of any size and any        *)
(* sequence of loads and faces: ShapePredictorFile (what is in memory      *)
(* after a load is whole, and never a mixture), ShapePredictor (a walk     *)
(* ends at a leaf, in a full tree at the one its turns lead to), and       *)
(* Landmarks, where the walks go through what the loads have left.         *)
(***************************************************************************)
EXTENDS Landmarks, TLAPS

-----------------------------------------------------------------------------
(* The file (ShapePredictorFile). *)

(* The parts that a load has behind it when it is at a part. *)
Done == [version |-> {}, initial_shape |-> {}, forests |-> {"initial_shape"},
         anchor_idx |-> {"initial_shape", "forests"},
         deltas |-> {"initial_shape", "forests", "anchor_idx"},
         end |-> Parts]

FileTypes ==
  /\ item \in [Parts -> UNION {[1 .. n -> Models \cup {Unread}] : n \in Nat}]
  /\ model \in Models
  /\ part \in Parts \cup {"version", "end"}
  /\ index \in Nat
  /\ pc \in {"idle", "reading", "raced"} /\ result \in BOOLEAN

(* The part that is being read has its size, and the model's elements up   *)
(* to the index.                                                           *)
PartBegun ==
  pc = "reading" /\ part \in Parts /\ index > 0 =>
    /\ DOMAIN item[part] = 1 .. Size(model, part)
    /\ index <= Size(model, part)
    /\ \A i \in 1 .. index - 1 : item[part][i] = model

PartsDone ==
  pc = "reading" => \A p \in Done[part] : item[p] = Whole(model)[p]

FileIInv ==
  /\ FileTypes /\ PartBegun /\ PartsDone
  /\ LoadedIsWhole
  /\ pc = "reading" => ~result

LEMMA Sizes ==
  ASSUME NEW m \in Models, NEW p \in Parts
  PROVE  /\ Size(m, p) \in Nat /\ Size(m, p) > 0
         /\ Whole(m)[p] = [i \in 1 .. Size(m, p) |-> m]
BY FileAssumption DEF Size, Whole

LEMMA FileInit == Init => FileIInv
<1> SUFFICES ASSUME Init PROVE FileIInv
  OBVIOUS
<1>1. item \in [Parts -> UNION {[1 .. n -> Models \cup {Unread}] : n \in Nat}]
  <2>1. <<>> \in [1 .. 0 -> Models \cup {Unread}]
    OBVIOUS
  <2> QED
    BY <2>1 DEF Init
<1> QED
  BY <1>1 DEF Init, FileIInv, FileTypes, PartBegun, PartsDone, LoadedIsWhole

(* Whatever was there, a part has its new size after it was resized, and   *)
(* elements of models.                                                     *)
LEMMA ResizedPart ==
  ASSUME NEW p, NEW n \in Nat,
         NEW elements \in UNION {[1 .. k -> Models \cup {Unread}] : k \in Nat}
  PROVE  Resized(p, elements, n) \in [1 .. n -> Models \cup {Unread}]
<1>1. PICK k \in Nat : elements \in [1 .. k -> Models \cup {Unread}]
  OBVIOUS
<1>2. elements \in Seq(Models \cup {Unread}) /\ Len(elements) = k
  BY <1>1
<1> QED
  BY <1>1, <1>2 DEF Resized

LEMMA ReadSizeStep == FileIInv /\ ReadSize => FileIInv'
<1> SUFFICES ASSUME FileIInv, ReadSize PROVE FileIInv'
  OBVIOUS
<1> DEFINE n == Size(model, part)
<1>1. part \in Parts /\ model \in Models /\ n \in Nat /\ n > 0 /\ pc = "reading"
  BY Sizes DEF ReadSize, FileIInv, FileTypes
<1>2. /\ item[part] \in UNION {[1 .. k -> Models \cup {Unread}] : k \in Nat}
      /\ DOMAIN item = Parts
  BY <1>1 DEF FileIInv, FileTypes
<1>3. /\ item'[part] \in [1 .. n -> Models \cup {Unread}]
      /\ \A p \in Parts : p # part => item'[p] = item[p]
      /\ item' \in [Parts -> UNION {[1 .. k -> Models \cup {Unread}] : k \in Nat}]
  BY <1>1, <1>2, ResizedPart DEF ReadSize, FileIInv, FileTypes
<1>4. index' = 1 /\ part' = part
  BY <1>1 DEF ReadSize, Advance, FileIInv, FileTypes
<1>5. FileTypes' /\ PartBegun'
  BY <1>1, <1>3, <1>4 DEF ReadSize, FileIInv, FileTypes, PartBegun
<1>6. PartsDone'
  <2>1. part \notin Done[part] /\ Done[part] \subseteq Parts
    BY <1>1 DEF Done, Parts
  <2>2. \A p \in Done[part] : item'[p] = Whole(model)[p]
    BY <1>1, <1>3, <2>1 DEF FileIInv, PartsDone
  <2>3. model' = model
    BY DEF ReadSize
  <2> QED
    BY <1>4, <2>2, <2>3 DEF PartsDone
<1> QED
  BY <1>5, <1>6 DEF ReadSize, FileIInv, LoadedIsWhole

LEMMA ReadElementStep == FileIInv /\ ReadElement => FileIInv'
<1> SUFFICES ASSUME FileIInv, ReadElement PROVE FileIInv'
  OBVIOUS
<1> DEFINE n == Size(model, part)
<1>1. part \in Parts /\ model \in Models /\ n \in Nat /\ n > 0 /\ pc = "reading" /\ index \in Nat
  BY Sizes DEF ReadElement, FileIInv, FileTypes
<1>2. /\ DOMAIN item[part] = 1 .. n /\ index \in 1 .. n /\ DOMAIN item = Parts
      /\ \A i \in 1 .. index - 1 : item[part][i] = model
  BY <1>1 DEF ReadElement, FileIInv, PartBegun, FileTypes
<1>3. item[part] \in [1 .. n -> Models \cup {Unread}]
  BY <1>1, <1>2 DEF FileIInv, FileTypes
<1>4. item' = [item EXCEPT ![part][index] = model]
  BY DEF ReadElement
<1>5. /\ item'[part] = [item[part] EXCEPT ![index] = model]
      /\ \A p \in Parts : p # part => item'[p] = item[p]
      /\ DOMAIN item' = Parts /\ item' = [p \in Parts |-> item'[p]]
  BY <1>1, <1>2, <1>4 DEF FileTypes
<1>6. /\ item'[part] \in [1 .. n -> Models \cup {Unread}]
      /\ \A i \in 1 .. index : item'[part][i] = model
  BY <1>1, <1>2, <1>3, <1>5
<1>7. item' \in [Parts -> UNION {[1 .. k -> Models \cup {Unread}] : k \in Nat}]
  BY <1>1, <1>5, <1>6 DEF FileIInv, FileTypes
<1>8. CASE index < n
  <2>1. index' = index + 1 /\ part' = part
    BY <1>8 DEF ReadElement, Advance
  <2>2. FileTypes' /\ PartBegun'
    BY <1>1, <1>2, <1>6, <1>7, <1>8, <2>1 DEF ReadElement, FileIInv, FileTypes, PartBegun
  <2>3. PartsDone'
    <3>1. part \notin Done[part] /\ Done[part] \subseteq Parts
      BY <1>1 DEF Done, Parts
    <3>2. \A p \in Done[part] : item'[p] = Whole(model)[p]
      BY <1>1, <1>5, <3>1 DEF FileIInv, PartsDone
    <3>3. model' = model
      BY DEF ReadElement
    <3> QED
      BY <2>1, <3>2, <3>3 DEF PartsDone
  <2> QED
    BY <2>2, <2>3 DEF ReadElement, FileIInv, LoadedIsWhole
<1>9. CASE ~(index < n)
  <2>1. index' = 0 /\ part' = After[part] /\ index = n
    BY <1>1, <1>2, <1>9 DEF ReadElement, Advance
  <2>2. FileTypes' /\ PartBegun'
    BY <1>1, <1>7, <2>1 DEF ReadElement, FileIInv, FileTypes, PartBegun, After, Parts
  <2>3. item'[part] = Whole(model)[part]
    <3>1. item'[part] = [i \in 1 .. n |-> model]
      BY <1>6, <2>1
    <3> QED
      BY <1>1, <3>1, Sizes
  <2>4. Done[part'] = Done[part] \cup {part} /\ part \notin Done[part] /\ Done[part] \subseteq Parts
    BY <1>1, <2>1 DEF After, Done, Parts
  <2>5. \A p \in Done[part] : item'[p] = Whole(model)[p]
    BY <1>1, <1>5, <2>4 DEF FileIInv, PartsDone
  <2>6. PartsDone'
    BY <2>3, <2>4, <2>5 DEF ReadElement, PartsDone, Whole, Size
  <2> QED
    BY <2>2, <2>6 DEF ReadElement, FileIInv, LoadedIsWhole
<1> QED
  BY <1>8, <1>9

(* What loads at the same time leave is of the right type, and no more is  *)
(* known of it.                                                            *)
LEMMA RaceStep == FileIInv /\ Race => FileIInv'
<1> SUFFICES ASSUME FileIInv, Race PROVE FileIInv'
  OBVIOUS
<1>1. item' \in [Parts -> UNION {[1 .. n -> Models \cup {Unread}] : n \in Nat}]
  <2>1. ASSUME NEW p \in Parts
        PROVE  item'[p] \in UNION {[1 .. n -> Models \cup {Unread}] : n \in Nat}
    <3>1. item' \in [Parts -> Seq(Models \cup {Unread})]
      BY RemainsAssumption DEF Race, Unread
    <3>2. item'[p] \in Seq(Models \cup {Unread})
      BY <2>1, <3>1
    <3>3. /\ Len(item'[p]) \in Nat
          /\ item'[p] \in [1 .. Len(item'[p]) -> Models \cup {Unread}]
      BY <3>2
    <3> QED
      BY <3>3
  <2>2. item' = [p \in Parts |-> item'[p]]
    BY RemainsAssumption DEF Race
  <2> QED
    BY <2>1, <2>2
<1> QED
  BY <1>1 DEF Race, FileIInv, FileTypes, PartBegun, PartsDone, LoadedIsWhole

LEMMA FileStep == FileIInv /\ [Next]_vars => FileIInv'
<1> SUFFICES ASSUME FileIInv, [Next]_vars PROVE FileIInv'
  OBVIOUS
<1> USE DEF FileIInv, FileTypes, PartBegun, PartsDone, LoadedIsWhole
<1>1. ASSUME NEW m \in Models, Open(m) PROVE FileIInv'
  BY <1>1 DEF Open, Done, Parts
<1>2. CASE Catch
  BY <1>2 DEF Catch
<1>3. CASE ReadVersion
  BY <1>3 DEF ReadVersion, After, Done, Parts
<1>4. CASE ReadSize
  BY <1>4, ReadSizeStep
<1>5. CASE ReadElement
  BY <1>5, ReadElementStep
<1>6. CASE Return
  <2>1. \A p \in Parts : item[p] = Whole(model)[p]
    BY <1>6 DEF Return, Done
  <2>2. item = Whole(model)
    BY <2>1 DEF Whole
  <2> QED
    BY <1>6, <2>2 DEF Return, Whole, Size
<1>7. CASE Restart
  <2>1. item' \in [Parts -> UNION {[1 .. n -> Models \cup {Unread}] : n \in Nat}]
    <3>1. <<>> \in [1 .. 0 -> Models \cup {Unread}]
      OBVIOUS
    <3> QED
      BY <1>7, <3>1 DEF Restart
  <2> QED
    BY <1>7, <2>1 DEF Restart
<1>8. CASE UNCHANGED vars
  <2>1. UNCHANGED <<item, model, part, index, pc, result>>
    BY <1>8 DEF vars
  <2>2. FileTypes' /\ PartBegun'
    BY <2>1 DEF Size
  <2>3. PartsDone'
    BY <2>1
  <2>4. LoadedIsWhole' /\ (pc' = "reading" => ~result')
    BY <2>1
  <2> QED
    BY <2>2, <2>3, <2>4
<1>9. ASSUME NEW m \in Models, Overlap(m) PROVE FileIInv'
  BY <1>9 DEF Overlap
<1>10. CASE Race
  BY <1>10, RaceStep
<1> QED
  BY <1>1, <1>2, <1>3, <1>4, <1>5, <1>6, <1>7, <1>8, <1>9, <1>10 DEF Next

LEMMA FileInvariance == Spec => []FileIInv
  BY FileInit, FileStep, PTL DEF Spec

(* After loadPoseModel has returned true the model is that of its file,    *)
(* whole, as long as no load has begun beside another use of the model.    *)
THEOREM LoadedModelIsWhole == Spec => []LoadedIsWhole
<1>1. FileIInv => LoadedIsWhole
  BY DEF FileIInv
<1> QED
  BY <1>1, FileInvariance, PTL

-----------------------------------------------------------------------------
(* The refinement: what is in memory changes only as PoseModel allows it.  *)

LEMMA WholeHasParts ==
  ASSUME NEW m \in Models, NEW p \in Parts
  PROVE  1 \in DOMAIN Whole(m)[p] /\ Whole(m)[p][1] = m
<1>1. Size(m, p) \in Nat /\ Size(m, p) > 0 /\ Whole(m)[p] = [i \in 1 .. Size(m, p) |-> m]
  BY Sizes
<1>2. 1 \in 1 .. Size(m, p)
  BY <1>1
<1> QED
  BY <1>1, <1>2

LEMMA ModelOfIs ==
  ASSUME NEW content
  PROVE  /\ \A m \in Models : content = Whole(m) => ModelOf(content) = m
         /\ ModelOf(content) \in Models => content = Whole(ModelOf(content))
         /\ ModelOf(content) \in Models \cup {"broken"}
<1>1. ASSUME NEW m \in Models, NEW k \in Models, Whole(m) = Whole(k)
      PROVE  m = k
  <2>1. "forests" \in Parts
    BY DEF Parts
  <2> QED
    BY <1>1, <2>1, WholeHasParts
<1> QED
  BY <1>1, FileAssumption DEF ModelOf

LEMMA EmptyIsBroken == ModelOf([p \in Parts |-> <<>>]) = "broken"
<1> DEFINE empty == [p \in Parts |-> <<>>]
<1>1. ASSUME NEW m \in Models, empty = Whole(m) PROVE FALSE
  <2>1. "forests" \in Parts
    BY DEF Parts
  <2>2. empty["forests"] = <<>>
    BY <2>1
  <2>3. 1 \in DOMAIN empty["forests"]
    BY <1>1, <2>1, WholeHasParts
  <2> QED
    BY <2>2, <2>3
<1> HIDE DEF empty
<1>2. ModelOf(empty) = "broken"
  BY <1>1, ModelOfIs
<1> QED
  BY <1>2 DEF empty

(* A step that reads leaves the model in memory unusable or that of the    *)
(* file, or does not change it.                                            *)
LEMMA ReadHeld ==
  ASSUME FileIInv, ReadSize \/ ReadElement
  PROVE  ModelOf(item') \in {"broken", model} \/ item' = item
<1>1. part \in Parts /\ model \in Models /\ pc = "reading" /\ DOMAIN item = Parts
  BY DEF ReadSize, ReadElement, FileIInv, FileTypes
<1> SUFFICES ASSUME NEW m \in Models, item' = Whole(m), m # model
             PROVE  item' = item
  BY ModelOfIs
<1>2. \A p \in Parts : \A i \in DOMAIN item'[p] : item'[p][i] = m
  BY DEF Whole
<1>3. CASE ReadElement
  <2>1. index \in DOMAIN item[part]
    BY <1>1, <1>3 DEF FileIInv, PartBegun, FileTypes, ReadElement
  <2>2. item' = [item EXCEPT ![part][index] = model]
    BY <1>3 DEF ReadElement
  <2>3. index \in DOMAIN item'[part] /\ item'[part][index] = model
    BY <1>1, <2>1, <2>2
  <2> QED
    BY <1>1, <1>2, <2>3
<1>4. CASE ReadSize
  <2>1. item' = [item EXCEPT ![part] = Resized(part, @, Size(model, part))]
    BY <1>4 DEF ReadSize
  <2>2. CASE part # "initial_shape"
    <3>1. "initial_shape" \in Done[part]
      BY <1>1, <2>2 DEF Done, Parts
    <3>2. item["initial_shape"] = Whole(model)["initial_shape"]
      BY <1>1, <3>1 DEF FileIInv, PartsDone
    <3>3. item'["initial_shape"] = Whole(model)["initial_shape"]
      BY <1>1, <2>1, <2>2, <3>2 DEF Parts
    <3>4. 1 \in DOMAIN Whole(model)["initial_shape"] /\ Whole(model)["initial_shape"][1] = model
      BY <1>1, WholeHasParts DEF Parts
    <3> QED
      BY <1>2, <3>3, <3>4 DEF Parts
  <2>3. CASE part = "initial_shape"
    <3> DEFINE n == Size(model, part)
    <3>1. n \in Nat /\ n > 0
      BY <1>1, Sizes
    <3>2. PICK k \in Nat : item[part] \in [1 .. k -> Models \cup {Unread}]
      BY <1>1 DEF FileIInv, FileTypes
    <3>3. Len(item[part]) = k
      BY <3>2
    <3>4. item'[part] = [i \in 1 .. n |-> IF i <= k /\ k = n THEN item[part][i] ELSE Unread]
      BY <1>1, <2>1, <2>3, <3>3 DEF Resized
    <3>5. 1 \in DOMAIN item'[part]
      BY <3>1, <3>4
    <3>6. item'[part][1] = m
      BY <1>1, <1>2, <3>5
    <3>7. m # Unread
      BY FileAssumption DEF Unread
    <3>8. k = n
      BY <3>1, <3>4, <3>6, <3>7
    <3>9. item'[part] = item[part]
      BY <3>1, <3>2, <3>4, <3>8
    <3> QED
      BY <1>1, <2>1, <3>9 DEF FileIInv, FileTypes
  <2> QED
    BY <2>2, <2>3
<1> QED
  BY <1>3, <1>4

LEMMA StepHeld == FileIInv /\ [Next]_vars => [PM!Next]_PM!vars
<1> SUFFICES ASSUME FileIInv, [Next]_vars PROVE [PM!Next]_PM!vars
  OBVIOUS
<1> USE DEF PM!Next, PM!vars
<1>1. ASSUME NEW m \in Models, Open(m) PROVE PM!Begin(m)
  BY <1>1 DEF Open, PM!Begin
<1>2. CASE Catch
  BY <1>2 DEF Catch, PM!Return
<1>3. CASE ReadVersion
  BY <1>3 DEF ReadVersion
<1>4. CASE ReadSize \/ ReadElement
  <2>1. UNCHANGED <<model, pc, result>> /\ pc = "reading"
    BY <1>4 DEF ReadSize, ReadElement
  <2>2. CASE ModelOf(item') \in {"broken", model}
    BY <2>1, <2>2 DEF PM!Assign, PM!Broken
  <2>3. CASE item' = item
    BY <2>1, <2>3
  <2> QED
    BY <1>4, <2>2, <2>3, ReadHeld
<1>5. CASE Return
  <2>1. item = Whole(model)
    <3>1. item' = Whole(model)' /\ item' = item /\ model' = model
      BY <1>5, FileStep DEF FileIInv, LoadedIsWhole, Return
    <3> QED
      BY <3>1 DEF Whole, Size
  <2>2. ModelOf(item) = model
    BY <2>1, ModelOfIs DEF FileIInv, FileTypes
  <2> QED
    BY <1>5, <2>2 DEF Return, PM!Return
<1>6. CASE Restart
  <2>1. ModelOf(item') = "broken"
    BY <1>6, EmptyIsBroken DEF Restart
  <2> QED
    BY <1>6, <2>1 DEF Restart, PM!Restart, PM!Broken
<1>7. CASE UNCHANGED vars
  BY <1>7 DEF vars
<1>8. ASSUME NEW m \in Models, Overlap(m) PROVE PM!Overlap(m)
  BY <1>8 DEF Overlap, PM!Overlap
<1>9. CASE Race
  <2>1. ModelOf(item') \in Models \cup {"broken"}
    BY ModelOfIs
  <2>2. result' \in BOOLEAN
    BY <1>9 DEF Race
  <2> QED
    BY <1>9, <2>1, <2>2 DEF Race, PM!Race, PM!Broken
<1> QED
  BY <1>1, <1>2, <1>3, <1>4, <1>5, <1>6, <1>7, <1>8, <1>9 DEF Next

LEMMA InitHeld == Init => PM!Init
<1> SUFFICES ASSUME Init PROVE PM!Init
  OBVIOUS
<1>1. ModelOf(item) = "broken"
  BY EmptyIsBroken DEF Init
<1> QED
  BY <1>1 DEF Init, PM!Init, PM!Broken

(* The loading implements PoseModel: as long as loads use the model alone, *)
(* one after another, the parts of two models never pass for a third one.  *)
(* What PoseModel gives up when loads overlap is the rest of it.           *)
THEOREM LoadingImplementsPoseModel == Spec => LoadsPoseModel
  BY InitHeld, StepHeld, FileInvariance, PTL DEF Spec, LoadsPoseModel, PM!Spec

-----------------------------------------------------------------------------
(* The walks (ShapePredictor): a step goes from a split to one of the next *)
(* 2 * splits nodes, and what is beyond the splits is then a leaf.         *)

InLoops ==
  /\ forests \in Seq(Seq(Nat))
  /\ iter \in 1 .. Len(forests) + 1
  /\ tree \in Nat /\ tree > 0
  /\ at = "tree" => iter <= Len(forests)
  /\ at \in {"forest", "tree", "done"}
  /\ forests \in Forests

(* A walk stays in its tree, and is at the root of a tree when it begins.  *)
InTree ==
  /\ node \in Nat /\ level \in Nat /\ path \in Nat
  /\ at = "tree" /\ tree <= Len(forests[iter]) => node <= 2 * splits
  /\ at = "forest" => node = 0 /\ level = 1 /\ path = 0
  /\ at = "tree" /\ tree > Len(forests[iter]) => node = 0 /\ level = 1 /\ path = 0

(* In a full tree the nodes are numbered level by level, from left to      *)
(* right, and a level is a factor of the number of leaves.                 *)
InFullTree ==
  at = "tree" /\ tree <= Len(forests[iter]) /\ Full(splits + 1) =>
    /\ path < level /\ node = level - 1 + path
    /\ \E rest \in Nat \ {0} : splits + 1 = level * rest

AddedExist ==
  /\ added \in Seq([iter : Nat, tree : Nat, leaf : Int, level : Nat, path : Nat])
  /\ LeafExists /\ LeafIsPath

WalkIInv == InLoops /\ InTree /\ InFullTree /\ AddedExist

(* Below a split of a full tree there is a level of twice as many nodes. *)
LEMMA LevelBelow ==
  ASSUME NEW leaves \in Nat, Full(leaves),
         NEW l \in Nat, NEW p \in Nat, p < l, l - 1 + p < leaves - 1,
         NEW rest \in Nat \ {0}, leaves = l * rest
  PROVE  \E r \in Nat \ {0} : leaves = (2 * l) * r
<1>1. rest # 1
  OBVIOUS
<1>2. l \in 1 .. leaves /\ rest \in 1 .. leaves
  <2>1. l >= 1 /\ rest >= 1
    OBVIOUS
  <2>2. l * rest >= l /\ l * rest >= rest
    BY <2>1
  <2>3. QED
    BY <2>1, <2>2
<1>3. leaves = rest * l
  OBVIOUS
<1>4. rest % 2 = 0
  BY <1>1, <1>2, <1>3 DEF Full
<1>5. PICK r \in Nat \ {0} : rest = 2 * r
  BY <1>4
<1>6. leaves = (2 * l) * r
  BY <1>5
<1>7. QED
  BY <1>6

(* Beyond the splits of a full tree, the level is that of the leaves. *)
LEMMA LevelOfLeaves ==
  ASSUME NEW leaves \in Nat,
         NEW l \in Nat, NEW p \in Nat, p < l, l - 1 + p >= leaves - 1,
         NEW rest \in Nat \ {0}, leaves = l * rest
  PROVE  l = leaves
<1>1. ASSUME rest >= 2 PROVE FALSE
  <2>1. l * rest >= l * 2
    BY <1>1
  <2>2. QED
    BY <2>1
<1>2. rest = 1
  BY <1>1
<1>3. QED
  BY <1>2

LEMMA WalkIInvInit == WalkInit => WalkIInv
<1> SUFFICES ASSUME WalkInit PROVE WalkIInv
  OBVIOUS
<1>1. forests \in Seq(Seq(Nat))
  BY PredictorAssumption DEF WalkInit
<1> QED
  BY <1>1 DEF WalkInit, WalkIInv, InLoops, InTree, InFullTree, AddedExist, LeafExists,
              LeafIsPath

(* The splits of the tree that is walked.                                  *)
LEMMA SplitsIsNat ==
  ASSUME InLoops, at = "tree", tree <= Len(forests[iter])
  PROVE  /\ splits \in Nat
         /\ forests[iter] \in Seq(Nat)
<1>1. forests[iter] \in Seq(Nat)
  BY DEF InLoops
<1> QED
  BY <1>1 DEF InLoops, splits

(* At the root a walk is where a walk through a full tree has to be.       *)
LEMMA RootOfFull ==
  ASSUME NEW n \in Nat
  PROVE  \E rest \in Nat \ {0} : n + 1 = 1 * rest
<1>1. n + 1 \in Nat \ {0} /\ n + 1 = 1 * (n + 1)
  OBVIOUS
<1>2. QED
  BY <1>1

LEMMA BeginForestStep == WalkIInv /\ BeginForest => WalkIInv'
<1> SUFFICES ASSUME WalkIInv, BeginForest PROVE WalkIInv'
  OBVIOUS
<1>1. InLoops'
  BY DEF WalkIInv, InLoops, BeginForest
<1>2. InTree'
  <2>1. node' = 0 /\ UNCHANGED <<level, path>> /\ at' = "tree"
    BY DEF WalkIInv, InTree, BeginForest
  <2>2. tree' <= Len(forests'[iter']) => splits' \in Nat
    BY <1>1, <2>1 DEF InLoops, splits
  <2> QED
    BY <2>1, <2>2 DEF WalkIInv, InTree, BeginForest
<1>3. AddedExist'
  BY DEF WalkIInv, AddedExist, LeafExists, LeafIsPath, BeginForest
<1>4. InFullTree'
  <2>1. node' = 0 /\ level' = 1 /\ path' = 0 /\ at' = "tree"
    BY DEF WalkIInv, InTree, BeginForest
  <2>2. tree' <= Len(forests'[iter']) => splits' \in Nat
    BY <1>1, <2>1 DEF InLoops, splits
  <2> QED
    BY <2>1, <2>2, RootOfFull DEF InFullTree
<1> QED
  BY <1>1, <1>2, <1>3, <1>4 DEF WalkIInv

LEMMA GoStep == WalkIInv /\ (GoLeft \/ GoRight) => WalkIInv'
<1> SUFFICES ASSUME WalkIInv, GoLeft \/ GoRight PROVE WalkIInv'
  OBVIOUS
<1>1. /\ at = "tree" /\ tree <= Len(forests[iter]) /\ node < splits
      /\ UNCHANGED <<forests, iter, tree, added, at>>
      /\ node' \in {2 * node + 1, 2 * node + 2}
      /\ level' = 2 * level /\ path' \in {2 * path, 2 * path + 1}
  BY DEF GoLeft, GoRight, left_child, right_child
<1>2. splits \in Nat /\ splits' = splits
  BY <1>1, SplitsIsNat DEF WalkIInv, splits
<1>3. /\ node' \in Nat /\ level' \in Nat /\ path' \in Nat
      /\ node' <= 2 * splits'
  <2>1. node \in Nat /\ level \in Nat /\ path \in Nat
    BY DEF WalkIInv, InTree
  <2> HIDE DEF splits
  <2> QED
    BY <1>1, <1>2, <2>1
<1>4. InTree'
  <2>1. tree \in Nat /\ Len(forests[iter]) \in Nat
    BY <1>1, SplitsIsNat DEF WalkIInv, InLoops
  <2>2. ~(tree' > Len(forests'[iter']))
    BY <1>1, <2>1
  <2>3. at' = "tree"
    BY <1>1
  <2> QED
    BY <1>3, <2>2, <2>3 DEF InTree
<1>5. InFullTree'
  <2> SUFFICES ASSUME Full(splits + 1) PROVE InFullTree'
    BY <1>2 DEF InFullTree
  <2>1. /\ node \in Nat /\ level \in Nat /\ path \in Nat
        /\ path < level /\ node = level - 1 + path
    BY <1>1 DEF WalkIInv, InTree, InFullTree
  <2>2. PICK rest \in Nat \ {0} : splits + 1 = level * rest
    BY <1>1 DEF WalkIInv, InFullTree
  <2>3. PICK r \in Nat \ {0} : splits + 1 = (2 * level) * r
    <3> DEFINE leaves == splits + 1
    <3>1. leaves \in Nat /\ level - 1 + path < leaves - 1 /\ leaves = level * rest
      BY <1>1, <1>2, <2>1, <2>2
    <3>2. Full(leaves)
      OBVIOUS
    <3> HIDE DEF leaves
    <3>3. \E r \in Nat \ {0} : leaves = (2 * level) * r
      BY <2>1, <3>1, <3>2, LevelBelow
    <3>4. QED
      BY <3>3 DEF leaves
  <2>4. \/ node' = 2 * node + 1 /\ path' = 2 * path
        \/ node' = 2 * node + 2 /\ path' = 2 * path + 1
    BY DEF GoLeft, GoRight, left_child, right_child
  <2>5. path' < level' /\ node' = level' - 1 + path'
    <3>1. level' = 2 * level
      BY <1>1
    <3>2. CASE node' = 2 * node + 1 /\ path' = 2 * path
      BY <2>1, <3>1, <3>2
    <3>3. CASE node' = 2 * node + 2 /\ path' = 2 * path + 1
      BY <2>1, <3>1, <3>3
    <3>4. QED
      BY <2>4, <3>2, <3>3
  <2>6. splits' + 1 = level' * r
    BY <1>1, <1>2, <2>3
  <2> QED
    BY <2>5, <2>6 DEF InFullTree
<1> QED
  BY <1>1, <1>4, <1>5 DEF WalkIInv, InLoops, AddedExist, LeafExists, LeafIsPath

LEMMA AddLeafStep == WalkIInv /\ AddLeaf => WalkIInv'
<1> SUFFICES ASSUME WalkIInv, AddLeaf PROVE WalkIInv'
  OBVIOUS
<1> DEFINE new == [iter |-> iter, tree |-> tree, leaf |-> leaf, level |-> level, path |-> path]
<1>1. /\ at = "tree" /\ tree <= Len(forests[iter]) /\ node >= splits
      /\ UNCHANGED <<forests, iter, at>>
      /\ tree' = tree + 1 /\ node' = 0 /\ level' = 1 /\ path' = 0
      /\ added' = Append(added, new)
  BY DEF AddLeaf, BeginTree
<1>2. splits \in Nat /\ forests[iter] \in Seq(Nat)
  BY <1>1, SplitsIsNat DEF WalkIInv
<1>3. leaf \in 0 .. splits
  BY <1>1, <1>2 DEF WalkIInv, InTree, leaf
<1>4. InLoops'
  BY <1>1 DEF WalkIInv, InLoops
<1>5. InTree'
  <2>1. tree' <= Len(forests'[iter']) => splits' \in Nat
    BY <1>1, <1>4, SMTT(30) DEF InLoops, splits
  <2> QED
    BY <1>1, <2>1 DEF InTree
<1>7. InFullTree'
  <2>1. tree' <= Len(forests'[iter']) => splits' \in Nat
    BY <1>1, <1>4, SMTT(30) DEF InLoops, splits
  <2> QED
    BY <1>1, <2>1, RootOfFull DEF InFullTree
<1>8. Full(splits + 1) => level = splits + 1 /\ leaf = path
  <2> SUFFICES ASSUME Full(splits + 1) PROVE level = splits + 1 /\ leaf = path
    OBVIOUS
  <2>1. /\ node \in Nat /\ level \in Nat /\ path \in Nat
        /\ path < level /\ node = level - 1 + path
    BY <1>1 DEF WalkIInv, InTree, InFullTree
  <2>2. PICK rest \in Nat \ {0} : splits + 1 = level * rest
    BY <1>1 DEF WalkIInv, InFullTree
  <2>3. splits + 1 \in Nat /\ level - 1 + path >= splits
    BY <1>1, <1>2, <2>1
  <2>4. level = splits + 1
    <3> DEFINE leaves == splits + 1
    <3>1. leaves \in Nat /\ level - 1 + path >= leaves - 1 /\ leaves = level * rest
      BY <1>2, <2>1, <2>2, <2>3
    <3> HIDE DEF leaves
    <3>2. level = leaves
      BY <2>1, <3>1, LevelOfLeaves
    <3> QED
      BY <3>2 DEF leaves
  <2>5. node - splits = path
    BY <1>2, <2>1, <2>4
  <2> QED
    BY <2>4, <2>5 DEF leaf
<1>6. AddedExist'
  <2>1. /\ iter \in Nat /\ tree \in Nat /\ leaf \in Int /\ level \in Nat /\ path \in Nat
    BY <1>3 DEF WalkIInv, InLoops, InTree
  <2>2. new \in [iter : Nat, tree : Nat, leaf : Int, level : Nat, path : Nat]
    BY <2>1
  <2>3. /\ new.leaf = leaf /\ new.iter = iter /\ new.tree = tree
        /\ new.level = level /\ new.path = path
    OBVIOUS
  <2> HIDE DEF new
  <2>4. added' \in Seq([iter : Nat, tree : Nat, leaf : Int, level : Nat, path : Nat])
    BY <1>1, <2>2 DEF WalkIInv, AddedExist
  <2>5. \A k \in DOMAIN added' : added'[k] = new \/ (k \in DOMAIN added /\ added'[k] = added[k])
    <3> DEFINE R == [iter : Nat, tree : Nat, leaf : Int, level : Nat, path : Nat]
    <3>1. added \in Seq(R) /\ new \in R
      BY <2>2 DEF WalkIInv, AddedExist
    <3> HIDE DEF R
    <3> QED
      BY <1>1, <3>1
  <2>6. new.leaf \in 0 .. forests[new.iter][new.tree]
    BY <1>3, <2>3 DEF splits
  <2>7. LeafExists'
    BY <1>1, <2>5, <2>6 DEF WalkIInv, AddedExist, LeafExists
  <2>8. Full(forests[new.iter][new.tree] + 1) =>
          new.level = forests[new.iter][new.tree] + 1 /\ new.leaf = new.path
    BY <1>8, <2>3 DEF splits
  <2>9. LeafIsPath'
    BY <1>1, <2>5, <2>8 DEF WalkIInv, AddedExist, LeafIsPath
  <2> QED
    BY <2>4, <2>7, <2>9 DEF AddedExist
<1> QED
  BY <1>4, <1>5, <1>6, <1>7 DEF WalkIInv

LEMMA WalkIInvStep == WalkIInv /\ [WalkNext]_walkVars => WalkIInv'
<1> SUFFICES ASSUME WalkIInv, [WalkNext]_walkVars PROVE WalkIInv'
  OBVIOUS
<1>1. CASE BeginForest
  BY <1>1, BeginForestStep
<1>2. CASE GoLeft \/ GoRight
  BY <1>2, GoStep
<1>3. CASE AddLeaf
  BY <1>3, AddLeafStep
<1>4. CASE EndForest
  BY <1>4 DEF EndForest, WalkIInv, InLoops, InTree, InFullTree, AddedExist, LeafExists,
              LeafIsPath
<1>5. CASE WalkReturn
  BY <1>5 DEF WalkReturn, WalkIInv, InLoops, InTree, InFullTree, AddedExist, LeafExists,
              LeafIsPath
<1>6. CASE UNCHANGED walkVars
  BY <1>6 DEF walkVars, WalkIInv, InLoops, InTree, InFullTree, AddedExist, LeafExists,
              LeafIsPath, splits
<1> QED
  BY <1>1, <1>2, <1>3, <1>4, <1>5, <1>6 DEF WalkNext

LEMMA WalkInvariance == WalkSpec => []WalkIInv
  BY WalkIInvInit, WalkIInvStep, PTL DEF WalkSpec

(* Every walk ends at a leaf that its tree has.                            *)
THEOREM LeafAlwaysExists == WalkSpec => []LeafExists
<1>1. WalkIInv => LeafExists
  BY DEF WalkIInv, AddedExist
<1> QED
  BY <1>1, WalkInvariance, PTL

(* In a full tree it is the leaf that the comparisons of the walk lead to. *)
THEOREM LeafAlwaysIsPath == WalkSpec => []LeafIsPath
<1>1. WalkIInv => LeafIsPath
  BY DEF WalkIInv, AddedExist
<1> QED
  BY <1>1, WalkInvariance, PTL

(* No walk leaves its tree.                                                *)
THEOREM WalkTypeCorrect == WalkSpec => []WalkTypeOK
<1>1. WalkIInv => WalkTypeOK
  BY DEF WalkIInv, InLoops, InTree, WalkTypeOK
<1> QED
  BY <1>1, WalkInvariance, PTL

-----------------------------------------------------------------------------
(* Loads and walks together (Landmarks).                                   *)

(* The loads are those of ShapePredictorFile: a walk changes nothing of    *)
(* what they have left.                                                    *)
LEMMA LoadsOfFile == [LandmarksNext]_landmarksVars => [Next]_vars
BY DEF LandmarksNext, landmarksVars, Load, LoadStep, Find, Walk, NewProcess, Next, vars

LEMMA LandmarksFile == LandmarksSpec => Spec
<1>1. LandmarksInit => Init
  BY DEF LandmarksInit
<1> QED
  BY <1>1, LoadsOfFile, PTL DEF LandmarksSpec, Spec

(* After any loads, also failed ones and those of other files, what is in  *)
(* memory after true is the model of the last file, whole, as long as no   *)
(* load has begun beside another one or beside a walk.                     *)
THEOREM LoadedStaysWhole == LandmarksSpec => []LoadedIsWhole
  BY LandmarksFile, LoadedModelIsWhole, PTL

(* Whatever is done with the model between the loads, and also when one    *)
(* begins beside a walk, they implement PoseModel, with its condition.     *)
THEOREM LandmarksImplementPoseModel == LandmarksSpec => LoadsPoseModel
  BY LandmarksFile, LoadingImplementsPoseModel, PTL

(* A walk that is followed has no load beside it, and is through the model *)
(* of the file that was loaded last.                                       *)
WalkHasModel == forests = Forest[model] /\ (at # "done" => pc = "idle")

LandmarksIInv == FileIInv /\ WalkIInv /\ WalkHasModel

LEMMA NotWalkingIsSafe ==
  ASSUME NotWalking, model' \in Models
  PROVE  WalkIInv' /\ WalkHasModel'
<1>1. forests' \in Forests /\ forests' \in Seq(Seq(Nat))
  BY ForestAssumption, PredictorAssumption DEF NotWalking
<1>2. Len(forests') \in Nat
  BY <1>1
<1>3. AddedExist'
  <2>1. added' = <<>> /\ DOMAIN added' = {}
    BY DEF NotWalking
  <2> QED
    BY <2>1 DEF AddedExist, LeafExists, LeafIsPath
<1> QED
  BY <1>1, <1>2, <1>3 DEF NotWalking, WalkIInv, InLoops, InTree, InFullTree, WalkHasModel

(* The forests a face is walked through are those of the whole model.      *)
LEMMA FoundForests ==
  ASSUME FileIInv, result, pc = "idle"
  PROVE  [k \in DOMAIN item["forests"] |-> Forest[item["forests"][k]][k]] = Forest[model]
<1>1. model \in Models /\ "forests" \in Parts
  BY DEF FileIInv, FileTypes, Parts
<1> DEFINE n == Cascades[model]
<1>2. n \in Nat /\ Size(model, "forests") = n
  BY <1>1, FileAssumption DEF Size
<1>3. item["forests"] = [i \in 1 .. n |-> model]
  BY <1>1, <1>2, Sizes DEF FileIInv, LoadedIsWhole
<1>4. Forest[model] \in Seq(Seq(Nat)) /\ Len(Forest[model]) = n
  BY <1>1, ForestAssumption, PredictorAssumption
<1> HIDE DEF n
<1>5. Forest[model] = [k \in 1 .. n |-> Forest[model][k]]
  BY <1>2, <1>4
<1> QED
  BY <1>3, <1>5

LEMMA LandmarksInitSafe == LandmarksInit => LandmarksIInv
<1> SUFFICES ASSUME LandmarksInit PROVE LandmarksIInv
  OBVIOUS
<1>1. FileIInv
  BY FileInit DEF LandmarksInit
<1>2. forests \in Forests /\ forests \in Seq(Seq(Nat)) /\ Len(forests) \in Nat
  BY <1>1, ForestAssumption, PredictorAssumption DEF LandmarksInit, FileIInv, FileTypes
<1>3. AddedExist
  <2>1. added = <<>> /\ DOMAIN added = {}
    BY DEF LandmarksInit
  <2> QED
    BY <2>1 DEF AddedExist, LeafExists, LeafIsPath
<1> QED
  BY <1>1, <1>2, <1>3 DEF LandmarksInit, LandmarksIInv, WalkIInv, InLoops, InTree, InFullTree,
                          WalkHasModel

(* A walk that begins later begins as well. *)
LEMMA LaterWalkInit == WalkInit' => WalkIInv'
  BY WalkIInvInit, PTL

LEMMA LandmarksStep ==
  LandmarksIInv /\ [LandmarksNext]_landmarksVars => LandmarksIInv'
<1> SUFFICES ASSUME LandmarksIInv, [LandmarksNext]_landmarksVars PROVE LandmarksIInv'
  OBVIOUS
<1>1. FileIInv'
  BY LoadsOfFile, FileStep DEF LandmarksIInv
<1>2. model' \in Models /\ pc' \in {"idle", "reading", "raced"}
  BY <1>1 DEF FileIInv, FileTypes
<1> SUFFICES WalkIInv' /\ WalkHasModel'
  BY <1>1 DEF LandmarksIInv
<1>3. CASE Load \/ NewProcess
  BY <1>2, <1>3, NotWalkingIsSafe DEF Load, NewProcess
<1>4. CASE LoadStep
  <2>1. UNCHANGED walkVars
    BY <1>4 DEF LoadStep
  <2>2. WalkIInv'
    BY <2>1, WalkIInvStep DEF LandmarksIInv
  <2>3. model' = model /\ pc # "idle"
    BY <1>4 DEF LoadStep, Catch, ReadVersion, ReadSize, ReadElement, Return, Race
  <2> QED
    BY <2>1, <2>2, <2>3 DEF LandmarksIInv, WalkHasModel, walkVars
<1>5. CASE Find
  <2>1. forests' = Forest[model] /\ UNCHANGED vars /\ pc = "idle"
    BY <1>5, FoundForests DEF Find, LandmarksIInv
  <2>2. forests' \in Forests
    BY <1>2, <2>1, ForestAssumption DEF vars
  <2>3. WalkInit'
    BY <1>5, <2>2 DEF Find, WalkInit
  <2>4. WalkIInv'
    BY <2>3, LaterWalkInit
  <2> QED
    BY <2>1, <2>4 DEF WalkHasModel, vars
<1>6. CASE Walk
  <2>1. WalkIInv'
    BY <1>6, WalkIInvStep DEF Walk, LandmarksIInv
  <2>2. UNCHANGED <<forests, model, pc>> /\ at # "done"
    BY <1>6 DEF Walk, vars, WalkNext, BeginForest, GoLeft, GoRight, AddLeaf, EndForest,
                WalkReturn
  <2> QED
    BY <2>1, <2>2 DEF LandmarksIInv, WalkHasModel
<1>7. CASE UNCHANGED landmarksVars
  <2>1. UNCHANGED walkVars /\ UNCHANGED vars
    BY <1>7 DEF landmarksVars
  <2>2. WalkIInv'
    BY <2>1, WalkIInvStep DEF LandmarksIInv
  <2> QED
    BY <2>1, <2>2 DEF LandmarksIInv, WalkHasModel, walkVars, vars
<1> QED
  BY <1>3, <1>4, <1>5, <1>6, <1>7 DEF LandmarksNext

LEMMA LandmarksInvariance == LandmarksSpec => []LandmarksIInv
  BY LandmarksInitSafe, LandmarksStep, PTL DEF LandmarksSpec

(* What is walked is the model of the file loaded last, all of it: parts   *)
(* of two files are never mixed in a walk that no load begins beside.      *)
THEOREM WalksAreThroughLoadedModel == LandmarksSpec => []WalksLoadedModel
<1>1. LandmarksIInv => WalksLoadedModel
  BY DEF LandmarksIInv, WalkHasModel, WalksLoadedModel
<1> QED
  BY <1>1, LandmarksInvariance, PTL

(* Every walk through a model that was loaded ends at a leaf that its tree *)
(* has, in a full tree at the one its comparisons lead to.                 *)
THEOREM LoadedLeavesExist == LandmarksSpec => [](LeafExists /\ LeafIsPath)
<1>1. LandmarksIInv => LeafExists /\ LeafIsPath
  BY DEF LandmarksIInv, WalkIInv, AddedExist
<1> QED
  BY <1>1, LandmarksInvariance, PTL

(* The variables keep their types, for any sequence of loads and faces.    *)
THEOREM LandmarksTypeCorrect == LandmarksSpec => []WalkTypeOK
<1>1. LandmarksIInv => WalkTypeOK
  BY DEF LandmarksIInv, WalkIInv, InLoops, InTree, WalkTypeOK
<1> QED
  BY <1>1, LandmarksInvariance, PTL
=============================================================================
