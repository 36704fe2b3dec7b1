------------------------- MODULE FaceBlendingProofs -------------------------
(***************************************************************************)
(* Proofs about what nativeSwapFaces does with pixels (FaceSwapper.cpp),   *)
(* for frames and faces of any size and place and pictures of any greys:   *)
(* the rectangles it cuts (CropGeometry), the binary search for a grey     *)
(* level (SpecifyHistogram, HistogramMatching), and the colours, weights   *)
(* and pixels that come of them (FaceBlending).                            *)
(***************************************************************************)
EXTENDS FaceBlending, SpecifyHistogram, FiniteSetTheorems, WellFoundedInduction, TLAPS

-----------------------------------------------------------------------------
(* Induction.  The theorems of the library take the formula as an          *)
(* operator; here it is the set of the numbers it holds of.                *)

LEMMA SetInduction ==
  ASSUME NEW S, 0 \in S, \A n \in Nat : n \in S => n + 1 \in S
  PROVE  Nat \subseteq S
<1> DEFINE T == Nat \ S
           R == OpToRel(<, Nat)
<1> SUFFICES ASSUME T # {} PROVE FALSE
  OBVIOUS
<1>1. IsWellFoundedOn(R, Nat)
  BY NatLessThanWellFounded
<1>2. T \subseteq Nat
  OBVIOUS
<1> HIDE DEF R, T
<1>3. PICK x \in T : \A y \in T : ~ (<<y, x>> \in R)
  BY <1>1, <1>2, WFMin
<1> USE DEF T
<1>4. x \in Nat /\ x # 0
  OBVIOUS
<1>5. x - 1 \in Nat /\ x - 1 + 1 = x
  BY <1>4
<1>6. x - 1 \notin T
  <2>1. <<x - 1, x>> \in R
    BY <1>4, <1>5 DEF R, OpToRel
  <2> QED
    BY <1>3, <2>1
<1>7. x \in S
  BY <1>5, <1>6
<1> QED
  BY <1>7

(* The sum of a row of numbers over some of its pixels. *)
Sum(f, S) == MapThenSumSet(LAMBDA q : f[q], S)

(* The parts of a set with at most k elements. *)
Small(S, k) == {s \in SUBSET S : Cardinality(s) <= k}

(* The one that MapThenSumSet adds first. *)
Chosen(s) == CHOOSE x \in s : TRUE

LEMMA ChosenRemoved ==
  ASSUME NEW S, IsFiniteSet(S), NEW s \in SUBSET S, s # {}
  PROVE  /\ Chosen(s) \in s /\ s \ {Chosen(s)} \in SUBSET S
         /\ Cardinality(s \ {Chosen(s)}) = Cardinality(s) - 1
         /\ Cardinality(s) \in Nat
<1>1. IsFiniteSet(s)
  BY FS_Subset
<1>2. Chosen(s) \in s
  BY DEF Chosen
<1> QED
  BY <1>1, <1>2, FS_RemoveElement, FS_CardinalityType

(* The recursion of MapThenSumSet, on the sets D. *)
Summed(f, g, D) == g = [s \in D |-> IF s = {} THEN 0 ELSE f[Chosen(s)] + g[s \ {Chosen(s)}]]

(* The recursion over the parts of a finite set defines a function. *)
LEMMA FoldExists ==
  ASSUME NEW f, NEW S, IsFiniteSet(S)
  PROVE  \E g : Summed(f, g, SUBSET S)
<1> DEFINE N == {k \in Nat : \E g : Summed(f, g, Small(S, k))}
<1>1. 0 \in N
  <2>1. \A s \in Small(S, 0) : s = {}
    <3> TAKE s \in Small(S, 0)
    <3>1. IsFiniteSet(s) /\ Cardinality(s) <= 0
      BY FS_Subset DEF Small
    <3> QED
      BY <3>1, FS_CardinalityType, FS_EmptySet
  <2>2. Summed(f, [s \in Small(S, 0) |-> 0], Small(S, 0))
    BY <2>1 DEF Summed
  <2> QED
    BY <2>2
<1>2. ASSUME NEW k \in Nat, k \in N PROVE k + 1 \in N
  <2>1. PICK g : Summed(f, g, Small(S, k))
    BY <1>2
  <2> DEFINE h == [s \in Small(S, k + 1) |->
                     IF s = {} THEN 0 ELSE f[Chosen(s)] + g[s \ {Chosen(s)}]]
  <2>2. ASSUME NEW s \in Small(S, k) PROVE s \in Small(S, k + 1) /\ h[s] = g[s]
    <3>1. Cardinality(s) \in Nat
      BY FS_Subset, FS_CardinalityType DEF Small
    <3>2. s \in Small(S, k + 1)
      BY <3>1 DEF Small
    <3> QED
      BY <2>1, <3>2 DEF Summed
  <2>3. ASSUME NEW s \in Small(S, k + 1), s # {}
        PROVE  s \ {Chosen(s)} \in Small(S, k)
    BY <2>3, ChosenRemoved DEF Small
  <2>4. \A s \in Small(S, k + 1) :
          s # {} => h[s \ {Chosen(s)}] = g[s \ {Chosen(s)}]
    BY <2>2, <2>3
  <2>5. Summed(f, h, Small(S, k + 1))
    BY <2>4 DEF Summed
  <2> HIDE DEF h
  <2> QED
    BY <2>5
<1>3. Cardinality(S) \in N
  <2> HIDE DEF N
  <2>1. Nat \subseteq N
    BY <1>1, <1>2, SetInduction
  <2> QED
    BY <2>1, FS_CardinalityType
<1>4. Small(S, Cardinality(S)) = SUBSET S
  BY FS_Subset DEF Small
<1> QED
  BY <1>3, <1>4

(* A sum of numbers of at most b is at most b for each of them. *)
LEMMA SumBounds ==
  ASSUME NEW f, NEW S, IsFiniteSet(S), NEW b \in Nat,
         \A x \in S : f[x] \in 0 .. b
  PROVE  Sum(f, S) \in 0 .. b * Cardinality(S)
<1> DEFINE g == CHOOSE g : Summed(f, g, SUBSET S)
<1>1. Summed(f, g, SUBSET S)
  BY FoldExists
<1>2. Sum(f, S) = g[S]
  BY DEF Sum, MapThenSumSet, MapThenFoldSet, Summed, Chosen
<1> HIDE DEF g
<1> DEFINE N == {k \in Nat : \A s \in Small(S, k) : g[s] \in 0 .. b * Cardinality(s)}
<1>3. 0 \in N
  <2>1. \A s \in Small(S, 0) : s = {}
    <3> TAKE s \in Small(S, 0)
    <3>1. IsFiniteSet(s) /\ Cardinality(s) <= 0
      BY FS_Subset DEF Small
    <3> QED
      BY <3>1, FS_CardinalityType, FS_EmptySet
  <2>2. g[{}] = 0
    BY <1>1 DEF Summed
  <2>3. g[{}] \in 0 .. b * Cardinality({})
    BY <2>2, FS_EmptySet
  <2> QED
    BY <2>1, <2>3
<1>4. ASSUME NEW k \in Nat, k \in N PROVE k + 1 \in N
  <2> SUFFICES ASSUME NEW s \in Small(S, k + 1)
               PROVE  g[s] \in 0 .. b * Cardinality(s)
    OBVIOUS
  <2>1. CASE s = {}
    BY <2>1, <1>1, FS_EmptySet DEF Summed
  <2>2. CASE s # {}
    <3> DEFINE t == s \ {Chosen(s)}  n == Cardinality(t)
    <3>1. /\ s \in SUBSET S /\ Chosen(s) \in S /\ t \in SUBSET S
          /\ n = Cardinality(s) - 1 /\ Cardinality(s) \in Nat /\ Cardinality(s) <= k + 1
      BY <2>2, ChosenRemoved DEF Small
    <3>2. g[t] \in 0 .. b * n
      BY <1>4, <3>1 DEF Small
    <3>3. g[s] = f[Chosen(s)] + g[t]
      BY <1>1, <2>2, <3>1 DEF Summed
    <3>4. f[Chosen(s)] \in 0 .. b
      BY <3>1
    <3>5. n \in Nat /\ Cardinality(s) = n + 1
      BY <3>1, FS_Subset, FS_CardinalityType
    <3> HIDE DEF n, t
    <3>6. b * n \in Nat /\ b * (n + 1) = b * n + b
      BY <3>5
    <3> QED
      BY <3>2, <3>3, <3>4, <3>5, <3>6
  <2> QED
    BY <2>1, <2>2
<1>5. Nat \subseteq N
  <2> HIDE DEF N
  <2> QED
    BY <1>3, <1>4, SetInduction
<1>6. S \in Small(S, Cardinality(S)) /\ Cardinality(S) \in N
  BY <1>5, FS_CardinalityType DEF Small
<1> QED
  BY <1>2, <1>6

-----------------------------------------------------------------------------
(* HistogramMatching: what the binary search returns.                      *)

(* The recursion of binary_search, on the intervals D. *)
Search(g, needle, haystack, D) ==
  g = [i \in D |->
         LET rest == Rest(needle, haystack, i)
         IN  IF rest.l < rest.r THEN g[rest] ELSE Middle(i)]

(* The middle of two levels. *)
LEMMA Halves ==
  ASSUME NEW lo \in Level, NEW hi \in Level
  PROVE  LET mid == (lo + hi) \div 2
         IN  /\ mid \in Level
             /\ lo < hi => lo <= mid /\ mid < hi
             /\ mid + 1 < hi => mid + 1 \in Level /\ hi - (mid + 1) < hi - lo
             /\ lo < mid - 1 => mid - 1 \in Level /\ (mid - 1) - lo < hi - lo
<1>1. CASE lo <= hi
  BY <1>1 DEF Level
<1>2. CASE hi < lo
  BY <1>2 DEF Level
<1> QED
  BY <1>1, <1>2 DEF Level

(* Of an interval fewer levels are left, if there are two or more. *)
LEMMA RestIs ==
  ASSUME NEW needle, NEW haystack, NEW i \in Interval
  PROVE  LET rest == Rest(needle, haystack, i)
         IN  rest.l < rest.r => rest \in Interval /\ rest.r - rest.l < i.r - i.l
<1> DEFINE mid == Middle(i)
<1>1. PICK lo \in Level, hi \in Level : i = [l |-> lo, r |-> hi]
  BY DEF Interval
<1>2. /\ mid \in Level
      /\ lo < hi => lo <= mid /\ mid < hi
      /\ mid + 1 < hi => mid + 1 \in Level /\ hi - (mid + 1) < hi - lo
      /\ lo < mid - 1 => mid - 1 \in Level /\ (mid - 1) - lo < hi - lo
  BY <1>1, Halves DEF Middle
<1>3. CASE needle > haystack[mid]
  <2>1. Rest(needle, haystack, i) = [l |-> mid + 1, r |-> hi]
    BY <1>1, <1>3 DEF Rest
  <2> HIDE DEF mid
  <2> QED
    BY <1>1, <1>2, <1>3, <2>1 DEF mid, Interval
<1>4. CASE ~(needle > haystack[mid])
  <2>1. Rest(needle, haystack, i) = [l |-> lo, r |-> mid - 1]
    BY <1>1, <1>4 DEF Rest
  <2> HIDE DEF mid
  <2> QED
    BY <1>1, <1>2, <1>4, <2>1 DEF mid, Interval
<1> QED
  BY <1>3, <1>4

(* The intervals of at most k + 1 levels. *)
Short(k) == {i \in Interval : i.r - i.l <= k}

(* What is left has fewer levels. *)
LEMMA RestShorter ==
  ASSUME NEW needle, NEW haystack, NEW i \in Interval, NEW k \in Nat,
         i.r - i.l <= k, Rest(needle, haystack, i).l < Rest(needle, haystack, i).r
  PROVE  k > 0 /\ Rest(needle, haystack, i) \in Short(k - 1)
<1> DEFINE rest == Rest(needle, haystack, i)
<1>1. rest \in Interval /\ rest.r - rest.l < i.r - i.l
  BY RestIs
<1>2. PICK lo \in Level, hi \in Level : i = [l |-> lo, r |-> hi]
  BY DEF Interval
<1>3. PICK lower \in Level, higher \in Level : rest = [l |-> lower, r |-> higher]
  BY <1>1 DEF Interval
<1> HIDE DEF rest
<1>4. hi - lo <= k /\ lower < higher /\ higher - lower < hi - lo
  BY <1>1, <1>2, <1>3 DEF rest
<1>5. k > 0 /\ higher - lower <= k - 1
  BY <1>4 DEF Level
<1> QED
  BY <1>1, <1>3, <1>5 DEF Short, rest

(* The search comes to an end: its recursion defines a function. *)
LEMMA SearchExists ==
  ASSUME NEW needle, NEW haystack
  PROVE  \E g : Search(g, needle, haystack, Interval)
<1> DEFINE N == {k \in Nat : \E g : Search(g, needle, haystack, Short(k))}
           R(i) == Rest(needle, haystack, i)
<1>1. 0 \in N
  <2>1. \A i \in Short(0) : ~(R(i).l < R(i).r)
    BY RestShorter DEF Short
  <2>2. Search([i \in Short(0) |-> Middle(i)], needle, haystack, Short(0))
    BY <2>1 DEF Search
  <2> QED
    BY <2>2
<1>2. ASSUME NEW k \in Nat, k \in N PROVE k + 1 \in N
  <2>1. PICK g : Search(g, needle, haystack, Short(k))
    BY <1>2
  <2> DEFINE h == [i \in Short(k + 1) |-> IF R(i).l < R(i).r THEN g[R(i)] ELSE Middle(i)]
  <2>2. ASSUME NEW i \in Short(k) PROVE i \in Short(k + 1) /\ h[i] = g[i]
    <3>1. PICK lo \in Level, hi \in Level : i = [l |-> lo, r |-> hi]
      BY DEF Interval, Short
    <3>2. i \in Short(k + 1)
      BY <3>1 DEF Short, Level
    <3> QED
      BY <2>1, <3>2 DEF Search
  <2>3. ASSUME NEW i \in Short(k + 1), R(i).l < R(i).r PROVE R(i) \in Short(k)
    <3>1. R(i) \in Short((k + 1) - 1)
      BY <2>3, RestShorter DEF Short
    <3> QED
      BY <3>1
  <2>4. \A i \in Short(k + 1) : R(i).l < R(i).r => h[R(i)] = g[R(i)]
    BY <2>2, <2>3
  <2>5. Search(h, needle, haystack, Short(k + 1))
    BY <2>4 DEF Search
  <2> HIDE DEF h
  <2> QED
    BY <2>5
<1>3. 255 \in N
  <2> HIDE DEF N
  <2> QED
    BY <1>1, <1>2, SetInduction
<1>4. Short(255) = Interval
  <2> SUFFICES ASSUME NEW i \in Interval PROVE i.r - i.l <= 255
    BY DEF Short
  <2>1. PICK lo \in Level, hi \in Level : i = [l |-> lo, r |-> hi]
    BY DEF Interval
  <2> QED
    BY <2>1 DEF Level
<1> QED
  BY <1>3, <1>4

Bounds(lo, hi) == [l |-> lo, r |-> hi]

(* The function that it defines. *)
SearchOf(needle, haystack) == CHOOSE g : Search(g, needle, haystack, Interval)

(* One comparison of the search. *)
LEMMA Compared ==
  ASSUME NEW needle, NEW haystack, NEW lo \in Level, NEW hi \in Level
  PROVE  LET mid == (lo + hi) \div 2
             g == SearchOf(needle, haystack)
         IN  /\ needle > haystack[mid] =>
                  g[Bounds(lo, hi)] = IF mid + 1 < hi THEN g[Bounds(mid + 1, hi)] ELSE mid
             /\ ~(needle > haystack[mid]) =>
                  g[Bounds(lo, hi)] = IF lo < mid - 1 THEN g[Bounds(lo, mid - 1)] ELSE mid
<1> DEFINE g == SearchOf(needle, haystack)  mid == (lo + hi) \div 2  i == Bounds(lo, hi)
<1>1. i \in Interval /\ Middle(i) = mid
  BY DEF Bounds, Interval, Middle
<1>2. Search(g, needle, haystack, Interval)
  BY SearchExists DEF SearchOf
<1>3. Rest(needle, haystack, i) =
        IF needle > haystack[mid] THEN Bounds(mid + 1, hi) ELSE Bounds(lo, mid - 1)
  BY <1>1 DEF Rest, Bounds
<1> HIDE DEF g, mid, i
<1>4. g[i] = LET rest == Rest(needle, haystack, i)
             IN  IF rest.l < rest.r THEN g[rest] ELSE Middle(i)
  BY <1>1, <1>2 DEF Search
<1>5. /\ needle > haystack[mid] => g[i] = IF mid + 1 < hi THEN g[Bounds(mid + 1, hi)] ELSE mid
      /\ ~(needle > haystack[mid]) => g[i] = IF lo < mid - 1 THEN g[Bounds(lo, mid - 1)] ELSE mid
  BY <1>1, <1>3, <1>4 DEF Bounds
<1> QED
  BY <1>5 DEF g, mid, i

LEMMA LevelGaps ==
  ASSUME NEW lo \in Level, NEW hi \in Level
  PROVE  /\ hi - lo \in Int /\ hi - lo <= 255
         /\ lo < hi => ~(hi - lo <= 0)
BY DEF Level

(* What holds of an interval if it holds of all shorter ones holds of all. *)
LEMMA IntervalInduction ==
  ASSUME NEW S,
         ASSUME NEW lo \in Level, NEW hi \in Level, lo < hi,
                \A a, b \in Level : a < b /\ b - a < hi - lo => Bounds(a, b) \in S
         PROVE  Bounds(lo, hi) \in S
  PROVE  \A lo, hi \in Level : lo < hi => Bounds(lo, hi) \in S
<1> DEFINE N == {k \in Nat : \A lo, hi \in Level : lo < hi /\ hi - lo <= k => Bounds(lo, hi) \in S}
<1>1. 0 \in N
  BY LevelGaps
<1>2. ASSUME NEW k \in Nat, k \in N PROVE k + 1 \in N
  <2> SUFFICES ASSUME NEW lo \in Level, NEW hi \in Level, lo < hi, hi - lo <= k + 1
               PROVE  Bounds(lo, hi) \in S
    OBVIOUS
  <2>1. \A a, b \in Level : a < b /\ b - a < hi - lo => Bounds(a, b) \in S
    <3> TAKE a, b \in Level
    <3> DEFINE shorter == b - a  longer == hi - lo
    <3>1. shorter \in Int /\ longer \in Int /\ longer <= k + 1
      BY LevelGaps
    <3> HIDE DEF shorter, longer
    <3>2. shorter < longer => shorter <= k
      BY <3>1
    <3> QED
      BY <1>2, <3>2 DEF shorter, longer
  <2> QED
    BY <2>1
<1>3. 255 \in N
  <2> HIDE DEF N
  <2> QED
    BY <1>1, <1>2, SetInduction
<1>4. \A lo, hi \in Level : hi - lo <= 255
  BY LevelGaps
<1> QED
  BY <1>3, <1>4

(* A search of two levels or more returns one of them. *)
LEMMA SearchStaysIn ==
  ASSUME NEW needle, NEW haystack, NEW lo \in Level, NEW hi \in Level, lo < hi
  PROVE  LET found == SearchOf(needle, haystack)[Bounds(lo, hi)]
         IN  found \in Level /\ lo <= found /\ found <= hi
<1> DEFINE g == SearchOf(needle, haystack)
           S == {i \in Interval : g[i] \in Level /\ i.l <= g[i] /\ g[i] <= i.r}
<1>1. \A a, b \in Level : Bounds(a, b) \in S <=>
        g[Bounds(a, b)] \in Level /\ a <= g[Bounds(a, b)] /\ g[Bounds(a, b)] <= b
  BY DEF Bounds, Interval
<1>2. ASSUME NEW a \in Level, NEW b \in Level, a < b,
             \A c, d \in Level : c < d /\ d - c < b - a => Bounds(c, d) \in S
      PROVE  Bounds(a, b) \in S
  <2> DEFINE mid == (a + b) \div 2
  <2>1. /\ mid \in Level /\ a <= mid /\ mid < b
        /\ mid + 1 < b => mid + 1 \in Level /\ b - (mid + 1) < b - a
        /\ a < mid - 1 => mid - 1 \in Level /\ (mid - 1) - a < b - a
    BY <1>2, Halves
  <2>2. /\ needle > haystack[mid] => g[Bounds(a, b)] = IF mid + 1 < b THEN g[Bounds(mid + 1, b)] ELSE mid
        /\ ~(needle > haystack[mid]) => g[Bounds(a, b)] = IF a < mid - 1 THEN g[Bounds(a, mid - 1)] ELSE mid
    BY Compared
  <2> HIDE DEF mid, g, S
  <2>3. CASE g[Bounds(a, b)] = mid
    <3>1. mid <= b
      BY <2>1 DEF Level
    <3> QED
      BY <1>1, <2>1, <2>3, <3>1
  <2>4. CASE mid + 1 < b /\ g[Bounds(a, b)] = g[Bounds(mid + 1, b)]
    <3>1. Bounds(mid + 1, b) \in S
      BY <1>2, <2>1, <2>4
    <3> DEFINE found == g[Bounds(a, b)]
    <3>2. found \in Level /\ mid + 1 <= found /\ found <= b
      BY <1>1, <2>1, <2>4, <3>1
    <3> HIDE DEF found
    <3>3. a <= found
      BY <2>1, <3>2 DEF Level
    <3> QED
      BY <1>1, <3>2, <3>3 DEF found
  <2>5. CASE a < mid - 1 /\ g[Bounds(a, b)] = g[Bounds(a, mid - 1)]
    <3>1. Bounds(a, mid - 1) \in S
      BY <1>2, <2>1, <2>5
    <3> DEFINE found == g[Bounds(a, b)]
    <3>2. found \in Level /\ a <= found /\ found <= mid - 1
      BY <1>1, <2>1, <2>5, <3>1
    <3> HIDE DEF found
    <3>3. found <= b
      BY <2>1, <3>2 DEF Level
    <3> QED
      BY <1>1, <3>2, <3>3 DEF found
  <2> QED
    BY <2>2, <2>3, <2>4, <2>5
<1> HIDE DEF S, g
<1>3. \A a, b \in Level : a < b => Bounds(a, b) \in S
  BY <1>2, IntervalInduction
<1> QED
  BY <1>1, <1>3 DEF g

(* The level a search ends at is near the first one that is not below the  *)
(* needle, if that was in the interval or just above it.                   *)
LEMMA SearchIsNear ==
  ASSUME NEW needle, NEW haystack, NEW fit \in Level,
         \A j \in Level : needle > haystack[j] <=> j < fit,
         NEW lo \in Level, NEW hi \in Level, lo < hi, lo <= fit, fit <= hi + 1
  PROVE  LET found == SearchOf(needle, haystack)[Bounds(lo, hi)]
         IN  fit - 2 <= found /\ found <= fit + 1
<1> DEFINE g == SearchOf(needle, haystack)
           S == {i \in Interval : i.l <= fit /\ fit <= i.r + 1 =>
                                    fit - 2 <= g[i] /\ g[i] <= fit + 1}
<1>1. \A a, b \in Level :
        Bounds(a, b) \in S <=> (a <= fit /\ fit <= b + 1 =>
                               fit - 2 <= g[Bounds(a, b)] /\ g[Bounds(a, b)] <= fit + 1)
  BY DEF Bounds, Interval
<1>2. ASSUME NEW a \in Level, NEW b \in Level, a < b,
             \A c, d \in Level : c < d /\ d - c < b - a => Bounds(c, d) \in S
      PROVE  Bounds(a, b) \in S
  <2> SUFFICES ASSUME a <= fit, fit <= b + 1
               PROVE  fit - 2 <= g[Bounds(a, b)] /\ g[Bounds(a, b)] <= fit + 1
    BY <1>1
  <2> DEFINE mid == (a + b) \div 2
  <2>1. /\ mid \in Level /\ a <= mid /\ mid < b
        /\ mid + 1 < b => mid + 1 \in Level /\ b - (mid + 1) < b - a
        /\ a < mid - 1 => mid - 1 \in Level /\ (mid - 1) - a < b - a
    BY <1>2, Halves
  <2>2. /\ needle > haystack[mid] => g[Bounds(a, b)] = IF mid + 1 < b THEN g[Bounds(mid + 1, b)] ELSE mid
        /\ ~(needle > haystack[mid]) => g[Bounds(a, b)] = IF a < mid - 1 THEN g[Bounds(a, mid - 1)] ELSE mid
    BY Compared
  <2>3. needle > haystack[mid] <=> mid < fit
    BY <2>1
  <2> HIDE DEF mid, g, S
  <2>4. CASE mid < fit /\ mid + 1 < b
    <3>1. Bounds(mid + 1, b) \in S
      BY <1>2, <2>1, <2>4
    <3>2. mid + 1 <= fit
      BY <2>1, <2>4 DEF Level
    <3> QED
      BY <1>1, <2>1, <2>2, <2>3, <2>4, <3>1, <3>2
  <2>5. CASE mid < fit /\ ~(mid + 1 < b)
    <3>1. g[Bounds(a, b)] = mid
      BY <2>2, <2>3, <2>5
    <3>2. fit - 2 <= mid /\ mid <= fit + 1
      BY <2>1, <2>5 DEF Level
    <3> QED
      BY <3>1, <3>2
  <2>6. CASE ~(mid < fit) /\ a < mid - 1
    <3>1. Bounds(a, mid - 1) \in S
      BY <1>2, <2>1, <2>6
    <3>2. fit <= (mid - 1) + 1
      BY <2>1, <2>6 DEF Level
    <3> QED
      BY <1>1, <2>1, <2>2, <2>3, <2>6, <3>1, <3>2
  <2>7. CASE ~(mid < fit) /\ ~(a < mid - 1)
    <3>1. g[Bounds(a, b)] = mid
      BY <2>2, <2>3, <2>7
    <3>2. fit - 2 <= mid /\ mid <= fit + 1
      BY <2>1, <2>7 DEF Level
    <3> QED
      BY <3>1, <3>2
  <2> QED
    BY <2>4, <2>5, <2>6, <2>7
<1> HIDE DEF S, g
<1>3. \A a, b \in Level : a < b => Bounds(a, b) \in S
  BY <1>2, IntervalInduction
<1> QED
  BY <1>1, <1>3 DEF g

(* A larger needle is not found at a lower level. *)
LEMMA SearchIsMonotone ==
  ASSUME NEW haystack \in [Level -> Int], NEW less \in Int, NEW more \in Int, less <= more,
         NEW lo \in Level, NEW hi \in Level, lo < hi
  PROVE  SearchOf(less, haystack)[Bounds(lo, hi)] <= SearchOf(more, haystack)[Bounds(lo, hi)]
<1> DEFINE g == SearchOf(less, haystack)
           h == SearchOf(more, haystack)
           S == {i \in Interval : g[i] <= h[i]}
<1>1. \A a, b \in Level : Bounds(a, b) \in S <=> g[Bounds(a, b)] <= h[Bounds(a, b)]
  BY DEF Bounds, Interval
<1>2. ASSUME NEW a \in Level, NEW b \in Level, a < b,
             \A c, d \in Level : c < d /\ d - c < b - a => Bounds(c, d) \in S
      PROVE  Bounds(a, b) \in S
  <2> DEFINE mid == (a + b) \div 2
  <2>1. /\ mid \in Level /\ a <= mid /\ mid < b
        /\ mid + 1 < b => mid + 1 \in Level /\ b - (mid + 1) < b - a
        /\ a < mid - 1 => mid - 1 \in Level /\ (mid - 1) - a < b - a
    BY <1>2, Halves
  <2>2. /\ less > haystack[mid] => g[Bounds(a, b)] = IF mid + 1 < b THEN g[Bounds(mid + 1, b)] ELSE mid
        /\ ~(less > haystack[mid]) => g[Bounds(a, b)] = IF a < mid - 1 THEN g[Bounds(a, mid - 1)] ELSE mid
    BY Compared
  <2>3. /\ more > haystack[mid] => h[Bounds(a, b)] = IF mid + 1 < b THEN h[Bounds(mid + 1, b)] ELSE mid
        /\ ~(more > haystack[mid]) => h[Bounds(a, b)] = IF a < mid - 1 THEN h[Bounds(a, mid - 1)] ELSE mid
    BY Compared
  <2>4. mid + 1 < b => /\ g[Bounds(mid + 1, b)] \in Level /\ h[Bounds(mid + 1, b)] \in Level
                       /\ mid + 1 <= g[Bounds(mid + 1, b)] /\ mid + 1 <= h[Bounds(mid + 1, b)]
    BY <2>1, SearchStaysIn
  <2>5. a < mid - 1 => /\ g[Bounds(a, mid - 1)] \in Level /\ h[Bounds(a, mid - 1)] \in Level
                       /\ g[Bounds(a, mid - 1)] <= mid - 1 /\ h[Bounds(a, mid - 1)] <= mid - 1
    BY <2>1, SearchStaysIn
  <2>6. /\ mid + 1 < b => g[Bounds(mid + 1, b)] <= h[Bounds(mid + 1, b)]
        /\ a < mid - 1 => g[Bounds(a, mid - 1)] <= h[Bounds(a, mid - 1)]
    <3>1. /\ mid + 1 < b => Bounds(mid + 1, b) \in S
          /\ a < mid - 1 => Bounds(a, mid - 1) \in S
      BY <1>2, <2>1
    <3> QED
      BY <1>1, <2>1, <3>1
  <2>7. less > haystack[mid] => more > haystack[mid]
    BY <2>1
  <2> DEFINE gl == g[Bounds(a, mid - 1)]  gr == g[Bounds(mid + 1, b)]
             hl == h[Bounds(a, mid - 1)]  hr == h[Bounds(mid + 1, b)]
             ga == g[Bounds(a, b)]  ha == h[Bounds(a, b)]
             up == less > haystack[mid]  above == more > haystack[mid]
             left == a < mid - 1  right == mid + 1 < b
  <2>8. /\ up => ga = IF right THEN gr ELSE mid
        /\ ~up => ga = IF left THEN gl ELSE mid
        /\ above => ha = IF right THEN hr ELSE mid
        /\ ~above => ha = IF left THEN hl ELSE mid
        /\ up => above
        /\ right => gr \in Level /\ hr \in Level /\ mid + 1 <= gr /\ mid + 1 <= hr /\ gr <= hr
        /\ left => gl \in Level /\ hl \in Level /\ gl <= mid - 1 /\ hl <= mid - 1 /\ gl <= hl
        /\ mid \in Level
    BY <2>1, <2>2, <2>3, <2>4, <2>5, <2>6, <2>7
  <2> HIDE DEF gl, gr, hl, hr, ga, ha, mid
  <2>9. ga <= ha
    <3>1. CASE up /\ right
      BY <2>8, <3>1
    <3>2. CASE up /\ ~right
      BY <2>8, <3>2 DEF Level
    <3>3. CASE ~up /\ above
      <4>1. ga <= mid
        BY <2>8, <3>3 DEF Level
      <4>2. mid <= ha
        BY <2>8, <3>3 DEF Level
      <4>3. ga \in Level /\ ha \in Level
        BY <2>8, <3>3
      <4> QED
        BY <2>8, <4>1, <4>2, <4>3 DEF Level
    <3>4. CASE ~above
      BY <2>8, <3>4 DEF Level
    <3> QED
      BY <3>1, <3>2, <3>3, <3>4
  <2> QED
    BY <1>1, <2>9 DEF ga, ha
<1> HIDE DEF S, g, h
<1>3. \A a, b \in Level : a < b => Bounds(a, b) \in S
  BY <1>2, IntervalInduction
<1> QED
  BY <1>1, <1>3 DEF g, h

-----------------------------------------------------------------------------
(* SpecifyHistogram: the same search in 8 bits.                            *)

(* As long as l has not moved, r runs through the numbers 2^k - 2 (and     *)
(* 255): it is never 1, so m is never 0 when it is decremented.            *)
NeverWraps == l = 0 => r \in {255, 126, 62, 30, 14, 6, 2, 0}

(* The level searched for is in the interval or just above it. *)
Bracketed == l <= first /\ first <= r + 1 /\ l <= r + 1

SearchIInv ==
  /\ SearchTypeOK
  /\ NeverWraps
  /\ Bracketed
  /\ ~(l < r) => first - 2 <= m /\ m <= first + 1
  /\ at = "done" => ~(l < r)

LEMMA SearchInitIInv == SearchInit => SearchIInv
  BY DEF SearchInit, SearchIInv, SearchTypeOK, NeverWraps, Bracketed, Level

(* One iteration, with the 8-bit expressions it evaluates. *)
LEMMA IterateStep ==
  ASSUME SearchIInv, Iterate
  PROVE  /\ SearchIInv'
         /\ r' - l' < r - l
         /\ m' = (l + r) \div 2
         /\ NeedleAbove(m') => l' = m' + 1 /\ r' = r
         /\ ~NeedleAbove(m') => l' = l /\ r' = m' - 1
<1> USE DEF SearchIInv, SearchTypeOK, NeverWraps, Bracketed, Level
<1>1. m' = (l + r) \div 2 /\ l <= m' /\ m' < r /\ m' \in Level
  BY DEF Iterate, Byte
<1>2. l = 0 => m' \in {127, 63, 31, 15, 7, 3, 1}
  BY <1>1 DEF Iterate
<1>3. Byte(m' + 1) = m' + 1 /\ Byte(m' - 1) = m' - 1
  BY <1>1, <1>2 DEF Byte
<1>4. CASE NeedleAbove(m')
  <2>1. l' = m' + 1 /\ r' = r /\ first' = first /\ at' = at
    BY <1>3, <1>4 DEF Iterate
  <2> QED
    BY <1>1, <1>4, <2>1 DEF NeedleAbove
<1>5. CASE ~NeedleAbove(m')
  BY <1>1, <1>2, <1>3, <1>5 DEF Iterate, NeedleAbove
<1>6. QED
  BY <1>4, <1>5

LEMMA SearchIInvStep == SearchIInv /\ [SearchNext]_searchVars => SearchIInv'
<1> SUFFICES ASSUME SearchIInv, [SearchNext]_searchVars PROVE SearchIInv'
  OBVIOUS
<1>1. CASE Iterate
  BY <1>1, IterateStep
<1>2. CASE Return
  BY <1>2 DEF Return, SearchIInv, SearchTypeOK, NeverWraps, Bracketed, Level
<1>3. CASE UNCHANGED searchVars
  BY <1>3 DEF searchVars, SearchIInv, SearchTypeOK, NeverWraps, Bracketed, Level
<1>4. QED
  BY <1>1, <1>2, <1>3 DEF SearchNext

LEMMA SearchInvariance == SearchSpec => []SearchIInv
  BY SearchInitIInv, SearchIInvStep, PTL DEF SearchSpec

(* The 8-bit variables of the search never leave their types.              *)
THEOREM SearchTypeCorrect == SearchSpec => []SearchTypeOK
<1>1. SearchIInv => SearchTypeOK
  BY DEF SearchIInv
<1>2. QED
  BY <1>1, SearchInvariance, PTL

(* The level found is at most two below and one above the one sought, for  *)
(* every monotone histogram.                                               *)
THEOREM SearchIsClose == SearchSpec => []Close
<1>1. SearchIInv => Close
  BY DEF SearchIInv, Close
<1>2. QED
  BY <1>1, SearchInvariance, PTL

(* The 8-bit arithmetic never wraps: every iteration shrinks the interval. *)
THEOREM SearchShrinks == SearchSpec => Shrinks
<1>1. SearchIInv /\ [SearchNext]_searchVars => [at' = "loop" => r' - l' < r - l]_searchVars
  BY IterateStep DEF SearchNext, Return
<1>2. QED
  BY <1>1, SearchInvariance, PTL DEF SearchSpec, Shrinks

(* What is still to be found, or was found last. *)
Outcome(needle, haystack) == IF l < r THEN SearchOf(needle, haystack)[Bounds(l, r)] ELSE m

(* A needle and a histogram for which first is the first level not below.  *)
Fits(needle, haystack, level) == \A i \in Level : needle > haystack[i] <=> i < level

FoundIsSearched ==
  \A needle, haystack : Fits(needle, haystack, first) =>
    binary_search(needle, haystack) = Outcome(needle, haystack)

LEMMA SearchIs ==
  ASSUME NEW needle, NEW haystack
  PROVE  binary_search(needle, haystack) = SearchOf(needle, haystack)[Bounds(0, 255)]
BY DEF binary_search, Search, SearchOf, Bounds

(* The loop in 8 bits returns what HistogramMatching takes the search to   *)
(* return, for every needle and every histogram it can be compared with.   *)
THEOREM SearchReturns ==
  SearchSpec => [](at = "done" =>
                     \A needle, haystack :
                       Fits(needle, haystack, first) => m = binary_search(needle, haystack))
<1>1. SearchInit => FoundIsSearched
  BY SearchIs DEF SearchInit, FoundIsSearched, Outcome
<1>2. SearchIInv /\ FoundIsSearched /\ [SearchNext]_searchVars => FoundIsSearched'
  <2> SUFFICES ASSUME SearchIInv, FoundIsSearched, [SearchNext]_searchVars
               PROVE  FoundIsSearched'
    OBVIOUS
  <2>1. CASE Iterate
    <3> SUFFICES ASSUME NEW needle, NEW haystack, Fits(needle, haystack, first)
                 PROVE  Outcome(needle, haystack)' = Outcome(needle, haystack)
      BY <2>1 DEF FoundIsSearched, Iterate
    <3> DEFINE g == SearchOf(needle, haystack)
    <3>1. /\ m' = (l + r) \div 2 /\ l < r /\ m' \in Level
          /\ NeedleAbove(m') => l' = m' + 1 /\ r' = r
          /\ ~NeedleAbove(m') => l' = l /\ r' = m' - 1
          /\ l \in Level /\ r \in Level
      BY <2>1, IterateStep DEF Iterate, SearchIInv, SearchTypeOK
    <3>2. needle > haystack[m'] <=> NeedleAbove(m')
      BY <3>1 DEF Fits, NeedleAbove
    <3>3. /\ needle > haystack[m'] =>
               g[Bounds(l, r)] = IF m' + 1 < r THEN g[Bounds(m' + 1, r)] ELSE m'
          /\ ~(needle > haystack[m']) =>
               g[Bounds(l, r)] = IF l < m' - 1 THEN g[Bounds(l, m' - 1)] ELSE m'
      BY <3>1, Compared
    <3> HIDE DEF g
    <3>4. (IF l' < r' THEN g[Bounds(l', r')] ELSE m') = g[Bounds(l, r)]
      BY <3>1, <3>2, <3>3
    <3>5. Outcome(needle, haystack) = g[Bounds(l, r)]
      BY <3>1 DEF Outcome, g
    <3>6. Outcome(needle, haystack)' = IF l' < r' THEN g[Bounds(l', r')] ELSE m'
      BY DEF Outcome, g, SearchOf, Search, Bounds, Rest, Middle, Interval, Level
    <3> QED
      BY <3>4, <3>5, <3>6
  <2>2. CASE Return \/ UNCHANGED searchVars
    BY <2>2 DEF Return, searchVars, FoundIsSearched, Outcome
  <2> QED
    BY <2>1, <2>2 DEF SearchNext
<1>3. SearchIInv /\ FoundIsSearched =>
        (at = "done" => \A needle, haystack :
           Fits(needle, haystack, first) => m = binary_search(needle, haystack))
  BY DEF SearchIInv, FoundIsSearched, Outcome
<1> QED
  BY <1>1, <1>2, <1>3, SearchInvariance, PTL DEF SearchSpec

-----------------------------------------------------------------------------
(* CropGeometry: the rectangles.                                           *)

(* A rectangle of whole numbers stays one. *)
LEMMA RectTypes ==
  ASSUME NEW a \in Rects, NEW b \in Rects
  PROVE  /\ Meet(a, b) \in Rects
         /\ Hull(a, b) \in Rects
         /\ \A dx, dy \in Int : Moved(a, dx, dy) \in Rects
         /\ \A dw, dh \in Nat : Grown(a, dw, dh) \in Rects
<1>1. Meet(a, b) \in Rects
  BY DEF Meet, Rects, Rect, NoRect, Larger, Smaller, Right, Bottom
<1>2. Hull(a, b) \in Rects
  BY DEF Hull, Rects, Rect, Larger, Smaller, Right, Bottom
<1>3. \A dx, dy \in Int : Moved(a, dx, dy) \in Rects
  BY DEF Moved, Rects, Rect
<1>4. \A dw, dh \in Nat : Grown(a, dw, dh) \in Rects
  BY DEF Grown, Rects, Rect
<1>5. QED
  BY <1>1, <1>2, <1>3, <1>4

(* What is left of a rectangle in an image can be cut out of it. *)
LEMMA MeetIsCut ==
  ASSUME NEW rect \in Rects, NEW cols \in Nat, NEW rows \in Nat
  PROVE  CutOk(Meet(rect, Whole(cols, rows)), cols, rows)
BY DEF Meet, Rects, Rect, NoRect, Larger, Smaller, Right, Bottom, Whole, CutOk

(* The same parts of an image, cut by a smaller and by a larger rectangle. *)
LEMMA MeetCovers ==
  ASSUME NEW a \in Rects, NEW b \in Rects, NEW w \in Rects,
         a.x <= b.x, Right(b) <= Right(a), a.y <= b.y, Bottom(b) <= Bottom(a)
  PROVE  Covers(Meet(a, w), Meet(b, w))
BY DEF Meet, Rects, Rect, NoRect, Larger, Smaller, Right, Bottom, Covers

LEMMA CropType ==
  ASSUME NEW f \in Frames, NEW a \in Faces, NEW b \in Faces
  PROVE  Crop(f, a, b) \in Rects /\ CutOk(Crop(f, a, b), f.cols, f.rows)
<1> DEFINE h == Grown(Moved(Hull(a, b), Border, Border), 2 * Border, 2 * Border)
<1>1. a \in Rects /\ b \in Rects /\ f.cols \in Nat /\ f.rows \in Nat
  BY CropAssumption DEF Rects
<1>2. Whole(f.cols, f.rows) \in Rects
  BY <1>1 DEF Whole, Rect, Rects
<1>3. Moved(Hull(a, b), Border, Border) \in Rects
  BY <1>1, RectTypes, CropAssumption
<1>4. h \in Rects
  BY <1>3, RectTypes, CropAssumption
<1>5. QED
  BY <1>1, <1>2, <1>4, RectTypes, MeetIsCut DEF Crop

LEMMA BigType ==
  ASSUME NEW face \in Rects, NEW crop \in Rects
  PROVE  /\ Big(face, crop) \in Rects
         /\ CutOk(Big(face, crop), crop.width, crop.height)
<1> DEFINE moved == Moved(face, face.width \div 4, face.height \div 4)
           g == Grown(moved, face.width \div 2, face.height \div 2)
<1>1. /\ face.width \div 4 \in Nat /\ face.height \div 4 \in Nat
      /\ face.width \div 2 \in Nat /\ face.height \div 2 \in Nat
  BY DEF Rects
<1>2. moved \in Rects
  BY <1>1, RectTypes
<1>3. g \in Rects
  BY <1>1, <1>2, RectTypes
<1>4. crop.width \in Nat /\ crop.height \in Nat /\ Whole(crop.width, crop.height) \in Rects
  BY DEF Whole, Rect, Rects
<1>5. QED
  BY <1>3, <1>4, RectTypes, MeetIsCut DEF Big, Surroundings

-----------------------------------------------------------------------------
LEMMA TypeInvariance == Spec => []TypeOK
<1> USE CropAssumption
<1>1. Init => TypeOK
  BY DEF Init, TypeOK, NoRect, Rect, Rects
<1>2. TypeOK /\ [Next]_vars => TypeOK'
  <2> SUFFICES ASSUME TypeOK, [Next]_vars PROVE TypeOK'
    OBVIOUS
  <2>1. CASE UNCHANGED vars
    BY <2>1 DEF vars, TypeOK
  <2>2. CASE getCroppedFrame
    <3>1. bounding_rect' \in Rects
      BY <2>2, CropType DEF getCroppedFrame, TypeOK
    <3>2. rect1 \in Rects /\ rect2 \in Rects /\ bounding_rect'.x \in Int /\ bounding_rect'.y \in Int
      BY <3>1 DEF TypeOK, Rects
    <3>3. rect_face1' \in Rects /\ rect_face2' \in Rects
      BY <2>2, <3>2, RectTypes DEF getCroppedFrame
    <3>4. big_rect_face1' \in Rects /\ big_rect_face2' \in Rects
      BY <2>2, <3>1, <3>3, BigType DEF getCroppedFrame
    <3>5. QED
      BY <2>2, <3>1, <3>3, <3>4 DEF getCroppedFrame, TypeOK
  <2>3. QED
    BY <2>1, <2>2 DEF Next
<1>3. QED
  BY <1>1, <1>2, PTL DEF Spec

(* The rectangles are rectangles, for any frame and any faces              *)
(* (getCroppedFrame).                                                      *)
THEOREM TypeCorrect == Spec => []TypeOK
BY TypeInvariance

(* No cut of nativeSwapFaces leaves its image, wherever the faces are      *)
(* (getCroppedFrame, colorCorrectFaces).                                   *)
THEOREM CutsStayInside == Spec => []CutsInside
<1>1. Init => CutsInside
  BY DEF Init, CutsInside
<1>2. TypeOK /\ CutsInside /\ [Next]_vars => CutsInside'
  <2> SUFFICES ASSUME TypeOK, CutsInside, [Next]_vars PROVE CutsInside'
    OBVIOUS
  <2>1. CASE UNCHANGED vars
    BY <2>1 DEF vars, CutsInside
  <2>2. CASE getCroppedFrame
    <3>1. bounding_rect' \in Rects /\ CutOk(bounding_rect', frame.cols, frame.rows)
      BY <2>2, CropType DEF getCroppedFrame, TypeOK
    <3>2. rect1 \in Rects /\ rect2 \in Rects /\ bounding_rect'.x \in Int /\ bounding_rect'.y \in Int
      BY <3>1, CropAssumption DEF TypeOK, Rects
    <3>3. rect_face1' \in Rects /\ rect_face2' \in Rects
      BY <2>2, <3>2, RectTypes DEF getCroppedFrame
    <3>4. /\ CutOk(big_rect_face1', bounding_rect'.width, bounding_rect'.height)
          /\ CutOk(big_rect_face2', bounding_rect'.width, bounding_rect'.height)
      BY <2>2, <3>1, <3>3, BigType DEF getCroppedFrame
    <3>5. QED
      BY <2>2, <3>1, <3>4 DEF getCroppedFrame, CutsInside
  <2>3. QED
    BY <2>1, <2>2 DEF Next
<1>3. QED
  BY <1>1, <1>2, TypeInvariance, PTL DEF Spec

LEMMA HullCovers ==
  ASSUME NEW a \in Rects, NEW b \in Rects
  PROVE  LET g == Grown(Moved(Hull(a, b), Border, Border), 2 * Border, 2 * Border)
         IN  /\ g \in Rects
             /\ g.x <= a.x /\ Right(a) <= Right(g) /\ g.y <= a.y /\ Bottom(a) <= Bottom(g)
             /\ g.x <= b.x /\ Right(b) <= Right(g) /\ g.y <= b.y /\ Bottom(b) <= Bottom(g)
<1> DEFINE h == Hull(a, b)
           moved == Moved(h, Border, Border)
           g == Grown(moved, 2 * Border, 2 * Border)
<1>1. /\ h \in Rects
      /\ h.x <= a.x /\ Right(a) <= Right(h) /\ h.y <= a.y /\ Bottom(a) <= Bottom(h)
      /\ h.x <= b.x /\ Right(b) <= Right(h) /\ h.y <= b.y /\ Bottom(b) <= Bottom(h)
  BY DEF Hull, Rect, Rects, Larger, Smaller, Right, Bottom
<1> HIDE DEF h
<1>2. g \in Rects
  BY <1>1, CropAssumption DEF Grown, Moved, Rect, Rects
<1>3. g.x = h.x - Border /\ g.y = h.y - Border
  BY <1>1, CropAssumption DEF Grown, Moved, Rect, Rects
<1>4. Right(g) = Right(h) + Border /\ Bottom(g) = Bottom(h) + Border
  BY <1>1, CropAssumption DEF Grown, Moved, Rect, Rects, Right, Bottom
<1>5. /\ a.x \in Int /\ a.y \in Int /\ Right(a) \in Int /\ Bottom(a) \in Int
      /\ b.x \in Int /\ b.y \in Int /\ Right(b) \in Int /\ Bottom(b) \in Int
      /\ h.x \in Int /\ h.y \in Int /\ Right(h) \in Int /\ Bottom(h) \in Int
  BY <1>1 DEF Rects, Right, Bottom
<1> HIDE DEF g
<1>6. /\ g.x <= a.x /\ Right(a) <= Right(g) /\ g.y <= a.y /\ Bottom(a) <= Bottom(g)
      /\ g.x <= b.x /\ Right(b) <= Right(g) /\ g.y <= b.y /\ Bottom(b) <= Bottom(g)
  BY <1>1, <1>3, <1>4, <1>5, CropAssumption
<1>7. QED
  BY <1>2, <1>6 DEF g, h

(* The crop shows all that the frame shows of the two faces                *)
(* (getCroppedFrame).                                                      *)
THEOREM FacesAreCropped == Spec => []FacesCropped
<1>1. Init => FacesCropped
  BY DEF Init, FacesCropped
<1>2. TypeOK /\ FacesCropped /\ [Next]_vars => FacesCropped'
  <2> SUFFICES ASSUME TypeOK, FacesCropped, [Next]_vars PROVE FacesCropped'
    OBVIOUS
  <2>1. CASE UNCHANGED vars
    BY <2>1 DEF vars, FacesCropped
  <2>2. CASE getCroppedFrame
    <3> DEFINE g == Grown(Moved(Hull(rect1, rect2), Border, Border), 2 * Border, 2 * Border)
               w == Whole(frame.cols, frame.rows)
    <3>1. rect1 \in Rects /\ rect2 \in Rects /\ frame.cols \in Nat /\ frame.rows \in Nat
      BY CropAssumption DEF TypeOK, Rects
    <3>2. w \in Rects
      BY <3>1 DEF Whole, Rect, Rects
    <3>3. Covers(Meet(g, w), Meet(rect1, w)) /\ Covers(Meet(g, w), Meet(rect2, w))
      BY <3>1, <3>2, HullCovers, MeetCovers
    <3>4. QED
      BY <2>2, <3>3 DEF getCroppedFrame, Crop, FacesCropped
  <2>3. QED
    BY <2>1, <2>2 DEF Next
<1>3. QED
  BY <1>1, <1>2, TypeInvariance, PTL DEF Spec

(* A face's surroundings, before they are clipped. *)
LEMMA SurroundingsCover ==
  ASSUME NEW face \in Rects
  PROVE  LET g == Surroundings(face)
         IN  /\ g \in Rects
             /\ g.x <= face.x /\ Right(face) <= Right(g)
             /\ g.y <= face.y /\ Bottom(face) <= Bottom(g)
<1> DEFINE q == face.width \div 4  h == face.width \div 2
           p == face.height \div 4  k == face.height \div 2
<1>1. q \in Nat /\ h \in Nat /\ q <= h /\ p \in Nat /\ k \in Nat /\ p <= k
  BY DEF Rects
<1> HIDE DEF q, h, p, k
<1>2. QED
  BY <1>1 DEF q, h, p, k, Surroundings, Grown, Moved, Rect, Rects, Right, Bottom

(* All that the crop shows of a face is in what is cut for it              *)
(* (getCroppedFrame, colorCorrectFaces, featherMask).                      *)
THEOREM BigCovers == Spec => []BigCoversFace
<1>1. Init => BigCoversFace
  BY DEF Init, BigCoversFace
<1>2. TypeOK /\ TypeOK' /\ BigCoversFace /\ [Next]_vars => BigCoversFace'
  <2> SUFFICES ASSUME TypeOK, TypeOK', BigCoversFace, [Next]_vars PROVE BigCoversFace'
    OBVIOUS
  <2>1. CASE UNCHANGED vars
    BY <2>1 DEF vars, BigCoversFace
  <2>2. CASE getCroppedFrame
    <3> DEFINE w == Whole(bounding_rect'.width, bounding_rect'.height)
    <3>1. rect_face1' \in Rects /\ rect_face2' \in Rects /\ bounding_rect' \in Rects
      BY DEF TypeOK
    <3>2. w \in Rects
      BY <3>1 DEF Whole, Rect, Rects
    <3>3. ASSUME NEW face \in Rects
          PROVE  Covers(Big(face, bounding_rect'), Meet(face, w))
      <4>1. Big(face, bounding_rect') = Meet(Surroundings(face), w)
        BY DEF Big
      <4>2. QED
        BY <3>2, <4>1, SurroundingsCover, MeetCovers
    <3>4. QED
      BY <2>2, <3>1, <3>3 DEF getCroppedFrame, BigCoversFace
  <2>3. QED
    BY <2>1, <2>2 DEF Next
<1>3. QED
  BY <1>1, <1>2, TypeInvariance, PTL DEF Spec

-----------------------------------------------------------------------------
(* HistogramMatching: specifiyHistogram. *)

(* Of numbers there is a least one. *)
LEMMA LeastNumber ==
  ASSUME NEW S, S \subseteq Nat, S # {}
  PROVE  Min(S) \in S /\ \A x \in S : Min(S) <= x
<1> DEFINE R == OpToRel(<, Nat)
<1>1. IsWellFoundedOn(R, Nat)
  BY NatLessThanWellFounded
<1> HIDE DEF R
<1>2. PICK x \in S : \A y \in S : ~ (<<y, x>> \in R)
  BY <1>1, WFMin
<1>3. ASSUME NEW y \in S PROVE x <= y
  <2>1. y < x => <<y, x>> \in R
    BY DEF R, OpToRel
  <2> QED
    BY <1>2, <2>1
<1> QED
  BY <1>3 DEF Min

LEMMA CumulatedIs ==
  ASSUME NEW mask, IsFiniteSet(mask), NEW image, \A p \in mask : image[p] \in Level
  PROVE  /\ \A i \in Int : Cumulated(image, mask, i) \in 0 .. Cardinality(mask)
         /\ \A i, j \in Int : i <= j => Cumulated(image, mask, i) <= Cumulated(image, mask, j)
         /\ Cumulated(image, mask, -1) = 0
         /\ Cumulated(image, mask, 255) = Cardinality(mask)
         /\ \A p \in mask : Cumulated(image, mask, image[p]) > 0
         /\ \A i \in Int : Cumulated(image, mask, i - 1) < Cumulated(image, mask, i) =>
                             \E q \in mask : image[q] = i
<1> DEFINE upTo(i) == {p \in mask : image[p] <= i}
<1>1. \A i : upTo(i) \in SUBSET mask /\ Cumulated(image, mask, i) = Cardinality(upTo(i))
  BY DEF Cumulated
<1>2. \A p \in mask : image[p] \in Int /\ 0 <= image[p] /\ image[p] <= 255
  BY DEF Level
<1>3. \A i : IsFiniteSet(upTo(i)) /\ Cardinality(upTo(i)) \in 0 .. Cardinality(mask)
  <2> TAKE i
  <2> HIDE DEF upTo
  <2>1. IsFiniteSet(upTo(i)) /\ Cardinality(upTo(i)) <= Cardinality(mask)
    BY <1>1, FS_Subset
  <2> QED
    BY <2>1, FS_CardinalityType
<1>4. \A i, j \in Int : i <= j => Cardinality(upTo(i)) <= Cardinality(upTo(j))
  <2> SUFFICES ASSUME NEW i \in Int, NEW j \in Int, i <= j
               PROVE  Cardinality(upTo(i)) <= Cardinality(upTo(j))
    OBVIOUS
  <2>1. upTo(i) \in SUBSET upTo(j)
    BY <1>2
  <2> HIDE DEF upTo
  <2> QED
    BY <1>3, <2>1, FS_Subset
<1>5. upTo(-1) = {} /\ upTo(255) = mask
  BY <1>2
<1>6. \A p \in mask : Cardinality(upTo(image[p])) > 0
  <2> TAKE p \in mask
  <2>1. upTo(image[p]) # {}
    BY <1>2
  <2> HIDE DEF upTo
  <2>2. Cardinality(upTo(image[p])) # 0
    BY <1>3, <2>1, FS_EmptySet
  <2>3. Cardinality(upTo(image[p])) \in Nat
    BY <1>3, FS_CardinalityType
  <2> QED
    BY <2>2, <2>3
<1>7. \A i \in Int : Cardinality(upTo(i - 1)) < Cardinality(upTo(i)) =>
                       \E q \in mask : image[q] = i
  <2> SUFFICES ASSUME NEW i \in Int, ~ \E q \in mask : image[q] = i
               PROVE  ~(Cardinality(upTo(i - 1)) < Cardinality(upTo(i)))
    OBVIOUS
  <2>1. upTo(i - 1) = upTo(i)
    BY <1>2
  <2> HIDE DEF upTo
  <2>2. Cardinality(upTo(i)) \in Nat
    BY <1>3, FS_CardinalityType
  <2> QED
    BY <2>1, <2>2
<1> HIDE DEF upTo
<1>8. Cardinality(upTo(-1)) = 0
  BY <1>5, FS_EmptySet
<1> QED
  BY <1>1, <1>3, <1>4, <1>5, <1>6, <1>7, <1>8

Histogram(image, mask) == [i \in Level |-> Cumulated(image, mask, i)]

LEMMA FoundLevel ==
  ASSUME NEW needle, NEW haystack
  PROVE  binary_search(needle, haystack) \in Level
<1>1. 0 \in Level /\ 255 \in Level
  BY DEF Level
<1> QED
  BY <1>1, SearchIs, SearchStaysIn

(* The level found fits a pixel of the source of the same rank. *)
LEMMA FoundFits ==
  ASSUME NEW mask, IsFiniteSet(mask), NEW image, \A p \in mask : image[p] \in Level,
         NEW needle \in 1 .. Cardinality(mask)
  PROVE  LET found == binary_search(needle, Histogram(image, mask))
         IN  \E q \in mask :
               /\ Cumulated(image, mask, image[q] - 1) < needle
               /\ needle <= Cumulated(image, mask, image[q])
               /\ image[q] - 2 <= found /\ found <= image[q] + 1
<1> DEFINE count(i) == Cumulated(image, mask, i)
           S == {i \in Level : needle <= count(i)}
           fit == Min(S)
<1>1. /\ \A i \in Int : count(i) \in 0 .. Cardinality(mask)
      /\ \A i, j \in Int : i <= j => count(i) <= count(j)
      /\ count(-1) = 0 /\ count(255) = Cardinality(mask)
      /\ \A i \in Int : count(i - 1) < count(i) => \E q \in mask : image[q] = i
  BY CumulatedIs
<1>2. /\ needle \in Nat /\ needle > 0 /\ needle <= Cardinality(mask)
      /\ \A i \in Int : count(i) \in Nat
  <2>1. Cardinality(mask) \in Nat
    BY FS_CardinalityType
  <2> HIDE DEF count
  <2> QED
    BY <1>1, <2>1
<1> HIDE DEF count
<1>3. 255 \in S /\ S \subseteq Nat
  <2>1. 255 \in Level /\ Level \subseteq Nat
    BY DEF Level
  <2>2. needle <= count(255)
    BY <1>1, <1>2
  <2> QED
    BY <2>1, <2>2
<1>4. fit \in S /\ \A x \in S : fit <= x
  BY <1>3, LeastNumber
<1> HIDE DEF fit
<1>5. fit \in Level /\ fit \in Int /\ fit - 1 \in Int /\ needle <= count(fit)
  BY <1>4 DEF Level
<1>6. count(fit - 1) < needle
  <2>1. CASE fit = 0
    <3>1. fit - 1 = -1
      BY <2>1
    <3> QED
      BY <1>1, <1>2, <3>1
  <2>2. CASE fit # 0
    <3>1. fit - 1 \in Level /\ ~(fit <= fit - 1)
      BY <1>5, <2>2 DEF Level
    <3>2. ~(needle <= count(fit - 1))
      BY <1>4, <3>1
    <3> QED
      BY <1>2, <1>5, <3>2
  <2> QED
    BY <2>1, <2>2
<1>7. PICK q \in mask : image[q] = fit
  <2>1. count(fit - 1) < count(fit)
    <3>1. count(fit) \in Nat /\ count(fit - 1) \in Nat
      BY <1>2, <1>5
    <3> QED
      BY <1>2, <1>5, <1>6, <3>1
  <2> QED
    BY <1>1, <1>5, <2>1
<1>8. \A j \in Level : needle > Histogram(image, mask)[j] <=> j < fit
  <2> TAKE j \in Level
  <2>1. Histogram(image, mask)[j] = count(j) /\ j \in Int /\ count(j) \in Nat
    BY <1>2 DEF Histogram, count, Level
  <2>2. CASE j < fit
    <3>1. ~(needle <= count(j))
      BY <1>4, <1>5, <2>1, <2>2
    <3> QED
      BY <1>2, <2>1, <2>2, <3>1
  <2>3. CASE ~(j < fit)
    <3>1. fit <= j
      BY <1>5, <2>1, <2>3
    <3>2. count(fit) <= count(j) /\ count(fit) \in Nat
      BY <1>1, <1>2, <1>5, <2>1, <3>1
    <3> QED
      BY <1>2, <1>5, <2>1, <2>3, <3>2
  <2> QED
    BY <2>2, <2>3
<1>9. /\ fit - 2 <= binary_search(needle, Histogram(image, mask))
      /\ binary_search(needle, Histogram(image, mask)) <= fit + 1
  <2>1. 0 \in Level /\ 255 \in Level /\ 0 <= fit /\ fit <= 255 + 1
    BY <1>5 DEF Level
  <2> HIDE DEF S
  <2> QED
    BY <1>5, <1>8, <2>1, SearchIs, SearchIsNear
<1> QED
  BY <1>5, <1>6, <1>7, <1>9 DEF count

(* What specifiyHistogram makes of a target. *)
LEMMA MatchedHistogram ==
  ASSUME NEW D, NEW source, NEW target \in [D -> Level],
         NEW mask, mask \subseteq D, IsFiniteSet(mask), \A p \in mask : source[p] \in Level
  PROVE  LET made == specifiyHistogram(source, target, mask)
         IN  /\ made \in [D -> Level]
             /\ \A p, q \in mask : target[p] <= target[q] => made[p] <= made[q]
             /\ \A p \in mask : \E q \in mask :
                  /\ Cumulated(source, mask, source[q] - 1) < Cumulated(target, mask, target[p])
                  /\ Cumulated(target, mask, target[p]) <= Cumulated(source, mask, source[q])
                  /\ source[q] - 2 <= made[p] /\ made[p] <= source[q] + 1
<1> DEFINE needle(p) == Cumulated(target, mask, target[p])
           made == specifiyHistogram(source, target, mask)
<1>1. made = [p \in D |-> IF p \in mask THEN binary_search(needle(p), Histogram(source, mask))
                                      ELSE target[p]]
  BY DEF specifiyHistogram, Histogram
<1>2. \A p \in mask : target[p] \in Level /\ target[p] \in Int
  BY DEF Level
<1>3. \A p \in mask : needle(p) \in 1 .. Cardinality(mask) /\ needle(p) \in Int
  <2> TAKE p \in mask
  <2>1. needle(p) \in 0 .. Cardinality(mask) /\ needle(p) > 0
    BY <1>2, CumulatedIs
  <2> HIDE DEF needle
  <2> QED
    BY <2>1, FS_CardinalityType
<1>4. Histogram(source, mask) \in [Level -> Int]
  <2>1. \A i \in Level : i \in Int
    BY DEF Level
  <2>2. \A i \in Int : Cumulated(source, mask, i) \in 0 .. Cardinality(mask)
    BY CumulatedIs
  <2>3. 0 .. Cardinality(mask) \subseteq Int
    OBVIOUS
  <2> QED
    BY <2>1, <2>2, <2>3 DEF Histogram
<1>5. made \in [D -> Level]
  BY <1>1, FoundLevel
<1>6. ASSUME NEW p \in mask, NEW q \in mask, target[p] <= target[q] PROVE made[p] <= made[q]
  <2>1. needle(p) <= needle(q)
    BY <1>2, <1>6, CumulatedIs
  <2>2. 0 \in Level /\ 255 \in Level /\ 0 < 255
    BY DEF Level
  <2>3. made[p] = binary_search(needle(p), Histogram(source, mask))
        /\ made[q] = binary_search(needle(q), Histogram(source, mask))
    BY <1>1
  <2> HIDE DEF needle, made
  <2> QED
    BY <1>3, <1>4, <2>1, <2>2, <2>3, SearchIs, SearchIsMonotone
<1>7. ASSUME NEW p \in mask
      PROVE  \E q \in mask :
               /\ Cumulated(source, mask, source[q] - 1) < needle(p)
               /\ needle(p) <= Cumulated(source, mask, source[q])
               /\ source[q] - 2 <= made[p] /\ made[p] <= source[q] + 1
  <2>1. made[p] = binary_search(needle(p), Histogram(source, mask))
    BY <1>1
  <2> HIDE DEF needle, made
  <2> QED
    BY <1>3, <2>1, FoundFits
<1> QED
  BY <1>5, <1>6, <1>7

-----------------------------------------------------------------------------
(* FaceBlending: the rows of pixels. *)

LEMMA QuotientBound ==
  ASSUME NEW n \in Nat \ {0}, NEW sum \in Nat, sum <= 255 * n
  PROVE  /\ (2 * sum + n) \div (2 * n) \in Level
         /\ sum = 0 => (2 * sum + n) \div (2 * n) = 0
<1> DEFINE a == 2 * sum + n  b == 2 * n  quot == a \div b
<1>1. a \in Nat /\ b \in Nat /\ b > 0 /\ a < 256 * b
  OBVIOUS
<1> HIDE DEF a, b
<1>2. quot \in Int /\ b * quot <= a /\ a < b * quot + b
  BY <1>1
<1> HIDE DEF quot
<1>3. quot >= 0
  <2> SUFFICES ASSUME quot <= -1 PROVE FALSE
    BY <1>2
  <2>1. b * quot <= b * (-1)
    BY <1>1, <1>2
  <2> QED
    BY <1>1, <1>2, <2>1
<1>4. quot <= 255
  <2> SUFFICES ASSUME quot >= 256 PROVE FALSE
    BY <1>2
  <2>1. b * quot >= b * 256
    BY <1>1, <1>2
  <2> QED
    BY <1>1, <1>2, <2>1
<1>5. sum = 0 => a \div b = 0
  <2> SUFFICES ASSUME sum = 0 PROVE a \div b = 0
    OBVIOUS
  <2>1. a < b
    BY DEF a, b
  <2> QED
    BY <1>1, <2>1
<1> QED
  BY <1>2, <1>3, <1>4, <1>5 DEF quot, a, b, Level

LEMMA WindowIs ==
  ASSUME NEW p \in Int, NEW n \in Nat \ {0}
  PROVE  /\ Window(p, n) \subseteq Int /\ Window(p, n) # {}
         /\ IsFiniteSet(Window(p, n)) /\ Cardinality(Window(p, n)) = n
<1> DEFINE a == p - (n \div 2)
<1>1. a \in Int
  OBVIOUS
<1> HIDE DEF a
<1>2. Window(p, n) = a .. a + n - 1
  BY DEF Window, a
<1>3. a \in a .. a + n - 1 /\ a + n - 1 \in Int
  BY <1>1
<1>4. IsFiniteSet(a .. a + n - 1) /\ Cardinality(a .. a + n - 1) = n
  BY <1>1, FS_Interval
<1> QED
  BY <1>2, <1>3, <1>4

(* What a pixel of the eroded mask says of the mask. *)
LEMMA ErodedIs ==
  ASSUME NEW mask \in [Pixels -> Level], NEW rect, NEW n \in Nat \ {0}, Pixels \subseteq Int
  PROVE  LET new == Eroded(mask, rect, n)
         IN  /\ new \in [Pixels -> Level]
             /\ \A p \in Pixels : p \notin rect => new[p] = mask[p]
             /\ \A p \in Pixels : p \in rect /\ new[p] # 0 =>
                  \A q \in Window(p, n) : q \in Pixels /\ mask[q] # 0
<1> DEFINE seen(p) == {mask[q] : q \in Window(p, n)}
           new == Eroded(mask, rect, n)
<1>1. ASSUME NEW p \in Pixels, Window(p, n) \subseteq Pixels
      PROVE  /\ Min(seen(p)) \in Level
             /\ Min(seen(p)) # 0 => \A q \in Window(p, n) : mask[q] # 0
  <2>1. seen(p) # {} /\ seen(p) \subseteq Level
    BY <1>1, WindowIs
  <2>2. Min(seen(p)) \in seen(p) /\ \A x \in seen(p) : Min(seen(p)) <= x
    <3>1. Level \subseteq Nat
      BY DEF Level
    <3> HIDE DEF seen
    <3> QED
      BY <2>1, <3>1, LeastNumber
  <2>3. \A q \in Window(p, n) : mask[q] \in seen(p)
    OBVIOUS
  <2> HIDE DEF seen
  <2>4. ASSUME NEW q \in Window(p, n), mask[q] = 0 PROVE Min(seen(p)) = 0
    BY <2>1, <2>2, <2>3, <2>4 DEF Level
  <2> QED
    BY <2>1, <2>2, <2>4
<1>2. 0 \in Level
  BY DEF Level
<1>3. new = [p \in Pixels |-> IF p \notin rect THEN mask[p]
                              ELSE IF Window(p, n) \subseteq Pixels THEN Min(seen(p)) ELSE 0]
  BY DEF Eroded
<1> HIDE DEF seen, new
<1>4. new \in [Pixels -> Level]
  BY <1>1, <1>2, <1>3
<1>5. \A p \in Pixels : p \notin rect => new[p] = mask[p]
  BY <1>3
<1>6. ASSUME NEW p \in Pixels, p \in rect, new[p] # 0
      PROVE  \A q \in Window(p, n) : q \in Pixels /\ mask[q] # 0
  BY <1>1, <1>3, <1>6
<1> QED
  BY <1>4, <1>5, <1>6 DEF new

LEMMA BlurredIs ==
  ASSUME NEW mask \in [Pixels -> Level], NEW rect, NEW n \in Nat \ {0}, Pixels \subseteq Int
  PROVE  LET new == Blurred(mask, rect, n)
         IN  /\ new \in [Pixels -> Level]
             /\ \A p \in Pixels : p \notin rect => new[p] = mask[p]
             /\ \A p \in Pixels : p \in rect /\ new[p] # 0 =>
                  \E q \in Window(p, n) \cap Pixels : mask[q] # 0
<1> DEFINE near(p) == Window(p, n) \cap Pixels
           sum(p) == Sum(mask, near(p))
           new == Blurred(mask, rect, n)
<1>1. ASSUME NEW p \in Pixels
      PROVE  /\ sum(p) \in Nat /\ sum(p) <= 255 * n
             /\ (\A q \in near(p) : mask[q] = 0) => sum(p) = 0
  <2>1. IsFiniteSet(near(p)) /\ Cardinality(near(p)) <= n
    <3>1. IsFiniteSet(Window(p, n)) /\ Cardinality(Window(p, n)) = n
      BY WindowIs
    <3>2. near(p) \in SUBSET Window(p, n)
      OBVIOUS
    <3> HIDE DEF near
    <3> QED
      BY <3>1, <3>2, FS_Subset
  <2>2. Cardinality(near(p)) \in Nat
    BY <2>1, FS_CardinalityType
  <2>3. \A q \in near(p) : mask[q] \in 0 .. 255
    BY DEF Level
  <2> HIDE DEF near
  <2>4. sum(p) \in 0 .. 255 * Cardinality(near(p))
    <3>1. 255 \in Nat
      OBVIOUS
    <3> QED
      BY <2>1, <2>3, <3>1, SumBounds
  <2>5. ASSUME \A q \in near(p) : mask[q] = 0 PROVE sum(p) = 0
    <3>1. \A q \in near(p) : mask[q] \in 0 .. 0
      BY <2>5
    <3>2. sum(p) \in 0 .. 0 * Cardinality(near(p))
      BY <2>1, <3>1, SumBounds
    <3> HIDE DEF sum
    <3> QED
      BY <2>2, <3>2
  <2> HIDE DEF sum
  <2> DEFINE c == Cardinality(near(p))
  <2>6. c \in Nat /\ c <= n /\ sum(p) \in 0 .. 255 * c
    BY <2>1, <2>2, <2>4
  <2> HIDE DEF c
  <2>7. sum(p) \in Nat /\ sum(p) <= 255 * n
    BY <2>6
  <2> QED
    BY <2>5, <2>7
<1>2. new = [p \in Pixels |-> IF p \notin rect THEN mask[p] ELSE (2 * sum(p) + n) \div (2 * n)]
  BY DEF Blurred, Sum
<1> HIDE DEF sum, new
<1>3. \A p \in Pixels : (2 * sum(p) + n) \div (2 * n) \in Level
  BY <1>1, QuotientBound
<1>4. new \in [Pixels -> Level]
  BY <1>2, <1>3
<1>5. ASSUME NEW p \in Pixels, p \in rect, new[p] # 0
      PROVE  \E q \in near(p) : mask[q] # 0
  <2>1. sum(p) # 0
    BY <1>1, <1>2, <1>5, QuotientBound
  <2> QED
    BY <1>1, <2>1
<1> QED
  BY <1>2, <1>4, <1>5 DEF new

LEMMA BlendIs ==
  ASSUME NEW weight \in Level, NEW frm \in Level, NEW face \in Level
  PROVE  /\ Blend(weight, frm, face) <= Max({frm, face})
         /\ Blend(weight, frm, face) >= Min({frm, face}) - 1
<1> DEFINE high == Max({frm, face})  low == Min({frm, face})
           sum == (255 - weight) * frm + weight * face
<1>1. /\ high \in {frm, face} /\ frm <= high /\ face <= high
      /\ low \in {frm, face} /\ low <= frm /\ low <= face
  <2>1. CASE frm <= face
    BY <2>1 DEF Max, Min, Level
  <2>2. CASE face <= frm
    BY <2>2 DEF Max, Min, Level
  <2> QED
    BY <2>1, <2>2 DEF Level
<1>2. high \in 0 .. 255 /\ low \in 0 .. 255 /\ weight \in 0 .. 255
  BY <1>1 DEF Level
<1> HIDE DEF high, low
<1>3. (255 - weight) * frm <= (255 - weight) * high /\ weight * face <= weight * high
  BY <1>1, <1>2 DEF Level
<1>4. (255 - weight) * low <= (255 - weight) * frm /\ weight * low <= weight * face
  BY <1>1, <1>2 DEF Level
<1>5. /\ (255 - weight) * high + weight * high = 255 * high
      /\ (255 - weight) * low + weight * low = 255 * low
  BY <1>2
<1>6. sum \in Int /\ sum <= 255 * high /\ 255 * low <= sum
  BY <1>2, <1>3, <1>4, <1>5 DEF Level
<1> HIDE DEF sum
<1>7. sum \div 256 <= high /\ sum \div 256 >= low - 1
  BY <1>2, <1>6
<1> QED
  BY <1>7 DEF sum, high, low, Blend

LEMMA HalfOf ==
  ASSUME NEW n \in Nat \ {0}
  PROVE  /\ n \div 2 \in Nat
         /\ (n % 2 = 1 /\ n = 2 * (n \div 2) + 1) \/ (n % 2 = 0 /\ n = 2 * (n \div 2))
OBVIOUS

(* The mask after a pass of the feather, in and out of its rectangle. *)
LEMMA FeatherPass ==
  ASSUME NEW mask \in [Pixels -> Level], NEW rect, NEW n \in Nat \ {0}, Pixels \subseteq Int
  PROVE  LET new == Blurred(Eroded(mask, rect, n), rect, n)
         IN  /\ new \in [Pixels -> Level]
             /\ \A p \in Pixels : p \notin rect => new[p] = mask[p]
             /\ \A p \in Pixels : p \in rect /\ new[p] # 0 =>
                  \/ n % 2 = 1 /\ mask[p] # 0
                  \/ n % 2 = 0 /\ p - 1 \in Pixels /\ mask[p - 1] # 0
                  \/ \E q \in Pixels : /\ q \notin rect /\ mask[q] # 0
                                       /\ q - (n \div 2) <= p /\ p <= q + (n \div 2)
                                       /\ n % 2 = 0 => p > q - (n \div 2)
<1> DEFINE eroded == Eroded(mask, rect, n)
           new == Blurred(eroded, rect, n)
<1>1. /\ eroded \in [Pixels -> Level]
      /\ \A p \in Pixels : p \notin rect => eroded[p] = mask[p]
      /\ \A p \in Pixels : p \in rect /\ eroded[p] # 0 =>
           \A q \in Window(p, n) : q \in Pixels /\ mask[q] # 0
  BY ErodedIs
<1> HIDE DEF eroded
<1>2. /\ new \in [Pixels -> Level]
      /\ \A p \in Pixels : p \notin rect => new[p] = eroded[p]
      /\ \A p \in Pixels : p \in rect /\ new[p] # 0 =>
           \E q \in Window(p, n) \cap Pixels : eroded[q] # 0
  BY <1>1, BlurredIs
<1> HIDE DEF new
<1>3. ASSUME NEW p \in Pixels, p \in rect, new[p] # 0
      PROVE  \/ n % 2 = 1 /\ mask[p] # 0
             \/ n % 2 = 0 /\ p - 1 \in Pixels /\ mask[p - 1] # 0
             \/ \E q \in Pixels : /\ q \notin rect /\ mask[q] # 0
                                  /\ q - (n \div 2) <= p /\ p <= q + (n \div 2)
                                  /\ n % 2 = 0 => p > q - (n \div 2)
  <2>1. PICK q \in Pixels : q \in Window(p, n) /\ eroded[q] # 0
    BY <1>2, <1>3
  <2> DEFINE half == n \div 2
  <2>2. /\ half \in Nat /\ p \in Int /\ q \in Int
        /\ (n % 2 = 1 /\ n = 2 * half + 1) \/ (n % 2 = 0 /\ n = 2 * half)
    BY HalfOf
  <2>3. p - half <= q /\ q <= p - half + n - 1
    BY <2>1, <2>2 DEF Window
  <2>4. \A x \in Int : q - half <= x /\ x <= q - half + n - 1 => x \in Window(q, n)
    BY <2>2 DEF Window
  <2> HIDE DEF half
  <2>5. CASE q \in rect
    <3>1. \A x \in Window(q, n) : x \in Pixels /\ mask[x] # 0
      BY <1>1, <2>1, <2>5
    <3>2. CASE n % 2 = 1
      <4>1. q - half <= p /\ p <= q - half + n - 1
        BY <2>2, <2>3, <3>2
      <4> QED
        BY <2>2, <2>4, <3>1, <3>2, <4>1
    <3>3. CASE n % 2 = 0
      <4>1. p - 1 \in Int /\ q - half <= p - 1 /\ p - 1 <= q - half + n - 1
        BY <2>2, <2>3, <3>3
      <4> QED
        BY <2>4, <3>1, <3>3, <4>1
    <3> QED
      BY <2>2, <3>2, <3>3
  <2>6. CASE q \notin rect
    <3>1. mask[q] # 0
      BY <1>1, <2>1, <2>6
    <3>2. q - half <= p /\ p <= q + half /\ (n % 2 = 0 => p > q - half)
      BY <2>2, <2>3
    <3> QED
      BY <2>6, <3>1, <3>2 DEF half
  <2> QED
    BY <2>5, <2>6
<1>4. \A p \in Pixels : p \notin rect => new[p] = mask[p]
  BY <1>1, <1>2
<1> QED
  BY <1>2, <1>3, <1>4 DEF new, eroded

(* A face reaches as many pixels further as its margin. *)
LEMMA ColumnsReach ==
  ASSUME Pixels \subseteq Int, NEW face \in Rects, NEW n \in Nat,
         NEW q \in Columns(face, 0), NEW p \in Pixels, q - n <= p, p <= q + n
  PROVE  p \in Columns(face, n)
<1>1. face.x \in Int /\ Right(face) \in Int /\ q \in Int /\ p \in Int
  BY DEF Rects, Right, Columns
<1>2. face.x <= q /\ q < Right(face)
  BY <1>1 DEF Columns
<1> QED
  BY <1>1, <1>2 DEF Columns

(* Where a face is seen next to a rectangle, the rectangle has no part of  *)
(* its surroundings.                                                       *)
LEMMA RoomyReach ==
  ASSUME Pixels \subseteq Int, Roomy, feather_amount \in Nat,
         rect_face1 \in Rects, rect_face2 \in Rects,
         NEW rect \in {big_rect_face1, big_rect_face2},
         NEW x \in pasted
  PROVE  \A p, q \in Pixels :
           /\ x - feather_amount <= p /\ p <= x + feather_amount
           /\ x - feather_amount <= q /\ q <= x + feather_amount
           => (p \in Columns(rect, 0) <=> q \in Columns(rect, 0))
<1>1. PICK face \in {rect_face1, rect_face2} : x \in Columns(face, 0)
  BY DEF pasted
<1>2. \/ Columns(face, feather_amount) \subseteq Columns(rect, 0)
      \/ Columns(face, feather_amount) \cap Columns(rect, 0) = {}
  BY DEF Roomy
<1>3. face \in Rects
  OBVIOUS
<1> QED
  BY <1>1, <1>2, <1>3, ColumnsReach

LEMMA TimesIs ==
  /\ stage \in {"colour1", "colour2", "feather1"} => \A p : Times(p) = 0
  /\ stage = "feather2" =>
       \A p : Times(p) = IF p \in Columns(big_rect_face1, 0) THEN 1 ELSE 0
  /\ stage \in {"paste", "done"} =>
       \A p : /\ Times(p) \in Nat
              /\ p \in Columns(big_rect_face1, 0) \/ p \in Columns(big_rect_face2, 0) =>
                   Times(p) >= 1
              /\ p \in Columns(big_rect_face1, 0) /\ p \in Columns(big_rect_face2, 0) =>
                   Times(p) >= 2
<1>0. ASSUME stage \in {"colour1", "colour2", "feather1"}, NEW p
      PROVE  Times(p) = 0
  <2> DEFINE In == {i \in DOMAIN Feathered : p \in Columns(Feathered[i], 0)}
  <2>1. Feathered = <<>>
    BY <1>0 DEF Feathered
  <2>2. In = {}
    BY <2>1
  <2> HIDE DEF In
  <2> QED
    BY <2>2, FS_EmptySet DEF Times, In
<1>1. ASSUME stage = "feather2", NEW p
      PROVE  Times(p) = IF p \in Columns(big_rect_face1, 0) THEN 1 ELSE 0
  <2> DEFINE In == {i \in DOMAIN Feathered : p \in Columns(Feathered[i], 0)}
  <2>1. Feathered = <<big_rect_face1>>
    BY <1>1 DEF Feathered
  <2>2. In = IF p \in Columns(big_rect_face1, 0) THEN {1} ELSE {}
    BY <2>1
  <2> HIDE DEF In
  <2>3. Cardinality(In) = IF p \in Columns(big_rect_face1, 0) THEN 1 ELSE 0
    BY <2>2, FS_EmptySet, FS_Singleton
  <2> QED
    BY <2>3 DEF Times, In
<1>2. ASSUME stage \in {"paste", "done"}, NEW p
      PROVE  /\ Times(p) \in Nat
             /\ p \in Columns(big_rect_face1, 0) \/ p \in Columns(big_rect_face2, 0) =>
                  Times(p) >= 1
             /\ p \in Columns(big_rect_face1, 0) /\ p \in Columns(big_rect_face2, 0) =>
                  Times(p) >= 2
  <2> DEFINE In == {i \in DOMAIN Feathered : p \in Columns(Feathered[i], 0)}
  <2>1. Feathered = <<big_rect_face1, big_rect_face2>>
    BY <1>2 DEF Feathered
  <2>2. /\ In \in SUBSET (1 .. 2)
        /\ 1 \in In <=> p \in Columns(big_rect_face1, 0)
        /\ 2 \in In <=> p \in Columns(big_rect_face2, 0)
    BY <2>1
  <2> HIDE DEF In
  <2>3. IsFiniteSet(1 .. 2) /\ Cardinality(1 .. 2) = 2
    <3>1. 1 .. 2 = {1} \cup {2} /\ 2 \notin {1} /\ 1 + 1 = 2
      OBVIOUS
    <3>2. IsFiniteSet({1}) /\ Cardinality({1}) = 1
      BY FS_Singleton
    <3>3. IsFiniteSet({1} \cup {2}) /\ Cardinality({1} \cup {2}) = 1 + 1
      BY <3>1, <3>2, FS_AddElement
    <3> QED
      BY <3>1, <3>3
  <2>4. IsFiniteSet(In) /\ Cardinality(In) \in Nat
    BY <2>2, <2>3, FS_Subset, FS_CardinalityType
  <2>5. In # {} => Cardinality(In) >= 1
    BY <2>4, FS_EmptySet
  <2>6. 1 \in In /\ 2 \in In => Cardinality(In) = 2
    <3> SUFFICES ASSUME 1 \in In, 2 \in In PROVE Cardinality(In) = 2
      OBVIOUS
    <3>1. 1 .. 2 = {1, 2}
      OBVIOUS
    <3>2. In = 1 .. 2
      BY <2>2, <3>1
    <3> QED
      BY <2>3, <3>2
  <2> QED
    BY <2>2, <2>4, <2>5, <2>6 DEF Times, In
<1> QED
  BY <1>0, <1>1, <1>2

-----------------------------------------------------------------------------
(* FaceBlending: its invariant. *)

(* What is given is of its type, ... *)
Given ==
  /\ feather_amount \in Nat \ {0}
  /\ frame.rows = 1 => /\ picture \in [1 .. frame.cols -> Level]
                       /\ faces \in [1 .. frame.cols -> Level]

(* ... and so is what each stage has made of it. *)
Made ==
  /\ stage \in {"crop", "warp", "colour1", "colour2", "feather1", "feather2", "paste", "done"}
  /\ stage # "crop" => pc = "cropped"
  /\ stage \in {"crop", "warp"} => refined_masks = NoPixels /\ masked = {}
  /\ stage \notin {"crop", "warp"} =>
       /\ frame.rows = 1
       /\ refined_masks \in [Pixels -> Level] /\ warped_faces \in [Pixels -> Level]
       /\ masked \subseteq Pixels
  /\ stage \notin {"crop", "warp", "done"} =>
       cropped_frame = [p \in Pixels |-> <<camera[p], camera[p], camera[p]>>]

(* What has weight is a pixel of the faces, until the mask is feathered;   *)
(* in a rectangle where it has been, it may be a pixel next to one.        *)
Off == feather_amount % 2 = 0

OnFaces(mask) == \A p \in Pixels : mask[p] # 0 => p \in pasted

OnceOff(mask) ==
  \A p \in Pixels : mask[p] # 0 =>
    \/ p \in pasted
    \/ Off /\ p - 1 \in pasted /\ p \in Columns(big_rect_face1, 0)

TwiceOff(mask) ==
  \A p \in Pixels : mask[p] # 0 =>
    \/ p \in pasted
    \/ /\ Off /\ p - 1 \in pasted
       /\ p \in Columns(big_rect_face1, 0) \/ p \in Columns(big_rect_face2, 0)
    \/ /\ Off /\ p - 2 \in pasted
       /\ p \in Columns(big_rect_face1, 0) /\ p \in Columns(big_rect_face2, 0)

WeightIsNear ==
  /\ stage \in {"colour1", "colour2", "feather1"} => OnFaces(refined_masks)
  /\ stage = "feather2" /\ Roomy => OnceOff(refined_masks)
  /\ stage \in {"paste", "done"} /\ Roomy => TwiceOff(refined_masks)

ColoursMatch == OrderKept /\ Matched

BlendIInv == Given /\ Made /\ WeightIsNear /\ ColoursMatch /\ BlendStaysBetween

(* A run of SwapSpec is one of CropGeometry, and more. *)
LEMMA SwapsCrop == SwapSpec => Spec
<1>1. SwapInit => Init
  BY DEF SwapInit
<1>2. [SwapNext]_swapVars => [Next]_vars
  BY DEF SwapNext, swapVars, Next, CropFaces, WarpFaces, colorCorrectFace1, colorCorrectFace2,
         Correct, featherFace1, featherFace2, Paste
<1> QED
  BY <1>1, <1>2, PTL DEF SwapSpec, Spec

LEMMA SwapCuts == SwapSpec => [](TypeOK /\ CutsInside)
BY SwapsCrop, TypeCorrect, CutsStayInside, PTL

LEMMA CropTypes ==
  ASSUME TypeOK
  PROVE  /\ Pixels \subseteq Int /\ IsFiniteSet(Pixels)
         /\ rect_face1 \in Rects /\ rect_face2 \in Rects
         /\ pasted \subseteq Pixels
<1>1. bounding_rect \in Rects /\ rect_face1 \in Rects /\ rect_face2 \in Rects
  BY DEF TypeOK
<1>2. 0 \in Int /\ bounding_rect.width - 1 \in Int
  BY <1>1 DEF Rects
<1>3. IsFiniteSet(0 .. bounding_rect.width - 1)
  BY <1>2, FS_Interval
<1> QED
  BY <1>1, <1>3 DEF Pixels, pasted, Columns

(* The crop has a grey in each of its pixels, and so has what the faces    *)
(* show there.                                                             *)
LEMMA CropSeen ==
  ASSUME TypeOK, CutsInside, Given, pc = "cropped", frame.rows = 1
  PROVE  /\ camera \in [Pixels -> Level]
         /\ \A p \in Pixels : faces[bounding_rect.x + p + 1] \in Level
<1>1. /\ bounding_rect.x \in Int /\ bounding_rect.width \in Nat
      /\ frame.cols \in Nat
  BY CropAssumption DEF TypeOK, Rects
<1>2. 0 <= bounding_rect.x /\ bounding_rect.x + bounding_rect.width <= frame.cols
  BY DEF CutsInside, CutOk, Right
<1>3. \A p \in Pixels : bounding_rect.x + p + 1 \in 1 .. frame.cols
  BY <1>1, <1>2 DEF Pixels
<1>4. picture \in [1 .. frame.cols -> Level] /\ faces \in [1 .. frame.cols -> Level]
  BY DEF Given
<1> QED
  BY <1>3, <1>4 DEF camera

(* The first pass of the feather. *)
LEMMA FeatherOnce ==
  ASSUME TypeOK, Given, Roomy,
         NEW mask \in [Pixels -> Level], OnFaces(mask)
  PROVE  LET rect == Columns(big_rect_face1, 0)
         IN  OnceOff(Blurred(Eroded(mask, rect, feather_amount), rect, feather_amount))
<1> DEFINE rect == Columns(big_rect_face1, 0)
           n == feather_amount
           new == Blurred(Eroded(mask, rect, n), rect, n)
<1>1. /\ Pixels \subseteq Int /\ rect_face1 \in Rects /\ rect_face2 \in Rects
      /\ pasted \subseteq Pixels /\ n \in Nat \ {0} /\ n \in Nat
  BY CropTypes DEF Given
<1>2. /\ \A p \in Pixels : p \notin rect => new[p] = mask[p]
      /\ \A p \in Pixels : p \in rect /\ new[p] # 0 =>
           \/ n % 2 = 1 /\ mask[p] # 0
           \/ n % 2 = 0 /\ p - 1 \in Pixels /\ mask[p - 1] # 0
           \/ \E q \in Pixels : /\ q \notin rect /\ mask[q] # 0
                                /\ q - (n \div 2) <= p /\ p <= q + (n \div 2)
                                /\ n % 2 = 0 => p > q - (n \div 2)
  BY <1>1, FeatherPass
<1>3. \A x \in pasted : \A p, q \in Pixels :
        /\ x - n <= p /\ p <= x + n /\ x - n <= q /\ q <= x + n
        => (p \in rect <=> q \in rect)
  BY <1>1, RoomyReach
<1>4. \A q \in Pixels : mask[q] # 0 => q \in pasted
  BY DEF OnFaces
<1> HIDE DEF new
<1>5. ASSUME NEW p \in Pixels, NEW q \in Pixels, p \in rect, q \notin rect, mask[q] # 0,
             q - (n \div 2) <= p, p <= q + (n \div 2)
      PROVE  FALSE
  <2>1. q \in pasted
    BY <1>4, <1>5
  <2>2. q - n <= p /\ p <= q + n /\ q - n <= q /\ q <= q + n
    BY <1>1, <1>5, HalfOf
  <2> QED
    BY <1>3, <1>5, <2>1, <2>2
<1>6. ASSUME NEW p \in Pixels, new[p] # 0
      PROVE  p \in pasted \/ (n % 2 = 0 /\ p - 1 \in pasted /\ p \in rect)
  <2>1. CASE p \notin rect
    BY <1>2, <1>4, <1>6, <2>1
  <2>2. CASE p \in rect
    BY <1>2, <1>4, <1>5, <1>6, <2>2
  <2> QED
    BY <2>1, <2>2
<1> QED
  BY <1>6 DEF OnceOff, Off, new

(* The second pass. *)
LEMMA FeatherTwice ==
  ASSUME TypeOK, Given, Roomy,
         NEW mask \in [Pixels -> Level], OnceOff(mask)
  PROVE  LET rect == Columns(big_rect_face2, 0)
         IN  TwiceOff(Blurred(Eroded(mask, rect, feather_amount), rect, feather_amount))
<1> DEFINE rect == Columns(big_rect_face2, 0)
           other == Columns(big_rect_face1, 0)
           n == feather_amount
           new == Blurred(Eroded(mask, rect, n), rect, n)
<1>1. /\ Pixels \subseteq Int /\ rect_face1 \in Rects /\ rect_face2 \in Rects
      /\ pasted \subseteq Pixels /\ n \in Nat \ {0} /\ n \in Nat
  BY CropTypes DEF Given
<1>2. /\ \A p \in Pixels : p \notin rect => new[p] = mask[p]
      /\ \A p \in Pixels : p \in rect /\ new[p] # 0 =>
           \/ n % 2 = 1 /\ mask[p] # 0
           \/ n % 2 = 0 /\ p - 1 \in Pixels /\ mask[p - 1] # 0
           \/ \E q \in Pixels : /\ q \notin rect /\ mask[q] # 0
                                /\ q - (n \div 2) <= p /\ p <= q + (n \div 2)
                                /\ n % 2 = 0 => p > q - (n \div 2)
  BY <1>1, FeatherPass
<1>3. \A x \in pasted : \A p, q \in Pixels :
        /\ x - n <= p /\ p <= x + n /\ x - n <= q /\ q <= x + n
        => (p \in rect <=> q \in rect) /\ (p \in other <=> q \in other)
  BY <1>1, RoomyReach
<1>4. \A q \in Pixels : mask[q] # 0 =>
        q \in pasted \/ (n % 2 = 0 /\ q - 1 \in pasted /\ q \in other)
  BY DEF OnceOff, Off
<1> HIDE DEF new, rect, other
<1>5. ASSUME NEW p \in Pixels, NEW q \in Pixels, p \in rect, q \notin rect, mask[q] # 0,
             q - (n \div 2) <= p, p <= q + (n \div 2)
      PROVE  FALSE
  <2>1. CASE q \in pasted
    <3>1. q - n <= p /\ p <= q + n /\ q - n <= q /\ q <= q + n
      BY <1>1, <1>5, HalfOf
    <3> QED
      BY <1>3, <1>5, <2>1, <3>1
  <2>2. CASE n % 2 = 0 /\ q - 1 \in pasted
    <3> DEFINE x == q - 1
    <3>1. x - n <= p /\ p <= x + n /\ x - n <= q /\ q <= x + n
      BY <1>1, <1>5, <2>2, HalfOf
    <3> HIDE DEF x
    <3>2. x \in pasted
      BY <2>2 DEF x
    <3> QED
      BY <1>3, <1>5, <3>1, <3>2
  <2> QED
    BY <1>4, <1>5, <2>1, <2>2
<1>6. ASSUME NEW p \in Pixels, p \in rect, n % 2 = 0, p - 1 \in Pixels, mask[p - 1] # 0
      PROVE  p - 1 \in pasted \/ (p - 2 \in pasted /\ p \in other)
  <2>1. CASE p - 1 \in pasted
    BY <2>1
  <2>2. CASE (p - 1) - 1 \in pasted /\ p - 1 \in other
    <3> DEFINE x == p - 2
    <3>1. p \in Int /\ x = (p - 1) - 1 /\ n >= 2
      BY <1>1, <1>6
    <3>2. x - n <= p /\ p <= x + n /\ x - n <= p - 1 /\ p - 1 <= x + n
      BY <1>1, <3>1
    <3>3. x \in pasted
      BY <2>2, <3>1
    <3> HIDE DEF x
    <3>4. p \in other
      BY <1>3, <1>6, <2>2, <3>2, <3>3
    <3> QED
      BY <3>3, <3>4 DEF x
  <2> QED
    BY <1>4, <1>6, <2>1, <2>2
<1>7. ASSUME NEW p \in Pixels, new[p] # 0
      PROVE  \/ p \in pasted
             \/ n % 2 = 0 /\ p - 1 \in pasted /\ (p \in other \/ p \in rect)
             \/ n % 2 = 0 /\ p - 2 \in pasted /\ p \in other /\ p \in rect
  <2>1. CASE p \notin rect
    BY <1>2, <1>4, <1>7, <2>1
  <2>2. CASE p \in rect
    <3>1. CASE n % 2 = 1 /\ mask[p] # 0
      <4>1. ~(n % 2 = 0)
        BY <3>1
      <4> QED
        BY <1>4, <3>1, <4>1
    <3>2. CASE n % 2 = 0 /\ p - 1 \in Pixels /\ mask[p - 1] # 0
      BY <1>6, <2>2, <3>2
    <3> QED
      BY <1>2, <1>5, <1>7, <2>2, <3>1, <3>2
  <2> QED
    BY <2>1, <2>2
<1> QED
  BY <1>7 DEF TwiceOff, Off, new, rect, other

(* No picture is left, and no mixture of two is brighter or darker. *)
LEMMA Mixed ==
  ASSUME NEW a \in Level, NEW b \in Level
  PROVE  a <= Max({a, b}) /\ a >= Min({a, b}) - 1
<1>1. CASE a <= b
  BY <1>1 DEF Max, Min, Level
<1>2. CASE b <= a
  BY <1>2 DEF Max, Min, Level
<1> QED
  BY <1>1, <1>2 DEF Level

LEMMA BlendInitIInv == SwapInit => BlendIInv
<1> SUFFICES ASSUME SwapInit PROVE BlendIInv
  OBVIOUS
<1>1. stage = "crop" /\ masked = {} /\ refined_masks = NoPixels
  BY DEF SwapInit
<1>2. Given
  BY ScenesAssumption DEF SwapInit, Given
<1>3. Made /\ WeightIsNear /\ ColoursMatch /\ BlendStaysBetween
  BY <1>1 DEF Made, WeightIsNear, ColoursMatch, OrderKept, Matched, BlendStaysBetween
<1> QED
  BY <1>2, <1>3 DEF BlendIInv

(* A step that leaves the rectangles and what is given. *)
LEMMA SameScene ==
  ASSUME UNCHANGED <<vars, givenVars>>
  PROVE  /\ Pixels' = Pixels /\ camera' = camera /\ pasted' = pasted
         /\ frame' = frame /\ pc' = pc
         /\ Given <=> Given'
         /\ Roomy <=> Roomy'
         /\ \A rect, margin : Columns(rect, margin)' = Columns(rect, margin)
         /\ big_rect_face1' = big_rect_face1 /\ big_rect_face2' = big_rect_face2
BY DEF vars, givenVars, Pixels, camera, pasted, Columns, Given, Roomy

LEMMA SameColours ==
  ASSUME UNCHANGED <<vars, givenVars, warped_faces, masked, before>>, ColoursMatch
  PROVE  ColoursMatch'
BY SameScene DEF ColoursMatch, OrderKept, Matched, Cumulated

LEMMA CropStep ==
  ASSUME BlendIInv, CropFaces
  PROVE  BlendIInv'
<1>1. /\ stage = "crop" /\ stage' = "warp" /\ pc' = "cropped" /\ frame' = frame
      /\ UNCHANGED <<feather_amount, picture, faces, refined_masks, masked>>
  BY DEF CropFaces, getCroppedFrame, givenVars
<1>2. Given'
  BY <1>1 DEF BlendIInv, Given
<1>3. masked' = {} /\ refined_masks' = NoPixels
  BY <1>1 DEF BlendIInv, Made
<1>4. Made' /\ WeightIsNear' /\ ColoursMatch' /\ BlendStaysBetween'
  BY <1>1, <1>3 DEF Made, WeightIsNear, ColoursMatch, OrderKept, Matched, BlendStaysBetween
<1> QED
  BY <1>2, <1>4 DEF BlendIInv

LEMMA WarpStep ==
  ASSUME TypeOK, CutsInside, BlendIInv, WarpFaces
  PROVE  BlendIInv'
<1>1. /\ stage = "warp" /\ stage' = "colour1" /\ frame.rows = 1
      /\ UNCHANGED <<vars, givenVars>> /\ masked' = masked
  BY DEF WarpFaces
<1>2. /\ Given /\ pc = "cropped" /\ masked = {}
  BY <1>1 DEF BlendIInv, Made
<1>3. /\ camera \in [Pixels -> Level]
      /\ \A p \in Pixels : faces[bounding_rect.x + p + 1] \in Level
  BY <1>1, <1>2, CropSeen
<1>4. 0 \in Level /\ 255 \in Level
  BY DEF Level
<1>5. /\ refined_masks' \in [Pixels -> Level] /\ warped_faces' \in [Pixels -> Level]
      /\ \A p \in Pixels : refined_masks'[p] # 0 => p \in pasted
      /\ cropped_frame' = [p \in Pixels |-> <<camera[p], camera[p], camera[p]>>]
  BY <1>3, <1>4 DEF WarpFaces
<1>6. Given' /\ Made'
  BY <1>1, <1>2, <1>5, SameScene DEF Made
<1>7. OnFaces(refined_masks)'
  BY <1>1, <1>5, SameScene DEF OnFaces
<1>8. WeightIsNear' /\ ColoursMatch' /\ BlendStaysBetween'
  BY <1>1, <1>2, <1>7 DEF WeightIsNear, ColoursMatch, OrderKept, Matched, BlendStaysBetween
<1> QED
  BY <1>6, <1>8 DEF BlendIInv

(* A correction of colours. *)
LEMMA CorrectStep ==
  ASSUME TypeOK, CutsInside, BlendIInv, NEW mask, mask \subseteq Pixels, Correct(mask),
         \/ stage = "colour1" /\ stage' = "colour2"
         \/ stage = "colour2" /\ stage' = "feather1"
  PROVE  BlendIInv'
<1>1. /\ UNCHANGED <<vars, givenVars>> /\ UNCHANGED <<refined_masks, cropped_frame>>
      /\ warped_faces' = specifiyHistogram(camera, warped_faces, mask)
      /\ masked' = mask /\ before' = warped_faces
  BY DEF Correct
<1>2. /\ Given /\ pc = "cropped" /\ frame.rows = 1
      /\ refined_masks \in [Pixels -> Level] /\ warped_faces \in [Pixels -> Level]
      /\ cropped_frame = [p \in Pixels |-> <<camera[p], camera[p], camera[p]>>]
      /\ OnFaces(refined_masks)
  BY DEF BlendIInv, Made, WeightIsNear
<1>3. camera \in [Pixels -> Level]
  BY <1>2, CropSeen
<1>4. IsFiniteSet(mask)
  BY CropTypes, FS_Subset
<1>5. /\ warped_faces' \in [Pixels -> Level]
      /\ \A p, q \in mask : warped_faces[p] <= warped_faces[q] => warped_faces'[p] <= warped_faces'[q]
      /\ \A p \in mask : \E q \in mask :
           /\ Cumulated(camera, mask, camera[q] - 1) < Cumulated(warped_faces, mask, warped_faces[p])
           /\ Cumulated(warped_faces, mask, warped_faces[p]) <= Cumulated(camera, mask, camera[q])
           /\ camera[q] - 2 <= warped_faces'[p] /\ warped_faces'[p] <= camera[q] + 1
  <2>1. \A p \in mask : camera[p] \in Level
    BY <1>3
  <2> QED
    BY <1>1, <1>2, <1>4, <2>1, MatchedHistogram
<1>6. Given' /\ Made'
  BY <1>1, <1>2, <1>5, SameScene DEF Made
<1>7. OnFaces(refined_masks)'
  BY <1>1, <1>2, SameScene DEF OnFaces
<1>8. OrderKept'
  BY <1>1, <1>5 DEF OrderKept
<1>9. Matched'
  BY <1>1, <1>5, SameScene DEF Matched, Cumulated
<1>10. WeightIsNear' /\ ColoursMatch' /\ BlendStaysBetween'
  BY <1>7, <1>8, <1>9 DEF WeightIsNear, ColoursMatch, BlendStaysBetween
<1> QED
  BY <1>6, <1>10 DEF BlendIInv

(* A pass of the feather. *)
LEMMA FeatherMade ==
  ASSUME TypeOK, BlendIInv, NEW rect, featherMask(rect),
         UNCHANGED <<vars, givenVars, warped_faces, cropped_frame, masked, before>>,
         \/ stage = "feather1" /\ stage' = "feather2"
         \/ stage = "feather2" /\ stage' = "paste"
  PROVE  Given' /\ Made' /\ ColoursMatch' /\ BlendStaysBetween'
<1>1. UNCHANGED <<vars, givenVars>>
  OBVIOUS
<1>2. /\ Given /\ pc = "cropped" /\ frame.rows = 1 /\ masked \subseteq Pixels
      /\ refined_masks \in [Pixels -> Level] /\ warped_faces \in [Pixels -> Level]
      /\ cropped_frame = [p \in Pixels |-> <<camera[p], camera[p], camera[p]>>]
      /\ feather_amount \in Nat \ {0}
  BY DEF BlendIInv, Made, Given
<1>3. refined_masks' \in [Pixels -> Level]
  BY <1>2, CropTypes, FeatherPass DEF featherMask
<1>4. Given' /\ Made'
  BY <1>1, <1>2, <1>3, SameScene DEF Made
<1>5. ColoursMatch'
  BY SameColours DEF BlendIInv
<1>6. BlendStaysBetween'
  BY DEF BlendStaysBetween
<1> QED
  BY <1>4, <1>5, <1>6

LEMMA FeatherStep1 ==
  ASSUME TypeOK, BlendIInv, featherFace1
  PROVE  BlendIInv'
<1>1. /\ stage = "feather1" /\ stage' = "feather2"
      /\ featherMask(Columns(big_rect_face1, 0))
      /\ UNCHANGED <<vars, givenVars, warped_faces, cropped_frame, masked, before>>
  BY DEF featherFace1
<1>2. Given' /\ Made' /\ ColoursMatch' /\ BlendStaysBetween'
  BY <1>1, FeatherMade
<1>3. Given /\ refined_masks \in [Pixels -> Level] /\ OnFaces(refined_masks)
  BY <1>1 DEF BlendIInv, Made, WeightIsNear
<1>4. Roomy => OnceOff(refined_masks')
  BY <1>1, <1>3, FeatherOnce DEF featherMask
<1>5. Roomy' => OnceOff(refined_masks)'
  BY <1>1, <1>4, SameScene DEF OnceOff, Off, givenVars
<1>6. WeightIsNear'
  BY <1>1, <1>5 DEF WeightIsNear
<1> QED
  BY <1>2, <1>6 DEF BlendIInv

LEMMA FeatherStep2 ==
  ASSUME TypeOK, BlendIInv, featherFace2
  PROVE  BlendIInv'
<1>1. /\ stage = "feather2" /\ stage' = "paste"
      /\ featherMask(Columns(big_rect_face2, 0))
      /\ UNCHANGED <<vars, givenVars, warped_faces, cropped_frame, masked, before>>
  BY DEF featherFace2
<1>2. Given' /\ Made' /\ ColoursMatch' /\ BlendStaysBetween'
  BY <1>1, FeatherMade
<1>3. Given /\ refined_masks \in [Pixels -> Level] /\ (Roomy => OnceOff(refined_masks))
  BY <1>1 DEF BlendIInv, Made, WeightIsNear
<1>4. Roomy => TwiceOff(refined_masks')
  BY <1>1, <1>3, FeatherTwice DEF featherMask
<1>5. Roomy' => TwiceOff(refined_masks)'
  BY <1>1, <1>4, SameScene DEF TwiceOff, Off, givenVars
<1>6. WeightIsNear'
  BY <1>1, <1>5 DEF WeightIsNear
<1> QED
  BY <1>2, <1>6 DEF BlendIInv

LEMMA PasteStep ==
  ASSUME TypeOK, CutsInside, BlendIInv, Paste
  PROVE  BlendIInv'
<1>1. /\ stage = "paste" /\ stage' = "done"
      /\ UNCHANGED <<vars, givenVars>>
      /\ UNCHANGED <<refined_masks, warped_faces, masked, before>>
  BY DEF Paste
<1>2. PICK beyond \in {0, 128, 255} : pasteFacesOnFrame(beyond)
  BY DEF Paste
<1>3. /\ Given /\ pc = "cropped" /\ frame.rows = 1 /\ masked \subseteq Pixels
      /\ refined_masks \in [Pixels -> Level] /\ warped_faces \in [Pixels -> Level]
      /\ cropped_frame = [p \in Pixels |-> <<camera[p], camera[p], camera[p]>>]
      /\ (Roomy => TwiceOff(refined_masks))
  BY <1>1 DEF BlendIInv, Made, WeightIsNear
<1>4. camera \in [Pixels -> Level]
  BY <1>3, CropSeen
<1>5. Given' /\ Made'
  BY <1>1, <1>3, SameScene DEF Made
<1>6. WeightIsNear'
  <2>1. Roomy' => TwiceOff(refined_masks)'
    BY <1>1, <1>3, SameScene DEF TwiceOff, Off, givenVars
  <2> QED
    BY <1>1, <2>1 DEF WeightIsNear
<1>7. ColoursMatch'
  BY <1>1, SameColours DEF BlendIInv
<1>8. ASSUME NEW p \in Pixels, NEW c \in 1 .. 3
      PROVE  /\ cropped_frame'[p][c] <= Max({camera[p], warped_faces[p]})
             /\ cropped_frame'[p][c] >= Min({camera[p], warped_faces[p]}) - 1
  <2>1. camera[p] \in Level /\ warped_faces[p] \in Level
    BY <1>3, <1>4
  <2>2. CASE refined_masks[p] = 0
    <3>1. cropped_frame'[p] = <<camera[p], camera[p], camera[p]>>
      BY <1>2, <1>3, <2>2 DEF pasteFacesOnFrame
    <3>2. cropped_frame'[p][c] = camera[p]
      BY <3>1
    <3>3. /\ camera[p] <= Max({camera[p], warped_faces[p]})
          /\ camera[p] >= Min({camera[p], warped_faces[p]}) - 1
      BY <2>1, Mixed
    <3> QED
      BY <3>2, <3>3
  <2>3. CASE refined_masks[p] # 0
    <3> DEFINE weight(x) == IF x \in Pixels THEN refined_masks[x] ELSE beyond
    <3>1. weight(p + c - 1) \in Level
      <4>1. beyond \in Level
        BY <1>2 DEF Level
      <4> QED
        BY <1>3, <4>1
    <3>2. cropped_frame'[p][c] = Blend(weight(p + c - 1), camera[p], warped_faces[p])
      BY <1>2, <2>3 DEF pasteFacesOnFrame
    <3> HIDE DEF weight
    <3> QED
      BY <2>1, <3>1, <3>2, BlendIs
  <2> QED
    BY <2>2, <2>3
<1>9. BlendStaysBetween'
  BY <1>1, <1>8, SameScene DEF BlendStaysBetween
<1> QED
  BY <1>5, <1>6, <1>7, <1>9 DEF BlendIInv

LEMMA BlendStutter ==
  ASSUME BlendIInv, UNCHANGED swapVars
  PROVE  BlendIInv'
<1>1. /\ UNCHANGED <<vars, givenVars, warped_faces, masked, before>>
      /\ UNCHANGED <<refined_masks, cropped_frame, stage>>
  BY DEF swapVars, blendVars
<1>2. Given' /\ Made'
  BY <1>1, SameScene DEF BlendIInv, Made
<1>3. ColoursMatch'
  BY <1>1, SameColours DEF BlendIInv
<1>4. WeightIsNear'
  BY <1>1, SameScene DEF BlendIInv, WeightIsNear, OnFaces, OnceOff, TwiceOff, Off, givenVars
<1>5. BlendStaysBetween'
  BY <1>1, SameScene DEF BlendIInv, BlendStaysBetween
<1> QED
  BY <1>2, <1>3, <1>4, <1>5 DEF BlendIInv

LEMMA BlendIInvStep ==
  TypeOK /\ CutsInside /\ BlendIInv /\ [SwapNext]_swapVars => BlendIInv'
<1> SUFFICES ASSUME TypeOK, CutsInside, BlendIInv, [SwapNext]_swapVars PROVE BlendIInv'
  OBVIOUS
<1>1. CASE colorCorrectFace1
  BY <1>1, CorrectStep DEF colorCorrectFace1, Columns
<1>2. CASE colorCorrectFace2
  BY <1>2, CorrectStep DEF colorCorrectFace2, Columns
<1> QED
  BY <1>1, <1>2, CropStep, WarpStep, FeatherStep1, FeatherStep2, PasteStep, BlendStutter
     DEF SwapNext

LEMMA BlendInvariance == SwapSpec => [](TypeOK /\ CutsInside /\ BlendIInv)
BY BlendInitIInv, BlendIInvStep, SwapCuts, PTL DEF SwapSpec

-----------------------------------------------------------------------------
(* What the swap keeps of the crop: no cut of it leaves its image, and all *)
(* that the frame shows of a face is in it (getCroppedFrame).              *)
THEOREM SwapStaysInside == SwapSpec => [](CutsInside /\ FacesCropped)
BY SwapsCrop, CutsStayInside, FacesAreCropped, PTL

(* What is lighter stays lighter, for every picture and every mask         *)
(* (specifiyHistogram).                                                    *)
THEOREM OrderIsKept == SwapSpec => []OrderKept
<1>1. BlendIInv => OrderKept
  BY DEF BlendIInv, ColoursMatch
<1> QED
  BY <1>1, BlendInvariance, PTL

(* A pixel gets the level of the pixel of its rank, off by two below it    *)
(* and by one above it (specifiyHistogram, colorCorrectFaces).             *)
THEOREM LevelsAreMatched == SwapSpec => []Matched
<1>1. BlendIInv => Matched
  BY DEF BlendIInv, ColoursMatch
<1> QED
  BY <1>1, BlendInvariance, PTL

(* Feathering takes the weight inwards, for every size of the feather that *)
(* the rectangles leave room for (featherMask).                            *)
THEOREM FeatherStays == SwapSpec => []FeatherStaysIn
<1>1. TypeOK /\ BlendIInv => FeatherStaysIn
  <2> SUFFICES ASSUME TypeOK, BlendIInv, Roomy, NEW p \in Weighted
               PROVE  \E q \in pasted :
                        q <= p /\ p <= q + (IF feather_amount % 2 = 1 THEN 0 ELSE Times(p))
    BY DEF FeatherStaysIn
  <2>1. Pixels \subseteq Int /\ pasted \subseteq Pixels
    BY CropTypes
  <2>2. Given /\ Made /\ WeightIsNear /\ feather_amount \in Nat
    BY DEF BlendIInv, Given
  <2>3. stage \notin {"crop", "warp"}
    <3>1. DOMAIN NoPixels = {}
      BY DEF NoPixels
    <3> QED
      BY <2>2, <3>1 DEF Made, Weighted
  <2>4. p \in Pixels /\ refined_masks[p] # 0 /\ p \in Int
    BY <2>1, <2>2, <2>3 DEF Made, Weighted
  <2>5. Times(p) \in Nat
    <3>1. stage \in {"colour1", "colour2", "feather1"} \/ stage = "feather2"
          \/ stage \in {"paste", "done"}
      BY <2>2, <2>3 DEF Made
    <3>2. stage = "feather2" => Times(p) \in {0, 1}
      BY TimesIs
    <3> QED
      BY <3>1, <3>2, TimesIs
  <2>6. ASSUME p \in pasted
        PROVE  \E q \in pasted :
                 q <= p /\ p <= q + (IF feather_amount % 2 = 1 THEN 0 ELSE Times(p))
    <3>1. p <= p /\ p <= p + (IF feather_amount % 2 = 1 THEN 0 ELSE Times(p))
      BY <2>4, <2>5
    <3> QED
      BY <2>6, <3>1
  <2>7. ASSUME Off, NEW x \in {1, 2}, p - x \in pasted, x <= Times(p)
        PROVE  \E q \in pasted :
                 q <= p /\ p <= q + (IF feather_amount % 2 = 1 THEN 0 ELSE Times(p))
    <3>1. p - x <= p /\ p <= (p - x) + Times(p)
      BY <2>4, <2>5, <2>7
    <3>2. feather_amount % 2 # 1
      BY <2>7 DEF Off
    <3> QED
      BY <2>7, <3>1, <3>2
  <2>8. CASE stage \in {"colour1", "colour2", "feather1"}
    BY <2>2, <2>4, <2>6, <2>8 DEF WeightIsNear, OnFaces
  <2>9. CASE stage = "feather2"
    <3>1. p \in Columns(big_rect_face1, 0) => 1 <= Times(p)
      BY <2>9, TimesIs
    <3> QED
      BY <2>2, <2>4, <2>6, <2>7, <2>9, <3>1 DEF WeightIsNear, OnceOff
  <2>10. CASE stage \in {"paste", "done"}
    <3>1. /\ p \in Columns(big_rect_face1, 0) \/ p \in Columns(big_rect_face2, 0) =>
               1 <= Times(p)
          /\ p \in Columns(big_rect_face1, 0) /\ p \in Columns(big_rect_face2, 0) =>
               2 <= Times(p)
      BY <2>5, <2>10, TimesIs
    <3> QED
      BY <2>2, <2>4, <2>6, <2>7, <2>10, <3>1 DEF WeightIsNear, TwiceOff
  <2> QED
    BY <2>2, <2>3, <2>8, <2>9, <2>10 DEF Made
<1> QED
  BY <1>1, BlendInvariance, PTL

(* No channel of a blended pixel is brighter than both pictures, and none  *)
(* is darker than both by more than one (pasteFacesOnFrame).               *)
THEOREM BlendStays == SwapSpec => []BlendStaysBetween
<1>1. BlendIInv => BlendStaysBetween
  BY DEF BlendIInv
<1> QED
  BY <1>1, BlendInvariance, PTL
=============================================================================
