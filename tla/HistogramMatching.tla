-------------------------- MODULE HistogramMatching --------------------------
(***************************************************************************)
(* specifiyHistogram (FaceSwapper.cpp): the target gets the grey levels of *)
(* the source, by the cumulative histograms of the two within a mask.      *)
(*                                                                         *)
(* One channel of the three is modelled: they go through the same steps    *)
(* and never meet.  Both histograms of a call count the pixels of the same *)
(* mask, so the quotients that are compared have the same divisor, and the *)
(* counts are compared instead.  How the search runs in 8 bits is modelled *)
(* in SpecifyHistogram; here is only what it returns.                      *)
(***************************************************************************)
EXTENDS Integers, FiniteSets

Level == 0 .. 255

(* What is left to be searched of the 256 levels. *)
Interval == [l : Level, r : Level]

(* The cumulative histogram of an image within a mask, at a level. *)
Cumulated(image, mask, i) == Cardinality({p \in mask : image[p] <= i})

Middle(i) == (i.l + i.r) \div 2

(* A mutant: the search goes the wrong way. *)
RestAway(needle, haystack, i) ==
  IF needle < haystack[Middle(i)] THEN [i EXCEPT !.l = Middle(i) + 1]
                                  ELSE [i EXCEPT !.r = Middle(i) - 1]

(* A mutant: of the levels that fit the last one is searched, not the first. *)
RestOfLast(needle, haystack, i) ==
  IF needle >= haystack[Middle(i)] THEN [i EXCEPT !.l = Middle(i) + 1]
                                   ELSE [i EXCEPT !.r = Middle(i) - 1]

(* What is left of an interval after the comparison with its middle. *)
Rest(needle, haystack, i) ==
  IF needle > haystack[Middle(i)] THEN [i EXCEPT !.l = Middle(i) + 1]
                                  ELSE [i EXCEPT !.r = Middle(i) - 1]

(* The middle of the last interval that has a rest. *)
binary_search(needle, haystack) ==
  LET search[i \in Interval] ==
        LET rest == Rest(needle, haystack, i)
        IN  IF rest.l < rest.r THEN search[rest] ELSE Middle(i)
  IN  search[[l |-> 0, r |-> 255]]

(* The target that specifiyHistogram leaves. *)
specifiyHistogram(sourceimage, targetimage, mask) ==
  LET source_histogram == [i \in Level |-> Cumulated(sourceimage, mask, i)]
      look_up(i) == binary_search(Cumulated(targetimage, mask, i), source_histogram)
  IN  [p \in DOMAIN targetimage |->
         IF p \in mask THEN look_up(targetimage[p]) ELSE targetimage[p]]
=============================================================================
