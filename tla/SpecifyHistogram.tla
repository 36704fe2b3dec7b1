-------------------------- MODULE SpecifyHistogram --------------------------
(***************************************************************************)
(* binary_search of specifiyHistogram (FaceSwapper.cpp): for a value of    *)
(* the target's cumulative histogram it looks up the grey level of the     *)
(* source that fits it.  It is an odd binary search: it moves r below m    *)
(* although m may be the answer, keeps l, r and m in 8 bits, and returns   *)
(* the last m whatever the last comparison said.                           *)
(*                                                                         *)
(* A cumulative histogram is monotone, so all a comparison with the needle *)
(* depends on is the first level that is not below it: needle >            *)
(* haystack[i] exactly when i < first.  The last level holds 1 and the     *)
(* needle is at most 1 (both are 0 when the mask is empty), so there is    *)
(* such a level.                                                           *)
(***************************************************************************)
EXTENDS HistogramMatching

VARIABLES
  first,      \* the first level that is not below the needle
  l, r, m,    \* uint8_t; m is uninitialized at first
  at          \* "loop" or "done"

searchVars == <<first, l, r, m, at>>

SearchTypeOK ==
  /\ first \in Level /\ l \in Level /\ r \in Level /\ m \in Level
  /\ at \in {"loop", "done"}

SearchInit ==
  /\ first \in Level
  /\ l = 0 /\ r = 255 /\ m \in Level
  /\ at = "loop"

(* The result of an integer expression stored in a uint8_t. *)
Byte(n) == n % 256

(* A mutant: the comparison is not strict. *)
NeedleNotBelow(i) == i <= first

NeedleAbove(i) == i < first

(* A mutant: an interval of one level is searched too. *)
IterateToo ==
  /\ at = "loop" /\ l <= r
  /\ m' = Byte((l + r) \div 2)
  /\ IF NeedleAbove(m')
     THEN l' = Byte(m' + 1) /\ r' = r
     ELSE r' = Byte(m' - 1) /\ l' = l
  /\ UNCHANGED <<first, at>>

Iterate ==
  /\ at = "loop" /\ l < r
  /\ m' = Byte((l + r) \div 2)
  /\ IF NeedleAbove(m')
     THEN l' = Byte(m' + 1) /\ r' = r
     ELSE r' = Byte(m' - 1) /\ l' = l
  /\ UNCHANGED <<first, at>>

Return ==
  /\ at = "loop" /\ ~(l < r)
  /\ at' = "done"
  /\ UNCHANGED <<first, l, r, m>>

SearchNext == Iterate \/ Return

SearchSpec == SearchInit /\ [][SearchNext]_searchVars

-----------------------------------------------------------------------------
(* Properties. *)

(* The level looked up is off by two at most below and one above: the last *)
(* comparison decides nothing more, and the uninitialized m is never       *)
(* returned.                                                               *)
Close == at = "done" => first - 2 <= m /\ m <= first + 1

(* Every iteration shrinks the interval, so 8-bit arithmetic never wraps:  *)
(* a wrap would keep the search, and the camera worker that runs it and    *)
(* the UI thread that joins the worker, busy for ever.                     *)
Shrinks == [][at' = "loop" => r' - l' < r - l]_searchVars
=============================================================================
