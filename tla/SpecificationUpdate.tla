------------------------- MODULE SpecificationUpdate -------------------------
(***************************************************************************)
(* The one way a specification changes: the pure part of                   *)
(* ErrorBlocksPass::UpdateErrorSpecification.  A function that is not in   *)
(* error_specifications_ has the specification Unknown; the code never     *)
(* stores that value, so the two are not told apart.                       *)
(***************************************************************************)
EXTENDS ConfidenceLattice

(* Mutant: the delta replaces what is inferred so far.                     *)
ConstrainReplacing(current, delta, range) == Intersection(delta, range)

(* The delta, limited to the values the function can return and joined     *)
(* with what is already inferred.                                          *)
ConstrainDelta(current, delta, range) ==
  LET limited == Intersection(delta, range)
  IN IF IsUnknown(current) THEN limited ELSE JoinConfidence(current, limited)

(* A specification that covers the whole return range is weakened.         *)
WeakenBelowRange(delta, range) ==
  IF ~ Equals(delta, range) THEN delta
  ELSE LET lowered == RemoveLowestNonMin(delta)
       IN IF Equals(lowered, range) THEN KeepIfMax(lowered) ELSE lowered

(* Mutant: stored without the last comparison with the return range.       *)
StoreWithoutRangeCheck(current, joined, range) ==
  LET lowered == WeakenBelowRange(joined, range)
  IN IF IsUnknown(lowered) THEN current ELSE lowered

(* What is mapped to the function afterwards: the current specification    *)
(* again when the code returns early.                                      *)
StoredSpecification(current, joined, range) ==
  LET lowered == WeakenBelowRange(joined, range)
  IN IF MaxEquals(joined, range) \/ IsUnknown(lowered) THEN current ELSE lowered

UpdatedSpecification(current, delta, range) ==
  StoredSpecification(current, ConstrainDelta(current, delta, range), range)

(* c claims only values in the range, and leaves some value of it to       *)
(* success.                                                                *)
BelowRange(c, range) == Support(c) \subseteq Gamma[range] /\ Support(c) # Gamma[range]
=============================================================================
