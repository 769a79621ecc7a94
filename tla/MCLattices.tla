---------------------------- MODULE MCLattices -----------------------------
(***************************************************************************)
(* Enumerates pairs of confidence elements and a sign element, picking one *)
(* of the three at a time, and checks the operators of both lattices.      *)
(***************************************************************************)
EXTENDS SpecificationUpdate

VARIABLES c, d, y

vars == <<c, d, y>>

Init == c = Unknown /\ d = Unknown /\ y = "top"

(* Bound: the emptyset confidence, which no operator mixes with the others *)
(* and the code only compares with the two extremes, is one of them.       *)
Picked == {e \in LatticeElementConfidence : e.emptyset \in {kMinConfidence, kMaxConfidence}}

PickFirst == c = Unknown /\ d = Unknown /\ y = "top" /\ c' \in Picked /\ UNCHANGED <<d, y>>

PickSecond == d = Unknown /\ y = "top" /\ d' \in Picked /\ UNCHANGED <<c, y>>

PickElement == y = "top" /\ y' \in SignLatticeElement /\ UNCHANGED <<c, d>>

Spec == Init /\ [][PickFirst \/ PickSecond \/ PickElement]_vars

(***************************************************************************)
(* The sign lattice, on the triple (x, y, z): every triple of elements is  *)
(* that of some state.                                                     *)
(***************************************************************************)
x == ToSignElement(c)
z == ToSignElement(d)

(* The meet matrix, the join matrix with its decoding map, and the         *)
(* complement table of constraint.cc are three encodings of one lattice,   *)
(* the powerset of the three signs: they agree on every element, and the   *)
(* order read off the join rows is the one of which Meet, built from the   *)
(* other table, is the greatest lower bound.                               *)
TablesDescribeOneLattice ==
  /\ {Meet(x, y), Join(x, y), Difference(x, y)} \subseteq SignLatticeElement
  /\ Gamma[Meet(x, y)] = Gamma[x] \cap Gamma[y]
  /\ Gamma[Join(x, y)] = Gamma[x] \cup Gamma[y]
  /\ Gamma[Difference(x, y)] = Gamma[x] \ Gamma[y]
  /\ IsLessThan(z, Meet(x, y)) <=> IsLessThan(z, x) /\ IsLessThan(z, y)

(***************************************************************************)
(* The confidence lattice.                                                 *)
(***************************************************************************)
Signs(e) == Gamma[ToSignElement(e)]

(* Forgetting the confidences commutes with the operations: the signs of a *)
(* join, an intersection and a difference are the union, intersection and  *)
(* difference of the signs, and no information is lost on the way to a     *)
(* confidence element and back (confidence_lattice.cc against              *)
(* constraint.cc, two implementations of one order).  The two comparisons  *)
(* UpdateErrorSpecification makes with the return range, written sign by   *)
(* sign in the code, are equality of the abstracted elements, with no      *)
(* threshold and with the threshold kMaxConfidence.                        *)
AbstractionIsHomomorphism ==
  /\ Signs(JoinConfidence(c, d)) = Signs(c) \cup Signs(d)
  /\ Signs(MeetConfidence(c, d)) = Signs(c) \cap Signs(d)
  /\ Signs(Intersection(c, y)) = Signs(c) \cap Gamma[y]
  /\ Signs(DifferenceConfidence(c, d)) = Signs(c) \ Signs(d)
  /\ ToSignElement(ToConfidence(y, c.emptyset)) = y
  /\ Equals(c, y) <=> ToSignElement(c) = y
  /\ MaxEquals(c, y) <=> ToSignElementAbove(c, kMaxConfidence) = y

(* Updating again and again with one delta settles: the weakening can undo *)
(* part of a join, the next update may bring it back, but no later one     *)
(* changes anything.  Without this the fixpoint loop of runOnModule could  *)
(* not be expected to end even for a constant body.                        *)
RepeatedUpdateSettles ==
  LET U(e) == UpdatedSpecification(e, d, y)
  IN BelowRange(c, y) => U(U(U(c))) = U(U(c))

(* RemoveLowestNonMin, a case analysis over all pairs of components in the *)
(* code, keeps exactly what is above the lowest non-zero confidence and    *)
(* never takes the last of the signs away.                                 *)
LowestIsRemoved ==
  LET kept == Support(RemoveLowestNonMin(c))
  IN /\ kept = {} <=> Support(c) = {}
     /\ kept # Support(c) =>
          \A s \in kept, t \in Support(c) \ kept : c.sign[s] > c.sign[t]
     /\ kept = Support(c) => \A s, t \in kept : c.sign[s] = c.sign[t]
=============================================================================
