------------------------- MODULE MCLatticesTheorems --------------------------
(***************************************************************************)
(* What MCLattices checks of the operators of both lattices, for every     *)
(* kMaxConfidence: the run enumerates their arguments for one.             *)
(***************************************************************************)
EXTENDS MCLattices, SpecificationTheorems

TypeInv ==
  /\ c \in LatticeElementConfidence
  /\ d \in LatticeElementConfidence
  /\ y \in SignLatticeElement

LEMMA TypeCorrect == Spec => []TypeInv
<1>1. Init => TypeInv
  BY UnknownType DEF Init, TypeInv, SignLatticeElement
<1>2. TypeInv /\ [PickFirst \/ PickSecond \/ PickElement]_vars => TypeInv'
  <2> SUFFICES ASSUME TypeInv, [PickFirst \/ PickSecond \/ PickElement]_vars PROVE TypeInv'
    OBVIOUS
  <2>1. CASE PickFirst BY <2>1 DEF TypeInv, PickFirst, Picked
  <2>2. CASE PickSecond BY <2>2 DEF TypeInv, PickSecond, Picked
  <2>3. CASE PickElement BY <2>3 DEF TypeInv, PickElement
  <2>4. CASE UNCHANGED vars BY <2>4 DEF TypeInv, vars
  <2>5. QED BY <2>1, <2>2, <2>3, <2>4
<1>3. QED BY <1>1, <1>2, PTL DEF Spec

(* constraint.cc: the meet matrix, the join matrix and the complement      *)
(* table are encodings of one lattice, the powerset of the signs.          *)
THEOREM TablesAreOneLattice == Spec => []TablesDescribeOneLattice
<1>1. TypeInv => TablesDescribeOneLattice
  <2> SUFFICES ASSUME TypeInv PROVE TablesDescribeOneLattice
    OBVIOUS
  <2>1. x \in SignLatticeElement /\ z \in SignLatticeElement /\ y \in SignLatticeElement
    BY ToSignElementIsSupport DEF TypeInv, x, z
  <2>2. IsLessThan(z, Meet(x, y)) <=> IsLessThan(z, x) /\ IsLessThan(z, y)
    BY <2>1, MeetIsExact, LessIsInclusion
  <2>3. QED
    BY <2>1, <2>2, MeetIsExact, JoinIsExact, DifferenceIsExact DEF TablesDescribeOneLattice
<1>2. QED BY <1>1, TypeCorrect, PTL

(* confidence_lattice.cc against constraint.cc: the signs of a join, an    *)
(* intersection and a difference of confidences are those of the signs,    *)
(* and both comparisons with a return range are equalities of signs.       *)
THEOREM ForgettingCommutes == Spec => []AbstractionIsHomomorphism
<1>1. TypeInv => AbstractionIsHomomorphism
  <2> SUFFICES ASSUME TypeInv PROVE AbstractionIsHomomorphism
    OBVIOUS
  <2> USE DEF TypeInv
  <2>1. \A e \in LatticeElementConfidence : Signs(e) = Support(e)
    BY ToSignElementIsSupport DEF Signs
  <2>2. Signs(JoinConfidence(c, d)) = Signs(c) \cup Signs(d)
    BY <2>1, JoinKeeps
  <2>3. Signs(MeetConfidence(c, d)) = Signs(c) \cap Signs(d)
    BY <2>1, MeetKeeps
  <2>4. Signs(Intersection(c, y)) = Signs(c) \cap Gamma[y]
    BY <2>1, IntersectionKeeps
  <2>5. Signs(DifferenceConfidence(c, d)) = Signs(c) \ Signs(d)
    BY <2>1, DifferenceKeeps
  <2>6. ToSignElement(ToConfidence(y, c.emptyset)) = y
    <3>1. c.emptyset \in Confidence BY DEF LatticeElementConfidence
    <3>2. /\ ToConfidence(y, c.emptyset) \in LatticeElementConfidence
          /\ Support(ToConfidence(y, c.emptyset)) = Gamma[y]
      BY <3>1, ToConfidenceKeeps
    <3>3. QED BY <3>2, ToSignElementIsSupport, GammaIsInjective
  <2>7. Equals(c, y) <=> ToSignElement(c) = y
    BY EqualsIsSupport, ToSignElementIsSupport, GammaIsInjective
  <2>8. MaxEquals(c, y) <=> ToSignElementAbove(c, kMaxConfidence) = y
    <3> DEFINE full == {s \in Sign : c.sign[s] >= kMaxConfidence}
    <3>1. \A s \in Sign : c.sign[s] >= kMaxConfidence <=> c.sign[s] = kMaxConfidence
      BY MaxConfidenceAssumption DEF LatticeElementConfidence, Confidence, kMinConfidence
    <3>2. MaxEquals(c, y) <=> full = Gamma[y]
      BY <3>1, MaxEqualsSigns, GammaOfSigns
    <3>3. /\ ToSignElementAbove(c, kMaxConfidence) \in SignLatticeElement
          /\ Gamma[ToSignElementAbove(c, kMaxConfidence)] = full
      BY JoinOfSignsIsExact DEF ToSignElementAbove
    <3>4. QED BY <3>2, <3>3, GammaIsInjective
  <2>9. QED BY <2>2, <2>3, <2>4, <2>5, <2>6, <2>7, <2>8 DEF AbstractionIsHomomorphism
<1>2. QED BY <1>1, TypeCorrect, PTL

(* error_blocks_pass.cc 1208-1248: updating with one delta again and again *)
(* changes nothing after the second time.                                  *)
THEOREM UpdatesSettle == Spec => []RepeatedUpdateSettles
<1>1. TypeInv => RepeatedUpdateSettles
  BY UpdateSettles DEF TypeInv, RepeatedUpdateSettles
<1>2. QED BY <1>1, TypeCorrect, PTL

(* confidence_lattice.cc, RemoveLowestNonMin: the case analysis over pairs *)
(* removes the least confidence and never the last sign.                   *)
THEOREM LowestIsWhatIsRemoved == Spec => []LowestIsRemoved
<1>1. TypeInv => LowestIsRemoved
  <2> SUFFICES ASSUME TypeInv PROVE LowestIsRemoved
    OBVIOUS
  <2>1. \A s \in Support(c) : c.sign[s] \in Int
    BY MaxConfidenceAssumption
       DEF TypeInv, LatticeElementConfidence, Confidence, kMinConfidence, Support
  <2> DEFINE kept == Support(RemoveLowestNonMin(c))
  <2>2. /\ kept \subseteq Support(c)
        /\ kept = Support(c) => \A s, t \in Support(c) : c.sign[s] = c.sign[t]
        /\ kept # Support(c) =>
             kept # {} /\ \A s \in kept, t \in Support(c) \ kept : c.sign[t] < c.sign[s]
    BY RemoveLowestIsExact DEF TypeInv
  <2> HIDE DEF kept
  <2>3. QED BY <2>1, <2>2 DEF LowestIsRemoved, kept
<1>2. QED BY <1>1, TypeCorrect, PTL
=============================================================================
