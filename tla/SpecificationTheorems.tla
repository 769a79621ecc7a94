------------------------ MODULE SpecificationTheorems ------------------------
(***************************************************************************)
(* What the operators of both lattices return, and what                    *)
(* UpdateErrorSpecification guarantees, for every kMaxConfidence, every    *)
(* delta and every return range; and, where confidences are none or full,  *)
(* that it only adds what the delta has.                                   *)
(***************************************************************************)
EXTENDS SpecificationUpdate, TLAPS, WellFoundedInduction

(***************************************************************************)
(* The sign lattice: the bit matrices of constraint.cc decode to the signs *)
(* an element stands for.                                                  *)
(***************************************************************************)

LEMMA MeetRows ==
  /\ MeetEncoding["bottom"] = {"bottom"}
  /\ MeetEncoding["<0"] = {"bottom", "<0"}
  /\ MeetEncoding[">0"] = {"bottom", ">0"}
  /\ MeetEncoding["0"] = {"bottom", "0"}
  /\ MeetEncoding["<=0"] = {"bottom", "<0", "0", "<=0"}
  /\ MeetEncoding[">=0"] = {"bottom", ">0", "0", ">=0"}
  /\ MeetEncoding["!=0"] = {"bottom", "<0", ">0", "!=0"}
  /\ MeetEncoding["top"] = SignLatticeElement
BY DEF MeetEncoding, SignLatticeElement

(* An element's own bit is the highest of its row, so no two rows agree.   *)
LEMMA MeetRowsDiffer ==
  \A x, y \in SignLatticeElement : MeetEncoding[x] = MeetEncoding[y] => x = y
BY MeetRows DEF SignLatticeElement

LEMMA DecodeMeetRow ==
  \A x \in SignLatticeElement : Decode(MeetEncoding, MeetEncoding[x]) = x
BY MeetRowsDiffer DEF Decode

LEMMA GammaRows ==
  /\ Gamma["bottom"] = {}
  /\ Gamma["<0"] = {"neg"}
  /\ Gamma[">0"] = {"pos"}
  /\ Gamma["0"] = {"zero"}
  /\ Gamma["<=0"] = {"neg", "zero"}
  /\ Gamma[">=0"] = {"pos", "zero"}
  /\ Gamma["!=0"] = {"neg", "pos"}
  /\ Gamma["top"] = Sign
BY DEF Gamma, SignLatticeElement

(* The common bits of two rows are a row: no lookup of Meet throws.        *)
LEMMA MeetRowExists ==
  ASSUME NEW x \in SignLatticeElement, NEW y \in SignLatticeElement
  PROVE  \E m \in SignLatticeElement :
           /\ MeetEncoding[x] \cap MeetEncoding[y] = MeetEncoding[m]
           /\ Gamma[x] \cap Gamma[y] = Gamma[m]
<1>1. CASE x = "bottom" BY <1>1, MeetRows, GammaRows DEF SignLatticeElement
<1>2. CASE x = "<0" BY <1>2, MeetRows, GammaRows DEF SignLatticeElement, Sign
<1>3. CASE x = ">0" BY <1>3, MeetRows, GammaRows DEF SignLatticeElement, Sign
<1>4. CASE x = "0" BY <1>4, MeetRows, GammaRows DEF SignLatticeElement, Sign
<1>5. CASE x = "<=0" BY <1>5, MeetRows, GammaRows DEF SignLatticeElement, Sign
<1>6. CASE x = ">=0" BY <1>6, MeetRows, GammaRows DEF SignLatticeElement, Sign
<1>7. CASE x = "!=0" BY <1>7, MeetRows, GammaRows DEF SignLatticeElement, Sign
<1>8. CASE x = "top" BY <1>8, MeetRows, GammaRows DEF SignLatticeElement, Sign
<1>9. QED BY <1>1, <1>2, <1>3, <1>4, <1>5, <1>6, <1>7, <1>8 DEF SignLatticeElement

(* Meet is defined everywhere and keeps exactly the signs both admit.      *)
THEOREM MeetIsExact ==
  ASSUME NEW x \in SignLatticeElement, NEW y \in SignLatticeElement
  PROVE  /\ Meet(x, y) \in SignLatticeElement
         /\ Gamma[Meet(x, y)] = Gamma[x] \cap Gamma[y]
<1>1. PICK m \in SignLatticeElement :
         /\ MeetEncoding[x] \cap MeetEncoding[y] = MeetEncoding[m]
         /\ Gamma[x] \cap Gamma[y] = Gamma[m]
  BY MeetRowExists
<1>2. Meet(x, y) = m BY <1>1, DecodeMeetRow DEF Meet
<1>3. QED BY <1>1, <1>2

LEMMA OnlyBottomIsEmpty ==
  \A x \in SignLatticeElement : Gamma[x] = {} <=> x = "bottom"
BY GammaRows DEF SignLatticeElement, Sign

(* Intersects, with which confidence_lattice.cc asks about each sign, is   *)
(* membership of that sign.                                                *)
THEOREM IntersectsIsMembership ==
  ASSUME NEW x \in SignLatticeElement, NEW s \in Sign
  PROVE  Intersects(x, SignElement(s)) <=> s \in Gamma[x]
<1>1. SignElement(s) \in SignLatticeElement BY DEF SignElement, Sign, SignLatticeElement
<1>2. Gamma[SignElement(s)] = {s} BY GammaRows DEF SignElement, Sign
<1>3. /\ Meet(x, SignElement(s)) \in SignLatticeElement
      /\ Gamma[Meet(x, SignElement(s))] = Gamma[x] \cap {s}
  BY <1>1, <1>2, MeetIsExact
<1>4. QED BY <1>3, OnlyBottomIsEmpty DEF Intersects, IsBottom

LEMMA JoinRows ==
  /\ JoinEncoding["bottom"] = SignLatticeElement
  /\ JoinEncoding["<0"] = {"<0", "<=0", "!=0", "top"}
  /\ JoinEncoding[">0"] = {">0", ">=0", "!=0", "top"}
  /\ JoinEncoding["0"] = {"0", "<=0", ">=0", "top"}
  /\ JoinEncoding["<=0"] = {"<=0", "top"}
  /\ JoinEncoding[">=0"] = {">=0", "top"}
  /\ JoinEncoding["!=0"] = {"!=0", "top"}
  /\ JoinEncoding["top"] = {"top"}
BY DEF JoinEncoding, SignLatticeElement

LEMMA JoinRowsDiffer ==
  \A x, y \in SignLatticeElement : JoinEncoding[x] = JoinEncoding[y] => x = y
BY JoinRows DEF SignLatticeElement

LEMMA DecodeJoinRow ==
  \A x \in SignLatticeElement : Decode(JoinEncoding, JoinEncoding[x]) = x
BY JoinRowsDiffer DEF Decode

(* The common bits of two join rows are the row of the union of the signs. *)
LEMMA JoinRowExists ==
  ASSUME NEW x \in SignLatticeElement, NEW y \in SignLatticeElement
  PROVE  \E j \in SignLatticeElement :
           /\ JoinEncoding[x] \cap JoinEncoding[y] = JoinEncoding[j]
           /\ Gamma[x] \cup Gamma[y] = Gamma[j]
<1>1. CASE x = "bottom" BY <1>1, JoinRows, GammaRows DEF SignLatticeElement
<1>2. CASE x = "<0" BY <1>2, JoinRows, GammaRows DEF SignLatticeElement, Sign
<1>3. CASE x = ">0" BY <1>3, JoinRows, GammaRows DEF SignLatticeElement, Sign
<1>4. CASE x = "0" BY <1>4, JoinRows, GammaRows DEF SignLatticeElement, Sign
<1>5. CASE x = "<=0" BY <1>5, JoinRows, GammaRows DEF SignLatticeElement, Sign
<1>6. CASE x = ">=0" BY <1>6, JoinRows, GammaRows DEF SignLatticeElement, Sign
<1>7. CASE x = "!=0" BY <1>7, JoinRows, GammaRows DEF SignLatticeElement, Sign
<1>8. CASE x = "top" BY <1>8, JoinRows, GammaRows DEF SignLatticeElement, Sign
<1>9. QED BY <1>1, <1>2, <1>3, <1>4, <1>5, <1>6, <1>7, <1>8 DEF SignLatticeElement

(* Join is defined everywhere and loses no precision.                      *)
THEOREM JoinIsExact ==
  ASSUME NEW x \in SignLatticeElement, NEW y \in SignLatticeElement
  PROVE  /\ Join(x, y) \in SignLatticeElement
         /\ Gamma[Join(x, y)] = Gamma[x] \cup Gamma[y]
<1>1. PICK j \in SignLatticeElement :
         /\ JoinEncoding[x] \cap JoinEncoding[y] = JoinEncoding[j]
         /\ Gamma[x] \cup Gamma[y] = Gamma[j]
  BY JoinRowExists
<1>2. Join(x, y) = j BY <1>1, DecodeJoinRow DEF Join
<1>3. QED BY <1>1, <1>2

(* Two elements of the same meaning are one. *)
LEMMA GammaIsInjective ==
  \A x, y \in SignLatticeElement : Gamma[x] = Gamma[y] => x = y
<1>1. SUFFICES ASSUME NEW x \in SignLatticeElement, NEW y \in SignLatticeElement,
                      Gamma[x] = Gamma[y]
               PROVE  x = y
  OBVIOUS
<1>2. \A s \in Sign : s \in Gamma[x] <=> s \in Gamma[y]
  BY <1>1
<1>3. QED BY <1>2, GammaRows DEF SignLatticeElement, Sign

(* Every sign is either in an element or in its complement.                *)
LEMMA ComplementIsExact ==
  ASSUME NEW x \in SignLatticeElement
  PROVE  Complement(x) \in SignLatticeElement /\ Gamma[Complement(x)] = Sign \ Gamma[x]
BY GammaRows DEF Complement, SignLatticeElement, Sign

LEMMA GammaOfSigns == \A y \in SignLatticeElement : Gamma[y] \subseteq Sign
BY GammaRows DEF SignLatticeElement, Sign

(* Difference, built from the complement table and the meet matrix, keeps  *)
(* exactly the signs of the first that the second has not.                 *)
THEOREM DifferenceIsExact ==
  ASSUME NEW x \in SignLatticeElement, NEW y \in SignLatticeElement
  PROVE  /\ Difference(x, y) \in SignLatticeElement
         /\ Gamma[Difference(x, y)] = Gamma[x] \ Gamma[y]
<1>1. Complement(y) \in SignLatticeElement /\ Gamma[Complement(y)] = Sign \ Gamma[y]
  BY ComplementIsExact
<1>2. QED BY <1>1, MeetIsExact, GammaOfSigns DEF Difference

(* The order read off the join rows is inclusion of what is stood for.     *)
THEOREM LessIsInclusion ==
  ASSUME NEW x \in SignLatticeElement, NEW y \in SignLatticeElement
  PROVE  IsLessThan(x, y) <=> Gamma[x] \subseteq Gamma[y]
<1>1. CASE x \in {"bottom", "<0", ">0", "0"}
  BY <1>1, JoinRows, GammaRows DEF IsLessThan, SignLatticeElement, Sign
<1>2. CASE x \in {"<=0", ">=0", "!=0", "top"}
  BY <1>2, JoinRows, GammaRows DEF IsLessThan, SignLatticeElement, Sign
<1>3. QED BY <1>1, <1>2 DEF SignLatticeElement

(***************************************************************************)
(* The confidence lattice and the update.                                  *)
(***************************************************************************)

LEMMA ConfidenceBounds ==
  /\ kMinConfidence \in Confidence /\ kMaxConfidence \in Confidence
  /\ kMinConfidence # kMaxConfidence
  /\ \A a \in Confidence : a > kMinConfidence <=> a # kMinConfidence
BY MaxConfidenceAssumption DEF Confidence, kMinConfidence

LEMMA LeastNatural ==
  ASSUME NEW S \in SUBSET Nat, S # {}
  PROVE  \E m \in S : \A n \in S : m <= n
<1>1. PICK m \in S : \A n \in S : <<n, m>> \notin OpToRel(<, Nat)
  BY NatLessThanWellFounded, WFMin
<1>2. \A n \in S : ~ n < m
  BY <1>1 DEF OpToRel
<1>3. QED BY <1>2

LEMMA LeastConfidence ==
  ASSUME NEW S \in SUBSET Confidence, S # {}
  PROVE  MinIn(S) \in S /\ \A n \in S : n >= MinIn(S)
<1>1. S \in SUBSET Nat BY MaxConfidenceAssumption DEF Confidence, kMinConfidence
<1>2. PICK m \in S : \A n \in S : m <= n BY <1>1, LeastNatural
<1>3. \A n \in S : n >= m BY <1>1, <1>2
<1>4. QED BY <1>3 DEF MinIn

(* The greatest of S is the distance of the least of the complements.      *)
LEMMA GreatestConfidence ==
  ASSUME NEW S \in SUBSET Confidence, S # {}
  PROVE  MaxIn(S) \in S /\ \A n \in S : n <= MaxIn(S)
<1> DEFINE T == {kMaxConfidence - n : n \in S}
<1>1. \A n \in S : n \in Nat /\ kMaxConfidence - n \in Nat
  BY MaxConfidenceAssumption DEF Confidence, kMinConfidence
<1>2. T \in SUBSET Nat /\ T # {}
  BY <1>1
<1>3. \E d \in T : \A e \in T : d <= e
  <2> HIDE DEF T
  <2>1. QED BY <1>2, LeastNatural
<1>4. PICK m \in S : \A n \in S : kMaxConfidence - m <= kMaxConfidence - n
  BY <1>3
<1>5. \A n \in S : n <= m
  BY <1>1, <1>4, MaxConfidenceAssumption
<1>6. QED BY <1>5 DEF MaxIn

LEMMA UnknownType == Unknown \in LatticeElementConfidence /\ Support(Unknown) = {}
BY ConfidenceBounds DEF Unknown, LatticeElementConfidence, Support

LEMMA IntersectionKeeps ==
  ASSUME NEW c \in LatticeElementConfidence, NEW y \in SignLatticeElement
  PROVE  /\ Intersection(c, y) \in LatticeElementConfidence
         /\ Support(Intersection(c, y)) = Support(c) \cap Gamma[y]
BY ConfidenceBounds, IntersectsIsMembership
   DEF Intersection, LatticeElementConfidence, Support

LEMMA JoinKeeps ==
  ASSUME NEW c \in LatticeElementConfidence, NEW d \in LatticeElementConfidence
  PROVE  /\ JoinConfidence(c, d) \in LatticeElementConfidence
         /\ Support(JoinConfidence(c, d)) = Support(c) \cup Support(d)
<1>1. \A a, b \in Confidence : /\ MaxOf(a, b) \in Confidence /\ MinOf(a, b) \in Confidence
                               /\ MaxOf(a, b) = kMinConfidence
                                    <=> a = kMinConfidence /\ b = kMinConfidence
  BY MaxConfidenceAssumption DEF Confidence, MaxOf, MinOf, kMinConfidence
<1>2. QED BY <1>1 DEF JoinConfidence, LatticeElementConfidence, Support

(* LatticeElementConfidenceToSignLatticeElement folds the signs that pass: *)
(* what it returns stands for exactly those.                               *)
LEMMA JoinOfSignsIsExact ==
  ASSUME NEW S \in SUBSET Sign
  PROVE  JoinOfSigns(S) \in SignLatticeElement /\ Gamma[JoinOfSigns(S)] = S
<1> DEFINE elem(s) == IF s \in S THEN SignElement(s) ELSE "bottom"
<1>1. \A s \in Sign : elem(s) \in SignLatticeElement /\ Gamma[elem(s)] = S \cap {s}
  BY GammaRows DEF SignElement, Sign, SignLatticeElement
<1>2. /\ elem("zero") \in SignLatticeElement /\ Gamma[elem("zero")] = S \cap {"zero"}
      /\ elem("neg") \in SignLatticeElement /\ Gamma[elem("neg")] = S \cap {"neg"}
      /\ elem("pos") \in SignLatticeElement /\ Gamma[elem("pos")] = S \cap {"pos"}
  BY <1>1 DEF Sign
<1>3. JoinOfSigns(S) = Join(Join(Join("bottom", elem("zero")), elem("neg")), elem("pos"))
  BY DEF JoinOfSigns
<1> HIDE DEF elem
<1>4. "bottom" \in SignLatticeElement /\ Gamma["bottom"] = {}
  BY GammaRows DEF SignLatticeElement
<1>5. /\ Join("bottom", elem("zero")) \in SignLatticeElement
      /\ Gamma[Join("bottom", elem("zero"))] = S \cap {"zero"}
  BY <1>2, <1>4, JoinIsExact
<1>6. /\ Join(Join("bottom", elem("zero")), elem("neg")) \in SignLatticeElement
      /\ Gamma[Join(Join("bottom", elem("zero")), elem("neg"))] = S \cap {"zero", "neg"}
  BY <1>2, <1>5, JoinIsExact
<1>7. /\ JoinOfSigns(S) \in SignLatticeElement
      /\ Gamma[JoinOfSigns(S)] = S \cap {"zero", "neg", "pos"}
  BY <1>2, <1>3, <1>6, JoinIsExact
<1>8. QED BY <1>7 DEF Sign

LEMMA ToSignElementIsSupport ==
  ASSUME NEW c \in LatticeElementConfidence
  PROVE  ToSignElement(c) \in SignLatticeElement /\ Gamma[ToSignElement(c)] = Support(c)
<1>1. {s \in Sign : c.sign[s] > kMinConfidence} = Support(c)
  BY ConfidenceBounds DEF Support, LatticeElementConfidence
<1>2. Support(c) \in SUBSET Sign
  BY DEF Support
<1>3. QED BY <1>1, <1>2, JoinOfSignsIsExact DEF ToSignElement

LEMMA MeetKeeps ==
  ASSUME NEW c \in LatticeElementConfidence, NEW d \in LatticeElementConfidence
  PROVE  /\ MeetConfidence(c, d) \in LatticeElementConfidence
         /\ Support(MeetConfidence(c, d)) = Support(c) \cap Support(d)
<1>1. \A a, b \in Confidence : /\ MaxOf(a, b) \in Confidence /\ MinOf(a, b) \in Confidence
                               /\ MinOf(a, b) = kMinConfidence
                                    <=> a = kMinConfidence \/ b = kMinConfidence
  BY MaxConfidenceAssumption DEF Confidence, MaxOf, MinOf, kMinConfidence
<1>2. QED BY <1>1 DEF MeetConfidence, LatticeElementConfidence, Support

LEMMA DifferenceKeeps ==
  ASSUME NEW c \in LatticeElementConfidence, NEW d \in LatticeElementConfidence
  PROVE  /\ DifferenceConfidence(c, d) \in LatticeElementConfidence
         /\ Support(DifferenceConfidence(c, d)) = Support(c) \ Support(d)
BY ConfidenceBounds DEF DifferenceConfidence, LatticeElementConfidence, Support

LEMMA ToConfidenceKeeps ==
  ASSUME NEW x \in SignLatticeElement, NEW empty \in Confidence
  PROVE  /\ ToConfidence(x, empty) \in LatticeElementConfidence
         /\ Support(ToConfidence(x, empty)) = Gamma[x]
BY ConfidenceBounds, IntersectsIsMembership, GammaOfSigns
   DEF ToConfidence, LatticeElementConfidence, Support

(* The folds over the blocks of a function and over its synonyms.          *)
LEMMA FoldsKeep ==
  ASSUME NEW S \in SUBSET LatticeElementConfidence, S # {}
  PROVE  /\ JoinAll(S) \in LatticeElementConfidence
         /\ MeetAll(S) \in LatticeElementConfidence
         /\ KeepHighest(S) \in LatticeElementConfidence
<1> DEFINE at(s) == {c.sign[s] : c \in S}
           empties == {c.emptyset : c \in S}
           all == UNION {{c.sign[s] : s \in Sign} \cup {c.emptyset} : c \in S}
<1>1. /\ \A s \in Sign : at(s) \in SUBSET Confidence /\ at(s) # {}
      /\ empties \in SUBSET Confidence /\ empties # {}
  BY DEF LatticeElementConfidence
<1>2. /\ \A s \in Sign : MaxIn(at(s)) \in Confidence /\ MinIn(at(s)) \in Confidence
      /\ MaxIn(empties) \in Confidence /\ MinIn(empties) \in Confidence
  <2> HIDE DEF at, empties
  <2>1. QED BY <1>1, LeastConfidence, GreatestConfidence
<1>3. all \in SUBSET Confidence /\ all # {}
  BY DEF LatticeElementConfidence
<1>4. MaxIn(all) \in Confidence
  <2> HIDE DEF all
  <2>1. QED BY <1>3, GreatestConfidence
<1>5. JoinAll(S) \in LatticeElementConfidence /\ MeetAll(S) \in LatticeElementConfidence
  BY <1>2 DEF JoinAll, MeetAll, LatticeElementConfidence
<1>6. KeepHighest(S) \in LatticeElementConfidence
  <2>1. KeepHighest(S) =
          [sign |-> [s \in Sign |-> IF MaxIn(all) \in at(s) THEN MaxIn(all) ELSE kMinConfidence],
           emptyset |-> IF MaxIn(all) \in empties THEN MaxIn(all) ELSE kMinConfidence]
    BY DEF KeepHighest
  <2> HIDE DEF all, at, empties
  <2>2. QED BY <1>4, <2>1, ConfidenceBounds DEF LatticeElementConfidence
<1>7. QED BY <1>5, <1>6

(* Most transfer functions only select among the confidences they are      *)
(* given, the least and the greatest: they stay within any set of levels   *)
(* that has those two.  All confidences are such a set, and so are the two *)
(* alone, the levels of everything that no embedding has scaled.           *)
Levels == {L \in SUBSET Confidence : kMinConfidence \in L /\ kMaxConfidence \in L}

OfLevels(L) == [sign : [Sign -> L], emptyset : L]

Certain == {kMinConfidence, kMaxConfidence}

LEMMA LevelsExist ==
  /\ Confidence \in Levels /\ OfLevels(Confidence) = LatticeElementConfidence
  /\ Certain \in Levels /\ OfLevels(Certain) \subseteq LatticeElementConfidence
BY ConfidenceBounds DEF Levels, OfLevels, Certain, LatticeElementConfidence

LEMMA SelectionsStay ==
  ASSUME NEW L \in Levels, NEW c \in OfLevels(L), NEW d \in OfLevels(L), NEW y
  PROVE  /\ JoinConfidence(c, d) \in OfLevels(L) /\ MeetConfidence(c, d) \in OfLevels(L)
         /\ Intersection(c, y) \in OfLevels(L) /\ DifferenceConfidence(c, d) \in OfLevels(L)
         /\ GetMax(c) \in L
<1>1. \A a, b \in L : MaxOf(a, b) \in L /\ MinOf(a, b) \in L
  BY DEF MaxOf, MinOf
<1>2. kMinConfidence \in L BY DEF Levels
<1>3. GetMax(c) \in L
  BY <1>1 DEF GetMax, OfLevels, Sign
<1>4. QED
  BY <1>1, <1>2, <1>3 DEF JoinConfidence, MeetConfidence, Intersection, DifferenceConfidence, OfLevels

LEMMA ConversionsStay ==
  ASSUME NEW L \in Levels, NEW x, NEW S, NEW a \in L, NEW b \in L
  PROVE  /\ Unknown \in OfLevels(L) /\ Emptyset \in OfLevels(L)
         /\ ToConfidence(x, a) \in OfLevels(L)
         /\ [Unknown EXCEPT !.emptyset = a] \in OfLevels(L)
BY DEF Levels, OfLevels, Unknown, Emptyset, ToConfidence

LEMMA FoldsStay ==
  ASSUME NEW L \in Levels, NEW S \in SUBSET OfLevels(L), S # {}
  PROVE  JoinAll(S) \in OfLevels(L) /\ MeetAll(S) \in OfLevels(L)
<1> DEFINE at(s) == {c.sign[s] : c \in S}
           empties == {c.emptyset : c \in S}
<1>1. /\ \A s \in Sign : at(s) \in SUBSET L /\ at(s) # {}
      /\ empties \in SUBSET L /\ empties # {}
  BY DEF OfLevels
<1>2. L \in SUBSET Confidence BY DEF Levels
<1>3. /\ \A s \in Sign : MaxIn(at(s)) \in L /\ MinIn(at(s)) \in L
      /\ MaxIn(empties) \in L /\ MinIn(empties) \in L
  <2> HIDE DEF at, empties
  <2>1. QED BY <1>1, <1>2, LeastConfidence, GreatestConfidence
<1>4. QED BY <1>3 DEF JoinAll, MeetAll, OfLevels

(* The join of specifications claims the signs of all of them, and no      *)
(* error only if all of them do.                                           *)
LEMMA JoinAllSigns ==
  ASSUME NEW L \in Levels, NEW S \in SUBSET OfLevels(L), S # {}
  PROVE  /\ \A s : s \in Support(JoinAll(S)) <=> \E c \in S : s \in Support(c)
         /\ IsEmptyset(JoinAll(S)) <=> \A c \in S : IsEmptyset(c)
<1> DEFINE at(s) == {c.sign[s] : c \in S}
           empties == {c.emptyset : c \in S}
<1>1. /\ \A s \in Sign : at(s) \in SUBSET Confidence /\ at(s) # {}
      /\ empties \in SUBSET Confidence /\ empties # {}
  BY DEF OfLevels, Levels
<1>2. /\ \A s \in Sign : MaxIn(at(s)) \in at(s) /\ \A a \in at(s) : a <= MaxIn(at(s))
      /\ MinIn(empties) \in empties /\ \A a \in empties : a >= MinIn(empties)
  <2> HIDE DEF at, empties
  <2>1. QED BY <1>1, LeastConfidence, GreatestConfidence
<1>3. \A s \in Sign : MaxIn(at(s)) # kMinConfidence <=> \E a \in at(s) : a # kMinConfidence
  <2> HIDE DEF at
  <2>1. \A a \in Confidence : a >= kMinConfidence /\ a \in Int
    BY MaxConfidenceAssumption DEF Confidence, kMinConfidence
  <2>2. QED BY <1>1, <1>2, <2>1 DEF kMinConfidence
<1>4. MinIn(empties) = kMaxConfidence <=> \A a \in empties : a = kMaxConfidence
  <2> HIDE DEF empties
  <2>1. \A a \in Confidence : a <= kMaxConfidence /\ a \in Int
    BY MaxConfidenceAssumption DEF Confidence, kMinConfidence
  <2>2. QED BY <1>1, <1>2, <2>1, MaxConfidenceAssumption
<1>5. \A s : s \in Support(JoinAll(S)) <=> s \in Sign /\ MaxIn(at(s)) # kMinConfidence
  BY DEF Support, JoinAll
<1>6. \A s : (\E c \in S : s \in Support(c)) <=> s \in Sign /\ \E a \in at(s) : a # kMinConfidence
  BY DEF Support
<1>7. IsEmptyset(JoinAll(S)) <=> MinIn(empties) = kMaxConfidence
  BY DEF IsEmptyset, JoinAll
<1>8. (\A c \in S : IsEmptyset(c)) <=> \A a \in empties : a = kMaxConfidence
  BY DEF IsEmptyset
<1> HIDE DEF at, empties
<1>9. QED BY <1>3, <1>4, <1>5, <1>6, <1>7, <1>8

(* Equals, written sign by sign in the code, compares the abstractions.    *)
LEMMA EqualsIsSupport ==
  ASSUME NEW c \in LatticeElementConfidence, NEW y \in SignLatticeElement
  PROVE  Equals(c, y) <=> Support(c) = Gamma[y]
BY ConfidenceBounds, IntersectsIsMembership, GammaOfSigns
   DEF Equals, LatticeElementConfidence, Support

LEMMA MaxEqualsSigns ==
  ASSUME NEW c \in LatticeElementConfidence, NEW y \in SignLatticeElement
  PROVE  MaxEquals(c, y) <=> \A s \in Sign : c.sign[s] = kMaxConfidence <=> s \in Gamma[y]
BY IntersectsIsMembership DEF MaxEquals

(* RemoveLowestNonMin and KeepIfMax only clear components.                 *)
Cleared(c, d) ==
  /\ d \in LatticeElementConfidence
  /\ \A s \in Sign : d.sign[s] \in {c.sign[s], kMinConfidence}

LEMMA RemoveLowestClears ==
  ASSUME NEW c \in LatticeElementConfidence
  PROVE  Cleared(c, RemoveLowestNonMin(c))
BY ConfidenceBounds DEF RemoveLowestNonMin, Cleared, LatticeElementConfidence

LEMMA KeepIfMaxClears ==
  ASSUME NEW c \in LatticeElementConfidence
  PROVE  /\ Cleared(c, KeepIfMax(c))
         /\ Support(KeepIfMax(c)) = {s \in Sign : c.sign[s] = kMaxConfidence}
BY ConfidenceBounds DEF KeepIfMax, Cleared, LatticeElementConfidence, Support

LEMMA ClearedSupport ==
  ASSUME NEW c \in LatticeElementConfidence, NEW d, Cleared(c, d)
  PROVE  Support(d) \subseteq Support(c)
BY DEF Cleared, Support

(* What is joined with the current specification lies in the return range. *)
LEMMA ConstrainedDelta ==
  ASSUME NEW current \in LatticeElementConfidence, NEW delta \in LatticeElementConfidence,
         NEW range \in SignLatticeElement, Support(current) \subseteq Gamma[range]
  PROVE  /\ ConstrainDelta(current, delta, range) \in LatticeElementConfidence
         /\ Support(ConstrainDelta(current, delta, range)) \subseteq Gamma[range]
         /\ Support(current) \subseteq Support(ConstrainDelta(current, delta, range))
<1>1. /\ Intersection(delta, range) \in LatticeElementConfidence
      /\ Support(Intersection(delta, range)) \subseteq Gamma[range]
  BY IntersectionKeeps
<1>2. CASE IsUnknown(current)
  BY <1>1, <1>2 DEF ConstrainDelta, IsUnknown
<1>3. CASE ~ IsUnknown(current)
  BY <1>1, <1>3, JoinKeeps DEF ConstrainDelta
<1>4. QED BY <1>2, <1>3

(* The weakening ends strictly below the range, unless the whole range was *)
(* claimed with full confidence to begin with.                             *)
LEMMA WeakenedBelow ==
  ASSUME NEW joined \in LatticeElementConfidence, NEW range \in SignLatticeElement,
         Support(joined) \subseteq Gamma[range], ~ MaxEquals(joined, range)
  PROVE  /\ WeakenBelowRange(joined, range) \in LatticeElementConfidence
         /\ BelowRange(WeakenBelowRange(joined, range), range)
<1> DEFINE lowered == RemoveLowestNonMin(joined)
           kept    == KeepIfMax(lowered)
<1>1. CASE ~ Equals(joined, range)
  BY <1>1, EqualsIsSupport DEF WeakenBelowRange, BelowRange
<1>2. CASE Equals(joined, range)
  <2>1. lowered \in LatticeElementConfidence /\ Cleared(joined, lowered)
    BY RemoveLowestClears DEF Cleared
  <2>2. Support(lowered) \subseteq Gamma[range]
    BY <2>1, ClearedSupport
  <2>3. CASE ~ Equals(lowered, range)
    BY <1>2, <2>1, <2>2, <2>3, EqualsIsSupport DEF WeakenBelowRange, BelowRange
  <2>4. CASE Equals(lowered, range)
    <3>1. kept \in LatticeElementConfidence /\ Cleared(lowered, kept)
      BY <2>1, KeepIfMaxClears DEF Cleared
    <3>2. Support(kept) \subseteq Gamma[range]
      BY <2>1, <2>2, <3>1, ClearedSupport
    <3>3. ASSUME Support(kept) = Gamma[range] PROVE FALSE
      <4>1. \A s \in Gamma[range] : lowered.sign[s] = kMaxConfidence
        BY <2>1, <3>3, KeepIfMaxClears
      <4>2. \A s \in Gamma[range] : joined.sign[s] = kMaxConfidence
        BY <2>1, <4>1, ConfidenceBounds, GammaOfSigns DEF Cleared
      <4>3. \A s \in Sign \ Gamma[range] : joined.sign[s] # kMaxConfidence
        BY ConfidenceBounds DEF Support
      <4>4. QED BY <4>2, <4>3, MaxEqualsSigns
    <3>4. WeakenBelowRange(joined, range) = kept
      BY <1>2, <2>4 DEF WeakenBelowRange
    <3>5. QED BY <3>1, <3>2, <3>3, <3>4 DEF BelowRange
  <2>5. QED BY <2>3, <2>4
<1>3. QED BY <1>1, <1>2

LEMMA UpdatedType ==
  ASSUME NEW current \in LatticeElementConfidence, NEW delta \in LatticeElementConfidence,
         NEW range \in SignLatticeElement
  PROVE  UpdatedSpecification(current, delta, range) \in LatticeElementConfidence
<1> DEFINE joined == ConstrainDelta(current, delta, range)
<1>1. joined \in LatticeElementConfidence
  BY IntersectionKeeps, JoinKeeps DEF ConstrainDelta
<1> HIDE DEF joined
<1>2. WeakenBelowRange(joined, range) \in LatticeElementConfidence
  BY <1>1, RemoveLowestClears, KeepIfMaxClears DEF WeakenBelowRange, Cleared
<1>3. QED BY <1>2 DEF UpdatedSpecification, StoredSpecification, joined

(* error_blocks_pass.cc 1208-1248: whatever the delta, a specification     *)
(* strictly below the return range is still so after an update.            *)
THEOREM UpdateStaysBelow ==
  ASSUME NEW current \in LatticeElementConfidence, NEW delta \in LatticeElementConfidence,
         NEW range \in SignLatticeElement, BelowRange(current, range)
  PROVE  /\ UpdatedSpecification(current, delta, range) \in LatticeElementConfidence
         /\ BelowRange(UpdatedSpecification(current, delta, range), range)
<1> DEFINE joined == ConstrainDelta(current, delta, range)
<1>1. joined \in LatticeElementConfidence /\ Support(joined) \subseteq Gamma[range]
  BY ConstrainedDelta DEF BelowRange
<1>2. CASE MaxEquals(joined, range) \/ IsUnknown(WeakenBelowRange(joined, range))
  BY <1>2 DEF UpdatedSpecification, StoredSpecification
<1>3. CASE ~ MaxEquals(joined, range) /\ ~ IsUnknown(WeakenBelowRange(joined, range))
  BY <1>1, <1>3, WeakenedBelow DEF UpdatedSpecification, StoredSpecification
<1>4. QED BY <1>2, <1>3

(***************************************************************************)
(* Updating again with the same delta.                                     *)
(***************************************************************************)

(* RemoveLowestNonMin, a case analysis over all pairs of components in the *)
(* code, clears exactly the least of the non-zero confidences, unless that *)
(* would clear them all.                                                   *)
THEOREM RemoveLowestIsExact ==
  ASSUME NEW c \in LatticeElementConfidence
  PROVE  LET k == RemoveLowestNonMin(c) IN
         /\ k \in LatticeElementConfidence /\ k.emptyset = c.emptyset
         /\ Support(k) \subseteq Support(c)
         /\ \A s \in Support(k) : k.sign[s] = c.sign[s]
         /\ Support(k) = Support(c) =>
              k = c /\ \A s, t \in Support(c) : c.sign[s] = c.sign[t]
         /\ Support(k) # Support(c) =>
              /\ Support(k) # {}
              /\ \A s \in Support(k), t \in Support(c) \ Support(k) : c.sign[t] < c.sign[s]
              /\ \A s \in Support(c), t \in Support(c) \ Support(k) : c.sign[t] <= c.sign[s]
<1> DEFINE k == RemoveLowestNonMin(c)
           values == {c.sign[s] : s \in Support(c)}
<1>1. \A s \in Sign : c.sign[s] \in Int
  BY MaxConfidenceAssumption DEF LatticeElementConfidence, Confidence, kMinConfidence
<1>2. CASE \A s, t \in Support(c) : c.sign[s] = c.sign[t]
  BY <1>2 DEF RemoveLowestNonMin
<1>3. CASE ~ \A s, t \in Support(c) : c.sign[s] = c.sign[t]
  <2>1. k = [c EXCEPT !.sign = [s \in Sign |-> IF \A t \in Support(c) : c.sign[s] <= c.sign[t]
                                               THEN kMinConfidence ELSE c.sign[s]]]
    BY <1>3 DEF RemoveLowestNonMin
  <2>2. /\ k.emptyset = c.emptyset
        /\ \A s \in Sign : k.sign[s] = IF \A t \in Support(c) : c.sign[s] <= c.sign[t]
                                        THEN kMinConfidence ELSE c.sign[s]
    BY <2>1 DEF LatticeElementConfidence
  <2>3. k \in LatticeElementConfidence
    BY RemoveLowestClears DEF Cleared
  <2>4. Support(k) = {s \in Support(c) : \E t \in Support(c) : c.sign[t] < c.sign[s]}
    BY <1>1, <2>2 DEF Support
  <2>5. Support(k) # {}
    <3>1. PICK s, t \in Support(c) : c.sign[s] # c.sign[t]
      BY <1>3
    <3>2. c.sign[s] < c.sign[t] \/ c.sign[t] < c.sign[s]
      BY <1>1, <3>1 DEF Support
    <3>3. QED BY <2>4, <3>2
  <2>6. Support(k) # Support(c)
    <3>1. values \in SUBSET Confidence /\ values # {}
      BY <1>3 DEF LatticeElementConfidence, Support
    <3>2. \E m \in values : \A n \in values : n >= m
      <4> HIDE DEF values
      <4>1. QED BY <3>1, LeastConfidence
    <3>3. PICK t \in Support(c) : \A s \in Support(c) : c.sign[s] >= c.sign[t]
      BY <3>2
    <3>4. t \notin Support(k)
      BY <1>1, <2>4, <3>3 DEF Support
    <3>5. QED BY <3>4
  <2>7. \A s \in Support(k), t \in Support(c) \ Support(k) : c.sign[t] < c.sign[s]
    <3> SUFFICES ASSUME NEW s \in Support(k), NEW t \in Support(c) \ Support(k)
                 PROVE  c.sign[t] < c.sign[s]
      OBVIOUS
    <3>1. PICK u \in Support(c) : c.sign[u] < c.sign[s]
      BY <2>4
    <3>2. ~ c.sign[u] < c.sign[t]
      BY <2>4
    <3>3. s \in Sign /\ t \in Sign /\ u \in Sign
      BY <2>4 DEF Support
    <3>4. QED BY <1>1, <3>1, <3>2, <3>3
  <2>8. /\ Support(k) \subseteq Support(c)
        /\ \A s \in Support(k) : k.sign[s] = c.sign[s]
    BY <2>2, <2>4 DEF Support
  <2>9. \A s \in Support(c), t \in Support(c) \ Support(k) : c.sign[t] <= c.sign[s]
    BY <1>1, <2>4 DEF Support
  <2>10. QED BY <2>2, <2>3, <2>5, <2>6, <2>7, <2>8, <2>9
<1>4. QED BY <1>2, <1>3

(* How a joined specification j is weakened to w: its least confidences    *)
(* cleared, or, where all of them are equal, all of its signs.             *)
IsLowered(j, w) ==
  /\ w.emptyset = j.emptyset
  /\ Support(w) # {} /\ Support(w) \subseteq Support(j) /\ Support(w) # Support(j)
  /\ \A s \in Support(w) : w.sign[s] = j.sign[s]
  /\ \A s \in Support(w), t \in Support(j) \ Support(w) : j.sign[t] < j.sign[s]
  /\ \A s \in Support(j), t \in Support(j) \ Support(w) : j.sign[t] <= j.sign[s]

IsLevelled(j, w) ==
  /\ w.emptyset = j.emptyset /\ Support(w) = {}
  /\ \A s, t \in Support(j) : j.sign[s] = j.sign[t]

LEMMA SameElement ==
  ASSUME NEW c \in LatticeElementConfidence, NEW d \in LatticeElementConfidence,
         \A s \in Sign : c.sign[s] = d.sign[s], c.emptyset = d.emptyset
  PROVE  c = d
<1>1. c.sign = d.sign BY DEF LatticeElementConfidence
<1>2. QED BY <1>1 DEF LatticeElementConfidence

LEMMA WeakenedIsLower ==
  ASSUME NEW j \in LatticeElementConfidence, NEW range \in SignLatticeElement,
         Equals(j, range), ~ MaxEquals(j, range)
  PROVE  LET w == WeakenBelowRange(j, range) IN
         w \in LatticeElementConfidence /\ (IsLowered(j, w) \/ IsLevelled(j, w))
<1> DEFINE lowered == RemoveLowestNonMin(j)
<1>1. Support(j) = Gamma[range] BY EqualsIsSupport
<1>2. lowered \in LatticeElementConfidence BY RemoveLowestIsExact
<1>3. CASE ~ Equals(lowered, range)
  <2>1. WeakenBelowRange(j, range) = lowered BY <1>3 DEF WeakenBelowRange
  <2>2. Support(lowered) # Support(j) BY <1>1, <1>2, <1>3, EqualsIsSupport
  <2>3. IsLowered(j, lowered) BY <2>2, RemoveLowestIsExact DEF IsLowered
  <2>4. QED BY <1>2, <2>1, <2>3
<1>4. CASE Equals(lowered, range)
  <2>1. WeakenBelowRange(j, range) = KeepIfMax(lowered) BY <1>4 DEF WeakenBelowRange
  <2>2. Support(lowered) = Support(j) BY <1>1, <1>2, <1>4, EqualsIsSupport
  <2>3. lowered = j /\ \A s, t \in Support(j) : j.sign[s] = j.sign[t]
    BY <2>2, RemoveLowestIsExact
  <2>4. \A s \in Support(j) : j.sign[s] # kMaxConfidence
    <3> SUFFICES ASSUME NEW s \in Support(j), j.sign[s] = kMaxConfidence PROVE FALSE
      OBVIOUS
    <3>1. \A t \in Sign : j.sign[t] = kMaxConfidence <=> t \in Gamma[range]
      BY <1>1, <2>3, ConfidenceBounds DEF Support
    <3>2. QED BY <3>1, MaxEqualsSigns
  <2>5. \A s \in Sign : j.sign[s] # kMaxConfidence
    BY <2>4, ConfidenceBounds DEF Support
  <2>6. /\ KeepIfMax(j) \in LatticeElementConfidence /\ Support(KeepIfMax(j)) = {}
        /\ KeepIfMax(j).emptyset = j.emptyset
    BY <2>5, KeepIfMaxClears DEF Cleared, KeepIfMax, LatticeElementConfidence
  <2>7. QED BY <2>1, <2>3, <2>6 DEF IsLevelled
<1>5. QED BY <1>3, <1>4

(* The delta of every update is joined as it is limited to the range.      *)
LEMMA ConstrainedJoin ==
  ASSUME NEW e \in LatticeElementConfidence, NEW d \in LatticeElementConfidence,
         NEW range \in SignLatticeElement
  PROVE  LET j == ConstrainDelta(e, d, range)
             l == Intersection(d, range)
         IN /\ j \in LatticeElementConfidence /\ l \in LatticeElementConfidence
            /\ \A s \in Sign : /\ l.sign[s] <= j.sign[s]
                               /\ j.sign[s] = l.sign[s] \/ j.sign[s] = e.sign[s]
            /\ j.emptyset <= l.emptyset
            /\ ~ IsUnknown(e) =>
                 /\ j.emptyset <= e.emptyset
                 /\ j.emptyset = l.emptyset \/ j.emptyset = e.emptyset
                 /\ \A s \in Sign : e.sign[s] <= j.sign[s]
<1> DEFINE l == Intersection(d, range)
<1>1. l \in LatticeElementConfidence BY IntersectionKeeps
<1>2. Confidence \subseteq Int BY MaxConfidenceAssumption DEF Confidence, kMinConfidence
<1> HIDE DEF l
<1>3. CASE IsUnknown(e)
  <2>1. ConstrainDelta(e, d, range) = l BY <1>3 DEF ConstrainDelta, l
  <2>2. l.emptyset \in Int /\ \A s \in Sign : l.sign[s] \in Int
    BY <1>1, <1>2 DEF LatticeElementConfidence
  <2>3. QED BY <1>1, <1>3, <2>1, <2>2 DEF l
<1>4. CASE ~ IsUnknown(e)
  <2>1. ConstrainDelta(e, d, range) = JoinConfidence(e, l) BY <1>4 DEF ConstrainDelta, l
  <2>2. JoinConfidence(e, l) \in LatticeElementConfidence BY <1>1, JoinKeeps
  <2>3. /\ JoinConfidence(e, l).emptyset = MinOf(e.emptyset, l.emptyset)
        /\ \A s \in Sign : JoinConfidence(e, l).sign[s] = MaxOf(e.sign[s], l.sign[s])
    BY DEF JoinConfidence
  <2>4. \A a, b \in Confidence : /\ a <= MaxOf(a, b) /\ b <= MaxOf(a, b)
                                 /\ MaxOf(a, b) \in {a, b} /\ MinOf(a, b) \in {a, b}
                                 /\ MinOf(a, b) <= a /\ MinOf(a, b) <= b
    BY <1>2 DEF MaxOf, MinOf
  <2>5. /\ e.emptyset \in Confidence /\ l.emptyset \in Confidence
        /\ \A s \in Sign : e.sign[s] \in Confidence /\ l.sign[s] \in Confidence
    BY <1>1 DEF LatticeElementConfidence
  <2>6. QED BY <1>1, <2>1, <2>2, <2>3, <2>4, <2>5 DEF l
<1>5. QED BY <1>3, <1>4

(* An update that changes the specification stores the weakened join.      *)
LEMMA ChangedByUpdate ==
  ASSUME NEW e, NEW d, NEW range, UpdatedSpecification(e, d, range) # e
  PROVE  LET j == ConstrainDelta(e, d, range)
             w == UpdatedSpecification(e, d, range)
         IN ~ MaxEquals(j, range) /\ w = WeakenBelowRange(j, range) /\ ~ IsUnknown(w)
BY DEF UpdatedSpecification, StoredSpecification

(* A known specification that already is what its join would be weakened   *)
(* to stays.                                                               *)
LEMMA NothingToUpdate ==
  ASSUME NEW e, NEW d, NEW range,
         WeakenBelowRange(ConstrainDelta(e, d, range), range) = e
  PROVE  UpdatedSpecification(e, d, range) = e
BY DEF UpdatedSpecification, StoredSpecification

(* Updating again and again with one delta settles after two updates: the  *)
(* weakening of the first can undo part of its join, the second may bring  *)
(* that part back and weaken another, and no later one changes anything.   *)
THEOREM UpdateSettles ==
  ASSUME NEW c \in LatticeElementConfidence, NEW d \in LatticeElementConfidence,
         NEW range \in SignLatticeElement
  PROVE  LET U(e) == UpdatedSpecification(e, d, range) IN U(U(U(c))) = U(U(c))
<1> DEFINE U(e) == UpdatedSpecification(e, d, range)
           J(e) == ConstrainDelta(e, d, range)
           W(j) == WeakenBelowRange(j, range)
           l == Intersection(d, range)
<1> HIDE DEF U, J, W, l
<1>1. SUFFICES U(U(U(c))) = U(U(c))
  BY DEF U
<1>type. \A e \in LatticeElementConfidence :
           U(e) \in LatticeElementConfidence /\ J(e) \in LatticeElementConfidence
  BY UpdatedType, ConstrainedJoin DEF U, J
<1>changed. \A e : U(e) # e => ~ MaxEquals(J(e), range) /\ U(e) = W(J(e)) /\ ~ IsUnknown(U(e))
  BY ChangedByUpdate DEF U, J, W
<1>weakened. \A e \in LatticeElementConfidence :
               Equals(J(e), range) /\ ~ MaxEquals(J(e), range)
                 => IsLowered(J(e), W(J(e))) \/ IsLevelled(J(e), W(J(e)))
  BY <1>type, WeakenedIsLower DEF W
<1>below. \A e : ~ Equals(J(e), range) => W(J(e)) = J(e)
  BY DEF W, WeakenBelowRange
<1>settled. \A e : W(J(e)) = e => U(e) = e
  BY NothingToUpdate DEF U, J, W
<1>joined. \A e \in LatticeElementConfidence :
             /\ J(e).emptyset <= l.emptyset
             /\ \A s \in Sign : /\ l.sign[s] <= J(e).sign[s]
                                /\ J(e).sign[s] = l.sign[s] \/ J(e).sign[s] = e.sign[s]
  BY ConstrainedJoin DEF J, l
<1>known. \A e \in LatticeElementConfidence :
            ~ IsUnknown(e) =>
              /\ J(e).emptyset <= e.emptyset
              /\ J(e).emptyset = l.emptyset \/ J(e).emptyset = e.emptyset
              /\ \A s \in Sign : e.sign[s] <= J(e).sign[s]
  BY ConstrainedJoin DEF J, l
<1>numbers. /\ l.emptyset \in Int /\ \A s \in Sign : l.sign[s] \in Int
            /\ \A e \in LatticeElementConfidence :
                 e.emptyset \in Int /\ \A s \in Sign : e.sign[s] \in Int /\ e.sign[s] >= 0
  BY IntersectionKeeps, MaxConfidenceAssumption
     DEF l, LatticeElementConfidence, Confidence, kMinConfidence
(* Joining what is joined already changes nothing. *)
<1>same. ASSUME NEW e \in LatticeElementConfidence, NEW j \in LatticeElementConfidence,
                ~ IsUnknown(e), e.emptyset = j.emptyset, j.emptyset <= l.emptyset,
                \A s \in Sign : /\ l.sign[s] <= j.sign[s]
                                /\ j.sign[s] = l.sign[s] \/ j.sign[s] = e.sign[s]
                                /\ e.sign[s] <= j.sign[s]
         PROVE  J(e) = j
  <2>1. J(e) \in LatticeElementConfidence BY <1>type
  <2>2. J(e).emptyset = j.emptyset
    BY <1>joined, <1>known, <1>numbers, <1>same, <2>1
  <2>3. ASSUME NEW s \in Sign PROVE J(e).sign[s] = j.sign[s]
    <3>1. /\ l.sign[s] <= J(e).sign[s] /\ e.sign[s] <= J(e).sign[s]
          /\ J(e).sign[s] = l.sign[s] \/ J(e).sign[s] = e.sign[s]
      BY <1>joined, <1>known, <1>same
    <3>2. /\ l.sign[s] <= j.sign[s] /\ e.sign[s] <= j.sign[s]
          /\ j.sign[s] = l.sign[s] \/ j.sign[s] = e.sign[s]
      BY <1>same
    <3>3. l.sign[s] \in Int /\ e.sign[s] \in Int BY <1>numbers
    <3>4. QED BY <3>1, <3>2, <3>3
  <2>4. QED BY <1>same, <2>1, <2>2, <2>3, SameElement
<1>stays. ASSUME NEW e \in LatticeElementConfidence, U(e) = J(e), ~ IsUnknown(U(e)),
                 ~ Equals(J(e), range)
          PROVE  U(U(e)) = U(e)
  <2> DEFINE u == U(e)
  <2>u. u \in LatticeElementConfidence BY <1>type
  <2>l. /\ ~ IsUnknown(u) /\ u.emptyset <= l.emptyset
        /\ \A s \in Sign : l.sign[s] <= u.sign[s] /\ u.sign[s] \in Int
    BY <2>u, <1>stays, <1>joined, <1>numbers
  <2> HIDE DEF u
  <2>j. J(u) = u
    BY <2>u, <2>l, <1>same
  <2>1. J(U(e)) = U(e)
    BY <2>j DEF u
  <2>2. W(J(U(e))) = U(e)
    BY <1>below, <1>stays, <2>1
  <2>3. QED BY <1>settled, <2>2
<1>2. CASE U(c) = c
  BY <1>2
<1>3. CASE U(c) # c /\ ~ Equals(J(c), range)
  <2>1. U(c) = J(c) /\ ~ IsUnknown(U(c)) BY <1>3, <1>changed, <1>below
  <2>2. QED BY <1>3, <1>stays, <2>1
<1>4. CASE U(U(c)) = U(c)
  BY <1>4
<1>5. CASE U(c) # c /\ U(U(c)) # U(c) /\ ~ Equals(J(U(c)), range)
  <2>1. U(c) \in LatticeElementConfidence BY <1>type
  <2>2. U(U(c)) = J(U(c)) /\ ~ IsUnknown(U(U(c))) BY <1>5, <1>changed, <1>below
  <2>3. QED BY <1>5, <1>stays, <2>1, <2>2
<1>6. CASE U(c) # c /\ U(U(c)) # U(c) /\ Equals(J(c), range) /\ Equals(J(U(c)), range)
  <2> DEFINE first == U(c)
             second == U(U(c))
             j0 == J(c)
             j1 == J(first)
  <2> HIDE DEF first, second, j0, j1
  <2>1. /\ first \in LatticeElementConfidence /\ second \in LatticeElementConfidence
        /\ j0 \in LatticeElementConfidence /\ j1 \in LatticeElementConfidence
    BY <1>type DEF first, second, j0, j1
  <2>2. /\ ~ IsUnknown(first) /\ ~ IsUnknown(second)
        /\ IsLowered(j0, first) \/ IsLevelled(j0, first)
        /\ IsLowered(j1, second) \/ IsLevelled(j1, second)
        /\ second = W(j1) /\ first # second
    BY <1>6, <1>changed, <1>weakened, <1>type DEF first, second, j0, j1
  <2>3. Support(j0) = Gamma[range] /\ Support(j1) = Gamma[range]
    BY <1>6, <2>1, EqualsIsSupport DEF first, j0, j1
  <2>4. /\ j0.emptyset <= l.emptyset
        /\ \A s \in Sign : l.sign[s] <= j0.sign[s]
    <3>1. c \in LatticeElementConfidence OBVIOUS
    <3>2. QED BY <1>joined, <3>1 DEF j0
  <2>5. /\ j1.emptyset <= l.emptyset /\ j1.emptyset <= first.emptyset
        /\ j1.emptyset = l.emptyset \/ j1.emptyset = first.emptyset
        /\ \A s \in Sign : /\ l.sign[s] <= j1.sign[s]
                           /\ j1.sign[s] = l.sign[s] \/ j1.sign[s] = first.sign[s]
                           /\ first.sign[s] <= j1.sign[s]
    BY <1>joined, <1>known, <2>1, <2>2 DEF j1
  <2>cleared. \A e \in LatticeElementConfidence, s \in Sign : s \notin Support(e) => e.sign[s] = 0
    BY DEF Support, kMinConfidence
  (* What the first update cleared is less than what it kept. *)
  <2>6. ASSUME IsLowered(j0, first)
        PROVE  \E s, t \in Support(j1) :
                 s \in Support(first) /\ j1.sign[t] = l.sign[t] /\ j1.sign[t] < j1.sign[s]
    <3>1. PICK s \in Support(first) : TRUE BY <2>6 DEF IsLowered
    <3>2. PICK t \in Support(j0) \ Support(first) : j0.sign[t] < j0.sign[s]
      BY <2>6, <3>1 DEF IsLowered
    <3>3. first.sign[t] = 0 /\ s \in Sign /\ t \in Sign
      BY <2>cleared, <2>1, <3>1, <3>2 DEF Support
    <3>4. j1.sign[t] # 0
      BY <2>3, <3>2, <3>3 DEF Support, kMinConfidence
    <3>5. j1.sign[t] = l.sign[t] BY <2>5, <3>3, <3>4
    <3>6. first.sign[s] = j0.sign[s] BY <2>6, <3>1 DEF IsLowered
    <3>7. j1.sign[t] < j1.sign[s]
      BY <1>numbers, <2>1, <2>4, <2>5, <3>2, <3>3, <3>5, <3>6
    <3>8. s \in Support(j1) /\ t \in Support(j1)
      BY <2>3, <2>6, <3>1, <3>2 DEF IsLowered
    <3>9. QED BY <3>1, <3>5, <3>7, <3>8
  <2>7. CASE IsLowered(j1, second)
    (* What the second update clears is the limited delta's own. *)
    <3>1. ASSUME NEW t \in Support(j1) \ Support(second) PROVE j1.sign[t] = l.sign[t]
      <4>1. CASE t \notin Support(first)
        <5>1. first.sign[t] = 0 /\ t \in Sign /\ j1.sign[t] # 0
          BY <2>cleared, <2>1, <4>1 DEF Support, kMinConfidence
        <5>2. QED BY <2>5, <5>1
      <4>2. CASE t \in Support(first) /\ IsLowered(j0, first)
        <5>1. PICK u \in Support(j0) \ Support(first) : j0.sign[u] < j0.sign[t]
          BY <4>2 DEF IsLowered
        <5>2. first.sign[u] = 0 /\ t \in Sign /\ u \in Sign /\ first.sign[t] = j0.sign[t]
          BY <2>cleared, <2>1, <4>2, <5>1 DEF Support, IsLowered
        <5>3. j1.sign[u] = l.sign[u] /\ u \in Support(j1)
          BY <2>3, <2>5, <5>1, <5>2 DEF Support, kMinConfidence
        <5>4. j1.sign[u] < j1.sign[t]
          BY <1>numbers, <2>1, <2>4, <2>5, <5>1, <5>2, <5>3
        <5>5. j1.sign[t] <= j1.sign[u] BY <2>7, <5>3 DEF IsLowered
        <5>6. QED BY <1>numbers, <2>1, <5>2, <5>4, <5>5
      <4>3. CASE t \in Support(first) /\ IsLevelled(j0, first)
        BY <4>3 DEF IsLevelled
      <4>4. QED BY <2>2, <4>1, <4>2, <4>3
    <3>2. J(second) = j1
      <4>1. second.emptyset = j1.emptyset BY <2>7 DEF IsLowered
      <4>2. \A s \in Sign : /\ j1.sign[s] = l.sign[s] \/ j1.sign[s] = second.sign[s]
                            /\ second.sign[s] <= j1.sign[s]
        <5> SUFFICES ASSUME NEW s \in Sign
                     PROVE  /\ j1.sign[s] = l.sign[s] \/ j1.sign[s] = second.sign[s]
                            /\ second.sign[s] <= j1.sign[s]
          OBVIOUS
        <5>1. CASE s \in Support(second)
          BY <1>numbers, <2>1, <2>7, <5>1 DEF IsLowered
        <5>2. CASE s \notin Support(second)
          BY <1>numbers, <2>1, <2>cleared, <3>1, <5>2
        <5>3. QED BY <5>1, <5>2
      <4>3. QED BY <1>same, <2>1, <2>2, <2>5, <4>1, <4>2
    <3>3. QED BY <1>settled, <2>2, <3>2 DEF second
  <2>8. CASE IsLevelled(j1, second)
    <3>1. CASE IsLowered(j0, first)
      <4>1. PICK s, t \in Support(j1) : j1.sign[t] < j1.sign[s] BY <2>6, <3>1
      <4>2. j1.sign[s] = j1.sign[t] BY <2>8 DEF IsLevelled
      <4>3. s \in Sign /\ j1.sign[s] \in Int BY <1>numbers, <2>1 DEF Support
      <4>4. QED BY <4>1, <4>2, <4>3
    <3>2. CASE IsLevelled(j0, first)
      <4>1. \A s \in Sign : first.sign[s] = second.sign[s]
        BY <2>1, <2>8, <2>cleared, <3>2 DEF IsLevelled
      <4>2. first.emptyset = second.emptyset
        BY <1>numbers, <2>1, <2>4, <2>5, <2>8, <3>2 DEF IsLevelled
      <4>3. QED BY <2>1, <2>2, <4>1, <4>2, SameElement
    <3>3. QED BY <2>2, <3>1, <3>2
  <2>9. QED BY <2>2, <2>7, <2>8
<1>7. QED BY <1>2, <1>3, <1>4, <1>5, <1>6

(* Where every confidence is none or full, a delta that reaches the whole  *)
(* return range is not stored, so nothing is ever weakened: an update only *)
(* adds signs.                                                             *)
THEOREM CertainUpdateGrows ==
  ASSUME NEW c \in OfLevels(Certain), NEW d \in OfLevels(Certain), NEW range \in SignLatticeElement
  PROVE  LET u == UpdatedSpecification(c, d, range)
         IN /\ u \in OfLevels(Certain) /\ Support(c) \subseteq Support(u)
            /\ ~ IsUnknown(c) => ~ IsUnknown(u)
<1> DEFINE j == ConstrainDelta(c, d, range)
           l == Intersection(d, range)
<1>1. c \in LatticeElementConfidence /\ d \in LatticeElementConfidence
  BY LevelsExist
<1>2. l \in OfLevels(Certain) /\ JoinConfidence(c, l) \in OfLevels(Certain)
  BY SelectionsStay, LevelsExist
<1>3. Support(JoinConfidence(c, l)) = Support(c) \cup Support(l)
  BY <1>1, JoinKeeps, IntersectionKeeps
<1> HIDE DEF l
<1>4. j \in OfLevels(Certain) /\ Support(c) \subseteq Support(j)
  BY <1>2, <1>3 DEF ConstrainDelta, IsUnknown, l
<1> HIDE DEF j
<1>5. j \in LatticeElementConfidence
  BY <1>4, LevelsExist
<1>6. Equals(j, range) => MaxEquals(j, range)
  <2>1. \A s \in Sign : j.sign[s] # kMinConfidence <=> j.sign[s] = kMaxConfidence
    BY <1>4, ConfidenceBounds DEF OfLevels, Certain
  <2>2. QED
    BY <1>5, <2>1, EqualsIsSupport, MaxEqualsSigns, GammaOfSigns DEF Support
<1>7. UpdatedSpecification(c, d, range) \in {c, j}
      /\ (UpdatedSpecification(c, d, range) # c => ~ IsUnknown(UpdatedSpecification(c, d, range)))
  BY <1>6 DEF UpdatedSpecification, StoredSpecification, WeakenBelowRange, j
<1>8. QED BY <1>4, <1>7

(* ... and repeating it with the same delta changes nothing more.          *)
THEOREM CertainUpdateSettles ==
  ASSUME NEW c \in OfLevels(Certain), NEW d \in OfLevels(Certain), NEW range \in SignLatticeElement
  PROVE  LET u == UpdatedSpecification(c, d, range)
         IN UpdatedSpecification(u, d, range) = u
<1> DEFINE u == UpdatedSpecification(c, d, range)
           j == ConstrainDelta(c, d, range)
           l == Intersection(d, range)
<1>1. c \in LatticeElementConfidence /\ d \in LatticeElementConfidence
  BY LevelsExist
<1>2. CASE u = c
  BY <1>2
<1>3. CASE u # c
  <2>1. u = WeakenBelowRange(j, range) /\ ~ MaxEquals(j, range) /\ ~ IsUnknown(u)
    BY <1>3, ChangedByUpdate
  <2>2. u \in OfLevels(Certain)
    BY CertainUpdateGrows
  <2>3. j \in LatticeElementConfidence /\ l \in LatticeElementConfidence
    BY <1>1, ConstrainedJoin, IntersectionKeeps
  <2>4. ~ Equals(j, range)
    <3>1. l \in OfLevels(Certain) /\ JoinConfidence(c, l) \in OfLevels(Certain)
      BY SelectionsStay, LevelsExist
    <3>2. j \in OfLevels(Certain)
      BY <3>1 DEF ConstrainDelta
    <3>3. \A s \in Sign : j.sign[s] # kMinConfidence <=> j.sign[s] = kMaxConfidence
      <4> HIDE DEF j
      <4>1. QED BY <3>2, ConfidenceBounds DEF OfLevels, Certain
    <3> HIDE DEF j
    <3>4. QED
      BY <2>1, <2>3, <3>3, EqualsIsSupport, MaxEqualsSigns, GammaOfSigns DEF Support
  <2>5. u = j
    BY <2>1, <2>4 DEF WeakenBelowRange
  <2>6. ConstrainDelta(u, d, range) = JoinConfidence(j, l)
    BY <2>1, <2>5 DEF ConstrainDelta
  <2>7. /\ j.emptyset <= l.emptyset
        /\ \A s \in Sign : l.sign[s] <= j.sign[s]
    BY <1>1, ConstrainedJoin
  <2>8. JoinConfidence(j, l) = j
    <3> HIDE DEF j, l
    <3>1. /\ j.emptyset \in Int /\ l.emptyset \in Int
          /\ \A s \in Sign : j.sign[s] \in Int /\ l.sign[s] \in Int
      BY <2>3, MaxConfidenceAssumption DEF LatticeElementConfidence, Confidence, kMinConfidence
    <3>2. j = [sign |-> [s \in Sign |-> j.sign[s]], emptyset |-> j.emptyset]
      BY <2>3 DEF LatticeElementConfidence
    <3>3. QED
      BY <2>7, <3>1, <3>2 DEF JoinConfidence, MaxOf, MinOf
  <2>9. WeakenBelowRange(ConstrainDelta(u, d, range), range) = u
    BY <2>1, <2>5, <2>6, <2>8
  <2> HIDE DEF u
  <2>10. UpdatedSpecification(u, d, range) = u BY <2>9, NothingToUpdate
  <2>11. QED BY <2>10 DEF u
<1>4. QED BY <1>2, <1>3

(***************************************************************************)
(* A specification that claims no error claims no sign.                    *)
(***************************************************************************)
Proper(c) == IsEmptyset(c) => Support(c) = {}

LEMMA JoinAllProper ==
  ASSUME NEW L \in Levels, NEW S \in SUBSET OfLevels(L), S # {}, \A c \in S : Proper(c)
  PROVE  Proper(JoinAll(S))
BY JoinAllSigns DEF Proper, Support

(* An update claims nothing that neither the specification nor the delta   *)
(* does.                                                                   *)
LEMMA UpdateAddsNothingElse ==
  ASSUME NEW c \in OfLevels(Certain), NEW d \in OfLevels(Certain), NEW range \in SignLatticeElement
  PROVE  LET u == UpdatedSpecification(c, d, range)
         IN /\ Support(u) \subseteq Support(c) \cup Support(d)
            /\ Proper(c) /\ Proper(d) => Proper(u)
            /\ IsEmptyset(u) => IsEmptyset(c) \/ (IsUnknown(c) /\ IsEmptyset(d))
<1> DEFINE u == UpdatedSpecification(c, d, range)
           j == ConstrainDelta(c, d, range)
           l == Intersection(d, range)
<1>1. /\ c \in LatticeElementConfidence /\ d \in LatticeElementConfidence
      /\ l \in LatticeElementConfidence /\ j \in LatticeElementConfidence
  BY LevelsExist, ConstrainedJoin
<1>2. Support(l) \subseteq Support(d) /\ l.emptyset = d.emptyset
  BY <1>1, IntersectionKeeps DEF Intersection, LatticeElementConfidence
<1>3. CASE u = c
  BY <1>3
<1>4. CASE u # c
  <2>1. u = WeakenBelowRange(j, range) /\ ~ MaxEquals(j, range)
    BY <1>4, ChangedByUpdate
  <2>2. Support(u) \subseteq Support(j) /\ u.emptyset = j.emptyset
    <3>1. CASE ~ Equals(j, range)
      BY <2>1, <3>1 DEF WeakenBelowRange
    <3>2. CASE Equals(j, range)
      <4> HIDE DEF j, u
      <4>1. u \in LatticeElementConfidence /\ (IsLowered(j, u) \/ IsLevelled(j, u))
        BY <1>1, <2>1, <3>2, WeakenedIsLower
      <4>2. QED BY <4>1 DEF IsLowered, IsLevelled
    <3>3. QED BY <3>1, <3>2
  <2>3. CASE IsUnknown(c)
    <3>1. j = l BY <2>3 DEF ConstrainDelta
    <3> HIDE DEF j, l
    <3>2. QED BY <1>2, <2>2, <2>3, <3>1 DEF Proper, IsEmptyset
  <2>4. CASE ~ IsUnknown(c)
    <3>1. j = JoinConfidence(c, l) BY <2>4 DEF ConstrainDelta
    <3> HIDE DEF j, l, u
    <3>2. Support(j) = Support(c) \cup Support(l)
      BY <1>1, <3>1, JoinKeeps
    <3>3. IsEmptyset(j) => IsEmptyset(c) /\ IsEmptyset(l)
      <4>1. j.emptyset = MinOf(c.emptyset, l.emptyset)
        BY <3>1 DEF JoinConfidence
      <4>2. /\ c.emptyset \in Int /\ c.emptyset <= kMaxConfidence
            /\ l.emptyset \in Int /\ l.emptyset <= kMaxConfidence
        BY <1>1, MaxConfidenceAssumption DEF LatticeElementConfidence, Confidence, kMinConfidence
      <4>3. QED BY <4>1, <4>2, MaxConfidenceAssumption DEF MinOf, IsEmptyset
    <3>4. QED BY <1>2, <2>2, <3>2, <3>3 DEF Proper, IsEmptyset, u
  <2>5. QED BY <2>3, <2>4
<1>5. QED BY <1>3, <1>4

(* An emptyset specification stays as long as emptyset is inferred.        *)
LEMMA UpdateKeepsEmptyset ==
  ASSUME NEW c \in OfLevels(Certain), NEW d \in OfLevels(Certain), NEW range \in SignLatticeElement,
         Proper(c), Proper(d), IsEmptyset(c), IsEmptyset(d)
  PROVE  UpdatedSpecification(c, d, range) = c
<1> DEFINE u == UpdatedSpecification(c, d, range)
<1>1. SUFFICES ASSUME u # c PROVE FALSE
  OBVIOUS
<1>2. ~ IsUnknown(u)
  BY <1>1, ChangedByUpdate
<1>3. u \in OfLevels(Certain) /\ Support(u) = {}
  BY CertainUpdateGrows, UpdateAddsNothingElse DEF Proper
<1>4. c \in LatticeElementConfidence /\ u \in LatticeElementConfidence
  BY <1>3, LevelsExist
<1> HIDE DEF u
<1>5. u.emptyset = c.emptyset
  BY <1>2, <1>3 DEF IsUnknown, OfLevels, Certain, IsEmptyset
<1>6. \A s \in Sign : u.sign[s] = c.sign[s]
  BY <1>3 DEF Proper, Support
<1>7. QED BY <1>1, <1>4, <1>5, <1>6, SameElement
=============================================================================
