-------------------------- MODULE ConfidenceLattice --------------------------
(***************************************************************************)
(* The confidence lattice of eesi/src/confidence_lattice.cc: an error      *)
(* specification is a confidence for each sign of a return value and one   *)
(* for the claim that the function returns no error value at all           *)
(* ("emptyset").  confidence_zero_, confidence_less_than_zero_ and         *)
(* confidence_greater_than_zero_ are the function `sign`.                  *)
(***************************************************************************)
EXTENDS SignLattice, Integers, Sequences

CONSTANT kMaxConfidence     \* 100 in the code, which only compares with it

kMinConfidence == 0

ASSUME MaxConfidenceAssumption == kMaxConfidence \in Nat \ {0}

Confidence == kMinConfidence .. kMaxConfidence

LatticeElementConfidence == [sign : [Sign -> Confidence], emptyset : Confidence]

MaxOf(a, b) == IF a >= b THEN a ELSE b
MinOf(a, b) == IF a <= b THEN a ELSE b

Unknown == [sign |-> [s \in Sign |-> kMinConfidence], emptyset |-> kMinConfidence]

Emptyset == [Unknown EXCEPT !.emptyset = kMaxConfidence]

(* Mutant: the confidences are added up, to at most the greatest. *)
JoinAdding(c, d) ==
  [sign |-> [s \in Sign |-> MinOf(c.sign[s] + d.sign[s], kMaxConfidence)],
   emptyset |-> MinOf(c.emptyset, d.emptyset)]

JoinConfidence(c, d) ==
  [sign |-> [s \in Sign |-> MaxOf(c.sign[s], d.sign[s])],
   emptyset |-> MinOf(c.emptyset, d.emptyset)]

MeetConfidence(c, d) ==
  [sign |-> [s \in Sign |-> MinOf(c.sign[s], d.sign[s])],
   emptyset |-> MaxOf(c.emptyset, d.emptyset)]

MaxIn(S) == CHOOSE m \in S : \A n \in S : n <= m
MinIn(S) == CHOOSE m \in S : \A n \in S : n >= m

(* Join and Meet are commutative, associative and idempotent, so folding   *)
(* them over the elements of S in any order gives the componentwise bound. *)
(* JoinOnVector and MeetOnVector, which start from the first element and   *)
(* visit it again, are these on the set of the vector's elements.          *)
JoinAll(S) ==
  [sign |-> [s \in Sign |-> MaxIn({c.sign[s] : c \in S})],
   emptyset |-> MinIn({c.emptyset : c \in S})]

MeetAll(S) ==
  [sign |-> [s \in Sign |-> MinIn({c.sign[s] : c \in S})],
   emptyset |-> MaxIn({c.emptyset : c \in S})]

(* Keeps the components that equal the maximum over all of the vector. *)
KeepHighest(S) ==
  LET highest == MaxIn(UNION {{c.sign[s] : s \in Sign} \cup {c.emptyset} : c \in S})
      keep(values) == IF highest \in values THEN highest ELSE kMinConfidence
  IN [sign |-> [s \in Sign |-> keep({c.sign[s] : c \in S})],
      emptyset |-> keep({c.emptyset : c \in S})]

(* Confidences of the signs element y admits; the others become zero. *)
Intersection(c, y) ==
  [c EXCEPT !.sign = [s \in Sign |-> IF Intersects(y, SignElement(s))
                                     THEN c.sign[s] ELSE kMinConfidence]]

Equals(c, y) ==
  \A s \in Sign : c.sign[s] > kMinConfidence <=> Intersects(y, SignElement(s))

(* Mutant: compares with zero, as Equals does. *)
MaxEqualsNonzero(c, y) == Equals(c, y)

MaxEquals(c, y) ==
  \A s \in Sign : c.sign[s] = kMaxConfidence <=> Intersects(y, SignElement(s))

KeepIfMax(c) ==
  [c EXCEPT !.sign = [s \in Sign |-> IF c.sign[s] = kMaxConfidence
                                     THEN kMaxConfidence ELSE kMinConfidence]]

Support(c) == {s \in Sign : c.sign[s] # kMinConfidence}

(* Mutant: the guard against removing everything dropped. *)
RemoveLowestAlways(c) ==
  [c EXCEPT !.sign = [s \in Sign |-> IF \A t \in Support(c) : c.sign[s] <= c.sign[t]
                                     THEN kMinConfidence ELSE c.sign[s]]]

(* The code's nested comparisons: returns c when its non-zero confidences  *)
(* are one or all equal, else clears every component equal to the minimum. *)
RemoveLowestNonMin(c) ==
  IF \A s, t \in Support(c) : c.sign[s] = c.sign[t]
  THEN c
  ELSE [c EXCEPT !.sign = [s \in Sign |-> IF \A t \in Support(c) : c.sign[s] <= c.sign[t]
                                          THEN kMinConfidence ELSE c.sign[s]]]

(* SignLatticeElementToLatticeElementConfidence *)
ToConfidence(x, empty) ==
  [sign |-> [s \in Sign |-> IF Intersects(x, SignElement(s))
                            THEN kMaxConfidence ELSE kMinConfidence],
   emptyset |-> empty]

(* LatticeElementConfidenceToSignLatticeElement, without and with the      *)
(* threshold: join of the signs whose confidence passes.                   *)
JoinOfSigns(S) ==
  LET elem(s) == IF s \in S THEN SignElement(s) ELSE "bottom"
  IN Join(Join(Join("bottom", elem("zero")), elem("neg")), elem("pos"))

ToSignElement(c) == JoinOfSigns({s \in Sign : c.sign[s] > kMinConfidence})

ToSignElementAbove(c, threshold) == JoinOfSigns({s \in Sign : c.sign[s] >= threshold})

DifferenceConfidence(c, d) ==
  [c EXCEPT !.sign = [s \in Sign |-> IF d.sign[s] = kMinConfidence
                                     THEN c.sign[s] ELSE kMinConfidence]]

GetMax(c) == MaxOf(MaxOf(c.sign["zero"], c.sign["neg"]), c.sign["pos"])

IsEmptyset(c) == c.emptyset = kMaxConfidence

IsUnknown(c) == Support(c) = {} /\ c.emptyset = kMinConfidence

(* ErrorBlocksPass::ShouldSmartDropZero's effect on a specification. *)
DropZero(c) == DifferenceConfidence(c, ToConfidence("0", kMinConfidence))
=============================================================================
