------------------------- MODULE ConstraintsTheorems -------------------------
(***************************************************************************)
(* What the facts of ReturnConstraintsPass and ReturnRangePass, which are  *)
(* settled when the passes are over (DataflowTheorems), say of every       *)
(* execution: a constraint is true of the result that was tested, what the *)
(* checkers make of it is no false alarm, and the range of a function is   *)
(* true of what it returns.                                                *)
(***************************************************************************)
EXTENDS DataflowTheorems

(***************************************************************************)
(* The constraints along an execution.  A test leaves what the tables say  *)
(* of the number that the comparison was made of.  That this number is the *)
(* result spoken of needs more than the facts of the pass: that nothing    *)
(* has computed the operands of the comparison anew since (dominance), and *)
(* that what is spoken about a callee is its latest result.                *)
(***************************************************************************)
(* The blocks that the entry leads to.                                     *)
IsReachable(body, b) ==
  \A S \in SUBSET DOMAIN body :
    1 \in S /\ (\A p \in S : Successors(Terminator(body[p])) \subseteq S) => b \in S

(* The integers that an operand may be.                                    *)
Numbers(v) == {x.n : x \in Operand(v)}

(* The comparison i, as it was made, is that of what its operands are now. *)
IsCurrent(i) ==
  /\ i.id \in DOMAIN exec.env
  /\ \E x \in Numbers(i.a), y \in Numbers(i.b) :
       exec.env[i.id].n = IF Compare(i, x, y) THEN 1 ELSE 0

ComparisonsInv ==
  \A c \in DOMAIN Code : \A j \in DOMAIN Code[c] :
    Code[c][j].op = "icmp" /\ Precedes(Code, c, j, exec.b, exec.k) => IsCurrent(Code[c][j])

(* The constraints on a callee are about the result that is the latest.    *)
LatestInv ==
  \A v \in DOMAIN exec.env :
    LET source == Definition(Code, exec.env[v].source)
    IN exec.env[v].latest /\ source.op = "call" =>
         exec.about[source.f] \in {Undetermined, exec.env[v].n}

(* Every name holds an integer.                                            *)
NumbersInv == \A v \in DOMAIN exec.env : exec.env[v].n \in Int

AboutDomain == exec.about = [f \in Callees(Code) |-> exec.about[f]]

ResultsInv ==
  Running =>
    IsReachable(Code, exec.b) /\ AboutDomain /\ NumbersInv /\ ComparisonsInv /\ LatestInv

(***************************************************************************)
(* Dominance.                                                              *)
(***************************************************************************)
LEMMA EntryIsNotDominated ==
  ASSUME NEW body, NEW c
  PROVE  ~ Dominates(body, c, 1)
BY DEF Dominates

LEMMA DominanceFlows ==
  ASSUME NEW body, NEW b \in DOMAIN body, NEW d \in Successors(Terminator(body[b])),
         NEW c, c # b, Dominates(body, c, d)
  PROVE  Dominates(body, c, b)
BY DEF Dominates

LEMMA DominanceIsAntisymmetric ==
  ASSUME NEW body, NEW b, NEW c, IsReachable(body, b), Dominates(body, b, c)
  PROVE  ~ Dominates(body, c, b)
<1> SUFFICES ASSUME Dominates(body, c, b) PROVE FALSE
  OBVIOUS
<1>1. PICK S \in SUBSET DOMAIN body :
        1 \in S /\ c \notin S /\ \A p \in S \ {b} : Successors(Terminator(body[p])) \subseteq S
  BY DEF Dominates
<1>2. PICK T \in SUBSET DOMAIN body :
        1 \in T /\ b \notin T /\ \A p \in T \ {c} : Successors(Terminator(body[p])) \subseteq T
  BY DEF Dominates
<1> DEFINE both == S \cap T
<1>3. both \in SUBSET DOMAIN body /\ 1 \in both /\ b \notin both
  BY <1>1, <1>2
<1>4. \A p \in both : Successors(Terminator(body[p])) \subseteq both
  BY <1>1, <1>2
<1> HIDE DEF both
<1>5. QED BY <1>3, <1>4 DEF IsReachable

LEMMA ReachableFlows ==
  ASSUME NEW body, NEW b, IsReachable(body, b), NEW d \in Successors(Terminator(body[b]))
  PROVE  IsReachable(body, d)
BY DEF IsReachable

(* A name is given once: it is defined before when its place is.           *)
LEMMA DefinedInItsPlace ==
  ASSUME NEW body, IsBody(body), NEW c \in DOMAIN body, NEW j \in DOMAIN body[c], NEW b, NEW k,
         IsDefinedBefore(body, body[c][j].id, b, k)
  PROVE  Precedes(body, c, j, b, k)
<1>0. PICK d \in DOMAIN body : \E i \in DOMAIN body[d] :
        body[d][i].id = body[c][j].id /\ Precedes(body, d, i, b, k)
  BY DEF IsDefinedBefore
<1>1. PICK i \in DOMAIN body[d] : body[d][i].id = body[c][j].id /\ Precedes(body, d, i, b, k)
  BY <1>0
<1>2. d = c /\ i = j
  BY <1>1 DEF IsBody
<1>3. QED BY <1>1, <1>2

(***************************************************************************)
(* What AbstractICmp says of a comparison with a constant is true.         *)
(***************************************************************************)
LEMMA SignsOfNumbers ==
  ASSUME NEW n \in Int
  PROVE  /\ n < 0 => SignOf(n) = "neg"
         /\ n = 0 => SignOf(n) = "zero"
         /\ n > 0 => SignOf(n) = "pos"
         /\ SignOf(n) \in Sign
BY DEF SignOf, Sign

LEMMA ZeroRow ==
  ASSUME NEW p \in Predicate, NEW n \in Int
  PROVE  SignOf(n) \in Gamma[PredicateComplement["0"][p][IF Holds(p, n, 0) THEN 1 ELSE 2]]
<1>1. SignOf(n) = IF n < 0 THEN "neg" ELSE IF n = 0 THEN "zero" ELSE "pos"
  BY SignsOfNumbers
<1>2. CASE p = "slt" BY <1>1, <1>2, GammaRows DEF PredicateComplement, Holds
<1>3. CASE p = "sgt" BY <1>1, <1>3, GammaRows DEF PredicateComplement, Holds
<1>4. CASE p = "sle" BY <1>1, <1>4, GammaRows DEF PredicateComplement, Holds
<1>5. CASE p = "sge" BY <1>1, <1>5, GammaRows DEF PredicateComplement, Holds
<1>6. CASE p = "eq" BY <1>1, <1>6, GammaRows DEF PredicateComplement, Holds
<1>7. CASE p = "ne" BY <1>1, <1>7, GammaRows DEF PredicateComplement, Holds
<1>8. QED BY <1>2, <1>3, <1>4, <1>5, <1>6, <1>7 DEF Predicate

LEMMA PositiveRow ==
  ASSUME NEW p \in Predicate, NEW n \in Int, NEW m \in Int, m > 0
  PROVE  SignOf(n) \in Gamma[PredicateComplement[">0"][p][IF Holds(p, n, m) THEN 1 ELSE 2]]
<1>1. SignOf(n) = IF n < 0 THEN "neg" ELSE IF n = 0 THEN "zero" ELSE "pos"
  BY SignsOfNumbers
<1>0. SignOf(n) \in Gamma["top"]
  BY SignsOfNumbers, GammaRows
<1>2. CASE p = "slt" BY <1>0, <1>1, <1>2, GammaRows DEF PredicateComplement, Holds
<1>3. CASE p = "sgt" BY <1>0, <1>1, <1>3, GammaRows DEF PredicateComplement, Holds
<1>4. CASE p = "sle" BY <1>0, <1>1, <1>4, GammaRows DEF PredicateComplement, Holds
<1>5. CASE p = "sge" BY <1>0, <1>1, <1>5, GammaRows DEF PredicateComplement, Holds
<1>6. CASE p = "eq" BY <1>0, <1>1, <1>6, GammaRows DEF PredicateComplement, Holds
<1>7. CASE p = "ne" BY <1>0, <1>1, <1>7, GammaRows DEF PredicateComplement, Holds
<1>8. QED BY <1>2, <1>3, <1>4, <1>5, <1>6, <1>7 DEF Predicate

LEMMA NegativeRow ==
  ASSUME NEW p \in Predicate, NEW n \in Int, NEW m \in Int, m < 0
  PROVE  SignOf(n) \in Gamma[PredicateComplement["<0"][p][IF Holds(p, n, m) THEN 1 ELSE 2]]
<1>1. SignOf(n) = IF n < 0 THEN "neg" ELSE IF n = 0 THEN "zero" ELSE "pos"
  BY SignsOfNumbers
<1>0. SignOf(n) \in Gamma["top"]
  BY SignsOfNumbers, GammaRows
<1>2. CASE p = "slt" BY <1>0, <1>1, <1>2, GammaRows DEF PredicateComplement, Holds
<1>3. CASE p = "sgt" BY <1>0, <1>1, <1>3, GammaRows DEF PredicateComplement, Holds
<1>4. CASE p = "sle" BY <1>0, <1>1, <1>4, GammaRows DEF PredicateComplement, Holds
<1>5. CASE p = "sge" BY <1>0, <1>1, <1>5, GammaRows DEF PredicateComplement, Holds
<1>6. CASE p = "eq" BY <1>0, <1>1, <1>6, GammaRows DEF PredicateComplement, Holds
<1>7. CASE p = "ne" BY <1>0, <1>1, <1>7, GammaRows DEF PredicateComplement, Holds
<1>8. QED BY <1>2, <1>3, <1>4, <1>5, <1>6, <1>7 DEF Predicate

LEMMA SwappedHolds ==
  ASSUME NEW p \in Predicate, NEW x \in Int, NEW y \in Int
  PROVE  SwappedPredicate[p] \in Predicate /\ (Holds(SwappedPredicate[p], y, x) <=> Holds(p, x, y))
<1>1. CASE p = "slt" BY <1>1 DEF SwappedPredicate, Holds, Predicate
<1>2. CASE p = "sgt" BY <1>2 DEF SwappedPredicate, Holds, Predicate
<1>3. CASE p = "sle" BY <1>3 DEF SwappedPredicate, Holds, Predicate
<1>4. CASE p = "sge" BY <1>4 DEF SwappedPredicate, Holds, Predicate
<1>5. CASE p = "eq" BY <1>5 DEF SwappedPredicate, Holds, Predicate
<1>6. CASE p = "ne" BY <1>6 DEF SwappedPredicate, Holds, Predicate
<1>7. QED BY <1>1, <1>2, <1>3, <1>4, <1>5, <1>6 DEF Predicate

LEMMA UnsignedRowHolds ==
  ASSUME NEW x \in SignLatticeElement, NEW n \in Nat, SignOf(n) \in Gamma[x]
  PROVE  SignOf(n) \in Gamma[UnsignedReplacement[x]]
<1>1. SignOf(n) \in {"zero", "pos"}
  BY SignsOfNumbers
<1>2. CASE x \in {"<0", "bottom"} BY <1>1, <1>2, GammaRows
<1>3. CASE x \in {"<=0", "0"} BY <1>1, <1>3, GammaRows DEF UnsignedReplacement, SignLatticeElement
<1>4. CASE x \in {"!=0", ">0"} BY <1>1, <1>4, GammaRows DEF UnsignedReplacement, SignLatticeElement
<1>5. CASE x \in {"top", ">=0"} BY <1>1, <1>5, GammaRows DEF UnsignedReplacement, SignLatticeElement
<1>6. QED BY <1>2, <1>3, <1>4, <1>5 DEF SignLatticeElement

ClassOf(m) == IF m < 0 THEN "<0" ELSE IF m = 0 THEN "0" ELSE ">0"

(* What AbstractICmp makes of a predicate and the sign of a constant.      *)
RowOf(u, c, p) ==
  LET row == PredicateComplement[c][p]
  IN IF u THEN <<UnsignedReplacement[row[1]], UnsignedReplacement[row[2]]>> ELSE row

LEMMA RowTells ==
  ASSUME NEW u \in BOOLEAN, NEW p \in Predicate, NEW n \in Int, NEW m \in Int,
         u => n >= 0 /\ m >= 0
  PROVE  SignOf(n) \in Gamma[RowOf(u, ClassOf(m), p)[IF Holds(p, n, m) THEN 1 ELSE 2]]
<1> DEFINE row == PredicateComplement[ClassOf(m)][p]
           k == IF Holds(p, n, m) THEN 1 ELSE 2
<1>1. ClassOf(m) \in {"0", ">0", "<0"}
  BY DEF ClassOf
<1>2. row[1] \in SignLatticeElement /\ row[2] \in SignLatticeElement
  BY <1>1, ComplementRows
<1>3. SignOf(n) \in Gamma[row[k]]
  <2>1. CASE m < 0
    BY <2>1, NegativeRow DEF ClassOf
  <2>2. CASE m = 0
    BY <2>2, ZeroRow DEF ClassOf
  <2>3. CASE m > 0
    BY <2>3, PositiveRow DEF ClassOf
  <2>4. QED BY <2>1, <2>2, <2>3
<1>4. k \in {1, 2}
  OBVIOUS
<1> HIDE DEF row, k
<1>5. CASE u
  <2>1. n \in Nat
    BY <1>5
  <2>2. SignOf(n) \in Gamma[UnsignedReplacement[row[k]]]
    BY <1>2, <1>3, <1>4, <2>1, UnsignedRowHolds
  <2>3. RowOf(u, ClassOf(m), p)[k] = UnsignedReplacement[row[k]]
    BY <1>4, <1>5 DEF RowOf, row
  <2>4. QED BY <2>2, <2>3 DEF k
<1>6. CASE ~ u
  <2>1. RowOf(u, ClassOf(m), p) = row
    BY <1>6 DEF RowOf, row
  <2>2. QED BY <1>3, <2>1 DEF k
<1>7. QED BY <1>5, <1>6

LEMMA ConstantNumbers ==
  /\ \A c \in Constant : ConstantNumber(c) \in Int
  /\ ConstantNumber("null") = 0
  /\ \A c \in DOMAIN IntegerConstant :
       ConstantNumber(c) = IntegerConstant[c] /\ AbstractInteger(c) = ClassOf(ConstantNumber(c))
<1>1. /\ DOMAIN IntegerConstant = {"-1", "0", "1"}
      /\ IntegerConstant["-1"] = -1 /\ IntegerConstant["0"] = 0 /\ IntegerConstant["1"] = 1
  BY DEF IntegerConstant
<1>2. \A c \in DOMAIN IntegerConstant : ConstantNumber(c) = IntegerConstant[c]
  BY <1>1 DEF ConstantNumber
<1>3. ConstantNumber("null") = 0 /\ ConstantNumber("true") = 1 /\ ConstantNumber("literal") = 1
  BY <1>1 DEF ConstantNumber
<1>4. \A c \in DOMAIN IntegerConstant : AbstractInteger(c) = ClassOf(IntegerConstant[c])
  BY <1>1 DEF AbstractInteger, ClassOf
<1>5. \A c \in Constant : ConstantNumber(c) \in Int
  <2>1. Constant = {"-1", "0", "1", "null", "true", "literal"}
    BY <1>1 DEF Constant
  <2>2. QED BY <1>1, <1>2, <1>3, <2>1
<1>6. QED BY <1>2, <1>3, <1>4, <1>5

(* The numbers x and y that the comparison i was made of.                  *)
IsCompared(i, x, y) ==
  /\ i.p \in Predicate /\ i.u \in BOOLEAN /\ x \in Int /\ y \in Int
  /\ i.a \in Constant => x = ConstantNumber(i.a)
  /\ i.b \in Constant => y = ConstantNumber(i.b)
  /\ i.u => x >= 0 /\ y >= 0
  /\ "null" \in {i.a, i.b} => i.p \in {"eq", "ne"}
  /\ "true" \notin {i.a, i.b}

Outcome(i, x, y) == AbstractICmp(i)[IF Compare(i, x, y) THEN 1 ELSE 2]

LEMMA TopTells == ASSUME NEW n \in Int PROVE SignOf(n) \in Gamma["top"]
BY SignsOfNumbers, GammaRows

LEMMA ComparesNumbers ==
  ASSUME NEW i, NEW x, NEW y, IsCompared(i, x, y)
  PROVE  Compare(i, x, y) <=> Holds(i.p, x, y)
<1>1. CASE i.u
  <2>1. AsUnsigned(x) = x /\ AsUnsigned(y) = y
    BY <1>1 DEF IsCompared, AsUnsigned
  <2>2. QED BY <1>1, <2>1 DEF Compare
<1>2. CASE ~ i.u
  BY <1>2 DEF Compare
<1>3. QED BY <1>1, <1>2

LEMMA LeftIsTold ==
  ASSUME NEW i, NEW x, NEW y, IsCompared(i, x, y), i.a \notin Constant
  PROVE  SignOf(x) \in Gamma[Outcome(i, x, y)]
<1>0. /\ i.p \in Predicate /\ i.u \in BOOLEAN /\ x \in Int /\ y \in Int
      /\ i.u => x >= 0 /\ y >= 0
  BY DEF IsCompared
<1>1. i.a \notin ConstantInt /\ i.a # "null" /\ i.b # "true"
  BY DEF Constant, ConstantInt, IsCompared
<1> DEFINE k == IF Holds(i.p, x, y) THEN 1 ELSE 2
<1>2. Outcome(i, x, y) = AbstractICmp(i)[k]
  BY ComparesNumbers DEF Outcome
<1>3. CASE i.b \in DOMAIN IntegerConstant
  <2>1. i.b # "null" /\ i.b \in Constant /\ i.b \in ConstantInt /\ Signed(i.b) = i.b
    BY <1>3, SignedConstants DEF Constant
  <2>2. AbstractInteger(i.b) = ClassOf(y)
    BY <1>3, <2>1, ConstantNumbers DEF IsCompared
  <2>3. AbstractICmp(i) = RowOf(i.u, ClassOf(y), i.p)
    BY <1>1, <1>3, <2>1, <2>2 DEF AbstractICmp, RowOf
  <2>4. QED BY <1>0, <1>2, <2>3, RowTells
<1>4. CASE i.b = "null"
  <2>1. i.b \notin ConstantInt /\ i.b \in Constant
    BY <1>4, SignedConstants DEF Constant, ConstantInt
  <2>2. y = 0 /\ i.p \in {"eq", "ne"}
    BY <1>4, <2>1, ConstantNumbers DEF IsCompared
  <2>3. SwappedPredicate[i.p] = i.p
    BY <2>2 DEF SwappedPredicate
  <2>4. AbstractICmp(i) = RowOf(i.u, ClassOf(y), i.p)
    <3>1. ClassOf(y) = "0"
      BY <2>2 DEF ClassOf
    <3>2. QED BY <1>1, <1>4, <2>1, <2>3, <3>1 DEF AbstractICmp, RowOf
  <2>5. QED BY <1>0, <1>2, <2>4, RowTells
<1>5. CASE i.b \notin DOMAIN IntegerConstant /\ i.b # "null"
  <2>1. AbstractICmp(i) = <<"top", "top">>
    BY <1>1, <1>5 DEF AbstractICmp, ConstantInt
  <2>2. Outcome(i, x, y) = "top"
    BY <1>2, <2>1
  <2>3. QED BY <1>0, <2>2, TopTells
<1>6. QED BY <1>3, <1>4, <1>5

LEMMA RightIsTold ==
  ASSUME NEW i, NEW x, NEW y, IsCompared(i, x, y), i.b \notin Constant
  PROVE  SignOf(y) \in Gamma[Outcome(i, x, y)]
<1>0. /\ i.p \in Predicate /\ i.u \in BOOLEAN /\ x \in Int /\ y \in Int
      /\ i.u => x >= 0 /\ y >= 0
  BY DEF IsCompared
<1>1. i.b \notin ConstantInt /\ i.b # "null" /\ i.a # "true"
  BY DEF Constant, ConstantInt, IsCompared
<1> DEFINE q == SwappedPredicate[i.p]
           k == IF Holds(q, y, x) THEN 1 ELSE 2
<1>2. q \in Predicate /\ Outcome(i, x, y) = AbstractICmp(i)[k]
  BY <1>0, ComparesNumbers, SwappedHolds DEF Outcome
<1>3. CASE i.a \in DOMAIN IntegerConstant
  <2>1. i.a # "null" /\ i.a \in Constant /\ i.a \in ConstantInt /\ Signed(i.a) = i.a
    BY <1>3, SignedConstants DEF Constant
  <2>2. AbstractInteger(i.a) = ClassOf(x)
    BY <1>3, <2>1, ConstantNumbers DEF IsCompared
  <2>3. AbstractICmp(i) = RowOf(i.u, ClassOf(x), q)
    BY <1>1, <1>3, <2>1, <2>2 DEF AbstractICmp, RowOf
  <2> HIDE DEF q
  <2>4. QED BY <1>0, <1>2, <2>3, RowTells
<1>4. CASE i.a = "null"
  <2>1. i.a \notin ConstantInt /\ i.a \in Constant
    BY <1>4, SignedConstants DEF Constant, ConstantInt
  <2>2. x = 0 /\ i.p \in {"eq", "ne"}
    BY <1>4, <2>1, ConstantNumbers DEF IsCompared
  <2>3. q = i.p
    BY <2>2 DEF SwappedPredicate
  <2>4. AbstractICmp(i) = RowOf(i.u, ClassOf(x), q)
    <3>1. ClassOf(x) = "0"
      BY <2>2 DEF ClassOf
    <3> HIDE DEF q
    <3>2. AbstractICmp(i) = RowOf(i.u, "0", SwappedPredicate[q])
      BY <1>1, <1>4, <2>1 DEF AbstractICmp, RowOf, q
    <3>3. QED BY <2>3, <3>1, <3>2 DEF q
  <2> HIDE DEF q
  <2>5. QED BY <1>0, <1>2, <2>4, RowTells
<1>5. CASE i.a \notin DOMAIN IntegerConstant /\ i.a # "null"
  <2>1. AbstractICmp(i) = <<"top", "top">>
    BY <1>1, <1>5 DEF AbstractICmp, ConstantInt
  <2>2. Outcome(i, x, y) = "top"
    BY <1>2, <2>1
  <2>3. QED BY <1>0, <2>2, TopTells
<1>6. QED BY <1>3, <1>4, <1>5

(***************************************************************************)
(* What a step of the execution does to the numbers that names hold.       *)
(***************************************************************************)
SameValue(x, y) == x.n = y.n /\ x.source = y.source /\ x.latest = y.latest

(* The step binds w to x, and leaves the other names what they are in env. *)
Binds(w, x, env) ==
  /\ exec'.fn = exec.fn /\ exec'.b = exec.b /\ exec'.k = exec.k + 1
  /\ DOMAIN exec'.env = DOMAIN exec.env \cup {w}
  /\ SameValue(exec'.env[w], x)
  /\ \A v \in DOMAIN exec.env \ {w} : SameValue(exec'.env[v], env[v])

(* The step goes on behind the phis of block b, to which it gives values.  *)
PhiNames(b) == {Code[b][i].id : i \in PhisOf(Code, b)}

Moves(b) ==
  /\ exec'.fn = exec.fn /\ exec'.b = b /\ exec'.k = 1 + Cardinality(PhisOf(Code, b))
  /\ DOMAIN exec'.env = DOMAIN exec.env \cup PhiNames(b)
  /\ \A v \in DOMAIN exec.env \ PhiNames(b) : SameValue(exec'.env[v], exec.env[v])
  /\ \A v \in PhiNames(b) : \E i \in PhisOf(Code, b) :
       /\ Code[b][i].id = v
       /\ \E y \in Operand(Code[b][i].in[exec.b]) : SameValue(exec'.env[v], y)

LEMMA HereKeepsValues ==
  ASSUME NEW env, \A v \in DOMAIN env : IsValue(env[v]), NEW b, NEW k
  PROVE  /\ DOMAIN Here(env, b, k) = DOMAIN env
         /\ \A v \in DOMAIN env :
              IsValue(Here(env, b, k)[v]) /\ SameValue(Here(env, b, k)[v], env[v])
<1>1. /\ DOMAIN Here(env, b, k) = DOMAIN env
      /\ \A v \in DOMAIN env :
           Here(env, b, k)[v] = [env[v] EXCEPT !.trail = @ \cup {<<b, k, v>>}]
  BY DEF Here
<1>2. ASSUME NEW v \in DOMAIN env
      PROVE  IsValue(Here(env, b, k)[v]) /\ SameValue(Here(env, b, k)[v], env[v])
  BY <1>1 DEF IsValue, SameValue
<1>3. QED BY <1>1, <1>2

LEMMA BindBinds ==
  ASSUME IsExecution(exec), NEW w, NEW x, IsValue(x), NEW env, NEW about, NEW loose,
         DOMAIN env = DOMAIN exec.env, \A v \in DOMAIN env : IsValue(env[v]),
         At(exec.b, exec.k + 1, Bind(env, w, x), about, loose)
  PROVE  Binds(w, x, env) /\ exec'.about = about /\ exec'.loose = loose
<1> DEFINE bound == Bind(env, w, x)
           here == Here(bound, exec.b, exec.k + 1)
<1>1. /\ exec'.fn = exec.fn /\ exec'.about = about /\ exec'.loose = loose
      /\ exec'.b = exec.b /\ exec'.k = exec.k + 1 /\ exec'.env = here
  BY DEF At, IsExecution
<1>2. /\ DOMAIN bound = DOMAIN exec.env \cup {w}
      /\ bound[w] = x
      /\ \A v \in DOMAIN exec.env \ {w} : bound[v] = env[v]
  BY DEF Bind
<1>3. \A v \in DOMAIN bound : IsValue(bound[v])
  BY <1>2
<1> HIDE DEF bound
<1>4. /\ DOMAIN here = DOMAIN bound
      /\ \A v \in DOMAIN bound : SameValue(here[v], bound[v])
  BY <1>3, HereKeepsValues
<1> HIDE DEF here
<1>5. QED BY <1>1, <1>2, <1>4 DEF Binds

(* A call makes what earlier calls of its callee returned older, no more.  *)
LEMMA OlderIsOlder ==
  ASSUME PlaceInv, Running, NEW inst
  PROVE  \A v \in DOMAIN exec.env :
           /\ Older(exec.env, inst)[v].n = exec.env[v].n
           /\ Older(exec.env, inst)[v].source = exec.env[v].source
           /\ Older(exec.env, inst)[v].latest =>
                /\ exec.env[v].latest
                /\ ~ (/\ inst.op = "call" /\ Definition(Code, exec.env[v].source).op = "call"
                      /\ Definition(Code, exec.env[v].source).f = inst.f)
<1>1. ASSUME NEW x, IsValue(x), NEW y, y = [x EXCEPT !.latest = FALSE]
      PROVE  y.n = x.n /\ y.source = x.source /\ ~ y.latest
  BY <1>1 DEF IsValue
<1> SUFFICES ASSUME NEW v \in DOMAIN exec.env
             PROVE  LET y == Older(exec.env, inst)[v]
                    IN /\ y.n = exec.env[v].n /\ y.source = exec.env[v].source
                       /\ y.latest =>
                            /\ exec.env[v].latest
                            /\ ~ (/\ inst.op = "call"
                                  /\ Definition(Code, exec.env[v].source).op = "call"
                                  /\ Definition(Code, exec.env[v].source).f = inst.f)
  OBVIOUS
<1> DEFINE old == exec.env[v]
           isOlder == /\ inst.op = "call" /\ Definition(Code, old.source).op = "call"
                      /\ Definition(Code, old.source).f = inst.f
<1>2. IsValue(old)
  BY DEF PlaceInv
<1>3. Older(exec.env, inst)[v] = IF isOlder THEN [old EXCEPT !.latest = FALSE] ELSE old
  BY DEF Older
<1>4. CASE isOlder
  BY <1>1, <1>2, <1>3, <1>4
<1>5. CASE ~ isOlder
  BY <1>3, <1>5
<1>6. QED BY <1>4, <1>5

LEMMA FreshValue ==
  ASSUME NEW n \in Int, NEW source
  PROVE  /\ IsValue(Fresh(n, source)) /\ Fresh(n, source).n = n
         /\ Fresh(n, source).source = source
BY DEF Fresh, IsValue

LEMMA OperandNumbers ==
  ASSUME PlaceInv, Running, NumbersInv, NEW v, NEW y \in Operand(v)
  PROVE  /\ IsValue(y) /\ y.n \in Int
         /\ y.source = "" \/ (v \in DOMAIN exec.env \ Constant /\ y = exec.env[v])
         /\ v \in Constant => y.n = ConstantNumber(v)
<1>1. CASE v \in Constant
  <2>1. y = Fresh(ConstantNumber(v), "") /\ ConstantNumber(v) \in Int
    BY <1>1, ConstantNumbers DEF Operand
  <2>2. QED BY <2>1, FreshValue
<1>2. CASE v \notin Constant /\ v \in DOMAIN exec.env
  BY <1>2 DEF Operand, PlaceInv, NumbersInv
<1>3. CASE v \notin Constant /\ v \notin DOMAIN exec.env
  <2>1. PICK n \in ExternalValues : y = Fresh(n, "")
    BY <1>3 DEF Operand
  <2>2. n \in Int
    BY ExternalValuesAssumption
  <2>3. QED BY <1>3, <2>1, <2>2, FreshValue
<1>4. QED BY <1>1, <1>2, <1>3

(* What an instruction may give.                                           *)
LEMMA ResultNumbers ==
  ASSUME PlaceInv, Running, NumbersInv, NEW inst, NEW r \in Results(inst),
         inst.op \in LoadLike \cup {"trunc", "sext", "zext", "binary", "icmp", "call"}
  PROVE  /\ IsValue(r) /\ r.n \in Int
         /\ inst.op \in LoadLike => r \in Operand(inst.a)
         /\ inst.op \in {"zext", "binary", "icmp"} => r.source = ""
         /\ inst.op = "icmp" => \E x \in Numbers(inst.a), y \in Numbers(inst.b) :
                                   r.n = IF Compare(inst, x, y) THEN 1 ELSE 0
<1>1. CASE inst.op \in LoadLike \cup {"trunc", "sext"}
  <2>1. r \in Operand(inst.a)
    BY <1>1 DEF Results, LoadLike, BitCastLike
  <2>2. inst.op \notin {"zext", "binary", "icmp"}
    BY <1>1 DEF LoadLike, BitCastLike
  <2>3. QED BY <2>1, <2>2, OperandNumbers
<1>2. CASE inst.op \in {"zext", "binary"}
  <2>1. r \in Extended(inst) \cup Incremented(inst)
    BY <1>2 DEF Results, LoadLike, BitCastLike
  <2>2. inst.op \notin LoadLike /\ inst.op # "icmp"
    BY <1>2 DEF LoadLike, BitCastLike
  <2>3. PICK y \in Operand(inst.a) :
          r = Fresh(IF y.n < 0 THEN 2 ELSE y.n, "") \/ r = Fresh(Least(y.n + 1, 2), "")
    BY <2>1 DEF Extended, Incremented
  <2>4. y.n \in Int
    BY OperandNumbers
  <2>5. (IF y.n < 0 THEN 2 ELSE y.n) \in Int /\ Least(y.n + 1, 2) \in Int
    BY <2>4 DEF Least
  <2>6. PICK n \in Int : r = Fresh(n, "")
    BY <2>3, <2>5
  <2>7. IsValue(r) /\ r.n = n /\ r.source = ""
    BY <2>6, FreshValue
  <2>8. QED BY <2>2, <2>7
<1>3. CASE inst.op = "icmp"
  <2>1. r \in Compared(inst) /\ inst.op \notin LoadLike
    BY <1>3 DEF Results, LoadLike, BitCastLike
  <2>2. PICK n \in 0..1 :
          /\ r = Fresh(n, "")
          /\ \E x \in Operand(inst.a), y \in Operand(inst.b) : n = 1 <=> Compare(inst, x.n, y.n)
    BY <2>1 DEF Compared
  <2>3. PICK x \in Operand(inst.a), y \in Operand(inst.b) : n = 1 <=> Compare(inst, x.n, y.n)
    BY <2>2
  <2>4. n = IF Compare(inst, x.n, y.n) THEN 1 ELSE 0
    BY <2>3
  <2>5. x.n \in Numbers(inst.a) /\ y.n \in Numbers(inst.b)
    BY DEF Numbers
  <2>6. n \in Int
    OBVIOUS
  <2>7. r = Fresh(n, "")
    BY <2>2, Zenon
  <2>8. IsValue(r) /\ r.n = n /\ r.source = ""
    BY <2>6, <2>7, FreshValue
  <2>9. QED BY <2>1, <2>4, <2>5, <2>6, <2>8
<1>4. CASE inst.op = "call"
  <2>1. r \in Called(inst) /\ inst.op \notin LoadLike /\ inst.op \notin {"zext", "binary", "icmp"}
    BY <1>4 DEF Results, LoadLike, BitCastLike
  <2>2. CASE inst.f \in ErrFunctions
    BY <2>1, <2>2, OperandNumbers DEF Called
  <2>3. CASE inst.f \notin ErrFunctions
    <3>1. PICK n \in (-2..2) \cup ExternalValues : r = Fresh(n, inst.id)
      BY <2>1, <2>3 DEF Called
    <3>2. n \in Int
      BY ExternalValuesAssumption
    <3>3. IsValue(r) /\ r.n = n
      BY <3>1, <3>2, FreshValue
    <3>4. QED BY <1>4, <2>1, <3>2, <3>3
  <2>4. QED BY <2>2, <2>3
<1>5. QED BY <1>1, <1>2, <1>3, <1>4

LEMMA ValueBinds ==
  ASSUME PlaceInv, Running, NumbersInv, ExecuteValue
  PROVE  \E x \in Results(Current) :
           /\ Binds(Current.id, Followed(Current, x), Older(exec.env, Current))
           /\ exec'.about = IF Current.op = "call" THEN [exec.about EXCEPT ![Current.f] = x.n]
                            ELSE exec.about
           /\ exec'.loose = (exec.loose \/ \E v \in Reads(Current) : IsUnset(v))
<1> DEFINE inst == Current
           loose == exec.loose \/ \E v \in Reads(inst) : IsUnset(v)
<1>1. inst.op \in LoadLike \cup {"trunc", "sext", "zext", "binary", "icmp", "call"}
  BY DEF ExecuteValue
<1>2. PICK x \in Results(inst) :
        At(exec.b, exec.k + 1, Bind(Older(exec.env, inst), inst.id, Followed(inst, x)),
           IF inst.op = "call" THEN [exec.about EXCEPT ![inst.f] = x.n] ELSE exec.about,
           loose)
  BY DEF ExecuteValue
<1> HIDE DEF inst, loose
<1>3. IsValue(x)
  BY <1>1, ResultNumbers
<1>4. IsValue(Followed(inst, x))
  <2>1. \/ Followed(inst, x) = x
        \/ Followed(inst, x) = [x EXCEPT !.source = ""]
        \/ Followed(inst, x) = [x EXCEPT !.source = inst.id, !.latest = TRUE]
    BY DEF Followed
  <2>2. QED BY <1>3, <2>1 DEF IsValue
<1>5. IsExecution(exec)
  BY DEF PlaceInv
<1>6. /\ Binds(inst.id, Followed(inst, x), Older(exec.env, inst))
      /\ exec'.about = IF inst.op = "call" THEN [exec.about EXCEPT ![inst.f] = x.n] ELSE exec.about
      /\ exec'.loose = loose
  BY <1>2, <1>4, <1>5, OlderKeeps, BindBinds
<1>7. QED BY <1>6 DEF inst, loose

(* What a store puts into its slot.                                        *)
IsStored(inst, x) ==
  \/ x \in Operand(inst.a)
  \/ x.n \in Int /\ x.source \in Constant

LEMMA StoreBinds ==
  ASSUME PlaceInv, Running, NumbersInv, ExecuteStore
  PROVE  /\ exec'.about = exec.about
         /\ exec'.loose = (exec.loose \/ IsUnset(Current.a))
         /\ \E x : /\ IsStored(Current, x) /\ Binds(Current.b, x, exec.env)
                  /\ \E y \in Operand(Current.a) : x.n = y.n
<1> DEFINE inst == Current
           loose == exec.loose \/ IsUnset(inst.a)
           Stored(y) == IF inst.a \in ConstantInt THEN [y EXCEPT !.source = inst.a] ELSE y
<1>1. PICK y \in Operand(inst.a) :
        At(exec.b, exec.k + 1, Bind(exec.env, inst.b, Stored(y)), exec.about, loose)
  BY DEF ExecuteStore
<1> HIDE DEF inst, loose
<1> DEFINE x == Stored(y)
<1>2. IsValue(y) /\ y.n \in Int
  BY <1>1, OperandNumbers
<1>3. IsValue(x) /\ IsStored(inst, x) /\ x.n = y.n
  <2>1. CASE inst.a \in ConstantInt
    <3>1. IsValue([y EXCEPT !.source = inst.a]) /\ [y EXCEPT !.source = inst.a].n = y.n
          /\ [y EXCEPT !.source = inst.a].source = inst.a
      BY <1>2 DEF IsValue
    <3>2. QED BY <1>2, <2>1, <3>1 DEF IsStored, Constant, ConstantInt
  <2>2. CASE inst.a \notin ConstantInt
    BY <1>1, <1>2, <2>2 DEF IsStored
  <2>3. QED BY <2>1, <2>2
<1> HIDE DEF x
<1>4. IsExecution(exec) /\ \A v \in DOMAIN exec.env : IsValue(exec.env[v])
  BY DEF PlaceInv
<1>5. Binds(inst.b, x, exec.env) /\ exec'.about = exec.about /\ exec'.loose = loose
  BY <1>1, <1>3, <1>4, BindBinds DEF x
<1>6. QED BY <1>1, <1>3, <1>5 DEF inst, loose

LEMMA GotoMoves ==
  ASSUME PlaceInv, Running, NEW b, NEW about, NEW loose, Goto(b, about, loose)
  PROVE  /\ Moves(b) /\ exec'.about = about
         /\ exec'.loose = (loose \/ \E i \in PhisOf(Code, b) : IsUnset(Code[b][i].in[exec.b]))
<1> DEFINE spoilt == loose \/ \E i \in PhisOf(Code, b) : IsUnset(Code[b][i].in[exec.b])
           phis == PhisOf(Code, b)
           ids  == PhiNames(b)
           k    == 1 + Cardinality(phis)
           old  == Here(exec.env, b, 1)
           In(i) == Operand(Code[b][i].in[exec.b])
           Of(x) == [v \in DOMAIN old \cup ids |->
                       IF v \in ids THEN x[CHOOSE i \in phis : Code[b][i].id = v] ELSE old[v]]
<1>1. PICK x \in [phis -> UNION {In(i) : i \in phis}] :
        /\ \A i \in phis : x[i] \in In(i)
        /\ At(b, k, Of(x), about, spoilt)
  BY DEF Goto, PhisOf, PhiNames
<1> DEFINE new  == Of(x)
           here == Here(new, b, k)
<1>2. /\ DOMAIN old = DOMAIN exec.env
      /\ \A v \in DOMAIN exec.env : IsValue(old[v]) /\ SameValue(old[v], exec.env[v])
  BY HereKeepsValues DEF PlaceInv
<1>3. /\ exec'.fn = exec.fn /\ exec'.about = about
      /\ exec'.b = b /\ exec'.k = k /\ exec'.env = here /\ exec'.loose = spoilt
  BY <1>1 DEF At, IsExecution, PlaceInv
<1> HIDE DEF phis, k, old, In, spoilt
<1>4. ASSUME NEW v \in ids
      PROVE  \E i \in phis : Code[b][i].id = v /\ new[v] \in In(i)
  <2> DEFINE i == CHOOSE j \in phis : Code[b][j].id = v
  <2>1. i \in phis /\ Code[b][i].id = v
    BY <1>4 DEF PhiNames, phis
  <2> HIDE DEF i
  <2>2. new[v] = x[i]
    BY <1>4 DEF i
  <2>3. QED BY <1>1, <2>1, <2>2
<1>5. DOMAIN new = DOMAIN exec.env \cup ids /\ \A v \in DOMAIN exec.env \ ids : new[v] = old[v]
  BY <1>2
<1>6. ASSUME NEW i \in phis, NEW y \in In(i) PROVE IsValue(y)
  BY OperandValues DEF IsFresh, In
<1> HIDE DEF ids, new
<1>7. \A v \in DOMAIN new : IsValue(new[v])
  BY <1>2, <1>4, <1>5, <1>6
<1>8. DOMAIN here = DOMAIN new /\ \A v \in DOMAIN new : SameValue(here[v], new[v])
  BY <1>7, HereKeepsValues
<1> HIDE DEF here
<1>9. \A v \in DOMAIN exec.env \ ids : SameValue(here[v], exec.env[v])
  BY <1>2, <1>5, <1>8 DEF SameValue
<1>10. ASSUME NEW v \in ids
       PROVE  \E i \in phis : Code[b][i].id = v /\ \E y \in In(i) : SameValue(here[v], y)
  <2>1. PICK i \in phis : Code[b][i].id = v /\ new[v] \in In(i)
    BY <1>4
  <2>2. SameValue(here[v], new[v])
    BY <1>5, <1>8
  <2>3. QED BY <2>1, <2>2
<1>11. DOMAIN here = DOMAIN exec.env \cup ids
  BY <1>5, <1>8
<1>12. QED BY <1>3, <1>9, <1>10, <1>11, Zenon DEF Moves, phis, ids, k, In, spoilt

(***************************************************************************)
(* Comparisons stay about what their operands are: between the comparison  *)
(* and its use, its operands are not computed anew.                        *)
(***************************************************************************)
LEMMA PrecedesIsStrict ==
  ASSUME NEW body, NEW b, IsReachable(body, b), NEW k \in Nat, NEW c, NEW j \in Nat,
         Precedes(body, c, j, b, k)
  PROVE  ~ Precedes(body, b, k, c, j)
<1>1. ~ (Dominates(body, c, b) /\ Dominates(body, b, c))
  BY DominanceIsAntisymmetric
<1>2. (Dominates(body, c, b) \/ Dominates(body, b, c)) => c # b
  BY DEF Dominates
<1>3. QED BY <1>1, <1>2 DEF Precedes

(* Nothing reads what it gives itself, or what is only computed later.     *)
LEMMA OperandIsNotHere ==
  ASSUME NEW body, IsBody(body), DefinitionsDominateUses(body),
         NEW b \in DOMAIN body, IsReachable(body, b), NEW k \in DOMAIN body[b],
         NEW c \in DOMAIN body, NEW j \in DOMAIN body[c],
         body[c][j].op = "icmp", Precedes(body, c, j, b, k + 1)
  PROVE  body[b][k].id \notin {body[c][j].a, body[c][j].b}
<1> DEFINE v == body[b][k].id
<1> SUFFICES ASSUME v \in {body[c][j].a, body[c][j].b} PROVE FALSE
  OBVIOUS
<1>1. k \in 1..Len(body[b]) /\ j \in 1..Len(body[c]) /\ Len(body[b]) \in Nat /\ Len(body[c]) \in Nat
  BY BodyShape
<1>2. k \in Nat /\ j \in Nat
  BY <1>1
<1>3. IsInstruction(body, v)
  <2>1. body[b][k] \in InstructionsOf(body)
    BY <1>1, BodyShape
  <2>2. QED BY <2>1 DEF IsInstruction
<1>4. v \in Reads(body[c][j])
  BY DEF Reads, LoadLike, BitCastLike
<1>5. IsDefinedBefore(body, v, c, j)
  BY <1>3, <1>4 DEF DefinitionsDominateUses
<1>6. Precedes(body, b, k, c, j)
  BY <1>5, DefinedInItsPlace
<1>7. \/ Precedes(body, c, j, b, k) \/ (c = b /\ j = k)
  BY <1>2 DEF Precedes
<1>8. CASE Precedes(body, c, j, b, k)
  BY <1>2, <1>6, <1>8, PrecedesIsStrict
<1>9. CASE c = b /\ j = k
  BY <1>2, <1>6, <1>9 DEF Precedes, Dominates
<1>10. QED BY <1>7, <1>8, <1>9

(* A name that is not bound stands for the same numbers.                   *)
IsKept(u) ==
  /\ u \in DOMAIN exec'.env <=> u \in DOMAIN exec.env
  /\ u \in DOMAIN exec.env => exec'.env[u].n = exec.env[u].n

LEMMA NumbersStay ==
  ASSUME NEW u, IsKept(u)
  PROVE  Numbers(u)' = Numbers(u)
<1>1. CASE u \in Constant
  BY <1>1 DEF Numbers, Operand
<1>2. CASE u \notin Constant /\ u \in DOMAIN exec.env
  <2>1. Numbers(u) = {exec.env[u].n}
    BY <1>2 DEF Numbers, Operand
  <2>2. Numbers(u)' = {exec'.env[u].n}
    BY <1>2 DEF Numbers, Operand, IsKept
  <2>3. QED BY <1>2, <2>1, <2>2 DEF IsKept
<1>3. CASE u \notin Constant /\ u \notin DOMAIN exec.env
  <2>1. Operand(u)' = Operand(u)
    BY <1>3 DEF Operand, IsKept
  <2>2. QED BY <2>1 DEF Numbers
<1>4. QED BY <1>1, <1>2, <1>3

LEMMA CurrentStays ==
  ASSUME NEW i, IsCurrent(i), IsKept(i.id), IsKept(i.a), IsKept(i.b)
  PROVE  IsCurrent(i)'
<1>1. Numbers(i.a)' = Numbers(i.a) /\ Numbers(i.b)' = Numbers(i.b)
  BY NumbersStay
<1>2. i.id \in DOMAIN exec'.env /\ exec'.env[i.id].n = exec.env[i.id].n
  BY DEF IsCurrent, IsKept
<1>3. QED BY <1>1, <1>2 DEF IsCurrent

LEMMA BoundIsKept ==
  ASSUME NEW w, NEW x, NEW env, Binds(w, x, env),
         \A v \in DOMAIN exec.env : env[v].n = exec.env[v].n,
         NEW u, u # w
  PROVE  IsKept(u)
BY DEF Binds, IsKept, SameValue

LEMMA CodeOfPlace ==
  ASSUME ControlInv, PlaceInv, Running
  PROVE  /\ exec.fn \in DOMAIN prog.body /\ exec.b \in DOMAIN Code
         /\ exec.k \in DOMAIN Code[exec.b] /\ exec.k \in 1..Len(Code[exec.b])
         /\ exec.k \in Nat /\ Len(Code[exec.b]) \in Nat
         /\ IsTypedBody(Code) /\ IsBody(Code) /\ DefinitionsDominateUses(Code)
         /\ Current \in InstructionsOf(Code)
<1>1. /\ exec.fn \in DOMAIN prog.body /\ exec.b \in DOMAIN Code
      /\ exec.k \in 1..Len(Code[exec.b])
  BY DEF PlaceInv
<1>2. IsTypedBody(Code) /\ IsBody(Code) /\ DefinitionsDominateUses(Code)
  <2>1. IsTypedBody(prog.body[exec.fn])
    BY <1>1, TypedPrograms DEF ControlInv
  <2>2. DefinitionsDominateUses(prog.body[exec.fn])
    BY <1>1, ProgramsAssumption DEF ControlInv, IsProgram
  <2>3. QED BY <2>1, <2>2 DEF Code, IsTypedBody
<1>3. exec.k \in DOMAIN Code[exec.b] /\ Len(Code[exec.b]) \in Nat /\ Current \in InstructionsOf(Code)
  BY <1>1, <1>2, BodyShape DEF Current
<1>4. QED BY <1>1, <1>2, <1>3

LEMMA ComparisonsBind ==
  ASSUME ControlInv, PlaceInv, Running, UNCHANGED prog,
         IsReachable(Code, exec.b), ComparisonsInv,
         NEW w, NEW x, NEW env, Binds(w, x, env),
         \A v \in DOMAIN exec.env : env[v].n = exec.env[v].n,
         \/ /\ w = Current.id
            /\ Current.op = "icmp" => \E p \in Numbers(Current.a), q \in Numbers(Current.b) :
                                       x.n = IF Compare(Current, p, q) THEN 1 ELSE 0
         \/ Current.op = "store" /\ w = Current.b
  PROVE  ComparisonsInv'
<1>1. exec'.fn = exec.fn /\ exec'.b = exec.b /\ exec'.k = exec.k + 1 /\ Code' = Code
  BY DEF Binds, Code
<1> SUFFICES ASSUME NEW c \in DOMAIN Code, NEW j \in DOMAIN Code[c], NEW i, i = Code[c][j],
                    i.op = "icmp", Precedes(Code, c, j, exec.b, exec.k + 1)
             PROVE  IsCurrent(i)'
  BY <1>1 DEF ComparisonsInv
<1>2. Current.id \notin {i.a, i.b}
  BY CodeOfPlace, OperandIsNotHere DEF Current
<1>3. j \in 1..Len(Code[c]) /\ Len(Code[c]) \in Nat /\ i \in InstructionsOf(Code)
  BY CodeOfPlace, BodyShape
<1>4. {i.id, i.a, i.b} \cap Slots(Code) = {}
  <2>1. Reads(i) = {i.a, i.b}
    BY DEF Reads, LoadLike, BitCastLike
  <2>2. QED BY <2>1, CodeOfPlace DEF DefinitionsDominateUses
<1>5. CASE c = exec.b /\ j = exec.k
  <2>1. i = Current /\ w = Current.id
    <3>1. i = Current /\ Current.op # "store"
      BY <1>5 DEF Current
    <3>2. QED BY <3>1
  <2>2. exec'.env[i.id].n = x.n /\ i.id \in DOMAIN exec'.env
    BY <2>1 DEF Binds, SameValue
  <2>3. PICK p \in Numbers(i.a), q \in Numbers(i.b) : x.n = IF Compare(i, p, q) THEN 1 ELSE 0
    BY <2>1
  <2>4. IsKept(i.a) /\ IsKept(i.b)
    BY <1>2, <2>1, BoundIsKept
  <2>5. Numbers(i.a)' = Numbers(i.a) /\ Numbers(i.b)' = Numbers(i.b)
    BY <2>4, NumbersStay
  <2>6. QED BY <2>2, <2>3, <2>5 DEF IsCurrent
<1>6. CASE ~ (c = exec.b /\ j = exec.k)
  <2>1. Precedes(Code, c, j, exec.b, exec.k)
    <3>1. j \in Nat /\ exec.k \in Nat
      BY <1>3, CodeOfPlace
    <3>2. QED BY <1>6, <3>1 DEF Precedes
  <2>2. IsCurrent(i)
    BY <2>1 DEF ComparisonsInv
  <2>3. i.id # Current.id
    BY <1>6, CodeOfPlace DEF IsBody, Current
  <2>4. Current.op = "store" => Current.b \in Slots(Code)
    BY CodeOfPlace DEF Slots
  <2>5. w \notin {i.id, i.a, i.b}
    BY <1>2, <1>4, <2>3, <2>4
  <2>6. IsKept(i.id) /\ IsKept(i.a) /\ IsKept(i.b)
    BY <2>5, BoundIsKept
  <2>7. QED BY <2>2, <2>6, CurrentStays
<1>7. QED BY <1>5, <1>6

LEMMA ComparisonsMove ==
  ASSUME ControlInv, PlaceInv, Running, UNCHANGED prog, ComparisonsInv,
         NEW b \in Successors(Current), IsReachable(Code, b),
         exec.k = Len(Code[exec.b]), Moves(b)
  PROVE  ComparisonsInv'
<1>0. b \in Successors(Terminator(Code[exec.b])) /\ b \in DOMAIN Code
  <2>1. Current = Terminator(Code[exec.b])
    BY DEF Current, Terminator
  <2>2. QED BY <2>1, CodeOfPlace DEF IsBody
<1> PICK n \in Nat : /\ n < Len(Code[b]) /\ PhisOf(Code, b) = 1..n
                     /\ Cardinality(PhisOf(Code, b)) = n
  BY <1>0, CodeOfPlace, PhisComeFirst
<1>1. exec'.fn = exec.fn /\ exec'.b = b /\ exec'.k = 1 + n /\ Code' = Code
  BY DEF Moves, Code
<1> SUFFICES ASSUME NEW c \in DOMAIN Code, NEW j \in DOMAIN Code[c], NEW i, i = Code[c][j],
                    i.op = "icmp", Precedes(Code, c, j, b, 1 + n)
             PROVE  IsCurrent(i)'
  BY <1>1 DEF ComparisonsInv
<1>2. j \in 1..Len(Code[c]) /\ Len(Code[c]) \in Nat
  BY CodeOfPlace, BodyShape
<1>3. Dominates(Code, c, b)
  <2>1. ASSUME c = b, j < 1 + n PROVE FALSE
    <3>1. j \in PhisOf(Code, b)
      BY <1>2, <2>1
    <3>2. QED BY <2>1, <3>1 DEF PhisOf
  <2>2. QED BY <2>1 DEF Precedes
<1>4. Precedes(Code, c, j, exec.b, exec.k)
  <2>1. CASE c = exec.b
    <3>1. j # Len(Code[c])
      <4>1. IsBlock(Code[c])
        BY CodeOfPlace DEF IsBody
      <4>2. i.op \notin {"jump", "branch", "switch", "return"}
        OBVIOUS
      <4>3. QED BY <4>1, <4>2 DEF IsBlock
    <3>2. j < exec.k
      BY <1>2, <2>1, <3>1
    <3>3. QED BY <2>1, <3>2 DEF Precedes
  <2>2. CASE c # exec.b
    BY <1>0, <1>3, <2>2, CodeOfPlace, DominanceFlows DEF Precedes
  <2>3. QED BY <2>1, <2>2
<1>5. IsCurrent(i)
  BY <1>4 DEF ComparisonsInv
<1>6. ASSUME NEW m \in PhisOf(Code, b)
      PROVE  Code[b][m].id \notin {i.id, i.a, i.b}
  <2>1. m \in DOMAIN Code[b] /\ Code[b][m].op = "phi"
    BY <1>6 DEF PhisOf
  <2>2. Code[b][m].id # i.id
    BY <1>0, <2>1, CodeOfPlace DEF IsBody
  <2>3. Precedes(Code, c, j, b, m + 1)
    BY <1>3 DEF Precedes
  <2>4. Code[b][m].id \notin {Code[c][j].a, Code[c][j].b}
    BY <1>0, <2>1, <2>3, CodeOfPlace, OperandIsNotHere
  <2>5. QED BY <2>2, <2>4
<1>7. {i.id, i.a, i.b} \cap PhiNames(b) = {}
  BY <1>6 DEF PhiNames
<1>8. \A u \in {i.id, i.a, i.b} : IsKept(u)
  BY <1>7 DEF Moves, IsKept, SameValue
<1>9. QED BY <1>5, <1>8, CurrentStays

(***************************************************************************)
(* What the constraints on a callee are about is its latest result.        *)
(***************************************************************************)
LEMMA InstructionsHaveNames ==
  ASSUME NEW body, IsBody(body), NEW i \in InstructionsOf(body)
  PROVE  IsName(i.id)
<1>1. PICK b \in DOMAIN body : i \in Range(body[b])
  BY DEF InstructionsOf
<1>2. PICK k \in DOMAIN body[b] : i = body[b][k]
  BY <1>1 DEF Range
<1>3. QED BY <1>2 DEF IsBody, IsBlock

LEMMA NoDefinition ==
  ASSUME NEW body, IsBody(body), NEW v \in Constant \cup {""}
  PROVE  Definition(body, v).op = "none"
<1>1. \A i \in InstructionsOf(body) : i.id # v
  BY InstructionsHaveNames DEF IsName
<1>2. QED BY <1>1 DEF Definition

LEMMA DefinitionOfPlace ==
  ASSUME NEW body, IsBody(body), NEW b \in DOMAIN body, NEW k \in DOMAIN body[b]
  PROVE  Definition(body, body[b][k].id) = body[b][k]
<1> DEFINE i == body[b][k]
<1>1. i \in InstructionsOf(body)
  BY BodyShape
<1>2. ASSUME NEW j \in InstructionsOf(body), j.id = i.id PROVE j = i
  <2>1. PICK c \in DOMAIN body : j \in Range(body[c])
    BY DEF InstructionsOf
  <2>2. PICK l \in DOMAIN body[c] : j = body[c][l]
    BY <2>1 DEF Range
  <2>3. c = b /\ l = k
    BY <1>2, <2>2 DEF IsBody
  <2>4. QED BY <2>2, <2>3
<1> HIDE DEF i
<1>3. QED BY <1>1, <1>2 DEF Definition, i

LEMMA FollowedValue ==
  ASSUME NEW inst, NEW x, IsValue(x)
  PROVE  /\ Followed(inst, x).n = x.n
         /\ inst.op = "call" => Followed(inst, x).source = inst.id
         /\ inst.op \in {"trunc", "sext"} => Followed(inst, x).source = ""
         /\ inst.op \notin {"call", "trunc", "sext"} => Followed(inst, x) = x
BY DEF Followed, IsValue

(* A value, if it is the latest of the call it comes from, is the one that *)
(* is spoken about.                                                        *)
IsSpokenOf(x, about) ==
  x.latest /\ Definition(Code, x.source).op = "call" =>
    about[Definition(Code, x.source).f] \in {Undetermined, x.n}

LEMMA OperandIsSpokenOf ==
  ASSUME ControlInv, PlaceInv, Running, NumbersInv, LatestInv, NEW v, NEW x \in Operand(v)
  PROVE  IsSpokenOf(x, exec.about)
<1>1. CASE x.source = ""
  BY <1>1, CodeOfPlace, NoDefinition DEF IsSpokenOf
<1>2. CASE v \in DOMAIN exec.env /\ x = exec.env[v]
  BY <1>2 DEF IsSpokenOf, LatestInv
<1>3. QED BY <1>1, <1>2, OperandNumbers

LEMMA LatestValue ==
  ASSUME ControlInv, PlaceInv, Running, NumbersInv, AboutDomain, LatestInv, UNCHANGED prog,
         ExecuteValue
  PROVE  LatestInv'
<1> DEFINE inst == Current
<1>0. PICK x \in Results(Current) :
        /\ Binds(Current.id, Followed(Current, x), Older(exec.env, Current))
        /\ exec'.about = IF Current.op = "call" THEN [exec.about EXCEPT ![Current.f] = x.n]
                         ELSE exec.about
  BY ValueBinds
<1> DEFINE y == Followed(inst, x)
<1>1. Code' = Code
  BY <1>0 DEF Binds, Code
<1>2. inst.op \in LoadLike \cup {"trunc", "sext", "zext", "binary", "icmp", "call"}
  BY DEF ExecuteValue
<1>3. inst.op = "call" => inst.f \in DOMAIN exec.about
  BY CodeOfPlace DEF Callees, AboutDomain
<1> SUFFICES ASSUME NEW v \in DOMAIN exec'.env PROVE IsSpokenOf(exec'.env[v], exec'.about)
  BY <1>1 DEF LatestInv, IsSpokenOf
<1>4. CASE v # Current.id
  <2>1. v \in DOMAIN exec.env /\ SameValue(exec'.env[v], Older(exec.env, inst)[v])
    BY <1>0, <1>4 DEF Binds
  <2>2. /\ Older(exec.env, inst)[v].n = exec.env[v].n
        /\ Older(exec.env, inst)[v].source = exec.env[v].source
        /\ Older(exec.env, inst)[v].latest =>
             /\ exec.env[v].latest
             /\ ~ (/\ inst.op = "call" /\ Definition(Code, exec.env[v].source).op = "call"
                   /\ Definition(Code, exec.env[v].source).f = inst.f)
    BY <2>1, OlderIsOlder
  <2> DEFINE source == Definition(Code, exec.env[v].source)
  <2> SUFFICES ASSUME exec'.env[v].latest, source.op = "call"
               PROVE  exec'.about[source.f] \in {Undetermined, exec.env[v].n}
    BY <2>1, <2>2 DEF IsSpokenOf, SameValue
  <2>3. exec.about[source.f] \in {Undetermined, exec.env[v].n}
    BY <2>1, <2>2 DEF LatestInv, SameValue
  <2>4. ~ (inst.op = "call" /\ source.f = inst.f)
    BY <2>1, <2>2 DEF SameValue
  <2>5. exec'.about[source.f] = exec.about[source.f]
    BY <1>0, <2>4
  <2>6. QED BY <2>3, <2>5
<1>5. CASE v = Current.id
  <2>1. SameValue(exec'.env[v], y)
    BY <1>0, <1>5 DEF Binds
  <2>2. IsValue(x)
    BY <1>2, ResultNumbers
  <2>3. y.n = x.n
    BY <2>2, FollowedValue
  <2>4. CASE inst.op = "call"
    <3>1. y.source = inst.id
      BY <2>2, <2>4, FollowedValue
    <3>2. Definition(Code, inst.id) = inst
      BY CodeOfPlace, DefinitionOfPlace DEF Current
    <3>3. exec'.about[inst.f] = x.n
      BY <1>0, <1>3, <2>4
    <3>4. QED BY <2>1, <2>3, <3>1, <3>2, <3>3 DEF IsSpokenOf, SameValue
  <2>5. CASE inst.op \in LoadLike
    <3>1. x \in Operand(inst.a) /\ inst.op \notin {"call", "trunc", "sext"}
      BY <2>5, ResultNumbers DEF LoadLike, BitCastLike
    <3>2. y = x /\ exec'.about = exec.about
      BY <1>0, <2>2, <3>1, FollowedValue
    <3>3. IsSpokenOf(x, exec.about)
      BY <3>1, OperandIsSpokenOf
    <3>4. QED BY <2>1, <3>2, <3>3 DEF IsSpokenOf, SameValue
  <2>6. CASE inst.op \in {"trunc", "sext", "zext", "binary", "icmp"}
    <3>1. y.source = ""
      BY <2>2, <2>6, ResultNumbers, FollowedValue
    <3>2. Definition(Code, "").op = "none"
      BY CodeOfPlace, NoDefinition
    <3>3. QED BY <2>1, <3>1, <3>2 DEF IsSpokenOf, SameValue
  <2>7. QED BY <1>2, <2>4, <2>5, <2>6
<1>6. QED BY <1>4, <1>5

LEMMA LatestStore ==
  ASSUME ControlInv, PlaceInv, Running, NumbersInv, LatestInv, UNCHANGED prog, ExecuteStore
  PROVE  LatestInv'
<1>0. PICK x : IsStored(Current, x) /\ Binds(Current.b, x, exec.env)
  BY StoreBinds
<1>1. Code' = Code /\ exec'.about = exec.about
  BY <1>0, StoreBinds DEF Binds, Code
<1> SUFFICES ASSUME NEW v \in DOMAIN exec'.env PROVE IsSpokenOf(exec'.env[v], exec.about)
  BY <1>1 DEF LatestInv, IsSpokenOf
<1>2. CASE v # Current.b
  <2>1. v \in DOMAIN exec.env /\ SameValue(exec'.env[v], exec.env[v])
    BY <1>0, <1>2 DEF Binds
  <2>2. QED BY <2>1 DEF IsSpokenOf, LatestInv, SameValue
<1>3. CASE v = Current.b
  <2>1. SameValue(exec'.env[v], x)
    BY <1>0, <1>3 DEF Binds
  <2>2. IsSpokenOf(x, exec.about)
    BY <1>0, CodeOfPlace, NoDefinition, OperandIsSpokenOf DEF IsStored, IsSpokenOf
  <2>3. QED BY <2>1, <2>2 DEF IsSpokenOf, SameValue
<1>4. QED BY <1>2, <1>3

LEMMA LatestMove ==
  ASSUME ControlInv, PlaceInv, Running, NumbersInv, AboutDomain, LatestInv, UNCHANGED prog,
         NEW b, Moves(b),
         \A f \in Callees(Code) : exec'.about[f] \in {exec.about[f], Undetermined}
  PROVE  LatestInv'
<1>1. Code' = Code
  BY DEF Moves, Code
<1> SUFFICES ASSUME NEW v \in DOMAIN exec'.env PROVE IsSpokenOf(exec'.env[v], exec'.about)
  BY <1>1 DEF LatestInv, IsSpokenOf
<1>2. PICK x : SameValue(exec'.env[v], x) /\ IsSpokenOf(x, exec.about)
  <2>1. CASE v \in PhiNames(b)
    <3>1. PICK i \in PhisOf(Code, b) : \E y \in Operand(Code[b][i].in[exec.b]) :
                                         SameValue(exec'.env[v], y)
      BY <2>1 DEF Moves
    <3>2. QED BY <3>1, OperandIsSpokenOf
  <2>2. CASE v \notin PhiNames(b)
    <3>1. v \in DOMAIN exec.env /\ SameValue(exec'.env[v], exec.env[v])
      BY <2>2 DEF Moves
    <3>2. IsSpokenOf(exec.env[v], exec.about)
      BY <3>1 DEF LatestInv, IsSpokenOf
    <3>3. QED BY <3>1, <3>2
  <2>3. QED BY <2>1, <2>2
<1>3. ASSUME NEW s, Definition(Code, s).op = "call" PROVE Definition(Code, s).f \in Callees(Code)
  BY <1>3, DefinedInstruction DEF Callees
<1>4. QED BY <1>2, <1>3 DEF IsSpokenOf, SameValue

(***************************************************************************)
(* Where a step leads, and what the outcome of a test tells of a result    *)
(* that is still spoken about.                                             *)
(***************************************************************************)
Tested == TestedBy(Code, facts.propagation[exec.fn], Current)

(* The operand whose sources a test looks up.                              *)
TestOperand(body, inst) ==
  IF inst.op = "branch" THEN TestedValue(body, Definition(body, inst.a)) ELSE inst.a

IsTold(b) ==
  /\ b \in Successors(Current) /\ Moves(b)
  /\ exec'.about = [f \in DOMAIN exec.about |-> exec'.about[f]]
  /\ \A f \in DOMAIN exec.about : exec'.about[f] \in {exec.about[f], Undetermined}
  /\ \A f \in Tested : exec'.about[f] # Undetermined =>
       /\ TestOperand(Code, Current) \in DOMAIN exec.env
       /\ \E o \in OutcomesOf(Code, Current) : o[1] = b /\ SignOf(exec'.about[f]) \in Gamma[o[2]]

(* The value v is what the latest call of f returned.                      *)
Own(f, v) ==
  /\ v \in DOMAIN exec.env /\ exec.env[v].latest
  /\ Definition(Code, exec.env[v].source).op = "call"
  /\ Definition(Code, exec.env[v].source).f = f

LEMMA AboutIsOwn ==
  ASSUME NEW v, NEW f \in TestedCallees(Code, facts.propagation[exec.fn], v),
         f \in DOMAIN exec.about
  PROVE  AboutAfter(v)[f] = IF Own(f, v) THEN exec.about[f] ELSE Undetermined
BY DEF AboutAfter, Own

LEMMA AboutIsLess ==
  ASSUME NEW v
  PROVE  /\ AboutAfter(v) = [f \in DOMAIN exec.about |-> AboutAfter(v)[f]]
         /\ \A f \in DOMAIN exec.about : AboutAfter(v)[f] \in {exec.about[f], Undetermined}
BY DEF AboutAfter

LEMMA OwnIsSpokenOf ==
  ASSUME LatestInv, NEW v, NEW f, Own(f, v), exec.about[f] # Undetermined
  PROVE  exec.about[f] = exec.env[v].n
BY DEF Own, LatestInv

LEMMA JumpTells ==
  ASSUME ControlInv, PlaceInv, Running, exec.k = Len(Code[exec.b]),
         AboutDomain, ExecuteJump
  PROVE  \E b : IsTold(b)
<1>1. Current.op = "jump" /\ Successors(Current) = {Current.t}
  BY DEF ExecuteJump, Successors
<1> PICK b \in Successors(Current) : b = Current.t
  BY <1>1
<1>2. Moves(b) /\ exec'.about = exec.about
  BY GotoMoves DEF ExecuteJump
<1>3. Tested = {}
  BY <1>1 DEF Tested, TestedBy
<1>4. QED BY <1>2, <1>3 DEF IsTold, AboutDomain

(* The comparison that a branch is about was made, and of what its         *)
(* operands still are.                                                     *)
LEMMA TestIsCurrent ==
  ASSUME ControlInv, PlaceInv, Running, ComparisonsInv, Current.op = "branch",
         Definition(Code, Current.a).op = "icmp"
  PROVE  /\ IsCurrent(Definition(Code, Current.a))
         /\ Definition(Code, Current.a).id = Current.a
         /\ IsTyped(Definition(Code, Current.a))
<1> DEFINE test == Definition(Code, Current.a)
<1>1. test \in InstructionsOf(Code) /\ test.id = Current.a
  BY DefinedInstruction
<1>2. IsTyped(test)
  BY <1>1, CodeOfPlace DEF IsTypedBody
<1>3. Current.a \in Reads(Current) /\ IsInstruction(Code, Current.a)
  BY <1>1 DEF Reads, IsInstruction
<1>4. IsDefinedBefore(Code, Current.a, exec.b, exec.k)
  BY <1>3, CodeOfPlace DEF DefinitionsDominateUses, Current
<1>5. PICK c \in DOMAIN Code : \E j \in DOMAIN Code[c] :
        Code[c][j].id = Current.a /\ Precedes(Code, c, j, exec.b, exec.k)
  BY <1>4 DEF IsDefinedBefore
<1>6. PICK j \in DOMAIN Code[c] :
        Code[c][j].id = Current.a /\ Precedes(Code, c, j, exec.b, exec.k)
  BY <1>5
<1>7. test = Code[c][j]
  BY <1>6, CodeOfPlace, DefinitionOfPlace
<1>8. IsCurrent(test)
  BY <1>6, <1>7 DEF ComparisonsInv
<1>9. QED BY <1>1, <1>2, <1>8

LEMMA NumbersOfName ==
  ASSUME PlaceInv, Running, NEW v \in DOMAIN exec.env
  PROVE  Operand(v) = {exec.env[v]} /\ Numbers(v) = {exec.env[v].n}
<1>1. v \notin Constant
  BY DEF PlaceInv, NamesOf
<1>2. Operand(v) = {exec.env[v]}
  BY <1>1 DEF Operand
<1>3. QED BY <1>2 DEF Numbers

LEMMA BranchTells ==
  ASSUME ControlInv, PlaceInv, Running, exec.k = Len(Code[exec.b]),
         AboutDomain, NumbersInv, ComparisonsInv, LatestInv, ExecuteBranch
  PROVE  \E b : IsTold(b)
<1> DEFINE test  == Definition(Code, Current.a)
           v     == TestedValue(Code, test)
           all   == TestedCallees(Code, facts.propagation[exec.fn], v)
           after == IF test.op # "icmp" THEN exec.about
                    ELSE IF OutOfTable(test)
                    THEN [f \in DOMAIN exec.about |-> IF f \in all THEN Undetermined
                                                     ELSE exec.about[f]]
                    ELSE AboutAfter(v)
<1>1. Current.op = "branch" /\ Successors(Current) = {Current.t, Current.e}
  BY DEF ExecuteBranch, Successors
<1>2. PICK x \in Operand(Current.a) : \E loose :
        Goto(IF x.n # 0 THEN Current.t ELSE Current.e, after, loose)
  BY Zenon DEF ExecuteBranch
<1> PICK loose : Goto(IF x.n # 0 THEN Current.t ELSE Current.e, after, loose)
  BY <1>2
<1> PICK b \in Successors(Current) : b = IF x.n # 0 THEN Current.t ELSE Current.e
  BY <1>1
<1>3. Moves(b) /\ exec'.about = after
  <2> HIDE DEF after
  <2>1. Goto(b, after, loose)
    BY <1>2
  <2>2. QED BY <2>1, GotoMoves
<1>4. /\ exec'.about = [f \in DOMAIN exec.about |-> exec'.about[f]]
      /\ \A f \in DOMAIN exec.about : exec'.about[f] \in {exec.about[f], Undetermined}
  BY <1>3, AboutIsLess DEF AboutDomain
<1>5. ASSUME NEW f \in Tested, exec'.about[f] # Undetermined
      PROVE  /\ v \in DOMAIN exec.env
             /\ \E o \in OutcomesOf(Code, Current) :
                  o[1] = b /\ SignOf(exec'.about[f]) \in Gamma[o[2]]
  <2>1. test.op = "icmp" /\ f \in all
    BY <1>1, <1>5 DEF Tested, TestedBy
  <2>2. f \in DOMAIN exec.about
    BY <1>5, TestedAreCallees DEF Tested, AboutDomain
  <2>3. ~ OutOfTable(test) /\ exec'.about = AboutAfter(v)
    BY <1>3, <1>5, <2>1, <2>2
  <2>4. Own(f, v) /\ exec'.about[f] = exec.about[f]
    BY <1>5, <2>1, <2>2, <2>3, AboutIsOwn
  <2>5. exec'.about[f] = exec.env[v].n /\ v \in DOMAIN exec.env
    BY <1>5, <2>4, OwnIsSpokenOf DEF Own
  <2>6. IsCurrent(test) /\ test.id = Current.a /\ IsTyped(test)
    BY <1>1, <2>1, TestIsCurrent
  <2>7. PICK l \in Numbers(test.a), r \in Numbers(test.b) :
          exec.env[test.id].n = IF Compare(test, l, r) THEN 1 ELSE 0
    BY <2>6 DEF IsCurrent
  <2>8. x.n = exec.env[test.id].n
    BY <1>2, <2>6, NumbersOfName DEF IsCurrent
  <2>9. IsCompared(test, l, r)
    <3>1. PICK lv \in Operand(test.a), rv \in Operand(test.b) : l = lv.n /\ r = rv.n
      BY DEF Numbers
    <3>2. /\ l \in Int /\ r \in Int
          /\ test.a \in Constant => l = ConstantNumber(test.a)
          /\ test.b \in Constant => r = ConstantNumber(test.b)
      BY <3>1, OperandNumbers
    <3>3. test.u => l >= 0 /\ r >= 0
      BY <2>3, <3>1, <3>2 DEF OutOfTable
    <3>4. QED BY <2>1, <2>3, <2>6, <3>2, <3>3 DEF IsCompared, IsTyped, OutOfTable
  <2>10. SignOf(exec.env[v].n) \in Gamma[Outcome(test, l, r)]
    <3>0. v \notin Constant /\ Numbers(v) = {exec.env[v].n}
      BY <2>5, NumbersOfName DEF PlaceInv, NamesOf
    <3>1. CASE v = test.a
      BY <2>9, <3>0, <3>1, LeftIsTold
    <3>2. CASE v = test.b
      BY <2>9, <3>0, <3>2, RightIsTold
    <3>3. QED BY <3>1, <3>2 DEF TestedValue
  <2>11. OutcomesOf(Code, Current) = {<<Current.t, AbstractICmp(test)[1]>>,
                                      <<Current.e, AbstractICmp(test)[2]>>}
    BY <1>1, <2>1 DEF OutcomesOf, BranchOutcomes
  <2> HIDE DEF test, v, after
  <2>12. CASE Compare(test, l, r)
    <3>1. b = Current.t /\ Outcome(test, l, r) = AbstractICmp(test)[1]
      BY <2>7, <2>8, <2>12 DEF Outcome
    <3>2. QED BY <2>5, <2>10, <2>11, <3>1
  <2>13. CASE ~ Compare(test, l, r)
    <3>1. b = Current.e /\ Outcome(test, l, r) = AbstractICmp(test)[2]
      BY <2>7, <2>8, <2>13 DEF Outcome
    <3>2. QED BY <2>5, <2>10, <2>11, <3>1
  <2>14. QED BY <2>12, <2>13
<1>6. v = TestOperand(Code, Current)
  BY <1>1 DEF TestOperand
<1> HIDE DEF test, v, after
<1>7. QED BY <1>3, <1>4, <1>5, <1>6 DEF IsTold

LEMMA SwitchTells ==
  ASSUME ControlInv, PlaceInv, Running, exec.k = Len(Code[exec.b]),
         AboutDomain, NumbersInv, LatestInv, ExecuteSwitch
  PROVE  \E b : IsTold(b)
<1> DEFINE taken(n) == {i \in DOMAIN Current.cases :
                          IntegerConstant[Current.cases[i].value] = n}
           v     == Current.a
           all   == TestedCallees(Code, facts.propagation[exec.fn], v)
           other == [f \in DOMAIN exec.about |-> IF f \in all THEN Undetermined ELSE exec.about[f]]
<1>1. /\ Current.op = "switch"
      /\ Successors(Current) = {Current.cases[i].to : i \in DOMAIN Current.cases} \cup {Current.e}
  BY DEF ExecuteSwitch, Successors
<1>2. IsTyped(Current)
  BY CodeOfPlace DEF IsTypedBody
<1>3. PICK x \in Operand(v) :
        IF taken(x.n) # {}
        THEN \E loose : Goto(Current.cases[CHOOSE i \in taken(x.n) : TRUE].to, AboutAfter(v), loose)
        ELSE \E loose : Goto(Current.e, other, loose)
  <2>1. \E x \in Operand(v) :
          IF taken(x.n) # {}
          THEN \E loose : Goto(Current.cases[CHOOSE i \in taken(x.n) : TRUE].to, AboutAfter(v), loose)
          ELSE \E loose : Goto(Current.e, other, loose)
    BY Zenon DEF ExecuteSwitch
  <2>2. QED BY <2>1
<1>4. Tested \subseteq all /\ Tested \subseteq DOMAIN exec.about
  <2>1. Tested \subseteq all
    BY <1>1 DEF Tested, TestedBy
  <2>2. QED BY <2>1, TestedAreCallees DEF Tested, AboutDomain
<1>5. CASE taken(x.n) = {}
  <2> PICK b \in Successors(Current) : b = Current.e
    BY <1>1
  <2>1. Moves(b) /\ exec'.about = other
    <3> HIDE DEF other
    <3>1. PICK loose : Goto(b, other, loose)
      BY <1>3, <1>5
    <3>2. QED BY <3>1, GotoMoves
  <2>2. QED BY <1>4, <2>1 DEF IsTold, AboutDomain
<1>6. CASE taken(x.n) # {}
  <2> DEFINE i == CHOOSE j \in taken(x.n) : TRUE
  <2>1. i \in DOMAIN Current.cases /\ IntegerConstant[Current.cases[i].value] = x.n
    BY <1>6
  <2>2. Current.cases[i].value \in DOMAIN IntegerConstant
    BY <1>1, <1>2, <2>1 DEF IsTyped
  <2>3. PICK loose : Goto(Current.cases[i].to, AboutAfter(v), loose)
    BY <1>3, <1>6
  <2> HIDE DEF i, taken
  <2> PICK b \in Successors(Current) : b = Current.cases[i].to
    BY <1>1, <2>1
  <2>4. Moves(b) /\ exec'.about = AboutAfter(v)
    BY <2>3, GotoMoves
  <2>5. /\ exec'.about = [f \in DOMAIN exec.about |-> exec'.about[f]]
        /\ \A f \in DOMAIN exec.about : exec'.about[f] \in {exec.about[f], Undetermined}
    BY <2>4, AboutIsLess
  <2>6. AbstractInteger(Current.cases[i].value) = ClassOf(x.n)
    BY <2>1, <2>2, ConstantNumbers
  <2>7. <<b, ClassOf(x.n)>> \in OutcomesOf(Code, Current)
    BY <1>1, <2>1, <2>6 DEF OutcomesOf, CaseOutcomes
  <2>8. ASSUME NEW f \in Tested, exec'.about[f] # Undetermined
        PROVE  v \in DOMAIN exec.env /\ SignOf(exec'.about[f]) \in Gamma[ClassOf(x.n)]
    <3>1. f \in all /\ f \in DOMAIN exec.about
      BY <1>4
    <3>2. Own(f, v) /\ exec'.about[f] = exec.about[f]
      BY <2>4, <2>8, <3>1, AboutIsOwn
    <3>3. exec'.about[f] = exec.env[v].n /\ v \in DOMAIN exec.env
      BY <2>8, <3>2, OwnIsSpokenOf DEF Own
    <3>4. x.n = exec.env[v].n /\ x.n \in Int
      BY <1>3, <3>3, NumbersOfName DEF NumbersInv
    <3>5. QED BY <3>3, <3>4, SignsOfNumbers, GammaRows DEF ClassOf
  <2>9. ASSUME NEW f \in Tested, exec'.about[f] # Undetermined
        PROVE  \E o \in OutcomesOf(Code, Current) :
                 o[1] = b /\ SignOf(exec'.about[f]) \in Gamma[o[2]]
    BY <2>7, <2>8, <2>9
  <2>10. v = TestOperand(Code, Current)
    BY <1>1 DEF TestOperand
  <2>11. QED BY <2>4, <2>5, <2>8, <2>9, <2>10 DEF IsTold
<1>7. QED BY <1>5, <1>6

(* What the invariant becomes after a step to block b.                     *)
LEMMA ResultsMove ==
  ASSUME ControlInv, PlaceInv, Running, UNCHANGED prog, exec.k = Len(Code[exec.b]),
         IsReachable(Code, exec.b), AboutDomain, NumbersInv, ComparisonsInv, LatestInv,
         NEW b, IsTold(b)
  PROVE  ResultsInv'
<1>1. b \in Successors(Current) /\ Moves(b) /\ Code' = Code
  BY DEF IsTold, Moves, Code
<1>2. IsReachable(Code, b)
  <2>1. Current = Terminator(Code[exec.b])
    BY DEF Current, Terminator
  <2>2. QED BY <1>1, <2>1, ReachableFlows
<1>3. AboutDomain'
  BY <1>1 DEF IsTold, AboutDomain
<1>4. ASSUME NEW v \in DOMAIN exec'.env PROVE exec'.env[v].n \in Int
  <2>1. CASE v \in PhiNames(b)
    <3>1. PICK i \in PhisOf(Code, b) : \E y \in Operand(Code[b][i].in[exec.b]) :
                                         SameValue(exec'.env[v], y)
      BY <1>1, <2>1 DEF Moves
    <3>2. QED BY <3>1, OperandNumbers DEF SameValue
  <2>2. CASE v \notin PhiNames(b)
    BY <1>1, <2>2 DEF Moves, NumbersInv, SameValue
  <2>3. QED BY <2>1, <2>2
<1>5. ComparisonsInv'
  BY <1>1, <1>2, ComparisonsMove
<1>6. LatestInv'
  BY <1>1, LatestMove DEF IsTold, AboutDomain
<1>7. IsReachable(Code, exec.b)' /\ NumbersInv'
  BY <1>1, <1>2, <1>4 DEF Moves, NumbersInv
<1>8. QED BY <1>3, <1>5, <1>6, <1>7 DEF ResultsInv

LEMMA ResultsValue ==
  ASSUME ControlInv, PlaceInv, Running, UNCHANGED prog,
         IsReachable(Code, exec.b), AboutDomain, NumbersInv, ComparisonsInv, LatestInv,
         ExecuteValue
  PROVE  ResultsInv'
<1>1. PICK x \in Results(Current) :
        /\ Binds(Current.id, Followed(Current, x), Older(exec.env, Current))
        /\ exec'.about = IF Current.op = "call" THEN [exec.about EXCEPT ![Current.f] = x.n]
                         ELSE exec.about
  BY ValueBinds
<1> DEFINE y   == Followed(Current, x)
           env == Older(exec.env, Current)
<1>2. Current.op \in LoadLike \cup {"trunc", "sext", "zext", "binary", "icmp", "call"}
  BY DEF ExecuteValue
<1>3. /\ IsValue(x) /\ x.n \in Int
      /\ Current.op = "icmp" => \E p \in Numbers(Current.a), q \in Numbers(Current.b) :
                                  x.n = IF Compare(Current, p, q) THEN 1 ELSE 0
  BY <1>2, ResultNumbers
<1>4. y.n = x.n
  BY <1>3, FollowedValue
<1>5. \A v \in DOMAIN exec.env : env[v].n = exec.env[v].n
  BY OlderIsOlder
<1>6. Code' = Code /\ exec'.fn = exec.fn /\ exec'.b = exec.b
  BY <1>1 DEF Binds, Code
<1> HIDE DEF y, env
<1>7. Binds(Current.id, y, env)
  BY <1>1 DEF y, env
<1>8. IsReachable(Code, exec.b)'
  BY <1>6
<1>9. AboutDomain'
  BY <1>1, <1>6 DEF AboutDomain
<1>10. NumbersInv'
  BY <1>3, <1>4, <1>5, <1>7 DEF NumbersInv, Binds, SameValue
<1>11. PICK w : w = Current.id
  OBVIOUS
<1>12. ComparisonsInv'
  BY <1>3, <1>4, <1>5, <1>7, <1>11, ComparisonsBind
<1>13. LatestInv'
  BY LatestValue
<1>14. QED BY <1>8, <1>9, <1>10, <1>12, <1>13 DEF ResultsInv

LEMMA ResultsStore ==
  ASSUME ControlInv, PlaceInv, Running, UNCHANGED prog,
         IsReachable(Code, exec.b), AboutDomain, NumbersInv, ComparisonsInv, LatestInv,
         ExecuteStore
  PROVE  ResultsInv'
<1>1. PICK x : IsStored(Current, x) /\ Binds(Current.b, x, exec.env)
  BY StoreBinds
<1>2. Code' = Code /\ exec'.fn = exec.fn /\ exec'.b = exec.b /\ exec'.about = exec.about
  BY <1>1, StoreBinds DEF Binds, Code
<1>3. x.n \in Int
  BY <1>1, OperandNumbers DEF IsStored
<1>4. IsReachable(Code, exec.b)' /\ AboutDomain'
  BY <1>2 DEF AboutDomain
<1>5. NumbersInv'
  BY <1>1, <1>3 DEF NumbersInv, Binds, SameValue
<1>6. PICK w : w = Current.b
  OBVIOUS
<1>7. Current.op = "store"
  BY DEF ExecuteStore
<1>8. PICK env : env = exec.env
  OBVIOUS
<1>9. ComparisonsInv'
  BY <1>1, <1>6, <1>7, <1>8, ComparisonsBind
<1>10. LatestInv'
  BY LatestStore
<1>11. QED BY <1>4, <1>5, <1>9, <1>10 DEF ResultsInv

(* Which steps of the execution there are.                                 *)
LEMMA RunKinds ==
  ASSUME ControlInv, PlaceInv, ResultsInv, Run, Running
  PROVE  \/ exec' = Idle
         \/ exec.k < Len(Code[exec.b]) /\ (ExecuteValue \/ ExecuteStore)
         \/ exec.k = Len(Code[exec.b]) /\ \E b : IsTold(b)
<1>0. AboutDomain /\ NumbersInv /\ ComparisonsInv /\ LatestInv
  BY DEF ResultsInv
<1>1. exec.k \in 1..Len(Code[exec.b]) /\ exec.k \in Nat /\ Len(Code[exec.b]) \in Nat
  BY CodeOfPlace
<1>2. Current.op \in {"jump", "branch", "switch", "return"} <=> exec.k = Len(Code[exec.b])
  BY PlaceShape
<1>3. CASE Leave
  BY <1>3 DEF Leave
<1>4. CASE ExecuteValue
  <2>1. Current.op \notin {"jump", "branch", "switch", "return"}
    BY <1>4 DEF ExecuteValue, LoadLike, BitCastLike
  <2>2. QED BY <1>1, <1>2, <1>4, <2>1
<1>5. CASE ExecuteStore
  <2>1. Current.op = "store"
    BY Zenon, <1>5 DEF ExecuteStore
  <2>2. QED BY <1>1, <1>2, <1>5, <2>1
<1>6. CASE ExecuteJump
  BY <1>0, <1>2, <1>6, JumpTells DEF ExecuteJump
<1>7. CASE ExecuteBranch
  BY <1>0, <1>2, <1>7, BranchTells DEF ExecuteBranch
<1>8. CASE ExecuteSwitch
  BY <1>0, <1>2, <1>8, SwitchTells DEF ExecuteSwitch
<1>9. QED BY <1>3, <1>4, <1>5, <1>6, <1>7, <1>8 DEF Run, Enter, Running

LEMMA CodeStays ==
  ASSUME ControlInv, PlaceInv, Running, UNCHANGED prog, ExecuteValue \/ ExecuteStore \/ \E b : IsTold(b)
  PROVE  Code' = Code /\ Running'
<1>1. exec'.fn = exec.fn
  BY DEF ExecuteValue, ExecuteStore, IsTold, Moves, At, PlaceInv, IsExecution
<1>2. QED BY <1>1 DEF Code, Running

LEMMA ResultsEnter ==
  ASSUME ControlInv, UNCHANGED prog, NEW f \in DOMAIN prog.body, Enter(f)
  PROVE  ResultsInv'
<1> DEFINE body == prog.body[f]
<1>1. /\ exec'.fn = f /\ exec'.b = 1 /\ exec'.k = 1 /\ exec'.env = <<>>
      /\ exec'.about = [g \in Callees(body) |-> Undetermined]
  BY DEF Enter, Idle
<1>2. Code' = body /\ DOMAIN exec'.env = {}
  BY <1>1 DEF Code
<1>3. IsReachable(Code, exec.b)'
  BY <1>1, <1>2 DEF IsReachable
<1>4. AboutDomain'
  BY <1>1, <1>2 DEF AboutDomain
<1>5. IsBody(body)
  BY ProgramShape DEF ControlInv
<1>6. ComparisonsInv'
  <2>1. ASSUME NEW c \in DOMAIN body, NEW j \in DOMAIN body[c] PROVE ~ Precedes(body, c, j, 1, 1)
    <3>1. j \in 1..Len(body[c]) /\ Len(body[c]) \in Nat
      BY <1>5, BodyShape
    <3>2. QED BY <3>1, EntryIsNotDominated DEF Precedes
  <2>2. QED BY <1>1, <1>2, <2>1 DEF ComparisonsInv
<1>7. NumbersInv' /\ LatestInv'
  BY <1>2 DEF NumbersInv, LatestInv
<1>8. QED BY <1>3, <1>4, <1>6, <1>7 DEF ResultsInv

LEMMA ResultsNext ==
  ControlInv /\ PlaceInv /\ ResultsInv /\ [ExecNext]_allVars => ResultsInv'
<1> SUFFICES ASSUME ControlInv, PlaceInv, ResultsInv, [ExecNext]_allVars PROVE ResultsInv'
  OBVIOUS
<1>1. CASE Analyse /\ UNCHANGED exec
  <2>1. ~ Running
    BY <1>1, AnalysisIsOver DEF PlaceInv
  <2>2. QED BY <1>1, <2>1 DEF ResultsInv, Running
<1>2. CASE Run /\ UNCHANGED vars
  <2>0. UNCHANGED prog
    BY <1>2 DEF vars
  <2>1. CASE ~ Running
    BY <1>2, <2>0, <2>1, ResultsEnter DEF Run, Running
  <2>2. CASE Running
    <3>1. IsReachable(Code, exec.b) /\ AboutDomain /\ NumbersInv /\ ComparisonsInv /\ LatestInv
      BY <2>2 DEF ResultsInv
    <3>2. CASE exec' = Idle
      BY <3>2 DEF ResultsInv, Running, Idle
    <3>3. CASE ExecuteValue
      BY <2>0, <2>2, <3>1, <3>3, ResultsValue
    <3>4. CASE ExecuteStore
      BY <2>0, <2>2, <3>1, <3>4, ResultsStore
    <3>5. CASE exec.k = Len(Code[exec.b]) /\ \E b : IsTold(b)
      BY <2>0, <2>2, <3>1, <3>5, ResultsMove
    <3>6. QED BY <1>2, <2>2, <3>2, <3>3, <3>4, <3>5, RunKinds
  <2>3. QED BY <2>1, <2>2
<1>3. CASE UNCHANGED allVars
  <2>1. Code' = Code /\ UNCHANGED exec
    BY <1>3 DEF allVars, vars, Code
  <2>2. ASSUME NEW i, IsCurrent(i) PROVE IsCurrent(i)'
    BY <2>1, <2>2 DEF IsCurrent, Numbers, Operand
  <2>3. ComparisonsInv => ComparisonsInv'
    BY <2>1, <2>2 DEF ComparisonsInv
  <2>4. NumbersInv' = NumbersInv /\ LatestInv' = LatestInv /\ AboutDomain' = AboutDomain
    BY <2>1 DEF NumbersInv, LatestInv, AboutDomain
  <2>5. QED BY <2>1, <2>3, <2>4 DEF ResultsInv, Running
<1>4. QED BY <1>1, <1>2, <1>3 DEF ExecNext

(***************************************************************************)
(* The constraints are true of the results.                                *)
(***************************************************************************)
(* Something is known of the callee, and it is true of n.                  *)
Covers(x, n) == x # Absent /\ SignOf(n) \in Gamma[x]

LEMMA BelowCovers ==
  ASSUME NEW x, NEW y, NEW n, Covers(x, n), Below(x, y)
  PROVE  Covers(y, n)
BY DEF Covers, Below

LEMMA RefineCovers ==
  ASSUME NEW x \in SignLatticeElement, NEW y \in Known, NEW n, Covers(y, n), SignOf(n) \in Gamma[x]
  PROVE  Covers(Refine(x, y), n)
<1>1. Refine(x, y) \in SignLatticeElement /\ Gamma[Refine(x, y)] = Gamma[x] \cap Gamma[y]
  BY RefineIsMeet DEF Covers
<1>2. QED BY <1>1, AbsentIsNoElement DEF Covers

LEMMA ConstrainedHere ==
  ASSUME ControlInv, PlaceInv, ConstraintsInv, Running, ~ HasLoneTest(Code)
  PROVE  /\ HasConstraintFacts(Code, facts.constraints[exec.fn])
         /\ \A b \in DOMAIN Code :
              IsConstrainedBlock(Code, facts.propagation[exec.fn], facts.constraints[exec.fn], b)
<1>1. exec.fn \in DOMAIN prog.body /\ pass = "done"
  BY DEF PlaceInv
<1>2. QED BY <1>1 DEF ConstraintsInv, ConstraintsSettled, Code

LEMMA CoverBind ==
  ASSUME ControlInv, PlaceInv, ConstraintsInv, Running, UNCHANGED <<prog, facts>>,
         ~ HasLoneTest(Code), AboutDomain, exec.k < Len(Code[exec.b]), exec'.fn = exec.fn,
         exec'.b = exec.b, exec'.k = exec.k + 1,
         \A f \in Callees(Code) : exec.about[f] # Undetermined =>
           Covers(FactsHere("constraints")[f], exec.about[f]),
         exec'.about = IF Current.op = "call" THEN [exec.about EXCEPT ![Current.f] = exec'.about[Current.f]]
                       ELSE exec.about,
         Current.op = "call" => exec'.about[Current.f] \in Int
  PROVE  \A f \in Callees(Code) : exec'.about[f] # Undetermined =>
           Covers(FactsHere("constraints")'[f], exec'.about[f])
<1> DEFINE P == facts.propagation[exec.fn]
           F == facts.constraints[exec.fn]
           before == F[exec.b][exec.k]
           after  == F[exec.b][exec.k + 1]
<1>1. /\ FactsHere("constraints") = before /\ FactsHere("constraints")' = after
  BY DEF FactsHere
<1>2. exec.b \in DOMAIN Code /\ exec.k \in 1..Len(Code[exec.b]) /\ exec.k # Len(Code[exec.b])
      /\ IsBody(Code) /\ Len(Code[exec.b]) \in Nat
  BY CodeOfPlace
<1>3. after = ConstraintAfter(Code, P, before, Current)
  BY <1>2, ConstrainedHere DEF IsConstrainedBlock, IsConstrained, Current
<1>4. DOMAIN before = Callees(Code)
  <2>1. exec.k \in 1..Len(Code[exec.b]) + 1
    BY <1>2
  <2>2. before \in [Callees(Code) -> Known]
    BY <1>2, <2>1, ConstrainedHere DEF HasConstraintFacts, HasKnownFacts
  <2>3. QED BY <2>2
<1>5. TestedBy(Code, P, Current) = {}
  BY <1>2, TestIsLast DEF Current
<1> HIDE DEF before, after, F, P
<1> SUFFICES ASSUME NEW f \in Callees(Code), exec'.about[f] # Undetermined
             PROVE  Covers(after[f], exec'.about[f])
  BY <1>1
<1>6. CASE Current.op = "call"
  <2>1. after = [before EXCEPT ![Current.f] = "top"]
    BY <1>3, <1>6 DEF ConstraintAfter
  <2>2. CASE f = Current.f
    <3>1. after[f] = "top"
      BY <1>4, <2>1, <2>2
    <3>2. QED BY <1>6, <2>2, <3>1, TopTells DEF Covers, Absent
  <2>3. CASE f # Current.f
    <3>1. after[f] = before[f] /\ exec'.about[f] = exec.about[f]
      BY <1>4, <1>6, <2>1, <2>3 DEF AboutDomain
    <3>2. QED BY <1>1, <3>1
  <2>4. QED BY <2>2, <2>3
<1>7. CASE Current.op # "call"
  <2>1. after[f] = before[f]
    BY <1>3, <1>4, <1>5, <1>7 DEF ConstraintAfter
  <2>2. QED BY <1>1, <1>7, <2>1
<1>8. QED BY <1>6, <1>7

(* Phis constrain nothing.                                                 *)
LEMMA ConstrainedThroughPhis ==
  ASSUME NEW body, IsBody(body), NEW P, NEW F, HasConstraintFacts(body, F),
         NEW b \in DOMAIN body, IsConstrained(body, P, F, b),
         NEW n \in Nat, n < Len(body[b]), PhisOf(body, b) = 1..n
  PROVE  F[b][n + 1] = F[b][1]
<1> DEFINE S == {m \in Nat : m <= n => F[b][m + 1] = F[b][1]}
<1>0. Len(body[b]) \in Nat
  BY BodyShape
<1>1. 0 \in S
  OBVIOUS
<1>2. ASSUME NEW m \in Nat, m \in S PROVE m + 1 \in S
  <2>1. SUFFICES ASSUME m + 1 <= n PROVE F[b][m + 1 + 1] = F[b][1]
    OBVIOUS
  <2>2. m + 1 \in 1..n /\ m + 1 \in 1..Len(body[b]) /\ m + 1 \in 1..Len(body[b]) + 1
    BY <1>0, <2>1
  <2>3. F[b][m + 1] = F[b][1]
    BY <1>2, <2>1
  <2>4. F[b][m + 1 + 1] = ConstraintAfter(body, P, F[b][m + 1], body[b][m + 1])
    BY <2>2 DEF IsConstrained
  <2>5. body[b][m + 1].op = "phi"
    BY <2>2 DEF PhisOf
  <2>6. F[b][m + 1] \in [Callees(body) -> Known]
    BY <2>2 DEF HasConstraintFacts, HasKnownFacts
  <2>7. TestedBy(body, P, body[b][m + 1]) = {}
    BY <2>5 DEF TestedBy
  <2> PICK before : before = F[b][m + 1]
    OBVIOUS
  <2>8. ConstraintAfter(body, P, before, body[b][m + 1]) = before
    BY <2>5, <2>6, <2>7 DEF ConstraintAfter
  <2>9. QED BY <2>3, <2>4, <2>8
<1> HIDE DEF S
<1>3. n \in S
  BY <1>1, <1>2, NaturalInduction
<1>4. QED BY <1>3 DEF S

LEMMA CoverMove ==
  ASSUME ControlInv, PlaceInv, ConstraintsInv, Running, UNCHANGED <<prog, facts>>,
         ~ HasLoneTest(Code), AboutDomain, exec.k = Len(Code[exec.b]),
         \A f \in Callees(Code) : exec.about[f] # Undetermined =>
           Covers(FactsHere("constraints")[f], exec.about[f]),
         NEW b, IsTold(b)
  PROVE  \A f \in Callees(Code) : exec'.about[f] # Undetermined =>
           Covers(FactsHere("constraints")'[f], exec'.about[f])
<1> DEFINE P == facts.propagation[exec.fn]
           F == facts.constraints[exec.fn]
           n == Len(Code[exec.b])
<1>1. exec.b \in DOMAIN Code /\ n \in 1..Len(Code[exec.b]) /\ IsTypedBody(Code) /\ n \in Nat
      /\ IsBody(Code) /\ Current = Terminator(Code[exec.b]) /\ Current = Code[exec.b][n]
  BY CodeOfPlace DEF Current, Terminator
<1>2. b \in Successors(Current) /\ b \in DOMAIN Code /\ exec.b \in Predecessors(Code, b)
  BY <1>1 DEF IsTold, IsBody, Predecessors
<1>3. /\ HasConstraintFacts(Code, F) /\ IsConstrainedBlock(Code, P, F, exec.b)
      /\ IsConstrainedBlock(Code, P, F, b)
  BY <1>1, <1>2, ConstrainedHere
<1>4. FactsHere("constraints") = F[exec.b][n] /\ FactsHere("constraints")' = F[b][1]
  <2> PICK m \in Nat : /\ m < Len(Code[b]) /\ PhisOf(Code, b) = 1..m
                       /\ Cardinality(PhisOf(Code, b)) = m
    BY <1>1, <1>2, PhisComeFirst
  <2>1. FactsHere("constraints") = F[exec.b][n] /\ FactsHere("constraints")' = F[b][1 + m]
    BY DEF FactsHere, IsTold, Moves
  <2>2. F[b][m + 1] = F[b][1]
    <3>1. IsConstrained(Code, P, F, b)
      BY <1>3 DEF IsConstrainedBlock
    <3> HIDE DEF P, F, n
    <3>2. IsBody(Code) /\ b \in DOMAIN Code /\ HasConstraintFacts(Code, F)
      BY <1>1, <1>2, <1>3
    <3>3. QED BY <3>1, <3>2, ConstrainedThroughPhis
  <2>3. QED BY <2>1, <2>2
<1>5. F[exec.b][n] \in [Callees(Code) -> Known]
  <2>1. n \in 1..Len(Code[exec.b]) + 1
    BY <1>1
  <2>2. QED BY <1>1, <1>3, <2>1 DEF HasConstraintFacts, HasKnownFacts
<1>6. F[exec.b][n + 1] = ConstraintAfter(Code, P, F[exec.b][n], Current)
  BY <1>1, <1>3 DEF IsConstrainedBlock, IsConstrained
<1>7. Tested = TestedBy(Code, P, Current)
  BY DEF Tested
<1>8. ArePassedOn(OutcomesOf(Code, Current), F[exec.b][n], Tested, F)
  BY <1>1, <1>3, <1>7 DEF IsConstrainedBlock, HasPassedOn
<1>9. \A f \in Callees(Code) : Below(F[exec.b][n + 1][f], F[b][1][f])
  BY <1>2, <1>3 DEF IsConstrainedBlock, IsFedFacts
<1>10. Current.op # "call"
  <2>1. Current.op \in {"jump", "branch", "switch", "return"}
    BY PlaceShape
  <2>2. QED BY <2>1
<1> SUFFICES ASSUME NEW f \in Callees(Code), exec'.about[f] # Undetermined
             PROVE  Covers(F[b][1][f], exec'.about[f])
  BY <1>4
<1> HIDE DEF F, P, n
<1>11. exec'.about[f] = exec.about[f] /\ Covers(F[exec.b][n][f], exec'.about[f])
  BY <1>4 DEF IsTold, AboutDomain
<1>12. CASE f \in Tested
  <2>1. PICK o \in OutcomesOf(Code, Current) :
          o[1] = b /\ SignOf(exec'.about[f]) \in Gamma[o[2]]
    BY <1>12 DEF IsTold
  <2>2. o[2] \in SignLatticeElement
    BY <1>1, OutcomesAreTyped DEF n
  <2>3. Covers(Refine(o[2], F[exec.b][n][f]), exec'.about[f])
    BY <1>5, <1>11, <2>1, <2>2, RefineCovers
  <2>4. Below(Refine(o[2], F[exec.b][n][f]), F[b][1][f])
    BY <1>8, <1>12, <2>1 DEF ArePassedOn
  <2>5. QED BY <2>3, <2>4, BelowCovers
<1>13. CASE f \notin Tested
  <2>1. F[exec.b][n + 1][f] = F[exec.b][n][f]
    BY <1>5, <1>6, <1>7, <1>10, <1>13 DEF ConstraintAfter
  <2>2. QED BY <1>9, <1>11, <2>1, BelowCovers
<1>14. QED BY <1>12, <1>13

CoverInv ==
  Running /\ ~ HasLoneTest(Code) =>
    \A f \in Callees(Code) : exec.about[f] # Undetermined =>
      Covers(FactsHere("constraints")[f], exec.about[f])

LEMMA CoverNext ==
  ASSUME ControlInv, PlaceInv, ConstraintsInv, ResultsInv, CoverInv, [ExecNext]_allVars
  PROVE  CoverInv'
<1>1. CASE Analyse /\ UNCHANGED exec
  <2>1. ~ Running
    BY <1>1, AnalysisIsOver DEF PlaceInv
  <2>2. QED BY <1>1, <2>1 DEF CoverInv, Running
<1>2. CASE Run /\ UNCHANGED vars
  <2>0. UNCHANGED <<prog, facts>>
    BY <1>2 DEF vars
  <2>1. CASE ~ Running
    <3>1. PICK f \in DOMAIN prog.body : Enter(f)
      BY <1>2, <2>1 DEF Run, Running
    <3>2. exec'.fn = f /\ exec'.about = [g \in Callees(prog.body[f]) |-> Undetermined]
      BY <3>1 DEF Enter, Idle
    <3>3. Code' = prog.body[f]
      BY <2>0, <3>2 DEF Code
    <3>4. QED BY <3>2, <3>3 DEF CoverInv
  <2>2. CASE Running /\ ~ HasLoneTest(Code)
    <3>0. \A f \in Callees(Code) : exec.about[f] # Undetermined =>
            Covers(FactsHere("constraints")[f], exec.about[f])
      BY <2>2 DEF CoverInv
    <3>1. IsReachable(Code, exec.b) /\ AboutDomain /\ NumbersInv /\ ComparisonsInv /\ LatestInv
      BY <2>2 DEF ResultsInv
    <3>2. CASE exec' = Idle
      BY <3>2 DEF CoverInv, Running, Idle
    <3>3. CASE exec.k < Len(Code[exec.b]) /\ ExecuteValue
      <4>1. PICK x \in Results(Current) :
              /\ Binds(Current.id, Followed(Current, x), Older(exec.env, Current))
              /\ exec'.about = IF Current.op = "call" THEN [exec.about EXCEPT ![Current.f] = x.n]
                               ELSE exec.about
        BY <2>2, <3>1, <3>3, ValueBinds
      <4>2. Code' = Code /\ exec'.fn = exec.fn /\ exec'.b = exec.b /\ exec'.k = exec.k + 1
        BY <2>0, <4>1 DEF Binds, Code
      <4>3. Current.op \in LoadLike \cup {"trunc", "sext", "zext", "binary", "icmp", "call"}
        BY <3>3 DEF ExecuteValue
      <4>4. x.n \in Int
        BY <2>2, <3>1, <4>3, ResultNumbers
      <4>5. Current.op = "call" => exec'.about[Current.f] = x.n
        BY <2>2, <3>1, <4>1, CodeOfPlace DEF Callees, AboutDomain
      <4>6. /\ exec'.about = IF Current.op = "call"
                             THEN [exec.about EXCEPT ![Current.f] = exec'.about[Current.f]]
                             ELSE exec.about
            /\ Current.op = "call" => exec'.about[Current.f] \in Int
        BY <4>1, <4>4, <4>5
      <4>7. \A f \in Callees(Code) : exec'.about[f] # Undetermined =>
              Covers(FactsHere("constraints")'[f], exec'.about[f])
        BY <2>0, <2>2, <3>0, <3>1, <3>3, <4>2, <4>6, CoverBind
      <4>8. QED BY <4>2, <4>7 DEF CoverInv
    <3>4. CASE exec.k < Len(Code[exec.b]) /\ ExecuteStore
      <4>1. PICK x : Binds(Current.b, x, exec.env)
        BY <2>2, <3>1, <3>4, StoreBinds
      <4>2. Code' = Code /\ exec'.fn = exec.fn /\ exec'.b = exec.b /\ exec'.k = exec.k + 1
        BY <2>0, <4>1 DEF Binds, Code
      <4>3. exec'.about = exec.about /\ Current.op # "call"
        BY <2>2, <3>1, <3>4, StoreBinds DEF ExecuteStore
      <4>4. \A f \in Callees(Code) : exec'.about[f] # Undetermined =>
              Covers(FactsHere("constraints")'[f], exec'.about[f])
        BY <2>0, <2>2, <3>0, <3>1, <3>4, <4>2, <4>3, CoverBind
      <4>5. QED BY <4>2, <4>4 DEF CoverInv
    <3>5. ASSUME exec.k = Len(Code[exec.b]), NEW b, IsTold(b) PROVE CoverInv'
      <4>1. Code' = Code
        BY <2>0, <3>5 DEF IsTold, Moves, Code
      <4>2. \A f \in Callees(Code) : exec'.about[f] # Undetermined =>
              Covers(FactsHere("constraints")'[f], exec'.about[f])
        BY <2>0, <2>2, <3>0, <3>1, <3>5, CoverMove
      <4>3. QED BY <4>1, <4>2 DEF CoverInv
    <3>6. QED BY <1>2, <2>2, <3>2, <3>3, <3>4, <3>5, RunKinds
  <2>3. CASE Running /\ HasLoneTest(Code)
    <3>1. exec' = Idle \/ exec'.fn = exec.fn
      BY <1>2, <2>3, RunCases DEF Enter, Running, Assigns, Enters
    <3>2. QED BY <2>0, <2>3, <3>1 DEF CoverInv, Running, Idle, Code
  <2>4. QED BY <2>1, <2>2, <2>3
<1>3. CASE UNCHANGED allVars
  BY <1>3 DEF allVars, vars, CoverInv, Running, Code, FactsHere
<1>4. QED BY <1>1, <1>2, <1>3 DEF ExecNext

(* A test that was passed leaves a constraint that the result it was about *)
(* satisfies: what ReturnConstraintsPass says at a program point is true   *)
(* of the latest result of each callee in every execution of every         *)
(* function without lone tests that comes there, until a test of the       *)
(* callee looks at something else.                                         *)
THEOREM ResultsAreCovered == ExecSpec => []ConstraintsCoverResults
<1>1. ExecInit => ResultsInv /\ CoverInv
  BY DEF ExecInit, Idle, Running, ResultsInv, CoverInv
<1>2. /\ ExecutionInv /\ ConstraintsInv /\ ResultsInv /\ CoverInv /\ [ExecNext]_allVars
      => ResultsInv' /\ CoverInv'
  BY ResultsNext, CoverNext DEF ExecutionInv
<1>3. ResultsInv /\ CoverInv => ConstraintsCoverResults
  <2> SUFFICES ASSUME ResultsInv, CoverInv, Running, ~ HasLoneTest(Code),
                      NEW f \in DOMAIN exec.about, exec.about[f] # Undetermined
               PROVE  FactsHere("constraints")[f] # Absent /\
                      SignOf(exec.about[f]) \in Gamma[FactsHere("constraints")[f]]
    BY DEF ConstraintsCoverResults
  <2>1. f \in Callees(Code)
    BY DEF ResultsInv, AboutDomain
  <2>2. QED BY <2>1 DEF CoverInv, Covers
<1>4. QED BY <1>1, <1>2, <1>3, ConstraintsAlways, PTL DEF ExecSpec

(***************************************************************************)
(* What the checkers make of it: an outcome of the test leaves the sign of *)
(* the constant alone, and the call whose result was tested has a use.     *)
(***************************************************************************)
(* The value of v comes from nowhere, from a constant, from v itself or    *)
(* from a name that an instruction reads.                                  *)
IsReadOrOwn(source, v) ==
  \/ source \in {v, ""} \cup Constant
  \/ \E i \in InstructionsOf(Code) : source \in Operands(i)

OriginsInv == \A v \in DOMAIN exec.env : IsReadOrOwn(exec.env[v].source, v)

(* At the beginning of a block, what the test that leads there looked at   *)
(* has been computed.                                                      *)
EntranceInv ==
  exec.k = 1 /\ exec.b # 1 =>
    \E p \in Predecessors(Code, exec.b) :
      LET last == Terminator(Code[p])
      IN \A f \in TestedBy(Code, facts.propagation[exec.fn], last) :
           exec.about[f] # Undetermined => TestOperand(Code, last) \in DOMAIN exec.env

UsesInv == Running => OriginsInv /\ EntranceInv

LEMMA OperandIsRead ==
  ASSUME ControlInv, PlaceInv, Running, NumbersInv, OriginsInv,
         NEW i \in InstructionsOf(Code), NEW u \in Operands(i), NEW y \in Operand(u), NEW v
  PROVE  IsReadOrOwn(y.source, v)
<1>1. CASE y.source = ""
  BY <1>1 DEF IsReadOrOwn
<1>2. CASE u \in DOMAIN exec.env /\ y = exec.env[u]
  <2>1. IsReadOrOwn(y.source, u)
    BY <1>2 DEF OriginsInv
  <2>2. CASE y.source = u
    BY <2>2 DEF IsReadOrOwn
  <2>3. CASE y.source # u
    BY <2>1, <2>3 DEF IsReadOrOwn
  <2>4. QED BY <2>2, <2>3
<1>3. QED BY <1>1, <1>2, OperandNumbers

(* A value that is computed: what an instruction copies it also reads.     *)
LEMMA OriginsValue ==
  ASSUME ControlInv, PlaceInv, Running, NumbersInv, OriginsInv, UNCHANGED prog, ExecuteValue
  PROVE  OriginsInv'
<1> DEFINE inst == Current
<1>0. PICK x \in Results(Current) :
        Binds(Current.id, Followed(Current, x), Older(exec.env, Current))
  BY ValueBinds
<1> DEFINE y == Followed(inst, x)
<1>1. Code' = Code
  BY <1>0 DEF Binds, Code
<1>2. inst.op \in LoadLike \cup {"trunc", "sext", "zext", "binary", "icmp", "call"}
  BY DEF ExecuteValue
<1> SUFFICES ASSUME NEW v \in DOMAIN exec'.env PROVE IsReadOrOwn(exec'.env[v].source, v)
  BY <1>1 DEF OriginsInv, IsReadOrOwn
<1>3. CASE v # Current.id
  <2>1. v \in DOMAIN exec.env /\ SameValue(exec'.env[v], Older(exec.env, inst)[v])
    BY <1>0, <1>3 DEF Binds
  <2>2. Older(exec.env, inst)[v].source = exec.env[v].source
    BY <2>1, OlderIsOlder
  <2>3. QED BY <2>1, <2>2 DEF OriginsInv, SameValue
<1>4. CASE v = Current.id
  <2>1. SameValue(exec'.env[v], y)
    BY <1>0, <1>4 DEF Binds
  <2>2. IsValue(x)
    BY <1>2, ResultNumbers
  <2>3. CASE inst.op = "call"
    <3>1. y.source = v
      BY <1>4, <2>2, <2>3, FollowedValue
    <3>2. QED BY <2>1, <3>1 DEF IsReadOrOwn, SameValue
  <2>4. CASE inst.op \in LoadLike
    <3>1. x \in Operand(inst.a) /\ inst.op \notin {"call", "trunc", "sext"}
      BY <2>4, ResultNumbers DEF LoadLike, BitCastLike
    <3>2. y = x
      BY <2>2, <3>1, FollowedValue
    <3>3. inst \in InstructionsOf(Code) /\ IsTyped(inst)
      BY CodeOfPlace DEF IsTypedBody
    <3>4. inst.a \in Operands(inst)
      BY <2>4, <3>3 DEF IsTyped, Operands
    <3> HIDE DEF inst
    <3>5. IsReadOrOwn(x.source, v)
      BY <3>1, <3>3, <3>4, OperandIsRead
    <3>6. QED BY <2>1, <3>2, <3>5 DEF SameValue
  <2>5. CASE inst.op \in {"trunc", "sext", "zext", "binary", "icmp"}
    <3>1. y.source = ""
      BY <2>2, <2>5, ResultNumbers, FollowedValue
    <3>2. QED BY <2>1, <3>1 DEF IsReadOrOwn, SameValue
  <2>6. QED BY <1>2, <2>3, <2>4, <2>5
<1>5. QED BY <1>3, <1>4

LEMMA OriginsStore ==
  ASSUME ControlInv, PlaceInv, Running, NumbersInv, OriginsInv, UNCHANGED prog, ExecuteStore
  PROVE  OriginsInv'
<1>0. PICK x : IsStored(Current, x) /\ Binds(Current.b, x, exec.env)
  BY StoreBinds
<1>1. Code' = Code
  BY <1>0 DEF Binds, Code
<1> SUFFICES ASSUME NEW v \in DOMAIN exec'.env PROVE IsReadOrOwn(exec'.env[v].source, v)
  BY <1>1 DEF OriginsInv, IsReadOrOwn
<1>2. CASE v # Current.b
  <2>1. v \in DOMAIN exec.env /\ SameValue(exec'.env[v], exec.env[v])
    BY <1>0, <1>2 DEF Binds
  <2>2. QED BY <2>1 DEF OriginsInv, SameValue
<1>3. CASE v = Current.b
  <2>1. SameValue(exec'.env[v], x)
    BY <1>0, <1>3 DEF Binds
  <2>2. IsReadOrOwn(x.source, v)
    <3>1. CASE x \in Operand(Current.a)
      <4> DEFINE inst == Current
      <4>1. inst \in InstructionsOf(Code) /\ IsTyped(inst)
        BY CodeOfPlace DEF IsTypedBody
      <4>2. inst.op = "store"
        BY Zenon DEF ExecuteStore
      <4>3. inst.a \in Operands(inst)
        BY <4>1, <4>2 DEF IsTyped, Operands
      <4> HIDE DEF inst
      <4>4. x \in Operand(inst.a)
        BY <3>1 DEF inst
      <4>5. QED BY <4>1, <4>3, <4>4, OperandIsRead
    <3>2. CASE x.source \in Constant
      BY <3>2 DEF IsReadOrOwn
    <3>3. QED BY <1>0, <3>1, <3>2 DEF IsStored
  <2>3. QED BY <2>1, <2>2 DEF SameValue
<1>4. QED BY <1>2, <1>3

LEMMA OriginsMove ==
  ASSUME ControlInv, PlaceInv, Running, NumbersInv, OriginsInv, UNCHANGED prog,
         exec.k = Len(Code[exec.b]), NEW b, IsTold(b)
  PROVE  OriginsInv'
<1>1. Code' = Code /\ Moves(b) /\ b \in Successors(Current)
  BY DEF IsTold, Moves, Code
<1>2. b \in DOMAIN Code /\ exec.b \in Predecessors(Code, b)
  <2>1. Current = Terminator(Code[exec.b]) /\ exec.b \in DOMAIN Code /\ IsBody(Code)
    BY CodeOfPlace DEF Current, Terminator
  <2>2. QED BY <1>1, <2>1 DEF IsBody, Predecessors
<1> SUFFICES ASSUME NEW v \in DOMAIN exec'.env PROVE IsReadOrOwn(exec'.env[v].source, v)
  BY <1>1 DEF OriginsInv, IsReadOrOwn
<1>3. CASE v \in PhiNames(b)
  <2>1. PICK i \in PhisOf(Code, b) : \E y \in Operand(Code[b][i].in[exec.b]) :
                                       SameValue(exec'.env[v], y)
    BY <1>1, <1>3 DEF Moves
  <2>2. PICK y \in Operand(Code[b][i].in[exec.b]) : SameValue(exec'.env[v], y)
    BY <2>1
  <2> DEFINE inst == Code[b][i]
  <2>3. i \in DOMAIN Code[b] /\ inst.op = "phi"
    BY DEF PhisOf
  <2>4. inst \in InstructionsOf(Code) /\ DOMAIN inst.in = Predecessors(Code, b)
    <3>1. IsBody(Code)
      BY CodeOfPlace
    <3>2. DOMAIN inst.in = Predecessors(Code, b)
      BY <1>2, <2>3, <3>1 DEF IsBody
    <3>3. QED BY <1>2, <2>3, <3>2 DEF InstructionsOf, Range
  <2>5. inst.in[exec.b] \in Operands(inst)
    BY <1>2, <2>3, <2>4 DEF Operands, Range
  <2> HIDE DEF inst
  <2>6. y \in Operand(inst.in[exec.b])
    BY <2>2 DEF inst
  <2>7. IsReadOrOwn(y.source, v)
    BY <2>4, <2>5, <2>6, OperandIsRead
  <2>8. QED BY <2>2, <2>7 DEF SameValue
<1>4. CASE v \notin PhiNames(b)
  <2>1. v \in DOMAIN exec.env /\ SameValue(exec'.env[v], exec.env[v])
    BY <1>1, <1>4 DEF Moves
  <2>2. QED BY <2>1 DEF OriginsInv, SameValue
<1>5. QED BY <1>3, <1>4

LEMMA EntranceMove ==
  ASSUME ControlInv, PlaceInv, Running, AboutDomain, UNCHANGED <<prog, facts>>,
         exec.k = Len(Code[exec.b]), NEW b, IsTold(b)
  PROVE  EntranceInv'
<1>1. Code' = Code /\ Moves(b) /\ b \in Successors(Current) /\ exec'.fn = exec.fn
  BY DEF IsTold, Moves, Code
<1>2. Current = Terminator(Code[exec.b]) /\ exec.b \in DOMAIN Code
  BY CodeOfPlace DEF Current, Terminator
<1>3. exec.b \in Predecessors(Code, b)
  BY <1>1, <1>2 DEF Predecessors
<1>4. \A f \in Tested : exec'.about[f] # Undetermined =>
        TestOperand(Code, Current) \in DOMAIN exec'.env
  BY <1>1 DEF IsTold, Moves
<1>5. Tested = TestedBy(Code, facts.propagation[exec.fn], Terminator(Code[exec.b]))
  BY <1>2 DEF Tested
<1>6. exec'.b = b /\ facts' = facts
  BY <1>1 DEF Moves
<1>7. QED BY <1>1, <1>2, <1>3, <1>4, <1>5, <1>6 DEF EntranceInv

LEMMA UsesNext ==
  ControlInv /\ PlaceInv /\ ResultsInv /\ UsesInv /\ [ExecNext]_allVars => UsesInv'
<1> SUFFICES ASSUME ControlInv, PlaceInv, ResultsInv, UsesInv, [ExecNext]_allVars PROVE UsesInv'
  OBVIOUS
<1>1. CASE Analyse /\ UNCHANGED exec
  <2>1. ~ Running
    BY <1>1, AnalysisIsOver DEF PlaceInv
  <2>2. QED BY <1>1, <2>1 DEF UsesInv, Running
<1>2. CASE Run /\ UNCHANGED vars
  <2>0. UNCHANGED <<prog, facts>>
    BY <1>2 DEF vars
  <2>1. CASE ~ Running
    <3>1. PICK f \in DOMAIN prog.body : Enter(f)
      BY <1>2, <2>1 DEF Run, Running
    <3>2. exec'.env = <<>> /\ exec'.b = 1
      BY <3>1 DEF Enter, Idle
    <3>3. QED BY <3>2 DEF UsesInv, OriginsInv, EntranceInv
  <2>2. CASE Running
    <3>1. AboutDomain /\ NumbersInv /\ OriginsInv
      BY <2>2 DEF ResultsInv, UsesInv
    <3>2. CASE exec' = Idle
      BY <3>2 DEF UsesInv, Running, Idle
    <3>3. CASE ExecuteValue
      <4>1. exec'.k = exec.k + 1
        BY <2>2, <3>1, <3>3, ValueBinds DEF Binds
      <4>2. exec.k \in Nat /\ exec.k >= 1
        BY <2>2, CodeOfPlace
      <4>3. EntranceInv'
        BY <4>1, <4>2 DEF EntranceInv
      <4>4. QED BY <2>0, <2>2, <3>1, <3>3, <4>3, OriginsValue DEF UsesInv
    <3>4. CASE ExecuteStore
      <4>1. exec'.k = exec.k + 1
        BY <2>2, <3>1, <3>4, StoreBinds DEF Binds
      <4>2. exec.k \in Nat /\ exec.k >= 1
        BY <2>2, CodeOfPlace
      <4>3. EntranceInv'
        BY <4>1, <4>2 DEF EntranceInv
      <4>4. QED BY <2>0, <2>2, <3>1, <3>4, <4>3, OriginsStore DEF UsesInv
    <3>5. CASE exec.k = Len(Code[exec.b]) /\ \E b : IsTold(b)
      BY <2>0, <2>2, <3>1, <3>5, OriginsMove, EntranceMove DEF UsesInv
    <3>6. QED BY <1>2, <2>2, <3>2, <3>3, <3>4, <3>5, RunKinds
  <2>3. QED BY <2>1, <2>2
<1>3. CASE UNCHANGED allVars
  BY <1>3 DEF allVars, vars, UsesInv, OriginsInv, EntranceInv, IsReadOrOwn, Running, Code
<1>4. QED BY <1>1, <1>2, <1>3 DEF ExecNext
(* A comparison for equality with a constant leaves one sign, or none.     *)
LEMMA EqualityTells ==
  ASSUME NEW test, test.p = "eq", test.b \in DOMAIN IntegerConstant, test.a \notin Constant
  PROVE  AbstractICmp(test)[1] \in {"bottom", "<0", "0", ">0"}
<1> DEFINE c   == AbstractInteger(test.b)
           row == PredicateComplement[c]["eq"]
<1>1. /\ test.a # "null" /\ test.b # "null"
      /\ test.b \in ConstantInt /\ Signed(test.b) = test.b
  BY SignedConstants DEF Constant
<1>2. c \in {"0", ">0", "<0"}
  BY AbstractIntegerType
<1>3. AbstractICmp(test) = IF test.u THEN <<UnsignedReplacement[row[1]], UnsignedReplacement[row[2]]>>
                           ELSE row
  BY <1>1 DEF AbstractICmp
<1>4. row[1] = c
  BY <1>2 DEF PredicateComplement
<1>5. UnsignedReplacement[c] \in {"bottom", "0", ">0"}
  BY <1>2 DEF UnsignedReplacement, SignLatticeElement
<1> HIDE DEF c, row
<1>6. QED BY <1>2, <1>3, <1>4, <1>5

(* A constraint that is one sign is enough for a specification of it.      *)
LEMMA OneSignIsSufficient ==
  ASSUME NEW s \in {"<0", "0", ">0"}, NEW constraints, s \in constraints
  PROVE  IsSufficientlyChecked(constraints, s)
<1> DEFINE dead == {Complement(x) : x \in constraints} \cup {"top"}
           meets == {Meet(x, y) : x, y \in dead} \ {"bottom"}
           m    == Complement(s)
<1>1. /\ s \in SignLatticeElement /\ m \in SignLatticeElement /\ "top" \in SignLatticeElement
      /\ m # "bottom" /\ Complement(m) = s
  BY DEF SignLatticeElement, Complement
<1>2. Meet(m, "top") = m
  <2>1. Meet(m, "top") \in SignLatticeElement /\ Gamma[Meet(m, "top")] = Gamma[m] \cap Gamma["top"]
    BY <1>1, MeetIsExact
  <2>2. Gamma[m] \cap Gamma["top"] = Gamma[m]
    BY <1>1, GammaOfSigns, GammaRows
  <2>3. QED BY <1>1, <2>1, <2>2, GammaIsInjective
<1>3. m \in dead /\ "top" \in dead
  OBVIOUS
<1>4. m \in meets
  BY <1>1, <1>2, <1>3
<1>5. IsLessThan(s, Complement(m))
  BY <1>1, JoinRows DEF IsLessThan
<1>6. QED BY <1>4, <1>5 DEF IsSufficientlyChecked

LEMMA CollectedAtEntry ==
  ASSUME NEW body, NEW F, NEW f, f \notin Renamed, NEW b \in DOMAIN body, 1 \in DOMAIN body[b],
         F[b][1][f] # Absent
  PROVE  F[b][1][f] \in CollectConstraints(body, F, f)
<1>1. <<b, 1>> \in {q \in UNION {{c} \X DOMAIN body[c] : c \in DOMAIN body} : f \notin Renamed}
  OBVIOUS
<1>2. F[<<b, 1>>[1]][<<b, 1>>[2]][f] = F[b][1][f]
  OBVIOUS
<1>3. QED BY <1>1, <1>2 DEF CollectConstraints

(* Behind the test, the constraint is the sign itself.                     *)
LEMMA PassedTestLeavesItsSign ==
  ASSUME ControlInv, PlaceInv, ConstraintsInv, ResultsInv, CoverInv, Running, exec.k = 1,
         ~ HasLoneTest(Code), NEW f \in DOMAIN exec.about, NEW p \in DOMAIN Code,
         exec.about[f] # Undetermined, Predecessors(Code, exec.b) = {p},
         IsPassedTest(f, exec.b, p),
         NEW s \in {"<0", "0", ">0"}, SignOf(exec.about[f]) \in Gamma[s]
  PROVE  /\ f \in TestedBy(Code, facts.propagation[exec.fn], Terminator(Code[p]))
         /\ TestOperand(Code, Terminator(Code[p])) = TestOfEdge(p).a
         /\ TestOfEdge(p) \in InstructionsOf(Code)
         /\ facts.constraints[exec.fn][exec.b][1][f] = s
<1> DEFINE P    == facts.propagation[exec.fn]
           F    == facts.constraints[exec.fn]
           last == Terminator(Code[p])
           test == TestOfEdge(p)
           y    == F[exec.b][1][f]
<1>1. /\ last.op = "branch" /\ last.t = exec.b /\ last.e # exec.b
      /\ test = Definition(Code, last.a) /\ test.op = "icmp" /\ test.p = "eq"
      /\ test.b \in DOMAIN IntegerConstant /\ TestedCallees(Code, P, test.a) = {f}
  BY DEF IsPassedTest, TestOfEdge
<1>2. IsInstruction(Code, test.a)
  BY <1>1 DEF TestedCallees
<1>3. TestOperand(Code, last) = test.a
  BY <1>1, <1>2 DEF TestOperand, TestedValue
<1>4. TestedBy(Code, P, last) = {f}
  BY <1>1, <1>2 DEF TestedBy, TestedValue
<1>5. test \in InstructionsOf(Code)
  BY <1>1, DefinedInstruction
<1>6. test.a \notin Constant
  BY <1>2, CodeOfPlace, InstructionsHaveNames DEF IsInstruction, IsName
<1>7. /\ exec.fn \in DOMAIN prog.body /\ exec.b \in DOMAIN Code
      /\ IsNarrow(Code, P, F) /\ HasConstraintFacts(Code, F)
  BY CodeOfPlace DEF ConstraintsInv, Code
<1>8. OutcomesOf(Code, last) = {<<last.t, AbstractICmp(test)[1]>>, <<last.e, AbstractICmp(test)[2]>>}
  BY <1>1 DEF OutcomesOf, BranchOutcomes
<1>9. f \in Callees(Code)
  BY DEF ResultsInv, AboutDomain
<1>10. Covers(y, exec.about[f])
  BY <1>9 DEF CoverInv, FactsHere
<1>11. y \in Known
  <2>1. 1 \in 1..Len(Code[exec.b]) + 1
    BY CodeOfPlace
  <2>2. F[exec.b][1] \in [Callees(Code) -> Known]
    BY <1>7, <2>1 DEF HasConstraintFacts, HasKnownFacts
  <2>3. QED BY <1>9, <2>2
<1>12. SignsOf(y) \subseteq AllowedBy(OutcomesOf(Code, last), exec.b)
  BY <1>4, <1>7 DEF IsNarrow
<1> HIDE DEF P, F, last, test, y
<1>13. AllowedBy(OutcomesOf(Code, last), exec.b) = Gamma[AbstractICmp(test)[1]]
  <2>1. PICK x, z : x = AbstractICmp(test)[1] /\ z = AbstractICmp(test)[2]
    OBVIOUS
  <2>2. {o \in OutcomesOf(Code, last) : o[1] = exec.b} = {<<exec.b, x>>}
    BY <1>1, <1>8, <2>1
  <2>3. AllowedBy(OutcomesOf(Code, last), exec.b) = UNION {Gamma[o[2]] : o \in {<<exec.b, x>>}}
    BY <2>2 DEF AllowedBy
  <2>4. QED BY <2>1, <2>3
<1>14. AbstractICmp(test)[1] \in {"bottom", "<0", "0", ">0"}
  BY <1>1, <1>6, EqualityTells
<1>15. y \in SignLatticeElement /\ SignOf(exec.about[f]) \in Gamma[y]
       /\ Gamma[y] \subseteq Gamma[AbstractICmp(test)[1]]
  BY <1>10, <1>11, <1>12, <1>13 DEF Covers, Known, SignsOf
<1>16. Gamma[y] = Gamma[s]
  <2>1. PICK r \in {"bottom", "<0", "0", ">0"} :
          SignOf(exec.about[f]) \in Gamma[y] /\ Gamma[y] \subseteq Gamma[r]
    BY <1>14, <1>15
  <2>2. SignOf(exec.about[f]) \in Gamma[r] /\ SignOf(exec.about[f]) \in Gamma[s]
    BY <2>1
  <2>3. Gamma[r] = {SignOf(exec.about[f])} /\ Gamma[s] = {SignOf(exec.about[f])}
    BY <2>2, GammaRows
  <2>4. QED BY <2>1, <2>3
<1>17. y = s
  BY <1>15, <1>16, GammaIsInjective DEF SignLatticeElement
<1>18. QED BY <1>3, <1>4, <1>5, <1>17 DEF P, F, last, test, y

(* insufficient_checks_pass.h: "checking -1 is considered sufficient for   *)
(* an error specification of less than zero".  Whatever the program, once  *)
(* a result has passed the test for a constant, no call of the function is *)
(* reported as insufficiently checked for the sign of that constant, and   *)
(* the call that gave the result is not reported as unused.                *)
THEOREM PassedTestsAreNoBugs == ExecSpec => []TestedErrorsAreNoBugs
<1>1. ExecInit => ResultsInv /\ CoverInv /\ UsesInv
  BY DEF ExecInit, Idle, Running, ResultsInv, CoverInv, UsesInv
<1>2. /\ ExecutionInv /\ ConstraintsInv /\ ResultsInv /\ CoverInv /\ UsesInv
      /\ [ExecNext]_allVars
      => ResultsInv' /\ CoverInv' /\ UsesInv'
  BY ResultsNext, CoverNext, UsesNext DEF ExecutionInv
<1>3. ExecutionInv /\ ConstraintsInv /\ ResultsInv /\ CoverInv /\ UsesInv => TestedErrorsAreNoBugs
  <2> SUFFICES ASSUME ControlInv, PlaceInv, ConstraintsInv, ResultsInv, CoverInv, UsesInv,
                      Running, exec.k = 1, ~ HasLoneTest(Code),
                      NEW f \in DOMAIN exec.about \ Renamed, NEW p \in DOMAIN Code,
                      exec.about[f] # Undetermined, Predecessors(Code, exec.b) = {p},
                      IsPassedTest(f, exec.b, p),
                      NEW call \in InstructionsOf(Code), call.op = "call", call.f = f,
                      NEW s \in {"<0", "0", ">0"}, SignOf(exec.about[f]) \in Gamma[s]
               PROVE  /\ ~ IsReportedInsufficient(Code, prog.void, facts.propagation[exec.fn],
                                                  facts.constraints[exec.fn], call, s)
                      /\ exec.env[TestOfEdge(p).a].source = call.id =>
                           ~ IsReportedUnused(Code, prog.void, call, s)
    BY DEF TestedErrorsAreNoBugs, ExecutionInv
  <2> DEFINE F    == facts.constraints[exec.fn]
             test == TestOfEdge(p)
  <2>1. /\ f \in TestedBy(Code, facts.propagation[exec.fn], Terminator(Code[p]))
        /\ TestOperand(Code, Terminator(Code[p])) = test.a
        /\ test \in InstructionsOf(Code) /\ F[exec.b][1][f] = s
    BY PassedTestLeavesItsSign
  <2>2. /\ exec.b \in DOMAIN Code /\ 1 \in DOMAIN Code[exec.b]
        /\ IsBody(Code) /\ IsTypedBody(Code)
    BY CodeOfPlace
  <2>3. ~ IsReportedInsufficient(Code, prog.void, facts.propagation[exec.fn], F, call, s)
    <3>1. s # Absent
      BY DEF Absent
    <3> HIDE DEF F
    <3>2. s \in CollectConstraints(Code, F, f)
      BY <2>1, <2>2, <3>1, CollectedAtEntry
    <3>3. QED BY <3>2, OneSignIsSufficient DEF IsReportedInsufficient
  <2>4. ASSUME exec.env[test.a].source = call.id
        PROVE  ~ IsReportedUnused(Code, prog.void, call, s)
    <3>1. exec.b # 1
      BY <2>2 DEF IsBody, Predecessors
    <3>2. test.a \in DOMAIN exec.env
      <4>1. PICK q \in Predecessors(Code, exec.b) :
              \A g \in TestedBy(Code, facts.propagation[exec.fn], Terminator(Code[q])) :
                exec.about[g] # Undetermined =>
                  TestOperand(Code, Terminator(Code[q])) \in DOMAIN exec.env
        BY <3>1 DEF UsesInv, EntranceInv
      <4>2. q = p
        OBVIOUS
      <4>3. QED BY <2>1, <4>1, <4>2
    <3>3. IsReadOrOwn(call.id, test.a)
      BY <2>4, <3>2 DEF UsesInv, OriginsInv
    <3>4. IsName(call.id)
      BY <2>2, InstructionsHaveNames
    <3>5. test.op = "icmp"
      BY DEF IsPassedTest
    <3>6. test.a \in Operands(test)
      BY <2>1, <2>2, <3>5 DEF Operands, IsTypedBody, IsTyped
    <3>7. \E i \in InstructionsOf(Code) : call.id \in Operands(i)
      BY <2>1, <3>3, <3>4, <3>6 DEF IsReadOrOwn, IsName
    <3>8. QED BY <3>7 DEF IsReportedUnused, IsUnused
  <2>5. QED BY <2>3, <2>4
<1>4. QED BY <1>1, <1>2, <1>3, ConstraintsAlways, PTL DEF ExecSpec

(***************************************************************************)
(* The ranges are true of the execution.  What a name holds is within its  *)
(* entry, if something was given a range in it on the way there and it may *)
(* still be returned, and within its AbstractValue if the pass keeps no    *)
(* entries of it: then there are no tests of it either.                    *)
(***************************************************************************)
MayReturn == facts.returned[exec.fn]
RangeFacts == facts.range[exec.fn]

IsRangedHere ==
  \A b \in DOMAIN Code :
    IsFullyRanged(Code, ranges, MayReturn, RangeFacts, b, ranges[exec.fn])

IsJudged == ~ HasLoneTest(Code) /\ IsPlain(Code)

IsAbstract(v, n) == SignOf(n) \in Gamma[AbstractValue(Code, ranges, v)]

AbstractInv ==
  Running =>
    \A v \in (DOMAIN exec.env \cap UsedIn(Code)) \ Tracked(Code) : IsAbstract(v, exec.env[v].n)

KeptInv ==
  Running =>
    /\ exec.fn \notin prog.void
    /\ IsJudged /\ ~ exec.loose =>
         \A v \in DOMAIN exec.env \cap Tracked(Code) : v \in FactsHere("returned") =>
           IsRangedHere /\ Covers(FactsHere("range")[v], exec.env[v].n)

(* What the analysis has left of the function that is executed.            *)
LEMMA RangedHere ==
  ASSUME ExecutionInv, RangeInv, TrackedInv, Running, IsJudged, exec.fn \notin prog.void
  PROVE  /\ AreRanges(ranges) /\ ranges[exec.fn] \in Known
         /\ HasRangeFacts(Code, RangeFacts) /\ TracksOnly(Code, MayReturn, RangeFacts)
         /\ \/ IsRangedHere
            \/ \A b \in DOMAIN Code : /\ TracksNothing(Code, MayReturn, b)
                                      /\ IsReturnAbstract(Code, ranges, b, ranges[exec.fn])
<1>1. exec.fn \in DOMAIN prog.body /\ pass = "done"
  BY DEF ExecutionInv, PlaceInv
<1>2. RangeSettled(exec.fn)
  BY <1>1, RangesSettle
<1>3. /\ AreRanges(ranges) /\ ranges[exec.fn] \in Known
      /\ HasRangeFacts(Code, RangeFacts) /\ TracksOnly(Code, MayReturn, RangeFacts)
  <2>1. AreRanges(ranges) /\ ranges[exec.fn] \in Known
    BY <1>1 DEF RangeInv, RangeFactsInv, RangePlaceInv, AreRanges
  <2>2. HasRangeFacts(Code, RangeFacts)
    BY <1>1 DEF RangeInv, RangeFactsInv, HasRangeFacts, RangeFacts, Code
  <2>3. TracksOnly(Code, MayReturn, RangeFacts)
    BY <1>1 DEF TrackedInv, IsJudged, MayReturn, RangeFacts, Code
  <2>4. QED BY <2>1, <2>2, <2>3
<1>4. \/ IsRangedHere
      \/ \A b \in DOMAIN Code : IsNowhereRanged(Code, ranges, MayReturn, b, ranges[exec.fn])
  BY <1>2 DEF RangeSettled, IsJudged, IsRangedHere, MayReturn, RangeFacts, Code
<1>5. QED BY <1>3, <1>4 DEF IsNowhereRanged, IsJudged

(* The names that entries are kept of are names, and nothing is known of   *)
(* them but for their entries.                                             *)
LEMMA TrackedAreNames ==
  ASSUME NEW body, IsBody(body), NEW v \in Tracked(body)
  PROVE  /\ v \notin Constant /\ v \in ValuesOf(body)
         /\ v \in Slots(body) \/ IsInstruction(body, v)
         /\ IsPlain(body) => \A D : AbstractValue(body, D, v) = "top"
<1>1. PICK i \in InstructionsOf(body) : v \in Target(i)
  BY DEF Tracked
<1>2. PICK b \in DOMAIN body : i \in Range(body[b])
  BY DEF InstructionsOf
<1>3. PICK k \in DOMAIN body[b] : i = body[b][k]
  BY <1>2 DEF Range
<1>4. k \in 1..Len(body[b])
  BY BodyShape
<1>5. IsName(i.id) /\ (i.op = "store" => IsName(i.b))
  BY <1>3 DEF IsBody, IsBlock
<1>6. /\ i.op = "store" => v = i.b
      /\ i.op # "store" => v = i.id /\ i.op \in LoadLike \cup {"trunc", "sext", "phi"}
  BY <1>1 DEF Target
<1>7. v \notin Constant /\ v \in ValuesOf(body)
  BY <1>5, <1>6 DEF IsName, ValuesOf, Slots
<1>8. v \in Slots(body) \/ IsInstruction(body, v)
  BY <1>6 DEF Slots, IsInstruction
<1>9. ASSUME IsPlain(body), NEW D PROVE AbstractValue(body, D, v) = "top"
  <2>1. Definition(body, v).op \notin {"call", "zext"}
    <3>1. CASE i.op = "store"
      <4>1. v \in Slots(body)
        BY <1>6, <3>1 DEF Slots
      <4>2. \A j \in InstructionsOf(body) : j.id # v
        BY <1>9, <4>1 DEF IsPlain
      <4>3. Definition(body, v).op = "none"
        BY <4>2 DEF Definition
      <4>4. QED BY <4>3
    <3>2. CASE i.op # "store"
      <4>1. Definition(body, v) = i
        BY <1>3, <1>6, <3>2, DefinitionOfPlace
      <4>2. QED BY <1>6, <3>2, <4>1 DEF LoadLike, BitCastLike
    <3>3. QED BY <3>1, <3>2
  <2>2. v \notin DOMAIN IntegerConstant /\ v \notin {"null", "true", "literal"}
    BY <1>7 DEF Constant
  <2>3. QED BY <2>1, <2>2 DEF AbstractValue
<1>10. QED BY <1>7, <1>8, <1>9

(* What the instruction at the current place gives a value has entries of  *)
(* its own, or has none in the whole body.                                 *)
LEMMA UntrackedResult ==
  ASSUME NEW body, IsBody(body), IsPlain(body), NEW b \in DOMAIN body, NEW k \in DOMAIN body[b],
         body[b][k].id \in Tracked(body)
  PROVE  body[b][k].op \in LoadLike \cup {"trunc", "sext", "phi"}
<1>1. PICK i \in InstructionsOf(body) : body[b][k].id \in Target(i)
  BY DEF Tracked
<1>2. PICK c \in DOMAIN body : i \in Range(body[c])
  BY DEF InstructionsOf
<1>3. PICK j \in DOMAIN body[c] : i = body[c][j]
  BY <1>2 DEF Range
<1>4. body[b][k] \in InstructionsOf(body)
  BY BodyShape
<1>5. i.op # "store"
  <2>1. i.op = "store" => i.b \in Slots(body)
    BY DEF Slots
  <2>2. QED BY <1>1, <1>4, <2>1 DEF Target, IsPlain
<1>6. body[b][k].id = i.id /\ i.op \in LoadLike \cup {"trunc", "sext", "phi"}
  BY <1>1, <1>5 DEF Target
<1>7. c = b /\ j = k
  BY <1>3, <1>6 DEF IsBody
<1>8. QED BY <1>3, <1>6, <1>7

LEMMA ConstantIsAbstract ==
  ASSUME IsBody(Code), NEW v \in Constant
  PROVE  IsAbstract(v, ConstantNumber(v))
<1>0. DOMAIN IntegerConstant = {"-1", "0", "1"} /\ Definition(Code, v).op = "none"
  BY NoDefinition DEF IntegerConstant
<1>1. CASE v \in DOMAIN IntegerConstant
  <2>1. AbstractValue(Code, ranges, v) = AbstractInteger(v)
    BY <1>0, <1>1 DEF AbstractValue
  <2>2. AbstractInteger(v) = ClassOf(ConstantNumber(v)) /\ ConstantNumber(v) \in Int
    BY <1>1, ConstantNumbers
  <2>3. QED BY <2>1, <2>2, SignsOfNumbers, GammaRows DEF ClassOf, IsAbstract
<1>2. CASE v = "null"
  <2>1. v \notin DOMAIN IntegerConstant
    BY <1>0, <1>2
  <2>2. AbstractValue(Code, ranges, v) = "0"
    BY <1>0, <1>2, <2>1 DEF AbstractValue
  <2>3. ConstantNumber(v) = 0
    BY <1>2, ConstantNumbers
  <2>4. QED BY <2>2, <2>3, SignsOfNumbers, GammaRows DEF IsAbstract
<1>3. CASE v \in {"true", "literal"}
  <2>1. v \notin DOMAIN IntegerConstant /\ v # "null"
    BY <1>0, <1>3
  <2>2. AbstractValue(Code, ranges, v) = "!=0"
    BY <1>0, <1>3, <2>1 DEF AbstractValue
  <2>3. ConstantNumber(v) = 1
    BY <1>3, <2>1 DEF ConstantNumber
  <2>4. QED BY <2>2, <2>3, SignsOfNumbers, GammaRows DEF IsAbstract
<1>4. QED BY <1>1, <1>2, <1>3 DEF Constant

(* What is not a name that something was given a range in is within its    *)
(* AbstractValue, and the pass has no entry of it.                         *)
LEMMA UntrackedOperand ==
  ASSUME ControlInv, PlaceInv, Running, NumbersInv, AbstractInv, NEW v \in UsedIn(Code),
         ~ IsUnset(v), NEW y \in Operand(v), v \notin DOMAIN exec.env \cap Tracked(Code)
  PROVE  v \notin Tracked(Code) /\ IsAbstract(v, y.n)
<1>0. IsBody(Code)
  BY CodeOfPlace
<1>1. v \notin Tracked(Code)
  BY <1>0, TrackedAreNames DEF IsUnset
<1>2. CASE v \in Constant
  BY <1>0, <1>1, <1>2, OperandNumbers, ConstantIsAbstract
<1>3. CASE v \notin Constant /\ v \in DOMAIN exec.env
  BY <1>1, <1>3 DEF Operand, AbstractInv
<1>4. CASE v \notin Constant /\ v \notin DOMAIN exec.env
  <2>1. ~ IsInstruction(Code, v)
    BY <1>4 DEF IsUnset
  <2>2. Definition(Code, v).op = "none"
    BY <2>1 DEF Definition, IsInstruction
  <2>3. AbstractValue(Code, ranges, v) = "top"
    BY <1>4, <2>2 DEF AbstractValue, Constant
  <2>4. QED BY <1>1, <2>3, OperandNumbers, TopTells DEF IsAbstract
<1>5. QED BY <1>2, <1>3, <1>4

(* What an operand holds is within the range that the pass takes it to be. *)
LEMMA OperandInRange ==
  ASSUME ExecutionInv, RangeInv, TrackedInv, Running, NumbersInv, AbstractInv, KeptInv,
         IsJudged, ~ exec.loose, NEW v \in UsedIn(Code), ~ IsUnset(v), NEW y \in Operand(v),
         v \in DOMAIN exec.env => v \in FactsHere("returned")
  PROVE  SignOf(y.n) \in Gamma[RangeOf(Code, ranges, FactsHere("range"), v)]
<1> DEFINE fact == FactsHere("range")
<1>0. ControlInv /\ PlaceInv
  BY DEF ExecutionInv
<1>1. CASE v \in DOMAIN exec.env \cap Tracked(Code)
  <2>1. Covers(fact[v], exec.env[v].n)
    BY <1>1 DEF KeptInv
  <2>2. y = exec.env[v]
    BY <1>0, <1>1, NumbersOfName
  <2>3. QED BY <2>1, <2>2 DEF Covers, RangeOf
<1>2. CASE v \notin DOMAIN exec.env \cap Tracked(Code)
  <2>1. v \notin Tracked(Code) /\ IsAbstract(v, y.n)
    BY <1>0, <1>2, UntrackedOperand
  <2>2. exec.b \in DOMAIN Code /\ exec.k \in 1..Len(Code[exec.b]) + 1
    <3>1. exec.b \in DOMAIN Code /\ exec.k \in 1..Len(Code[exec.b]) /\ Len(Code[exec.b]) \in Nat
      BY <1>0, CodeOfPlace
    <3>2. QED BY <3>1
  <2>3. v \in ValuesOf(Code)
    BY DEF ValuesOf
  <2>4. TracksOnly(Code, MayReturn, RangeFacts)
    BY RangedHere DEF KeptInv
  <2>5. fact[v] = Absent
    BY <2>1, <2>2, <2>3, <2>4 DEF TracksOnly, FactsHere, RangeFacts
  <2>6. QED BY <2>1, <2>5 DEF RangeOf, IsAbstract
<1>3. QED BY <1>1, <1>2

(***************************************************************************)
(* What the outcome of a test tells of the slot the pass takes it to be    *)
(* about, if that holds what the test looks at.                            *)
(***************************************************************************)
SlotsHere == SlotsTested(Code, Current, ReturnableBehind)

SlotOutcomes ==
  IF Current.op = "branch" THEN BranchOutcomes(Code, Current)
  ELSE CaseOutcomes(Current) \cup {<<Current.e, "top">>}

IsToldOfSlot(b) ==
  /\ b \in Successors(Current) /\ Moves(b)
  /\ ~ exec'.loose =>
       /\ ~ exec.loose
       /\ \A i \in PhisOf(Code, b) : ~ IsUnset(Code[b][i].in[exec.b])
       /\ \A slot \in SlotsHere \cap DOMAIN exec.env :
            \E o \in SlotOutcomes : o[1] = b /\ SignOf(exec.env[slot].n) \in Gamma[o[2]]

LEMMA JumpTellsOfSlot ==
  ASSUME PlaceInv, Running, ExecuteJump
  PROVE  \E b : IsToldOfSlot(b)
<1>1. Current.op = "jump" /\ Successors(Current) = {Current.t}
  BY DEF ExecuteJump, Successors
<1> PICK b \in Successors(Current) : b = Current.t
  BY <1>1
<1>2. /\ Moves(b)
      /\ exec'.loose = (exec.loose \/ \E i \in PhisOf(Code, b) : IsUnset(Code[b][i].in[exec.b]))
  BY GotoMoves DEF ExecuteJump
<1>3. SlotsHere = {}
  BY <1>1 DEF SlotsHere, SlotsTested, SlotOf
<1>4. QED BY <1>2, <1>3 DEF IsToldOfSlot

LEMMA BranchTellsOfSlot ==
  ASSUME ControlInv, PlaceInv, Running, NumbersInv, ComparisonsInv, IsPlain(Code), ExecuteBranch
  PROVE  \E b : IsToldOfSlot(b)
<1> DEFINE test   == Definition(Code, Current.a)
           slot   == BranchedSlot(Code, test, ReturnableBehind)
           untold == test.op = "icmp"
                     /\ (OutOfTable(test) \/ \E w \in SpokenOf(test) : IsLoose(slot, w))
<1>1. Current.op = "branch" /\ Successors(Current) = {Current.t, Current.e}
  BY DEF ExecuteBranch, Successors
<1>2. PICK x \in Operand(Current.a) : \E about :
        Goto(IF x.n # 0 THEN Current.t ELSE Current.e, about, exec.loose \/ untold)
  BY Zenon DEF ExecuteBranch
<1> PICK b \in Successors(Current) : b = IF x.n # 0 THEN Current.t ELSE Current.e
  BY <1>1
<1>3. /\ Moves(b)
      /\ ~ exec'.loose => /\ ~ exec.loose /\ ~ untold
                          /\ \A i \in PhisOf(Code, b) : ~ IsUnset(Code[b][i].in[exec.b])
  <2> HIDE DEF untold
  <2>1. PICK about : Goto(b, about, exec.loose \/ untold)
    BY <1>2
  <2>2. QED BY <2>1, GotoMoves
<1>4. ASSUME ~ exec'.loose, NEW s \in SlotsHere \cap DOMAIN exec.env
      PROVE  \E o \in SlotOutcomes : o[1] = b /\ SignOf(exec.env[s].n) \in Gamma[o[2]]
  <2>1. s = slot
    BY <1>1 DEF SlotsHere, SlotsTested, SlotOf
  <2>2. test.op = "icmp"
    BY <1>1, <1>4, SlotOfComparison DEF SlotsHere
  <2>3. ~ OutOfTable(test) /\ \A w \in SpokenOf(test) : ~ IsLoose(slot, w)
    BY <1>3, <1>4, <2>2
  <2>4. IsCurrent(test) /\ test.id = Current.a /\ IsTyped(test) /\ test \in InstructionsOf(Code)
    BY <1>1, <2>2, TestIsCurrent, DefinedInstruction
  <2>5. PICK l \in Numbers(test.a), r \in Numbers(test.b) :
          exec.env[test.id].n = IF Compare(test, l, r) THEN 1 ELSE 0
    BY <2>4 DEF IsCurrent
  <2>6. PICK lv \in Operand(test.a), rv \in Operand(test.b) : l = lv.n /\ r = rv.n
    BY DEF Numbers
  <2>7. x.n = exec.env[test.id].n
    BY <1>2, <2>4, NumbersOfName DEF IsCurrent
  <2>8. IsCompared(test, l, r)
    <3>1. /\ l \in Int /\ r \in Int
          /\ test.a \in Constant => l = ConstantNumber(test.a)
          /\ test.b \in Constant => r = ConstantNumber(test.b)
      BY <2>6, OperandNumbers
    <3>2. test.u => l >= 0 /\ r >= 0
      BY <2>3, <2>6, <3>1 DEF OutOfTable
    <3>3. QED BY <2>2, <2>3, <2>4, <3>1, <3>2 DEF IsCompared, IsTyped, OutOfTable
  <2>9. ASSUME NEW w \in SpokenOf(test), NEW y \in Operand(w)
        PROVE  SignOf(exec.env[s].n) = SignOf(y.n)
    BY <2>1, <2>3 DEF IsLoose
  <2>10. SignOf(exec.env[s].n) \in Gamma[Outcome(test, l, r)]
    <3>1. CASE IsTabled(test.b)
      <4>1. SpokenOf(test) = {test.a}
        BY <3>1 DEF SpokenOf
      <4>2. test.a \notin Constant
        BY <2>2, <2>4, <3>1 DEF IsPlain, IsTabled, Constant, ConstantInt
      <4>3. QED BY <2>6, <2>8, <2>9, <4>1, <4>2, LeftIsTold
    <3>2. CASE ~ IsTabled(test.b) /\ IsTabled(test.a)
      <4>1. SpokenOf(test) = {test.b}
        BY <3>2 DEF SpokenOf
      <4>2. test.b \notin Constant
        BY <2>2, <2>4, <3>2 DEF IsPlain, IsTabled, Constant, ConstantInt
      <4>3. QED BY <2>6, <2>8, <2>9, <4>1, <4>2, RightIsTold
    <3>3. CASE ~ IsTabled(test.b) /\ ~ IsTabled(test.a)
      <4>1. AbstractICmp(test) = <<"top", "top">>
        BY <3>3 DEF AbstractICmp, IsTabled
      <4>2. Outcome(test, l, r) = "top" /\ exec.env[s].n \in Int
        BY <4>1 DEF Outcome, NumbersInv
      <4>3. QED BY <4>2, TopTells
    <3>4. QED BY <3>1, <3>2, <3>3
  <2>11. SlotOutcomes = {<<Current.t, AbstractICmp(test)[1]>>, <<Current.e, AbstractICmp(test)[2]>>}
    BY <1>1 DEF SlotOutcomes, BranchOutcomes
  <2> HIDE DEF test, slot, untold
  <2>12. CASE Compare(test, l, r)
    <3>1. b = Current.t /\ Outcome(test, l, r) = AbstractICmp(test)[1]
      BY <2>5, <2>7, <2>12 DEF Outcome
    <3>2. QED BY <2>10, <2>11, <3>1
  <2>13. CASE ~ Compare(test, l, r)
    <3>1. b = Current.e /\ Outcome(test, l, r) = AbstractICmp(test)[2]
      BY <2>5, <2>7, <2>13 DEF Outcome
    <3>2. QED BY <2>10, <2>11, <3>1
  <2>14. QED BY <2>12, <2>13
<1>5. QED BY <1>3, <1>4 DEF IsToldOfSlot

LEMMA SwitchTellsOfSlot ==
  ASSUME ControlInv, PlaceInv, Running, NumbersInv, ExecuteSwitch
  PROVE  \E b : IsToldOfSlot(b)
<1> DEFINE taken(n) == {i \in DOMAIN Current.cases :
                          IntegerConstant[Current.cases[i].value] = n}
           v        == Current.a
           slot     == CheckedReturnValue(Code, Current, v, ReturnableBehind)
           loose    == exec.loose \/ IsLoose(slot, v)
<1>1. /\ Current.op = "switch"
      /\ Successors(Current) = {Current.cases[i].to : i \in DOMAIN Current.cases} \cup {Current.e}
  BY DEF ExecuteSwitch, Successors
<1>2. IsTyped(Current)
  BY CodeOfPlace DEF IsTypedBody
<1>3. PICK x \in Operand(v) :
        IF taken(x.n) # {}
        THEN \E about : Goto(Current.cases[CHOOSE i \in taken(x.n) : TRUE].to, about, loose)
        ELSE \E about : Goto(Current.e, about, loose)
  <2>1. \E x \in Operand(v) :
          IF taken(x.n) # {}
          THEN \E about : Goto(Current.cases[CHOOSE i \in taken(x.n) : TRUE].to, about, loose)
          ELSE \E about : Goto(Current.e, about, loose)
    BY Zenon DEF ExecuteSwitch
  <2>2. QED BY <2>1
<1>4. SlotsHere \subseteq {slot}
  BY <1>1 DEF SlotsHere, SlotsTested, SlotOf
<1>5. SlotOutcomes = CaseOutcomes(Current) \cup {<<Current.e, "top">>}
  BY <1>1 DEF SlotOutcomes
<1>6. x.n \in Int
  BY OperandNumbers
<1>7. PICK o \in SlotOutcomes :
        /\ o[1] \in Successors(Current) /\ SignOf(x.n) \in Gamma[o[2]]
        /\ \E about : Goto(o[1], about, loose)
  <2>1. CASE taken(x.n) = {}
    <3>1. <<Current.e, "top">> \in SlotOutcomes /\ SignOf(x.n) \in Gamma["top"]
      BY <1>5, <1>6, TopTells
    <3>2. QED BY <1>1, <1>3, <2>1, <3>1
  <2>2. CASE taken(x.n) # {}
    <3> DEFINE i == CHOOSE j \in taken(x.n) : TRUE
    <3>1. i \in DOMAIN Current.cases /\ IntegerConstant[Current.cases[i].value] = x.n
      BY <2>2
    <3>2. Current.cases[i].value \in DOMAIN IntegerConstant
      BY <1>1, <1>2, <3>1 DEF IsTyped
    <3>3. \E about : Goto(Current.cases[i].to, about, loose)
      BY <1>3, <2>2
    <3> HIDE DEF i, taken
    <3>4. AbstractInteger(Current.cases[i].value) = ClassOf(x.n)
      BY <3>1, <3>2, ConstantNumbers
    <3>5. <<Current.cases[i].to, ClassOf(x.n)>> \in SlotOutcomes
      BY <1>5, <3>1, <3>4 DEF CaseOutcomes
    <3>6. SignOf(x.n) \in Gamma[ClassOf(x.n)]
      BY <1>6, SignsOfNumbers, GammaRows DEF ClassOf
    <3>7. QED BY <1>1, <3>1, <3>3, <3>5, <3>6
  <2>3. QED BY <2>1, <2>2
<1> PICK b \in Successors(Current) : b = o[1]
  BY <1>7
<1>8. /\ Moves(b)
      /\ ~ exec'.loose => /\ ~ loose
                          /\ \A i \in PhisOf(Code, b) : ~ IsUnset(Code[b][i].in[exec.b])
  <2> HIDE DEF loose
  <2>1. PICK about : Goto(b, about, loose)
    BY <1>7
  <2>2. QED BY <2>1, GotoMoves
<1>9. ASSUME ~ exec'.loose, NEW s \in SlotsHere \cap DOMAIN exec.env
      PROVE  SignOf(exec.env[s].n) = SignOf(x.n)
  BY <1>3, <1>4, <1>8, <1>9 DEF IsLoose
<1>10. QED BY <1>7, <1>8, <1>9 DEF IsToldOfSlot

(***************************************************************************)
(* Each step of the execution keeps what the values without entries are.   *)
(***************************************************************************)
LEMMA ResultIsAbstract ==
  ASSUME ControlInv, PlaceInv, RangeInv, Running, NumbersInv,
         Current.op \in LoadLike \cup {"trunc", "sext", "zext", "binary", "icmp", "call"},
         NEW x \in Results(Current), Current.id \in UsedIn(Code) \ Tracked(Code)
  PROVE  IsAbstract(Current.id, x.n)
<1> DEFINE v == Current.id
<1>1. /\ IsBody(Code) /\ Current \in InstructionsOf(Code) /\ exec.fn \in DOMAIN prog.body
      /\ Definition(Code, v) = Current
  BY CodeOfPlace, DefinitionOfPlace DEF Current
<1>2. v \notin DOMAIN IntegerConstant /\ v \notin {"null", "true", "literal"}
  BY <1>1, InstructionsHaveNames DEF IsName, Constant
<1>3. Current.op \in {"zext", "binary", "icmp", "call"}
  <2>1. Current.op \in LoadLike \cup {"trunc", "sext"} => Target(Current) = {v}
    BY DEF Target, LoadLike, BitCastLike
  <2>2. Target(Current) \subseteq Tracked(Code)
    BY <1>1 DEF Tracked
  <2>3. QED BY <2>1, <2>2
<1>4. x.n \in Int
  BY ResultNumbers
<1>5. CASE Current.op \in {"binary", "icmp"} \/ (Current.op = "call" /\ Current.f \notin DOMAIN ranges)
  <2>1. AbstractValue(Code, ranges, v) = "top"
    BY <1>1, <1>2, <1>5 DEF AbstractValue
  <2>2. QED BY <1>4, <2>1, TopTells DEF IsAbstract
<1>6. CASE Current.op = "zext"
  <2>1. AbstractValue(Code, ranges, v) = ">=0"
    BY <1>1, <1>2, <1>6 DEF AbstractValue
  <2>2. x \in Extended(Current)
    BY <1>6 DEF Results, LoadLike, BitCastLike
  <2>3. PICK y \in Operand(Current.a) : x = Fresh(IF y.n < 0 THEN 2 ELSE y.n, "")
    BY <2>2 DEF Extended
  <2>4. y.n \in Int
    BY OperandNumbers
  <2>5. PICK m \in Int : m = (IF y.n < 0 THEN 2 ELSE y.n) /\ m >= 0
    BY <2>4
  <2>6. x = Fresh(m, "")
    BY <2>3, <2>5
  <2>7. x.n = m
    BY <2>6, FreshValue
  <2>8. m = 0 \/ m > 0
    BY <2>5
  <2>9. SignOf(m) \in {"zero", "pos"}
    BY <2>8, SignsOfNumbers
  <2>10. QED BY <2>1, <2>7, <2>9, GammaRows DEF IsAbstract
<1>7. CASE Current.op = "call" /\ Current.f \in DOMAIN ranges
  <2>1. Current.f \in DOMAIN prog.body
    BY <1>7 DEF RangeInv, RangePlaceInv
  <2>2. Current.f \notin prog.void
    BY <1>1, <1>7, ProgramsAssumption DEF ControlInv, IsProgram, Code
  <2>3. x \in Called(Current)
    BY <1>7 DEF Results, LoadLike, BitCastLike
  <2>4. ranges[Current.f] # Absent /\ SignOf(x.n) \in Gamma[ranges[Current.f]]
    BY <2>1, <2>2, <2>3 DEF Called
  <2>5. AbstractValue(Code, ranges, v) = ranges[Current.f]
    BY <1>1, <1>2, <1>7, <2>4 DEF AbstractValue
  <2>6. QED BY <2>4, <2>5 DEF IsAbstract
<1>8. QED BY <1>3, <1>5, <1>6, <1>7

(* Names that keep their numbers, and others that are tracked.             *)
LEMMA AbstractKept ==
  ASSUME UNCHANGED <<prog, ranges>>, exec'.fn = exec.fn, Running, AbstractInv,
         \A v \in DOMAIN exec'.env \ Tracked(Code) : v \in UsedIn(Code) =>
           \/ v \in DOMAIN exec.env /\ exec'.env[v].n = exec.env[v].n
           \/ IsAbstract(v, exec'.env[v].n)
  PROVE  AbstractInv'
<1>1. Code' = Code
  BY DEF Code
<1>2. ASSUME NEW v, NEW n PROVE IsAbstract(v, n)' = IsAbstract(v, n)
  BY <1>1 DEF IsAbstract
<1>3. ASSUME NEW v \in (DOMAIN exec'.env \cap UsedIn(Code)) \ Tracked(Code)
      PROVE  IsAbstract(v, exec'.env[v].n)
  BY <1>3 DEF AbstractInv
<1>4. QED BY <1>1, <1>3 DEF AbstractInv, IsAbstract

LEMMA AbstractNext ==
  ASSUME ControlInv, PlaceInv, RangeInv, ResultsInv, AbstractInv, [ExecNext]_allVars
  PROVE  AbstractInv'
<1>1. CASE Analyse /\ UNCHANGED exec
  <2>1. ~ Running
    BY <1>1, AnalysisIsOver DEF PlaceInv
  <2>2. QED BY <1>1, <2>1 DEF AbstractInv, Running
<1>2. CASE Run /\ UNCHANGED vars
  <2>0. UNCHANGED <<prog, ranges>>
    BY <1>2 DEF vars
  <2>1. CASE ~ Running
    <3>1. PICK f \in DOMAIN prog.body : Enter(f)
      BY <1>2, <2>1 DEF Run, Running
    <3>2. exec'.env = <<>>
      BY <3>1 DEF Enter, Idle
    <3>3. DOMAIN exec'.env = {}
      BY <3>2
    <3>4. QED BY <3>3 DEF AbstractInv
  <2>2. CASE Running
    <3>1. NumbersInv
      BY <2>2 DEF ResultsInv
    <3>2. CASE exec' = Idle
      BY <3>2 DEF AbstractInv, Running, Idle
    <3>3. CASE ExecuteValue
      <4>1. PICK x \in Results(Current) :
              Binds(Current.id, Followed(Current, x), Older(exec.env, Current))
        BY <2>2, <3>1, <3>3, ValueBinds
      <4>2. Current.op \in LoadLike \cup {"trunc", "sext", "zext", "binary", "icmp", "call"}
        BY <3>3 DEF ExecuteValue
      <4>3. Followed(Current, x).n = x.n
        BY <2>2, <3>1, <4>2, ResultNumbers, FollowedValue
      <4>4. \A v \in DOMAIN exec.env : Older(exec.env, Current)[v].n = exec.env[v].n
        BY <2>2, OlderIsOlder
      <4>5. Current.id \in UsedIn(Code) \ Tracked(Code) => IsAbstract(Current.id, x.n)
        BY <2>2, <3>1, <4>2, ResultIsAbstract
      <4>6. \A v \in DOMAIN exec'.env \ Tracked(Code) : v \in UsedIn(Code) =>
              \/ v \in DOMAIN exec.env /\ exec'.env[v].n = exec.env[v].n
              \/ IsAbstract(v, exec'.env[v].n)
        BY <4>1, <4>3, <4>4, <4>5 DEF Binds, SameValue
      <4>7. exec'.fn = exec.fn
        BY <4>1 DEF Binds
      <4>8. QED BY <2>0, <2>2, <4>6, <4>7, AbstractKept
    <3>4. CASE ExecuteStore
      <4>1. PICK x : Binds(Current.b, x, exec.env)
        BY <2>2, <3>1, <3>4, StoreBinds
      <4>2. Current.b \in Tracked(Code)
        <5>1. Current.op = "store"
          BY <3>4 DEF ExecuteStore
        <5>2. Current.b \in Target(Current) /\ Current \in InstructionsOf(Code)
          BY <2>2, <5>1, CodeOfPlace DEF Target
        <5>3. QED BY <5>2 DEF Tracked
      <4>3. \A v \in DOMAIN exec'.env \ Tracked(Code) :
              v \in DOMAIN exec.env /\ exec'.env[v].n = exec.env[v].n
        BY <4>1, <4>2 DEF Binds, SameValue
      <4>4. exec'.fn = exec.fn
        BY <4>1 DEF Binds
      <4>5. QED BY <2>0, <2>2, <4>3, <4>4, AbstractKept
    <3>5. ASSUME exec.k = Len(Code[exec.b]), NEW b, IsTold(b) PROVE AbstractInv'
      <4>1. Moves(b) /\ exec'.fn = exec.fn
        BY <3>5 DEF IsTold, Moves
      <4>2. b \in DOMAIN Code
        <5>1. Current = Terminator(Code[exec.b])
          BY <3>5 DEF Current, Terminator
        <5>2. QED BY <2>2, <3>5, <5>1, CodeOfPlace DEF IsBody, IsTold
      <4>3. PhiNames(b) \subseteq Tracked(Code)
        <5>1. ASSUME NEW i \in PhisOf(Code, b) PROVE Code[b][i].id \in Tracked(Code)
          <6>1. Code[b][i] \in InstructionsOf(Code) /\ Code[b][i].op = "phi"
            BY <2>2, <4>2, CodeOfPlace, BodyShape DEF PhisOf
          <6>2. Code[b][i].id \in Target(Code[b][i])
            BY <6>1 DEF Target
          <6>3. QED BY <6>1, <6>2 DEF Tracked
        <5>2. QED BY <5>1 DEF PhiNames
      <4>4. \A v \in DOMAIN exec'.env \ Tracked(Code) :
              v \in DOMAIN exec.env /\ exec'.env[v].n = exec.env[v].n
        BY <4>1, <4>3 DEF Moves, SameValue
      <4>5. QED BY <2>0, <2>2, <4>1, <4>4, AbstractKept
    <3>6. QED BY <1>2, <2>2, <3>2, <3>3, <3>4, <3>5, RunKinds
  <2>3. QED BY <2>1, <2>2
<1>3. CASE UNCHANGED allVars
  BY <1>3 DEF allVars, vars, AbstractInv, Running, Code, IsAbstract
<1>4. QED BY <1>1, <1>2, <1>3 DEF ExecNext

(***************************************************************************)
(* Each step of the execution keeps what names hold within their entries.  *)
(***************************************************************************)
(* The step copies an operand, or gives a value to what has no entries.    *)
Copies(w, x) ==
  /\ Current.op \in {"store", "trunc", "sext"} \cup LoadLike /\ Target(Current) = {w}
  /\ ~ IsUnset(Current.a) /\ \E y \in Operand(Current.a) : x.n = y.n

Computes(w) == Current.op \in {"zext", "binary", "icmp", "call"} /\ w \notin Tracked(Code)

FactsBehind(F) == F[exec.b][exec.k + 1]

(* The facts around the current instruction.                               *)
LEMMA FactsAround ==
  ASSUME ControlInv, PlaceInv, ReturnedInv, Running, HasRangeFacts(Code, RangeFacts)
  PROVE  /\ FactsHere("range") \in [ValuesOf(Code) -> Known]
         /\ IsThrough(FactsHere("returned"), FactsBehind(MayReturn), Current)
         /\ IsRangedHere =>
              FactsBehind(RangeFacts) = RangeAfter(Code, ranges, FactsBehind(MayReturn),
                                                   FactsHere("range"), Current, FactsBehind(RangeFacts))
<1>1. FactsHere("range") = RangeFacts[exec.b][exec.k] /\ FactsHere("returned") = MayReturn[exec.b][exec.k]
  BY DEF FactsHere, RangeFacts, MayReturn
<1>2. exec.b \in DOMAIN Code /\ exec.k \in 1..Len(Code[exec.b]) /\ exec.k \in 1..Len(Code[exec.b]) + 1
  <2>1. exec.b \in DOMAIN Code /\ exec.k \in 1..Len(Code[exec.b]) /\ Len(Code[exec.b]) \in Nat
    BY CodeOfPlace
  <2>2. QED BY <2>1
<1>3. FactsHere("range") \in [ValuesOf(Code) -> Known]
  BY <1>1, <1>2 DEF HasRangeFacts, HasKnownFacts
<1>4. IsThrough(FactsHere("returned"), FactsBehind(MayReturn), Current)
  BY ReturnedHere DEF MayReturn, FactsBehind
<1>5. ASSUME IsRangedHere PROVE IsRangedAt(Code, ranges, MayReturn, RangeFacts, exec.b, exec.k)
  BY <1>2, <1>5 DEF IsRangedHere, IsFullyRanged, IsRangedBlock, IsRanged
<1>6. QED BY <1>1, <1>3, <1>4, <1>5 DEF IsRangedAt, FactsBehind, Current

LEMMA CopiedFacts ==
  ASSUME ControlInv, PlaceInv, ReturnedInv, Running, HasRangeFacts(Code, RangeFacts),
         NEW w, NEW x, Copies(w, x), NEW v \in ValuesOf(Code), v \in FactsBehind(MayReturn)
  PROVE  LET before == FactsHere("range")
         IN /\ v = w =>
                 /\ Current.a \in FactsHere("returned")
                 /\ IsRangedHere =>
                      FactsBehind(RangeFacts)[v] = RangeOf(Code, ranges, before, Current.a)
            /\ v # w =>
                 /\ v \in FactsHere("returned")
                 /\ IsRangedHere => FactsBehind(RangeFacts)[v] = before[v]
<1> DEFINE before == FactsHere("range")
           after  == FactsBehind(MayReturn)
           behind == FactsBehind(RangeFacts)
<1>1. /\ before \in [ValuesOf(Code) -> Known] /\ IsThrough(FactsHere("returned"), after, Current)
      /\ IsRangedHere => behind = RangeAfter(Code, ranges, after, before, Current, behind)
  BY FactsAround
<1>2. w = (IF Current.op = "store" THEN Current.b ELSE Current.id)
  BY DEF Copies, Target
<1>3. after \ {w} \subseteq FactsHere("returned") /\ (w \in after => Current.a \in FactsHere("returned"))
  <2>1. CASE Current.op = "store"
    BY <1>1, <1>2, <2>1, ThroughStoreInst
  <2>2. CASE Current.op \in LoadLike \cup {"trunc", "sext"}
    <3>1. Current.op # "store"
      BY <2>2 DEF LoadLike, BitCastLike
    <3>2. QED BY <1>1, <1>2, <2>2, <3>1, ThroughCast
  <2>3. QED BY <2>1, <2>2 DEF Copies
<1> HIDE DEF before, after, behind
<1>4. ASSUME IsRangedHere PROVE behind = RangeCopied(Code, ranges, before, after, Current.a, w)
  <2>1. behind = RangeAfter(Code, ranges, after, before, Current, behind)
    BY <1>1, <1>4
  <2>2. CASE Current.op = "store"
    BY <1>2, <2>1, <2>2 DEF RangeAfter, LoadLike, BitCastLike
  <2>3. CASE Current.op \in LoadLike \cup {"trunc", "sext"}
    <3>1. Current.op # "store"
      BY <2>3 DEF LoadLike, BitCastLike
    <3>2. QED BY <1>2, <2>1, <2>3, <3>1 DEF RangeAfter, LoadLike, BitCastLike
  <2>4. QED BY <2>2, <2>3 DEF Copies
<1>5. ASSUME IsRangedHere
      PROVE  behind[v] = IF v = w THEN RangeOf(Code, ranges, before, Current.a) ELSE before[v]
  <2>1. behind = RangeCopied(Code, ranges, before, after, Current.a, w) /\ v \in after
    BY <1>4, <1>5 DEF after
  <2>2. DOMAIN before = ValuesOf(Code)
    BY <1>1
  <2>3. CASE w \in after
    <3>1. behind = [Filtered(before, after) EXCEPT ![w] = RangeOf(Code, ranges, before, Current.a)]
      BY <2>1, <2>3 DEF RangeCopied
    <3>2. QED BY <2>1, <2>2, <3>1 DEF Filtered
  <2>4. CASE w \notin after
    <3>1. behind = Filtered(before, after)
      BY <2>1, <2>4 DEF RangeCopied
    <3>2. QED BY <2>1, <2>2, <2>4, <3>1 DEF Filtered
  <2>5. QED BY <2>3, <2>4
<1>6. QED BY <1>3, <1>5 DEF before, after, behind

LEMMA ComputedFacts ==
  ASSUME ControlInv, PlaceInv, ReturnedInv, Running, HasRangeFacts(Code, RangeFacts),
         NEW w, Computes(w), NEW v \in ValuesOf(Code), v \in FactsBehind(MayReturn)
  PROVE  /\ v \in FactsHere("returned")
         /\ IsRangedHere => FactsBehind(RangeFacts)[v] = FactsHere("range")[v]
<1> DEFINE before == FactsHere("range")
           after  == FactsBehind(MayReturn)
           behind == FactsBehind(RangeFacts)
<1>1. /\ before \in [ValuesOf(Code) -> Known] /\ IsThrough(FactsHere("returned"), after, Current)
      /\ IsRangedHere => behind = RangeAfter(Code, ranges, after, before, Current, behind)
  BY FactsAround
<1>2. v \in FactsHere("returned")
  BY <1>1, ThroughCallInst, ThroughOther DEF Computes
<1>3. SlotsTested(Code, Current, after) = {}
  BY DEF SlotsTested, SlotOf, Computes
<1>4. Current.op \notin {"store", "trunc", "sext", "phi", "return"} \cup LoadLike
  BY DEF Computes, LoadLike, BitCastLike
<1> HIDE DEF before, after, behind
<1>5. ASSUME IsRangedHere PROVE behind[v] = before[v]
  <2>1. behind = [u \in DOMAIN before |-> IF u \in SlotsTested(Code, Current, after) THEN Absent
                                          ELSE Filtered(before, after)[u]]
    BY <1>1, <1>4, <1>5 DEF RangeAfter
  <2>2. v \in after /\ DOMAIN before = ValuesOf(Code)
    BY <1>1 DEF after
  <2>3. QED BY <1>3, <2>1, <2>2 DEF Filtered
<1>6. QED BY <1>2, <1>5 DEF before, behind

LEMMA KeptBind ==
  ASSUME ExecutionInv, ReturnedInv, RangeInv, TrackedInv, Running, NumbersInv, AbstractInv, KeptInv,
         UNCHANGED <<prog, facts, ranges>>, IsJudged, ~ exec.loose,
         NEW w, NEW x, NEW env, Binds(w, x, env),
         \A v \in DOMAIN exec.env : env[v].n = exec.env[v].n, Copies(w, x) \/ Computes(w)
  PROVE  KeptInv'
<1>0. /\ ControlInv /\ PlaceInv /\ exec.fn \notin prog.void /\ IsBody(Code)
      /\ exec.b \in DOMAIN Code /\ exec.k \in 1..Len(Code[exec.b])
      /\ Current \in InstructionsOf(Code)
  BY CodeOfPlace DEF ExecutionInv, KeptInv
<1>1. /\ AreRanges(ranges) /\ HasRangeFacts(Code, RangeFacts)
      /\ \/ IsRangedHere
         \/ \A b \in DOMAIN Code : TracksNothing(Code, MayReturn, b)
  BY <1>0, RangedHere
<1>2. /\ exec'.fn = exec.fn /\ Code' = Code /\ IsRangedHere' = IsRangedHere /\ IsJudged' = IsJudged
      /\ FactsHere("returned")' = FactsBehind(MayReturn)
      /\ FactsHere("range")' = FactsBehind(RangeFacts)
  <2>1. exec'.fn = exec.fn /\ exec'.b = exec.b /\ exec'.k = exec.k + 1
    BY DEF Binds
  <2>2. Code' = Code /\ MayReturn' = MayReturn /\ RangeFacts' = RangeFacts
    BY <2>1 DEF Code, MayReturn, RangeFacts
  <2>3. QED BY <2>1, <2>2 DEF IsRangedHere, IsJudged, FactsHere, FactsBehind, MayReturn, RangeFacts
<1>3. ASSUME NEW v \in DOMAIN exec'.env \cap Tracked(Code), v \in FactsBehind(MayReturn)
      PROVE  IsRangedHere /\ Covers(FactsBehind(RangeFacts)[v], exec'.env[v].n)
  <2>0. v \in ValuesOf(Code)
    BY <1>0, TrackedAreNames
  <2>1. CASE v = w
    <3>0. Copies(w, x)
      BY <2>1 DEF Computes
    <3>1. IsRangedHere
      <4>1. w \in Target(Current) \cap MayReturn[exec.b][exec.k + 1]
        BY <1>3, <2>1, <3>0 DEF Copies, FactsBehind
      <4>2. ~ TracksNothing(Code, MayReturn, exec.b)
        BY <1>0, <4>1 DEF TracksNothing, Current
      <4>3. QED BY <1>0, <1>1, <4>2
    <3>2. /\ Current.a \in FactsHere("returned")
          /\ FactsBehind(RangeFacts)[v] = RangeOf(Code, ranges, FactsHere("range"), Current.a)
      BY <1>0, <1>1, <1>3, <2>0, <2>1, <3>0, <3>1, CopiedFacts
    <3>3. Current.a \in UsedIn(Code)
      <4>1. Current.op # "phi" /\ Reads(Current) = {Current.a}
        BY <3>0 DEF Copies, Reads, LoadLike, BitCastLike
      <4>2. QED BY <1>0, <4>1 DEF UsedIn
    <3>4. PICK y \in Operand(Current.a) : x.n = y.n
      BY <3>0 DEF Copies
    <3>5. SignOf(y.n) \in Gamma[RangeOf(Code, ranges, FactsHere("range"), Current.a)]
      BY <3>0, <3>2, <3>3, OperandInRange DEF Copies
    <3>6. RangeOf(Code, ranges, FactsHere("range"), Current.a) # Absent
      <4>1. FactsHere("range") \in [ValuesOf(Code) -> Known]
        BY <1>0, <1>1, FactsAround
      <4>2. Current.a \in ValuesOf(Code)
        BY <3>3 DEF ValuesOf
      <4>3. QED BY <1>1, <4>1, <4>2, RangeOfType, AbsentIsNoElement
    <3>7. exec'.env[v].n = y.n
      BY <2>1, <3>4 DEF Binds, SameValue
    <3>8. QED BY <3>1, <3>2, <3>5, <3>6, <3>7 DEF Covers
  <2>2. CASE v # w
    <3>1. v \in DOMAIN exec.env /\ exec'.env[v].n = exec.env[v].n
      BY <1>3, <2>2 DEF Binds, SameValue
    <3>2. /\ v \in FactsHere("returned")
          /\ IsRangedHere => FactsBehind(RangeFacts)[v] = FactsHere("range")[v]
      BY <1>0, <1>1, <1>3, <2>0, <2>2, CopiedFacts, ComputedFacts
    <3>3. IsRangedHere /\ Covers(FactsHere("range")[v], exec.env[v].n)
      BY <1>3, <3>1, <3>2 DEF KeptInv
    <3>4. QED BY <3>1, <3>2, <3>3
  <2>3. QED BY <2>1, <2>2
<1>4. QED BY <1>0, <1>2, <1>3 DEF KeptInv

(* What a name holds that may still be returned from the successor is      *)
(* within its entry there, be it the slot the test was about or not.       *)
LEMMA EntryCovers ==
  ASSUME ExecutionInv, ReturnedInv, RangeInv, TrackedInv, Running, KeptInv, IsJudged,
         exec.k = Len(Code[exec.b]), ~ exec'.loose, NEW b, IsToldOfSlot(b),
         NEW v \in DOMAIN exec.env \cap Tracked(Code), v \in MayReturn[b][1]
  PROVE  IsRangedHere /\ Covers(RangeFacts[b][1][v], exec.env[v].n)
<1> DEFINE c == exec.b
           n == exec.k
           before == RangeFacts[c][n]
           behind == RangeFacts[c][n + 1]
           tested == SlotsTested(Code, Code[c][n], MayReturn[c][n + 1])
           outcomes == RangeOutcomes(Code, MayReturn, before, Code[c][n], tested)
<1>0. /\ ControlInv /\ PlaceInv /\ exec.fn \notin prog.void /\ ~ exec.loose
      /\ b \in Successors(Current)
  BY DEF ExecutionInv, KeptInv, IsToldOfSlot
<1>1. /\ IsBody(Code) /\ IsTypedBody(Code) /\ c \in DOMAIN Code /\ n = Len(Code[c])
      /\ n \in 1..Len(Code[c]) /\ Current = Code[c][n] /\ Current = Terminator(Code[c])
      /\ Current \in InstructionsOf(Code)
  BY <1>0, CodeOfPlace DEF Current, Terminator
<1>2. b \in DOMAIN Code /\ c \in Predecessors(Code, b)
  BY <1>0, <1>1 DEF IsBody, Predecessors
<1>3. Current.op \in {"jump", "branch", "switch"}
  <2>1. Current.op \in {"jump", "branch", "switch", "return"}
    BY <1>0, <1>1, PlaceShape
  <2>2. Current.op # "return"
    BY <1>0 DEF Successors
  <2>3. QED BY <2>1, <2>2
<1>4. HasRangeFacts(Code, RangeFacts)
  BY <1>0, RangedHere
<1>5. /\ before = FactsHere("range") /\ behind = FactsBehind(RangeFacts)
      /\ tested = SlotsHere /\ MayReturn[c][n + 1] = FactsBehind(MayReturn)
  BY <1>1 DEF FactsHere, FactsBehind, RangeFacts, MayReturn, SlotsHere, ReturnableBehind
<1>6. v \in MayReturn[c][n + 1] /\ v \in FactsHere("returned")
  <2>1. IsReturnedBlock(Code, MayReturn, c)
    BY <1>0, <1>1, ReturnedHere DEF MayReturn
  <2>2. v \in MayReturn[c][n + 1]
    BY <1>0, <1>1, <2>1 DEF IsReturnedBlock
  <2>3. FactsHere("returned") = FactsBehind(MayReturn)
    BY <1>0, <1>3, <1>4, FactsAround, ThroughOther
  <2>4. QED BY <1>5, <2>2, <2>3
<1>7. IsRangedHere /\ Covers(before[v], exec.env[v].n)
  BY <1>0, <1>5, <1>6 DEF KeptInv
<1>8. /\ before \in [ValuesOf(Code) -> Known]
      /\ behind = RangeAfter(Code, ranges, MayReturn[c][n + 1], before, Current, behind)
  BY <1>0, <1>4, <1>5, <1>7, FactsAround
<1>9. v \in ValuesOf(Code)
  BY <1>1, TrackedAreNames
<1>10. /\ IsFedRange(Code, MayReturn, RangeFacts, b)
       /\ ArePassedOn(outcomes, before, tested, RangeFacts)
  BY <1>1, <1>2, <1>7 DEF IsRangedHere, IsFullyRanged, IsRangedBlock, HasPassedRange
<1>11. CASE v \notin tested
  <2>1. behind = [u \in DOMAIN before |-> IF u \in tested THEN Absent
                                         ELSE Filtered(before, MayReturn[c][n + 1])[u]]
    BY <1>1, <1>3, <1>8 DEF RangeAfter, LoadLike, BitCastLike
  <2>2. behind[v] = before[v]
    BY <1>6, <1>8, <1>9, <1>11, <2>1 DEF Filtered
  <2>3. Below(behind[v], RangeFacts[b][1][v])
    BY <1>1, <1>2, <1>9, <1>10 DEF IsFedRange
  <2>4. QED BY <1>7, <2>2, <2>3, BelowCovers
<1>12. CASE v \in tested
  <2>1. PICK o \in SlotOutcomes : o[1] = b /\ SignOf(exec.env[v].n) \in Gamma[o[2]]
    BY <1>5, <1>12 DEF IsToldOfSlot
  <2>2. tested = {v}
    BY <1>12 DEF SlotsTested
  <2>3. Current.op = "branch" \/ Current.op = "switch"
    BY <1>1, <1>12, SlotOfComparison
  <2>4. o \in outcomes
    <3>1. before[v] # Absent
      BY <1>7 DEF Covers
    <3>2. CASE Current.op = "branch"
      BY <1>1, <2>1, <2>2, <3>2 DEF RangeOutcomes, SlotOutcomes
    <3>3. CASE Current.op = "switch"
      <4>1. DefaultOutcome(Current, before, tested) = {<<Current.e, "top">>}
        BY <2>2, <3>1, <3>3 DEF DefaultOutcome
      <4>2. SlotOutcomes = CaseOutcomes(Current) \cup {<<Current.e, "top">>}
        BY <3>3 DEF SlotOutcomes
      <4> HIDE DEF tested, before
      <4>3. QED BY <1>1, <2>1, <2>2, <3>3, <4>1, <4>2 DEF RangeOutcomes
    <3>4. QED BY <2>3, <3>2, <3>3
  <2>5. o[2] \in SignLatticeElement
    BY <1>1, <2>4, RangeOutcomesType DEF AreOutcomes
  <2>6. Below(Refine(o[2], before[v]), RangeFacts[b][1][v])
    BY <1>10, <1>12, <2>1, <2>4 DEF ArePassedOn
  <2>7. before[v] \in Known
    BY <1>8, <1>9
  <2> HIDE DEF before
  <2>8. Covers(Refine(o[2], before[v]), exec.env[v].n)
    BY <1>7, <2>1, <2>5, <2>7, RefineCovers
  <2>9. QED BY <1>7, <2>6, <2>8, BelowCovers
<1>13. QED BY <1>11, <1>12

(* No phi behind m up to last gives v, and what is known of v behind both. *)
IsLeftAlone(body, b, v, m, last) == \A j \in m + 1..last : body[b][j].id # v

IsKnownAlike(R, F, b, v, m, last) ==
  v \in R[b][last + 1] =>
    v \in R[b][m + 1] /\ F[b][last + 1][v] = F[b][m + 1][v]

LEMMA KeptThroughPhis ==
  ASSUME IsBody(Code), HasRangeFacts(Code, RangeFacts), NEW b \in DOMAIN Code,
         IsReturnedThrough(Code, MayReturn, b),
         IsRanged(Code, ranges, MayReturn, RangeFacts, b),
         NEW n \in Nat, n < Len(Code[b]), PhisOf(Code, b) = 1..n,
         NEW v \in ValuesOf(Code), NEW m \in 0..n, NEW last \in m..n,
         IsLeftAlone(Code, b, v, m, last)
  PROVE  IsKnownAlike(MayReturn, RangeFacts, b, v, m, last)
<1> DEFINE S == {d \in Nat : m + d <= last /\ v \in MayReturn[b][m + d + 1] =>
                   v \in MayReturn[b][m + 1] /\ RangeFacts[b][m + d + 1][v] = RangeFacts[b][m + 1][v]}
<1>0. m \in Nat /\ last \in Nat /\ m <= last /\ last <= n /\ Len(Code[b]) \in Nat
  <2>1. Len(Code[b]) \in Nat
    BY BodyShape
  <2>2. QED BY <2>1
<1>1. 0 \in S
  OBVIOUS
<1>2. ASSUME NEW d \in Nat, d \in S PROVE d + 1 \in S
  <2>1. SUFFICES ASSUME m + (d + 1) <= last, v \in MayReturn[b][m + (d + 1) + 1]
                 PROVE  v \in MayReturn[b][m + 1] /\ RangeFacts[b][m + (d + 1) + 1][v] = RangeFacts[b][m + 1][v]
    OBVIOUS
  <2> DEFINE k == m + d + 1
             before == RangeFacts[b][k]
             after == MayReturn[b][k + 1]
             inst == Code[b][k]
  <2>2. /\ m + (d + 1) = k /\ k \in m + 1..last /\ k \in 1..n /\ k \in 1..Len(Code[b])
        /\ k \in 1..Len(Code[b]) + 1 /\ m + d <= last
    BY <1>0, <2>1
  <2>3. inst.op = "phi" /\ inst.id # v
    BY <2>2 DEF PhisOf, IsLeftAlone
  <2>4. v \in after
    BY <2>1, <2>2
  <2> HIDE DEF k
  <2>5. MayReturn[b][k] = after \ {inst.id}
    <3>1. IsThrough(MayReturn[b][k], after, inst)
      BY <2>2 DEF IsReturnedThrough, IsThrough
    <3>2. QED BY <2>3, <3>1, ThroughPhi
  <2>6. before \in [ValuesOf(Code) -> Known]
    BY <2>2 DEF HasRangeFacts, HasKnownFacts
  <2>7. RangeFacts[b][k + 1] = RangePhi(Code, ranges, before, after, inst)
    <3>1. IsRangedAt(Code, ranges, MayReturn, RangeFacts, b, k)
      BY <2>2 DEF IsRanged
    <3>2. inst.op \notin {"store", "trunc", "sext"} \cup LoadLike
      BY <2>3 DEF LoadLike, BitCastLike
    <3>3. QED BY <2>3, <3>1, <3>2 DEF IsRangedAt, RangeAfter
  <2>8. RangeFacts[b][k + 1][v] = before[v]
    BY <2>3, <2>4, <2>6, <2>7 DEF RangePhi, Filtered
  <2>9. v \in MayReturn[b][k]
    BY <2>3, <2>4, <2>5
  <2>10. v \in MayReturn[b][m + 1] /\ before[v] = RangeFacts[b][m + 1][v]
    BY <1>2, <2>2, <2>9 DEF k
  <2>11. QED BY <2>2, <2>8, <2>10
<1> HIDE DEF S
<1>3. Nat \subseteq S
  BY <1>1, <1>2, NaturalInduction
<1>4. last - m \in S /\ m + (last - m) = last
  BY <1>3
<1>5. QED BY <1>4 DEF S, IsKnownAlike

(* What a phi gets from the block that is left is within the range that    *)
(* the phi takes it to be, behind the phis before it.                      *)
LEMMA IncomingInRange ==
  ASSUME ExecutionInv, ReturnedInv, RangeInv, TrackedInv, Running, NumbersInv, AbstractInv, KeptInv,
         IsJudged, exec.k = Len(Code[exec.b]), ~ exec'.loose, NEW b, IsToldOfSlot(b),
         b \in DOMAIN Code, NEW n \in Nat, n < Len(Code[b]), PhisOf(Code, b) = 1..n,
         NEW i \in 1..n, exec.b \in DOMAIN Code[b][i].in, IsRangedHere,
         NEW y \in Operand(Code[b][i].in[exec.b])
  PROVE  SignOf(y.n) \in Gamma[RangeOf(Code, ranges, RangeFacts[b][i], Code[b][i].in[exec.b])]
<1> DEFINE u == Code[b][i].in[exec.b]
           fact == RangeFacts[b][i]
<1>0. /\ ControlInv /\ PlaceInv /\ exec.fn \notin prog.void /\ IsBody(Code) /\ ~ exec.loose
      /\ Len(Code[b]) \in Nat /\ DOMAIN Code[b] = 1..Len(Code[b])
  <2>1. IsBody(Code)
    BY CodeOfPlace DEF ExecutionInv
  <2>2. QED BY <2>1, BodyShape DEF ExecutionInv, KeptInv, IsToldOfSlot
<1>1. /\ AreRanges(ranges) /\ HasRangeFacts(Code, RangeFacts)
      /\ TracksOnly(Code, MayReturn, RangeFacts)
  BY <1>0, RangedHere
<1>2. /\ Code[b][i].op = "phi" /\ i \in DOMAIN Code[b] /\ Code[b][i] \in InstructionsOf(Code)
      /\ i \in 1..Len(Code[b]) + 1 /\ i \in Nat /\ i # 0
  <2>1. /\ i \in 1..Len(Code[b]) /\ i \in 1..Len(Code[b]) + 1 /\ i \in PhisOf(Code, b)
        /\ i \in Nat /\ i # 0 /\ i <= n /\ i \in 0..n
    BY <1>0
  <2>2. Code[b][i] \in InstructionsOf(Code)
    BY <1>0, <2>1, BodyShape
  <2>3. QED BY <1>0, <2>1, <2>2 DEF PhisOf
<1>3. u \in UsedIn(Code) /\ u \in ValuesOf(Code)
  BY <1>2 DEF UsedIn, ValuesOf, Range
<1>4. ~ IsUnset(u)
  <2>1. i \in PhisOf(Code, b)
    OBVIOUS
  <2>2. QED BY <2>1 DEF IsToldOfSlot
<1>5. y.n \in Int
  BY <1>0, OperandNumbers
<1>6. CASE u \notin DOMAIN exec.env \cap Tracked(Code)
  <2>1. u \notin Tracked(Code) /\ IsAbstract(u, y.n)
    BY <1>0, <1>3, <1>4, <1>6, UntrackedOperand
  <2>2. fact[u] = Absent
    BY <1>1, <1>2, <1>3, <2>1 DEF TracksOnly
  <2>3. QED BY <2>1, <2>2 DEF RangeOf, IsAbstract
<1>7. CASE u \in DOMAIN exec.env \cap Tracked(Code) /\ fact[u] = Absent
  <2>1. AbstractValue(Code, ranges, u) = "top"
    BY <1>0, <1>7, TrackedAreNames DEF IsJudged
  <2>2. QED BY <1>5, <1>7, <2>1, TopTells DEF RangeOf
<1>8. CASE u \in DOMAIN exec.env \cap Tracked(Code) /\ fact[u] # Absent
  <2>1. u \in MayReturn[b][i]
    BY <1>1, <1>2, <1>3, <1>8 DEF TracksOnly
  <2>2. \A j \in 1..i - 1 : Code[b][j].id # u
    BY <1>2 DEF IsJudged, IsPlain
  <2>3. IsReturnedThrough(Code, MayReturn, b) /\ IsRanged(Code, ranges, MayReturn, RangeFacts, b)
    <3>1. IsReturnedThrough(Code, MayReturn, b)
      BY <1>0, ReturnedHere DEF MayReturn, IsReturnedBlock
    <3>2. QED BY <3>1 DEF IsRangedHere, IsFullyRanged, IsRangedBlock
  <2>4. u \in MayReturn[b][1] /\ fact[u] = RangeFacts[b][1][u]
    <3>1. i - 1 \in Nat /\ i - 1 <= n /\ (i - 1) + 1 = i /\ 0 <= i - 1 /\ 0 \in Nat /\ 0 + 1 = 1
      BY <1>2
    <3>2. \A j \in 0 + 1..i - 1 : Code[b][j].id # u
      BY <2>2
    <3>3. u \in MayReturn[b][(i - 1) + 1]
      BY <2>1, <3>1
    <3>4. u \in MayReturn[b][0 + 1] /\ RangeFacts[b][(i - 1) + 1][u] = RangeFacts[b][0 + 1][u]
      <4>1. 0 \in 0..n /\ i - 1 \in 0..n
        BY <3>1
      <4>2. IsKnownAlike(MayReturn, RangeFacts, b, u, 0, i - 1)
        <5>1. IsLeftAlone(Code, b, u, 0, i - 1)
          BY <3>2 DEF IsLeftAlone
        <5>2. QED BY <1>0, <1>1, <1>3, <2>3, <4>1, <5>1, KeptThroughPhis
      <4>3. QED BY <3>3, <4>2 DEF IsKnownAlike
    <3>5. QED BY <3>1, <3>4
  <2>5. Covers(RangeFacts[b][1][u], exec.env[u].n)
    BY <1>8, <2>4, EntryCovers
  <2>6. y = exec.env[u]
    BY <1>0, <1>8, NumbersOfName
  <2>7. QED BY <1>8, <2>4, <2>5, <2>6 DEF Covers, RangeOf
<1>9. QED BY <1>6, <1>7, <1>8

LEMMA NamesAreGivenOnce ==
  ASSUME NEW body, IsBody(body), NEW b \in DOMAIN body, NEW i \in DOMAIN body[b],
         NEW j \in DOMAIN body[b], body[b][i].id = body[b][j].id
  PROVE  i = j
BY DEF IsBody

(* What a phi gives is within its entry behind all phis.                   *)
LEMMA PhiInRange ==
  ASSUME ExecutionInv, ReturnedInv, RangeInv, TrackedInv, Running, NumbersInv, AbstractInv, KeptInv,
         IsJudged, exec.k = Len(Code[exec.b]), ~ exec'.loose, NEW b, IsToldOfSlot(b),
         b \in DOMAIN Code, NEW n \in Nat, n < Len(Code[b]), PhisOf(Code, b) = 1..n,
         NEW i \in 1..n, exec.b \in DOMAIN Code[b][i].in,
         NEW v, v = Code[b][i].id, v \in MayReturn[b][n + 1],
         NEW y \in Operand(Code[b][i].in[exec.b])
  PROVE  IsRangedHere /\ Covers(RangeFacts[b][n + 1][v], y.n)
<1> DEFINE inst == Code[b][i]
           before == RangeFacts[b][i]
           after == MayReturn[b][i + 1]
           xs == {RangeOf(Code, ranges, before, inst.in[p]) : p \in DOMAIN inst.in}
<1>0. /\ ControlInv /\ PlaceInv /\ exec.fn \notin prog.void /\ IsBody(Code)
      /\ Len(Code[b]) \in Nat /\ DOMAIN Code[b] = 1..Len(Code[b])
  <2>1. IsBody(Code)
    BY CodeOfPlace DEF ExecutionInv
  <2>2. QED BY <2>1, BodyShape DEF ExecutionInv, KeptInv
<1>1. /\ AreRanges(ranges) /\ HasRangeFacts(Code, RangeFacts)
      /\ \/ IsRangedHere
         \/ \A c \in DOMAIN Code : TracksNothing(Code, MayReturn, c)
  BY <1>0, RangedHere
<1>2. /\ inst.op = "phi" /\ i \in DOMAIN Code[b] /\ inst \in InstructionsOf(Code)
      /\ i \in 1..Len(Code[b]) /\ i \in 1..Len(Code[b]) + 1 /\ i \in Nat /\ i <= n /\ i \in 0..n
  <2>1. /\ i \in 1..Len(Code[b]) /\ i \in 1..Len(Code[b]) + 1 /\ i \in PhisOf(Code, b)
        /\ i \in Nat /\ i # 0 /\ i <= n /\ i \in 0..n
    BY <1>0
  <2>2. Code[b][i] \in InstructionsOf(Code)
    BY <1>0, <2>1, BodyShape
  <2>3. QED BY <1>0, <2>1, <2>2 DEF PhisOf
<1>3. v \in ValuesOf(Code)
  BY <1>2 DEF ValuesOf
<1>4. \A j \in i + 1..n : Code[b][j].id # v
  <2>1. SUFFICES ASSUME NEW j \in i + 1..n, Code[b][j].id = v PROVE FALSE
    OBVIOUS
  <2>2. j \in DOMAIN Code[b] /\ j # i
    BY <1>0, <1>2
  <2> HIDE DEF inst, before, after, xs
  <2>3. Code[b][j].id = Code[b][i].id
    BY <2>1
  <2>4. QED BY <1>0, <1>2, <2>2, <2>3, NamesAreGivenOnce
<1>5. IsReturnedThrough(Code, MayReturn, b)
  BY <1>0, ReturnedHere DEF MayReturn, IsReturnedBlock
<1>6. v \in after
  <2> HIDE DEF inst, before, after, xs
  <2>1. \A j \in 0..n :
          (\A l \in j + 1..n : Code[b][l].id # v) => v \in MayReturn[b][j + 1]
    BY <1>0, <1>5, ThroughPhis
  <2>2. QED BY <1>2, <1>4, <2>1 DEF after
<1>7. IsRangedHere
  <2>1. v \in Target(inst)
    BY <1>2 DEF Target
  <2>2. ~ TracksNothing(Code, MayReturn, b)
    BY <1>2, <1>6, <2>1 DEF TracksNothing
  <2>3. QED BY <1>1, <2>2
<1>8. IsRanged(Code, ranges, MayReturn, RangeFacts, b)
  BY <1>7 DEF IsRangedHere, IsFullyRanged, IsRangedBlock
<1>9. RangeFacts[b][n + 1][v] = RangeFacts[b][i + 1][v]
  <2>1. i \in 0..n /\ n \in i..n
    BY <1>2
  <2>2. IsLeftAlone(Code, b, v, i, n)
    BY <1>4 DEF IsLeftAlone
  <2>3. IsKnownAlike(MayReturn, RangeFacts, b, v, i, n)
    BY <1>0, <1>1, <1>3, <1>5, <1>8, <2>1, <2>2, KeptThroughPhis
  <2>4. QED BY <2>3 DEF IsKnownAlike
<1>10. before \in [ValuesOf(Code) -> Known]
  BY <1>1, <1>2 DEF HasRangeFacts, HasKnownFacts
<1>11. RangeFacts[b][i + 1][v] = JoinTable[xs]
  <2>1. RangeFacts[b][i + 1] = RangeAfter(Code, ranges, after, before, inst, RangeFacts[b][i + 1])
    BY <1>2, <1>8 DEF IsRanged, IsRangedAt
  <2>2. RangeFacts[b][i + 1] = RangePhi(Code, ranges, before, after, inst)
    <3> HIDE DEF before, after, inst
    <3>1. QED BY <1>2, <2>1 DEF RangeAfter, LoadLike, BitCastLike
  <2> HIDE DEF before, after, xs
  <2>3. RangeFacts[b][i + 1] = [Filtered(before, after) EXCEPT ![v] = JoinTable[xs]]
    BY <1>6, <2>2 DEF RangePhi, xs
  <2>4. v \in DOMAIN Filtered(before, after)
    BY <1>3, <1>10 DEF Filtered
  <2>5. QED BY <2>3, <2>4
<1>12. xs \in SUBSET SignLatticeElement
  <2>1. ASSUME NEW p \in DOMAIN inst.in PROVE inst.in[p] \in ValuesOf(Code)
    BY <1>2, OperandsAreValues DEF Range
  <2> HIDE DEF before
  <2>2. QED BY <1>1, <1>10, <2>1, RangeOfType
<1>13. JoinTable[xs] \in SignLatticeElement /\ Gamma[JoinTable[xs]] = UNION {Gamma[x] : x \in xs}
  <2> HIDE DEF xs
  <2>1. QED BY <1>12, JoinTableIsExact
<1>14. SignOf(y.n) \in Gamma[RangeOf(Code, ranges, before, inst.in[exec.b])]
  BY <1>7, IncomingInRange
<1>15. RangeOf(Code, ranges, before, inst.in[exec.b]) \in xs
  OBVIOUS
<1> HIDE DEF xs
<1>16. SignOf(y.n) \in Gamma[JoinTable[xs]]
  BY <1>13, <1>14, <1>15
<1>17. QED BY <1>7, <1>9, <1>11, <1>13, <1>16, AbsentIsNoElement DEF Covers

LEMMA KeptMove ==
  ASSUME ExecutionInv, ReturnedInv, RangeInv, TrackedInv, Running, NumbersInv, AbstractInv, KeptInv,
         UNCHANGED <<prog, facts, ranges>>, IsJudged, exec.k = Len(Code[exec.b]),
         ~ exec'.loose, NEW b, IsToldOfSlot(b)
  PROVE  KeptInv'
<1>0. /\ ControlInv /\ PlaceInv /\ exec.fn \notin prog.void /\ IsBody(Code)
      /\ exec.b \in DOMAIN Code /\ Current = Terminator(Code[exec.b])
      /\ b \in Successors(Current) /\ Moves(b)
  BY CodeOfPlace DEF ExecutionInv, KeptInv, IsToldOfSlot, Current, Terminator
<1>1. b \in DOMAIN Code /\ exec.b \in Predecessors(Code, b)
  BY <1>0 DEF IsBody, Predecessors
<1>2. HasRangeFacts(Code, RangeFacts)
  BY <1>0, RangedHere
<1> PICK n \in Nat : /\ n < Len(Code[b]) /\ PhisOf(Code, b) = 1..n
                     /\ Cardinality(PhisOf(Code, b)) = n
  BY <1>0, <1>1, PhisComeFirst
<1>3. /\ exec'.fn = exec.fn /\ Code' = Code /\ IsRangedHere' = IsRangedHere /\ IsJudged' = IsJudged
      /\ FactsHere("returned")' = MayReturn[b][n + 1]
      /\ FactsHere("range")' = RangeFacts[b][n + 1]
  <2>1. exec'.fn = exec.fn /\ exec'.b = b /\ exec'.k = n + 1
    BY <1>0 DEF Moves
  <2>2. Code' = Code /\ MayReturn' = MayReturn /\ RangeFacts' = RangeFacts
    BY <2>1 DEF Code, MayReturn, RangeFacts
  <2>3. QED BY <2>1, <2>2 DEF IsRangedHere, IsJudged, FactsHere, MayReturn, RangeFacts
<1>4. IsReturnedThrough(Code, MayReturn, b)
  BY <1>0, <1>1, ReturnedHere DEF MayReturn, IsReturnedBlock
<1>5. ASSUME NEW v \in DOMAIN exec'.env \cap Tracked(Code), v \in MayReturn[b][n + 1]
      PROVE  IsRangedHere /\ Covers(RangeFacts[b][n + 1][v], exec'.env[v].n)
  <2>1. CASE v \in PhiNames(b)
    <3>1. PICK i \in 1..n : /\ Code[b][i].id = v
                            /\ \E y \in Operand(Code[b][i].in[exec.b]) : SameValue(exec'.env[v], y)
      BY <1>0, <2>1 DEF Moves
    <3>2. PICK y \in Operand(Code[b][i].in[exec.b]) : SameValue(exec'.env[v], y)
      BY <3>1
    <3>3. exec.b \in DOMAIN Code[b][i].in
      <4>1. i \in 1..Len(Code[b]) /\ i \in PhisOf(Code, b)
        <5>1. Len(Code[b]) \in Nat
          BY <1>0, <1>1, BodyShape
        <5>2. QED BY <5>1
      <4>2. Code[b][i].op = "phi"
        BY <4>1 DEF PhisOf
      <4>3. QED BY <1>0, <1>1, <4>1, <4>2, PhiShape
    <3>4. IsRangedHere /\ Covers(RangeFacts[b][n + 1][v], y.n)
      BY <1>1, <1>5, <3>1, <3>3, PhiInRange
    <3>5. QED BY <3>2, <3>4 DEF SameValue
  <2>2. CASE v \notin PhiNames(b)
    <3>0. v \in ValuesOf(Code)
      BY <1>0, TrackedAreNames
    <3>1. v \in DOMAIN exec.env /\ exec'.env[v].n = exec.env[v].n
      BY <1>0, <1>5, <2>2 DEF Moves, SameValue
    <3>2. \A j \in 0 + 1..n : Code[b][j].id # v
      BY <2>2 DEF PhiNames
    <3>3. 0 \in Nat /\ 0 \in 0..n /\ 0 + 1 = 1 /\ 0 <= n /\ n <= n
      OBVIOUS
    <3>4. v \in MayReturn[b][1]
      <4>1. v \in MayReturn[b][0 + 1]
        BY <1>0, <1>1, <1>4, <1>5, <3>2, <3>3, ThroughPhis
      <4>2. QED BY <3>3, <4>1
    <3>5. IsRangedHere /\ Covers(RangeFacts[b][1][v], exec.env[v].n)
      BY <1>5, <3>1, <3>4, EntryCovers
    <3>6. IsRanged(Code, ranges, MayReturn, RangeFacts, b)
      BY <1>1, <3>5 DEF IsRangedHere, IsFullyRanged, IsRangedBlock
    <3>7. RangeFacts[b][n + 1][v] = RangeFacts[b][0 + 1][v]
      <4>1. 0 \in 0..n /\ n \in 0..n
        OBVIOUS
      <4>2. IsLeftAlone(Code, b, v, 0, n)
        BY <3>2 DEF IsLeftAlone
      <4>3. IsKnownAlike(MayReturn, RangeFacts, b, v, 0, n)
        BY <1>0, <1>1, <1>2, <1>4, <3>0, <3>6, <4>1, <4>2, KeptThroughPhis
      <4>4. QED BY <1>5, <4>3 DEF IsKnownAlike
    <3>8. QED BY <3>1, <3>3, <3>5, <3>7
  <2>3. QED BY <2>1, <2>2
<1>6. QED BY <1>0, <1>3, <1>5 DEF KeptInv

(* In a function that is not judged, or after something loose, there is    *)
(* nothing to keep.                                                        *)
LEMMA KeptBlindly ==
  ASSUME UNCHANGED <<prog, facts, ranges>>, Running, KeptInv, exec'.fn = exec.fn,
         ~ IsJudged \/ exec'.loose
  PROVE  KeptInv'
<1>1. Code' = Code
  BY DEF Code
<1>2. IsJudged' = IsJudged
  BY <1>1 DEF IsJudged
<1>3. QED BY <1>2 DEF KeptInv

LEMMA KeptValue ==
  ASSUME ExecutionInv, ReturnedInv, RangeInv, TrackedInv, Running, NumbersInv, AbstractInv, KeptInv,
         UNCHANGED <<prog, facts, ranges>>, IsJudged, ~ exec'.loose, ExecuteValue
  PROVE  KeptInv'
<1>0. ControlInv /\ PlaceInv
  BY DEF ExecutionInv
<1>1. PICK r \in Results(Current) :
        /\ Binds(Current.id, Followed(Current, r), Older(exec.env, Current))
        /\ exec'.loose = (exec.loose \/ \E v \in Reads(Current) : IsUnset(v))
  BY <1>0, ValueBinds
<1>2. Current.op \in LoadLike \cup {"trunc", "sext", "zext", "binary", "icmp", "call"}
  BY DEF ExecuteValue
<1>3. Followed(Current, r).n = r.n
  BY <1>0, <1>2, ResultNumbers, FollowedValue
<1>4. \A v \in DOMAIN exec.env : Older(exec.env, Current)[v].n = exec.env[v].n
  BY <1>0, OlderIsOlder
<1> PICK w, x, env : w = Current.id /\ x = Followed(Current, r) /\ env = Older(exec.env, Current)
  OBVIOUS
<1>5. Copies(w, x) \/ Computes(w)
  <2>1. CASE Current.op \in LoadLike \cup {"trunc", "sext"}
    <3>1. Target(Current) = {w} /\ Reads(Current) = {Current.a} /\ Results(Current) = Operand(Current.a)
      BY <2>1 DEF Target, Reads, Results, LoadLike, BitCastLike
    <3>2. ~ IsUnset(Current.a)
      BY <1>1, <3>1
    <3>3. QED BY <1>3, <2>1, <3>1, <3>2 DEF Copies
  <2>2. CASE Current.op \in {"zext", "binary", "icmp", "call"}
    <3>1. IsBody(Code) /\ exec.b \in DOMAIN Code /\ exec.k \in DOMAIN Code[exec.b]
      BY <1>0, CodeOfPlace
    <3>2. Current.op \notin LoadLike \cup {"trunc", "sext", "phi"}
      BY <2>2 DEF LoadLike, BitCastLike
    <3>3. Current.id \notin Tracked(Code)
      BY <3>1, <3>2, UntrackedResult DEF Current, IsJudged
    <3>4. QED BY <2>2, <3>3 DEF Computes
  <2>3. QED BY <1>2, <2>1, <2>2
<1>6. Binds(w, x, env) /\ ~ exec.loose /\ \A v \in DOMAIN exec.env : env[v].n = exec.env[v].n
  BY <1>1, <1>4
<1>7. QED BY <1>5, <1>6, KeptBind

LEMMA KeptStore ==
  ASSUME ExecutionInv, ReturnedInv, RangeInv, TrackedInv, Running, NumbersInv, AbstractInv, KeptInv,
         UNCHANGED <<prog, facts, ranges>>, IsJudged, ~ exec'.loose, ExecuteStore
  PROVE  KeptInv'
<1>0. ControlInv /\ PlaceInv /\ Current.op = "store"
  BY DEF ExecutionInv, ExecuteStore
<1>1. PICK x : Binds(Current.b, x, exec.env) /\ \E y \in Operand(Current.a) : x.n = y.n
  BY <1>0, StoreBinds
<1>2. ~ exec.loose /\ ~ IsUnset(Current.a)
  BY <1>0, StoreBinds
<1> PICK w, env : w = Current.b /\ env = exec.env
  OBVIOUS
<1>3. Copies(w, x)
  BY <1>0, <1>1, <1>2 DEF Copies, Target
<1>4. Binds(w, x, env) /\ \A v \in DOMAIN exec.env : env[v].n = exec.env[v].n
  BY <1>1
<1>5. QED BY <1>2, <1>3, <1>4, KeptBind

LEMMA KeptNext ==
  ASSUME ExecutionInv, ReturnedInv, RangeInv, TrackedInv, ResultsInv, AbstractInv, KeptInv,
         [ExecNext]_allVars
  PROVE  KeptInv'
<1>0. ControlInv /\ PlaceInv
  BY DEF ExecutionInv
<1>1. CASE Analyse /\ UNCHANGED exec
  <2>1. ~ Running
    BY <1>0, <1>1, AnalysisIsOver DEF PlaceInv
  <2>2. QED BY <1>1, <2>1 DEF KeptInv, Running
<1>2. CASE Run /\ UNCHANGED vars
  <2>0. UNCHANGED <<prog, facts, ranges>>
    BY <1>2 DEF vars
  <2>1. CASE ~ Running
    <3>1. PICK f \in DOMAIN prog.body : Enter(f)
      BY <1>2, <2>1 DEF Run, Running
    <3>2. exec'.fn = f /\ f \notin prog.void /\ exec'.env = <<>>
      BY <3>1 DEF Enter, Idle
    <3>3. DOMAIN exec'.env = {}
      BY <3>2
    <3>4. QED BY <2>0, <3>2, <3>3 DEF KeptInv
  <2>2. CASE Running /\ exec' = Idle
    BY <2>2 DEF KeptInv, Running, Idle
  <2>3. CASE Running /\ exec' # Idle
    <3>0. NumbersInv /\ ComparisonsInv
      BY <2>3 DEF ResultsInv
    <3>1. exec'.fn = exec.fn
      BY <1>0, <1>2, <2>3, RunCases DEF Enter, Running, Assigns, Enters
    <3>2. CASE ~ IsJudged \/ exec'.loose
      BY <2>0, <2>3, <3>1, <3>2, KeptBlindly
    <3>3. CASE IsJudged /\ ~ exec'.loose
      <4>1. CASE ExecuteValue
        BY <2>0, <2>3, <3>0, <3>3, <4>1, KeptValue
      <4>2. CASE ExecuteStore
        BY <2>0, <2>3, <3>0, <3>3, <4>2, KeptStore
      <4>3. ASSUME Current.op \in {"jump", "branch", "switch"}, NEW b, IsToldOfSlot(b)
            PROVE  KeptInv'
        <5>1. exec.k = Len(Code[exec.b])
          BY <1>0, <2>3, <4>3, PlaceShape
        <5>2. QED BY <2>0, <2>3, <3>0, <3>3, <4>3, <5>1, KeptMove
      <4>4. CASE ExecuteJump
        BY <1>0, <2>3, <4>3, <4>4, JumpTellsOfSlot DEF ExecuteJump
      <4>5. CASE ExecuteBranch
        <5>1. Current.op = "branch" /\ IsPlain(Code)
          BY <3>3, <4>5 DEF ExecuteBranch, IsJudged
        <5>2. QED BY <1>0, <2>3, <3>0, <4>3, <4>5, <5>1, BranchTellsOfSlot
      <4>6. CASE ExecuteSwitch
        <5>1. Current.op = "switch"
          BY <4>6 DEF ExecuteSwitch
        <5>2. QED BY <1>0, <2>3, <3>0, <4>3, <4>6, <5>1, SwitchTellsOfSlot
      <4>7. QED BY <1>2, <2>3, <4>1, <4>2, <4>4, <4>5, <4>6 DEF Run, Enter, Running, Leave
    <3>4. QED BY <3>2, <3>3
  <2>4. QED BY <2>1, <2>2, <2>3
<1>3. CASE UNCHANGED allVars
  <2>1. UNCHANGED <<prog, facts, ranges, exec>>
    BY <1>3 DEF allVars, vars
  <2>2. Code' = Code /\ MayReturn' = MayReturn /\ RangeFacts' = RangeFacts
    BY <2>1 DEF Code, MayReturn, RangeFacts
  <2>3. IsRangedHere' = IsRangedHere /\ IsJudged' = IsJudged
    BY <2>1, <2>2 DEF IsRangedHere, IsJudged
  <2>4. QED BY <2>1, <2>2, <2>3 DEF KeptInv, Running, FactsHere
<1>4. QED BY <1>1, <1>2, <1>3 DEF ExecNext

(* What is returned is within the range of the function.                   *)
LEMMA ReturnIsInRange ==
  ASSUME ExecutionInv, ReturnedInv, RangeInv, TrackedInv, NumbersInv, AbstractInv, KeptInv,
         Returning, IsJudged, ~ exec.loose, ~ IsUnset(Current.a), NEW x \in Operand(Current.a)
  PROVE  Covers(ranges[exec.fn], x.n)
<1> DEFINE v == Current.a
           b == exec.b
           D == ranges[exec.fn]
<1>0. /\ ControlInv /\ PlaceInv /\ Running /\ Current.op = "return" /\ exec.fn \notin prog.void
  BY DEF ExecutionInv, Returning, KeptInv
<1>1. /\ IsBody(Code) /\ b \in DOMAIN Code /\ Current \in InstructionsOf(Code)
      /\ exec.k = Len(Code[b]) /\ Current = Terminator(Code[b])
  BY <1>0, CodeOfPlace, PlaceShape DEF Current, Terminator
<1>2. v \in UsedIn(Code) /\ v \in ValuesOf(Code)
  <2>1. v \in Reads(Current)
    BY <1>0 DEF Reads
  <2>2. QED BY <1>0, <1>1, <2>1 DEF UsedIn, ValuesOf
<1>3. v \in DOMAIN exec.env => v \in FactsHere("returned")
  <2>1. IsThrough(FactsHere("returned"), FactsBehind(MayReturn), Current)
    BY <1>0, ReturnedHere DEF MayReturn, FactsBehind
  <2>2. v \in DOMAIN exec.env => v # ""
    BY <1>0, PlaceShape
  <2>3. QED BY <1>0, <2>1, <2>2, ThroughReturn
<1>4. /\ AreRanges(ranges) /\ HasRangeFacts(Code, RangeFacts)
      /\ \/ IsRangedHere
         \/ \A c \in DOMAIN Code : IsReturnAbstract(Code, ranges, c, D)
  BY <1>0, RangedHere
<1>5. CASE IsRangedHere
  <2>1. FactsHere("range") = RangeFacts[b][Len(Code[b])]
    BY <1>1 DEF FactsHere, RangeFacts
  <2>2. Below(RangeOf(Code, ranges, FactsHere("range"), v), D)
    BY <1>0, <1>1, <1>5, <2>1 DEF IsRangedHere, IsFullyRanged, IsReturnRanged
  <2>3. SignOf(x.n) \in Gamma[RangeOf(Code, ranges, FactsHere("range"), v)]
    BY <1>0, <1>2, <1>3, OperandInRange
  <2>4. RangeOf(Code, ranges, FactsHere("range"), v) # Absent
    <3>1. FactsHere("range") \in [ValuesOf(Code) -> Known]
      BY <1>0, <1>4, FactsAround
    <3>2. QED BY <1>2, <1>4, <3>1, RangeOfType, AbsentIsNoElement
  <2>5. Covers(RangeOf(Code, ranges, FactsHere("range"), v), x.n)
    BY <2>3, <2>4 DEF Covers
  <2>6. QED BY <2>2, <2>5, BelowCovers
<1>6. CASE ~ IsRangedHere
  <2>1. v \notin DOMAIN exec.env \cap Tracked(Code)
    BY <1>0, <1>3, <1>6 DEF KeptInv
  <2>2. v \notin Tracked(Code) /\ IsAbstract(v, x.n)
    BY <1>0, <1>2, <2>1, UntrackedOperand
  <2>3. Below(AbstractValue(Code, ranges, v), D)
    BY <1>0, <1>1, <1>4, <1>6, <2>2 DEF IsReturnAbstract
  <2>4. AbstractValue(Code, ranges, v) # Absent
    BY <1>4, AbstractValueType, AbsentIsNoElement
  <2>5. Covers(AbstractValue(Code, ranges, v), x.n)
    BY <2>2, <2>4 DEF Covers, IsAbstract
  <2>6. QED BY <2>3, <2>5, BelowCovers
<1>7. QED BY <1>5, <1>6

(* A function returns values of the range that ReturnRangePass has found   *)
(* for it, and it has found one for every function that returns: in every  *)
(* execution of every plain function without a lone test, unless a test    *)
(* has looked at something else than the pass thinks, if the functions it  *)
(* calls return values of their ranges.                                    *)
THEOREM RangesCovered == ExecSpec => []RangesCoverReturns
<1>1. ExecInit => ResultsInv /\ AbstractInv /\ KeptInv
  BY DEF ExecInit, Idle, Running, ResultsInv, AbstractInv, KeptInv
<1>2. /\ ExecutionInv /\ RangeInv /\ TrackedInv /\ ReturnedValuesInv
      /\ ResultsInv /\ AbstractInv /\ KeptInv /\ [ExecNext]_allVars
      => ResultsInv' /\ AbstractInv' /\ KeptInv'
  BY ResultsNext, AbstractNext, KeptNext DEF ExecutionInv, ReturnedValuesInv
<1>3. /\ ExecutionInv /\ RangeInv /\ TrackedInv /\ ReturnedValuesInv
      /\ ResultsInv /\ AbstractInv /\ KeptInv
      => RangesCoverReturns
  <2> SUFFICES ASSUME ExecutionInv, RangeInv, TrackedInv, ReturnedValuesInv,
                      ResultsInv, AbstractInv, KeptInv
               PROVE  RangesCoverReturns
    OBVIOUS
  <2> SUFFICES ASSUME Running, IsJudged, Returning, ~ exec.loose, ~ IsUnset(Current.a)
               PROVE  /\ ranges[exec.fn] # Absent
                      /\ \A x \in Operand(Current.a) : SignOf(x.n) \in Gamma[ranges[exec.fn]]
    BY DEF RangesCoverReturns, ReturnsAreInRange, IsJudged
  <2>1. NumbersInv /\ ReturnedInv
    BY DEF ResultsInv, ReturnedValuesInv
  <2>2. \A x \in Operand(Current.a) : Covers(ranges[exec.fn], x.n)
    BY <2>1, ReturnIsInRange
  <2>3. Operand(Current.a) # {}
    BY ExternalValuesAssumption DEF Operand
  <2>4. QED BY <2>2, <2>3 DEF Covers
<1>4. QED BY <1>1, <1>2, <1>3, RangeAlways, ExecutionInitial, ExecutionNext, ReturnedValuesInitial,
             ReturnedValuesNext, PTL DEF ExecSpec
=============================================================================
