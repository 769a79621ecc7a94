-------------------------- MODULE DataflowTheorems --------------------------
(***************************************************************************)
(* What the dataflow passes promise, for every program that is well        *)
(* formed (IsProgram) and every execution of each of its functions.        *)
(*                                                                         *)
(* The argument has the same three layers for ReturnPropagationPass and    *)
(* ReturnedValuesPass:                                                     *)
(*   1. the loop of VisitBlock, by induction on the instructions of the    *)
(*      block: what it writes, and that it reports no change only when the *)
(*      facts of the block agree with the transfer function;               *)
(*   2. the loop of RunOnFunction, as an invariant of the analysis: the    *)
(*      blocks visited since the last change are settled, and so are all   *)
(*      blocks of a function that the pass has left;                       *)
(*   3. the execution, as an invariant of its steps: settled facts are     *)
(*      true of the values that the names hold.                            *)
(* ReturnConstraintsPass and ReturnRangePass have the first two here: a    *)
(* test only adds to the entries of its successors (PassOnIsAbove), and    *)
(* with it all four passes stop at fixpoints.  What their facts say of an  *)
(* execution is the subject of ConstraintsTheorems.                        *)
(***************************************************************************)
EXTENDS Execution, SpecificationTheorems, SequenceTheorems, FiniteSetTheorems

LEMMA NaturalInduction ==
  ASSUME NEW S, 0 \in S, \A i \in Nat : i \in S => i + 1 \in S
  PROVE  Nat \subseteq S
<1>1. SUFFICES ASSUME Nat \ S # {} PROVE FALSE
  OBVIOUS
<1>2. PICK m \in Nat \ S : \A j \in Nat \ S : m <= j
  BY <1>1, LeastNatural
<1>3. m - 1 \in Nat /\ m - 1 \in S
  BY <1>2
<1>4. QED BY <1>2, <1>3

LEMMA SingletonChoice ==
  ASSUME NEW a
  PROVE  (CHOOSE x \in {a} : TRUE) = a
OBVIOUS

(***************************************************************************)
(* The loop of ReturnPropagationPass::VisitBlock.                          *)
(***************************************************************************)
SetAt(F, b, k, fact) == [F EXCEPT ![b][k] = fact]

Propagated(body, b, fs, k) ==
  SetAt(fs, b, k + 1, PropagateInst(fs[b][k], fs[b][k + 1], body[b][k]))

AfterPropagating(body, b, x, k) ==
  [facts   |-> Propagated(body, b, x.facts, k),
   changed |-> HasChanged(x.changed, x.facts[b][k + 1],
                          Propagated(body, b, x.facts, k)[b][k + 1])]

Unchanged(F) == [facts |-> F, changed |-> FALSE]

(* g[i] is what the loop has after i instructions. *)
IsPropagation(body, b, F, m, g) ==
  g = [i \in 0..m |-> IF i = 0 THEN Unchanged(F)
                      ELSE AfterPropagating(body, b, g[i - 1], i)]

LEMMA PropagationExists ==
  ASSUME NEW body, NEW b, NEW F
  PROVE  \A n \in Nat : \E g : IsPropagation(body, b, F, n, g)
<1> DEFINE S == {m \in Nat : \E g : IsPropagation(body, b, F, m, g)}
<1>1. 0 \in S
  <2> DEFINE g == [i \in 0..0 |-> Unchanged(F)]
  <2>1. IsPropagation(body, b, F, 0, g)
    BY DEF IsPropagation
  <2>2. QED BY <2>1
<1>2. ASSUME NEW m \in Nat, m \in S PROVE m + 1 \in S
  <2>1. PICK h : IsPropagation(body, b, F, m, h)
    BY <1>2
  <2> DEFINE g == [i \in 0..m + 1 |-> IF i = m + 1 THEN AfterPropagating(body, b, h[m], m + 1)
                                      ELSE h[i]]
             next(i) == IF i = 0 THEN Unchanged(F) ELSE AfterPropagating(body, b, g[i - 1], i)
  <2>2. ASSUME NEW i \in 0..m + 1 PROVE g[i] = next(i)
    <3>1. CASE i = m + 1
      <4>1. g[i] = AfterPropagating(body, b, h[m], i) /\ g[i - 1] = h[m]
        BY <3>1
      <4>2. QED BY <3>1, <4>1
    <3>2. CASE i # m + 1
      <4>1. g[i] = h[i] /\ i \in 0..m /\ (i # 0 => g[i - 1] = h[i - 1])
        BY <3>2
      <4>2. h[i] = IF i = 0 THEN Unchanged(F) ELSE AfterPropagating(body, b, h[i - 1], i)
        BY <2>1, <4>1 DEF IsPropagation
      <4>3. QED BY <4>1, <4>2
    <3>3. QED BY <3>1, <3>2
  <2>3. IsPropagation(body, b, F, m + 1, g)
    BY <2>2 DEF IsPropagation
  <2>4. QED BY <2>3
<1> HIDE DEF S
<1>3. Nat \subseteq S
  BY <1>1, <1>2, NaturalInduction
<1>4. QED BY <1>3 DEF S

(* VisitBlock is the end of such a run. *)
LEMMA PropagationUnfolds ==
  ASSUME NEW body, NEW F, NEW b \in DOMAIN body, body[b] \in Seq(Range(body[b]))
  PROVE  \E g : /\ IsPropagation(body, b, F, Len(body[b]), g)
                /\ PropagationVisitBlock(body, F, b) = g[Len(body[b])]
<1> DEFINE n == Len(body[b])
           order == [k \in DOMAIN body[b] |-> k]
           Visit(fs, k) == [fs EXCEPT ![b][k + 1] = PropagateInst(fs[b][k], @, body[b][k])]
           Step(d, i) ==
             CHOOSE step \in
               {[facts   |-> x.next,
                 changed |-> HasChanged(x.done.changed,
                                        x.done.facts[b][order[i] + 1],
                                        x.next[b][order[i] + 1])] :
                  x \in {[done |-> e, next |-> Visit(e.facts, order[i])] : e \in {d}}} :
               TRUE
           Stages(g, m) == [i \in 0..m |-> IF i = 0 THEN [facts |-> F, changed |-> FALSE]
                                        ELSE Step(g[i - 1], i)]
<1>1. PropagationVisitBlock(body, F, b) = (CHOOSE g : g = Stages(g, Len(order)))[Len(order)]
  BY Zenon DEF PropagationVisitBlock, VisitInstructions
<1>2. n \in Nat /\ DOMAIN body[b] = 1..n
  BY LenProperties
<1>3. order \in Seq(1..n) /\ Len(order) = n
  <2>1. order \in [1..n -> 1..n]
    BY <1>2
  <2>2. order \in Seq(1..n)
    BY <1>2, <2>1, SeqDef
  <2>3. QED BY <1>2, <2>1, <2>2, LenProperties
<1>4. ASSUME NEW d, NEW i \in 1..n PROVE Step(d, i) = AfterPropagating(body, b, d, i)
  <2>1. order[i] = i
    BY <1>2
  <2>2. Visit(d.facts, order[i]) = Propagated(body, b, d.facts, i)
    BY <2>1 DEF Propagated, SetAt
  <2> DEFINE x0 == [done |-> d, next |-> Visit(d.facts, order[i])]
             xs == {[done |-> e, next |-> Visit(e.facts, order[i])] : e \in {d}}
  <2>3. xs = {x0} /\ x0.done = d /\ x0.next = Propagated(body, b, d.facts, i)
    BY <2>2
  <2> HIDE DEF xs, x0, Visit
  <2>4. {[facts   |-> x.next,
          changed |-> HasChanged(x.done.changed, x.done.facts[b][order[i] + 1],
                                 x.next[b][order[i] + 1])] : x \in xs}
         = {AfterPropagating(body, b, d, i)}
    BY <2>1, <2>3 DEF AfterPropagating
  <2>5. QED BY <2>4, SingletonChoice, Zenon DEF xs, Visit
<1> HIDE DEF Step
<1>5. \A g : g = Stages(g, Len(order)) <=> IsPropagation(body, b, F, n, g)
  BY <1>2, <1>3, <1>4 DEF IsPropagation, Unchanged
<1>6. PICK h : IsPropagation(body, b, F, n, h)
  BY <1>2, PropagationExists
<1> HIDE DEF Stages
<1>7. QED
  BY <1>1, <1>3, <1>5, <1>6

(***************************************************************************)
(* Facts of ReturnPropagationPass: one at each point of each block, for    *)
(* each name, with nothing held in a constant.                             *)
(***************************************************************************)
IsPropagationFact(body, fact) ==
  /\ fact = [v \in ValuesOf(body) |-> fact[v]]
  /\ \A c \in Constant : fact[c] = {}

HasPropagationFacts(body, F) ==
  /\ F = [b \in DOMAIN body |-> F[b]]
  /\ \A b \in DOMAIN body :
       /\ F[b] = [k \in 1..Len(body[b]) + 1 |-> F[b][k]]
       /\ \A k \in 1..Len(body[b]) + 1 : IsPropagationFact(body, F[b][k])

(* The facts of a block agree with the transfer function.                  *)
IsTransferred(body, F, b) ==
  \A k \in 1..Len(body[b]) :
    PropagateInst(F[b][k], F[b][k + 1], body[b][k]) = F[b][k + 1]

LEMMA BodyShape ==
  ASSUME NEW body, IsBody(body)
  PROVE  /\ Len(body) \in Nat \ {0} /\ DOMAIN body = 1..Len(body)
         /\ \A b \in DOMAIN body :
              /\ body[b] \in Seq(Range(body[b]))
              /\ Len(body[b]) \in Nat \ {0} /\ DOMAIN body[b] = 1..Len(body[b])
              /\ \A k \in 1..Len(body[b]) :
                   /\ body[b][k] \in InstructionsOf(body)
                   /\ body[b][k].id \in ValuesOf(body)
                   /\ body[b][k].id \notin Constant /\ body[b][k].id # ""
                   /\ body[b][k].op = "store" =>
                        /\ body[b][k].b \in ValuesOf(body)
                        /\ body[b][k].b \notin Constant /\ body[b][k].b # ""
<1>1. body \in Seq(Range(body)) /\ body # <<>>
  BY DEF IsBody
<1>2. Len(body) \in Nat /\ DOMAIN body = 1..Len(body) /\ Len(body) # 0
  BY <1>1, LenProperties, EmptySeq, SeqEqual
<1>3. ASSUME NEW b \in DOMAIN body
      PROVE  /\ body[b] \in Seq(Range(body[b]))
             /\ Len(body[b]) \in Nat \ {0} /\ DOMAIN body[b] = 1..Len(body[b])
  <2>1. body[b] \in Seq(Range(body[b])) /\ body[b] # <<>>
    BY DEF IsBody, IsBlock
  <2>2. QED BY <2>1, LenProperties, EmptySeq, SeqEqual
<1>4. ASSUME NEW b \in DOMAIN body, NEW k \in 1..Len(body[b])
      PROVE  /\ body[b][k] \in InstructionsOf(body)
             /\ body[b][k].id \in ValuesOf(body)
             /\ body[b][k].id \notin Constant /\ body[b][k].id # ""
             /\ body[b][k].op = "store" =>
                  /\ body[b][k].b \in ValuesOf(body)
                  /\ body[b][k].b \notin Constant /\ body[b][k].b # ""
  <2>1. body[b][k] \in InstructionsOf(body)
    BY <1>3 DEF InstructionsOf, Range
  <2>2. IsName(body[b][k].id) /\ (body[b][k].op = "store" => IsName(body[b][k].b))
    BY <1>3 DEF IsBody, IsBlock
  <2>3. body[b][k].op = "store" => body[b][k].b \in Slots(body)
    BY <2>1 DEF Slots
  <2>4. QED BY <2>1, <2>2, <2>3 DEF ValuesOf, IsName
<1>5. QED BY <1>2, <1>3, <1>4

LEMMA ConstantsAreValues == ASSUME NEW body PROVE Constant \subseteq ValuesOf(body)
BY DEF ValuesOf

LEMMA OperandsAreValues ==
  ASSUME NEW body, NEW i \in InstructionsOf(body)
  PROVE  IF i.op = "phi" THEN Range(i.in) \subseteq ValuesOf(body) ELSE Reads(i) \subseteq ValuesOf(body)
BY DEF ValuesOf, UsedIn

(* What instructions and slots are called.                                 *)
NamesOf(body) == ValuesOf(body) \ (Constant \cup {""})

LEMMA NamesAreNames ==
  ASSUME NEW body, IsBody(body)
  PROVE  \A b \in DOMAIN body : \A k \in 1..Len(body[b]) :
           /\ body[b][k].id \in NamesOf(body)
           /\ body[b][k].op = "store" => body[b][k].b \in NamesOf(body)
BY BodyShape DEF NamesOf

(* A transfer function keeps facts facts.                                  *)
LEMMA PropagateKeepsFacts ==
  ASSUME NEW body, IsBody(body), NEW b \in DOMAIN body, NEW k \in 1..Len(body[b]),
         NEW before, IsPropagationFact(body, before),
         NEW after, IsPropagationFact(body, after)
  PROVE  IsPropagationFact(body, PropagateInst(before, after, body[b][k]))
<1> DEFINE inst == body[b][k]
<1>1. /\ inst.id \in ValuesOf(body) /\ inst.id \notin Constant
      /\ inst.op = "store" => inst.b \in ValuesOf(body) /\ inst.b \notin Constant
  BY BodyShape
<1>2. Constant \subseteq ValuesOf(body)
  BY ConstantsAreValues
<1> SUFFICES IsPropagationFact(body, PropagateInst(before, after, inst))
  OBVIOUS
<1> HIDE DEF inst
<1>3. ASSUME NEW fact, IsPropagationFact(body, fact), NEW v \in ValuesOf(body) \ Constant, NEW x
      PROVE  IsPropagationFact(body, [fact EXCEPT ![v] = x])
  BY <1>2, <1>3 DEF IsPropagationFact
<1>4. ASSUME NEW v \in ValuesOf(body) \ Constant, NEW a
      PROVE  IsPropagationFact(body, CopySources(before, a, v))
  BY <1>3 DEF CopySources
<1>5. CASE inst.op = "call"
  BY <1>1, <1>3, <1>5 DEF PropagateInst, LoadLike, BitCastLike
<1>6. CASE inst.op \in LoadLike \cup {"binary"}
  BY <1>1, <1>4, <1>6 DEF PropagateInst, LoadLike, BitCastLike
<1>7. CASE inst.op = "store"
  <2>1. ASSUME NEW x PROVE IsPropagationFact(body, [before EXCEPT ![inst.b] = x])
    BY <1>1, <1>3, <1>7
  <2>2. ASSUME NEW x, NEW y
        PROVE  IsPropagationFact(body, [[before EXCEPT ![inst.b] = x] EXCEPT ![inst.b] = y])
    BY <1>1, <1>3, <1>7, <2>1
  <2>3. IsPropagationFact(body, PropagateStore(before, inst))
    BY <2>1, <2>2 DEF PropagateStore
  <2>4. QED BY <1>7, <2>3 DEF PropagateInst, LoadLike, BitCastLike
<1>8. CASE inst.op = "phi"
  BY <1>1, <1>3, <1>8 DEF PropagateInst, PropagatePhi, LoadLike, BitCastLike
<1>9. CASE inst.op \notin {"call", "store", "phi", "binary"} \cup LoadLike
  BY <1>9 DEF PropagateInst
<1>10. QED BY <1>5, <1>6, <1>7, <1>8, <1>9

(* Setting one point of one block.                                         *)
LEMMA SetPoint ==
  ASSUME NEW body, IsBody(body), NEW F, HasPropagationFacts(body, F),
         NEW b \in DOMAIN body, NEW k \in 1..Len(body[b]) + 1,
         NEW fact, IsPropagationFact(body, fact)
  PROVE  /\ HasPropagationFacts(body, SetAt(F, b, k, fact))
         /\ SetAt(F, b, k, fact)[b][k] = fact
         /\ \A c \in DOMAIN body : c # b => SetAt(F, b, k, fact)[c] = F[c]
         /\ \A j \in 1..Len(body[b]) + 1 : j # k => SetAt(F, b, k, fact)[b][j] = F[b][j]
         /\ fact = F[b][k] => SetAt(F, b, k, fact) = F
BY DEF HasPropagationFacts, SetAt

(* What a visit of one block does to the facts of the function: it writes  *)
(* behind the instructions of this block, and reports no change only when  *)
(* nothing has changed and the block agrees with the transfer function.    *)
LEMMA PropagationVisits ==
  ASSUME NEW body, IsBody(body), NEW F, HasPropagationFacts(body, F),
         NEW b \in DOMAIN body
  PROVE  LET visit == PropagationVisitBlock(body, F, b)
         IN /\ HasPropagationFacts(body, visit.facts)
            /\ \A c \in DOMAIN body : c # b => visit.facts[c] = F[c]
            /\ ~ visit.changed => visit.facts = F /\ IsTransferred(body, F, b)
            /\ IsTransferred(body, F, b) => visit.facts = F
<1> DEFINE n == Len(body[b])
           visit == PropagationVisitBlock(body, F, b)
<1>1. n \in Nat /\ body[b] \in Seq(Range(body[b]))
  BY BodyShape
<1>2. PICK g : IsPropagation(body, b, F, n, g) /\ visit = g[n]
  BY <1>1, PropagationUnfolds
<1> DEFINE Good(i) ==
             /\ HasPropagationFacts(body, g[i].facts)
             /\ \A c \in DOMAIN body : c # b => g[i].facts[c] = F[c]
             /\ ~ g[i].changed =>
                  /\ g[i].facts = F
                  /\ \A k \in 1..i : PropagateInst(F[b][k], F[b][k + 1], body[b][k])
                                     = F[b][k + 1]
             /\ IsTransferred(body, F, b) => g[i].facts = F
           S == {i \in Nat : i <= n => Good(i)}
<1> HIDE DEF n, visit
<1>3. 0 \in S
  <2>1. g[0] = Unchanged(F)
    BY <1>1, <1>2 DEF IsPropagation
  <2>2. QED BY <2>1 DEF Unchanged
<1>4. ASSUME NEW i \in Nat, i \in S PROVE i + 1 \in S
  <2>1. SUFFICES ASSUME i + 1 <= n PROVE Good(i + 1)
    OBVIOUS
  <2> DEFINE fs == g[i].facts
             fact == PropagateInst(fs[b][i + 1], fs[b][i + 2], body[b][i + 1])
             next == SetAt(fs, b, i + 2, fact)
  <2>2. Good(i)
    BY <1>1, <1>4, <2>1
  <2>3. g[i + 1] = AfterPropagating(body, b, g[i], i + 1)
    BY <1>1, <1>2, <2>1 DEF IsPropagation
  <2>4. Propagated(body, b, fs, i + 1) = next
    <3>1. (i + 1) + 1 = i + 2
      OBVIOUS
    <3>2. QED BY <3>1 DEF Propagated
  <2>5. /\ g[i + 1].facts = next
        /\ g[i + 1].changed = HasChanged(g[i].changed, fs[b][i + 2], next[b][i + 2])
    <3>1. (i + 1) + 1 = i + 2
      OBVIOUS
    <3>2. QED BY <2>3, <2>4, <3>1 DEF AfterPropagating
  <2>6. i + 1 \in 1..Len(body[b]) /\ i + 1 \in 1..Len(body[b]) + 1 /\ i + 2 \in 1..Len(body[b]) + 1
    BY <1>1, <2>1 DEF n
  <2>7. IsPropagationFact(body, fs[b][i + 1]) /\ IsPropagationFact(body, fs[b][i + 2])
    BY <2>2, <2>6 DEF HasPropagationFacts
  <2>8. IsPropagationFact(body, fact)
    BY <2>6, <2>7, PropagateKeepsFacts
  <2> HIDE DEF fs, fact
  <2>9. /\ HasPropagationFacts(body, next)
        /\ next[b][i + 2] = fact
        /\ \A c \in DOMAIN body : c # b => next[c] = fs[c]
        /\ fact = fs[b][i + 2] => next = fs
    <3>1. HasPropagationFacts(body, fs)
      BY <2>2 DEF fs
    <3>2. QED BY <3>1, <2>6, <2>8, SetPoint
  <2> HIDE DEF next
  <2>10. HasPropagationFacts(body, g[i + 1].facts)
         /\ \A c \in DOMAIN body : c # b => g[i + 1].facts[c] = F[c]
    BY <2>2, <2>5, <2>9 DEF fs
  <2>11. ASSUME ~ g[i + 1].changed
         PROVE  /\ g[i + 1].facts = F
                /\ \A k \in 1..i + 1 : PropagateInst(F[b][k], F[b][k + 1], body[b][k])
                                       = F[b][k + 1]
    <3>1. ~ g[i].changed /\ fact = fs[b][i + 2]
      BY <2>5, <2>9, <2>11 DEF HasChanged
    <3>2. fs = F /\ next = F
      BY <2>2, <2>9, <3>1 DEF fs
    <3>3. \A k \in 1..i + 1 : k \in 1..i \/ k = i + 1
      OBVIOUS
    <3>4. PropagateInst(F[b][i + 1], F[b][(i + 1) + 1], body[b][i + 1])
          = F[b][(i + 1) + 1]
      <4>1. (i + 1) + 1 = i + 2
        OBVIOUS
      <4>2. QED BY <3>1, <3>2, <4>1 DEF fact
    <3>5. QED BY <2>2, <2>5, <3>1, <3>2, <3>3, <3>4
  <2>12. ASSUME IsTransferred(body, F, b) PROVE g[i + 1].facts = F
    <3>1. fs = F
      BY <2>2, <2>12 DEF fs
    <3>2. (i + 1) + 1 = i + 2
      OBVIOUS
    <3>3. fact = F[b][i + 2]
      BY <2>6, <2>12, <3>1, <3>2 DEF fact, IsTransferred
    <3>4. QED BY <2>5, <2>9, <3>1, <3>3
  <2>13. QED BY <2>10, <2>11, <2>12
<1> HIDE DEF S
<1>5. n \in S
  BY <1>1, <1>3, <1>4, NaturalInduction
<1>6. Good(n)
  BY <1>1, <1>5 DEF S
<1>7. QED
  BY <1>2, <1>6 DEF n, visit, IsTransferred

(***************************************************************************)
(* The loop over blocks.  A block is settled when visiting it, with its    *)
(* predecessors' facts joined in, would change nothing.                    *)
(***************************************************************************)
IsFed(body, F, b) ==
  \A p \in Predecessors(body, b) : \A v \in ValuesOf(body) :
    F[p][Len(body[p]) + 1][v] \subseteq F[b][1][v]

IsSettledBlock(body, F, b) == IsTransferred(body, F, b) /\ IsFed(body, F, b)

LEMMA ExitIsLast ==
  ASSUME NEW body, IsBody(body), NEW F, NEW b \in DOMAIN body,
         F[b] = [k \in 1..Len(body[b]) + 1 |-> F[b][k]]
  PROVE  Len(F[b]) = Len(body[b]) + 1 /\ ExitOf(F, b) = F[b][Len(body[b]) + 1]
<1> DEFINE n == Len(body[b]) + 1
           S == {F[b][k] : k \in 1..n}
<1>1. n \in Nat
  <2>1. Len(body[b]) \in Nat
    BY BodyShape
  <2>2. QED BY <2>1
<1>2. F[b] \in [1..n -> S]
  OBVIOUS
<1> HIDE DEF n, S
<1>3. F[b] \in Seq(S) /\ DOMAIN F[b] = 1..n
  <2>1. F[b] \in UNION {[1..m -> S] : m \in Nat}
    BY <1>1, <1>2
  <2>2. QED BY <1>2, <2>1, SeqDef
<1>4. Len(F[b]) = n
  BY <1>1, <1>3, LenProperties
<1>5. QED BY <1>4 DEF ExitOf, n

LEMMA PredecessorsAreBlocks ==
  ASSUME NEW body, NEW b, NEW p \in Predecessors(body, b)
  PROVE  p \in DOMAIN body
BY DEF Predecessors

LEMMA JoinKeepsFact ==
  ASSUME NEW body, NEW fact, IsPropagationFact(body, fact),
         NEW others, \A x \in others : IsPropagationFact(body, x)
  PROVE  /\ IsPropagationFact(body, JoinPropagation(fact, others))
         /\ \A x \in others : \A v \in ValuesOf(body) :
              x[v] \subseteq JoinPropagation(fact, others)[v]
         /\ (\A x \in others : \A v \in ValuesOf(body) : x[v] \subseteq fact[v])
              => JoinPropagation(fact, others) = fact
<1> DEFINE joined == JoinPropagation(fact, others)
<1>1. DOMAIN fact = ValuesOf(body)
  BY DEF IsPropagationFact
<1>2. joined = [v \in ValuesOf(body) |-> fact[v] \cup UNION {x[v] : x \in others}]
  BY <1>1 DEF JoinPropagation
<1> HIDE DEF joined
<1>3. Constant \subseteq ValuesOf(body)
  BY ConstantsAreValues
<1>4. ASSUME NEW c \in Constant PROVE joined[c] = {}
  BY <1>2, <1>3 DEF IsPropagationFact
<1>5. IsPropagationFact(body, joined)
  BY <1>2, <1>4 DEF IsPropagationFact
<1>6. ASSUME NEW x \in others, NEW v \in ValuesOf(body) PROVE x[v] \subseteq joined[v]
  BY <1>2
<1>7. ASSUME \A x \in others : \A v \in ValuesOf(body) : x[v] \subseteq fact[v]
      PROVE  joined = fact
  <2>1. ASSUME NEW v \in ValuesOf(body) PROVE joined[v] = fact[v]
    BY <1>2, <1>7
  <2>2. fact = [v \in ValuesOf(body) |-> fact[v]]
    BY DEF IsPropagationFact
  <2>3. QED BY <1>2, <2>1, <2>2
<1>8. QED BY <1>5, <1>6, <1>7 DEF joined

LEMMA PropagationSteps ==
  ASSUME NEW body, IsBody(body), NEW F, HasPropagationFacts(body, F),
         NEW b \in DOMAIN body
  PROVE  LET step == PropagationStep(body, F, b)
         IN /\ HasPropagationFacts(body, step.facts)
            /\ ~ step.changed =>
                 /\ IsSettledBlock(body, step.facts, b)
                 /\ \A c \in DOMAIN body :
                      c # b /\ IsSettledBlock(body, F, c) => IsSettledBlock(body, step.facts, c)
            /\ IsSettledBlock(body, F, b) => step.facts = F
<1> DEFINE exits == {ExitOf(F, p) : p \in Predecessors(body, b)}
           joined == JoinPropagation(EntryOf(F, b), exits)
           G == SetAt(F, b, 1, joined)
           step == PropagationStep(body, F, b)
<1>1. ASSUME NEW c \in DOMAIN body
      PROVE  /\ Len(body[c]) \in Nat \ {0}
             /\ ExitOf(F, c) = F[c][Len(body[c]) + 1]
             /\ 1 \in 1..Len(body[c]) + 1 /\ Len(body[c]) + 1 \in 1..Len(body[c]) + 1
             /\ IsPropagationFact(body, ExitOf(F, c))
             /\ IsPropagationFact(body, F[c][1])
  <2>1. Len(body[c]) \in Nat \ {0}
    BY BodyShape
  <2>2. ExitOf(F, c) = F[c][Len(body[c]) + 1]
    BY ExitIsLast DEF HasPropagationFacts
  <2>3. QED BY <2>1, <2>2 DEF HasPropagationFacts
<1>2. \A x \in exits : IsPropagationFact(body, x)
  BY <1>1, PredecessorsAreBlocks
<1>3. EntryOf(F, b) = F[b][1]
  BY DEF EntryOf
<1> HIDE DEF exits
<1>4. /\ IsPropagationFact(body, joined)
      /\ \A x \in exits : \A v \in ValuesOf(body) : x[v] \subseteq joined[v]
      /\ (\A x \in exits : \A v \in ValuesOf(body) : x[v] \subseteq F[b][1][v])
           => joined = F[b][1]
  BY <1>1, <1>2, <1>3, JoinKeepsFact
<1> HIDE DEF joined
<1>5. /\ HasPropagationFacts(body, G) /\ G[b][1] = joined
      /\ \A c \in DOMAIN body : c # b => G[c] = F[c]
      /\ \A j \in 1..Len(body[b]) + 1 : j # 1 => G[b][j] = F[b][j]
      /\ joined = F[b][1] => G = F
  BY <1>1, <1>4, SetPoint
<1>6. step = PropagationVisitBlock(body, G, b)
  BY DEF PropagationStep, SetAt, exits, joined
<1> HIDE DEF G, step
<1>7. /\ HasPropagationFacts(body, step.facts)
      /\ ~ step.changed => step.facts = G /\ IsTransferred(body, G, b)
      /\ IsTransferred(body, G, b) => step.facts = G
  BY <1>5, <1>6, PropagationVisits
<1>8. ASSUME NEW c \in DOMAIN body
      PROVE  G[c][Len(body[c]) + 1] = F[c][Len(body[c]) + 1]
  BY <1>1, <1>5
<1>9. IsFed(body, G, b)
  <2> SUFFICES ASSUME NEW p \in Predecessors(body, b), NEW v \in ValuesOf(body)
               PROVE  G[p][Len(body[p]) + 1][v] \subseteq G[b][1][v]
    BY DEF IsFed
  <2>1. p \in DOMAIN body /\ ExitOf(F, p) \in exits
    BY PredecessorsAreBlocks DEF exits
  <2>2. QED BY <1>1, <1>4, <1>5, <1>8, <2>1
<1>10. ASSUME NEW c \in DOMAIN body, c # b, IsSettledBlock(body, F, c)
       PROVE  IsSettledBlock(body, G, c)
  <2>1. G[c] = F[c]
    BY <1>5, <1>10
  <2>2. IsTransferred(body, G, c)
    BY <1>10, <2>1 DEF IsSettledBlock, IsTransferred
  <2>3. IsFed(body, G, c)
    BY <1>8, <1>10, <2>1, PredecessorsAreBlocks DEF IsSettledBlock, IsFed
  <2>4. QED BY <2>2, <2>3 DEF IsSettledBlock
<1>11. ASSUME IsSettledBlock(body, F, b) PROVE step.facts = F
  <2>1. \A x \in exits : \A v \in ValuesOf(body) : x[v] \subseteq F[b][1][v]
    BY <1>1, <1>11, PredecessorsAreBlocks DEF exits, IsSettledBlock, IsFed
  <2>2. G = F
    BY <1>4, <1>5, <2>1
  <2>3. QED BY <1>7, <1>11, <2>2 DEF IsSettledBlock
<1>12. QED
  BY <1>7, <1>9, <1>10, <1>11 DEF IsSettledBlock, step

(***************************************************************************)
(* Where the analysis is.                                                  *)
(***************************************************************************)
Passes == {"propagation", "constraints", "returned", "range"}

ControlInv ==
  /\ prog \in Programs
  /\ pass \in Passes \cup {"done"}
  /\ fn \in DOMAIN prog.body \cup {"none"}
  /\ todo \subseteq DOMAIN prog.body
  /\ fn # "none" => block \in Nat \ {0}
  /\ component \in Nat \ {0} /\ position \in Nat \ {0}
  /\ pass \in {"range", "done"} => todo = {}
  /\ pass = "done" => fn = "none"
  /\ fn \notin todo
  /\ facts = [p \in Passes |-> facts[p]]
  /\ \A p \in Passes : facts[p] = [f \in DOMAIN prog.body |-> facts[p][f]]

LEMMA PassNames == Range(Pass) = Passes
BY DEF Range, Pass, Passes

LEMMA ProgramShape ==
  ASSUME NEW p \in Programs
  PROVE  /\ "none" \notin DOMAIN p.body
         /\ \A f \in DOMAIN p.body : IsBody(p.body[f])
         /\ \A i \in DOMAIN p.components :
              Range(p.components[i].functions) \subseteq DOMAIN p.body
BY ProgramsAssumption DEF IsProgram, InComponent

LEMMA ControlInit == Init => ControlInv
<1> SUFFICES ASSUME Init PROVE ControlInv
  OBVIOUS
<1>1. facts = [p \in Passes |-> [f \in DOMAIN prog.body |-> InitialOf(p, prog.body[f])]]
  BY PassNames DEF Init
<1>2. \A p \in Passes : facts[p] = [f \in DOMAIN prog.body |-> facts[p][f]]
  BY <1>1
<1>3. facts = [p \in Passes |-> facts[p]]
  BY <1>1
<1>4. "none" \notin DOMAIN prog.body
  BY ProgramShape DEF Init
<1>5. QED BY <1>2, <1>3, <1>4 DEF Init, ControlInv, Passes

LEMMA ControlNext == ControlInv /\ Analyse => ControlInv'
<1> SUFFICES ASSUME ControlInv, Analyse PROVE ControlInv'
  OBVIOUS
<1>0. "none" \notin DOMAIN prog.body
  BY ProgramShape DEF ControlInv
<1>1. ASSUME NEW f \in todo, Begin(f) PROVE ControlInv'
  BY <1>0, <1>1 DEF Begin, ControlInv
<1>2. ASSUME BeginInComponent PROVE ControlInv'
  <2>1. UNCHANGED <<prog, pass, todo, component, moved, facts, ranges>>
    BY <1>2 DEF BeginInComponent
  <2>2. pass = "range" /\ todo = {}
    BY <1>2 DEF BeginInComponent, ControlInv
  <2>3. position' \in Nat \ {0}
    BY <1>2 DEF BeginInComponent, ControlInv
  <2>4. fn' \in DOMAIN prog.body \cup {"none"} /\ (fn' # "none" => block' \in Nat \ {0})
    <3> DEFINE functions == prog.components[component].functions
    <3>1. CASE ShouldIgnore(functions[position])
      BY <1>2, <3>1 DEF BeginInComponent, ControlInv
    <3>2. CASE ~ ShouldIgnore(functions[position])
      <4>1. fn' = functions[position] /\ block' = 1
        BY <1>2, <3>2 DEF BeginInComponent
      <4>2. component \in DOMAIN prog.components /\ position \in DOMAIN functions
        <5>1. component \in 1..Len(prog.components) /\ position \in 1..Len(functions)
          BY <1>2 DEF BeginInComponent, ControlInv
        <5>2. /\ prog.components \in Seq(Range(prog.components))
              /\ \A i \in DOMAIN prog.components :
                   prog.components[i].functions \in Seq(DOMAIN prog.body)
          BY ProgramsAssumption DEF IsProgram, ControlInv
        <5>3. DOMAIN prog.components = 1..Len(prog.components)
          BY <5>2, LenProperties
        <5>4. DOMAIN functions = 1..Len(functions)
          BY <5>1, <5>2, <5>3, LenProperties
        <5>5. QED BY <5>1, <5>3, <5>4
      <4>3. functions[position] \in DOMAIN prog.body
        BY <4>2, ProgramShape DEF ControlInv, Range
      <4>4. QED BY <4>1, <4>3
    <3>3. QED BY <3>1, <3>2
  <2>5. QED BY <2>1, <2>2, <2>3, <2>4 DEF ControlInv
<1>3. ASSUME VisitNextBlock PROVE ControlInv'
  <2>1. PICK step : facts' = [facts EXCEPT ![pass][fn] = step.facts]
    BY <1>3 DEF VisitNextBlock
  <2>2. UNCHANGED <<prog, pass, todo, fn, component, position>> /\ block' = block + 1
    BY <1>3 DEF VisitNextBlock
  <2>3. facts' = [p \in Passes |-> facts'[p]]
        /\ \A p \in Passes : facts'[p] = [f \in DOMAIN prog.body |-> facts'[p][f]]
    BY <2>1 DEF ControlInv
  <2>4. QED BY <2>2, <2>3 DEF ControlInv
<1>4. ASSUME NextRound PROVE ControlInv'
  BY <1>4 DEF NextRound, ControlInv
<1>5. ASSUME EndFunction PROVE ControlInv'
  BY <1>0, <1>5 DEF EndFunction, ControlInv
<1>6. ASSUME EndComponent PROVE ControlInv'
  BY <1>6 DEF EndComponent, ControlInv
<1>7. ASSUME EndPass PROVE ControlInv'
  BY <1>0, <1>7 DEF EndPass, ControlInv, Passes
<1>8. QED BY <1>1, <1>2, <1>3, <1>4, <1>5, <1>6, <1>7 DEF Analyse

(***************************************************************************)
(* ReturnPropagationPass over all functions: while a round has reported no *)
(* change, the blocks it has visited are settled; a function it has left   *)
(* is, and nobody writes its facts afterwards.                             *)
(***************************************************************************)
PropagationSettled(f) ==
  \A b \in DOMAIN prog.body[f] : IsSettledBlock(prog.body[f], facts.propagation[f], b)

PropagationInv ==
  /\ \A f \in DOMAIN prog.body : HasPropagationFacts(prog.body[f], facts.propagation[f])
  /\ pass = "propagation" /\ fn # "none" /\ ~ changed =>
       \A b \in DOMAIN Body : b < block => IsSettledBlock(Body, facts.propagation[fn], b)
  /\ \A f \in DOMAIN prog.body :
       (pass = "propagation" => f \notin todo /\ f # fn) => PropagationSettled(f)

LEMMA PropagationInitial == Init => PropagationInv
<1> SUFFICES ASSUME Init PROVE PropagationInv
  OBVIOUS
<1>1. ASSUME NEW f \in DOMAIN prog.body
      PROVE  HasPropagationFacts(prog.body[f], facts.propagation[f])
  <2> DEFINE body == prog.body[f]
             empty == [v \in ValuesOf(body) |-> {}]
  <2>1. facts.propagation[f] = [b \in DOMAIN body |-> [k \in 1..Len(body[b]) + 1 |-> empty]]
    <3>1. "propagation" \in Range(Pass)
      BY PassNames DEF Passes
    <3>2. facts.propagation[f] = InitialOf("propagation", body)
      BY <3>1 DEF Init
    <3>3. QED BY <3>2 DEF InitialOf, PropagationInit, InitialFacts
  <2>2. Constant \subseteq ValuesOf(body)
    BY ConstantsAreValues
  <2> HIDE DEF body
  <2>3. IsPropagationFact(body, empty)
    BY <2>2 DEF IsPropagationFact
  <2> HIDE DEF empty
  <2>4. HasPropagationFacts(body, facts.propagation[f])
    BY <2>1, <2>3 DEF HasPropagationFacts
  <2>5. QED BY <2>4 DEF body
<1>2. pass = "propagation" /\ fn = "none" /\ todo = DOMAIN prog.body
  BY DEF Init
<1>3. QED BY <1>1, <1>2 DEF PropagationInv

(* A visit of a block of the function that the pass is at.                 *)
LEMMA PropagationVisitNext ==
  ControlInv /\ PropagationInv /\ pass = "propagation" /\ VisitNextBlock => PropagationInv'
<1> SUFFICES ASSUME ControlInv, PropagationInv, pass = "propagation", VisitNextBlock
             PROVE  PropagationInv'
  OBVIOUS
<1> DEFINE F == facts.propagation[fn]
           step == PropagationStep(Body, F, block)
<1>1. /\ facts' = [facts EXCEPT !["propagation"][fn] = step.facts]
      /\ changed' = (changed \/ step.changed)
      /\ block' = block + 1
      /\ UNCHANGED <<prog, pass, todo, fn>>
  BY DEF VisitNextBlock, StepOf
<1>2. fn \in DOMAIN prog.body /\ block \in Nat \ {0} /\ block <= Len(Body)
  BY DEF VisitNextBlock, ControlInv
<1>3. IsBody(Body)
  BY <1>2, ProgramShape DEF ControlInv, Body
<1>4. DOMAIN Body = 1..Len(Body) /\ Len(Body) \in Nat
  BY <1>3, BodyShape
<1>5. block \in DOMAIN Body
  BY <1>2, <1>4
<1>6. /\ facts'.propagation[fn] = step.facts
      /\ \A f \in DOMAIN prog.body : f # fn => facts'.propagation[f] = facts.propagation[f]
  BY <1>1, <1>2 DEF ControlInv, Passes
<1>7. HasPropagationFacts(Body, F)
  BY <1>2 DEF PropagationInv, Body
<1>8. /\ HasPropagationFacts(Body, step.facts)
      /\ ~ step.changed =>
           /\ IsSettledBlock(Body, step.facts, block)
           /\ \A c \in DOMAIN Body :
                c # block /\ IsSettledBlock(Body, F, c) => IsSettledBlock(Body, step.facts, c)
  BY <1>3, <1>5, <1>7, PropagationSteps
<1> HIDE DEF step
<1>9. (\A f \in DOMAIN prog.body : HasPropagationFacts(prog.body[f], facts.propagation[f]))'
  BY <1>1, <1>6, <1>8 DEF PropagationInv, Body
<1>10. ASSUME ~ changed', NEW b \in DOMAIN Body, b < block + 1
       PROVE  IsSettledBlock(Body, step.facts, b)
  <2>1. ~ changed /\ ~ step.changed
    BY <1>1, <1>10
  <2>2. CASE b = block
    BY <1>8, <2>1, <2>2
  <2>3. CASE b # block
    <3>1. b < block
      BY <1>2, <1>4, <1>10, <2>3
    <3>2. fn # "none"
      BY DEF VisitNextBlock
    <3>3. IsSettledBlock(Body, F, b)
      BY <1>10, <2>1, <3>1, <3>2 DEF PropagationInv
    <3>4. QED BY <1>8, <2>1, <2>3, <3>3
  <2>4. QED BY <2>2, <2>3
<1>11. (pass = "propagation" /\ fn # "none" /\ ~ changed =>
          \A b \in DOMAIN Body : b < block => IsSettledBlock(Body, facts.propagation[fn], b))'
  BY <1>1, <1>6, <1>10 DEF Body
<1>12. ASSUME NEW f \in DOMAIN prog.body, f \notin todo, f # fn
       PROVE  PropagationSettled(f)'
  BY <1>1, <1>6, <1>12 DEF PropagationInv, PropagationSettled
<1>13. QED BY <1>1, <1>9, <1>11, <1>12 DEF PropagationInv

LEMMA PropagationNext == ControlInv /\ PropagationInv /\ Analyse => PropagationInv'
<1> SUFFICES ASSUME ControlInv, PropagationInv, Analyse PROVE PropagationInv'
  OBVIOUS
<1>1. ASSUME NEW f \in todo, Begin(f) PROVE PropagationInv'
  <2>1. /\ UNCHANGED <<prog, pass, facts>>
        /\ fn = "none" /\ fn' = f /\ block' = 1 /\ todo' = todo \ {f}
    BY <1>1 DEF Begin
  <2>2. \A b \in DOMAIN Body' : ~ b < 1
    <3>1. f \in DOMAIN prog.body
      BY DEF ControlInv
    <3>2. IsBody(prog.body[f])
      BY <3>1, ProgramShape DEF ControlInv
    <3>3. DOMAIN prog.body[f] = 1..Len(prog.body[f])
      BY <3>2, BodyShape
    <3>4. QED BY <2>1, <3>3 DEF Body
  <2>3. "none" \notin DOMAIN prog.body
    BY ProgramShape DEF ControlInv
  <2>4. ASSUME NEW g \in DOMAIN prog.body, pass = "propagation" => g \notin todo \ {f} /\ g # f
        PROVE  PropagationSettled(g)
    BY <2>1, <2>3, <2>4 DEF PropagationInv
  <2>5. QED BY <2>1, <2>2, <2>4 DEF PropagationInv, PropagationSettled
<1>2. ASSUME BeginInComponent PROVE PropagationInv'
  BY <1>2 DEF BeginInComponent, PropagationInv, PropagationSettled
<1>3. ASSUME VisitNextBlock PROVE PropagationInv'
  <2>1. CASE pass = "propagation"
    BY <1>3, <2>1, PropagationVisitNext
  <2>2. CASE pass # "propagation"
    <3>1. PICK step : facts' = [facts EXCEPT ![pass][fn] = step.facts]
      BY <1>3 DEF VisitNextBlock
    <3>2. facts'.propagation = facts.propagation
      BY <2>2, <3>1 DEF ControlInv, Passes
    <3>3. UNCHANGED <<prog, pass, todo, fn>>
      BY <1>3 DEF VisitNextBlock
    <3>4. QED BY <2>2, <3>2, <3>3 DEF PropagationInv, PropagationSettled
  <2>3. QED BY <2>1, <2>2
<1>4. ASSUME NextRound PROVE PropagationInv'
  <2>1. UNCHANGED <<prog, pass, todo, fn, facts>> /\ block' = 1
    BY <1>4 DEF NextRound
  <2>2. ASSUME pass = "propagation", fn # "none" PROVE \A b \in DOMAIN Body : ~ b < 1
    <3>1. fn \in DOMAIN prog.body
      BY <2>2 DEF ControlInv
    <3>2. IsBody(Body)
      BY <3>1, ProgramShape DEF ControlInv, Body
    <3>3. DOMAIN Body = 1..Len(Body)
      BY <3>2, BodyShape
    <3>4. QED BY <3>3
  <2>3. QED BY <2>1, <2>2 DEF PropagationInv, PropagationSettled, Body
<1>5. ASSUME EndFunction PROVE PropagationInv'
  <2>1. /\ UNCHANGED <<prog, pass, todo, facts>>
        /\ fn # "none" /\ fn' = "none" /\ block > Len(Body) /\ ~ changed
    BY <1>5 DEF EndFunction
  <2>2. ASSUME pass = "propagation" PROVE PropagationSettled(fn)
    <3>1. fn \in DOMAIN prog.body /\ block \in Nat
      BY <2>1 DEF ControlInv
    <3>2. IsBody(Body)
      BY <3>1, ProgramShape DEF ControlInv, Body
    <3>3. DOMAIN Body = 1..Len(Body) /\ Len(Body) \in Nat
      BY <3>2, BodyShape
    <3>4. \A b \in DOMAIN Body : b < block
      BY <2>1, <3>1, <3>3
    <3>5. QED BY <2>1, <2>2, <3>4 DEF PropagationInv, PropagationSettled, Body
  <2>3. QED BY <2>1, <2>2 DEF PropagationInv, PropagationSettled
<1>6. ASSUME EndComponent PROVE PropagationInv'
  BY <1>6 DEF EndComponent, PropagationInv, PropagationSettled
<1>7. ASSUME EndPass PROVE PropagationInv'
  <2>1. UNCHANGED <<prog, fn, facts>> /\ fn = "none" /\ (pass = "propagation" => todo = {})
    BY <1>7 DEF EndPass
  <2>2. pass' # "propagation"
    BY <1>7 DEF EndPass, ControlInv, Passes
  <2>3. "none" \notin DOMAIN prog.body
    BY ProgramShape DEF ControlInv
  <2>4. \A f \in DOMAIN prog.body : PropagationSettled(f)
    BY <2>1, <2>3 DEF PropagationInv
  <2>5. QED BY <2>1, <2>2, <2>4 DEF PropagationInv, PropagationSettled
<1>8. QED BY <1>1, <1>2, <1>3, <1>4, <1>5, <1>6, <1>7 DEF Analyse

(***************************************************************************)
(* The execution: where it is, and what a step does to the values.         *)
(***************************************************************************)
IsValue(x) ==
  x = [n |-> x.n, source |-> x.source, latest |-> x.latest, trail |-> x.trail]

IsExecution(e) ==
  e = [fn |-> e.fn, b |-> e.b, k |-> e.k, env |-> e.env, about |-> e.about, loose |-> e.loose]

PlaceInv ==
  /\ IsExecution(exec)
  /\ Running =>
       /\ pass = "done" /\ exec.fn \in DOMAIN prog.body
       /\ exec.b \in DOMAIN Code /\ exec.k \in 1..Len(Code[exec.b])
       /\ DOMAIN exec.env \subseteq NamesOf(Code)
       /\ \A v \in DOMAIN exec.env : IsValue(exec.env[v])

(* The value is one that no name held: it has no source and no trail.      *)
IsFresh(x) == IsValue(x) /\ x.source = "" /\ x.trail = {}

LEMMA OlderValue ==
  ASSUME NEW x, IsValue(x), NEW y, y = [x EXCEPT !.latest = FALSE]
  PROVE  IsValue(y) /\ y.source = x.source /\ y.trail = x.trail
BY DEF IsValue

LEMMA FreshIsFresh == ASSUME NEW n PROVE IsFresh(Fresh(n, ""))
BY DEF IsFresh, Fresh, IsValue

LEMMA OperandValues ==
  ASSUME PlaceInv, Running, NEW v, NEW y \in Operand(v)
  PROVE  IsFresh(y) \/ (v \in DOMAIN exec.env \ Constant /\ y = exec.env[v] /\ IsValue(y))
<1>1. CASE v \in Constant
  BY <1>1, FreshIsFresh DEF Operand
<1>2. CASE v \notin Constant /\ v \in DOMAIN exec.env
  BY <1>2 DEF Operand, PlaceInv
<1>3. CASE v \notin Constant /\ v \notin DOMAIN exec.env
  BY <1>3, FreshIsFresh DEF Operand
<1>4. QED BY <1>1, <1>2, <1>3

(* The step binds w to x, and goes on to the next instruction.             *)
Assigns(w, x) ==
  LET env == exec'.env
  IN /\ IsExecution(exec') /\ exec'.fn = exec.fn
     /\ exec'.b = exec.b /\ exec'.k = exec.k + 1
     /\ DOMAIN env = DOMAIN exec.env \cup {w}
     /\ \A v \in DOMAIN env : IsValue(env[v])
     /\ env[w].source = x.source /\ env[w].trail = x.trail \cup {<<exec.b, exec.k + 1, w>>}
     /\ \A v \in DOMAIN exec.env \ {w} :
          /\ env[v].source = exec.env[v].source
          /\ env[v].trail = exec.env[v].trail \cup {<<exec.b, exec.k + 1, v>>}

LEMMA BindAssigns ==
  ASSUME IsExecution(exec), NEW w, NEW x, IsValue(x), NEW env, NEW about, NEW loose,
         DOMAIN env = DOMAIN exec.env,
         \A v \in DOMAIN env : /\ IsValue(env[v])
                               /\ env[v].source = exec.env[v].source
                               /\ env[v].trail = exec.env[v].trail,
         At(exec.b, exec.k + 1, Bind(env, w, x), about, loose)
  PROVE  Assigns(w, x)
<1> DEFINE bound == Bind(env, w, x)
           here == Here(bound, exec.b, exec.k + 1)
<1>1. /\ IsExecution(exec') /\ exec'.fn = exec.fn
      /\ exec'.b = exec.b /\ exec'.k = exec.k + 1 /\ exec'.env = here
  BY DEF At, IsExecution
<1>2. /\ DOMAIN bound = DOMAIN exec.env \cup {w}
      /\ bound[w] = x
      /\ \A v \in DOMAIN exec.env \ {w} : bound[v] = env[v]
  BY DEF Bind
<1>3. \A v \in DOMAIN bound : IsValue(bound[v])
  BY <1>2
<1> HIDE DEF bound
<1>4. /\ DOMAIN here = DOMAIN bound
      /\ \A v \in DOMAIN bound :
           here[v] = [bound[v] EXCEPT !.trail = @ \cup {<<exec.b, exec.k + 1, v>>}]
  BY DEF Here
<1>5. ASSUME NEW v \in DOMAIN bound
      PROVE  /\ IsValue(here[v]) /\ here[v].source = bound[v].source
             /\ here[v].trail = bound[v].trail \cup {<<exec.b, exec.k + 1, v>>}
  BY <1>3, <1>4 DEF IsValue
<1> HIDE DEF here
<1>6. QED BY <1>1, <1>2, <1>4, <1>5 DEF Assigns

(* The value that an instruction gives to its name.                        *)
IsResult(inst, x) ==
  /\ IsValue(x)
  /\ inst.op = "call" =>
       /\ x.source = inst.id
       /\ \/ x.trail = {}
          \/ inst.f \in ErrFunctions /\ \E y \in Operand(inst.a) : x.trail = y.trail
  /\ inst.op \in LoadLike => x \in Operand(inst.a)
  /\ inst.op \in {"trunc", "sext"} =>
       x.source = "" /\ \E y \in Operand(inst.a) : x.trail = y.trail
  /\ inst.op \in {"zext", "binary", "icmp"} => IsFresh(x)

LEMMA OlderKeeps ==
  ASSUME PlaceInv, Running, NEW inst
  PROVE  /\ DOMAIN Older(exec.env, inst) = DOMAIN exec.env
         /\ \A v \in DOMAIN exec.env :
              /\ IsValue(Older(exec.env, inst)[v])
              /\ Older(exec.env, inst)[v].source = exec.env[v].source
              /\ Older(exec.env, inst)[v].trail = exec.env[v].trail
<1>1. ASSUME NEW v \in DOMAIN exec.env, NEW y,
             y = exec.env[v] \/ y = [exec.env[v] EXCEPT !.latest = FALSE]
      PROVE  IsValue(y) /\ y.source = exec.env[v].source /\ y.trail = exec.env[v].trail
  BY <1>1, OlderValue DEF PlaceInv
<1>2. CASE inst.op # "call"
  BY <1>1, <1>2 DEF Older
<1>3. CASE inst.op = "call"
  <2>1. DOMAIN Older(exec.env, inst) = DOMAIN exec.env
    BY <1>3 DEF Older
  <2>2. \A v \in DOMAIN exec.env :
          \/ Older(exec.env, inst)[v] = [exec.env[v] EXCEPT !.latest = FALSE]
          \/ Older(exec.env, inst)[v] = exec.env[v]
    BY <1>3 DEF Older
  <2>3. QED BY <1>1, <2>1, <2>2
<1>4. QED BY <1>2, <1>3

LEMMA ValueStep ==
  ASSUME PlaceInv, Running, ExecuteValue
  PROVE  \E x : IsResult(Current, x) /\ Assigns(Current.id, x)
<1> DEFINE inst == Current
<1>1. inst.op \in LoadLike \cup {"trunc", "sext", "zext", "binary", "icmp", "call"}
  BY DEF ExecuteValue
<1>2. PICK r \in Results(inst) : \E about, loose :
        At(exec.b, exec.k + 1, Bind(Older(exec.env, inst), inst.id, Followed(inst, r)),
           about, loose)
  BY DEF ExecuteValue
<1> HIDE DEF inst
<1>3. IsResult(inst, Followed(inst, r))
  <2>1. CASE inst.op \in LoadLike
    <3>1. r \in Operand(inst.a) /\ Followed(inst, r) = r
      <4>1. inst.op \notin {"zext", "binary", "icmp", "call"}
        BY <2>1 DEF LoadLike, BitCastLike
      <4>2. Results(inst) = Operand(inst.a)
        BY <2>1, <4>1 DEF Results
      <4>3. Followed(inst, r) = r
        BY <2>1 DEF Followed, LoadLike, BitCastLike
      <4>4. QED BY <1>2, <4>2, <4>3
    <3>2. IsValue(r)
      BY <3>1, OperandValues DEF IsFresh
    <3>3. QED BY <2>1, <3>1, <3>2 DEF IsResult, LoadLike, BitCastLike
  <2>2. CASE inst.op \in {"trunc", "sext"}
    <3>1. r \in Operand(inst.a) /\ Followed(inst, r) = [r EXCEPT !.source = ""]
      <4>1. Results(inst) = Operand(inst.a)
        BY <2>2 DEF Results
      <4>2. QED BY <1>2, <2>2, <4>1 DEF Followed
    <3>2. IsValue(r)
      BY <3>1, OperandValues DEF IsFresh
    <3>3. IsValue(Followed(inst, r)) /\ Followed(inst, r).source = ""
          /\ Followed(inst, r).trail = r.trail
      BY <3>1, <3>2 DEF IsValue
    <3>4. QED BY <2>2, <3>1, <3>3 DEF IsResult, LoadLike, BitCastLike
  <2>3. CASE inst.op \in {"zext", "binary", "icmp"}
    <3>1. IsFresh(r)
      <4>1. inst.op \notin LoadLike \cup {"trunc", "sext"}
        BY <2>3 DEF LoadLike, BitCastLike
      <4>2. PICK n : r = Fresh(n, "")
        <5>1. CASE inst.op = "zext"
          BY <1>2, <4>1, <5>1 DEF Results, Extended
        <5>2. CASE inst.op = "binary"
          BY <1>2, <4>1, <5>2 DEF Results, Incremented
        <5>3. CASE inst.op = "icmp"
          <6>1. r \in Compared(inst)
            BY <1>2, <4>1, <5>3 DEF Results
          <6>2. QED BY <6>1 DEF Compared
        <5>4. QED BY <2>3, <5>1, <5>2, <5>3
      <4>3. QED BY <4>2, FreshIsFresh
    <3>2. Followed(inst, r) = r
      BY <2>3 DEF Followed
    <3>3. QED BY <2>3, <3>1, <3>2 DEF IsResult, IsFresh, LoadLike, BitCastLike
  <2>4. CASE inst.op = "call"
    <3>1. IsValue(r) /\ (\/ r.trail = {}
                         \/ inst.f \in ErrFunctions /\ r \in Operand(inst.a))
      <4>1. CASE inst.f \in ErrFunctions
        <5>1. r \in Operand(inst.a)
          BY <1>2, <2>4, <4>1 DEF Results, Called, LoadLike, BitCastLike
        <5>2. QED BY <4>1, <5>1, OperandValues DEF IsFresh
      <4>2. CASE inst.f \notin ErrFunctions
        <5>1. PICK n : r = Fresh(n, inst.id)
          BY <1>2, <2>4, <4>2 DEF Results, Called, LoadLike, BitCastLike
        <5>2. QED BY <5>1 DEF Fresh, IsValue
      <4>3. QED BY <4>1, <4>2
    <3>2. Followed(inst, r) = [r EXCEPT !.source = inst.id, !.latest = TRUE]
      BY <2>4 DEF Followed
    <3>3. IsValue(Followed(inst, r)) /\ Followed(inst, r).source = inst.id
          /\ Followed(inst, r).trail = r.trail
      BY <3>1, <3>2 DEF IsValue
    <3>4. QED BY <2>4, <3>1, <3>3 DEF IsResult, LoadLike, BitCastLike
  <2>5. QED BY <1>1, <2>1, <2>2, <2>3, <2>4
<1>4. IsValue(Followed(inst, r)) /\ IsExecution(exec)
  BY <1>3 DEF IsResult, PlaceInv
<1>5. Assigns(inst.id, Followed(inst, r))
  BY <1>2, <1>4, OlderKeeps, BindAssigns
<1>6. QED BY <1>3, <1>5 DEF inst

LEMMA StoreStep ==
  ASSUME PlaceInv, Running, ExecuteStore
  PROVE  \E x, y : /\ y \in Operand(Current.a) /\ x.trail = y.trail
                   /\ x.source = IF Current.a \in ConstantInt
                                 THEN Current.a ELSE y.source
                   /\ Assigns(Current.b, x)
<1> DEFINE inst == Current
<1>1. PICK y \in Operand(inst.a) : \E loose :
        At(exec.b, exec.k + 1,
           Bind(exec.env, inst.b,
                IF inst.a \in ConstantInt THEN [y EXCEPT !.source = inst.a] ELSE y),
           exec.about, loose)
  BY DEF ExecuteStore
<1> HIDE DEF inst
<1> DEFINE x == IF inst.a \in ConstantInt THEN [y EXCEPT !.source = inst.a] ELSE y
<1>2. IsValue(y)
  BY <1>1, OperandValues DEF IsFresh
<1>3. IsValue(x) /\ x.trail = y.trail
      /\ x.source = IF inst.a \in ConstantInt THEN inst.a ELSE y.source
  BY <1>2 DEF IsValue
<1> HIDE DEF x
<1>4. IsExecution(exec) /\ \A v \in DOMAIN exec.env : IsValue(exec.env[v])
  BY DEF PlaceInv
<1>5. Assigns(inst.b, x)
  BY <1>1, <1>3, <1>4, BindAssigns DEF x
<1>6. QED BY <1>1, <1>3, <1>5 DEF inst

(* The phis of a block come first, and something follows them.             *)
PhisOf(body, b) == {i \in DOMAIN body[b] : body[b][i].op = "phi"}

LEMMA PhisComeFirst ==
  ASSUME NEW body, IsBody(body), NEW b \in DOMAIN body
  PROVE  \E n \in Nat : /\ n < Len(body[b]) /\ PhisOf(body, b) = 1..n
                        /\ Cardinality(PhisOf(body, b)) = n
<1> DEFINE len == Len(body[b])
           others == {k \in Nat : k \in 1..len /\ body[b][k].op # "phi"}
<1>1. len \in Nat \ {0} /\ DOMAIN body[b] = 1..len
  BY BodyShape
<1>2. \A k \in 1..len :
        /\ (body[b][k].op \in {"jump", "branch", "switch", "return"}) <=> (k = len)
        /\ body[b][k].op = "phi" => \A j \in 1..k : body[b][j].op = "phi"
  BY <1>1 DEF IsBody, IsBlock
<1> HIDE DEF len
<1>3. len \in others
  BY <1>1, <1>2
<1>4. PICK m \in others : \A j \in others : m <= j
  BY <1>3, LeastNatural
<1>5. m \in 1..len /\ body[b][m].op # "phi"
  BY <1>4
<1>6. ASSUME NEW j \in 1..len PROVE body[b][j].op = "phi" <=> j < m
  <2>1. j < m => body[b][j].op = "phi"
    BY <1>1, <1>4
  <2>2. body[b][j].op = "phi" => j < m
    BY <1>1, <1>2, <1>5
  <2>3. QED BY <2>1, <2>2
<1>7. PhisOf(body, b) = 1..m - 1
  BY <1>1, <1>5, <1>6 DEF PhisOf, len
<1>8. Cardinality(1..m - 1) = m - 1
  <2>1. 1 \in Int /\ m - 1 \in Int /\ m - 1 - 1 + 1 = m - 1 /\ (1 > m - 1 => m - 1 = 0)
    BY <1>1, <1>5
  <2>2. Cardinality(1..m - 1) = IF 1 > m - 1 THEN 0 ELSE m - 1 - 1 + 1
    BY <2>1, FS_Interval
  <2>3. QED BY <2>1, <2>2
<1>9. m - 1 \in Nat /\ m - 1 < Len(body[b])
  BY <1>1, <1>5 DEF len
<1>10. QED BY <1>7, <1>8, <1>9

(* The step goes on behind the phis of block b, to which it gives values.  *)
Enters(b) ==
  LET env == exec'.env
      k   == 1 + Cardinality(PhisOf(Code, b))
      ids == {Code[b][i].id : i \in PhisOf(Code, b)}
  IN /\ IsExecution(exec') /\ exec'.fn = exec.fn
     /\ exec'.b = b /\ exec'.k = k
     /\ DOMAIN env = DOMAIN exec.env \cup ids
     /\ \A v \in DOMAIN env : IsValue(env[v])
     /\ \A v \in DOMAIN exec.env \ ids :
          /\ env[v].source = exec.env[v].source
          /\ env[v].trail = (exec.env[v].trail \cup {<<b, 1, v>>}) \cup {<<b, k, v>>}
     /\ \A v \in ids : \E i \in PhisOf(Code, b) :
          /\ Code[b][i].id = v
          /\ \E y \in Operand(Code[b][i].in[exec.b]) :
               /\ env[v].source = y.source
               /\ env[v].trail = y.trail \cup {<<b, k, v>>}

LEMMA HereKeeps ==
  ASSUME NEW env, \A v \in DOMAIN env : IsValue(env[v]), NEW b, NEW k
  PROVE  /\ DOMAIN Here(env, b, k) = DOMAIN env
         /\ \A v \in DOMAIN env :
              /\ IsValue(Here(env, b, k)[v])
              /\ Here(env, b, k)[v].source = env[v].source
              /\ Here(env, b, k)[v].trail = env[v].trail \cup {<<b, k, v>>}
<1> DEFINE here == Here(env, b, k)
<1>1. /\ DOMAIN here = DOMAIN env
      /\ \A v \in DOMAIN env : here[v] = [env[v] EXCEPT !.trail = @ \cup {<<b, k, v>>}]
  BY DEF Here
<1>2. ASSUME NEW v \in DOMAIN env
      PROVE  /\ IsValue(here[v]) /\ here[v].source = env[v].source
             /\ here[v].trail = env[v].trail \cup {<<b, k, v>>}
  BY <1>1 DEF IsValue
<1>3. QED BY <1>1, <1>2

LEMMA GotoEnters ==
  ASSUME PlaceInv, Running, NEW b, NEW about, NEW loose, Goto(b, about, loose)
  PROVE  Enters(b)
<1> DEFINE phis == PhisOf(Code, b)
           ids  == {Code[b][i].id : i \in phis}
           k    == 1 + Cardinality(phis)
           old  == Here(exec.env, b, 1)
           In(i) == Operand(Code[b][i].in[exec.b])
           Of(x) == [v \in DOMAIN old \cup ids |->
                       IF v \in ids THEN x[CHOOSE i \in phis : Code[b][i].id = v] ELSE old[v]]
<1>1. PICK x \in [phis -> UNION {In(i) : i \in phis}] :
        /\ \A i \in phis : x[i] \in In(i)
        /\ \E spoilt : At(b, k, Of(x), about, spoilt)
  BY DEF Goto, PhisOf
<1> DEFINE new  == Of(x)
           here == Here(new, b, k)
<1>2. /\ DOMAIN old = DOMAIN exec.env
      /\ \A v \in DOMAIN exec.env :
           /\ IsValue(old[v]) /\ old[v].source = exec.env[v].source
           /\ old[v].trail = exec.env[v].trail \cup {<<b, 1, v>>}
  BY HereKeeps DEF PlaceInv
<1>3. /\ IsExecution(exec') /\ exec'.fn = exec.fn
      /\ exec'.b = b /\ exec'.k = k /\ exec'.env = here
  BY <1>1 DEF At, IsExecution, PlaceInv
<1> HIDE DEF phis, k, old, In
<1>4. ASSUME NEW v \in ids
      PROVE  \E i \in phis : Code[b][i].id = v /\ new[v] \in In(i)
  <2> DEFINE i == CHOOSE j \in phis : Code[b][j].id = v
  <2>1. i \in phis /\ Code[b][i].id = v
    BY <1>4
  <2> HIDE DEF i
  <2>2. new[v] = x[i]
    BY <1>4 DEF i
  <2>3. QED BY <1>1, <2>1, <2>2
<1>5. DOMAIN new = DOMAIN exec.env \cup ids /\ \A v \in DOMAIN exec.env \ ids : new[v] = old[v]
  BY <1>2
<1>6. ASSUME NEW i \in phis, NEW y \in In(i) PROVE IsValue(y)
  BY OperandValues DEF IsFresh, In
<1> HIDE DEF ids, new
<1>7. \A v \in DOMAIN new : IsValue(new[v])
  BY <1>2, <1>4, <1>5, <1>6
<1>8. /\ DOMAIN here = DOMAIN new
      /\ \A v \in DOMAIN new :
           /\ IsValue(here[v]) /\ here[v].source = new[v].source
           /\ here[v].trail = new[v].trail \cup {<<b, k, v>>}
  BY <1>7, HereKeeps
<1> HIDE DEF here
<1>9. \A v \in DOMAIN exec.env \ ids :
        /\ here[v].source = exec.env[v].source
        /\ here[v].trail = (exec.env[v].trail \cup {<<b, 1, v>>}) \cup {<<b, k, v>>}
  BY <1>2, <1>5, <1>8
<1>10. \A v \in ids : \E i \in phis :
         /\ Code[b][i].id = v
         /\ \E y \in In(i) : here[v].source = y.source /\ here[v].trail = y.trail \cup {<<b, k, v>>}
  <2> SUFFICES ASSUME NEW v \in ids
               PROVE  \E i \in phis :
                        /\ Code[b][i].id = v
                        /\ \E y \in In(i) : /\ here[v].source = y.source
                                            /\ here[v].trail = y.trail \cup {<<b, k, v>>}
    OBVIOUS
  <2>1. PICK i \in phis : Code[b][i].id = v /\ new[v] \in In(i)
    BY <1>4
  <2>2. v \in DOMAIN new
    BY <1>5
  <2>3. QED BY <1>8, <2>1, <2>2
<1>11. DOMAIN here = DOMAIN exec.env \cup ids /\ \A v \in DOMAIN here : IsValue(here[v])
  BY <1>5, <1>8
<1> HIDE DEF Of
<1>12. \A v \in ids : \E i \in phis :
         /\ Code[b][i].id = v
         /\ \E y \in Operand(Code[b][i].in[exec.b]) :
              here[v].source = y.source /\ here[v].trail = y.trail \cup {<<b, k, v>>}
  BY <1>10 DEF In
<1>13. /\ DOMAIN exec'.env = DOMAIN exec.env \cup ids
       /\ \A v \in DOMAIN exec'.env : IsValue(exec'.env[v])
       /\ \A v \in DOMAIN exec.env \ ids :
            /\ exec'.env[v].source = exec.env[v].source
            /\ exec'.env[v].trail = (exec.env[v].trail \cup {<<b, 1, v>>}) \cup {<<b, k, v>>}
       /\ \A v \in ids : \E i \in phis :
            /\ Code[b][i].id = v
            /\ \E y \in Operand(Code[b][i].in[exec.b]) :
                 /\ exec'.env[v].source = y.source
                 /\ exec'.env[v].trail = y.trail \cup {<<b, k, v>>}
  BY <1>3, <1>9, <1>11, <1>12
<1>14. QED BY <1>3, <1>13, Zenon DEF Enters, phis, ids, k

LEMMA JumpStep ==
  ASSUME PlaceInv, Running, ExecuteJump \/ ExecuteBranch \/ ExecuteSwitch
  PROVE  /\ Current.op \in {"jump", "branch", "switch"}
         /\ \E b \in Successors(Current) : Enters(b)
<1>1. CASE ExecuteJump
  <2>1. Current.op = "jump" /\ Enters(Current.t)
    BY <1>1, GotoEnters DEF ExecuteJump
  <2>2. QED BY <2>1 DEF Successors
<1>2. CASE ExecuteBranch
  <2>1. /\ Current.op = "branch"
        /\ \E about, loose : \E c \in Operand(Current.a) :
             Goto(IF c.n # 0 THEN Current.t ELSE Current.e, about, loose)
    BY <1>2, Zenon DEF ExecuteBranch
  <2>2. \E b \in {Current.t, Current.e} : \E about, loose : Goto(b, about, loose)
    BY <2>1
  <2>3. QED BY <2>1, <2>2, GotoEnters DEF Successors
<1>3. CASE ExecuteSwitch
  <2> DEFINE taken(n) == {i \in DOMAIN Current.cases :
                            IntegerConstant[Current.cases[i].value] = n}
  <2>1. /\ Current.op = "switch"
        /\ \E x \in Operand(Current.a) :
             IF taken(x.n) # {}
             THEN \E about, loose :
                    Goto(Current.cases[CHOOSE i \in taken(x.n) : TRUE].to, about, loose)
             ELSE \E about, loose : Goto(Current.e, about, loose)
    BY <1>3, Zenon DEF ExecuteSwitch
  <2>2. PICK x \in Operand(Current.a) :
             IF taken(x.n) # {}
             THEN \E about, loose :
                    Goto(Current.cases[CHOOSE i \in taken(x.n) : TRUE].to, about, loose)
             ELSE \E about, loose : Goto(Current.e, about, loose)
    BY <2>1
  <2> DEFINE i == CHOOSE j \in taken(x.n) : TRUE
  <2>3. taken(x.n) # {} => i \in DOMAIN Current.cases
    OBVIOUS
  <2>4. Successors(Current) = {Current.cases[j].to : j \in DOMAIN Current.cases} \cup {Current.e}
    BY <2>1 DEF Successors
  <2> HIDE DEF taken
  <2>5. \E b \in Successors(Current) : \E about, loose : Goto(b, about, loose)
    BY <2>2, <2>3, <2>4
  <2>6. QED BY <2>1, <2>5, GotoEnters
<1>4. QED BY <1>1, <1>2, <1>3

LEMMA PlaceInitial == ExecInit => PlaceInv
BY DEF ExecInit, PlaceInv, IsExecution, Idle, Running

(* Nothing is analysed while a function is executed.                       *)
LEMMA AnalysisIsOver == ControlInv /\ pass = "done" => ~ Analyse
<1> SUFFICES ASSUME ControlInv, pass = "done", Analyse PROVE FALSE
  OBVIOUS
<1>1. fn = "none" /\ todo = {}
  BY DEF ControlInv
<1>2. QED
  BY <1>1 DEF Analyse, BeginInComponent, VisitNextBlock, NextRound, EndFunction, EndComponent,
              EndPass

(* What is known of the place that the execution is at.                    *)
LEMMA PlaceShape ==
  ASSUME ControlInv, PlaceInv, Running
  PROVE  /\ IsBody(Code) /\ "" \notin DOMAIN exec.env
         /\ Current.id \in NamesOf(Code)
         /\ Current.op = "store" => Current.b \in NamesOf(Code)
         /\ exec.k \in Nat /\ Len(Code[exec.b]) \in Nat
         /\ Current.op \in {"jump", "branch", "switch", "return"} <=> exec.k = Len(Code[exec.b])
<1>1. /\ exec.fn \in DOMAIN prog.body /\ exec.b \in DOMAIN Code
      /\ exec.k \in 1..Len(Code[exec.b]) /\ DOMAIN exec.env \subseteq NamesOf(Code)
  BY DEF PlaceInv
<1>2. IsBody(Code)
  BY <1>1, ProgramShape DEF ControlInv, Code
<1>3. /\ Len(Code[exec.b]) \in Nat /\ DOMAIN Code[exec.b] = 1..Len(Code[exec.b])
      /\ \A k \in 1..Len(Code[exec.b]) :
           /\ Code[exec.b][k].id \in NamesOf(Code)
           /\ Code[exec.b][k].op = "store" => Code[exec.b][k].b \in NamesOf(Code)
  BY <1>1, <1>2, BodyShape, NamesAreNames
<1>4. "" \notin DOMAIN exec.env
  BY <1>1 DEF NamesOf
<1>5. Current.op \in {"jump", "branch", "switch", "return"} <=> exec.k = Len(Code[exec.b])
  BY <1>1, <1>2, <1>3 DEF IsBody, IsBlock, Current
<1>6. /\ Current.id \in NamesOf(Code)
      /\ Current.op = "store" => Current.b \in NamesOf(Code)
  BY <1>1, <1>3 DEF Current
<1>7. exec.k \in Nat
  BY <1>1, <1>3
<1>8. QED BY <1>2, <1>3, <1>4, <1>5, <1>6, <1>7

(* What a step of the execution is, in terms of the values it gives.       *)
LEMMA RunCases ==
  ASSUME ControlInv, PlaceInv, Run
  PROVE  \/ \E f \in DOMAIN prog.body : Enter(f)
         \/ Running /\ exec' = Idle
         \/ /\ Running /\ exec.k < Len(Code[exec.b])
            /\ \E x : IsResult(Current, x) /\ Assigns(Current.id, x)
            /\ Current.op \in LoadLike \cup {"trunc", "sext", "zext", "binary", "icmp", "call"}
         \/ /\ Running /\ exec.k < Len(Code[exec.b]) /\ Current.op = "store"
            /\ \E x, y : /\ y \in Operand(Current.a) /\ x.trail = y.trail
                         /\ x.source = IF Current.a \in ConstantInt
                                       THEN Current.a ELSE y.source
                         /\ Assigns(Current.b, x)
         \/ /\ Running /\ exec.k = Len(Code[exec.b])
            /\ Current.op \in {"jump", "branch", "switch"}
            /\ \E b \in Successors(Current) : Enters(b)
<1>1. CASE \E f \in DOMAIN prog.body : Enter(f)
  BY <1>1
<1>2. CASE Running /\ Leave
  BY <1>2 DEF Leave
<1>3. CASE Running /\ ExecuteValue
  <2>1. Current.op \in LoadLike \cup {"trunc", "sext", "zext", "binary", "icmp", "call"}
    BY <1>3 DEF ExecuteValue
  <2>2. exec.k < Len(Code[exec.b])
    <3>1. exec.k # Len(Code[exec.b])
      BY <1>3, <2>1, PlaceShape DEF LoadLike, BitCastLike
    <3>2. exec.k \in 1..Len(Code[exec.b]) /\ Len(Code[exec.b]) \in Nat
      BY <1>3, PlaceShape DEF PlaceInv
    <3>3. QED BY <3>1, <3>2
  <2>3. QED BY <1>3, <2>1, <2>2, ValueStep
<1>4. CASE Running /\ ExecuteStore
  <2>1. Current.op = "store"
    BY <1>4 DEF ExecuteStore
  <2>2. exec.k < Len(Code[exec.b])
    <3>1. exec.k # Len(Code[exec.b])
      BY <1>4, <2>1, PlaceShape
    <3>2. exec.k \in 1..Len(Code[exec.b]) /\ Len(Code[exec.b]) \in Nat
      BY <1>4, PlaceShape DEF PlaceInv
    <3>3. QED BY <3>1, <3>2
  <2>3. QED BY <1>4, <2>1, <2>2, StoreStep
<1>5. CASE Running /\ (ExecuteJump \/ ExecuteBranch \/ ExecuteSwitch)
  BY <1>5, JumpStep, PlaceShape
<1>6. QED BY <1>1, <1>2, <1>3, <1>4, <1>5 DEF Run, Running

LEMMA PlaceNext == ControlInv /\ PlaceInv /\ ExecNext => PlaceInv'
<1> SUFFICES ASSUME ControlInv, PlaceInv, ExecNext PROVE PlaceInv'
  OBVIOUS
<1>1. CASE Analyse /\ UNCHANGED exec
  <2>1. ~ Running
    BY <1>1, AnalysisIsOver DEF PlaceInv
  <2>2. QED BY <1>1, <2>1 DEF PlaceInv, Running
<1>2. CASE Run /\ UNCHANGED vars
  <2>0. UNCHANGED <<prog, pass>>
    BY <1>2 DEF vars
  <2>1. ASSUME NEW f \in DOMAIN prog.body, Enter(f) PROVE PlaceInv'
    <3>1. /\ pass = "done" /\ IsExecution(exec')
          /\ exec'.fn = f /\ exec'.b = 1 /\ exec'.k = 1 /\ exec'.env = <<>>
      BY <2>1 DEF Enter, Idle, IsExecution
    <3>2. IsBody(prog.body[f])
      BY ProgramShape DEF ControlInv
    <3>3. Len(prog.body[f]) \in Nat \ {0} /\ DOMAIN prog.body[f] = 1..Len(prog.body[f])
      BY <3>2, BodyShape
    <3>4. 1 \in DOMAIN prog.body[f]
      BY <3>3
    <3>5. Len(prog.body[f][1]) \in Nat \ {0}
      BY <3>2, <3>4, BodyShape
    <3>6. 1 \in 1..Len(prog.body[f][1])
      BY <3>5
    <3>7. QED BY <2>0, <3>1, <3>4, <3>6 DEF PlaceInv, Code
  <2>2. CASE Running /\ exec' = Idle
    BY <2>2 DEF PlaceInv, IsExecution, Idle, Running
  <2>3. ASSUME Running, exec.k < Len(Code[exec.b]), NEW w \in NamesOf(Code), NEW x,
               Assigns(w, x)
        PROVE  PlaceInv'
    <3>1. /\ IsExecution(exec') /\ exec'.fn = exec.fn /\ exec'.b = exec.b
          /\ exec'.k = exec.k + 1 /\ DOMAIN exec'.env = DOMAIN exec.env \cup {w}
          /\ \A v \in DOMAIN exec'.env : IsValue(exec'.env[v])
      BY <2>3 DEF Assigns
    <3>2. exec.k \in 1..Len(Code[exec.b]) /\ Len(Code[exec.b]) \in Nat
      BY <2>3, PlaceShape DEF PlaceInv
    <3>3. Code' = Code /\ exec'.k \in 1..Len(Code[exec.b])
      BY <2>0, <2>3, <3>1, <3>2 DEF Code
    <3>4. QED BY <2>0, <2>3, <3>1, <3>3 DEF PlaceInv, Running
  <2>4. ASSUME Running, exec.k = Len(Code[exec.b]), NEW b \in Successors(Current), Enters(b)
        PROVE  PlaceInv'
    <3>1. IsBody(Code) /\ b \in DOMAIN Code
      <4>1. IsBody(Code) /\ exec.b \in DOMAIN Code
        BY <2>4, PlaceShape DEF PlaceInv
      <4>2. Successors(Terminator(Code[exec.b])) \subseteq DOMAIN Code
        BY <4>1 DEF IsBody
      <4>3. QED BY <2>4, <4>1, <4>2 DEF Current, Terminator
    <3>2. PICK n \in Nat : /\ n < Len(Code[b]) /\ PhisOf(Code, b) = 1..n
                           /\ Cardinality(PhisOf(Code, b)) = n
      BY <3>1, PhisComeFirst
    <3>3. /\ IsExecution(exec') /\ exec'.fn = exec.fn /\ exec'.b = b
          /\ exec'.k = 1 + n
          /\ DOMAIN exec'.env = DOMAIN exec.env \cup {Code[b][i].id : i \in 1..n}
          /\ \A v \in DOMAIN exec'.env : IsValue(exec'.env[v])
      BY <2>4, <3>2 DEF Enters
    <3>4. Len(Code[b]) \in Nat /\ \A i \in 1..Len(Code[b]) : Code[b][i].id \in NamesOf(Code)
      BY <3>1, BodyShape, NamesAreNames
    <3>5. 1 + n \in 1..Len(Code[b]) /\ \A i \in 1..n : i \in 1..Len(Code[b])
      BY <3>2, <3>4
    <3>6. DOMAIN exec'.env \subseteq NamesOf(Code)
      BY <2>4, <3>3, <3>4, <3>5 DEF PlaceInv
    <3>7. Code' = Code
      BY <2>0, <3>3 DEF Code
    <3>8. pass = "done" /\ exec.fn \in DOMAIN prog.body
      BY <2>4 DEF PlaceInv
    <3>9. QED BY <2>0, <3>1, <3>3, <3>5, <3>6, <3>7, <3>8 DEF PlaceInv
  <2>5. QED BY <1>2, <2>1, <2>2, <2>3, <2>4, RunCases, PlaceShape
<1>3. QED BY <1>1, <1>2 DEF ExecNext

(***************************************************************************)
(* What the settled facts of ReturnPropagationPass say along an execution. *)
(***************************************************************************)
LEMMA PropagateHolds ==
  ASSUME NEW body, NEW inst, inst.id \in ValuesOf(body),
         inst.op = "store" => inst.b \in ValuesOf(body),
         NEW before, IsPropagationFact(body, before),
         NEW after, PropagateInst(before, after, inst) = after
  PROVE  /\ inst.op = "call" =>
              /\ inst.id \in after[inst.id]
              /\ \A v \in ValuesOf(body) \ {inst.id} : after[v] = before[v]
         /\ inst.op \in LoadLike \cup {"binary"} =>
              /\ before[inst.a] # {} => after[inst.id] = before[inst.a]
              /\ \A v \in ValuesOf(body) \ {inst.id} : after[v] = before[v]
         /\ inst.op = "store" =>
              /\ before[inst.a] # {} => after[inst.b] = before[inst.a]
              /\ inst.a \in ConstantInt => inst.a \in after[inst.b]
              /\ \A v \in ValuesOf(body) \ {inst.b} : after[v] = before[v]
         /\ inst.op \notin {"call", "store", "phi", "binary"} \cup LoadLike => after = before
<1>1. DOMAIN before = ValuesOf(body)
  BY DEF IsPropagationFact
<1>2. ASSUME inst.op = "call"
      PROVE  /\ inst.id \in after[inst.id]
             /\ \A v \in ValuesOf(body) \ {inst.id} : after[v] = before[v]
  <2>1. after = [before EXCEPT ![inst.id] = @ \cup {inst.id}]
    BY <1>2 DEF PropagateInst, LoadLike, BitCastLike
  <2>2. QED BY <1>1, <2>1
<1>3. ASSUME inst.op \in LoadLike \cup {"binary"}
      PROVE  /\ before[inst.a] # {} => after[inst.id] = before[inst.a]
             /\ \A v \in ValuesOf(body) \ {inst.id} : after[v] = before[v]
  <2>1. after = CopySources(before, inst.a, inst.id)
    BY <1>3 DEF PropagateInst, LoadLike, BitCastLike
  <2>2. QED BY <1>1, <2>1 DEF CopySources
<1>4. ASSUME inst.op = "store"
      PROVE  /\ before[inst.a] # {} => after[inst.b] = before[inst.a]
             /\ inst.a \in ConstantInt => inst.a \in after[inst.b]
             /\ \A v \in ValuesOf(body) \ {inst.b} : after[v] = before[v]
  <2>1. after = PropagateStore(before, inst)
    BY <1>4 DEF PropagateInst, LoadLike, BitCastLike
  <2>2. inst.a \in ConstantInt => before[inst.a] = {}
    BY DEF IsPropagationFact, Constant, ConstantInt
  <2>3. CASE inst.a \in ConstantInt
    <3>1. after = [before EXCEPT ![inst.b] = @ \cup {inst.a}]
      BY <2>1, <2>2, <2>3 DEF PropagateStore
    <3>2. QED BY <1>1, <1>4, <2>2, <2>3, <3>1
  <2>4. CASE inst.a \notin ConstantInt
    <3>1. after = IF before[inst.a] # {} THEN [before EXCEPT ![inst.b] = before[inst.a]]
                  ELSE before
      BY <2>1, <2>4 DEF PropagateStore
    <3>2. QED BY <1>1, <1>4, <2>4, <3>1
  <2>5. QED BY <2>3, <2>4
<1>5. ASSUME inst.op \notin {"call", "store", "phi", "binary"} \cup LoadLike
      PROVE  after = before
  BY <1>5 DEF PropagateInst
<1>6. QED BY <1>2, <1>3, <1>4, <1>5

(* The facts of the function that is executed are settled.                 *)
LEMMA SettledHere ==
  ASSUME ControlInv, PropagationInv, PlaceInv, Running
  PROVE  LET F == facts.propagation[exec.fn]
         IN /\ HasPropagationFacts(Code, F)
            /\ \A b \in DOMAIN Code : IsSettledBlock(Code, F, b)
            /\ IsPropagationFact(Code, F[exec.b][exec.k])
            /\ PropagateInst(F[exec.b][exec.k], F[exec.b][exec.k + 1], Current)
               = F[exec.b][exec.k + 1]
<1> DEFINE F == facts.propagation[exec.fn]
<1>1. /\ exec.fn \in DOMAIN prog.body /\ pass = "done"
      /\ exec.b \in DOMAIN Code /\ exec.k \in 1..Len(Code[exec.b])
  BY DEF PlaceInv
<1>2. HasPropagationFacts(Code, F) /\ \A b \in DOMAIN Code : IsSettledBlock(Code, F, b)
  BY <1>1 DEF PropagationInv, PropagationSettled, Code
<1> HIDE DEF F
<1>3. Len(Code[exec.b]) \in Nat
  BY PlaceShape
<1>4. IsPropagationFact(Code, F[exec.b][exec.k])
  BY <1>1, <1>2, <1>3 DEF HasPropagationFacts
<1>5. PropagateInst(F[exec.b][exec.k], F[exec.b][exec.k + 1], Current) = F[exec.b][exec.k + 1]
  BY <1>1, <1>2 DEF IsSettledBlock, IsTransferred, Current
<1>6. QED BY <1>2, <1>4, <1>5 DEF F

(* A name that keeps its value keeps being known to.                       *)
LEMMA SourcesValue ==
  ASSUME ControlInv, PropagationInv, PlaceInv, SourcesAreKnown, Running, UNCHANGED <<prog, facts>>,
         Current.op \in LoadLike \cup {"trunc", "sext", "zext", "binary", "icmp", "call"},
         NEW x, IsResult(Current, x), Assigns(Current.id, x)
  PROVE  SourcesAreKnown'
<1> DEFINE before == facts.propagation[exec.fn][exec.b][exec.k]
           after  == facts.propagation[exec.fn][exec.b][exec.k + 1]
           inst   == Current
<1>1. /\ exec'.fn = exec.fn /\ exec'.b = exec.b /\ exec'.k = exec.k + 1
      /\ DOMAIN exec'.env = DOMAIN exec.env \cup {inst.id}
      /\ exec'.env[inst.id].source = x.source
      /\ \A v \in DOMAIN exec.env \ {inst.id} : exec'.env[v].source = exec.env[v].source
  BY DEF Assigns
<1>2. FactsHere("propagation") = before /\ FactsHere("propagation")' = after /\ Code' = Code
  BY <1>1 DEF FactsHere, Code
<1>3. /\ IsPropagationFact(Code, before) /\ PropagateInst(before, after, inst) = after
      /\ inst.id \in ValuesOf(Code) /\ inst.op # "store"
      /\ DOMAIN exec.env \subseteq ValuesOf(Code)
  BY SettledHere, PlaceShape DEF PlaceInv, NamesOf, LoadLike, BitCastLike
<1>4. SUFFICES ASSUME ~ HasPhi(Code), NEW v \in DOMAIN exec'.env, exec'.env[v].source # ""
               PROVE  exec'.env[v].source \in after[v]
  BY <1>2 DEF SourcesAreKnown
<1>5. \A u \in DOMAIN exec.env : exec.env[u].source # "" => exec.env[u].source \in before[u]
  BY <1>2, <1>4 DEF SourcesAreKnown
<1> HIDE DEF before, after, inst
<1>6. /\ inst.op = "call" => inst.id \in after[inst.id]
      /\ inst.op \in LoadLike => (before[inst.a] # {} => after[inst.id] = before[inst.a])
      /\ \A u \in ValuesOf(Code) \ {inst.id} : after[u] = before[u]
  <2>1. inst.op \in {"call"} \cup LoadLike \cup {"binary"} \cup {"trunc", "sext", "zext", "icmp"}
    BY DEF inst
  <2>2. inst.op \in {"trunc", "sext", "zext", "icmp"} => inst.op \notin {"call", "store", "phi", "binary"} \cup LoadLike
    BY DEF LoadLike, BitCastLike
  <2>3. QED BY <1>3, <2>1, <2>2, PropagateHolds
<1>7. CASE v # inst.id
  BY <1>1, <1>3, <1>4, <1>5, <1>6, <1>7
<1>8. CASE v = inst.id
  <2>1. exec'.env[v].source = x.source /\ x.source # ""
    BY <1>1, <1>4, <1>8
  <2>2. CASE inst.op = "call"
    BY <1>6, <1>8, <2>1, <2>2 DEF IsResult, inst
  <2>3. CASE inst.op \in LoadLike
    <3>1. x \in Operand(inst.a)
      BY <2>3 DEF IsResult, inst
    <3>2. inst.a \in DOMAIN exec.env /\ x = exec.env[inst.a]
      BY <2>1, <3>1, OperandValues DEF IsFresh
    <3>3. x.source \in before[inst.a]
      BY <1>5, <2>1, <3>2
    <3>4. QED BY <1>6, <1>8, <2>1, <2>3, <3>3
  <2>4. CASE inst.op \in {"trunc", "sext", "zext", "binary", "icmp"}
    BY <2>1, <2>4 DEF IsResult, IsFresh, inst
  <2>5. QED BY <2>2, <2>3, <2>4 DEF inst
<1>9. QED BY <1>7, <1>8

LEMMA SourcesStore ==
  ASSUME ControlInv, PropagationInv, PlaceInv, SourcesAreKnown, Running, UNCHANGED <<prog, facts>>,
         Current.op = "store", NEW x, NEW y \in Operand(Current.a),
         x.source = IF Current.a \in ConstantInt THEN Current.a ELSE y.source,
         Assigns(Current.b, x)
  PROVE  SourcesAreKnown'
<1> DEFINE before == facts.propagation[exec.fn][exec.b][exec.k]
           after  == facts.propagation[exec.fn][exec.b][exec.k + 1]
           inst   == Current
<1>1. /\ exec'.fn = exec.fn /\ exec'.b = exec.b /\ exec'.k = exec.k + 1
      /\ DOMAIN exec'.env = DOMAIN exec.env \cup {inst.b}
      /\ exec'.env[inst.b].source = x.source
      /\ \A v \in DOMAIN exec.env \ {inst.b} : exec'.env[v].source = exec.env[v].source
  BY DEF Assigns
<1>2. FactsHere("propagation") = before /\ FactsHere("propagation")' = after /\ Code' = Code
  BY <1>1 DEF FactsHere, Code
<1>3. /\ IsPropagationFact(Code, before) /\ PropagateInst(before, after, inst) = after
      /\ inst.id \in ValuesOf(Code) /\ inst.b \in ValuesOf(Code) /\ inst.op = "store"
      /\ DOMAIN exec.env \subseteq ValuesOf(Code)
  BY SettledHere, PlaceShape DEF PlaceInv, NamesOf
<1>4. SUFFICES ASSUME ~ HasPhi(Code), NEW v \in DOMAIN exec'.env, exec'.env[v].source # ""
               PROVE  exec'.env[v].source \in after[v]
  BY <1>2 DEF SourcesAreKnown
<1>5. \A u \in DOMAIN exec.env : exec.env[u].source # "" => exec.env[u].source \in before[u]
  BY <1>2, <1>4 DEF SourcesAreKnown
<1>6. inst = Current
  OBVIOUS
<1> HIDE DEF before, after, inst
<1>7. /\ before[inst.a] # {} => after[inst.b] = before[inst.a]
      /\ inst.a \in ConstantInt => inst.a \in after[inst.b]
      /\ \A u \in ValuesOf(Code) \ {inst.b} : after[u] = before[u]
  BY <1>3, PropagateHolds
<1>8. CASE v # inst.b
  BY <1>1, <1>3, <1>4, <1>5, <1>7, <1>8
<1>9. CASE v = inst.b
  <2>1. exec'.env[v].source = x.source /\ x.source # ""
    BY <1>1, <1>4, <1>9
  <2>2. CASE inst.a \in ConstantInt
    BY <1>6, <1>7, <1>9, <2>1, <2>2
  <2>3. CASE inst.a \notin ConstantInt
    <3>1. inst.a \in DOMAIN exec.env /\ y = exec.env[inst.a] /\ x.source = y.source
      BY <1>6, <2>1, <2>3, OperandValues DEF IsFresh
    <3>2. x.source \in before[inst.a]
      BY <1>5, <2>1, <3>1
    <3>3. QED BY <1>7, <1>9, <2>1, <3>2
  <2>4. QED BY <2>2, <2>3
<1>10. QED BY <1>8, <1>9

LEMMA SourcesJump ==
  ASSUME ControlInv, PropagationInv, PlaceInv, SourcesAreKnown, Running, UNCHANGED <<prog, facts>>,
         Current.op \in {"jump", "branch", "switch"}, exec.k = Len(Code[exec.b]),
         NEW b \in Successors(Current), Enters(b)
  PROVE  SourcesAreKnown'
<1> DEFINE F == facts.propagation[exec.fn]
           exit == F[exec.b][exec.k + 1]
<1>1. SUFFICES ASSUME ~ HasPhi(Code), NEW v \in DOMAIN exec'.env, exec'.env[v].source # ""
               PROVE  exec'.env[v].source \in FactsHere("propagation")'[v]
  <2>1. Code' = Code
    BY DEF Enters, Code
  <2>2. QED BY <2>1 DEF SourcesAreKnown
<1>2. IsBody(Code) /\ exec.b \in DOMAIN Code
  BY PlaceShape DEF PlaceInv
<1>3. exec.b \in Predecessors(Code, b) /\ b \in DOMAIN Code
  <2>1. Current = Terminator(Code[exec.b])
    BY DEF Current, Terminator
  <2>2. QED BY <1>2, <2>1 DEF IsBody, Predecessors
<1>4. PhisOf(Code, b) = {}
  <2> SUFFICES ASSUME NEW i \in DOMAIN Code[b], Code[b][i].op = "phi" PROVE FALSE
    BY DEF PhisOf
  <2>1. i \in 1..Len(Code[b])
    BY <1>2, <1>3, BodyShape
  <2>2. Code[b][i] \in InstructionsOf(Code)
    BY <1>2, <1>3, <2>1, BodyShape
  <2>3. QED BY <1>1, <2>2 DEF HasPhi
<1>5. /\ exec'.fn = exec.fn /\ exec'.b = b /\ exec'.k = 1
      /\ v \in DOMAIN exec.env /\ exec'.env[v].source = exec.env[v].source
  <2>1. Cardinality(PhisOf(Code, b)) = 0
    BY <1>4, FS_EmptySet
  <2>2. QED BY <1>4, <2>1 DEF Enters
<1>6. FactsHere("propagation")' = F[b][1]
  BY <1>5 DEF FactsHere
<1>7. exec.env[v].source \in F[exec.b][exec.k][v]
  BY <1>1, <1>5 DEF SourcesAreKnown, FactsHere
<1>8. exit = F[exec.b][exec.k]
  <2>1. PropagateInst(F[exec.b][exec.k], exit, Current) = exit
    BY SettledHere
  <2>2. Current.op \notin {"call", "store", "phi", "binary"} \cup LoadLike
    BY DEF LoadLike, BitCastLike
  <2>3. QED BY <2>1, <2>2 DEF PropagateInst
<1>9. exit[v] \subseteq F[b][1][v]
  <2>1. v \in ValuesOf(Code)
    BY <1>5 DEF PlaceInv, NamesOf
  <2>2. IsFed(Code, F, b)
    BY <1>3, SettledHere DEF IsSettledBlock
  <2>3. QED BY <1>3, <2>1, <2>2 DEF IsFed
<1>10. QED BY <1>5, <1>6, <1>7, <1>8, <1>9

LEMMA SourcesNext ==
  ControlInv /\ PropagationInv /\ PlaceInv /\ SourcesAreKnown /\ ExecNext => SourcesAreKnown'
<1> SUFFICES ASSUME ControlInv, PropagationInv, PlaceInv, SourcesAreKnown, ExecNext
             PROVE  SourcesAreKnown'
  OBVIOUS
<1>1. CASE Analyse /\ UNCHANGED exec
  <2>1. ~ Running
    BY <1>1, AnalysisIsOver DEF PlaceInv
  <2>2. QED BY <1>1, <2>1 DEF SourcesAreKnown, Running
<1>2. CASE Run /\ UNCHANGED vars
  <2>1. UNCHANGED <<prog, facts>>
    BY <1>2 DEF vars
  <2>2. ASSUME NEW f \in DOMAIN prog.body, Enter(f) PROVE SourcesAreKnown'
    <3>1. exec'.env = <<>>
      BY <2>2 DEF Enter, Idle
    <3>2. DOMAIN exec'.env = {}
      BY <3>1
    <3>3. QED BY <3>2 DEF SourcesAreKnown
  <2>3. CASE exec' = Idle
    BY <2>3 DEF SourcesAreKnown, Running, Idle
  <2>4. QED
    BY <1>2, <2>1, <2>2, <2>3, RunCases, SourcesValue, SourcesStore, SourcesJump
<1>3. QED BY <1>1, <1>2 DEF ExecNext

(* What a name holds is known: the passes before are through, and their    *)
(* facts settled, whenever a function is executed.                         *)
ExecutionInv == ControlInv /\ PropagationInv /\ PlaceInv

LEMMA ExecutionInitial == ExecInit => ExecutionInv
BY ControlInit, PropagationInitial, PlaceInitial DEF ExecInit, ExecutionInv

LEMMA ExecutionNext == ExecutionInv /\ [ExecNext]_allVars => ExecutionInv'
<1> SUFFICES ASSUME ExecutionInv, [ExecNext]_allVars PROVE ExecutionInv'
  OBVIOUS
<1>1. CASE ExecNext
  <2>1. PlaceInv'
    BY <1>1, PlaceNext DEF ExecutionInv
  <2>2. CASE Analyse
    BY <2>1, <2>2, ControlNext, PropagationNext DEF ExecutionInv
  <2>3. CASE UNCHANGED vars
    <3>1. ControlInv'
      BY <2>3 DEF vars, ExecutionInv, ControlInv
    <3>2. PropagationInv'
      BY <2>3 DEF vars, ExecutionInv, PropagationInv, PropagationSettled, Body
    <3>3. QED BY <2>1, <3>1, <3>2 DEF ExecutionInv
  <2>4. QED BY <1>1, <2>2, <2>3 DEF ExecNext
<1>2. CASE UNCHANGED allVars
  <2>1. ControlInv'
    BY <1>2 DEF allVars, vars, ExecutionInv, ControlInv
  <2>2. PropagationInv'
    BY <1>2 DEF allVars, vars, ExecutionInv, PropagationInv, PropagationSettled, Body
  <2>3. PlaceInv'
    BY <1>2 DEF allVars, vars, ExecutionInv, PlaceInv, Running, Code
  <2>4. QED BY <2>1, <2>2, <2>3 DEF ExecutionInv
<1>3. QED BY <1>1, <1>2

(* The facts of ReturnPropagationPass cover every execution of every       *)
(* function without phis of every program: whatever call or constant a     *)
(* name's value comes from, the pass has it among the sources of the name. *)
THEOREM SourcesKnown == ExecSpec => []SourcesAreKnown
<1>1. ExecInit => SourcesAreKnown
  <2>1. ExecInit => ~ Running
    BY DEF ExecInit, Running, Idle
  <2>2. QED BY <2>1 DEF SourcesAreKnown
<1>2. ExecutionInv /\ SourcesAreKnown /\ [ExecNext]_allVars => SourcesAreKnown'
  <2> SUFFICES ASSUME ExecutionInv, SourcesAreKnown, [ExecNext]_allVars PROVE SourcesAreKnown'
    OBVIOUS
  <2>1. CASE ExecNext
    BY <2>1, SourcesNext DEF ExecutionInv
  <2>2. CASE UNCHANGED allVars
    BY <2>2 DEF allVars, vars, SourcesAreKnown, Running, HasPhi, FactsHere, Code
  <2>3. QED BY <2>1, <2>2
<1>3. QED BY <1>1, <1>2, ExecutionInitial, ExecutionNext, PTL DEF ExecSpec

(* When it is over, another round of ReturnPropagationPass over the blocks *)
(* of any function would change nothing: `changed` sees every change that  *)
(* matters, although it does not see the joins.                            *)
THEOREM PropagationStopsAtFixpoint ==
  ExecSpec => [](pass = "done" => \A f \in DOMAIN prog.body : Settled(f, "propagation"))
<1>1. ASSUME ExecutionInv, pass = "done", NEW f \in DOMAIN prog.body
      PROVE  Settled(f, "propagation")
  <2>1. IsBody(prog.body[f])
    BY <1>1, ProgramShape DEF ExecutionInv, ControlInv
  <2>2. HasPropagationFacts(prog.body[f], facts.propagation[f]) /\ PropagationSettled(f)
    BY <1>1 DEF ExecutionInv, PropagationInv
  <2>3. \A b \in DOMAIN prog.body[f] :
          PropagationStep(prog.body[f], facts.propagation[f], b).facts = facts.propagation[f]
    BY <2>1, <2>2, PropagationSteps DEF PropagationSettled
  <2>4. QED BY <2>3 DEF Settled
<1>2. ExecutionInv => (pass = "done" => \A f \in DOMAIN prog.body : Settled(f, "propagation"))
  BY <1>1
<1>3. QED BY <1>2, ExecutionInitial, ExecutionNext, PTL DEF ExecSpec

(***************************************************************************)
(* The loop of ReturnedValuesPass::VisitBlock, from the last instruction   *)
(* to the first.                                                           *)
(***************************************************************************)
ReturnedAt(body, b, fs, k) ==
  ReturnedIncoming(SetAt(fs, b, k, ReturnedInst(fs[b][k], fs[b][k + 1], body[b][k])),
                   fs[b][k + 1], body[b][k])

AfterReturned(body, b, x, k) ==
  [facts   |-> ReturnedAt(body, b, x.facts, k),
   changed |-> HasChanged(x.changed, x.facts[b][k], ReturnedAt(body, b, x.facts, k)[b][k])]

IsReturnedRun(body, b, F, m, g) ==
  g = [i \in 0..m |-> IF i = 0 THEN Unchanged(F)
                      ELSE AfterReturned(body, b, g[i - 1], Len(body[b]) - i + 1)]

LEMMA ReturnedRunExists ==
  ASSUME NEW body, NEW b, NEW F
  PROVE  \A n \in Nat : \E g : IsReturnedRun(body, b, F, n, g)
<1> DEFINE S == {m \in Nat : \E g : IsReturnedRun(body, b, F, m, g)}
           After(x, i) == AfterReturned(body, b, x, Len(body[b]) - i + 1)
<1>1. 0 \in S
  <2> DEFINE g == [i \in 0..0 |-> Unchanged(F)]
  <2>1. IsReturnedRun(body, b, F, 0, g)
    BY DEF IsReturnedRun
  <2>2. QED BY <2>1
<1>2. ASSUME NEW m \in Nat, m \in S PROVE m + 1 \in S
  <2>1. PICK h : IsReturnedRun(body, b, F, m, h)
    BY <1>2
  <2> DEFINE g == [i \in 0..m + 1 |-> IF i = m + 1 THEN After(h[m], m + 1) ELSE h[i]]
             next(i) == IF i = 0 THEN Unchanged(F) ELSE After(g[i - 1], i)
  <2>2. ASSUME NEW i \in 0..m + 1 PROVE g[i] = next(i)
    <3>1. CASE i = m + 1
      <4>1. g[i] = After(h[m], i) /\ g[i - 1] = h[m]
        BY <3>1
      <4>2. QED BY <3>1, <4>1
    <3>2. CASE i # m + 1
      <4>1. g[i] = h[i] /\ i \in 0..m /\ (i # 0 => g[i - 1] = h[i - 1])
        BY <3>2
      <4>2. h[i] = IF i = 0 THEN Unchanged(F) ELSE After(h[i - 1], i)
        BY <2>1, <4>1 DEF IsReturnedRun
      <4>3. QED BY <4>1, <4>2
    <3>3. QED BY <3>1, <3>2
  <2>3. IsReturnedRun(body, b, F, m + 1, g)
    BY <2>2 DEF IsReturnedRun
  <2>4. QED BY <2>3
<1> HIDE DEF S
<1>3. Nat \subseteq S
  BY <1>1, <1>2, NaturalInduction
<1>4. QED BY <1>3 DEF S

LEMMA ReturnedUnfolds ==
  ASSUME NEW body, NEW F, NEW b \in DOMAIN body, body[b] \in Seq(Range(body[b]))
  PROVE  \E g : /\ IsReturnedRun(body, b, F, Len(body[b]), g)
                /\ ReturnedVisitBlock(body, F, b) = g[Len(body[b])]
<1> DEFINE n == Len(body[b])
           forward == [k \in DOMAIN body[b] |-> k]
           order == Reverse(forward)
           Visit(fs, k) ==
             LET after == fs[b][k + 1]
             IN ReturnedIncoming([fs EXCEPT ![b][k] = ReturnedInst(@, after, body[b][k])],
                                 after, body[b][k])
           Step(d, i) ==
             CHOOSE step \in
               {[facts   |-> x.next,
                 changed |-> HasChanged(x.done.changed,
                                        x.done.facts[b][order[i]],
                                        x.next[b][order[i]])] :
                  x \in {[done |-> e, next |-> Visit(e.facts, order[i])] : e \in {d}}} :
               TRUE
           Stages(g, m) == [i \in 0..m |-> IF i = 0 THEN [facts |-> F, changed |-> FALSE]
                                        ELSE Step(g[i - 1], i)]
<1>1. ReturnedVisitBlock(body, F, b) = (CHOOSE g : g = Stages(g, Len(order)))[Len(order)]
  BY Zenon DEF ReturnedVisitBlock, VisitInstructions
<1>2. n \in Nat /\ DOMAIN body[b] = 1..n
  BY LenProperties
<1>3. Len(forward) = n
  <2>1. forward \in [1..n -> 1..n]
    BY <1>2
  <2>2. forward \in Seq(1..n)
    BY <1>2, <2>1, SeqDef
  <2>3. QED BY <1>2, <2>1, <2>2, LenProperties
<1>4. order = [i \in 1..n |-> n - i + 1]
  BY <1>2, <1>3 DEF Reverse
<1>5. Len(order) = n
  <2>1. order \in [1..n -> 1..n]
    <3> HIDE DEF order, n
    <3>1. \A i \in 1..n : n - i + 1 \in 1..n
      BY <1>2
    <3>2. QED BY <1>4, <3>1
  <2>2. order \in Seq(1..n)
    BY <1>2, <2>1, SeqDef
  <2>3. QED BY <1>2, <2>1, <2>2, LenProperties
<1> HIDE DEF order
<1>6. ASSUME NEW d, NEW i \in 1..n PROVE Step(d, i) = AfterReturned(body, b, d, n - i + 1)
  <2>1. order[i] = n - i + 1
    BY <1>2, <1>4
  <2>2. Visit(d.facts, order[i]) = ReturnedAt(body, b, d.facts, n - i + 1)
    BY <2>1 DEF ReturnedAt, SetAt
  <2> DEFINE x0 == [done |-> d, next |-> Visit(d.facts, order[i])]
             xs == {[done |-> e, next |-> Visit(e.facts, order[i])] : e \in {d}}
  <2>3. xs = {x0} /\ x0.done = d /\ x0.next = ReturnedAt(body, b, d.facts, n - i + 1)
    BY <2>2
  <2> HIDE DEF xs, x0, Visit
  <2>4. {[facts   |-> x.next,
          changed |-> HasChanged(x.done.changed, x.done.facts[b][order[i]],
                                 x.next[b][order[i]])] : x \in xs}
         = {AfterReturned(body, b, d, n - i + 1)}
    BY <2>1, <2>3 DEF AfterReturned
  <2>5. QED BY <2>4, SingletonChoice, Zenon DEF xs, Visit
<1> HIDE DEF Step
<1>7. \A g : g = Stages(g, Len(order)) <=> IsReturnedRun(body, b, F, n, g)
  BY <1>2, <1>5, <1>6 DEF IsReturnedRun, Unchanged
<1>8. PICK h : IsReturnedRun(body, b, F, n, h)
  BY <1>2, ReturnedRunExists
<1> HIDE DEF Stages
<1>9. QED
  BY <1>1, <1>5, <1>7, <1>8

(***************************************************************************)
(* Facts of ReturnedValuesPass: a set at each point of each block.  When   *)
(* a phi may be returned, its incoming values are known to be, at the ends *)
(* of their blocks.                                                        *)
(***************************************************************************)
HasReturnedFacts(body, F) ==
  /\ F = [b \in DOMAIN body |-> F[b]]
  /\ \A b \in DOMAIN body : F[b] = [k \in 1..Len(body[b]) + 1 |-> F[b][k]]

PhiIsFed(body, F, b, k) ==
  body[b][k].op = "phi" /\ body[b][k].id \in F[b][k + 1] =>
    \A p \in DOMAIN body[b][k].in : body[b][k].in[p] \in F[p][Len(body[p]) + 1]

IncomingIsKnown(body, F) ==
  \A b \in DOMAIN body : \A k \in 1..Len(body[b]) : PhiIsFed(body, F, b, k)

GrowsAtExits(body, F, G) ==
  \A c \in DOMAIN body : F[c][Len(body[c]) + 1] \subseteq G[c][Len(body[c]) + 1]

IsReturnedThrough(body, F, b) ==
  \A k \in 1..Len(body[b]) : ReturnedInst(F[b][k], F[b][k + 1], body[b][k]) = F[b][k]

LEMMA PhiShape ==
  ASSUME NEW body, IsBody(body), NEW b \in DOMAIN body, NEW k \in 1..Len(body[b]),
         body[b][k].op = "phi"
  PROVE  /\ k + 1 \in 1..Len(body[b])
         /\ DOMAIN body[b][k].in = Predecessors(body, b)
         /\ DOMAIN body[b][k].in \subseteq DOMAIN body
<1>1. Len(body[b]) \in Nat /\ DOMAIN body[b] = 1..Len(body[b])
  BY BodyShape
<1>2. k # Len(body[b])
  BY <1>1 DEF IsBody, IsBlock
<1>3. DOMAIN body[b][k].in = Predecessors(body, b)
  BY <1>1 DEF IsBody
<1>4. k + 1 \in 1..Len(body[b])
  BY <1>1, <1>2
<1>5. QED BY <1>3, <1>4 DEF Predecessors

(* The visit of one instruction.                                           *)
LEMMA ReturnedVisit ==
  ASSUME NEW body, IsBody(body), NEW F, HasReturnedFacts(body, F),
         NEW b \in DOMAIN body, NEW k \in 1..Len(body[b])
  PROVE  LET G    == ReturnedAt(body, b, F, k)
             fact == ReturnedInst(F[b][k], F[b][k + 1], body[b][k])
         IN /\ HasReturnedFacts(body, G)
            /\ G[b][k] = fact
            /\ \A c \in DOMAIN body : \A j \in 1..Len(body[c]) :
                 c # b \/ j # k => G[c][j] = F[c][j]
            /\ GrowsAtExits(body, F, G)
            /\ PhiIsFed(body, G, b, k)
            /\ PhiIsFed(body, F, b, k) /\ fact = F[b][k] => G = F
<1> DEFINE inst  == body[b][k]
           after == F[b][k + 1]
           fact  == ReturnedInst(F[b][k], after, inst)
           X     == SetAt(F, b, k, fact)
           G     == ReturnedAt(body, b, F, k)
<1>1. \A c \in DOMAIN body : Len(body[c]) \in Nat
  BY BodyShape
<1>2. G = ReturnedIncoming(X, after, inst)
  BY DEF ReturnedAt
<1> HIDE DEF inst, fact, after, G
<1>3. /\ HasReturnedFacts(body, X) /\ X[b][k] = fact
      /\ \A c \in DOMAIN body : \A j \in 1..Len(body[c]) + 1 :
           c # b \/ j # k => X[c][j] = F[c][j]
      /\ fact = F[b][k] => X = F
  <2>1. k \in 1..Len(body[b]) + 1
    BY <1>1
  <2>2. QED BY <2>1 DEF HasReturnedFacts, SetAt
<1> HIDE DEF X
<1>4. \A c \in DOMAIN body : Len(X[c]) = Len(body[c]) + 1
  BY <1>3, ExitIsLast DEF HasReturnedFacts
<1>5. \A c \in DOMAIN body : X[c][Len(body[c]) + 1] = F[c][Len(body[c]) + 1]
  BY <1>1, <1>3
<1>6. CASE inst.op # "phi" \/ inst.id \notin after
  <2>1. G = X
    BY <1>2, <1>6 DEF ReturnedIncoming
  <2>2. PhiIsFed(body, G, b, k)
    <3>1. SUFFICES ASSUME inst.op = "phi" PROVE inst.id \notin G[b][k + 1]
      BY DEF PhiIsFed, inst
    <3>2. k + 1 \in 1..Len(body[b])
      BY <3>1, PhiShape DEF inst
    <3>3. G[b][k + 1] = after
      BY <1>3, <2>1, <3>2 DEF after
    <3>4. QED BY <1>6, <3>1, <3>3
  <2>3. GrowsAtExits(body, F, G)
    BY <1>5, <2>1 DEF GrowsAtExits
  <2>4. \A c \in DOMAIN body : \A j \in 1..Len(body[c]) : c # b \/ j # k => G[c][j] = F[c][j]
    BY <1>1, <1>3, <2>1
  <2>5. QED BY <1>3, <2>1, <2>2, <2>3, <2>4 DEF G, fact, after, inst
<1>7. CASE inst.op = "phi" /\ inst.id \in after
  <2>1. DOMAIN inst.in \subseteq DOMAIN body /\ k + 1 \in 1..Len(body[b])
    BY <1>7, PhiShape DEF inst
  <2>2. G = [p \in DOMAIN body |->
               IF p \in DOMAIN inst.in
               THEN [X[p] EXCEPT ![Len(body[p]) + 1] = @ \cup {inst.in[p]}]
               ELSE X[p]]
    <3>1. DOMAIN X = DOMAIN body
      BY <1>3 DEF HasReturnedFacts
    <3>2. QED BY <1>2, <1>4, <1>7, <3>1 DEF ReturnedIncoming
  <2>3. ASSUME NEW c \in DOMAIN body
        PROVE  /\ G[c] = [j \in 1..Len(body[c]) + 1 |-> G[c][j]]
               /\ \A j \in 1..Len(body[c]) : G[c][j] = X[c][j]
               /\ X[c][Len(body[c]) + 1] \subseteq G[c][Len(body[c]) + 1]
               /\ c \in DOMAIN inst.in => inst.in[c] \in G[c][Len(body[c]) + 1]
               /\ (c \in DOMAIN inst.in => inst.in[c] \in X[c][Len(body[c]) + 1])
                    => G[c] = X[c]
    <3>1. X[c] = [j \in 1..Len(body[c]) + 1 |-> X[c][j]] /\ Len(body[c]) \in Nat
      BY <1>1, <1>3 DEF HasReturnedFacts
    <3>2. CASE c \in DOMAIN inst.in
      <4> DEFINE m == Len(body[c])
                 old == X[c]
                 new == G[c]
                 value == inst.in[c]
      <4>1. new = [old EXCEPT ![m + 1] = @ \cup {value}]
        BY <2>2, <3>2
      <4>2. old = [j \in 1..m + 1 |-> old[j]] /\ m \in Nat
        BY <3>1
      <4> HIDE DEF m, old, new, value
      <4>3. DOMAIN old = 1..m + 1 /\ m + 1 \in 1..m + 1 /\ \A j \in 1..m : j \in 1..m + 1 /\ j # m + 1
        BY <4>2
      <4>4. /\ new[m + 1] = old[m + 1] \cup {value}
            /\ \A j \in 1..m + 1 : j # m + 1 => new[j] = old[j]
            /\ new = [j \in 1..m + 1 |-> new[j]]
        BY <4>1, <4>3
      <4>5. value \in old[m + 1] => new = old
        <5>1. SUFFICES ASSUME value \in old[m + 1] PROVE new = old
          OBVIOUS
        <5>2. new[m + 1] = old[m + 1]
          BY <4>4, <5>1
        <5>3. \A j \in 1..m + 1 : new[j] = old[j]
          BY <4>4, <5>2
        <5>4. QED BY <4>2, <4>4, <5>3
      <4>6. QED BY <3>2, <4>3, <4>4, <4>5 DEF m, old, new, value
    <3>3. CASE c \notin DOMAIN inst.in
      <4>1. G[c] = X[c]
        BY <2>2, <3>3
      <4>2. QED BY <3>1, <3>3, <4>1
    <3>4. QED BY <3>2, <3>3
  <2>4. HasReturnedFacts(body, G)
    BY <2>2, <2>3 DEF HasReturnedFacts
  <2>5. \A c \in DOMAIN body : \A j \in 1..Len(body[c]) : c # b \/ j # k => G[c][j] = F[c][j]
    <3>1. \A c \in DOMAIN body : \A j \in 1..Len(body[c]) : j \in 1..Len(body[c]) + 1
      BY <1>1
    <3>2. ASSUME NEW c \in DOMAIN body, NEW j \in 1..Len(body[c]), c # b \/ j # k
          PROVE  G[c][j] = F[c][j]
      <4>1. X[c][j] = F[c][j]
        BY <1>3, <3>1, <3>2
      <4>2. G[c][j] = X[c][j]
        BY <2>3
      <4>3. QED BY <4>1, <4>2
    <3>3. QED BY <3>2
  <2>6. GrowsAtExits(body, F, G)
    BY <1>5, <2>3 DEF GrowsAtExits
  <2>7. PhiIsFed(body, G, b, k)
    BY <2>1, <2>3 DEF PhiIsFed, inst
  <2>8. ASSUME PhiIsFed(body, F, b, k), fact = F[b][k] PROVE G = F
    <3>1. X = F
      BY <1>3, <2>8
    <3>2. \A p \in DOMAIN inst.in : inst.in[p] \in F[p][Len(body[p]) + 1]
      BY <1>7, <2>8 DEF PhiIsFed, inst, after
    <3>3. \A c \in DOMAIN body : G[c] = F[c]
      BY <2>3, <3>1, <3>2
    <3>4. QED BY <2>4, <3>3 DEF HasReturnedFacts
  <2>9. G[b][k] = fact
    BY <1>3, <2>3
  <2>10. QED BY <2>4, <2>5, <2>6, <2>7, <2>8, <2>9 DEF G, fact, after, inst
<1>8. QED BY <1>6, <1>7

(* The visit of a block.                                                   *)
LEMMA ReturnedVisits ==
  ASSUME NEW body, IsBody(body), NEW F, HasReturnedFacts(body, F), IncomingIsKnown(body, F),
         NEW b \in DOMAIN body
  PROVE  LET visit == ReturnedVisitBlock(body, F, b)
         IN /\ HasReturnedFacts(body, visit.facts)
            /\ IncomingIsKnown(body, visit.facts)
            /\ ~ visit.changed => visit.facts = F /\ IsReturnedThrough(body, F, b)
            /\ IsReturnedThrough(body, F, b) => visit.facts = F
<1> DEFINE n == Len(body[b])
           visit == ReturnedVisitBlock(body, F, b)
<1>1. n \in Nat /\ body[b] \in Seq(Range(body[b]))
  BY BodyShape
<1>2. PICK g : IsReturnedRun(body, b, F, n, g) /\ visit = g[n]
  BY <1>1, ReturnedUnfolds
<1> DEFINE Good(i) ==
             /\ HasReturnedFacts(body, g[i].facts)
             /\ \A c \in DOMAIN body : \A j \in 1..Len(body[c]) :
                  c # b \/ j > n - i => PhiIsFed(body, g[i].facts, c, j)
             /\ ~ g[i].changed =>
                  /\ g[i].facts = F
                  /\ \A k \in 1..n : k > n - i =>
                       ReturnedInst(F[b][k], F[b][k + 1], body[b][k]) = F[b][k]
             /\ IsReturnedThrough(body, F, b) => g[i].facts = F
           S == {i \in Nat : i <= n => Good(i)}
<1> HIDE DEF n, visit
<1>3. 0 \in S
  <2>1. g[0] = Unchanged(F)
    BY <1>1, <1>2 DEF IsReturnedRun
  <2>2. g[0].facts = F
    BY <2>1 DEF Unchanged
  <2>3. \A c \in DOMAIN body : \A j \in 1..Len(body[c]) : PhiIsFed(body, g[0].facts, c, j)
    BY <2>2 DEF IncomingIsKnown
  <2>4. \A k \in 1..n : ~ k > n - 0
    BY <1>1
  <2>5. QED BY <2>2, <2>3, <2>4
<1>4. ASSUME NEW i \in Nat, i \in S PROVE i + 1 \in S
  <2>1. SUFFICES ASSUME i + 1 <= n PROVE Good(i + 1)
    OBVIOUS
  <2> DEFINE k    == n - i
             fs   == g[i].facts
             fact == ReturnedInst(fs[b][k], fs[b][k + 1], body[b][k])
             next == ReturnedAt(body, b, fs, k)
  <2>2. Good(i)
    BY <1>1, <1>4, <2>1
  <2>3. g[i + 1] = AfterReturned(body, b, g[i], k)
    <3>1. i + 1 \in 0..n /\ i + 1 # 0 /\ (i + 1) - 1 = i /\ Len(body[b]) - (i + 1) + 1 = k
      BY <1>1, <2>1 DEF n
    <3>2. QED BY <1>2, <3>1 DEF IsReturnedRun
  <2>4. k \in 1..n /\ k \in 1..Len(body[b]) /\ n - (i + 1) = k - 1
    BY <1>1, <2>1 DEF n
  <2> HIDE DEF k
  <2>5. /\ g[i + 1].facts = next
        /\ g[i + 1].changed = HasChanged(g[i].changed, fs[b][k], next[b][k])
    BY <2>3 DEF AfterReturned
  <2>6. /\ HasReturnedFacts(body, next)
        /\ next[b][k] = fact
        /\ \A c \in DOMAIN body : \A j \in 1..Len(body[c]) :
             c # b \/ j # k => next[c][j] = fs[c][j]
        /\ GrowsAtExits(body, fs, next)
        /\ PhiIsFed(body, next, b, k)
        /\ PhiIsFed(body, fs, b, k) /\ fact = fs[b][k] => next = fs
    <3>1. HasReturnedFacts(body, fs)
      BY <2>2
    <3>2. QED BY <2>4, <3>1, ReturnedVisit
  <2> HIDE DEF fact, next
  <2>7. ASSUME NEW c \in DOMAIN body, NEW j \in 1..Len(body[c]), c # b \/ j > k - 1
        PROVE  PhiIsFed(body, next, c, j)
    <3>1. CASE c = b /\ j = k
      BY <2>6, <3>1
    <3>2. CASE c # b \/ j # k
      <4>1. PhiIsFed(body, fs, c, j) /\ (c # b \/ j + 1 # k)
        <5>1. c # b \/ j > k
          BY <1>1, <2>4, <2>7, <3>2 DEF n
        <5>2. c # b \/ j > n - i
          BY <5>1 DEF k
        <5>3. PhiIsFed(body, fs, c, j)
          BY <2>2, <5>2
        <5>4. c # b \/ j + 1 # k
          BY <2>4, <5>1
        <5>5. QED BY <5>3, <5>4
      <4>2. SUFFICES ASSUME body[c][j].op = "phi", body[c][j].id \in next[c][j + 1],
                            NEW p \in DOMAIN body[c][j].in
                     PROVE  body[c][j].in[p] \in next[p][Len(body[p]) + 1]
        BY DEF PhiIsFed
      <4>3. j + 1 \in 1..Len(body[c]) /\ p \in DOMAIN body
        BY <4>2, PhiShape
      <4>4. body[c][j].id \in fs[c][j + 1]
        BY <2>6, <4>1, <4>2, <4>3
      <4>5. body[c][j].in[p] \in fs[p][Len(body[p]) + 1]
        BY <4>1, <4>2, <4>4 DEF PhiIsFed
      <4>6. QED BY <2>6, <4>3, <4>5 DEF GrowsAtExits
    <3>3. QED BY <3>1, <3>2
  <2>8. PhiIsFed(body, F, b, k)
    BY <2>4 DEF IncomingIsKnown
  <2>9. ASSUME ~ g[i + 1].changed
        PROVE  /\ g[i + 1].facts = F
               /\ \A j \in 1..n : j > k - 1 =>
                    ReturnedInst(F[b][j], F[b][j + 1], body[b][j]) = F[b][j]
    <3>1. ~ g[i].changed /\ fact = fs[b][k]
      BY <2>5, <2>6, <2>9 DEF HasChanged
    <3>2. /\ fs = F
          /\ \A j \in 1..n : j > n - i => ReturnedInst(F[b][j], F[b][j + 1], body[b][j]) = F[b][j]
      BY <2>2, <3>1
    <3>3. next = F
      BY <2>6, <2>8, <3>1, <3>2
    <3>4. ReturnedInst(F[b][k], F[b][k + 1], body[b][k]) = F[b][k]
      BY <3>1, <3>2 DEF fact
    <3>5. \A j \in 1..n : j > k - 1 => j = k \/ j > n - i
      BY <1>1, <2>4 DEF k
    <3>6. QED BY <2>5, <3>2, <3>3, <3>4, <3>5
  <2>10. ASSUME IsReturnedThrough(body, F, b) PROVE g[i + 1].facts = F
    <3>1. fs = F
      BY <2>2, <2>10
    <3>2. fact = F[b][k]
      BY <2>4, <2>10, <3>1 DEF fact, IsReturnedThrough
    <3>3. QED BY <2>5, <2>6, <2>8, <3>1, <3>2
  <2>11. QED BY <2>4, <2>5, <2>6, <2>7, <2>9, <2>10
<1> HIDE DEF S
<1>5. n \in S
  BY <1>1, <1>3, <1>4, NaturalInduction
<1>6. Good(n)
  BY <1>1, <1>5 DEF S
<1>7. \A c \in DOMAIN body : \A j \in 1..Len(body[c]) : j > n - n /\ Len(body[c]) \in Nat
  <2>1. \A c \in DOMAIN body : Len(body[c]) \in Nat
    BY BodyShape
  <2>2. QED BY <1>1, <2>1
<1>8. IncomingIsKnown(body, g[n].facts)
  BY <1>6, <1>7 DEF IncomingIsKnown
<1>9. \A k \in 1..n : k > n - n
  BY <1>1
<1>10. QED
  BY <1>2, <1>6, <1>8, <1>9 DEF n, visit, IsReturnedThrough

(* A block is settled when visiting it, with the facts of its successors   *)
(* joined in, would change nothing.                                        *)
IsReturnedBlock(body, F, b) ==
  /\ IsReturnedThrough(body, F, b)
  /\ \A s \in Successors(Terminator(body[b])) : F[s][1] \subseteq F[b][Len(body[b]) + 1]

LEMMA ReturnedSteps ==
  ASSUME NEW body, IsBody(body), NEW F, HasReturnedFacts(body, F), IncomingIsKnown(body, F),
         NEW b \in DOMAIN body
  PROVE  LET step == ReturnedStep(body, F, b)
         IN /\ HasReturnedFacts(body, step.facts)
            /\ IncomingIsKnown(body, step.facts)
            /\ ~ step.changed =>
                 /\ IsReturnedBlock(body, step.facts, b)
                 /\ \A c \in DOMAIN body :
                      c # b /\ IsReturnedBlock(body, F, c) => IsReturnedBlock(body, step.facts, c)
            /\ IsReturnedBlock(body, F, b) => step.facts = F
<1> DEFINE n == Len(body[b])
           targets == Successors(Terminator(body[b]))
           joined == F[b][n + 1] \cup UNION {F[s][1] : s \in targets}
           G == SetAt(F, b, n + 1, joined)
           step == ReturnedStep(body, F, b)
<1>1. \A c \in DOMAIN body : Len(body[c]) \in Nat \ {0}
  BY BodyShape
<1>2. targets \subseteq DOMAIN body
  BY DEF IsBody
<1>3. step = ReturnedVisitBlock(body, G, b)
  <2>1. Len(F[b]) = n + 1 /\ ExitOf(F, b) = F[b][n + 1]
    BY ExitIsLast DEF HasReturnedFacts
  <2>2. UNION {EntryOf(F, s) : s \in targets} = UNION {F[s][1] : s \in targets}
    BY DEF EntryOf
  <2>3. step = ReturnedVisitBlock(body, [F EXCEPT ![b][Len(F[b])] =
                                           ExitOf(F, b) \cup UNION {EntryOf(F, s) : s \in targets}], b)
    BY Zenon DEF ReturnedStep
  <2>4. QED BY <2>1, <2>2, <2>3 DEF SetAt
<1> HIDE DEF joined
<1>4. /\ HasReturnedFacts(body, G) /\ G[b][n + 1] = joined
      /\ \A c \in DOMAIN body : \A j \in 1..Len(body[c]) + 1 :
           c # b \/ j # n + 1 => G[c][j] = F[c][j]
      /\ joined = F[b][n + 1] => G = F
  <2>1. n + 1 \in 1..n + 1
    BY <1>1
  <2>2. QED BY <2>1 DEF HasReturnedFacts, SetAt
<1> HIDE DEF G, n, step
<1>5. ASSUME NEW c \in DOMAIN body, NEW j \in 1..Len(body[c]) PROVE G[c][j] = F[c][j]
  <2>1. j \in 1..Len(body[c]) + 1 /\ (c # b \/ j # n + 1)
    BY <1>1 DEF n
  <2>2. QED BY <1>4, <2>1
<1>6. ASSUME NEW c \in DOMAIN body
      PROVE  F[c][Len(body[c]) + 1] \subseteq G[c][Len(body[c]) + 1]
  <2>1. CASE c = b
    BY <1>4, <2>1 DEF joined, n
  <2>2. CASE c # b
    <3>1. Len(body[c]) + 1 \in 1..Len(body[c]) + 1
      BY <1>1
    <3>2. QED BY <1>4, <2>2, <3>1
  <2>3. QED BY <2>1, <2>2
<1>7. IncomingIsKnown(body, G)
  <2>1. SUFFICES ASSUME NEW c \in DOMAIN body, NEW j \in 1..Len(body[c]),
                        body[c][j].op = "phi", body[c][j].id \in G[c][j + 1],
                        NEW p \in DOMAIN body[c][j].in
                 PROVE  body[c][j].in[p] \in G[p][Len(body[p]) + 1]
    BY DEF IncomingIsKnown, PhiIsFed
  <2>2. j + 1 \in 1..Len(body[c]) /\ p \in DOMAIN body
    BY <2>1, PhiShape
  <2>3. body[c][j].id \in F[c][j + 1]
    BY <1>5, <2>1, <2>2
  <2>4. body[c][j].in[p] \in F[p][Len(body[p]) + 1]
    BY <2>1, <2>3 DEF IncomingIsKnown, PhiIsFed
  <2>5. QED BY <1>6, <2>2, <2>4
<1>8. /\ HasReturnedFacts(body, step.facts) /\ IncomingIsKnown(body, step.facts)
      /\ ~ step.changed => step.facts = G /\ IsReturnedThrough(body, G, b)
      /\ IsReturnedThrough(body, G, b) => step.facts = G
  BY <1>3, <1>4, <1>7, ReturnedVisits
<1>9. \A c \in DOMAIN body : G[c][1] = F[c][1]
  <2>1. \A c \in DOMAIN body : 1 \in 1..Len(body[c])
    BY <1>1
  <2>2. QED BY <1>5, <2>1
<1>10. \A s \in targets : G[s][1] \subseteq G[b][n + 1]
  BY <1>2, <1>4, <1>9 DEF joined
<1>11. ASSUME NEW c \in DOMAIN body, c # b, IsReturnedBlock(body, F, c)
       PROVE  IsReturnedBlock(body, G, c)
  <2>1. \A j \in 1..Len(body[c]) + 1 : G[c][j] = F[c][j]
    BY <1>4, <1>11
  <2>2. \A j \in 1..Len(body[c]) : j \in 1..Len(body[c]) + 1 /\ j + 1 \in 1..Len(body[c]) + 1
    BY <1>1
  <2>3. IsReturnedThrough(body, G, c)
    BY <1>11, <2>1, <2>2 DEF IsReturnedBlock, IsReturnedThrough
  <2>4. Len(body[c]) + 1 \in 1..Len(body[c]) + 1
    BY <1>1
  <2>5. Successors(Terminator(body[c])) \subseteq DOMAIN body
    BY DEF IsBody
  <2>6. QED BY <1>9, <1>11, <2>1, <2>3, <2>4, <2>5 DEF IsReturnedBlock
<1>12. ASSUME IsReturnedBlock(body, F, b) PROVE step.facts = F
  <2>1. joined = F[b][n + 1]
    BY <1>12 DEF joined, IsReturnedBlock, n
  <2>2. G = F
    BY <1>4, <2>1
  <2>3. QED BY <1>8, <1>12, <2>2 DEF IsReturnedBlock
<1>13. QED
  BY <1>8, <1>10, <1>11, <1>12 DEF IsReturnedBlock, step, n

(***************************************************************************)
(* ReturnedValuesPass over all functions.                                  *)
(***************************************************************************)
ReturnedSettled(f) ==
  \A b \in DOMAIN prog.body[f] : IsReturnedBlock(prog.body[f], facts.returned[f], b)

(* The pass has left the function.                                         *)
IsReturnedDone(f) ==
  pass \in {"range", "done"} \/ (pass = "returned" /\ f \notin todo /\ f # fn)

ReturnedInv ==
  /\ \A f \in DOMAIN prog.body :
       /\ HasReturnedFacts(prog.body[f], facts.returned[f])
       /\ IncomingIsKnown(prog.body[f], facts.returned[f])
  /\ pass = "returned" /\ fn # "none" /\ ~ changed =>
       \A b \in DOMAIN Body : b < block => IsReturnedBlock(Body, facts.returned[fn], b)
  /\ \A f \in DOMAIN prog.body : IsReturnedDone(f) => ReturnedSettled(f)

LEMMA ReturnedInitial == Init => ReturnedInv
<1> SUFFICES ASSUME Init PROVE ReturnedInv
  OBVIOUS
<1>1. ASSUME NEW f \in DOMAIN prog.body
      PROVE  /\ HasReturnedFacts(prog.body[f], facts.returned[f])
             /\ IncomingIsKnown(prog.body[f], facts.returned[f])
  <2> DEFINE body == prog.body[f]
             F == facts.returned[f]
  <2>1. F = [b \in DOMAIN body |-> [k \in 1..Len(body[b]) + 1 |-> {}]]
    <3>1. "returned" \in Range(Pass)
      BY PassNames DEF Passes
    <3>2. F = InitialOf("returned", body)
      BY <3>1 DEF Init
    <3>3. QED BY <3>2 DEF InitialOf, ReturnedInit, InitialFacts
  <2>2. IsBody(body)
    BY ProgramShape DEF Init
  <2> HIDE DEF body, F
  <2>3. HasReturnedFacts(body, F)
    BY <2>1 DEF HasReturnedFacts
  <2>4. ASSUME NEW b \in DOMAIN body, NEW k \in 1..Len(body[b]) PROVE F[b][k + 1] = {}
    <3>1. k + 1 \in 1..Len(body[b]) + 1
      <4>1. Len(body[b]) \in Nat
        BY <2>2, BodyShape
      <4>2. QED BY <4>1
    <3>2. QED BY <2>1, <3>1
  <2>5. IncomingIsKnown(body, F)
    BY <2>4 DEF IncomingIsKnown, PhiIsFed
  <2>6. QED BY <2>3, <2>5 DEF body, F
<1>2. pass = "propagation"
  BY DEF Init
<1>3. QED BY <1>1, <1>2 DEF ReturnedInv, IsReturnedDone

LEMMA ReturnedVisitNext ==
  ControlInv /\ ReturnedInv /\ pass = "returned" /\ VisitNextBlock => ReturnedInv'
<1> SUFFICES ASSUME ControlInv, ReturnedInv, pass = "returned", VisitNextBlock
             PROVE  ReturnedInv'
  OBVIOUS
<1> DEFINE F == facts.returned[fn]
           step == ReturnedStep(Body, F, block)
<1>1. /\ facts' = [facts EXCEPT !["returned"][fn] = step.facts]
      /\ changed' = (changed \/ step.changed)
      /\ block' = block + 1
      /\ UNCHANGED <<prog, pass, todo, fn>>
  BY DEF VisitNextBlock, StepOf
<1>2. fn \in DOMAIN prog.body /\ block \in Nat \ {0} /\ block <= Len(Body)
  BY DEF VisitNextBlock, ControlInv
<1>3. IsBody(Body)
  BY <1>2, ProgramShape DEF ControlInv, Body
<1>4. DOMAIN Body = 1..Len(Body) /\ Len(Body) \in Nat
  BY <1>3, BodyShape
<1>5. block \in DOMAIN Body
  BY <1>2, <1>4
<1>6. /\ facts'.returned[fn] = step.facts
      /\ \A f \in DOMAIN prog.body : f # fn => facts'.returned[f] = facts.returned[f]
  BY <1>1, <1>2 DEF ControlInv, Passes
<1>7. HasReturnedFacts(Body, F) /\ IncomingIsKnown(Body, F)
  BY <1>2 DEF ReturnedInv, Body
<1>8. /\ HasReturnedFacts(Body, step.facts) /\ IncomingIsKnown(Body, step.facts)
      /\ ~ step.changed =>
           /\ IsReturnedBlock(Body, step.facts, block)
           /\ \A c \in DOMAIN Body :
                c # block /\ IsReturnedBlock(Body, F, c) => IsReturnedBlock(Body, step.facts, c)
  BY <1>3, <1>5, <1>7, ReturnedSteps
<1> HIDE DEF step
<1>9. (\A f \in DOMAIN prog.body :
         /\ HasReturnedFacts(prog.body[f], facts.returned[f])
         /\ IncomingIsKnown(prog.body[f], facts.returned[f]))'
  BY <1>1, <1>6, <1>8 DEF ReturnedInv, Body
<1>10. ASSUME ~ changed', NEW b \in DOMAIN Body, b < block + 1
       PROVE  IsReturnedBlock(Body, step.facts, b)
  <2>1. ~ changed /\ ~ step.changed
    BY <1>1, <1>10
  <2>2. CASE b = block
    BY <1>8, <2>1, <2>2
  <2>3. CASE b # block
    <3>1. b < block
      BY <1>2, <1>4, <1>10, <2>3
    <3>2. fn # "none"
      BY DEF VisitNextBlock
    <3>3. IsReturnedBlock(Body, F, b)
      BY <1>10, <2>1, <3>1, <3>2 DEF ReturnedInv
    <3>4. QED BY <1>8, <2>1, <2>3, <3>3
  <2>4. QED BY <2>2, <2>3
<1>11. (pass = "returned" /\ fn # "none" /\ ~ changed =>
          \A b \in DOMAIN Body : b < block => IsReturnedBlock(Body, facts.returned[fn], b))'
  BY <1>1, <1>6, <1>10 DEF Body
<1>12. ASSUME NEW f \in DOMAIN prog.body, IsReturnedDone(f)'
       PROVE  ReturnedSettled(f)'
  <2>1. IsReturnedDone(f) /\ f # fn
    BY <1>1, <1>12 DEF IsReturnedDone
  <2>2. QED BY <1>1, <1>6, <2>1 DEF ReturnedInv, ReturnedSettled
<1>13. QED BY <1>1, <1>9, <1>11, <1>12 DEF ReturnedInv

LEMMA ReturnedNext == ControlInv /\ ReturnedInv /\ Analyse => ReturnedInv'
<1> SUFFICES ASSUME ControlInv, ReturnedInv, Analyse PROVE ReturnedInv'
  OBVIOUS
<1>1. ASSUME NEW f \in todo, Begin(f) PROVE ReturnedInv'
  <2>1. /\ UNCHANGED <<prog, pass, facts>>
        /\ fn = "none" /\ fn' = f /\ block' = 1 /\ todo' = todo \ {f}
    BY <1>1 DEF Begin
  <2>2. \A b \in DOMAIN Body' : ~ b < 1
    <3>1. f \in DOMAIN prog.body
      BY DEF ControlInv
    <3>2. IsBody(prog.body[f])
      BY <3>1, ProgramShape DEF ControlInv
    <3>3. DOMAIN prog.body[f] = 1..Len(prog.body[f])
      BY <3>2, BodyShape
    <3>4. QED BY <2>1, <3>3 DEF Body
  <2>3. "none" \notin DOMAIN prog.body
    BY ProgramShape DEF ControlInv
  <2>4. ASSUME NEW g \in DOMAIN prog.body, IsReturnedDone(g)'
        PROVE  ReturnedSettled(g)
    BY <2>1, <2>3, <2>4 DEF ReturnedInv, IsReturnedDone
  <2>5. QED BY <2>1, <2>2, <2>4 DEF ReturnedInv, ReturnedSettled
<1>2. ASSUME BeginInComponent PROVE ReturnedInv'
  <2>1. UNCHANGED <<prog, pass, facts>> /\ pass = "range"
    BY <1>2 DEF BeginInComponent
  <2>2. QED BY <2>1 DEF ReturnedInv, ReturnedSettled, IsReturnedDone
<1>3. ASSUME VisitNextBlock PROVE ReturnedInv'
  <2>1. CASE pass = "returned"
    BY <1>3, <2>1, ReturnedVisitNext
  <2>2. CASE pass # "returned"
    <3>1. PICK step : facts' = [facts EXCEPT ![pass][fn] = step.facts]
      BY <1>3 DEF VisitNextBlock
    <3>2. facts'.returned = facts.returned
      BY <2>2, <3>1 DEF ControlInv, Passes
    <3>3. UNCHANGED <<prog, pass, todo, fn>>
      BY <1>3 DEF VisitNextBlock
    <3>4. QED BY <2>2, <3>2, <3>3 DEF ReturnedInv, ReturnedSettled, IsReturnedDone
  <2>3. QED BY <2>1, <2>2
<1>4. ASSUME NextRound PROVE ReturnedInv'
  <2>1. UNCHANGED <<prog, pass, todo, fn, facts>> /\ block' = 1
    BY <1>4 DEF NextRound
  <2>2. ASSUME pass = "returned", fn # "none" PROVE \A b \in DOMAIN Body : ~ b < 1
    <3>1. fn \in DOMAIN prog.body
      BY <2>2 DEF ControlInv
    <3>2. IsBody(Body)
      BY <3>1, ProgramShape DEF ControlInv, Body
    <3>3. DOMAIN Body = 1..Len(Body)
      BY <3>2, BodyShape
    <3>4. QED BY <3>3
  <2>3. QED BY <2>1, <2>2 DEF ReturnedInv, ReturnedSettled, IsReturnedDone, Body
<1>5. ASSUME EndFunction PROVE ReturnedInv'
  <2>1. /\ UNCHANGED <<prog, pass, todo, facts>>
        /\ fn # "none" /\ fn' = "none" /\ block > Len(Body) /\ ~ changed
    BY <1>5 DEF EndFunction
  <2>2. ASSUME pass = "returned" PROVE ReturnedSettled(fn)
    <3>1. fn \in DOMAIN prog.body /\ block \in Nat
      BY <2>1 DEF ControlInv
    <3>2. IsBody(Body)
      BY <3>1, ProgramShape DEF ControlInv, Body
    <3>3. DOMAIN Body = 1..Len(Body) /\ Len(Body) \in Nat
      BY <3>2, BodyShape
    <3>4. \A b \in DOMAIN Body : b < block
      BY <2>1, <3>1, <3>3
    <3>5. QED BY <2>1, <2>2, <3>4 DEF ReturnedInv, ReturnedSettled, Body
  <2>3. QED BY <2>1, <2>2 DEF ReturnedInv, ReturnedSettled, IsReturnedDone
<1>6. ASSUME EndComponent PROVE ReturnedInv'
  <2>1. UNCHANGED <<prog, pass, fn, facts>> /\ pass = "range"
    BY <1>6 DEF EndComponent
  <2>2. QED BY <2>1 DEF ReturnedInv, ReturnedSettled, IsReturnedDone
<1>7. ASSUME EndPass PROVE ReturnedInv'
  <2>1. UNCHANGED <<prog, fn, facts>> /\ fn = "none" /\ (pass = "returned" => todo = {})
    BY <1>7 DEF EndPass
  <2>2. /\ pass' = "returned" => todo' = DOMAIN prog.body
        /\ pass' \in {"range", "done"} => pass \in {"returned", "range"}
    BY <1>7 DEF EndPass, ControlInv, Passes
  <2>3. "none" \notin DOMAIN prog.body
    BY ProgramShape DEF ControlInv
  <2>4. \A f \in DOMAIN prog.body : IsReturnedDone(f)' => ReturnedSettled(f)
    BY <2>1, <2>2, <2>3 DEF ReturnedInv, IsReturnedDone
  <2>5. QED BY <2>1, <2>4 DEF ReturnedInv, ReturnedSettled
<1>8. QED BY <1>1, <1>2, <1>3, <1>4, <1>5, <1>6, <1>7 DEF Analyse

(***************************************************************************)
(* What the settled facts of ReturnedValuesPass say along an execution: a  *)
(* name that may be returned from here could be returned from everywhere   *)
(* its value has been, under the name it had there.                        *)
(***************************************************************************)
IsCovered(trail) == \A t \in trail : t[3] \in facts.returned[exec.fn][t[1]][t[2]]

PathsInv ==
  Running =>
    \A v \in DOMAIN exec.env : v \in FactsHere("returned") => IsCovered(exec.env[v].trail)

IsThrough(before, after, inst) == before = ReturnedInst(before, after, inst)

LEMMA ReturnedHere ==
  ASSUME ControlInv, ReturnedInv, PlaceInv, Running
  PROVE  LET R == facts.returned[exec.fn]
         IN /\ IncomingIsKnown(Code, R)
            /\ \A b \in DOMAIN Code : IsReturnedBlock(Code, R, b)
            /\ FactsHere("returned") = R[exec.b][exec.k]
            /\ IsThrough(R[exec.b][exec.k], R[exec.b][exec.k + 1], Current)
<1> DEFINE R == facts.returned[exec.fn]
<1>1. /\ exec.fn \in DOMAIN prog.body /\ pass = "done"
      /\ exec.b \in DOMAIN Code /\ exec.k \in 1..Len(Code[exec.b])
  BY DEF PlaceInv
<1>2. IncomingIsKnown(Code, R) /\ \A b \in DOMAIN Code : IsReturnedBlock(Code, R, b)
  BY <1>1 DEF ReturnedInv, ReturnedSettled, IsReturnedDone, Code
<1>3. FactsHere("returned") = R[exec.b][exec.k]
  BY DEF FactsHere
<1> HIDE DEF R
<1>4. IsThrough(R[exec.b][exec.k], R[exec.b][exec.k + 1], Current)
  BY <1>1, <1>2 DEF IsReturnedBlock, IsReturnedThrough, IsThrough, Current
<1>5. QED BY <1>2, <1>3, <1>4 DEF R

(* An operand that may be returned has a covered value.                    *)
LEMMA OperandCovered ==
  ASSUME PlaceInv, PathsInv, Running, NEW v \in FactsHere("returned"), NEW y \in Operand(v)
  PROVE  IsCovered(y.trail)
<1>1. CASE IsFresh(y)
  BY <1>1 DEF IsFresh, IsCovered
<1>2. CASE v \in DOMAIN exec.env /\ y = exec.env[v]
  BY <1>2 DEF PathsInv
<1>3. QED BY <1>1, <1>2, OperandValues

LEMMA ThroughReturn ==
  ASSUME NEW before, NEW after, NEW inst, IsThrough(before, after, inst),
         inst.op = "return", inst.a # ""
  PROVE  inst.a \in before
BY DEF IsThrough, ReturnedInst, LoadLike, BitCastLike

LEMMA ThroughCallInst ==
  ASSUME NEW before, NEW after, NEW inst, IsThrough(before, after, inst), inst.op = "call"
  PROVE  /\ after \subseteq before
         /\ inst.id \in after /\ inst.f \in ErrFunctions => inst.a \in before
BY DEF IsThrough, ReturnedInst, ThroughCall, LoadLike, BitCastLike

LEMMA ThroughStoreInst ==
  ASSUME NEW before, NEW after, NEW inst, IsThrough(before, after, inst), inst.op = "store"
  PROVE  after \ {inst.b} \subseteq before /\ (inst.b \in after => inst.a \in before)
BY DEF IsThrough, ReturnedInst, ThroughStore, LoadLike, BitCastLike

LEMMA ThroughCast ==
  ASSUME NEW before, NEW after, NEW inst, IsThrough(before, after, inst),
         inst.op \in LoadLike \cup {"trunc", "sext"}
  PROVE  after \ {inst.id} \subseteq before /\ (inst.id \in after => inst.a \in before)
BY DEF IsThrough, ReturnedInst, ThroughOperand, LoadLike, BitCastLike

LEMMA ThroughPhi ==
  ASSUME NEW before, NEW after, NEW inst, IsThrough(before, after, inst), inst.op = "phi"
  PROVE  before = after \ {inst.id}
BY DEF IsThrough, ReturnedInst, LoadLike, BitCastLike

LEMMA ThroughOther ==
  ASSUME NEW before, NEW after, NEW inst, IsThrough(before, after, inst),
         inst.op \in {"zext", "binary", "icmp", "jump", "branch", "switch"}
  PROVE  before = after
<1>1. inst.op \notin {"return", "call", "store", "phi"} \cup LoadLike \cup {"trunc", "sext"}
  BY DEF LoadLike, BitCastLike
<1>2. QED BY <1>1 DEF IsThrough, ReturnedInst

(* A step that gives w a value whose trail is covered if w may be returned *)
(* from behind it, and after which no other name has become one that may.  *)
LEMMA PathsAssign ==
  ASSUME ControlInv, ReturnedInv, PlaceInv, PathsInv, Running, UNCHANGED <<prog, facts>>,
         NEW w, NEW x, Assigns(w, x),
         FactsHere("returned")' \ {w} \subseteq FactsHere("returned"),
         w \in FactsHere("returned")' => IsCovered(x.trail)
  PROVE  PathsInv'
<1> DEFINE after == FactsHere("returned")'
<1>1. /\ exec'.fn = exec.fn /\ exec'.b = exec.b /\ exec'.k = exec.k + 1
      /\ DOMAIN exec'.env = DOMAIN exec.env \cup {w}
      /\ exec'.env[w].trail = x.trail \cup {<<exec.b, exec.k + 1, w>>}
      /\ \A v \in DOMAIN exec.env \ {w} :
           exec'.env[v].trail = exec.env[v].trail \cup {<<exec.b, exec.k + 1, v>>}
  BY DEF Assigns
<1>2. after = facts.returned[exec.fn][exec.b][exec.k + 1]
  BY <1>1 DEF FactsHere
<1>3. ASSUME NEW trail, IsCovered(trail), NEW v \in after
      PROVE  IsCovered(trail \cup {<<exec.b, exec.k + 1, v>>})
  BY <1>2, <1>3 DEF IsCovered
<1>4. \A trail : IsCovered(trail)' <=> \A t \in trail : t[3] \in facts.returned[exec.fn][t[1]][t[2]]
  BY <1>1 DEF IsCovered
<1> HIDE DEF after
<1>5. ASSUME NEW v \in DOMAIN exec'.env, v \in after
      PROVE  \A t \in exec'.env[v].trail : t[3] \in facts.returned[exec.fn][t[1]][t[2]]
  <2>1. CASE v = w
    <3>1. IsCovered(exec'.env[w].trail)
      BY <1>1, <1>3, <1>5, <2>1 DEF after
    <3>2. QED BY <2>1, <3>1 DEF IsCovered
  <2>2. CASE v # w
    <3>1. v \in DOMAIN exec.env /\ v \in FactsHere("returned")
      BY <1>1, <1>5, <2>2 DEF after
    <3>2. IsCovered(exec.env[v].trail)
      BY <3>1 DEF PathsInv
    <3>3. IsCovered(exec'.env[v].trail)
      BY <1>1, <1>3, <1>5, <2>2, <3>1, <3>2
    <3>4. QED BY <3>3 DEF IsCovered
  <2>3. QED BY <2>1, <2>2
<1>6. QED BY <1>1, <1>5 DEF PathsInv, IsCovered, after

LEMMA PathsValue ==
  ASSUME ControlInv, ReturnedInv, PlaceInv, PathsInv, Running, UNCHANGED <<prog, facts>>,
         Current.op \in LoadLike \cup {"trunc", "sext", "zext", "binary", "icmp", "call"},
         NEW x, IsResult(Current, x), Assigns(Current.id, x)
  PROVE  PathsInv'
<1> DEFINE before == FactsHere("returned")
           after  == FactsHere("returned")'
           inst   == Current
<1>1. IsThrough(before, after, inst)
  <2>1. after = facts.returned[exec.fn][exec.b][exec.k + 1]
    BY DEF Assigns, FactsHere
  <2>2. QED BY <2>1, ReturnedHere
<1> HIDE DEF before, after
<1>2. /\ after \ {inst.id} \subseteq before
      /\ inst.op \in LoadLike \cup {"trunc", "sext"} => (inst.id \in after => inst.a \in before)
      /\ inst.op = "call" /\ inst.f \in ErrFunctions => (inst.id \in after => inst.a \in before)
  <2>1. CASE inst.op = "call"
    BY <1>1, <2>1, ThroughCallInst DEF LoadLike, BitCastLike
  <2>2. CASE inst.op \in LoadLike \cup {"trunc", "sext"}
    <3>1. inst.op # "call"
      BY <2>2 DEF LoadLike, BitCastLike
    <3>2. QED BY <1>1, <2>2, <3>1, ThroughCast
  <2>3. CASE inst.op \in {"zext", "binary", "icmp"}
    <3>1. inst.op \notin LoadLike \cup {"trunc", "sext", "call"}
      BY <2>3 DEF LoadLike, BitCastLike
    <3>2. before = after
      BY <1>1, <2>3, ThroughOther
    <3>3. QED BY <3>1, <3>2
  <2>4. QED BY <2>1, <2>2, <2>3
<1>3. ASSUME inst.id \in after PROVE IsCovered(x.trail)
  <2>1. CASE x.trail = {}
    BY <2>1 DEF IsCovered
  <2>2. CASE inst.a \in before /\ \E y \in Operand(inst.a) : x.trail = y.trail
    BY <2>2, OperandCovered DEF before
  <2>3. QED BY <1>2, <1>3, <2>1, <2>2 DEF IsResult, IsFresh
<1>4. QED BY <1>2, <1>3, PathsAssign DEF before, after

LEMMA PathsStore ==
  ASSUME ControlInv, ReturnedInv, PlaceInv, PathsInv, Running, UNCHANGED <<prog, facts>>,
         Current.op = "store", NEW x, NEW y \in Operand(Current.a), x.trail = y.trail,
         Assigns(Current.b, x)
  PROVE  PathsInv'
<1> DEFINE before == FactsHere("returned")
           after  == FactsHere("returned")'
           inst   == Current
<1>1. IsThrough(before, after, inst)
  <2>1. after = facts.returned[exec.fn][exec.b][exec.k + 1]
    BY DEF Assigns, FactsHere
  <2>2. QED BY <2>1, ReturnedHere
<1> HIDE DEF before, after
<1>2. after \ {inst.b} \subseteq before /\ (inst.b \in after => inst.a \in before)
  BY <1>1, ThroughStoreInst
<1>3. ASSUME inst.b \in after PROVE IsCovered(x.trail)
  BY <1>2, <1>3, OperandCovered DEF before
<1>4. QED BY <1>2, <1>3, PathsAssign DEF before, after

(* What may be returned from behind the phis of a block could be from the  *)
(* beginning of the block, unless a phi between gave it its value.         *)
LEMMA ThroughPhis ==
  ASSUME NEW body, IsBody(body), NEW F, NEW b \in DOMAIN body, IsReturnedThrough(body, F, b),
         NEW n \in Nat, n < Len(body[b]), PhisOf(body, b) = 1..n,
         NEW v \in F[b][n + 1]
  PROVE  \A i \in 0..n : (\A j \in i + 1..n : body[b][j].id # v) => v \in F[b][i + 1]
<1> DEFINE S == {m \in Nat : m <= n =>
                   ((\A j \in n - m + 1..n : body[b][j].id # v) => v \in F[b][n - m + 1])}
<1>0. Len(body[b]) \in Nat
  BY BodyShape
<1>1. 0 \in S
  OBVIOUS
<1>2. ASSUME NEW m \in Nat, m \in S PROVE m + 1 \in S
  <2>1. SUFFICES ASSUME m + 1 <= n, \A j \in n - (m + 1) + 1..n : body[b][j].id # v
                 PROVE  v \in F[b][n - (m + 1) + 1]
    OBVIOUS
  <2> DEFINE k == n - m
  <2>2. n - (m + 1) + 1 = k /\ k \in 1..n /\ k \in 1..Len(body[b])
    BY <1>0, <2>1
  <2>3. \A j \in k + 1..n : j \in n - (m + 1) + 1..n
    BY <2>2
  <2>4. v \in F[b][k + 1]
    <3>1. \A j \in n - m + 1..n : body[b][j].id # v
      BY <2>1, <2>3
    <3>2. m <= n
      BY <2>1
    <3>3. QED BY <1>2, <3>1, <3>2
  <2>5. body[b][k].op = "phi" /\ body[b][k].id # v
    BY <2>1, <2>2 DEF PhisOf
  <2> HIDE DEF k
  <2>6. IsThrough(F[b][k], F[b][k + 1], body[b][k])
    BY <2>2 DEF IsReturnedThrough, IsThrough
  <2>7. F[b][k] = F[b][k + 1] \ {body[b][k].id}
    BY <2>5, <2>6, ThroughPhi
  <2>8. QED BY <2>2, <2>4, <2>5, <2>7
<1> HIDE DEF S
<1>3. Nat \subseteq S
  BY <1>1, <1>2, NaturalInduction
<1>4. ASSUME NEW i \in 0..n, \A j \in i + 1..n : body[b][j].id # v PROVE v \in F[b][i + 1]
  <2>1. n - i \in S /\ n - i \in Nat /\ n - i <= n /\ n - (n - i) + 1 = i + 1
    BY <1>3
  <2>2. QED BY <1>4, <2>1 DEF S
<1>5. QED BY <1>4

LEMMA PathsJump ==
  ASSUME ControlInv, ReturnedInv, PlaceInv, PathsInv, Running, UNCHANGED <<prog, facts>>,
         Current.op \in {"jump", "branch", "switch"}, exec.k = Len(Code[exec.b]),
         NEW b \in Successors(Current), Enters(b)
  PROVE  PathsInv'
<1> DEFINE R == facts.returned[exec.fn]
           Good(trail) == \A t \in trail : t[3] \in R[t[1]][t[2]]
<1>1. IsBody(Code) /\ exec.b \in DOMAIN Code
  BY PlaceShape DEF PlaceInv
<1>2. exec.b \in Predecessors(Code, b) /\ b \in DOMAIN Code
      /\ b \in Successors(Terminator(Code[exec.b]))
  <2>1. Current = Terminator(Code[exec.b])
    BY DEF Current, Terminator
  <2>2. QED BY <1>1, <2>1 DEF IsBody, Predecessors
<1>3. PICK n \in Nat : /\ n < Len(Code[b]) /\ PhisOf(Code, b) = 1..n
                       /\ Cardinality(PhisOf(Code, b)) = n
  BY <1>1, <1>2, PhisComeFirst
<1> DEFINE ids == {Code[b][i].id : i \in 1..n}
<1>4. /\ exec'.fn = exec.fn /\ exec'.b = b /\ exec'.k = n + 1
      /\ DOMAIN exec'.env = DOMAIN exec.env \cup ids
      /\ \A v \in DOMAIN exec.env \ ids :
           exec'.env[v].trail = (exec.env[v].trail \cup {<<b, 1, v>>}) \cup {<<b, n + 1, v>>}
      /\ \A v \in ids : \E i \in 1..n :
           /\ Code[b][i].id = v
           /\ \E y \in Operand(Code[b][i].in[exec.b]) :
                exec'.env[v].trail = y.trail \cup {<<b, n + 1, v>>}
  <2> DEFINE phis  == PhisOf(Code, b)
             k     == 1 + Cardinality(phis)
             given == {Code[b][i].id : i \in phis}
  <2>1. /\ exec'.fn = exec.fn /\ exec'.b = b /\ exec'.k = k
        /\ DOMAIN exec'.env = DOMAIN exec.env \cup given
        /\ \A v \in DOMAIN exec.env \ given :
             exec'.env[v].trail = (exec.env[v].trail \cup {<<b, 1, v>>}) \cup {<<b, k, v>>}
        /\ \A v \in given : \E i \in phis :
             /\ Code[b][i].id = v
             /\ \E y \in Operand(Code[b][i].in[exec.b]) :
                  exec'.env[v].trail = y.trail \cup {<<b, k, v>>}
    BY DEF Enters
  <2>2. phis = 1..n /\ k = n + 1 /\ given = ids
    BY <1>3
  <2> HIDE DEF phis, k, given, ids
  <2>3. QED BY <2>1, <2>2
<1>5. FactsHere("returned")' = R[b][n + 1]
  BY <1>4 DEF FactsHere
<1>6. /\ IncomingIsKnown(Code, R) /\ IsReturnedThrough(Code, R, b)
      /\ R[b][1] \subseteq R[exec.b][Len(Code[exec.b]) + 1]
      /\ FactsHere("returned") = R[exec.b][exec.k]
      /\ R[exec.b][exec.k] = R[exec.b][Len(Code[exec.b]) + 1]
  <2>1. R[exec.b][exec.k] = R[exec.b][exec.k + 1]
    <3>1. IsThrough(R[exec.b][exec.k], R[exec.b][exec.k + 1], Current)
      BY ReturnedHere
    <3>2. QED BY <3>1, ThroughOther
  <2>2. QED BY <1>1, <1>2, <2>1, ReturnedHere DEF IsReturnedBlock
<1>7. \A trail : IsCovered(trail) <=> Good(trail)
  BY DEF IsCovered
<1> HIDE DEF R
<1>8. Len(Code[b]) \in Nat /\ DOMAIN Code[b] = 1..Len(Code[b])
  BY <1>1, <1>2, BodyShape
<1>9. ASSUME NEW v \in DOMAIN exec'.env, v \in R[b][n + 1] PROVE Good(exec'.env[v].trail)
  <2>1. \A i \in 0..n : (\A j \in i + 1..n : Code[b][j].id # v) => v \in R[b][i + 1]
    BY <1>1, <1>2, <1>3, <1>6, <1>9, ThroughPhis
  <2>2. CASE v \notin ids
    <3>1. v \in R[b][1]
      <4>1. 0 \in 0..n /\ 0 + 1 = 1 /\ \A j \in 1..n : Code[b][j].id # v
        BY <2>2
      <4>2. QED BY <2>1, <4>1
    <3>2. v \in DOMAIN exec.env /\ v \in FactsHere("returned")
      BY <1>4, <1>6, <1>9, <2>2, <3>1
    <3>3. Good(exec.env[v].trail)
      BY <1>7, <3>2 DEF PathsInv
    <3>4. exec'.env[v].trail = (exec.env[v].trail \cup {<<b, 1, v>>}) \cup {<<b, n + 1, v>>}
      BY <1>4, <2>2, <3>2
    <3>5. QED BY <1>9, <3>1, <3>3, <3>4
  <2>3. CASE v \in ids
    <3>1. PICK i \in 1..n :
            /\ Code[b][i].id = v
            /\ \E y \in Operand(Code[b][i].in[exec.b]) :
                 exec'.env[v].trail = y.trail \cup {<<b, n + 1, v>>}
      BY <1>4, <2>3
    <3>2. PICK y \in Operand(Code[b][i].in[exec.b]) :
            exec'.env[v].trail = y.trail \cup {<<b, n + 1, v>>}
      BY <3>1
    <3>3. i \in 0..n /\ i \in 1..Len(Code[b]) /\ Code[b][i].op = "phi"
      BY <1>3, <1>8 DEF PhisOf
    <3>4. v \in R[b][i + 1]
      <4>1. ASSUME NEW j \in i + 1..n PROVE Code[b][j].id # v
        <5>1. j \in DOMAIN Code[b] /\ i \in DOMAIN Code[b] /\ j # i
          BY <1>3, <1>8, <3>3, <4>1
        <5>2. QED BY <1>1, <1>2, <3>1, <5>1 DEF IsBody
      <4>2. QED BY <2>1, <3>3, <4>1
    <3>5. Code[b][i].in[exec.b] \in FactsHere("returned")
      <4>1. exec.b \in DOMAIN Code[b][i].in
        BY <1>1, <1>2, <3>3, PhiShape
      <4>2. Code[b][i].in[exec.b] \in R[exec.b][Len(Code[exec.b]) + 1]
        BY <1>2, <1>6, <3>1, <3>3, <3>4, <4>1 DEF IncomingIsKnown, PhiIsFed
      <4>3. QED BY <1>6, <4>2
    <3>6. Good(y.trail)
      BY <1>7, <3>5, OperandCovered
    <3>7. QED BY <1>9, <3>2, <3>6
  <2>4. QED BY <2>2, <2>3
<1>10. QED BY <1>4, <1>5, <1>9 DEF PathsInv, IsCovered, R

LEMMA PathsNext ==
  ControlInv /\ ReturnedInv /\ PlaceInv /\ PathsInv /\ ExecNext => PathsInv'
<1> SUFFICES ASSUME ControlInv, ReturnedInv, PlaceInv, PathsInv, ExecNext
             PROVE  PathsInv'
  OBVIOUS
<1>1. CASE Analyse /\ UNCHANGED exec
  <2>1. ~ Running
    BY <1>1, AnalysisIsOver DEF PlaceInv
  <2>2. QED BY <1>1, <2>1 DEF PathsInv, Running
<1>2. CASE Run /\ UNCHANGED vars
  <2>1. UNCHANGED <<prog, facts>>
    BY <1>2 DEF vars
  <2>2. ASSUME NEW f \in DOMAIN prog.body, Enter(f) PROVE PathsInv'
    <3>1. exec'.env = <<>>
      BY <2>2 DEF Enter, Idle
    <3>2. DOMAIN exec'.env = {}
      BY <3>1
    <3>3. QED BY <3>2 DEF PathsInv
  <2>3. CASE exec' = Idle
    BY <2>3 DEF PathsInv, Running, Idle
  <2>4. QED
    BY <1>2, <2>1, <2>2, <2>3, RunCases, PathsValue, PathsStore, PathsJump
<1>3. QED BY <1>1, <1>2 DEF ExecNext

ReturnedValuesInv == ReturnedInv /\ PathsInv

LEMMA ReturnedValuesInitial == ExecInit => ReturnedValuesInv
<1>1. ExecInit => ~ Running
  BY DEF ExecInit, Running, Idle
<1>2. QED BY <1>1, ReturnedInitial DEF ExecInit, ReturnedValuesInv, PathsInv

LEMMA ReturnedValuesNext ==
  ExecutionInv /\ ReturnedValuesInv /\ [ExecNext]_allVars => ReturnedValuesInv'
<1> SUFFICES ASSUME ExecutionInv, ReturnedValuesInv, [ExecNext]_allVars
             PROVE  ReturnedValuesInv'
  OBVIOUS
<1>1. CASE ExecNext
  <2>1. PathsInv'
    BY <1>1, PathsNext DEF ExecutionInv, ReturnedValuesInv
  <2>2. CASE Analyse
    BY <2>1, <2>2, ReturnedNext DEF ExecutionInv, ReturnedValuesInv
  <2>3. CASE UNCHANGED vars
    <3>1. ReturnedInv'
      BY <2>3 DEF vars, ReturnedValuesInv, ReturnedInv, ReturnedSettled, IsReturnedDone, Body
    <3>2. QED BY <2>1, <3>1 DEF ReturnedValuesInv
  <2>4. QED BY <1>1, <2>2, <2>3 DEF ExecNext
<1>2. CASE UNCHANGED allVars
  <2>1. ReturnedInv'
    BY <1>2 DEF allVars, vars, ReturnedValuesInv, ReturnedInv, ReturnedSettled, IsReturnedDone,
                Body
  <2>2. PathsInv'
    BY <1>2 DEF allVars, vars, ReturnedValuesInv, PathsInv, IsCovered, Running, FactsHere
  <2>3. QED BY <2>1, <2>2 DEF ReturnedValuesInv
<1>3. QED BY <1>1, <1>2

(* Wherever the value that a function returns has been, and under whatever *)
(* name, phis, stores, casts and the error functions on its way included,  *)
(* ReturnedValuesPass said of that name that it may be returned from       *)
(* there: in every execution of every function of every program.           *)
THEOREM ReturnedValuesCovered == ExecSpec => []ReturnedValuesCoverPaths
<1>1. ASSUME ExecutionInv, ReturnedValuesInv PROVE ReturnedValuesCoverPaths
  <2>1. SUFFICES ASSUME Running, Current.op = "return", NEW x \in Operand(Current.a)
                 PROVE  IsCovered(x.trail)
    BY DEF ReturnedValuesCoverPaths, Returning, IsCovered
  <2>2. ControlInv /\ ReturnedInv /\ PlaceInv /\ PathsInv
    BY <1>1 DEF ExecutionInv, ReturnedValuesInv
  <2>3. CASE Current.a = ""
    <3>1. "" \notin DOMAIN exec.env
      BY <2>1, <2>2, PlaceShape
    <3>2. IsFresh(x)
      BY <2>1, <2>2, <2>3, <3>1, OperandValues
    <3>3. QED BY <3>2 DEF IsFresh, IsCovered
  <2>4. CASE Current.a # ""
    <3>1. \E after : IsThrough(FactsHere("returned"), after, Current)
      BY <2>1, <2>2, ReturnedHere
    <3>2. Current.a \in FactsHere("returned")
      BY <2>1, <2>4, <3>1, ThroughReturn
    <3>3. QED BY <2>1, <2>2, <3>2, OperandCovered
  <2>5. QED BY <2>3, <2>4
<1>2. ExecutionInv /\ ReturnedValuesInv => ReturnedValuesCoverPaths
  BY <1>1
<1>3. QED BY <1>2, ExecutionInitial, ExecutionNext, ReturnedValuesInitial, ReturnedValuesNext, PTL
          DEF ExecSpec

(* Another round of ReturnedValuesPass would change nothing either,        *)
(* although what a phi adds to the ends of other blocks is not counted as  *)
(* a change.                                                               *)
THEOREM ReturnedValuesStopAtFixpoint ==
  ExecSpec => [](pass = "done" => \A f \in DOMAIN prog.body : Settled(f, "returned"))
<1>1. ASSUME ExecutionInv, ReturnedValuesInv, pass = "done", NEW f \in DOMAIN prog.body
      PROVE  Settled(f, "returned")
  <2>1. IsBody(prog.body[f])
    BY <1>1, ProgramShape DEF ExecutionInv, ControlInv
  <2>2. /\ HasReturnedFacts(prog.body[f], facts.returned[f])
        /\ IncomingIsKnown(prog.body[f], facts.returned[f])
        /\ ReturnedSettled(f)
    BY <1>1 DEF ReturnedValuesInv, ReturnedInv, IsReturnedDone
  <2>3. \A b \in DOMAIN prog.body[f] :
          ReturnedStep(prog.body[f], facts.returned[f], b).facts = facts.returned[f]
    BY <2>1, <2>2, ReturnedSteps DEF ReturnedSettled
  <2>4. QED BY <2>3 DEF Settled
<1>2. ExecutionInv /\ ReturnedValuesInv =>
        (pass = "done" => \A f \in DOMAIN prog.body : Settled(f, "returned"))
  BY <1>1
<1>3. QED BY <1>2, ExecutionInitial, ExecutionNext, ReturnedValuesInitial, ReturnedValuesNext, PTL
          DEF ExecSpec

(***************************************************************************)
(* insufficient_checks_pass.cc 83-84: "We don't need the full powerset.    *)
(* Just one or two elements will suffice."                                 *)
(***************************************************************************)
(* What is neither bottom nor top has one sign or two. *)
LEMMA OneOrTwoSigns ==
  ASSUME NEW x \in SignLatticeElement \ {"bottom", "top"}
  PROVE  \E s, t \in Sign : Gamma[x] = {s, t}
  BY GammaRows DEF SignLatticeElement, Sign

(* IsSufficientlyChecked looks at the dead constraints one or two at a     *)
(* time.  Whenever any number of them together can hold, and leave no sign *)
(* of the specification alive, one or two of them do so already: the call  *)
(* is not reported.                                                        *)
THEOREM OneOrTwoSuffice ==
  ASSUME NEW constraints \in SUBSET SignLatticeElement,
         NEW specification \in SignLatticeElement \ {"bottom", "top"},
         NEW dead \in SUBSET {Complement(x) : x \in constraints},
         \E s \in Sign : \A d \in dead : s \in Gamma[d],
         \A s \in Gamma[specification] : \E d \in dead : s \notin Gamma[d]
  PROVE  IsSufficientlyChecked(constraints, specification)
  <1> DEFINE all == {Complement(x) : x \in constraints} \cup {"top"}
  <1>1. all \subseteq SignLatticeElement
    BY ComplementIsExact DEF SignLatticeElement
  <1>2. PICK s, t \in Sign : Gamma[specification] = {s, t}
    BY OneOrTwoSigns
  <1>3. PICK x, y \in dead : s \notin Gamma[x] /\ t \notin Gamma[y]
    BY <1>2
  <1>4. PICK live \in Sign : live \in Gamma[x] /\ live \in Gamma[y]
    OBVIOUS
  <1>5. x \in all /\ y \in all /\ x \in SignLatticeElement /\ y \in SignLatticeElement
    BY <1>1
  <1>6. Meet(x, y) \in SignLatticeElement /\ Gamma[Meet(x, y)] = Gamma[x] \cap Gamma[y]
    BY <1>5, MeetIsExact
  <1>7. Meet(x, y) # "bottom"
    BY <1>4, <1>6, OnlyBottomIsEmpty
  <1>8. IsLessThan(specification, Complement(Meet(x, y)))
    <2>1. Complement(Meet(x, y)) \in SignLatticeElement
          /\ Gamma[Complement(Meet(x, y))] = Sign \ Gamma[Meet(x, y)]
      BY <1>6, ComplementIsExact
    <2>2. Gamma[specification] \subseteq Gamma[Complement(Meet(x, y))]
      BY <1>2, <1>3, <1>6, <2>1
    <2> QED
      BY <2>1, <2>2, LessIsInclusion
  <1> HIDE DEF all
  <1>9. \E m \in {Meet(u, v) : u, v \in all} \ {"bottom"} : IsLessThan(specification, Complement(m))
    BY <1>5, <1>7, <1>8
  <1> QED
    BY <1>9 DEF IsSufficientlyChecked, all

(***************************************************************************)
(* Joins of any set of elements, and entries that may be absent.           *)
(***************************************************************************)
LEMMA EverySignSet ==
  \A S \in SUBSET Sign : \E x \in SignLatticeElement : Gamma[x] = S
<1> SUFFICES ASSUME NEW S \in SUBSET Sign
             PROVE  \E x \in SignLatticeElement : Gamma[x] = S
  OBVIOUS
<1>1. S \in {{}, {"neg"}, {"pos"}, {"zero"}, {"neg", "zero"}, {"pos", "zero"}, {"neg", "pos"}, Sign}
  <2>1. CASE "neg" \in S /\ "zero" \in S
    BY <2>1 DEF Sign
  <2>2. CASE "neg" \in S /\ "zero" \notin S
    BY <2>2 DEF Sign
  <2>3. CASE "neg" \notin S /\ "zero" \in S
    BY <2>3 DEF Sign
  <2>4. CASE "neg" \notin S /\ "zero" \notin S
    BY <2>4 DEF Sign
  <2>5. QED BY <2>1, <2>2, <2>3, <2>4
<1>2. QED BY <1>1, GammaRows DEF SignLatticeElement

(* The AND of any number of rows is the row of the union.                  *)
LEMMA JoinTableIsExact ==
  ASSUME NEW xs \in SUBSET SignLatticeElement
  PROVE  /\ JoinTable[xs] \in SignLatticeElement
         /\ Gamma[JoinTable[xs]] = UNION {Gamma[x] : x \in xs}
<1>1. PICK j \in SignLatticeElement : Gamma[j] = UNION {Gamma[x] : x \in xs}
  <2>1. UNION {Gamma[x] : x \in xs} \in SUBSET Sign
    BY GammaOfSigns
  <2>2. QED BY <2>1, EverySignSet
<1>2. ASSUME NEW x \in SignLatticeElement, NEW e \in SignLatticeElement
      PROVE  e \in JoinEncoding[x] <=> Gamma[x] \subseteq Gamma[e]
  BY LessIsInclusion DEF IsLessThan
<1>3. JoinEncoding[j] \subseteq SignLatticeElement
  BY JoinRows DEF SignLatticeElement
<1>4. {e \in SignLatticeElement : \A x \in xs : e \in JoinEncoding[x]} = JoinEncoding[j]
  BY <1>1, <1>2, <1>3
<1>5. JoinTable[xs] = j
  BY <1>4, DecodeJoinRow DEF JoinTable
<1>6. QED BY <1>1, <1>5

Known == SignLatticeElement \cup {Absent}

(* y has all signs of x, and an entry if x has.                            *)
Below(x, y) == x # Absent => y # Absent /\ Gamma[x] \subseteq Gamma[y]

LEMMA AbsentIsNoElement == Absent \notin SignLatticeElement
BY DEF Absent, SignLatticeElement

LEMMA BelowIsTransitive ==
  ASSUME NEW x, NEW y, NEW z, Below(x, y), Below(y, z)
  PROVE  Below(x, z)
BY DEF Below

(* An entry joined with others: it is above all of them, and the same as   *)
(* before when it was so already.                                          *)
JoinKnown(xs) == IF xs \subseteq {Absent} THEN Absent ELSE JoinTable[xs \ {Absent}]

LEMMA JoinKnownIsAbove ==
  ASSUME NEW xs \in SUBSET Known, NEW x \in xs
  PROVE  /\ JoinKnown(xs) \in Known /\ Below(x, JoinKnown(xs))
         /\ (\A y \in xs : Below(y, x)) => JoinKnown(xs) = x
<1>1. CASE xs \subseteq {Absent}
  BY <1>1 DEF JoinKnown, Below, Known
<1>2. CASE ~ (xs \subseteq {Absent})
  <2> DEFINE ys == xs \ {Absent}
  <2>1. ys \in SUBSET SignLatticeElement /\ ys # {} /\ JoinKnown(xs) = JoinTable[ys]
    BY <1>2 DEF Known, JoinKnown
  <2> HIDE DEF ys
  <2>2. JoinTable[ys] \in SignLatticeElement /\ Gamma[JoinTable[ys]] = UNION {Gamma[y] : y \in ys}
    BY <2>1, JoinTableIsExact
  <2>3. Below(x, JoinKnown(xs))
    BY <2>1, <2>2, AbsentIsNoElement DEF Below, ys
  <2>4. ASSUME \A y \in xs : Below(y, x) PROVE JoinKnown(xs) = x
    <3>1. PICK z \in ys : TRUE
      BY <2>1
    <3>2. x # Absent /\ x \in ys /\ x \in SignLatticeElement
      BY <2>4, <3>1, AbsentIsNoElement DEF Below, ys, Known
    <3>3. \A y \in ys : Gamma[y] \subseteq Gamma[x]
      BY <2>4, <3>2 DEF Below, ys
    <3>4. Gamma[JoinTable[ys]] = Gamma[x]
      BY <2>2, <3>2, <3>3
    <3>5. QED BY <2>1, <2>2, <3>2, <3>4, GammaIsInjective
  <2>5. QED BY <2>1, <2>2, <2>3, <2>4 DEF Known
<1>3. QED BY <1>1, <1>2

LEMMA RefineIsMeet ==
  ASSUME NEW x \in SignLatticeElement, NEW y \in Known
  PROVE  /\ Refine(x, y) \in SignLatticeElement
         /\ Gamma[Refine(x, y)] = IF y = Absent THEN Gamma[x] ELSE Gamma[x] \cap Gamma[y]
BY MeetIsExact DEF Refine, Known

(* The signs that an entry allows, and those that a join of entries does.  *)
SignsOf(x) == IF x = Absent THEN {} ELSE Gamma[x]

LEMMA JoinKnownIsExact ==
  ASSUME NEW xs \in SUBSET Known
  PROVE  SignsOf(JoinKnown(xs)) = UNION {SignsOf(x) : x \in xs}
<1>1. CASE xs \subseteq {Absent}
  BY <1>1 DEF JoinKnown, SignsOf
<1>2. CASE ~ (xs \subseteq {Absent})
  <2> DEFINE ys == xs \ {Absent}
  <2>1. ys \in SUBSET SignLatticeElement /\ JoinKnown(xs) = JoinTable[ys]
    BY <1>2 DEF Known, JoinKnown
  <2>2. UNION {SignsOf(x) : x \in xs} = UNION {Gamma[y] : y \in ys}
    BY DEF SignsOf
  <2> HIDE DEF ys
  <2>3. JoinTable[ys] \in SignLatticeElement /\ Gamma[JoinTable[ys]] = UNION {Gamma[y] : y \in ys}
    BY <2>1, JoinTableIsExact
  <2>4. SignsOf(JoinKnown(xs)) = Gamma[JoinTable[ys]]
    BY <2>1, <2>3, AbsentIsNoElement DEF SignsOf
  <2>5. QED BY <2>2, <2>3, <2>4
<1>3. QED BY <1>1, <1>2

(***************************************************************************)
(* Facts that map keys to elements of the lattice, or to nothing, as those *)
(* of ReturnConstraintsPass and of ReturnRangePass do.                     *)
(***************************************************************************)
HasKnownFacts(body, keys, F) ==
  /\ F = [b \in DOMAIN body |-> F[b]]
  /\ \A b \in DOMAIN body :
       /\ F[b] = [k \in 1..Len(body[b]) + 1 |-> F[b][k]]
       /\ \A k \in 1..Len(body[b]) + 1 : F[b][k] \in [keys -> Known]

LEMMA SetKnownPoint ==
  ASSUME NEW body, IsBody(body), NEW keys, NEW F, HasKnownFacts(body, keys, F),
         NEW b \in DOMAIN body, NEW k \in 1..Len(body[b]) + 1,
         NEW fact \in [keys -> Known]
  PROVE  /\ HasKnownFacts(body, keys, SetAt(F, b, k, fact))
         /\ SetAt(F, b, k, fact)[b][k] = fact
         /\ \A c \in DOMAIN body : c # b => SetAt(F, b, k, fact)[c] = F[c]
         /\ \A j \in 1..Len(body[b]) + 1 : j # k => SetAt(F, b, k, fact)[b][j] = F[b][j]
         /\ fact = F[b][k] => SetAt(F, b, k, fact) = F
BY DEF HasKnownFacts, SetAt

LEMMA JoinMapsEntries ==
  ASSUME NEW keys, NEW fact \in [keys -> Known], NEW others \in SUBSET [keys -> Known]
  PROVE  JoinMaps(fact, others) =
           [f \in keys |-> JoinKnown({fact[f]} \cup {x[f] : x \in others})]
<1> DEFINE all(f) == {fact[f]} \cup {x[f] : x \in others}
<1>1. \A S : S \ {Absent} = {} <=> S \subseteq {Absent}
  OBVIOUS
<1>2. \A f \in keys : JoinKnown(all(f)) =
        LET known == all(f) \ {Absent} IN IF known = {} THEN Absent ELSE JoinTable[known]
  BY <1>1 DEF JoinKnown
<1>3. DOMAIN fact = keys
  OBVIOUS
<1> HIDE DEF all
<1>4. JoinMaps(fact, others) =
        [f \in keys |-> LET known == all(f) \ {Absent}
                        IN IF known = {} THEN Absent ELSE JoinTable[known]]
  BY <1>3 DEF JoinMaps, all
<1>5. JoinMaps(fact, others) = [f \in keys |-> JoinKnown(all(f))]
  BY <1>2, <1>4
<1>6. QED BY <1>5 DEF all

(* A join allows what one of the facts allows.                             *)
LEMMA JoinMapsSigns ==
  ASSUME NEW keys, NEW fact \in [keys -> Known], NEW others \in SUBSET [keys -> Known]
  PROVE  \A f \in keys : \A s \in SignsOf(JoinMaps(fact, others)[f]) :
           s \in SignsOf(fact[f]) \/ \E x \in others : s \in SignsOf(x[f])
<1> SUFFICES ASSUME NEW f \in keys, NEW s \in SignsOf(JoinMaps(fact, others)[f])
             PROVE  s \in SignsOf(fact[f]) \/ \E x \in others : s \in SignsOf(x[f])
  OBVIOUS
<1> DEFINE all == {fact[f]} \cup {x[f] : x \in others}
<1>1. JoinMaps(fact, others)[f] = JoinKnown(all)
  BY JoinMapsEntries
<1>2. all \in SUBSET Known
  OBVIOUS
<1>3. s \in UNION {SignsOf(x) : x \in all}
  <2> HIDE DEF all
  <2>1. QED BY <1>1, <1>2, JoinKnownIsExact
<1>4. QED BY <1>3

LEMMA JoinMapsIsAbove ==
  ASSUME NEW keys, NEW fact \in [keys -> Known], NEW others \in SUBSET [keys -> Known]
  PROVE  /\ JoinMaps(fact, others) \in [keys -> Known]
         /\ \A f \in keys : Below(fact[f], JoinMaps(fact, others)[f])
         /\ \A x \in others : \A f \in keys : Below(x[f], JoinMaps(fact, others)[f])
         /\ (\A x \in others : \A f \in keys : Below(x[f], fact[f]))
              => JoinMaps(fact, others) = fact
<1> DEFINE all(f) == {fact[f]} \cup {x[f] : x \in others}
           joined == JoinMaps(fact, others)
<1>1. joined = [f \in keys |-> JoinKnown(all(f))]
  BY JoinMapsEntries
<1> HIDE DEF joined
<1>2. ASSUME NEW f \in keys
      PROVE  /\ all(f) \in SUBSET Known /\ fact[f] \in all(f)
             /\ \A x \in others : x[f] \in all(f)
  OBVIOUS
<1>3. ASSUME NEW f \in keys
      PROVE  /\ joined[f] \in Known /\ Below(fact[f], joined[f])
             /\ \A x \in others : Below(x[f], joined[f])
             /\ (\A y \in all(f) : Below(y, fact[f])) => joined[f] = fact[f]
  <2>1. joined[f] = JoinKnown(all(f))
    BY <1>1
  <2> HIDE DEF all
  <2>2. QED BY <1>2, <2>1, JoinKnownIsAbove
<1>4. joined \in [keys -> Known]
  BY <1>1, <1>3
<1>5. ASSUME \A x \in others : \A f \in keys : Below(x[f], fact[f])
      PROVE  joined = fact
  <2>1. ASSUME NEW f \in keys PROVE joined[f] = fact[f]
    <3>1. \A y \in all(f) : Below(y, fact[f])
      BY <1>5 DEF Below
    <3>2. QED BY <1>3, <3>1
  <2>2. QED BY <1>4, <2>1
<1>6. QED BY <1>3, <1>4, <1>5 DEF joined

AreOutcomes(body, outcomes) ==
  \A o \in outcomes : o[1] \in DOMAIN body /\ o[2] \in SignLatticeElement

(* What each outcome leaves of the tested keys is in the entry of the      *)
(* block it leads to.                                                      *)
ArePassedOn(outcomes, before, tested, F) ==
  \A o \in outcomes : \A f \in tested : Below(Refine(o[2], before[f]), F[o[1]][1][f])

(* The signs that the outcomes that lead to block c leave.                 *)
AllowedBy(outcomes, c) == UNION {Gamma[o[2]] : o \in {q \in outcomes : q[1] = c}}

(* What PassOn writes: entries above the old ones and above what each      *)
(* outcome leaves, with no sign but from these, and nothing when they are  *)
(* above already.                                                          *)
LEMMA PassOnIsAbove ==
  ASSUME NEW body, IsBody(body), NEW keys, NEW F, HasKnownFacts(body, keys, F),
         NEW outcomes, AreOutcomes(body, outcomes),
         NEW before \in [keys -> Known], NEW tested \in SUBSET keys
  PROVE  LET G == PassOn(F, outcomes, before, tested)
         IN /\ HasKnownFacts(body, keys, G)
            /\ \A c \in DOMAIN body : \A k \in 1..Len(body[c]) + 1 : k # 1 => G[c][k] = F[c][k]
            /\ \A c \in DOMAIN body : \A f \in keys : Below(F[c][1][f], G[c][1][f])
            /\ ArePassedOn(outcomes, before, tested, G)
            /\ ArePassedOn(outcomes, before, tested, F) => G = F
            /\ \A c \in DOMAIN body : \A f \in keys : \A s \in SignsOf(G[c][1][f]) :
                 s \in SignsOf(F[c][1][f]) \/ (f \in tested /\ s \in AllowedBy(outcomes, c))
<1>1. ASSUME NEW c \in DOMAIN body
      PROVE  1 \in 1..Len(body[c]) + 1 /\ F[c][1] \in [keys -> Known]
             /\ F[c] = [k \in 1..Len(body[c]) + 1 |-> F[c][k]]
  <2>1. Len(body[c]) \in Nat
    BY BodyShape
  <2>2. 1 \in 1..Len(body[c]) + 1
    BY <2>1
  <2>3. QED BY <2>2 DEF HasKnownFacts
<1> DEFINE G == PassOn(F, outcomes, before, tested)
           Left(c, f) == {Refine(o[2], before[f]) : o \in {p \in outcomes : p[1] = c}}
           Entry(c) == [f \in keys |-> IF f \in tested /\ Left(c, f) # {}
                                       THEN JoinTable[({F[c][1][f]} \cup Left(c, f)) \ {Absent}]
                                       ELSE F[c][1][f]]
<1>2. ASSUME NEW c, NEW f \in keys
      PROVE  /\ Left(c, f) \in SUBSET SignLatticeElement
             /\ \A x \in Left(c, f) : SignsOf(x) \subseteq AllowedBy(outcomes, c)
  <2>1. before[f] \in Known
    OBVIOUS
  <2>2. ASSUME NEW o \in outcomes
        PROVE  /\ Refine(o[2], before[f]) \in SignLatticeElement
               /\ Gamma[Refine(o[2], before[f])] \subseteq Gamma[o[2]]
    <3> PICK x \in SignLatticeElement : x = o[2]
      BY DEF AreOutcomes
    <3> PICK y \in Known : y = before[f]
      BY <2>1
    <3>1. /\ Refine(x, y) \in SignLatticeElement
          /\ Gamma[Refine(x, y)] = IF y = Absent THEN Gamma[x] ELSE Gamma[x] \cap Gamma[y]
      BY RefineIsMeet
    <3>2. Gamma[Refine(x, y)] \subseteq Gamma[x]
      BY <3>1
    <3>3. QED BY <3>1, <3>2
  <2>3. ASSUME NEW x \in Left(c, f) PROVE SignsOf(x) \subseteq AllowedBy(outcomes, c)
    <3>1. PICK o \in outcomes : o[1] = c /\ x = Refine(o[2], before[f])
      OBVIOUS
    <3>2. SignsOf(x) \subseteq Gamma[o[2]]
      BY <2>2, <3>1, AbsentIsNoElement DEF SignsOf
    <3>3. QED BY <3>1, <3>2 DEF AllowedBy
  <2>4. Left(c, f) \in SUBSET SignLatticeElement
    BY <2>2
  <2>5. QED BY <2>3, <2>4
<1> HIDE DEF Left
<1>3. G = [c \in DOMAIN body |-> [F[c] EXCEPT ![1] = Entry(c)]]
  <2>1. DOMAIN F = DOMAIN body
    BY DEF HasKnownFacts
  <2>2. ASSUME NEW c \in DOMAIN body
        PROVE  [F[c] EXCEPT ![1] =
                 [f \in DOMAIN F[c][1] |->
                   IF f \in tested /\ Left(c, f) # {}
                   THEN JoinTable[({F[c][1][f]} \cup Left(c, f)) \ {Absent}] ELSE F[c][1][f]]]
               = [F[c] EXCEPT ![1] = Entry(c)]
    BY <1>1
  <2> HIDE DEF Entry
  <2>3. G = [c \in DOMAIN F |-> [F[c] EXCEPT ![1] =
                 [f \in DOMAIN F[c][1] |->
                   IF f \in tested /\ Left(c, f) # {}
                   THEN JoinTable[({F[c][1][f]} \cup Left(c, f)) \ {Absent}] ELSE F[c][1][f]]]]
    BY DEF PassOn, Left
  <2>4. QED BY <2>1, <2>2, <2>3
<1> HIDE DEF G
<1>4. ASSUME NEW c \in DOMAIN body, NEW f \in keys
      PROVE  /\ Entry(c)[f] \in Known /\ Below(F[c][1][f], Entry(c)[f])
             /\ f \in tested => \A x \in Left(c, f) : Below(x, Entry(c)[f])
             /\ (f \in tested => \A x \in Left(c, f) : Below(x, F[c][1][f]))
                  => Entry(c)[f] = F[c][1][f]
             /\ \A s \in SignsOf(Entry(c)[f]) :
                  s \in SignsOf(F[c][1][f]) \/ (f \in tested /\ s \in AllowedBy(outcomes, c))
  <2> DEFINE old == F[c][1][f]
             all == {old} \cup Left(c, f)
  <2>1. old \in Known
    BY <1>1
  <2>2. CASE f \in tested /\ Left(c, f) # {}
    <3>1. ~ (all \subseteq {Absent})
      BY <1>2, <2>2, AbsentIsNoElement
    <3>2. Entry(c)[f] = JoinKnown(all)
      BY <2>2, <3>1 DEF JoinKnown
    <3>3. all \in SUBSET Known /\ old \in all /\ Left(c, f) \subseteq all
      BY <1>2, <2>1 DEF Known
    <3>4. Below(old, old)
      BY DEF Below
    <3> HIDE DEF Entry
    <3>5. ASSUME NEW s \in SignsOf(Entry(c)[f])
          PROVE  s \in SignsOf(old) \/ s \in AllowedBy(outcomes, c)
      <4>1. SignsOf(Entry(c)[f]) = UNION {SignsOf(x) : x \in all}
        BY <3>2, <3>3, JoinKnownIsExact
      <4>2. PICK x \in all : s \in SignsOf(x)
        BY <4>1
      <4>3. QED BY <1>2, <4>2
    <3>6. /\ Entry(c)[f] \in Known /\ Below(old, Entry(c)[f])
          /\ \A x \in all : Below(x, Entry(c)[f])
          /\ (\A x \in all : Below(x, old)) => Entry(c)[f] = old
      BY <3>2, <3>3, JoinKnownIsAbove
    <3>7. QED BY <2>2, <3>4, <3>5, <3>6
  <2>3. CASE ~ (f \in tested /\ Left(c, f) # {})
    <3>1. Entry(c)[f] = old
      BY <2>3
    <3>2. QED BY <2>1, <2>3, <3>1 DEF Below
  <2>4. QED BY <2>2, <2>3
<1>5. \A c \in DOMAIN body : Entry(c) \in [keys -> Known]
  BY <1>4
<1>6. ASSUME NEW c \in DOMAIN body
      PROVE  /\ G[c] = [k \in 1..Len(body[c]) + 1 |-> G[c][k]]
             /\ G[c][1] = Entry(c)
             /\ \A k \in 1..Len(body[c]) + 1 : k # 1 => G[c][k] = F[c][k]
  <2> HIDE DEF Entry
  <2>1. G[c] = [F[c] EXCEPT ![1] = Entry(c)]
    BY <1>3
  <2>2. QED BY <1>1, <2>1
<1> HIDE DEF Entry
<1>7. HasKnownFacts(body, keys, G)
  <2>1. G = [c \in DOMAIN body |-> G[c]]
    BY <1>3
  <2>2. ASSUME NEW c \in DOMAIN body, NEW k \in 1..Len(body[c]) + 1 PROVE G[c][k] \in [keys -> Known]
    <3>1. CASE k = 1
      BY <1>5, <1>6, <3>1
    <3>2. CASE k # 1
      BY <1>6, <3>2 DEF HasKnownFacts
    <3>3. QED BY <3>1, <3>2
  <2>3. QED BY <1>6, <2>1, <2>2 DEF HasKnownFacts
<1>8. ASSUME ArePassedOn(outcomes, before, tested, F)
      PROVE  G = F
  <2>1. ASSUME NEW c \in DOMAIN body PROVE G[c] = F[c]
    <3>0. ASSUME NEW f \in tested, NEW x \in Left(c, f) PROVE Below(x, F[c][1][f])
      BY <1>8 DEF ArePassedOn, Left
    <3>1. \A f \in keys : Entry(c)[f] = F[c][1][f]
      BY <1>4, <3>0
    <3>2. Entry(c) = F[c][1]
      <4> DEFINE new == Entry(c)
                 old == F[c][1]
      <4>1. new \in [keys -> Known] /\ old \in [keys -> Known] /\ \A f \in keys : new[f] = old[f]
        BY <1>1, <1>5, <3>1
      <4> HIDE DEF new, old
      <4>2. new = old
        BY <4>1
      <4>3. QED BY <4>2 DEF new, old
    <3>3. \A k \in 1..Len(body[c]) + 1 : G[c][k] = F[c][k]
      BY <1>6, <3>2
    <3>4. QED BY <1>1, <1>6, <3>3
  <2>2. QED BY <1>7, <2>1 DEF HasKnownFacts
<1>9. ArePassedOn(outcomes, before, tested, G)
  <2> SUFFICES ASSUME NEW o \in outcomes, NEW f \in tested
               PROVE  Below(Refine(o[2], before[f]), G[o[1]][1][f])
    BY DEF ArePassedOn
  <2>1. o[1] \in DOMAIN body /\ Refine(o[2], before[f]) \in Left(o[1], f)
    BY DEF Left, AreOutcomes
  <2>2. QED BY <1>4, <1>6, <2>1
<1>10. ASSUME NEW c \in DOMAIN body, NEW f \in keys, NEW s \in SignsOf(G[c][1][f])
       PROVE  s \in SignsOf(F[c][1][f]) \/ (f \in tested /\ s \in AllowedBy(outcomes, c))
  BY <1>4, <1>6
<1>11. \A c \in DOMAIN body : \A f \in keys : Below(F[c][1][f], G[c][1][f])
  BY <1>4, <1>6
<1>12. QED BY <1>6, <1>7, <1>8, <1>9, <1>10, <1>11 DEF G

(***************************************************************************)
(* The tests at the end of a block.                                        *)
(***************************************************************************)
TestedBy(body, P, inst) ==
  IF inst.op = "branch" /\ Definition(body, inst.a).op = "icmp"
  THEN TestedCallees(body, P, TestedValue(body, Definition(body, inst.a)))
  ELSE IF inst.op = "switch" /\ inst.cases # <<>> THEN TestedCallees(body, P, inst.a)
  ELSE {}

OutcomesOf(body, inst) ==
  IF inst.op = "branch" /\ Definition(body, inst.a).op = "icmp" THEN BranchOutcomes(body, inst)
  ELSE IF inst.op = "switch" THEN CaseOutcomes(inst)
  ELSE {}

ConstraintAfter(body, P, before, inst) ==
  IF inst.op = "call" THEN [before EXCEPT ![inst.f] = "top"]
  ELSE [f \in DOMAIN before |-> IF f \in TestedBy(body, P, inst) THEN "bottom" ELSE before[f]]

(* What the tables say is an element of the lattice.                       *)
LEMMA AbstractIntegerType ==
  \A c \in DOMAIN IntegerConstant : AbstractInteger(c) \in {"0", ">0", "<0"}
<1>1. /\ DOMAIN IntegerConstant = {"-1", "0", "1"}
      /\ IntegerConstant["-1"] = -1 /\ IntegerConstant["0"] = 0 /\ IntegerConstant["1"] = 1
  BY DEF IntegerConstant
<1>2. QED BY <1>1 DEF AbstractInteger

(* A true i1 is -1 to a pass that takes it for signed, and itself in no    *)
(* other way an integer here.                                              *)
LEMMA SignedConstants ==
  /\ \A c \in ConstantInt : Signed(c) \in DOMAIN IntegerConstant
  /\ \A c \in DOMAIN IntegerConstant : c # "true" /\ c # "null" /\ Signed(c) = c /\ c \in ConstantInt
<1>1. DOMAIN IntegerConstant = {"-1", "0", "1"}
  BY DEF IntegerConstant
<1>2. QED BY <1>1 DEF Signed, ConstantInt

LEMMA ComplementRows ==
  \A c \in {"0", ">0", "<0"} : \A p \in Predicate :
    /\ PredicateComplement[c][p][1] \in SignLatticeElement
    /\ PredicateComplement[c][p][2] \in SignLatticeElement
<1>1. ASSUME NEW c \in {"0", ">0", "<0"}, NEW p \in Predicate
      PROVE  /\ PredicateComplement[c][p][1] \in SignLatticeElement
             /\ PredicateComplement[c][p][2] \in SignLatticeElement
  <2>1. CASE c = "0"
    BY <2>1 DEF PredicateComplement, Predicate, SignLatticeElement
  <2>2. CASE c = ">0"
    BY <2>2 DEF PredicateComplement, Predicate, SignLatticeElement
  <2>3. CASE c = "<0"
    BY <2>3 DEF PredicateComplement, Predicate, SignLatticeElement
  <2>4. QED BY <2>1, <2>2, <2>3
<1>2. QED BY <1>1

LEMMA UnsignedRows ==
  \A x \in SignLatticeElement : UnsignedReplacement[x] \in SignLatticeElement
BY DEF UnsignedReplacement, SignLatticeElement

LEMMA AbstractICmpType ==
  ASSUME NEW inst, inst.p \in Predicate
  PROVE  /\ AbstractICmp(inst)[1] \in SignLatticeElement
         /\ AbstractICmp(inst)[2] \in SignLatticeElement
<1> DEFINE integer == IF inst.b \in ConstantInt THEN inst.b ELSE inst.a
           first   == IF inst.b \in ConstantInt THEN inst.p ELSE SwappedPredicate[inst.p]
           nulls   == inst.b = "null" \/ inst.a = "null"
           p       == IF inst.b # "null" /\ inst.a = "null" THEN SwappedPredicate[first] ELSE first
           c       == IF nulls THEN "0" ELSE AbstractInteger(Signed(integer))
           row     == PredicateComplement[c][p]
<1>1. \A q \in Predicate : SwappedPredicate[q] \in Predicate
  BY DEF SwappedPredicate, Predicate
<1>2. first \in Predicate
  BY <1>1
<1>3. p \in Predicate
  BY <1>1, <1>2
<1>4. AbstractICmp(inst) =
        IF ~ nulls /\ integer \notin ConstantInt THEN <<"top", "top">>
        ELSE IF inst.u THEN <<UnsignedReplacement[row[1]], UnsignedReplacement[row[2]]>>
        ELSE row
  BY DEF AbstractICmp
<1>5. CASE ~ nulls /\ integer \notin ConstantInt
  <2> HIDE DEF row, nulls, integer
  <2>1. AbstractICmp(inst) = <<"top", "top">>
    BY <1>4, <1>5
  <2>2. QED BY <2>1 DEF SignLatticeElement
<1>6. CASE nulls \/ integer \in ConstantInt
  <2>1. c \in {"0", ">0", "<0"}
    <3>1. CASE nulls
      BY <3>1
    <3>2. CASE ~ nulls
      BY <1>6, <3>2, AbstractIntegerType, SignedConstants
    <3>3. QED BY <3>1, <3>2
  <2> HIDE DEF integer, first, nulls, p, c
  <2>2. row[1] \in SignLatticeElement /\ row[2] \in SignLatticeElement
    BY <1>3, <2>1, ComplementRows
  <2> HIDE DEF row
  <2>3. QED BY <1>4, <1>6, <2>2, UnsignedRows
<1>7. QED BY <1>5, <1>6

LEMMA DefinedInstruction ==
  ASSUME NEW body, NEW v, Definition(body, v).op # "none"
  PROVE  Definition(body, v) \in InstructionsOf(body) /\ Definition(body, v).id = v
<1>1. \E i \in InstructionsOf(body) : i.id = v
  BY DEF Definition
<1>2. QED BY <1>1 DEF Definition

LEMMA TestedAreCallees ==
  ASSUME NEW body, NEW P, NEW inst
  PROVE  TestedBy(body, P, inst) \subseteq Callees(body)
<1>1. ASSUME NEW v PROVE TestedCallees(body, P, v) \subseteq Callees(body)
  <2>1. ASSUME NEW s, Definition(body, s).op = "call" PROVE Definition(body, s).f \in Callees(body)
    BY <2>1, DefinedInstruction DEF Callees
  <2>2. QED BY <2>1 DEF TestedCallees
<1>2. QED BY <1>1 DEF TestedBy

IsTypedBody(body) == IsBody(body) /\ \A inst \in InstructionsOf(body) : IsTyped(inst)

LEMMA OutcomesAreTyped ==
  ASSUME NEW body, IsTypedBody(body), NEW b \in DOMAIN body, NEW k \in 1..Len(body[b]),
         NEW o \in OutcomesOf(body, body[b][k])
  PROVE  o[1] \in DOMAIN body /\ o[2] \in SignLatticeElement
<1> DEFINE inst == body[b][k]
           test == Definition(body, inst.a)
<1>1. inst \in InstructionsOf(body) /\ IsTyped(inst)
  BY BodyShape DEF IsTypedBody
<1>2. inst.op \in {"branch", "switch"} => k = Len(body[b])
  <2>1. k \in DOMAIN body[b]
    BY BodyShape DEF IsTypedBody
  <2>2. QED BY <2>1 DEF IsTypedBody, IsBody, IsBlock
<1>3. Successors(Terminator(body[b])) \subseteq DOMAIN body
  BY DEF IsTypedBody, IsBody
<1>4. inst.op \in {"branch", "switch"} => Successors(inst) \subseteq DOMAIN body
  BY <1>2, <1>3 DEF Terminator
<1>5. CASE inst.op = "branch" /\ test.op = "icmp"
  <2>1. test \in InstructionsOf(body)
    BY <1>5, DefinedInstruction
  <2>2. test.p \in Predicate
    BY <1>5, <2>1 DEF IsTypedBody, IsTyped
  <2>3. o \in BranchOutcomes(body, inst)
    BY <1>5 DEF OutcomesOf
  <2>4. o = <<inst.t, AbstractICmp(test)[1]>> \/ o = <<inst.e, AbstractICmp(test)[2]>>
    BY <2>3 DEF BranchOutcomes
  <2>5. inst.t \in DOMAIN body /\ inst.e \in DOMAIN body
    BY <1>4, <1>5 DEF Successors
  <2>6. QED BY <2>2, <2>4, <2>5, AbstractICmpType
<1>6. CASE inst.op = "switch"
  <2>1. o \in CaseOutcomes(inst)
    BY <1>6 DEF OutcomesOf
  <2>2. PICK i \in DOMAIN inst.cases : o = <<inst.cases[i].to, AbstractInteger(inst.cases[i].value)>>
    BY <2>1 DEF CaseOutcomes
  <2>3. inst.cases[i].value \in DOMAIN IntegerConstant
    BY <1>1, <1>6 DEF IsTyped
  <2>4. inst.cases[i].to \in DOMAIN body
    BY <1>4, <1>6 DEF Successors
  <2>5. AbstractInteger(inst.cases[i].value) \in SignLatticeElement
    BY <2>3, AbstractIntegerType DEF SignLatticeElement
  <2>6. QED BY <2>2, <2>4, <2>5
<1>7. QED BY <1>5, <1>6 DEF OutcomesOf

(***************************************************************************)
(* One instruction: the fact after it, and for a test the entries of the   *)
(* successors.                                                             *)
(***************************************************************************)
HasConstraintFacts(body, F) == HasKnownFacts(body, Callees(body), F)

LEMMA ConstraintAfterType ==
  ASSUME NEW body, NEW P, NEW inst \in InstructionsOf(body), NEW before \in [Callees(body) -> Known]
  PROVE  ConstraintAfter(body, P, before, inst) \in [Callees(body) -> Known]
<1>1. "top" \in Known /\ "bottom" \in Known
  BY DEF Known, SignLatticeElement
<1>2. QED BY <1>1 DEF ConstraintAfter

Constrained(body, P, fs, b, k) ==
  PassOn(SetAt(fs, b, k + 1, ConstraintAfter(body, P, fs[b][k], body[b][k])),
         OutcomesOf(body, body[b][k]), fs[b][k], TestedBy(body, P, body[b][k]))

LEMMA PassOnNothing ==
  ASSUME NEW body, IsBody(body), NEW keys, NEW F, HasKnownFacts(body, keys, F),
         NEW outcomes, NEW before
  PROVE  PassOn(F, outcomes, before, {}) = F
<1>1. ASSUME NEW c \in DOMAIN body
      PROVE  [F[c] EXCEPT ![1] = [f \in DOMAIN F[c][1] |-> F[c][1][f]]] = F[c]
  <2>0. Len(body[c]) \in Nat
    BY BodyShape
  <2>1. 1 \in 1..Len(body[c]) + 1
    BY <2>0
  <2>2. F[c][1] = [f \in DOMAIN F[c][1] |-> F[c][1][f]]
    BY <2>1 DEF HasKnownFacts
  <2>3. QED BY <2>2 DEF HasKnownFacts
<1>2. PassOn(F, outcomes, before, {})
      = [c \in DOMAIN F |-> [F[c] EXCEPT ![1] = [f \in DOMAIN F[c][1] |-> F[c][1][f]]]]
  BY DEF PassOn
<1>3. QED BY <1>1, <1>2 DEF HasKnownFacts

LEMMA ConstrainsInst ==
  ASSUME NEW body, IsTypedBody(body), NEW P, NEW F, HasConstraintFacts(body, F),
         NEW b \in DOMAIN body, NEW k \in 1..Len(body[b])
  PROVE  ConstrainInst(body, P, F, b, k) = Constrained(body, P, F, b, k)
<1> DEFINE inst   == body[b][k]
           before == F[b][k]
           after  == ConstraintAfter(body, P, before, inst)
           G      == SetAt(F, b, k + 1, after)
           tested == TestedBy(body, P, inst)
           killed == Kill(F, b, k, tested)
<1>1. /\ inst \in InstructionsOf(body) /\ IsBody(body)
      /\ k \in 1..Len(body[b]) + 1 /\ k + 1 \in 1..Len(body[b]) + 1
  <2>1. inst \in InstructionsOf(body) /\ IsBody(body) /\ Len(body[b]) \in Nat
    BY BodyShape DEF IsTypedBody
  <2>2. QED BY <2>1
<1>2. before \in [Callees(body) -> Known] /\ F[b][k + 1] \in [Callees(body) -> Known]
  BY <1>1 DEF HasConstraintFacts, HasKnownFacts
<1>3. after \in [Callees(body) -> Known]
  BY <1>1, <1>2, ConstraintAfterType
<1>4. HasKnownFacts(body, Callees(body), G)
  BY <1>1, <1>3, SetKnownPoint DEF HasConstraintFacts
<1> DEFINE Same(f) == IF f \in tested THEN "bottom" ELSE before[f]
<1>5. ASSUME inst.op # "call" PROVE killed = G
  <2>1. after = [f \in Callees(body) |-> Same(f)]
    BY <1>2, <1>5 DEF ConstraintAfter
  <2>2. [f \in DOMAIN F[b][k + 1] |-> Same(f)] = [f \in Callees(body) |-> Same(f)]
    BY <1>2
  <2>3. killed = [F EXCEPT ![b][k + 1] = [f \in DOMAIN F[b][k + 1] |-> Same(f)]]
    BY DEF Kill
  <2> HIDE DEF Same, after
  <2>4. QED BY <2>1, <2>2, <2>3 DEF SetAt
<1>6. ASSUME inst.op \notin {"branch", "switch"}
      PROVE  Constrained(body, P, F, b, k) = G
  <2>1. tested = {}
    BY <1>6 DEF TestedBy
  <2> HIDE DEF tested, G
  <2>2. QED BY <1>1, <1>4, <2>1, PassOnNothing DEF Constrained, G, tested
<1>7. CASE inst.op = "call"
  <2>1. ConstrainInst(body, P, F, b, k) = [[F EXCEPT ![b][k + 1] = before] EXCEPT ![b][k + 1][inst.f] = "top"]
    BY <1>7 DEF ConstrainInst
  <2>2. G = [F EXCEPT ![b][k + 1] = [before EXCEPT ![inst.f] = "top"]]
    BY <1>7 DEF SetAt, ConstraintAfter
  <2> DEFINE H == SetAt(F, b, k + 1, before)
  <2>3. H[b][k + 1] = before
    BY <1>1, <1>2, SetKnownPoint DEF HasConstraintFacts
  <2>4. [H EXCEPT ![b][k + 1][inst.f] = "top"] = [H EXCEPT ![b][k + 1] = [before EXCEPT ![inst.f] = "top"]]
    BY <2>3
  <2>5. ASSUME NEW x, NEW y
        PROVE  [[F EXCEPT ![b][k + 1] = x] EXCEPT ![b][k + 1] = y] = [F EXCEPT ![b][k + 1] = y]
    BY <1>1 DEF HasConstraintFacts, HasKnownFacts
  <2>6. QED BY <1>6, <1>7, <2>1, <2>2, <2>4, <2>5 DEF SetAt
<1>8. CASE inst.op = "branch"
  <2> DEFINE test == Definition(body, inst.a)
  <2>1. tested = IF test.op = "icmp"
                 THEN TestedCallees(body, P, TestedValue(body, test)) ELSE {}
    BY <1>8 DEF TestedBy
  <2>2. ConstrainInst(body, P, F, b, k) =
          IF tested = {} THEN killed ELSE PassOn(killed, BranchOutcomes(body, inst), before, tested)
    BY <1>8, <2>1 DEF ConstrainInst, ConstrainBranch
  <2>3. CASE tested = {}
    <3> HIDE DEF tested, G, killed
    <3>1. PassOn(G, OutcomesOf(body, inst), before, {}) = G
      BY <1>1, <1>4, PassOnNothing
    <3>2. QED BY <1>5, <1>8, <2>2, <2>3, <3>1 DEF Constrained, G, tested
  <2>4. CASE tested # {}
    <3>1. OutcomesOf(body, inst) = BranchOutcomes(body, inst)
      BY <1>8, <2>1, <2>4 DEF OutcomesOf
    <3> HIDE DEF tested, G, killed
    <3>2. QED BY <1>5, <1>8, <2>2, <2>4, <3>1 DEF Constrained, G, tested
  <2>5. QED BY <2>3, <2>4
<1>9. CASE inst.op = "switch"
  <2>1. tested = IF inst.cases = <<>> THEN {} ELSE TestedCallees(body, P, inst.a)
    BY <1>9 DEF TestedBy
  <2>2. OutcomesOf(body, inst) = CaseOutcomes(inst)
    BY <1>9 DEF OutcomesOf
  <2>3. ConstrainInst(body, P, F, b, k) = PassOn(killed, CaseOutcomes(inst), before, tested)
    BY <1>9, <2>1 DEF ConstrainInst, ConstrainSwitch
  <2> HIDE DEF tested, G, killed
  <2>4. QED BY <1>5, <1>9, <2>2, <2>3 DEF Constrained, G, tested
<1>10. CASE inst.op \notin {"call", "branch", "switch"}
  <2>1. ConstrainInst(body, P, F, b, k) = [F EXCEPT ![b][k + 1] = before]
    BY <1>10 DEF ConstrainInst
  <2>2. tested = {}
    BY <1>10 DEF TestedBy
  <2>3. after = before
    BY <1>2, <1>10, <2>2 DEF ConstraintAfter
  <2>4. QED BY <1>6, <1>10, <2>1, <2>3 DEF SetAt
<1>11. QED BY <1>7, <1>8, <1>9, <1>10

(***************************************************************************)
(* The loop of ReturnConstraintsPass::VisitBlock.                          *)
(***************************************************************************)
AfterConstraining(body, P, b, x, k) ==
  [facts   |-> ConstrainInst(body, P, x.facts, b, k),
   changed |-> HasChanged(x.changed, x.facts[b][k + 1],
                          ConstrainInst(body, P, x.facts, b, k)[b][k + 1])]

IsConstraintRun(body, P, b, F, m, g) ==
  g = [i \in 0..m |-> IF i = 0 THEN Unchanged(F)
                      ELSE AfterConstraining(body, P, b, g[i - 1], i)]

LEMMA ConstraintRunExists ==
  ASSUME NEW body, NEW P, NEW b, NEW F
  PROVE  \A n \in Nat : \E g : IsConstraintRun(body, P, b, F, n, g)
<1> DEFINE S == {m \in Nat : \E g : IsConstraintRun(body, P, b, F, m, g)}
<1>1. 0 \in S
  <2> DEFINE g == [i \in 0..0 |-> Unchanged(F)]
  <2>1. IsConstraintRun(body, P, b, F, 0, g)
    BY DEF IsConstraintRun
  <2>2. QED BY <2>1
<1>2. ASSUME NEW m \in Nat, m \in S PROVE m + 1 \in S
  <2>1. PICK h : IsConstraintRun(body, P, b, F, m, h)
    BY <1>2
  <2> DEFINE g == [i \in 0..m + 1 |-> IF i = m + 1 THEN AfterConstraining(body, P, b, h[m], m + 1)
                                      ELSE h[i]]
             next(i) == IF i = 0 THEN Unchanged(F) ELSE AfterConstraining(body, P, b, g[i - 1], i)
  <2>2. ASSUME NEW i \in 0..m + 1 PROVE g[i] = next(i)
    <3>1. CASE i = m + 1
      <4>1. g[i] = AfterConstraining(body, P, b, h[m], i) /\ g[i - 1] = h[m]
        BY <3>1
      <4>2. QED BY <3>1, <4>1
    <3>2. CASE i # m + 1
      <4>1. g[i] = h[i] /\ i \in 0..m /\ (i # 0 => g[i - 1] = h[i - 1])
        BY <3>2
      <4>2. h[i] = IF i = 0 THEN Unchanged(F) ELSE AfterConstraining(body, P, b, h[i - 1], i)
        BY <2>1, <4>1 DEF IsConstraintRun
      <4>3. QED BY <4>1, <4>2
    <3>3. QED BY <3>1, <3>2
  <2>3. IsConstraintRun(body, P, b, F, m + 1, g)
    BY <2>2 DEF IsConstraintRun
  <2>4. QED BY <2>3
<1> HIDE DEF S
<1>3. Nat \subseteq S
  BY <1>1, <1>2, NaturalInduction
<1>4. QED BY <1>3 DEF S

(* VisitBlock is the end of such a run. *)
LEMMA ConstraintsUnfold ==
  ASSUME NEW body, NEW P, NEW F, NEW b \in DOMAIN body, body[b] \in Seq(Range(body[b]))
  PROVE  \E g : /\ IsConstraintRun(body, P, b, F, Len(body[b]), g)
                /\ ConstraintsVisitBlock(body, P, F, b) = g[Len(body[b])]
<1> DEFINE n == Len(body[b])
           order == [k \in DOMAIN body[b] |-> k]
           Visit(fs, k) == ConstrainInst(body, P, fs, b, k)
           Step(d, i) ==
             CHOOSE step \in
               {[facts   |-> x.next,
                 changed |-> HasChanged(x.done.changed,
                                        x.done.facts[b][order[i] + 1],
                                        x.next[b][order[i] + 1])] :
                  x \in {[done |-> e, next |-> Visit(e.facts, order[i])] : e \in {d}}} :
               TRUE
           Stages(g, m) == [i \in 0..m |-> IF i = 0 THEN [facts |-> F, changed |-> FALSE]
                                        ELSE Step(g[i - 1], i)]
<1>1. ConstraintsVisitBlock(body, P, F, b) = (CHOOSE g : g = Stages(g, Len(order)))[Len(order)]
  BY Zenon DEF ConstraintsVisitBlock, VisitInstructions
<1>2. n \in Nat /\ DOMAIN body[b] = 1..n
  BY LenProperties
<1>3. order \in Seq(1..n) /\ Len(order) = n
  <2>1. order \in [1..n -> 1..n]
    BY <1>2
  <2>2. order \in Seq(1..n)
    BY <1>2, <2>1, SeqDef
  <2>3. QED BY <1>2, <2>1, <2>2, LenProperties
<1>4. ASSUME NEW d, NEW i \in 1..n PROVE Step(d, i) = AfterConstraining(body, P, b, d, i)
  <2>1. order[i] = i
    BY <1>2
  <2>2. Visit(d.facts, order[i]) = ConstrainInst(body, P, d.facts, b, i)
    BY <2>1
  <2> DEFINE x0 == [done |-> d, next |-> Visit(d.facts, order[i])]
             xs == {[done |-> e, next |-> Visit(e.facts, order[i])] : e \in {d}}
  <2>3. xs = {x0} /\ x0.done = d /\ x0.next = ConstrainInst(body, P, d.facts, b, i)
    BY <2>2
  <2> HIDE DEF xs, x0, Visit
  <2>4. {[facts   |-> x.next,
          changed |-> HasChanged(x.done.changed, x.done.facts[b][order[i] + 1],
                                 x.next[b][order[i] + 1])] : x \in xs}
         = {AfterConstraining(body, P, b, d, i)}
    BY <2>1, <2>3 DEF AfterConstraining
  <2>5. QED BY <2>4, SingletonChoice, Zenon DEF xs, Visit
<1> HIDE DEF Step
<1>5. \A g : g = Stages(g, Len(order)) <=> IsConstraintRun(body, P, b, F, n, g)
  BY <1>2, <1>3, <1>4 DEF IsConstraintRun, Unchanged
<1>6. PICK h : IsConstraintRun(body, P, b, F, n, h)
  BY <1>2, ConstraintRunExists
<1> HIDE DEF Stages
<1>7. QED
  BY <1>1, <1>3, <1>5, <1>6

(***************************************************************************)
(* Facts of ReturnConstraintsPass.                                         *)
(***************************************************************************)
(* What the tests of the block leave has arrived at its successors.        *)
HasPassedOn(body, P, F, b) ==
  LET last == Terminator(body[b])
  IN ArePassedOn(OutcomesOf(body, last), F[b][Len(body[b])], TestedBy(body, P, last), F)

(* Before the pass comes to a block, nothing is behind its test.           *)
IsVisited(body, P, F, b) ==
  \A f \in TestedBy(body, P, Terminator(body[b])) : F[b][Len(body[b]) + 1][f] = "bottom"

IsUnvisited(body, P, F, b) ==
  \A f \in TestedBy(body, P, Terminator(body[b])) : F[b][Len(body[b]) + 1][f] = Absent

IsOpen(body, P, F) ==
  \A b \in DOMAIN body :
    \/ IsUnvisited(body, P, F, b)
    \/ IsVisited(body, P, F, b) /\ (HasLoneTest(body) \/ HasPassedOn(body, P, F, b))

IsConstrained(body, P, F, b) ==
  \A k \in 1..Len(body[b]) : F[b][k + 1] = ConstraintAfter(body, P, F[b][k], body[b][k])

IsFedFacts(body, F, b) ==
  \A p \in Predecessors(body, b) : \A f \in Callees(body) :
    Below(F[p][Len(body[p]) + 1][f], F[b][1][f])

IsConstrainedBlock(body, P, F, b) ==
  IsConstrained(body, P, F, b) /\ IsFedFacts(body, F, b) /\ HasPassedOn(body, P, F, b)

(* Where only block p leads to, the entry allows no more than the outcomes *)
(* of the test at the end of p that lead there.                            *)
IsNarrow(body, P, F) ==
  \A b \in DOMAIN body : \A p \in DOMAIN body :
    LET last == Terminator(body[p])
    IN Predecessors(body, b) = {p} =>
         \A f \in TestedBy(body, P, last) :
           SignsOf(F[b][1][f]) \subseteq AllowedBy(OutcomesOf(body, last), b)

(* Only the last instruction of a block passes anything on.                *)
LEMMA TestIsLast ==
  ASSUME NEW body, IsBody(body), NEW P, NEW b \in DOMAIN body,
         NEW k \in 1..Len(body[b]), k # Len(body[b])
  PROVE  TestedBy(body, P, body[b][k]) = {}
<1>1. k \in DOMAIN body[b]
  BY BodyShape
<1>2. body[b][k].op \notin {"branch", "switch"}
  BY <1>1 DEF IsBody, IsBlock
<1>3. QED BY <1>2 DEF TestedBy

(* Up to the last instruction, the loop writes behind the instructions it  *)
(* has visited: x is where it is after i of them.                          *)
IsConstrainedSoFar(body, P, b, F, i, x) ==
  /\ HasConstraintFacts(body, x.facts)
  /\ \A c \in DOMAIN body : c # b => x.facts[c] = F[c]
  /\ x.facts[b][1] = F[b][1]
  /\ ~ x.changed =>
       /\ x.facts = F
       /\ \A k \in 1..i : F[b][k + 1] = ConstraintAfter(body, P, F[b][k], body[b][k])
  /\ IsConstrained(body, P, F, b) => x.facts = F

LEMMA ConstraintsRun ==
  ASSUME NEW body, IsTypedBody(body), NEW P, NEW F, HasConstraintFacts(body, F),
         NEW b \in DOMAIN body, NEW g, IsConstraintRun(body, P, b, F, Len(body[b]), g)
  PROVE  IsConstrainedSoFar(body, P, b, F, Len(body[b]) - 1, g[Len(body[b]) - 1])
<1> DEFINE n == Len(body[b])
           Agrees(k) == F[b][k + 1] = ConstraintAfter(body, P, F[b][k], body[b][k])
           Good(i) == IsConstrainedSoFar(body, P, b, F, i, g[i])
           S == {i \in Nat : i <= n - 1 => Good(i)}
<1>1. n \in Nat \ {0} /\ IsBody(body)
  BY BodyShape DEF IsTypedBody
<1> HIDE DEF n
<1>2. 0 \in S
  <2>1. g[0] = Unchanged(F)
    BY <1>1 DEF IsConstraintRun, n
  <2>2. QED BY <2>1 DEF Unchanged, IsConstrainedSoFar
<1>3. ASSUME NEW i \in Nat, i \in S PROVE i + 1 \in S
  <2>1. SUFFICES ASSUME i + 1 <= n - 1 PROVE Good(i + 1)
    OBVIOUS
  <2> DEFINE fs == g[i].facts
             fact == ConstraintAfter(body, P, fs[b][i + 1], body[b][i + 1])
             next == SetAt(fs, b, i + 2, fact)
  <2>2. /\ HasConstraintFacts(body, fs)
        /\ \A c \in DOMAIN body : c # b => fs[c] = F[c]
        /\ fs[b][1] = F[b][1]
        /\ ~ g[i].changed => fs = F /\ \A k \in 1..i : Agrees(k)
        /\ IsConstrained(body, P, F, b) => fs = F
    <3>1. Good(i)
      BY <1>1, <1>3, <2>1
    <3>2. QED BY <3>1 DEF IsConstrainedSoFar
  <2>3. g[i + 1] = AfterConstraining(body, P, b, g[i], i + 1)
    BY <1>1, <2>1 DEF IsConstraintRun, n
  <2>4. /\ i + 1 \in 1..Len(body[b]) /\ i + 1 # Len(body[b])
        /\ i + 1 \in 1..Len(body[b]) + 1 /\ i + 2 \in 1..Len(body[b]) + 1
        /\ i + 2 # 1 /\ (i + 1) + 1 = i + 2
    BY <1>1, <2>1 DEF n
  <2>5. body[b][i + 1] \in InstructionsOf(body)
    BY <1>1, <2>4, BodyShape
  <2>6. HasConstraintFacts(body, fs) /\ fs[b][i + 1] \in [Callees(body) -> Known]
    BY <2>2, <2>4 DEF HasConstraintFacts, HasKnownFacts
  <2>7. fact \in [Callees(body) -> Known]
    BY <2>5, <2>6, ConstraintAfterType
  <2>8. TestedBy(body, P, body[b][i + 1]) = {}
    BY <1>1, <2>4, TestIsLast
  <2>9. ConstrainInst(body, P, fs, b, i + 1) = Constrained(body, P, fs, b, i + 1)
    BY <2>4, <2>6, ConstrainsInst
  <2> HIDE DEF fs, fact
  <2>10. /\ HasConstraintFacts(body, next)
         /\ next[b][i + 2] = fact
         /\ \A c \in DOMAIN body : c # b => next[c] = fs[c]
         /\ next[b][1] = fs[b][1]
         /\ fact = fs[b][i + 2] => next = fs
    <3>1. HasKnownFacts(body, Callees(body), fs) /\ 1 \in 1..Len(body[b]) + 1
      BY <1>1, <2>6 DEF HasConstraintFacts, n
    <3>2. QED BY <1>1, <2>4, <2>7, <3>1, SetKnownPoint DEF HasConstraintFacts
  <2>11. ConstrainInst(body, P, fs, b, i + 1) = next
    <3>1. Constrained(body, P, fs, b, i + 1)
          = PassOn(next, OutcomesOf(body, body[b][i + 1]), fs[b][i + 1], {})
      BY <2>4, <2>8 DEF Constrained, fact
    <3> HIDE DEF next
    <3>2. QED BY <1>1, <2>9, <2>10, <3>1, PassOnNothing DEF HasConstraintFacts
  <2>12. /\ g[i + 1].facts = next
         /\ g[i + 1].changed = HasChanged(g[i].changed, fs[b][i + 2], next[b][i + 2])
    BY <2>3, <2>4, <2>11 DEF AfterConstraining, fs
  <2> HIDE DEF next
  <2>13. ASSUME ~ g[i + 1].changed
         PROVE  g[i + 1].facts = F /\ \A k \in 1..i + 1 : Agrees(k)
    <3>1. ~ g[i].changed /\ fact = fs[b][i + 2]
      BY <2>10, <2>12, <2>13 DEF HasChanged
    <3>2. fs = F /\ next = F /\ \A k \in 1..i : Agrees(k)
      BY <2>2, <2>10, <3>1
    <3>3. Agrees(i + 1)
      BY <2>4, <3>1, <3>2 DEF fact
    <3>4. \A k \in 1..i + 1 : k \in 1..i \/ k = i + 1
      OBVIOUS
    <3> HIDE DEF Agrees
    <3>5. QED BY <2>12, <3>2, <3>3, <3>4
  <2>14. ASSUME IsConstrained(body, P, F, b) PROVE g[i + 1].facts = F
    <3>1. fs = F
      BY <2>2, <2>14
    <3>2. fact = F[b][i + 2]
      BY <2>4, <2>14, <3>1 DEF fact, IsConstrained
    <3>3. QED BY <2>10, <2>12, <3>1, <3>2
  <2>15. QED BY <2>2, <2>10, <2>12, <2>13, <2>14 DEF IsConstrainedSoFar
<1> HIDE DEF S
<1>4. n - 1 \in S /\ n - 1 \in Nat
  BY <1>1, <1>2, <1>3, NaturalInduction
<1>5. Good(n - 1)
  BY <1>4 DEF S
<1>6. QED BY <1>5 DEF n

(* What a visit of a block does.  What its test leaves goes to the entries *)
(* of the successors, the block's own among them; a change of these is not *)
(* noticed, but one behind an instruction is.                              *)
IsConstraintVisit(body, P, F, b, visit) ==
  /\ HasConstraintFacts(body, visit.facts)
  /\ \A c \in DOMAIN body : \A k \in 1..Len(body[c]) + 1 :
       c # b /\ k # 1 => visit.facts[c][k] = F[c][k]
  /\ \A c \in DOMAIN body : \A f \in Callees(body) : Below(F[c][1][f], visit.facts[c][1][f])
  /\ \A c \in DOMAIN body : \A f \in Callees(body) : \A s \in SignsOf(visit.facts[c][1][f]) :
       \/ s \in SignsOf(F[c][1][f])
       \/ /\ f \in TestedBy(body, P, Terminator(body[b]))
          /\ s \in AllowedBy(OutcomesOf(body, Terminator(body[b])), c)
  /\ IsVisited(body, P, visit.facts, b)
  /\ Len(body[b]) # 1 \/ TestedBy(body, P, Terminator(body[b])) = {}
       => HasPassedOn(body, P, visit.facts, b)
  /\ ~ visit.changed =>
       /\ IsConstrained(body, P, F, b)
       /\ HasPassedOn(body, P, F, b) => visit.facts = F
  /\ IsConstrained(body, P, F, b) /\ HasPassedOn(body, P, F, b) => visit.facts = F

LEMMA ConstraintsVisits ==
  ASSUME NEW body, IsTypedBody(body), NEW P, NEW F, HasConstraintFacts(body, F),
         NEW b \in DOMAIN body
  PROVE  IsConstraintVisit(body, P, F, b, ConstraintsVisitBlock(body, P, F, b))
<1> DEFINE n == Len(body[b])
           last == body[b][n]
           visit == ConstraintsVisitBlock(body, P, F, b)
           tested == TestedBy(body, P, last)
           outcomes == OutcomesOf(body, last)
<1>1. n \in Nat \ {0} /\ IsBody(body) /\ body[b] \in Seq(Range(body[b])) /\ Terminator(body[b]) = last
  BY BodyShape DEF IsTypedBody, Terminator
<1>0. n = Len(body[b])
  OBVIOUS
<1>2. PICK g : IsConstraintRun(body, P, b, F, n, g) /\ visit = g[n]
  BY <1>1, ConstraintsUnfold
<1> DEFINE H == g[n - 1].facts
           fact == ConstraintAfter(body, P, H[b][n], last)
           K == SetAt(H, b, n + 1, fact)
           G == PassOn(K, outcomes, H[b][n], tested)
<1>3. /\ HasConstraintFacts(body, H)
      /\ \A c \in DOMAIN body : c # b => H[c] = F[c]
      /\ H[b][1] = F[b][1]
      /\ ~ g[n - 1].changed =>
           /\ H = F
           /\ \A k \in 1..n - 1 : F[b][k + 1] = ConstraintAfter(body, P, F[b][k], body[b][k])
      /\ IsConstrained(body, P, F, b) => H = F
  <2> HIDE DEF visit
  <2>1. IsConstraintRun(body, P, b, F, Len(body[b]), g)
    BY <1>2
  <2>2. IsConstrainedSoFar(body, P, b, F, n - 1, g[n - 1])
    BY <2>1, ConstraintsRun
  <2>3. QED BY <2>2 DEF IsConstrainedSoFar
<1>4. /\ n \in 1..n /\ n \in 1..n + 1 /\ n + 1 \in 1..n + 1 /\ 1 \in 1..n + 1 /\ n + 1 # 1
      /\ n \in 0..n /\ n # 0
  BY <1>1
<1>5. last \in InstructionsOf(body)
  BY <1>1, <1>4, BodyShape
<1> HIDE DEF n
<1>6. g[n] = AfterConstraining(body, P, b, g[n - 1], n)
  BY <1>2, <1>4 DEF IsConstraintRun
<1> HIDE DEF H, visit
<1>7. ConstrainInst(body, P, H, b, n) = G
  <2>1. ConstrainInst(body, P, H, b, n) = Constrained(body, P, H, b, n)
    BY <1>3, <1>4, ConstrainsInst DEF n
  <2>2. QED BY <2>1 DEF Constrained
<1>8. H[b][n] \in [Callees(body) -> Known]
  BY <1>3, <1>4 DEF HasConstraintFacts, HasKnownFacts, n
<1>9. fact \in [Callees(body) -> Known]
  BY <1>5, <1>8, ConstraintAfterType
<1>10. tested \in SUBSET Callees(body)
  BY TestedAreCallees
<1>11. AreOutcomes(body, outcomes)
  BY <1>4, OutcomesAreTyped DEF n, AreOutcomes
<1>12. \A f \in tested : fact[f] = "bottom"
  <2>1. tested # {} => last.op # "call"
    BY DEF TestedBy
  <2>2. QED BY <1>8, <1>10, <2>1 DEF ConstraintAfter
<1> HIDE DEF fact, tested, outcomes
<1>13. /\ HasConstraintFacts(body, K)
       /\ K[b][n + 1] = fact
       /\ \A c \in DOMAIN body : c # b => K[c] = H[c]
       /\ \A j \in 1..n + 1 : j # n + 1 => K[b][j] = H[b][j]
       /\ fact = H[b][n + 1] => K = H
  <2>1. HasKnownFacts(body, Callees(body), H)
    BY <1>3 DEF HasConstraintFacts
  <2>2. QED BY <1>1, <1>4, <1>9, <2>1, SetKnownPoint DEF HasConstraintFacts, n
<1> HIDE DEF K
<1>14. /\ HasConstraintFacts(body, G)
       /\ \A c \in DOMAIN body : \A k \in 1..Len(body[c]) + 1 : k # 1 => G[c][k] = K[c][k]
       /\ \A c \in DOMAIN body : \A f \in Callees(body) : Below(K[c][1][f], G[c][1][f])
       /\ ArePassedOn(outcomes, H[b][n], tested, G)
       /\ ArePassedOn(outcomes, H[b][n], tested, K) => G = K
       /\ \A c \in DOMAIN body : \A f \in Callees(body) : \A s \in SignsOf(G[c][1][f]) :
            s \in SignsOf(K[c][1][f]) \/ (f \in tested /\ s \in AllowedBy(outcomes, c))
  <2>1. HasKnownFacts(body, Callees(body), K)
    BY <1>13 DEF HasConstraintFacts
  <2>2. QED BY <1>1, <1>8, <1>10, <1>11, <2>1, PassOnIsAbove DEF HasConstraintFacts
<1> HIDE DEF G
<1>15. /\ visit.facts = G
       /\ visit.changed = HasChanged(g[n - 1].changed, H[b][n + 1], G[b][n + 1])
  BY <1>2, <1>6, <1>7 DEF AfterConstraining, H
<1>16. K[b][1] = F[b][1] /\ \A c \in DOMAIN body : c # b => K[c] = F[c]
  BY <1>3, <1>4, <1>13
<1>17. G[b][n + 1] = fact
  BY <1>4, <1>13, <1>14 DEF n
<1>18. ASSUME NEW c \in DOMAIN body, NEW k \in 1..Len(body[c]) + 1, c # b, k # 1
       PROVE  visit.facts[c][k] = F[c][k]
  BY <1>14, <1>15, <1>16, <1>18
<1>19. ASSUME NEW c \in DOMAIN body, NEW f \in Callees(body)
       PROVE  Below(F[c][1][f], visit.facts[c][1][f])
  <2>1. K[c][1] = F[c][1]
    BY <1>16
  <2>2. QED BY <1>14, <1>15, <2>1
<1>20. IsVisited(body, P, visit.facts, b)
  BY <1>1, <1>12, <1>15, <1>17 DEF IsVisited, tested, n
<1>21. ASSUME n # 1 \/ tested = {} PROVE HasPassedOn(body, P, visit.facts, b)
  <2>1. n # 1 => G[b][n] = H[b][n]
    BY <1>0, <1>4, <1>13, <1>14
  <2>2. ArePassedOn(outcomes, G[b][n], tested, G)
    BY <1>14, <1>21, <2>1 DEF ArePassedOn
  <2>3. QED BY <1>1, <1>15, <2>2 DEF HasPassedOn, tested, outcomes, n
<1>22. ASSUME H = F, fact = F[b][n + 1], HasPassedOn(body, P, F, b) PROVE visit.facts = F
  <2>1. K = F
    BY <1>13, <1>22
  <2>2. ArePassedOn(outcomes, H[b][n], tested, K)
    BY <1>1, <1>22, <2>1 DEF HasPassedOn, outcomes, tested, n
  <2>3. QED BY <1>14, <1>15, <2>1, <2>2
<1>23. ASSUME ~ visit.changed
       PROVE  /\ H = F /\ fact = F[b][n + 1]
              /\ IsConstrained(body, P, F, b)
  <2>1. ~ g[n - 1].changed /\ H[b][n + 1] = fact
    BY <1>15, <1>17, <1>23 DEF HasChanged
  <2>2. H = F /\ fact = F[b][n + 1]
        /\ \A k \in 1..n - 1 : F[b][k + 1] = ConstraintAfter(body, P, F[b][k], body[b][k])
    BY <1>3, <2>1
  <2>3. F[b][n + 1] = ConstraintAfter(body, P, F[b][n], last)
    BY <2>2 DEF fact
  <2>4. \A k \in 1..n : k \in 1..n - 1 \/ k = n
    BY <1>1
  <2>5. IsConstrained(body, P, F, b)
    BY <2>2, <2>3, <2>4 DEF IsConstrained, n
  <2>6. QED BY <2>2, <2>5
<1>24. ASSUME IsConstrained(body, P, F, b) PROVE H = F /\ fact = F[b][n + 1]
  <2>1. H = F
    BY <1>3, <1>24
  <2>2. QED BY <1>4, <1>24, <2>1 DEF fact, IsConstrained, n
<1>25. ASSUME NEW c \in DOMAIN body, NEW f \in Callees(body), NEW s \in SignsOf(visit.facts[c][1][f])
       PROVE  s \in SignsOf(F[c][1][f]) \/ (f \in tested /\ s \in AllowedBy(outcomes, c))
  <2>1. K[c][1] = F[c][1]
    BY <1>16
  <2>2. QED BY <1>14, <1>15, <2>1
<1>26. QED
  BY <1>1, <1>14, <1>15, <1>18, <1>19, <1>20, <1>21, <1>22, <1>23, <1>24, <1>25
  DEF IsConstraintVisit, visit, n, tested, outcomes

LEMMA LoneTestsOnly ==
  ASSUME NEW body, IsBody(body), NEW P, ~ HasLoneTest(body), NEW b \in DOMAIN body
  PROVE  Len(body[b]) # 1 \/ TestedBy(body, P, Terminator(body[b])) = {}
BY DEF HasLoneTest, TestedBy

(* The facts have grown at the entries of blocks, and are the same at the  *)
(* other points of block c: what was done for c still is.                  *)
LEMMA GrownEntries ==
  ASSUME NEW body, IsTypedBody(body), NEW P, NEW F, NEW G,
         HasConstraintFacts(body, F), HasConstraintFacts(body, G),
         \A d \in DOMAIN body : \A f \in Callees(body) : Below(F[d][1][f], G[d][1][f]),
         NEW c \in DOMAIN body,
         \A k \in 1..Len(body[c]) + 1 : k # 1 => G[c][k] = F[c][k]
  PROVE  /\ IsUnvisited(body, P, F, c) => IsUnvisited(body, P, G, c)
         /\ IsVisited(body, P, F, c) => IsVisited(body, P, G, c)
         /\ ~ HasLoneTest(body) /\ HasPassedOn(body, P, F, c) => HasPassedOn(body, P, G, c)
<1> DEFINE n == Len(body[c])
           last == Terminator(body[c])
           tested == TestedBy(body, P, last)
           outcomes == OutcomesOf(body, last)
<1>1. n \in Nat \ {0} /\ last = body[c][n] /\ IsBody(body)
  BY BodyShape DEF IsTypedBody, Terminator
<1>2. n \in 1..n /\ n \in 1..n + 1 /\ n + 1 \in 1..n + 1 /\ n + 1 # 1
  BY <1>1
<1>3. G[c][n + 1] = F[c][n + 1] /\ (n # 1 => G[c][n] = F[c][n])
  BY <1>2
<1>4. tested \subseteq Callees(body)
  BY TestedAreCallees
<1>5. AreOutcomes(body, outcomes)
  BY <1>1, <1>2, OutcomesAreTyped DEF AreOutcomes
<1>6. ASSUME ~ HasLoneTest(body), HasPassedOn(body, P, F, c) PROVE HasPassedOn(body, P, G, c)
  <2>1. ArePassedOn(outcomes, F[c][n], tested, F)
    BY <1>6 DEF HasPassedOn
  <2>2. n # 1 \/ tested = {}
    BY <1>1, <1>6, LoneTestsOnly
  <2>3. ASSUME NEW o \in outcomes, NEW f \in tested
        PROVE  Below(Refine(o[2], G[c][n][f]), G[o[1]][1][f])
    <3>1. G[c][n] = F[c][n]
      BY <1>3, <2>2, <2>3
    <3>2. Below(Refine(o[2], F[c][n][f]), F[o[1]][1][f])
      BY <2>1 DEF ArePassedOn
    <3>3. Below(F[o[1]][1][f], G[o[1]][1][f])
      BY <1>4, <1>5 DEF AreOutcomes
    <3>4. QED BY <3>1, <3>2, <3>3, BelowIsTransitive
  <2>4. ArePassedOn(outcomes, G[c][n], tested, G)
    BY <2>3 DEF ArePassedOn
  <2>5. QED BY <2>4 DEF HasPassedOn
<1>7. QED BY <1>3, <1>6 DEF IsUnvisited, IsVisited

(* The outcomes of a test lead to its successors.                          *)
LEMMA OutcomesLead ==
  ASSUME NEW body, NEW inst, NEW o \in OutcomesOf(body, inst)
  PROVE  o[1] \in Successors(inst)
<1>1. CASE inst.op = "branch" /\ Definition(body, inst.a).op = "icmp"
  BY <1>1 DEF OutcomesOf, BranchOutcomes, Successors
<1>2. CASE inst.op = "switch"
  <2>1. PICK i \in DOMAIN inst.cases :
          o = <<inst.cases[i].to, AbstractInteger(inst.cases[i].value)>>
    BY <1>2 DEF OutcomesOf, CaseOutcomes
  <2>2. QED BY <1>2, <2>1 DEF Successors
<1>3. QED BY <1>1, <1>2 DEF OutcomesOf

(* A test passes nothing on to blocks it does not lead to.                 *)
LEMMA OthersAllowNothing ==
  ASSUME NEW body, NEW b \in DOMAIN body, NEW c, NEW s,
         s \in AllowedBy(OutcomesOf(body, Terminator(body[b])), c)
  PROVE  b \in Predecessors(body, c)
<1>1. PICK o \in OutcomesOf(body, Terminator(body[b])) : o[1] = c
  BY DEF AllowedBy
<1>2. QED BY <1>1, OutcomesLead DEF Predecessors

LEMMA ConstraintsSteps ==
  ASSUME NEW body, IsTypedBody(body), NEW P, NEW F, HasConstraintFacts(body, F),
         NEW b \in DOMAIN body
  PROVE  LET step == ConstraintsStep(body, P, F, b)
         IN /\ HasConstraintFacts(body, step.facts)
            /\ IsOpen(body, P, F) => IsOpen(body, P, step.facts)
            /\ IsOpen(body, P, F) /\ IsNarrow(body, P, F) => IsNarrow(body, P, step.facts)
            /\ ~ step.changed /\ ~ HasLoneTest(body) /\ IsOpen(body, P, F) =>
                 /\ IsConstrainedBlock(body, P, step.facts, b)
                 /\ \A c \in DOMAIN body :
                      c # b /\ IsConstrainedBlock(body, P, F, c)
                        => IsConstrainedBlock(body, P, step.facts, c)
            /\ IsConstrainedBlock(body, P, F, b) => step.facts = F
<1> DEFINE exits == {ExitOf(F, p) : p \in Predecessors(body, b)}
           joined == JoinMaps(EntryOf(F, b), exits)
           G == SetAt(F, b, 1, joined)
           step == ConstraintsStep(body, P, F, b)
           keys == Callees(body)
           tested == TestedBy(body, P, Terminator(body[b]))
<1>1. IsBody(body) /\ HasKnownFacts(body, keys, F)
  BY DEF IsTypedBody, HasConstraintFacts
<1>2. ASSUME NEW c \in DOMAIN body
      PROVE  /\ Len(body[c]) \in Nat \ {0}
             /\ 1 \in 1..Len(body[c]) + 1 /\ Len(body[c]) + 1 \in 1..Len(body[c]) + 1
             /\ Len(body[c]) + 1 # 1
             /\ ExitOf(F, c) = F[c][Len(body[c]) + 1]
             /\ ExitOf(F, c) \in [keys -> Known]
             /\ F[c][1] \in [keys -> Known]
  <2>1. Len(body[c]) \in Nat \ {0}
    BY <1>1, BodyShape
  <2>2. /\ 1 \in 1..Len(body[c]) + 1 /\ Len(body[c]) + 1 \in 1..Len(body[c]) + 1
        /\ Len(body[c]) + 1 # 1
    BY <2>1
  <2>3. ExitOf(F, c) = F[c][Len(body[c]) + 1]
    BY <1>1, ExitIsLast DEF HasKnownFacts
  <2>4. QED BY <1>1, <2>1, <2>2, <2>3 DEF HasKnownFacts
<1>3. exits \in SUBSET [keys -> Known] /\ EntryOf(F, b) = F[b][1]
  BY <1>2, PredecessorsAreBlocks DEF EntryOf
<1> HIDE DEF exits
<1>4. /\ joined \in [keys -> Known]
      /\ \A f \in keys : Below(F[b][1][f], joined[f])
      /\ \A x \in exits : \A f \in keys : Below(x[f], joined[f])
      /\ (\A x \in exits : \A f \in keys : Below(x[f], F[b][1][f])) => joined = F[b][1]
  BY <1>2, <1>3, JoinMapsIsAbove
<1>0. \A f \in keys : \A s \in SignsOf(joined[f]) :
        s \in SignsOf(F[b][1][f]) \/ \E x \in exits : s \in SignsOf(x[f])
  <2>1. EntryOf(F, b) \in [keys -> Known]
    BY <1>2, <1>3
  <2>2. \A f \in keys : \A s \in SignsOf(JoinMaps(EntryOf(F, b), exits)[f]) :
          s \in SignsOf(EntryOf(F, b)[f]) \/ \E x \in exits : s \in SignsOf(x[f])
    <3> HIDE DEF keys
    <3>1. QED BY <1>3, <2>1, JoinMapsSigns
  <2>3. QED BY <1>3, <2>2
<1> HIDE DEF joined
<1>5. /\ HasKnownFacts(body, keys, G) /\ G[b][1] = joined
      /\ \A c \in DOMAIN body : c # b => G[c] = F[c]
      /\ \A j \in 1..Len(body[b]) + 1 : j # 1 => G[b][j] = F[b][j]
      /\ joined = F[b][1] => G = F
  BY <1>1, <1>2, <1>4, SetKnownPoint
<1>6. step = ConstraintsVisitBlock(body, P, G, b)
  BY DEF ConstraintsStep, SetAt, exits, joined
<1> HIDE DEF G, step
<1>7. /\ HasConstraintFacts(body, step.facts)
      /\ \A c \in DOMAIN body : \A k \in 1..Len(body[c]) + 1 :
           c # b /\ k # 1 => step.facts[c][k] = G[c][k]
      /\ \A c \in DOMAIN body : \A f \in keys : Below(G[c][1][f], step.facts[c][1][f])
      /\ \A c \in DOMAIN body : \A f \in keys : \A s \in SignsOf(step.facts[c][1][f]) :
           \/ s \in SignsOf(G[c][1][f])
           \/ f \in tested /\ s \in AllowedBy(OutcomesOf(body, Terminator(body[b])), c)
      /\ IsVisited(body, P, step.facts, b)
      /\ Len(body[b]) # 1 \/ tested = {} => HasPassedOn(body, P, step.facts, b)
      /\ ~ step.changed =>
           /\ IsConstrained(body, P, G, b)
           /\ HasPassedOn(body, P, G, b) => step.facts = G
      /\ IsConstrained(body, P, G, b) /\ HasPassedOn(body, P, G, b) => step.facts = G
  <2>1. HasConstraintFacts(body, G)
    BY <1>5 DEF HasConstraintFacts
  <2>2. IsConstraintVisit(body, P, G, b, step)
    BY <1>6, <2>1, ConstraintsVisits
  <2>3. QED BY <2>2 DEF IsConstraintVisit
<1>8. ASSUME NEW c \in DOMAIN body, NEW f \in keys
      PROVE  Below(F[c][1][f], G[c][1][f]) /\ Below(F[c][1][f], step.facts[c][1][f])
  <2>1. Below(F[c][1][f], G[c][1][f])
    <3>1. CASE c = b
      BY <1>4, <1>5, <3>1
    <3>2. CASE c # b
      BY <1>5, <3>2 DEF Below
    <3>3. QED BY <3>1, <3>2
  <2>2. QED BY <1>7, <2>1, BelowIsTransitive
<1>9. ASSUME NEW c \in DOMAIN body, NEW k \in 1..Len(body[c]) + 1, k # 1
      PROVE  G[c][k] = F[c][k] /\ (c # b => step.facts[c][k] = F[c][k])
  BY <1>5, <1>7, <1>9
<1>10. ASSUME IsOpen(body, P, F), NEW c \in DOMAIN body
       PROVE  \/ IsUnvisited(body, P, step.facts, c)
              \/ IsVisited(body, P, step.facts, c)
                 /\ (HasLoneTest(body) \/ HasPassedOn(body, P, step.facts, c))
  <2>1. CASE c = b
    BY <1>1, <1>7, <2>1, LoneTestsOnly
  <2>2. CASE c # b
    <3>1. /\ IsUnvisited(body, P, F, c) => IsUnvisited(body, P, step.facts, c)
          /\ IsVisited(body, P, F, c) => IsVisited(body, P, step.facts, c)
          /\ ~ HasLoneTest(body) /\ HasPassedOn(body, P, F, c) => HasPassedOn(body, P, step.facts, c)
      BY <1>7, <1>8, <1>9, <2>2, GrownEntries
    <3>2. QED BY <1>10, <3>1 DEF IsOpen
  <2>3. QED BY <2>1, <2>2
<1>11. HasConstraintFacts(body, G)
  BY <1>5 DEF HasConstraintFacts
<1>12. ASSUME NEW c \in DOMAIN body, ~ HasLoneTest(body), HasPassedOn(body, P, F, c)
       PROVE  HasPassedOn(body, P, G, c)
  BY <1>8, <1>9, <1>11, <1>12, GrownEntries
<1>13. IsFedFacts(body, G, b)
  <2> SUFFICES ASSUME NEW p \in Predecessors(body, b), NEW f \in keys
               PROVE  Below(G[p][Len(body[p]) + 1][f], G[b][1][f])
    BY DEF IsFedFacts
  <2>1. p \in DOMAIN body /\ ExitOf(F, p) \in exits
    BY PredecessorsAreBlocks DEF exits
  <2>2. G[p][Len(body[p]) + 1] = ExitOf(F, p)
    BY <1>2, <1>9, <2>1
  <2>3. QED BY <1>4, <1>5, <2>1, <2>2
<1>14. ASSUME ~ step.changed, ~ HasLoneTest(body), IsOpen(body, P, F)
       PROVE  step.facts = G /\ IsConstrainedBlock(body, P, G, b)
  <2>1. IsConstrained(body, P, G, b)
    BY <1>7, <1>14
  <2>2. HasPassedOn(body, P, G, b)
    <3>1. CASE tested = {}
      BY <3>1 DEF HasPassedOn, ArePassedOn
    <3>2. CASE tested # {}
      <4> DEFINE n == Len(body[b])
      <4>1. PICK f \in tested : TRUE
        BY <3>2
      <4>2. n \in 1..n /\ n + 1 \in 1..n + 1 /\ n + 1 # 1 /\ body[b][n] \in InstructionsOf(body)
            /\ Terminator(body[b]) = body[b][n] /\ n \in 1..n + 1
        <5>1. n \in Nat \ {0}
          BY <1>2
        <5>2. n \in 1..n /\ n \in 1..n + 1 /\ n + 1 \in 1..n + 1 /\ n + 1 # 1
          BY <5>1
        <5>3. QED BY <1>1, <5>2, BodyShape DEF Terminator
      <4>3. F[b][n + 1] = ConstraintAfter(body, P, G[b][n], body[b][n])
        BY <1>9, <2>1, <4>2 DEF IsConstrained
      <4>4. G[b][n] \in [keys -> Known] /\ f \in keys
        BY <1>5, <4>2, TestedAreCallees DEF HasKnownFacts
      <4>5. body[b][n].op # "call"
        BY <4>1, <4>2 DEF TestedBy
      <4>6. F[b][n + 1][f] = "bottom"
        BY <4>1, <4>2, <4>3, <4>4, <4>5 DEF ConstraintAfter
      <4>7. ~ IsUnvisited(body, P, F, b)
        BY <4>1, <4>6 DEF IsUnvisited, Absent
      <4>8. HasPassedOn(body, P, F, b)
        BY <1>14, <4>7 DEF IsOpen
      <4>9. QED BY <1>12, <1>14, <4>8
    <3>3. QED BY <3>1, <3>2
  <2>3. QED BY <1>7, <1>13, <1>14, <2>1, <2>2 DEF IsConstrainedBlock
<1>15. ASSUME ~ HasLoneTest(body), NEW c \in DOMAIN body, c # b, IsConstrainedBlock(body, P, F, c)
       PROVE  IsConstrainedBlock(body, P, G, c)
  <2>1. G[c] = F[c]
    BY <1>5, <1>15
  <2>2. IsConstrained(body, P, G, c)
    BY <1>15, <2>1 DEF IsConstrainedBlock, IsConstrained
  <2>3. ASSUME NEW p \in Predecessors(body, c) PROVE G[p][Len(body[p]) + 1] = F[p][Len(body[p]) + 1]
    BY <1>2, <1>9, PredecessorsAreBlocks
  <2>4. IsFedFacts(body, G, c)
    BY <1>15, <2>1, <2>3 DEF IsConstrainedBlock, IsFedFacts
  <2>5. HasPassedOn(body, P, G, c)
    BY <1>12, <1>15 DEF IsConstrainedBlock
  <2>6. QED BY <2>2, <2>4, <2>5 DEF IsConstrainedBlock
<1>16. ASSUME IsConstrainedBlock(body, P, F, b) PROVE step.facts = F
  <2>1. \A x \in exits : \A f \in keys : Below(x[f], F[b][1][f])
    BY <1>2, <1>16, PredecessorsAreBlocks DEF exits, IsConstrainedBlock, IsFedFacts
  <2>2. G = F
    BY <1>4, <1>5, <2>1
  <2>3. QED BY <1>7, <1>16, <2>2 DEF IsConstrainedBlock
<1>17. IsOpen(body, P, F) => IsOpen(body, P, step.facts)
  BY <1>10 DEF IsOpen
<1>18. ASSUME IsOpen(body, P, F), NEW p \in Predecessors(body, b), NEW f,
              f \in TestedBy(body, P, Terminator(body[p]))
       PROVE  SignsOf(ExitOf(F, p)[f]) = {}
  <2>1. p \in DOMAIN body
    BY PredecessorsAreBlocks
  <2>2. ExitOf(F, p)[f] \in {Absent, "bottom"}
    BY <1>2, <1>18, <2>1 DEF IsOpen, IsVisited, IsUnvisited
  <2>3. QED BY <2>2, GammaRows DEF SignsOf
<1>19. ASSUME NEW f \in keys, NEW s \in SignsOf(joined[f])
       PROVE  s \in SignsOf(F[b][1][f]) \/ \E p \in Predecessors(body, b) : s \in SignsOf(ExitOf(F, p)[f])
  BY <1>0 DEF exits
<1>20. ASSUME IsOpen(body, P, F), IsNarrow(body, P, F), NEW c \in DOMAIN body, NEW p \in DOMAIN body,
              Predecessors(body, c) = {p}, NEW f \in TestedBy(body, P, Terminator(body[p])),
              NEW s \in SignsOf(step.facts[c][1][f])
       PROVE  s \in AllowedBy(OutcomesOf(body, Terminator(body[p])), c)
  <2>1. f \in keys
    BY TestedAreCallees
  <2>2. SignsOf(F[c][1][f]) \subseteq AllowedBy(OutcomesOf(body, Terminator(body[p])), c)
    BY <1>20 DEF IsNarrow
  <2>3. CASE s \in SignsOf(G[c][1][f])
    <3>1. CASE c = b
      <4>1. s \in SignsOf(joined[f])
        BY <1>5, <2>3, <3>1
      <4>2. \A q \in Predecessors(body, b) : SignsOf(ExitOf(F, q)[f]) = {}
        BY <1>18, <1>20, <3>1
      <4>3. s \in SignsOf(F[b][1][f])
        BY <1>19, <2>1, <4>1, <4>2
      <4>4. QED BY <2>2, <3>1, <4>3
    <3>2. CASE c # b
      BY <1>5, <2>2, <2>3, <3>2
    <3>3. QED BY <3>1, <3>2
  <2>4. CASE s \in AllowedBy(OutcomesOf(body, Terminator(body[b])), c)
    <3>1. b = p
      BY <1>20, <2>4, OthersAllowNothing
    <3>2. QED BY <2>4, <3>1
  <2>5. QED BY <1>7, <2>1, <2>3, <2>4
<1>21. IsOpen(body, P, F) /\ IsNarrow(body, P, F) => IsNarrow(body, P, step.facts)
  BY <1>20 DEF IsNarrow
<1>22. QED
  BY <1>7, <1>14, <1>15, <1>16, <1>17, <1>21 DEF step

(***************************************************************************)
(* The loop over blocks and functions.                                     *)
(***************************************************************************)
ConstraintsSettled(f) ==
  ~ HasLoneTest(prog.body[f]) =>
    \A b \in DOMAIN prog.body[f] :
      IsConstrainedBlock(prog.body[f], facts.propagation[f], facts.constraints[f], b)

ConstraintsInv ==
  /\ \A f \in DOMAIN prog.body :
       /\ HasConstraintFacts(prog.body[f], facts.constraints[f])
       /\ pass = "propagation" => facts.constraints[f] = ConstraintsInit(prog.body[f])
       /\ IsOpen(prog.body[f], facts.propagation[f], facts.constraints[f])
       /\ IsNarrow(prog.body[f], facts.propagation[f], facts.constraints[f])
  /\ pass = "constraints" /\ fn # "none" /\ ~ changed /\ ~ HasLoneTest(Body) =>
       \A b \in DOMAIN Body :
         b < block => IsConstrainedBlock(Body, facts.propagation[fn], facts.constraints[fn], b)
  /\ \A f \in DOMAIN prog.body :
       (pass \notin {"propagation", "constraints"} \/ (pass = "constraints" /\ f \notin todo /\ f # fn))
         => ConstraintsSettled(f)

LEMMA TypedPrograms ==
  ASSUME NEW p \in Programs, NEW f \in DOMAIN p.body
  PROVE  IsTypedBody(p.body[f])
BY ProgramsAssumption DEF IsProgram, IsTypedBody

LEMMA InitialIsOpen ==
  ASSUME NEW body, IsBody(body), NEW P
  PROVE  /\ HasConstraintFacts(body, ConstraintsInit(body))
         /\ IsOpen(body, P, ConstraintsInit(body))
         /\ IsNarrow(body, P, ConstraintsInit(body))
<1> DEFINE F == ConstraintsInit(body)
           empty == [f \in Callees(body) |-> Absent]
<1>1. F = [b \in DOMAIN body |-> [k \in 1..Len(body[b]) + 1 |-> empty]]
  BY DEF ConstraintsInit, InitialFacts
<1>2. empty \in [Callees(body) -> Known]
  BY DEF Known
<1> HIDE DEF F, empty
<1>3. HasConstraintFacts(body, F)
  BY <1>1, <1>2 DEF HasConstraintFacts, HasKnownFacts
<1>4. ASSUME NEW b \in DOMAIN body PROVE IsUnvisited(body, P, F, b)
  <2>1. Len(body[b]) \in Nat
    BY BodyShape
  <2>2. Len(body[b]) + 1 \in 1..Len(body[b]) + 1
    BY <2>1
  <2>3. F[b][Len(body[b]) + 1] = empty
    BY <1>1, <2>2
  <2>4. QED BY <2>3, TestedAreCallees DEF IsUnvisited, empty
<1>5. ASSUME NEW b \in DOMAIN body, NEW f \in Callees(body) PROVE SignsOf(F[b][1][f]) = {}
  <2>1. Len(body[b]) \in Nat
    BY BodyShape
  <2>2. F[b][1] = empty
    BY <1>1, <2>1
  <2>3. QED BY <2>2 DEF SignsOf, empty
<1>6. IsNarrow(body, P, F)
  BY <1>5, TestedAreCallees DEF IsNarrow
<1>7. QED BY <1>3, <1>4, <1>6 DEF IsOpen, F

LEMMA ConstraintsInitial == Init => ConstraintsInv
<1> SUFFICES ASSUME Init PROVE ConstraintsInv
  OBVIOUS
<1>1. ASSUME NEW f \in DOMAIN prog.body
      PROVE  /\ HasConstraintFacts(prog.body[f], facts.constraints[f])
             /\ facts.constraints[f] = ConstraintsInit(prog.body[f])
             /\ IsOpen(prog.body[f], facts.propagation[f], facts.constraints[f])
             /\ IsNarrow(prog.body[f], facts.propagation[f], facts.constraints[f])
  <2>1. "constraints" \in Range(Pass)
    BY PassNames DEF Passes
  <2>2. facts.constraints[f] = InitialOf("constraints", prog.body[f])
    BY <2>1 DEF Init
  <2>3. facts.constraints[f] = ConstraintsInit(prog.body[f])
    BY <2>2 DEF InitialOf
  <2>4. IsBody(prog.body[f])
    BY ProgramShape DEF Init
  <2>5. QED BY <2>3, <2>4, InitialIsOpen
<1>2. pass = "propagation"
  BY DEF Init
<1>3. QED BY <1>1, <1>2 DEF ConstraintsInv

(* A visit of a block of the function that the pass is at.                 *)
LEMMA ConstraintsVisitNext ==
  ControlInv /\ ConstraintsInv /\ pass = "constraints" /\ VisitNextBlock => ConstraintsInv'
<1> SUFFICES ASSUME ControlInv, ConstraintsInv, pass = "constraints", VisitNextBlock
             PROVE  ConstraintsInv'
  OBVIOUS
<1> DEFINE P == facts.propagation[fn]
           F == facts.constraints[fn]
           step == ConstraintsStep(Body, P, F, block)
<1>1. /\ facts' = [facts EXCEPT !["constraints"][fn] = step.facts]
      /\ changed' = (changed \/ step.changed)
      /\ block' = block + 1
      /\ UNCHANGED <<prog, pass, todo, fn>>
  BY DEF VisitNextBlock, StepOf
<1>2. fn \in DOMAIN prog.body /\ block \in Nat \ {0} /\ block <= Len(Body) /\ fn # "none"
  BY DEF VisitNextBlock, ControlInv
<1>3. IsTypedBody(Body) /\ IsBody(Body)
  BY <1>2, TypedPrograms DEF ControlInv, Body, IsTypedBody
<1>4. DOMAIN Body = 1..Len(Body) /\ Len(Body) \in Nat
  BY <1>3, BodyShape
<1>5. block \in DOMAIN Body
  BY <1>2, <1>4
<1>6. /\ facts'.constraints[fn] = step.facts
      /\ \A f \in DOMAIN prog.body : f # fn => facts'.constraints[f] = facts.constraints[f]
      /\ facts'.propagation = facts.propagation
  BY <1>1, <1>2 DEF ControlInv, Passes
<1>7. HasConstraintFacts(Body, F) /\ IsOpen(Body, P, F) /\ IsNarrow(Body, P, F)
  BY <1>2 DEF ConstraintsInv, Body
<1>8. /\ HasConstraintFacts(Body, step.facts)
      /\ IsOpen(Body, P, step.facts) /\ IsNarrow(Body, P, step.facts)
      /\ ~ step.changed /\ ~ HasLoneTest(Body) =>
           /\ IsConstrainedBlock(Body, P, step.facts, block)
           /\ \A c \in DOMAIN Body :
                c # block /\ IsConstrainedBlock(Body, P, F, c)
                  => IsConstrainedBlock(Body, P, step.facts, c)
  BY <1>3, <1>5, <1>7, ConstraintsSteps
<1> HIDE DEF step
<1>9. (\A f \in DOMAIN prog.body :
         /\ HasConstraintFacts(prog.body[f], facts.constraints[f])
         /\ pass = "propagation" => facts.constraints[f] = ConstraintsInit(prog.body[f])
         /\ IsOpen(prog.body[f], facts.propagation[f], facts.constraints[f])
         /\ IsNarrow(prog.body[f], facts.propagation[f], facts.constraints[f]))'
  BY <1>1, <1>6, <1>8 DEF ConstraintsInv, Body
<1>10. ASSUME ~ changed', ~ HasLoneTest(Body), NEW b \in DOMAIN Body, b < block + 1
       PROVE  IsConstrainedBlock(Body, P, step.facts, b)
  <2>1. ~ changed /\ ~ step.changed
    BY <1>1, <1>10
  <2>2. CASE b = block
    BY <1>8, <1>10, <2>1, <2>2
  <2>3. CASE b # block
    <3>1. b < block
      BY <1>2, <1>4, <1>10, <2>3
    <3>2. IsConstrainedBlock(Body, P, F, b)
      BY <1>2, <1>10, <2>1, <3>1 DEF ConstraintsInv
    <3>3. QED BY <1>8, <1>10, <2>1, <2>3, <3>2
  <2>4. QED BY <2>2, <2>3
<1>11. (pass = "constraints" /\ fn # "none" /\ ~ changed /\ ~ HasLoneTest(Body) =>
          \A b \in DOMAIN Body :
            b < block => IsConstrainedBlock(Body, facts.propagation[fn], facts.constraints[fn], b))'
  BY <1>1, <1>6, <1>10 DEF Body
<1>12. ASSUME NEW f \in DOMAIN prog.body, f \notin todo, f # fn
       PROVE  ConstraintsSettled(f)'
  BY <1>1, <1>6, <1>12 DEF ConstraintsInv, ConstraintsSettled
<1>13. QED BY <1>1, <1>9, <1>11, <1>12 DEF ConstraintsInv

LEMMA ConstraintsNext == ControlInv /\ ConstraintsInv /\ Analyse => ConstraintsInv'
<1> SUFFICES ASSUME ControlInv, ConstraintsInv, Analyse PROVE ConstraintsInv'
  OBVIOUS
<1>0. "none" \notin DOMAIN prog.body
  BY ProgramShape DEF ControlInv
<1>1. ASSUME NEW f \in todo, Begin(f) PROVE ConstraintsInv'
  <2>1. /\ UNCHANGED <<prog, pass, facts>>
        /\ fn = "none" /\ fn' = f /\ block' = 1 /\ todo' = todo \ {f}
    BY <1>1 DEF Begin
  <2>2. \A b \in DOMAIN Body' : ~ b < 1
    <3>1. f \in DOMAIN prog.body
      BY DEF ControlInv
    <3>2. IsBody(prog.body[f])
      BY <3>1, ProgramShape DEF ControlInv
    <3>3. DOMAIN prog.body[f] = 1..Len(prog.body[f])
      BY <3>2, BodyShape
    <3>4. QED BY <2>1, <3>3 DEF Body
  <2>3. ASSUME NEW g \in DOMAIN prog.body,
               pass \notin {"propagation", "constraints"}
               \/ (pass = "constraints" /\ g \notin todo \ {f} /\ g # f)
        PROVE  ConstraintsSettled(g)
    BY <1>0, <2>1, <2>3 DEF ConstraintsInv
  <2>4. QED BY <2>1, <2>2, <2>3 DEF ConstraintsInv, ConstraintsSettled
<1>2. ASSUME BeginInComponent PROVE ConstraintsInv'
  BY <1>2 DEF BeginInComponent, ConstraintsInv, ConstraintsSettled
<1>3. ASSUME VisitNextBlock PROVE ConstraintsInv'
  <2>1. CASE pass = "constraints"
    BY <1>3, <2>1, ConstraintsVisitNext
  <2>2. PICK step : facts' = [facts EXCEPT ![pass][fn] = step.facts]
    BY <1>3 DEF VisitNextBlock
  <2>3. UNCHANGED <<prog, pass, todo, fn>>
    BY <1>3 DEF VisitNextBlock
  <2>4. CASE pass = "propagation"
    <3>1. facts'.constraints = facts.constraints
      BY <2>2, <2>4 DEF ControlInv, Passes
    <3>2. ASSUME NEW f \in DOMAIN prog.body
          PROVE  /\ HasConstraintFacts(prog.body[f], facts.constraints[f])
                 /\ facts.constraints[f] = ConstraintsInit(prog.body[f])
                 /\ IsOpen(prog.body[f], facts'.propagation[f], facts.constraints[f])
                 /\ IsNarrow(prog.body[f], facts'.propagation[f], facts.constraints[f])
      <4>1. IsBody(prog.body[f])
        BY ProgramShape DEF ControlInv
      <4>2. facts.constraints[f] = ConstraintsInit(prog.body[f])
        BY <2>4 DEF ConstraintsInv
      <4>3. QED BY <4>1, <4>2, InitialIsOpen
    <3>3. QED BY <2>3, <2>4, <3>1, <3>2 DEF ConstraintsInv
  <2>5. CASE pass \notin {"propagation", "constraints"}
    <3>1. facts'.constraints = facts.constraints /\ facts'.propagation = facts.propagation
      BY <2>2, <2>5 DEF ControlInv, Passes
    <3>2. QED BY <2>3, <2>5, <3>1 DEF ConstraintsInv, ConstraintsSettled
  <2>6. QED BY <2>1, <2>4, <2>5
<1>4. ASSUME NextRound PROVE ConstraintsInv'
  <2>1. UNCHANGED <<prog, pass, todo, fn, facts>> /\ block' = 1
    BY <1>4 DEF NextRound
  <2>2. ASSUME fn # "none" PROVE \A b \in DOMAIN Body : ~ b < 1
    <3>1. fn \in DOMAIN prog.body
      BY <2>2 DEF ControlInv
    <3>2. IsBody(Body)
      BY <3>1, ProgramShape DEF ControlInv, Body
    <3>3. DOMAIN Body = 1..Len(Body)
      BY <3>2, BodyShape
    <3>4. QED BY <3>3
  <2>3. QED BY <2>1, <2>2 DEF ConstraintsInv, ConstraintsSettled, Body
<1>5. ASSUME EndFunction PROVE ConstraintsInv'
  <2>1. /\ UNCHANGED <<prog, pass, todo, facts>>
        /\ fn # "none" /\ fn' = "none" /\ block > Len(Body) /\ ~ changed
    BY <1>5 DEF EndFunction
  <2>2. ASSUME pass = "constraints" PROVE ConstraintsSettled(fn)
    <3>1. fn \in DOMAIN prog.body /\ block \in Nat
      BY <2>1 DEF ControlInv
    <3>2. IsBody(Body)
      BY <3>1, ProgramShape DEF ControlInv, Body
    <3>3. DOMAIN Body = 1..Len(Body) /\ Len(Body) \in Nat
      BY <3>2, BodyShape
    <3>4. \A b \in DOMAIN Body : b < block
      BY <2>1, <3>1, <3>3
    <3>5. QED BY <2>1, <2>2, <3>4 DEF ConstraintsInv, ConstraintsSettled, Body
  <2>3. QED BY <2>1, <2>2 DEF ConstraintsInv, ConstraintsSettled
<1>6. ASSUME EndComponent PROVE ConstraintsInv'
  BY <1>6 DEF EndComponent, ConstraintsInv, ConstraintsSettled
<1>7. ASSUME EndPass PROVE ConstraintsInv'
  <2>1. UNCHANGED <<prog, fn, facts>> /\ fn = "none" /\ (pass = "constraints" => todo = {})
    BY <1>7 DEF EndPass
  <2>2. /\ pass' # "propagation"
        /\ pass' = "constraints" => pass = "propagation" /\ todo' = DOMAIN prog.body
        /\ pass' \notin {"propagation", "constraints"} => pass \notin {"propagation"}
    BY <1>7 DEF EndPass, ControlInv, Passes
  <2>3. ASSUME pass' # "constraints", NEW f \in DOMAIN prog.body PROVE ConstraintsSettled(f)
    BY <1>0, <2>1, <2>2, <2>3 DEF ConstraintsInv, ControlInv, Passes
  <2>4. QED BY <2>1, <2>2, <2>3 DEF ConstraintsInv, ConstraintsSettled
<1>8. QED BY <1>1, <1>2, <1>3, <1>4, <1>5, <1>6, <1>7 DEF Analyse

LEMMA ConstraintsAlways == ExecSpec => [](ExecutionInv /\ ConstraintsInv)
<1>1. ExecutionInv /\ ConstraintsInv /\ [ExecNext]_allVars => ConstraintsInv'
  <2> SUFFICES ASSUME ExecutionInv, ConstraintsInv, [ExecNext]_allVars PROVE ConstraintsInv'
    OBVIOUS
  <2>1. CASE Analyse
    BY <2>1, ConstraintsNext DEF ExecutionInv
  <2>2. CASE UNCHANGED vars
    BY <2>2 DEF ConstraintsInv, ConstraintsSettled, Body, vars
  <2>3. QED BY <2>1, <2>2 DEF ExecNext, allVars
<1>2. ExecInit => ConstraintsInv
  BY ConstraintsInitial DEF ExecInit
<1>3. QED BY <1>1, <1>2, ExecutionInitial, ExecutionNext, PTL DEF ExecSpec

(* When ReturnConstraintsPass is over, its facts are a fixpoint in every   *)
(* function without a lone test: the changed of VisitBlock, which looks at *)
(* the facts behind instructions alone, has missed no change of an entry   *)
(* that mattered, because the first visit that passes anything on kills    *)
(* the tested entries of the exit.                                         *)
THEOREM ConstraintsStopAtFixpoint ==
  ExecSpec => [](pass = "done" => \A f \in DOMAIN prog.body :
                                    ~ HasLoneTest(prog.body[f]) => Settled(f, "constraints"))
<1>1. ASSUME ExecutionInv, ConstraintsInv, pass = "done", NEW f \in DOMAIN prog.body,
             ~ HasLoneTest(prog.body[f])
      PROVE  Settled(f, "constraints")
  <2>1. IsTypedBody(prog.body[f])
    BY <1>1, TypedPrograms DEF ExecutionInv, ControlInv
  <2>2. /\ HasConstraintFacts(prog.body[f], facts.constraints[f])
        /\ \A b \in DOMAIN prog.body[f] :
             IsConstrainedBlock(prog.body[f], facts.propagation[f], facts.constraints[f], b)
    BY <1>1 DEF ConstraintsInv, ConstraintsSettled
  <2>3. \A b \in DOMAIN prog.body[f] :
          ConstraintsStep(prog.body[f], facts.propagation[f], facts.constraints[f], b).facts
          = facts.constraints[f]
    BY <2>1, <2>2, ConstraintsSteps
  <2>4. QED BY <2>3 DEF Settled
<1>2. ExecutionInv /\ ConstraintsInv =>
        (pass = "done" => \A f \in DOMAIN prog.body :
                            ~ HasLoneTest(prog.body[f]) => Settled(f, "constraints"))
  BY <1>1
<1>3. QED BY <1>2, ConstraintsAlways, PTL

(***************************************************************************)
(* ReturnRangePass.  The slot that the test of a branch or a switch looks  *)
(* at, the outcomes that may still return it, and the fact behind an       *)
(* instruction: R is what may be returned, D the ranges of functions.      *)
(***************************************************************************)
SlotOf(body, inst, after) ==
  IF inst.op = "branch" THEN BranchedSlot(body, Definition(body, inst.a), after)
  ELSE IF inst.op = "switch" THEN CheckedReturnValue(body, inst, inst.a, after)
  ELSE "none"

SlotsTested(body, inst, after) == {SlotOf(body, inst, after)} \ {"none"}

(* What the default of a switch passes on where something is known.        *)
DefaultOutcome(inst, before, tested) ==
  IF inst.op = "switch" /\ \E v \in tested : before[v] # Absent THEN {<<inst.e, "top">>} ELSE {}

RangeOutcomes(body, R, before, inst, tested) ==
  IF tested = {} THEN {}
  ELSE {o \in (IF inst.op = "branch" THEN BranchOutcomes(body, inst) ELSE CaseOutcomes(inst))
              \cup DefaultOutcome(inst, before, tested) : tested \subseteq R[o[1]][1]}

RangeAfter(body, D, after, before, inst, old) ==
  CASE inst.op = "store" -> RangeCopied(body, D, before, after, inst.a, inst.b)
    [] inst.op \in LoadLike \cup {"trunc", "sext"} ->
         RangeCopied(body, D, before, after, inst.a, inst.id)
    [] inst.op = "phi"    -> RangePhi(body, D, before, after, inst)
    [] inst.op = "return" -> old
    [] OTHER -> [v \in DOMAIN before |-> IF v \in SlotsTested(body, inst, after) THEN Absent
                                         ELSE Filtered(before, after)[v]]

Ranged(body, D, R, fs, b, k) ==
  LET tested == SlotsTested(body, body[b][k], R[b][k + 1])
  IN PassOn(SetAt(fs, b, k + 1,
                  RangeAfter(body, D, R[b][k + 1], fs[b][k], body[b][k], fs[b][k + 1])),
            RangeOutcomes(body, R, fs[b][k], body[b][k], tested), fs[b][k], tested)

(* What the test of the block leaves has arrived at its successors.        *)
HasPassedRange(body, R, F, b) ==
  LET n      == Len(body[b])
      tested == SlotsTested(body, body[b][n], R[b][n + 1])
  IN ArePassedOn(RangeOutcomes(body, R, F[b][n], body[b][n], tested), F[b][n], tested, F)

IsRangedAt(body, D, R, F, b, k) ==
  F[b][k + 1] = RangeAfter(body, D, R[b][k + 1], F[b][k], body[b][k], F[b][k + 1])

IsRanged(body, D, R, F, b) == \A k \in 1..Len(body[b]) : IsRangedAt(body, D, R, F, b, k)

IsFedRange(body, R, F, b) ==
  \A p \in Predecessors(body, b) : \A v \in ValuesOf(body) :
    v \in R[b][1] => Below(F[p][Len(body[p]) + 1][v], F[b][1][v])

IsRangedBlock(body, D, R, F, b) ==
  IsRanged(body, D, R, F, b) /\ IsFedRange(body, R, F, b) /\ HasPassedRange(body, R, F, b)

(* Nothing is known behind any instruction.                                *)
IsBlank(body, F) ==
  \A b \in DOMAIN body : \A k \in 1..Len(body[b]) : \A v \in ValuesOf(body) :
    F[b][k + 1][v] = Absent

IsQuiet(body, R, F) == IsBlank(body, F) \/ \A b \in DOMAIN body : HasPassedRange(body, R, F, b)

(* The name that an instruction gives a range to, and all such names: in a *)
(* plain body the facts have entries of these only, and of them only where *)
(* they may be returned.                                                   *)
Target(inst) ==
  IF inst.op = "store" THEN {inst.b}
  ELSE IF inst.op \in LoadLike \cup {"trunc", "sext", "phi"} THEN {inst.id} ELSE {}

Tracked(body) == UNION {Target(i) : i \in InstructionsOf(body)}

TracksOnly(body, R, F) ==
  \A b \in DOMAIN body : \A k \in 1..Len(body[b]) + 1 : \A v \in ValuesOf(body) :
    F[b][k][v] # Absent => v \in Tracked(body) /\ v \in R[b][k]

(* No instruction of the block gives a range to a name that may be         *)
(* returned behind it.                                                     *)
TracksNothing(body, R, b) ==
  \A k \in 1..Len(body[b]) : Target(body[b][k]) \cap R[b][k + 1] = {}

(* x, the range of the function, has that of what the block returns; in    *)
(* the second place of a value that has no entry in the facts.             *)
IsReturnRanged(body, D, F, b, x) ==
  LET last == Terminator(body[b])
  IN last.op = "return" => Below(RangeOf(body, D, F[b][Len(body[b])], last.a), x)

IsReturnAbstract(body, D, b, x) ==
  LET last == Terminator(body[b])
  IN last.op = "return" /\ last.a \notin Tracked(body) => Below(AbstractValue(body, D, last.a), x)

(* What is settled of a block if something is known behind instructions of *)
(* the function, and if not.                                               *)
IsFullyRanged(body, D, R, F, b, x) ==
  IsRangedBlock(body, D, R, F, b) /\ IsReturnRanged(body, D, F, b, x)

IsNowhereRanged(body, D, R, b, x) ==
  TracksNothing(body, R, b) /\ (IsPlain(body) => IsReturnAbstract(body, D, b, x))

(***************************************************************************)
(* Where ReturnRangePass is: the function it is at is that of its place in *)
(* the component.  A function is settled if nothing of what it has passed  *)
(* on would change anything, or if it has found nothing.                   *)
(***************************************************************************)
RangeSettled(f) ==
  ~ HasLoneTest(prog.body[f]) =>
    \/ /\ IsBlank(prog.body[f], facts.range[f])
       /\ \A b \in DOMAIN prog.body[f] :
            IsNowhereRanged(prog.body[f], ranges, facts.returned[f], b, ranges[f])
    \/ \A b \in DOMAIN prog.body[f] :
         IsFullyRanged(prog.body[f], ranges, facts.returned[f], facts.range[f], b, ranges[f])

(* The pass comes back to this component.                                  *)
ComesBack == prog.components[component].loop /\ moved

RangePlaceInv ==
  /\ ranges = [f \in DOMAIN prog.body |-> ranges[f]]
  /\ pass \in {"propagation", "constraints", "returned"} => component = 1 /\ position = 1
  /\ pass = "done" => component > Len(prog.components)
  /\ pass = "range" /\ fn # "none" =>
       /\ component \in DOMAIN prog.components
       /\ position \in DOMAIN prog.components[component].functions
       /\ fn = prog.components[component].functions[position] /\ fn \notin prog.void

RangeFactsInv ==
  \A f \in DOMAIN prog.body :
    /\ ranges[f] \in Known
    /\ HasKnownFacts(prog.body[f], ValuesOf(prog.body[f]), facts.range[f])
    /\ pass \in {"propagation", "constraints", "returned"} => IsBlank(prog.body[f], facts.range[f])
    /\ ~ HasLoneTest(prog.body[f]) /\ (pass = "range" /\ f = fn => ~ changed) =>
         IsQuiet(prog.body[f], facts.returned[f], facts.range[f])

RangeRoundInv ==
  pass = "range" /\ fn # "none" /\ ~ HasLoneTest(Body) =>
    /\ \A b \in DOMAIN Body :
         b < block => HasPassedRange(Body, facts.returned[fn], facts.range[fn], b)
    /\ \/ changed \/ ComesBack
       \/ /\ IsBlank(Body, facts.range[fn])
          /\ \A b \in DOMAIN Body :
               b < block => IsNowhereRanged(Body, ranges, facts.returned[fn], b, ranges[fn])
       \/ \A b \in DOMAIN Body :
            b < block => IsFullyRanged(Body, ranges, facts.returned[fn], facts.range[fn], b, ranges[fn])

RangeDoneInv ==
  pass \in {"range", "done"} =>
    /\ \A i \in DOMAIN prog.components : i < component =>
         \A f \in InComponent(prog, i) \ prog.void : RangeSettled(f)
    /\ component \in DOMAIN prog.components =>
         \A q \in DOMAIN prog.components[component].functions :
           LET f == prog.components[component].functions[q]
           IN q < position /\ f \notin prog.void /\ f # fn => ComesBack \/ RangeSettled(f)

RangeInv == RangePlaceInv /\ RangeFactsInv /\ RangeRoundInv /\ RangeDoneInv

(* The facts are those of the beginning until the pass begins.             *)
TrackedInv ==
  \A f \in DOMAIN prog.body :
    /\ pass \in {"propagation", "constraints", "returned"} =>
         facts.range[f] = RangeInit(prog.body[f])
    /\ IsPlain(prog.body[f]) => TracksOnly(prog.body[f], facts.returned[f], facts.range[f])

HasRangeFacts(body, F) == HasKnownFacts(body, ValuesOf(body), F)

AreRanges(D) == \A f \in DOMAIN D : D[f] \in Known

LEMMA PreviousStores ==
  ASSUME NEW body, IsBody(body), NEW cmp \in InstructionsOf(body), Previous(body, cmp).op = "store"
  PROVE  Previous(body, cmp) \in InstructionsOf(body)
<1> DEFINE prev == Previous(body, cmp)
           b == CHOOSE b \in DOMAIN body : \E k \in DOMAIN body[b] : body[b][k] = cmp
           k == CHOOSE k \in DOMAIN body[b] : body[b][k] = cmp
<1>1. \E c \in DOMAIN body : \E j \in DOMAIN body[c] : body[c][j] = cmp
  BY DEF InstructionsOf, Range
<1>2. b \in DOMAIN body /\ \E j \in DOMAIN body[b] : body[b][j] = cmp
  BY <1>1
<1> HIDE DEF b
<1>3. k \in DOMAIN body[b]
  BY <1>2
<1>4. prev = IF k = 1 THEN [op |-> "none"] ELSE body[b][k - 1]
  BY DEF Previous, b
<1> HIDE DEF k
<1>5. DOMAIN body[b] = 1..Len(body[b]) /\ Len(body[b]) \in Nat
  BY <1>2, BodyShape
<1>6. prev.op = "store"
  OBVIOUS
<1> HIDE DEF prev
<1>7. k # 1
  BY <1>4, <1>6
<1>8. k - 1 \in 1..Len(body[b]) /\ prev = body[b][k - 1]
  BY <1>3, <1>4, <1>5, <1>7
<1>9. prev \in InstructionsOf(body)
  BY <1>2, <1>8, BodyShape
<1>10. QED BY <1>9 DEF prev

(* The slots that a test looks at have names; in a plain body they are     *)
(* slots that something is stored in.                                      *)
LEMMA CheckedIsValue ==
  ASSUME NEW body, IsBody(body), NEW cmp \in InstructionsOf(body), NEW v, NEW after
  PROVE  LET slot == CheckedReturnValue(body, cmp, v, after)
         IN slot # "none" => /\ slot \in ValuesOf(body) /\ slot \in after
                             /\ IsPlain(body) => slot \in Slots(body)
<1> DEFINE def  == Definition(body, v)
           prev == Previous(body, cmp)
<1>1. ASSUME def.op = "load" PROVE def.a \in ValuesOf(body) /\ (IsPlain(body) => def.a \in Slots(body))
  <2>1. def \in InstructionsOf(body)
    BY <1>1, DefinedInstruction
  <2>2. Reads(def) = {def.a}
    BY <1>1 DEF Reads, LoadLike
  <2>3. def.a \in ValuesOf(body)
    BY <1>1, <2>1, <2>2, OperandsAreValues
  <2>4. IsPlain(body) => def.a \in Slots(body)
    BY <1>1, <2>1 DEF IsPlain
  <2>5. QED BY <2>3, <2>4
<1>2. ASSUME prev.op = "store" PROVE prev.b \in ValuesOf(body) /\ prev.b \in Slots(body)
  <2>1. prev \in InstructionsOf(body)
    BY <1>2, PreviousStores
  <2> HIDE DEF prev
  <2>2. QED BY <1>2, <2>1 DEF Slots, ValuesOf
<1>3. QED BY <1>1, <1>2 DEF CheckedReturnValue

LEMMA SlotsAreValues ==
  ASSUME NEW body, IsBody(body), NEW inst \in InstructionsOf(body), NEW after
  PROVE  /\ SlotsTested(body, inst, after) \subseteq ValuesOf(body) \cap after
         /\ IsPlain(body) => SlotsTested(body, inst, after) \subseteq Slots(body)
<1> DEFINE test == Definition(body, inst.a)
<1>1. CASE inst.op = "branch" /\ test.op = "icmp"
  <2>1. test \in InstructionsOf(body)
    BY <1>1, DefinedInstruction
  <2>2. SlotOf(body, inst, after) = BranchedSlot(body, test, after)
    BY <1>1 DEF SlotOf
  <2> HIDE DEF test
  <2>3. QED BY <1>1, <2>1, <2>2, CheckedIsValue DEF SlotsTested, BranchedSlot
<1>2. CASE inst.op = "switch"
  BY <1>2, CheckedIsValue DEF SlotsTested, SlotOf
<1>3. CASE ~ (inst.op = "branch" /\ test.op = "icmp") /\ inst.op # "switch"
  BY <1>3 DEF SlotsTested, SlotOf, BranchedSlot
<1>4. QED BY <1>1, <1>2, <1>3

(* A branch that looks at a slot is on a comparison.                       *)
LEMMA SlotOfComparison ==
  ASSUME NEW body, NEW inst, NEW after, SlotsTested(body, inst, after) # {}
  PROVE  \/ inst.op = "switch"
         \/ inst.op = "branch" /\ Definition(body, inst.a).op = "icmp"
BY DEF SlotsTested, SlotOf, BranchedSlot

LEMMA AbstractValueType ==
  ASSUME NEW body, NEW D, AreRanges(D), NEW v
  PROVE  AbstractValue(body, D, v) \in SignLatticeElement
<1> DEFINE inst == Definition(body, v)
<1>1. {"0", "<0", ">0", "!=0", ">=0", "top", "bottom"} \subseteq SignLatticeElement
  BY DEF SignLatticeElement
<1>2. v \in DOMAIN IntegerConstant => AbstractInteger(v) \in SignLatticeElement
  BY <1>1, AbstractIntegerType
<1>3. inst.f \in DOMAIN D =>
        (IF D[inst.f] = Absent THEN "bottom" ELSE D[inst.f]) \in SignLatticeElement
  BY <1>1 DEF AreRanges, Known
<1>4. QED BY <1>1, <1>2, <1>3 DEF AbstractValue

LEMMA RangeOfType ==
  ASSUME NEW body, NEW D, AreRanges(D), NEW fact \in [ValuesOf(body) -> Known],
         NEW v \in ValuesOf(body)
  PROVE  RangeOf(body, D, fact, v) \in SignLatticeElement
BY AbstractValueType DEF RangeOf, Known

LEMMA FilteredType ==
  ASSUME NEW keys, NEW fact \in [keys -> Known], NEW set
  PROVE  Filtered(fact, set) \in [keys -> Known]
BY DEF Filtered, Known

LEMMA RangeAfterType ==
  ASSUME NEW body, IsTypedBody(body), NEW D, AreRanges(D), NEW after,
         NEW before \in [ValuesOf(body) -> Known], NEW inst \in InstructionsOf(body),
         NEW old \in [ValuesOf(body) -> Known]
  PROVE  RangeAfter(body, D, after, before, inst, old) \in [ValuesOf(body) -> Known]
<1> DEFINE keys == ValuesOf(body)
           out  == Filtered(before, after)
<1>1. out \in [keys -> Known]
  BY FilteredType
<1>2. inst.id \in keys /\ (inst.op = "store" => inst.b \in keys)
  BY DEF ValuesOf, Slots
<1>3. ASSUME NEW source \in keys, NEW target \in keys
      PROVE  RangeCopied(body, D, before, after, source, target) \in [keys -> Known]
  <2>1. RangeOf(body, D, before, source) \in Known
    BY RangeOfType DEF Known
  <2> HIDE DEF keys
  <2>2. QED BY <1>1, <2>1 DEF RangeCopied
<1>4. CASE inst.op \in {"store", "trunc", "sext"} \cup LoadLike
  <2>1. Reads(inst) = {inst.a}
    BY <1>4 DEF Reads, LoadLike, BitCastLike
  <2>2. inst.op # "phi"
    BY <1>4 DEF LoadLike, BitCastLike
  <2>3. inst.a \in keys
    BY <2>1, <2>2, OperandsAreValues
  <2>4. RangeAfter(body, D, after, before, inst, old)
        = IF inst.op = "store" THEN RangeCopied(body, D, before, after, inst.a, inst.b)
          ELSE RangeCopied(body, D, before, after, inst.a, inst.id)
    BY <1>4 DEF RangeAfter, LoadLike, BitCastLike
  <2> HIDE DEF keys
  <2>5. QED BY <1>2, <1>3, <2>3, <2>4 DEF keys
<1>5. CASE inst.op = "phi"
  <2> DEFINE xs == {RangeOf(body, D, before, inst.in[p]) : p \in DOMAIN inst.in}
  <2>1. ASSUME NEW p \in DOMAIN inst.in
        PROVE  RangeOf(body, D, before, inst.in[p]) \in SignLatticeElement
    <3>1. inst.in[p] \in keys
      BY <1>5, OperandsAreValues DEF Range
    <3>2. QED BY <3>1, RangeOfType
  <2>2. xs \in SUBSET SignLatticeElement
    BY <2>1
  <2> HIDE DEF xs
  <2>3. JoinTable[xs] \in Known
    BY <2>2, JoinTableIsExact DEF Known
  <2>4. RangeAfter(body, D, after, before, inst, old)
        = IF inst.id \notin after THEN out ELSE [out EXCEPT ![inst.id] = JoinTable[xs]]
    BY <1>5 DEF RangeAfter, RangePhi, xs, LoadLike, BitCastLike
  <2> HIDE DEF out, keys
  <2>5. QED BY <1>1, <2>3, <2>4 DEF keys
<1>6. CASE inst.op = "return"
  BY <1>6 DEF RangeAfter, LoadLike, BitCastLike
<1>7. CASE inst.op \notin {"store", "trunc", "sext", "phi", "return"} \cup LoadLike
  <2>1. RangeAfter(body, D, after, before, inst, old)
        = [v \in DOMAIN before |-> IF v \in SlotsTested(body, inst, after) THEN Absent ELSE out[v]]
    BY <1>7 DEF RangeAfter
  <2> HIDE DEF out
  <2>2. DOMAIN before = keys /\ \A v \in keys : out[v] \in Known
    BY <1>1
  <2>3. Absent \in Known
    BY DEF Known
  <2>4. QED BY <2>1, <2>2, <2>3
<1>8. QED BY <1>4, <1>5, <1>6, <1>7

LEMMA RangeOutcomesType ==
  ASSUME NEW body, IsTypedBody(body), NEW R, NEW before, NEW after,
         NEW b \in DOMAIN body, NEW k \in 1..Len(body[b])
  PROVE  AreOutcomes(body, RangeOutcomes(body, R, before, body[b][k],
                                         SlotsTested(body, body[b][k], after)))
<1> DEFINE inst == body[b][k]
           tested == SlotsTested(body, inst, after)
           outcomes == RangeOutcomes(body, R, before, inst, tested)
<1>1. IsBody(body) /\ k \in DOMAIN body[b]
  BY BodyShape DEF IsTypedBody
<1>2. inst.op \in {"branch", "switch"} => k = Len(body[b])
  BY <1>1 DEF IsBody, IsBlock
<1>3. Successors(Terminator(body[b])) \subseteq DOMAIN body
  BY DEF IsTypedBody, IsBody
<1>4. inst.op = "switch" => inst.e \in DOMAIN body
  BY <1>2, <1>3 DEF Terminator, Successors
<1>5. SUFFICES ASSUME NEW o \in outcomes PROVE o[1] \in DOMAIN body /\ o[2] \in SignLatticeElement
  BY DEF AreOutcomes
<1>6. tested # {}
  BY <1>5 DEF RangeOutcomes
<1>7. o \in (IF inst.op = "branch" THEN BranchOutcomes(body, inst) ELSE CaseOutcomes(inst))
      \/ o \in DefaultOutcome(inst, before, tested)
  BY <1>5, <1>6 DEF RangeOutcomes
<1>8. inst.op = "switch" \/ (inst.op = "branch" /\ Definition(body, inst.a).op = "icmp")
  BY <1>6, SlotOfComparison
<1>9. ASSUME o \in OutcomesOf(body, inst) PROVE o[1] \in DOMAIN body /\ o[2] \in SignLatticeElement
  <2> HIDE DEF outcomes
  <2>1. QED BY <1>9, OutcomesAreTyped
<1>10. CASE o \in DefaultOutcome(inst, before, tested)
  <2>1. inst.op = "switch" /\ o = <<inst.e, "top">>
    BY <1>10 DEF DefaultOutcome
  <2>2. QED BY <1>4, <2>1 DEF SignLatticeElement
<1>11. CASE o \in (IF inst.op = "branch" THEN BranchOutcomes(body, inst) ELSE CaseOutcomes(inst))
  <2>1. o \in OutcomesOf(body, inst)
    BY <1>8, <1>11 DEF OutcomesOf
  <2>2. QED BY <1>9, <2>1
<1>12. QED BY <1>7, <1>10, <1>11

(* The dispatch of VisitBlock, for a test in particular.                   *)
LEMMA RangesInst ==
  ASSUME NEW body, IsTypedBody(body), NEW D, AreRanges(D), NEW R, NEW F, HasRangeFacts(body, F),
         NEW b \in DOMAIN body, NEW k \in 1..Len(body[b])
  PROVE  RangeInst(body, D, R, F, b, k) = Ranged(body, D, R, F, b, k)
<1> DEFINE inst   == body[b][k]
           before == F[b][k]
           after  == R[b][k + 1]
           fact   == RangeAfter(body, D, after, before, inst, F[b][k + 1])
           G      == SetAt(F, b, k + 1, fact)
           tested == SlotsTested(body, inst, after)
           outcomes == RangeOutcomes(body, R, before, inst, tested)
           out    == Filtered(before, after)
<1>1. /\ inst \in InstructionsOf(body) /\ IsBody(body)
      /\ k \in 1..Len(body[b]) + 1 /\ k + 1 \in 1..Len(body[b]) + 1
  <2>1. inst \in InstructionsOf(body) /\ IsBody(body) /\ Len(body[b]) \in Nat
    BY BodyShape DEF IsTypedBody
  <2>2. QED BY <2>1
<1>2. before \in [ValuesOf(body) -> Known] /\ F[b][k + 1] \in [ValuesOf(body) -> Known]
  BY <1>1 DEF HasRangeFacts, HasKnownFacts
<1>3. fact \in [ValuesOf(body) -> Known]
  BY <1>1, <1>2, RangeAfterType
<1>4. HasKnownFacts(body, ValuesOf(body), G)
  BY <1>1, <1>3, SetKnownPoint DEF HasRangeFacts
<1>5. Ranged(body, D, R, F, b, k) = PassOn(G, outcomes, before, tested)
  BY Zenon DEF Ranged
<1>6. ASSUME tested = {} PROVE Ranged(body, D, R, F, b, k) = G
  <2> HIDE DEF G, outcomes, tested, before
  <2>1. QED BY <1>1, <1>4, <1>5, <1>6, PassOnNothing
<1>7. inst.op \notin {"branch", "switch"} => tested = {}
  BY SlotOfComparison
<1>8. inst.op \notin LoadLike \cup {"store", "trunc", "sext", "phi", "return"} =>
        fact = [v \in DOMAIN before |-> IF v \in tested THEN Absent ELSE out[v]]
  BY DEF RangeAfter
<1>9. tested = {} => [v \in DOMAIN before |-> IF v \in tested THEN Absent ELSE out[v]] = out
  BY DEF Filtered
<1>10. CASE inst.op \in LoadLike \cup {"store", "trunc", "sext", "phi"}
  <2>1. RangeInst(body, D, R, F, b, k) = [F EXCEPT ![b][k + 1] = fact]
    BY <1>10, Zenon DEF RangeInst, RangeAfter, LoadLike, BitCastLike
  <2>2. tested = {}
    BY <1>7, <1>10 DEF LoadLike, BitCastLike
  <2>3. QED BY <1>6, <2>1, <2>2 DEF SetAt
<1>11. CASE inst.op = "return"
  <2>1. RangeInst(body, D, R, F, b, k) = F /\ fact = F[b][k + 1]
    BY <1>11 DEF RangeInst, RangeAfter, LoadLike, BitCastLike
  <2>2. G = F
    BY <1>1, <1>2, <2>1, SetKnownPoint DEF HasRangeFacts
  <2>3. QED BY <1>6, <1>7, <1>11, <2>1, <2>2
<1>12. CASE inst.op \notin LoadLike \cup {"store", "trunc", "sext", "phi", "return", "branch", "switch"}
  <2>1. RangeInst(body, D, R, F, b, k) = [F EXCEPT ![b][k + 1] = out]
    BY <1>12, Zenon DEF RangeInst
  <2>2. tested = {} /\ fact = out
    BY <1>7, <1>8, <1>9, <1>12
  <2>3. QED BY <1>6, <2>1, <2>2 DEF SetAt
<1> DEFINE Passed(slot, left) ==
             PassOn([F EXCEPT ![b][k + 1] = [out EXCEPT ![slot] = Absent]],
                    {o \in left : slot \in EntryOf(R, o[1])}, before, {slot})
<1>13. ASSUME NEW slot, slot # "none", NEW left, inst.op \in {"branch", "switch"},
              slot = SlotOf(body, inst, after),
              left = (IF inst.op = "branch" THEN BranchOutcomes(body, inst) ELSE CaseOutcomes(inst))
                     \cup DefaultOutcome(inst, before, {slot})
       PROVE  Passed(slot, left) = Ranged(body, D, R, F, b, k)
  <2>1. tested = {slot}
    BY <1>13 DEF SlotsTested
  <2>2. outcomes = {o \in left : slot \in EntryOf(R, o[1])}
    <3>1. outcomes = {o \in left : {slot} \subseteq R[o[1]][1]}
      BY <1>13, <2>1 DEF RangeOutcomes
    <3>2. QED BY <3>1 DEF EntryOf
  <2>3. fact = [v \in DOMAIN before |-> IF v \in {slot} THEN Absent ELSE out[v]]
    BY <1>8, <1>13, <2>1 DEF LoadLike, BitCastLike
  <2>4. [out EXCEPT ![slot] = Absent] = [v \in DOMAIN before |-> IF v \in {slot} THEN Absent ELSE out[v]]
    BY DEF Filtered
  <2> HIDE DEF fact, outcomes, tested, before, out
  <2>5. QED BY <1>5, <2>1, <2>2, <2>3, <2>4 DEF SetAt
<1>14. CASE inst.op = "branch"
  <2> DEFINE slot == BranchedSlot(body, Definition(body, inst.a), after)
             left == BranchOutcomes(body, inst)
  <2>1. slot = SlotOf(body, inst, after)
    BY <1>14 DEF SlotOf
  <2>2. RangeInst(body, D, R, F, b, k)
        = IF slot = "none" THEN [F EXCEPT ![b][k + 1] = out] ELSE Passed(slot, left)
    BY <1>14 DEF RangeInst, RangeBranch, PassRange, LoadLike, BitCastLike
  <2>3. CASE slot = "none"
    <3>1. tested = {}
      BY <2>1, <2>3 DEF SlotsTested
    <3>2. fact = out
      BY <1>8, <1>9, <1>14, <3>1 DEF LoadLike, BitCastLike
    <3>3. QED BY <1>6, <2>2, <2>3, <3>1, <3>2 DEF SetAt
  <2>4. CASE slot # "none"
    <3>1. left = BranchOutcomes(body, inst) \cup DefaultOutcome(inst, before, {slot})
      BY <1>14 DEF DefaultOutcome
    <3> HIDE DEF slot, Passed, left
    <3>2. QED BY <1>13, <1>14, <2>1, <2>2, <2>4, <3>1
  <2>5. QED BY <2>3, <2>4
<1>15. CASE inst.op = "switch"
  <2> DEFINE slot == CheckedReturnValue(body, inst, inst.a, after)
             left == CaseOutcomes(inst) \cup IF before[slot] = Absent THEN {} ELSE {<<inst.e, "top">>}
  <2>1. slot = SlotOf(body, inst, after)
    BY <1>15 DEF SlotOf
  <2>2. RangeInst(body, D, R, F, b, k)
        = IF slot = "none" THEN [F EXCEPT ![b][k + 1] = out] ELSE Passed(slot, left)
    BY <1>15 DEF RangeInst, RangeSwitch, PassRange, LoadLike, BitCastLike
  <2>3. CASE slot = "none"
    <3>1. tested = {}
      BY <2>1, <2>3 DEF SlotsTested
    <3>2. fact = out
      BY <1>8, <1>9, <1>15, <3>1 DEF LoadLike, BitCastLike
    <3>3. QED BY <1>6, <2>2, <2>3, <3>1, <3>2 DEF SetAt
  <2>4. CASE slot # "none"
    <3>1. left = CaseOutcomes(inst) \cup DefaultOutcome(inst, before, {slot})
      BY <1>15 DEF DefaultOutcome
    <3> HIDE DEF slot, Passed, left
    <3>2. QED BY <1>13, <1>15, <2>1, <2>2, <2>4, <3>1
  <2>5. QED BY <2>3, <2>4
<1>16. QED BY <1>10, <1>11, <1>12, <1>14, <1>15

(* What PassOn writes to an entry is what an outcome passes on.            *)
LEMMA PassOnReaches ==
  ASSUME NEW body, IsBody(body), NEW keys, NEW F, HasKnownFacts(body, keys, F),
         NEW outcomes, NEW before, NEW tested, NEW c \in DOMAIN body, NEW v \in keys,
         PassOn(F, outcomes, before, tested)[c][1][v] # F[c][1][v]
  PROVE  v \in tested /\ \E o \in outcomes : o[1] = c
<1> DEFINE left(f) == {Refine(o[2], before[f]) : o \in {p \in outcomes : p[1] = c}}
<1>0. Len(body[c]) \in Nat
  BY BodyShape
<1>1. 1 \in 1..Len(body[c]) + 1 /\ c \in DOMAIN F
  BY <1>0 DEF HasKnownFacts
<1>2. 1 \in DOMAIN F[c] /\ DOMAIN F[c][1] = keys
  BY <1>1 DEF HasKnownFacts
<1> HIDE DEF left
<1>3. PassOn(F, outcomes, before, tested)[c][1][v]
      = IF v \in tested /\ left(v) # {}
        THEN JoinTable[({F[c][1][v]} \cup left(v)) \ {Absent}] ELSE F[c][1][v]
  BY <1>1, <1>2 DEF PassOn, left
<1>4. v \in tested /\ left(v) # {}
  BY <1>3
<1>5. QED BY <1>4 DEF left

(* Behind an instruction something is known of what was known before, and  *)
(* of the name that it gives a range to, if they may be returned.          *)
LEMMA RangeAfterTracks ==
  ASSUME NEW body, NEW D, NEW after, NEW before \in [ValuesOf(body) -> Known], NEW inst, NEW old,
         NEW v \in ValuesOf(body), RangeAfter(body, D, after, before, inst, old)[v] # Absent
  PROVE  \/ v \in after /\ (v \in Target(inst) \/ before[v] # Absent)
         \/ inst.op = "return" /\ old[v] # Absent
<1> DEFINE out == Filtered(before, after)
<1>1. DOMAIN out = ValuesOf(body) /\ (out[v] # Absent => v \in after /\ before[v] # Absent)
  BY DEF Filtered
<1> HIDE DEF out
<1>2. ASSUME NEW source, NEW target, RangeCopied(body, D, before, after, source, target)[v] # Absent
      PROVE  v \in after /\ (v = target \/ before[v] # Absent)
  <2> DEFINE x == RangeOf(body, D, before, source)
  <2>1. RangeCopied(body, D, before, after, source, target)
        = IF target \notin after THEN out ELSE [out EXCEPT ![target] = x]
    BY Zenon DEF RangeCopied, out
  <2> HIDE DEF x
  <2>2. CASE target \notin after
    BY <1>1, <1>2, <2>1, <2>2
  <2>3. CASE target \in after
    <3>1. v # target => RangeCopied(body, D, before, after, source, target)[v] = out[v]
      BY <1>1, <2>1, <2>3
    <3>2. QED BY <1>1, <1>2, <2>3, <3>1
  <2>4. QED BY <2>2, <2>3
<1>3. CASE inst.op = "store"
  <2>1. RangeAfter(body, D, after, before, inst, old)
        = RangeCopied(body, D, before, after, inst.a, inst.b)
    BY <1>3 DEF RangeAfter, LoadLike, BitCastLike
  <2>2. v \in after /\ (v = inst.b \/ before[v] # Absent)
    BY <1>2, <2>1
  <2>3. QED BY <1>3, <2>2 DEF Target
<1>4. CASE inst.op \in LoadLike \cup {"trunc", "sext"}
  <2>1. RangeAfter(body, D, after, before, inst, old)
        = RangeCopied(body, D, before, after, inst.a, inst.id)
    BY <1>4 DEF RangeAfter, LoadLike, BitCastLike
  <2>2. v \in after /\ (v = inst.id \/ before[v] # Absent)
    BY <1>2, <2>1
  <2>3. QED BY <1>4, <2>2 DEF Target, LoadLike, BitCastLike
<1>5. CASE inst.op = "phi"
  <2> DEFINE x == JoinTable[{RangeOf(body, D, before, inst.in[p]) : p \in DOMAIN inst.in}]
  <2>1. RangePhi(body, D, before, after, inst)
        = IF inst.id \notin after THEN out ELSE [out EXCEPT ![inst.id] = x]
    BY DEF RangePhi, out
  <2>2. RangeAfter(body, D, after, before, inst, old) = RangePhi(body, D, before, after, inst)
    BY <1>5 DEF RangeAfter, LoadLike, BitCastLike
  <2> HIDE DEF x
  <2>3. (v = inst.id /\ v \in after) \/ out[v] # Absent
    BY <1>1, <2>1, <2>2
  <2>4. QED BY <1>1, <1>5, <2>3 DEF Target
<1>6. CASE inst.op = "return"
  BY <1>6 DEF RangeAfter, LoadLike, BitCastLike
<1>7. CASE inst.op \notin {"store", "trunc", "sext", "phi", "return"} \cup LoadLike
  <2>1. RangeAfter(body, D, after, before, inst, old)
        = [w \in DOMAIN before |-> IF w \in SlotsTested(body, inst, after) THEN Absent ELSE out[w]]
    BY <1>7 DEF RangeAfter, out
  <2>2. QED BY <1>1, <2>1
<1>8. QED BY <1>3, <1>4, <1>5, <1>6, <1>7

LEMMA RangeInstTracks ==
  ASSUME NEW body, IsTypedBody(body), IsPlain(body), NEW D, AreRanges(D), NEW R,
         NEW F, HasRangeFacts(body, F), TracksOnly(body, R, F),
         NEW b \in DOMAIN body, NEW k \in 1..Len(body[b])
  PROVE  LET G == RangeInst(body, D, R, F, b, k) IN HasRangeFacts(body, G) /\ TracksOnly(body, R, G)
<1> DEFINE keys == ValuesOf(body)
           inst == body[b][k]
           fact == RangeAfter(body, D, R[b][k + 1], F[b][k], inst, F[b][k + 1])
           K == SetAt(F, b, k + 1, fact)
           tested == SlotsTested(body, inst, R[b][k + 1])
           outcomes == RangeOutcomes(body, R, F[b][k], inst, tested)
           G == PassOn(K, outcomes, F[b][k], tested)
<1>1. /\ inst \in InstructionsOf(body) /\ IsBody(body)
      /\ k \in 1..Len(body[b]) + 1 /\ k + 1 \in 1..Len(body[b]) + 1 /\ 1 \in 1..Len(body[b]) + 1
  <2>1. inst \in InstructionsOf(body) /\ IsBody(body) /\ Len(body[b]) \in Nat
    BY BodyShape DEF IsTypedBody
  <2>2. QED BY <2>1
<1>2. F[b][k] \in [keys -> Known] /\ F[b][k + 1] \in [keys -> Known]
  BY <1>1 DEF HasRangeFacts, HasKnownFacts
<1>3. fact \in [keys -> Known]
  BY <1>1, <1>2, RangeAfterType
<1>4. tested \subseteq keys /\ tested \subseteq Tracked(body)
  <2>1. tested \subseteq keys /\ tested \subseteq Slots(body)
    BY <1>1, SlotsAreValues
  <2>2. Slots(body) \subseteq Tracked(body)
    BY DEF Slots, Tracked, Target
  <2>3. QED BY <2>1, <2>2
<1>5. AreOutcomes(body, outcomes)
  BY RangeOutcomesType
<1>6. \A o \in outcomes : tested \subseteq R[o[1]][1]
  BY DEF RangeOutcomes
<1>7. ASSUME NEW v \in keys, fact[v] # Absent PROVE v \in Tracked(body) /\ v \in R[b][k + 1]
  <2>1. \/ v \in R[b][k + 1] /\ (v \in Target(inst) \/ F[b][k][v] # Absent)
        \/ F[b][k + 1][v] # Absent
    BY <1>2, <1>7, RangeAfterTracks
  <2>2. F[b][k][v] # Absent => v \in Tracked(body)
    BY <1>1 DEF TracksOnly
  <2>3. F[b][k + 1][v] # Absent => v \in Tracked(body) /\ v \in R[b][k + 1]
    BY <1>1 DEF TracksOnly
  <2>4. v \in Target(inst) => v \in Tracked(body)
    BY <1>1 DEF Tracked
  <2>5. QED BY <2>1, <2>2, <2>3, <2>4
<1> HIDE DEF fact, tested, outcomes
<1>8. /\ HasKnownFacts(body, keys, K) /\ K[b][k + 1] = fact
      /\ \A c \in DOMAIN body : c # b => K[c] = F[c]
      /\ \A j \in 1..Len(body[b]) + 1 : j # k + 1 => K[b][j] = F[b][j]
  <2>1. HasKnownFacts(body, keys, F)
    BY DEF HasRangeFacts
  <2> HIDE DEF keys
  <2>2. QED BY <1>1, <1>3, <2>1, SetKnownPoint
<1>9. TracksOnly(body, R, K)
  <2> SUFFICES ASSUME NEW c \in DOMAIN body, NEW j \in 1..Len(body[c]) + 1, NEW v \in keys, K[c][j][v] # Absent
               PROVE  v \in Tracked(body) /\ v \in R[c][j]
    BY DEF TracksOnly
  <2>1. CASE c = b /\ j = k + 1
    BY <1>7, <1>8, <2>1
  <2>2. CASE ~ (c = b /\ j = k + 1)
    <3>1. K[c][j] = F[c][j]
      BY <1>8, <2>2
    <3>2. QED BY <3>1 DEF TracksOnly
  <2>3. QED BY <2>1, <2>2
<1> HIDE DEF K
<1>10. /\ HasKnownFacts(body, keys, G)
       /\ \A c \in DOMAIN body : \A j \in 1..Len(body[c]) + 1 : j # 1 => G[c][j] = K[c][j]
  <2> HIDE DEF keys
  <2>1. QED BY <1>1, <1>2, <1>4, <1>5, <1>8, PassOnIsAbove DEF keys
<1>11. TracksOnly(body, R, G)
  <2> SUFFICES ASSUME NEW c \in DOMAIN body, NEW j \in 1..Len(body[c]) + 1, NEW v \in keys, G[c][j][v] # Absent
               PROVE  v \in Tracked(body) /\ v \in R[c][j]
    BY DEF TracksOnly
  <2>1. CASE G[c][j][v] = K[c][j][v]
    BY <1>9, <2>1 DEF TracksOnly
  <2>2. CASE G[c][j][v] # K[c][j][v]
    <3>1. j = 1
      BY <1>10, <2>2
    <3>2. v \in tested /\ \E o \in outcomes : o[1] = c
      <4> HIDE DEF keys
      <4>1. QED BY <1>1, <1>8, <2>2, <3>1, PassOnReaches
    <3>3. QED BY <1>4, <1>6, <3>1, <3>2
  <2>3. QED BY <2>1, <2>2
<1>12. RangeInst(body, D, R, F, b, k) = G
  <2>1. RangeInst(body, D, R, F, b, k) = Ranged(body, D, R, F, b, k)
    BY RangesInst
  <2>2. QED BY <2>1 DEF Ranged, K, fact, tested, outcomes
<1>13. QED BY <1>10, <1>11, <1>12 DEF HasRangeFacts

(***************************************************************************)
(* The loop of ReturnRangePass::VisitBlock.                                *)
(***************************************************************************)
AfterRanging(body, D, R, b, x, k) ==
  [facts   |-> RangeInst(body, D, R, x.facts, b, k),
   changed |-> HasChanged(x.changed, x.facts[b][k + 1],
                          RangeInst(body, D, R, x.facts, b, k)[b][k + 1])]

IsRangeRun(body, D, R, b, F, m, g) ==
  g = [i \in 0..m |-> IF i = 0 THEN Unchanged(F)
                      ELSE AfterRanging(body, D, R, b, g[i - 1], i)]

LEMMA RangeRunExists ==
  ASSUME NEW body, NEW D, NEW R, NEW b, NEW F
  PROVE  \A n \in Nat : \E g : IsRangeRun(body, D, R, b, F, n, g)
<1> DEFINE S == {m \in Nat : \E g : IsRangeRun(body, D, R, b, F, m, g)}
<1>1. 0 \in S
  <2> DEFINE g == [i \in 0..0 |-> Unchanged(F)]
  <2>1. IsRangeRun(body, D, R, b, F, 0, g)
    BY DEF IsRangeRun
  <2>2. QED BY <2>1
<1>2. ASSUME NEW m \in Nat, m \in S PROVE m + 1 \in S
  <2>1. PICK h : IsRangeRun(body, D, R, b, F, m, h)
    BY <1>2
  <2> DEFINE g == [i \in 0..m + 1 |-> IF i = m + 1 THEN AfterRanging(body, D, R, b, h[m], m + 1)
                                      ELSE h[i]]
             next(i) == IF i = 0 THEN Unchanged(F) ELSE AfterRanging(body, D, R, b, g[i - 1], i)
  <2>2. ASSUME NEW i \in 0..m + 1 PROVE g[i] = next(i)
    <3>1. CASE i = m + 1
      <4>1. g[i] = AfterRanging(body, D, R, b, h[m], i) /\ g[i - 1] = h[m]
        BY <3>1
      <4>2. QED BY <3>1, <4>1
    <3>2. CASE i # m + 1
      <4>1. g[i] = h[i] /\ i \in 0..m /\ (i # 0 => g[i - 1] = h[i - 1])
        BY <3>2
      <4>2. h[i] = IF i = 0 THEN Unchanged(F) ELSE AfterRanging(body, D, R, b, h[i - 1], i)
        BY <2>1, <4>1 DEF IsRangeRun
      <4>3. QED BY <4>1, <4>2
    <3>3. QED BY <3>1, <3>2
  <2>3. IsRangeRun(body, D, R, b, F, m + 1, g)
    BY <2>2 DEF IsRangeRun
  <2>4. QED BY <2>3
<1> HIDE DEF S
<1>3. Nat \subseteq S
  BY <1>1, <1>2, NaturalInduction
<1>4. QED BY <1>3 DEF S

(* VisitBlock is the end of such a run. *)
LEMMA RangeUnfolds ==
  ASSUME NEW body, NEW D, NEW R, NEW F, NEW b \in DOMAIN body, body[b] \in Seq(Range(body[b]))
  PROVE  \E g : /\ IsRangeRun(body, D, R, b, F, Len(body[b]), g)
                /\ RangeVisitBlock(body, D, R, F, b) = g[Len(body[b])]
<1> DEFINE n == Len(body[b])
           order == [k \in DOMAIN body[b] |-> k]
           Visit(fs, k) == RangeInst(body, D, R, fs, b, k)
           Step(d, i) ==
             CHOOSE step \in
               {[facts   |-> x.next,
                 changed |-> HasChanged(x.done.changed,
                                        x.done.facts[b][order[i] + 1],
                                        x.next[b][order[i] + 1])] :
                  x \in {[done |-> e, next |-> Visit(e.facts, order[i])] : e \in {d}}} :
               TRUE
           Stages(g, m) == [i \in 0..m |-> IF i = 0 THEN [facts |-> F, changed |-> FALSE]
                                        ELSE Step(g[i - 1], i)]
<1>1. RangeVisitBlock(body, D, R, F, b) = (CHOOSE g : g = Stages(g, Len(order)))[Len(order)]
  BY Zenon DEF RangeVisitBlock, VisitInstructions
<1>2. n \in Nat /\ DOMAIN body[b] = 1..n
  BY LenProperties
<1>3. order \in Seq(1..n) /\ Len(order) = n
  <2>1. order \in [1..n -> 1..n]
    BY <1>2
  <2>2. order \in Seq(1..n)
    BY <1>2, <2>1, SeqDef
  <2>3. QED BY <1>2, <2>1, <2>2, LenProperties
<1>4. ASSUME NEW d, NEW i \in 1..n PROVE Step(d, i) = AfterRanging(body, D, R, b, d, i)
  <2>1. order[i] = i
    BY <1>2
  <2>2. Visit(d.facts, order[i]) = RangeInst(body, D, R, d.facts, b, i)
    BY <2>1
  <2> DEFINE x0 == [done |-> d, next |-> Visit(d.facts, order[i])]
             xs == {[done |-> e, next |-> Visit(e.facts, order[i])] : e \in {d}}
  <2>3. xs = {x0} /\ x0.done = d /\ x0.next = RangeInst(body, D, R, d.facts, b, i)
    BY <2>2
  <2> HIDE DEF xs, x0, Visit
  <2>4. {[facts   |-> x.next,
          changed |-> HasChanged(x.done.changed, x.done.facts[b][order[i] + 1],
                                 x.next[b][order[i] + 1])] : x \in xs}
         = {AfterRanging(body, D, R, b, d, i)}
    BY <2>1, <2>3 DEF AfterRanging
  <2>5. QED BY <2>4, SingletonChoice, Zenon DEF xs, Visit
<1> HIDE DEF Step
<1>5. \A g : g = Stages(g, Len(order)) <=> IsRangeRun(body, D, R, b, F, n, g)
  BY <1>2, <1>3, <1>4 DEF IsRangeRun, Unchanged
<1>6. PICK h : IsRangeRun(body, D, R, b, F, n, h)
  BY <1>2, RangeRunExists
<1> HIDE DEF Stages
<1>7. QED
  BY <1>1, <1>3, <1>5, <1>6

(* Only the last instruction of a block tests anything.                    *)
LEMMA SlotsAreTestedLast ==
  ASSUME NEW body, IsBody(body), NEW R, NEW b \in DOMAIN body,
         NEW k \in 1..Len(body[b]), k # Len(body[b])
  PROVE  SlotsTested(body, body[b][k], R[b][k + 1]) = {}
<1>1. k \in DOMAIN body[b]
  BY BodyShape
<1>2. body[b][k].op \notin {"branch", "switch"}
  BY <1>1 DEF IsBody, IsBlock
<1>3. QED BY <1>2, SlotOfComparison

(* Up to the last instruction, the loop writes behind the instructions it  *)
(* has visited: x is where it is after i of them.                          *)
IsRangedSoFar(body, D, R, b, F, i, x) ==
  /\ HasRangeFacts(body, x.facts)
  /\ \A c \in DOMAIN body : c # b => x.facts[c] = F[c]
  /\ x.facts[b][1] = F[b][1]
  /\ ~ x.changed => x.facts = F /\ \A k \in 1..i : IsRangedAt(body, D, R, F, b, k)
  /\ IsRanged(body, D, R, F, b) => x.facts = F

LEMMA RangeRun ==
  ASSUME NEW body, IsTypedBody(body), NEW D, AreRanges(D), NEW R, NEW F, HasRangeFacts(body, F),
         NEW b \in DOMAIN body, NEW g, IsRangeRun(body, D, R, b, F, Len(body[b]), g)
  PROVE  IsRangedSoFar(body, D, R, b, F, Len(body[b]) - 1, g[Len(body[b]) - 1])
<1> DEFINE n == Len(body[b])
           keys == ValuesOf(body)
           Agrees(k) == IsRangedAt(body, D, R, F, b, k)
           Good(i) == IsRangedSoFar(body, D, R, b, F, i, g[i])
           S == {i \in Nat : i <= n - 1 => Good(i)}
<1>1. n \in Nat \ {0} /\ IsBody(body)
  BY BodyShape DEF IsTypedBody
<1> HIDE DEF n
<1>2. 0 \in S
  <2>1. g[0] = Unchanged(F)
    BY <1>1 DEF IsRangeRun, n
  <2>2. QED BY <2>1 DEF Unchanged, IsRangedSoFar
<1>3. ASSUME NEW i \in Nat, i \in S PROVE i + 1 \in S
  <2>1. SUFFICES ASSUME i + 1 <= n - 1 PROVE Good(i + 1)
    OBVIOUS
  <2> DEFINE fs == g[i].facts
             fact == RangeAfter(body, D, R[b][i + 2], fs[b][i + 1], body[b][i + 1], fs[b][i + 2])
             next == SetAt(fs, b, i + 2, fact)
  <2>2. /\ HasRangeFacts(body, fs)
        /\ \A c \in DOMAIN body : c # b => fs[c] = F[c]
        /\ fs[b][1] = F[b][1]
        /\ ~ g[i].changed => fs = F /\ \A k \in 1..i : Agrees(k)
        /\ IsRanged(body, D, R, F, b) => fs = F
    <3>1. Good(i)
      BY <1>1, <1>3, <2>1
    <3>2. QED BY <3>1 DEF IsRangedSoFar
  <2>3. g[i + 1] = AfterRanging(body, D, R, b, g[i], i + 1)
    BY <1>1, <2>1 DEF IsRangeRun, n
  <2>4. /\ i + 1 \in 1..Len(body[b]) /\ i + 1 # Len(body[b])
        /\ i + 1 \in 1..Len(body[b]) + 1 /\ i + 2 \in 1..Len(body[b]) + 1
        /\ i + 2 # 1 /\ (i + 1) + 1 = i + 2
    BY <1>1, <2>1 DEF n
  <2>5. body[b][i + 1] \in InstructionsOf(body)
    BY <1>1, <2>4, BodyShape
  <2>6. HasRangeFacts(body, fs) /\ fs[b][i + 1] \in [keys -> Known] /\ fs[b][i + 2] \in [keys -> Known]
    BY <2>2, <2>4 DEF HasRangeFacts, HasKnownFacts
  <2>7. fact \in [keys -> Known]
    BY <2>5, <2>6, RangeAfterType
  <2>8. SlotsTested(body, body[b][i + 1], R[b][i + 2]) = {}
    BY <1>1, <2>4, SlotsAreTestedLast
  <2>9. RangeInst(body, D, R, fs, b, i + 1) = Ranged(body, D, R, fs, b, i + 1)
    BY <2>4, <2>6, RangesInst
  <2> HIDE DEF fs, fact
  <2>10. /\ HasRangeFacts(body, next)
         /\ next[b][i + 2] = fact
         /\ \A c \in DOMAIN body : c # b => next[c] = fs[c]
         /\ next[b][1] = fs[b][1]
         /\ fact = fs[b][i + 2] => next = fs
    <3>1. HasKnownFacts(body, keys, fs) /\ 1 \in 1..Len(body[b]) + 1
      BY <1>1, <2>6 DEF HasRangeFacts, n
    <3>2. QED BY <1>1, <2>4, <2>7, <3>1, SetKnownPoint DEF HasRangeFacts
  <2>11. RangeInst(body, D, R, fs, b, i + 1) = next
    <3> DEFINE outcomes == RangeOutcomes(body, R, fs[b][i + 1], body[b][i + 1], {})
    <3>1. Ranged(body, D, R, fs, b, i + 1) = PassOn(next, outcomes, fs[b][i + 1], {})
      BY <2>4, <2>8 DEF Ranged, fact
    <3> HIDE DEF next, outcomes
    <3>2. QED BY <1>1, <2>9, <2>10, <3>1, PassOnNothing DEF HasRangeFacts
  <2>12. /\ g[i + 1].facts = next
         /\ g[i + 1].changed = HasChanged(g[i].changed, fs[b][i + 2], next[b][i + 2])
    BY <2>3, <2>4, <2>11 DEF AfterRanging, fs
  <2> HIDE DEF next
  <2>13. ASSUME ~ g[i + 1].changed
         PROVE  g[i + 1].facts = F /\ \A k \in 1..i + 1 : Agrees(k)
    <3>1. ~ g[i].changed /\ fact = fs[b][i + 2]
      BY <2>10, <2>12, <2>13 DEF HasChanged
    <3>2. fs = F /\ next = F /\ \A k \in 1..i : Agrees(k)
      BY <2>2, <2>10, <3>1
    <3>3. Agrees(i + 1)
      BY <2>4, <3>1, <3>2 DEF fact, IsRangedAt
    <3>4. \A k \in 1..i + 1 : k \in 1..i \/ k = i + 1
      OBVIOUS
    <3> HIDE DEF Agrees
    <3>5. QED BY <2>12, <3>2, <3>3, <3>4
  <2>14. ASSUME IsRanged(body, D, R, F, b) PROVE g[i + 1].facts = F
    <3>1. fs = F
      BY <2>2, <2>14
    <3>2. fact = F[b][i + 2]
      BY <2>4, <2>14, <3>1 DEF fact, IsRanged, IsRangedAt
    <3>3. QED BY <2>10, <2>12, <3>1, <3>2
  <2>15. QED BY <2>2, <2>10, <2>12, <2>13, <2>14 DEF IsRangedSoFar
<1> HIDE DEF S
<1>4. n - 1 \in S /\ n - 1 \in Nat
  BY <1>1, <1>2, <1>3, NaturalInduction
<1>5. Good(n - 1)
  BY <1>4 DEF S
<1>6. QED BY <1>5 DEF n

LEMMA RangeRunTracks ==
  ASSUME NEW body, IsTypedBody(body), IsPlain(body), NEW D, AreRanges(D), NEW R,
         NEW F, HasRangeFacts(body, F), TracksOnly(body, R, F), NEW b \in DOMAIN body
  PROVE  TracksOnly(body, R, RangeVisitBlock(body, D, R, F, b).facts)
<1> DEFINE n == Len(body[b])
<1>1. n \in Nat /\ body[b] \in Seq(Range(body[b]))
  BY BodyShape DEF IsTypedBody
<1>2. PICK g : IsRangeRun(body, D, R, b, F, n, g) /\ RangeVisitBlock(body, D, R, F, b) = g[n]
  BY <1>1, RangeUnfolds
<1> DEFINE S == {i \in Nat : i <= n => HasRangeFacts(body, g[i].facts) /\ TracksOnly(body, R, g[i].facts)}
<1>0. n = Len(body[b])
  OBVIOUS
<1> HIDE DEF n
<1>3. 0 \in S
  <2>1. g[0] = Unchanged(F)
    BY <1>1, <1>2 DEF IsRangeRun
  <2>2. QED BY <2>1 DEF Unchanged
<1>4. ASSUME NEW i \in Nat, i \in S PROVE i + 1 \in S
  <2> SUFFICES ASSUME i + 1 <= n
               PROVE  HasRangeFacts(body, g[i + 1].facts) /\ TracksOnly(body, R, g[i + 1].facts)
    OBVIOUS
  <2>1. g[i + 1] = AfterRanging(body, D, R, b, g[i], i + 1)
    BY <1>1, <1>2 DEF IsRangeRun
  <2>2. HasRangeFacts(body, g[i].facts) /\ TracksOnly(body, R, g[i].facts) /\ i + 1 \in 1..Len(body[b])
    BY <1>0, <1>1, <1>4
  <2>3. g[i + 1].facts = RangeInst(body, D, R, g[i].facts, b, i + 1)
    BY <2>1 DEF AfterRanging
  <2>4. QED BY <2>2, <2>3, RangeInstTracks
<1>5. n \in S
  <2> HIDE DEF S
  <2>1. QED BY <1>1, <1>3, <1>4, NaturalInduction
<1>6. QED BY <1>1, <1>2, <1>5

(* A block's visit keeps it so that nothing is known but of names that     *)
(* instructions give ranges to, where they may be returned.                *)
LEMMA RangeStepTracks ==
  ASSUME NEW body, IsTypedBody(body), IsPlain(body), NEW D, AreRanges(D), NEW R,
         NEW F, HasRangeFacts(body, F), TracksOnly(body, R, F), NEW b \in DOMAIN body
  PROVE  TracksOnly(body, R, RangeStep(body, D, R, F, b).facts)
<1> DEFINE keys == ValuesOf(body)
           exits == {Filtered(ExitOf(F, p), EntryOf(R, b)) : p \in Predecessors(body, b)}
           joined == JoinMaps(EntryOf(F, b), exits)
           G == SetAt(F, b, 1, joined)
<1>1. IsBody(body) /\ HasKnownFacts(body, keys, F) /\ EntryOf(F, b) = F[b][1]
  BY DEF IsTypedBody, HasRangeFacts, EntryOf
<1>2. ASSUME NEW c \in DOMAIN body
      PROVE  /\ 1 \in 1..Len(body[c]) + 1 /\ Len(body[c]) + 1 \in 1..Len(body[c]) + 1
             /\ ExitOf(F, c) = F[c][Len(body[c]) + 1]
             /\ ExitOf(F, c) \in [keys -> Known] /\ F[c][1] \in [keys -> Known]
  <2>1. Len(body[c]) \in Nat
    BY <1>1, BodyShape
  <2>2. 1 \in 1..Len(body[c]) + 1 /\ Len(body[c]) + 1 \in 1..Len(body[c]) + 1
    BY <2>1
  <2>3. ExitOf(F, c) = F[c][Len(body[c]) + 1]
    BY <1>1, ExitIsLast DEF HasKnownFacts
  <2>4. QED BY <1>1, <2>2, <2>3 DEF HasKnownFacts
<1>3. exits \in SUBSET [keys -> Known]
  <2>1. ASSUME NEW p \in Predecessors(body, b) PROVE Filtered(ExitOf(F, p), EntryOf(R, b)) \in [keys -> Known]
    BY <1>2, PredecessorsAreBlocks, FilteredType
  <2>2. QED BY <2>1
<1>4. ASSUME NEW x \in exits, NEW v \in keys, x[v] # Absent PROVE v \in Tracked(body) /\ v \in R[b][1]
  <2>1. PICK p \in Predecessors(body, b) : x = Filtered(ExitOf(F, p), EntryOf(R, b))
    OBVIOUS
  <2>2. p \in DOMAIN body
    BY PredecessorsAreBlocks
  <2>3. DOMAIN ExitOf(F, p) = keys
    BY <1>2, <2>2
  <2>4. v \in R[b][1] /\ F[p][Len(body[p]) + 1][v] # Absent
    BY <1>2, <1>4, <2>1, <2>2, <2>3 DEF Filtered, EntryOf
  <2>5. QED BY <1>2, <2>2, <2>4 DEF TracksOnly
<1> HIDE DEF exits
<1>5. ASSUME NEW v \in keys, joined[v] # Absent PROVE v \in Tracked(body) /\ v \in R[b][1]
  <2> DEFINE all == {F[b][1][v]} \cup {x[v] : x \in exits}
             fact == F[b][1]
  <2>0. fact \in [keys -> Known] /\ joined = JoinMaps(fact, exits)
    BY <1>1, <1>2
  <2>1. joined[v] = JoinKnown(all)
    <3> HIDE DEF fact, joined, keys
    <3>1. joined = [f \in keys |-> JoinKnown({fact[f]} \cup {x[f] : x \in exits})]
      BY <1>3, <2>0, JoinMapsEntries
    <3>2. QED BY <3>1 DEF fact
  <2>2. ~ (all \subseteq {Absent})
    BY <1>5, <2>1 DEF JoinKnown
  <2>3. F[b][1][v] # Absent \/ \E x \in exits : x[v] # Absent
    BY <2>2
  <2>4. F[b][1][v] # Absent => v \in Tracked(body) /\ v \in R[b][1]
    BY <1>2 DEF TracksOnly
  <2>5. QED BY <1>4, <2>3, <2>4
<1>6. joined \in [keys -> Known]
  BY <1>1, <1>2, <1>3, JoinMapsIsAbove
<1> HIDE DEF joined
<1>7. /\ HasKnownFacts(body, keys, G) /\ G[b][1] = joined
      /\ \A c \in DOMAIN body : c # b => G[c] = F[c]
      /\ \A j \in 1..Len(body[b]) + 1 : j # 1 => G[b][j] = F[b][j]
  <2> HIDE DEF keys
  <2>1. QED BY <1>1, <1>2, <1>6, SetKnownPoint
<1>8. TracksOnly(body, R, G)
  <2> SUFFICES ASSUME NEW c \in DOMAIN body, NEW j \in 1..Len(body[c]) + 1, NEW v \in keys, G[c][j][v] # Absent
               PROVE  v \in Tracked(body) /\ v \in R[c][j]
    BY DEF TracksOnly
  <2>1. CASE c = b /\ j = 1
    BY <1>5, <1>7, <2>1
  <2>2. CASE ~ (c = b /\ j = 1)
    <3>1. G[c][j] = F[c][j]
      BY <1>7, <2>2
    <3>2. QED BY <3>1 DEF TracksOnly
  <2>3. QED BY <2>1, <2>2
<1>9. RangeStep(body, D, R, F, b) = RangeVisitBlock(body, D, R, G, b)
  BY DEF RangeStep, SetAt, exits, joined
<1> HIDE DEF G
<1>10. QED BY <1>7, <1>8, <1>9, RangeRunTracks DEF HasRangeFacts

LEMMA LoneSlotsOnly ==
  ASSUME NEW body, IsBody(body), ~ HasLoneTest(body), NEW b \in DOMAIN body,
         Len(body[b]) = 1, NEW after
  PROVE  SlotsTested(body, body[b][Len(body[b])], after) = {}
BY SlotOfComparison DEF HasLoneTest, Terminator

(* What a visit of a block does.  What its test leaves goes to the entries *)
(* of the successors, the block's own among them; a change of these is not *)
(* noticed, but one behind an instruction is.                              *)
IsRangeVisit(body, D, R, F, b, visit) ==
  /\ HasRangeFacts(body, visit.facts)
  /\ \A c \in DOMAIN body : \A k \in 1..Len(body[c]) + 1 :
       (c # b \/ ~ visit.changed) /\ k # 1 => visit.facts[c][k] = F[c][k]
  /\ \A c \in DOMAIN body : \A v \in ValuesOf(body) : Below(F[c][1][v], visit.facts[c][1][v])
  /\ ~ HasLoneTest(body) => HasPassedRange(body, R, visit.facts, b)
  /\ ~ visit.changed => IsRanged(body, D, R, F, b)
  /\ IsRanged(body, D, R, F, b) /\ HasPassedRange(body, R, F, b) => visit.facts = F

LEMMA RangeVisits ==
  ASSUME NEW body, IsTypedBody(body), NEW D, AreRanges(D), NEW R, NEW F, HasRangeFacts(body, F),
         NEW b \in DOMAIN body
  PROVE  IsRangeVisit(body, D, R, F, b, RangeVisitBlock(body, D, R, F, b))
<1> DEFINE n == Len(body[b])
           last == body[b][n]
           keys == ValuesOf(body)
           visit == RangeVisitBlock(body, D, R, F, b)
           tested == SlotsTested(body, last, R[b][n + 1])
<1>1. n \in Nat \ {0} /\ IsBody(body) /\ body[b] \in Seq(Range(body[b]))
  BY BodyShape DEF IsTypedBody
<1>0. n = Len(body[b])
  OBVIOUS
<1>2. PICK g : IsRangeRun(body, D, R, b, F, n, g) /\ visit = g[n]
  BY <1>1, RangeUnfolds
<1> DEFINE H == g[n - 1].facts
           fact == RangeAfter(body, D, R[b][n + 1], H[b][n], last, H[b][n + 1])
           outcomes == RangeOutcomes(body, R, H[b][n], last, tested)
           K == SetAt(H, b, n + 1, fact)
           G == PassOn(K, outcomes, H[b][n], tested)
<1>3. /\ HasRangeFacts(body, H)
      /\ \A c \in DOMAIN body : c # b => H[c] = F[c]
      /\ H[b][1] = F[b][1]
      /\ ~ g[n - 1].changed => H = F /\ \A k \in 1..n - 1 : IsRangedAt(body, D, R, F, b, k)
      /\ IsRanged(body, D, R, F, b) => H = F
  <2> HIDE DEF visit
  <2>1. IsRangeRun(body, D, R, b, F, Len(body[b]), g)
    BY <1>2
  <2>2. IsRangedSoFar(body, D, R, b, F, n - 1, g[n - 1])
    BY <2>1, RangeRun
  <2>3. QED BY <2>2 DEF IsRangedSoFar
<1>4. /\ n \in 1..n /\ n \in 1..n + 1 /\ n + 1 \in 1..n + 1 /\ 1 \in 1..n + 1 /\ n + 1 # 1
      /\ n \in 0..n /\ n # 0
  BY <1>1
<1>5. last \in InstructionsOf(body)
  BY <1>1, <1>4, BodyShape
<1>10. tested \in SUBSET keys
  BY <1>1, <1>5, SlotsAreValues
<1>11. AreOutcomes(body, outcomes)
  BY <1>4, RangeOutcomesType
<1> HIDE DEF n
<1>6. g[n] = AfterRanging(body, D, R, b, g[n - 1], n)
  BY <1>2, <1>4 DEF IsRangeRun
<1> HIDE DEF H, visit
<1>7. RangeInst(body, D, R, H, b, n) = G
  <2>1. RangeInst(body, D, R, H, b, n) = Ranged(body, D, R, H, b, n)
    BY <1>3, <1>4, RangesInst DEF n
  <2>2. QED BY <2>1 DEF Ranged
<1>8. H[b][n] \in [keys -> Known] /\ H[b][n + 1] \in [keys -> Known]
  BY <1>3, <1>4 DEF HasRangeFacts, HasKnownFacts, n
<1>9. fact \in [keys -> Known]
  BY <1>5, <1>8, RangeAfterType
<1> HIDE DEF fact, tested, outcomes, keys
<1>13. /\ HasKnownFacts(body, keys, K)
       /\ K[b][n + 1] = fact
       /\ \A c \in DOMAIN body : c # b => K[c] = H[c]
       /\ \A j \in 1..n + 1 : j # n + 1 => K[b][j] = H[b][j]
       /\ fact = H[b][n + 1] => K = H
  <2>1. HasKnownFacts(body, keys, H)
    BY <1>3 DEF HasRangeFacts, keys
  <2>2. QED BY <1>1, <1>4, <1>9, <2>1, SetKnownPoint DEF n
<1> HIDE DEF K
<1>14. /\ HasKnownFacts(body, keys, G)
       /\ \A c \in DOMAIN body : \A k \in 1..Len(body[c]) + 1 : k # 1 => G[c][k] = K[c][k]
       /\ \A c \in DOMAIN body : \A v \in keys : Below(K[c][1][v], G[c][1][v])
       /\ ArePassedOn(outcomes, H[b][n], tested, G)
       /\ ArePassedOn(outcomes, H[b][n], tested, K) => G = K
  BY <1>1, <1>8, <1>10, <1>11, <1>13, PassOnIsAbove
<1> HIDE DEF G
<1>15. /\ visit.facts = G
       /\ visit.changed = HasChanged(g[n - 1].changed, H[b][n + 1], G[b][n + 1])
  BY <1>2, <1>6, <1>7 DEF AfterRanging, H
<1>16. K[b][1] = F[b][1] /\ \A c \in DOMAIN body : c # b => K[c] = F[c]
  BY <1>3, <1>4, <1>13
<1>17. G[b][n + 1] = fact
  BY <1>4, <1>13, <1>14 DEF n
<1>19. ASSUME NEW c \in DOMAIN body, NEW v \in keys
       PROVE  Below(F[c][1][v], visit.facts[c][1][v])
  <2>1. K[c][1] = F[c][1]
    BY <1>16
  <2>2. QED BY <1>14, <1>15, <2>1
<1>21. ASSUME ~ HasLoneTest(body) PROVE HasPassedRange(body, R, visit.facts, b)
  <2>1. n # 1 => G[b][n] = H[b][n]
    BY <1>0, <1>4, <1>13, <1>14
  <2>2. n = 1 => tested = {}
    BY <1>0, <1>1, <1>21, LoneSlotsOnly DEF tested
  <2>3. ArePassedOn(RangeOutcomes(body, R, G[b][n], last, tested), G[b][n], tested, G)
    <3>1. CASE n = 1
      BY <2>2, <3>1 DEF ArePassedOn
    <3>2. CASE n # 1
      BY <1>14, <2>1, <3>2 DEF outcomes
    <3>3. QED BY <3>1, <3>2
  <2>4. QED BY <1>15, <2>3 DEF HasPassedRange, tested, n
<1>22. ASSUME IsRanged(body, D, R, F, b), HasPassedRange(body, R, F, b) PROVE visit.facts = F
  <2>0. H = F
    BY <1>3, <1>22
  <2>1. fact = F[b][n + 1]
    BY <1>4, <1>22, <2>0 DEF fact, IsRanged, IsRangedAt, n
  <2>2. K = F
    BY <1>13, <2>0, <2>1
  <2>3. ArePassedOn(outcomes, H[b][n], tested, K)
    BY <1>22, <2>0, <2>2 DEF HasPassedRange, outcomes, tested, n
  <2>4. QED BY <1>14, <1>15, <2>2, <2>3
<1>23. ASSUME ~ visit.changed
       PROVE  K = F /\ IsRanged(body, D, R, F, b)
  <2>1. ~ g[n - 1].changed /\ H[b][n + 1] = fact
    BY <1>15, <1>17, <1>23 DEF HasChanged
  <2>2. H = F /\ fact = F[b][n + 1] /\ \A k \in 1..n - 1 : IsRangedAt(body, D, R, F, b, k)
    BY <1>3, <2>1
  <2>3. IsRangedAt(body, D, R, F, b, n)
    BY <2>2 DEF fact, IsRangedAt
  <2>4. \A k \in 1..n : k \in 1..n - 1 \/ k = n
    BY <1>1
  <2>5. IsRanged(body, D, R, F, b)
    BY <2>2, <2>3, <2>4 DEF IsRanged, n
  <2>6. QED BY <1>13, <2>2, <2>5
<1>18. ASSUME NEW c \in DOMAIN body, NEW k \in 1..Len(body[c]) + 1, c # b \/ ~ visit.changed, k # 1
       PROVE  visit.facts[c][k] = F[c][k]
  <2>1. visit.facts[c][k] = K[c][k]
    BY <1>14, <1>15, <1>18
  <2>2. K[c] = F[c]
    BY <1>16, <1>18, <1>23
  <2>3. QED BY <2>1, <2>2
<1>26. HasRangeFacts(body, visit.facts)
  BY <1>14, <1>15 DEF HasRangeFacts, keys
<1>27. QED
  BY <1>18, <1>19, <1>21, <1>22, <1>23, <1>26 DEF IsRangeVisit, visit, keys

(* The facts have grown at the entries of blocks, and are the same at the  *)
(* other points of block c: what its test left has still arrived.          *)
LEMMA PassedRangeGrows ==
  ASSUME NEW body, IsTypedBody(body), NEW R, NEW F, NEW G, ~ HasLoneTest(body),
         \A d \in DOMAIN body : \A v \in ValuesOf(body) : Below(F[d][1][v], G[d][1][v]),
         NEW c \in DOMAIN body, HasPassedRange(body, R, F, c),
         \A k \in 1..Len(body[c]) + 1 : k # 1 => G[c][k] = F[c][k]
  PROVE  HasPassedRange(body, R, G, c)
<1> DEFINE n == Len(body[c])
           last == body[c][n]
           tested == SlotsTested(body, last, R[c][n + 1])
           outcomes == RangeOutcomes(body, R, F[c][n], last, tested)
<1>1. n \in Nat \ {0} /\ IsBody(body)
  BY BodyShape DEF IsTypedBody
<1>2. n \in 1..n /\ n \in 1..n + 1
  BY <1>1
<1>3. n # 1 => G[c][n] = F[c][n]
  BY <1>2
<1>4. tested \subseteq ValuesOf(body)
  BY <1>1, <1>2, BodyShape, SlotsAreValues
<1>5. AreOutcomes(body, outcomes)
  BY <1>2, RangeOutcomesType
<1>6. n = 1 => tested = {}
  BY <1>1, LoneSlotsOnly
<1>7. ArePassedOn(outcomes, F[c][n], tested, F)
  BY DEF HasPassedRange
<1> HIDE DEF tested
<1>8. CASE n = 1
  BY <1>6, <1>8 DEF ArePassedOn, HasPassedRange, tested
<1>9. CASE n # 1
  <2>1. ASSUME NEW o \in outcomes, NEW v \in tested
        PROVE  Below(Refine(o[2], F[c][n][v]), G[o[1]][1][v])
    <3> HIDE DEF outcomes
    <3>1. Below(Refine(o[2], F[c][n][v]), F[o[1]][1][v])
      BY <1>7 DEF ArePassedOn
    <3>2. Below(F[o[1]][1][v], G[o[1]][1][v])
      BY <1>4, <1>5 DEF AreOutcomes
    <3>3. QED BY <3>1, <3>2, BelowIsTransitive
  <2>2. ArePassedOn(outcomes, F[c][n], tested, G)
    BY <2>1 DEF ArePassedOn
  <2>3. QED BY <1>3, <1>9, <2>2 DEF HasPassedRange, tested
<1>10. QED BY <1>8, <1>9

(* Where nothing is known, nothing is given a range.                       *)
LEMMA BlankTracksNothing ==
  ASSUME NEW body, IsTypedBody(body), NEW D, AreRanges(D), NEW R, NEW F, HasRangeFacts(body, F),
         IsBlank(body, F), NEW b \in DOMAIN body, IsRanged(body, D, R, F, b)
  PROVE  TracksNothing(body, R, b)
<1> SUFFICES ASSUME NEW k \in 1..Len(body[b]), NEW t \in Target(body[b][k]), t \in R[b][k + 1]
             PROVE  FALSE
  BY DEF TracksNothing
<1> DEFINE inst == body[b][k]
           before == F[b][k]
           after == R[b][k + 1]
           out == Filtered(before, after)
<1>1. inst \in InstructionsOf(body) /\ k \in 1..Len(body[b]) + 1
  <2>1. inst \in InstructionsOf(body) /\ Len(body[b]) \in Nat
    BY BodyShape DEF IsTypedBody
  <2>2. QED BY <2>1
<1>2. before \in [ValuesOf(body) -> Known]
  BY <1>1 DEF HasRangeFacts, HasKnownFacts
<1>3. DOMAIN out = ValuesOf(body)
  BY <1>2 DEF Filtered
<1>4. t \in ValuesOf(body)
  BY <1>1 DEF Target, ValuesOf, Slots
<1>5. RangeAfter(body, D, after, before, inst, F[b][k + 1])[t] = Absent
  BY <1>4 DEF IsBlank, IsRanged, IsRangedAt
<1> HIDE DEF out
<1>6. ASSUME NEW source \in ValuesOf(body)
      PROVE  RangeCopied(body, D, before, after, source, t)[t] # Absent
  <2> DEFINE x == RangeOf(body, D, before, source)
  <2>1. x \in SignLatticeElement
    BY <1>2, RangeOfType
  <2>2. RangeCopied(body, D, before, after, source, t)
        = IF t \notin after THEN out ELSE [out EXCEPT ![t] = x]
    BY Zenon DEF RangeCopied, out
  <2> HIDE DEF x
  <2>3. QED BY <1>3, <1>4, <2>1, <2>2, AbsentIsNoElement
<1>7. CASE inst.op \in {"store", "trunc", "sext"} \cup LoadLike
  <2>1. Reads(inst) = {inst.a} /\ inst.op # "phi"
    BY <1>7 DEF Reads, LoadLike, BitCastLike
  <2>2. inst.a \in ValuesOf(body)
    BY <1>1, <2>1, OperandsAreValues
  <2>3. t = IF inst.op = "store" THEN inst.b ELSE inst.id
    BY <1>7 DEF Target, LoadLike, BitCastLike
  <2>4. RangeAfter(body, D, after, before, inst, F[b][k + 1])
        = IF inst.op = "store" THEN RangeCopied(body, D, before, after, inst.a, inst.b)
          ELSE RangeCopied(body, D, before, after, inst.a, inst.id)
    BY <1>7 DEF RangeAfter, LoadLike, BitCastLike
  <2>5. RangeAfter(body, D, after, before, inst, F[b][k + 1])
        = RangeCopied(body, D, before, after, inst.a, t)
    BY <2>3, <2>4
  <2>6. QED BY <1>5, <1>6, <2>2, <2>5
<1>8. CASE inst.op = "phi"
  <2> DEFINE xs == {RangeOf(body, D, before, inst.in[p]) : p \in DOMAIN inst.in}
  <2>1. ASSUME NEW p \in DOMAIN inst.in
        PROVE  RangeOf(body, D, before, inst.in[p]) \in SignLatticeElement
    <3>1. inst.in[p] \in ValuesOf(body)
      BY <1>1, <1>8, OperandsAreValues DEF Range
    <3>2. QED BY <1>2, <3>1, RangeOfType
  <2>2. xs \in SUBSET SignLatticeElement
    BY <2>1
  <2>3. RangeAfter(body, D, after, before, inst, F[b][k + 1])
        = IF inst.id \notin after THEN out ELSE [out EXCEPT ![inst.id] = JoinTable[xs]]
    BY <1>8 DEF RangeAfter, RangePhi, out, LoadLike, BitCastLike
  <2> HIDE DEF xs
  <2>4. JoinTable[xs] # Absent
    BY <2>2, JoinTableIsExact, AbsentIsNoElement
  <2>5. t = inst.id
    BY <1>8 DEF Target, LoadLike, BitCastLike
  <2>6. QED BY <1>3, <1>4, <1>5, <2>3, <2>4, <2>5
<1>9. QED BY <1>7, <1>8 DEF Target

(* What has the range of a return has that of what is returned, if nothing *)
(* is known of it.                                                         *)
LEMMA ReturnIsAbstract ==
  ASSUME NEW body, IsBody(body), NEW D, NEW R, NEW F, TracksOnly(body, R, F),
         NEW b \in DOMAIN body, NEW x, IsReturnRanged(body, D, F, b, x)
  PROVE  IsReturnAbstract(body, D, b, x)
<1> DEFINE n == Len(body[b])
           last == body[b][n]
<1>1. n \in Nat \ {0} /\ last \in InstructionsOf(body)
  <2>1. n \in Nat \ {0}
    BY BodyShape
  <2>2. n \in 1..Len(body[b])
    BY <2>1
  <2>3. QED BY <2>1, <2>2, BodyShape
<1>2. SUFFICES ASSUME last.op = "return", last.a \notin Tracked(body)
               PROVE  Below(AbstractValue(body, D, last.a), x)
  BY DEF IsReturnAbstract, Terminator
<1>3. last.a \in ValuesOf(body)
  BY <1>1, <1>2, OperandsAreValues DEF Reads
<1>4. F[b][n][last.a] = Absent
  BY <1>1, <1>2, <1>3 DEF TracksOnly
<1>5. QED BY <1>2, <1>4 DEF IsReturnRanged, RangeOf, Terminator

LEMMA FullyIsNowhere ==
  ASSUME NEW body, IsTypedBody(body), NEW D, AreRanges(D), NEW R, NEW F, HasRangeFacts(body, F),
         IsPlain(body) => TracksOnly(body, R, F), IsBlank(body, F),
         NEW b \in DOMAIN body, NEW x, IsFullyRanged(body, D, R, F, b, x)
  PROVE  IsNowhereRanged(body, D, R, b, x)
<1>1. TracksNothing(body, R, b)
  BY BlankTracksNothing DEF IsFullyRanged, IsRangedBlock
<1>2. IsPlain(body) => IsReturnAbstract(body, D, b, x)
  BY ReturnIsAbstract DEF IsFullyRanged, IsTypedBody
<1>3. QED BY <1>1, <1>2 DEF IsNowhereRanged

LEMMA RangeSteps ==
  ASSUME NEW body, IsTypedBody(body), NEW D, AreRanges(D), NEW R, NEW F, HasRangeFacts(body, F),
         NEW b \in DOMAIN body
  PROVE  LET step == RangeStep(body, D, R, F, b)
         IN /\ HasRangeFacts(body, step.facts)
            /\ ~ HasLoneTest(body) =>
                 /\ HasPassedRange(body, R, step.facts, b)
                 /\ \A c \in DOMAIN body :
                      HasPassedRange(body, R, F, c) => HasPassedRange(body, R, step.facts, c)
            /\ ~ step.changed => (IsBlank(body, F) <=> IsBlank(body, step.facts))
            /\ ~ step.changed /\ IsBlank(body, F) => TracksNothing(body, R, b)
            /\ ~ step.changed /\ ~ HasLoneTest(body)
               /\ (\A c \in DOMAIN body : HasPassedRange(body, R, F, c)) =>
                 /\ IsRangedBlock(body, D, R, step.facts, b)
                 /\ \A c \in DOMAIN body : c # b => step.facts[c] = F[c]
                 /\ \A c \in DOMAIN body :
                      IsRangedBlock(body, D, R, F, c) => IsRangedBlock(body, D, R, step.facts, c)
            /\ IsRangedBlock(body, D, R, F, b) => step.facts = F
<1> DEFINE keys == ValuesOf(body)
           exits == {Filtered(ExitOf(F, p), EntryOf(R, b)) : p \in Predecessors(body, b)}
           joined == JoinMaps(EntryOf(F, b), exits)
           G == SetAt(F, b, 1, joined)
           step == RangeStep(body, D, R, F, b)
<1>1. IsBody(body) /\ HasKnownFacts(body, keys, F)
  BY DEF IsTypedBody, HasRangeFacts
<1> HIDE DEF keys
<1>2. ASSUME NEW c \in DOMAIN body
      PROVE  /\ Len(body[c]) \in Nat \ {0}
             /\ 1 \in 1..Len(body[c]) + 1 /\ Len(body[c]) + 1 \in 1..Len(body[c]) + 1
             /\ Len(body[c]) + 1 # 1
             /\ ExitOf(F, c) = F[c][Len(body[c]) + 1]
             /\ ExitOf(F, c) \in [keys -> Known]
             /\ F[c][1] \in [keys -> Known]
  <2>1. Len(body[c]) \in Nat \ {0}
    BY <1>1, BodyShape
  <2>2. /\ 1 \in 1..Len(body[c]) + 1 /\ Len(body[c]) + 1 \in 1..Len(body[c]) + 1
        /\ Len(body[c]) + 1 # 1
    BY <2>1
  <2>3. ExitOf(F, c) = F[c][Len(body[c]) + 1]
    BY <1>1, ExitIsLast DEF HasKnownFacts
  <2>4. QED BY <1>1, <2>1, <2>2, <2>3 DEF HasKnownFacts
<1>3. exits \in SUBSET [keys -> Known] /\ EntryOf(F, b) = F[b][1]
  <2>1. ASSUME NEW p \in Predecessors(body, b) PROVE Filtered(ExitOf(F, p), EntryOf(R, b)) \in [keys -> Known]
    BY <1>2, PredecessorsAreBlocks, FilteredType
  <2>2. QED BY <2>1 DEF EntryOf
<1>4. \A p \in Predecessors(body, b) : \A v \in keys :
        Filtered(ExitOf(F, p), EntryOf(R, b))[v] = IF v \in R[b][1] THEN F[p][Len(body[p]) + 1][v] ELSE Absent
  <2> SUFFICES ASSUME NEW p \in Predecessors(body, b), NEW v \in keys
               PROVE  Filtered(ExitOf(F, p), EntryOf(R, b))[v]
                      = IF v \in R[b][1] THEN F[p][Len(body[p]) + 1][v] ELSE Absent
    OBVIOUS
  <2>1. ExitOf(F, p) = F[p][Len(body[p]) + 1] /\ DOMAIN ExitOf(F, p) = keys
    BY <1>2, PredecessorsAreBlocks
  <2>2. QED BY <2>1 DEF Filtered, EntryOf
<1>5. (\A x \in exits : \A v \in keys : Below(x[v], joined[v])) =>
        \A p \in Predecessors(body, b) : \A v \in keys :
          v \in R[b][1] => Below(F[p][Len(body[p]) + 1][v], joined[v])
  <2> HIDE DEF joined
  <2>1. QED BY <1>4 DEF exits
<1>6. IsFedRange(body, R, F, b) => \A x \in exits : \A v \in keys : Below(x[v], F[b][1][v])
  <2> SUFFICES ASSUME IsFedRange(body, R, F, b), NEW p \in Predecessors(body, b), NEW v \in keys
               PROVE  Below(Filtered(ExitOf(F, p), EntryOf(R, b))[v], F[b][1][v])
    OBVIOUS
  <2>1. v \in R[b][1] => Below(F[p][Len(body[p]) + 1][v], F[b][1][v])
    BY DEF IsFedRange, keys
  <2>2. Below(Absent, F[b][1][v])
    BY DEF Below
  <2>3. QED BY <1>4, <2>1, <2>2
<1> HIDE DEF exits
<1>7. /\ joined \in [keys -> Known]
      /\ \A v \in keys : Below(F[b][1][v], joined[v])
      /\ \A x \in exits : \A v \in keys : Below(x[v], joined[v])
      /\ (\A x \in exits : \A v \in keys : Below(x[v], F[b][1][v])) => joined = F[b][1]
  BY <1>2, <1>3, JoinMapsIsAbove
<1> HIDE DEF joined
<1>8. /\ HasKnownFacts(body, keys, G) /\ G[b][1] = joined
      /\ \A c \in DOMAIN body : c # b => G[c] = F[c]
      /\ \A j \in 1..Len(body[b]) + 1 : j # 1 => G[b][j] = F[b][j]
      /\ joined = F[b][1] => G = F
  BY <1>1, <1>2, <1>7, SetKnownPoint
<1>9. step = RangeVisitBlock(body, D, R, G, b)
  BY DEF RangeStep, SetAt, exits, joined
<1> HIDE DEF G, step
<1>10. /\ HasRangeFacts(body, step.facts)
       /\ \A c \in DOMAIN body : \A k \in 1..Len(body[c]) + 1 :
            (c # b \/ ~ step.changed) /\ k # 1 => step.facts[c][k] = G[c][k]
       /\ \A c \in DOMAIN body : \A v \in keys : Below(G[c][1][v], step.facts[c][1][v])
       /\ ~ HasLoneTest(body) => HasPassedRange(body, R, step.facts, b)
       /\ ~ step.changed => IsRanged(body, D, R, G, b)
       /\ IsRanged(body, D, R, G, b) /\ HasPassedRange(body, R, G, b) => step.facts = G
  <2>1. HasRangeFacts(body, G)
    BY <1>8 DEF HasRangeFacts, keys
  <2>2. IsRangeVisit(body, D, R, G, b, step)
    BY <1>9, <2>1, RangeVisits
  <2>3. QED BY <2>2 DEF IsRangeVisit, keys
<1>11. ASSUME NEW c \in DOMAIN body, NEW v \in keys
       PROVE  Below(F[c][1][v], G[c][1][v]) /\ Below(F[c][1][v], step.facts[c][1][v])
  <2>1. Below(F[c][1][v], G[c][1][v])
    <3>1. CASE c = b
      BY <1>7, <1>8, <3>1
    <3>2. CASE c # b
      BY <1>8, <3>2 DEF Below
    <3>3. QED BY <3>1, <3>2
  <2>2. QED BY <1>10, <2>1, BelowIsTransitive
<1>12. ASSUME NEW c \in DOMAIN body, NEW k \in 1..Len(body[c]) + 1, k # 1
       PROVE  G[c][k] = F[c][k] /\ (c # b \/ ~ step.changed => step.facts[c][k] = F[c][k])
  BY <1>8, <1>10, <1>12
<1>13. ASSUME ~ HasLoneTest(body), NEW c \in DOMAIN body, HasPassedRange(body, R, F, c)
       PROVE  HasPassedRange(body, R, G, c) /\ HasPassedRange(body, R, step.facts, c)
  <2>1. HasPassedRange(body, R, G, c)
    BY <1>11, <1>12, <1>13, PassedRangeGrows DEF keys
  <2>2. CASE c = b
    BY <1>10, <1>13, <2>1, <2>2
  <2>3. CASE c # b
    BY <1>11, <1>12, <1>13, <2>3, PassedRangeGrows DEF keys
  <2>4. QED BY <2>1, <2>2, <2>3
<1>14. ASSUME ~ step.changed
       PROVE  /\ IsBlank(body, F) <=> IsBlank(body, step.facts)
              /\ IsBlank(body, F) => TracksNothing(body, R, b)
  <2>1. ASSUME NEW c \in DOMAIN body, NEW k \in 1..Len(body[c])
        PROVE  step.facts[c][k + 1] = F[c][k + 1] /\ G[c][k + 1] = F[c][k + 1]
    <3>1. k + 1 \in 1..Len(body[c]) + 1 /\ k + 1 # 1
      BY <1>2
    <3>2. QED BY <1>12, <1>14, <3>1
  <2>2. IsBlank(body, F) <=> IsBlank(body, step.facts)
    BY <2>1 DEF IsBlank
  <2>3. ASSUME IsBlank(body, F) PROVE TracksNothing(body, R, b)
    <3>1. IsBlank(body, G)
      BY <2>1, <2>3 DEF IsBlank
    <3>2. IsRanged(body, D, R, G, b) /\ HasRangeFacts(body, G)
      BY <1>8, <1>10, <1>14 DEF HasRangeFacts, keys
    <3>3. QED BY <3>1, <3>2, BlankTracksNothing
  <2>4. QED BY <2>2, <2>3
<1>15. IsFedRange(body, R, G, b)
  <2> SUFFICES ASSUME NEW p \in Predecessors(body, b), NEW v \in keys, v \in R[b][1]
               PROVE  Below(G[p][Len(body[p]) + 1][v], G[b][1][v])
    BY DEF IsFedRange, keys
  <2>1. G[p][Len(body[p]) + 1] = F[p][Len(body[p]) + 1]
    BY <1>2, <1>12, PredecessorsAreBlocks
  <2>2. QED BY <1>5, <1>7, <1>8, <2>1
<1>16. ASSUME ~ step.changed, ~ HasLoneTest(body), \A c \in DOMAIN body : HasPassedRange(body, R, F, c)
       PROVE  /\ step.facts = G /\ IsRangedBlock(body, D, R, G, b)
              /\ \A c \in DOMAIN body : c # b => step.facts[c] = F[c]
  BY <1>8, <1>10, <1>13, <1>15, <1>16 DEF IsRangedBlock
<1>17. ASSUME ~ HasLoneTest(body), NEW c \in DOMAIN body, c # b, IsRangedBlock(body, D, R, F, c)
       PROVE  IsRangedBlock(body, D, R, G, c)
  <2>1. G[c] = F[c]
    BY <1>8, <1>17
  <2>2. IsRanged(body, D, R, G, c)
    BY <1>17, <2>1 DEF IsRangedBlock, IsRanged, IsRangedAt
  <2>3. ASSUME NEW p \in Predecessors(body, c) PROVE G[p][Len(body[p]) + 1] = F[p][Len(body[p]) + 1]
    BY <1>2, <1>12, PredecessorsAreBlocks
  <2>4. IsFedRange(body, R, G, c)
    BY <1>17, <2>1, <2>3 DEF IsRangedBlock, IsFedRange
  <2>5. HasPassedRange(body, R, G, c)
    BY <1>13, <1>17 DEF IsRangedBlock
  <2>6. QED BY <2>2, <2>4, <2>5 DEF IsRangedBlock
<1>18. ASSUME IsRangedBlock(body, D, R, F, b) PROVE step.facts = F
  <2>1. G = F
    BY <1>6, <1>7, <1>8, <1>18 DEF IsRangedBlock
  <2>2. QED BY <1>10, <1>18, <2>1 DEF IsRangedBlock
<1>19. ASSUME ~ step.changed, ~ HasLoneTest(body), \A c \in DOMAIN body : HasPassedRange(body, R, F, c)
       PROVE  \A c \in DOMAIN body :
                IsRangedBlock(body, D, R, F, c) => IsRangedBlock(body, D, R, step.facts, c)
  BY <1>16, <1>17, <1>19
<1>20. QED
  BY <1>10, <1>13, <1>14, <1>16, <1>18, <1>19 DEF step

(* The pass looks at the ranges of the callees of the function alone, and  *)
(* a larger range of the function has what a smaller one has.              *)
LEMMA RangesRead ==
  ASSUME NEW body, NEW D, NEW E, DOMAIN D = DOMAIN E,
         \A g \in DOMAIN D : g \in Callees(body) => D[g] = E[g],
         NEW x, NEW y, Below(x, y)
  PROVE  \A R, F, b : /\ IsFullyRanged(body, D, R, F, b, x) => IsFullyRanged(body, E, R, F, b, y)
                      /\ IsNowhereRanged(body, D, R, b, x) => IsNowhereRanged(body, E, R, b, y)
<1>1. ASSUME NEW v PROVE AbstractValue(body, D, v) = AbstractValue(body, E, v)
  <2> DEFINE inst == Definition(body, v)
  <2>1. inst.op = "call" => inst.f \in Callees(body)
    BY DefinedInstruction DEF Callees
  <2>2. QED BY <2>1 DEF AbstractValue
<1>2. ASSUME NEW fact, NEW v PROVE RangeOf(body, D, fact, v) = RangeOf(body, E, fact, v)
  BY <1>1 DEF RangeOf
<1>3. ASSUME NEW before, NEW after, NEW source, NEW target
      PROVE  RangeCopied(body, D, before, after, source, target)
             = RangeCopied(body, E, before, after, source, target)
  BY <1>2 DEF RangeCopied
<1>4. ASSUME NEW before, NEW after, NEW inst
      PROVE  RangePhi(body, D, before, after, inst) = RangePhi(body, E, before, after, inst)
  <2>1. {RangeOf(body, D, before, inst.in[p]) : p \in DOMAIN inst.in}
        = {RangeOf(body, E, before, inst.in[p]) : p \in DOMAIN inst.in}
    BY <1>2
  <2>2. QED BY <2>1, Zenon DEF RangePhi
<1>5. ASSUME NEW after, NEW before, NEW inst, NEW old
      PROVE  RangeAfter(body, D, after, before, inst, old)
             = RangeAfter(body, E, after, before, inst, old)
  BY <1>3, <1>4 DEF RangeAfter
<1>6. \A R, F, b : IsRanged(body, D, R, F, b) = IsRanged(body, E, R, F, b)
  BY <1>5 DEF IsRanged, IsRangedAt
<1>7. \A R, F, b : IsRangedBlock(body, D, R, F, b) => IsRangedBlock(body, E, R, F, b)
  BY <1>6 DEF IsRangedBlock
<1>8. \A F, b : IsReturnRanged(body, D, F, b, x) => IsReturnRanged(body, E, F, b, y)
  BY <1>2, BelowIsTransitive DEF IsReturnRanged
<1>9. \A b : IsReturnAbstract(body, D, b, x) => IsReturnAbstract(body, E, b, y)
  BY <1>1, BelowIsTransitive DEF IsReturnAbstract
<1>10. QED BY <1>7, <1>8, <1>9 DEF IsFullyRanged, IsNowhereRanged

(* The range of a return: it has what the function had, and that of what   *)
(* is returned.                                                            *)
LEMMA RangeReturnedType ==
  ASSUME NEW body, IsBody(body), NEW D, AreRanges(D), NEW F, HasRangeFacts(body, F),
         NEW b \in DOMAIN body, NEW pointer, NEW known \in Known
  PROVE  LET new == RangeReturned(body, D, F, b, pointer, known)
         IN new \in Known /\ Below(known, new) /\ IsReturnRanged(body, D, F, b, new)
<1> DEFINE n == Len(body[b])
           last == body[b][n]
           x == RangeOf(body, D, F[b][n], last.a)
           y == IF pointer THEN Widened[x] ELSE x
           xs == {known, y} \ {Absent}
<1>0. n \in Nat \ {0}
  BY BodyShape
<1>1. n \in 1..n /\ n \in 1..n + 1
  BY <1>0
<1>2. CASE last.op = "return"
  <2>1. last \in InstructionsOf(body) /\ Reads(last) = {last.a}
    BY <1>1, <1>2, BodyShape DEF Reads
  <2>2. last.a \in ValuesOf(body)
    BY <1>2, <2>1, OperandsAreValues
  <2>3. F[b][n] \in [ValuesOf(body) -> Known]
    BY <1>1 DEF HasRangeFacts, HasKnownFacts
  <2>4. x \in SignLatticeElement
    BY <2>2, <2>3, RangeOfType
  <2>0. IsReturnRanged(body, D, F, b, RangeReturned(body, D, F, b, pointer, known))
        <=> Below(x, RangeReturned(body, D, F, b, pointer, known))
    BY <1>2 DEF IsReturnRanged, Terminator
  <2>8. RangeReturned(body, D, F, b, pointer, known) = JoinTable[xs]
    BY <1>2, Zenon DEF RangeReturned, Terminator, xs, x
  <2> HIDE DEF x
  <2>5. Widened[x] \in SignLatticeElement /\ Gamma[x] \subseteq Gamma[Widened[x]]
    <3>1. "!=0" \in SignLatticeElement
      BY DEF SignLatticeElement
    <3>2. Join(x, "!=0") \in SignLatticeElement /\ Gamma[Join(x, "!=0")] = Gamma[x] \cup Gamma["!=0"]
      BY <2>4, <3>1, JoinIsExact
    <3>3. Widened[x] = IF Intersects(x, "!=0") THEN Join(x, "!=0") ELSE x
      BY <2>4 DEF Widened
    <3>4. QED BY <2>4, <3>2, <3>3
  <2>6. y \in SignLatticeElement /\ Gamma[x] \subseteq Gamma[y] /\ y # Absent /\ x # Absent
    BY <2>4, <2>5, AbsentIsNoElement
  <2> HIDE DEF y
  <2>7. xs \in SUBSET SignLatticeElement /\ y \in xs /\ (known # Absent => known \in xs)
    BY <2>6 DEF Known
  <2> HIDE DEF xs
  <2>9. JoinTable[xs] \in SignLatticeElement /\ Gamma[JoinTable[xs]] = UNION {Gamma[z] : z \in xs}
    BY <2>7, JoinTableIsExact
  <2>10. Below(known, JoinTable[xs]) /\ Below(x, JoinTable[xs])
    BY <2>6, <2>7, <2>9, AbsentIsNoElement DEF Below
  <2>11. QED BY <2>0, <2>8, <2>9, <2>10 DEF Known
<1>3. CASE last.op # "return"
  BY <1>3 DEF RangeReturned, IsReturnRanged, Terminator, Below
<1>4. QED BY <1>2, <1>3

(* Bottom-up: a function calls those of earlier components, and in one     *)
(* with a loop those of its own.                                           *)
LEMMA ComponentShape ==
  ASSUME NEW p \in Programs
  PROVE  /\ Len(p.components) \in Nat /\ DOMAIN p.components = 1..Len(p.components)
         /\ \A i \in DOMAIN p.components :
              LET functions == p.components[i].functions
              IN /\ Len(functions) \in Nat /\ DOMAIN functions = 1..Len(functions)
                 /\ \A q \in DOMAIN functions : functions[q] \in InComponent(p, i)
                 /\ InComponent(p, i) \subseteq DOMAIN p.body
         /\ \A f \in DOMAIN p.body : \E i \in DOMAIN p.components : f \in InComponent(p, i)
         /\ \A i, j \in DOMAIN p.components : \A f \in InComponent(p, i) \cap InComponent(p, j) : i = j
         /\ \A i, j \in DOMAIN p.components : \A f \in InComponent(p, i) : \A g \in InComponent(p, j) :
              g \in Callees(p.body[f]) => j <= i /\ (j = i => p.components[i].loop)
<1>1. /\ p.components \in Seq(Range(p.components))
      /\ \A i \in DOMAIN p.components : p.components[i].functions \in Seq(DOMAIN p.body)
      /\ UNION {InComponent(p, i) : i \in DOMAIN p.components} = DOMAIN p.body
      /\ IsBottomUp(p)
  BY ProgramsAssumption DEF IsProgram
<1>2. Len(p.components) \in Nat /\ DOMAIN p.components = 1..Len(p.components)
  BY <1>1, LenProperties
<1>3. ASSUME NEW i \in DOMAIN p.components
      PROVE  LET functions == p.components[i].functions
             IN /\ Len(functions) \in Nat /\ DOMAIN functions = 1..Len(functions)
                /\ \A q \in DOMAIN functions : functions[q] \in InComponent(p, i)
                /\ InComponent(p, i) \subseteq DOMAIN p.body
  <2> DEFINE functions == p.components[i].functions
  <2>1. functions \in Seq(DOMAIN p.body)
    BY <1>1
  <2> HIDE DEF functions
  <2>2. Len(functions) \in Nat /\ DOMAIN functions = 1..Len(functions)
    BY <2>1, LenProperties
  <2>3. InComponent(p, i) = {functions[q] : q \in DOMAIN functions}
    BY DEF InComponent, Range, functions
  <2>4. InComponent(p, i) \subseteq DOMAIN p.body
    BY <1>1
  <2>5. QED BY <2>2, <2>3, <2>4 DEF functions
<1>4. \A f \in DOMAIN p.body : \E i \in DOMAIN p.components : f \in InComponent(p, i)
  BY <1>1
<1>5. \A i, j \in DOMAIN p.components : \A f \in InComponent(p, i) \cap InComponent(p, j) : i = j
  BY <1>1 DEF IsBottomUp
<1>6. ASSUME NEW i \in DOMAIN p.components, NEW j \in DOMAIN p.components,
             NEW f \in InComponent(p, i), NEW g \in InComponent(p, j), g \in Callees(p.body[f])
      PROVE  j <= i /\ (j = i => p.components[i].loop)
  <2>1. g \in DOMAIN p.body
    BY <1>3
  <2>2. PICK h \in 1..i : g \in InComponent(p, h) /\ (h = i => p.components[i].loop)
    BY <1>1, <1>6, <2>1 DEF IsBottomUp
  <2>3. h \in DOMAIN p.components /\ h <= i
    BY <1>2
  <2>4. h = j
    BY <1>5, <2>2, <2>3
  <2>5. QED BY <2>2, <2>3, <2>4
<1>7. QED BY <1>2, <1>3, <1>4, <1>5, <1>6

LEMMA RangeInitialFacts ==
  ASSUME NEW body, IsBody(body)
  PROVE  HasRangeFacts(body, RangeInit(body)) /\ IsBlank(body, RangeInit(body))
<1> DEFINE F == RangeInit(body)
           empty == [v \in ValuesOf(body) |-> Absent]
<1>1. F = [b \in DOMAIN body |-> [k \in 1..Len(body[b]) + 1 |-> empty]]
  BY DEF RangeInit, InitialFacts
<1>2. empty \in [ValuesOf(body) -> Known]
  BY DEF Known
<1>3. \A v \in ValuesOf(body) : empty[v] = Absent
  OBVIOUS
<1> HIDE DEF F, empty
<1>4. HasRangeFacts(body, F)
  BY <1>1, <1>2 DEF HasRangeFacts, HasKnownFacts
<1>5. ASSUME NEW b \in DOMAIN body, NEW k \in 1..Len(body[b]) PROVE F[b][k + 1] = empty
  <2>1. Len(body[b]) \in Nat
    BY BodyShape
  <2>2. QED BY <1>1, <2>1
<1>6. IsBlank(body, F)
  BY <1>3, <1>5 DEF IsBlank
<1>7. QED BY <1>4, <1>6 DEF F

LEMMA RangeInitial == Init => RangeInv
<1> SUFFICES ASSUME Init PROVE RangeInv
  OBVIOUS
<1>1. pass = "propagation" /\ component = 1 /\ position = 1 /\ prog \in Programs
      /\ ranges = [f \in DOMAIN prog.body |-> Absent]
  BY DEF Init
<1>2. ASSUME NEW f \in DOMAIN prog.body
      PROVE  HasRangeFacts(prog.body[f], facts.range[f]) /\ IsBlank(prog.body[f], facts.range[f])
  <2>1. "range" \in Range(Pass)
    BY PassNames DEF Passes
  <2>2. facts.range[f] = InitialOf("range", prog.body[f])
    BY <2>1 DEF Init
  <2>3. facts.range[f] = RangeInit(prog.body[f])
    BY <2>2 DEF InitialOf
  <2>4. QED BY <1>1, <2>3, ProgramShape, RangeInitialFacts
<1>3. RangePlaceInv
  BY <1>1 DEF RangePlaceInv
<1>4. RangeFactsInv
  BY <1>1, <1>2 DEF RangeFactsInv, IsQuiet, HasRangeFacts, Known
<1>5. QED BY <1>1, <1>3, <1>4 DEF RangeInv, RangeRoundInv, RangeDoneInv

(* A new range of the function that the pass is at: the functions of       *)
(* earlier components do not read it, and if one of its own component      *)
(* does, that component has a loop and the pass comes back.                *)
LEMMA RangeReaders ==
  ASSUME ControlInv, RangePlaceInv, pass = "range", fn # "none",
         NEW i \in DOMAIN prog.components, NEW f \in InComponent(prog, i), i <= component,
         fn \in Callees(prog.body[f])
  PROVE  i = component /\ prog.components[component].loop
<1>1. prog \in Programs
  BY DEF ControlInv
<1>2. /\ component \in DOMAIN prog.components
      /\ fn \in InComponent(prog, component)
  BY <1>1, ComponentShape DEF RangePlaceInv
<1>3. component <= i /\ (component = i => prog.components[i].loop)
  BY <1>1, <1>2, ComponentShape
<1>4. i = component
  <2>1. DOMAIN prog.components = 1..Len(prog.components) /\ Len(prog.components) \in Nat
    BY <1>1, ComponentShape
  <2>2. QED BY <1>2, <1>3, <2>1
<1>5. QED BY <1>3, <1>4

LEMMA RangeVisitNext ==
  ControlInv /\ RangeInv /\ TrackedInv /\ pass = "range" /\ VisitNextBlock => RangeInv'
<1> SUFFICES ASSUME ControlInv, RangeInv, TrackedInv, pass = "range", VisitNextBlock
             PROVE  RangeInv'
  OBVIOUS
<1> DEFINE R == facts.returned[fn]
           F == facts.range[fn]
           step == RangeStep(Body, ranges, R, F, block)
           new == RangeReturned(Body, ranges, step.facts, block, fn \in prog.pointer, ranges[fn])
<1>1. /\ facts' = [facts EXCEPT !["range"][fn] = step.facts]
      /\ changed' = (changed \/ step.changed)
      /\ ranges' = [ranges EXCEPT ![fn] = new]
      /\ moved' = (moved \/ ranges'[fn] # ranges[fn])
      /\ block' = block + 1
      /\ UNCHANGED <<prog, pass, todo, fn, component, position>>
  BY DEF VisitNextBlock, StepOf
<1>2. fn \in DOMAIN prog.body /\ block \in Nat \ {0} /\ block <= Len(Body) /\ fn # "none"
  BY DEF VisitNextBlock, ControlInv
<1>3. IsTypedBody(Body) /\ IsBody(Body)
  BY <1>2, TypedPrograms DEF ControlInv, Body, IsTypedBody
<1>4. DOMAIN Body = 1..Len(Body) /\ Len(Body) \in Nat
  BY <1>3, BodyShape
<1>5. block \in DOMAIN Body
  BY <1>2, <1>4
<1>6. /\ facts'.range[fn] = step.facts
      /\ \A f \in DOMAIN prog.body : f # fn => facts'.range[f] = facts.range[f]
      /\ facts'.returned = facts.returned
  BY <1>1, <1>2 DEF ControlInv, Passes
<1>7. /\ ranges = [f \in DOMAIN prog.body |-> ranges[f]] /\ AreRanges(ranges)
      /\ HasRangeFacts(Body, F)
      /\ ~ HasLoneTest(Body) /\ ~ changed => IsQuiet(Body, R, F)
  BY <1>2 DEF RangeInv, RangePlaceInv, RangeFactsInv, AreRanges, HasRangeFacts, Body
<1>8. /\ HasRangeFacts(Body, step.facts)
      /\ ~ HasLoneTest(Body) =>
           /\ HasPassedRange(Body, R, step.facts, block)
           /\ \A c \in DOMAIN Body :
                HasPassedRange(Body, R, F, c) => HasPassedRange(Body, R, step.facts, c)
      /\ ~ step.changed => (IsBlank(Body, F) <=> IsBlank(Body, step.facts))
      /\ ~ step.changed /\ IsBlank(Body, F) => TracksNothing(Body, R, block)
      /\ ~ step.changed /\ ~ HasLoneTest(Body)
         /\ (\A c \in DOMAIN Body : HasPassedRange(Body, R, F, c)) =>
           /\ IsRangedBlock(Body, ranges, R, step.facts, block)
           /\ \A c \in DOMAIN Body : c # block => step.facts[c] = F[c]
           /\ \A c \in DOMAIN Body :
                IsRangedBlock(Body, ranges, R, F, c) => IsRangedBlock(Body, ranges, R, step.facts, c)
  <2> HIDE DEF R, F
  <2>1. IsTypedBody(Body) /\ AreRanges(ranges) /\ HasRangeFacts(Body, F) /\ block \in DOMAIN Body
    BY <1>3, <1>5, <1>7
  <2> QED BY <2>1, RangeSteps, ZenonT(60)
<1>t. IsPlain(Body) => TracksOnly(Body, R, F) /\ TracksOnly(Body, R, step.facts)
  <2>1. IsPlain(Body) => TracksOnly(Body, R, F)
    BY <1>2 DEF TrackedInv, Body
  <2>2. ASSUME IsPlain(Body) PROVE TracksOnly(Body, R, step.facts)
    <3>1. TracksOnly(Body, R, F)
      BY <2>1, <2>2
    <3> HIDE DEF R, F
    <3>2. QED BY <1>3, <1>5, <1>7, <2>2, <3>1, RangeStepTracks
  <2>3. QED BY <2>1, <2>2
<1> HIDE DEF step
<1>9. /\ new \in Known /\ Below(ranges[fn], new)
      /\ IsReturnRanged(Body, ranges, step.facts, block, new)
  BY <1>2, <1>3, <1>5, <1>7, <1>8, RangeReturnedType DEF AreRanges
<1> HIDE DEF new
<1>10. /\ ranges' = [f \in DOMAIN prog.body |-> ranges'[f]]
       /\ \A f \in DOMAIN prog.body : ranges'[f] \in Known
       /\ \A f \in DOMAIN prog.body : f # fn => ranges'[f] = ranges[f]
       /\ ranges'[fn] = new
  BY <1>1, <1>2, <1>7, <1>9 DEF AreRanges
<1>11. RangePlaceInv'
  BY <1>1, <1>10 DEF RangeInv, RangePlaceInv
<1>12. ~ HasLoneTest(Body) /\ ~ changed' => IsQuiet(Body, R, step.facts)
  BY <1>1, <1>7, <1>8 DEF IsQuiet
<1>13. RangeFactsInv'
  <2> SUFFICES ASSUME NEW f \in DOMAIN prog.body
               PROVE  /\ ranges'[f] \in Known
                      /\ HasRangeFacts(prog.body[f], facts'.range[f])
                      /\ ~ HasLoneTest(prog.body[f]) /\ (f = fn => ~ changed') =>
                           IsQuiet(prog.body[f], facts.returned[f], facts'.range[f])
    BY <1>1, <1>6 DEF RangeFactsInv, HasRangeFacts
  <2>1. CASE f = fn
    BY <1>6, <1>8, <1>10, <1>12, <2>1 DEF Body
  <2>2. CASE f # fn
    BY <1>6, <1>10, <2>2 DEF RangeInv, RangeFactsInv, HasRangeFacts
  <2>3. QED BY <2>1, <2>2
<1>14. \A b \in DOMAIN Body : b < block + 1 => b < block \/ b = block
  BY <1>2, <1>4
<1>15. ~ ComesBack' => ~ ComesBack /\ (ranges' # ranges => ~ prog.components[component].loop)
  <2>1. ranges' # ranges => ranges'[fn] # ranges[fn]
    BY <1>7, <1>10
  <2>2. QED BY <1>1, <2>1 DEF ComesBack
(* What read the range before the step reads it still.                     *)
<1>16. ASSUME NEW i \in DOMAIN prog.components, NEW f \in InComponent(prog, i),
              i < component \/ (i = component /\ ~ ComesBack'), NEW x, NEW y, Below(x, y)
       PROVE  \A S, G, b :
                /\ IsFullyRanged(prog.body[f], ranges, S, G, b, x)
                     => IsFullyRanged(prog.body[f], ranges', S, G, b, y)
                /\ IsNowhereRanged(prog.body[f], ranges, S, b, x)
                     => IsNowhereRanged(prog.body[f], ranges', S, b, y)
  <2>1. ASSUME NEW g \in DOMAIN ranges, g \in Callees(prog.body[f]) PROVE ranges[g] = ranges'[g]
    <3>1. CASE ranges' = ranges
      BY <3>1
    <3>2. CASE ranges' # ranges
      <4>0. i \in Nat /\ component \in Nat
        BY ComponentShape DEF ControlInv
      <4>1. prog.components[i].loop => i # component
        BY <1>15, <1>16, <3>2, <4>0
      <4>2. i <= component
        BY <1>16, <4>0
      <4>3. fn \in Callees(prog.body[f]) => i = component /\ prog.components[component].loop
        BY <1>2, <4>2, RangeReaders DEF RangeInv
      <4>4. g # fn
        BY <2>1, <4>1, <4>3
      <4>5. QED BY <1>7, <1>10, <4>4
    <3>3. QED BY <3>1, <3>2
  <2> DEFINE D == ranges
             E == ranges'
  <2> PICK d : d = D
    OBVIOUS
  <2> PICK e : e = E
    OBVIOUS
  <2>2. DOMAIN d = DOMAIN e /\ \A g \in DOMAIN d : g \in Callees(prog.body[f]) => d[g] = e[g]
    BY <1>7, <1>10, <2>1
  <2>3. \A S, G, b : /\ IsFullyRanged(prog.body[f], d, S, G, b, x) => IsFullyRanged(prog.body[f], e, S, G, b, y)
                     /\ IsNowhereRanged(prog.body[f], d, S, b, x) => IsNowhereRanged(prog.body[f], e, S, b, y)
    <3> HIDE DEF D, E
    <3>1. QED BY <1>16, <2>2, RangesRead
  <2>4. QED BY <2>3
<1>17. prog \in Programs /\ fn \in InComponent(prog, component) /\ component \in DOMAIN prog.components
  BY <1>2, ComponentShape DEF ControlInv, RangeInv, RangePlaceInv
<1>18. RangeRoundInv'
  <2> DEFINE Nowhere(b, x) == IsNowhereRanged(Body, ranges, R, b, x)
             Fully(G, b, x) == IsFullyRanged(Body, ranges, R, G, b, x)
             Nowhere1(b) == IsNowhereRanged(Body, ranges', R, b, new)
             Fully1(b) == IsFullyRanged(Body, ranges', R, step.facts, b, new)
  <2>1. SUFFICES ASSUME ~ HasLoneTest(Body)
                 PROVE  /\ \A b \in DOMAIN Body :
                             b < block + 1 => HasPassedRange(Body, R, step.facts, b)
                        /\ \/ changed' \/ ComesBack'
                           \/ /\ IsBlank(Body, step.facts)
                              /\ \A b \in DOMAIN Body : b < block + 1 => Nowhere1(b)
                           \/ \A b \in DOMAIN Body : b < block + 1 => Fully1(b)
    BY <1>1, <1>6, <1>10 DEF RangeRoundInv, Body
  <2>2. /\ \A b \in DOMAIN Body : b < block => HasPassedRange(Body, R, F, b)
        /\ \/ changed \/ ComesBack
           \/ IsBlank(Body, F) /\ \A b \in DOMAIN Body : b < block => Nowhere(b, ranges[fn])
           \/ \A b \in DOMAIN Body : b < block => Fully(F, b, ranges[fn])
    BY <1>2, <2>1 DEF RangeInv, RangeRoundInv
  <2>3. \A b \in DOMAIN Body : b < block + 1 => HasPassedRange(Body, R, step.facts, b)
    BY <1>8, <1>14, <2>1, <2>2
  <2>4. SUFFICES ASSUME ~ changed', ~ ComesBack'
                 PROVE  \/ IsBlank(Body, step.facts) /\ \A b \in DOMAIN Body : b < block + 1 => Nowhere1(b)
                        \/ \A b \in DOMAIN Body : b < block + 1 => Fully1(b)
    BY <2>3
  <2>5. ~ changed /\ ~ step.changed /\ ~ ComesBack
    BY <1>1, <1>15, <2>4
  <2>6. Below(new, new)
    BY DEF Below
  <2>7. ASSUME NEW x \in {ranges[fn], new}, NEW b
        PROVE  (Nowhere(b, x) => Nowhere1(b)) /\ (Fully(step.facts, b, x) => Fully1(b))
    <3>1. Below(x, new)
      BY <1>9, <2>6, <2>7
    <3>2. \A S, G, c :
            /\ IsFullyRanged(Body, ranges, S, G, c, x) => IsFullyRanged(Body, ranges', S, G, c, new)
            /\ IsNowhereRanged(Body, ranges, S, c, x) => IsNowhereRanged(Body, ranges', S, c, new)
      BY <1>16, <1>17, <2>4, <3>1 DEF Body
    <3>3. QED BY <3>2
  <2> HIDE DEF Nowhere1, Fully1
  <2>8. CASE IsBlank(Body, F)
    <3>1. IsBlank(Body, step.facts) /\ TracksNothing(Body, R, block)
      BY <1>8, <2>5, <2>8
    <3>2. IsPlain(Body) => IsReturnAbstract(Body, ranges, block, new)
      BY <1>3, <1>5, <1>9, <1>t, ReturnIsAbstract
    <3>3. Nowhere(block, new)
      BY <3>1, <3>2 DEF IsNowhereRanged
    <3>4. ASSUME NEW b \in DOMAIN Body, b < block PROVE Nowhere(b, ranges[fn])
      <4>1. CASE IsFullyRanged(Body, ranges, R, F, b, ranges[fn])
        BY <1>3, <1>7, <1>t, <2>8, <4>1, FullyIsNowhere
      <4>2. QED BY <2>2, <2>5, <3>4, <4>1
    <3> HIDE DEF Nowhere
    <3>5. \A b \in DOMAIN Body : b < block + 1 => Nowhere1(b)
      BY <1>14, <2>7, <3>3, <3>4
    <3>6. QED BY <3>1, <3>5
  <2>9. CASE ~ IsBlank(Body, F)
    <3>1. \A b \in DOMAIN Body : HasPassedRange(Body, R, F, b)
      BY <1>7, <2>1, <2>5, <2>9 DEF IsQuiet
    <3>2. /\ IsRangedBlock(Body, ranges, R, step.facts, block)
          /\ \A c \in DOMAIN Body : c # block => step.facts[c] = F[c]
          /\ \A c \in DOMAIN Body :
               IsRangedBlock(Body, ranges, R, F, c) => IsRangedBlock(Body, ranges, R, step.facts, c)
      BY <1>8, <2>1, <2>5, <3>1
    <3>3. Fully(step.facts, block, new)
      BY <1>9, <3>2 DEF IsFullyRanged
    <3>4. ASSUME NEW b \in DOMAIN Body, b < block PROVE Fully(step.facts, b, ranges[fn])
      <4>1. IsFullyRanged(Body, ranges, R, F, b, ranges[fn])
        BY <2>2, <2>5, <2>9, <3>4
      <4>2. step.facts[b] = F[b]
        BY <1>2, <1>4, <3>2, <3>4
      <4>3. IsReturnRanged(Body, ranges, step.facts, b, ranges[fn])
        BY <4>1, <4>2 DEF IsFullyRanged, IsReturnRanged
      <4>4. QED BY <3>2, <4>1, <4>3 DEF IsFullyRanged
    <3> HIDE DEF Fully
    <3>5. QED BY <1>14, <2>7, <3>3, <3>4
  <2>10. QED BY <2>8, <2>9
<1>19. ASSUME NEW i \in DOMAIN prog.components, NEW f \in InComponent(prog, i), f # fn,
              i < component \/ (i = component /\ ~ ComesBack'), RangeSettled(f)
       PROVE  RangeSettled(f)'
  <2>1. f \in DOMAIN prog.body
    BY <1>17, ComponentShape
  <2>2. facts'.range[f] = facts.range[f] /\ ranges'[f] = ranges[f]
    BY <1>6, <1>10, <1>19, <2>1
  <2> DEFINE G == facts.range[f]
             S == facts.returned[f]
             x == ranges[f]
  <2>3. Below(x, x)
    BY DEF Below
  <2>4. \A b : /\ IsFullyRanged(prog.body[f], ranges, S, G, b, x) => IsFullyRanged(prog.body[f], ranges', S, G, b, x)
               /\ IsNowhereRanged(prog.body[f], ranges, S, b, x) => IsNowhereRanged(prog.body[f], ranges', S, b, x)
    <3> HIDE DEF G, S, x
    <3>1. QED BY <1>16, <1>19, <2>3
  <2>5. RangeSettled(f)' =
          (~ HasLoneTest(prog.body[f]) =>
             \/ IsBlank(prog.body[f], G) /\ \A b \in DOMAIN prog.body[f] : IsNowhereRanged(prog.body[f], ranges', S, b, x)
             \/ \A b \in DOMAIN prog.body[f] : IsFullyRanged(prog.body[f], ranges', S, G, b, x))
    BY <1>1, <1>6, <2>2 DEF RangeSettled
  <2>6. QED BY <1>19, <2>4, <2>5 DEF RangeSettled
<1>20. ASSUME NEW i \in DOMAIN prog.components, i < component, NEW f \in InComponent(prog, i), f \notin prog.void
       PROVE  RangeSettled(f)'
  <2>1. RangeSettled(f)
    BY <1>20 DEF RangeInv, RangeDoneInv
  <2>2. f # fn
    <3>1. i \in Nat /\ component \in Nat
      BY <1>17, ComponentShape
    <3>2. QED BY <1>17, <1>20, <3>1, ComponentShape
  <2>3. QED BY <1>19, <1>20, <2>1, <2>2
<1>21. ASSUME NEW h, NEW q \in DOMAIN prog.components[component].functions, q < position,
              h = prog.components[component].functions[q], ~ ComesBack', h \notin prog.void, h # fn
       PROVE  RangeSettled(h)'
  <2>1. h \in InComponent(prog, component)
    BY <1>17, <1>21, ComponentShape
  <2>2. ComesBack \/ RangeSettled(h)
    BY <1>17, <1>21 DEF RangeInv, RangeDoneInv
  <2>3. RangeSettled(h)
    BY <1>15, <1>21, <2>2
  <2>4. QED BY <1>17, <1>19, <1>21, <2>1, <2>3
<1>22. RangeDoneInv'
  <2>1. ASSUME NEW q \in DOMAIN prog.components[component].functions
        PROVE  LET h == prog.components[component].functions[q]
               IN q < position /\ h \notin prog.void /\ h # fn =>
                    ComesBack' \/ (RangeSettled(prog.components[component].functions[q]))'
    <3> PICK h : h = prog.components[component].functions[q]
      OBVIOUS
    <3>1. h' = prog'.components[component'].functions[q]
      BY <1>1
    <3>2. q < position /\ h \notin prog.void /\ h # fn /\ ~ ComesBack' => RangeSettled(h)'
      BY <1>21
    <3>3. QED BY <3>1, <3>2 DEF RangeSettled
  <2>2. QED BY <1>1, <1>17, <1>20, <2>1 DEF RangeDoneInv
<1>23. QED BY <1>11, <1>13, <1>18, <1>22 DEF RangeInv

(* What a step that moves the pass keeps, when it leaves the facts alone.  *)
LEMMA RangeKeepsFacts ==
  ASSUME RangeFactsInv, UNCHANGED <<prog, facts, ranges>>,
         pass' \in {"propagation", "constraints", "returned"} =>
           pass \in {"propagation", "constraints", "returned"},
         \A f \in DOMAIN prog.body :
           (pass' = "range" /\ f = fn' => ~ changed') /\ ~ HasLoneTest(prog.body[f]) =>
             IsQuiet(prog.body[f], facts.returned[f], facts.range[f])
  PROVE  RangeFactsInv'
BY DEF RangeFactsInv

LEMMA RangeNext == ControlInv /\ RangeInv /\ TrackedInv /\ Analyse => RangeInv'
<1> SUFFICES ASSUME ControlInv, RangeInv, TrackedInv, Analyse PROVE RangeInv'
  OBVIOUS
<1>0. "none" \notin DOMAIN prog.body /\ prog \in Programs
  BY ProgramShape DEF ControlInv
<1> DEFINE early == {"propagation", "constraints", "returned"}
           Quiet(f) == ~ HasLoneTest(prog.body[f]) =>
                         IsQuiet(prog.body[f], facts.returned[f], facts.range[f])
<1>a. RangePlaceInv /\ RangeFactsInv /\ RangeRoundInv /\ RangeDoneInv
  BY DEF RangeInv
<1>b. \A f \in DOMAIN prog.body : (pass = "range" /\ f = fn => ~ changed) => Quiet(f)
  BY <1>a DEF RangeFactsInv
<1>c. ASSUME NEW f \in DOMAIN prog.body PROVE \A b \in DOMAIN prog.body[f] : ~ b < 1
  <2>1. DOMAIN prog.body[f] = 1..Len(prog.body[f])
    BY ProgramShape, BodyShape DEF ControlInv
  <2>2. QED BY <2>1
<1>1. ASSUME NEW f \in todo, Begin(f) PROVE RangeInv'
  <2>1. /\ UNCHANGED <<prog, pass, component, position, moved, facts, ranges>>
        /\ pass \in early
    BY <1>1 DEF Begin, ControlInv, Passes
  <2>2. RangeFactsInv'
    BY <1>a, <1>b, <2>1, RangeKeepsFacts
  <2>3. QED BY <1>a, <2>1, <2>2 DEF RangeInv, RangePlaceInv, RangeRoundInv, RangeDoneInv
<1>2. ASSUME BeginInComponent PROVE RangeInv'
  <2> DEFINE functions == prog.components[component].functions
  <2>1. /\ UNCHANGED <<prog, pass, component, moved, facts, ranges>>
        /\ pass = "range" /\ fn = "none"
        /\ component \in DOMAIN prog.components /\ position \in DOMAIN functions
        /\ position \in Nat /\ functions[position] \in DOMAIN prog.body
    BY <1>0, <1>2, ComponentShape DEF BeginInComponent, ControlInv
  <2>2. RangeFactsInv'
    <3>1. ASSUME NEW f \in DOMAIN prog.body PROVE Quiet(f)
      BY <1>0, <1>b, <2>1
    <3>2. QED BY <1>a, <2>1, <3>1, RangeKeepsFacts
  <2>3. CASE ShouldIgnore(functions[position])
    <3>1. position' = position + 1 /\ fn' = "none"
      BY <1>2, <2>1, <2>3 DEF BeginInComponent
    <3>2. functions[position] \in prog.void
      BY <2>3 DEF ShouldIgnore
    <3>3. \A q \in DOMAIN functions : q < position + 1 => q < position \/ q = position
      BY <2>1, <1>0, ComponentShape
    <3>4. RangePlaceInv'
      BY <1>a, <2>1, <3>1 DEF RangePlaceInv
    <3>5. RangeDoneInv'
      <4>1. \A q \in DOMAIN functions :
              q < position + 1 /\ functions[q] \notin prog.void => ComesBack \/ RangeSettled(functions[q])
        <5> SUFFICES ASSUME NEW q \in DOMAIN functions, q < position + 1, functions[q] \notin prog.void
                     PROVE  ComesBack \/ RangeSettled(functions[q])
          OBVIOUS
        <5>1. q < position
          BY <3>2, <3>3
        <5>2. functions[q] # fn
          BY <1>0, <2>1, ComponentShape
        <5>3. QED BY <1>a, <2>1, <5>1, <5>2 DEF RangeDoneInv
      <4>2. QED BY <1>a, <2>1, <3>1, <4>1 DEF RangeDoneInv, ComesBack, RangeSettled
    <3>6. RangeRoundInv'
      BY <3>1 DEF RangeRoundInv
    <3>7. QED BY <2>2, <3>4, <3>5, <3>6 DEF RangeInv
  <2>4. CASE ~ ShouldIgnore(functions[position])
    <3>1. position' = position /\ fn' = functions[position] /\ block' = 1
      BY <1>2, <2>1, <2>4 DEF BeginInComponent
    <3>2. functions[position] \notin prog.void
      BY <2>4 DEF ShouldIgnore
    <3>3. RangePlaceInv'
      BY <1>a, <2>1, <3>1, <3>2 DEF RangePlaceInv
    <3>4. RangeDoneInv'
      <4>1. \A q \in DOMAIN functions :
              q < position /\ functions[q] \notin prog.void => ComesBack \/ RangeSettled(functions[q])
        <5> SUFFICES ASSUME NEW q \in DOMAIN functions, q < position, functions[q] \notin prog.void
                     PROVE  ComesBack \/ RangeSettled(functions[q])
          OBVIOUS
        <5>1. functions[q] # fn
          BY <1>0, <2>1, ComponentShape
        <5>2. QED BY <1>a, <2>1, <5>1 DEF RangeDoneInv
      <4>2. QED BY <1>a, <2>1, <3>1, <4>1 DEF RangeDoneInv, ComesBack, RangeSettled
    <3>5. RangeRoundInv'
      <4>1. \A b \in DOMAIN Body' : ~ b < block'
        BY <1>c, <2>1, <3>1 DEF Body
      <4>2. QED BY <4>1 DEF RangeRoundInv
    <3>6. QED BY <2>2, <3>3, <3>4, <3>5 DEF RangeInv
  <2>5. QED BY <2>3, <2>4
<1>3. ASSUME VisitNextBlock PROVE RangeInv'
  <2>1. CASE pass = "range"
    BY <1>3, <2>1, RangeVisitNext
  <2>2. CASE pass # "range"
    <3>1. PICK step : facts' = [facts EXCEPT ![pass][fn] = step.facts]
      BY <1>3 DEF VisitNextBlock
    <3>2. facts'.range = facts.range
      BY <2>2, <3>1 DEF ControlInv, Passes
    <3>3. UNCHANGED <<prog, pass, todo, fn, component, position, ranges, moved>>
      BY <1>3, <2>2 DEF VisitNextBlock
    <3>4. pass \in early
      BY <1>3, <2>2 DEF VisitNextBlock, ControlInv, Passes
    <3>5. RangeFactsInv'
      BY <1>a, <3>2, <3>3, <3>4 DEF RangeFactsInv, IsQuiet
    <3>6. QED BY <1>a, <3>3, <3>4, <3>5 DEF RangeInv, RangePlaceInv, RangeRoundInv, RangeDoneInv
  <2>3. QED BY <2>1, <2>2
<1>4. ASSUME NextRound PROVE RangeInv'
  <2>1. /\ UNCHANGED <<prog, pass, todo, fn, facts, component, position, moved, ranges>>
        /\ block' = 1 /\ fn # "none" /\ block > Len(Body) /\ fn \in DOMAIN prog.body /\ block \in Nat
    BY <1>4 DEF NextRound, ControlInv
  <2>2. \A b \in DOMAIN Body : b < block
    <3>1. DOMAIN Body = 1..Len(Body) /\ Len(Body) \in Nat
      BY <2>1, ProgramShape, BodyShape DEF ControlInv, Body
    <3>2. QED BY <2>1, <3>1
  <2>3. pass = "range" => Quiet(fn)
    BY <1>a, <2>1, <2>2 DEF RangeRoundInv, IsQuiet, Body
  <2>4. RangeFactsInv'
    BY <1>a, <1>b, <2>1, <2>3, RangeKeepsFacts
  <2>5. RangeRoundInv'
    <3>1. \A b \in DOMAIN Body' : ~ b < block'
      BY <1>c, <2>1 DEF Body
    <3>2. QED BY <3>1 DEF RangeRoundInv
  <2>6. QED BY <1>a, <2>1, <2>4, <2>5 DEF RangeInv, RangePlaceInv, RangeDoneInv, ComesBack, RangeSettled
<1>5. ASSUME EndFunction PROVE RangeInv'
  <2>1. /\ UNCHANGED <<prog, pass, todo, facts, component, moved, ranges>>
        /\ fn # "none" /\ fn' = "none" /\ block > Len(Body) /\ ~ changed
        /\ fn \in DOMAIN prog.body /\ block \in Nat
        /\ position' = IF pass = "range" THEN position + 1 ELSE position
    BY <1>5 DEF EndFunction, ControlInv
  <2>2. RangeFactsInv'
    BY <1>0, <1>a, <1>b, <2>1, RangeKeepsFacts
  <2>3. RangePlaceInv' /\ RangeRoundInv'
    BY <1>a, <2>1 DEF RangePlaceInv, RangeRoundInv
  <2>4. CASE pass # "range"
    <3>1. pass \in early
      BY <2>1, <2>4 DEF ControlInv, Passes
    <3>2. QED BY <2>1, <2>2, <2>3, <3>1 DEF RangeInv, RangeDoneInv
  <2>5. CASE pass = "range"
    <3> DEFINE functions == prog.components[component].functions
    <3>1. /\ component \in DOMAIN prog.components /\ position \in DOMAIN functions
          /\ fn = functions[position]
      BY <1>a, <2>1, <2>5 DEF RangePlaceInv
    <3>2. \A b \in DOMAIN Body : b < block
      <4>1. DOMAIN Body = 1..Len(Body) /\ Len(Body) \in Nat
        BY <2>1, ProgramShape, BodyShape DEF ControlInv, Body
      <4>2. QED BY <2>1, <4>1
    <3>3. ComesBack \/ RangeSettled(fn)
      BY <1>a, <2>1, <2>5, <3>2 DEF RangeRoundInv, RangeSettled, Body
    <3>4. ASSUME NEW q \in DOMAIN functions, q < position + 1, functions[q] \notin prog.void
          PROVE  ComesBack \/ RangeSettled(functions[q])
      <4>1. CASE functions[q] = fn
        BY <3>3, <4>1
      <4>2. CASE functions[q] # fn
        <5>1. q \in Nat /\ position \in Nat
          BY <1>0, <3>1, ComponentShape
        <5>2. q < position
          BY <3>1, <3>4, <4>2, <5>1
        <5>3. QED BY <1>a, <2>5, <3>1, <3>4, <4>2, <5>2 DEF RangeDoneInv
      <4>3. QED BY <4>1, <4>2
    <3>5. RangeDoneInv'
      BY <1>a, <2>1, <2>5, <3>4 DEF RangeDoneInv, ComesBack, RangeSettled
    <3>6. QED BY <2>2, <2>3, <3>5 DEF RangeInv
  <2>6. QED BY <2>4, <2>5
<1>6. ASSUME EndComponent PROVE RangeInv'
  <2> DEFINE functions == prog.components[component].functions
  <2>1. /\ UNCHANGED <<prog, pass, todo, fn, facts, ranges>>
        /\ pass = "range" /\ fn = "none" /\ position' = 1
        /\ component \in DOMAIN prog.components /\ component \in Nat
        /\ component' = IF ComesBack THEN component ELSE component + 1
    BY <1>0, <1>6, ComponentShape DEF EndComponent, ControlInv, ComesBack
  <2>2. \A q \in DOMAIN functions : q < position
    <3>1. DOMAIN functions = 1..Len(functions) /\ Len(functions) \in Nat
      BY <1>0, <2>1, ComponentShape
    <3>2. position > Len(functions) /\ position \in Nat
      BY <1>6 DEF EndComponent, ControlInv
    <3>3. QED BY <3>1, <3>2
  <2>3. RangeFactsInv'
    <3>1. ASSUME NEW f \in DOMAIN prog.body PROVE Quiet(f)
      BY <1>0, <1>b, <2>1
    <3>2. QED BY <1>a, <2>1, <3>1, RangeKeepsFacts
  <2>4. ASSUME ~ ComesBack, NEW f \in InComponent(prog, component), f \notin prog.void
        PROVE  RangeSettled(f)
    <3>1. PICK q \in DOMAIN functions : f = functions[q]
      BY DEF InComponent, Range
    <3>2. f # fn
      BY <1>0, <2>1, ComponentShape
    <3>3. QED BY <1>a, <2>1, <2>2, <2>4, <3>1, <3>2 DEF RangeDoneInv
  <2>5. ASSUME NEW i \in DOMAIN prog.components, i < component', NEW f \in InComponent(prog, i) \ prog.void
        PROVE  RangeSettled(f)
    <3>1. CASE i < component
      BY <1>a, <2>1, <3>1 DEF RangeDoneInv
    <3>2. CASE ~ i < component
      <4>1. i \in Nat
        BY <1>0, ComponentShape
      <4>2. i = component /\ ~ ComesBack
        BY <2>1, <2>5, <3>2, <4>1
      <4>3. QED BY <2>4, <4>2
    <3>3. QED BY <3>1, <3>2
  <2>6. RangeDoneInv'
    <3>1. \A i \in DOMAIN prog.components : \A q \in DOMAIN prog.components[i].functions : ~ q < 1
      BY <1>0, ComponentShape
    <3>2. QED BY <2>1, <2>5, <3>1 DEF RangeDoneInv, RangeSettled
  <2>7. RangePlaceInv' /\ RangeRoundInv'
    BY <1>a, <2>1 DEF RangePlaceInv, RangeRoundInv
  <2>8. QED BY <2>3, <2>6, <2>7 DEF RangeInv
<1>7. ASSUME EndPass PROVE RangeInv'
  <2>1. /\ UNCHANGED <<prog, fn, block, changed, component, position, moved, facts, ranges>>
        /\ fn = "none"
        /\ \/ pass \in early /\ pass' \in early \cup {"range"}
           \/ pass = "range" /\ pass' = "done" /\ component > Len(prog.components)
    BY <1>7 DEF EndPass, ControlInv, Passes
  <2>2. RangeFactsInv'
    <3>1. ASSUME NEW f \in DOMAIN prog.body PROVE Quiet(f)
      BY <1>0, <1>b, <2>1
    <3>2. QED BY <1>a, <2>1, <3>1, RangeKeepsFacts
  <2>3. RangePlaceInv' /\ RangeRoundInv'
    BY <1>a, <2>1 DEF RangePlaceInv, RangeRoundInv
  <2>4. CASE pass \in early
    <3>1. component = 1 /\ position = 1
      BY <1>a, <2>4 DEF RangePlaceInv
    <3>2. \A i \in DOMAIN prog.components :
            ~ i < 1 /\ \A q \in DOMAIN prog.components[i].functions : ~ q < 1
      BY <1>0, ComponentShape
    <3>3. RangeDoneInv'
      BY <2>1, <3>1, <3>2 DEF RangeDoneInv
    <3>4. QED BY <2>2, <2>3, <3>3 DEF RangeInv
  <2>5. CASE pass = "range"
    <3>1. RangeDoneInv'
      BY <1>a, <2>1, <2>5 DEF RangeDoneInv, ComesBack, RangeSettled
    <3>2. QED BY <2>2, <2>3, <3>1 DEF RangeInv
  <2>6. QED BY <2>1, <2>4, <2>5
<1>8. QED BY <1>1, <1>2, <1>3, <1>4, <1>5, <1>6, <1>7 DEF Analyse

LEMMA NothingIsTracked ==
  ASSUME NEW body, NEW R PROVE TracksOnly(body, R, RangeInit(body))
BY DEF TracksOnly, RangeInit, InitialFacts

LEMMA TrackedInitial == Init => TrackedInv
<1> SUFFICES ASSUME Init, NEW f \in DOMAIN prog.body PROVE facts.range[f] = RangeInit(prog.body[f])
  BY NothingIsTracked DEF TrackedInv
<1>1. "range" \in Range(Pass)
  BY PassNames DEF Passes
<1>2. facts.range[f] = InitialOf("range", prog.body[f])
  BY <1>1 DEF Init
<1>3. QED BY <1>2 DEF InitialOf

LEMMA TrackedNext == ControlInv /\ RangeInv /\ TrackedInv /\ Analyse => TrackedInv'
<1> SUFFICES ASSUME ControlInv, RangeInv, TrackedInv, Analyse PROVE TrackedInv'
  OBVIOUS
<1> DEFINE early == {"propagation", "constraints", "returned"}
<1>1. UNCHANGED prog
  BY DEF Analyse, Begin, BeginInComponent, VisitNextBlock, NextRound, EndFunction, EndComponent, EndPass
<1>2. CASE VisitNextBlock
  <2>1. pass' = pass /\ fn # "none" /\ fn \in DOMAIN prog.body
    BY <1>2 DEF VisitNextBlock, ControlInv
  <2>2. CASE pass # "range"
    <3>1. PICK step : facts' = [facts EXCEPT ![pass][fn] = step.facts]
      BY <1>2 DEF VisitNextBlock
    <3>2. facts'.range = facts.range /\ pass \in early
      BY <2>1, <2>2, <3>1 DEF ControlInv, Passes
    <3>3. \A f \in DOMAIN prog.body : facts'.range[f] = RangeInit(prog.body[f])
      BY <3>2 DEF TrackedInv
    <3>4. QED BY <1>1, <3>3, NothingIsTracked DEF TrackedInv
  <2>3. CASE pass = "range"
    <3> DEFINE step == RangeStep(Body, ranges, facts.returned[fn], facts.range[fn], block)
    <3>1. facts' = [facts EXCEPT !["range"][fn] = step.facts]
      BY <1>2, <2>3 DEF VisitNextBlock, StepOf
    <3>2. /\ facts'.range[fn] = step.facts
          /\ \A f \in DOMAIN prog.body : f # fn => facts'.range[f] = facts.range[f]
          /\ facts'.returned = facts.returned
      BY <2>1, <3>1 DEF ControlInv, Passes
    <3>3. IsTypedBody(Body)
      BY <2>1, TypedPrograms DEF ControlInv, Body
    <3>4. block \in DOMAIN Body
      <4>1. block \in Nat \ {0} /\ block <= Len(Body)
        BY <1>2, <2>1 DEF VisitNextBlock, ControlInv
      <4>2. DOMAIN Body = 1..Len(Body) /\ Len(Body) \in Nat
        BY <3>3, BodyShape DEF IsTypedBody
      <4>3. QED BY <4>1, <4>2
    <3>5. AreRanges(ranges) /\ HasRangeFacts(Body, facts.range[fn])
      BY <2>1 DEF RangeInv, RangePlaceInv, RangeFactsInv, AreRanges, HasRangeFacts, Body
    <3>6. IsPlain(Body) => TracksOnly(Body, facts.returned[fn], step.facts)
      BY <2>1, <3>3, <3>4, <3>5, RangeStepTracks DEF TrackedInv, Body
    <3> HIDE DEF step
    <3>7. \A f \in DOMAIN prog.body :
            IsPlain(prog.body[f]) => TracksOnly(prog.body[f], facts'.returned[f], facts'.range[f])
      BY <3>2, <3>6 DEF TrackedInv, Body
    <3>8. QED BY <1>1, <2>1, <2>3, <3>7 DEF TrackedInv
  <2>4. QED BY <2>2, <2>3
<1>3. CASE ~ VisitNextBlock
  <2>1. UNCHANGED facts /\ (pass' \in early => pass \in early)
    BY <1>3 DEF Analyse, Begin, BeginInComponent, NextRound, EndFunction, EndComponent, EndPass, ControlInv, Passes
  <2>2. QED BY <1>1, <2>1 DEF TrackedInv
<1>4. QED BY <1>2, <1>3

LEMMA RangeAlways == ExecSpec => [](ExecutionInv /\ RangeInv /\ TrackedInv)
<1>1. ExecutionInv /\ RangeInv /\ TrackedInv /\ [ExecNext]_allVars => RangeInv' /\ TrackedInv'
  <2> SUFFICES ASSUME ExecutionInv, RangeInv, TrackedInv, [ExecNext]_allVars PROVE RangeInv' /\ TrackedInv'
    OBVIOUS
  <2>1. CASE Analyse
    BY <2>1, RangeNext, TrackedNext DEF ExecutionInv
  <2>2. CASE UNCHANGED vars
    <3>1. RangePlaceInv' /\ RangeFactsInv'
      BY <2>2 DEF vars, RangeInv, RangePlaceInv, RangeFactsInv
    <3>2. RangeRoundInv' /\ RangeDoneInv'
      BY <2>2 DEF vars, RangeInv, RangeRoundInv, RangeDoneInv, ComesBack, RangeSettled, Body
    <3>3. TrackedInv'
      BY <2>2 DEF vars, TrackedInv
    <3>4. QED BY <3>1, <3>2, <3>3 DEF RangeInv
  <2>3. QED BY <2>1, <2>2 DEF ExecNext, allVars
<1>2. ExecInit => RangeInv /\ TrackedInv
  BY RangeInitial, TrackedInitial DEF ExecInit
<1>3. QED BY <1>1, <1>2, ExecutionInitial, ExecutionNext, PTL DEF ExecSpec

(* What the pass leaves of a function when it is over.                     *)
LEMMA RangesSettle ==
  ASSUME ExecutionInv, RangeInv, pass = "done", NEW f \in DOMAIN prog.body \ prog.void
  PROVE  RangeSettled(f)
<1>1. prog \in Programs
  BY DEF ExecutionInv, ControlInv
<1>2. PICK i \in DOMAIN prog.components : f \in InComponent(prog, i)
  BY <1>1, ComponentShape
<1>3. i < component
  <2>1. component > Len(prog.components) /\ component \in Nat
    BY DEF RangeInv, RangePlaceInv, ExecutionInv, ControlInv
  <2>2. i \in 1..Len(prog.components) /\ Len(prog.components) \in Nat
    BY <1>1, ComponentShape
  <2>3. QED BY <2>1, <2>2
<1>4. QED BY <1>2, <1>3 DEF RangeInv, RangeDoneInv

(* When ReturnRangePass is over, a function without a lone test is at a    *)
(* fixpoint, with the ranges that all functions have in the end, or        *)
(* nothing is known behind any instruction of it.                          *)
LEMMA RangesStop ==
  ASSUME ExecutionInv, RangeInv, pass = "done", NEW f \in DOMAIN prog.body \ prog.void,
         ~ HasLoneTest(prog.body[f])
  PROVE  Settled(f, "range") \/ FindsNothing(f)
<1> DEFINE body == prog.body[f]
           F == facts.range[f]
<1>1. prog \in Programs /\ IsTypedBody(body) /\ IsBody(body)
  BY TypedPrograms DEF ExecutionInv, ControlInv, IsTypedBody
<1>2. AreRanges(ranges) /\ HasRangeFacts(body, F)
  BY DEF RangeInv, RangeFactsInv, RangePlaceInv, AreRanges, HasRangeFacts
<1>3. RangeSettled(f)
  BY RangesSettle
<1>4. CASE \A b \in DOMAIN body : IsRangedBlock(body, ranges, facts.returned[f], F, b)
  <2>1. \A b \in DOMAIN body : RangeStep(body, ranges, facts.returned[f], F, b).facts = F
    BY <1>1, <1>2, <1>4, RangeSteps
  <2>2. QED BY <2>1 DEF Settled
<1>5. CASE IsBlank(body, F)
  <2>1. ASSUME NEW b \in DOMAIN body, NEW k \in DOMAIN body[b] PROVE Range(F[b][k + 1]) = {Absent}
    <3>1. Len(body[b]) \in Nat /\ DOMAIN body[b] = 1..Len(body[b])
      BY <1>1, BodyShape
    <3>2. k + 1 \in 1..Len(body[b]) + 1
      BY <3>1
    <3>3. F[b][k + 1] \in [ValuesOf(body) -> Known]
      BY <1>2, <3>2 DEF HasRangeFacts, HasKnownFacts
    <3>4. \A v \in ValuesOf(body) : F[b][k + 1][v] = Absent
      BY <1>5, <3>1 DEF IsBlank
    <3>5. "null" \in ValuesOf(body)
      BY ConstantsAreValues DEF Constant
    <3>6. QED BY <3>3, <3>4, <3>5 DEF Range
  <2>2. QED BY <2>1 DEF FindsNothing
<1>6. QED BY <1>3, <1>4, <1>5 DEF RangeSettled, IsFullyRanged

(* When a pass is over, another round over the blocks of a function would  *)
(* change nothing, whatever the program: the `changed` of VisitBlock and   *)
(* the `moved` of the components miss no change that matters.  Only a lone *)
(* test can leave ReturnConstraintsPass and ReturnRangePass short of that, *)
(* and for the latter a first round that leaves nothing behind any         *)
(* instruction.                                                            *)
THEOREM PassesStop == ExecSpec => []PassesStopAtFixpoints
<1>1. ExecutionInv /\ RangeInv =>
        (pass = "done" => \A f \in DOMAIN prog.body \ prog.void :
           ~ HasLoneTest(prog.body[f]) => Settled(f, "range") \/ FindsNothing(f))
  BY RangesStop
<1>2. ASSUME ExecutionInv,
             pass = "done" => \A f \in DOMAIN prog.body : Settled(f, "propagation"),
             pass = "done" => \A f \in DOMAIN prog.body : Settled(f, "returned"),
             pass = "done" => \A f \in DOMAIN prog.body :
               ~ HasLoneTest(prog.body[f]) => Settled(f, "constraints"),
             pass = "done" => \A f \in DOMAIN prog.body \ prog.void :
               ~ HasLoneTest(prog.body[f]) => Settled(f, "range") \/ FindsNothing(f)
      PROVE  PassesStopAtFixpoints
  <2>1. DOMAIN facts = {"propagation", "constraints", "returned", "range"}
    BY <1>2 DEF ExecutionInv, ControlInv, Passes
  <2>2. QED BY <1>2, <2>1 DEF PassesStopAtFixpoints
<1>3. QED
  BY <1>1, <1>2, RangeAlways, PropagationStopsAtFixpoint, ReturnedValuesStopAtFixpoint,
     ConstraintsStopAtFixpoint, PTL
=============================================================================
