------------------------- MODULE ErrorBlocksTheorems -------------------------
(***************************************************************************)
(* ErrorBlocksPass on every program, embedding and domain knowledge: what  *)
(* it stores are confidences, domain knowledge is never revised, no        *)
(* specification ever claims a function's whole return range, and evidence *)
(* is final.  Without an embedding, specifications only grow, the analysis *)
(* stops at a fixpoint, and what it stops with is justified by it.         *)
(***************************************************************************)
EXTENDS ErrorBlocks, SpecificationTheorems

(***************************************************************************)
(* The transfer functions of error_blocks_pass.cc yield confidences: every *)
(* delta they hand to UpdateErrorSpecification, from whatever block, calls *)
(* and domain knowledge, is an element of the confidence lattice, and has  *)
(* no other levels than the specifications it was inferred from.           *)
(***************************************************************************)

LEMMA EmptysetStays ==
  ASSUME NEW L \in Levels
  PROVE  Emptyset \in OfLevels(L) /\ Unknown \in OfLevels(L)
BY ConversionsStay DEF Levels

LEMMA OnSignsType ==
  ASSUME NEW L \in Levels, NEW S, NEW confidence \in L, NEW empty \in L
  PROVE  OnSigns(S, confidence, empty) \in OfLevels(L)
BY DEF OnSigns, OfLevels, Levels

LEMMA DroppingType ==
  ASSUME NEW L \in Levels, NEW c \in OfLevels(L), NEW knowledge, NEW returns, NEW f, NEW file
  PROVE  Dropping(knowledge, returns, f, file, c) \in OfLevels(L)
<1>1. DropZero(c) \in OfLevels(L)
  <2>1. ToConfidence("0", kMinConfidence) \in OfLevels(L)
    BY ConversionsStay DEF Levels
  <2>2. QED BY <2>1, SelectionsStay DEF DropZero
<1>2. QED BY <1>1 DEF Dropping

LEMMA AddErrorValueType ==
  ASSUME NEW L \in Levels, NEW knowledge, NEW f, NEW x
  PROVE  AddErrorValue(knowledge, f, x) \in OfLevels(L)
BY EmptysetStays, OnSignsType DEF AddErrorValue, Levels

LEMMA VisitCallInstType ==
  ASSUME NEW L \in Levels, NEW knowledge, NEW E, NEW returns, NEW f, NEW file, NEW call
  PROVE  VisitCallInst(knowledge, E, returns, f, file, call) \in OfLevels(L)
<1> DEFINE value(x) == ErrorOnlyValue(knowledge, returns, f, file, x)
           values == {Emptyset} \cup {value(x) : x \in call.returned}
<1>1. \A x : value(x) \in OfLevels(L)
  <2> SUFFICES ASSUME NEW x PROVE value(x) \in OfLevels(L)
    OBVIOUS
  <2>1. CASE x.kind = "bool"
    BY <2>1, OnSignsType DEF ErrorOnlyValue, Levels
  <2>2. CASE x.kind = "int"
    BY <2>2, EmptysetStays, AddErrorValueType DEF ErrorOnlyValue
  <2>3. CASE x.kind = "null"
    BY <2>3, AddErrorValueType DEF ErrorOnlyValue
  <2>4. CASE x.kind \notin {"bool", "int", "null"}
    BY <2>4, EmptysetStays DEF ErrorOnlyValue
  <2>5. QED BY <2>1, <2>2, <2>3, <2>4
<1>2. values \in SUBSET OfLevels(L) /\ values # {}
  BY <1>1, EmptysetStays
<1>3. JoinAll(values) \in OfLevels(L)
  <2> HIDE DEF values
  <2>1. QED BY <1>2, FoldsStay
<1>4. [Unknown EXCEPT !.emptyset = IF CalleeEmptyset(E, call) THEN kMaxConfidence
                                   ELSE kMinConfidence] \in OfLevels(L)
  BY ConversionsStay DEF Levels
<1>5. QED BY <1>3, <1>4 DEF VisitCallInst

LEMMA ConstraintConfidenceType ==
  ASSUME NEW L \in Levels, NEW names, NEW E \in [names -> OfLevels(L)],
         NEW block, IsBlock(names, block), NEW k \in Constraining(block)
  PROVE  ConstraintConfidence(E, block, k) \in OfLevels(L)
<1>1. E[k] \in OfLevels(L) /\ block.constraints[k] \in SignLatticeElement
  BY DEF IsBlock, Constraining
<1>2. QED BY <1>1, SelectionsStay DEF ConstraintConfidence

(* A block that propagates returns the result of a function of the module. *)
LEMMA PropagatedCallee ==
  ASSUME NEW L \in Levels, NEW names, NEW E \in [names -> OfLevels(L)],
         NEW block, IsBlock(names, block), ReturnsOne(block), Propagates(E, block)
  PROVE  Carrier(block).callee \in names
<1>1. ReturnedValue(block) \in block.returned BY DEF ReturnsOne, ReturnedValue
<1>2. Carrier(block) \in block.returned \cup block.holds
  BY <1>1 DEF Carrier, Holding
<1>3. Carrier(block).callee \in names \cup {""} BY <1>2 DEF IsBlock
<1>4. Carrier(block).callee # ""
  BY UnknownType DEF Propagates, SpecificationOf, IsUnknown, Unknown
<1>5. QED BY <1>3, <1>4

LEMMA ReturnConfidenceType ==
  ASSUME NEW L \in Levels, NEW names, NEW E \in [names -> OfLevels(L)],
         NEW block, IsBlock(names, block), ReturnsOne(block), NEW k \in Constraining(block)
  PROVE  ReturnConfidence(E, block, k) \in OfLevels(L)
<1> DEFINE inter == ConstraintConfidence(E, block, k)
           h == Carrier(block)
<1>1. inter \in OfLevels(L) BY ConstraintConfidenceType
<1>2. \A x : ConstantConfidence(x, inter) \in OfLevels(L)
  BY <1>1, OnSignsType, SelectionsStay DEF ConstantConfidence, OfLevels
<1>3. CASE Propagates(E, block)
  <2>1. E[h.callee] \in OfLevels(L) BY <1>3, PropagatedCallee
  <2>2. PropagatedConfidence(E, k, inter, h.callee) \in OfLevels(L)
    <3> HIDE DEF inter, h
    <3>1. QED BY <1>1, <2>1, SelectionsStay DEF PropagatedConfidence
  <2>3. ReturnConfidence(E, block, k) = PropagatedConfidence(E, k, inter, h.callee)
    <3>1. ~ Ambiguous(block) /\ ~ IsConstantInt(h) /\ h.kind # "null"
      BY <1>3 DEF Propagates, IsConstantInt
    <3>2. QED BY <1>3, <3>1 DEF ReturnConfidence
  <2>4. QED BY <2>2, <2>3
<1>4. CASE ~ Propagates(E, block)
  <2>1. ReturnConfidence(E, block, k) \in
          {Unknown, ConstantConfidence(AsInt(h), inter),
           ConstantConfidence(ReturnedValue(block), inter)}
    BY <1>4 DEF ReturnConfidence
  <2> HIDE DEF inter, h
  <2>2. QED BY <1>2, <2>1, EmptysetStays
<1>5. QED BY <1>3, <1>4

LEMMA ContributionType ==
  ASSUME NEW L \in Levels, NEW names, NEW E \in [names -> OfLevels(L)], NEW knowledge,
         NEW returns, NEW f,
         NEW block, IsBlock(names, block), ReturnsOne(block), NEW k \in Constraining(block)
  PROVE  Contribution(knowledge, E, returns, f, block, k) \in OfLevels(L)
BY ConstraintConfidenceType, ReturnConfidenceType, DroppingType, EmptysetStays DEF Contribution

(* VisitBlock, with whatever the calls of the block add.                   *)
THEOREM VisitBlockType ==
  ASSUME NEW L \in Levels, NEW names, NEW E \in [names -> OfLevels(L)], NEW knowledge,
         NEW returns, NEW f, NEW block, IsBlock(names, block)
  PROVE  VisitBlock(knowledge, E, returns, f, block) \in OfLevels(L)
<1> DEFINE codes == IF AddsCodes(knowledge, E, returns, f, block)
                    THEN returns \cup {f} ELSE returns
           calls == {VisitCallInst(knowledge, E, returns, f, block.file, block.calls[i]) :
                       i \in DOMAIN block.calls}
           error == IF ReturnsErrorCode(knowledge, block)
                    THEN {AddErrorValue(knowledge, f, ReturnedValue(block))} ELSE {}
           constraints ==
             IF ~ ReturnsOne(block) \/ ReturnsSuccessCode(knowledge, returns, f, block) THEN {}
             ELSE {Contribution(knowledge, E, codes, f, block, k) : k \in Constraining(block)}
           all == {Emptyset} \cup calls \cup error \cup constraints
<1>1. calls \subseteq OfLevels(L) BY VisitCallInstType
<1>2. error \subseteq OfLevels(L) BY AddErrorValueType
<1>3. constraints \subseteq OfLevels(L)
  <2> HIDE DEF codes
  <2>1. QED BY ContributionType
<1>4. VisitBlock(knowledge, E, returns, f, block) = JoinAll(all) BY DEF VisitBlock
<1> HIDE DEF calls, error, constraints
<1>5. all \in SUBSET OfLevels(L) /\ all # {}
  BY <1>1, <1>2, <1>3, EmptysetStays
<1> HIDE DEF all
<1>6. QED BY <1>4, <1>5, FoldsStay

LEMMA BlocksJoinType ==
  ASSUME NEW L \in Levels, NEW found \in SUBSET OfLevels(L)
  PROVE  BlocksJoin(found) \in OfLevels(L)
<1> DEFINE some == {Unknown} \cup {c \in found : ~ IsEmptyset(c)}
<1>1. some \in SUBSET OfLevels(L) /\ some # {} BY EmptysetStays
<1>2. JoinAll(some) \in OfLevels(L)
  <2> HIDE DEF some
  <2>1. QED BY <1>1, FoldsStay
<1>3. QED BY <1>2, EmptysetStays DEF BlocksJoin

(* What RunOnFunction hands to UpdateErrorSpecification.                   *)
THEOREM InferredSpecificationType ==
  ASSUME NEW L \in Levels, NEW names, NEW E \in [names -> OfLevels(L)], NEW knowledge,
         NEW returns, NEW f, NEW blocks,
         \A b \in DOMAIN blocks : IsBlock(names, blocks[b])
  PROVE  InferredSpecification(knowledge, E, returns, f, blocks) \in OfLevels(L)
<1> DEFINE before(i) == ReturningBefore(knowledge, E, returns, f, blocks, i)
           found == {VisitBlock(knowledge, E, before(i), f, blocks[i]) : i \in DOMAIN blocks}
<1>1. \A r : \A i \in DOMAIN blocks :
        VisitBlock(knowledge, E, r, f, blocks[i]) \in OfLevels(L)
  BY VisitBlockType
<1>2. found \in SUBSET OfLevels(L)
  <2> HIDE DEF before
  <2>1. QED BY <1>1
<1>3. InferredSpecification(knowledge, E, returns, f, blocks) =
        Dropping(knowledge, before(Len(blocks) + 1), f, blocks[1].file, BlocksJoin(found))
  BY DEF InferredSpecification
<1> HIDE DEF found, before
<1>4. QED BY <1>2, <1>3, BlocksJoinType, DroppingType

(***************************************************************************)
(* The analysis.                                                           *)
(***************************************************************************)

Typed == prog \in Programs /\ TypeOK

LEMMA ProgramFacts ==
  ASSUME Typed
  PROVE  /\ IsProgram(prog)
         /\ \A f \in Functions : prog.source[f] \in Names /\ prog.range[f] \in SignLatticeElement
         /\ DOMAIN prog.knowledge.initial \subseteq Names
BY ProgramsAssumption DEF Typed, TypeOK, IsProgram, Functions, Names, NamesOf

LEMMA SccFacts ==
  ASSUME Typed, component <= Len(prog.components)
  PROVE  /\ Scc \in Seq(Functions)
         /\ \A i \in DOMAIN Scc : Scc[i] \in Functions
         /\ \A i \in Nat \ {0} : i <= Len(Scc) => Scc[i] \in Functions
<1>1. component \in DOMAIN prog.components
  BY ProgramFacts DEF Typed, TypeOK, IsProgram
<1>2. Scc \in Seq(Functions)
  BY <1>1, ProgramFacts DEF IsProgram, Scc, Functions
<1>3. QED BY <1>2

LEMMA InferredType ==
  ASSUME Typed, NEW f \in Functions
  PROVE  Inferred(f) \in LatticeElementConfidence
<1>1. \A b \in DOMAIN prog.blocks[f] : IsBlock(Names, prog.blocks[f][b])
  BY ProgramFacts DEF IsProgram, Functions, Names
<1>2. specs \in [Names -> LatticeElementConfidence] BY DEF Typed, TypeOK
<1>3. QED BY <1>1, <1>2, InferredSpecificationType, LevelsExist DEF Inferred

LEMMA ScaledType ==
  ASSUME NEW c \in LatticeElementConfidence, NEW similarity \in 0 .. 100
  PROVE  Scaled(c, similarity) \in LatticeElementConfidence
<1>1. \A a \in Confidence : (a * similarity) \div 100 \in Confidence
  <2> SUFFICES ASSUME NEW a \in Confidence PROVE (a * similarity) \div 100 \in Confidence
    OBVIOUS
  <2>1. a \in Nat /\ a <= kMaxConfidence /\ similarity \in Nat /\ similarity <= 100
    BY MaxConfidenceAssumption DEF Confidence, kMinConfidence
  <2>2. a * similarity \in Nat BY <2>1
  <2>3. a * similarity <= a * 100 BY <2>1
  <2>4. (a * similarity) \div 100 \in Nat /\ (a * similarity) \div 100 <= a
    BY <2>1, <2>2, <2>3
  <2>5. QED BY <2>1, <2>4, MaxConfidenceAssumption DEF Confidence, kMinConfidence
<1>2. QED BY <1>1 DEF Scaled, LatticeElementConfidence

LEMMA EvidenceFacts ==
  ASSUME NEW synonyms, NEW table, NEW type, NEW minimum,
         \A i \in DOMAIN synonyms : synonyms[i].similarity \in Int /\ synonyms[i].similarity <= 100
  PROVE  \A s \in Evidence(synonyms, table, type, minimum) :
           s.label \in DOMAIN table /\ s.similarity \in 0 .. 100
<1> DEFINE found  == {i \in DOMAIN synonyms : synonyms[i].similarity > 0}
           usable == {i \in found : /\ synonyms[i].label \in DOMAIN table
                                    /\ table[synonyms[i].label] = type
                                    /\ synonyms[i].similarity >= SimilarityThreshold}
<1>1. Evidence(synonyms, table, type, minimum) \subseteq {synonyms[i] : i \in usable}
  BY DEF Evidence
<1>2. \A i \in usable : /\ synonyms[i].label \in DOMAIN table
                        /\ synonyms[i].similarity \in 0 .. 100
  OBVIOUS
<1>3. QED BY <1>1, <1>2

LEMMA ExpansionDeltaType ==
  ASSUME Typed, NEW operation \in {"join", "meet", "max"}, NEW evidence, evidence # {},
         \A s \in evidence : s.label \in Names /\ s.similarity \in 0 .. 100
  PROVE  ExpansionDelta(specs, operation, evidence) \in LatticeElementConfidence
<1> DEFINE scaled == {Scaled(SpecificationOf(specs, s.label), s.similarity) : s \in evidence}
<1>1. \A s \in evidence : SpecificationOf(specs, s.label) \in LatticeElementConfidence
  BY UnknownType DEF SpecificationOf, Typed, TypeOK
<1>2. scaled \in SUBSET LatticeElementConfidence /\ scaled # {}
  BY <1>1, ScaledType
<1>3. ExpansionOperation(operation, scaled) \in LatticeElementConfidence
  <2> HIDE DEF scaled
  <2>1. QED BY <1>2, FoldsKeep DEF ExpansionOperation
<1>4. QED BY <1>3 DEF ExpansionDelta

(* The functions that may still change the specification of f's name.      *)
OwnsName(f) ==
  IF prog.finder THEN \A g \in Functions : prog.source[g] = prog.source[f] => g = f
  ELSE prog.source[f] \in DOMAIN instance => instance[prog.source[f]] = f

(* Inductive: StrictlyBelowRange speaks of what has been analysed only.    *)
BelowOwnRange ==
  \A f \in Functions :
    ~ IgnoreFunction(f) /\ prog.range[f] # "bottom" /\ OwnsName(f)
      => BelowRange(specs[prog.source[f]], prog.range[f])

IInv == Typed /\ BelowOwnRange /\ InitialSpecificationsUntouched

LEMMA BelowRangeImpliesProperty == IInv => StrictlyBelowRange
<1> SUFFICES ASSUME IInv, NEW n \in Analysed,
                    prog.finder => ~ SharesName(n), prog.range[instance[n]] # "bottom"
             PROVE  BelowRange(specs[n], prog.range[instance[n]])
  BY DEF StrictlyBelowRange
<1> DEFINE f == instance[n]
<1>1. f \in Functions /\ prog.source[f] = n /\ ~ IgnoreFunction(f) /\ n \in DOMAIN instance
  BY DEF IInv, Typed, TypeOK, Analysed
<1>2. OwnsName(f)
  BY <1>1 DEF OwnsName, SharesName
<1>3. QED BY <1>1, <1>2 DEF IInv, BelowOwnRange

LEMMA InitSatisfies == Init => IInv
<1> SUFFICES ASSUME Init PROVE IInv
  OBVIOUS
<1>1. IsProgram(prog) BY ProgramsAssumption DEF Init
<1>2. \A n \in DOMAIN prog.knowledge.initial :
        InitialSpecification(n) \in LatticeElementConfidence
  BY ConversionsStay, LevelsExist DEF InitialSpecification, Levels
<1>3. specs \in [Names -> LatticeElementConfidence]
  BY <1>2, UnknownType DEF Init
<1>4. Typed
  <2>1. DOMAIN instance = {}
    <3>1. instance = [n \in {} |-> ""] BY DEF Init
    <3>2. QED BY <3>1
  <2>2. component \in Nat \ {0} /\ position \in Nat \ {0}
    BY DEF Init
  <2>3. changed \in BOOLEAN
    BY DEF Init
  <2>4. DOMAIN converged = DOMAIN prog.knowledge.initial
    <3>1. converged = [n \in DOMAIN prog.knowledge.initial |-> TypeOfName(n)] BY DEF Init
    <3>2. QED BY <3>1
  <2>5. prog \in Programs /\ returning \subseteq Names /\ phase = "fixpoint"
          /\ pending = {} /\ keep = {}
    BY DEF Init
  <2>6. DOMAIN prog.knowledge.initial \subseteq Names
    BY DEF Names, NamesOf
  <2>7. QED BY <1>3, <2>1, <2>4, <2>5, <2>6, <2>2, <2>3 DEF Typed, TypeOK
<1>5. InitialSpecificationsUntouched
  BY DEF Init, InitialSpecificationsUntouched, Names, NamesOf
<1>6. BelowOwnRange
  <2> SUFFICES ASSUME NEW f \in Functions, ~ IgnoreFunction(f), prog.range[f] # "bottom"
               PROVE  BelowRange(specs[prog.source[f]], prog.range[f])
    BY DEF BelowOwnRange
  <2>1. specs[prog.source[f]] = Unknown
    BY DEF Init, IgnoreFunction, Names, NamesOf, Functions
  <2>2. Gamma[prog.range[f]] # {}
    BY <1>4, ProgramFacts, OnlyBottomIsEmpty
  <2>3. QED BY <2>1, <2>2, UnknownType DEF BelowRange
<1>7. QED BY <1>4, <1>5, <1>6 DEF IInv

(* A step that updates the specification of one analysed function, under   *)
(* its own return range, and makes no other function an instance of it.    *)
LEMMA UpdateKeeps ==
  ASSUME IInv, NEW f \in Functions, ~ IgnoreFunction(f),
         NEW delta \in LatticeElementConfidence, Update(f, delta),
         prog' = prog,
         OwnsName(f)' => OwnsName(f),
         ~ prog.finder => instance'[prog.source[f]] = f /\ prog.source[f] \in DOMAIN instance',
         \A g \in Functions : prog.source[g] # prog.source[f] /\ OwnsName(g)' => OwnsName(g)
  PROVE  /\ specs' \in [Names -> LatticeElementConfidence]
         /\ BelowOwnRange' /\ InitialSpecificationsUntouched'
<1> DEFINE n == prog.source[f]
           new == UpdatedSpecification(specs[n], delta, prog.range[f])
<1>1. n \in Names /\ prog.range[f] \in SignLatticeElement /\ specs[n] \in LatticeElementConfidence
  BY ProgramFacts DEF IInv, Typed, TypeOK
<1>2. specs' = [specs EXCEPT ![n] = new]
  BY DEF Update, UpdatedSpecification
<1>3. new \in LatticeElementConfidence
  BY <1>1, UpdatedType
<1>4. specs' \in [Names -> LatticeElementConfidence]
  BY <1>2, <1>3 DEF IInv, Typed, TypeOK
<1>5. InitialSpecificationsUntouched'
  <2>1. n \notin DOMAIN prog.knowledge.initial BY DEF IgnoreFunction
  <2>2. \A m \in DOMAIN prog.knowledge.initial : specs'[m] = specs[m]
    BY <1>2, <2>1, ProgramFacts DEF IInv, Typed, TypeOK
  <2>3. QED
    BY <2>2 DEF IInv, InitialSpecificationsUntouched, InitialSpecification
<1>6. BelowOwnRange'
  <2> SUFFICES ASSUME NEW g \in Functions, ~ IgnoreFunction(g), prog.range[g] # "bottom",
                      OwnsName(g)'
               PROVE  BelowRange(specs'[prog.source[g]], prog.range[g])
    BY DEF BelowOwnRange, Functions, IgnoreFunction
  <2>1. CASE prog.source[g] # n
    <3>1. BelowRange(specs[prog.source[g]], prog.range[g])
      BY <2>1 DEF IInv, BelowOwnRange
    <3>2. specs'[prog.source[g]] = specs[prog.source[g]]
      BY <1>2, <2>1, ProgramFacts DEF IInv, Typed, TypeOK
    <3>3. QED BY <3>1, <3>2
  <2>2. CASE prog.source[g] = n
    <3>1. g = f
      <4>1. CASE prog.finder
        BY <2>2, <4>1 DEF OwnsName, Functions
      <4>2. CASE ~ prog.finder
        BY <2>2, <4>2 DEF OwnsName
      <4>3. QED BY <4>1, <4>2
    <3>2. BelowRange(specs[n], prog.range[f])
      BY <3>1 DEF IInv, BelowOwnRange
    <3>3. BelowRange(new, prog.range[f])
      BY <1>1, <3>2, UpdateStaysBelow
    <3>4. specs'[n] = new
      BY <1>1, <1>2 DEF IInv, Typed, TypeOK
    <3>5. QED BY <3>1, <3>3, <3>4
  <2>3. QED BY <2>1, <2>2
<1>7. QED BY <1>4, <1>5, <1>6

LEMMA StutterKeeps ==
  ASSUME IInv, specs' = specs, prog' = prog,
         \A g \in Functions : OwnsName(g)' => OwnsName(g)
  PROVE  BelowOwnRange' /\ InitialSpecificationsUntouched'
BY DEF IInv, BelowOwnRange, InitialSpecificationsUntouched, InitialSpecification, Functions,
       IgnoreFunction

(* Every other step leaves the specifications and the instances alone.     *)
LEMMA UnchangedKeeps ==
  ASSUME IInv, UNCHANGED <<prog, specs, instance>>
  PROVE  BelowOwnRange' /\ InitialSpecificationsUntouched'
<1>1. \A g \in Functions : OwnsName(g)' => OwnsName(g)
  BY DEF OwnsName, Functions
<1>2. QED BY <1>1, StutterKeeps

LEMMA RunOnFunctionKeeps == IInv /\ RunOnFunction => IInv'
<1> SUFFICES ASSUME IInv, RunOnFunction PROVE IInv'
  OBVIOUS
<1>function. PICK f \in Functions : f = Scc[position]
  BY SccFacts DEF IInv, Typed, TypeOK, RunOnFunction, Analysing
<1>name. PICK n \in Names : n = prog.source[f]
  BY ProgramFacts DEF IInv
<1>1. f \in Functions /\ n \in Names /\ n = prog.source[f]
  BY <1>function, <1>name
<1>2. /\ ~ IgnoreFunction(f) /\ IsFirstInstance(f)
      /\ instance' = With(instance, n, f)
      /\ prog' = prog
  BY <1>function, <1>name DEF RunOnFunction
<1>3. /\ DOMAIN instance' = DOMAIN instance \cup {n}
      /\ \A m \in DOMAIN instance' : instance'[m] = IF m = n THEN f ELSE instance[m]
  BY <1>2 DEF With
<1>4. OwnsName(f)' => OwnsName(f)
  BY <1>1, <1>2 DEF OwnsName, IsFirstInstance, Functions
<1>5. \A g \in Functions : prog.source[g] # n /\ OwnsName(g)' => OwnsName(g)
  BY <1>1, <1>2, <1>3 DEF OwnsName, Functions
<1>6. specs' \in [Names -> LatticeElementConfidence] /\ BelowOwnRange'
        /\ InitialSpecificationsUntouched'
  <2>1. CASE prog.blocks[f] = << >>
    <3>1. specs' = specs BY <1>function, <2>1 DEF RunOnFunction
    <3>2. \A g \in Functions : OwnsName(g)' => OwnsName(g)
      <4> SUFFICES ASSUME NEW g \in Functions, OwnsName(g)' PROVE OwnsName(g)
        OBVIOUS
      <4>1. CASE prog.finder BY <1>2, <4>1 DEF OwnsName, Functions
      <4>2. CASE ~ prog.finder /\ prog.source[g] = n
        <5>1. g = f BY <1>1, <1>2, <1>3, <4>2 DEF OwnsName
        <5>2. QED BY <1>4, <5>1
      <4>3. CASE ~ prog.finder /\ prog.source[g] # n BY <1>5, <4>3
      <4>4. QED BY <4>1, <4>2, <4>3
    <3>3. QED BY <1>2, <3>1, <3>2, StutterKeeps DEF IInv, Typed, TypeOK
  <2>2. CASE prog.blocks[f] # << >>
    <3>1. Inferred(f) \in LatticeElementConfidence BY <1>1, InferredType DEF IInv
    <3>2. Update(f, Inferred(f)) BY <1>function, <2>2 DEF RunOnFunction
    <3>3. QED BY <1>1, <1>2, <1>3, <1>4, <1>5, <3>1, <3>2, UpdateKeeps
  <2>3. QED BY <2>1, <2>2
<1>7. returning' \subseteq Names
  <2>1. returning' \in {returning, returning \cup {n}}
    BY <1>function, <1>name DEF RunOnFunction, InferredReturning, ReturningBefore
  <2>2. QED BY <1>1, <2>1 DEF IInv, Typed, TypeOK
<1>8. \A m \in DOMAIN instance' : /\ instance'[m] \in Functions /\ prog.source[instance'[m]] = m
                                 /\ ~ IgnoreFunction(instance'[m])
  BY <1>1, <1>2, <1>3 DEF IInv, Typed, TypeOK
<1>9. /\ position' \in Nat \ {0} /\ changed' \in BOOLEAN
      /\ UNCHANGED <<prog, converged, phase, component, pending, keep>>
  BY DEF RunOnFunction, IInv, Typed, TypeOK
<1>10. Typed'
  BY <1>1, <1>3, <1>6, <1>7, <1>8, <1>9 DEF IInv, Typed, TypeOK, Names, Functions, IgnoreFunction
<1>11. QED BY <1>6, <1>10 DEF IInv

LEMMA ExpandKeeps ==
  ASSUME NEW f \in pending, IInv, ExpandErrorSpecification(f) PROVE IInv'
<1> DEFINE evidence == Evidence(prog.synonyms[prog.source[f]], converged,
                                prog.type[f], prog.minimumEvidence)
<1>1. /\ f \in Functions /\ ~ IgnoreFunction(f) /\ prog.finder
      /\ prog.source[f] \in Names
      /\ UNCHANGED <<prog, instance>>
  BY ProgramFacts DEF IInv, Typed, TypeOK, ExpandErrorSpecification, Analysing
<1>2. \A g \in Functions : OwnsName(g)' => OwnsName(g)
  BY <1>1 DEF OwnsName, Functions
<1>3. \A s \in evidence : s.label \in Names /\ s.similarity \in 0 .. 100
  <2>1. \A i \in DOMAIN prog.synonyms[prog.source[f]] :
          /\ prog.synonyms[prog.source[f]][i].similarity \in Int
          /\ prog.synonyms[prog.source[f]][i].similarity <= 100
    BY <1>1, ProgramFacts DEF IInv, IsProgram, Names
  <2>2. QED BY <2>1, EvidenceFacts DEF IInv, Typed, TypeOK
<1>4. specs' \in [Names -> LatticeElementConfidence] /\ BelowOwnRange'
        /\ InitialSpecificationsUntouched'
  <2>1. CASE evidence = {}
    <3>1. specs' = specs BY <2>1 DEF ExpandErrorSpecification
    <3>2. QED BY <1>1, <1>2, <3>1, StutterKeeps DEF IInv, Typed, TypeOK
  <2>2. CASE evidence # {}
    <3>1. ExpansionDelta(specs, prog.operation, evidence) \in LatticeElementConfidence
      <4>1. prog.operation \in {"join", "meet", "max"}
        BY ProgramFacts DEF IInv, IsProgram
      <4> HIDE DEF evidence
      <4>2. QED BY <1>3, <2>2, <4>1, ExpansionDeltaType DEF IInv
    <3>2. Update(f, ExpansionDelta(specs, prog.operation, evidence))
      BY <2>2 DEF ExpandErrorSpecification
    <3> HIDE DEF evidence
    <3>3. QED BY <1>1, <1>2, <3>1, <3>2, UpdateKeeps
  <2>3. QED BY <2>1, <2>2
<1>5. /\ pending' \subseteq pending /\ keep' \subseteq keep \cup {f}
      /\ UNCHANGED <<prog, returning, instance, converged, phase, component, position, changed>>
  BY DEF ExpandErrorSpecification
<1>6. Typed'
  BY <1>1, <1>4, <1>5 DEF IInv, Typed, TypeOK, Names, Functions, IgnoreFunction
<1>7. QED BY <1>4, <1>6 DEF IInv

LEMMA BeginExpansionKeeps == IInv /\ BeginExpansion => IInv'
<1> SUFFICES ASSUME IInv, BeginExpansion PROVE IInv'
  OBVIOUS
<1>1. \A i \in DOMAIN Scc : Scc[i] \in Functions
  BY SccFacts DEF IInv, BeginExpansion, PassDone, Analysing
<1>2. /\ keep' \subseteq Functions
      /\ pending' \subseteq {f \in Functions : ~ IgnoreFunction(f)}
  BY <1>1 DEF BeginExpansion
<1>3. UNCHANGED <<prog, specs, returning, instance, converged, component, position, changed>>
        /\ phase' = "expand" /\ prog.finder
  BY DEF BeginExpansion, tables
<1>4. Typed'
  BY <1>2, <1>3 DEF IInv, Typed, TypeOK, Names, Functions, IgnoreFunction
<1>5. QED BY <1>3, <1>4, UnchangedKeeps DEF IInv

LEMMA EndExpansionKeeps == IInv /\ EndExpansion => IInv'
<1> SUFFICES ASSUME IInv, EndExpansion PROVE IInv'
  OBVIOUS
<1>1. /\ UNCHANGED <<prog, specs, returning, instance, pending>>
      /\ phase' = "fixpoint" /\ keep' = {}
      /\ component' = component + 1 /\ position' = 1 /\ changed' = FALSE
  BY DEF EndExpansion, NextComponent, tables
<1>2. DOMAIN converged' = DOMAIN converged \cup {prog.source[f] : f \in keep}
  BY DEF EndExpansion
<1>3. DOMAIN converged' \subseteq Names
  BY <1>2, ProgramFacts DEF IInv, Typed, TypeOK
<1>4. Typed'
  <2>1. component' \in Nat \ {0} /\ position' \in Nat \ {0}
    BY <1>1 DEF IInv, Typed, TypeOK
  <2>2. changed' \in BOOLEAN
    BY <1>1
  <2>3. QED BY <1>1, <1>3, <2>1, <2>2 DEF IInv, Typed, TypeOK, Names, Functions, IgnoreFunction
<1>5. QED BY <1>1, <1>4, UnchangedKeeps DEF IInv

(* The steps that only move on to another function, pass or component.     *)
LEMMA MoveKeeps ==
  ASSUME IInv, UNCHANGED <<prog, specs, returning, instance, converged, pending, keep>>,
         phase' \in {phase, "done"},
         component' \in {component, component + 1}, position' \in {1, position, position + 1},
         changed' \in {changed, FALSE}
  PROVE  IInv'
<1>1. Typed'
  <2>1. component' \in Nat \ {0} /\ position' \in Nat \ {0}
    BY DEF IInv, Typed, TypeOK
  <2>2. changed' \in BOOLEAN
    BY DEF IInv, Typed, TypeOK
  <2>3. phase' \in {"fixpoint", "expand", "done"} /\ (phase' = "expand" => prog.finder)
    BY DEF IInv, Typed, TypeOK
  <2>4. QED BY <2>1, <2>2, <2>3 DEF IInv, Typed, TypeOK, Names, Functions, IgnoreFunction
<1>2. QED BY <1>1, UnchangedKeeps DEF IInv

LEMMA NextKeeps == IInv /\ [Next]_vars => IInv'
<1> SUFFICES ASSUME IInv, [Next]_vars PROVE IInv'
  OBVIOUS
<1>1. CASE SkipFunction
  BY <1>1, MoveKeeps DEF SkipFunction, tables
<1>2. CASE RunOnFunction
  BY <1>2, RunOnFunctionKeeps
<1>3. CASE Repeat
  BY <1>3, MoveKeeps DEF Repeat, tables
<1>4. CASE LeaveWithoutFinder
  BY <1>4, MoveKeeps DEF LeaveWithoutFinder, NextComponent, tables
<1>5. CASE BeginExpansion
  BY <1>5, BeginExpansionKeeps
<1>6. CASE EndExpansion
  BY <1>6, EndExpansionKeeps
<1>7. CASE Finish
  BY <1>7, MoveKeeps DEF Finish, tables
<1>8. CASE \E f \in pending : ExpandErrorSpecification(f)
  BY <1>8, ExpandKeeps
<1>9. CASE UNCHANGED vars
  BY <1>9, MoveKeeps DEF vars, tables
<1>10. QED
  BY <1>1, <1>2, <1>3, <1>4, <1>5, <1>6, <1>7, <1>8, <1>9 DEF Next

LEMMA Invariance == Spec => []IInv
BY InitSatisfies, NextKeeps, PTL DEF Spec

(* Every table of the pass keeps its type: each specification stored by    *)
(* inference or expansion (error_blocks_pass.cc 1195-1258) is a confidence *)
(* in 0 .. kMaxConfidence, and an instance analyses its own source name.   *)
THEOREM TypeCorrect == Spec => []TypeOK
<1>1. IInv => TypeOK BY DEF IInv, Typed
<1>2. QED BY <1>1, Invariance, PTL

(* Domain knowledge survives the whole analysis, lines 107-112.            *)
THEOREM DomainKnowledgeIsKept == Spec => []InitialSpecificationsUntouched
<1>1. IInv => InitialSpecificationsUntouched BY DEF IInv
<1>2. QED BY <1>1, Invariance, PTL

(* Lines 1225-1237: no specification ever covers a function's whole return *)
(* range or leaves it, through every pass, component and expansion.        *)
THEOREM AlwaysStrictlyBelowRange == Spec => []StrictlyBelowRange
BY BelowRangeImpliesProperty, Invariance, PTL

(***************************************************************************)
(* Without an embedding every confidence is none or full: domain knowledge *)
(* and constants are certain, and only the expansion scales.               *)
(***************************************************************************)
CertainInv == ~ prog.finder /\ specs \in [Names -> OfLevels(Certain)]

LEMMA InitCertain == Init /\ ~ prog.finder => CertainInv
<1> SUFFICES ASSUME Init, ~ prog.finder PROVE CertainInv
  OBVIOUS
<1>1. Certain \in Levels BY LevelsExist
<1>2. \A n : InitialSpecification(n) \in OfLevels(Certain) /\ Unknown \in OfLevels(Certain)
  BY <1>1, ConversionsStay DEF InitialSpecification, Levels
<1>3. QED BY <1>2 DEF Init, CertainInv

LEMMA InferredCertain ==
  ASSUME Typed, CertainInv, NEW f \in Functions
  PROVE  Inferred(f) \in OfLevels(Certain)
<1>1. \A b \in DOMAIN prog.blocks[f] : IsBlock(Names, prog.blocks[f][b])
  BY ProgramFacts DEF IsProgram, Functions, Names
<1>2. specs \in [Names -> OfLevels(Certain)] BY DEF CertainInv
<1>3. QED BY <1>1, <1>2, InferredSpecificationType, LevelsExist DEF Inferred

(* What a step does to the specifications where there is no embedding.     *)
Grows ==
  \A n \in Names : /\ Support(specs[n]) \subseteq Support(specs'[n])
                   /\ ~ IsUnknown(specs[n]) => ~ IsUnknown(specs'[n])

LEMMA RunOnFunctionGrows ==
  ASSUME Typed, CertainInv, RunOnFunction
  PROVE  CertainInv' /\ Grows
<1>1. PICK f \in Functions : f = Scc[position]
  BY SccFacts DEF Typed, TypeOK, RunOnFunction, Analysing
<1>2. PICK n \in Names : n = prog.source[f]
  BY ProgramFacts
<1>3. prog' = prog
  BY DEF RunOnFunction
<1>4. CASE prog.blocks[f] = << >>
  <2>1. specs' = specs BY <1>1, <1>4 DEF RunOnFunction
  <2>2. QED BY <1>3, <2>1 DEF CertainInv, Grows, Names
<1>5. CASE prog.blocks[f] # << >>
  <2> DEFINE new == UpdatedSpecification(specs[n], Inferred(f), prog.range[f])
  <2>1. Update(f, Inferred(f)) BY <1>1, <1>5 DEF RunOnFunction
  <2>2. specs' = [specs EXCEPT ![n] = new]
    BY <1>2, <2>1 DEF Update, UpdatedSpecification
  <2>3. specs[n] \in OfLevels(Certain) /\ Inferred(f) \in OfLevels(Certain)
          /\ prog.range[f] \in SignLatticeElement
    BY InferredCertain, ProgramFacts DEF CertainInv
  <2>4. /\ new \in OfLevels(Certain) /\ Support(specs[n]) \subseteq Support(new)
        /\ ~ IsUnknown(specs[n]) => ~ IsUnknown(new)
    BY <2>3, CertainUpdateGrows
  <2> HIDE DEF new
  <2>5. QED BY <1>3, <2>2, <2>4 DEF CertainInv, Grows, Names
<1>6. QED BY <1>4, <1>5

LEMMA NextCertain == Typed /\ CertainInv /\ [Next]_vars => CertainInv' /\ Grows
<1> SUFFICES ASSUME Typed, CertainInv, [Next]_vars PROVE CertainInv' /\ Grows
  OBVIOUS
<1>1. CASE RunOnFunction
  BY <1>1, RunOnFunctionGrows
<1>2. CASE \E f \in pending : ExpandErrorSpecification(f)
  BY <1>2 DEF ExpandErrorSpecification, Analysing, Typed, TypeOK, CertainInv
<1>3. CASE specs' = specs /\ prog' = prog
  BY <1>3 DEF CertainInv, Grows, Names
<1>4. QED
  BY <1>1, <1>2, <1>3 DEF Next, SkipFunction, Repeat, LeaveWithoutFinder, BeginExpansion,
                          EndExpansion, Finish, vars, tables

CertainIfUnembedded == prog.finder \/ CertainInv

(* Lines 1195-1258 without an embedding: a sign that is once in a          *)
(* specification stays, a known specification stays known, whatever the    *)
(* components, their order and the number of passes over them.             *)
THEOREM SpecificationsOnlyGrow == Spec => OnlyGrows
<1>1. Init => CertainIfUnembedded
  BY InitCertain DEF CertainIfUnembedded
<1>2. IInv => Typed
  BY DEF IInv
<1>3. [Next]_vars => prog' = prog
  BY DEF Next, SkipFunction, RunOnFunction, Repeat, LeaveWithoutFinder, BeginExpansion,
         EndExpansion, Finish, ExpandErrorSpecification, vars
<1>4. Typed /\ CertainIfUnembedded /\ [Next]_vars => CertainIfUnembedded'
  BY <1>3, NextCertain DEF CertainIfUnembedded
<1>5. Typed /\ CertainIfUnembedded /\ [Next]_vars
        => [KeepsClaims]_specs
  BY NextCertain DEF Grows, KeepsClaims, CertainIfUnembedded
<1>6. QED
  BY <1>1, <1>2, <1>4, <1>5, Invariance, PTL DEF Spec, OnlyGrows

(***************************************************************************)
(* What is taken as evidence is final.  A converged name that is no domain *)
(* knowledge is that of an instance in an earlier component and is settled *)
(* there, so a later function of the same source name is neither run nor   *)
(* expanded; while a component is expanded, its kept and pending functions *)
(* have all had their turn.                                                *)
(***************************************************************************)
SettledName(n) == n \in returning \/ ~ IsUnknown(specs[n])

SeenUpTo(n, last) == \E i \in 1 .. last : instance[n] \in InComponent(prog, i)

ConvergedInv ==
  /\ \A n \in DOMAIN instance : component <= Len(prog.components) => SeenUpTo(n, component)
  /\ \A n \in DOMAIN converged \ DOMAIN prog.knowledge.initial :
       n \in DOMAIN instance /\ SeenUpTo(n, component - 1) /\ SettledName(n)
  /\ phase = "fixpoint" /\ component <= Len(prog.components) =>
       \A i \in 1 .. Len(Scc) :
         i < position /\ ~ IgnoreFunction(Scc[i]) => prog.source[Scc[i]] \in DOMAIN instance
  /\ phase # "expand" => keep = {} /\ pending = {}
  /\ phase = "expand" =>
       /\ component <= Len(prog.components)
       /\ \A f \in keep : prog.source[f] \in DOMAIN instance /\ SettledName(prog.source[f])
       /\ \A f \in pending : /\ prog.source[f] \in DOMAIN instance
                             /\ prog.source[f] \notin DOMAIN converged

LEMMA InitConverged == Init => ConvergedInv
<1> SUFFICES ASSUME Init PROVE ConvergedInv
  OBVIOUS
<1>1. instance = [n \in {} |-> ""] /\ converged = [n \in DOMAIN prog.knowledge.initial |-> TypeOfName(n)]
  BY DEF Init
<1>2. DOMAIN instance = {} /\ DOMAIN converged = DOMAIN prog.knowledge.initial
  BY <1>1
<1>3. phase = "fixpoint" /\ position = 1 /\ keep = {} /\ pending = {}
  BY DEF Init
<1>4. \A i \in 1 .. Len(Scc) : ~ i < position
  BY <1>3
<1>5. QED BY <1>2, <1>3, <1>4 DEF ConvergedInv

(* An update leaves the name it is for known if it changes it, and every   *)
(* other name as it is.                                                    *)
LEMMA UpdateSettlesName ==
  ASSUME Typed, NEW f \in Functions, NEW delta, Update(f, delta)
  PROVE  /\ \A m \in Names : m # prog.source[f] => specs'[m] = specs[m]
         /\ ~ IsUnknown(specs[prog.source[f]]) => ~ IsUnknown(specs'[prog.source[f]])
         /\ specs' # specs => ~ IsUnknown(specs'[prog.source[f]])
<1> DEFINE n == prog.source[f]
           new == UpdatedSpecification(specs[n], delta, prog.range[f])
<1>1. n \in Names BY ProgramFacts
<1>2. specs' = [specs EXCEPT ![n] = new] BY DEF Update, UpdatedSpecification
<1>3. new = specs[n] \/ ~ IsUnknown(new) BY DEF UpdatedSpecification, StoredSpecification
<1>4. specs = [m \in Names |-> specs[m]] BY DEF Typed, TypeOK
<1> HIDE DEF new
<1>5. specs' # specs => new # specs[n] BY <1>1, <1>2, <1>4
<1>6. specs'[n] = new BY <1>1, <1>2, <1>4
<1>7. QED BY <1>1, <1>2, <1>3, <1>4, <1>5, <1>6

(* The function that runs is the one instance of its name, in the current  *)
(* component: its name has not converged.                                  *)
LEMMA RunningIsNotConverged ==
  ASSUME Typed, ConvergedInv, RunOnFunction
  PROVE  prog.source[Scc[position]] \notin DOMAIN converged
<1> DEFINE f == Scc[position]
           n == prog.source[f]
<1>1. /\ component \in DOMAIN prog.components /\ position \in DOMAIN Scc
      /\ ~ IgnoreFunction(f) /\ (n \in DOMAIN instance => instance[n] = f)
  BY SccFacts, ProgramFacts DEF Typed, TypeOK, RunOnFunction, Analysing, IsFirstInstance, IsProgram
<1>2. f \in InComponent(prog, component)
  BY <1>1 DEF InComponent, Scc
<1>3. SUFFICES ASSUME n \in DOMAIN converged PROVE FALSE
  OBVIOUS
<1>4. n \notin DOMAIN prog.knowledge.initial
  BY <1>1 DEF IgnoreFunction
<1>5. PICK i \in 1 .. component - 1 : instance[n] \in InComponent(prog, i)
  BY <1>3, <1>4 DEF ConvergedInv, SeenUpTo
<1>6. i \in DOMAIN prog.components /\ i # component
  BY <1>1, ProgramFacts DEF Typed, TypeOK, IsProgram
<1>7. InComponent(prog, i) \cap InComponent(prog, component) = {}
  BY <1>1, <1>6, ProgramFacts DEF IsProgram
<1>8. instance[n] = f
  BY <1>1, <1>3, <1>4 DEF ConvergedInv
<1>9. QED BY <1>2, <1>5, <1>7, <1>8

ConvergedStay == \A n \in DOMAIN converged : specs'[n] = specs[n]

LEMMA RunOnFunctionConverged ==
  ASSUME Typed, ConvergedInv, RunOnFunction
  PROVE  ConvergedInv' /\ ConvergedStay
<1>function. PICK f \in Functions : f = Scc[position]
  BY SccFacts DEF Typed, TypeOK, RunOnFunction, Analysing
<1>name. PICK n \in Names : n = prog.source[f]
  BY ProgramFacts
<1>1. /\ UNCHANGED <<prog, converged, phase, component, pending, keep>>
      /\ position' = position + 1 /\ phase = "fixpoint" /\ component <= Len(prog.components)
      /\ instance' = With(instance, n, f) /\ IsFirstInstance(f)
  BY <1>function, <1>name DEF RunOnFunction, Analysing
<1>2. /\ DOMAIN instance' = DOMAIN instance \cup {n}
      /\ \A m \in DOMAIN instance' : instance'[m] = IF m = n THEN f ELSE instance[m]
      /\ \A m \in DOMAIN instance : instance'[m] = instance[m]
  BY <1>1, <1>name DEF With, IsFirstInstance
<1>3. n \notin DOMAIN converged
  BY <1>function, <1>name, RunningIsNotConverged
<1>4. \A m \in Names : m # n => specs'[m] = specs[m]
  <2>1. CASE prog.blocks[f] = << >>
    BY <1>function, <2>1 DEF RunOnFunction
  <2>2. CASE prog.blocks[f] # << >>
    <3>1. Update(f, Inferred(f)) BY <1>function, <2>2 DEF RunOnFunction
    <3>2. QED BY <1>name, <3>1, UpdateSettlesName
  <2>3. QED BY <2>1, <2>2
<1>5. returning \subseteq returning'
  BY DEF RunOnFunction, InferredReturning, ReturningBefore
<1>6. /\ component \in DOMAIN prog.components /\ component \in Nat \ {0} /\ position \in DOMAIN Scc
      /\ position \in Nat \ {0}
  BY <1>1, SccFacts, ProgramFacts DEF Typed, TypeOK, RunOnFunction, IsProgram
<1>7. f \in InComponent(prog, component)
  BY <1>6, <1>function DEF InComponent, Scc
<1>8. \A m \in DOMAIN instance' : SeenUpTo(m, component)'
  <2> SUFFICES ASSUME NEW m \in DOMAIN instance'
               PROVE  \E i \in 1 .. component : instance'[m] \in InComponent(prog, i)
    BY <1>1 DEF SeenUpTo
  <2>1. CASE m = n
    BY <1>2, <1>6, <1>7, <2>1
  <2>2. CASE m # n
    BY <1>1, <1>2, <2>2 DEF ConvergedInv, SeenUpTo
  <2>3. QED BY <2>1, <2>2
<1>9. ASSUME NEW m \in DOMAIN converged \ DOMAIN prog.knowledge.initial
      PROVE  m \in DOMAIN instance' /\ SeenUpTo(m, component - 1)' /\ SettledName(m)'
  <2>1. m # n /\ m \in DOMAIN instance /\ m \in Names
    BY <1>3, <1>9 DEF ConvergedInv, Typed, TypeOK
  <2>2. SeenUpTo(m, component - 1) /\ SettledName(m)
    BY <1>9 DEF ConvergedInv
  <2>3. SeenUpTo(m, component - 1)'
    BY <1>1, <1>2, <2>1, <2>2 DEF SeenUpTo
  <2>4. SettledName(m)'
    BY <1>4, <1>5, <2>1, <2>2 DEF SettledName
  <2>5. QED BY <1>2, <2>1, <2>3, <2>4
<1>10. ASSUME NEW i \in 1 .. Len(Scc), i < position + 1, ~ IgnoreFunction(Scc[i])
       PROVE  prog.source[Scc[i]] \in DOMAIN instance'
  <2>1. CASE i < position
    BY <1>1, <1>2, <1>10, <2>1 DEF ConvergedInv
  <2>2. CASE i = position
    BY <1>2, <1>function, <1>name, <2>2
  <2>3. QED BY <1>6, <1>10, <2>1, <2>2
<1>11. keep = {} /\ pending = {}
  BY <1>1 DEF ConvergedInv
<1>12. ConvergedInv'
  BY <1>1, <1>8, <1>9, <1>10, <1>11 DEF ConvergedInv, Scc, IgnoreFunction
<1>13. ConvergedStay
  BY <1>3, <1>4 DEF ConvergedStay, Typed, TypeOK
<1>14. QED BY <1>12, <1>13

LEMMA ExpandConverged ==
  ASSUME Typed, ConvergedInv, NEW f \in pending, ExpandErrorSpecification(f)
  PROVE  ConvergedInv' /\ ConvergedStay
<1>1. /\ UNCHANGED <<prog, converged, phase, component, returning, instance>>
      /\ phase = "expand" /\ component <= Len(prog.components)
      /\ f \in Functions /\ prog.source[f] \in Names
      /\ pending' = pending \ {f} /\ keep' = (IF specs' # specs THEN keep \cup {f} ELSE keep)
  BY ProgramFacts DEF ExpandErrorSpecification, Analysing, Typed, TypeOK
<1>2. /\ prog.source[f] \in DOMAIN instance /\ prog.source[f] \notin DOMAIN converged
      /\ \A g \in keep : prog.source[g] \in DOMAIN instance /\ SettledName(prog.source[g])
  BY <1>1 DEF ConvergedInv
<1>3. /\ \A m \in Names : m # prog.source[f] => specs'[m] = specs[m]
      /\ ~ IsUnknown(specs[prog.source[f]]) => ~ IsUnknown(specs'[prog.source[f]])
      /\ specs' # specs => ~ IsUnknown(specs'[prog.source[f]])
  <2>1. specs' = specs \/ \E delta : Update(f, delta)
    BY DEF ExpandErrorSpecification
  <2>2. QED BY <1>1, <2>1, UpdateSettlesName
<1>4. \A m \in Names : SettledName(m) => SettledName(m)'
  BY <1>1, <1>3 DEF SettledName
<1>5. \A g \in keep' : prog.source[g] \in DOMAIN instance /\ SettledName(prog.source[g])'
  <2> SUFFICES ASSUME NEW g \in keep'
               PROVE  prog.source[g] \in DOMAIN instance /\ SettledName(prog.source[g])'
    OBVIOUS
  <2>1. CASE g \in keep
    <3>1. PICK m \in Names : m = prog.source[g]
      BY <2>1, ProgramFacts DEF Typed, TypeOK
    <3>2. SettledName(m)'
      BY <1>2, <1>4, <2>1, <3>1
    <3>3. prog.source[g]' = m
      BY <1>1, <3>1
    <3>4. QED BY <1>2, <2>1, <3>2, <3>3 DEF SettledName
  <2>2. CASE g \notin keep
    <3>1. g = f /\ specs' # specs
      BY <1>1, <2>2
    <3>2. QED BY <1>1, <1>2, <1>3, <3>1 DEF SettledName
  <2>3. QED BY <2>1, <2>2
<1>6. \A n \in DOMAIN converged \ DOMAIN prog.knowledge.initial :
        n \in DOMAIN instance /\ SeenUpTo(n, component - 1)' /\ SettledName(n)'
  <2> SUFFICES ASSUME NEW n \in DOMAIN converged \ DOMAIN prog.knowledge.initial
               PROVE  n \in DOMAIN instance /\ SeenUpTo(n, component - 1)' /\ SettledName(n)'
    OBVIOUS
  <2>1. n \in DOMAIN instance /\ SeenUpTo(n, component - 1) /\ SettledName(n) /\ n \in Names
    BY DEF ConvergedInv, Typed, TypeOK
  <2>2. QED BY <1>1, <1>4, <2>1 DEF SeenUpTo
<1>7. \A n \in DOMAIN instance : SeenUpTo(n, component)'
  BY <1>1 DEF ConvergedInv, SeenUpTo
<1>8. ConvergedInv'
  BY <1>1, <1>2, <1>5, <1>6, <1>7 DEF ConvergedInv
<1>9. ConvergedStay
  BY <1>2, <1>3 DEF ConvergedStay, Typed, TypeOK
<1>10. QED BY <1>8, <1>9

(* When its passes are over, every function of a component has had its     *)
(* turn; one whose name has converged is settled, hence not pending.       *)
LEMMA BeginExpansionConverged ==
  ASSUME Typed, ConvergedInv, BeginExpansion
  PROVE  ConvergedInv'
<1>1. /\ UNCHANGED <<prog, specs, returning, instance, converged, component, position, changed>>
      /\ phase = "fixpoint" /\ phase' = "expand" /\ component <= Len(prog.components)
      /\ position > Len(Scc) /\ position \in Nat /\ Len(Scc) \in Nat
  BY SccFacts DEF BeginExpansion, PassDone, Analysing, tables, Typed, TypeOK
<1>2. \A i \in DOMAIN Scc : ~ IgnoreFunction(Scc[i]) => prog.source[Scc[i]] \in DOMAIN instance
  <2>1. \A i \in 1 .. Len(Scc) : i < position
    BY <1>1
  <2>2. DOMAIN Scc = 1 .. Len(Scc)
    BY <1>1, SccFacts
  <2>3. QED BY <1>1, <2>1, <2>2 DEF ConvergedInv
<1>3. /\ \A f \in keep' \cup pending' : ~ IgnoreFunction(f) /\ \E i \in DOMAIN Scc : f = Scc[i]
      /\ \A f \in keep' : IsSettled(f)
      /\ \A f \in pending' : ~ IsSettled(f)
  BY DEF BeginExpansion
<1>4. \A f : IsSettled(f) <=> SettledName(prog.source[f])
  BY ConfidenceBounds DEF IsSettled, SettledName, IsEmptyset, IsUnknown
<1>5. \A f \in pending' : prog.source[f] \notin DOMAIN converged
  BY <1>3, <1>4 DEF IgnoreFunction, ConvergedInv
<1>6. \A n : SettledName(n)' <=> SettledName(n)
  BY <1>1 DEF SettledName
<1>7. \A f \in keep' : prog.source[f] \in DOMAIN instance /\ SettledName(prog.source[f])
  BY <1>2, <1>3, <1>4
<1>8. \A f \in pending' : prog.source[f] \in DOMAIN instance
  BY <1>2, <1>3
<1>9. \A n \in DOMAIN instance : SeenUpTo(n, component)'
  BY <1>1 DEF ConvergedInv, SeenUpTo
<1>10. \A n \in DOMAIN converged \ DOMAIN prog.knowledge.initial :
         n \in DOMAIN instance /\ SeenUpTo(n, component - 1)' /\ SettledName(n)'
  BY <1>1, <1>6 DEF ConvergedInv, SeenUpTo
<1>11. \A f \in keep' : SettledName(prog.source[f])'
  BY <1>1, <1>7 DEF SettledName
<1>12. QED
  BY <1>1, <1>5, <1>7, <1>8, <1>9, <1>10, <1>11 DEF ConvergedInv

(* The next component: no function of it has had its turn.                 *)
LEMMA NextComponentConverged ==
  ASSUME Typed, ConvergedInv, NextComponent, phase' = "fixpoint",
         UNCHANGED <<prog, specs, returning, instance>>, keep' = {}, pending' = {},
         component <= Len(prog.components),
         \A n \in DOMAIN converged' \ DOMAIN prog.knowledge.initial :
           n \in DOMAIN converged \/ (n \in DOMAIN instance /\ SettledName(n))
  PROVE  ConvergedInv'
<1>1. component \in Nat \ {0} /\ component' = component + 1 /\ position' = 1
  BY DEF Typed, TypeOK, NextComponent
<1>2. \A n \in DOMAIN instance : SeenUpTo(n, component) /\ SeenUpTo(n, component + 1)
  BY <1>1 DEF ConvergedInv, SeenUpTo
<1>3. \A n \in DOMAIN instance : SeenUpTo(n, component)'
  BY <1>1, <1>2 DEF SeenUpTo
<1>4. ASSUME NEW n \in DOMAIN converged' \ DOMAIN prog.knowledge.initial
      PROVE  n \in DOMAIN instance' /\ SeenUpTo(n, component - 1)' /\ SettledName(n)'
  <2>1. n \in DOMAIN instance /\ SettledName(n)
    BY <1>4 DEF ConvergedInv
  <2>2. SeenUpTo(n, component - 1)'
    BY <1>1, <1>2, <2>1 DEF SeenUpTo
  <2>3. QED BY <2>1, <2>2 DEF SettledName
<1>5. \A i \in Nat \ {0} : ~ i < position'
  BY <1>1
<1>6. QED
  BY <1>3, <1>4, <1>5 DEF ConvergedInv

LEMMA EndExpansionConverged ==
  ASSUME Typed, ConvergedInv, EndExpansion
  PROVE  ConvergedInv'
<1>1. /\ NextComponent /\ phase = "expand" /\ phase' = "fixpoint" /\ keep' = {} /\ pending' = {}
      /\ UNCHANGED <<prog, specs, returning, instance>> /\ component <= Len(prog.components)
      /\ DOMAIN converged' = DOMAIN converged \cup {prog.source[f] : f \in keep}
  BY DEF EndExpansion, Analysing, tables
<1>2. \A f \in keep : prog.source[f] \in DOMAIN instance /\ SettledName(prog.source[f])
  BY <1>1 DEF ConvergedInv
<1>3. \A n \in DOMAIN converged' \ DOMAIN prog.knowledge.initial :
        n \in DOMAIN converged \/ (n \in DOMAIN instance /\ SettledName(n))
  BY <1>1, <1>2
<1>4. QED BY <1>1, <1>3, NextComponentConverged

(* Another function or pass of the same component, or none any more.       *)
LEMMA SamePlaceConverged ==
  ASSUME Typed, ConvergedInv,
         UNCHANGED <<prog, specs, returning, instance, converged, component, pending, keep>>,
         \/ phase' = phase /\ position' = position
         \/ phase' = phase /\ phase = "fixpoint" /\ position' = 1
         \/ SkipFunction
         \/ Finish
  PROVE  ConvergedInv'
<1>1. \A n \in DOMAIN instance, i \in Int : SeenUpTo(n, i)' <=> SeenUpTo(n, i)
  BY DEF SeenUpTo
<1>2. \A n : SettledName(n)' <=> SettledName(n)
  BY DEF SettledName
<1>3. component \in Int /\ component - 1 \in Int /\ position \in Nat \ {0}
  BY DEF Typed, TypeOK
<1>4. /\ \A n \in DOMAIN instance : component <= Len(prog.components) => SeenUpTo(n, component)'
      /\ \A n \in DOMAIN converged \ DOMAIN prog.knowledge.initial :
           n \in DOMAIN instance /\ SeenUpTo(n, component - 1)' /\ SettledName(n)'
  <2>1. \A n \in DOMAIN instance : SeenUpTo(n, component)' <=> SeenUpTo(n, component)
    BY DEF SeenUpTo
  <2>2. \A n \in DOMAIN instance : SeenUpTo(n, component - 1)' <=> SeenUpTo(n, component - 1)
    BY DEF SeenUpTo
  <2>3. QED BY <1>2, <2>1, <2>2 DEF ConvergedInv
<1>5. CASE phase' = phase /\ position' = position
  BY <1>2, <1>4, <1>5 DEF ConvergedInv, Scc, IgnoreFunction, SettledName
<1>6. CASE phase' = phase /\ phase = "fixpoint" /\ position' = 1
  <2>1. \A i \in Nat \ {0} : ~ i < position'
    BY <1>6
  <2>2. QED BY <1>4, <1>6, <2>1 DEF ConvergedInv
<1>7. CASE SkipFunction
  <2>1. /\ phase' = phase /\ phase = "fixpoint" /\ position' = position + 1
        /\ ~ IgnoreFunction(Scc[position]) => prog.source[Scc[position]] \in DOMAIN instance
    BY <1>7 DEF SkipFunction, IsFirstInstance, Analysing
  <2>2. \A i \in 1 .. Len(Scc) : i < position + 1 <=> i < position \/ i = position
    BY <1>3
  <2>3. component <= Len(prog.components) =>
          \A i \in 1 .. Len(Scc) :
            i < position + 1 /\ ~ IgnoreFunction(Scc[i]) => prog.source[Scc[i]] \in DOMAIN instance
    BY <2>1, <2>2 DEF ConvergedInv
  <2>4. QED BY <1>4, <2>1, <2>3 DEF ConvergedInv, Scc, IgnoreFunction
<1>8. CASE Finish
  <2>1. phase = "fixpoint" /\ phase' = "done"
    BY <1>8 DEF Finish
  <2>2. QED BY <1>4, <2>1 DEF ConvergedInv
<1>9. QED BY <1>5, <1>6, <1>7, <1>8

LEMMA NextConverged ==
  Typed /\ ConvergedInv /\ [Next]_vars => ConvergedInv' /\ (specs' = specs \/ ConvergedStay)
<1> SUFFICES ASSUME Typed, ConvergedInv, [Next]_vars
             PROVE  ConvergedInv' /\ (specs' = specs \/ ConvergedStay)
  OBVIOUS
<1>1. CASE RunOnFunction
  BY <1>1, RunOnFunctionConverged
<1>2. CASE \E f \in pending : ExpandErrorSpecification(f)
  BY <1>2, ExpandConverged
<1>3. CASE SkipFunction \/ Finish \/ Repeat \/ UNCHANGED vars
  BY <1>3, SamePlaceConverged
  DEF SkipFunction, Finish, Repeat, PassDone, Analysing, vars, tables
<1>4. CASE LeaveWithoutFinder
  <2>1. /\ NextComponent /\ phase' = "fixpoint" /\ keep' = {} /\ pending' = {}
        /\ UNCHANGED <<prog, specs, returning, instance, converged>>
        /\ component <= Len(prog.components)
    BY <1>4 DEF LeaveWithoutFinder, PassDone, Analysing, tables, ConvergedInv
  <2>2. QED BY <2>1, NextComponentConverged
<1>5. CASE BeginExpansion
  BY <1>5, BeginExpansionConverged DEF BeginExpansion, tables
<1>6. CASE EndExpansion
  BY <1>6, EndExpansionConverged DEF EndExpansion, tables
<1>7. QED
  BY <1>1, <1>2, <1>3, <1>4, <1>5, <1>6 DEF Next

(* Lines 167-226: a specification that the expansion may take as evidence  *)
(* is never revised again, neither by a later component nor by a function  *)
(* of the same source name, in whatever order functions are expanded.      *)
THEOREM ConvergedStaysFinal == Spec => ConvergedIsFinal
<1>1. Typed /\ ConvergedInv /\ [Next]_vars => ConvergedInv'
  BY NextConverged
<1>2. Typed /\ ConvergedInv /\ [Next]_vars => [\A n \in DOMAIN converged : specs'[n] = specs[n]]_specs
  BY NextConverged DEF ConvergedStay
<1>3. IInv => Typed
  BY DEF IInv
<1>4. QED
  BY <1>1, <1>2, <1>3, InitConverged, Invariance, PTL DEF Spec, ConvergedIsFinal

(***************************************************************************)
(* Without smart_success_code_zero, what is inferred for a function does   *)
(* not depend on which functions return codes, and depends on no other     *)
(* specifications than those its blocks read.                              *)
(***************************************************************************)
SameAt(E, D, n) == n # "" => E[n] = D[n]

Agree(E, D, block) == \A n \in ReadNames(block) : SameAt(E, D, n)

LEMMA VisitCallReads ==
  ASSUME NEW knowledge, ~ knowledge.smartSuccessCodeZero, NEW E, NEW D, NEW r, NEW s, NEW f,
         NEW file, NEW call, SameAt(E, D, call.callee)
  PROVE  VisitCallInst(knowledge, E, r, f, file, call) = VisitCallInst(knowledge, D, s, f, file, call)
<1>1. \A x : ErrorOnlyValue(knowledge, r, f, file, x) = ErrorOnlyValue(knowledge, s, f, file, x)
  BY DEF ErrorOnlyValue, IsSuccessCode
<1>2. {ErrorOnlyValue(knowledge, r, f, file, x) : x \in call.returned}
        = {ErrorOnlyValue(knowledge, s, f, file, x) : x \in call.returned}
  BY <1>1
<1>3. CalleeEmptyset(E, call) <=> CalleeEmptyset(D, call)
  BY DEF CalleeEmptyset, SameAt
<1>4. QED BY <1>2, <1>3 DEF VisitCallInst

LEMMA PropagatesReads ==
  ASSUME NEW E, NEW D, NEW block, ReturnsOne(block), Agree(E, D, block)
  PROVE  /\ Propagates(E, block) <=> Propagates(D, block)
         /\ Carrier(block).callee \in ReadNames(block)
<1>1. ReturnedValue(block) \in block.returned BY DEF ReturnsOne, ReturnedValue
<1>2. Carrier(block) \in block.returned \cup block.holds
  BY <1>1 DEF Carrier, Holding
<1>3. Carrier(block).callee \in ReadNames(block)
  BY <1>2 DEF ReadNames
<1>4. Carrier(block).callee # "" => E[Carrier(block).callee] = D[Carrier(block).callee]
  BY <1>3 DEF Agree, SameAt
<1>5. QED BY <1>3, <1>4 DEF Propagates, SpecificationOf

LEMMA ContributionReads ==
  ASSUME NEW knowledge, ~ knowledge.smartSuccessCodeZero, NEW E, NEW D, NEW r, NEW s, NEW f,
         NEW block, ReturnsOne(block), Agree(E, D, block), NEW k \in Constraining(block)
  PROVE  Contribution(knowledge, E, r, f, block, k) = Contribution(knowledge, D, s, f, block, k)
<1>1. E[k] = D[k]
  BY DEF Constraining, ReadNames, Agree, SameAt
<1>2. ConstraintConfidence(E, block, k) = ConstraintConfidence(D, block, k)
  BY <1>1 DEF ConstraintConfidence
<1>3. /\ Propagates(E, block) <=> Propagates(D, block)
      /\ Propagates(E, block) => E[Carrier(block).callee] = D[Carrier(block).callee]
  <2>1. Propagates(E, block) => Carrier(block).callee # ""
    BY UnknownType DEF Propagates, SpecificationOf, IsUnknown, Unknown
  <2>2. QED BY <2>1, PropagatesReads DEF Agree, SameAt
<1>4. Propagates(E, block) =>
        \A inter : PropagatedConfidence(E, k, inter, Carrier(block).callee)
                     = PropagatedConfidence(D, k, inter, Carrier(block).callee)
  BY <1>3 DEF PropagatedConfidence
<1>5. ReturnConfidence(E, block, k) = ReturnConfidence(D, block, k)
  BY <1>2, <1>3, <1>4 DEF ReturnConfidence
<1>6. MayDropZero(E, block) <=> MayDropZero(D, block)
  BY <1>3 DEF MayDropZero
<1>7. \A c : /\ Dropping(knowledge, r, f, block.file, c) = c
             /\ Dropping(knowledge, s, f, block.file, c) = c
  BY DEF Dropping, ShouldSmartDropZero
<1>8. QED BY <1>2, <1>5, <1>6, <1>7 DEF Contribution

LEMMA VisitBlockReads ==
  ASSUME NEW knowledge, ~ knowledge.smartSuccessCodeZero, NEW E, NEW D, NEW r, NEW s, NEW f,
         NEW block, Agree(E, D, block)
  PROVE  VisitBlock(knowledge, E, r, f, block) = VisitBlock(knowledge, D, s, f, block)
<1> DEFINE codes(A, t) == IF AddsCodes(knowledge, A, t, f, block) THEN t \cup {f} ELSE t
           calls(A, t) == {VisitCallInst(knowledge, A, t, f, block.file, block.calls[i]) :
                             i \in DOMAIN block.calls}
           error == IF ReturnsErrorCode(knowledge, block)
                    THEN {AddErrorValue(knowledge, f, ReturnedValue(block))} ELSE {}
           constraints(A, t) ==
             IF ~ ReturnsOne(block) \/ ReturnsSuccessCode(knowledge, t, f, block) THEN {}
             ELSE {Contribution(knowledge, A, codes(A, t), f, block, k) : k \in Constraining(block)}
<1>1. \A i \in DOMAIN block.calls : SameAt(E, D, block.calls[i].callee)
  BY DEF Agree, ReadNames
<1>2. calls(E, r) = calls(D, s)
  <2>1. \A i \in DOMAIN block.calls :
          VisitCallInst(knowledge, E, r, f, block.file, block.calls[i])
            = VisitCallInst(knowledge, D, s, f, block.file, block.calls[i])
    BY <1>1, VisitCallReads
  <2>2. QED BY <2>1
<1>3. ReturnsSuccessCode(knowledge, r, f, block) <=> ReturnsSuccessCode(knowledge, s, f, block)
  BY DEF ReturnsSuccessCode, IsSuccessCode
<1>4. ASSUME ReturnsOne(block)
      PROVE  \A t, u : \A k \in Constraining(block) :
               Contribution(knowledge, E, t, f, block, k) = Contribution(knowledge, D, u, f, block, k)
  BY <1>4, ContributionReads
<1>5. constraints(E, r) = constraints(D, s)
  <2> HIDE DEF codes
  <2>1. QED BY <1>3, <1>4
<1>6. /\ VisitBlock(knowledge, E, r, f, block)
           = JoinAll({Emptyset} \cup calls(E, r) \cup error \cup constraints(E, r))
      /\ VisitBlock(knowledge, D, s, f, block)
           = JoinAll({Emptyset} \cup calls(D, s) \cup error \cup constraints(D, s))
  BY DEF VisitBlock
<1> DEFINE cE == calls(E, r)
           cD == calls(D, s)
           kE == constraints(E, r)
           kD == constraints(D, s)
<1>7. cE = cD /\ kE = kD
  BY <1>2, <1>5
<1>8. /\ VisitBlock(knowledge, E, r, f, block) = JoinAll({Emptyset} \cup cE \cup error \cup kE)
      /\ VisitBlock(knowledge, D, s, f, block) = JoinAll({Emptyset} \cup cD \cup error \cup kD)
  BY <1>6
<1> HIDE DEF cE, cD, kE, kD, error
<1>9. QED BY <1>7, <1>8

LEMMA InferredReads ==
  ASSUME NEW knowledge, ~ knowledge.smartSuccessCodeZero, NEW E, NEW D, NEW r, NEW s, NEW f,
         NEW blocks, \A b \in DOMAIN blocks : Agree(E, D, blocks[b])
  PROVE  InferredSpecification(knowledge, E, r, f, blocks)
           = InferredSpecification(knowledge, D, s, f, blocks)
<1> DEFINE before(A, t, i) == ReturningBefore(knowledge, A, t, f, blocks, i)
           found(A, t) == {VisitBlock(knowledge, A, before(A, t, i), f, blocks[i]) :
                             i \in DOMAIN blocks}
<1>1. \A i \in DOMAIN blocks : \A t, u :
        VisitBlock(knowledge, E, t, f, blocks[i]) = VisitBlock(knowledge, D, u, f, blocks[i])
  BY VisitBlockReads
<1>2. found(E, r) = found(D, s)
  <2> HIDE DEF before
  <2>1. QED BY <1>1
<1>3. \A t, c : Dropping(knowledge, t, f, blocks[1].file, c) = c
  BY DEF Dropping, ShouldSmartDropZero
<1>4. /\ InferredSpecification(knowledge, E, r, f, blocks) = BlocksJoin(found(E, r))
      /\ InferredSpecification(knowledge, D, s, f, blocks) = BlocksJoin(found(D, s))
  BY <1>3 DEF InferredSpecification
<1> DEFINE fE == found(E, r)
           fD == found(D, s)
<1>5. fE = fD
  BY <1>2
<1>6. /\ InferredSpecification(knowledge, E, r, f, blocks) = BlocksJoin(fE)
      /\ InferredSpecification(knowledge, D, s, f, blocks) = BlocksJoin(fD)
  BY <1>4
<1> HIDE DEF fE, fD
<1>7. QED BY <1>5, <1>6

(***************************************************************************)
(* The loop of lines 158-165 stops at a fixpoint.  Steady is said of every *)
(* function of an earlier component, and of those that the current pass    *)
(* has visited as long as nothing has changed in it; in a component        *)
(* without a loop the functions do not read one another.                   *)
(***************************************************************************)
Steady(n) ==
  UpdatedSpecification(specs[n], Inferred(instance[n]), prog.range[instance[n]]) = specs[n]

IsPlain(p) == ~ p.finder /\ ~ p.knowledge.smartSuccessCodeZero /\ IsBottomUp(p)

FixpointInv ==
  /\ phase # "expand"
  /\ phase = "done" => component > Len(prog.components)
  /\ \A n \in DOMAIN instance :
       \E i \in DOMAIN prog.components : i <= component /\ instance[n] \in InComponent(prog, i)
  /\ \A n \in Analysed, i \in DOMAIN prog.components :
       i < component /\ instance[n] \in InComponent(prog, i) => Steady(n)
  /\ component <= Len(prog.components) /\ (~ changed \/ ~ prog.components[component].loop) =>
       \A n \in Analysed, k \in 1 .. Len(Scc) : k < position /\ instance[n] = Scc[k] => Steady(n)

LEMMA InitFixpoint == Init => FixpointInv
<1> SUFFICES ASSUME Init PROVE FixpointInv
  OBVIOUS
<1>1. instance = [n \in {} |-> ""]
  BY DEF Init
<1>2. DOMAIN instance = {} /\ Analysed = {}
  BY <1>1 DEF Analysed
<1>3. QED BY <1>2 DEF Init, FixpointInv

(* The function that runs is not read by one of an earlier component, nor, *)
(* in a component without a loop, of its own.                              *)
LEMMA NotReadBefore ==
  ASSUME Typed, IsPlain(prog), component \in DOMAIN prog.components,
         NEW f \in InComponent(prog, component), f \in Functions, prog.blocks[f] # << >>,
         NEW i \in DOMAIN prog.components, NEW g \in InComponent(prog, i),
         i < component \/ (i = component /\ ~ prog.components[component].loop),
         NEW b \in DOMAIN prog.blocks[g]
  PROVE  prog.source[f] \notin ReadNames(prog.blocks[g][b])
<1> SUFFICES ASSUME prog.source[f] \in ReadNames(prog.blocks[g][b]) PROVE FALSE
  OBVIOUS
<1>1. PICK j \in 1 .. i : f \in InComponent(prog, j) /\ (j = i => prog.components[i].loop)
  BY DEF IsPlain, IsBottomUp, Functions
<1>2. j \in DOMAIN prog.components /\ j <= i /\ i \in Nat /\ j \in Nat
  BY ProgramFacts DEF IsProgram
<1>3. j = component
  BY <1>1, <1>2, ProgramFacts DEF IsProgram
<1>4. QED BY <1>1, <1>2, <1>3

(* What is inferred for a function stays when no name it reads changes.    *)
LEMMA InferredStays ==
  ASSUME Typed, IsPlain(prog), prog' = prog, NEW n \in Names,
         \A m \in Names : m # n => specs'[m] = specs[m],
         NEW g \in Functions,
         specs' = specs \/ \A b \in DOMAIN prog.blocks[g] : n \notin ReadNames(prog.blocks[g][b])
  PROVE  Inferred(g)' = Inferred(g)
<1>1. \A b \in DOMAIN prog.blocks[g] : Agree(specs', specs, prog.blocks[g][b])
  <2> SUFFICES ASSUME NEW b \in DOMAIN prog.blocks[g], NEW m \in ReadNames(prog.blocks[g][b]) \ {""}
               PROVE  specs'[m] = specs[m]
    BY DEF Agree, SameAt
  <2>1. IsBlock(Names, prog.blocks[g][b])
    BY ProgramFacts DEF IsProgram, Functions, Names
  <2>2. m \in Names
    BY <2>1 DEF IsBlock, ReadNames
  <2>3. QED BY <2>2
<1>2. ~ prog.knowledge.smartSuccessCodeZero
  BY DEF IsPlain
<1>3. InferredSpecification(prog.knowledge, specs', returning', prog.source[g], prog.blocks[g])
        = InferredSpecification(prog.knowledge, specs, returning, prog.source[g], prog.blocks[g])
  BY <1>1, <1>2, InferredReads
<1>4. QED BY <1>3 DEF Inferred

LEMMA RunOnFunctionFixpoint ==
  ASSUME Typed, CertainInv, IsPlain(prog), FixpointInv, RunOnFunction
  PROVE  FixpointInv'
<1>function. PICK f \in Functions : f = Scc[position]
  BY SccFacts DEF Typed, TypeOK, RunOnFunction, Analysing
<1>name. PICK n \in Names : n = prog.source[f]
  BY ProgramFacts
<1>1. /\ UNCHANGED <<prog, phase, component>>
      /\ position' = position + 1 /\ phase = "fixpoint"
      /\ component \in DOMAIN prog.components /\ component \in Nat /\ position \in 1 .. Len(Scc)
      /\ instance' = With(instance, n, f) /\ IsFirstInstance(f)
      /\ changed' = (changed \/ specs' # specs)
  BY <1>function, <1>name, ProgramFacts, SccFacts DEF RunOnFunction, Analysing, Typed, TypeOK, IsProgram
<1>2. /\ DOMAIN instance' = DOMAIN instance \cup {n}
      /\ \A m \in DOMAIN instance' : instance'[m] = IF m = n THEN f ELSE instance[m]
  BY <1>1 DEF With
<1>3. f \in InComponent(prog, component)
  BY <1>1, <1>function, SccFacts DEF InComponent, Scc
<1>4. /\ prog.blocks[f] = << >> => specs' = specs
      /\ prog.blocks[f] # << >> => Update(f, Inferred(f))
  BY <1>function DEF RunOnFunction
<1> DEFINE new == UpdatedSpecification(specs[n], Inferred(f), prog.range[f])
<1>5. /\ prog.blocks[f] # << >> => specs' = [specs EXCEPT ![n] = new]
      /\ \A m \in Names : m # n => specs'[m] = specs[m]
  BY <1>name, <1>4 DEF Update, UpdatedSpecification, Typed, TypeOK
<1>6. \A i \in DOMAIN prog.components : i # component => f \notin InComponent(prog, i)
  BY <1>1, <1>3, ProgramFacts DEF IsProgram
(* Others stay steady unless they read what has changed. *)
<1>other. ASSUME NEW m \in Analysed', m # n, NEW i \in DOMAIN prog.components,
                 instance'[m] \in InComponent(prog, i), m \in Analysed => Steady(m),
                 specs' = specs \/ i < component
                   \/ (i = component /\ ~ prog.components[component].loop)
          PROVE  Steady(m)'
  <2>1. m \in Analysed /\ instance'[m] = instance[m] /\ m \in Names /\ instance[m] \in Functions
    BY <1>1, <1>2, <1>other DEF Analysed, Typed, TypeOK
  <2>2. specs' # specs =>
          \A b \in DOMAIN prog.blocks[instance[m]] : n \notin ReadNames(prog.blocks[instance[m]][b])
    <3> SUFFICES ASSUME specs' # specs, NEW b \in DOMAIN prog.blocks[instance[m]]
                 PROVE  n \notin ReadNames(prog.blocks[instance[m]][b])
      OBVIOUS
    <3>1. prog.blocks[f] # << >> BY <1>4
    <3>2. QED BY <1>1, <1>3, <1>name, <1>other, <2>1, <3>1, NotReadBefore
  <2>3. Inferred(instance[m])' = Inferred(instance[m])
    <3>1. PICK g \in Functions : g = instance[m] BY <2>1
    <3>2. Inferred(g)' = Inferred(g)
      BY <1>1, <1>5, <2>2, <3>1, InferredStays
    <3>3. QED BY <2>1, <3>1, <3>2
  <2>4. specs'[m] = specs[m]
    BY <1>5, <1>other, <2>1
  <2>5. QED BY <1>1, <1>other, <2>1, <2>3, <2>4 DEF Steady
(* So is the function itself, where it does not read its own name.         *)
<1>own. ASSUME n \in Analysed', specs' = specs \/ ~ prog.components[component].loop
        PROVE  Steady(n)'
  <2>1. prog.blocks[f] # << >> /\ instance'[n] = f
    BY <1>1, <1>2, <1>own DEF Analysed
  <2>2. specs' = specs \/ \A b \in DOMAIN prog.blocks[f] : n \notin ReadNames(prog.blocks[f][b])
    BY <1>1, <1>3, <1>name, <1>own, <2>1, NotReadBefore
  <2>3. Inferred(f)' = Inferred(f)
    BY <1>1, <1>5, <2>2, InferredStays
  <2>4. specs'[n] = new
    BY <1>5, <2>1 DEF Typed, TypeOK
  <2>5. /\ specs[n] \in OfLevels(Certain) /\ Inferred(f) \in OfLevels(Certain)
        /\ prog.range[f] \in SignLatticeElement
    BY InferredCertain, ProgramFacts DEF CertainInv
  <2>6. UpdatedSpecification(new, Inferred(f), prog.range[f]) = new
    BY <2>5, CertainUpdateSettles
  <2> HIDE DEF new
  <2>7. UpdatedSpecification(specs'[n], Inferred(f)', prog'.range[f]) = specs'[n]
    BY <1>1, <2>3, <2>4, <2>6
  <2>8. QED BY <2>1, <2>7 DEF Steady
<1> HIDE DEF new
<1>7. \A m \in DOMAIN instance' :
        \E i \in DOMAIN prog.components : i <= component /\ instance'[m] \in InComponent(prog, i)
  BY <1>1, <1>2, <1>3 DEF FixpointInv
<1>8. ASSUME NEW m \in Analysed', NEW i \in DOMAIN prog.components,
             i < component, instance'[m] \in InComponent(prog, i)
      PROVE  Steady(m)'
  <2>1. m # n
    <3>1. SUFFICES ASSUME m = n PROVE FALSE
      OBVIOUS
    <3>2. n \in DOMAIN instance' /\ instance'[n] = f
      BY <1>2
    <3>3. i # component
      BY <1>1, <1>8, ProgramFacts DEF IsProgram
    <3>4. QED BY <1>6, <1>8, <3>1, <3>2, <3>3
  <2>2. m \in Analysed => Steady(m)
    BY <1>2, <1>8, <2>1 DEF FixpointInv, Analysed
  <2>3. QED BY <1>8, <1>other, <2>1, <2>2
<1>9. ASSUME ~ changed' \/ ~ prog.components[component].loop,
             NEW m \in Analysed', NEW k \in 1 .. Len(Scc), k < position + 1, instance'[m] = Scc[k]
      PROVE  Steady(m)'
  <2>1. specs' = specs \/ ~ prog.components[component].loop
    BY <1>1, <1>9
  <2>2. CASE m = n
    BY <1>own, <2>1, <2>2
  <2>3. CASE m # n
    <3>1. k < position /\ instance[m] = Scc[k] /\ m \in DOMAIN instance
      BY <1>1, <1>2, <1>9, <1>function, <1>name, <2>3 DEF Analysed, Typed, TypeOK
    <3>2. m \in Analysed => Steady(m)
      BY <1>1, <1>9, <3>1 DEF FixpointInv, Typed, TypeOK
    <3>3. instance'[m] \in InComponent(prog, component)
      BY <1>1, <1>9, SccFacts DEF InComponent, Scc
    <3>4. QED BY <1>1, <1>other, <2>1, <2>3, <3>2, <3>3
  <2>4. QED BY <2>2, <2>3
<1>10. QED
  BY <1>1, <1>7, <1>8, <1>9 DEF FixpointInv, Scc

LEMMA SkipFunctionFixpoint ==
  ASSUME Typed, FixpointInv, SkipFunction
  PROVE  FixpointInv'
<1>1. /\ UNCHANGED <<prog, specs, returning, instance, phase, component, changed>>
      /\ position' = position + 1 /\ position \in Nat
  BY DEF SkipFunction, tables, Typed, TypeOK
<1>2. \A m \in DOMAIN instance : instance[m] # Scc[position]
  BY DEF SkipFunction, IsFirstInstance, Typed, TypeOK
<1>3. Analysed' = Analysed /\ \A m \in Analysed : Steady(m)' <=> Steady(m)
  BY <1>1 DEF Analysed, Steady, Inferred
<1>4. ASSUME component <= Len(prog.components), ~ changed \/ ~ prog.components[component].loop,
             NEW m \in Analysed, NEW k \in 1 .. Len(Scc), k < position + 1, instance[m] = Scc[k]
      PROVE  Steady(m)
  <2>1. k < position
    BY <1>1, <1>2, <1>4 DEF Analysed
  <2>2. QED BY <1>4, <2>1 DEF FixpointInv
<1>5. QED
  BY <1>1, <1>3, <1>4 DEF FixpointInv, Scc

LEMMA RepeatFixpoint ==
  ASSUME Typed, FixpointInv, Repeat
  PROVE  FixpointInv'
<1>1. /\ UNCHANGED <<prog, specs, returning, instance, phase, component>> /\ position' = 1
  BY DEF Repeat, tables
<1>2. Analysed' = Analysed /\ \A m \in Analysed : Steady(m)' <=> Steady(m)
  BY <1>1 DEF Analysed, Steady, Inferred
<1>3. \A k \in 1 .. Len(Scc) : ~ k < position'
  BY <1>1
<1>4. QED
  BY <1>1, <1>2, <1>3 DEF FixpointInv, Scc

(* A component is left when nothing changed in its last pass, or without a *)
(* loop after its only one.                                                *)
LEMMA LeaveFixpoint ==
  ASSUME Typed, FixpointInv, LeaveWithoutFinder
  PROVE  FixpointInv'
<1>1. /\ UNCHANGED <<prog, specs, returning, instance, phase>>
      /\ position' = 1 /\ component' = component + 1 /\ component \in Nat
      /\ component <= Len(prog.components) /\ phase = "fixpoint"
      /\ position > Len(Scc) /\ (~ changed \/ ~ prog.components[component].loop)
  BY DEF LeaveWithoutFinder, PassDone, Analysing, NextComponent, MustRepeat, tables, Typed, TypeOK
<1>2. Analysed' = Analysed /\ \A m \in Analysed : Steady(m)' <=> Steady(m)
  BY <1>1 DEF Analysed, Steady, Inferred
<1>3. \A k \in 1 .. Len(Scc') : ~ k < position'
  BY <1>1
<1>4. DOMAIN prog.components \subseteq Nat
  BY ProgramFacts DEF IsProgram
<1>5. ASSUME NEW m \in Analysed, NEW i \in DOMAIN prog.components,
             i < component + 1, instance[m] \in InComponent(prog, i)
      PROVE  Steady(m)
  <2>1. CASE i < component
    BY <1>5, <2>1 DEF FixpointInv
  <2>2. CASE i = component
    <3>1. PICK k \in DOMAIN Scc : instance[m] = Scc[k]
      BY <1>5, <2>2 DEF InComponent, Scc
    <3>2. k \in 1 .. Len(Scc) /\ k < position
      BY <1>1, <3>1, SccFacts DEF Typed, TypeOK
    <3>3. QED BY <1>1, <3>1, <3>2 DEF FixpointInv
  <2>3. QED BY <1>1, <1>4, <1>5, <2>1, <2>2
<1>6. \A n \in DOMAIN instance :
        \E i \in DOMAIN prog.components : i <= component + 1 /\ instance[n] \in InComponent(prog, i)
  BY <1>1, <1>4 DEF FixpointInv
<1>7. QED
  BY <1>1, <1>2, <1>3, <1>5, <1>6 DEF FixpointInv

LEMMA NextFixpoint ==
  ASSUME Typed, CertainInv, IsPlain(prog), FixpointInv, [Next]_vars
  PROVE  FixpointInv'
<1>1. CASE RunOnFunction
  BY <1>1, RunOnFunctionFixpoint
<1>2. CASE SkipFunction
  BY <1>2, SkipFunctionFixpoint
<1>3. CASE Repeat
  BY <1>3, RepeatFixpoint
<1>4. CASE LeaveWithoutFinder
  BY <1>4, LeaveFixpoint
<1>5. CASE BeginExpansion \/ EndExpansion \/ \E f \in pending : ExpandErrorSpecification(f)
  BY <1>5 DEF BeginExpansion, EndExpansion, ExpandErrorSpecification, Analysing, FixpointInv,
              CertainInv
<1>6. CASE UNCHANGED <<prog, specs, returning, instance, component, position, changed>>
           /\ (phase' = phase \/ Finish)
  <2>1. Analysed' = Analysed /\ \A m \in Analysed : Steady(m)' <=> Steady(m)
    BY <1>6 DEF Analysed, Steady, Inferred
  <2>2. phase' # "expand" /\ (phase' = "done" => component > Len(prog.components))
    <3>1. CASE phase' = phase
      BY <3>1 DEF FixpointInv
    <3>2. CASE Finish
      BY <3>2, ProgramFacts DEF Finish, Analysing, Typed, TypeOK, IsProgram
    <3>3. QED BY <1>6, <3>1, <3>2
  <2>3. QED BY <1>6, <2>1, <2>2 DEF FixpointInv, Scc
<1>7. QED
  BY <1>1, <1>2, <1>3, <1>4, <1>5, <1>6 DEF Next, Finish, vars, tables

(* Lines 158-165: where the pass stops, running any analysed function once *)
(* more would change no specification, whatever the components, the order  *)
(* of the functions in them and the passes it took.  The watched flag      *)
(* suffices because inference reads specifications only: with              *)
(* smart_success_code_zero it reads the functions that return codes too,   *)
(* and with an embedding an update need not settle at once.                *)
THEOREM StopsAtAFixpoint == Spec /\ IsPlain(prog) => []StopsAtFixpoint
<1>1. Init /\ IsPlain(prog) => CertainInv
  BY InitCertain DEF IsPlain
<1>2. IInv => Typed
  BY DEF IInv
<1>program. IsPlain(prog) /\ [Next]_vars => IsPlain(prog)'
  BY DEF Next, SkipFunction, RunOnFunction, Repeat, LeaveWithoutFinder, BeginExpansion,
         EndExpansion, Finish, ExpandErrorSpecification, vars
<1>3. Typed /\ CertainInv /\ [Next]_vars => CertainInv'
  BY NextCertain
<1>4. Typed /\ IsPlain(prog) /\ CertainInv /\ FixpointInv /\ [Next]_vars => FixpointInv'
  BY NextFixpoint
<1>5. Typed /\ FixpointInv => StopsAtFixpoint
  <2> SUFFICES ASSUME Typed, FixpointInv, phase = "done", NEW n \in Analysed PROVE Steady(n)
    BY DEF StopsAtFixpoint, Steady
  <2>1. PICK i \in DOMAIN prog.components : instance[n] \in InComponent(prog, i)
    BY DEF FixpointInv, Analysed
  <2>2. i < component
    BY <2>1, ProgramFacts DEF FixpointInv, IsProgram, Typed, TypeOK
  <2>3. QED BY <2>1, <2>2 DEF FixpointInv
<1>6. QED
  BY <1>1, <1>2, <1>program, <1>3, <1>4, <1>5, InitFixpoint, Invariance, PTL DEF Spec

(***************************************************************************)
(* More of the tables, more of the delta: the sets of functions returning  *)
(* codes and the specifications only grow, and with them the signs that    *)
(* the transfer functions yield.                                           *)
(***************************************************************************)
LEMMA ConstantsAreProper ==
  /\ Proper(Unknown) /\ Proper(Emptyset) /\ Support(Emptyset) = {} /\ IsEmptyset(Emptyset)
  /\ \A S, a : Proper(OnSigns(S, a, kMinConfidence))
  /\ \A S, a, e : \A s \in Support(OnSigns(S, a, e)) : s \in S /\ s \in Sign /\ a # kMinConfidence
  /\ \A S, a, e : \A s \in Sign : s \in S /\ a # kMinConfidence => s \in Support(OnSigns(S, a, e))
BY ConfidenceBounds DEF Proper, Unknown, Emptyset, OnSigns, Support, IsEmptyset

(* The signs that stay in a delta when more functions return codes: zero   *)
(* is dropped from it where smart_success_code_zero is set.                *)
Lasting(knowledge) ==
  Sign \ (IF knowledge.smartSuccessCodeZero THEN {"zero"} ELSE {})

LEMMA DroppingLasts ==
  ASSUME NEW L \in Levels, NEW c \in OfLevels(L), NEW knowledge, NEW returns, NEW f, NEW file
  PROVE  LET d == Dropping(knowledge, returns, f, file, c)
         IN /\ Support(d) \subseteq Support(c) /\ d.emptyset = c.emptyset
            /\ \A s \in Lasting(knowledge) : s \in Support(c) => s \in Support(d)
<1>1. c \in LatticeElementConfidence
  BY DEF Levels, OfLevels, LatticeElementConfidence
<1>2. /\ ToConfidence("0", kMinConfidence) \in LatticeElementConfidence
      /\ Support(ToConfidence("0", kMinConfidence)) = {"zero"}
  BY ToConfidenceKeeps, ConfidenceBounds, GammaRows DEF SignLatticeElement
<1>3. Support(DropZero(c)) = Support(c) \ {"zero"} /\ DropZero(c).emptyset = c.emptyset
  <2>1. Support(DropZero(c)) = Support(c) \ {"zero"}
    BY <1>1, <1>2, DifferenceKeeps DEF DropZero
  <2>2. DropZero(c).emptyset = c.emptyset
    BY <1>1 DEF DropZero, DifferenceConfidence, LatticeElementConfidence
  <2>3. QED BY <2>1, <2>2
<1>4. QED BY <1>3 DEF Dropping, ShouldSmartDropZero, Lasting

LEMMA SuccessCodeLasts ==
  ASSUME NEW knowledge, NEW r, NEW r2, r \subseteq r2, NEW f, NEW value, NEW file
  PROVE  /\ IsSuccessCode(knowledge, r, f, value, file) => IsSuccessCode(knowledge, r2, f, value, file)
         /\ \/ IsSuccessCode(knowledge, r, f, value, file) <=> IsSuccessCode(knowledge, r2, f, value, file)
            \/ knowledge.smartSuccessCodeZero /\ value = 0
BY DEF IsSuccessCode, ShouldSmartDropZero

LEMMA ErrorOnlyValueLasts ==
  ASSUME NEW knowledge, NEW r, NEW r2, r \subseteq r2, NEW f, NEW file, NEW x
  PROVE  /\ Proper(ErrorOnlyValue(knowledge, r, f, file, x))
         /\ \A s \in Lasting(knowledge) :
              s \in Support(ErrorOnlyValue(knowledge, r, f, file, x))
                => s \in Support(ErrorOnlyValue(knowledge, r2, f, file, x))
<1> DEFINE added == AddErrorValue(knowledge, f, x)
<1>1. Proper(added) /\ (x.v = 0 => \A s \in Support(added) : s = "zero")
  <2>1. x.v = 0 => SignsOf(AsInt(x)) = {"zero"}
    BY DEF SignsOf, AsInt, IntOf
  <2>2. QED BY <2>1, ConstantsAreProper DEF AddErrorValue
<1> HIDE DEF added
<1>2. CASE x.kind = "int"
  <2>1. \A t : ErrorOnlyValue(knowledge, t, f, file, x)
                 = IF IsSuccessCode(knowledge, t, f, x.v, file) THEN Emptyset ELSE added
    BY <1>2 DEF ErrorOnlyValue, added
  <2>2. QED BY <1>1, <2>1, SuccessCodeLasts, ConstantsAreProper DEF Lasting
<1>3. CASE x.kind # "int"
  <2>1. ErrorOnlyValue(knowledge, r, f, file, x) = ErrorOnlyValue(knowledge, r2, f, file, x)
    BY <1>3 DEF ErrorOnlyValue
  <2>2. CASE x.kind = "bool"
    BY <2>1, <2>2, ConstantsAreProper DEF ErrorOnlyValue
  <2>3. CASE x.kind = "null"
    BY <1>1, <2>1, <2>3 DEF ErrorOnlyValue, added
  <2>4. CASE x.kind \notin {"bool", "int", "null"}
    BY <2>1, <2>4, ConstantsAreProper DEF ErrorOnlyValue
  <2>5. QED BY <1>3, <2>2, <2>3, <2>4
<1>4. QED BY <1>2, <1>3

LEMMA VisitCallLasts ==
  ASSUME NEW knowledge, NEW E, NEW D, NEW r, NEW r2, r \subseteq r2, NEW f, NEW file, NEW call
  PROVE  /\ Proper(VisitCallInst(knowledge, E, r, f, file, call))
         /\ \A s \in Lasting(knowledge) :
              s \in Support(VisitCallInst(knowledge, E, r, f, file, call))
                => s \in Support(VisitCallInst(knowledge, D, r2, f, file, call))
<1> DEFINE value(t, x) == ErrorOnlyValue(knowledge, t, f, file, x)
           values(t) == {Emptyset} \cup {value(t, x) : x \in call.returned}
<1>1. ASSUME NEW t PROVE values(t) \in SUBSET OfLevels(Certain) /\ values(t) # {}
  <2>1. \A x : value(t, x) \in OfLevels(Certain)
    <3> SUFFICES ASSUME NEW x PROVE value(t, x) \in OfLevels(Certain)
      OBVIOUS
    <3>1. CASE x.kind = "bool"
      BY <3>1, OnSignsType, LevelsExist DEF ErrorOnlyValue, Levels
    <3>2. CASE x.kind = "int"
      BY <3>2, EmptysetStays, LevelsExist, AddErrorValueType DEF ErrorOnlyValue
    <3>3. CASE x.kind = "null"
      BY <3>3, AddErrorValueType, LevelsExist DEF ErrorOnlyValue
    <3>4. CASE x.kind \notin {"bool", "int", "null"}
      BY <3>4, EmptysetStays, LevelsExist DEF ErrorOnlyValue
    <3>5. QED BY <3>1, <3>2, <3>3, <3>4
  <2>2. QED BY <2>1, EmptysetStays, LevelsExist
<1>2. \A x \in call.returned : 
        /\ Proper(value(r, x))
        /\ \A s \in Lasting(knowledge) : s \in Support(value(r, x)) => s \in Support(value(r2, x))
  BY ErrorOnlyValueLasts
<1> DEFINE low == values(r)
           high == values(r2)
<1>3. /\ \A c \in low : Proper(c)
      /\ \A s \in Lasting(knowledge), c \in low :
           s \in Support(c) => \E d \in high : s \in Support(d)
  <2> HIDE DEF value
  <2>1. QED BY <1>2, ConstantsAreProper
<1>4. /\ low \in SUBSET OfLevels(Certain) /\ low # {}
      /\ high \in SUBSET OfLevels(Certain) /\ high # {}
  BY <1>1
<1>5. CASE IsErrorOnlyFunctionCall(knowledge, call)
  <2>1. /\ VisitCallInst(knowledge, E, r, f, file, call) = JoinAll(low)
        /\ VisitCallInst(knowledge, D, r2, f, file, call) = JoinAll(high)
    BY <1>5 DEF VisitCallInst
  <2> HIDE DEF low, high
  <2>2. Proper(JoinAll(low))
    BY <1>3, <1>4, JoinAllProper, LevelsExist
  <2>3. /\ \A s : s \in Support(JoinAll(low)) <=> \E c \in low : s \in Support(c)
        /\ \A s : s \in Support(JoinAll(high)) <=> \E c \in high : s \in Support(c)
    BY <1>4, JoinAllSigns, LevelsExist
  <2>4. QED BY <1>3, <2>1, <2>2, <2>3
<1>6. CASE ~ IsErrorOnlyFunctionCall(knowledge, call)
  BY <1>6 DEF VisitCallInst, Unknown, Proper, Support
<1>7. QED BY <1>5, <1>6

(***************************************************************************)
(* Tables of specifications, and when one claims more than another.        *)
(***************************************************************************)
IsTable(E, names) == E \in [names -> OfLevels(Certain)] /\ \A n \in names : Proper(E[n])

Exceeds(D, E, names) ==
  \A n \in names : /\ Support(E[n]) \subseteq Support(D[n])
                   /\ ~ IsUnknown(E[n]) => ~ IsUnknown(D[n])

(* In such a table a known specification that is not emptyset claims some  *)
(* sign.                                                                   *)
LEMMA NoErrorSigns ==
  ASSUME NEW c \in OfLevels(Certain), Proper(c)
  PROVE  NoError(c) <=> Support(c) = {}
BY DEF NoError, OfLevels, Certain, IsUnknown, IsEmptyset, Proper

LEMMA ConstraintLasts ==
  ASSUME NEW names, NEW E, NEW D, IsTable(E, names), IsTable(D, names), Exceeds(D, E, names),
         NEW block, IsBlock(names, block), NEW k \in Constraining(block)
  PROVE  LET e == ConstraintConfidence(E, block, k)
             d == ConstraintConfidence(D, block, k)
         IN /\ Proper(e) /\ e \in OfLevels(Certain) /\ d \in OfLevels(Certain)
            /\ Support(e) \subseteq Support(d)
            /\ NoError(e) => Support(e) = {}
            /\ ~ NoError(e) => ~ NoError(d) /\ Support(e) # {} /\ e.emptyset = kMinConfidence
<1>1. k \in names /\ block.constraints[k] \in SignLatticeElement
  BY DEF IsBlock, Constraining
<1>2. /\ E[k] \in OfLevels(Certain) /\ D[k] \in OfLevels(Certain)
      /\ Proper(E[k]) /\ Proper(D[k]) /\ Support(E[k]) \subseteq Support(D[k])
  BY <1>1 DEF IsTable, Exceeds
<1> DEFINE e == ConstraintConfidence(E, block, k)
           d == ConstraintConfidence(D, block, k)
<1>3. /\ e \in OfLevels(Certain) /\ Support(e) = Support(E[k]) \cap Gamma[block.constraints[k]]
      /\ d \in OfLevels(Certain) /\ Support(d) = Support(D[k]) \cap Gamma[block.constraints[k]]
  BY <1>1, <1>2, SelectionsStay, IntersectionKeeps, LevelsExist DEF ConstraintConfidence
<1>4. IsEmptyset(e) <=> IsEmptyset(E[k])
  BY <1>2 DEF ConstraintConfidence, Intersection, IsEmptyset, OfLevels
<1>5. IsEmptyset(d) <=> IsEmptyset(D[k])
  BY <1>2 DEF ConstraintConfidence, Intersection, IsEmptyset, OfLevels
<1>6. Proper(e) /\ Proper(d)
  BY <1>2, <1>3, <1>4, <1>5 DEF Proper
<1> HIDE DEF e, d
<1>7. /\ NoError(e) <=> Support(e) = {}
      /\ NoError(d) <=> Support(d) = {}
  BY <1>3, <1>6, NoErrorSigns
<1>8. ~ NoError(e) => e.emptyset = kMinConfidence
  BY <1>3 DEF NoError, IsEmptyset, OfLevels, Certain
<1>9. Support(e) \subseteq Support(d)
  BY <1>2, <1>3
<1>10. QED BY <1>3, <1>6, <1>7, <1>8, <1>9 DEF e, d

LEMMA PropagatesLasts ==
  ASSUME NEW names, NEW E, NEW D, IsTable(E, names), IsTable(D, names), Exceeds(D, E, names),
         NEW block, IsBlock(names, block), ReturnsOne(block), Propagates(E, block)
  PROVE  /\ Propagates(D, block) /\ Carrier(block).callee \in names
<1>1. Carrier(block).callee \in names
  BY PropagatedCallee, LevelsExist DEF IsTable
<1>2. QED BY <1>1 DEF Propagates, SpecificationOf, Exceeds

(* What a block returns under a constraint that admits an error.           *)
LEMMA ReturnConfidenceLasts ==
  ASSUME NEW names, NEW E, NEW D, IsTable(E, names), IsTable(D, names), Exceeds(D, E, names),
         NEW block, IsBlock(names, block), ReturnsOne(block), HoldsNothing(block),
         NEW k \in Constraining(block), ~ NoError(ConstraintConfidence(E, block, k))
  PROVE  /\ Proper(ReturnConfidence(E, block, k))
         /\ Support(ReturnConfidence(E, block, k)) \subseteq Support(ReturnConfidence(D, block, k))
<1> DEFINE e == ConstraintConfidence(E, block, k)
           d == ConstraintConfidence(D, block, k)
           h == Carrier(block)
           x == ReturnedValue(block)
<1>1. /\ Proper(e) /\ e \in OfLevels(Certain) /\ d \in OfLevels(Certain)
      /\ Support(e) \subseteq Support(d) /\ Support(e) # {} /\ e.emptyset = kMinConfidence
  BY ConstraintLasts
<1>2. GetMax(d) # kMinConfidence
  <2>1. PICK s \in Sign : d.sign[s] # kMinConfidence
    BY <1>1 DEF Support
  <2>2. \A t \in Sign : d.sign[t] \in Nat
    BY <1>1, MaxConfidenceAssumption DEF OfLevels, Certain, kMinConfidence
  <2> HIDE DEF d
  <2>3. QED BY <2>1, <2>2 DEF GetMax, MaxOf, Sign, kMinConfidence
<1>3. \A y : /\ Proper(ConstantConfidence(y, e))
             /\ Support(ConstantConfidence(y, e)) \subseteq Support(ConstantConfidence(y, d))
  BY <1>1, <1>2, ConstantsAreProper DEF ConstantConfidence, Support
<1>4. CASE Propagates(E, block)
  <2>1. h.callee \in names /\ Propagates(D, block)
    BY <1>4, PropagatesLasts
  <2>2. /\ E[h.callee] \in OfLevels(Certain) /\ D[h.callee] \in OfLevels(Certain)
        /\ Proper(E[h.callee]) /\ Support(E[h.callee]) \subseteq Support(D[h.callee])
    BY <2>1 DEF IsTable, Exceeds
  <2>3. /\ ReturnConfidence(E, block, k) = PropagatedConfidence(E, k, e, h.callee)
        /\ ReturnConfidence(D, block, k) = PropagatedConfidence(D, k, d, h.callee)
    <3>1. ~ Ambiguous(block) /\ ~ IsConstantInt(h) /\ h.kind # "null"
      BY <1>4 DEF Propagates, IsConstantInt
    <3>2. QED BY <1>4, <2>1, <3>1 DEF ReturnConfidence
  <2> HIDE DEF e, d, h
  <2>4. /\ Support(MeetConfidence(E[h.callee], e)) = Support(E[h.callee]) \cap Support(e)
        /\ Support(MeetConfidence(D[h.callee], d)) = Support(D[h.callee]) \cap Support(d)
    BY <1>1, <2>2, MeetKeeps, LevelsExist
  <2>5. Proper(MeetConfidence(E[h.callee], e))
    <3>1. IsEmptyset(MeetConfidence(E[h.callee], e)) => IsEmptyset(E[h.callee]) \/ IsEmptyset(e)
      BY DEF MeetConfidence, MaxOf, IsEmptyset
    <3>2. QED BY <1>1, <2>2, <2>4, <3>1 DEF Proper
  <2>6. QED BY <1>1, <2>2, <2>3, <2>4, <2>5 DEF PropagatedConfidence
<1>5. CASE ~ Propagates(E, block)
  <2>1. CASE Ambiguous(block)
    <3>1. ReturnConfidence(E, block, k) = Unknown
      BY <1>5, <2>1 DEF ReturnConfidence
    <3>2. QED BY <3>1, ConstantsAreProper, UnknownType
  <2>2. CASE ~ Ambiguous(block) /\ Holding(block) /\ (IsConstantInt(h) \/ h.kind = "null")
    <3>1. h.kind # "call"
      BY <2>2 DEF IsConstantInt
    <3>2. ~ Propagates(D, block)
      BY <3>1 DEF Propagates
    <3>3. /\ ReturnConfidence(E, block, k) = ConstantConfidence(AsInt(h), e)
          /\ ReturnConfidence(D, block, k) = ConstantConfidence(AsInt(h), d)
      BY <1>5, <2>2, <3>2 DEF ReturnConfidence
    <3> HIDE DEF e, d, h
    <3>4. QED BY <1>3, <3>3
  <2>3. CASE ~ Ambiguous(block) /\ ~ (Holding(block) /\ (IsConstantInt(h) \/ h.kind = "null"))
    <3> DEFINE plain(c) == IF block.constraints[k] = "top" \/ SignsOf(x) = {} THEN Unknown
                           ELSE ConstantConfidence(x, c)
    <3>1. ReturnConfidence(E, block, k) = plain(e)
      BY <1>5, <2>3 DEF ReturnConfidence
    <3>2. CASE SignsOf(x) = {}
      BY <3>1, <3>2, ConstantsAreProper, UnknownType
    <3>3. CASE SignsOf(x) # {}
      <4>1. ~ Holding(block) /\ h = x
        BY <3>3 DEF HoldsNothing, Holding, Carrier
      <4>2. x.kind # "call"
        BY <3>3 DEF SignsOf
      <4>3. ~ Propagates(D, block)
        BY <4>1, <4>2 DEF Propagates
      <4>4. ReturnConfidence(D, block, k) = plain(d)
        BY <2>3, <4>3 DEF ReturnConfidence
      <4> HIDE DEF e, d, h, x
      <4>5. QED BY <1>3, <3>1, <4>4, ConstantsAreProper, UnknownType
    <3>4. QED BY <3>2, <3>3
  <2>4. QED BY <2>1, <2>2, <2>3
<1>6. QED BY <1>4, <1>5

LEMMA ContributionLasts ==
  ASSUME NEW names, NEW E, NEW D, IsTable(E, names), IsTable(D, names), Exceeds(D, E, names),
         NEW knowledge, NEW r, NEW r2, NEW f,
         NEW block, IsBlock(names, block), ReturnsOne(block), HoldsNothing(block),
         NEW k \in Constraining(block)
  PROVE  /\ Proper(Contribution(knowledge, E, r, f, block, k))
         /\ \A s \in Lasting(knowledge) :
              s \in Support(Contribution(knowledge, E, r, f, block, k))
                => s \in Support(Contribution(knowledge, D, r2, f, block, k))
<1> DEFINE e == ConstraintConfidence(E, block, k)
           d == ConstraintConfidence(D, block, k)
           foundE == ReturnConfidence(E, block, k)
           foundD == ReturnConfidence(D, block, k)
           loweredE == IF MayDropZero(E, block)
                       THEN Dropping(knowledge, r, f, block.file, foundE) ELSE foundE
           loweredD == IF MayDropZero(D, block)
                       THEN Dropping(knowledge, r2, f, block.file, foundD) ELSE foundD
<1>1. /\ Contribution(knowledge, E, r, f, block, k)
           = IF NoError(e) THEN e ELSE IF IsUnknown(loweredE) THEN Emptyset ELSE loweredE
      /\ Contribution(knowledge, D, r2, f, block, k)
           = IF NoError(d) THEN d ELSE IF IsUnknown(loweredD) THEN Emptyset ELSE loweredD
  BY DEF Contribution
<1>2. Proper(e) /\ (NoError(e) => Support(e) = {}) /\ (~ NoError(e) => ~ NoError(d))
  BY ConstraintLasts
<1>3. CASE NoError(e)
  <2> HIDE DEF e, d, loweredE, loweredD
  <2>1. QED BY <1>1, <1>2, <1>3
<1>4. CASE ~ NoError(e)
  <2>1. Proper(foundE) /\ Support(foundE) \subseteq Support(foundD)
    BY <1>4, ReturnConfidenceLasts
  <2>2. foundE \in OfLevels(Certain) /\ foundD \in OfLevels(Certain)
    BY ReturnConfidenceType, LevelsExist DEF IsTable
  <2> HIDE DEF foundE, foundD
  <2>3. /\ Proper(loweredE) /\ Support(loweredE) \subseteq Support(foundE)
        /\ \A s \in Lasting(knowledge) : s \in Support(foundD) => s \in Support(loweredD)
    BY <2>1, <2>2, DroppingLasts, LevelsExist DEF Proper, IsEmptyset
  <2> HIDE DEF e, d, loweredE, loweredD
  <2>4. \A s \in Support(loweredD) : ~ IsUnknown(loweredD)
    BY DEF IsUnknown
  <2>5. QED BY <1>1, <1>2, <1>4, <2>1, <2>3, <2>4, ConstantsAreProper
<1>5. QED BY <1>3, <1>4

LEMMA AddsCodesLasts ==
  ASSUME NEW names, NEW E, NEW D, IsTable(E, names), IsTable(D, names), Exceeds(D, E, names),
         NEW knowledge, NEW r, NEW r2, r \subseteq r2, NEW f,
         NEW block, IsBlock(names, block), AddsCodes(knowledge, E, r, f, block)
  PROVE  AddsCodes(knowledge, D, r2, f, block)
<1>1. CASE ReturnsSuccessCode(knowledge, r, f, block)
  BY <1>1, SuccessCodeLasts DEF ReturnsSuccessCode, AddsCodes
<1>2. CASE /\ ReturnsOne(block) /\ Propagates(E, block)
           /\ Carrier(block).callee \in r
           /\ \E k \in Constraining(block) : ~ NoError(ConstraintConfidence(E, block, k))
  <2>1. PICK k \in Constraining(block) : ~ NoError(ConstraintConfidence(E, block, k))
    BY <1>2
  <2>2. ~ NoError(ConstraintConfidence(D, block, k))
    BY <2>1, ConstraintLasts
  <2>3. Propagates(D, block)
    BY <1>2, PropagatesLasts
  <2>4. QED BY <1>2, <2>2, <2>3 DEF AddsCodes
<1>3. QED BY <1>1, <1>2 DEF AddsCodes

LEMMA VisitBlockLasts ==
  ASSUME NEW names, NEW E, NEW D, IsTable(E, names), IsTable(D, names), Exceeds(D, E, names),
         NEW knowledge, NEW r, NEW r2, r \subseteq r2, NEW f,
         NEW block, IsBlock(names, block), HoldsNothing(block)
  PROVE  /\ Proper(VisitBlock(knowledge, E, r, f, block))
         /\ \A s \in Lasting(knowledge) :
              s \in Support(VisitBlock(knowledge, E, r, f, block))
                => s \in Support(VisitBlock(knowledge, D, r2, f, block))
<1> DEFINE codes(A, t) == IF AddsCodes(knowledge, A, t, f, block) THEN t \cup {f} ELSE t
           calls(A, t) == {VisitCallInst(knowledge, A, t, f, block.file, block.calls[i]) :
                             i \in DOMAIN block.calls}
           error == IF ReturnsErrorCode(knowledge, block)
                    THEN {AddErrorValue(knowledge, f, ReturnedValue(block))} ELSE {}
           constraints(A, t) ==
             IF ~ ReturnsOne(block) \/ ReturnsSuccessCode(knowledge, t, f, block) THEN {}
             ELSE {Contribution(knowledge, A, codes(A, t), f, block, k) : k \in Constraining(block)}
           all(A, t) == {Emptyset} \cup calls(A, t) \cup error \cup constraints(A, t)
           low == all(E, r)
           high == all(D, r2)
<1>1. /\ VisitBlock(knowledge, E, r, f, block) = JoinAll(low)
      /\ VisitBlock(knowledge, D, r2, f, block) = JoinAll(high)
  BY DEF VisitBlock
<1>types. ASSUME NEW A, IsTable(A, names), NEW t
          PROVE  all(A, t) \in SUBSET OfLevels(Certain) /\ all(A, t) # {}
  <2>1. calls(A, t) \subseteq OfLevels(Certain)
    BY VisitCallInstType, LevelsExist
  <2>2. error \subseteq OfLevels(Certain)
    BY AddErrorValueType, LevelsExist
  <2>3. constraints(A, t) \subseteq OfLevels(Certain)
    <3> HIDE DEF codes
    <3>1. QED BY <1>types, ContributionType, LevelsExist DEF IsTable
  <2> HIDE DEF calls, error, constraints
  <2>4. QED BY <2>1, <2>2, <2>3, EmptysetStays, LevelsExist
<1>calls. \A c \in calls(E, r) :
            /\ Proper(c)
            /\ \A s \in Lasting(knowledge) : s \in Support(c) => \E d \in calls(D, r2) : s \in Support(d)
  <2>1. \A i \in DOMAIN block.calls :
          /\ Proper(VisitCallInst(knowledge, E, r, f, block.file, block.calls[i]))
          /\ \A s \in Lasting(knowledge) :
               s \in Support(VisitCallInst(knowledge, E, r, f, block.file, block.calls[i]))
                 => s \in Support(VisitCallInst(knowledge, D, r2, f, block.file, block.calls[i]))
    BY VisitCallLasts
  <2>2. QED BY <2>1
<1>error. \A c \in error : Proper(c)
  BY ConstantsAreProper DEF AddErrorValue
<1>constraints. \A c \in constraints(E, r) :
                  /\ Proper(c)
                  /\ \A s \in Lasting(knowledge) : s \in Support(c) =>
                       \E d \in constraints(D, r2) : s \in Support(d)
  <2> SUFFICES ASSUME ReturnsOne(block), ~ ReturnsSuccessCode(knowledge, r, f, block),
                      NEW k \in Constraining(block),
                      NEW c, c = Contribution(knowledge, E, codes(E, r), f, block, k)
               PROVE  /\ Proper(c)
                      /\ \A s \in Lasting(knowledge) : s \in Support(c) =>
                           \E d \in constraints(D, r2) : s \in Support(d)
    OBVIOUS
  <2>1. /\ Proper(c)
        /\ \A s \in Lasting(knowledge) : s \in Support(c) =>
             s \in Support(Contribution(knowledge, D, codes(D, r2), f, block, k))
    BY ContributionLasts
  <2>2. CASE ~ ReturnsSuccessCode(knowledge, r2, f, block)
    <3>1. Contribution(knowledge, D, codes(D, r2), f, block, k) \in constraints(D, r2)
      BY <2>2
    <3> HIDE DEF constraints, codes
    <3>2. QED BY <2>1, <3>1
  (* Zero itself has become a success code. *)
  <2>3. CASE ReturnsSuccessCode(knowledge, r2, f, block)
    <3> DEFINE x == ReturnedValue(block)
               e == ConstraintConfidence(E, block, k)
    <3>1. IsConstantInt(x) /\ x.v = 0 /\ knowledge.smartSuccessCodeZero
      BY <2>3, SuccessCodeLasts DEF ReturnsSuccessCode
    <3>2. SignsOf(x) \subseteq {"zero"} /\ SignsOf(x) # {}
      BY <3>1 DEF SignsOf, IsConstantInt
    <3>3. block.holds = {} /\ ~ Holding(block) /\ Carrier(block) = x
      BY <3>2 DEF HoldsNothing, Holding, Carrier
    <3>4. ~ Ambiguous(block) /\ ~ Propagates(E, block)
      BY <3>1, <3>3 DEF Ambiguous, Propagates, IsConstantInt
    <3>5. ReturnConfidence(E, block, k) \in {Unknown, ConstantConfidence(x, e)}
      BY <3>3, <3>4 DEF ReturnConfidence
    <3>6. \A s \in Support(ReturnConfidence(E, block, k)) : s = "zero"
      <4> HIDE DEF x, e
      <4>1. \A s \in Support(ConstantConfidence(x, e)) : s = "zero"
        BY <3>2, ConstantsAreProper DEF ConstantConfidence
      <4>2. QED BY <3>5, <4>1, UnknownType
    <3>7. ~ MayDropZero(E, block)
      BY <3>3, <3>4 DEF MayDropZero
    <3>8. NoError(e) => Support(e) = {}
      BY ConstraintLasts
    <3>9. \/ c = e /\ NoError(e)
          \/ c \in {Emptyset, ReturnConfidence(E, block, k)}
      BY <3>7 DEF Contribution
    <3> HIDE DEF e, x
    <3>10. \A s \in Support(c) : s = "zero"
      BY <3>6, <3>8, <3>9, ConstantsAreProper
    <3>11. QED BY <2>1, <3>1, <3>10 DEF Lasting
  <2>4. QED BY <2>2, <2>3
<1>2. /\ low \in SUBSET OfLevels(Certain) /\ low # {}
      /\ high \in SUBSET OfLevels(Certain) /\ high # {}
  BY <1>types
<1>3. /\ \A c \in low : Proper(c)
      /\ \A s \in Lasting(knowledge), c \in low : s \in Support(c) => \E d \in high : s \in Support(d)
  <2> HIDE DEF calls, error, constraints
  <2>1. QED BY <1>calls, <1>error, <1>constraints, ConstantsAreProper
<1> HIDE DEF low, high
<1>4. Proper(JoinAll(low))
  BY <1>2, <1>3, JoinAllProper, LevelsExist
<1>5. /\ \A s : s \in Support(JoinAll(low)) <=> \E c \in low : s \in Support(c)
      /\ \A s : s \in Support(JoinAll(high)) <=> \E c \in high : s \in Support(c)
  BY <1>2, JoinAllSigns, LevelsExist
<1>6. QED BY <1>1, <1>3, <1>4, <1>5

(* The blocks of a function, as the program and the passes before give it. *)
IsBody(names, blocks) ==
  /\ blocks \in Seq({blocks[b] : b \in DOMAIN blocks})
  /\ \A b \in DOMAIN blocks : IsBlock(names, blocks[b]) /\ HoldsNothing(blocks[b])

LEMMA BlocksJoinSigns ==
  ASSUME NEW found \in SUBSET OfLevels(Certain), \A c \in found : Proper(c)
  PROVE  /\ Proper(BlocksJoin(found))
         /\ \A s : s \in Support(BlocksJoin(found)) <=> \E c \in found : s \in Support(c)
<1> DEFINE some == {Unknown} \cup {c \in found : ~ IsEmptyset(c)}
<1>1. CASE \A c \in found : IsEmptyset(c)
  BY <1>1, ConstantsAreProper DEF BlocksJoin, Proper
<1>2. CASE ~ \A c \in found : IsEmptyset(c)
  <2>1. BlocksJoin(found) = JoinAll(some)
    BY <1>2 DEF BlocksJoin
  <2>2. /\ some \in SUBSET OfLevels(Certain) /\ some # {} /\ \A c \in some : Proper(c)
        /\ \A s : (\E c \in some : s \in Support(c)) <=> \E c \in found : s \in Support(c)
    BY EmptysetStays, LevelsExist, ConstantsAreProper, UnknownType DEF Proper
  <2> HIDE DEF some
  <2>3. QED BY <2>1, <2>2, JoinAllSigns, JoinAllProper, LevelsExist
<1>3. QED BY <1>1, <1>2

(* The heart of the argument: what is inferred for a function grows with   *)
(* the specifications, and with the functions that return codes, but for a *)
(* zero that smart_success_code_zero drops.                                *)
THEOREM InferredLasts ==
  ASSUME NEW names, NEW E, NEW D, IsTable(E, names), IsTable(D, names), Exceeds(D, E, names),
         NEW knowledge, NEW r, NEW r2, r \subseteq r2, NEW f,
         NEW blocks, IsBody(names, blocks)
  PROVE  /\ Proper(InferredSpecification(knowledge, E, r, f, blocks))
         /\ \A s \in Lasting(knowledge) :
              s \in Support(InferredSpecification(knowledge, E, r, f, blocks))
                => s \in Support(InferredSpecification(knowledge, D, r2, f, blocks))
<1>body. /\ \A b \in DOMAIN blocks : IsBlock(names, blocks[b]) /\ HoldsNothing(blocks[b])
         /\ Len(blocks) \in Nat /\ DOMAIN blocks = 1 .. Len(blocks)
  BY DEF IsBody
<1> DEFINE before(A, t, i) == ReturningBefore(knowledge, A, t, f, blocks, i)
           at(A, t, i) == VisitBlock(knowledge, A, before(A, t, i), f, blocks[i])
           found(A, t) == {at(A, t, i) : i \in DOMAIN blocks}
<1>1. ASSUME NEW A, IsTable(A, names), NEW t
      PROVE  /\ found(A, t) \in SUBSET OfLevels(Certain)
             /\ \A c \in found(A, t) : Proper(c)
  <2>1. \A i \in DOMAIN blocks : at(A, t, i) \in OfLevels(Certain)
    <3> HIDE DEF before
    <3>1. QED BY <1>1, <1>body, VisitBlockType, LevelsExist DEF IsTable
  <2>2. \A i \in DOMAIN blocks : Proper(at(A, t, i))
    <3> HIDE DEF before
    <3>1. Exceeds(A, A, names)
      BY DEF Exceeds
    <3>2. QED BY <1>1, <1>body, <3>1, VisitBlockLasts
  <2> HIDE DEF at
  <2>3. QED BY <2>1, <2>2
<1>2. ASSUME NEW i \in 1 .. Len(blocks) + 1 PROVE before(E, r, i) \subseteq before(D, r2, i)
  <2>1. \A j \in 1 .. i - 1 : j \in DOMAIN blocks
    BY <1>body
  <2>2. \A j \in 1 .. i - 1 : AddsCodes(knowledge, E, r, f, blocks[j])
                                => AddsCodes(knowledge, D, r2, f, blocks[j])
    BY <1>body, <2>1, AddsCodesLasts
  <2>3. QED BY <2>2 DEF ReturningBefore
<1>3. \A i \in DOMAIN blocks : \A s \in Lasting(knowledge) :
        s \in Support(at(E, r, i)) => s \in Support(at(D, r2, i))
  <2> SUFFICES ASSUME NEW i \in DOMAIN blocks, NEW s \in Lasting(knowledge),
                      s \in Support(at(E, r, i))
               PROVE  s \in Support(at(D, r2, i))
    OBVIOUS
  <2>1. before(E, r, i) \subseteq before(D, r2, i)
    BY <1>body, <1>2
  <2> HIDE DEF before
  <2>2. QED BY <1>body, <2>1, VisitBlockLasts
<1> DEFINE low == found(E, r)
           high == found(D, r2)
           codes == before(E, r, Len(blocks) + 1)
           codes2 == before(D, r2, Len(blocks) + 1)
<1>4. /\ low \in SUBSET OfLevels(Certain) /\ \A c \in low : Proper(c)
      /\ high \in SUBSET OfLevels(Certain) /\ \A c \in high : Proper(c)
  BY <1>1
<1>5. \A s \in Lasting(knowledge), c \in low : s \in Support(c) => \E d \in high : s \in Support(d)
  <2> HIDE DEF at
  <2>1. QED BY <1>3
<1>6. /\ InferredSpecification(knowledge, E, r, f, blocks)
           = Dropping(knowledge, codes, f, blocks[1].file, BlocksJoin(low))
      /\ InferredSpecification(knowledge, D, r2, f, blocks)
           = Dropping(knowledge, codes2, f, blocks[1].file, BlocksJoin(high))
  BY DEF InferredSpecification
<1> HIDE DEF low, high, codes, codes2
<1>7. BlocksJoin(low) \in OfLevels(Certain) /\ BlocksJoin(high) \in OfLevels(Certain)
  BY <1>4, BlocksJoinType, LevelsExist
<1>8. /\ Proper(BlocksJoin(low))
      /\ \A s \in Lasting(knowledge) :
           s \in Support(BlocksJoin(low)) => s \in Support(BlocksJoin(high))
  BY <1>4, <1>5, BlocksJoinSigns
<1>9. QED BY <1>6, <1>7, <1>8, DroppingLasts, LevelsExist DEF Proper, IsEmptyset

(***************************************************************************)
(* No sign is left over from an earlier pass.                              *)
(***************************************************************************)
JustifiedInv ==
  /\ \A n \in Names : Proper(specs[n])
  /\ \A n \in Names : n \in DOMAIN prog.knowledge.initial \/ n \in Analysed \/ IsUnknown(specs[n])
  /\ \A n \in Analysed : \A s \in Lasting(prog.knowledge) :
       s \in Support(specs[n]) => s \in Support(Inferred(instance[n]))

LEMMA InitJustified == Init => JustifiedInv
<1> SUFFICES ASSUME Init PROVE JustifiedInv
  OBVIOUS
<1>1. instance = [n \in {} |-> ""]
  BY DEF Init
<1>2. Analysed = {}
  BY <1>1 DEF Analysed
<1>3. \A n \in DOMAIN prog.knowledge.initial : Proper(InitialSpecification(n))
  <2> SUFFICES ASSUME NEW n \in DOMAIN prog.knowledge.initial PROVE Proper(InitialSpecification(n))
    OBVIOUS
  <2>1. CASE IsBottom(prog.knowledge.initial[n])
    <3>1. Support(InitialSpecification(n)) = Gamma["bottom"]
      BY <2>1, ToConfidenceKeeps, ConfidenceBounds
         DEF InitialSpecification, IsBottom, SignLatticeElement
    <3>2. QED BY <3>1, GammaRows DEF Proper
  <2>2. CASE ~ IsBottom(prog.knowledge.initial[n])
    BY <2>2, ConfidenceBounds DEF InitialSpecification, ToConfidence, Proper, IsEmptyset
  <2>3. QED BY <2>1, <2>2
<1>4. \A n \in Names : specs[n] = IF n \in DOMAIN prog.knowledge.initial
                                THEN InitialSpecification(n) ELSE Unknown
  BY DEF Init
<1>5. IsUnknown(Unknown)
  BY UnknownType DEF IsUnknown, Unknown
<1>6. QED BY <1>2, <1>3, <1>4, <1>5, ConstantsAreProper DEF JustifiedInv

LEMMA InferredGrows ==
  ASSUME Typed, CertainInv, CertainInv', Grows, ConstantsHoldNothing(prog),
         \A n \in Names : Proper(specs[n]), \A n \in Names : Proper(specs'[n]),
         prog' = prog, returning \subseteq returning', NEW f \in Functions
  PROVE  /\ Proper(Inferred(f))
         /\ \A s \in Lasting(prog.knowledge) :
              s \in Support(Inferred(f)) => s \in Support(Inferred(f)')
<1>1. IsTable(specs, Names) /\ IsTable(specs', Names) /\ Exceeds(specs', specs, Names)
  BY DEF CertainInv, IsTable, Exceeds, Grows, Names
<1> DEFINE blocks == prog.blocks[f]
<1>2. IsBody(Names, blocks)
  BY ProgramFacts DEF IsProgram, Functions, Names, ConstantsHoldNothing, IsBody
<1>3. /\ Proper(InferredSpecification(prog.knowledge, specs, returning, prog.source[f], blocks))
      /\ \A s \in Lasting(prog.knowledge) :
           s \in Support(InferredSpecification(prog.knowledge, specs, returning, prog.source[f], blocks))
             => s \in Support(InferredSpecification(prog.knowledge, specs', returning',
                                                    prog.source[f], blocks))
  <2> HIDE DEF blocks
  <2>1. QED BY <1>1, <1>2, InferredLasts
<1>4. QED BY <1>3 DEF Inferred

LEMMA RunOnFunctionJustified ==
  ASSUME Typed, CertainInv, CertainInv', Grows, ConstantsHoldNothing(prog),
         JustifiedInv, RunOnFunction
  PROVE  JustifiedInv'
<1>function. PICK f \in Functions : f = Scc[position]
  BY SccFacts DEF Typed, TypeOK, RunOnFunction, Analysing
<1>name. PICK n \in Names : n = prog.source[f]
  BY ProgramFacts
<1>1. /\ prog' = prog /\ ~ IgnoreFunction(f)
      /\ instance' = With(instance, n, f) /\ IsFirstInstance(f)
      /\ prog.blocks[f] = << >> => UNCHANGED <<specs, returning>>
      /\ prog.blocks[f] # << >> => Update(f, Inferred(f))
      /\ returning \subseteq returning'
  BY <1>function, <1>name DEF RunOnFunction, InferredReturning, ReturningBefore
<1>2. /\ DOMAIN instance' = DOMAIN instance \cup {n}
      /\ \A m \in DOMAIN instance' : instance'[m] = IF m = n THEN f ELSE instance[m]
      /\ n \in DOMAIN instance => instance[n] = f
      /\ n \notin DOMAIN prog.knowledge.initial
  BY <1>1, <1>name DEF With, IsFirstInstance, IgnoreFunction
<1> DEFINE new == UpdatedSpecification(specs[n], Inferred(f), prog.range[f])
<1>3. /\ prog.blocks[f] # << >> => specs'[n] = new
      /\ \A m \in Names : m # n => specs'[m] = specs[m]
  BY <1>name, <1>1 DEF Update, UpdatedSpecification, Typed, TypeOK
<1>4. /\ specs[n] \in OfLevels(Certain) /\ Inferred(f) \in OfLevels(Certain)
      /\ prog.range[f] \in SignLatticeElement
  BY InferredCertain, ProgramFacts DEF CertainInv
<1>5. Proper(specs[n]) /\ Proper(Inferred(f))
  <2>1. IsBody(Names, prog.blocks[f])
    BY ProgramFacts DEF IsProgram, Functions, Names, ConstantsHoldNothing, IsBody
  <2>2. IsTable(specs, Names) /\ Exceeds(specs, specs, Names)
    BY DEF CertainInv, IsTable, Exceeds, JustifiedInv
  <2>3. Proper(InferredSpecification(prog.knowledge, specs, returning, prog.source[f], prog.blocks[f]))
    BY <2>1, <2>2, InferredLasts
  <2>4. QED BY <2>3 DEF Inferred, JustifiedInv
<1>6. Support(new) \subseteq Support(specs[n]) \cup Support(Inferred(f)) /\ Proper(new)
  BY <1>4, <1>5, UpdateAddsNothingElse
<1> HIDE DEF new
<1>7. \A m \in Names : Proper(specs'[m])
  <2>1. CASE prog.blocks[f] = << >>
    BY <1>1, <2>1 DEF JustifiedInv
  <2>2. CASE prog.blocks[f] # << >>
    BY <1>3, <1>6, <2>2 DEF JustifiedInv
  <2>3. QED BY <2>1, <2>2
<1>grows. ASSUME NEW g \in Functions
          PROVE  \A s \in Lasting(prog.knowledge) :
                   s \in Support(Inferred(g)) => s \in Support(Inferred(g)')
  BY <1>1, <1>7, InferredGrows DEF JustifiedInv
<1>8. \A m : m \in Analysed' <=> m \in Analysed \/ (m = n /\ prog.blocks[f] # << >>)
  BY <1>1, <1>2 DEF Analysed
<1>9. ASSUME NEW m \in Names
      PROVE  m \in DOMAIN prog.knowledge.initial \/ m \in Analysed' \/ IsUnknown(specs'[m])
  <2>1. CASE m = n /\ prog.blocks[f] # << >>
    BY <1>8, <2>1
  <2>2. CASE ~ (m = n /\ prog.blocks[f] # << >>)
    BY <1>1, <1>3, <1>8, <2>2 DEF JustifiedInv
  <2>3. QED BY <2>1, <2>2
<1>10. ASSUME NEW m \in Analysed', NEW s \in Lasting(prog.knowledge), s \in Support(specs'[m])
       PROVE  s \in Support(Inferred(instance[m])')
  <2>1. CASE m = n
    <3>1. prog.blocks[f] # << >> /\ instance'[m] = f
      BY <1>1, <1>2, <1>10, <2>1 DEF Analysed
    <3>2. s \in Support(specs[n]) \/ s \in Support(Inferred(f))
      BY <1>3, <1>6, <1>10, <2>1, <3>1
    <3>3. s \in Support(specs[n]) => s \in Support(Inferred(f))
      <4>1. CASE n \in Analysed
        BY <1>2, <1>10, <4>1 DEF JustifiedInv, Analysed
      <4>2. CASE n \notin Analysed
        BY <1>2, <4>2 DEF JustifiedInv, IsUnknown
      <4>3. QED BY <4>1, <4>2
    <3>4. s \in Support(Inferred(f)')
      BY <1>10, <1>grows, <3>2, <3>3
    <3>5. Inferred(instance[m])' = Inferred(f)'
      BY <3>1 DEF Inferred
    <3>6. QED BY <3>4, <3>5
  <2>2. CASE m # n
    <3>1. m \in Analysed /\ m \in Names /\ instance'[m] = instance[m] /\ instance[m] \in Functions
      BY <1>2, <1>8, <1>10, <2>2 DEF Analysed, Typed, TypeOK
    <3>2. PICK g \in Functions : g = instance[m]
      BY <3>1
    <3>3. s \in Support(Inferred(g))
      BY <1>3, <1>10, <2>2, <3>1, <3>2 DEF JustifiedInv
    <3>4. s \in Support(Inferred(g)')
      BY <1>10, <1>grows, <3>3
    <3>5. Inferred(instance[m])' = Inferred(g)'
      BY <3>1, <3>2 DEF Inferred
    <3>6. QED BY <3>4, <3>5
  <2>3. QED BY <2>1, <2>2
<1>11. QED
  BY <1>1, <1>7, <1>9, <1>10 DEF JustifiedInv, Names

LEMMA NextJustified ==
  ASSUME Typed, CertainInv, ConstantsHoldNothing(prog), JustifiedInv, [Next]_vars
  PROVE  JustifiedInv'
<1>1. CertainInv' /\ Grows
  BY NextCertain
<1>2. CASE RunOnFunction
  BY <1>1, <1>2, RunOnFunctionJustified
<1>3. CASE \E f \in pending : ExpandErrorSpecification(f)
  BY <1>3 DEF ExpandErrorSpecification, Analysing, Typed, TypeOK, CertainInv
<1>4. CASE UNCHANGED <<prog, specs, returning, instance>>
  <2>1. Analysed' = Analysed /\ Names' = Names
    BY <1>4 DEF Analysed, Names
  <2>2. \A m \in Analysed : Inferred(instance[m])' = Inferred(instance[m])
    BY <1>4 DEF Inferred
  <2>3. QED BY <1>4, <2>1, <2>2 DEF JustifiedInv
<1>5. QED
  BY <1>2, <1>3, <1>4 DEF Next, SkipFunction, Repeat, LeaveWithoutFinder, BeginExpansion,
                          EndExpansion, Finish, vars, tables

(* Lines 158-165 and 1195-1258 without an embedding: whatever the passes   *)
(* over a recursive component inferred on the way, the body of a function  *)
(* yields every sign of its specification under the final specifications,  *)
(* but for a zero that smart_success_code_zero drops later.                *)
THEOREM FinalSpecificationsAreJustified ==
  Spec /\ ~ prog.finder /\ ConstantsHoldNothing(prog) => []SpecificationsAreJustified
<1>1. Init /\ ~ prog.finder => CertainInv
  BY InitCertain
<1>2. IInv => Typed
  BY DEF IInv
<1>program. ConstantsHoldNothing(prog) /\ [Next]_vars => ConstantsHoldNothing(prog)'
  BY DEF Next, SkipFunction, RunOnFunction, Repeat, LeaveWithoutFinder, BeginExpansion,
         EndExpansion, Finish, ExpandErrorSpecification, vars
<1>3. Typed /\ CertainInv /\ [Next]_vars => CertainInv'
  BY NextCertain
<1>4. Typed /\ CertainInv /\ ConstantsHoldNothing(prog) /\ JustifiedInv /\ [Next]_vars
        => JustifiedInv'
  BY NextJustified
<1>5. JustifiedInv => SpecificationsAreJustified
  <2> SUFFICES ASSUME JustifiedInv, NEW n \in Analysed,
                      NEW s \in Support(specs[n]),
                      s \notin (IF prog.knowledge.smartSuccessCodeZero THEN {"zero"} ELSE {})
               PROVE  s \in Support(Inferred(instance[n]))
    BY DEF SpecificationsAreJustified
  <2>1. s \in Lasting(prog.knowledge)
    BY DEF Lasting, Support
  <2>2. QED BY <2>1 DEF JustifiedInv
<1>6. QED
  BY <1>1, <1>2, <1>program, <1>3, <1>4, <1>5, InitJustified, Invariance, PTL DEF Spec

(***************************************************************************)
(* Nothing that emptyset was inferred from needs to be looked at again     *)
(* until it changes.                                                       *)
(***************************************************************************)
LEMMA VisitCallStaysEmpty ==
  ASSUME NEW knowledge, NEW E, NEW D, NEW r, NEW r2, r \subseteq r2, NEW f, NEW file, NEW call,
         SameAt(E, D, call.callee), IsEmptyset(VisitCallInst(knowledge, E, r, f, file, call))
  PROVE  /\ IsEmptyset(VisitCallInst(knowledge, D, r2, f, file, call))
         /\ IsErrorOnlyFunctionCall(knowledge, call) \/ CalleeEmptyset(E, call)
<1> DEFINE value(t, x) == ErrorOnlyValue(knowledge, t, f, file, x)
           values(t) == {Emptyset} \cup {value(t, x) : x \in call.returned}
           low == values(r)
           high == values(r2)
<1>1. \A t, x : value(t, x) \in OfLevels(Certain)
  <2> SUFFICES ASSUME NEW t, NEW x PROVE value(t, x) \in OfLevels(Certain)
    OBVIOUS
  <2>1. CASE x.kind = "bool"
    BY <2>1, OnSignsType, LevelsExist DEF ErrorOnlyValue, Levels
  <2>2. CASE x.kind = "int"
    BY <2>2, EmptysetStays, LevelsExist, AddErrorValueType DEF ErrorOnlyValue
  <2>3. CASE x.kind = "null"
    BY <2>3, AddErrorValueType, LevelsExist DEF ErrorOnlyValue
  <2>4. CASE x.kind \notin {"bool", "int", "null"}
    BY <2>4, EmptysetStays, LevelsExist DEF ErrorOnlyValue
  <2>5. QED BY <2>1, <2>2, <2>3, <2>4
<1>2. /\ low \in SUBSET OfLevels(Certain) /\ low # {}
      /\ high \in SUBSET OfLevels(Certain) /\ high # {}
  BY <1>1, EmptysetStays, LevelsExist
<1>3. \A x : IsEmptyset(value(r, x)) => IsEmptyset(value(r2, x))
  <2> SUFFICES ASSUME NEW x, IsEmptyset(value(r, x)) PROVE IsEmptyset(value(r2, x))
    OBVIOUS
  <2>1. CASE x.kind = "int"
    BY <2>1, SuccessCodeLasts, ConstantsAreProper DEF ErrorOnlyValue
  <2>2. CASE x.kind # "int"
    BY <2>2 DEF ErrorOnlyValue
  <2>3. QED BY <2>1, <2>2
<1>4. (\A c \in low : IsEmptyset(c)) => \A c \in high : IsEmptyset(c)
  <2> HIDE DEF value
  <2>1. QED BY <1>3, ConstantsAreProper
<1>5. CASE IsErrorOnlyFunctionCall(knowledge, call)
  <2>1. /\ VisitCallInst(knowledge, E, r, f, file, call) = JoinAll(low)
        /\ VisitCallInst(knowledge, D, r2, f, file, call) = JoinAll(high)
    BY <1>5 DEF VisitCallInst
  <2> HIDE DEF low, high
  <2>2. QED BY <1>2, <1>4, <1>5, <2>1, JoinAllSigns, LevelsExist
<1>6. CASE ~ IsErrorOnlyFunctionCall(knowledge, call)
  <2>1. CalleeEmptyset(E, call) <=> CalleeEmptyset(D, call)
    BY DEF CalleeEmptyset, SameAt
  <2>2. CalleeEmptyset(E, call)
    BY <1>6, ConfidenceBounds DEF VisitCallInst, IsEmptyset, Unknown
  <2>3. QED BY <1>6, <2>1, <2>2 DEF VisitCallInst, IsEmptyset, Unknown
<1>7. QED BY <1>5, <1>6

LEMMA ContributionStaysEmpty ==
  ASSUME NEW names, NEW E, NEW D, IsTable(E, names), IsTable(D, names),
         NEW knowledge, NEW r, NEW r2, r \subseteq r2, NEW f,
         NEW block, IsBlock(names, block), ReturnsOne(block), Agree(E, D, block),
         NEW k \in Constraining(block), IsEmptyset(Contribution(knowledge, E, r, f, block, k))
  PROVE  IsEmptyset(Contribution(knowledge, D, r2, f, block, k))
<1> DEFINE e == ConstraintConfidence(E, block, k)
           found == ReturnConfidence(E, block, k)
           lowered(t) == IF MayDropZero(E, block)
                         THEN Dropping(knowledge, t, f, block.file, found) ELSE found
           result(t) == IF NoError(e) THEN e ELSE IF IsUnknown(lowered(t)) THEN Emptyset
                        ELSE lowered(t)
<1>1. E[k] = D[k]
  BY DEF Constraining, ReadNames, Agree, SameAt
<1>2. ConstraintConfidence(D, block, k) = e
  BY <1>1 DEF ConstraintConfidence
<1>3. /\ Propagates(E, block) <=> Propagates(D, block)
      /\ Propagates(E, block) => E[Carrier(block).callee] = D[Carrier(block).callee]
  <2>1. Propagates(E, block) => Carrier(block).callee # ""
    BY UnknownType DEF Propagates, SpecificationOf, IsUnknown, Unknown
  <2>2. QED BY <2>1, PropagatesReads DEF Agree, SameAt
<1>4. Propagates(E, block) =>
        \A inter : PropagatedConfidence(E, k, inter, Carrier(block).callee)
                     = PropagatedConfidence(D, k, inter, Carrier(block).callee)
  BY <1>3 DEF PropagatedConfidence
<1>5. ReturnConfidence(D, block, k) = found
  BY <1>2, <1>3, <1>4 DEF ReturnConfidence
<1>6. MayDropZero(E, block) <=> MayDropZero(D, block)
  BY <1>3 DEF MayDropZero
<1>7. /\ Contribution(knowledge, E, r, f, block, k) = result(r)
      /\ Contribution(knowledge, D, r2, f, block, k) = result(r2)
  BY <1>2, <1>5, <1>6 DEF Contribution
<1>8. found \in OfLevels(Certain)
  BY ReturnConfidenceType, LevelsExist DEF IsTable
<1>9. /\ lowered(r2).emptyset = lowered(r).emptyset
      /\ Support(lowered(r2)) \subseteq Support(lowered(r))
  <2> HIDE DEF found
  <2>1. \A t : /\ Dropping(knowledge, t, f, block.file, found).emptyset = found.emptyset
               /\ Support(Dropping(knowledge, t, f, block.file, found)) \subseteq Support(found)
    BY <1>8, DroppingLasts, LevelsExist
  <2>2. \/ Dropping(knowledge, r2, f, block.file, found) = Dropping(knowledge, r, f, block.file, found)
        \/ Dropping(knowledge, r, f, block.file, found) = found
    BY DEF Dropping, ShouldSmartDropZero
  <2>3. QED BY <2>1, <2>2
<1> DEFINE first == lowered(r)
           second == lowered(r2)
<1>10. /\ result(r) = IF NoError(e) THEN e ELSE IF IsUnknown(first) THEN Emptyset ELSE first
       /\ result(r2) = IF NoError(e) THEN e ELSE IF IsUnknown(second) THEN Emptyset ELSE second
  OBVIOUS
<1>11. IsUnknown(first) => IsUnknown(second)
  BY <1>9 DEF IsUnknown
<1>12. IsEmptyset(first) <=> IsEmptyset(second)
  BY <1>9 DEF IsEmptyset
<1> HIDE DEF first, second, e
<1>13. IsEmptyset(IF NoError(e) THEN e ELSE IF IsUnknown(first) THEN Emptyset ELSE first)
  BY <1>7, <1>10
<1>14. IsEmptyset(IF NoError(e) THEN e ELSE IF IsUnknown(second) THEN Emptyset ELSE second)
  BY <1>11, <1>12, <1>13, ConstantsAreProper
<1>15. QED BY <1>7, <1>10, <1>14

LEMMA AddsCodesAgrees ==
  ASSUME NEW knowledge, NEW E, NEW D, NEW r, NEW r2, r \subseteq r2, NEW f,
         NEW block, Agree(E, D, block), AddsCodes(knowledge, E, r, f, block)
  PROVE  AddsCodes(knowledge, D, r2, f, block)
<1>1. CASE ReturnsSuccessCode(knowledge, r, f, block)
  BY <1>1, SuccessCodeLasts DEF ReturnsSuccessCode, AddsCodes
<1>2. CASE /\ ReturnsOne(block) /\ Propagates(E, block)
           /\ Carrier(block).callee \in r
           /\ \E k \in Constraining(block) : ~ NoError(ConstraintConfidence(E, block, k))
  <2>1. PICK k \in Constraining(block) : ~ NoError(ConstraintConfidence(E, block, k))
    BY <1>2
  <2>2. E[k] = D[k]
    BY DEF Constraining, ReadNames, Agree, SameAt
  <2>3. ~ NoError(ConstraintConfidence(D, block, k))
    BY <2>1, <2>2 DEF ConstraintConfidence
  <2>4. Propagates(D, block)
    BY <1>2, PropagatesReads
  <2>5. QED BY <1>2, <2>3, <2>4 DEF AddsCodes
<1>3. QED BY <1>1, <1>2 DEF AddsCodes

LEMMA VisitBlockStaysEmpty ==
  ASSUME NEW names, NEW E, NEW D, IsTable(E, names), IsTable(D, names),
         NEW knowledge, NEW r, NEW r2, r \subseteq r2, NEW f,
         NEW block, IsBlock(names, block), Agree(E, D, block),
         IsEmptyset(VisitBlock(knowledge, E, r, f, block))
  PROVE  /\ IsEmptyset(VisitBlock(knowledge, D, r2, f, block))
         /\ \A i \in DOMAIN block.calls :
              IsErrorOnlyFunctionCall(knowledge, block.calls[i]) \/ CalleeEmptyset(E, block.calls[i])
<1> DEFINE codes(A, t) == IF AddsCodes(knowledge, A, t, f, block) THEN t \cup {f} ELSE t
           calls(A, t) == {VisitCallInst(knowledge, A, t, f, block.file, block.calls[i]) :
                             i \in DOMAIN block.calls}
           error == IF ReturnsErrorCode(knowledge, block)
                    THEN {AddErrorValue(knowledge, f, ReturnedValue(block))} ELSE {}
           constraints(A, t) ==
             IF ~ ReturnsOne(block) \/ ReturnsSuccessCode(knowledge, t, f, block) THEN {}
             ELSE {Contribution(knowledge, A, codes(A, t), f, block, k) : k \in Constraining(block)}
           all(A, t) == {Emptyset} \cup calls(A, t) \cup error \cup constraints(A, t)
           low == all(E, r)
           high == all(D, r2)
<1>1. /\ VisitBlock(knowledge, E, r, f, block) = JoinAll(low)
      /\ VisitBlock(knowledge, D, r2, f, block) = JoinAll(high)
  BY DEF VisitBlock
<1>types. ASSUME NEW A, IsTable(A, names), NEW t
          PROVE  all(A, t) \in SUBSET OfLevels(Certain) /\ all(A, t) # {}
  <2>1. calls(A, t) \subseteq OfLevels(Certain)
    BY VisitCallInstType, LevelsExist
  <2>2. error \subseteq OfLevels(Certain)
    BY AddErrorValueType, LevelsExist
  <2>3. constraints(A, t) \subseteq OfLevels(Certain)
    <3> HIDE DEF codes
    <3>1. QED BY <1>types, ContributionType, LevelsExist DEF IsTable
  <2> HIDE DEF calls, error, constraints
  <2>4. QED BY <2>1, <2>2, <2>3, EmptysetStays, LevelsExist
<1>2. /\ low \in SUBSET OfLevels(Certain) /\ low # {}
      /\ high \in SUBSET OfLevels(Certain) /\ high # {}
  BY <1>types
<1>3. \A c \in low : IsEmptyset(c)
  <2> HIDE DEF low
  <2>1. QED BY <1>1, <1>2, JoinAllSigns, LevelsExist
<1>empty. /\ \A c \in calls(E, r) : IsEmptyset(c)
          /\ \A c \in error : IsEmptyset(c)
          /\ \A c \in constraints(E, r) : IsEmptyset(c)
  <2> HIDE DEF calls, error, constraints
  <2>1. QED BY <1>3
<1>calls. \A i \in DOMAIN block.calls :
            /\ IsEmptyset(VisitCallInst(knowledge, D, r2, f, block.file, block.calls[i]))
            /\ IsErrorOnlyFunctionCall(knowledge, block.calls[i]) \/ CalleeEmptyset(E, block.calls[i])
  <2> SUFFICES ASSUME NEW i \in DOMAIN block.calls
               PROVE  /\ IsEmptyset(VisitCallInst(knowledge, D, r2, f, block.file, block.calls[i]))
                      /\ \/ IsErrorOnlyFunctionCall(knowledge, block.calls[i])
                         \/ CalleeEmptyset(E, block.calls[i])
    OBVIOUS
  <2>1. IsEmptyset(VisitCallInst(knowledge, E, r, f, block.file, block.calls[i]))
    BY <1>empty
  <2>2. SameAt(E, D, block.calls[i].callee)
    BY DEF Agree, ReadNames
  <2>3. QED BY <2>1, <2>2, VisitCallStaysEmpty
<1>codes. codes(E, r) \subseteq codes(D, r2)
  BY AddsCodesAgrees
<1>constraints. \A c \in constraints(D, r2) : IsEmptyset(c)
  <2> SUFFICES ASSUME ReturnsOne(block), ~ ReturnsSuccessCode(knowledge, r2, f, block),
                      NEW k \in Constraining(block)
               PROVE  IsEmptyset(Contribution(knowledge, D, codes(D, r2), f, block, k))
    OBVIOUS
  <2>1. ~ ReturnsSuccessCode(knowledge, r, f, block)
    BY SuccessCodeLasts DEF ReturnsSuccessCode
  <2>2. IsEmptyset(Contribution(knowledge, E, codes(E, r), f, block, k))
    BY <1>empty, <2>1
  <2> HIDE DEF codes
  <2>3. QED BY <1>codes, <2>2, ContributionStaysEmpty
<1>4. \A c \in high : IsEmptyset(c)
  <2>1. \A c \in calls(D, r2) : IsEmptyset(c)
    BY <1>calls
  <2> HIDE DEF calls, error, constraints
  <2>2. QED BY <1>empty, <1>constraints, <2>1, ConstantsAreProper
<1> HIDE DEF high
<1>5. QED BY <1>1, <1>2, <1>4, <1>calls, JoinAllSigns, LevelsExist

LEMMA BlocksJoinEmpty ==
  ASSUME NEW found \in SUBSET OfLevels(Certain)
  PROVE  IsEmptyset(BlocksJoin(found)) <=> \A c \in found : IsEmptyset(c)
<1> DEFINE some == {Unknown} \cup {c \in found : ~ IsEmptyset(c)}
<1>1. some \in SUBSET OfLevels(Certain) /\ some # {} /\ Unknown \in some
  BY EmptysetStays, LevelsExist
<1>2. ~ IsEmptyset(Unknown)
  BY ConfidenceBounds DEF IsEmptyset, Unknown
<1>3. BlocksJoin(found) = IF \A c \in found : IsEmptyset(c) THEN Emptyset ELSE JoinAll(some)
  BY DEF BlocksJoin
<1> HIDE DEF some
<1>4. QED BY <1>1, <1>2, <1>3, JoinAllSigns, ConstantsAreProper, LevelsExist

(* Emptyset is inferred where every call but error-only ones is of an      *)
(* emptyset function, and stays as long as nothing that is read changes.   *)
THEOREM InferredStaysEmpty ==
  ASSUME NEW names, NEW E, NEW D, IsTable(E, names), IsTable(D, names),
         NEW knowledge, NEW r, NEW r2, r \subseteq r2, NEW f,
         NEW blocks, IsBody(names, blocks), \A b \in DOMAIN blocks : Agree(E, D, blocks[b]),
         IsEmptyset(InferredSpecification(knowledge, E, r, f, blocks))
  PROVE  /\ IsEmptyset(InferredSpecification(knowledge, D, r2, f, blocks))
         /\ \A b \in DOMAIN blocks : \A i \in DOMAIN blocks[b].calls :
              \/ IsErrorOnlyFunctionCall(knowledge, blocks[b].calls[i])
              \/ CalleeEmptyset(E, blocks[b].calls[i])
<1>body. /\ \A b \in DOMAIN blocks : IsBlock(names, blocks[b])
         /\ Len(blocks) \in Nat /\ DOMAIN blocks = 1 .. Len(blocks)
  BY DEF IsBody
<1> DEFINE before(A, t, i) == ReturningBefore(knowledge, A, t, f, blocks, i)
           at(A, t, i) == VisitBlock(knowledge, A, before(A, t, i), f, blocks[i])
           found(A, t) == {at(A, t, i) : i \in DOMAIN blocks}
           low == found(E, r)
           high == found(D, r2)
           codes == before(E, r, Len(blocks) + 1)
           codes2 == before(D, r2, Len(blocks) + 1)
<1>1. ASSUME NEW A, IsTable(A, names), NEW t
      PROVE  found(A, t) \in SUBSET OfLevels(Certain)
  <2>1. \A i \in DOMAIN blocks : at(A, t, i) \in OfLevels(Certain)
    <3> HIDE DEF before
    <3>1. QED BY <1>1, <1>body, VisitBlockType, LevelsExist DEF IsTable
  <2> HIDE DEF at
  <2>2. QED BY <2>1
<1>2. low \in SUBSET OfLevels(Certain) /\ high \in SUBSET OfLevels(Certain)
  BY <1>1
<1>3. /\ InferredSpecification(knowledge, E, r, f, blocks)
           = Dropping(knowledge, codes, f, blocks[1].file, BlocksJoin(low))
      /\ InferredSpecification(knowledge, D, r2, f, blocks)
           = Dropping(knowledge, codes2, f, blocks[1].file, BlocksJoin(high))
  BY DEF InferredSpecification
<1>4. /\ IsEmptyset(InferredSpecification(knowledge, E, r, f, blocks)) <=> \A c \in low : IsEmptyset(c)
      /\ IsEmptyset(InferredSpecification(knowledge, D, r2, f, blocks)) <=> \A c \in high : IsEmptyset(c)
  <2> HIDE DEF low, high, codes, codes2
  <2>1. BlocksJoin(low) \in OfLevels(Certain) /\ BlocksJoin(high) \in OfLevels(Certain)
    BY <1>2, BlocksJoinType, LevelsExist
  <2>2. QED BY <1>2, <1>3, <2>1, BlocksJoinEmpty, DroppingLasts, LevelsExist DEF IsEmptyset
<1>5. ASSUME NEW i \in DOMAIN blocks
      PROVE  /\ IsEmptyset(at(D, r2, i))
             /\ \A j \in DOMAIN blocks[i].calls :
                  \/ IsErrorOnlyFunctionCall(knowledge, blocks[i].calls[j])
                  \/ CalleeEmptyset(E, blocks[i].calls[j])
  <2>1. IsEmptyset(at(E, r, i))
    <3> HIDE DEF at
    <3>1. QED BY <1>4
  <2>2. before(E, r, i) \subseteq before(D, r2, i)
    <3>1. \A j \in 1 .. i - 1 : j \in DOMAIN blocks
      BY <1>body
    <3>2. \A j \in 1 .. i - 1 : AddsCodes(knowledge, E, r, f, blocks[j])
                                  => AddsCodes(knowledge, D, r2, f, blocks[j])
      BY <3>1, AddsCodesAgrees
    <3>3. QED BY <3>2 DEF ReturningBefore
  <2> HIDE DEF before
  <2>3. QED BY <1>body, <2>1, <2>2, VisitBlockStaysEmpty
<1>6. \A c \in high : IsEmptyset(c)
  <2> HIDE DEF at
  <2>1. QED BY <1>5
<1>7. QED BY <1>4, <1>5, <1>6

(***************************************************************************)
(* Emptyset is reported only where it is inferred: the specifications that *)
(* a function reported emptyset reads are final from then on.              *)
(***************************************************************************)
PassesEmptysetUp(p) ==
  ConstantsHoldNothing(p) /\ CallsWhatItReads(p) /\ ErrorOnlyIsExternal(p)

EmptyInv == \A n \in Analysed : IsEmptyset(specs[n]) => IsEmptyset(Inferred(instance[n]))

LEMMA InitEmpty == Init => EmptyInv
<1> SUFFICES ASSUME Init PROVE EmptyInv
  OBVIOUS
<1>1. instance = [n \in {} |-> ""]
  BY DEF Init
<1>2. QED BY <1>1 DEF EmptyInv, Analysed

LEMMA Tables ==
  ASSUME Typed, CertainInv, JustifiedInv, ConstantsHoldNothing(prog)
  PROVE  /\ IsTable(specs, Names)
         /\ \A g \in Functions : IsBody(Names, prog.blocks[g])
BY ProgramFacts
   DEF CertainInv, JustifiedInv, IsTable, IsProgram, Functions, Names, ConstantsHoldNothing, IsBody

(* All that a function reported emptyset reads is emptyset itself or of    *)
(* functions without a body.                                               *)
LEMMA EmptyReads ==
  ASSUME Typed, CertainInv, JustifiedInv, PassesEmptysetUp(prog),
         NEW g \in Functions, IsEmptyset(Inferred(g)),
         NEW b \in DOMAIN prog.blocks[g], NEW m \in ReadNames(prog.blocks[g][b]) \ {""},
         NEW f \in Functions, prog.source[f] = m, prog.blocks[f] # << >>
  PROVE  IsEmptyset(specs[m])
<1>1. PICK c \in DOMAIN prog.blocks[g] : \E i \in DOMAIN prog.blocks[g][c].calls :
        prog.blocks[g][c].calls[i].callee = m
  BY DEF PassesEmptysetUp, CallsWhatItReads, Functions
<1>2. PICK i \in DOMAIN prog.blocks[g][c].calls : prog.blocks[g][c].calls[i].callee = m
  BY <1>1
<1> DEFINE call == prog.blocks[g][c].calls[i]
<1>3. IsTable(specs, Names) /\ IsBody(Names, prog.blocks[g])
  BY Tables DEF PassesEmptysetUp
<1>4. \A a \in DOMAIN prog.blocks[g] : Agree(specs, specs, prog.blocks[g][a])
  BY DEF Agree, SameAt
<1>5. IsEmptyset(InferredSpecification(prog.knowledge, specs, returning, prog.source[g],
                                       prog.blocks[g]))
  BY DEF Inferred
<1>6. IsErrorOnlyFunctionCall(prog.knowledge, call) \/ CalleeEmptyset(specs, call)
  BY <1>3, <1>4, <1>5, InferredStaysEmpty
<1>7. ~ IsErrorOnlyFunctionCall(prog.knowledge, call)
  BY <1>2 DEF PassesEmptysetUp, ErrorOnlyIsExternal, IsErrorOnlyFunctionCall,
                 IsErrorOnlyFunction, Functions
<1>8. QED BY <1>2, <1>6, <1>7 DEF CalleeEmptyset

LEMMA RunOnFunctionEmpty ==
  ASSUME Typed, CertainInv, CertainInv', JustifiedInv, JustifiedInv', PassesEmptysetUp(prog),
         EmptyInv, RunOnFunction
  PROVE  EmptyInv'
<1>function. PICK f \in Functions : f = Scc[position]
  BY SccFacts DEF Typed, TypeOK, RunOnFunction, Analysing
<1>name. PICK n \in Names : n = prog.source[f]
  BY ProgramFacts
<1>1. /\ prog' = prog /\ ~ IgnoreFunction(f)
      /\ instance' = With(instance, n, f) /\ IsFirstInstance(f)
      /\ prog.blocks[f] = << >> => UNCHANGED <<specs, returning>>
      /\ prog.blocks[f] # << >> => Update(f, Inferred(f))
      /\ returning \subseteq returning'
  BY <1>function, <1>name DEF RunOnFunction, InferredReturning, ReturningBefore
<1>2. /\ DOMAIN instance' = DOMAIN instance \cup {n}
      /\ \A m \in DOMAIN instance' : instance'[m] = IF m = n THEN f ELSE instance[m]
      /\ n \in DOMAIN instance => instance[n] = f
      /\ n \notin DOMAIN prog.knowledge.initial
  BY <1>1, <1>name DEF With, IsFirstInstance, IgnoreFunction
<1> DEFINE new == UpdatedSpecification(specs[n], Inferred(f), prog.range[f])
<1>3. /\ prog.blocks[f] # << >> => specs'[n] = new
      /\ \A m \in Names : m # n => specs'[m] = specs[m]
  BY <1>name, <1>1 DEF Update, UpdatedSpecification, Typed, TypeOK
<1>4. /\ specs[n] \in OfLevels(Certain) /\ Inferred(f) \in OfLevels(Certain)
      /\ prog.range[f] \in SignLatticeElement
  BY InferredCertain, ProgramFacts DEF CertainInv
<1>table. /\ IsTable(specs, Names) /\ IsTable(specs', Names)
          /\ \A g \in Functions : IsBody(Names, prog.blocks[g])
          /\ \A g \in Functions : \A b \in DOMAIN prog.blocks[g] : IsBlock(Names, prog.blocks[g][b])
  <2>1. IsTable(specs, Names) /\ \A g \in Functions : IsBody(Names, prog.blocks[g])
    BY Tables DEF PassesEmptysetUp
  <2>2. IsTable(specs', Names)
    BY <1>1 DEF CertainInv, JustifiedInv, IsTable, Names
  <2>3. QED BY <2>1, <2>2 DEF IsBody
<1>5. Proper(specs[n]) /\ Proper(Inferred(f))
  <2>1. Exceeds(specs, specs, Names)
    BY DEF Exceeds
  <2>2. Proper(InferredSpecification(prog.knowledge, specs, returning, prog.source[f], prog.blocks[f]))
    BY <1>table, <2>1, InferredLasts
  <2>3. QED BY <2>2 DEF Inferred, JustifiedInv
(* Emptyset of the function that runs was inferred before, and stays.      *)
<1>6. IsEmptyset(specs[n]) =>
        n \in Analysed /\ prog.blocks[f] # << >> /\ IsEmptyset(Inferred(f)) /\ specs'[n] = specs[n]
  <2> SUFFICES ASSUME IsEmptyset(specs[n])
               PROVE  /\ n \in Analysed /\ prog.blocks[f] # << >>
                      /\ IsEmptyset(Inferred(f)) /\ specs'[n] = specs[n]
    OBVIOUS
  <2>1. n \in Analysed
    BY <1>2, ConfidenceBounds DEF JustifiedInv, IsUnknown, IsEmptyset
  <2>2. instance[n] = f /\ prog.blocks[f] # << >>
    BY <1>2, <2>1 DEF Analysed
  <2>3. IsEmptyset(Inferred(f))
    <3>1. IsEmptyset(Inferred(instance[n]))
      BY <2>1 DEF EmptyInv
    <3>2. QED BY <2>2, <3>1
  <2>4. new = specs[n]
    BY <1>4, <1>5, <2>3, UpdateKeepsEmptyset
  <2>5. QED BY <1>3, <2>1, <2>2, <2>3, <2>4
<1>7. IsEmptyset(new) => IsEmptyset(specs[n]) \/ IsEmptyset(Inferred(f))
  BY <1>4, UpdateAddsNothingElse
<1> HIDE DEF new
(* What emptyset was inferred from does not change. *)
<1>stays. ASSUME NEW g \in Functions, IsEmptyset(Inferred(g))
          PROVE  IsEmptyset(Inferred(g)')
  <2>1. ASSUME NEW b \in DOMAIN prog.blocks[g], NEW m \in ReadNames(prog.blocks[g][b]) \ {""}
        PROVE  specs'[m] = specs[m]
    <3>1. m \in Names
      BY <1>table, <2>1 DEF IsBlock, ReadNames
    <3>2. CASE m # n
      BY <1>3, <3>1, <3>2
    <3>3. CASE m = n /\ prog.blocks[f] = << >>
      BY <1>1, <3>3
    <3>4. CASE m = n /\ prog.blocks[f] # << >>
      <4>1. IsEmptyset(specs[m])
        BY <1>name, <1>stays, <2>1, <3>4, EmptyReads
      <4>2. QED BY <1>6, <3>4, <4>1
    <3>5. QED BY <3>2, <3>3, <3>4
  <2>2. \A b \in DOMAIN prog.blocks[g] : Agree(specs, specs', prog.blocks[g][b])
    BY <2>1 DEF Agree, SameAt
  <2>3. IsEmptyset(InferredSpecification(prog.knowledge, specs, returning, prog.source[g],
                                         prog.blocks[g]))
    BY <1>stays DEF Inferred
  <2> DEFINE body == prog.blocks[g]
             own == prog.source[g]
  <2>4. IsBody(Names, body) /\ \A b \in DOMAIN body : Agree(specs, specs', body[b])
    BY <1>table, <2>2
  <2>5. IsEmptyset(InferredSpecification(prog.knowledge, specs, returning, own, body))
    BY <2>3
  <2> HIDE DEF body, own
  <2>6. IsEmptyset(InferredSpecification(prog.knowledge, specs', returning', own, body))
    BY <1>1, <1>table, <2>4, <2>5, InferredStaysEmpty
  <2>7. QED BY <1>1, <2>6 DEF Inferred, body, own
<1>8. ASSUME NEW m \in Analysed', IsEmptyset(specs'[m])
      PROVE  IsEmptyset(Inferred(instance[m])')
  <2>1. CASE m = n
    <3>1. prog.blocks[f] # << >> /\ instance'[m] = f
      BY <1>1, <1>2, <1>8, <2>1 DEF Analysed
    <3>2. IsEmptyset(Inferred(f))
      BY <1>3, <1>6, <1>7, <1>8, <2>1, <3>1
    <3>3. IsEmptyset(Inferred(f)')
      BY <1>stays, <3>2
    <3>4. Inferred(instance[m])' = Inferred(f)'
      BY <3>1 DEF Inferred
    <3>5. QED BY <3>3, <3>4
  <2>2. CASE m # n
    <3>1. m \in Analysed /\ m \in Names /\ instance'[m] = instance[m] /\ instance[m] \in Functions
      BY <1>1, <1>2, <1>8, <2>2 DEF Analysed, Typed, TypeOK
    <3>2. PICK g \in Functions : g = instance[m]
      BY <3>1
    <3>3. IsEmptyset(Inferred(g))
      BY <1>3, <1>8, <2>2, <3>1, <3>2 DEF EmptyInv
    <3>4. IsEmptyset(Inferred(g)')
      BY <1>stays, <3>3
    <3>5. Inferred(instance[m])' = Inferred(g)'
      BY <3>1, <3>2 DEF Inferred
    <3>6. QED BY <3>4, <3>5
  <2>3. QED BY <2>1, <2>2
<1>9. QED BY <1>8 DEF EmptyInv

LEMMA NextEmpty ==
  ASSUME Typed, CertainInv, CertainInv', JustifiedInv, JustifiedInv', PassesEmptysetUp(prog),
         EmptyInv, [Next]_vars
  PROVE  EmptyInv'
<1>1. CASE RunOnFunction
  BY <1>1, RunOnFunctionEmpty
<1>2. CASE \E f \in pending : ExpandErrorSpecification(f)
  BY <1>2 DEF ExpandErrorSpecification, Analysing, Typed, TypeOK, CertainInv
<1>3. CASE UNCHANGED <<prog, specs, returning, instance>>
  <2>1. Analysed' = Analysed
    BY <1>3 DEF Analysed
  <2>2. \A m \in Analysed : Inferred(instance[m])' = Inferred(instance[m])
    BY <1>3 DEF Inferred
  <2>3. QED BY <1>3, <2>1, <2>2 DEF EmptyInv
<1>4. QED
  BY <1>1, <1>2, <1>3 DEF Next, SkipFunction, Repeat, LeaveWithoutFinder, BeginExpansion,
                          EndExpansion, Finish, vars, tables

(* Lines 483-504 and 980-1001 without an embedding: a function reported    *)
(* to return no error claims no sign, and calls only functions so reported *)
(* and error-only ones, whatever the recursion between them.               *)
THEOREM EmptysetStaysTransitive ==
  Spec /\ ~ prog.finder /\ PassesEmptysetUp(prog) => []EmptysetIsTransitive
<1>1. Init /\ ~ prog.finder => CertainInv
  BY InitCertain
<1>2. IInv => Typed
  BY DEF IInv
<1>program. PassesEmptysetUp(prog) /\ [Next]_vars => PassesEmptysetUp(prog)'
  BY DEF Next, SkipFunction, RunOnFunction, Repeat, LeaveWithoutFinder, BeginExpansion,
         EndExpansion, Finish, ExpandErrorSpecification, vars
<1>3. Typed /\ CertainInv /\ [Next]_vars => CertainInv'
  BY NextCertain
<1>4. Typed /\ CertainInv /\ PassesEmptysetUp(prog) /\ JustifiedInv /\ [Next]_vars
        => JustifiedInv'
  BY NextJustified DEF PassesEmptysetUp
<1>5. (/\ Typed /\ CertainInv /\ CertainInv' /\ JustifiedInv /\ JustifiedInv'
       /\ PassesEmptysetUp(prog) /\ EmptyInv /\ [Next]_vars)
        => EmptyInv'
  BY NextEmpty
<1>6. Typed /\ CertainInv /\ JustifiedInv /\ PassesEmptysetUp(prog) /\ EmptyInv
        => EmptysetIsTransitive
  <2> SUFFICES ASSUME Typed, CertainInv, JustifiedInv, PassesEmptysetUp(prog), EmptyInv,
                      NEW n \in Analysed, IsEmptyset(specs[n])
               PROVE  /\ Support(specs[n]) = {}
                      /\ \A call \in Calls(n) : \/ IsErrorOnlyFunctionCall(prog.knowledge, call)
                                                \/ CalleeEmptyset(specs, call)
    BY DEF EmptysetIsTransitive
  <2>1. n \in Names /\ instance[n] \in Functions
    BY DEF Analysed, Typed, TypeOK
  <2>2. PICK g \in Functions : g = instance[n]
    BY <2>1
  <2>3. IsTable(specs, Names) /\ IsBody(Names, prog.blocks[g])
    BY Tables DEF PassesEmptysetUp
  <2>4. IsEmptyset(InferredSpecification(prog.knowledge, specs, returning, prog.source[g],
                                         prog.blocks[g]))
    BY <2>2 DEF EmptyInv, Inferred
  <2>5. \A b \in DOMAIN prog.blocks[g] : Agree(specs, specs, prog.blocks[g][b])
    BY DEF Agree, SameAt
  <2>6. \A b \in DOMAIN prog.blocks[g] : \A i \in DOMAIN prog.blocks[g][b].calls :
          \/ IsErrorOnlyFunctionCall(prog.knowledge, prog.blocks[g][b].calls[i])
          \/ CalleeEmptyset(specs, prog.blocks[g][b].calls[i])
    BY <2>3, <2>4, <2>5, InferredStaysEmpty
  <2>7. QED BY <2>1, <2>2, <2>6 DEF Calls, Body, JustifiedInv, Proper
<1>7. QED
  BY <1>1, <1>2, <1>program, <1>3, <1>4, <1>5, <1>6, InitJustified, InitEmpty, Invariance, PTL
     DEF Spec
=============================================================================
