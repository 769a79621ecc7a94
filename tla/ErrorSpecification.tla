------------------------- MODULE ErrorSpecification -------------------------
(***************************************************************************)
(* The transfer functions of eesi/src/error_blocks_pass.cc: what visiting  *)
(* a call, a basic block or a function infers, given the specifications    *)
(* inferred so far.                                                        *)
(*                                                                         *)
(* The passes ErrorBlocksPass requires are inputs, attached to the program *)
(* point they describe:                                                    *)
(*   block.returned     ReturnedValuesPass at the block's first            *)
(*                      instruction, call.returned at a call               *)
(*   block.constraints  ReturnConstraintsPass after the block: function    *)
(*                      name -> sign lattice element                       *)
(*   block.holds        ReturnPropagationPass after the block: the values  *)
(*                      the returned value may hold, {} when it has none   *)
(* A source file is the set of submodule names its path contains.          *)
(***************************************************************************)
EXTENDS SpecificationUpdate, FiniteSets

(* An llvm::Value as the pass tells values apart.  A 1-bit true is the     *)
(* integer -1 to getSExtValue.                                             *)
Bool(b)    == [kind |-> "bool",   v |-> IF b THEN -1 ELSE 0, callee |-> ""]
IntOf(n)   == [kind |-> "int",    v |-> n, callee |-> ""]
Null       == [kind |-> "null",   v |-> 0, callee |-> ""]
String     == [kind |-> "string", v |-> 0, callee |-> ""]
CallOf(g)  == [kind |-> "call",   v |-> 0, callee |-> g]
OtherValue == [kind |-> "other",  v |-> 0, callee |-> ""]

IsConstantInt(x) == x.kind \in {"bool", "int"}

(* A block's calls and values name functions of the module, or none ("").  *)
IsBlock(names, block) ==
  /\ \A x \in block.returned \cup block.holds : x.callee \in names \cup {""}
  /\ \A i \in DOMAIN block.calls : block.calls[i].callee \in names \cup {""}
  /\ block.constraints \in [DOMAIN block.constraints -> SignLatticeElement]
  /\ DOMAIN block.constraints \subseteq names \cup {""}

(***************************************************************************)
(* Domain knowledge: knowledge.errorCodes and .successCodes map values to  *)
(* sets of submodules, .errorOnly is a set of [callee, args] definitions.  *)
(***************************************************************************)
HasCode(codes, value, file) ==
  /\ value \in DOMAIN codes
  /\ codes[value] = {} \/ codes[value] \cap file # {}

(* returning is functions_returning_domain_knowledge_codes_. *)
ShouldSmartDropZero(knowledge, returning, f, file) ==
  /\ knowledge.smartSuccessCodeZero
  /\ HasCode(knowledge.successCodes, 0, file)
  /\ f \in returning

IsSuccessCode(knowledge, returning, f, value, file) ==
  IF knowledge.smartSuccessCodeZero /\ value = 0
  THEN ShouldSmartDropZero(knowledge, returning, f, file)
  ELSE HasCode(knowledge.successCodes, value, file)

(* An int is 32 bits wide and is compared zero-extended with the required  *)
(* value's 64 bits, so a negative required value matches no int.           *)
ValuesAreEqual(actual, required) ==
  CASE required.kind = "int"    -> \/ actual.kind = "null" /\ required.v = 0
                                   \/ actual.kind = "bool" /\ required.v = - actual.v
                                   \/ /\ actual.kind = "int" /\ required.v = actual.v
                                      /\ required.v >= 0
    [] required.kind = "string" -> actual = required
    [] OTHER                    -> FALSE

IsErrorOnlyFunctionCall(knowledge, call) ==
  \E def \in knowledge.errorOnly :
    /\ def.callee = call.callee
    /\ \A i \in DOMAIN def.args : ValuesAreEqual(call.args[i], def.args[i])

IsErrorOnlyFunction(knowledge, f) == \E def \in knowledge.errorOnly : def.callee = f

(***************************************************************************)
(* Confidences given to a returned constant.                               *)
(***************************************************************************)
OnSigns(S, confidence, empty) ==
  [sign |-> [s \in Sign |-> IF s \in S THEN confidence ELSE kMinConfidence],
   emptyset |-> empty]

SignsOf(x) == CASE x.kind = "bool"   -> IF x.v = 0 THEN {"zero"} ELSE {"neg", "pos"}
                [] x.kind = "int"    -> IF x.v < 0 THEN {"neg"}
                                        ELSE IF x.v > 0 THEN {"pos"} ELSE {"zero"}
                [] x.kind = "null"   -> {"zero"}
                [] x.kind = "string" -> {"neg", "pos"}
                [] OTHER             -> {}

(* getSExtValue of a 1-bit true is -1. *)
AsInt(x) == IntOf(x.v)

AddErrorValue(knowledge, f, x) ==
  IF IsErrorOnlyFunction(knowledge, f) THEN Emptyset
  ELSE OnSigns(SignsOf(AsInt(x)), kMaxConfidence, kMinConfidence)

SpecificationOf(E, g) == IF g = "" THEN Unknown ELSE E[g]

(***************************************************************************)
(* VisitCallInst.  Emptyset is the neutral element of Join, hence also     *)
(* what contributes nothing.  `returning` is the set on entry to the block.*)
(***************************************************************************)
CalleeEmptyset(E, call) ==
  IF call.callee = "" THEN ~ call.scalar ELSE IsEmptyset(E[call.callee])

ErrorOnlyValue(knowledge, returning, f, file, x) ==
  CASE x.kind = "bool" -> OnSigns(SignsOf(x), kMaxConfidence, kMinConfidence)
    [] x.kind = "int"  -> IF IsSuccessCode(knowledge, returning, f, x.v, file)
                          THEN Emptyset ELSE AddErrorValue(knowledge, f, x)
    [] x.kind = "null" -> AddErrorValue(knowledge, f, x)
    [] OTHER           -> Emptyset

VisitCallInst(knowledge, E, returning, f, file, call) ==
  IF IsErrorOnlyFunctionCall(knowledge, call)
  THEN JoinAll({Emptyset} \cup {ErrorOnlyValue(knowledge, returning, f, file, x) :
                                   x \in call.returned})
  ELSE [Unknown EXCEPT !.emptyset = IF CalleeEmptyset(E, call) THEN kMaxConfidence
                                    ELSE kMinConfidence]

(***************************************************************************)
(* The value a block returns, and what stands for it: a call is itself,    *)
(* anything else is the value it holds when that is unique.                *)
(***************************************************************************)
ReturnsOne(block) == \E x \in block.returned : block.returned = {x}

ReturnedValue(block) == CHOOSE x \in block.returned : TRUE

Holding(block) == ReturnedValue(block).kind # "call" /\ block.holds # {}

Ambiguous(block) == Holding(block) /\ \E h, i \in block.holds : h # i

Carrier(block) == IF Holding(block) THEN CHOOSE h \in block.holds : TRUE
                  ELSE ReturnedValue(block)

(* The block returns the result of a call with a known specification. *)
Propagates(E, block) ==
  /\ ~ Ambiguous(block)
  /\ Carrier(block).kind = "call"
  /\ ~ IsUnknown(SpecificationOf(E, Carrier(block).callee))

(***************************************************************************)
(* VisitBlock's loop over block.constraints, a function from the functions *)
(* that constrain the block to the constraint.                             *)
(***************************************************************************)
Constraining(block) == DOMAIN block.constraints \ {""}

(* Mutant: every value of a callee of unknown specification an error.      *)
ConstraintFromUnknown(E, block, k) ==
  Intersection(IF IsUnknown(E[k]) THEN ToConfidence("top", kMinConfidence) ELSE E[k],
               block.constraints[k])

(* The confidence that the constraining function k has returned an error.  *)
ConstraintConfidence(E, block, k) == Intersection(E[k], block.constraints[k])

NoError(c) == IsUnknown(c) \/ IsEmptyset(c)

(* The confidences of the callee g whose result is returned. *)
PropagatedConfidence(E, k, inter, g) ==
  IF g = k THEN MeetConfidence(E[g], inter) ELSE E[g]

ConstantConfidence(x, inter) == OnSigns(SignsOf(x), GetMax(inter), inter.emptyset)

Dropping(knowledge, returning, f, file, c) ==
  IF ShouldSmartDropZero(knowledge, returning, f, file) THEN DropZero(c) ELSE c

(* What the block returns under the constraint on k, before zero is        *)
(* dropped.                                                                *)
ReturnConfidence(E, block, k) ==
  LET inter == ConstraintConfidence(E, block, k)
      h     == Carrier(block)
      x     == ReturnedValue(block)
      constant == IF block.constraints[k] = "top" \/ SignsOf(x) = {} THEN Unknown
                  ELSE ConstantConfidence(x, inter)
  IN CASE Ambiguous(block)     -> Unknown
       [] Propagates(E, block) -> PropagatedConfidence(E, k, inter, h.callee)
       [] Holding(block) /\ ~ Ambiguous(block) /\ (IsConstantInt(h) \/ h.kind = "null")
                               -> ConstantConfidence(AsInt(h), inter)
       [] OTHER                -> constant

(* A constant returned as such is not subject to the heuristic. *)
MayDropZero(E, block) ==
  Propagates(E, block) \/ (Holding(block) /\ Carrier(block).kind # "call")

Contribution(knowledge, E, returning, f, block, k) ==
  LET inter == ConstraintConfidence(E, block, k)
      found == ReturnConfidence(E, block, k)
      lowered == IF MayDropZero(E, block)
                 THEN Dropping(knowledge, returning, f, block.file, found) ELSE found
  IN IF NoError(inter) THEN inter ELSE IF IsUnknown(lowered) THEN Emptyset ELSE lowered

(***************************************************************************)
(* VisitBlock.                                                             *)
(***************************************************************************)
ReturnsErrorCode(knowledge, block) ==
  /\ ReturnsOne(block) /\ IsConstantInt(ReturnedValue(block))
  /\ HasCode(knowledge.errorCodes, ReturnedValue(block).v, block.file)

ReturnsSuccessCode(knowledge, returning, f, block) ==
  /\ ReturnsOne(block) /\ IsConstantInt(ReturnedValue(block))
  /\ ~ ReturnsErrorCode(knowledge, block)
  /\ IsSuccessCode(knowledge, returning, f, ReturnedValue(block).v, block.file)

(* The block makes f one of the functions that return codes. *)
AddsCodes(knowledge, E, returning, f, block) ==
  \/ ReturnsErrorCode(knowledge, block)
  \/ ReturnsSuccessCode(knowledge, returning, f, block)
  \/ /\ ReturnsOne(block) /\ Propagates(E, block)
     /\ Carrier(block).callee \in returning
     /\ \E k \in Constraining(block) : ~ NoError(ConstraintConfidence(E, block, k))

VisitBlock(knowledge, E, returning, f, block) ==
  LET codes == IF AddsCodes(knowledge, E, returning, f, block)
               THEN returning \cup {f} ELSE returning
      calls == {VisitCallInst(knowledge, E, returning, f, block.file, block.calls[i]) :
                  i \in DOMAIN block.calls}
      error == IF ReturnsErrorCode(knowledge, block)
               THEN {AddErrorValue(knowledge, f, ReturnedValue(block))} ELSE {}
      constraints ==
        IF ~ ReturnsOne(block) \/ ReturnsSuccessCode(knowledge, returning, f, block) THEN {}
        ELSE {Contribution(knowledge, E, codes, f, block, k) : k \in Constraining(block)}
  IN JoinAll({Emptyset} \cup calls \cup error \cup constraints)

(***************************************************************************)
(* RunOnFunction: the blocks in order, each seeing whether an earlier one  *)
(* returned codes; emptyset if every block is, otherwise the join of the   *)
(* others onto unknown.                                                    *)
(***************************************************************************)
ReturningBefore(knowledge, E, returning, f, blocks, i) ==
  IF \E j \in 1 .. i - 1 : AddsCodes(knowledge, E, returning, f, blocks[j])
  THEN returning \cup {f} ELSE returning

(* Mutant: emptyset as soon as one block is. *)
BlocksJoinAnyEmptyset(found) ==
  IF \E c \in found : IsEmptyset(c) THEN Emptyset ELSE JoinAll({Unknown} \cup found)

BlocksJoin(found) ==
  IF \A c \in found : IsEmptyset(c) THEN Emptyset
  ELSE JoinAll({Unknown} \cup {c \in found : ~ IsEmptyset(c)})

(* blocks is not empty. *)
InferredReturning(knowledge, E, returning, f, blocks) ==
  ReturningBefore(knowledge, E, returning, f, blocks, Len(blocks) + 1)

InferredSpecification(knowledge, E, returning, f, blocks) ==
  LET before(i) == ReturningBefore(knowledge, E, returning, f, blocks, i)
      found == {VisitBlock(knowledge, E, before(i), f, blocks[i]) : i \in DOMAIN blocks}
  IN Dropping(knowledge, before(Len(blocks) + 1), f, blocks[1].file, BlocksJoin(found))

(* f is made non-doomed by a run: it calls a non-doomed function or        *)
(* returns an error code.                                                  *)
BecomesNonDoomed(knowledge, nonDoomed, blocks) ==
  \E b \in DOMAIN blocks :
    \/ \E c \in DOMAIN blocks[b].calls : blocks[b].calls[c].callee \in nonDoomed
    \/ ReturnsErrorCode(knowledge, blocks[b])

(***************************************************************************)
(* ExpandErrorSpecification.  synonyms is the finder's answer, best first, *)
(* as [label, similarity] with the similarity in percent.                  *)
(***************************************************************************)
SimilarityThreshold == 50

ExpansionOperation(operation, cs) ==
  CASE operation = "join" -> JoinAll(cs)
    [] operation = "meet" -> MeetAll(cs)
    [] operation = "max"  -> KeepHighest(cs)

(* Mutant: the confidence weighted by the percentage as a number.          *)
ScaledUndivided(c, similarity) ==
  [sign |-> [s \in Sign |-> c.sign[s] * similarity],
   emptyset |-> c.emptyset * similarity]

(* The short conversion truncates the product. *)
Scaled(c, similarity) ==
  [sign |-> [s \in Sign |-> (c.sign[s] * similarity) \div 100],
   emptyset |-> (c.emptyset * similarity) \div 100]

(* The synonyms a specification is expanded from: none when the finder     *)
(* gives fewer than the minimum, else at most that many usable ones.       *)
Evidence(synonyms, converged, type, minimum) ==
  LET found  == {i \in DOMAIN synonyms : synonyms[i].similarity > 0}
      usable == {i \in found : /\ synonyms[i].label \in DOMAIN converged
                               /\ converged[synonyms[i].label] = type
                               /\ synonyms[i].similarity >= SimilarityThreshold}
      best   == {i \in usable : Cardinality({j \in usable : j <= i}) <= minimum}
  IN IF Cardinality(found) < minimum THEN {} ELSE {synonyms[i] : i \in best}

ExpansionDelta(E, operation, evidence) ==
  ExpansionOperation(operation,
    {Scaled(SpecificationOf(E, s.label), s.similarity) : s \in evidence})
=============================================================================
