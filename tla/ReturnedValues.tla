-------------------------- MODULE ReturnedValues --------------------------
(***************************************************************************)
(* ReturnedValuesPass: which values may be returned from a program point   *)
(* on.  A backward pass; a fact is the set of these values.                *)
(***************************************************************************)
EXTENDS Ir

CONSTANT ErrFunctions   \* source names that contain the name of an error function

ReturnedInit(body) == InitialFacts(body, {})

(* VisitLoadInst, VisitBitCastInst, VisitPtrToIntInst, VisitTruncInst,     *)
(* VisitSExtInst: what may be returned is the operand, not the result.     *)
ThroughOperand(after, inst) ==
  (after \ {inst.id}) \cup (IF inst.id \in after THEN {inst.a} ELSE {})

ThroughStore(after, inst) ==
  (after \ {inst.b}) \cup (IF inst.b \in after THEN {inst.a} ELSE {})

(* VisitCallInst: Linux's error functions ERR_PTR, IS_ERR, PTR_ERR and     *)
(* ERR_CAST hand their argument on, and so does, to the pass, whatever has *)
(* one of these names in its own, as the copies like ERR_PTR116 do.        *)
ThroughCall(after, inst) ==
  after \cup (IF inst.id \in after /\ inst.f \in ErrFunctions THEN {inst.a} ELSE {})

(* The dispatch of visitBlock: the fact before the instruction.  A return  *)
(* without a value writes nothing.                                         *)
ReturnedInst(before, after, inst) ==
  CASE inst.op = "return" /\ inst.a = "" -> before
    [] inst.op = "return" /\ inst.a # "" -> after \cup {inst.a}
    [] inst.op = "call"                  -> ThroughCall(after, inst)
    [] inst.op = "store"                 -> ThroughStore(after, inst)
    [] inst.op \in LoadLike \cup {"trunc", "sext"} -> ThroughOperand(after, inst)
    [] inst.op = "phi"                   -> after \ {inst.id}
    [] OTHER                             -> after

(* Mutant: a phi ends what is known of its incoming values.                *)
ReturnedNoIncoming(facts, after, inst) == facts

(* VisitPHINode also adds each incoming value at the end of its block.     *)
ReturnedIncoming(facts, after, inst) ==
  IF inst.op # "phi" \/ inst.id \notin after THEN facts
  ELSE [p \in DOMAIN facts |->
          IF p \in DOMAIN inst.in
          THEN [facts[p] EXCEPT ![Len(facts[p])] = @ \cup {inst.in[p]}]
          ELSE facts[p]]

ReturnedVisitBlock(body, facts, b) ==
  LET Visit(fs, k) ==
        LET after == fs[b][k + 1]
        IN ReturnedIncoming([fs EXCEPT ![b][k] = ReturnedInst(@, after, body[b][k])],
                            after, body[b][k])
      Point(k) == k
  IN VisitInstructions(facts, b, Reverse([k \in DOMAIN body[b] |-> k]), Visit, Point)

(* One iteration of the loop over blocks in RunOnFunction.                 *)
ReturnedStep(body, facts, b) ==
  LET joined == ExitOf(facts, b) \cup
                UNION {EntryOf(facts, s) : s \in Successors(Terminator(body[b]))}
  IN ReturnedVisitBlock(body, [facts EXCEPT ![b][Len(facts[b])] = joined], b)
=============================================================================
