------------------------- MODULE ReturnPropagation -------------------------
(***************************************************************************)
(* ReturnPropagationPass: which calls' return values, and which integer    *)
(* constants, a value may hold.  A fact maps a value to the set of these   *)
(* sources; the code's maps never hold an empty set, so that an absent     *)
(* entry is the empty set here.                                            *)
(***************************************************************************)
EXTENDS Ir

PropagationInit(body) == InitialFacts(body, [v \in ValuesOf(body) |-> {}])

(* ReturnPropagationFact::Join, of several facts into one.                 *)
JoinPropagation(fact, others) ==
  [v \in DOMAIN fact |-> fact[v] \cup UNION {x[v] : x \in others}]

(* Copy what a may hold to v, when there is anything to copy.              *)
CopySources(fact, a, v) == IF fact[a] = {} THEN fact ELSE [fact EXCEPT ![v] = fact[a]]

(* Mutant: only instructions that are stored are followed.                 *)
PropagateStoredInstruction(fact, inst) == CopySources(fact, inst.a, inst.b)

(* VisitStoreInst: a constant is added to what the slot may hold, a value  *)
(* that holds something replaces it.                                       *)
PropagateStore(fact, inst) ==
  LET added == IF inst.a \in ConstantInt
               THEN [fact EXCEPT ![inst.b] = @ \cup {inst.a}] ELSE fact
  IN IF fact[inst.a] # {} THEN [added EXCEPT ![inst.b] = fact[inst.a]] ELSE added

(* VisitPHINode writes only the entry of the phi: nothing is copied from   *)
(* the fact before it.                                                     *)
PropagatePhi(before, after, inst) ==
  [after EXCEPT ![inst.id] = @ \cup UNION {before[inst.in[p]] : p \in DOMAIN inst.in}]

(* The dispatch of VisitBlock: the fact after the instruction.             *)
PropagateInst(before, after, inst) ==
  CASE inst.op = "call"                      -> [before EXCEPT ![inst.id] = @ \cup {inst.id}]
    [] inst.op \in LoadLike \cup {"binary"}  -> CopySources(before, inst.a, inst.id)
    [] inst.op = "store"                     -> PropagateStore(before, inst)
    [] inst.op = "phi"                       -> PropagatePhi(before, after, inst)
    [] OTHER                                 -> before

PropagationVisitBlock(body, facts, b) ==
  LET Visit(fs, k) == [fs EXCEPT ![b][k + 1] = PropagateInst(fs[b][k], @, body[b][k])]
      Point(k)     == k + 1
  IN VisitInstructions(facts, b, [k \in DOMAIN body[b] |-> k], Visit, Point)

(* One iteration of the loop over blocks in RunOnFunction.                 *)
PropagationStep(body, facts, b) ==
  LET joined == JoinPropagation(EntryOf(facts, b),
                                {ExitOf(facts, p) : p \in Predecessors(body, b)})
  IN PropagationVisitBlock(body, [facts EXCEPT ![b][1] = joined], b)

(* What the calls are whose value v holds where it is defined, as the      *)
(* other passes read it.                                                   *)
SourcesOf(propagation, body, v) == FactAfter(propagation, body, v)[v]
=============================================================================
