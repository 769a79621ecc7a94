------------------------- MODULE ReturnConstraints -------------------------
(***************************************************************************)
(* ReturnConstraintsPass: what the tests on the way to a program point     *)
(* say of the return values of the functions called.  A fact maps callees  *)
(* to elements of the sign lattice; Absent stands for a missing entry,     *)
(* which is not the same as "bottom": a join copies the other side.        *)
(***************************************************************************)
EXTENDS ReturnPropagation

Absent == "absent"

Callees(body) == {i.f : i \in {j \in InstructionsOf(body) : j.op = "call"}}

ConstraintsInit(body) == InitialFacts(body, [f \in Callees(body) |-> Absent])

(* Join over a set: all rows AND-ed.                                       *)
JoinTable ==
  [xs \in SUBSET SignLatticeElement |->
     Decode(JoinEncoding, {e \in SignLatticeElement : \A x \in xs : e \in JoinEncoding[x]})]

(* ReturnConstraintsFact::Join, and ReturnRangeFact::Join alike, of        *)
(* several facts into one.                                                 *)
JoinMaps(fact, others) ==
  [f \in DOMAIN fact |->
     LET known == ({fact[f]} \cup {x[f] : x \in others}) \ {Absent}
     IN IF known = {} THEN Absent ELSE JoinTable[known]]

(* Of a comparison with a constant, by the constant's sign and the         *)
(* predicate read as a signed one: what the other operand is when the      *)
(* comparison holds, and when it does not.                                 *)
PredicateComplement ==
  [c \in {"0", ">0", "<0"} |->
     CASE c = "0"  -> [slt |-> <<"<0", ">=0">>,  sgt |-> <<">0", "<=0">>,
                       sle |-> <<"<=0", ">0">>,  sge |-> <<">=0", "<0">>,
                       eq  |-> <<"0", "!=0">>,   ne  |-> <<"!=0", "0">>]
       [] c = ">0" -> [slt |-> <<"top", ">0">>,  sgt |-> <<">0", "top">>,
                       sle |-> <<"top", ">0">>,  sge |-> <<">0", "top">>,
                       eq  |-> <<">0", "top">>,  ne  |-> <<"top", ">0">>]
       [] c = "<0" -> [slt |-> <<"<0", "top">>,  sgt |-> <<"top", "<0">>,
                       sle |-> <<"<0", "top">>,  sge |-> <<"top", "<0">>,
                       eq  |-> <<"<0", "top">>,  ne  |-> <<"top", "<0">>]]

UnsignedReplacement ==
  [x \in SignLatticeElement |->
     CASE x \in {"<0", "bottom"} -> "bottom"
       [] x \in {"<=0", "0"}     -> "0"
       [] x \in {"!=0", ">0"}    -> ">0"
       [] x \in {"top", ">=0"}   -> ">=0"]

SwappedPredicate ==
  [slt |-> "sgt", sgt |-> "slt", sle |-> "sge", sge |-> "sle", eq |-> "eq", ne |-> "ne"]

(* Mutant: a constant on the left is read like one on the right.           *)
AbstractICmpUnswapped(inst) ==
  LET integer == IF inst.b \in ConstantInt THEN inst.b ELSE inst.a
      row     == PredicateComplement[IF integer \in ConstantInt
                                     THEN AbstractInteger(Signed(integer)) ELSE "0"][inst.p]
  IN IF inst.u THEN <<UnsignedReplacement[row[1]], UnsignedReplacement[row[2]]>> ELSE row

(* AbstractICmp.  The predicate is swapped whenever the second operand is  *)
(* not an integer constant, and again when the first one is null: with a   *)
(* null in the second place it is swapped although nothing is, with one in *)
(* the first place twice.                                                  *)
AbstractICmp(inst) ==
  LET integer == IF inst.b \in ConstantInt THEN inst.b ELSE inst.a
      first   == IF inst.b \in ConstantInt THEN inst.p ELSE SwappedPredicate[inst.p]
      nulls   == inst.b = "null" \/ inst.a = "null"
      p       == IF inst.b # "null" /\ inst.a = "null" THEN SwappedPredicate[first] ELSE first
      row     == PredicateComplement[IF nulls THEN "0" ELSE AbstractInteger(Signed(integer))][p]
  IN IF ~nulls /\ integer \notin ConstantInt THEN <<"top", "top">>
     ELSE IF inst.u THEN <<UnsignedReplacement[row[1]], UnsignedReplacement[row[2]]>>
     ELSE row

(* The operand of a test whose sources are looked up: the first one that   *)
(* is an instruction.                                                      *)
TestedValue(body, inst) == IF IsInstruction(body, inst.a) THEN inst.a ELSE inst.b

(* The callees whose value a test may look at.                             *)
TestedCallees(body, propagation, v) ==
  IF ~ IsInstruction(body, v) THEN {}
  ELSE {Definition(body, c).f : c \in {s \in SourcesOf(propagation, body, v) :
                                         Definition(body, s).op = "call"}}

(* What a test that gives x leaves of what was known of a callee.          *)
Refine(x, known) == IF known = Absent THEN x ELSE Meet(x, known)

(* What the outcomes of a test are: the successor it goes to, and what the *)
(* tested value then is.                                                   *)
BranchOutcomes(body, inst) ==
  LET result == AbstractICmp(Definition(body, inst.a))
  IN {<<inst.t, result[1]>>, <<inst.e, result[2]>>}

CaseOutcomes(inst) ==
  {<<inst.cases[i].to, AbstractInteger(inst.cases[i].value)>> : i \in DOMAIN inst.cases}

(* The tested keys are killed in the fact after the test, and what the     *)
(* outcomes say of them is joined into the entries of the successors, one  *)
(* after the other in the code: the order makes no difference to a join.   *)
Kill(facts, b, k, tested) ==
  [facts EXCEPT ![b][k + 1] = [f \in DOMAIN @ |-> IF f \in tested THEN "bottom" ELSE facts[b][k][f]]]

PassOn(facts, outcomes, before, tested) ==
  [c \in DOMAIN facts |->
     LET left(f) == {Refine(o[2], before[f]) : o \in {p \in outcomes : p[1] = c}}
     IN [facts[c] EXCEPT ![1] =
           [f \in DOMAIN @ |-> IF f \in tested /\ left(f) # {}
                               THEN JoinTable[({@[f]} \cup left(f)) \ {Absent}] ELSE @[f]]]]

(* VisitBranchInst, on a branch whose condition is an icmp.                *)
ConstrainBranch(body, propagation, facts, b, k) ==
  LET inst   == body[b][k]
      test   == Definition(body, inst.a)
      tested == IF test.op = "icmp"
                THEN TestedCallees(body, propagation, TestedValue(body, test)) ELSE {}
      killed == Kill(facts, b, k, tested)
  IN IF tested = {} THEN killed
     ELSE PassOn(killed, BranchOutcomes(body, inst), facts[b][k], tested)

(* VisitSwitchInst: the cases only.  The default successor sees the killed *)
(* entry.                                                                  *)
ConstrainSwitch(body, propagation, facts, b, k) ==
  LET inst   == body[b][k]
      tested == IF inst.cases = <<>> THEN {} ELSE TestedCallees(body, propagation, inst.a)
  IN PassOn(Kill(facts, b, k, tested), CaseOutcomes(inst), facts[b][k], tested)

(* The dispatch of VisitBlock.  A call makes its callee "top".             *)
ConstrainInst(body, propagation, facts, b, k) ==
  LET inst == body[b][k]
      copy == [facts EXCEPT ![b][k + 1] = facts[b][k]]
  IN CASE inst.op = "call"   -> [copy EXCEPT ![b][k + 1][inst.f] = "top"]
       [] inst.op = "branch" -> ConstrainBranch(body, propagation, facts, b, k)
       [] inst.op = "switch" -> ConstrainSwitch(body, propagation, facts, b, k)
       [] OTHER              -> copy

ConstraintsVisitBlock(body, propagation, facts, b) ==
  LET Visit(fs, k) == ConstrainInst(body, propagation, fs, b, k)
      Point(k)     == k + 1
  IN VisitInstructions(facts, b, [k \in DOMAIN body[b] |-> k], Visit, Point)

(* One iteration of the loop over blocks in RunOnFunction.                 *)
ConstraintsStep(body, propagation, facts, b) ==
  LET joined == JoinMaps(EntryOf(facts, b), {ExitOf(facts, p) : p \in Predecessors(body, b)})
  IN ConstraintsVisitBlock(body, propagation, [facts EXCEPT ![b][1] = joined], b)
=============================================================================
