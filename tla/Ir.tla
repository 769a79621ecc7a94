-------------------------------- MODULE Ir --------------------------------
(***************************************************************************)
(* The part of LLVM's intermediate representation that the dataflow        *)
(* passes of eesi/src look at.  A function is a sequence of blocks in the  *)
(* order of LLVM's block list, the first one being the entry; a block is a *)
(* sequence of instructions of which the last one alone is a terminator.   *)
(*                                                                         *)
(* An instruction is a record with a field op and, as the op requires,     *)
(*   id       the name of the instruction, which is also its result        *)
(*   a, b     its operands: names of instructions, of slots (allocas), or  *)
(*            constants                                                    *)
(*   f        the callee's source name, "" when it is not resolved         *)
(*   p, u     the predicate of an icmp as a signed one; is it unsigned     *)
(*   in       for a phi, the incoming values: block index -> value         *)
(*   t, e     the successors when the condition holds, and when not        *)
(*   cases    for a switch, the sequence of [value, to]                    *)
(***************************************************************************)
EXTENDS Integers, Sequences, SequencesExt, SignLattice

(* Constants by the dyn_casts the passes apply to them: integers, the null *)
(* pointer, a true i1 and the address of a string literal.                 *)
IntegerConstant == [c \in {"-1", "0", "1"} |->
                      CASE c = "-1" -> -1 [] c = "0" -> 0 [] c = "1" -> 1]

Constant == DOMAIN IntegerConstant \cup {"null", "true", "literal"}

(* What LLVM has as a ConstantInt, and which integer one is when a pass    *)
(* takes it for a signed one: the only bit of an i1 is its sign.           *)
ConstantInt == DOMAIN IntegerConstant \cup {"true"}
Signed(c) == IF c = "true" THEN "-1" ELSE c

(* AbstractInteger.                                                        *)
AbstractInteger(c) ==
  CASE IntegerConstant[c] < 0 -> "<0"
    [] IntegerConstant[c] = 0 -> "0"
    [] IntegerConstant[c] > 0 -> ">0"

(* Loads and the casts that some of the passes treat like them.            *)
BitCastLike == {"bitcast", "ptrtoint"}
LoadLike    == {"load"} \cup BitCastLike

Successors(inst) ==
  CASE inst.op = "jump"   -> {inst.t}
    [] inst.op = "branch" -> {inst.t, inst.e}
    [] inst.op = "switch" -> {inst.cases[i].to : i \in DOMAIN inst.cases} \cup {inst.e}
    [] inst.op = "return" -> {}

(* GetLastInstructionOfBB.                                                 *)
Terminator(block) == block[Len(block)]

Predecessors(body, b) == {p \in DOMAIN body : b \in Successors(Terminator(body[p]))}

InstructionsOf(body) == UNION {Range(body[b]) : b \in DOMAIN body}

Slots(body) == {i.b : i \in {j \in InstructionsOf(body) : j.op = "store"}}

(* What an instruction reads, but for a phi: that reads at the end of the  *)
(* block it is entered from.                                               *)
Reads(inst) ==
  CASE inst.op \in LoadLike \cup {"trunc", "sext", "zext", "binary", "store",
                                "branch", "switch", "return"} -> {inst.a}
    [] inst.op = "icmp" -> {inst.a, inst.b}
    [] inst.op \notin LoadLike \cup {"trunc", "sext", "zext", "binary", "store", "branch",
                                   "switch", "return", "icmp"} -> {}

UsedIn(body) ==
  UNION {IF i.op = "phi" THEN Range(i.in) ELSE Reads(i) : i \in InstructionsOf(body)}

(* What has a name: a slot that is only read, as one that a callee writes  *)
(* through its address, is known by the loads from it.                     *)
ValuesOf(body) ==
  {i.id : i \in InstructionsOf(body)} \cup Slots(body) \cup UsedIn(body) \cup Constant

(* The instruction that a value is, [op |-> "none"] when it is a slot or a *)
(* constant.                                                               *)
Definition(body, v) ==
  IF \E i \in InstructionsOf(body) : i.id = v
  THEN CHOOSE i \in InstructionsOf(body) : i.id = v
  ELSE [op |-> "none", id |-> v]

IsInstruction(body, v) == \E i \in InstructionsOf(body) : i.id = v

(* A body is well formed as LLVM's verifier wants it, as far as the passes *)
(* rely on it: one terminator, at the end; no edge to the entry; phis      *)
(* before all other instructions of a block, with one incoming value for   *)
(* each predecessor; a name is given once, and is no constant.             *)
IsName(v) == v # "" /\ v \notin Constant

IsBlock(block) ==
  /\ block \in Seq(Range(block)) /\ block # <<>>
  /\ \A k \in DOMAIN block :
       /\ (block[k].op \in {"jump", "branch", "switch", "return"}) <=> (k = Len(block))
       /\ block[k].op = "phi" => \A j \in 1..k : block[j].op = "phi"
       /\ IsName(block[k].id)
       /\ block[k].op = "store" => IsName(block[k].b)

IsBody(body) ==
  /\ body \in Seq(Range(body)) /\ body # <<>>
  /\ \A b \in DOMAIN body :
       /\ IsBlock(body[b])
       /\ Successors(Terminator(body[b])) \subseteq DOMAIN body \ {1}
       /\ \A k \in DOMAIN body[b] :
            /\ body[b][k].op = "phi" => DOMAIN body[b][k].in = Predecessors(body, b)
            /\ \A c \in DOMAIN body : \A j \in DOMAIN body[c] :
                 body[b][k].id = body[c][j].id => b = c /\ k = j

(* The predicate of an icmp and the cases of a switch are what they are,   *)
(* and what reads an operand has one.                                      *)
Predicate == {"slt", "sgt", "sle", "sge", "eq", "ne"}

IsTyped(inst) ==
  /\ inst.op = "icmp" => inst.p \in Predicate /\ inst.u \in BOOLEAN
  /\ inst.op = "switch" =>
       \A i \in DOMAIN inst.cases : inst.cases[i].value \in DOMAIN IntegerConstant
  /\ inst.op \in LoadLike \cup {"store", "icmp"} => "a" \in DOMAIN inst

(* Every way from the entry to block b leads through block c: a set of     *)
(* blocks with the entry that only c leads out of need not have b.         *)
Dominates(body, c, b) ==
  /\ c # b
  /\ \E S \in SUBSET DOMAIN body :
       1 \in S /\ b \notin S /\ \A p \in S \ {c} : Successors(Terminator(body[p])) \subseteq S

(* Instruction j of block c has been executed whenever instruction k of    *)
(* block b is about to be.                                                 *)
Precedes(body, c, j, b, k) == Dominates(body, c, b) \/ (c = b /\ j < k)

IsDefinedBefore(body, v, b, k) ==
  \E c \in DOMAIN body : \E j \in DOMAIN body[c] :
    body[c][j].id = v /\ Precedes(body, c, j, b, k)

(* A definition dominates its uses, which the verifier wants as well.  The *)
(* name of a slot stands for what it holds, so that the instructions that  *)
(* would look at its address are not among these bodies; nor is the result *)
(* of a comparison a slot.                                                 *)
DefinitionsDominateUses(body) ==
  \A b \in DOMAIN body : \A k \in DOMAIN body[b] :
    /\ \A v \in Reads(body[b][k]) : IsInstruction(body, v) => IsDefinedBefore(body, v, b, k)
    /\ body[b][k].op \in {"icmp", "branch", "switch"} => Reads(body[b][k]) \cap Slots(body) = {}
    /\ body[b][k].op = "icmp" => body[b][k].id \notin Slots(body)
    /\ body[b][k].op = "phi" =>
         \A p \in DOMAIN body[b][k].in :
           IsInstruction(body, body[b][k].in[p]) =>
             IsDefinedBefore(body, body[b][k].in[p], p, Len(body[p]) + 1)

(***************************************************************************)
(* Facts.  Every pass keeps one fact before the first and one after each   *)
(* instruction of a block; the fact after an instruction is the same       *)
(* object as the fact before the next one.  The facts of a function are a  *)
(* sequence of points for each block: point k is before instruction k.     *)
(***************************************************************************)
InitialFacts(body, empty) ==
  [b \in DOMAIN body |-> [k \in 1..Len(body[b]) + 1 |-> empty]]

(* The fact after the instruction v.                                       *)
FactAfter(facts, body, v) ==
  LET b == CHOOSE b \in DOMAIN body : \E k \in DOMAIN body[b] : body[b][k].id = v
      k == CHOOSE k \in DOMAIN body[b] : body[b][k].id = v
  IN facts[b][k + 1]

EntryOf(facts, b) == facts[b][1]
ExitOf(facts, b)  == facts[b][Len(facts[b])]

(* Mutant of HasChanged: only the last instruction of the block counts.   *)
LastHasChanged(changed, before, after) == after # before

(* What VisitBlock knows of changes after one more instruction, whose fact *)
(* was `before` and is `after`.                                            *)
HasChanged(changed, before, after) == changed \/ after # before

(* The loop of VisitBlock: Visit(facts, k) is the effect of visiting       *)
(* instruction k of the block on the function's facts, and Point(k) the    *)
(* point whose change counts as a change.  The instructions are visited    *)
(* in the order given.  (The sets of one element make TLC evaluate each    *)
(* stage once.)                                                            *)
VisitInstructions(facts, b, order, Visit(_, _), Point(_)) ==
  LET visited[i \in 0..Len(order)] ==
        IF i = 0 THEN [facts |-> facts, changed |-> FALSE]
        ELSE CHOOSE step \in
               {[facts   |-> x.next,
                 changed |-> HasChanged(x.done.changed,
                                        x.done.facts[b][Point(order[i])],
                                        x.next[b][Point(order[i])])] :
                  x \in {[done |-> d, next |-> Visit(d.facts, order[i])] : d \in {visited[i - 1]}}} :
               TRUE
  IN visited[Len(order)]
=============================================================================
