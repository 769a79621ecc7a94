----------------------------- MODULE FlowGraph -----------------------------
(***************************************************************************)
(* The interprocedural control flow graph that the GetGraph server makes   *)
(* of a module: ControlFlowPass builds it, InstructionLabelsPass labels    *)
(* its vertices and WriteGraph turns it into a list of labelled edges.     *)
(*                                                                         *)
(* A program is a function from the names of the functions that have a     *)
(* body to their bodies (module Ir); a call may have, instead of a callee, *)
(* a field callees: the functions that NamesPass resolved it to.           *)
(*                                                                         *)
(* A vertex is a triple <<kind, function, at>>.  FlowGraph::Add never adds *)
(* a vertex or an edge twice, so that the graph is sets of pairs.          *)
(***************************************************************************)
EXTENDS ReturnPropagation, FiniteSets

CONSTANT ErrorCodes            \* the values of the request's error codes

(* What LLVM's verifier makes sure of.                                     *)
IsModule(prog) ==
  \A f \in DOMAIN prog :
    /\ IsBody(prog[f])
    /\ Len(prog[f]) \in Nat \ {0} /\ DOMAIN prog[f] = 1..Len(prog[f])
    /\ \A b \in DOMAIN prog[f] :
         Len(prog[f][b]) \in Nat /\ DOMAIN prog[f][b] = 1..Len(prog[f][b])

ASSUME ErrorCodesAssumption == ErrorCodes \subseteq DOMAIN IntegerConstant

(* GetCallName, GetBBNames (a block is named by its first instruction),    *)
(* GetStackName, and the vertex of a callee that is only declared.         *)
FnVertex(f)         == <<"fn", f, "0">>
Enter(f, block)     == <<"bbe", f, block[1].id>>
Leave(f, block)     == <<"bbx", f, block[1].id>>
Condition(f, block) == <<"pred", f, block[1].id>>
InstVertex(f, inst) == <<"inst", f, inst.id>>
Extern(f)           == <<"extern", f, "">>

(* The vertices of a block, by position: its entry, the instructions that  *)
(* visitInstruction does not pass over, and its exit.                      *)
Exit(block)      == Len(block) + 1
Positions(block) == {0, Exit(block)} \cup {k \in DOMAIN block : block[k].op # "intrinsic"}

VertexAt(f, block, k) ==
  IF k = 0 THEN Enter(f, block)
  ELSE IF k = Exit(block) THEN Leave(f, block) ELSE InstVertex(f, block[k])

Following(block, k) == Min({j \in Positions(block) : j > k})

(***************************************************************************)
(* ControlFlowPass.                                                        *)
(***************************************************************************)
(* A branch on a comparison gets a vertex between it and each successor.   *)
ComparisonOf(body, block) ==
  LET end == Terminator(block)
  IN IF end.op = "branch" THEN Definition(body, end.a) ELSE [op |-> "none"]

IsComparison(body, block) == ComparisonOf(body, block).op = "icmp"

(* The edges inside a function: along each block, and from the exit of     *)
(* each predecessor to the entry of the block.                             *)
BlockEdges(f, block) ==
  {<<VertexAt(f, block, k), VertexAt(f, block, Following(block, k))>> :
     k \in Positions(block) \ {Exit(block)}}

JoinEdges(f, body) ==
  UNION {{IF IsComparison(body, body[p])
          THEN {<<Leave(f, body[p]), Condition(f, body[b])>>,
                <<Condition(f, body[b]), Enter(f, body[b])>>}
          ELSE {<<Leave(f, body[p]), Enter(f, body[b])>>} :
            p \in Predecessors(body, b)} : b \in DOMAIN body}

FunctionEdges(prog, f) ==
  {<<FnVertex(f), Enter(f, prog[f][1])>>}
  \cup (UNION {BlockEdges(f, prog[f][b]) : b \in DOMAIN prog[f]})
  \cup (UNION JoinEdges(f, prog[f]))

(* Without a function main, main.0 goes to every function.                 *)
MainEdges(prog) ==
  IF "main" \in DOMAIN prog THEN {}
  ELSE {<<FnVertex("main"), FnVertex(f)>> : f \in DOMAIN prog}

(* AddCalls: where a call may go.  A callee without a body has a vertex    *)
(* out of which nothing goes.                                              *)
Callees(inst) == IF inst.f # "" THEN {inst.f} ELSE inst.callees

CalleeVertices(prog, inst) ==
  {IF f \in DOMAIN prog THEN FnVertex(f) ELSE Extern(f) : f \in Callees(inst)}

CallsOf(prog) ==
  UNION {UNION {{<<f, block, k>> : k \in {i \in DOMAIN block : block[i].op = "call"}} :
                  block \in Range(prog[f])} : f \in DOMAIN prog}

CallEdges(prog) ==
  UNION {{<<InstVertex(c[1], c[2][c[3]]), v>> : v \in CalleeVertices(prog, c[2][c[3]])} :
           c \in CallsOf(prog)}

(* The edge to the instruction after a call, if it has a callee.           *)
ReturnEdges(prog) ==
  {<<InstVertex(c[1], c[2][c[3]]), VertexAt(c[1], c[2], Following(c[2], c[3]))>> :
     c \in {d \in CallsOf(prog) : Callees(d[2][d[3]]) # {}}}

(* fn2ret_: the exit of the last block that returns.                       *)
ReturningBlocks(body) == {b \in DOMAIN body : Terminator(body[b]).op = "return"}
LastReturn(f, body) ==
  Leave(f, body[CHOOSE b \in ReturningBlocks(body) : \A c \in ReturningBlocks(body) : c <= b])

(* Mutant: the return sites of direct calls only.                          *)
MayReturnEdgesOfOneSite(prog) ==
  UNION {{<<LastReturn(f, prog[f]), r[2]>> :
            r \in {s \in ReturnEdges(prog) :
                     {e \in CallEdges(prog) : e[1] = s[1]} = {<<s[1], FnVertex(f)>>}}} :
           f \in {g \in DOMAIN prog : ReturningBlocks(prog[g]) # {}}}

(* AddMayReturnEdges.                                                      *)
MayReturnEdges(prog) ==
  UNION {{<<LastReturn(f, prog[f]), r[2]>> :
            r \in {s \in ReturnEdges(prog) : <<s[1], FnVertex(f)>> \in CallEdges(prog)}} :
           f \in {g \in DOMAIN prog : ReturningBlocks(prog[g]) # {}}}

(***************************************************************************)
(* Labels.  A vertex has at most one; where the code overwrites a label in *)
(* the order of LLVM's use lists, or picks a source at random, the choices *)
(* are a set.  The empty tuple is no label.                                *)
(***************************************************************************)
Unlabelled == <<>>

Swapped(p) == CASE p = "slt" -> "sgt" [] p = "sgt" -> "slt"
                [] p = "sle" -> "sge" [] p = "sge" -> "sle" [] OTHER -> p

(* CreatePredicateValueVertex: the predicate is swapped, not negated, on   *)
(* the way to the false successor.                                         *)
ConditionLabel(body, block, b) ==
  LET icmp   == ComparisonOf(body, block)
      sided  == IF Terminator(block).t = b THEN icmp.p ELSE Swapped(icmp.p)
      SignOf(c) == CASE c = "0" -> "ZERO" [] c = "-1" -> "NEG" [] c = "1" -> "POS"
  IN CASE icmp.b \in ConstantInt -> <<"CONDBR", sided, SignOf(Signed(icmp.b))>>
       [] icmp.b \notin ConstantInt /\ icmp.a \in ConstantInt ->
            <<"CONDBR", Swapped(sided), SignOf(Signed(icmp.a))>>
       [] OTHER -> <<"CONDBR", sided, "NAC">>

(* The last predecessor that is visited decides.                           *)
ConditionLabels(body, b) ==
  {ConditionLabel(body, body[p], b) : p \in {q \in Predecessors(body, b) : IsComparison(body, body[q])}}

(* The fixpoint of ReturnPropagationPass: MaxRounds passes over the blocks *)
(* are enough.  (The set of one element makes TLC evaluate each step once.)*)
MaxRounds == 4

Propagated(body) ==
  LET after[n \in 0..MaxRounds * Len(body)] ==
        IF n = 0 THEN PropagationInit(body)
        ELSE CHOOSE facts \in {PropagationStep(body, before, ((n - 1) % Len(body)) + 1).facts :
                                before \in {after[n - 1]}} : TRUE
  IN after[MaxRounds * Len(body)]

Strip(body, v) ==
  IF Definition(body, v).op = "bitcast" THEN Definition(body, v).a ELSE v

(* ResolveIndirectName: the name of a random source of the value.          *)
IndirectLabels(body, kind, f, inst) ==
  LET sources == FactAfter(Propagated(body), body, inst.id)[Strip(body, inst.a)]
      Named(s) == IF s \in ConstantInt THEN <<kind, "INDIR", Signed(s), f>>
                  ELSE <<kind, "of", Definition(body, s).f, f>>
  IN IF sources = {} THEN {Unlabelled} ELSE {Named(s) : s \in sources}

(* visitStoreInst and visitReturnInst: an error code, another integer, or  *)
(* what the value may come from.  (A true i1 is 1 as an error code and -1  *)
(* as a signed integer.)                                                   *)
ValueLabels(body, kind, f, inst) ==
  CASE inst.a \in ErrorCodes -> {<<kind, "ERR", inst.a, f>>}
    [] inst.a = "true" /\ "1" \in ErrorCodes -> {<<kind, "ERR", "1", f>>}
    [] inst.a = "true" /\ "1" \notin ErrorCodes -> {<<kind, "DIR", Signed(inst.a), f>>}
    [] inst.a \in DOMAIN IntegerConstant \ ErrorCodes -> {<<kind, "DIR", inst.a, f>>}
    [] inst.a = "" -> {Unlabelled}
    [] OTHER -> IndirectLabels(body, kind, f, inst)

(* LabelVisitor: calls have no label, and loads only when they read an     *)
(* error code.                                                             *)
InstLabels(body, f, inst) ==
  CASE inst.op \in {"call", "load"} -> {Unlabelled}
    [] inst.op = "store"  -> ValueLabels(body, "STORE", f, inst)
    [] inst.op = "return" -> ValueLabels(body, "RET", f, inst)
    [] OTHER -> {<<"INST", inst.op, f>>}

VerticesOf(prog) ==
  UNION {{e[1], e[2]} : e \in (UNION {FunctionEdges(prog, f) : f \in DOMAIN prog})
                               \cup CallEdges(prog) \cup MainEdges(prog)}

LabelChoices(prog) ==
  [v \in VerticesOf(prog) |->
     CASE v[1] = "inst" -> InstLabels(prog[v[2]], v[2], Definition(prog[v[2]], v[3]))
       [] v[1] = "pred" ->
            ConditionLabels(prog[v[2]], CHOOSE b \in DOMAIN prog[v[2]] : prog[v[2]][b][1].id = v[3])
       [] OTHER -> {Unlabelled}]

(* Every labelling that a run of the passes may come to.                   *)
Labellings(prog) ==
  LET choices == LabelChoices(prog)
      open    == {v \in DOMAIN choices : Cardinality(choices[v]) > 1}
  IN {[v \in DOMAIN choices |-> IF v \in open THEN l[v] ELSE CHOOSE x \in choices[v] : TRUE] :
        l \in {m \in [open -> UNION {choices[v] : v \in open}] : \A v \in open : m[v] \in choices[v]}}

(* WriteGraph: the label of the source is that of an edge without a meta   *)
(* label.                                                                  *)
EdgeList(prog, labelling) ==
  LET mayReturn == MayReturnEdges(prog)
      call      == CallEdges(prog)
      return    == ReturnEdges(prog)
      plain     == (UNION {FunctionEdges(prog, f) : f \in DOMAIN prog}) \cup MainEdges(prog)
      Written(meta, e) == [source |-> e[1], target |-> e[2], meta |-> meta, labels |-> {}]
      Plain(e) == [source |-> e[1], target |-> e[2], meta |-> "",
                   labels |-> {labelling[e[1]]} \ {Unlabelled}]
  IN {Written("may_ret", e) : e \in mayReturn} \cup {Written("call", e) : e \in call}
     \cup {Written("ret", e) : e \in return} \cup {Plain(e) : e \in plain \ return}

EdgeLists(prog) == {EdgeList(prog, l) : l \in Labellings(prog)}
=============================================================================
