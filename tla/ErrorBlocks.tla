----------------------------- MODULE ErrorBlocks -----------------------------
(***************************************************************************)
(* ErrorBlocksPass::runOnModule: the bottom-up fixpoint over the strongly  *)
(* connected components of the call graph, the expansion of what stayed    *)
(* unknown from an embedding, and the check of every component's calls.    *)
(*                                                                         *)
(* A function is known by its LLVM name in the module and by its source    *)
(* name in every table of the pass; two LLVM functions may share a source  *)
(* name.  A program is a record:                                           *)
(*   source      LLVM name -> source name                                  *)
(*   type        LLVM name -> "integer", "pointer", "void" or "other"      *)
(*   blocks      LLVM name -> sequence of blocks, <<>> when external       *)
(*   range       LLVM name -> what ReturnRangePass gives, "top" if nothing *)
(*   components  the SCCs bottom-up: [functions, loop]                     *)
(*   knowledge   the request's domain knowledge                            *)
(*   finder      is a SynonymFinder configured                             *)
(*   synonyms    source name -> the embedding's answer, best first         *)
(*   vocabulary, operation, minimumEvidence: the finder's parameters       *)
(***************************************************************************)
EXTENDS ErrorSpecification

CONSTANT Programs

(* What the required passes and the request may give.                      *)
NamesOf(p) == {p.source[f] : f \in DOMAIN p.source} \cup DOMAIN p.knowledge.initial

InComponent(p, i) ==
  {p.components[i].functions[k] : k \in DOMAIN p.components[i].functions}

(* scc_iterator gives every function of the call graph in one component.   *)
IsProgram(p) ==
  LET functions == DOMAIN p.source
  IN /\ p.range \in [functions -> SignLatticeElement]
     /\ p.knowledge.initial \in [DOMAIN p.knowledge.initial -> SignLatticeElement]
     /\ \A f \in functions :
          /\ p.blocks[f] \in Seq({p.blocks[f][b] : b \in DOMAIN p.blocks[f]})
          /\ \A b \in DOMAIN p.blocks[f] : IsBlock(NamesOf(p), p.blocks[f][b])
     /\ \A i \in DOMAIN p.components :
          /\ p.components[i].loop \in BOOLEAN
          /\ p.components[i].functions \in Seq(functions)
     /\ p.components \in Seq({p.components[i] : i \in DOMAIN p.components})
     /\ \A i, j \in DOMAIN p.components :
          i # j => InComponent(p, i) \cap InComponent(p, j) = {}
     /\ p.finder \in BOOLEAN
     /\ p.operation \in {"join", "meet", "max"}
     /\ \A n \in NamesOf(p) : \A i \in DOMAIN p.synonyms[n] :
          p.synonyms[n][i].similarity \in Int /\ p.synonyms[n][i].similarity <= 100

(* The functions whose specifications visiting a block reads.              *)
ReadNames(block) ==
  {block.calls[i].callee : i \in DOMAIN block.calls} \cup DOMAIN block.constraints
  \cup {x.callee : x \in block.returned \cup block.holds}

(* scc_iterator comes to the callees first: what a function reads of       *)
(* functions with a body is of an earlier component, or of its own, which  *)
(* then has a loop.  (Not part of IsProgram: the CallGraph has no edge for *)
(* a callee that only the source name gives away.)                         *)
IsBottomUp(p) ==
  \A i \in DOMAIN p.components : \A f \in InComponent(p, i) :
    \A b \in DOMAIN p.blocks[f], g \in DOMAIN p.source :
      p.blocks[g] # << >> /\ p.source[g] \in ReadNames(p.blocks[f][b])
        => \E j \in 1 .. i : g \in InComponent(p, j) /\ (j = i => p.components[i].loop)

(* ReturnPropagationPass keeps what instructions and slots may hold: a     *)
(* returned constant that nothing is stored through holds nothing.         *)
HoldsNothing(block) ==
  ReturnsOne(block) /\ SignsOf(ReturnedValue(block)) # {} => block.holds = {}

ConstantsHoldNothing(p) ==
  \A f \in DOMAIN p.source : \A b \in DOMAIN p.blocks[f] : HoldsNothing(p.blocks[f][b])

(* The required passes speak of the calls in a function: visiting it reads *)
(* the specifications of functions that it calls.                          *)
CallsWhatItReads(p) ==
  \A f \in DOMAIN p.source : \A b \in DOMAIN p.blocks[f] :
    \A n \in ReadNames(p.blocks[f][b]) \ {""} :
      \E c \in DOMAIN p.blocks[f] : \E i \in DOMAIN p.blocks[f][c].calls :
        p.blocks[f][c].calls[i].callee = n

ErrorOnlyIsExternal(p) ==
  \A f \in DOMAIN p.source :
    IsErrorOnlyFunction(p.knowledge, p.source[f]) => p.blocks[f] = << >>

ASSUME ProgramsAssumption == \A p \in Programs : IsProgram(p)

VARIABLES
  prog,         \* the bitcode module and the request, fixed for the run
  specs,        \* error_specifications_, Unknown where there is none
  returning,    \* functions_returning_domain_knowledge_codes_
  nonDoomed,    \* non_doomed_function_names_
  instance,     \* name_to_function_
  returnTypes,  \* function_return_types_
  converged,    \* converged_functions
  phase,        \* "fixpoint", "expand" or "done"
  component,    \* index of the component being analysed
  position,     \* index into its functions, in the fixpoint phase
  changed,      \* did this pass over the component change a specification
  pending,      \* functions still to expand
  keep          \* functions of the component to add to converged

tables == <<specs, returning, nonDoomed, instance, returnTypes>>
vars == <<prog, tables, converged, phase, component, position, changed, pending, keep>>

Functions == DOMAIN prog.source
Names == NamesOf(prog)

(* Mutant: initial specifications analysed like any other. *)
IgnoreOnlyVoid(f) == prog.type[f] = "void"

IgnoreFunction(f) ==
  \/ prog.source[f] \in DOMAIN prog.knowledge.initial
  \/ prog.type[f] = "void"

Scc == prog.components[component].functions

(* Domain knowledge: the confidence of a bottom is that of its emptyset. *)
InitialSpecification(name) ==
  LET element == prog.knowledge.initial[name]
  IN ToConfidence(element, IF IsBottom(element) THEN kMaxConfidence ELSE kMinConfidence)

TypeOfName(name) == IF name \in Functions THEN prog.type[name] ELSE "other"

(* SetSpecificationsRequest and the head of runOnModule. *)
Init ==
  /\ prog \in Programs
  /\ specs = [n \in Names |-> IF n \in DOMAIN prog.knowledge.initial
                              THEN InitialSpecification(n) ELSE Unknown]
  /\ nonDoomed = {d.callee : d \in prog.knowledge.errorOnly}
                   \cup DOMAIN prog.knowledge.initial
                   \cup {n \in prog.vocabulary :
                           prog.finder /\ n \in Functions /\ ~ IgnoreFunction(n)}
  /\ returnTypes = [n \in DOMAIN prog.knowledge.initial |-> TypeOfName(n)]
  /\ converged = returnTypes
  /\ returning = {} /\ instance = [n \in {} |-> ""]
  /\ phase = "fixpoint" /\ component = 1 /\ position = 1 /\ changed = FALSE
  /\ pending = {} /\ keep = {}

With(function, key, value) ==
  [k \in DOMAIN function \cup {key} |-> IF k = key THEN value ELSE function[k]]

Analysing(p) == phase = p /\ component <= Len(prog.components)

(* UpdateErrorSpecification.  (\E over a singleton evaluates it once.)      *)
Update(f, delta) ==
  \E joined \in {ConstrainDelta(specs[prog.source[f]], delta, prog.range[f])} :
    specs' = [specs EXCEPT ![prog.source[f]] = StoredSpecification(@, joined, prog.range[f])]

(* What a run of the function would infer now. *)
Inferred(f) ==
  InferredSpecification(prog.knowledge, specs, returning, prog.source[f], prog.blocks[f])

IsFirstInstance(f) ==
  prog.source[f] \in DOMAIN instance => instance[prog.source[f]] = f

(* Left out of scc_funcs, or the second function of a source name, where   *)
(* RunOnFunction returns at once.                                          *)
SkipFunction ==
  /\ Analysing("fixpoint") /\ position <= Len(Scc)
  /\ IgnoreFunction(Scc[position]) \/ ~ IsFirstInstance(Scc[position])
  /\ position' = position + 1
  /\ UNCHANGED <<prog, tables, converged, phase, component, changed, pending, keep>>

MarkNonDoomed(name, blocks) ==
  IF BecomesNonDoomed(prog.knowledge, nonDoomed, blocks) THEN nonDoomed \cup {name}
  ELSE nonDoomed

RunOnFunction ==
  /\ Analysing("fixpoint") /\ position <= Len(Scc)
  /\ LET f    == Scc[position]
         name == prog.source[f]
     IN /\ ~ IgnoreFunction(f) /\ IsFirstInstance(f)
        /\ instance' = With(instance, name, f)
        /\ returnTypes' = With(returnTypes, name, prog.type[f])
        /\ nonDoomed' = MarkNonDoomed(name, prog.blocks[f])
        /\ IF prog.blocks[f] = << >> THEN UNCHANGED <<specs, returning>>
           ELSE /\ \E delta \in {Inferred(f)} : Update(f, delta)
                /\ returning' = InferredReturning(prog.knowledge, specs, returning,
                                                  name, prog.blocks[f])
        /\ changed' = (changed \/ specs' # specs)
  /\ position' = position + 1
  /\ UNCHANGED <<prog, converged, phase, component, pending, keep>>

PassDone == Analysing("fixpoint") /\ position > Len(Scc)

(* Mutants: a single pass over every component; passes without end.        *)
RepeatNever == FALSE
RepeatAlways == prog.components[component].loop

MustRepeat == prog.components[component].loop /\ changed

(* while (has_loop && changed) *)
Repeat ==
  /\ PassDone /\ MustRepeat
  /\ position' = 1 /\ changed' = FALSE
  /\ UNCHANGED <<prog, tables, converged, phase, component, pending, keep>>

NextComponent == component' = component + 1 /\ position' = 1 /\ changed' = FALSE

(* CheckViolations of the component's calls belongs to this step: it reads *)
(* the specifications and changes none of the tables.                      *)
LeaveWithoutFinder ==
  /\ PassDone /\ ~ MustRepeat /\ ~ prog.finder
  /\ NextComponent
  /\ UNCHANGED <<prog, tables, converged, phase, pending, keep>>

(* Mutant: known specifications expanded as well. *)
IsSettledUnlessEmpty(f) ==
  prog.source[f] \in returning \/ IsEmptyset(specs[prog.source[f]])

(* Why a function is not expanded. *)
IsSettled(f) ==
  \/ prog.source[f] \in returning
  \/ IsEmptyset(specs[prog.source[f]])
  \/ ~ IsUnknown(specs[prog.source[f]])

(* The first std::partition. *)
BeginExpansion ==
  /\ PassDone /\ ~ MustRepeat /\ prog.finder
  /\ LET scc == {f \in {Scc[i] : i \in DOMAIN Scc} : ~ IgnoreFunction(f)}
     IN /\ keep' = {f \in scc : IsSettled(f)}
        /\ pending' = scc \ keep'
  /\ phase' = "expand"
  /\ UNCHANGED <<prog, tables, converged, component, position, changed>>

(* The second std::partition, which visits in no particular order.         *)
ExpandErrorSpecification(f) ==
  /\ Analysing("expand") /\ f \in pending
  /\ LET evidence == Evidence(prog.synonyms[prog.source[f]], converged,
                              prog.type[f], prog.minimumEvidence)
     IN IF evidence = {} THEN UNCHANGED specs
        ELSE Update(f, ExpansionDelta(specs, prog.operation, evidence))
  /\ pending' = pending \ {f}
  /\ keep' = IF specs' # specs THEN keep \cup {f} ELSE keep
  /\ UNCHANGED <<prog, returning, nonDoomed, instance, returnTypes, converged,
                 phase, component, position, changed>>

(* std::for_each, and on to the next component. *)
EndExpansion ==
  /\ Analysing("expand") /\ pending = {}
  /\ converged' = [n \in DOMAIN converged \cup {prog.source[f] : f \in keep} |->
                     IF n \in DOMAIN converged THEN converged[n]
                     ELSE prog.type[CHOOSE f \in keep : prog.source[f] = n]]
  /\ phase' = "fixpoint" /\ keep' = {}
  /\ NextComponent
  /\ UNCHANGED <<prog, tables, pending>>

Finish ==
  /\ Analysing("fixpoint") = FALSE /\ phase = "fixpoint"
  /\ phase' = "done"
  /\ UNCHANGED <<prog, tables, converged, component, position, changed, pending, keep>>

Next ==
  \/ SkipFunction \/ RunOnFunction \/ Repeat \/ LeaveWithoutFinder
  \/ BeginExpansion \/ EndExpansion \/ Finish
  \/ \E f \in pending : ExpandErrorSpecification(f)

(* The pass is one thread that stops only when it is done.                 *)
Spec == Init /\ [][Next]_vars /\ WF_vars(Next)

(***************************************************************************)
(* Properties.                                                             *)
(***************************************************************************)
Analysed == {n \in DOMAIN instance : prog.blocks[instance[n]] # << >>}
Body(n) == prog.blocks[instance[n]]
Calls(n) == UNION {{Body(n)[b].calls[i] : i \in DOMAIN Body(n)[b].calls} : b \in DOMAIN Body(n)}

(* Every table is keyed by names of the module or the request, every value *)
(* in it is a confidence; only analysed functions are instances.           *)
TypeOK ==
  /\ specs \in [Names -> LatticeElementConfidence]
  /\ returning \subseteq Names
  /\ DOMAIN instance \subseteq Names
  /\ \A n \in DOMAIN instance : /\ instance[n] \in Functions /\ prog.source[instance[n]] = n
                                /\ ~ IgnoreFunction(instance[n])
  /\ DOMAIN converged \subseteq Names
  /\ phase \in {"fixpoint", "expand", "done"}
  /\ phase = "expand" => prog.finder
  /\ component \in Nat \ {0} /\ position \in Nat \ {0} /\ changed \in BOOLEAN
  /\ pending \subseteq {f \in Functions : ~ IgnoreFunction(f)}
  /\ keep \subseteq Functions

(* error_blocks_pass.cc 1119-1123: domain knowledge is never revised.      *)
InitialSpecificationsUntouched ==
  \A n \in DOMAIN prog.knowledge.initial : specs[n] = InitialSpecification(n)

(* error_blocks_pass.cc 1225-1237: no function is claimed to return errors *)
(* on its whole return range or on a value outside of it, whatever the     *)
(* order of inference and expansion.  A second LLVM function of the same   *)
(* source name, which only the embedding looks at, has a range of its own. *)
SharesName(n) == \E f \in Functions : prog.source[f] = n /\ f # instance[n]

StrictlyBelowRange ==
  \A n \in Analysed :
    (prog.finder => ~ SharesName(n)) /\ prog.range[instance[n]] # "bottom"
      => BelowRange(specs[n], prog.range[instance[n]])

(* Without an embedding a specification only grows: a sign once claimed    *)
(* stays, and a known specification stays known.                           *)
KeepsClaims ==
  ~ prog.finder =>
    \A n \in Names : /\ Support(specs[n]) \subseteq Support(specs'[n])
                     /\ ~ IsUnknown(specs[n]) => ~ IsUnknown(specs'[n])

OnlyGrows == [][KeepsClaims]_specs

(* Without an embedding, every sign in a final specification is one that   *)
(* the function's own body yields under the final specifications: nothing  *)
(* is left over from an intermediate pass over a recursive component.      *)
(* Zero is excepted where smart_success_code_zero is set: the update joins *)
(* with what an earlier pass inferred, so a zero that a later pass drops   *)
(* from the delta stays.                                                   *)
SpecificationsAreJustified ==
  phase = "done" /\ ~ prog.finder =>
    \A n \in Analysed \ DOMAIN prog.knowledge.initial :
      LET except == IF prog.knowledge.smartSuccessCodeZero THEN {"zero"} ELSE {}
      IN Support(specs[n]) \subseteq Support(Inferred(instance[n])) \cup except

(* Without an embedding, a function reported to return no error at all     *)
(* calls only functions so reported, error-only ones aside, and claims no  *)
(* sign: emptyset is passed up the call graph only where every block       *)
(* supports it.                                                            *)
EmptysetIsTransitive ==
  phase = "done" /\ ~ prog.finder =>
    \A n \in Analysed \ DOMAIN prog.knowledge.initial :
      IsEmptyset(specs[n]) =>
        /\ Support(specs[n]) = {}
        /\ \A call \in Calls(n) : \/ IsErrorOnlyFunctionCall(prog.knowledge, call)
                                   \/ CalleeEmptyset(specs, call)

(* The loop of lines 158-165 ends, so the whole pass does: always, and     *)
(* where there is no embedding.                                            *)
Terminates == <>(phase = "done")
TerminatesUnembedded == ~ prog.finder => Terminates

(* Without an embedding the analysis stops at a fixpoint: no function      *)
(* would change again.  Line 165 watches the specifications only, and with *)
(* smart_success_code_zero inference also reads which functions return     *)
(* codes: a ring of three functions is left before these have gone round   *)
(* it, so the property is about requests without it.                       *)
StopsAtFixpoint ==
  phase = "done" /\ ~ prog.finder /\ ~ prog.knowledge.smartSuccessCodeZero =>
    \A n \in Analysed \ DOMAIN prog.knowledge.initial :
      UpdatedSpecification(specs[n], Inferred(instance[n]), prog.range[instance[n]]) = specs[n]

(* What the expansion takes as evidence does not change any more: neither  *)
(* the functions expanded with it, in whatever order std::partition visits *)
(* them, nor a later component can revise a converged specification.       *)
ConvergedIsFinal ==
  [][\A n \in DOMAIN converged : specs'[n] = specs[n]]_specs
=============================================================================
