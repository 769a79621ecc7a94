-------------------------- MODULE DataflowPasses --------------------------
(***************************************************************************)
(* The four dataflow passes of the EESI server over one module, in the     *)
(* order in which the pass manager runs them.  The first three treat       *)
(* functions in parallel; their threads share no fact, so that the         *)
(* functions are taken one after another here.  The last one goes bottom-  *)
(* up over the components of the call graph.                               *)
(*                                                                         *)
(* One step is one block of the loop in a pass's RunOnFunction.            *)
(*                                                                         *)
(* A program is a record:                                                  *)
(*   body        the functions that have one -> their body                 *)
(*   void        those of them that return nothing                         *)
(*   pointer     those of them that return a pointer                       *)
(*   components  the SCCs bottom-up: [functions, loop]                     *)
(***************************************************************************)
EXTENDS ReturnRange

CONSTANT Programs

InComponent(p, i) == Range(p.components[i].functions)

(* scc_iterator: a function is of one component, which comes after those   *)
(* of its callees, or has a loop.                                          *)
IsBottomUp(p) ==
  \A i \in DOMAIN p.components : \A f \in InComponent(p, i) :
    /\ \A j \in DOMAIN p.components : f \in InComponent(p, j) => j = i
    /\ \A g \in Callees(p.body[f]) \cap DOMAIN p.body :
         \E j \in 1..i : g \in InComponent(p, j) /\ (j = i => p.components[i].loop)

IsProgram(p) ==
  /\ "none" \notin DOMAIN p.body
  /\ \A f \in DOMAIN p.body :
       /\ IsBody(p.body[f]) /\ DefinitionsDominateUses(p.body[f])
       /\ \A inst \in InstructionsOf(p.body[f]) :
            IsTyped(inst) /\ (inst.op = "call" /\ inst.f \in p.void => inst.id \notin UsedIn(p.body[f]))
  /\ p.void \subseteq DOMAIN p.body
  /\ p.pointer \subseteq DOMAIN p.body
  /\ p.components \in Seq(Range(p.components))
  /\ \A i \in DOMAIN p.components :
       /\ p.components[i].loop \in BOOLEAN
       /\ p.components[i].functions \in Seq(DOMAIN p.body)
  /\ UNION {InComponent(p, i) : i \in DOMAIN p.components} = DOMAIN p.body
  /\ IsBottomUp(p)

ASSUME ProgramsAssumption == \A p \in Programs : IsProgram(p)

VARIABLES
  prog,         \* the module, fixed for the run
  pass,         \* the pass that is running, or "done"
  todo,         \* functions a parallel pass has not begun
  fn,           \* the function being analysed
  block,        \* index of the block to visit next
  changed,      \* changed of RunOnFunction
  component,    \* index of the component ReturnRangePass is at
  position,     \* index into its functions
  moved,        \* changed of ReturnRangePass::runOnModule
  facts,        \* pass -> function -> its facts
  ranges        \* return_ranges_

vars == <<prog, pass, todo, fn, block, changed, component, position, moved, facts, ranges>>

Pass == <<"propagation", "constraints", "returned", "range">>

InitialOf(p, body) ==
  CASE p = "propagation" -> PropagationInit(body)
    [] p = "constraints" -> ConstraintsInit(body)
    [] p = "returned"    -> ReturnedInit(body)
    [] p = "range"       -> RangeInit(body)

(* The runOnModule of each pass makes its facts when it begins; that it is *)
(* done for all at the beginning makes no difference, nobody reads them.   *)
Init ==
  /\ prog \in Programs
  /\ pass = "propagation"
  /\ todo = DOMAIN prog.body
  /\ fn = "none" /\ block = 0 /\ changed = FALSE
  /\ component = 1 /\ position = 1 /\ moved = FALSE
  /\ facts = [p \in Range(Pass) |-> [f \in DOMAIN prog.body |-> InitialOf(p, prog.body[f])]]
  /\ ranges = [f \in DOMAIN prog.body |-> Absent]

Body == prog.body[fn]

StepOf(p) ==
  CASE p = "propagation" -> PropagationStep(Body, facts.propagation[fn], block)
    [] p = "constraints" -> ConstraintsStep(Body, facts.propagation[fn], facts.constraints[fn], block)
    [] p = "returned"    -> ReturnedStep(Body, facts.returned[fn], block)
    [] p = "range"       -> RangeStep(Body, ranges, facts.returned[fn], facts.range[fn], block)

(* ShouldIgnore, of a function that has a body.                            *)
ShouldIgnore(f) == f \in prog.void

(* A parallel pass takes up a function.                                    *)
Begin(f) ==
  /\ pass # "range" /\ fn = "none" /\ f \in todo
  /\ fn' = f /\ block' = 1 /\ changed' = FALSE
  /\ todo' = todo \ {f}
  /\ UNCHANGED <<prog, pass, component, position, moved, facts, ranges>>

(* ReturnRangePass comes to a function of the component, and remembers     *)
(* what its range was.                                                     *)
BeginInComponent ==
  LET functions == prog.components[component].functions
  IN /\ pass = "range" /\ fn = "none"
     /\ component <= Len(prog.components) /\ position <= Len(functions)
     /\ IF ShouldIgnore(functions[position])
        THEN position' = position + 1 /\ UNCHANGED <<fn, block, changed>>
        ELSE /\ fn' = functions[position] /\ block' = 1 /\ changed' = FALSE
             /\ UNCHANGED position
     /\ UNCHANGED <<prog, pass, todo, component, moved, facts, ranges>>

(* One block: join its neighbours, then VisitBlock.                        *)
VisitNextBlock ==
  /\ fn # "none" /\ block <= Len(Body)
  /\ \E step \in {StepOf(pass)} :
        /\ facts' = [facts EXCEPT ![pass][fn] = step.facts]
        /\ changed' = (changed \/ step.changed)
        /\ IF pass = "range"
           THEN /\ ranges' = [ranges EXCEPT ![fn] =
                                RangeReturned(Body, ranges, step.facts, block,
                                              fn \in prog.pointer, @)]
                /\ moved' = (moved \/ ranges'[fn] # ranges[fn])
           ELSE UNCHANGED <<ranges, moved>>
  /\ block' = block + 1
  /\ UNCHANGED <<prog, pass, todo, fn, component, position>>

(* Mutant: changed is not reset before the next round.                     *)
NextRoundUnreset ==
  /\ fn # "none" /\ block > Len(Body) /\ changed
  /\ block' = 1
  /\ UNCHANGED <<prog, pass, todo, fn, changed, component, position, moved, facts, ranges>>

(* The while of RunOnFunction: another round over the blocks.              *)
NextRound ==
  /\ fn # "none" /\ block > Len(Body) /\ changed
  /\ block' = 1 /\ changed' = FALSE
  /\ UNCHANGED <<prog, pass, todo, fn, component, position, moved, facts, ranges>>

(* RunOnFunction returns.                                                  *)
EndFunction ==
  /\ fn # "none" /\ block > Len(Body) /\ ~changed
  /\ fn' = "none"
  /\ position' = IF pass = "range" THEN position + 1 ELSE position
  /\ UNCHANGED <<prog, pass, todo, block, changed, component, moved, facts, ranges>>

(* The do-while over a component with a loop, and the next component.      *)
EndComponent ==
  /\ pass = "range" /\ fn = "none" /\ component <= Len(prog.components)
  /\ position > Len(prog.components[component].functions)
  /\ component' = IF prog.components[component].loop /\ moved THEN component ELSE component + 1
  /\ position' = 1 /\ moved' = FALSE
  /\ UNCHANGED <<prog, pass, todo, fn, block, changed, facts, ranges>>

EndPass ==
  /\ fn = "none"
  /\ IF pass = "range" THEN component > Len(prog.components)
     ELSE pass # "done" /\ todo = {}
  /\ pass' = CASE pass = "propagation" -> "constraints"
               [] pass = "constraints" -> "returned"
               [] pass = "returned"    -> "range"
               [] pass = "range"       -> "done"
  /\ todo' = IF pass' \in {"constraints", "returned"} THEN DOMAIN prog.body ELSE {}
  /\ UNCHANGED <<prog, fn, block, changed, component, position, moved, facts, ranges>>

Analyse ==
  \/ \E f \in todo : Begin(f)
  \/ BeginInComponent
  \/ VisitNextBlock
  \/ NextRound
  \/ EndFunction
  \/ EndComponent
  \/ EndPass
=============================================================================
