------------------------ MODULE ErrorBlocksPrograms ------------------------
(***************************************************************************)
(* Small programs for ErrorBlocks: shapes of C functions as the required   *)
(* passes present them, the call graph's components and return ranges.     *)
(***************************************************************************)
EXTENDS ErrorBlocks, FiniteSets, SequencesExt

Call(g) == [callee |-> g, args |-> << >>, scalar |-> TRUE, returned |-> {}]

Block(calls, returned, constraints) ==
  [calls |-> calls, returned |-> returned, constraints |-> constraints,
   holds |-> {}, file |-> {"module"}]

NoConstraint == [h \in {} |-> "top"]
On(g, element) == [h \in {g} |-> element]

(* return n; *)
Leaf(n) == << Block(<< >>, {IntOf(n)}, NoConstraint) >>

(* return g(); *)
ReturnCall(g) == << Block(<<Call(g)>>, {CallOf(g)}, On(g, "top")) >>

(* if (g() in element) return n; return m; *)
Checked(g, element, n, m) ==
  << Block(<<Call(g)>>, {IntOf(n), IntOf(m)}, On(g, "bottom")),
     Block(<< >>, {IntOf(n)}, On(g, element)),
     Block(<< >>, {IntOf(m)}, On(g, Complement(element))) >>

(* if (g() in element) return n; return h(); *)
CheckThenReturn(g, element, n, h) ==
  << Block(<<Call(g)>>, {IntOf(n), CallOf(h)}, On(g, "bottom")),
     Block(<< >>, {IntOf(n)}, On(g, element)),
     Block(<<Call(h)>>, {CallOf(h)},
           [k \in {g, h} |-> IF k = h THEN "top" ELSE Complement(element)]) >>

(* if (...) { e(); return n; } r = g(); if (r in element) return r; return m; *)
FatalOrHeld(e, n, g, element, m) ==
  << Block(<<[Call(e) EXCEPT !.returned = {IntOf(n)}]>>, {IntOf(n)}, On(e, "top")),
     Block(<<Call(g)>>, {OtherValue, IntOf(m)}, On(g, "bottom")),
     [Block(<< >>, {OtherValue}, On(g, element)) EXCEPT !.holds = {CallOf(g)}],
     Block(<< >>, {IntOf(m)}, On(g, Complement(element))) >>

BlockSet(body) == {body[i] : i \in DOMAIN body}
Callees(body) == UNION {{b.calls[i].callee : i \in DOMAIN b.calls} : b \in BlockSet(body)}
Returned(body) == UNION {b.returned : b \in BlockSet(body)}

(* ReturnRangePass on these shapes: iterated from bottom. *)
ValueRange(x, ranges) ==
  CASE x.kind = "call" -> IF x.callee \in DOMAIN ranges THEN ranges[x.callee] ELSE "top"
    [] x.kind = "int"  -> IF x.v < 0 THEN "<0" ELSE IF x.v > 0 THEN ">0" ELSE "0"
    [] OTHER           -> "top"

RangeStep(bodies, ranges) ==
  [f \in DOMAIN bodies |->
     FoldSet(LAMBDA x, acc : Join(acc, ValueRange(x, ranges)), "bottom", Returned(bodies[f]))]

Ranges(bodies) ==
  LET none == [f \in DOMAIN bodies |-> "bottom"]
  IN RangeStep(bodies, RangeStep(bodies, RangeStep(bodies, none)))

(* The components of two functions f and g and of the external functions,  *)
(* which call nothing.  scc_iterator fixes no order within a component.    *)
Component(functions, loop) == [functions |-> functions, loop |-> loop]

ComponentOrders(bodies, f, g) ==
  LET calls(a, b) == b \in Callees(bodies[a])
      single(a)   == Component(<<a>>, calls(a, a))
  IN IF calls(f, g) /\ calls(g, f)
     THEN { <<Component(<<f, g>>, TRUE)>>, <<Component(<<g, f>>, TRUE)>> }
     ELSE IF calls(f, g) THEN { <<single(g), single(f)>> }
     ELSE { <<single(f), single(g)>> }

Knowledge(initial, errorOnly, errorCodes, successCodes, smart) ==
  [initial |-> initial, errorOnly |-> errorOnly, errorCodes |-> errorCodes,
   successCodes |-> successCodes, smartSuccessCodeZero |-> smart]

NoCodes == [v \in {} |-> {}]
ErrorOnly(e) == {[callee |-> e, args |-> << >>]}

(* bodies: the functions defined; externals: the declared ones. *)
Program(bodies, externals, order, knowledge) ==
  LET functions == DOMAIN bodies \cup externals
      ranges    == Ranges(bodies)
      declared  == SetToSeq(externals)
  IN [source |-> [f \in functions |-> f],
      type   |-> [f \in functions |-> "integer"],
      blocks |-> [f \in functions |-> IF f \in externals THEN << >> ELSE bodies[f]],
      range  |-> [f \in functions |-> IF f \in externals THEN "top" ELSE ranges[f]],
      components |-> [i \in DOMAIN declared |-> Component(<<declared[i]>>, FALSE)] \o order,
      knowledge |-> knowledge,
      finder |-> FALSE, synonyms |-> [f \in functions |-> << >>], vocabulary |-> {},
      operation |-> "join", minimumEvidence |-> 1]
=============================================================================
