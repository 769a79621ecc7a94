----------------------- MODULE MCErrorBlocksEmbedding -----------------------
(***************************************************************************)
(* ErrorBlocks with an embedding.  k, p and z are external functions of    *)
(* known specification (<0, >0 and 0), b is an external function of which  *)
(* nothing is known but what the embedding says, f and g are defined, f    *)
(* calls b and may call g and itself.                                      *)
(***************************************************************************)
EXTENDS ErrorBlocksPrograms

EmbeddingKnowledge(errorCodes) ==
  Knowledge([n \in {"k", "p", "z"} |-> CASE n = "k" -> "<0" [] n = "p" -> ">0" [] n = "z" -> "0"],
            {}, errorCodes, NoCodes, FALSE)

Similar(label, percent) == [label |-> label, similarity |-> percent]

(* What the embedding finds similar to b, to f and to g.                   *)
ForB == { << >>, <<Similar("z", 70)>>, <<Similar("z", 70), Similar("p", 60)>>,
          <<Similar("nowhere", 90), Similar("g", 80), Similar("k", 49)>> }
ForF == <<Similar("g", 90), Similar("p", 55)>>
ForG == { <<Similar("b", 90)>>, <<Similar("k", 80), Similar("b", 60)>> }

(* if (h() == 0) return -1; if (b() <= 0) return 0; if (p() > 0) return 1; *)
ThreeChecks(h) ==
  << Block(<<Call(h)>>, {IntOf(-1), IntOf(0), IntOf(1)}, On(h, "bottom")),
     Block(<< >>, {IntOf(-1)}, On(h, "0")),
     Block(<<Call("b")>>, {IntOf(0), IntOf(1)}, On(h, "!=0")),
     Block(<< >>, {IntOf(0)}, On("b", "<=0")),
     Block(<<Call("p")>>, {IntOf(1)}, On("p", "bottom")),
     Block(<< >>, {IntOf(1)}, On("p", ">0")) >>

Embedded(p, operation, minimum, forB, forG) ==
  [p EXCEPT !.finder = TRUE, !.vocabulary = {"b"},
            !.operation = operation, !.minimumEvidence = minimum,
            !.synonyms = [@ EXCEPT !["b"] = forB, !["g"] = forG, !["f"] = ForF]]

EmbeddedBodies(fBody, gBody) == [a \in {"f", "g"} |-> IF a = "f" THEN fBody ELSE gBody]

EmbeddedPairs ==
  LET fBodies == {ReturnCall("b"), Checked("b", "<=0", -1, 0), ThreeChecks("b"), ThreeChecks("g")}
      gBodies == {ReturnCall("b"), Checked("k", "<0", 0, 1), Leaf(-2)}
  IN UNION {{Program(EmbeddedBodies(bf, bg), {"b", "k", "p", "z"}, order, EmbeddingKnowledge(codes)) :
                order \in ComponentOrders(EmbeddedBodies(bf, bg), "f", "g"),
                codes \in {NoCodes, [v \in {-2} |-> {"module"}]}} :
              bf \in fBodies, bg \in gBodies}

(* The same with f recursive or f and g mutually recursive.                *)
Recursive(order) ==
  Program(EmbeddedBodies(ThreeChecks("f"), Leaf(0)), {"b", "k", "p", "z"}, order,
          EmbeddingKnowledge(NoCodes))

RecursiveAlone == Recursive(<<Component(<<"g">>, FALSE), Component(<<"f">>, TRUE)>>)

Mutual ==
  {Program(EmbeddedBodies(fBody, gBody), {"b", "k", "p", "z"},
           <<Component(order, TRUE)>>, EmbeddingKnowledge(NoCodes)) :
     fBody \in {ThreeChecks("g"), ReturnCall("g")},
     gBody \in {Checked("f", "<0", -1, 0), ThreeChecks("f"), ReturnCall("f")},
     order \in {<<"f", "g">>, <<"g", "f">>}}

(* g and b as two LLVM functions of one source name. *)
Shared(p) == [p EXCEPT !.source = [@ EXCEPT !["g"] = "b"]]

Queries(p) ==
  {Embedded(p, operation, minimum, forB, forG) :
     operation \in {"join", "meet", "max"}, minimum \in {1, 2}, forB \in ForB, forG \in ForG}

UniqueNames == UNION {Queries(p) : p \in EmbeddedPairs \cup Mutual \cup {RecursiveAlone}}
SharedNames ==
  UNION {{Shared(q) : q \in Queries(p)} : p \in {p \in EmbeddedPairs : "g" \notin Callees(p.blocks["f"])}}

EmbeddedPrograms == UniqueNames \cup SharedNames

(* The one recursive function and the answer that makes it loop.           *)
LoopingPrograms ==
  {Embedded(RecursiveAlone, "join", 1, <<Similar("z", percent)>>, << >>) : percent \in {70, 100}}
=============================================================================
