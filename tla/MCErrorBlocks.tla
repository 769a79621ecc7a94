--------------------------- MODULE MCErrorBlocks ---------------------------
(***************************************************************************)
(* ErrorBlocks with an embedding, on the programs of the module extended,  *)
(* and without one, on every pair of bodies below: each function ignores,  *)
(* checks or returns the other, an external function of known error        *)
(* specification (k) and an unknown one (u), and may call an error-only    *)
(* one (e).                                                                *)
(***************************************************************************)
EXTENDS MCErrorBlocksEmbedding

Bodies(other, self) ==
  {Leaf(n) : n \in {-2, 0}}
    \cup {ReturnCall(h) : h \in {other, "k"}}
    \cup {Checked(h, "<0", n, 0) : h \in {other, "k"}, n \in {-1, 0, 1}}
    \cup {CheckThenReturn("k", "<0", n, h) : n \in {-2, 0, 1}, h \in {other, self}}
    \cup {CheckThenReturn(h, "<0", -1, other) : h \in {"u", self}}
    \cup {FatalOrHeld("e", -1, other, "<0", 0)}

KnowledgeBases ==
  { Knowledge(initial, ErrorOnly("e"), errorCodes, [v \in {0} |-> {}], smart) :
      initial \in {[n \in {"k"} |-> "<0"], [n \in {"k"} |-> "bottom"],
                   [n \in {"k", "g"} |-> IF n = "k" THEN "<0" ELSE ">0"]},
      errorCodes \in {NoCodes, [v \in {-2} |-> {"module"}]},
      smart \in BOOLEAN }

ProgramsOf(fBodies, gBodies, externals, knowledge) ==
  UNION { LET bodies == [a \in {"f", "g"} |-> IF a = "f" THEN bf ELSE bg]
          IN {Program(bodies, externals, order, k) :
                order \in ComponentOrders(bodies, "f", "g"), k \in knowledge} :
          bf \in fBodies, bg \in gBodies }

(* ErrorBlocks' fairness, spelled out for its only action, which is        *)
(* enabled until the pass is done: TLC takes long to find that out.        *)
RunningSpec == Init /\ [][Next]_vars /\ ([]<>(phase = "done") \/ []<><<Next>>_vars)

PlainPrograms ==
  ProgramsOf(Bodies("g", "f"), Bodies("f", "g"), {"e", "k", "u"}, KnowledgeBases)

MCPrograms == PlainPrograms \cup EmbeddedPrograms

(* What the theorems on this analysis suppose of a program without an      *)
(* embedding is so of these.                                               *)
ASSUME ProgramsArePlain ==
  \A p \in {q \in Programs : ~ q.finder} :
    /\ ConstantsHoldNothing(p) /\ CallsWhatItReads(p)
    /\ ErrorOnlyIsExternal(p) /\ IsBottomUp(p)
=============================================================================
