----------------------------- MODULE Execution -----------------------------
(***************************************************************************)
(* What the dataflow passes are about: when they have all run, one of the  *)
(* functions is executed, and every state of the execution is compared     *)
(* with the facts at its program point.                                    *)
(*                                                                         *)
(* The meaning of the instructions is LLVM's, not the repository's.  A     *)
(* call of a function without a body may return any value of               *)
(* ExternalValues; a call of one with a body any value within the range    *)
(* computed for it, so that a function is right if its callees are: by     *)
(* induction on the depth of calls, all of them are.                       *)
(*                                                                         *)
(* A value is carried as a record that also says where it comes from:      *)
(*   n       the integer; a pointer is 0 when null                         *)
(*   source  the call whose unmodified result it is, or the constant it    *)
(*           was stored as; "" otherwise                                   *)
(*   latest  has its callee not been called again since                    *)
(*   trail   the program points it has been at, with the name that held    *)
(*           it there: <<block, point, name>>                              *)
(***************************************************************************)
EXTENDS DataflowPasses, Checkers

CONSTANT ExternalValues

ASSUME ExternalValuesAssumption == ExternalValues \subseteq -2..2 /\ ExternalValues # {}

VARIABLES
  exec    \* the execution: see Idle

allVars == <<vars, exec>>

(*   fn, b, k  the function, and where it is                               *)
(*   env       the values of its slots and instructions                    *)
(*   about     callee -> the value that the constraints on it are about,   *)
(*             Undetermined when a test looked at another one              *)
(*   loose     has a test looked at a value that its slot no longer held,  *)
(*             or a slot been read that nothing was stored in              *)
Undetermined == 9
Idle == [fn |-> "none", b |-> 0, k |-> 0, env |-> <<>>, about |-> <<>>, loose |-> FALSE]

SignOf(n) == CASE n < 0 -> "neg" [] n = 0 -> "zero" [] n > 0 -> "pos"

Fresh(n, source) == [n |-> n, source |-> source, latest |-> TRUE, trail |-> {}]

ConstantNumber(v) ==
  CASE v \in DOMAIN IntegerConstant -> IntegerConstant[v]
    [] v = "null"                   -> 0
    [] v \in {"true", "literal"}    -> 1

Code == prog.body[exec.fn]
Current == Code[exec.b][exec.k]

(* The value of an operand; a slot that was never written holds anything.  *)
Operand(v) ==
  IF v \in Constant THEN {Fresh(ConstantNumber(v), "")}
  ELSE IF v \in DOMAIN exec.env THEN {exec.env[v]}
  ELSE {Fresh(n, "") : n \in ExternalValues}

(* It is read before anything was stored in it.  (An instruction never is: *)
(* its definition dominates its uses.)                                     *)
IsUnset(v) == (v \in Slots(Code) \/ IsInstruction(Code, v)) /\ v \notin DOMAIN exec.env

Holds(p, x, y) ==
  CASE p = "slt" -> x < y  [] p = "sgt" -> x > y
    [] p = "sle" -> x <= y [] p = "sge" -> x >= y
    [] p = "eq"  -> x = y  [] p = "ne"  -> x # y

(* Unsigned numbers: a negative one is larger than all others.             *)
AsUnsigned(n) == IF n < 0 THEN n + 10 ELSE n

Compare(inst, x, y) ==
  IF inst.u THEN Holds(inst.p, AsUnsigned(x), AsUnsigned(y)) ELSE Holds(inst.p, x, y)

Least(x, y) == IF x < y THEN x ELSE y

(* What an instruction that computes something may give.  The casts keep   *)
(* an integer that fits the narrower type; zext reads its operand as       *)
(* unsigned; the binary operator is an increment, up to the largest value. *)
Extended(inst) == {Fresh(IF x.n < 0 THEN 2 ELSE x.n, "") : x \in Operand(inst.a)}

Incremented(inst) == {Fresh(Least(x.n + 1, 2), "") : x \in Operand(inst.a)}

Compared(inst) ==
  {Fresh(n, "") : n \in {m \in 0..1 : \E x \in Operand(inst.a), y \in Operand(inst.b) :
                                       m = 1 <=> Compare(inst, x.n, y.n)}}

Called(inst) ==
  LET hasBody == inst.f \in DOMAIN prog.body \ prog.void
      given   == IF inst.f \in ErrFunctions THEN Operand(inst.a)
                 ELSE {Fresh(n, inst.id) : n \in IF hasBody THEN -2..2 ELSE ExternalValues}
  IN {x \in given : hasBody => ranges[inst.f] # Absent /\ SignOf(x.n) \in Gamma[ranges[inst.f]]}

Results(inst) ==
  CASE inst.op \in LoadLike \cup {"trunc", "sext"} -> Operand(inst.a)
    [] inst.op = "zext"   -> Extended(inst)
    [] inst.op = "binary" -> Incremented(inst)
    [] inst.op = "icmp"   -> Compared(inst)
    [] inst.op = "call"   -> Called(inst)

(* Every value held at a point has been there.                             *)
Here(env, b, k) ==
  [v \in DOMAIN env |-> [env[v] EXCEPT !.trail = @ \cup {<<b, k, v>>}]]

At(b, k, env, about, loose) ==
  exec' = [exec EXCEPT !.b = b, !.k = k, !.env = Here(env, b, k), !.about = about,
                       !.loose = loose]

(* The casts that ReturnPropagationPass does not follow give a value whose *)
(* source it does not know, and so do the error functions.                 *)
Followed(inst, x) ==
  IF inst.op \in {"trunc", "sext"} THEN [x EXCEPT !.source = ""]
  ELSE IF inst.op = "call" THEN [x EXCEPT !.source = inst.id, !.latest = TRUE]
  ELSE x

(* A call of f makes what earlier calls of it returned older.              *)
Older(env, inst) ==
  IF inst.op # "call" THEN env
  ELSE [v \in DOMAIN env |->
          IF Definition(Code, env[v].source).op = "call" /\ Definition(Code, env[v].source).f = inst.f
          THEN [env[v] EXCEPT !.latest = FALSE] ELSE env[v]]

(* env with v holding x.                                                  *)
Bind(env, v, x) == [w \in DOMAIN env \cup {v} |-> IF w = v THEN x ELSE env[w]]

ExecuteValue ==
  /\ Current.op \in LoadLike \cup {"trunc", "sext", "zext", "binary", "icmp", "call"}
  /\ \E x \in Results(Current) :
       At(exec.b, exec.k + 1,
          Bind(Older(exec.env, Current), Current.id, Followed(Current, x)),
          IF Current.op = "call" THEN [exec.about EXCEPT ![Current.f] = x.n] ELSE exec.about,
          exec.loose \/ \E v \in Reads(Current) : IsUnset(v))

ExecuteStore ==
  /\ Current.op = "store"
  /\ \E x \in Operand(Current.a) :
       At(exec.b, exec.k + 1,
          Bind(exec.env, Current.b,
               IF Current.a \in ConstantInt
               THEN [x EXCEPT !.source = Current.a] ELSE x),
          exec.about, exec.loose \/ IsUnset(Current.a))

(* Go to a successor: its phis are evaluated on the way.                   *)
Goto(to, about, loose) ==
  LET phis == {i \in DOMAIN Code[to] : Code[to][i].op = "phi"}
      ids  == {Code[to][i].id : i \in phis}
      env  == Here(exec.env, to, 1)
  IN \E x \in [phis -> UNION {Operand(Code[to][i].in[exec.b]) : i \in phis}] :
       /\ \A i \in phis : x[i] \in Operand(Code[to][i].in[exec.b])
       /\ At(to, 1 + Cardinality(phis),
             [v \in DOMAIN env \cup ids |->
                IF v \in ids THEN x[CHOOSE i \in phis : Code[to][i].id = v] ELSE env[v]],
             about, loose \/ \E i \in phis : IsUnset(Code[to][i].in[exec.b]))

(* What the constraints are about after a test of v: a callee that may     *)
(* have given v, as far as the pass knows, but not in its latest call in   *)
(* this execution, is one the pass does not speak of.                      *)
AboutAfter(v) ==
  LET tested == TestedCallees(Code, facts.propagation[exec.fn], v)
      own(f) == /\ v \in DOMAIN exec.env /\ exec.env[v].latest
                /\ Definition(Code, exec.env[v].source).op = "call"
                /\ Definition(Code, exec.env[v].source).f = f
  IN [f \in DOMAIN exec.about |->
        IF f \in tested /\ ~own(f) THEN Undetermined ELSE exec.about[f]]

(* The slot ReturnRangePass takes a test to be about holds another sign    *)
(* than v, which the test is about.                                        *)
IsLoose(slot, v) ==
  /\ slot \in DOMAIN exec.env
  /\ \E x \in Operand(v) : SignOf(exec.env[slot].n) # SignOf(x.n)

ReturnableBehind == facts.returned[exec.fn][exec.b][Len(Code[exec.b]) + 1]

IsTabled(v) == v \in ConstantInt \cup {"null"}

(* The operand that the tables speak of, if the other one is a constant.   *)
SpokenOf(test) ==
  CASE IsTabled(test.b)                        -> {test.a}
    [] ~IsTabled(test.b) /\ IsTabled(test.a)   -> {test.b}
    [] ~IsTabled(test.b) /\ ~IsTabled(test.a)  -> {}

(* The tables do not speak of an unsigned comparison in which a negative   *)
(* number takes part, and are wrong about one that asks if something is    *)
(* more or less than null, as the predicate is swapped once too often, and *)
(* about one with a true i1, which is read as a negative number.           *)
OutOfTable(test) ==
  \/ test.u /\ \E x \in Operand(test.a) \cup Operand(test.b) : x.n < 0
  \/ "null" \in {test.a, test.b} /\ test.p \notin {"eq", "ne"}
  \/ "true" \in {test.a, test.b}

ExecuteBranch ==
  /\ Current.op = "branch"
  /\ LET test  == Definition(Code, Current.a)
         isCmp == test.op = "icmp"
         v     == TestedValue(Code, test)
         about == IF ~isCmp THEN exec.about
                  ELSE IF OutOfTable(test)
                  THEN [f \in DOMAIN exec.about |->
                          IF f \in TestedCallees(Code, facts.propagation[exec.fn], v)
                          THEN Undetermined ELSE exec.about[f]]
                  ELSE AboutAfter(v)
         slot  == BranchedSlot(Code, test, ReturnableBehind)
         loose == exec.loose \/ (isCmp /\ (OutOfTable(test) \/ \E w \in SpokenOf(test) : IsLoose(slot, w)))
     IN \E c \in Operand(Current.a) :
          Goto(IF c.n # 0 THEN Current.t ELSE Current.e, about, loose)

ExecuteSwitch ==
  /\ Current.op = "switch"
  /\ LET taken(n) == {i \in DOMAIN Current.cases : IntegerConstant[Current.cases[i].value] = n}
         slot     == CheckedReturnValue(Code, Current, Current.a, ReturnableBehind)
         loose    == exec.loose \/ IsLoose(slot, Current.a)
         tested   == TestedCallees(Code, facts.propagation[exec.fn], Current.a)
     IN \E x \in Operand(Current.a) :
          IF taken(x.n) # {}
          THEN Goto(Current.cases[CHOOSE i \in taken(x.n) : TRUE].to, AboutAfter(Current.a), loose)
          ELSE Goto(Current.e,
                    [f \in DOMAIN exec.about |-> IF f \in tested THEN Undetermined ELSE exec.about[f]],
                    loose)

ExecuteJump ==
  /\ Current.op = "jump"
  /\ Goto(Current.t, exec.about, exec.loose)

(* A return, or a call that does not come back: of a function that has an  *)
(* empty range because it never returns.                                   *)
Leave ==
  /\ \/ Current.op = "return"
     \/ Current.op = "call" /\ Results(Current) = {}
  /\ exec' = Idle

(* The analysis is over: execute one of the functions from its entry.      *)
Enter(f) ==
  /\ pass = "done" /\ exec.fn = "none" /\ f \notin prog.void
  /\ exec' = [Idle EXCEPT !.fn = f, !.b = 1, !.k = 1,
                          !.about = [g \in Callees(prog.body[f]) |-> Undetermined]]

Run ==
  \/ \E f \in DOMAIN prog.body : Enter(f)
  \/ /\ exec.fn # "none"
     /\ \/ ExecuteValue \/ ExecuteStore \/ ExecuteJump \/ ExecuteBranch \/ ExecuteSwitch
        \/ Leave

ExecInit == Init /\ exec = Idle

ExecNext ==
  \/ Analyse /\ UNCHANGED exec
  \/ Run /\ UNCHANGED vars

(* The analysis is one thread that runs until it is done: weak fairness of *)
(* Analyse, which is enabled until then (no run meets a deadlock).  It is  *)
(* spelled out because TLC takes long to find out that a step is enabled.  *)
Fairness == []<>(pass = "done") \/ []<><<Analyse>>_vars

ExecSpec == ExecInit /\ [][ExecNext]_allVars /\ Fairness

-----------------------------------------------------------------------------
Running == exec.fn # "none"
FactsHere(p) == facts[p][exec.fn][exec.b][exec.k]
HasPhi(body) == \E i \in InstructionsOf(body) : i.op = "phi"
Returning == Running /\ Current.op = "return"

(* A test that is alone in its block, its comparison being in another one. *)
(* The constraints and range passes write what it finds into the entries   *)
(* of its successors, and watch for changes after each instruction only:   *)
(* nothing there tells them that what a lone test passes on has changed.   *)
(* What they promise is not kept where there is one.                       *)
HasLoneTest(body) ==
  \E b \in DOMAIN body : Len(body[b]) = 1 /\ Terminator(body[b]).op \in {"branch", "switch"}

(* Whatever value a name holds that some call returned, or that was stored *)
(* as a constant, ReturnPropagationPass knows that it may: in functions    *)
(* without phis, after which the pass forgets what other values hold.      *)
SourcesAreKnown ==
  Running /\ ~HasPhi(Code) =>
    \A v \in DOMAIN exec.env :
      exec.env[v].source # "" => exec.env[v].source \in FactsHere("propagation")[v]

(* A test that was passed with the result of the latest call of a function *)
(* leaves a constraint that this result satisfies, at every point from     *)
(* there on, whatever the other paths are, until a test of the function    *)
(* looks at something else.                                                *)
ConstraintsCoverResults ==
  Running /\ ~HasLoneTest(Code) =>
    \A f \in DOMAIN exec.about :
      exec.about[f] # Undetermined =>
        FactsHere("constraints")[f] # Absent /\
        SignOf(exec.about[f]) \in Gamma[FactsHere("constraints")[f]]

(* All names through which the value that is returned has passed were      *)
(* among the values ReturnedValuesPass said may be returned from there.    *)
ReturnedValuesCoverPaths ==
  Returning =>
    \A x \in Operand(Current.a) : \A t \in x.trail :
      t[3] \in facts.returned[exec.fn][t[1]][t[2]]

(* return_range_pass.h: "It also calculates each function's return range." *)
(* A function returns values of this range only: what ErrorBlocks takes    *)
(* for the largest error specification it may infer.                       *)
ReturnsAreInRange ==
  Returning /\ ~exec.loose /\ ~IsUnset(Current.a) =>
    /\ ranges[exec.fn] # Absent
    /\ \A x \in Operand(Current.a) : SignOf(x.n) \in Gamma[ranges[exec.fn]]

(* The pass takes what a name stands for in memory and the name itself for *)
(* the same, and looks at the incoming values of a phi as they are after   *)
(* the phis before it: in a plain body slots alone are loaded and stored,  *)
(* and no phi takes what one before it gives.  Nor are two constants       *)
(* compared, which LLVM folds.                                             *)
IsPlain(body) ==
  /\ \A i \in InstructionsOf(body) :
       /\ i.id \notin Slots(body)
       /\ i.op = "load" => i.a \in Slots(body)
       /\ i.op = "icmp" => i.a \notin Constant \/ i.b \notin Constant
  /\ \A b \in DOMAIN body : \A k \in DOMAIN body[b] :
       body[b][k].op = "phi" =>
         \A p \in DOMAIN body[b][k].in : \A j \in 1..k - 1 : body[b][k].in[p] # body[b][j].id

(* It is so in plain functions without a lone test.                        *)
RangesCoverReturns == Running /\ ~HasLoneTest(Code) /\ IsPlain(Code) => ReturnsAreInRange

(* insufficient_checks_pass.h: "checking -1 is considered sufficient for   *)
(* an error specification of less than zero".  Once the test of a result   *)
(* for a constant has really been passed with the latest result of the     *)
(* only function it may be about, no call of this function is reported as  *)
(* insufficiently checked for the sign of that constant, and the call      *)
(* that gave the result is not reported as unused.                         *)
TestOfEdge(p) == Definition(Code, Terminator(Code[p]).a)

IsPassedTest(f, b, p) ==
  LET last == Terminator(Code[p])
  IN /\ last.op = "branch" /\ last.t = b /\ last.e # b
     /\ TestOfEdge(p).op = "icmp" /\ TestOfEdge(p).p = "eq"
     /\ TestOfEdge(p).b \in DOMAIN IntegerConstant
     /\ TestedCallees(Code, facts.propagation[exec.fn], TestOfEdge(p).a) = {f}

TestedErrorsAreNoBugs ==
  Running /\ exec.k = 1 /\ ~HasLoneTest(Code) =>
    \A f \in DOMAIN exec.about \ Renamed : \A p \in DOMAIN Code :
      /\ exec.about[f] # Undetermined
      /\ Predecessors(Code, exec.b) = {p} /\ IsPassedTest(f, exec.b, p)
      => \A call \in {i \in InstructionsOf(Code) : i.op = "call" /\ i.f = f} :
           \A s \in {x \in {"<0", "0", ">0"} : SignOf(exec.about[f]) \in Gamma[x]} :
             /\ ~ IsReportedInsufficient(Code, prog.void, facts.propagation[exec.fn],
                                         facts.constraints[exec.fn], call, s)
             /\ exec.env[TestOfEdge(p).a].source = call.id =>
                  ~ IsReportedUnused(Code, prog.void, call, s)

(* Visiting the blocks of a function once more changes nothing.            *)
Settled(f, p) ==
  LET body == prog.body[f]
  IN \A b \in DOMAIN body :
       CASE p = "propagation" ->
              PropagationStep(body, facts[p][f], b).facts = facts[p][f]
         [] p = "constraints" ->
              ConstraintsStep(body, facts.propagation[f], facts[p][f], b).facts = facts[p][f]
         [] p = "returned" ->
              ReturnedStep(body, facts[p][f], b).facts = facts[p][f]
         [] p = "range" ->
              RangeStep(body, ranges, facts.returned[f], facts[p][f], b).facts = facts[p][f]

(* A round that leaves nothing behind any instruction is the last: the     *)
(* range pass does not see that a test has passed something on.            *)
FindsNothing(f) ==
  \A b \in DOMAIN prog.body[f] : \A k \in DOMAIN prog.body[f][b] :
    Range(facts.range[f][b][k + 1]) = {Absent}

(* When a pass over a function is over, visiting its blocks once more      *)
(* changes nothing: `changed` has seen every change that matters, but for  *)
(* those that a lone test passes on, and those that any test passes on in  *)
(* a function where ReturnRangePass finds nothing.                         *)
PassesStopAtFixpoints ==
  pass = "done" /\ exec = Idle =>
    \A f \in DOMAIN prog.body \ prog.void : \A p \in DOMAIN facts :
      (HasLoneTest(prog.body[f]) => p \in {"propagation", "returned"})
        => Settled(f, p) \/ (p = "range" /\ FindsNothing(f))

(* The loops over blocks and over recursive components end.                *)
AnalysisEnds == <>(pass = "done")
=============================================================================
