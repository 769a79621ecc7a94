---------------------------- MODULE ReturnRange ----------------------------
(***************************************************************************)
(* ReturnRangePass: the range of the values that may be returned, and from *)
(* it the return range of every function.  A fact maps a value to its      *)
(* range; entries of values that cannot be returned are filtered away.     *)
(*   ranges    return_ranges_, Absent where a function has none yet        *)
(*   returned  the function's facts of ReturnedValuesPass                  *)
(***************************************************************************)
EXTENDS ReturnConstraints, ReturnedValues

RangeInit(body) == InitialFacts(body, [v \in ValuesOf(body) |-> Absent])

(* FilteredCopy; FilteredJoin joins this into a fact.                      *)
Filtered(fact, returnable) ==
  [v \in DOMAIN fact |-> IF v \in returnable THEN fact[v] ELSE Absent]

(* AbstractValue, with AbstractCall in it: the range of a value that has   *)
(* no entry.  defined maps the functions that have a body to their ranges. *)
AbstractValue(body, defined, v) ==
  LET inst == Definition(body, v)
  IN CASE v \in DOMAIN IntegerConstant -> AbstractInteger(v)
       [] v = "null"                   -> "0"
       [] v \in {"true", "literal"}    -> "!=0"
       [] inst.op = "call" /\ inst.f \in DOMAIN defined ->
            IF defined[inst.f] = Absent THEN "bottom" ELSE defined[inst.f]
       [] inst.op = "zext"             -> ">=0"
       [] OTHER                        -> "top"

RangeOf(body, defined, fact, v) ==
  IF fact[v] # Absent THEN fact[v] ELSE AbstractValue(body, defined, v)

(* VisitStoreInst and VisitLoadLikeInst: target takes the range of source. *)
RangeCopied(body, defined, before, returnable, source, target) ==
  LET out == Filtered(before, returnable)
  IN IF target \notin returnable THEN out
     ELSE [out EXCEPT ![target] = RangeOf(body, defined, before, source)]

(* VisitPHINode: the ranges of the incoming values joined.                 *)
RangePhi(body, defined, before, returnable, inst) ==
  LET out == Filtered(before, returnable)
  IN IF inst.id \notin returnable THEN out
     ELSE [out EXCEPT ![inst.id] =
             JoinTable[{RangeOf(body, defined, before, inst.in[p]) : p \in DOMAIN inst.in}]]

(* GetCheckedReturnValue: the returnable slot that a comparison of v looks *)
(* at, "none" if there is none: v was loaded from it, or has just been     *)
(* stored in it.                                                           *)
Previous(body, inst) ==
  LET b == CHOOSE b \in DOMAIN body : \E k \in DOMAIN body[b] : body[b][k] = inst
      k == CHOOSE k \in DOMAIN body[b] : body[b][k] = inst
  IN IF k = 1 THEN [op |-> "none"] ELSE body[b][k - 1]

CheckedReturnValue(body, cmp, v, returnable) ==
  LET def  == Definition(body, v)
      prev == Previous(body, cmp)
  IN IF def.op = "load"
     THEN IF def.a \in returnable THEN def.a ELSE "none"
     ELSE IF prev.op = "store" /\ prev.a = v /\ prev.b \in returnable THEN prev.b ELSE "none"

(* The entry of the checked slot is killed in the fact after the test, and *)
(* what the outcomes leave of what was known before is joined into the     *)
(* entries of those successors that may return the slot.                   *)
PassRange(facts, returned, b, k, slot, outcomes) ==
  LET killed == [facts EXCEPT ![b][k + 1] =
                   [Filtered(facts[b][k], returned[b][k + 1]) EXCEPT ![slot] = Absent]]
  IN PassOn(killed, {o \in outcomes : slot \in EntryOf(returned, o[1])}, facts[b][k], {slot})

(* The slot that the test of a branch is about.                            *)
BranchedSlot(body, test, returnable) ==
  LET first == CheckedReturnValue(body, test, test.a, returnable)
  IN IF test.op # "icmp" THEN "none"
     ELSE IF first # "none" THEN first ELSE CheckedReturnValue(body, test, test.b, returnable)

(* Mutant: the successors of a test are mixed up.                          *)
RangeBranchSwapped(body, returned, facts, b, k) ==
  LET inst  == body[b][k]
      after == returned[b][k + 1]
      slot  == BranchedSlot(body, Definition(body, inst.a), after)
  IN IF slot = "none" THEN [facts EXCEPT ![b][k + 1] = Filtered(facts[b][k], after)]
     ELSE PassRange(facts, returned, b, k, slot,
                    BranchOutcomes(body, [inst EXCEPT !.t = inst.e, !.e = inst.t]))

(* VisitBranchInst.                                                        *)
RangeBranch(body, returned, facts, b, k) ==
  LET inst  == body[b][k]
      after == returned[b][k + 1]
      slot  == BranchedSlot(body, Definition(body, inst.a), after)
  IN IF slot = "none" THEN [facts EXCEPT ![b][k + 1] = Filtered(facts[b][k], after)]
     ELSE PassRange(facts, returned, b, k, slot, BranchOutcomes(body, inst))

(* VisitSwitchInst: the default successor gets what was known before.      *)
RangeSwitch(body, returned, facts, b, k) ==
  LET inst  == body[b][k]
      after == returned[b][k + 1]
      slot  == CheckedReturnValue(body, inst, inst.a, after)
  IN IF slot = "none" THEN [facts EXCEPT ![b][k + 1] = Filtered(facts[b][k], after)]
     ELSE PassRange(facts, returned, b, k, slot,
                    CaseOutcomes(inst) \cup
                      IF facts[b][k][slot] = Absent THEN {} ELSE {<<inst.e, "top">>})

(* The dispatch of VisitBlock.  A return changes no fact.                  *)
RangeInst(body, defined, returned, facts, b, k) ==
  LET inst   == body[b][k]
      before == facts[b][k]
      after  == returned[b][k + 1]
      Set(x) == [facts EXCEPT ![b][k + 1] = x]
  IN CASE inst.op = "store"  -> Set(RangeCopied(body, defined, before, after, inst.a, inst.b))
       [] inst.op \in LoadLike \cup {"trunc", "sext"}
                             -> Set(RangeCopied(body, defined, before, after, inst.a, inst.id))
       [] inst.op = "phi"    -> Set(RangePhi(body, defined, before, after, inst))
       [] inst.op = "branch" -> RangeBranch(body, returned, facts, b, k)
       [] inst.op = "switch" -> RangeSwitch(body, returned, facts, b, k)
       [] inst.op = "return" -> facts
       [] OTHER              -> Set(Filtered(before, after))

RangeVisitBlock(body, defined, returned, facts, b) ==
  LET Visit(fs, k) == RangeInst(body, defined, returned, fs, b, k)
      Point(k)     == k + 1
  IN VisitInstructions(facts, b, [k \in DOMAIN body[b] |-> k], Visit, Point)

(* One iteration of the loop over blocks in RunOnFunction.                 *)
RangeStep(body, defined, returned, facts, b) ==
  LET entry  == EntryOf(returned, b)
      joined == JoinMaps(EntryOf(facts, b),
                         {Filtered(ExitOf(facts, p), entry) : p \in Predecessors(body, b)})
  IN RangeVisitBlock(body, defined, returned, [facts EXCEPT ![b][1] = joined], b)

(* VisitReturnInst: the range of this return, a pointer's widened to !=0,  *)
(* joined with what the function had.                                      *)
Widened ==
  [x \in SignLatticeElement |-> IF Intersects(x, "!=0") THEN Join(x, "!=0") ELSE x]

RangeReturned(body, defined, facts, b, pointer, known) ==
  LET last == Terminator(body[b])
      x    == RangeOf(body, defined, facts[b][Len(body[b])], last.a)
  IN IF last.op # "return" THEN known
     ELSE JoinTable[{known, IF pointer THEN Widened[x] ELSE x} \ {Absent}]
=============================================================================
