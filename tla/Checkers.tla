------------------------------ MODULE Checkers ------------------------------
(***************************************************************************)
(* The violations that the checker server reports of the calls in a        *)
(* function (checker/src), and the unused calls the EESI server's Checker  *)
(* reports with its specifications.  InsufficientChecksPass reads the      *)
(* facts of ReturnConstraintsPass and ReturnPropagationPass once these     *)
(* have ended; its threads only append to the list of violations.          *)
(*                                                                         *)
(* What a pass reports of a call depends on the error specification of     *)
(* that callee alone, so that the request is one element here.             *)
(***************************************************************************)
EXTENDS ReturnConstraints

CONSTANT Renamed    \* source names of functions whose LLVM name has a suffix

(* ShouldCheck.  A callee that is not resolved has no name.                *)
ShouldCheck(callee, void, specification) ==
  callee # "" /\ callee \notin void /\ specification \notin {"bottom", "top"}

(***************************************************************************)
(* UnusedCallsPass.                                                        *)
(***************************************************************************)
Operands(inst) ==
  {inst[x] : x \in {"a", "b"} \cap DOMAIN inst}
  \cup (IF inst.op = "phi" THEN Range(inst.in) ELSE {})

(* use_empty. *)
IsUnused(body, call) == \A inst \in InstructionsOf(body) : call.id \notin Operands(inst)

IsReportedUnused(body, void, call, specification) ==
  ShouldCheck(call.f, void, specification) /\ IsUnused(body, call)

(***************************************************************************)
(* InsufficientChecksPass.                                                 *)
(***************************************************************************)
(* CollectConstraints: what is known of a callee before any instruction of *)
(* the function.  The facts are those of source names, while the callee is *)
(* looked up by its LLVM name: one with a suffix is never found.           *)
CollectConstraints(body, constraints, callee) ==
  {constraints[p[1]][p[2]][callee] :
     p \in {q \in UNION {{b} \X DOMAIN body[b] : b \in DOMAIN body} : callee \notin Renamed}}
  \ {Absent}

(* Mutant: the live constraints are taken for the dead ones.               *)
IsSufficientlyCheckedLive(constraints, specification) ==
  LET live  == constraints \cup {"top"}
      meets == {Meet(x, y) : x, y \in live} \ {"bottom"}
  IN (\E m \in meets : IsLessThan(specification, Complement(m))) \/ meets = {"top"}

(* IsSufficientlyChecked, of the constraints collected.  Where these rule  *)
(* nothing out, the violation is left to UnusedCallsPass.                  *)
IsSufficientlyChecked(constraints, specification) ==
  LET dead  == {Complement(x) : x \in constraints} \cup {"top"}
      meets == {Meet(x, y) : x, y \in dead} \ {"bottom"}
  IN (\E m \in meets : IsLessThan(specification, Complement(m))) \/ meets = {"top"}

(* IsPropagated: may the function return the call's result?                *)
IsPropagated(body, propagation, call) ==
  \E b \in DOMAIN body :
    LET last == Terminator(body[b])
    IN /\ last.op = "return" /\ last.a # ""
       /\ call.id \in propagation[b][Len(body[b])][last.a]

IsReportedInsufficient(body, void, propagation, constraints, call, specification) ==
  /\ ShouldCheck(call.f, void, specification)
  /\ ~ IsPropagated(body, propagation, call)
  /\ ~ IsSufficientlyChecked(CollectConstraints(body, constraints, call.f), specification)
=============================================================================
