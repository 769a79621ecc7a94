------------------------------- MODULE Futures -------------------------------
(***************************************************************************)
(* What a long-running operation promises its client: once accepted it is  *)
(* resolved once, and what is delivered, once, is the request's own result *)
(* after it was computed.  A client or a server that fails loses what was  *)
(* not delivered yet and nothing else.                                     *)
(***************************************************************************)
CONSTANT Requests

VARIABLES future, answer

NoAnswer == "nobody"

Init == future = [r \in Requests |-> "none"] /\ answer = [r \in Requests |-> NoAnswer]

Accept(r) ==
  /\ future[r] = "none"
  /\ future' = [future EXCEPT ![r] = "pending"] /\ UNCHANGED answer

Resolve(r) ==
  /\ future[r] = "pending"
  /\ future' = [future EXCEPT ![r] = "resolved"] /\ UNCHANGED answer

Deliver(r) ==
  /\ future[r] = "resolved"
  /\ future' = [future EXCEPT ![r] = "delivered"]
  /\ answer' = [answer EXCEPT ![r] = r]

Lose(S) ==
  /\ \A r \in S : future[r] # "delivered"
  /\ future' = [r \in Requests |-> IF r \in S THEN "lost" ELSE future[r]]
  /\ UNCHANGED answer

Next ==
  \/ \E r \in Requests : Accept(r) \/ Resolve(r) \/ Deliver(r)
  \/ \E S \in SUBSET Requests : Lose(S)

vars == <<future, answer>>

Spec == Init /\ [][Next]_vars /\ \A r \in Requests : WF_vars(Resolve(r) \/ Deliver(r))
=============================================================================
