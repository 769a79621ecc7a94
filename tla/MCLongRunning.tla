---------------------------- MODULE MCLongRunning ----------------------------
(***************************************************************************)
(* Two clients of each of the five services: one with a batch of three     *)
(* requests (the walker's has one), one with a single request.             *)
(***************************************************************************)
EXTENDS LongRunning

Scenario(service, asked, unreadable, orphan, mayFail) ==
  [service |-> service, asked |-> asked, unreadable |-> unreadable, orphan |-> orphan,
   mayFail |-> mayFail,
   batch |-> [c \in {"c1", "c2"} |->
                IF c = "c2" THEN <<"b1">>
                ELSE IF service = "walker" THEN <<"a1">> ELSE <<"a1", "a2", "a3">>]]

TwoClients == {"c1", "c2"}
FourRequests == {"a1", "a2", "a3", "b1"}

Services == {"bitcode", "eesi", "getgraph", "checker", "walker"}

Asking(type, input, length, walks) ==
  [type |-> type, input |-> <<input>>, length |-> length, walks |-> walks]

(* One operation of the service on four inputs. *)
DistinctInputs == [r \in FourRequests |-> Asking("1", r, <<"5">>, <<"1">>)]

(* The second client asks of an input of the first one's: for another type *)
(* of violations or names; for the same; or, of the walker, for walks of   *)
(* length 51 where the first one wants length 5 and 11 walks.              *)
AskingB1(b1) == [r \in FourRequests |-> IF r = "b1" THEN b1 ELSE DistinctInputs[r]]
OtherType == AskingB1(Asking("2", "a1", <<"5">>, <<"1">>))
SameInput == AskingB1(DistinctInputs["a1"])
JoinedNumbers ==
  [r \in FourRequests |-> CASE r = "a1" -> Asking("1", "u", <<"5">>, <<"1", "1">>)
                            [] r = "b1" -> Asking("1", "u", <<"5", "1">>, <<"1">>)
                            [] OTHER    -> DistinctInputs[r]]

(* One of the clients is killed or cut off at any moment.                  *)
KilledScenarios ==
  {Scenario(service, DistinctInputs, {}, {}, {"c1"}) : service \in {"eesi", "walker"}}

(* What the checker leaves undone is not part of what is promised.         *)
DistinctScenarios ==
  {Scenario(service, DistinctInputs, unreadable, orphan, {}) :
     service \in Services, unreadable \in {{}, {"a1"}, {"a1", "b1"}}, orphan \in {{}, {"a2"}}}
  \ {Scenario("checker", DistinctInputs, unreadable, orphan, {}) :
       unreadable \in {{"a1"}, {"a1", "b1"}}, orphan \in {{}, {"a2"}}}

(* Of the same input both want the same, and both may be killed.           *)
SharedScenarios ==
  {Scenario(service, SameInput, unreadable, {}, TwoClients) :
     service \in Services \ {"getgraph"}, unreadable \in {{}, {"b1"}}}
  \cup {Scenario(service, OtherType, {}, {}, {}) : service \in {"bitcode", "checker"}}
  \cup {Scenario("walker", JoinedNumbers, {}, {}, TwoClients)}

AllScenarios == DistinctScenarios \cup KilledScenarios \cup SharedScenarios

UnreadableChecker == {Scenario("checker", DistinctInputs, {"a1"}, {}, {})}
=============================================================================
