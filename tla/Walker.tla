------------------------------- MODULE Walker -------------------------------
(***************************************************************************)
(* The random walker: it reads the graph that the GetGraph server wrote    *)
(* into an Lpds and writes sentences, the labels along random walks.       *)
(*                                                                         *)
(* Walker::RandomWalk makes one WalkWorker for each walk number, in        *)
(* parallel; they share the graph, which none changes, and the writer,     *)
(* whose lock they take for each sentence.                                 *)
(***************************************************************************)
EXTENDS FlowGraph, FiniteSetsExt, TLC

CONSTANTS
  Modules,       \* the programs whose graphs are walked
  MaxWalks,      \* bound on walks_per_label
  Requests       \* pairs <<walks_per_label, walk_length>>

ASSUME ModulesAssumption == \A m \in Modules : IsModule(m)
ASSUME MaxWalksAssumption == MaxWalks \in Nat
ASSUME RequestsAssumption == Requests \subseteq (0..MaxWalks) \X Int

(***************************************************************************)
(* ReadLegacyIcfg and Lpds.                                                *)
(***************************************************************************)
(* StripSuffixAfterDot of the callee's vertex, as a word.                  *)
NameOf(v) == <<"CALL", v[2]>>

CallNames(edges, v) == {NameOf(e.target) : e \in {x \in edges : x.source = v /\ x.meta = "call"}}

(* Edges from main.0 are not read.  Every edge of a call node is labelled  *)
(* with the callees' names, the call edges too.                            *)
ReadLegacyIcfg(edges) ==
  {[e EXCEPT !.labels = @ \cup CallNames(edges, e.source)] :
     e \in {x \in edges : x.source # FnVertex("main")}}

(* The Lpds of every graph file that may have been written for a module.   *)
Graphs ==
  UNION {{[prog |-> m, edges |-> ReadLegacyIcfg(edges)] : edges \in EdgeLists(m)} : m \in Modules}

NodesOf(g)          == UNION {{e.source, e.target} : e \in g.edges}
GetOutEdges(g, v)   == {e \in g.edges : e.source = v}
GetLabels(g)        == UNION {e.labels : e \in g.edges}
EdgesForLabel(g, l) == {e \in g.edges : l \in e.labels}

(* The order of the labels is that of a hash table, one for all workers.   *)
FirstLabel(labels) == CHOOSE l \in labels : TRUE

(***************************************************************************)
(* The walks.                                                              *)
(***************************************************************************)
Workers == 1..MaxWalks

NoNode == <<>>
Nobody == 0

VARIABLES
  graph,       \* the module and the edges read of its graph, fixed for the run
  request,     \* walks_per_label and walk_length, fixed
  pc,          \* worker -> where it is
  todo,        \* worker -> labels it has not walked from
  node,        \* worker -> next_node
  returns,     \* worker -> return_stack_
  edges_visited,     \* worker -> edges_visited
  words,       \* worker -> words of its sentence; when writing, those left
  owner,       \* who holds write_mutex_
  line,        \* the workers that wrote to the current line
  lines,       \* label -> sentences written that begin with it
  calls        \* worker -> the return edges of the calls it is in (ghost)

vars == <<graph, request, pc, todo, node, returns, edges_visited, words, owner, line, lines, calls>>

Walks  == request[1]
Length == request[2]

Init ==
  /\ graph \in Graphs
  /\ request \in Requests
  /\ pc = [w \in Workers |-> IF w <= request[1] /\ request[2] > 0 THEN "label" ELSE "end"]
  /\ todo = [w \in Workers |-> GetLabels(graph)]
  /\ node = [w \in Workers |-> NoNode]
  /\ returns = [w \in Workers |-> <<>>]
  /\ edges_visited = [w \in Workers |-> 0]
  /\ words = [w \in Workers |-> 0]
  /\ owner = Nobody /\ line = {}
  /\ lines = [l \in GetLabels(graph) |-> 0]
  /\ calls = [w \in Workers |-> <<>>]

(* SingleRandomWalk takes up the next label and one of its edges.          *)
StartWalk(w) ==
  /\ pc[w] = "label" /\ todo[w] # {}
  /\ \E e \in EdgesForLabel(graph, FirstLabel(todo[w])) : node' = [node EXCEPT ![w] = e.target]
  /\ pc' = [pc EXCEPT ![w] = "walk"]
  /\ edges_visited' = [edges_visited EXCEPT ![w] = 0]
  /\ words' = [words EXCEPT ![w] = 1]
  /\ UNCHANGED <<graph, request, todo, returns, owner, line, lines, calls>>

Out(w) == GetOutEdges(graph, node[w])

(* Mutant: one transition too many.                                        *)
IsWalkingTooFar(w) == pc[w] = "walk" /\ edges_visited[w] < Length /\ node[w] # NoNode

IsWalking(w) == pc[w] = "walk" /\ edges_visited[w] < Length - 1 /\ node[w] # NoNode

(* EmitLabel, and on to the target.                                        *)
Follow(w, e) ==
  /\ node' = [node EXCEPT ![w] = e.target]
  /\ words' = [words EXCEPT ![w] = @ + IF e.labels = {} THEN 0 ELSE 1]
  /\ edges_visited' = [edges_visited EXCEPT ![w] = @ + 1]
  /\ UNCHANGED <<graph, request, pc, todo, owner, line, lines>>

(* The ghost's view of leaving a function.                                 *)
LeaveFunction(w) ==
  calls' = [calls EXCEPT ![w] = IF @ = <<>> THEN @ ELSE Front(@)]

(* RandomTransition with a single edge out of the node, whatever it is.    *)
FollowSingle(w) ==
  /\ IsWalking(w)
  /\ \E e \in Out(w) :
       /\ Out(w) = {e}
       /\ Follow(w, e)
       /\ IF e.meta = "may_ret" THEN LeaveFunction(w) ELSE UNCHANGED calls
  /\ UNCHANGED returns

AtEnd(w) == Cardinality(Out(w)) # 1 /\ \A e \in Out(w) : e.meta = "may_ret"

(* PopTransition with a return site on the stack.                          *)
PopTransition(w) ==
  /\ IsWalking(w) /\ AtEnd(w)
  /\ returns[w] # <<>>
  /\ returns' = [returns EXCEPT ![w] = Front(@)]
  /\ Follow(w, Last(returns[w]))
  /\ LeaveFunction(w)

(* Mutant: the walk stays where nothing leaves.                            *)
ReturnAnywhereStay(w) ==
  /\ IsWalking(w) /\ AtEnd(w)
  /\ returns[w] = <<>>
  /\ \/ \E e \in Out(w) : Follow(w, e)
     \/ /\ Out(w) = {}
        /\ UNCHANGED <<node, edges_visited, graph, request, pc, todo, words, owner, line, lines>>
  /\ LeaveFunction(w)
  /\ UNCHANGED returns

(* ... and without one: a random return site, if there is any.             *)
ReturnAnywhere(w) ==
  /\ IsWalking(w) /\ AtEnd(w)
  /\ returns[w] = <<>>
  /\ \/ \E e \in Out(w) : Follow(w, e)
     \/ /\ Out(w) = {}
        /\ node' = [node EXCEPT ![w] = NoNode]
        /\ edges_visited' = [edges_visited EXCEPT ![w] = @ + 1]
        /\ UNCHANGED <<graph, request, pc, todo, words, owner, line, lines>>
  /\ LeaveFunction(w)
  /\ UNCHANGED returns

(* A random edge that is not a may-return edge; the edges of the node that *)
(* are no calls are pushed, in any order, when it is a call.               *)
Arrangements(S) == {s \in [1..Cardinality(S) -> S] : s \in Seq(S) /\ Range(s) = S}

Sites(w, e) == IF e.meta = "call" THEN {x \in Out(w) : x.meta # "call"} ELSE {}

FollowAny(w) ==
  /\ IsWalking(w) /\ Cardinality(Out(w)) > 1 /\ ~AtEnd(w)
  /\ \E e \in {x \in Out(w) : x.meta # "may_ret"} :
       /\ Follow(w, e)
       /\ \E sites \in Arrangements(Sites(w, e)) :
            /\ returns' = [returns EXCEPT ![w] = @ \o sites]
            /\ calls' = [calls EXCEPT ![w] = @ \o sites]

(* The sentence is finished and WriteSentence called.                      *)
EndWalk(w) ==
  /\ pc[w] = "walk" /\ (edges_visited[w] >= Length - 1 \/ node[w] = NoNode)
  /\ pc' = [pc EXCEPT ![w] = "write"]
  /\ UNCHANGED <<graph, request, todo, node, returns, edges_visited, words, owner, line, lines, calls>>

(* Mutant: the lock is not taken.                                          *)
LockAnyway(w) ==
  /\ pc[w] = "write"
  /\ owner' = w
  /\ pc' = [pc EXCEPT ![w] = "locked"]
  /\ UNCHANGED <<graph, request, todo, node, returns, edges_visited, words, line, lines, calls>>

Lock(w) ==
  /\ pc[w] = "write" /\ owner = Nobody
  /\ owner' = w
  /\ pc' = [pc EXCEPT ![w] = "locked"]
  /\ UNCHANGED <<graph, request, todo, node, returns, edges_visited, words, line, lines, calls>>

WriteWord(w) ==
  /\ pc[w] = "locked" /\ words[w] > 1
  /\ line' = line \cup {w}
  /\ words' = [words EXCEPT ![w] = @ - 1]
  /\ UNCHANGED <<graph, request, pc, todo, node, returns, edges_visited, owner, lines, calls>>

(* Mutant: the stack is kept for the next label.                           *)
EndSentenceKeepStack(w) ==
  /\ pc[w] = "locked" /\ words[w] = 1
  /\ line' = {}
  /\ words' = [words EXCEPT ![w] = 0]
  /\ lines' = [lines EXCEPT ![FirstLabel(todo[w])] = @ + 1]
  /\ owner' = Nobody
  /\ calls' = [calls EXCEPT ![w] = <<>>]
  /\ todo' = [todo EXCEPT ![w] = @ \ {FirstLabel(@)}]
  /\ pc' = [pc EXCEPT ![w] = "label"]
  /\ UNCHANGED <<graph, request, node, edges_visited, returns>>

(* The last word and the end of the line; the lock is released and the     *)
(* stack cleared for the next label.                                       *)
EndSentence(w) ==
  /\ pc[w] = "locked" /\ words[w] = 1
  /\ line' = {}
  /\ words' = [words EXCEPT ![w] = 0]
  /\ lines' = [lines EXCEPT ![FirstLabel(todo[w])] = @ + 1]
  /\ owner' = Nobody
  /\ returns' = [returns EXCEPT ![w] = <<>>]
  /\ calls' = [calls EXCEPT ![w] = <<>>]
  /\ todo' = [todo EXCEPT ![w] = @ \ {FirstLabel(@)}]
  /\ pc' = [pc EXCEPT ![w] = "label"]
  /\ UNCHANGED <<graph, request, node, edges_visited>>

(* Mutant: SingleRandomWalk returns after a label.                         *)
EndWorkerEarly(w) ==
  /\ pc[w] = "label"
  /\ pc' = [pc EXCEPT ![w] = "end"]
  /\ UNCHANGED <<graph, request, todo, node, returns, edges_visited, words, owner, line, lines, calls>>

EndWorker(w) ==
  /\ pc[w] = "label" /\ todo[w] = {}
  /\ pc' = [pc EXCEPT ![w] = "end"]
  /\ UNCHANGED <<graph, request, todo, node, returns, edges_visited, words, owner, line, lines, calls>>

Done == \A w \in Workers : pc[w] = "end"

(* RandomWalk returns: nothing more happens.                               *)
Returned == Done /\ UNCHANGED vars

Step(w) ==
  \/ StartWalk(w)
  \/ FollowSingle(w) \/ PopTransition(w) \/ ReturnAnywhere(w) \/ FollowAny(w)
  \/ EndWalk(w) \/ Lock(w) \/ WriteWord(w) \/ EndSentence(w)
  \/ EndWorker(w)

Next == (\E w \in Workers : Step(w)) \/ Returned

(***************************************************************************)
(* The workers are tasks of a thread pool, so that each is run in the end. *)
(* tbb::mutex is not fair, but weak fairness is enough: the others hold it *)
(* for a while each, and take it only once for each of their labels.       *)
(***************************************************************************)
Spec == Init /\ [][Next]_vars
FairSpec == Spec /\ \A w \in Workers : WF_vars(Step(w))

(***************************************************************************)
(* Properties.                                                             *)
(***************************************************************************)
(* The words between two ends of line are all of one worker's sentence.    *)
WritesAreWhole ==
  /\ Cardinality(line) <= 1
  /\ \A w \in Workers : pc[w] = "locked" => line \subseteq {w}

(* A sentence is never longer than the walk_length asked for, and never    *)
(* empty (the writers index its last word).                                *)
SentencesAreBounded ==
  \A w \in Workers : pc[w] \in {"walk", "write"} => words[w] \in 1..Length

(* A walk that ends early is in no call that it could return from, and at  *)
(* a node that goes nowhere: a callee without a body, main.0, or the exit  *)
(* of a block that returns (walker.h:5-15).  Not, however, the last one of *)
(* a function that is called: the graph has the edges back from there, and *)
(* from no other exit.                                                     *)
DeadEnds(g) ==
  LET called == {e.target[2] : e \in {x \in g.edges : x.meta = "call"}}
      Ends(v) == LET body == g.prog[v[2]]
                 IN /\ \E b \in ReturningBlocks(body) : v = Leave(v[2], body[b])
                    /\ v = LastReturn(v[2], body) => v[2] \notin called
  IN {v \in NodesOf(g) : v[1] = "extern" \/ v = FnVertex("main")
                                 \/ (v[1] = "bbx" /\ Ends(v))}

StopsOnlyAtDeadEnds ==
  [][\A w \in Workers :
       node[w] # NoNode /\ node'[w] = NoNode
         => calls[w] = <<>> /\ node[w] \in DeadEnds(graph)]_vars

(* Every label of the graph begins walks_per_label sentences.              *)
EachLabelIsWalked ==
  Done => \A l \in DOMAIN lines : lines[l] = IF Length > 0 THEN Walks ELSE 0

(* RandomWalk returns.                                                     *)
WalksEnd == <>Done

(* When no function with callers of its own has a single return site, the  *)
(* stack is that of the calls the walk is in, so that calls return only to *)
(* the appropriate return site (walker_test.cc:106).                       *)
HasLoneSite(g) ==
  \E e \in g.edges : e.meta = "may_ret" /\ GetOutEdges(g, e.source) = {e}

ReturnsMatchCalls ==
  ~HasLoneSite(graph) => returns = calls

(* The same of all programs, of the step in which a call returns.          *)
CallsReturnToTheirSites ==
  [][\A w \in Workers :
       pc[w] = "walk" /\ Len(calls'[w]) < Len(calls[w])
         => node'[w] = Last(calls[w]).target]_vars
=============================================================================
