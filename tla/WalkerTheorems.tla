--------------------------- MODULE WalkerTheorems ---------------------------
(***************************************************************************)
(* For every set of modules, every number of walks and every length:       *)
(* the lines that the workers write are whole and within the length asked  *)
(* for, every label begins its sentences, and, where every function that   *)
(* is called has at least two return sites, the return stack of a walk is  *)
(* that of the calls it is in.  On the graphs that the passes build of     *)
(* modules that the verifier accepts, walks stop at dead ends only.        *)
(***************************************************************************)
EXTENDS Walker, FiniteSetTheorems, WellFoundedInduction, TLAPS

(***************************************************************************)
(* Whole lines: who writes holds the lock, and the current line is of him  *)
(* alone.                                                                  *)
(***************************************************************************)
LockInv ==
  /\ pc \in [Workers -> {"label", "walk", "write", "locked", "end"}]
  /\ \A w \in Workers : pc[w] = "locked" <=> owner = w
  /\ \A w \in line : w \in Workers /\ owner = w

(* At the start nobody has the lock, and the line is empty.                *)
LEMMA InitLock == Init => LockInv
  <1> SUFFICES ASSUME Init PROVE LockInv
    OBVIOUS
  <1>1. \A w \in Workers : w # Nobody
    BY MaxWalksAssumption DEF Workers, Nobody
  <1>2. pc \in [Workers -> {"label", "walk", "write", "locked", "end"}]
        /\ \A w \in Workers : pc[w] # "locked"
    BY DEF Init
  <1> QED
    BY <1>1, <1>2 DEF Init, LockInv

(* Walking leaves the writer alone.                                        *)
LEMMA WalkingLeavesWriter ==
  ASSUME NEW w \in Workers,
         FollowSingle(w) \/ PopTransition(w) \/ ReturnAnywhere(w) \/ FollowAny(w)
  PROVE  UNCHANGED <<graph, pc, owner, line>>
  BY DEF FollowSingle, PopTransition, ReturnAnywhere, FollowAny, Follow

(* No step disturbs who may write to the current line.                     *)
LEMMA NextLock == LockInv /\ [Next]_vars => LockInv'
  <1> SUFFICES ASSUME LockInv, [Next]_vars PROVE LockInv'
    OBVIOUS
  <1> USE DEF LockInv
  <1>0. \A w \in Workers : w # Nobody
    BY MaxWalksAssumption DEF Workers, Nobody
  <1>1. ASSUME NEW w \in Workers, StartWalk(w) PROVE LockInv'
    BY <1>1 DEF StartWalk
  <1>2. ASSUME NEW w \in Workers,
               FollowSingle(w) \/ PopTransition(w) \/ ReturnAnywhere(w) \/ FollowAny(w)
        PROVE  LockInv'
    BY <1>2, WalkingLeavesWriter
  <1>3. ASSUME NEW w \in Workers, EndWalk(w) PROVE LockInv'
    BY <1>3 DEF EndWalk
  <1>4. ASSUME NEW w \in Workers, Lock(w) PROVE LockInv'
    <2>1. owner = Nobody /\ owner' = w /\ pc' = [pc EXCEPT ![w] = "locked"] /\ line' = line
      BY <1>4 DEF Lock
    <2>2. line = {} /\ \A v \in Workers : pc[v] # "locked"
      BY <1>0, <2>1
    <2> QED
      BY <2>1, <2>2
  <1>5. ASSUME NEW w \in Workers, WriteWord(w) PROVE LockInv'
    BY <1>5 DEF WriteWord
  <1>6. ASSUME NEW w \in Workers, EndSentence(w) PROVE LockInv'
    <2>1. pc[w] = "locked" /\ line' = {} /\ owner' = Nobody /\ pc' = [pc EXCEPT ![w] = "label"]
      BY <1>6 DEF EndSentence
    <2>2. \A v \in Workers : v # w => pc[v] # "locked"
      BY <2>1
    <2> QED
      BY <1>0, <2>1, <2>2
  <1>7. ASSUME NEW w \in Workers, EndWorker(w) PROVE LockInv'
    BY <1>7 DEF EndWorker
  <1>8. CASE Returned \/ UNCHANGED vars
    BY <1>8 DEF Returned, vars
  <1> QED
    BY <1>1, <1>2, <1>3, <1>4, <1>5, <1>6, <1>7, <1>8 DEF Next, Step

(* Between two ends of line there are the words of one worker alone,       *)
(* however many walks run at once: WriteSentence under write_mutex_.       *)
THEOREM WriterWritesWholeLines == Spec => []WritesAreWhole
  <1>1. LockInv => WritesAreWhole
    <2> SUFFICES ASSUME LockInv PROVE WritesAreWhole
      OBVIOUS
    <2>1. line = {} \/ line = {owner}
      BY DEF LockInv
    <2>2. Cardinality(line) <= 1
      <3>1. Cardinality({}) = 0
        BY FS_EmptySet
      <3>2. Cardinality({owner}) = 1
        BY FS_Singleton
      <3> QED
        BY <2>1, <3>1, <3>2
    <2>3. \A w \in Workers : pc[w] = "locked" => line \subseteq {w}
      BY DEF LockInv
    <2> QED
      BY <2>2, <2>3 DEF WritesAreWhole
  <1> QED
    BY InitLock, NextLock, <1>1, PTL DEF Spec

(***************************************************************************)
(* Calls and returns.                                                      *)
(***************************************************************************)
StackInv ==
  /\ node \in [Workers -> NodesOf(graph) \cup {NoNode}]
  /\ returns \in [Workers -> Seq(graph.edges)]
  /\ calls \in [Workers -> Seq(graph.edges)]
  /\ ReturnsMatchCalls

LEMMA TargetsAreNodes ==
  ASSUME NEW e \in graph.edges
  PROVE  e.target \in NodesOf(graph)
  BY DEF NodesOf

(* Out of a node go edges of the graph.                                    *)
LEMMA OutIsOfGraph ==
  ASSUME NEW w \in Workers
  PROVE  Out(w) = {e \in graph.edges : e.source = node[w]}
  BY DEF Out, GetOutEdges

(* What is left and what is taken when a sequence is popped.               *)
LEMMA FrontAndLast ==
  ASSUME NEW S, NEW s \in Seq(S), s # <<>>
  PROVE  Front(s) \in Seq(S) /\ Last(s) \in S
  BY DEF Front, Last

LEMMA LeaveKeepsType ==
  ASSUME StackInv, NEW w \in Workers, LeaveFunction(w)
  PROVE  calls' \in [Workers -> Seq(graph.edges)]
  <1>1. calls[w] \in Seq(graph.edges)
    BY DEF StackInv
  <1>2. calls[w] # <<>> => Front(calls[w]) \in Seq(graph.edges)
    BY <1>1, FrontAndLast
  <1> QED
    BY <1>1, <1>2 DEF LeaveFunction, StackInv

LEMMA InitStack == Init => StackInv
  <1> SUFFICES ASSUME Init PROVE StackInv
    OBVIOUS
  <1>1. returns = [w \in Workers |-> <<>>] /\ calls = [w \in Workers |-> <<>>]
        /\ node = [w \in Workers |-> NoNode]
    BY DEF Init
  <1> QED
    BY <1>1 DEF StackInv, ReturnsMatchCalls

(* A walk follows edges of the graph, so that it is at nodes of the graph. *)
LEMMA FollowKeepsNode ==
  ASSUME StackInv, NEW w \in Workers, NEW e \in graph.edges, Follow(w, e)
  PROVE  graph' = graph /\ node' \in [Workers -> NodesOf(graph) \cup {NoNode}]
  <1>1. e.target \in NodesOf(graph)
    BY TargetsAreNodes DEF StackInv
  <1> QED
    BY <1>1 DEF Follow, StackInv

(* A single may-return edge out of a node is a lone return site.           *)
LEMMA SingleMayReturnIsLone ==
  ASSUME StackInv, NEW w \in Workers, IsWalking(w),
         NEW e, e \in Out(w), Out(w) = {e}, e.meta = "may_ret"
  PROVE  HasLoneSite(graph)
  <1>1. e \in graph.edges /\ e.source = node[w]
    BY OutIsOfGraph
  <1>2. GetOutEdges(graph, e.source) = {e}
    BY <1>1 DEF Out
  <1> QED
    BY <1>1, <1>2 DEF HasLoneSite

LEMMA FollowSingleKeepsStack ==
  ASSUME StackInv, NEW w \in Workers, FollowSingle(w)
  PROVE  StackInv'
  <1>1. PICK e \in Out(w) : /\ Out(w) = {e}
                            /\ Follow(w, e)
                            /\ IF e.meta = "may_ret" THEN LeaveFunction(w) ELSE UNCHANGED calls
    BY DEF FollowSingle
  <1>2. IsWalking(w) /\ returns' = returns
    BY DEF FollowSingle
  <1>3. e \in graph.edges
    BY <1>2, OutIsOfGraph
  <1>4. graph' = graph /\ node' \in [Workers -> NodesOf(graph) \cup {NoNode}]
    BY <1>1, <1>3, FollowKeepsNode
  <1>5. calls' \in [Workers -> Seq(graph.edges)]
    BY <1>1, LeaveKeepsType DEF StackInv
  <1>6. ~HasLoneSite(graph) => calls' = calls
    BY <1>1, <1>2, SingleMayReturnIsLone
  <1>7. (HasLoneSite(graph))' = HasLoneSite(graph)
    BY <1>4 DEF HasLoneSite
  <1> QED
    BY <1>2, <1>4, <1>5, <1>6, <1>7 DEF StackInv, ReturnsMatchCalls, NodesOf

LEMMA PopKeepsStack ==
  ASSUME StackInv, NEW w \in Workers, PopTransition(w)
  PROVE  StackInv'
  <1>1. /\ returns[w] # <<>>
        /\ returns' = [returns EXCEPT ![w] = Front(returns[w])]
        /\ Follow(w, Last(returns[w]))
        /\ LeaveFunction(w)
    BY DEF PopTransition
  <1>2. Front(returns[w]) \in Seq(graph.edges) /\ Last(returns[w]) \in graph.edges
    BY <1>1, FrontAndLast DEF StackInv
  <1>3. graph' = graph /\ node' \in [Workers -> NodesOf(graph) \cup {NoNode}]
    BY <1>1, <1>2, FollowKeepsNode
  <1>4. calls' \in [Workers -> Seq(graph.edges)]
    BY <1>1, LeaveKeepsType
  <1>5. returns' \in [Workers -> Seq(graph.edges)]
    BY <1>1, <1>2 DEF StackInv
  <1>6. returns = calls => returns' = calls'
    BY <1>1 DEF LeaveFunction
  <1>7. (HasLoneSite(graph))' = HasLoneSite(graph)
    BY <1>3 DEF HasLoneSite
  <1> QED
    BY <1>3, <1>4, <1>5, <1>6, <1>7 DEF StackInv, ReturnsMatchCalls

LEMMA ReturnAnywhereKeepsStack ==
  ASSUME StackInv, NEW w \in Workers, ReturnAnywhere(w)
  PROVE  StackInv'
  <1>1. IsWalking(w) /\ returns[w] = <<>> /\ returns' = returns /\ LeaveFunction(w)
    BY DEF ReturnAnywhere
  <1>2. graph' = graph /\ node' \in [Workers -> NodesOf(graph) \cup {NoNode}]
    <2>1. CASE \E e \in Out(w) : Follow(w, e)
      BY <1>1, <2>1, OutIsOfGraph, FollowKeepsNode
    <2>2. CASE graph' = graph /\ node' = [node EXCEPT ![w] = NoNode]
      BY <2>2 DEF StackInv
    <2> QED
      BY <2>1, <2>2 DEF ReturnAnywhere
  <1>3. calls' \in [Workers -> Seq(graph.edges)]
    BY <1>1, LeaveKeepsType
  <1>4. returns = calls => calls' = calls
    BY <1>1 DEF LeaveFunction, StackInv
  <1>5. (HasLoneSite(graph))' = HasLoneSite(graph)
    BY <1>2 DEF HasLoneSite
  <1> QED
    BY <1>1, <1>2, <1>3, <1>4, <1>5 DEF StackInv, ReturnsMatchCalls

LEMMA FollowAnyKeepsStack ==
  ASSUME StackInv, NEW w \in Workers, FollowAny(w)
  PROVE  StackInv'
  <1>0. PICK e \in Out(w) :
          /\ Follow(w, e)
          /\ \E sites \in Arrangements(Sites(w, e)) :
               /\ returns' = [returns EXCEPT ![w] = @ \o sites]
               /\ calls' = [calls EXCEPT ![w] = @ \o sites]
    BY DEF FollowAny
  <1>1. PICK sites \in Arrangements(Sites(w, e)) :
          /\ returns' = [returns EXCEPT ![w] = @ \o sites]
          /\ calls' = [calls EXCEPT ![w] = @ \o sites]
    BY <1>0
  <1>2. IsWalking(w)
    BY DEF FollowAny
  <1>3. e \in graph.edges /\ Sites(w, e) \subseteq graph.edges
    BY <1>2, OutIsOfGraph DEF Sites
  <1>4. sites \in Seq(graph.edges)
    <2>1. sites \in Seq(Sites(w, e))
      BY DEF Arrangements
    <2> QED
      BY <1>3, <2>1
  <1>5. graph' = graph /\ node' \in [Workers -> NodesOf(graph) \cup {NoNode}]
    BY <1>0, <1>3, FollowKeepsNode
  <1>6. returns[w] \o sites \in Seq(graph.edges) /\ calls[w] \o sites \in Seq(graph.edges)
    BY <1>4 DEF StackInv
  <1>7. /\ returns' \in [Workers -> Seq(graph.edges)]
        /\ calls' \in [Workers -> Seq(graph.edges)]
    BY <1>1, <1>6 DEF StackInv
  <1>8. returns = calls => returns' = calls'
    BY <1>1
  <1>9. (HasLoneSite(graph))' = HasLoneSite(graph)
    BY <1>5 DEF HasLoneSite
  <1> QED
    BY <1>5, <1>7, <1>8, <1>9 DEF StackInv, ReturnsMatchCalls

LEMMA StartKeepsStack ==
  ASSUME StackInv, NEW w \in Workers, StartWalk(w)
  PROVE  StackInv'
  <1>1. PICK e \in EdgesForLabel(graph, FirstLabel(todo[w])) : node' = [node EXCEPT ![w] = e.target]
    BY DEF StartWalk
  <1>2. e.target \in NodesOf(graph)
    BY TargetsAreNodes DEF EdgesForLabel, StackInv
  <1>3. graph' = graph /\ returns' = returns /\ calls' = calls
    BY DEF StartWalk
  <1>4. (HasLoneSite(graph))' = HasLoneSite(graph)
    BY <1>3 DEF HasLoneSite
  <1> QED
    BY <1>1, <1>2, <1>3, <1>4 DEF StackInv, ReturnsMatchCalls

(* At the end of a sentence both stacks are cleared.                       *)
LEMMA WritingKeepsStack ==
  ASSUME StackInv, NEW w \in Workers,
         EndWalk(w) \/ Lock(w) \/ WriteWord(w) \/ EndSentence(w) \/ EndWorker(w)
  PROVE  StackInv'
  <1>1. graph' = graph /\ node' = node
    BY DEF EndWalk, Lock, WriteWord, EndSentence, EndWorker
  <1>2. \/ returns' = returns /\ calls' = calls
        \/ returns' = [returns EXCEPT ![w] = <<>>] /\ calls' = [calls EXCEPT ![w] = <<>>]
    BY DEF EndWalk, Lock, WriteWord, EndSentence, EndWorker
  <1>3. (HasLoneSite(graph))' = HasLoneSite(graph)
    BY <1>1 DEF HasLoneSite
  <1>4. <<>> \in Seq(graph.edges)
    OBVIOUS
  <1>5. /\ returns' \in [Workers -> Seq(graph.edges)]
        /\ calls' \in [Workers -> Seq(graph.edges)]
    BY <1>2, <1>4 DEF StackInv
  <1>6. returns = calls => returns' = calls'
    BY <1>2
  <1> QED
    BY <1>1, <1>3, <1>5, <1>6 DEF StackInv, ReturnsMatchCalls

LEMMA NextStack == StackInv /\ [Next]_vars => StackInv'
  <1> SUFFICES ASSUME StackInv, [Next]_vars PROVE StackInv'
    OBVIOUS
  <1>1. ASSUME NEW w \in Workers, Step(w) PROVE StackInv'
    BY <1>1, StartKeepsStack, FollowSingleKeepsStack, PopKeepsStack, ReturnAnywhereKeepsStack,
       FollowAnyKeepsStack, WritingKeepsStack DEF Step
  <1>2. CASE Returned \/ UNCHANGED vars
    <2>1. graph' = graph /\ node' = node /\ returns' = returns /\ calls' = calls
      BY <1>2 DEF Returned, vars
    <2>2. (HasLoneSite(graph))' = HasLoneSite(graph)
      BY <2>1 DEF HasLoneSite
    <2> QED
      BY <2>1, <2>2 DEF StackInv, ReturnsMatchCalls
  <1> QED
    BY <1>1, <1>2 DEF Next

(* The return stack of every walk is that of the calls it is in, in every  *)
(* graph without a lone return site: RandomTransition and PopTransition.   *)
THEOREM WalksReturnToTheirCalls == Spec => []ReturnsMatchCalls
  <1>1. StackInv => ReturnsMatchCalls
    BY DEF StackInv
  <1> QED
    BY InitStack, NextStack, <1>1, PTL DEF Spec

(***************************************************************************)
(* The length of a sentence.                                               *)
(***************************************************************************)
(* A walk has a word for its label and at most one for each edge visited.  *)
WordsInv ==
  /\ pc \in [Workers -> {"label", "walk", "write", "locked", "end"}]
  /\ words \in [Workers -> Int] /\ edges_visited \in [Workers -> Int] /\ Length \in Int
  /\ \A w \in Workers :
       /\ pc[w] # "end" => Length > 0
       /\ pc[w] = "walk" =>
            /\ 1 <= words[w] /\ words[w] <= edges_visited[w] + 1
            /\ edges_visited[w] <= Length - 1
       /\ pc[w] = "write" => 1 <= words[w] /\ words[w] <= Length

LEMMA InitWords == Init => WordsInv
  <1> SUFFICES ASSUME Init PROVE WordsInv
    OBVIOUS
  <1>1. request[2] \in Int
    BY RequestsAssumption DEF Init
  <1> QED
    BY <1>1 DEF Init, WordsInv, Length

(* A transition adds at most one word for its edge.                        *)
LEMMA FollowKeepsWords ==
  ASSUME WordsInv, NEW w \in Workers, NEW e, IsWalking(w), Follow(w, e)
  PROVE  WordsInv'
  <1>1. /\ pc[w] = "walk" /\ edges_visited[w] < Length - 1
        /\ pc' = pc /\ request' = request
        /\ edges_visited' = [edges_visited EXCEPT ![w] = @ + 1]
        /\ words' = [words EXCEPT ![w] = @ + IF e.labels = {} THEN 0 ELSE 1]
    BY DEF IsWalking, Follow
  <1>2. words'[w] \in {words[w], words[w] + 1} /\ edges_visited'[w] = edges_visited[w] + 1
    BY <1>1 DEF WordsInv
  <1>3. \A v \in Workers : v # w => words'[v] = words[v] /\ edges_visited'[v] = edges_visited[v]
    BY <1>1 DEF WordsInv
  <1>4. words' \in [Workers -> Int] /\ edges_visited' \in [Workers -> Int]
    BY <1>1 DEF WordsInv
  <1> QED
    BY <1>1, <1>2, <1>3, <1>4 DEF WordsInv, Length

LEMMA NextWords == WordsInv /\ [Next]_vars => WordsInv'
  <1> SUFFICES ASSUME WordsInv, [Next]_vars PROVE WordsInv'
    OBVIOUS
  <1>1. ASSUME NEW w \in Workers, StartWalk(w) PROVE WordsInv'
    BY <1>1 DEF WordsInv, StartWalk, Length
  <1>2. ASSUME NEW w \in Workers, FollowSingle(w) \/ PopTransition(w) \/ FollowAny(w)
        PROVE  WordsInv'
    BY <1>2, FollowKeepsWords DEF FollowSingle, PopTransition, FollowAny
  <1>3. ASSUME NEW w \in Workers, ReturnAnywhere(w) PROVE WordsInv'
    <2>1. CASE \E e \in Out(w) : Follow(w, e)
      BY <1>3, <2>1, FollowKeepsWords DEF ReturnAnywhere
    <2>2. CASE /\ edges_visited' = [edges_visited EXCEPT ![w] = @ + 1]
               /\ UNCHANGED <<request, pc, words>>
      BY <1>3, <2>2 DEF WordsInv, ReturnAnywhere, IsWalking, Length
    <2> QED
      BY <1>3, <2>1, <2>2 DEF ReturnAnywhere
  <1>4. ASSUME NEW w \in Workers, EndWalk(w) PROVE WordsInv'
    BY <1>4 DEF WordsInv, EndWalk, Length
  <1>5. ASSUME NEW w \in Workers, Lock(w) \/ WriteWord(w) \/ EndSentence(w) \/ EndWorker(w)
        PROVE  WordsInv'
    <2>1. CASE Lock(w) \/ EndWorker(w)
      BY <2>1 DEF WordsInv, Lock, EndWorker, Length
    <2>2. CASE WriteWord(w)
      BY <2>2 DEF WordsInv, WriteWord, Length
    <2>3. CASE EndSentence(w)
      <3>1. /\ pc[w] = "locked" /\ pc' = [pc EXCEPT ![w] = "label"]
            /\ words' = [words EXCEPT ![w] = 0]
            /\ UNCHANGED <<request, edges_visited>>
        BY <2>3 DEF EndSentence
      <3> QED
        BY <3>1 DEF WordsInv, Length
    <2> QED
      BY <1>5, <2>1, <2>2, <2>3
  <1>6. CASE Returned \/ UNCHANGED vars
    BY <1>6 DEF Returned, vars, WordsInv, Length
  <1> QED
    BY <1>1, <1>2, <1>3, <1>4, <1>5, <1>6 DEF Next, Step

(* A sentence has a word and no more than the walk_length of the request,  *)
(* which bounds the transitions: SingleRandomWalk and EmitLabel.           *)
THEOREM SentencesStayBounded == Spec => []SentencesAreBounded
  <1>1. WordsInv => SentencesAreBounded
    BY DEF WordsInv, SentencesAreBounded
  <1> QED
    BY InitWords, NextWords, <1>1, PTL DEF Spec

(***************************************************************************)
(* A sentence of every worker for every label.                             *)
(***************************************************************************)
(* A label has a line of each worker that has it behind it; who is not     *)
(* asked to walk has everything before it, and who has ended nothing.      *)
Behind(l) == {w \in Workers : l \notin todo[w]}

WalkedInv ==
  /\ request \in (0..MaxWalks) \X Int
  /\ pc \in [Workers -> {"label", "walk", "write", "locked", "end"}]
  /\ todo \in [Workers -> SUBSET GetLabels(graph)]
  /\ lines \in [GetLabels(graph) -> Nat]
  /\ \A w \in Workers :
       /\ pc[w] \in {"walk", "write", "locked"} => todo[w] # {}
       /\ pc[w] # "end" => w <= Walks /\ Length > 0
       /\ pc[w] = "end" /\ w <= Walks /\ Length > 0 => todo[w] = {}
       /\ w > Walks \/ Length <= 0 => todo[w] = GetLabels(graph)
  /\ \A l \in GetLabels(graph) : lines[l] = Cardinality(Behind(l))

LEMMA InitWalked == Init => WalkedInv
  <1> SUFFICES ASSUME Init PROVE WalkedInv
    OBVIOUS
  <1>1. request \in (0..MaxWalks) \X Int
    BY RequestsAssumption DEF Init
  <1>2. request[1] \in 0..MaxWalks /\ request[2] \in Int
    BY <1>1
  <1>3. \A l \in GetLabels(graph) : Behind(l) = {}
    BY DEF Init, Behind
  <1>4. Cardinality({}) = 0
    BY FS_EmptySet
  <1>5. \A l \in GetLabels(graph) : lines[l] = Cardinality(Behind(l))
    BY <1>3, <1>4 DEF Init
  <1>6. /\ todo \in [Workers -> SUBSET GetLabels(graph)]
        /\ lines \in [GetLabels(graph) -> Nat]
        /\ \A w \in Workers : todo[w] = GetLabels(graph)
    BY DEF Init
  <1>7. /\ pc \in [Workers -> {"label", "walk", "write", "locked", "end"}]
        /\ \A w \in Workers : pc[w] = IF w <= Walks /\ Length > 0 THEN "label" ELSE "end"
    BY DEF Init, Walks, Length
  <1> QED
    BY <1>1, <1>2, <1>5, <1>6, <1>7, MaxWalksAssumption DEF WalkedInv, Walks, Length, Workers

(* What is ahead of the workers changes only when a sentence has ended.    *)
LEMMA OthersKeepWalked ==
  ASSUME WalkedInv, NEW w \in Workers,
         UNCHANGED <<graph, request, todo, lines>>,
         NEW at \in {"label", "walk", "write", "locked", "end"},
         pc' = pc \/ pc' = [pc EXCEPT ![w] = at],
         at = "end" => pc[w] = "label" /\ todo[w] = {},
         at # "end" => pc[w] # "end",
         at \in {"walk", "write", "locked"} => todo[w] # {}
  PROVE  WalkedInv'
  <1>1. /\ (GetLabels(graph))' = GetLabels(graph)
        /\ Walks' = Walks /\ Length' = Length
        /\ \A l : (Behind(l))' = Behind(l)
    BY DEF GetLabels, Walks, Length, Behind
  <1>2. \A l \in GetLabels(graph) : lines'[l] = Cardinality(Behind(l))
    BY DEF WalkedInv
  <1>3. /\ pc' \in [Workers -> {"label", "walk", "write", "locked", "end"}]
        /\ \A v \in Workers :
             /\ pc'[v] \in {"walk", "write", "locked"} => todo[v] # {}
             /\ pc'[v] # "end" => v <= Walks /\ Length > 0
             /\ pc'[v] = "end" /\ v <= Walks /\ Length > 0 => todo[v] = {}
    BY DEF WalkedInv
  <1>4. /\ \A v \in Workers : v > Walks \/ Length <= 0 => todo'[v] = GetLabels(graph)
        /\ request' \in (0..MaxWalks) \X Int
        /\ todo' \in [Workers -> SUBSET GetLabels(graph)]
        /\ lines' \in [GetLabels(graph) -> Nat]
        /\ todo' = todo /\ lines' = lines
    BY DEF WalkedInv
  <1> QED
    BY <1>1, <1>2, <1>3, <1>4 DEF WalkedInv

(* One more line for the label that one more worker has behind it.         *)
LEMMA EndKeepsWalked ==
  ASSUME WalkedInv, NEW w \in Workers, EndSentence(w)
  PROVE  WalkedInv'
  <1> DEFINE first == FirstLabel(todo[w])
  <1>1. /\ pc[w] = "locked" /\ pc' = [pc EXCEPT ![w] = "label"]
        /\ todo' = [todo EXCEPT ![w] = todo[w] \ {first}]
        /\ lines' = [lines EXCEPT ![first] = lines[first] + 1]
        /\ UNCHANGED <<graph, request>>
    BY DEF EndSentence
  <1>2. first \in todo[w] /\ todo[w] \subseteq GetLabels(graph)
    BY <1>1 DEF WalkedInv, FirstLabel
  <1> HIDE DEF first
  <1>3. /\ (GetLabels(graph))' = GetLabels(graph)
        /\ Walks' = Walks /\ Length' = Length
    BY <1>1 DEF GetLabels, Walks, Length
  <1>4. w <= Walks /\ Length > 0
    BY <1>1 DEF WalkedInv
  <1>5. \A l \in GetLabels(graph) : lines'[l] = Cardinality(Behind(l)')
    <2> SUFFICES ASSUME NEW l \in GetLabels(graph) PROVE lines'[l] = Cardinality(Behind(l)')
      OBVIOUS
    <2>0. lines[l] = Cardinality(Behind(l))
      BY DEF WalkedInv
    <2>1. CASE l = first
      <3>1. Behind(l)' = Behind(l) \cup {w} /\ w \notin Behind(l)
        BY <1>1, <1>2, <2>1 DEF Behind, WalkedInv
      <3>2. IsFiniteSet(Workers)
        BY FS_Interval, MaxWalksAssumption DEF Workers
      <3>3. IsFiniteSet(Behind(l))
        BY <3>2, FS_Subset DEF Behind
      <3>4. Cardinality(Behind(l)') = Cardinality(Behind(l)) + 1
        BY <3>1, <3>3, FS_AddElement
      <3> QED
        BY <1>1, <2>0, <2>1, <3>4 DEF WalkedInv
    <2>2. CASE l # first
      <3>1. Behind(l)' = Behind(l)
        BY <1>1, <2>2 DEF Behind, WalkedInv
      <3> QED
        BY <1>1, <2>0, <2>2, <3>1 DEF WalkedInv
    <2> QED
      BY <2>1, <2>2
  <1>6. todo' \in [Workers -> SUBSET GetLabels(graph)] /\ lines' \in [GetLabels(graph) -> Nat]
    BY <1>1, <1>2 DEF WalkedInv
  <1>7. /\ pc' \in [Workers -> {"label", "walk", "write", "locked", "end"}]
        /\ pc'[w] = "label" /\ \A v \in Workers : v # w => pc'[v] = pc[v] /\ todo'[v] = todo[v]
    BY <1>1 DEF WalkedInv
  <1>8. ~(w > Walks \/ Length <= 0)
    BY <1>1, <1>4, MaxWalksAssumption DEF WalkedInv, Walks, Length, Workers
  <1>9. \A v \in Workers :
          /\ pc'[v] \in {"walk", "write", "locked"} => todo'[v] # {}
          /\ pc'[v] # "end" => v <= Walks /\ Length > 0
          /\ pc'[v] = "end" /\ v <= Walks /\ Length > 0 => todo'[v] = {}
          /\ v > Walks \/ Length <= 0 => todo'[v] = GetLabels(graph)
    <2> SUFFICES ASSUME NEW v \in Workers
                 PROVE  /\ pc'[v] \in {"walk", "write", "locked"} => todo'[v] # {}
                        /\ pc'[v] # "end" => v <= Walks /\ Length > 0
                        /\ pc'[v] = "end" /\ v <= Walks /\ Length > 0 => todo'[v] = {}
                        /\ v > Walks \/ Length <= 0 => todo'[v] = GetLabels(graph)
      OBVIOUS
    <2>1. CASE v = w
      BY <1>4, <1>7, <1>8, <2>1
    <2>2. CASE v # w
      BY <1>7, <2>2 DEF WalkedInv
    <2> QED
      BY <2>1, <2>2
  <1> QED
    BY <1>1, <1>3, <1>5, <1>6, <1>7, <1>9 DEF WalkedInv

LEMMA NextWalked == WalkedInv /\ [Next]_vars => WalkedInv'
  <1> SUFFICES ASSUME WalkedInv, [Next]_vars PROVE WalkedInv'
    OBVIOUS
  <1>1. ASSUME NEW w \in Workers, StartWalk(w) PROVE WalkedInv'
    BY <1>1, OthersKeepWalked DEF StartWalk
  <1>2. ASSUME NEW w \in Workers,
               FollowSingle(w) \/ PopTransition(w) \/ ReturnAnywhere(w) \/ FollowAny(w)
        PROVE  WalkedInv'
    <2>1. UNCHANGED <<graph, request, todo, lines>> /\ pc' = pc /\ pc[w] = "walk"
      BY <1>2 DEF FollowSingle, PopTransition, ReturnAnywhere, FollowAny, Follow, IsWalking
    <2>2. todo[w] # {}
      BY <2>1 DEF WalkedInv
    <2> QED
      BY <2>1, <2>2, OthersKeepWalked
  <1>3. ASSUME NEW w \in Workers, EndWalk(w) \/ Lock(w)
        PROVE  WalkedInv'
    <2>1. /\ UNCHANGED <<graph, request, todo, lines>>
          /\ pc[w] \in {"walk", "write"}
          /\ \/ pc' = [pc EXCEPT ![w] = "write"]
             \/ pc' = [pc EXCEPT ![w] = "locked"]
      BY <1>3 DEF EndWalk, Lock
    <2>2. todo[w] # {}
      BY <2>1 DEF WalkedInv
    <2> QED
      BY <2>1, <2>2, OthersKeepWalked
  <1>4. ASSUME NEW w \in Workers, WriteWord(w) PROVE WalkedInv'
    <2>1. UNCHANGED <<graph, request, todo, lines>> /\ pc' = pc /\ pc[w] = "locked"
      BY <1>4 DEF WriteWord
    <2>2. todo[w] # {}
      BY <2>1 DEF WalkedInv
    <2> QED
      BY <2>1, <2>2, OthersKeepWalked
  <1>5. ASSUME NEW w \in Workers, EndSentence(w) PROVE WalkedInv'
    BY <1>5, EndKeepsWalked
  <1>6. ASSUME NEW w \in Workers, EndWorker(w) PROVE WalkedInv'
    BY <1>6, OthersKeepWalked DEF EndWorker
  <1>7. CASE Returned \/ UNCHANGED vars
    <2>1. UNCHANGED <<graph, request, pc, todo, lines>>
      BY <1>7 DEF Returned, vars
    <2>2. /\ (GetLabels(graph))' = GetLabels(graph)
          /\ Walks' = Walks /\ Length' = Length
          /\ \A l : (Behind(l))' = Behind(l)
      BY <2>1 DEF GetLabels, Walks, Length, Behind
    <2> QED
      BY <2>1, <2>2 DEF WalkedInv
  <1> QED
    BY <1>1, <1>2, <1>3, <1>4, <1>5, <1>6, <1>7 DEF Next, Step

(* When RandomWalk returns, every label of the graph has begun             *)
(* walks_per_label sentences, whatever the order of the workers.           *)
THEOREM LabelsAreWalked == Spec => []EachLabelIsWalked
  <1>1. WalkedInv => EachLabelIsWalked
    <2> SUFFICES ASSUME WalkedInv, Done, NEW l \in DOMAIN lines
                 PROVE  lines[l] = IF Length > 0 THEN Walks ELSE 0
      BY DEF EachLabelIsWalked
    <2>1. l \in GetLabels(graph) /\ lines[l] = Cardinality(Behind(l))
      BY DEF WalkedInv
    <2>2. Walks \in 0..MaxWalks /\ Length \in Int
      BY DEF WalkedInv, Walks, Length
    <2>3. CASE Length > 0
      <3>1. \A w \in Workers : l \notin todo[w] <=> w <= Walks
        BY <2>1, <2>2, <2>3, MaxWalksAssumption DEF WalkedInv, Done, Workers
      <3>2. Behind(l) = 1..Walks
        BY <2>2, <3>1, MaxWalksAssumption DEF Behind, Workers
      <3>3. Cardinality(1..Walks) = Walks
        BY <2>2, MaxWalksAssumption, FS_Interval
      <3> QED
        BY <2>1, <2>3, <3>2, <3>3
    <2>4. CASE ~(Length > 0)
      <3>1. Behind(l) = {}
        BY <2>1, <2>2, <2>4 DEF WalkedInv, Behind
      <3> QED
        BY <2>1, <2>4, <3>1, FS_EmptySet
    <2> QED
      BY <2>3, <2>4
  <1> QED
    BY InitWalked, NextWalked, <1>1, PTL DEF Spec

(***************************************************************************)
(* Where a walk may stop: the shape of the graph.                          *)
(***************************************************************************)
LEMMA LeastNatural ==
  ASSUME NEW S \in SUBSET Nat, S # {}
  PROVE  \E m \in S : \A n \in S : m <= n
  <1>1. PICK m \in S : \A n \in S : <<n, m>> \notin OpToRel(<, Nat)
    BY NatLessThanWellFounded, WFMin
  <1>2. \A n \in S : ~ n < m
    BY <1>1 DEF OpToRel
  <1> QED
    BY <1>2

(* The pairs of vertices that ControlFlowPass joins.                       *)
Drawn(prog) ==
  (UNION {FunctionEdges(prog, f) : f \in DOMAIN prog}) \cup MainEdges(prog)
  \cup CallEdges(prog) \cup ReturnEdges(prog) \cup MayReturnEdges(prog)

Leads(prog, v) == \E p \in Drawn(prog) : p[1] = v

(* WriteGraph writes all of them and no others.                            *)
LEMMA EdgeListIsDrawn ==
  ASSUME NEW prog, NEW edges \in EdgeLists(prog)
  PROVE  /\ \A e \in edges : e = [source |-> e.source, target |-> e.target,
                                 meta |-> e.meta, labels |-> e.labels]
         /\ \A e \in edges : \E p \in Drawn(prog) : p[1] = e.source /\ p[2] = e.target
         /\ \A p \in Drawn(prog) : \E e \in edges : e.source = p[1] /\ e.target = p[2]
         /\ \A e \in edges : e.meta = "call" =>
              \E p \in CallEdges(prog) : p[1] = e.source /\ p[2] = e.target
  <1>1. PICK labelling \in Labellings(prog) : edges = EdgeList(prog, labelling)
    BY DEF EdgeLists
  <1> DEFINE plain == (UNION {FunctionEdges(prog, f) : f \in DOMAIN prog}) \cup MainEdges(prog)
  <1>2. edges = {[source |-> e[1], target |-> e[2], meta |-> "may_ret", labels |-> {}] :
                   e \in MayReturnEdges(prog)}
                \cup {[source |-> e[1], target |-> e[2], meta |-> "call", labels |-> {}] :
                        e \in CallEdges(prog)}
                \cup {[source |-> e[1], target |-> e[2], meta |-> "ret", labels |-> {}] :
                        e \in ReturnEdges(prog)}
                \cup {[source |-> e[1], target |-> e[2], meta |-> "",
                       labels |-> {labelling[e[1]]} \ {Unlabelled}] :
                        e \in plain \ ReturnEdges(prog)}
    BY <1>1 DEF EdgeList
  <1>3. \A p : p \in Drawn(prog) <=>
          \/ p \in plain \/ p \in CallEdges(prog)
          \/ p \in ReturnEdges(prog) \/ p \in MayReturnEdges(prog)
    BY DEF Drawn
  <1> HIDE DEF plain
  <1>4. ASSUME NEW e \in edges
        PROVE  /\ e = [source |-> e.source, target |-> e.target,
                       meta |-> e.meta, labels |-> e.labels]
               /\ \E p \in Drawn(prog) : p[1] = e.source /\ p[2] = e.target
               /\ e.meta = "call" => \E p \in CallEdges(prog) : p[1] = e.source /\ p[2] = e.target
    <2>1. CASE \E q \in MayReturnEdges(prog) :
                 e = [source |-> q[1], target |-> q[2], meta |-> "may_ret", labels |-> {}]
      BY <1>3, <2>1
    <2>2. CASE \E q \in CallEdges(prog) :
                 e = [source |-> q[1], target |-> q[2], meta |-> "call", labels |-> {}]
      BY <1>3, <2>2
    <2>3. CASE \E q \in ReturnEdges(prog) :
                 e = [source |-> q[1], target |-> q[2], meta |-> "ret", labels |-> {}]
      BY <1>3, <2>3
    <2>4. CASE \E q \in plain : e = [source |-> q[1], target |-> q[2], meta |-> "",
                                     labels |-> {labelling[q[1]]} \ {Unlabelled}]
      <3>1. PICK q \in plain : e = [source |-> q[1], target |-> q[2], meta |-> "",
                                    labels |-> {labelling[q[1]]} \ {Unlabelled}]
        BY <2>4
      <3>2. /\ e.source = q[1] /\ e.target = q[2] /\ e.meta = ""
            /\ e.labels = {labelling[q[1]]} \ {Unlabelled}
        BY <3>1
      <3> QED
        BY <1>3, <3>1, <3>2
    <2> QED
      BY <1>2, <2>1, <2>2, <2>3, <2>4
  <1>5. ASSUME NEW p \in Drawn(prog)
        PROVE  \E e \in edges : e.source = p[1] /\ e.target = p[2]
    <2>1. CASE p \in MayReturnEdges(prog)
      <3>1. [source |-> p[1], target |-> p[2], meta |-> "may_ret", labels |-> {}] \in edges
        BY <1>2, <2>1
      <3> QED
        BY <3>1
    <2>2. CASE p \in CallEdges(prog)
      <3>1. [source |-> p[1], target |-> p[2], meta |-> "call", labels |-> {}] \in edges
        BY <1>2, <2>2
      <3> QED
        BY <3>1
    <2>3. CASE p \in ReturnEdges(prog)
      <3>1. [source |-> p[1], target |-> p[2], meta |-> "ret", labels |-> {}] \in edges
        BY <1>2, <2>3
      <3> QED
        BY <3>1
    <2>4. CASE p \in plain \ ReturnEdges(prog)
      <3>1. [source |-> p[1], target |-> p[2], meta |-> "",
             labels |-> {labelling[p[1]]} \ {Unlabelled}] \in edges
        BY <1>2, <2>4
      <3> QED
        BY <3>1
    <2> QED
      BY <1>3, <2>1, <2>2, <2>3, <2>4
  <1> QED
    BY <1>4, <1>5

(* What comes next in a block.                                             *)
LEMMA FollowingIsNext ==
  ASSUME NEW block, Len(block) \in Nat, DOMAIN block = 1..Len(block),
         NEW k \in Positions(block), k # Exit(block)
  PROVE  /\ Following(block, k) \in Positions(block) /\ Following(block, k) > k
         /\ \A j \in Positions(block) : j > k => Following(block, k) <= j
  <1> DEFINE S == {j \in Positions(block) : j > k}
  <1>1. Positions(block) \subseteq Nat /\ Exit(block) \in Positions(block) /\ Exit(block) > k
    BY DEF Positions, Exit
  <1>2. S \in SUBSET Nat /\ S # {}
    BY <1>1
  <1>3. \E m \in S : \A n \in S : m <= n
    <2> HIDE DEF S
    <2> QED
      BY <1>2, LeastNatural
  <1>4. Min(S) \in S /\ \A n \in S : Min(S) <= n
    <2> HIDE DEF S
    <2> QED
      BY <1>3 DEF Min
  <1> QED
    BY <1>4 DEF Following

LEMMA PositionsLead ==
  ASSUME NEW prog, NEW f \in DOMAIN prog, NEW b \in DOMAIN prog[f],
         NEW k \in Positions(prog[f][b]), k # Exit(prog[f][b])
  PROVE  Leads(prog, VertexAt(f, prog[f][b], k))
  <1> DEFINE v == VertexAt(f, prog[f][b], k)
             p == <<v, VertexAt(f, prog[f][b], Following(prog[f][b], k))>>
  <1>1. p \in BlockEdges(f, prog[f][b])
    BY DEF BlockEdges
  <1>2. p \in FunctionEdges(prog, f)
    BY <1>1 DEF FunctionEdges
  <1>3. p \in Drawn(prog) /\ p[1] = v
    BY <1>2 DEF Drawn
  <1> QED
    BY <1>3 DEF Leads

LEMMA EntersLead ==
  ASSUME NEW prog, IsModule(prog), NEW f \in DOMAIN prog, NEW b \in DOMAIN prog[f]
  PROVE  Leads(prog, Enter(f, prog[f][b]))
  <1>1. Len(prog[f][b]) \in Nat
    BY DEF IsModule
  <1>2. 0 \in Positions(prog[f][b]) /\ 0 # Exit(prog[f][b])
    BY <1>1 DEF Positions, Exit
  <1>3. VertexAt(f, prog[f][b], 0) = Enter(f, prog[f][b])
    BY DEF VertexAt
  <1> QED
    BY <1>2, <1>3, PositionsLead

LEMMA FunctionsLead ==
  ASSUME NEW prog, NEW f \in DOMAIN prog
  PROVE  Leads(prog, FnVertex(f))
  <1>1. <<FnVertex(f), Enter(f, prog[f][1])>> \in FunctionEdges(prog, f)
    BY DEF FunctionEdges
  <1>2. <<FnVertex(f), Enter(f, prog[f][1])>> \in Drawn(prog)
    BY <1>1 DEF Drawn
  <1> QED
    BY <1>2 DEF Leads

IsExit(prog, v) == \E f \in DOMAIN prog : \E b \in DOMAIN prog[f] : v = Leave(f, prog[f][b])

(* Along a block one comes to its exit.                                    *)
LEMMA BlocksLead ==
  ASSUME NEW prog, IsModule(prog), NEW f \in DOMAIN prog, NEW b \in DOMAIN prog[f],
         NEW k \in Positions(prog[f][b])
  PROVE  \/ Leads(prog, VertexAt(f, prog[f][b], k))
         \/ IsExit(prog, VertexAt(f, prog[f][b], k))
  <1>1. CASE k = Exit(prog[f][b])
    <2>1. Exit(prog[f][b]) # 0
      BY DEF IsModule, Exit
    <2>2. VertexAt(f, prog[f][b], k) = Leave(f, prog[f][b])
      BY <1>1, <2>1 DEF VertexAt
    <2> QED
      BY <2>2 DEF IsExit
  <1>2. CASE k # Exit(prog[f][b])
    BY <1>2, PositionsLead
  <1> QED
    BY <1>1, <1>2

(* After a call there is an instruction: it does not end its block.        *)
LEMMA ReturnSitesLead ==
  ASSUME NEW prog, IsModule(prog), NEW r \in ReturnEdges(prog)
  PROVE  Leads(prog, r[2])
  <1>1. PICK c \in CallsOf(prog) : r = <<InstVertex(c[1], c[2][c[3]]), VertexAt(c[1], c[2], Following(c[2], c[3]))>>
    BY DEF ReturnEdges
  <1>2. PICK f \in DOMAIN prog : \E b \in DOMAIN prog[f] : \E k \in DOMAIN prog[f][b] :
          c = <<f, prog[f][b], k>> /\ prog[f][b][k].op = "call"
    BY DEF CallsOf, Range
  <1>3. PICK b \in DOMAIN prog[f] : \E k \in DOMAIN prog[f][b] :
          c = <<f, prog[f][b], k>> /\ prog[f][b][k].op = "call"
    BY <1>2
  <1>4. PICK k \in DOMAIN prog[f][b] : c = <<f, prog[f][b], k>> /\ prog[f][b][k].op = "call"
    BY <1>3
  <1> DEFINE block == prog[f][b]
  <1>5. /\ Len(block) \in Nat /\ DOMAIN block = 1..Len(block)
        /\ IsBody(prog[f])
    BY DEF IsModule
  <1>6. \A i \in DOMAIN block :
          (block[i].op \in {"jump", "branch", "switch", "return"}) <=> (i = Len(block))
    BY <1>5 DEF IsBody, IsBlock
  <1> HIDE DEF block
  <1>7. k \in DOMAIN block /\ block[k].op = "call"
    BY <1>4 DEF block
  <1>8. k # Len(block) /\ Len(block) \in DOMAIN block /\ Len(block) > k
    BY <1>5, <1>6, <1>7
  <1>9. k \in Positions(block) /\ k # Exit(block) /\ Len(block) \in Positions(block)
    <2>1. block[k].op # "intrinsic" /\ block[Len(block)].op # "intrinsic"
      BY <1>6, <1>7, <1>8
    <2>2. k \in Positions(block) /\ Len(block) \in Positions(block)
      BY <1>7, <1>8, <2>1 DEF Positions
    <2>3. k # Exit(block)
      BY <1>5, <1>7 DEF Exit
    <2> QED
      BY <2>2, <2>3
  <1>10. /\ Following(block, k) \in Positions(block)
         /\ Following(block, k) <= Len(block)
    BY <1>5, <1>8, <1>9, FollowingIsNext
  <1>11. Following(block, k) # Exit(block)
    BY <1>5, <1>10 DEF Exit
  <1>12. r[2] = VertexAt(f, block, Following(block, k))
    BY <1>1, <1>4 DEF block
  <1> QED
    BY <1>10, <1>11, <1>12, PositionsLead DEF block

(* Every edge goes to a vertex that leads on, to a callee without a body   *)
(* or to the exit of a block.                                              *)
LEMMA TargetsLead ==
  ASSUME NEW prog, IsModule(prog), NEW p \in Drawn(prog)
  PROVE  Leads(prog, p[2]) \/ p[2][1] = "extern" \/ IsExit(prog, p[2])
  <1>1. ASSUME NEW f \in DOMAIN prog, p \in FunctionEdges(prog, f)
        PROVE  Leads(prog, p[2]) \/ IsExit(prog, p[2])
    <2>0. 1 \in DOMAIN prog[f]
      BY DEF IsModule
    <2>1. CASE p = <<FnVertex(f), Enter(f, prog[f][1])>>
      BY <2>0, <2>1, EntersLead
    <2>2. ASSUME NEW b \in DOMAIN prog[f], p \in BlockEdges(f, prog[f][b])
          PROVE  Leads(prog, p[2]) \/ IsExit(prog, p[2])
      <3>1. PICK k \in Positions(prog[f][b]) \ {Exit(prog[f][b])} :
              p = <<VertexAt(f, prog[f][b], k), VertexAt(f, prog[f][b], Following(prog[f][b], k))>>
        BY <2>2 DEF BlockEdges
      <3>2. Following(prog[f][b], k) \in Positions(prog[f][b])
        BY FollowingIsNext DEF IsModule
      <3> QED
        BY <3>1, <3>2, BlocksLead
    <2>3. ASSUME NEW b \in DOMAIN prog[f], NEW q \in DOMAIN prog[f],
                 p \in {<<Leave(f, prog[f][q]), Condition(f, prog[f][b])>>,
                        <<Condition(f, prog[f][b]), Enter(f, prog[f][b])>>},
                 <<Condition(f, prog[f][b]), Enter(f, prog[f][b])>> \in FunctionEdges(prog, f)
          PROVE  Leads(prog, p[2])
      <3>1. Leads(prog, Condition(f, prog[f][b]))
        BY <2>3 DEF Leads, Drawn
      <3> QED
        BY <2>3, <3>1, EntersLead
    <2>4. ASSUME NEW b \in DOMAIN prog[f], NEW q \in DOMAIN prog[f],
                 p = <<Leave(f, prog[f][q]), Enter(f, prog[f][b])>>
          PROVE  Leads(prog, p[2])
      BY <2>4, EntersLead
    <2>5. ASSUME NEW S \in JoinEdges(f, prog[f]), p \in S
          PROVE  Leads(prog, p[2])
      <3>1. PICK b \in DOMAIN prog[f] : \E q \in Predecessors(prog[f], b) :
              S = IF IsComparison(prog[f], prog[f][q])
                  THEN {<<Leave(f, prog[f][q]), Condition(f, prog[f][b])>>,
                        <<Condition(f, prog[f][b]), Enter(f, prog[f][b])>>}
                  ELSE {<<Leave(f, prog[f][q]), Enter(f, prog[f][b])>>}
        BY <2>5 DEF JoinEdges
      <3>2. PICK q \in Predecessors(prog[f], b) :
              S = IF IsComparison(prog[f], prog[f][q])
                  THEN {<<Leave(f, prog[f][q]), Condition(f, prog[f][b])>>,
                        <<Condition(f, prog[f][b]), Enter(f, prog[f][b])>>}
                  ELSE {<<Leave(f, prog[f][q]), Enter(f, prog[f][b])>>}
        BY <3>1
      <3>3. q \in DOMAIN prog[f]
        BY DEF Predecessors
      <3>4. \A e \in S : e \in FunctionEdges(prog, f)
        <4>1. \A e \in S : e \in UNION JoinEdges(f, prog[f])
          BY <2>5
        <4> QED
          BY <4>1 DEF FunctionEdges
      <3>5. CASE S = {<<Leave(f, prog[f][q]), Enter(f, prog[f][b])>>}
        BY <2>4, <2>5, <3>3, <3>5
      <3>6. CASE S = {<<Leave(f, prog[f][q]), Condition(f, prog[f][b])>>,
                      <<Condition(f, prog[f][b]), Enter(f, prog[f][b])>>}
        BY <2>3, <2>5, <3>3, <3>4, <3>6
      <3> QED
        BY <3>2, <3>5, <3>6
    <2> QED
      BY <1>1, <2>1, <2>2, <2>5 DEF FunctionEdges
  <1>2. CASE p \in MainEdges(prog)
    <2>1. PICK f \in DOMAIN prog : p[2] = FnVertex(f)
      BY <1>2 DEF MainEdges
    <2> QED
      BY <2>1, FunctionsLead
  <1>3. CASE p \in CallEdges(prog)
    <2>1. PICK c \in CallsOf(prog) : p[2] \in CalleeVertices(prog, c[2][c[3]])
      BY <1>3 DEF CallEdges
    <2>2. PICK f \in Callees(c[2][c[3]]) :
            p[2] = IF f \in DOMAIN prog THEN FnVertex(f) ELSE Extern(f)
      BY <2>1 DEF CalleeVertices
    <2>3. Extern(f)[1] = "extern"
      BY DEF Extern
    <2> QED
      BY <2>2, <2>3, FunctionsLead
  <1>4. CASE p \in ReturnEdges(prog)
    BY <1>4, ReturnSitesLead
  <1>5. CASE p \in MayReturnEdges(prog)
    <2>1. PICK f \in DOMAIN prog : \E r \in ReturnEdges(prog) : p = <<LastReturn(f, prog[f]), r[2]>>
      BY <1>5 DEF MayReturnEdges
    <2>2. PICK r \in ReturnEdges(prog) : p = <<LastReturn(f, prog[f]), r[2]>>
      BY <2>1
    <2> QED
      BY <2>2, ReturnSitesLead
  <1> QED
    BY <1>1, <1>2, <1>3, <1>4, <1>5 DEF Drawn

(* A vertex is a triple, never the null pointer.                           *)
LEMMA VerticesAreTriples ==
  /\ \A f : FnVertex(f) # NoNode /\ Extern(f) # NoNode
  /\ \A f, block : /\ Enter(f, block) # NoNode /\ Condition(f, block) # NoNode
                   /\ \A k : VertexAt(f, block, k) # NoNode
  BY DEF FnVertex, Extern, Enter, Condition, Leave, InstVertex, VertexAt, NoNode

LEMMA TargetsAreTriples ==
  ASSUME NEW prog, NEW p \in Drawn(prog)
  PROVE  p[2] # NoNode
  <1>1. ASSUME NEW f \in DOMAIN prog, p \in FunctionEdges(prog, f)
        PROVE  p[2] # NoNode
    <2>1. CASE p = <<FnVertex(f), Enter(f, prog[f][1])>>
      BY <2>1, VerticesAreTriples
    <2>2. ASSUME NEW b \in DOMAIN prog[f], p \in BlockEdges(f, prog[f][b])
          PROVE  p[2] # NoNode
      <3>1. PICK k \in Positions(prog[f][b]) \ {Exit(prog[f][b])} :
              p = <<VertexAt(f, prog[f][b], k), VertexAt(f, prog[f][b], Following(prog[f][b], k))>>
        BY <2>2 DEF BlockEdges
      <3> QED
        BY <3>1, VerticesAreTriples
    <2>3. ASSUME NEW S \in JoinEdges(f, prog[f]), p \in S
          PROVE  p[2] # NoNode
      <3>1. PICK b \in DOMAIN prog[f] : \E q \in Predecessors(prog[f], b) :
              S = IF IsComparison(prog[f], prog[f][q])
                  THEN {<<Leave(f, prog[f][q]), Condition(f, prog[f][b])>>,
                        <<Condition(f, prog[f][b]), Enter(f, prog[f][b])>>}
                  ELSE {<<Leave(f, prog[f][q]), Enter(f, prog[f][b])>>}
        BY <2>3 DEF JoinEdges
      <3> QED
        BY <2>3, <3>1, VerticesAreTriples
    <2> QED
      BY <1>1, <2>1, <2>2, <2>3 DEF FunctionEdges
  <1>2. CASE p \in MainEdges(prog)
    BY <1>2, VerticesAreTriples DEF MainEdges
  <1>3. CASE p \in CallEdges(prog)
    <2>1. PICK c \in CallsOf(prog) : p[2] \in CalleeVertices(prog, c[2][c[3]])
      BY <1>3 DEF CallEdges
    <2> QED
      BY <2>1, VerticesAreTriples DEF CalleeVertices
  <1>4. \A r \in ReturnEdges(prog) : r[2] # NoNode
    <2> SUFFICES ASSUME NEW r \in ReturnEdges(prog) PROVE r[2] # NoNode
      OBVIOUS
    <2>1. PICK c \in CallsOf(prog) :
            r = <<InstVertex(c[1], c[2][c[3]]), VertexAt(c[1], c[2], Following(c[2], c[3]))>>
      BY DEF ReturnEdges
    <2> QED
      BY <2>1, VerticesAreTriples
  <1>5. CASE p \in MayReturnEdges(prog)
    <2>1. PICK f \in DOMAIN prog : \E r \in ReturnEdges(prog) : p = <<LastReturn(f, prog[f]), r[2]>>
      BY <1>5 DEF MayReturnEdges
    <2> QED
      BY <1>4, <2>1
  <1> QED
    BY <1>1, <1>2, <1>3, <1>4, <1>5 DEF Drawn

(* What is read is what was written, without the edges from main.0.        *)
LEMMA ReadEdges ==
  ASSUME NEW g \in Graphs
  PROVE  \E m \in Modules : \E edges \in EdgeLists(m) :
           /\ g.prog = m
           /\ \A e \in g.edges : \E x \in edges :
                x.source = e.source /\ x.target = e.target /\ x.meta = e.meta
           /\ \A x \in edges : x.source # FnVertex("main") =>
                \E e \in g.edges : e.source = x.source
  <1>1. PICK m \in Modules : \E edges \in EdgeLists(m) :
          g = [prog |-> m, edges |-> ReadLegacyIcfg(edges)]
    BY DEF Graphs
  <1>2. PICK edges \in EdgeLists(m) : g = [prog |-> m, edges |-> ReadLegacyIcfg(edges)]
    BY <1>1
  <1>3. \A x \in edges : x = [source |-> x.source, target |-> x.target,
                              meta |-> x.meta, labels |-> x.labels]
    BY EdgeListIsDrawn
  <1>4. ASSUME NEW x \in edges, NEW more
        PROVE  LET y == [x EXCEPT !.labels = more]
               IN y.source = x.source /\ y.target = x.target /\ y.meta = x.meta
    BY <1>3
  <1>5. ASSUME NEW e \in g.edges
        PROVE  \E x \in edges : x.source = e.source /\ x.target = e.target /\ x.meta = e.meta
    <2>1. PICK x \in edges : e = [x EXCEPT !.labels = @ \cup CallNames(edges, x.source)]
      BY <1>2 DEF ReadLegacyIcfg
    <2> QED
      BY <1>4, <2>1
  <1>6. ASSUME NEW x \in edges, x.source # FnVertex("main")
        PROVE  \E e \in g.edges : e.source = x.source
    <2>1. [x EXCEPT !.labels = @ \cup CallNames(edges, x.source)] \in g.edges
      BY <1>2, <1>6 DEF ReadLegacyIcfg
    <2> QED
      BY <1>4, <2>1
  <1>7. g.prog = m
    BY <1>2
  <1> QED
    BY <1>5, <1>6, <1>7

(* A function that is called may return to the site of each of its calls.  *)
LEMMA CalledMayReturn ==
  ASSUME NEW prog, NEW f \in DOMAIN prog, ReturningBlocks(prog[f]) # {},
         NEW p \in CallEdges(prog), p[2][2] = f
  PROVE  Leads(prog, LastReturn(f, prog[f]))
  <1>1. PICK c \in CallsOf(prog) : \E v \in CalleeVertices(prog, c[2][c[3]]) :
          p = <<InstVertex(c[1], c[2][c[3]]), v>>
    BY DEF CallEdges
  <1>2. PICK v \in CalleeVertices(prog, c[2][c[3]]) : p = <<InstVertex(c[1], c[2][c[3]]), v>>
    BY <1>1
  <1>3. PICK h \in Callees(c[2][c[3]]) : v = IF h \in DOMAIN prog THEN FnVertex(h) ELSE Extern(h)
    BY DEF CalleeVertices
  <1>4. v = FnVertex(f)
    BY <1>2, <1>3 DEF FnVertex, Extern
  <1> DEFINE r == <<InstVertex(c[1], c[2][c[3]]), VertexAt(c[1], c[2], Following(c[2], c[3]))>>
  <1>5. r \in ReturnEdges(prog)
    BY <1>3 DEF ReturnEdges
  <1>6. r[1] = InstVertex(c[1], c[2][c[3]])
    OBVIOUS
  <1> HIDE DEF r
  <1>7. <<r[1], FnVertex(f)>> \in CallEdges(prog)
    BY <1>2, <1>4, <1>6
  <1>8. <<LastReturn(f, prog[f]), r[2]>> \in MayReturnEdges(prog)
    BY <1>5, <1>7 DEF MayReturnEdges
  <1>9. <<LastReturn(f, prog[f]), r[2]>> \in Drawn(prog)
    BY <1>8 DEF Drawn
  <1> QED
    BY <1>9 DEF Leads

(* From the exit of a block that does not return one comes to another one. *)
LEMMA OnlyReturnsStop ==
  ASSUME NEW prog, IsModule(prog), NEW f \in DOMAIN prog, NEW b \in DOMAIN prog[f],
         ~ Leads(prog, Leave(f, prog[f][b]))
  PROVE  b \in ReturningBlocks(prog[f])
  <1> DEFINE body == prog[f]
             last == Terminator(body[b])
             len  == Len(body[b])
  <1>1. /\ IsBlock(body[b]) /\ Successors(last) \subseteq DOMAIN body
        /\ len \in Nat /\ DOMAIN body[b] = 1..len
    BY DEF IsModule, IsBody
  <1>2. last.op \in {"jump", "branch", "switch", "return"}
    <2>1. len # 0
      BY <1>1 DEF IsBlock
    <2>2. len \in DOMAIN body[b]
      BY <1>1, <2>1
    <2> QED
      BY <1>1, <2>2 DEF IsBlock, Terminator
  <1>3. SUFFICES ASSUME last.op # "return" PROVE FALSE
    BY DEF ReturningBlocks
  <1>4. PICK s : s \in Successors(last)
    BY <1>2, <1>3 DEF Successors
  <1>5. s \in DOMAIN body /\ b \in Predecessors(body, s)
    BY <1>1, <1>4 DEF Predecessors
  <1> DEFINE S == IF IsComparison(body, body[b])
                  THEN {<<Leave(f, body[b]), Condition(f, body[s])>>,
                        <<Condition(f, body[s]), Enter(f, body[s])>>}
                  ELSE {<<Leave(f, body[b]), Enter(f, body[s])>>}
  <1>6. S \in JoinEdges(f, body)
    BY <1>5 DEF JoinEdges
  <1>7. \E p \in S : p[1] = Leave(f, body[b])
    OBVIOUS
  <1> HIDE DEF S
  <1>8. S \subseteq Drawn(prog)
    <2>1. S \subseteq UNION JoinEdges(f, body)
      BY <1>6
    <2>2. S \subseteq FunctionEdges(prog, f)
      BY <2>1 DEF FunctionEdges
    <2> QED
      BY <2>2 DEF Drawn
  <1> QED
    BY <1>7, <1>8 DEF Leads

(* Where nothing leaves there is nothing to go to.                         *)
LEMMA StopsAreDeadEnds ==
  ASSUME NEW g \in Graphs, NEW v \in NodesOf(g), GetOutEdges(g, v) = {}
  PROVE  v \in DeadEnds(g)
  <1>1. CASE v = FnVertex("main")
    BY <1>1 DEF DeadEnds
  <1>2. CASE v # FnVertex("main")
    <2>1. PICK m \in Modules : \E edges \in EdgeLists(m) :
            /\ g.prog = m
            /\ \A e \in g.edges : \E x \in edges :
                 x.source = e.source /\ x.target = e.target /\ x.meta = e.meta
            /\ \A x \in edges : x.source # FnVertex("main") =>
                 \E e \in g.edges : e.source = x.source
      BY ReadEdges
    <2>2. PICK edges \in EdgeLists(m) :
            /\ g.prog = m
            /\ \A e \in g.edges : \E x \in edges :
                 x.source = e.source /\ x.target = e.target /\ x.meta = e.meta
            /\ \A x \in edges : x.source # FnVertex("main") =>
                 \E e \in g.edges : e.source = x.source
      BY <2>1
    <2>3. \A e \in g.edges : e.source # v
      BY DEF GetOutEdges
    <2>4. ~ Leads(m, v)
      <3> SUFFICES ASSUME NEW p \in Drawn(m), p[1] = v PROVE FALSE
        BY DEF Leads
      <3>1. PICK x \in edges : x.source = v
        BY EdgeListIsDrawn
      <3> QED
        BY <1>2, <2>2, <2>3, <3>1
    <2>5. PICK e \in g.edges : e.target = v
      BY <2>3 DEF NodesOf
    <2>6. PICK x \in edges : x.target = v
      BY <2>2, <2>5
    <2>7. PICK p \in Drawn(m) : p[2] = v
      BY <2>6, EdgeListIsDrawn
    <2>8. v[1] = "extern" \/ IsExit(m, v)
      BY <2>4, <2>7, TargetsLead, ModulesAssumption
    <2>9. CASE v[1] = "extern"
      BY <2>9 DEF DeadEnds
    <2>10. CASE IsExit(m, v)
      <3>1. PICK f \in DOMAIN m : \E b \in DOMAIN m[f] : v = Leave(f, m[f][b])
        BY <2>10 DEF IsExit
      <3>2. v[1] = "bbx" /\ v[2] = f
        BY <3>1 DEF Leave
      <3>4. PICK b \in DOMAIN m[f] : v = Leave(f, m[f][b])
        BY <3>1
      <3>5. b \in ReturningBlocks(m[f])
        BY <2>4, <3>4, OnlyReturnsStop, ModulesAssumption
      <3>3. ASSUME v = LastReturn(f, m[f]),
                   NEW y \in g.edges, y.meta = "call", y.target[2] = f
            PROVE  FALSE
        <4>1. PICK z \in edges : z.target = y.target /\ z.meta = "call"
          BY <2>2, <3>3
        <4>2. PICK q \in CallEdges(m) : q[2] = z.target
          BY <4>1, EdgeListIsDrawn
        <4>3. q[2][2] = f
          BY <3>3, <4>1, <4>2
        <4> QED
          BY <2>4, <3>3, <3>5, <4>3, CalledMayReturn
      <3> QED
        BY <2>2, <3>2, <3>3, <3>4, <3>5 DEF DeadEnds
    <2> QED
      BY <2>8, <2>9, <2>10
  <1> QED
    BY <1>1, <1>2

LEMMA NodesAreTriples ==
  ASSUME NEW g \in Graphs, NEW e \in g.edges
  PROVE  e.target # NoNode
  <1>1. PICK m \in Modules : \E edges \in EdgeLists(m) :
          \A y \in g.edges : \E x \in edges : x.target = y.target
    BY ReadEdges
  <1>2. PICK edges \in EdgeLists(m) : \A y \in g.edges : \E x \in edges : x.target = y.target
    BY <1>1
  <1>3. PICK x \in edges : x.target = e.target
    BY <1>2
  <1> QED
    BY <1>3, EdgeListIsDrawn, TargetsAreTriples

(* A walk that follows an edge is somewhere afterwards.                    *)
LEMMA FollowGoesOn ==
  ASSUME StackInv, graph \in Graphs, NEW w \in Workers, NEW e \in graph.edges, Follow(w, e),
         NEW v \in Workers, node'[v] = NoNode
  PROVE  node[v] = NoNode
  BY NodesAreTriples DEF Follow, StackInv

(* The graph is read before the walks begin; a walk is in no more calls    *)
(* than it has return sites stacked.                                       *)
DeadEndInv ==
  /\ StackInv
  /\ graph \in Graphs
  /\ \A w \in Workers : Len(calls[w]) <= Len(returns[w])

LEMMA InitDeadEnd == Init => DeadEndInv
  <1> SUFFICES ASSUME Init PROVE DeadEndInv
    OBVIOUS
  <1>1. \A w \in Workers : calls[w] = <<>> /\ returns[w] = <<>>
    BY DEF Init
  <1> QED
    BY <1>1, InitStack DEF DeadEndInv, Init

LEMMA LeaveShortens ==
  ASSUME StackInv, NEW w \in Workers, LeaveFunction(w)
  PROVE  /\ calls[w] = <<>> => calls'[w] = <<>>
         /\ calls[w] # <<>> => Len(calls'[w]) = Len(calls[w]) - 1
         /\ \A v \in Workers : v # w => calls'[v] = calls[v]
  <1>1. calls[w] \in Seq(graph.edges)
    BY DEF StackInv
  <1>2. calls[w] # <<>> => Len(Front(calls[w])) = Len(calls[w]) - 1
    BY <1>1 DEF Front
  <1> QED
    BY <1>2 DEF LeaveFunction, StackInv

LEMMA NextDeadEnd == DeadEndInv /\ [Next]_vars => DeadEndInv'
  <1> SUFFICES ASSUME DeadEndInv, [Next]_vars PROVE DeadEndInv'
    OBVIOUS
  <1>0. StackInv' /\ StackInv
    BY NextStack DEF DeadEndInv
  <1>1. graph' = graph
    BY DEF Next, Step, StartWalk, FollowSingle, PopTransition, ReturnAnywhere, FollowAny, Follow,
           EndWalk, Lock, WriteWord, EndSentence, EndWorker, Returned, vars
  <1>2. \A w \in Workers : /\ calls[w] \in Seq(graph.edges) /\ returns[w] \in Seq(graph.edges)
                           /\ Len(calls[w]) \in Nat /\ Len(returns[w]) \in Nat
                           /\ Len(calls[w]) <= Len(returns[w])
    BY <1>0 DEF StackInv, DeadEndInv
  <1>3. \A w \in Workers : Len(calls'[w]) <= Len(returns'[w])
    <2>1. ASSUME NEW w \in Workers, FollowSingle(w) PROVE \A v \in Workers : Len(calls'[v]) <= Len(returns'[v])
      <3>1. returns' = returns /\ (LeaveFunction(w) \/ calls' = calls)
        BY <2>1 DEF FollowSingle
      <3> QED
        BY <1>0, <1>2, <3>1, LeaveShortens
    <2>2. ASSUME NEW w \in Workers, PopTransition(w) PROVE \A v \in Workers : Len(calls'[v]) <= Len(returns'[v])
      <3>1. /\ returns[w] # <<>> /\ returns' = [returns EXCEPT ![w] = Front(returns[w])]
            /\ LeaveFunction(w)
        BY <2>2 DEF PopTransition
      <3>2. Len(returns'[w]) = Len(returns[w]) - 1
        <4>1. returns[w] \in Seq(graph.edges)
          BY <1>2
        <4>2. Len(Front(returns[w])) = Len(returns[w]) - 1
          BY <3>1, <4>1 DEF Front
        <4>3. returns'[w] = Front(returns[w])
          BY <1>0, <3>1 DEF StackInv
        <4> QED
          BY <4>2, <4>3
      <3>3. \A v \in Workers : v # w => returns'[v] = returns[v]
        BY <1>0, <3>1 DEF StackInv
      <3>4. Len(returns[w]) > 0
        BY <1>2, <3>1
      <3>5. calls[w] = <<>> => Len(calls'[w]) = 0
        BY <1>0, <3>1, LeaveShortens
      <3> QED
        BY <1>0, <1>2, <3>1, <3>2, <3>3, <3>4, <3>5, LeaveShortens
    <2>3. ASSUME NEW w \in Workers, ReturnAnywhere(w) PROVE \A v \in Workers : Len(calls'[v]) <= Len(returns'[v])
      <3>1. returns' = returns /\ LeaveFunction(w)
        BY <2>3 DEF ReturnAnywhere
      <3> QED
        BY <1>0, <1>2, <3>1, LeaveShortens
    <2>4. ASSUME NEW w \in Workers, FollowAny(w) PROVE \A v \in Workers : Len(calls'[v]) <= Len(returns'[v])
      <3>1. PICK e \in Out(w) : \E sites \in Arrangements(Sites(w, e)) :
              /\ returns' = [returns EXCEPT ![w] = @ \o sites]
              /\ calls' = [calls EXCEPT ![w] = @ \o sites]
        BY <2>4 DEF FollowAny
      <3>2. PICK sites \in Arrangements(Sites(w, e)) :
              /\ returns' = [returns EXCEPT ![w] = @ \o sites]
              /\ calls' = [calls EXCEPT ![w] = @ \o sites]
        BY <3>1
      <3>3. sites \in Seq(Sites(w, e))
        BY DEF Arrangements
      <3>4. /\ Len(returns[w] \o sites) = Len(returns[w]) + Len(sites)
            /\ Len(calls[w] \o sites) = Len(calls[w]) + Len(sites)
            /\ Len(sites) \in Nat
        BY <1>2, <3>3
      <3> QED
        BY <1>0, <1>2, <3>2, <3>4 DEF StackInv
    <2>5. ASSUME NEW w \in Workers, EndSentence(w) PROVE \A v \in Workers : Len(calls'[v]) <= Len(returns'[v])
      <3>1. returns' = [returns EXCEPT ![w] = <<>>] /\ calls' = [calls EXCEPT ![w] = <<>>]
        BY <2>5 DEF EndSentence
      <3> QED
        BY <1>0, <1>2, <3>1 DEF StackInv
    <2>6. CASE returns' = returns /\ calls' = calls
      BY <1>2, <2>6
    <2> QED
      BY <2>1, <2>2, <2>3, <2>4, <2>5, <2>6
      DEF Next, Step, StartWalk, EndWalk, Lock, WriteWord, EndWorker, Returned, vars
  <1> QED
    BY <1>0, <1>1, <1>3 DEF DeadEndInv

(* RandomTransition returns nullptr only where nothing leaves.             *)
LEMMA StepStopsAtDeadEnd ==
  ASSUME DeadEndInv, [Next]_vars, NEW w \in Workers, node[w] # NoNode, node'[w] = NoNode
  PROVE  calls[w] = <<>> /\ node[w] \in DeadEnds(graph)
  <1>0. StackInv /\ graph \in Graphs
    BY DEF DeadEndInv
  <1>1. PICK v \in Workers : StartWalk(v) \/ FollowSingle(v) \/ PopTransition(v)
                             \/ ReturnAnywhere(v) \/ FollowAny(v)
    BY DEF Next, Step, EndWalk, Lock, WriteWord, EndSentence, EndWorker, Returned, vars
  <1>2. ~ StartWalk(v)
    <2> SUFFICES ASSUME StartWalk(v) PROVE FALSE
      OBVIOUS
    <2>1. PICK e \in EdgesForLabel(graph, FirstLabel(todo[v])) :
            node' = [node EXCEPT ![v] = e.target]
      BY DEF StartWalk
    <2>2. e.target # NoNode
      BY <1>0, NodesAreTriples DEF EdgesForLabel
    <2> QED
      BY <1>0, <2>1, <2>2 DEF StackInv
  <1>3. \A e \in graph.edges : ~ Follow(v, e)
    BY <1>0, FollowGoesOn
  <1>4. \A e \in Out(v) : e \in graph.edges
    BY OutIsOfGraph
  <1>5. ~ FollowSingle(v) /\ ~ FollowAny(v)
    BY <1>3, <1>4 DEF FollowSingle, FollowAny
  <1>6. ~ PopTransition(v)
    <2> SUFFICES ASSUME PopTransition(v) PROVE FALSE
      OBVIOUS
    <2>1. returns[v] # <<>> /\ Follow(v, Last(returns[v]))
      BY DEF PopTransition
    <2> QED
      BY <1>0, <1>3, <2>1, FrontAndLast DEF StackInv
  <1>7. ReturnAnywhere(v)
    BY <1>1, <1>2, <1>5, <1>6
  <1>8. /\ Out(v) = {} /\ node' = [node EXCEPT ![v] = NoNode] /\ returns[v] = <<>>
        /\ IsWalking(v)
    BY <1>3, <1>4, <1>7 DEF ReturnAnywhere
  <1>9. v = w
    BY <1>0, <1>8 DEF StackInv
  <1>10. calls[w] = <<>>
    <2>1. calls[w] \in Seq(graph.edges) /\ Len(calls[w]) <= Len(returns[w])
      BY DEF DeadEndInv, StackInv
    <2>2. returns[w] = <<>>
      BY <1>8, <1>9
    <2>3. Len(calls[w]) \in Nat /\ Len(calls[w]) <= 0
      BY <2>1, <2>2
    <2> QED
      BY <2>1, <2>3
  <1>11. node[w] \in NodesOf(graph) /\ GetOutEdges(graph, node[w]) = {}
    BY <1>0, <1>8, <1>9 DEF Out, StackInv
  <1> QED
    BY <1>0, <1>10, <1>11, StopsAreDeadEnds

(* A walk that ends before its length is in no call, and at a vertex that  *)
(* goes nowhere, in the graph of every module.                             *)
THEOREM WalksStopAtDeadEnds == Spec => StopsOnlyAtDeadEnds
  <1>1. DeadEndInv /\ [Next]_vars
          => [\A w \in Workers :
                node[w] # NoNode /\ node'[w] = NoNode
                  => calls[w] = <<>> /\ node[w] \in DeadEnds(graph)]_vars
    BY StepStopsAtDeadEnd
  <1> QED
    BY InitDeadEnd, NextDeadEnd, <1>1, PTL DEF Spec, StopsOnlyAtDeadEnds
=============================================================================
