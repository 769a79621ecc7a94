------------------------ MODULE LongRunningTheorems ------------------------
(***************************************************************************)
(* For every number of clients, requests, workers and seconds, every       *)
(* service and every batch: an operation that is done is not undone, and   *)
(* an answer has the type of the request it is taken for and, unless it is *)
(* the walker's, its input; it need not be the answer to that request.     *)
(* Where no two requests build the same name it is; then the server knows  *)
(* what a client waits for, a client that returns has its whole batch, its *)
(* tasks are limited, nothing is left in the table of what a client has    *)
(* its answer for, and table, tasks and polling implement a future for     *)
(* each request.                                                           *)
(***************************************************************************)
EXTENDS LongRunning, FiniteSetTheorems, TLAPS

Types == {OperationType(s, r) : s \in Scenarios, r \in Requests} \cup {"none"}
Texts == {Parameters(s, r) : s \in Scenarios, r \in Requests} \cup {<< >>}
Name  == [type : Types, parameters : Texts, stamp : Nat]

HandlerSteps == {"idle", "update", "insert", "enqueue", "reply"}
TaskSteps    == {"none", "queued", "running", "insert", "ended"}

(* The name is one that TaskName makes of the request, at some second.     *)
Named(name, r) == r \in Requests /\ Names(job, name, r)

TypeInv ==
  /\ job \in Scenarios /\ clock \in Nat
  /\ handler \in [Clients -> [step : HandlerSteps, request : Requests \cup {"nobody"}, name : Name]]
  /\ task \in [Requests -> [step : TaskSteps, name : Name]]
  /\ unsent \in [Clients -> Seq(Requests)]
  /\ waiting \in [Clients -> SUBSET Name] /\ toPoll \in [Clients -> SUBSET Name]
  /\ DOMAIN owner = Clients /\ DOMAIN answers = Clients
  /\ owner = [c \in Clients |-> owner[c]] /\ answers = [c \in Clients |-> answers[c]]

(* Wherever a name goes, it goes with a request it was made of: through    *)
(* the handler, the task and the table, and through the client.            *)
HandlersInv ==
  \A c \in Clients :
    handler[c].step # "idle" => Named(handler[c].name, handler[c].request) /\ unsent[c] # <<>>
TasksInv    == \A r \in Requests : task[r].step # "none" => Named(task[r].name, r)
TableInv    == \A n \in DOMAIN table : table[n].done => Named(n, table[n].result.of)
OwnersInv   ==
  \A c \in Clients :
    /\ toPoll[c] \subseteq waiting[c] /\ waiting[c] \subseteq DOMAIN owner[c]
    /\ \A n \in DOMAIN owner[c] : Named(n, owner[c][n])
AnswersInv  ==
  \A c \in Clients : \A r \in DOMAIN answers[c] :
    \E n \in Name : Named(n, r) /\ Named(n, answers[c][r].of)

IInv == TypeInv /\ HandlersInv /\ TasksInv /\ TableInv /\ OwnersInv /\ AnswersInv

(* A name tells the input from others, but for the walker's, and the type. *)
LEMMA AnswersInvImplies == TypeInv /\ AnswersInv => AnswersAreOwn
  <1> SUFFICES ASSUME TypeInv, AnswersInv, NEW c \in Clients, NEW r \in DOMAIN answers[c]
               PROVE  LET q == answers[c][r].of
                      IN /\ NamesDiffer => q = r
                         /\ job.service # "walker" => job.asked[q].input = job.asked[r].input
                         /\ Typed(job) => job.asked[q].type = job.asked[r].type
    BY DEF AnswersAreOwn
  <1>1. PICK n \in Name : Named(n, r) /\ Named(n, answers[c][r].of)
    BY DEF AnswersInv
  <1>2. NamesDiffer => answers[c][r].of = r
    BY <1>1 DEF Named, Names, NamesDiffer
  <1>3. job.service # "walker" => job.asked[answers[c][r].of].input = job.asked[r].input
    BY <1>1 DEF Named, Names, Parameters
  <1>4. Typed(job) => job.asked[answers[c][r].of].type = job.asked[r].type
    BY <1>1 DEF Named, Names, OperationType
  <1> QED
    BY <1>2, <1>3, <1>4

(* TaskName. *)
LEMMA TaskNameIsNamed ==
  ASSUME TypeInv, NEW r \in Requests
  PROVE  TaskName(r) \in Name /\ Named(TaskName(r), r)
  <1>1. OperationType(job, r) \in Types /\ Parameters(job, r) \in Texts
    BY DEF TypeInv, Types, Texts
  <1> QED
    BY <1>1 DEF TypeInv, TaskName, Name, Named, Names

(* Nothing has a name at the start. *)
LEMMA InitInv == Init => IInv
  <1> SUFFICES ASSUME Init PROVE IInv
    OBVIOUS
  <1>1. NoName \in Name
    BY DEF NoName, Name, Types, Texts
  <1>2. TypeInv
    <2>1. handler \in [Clients -> [step : HandlerSteps, request : Requests \cup {"nobody"}, name : Name]]
      BY <1>1 DEF Init, Idle, HandlerSteps
    <2>2. task \in [Requests -> [step : TaskSteps, name : Name]]
      BY <1>1 DEF Init, TaskSteps
    <2>3. job \in Scenarios /\ clock \in Nat /\ unsent \in [Clients -> Seq(Requests)]
      BY ScenariosAssumption DEF Init
    <2>4. DOMAIN owner = Clients /\ owner = [c \in Clients |-> owner[c]]
      BY DEF Init
    <2>5. DOMAIN answers = Clients /\ answers = [c \in Clients |-> answers[c]]
      BY DEF Init
    <2>6. waiting \in [Clients -> SUBSET Name] /\ toPoll \in [Clients -> SUBSET Name]
      BY DEF Init
    <2> QED
      BY <2>1, <2>2, <2>3, <2>4, <2>5, <2>6 DEF TypeInv
  <1>3. HandlersInv /\ TasksInv /\ TableInv
    BY DEF Init, HandlersInv, TasksInv, TableInv, Idle
  <1>4. \A c \in Clients : DOMAIN owner[c] = {} /\ DOMAIN answers[c] = {}
    BY DEF Init
  <1>5. OwnersInv /\ AnswersInv
    BY <1>4 DEF Init, OwnersInv, AnswersInv
  <1> QED
    BY <1>2, <1>3, <1>5 DEF IInv

(* An operation that is written carries its own name's request, if done.   *)
LEMMA UpdateKeepsTable ==
  ASSUME TableInv, NEW name, NEW operation, job' = job,
         operation.done => Named(name, operation.result.of),
         (name \in DOMAIN table /\ Update(name, operation)) \/ table' = Inserting(name, operation)
  PROVE  TableInv'
  BY DEF TableInv, Update, Updating, Inserting, Named

LEMMA PublishedIsNamed ==
  ASSUME NEW r, NEW name, Named(name, r)
  PROVE  Named(name, Published(r).result.of)
  BY DEF Published

(* Steps of the server leave the client's variables alone, and the other   *)
(* way round.                                                              *)
LEMMA ClientUnchanged ==
  ASSUME OwnersInv, AnswersInv, UNCHANGED <<job, client>>
  PROVE  OwnersInv' /\ AnswersInv'
  BY DEF client, OwnersInv, AnswersInv, Named

(* A handler takes its name along. *)
LEMMA HandlerStepInv == ASSUME IInv, NEW c \in Clients, HandlerStep(c) PROVE IInv'
  <1> USE DEF IInv
  <1>1. UNCHANGED <<job, clock, client>>
    BY DEF HandlerStep, HandlerUpdate, HandlerInsert, HandlerEnqueue
  <1>2. handler[c].step # "idle" /\ \E s \in HandlerSteps : s # "idle" /\ handler' = HandlerAt(c, s)
    BY DEF HandlerSteps, HandlerStep, HandlerUpdate, HandlerInsert, HandlerEnqueue
  <1>3. Named(handler[c].name, handler[c].request)
    BY <1>2 DEF HandlersInv
  <1>4. handler' \in [Clients -> [step : HandlerSteps, request : Requests \cup {"nobody"}, name : Name]]
        /\ HandlersInv'
    <2>1. PICK s \in HandlerSteps : s # "idle" /\ handler' = HandlerAt(c, s)
      BY <1>2
    <2>2. /\ handler[c] \in [step : HandlerSteps, request : Requests \cup {"nobody"}, name : Name]
          /\ handler' = [handler EXCEPT ![c] = [handler[c] EXCEPT !.step = s]]
      BY <2>1 DEF HandlerAt, TypeInv
    <2>3. [handler[c] EXCEPT !.step = s]
          = [step |-> s, request |-> handler[c].request, name |-> handler[c].name]
      BY <2>2
    <2>4. handler' \in [Clients -> [step : HandlerSteps, request : Requests \cup {"nobody"}, name : Name]]
      BY <2>1, <2>2, <2>3 DEF TypeInv
    <2>5. \A d \in Clients : handler'[d].name = handler[d].name /\ handler'[d].request = handler[d].request
                             /\ (handler'[d].step # "idle" => handler[d].step # "idle")
      BY <1>2, <2>2, <2>3 DEF TypeInv
    <2>6. HandlersInv'
      <3>1. UNCHANGED <<job, unsent>>
        BY <1>1 DEF client
      <3>2. ASSUME NEW d \in Clients, handler'[d].step # "idle"
            PROVE  Named(handler[d].name, handler[d].request) /\ unsent[d] # <<>>
        BY <2>5, <3>2 DEF HandlersInv
      <3> QED
        BY <2>5, <3>1, <3>2 DEF HandlersInv, Named
    <2> QED
      BY <2>4, <2>6
  <1>5. \/ UNCHANGED task
        \/ task' = [task EXCEPT ![handler[c].request] = [step |-> "queued", name |-> handler[c].name]]
    BY DEF HandlerStep, HandlerUpdate, HandlerInsert, HandlerEnqueue
  <1>6. task' \in [Requests -> [step : TaskSteps, name : Name]] /\ TasksInv'
    <2>1. CASE UNCHANGED task
      BY <1>1, <2>1 DEF TasksInv, TypeInv, Named
    <2>2. CASE task' = [task EXCEPT ![handler[c].request] = [step |-> "queued", name |-> handler[c].name]]
      <3>1. handler[c].name \in Name /\ handler[c].request \in Requests
        BY <1>3 DEF TypeInv, Named
      <3>2. [step |-> "queued", name |-> handler[c].name] \in [step : TaskSteps, name : Name]
        BY <3>1 DEF TaskSteps
      <3>3. task' \in [Requests -> [step : TaskSteps, name : Name]]
        BY <2>2, <3>1, <3>2 DEF TypeInv
      <3>4. \A r \in Requests :
              task'[r] = IF r = handler[c].request THEN [step |-> "queued", name |-> handler[c].name]
                         ELSE task[r]
        BY <2>2 DEF TypeInv
      <3> QED
        BY <1>1, <1>3, <3>3, <3>4 DEF TasksInv, Named
    <2> QED
      BY <1>5, <2>1, <2>2
  <1>7. TableInv'
    <2>1. CASE UNCHANGED table
      BY <1>1, <2>1 DEF TableInv, Named
    <2>2. CASE \/ handler[c].name \in DOMAIN table /\ Update(handler[c].name, Pending)
               \/ table' = Inserting(handler[c].name, Pending)
      <3>1. ~ Pending.done
        BY DEF Pending
      <3> QED
        BY <1>1, <2>2, <3>1, UpdateKeepsTable
    <2> QED
      BY <2>1, <2>2 DEF HandlerStep, HandlerUpdate, HandlerInsert, HandlerEnqueue
  <1>8. TypeInv'
    BY <1>1, <1>4, <1>6 DEF TypeInv, client
  <1> QED
    BY <1>1, <1>4, <1>6, <1>7, <1>8, ClientUnchanged

(* A task publishes its result under the name it was given. *)
LEMMA TaskStepInv == ASSUME IInv, NEW r \in Requests, TaskStep(r) PROVE IInv'
  <1> USE DEF IInv
  <1>1. UNCHANGED <<job, clock, client>>
    BY DEF TaskStep, StartTask, FinishTask, InsertResult, Abort
  <1>2. task[r].step # "none" /\ Named(task[r].name, r)
    BY DEF TaskStep, StartTask, FinishTask, InsertResult, Abort, TasksInv
  <1>3. /\ task' \in [Requests -> [step : TaskSteps, name : Name]]
        /\ \A q \in Requests : task'[q].name = task[q].name /\ (task'[q].step # "none" => task[q].step # "none")
    <2>1. \A q \in Requests : task[q] \in [step : TaskSteps, name : Name]
      BY DEF TypeInv
    <2>2. \A q \in Requests : \A s \in TaskSteps :
            [task[q] EXCEPT !.step = s] = [step |-> s, name |-> task[q].name]
      BY <2>1
    <2>3. CASE \E s \in TaskSteps : task' = TaskAt(r, s)
      <3>1. PICK s \in TaskSteps : task' = TaskAt(r, s)
        BY <2>3
      <3>2. task' = [task EXCEPT ![r] = [step |-> s, name |-> task[r].name]]
        BY <2>2, <3>1 DEF TaskAt, TypeInv
      <3> QED
        BY <1>2, <2>1, <3>1, <3>2 DEF TypeInv
    <2>4. CASE Abort(r)
      <3>1. \A q \in Requests : (IF task[q].step = "none" THEN task[q].step ELSE "ended") \in TaskSteps
        BY DEF TaskSteps
      <3>2. task' = [q \in Requests |-> [task[q] EXCEPT !.step = IF @ = "none" THEN @ ELSE "ended"]]
        BY <2>4 DEF Abort
      <3>3. \A q \in Requests :
              task'[q] = [step |-> IF task[q].step = "none" THEN task[q].step ELSE "ended",
                          name |-> task[q].name]
        <4> TAKE q \in Requests
        <4> DEFINE s == IF task[q].step = "none" THEN task[q].step ELSE "ended"
        <4>1. task'[q] = [task[q] EXCEPT !.step = s]
          BY <3>2
        <4>2. s \in TaskSteps
          BY <3>1
        <4>3. task'[q] = [step |-> s, name |-> task[q].name]
          <5> HIDE DEF s
          <5> QED
            BY <2>2, <4>1, <4>2
        <4> QED
          BY <4>3
      <3>4. \A q \in Requests : task'[q] \in [step : TaskSteps, name : Name]
        <4> TAKE q \in Requests
        <4> DEFINE s == IF task[q].step = "none" THEN task[q].step ELSE "ended"
        <4>1. s \in TaskSteps /\ task[q].name \in Name /\ task'[q] = [step |-> s, name |-> task[q].name]
          BY <2>1, <3>1, <3>3
        <4> HIDE DEF s
        <4> QED
          BY <4>1
      <3> QED
        BY <3>2, <3>3, <3>4
    <2> QED
      BY <2>3, <2>4 DEF TaskStep, StartTask, FinishTask, InsertResult, TaskSteps
  <1>4. TasksInv'
    BY <1>1, <1>3 DEF TasksInv, Named
  <1>5. handler' \in [Clients -> [step : HandlerSteps, request : Requests \cup {"nobody"}, name : Name]]
        /\ HandlersInv'
    <2>1. CASE UNCHANGED handler
      BY <1>1, <2>1 DEF HandlersInv, TypeInv, Named, client
    <2>2. CASE handler' = [d \in Clients |-> Idle]
      <3>1. Idle \in [step : HandlerSteps, request : Requests \cup {"nobody"}, name : Name]
        BY DEF Idle, NoName, Name, Types, Texts, HandlerSteps
      <3> QED
        BY <2>2, <3>1 DEF HandlersInv, Idle
    <2> QED
      BY <2>1, <2>2 DEF TaskStep, StartTask, FinishTask, InsertResult, Abort
  <1>6. TableInv'
    <2>1. CASE UNCHANGED table
      BY <1>1, <2>1 DEF TableInv, Named
    <2>2. CASE table' = [n \in {} |-> Pending]
      BY <2>2 DEF TableInv
    <2>3. CASE \/ task[r].name \in DOMAIN table /\ Update(task[r].name, Published(r))
               \/ table' = Inserting(task[r].name, Published(r))
      BY <1>1, <1>2, <2>3, PublishedIsNamed, UpdateKeepsTable
    <2> QED
      BY <2>1, <2>2, <2>3 DEF TaskStep, StartTask, FinishTask, InsertResult, Abort
  <1>7. TypeInv'
    BY <1>1, <1>3, <1>5 DEF TypeInv, client
  <1> QED
    BY <1>1, <1>4, <1>5, <1>6, <1>7, ClientUnchanged

(* GetOperation only takes away. *)
LEMMA AfterGetKeepsTable ==
  ASSUME TableInv, job' = job, NEW name, table' = AfterGet(name)
  PROVE  TableInv'
  BY DEF TableInv, AfterGet, Restrict, Named

(* Submit makes the name; Receive files it with its request.               *)
LEMMA SubmitInv == ASSUME IInv, NEW c \in Clients, Submit(c) PROVE IInv'
  <1> USE DEF IInv
  <1>1. UNCHANGED <<job, clock, table, task, unsent, waiting, toPoll, owner, answers>>
    BY DEF Submit, Fails
  <1>2. handler' \in [Clients -> [step : HandlerSteps, request : Requests \cup {"nobody"}, name : Name]]
        /\ HandlersInv'
    <2>1. CASE UNCHANGED handler
      BY <1>1, <2>1 DEF HandlersInv, TypeInv, Named
    <2>2. CASE handler' = [handler EXCEPT ![c] = [step |-> "update", request |-> Head(unsent[c]),
                                                  name |-> TaskName(Head(unsent[c]))]]
               /\ MaySubmit(c)
      <3>1. Head(unsent[c]) \in Requests
        BY <2>2 DEF MaySubmit, TypeInv
      <3>2. TaskName(Head(unsent[c])) \in Name /\ Named(TaskName(Head(unsent[c])), Head(unsent[c]))
        BY <3>1, TaskNameIsNamed
      <3> DEFINE new == [step |-> "update", request |-> Head(unsent[c]),
                         name |-> TaskName(Head(unsent[c]))]
      <3>3. new \in [step : HandlerSteps, request : Requests \cup {"nobody"}, name : Name]
        BY <3>1, <3>2 DEF HandlerSteps
      <3>4. \A d \in Clients : handler'[d] = IF d = c THEN new ELSE handler[d]
        BY <2>2 DEF TypeInv
      <3>5. handler' \in [Clients -> [step : HandlerSteps, request : Requests \cup {"nobody"}, name : Name]]
        <4> HIDE DEF new
        <4> QED
          BY <2>2, <3>3 DEF TypeInv, new
      <3> QED
        BY <1>1, <2>2, <3>2, <3>4, <3>5 DEF HandlersInv, Named, MaySubmit
    <2> QED
      BY <2>1, <2>2 DEF Submit
  <1>3. TypeInv'
    BY <1>1, <1>2 DEF TypeInv
  <1>4. TasksInv' /\ TableInv' /\ OwnersInv' /\ AnswersInv'
    BY <1>1 DEF TasksInv, TableInv, OwnersInv, AnswersInv, Named
  <1> QED
    BY <1>2, <1>3, <1>4

LEMMA ReceiveInv == ASSUME IInv, NEW c \in Clients, Receive(c) PROVE IInv'
  <1> USE DEF IInv
  <1> DEFINE name == handler[c].name
             r    == handler[c].request
  <1>1. /\ UNCHANGED <<job, clock, table, task, toPoll, answers>>
        /\ handler[c].step = "reply"
        /\ waiting' = [waiting EXCEPT ![c] = @ \cup {name}]
        /\ owner' = [owner EXCEPT ![c] = With(@, name, r)]
        /\ unsent' = [unsent EXCEPT ![c] = Tail(@)]
        /\ handler' = [handler EXCEPT ![c] = Idle]
    BY DEF Receive
  <1>2. Named(name, r) /\ name \in Name
    BY <1>1 DEF HandlersInv, TypeInv
  <1>3. handler' \in [Clients -> [step : HandlerSteps, request : Requests \cup {"nobody"}, name : Name]]
        /\ HandlersInv'
    <2>1. Idle \in [step : HandlerSteps, request : Requests \cup {"nobody"}, name : Name]
      BY DEF Idle, NoName, Name, Types, Texts, HandlerSteps
    <2>2. Idle.step = "idle"
      BY DEF Idle
    <2> QED
      BY <1>1, <2>1, <2>2 DEF HandlersInv, TypeInv, Named
  <1>4. OwnersInv'
    <2>1. \A d \in Clients \ {c} : owner'[d] = owner[d] /\ waiting'[d] = waiting[d]
      BY <1>1 DEF TypeInv
    <2>2. owner'[c] = With(owner[c], name, r) /\ waiting'[c] = waiting[c] \cup {name}
      BY <1>1 DEF TypeInv
    <2>3. DOMAIN With(owner[c], name, r) = DOMAIN owner[c] \cup {name}
          /\ \A n \in DOMAIN owner[c] \cup {name} :
               With(owner[c], name, r)[n] = IF n = name THEN r ELSE owner[c][n]
      BY DEF With
    <2> HIDE DEF name, r
    <2>4. ASSUME NEW d \in Clients
          PROVE  /\ toPoll[d] \subseteq waiting'[d] /\ waiting'[d] \subseteq DOMAIN owner'[d]
                 /\ \A n \in DOMAIN owner'[d] : Named(n, owner'[d][n])
      <3>1. CASE d = c
        BY <1>2, <2>2, <2>3, <3>1 DEF OwnersInv
      <3>2. CASE d # c
        BY <2>1, <3>2 DEF OwnersInv
      <3> QED
        BY <3>1, <3>2
    <2> QED
      BY <1>1, <2>4 DEF OwnersInv, Named
  <1>5. TypeInv'
    <2>1. unsent[c] # <<>> /\ unsent[c] \in Seq(Requests)
      BY <1>1 DEF HandlersInv, TypeInv
    <2>2. unsent' \in [Clients -> Seq(Requests)]
      BY <1>1, <2>1 DEF TypeInv
    <2> QED
      BY <1>1, <1>2, <1>3, <2>2 DEF TypeInv
  <1>6. TasksInv' /\ TableInv' /\ AnswersInv'
    BY <1>1 DEF TasksInv, TableInv, AnswersInv, Named
  <1> QED
    BY <1>3, <1>4, <1>5, <1>6

(* Deliver files the result under the request the name was sent for.       *)
LEMMA PollInv == ASSUME IInv, NEW c \in Clients, NEW name \in toPoll[c], Poll(c, name) PROVE IInv'
  <1> USE DEF IInv
  <1>1. UNCHANGED <<job, clock, handler, task, unsent, waiting, owner>>
    BY DEF Poll, Fails
  <1>2. toPoll' \in [Clients -> SUBSET Name] /\ \A d \in Clients : toPoll'[d] \subseteq toPoll[d]
    <2>1. UNCHANGED toPoll \/ toPoll' = [toPoll EXCEPT ![c] = @ \ {name}]
      BY DEF Poll, Fails
    <2> QED
      BY <2>1 DEF TypeInv
  <1>3. TableInv'
    BY <1>1, AfterGetKeepsTable DEF Poll, TableInv, Named
  <1>4. OwnersInv'
    BY <1>1, <1>2 DEF OwnersInv, Named
  <1>5. AnswersInv' /\ DOMAIN answers' = Clients /\ answers' = [d \in Clients |-> answers'[d]]
    <2>1. CASE UNCHANGED answers
      BY <1>1, <2>1 DEF AnswersInv, TypeInv, Named
    <2>2. CASE name \in DOMAIN table /\ table[name].done /\ Deliver(c, name, table[name].result)
      <3> DEFINE r      == owner[c][name]
                 result == table[name].result
      <3>1. Named(name, r) /\ name \in Name
        BY DEF OwnersInv, TypeInv
      <3>2. Named(name, result.of)
        BY <2>2 DEF TableInv
      <3>3. answers' = [answers EXCEPT ![c] = With(@, r, result)]
        BY <2>2 DEF Deliver
      <3> HIDE DEF r, result
      <3>4. \A d \in Clients : answers'[d] = IF d = c THEN With(answers[c], r, result) ELSE answers[d]
        BY <3>3 DEF TypeInv
      <3>5. /\ DOMAIN With(answers[c], r, result) = DOMAIN answers[c] \cup {r}
            /\ \A q \in DOMAIN answers[c] \cup {r} :
                 With(answers[c], r, result)[q] = IF q = r THEN result ELSE answers[c][q]
        BY DEF With
      <3>6. ASSUME NEW d \in Clients, NEW q \in DOMAIN answers'[d]
            PROVE  \E n \in Name : Named(n, q) /\ Named(n, answers'[d][q].of)
        <4>1. CASE d = c /\ q = r
          BY <3>1, <3>2, <3>4, <3>5, <4>1
        <4>2. CASE ~ (d = c /\ q = r)
          <5>1. q \in DOMAIN answers[d] /\ answers'[d][q] = answers[d][q]
            BY <3>4, <3>5, <4>2
          <5> QED
            BY <5>1 DEF AnswersInv
        <4> QED
          BY <4>1, <4>2
      <3>7. DOMAIN answers' = Clients /\ answers' = [d \in Clients |-> answers'[d]]
        BY <3>3 DEF TypeInv
      <3> QED
        BY <1>1, <3>6, <3>7 DEF AnswersInv, Named
    <2> QED
      BY <2>1, <2>2 DEF Poll, Fails
  <1>6. TypeInv' /\ HandlersInv' /\ TasksInv'
    BY <1>1, <1>2, <1>5 DEF TypeInv, HandlersInv, TasksInv, Named
  <1> QED
    BY <1>3, <1>4, <1>5, <1>6

(* The other steps of a client move no name to a new place.                *)
LEMMA OtherClientInv ==
  ASSUME IInv, NEW c \in Clients,
         BeginRound(c) \/ EndRound(c) \/ Return(c) \/ CallBroken(c) \/ Cut(c)
  PROVE  IInv'
  <1> USE DEF IInv
  <1>1. UNCHANGED <<job, clock, handler, task, unsent, owner, answers>>
    BY DEF BeginRound, EndRound, Return, CallBroken, Cut, Fails, server
  <1>2. /\ waiting' \in [Clients -> SUBSET Name] /\ toPoll' \in [Clients -> SUBSET Name]
        /\ \A d \in Clients : toPoll'[d] \subseteq waiting'[d] /\ waiting'[d] \subseteq waiting[d]
    <2>1. CASE UNCHANGED <<waiting, toPoll>>
      BY <2>1 DEF TypeInv, OwnersInv
    <2>2. CASE BeginRound(c)
      BY <2>2 DEF BeginRound, TypeInv, OwnersInv
    <2>3. CASE EndRound(c)
      BY <2>3 DEF EndRound, TypeInv, OwnersInv
    <2> QED
      BY <2>1, <2>2, <2>3 DEF Return, CallBroken, Cut, Fails
  <1>3. TableInv'
    BY <1>1, AfterGetKeepsTable
       DEF BeginRound, EndRound, Return, CallBroken, Cut, Fails, server, TableInv, Named
  <1>4. OwnersInv'
    BY <1>1, <1>2 DEF OwnersInv, Named
  <1>5. TypeInv' /\ HandlersInv' /\ TasksInv' /\ AnswersInv'
    BY <1>1, <1>2 DEF TypeInv, HandlersInv, TasksInv, AnswersInv, Named
  <1> QED
    BY <1>3, <1>4, <1>5

LEMMA TickInv == IInv /\ (Tick \/ UNCHANGED vars) => IInv'
  <1> SUFFICES ASSUME IInv, Tick \/ UNCHANGED vars PROVE IInv'
    OBVIOUS
  <1> USE DEF IInv
  <1>1. UNCHANGED <<job, server, client>> /\ clock' \in Nat
    BY DEF Tick, TypeInv, vars
  <1>2. TypeInv'
    BY <1>1 DEF TypeInv, server, client
  <1>3. HandlersInv' /\ TasksInv' /\ TableInv'
    BY <1>1 DEF HandlersInv, TasksInv, TableInv, Named, server, client
  <1> QED
    BY <1>1, <1>2, <1>3, ClientUnchanged

LEMMA NextInv == IInv /\ [Next]_vars => IInv'
  <1> SUFFICES ASSUME IInv, [Next]_vars PROVE IInv'
    OBVIOUS
  <1>1. ASSUME NEW c \in Clients, ClientStep(c) PROVE IInv'
    BY <1>1, SubmitInv, ReceiveInv, PollInv, OtherClientInv DEF ClientStep
  <1> QED
    BY <1>1, HandlerStepInv, TaskStepInv, OtherClientInv, TickInv DEF Next

(* Whoever is killed, and whatever names collide: an answer is of the type *)
(* that was asked for and, but for the walker's, for the same input; where *)
(* no names collide it is the result of that very request.                 *)
THEOREM AnswersAreForTheRequest == Spec => []AnswersAreOwn
  <1>1. IInv => AnswersAreOwn
    BY AnswersInvImplies DEF IInv
  <1> QED
    BY InitInv, NextInv, <1>1, PTL DEF Spec

(* UpdateOperation never takes a result back: a handler that comes late,   *)
(* with the entry of an operation that is done already, changes nothing.   *)
THEOREM DoneIsNeverUndone == Spec => FinishedStaysFinished
  <1> DEFINE Stays == \A n \in DOMAIN table \cap DOMAIN table' : table[n].done => table'[n].done
  <1>1. ASSUME NEW name, NEW operation,
               (name \in DOMAIN table /\ Update(name, operation)) \/ table' = Inserting(name, operation)
        PROVE  Stays
    BY <1>1 DEF Update, Updating, Inserting
  <1>2. ASSUME NEW name, table' = AfterGet(name) PROVE Stays
    BY <1>2 DEF AfterGet, Restrict
  <1>3. ASSUME NEW c \in Clients, HandlerStep(c) PROVE Stays
    BY <1>1, <1>3 DEF HandlerStep, HandlerUpdate, HandlerInsert, HandlerEnqueue
  <1>4. ASSUME NEW r \in Requests, TaskStep(r) PROVE Stays
    <2>1. CASE table' = [n \in {} |-> Pending]
      BY <2>1
    <2> QED
      BY <1>1, <1>4, <2>1 DEF TaskStep, StartTask, FinishTask, InsertResult, Abort
  <1>5. ASSUME NEW c \in Clients, ClientStep(c) \/ Cut(c) PROVE Stays
    <2>1. UNCHANGED table \/ \E name \in toPoll[c] : table' = AfterGet(name)
      BY <1>5 DEF ClientStep, Submit, Receive, CallBroken, BeginRound, Poll, EndRound, Return, Cut,
                  Fails, server
    <2> QED
      BY <1>2, <2>1
  <1>6. [Next]_vars => [Stays]_table
    BY <1>3, <1>4, <1>5 DEF Next, Tick, server, vars
  <1> HIDE DEF Stays
  <1>7. Spec => [][Stays]_table
    BY <1>6, PTL DEF Spec
  <1> QED
    BY <1>7 DEF FinishedStaysFinished, Stays

-----------------------------------------------------------------------------
(***************************************************************************)
(* Requests of different names, from here on.                              *)
(***************************************************************************)

ControlStates == {"submit", "calling", "poll", "done", "failed"}

Results    == [kind : {"none", "response", "error"}, of : Requests \cup {"nobody"}]
Operations == [done : BOOLEAN, result : Results]
Stored     == [request : Requests, entry : [kind : {"response", "empty"}, of : Requests \cup {"nobody"}]]

(* The types that AnswersAreOwn did not need.                              *)
MoreTypeInv ==
  /\ up \in BOOLEAN
  /\ pc \in [Clients -> ControlStates]
  /\ finished \in [Clients -> SUBSET Name]
  /\ \A n \in DOMAIN table : n \in Name /\ table[n] \in Operations
  /\ stored \in Seq(Stored)

(* What a client has submitted, and the names it still waits for.          *)
Sent(c)    == Batch(c) \ Range(unsent[c])
Awaited(c) == waiting[c] \ finished[c]

(* What is unsent is the rest of the batch. *)
UnsentInv ==
  \A c \in Clients : IsInjective(unsent[c]) /\ Range(unsent[c]) \subseteq Batch(c)

(* The client's sets, at each place of its program. *)
ControlInv ==
  \A c \in Clients :
    /\ finished[c] \subseteq waiting[c] /\ toPoll[c] \subseteq Awaited(c)
    /\ pc[c] \notin {"poll", "failed"} => toPoll[c] = {} /\ finished[c] = {}
    /\ pc[c] = "done" => waiting[c] = {} /\ unsent[c] = << >>
    /\ IsFiniteSet(waiting[c]) /\ Cardinality(waiting[c]) <= MaxTasks

(* A call is made for the next request, by a client with a task to spare;  *)
(* the table gets its entry before the task exists.                        *)
CallsInv ==
  \A c \in Clients : handler[c].step # "idle" =>
    /\ up /\ pc[c] \in {"calling", "failed"}
    /\ handler[c].request = Head(unsent[c])
    /\ Cardinality(waiting[c]) < MaxTasks
    /\ IF handler[c].step = "reply"
       THEN task[handler[c].request].step # "none"
            /\ task[handler[c].request].name = handler[c].name
       ELSE task[handler[c].request].step = "none"
    /\ handler[c].step = "enqueue" =>
         handler[c].name \in DOMAIN table /\ ~ table[handler[c].name].done

(* What is not sent has no task, unless the reply is under way.            *)
UnsentTasksInv ==
  up => \A c \in Clients : \A r \in Range(unsent[c]) : task[r].step # "none" =>
          handler[c].step = "reply" /\ handler[c].request = r

(* What is sent is waited for or answered. *)
SentInv ==
  \A c \in Clients :
    /\ DOMAIN answers[c] \subseteq Sent(c)
    /\ \A n \in waiting[c] : owner[c][n] \in Sent(c) /\ task[owner[c][n]].name = n
    /\ \A r \in Sent(c) :
         /\ task[r].step # "none"
         /\ r \in DOMAIN answers[c] <=> task[r].name \notin Awaited(c)

(* A task that has not published has an entry that is not done, and finds  *)
(* it: it never has to insert one.                                         *)
ActiveTasksInv ==
  \A r \in Requests :
    /\ task[r].step # "insert"
    /\ task[r].step \in {"queued", "running"} =>
         up /\ task[r].name \in DOMAIN table /\ ~ table[task[r].name].done

(* What a task published stays until the client takes it.                  *)
KnownInv ==
  up => \A c \in Clients : \A r \in Batch(c) :
          pc[c] # "failed" /\ task[r].step = "ended" /\ r \notin DOMAIN answers[c] =>
            task[r].name \in DOMAIN table

(* An entry is that of a request under way, and done only by its task.     *)
IsEntryOf(n, c, r) ==
  /\ Named(n, r) /\ r \notin DOMAIN answers[c]
  /\ \/ task[r].step # "none" /\ task[r].name = n
     \/ handler[c].step = "enqueue" /\ handler[c].request = r /\ handler[c].name = n
  /\ table[n].done => task[r].step = "ended"

EntriesInv ==
  \A n \in DOMAIN table : \E c \in Clients : \E r \in Batch(c) : IsEntryOf(n, c, r)

(* notify has stored what was answered, once. *)
StoredInv ==
  /\ \A i, j \in DOMAIN stored : stored[i].request = stored[j].request => i = j
  /\ \A c \in Clients : \A r \in Batch(c) :
       (\E i \in DOMAIN stored : stored[i].request = r) <=> Notifies /\ r \in DOMAIN answers[c]

KInv ==
  /\ MoreTypeInv /\ UnsentInv /\ ControlInv /\ CallsInv /\ UnsentTasksInv /\ SentInv
  /\ ActiveTasksInv /\ KnownInv /\ EntriesInv /\ StoredInv

(***************************************************************************)
(* Names, batches and sequences.                                           *)
(***************************************************************************)
LEMMA NamesTellApart ==
  ASSUME TypeInv, NamesDiffer, NEW name, NEW r, NEW s, Named(name, r), Named(name, s)
  PROVE  r = s
  BY DEF NamesDiffer, Named, Names

LEMMA BatchesAreDisjoint ==
  ASSUME TypeInv, NEW c \in Clients, NEW r \in Batch(c)
  PROVE  r \in Requests /\ \A d \in Clients : r \in Batch(d) => d = c
  <1>1. job.batch \in [Clients -> Seq(Requests)]
        /\ \A d, e \in Clients : d # e => Range(job.batch[d]) \cap Range(job.batch[e]) = {}
    BY ScenariosAssumption DEF TypeInv
  <1>2. job.batch[c] \in Seq(Requests)
    BY <1>1
  <1>3. r \in Requests
    BY <1>2 DEF Batch, Range
  <1> QED
    BY <1>1, <1>3 DEF Batch

(* A sequence without repetitions, its head and its tail. *)
LEMMA HeadAndTail ==
  ASSUME NEW S, NEW s \in Seq(S), s # << >>, IsInjective(s)
  PROVE  /\ Head(s) \in Range(s) /\ IsInjective(Tail(s))
         /\ Range(Tail(s)) = Range(s) \ {Head(s)}
  <1>1. Len(s) \in Nat /\ Len(s) > 0 /\ DOMAIN s = 1 .. Len(s) /\ Head(s) = s[1]
    OBVIOUS
  <1>2. DOMAIN Tail(s) = 1 .. Len(s) - 1 /\ \A i \in 1 .. Len(s) - 1 : Tail(s)[i] = s[i + 1]
    BY <1>1
  <1>3. Head(s) \in Range(s)
    BY <1>1 DEF Range
  <1>4. IsInjective(Tail(s))
    BY <1>1, <1>2 DEF IsInjective
  <1>5. ASSUME NEW x \in Range(Tail(s)) PROVE x \in Range(s) \ {Head(s)}
    BY <1>1, <1>2 DEF Range, IsInjective
  <1>6. ASSUME NEW x \in Range(s) \ {Head(s)} PROVE x \in Range(Tail(s))
    <2>1. PICK i \in 1 .. Len(s) : x = s[i]
      BY <1>1 DEF Range
    <2>2. i # 1 /\ i - 1 \in 1 .. Len(s) - 1 /\ Tail(s)[i - 1] = x
      BY <1>1, <1>2, <2>1
    <2> QED
      BY <1>2, <2>2 DEF Range
  <1> QED
    BY <1>3, <1>4, <1>5, <1>6

(* A call under way is for a request that is in the batch and not sent.    *)
LEMMA CallIsForHead ==
  ASSUME IInv, KInv, NEW c \in Clients, handler[c].step # "idle"
  PROVE  /\ handler[c].request \in Requests /\ Named(handler[c].name, handler[c].request)
         /\ handler[c].request \in Range(unsent[c]) /\ handler[c].request \in Batch(c)
         /\ handler[c].request \notin DOMAIN answers[c]
  <1>1. Named(handler[c].name, handler[c].request) /\ unsent[c] # << >> /\ unsent[c] \in Seq(Requests)
    BY DEF IInv, HandlersInv, TypeInv
  <1>2. handler[c].request = Head(unsent[c]) /\ IsInjective(unsent[c])
    BY DEF KInv, CallsInv, UnsentInv
  <1>3. handler[c].request \in Range(unsent[c])
    BY <1>1, <1>2, HeadAndTail
  <1> QED
    BY <1>1, <1>3 DEF Named, KInv, UnsentInv, SentInv, Sent

(* Until the handler inserts it, a call's name is not in the table.        *)
LEMMA FreshName ==
  ASSUME IInv, KInv, NamesDiffer, NEW c \in Clients, handler[c].step \in {"update", "insert"}
  PROVE  handler[c].name \notin DOMAIN table
  <1> SUFFICES ASSUME handler[c].name \in DOMAIN table,
                      NEW d \in Clients, NEW r \in Batch(d), IsEntryOf(handler[c].name, d, r)
               PROVE  FALSE
    BY DEF KInv, EntriesInv
  <1>1. r = handler[c].request /\ d = c
    BY CallIsForHead, NamesTellApart, BatchesAreDisjoint DEF IInv, IsEntryOf
  <1>2. task[r].step = "none"
    BY <1>1 DEF KInv, CallsInv
  <1> QED
    BY <1>1, <1>2 DEF IsEntryOf

(* Entries may be taken away; those that are left stay entries of the same *)
(* request.                                                                *)
LEMMA EntriesStay ==
  ASSUME EntriesInv, job' = job, NEW S,
         \A n \in S : n \in DOMAIN table,
         \A n \in S : \A d \in Clients : \A q \in Batch(d) : IsEntryOf(n, d, q) => IsEntryOf(n, d, q)'
  PROVE  \A n \in S : \E d \in Clients : \E q \in Batch(d)' : IsEntryOf(n, d, q)'
  <1> SUFFICES ASSUME NEW n \in S
               PROVE  \E d \in Clients : \E q \in Batch(d) : IsEntryOf(n, d, q)'
    BY DEF Batch
  <1> QED
    BY DEF EntriesInv

(***************************************************************************)
(* Handlers.                                                               *)
(***************************************************************************)
LEMMA HandlerAtStep ==
  ASSUME TypeInv, NEW c \in Clients, NEW step, handler' = HandlerAt(c, step)
  PROVE  \A d \in Clients :
           /\ handler'[d].name = handler[d].name /\ handler'[d].request = handler[d].request
           /\ handler'[d].step = IF d = c THEN step ELSE handler[d].step
  <1>1. \A d \in Clients : handler[d] \in [step : HandlerSteps, request : Requests \cup {"nobody"}, name : Name]
    BY DEF TypeInv
  <1>2. handler' = [handler EXCEPT ![c] = [handler[c] EXCEPT !.step = step]]
    BY DEF HandlerAt, TypeInv
  <1>3. [handler[c] EXCEPT !.step = step]
        = [step |-> step, request |-> handler[c].request, name |-> handler[c].name]
    BY <1>1
  <1> QED
    BY <1>2, <1>3 DEF TypeInv

LEMMA HandlerUpdateKeeps ==
  ASSUME IInv, KInv, NamesDiffer, NEW c \in Clients, HandlerUpdate(c)
  PROVE  KInv'
  <1> USE DEF KInv
  <1>1. /\ UNCHANGED <<job, clock, up, table, task, client>>
        /\ handler[c].step = "update" /\ handler' = HandlerAt(c, "insert")
    BY FreshName DEF HandlerUpdate
  <1>2. \A d \in Clients :
          /\ handler'[d].name = handler[d].name /\ handler'[d].request = handler[d].request
          /\ handler'[d].step = IF d = c THEN "insert" ELSE handler[d].step
    BY <1>1, HandlerAtStep DEF IInv
  <1> USE DEF client
  <1>3. MoreTypeInv' /\ UnsentInv' /\ ControlInv'
    BY <1>1 DEF MoreTypeInv, UnsentInv, ControlInv, Batch, Awaited
  <1>4. CallsInv'
    BY <1>1, <1>2 DEF CallsInv
  <1>5. UnsentTasksInv' /\ SentInv'
    BY <1>1, <1>2 DEF UnsentTasksInv, SentInv, Sent, Batch, Awaited
  <1>6. ActiveTasksInv' /\ KnownInv' /\ StoredInv'
    BY <1>1 DEF ActiveTasksInv, KnownInv, StoredInv, Batch, Notifies
  <1>7. EntriesInv'
    <2>1. \A n \in DOMAIN table : \A d \in Clients : \A q \in Batch(d) : IsEntryOf(n, d, q) => IsEntryOf(n, d, q)'
      BY <1>1, <1>2 DEF IsEntryOf, Named
    <2> QED
      BY <1>1, <2>1, EntriesStay DEF EntriesInv
  <1> QED
    BY <1>3, <1>4, <1>5, <1>6, <1>7

LEMMA HandlerInsertKeeps ==
  ASSUME IInv, KInv, NamesDiffer, NEW c \in Clients, HandlerInsert(c)
  PROVE  KInv'
  <1> USE DEF KInv
  <1> DEFINE name == handler[c].name
             r    == handler[c].request
  <1>1. /\ UNCHANGED <<job, clock, up, task, client>>
        /\ handler[c].step = "insert" /\ handler' = HandlerAt(c, "enqueue")
        /\ table' = Inserting(name, Pending)
    BY DEF HandlerInsert
  <1>2. \A d \in Clients :
          /\ handler'[d].name = handler[d].name /\ handler'[d].request = handler[d].request
          /\ handler'[d].step = IF d = c THEN "enqueue" ELSE handler[d].step
    BY <1>1, HandlerAtStep DEF IInv
  <1>3. /\ name \notin DOMAIN table /\ Named(name, r) /\ r \in Batch(c) /\ r \notin DOMAIN answers[c]
        /\ name \in Name
    BY <1>1, FreshName, CallIsForHead DEF IInv, TypeInv
  <1>4. /\ DOMAIN table' = DOMAIN table \cup {name} /\ table'[name] = Pending
        /\ \A n \in DOMAIN table : table'[n] = table[n]
    BY <1>1, <1>3 DEF Inserting
  <1>5. ~ Pending.done /\ Pending \in Operations
    BY DEF Pending, NoResult, Operations, Results
  <1> USE DEF client
  <1> HIDE DEF name, r
  <1>6. MoreTypeInv' /\ UnsentInv' /\ ControlInv'
    BY <1>1, <1>3, <1>4, <1>5 DEF MoreTypeInv, UnsentInv, ControlInv, Batch, Awaited
  <1>7. CallsInv'
    BY <1>1, <1>2, <1>4, <1>5 DEF CallsInv, name
  <1>8. UnsentTasksInv' /\ SentInv'
    BY <1>1, <1>2 DEF UnsentTasksInv, SentInv, Sent, Batch, Awaited
  <1>9. ActiveTasksInv' /\ KnownInv' /\ StoredInv'
    BY <1>1, <1>4 DEF ActiveTasksInv, KnownInv, StoredInv, Batch, Notifies
  <1>10. EntriesInv'
    <2>1. \A n \in {name} : \E d \in Clients : \E q \in Batch(d)' : IsEntryOf(n, d, q)'
      <3>1. ASSUME NEW n \in {name}, NEW q \in {r} PROVE q \in Batch(c)' /\ IsEntryOf(n, c, q)'
        BY <1>1, <1>2, <1>3, <1>4, <1>5 DEF IsEntryOf, Named, Batch, r, name
      <3> QED
        BY <3>1
    <2>2. \A n \in DOMAIN table : \A d \in Clients : \A q \in Batch(d) : IsEntryOf(n, d, q) => IsEntryOf(n, d, q)'
      BY <1>1, <1>2, <1>4 DEF IsEntryOf, Named
    <2>3. \A n \in DOMAIN table : \E d \in Clients : \E q \in Batch(d)' : IsEntryOf(n, d, q)'
      BY <1>1, <2>2, EntriesStay
    <2> QED
      BY <1>4, <2>1, <2>3 DEF EntriesInv
  <1> QED
    BY <1>6, <1>7, <1>8, <1>9, <1>10

(* The call's request gets its task. *)
LEMMA HandlerEnqueueKeeps ==
  ASSUME IInv, KInv, NamesDiffer, NEW c \in Clients, HandlerEnqueue(c)
  PROVE  KInv'
  <1> USE DEF KInv
  <1> DEFINE name == handler[c].name
             r    == handler[c].request
  <1>1. /\ UNCHANGED <<job, clock, up, table, client>>
        /\ handler[c].step = "enqueue" /\ handler' = HandlerAt(c, "reply")
        /\ task' = [task EXCEPT ![r] = [step |-> "queued", name |-> name]]
    BY DEF HandlerEnqueue
  <1>2. \A d \in Clients :
          /\ handler'[d].name = handler[d].name /\ handler'[d].request = handler[d].request
          /\ handler'[d].step = IF d = c THEN "reply" ELSE handler[d].step
    BY <1>1, HandlerAtStep DEF IInv
  <1>3. /\ r \in Requests /\ r \in Batch(c) /\ r \in Range(unsent[c]) /\ r \notin DOMAIN answers[c]
        /\ \A d \in Clients : r \in Batch(d) => d = c
    BY <1>1, CallIsForHead, BatchesAreDisjoint DEF IInv
  <1>4. task'[r] = [step |-> "queued", name |-> name]
        /\ \A q \in Requests \ {r} : task'[q] = task[q]
    BY <1>1, <1>3 DEF IInv, TypeInv
  <1>5. name \in DOMAIN table /\ ~ table[name].done /\ up
    BY <1>1 DEF CallsInv
  <1>6. \A d \in Clients : \A q \in Batch(d) : q \in Requests /\ (q = r => d = c)
    BY <1>3, BatchesAreDisjoint DEF IInv
  <1> USE DEF client
  <1>7. MoreTypeInv' /\ UnsentInv' /\ ControlInv' /\ StoredInv'
    BY <1>1 DEF MoreTypeInv, UnsentInv, ControlInv, StoredInv, Batch, Awaited, Notifies
  <1>8. CallsInv'
    <2> SUFFICES ASSUME NEW d \in Clients, handler'[d].step # "idle"
                 PROVE  /\ up /\ pc[d] \in {"calling", "failed"}
                        /\ handler'[d].request = Head(unsent[d])
                        /\ Cardinality(waiting[d]) < MaxTasks
                        /\ IF handler'[d].step = "reply"
                           THEN task'[handler'[d].request].step # "none"
                                /\ task'[handler'[d].request].name = handler'[d].name
                           ELSE task'[handler'[d].request].step = "none"
                        /\ handler'[d].step = "enqueue" =>
                             handler'[d].name \in DOMAIN table /\ ~ table[handler'[d].name].done
      BY <1>1 DEF CallsInv
    <2>1. CASE d = c
      BY <1>1, <1>2, <1>4, <2>1 DEF CallsInv
    <2>2. CASE d # c
      <3>1. handler[d].request \in Requests /\ handler[d].request # r
        BY <1>2, <1>6, <2>2, CallIsForHead
      <3> HIDE DEF r, name
      <3> QED
        BY <1>2, <1>4, <2>2, <3>1 DEF CallsInv
    <2> QED
      BY <2>1, <2>2
  <1> HIDE DEF r, name
  <1>9. UnsentTasksInv'
    <2>1. \A d \in Clients : \A q \in Range(unsent[d]) : q \in Batch(d)
      BY DEF UnsentInv
    <2> QED
      BY <1>1, <1>2, <1>4, <1>6, <2>1 DEF UnsentTasksInv, r
  <1>10. SentInv'
    <2>1. \A d \in Clients : \A q \in Sent(d) : q \in Requests /\ q # r
      BY <1>3, <1>6 DEF Sent
    <2>2. \A d \in Clients : Sent(d)' = Sent(d) /\ Awaited(d)' = Awaited(d)
      BY <1>1 DEF Sent, Batch, Awaited
    <2> QED
      BY <1>1, <1>4, <2>1, <2>2 DEF SentInv
  <1>11. ActiveTasksInv'
    BY <1>1, <1>4, <1>5 DEF ActiveTasksInv
  <1>12. KnownInv'
    BY <1>1, <1>4, <1>6 DEF KnownInv, Batch
  <1>13. EntriesInv'
    <2>1. task[r].step = "none"
      BY <1>1 DEF CallsInv, r
    <2> SUFFICES ASSUME NEW n \in DOMAIN table, NEW d \in Clients, NEW q \in Batch(d), IsEntryOf(n, d, q)
                 PROVE  IsEntryOf(n, d, q)'
      BY <1>1, EntriesStay DEF EntriesInv
    <2>2. q = r => n = name /\ d = c
      BY <1>6, <2>1 DEF IsEntryOf, name
    <2>3. q # r => task'[q] = task[q]
      BY <1>4, <1>6
    <2>4. q # r /\ handler[d].step = "enqueue" /\ handler[d].request = q => d # c
      BY DEF r
    <2> QED
      BY <1>1, <1>2, <1>4, <2>1, <2>2, <2>3, <2>4 DEF IsEntryOf, Named
  <1> QED
    BY <1>7, <1>8, <1>9, <1>10, <1>11, <1>12, <1>13

(***************************************************************************)
(* Tasks.                                                                  *)
(***************************************************************************)
LEMMA TaskAtStep ==
  ASSUME TypeInv, NEW r \in Requests, NEW step, task' = TaskAt(r, step)
  PROVE  \A q \in Requests :
           task'[q].name = task[q].name /\ task'[q].step = IF q = r THEN step ELSE task[q].step
  <1>1. \A q \in Requests : task[q] \in [step : TaskSteps, name : Name]
    BY DEF TypeInv
  <1>2. task' = [task EXCEPT ![r] = [task[r] EXCEPT !.step = step]]
    BY DEF TaskAt, TypeInv
  <1>3. [task[r] EXCEPT !.step = step] = [step |-> step, name |-> task[r].name]
    BY <1>1
  <1> QED
    BY <1>2, <1>3 DEF TypeInv

(* A task that goes on, and has an entry that is done only when it ends.   *)
LEMMA TaskGoesOn ==
  ASSUME IInv, KInv, NamesDiffer, NEW r \in Requests, NEW step \in {"running", "ended"},
         UNCHANGED <<job, clock, up, handler, client>>,
         task[r].step \in {"queued", "running"}, task' = TaskAt(r, step),
         DOMAIN table' = DOMAIN table,
         \A n \in DOMAIN table : n # task[r].name => table'[n] = table[n],
         table'[task[r].name] \in Operations,
         step # "ended" => ~ table'[task[r].name].done
  PROVE  KInv'
  <1> USE DEF KInv, client
  <1> DEFINE name == task[r].name
  <1>1. \A q \in Requests :
          task'[q].name = task[q].name /\ task'[q].step = IF q = r THEN step ELSE task[q].step
    BY TaskAtStep DEF IInv
  <1>2. name \in DOMAIN table /\ ~ table[name].done /\ up /\ Named(name, r)
    BY DEF ActiveTasksInv, IInv, TasksInv
  <1>3. \A d \in Clients : \A q \in Batch(d) : q \in Requests
    BY BatchesAreDisjoint DEF IInv
  <1>4. \A q \in Requests : task[q].step # "none" /\ task[q].name = name => q = r
    BY <1>2, NamesTellApart DEF IInv, TasksInv
  <1>5. \A d \in Clients : \A q \in Range(unsent[d]) : q \in Requests
    BY <1>3 DEF UnsentInv
  <1> HIDE DEF name
  <1>6. MoreTypeInv' /\ UnsentInv' /\ ControlInv' /\ StoredInv'
    BY DEF MoreTypeInv, UnsentInv, ControlInv, StoredInv, Batch, Awaited, Notifies, name
  <1>7. CallsInv'
    <2>1. \A d \in Clients : handler[d].step # "idle" => handler[d].request \in Requests
                                                         /\ Named(handler[d].name, handler[d].request)
      BY CallIsForHead
    <2>2. \A d \in Clients : handler[d].step = "enqueue" => handler[d].name # name
      <3> SUFFICES ASSUME NEW d \in Clients, handler[d].step = "enqueue", handler[d].name = name
                   PROVE  FALSE
        OBVIOUS
      <3>1. handler[d].request = r
        BY <1>2, <2>1, NamesTellApart DEF IInv
      <3> QED
        BY <3>1 DEF CallsInv
    <2>3. \A q \in Requests : task'[q].step = "none" <=> task[q].step = "none"
      BY <1>1
    <2> QED
      BY <1>1, <2>1, <2>2, <2>3 DEF CallsInv, name
  <1>8. UnsentTasksInv'
    BY <1>1, <1>5 DEF UnsentTasksInv
  <1>9. SentInv'
    <2>1. \A d \in Clients : \A q \in Sent(d) : q \in Requests
      BY <1>3 DEF Sent
    <2>2. \A d \in Clients : Sent(d)' = Sent(d) /\ Awaited(d)' = Awaited(d)
      BY DEF Sent, Batch, Awaited
    <2> QED
      BY <1>1, <2>1, <2>2 DEF SentInv
  <1>10. ActiveTasksInv'
    BY <1>1, <1>4 DEF ActiveTasksInv, name
  <1>11. KnownInv'
    <2>1. \A d \in Clients : Batch(d)' = Batch(d)
      BY DEF Batch
    <2> QED
      BY <1>1, <1>2, <1>3, <2>1 DEF KnownInv, name
  <1>12. EntriesInv'
    <2> SUFFICES ASSUME NEW n \in DOMAIN table, NEW d \in Clients, NEW q \in Batch(d), IsEntryOf(n, d, q)
                 PROVE  IsEntryOf(n, d, q)'
      BY EntriesStay DEF EntriesInv
    <2>1. q \in Requests /\ task'[q].name = task[q].name /\ (task'[q].step = "none" <=> task[q].step = "none")
      BY <1>1, <1>3
    <2>2. n = name => q = r
      BY <1>2, NamesTellApart DEF IInv, IsEntryOf
    <2>3. table'[n].done => task'[q].step = "ended"
      BY <1>1, <2>1, <2>2 DEF IsEntryOf, name
    <2> QED
      BY <2>1, <2>3 DEF IsEntryOf, Named
  <1> QED
    BY <1>6, <1>7, <1>8, <1>9, <1>10, <1>11, <1>12

(* abort() leaves an empty table, no calls and no tasks.                   *)
LEMMA AbortKeeps ==
  ASSUME IInv, KInv, NamesDiffer, NEW r \in Requests, Abort(r)
  PROVE  KInv'
  <1> USE DEF KInv, client
  <1>1. /\ UNCHANGED <<job, clock, client>> /\ up' = FALSE /\ DOMAIN table' = {}
        /\ \A d \in Clients : handler'[d].step = "idle"
    BY DEF Abort, Idle
  <1>2. \A q \in Requests :
          task'[q].name = task[q].name /\ task'[q].step = IF task[q].step = "none" THEN "none" ELSE "ended"
    <2> TAKE q \in Requests
    <2> DEFINE step == IF task[q].step = "none" THEN task[q].step ELSE "ended"
    <2>1. task[q] \in [step : TaskSteps, name : Name] /\ task'[q] = [task[q] EXCEPT !.step = step]
      BY DEF Abort, IInv, TypeInv
    <2>2. [task[q] EXCEPT !.step = step] = [step |-> step, name |-> task[q].name]
      <3> HIDE DEF step
      <3> QED
        BY <2>1
    <2>3. task'[q].step = step /\ task'[q].name = task[q].name
      <3> HIDE DEF step
      <3> QED
        BY <2>1, <2>2
    <2> QED
      BY <2>3
  <1>3. MoreTypeInv' /\ UnsentInv' /\ ControlInv' /\ StoredInv'
    BY <1>1 DEF MoreTypeInv, UnsentInv, ControlInv, StoredInv, Batch, Awaited, Notifies
  <1>4. CallsInv' /\ UnsentTasksInv' /\ KnownInv' /\ EntriesInv'
    BY <1>1 DEF CallsInv, UnsentTasksInv, KnownInv, EntriesInv
  <1>5. ActiveTasksInv'
    BY <1>2 DEF ActiveTasksInv
  <1>6. SentInv'
    <2>1. \A d \in Clients : \A q \in Sent(d) : q \in Requests
      BY BatchesAreDisjoint DEF Sent, IInv
    <2>2. \A d \in Clients : Sent(d)' = Sent(d) /\ Awaited(d)' = Awaited(d)
      BY <1>1 DEF Sent, Batch, Awaited
    <2> QED
      BY <1>1, <1>2, <2>1, <2>2 DEF SentInv
  <1> QED
    BY <1>3, <1>4, <1>5, <1>6

(* An operation finds its entry, which is replaced. *)
LEMMA TaskStepKeeps ==
  ASSUME IInv, KInv, NamesDiffer, NEW r \in Requests, TaskStep(r)
  PROVE  KInv'
  <1> DEFINE name == task[r].name
  <1>1. CASE StartTask(r)
    <2>1. /\ UNCHANGED <<job, clock, up, table, handler, client>>
          /\ task[r].step = "queued" /\ task' = TaskAt(r, "running")
      BY <1>1 DEF StartTask
    <2>2. name \in DOMAIN table /\ table[name] \in Operations /\ ~ table[name].done
      BY <2>1 DEF KInv, ActiveTasksInv, MoreTypeInv
    <2> QED
      BY <2>1, <2>2, TaskGoesOn
  <1>2. CASE FinishTask(r)
    <2>1. UNCHANGED <<job, clock, up, handler, client>> /\ task[r].step = "running"
      BY <1>2 DEF FinishTask
    <2>2. name \in DOMAIN table /\ ~ table[name].done /\ table[name] \in Operations
      BY <2>1 DEF KInv, ActiveTasksInv, MoreTypeInv
    <2>3. task' = TaskAt(r, "ended") /\ table' = [table EXCEPT ![name] = Published(r)]
      BY <1>2, <2>2 DEF FinishTask, Update, Updating
    <2>4. Published(r) \in Operations
      BY DEF Published, Operations, Results
    <2>5. DOMAIN table' = DOMAIN table /\ table'[name] = Published(r)
          /\ \A n \in DOMAIN table : n # name => table'[n] = table[n]
      BY <2>2, <2>3
    <2> QED
      BY <2>1, <2>3, <2>4, <2>5, TaskGoesOn
  <1>3. CASE InsertResult(r)
    BY <1>3 DEF InsertResult, KInv, ActiveTasksInv
  <1> QED
    BY <1>1, <1>2, <1>3, AbortKeeps DEF TaskStep

(***************************************************************************)
(* Clients.                                                                *)
(***************************************************************************)
(* A client that fails keeps what it had, and nothing else changes.        *)
LEMMA FailingKeeps ==
  ASSUME IInv, KInv, NamesDiffer, NEW c \in Clients, pc[c] \notin {"done", "failed"}, Fails(c),
         UNCHANGED <<job, clock, server>>
  PROVE  KInv'
  <1> USE DEF KInv, server, Fails
  <1>1. \A d \in Clients : pc'[d] = IF d = c THEN "failed" ELSE pc[d]
    BY DEF MoreTypeInv
  <1>2. MoreTypeInv'
    BY DEF MoreTypeInv, ControlStates
  <1>3. UnsentInv' /\ StoredInv'
    BY DEF UnsentInv, StoredInv, Batch, Notifies
  <1>4. ControlInv'
    BY <1>1 DEF ControlInv, Awaited
  <1>5. CallsInv'
    BY <1>1 DEF CallsInv
  <1>6. UnsentTasksInv' /\ SentInv' /\ ActiveTasksInv' /\ EntriesInv'
    BY DEF UnsentTasksInv, SentInv, ActiveTasksInv, EntriesInv, IsEntryOf, Sent, Batch, Awaited, Named
  <1>7. KnownInv'
    BY <1>1 DEF KnownInv, Batch
  <1> QED
    BY <1>2, <1>3, <1>4, <1>5, <1>6, <1>7

(* Submit calls for the head of what is unsent, which has no task yet.     *)
LEMMA SubmitKeeps ==
  ASSUME IInv, KInv, NamesDiffer, NEW c \in Clients, Submit(c)
  PROVE  KInv'
  <1> USE DEF KInv
  <1> DEFINE r    == Head(unsent[c])
             call == [step |-> "update", request |-> r, name |-> TaskName(r)]
  <1>1. CASE ~ up \/ (ChecksAuthority /\ r \in job.orphan)
    BY <1>1, FailingKeeps DEF Submit, server
  <1>2. CASE ~ (~ up \/ (ChecksAuthority /\ r \in job.orphan))
    <2>1. /\ UNCHANGED <<job, clock, up, table, task, unsent, waiting, toPoll, finished, owner, answers, stored>>
          /\ pc[c] = "submit" /\ unsent[c] # << >> /\ Cardinality(waiting[c]) < MaxTasks
          /\ pc' = [pc EXCEPT ![c] = "calling"]
          /\ handler' = [handler EXCEPT ![c] = call] /\ up
      BY <1>2 DEF Submit, MaySubmit
    <2> HIDE DEF call
    <2>2. /\ \A d \in Clients : pc'[d] = IF d = c THEN "calling" ELSE pc[d]
          /\ \A d \in Clients : handler'[d] = IF d = c THEN call ELSE handler[d]
      BY <2>1 DEF MoreTypeInv, IInv, TypeInv
    <2>3. call.step = "update" /\ call.request = r
      BY DEF call
    <2>4. r \in Range(unsent[c])
      BY <2>1, HeadAndTail DEF IInv, TypeInv, UnsentInv
    <2>5. handler[c].step = "idle"
      BY <2>1 DEF CallsInv
    <2>6. task[r].step = "none"
      BY <2>1, <2>4, <2>5 DEF UnsentTasksInv
    <2> HIDE DEF r
    <2>7. MoreTypeInv'
      BY <2>1 DEF MoreTypeInv, ControlStates
    <2>8. UnsentInv' /\ StoredInv' /\ ActiveTasksInv'
      BY <2>1 DEF UnsentInv, StoredInv, ActiveTasksInv, Batch, Notifies
    <2>14. SentInv'
      BY <2>1 DEF SentInv, Sent, Batch, Awaited
    <2>9. ControlInv'
      BY <2>1, <2>2 DEF ControlInv, Awaited
    <2>10. CallsInv'
      BY <2>1, <2>2, <2>3, <2>6 DEF CallsInv, r
    <2>11. UnsentTasksInv'
      BY <2>1, <2>2, <2>5 DEF UnsentTasksInv
    <2>12. KnownInv'
      BY <2>1, <2>2 DEF KnownInv, Batch
    <2>13. EntriesInv'
      <3>1. \A d \in Clients : handler[d].step = "enqueue" => handler'[d] = handler[d]
        BY <2>2, <2>5
      <3> QED
        BY <2>1, <3>1 DEF EntriesInv, IsEntryOf, Batch, Named
    <2> QED
      BY <2>7, <2>8, <2>9, <2>10, <2>11, <2>12, <2>13, <2>14
  <1> QED
    BY <1>1, <1>2

(* Receive adds one name, and moves the request to what is sent.           *)
LEMMA ReceiveKeeps ==
  ASSUME IInv, KInv, NamesDiffer, NEW c \in Clients, Receive(c)
  PROVE  KInv'
  <1> USE DEF KInv
  <1> DEFINE name == handler[c].name
             r    == handler[c].request
  <1>1. /\ UNCHANGED <<job, clock, up, table, task, toPoll, finished, answers, stored>>
        /\ pc[c] = "calling" /\ handler[c].step = "reply"
        /\ pc' = [pc EXCEPT ![c] = "submit"]
        /\ waiting' = [waiting EXCEPT ![c] = @ \cup {name}]
        /\ owner' = [owner EXCEPT ![c] = With(@, name, r)]
        /\ unsent' = [unsent EXCEPT ![c] = Tail(@)]
        /\ handler' = [handler EXCEPT ![c] = Idle]
    BY DEF Receive
  <1>2. /\ r \in Requests /\ Named(name, r) /\ r \in Batch(c) /\ r \notin DOMAIN answers[c]
        /\ r \in Range(unsent[c]) /\ r = Head(unsent[c]) /\ up
        /\ task[r].step # "none" /\ task[r].name = name
        /\ Cardinality(waiting[c]) < MaxTasks
    BY <1>1, CallIsForHead DEF CallsInv
  <1>3. /\ IsInjective(Tail(unsent[c])) /\ Range(Tail(unsent[c])) = Range(unsent[c]) \ {r}
    <2>1. unsent[c] # << >> /\ unsent[c] \in Seq(Requests) /\ IsInjective(unsent[c])
      BY <1>1 DEF IInv, HandlersInv, TypeInv, UnsentInv
    <2> QED
      BY <1>2, <2>1, HeadAndTail
  <1> HIDE DEF name, r
  <1>4. /\ \A d \in Clients : pc'[d] = IF d = c THEN "submit" ELSE pc[d]
        /\ \A d \in Clients : waiting'[d] = IF d = c THEN waiting[c] \cup {name} ELSE waiting[d]
        /\ \A d \in Clients : owner'[d] = IF d = c THEN With(owner[c], name, r) ELSE owner[d]
        /\ \A d \in Clients : unsent'[d] = IF d = c THEN Tail(unsent[c]) ELSE unsent[d]
        /\ \A d \in Clients : handler'[d] = IF d = c THEN Idle ELSE handler[d]
    BY <1>1 DEF MoreTypeInv, IInv, TypeInv
  <1>5. \A d \in Clients : Sent(d)' = IF d = c THEN Sent(c) \cup {r} ELSE Sent(d)
    BY <1>1, <1>2, <1>3, <1>4 DEF Sent, Batch
  <1>6. r \notin Sent(c) /\ Idle.step = "idle"
    BY <1>2 DEF Sent, Idle
  <1>7. finished[c] = {} /\ toPoll[c] = {}
    BY <1>1 DEF ControlInv
  <1>8. name \notin waiting[c]
    <2> SUFFICES ASSUME name \in waiting[c] PROVE FALSE
      OBVIOUS
    <2>1. owner[c][name] \in Sent(c) /\ task[owner[c][name]].name = name
      BY DEF SentInv
    <2>2. owner[c][name] = r
      BY <1>2, NamesTellApart DEF IInv, OwnersInv
    <2> QED
      BY <1>6, <2>1, <2>2
  <1>9. MoreTypeInv'
    BY <1>1 DEF MoreTypeInv, ControlStates
  <1>10. UnsentInv'
    BY <1>1, <1>3, <1>4 DEF UnsentInv, Batch
  <1>11. ControlInv'
    <2>1. IsFiniteSet(waiting[c]) /\ Cardinality(waiting[c]) \in Nat
      BY FS_CardinalityType DEF ControlInv
    <2>2. IsFiniteSet(waiting[c] \cup {name}) /\ Cardinality(waiting[c] \cup {name}) = Cardinality(waiting[c]) + 1
      BY <1>8, <2>1, FS_AddElement
    <2>3. Cardinality(waiting[c] \cup {name}) <= MaxTasks
      BY <1>2, <2>1, <2>2, MaxTasksAssumption
    <2>4. \A d \in Clients : toPoll'[d] = toPoll[d] /\ finished'[d] = finished[d]
      BY <1>1
    <2> QED
      BY <1>4, <1>7, <2>2, <2>3, <2>4 DEF ControlInv, Awaited
  <1>12. CallsInv'
    BY <1>1, <1>4, <1>6 DEF CallsInv
  <1>13. UnsentTasksInv'
    <2>1. \A q \in Range(unsent[c]) : q # r => task[q].step = "none"
      BY <1>2 DEF UnsentTasksInv, r
    <2> QED
      BY <1>1, <1>3, <1>4, <2>1 DEF UnsentTasksInv
  <1>14. SentInv'
    <2>1. /\ With(owner[c], name, r)[name] = r
          /\ \A n \in waiting[c] : With(owner[c], name, r)[n] = owner[c][n]
      BY <1>8 DEF IInv, OwnersInv, With
    <2> SUFFICES ASSUME NEW d \in Clients
                 PROVE  /\ DOMAIN answers[d] \subseteq Sent(d)'
                        /\ \A n \in waiting'[d] : owner'[d][n] \in Sent(d)' /\ task[owner'[d][n]].name = n
                        /\ \A q \in Sent(d)' :
                             /\ task[q].step # "none"
                             /\ q \in DOMAIN answers[d] <=> task[q].name \notin Awaited(d)'
      BY <1>1 DEF SentInv
    <2>2. CASE d # c
      <3>1. Awaited(d)' = Awaited(d) /\ waiting'[d] = waiting[d] /\ owner'[d] = owner[d] /\ Sent(d)' = Sent(d)
        BY <1>1, <1>4, <1>5, <2>2 DEF Awaited
      <3> QED
        BY <3>1 DEF SentInv
    <2>3. CASE d = c
      <3>1. Awaited(c)' = Awaited(c) \cup {name} /\ Sent(c)' = Sent(c) \cup {r}
            /\ waiting'[c] = waiting[c] \cup {name} /\ owner'[c] = With(owner[c], name, r)
        BY <1>1, <1>4, <1>5, <1>7, <2>3 DEF Awaited
      <3>2. \A q \in Sent(c) : task[q].name # name
        <4> SUFFICES ASSUME NEW q \in Sent(c), task[q].name = name PROVE FALSE
          OBVIOUS
        <4>1. q \in Requests /\ task[q].step # "none"
          BY BatchesAreDisjoint DEF Sent, SentInv, IInv
        <4>2. q = r
          BY <1>2, <4>1, NamesTellApart DEF IInv, TasksInv
        <4> QED
          BY <1>6, <4>2
      <3>3. \A n \in waiting'[c] : owner'[c][n] \in Sent(c)' /\ task[owner'[c][n]].name = n
        BY <1>2, <2>1, <3>1 DEF SentInv
      <3>4. \A q \in Sent(c)' :
              /\ task[q].step # "none"
              /\ q \in DOMAIN answers[c] <=> task[q].name \notin Awaited(c)'
        BY <1>2, <3>1, <3>2 DEF SentInv
      <3> QED
        BY <2>3, <3>1, <3>3, <3>4 DEF SentInv
    <2> QED
      BY <2>2, <2>3
  <1>15. ActiveTasksInv' /\ StoredInv'
    BY <1>1 DEF ActiveTasksInv, StoredInv, Batch, Notifies
  <1>16. KnownInv'
    BY <1>1, <1>4 DEF KnownInv, Batch
  <1>17. EntriesInv'
    <2>1. \A d \in Clients : handler[d].step = "enqueue" => handler'[d] = handler[d]
      BY <1>1, <1>4
    <2> QED
      BY <1>1, <2>1 DEF EntriesInv, IsEntryOf, Batch, Named
  <1> QED
    BY <1>9, <1>10, <1>11, <1>12, <1>13, <1>14, <1>15, <1>16, <1>17

(* A step of a client between two calls leaves the server as it is.        *)
LEMMA BetweenCallsKeeps ==
  ASSUME IInv, KInv, NEW c \in Clients, NEW step \in ControlStates \ {"failed"},
         pc[c] \in {"submit", "poll"}, pc' = [pc EXCEPT ![c] = step],
         UNCHANGED <<job, clock, server, unsent, owner, answers, stored>>,
         \A d \in Clients \ {c} : waiting'[d] = waiting[d],
         finished' \in [Clients -> SUBSET Name], ControlInv', SentInv'
  PROVE  KInv'
  <1> USE DEF KInv, server
  <1>1. \A d \in Clients : pc'[d] = IF d = c THEN step ELSE pc[d]
    BY DEF MoreTypeInv
  <1>2. MoreTypeInv'
    BY DEF MoreTypeInv
  <1>3. UnsentInv' /\ StoredInv'
    BY DEF UnsentInv, StoredInv, Batch, Notifies
  <1>4. CallsInv'
    <2>1. handler[c].step = "idle"
      BY DEF CallsInv
    <2> QED
      BY <1>1, <2>1 DEF CallsInv
  <1>5. UnsentTasksInv' /\ ActiveTasksInv' /\ EntriesInv'
    BY DEF UnsentTasksInv, ActiveTasksInv, EntriesInv, IsEntryOf, Batch, Named
  <1>6. KnownInv'
    BY <1>1 DEF KnownInv, Batch
  <1> QED
    BY <1>2, <1>3, <1>4, <1>5, <1>6

LEMMA BeginRoundKeeps ==
  ASSUME IInv, KInv, NEW c \in Clients, BeginRound(c)
  PROVE  KInv'
  <1> USE DEF KInv
  <1>1. /\ UNCHANGED <<job, clock, server, unsent, waiting, finished, owner, answers, stored>>
        /\ pc[c] = "submit" /\ pc' = [pc EXCEPT ![c] = "poll"]
        /\ toPoll' = [toPoll EXCEPT ![c] = waiting[c]]
    BY DEF BeginRound
  <1>2. \A d \in Clients : /\ pc'[d] = IF d = c THEN "poll" ELSE pc[d]
                           /\ toPoll'[d] = IF d = c THEN waiting[c] ELSE toPoll[d]
    BY <1>1 DEF MoreTypeInv, IInv, TypeInv
  <1>3. ControlInv'
    BY <1>1, <1>2 DEF ControlInv, Awaited
  <1>4. SentInv'
    BY <1>1 DEF SentInv, Sent, Batch, Awaited, server
  <1>5. finished' \in [Clients -> SUBSET Name]
    BY <1>1 DEF MoreTypeInv
  <1> QED
    BY <1>1, <1>3, <1>4, <1>5, BetweenCallsKeeps DEF ControlStates

(* What was finished is no longer waited for. *)
LEMMA EndRoundKeeps ==
  ASSUME IInv, KInv, NEW c \in Clients, EndRound(c)
  PROVE  KInv'
  <1> USE DEF KInv
  <1>1. /\ UNCHANGED <<job, clock, server, unsent, toPoll, owner, answers, stored>>
        /\ pc[c] = "poll" /\ toPoll[c] = {} /\ pc' = [pc EXCEPT ![c] = "submit"]
        /\ waiting' = [waiting EXCEPT ![c] = @ \ finished[c]]
        /\ finished' = [finished EXCEPT ![c] = {}]
    BY DEF EndRound
  <1>2. \A d \in Clients : /\ pc'[d] = IF d = c THEN "submit" ELSE pc[d]
                           /\ waiting'[d] = IF d = c THEN waiting[c] \ finished[c] ELSE waiting[d]
                           /\ finished'[d] = IF d = c THEN {} ELSE finished[d]
    BY <1>1 DEF MoreTypeInv, IInv, TypeInv
  <1>3. \A d \in Clients : Awaited(d)' = Awaited(d) /\ Sent(d)' = Sent(d)
    BY <1>1, <1>2 DEF Awaited, Sent, Batch
  <1>4. ControlInv'
    <2>1. IsFiniteSet(waiting[c]) /\ Cardinality(waiting[c]) <= MaxTasks /\ Cardinality(waiting[c]) \in Nat
      BY FS_CardinalityType DEF ControlInv
    <2>2. IsFiniteSet(waiting[c] \ finished[c]) /\ Cardinality(waiting[c] \ finished[c]) <= Cardinality(waiting[c])
          /\ Cardinality(waiting[c] \ finished[c]) \in Nat
      BY <2>1, FS_Subset, FS_CardinalityType
    <2>3. Cardinality(waiting[c] \ finished[c]) <= MaxTasks
      BY <2>1, <2>2, MaxTasksAssumption
    <2>4. \A d \in Clients : toPoll'[d] = toPoll[d]
      BY <1>1
    <2> QED
      BY <1>1, <1>2, <1>3, <2>2, <2>3, <2>4 DEF ControlInv
  <1>5. SentInv'
    <2>1. \A d \in Clients : waiting'[d] \subseteq waiting[d]
      BY <1>2
    <2> QED
      BY <1>1, <1>3, <2>1 DEF SentInv, server
  <1>6. finished' \in [Clients -> SUBSET Name]
    BY <1>1 DEF MoreTypeInv
  <1> QED
    BY <1>1, <1>2, <1>4, <1>5, <1>6, BetweenCallsKeeps DEF ControlStates

(* What Poll and Cut take from the table is done, so nobody else's; what   *)
(* the client has not been told it still asks for, or it has failed.       *)
LEMMA TakingKeeps ==
  ASSUME IInv, KInv, NamesDiffer, NEW c \in Clients, NEW name \in toPoll[c],
         name \in DOMAIN table, table[name].done, pc[c] # "failed",
         UNCHANGED <<job, clock, up, handler, task, unsent, waiting, owner>>,
         table' = Restrict(table, DOMAIN table \ {name}),
         pc' \in [Clients -> ControlStates],
         \A d \in Clients \ {c} : pc'[d] = pc[d] /\ answers'[d] = answers[d],
         pc'[c] \in {"poll", "failed"},
         \/ answers'[c] = answers[c] /\ pc'[c] = "failed"
         \/ DOMAIN answers'[c] = DOMAIN answers[c] \cup {owner[c][name]}
  PROVE  /\ UnsentInv' /\ CallsInv' /\ UnsentTasksInv' /\ ActiveTasksInv' /\ KnownInv' /\ EntriesInv'
         /\ owner[c][name] \in Sent(c) /\ task[owner[c][name]].name = name
         /\ owner[c][name] \notin DOMAIN answers[c]
         /\ \A n \in DOMAIN table' : n \in Name /\ table'[n] \in Operations
  <1> USE DEF KInv
  <1> DEFINE r == owner[c][name]
  <1>1. /\ DOMAIN table' = DOMAIN table \ {name}
        /\ \A n \in DOMAIN table' : n \in DOMAIN table /\ table'[n] = table[n]
    BY DEF Restrict
  <1>2. name \in Awaited(c) /\ name \in waiting[c]
    BY DEF ControlInv, Awaited
  <1>3. r \in Sent(c) /\ task[r].name = name /\ r \in Batch(c) /\ r \notin DOMAIN answers[c]
    BY <1>2 DEF SentInv, Sent
  <1>4. r \in Requests /\ \A d \in Clients : r \in Batch(d) => d = c
    BY <1>3, BatchesAreDisjoint DEF IInv
  <1>5. \A d \in Clients : \A q \in Batch(d) : q \in Requests
    BY BatchesAreDisjoint DEF IInv
  <1>6. Named(name, r)
    BY <1>2 DEF IInv, OwnersInv
  <1>7. \A q \in Requests : task[q].step # "none" /\ task[q].name = name => q = r
    BY <1>6, NamesTellApart DEF IInv, TasksInv
  <1>8. handler[c].step = "idle" /\ pc[c] = "poll"
    BY DEF ControlInv, CallsInv
  <1> HIDE DEF r
  <1>9. UnsentInv'
    BY DEF UnsentInv, Batch
  <1>10. CallsInv'
    <2>1. \A d \in Clients : handler[d].step = "enqueue" =>
            handler[d].name \in DOMAIN table' /\ ~ table'[handler[d].name].done
      BY <1>1 DEF CallsInv
    <2>2. \A d \in Clients : handler[d].step # "idle" => pc'[d] \in {"calling", "failed"}
      BY <1>8 DEF CallsInv
    <2> QED
      BY <2>1, <2>2 DEF CallsInv
  <1>11. UnsentTasksInv'
    BY DEF UnsentTasksInv
  <1>12. ActiveTasksInv'
    BY <1>1 DEF ActiveTasksInv
  <1>13. KnownInv'
    <2> SUFFICES ASSUME up, NEW d \in Clients, NEW q \in Batch(d),
                        pc'[d] # "failed", task[q].step = "ended", q \notin DOMAIN answers'[d]
                 PROVE  task[q].name \in DOMAIN table'
      BY DEF KnownInv, Batch
    <2>0. d = c => DOMAIN answers'[c] = DOMAIN answers[c] \cup {r}
      BY DEF r
    <2>1. q # r
      BY <1>4, <2>0 DEF r
    <2>2. task[q].name # name
      BY <1>5, <1>7, <2>1
    <2>3. pc[d] # "failed" /\ q \notin DOMAIN answers[d]
      BY <1>8, <2>0
    <2> QED
      BY <1>1, <2>2, <2>3 DEF KnownInv
  <1>14. EntriesInv'
    <2> SUFFICES ASSUME NEW n \in DOMAIN table', NEW d \in Clients, NEW q \in Batch(d), IsEntryOf(n, d, q)
                 PROVE  IsEntryOf(n, d, q)'
      BY <1>1, EntriesStay DEF EntriesInv
    <2>1. task[r].step # "none" /\ n # name
      BY <1>1, <1>3 DEF SentInv
    <2>2. q # r
      BY <1>3, <1>4, <1>8, <2>1 DEF IsEntryOf
    <2>3. q \notin DOMAIN answers'[d]
      BY <2>2 DEF r, IsEntryOf
    <2> QED
      BY <1>1, <2>3 DEF IsEntryOf, Named
  <1>15. \A n \in DOMAIN table' : n \in Name /\ table'[n] \in Operations
    BY <1>1 DEF MoreTypeInv
  <1> QED
    BY <1>3, <1>9, <1>10, <1>11, <1>12, <1>13, <1>14, <1>15 DEF r

LEMMA AfterGetOfDone ==
  ASSUME NEW name, table[name].done
  PROVE  AfterGet(name) = Restrict(table, DOMAIN table \ {name})
  BY DEF AfterGet

(* notify stores what is answered for the first time. *)
LEMMA StoringKeeps ==
  ASSUME TypeInv, MoreTypeInv, StoredInv, job' = job, NEW c \in Clients, NEW r \in Batch(c),
         r \notin DOMAIN answers[c], NEW entry,
         [request |-> r, entry |-> entry] \in Stored,
         \A d \in Clients : DOMAIN answers'[d] = IF d = c THEN DOMAIN answers[c] \cup {r} ELSE DOMAIN answers[d],
         stored' = IF Notifies THEN Append(stored, [request |-> r, entry |-> entry]) ELSE stored
  PROVE  StoredInv' /\ stored' \in Seq(Stored)
  <1>1. Notifies' = Notifies /\ \A d \in Clients : Batch(d)' = Batch(d)
    BY DEF Notifies, Batch
  <1>2. \A d \in Clients : r \in Batch(d) => d = c
    BY BatchesAreDisjoint
  <1>3. CASE ~ Notifies
    BY <1>1, <1>3 DEF StoredInv, MoreTypeInv
  <1>4. CASE Notifies
    <2> DEFINE new == [request |-> r, entry |-> entry]
    <2>1. stored \in Seq(Stored) /\ stored' = Append(stored, new) /\ new \in Stored /\ new.request = r
      BY <1>4 DEF MoreTypeInv
    <2> HIDE DEF new
    <2>2. /\ stored' \in Seq(Stored) /\ Len(stored) \in Nat
          /\ DOMAIN stored = 1 .. Len(stored) /\ DOMAIN stored' = 1 .. Len(stored) + 1
          /\ \A i \in 1 .. Len(stored) : stored'[i] = stored[i]
          /\ stored'[Len(stored) + 1] = new
      BY <2>1
    <2>3. \A i \in DOMAIN stored : stored[i].request # r
      BY <1>4 DEF StoredInv
    <2>4. \A i, j \in DOMAIN stored' : stored'[i].request = stored'[j].request => i = j
      <3> SUFFICES ASSUME NEW i \in 1 .. Len(stored) + 1, NEW j \in 1 .. Len(stored) + 1,
                          stored'[i].request = stored'[j].request
                   PROVE  i = j
        BY <2>2
      <3>1. CASE i = Len(stored) + 1
        BY <2>1, <2>2, <2>3, <3>1
      <3>2. CASE j = Len(stored) + 1
        BY <2>1, <2>2, <2>3, <3>2
      <3>3. CASE i \in 1 .. Len(stored) /\ j \in 1 .. Len(stored)
        BY <2>2, <3>3 DEF StoredInv
      <3> QED
        BY <2>2, <3>1, <3>2, <3>3
    <2>5. ASSUME NEW d \in Clients, NEW q \in Batch(d)
          PROVE  (\E i \in DOMAIN stored' : stored'[i].request = q) <=> q \in DOMAIN answers'[d]
      <3>1. (\E i \in DOMAIN stored' : stored'[i].request = q)
            <=> q = r \/ \E i \in DOMAIN stored : stored[i].request = q
        BY <2>1, <2>2
      <3>2. (\E i \in DOMAIN stored : stored[i].request = q) <=> q \in DOMAIN answers[d]
        BY <1>4 DEF StoredInv
      <3> QED
        BY <1>2, <3>1, <3>2
    <2> QED
      BY <1>1, <1>4, <2>2, <2>4, <2>5 DEF StoredInv
  <1> QED
    BY <1>3, <1>4

(* An answer is filed under the request the name was sent for, which had   *)
(* none yet.                                                               *)
LEMMA DeliverKeeps ==
  ASSUME IInv, KInv, NamesDiffer, NEW c \in Clients, NEW name \in toPoll[c],
         up, pc[c] = "poll", name \in DOMAIN table, table[name].done, Poll(c, name)
  PROVE  KInv'
  <1> USE DEF KInv
  <1> DEFINE r      == owner[c][name]
             result == table[name].result
  <1>1. /\ UNCHANGED <<job, clock, handler, task, pc, unsent, waiting, owner>>
        /\ answers' = [answers EXCEPT ![c] = With(@, r, result)]
        /\ finished' = [finished EXCEPT ![c] = @ \cup {name}]
        /\ stored' = IF Notifies THEN Append(stored, [request |-> r, entry |-> Unpacked(result)])
                     ELSE stored
        /\ table' = AfterGet(name)
        /\ toPoll' = [toPoll EXCEPT ![c] = @ \ {name}]
        /\ UNCHANGED up
    BY DEF Poll, Deliver
  <1>2. table' = Restrict(table, DOMAIN table \ {name})
    BY <1>1, AfterGetOfDone
  <1>3. /\ \A d \in Clients : answers'[d] = IF d = c THEN With(answers[c], r, result) ELSE answers[d]
        /\ \A d \in Clients : finished'[d] = IF d = c THEN finished[c] \cup {name} ELSE finished[d]
        /\ \A d \in Clients : toPoll'[d] = IF d = c THEN toPoll[c] \ {name} ELSE toPoll[d]
    BY <1>1 DEF MoreTypeInv, IInv, TypeInv
  <1>4. \A d \in Clients : DOMAIN answers'[d] = IF d = c THEN DOMAIN answers[c] \cup {r} ELSE DOMAIN answers[d]
    BY <1>3 DEF With
  <1>5. /\ UnsentInv' /\ CallsInv' /\ UnsentTasksInv' /\ ActiveTasksInv' /\ KnownInv' /\ EntriesInv'
        /\ r \in Sent(c) /\ task[r].name = name /\ r \notin DOMAIN answers[c]
        /\ \A n \in DOMAIN table' : n \in Name /\ table'[n] \in Operations
    <2>1. pc' \in [Clients -> ControlStates]
      BY <1>1 DEF MoreTypeInv
    <2> HIDE DEF result
    <2> QED
      BY <1>1, <1>2, <1>3, <1>4, <2>1, TakingKeeps
  <1>6. name \in Awaited(c) /\ name \in waiting[c] /\ name \in Name
    BY DEF ControlInv, Awaited, IInv, TypeInv
  <1>7. r \in Batch(c) /\ r \in Requests
    BY <1>5, BatchesAreDisjoint DEF Sent, IInv
  <1>8. [request |-> r, entry |-> Unpacked(result)] \in Stored
    <2>1. result \in Results
      BY DEF MoreTypeInv, Operations
    <2> HIDE DEF result
    <2>2. Unpacked(result) \in [kind : {"response", "empty"}, of : Requests \cup {"nobody"}]
      BY <2>1 DEF Unpacked, Results
    <2> QED
      BY <1>7, <2>2 DEF Stored
  <1> HIDE DEF r, result
  <1>9. StoredInv' /\ stored' \in Seq(Stored)
    BY <1>1, <1>4, <1>5, <1>7, <1>8, StoringKeeps DEF IInv
  <1>10. MoreTypeInv'
    BY <1>1, <1>5, <1>6, <1>9 DEF MoreTypeInv
  <1>11. \A d \in Clients : Awaited(d)' = (IF d = c THEN Awaited(c) \ {name} ELSE Awaited(d))
    BY <1>1, <1>3 DEF Awaited
  <1>12. ControlInv'
    <2>1. \A d \in Clients : pc'[d] = pc[d] /\ waiting'[d] = waiting[d] /\ unsent'[d] = unsent[d]
      BY <1>1
    <2> QED
      BY <1>3, <1>6, <1>11, <2>1 DEF ControlInv
  <1>13. SentInv'
    <2>1. \A d \in Clients : Sent(d)' = Sent(d)
      BY <1>1 DEF Sent, Batch
    <2>2. \A d \in Clients : \A q \in Sent(d) : q \in Requests /\ task[q].step # "none"
      BY BatchesAreDisjoint DEF Sent, IInv, SentInv
    <2>3. \A q \in Sent(c) : task[q].name = name => q = r
      <3>1. Named(name, r)
        BY <1>6 DEF IInv, OwnersInv, r
      <3> QED
        BY <2>2, <3>1, NamesTellApart DEF IInv, TasksInv
    <2>4. ASSUME NEW d \in Clients, NEW q \in Sent(d)
          PROVE  q \in DOMAIN answers'[d] <=> task[q].name \notin Awaited(d)'
      BY <1>4, <1>5, <1>11, <2>3 DEF SentInv
    <2>5. \A d \in Clients : DOMAIN answers'[d] \subseteq Sent(d)
      BY <1>4, <1>5 DEF SentInv
    <2> QED
      BY <1>1, <2>1, <2>2, <2>4, <2>5 DEF SentInv
  <1> QED
    BY <1>5, <1>9, <1>10, <1>12, <1>13

(* An operation that is not done is asked for again in the next round.     *)
LEMMA AskAgainKeeps ==
  ASSUME IInv, KInv, NEW c \in Clients, NEW name \in toPoll[c], pc[c] = "poll",
         UNCHANGED <<job, clock, server, pc, unsent, waiting, finished, owner, answers, stored>>,
         toPoll' = [toPoll EXCEPT ![c] = @ \ {name}]
  PROVE  KInv'
  <1> USE DEF KInv, server
  <1>1. \A d \in Clients : toPoll'[d] = IF d = c THEN toPoll[c] \ {name} ELSE toPoll[d]
    BY DEF IInv, TypeInv
  <1>2. MoreTypeInv' /\ UnsentInv' /\ StoredInv'
    BY DEF MoreTypeInv, UnsentInv, StoredInv, Batch, Notifies
  <1>3. ControlInv'
    BY <1>1 DEF ControlInv, Awaited
  <1>4. CallsInv' /\ UnsentTasksInv'
    BY DEF CallsInv, UnsentTasksInv
  <1>5. SentInv'
    BY DEF SentInv, Sent, Batch, Awaited
  <1>6. ActiveTasksInv' /\ KnownInv'
    BY DEF ActiveTasksInv, KnownInv, Batch
  <1>7. EntriesInv'
    BY DEF EntriesInv, IsEntryOf, Batch, Named
  <1> QED
    BY <1>2, <1>3, <1>4, <1>5, <1>6, <1>7

LEMMA PollKeeps ==
  ASSUME IInv, KInv, NamesDiffer, NEW c \in Clients, NEW name \in toPoll[c], Poll(c, name)
  PROVE  KInv'
  <1>1. CASE up /\ name \in DOMAIN table /\ table[name].done
    BY <1>1, DeliverKeeps DEF Poll
  <1>2. CASE up /\ name \in DOMAIN table /\ ~ table[name].done
    <2>1. AfterGet(name) = table
      BY <1>2 DEF AfterGet
    <2> QED
      BY <1>2, <2>1, AskAgainKeeps DEF Poll, server
  <1>3. CASE ~ (up /\ name \in DOMAIN table)
    BY <1>3, FailingKeeps DEF Poll, server
  <1> QED
    BY <1>1, <1>2, <1>3

(* A client that is cut off may take an answer that is done with it.       *)
LEMMA CutKeeps ==
  ASSUME IInv, KInv, NamesDiffer, NEW c \in Clients, Cut(c)
  PROVE  KInv'
  <1> USE DEF KInv
  <1>1. /\ UNCHANGED <<job, clock, up, handler, task, unsent, waiting, toPoll, finished, owner, answers, stored>>
        /\ pc[c] \notin {"done", "failed"} /\ pc' = [pc EXCEPT ![c] = "failed"]
    BY DEF Cut, Fails
  <1>2. CASE table' = table
    BY <1>1, <1>2, FailingKeeps DEF Cut, server
  <1>3. ASSUME NEW name \in toPoll[c] \cap DOMAIN table, table[name].done, table' = AfterGet(name)
        PROVE  KInv'
    <2>1. \A d \in Clients : pc'[d] = IF d = c THEN "failed" ELSE pc[d]
      BY <1>1 DEF MoreTypeInv
    <2>2. pc' \in [Clients -> ControlStates]
      BY <1>1 DEF MoreTypeInv, ControlStates
    <2>3. /\ UnsentInv' /\ CallsInv' /\ UnsentTasksInv' /\ ActiveTasksInv' /\ KnownInv' /\ EntriesInv'
          /\ \A n \in DOMAIN table' : n \in Name /\ table'[n] \in Operations
      BY <1>1, <1>3, <2>1, <2>2, AfterGetOfDone, TakingKeeps
    <2>4. MoreTypeInv' /\ StoredInv'
      BY <1>1, <2>2, <2>3 DEF MoreTypeInv, StoredInv, Batch, Notifies
    <2>5. ControlInv'
      BY <1>1, <2>1 DEF ControlInv, Awaited
    <2>6. SentInv'
      BY <1>1 DEF SentInv, Sent, Batch, Awaited
    <2> QED
      BY <2>3, <2>4, <2>5, <2>6
  <1>4. CASE \E name \in toPoll[c] \cap DOMAIN table : table' = AfterGet(name)
    BY <1>2, <1>3, <1>4 DEF AfterGet
  <1> QED
    BY <1>2, <1>4 DEF Cut

LEMMA ReturnKeeps ==
  ASSUME IInv, KInv, NEW c \in Clients, Return(c)
  PROVE  KInv'
  <1> USE DEF KInv
  <1>1. /\ UNCHANGED <<job, clock, server, unsent, waiting, toPoll, finished, owner, answers, stored>>
        /\ pc[c] = "submit" /\ waiting[c] = {} /\ unsent[c] = << >> /\ pc' = [pc EXCEPT ![c] = "done"]
    BY DEF Return
  <1>2. \A d \in Clients : pc'[d] = IF d = c THEN "done" ELSE pc[d]
    BY <1>1 DEF MoreTypeInv
  <1>3. ControlInv'
    BY <1>1, <1>2 DEF ControlInv, Awaited
  <1>4. SentInv' /\ finished' \in [Clients -> SUBSET Name]
    BY <1>1 DEF SentInv, Sent, Batch, Awaited, server, MoreTypeInv
  <1> QED
    BY <1>1, <1>3, <1>4, BetweenCallsKeeps DEF ControlStates

LEMMA TickKeeps ==
  ASSUME IInv, KInv, UNCHANGED <<job, server, client>>
  PROVE  KInv'
  <1> USE DEF KInv, server, client
  <1>1. MoreTypeInv' /\ UnsentInv' /\ StoredInv'
    BY DEF MoreTypeInv, UnsentInv, StoredInv, Batch, Notifies
  <1>2. ControlInv'
    BY DEF ControlInv, Awaited
  <1>3. CallsInv' /\ UnsentTasksInv'
    BY DEF CallsInv, UnsentTasksInv
  <1>4. SentInv'
    BY DEF SentInv, Sent, Batch, Awaited
  <1>5. ActiveTasksInv' /\ KnownInv'
    BY DEF ActiveTasksInv, KnownInv, Batch
  <1>6. EntriesInv'
    BY DEF EntriesInv, IsEntryOf, Batch, Named
  <1> QED
    BY <1>1, <1>2, <1>3, <1>4, <1>5, <1>6

(***************************************************************************)
(* The invariant.                                                          *)
(***************************************************************************)
(* Nothing has been asked for at the start. *)
LEMMA InitKeeps == ASSUME Init PROVE KInv
  <1> USE DEF Init
  <1>1. IInv
    BY InitInv
  <1>2. MoreTypeInv
    BY DEF MoreTypeInv, ControlStates
  <1>3. job.batch \in [Clients -> Seq(Requests)] /\ \A c \in Clients : IsInjective(job.batch[c])
    BY ScenariosAssumption
  <1>4. UnsentInv
    BY <1>3 DEF UnsentInv, Batch
  <1>5. \A c \in Clients : Sent(c) = {} /\ DOMAIN answers[c] = {} /\ waiting[c] = {}
    BY DEF Sent, Batch
  <1>6. ControlInv
    <2>1. IsFiniteSet({}) /\ Cardinality({}) = 0
      BY FS_EmptySet
    <2>2. \A c \in Clients : waiting[c] = {} /\ toPoll[c] = {} /\ finished[c] = {} /\ pc[c] = "submit"
      OBVIOUS
    <2>3. 0 <= MaxTasks
      BY MaxTasksAssumption
    <2> QED
      BY <2>1, <2>2, <2>3 DEF ControlInv, Awaited
  <1>7. CallsInv /\ EntriesInv
    BY DEF CallsInv, EntriesInv, Idle
  <1>8. \A r \in Requests : task[r].step = "none"
    OBVIOUS
  <1>9. \A c \in Clients : \A r \in Batch(c) : r \in Requests
    BY <1>1, BatchesAreDisjoint DEF IInv
  <1>10. UnsentTasksInv
    BY <1>4, <1>8, <1>9 DEF UnsentTasksInv, UnsentInv
  <1>11. SentInv
    BY <1>5 DEF SentInv
  <1>12. ActiveTasksInv /\ KnownInv
    BY <1>8, <1>9 DEF ActiveTasksInv, KnownInv
  <1>13. StoredInv
    BY <1>5 DEF StoredInv
  <1> QED
    BY <1>2, <1>4, <1>6, <1>7, <1>10, <1>11, <1>12, <1>13 DEF KInv

LEMMA NextKeeps == ASSUME IInv, KInv, NamesDiffer, [Next]_vars PROVE KInv'
  <1>1. ASSUME NEW c \in Clients, ClientStep(c) PROVE KInv'
    <2>1. CASE CallBroken(c)
      BY <2>1, FailingKeeps DEF CallBroken
    <2> QED
      BY <1>1, <2>1, SubmitKeeps, ReceiveKeeps, BeginRoundKeeps, PollKeeps, EndRoundKeeps, ReturnKeeps
         DEF ClientStep
  <1>2. ASSUME NEW c \in Clients, HandlerStep(c) PROVE KInv'
    BY <1>2, HandlerUpdateKeeps, HandlerInsertKeeps, HandlerEnqueueKeeps DEF HandlerStep
  <1>3. CASE Tick \/ UNCHANGED vars
    BY <1>3, TickKeeps DEF Tick, vars
  <1> QED
    BY <1>1, <1>2, <1>3, CutKeeps, TaskStepKeeps DEF Next

(* The scenario does not change, so names that differ go on to.           *)
LEMMA JobStays == [Next]_vars => UNCHANGED job
  BY DEF Next, Tick, vars, ClientStep, HandlerStep, TaskStep, Cut, Submit, Receive, CallBroken,
         BeginRound, Poll, EndRound, Return, HandlerUpdate, HandlerInsert, HandlerEnqueue,
         StartTask, FinishTask, InsertResult, Abort

LEMMA NamesStayDifferent == NamesDiffer /\ [Next]_vars => NamesDiffer'
  <1> SUFFICES ASSUME NamesDiffer, [Next]_vars PROVE NamesDiffer'
    OBVIOUS
  <1> QED
    BY JobStays DEF NamesDiffer

LEMMA NamesWereDifferent == NamesDiffer' /\ [Next]_vars => NamesDiffer
  <1> SUFFICES ASSUME NamesDiffer', [Next]_vars PROVE NamesDiffer
    OBVIOUS
  <1> QED
    BY JobStays DEF NamesDiffer

(* Where no two requests build the same name. *)
LEMMA KInvHolds == Spec => [](IInv /\ (NamesDiffer => KInv))
  <1>1. Init => IInv /\ (NamesDiffer => KInv)
    BY InitInv, InitKeeps
  <1>2. IInv /\ (NamesDiffer => KInv) /\ [Next]_vars => (IInv /\ (NamesDiffer => KInv))'
    BY NextInv, NextKeeps, NamesWereDifferent
  <1> QED
    BY <1>1, <1>2, PTL DEF Spec

(***************************************************************************)
(* What follows for every client.                                          *)
(***************************************************************************)
(* Whatever a client still asks for has its entry in the table, until the  *)
(* server goes down: no poll ends in NOT_FOUND.                            *)
THEOREM PollsFindTheirEntries == Spec => []WaitingIsKnown
  <1>1. ASSUME IInv, KInv PROVE WaitingIsKnown
    <2> SUFFICES ASSUME up, NEW c \in Clients, pc[c] # "failed", NEW n \in Awaited(c)
                 PROVE  n \in DOMAIN table
      BY DEF WaitingIsKnown, Awaited
    <2> DEFINE r == owner[c][n]
    <2>1. r \in Sent(c) /\ task[r].name = n /\ r \notin DOMAIN answers[c] /\ task[r].step # "none"
      BY <1>1 DEF KInv, SentInv, Awaited
    <2>2. r \in Batch(c) /\ r \in Requests
      BY <1>1, <2>1, BatchesAreDisjoint DEF Sent, IInv
    <2>3. task[r].step \in {"queued", "running", "ended"}
      BY <1>1, <2>1, <2>2 DEF KInv, ActiveTasksInv, IInv, TypeInv, TaskSteps
    <2> HIDE DEF r
    <2> QED
      BY <1>1, <2>1, <2>2, <2>3 DEF KInv, ActiveTasksInv, KnownInv
  <1>2. IInv /\ (NamesDiffer => KInv) => WaitingIsKnown
    BY <1>1 DEF WaitingIsKnown
  <1> QED
    BY <1>2, KInvHolds, PTL

(* A client that returns has an answer for each request of its batch, and  *)
(* notify has been called for each of them once.                           *)
THEOREM BatchesAreAnswered == Spec => []BatchIsComplete
  <1>1. ASSUME IInv, KInv PROVE BatchIsComplete
    <2> SUFFICES ASSUME NEW c \in Clients, pc[c] = "done"
                 PROVE  /\ DOMAIN answers[c] = Batch(c)
                        /\ \A r \in Batch(c) :
                             Cardinality({i \in DOMAIN stored : stored[i].request = r})
                             = IF Notifies THEN 1 ELSE 0
      BY DEF BatchIsComplete
    <2>1. waiting[c] = {} /\ unsent[c] = << >>
      BY <1>1 DEF KInv, ControlInv
    <2>2. Sent(c) = Batch(c) /\ Awaited(c) = {}
      BY <2>1 DEF Sent, Awaited, Range
    <2>3. DOMAIN answers[c] = Batch(c)
      BY <1>1, <2>2 DEF KInv, SentInv
    <2>4. ASSUME NEW r \in Batch(c)
          PROVE  Cardinality({i \in DOMAIN stored : stored[i].request = r}) = IF Notifies THEN 1 ELSE 0
      <3> DEFINE entries == {i \in DOMAIN stored : stored[i].request = r}
      <3>1. CASE Notifies
        <4>1. PICK i \in DOMAIN stored : stored[i].request = r
          BY <1>1, <2>3, <3>1 DEF KInv, StoredInv
        <4>2. entries = {i}
          BY <1>1, <4>1 DEF KInv, StoredInv
        <4> QED
          BY <3>1, <4>2, FS_Singleton
      <3>2. CASE ~ Notifies
        <4>1. entries = {}
          BY <1>1, <3>2 DEF KInv, StoredInv
        <4> QED
          BY <3>2, <4>1, FS_EmptySet
      <3> QED
        BY <3>1, <3>2
    <2> QED
      BY <2>3, <2>4
  <1>2. IInv /\ (NamesDiffer => KInv) => BatchIsComplete
    BY <1>1 DEF BatchIsComplete
  <1> QED
    BY <1>2, KInvHolds, PTL

(* Once a client has its answer, the table has no entry of this request    *)
(* and gets none again, if no two requests build the same name.  Entries   *)
(* of requests that a killed client got no answer for are not spoken of.   *)
THEOREM ResultsAreNotCached == Spec => []NothingIsLeft
  <1>1. ASSUME IInv, KInv, NamesDiffer PROVE NothingIsLeft
    <2> SUFFICES ASSUME NEW c \in Clients, NEW r \in DOMAIN answers[c], NEW n \in DOMAIN table, Names(job, n, r)
                 PROVE  FALSE
      BY DEF NothingIsLeft
    <2>1. r \in Batch(c) /\ r \in Requests
      BY <1>1, BatchesAreDisjoint DEF KInv, SentInv, Sent, IInv
    <2>3. Named(n, r)
      BY <2>1 DEF Named
    <2>4. PICK d \in Clients : \E q \in Batch(d) : IsEntryOf(n, d, q)
      BY <1>1 DEF KInv, EntriesInv
    <2>5. PICK q \in Batch(d) : IsEntryOf(n, d, q)
      BY <2>4
    <2>6. q = r /\ d = c
      BY <1>1, <2>1, <2>3, <2>5, NamesTellApart, BatchesAreDisjoint DEF IsEntryOf, IInv
    <2> QED
      BY <2>5, <2>6 DEF IsEntryOf
  <1>2. IInv /\ (NamesDiffer => KInv) => NothingIsLeft
    BY <1>1 DEF NothingIsLeft
  <1> QED
    BY <1>2, KInvHolds, PTL

(* A task that has not ended is one the client waits for, or that of the   *)
(* call whose reply is under way, for which there was room.                *)
THEOREM LimitIsKept == Spec => []TasksAreLimited
  <1>1. ASSUME IInv, KInv, NamesDiffer PROVE TasksAreLimited
    <2> SUFFICES ASSUME NEW c \in Clients
                 PROVE  Cardinality({r \in Batch(c) : task[r].step \in {"queued", "running", "insert"}}) <= MaxTasks
      BY DEF TasksAreLimited
    <2> DEFINE active == {r \in Batch(c) : task[r].step \in {"queued", "running", "insert"}}
               calls  == IF handler[c].step = "idle" THEN {} ELSE {handler[c].request}
               asked  == {owner[c][n] : n \in waiting[c]}
    <2>1. ASSUME NEW r \in active PROVE r \in asked \cup calls
      <3>1. r \in Batch(c) /\ r \in Requests /\ up /\ task[r].step \in {"queued", "running"}
            /\ task[r].name \in DOMAIN table /\ ~ table[task[r].name].done
        BY <1>1, BatchesAreDisjoint DEF KInv, ActiveTasksInv, IInv
      <3>2. CASE r \in Range(unsent[c])
        BY <1>1, <3>1, <3>2 DEF KInv, UnsentTasksInv
      <3>3. CASE r \in Sent(c)
        <4>1. PICK d \in Clients : \E q \in Batch(d) : IsEntryOf(task[r].name, d, q)
          BY <1>1, <3>1 DEF KInv, EntriesInv
        <4>2. PICK q \in Batch(d) : IsEntryOf(task[r].name, d, q)
          BY <4>1
        <4>3. q = r /\ d = c
          BY <1>1, <3>1, <4>2, NamesTellApart, BatchesAreDisjoint DEF IsEntryOf, IInv, TasksInv
        <4>4. task[r].name \in waiting[c]
          BY <1>1, <3>3, <4>2, <4>3 DEF KInv, SentInv, IsEntryOf, Awaited
        <4>5. owner[c][task[r].name] = r
          BY <1>1, <3>1, <4>4, NamesTellApart DEF IInv, TasksInv, OwnersInv
        <4> QED
          BY <4>4, <4>5
      <3> QED
        BY <3>1, <3>2, <3>3 DEF Sent
    <2>2. /\ IsFiniteSet(waiting[c]) /\ Cardinality(waiting[c]) \in Nat /\ Cardinality(waiting[c]) <= MaxTasks
          /\ handler[c].step # "idle" => Cardinality(waiting[c]) < MaxTasks
      BY <1>1, FS_CardinalityType DEF KInv, ControlInv, CallsInv
    <2>3. IsFiniteSet(asked) /\ Cardinality(asked) <= Cardinality(waiting[c]) /\ Cardinality(asked) \in Nat
      <3>1. [n \in waiting[c] |-> owner[c][n]] \in Surjection(waiting[c], asked)
        BY DEF Surjection
      <3> QED
        BY <2>2, <3>1, FS_Surjection, FS_CardinalityType
    <2>4. IsFiniteSet(asked \cup calls) /\ Cardinality(asked \cup calls) <= MaxTasks
      <3> HIDE DEF asked
      <3>1. CASE handler[c].step = "idle"
        BY <2>2, <2>3, <3>1, MaxTasksAssumption
      <3>2. CASE handler[c].step # "idle"
        <4>1. /\ IsFiniteSet(asked \cup {handler[c].request})
              /\ Cardinality(asked \cup {handler[c].request}) <= Cardinality(asked) + 1
          <5>1. handler[c].request \in asked =>
                  Cardinality(asked \cup {handler[c].request}) = Cardinality(asked)
            BY <2>3, FS_AddElement
          <5>2. handler[c].request \notin asked =>
                  Cardinality(asked \cup {handler[c].request}) = Cardinality(asked) + 1
            BY <2>3, FS_AddElement
          <5>3. IsFiniteSet(asked \cup {handler[c].request})
            BY <2>3, FS_AddElement
          <5> QED
            BY <2>3, <5>1, <5>2, <5>3
        <4>2. Cardinality(asked \cup {handler[c].request}) \in Nat
          BY <4>1, FS_CardinalityType
        <4> QED
          BY <2>2, <2>3, <3>2, <4>1, <4>2, MaxTasksAssumption
      <3> QED
        BY <3>1, <3>2
    <2> HIDE DEF asked, calls
    <2>5. active \subseteq asked \cup calls
      BY <2>1
    <2>6. Cardinality(active) <= Cardinality(asked \cup calls) /\ Cardinality(active) \in Nat
          /\ Cardinality(asked \cup calls) \in Nat
      <3> HIDE DEF active
      <3> QED
        BY <2>4, <2>5, FS_Subset, FS_CardinalityType
    <2> QED
      BY <2>4, <2>6, MaxTasksAssumption
  <1>2. IInv /\ (NamesDiffer => KInv) => TasksAreLimited
    BY <1>1 DEF TasksAreLimited
  <1> QED
    BY <1>2, KInvHolds, PTL

(***************************************************************************)
(* The refinement, but for its liveness.                                   *)
(***************************************************************************)
(* How far a client's request has come. *)
Stage(c, r) ==
  IF r \in DOMAIN answers[c] THEN "delivered"
  ELSE IF pc[c] = "failed" \/ ~ up THEN "lost"
  ELSE CASE task[r].step = "none"  -> "none"
         [] task[r].step = "ended" -> "resolved"
         [] OTHER                  -> "pending"

LEMMA FutureOfBatch ==
  IInv => /\ \A c \in Clients : \A r \in Batch(c) : FutureOf(r) = Stage(c, r)
          /\ \A r : (\A c \in Clients : r \notin Batch(c)) => FutureOf(r) = "none"
  <1> SUFFICES ASSUME IInv, NEW c \in Clients, NEW r \in Batch(c)
               PROVE  FutureOf(r) = Stage(c, r)
    BY DEF FutureOf
  <1>1. ClientOf(r) = c
    BY BatchesAreDisjoint DEF ClientOf, IInv
  <1> QED
    BY <1>1 DEF FutureOf, Stage

(* The answer is the request's own as soon as it is delivered.             *)
LEMMA AnswerFollows ==
  IInv /\ KInv /\ NamesDiffer =>
    \A r \in Requests : AnswerOf(r) = IF FutureOf(r) = "delivered" THEN r ELSE "nobody"
  <1> SUFFICES ASSUME IInv, KInv, NamesDiffer, NEW r \in Requests
               PROVE  AnswerOf(r) = IF FutureOf(r) = "delivered" THEN r ELSE "nobody"
    OBVIOUS
  <1>1. \A c \in Clients : r \in DOMAIN answers[c] => r \in Batch(c) /\ answers[c][r].of = r
    <2> SUFFICES ASSUME NEW c \in Clients, r \in DOMAIN answers[c]
                 PROVE  r \in Batch(c) /\ answers[c][r].of = r
      OBVIOUS
    <2>1. PICK n \in Name : Named(n, r) /\ Named(n, answers[c][r].of)
      BY DEF IInv, AnswersInv
    <2> QED
      BY <2>1, NamesTellApart DEF IInv, KInv, SentInv, Sent
  <1>2. CASE \E c \in Clients : r \in DOMAIN answers[c]
    <2>1. AnswerOf(r) = r
      BY <1>1, <1>2 DEF AnswerOf
    <2>2. FutureOf(r) = "delivered"
      BY <1>1, <1>2, FutureOfBatch DEF Stage
    <2> QED
      BY <2>1, <2>2
  <1>3. CASE \A c \in Clients : r \notin DOMAIN answers[c]
    <2>1. AnswerOf(r) = "nobody"
      BY <1>3 DEF AnswerOf
    <2>2. FutureOf(r) # "delivered"
      <3>1. CASE \E c \in Clients : r \in Batch(c)
        <4>1. PICK c \in Clients : r \in Batch(c)
          BY <3>1
        <4>2. Stage(c, r) # "delivered"
          BY <1>3 DEF Stage
        <4> QED
          BY <4>1, <4>2, FutureOfBatch
      <3>2. CASE \A c \in Clients : r \notin Batch(c)
        BY <3>2, FutureOfBatch
      <3> QED
        BY <3>1, <3>2
    <2> QED
      BY <2>1, <2>2
  <1> QED
    BY <1>2, <1>3

(* What a step of the server or of a client does to the stages: nothing,   *)
(* one request goes on, or some are lost.                                  *)
Advances == {<<"none", "pending">>, <<"pending", "resolved">>, <<"resolved", "delivered">>}

OneAdvances ==
  \E c \in Clients : \E r \in Batch(c) :
    /\ <<Stage(c, r), Stage(c, r)'>> \in Advances
    /\ \A d \in Clients : \A q \in Batch(d) : q # r => Stage(d, q)' = Stage(d, q)

SomeAreLost ==
  \A d \in Clients : \A q \in Batch(d) :
    Stage(d, q)' = Stage(d, q) \/ (Stage(d, q)' = "lost" /\ Stage(d, q) # "delivered")

LEMMA SameStages ==
  ASSUME UNCHANGED <<up, answers>>,
         \A c \in Clients : pc'[c] = "failed" <=> pc[c] = "failed",
         \A c \in Clients : \A r \in Batch(c) :
           \/ task'[r].step = task[r].step
           \/ task[r].step = "queued" /\ task'[r].step = "running"
  PROVE  SomeAreLost
  BY DEF SomeAreLost, Stage

LEMMA HandlerStages ==
  ASSUME IInv, KInv, NEW c \in Clients, HandlerStep(c)
  PROVE  OneAdvances \/ SomeAreLost
  <1>1. UNCHANGED <<job, up, answers, pc>>
    BY DEF HandlerStep, HandlerUpdate, HandlerInsert, HandlerEnqueue, client
  <1>2. CASE UNCHANGED task
    BY <1>1, <1>2, SameStages
  <1>3. CASE HandlerEnqueue(c)
    <2> DEFINE r == handler[c].request
    <2>1. /\ r \in Requests /\ r \in Batch(c) /\ r \notin DOMAIN answers[c] /\ task[r].step = "none"
      BY <1>3, CallIsForHead DEF HandlerEnqueue, KInv, CallsInv
    <2>2. task'[r].step = "queued" /\ \A q \in Requests \ {r} : task'[q] = task[q]
      BY <1>3, <2>1 DEF HandlerEnqueue, IInv, TypeInv
    <2> HIDE DEF r
    <2>3. \A d \in Clients : \A q \in Batch(d) : q # r => Stage(d, q)' = Stage(d, q)
      <3>1. \A d \in Clients : \A q \in Batch(d) : q \in Requests
        BY BatchesAreDisjoint DEF IInv
      <3> QED
        BY <1>1, <2>2, <3>1 DEF Stage
    <2>4. CASE pc[c] = "failed" \/ ~ up
      <3>1. ASSUME NEW d \in Clients, NEW q \in {r}, q \in Batch(d) PROVE Stage(d, q)' = Stage(d, q)
        <4>1. d = c
          BY <2>1, <3>1, BatchesAreDisjoint DEF IInv
        <4> QED
          BY <1>1, <2>1, <2>4, <3>1, <4>1 DEF Stage
      <3>2. \A d \in Clients : \A q \in Batch(d) : Stage(d, q)' = Stage(d, q)
        BY <2>3, <3>1
      <3> QED
        BY <3>2 DEF SomeAreLost
    <2>5. CASE pc[c] # "failed" /\ up
      <3>1. Stage(c, r) = "none"
        BY <2>1, <2>5 DEF Stage
      <3>2. ASSUME NEW q \in {r} PROVE Stage(c, q)' = "pending"
        BY <1>1, <2>1, <2>2, <2>5 DEF Stage
      <3> QED
        BY <2>1, <2>3, <3>1, <3>2 DEF OneAdvances, Advances
    <2> QED
      BY <2>4, <2>5
  <1> QED
    BY <1>2, <1>3 DEF HandlerStep, HandlerUpdate, HandlerInsert

LEMMA TaskStages ==
  ASSUME IInv, KInv, NEW r \in Requests, TaskStep(r)
  PROVE  OneAdvances \/ SomeAreLost
  <1>1. UNCHANGED <<job, answers, pc>>
    BY DEF TaskStep, StartTask, FinishTask, InsertResult, Abort, client
  <1>2. CASE Abort(r)
    <2>1. up' = FALSE
      BY <1>2 DEF Abort
    <2> QED
      BY <1>1, <2>1 DEF SomeAreLost, Stage
  <1>3. CASE StartTask(r)
    <2>1. task[r].step = "queued" /\ task' = TaskAt(r, "running") /\ UNCHANGED up
      BY <1>3 DEF StartTask
    <2>2. \A q \in Requests : task'[q].step = IF q = r THEN "running" ELSE task[q].step
      BY <2>1, TaskAtStep DEF IInv
    <2>3. \A d \in Clients : \A q \in Batch(d) : q \in Requests
      BY BatchesAreDisjoint DEF IInv
    <2> QED
      BY <1>1, <2>1, <2>2, <2>3, SameStages
  <1>4. CASE FinishTask(r)
    <2>1. task[r].step = "running" /\ UNCHANGED up /\ task[r].name \in DOMAIN table
      BY <1>4 DEF FinishTask, KInv, ActiveTasksInv
    <2>2. task' = TaskAt(r, "ended")
      BY <1>4, <2>1 DEF FinishTask
    <2>3. \A q \in Requests : task'[q].step = IF q = r THEN "ended" ELSE task[q].step
      BY <2>2, TaskAtStep DEF IInv
    <2>4. \A d \in Clients : \A q \in Batch(d) : q \in Requests
      BY BatchesAreDisjoint DEF IInv
    <2>5. \A d \in Clients : \A q \in Batch(d) : q # r => Stage(d, q)' = Stage(d, q)
      BY <1>1, <2>1, <2>3, <2>4 DEF Stage
    <2>6. CASE \A d \in Clients : r \in Batch(d) => Stage(d, r)' = Stage(d, r)
      BY <2>5, <2>6 DEF SomeAreLost
    <2>7. ASSUME NEW c \in Clients, r \in Batch(c), Stage(c, r)' # Stage(c, r) PROVE OneAdvances
      <3>1. Stage(c, r) = "pending" /\ Stage(c, r)' = "resolved"
        BY <1>1, <2>1, <2>3, <2>7 DEF Stage
      <3> QED
        BY <2>5, <2>7, <3>1 DEF OneAdvances, Advances
    <2> QED
      BY <2>6, <2>7
  <1>5. CASE InsertResult(r)
    BY <1>5 DEF InsertResult, KInv, ActiveTasksInv
  <1> QED
    BY <1>2, <1>3, <1>4, <1>5 DEF TaskStep

(* What Poll hands over comes from a task that has ended.                  *)
LEMMA DeliverStages ==
  ASSUME IInv, KInv, NamesDiffer, NEW c \in Clients, NEW name \in toPoll[c],
         up, pc[c] = "poll", name \in DOMAIN table, table[name].done, Poll(c, name)
  PROVE  OneAdvances
  <1> DEFINE r == owner[c][name]
  <1>1. /\ UNCHANGED <<job, up, task, pc>>
        /\ answers' = [answers EXCEPT ![c] = With(@, r, table[name].result)]
    BY DEF Poll, Deliver
  <1>2. \A d \in Clients : DOMAIN answers'[d] = IF d = c THEN DOMAIN answers[c] \cup {r} ELSE DOMAIN answers[d]
    BY <1>1 DEF IInv, TypeInv, With
  <1>3. name \in waiting[c] /\ name \in Awaited(c)
    BY DEF KInv, ControlInv, Awaited
  <1>4. r \in Sent(c) /\ r \in Batch(c) /\ task[r].name = name /\ r \notin DOMAIN answers[c]
    BY <1>3 DEF KInv, SentInv, Sent
  <1>5. Named(name, r)
    BY <1>3 DEF IInv, OwnersInv
  <1>6. task[r].step = "ended"
    <2>1. PICK d \in Clients : \E q \in Batch(d) : IsEntryOf(name, d, q)
      BY DEF KInv, EntriesInv
    <2>2. PICK q \in Batch(d) : IsEntryOf(name, d, q)
      BY <2>1
    <2>3. q = r
      BY <1>5, <2>2, NamesTellApart DEF IInv, IsEntryOf
    <2> QED
      BY <2>2, <2>3 DEF IsEntryOf
  <1> HIDE DEF r
  <1>7. Stage(c, r) = "resolved"
    BY <1>4, <1>6 DEF Stage
  <1>8. ASSUME NEW q \in {r} PROVE Stage(c, q)' = "delivered"
    BY <1>2 DEF Stage
  <1>9. ASSUME NEW d \in Clients, NEW q \in Batch(d), q # r PROVE Stage(d, q)' = Stage(d, q)
    <2>1. q \in DOMAIN answers'[d] <=> q \in DOMAIN answers[d]
      BY <1>2, <1>9
    <2> QED
      BY <1>1, <2>1 DEF Stage
  <1> QED
    BY <1>4, <1>7, <1>8, <1>9 DEF OneAdvances, Advances

LEMMA ClientStages ==
  ASSUME IInv, KInv, NamesDiffer, NEW c \in Clients, ClientStep(c) \/ Cut(c)
  PROVE  OneAdvances \/ SomeAreLost
  <1>1. CASE /\ UNCHANGED <<up, answers, task>>
             /\ \A d \in Clients : pc[d] = "failed" => pc'[d] = "failed"
    BY <1>1 DEF SomeAreLost, Stage
  <1>2. ASSUME NEW step \in ControlStates, pc' = [pc EXCEPT ![c] = step], pc[c] # "failed"
        PROVE  \A d \in Clients : pc[d] = "failed" => pc'[d] = "failed"
    BY <1>2 DEF KInv, MoreTypeInv
  <1>3. CASE Submit(c) \/ Receive(c) \/ CallBroken(c) \/ BeginRound(c) \/ EndRound(c) \/ Return(c) \/ Cut(c)
    <2>1. UNCHANGED <<up, answers, task>> /\ pc[c] # "failed"
          /\ \E step \in ControlStates : pc' = [pc EXCEPT ![c] = step]
      BY <1>3 DEF Submit, Receive, CallBroken, BeginRound, EndRound, Return, Cut, Fails, server, ControlStates
    <2> QED
      BY <1>1, <1>2, <2>1
  <1>4. ASSUME NEW name \in toPoll[c], Poll(c, name) PROVE OneAdvances \/ SomeAreLost
    <2>1. CASE up /\ name \in DOMAIN table /\ table[name].done
      BY <1>4, <2>1, DeliverStages DEF Poll
    <2>2. CASE ~ (up /\ name \in DOMAIN table /\ table[name].done)
      <3>1. UNCHANGED <<up, answers, task>> /\ (UNCHANGED pc \/ pc' = [pc EXCEPT ![c] = "failed"]) /\ pc[c] = "poll"
        BY <1>4, <2>2 DEF Poll, Fails
      <3> QED
        BY <1>1, <1>2, <3>1 DEF ControlStates
    <2> QED
      BY <2>1, <2>2
  <1> QED
    BY <1>3, <1>4 DEF ClientStep

LEMMA NextStages ==
  ASSUME IInv, KInv, NamesDiffer, [Next]_vars
  PROVE  OneAdvances \/ SomeAreLost
  <1>1. CASE Tick \/ UNCHANGED vars
    BY <1>1 DEF Tick, vars, server, client, SomeAreLost, Stage
  <1> QED
    BY <1>1, HandlerStages, TaskStages, ClientStages DEF Next

(* No request has a task or an answer at the start. *)
LEMMA FuturesInit == Init /\ NamesDiffer => F!Init
  <1> SUFFICES ASSUME Init, NamesDiffer, NEW r \in Requests
               PROVE  FutureOf(r) = "none" /\ AnswerOf(r) = "nobody"
    BY DEF F!Init, F!NoAnswer
  <1>1. IInv /\ KInv
    BY InitInv, InitKeeps
  <1>2. \A c \in Clients : Stage(c, r) = "none"
    BY DEF Init, Stage
  <1>3. FutureOf(r) = "none"
    BY <1>1, <1>2, FutureOfBatch
  <1> QED
    BY <1>1, <1>3, AnswerFollows

(* Every step maps to a step of the futures, or to none.                   *)
LEMMA FuturesNext ==
  IInv /\ KInv /\ NamesDiffer /\ IInv' /\ KInv' /\ NamesDiffer' /\ [Next]_vars => [F!Next]_(F!vars)
  <1> SUFFICES ASSUME IInv, KInv, NamesDiffer, IInv', KInv', NamesDiffer', [Next]_vars
               PROVE  [F!Next]_(F!vars)
    OBVIOUS
  <1>1. \A c \in Clients : Batch(c)' = Batch(c)
    BY JobStays DEF Batch
  <1>2. /\ \A c \in Clients : \A r \in Batch(c) : FutureOf(r) = Stage(c, r)
        /\ \A r : (\A c \in Clients : r \notin Batch(c)) => FutureOf(r) = "none"
    BY FutureOfBatch
  <1>3. (/\ \A c \in Clients : \A r \in Batch(c) : FutureOf(r) = Stage(c, r)
         /\ \A r : (\A c \in Clients : r \notin Batch(c)) => FutureOf(r) = "none")'
    BY FutureOfBatch, PTL
  <1>4. \A r \in Requests : AnswerOf(r) = IF FutureOf(r) = "delivered" THEN r ELSE "nobody"
    BY AnswerFollows
  <1>5. (\A r \in Requests : AnswerOf(r) = IF FutureOf(r) = "delivered" THEN r ELSE "nobody")'
    BY AnswerFollows, PTL
  <1>6. CASE OneAdvances
    <2>1. PICK c \in Clients : \E r \in Batch(c) :
            /\ <<Stage(c, r), Stage(c, r)'>> \in Advances
            /\ \A d \in Clients : \A q \in Batch(d) : q # r => Stage(d, q)' = Stage(d, q)
      BY <1>6 DEF OneAdvances
    <2>2. PICK r \in Batch(c) :
            /\ <<Stage(c, r), Stage(c, r)'>> \in Advances
            /\ \A d \in Clients : \A q \in Batch(d) : q # r => Stage(d, q)' = Stage(d, q)
      BY <2>1
    <2>3. r \in Requests
      BY BatchesAreDisjoint DEF IInv
    <2>4. <<FutureOf(r), FutureOf(r)'>> \in Advances
      BY <1>1, <1>2, <1>3, <2>2
    <2>5. \A q \in Requests \ {r} : FutureOf(q)' = FutureOf(q)
      BY <1>1, <1>2, <1>3, <2>2
    <2>6. \A q \in Requests \ {r} : AnswerOf(q)' = AnswerOf(q)
      BY <1>4, <1>5, <2>5
    <2>7. CASE FutureOf(r) = "none" /\ FutureOf(r)' = "pending"
      <3>1. AnswerOf(r)' = AnswerOf(r)
        BY <1>4, <1>5, <2>3, <2>7
      <3>2. F!Accept(r)
        BY <2>3, <2>5, <2>6, <2>7, <3>1 DEF F!Accept
      <3> QED
        BY <2>3, <3>2 DEF F!Next
    <2>8. CASE FutureOf(r) = "pending" /\ FutureOf(r)' = "resolved"
      <3>1. AnswerOf(r)' = AnswerOf(r)
        BY <1>4, <1>5, <2>3, <2>8
      <3>2. F!Resolve(r)
        BY <2>3, <2>5, <2>6, <2>8, <3>1 DEF F!Resolve
      <3> QED
        BY <2>3, <3>2 DEF F!Next
    <2>9. CASE FutureOf(r) = "resolved" /\ FutureOf(r)' = "delivered"
      <3>1. AnswerOf(r)' = r
        BY <1>5, <2>3, <2>9
      <3>2. F!Deliver(r)
        BY <2>3, <2>5, <2>6, <2>9, <3>1 DEF F!Deliver
      <3> QED
        BY <2>3, <3>2 DEF F!Next
    <2> QED
      BY <2>4, <2>7, <2>8, <2>9 DEF Advances
  <1>7. CASE SomeAreLost
    <2> DEFINE S == {r \in Requests : FutureOf(r)' # FutureOf(r)}
    <2>1. ASSUME NEW r \in S PROVE FutureOf(r)' = "lost" /\ FutureOf(r) # "delivered"
      <3>1. CASE \E c \in Clients : r \in Batch(c)
        BY <1>1, <1>2, <1>3, <1>7, <3>1 DEF SomeAreLost
      <3>2. CASE \A c \in Clients : r \notin Batch(c)
        BY <1>1, <1>2, <1>3, <3>2
      <3> QED
        BY <3>1, <3>2
    <2>2. \A r \in Requests : AnswerOf(r)' = AnswerOf(r)
      BY <1>4, <1>5, <2>1
    <2>3. F!Lose(S)
      BY <2>1, <2>2 DEF F!Lose
    <2> QED
      BY <2>3 DEF F!Next
  <1> QED
    BY <1>6, <1>7, NextStages

(* Where names are distinct, the table, the tasks and the polling clients  *)
(* implement one future per request: resolved once, delivered once, with   *)
(* the request's own result, and lost only with its client or the server.  *)
(* (That it is delivered at all is checked by TLC.)                        *)
THEOREM ImplementsFuturesSafely ==
  Spec => (NamesDiffer => F!Init /\ [][F!Next]_(F!vars))
  <1>1. Spec => [](IInv /\ (NamesDiffer => KInv))
    BY KInvHolds
  <1>2. Spec /\ NamesDiffer => []NamesDiffer
    <2>1. NamesDiffer /\ [Next]_vars => NamesDiffer'
      BY NamesStayDifferent
    <2> QED
      BY <2>1, PTL DEF Spec
  <1> QED
    BY <1>1, <1>2, FuturesInit, FuturesNext, PTL DEF Spec
=============================================================================
