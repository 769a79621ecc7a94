----------------------------- MODULE LongRunning -----------------------------
(***************************************************************************)
(* The long-running operations all five servers share: a server's RPC      *)
(* handlers and background tasks around its operations table               *)
(* (common/src/operations_service.cc), and the command line clients that   *)
(* submit a batch and poll for it (cli/operations/wait.py).                *)
(*                                                                         *)
(* A handler runs on a gRPC thread of its own, a task on a TBB worker, and *)
(* UpdateOperation holds the table's accessor only when it finds the name: *)
(* the find that misses and the insert that follows are two steps.         *)
(*                                                                         *)
(* A scenario is a record:                                                 *)
(*   service     "bitcode", "eesi", "getgraph", "checker" or "walker"      *)
(*   batch       client -> sequence of the requests it submits             *)
(*   asked       request -> what it asks for, as far as a name is built of *)
(*               it: [type, input, length, walks], of which input, length  *)
(*               and walks are sequences of characters                     *)
(*   unreadable  the requests whose input the task cannot read             *)
(*   orphan      the requests without a bitcode authority                  *)
(*   mayFail     the clients that may be killed or cut off                 *)
(* A request is in at most one batch, once: id_requests is a dictionary.   *)
(* Requests that differ in what no name contains (domain knowledge,        *)
(* specifications, the URI of the output) ask for the same in a scenario.  *)
(***************************************************************************)
EXTENDS Naturals, Sequences, FiniteSets, Functions

CONSTANTS Clients, Requests, Scenarios,
          MaxTasks,     \* --max-tasks of the clients
          NumWorkers,   \* TBB's worker threads
          MaxTime       \* bound: seconds that pass while the clients run

(* Every scenario has a batch for each client, with no request twice.      *)
ASSUME ScenariosAssumption ==
  \A s \in Scenarios :
    /\ s.batch \in [Clients -> Seq(Requests)]
    /\ \A c \in Clients : IsInjective(s.batch[c])
    /\ \A c, d \in Clients : c # d => Range(s.batch[c]) \cap Range(s.batch[d]) = {}

ASSUME MaxTasksAssumption == MaxTasks \in Nat

VARIABLES
  job,        \* the scenario
  clock,      \* std::time, in seconds
  up,         \* is the server process running
  table,      \* operation_progress_
  handler,    \* client -> its RPC in the server: [step, request, name]
  task,       \* request -> its background task: [step, name]
  pc,         \* client -> "submit", "calling", "poll", "done" or "failed"
  unsent,     \* id_requests, in the dictionary's order
  waiting,    \* waiting_for_results
  toPoll,     \* the names this polling round has not asked for yet
  finished,   \* finished_tasks
  owner,      \* task_id and task_requests: name -> request
  answers,    \* id_finished_responses
  stored      \* what notify has inserted into the database, in order

server == <<up, table, handler, task>>
client == <<pc, unsent, waiting, toPoll, finished, owner, answers, stored>>
vars == <<job, clock, server, client>>

(***************************************************************************)
(* The services.                                                           *)
(***************************************************************************)
(* GetTaskName appends the second; the checker and the walker do not.      *)
Clocked == job.service \in {"bitcode", "eesi", "getgraph"}

(* The bitcode server has four operations, the checker two types of        *)
(* violations; the others have one operation.                              *)
Typed(j) == j.service \in {"bitcode", "checker"}

(* Mutant: the checker leaves the type of the violations out of the name.  *)
OperationTypeUnlessChecker(j, r) ==
  IF j.service = "bitcode" THEN j.asked[r].type ELSE "the only one"

OperationType(j, r) == IF Typed(j) THEN j.asked[r].type ELSE "the only one"

(* Mutant: the input is left out of the name. *)
NoParameters(j, r) == << >>

(* The identifier of a bitcode file; or, joined without separators (and    *)
(* then hashed), the URI of the graph, the length and the number of walks. *)
Parameters(j, r) ==
  IF j.service = "walker" THEN j.asked[r].input \o j.asked[r].length \o j.asked[r].walks
  ELSE j.asked[r].input

TaskName(r) == [type |-> OperationType(job, r), parameters |-> Parameters(job, r),
                stamp |-> IF Clocked THEN clock ELSE 0]

(* Is this the name of the request, built at some time?                    *)
Names(j, name, r) == name.type = OperationType(j, r) /\ name.parameters = Parameters(j, r)

ChecksAuthority == job.service \in {"eesi", "getgraph", "checker"}

(* What the task of an unreadable input does: publish an error, publish    *)
(* one without setting done, or abort the process.                         *)
OnUnreadable ==
  CASE job.service \in {"bitcode", "walker"} -> "error"
    [] job.service = "checker"               -> "undone"
    [] OTHER                                 -> "abort"

Notifies == job.service \in {"bitcode", "eesi", "checker"}

(***************************************************************************)
(* The operations table.                                                   *)
(***************************************************************************)
NoResult    == [kind |-> "none", of |-> "nobody"]
Pending     == [done |-> FALSE, result |-> NoResult]

Published(r) ==
  [done   |-> ~ (r \in job.unreadable /\ OnUnreadable = "undone"),
   result |-> [kind |-> IF r \in job.unreadable THEN "error" ELSE "response", of |-> r]]

(* Mutants: an operation can be unfinished; it is never updated. *)
OverwritingDone(existing, operation) == operation
NeverUpdating(existing, operation) == existing

(* UpdateOperation on a name it finds. *)
Updating(existing, operation) ==
  IF existing.done /\ ~ operation.done THEN existing ELSE operation

(* Its insert changes nothing when the name is there after all.            *)
Inserting(name, operation) ==
  [n \in DOMAIN table \cup {name} |-> IF n \in DOMAIN table THEN table[n] ELSE operation]

Update(name, operation) ==
  table' = [table EXCEPT ![name] = Updating(@, operation)]

(* Mutant: results are kept. *)
KeepingResults(name) == table

(* GetOperation: what is done is erased with the answer. *)
AfterGet(name) ==
  IF table[name].done THEN Restrict(table, DOMAIN table \ {name}) ELSE table

NoName == [type |-> "none", parameters |-> << >>, stamp |-> 0]

Idle == [step |-> "idle", request |-> "nobody", name |-> NoName]

Init ==
  /\ job \in Scenarios
  /\ clock = 0 /\ up = TRUE /\ table = [n \in {} |-> Pending]
  /\ handler = [c \in Clients |-> Idle]
  /\ task = [r \in Requests |-> [step |-> "none", name |-> NoName]]
  /\ pc = [c \in Clients |-> "submit"]
  /\ unsent = job.batch
  /\ waiting = [c \in Clients |-> {}]
  /\ toPoll = [c \in Clients |-> {}] /\ finished = [c \in Clients |-> {}]
  /\ owner = [c \in Clients |-> << >>] /\ answers = [c \in Clients |-> << >>]
  /\ stored = << >>

With(f, key, value) == [k \in DOMAIN f \cup {key} |-> IF k = key THEN value ELSE f[k]]

Tick == clock < MaxTime /\ clock' = clock + 1 /\ UNCHANGED <<job, server, client>>

(***************************************************************************)
(* RPC handlers.  GetTaskName is part of the call.                         *)
(***************************************************************************)
HandlerAt(c, step) == [handler EXCEPT ![c].step = step]

(* Mutant: a new operation is not entered in the table. *)
HandlerUpdateOnly(c) ==
  /\ handler[c].step = "update"
  /\ IF handler[c].name \in DOMAIN table THEN Update(handler[c].name, Pending)
     ELSE UNCHANGED table
  /\ handler' = HandlerAt(c, "enqueue")
  /\ UNCHANGED <<job, clock, up, task, client>>

HandlerUpdate(c) ==
  /\ handler[c].step = "update"
  /\ IF handler[c].name \in DOMAIN table
     THEN Update(handler[c].name, Pending) /\ handler' = HandlerAt(c, "enqueue")
     ELSE UNCHANGED table /\ handler' = HandlerAt(c, "insert")
  /\ UNCHANGED <<job, clock, up, task, client>>

HandlerInsert(c) ==
  /\ handler[c].step = "insert"
  /\ table' = Inserting(handler[c].name, Pending)
  /\ handler' = HandlerAt(c, "enqueue")
  /\ UNCHANGED <<job, clock, up, task, client>>

(* tbb::task::enqueue, after which the reply is sent. *)
HandlerEnqueue(c) ==
  /\ handler[c].step = "enqueue"
  /\ task' = [task EXCEPT ![handler[c].request] = [step |-> "queued", name |-> handler[c].name]]
  /\ handler' = HandlerAt(c, "reply")
  /\ UNCHANGED <<job, clock, up, table, client>>

HandlerStep(c) == HandlerUpdate(c) \/ HandlerInsert(c) \/ HandlerEnqueue(c)

(***************************************************************************)
(* Background tasks.                                                       *)
(***************************************************************************)
TaskAt(r, step) == [task EXCEPT ![r].step = step]

Working == {r \in Requests : task[r].step \in {"running", "insert"}}

StartTask(r) ==
  /\ task[r].step = "queued" /\ Cardinality(Working) < NumWorkers
  /\ task' = TaskAt(r, "running")
  /\ UNCHANGED <<job, clock, up, table, handler, client>>

(* The task ends with the UpdateOperation of its result. *)
FinishTask(r) ==
  /\ task[r].step = "running"
  /\ ~ (r \in job.unreadable /\ OnUnreadable = "abort")
  /\ IF task[r].name \in DOMAIN table
     THEN Update(task[r].name, Published(r)) /\ task' = TaskAt(r, "ended")
     ELSE UNCHANGED table /\ task' = TaskAt(r, "insert")
  /\ UNCHANGED <<job, clock, up, handler, client>>

InsertResult(r) ==
  /\ task[r].step = "insert"
  /\ table' = Inserting(task[r].name, Published(r))
  /\ task' = TaskAt(r, "ended")
  /\ UNCHANGED <<job, clock, up, handler, client>>

(* abort() takes the table, the handlers and all other tasks with it.      *)
Abort(r) ==
  /\ task[r].step = "running" /\ r \in job.unreadable /\ OnUnreadable = "abort"
  /\ up' = FALSE /\ table' = [n \in {} |-> Pending]
  /\ handler' = [c \in Clients |-> Idle]
  /\ task' = [q \in Requests |-> [task[q] EXCEPT !.step = IF @ = "none" THEN @ ELSE "ended"]]
  /\ UNCHANGED <<job, clock, client>>

TaskStep(r) == StartTask(r) \/ FinishTask(r) \/ InsertResult(r) \/ Abort(r)

(***************************************************************************)
(* Clients: wait_for_operations.  An RPC error is an exception that ends   *)
(* the client.                                                             *)
(***************************************************************************)
Fails(c) ==
  /\ pc' = [pc EXCEPT ![c] = "failed"]
  /\ UNCHANGED <<unsent, waiting, toPoll, finished, owner, answers, stored>>

(* Mutant: one task more than the limit. *)
MaySubmitOneMore(c) == unsent[c] # << >> /\ Cardinality(waiting[c]) <= MaxTasks

MaySubmit(c) == unsent[c] # << >> /\ Cardinality(waiting[c]) < MaxTasks

Submit(c) ==
  /\ pc[c] = "submit" /\ MaySubmit(c)
  /\ LET r == Head(unsent[c])
     IN IF ~ up \/ (ChecksAuthority /\ r \in job.orphan)
        THEN Fails(c) /\ UNCHANGED handler
        ELSE /\ pc' = [pc EXCEPT ![c] = "calling"]
             /\ handler' = [handler EXCEPT ![c] =
                              [step |-> "update", request |-> r, name |-> TaskName(r)]]
             /\ UNCHANGED <<unsent, waiting, toPoll, finished, owner, answers, stored>>
  /\ UNCHANGED <<job, clock, up, table, task>>

Receive(c) ==
  /\ pc[c] = "calling" /\ handler[c].step = "reply"
  /\ pc' = [pc EXCEPT ![c] = "submit"]
  /\ waiting' = [waiting EXCEPT ![c] = @ \cup {handler[c].name}]
  /\ owner' = [owner EXCEPT ![c] = With(@, handler[c].name, handler[c].request)]
  /\ unsent' = [unsent EXCEPT ![c] = Tail(@)]
  /\ handler' = [handler EXCEPT ![c] = Idle]
  /\ UNCHANGED <<job, clock, up, table, task, toPoll, finished, answers, stored>>

BeginRound(c) ==
  /\ pc[c] = "submit" /\ ~ MaySubmit(c) /\ (waiting[c] # {} \/ unsent[c] # << >>)
  /\ pc' = [pc EXCEPT ![c] = "poll"]
  /\ toPoll' = [toPoll EXCEPT ![c] = waiting[c]]
  /\ UNCHANGED <<job, clock, server, unsent, waiting, finished, owner, answers, stored>>

(* notify's Unpack of an operation without a response leaves the default.  *)
Unpacked(result) ==
  IF result.kind = "response" THEN result ELSE [kind |-> "empty", of |-> result.of]

(* A finished operation is remembered and notified. *)
Deliver(c, name, result) ==
  LET r == owner[c][name]
  IN /\ answers' = [answers EXCEPT ![c] = With(@, r, result)]
     /\ finished' = [finished EXCEPT ![c] = @ \cup {name}]
     /\ stored' = IF Notifies THEN Append(stored, [request |-> r, entry |-> Unpacked(result)])
                  ELSE stored

(* GetOperation, in the server, and what the client does with the answer.  *)
Poll(c, name) ==
  /\ pc[c] = "poll" /\ name \in toPoll[c]
  /\ IF up /\ name \in DOMAIN table
     THEN /\ IF table[name].done THEN Deliver(c, name, table[name].result)
             ELSE UNCHANGED <<answers, finished, stored>>
          /\ table' = AfterGet(name)
          /\ toPoll' = [toPoll EXCEPT ![c] = @ \ {name}]
          /\ UNCHANGED <<pc, unsent, waiting, owner>>
     ELSE Fails(c) /\ UNCHANGED table
  /\ UNCHANGED <<job, clock, up, handler, task>>

EndRound(c) ==
  /\ pc[c] = "poll" /\ toPoll[c] = {}
  /\ waiting' = [waiting EXCEPT ![c] = @ \ finished[c]]
  /\ finished' = [finished EXCEPT ![c] = {}]
  /\ pc' = [pc EXCEPT ![c] = "submit"]
  /\ UNCHANGED <<job, clock, server, unsent, toPoll, owner, answers, stored>>

(* Mutant: while waiting_for_results and id_requests. *)
ReturnEarly(c) ==
  /\ pc[c] = "submit" /\ (waiting[c] = {} \/ unsent[c] = << >>)
  /\ pc' = [pc EXCEPT ![c] = "done"]
  /\ UNCHANGED <<job, clock, server, unsent, waiting, toPoll, finished, owner, answers, stored>>

Return(c) ==
  /\ pc[c] = "submit" /\ waiting[c] = {} /\ unsent[c] = << >>
  /\ pc' = [pc EXCEPT ![c] = "done"]
  /\ UNCHANGED <<job, clock, server, unsent, waiting, toPoll, finished, owner, answers, stored>>

(* The server went down during the call. *)
CallBroken(c) ==
  /\ pc[c] = "calling" /\ ~ up
  /\ Fails(c)
  /\ UNCHANGED <<job, clock, server>>

ClientStep(c) ==
  \/ Submit(c) \/ Receive(c) \/ CallBroken(c) \/ BeginRound(c)
  \/ (\E name \in toPoll[c] : Poll(c, name)) \/ EndRound(c) \/ Return(c)

(* Killed, or cut off: a handler in the server goes on, and an answer that *)
(* was under way is lost after the server has erased it.                   *)
Cut(c) ==
  /\ c \in job.mayFail /\ pc[c] \notin {"done", "failed"}
  /\ Fails(c)
  /\ table' \in {table} \cup {AfterGet(name) : name \in toPoll[c] \cap DOMAIN table}
  /\ UNCHANGED <<job, clock, up, handler, task>>

Next ==
  \/ Tick
  \/ \E c \in Clients : ClientStep(c) \/ HandlerStep(c) \/ Cut(c)
  \/ \E r \in Requests : TaskStep(r)

(* Every thread of the server and every client that is not cut off runs.   *)
Fairness ==
  /\ \A c \in Clients : WF_vars(ClientStep(c)) /\ WF_vars(HandlerStep(c))
  /\ \A r \in Requests : WF_vars(TaskStep(r))

Spec == Init /\ [][Next]_vars /\ Fairness

(***************************************************************************)
(* Properties.                                                             *)
(***************************************************************************)
Batch(c) == Range(job.batch[c])

(* No two requests build the same task name.  Where they do, a client may  *)
(* find its entry erased by another, and get NotFound or its answer.       *)
NamesDiffer ==
  \A r, s \in Requests :
    /\ OperationType(job, r) = OperationType(job, s)
    /\ Parameters(job, r) = Parameters(job, s)
    => r = s

(* The server knows every operation a client is still waiting for, whether *)
(* its task is queued, running or done: no poll ends in an exception, even *)
(* when another client is killed.                                          *)
WaitingIsKnown ==
  NamesDiffer /\ up =>
    \A c \in Clients : pc[c] # "failed" => waiting[c] \ finished[c] \subseteq DOMAIN table

(* operations_service.cc 9-10: "Once an operation is finished it can never *)
(* be unfinished" as long as it is in the table.                           *)
FinishedStaysFinished ==
  [][\A n \in DOMAIN table \cap DOMAIN table' : table[n].done => table'[n].done]_table

(* Where no two requests build the same name, an answer is the result of   *)
(* the client's own request, even when clients are killed or tasks fail.   *)
(* Where some do, it may be another's, but one of the same type (as        *)
(* checker_server.cc 129-130 wants it) and for the same bitcode file: with *)
(* other domain knowledge or specifications perhaps.  Of the walker's,     *)
(* which join numbers without a separator, nothing is said in that case.   *)
AnswersAreOwn ==
  \A c \in Clients : \A r \in DOMAIN answers[c] :
    LET q == answers[c][r].of
    IN /\ NamesDiffer => q = r
       /\ job.service # "walker" => job.asked[q].input = job.asked[r].input
       /\ Typed(job) => job.asked[q].type = job.asked[r].type

(* wait.py 31: a client that returns has an answer for its whole batch, and*)
(* the database has been given each of them once.                          *)
BatchIsComplete ==
  NamesDiffer =>
    \A c \in Clients : pc[c] = "done" =>
      /\ DOMAIN answers[c] = Batch(c)
      /\ \A r \in Batch(c) :
           Cardinality({i \in DOMAIN stored : stored[i].request = r}) = IF Notifies THEN 1 ELSE 0

(* wait.py 37: no more than max_tasks of a client's tasks are in the       *)
(* server, queued, running or about to publish.  (A client that gets the   *)
(* result of another's task for a request of its own moves on to the next  *)
(* one while its own task is still there.)                                 *)
TasksAreLimited ==
  NamesDiffer => \A c \in Clients :
    Cardinality({r \in Batch(c) : task[r].step \in {"queued", "running", "insert"}}) <= MaxTasks

(* operations_service.cc 33: results are not cached.  Once a client has an *)
(* answer the table has no entry for the request, and gets none later from *)
(* the handler or the task.  (The entries of a client that was killed      *)
(* before it had its answers stay for good: this is not about them.)       *)
NothingIsLeft ==
  NamesDiffer =>
    \A c \in Clients : \A r \in DOMAIN answers[c] :
      \A name \in DOMAIN table : ~ Names(job, name, r)

(* Every client comes to an end.                                           *)
ClientsEnd == \A c \in Clients : <>(pc[c] \in {"done", "failed"})

(* proto/operations.proto 47: an operation that is not done has no result. *)
UndoneHasNoResult == \A n \in DOMAIN table : ~ table[n].done => table[n].result = NoResult

(***************************************************************************)
(* As futures.                                                             *)
(***************************************************************************)
ClientOf(r) == CHOOSE c \in Clients : r \in Batch(c)

FutureOf(r) ==
  IF \A c \in Clients : r \notin Batch(c) THEN "none"
  ELSE IF r \in DOMAIN answers[ClientOf(r)] THEN "delivered"
  ELSE IF pc[ClientOf(r)] = "failed" \/ ~ up THEN "lost"
  ELSE CASE task[r].step = "none"  -> "none"
         [] task[r].step = "ended" -> "resolved"
         [] OTHER                  -> "pending"

AnswerOf(r) ==
  IF \E c \in Clients : r \in DOMAIN answers[c]
  THEN answers[CHOOSE c \in Clients : r \in DOMAIN answers[c]][r].of
  ELSE "nobody"

F == INSTANCE Futures WITH future <- [r \in Requests |-> FutureOf(r)],
                           answer <- [r \in Requests |-> AnswerOf(r)]

(* Where names are distinct, the table and the polling implement a future  *)
(* for each request.                                                       *)
ImplementsFutures == F!Spec
=============================================================================
