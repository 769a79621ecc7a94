# A verification of EESI and its services

The repository infers *error specifications* of C functions (which return
values mean failure) from LLVM bitcode, and checks programs against them. It is
a set of gRPC servers in C++ and Python and a command line client that keeps
results in MongoDB. This directory holds TLA+ modules that model it, the TLC
configurations that check them, and TLAPS proofs about them. `src/...` below is
the root of the repository.

## The system

| part | state | operations | talks to |
|---|---|---|---|
| bitcode server (`bitcode/`) | registered files by hash, operations table | RegisterBitcode, Annotate, Get*Functions (long-running), DownloadBitcode (stream) | file system |
| EESI server (`eesi/`) | operations table; per request: specifications, returning codes, non-doomed functions | GetSpecifications (long-running) | bitcode server (stream), embedding service |
| checker server (`checker/`) | operations table | GetViolations (long-running) | bitcode server |
| getgraph server (`getgraph/`) | operations table | GetGraph (long-running) | bitcode server, file system |
| walker server (`walker/`) | operations table; pushdown system of one request | RandomWalk (streaming and long-running) | file system |
| embedding service (`embedding/service.py`) | registered embeddings | RegisterEmbedding, GetMostSimilar, GetVocabulary | - |
| command line (`cli/`) | a batch of requests, what was answered; MongoDB | one command per RPC | all servers, database |
| common (`common/`) | `operation_progress_` (the operations table of each server) | UpdateOperation, GetOperation, GetTaskName | - |

The servers interact in two ways. A *long-running* RPC enters an operation in
the server's table, enqueues a TBB task and returns the operation's name; the
client polls `GetOperation` until it is done, which also erases it. And the
tasks of the EESI, checker and getgraph servers *download* the bitcode file
from the bitcode server.

Inside the EESI server, `GetSpecifications` runs `ErrorBlocksPass`, which

1. takes facts from dataflow passes (what a block may return, what it is
   constrained by, the range of a function),
2. visits the functions bottom-up by strongly connected component, each
   component repeated while a specification changes,
3. where an embedding is configured, expands the functions of the component
   that are still unknown from the specifications of similar ones,
4. and keeps specifications as *confidences* (0 to 100 for each of negative,
   zero and positive, and for "returns no error at all"), which refine the
   eight elements of the *sign lattice*.

What is hard here, and was looked for: the order in which functions of a
recursive component and of an expansion are visited; a loop whose exit
condition watches one of the tables it computes; weakening, which makes updates
non-monotone with an embedding; hand-written lattice tables; threads of a
server meeting in the operations table between a find and an insert; facts that
one instruction writes into another block; files that change under a registry;
a return stack that one shortcut goes around; names that are reused; answers that are erased before they are delivered; errors that are
published but not finished; clients and servers that go down midway.
`PROJECT.json` lists these hazards at their lines.

What makes each part correct:

- lattices: the tables describe one lattice, and confidences refine it;
- ErrorBlocksPass: domain knowledge is kept, no function is claimed to fail on
  its whole range, what it stops with is a fixpoint and is justified by it, and
  it stops;
- dataflow passes: whatever an execution does is covered by the facts at the
  point where it does it, in whatever order blocks and functions are visited,
  and the loops end;
- checkers: what an execution has tested is not reported as untested;
- operations: a client gets the answers to its own requests, all of them, once,
  whatever else the server is doing, and nothing is left behind;
- registry and database: every handle and every entry can be accounted for by a
  file that was there, and a command that ends well has covered every file;
- flow graph and walker: sentences are written whole, and a walk that returns
  goes back to where it was called from.

## Modules

| module | models | notes |
|---|---|---|
| `SignLattice` | `eesi/src/constraint.cc` | the bit matrices as sets of elements, transcribed and not computed; `Gamma` is their meaning |
| `ConfidenceLattice` | `eesi/src/confidence_lattice.cc`, `.h` | a record of three sign confidences and the emptyset confidence; `kMaxConfidence` is a parameter |
| `SpecificationUpdate` | `UpdateErrorSpecification` | the pure part: limit, join, compare, weaken |
| `ErrorSpecification` | `VisitCallInst`, `VisitBlock`, `RunOnFunction`, evidence of an expansion | pure operators; LLVM values are records that keep what the pass tells apart; facts of the dataflow passes are inputs attached to blocks |
| `ErrorBlocks` | `runOnModule`, `SetSpecificationsRequest`, `ExpandErrorSpecification` | the state machine; one variable per table of the pass |
| `ErrorBlocksPrograms` | - | builds small programs: bodies, call graph, component order, return ranges |
| `Ir` | `common/src/llvm.cc`, `AbstractInteger` | a body as a sequence of blocks of instructions, its control flow edges, and the points at which facts are kept |
| `ReturnPropagation`, `ReturnConstraints`, `ReturnedValues`, `ReturnRange` | `eesi/src/return_propagation_pass.cc`, `return_constraints_pass.cc`, `returned_values_pass.cc`, `return_range_pass.cc` | transfer functions and joins: operators from the facts of a function to its facts after one block |
| `DataflowPasses` | `runOnModule` and `RunOnFunction` of the four | the loops over components, functions and blocks, as a state machine |
| `Execution` | - | what the instructions mean, which is LLVM's: runs a function and keeps what the facts are to be compared with |
| `Checkers` | `checker/src/insufficient_checks_pass.cc`, `unused_calls_pass.cc`, `eesi/src/checker.cc` | operators over the facts |
| `FlowGraph` | `getgraph/src/control_flow_pass.cc`, `instruction_labels_pass.cc`, `flow_graph.h` | an operator from a module to the edge lists that may be written for it |
| `Walker` | `walker/src/walker.cc` | the walks over that graph, in parallel, to one writer |
| `Registry` | `bitcode/src/bitcode_server.cc`, `cli/bitcode/`, `cli/checker/`, the download loops of the EESI and checker servers | the registry, the files under it, the commands and the database above it |
| `LongRunning` | operations table, handlers and tasks of the five servers, `cli/operations/wait.py`, the `notify` functions of `cli/*/db.py` | the composition of server and clients |
| `Futures` | - | abstract specification: what a long-running operation promises |
| `MCLattices`, `MCErrorBlocks`, `MCErrorBlocksEmbedding`, `MCDataflow`, `MCLongRunning`, `MCWalker`, `MCRegistry` | - | instances for TLC |
| `SpecificationTheorems`, `MCLatticesTheorems`, `ErrorBlocksTheorems`, `DataflowTheorems`, `ConstraintsTheorems`, `LongRunningTheorems`, `RegistryTheorems`, `WalkerTheorems` | - | proofs, see below |

Extension goes upwards:

- `SignLattice` <- `ConfidenceLattice` <- `SpecificationUpdate` <-
  `ErrorSpecification` <- `ErrorBlocks` <- `ErrorBlocksPrograms` <-
  `MCErrorBlocks`, `MCErrorBlocksEmbedding`;
- `SignLattice` <- `Ir` <- `ReturnPropagation` <- `ReturnConstraints`; on it
  `ReturnRange` with `ReturnedValues` <- `DataflowPasses`, and `Checkers`; both
  <- `Execution` <- `MCDataflow`;
- `ReturnPropagation` <- `FlowGraph` <- `Walker` <- `MCWalker`;
- `Registry` <- `MCRegistry`;
- `LongRunning` <- `MCLongRunning`, and `LongRunning` instantiates `Futures`.

Operators whose comment starts with *Mutant* are wrong versions of another
operator; no definition of the model uses them, they exist to show that a
property notices the mistake.

### How `ErrorBlocks` corresponds to the code

`specs` is `error_specifications_`; a function that is not in the map has the
specification `Unknown`, which the code never stores. `returning`,
`nonDoomed`, `instance`, `returnTypes` and `converged` are the tables of the
same purpose, `changed` is the local of `runOnModule`. One step is one call of
`RunOnFunction` (or its early return, `SkipFunction`), one decision of the
`while`, one call of `ExpandErrorSpecification`, or one end of a component; the
pass is single-threaded, so nothing can be observed inside a step. The order in
which `std::partition` calls its predicate is not fixed by the standard, so
`ExpandErrorSpecification` takes the pending functions in any order.
Within `VisitBlock` the order of constraints does not matter: what they
contribute is joined, and the only state the loop changes is that the function
itself returns codes, which `ShouldSmartDropZero` reads. The returned value is
the same for all constraints of a block, so either every constraint that is not
`NoError` records the function before dropping zero, or none does; `codes` is
therefore computed once, for the block.

Abstracted: values are told apart by what `dyn_cast`s tell apart (1-bit
integers, integers, null, string literals, calls, the rest); files by the
submodules their path contains; similarities are percentages. Left out: logging,
`error_return_values_` (never read), `CheckViolations` (reads the tables at the
end of a component, changes none of them), the response's layout.

### How `DataflowPasses` and `Execution` correspond to the code

Each pass keeps, for every instruction, an input and an output fact, and the
output of one instruction is the same object as the input of the next. So the
facts of a function are, for each block, a sequence of points. One step is one
iteration of the loop over the blocks in `RunOnFunction`: joining the facts of
the predecessors into the entry of the block (of the successors, for the
backward `ReturnedValues`) and `VisitBlock`, with `changed` accumulated over the
instructions as the code does. `runOnModule` runs functions in parallel for
three of the passes; they share no fact, so they are taken one after another.
`ReturnRange` goes through strongly connected components bottom-up and repeats
each one that has a loop. A fact that was never written (`Absent`) is not the
fact bottom: the passes tell an absent key from a key with the bottom element,
and a join that takes one for the other is what the properties look for.

When the passes have ended, a function is executed. A call of a function without
a body returns any value of `ExternalValues`, one with a body any value within
the range computed for it: a function is right if its callees are. Each value
carries the points it has been at under some name (`trail`), the call whose
result it still is (`source`), and whether that callee has been called again
since (`latest`), because facts name the callee and not the call. `about` is the
value that the constraints on a callee are about; a test of another value of the
same callee ends that. `loose` says that the execution has tested a value that the
slot which the pass takes the test to be about did not hold, or has read a slot
nothing was stored in: `RangesCoverReturns` excepts these executions, and is about
plain functions (`IsPlain`, see the observations).

`Checkers` reads these facts. A specification is of one callee, and what is
reported of a call depends on no other, so that it is an argument. `Renamed` are
functions whose LLVM name has a suffix, which is where the pass looks up by
`llvm_name` what the request has by `source_name`.

### How `FlowGraph` and `Walker` correspond to the code

`EdgeLists(m)` is the set of labelled edge lists that `ControlFlowPass`,
`InstructionLabelsPass` and `WriteGraph` may produce: it is a set because the
code iterates over unordered containers and overwrites a label, or keeps the
last return block, as it goes. The tables are sets of pairs because
`FlowGraph::Add` adds nothing twice. What `NamesPass` resolves a call through a
pointer to is a field of the call.

`Walker` reads one of these lists (`ReadLegacyIcfg`), then two `WalkWorker`s
share the graph, which nobody writes, and the writer. One step chooses one
outgoing edge, or takes, uses or releases the writer's mutex. Words are not
written out: a sentence is the number of its words and the worker whose line it
is. `returns` is the code's return stack; `calls` is a history of the calls that
have not returned, kept to compare with.

### How `Registry` corresponds to the code

A hash is taken to be injective, so a handle *is* the content it was computed
from. Every gRPC call, every file access of a handler and every database call is
a step of its own: there is no lock between the registry's handlers, between the
file system and the registry, or around the check and the insert of a command.
Files change or disappear (`ChangeFile`), `Annotate` truncates, writes, hashes
and stores in four steps, the server restarts with an empty map, a download
breaks and its reader cannot tell this from the end. `MaxFaults` bounds each of
these kinds. `covered`, `overlap`, `replaced` and `faults` are histories for the
properties. Polling is in `LongRunning`; here a task ends and its result is
delivered.

### How `LongRunning` corresponds to the code

`table` is `operation_progress_`. `UpdateOperation` on a name that exists is one
step under the accessor; when `find` misses, the accessor is released and the
insert is a second step (`HandlerInsert`, `InsertResult`), and an insert of a
name that has appeared in between changes nothing. `GetOperation` is one step,
with the client's handling of the answer; `Cut` splits the two by losing the
answer after the erase. A handler's step `enqueue` starts the task; the reply
follows. A task waits for a worker, runs, and publishes. What the five servers do
differently is a matter of `job.service`: whether names carry the second
(`Clocked`), whether a request without an authority is refused, what becomes of an
unreadable input (error, error without `done`, `abort()`), and whether the client
stores answers. The client is `wait_for_operations` line by line: submit up to
`max_tasks`, poll all that wait, remove what finished.

The name of an operation (`TaskName`) holds what the servers put into it, which is
not the whole request. The bitcode server's names are the operation, the identifier of
the bitcode and the second; EESI's and getgraph's the identifier and the second; the
checker's the type of violation and the identifier. The domain knowledge, the
specifications and the other fields of these requests are in no name, and neither is
the walker's output URI. The walker's name is the URI of the graph, the length and the
number of walks, joined without separators and hashed: in the model sequences of
digits that are joined (`Parameters`), so that a request for one walk of length 11 and
one for 11 walks of length 1 build one name, while the hash is taken to be injective.
Scenarios have requests that build one name and differ, and `NamesDiffer` says that
there are none. `AnswersAreOwn` compares requests and not names: where names differ an
answer is that of the client's own request, and otherwise it may be another's, but has
the type and the input asked for; of the walker's it then says nothing.

## Runs

| run | question | bounds |
|---|---|---|
| `lattices` | Are the hand-written tables one lattice, do confidences refine it, and does repeating an update settle below the range? | confidences 0..3 (three different non-zero values are all that `RemoveLowestNonMin` tells apart), emptyset confidence 0 or 3; all pairs and all elements; 131,072 states |
| `error_blocks` | Do scaled confidences stay within bounds, is evidence final, and does no claim cover a whole range? Without an embedding, does the analysis stop, and is what it stops with justified, a fixpoint (unless smart success codes are on) and grown only? | without an embedding: two functions, every pair of the listed bodies, every bottom-up order, recursive or not; three external functions; smart-success-code-zero on and off; error codes or none. With one: four functions, three expansion operations, evidence minimum 1 and 2, also with a source name shared by two functions. 125,816 states |
| `dataflow` | Do the facts of the four passes cover every execution, does what an execution tests go unreported, and do the passes stop at fixpoints? | bodies of four blocks with two in the middle that loop and cross; loads, stores, casts, phis, switches, comparisons of both orders and signednesses, `ERR_PTR` and a numbered copy of it, `true`; two functions that may be mutually recursive, in both orders; external functions return -2, 0 or 1; 128,492 states, those of `dataflow_lone_test` among them |
| `long_running` | Where names differ, does each client get its own answers, all of them, with nothing of them left? Where names collide, is an answer at least one of the type and for the input asked for (but for the walker's)? Does done stay done? | two clients (three requests and one), `max_tasks` 2, two workers, one tick of the clock, unreadable inputs, missing authorities, requests that share a name and differ in what is in none, numbers that are the same when joined, clients that are killed, the five services; 2,074,728 states |
| `long_running_live` | Do table, tasks and polling implement futures, and does every client end? | names that differ, `max_tasks` 1 and one worker; 80,306 states |
| `walker` | Are sentences whole, bounded and one per label and walk, do returns match calls, do walks end only where they should, and does the request return? | four modules: callees with two sites, recursion, calls through pointers, branches that meet; two workers with walks of 3, one with walks of 12, and the degenerate requests (no walks, length 0 and -1); 129,533 states |
| `registry` | Can every handle and entry be accounted for, do duplicates need overlap, do commands cover what they say, do downloads arrive whole, do commands end? | two commands, two files, contents of one chunk, of more than one, no IR, and an empty file; one change of a file, one restart and one broken stream; `Annotate` onto a registered file and of a file that is gone; an empty and a filled database; 295,153 states |

Why this is enough. Two functions give mutual recursion, and a body that checks one
function and returns another, or itself, is the largest pattern `VisitBlock`
treats as one. Three requests with a limit of two give a round of polling in
between two rounds of submission. Two middle blocks that may go to each other and
to themselves give loops visited along and against the order of the block list; a
value of each sign and constants 0, 1 and -1 tell all rows of the table of
comparisons apart. A walk of 12 passes through a call of a call and its two
returns. Contents of two and three bytes with chunks of two are a file of exactly
one chunk, and one with a rest. Where the clients, the commands or the pass end,
deadlock is not checked, nor in `lattices`, which has nothing to do after it has
picked its inputs; it is checked in `dataflow` and `walker`, whose final states
say that they are final.

Runs that expect a violation show where the code does not do what its own
comments or interface files say:

| run | what happens |
|---|---|
| `error_blocks_loops` | With an embedding, callees can have confidences below 100. A recursive function that covers its range is weakened by `RemoveLowestNonMin`, the next pass joins the removed sign again, the update reports a change, and the `do while` of `error_blocks_pass.cc:158-165` does not end. |
| `long_running_undone` | The checker publishes an error without `done`: the operation has a result that is never delivered, and its client polls for ever. |
| `dataflow_lone_test` | A block that holds nothing but the branch on a comparison of an earlier block refines the entry of its successor and reports no change, so `ReturnRangePass` stops before a loop has carried the refinement around: a return range that misses what the function returns, contrary to `return_range_pass.h:60-62`. |
| `walker_chain` | A function with one call site returns along its only edge without popping the stack; when its caller then returns, the stale site is popped and the walk jumps back into the caller. |
| `registry_checked` | `GetViolationsAll` ends at the first file that already has an entry; the others are never submitted. |

### Observations without a run

Made while reading and in counterexamples; each is how the model behaves, and where
a property had to except something, it is one of these.

*ErrorBlocksPass.* With an embedding a specification may keep signs of an
intermediate pass (`SpecificationsAreJustified` is not claimed there). A function
that returns codes is put among `converged_functions` although nothing is known of
it, contrary to `error_blocks_pass.cc:371-372`. Fewer than `minimum_evidence`
synonyms can be used, because the minimum is compared (346) before the unusable
ones are removed (374-391), and `minimum_similarity` has no effect (361-363). A
caller visited before its callee becomes non-doomed is not added to the non-doomed
functions when the component's specifications have settled. In a ring of functions
that pass on one another's results, the loop stops when no specification changes,
although the last pass has just recorded one of them as returning codes
(`error_blocks_pass.cc:165`, `.h:143-146`). A zero inferred on an early pass is
joined again by every later update, so it survives the heuristic that drops it
retroactively (1222; comments at 515-516 and 1402-1407). Two LLVM functions of one
source name can make the embedding store a specification that covers the range of
the other.

*Dataflow passes.* `VisitPHINode` of `return_propagation_pass.cc:203-217` writes
the output fact without copying the input (its comment at 98 says facts are
copied), so behind a phi the pass has forgotten what other values hold:
`SourcesAreKnown` speaks of functions without phis. In
`AbstractICmp` a null in operand 1 makes the predicate be swapped although no
operand was, so that what it says of an ordered comparison with null (`<`, `>`) is
wrong (`OutOfTable` takes these out of `about`), and unsigned comparisons with a negative constant give bottom.
`VisitSwitchInst` kills what is known of the tested callees to bottom and gives the
default successor bottom. The range pass
refines a slot by the test of a value that was loaded from it earlier, also when
the slot has been written in between (`return_range_pass.cc:423-447`): `i++ < 0`
is the usual form. It also takes the constant of a comparison for the value that is
compared, if the same constant is stored right before (300-302, 437-441): after
`r = 0; if (e < 0) return r;`, with `e` kept in a register, the entry of `r` is refined
by what the test says of `e`, and nothing is left of it. `RangesCoverReturns` excepts executions in which
the slot then does not hold the sign that the test speaks of (`IsLoose`; the programs
`StoredConstants` of `MCDataflow` do this: without the exception TLC finds a wrong range).

Four more kinds of programs are outside of what `RangesCoverReturns` says, each because
the range of the pass is not true of them. Where two paths meet and a slot was written on
one only, the join copies the entry of that path, so that the range knows nothing of what
the slot holds on the other: of a variable that is only written through its address,
as in `int r; get(&r); if (c) { if (r >= 0) return 0; } return r;`, the range is that
of the tested path (`IsUnset`). A load gives what the range of its *address* is, so a load
through a pointer copies what is known of the pointer, and a location that the function
does not store in, such as a global, may hold another value at each load; in plain
functions only slots are loaded, and no instruction's result is stored through. A phi that
takes what an earlier phi of its block gives takes the new value in the pass
and the old one in LLVM. And two constants that are compared are not told apart from a result and a
constant; LLVM folds such a comparison.

`changed` compares the facts behind an instruction and misses what a branch or a
switch writes to the entries of its successors. Where the block of the test has
another instruction this does no harm: what is written follows from the fact behind
that instruction, whose change was counted. Where the
test is alone in its block (its comparison is in another one), `ReturnRangePass`
and `ReturnConstraintsPass` may stop with facts that one more round would change
(`return_range_pass.cc:214`, `return_constraints_pass.cc:100`).
`dataflow_lone_test` shows that the range is then wrong. `RangesCoverReturns` and
`PassesStopAtFixpoints` except such functions (`HasLoneTest`) for these two passes,
`ConstraintsCoverResults` and `TestedErrorsAreNoBugs` except executions in them.
There is one more case for `ReturnRangePass` alone: in a function where a round leaves
nothing behind any instruction, what its tests have written to the entries of blocks is
not seen either, and the round is the last (`FindsNothing`; the program `Dereferenced`
of `MCDataflow` does this). `ReturnConstraintsPass` has no such case, as its first visit
of a block always changes something. It does no harm to the range, as that
is then what `AbstractValue` says of the returned values.

*Checkers.* `insufficient_checks_pass.cc:86-87` looks specifications up by
`llvm_name` on one side and `source_name` on the other: calls of a function whose
LLVM name has a suffix are never reported as insufficiently checked. `TestedErrorsAreNoBugs` excepts them, as there
is nothing to check.

*Flow graph and walker.* `RandomWalk` shuffles `labels_for_this_walk` and then
walks `labels` (`walker.cc:103-108`). `ReadLegacyIcfg` labels all edges of a call
node, the call edges too. `CreatePredicateValueVertex` swaps the predicate for the
false successor, which exchanges the operands and negates nothing (`x < 0`
becomes `x > 0`), and a block
with two predecessors keeps the label of the last. `fn2ret_` keeps the last block
of a function that returns, so a walk that comes to the exit of another of its
blocks that return ends there. Besides these `StopsOnlyAtDeadEnds` admits only external
functions, the vertex of `main`, and the last return of a function that nobody
calls. A value with more than one source is labelled with an
arbitrary one.

*The constant `true`.* An `i1` that is true is a `ConstantInt` for every pass that looks
for one: it counts as error code 1 (`getZExtValue`), while it is printed, and compared by
`AbstractICmp`, as -1 (`getSExtValue`). `x == true` thus says `<0` of `x`, and
`AbstractValue` says `!=0` of `true`. `OutOfTable` excepts executions that pass such a
comparison from `ConstraintsCoverResults`, `TestedErrorsAreNoBugs` and
`RangesCoverReturns`.

*Names of error functions.* `ReturnedValuesPass` looks for the names of error functions
inside of the name of what is called (`returned_values_pass.cc:142-146`), which is meant
for numbered copies, and finds `MY_ERR_PTR_CHECK` too. `ErrFunctions` is the set of
names that match.

*Operations, registry and database.* Two requests for one input within a second
share an operation, and with it the domain knowledge or the specifications of the
first. The checker's names have no second: whoever asks for one type of violation in one
file while such an operation is in the table gets the violations of the specifications
that the earlier request gave (`checker_server.cc:131-133`). An operation of a killed
client stays in the table for good, as only polling erases, so that for the checker and
the walker the next request of that name, whenever it comes, is answered with it. The
walker's names are the same for a length of 5 and 11 walks and a length of 51 and one
walk (`walker_server.cc:57-64`): one of two such clients gets the other's reply, and its
own output file is never written. `notify` unpacks
the response of an operation that has only an error: an empty response is stored as
the result (`cli/bitcode/db.py:320`), and commands that find it later skip the
file. A handle may map to a file that has been rewritten since, also by `Annotate`;
the tasks then answer for the other content under the old handle. `Download` uses
`.at()` and throws for a handle that is not registered. The status of
`ReadUriIntoString` is ignored in the tasks, and an empty buffer parses as an empty
module. The download loops never call `Finish`. `registered_bitcode_files_` is
shared by all handlers without a lock. Checks and inserts of the command line are
two calls, so two runs at a time insert duplicates. `Annotate` ignores the status too: of
a file that is gone it writes an empty annotated module and reports success
(`bitcode_server.cc:341-357`). `get_violations_uri` calls
`get_violations` without `database` and with an undefined
`confidence_threshold` (`cli/checker/commands.py:118-120`); `_setup_bitcode` of
`cli/eesi/commands.py` makes a tuple with a trailing comma. The walker's task name
does not contain its output URI.

## Fairness

`ErrorBlocks` and the dataflow passes are one thread that does nothing but this
loop: weak fairness of the whole next-state relation. In the runs it is spelled
out, `[]<>` (it has ended) or `[]<>` (it takes a step), because TLC is slow to
decide whether the step is enabled; the two say the same, since the step is
enabled until the end. In `LongRunning` each handler, each task and each client is a
thread or process of its own that the scheduler runs: weak fairness of each one's
steps, none for the clock, for `Cut`, or for a particular client's success. A task
waits for a worker, and workers are released by tasks that end. `ClientsEnd` is
checked where no input makes the checker publish an undone error, which is what
`long_running_undone` is about. In `Walker` each worker is a task of the thread
pool: weak fairness of its steps. The writer's mutex is not fair, but a worker takes
it once for each of its labels, so weak fairness is enough. In `Registry` a started
command, and the server's threads that serve it, run: weak fairness of
`ClientStep(c)`, none for `Annotate`, for changes of files, restarts and broken
downloads. `CommandsEnd` lets a command wait for an operation the checker left
undone.

## Proofs

Eight modules, checked by tlapm with Z3, Zenon and LS4. All invariants and action
properties of the passing runs are theorems.

| module | theorems that state a property of a run | other results |
|---|---|---|
| `SpecificationTheorems` | | the bit matrices: `MeetIsExact`, `JoinIsExact`, `DifferenceIsExact`, `LessIsInclusion`; folds of any set of confidences; `RemoveLowestIsExact`; updates: `UpdateStaysBelow`, `UpdateSettles`, and with confidences none or full `CertainUpdateGrows`, `CertainUpdateSettles` |
| `MCLatticesTheorems` | `TablesDescribeOneLattice`, `AbstractionIsHomomorphism`, `RepeatedUpdateSettles`, `LowestIsRemoved`, for every `kMaxConfidence` | |
| `ErrorBlocksTheorems` | `TypeOK`, `InitialSpecificationsUntouched`, `StrictlyBelowRange`, `ConvergedIsFinal`, and, about programs without an embedding, `OnlyGrows`, `StopsAtFixpoint`, `SpecificationsAreJustified`, `EmptysetIsTransitive` | what a visit infers is a confidence, depends on what it reads, and is monotone (`InferredSpecificationType`, `InferredReads`, `InferredLasts`, `InferredStaysEmpty`) |
| `DataflowTheorems` | `SourcesAreKnown`, `ReturnedValuesCoverPaths`, `PassesStopAtFixpoints` | `PropagationStopsAtFixpoint`, `ReturnedValuesStopAtFixpoint`, `ConstraintsStopAtFixpoint`: what `PassesStopAtFixpoints` says of three of the four passes, the first two without exceptions; `OneOrTwoSuffice`, the claim of the comment at `insufficient_checks_pass.cc:83-84`; what Meet and Join of the lattice table do to facts with absent entries (`JoinKnownIsExact`, `PassOnIsAbove`) |
| `ConstraintsTheorems` | `ConstraintsCoverResults`, `TestedErrorsAreNoBugs`, `RangesCoverReturns` | what `AbstractICmp` says of a comparison is true of its operands (`LeftIsTold`, `RightIsTold`), dominance |
| `LongRunningTheorems` | `AnswersAreOwn`, `FinishedStaysFinished`, `WaitingIsKnown`, `BatchIsComplete`, `TasksAreLimited`, `NothingIsLeft` | `ImplementsFuturesSafely`: the refinement, step by step |
| `RegistryTheorems` | `HandlesAreJustified`, `EntriesAreJustified`, `DownloadsAreWhole`, `DuplicatesNeedOverlap`, `CommandsCover` | |
| `WalkerTheorems` | `WritesAreWhole`, `ReturnsMatchCalls`, `SentencesAreBounded`, `EachLabelIsWalked`, `StopsOnlyAtDeadEnds` | the shape of the graphs that the getgraph passes build |

Each proof of an invariant has a lemma for the initial states, one for each action
that can disturb it, and one that joins them.

### The arguments

*Lattices.* Rows of a bit matrix are pairwise different, so decoding inverts
encoding, and the AND of two rows is the row of the intersection (union) of what
they stand for: finitely many cases. The rest is about any `kMaxConfidence > 0` and
any delta. An update either leaves a specification alone or stores a weakened join;
weakening clears the lowest signs (`IsLowered`) or all but the full ones
(`IsLevelled`), and two updates with one delta reach a fixpoint by cases on which of
the two happened.

*Error specifications, with and without an embedding.* `StrictlyBelowRange` is not
inductive: it speaks of analysed functions, while an update also happens to
functions that were never analysed (external ones, expanded), and it excepts source
names shared by two functions. `IInv` is `TypeOK`, `InitialSpecificationsUntouched`
and `BelowOwnRange`: every function that is the only one to write its name,
analysed or not, has an unknown specification or one strictly below its range.
`ConvergedIsFinal` needs to know where the analysis is: `ConvergedInv` says that a
converged name is domain knowledge or of a component that has been left, and that
what is kept of the current component is settled, so that no update changes it.

*Without an embedding.* All confidences are then 0 or 100. The transfer functions
introduce no other level, whatever set of levels they start from (`Levels`,
`OfLevels`), which is `CertainInv`. On it an update never weakens anything: its join
reaches the range only in full, and is then not stored. So specifications only
grow. From this:

- `StopsAtFixpoint`. `FixpointInv` says `Steady` of all functions of the components
  that have been left, and of the functions this pass has visited as long as it has
  changed nothing, or the component has no loop. That a change does not unsettle an
  earlier component needs that its functions do not read the one that changes
  (`IsBottomUp`, and `InferredReads`: inference depends on the specifications it
  reads and on no others). With `smart_success_code_zero` inference also reads which
  functions return codes, which the loop does not watch: a ring of three functions can
  stop too early (see the observations), and the property is not about such requests.
- `SpecificationsAreJustified`. A sign is in a specification because some pass
  inferred it. It is still inferred now because inference is monotone
  (`InferredLasts`): more in the specifications and more functions that return codes
  yield at least the same signs, but for zero where `smart_success_code_zero` is set
  (`Lasting`). `JustifiedInv` also says that whoever is reported emptyset claims no
  sign (`Proper`), without which a callee that becomes emptyset would take away what
  a constraint on it yielded.
- `EmptysetIsTransitive`. Emptyset is not monotone: an unknown callee that becomes
  emptyset is news, one that gains a sign withdraws it. `EmptyInv` says that emptyset
  is now inferred wherever it is reported. Then all that the function reads is
  emptyset, external or domain knowledge (`EmptyReads`), and by the same invariant
  none of it changes any more.

*Dataflow passes.* The argument has the same three layers for `ReturnPropagation`
and `ReturnedValues`. Visiting a block is a recursive function over its
instructions; it is unfolded to the sequence of what the loop has after each
(`PropagationUnfolds`, `ReturnedUnfolds`), and induction over that sequence uses
that a set of numbers has a least one (`NaturalInduction`), for the library's
induction theorem takes an operator. It yields what a visit writes, that it only
adds, and that a block whose visit reports no change agrees with the transfer
function at every instruction and at its neighbours (a *settled* block). The
second layer is an invariant of the loop over the blocks: while nothing has
changed, the blocks visited in this round are settled, and all blocks of a function
that the pass has left are (`PropagationInv`, `ReturnedInv`). A visit that writes
into other blocks than its own could unsettle one that is behind it.
`ReturnedValuesPass` does: what a phi adds to the blocks its values come from is not
counted as a change. `IncomingIsKnown` says that this is never news later: the
block of a phi has the phi's values at its entry as soon as it was visited, so that
visiting it again adds nothing. The third layer is an invariant of the execution:
the names hold what settled facts say of them, from entry to return (`PlaceInv`:
where the execution is, and what is bound there; `PathsInv`: whatever is returned
from here has all points of its trail behind it in the facts).

*Constraints.* `ReturnConstraintsPass` is not like the other two: a branch kills the
entry of a tested callee in the fact after it, and joins what each outcome leaves of
that entry into the successor, whose own join then skips the killed one. Facts grow
all the same, in the order of the lattice where an absent entry is below "bottom"
(`Below`, `JoinKnown`): `PassOnIsAbove` says what a join into the entries leaves, and
that `Meet` and `JoinTable` respect the order is finitely many cases
(`EverySignSet`, `RefineIsMeet`). What a test passes on is a function of the fact
before it, so that it is news only if that fact has changed, and this is what
`changed` sees, as long as the test is not the first instruction of its block:
the fact before it is then the result of another instruction of the same visit. If
it is the first, the fact is a block's entry, which other blocks write, and the flag
misses it (`dataflow_lone_test`). A block that was never visited is told apart by the
killed entry it lacks (`IsOpen`), so that its first visit is always a change.
The third layer relates three places (`ResultsInv`): a comparison that dominates the
current point is true of what its operands are now, because nothing between the
two computes them anew, not even the phis of a loop's head, which would be both before
and behind the comparison (`ComparisonsInv`, by `Dominates` and the form of bodies); the
value that a name holds, if it is the latest result of a callee, is the one the
constraints are about (`LatestInv`); and the constraint has its sign (`CoverInv`). A
test then leaves what `AbstractICmp` says of numbers that compare as these did
(`LeftIsTold`, `RightIsTold`).
For the checkers the constraints must also be no larger than they need be, which is
the opposite of what the fixpoint gives. `IsNarrow` bounds them from above: where one
block alone leads to another, the entry has no sign but those of the outcomes that
lead there, because the exit of the tested block is killed to bottom and a join adds
what it joins and no more (`JoinKnownIsExact`). It holds at every step of the pass, also
before the fixpoint. With `CoverInv` the constraint behind a passed `== c` is the sign of
c exactly (`PassedTestLeavesItsSign`), whose complement is one of the dead
constraints that `IsSufficientlyChecked` looks for. That the call is used follows from
where values come from (`OriginsInv`): what a name holds of a call, it holds because an
instruction read the call, or because it is the call, and then the test reads it.

*Ranges.* `ReturnRangePass` joins into the fact after an instruction what it computes
from the fact before it, and a test joins into the entries of its successors what it
refines, with the same function of the same facts (`RangeOf`, `Below`). It is harder
than the others in two ways. First, a visit does not mark a block as visited, so that
"no change" does not mean that the block was ever passed on. `IsQuiet` says what holds
instead as long as nothing has changed: nothing is behind any instruction, or every
test has passed on what follows from the fact before it. The first alternative is the
exception `FindsNothing` of the property; the proof failed until it was there. Second,
the pass reads the ranges of other functions, which change under it. `RangeInv` has
four parts: where the pass is, what facts look like, what the blocks visited in
this round have passed on, and which functions are settled for good. A new range
concerns only functions that call the one it is of (`RangesRead`), and these are in
later components, or in the same one, which then has a loop (`RangeReaders`, by
`IsBottomUp`). In that case the component is not done, because `moved` is set
(`ComesBack`); if it is not set, no range has changed since the beginning of this round
over the component, and what was settled stays so.
When the pass is over (`RangeSettled`), every function that is not void has either passed
on all it knows, and the range of what it returns is below that of the function, or it knows
nothing behind any instruction. In a plain function the facts have entries of `Tracked`
names only, which a store, load, cast or phi gives a value, and only where they may be
returned (`TrackedInv`): so the second alternative means that no `Tracked` name is
returned. An execution keeps two things. What a name that is not tracked holds is within
its `AbstractValue` (`AbstractInv`), by the ranges of its callees. What a tracked name
holds that may still be returned from the current point is within its entry there, as
long as nothing was loose (`KeptInv`): a copy has an entry because its operand may be
returned as well (`ReturnedInv`), a test refines the entry of the slot it is about with
what the outcome says of it (`EntryCovers`), and the phis of a block, which LLVM takes
at once, are taken one after another by the pass (`KeptThroughPhis`, `IncomingInRange`).
What is returned may be returned, so one of the two applies to it (`ReturnIsInRange`).

*Operations.* A name is made from a request, and goes everywhere together with it:
`IInv` of `LongRunningTheorems` says of handlers, tasks, the table and the answers
that a name in them was made of the request they belong to, and of the names a
client waits for. An answer is then for a request of the same name, and the name
determines type and input. Where names differ, `KInv` of the same module follows
every request through its life: not sent, with a handler, with a task, in the table,
stored by its client; each of its conjuncts says of one place what is at the others.
`Stage` is the refinement mapping, a function of the same places, and
`ImplementsFuturesSafely` shows that every step moves one request one stage forward,
loses some of a client that goes down, or moves none.

*Registry.* A content that a handler or command has read is one that the file had,
or that has been replaced since; `IInv` says this of every place that carries one
(`PlacesInv`: a handle between hashing and storing, and what `Annotate` is about to
register; `TasksInv`: what a task has read, which is the content its handle stands
for unless that was replaced). `OverlapInv` remembers of every pair of commands that
run, and of every entry and filename a command may still write, whose they met.
`CoverInv` says where each file that a command covers is on its way: in the loop, in
the batch, or in the database (`PathInv`, `KeptInv`, `ReachedInv`).

*Walker.* The writer: whoever is at `locked` is the owner, there is at most one,
and the current line is the owner's (`LockInv`). The stack: where no function has
a lone site, `FollowSingle` never takes a may-return edge, so that stack and
history are pushed and popped in the same steps (`StackInv`). The length: a word is
written for an edge that was counted (`WordsInv`). The labels: the lines of a label
are as many as the workers that have it behind them (`WalkedInv`). Dead ends: a walk
in a call has something on its stack (`DeadEndInv`), and the edges that
`ControlFlowPass` draws lead from every node but the exits of functions and the
blocks without a way out (`Leads`, `IsExit`), by cases on the terminator. Of the exits of
blocks `StopsOnlyAtDeadEnds` admits those of blocks that return, but not the one of a
called function that `fn2ret_` kept: a block that does not return has a successor
(`OnlyReturnsStop`), as `unreachable` is not modelled.

### The assumptions

`MaxConfidenceAssumption`: the greatest confidence is positive (100 in the code).
`ProgramsAssumption`: the tables of a program have the shapes LLVM and the request
give them, every function is in at most one component, similarities are at most 100
percent. `ScenariosAssumption` and `MaxTasksAssumption`: the tables of a scenario
have their shapes, and no request is in two batches. `RegistryConstants` and
`JobsAreConsistent`: a database filled by earlier commands is one that such commands
leave. `ModulesAssumption`: what LLVM's verifier accepts, blocks end in one
terminator whose targets exist, and these are jumps, branches, switches and returns:
`unreachable`, where a walk would end too, is not modelled. `ProgramsAssumption` of `DataflowPasses` is the
verifier's as well (`IsBody`): terminators at the end of blocks only, phis before all
other instructions and with one value for each predecessor, no edge to the entry,
names that are given once and are no constants, definitions that dominate their uses
(`DefinitionsDominateUses`), comparisons and cases of the kinds there are, an
operand where one is read (`IsTyped`), and no use of what a void function returns; and the order of components is that of
`scc_iterator`: callees are in earlier components, or in the same one, which then has a
loop (`IsBottomUp`). `ExternalValuesAssumption`: external
functions return integers. TLC evaluates all of them on the runs.

Some theorems have a hypothesis on the program, which `ProgramsArePlain` of
`MCErrorBlocks` shows to hold of all programs of its run without an embedding:

- `IsBottomUp` (of `ErrorBlocksTheorems`): what a function reads of functions with a body is of an earlier
  component, or of its own if that has a loop. `scc_iterator` gives this but for
  callees that only a shared source name gives away, which is why it is not part of
  `ProgramsAssumption`; the programs of `MCErrorBlocksEmbedding` with a shared name do
  not have it. `OnlyGrows` needs no such hypothesis.
- `ConstantsHoldNothing`: nothing is held in a returned constant, as
  `ReturnPropagationPass` only keeps facts of instructions and slots that are stored to.
- `CallsWhatItReads`: the facts of a block are about functions that its function
  calls.
- `ErrorOnlyIsExternal`: error-only functions have no body in the module. One with a
  body may be called by a function reported emptyset and change afterwards, so this
  restricts the theorem and not the run's property.

That ranges are not "bottom" is a premise of `StrictlyBelowRange` itself: the code
gives a function that cannot return such a range, and then infers nothing.

### What the proofs showed about the model

The monotonicity of `ReturnConfidence` could not be proved because two guards of its
CASE overlapped: TLC takes the first branch, the semantics of TLA+ any. It and three
like it in `Registry` and `ReturnedValues` have exclusive guards now. `IsProgram` did
not say that components are disjoint or that blocks form a sequence, without which
`ConvergedIsFinal` and `InferredLasts` are false. And each of the hypotheses above was
found as the step of an induction that failed without it. `IsBody` did not say that phis come
first or that a name is no constant; without either, the facts of `ReturnPropagationPass`
miss what a name holds. `ConstraintsCoverResults` was stated for functions without phis,
like `SourcesAreKnown`; its proof never needed that, and both are stated as widely as they
hold now. The attempt to prove
`PassesStopAtFixpoints` failed at branches that are alone in their block, and showed
that the passes can stop too early there (`dataflow_lone_test`). The second attempt failed at
functions where the range pass finds nothing, and showed a second way to stop too early;
TLC agrees (`Dereferenced`). It also showed that `IsProgram` did not say in which order
components come, and that `ValuesOf` lacked names that are only read. The proof of
`RangesCoverReturns` showed which programs it is about: each conjunct of `IsPlain`, and
slots that are read before anything was stored in them, is a step of the induction that
failed. It also found the test that is taken to be about a stored constant
(`StoredConstants`), that an error function with a body was executed without regard to
the range of its body (`Called`), and that `IsProgram` let the result of a void function be used.

### What is only model-checked

- `SpecificationsAreJustified` and `EmptysetIsTransitive` outside of the hypotheses
  above (`error_blocks` has programs with `smart_success_code_zero`).
- Liveness: `TerminatesUnembedded`, `AnalysisEnds`, `ClientsEnd`, `WalksEnd`, `CommandsEnd` and the
  fairness half of `ImplementsFutures` need ENABLED and induction over how much is
  left to do.
- The five runs that end in a violation are counterexamples and have no theorem.

## Not modelled

- The construction of the call graph is LLVM's `CallGraph` and `scc_iterator`; the
  order of components is an input, and runs try every order.
- Bitcode and annotation passes are single walks over a module that collect names.
- `NamesPass`'s resolution of function pointers is an input of `FlowGraph`;
  `GetConstraints` and `AddReturnPropagated` report what the facts hold;
  `CheckViolations` and the layout of responses read tables and change none;
  Graphviz output and `remove_cross_folder` are formatting and a filter.
- The embedding service fills a dictionary in one handler, and similarity is
  gensim's: its answers are inputs of `ErrorBlocks`.
- Configuration files and result filters are parsing; listing commands only read.
- That unsynchronised writes can corrupt the hash table of the registry is
  undefined behaviour without bounded outcomes: `Registry` has the interleavings
  of the handlers, not this.
- `scripts/`, `specs/`, `testdata/` and `third_party/` hold drivers, results and
  vendored code. `DeleteOperation`, `CancelOperation` and `GetErrorHandlers` are
  unimplemented in the code.

## Plan

1. *Done.* Lattices; `ErrorBlocks`; operations and clients; dataflow passes and
   their executions; checkers; flow graph and walker; registry, commands and
   database; theorems about each.
2. *Done.* The refinement of `Futures`, step by step; every invariant and action
   property of `MCLattices`, `ErrorBlocks`, `LongRunning`, `Registry` and `Walker`.
3. *Done.* The invariants of the dataflow passes as theorems.
4. `ErrorBlocks` on the facts of `DataflowPasses` instead of its own inputs.
5. `NamesPass`'s table of function pointers; the registry of embeddings.
