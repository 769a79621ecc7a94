------------------------------ MODULE Registry ------------------------------
(***************************************************************************)
(* The bitcode server's registry of files                                  *)
(* (bitcode/src/bitcode_server.cc), the command line's commands that work  *)
(* through it (cli/bitcode/commands.py, cli/checker/commands.py), and the  *)
(* database collections they check and fill (cli/bitcode/db.py).           *)
(*                                                                         *)
(* A bitcode file is known by its content: HashString is taken to be       *)
(* injective, so a handle IS the content it was computed from.  Nothing is *)
(* locked: the files change under the server, a handler reads and then     *)
(* writes the map, a command asks the database and then inserts, and each  *)
(* database call is a step.  The operations table and the polling are      *)
(* those of LongRunning, here a task that ends and a delivery.             *)
(*                                                                         *)
(* A job is a record:                                                      *)
(*   command    client -> [name, kind, uri, overwrite]; the names are      *)
(*              "register", "dataset", "uri" (Get...Uri), "all"            *)
(*              (Get...All), "violations" (GetViolationsAll) and "none"    *)
(*   files, filenames, entries   what the disk and the database hold       *)
(*   annotate   the URIs an Annotate call may write to                     *)
(*   faulty     may files change, the server restart, downloads break      *)
(***************************************************************************)
EXTENDS Integers

CONSTANTS Clients, Uris,
          Contents,      \* of bitcode files that are not empty
          Unparsable,    \* those of them that are no IR
          Length,        \* content -> its number of bytes
          AnnotatedAs,   \* content, or Empty -> what AnnotatePass makes of it
          Empty, Missing,
          ChunkSize,     \* kChunkSize
          Jobs,
          MaxFaults      \* bound: changes of files, restarts and broken downloads

ASSUME RegistryConstants ==
  /\ Empty \notin Contents /\ Missing \notin Contents \cup {Empty}
  /\ Unparsable \subseteq Contents
  /\ Length \in [Contents -> Nat \ {0}] /\ AnnotatedAs \in [Contents \cup {Empty} -> Contents]
  /\ ChunkSize \in Nat \ {0}

(* What the disk and the database hold at first is what commands of the    *)
(* past left: identifiers of the content that is there.                    *)
ASSUME JobsAreConsistent ==
  \A j \in Jobs :
    /\ j.files \in [Uris -> Contents \cup {Empty, Missing}] /\ j.annotate \subseteq Uris
    /\ \A f \in j.filenames :
         f.uri \in Uris /\ j.files[f.uri] = f.id /\ f.id # Missing
    /\ \A e \in j.entries : e.content = e.id
    /\ \A x \in j.filenames \cup j.entries : x.by = "past"
    /\ \A c \in Clients :
         j.command[c].name \in {"register", "uri"} => j.command[c].uri \in Uris

VARIABLES
  job,
  files,       \* URI -> content
  registered,  \* registered_bitcode_files_: handle -> URI
  annotation,  \* the Annotate call: [step, bytes, output]
  filenames,   \* collection: [uri, id, by]
  entries,     \* the response collections: [kind, id, content, by]
  pc,          \* client -> the database or RPC call it makes next
  todo,        \* the URIs its loop has not reached
  current,     \* the URI it is at
  nested,      \* is it inside re_register_bitcode
  handle,      \* the handle of the current URI, in the server or received
  batch,       \* handle -> its task in a server: [step, uri, bytes, got]
  listed,      \* the URIs read_uris gave
  covered,     \* ghost: handles whose entry it saw or will insert
  overlap,     \* ghost: pairs of clients that ran at the same time
  replaced,    \* ghost: contents that some file no longer has
  faults       \* ghost: [changes, restarts, breaks]

server   == <<registered, annotation>>
database == <<filenames, entries>>
command  == <<pc, todo, current, nested, handle, batch, listed>>
ghosts   == <<covered, overlap, replaced, faults>>
vars     == <<job, files, server, database, command, ghosts>>

Bytes == Contents \cup {Empty}

Without(f, k) == [x \in DOMAIN f \ {k} |-> f[x]]
And(f, k, v)  == [x \in DOMAIN f \cup {k} |-> IF x = k THEN v ELSE f[x]]

Task(step, uri, bytes, got) == [step |-> step, uri |-> uri, bytes |-> bytes, got |-> got]

Idle == [step |-> "idle", bytes |-> Empty, output |-> "nowhere"]

Init ==
  /\ job \in Jobs
  /\ files = job.files /\ filenames = job.filenames /\ entries = job.entries
  /\ registered = [h \in {} |-> "nowhere"] /\ annotation = Idle
  /\ pc = [c \in Clients |-> IF job.command[c].name = "none" THEN "done" ELSE "start"]
  /\ todo = [c \in Clients |-> {}] /\ listed = [c \in Clients |-> {}]
  /\ current = [c \in Clients |-> "nowhere"] /\ nested = [c \in Clients |-> FALSE]
  /\ handle = [c \in Clients |-> Empty]
  /\ batch = [c \in Clients |-> [h \in {} |-> Task("queued", "nowhere", Empty, 0)]]
  /\ covered = [c \in Clients |-> {}] /\ overlap = {} /\ replaced = {}
  /\ faults = [changes |-> 0, restarts |-> 0, breaks |-> 0]

Name(c)      == job.command[c].name
Kind(c)      == job.command[c].kind
Overwrite(c) == job.command[c].overwrite

Goto(c, step) == pc' = [pc EXCEPT ![c] = step]

Running(c) == pc[c] \notin {"start", "done", "failed"}

(***************************************************************************)
(* The database.                                                           *)
(***************************************************************************)
IdsOf(uri) == {f.id : f \in {g \in filenames : g.uri = uri}}

Contains(kind, id) == \E e \in entries : e.kind = kind /\ e.id = id

(* An entry that a command removes is no longer covered for the others.    *)
Remove(kind, ids) ==
  /\ entries' = {e \in entries : ~ (e.kind = kind /\ e.id \in ids)}
  /\ covered' = [c \in Clients |-> IF Kind(c) = kind THEN covered[c] \ ids ELSE covered[c]]

(***************************************************************************)
(* A command's loop over its URIs.                                         *)
(***************************************************************************)
Start(c) ==
  /\ pc[c] = "start"
  /\ Goto(c, CASE Name(c) = "all"        -> IF Overwrite(c) THEN "drop" ELSE "list"
               [] Name(c) = "violations" -> "list"
               [] OTHER                  -> "next")
  /\ todo' = [todo EXCEPT ![c] =
                CASE Name(c) \in {"register", "uri"} -> {job.command[c].uri}
                  [] Name(c) = "dataset" -> {u \in Uris : files[u] # Missing}
                  [] OTHER -> {}]
  /\ overlap' = overlap \cup {{c, d} : d \in {e \in Clients : Running(e)}}
  /\ UNCHANGED <<job, files, server, database, current, nested, handle, batch, listed,
                 covered, replaced, faults>>

Drop(c) ==
  /\ pc[c] = "drop"
  /\ Remove(Kind(c), Bytes)
  /\ Goto(c, "list")
  /\ UNCHANGED <<job, files, server, filenames, todo, current, nested, handle, batch,
                 listed, overlap, replaced, faults>>

(* read_uris. *)
List(c) ==
  /\ pc[c] = "list"
  /\ todo' = [todo EXCEPT ![c] = {f.uri : f \in filenames}]
  /\ listed' = [listed EXCEPT ![c] = {f.uri : f \in filenames}]
  /\ Goto(c, IF Name(c) = "violations" THEN "specifications" ELSE "next")
  /\ UNCHANGED <<job, files, server, database, current, nested, handle, batch, ghosts>>

(* get_violations_all asks for the specifications of every file first, by  *)
(* the identifier the database has for it.                                 *)
ReadSpecifications(c) ==
  /\ pc[c] = "specifications"
  /\ \/ /\ todo[c] = {}
        /\ todo' = [todo EXCEPT ![c] = listed[c]] /\ Goto(c, "next")
     \/ \E u \in todo[c] :
          \/ \E id \in IdsOf(u) :
               /\ Contains("specifications", id)
               /\ todo' = [todo EXCEPT ![c] = @ \ {u}] /\ UNCHANGED pc
          \/ /\ IdsOf(u) = {} \/ \E id \in IdsOf(u) : ~ Contains("specifications", id)
             /\ Goto(c, "failed") /\ UNCHANGED todo
  /\ UNCHANGED <<job, files, server, database, current, nested, handle, batch, listed, ghosts>>

NextUri(c) ==
  /\ pc[c] = "next"
  /\ \E u \in todo[c] :
       /\ todo' = [todo EXCEPT ![c] = @ \ {u}]
       /\ current' = [current EXCEPT ![c] = u]
       /\ Goto(c, CASE Name(c) \in {"all", "violations"} -> "register"
                    [] Name(c) \in {"register", "dataset"} /\ Overwrite(c) -> "forget"
                    [] OTHER -> "lookup")
  /\ UNCHANGED <<job, files, server, database, nested, handle, batch, listed, ghosts>>

(* delete_filenames_entry. *)
Forget(c) ==
  /\ pc[c] = "forget"
  /\ filenames' = {f \in filenames : f.uri # current[c]}
  /\ Goto(c, "lookup")
  /\ UNCHANGED <<job, files, server, entries, todo, current, nested, handle, batch, listed,
                 ghosts>>

(* read_id_for_uri, and what the three places that call it do.             *)
Lookup(c) ==
  /\ pc[c] = "lookup"
  /\ IF IdsOf(current[c]) # {}
     THEN Goto(c, IF nested[c] THEN "confirm" ELSE IF Name(c) = "uri" THEN "register" ELSE "next")
          /\ UNCHANGED nested
     ELSE IF Name(c) = "uri" /\ ~ nested[c]
     THEN nested' = [nested EXCEPT ![c] = TRUE]
          /\ Goto(c, IF Overwrite(c) THEN "forget" ELSE "lookup")
     ELSE Goto(c, "register") /\ UNCHANGED nested
  /\ UNCHANGED <<job, files, server, database, todo, current, handle, batch, listed, ghosts>>

(* re_register_bitcode looks again after it registered. *)
Confirm(c) ==
  /\ pc[c] = "confirm"
  /\ Goto(c, IF IdsOf(current[c]) # {} THEN "register" ELSE "failed")
  /\ nested' = [nested EXCEPT ![c] = FALSE]
  /\ UNCHANGED <<job, files, server, database, todo, current, handle, batch, listed, ghosts>>

(***************************************************************************)
(* RegisterBitcode: the handler reads the file, hashes it, and enters the  *)
(* URI under the hash.                                                     *)
(***************************************************************************)
(* Mutant: the handlers share the string the hash is written to. *)
ReadFileShared(c) ==
  /\ pc[c] = "register"
  /\ IF files[current[c]] = Missing
     THEN Goto(c, "failed") /\ UNCHANGED handle
     ELSE handle' = [d \in Clients |-> files[current[c]]] /\ Goto(c, "store")
  /\ UNCHANGED <<job, files, server, database, todo, current, nested, batch, listed, ghosts>>

ReadFile(c) ==
  /\ pc[c] = "register"
  /\ IF files[current[c]] = Missing
     THEN Goto(c, "failed") /\ UNCHANGED handle
     ELSE handle' = [handle EXCEPT ![c] = files[current[c]]] /\ Goto(c, "store")
  /\ UNCHANGED <<job, files, server, database, todo, current, nested, batch, listed, ghosts>>

Stored(h, uri) == And(registered, h, uri)

StoreHandle(c) ==
  /\ pc[c] = "store"
  /\ registered' = Stored(handle[c], current[c])
  /\ Goto(c, IF nested[c] \/ Name(c) \in {"register", "dataset"} THEN "find"
             ELSE IF Overwrite(c) /\ Name(c) \in {"uri", "violations"} THEN "delete"
             ELSE "check")
  /\ UNCHANGED <<job, files, annotation, database, todo, current, nested, handle, batch,
                 listed, ghosts>>

(* insert_bitcode: a find of the URI and an insert. *)
AfterInsert(c) == IF nested[c] THEN "confirm" ELSE "next"

Find(c) ==
  /\ pc[c] = "find"
  /\ Goto(c, IF IdsOf(current[c]) # {} THEN AfterInsert(c) ELSE "insert")
  /\ UNCHANGED <<job, files, server, database, todo, current, nested, handle, batch, listed,
                 ghosts>>

Insert(c) ==
  /\ pc[c] = "insert"
  /\ filenames' = filenames \cup {[uri |-> current[c], id |-> handle[c], by |-> c]}
  /\ Goto(c, AfterInsert(c))
  /\ UNCHANGED <<job, files, server, entries, todo, current, nested, handle, batch, listed,
                 ghosts>>

(* delete_called_functions and its like. *)
Delete(c) ==
  /\ pc[c] = "delete"
  /\ Remove(Kind(c), {handle[c]})
  /\ Goto(c, "check")
  /\ UNCHANGED <<job, files, server, filenames, todo, current, nested, handle, batch, listed,
                 overlap, replaced, faults>>

Queued == Task("queued", "nowhere", Empty, 0)

(* Mutant: the entry is looked for in another collection. *)
CheckElsewhere(c) ==
  /\ pc[c] = "check"
  /\ IF Contains("specifications", handle[c])
     THEN Goto(c, IF Name(c) = "all" THEN "next" ELSE "done") /\ UNCHANGED batch
     ELSE batch' = [batch EXCEPT ![c] = And(@, handle[c], Queued)] /\ Goto(c, "next")
  /\ covered' = [covered EXCEPT ![c] = @ \cup {handle[c]}]
  /\ UNCHANGED <<job, files, server, database, todo, current, nested, handle, listed,
                 overlap, replaced, faults>>

(* collection_contains_id.  Where the entry exists, get_violations returns, *)
(* and with it the whole command: the handles gathered so far are dropped. *)
Check(c) ==
  /\ pc[c] = "check"
  /\ IF Contains(Kind(c), handle[c])
     THEN Goto(c, IF Name(c) = "all" THEN "next" ELSE "done") /\ UNCHANGED batch
     ELSE batch' = [batch EXCEPT ![c] = And(@, handle[c], Queued)] /\ Goto(c, "next")
  /\ covered' = [covered EXCEPT ![c] = @ \cup {handle[c]}]
  /\ UNCHANGED <<job, files, server, database, todo, current, nested, handle, listed,
                 overlap, replaced, faults>>

(* Mutant: a command that found one entry does not submit the others. *)
SubmitUnlessPartial(c) ==
  /\ pc[c] = "next" /\ todo[c] = {}
  /\ Goto(c, IF DOMAIN batch[c] # covered[c] THEN "done" ELSE "wait")
  /\ UNCHANGED <<job, files, server, database, todo, current, nested, handle, batch, listed,
                 ghosts>>

Submit(c) ==
  /\ pc[c] = "next" /\ todo[c] = {}
  /\ Goto(c, "wait")
  /\ UNCHANGED <<job, files, server, database, todo, current, nested, handle, batch, listed,
                 ghosts>>

(***************************************************************************)
(* The tasks.  Those of the bitcode server look their handle up and read   *)
(* the file; the checker's gets the bytes through DownloadBitcode.         *)
(***************************************************************************)
Downloads(c) == Name(c) = "violations"

TaskAt(c, h, step) == pc[c] = "wait" /\ h \in DOMAIN batch[c] /\ batch[c][h].step = step

SetTask(c, h, t) ==
  /\ batch' = [batch EXCEPT ![c][h] = t]
  /\ UNCHANGED <<job, files, server, database, pc, todo, current, nested, handle, listed>>

(* What is left to send after a chunk. *)
Rest(bytes, got) == IF bytes = Empty THEN 0 ELSE Length[bytes] - got

(* parseIR: an empty buffer is an empty module.  What cannot be parsed is  *)
(* an error of the bitcode server, whose operation is done and whose       *)
(* unpacked response is the default one, and an operation the checker      *)
(* never marks done.                                                       *)
Parsed(c, bytes, whole) ==
  IF bytes = Empty \/ (whole /\ bytes \notin Unparsable) THEN Task("ready", "nowhere", bytes, 0)
  ELSE IF Downloads(c) THEN Task("undone", "nowhere", bytes, 0)
  ELSE Task("ready", "nowhere", Empty, 0)

(* GetBitcodeUriForHandle, or the throwing at() of DownloadBitcode: the    *)
(* response, the error's or the empty stream's, is that of an empty module.*)
TaskLookup(c, h) ==
  /\ TaskAt(c, h, "queued")
  /\ SetTask(c, h, IF h \in DOMAIN registered THEN Task("read", registered[h], Empty, 0)
                   ELSE Task("ready", "nowhere", Empty, 0))
  /\ UNCHANGED ghosts

(* Mutant: the task reads the file of its client's last registration. *)
TaskReadCurrent(c, h) ==
  /\ TaskAt(c, h, "read")
  /\ LET found == files[current[c]]
         bytes == IF found = Missing THEN Empty ELSE found
     IN SetTask(c, h, IF Downloads(c) /\ found # Missing THEN Task("stream", "nowhere", bytes, 0)
                      ELSE Parsed(c, bytes, TRUE))
  /\ UNCHANGED ghosts

(* ReadUriIntoString, whose status only DownloadBitcode looks at. *)
TaskRead(c, h) ==
  /\ TaskAt(c, h, "read")
  /\ LET found == files[batch[c][h].uri]
         bytes == IF found = Missing THEN Empty ELSE found
     IN SetTask(c, h, IF Downloads(c) /\ found # Missing THEN Task("stream", "nowhere", bytes, 0)
                      ELSE Parsed(c, bytes, TRUE))
  /\ UNCHANGED ghosts

(* Mutant: the chunk that fills the file exactly is not sent. *)
SendUnlessLast(c, h) ==
  /\ TaskAt(c, h, "stream")
  /\ LET t    == batch[c][h]
         sent == IF Rest(t.bytes, t.got) <= ChunkSize THEN 0 ELSE ChunkSize
     IN SetTask(c, h, IF sent = 0 THEN Parsed(c, t.bytes, Rest(t.bytes, t.got) = 0)
                      ELSE [t EXCEPT !.got = @ + sent])
  /\ UNCHANGED ghosts

(* One turn of the do loop: the reader stops when the stream has ended.    *)
SendChunk(c, h) ==
  /\ TaskAt(c, h, "stream")
  /\ LET t    == batch[c][h]
         sent == IF Rest(t.bytes, t.got) < ChunkSize THEN Rest(t.bytes, t.got) ELSE ChunkSize
     IN SetTask(c, h, IF Rest(t.bytes, t.got + sent) > 0 THEN [t EXCEPT !.got = @ + sent]
                      ELSE Parsed(c, t.bytes, Rest(t.bytes, t.got + sent) = 0))
  /\ UNCHANGED ghosts

(* The stream breaks: Read returns false, as at its end, and what came is  *)
(* parsed.                                                                 *)
BreakStream(c, h) ==
  /\ job.faulty /\ faults.breaks < MaxFaults /\ TaskAt(c, h, "stream")
  /\ LET t == batch[c][h]
     IN SetTask(c, h, IF t.got = 0 THEN Parsed(c, Empty, TRUE) ELSE Parsed(c, t.bytes, FALSE))
  /\ faults' = [faults EXCEPT !.breaks = @ + 1]
  /\ UNCHANGED <<covered, overlap, replaced>>

(* Mutant: a delivered operation is still waited for. *)
DeliverAgain(c, h) ==
  /\ TaskAt(c, h, "ready")
  /\ entries' = entries \cup
       {[kind |-> Kind(c), id |-> h, content |-> batch[c][h].bytes, by |-> c]}
  /\ UNCHANGED <<job, files, server, filenames, command, ghosts>>

(* The answer arrives and notify inserts it. *)
Deliver(c, h) ==
  /\ TaskAt(c, h, "ready")
  /\ entries' = entries \cup
       {[kind |-> Kind(c), id |-> h, content |-> batch[c][h].bytes, by |-> c]}
  /\ batch' = [batch EXCEPT ![c] = Without(@, h)]
  /\ UNCHANGED <<job, files, server, filenames, pc, todo, current, nested, handle, listed,
                 ghosts>>

Finish(c) ==
  /\ pc[c] = "wait" /\ DOMAIN batch[c] = {}
  /\ Goto(c, "done")
  /\ UNCHANGED <<job, files, server, database, todo, current, nested, handle, batch, listed,
                 ghosts>>

(***************************************************************************)
(* Annotate: the output is truncated when it is opened, then written, then *)
(* registered like any file.  What cannot be read is parsed, annotated and *)
(* written as an empty module: the status of ReadUriIntoString is not      *)
(* looked at (bitcode_server.cc 342).                                      *)
(***************************************************************************)
AnnotateRead ==
  /\ annotation.step = "idle"
  /\ \E output \in job.annotate, h \in DOMAIN registered :
       LET found == files[registered[h]]
           bytes == IF found = Missing THEN Empty ELSE found
       IN /\ bytes \notin Unparsable
          /\ annotation' = [step |-> "open", bytes |-> AnnotatedAs[bytes], output |-> output]
  /\ UNCHANGED <<job, files, registered, database, command, ghosts>>

(* The file of a URI gets other content. *)
Rewrite(uri, bytes) ==
  /\ files' = [files EXCEPT ![uri] = bytes]
  /\ replaced' = replaced \cup ({files[uri]} \ {Missing, bytes})

AnnotateOpen ==
  /\ annotation.step = "open"
  /\ Rewrite(annotation.output, Empty)
  /\ annotation' = [annotation EXCEPT !.step = "write"]
  /\ UNCHANGED <<job, registered, database, command, covered, overlap, faults>>

AnnotateWrite ==
  /\ annotation.step = "write"
  /\ Rewrite(annotation.output, annotation.bytes)
  /\ annotation' = [annotation EXCEPT !.step = "hash"]
  /\ UNCHANGED <<job, registered, database, command, covered, overlap, faults>>

AnnotateHash ==
  /\ annotation.step = "hash"
  /\ annotation' = IF files[annotation.output] = Missing THEN [annotation EXCEPT !.step = "ended"]
                   ELSE [annotation EXCEPT !.step = "store", !.bytes = files[annotation.output]]
  /\ UNCHANGED <<job, files, registered, database, command, ghosts>>

AnnotateStore ==
  /\ annotation.step = "store"
  /\ registered' = Stored(annotation.bytes, annotation.output)
  /\ annotation' = [annotation EXCEPT !.step = "ended"]
  /\ UNCHANGED <<job, files, database, command, ghosts>>

(***************************************************************************)
(* What happens around the program: a file is rebuilt or removed, and the  *)
(* bitcode server restarts with an empty registry, which ends the calls    *)
(* and tasks that were in it, breaks its streams, and fails the clients    *)
(* that poll it.                                                           *)
(***************************************************************************)
ChangeFile(u, bytes) ==
  /\ job.faulty /\ faults.changes < MaxFaults /\ bytes # files[u]
  /\ Rewrite(u, bytes)
  /\ faults' = [faults EXCEPT !.changes = @ + 1]
  /\ UNCHANGED <<job, server, database, command, covered, overlap>>

Interrupted(c) == pc[c] = "store" \/ (pc[c] = "wait" /\ ~ Downloads(c) /\ DOMAIN batch[c] # {})

AfterRestart(c, t) ==
  IF ~ (pc[c] = "wait" /\ t.step \in {"read", "stream"}) THEN t
  ELSE IF t.got = 0 THEN Parsed(c, Empty, TRUE) ELSE Parsed(c, t.bytes, FALSE)

Restart ==
  /\ job.faulty /\ faults.restarts < MaxFaults
  /\ registered' = [h \in {} |-> "nowhere"]
  /\ annotation' = IF annotation.step = "idle" THEN Idle ELSE [annotation EXCEPT !.step = "ended"]
  /\ pc' = [c \in Clients |-> IF Interrupted(c) THEN "failed" ELSE pc[c]]
  /\ batch' = [c \in Clients |-> [h \in DOMAIN batch[c] |-> AfterRestart(c, batch[c][h])]]
  /\ faults' = [faults EXCEPT !.restarts = @ + 1]
  /\ UNCHANGED <<job, files, database, todo, current, nested, handle, listed,
                 covered, overlap, replaced>>

(***************************************************************************)
(* The specification.                                                      *)
(***************************************************************************)
TaskStep(c) ==
  \E h \in DOMAIN batch[c] :
    TaskLookup(c, h) \/ TaskRead(c, h) \/ SendChunk(c, h) \/ Deliver(c, h)

ClientStep(c) ==
  \/ Start(c) \/ Drop(c) \/ List(c) \/ ReadSpecifications(c) \/ NextUri(c) \/ Forget(c)
  \/ Lookup(c) \/ Confirm(c) \/ ReadFile(c) \/ StoreHandle(c) \/ Find(c) \/ Insert(c)
  \/ Delete(c) \/ Check(c) \/ Submit(c) \/ TaskStep(c) \/ Finish(c)

AnnotateStep ==
  AnnotateRead \/ AnnotateOpen \/ AnnotateWrite \/ AnnotateHash \/ AnnotateStore

Environment ==
  \/ \E u \in Uris, bytes \in Contents \cup {Missing} : ChangeFile(u, bytes)
  \/ \E c \in Clients : \E h \in DOMAIN batch[c] : BreakStream(c, h)
  \/ Restart

Next == (\E c \in Clients : ClientStep(c)) \/ AnnotateStep \/ Environment

Spec == Init /\ [][Next]_vars

(* A command that was started, and the server's threads that serve it, run. *)
FairSpec == Spec /\ \A c \in Clients : WF_vars(ClientStep(c))

(***************************************************************************)
(* Properties.                                                             *)
(***************************************************************************)
(* bitcode.proto 13: a handle is the hash of the file.  The server's map,  *)
(* and the filenames collection, point at a file of that content unless    *)
(* the file was rewritten.                                                 *)
Justified(id, uri) == files[uri] = id \/ id \in replaced

HandlesAreJustified ==
  /\ \A h \in DOMAIN registered : Justified(h, registered[h])
  /\ \A f \in filenames : Justified(f.id, f.uri)

(* An entry was computed from the content its identifier stands for, with  *)
(* whichever file the server read it from, unless that content was         *)
(* replaced; it is that of an empty module only after a restart or a       *)
(* broken download, or where there is no IR in the file.                   *)
EntriesAreJustified ==
  \A e \in entries :
    \/ e.content = e.id
    \/ e.id \in replaced
    \/ e.content = Empty /\ (e.id \in Unparsable \/ faults.restarts + faults.breaks > 0)

(* The checks before the inserts keep one entry per file and per           *)
(* identifier, and miss an entry only of a command that ran at the same    *)
(* time.                                                                   *)
DuplicatesNeedOverlap ==
  /\ \A f, g \in filenames : f.uri = g.uri /\ f.by # g.by => {f.by, g.by} \in overlap
  /\ \A d, e \in entries :
       d.kind = e.kind /\ d.id = e.id /\ d.by # e.by => {d.by, e.by} \in overlap

(* cli/bitcode/commands.py 138: a Get command that ends has left an entry  *)
(* of each file it saw, or met one, that no other command has removed.     *)
CommandsCover ==
  \A c \in Clients :
    pc[c] = "done" /\ Name(c) \in {"uri", "all"} =>
      /\ \A id \in covered[c] : Contains(Kind(c), id)
      /\ \A u \in listed[c] :
           (replaced = {} /\ \A d \in Clients : d # c => ~ Overwrite(d))
             => Contains(Kind(c), files[u])

(* A download that was not cut off is whole: the checker fails to parse    *)
(* only what is no IR.                                                     *)
DownloadsAreWhole ==
  \A c \in Clients : \A h \in DOMAIN batch[c] :
    batch[c][h].step = "undone" =>
      batch[c][h].bytes \in Unparsable \/ faults.restarts + faults.breaks > 0

(* Every command ends, or waits for an operation the checker left undone.  *)
CommandsEnd ==
  \A c \in Clients :
    <>(pc[c] \in {"done", "failed"} \/ \E h \in DOMAIN batch[c] : batch[c][h].step = "undone")

(* cli/checker/commands.py 39, get_violations_all: "Gets violations for    *)
(* all bitcode files registered with MongoDB."                             *)
AllFilesAreChecked ==
  \A c \in Clients :
    pc[c] = "done" /\ Name(c) = "violations" => \A u \in listed[c] : Contains(Kind(c), files[u])
=============================================================================
