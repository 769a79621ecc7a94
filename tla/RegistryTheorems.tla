-------------------------- MODULE RegistryTheorems --------------------------
(***************************************************************************)
(* For every set of clients, files, contents and jobs: what the registry   *)
(* and the database hold is justified by the content it was computed from, *)
(* what is downloaded is a whole file, two entries of one module come from *)
(* commands that overlapped, and a command that ends has covered its part. *)
(*                                                                         *)
(* HandlesAreJustified is not inductive: a handle is on its way to the     *)
(* map, to the filenames collection, or in a task while the file it was    *)
(* computed from may change.  IInv adds what each place on that way knows: *)
(* PlacesInv for the handles of commands and of Annotate, TasksInv for the *)
(* tasks.  TypeInv says where the functions are defined.  OverlapInv keeps *)
(* who has met whom, CoverInv what a command has in its batch, its loop or *)
(* the database for each file that it covers.                              *)
(***************************************************************************)
EXTENDS Registry, TLAPS

TaskSteps == {"queued", "read", "stream", "ready", "undone"}

AnnotationSteps == {"idle", "open", "write", "hash", "store", "ended"}

Tasks == [step : TaskSteps, uri : Uris \cup {"nowhere"}, bytes : Bytes, got : Nat]

AtUri == {"forget", "lookup", "confirm", "register", "store", "find", "insert", "delete", "check"}

Steps ==
  AtUri \cup {"start", "drop", "list", "specifications", "next", "wait", "done", "failed"}

BatchType(f) ==
  /\ DOMAIN f \subseteq Bytes /\ f = [h \in DOMAIN f |-> f[h]]
  /\ \A h \in DOMAIN f : f[h] \in Tasks

FilesInv ==
  /\ job \in Jobs
  /\ files \in [Uris -> Bytes \cup {Missing}]
  /\ DOMAIN registered \subseteq Bytes
  /\ \A h \in DOMAIN registered : registered[h] \in Uris
  /\ annotation \in [step : AnnotationSteps, bytes : Bytes, output : Uris \cup {"nowhere"}]
  /\ annotation.step \in {"open", "write", "hash", "store"} => annotation.output \in Uris
  /\ \A f \in filenames : f.uri \in Uris /\ f.id \in Bytes
  /\ faults \in [changes : Nat, restarts : Nat, breaks : Nat]

LoopInv ==
  /\ pc \in [Clients -> Steps]
  /\ handle \in [Clients -> Bytes]
  /\ todo \in [Clients -> SUBSET Uris] /\ listed \in [Clients -> SUBSET Uris]
  /\ current \in [Clients -> Uris \cup {"nowhere"}]
  /\ \A c \in Clients : pc[c] \in AtUri => current[c] \in Uris

BatchInv ==
  /\ batch = [c \in Clients |-> batch[c]]
  /\ \A c \in Clients : BatchType(batch[c])

TypeInv == FilesInv /\ LoopInv /\ BatchInv

Faulted == faults.restarts + faults.breaks > 0

PlacesInv ==
  /\ \A c \in Clients :
       /\ pc[c] \in {"store", "find", "insert"} => Justified(handle[c], current[c])
       /\ pc[c] \in {"delete", "check"} => handle[c] \in DOMAIN registered \/ Faulted
  /\ annotation.step = "store" => Justified(annotation.bytes, annotation.output)

TaskInv(h, t) ==
  /\ t.step = "queued" => h \in DOMAIN registered \/ Faulted
  /\ t.step = "read" => t.uri \in Uris /\ Justified(h, t.uri)
  /\ t.step = "stream" => t.bytes = h \/ h \in replaced
  /\ t.step = "ready" =>
       t.bytes = h \/ h \in replaced \/ (t.bytes = Empty /\ (h \in Unparsable \/ Faulted))
  /\ t.step = "undone" => t.bytes \in Unparsable \/ Faulted

TasksInv == \A c \in Clients : \A h \in DOMAIN batch[c] : TaskInv(h, batch[c][h])

IInv == TypeInv /\ HandlesAreJustified /\ EntriesAreJustified /\ PlacesInv /\ TasksInv

LEMMA InitInv == Init => IInv
<1> SUFFICES ASSUME Init PROVE IInv
  OBVIOUS
<1>1. FilesInv
  BY JobsAreConsistent DEF Init, FilesInv, Idle, Bytes, AnnotationSteps
<1>2. LoopInv
  BY DEF Init, LoopInv, AtUri, Steps, Bytes
<1>3. BatchInv
  BY DEF Init, BatchInv, BatchType, Bytes
<1>4. HandlesAreJustified /\ EntriesAreJustified
  BY JobsAreConsistent DEF Init, HandlesAreJustified, EntriesAreJustified, Justified
<1>5. PlacesInv /\ TasksInv
  BY DEF Init, PlacesInv, TasksInv, Idle
<1> QED
  BY <1>1, <1>2, <1>3, <1>4, <1>5 DEF IInv, TypeInv

LEMMA StartInv == ASSUME IInv, NEW c \in Clients, Start(c) PROVE IInv'
<1>1. FilesInv'
  BY DEF Start, IInv, TypeInv, FilesInv, server, database, ghosts
<1>2. LoopInv'
  BY JobsAreConsistent DEF Start, IInv, TypeInv, FilesInv, LoopInv, Goto, AtUri, Steps, Name
<1>3. BatchInv'
  BY DEF Start, IInv, TypeInv, BatchInv, BatchType
<1>4. HandlesAreJustified' /\ EntriesAreJustified'
  BY DEF Start, IInv, HandlesAreJustified, EntriesAreJustified, Justified, server, database, ghosts
<1>5. PlacesInv' /\ TasksInv'
  BY DEF Start, IInv, TypeInv, LoopInv, PlacesInv, TasksInv, TaskInv, Justified, Faulted, Goto,
         server, database, ghosts
<1> QED
  BY <1>1, <1>2, <1>3, <1>4, <1>5 DEF IInv, TypeInv

LEMMA ListInv == ASSUME IInv, NEW c \in Clients, List(c) PROVE IInv'
<1>1. FilesInv'
  BY DEF List, IInv, TypeInv, FilesInv, server, database, ghosts
<1>2. LoopInv'
  BY JobsAreConsistent DEF List, IInv, TypeInv, FilesInv, LoopInv, Goto, AtUri, Steps, Name
<1>3. BatchInv'
  BY DEF List, IInv, TypeInv, BatchInv, BatchType
<1>4. HandlesAreJustified' /\ EntriesAreJustified'
  BY DEF List, IInv, HandlesAreJustified, EntriesAreJustified, Justified, server, database, ghosts
<1>5. PlacesInv' /\ TasksInv'
  BY DEF List, IInv, TypeInv, LoopInv, PlacesInv, TasksInv, TaskInv, Justified, Faulted, Goto,
         server, database, ghosts
<1> QED
  BY <1>1, <1>2, <1>3, <1>4, <1>5 DEF IInv, TypeInv

LEMMA ReadSpecificationsInv == ASSUME IInv, NEW c \in Clients, ReadSpecifications(c) PROVE IInv'
<1>1. FilesInv'
  BY DEF ReadSpecifications, IInv, TypeInv, FilesInv, server, database, ghosts
<1>2. LoopInv'
  BY JobsAreConsistent DEF ReadSpecifications, IInv, TypeInv, FilesInv, LoopInv, Goto, AtUri, Steps, Name
<1>3. BatchInv'
  BY DEF ReadSpecifications, IInv, TypeInv, BatchInv, BatchType
<1>4. HandlesAreJustified' /\ EntriesAreJustified'
  BY DEF ReadSpecifications, IInv, HandlesAreJustified, EntriesAreJustified, Justified, server, database, ghosts
<1>5. PlacesInv' /\ TasksInv'
  BY DEF ReadSpecifications, IInv, TypeInv, LoopInv, PlacesInv, TasksInv, TaskInv, Justified, Faulted, Goto,
         server, database, ghosts
<1> QED
  BY <1>1, <1>2, <1>3, <1>4, <1>5 DEF IInv, TypeInv

LEMMA NextUriInv == ASSUME IInv, NEW c \in Clients, NextUri(c) PROVE IInv'
<1>1. FilesInv'
  BY DEF NextUri, IInv, TypeInv, FilesInv, server, database, ghosts
<1>2. LoopInv'
  BY JobsAreConsistent DEF NextUri, IInv, TypeInv, FilesInv, LoopInv, Goto, AtUri, Steps, Name
<1>3. BatchInv'
  BY DEF NextUri, IInv, TypeInv, BatchInv, BatchType
<1>4. HandlesAreJustified' /\ EntriesAreJustified'
  BY DEF NextUri, IInv, HandlesAreJustified, EntriesAreJustified, Justified, server, database, ghosts
<1>5. PlacesInv' /\ TasksInv'
  BY DEF NextUri, IInv, TypeInv, LoopInv, PlacesInv, TasksInv, TaskInv, Justified, Faulted, Goto,
         server, database, ghosts
<1> QED
  BY <1>1, <1>2, <1>3, <1>4, <1>5 DEF IInv, TypeInv

LEMMA LookupInv == ASSUME IInv, NEW c \in Clients, Lookup(c) PROVE IInv'
<1>1. FilesInv'
  BY DEF Lookup, IInv, TypeInv, FilesInv, server, database, ghosts
<1>2. LoopInv'
  BY JobsAreConsistent DEF Lookup, IInv, TypeInv, FilesInv, LoopInv, Goto, AtUri, Steps, Name
<1>3. BatchInv'
  BY DEF Lookup, IInv, TypeInv, BatchInv, BatchType
<1>4. HandlesAreJustified' /\ EntriesAreJustified'
  BY DEF Lookup, IInv, HandlesAreJustified, EntriesAreJustified, Justified, server, database, ghosts
<1>5. PlacesInv' /\ TasksInv'
  BY DEF Lookup, IInv, TypeInv, LoopInv, PlacesInv, TasksInv, TaskInv, Justified, Faulted, Goto,
         server, database, ghosts
<1> QED
  BY <1>1, <1>2, <1>3, <1>4, <1>5 DEF IInv, TypeInv

LEMMA ConfirmInv == ASSUME IInv, NEW c \in Clients, Confirm(c) PROVE IInv'
<1>1. FilesInv'
  BY DEF Confirm, IInv, TypeInv, FilesInv, server, database, ghosts
<1>2. LoopInv'
  BY JobsAreConsistent DEF Confirm, IInv, TypeInv, FilesInv, LoopInv, Goto, AtUri, Steps, Name
<1>3. BatchInv'
  BY DEF Confirm, IInv, TypeInv, BatchInv, BatchType
<1>4. HandlesAreJustified' /\ EntriesAreJustified'
  BY DEF Confirm, IInv, HandlesAreJustified, EntriesAreJustified, Justified, server, database, ghosts
<1>5. PlacesInv' /\ TasksInv'
  BY DEF Confirm, IInv, TypeInv, LoopInv, PlacesInv, TasksInv, TaskInv, Justified, Faulted, Goto,
         server, database, ghosts
<1> QED
  BY <1>1, <1>2, <1>3, <1>4, <1>5 DEF IInv, TypeInv

LEMMA FindInv == ASSUME IInv, NEW c \in Clients, Find(c) PROVE IInv'
<1>1. FilesInv'
  BY DEF Find, IInv, TypeInv, FilesInv, server, database, ghosts
<1>2. LoopInv'
  BY JobsAreConsistent DEF Find, IInv, TypeInv, FilesInv, LoopInv, Goto, AtUri, Steps, Name, AfterInsert
<1>3. BatchInv'
  BY DEF Find, IInv, TypeInv, BatchInv, BatchType
<1>4. HandlesAreJustified' /\ EntriesAreJustified'
  BY DEF Find, IInv, HandlesAreJustified, EntriesAreJustified, Justified, server, database, ghosts
<1>5. PlacesInv' /\ TasksInv'
  BY DEF Find, IInv, TypeInv, LoopInv, PlacesInv, TasksInv, TaskInv, Justified, Faulted, Goto,
         server, database, ghosts, AfterInsert
<1> QED
  BY <1>1, <1>2, <1>3, <1>4, <1>5 DEF IInv, TypeInv

LEMMA SubmitInv == ASSUME IInv, NEW c \in Clients, Submit(c) PROVE IInv'
<1>1. FilesInv'
  BY DEF Submit, IInv, TypeInv, FilesInv, server, database, ghosts
<1>2. LoopInv'
  BY JobsAreConsistent DEF Submit, IInv, TypeInv, FilesInv, LoopInv, Goto, AtUri, Steps, Name
<1>3. BatchInv'
  BY DEF Submit, IInv, TypeInv, BatchInv, BatchType
<1>4. HandlesAreJustified' /\ EntriesAreJustified'
  BY DEF Submit, IInv, HandlesAreJustified, EntriesAreJustified, Justified, server, database, ghosts
<1>5. PlacesInv' /\ TasksInv'
  BY DEF Submit, IInv, TypeInv, LoopInv, PlacesInv, TasksInv, TaskInv, Justified, Faulted, Goto,
         server, database, ghosts
<1> QED
  BY <1>1, <1>2, <1>3, <1>4, <1>5 DEF IInv, TypeInv

LEMMA FinishInv == ASSUME IInv, NEW c \in Clients, Finish(c) PROVE IInv'
<1>1. FilesInv'
  BY DEF Finish, IInv, TypeInv, FilesInv, server, database, ghosts
<1>2. LoopInv'
  BY JobsAreConsistent DEF Finish, IInv, TypeInv, FilesInv, LoopInv, Goto, AtUri, Steps, Name
<1>3. BatchInv'
  BY DEF Finish, IInv, TypeInv, BatchInv, BatchType
<1>4. HandlesAreJustified' /\ EntriesAreJustified'
  BY DEF Finish, IInv, HandlesAreJustified, EntriesAreJustified, Justified, server, database, ghosts
<1>5. PlacesInv' /\ TasksInv'
  BY DEF Finish, IInv, TypeInv, LoopInv, PlacesInv, TasksInv, TaskInv, Justified, Faulted, Goto,
         server, database, ghosts
<1> QED
  BY <1>1, <1>2, <1>3, <1>4, <1>5 DEF IInv, TypeInv

(* The actions that write the database or the registry.                    *)

LEMMA DropInv == ASSUME IInv, NEW c \in Clients, Drop(c) PROVE IInv'
<1>1. FilesInv'
  BY JobsAreConsistent DEF Drop, IInv, TypeInv, FilesInv, Remove, server
<1>2. LoopInv'
  BY JobsAreConsistent DEF Drop, IInv, TypeInv, FilesInv, LoopInv, AtUri, Steps, Remove, Goto
<1>3. BatchInv'
  BY DEF Drop, IInv, TypeInv, BatchInv, BatchType
<1>4. HandlesAreJustified' /\ EntriesAreJustified'
  BY DEF Drop, IInv, TypeInv, FilesInv, HandlesAreJustified, EntriesAreJustified, Justified,
         Remove, server, Goto
<1>5. PlacesInv' /\ TasksInv'
  BY DEF Drop, IInv, TypeInv, FilesInv, LoopInv, BatchInv, PlacesInv, TasksInv, TaskInv, Justified, Faulted,
         Goto, Remove, server
<1> QED
  BY <1>1, <1>2, <1>3, <1>4, <1>5 DEF IInv, TypeInv

LEMMA ForgetInv == ASSUME IInv, NEW c \in Clients, Forget(c) PROVE IInv'
<1>1. FilesInv'
  BY JobsAreConsistent DEF Forget, IInv, TypeInv, FilesInv, server, ghosts
<1>2. LoopInv'
  BY JobsAreConsistent DEF Forget, IInv, TypeInv, FilesInv, LoopInv, AtUri, Steps, Goto
<1>3. BatchInv'
  BY DEF Forget, IInv, TypeInv, BatchInv, BatchType
<1>4. HandlesAreJustified' /\ EntriesAreJustified'
  BY DEF Forget, IInv, TypeInv, FilesInv, HandlesAreJustified, EntriesAreJustified, Justified,
         server, ghosts
<1>5. PlacesInv' /\ TasksInv'
  BY DEF Forget, IInv, TypeInv, FilesInv, LoopInv, BatchInv, PlacesInv, TasksInv, TaskInv, Justified, Faulted,
         Goto, server, ghosts
<1> QED
  BY <1>1, <1>2, <1>3, <1>4, <1>5 DEF IInv, TypeInv

LEMMA ReadFileInv == ASSUME IInv, NEW c \in Clients, ReadFile(c) PROVE IInv'
<1>1. FilesInv'
  BY JobsAreConsistent DEF ReadFile, IInv, TypeInv, FilesInv, server, database, ghosts
<1>2. LoopInv'
  BY JobsAreConsistent DEF ReadFile, IInv, TypeInv, FilesInv, LoopInv, AtUri, Steps, Goto, Bytes
<1>3. BatchInv'
  BY DEF ReadFile, IInv, TypeInv, BatchInv, BatchType
<1>4. HandlesAreJustified' /\ EntriesAreJustified'
  BY DEF ReadFile, IInv, TypeInv, FilesInv, HandlesAreJustified, EntriesAreJustified, Justified,
         server, database, ghosts
<1>5. PlacesInv' /\ TasksInv'
  BY DEF ReadFile, IInv, TypeInv, FilesInv, LoopInv, BatchInv, PlacesInv, TasksInv, TaskInv, Justified, Faulted,
         Goto, server, ghosts
<1> QED
  BY <1>1, <1>2, <1>3, <1>4, <1>5 DEF IInv, TypeInv

LEMMA StoreHandleInv == ASSUME IInv, NEW c \in Clients, StoreHandle(c) PROVE IInv'
<1>1. FilesInv'
  BY JobsAreConsistent DEF StoreHandle, IInv, TypeInv, FilesInv, database, ghosts, Stored, And, LoopInv, AtUri
<1>2. LoopInv'
  BY JobsAreConsistent DEF StoreHandle, IInv, TypeInv, FilesInv, LoopInv, AtUri, Steps, Goto, Name
<1>3. BatchInv'
  BY DEF StoreHandle, IInv, TypeInv, BatchInv, BatchType
<1>4. HandlesAreJustified' /\ EntriesAreJustified'
  BY DEF StoreHandle, IInv, TypeInv, FilesInv, HandlesAreJustified, EntriesAreJustified, Justified,
         database, ghosts, Stored, And, LoopInv, PlacesInv
<1>5. PlacesInv' /\ TasksInv'
  BY DEF StoreHandle, IInv, TypeInv, FilesInv, LoopInv, BatchInv, PlacesInv, TasksInv, TaskInv, Justified, Faulted,
         Goto, ghosts, Stored, And
<1> QED
  BY <1>1, <1>2, <1>3, <1>4, <1>5 DEF IInv, TypeInv

LEMMA InsertInv == ASSUME IInv, NEW c \in Clients, Insert(c) PROVE IInv'
<1>1. FilesInv'
  BY JobsAreConsistent DEF Insert, IInv, TypeInv, FilesInv, server, ghosts, LoopInv, AtUri
<1>2. LoopInv'
  BY JobsAreConsistent DEF Insert, IInv, TypeInv, FilesInv, LoopInv, AtUri, Steps, Goto, AfterInsert
<1>3. BatchInv'
  BY DEF Insert, IInv, TypeInv, BatchInv, BatchType
<1>4. HandlesAreJustified' /\ EntriesAreJustified'
  BY DEF Insert, IInv, TypeInv, FilesInv, HandlesAreJustified, EntriesAreJustified, Justified,
         server, ghosts, PlacesInv
<1>5. PlacesInv' /\ TasksInv'
  BY DEF Insert, IInv, TypeInv, FilesInv, LoopInv, BatchInv, PlacesInv, TasksInv, TaskInv, Justified, Faulted,
         Goto, AfterInsert, server, ghosts
<1> QED
  BY <1>1, <1>2, <1>3, <1>4, <1>5 DEF IInv, TypeInv

LEMMA DeleteInv == ASSUME IInv, NEW c \in Clients, Delete(c) PROVE IInv'
<1>1. FilesInv'
  BY JobsAreConsistent DEF Delete, IInv, TypeInv, FilesInv, Remove, server
<1>2. LoopInv'
  BY JobsAreConsistent DEF Delete, IInv, TypeInv, FilesInv, LoopInv, AtUri, Steps, Remove, Goto
<1>3. BatchInv'
  BY DEF Delete, IInv, TypeInv, BatchInv, BatchType
<1>4. HandlesAreJustified' /\ EntriesAreJustified'
  BY DEF Delete, IInv, TypeInv, FilesInv, HandlesAreJustified, EntriesAreJustified, Justified,
         Remove, server, Goto
<1>5. PlacesInv' /\ TasksInv'
  BY DEF Delete, IInv, TypeInv, FilesInv, LoopInv, BatchInv, PlacesInv, TasksInv, TaskInv, Justified, Faulted,
         Goto, Remove, server
<1> QED
  BY <1>1, <1>2, <1>3, <1>4, <1>5 DEF IInv, TypeInv

LEMMA CheckInv == ASSUME IInv, NEW c \in Clients, Check(c) PROVE IInv'
<1>1. FilesInv'
  BY JobsAreConsistent DEF Check, IInv, TypeInv, FilesInv, server, database
<1>2. LoopInv'
  BY JobsAreConsistent DEF Check, IInv, TypeInv, FilesInv, LoopInv, AtUri, Steps, Goto, Name
<1>3. BatchInv'
  BY DEF Check, IInv, TypeInv, BatchInv, LoopInv, BatchType, Tasks, TaskSteps, Task, Queued, And, Bytes
<1>4. HandlesAreJustified' /\ EntriesAreJustified'
  BY DEF Check, IInv, TypeInv, FilesInv, HandlesAreJustified, EntriesAreJustified, Justified,
         server, database
<1>5. PlacesInv' /\ TasksInv'
  BY DEF Check, IInv, TypeInv, FilesInv, LoopInv, BatchInv, PlacesInv, TasksInv, TaskInv, Justified, Faulted,
         Goto, Name, server, Queued, Task, And, BatchType
<1> QED
  BY <1>1, <1>2, <1>3, <1>4, <1>5 DEF IInv, TypeInv

(* What the tasks do.                                                      *)
LEMMA ParsedIs ==
  ASSUME FilesInv, NEW c \in Clients, NEW bytes \in Bytes, NEW whole \in BOOLEAN
  PROVE  /\ Parsed(c, bytes, whole) \in Tasks
         /\ Parsed(c, bytes, whole).step \in {"ready", "undone"}
         /\ Parsed(c, bytes, whole).step = "ready" =>
              \/ Parsed(c, bytes, whole).bytes = bytes /\ (whole \/ bytes = Empty)
              \/ /\ Parsed(c, bytes, whole).bytes = Empty
                 /\ ~ whole \/ bytes \in Unparsable
         /\ Parsed(c, bytes, whole).step = "undone" =>
              Parsed(c, bytes, whole).bytes = bytes /\ (~ whole \/ bytes \in Unparsable)
  BY DEF Parsed, Task, Tasks, TaskSteps, Bytes

LEMMA SetTaskInv ==
  ASSUME IInv, NEW c \in Clients, NEW h \in DOMAIN batch[c], NEW t \in Tasks, SetTask(c, h, t),
         pc[c] = "wait", replaced' = replaced,
         faults' \in [changes : Nat, restarts : Nat, breaks : Nat], Faulted => Faulted',
         TaskInv(h, t)'
  PROVE  IInv'
<1> USE DEF SetTask
<1>1. FilesInv'
  BY DEF IInv, TypeInv, FilesInv, server, database
<1>2. LoopInv'
  BY DEF IInv, TypeInv, LoopInv
<1>a. /\ \A d \in Clients : DOMAIN batch'[d] = DOMAIN batch[d]
      /\ \A d \in Clients : \A g \in DOMAIN batch[d] :
           batch'[d][g] = IF d = c /\ g = h THEN t ELSE batch[d][g]
  BY DEF IInv, TypeInv, BatchInv, BatchType
<1>3. BatchInv'
  BY <1>a DEF IInv, TypeInv, BatchInv, BatchType
<1>4. HandlesAreJustified' /\ EntriesAreJustified'
  BY DEF IInv, TypeInv, FilesInv, HandlesAreJustified, EntriesAreJustified, Justified, Faulted,
         server, database
<1>5. PlacesInv' /\ TasksInv'
  <2>1. PlacesInv'
    BY DEF IInv, PlacesInv, Justified, server, database
  <2>2. ASSUME NEW d \in Clients, NEW g \in DOMAIN batch[d] PROVE TaskInv(g, batch[d][g])'
    <3>1. CASE d = c /\ g = h
      BY <3>1, <1>a
    <3>2. CASE ~ (d = c /\ g = h)
      <4>1. TaskInv(g, batch[d][g])
        BY DEF IInv, TasksInv
      <4>2. batch'[d][g] = batch[d][g]
        BY <3>2, <1>a
      <4> QED
        BY <4>1, <4>2 DEF TaskInv, Justified, server
    <3> QED
      BY <3>1, <3>2
  <2>3. TasksInv'
    BY <2>2, <1>a DEF TasksInv
  <2> QED
    BY <2>1, <2>3
<1> QED
  BY <1>1, <1>2, <1>3, <1>4, <1>5 DEF IInv, TypeInv

LEMMA TaskLookupInv ==
  ASSUME IInv, NEW c \in Clients, NEW h, TaskLookup(c, h) PROVE IInv'
<1>1. h \in DOMAIN batch[c] /\ pc[c] = "wait" /\ (h \in DOMAIN registered \/ Faulted)
  BY DEF TaskLookup, TaskAt, IInv, TasksInv, TaskInv
<1>2. PICK t \in Tasks : SetTask(c, h, t) /\ TaskInv(h, t)
  <2> DEFINE s == IF h \in DOMAIN registered THEN Task("read", registered[h], Empty, 0)
                  ELSE Task("ready", "nowhere", Empty, 0)
  <2>1. SetTask(c, h, s)
    BY DEF TaskLookup
  <2>2. s \in Tasks
    BY DEF IInv, TypeInv, FilesInv, Task, Tasks, TaskSteps, Bytes
  <2>3. TaskInv(h, s)
    BY <1>1 DEF IInv, TypeInv, FilesInv, HandlesAreJustified, TaskInv, Task
  <2> HIDE DEF s
  <2> QED
    BY <2>1, <2>2, <2>3
<1>3. TaskInv(h, t)'
  BY <1>2 DEF TaskLookup, SetTask, TaskInv, Justified, Faulted, server, ghosts
<1> QED
  BY <1>1, <1>2, <1>3, SetTaskInv DEF TaskLookup, IInv, TypeInv, FilesInv, Faulted, ghosts

LEMMA TaskReadInv ==
  ASSUME IInv, NEW c \in Clients, NEW h, TaskRead(c, h) PROVE IInv'
<1> DEFINE found == files[batch[c][h].uri]
           bytes == IF found = Missing THEN Empty ELSE found
<1>1. h \in DOMAIN batch[c] /\ pc[c] = "wait" /\ FilesInv
  BY DEF TaskRead, TaskAt, IInv, TypeInv
<1>2. batch[c][h].uri \in Uris /\ Justified(h, batch[c][h].uri) /\ h \in Bytes
  BY <1>1 DEF TaskRead, TaskAt, IInv, TypeInv, BatchInv, BatchType, TasksInv, TaskInv
<1>3. bytes \in Bytes /\ (bytes = h \/ h \in replaced)
  BY <1>2, RegistryConstants DEF Justified, IInv, TypeInv, FilesInv, Bytes
<1>4. PICK t \in Tasks : SetTask(c, h, t) /\ TaskInv(h, t)
  <2>1. CASE Downloads(c) /\ found # Missing
    <3>1. SetTask(c, h, Task("stream", "nowhere", bytes, 0))
      BY <2>1 DEF TaskRead
    <3> HIDE DEF bytes
    <3> QED
      BY <3>1, <1>3 DEF Task, Tasks, TaskSteps, TaskInv
  <2>2. CASE ~ (Downloads(c) /\ found # Missing)
    <3>1. SetTask(c, h, Parsed(c, bytes, TRUE))
      BY <2>2 DEF TaskRead
    <3> HIDE DEF bytes
    <3>2. Parsed(c, bytes, TRUE) \in Tasks /\ TaskInv(h, Parsed(c, bytes, TRUE))
      BY <1>1, <1>3, ParsedIs DEF TaskInv
    <3> QED
      BY <3>1, <3>2
  <2> QED
    BY <2>1, <2>2
<1>5. TaskInv(h, t)'
  BY <1>4 DEF TaskRead, SetTask, TaskInv, Justified, Faulted, server, ghosts
<1> QED
  BY <1>1, <1>4, <1>5, SetTaskInv DEF TaskRead, FilesInv, Faulted, ghosts

LEMMA SendChunkInv ==
  ASSUME IInv, NEW c \in Clients, NEW h, SendChunk(c, h) PROVE IInv'
<1> DEFINE s == batch[c][h]
           sent == IF Rest(s.bytes, s.got) < ChunkSize THEN Rest(s.bytes, s.got) ELSE ChunkSize
<1>1. h \in DOMAIN batch[c] /\ pc[c] = "wait" /\ FilesInv /\ s \in Tasks /\ s.step = "stream"
  BY DEF SendChunk, TaskAt, IInv, TypeInv, BatchInv, BatchType
<1>2. s.bytes \in Bytes /\ (s.bytes = h \/ h \in replaced)
  BY <1>1 DEF IInv, TasksInv, TaskInv, Tasks
<1>3. PICK t \in Tasks : SetTask(c, h, t) /\ TaskInv(h, t)
  <2>1. CASE Rest(s.bytes, s.got + sent) > 0
    <3>1. SetTask(c, h, [s EXCEPT !.got = @ + sent])
      BY <2>1 DEF SendChunk
    <3>2. s.bytes # Empty
      BY <2>1 DEF Rest
    <3>3. s.got \in Nat /\ Length[s.bytes] \in Nat /\ ChunkSize \in Nat
      BY <1>1, <1>2, <3>2, RegistryConstants DEF Tasks, Bytes
    <3>4. sent \in Nat
      <4>1. Rest(s.bytes, s.got) = Length[s.bytes] - s.got
        BY <3>2 DEF Rest
      <4>2. sent # Length[s.bytes] - s.got
        BY <2>1, <3>2, <3>3 DEF Rest
      <4> QED
        BY <3>3, <4>1, <4>2
    <3> HIDE DEF sent
    <3>5. [s EXCEPT !.got = @ + sent] \in Tasks /\ TaskInv(h, [s EXCEPT !.got = @ + sent])
      BY <1>1, <1>2, <3>3, <3>4 DEF Tasks, TaskInv
    <3> QED
      BY <3>1, <3>5
  <2>2. CASE ~ (Rest(s.bytes, s.got + sent) > 0)
    <3>0. Rest(s.bytes, s.got + sent) = 0
      <4>1. CASE s.bytes = Empty
        BY <4>1 DEF Rest
      <4>2. CASE s.bytes # Empty
        <5>1. s.got \in Nat /\ Length[s.bytes] \in Nat /\ ChunkSize \in Nat
          BY <1>1, <1>2, <4>2, RegistryConstants DEF Tasks, Bytes
        <5>2. Rest(s.bytes, s.got) = Length[s.bytes] - s.got
          BY <4>2 DEF Rest
        <5>3. sent \in Int /\ sent <= Length[s.bytes] - s.got
          BY <5>1, <5>2
        <5>4. Rest(s.bytes, s.got + sent) = Length[s.bytes] - (s.got + sent)
          BY <4>2 DEF Rest
        <5> HIDE DEF sent
        <5> QED
          BY <2>2, <5>1, <5>3, <5>4
      <4> QED
        BY <4>1, <4>2
    <3>1. SetTask(c, h, Parsed(c, s.bytes, TRUE))
      BY <2>2, <3>0 DEF SendChunk
    <3>2. Parsed(c, s.bytes, TRUE) \in Tasks /\ TaskInv(h, Parsed(c, s.bytes, TRUE))
      BY <1>1, <1>2, ParsedIs DEF TaskInv
    <3> QED
      BY <3>1, <3>2
  <2> QED
    BY <2>1, <2>2
<1>4. TaskInv(h, t)'
  BY <1>3 DEF SendChunk, SetTask, TaskInv, Justified, Faulted, server, ghosts
<1> QED
  BY <1>1, <1>3, <1>4, SetTaskInv DEF SendChunk, FilesInv, Faulted, ghosts

LEMMA BreakStreamInv ==
  ASSUME IInv, NEW c \in Clients, NEW h, BreakStream(c, h) PROVE IInv'
<1>1. /\ h \in DOMAIN batch[c] /\ pc[c] = "wait" /\ FilesInv
      /\ batch[c][h] \in Tasks /\ batch[c][h].step = "stream"
  BY DEF BreakStream, TaskAt, IInv, TypeInv, BatchInv, BatchType
<1>2. PICK bytes \in Bytes, whole \in BOOLEAN :
        /\ SetTask(c, h, Parsed(c, bytes, whole)) /\ (whole => bytes = Empty)
  BY <1>1 DEF BreakStream, Tasks, Bytes
<1>3. PICK t \in Tasks : SetTask(c, h, t) /\ t.step \in {"ready", "undone"}
                         /\ (t.step = "ready" => t.bytes = Empty)
  BY <1>1, <1>2, ParsedIs
<1>4. faults' \in [changes : Nat, restarts : Nat, breaks : Nat] /\ Faulted'
  BY <1>1 DEF BreakStream, FilesInv, Faulted
<1>5. TaskInv(h, t)'
  BY <1>3, <1>4 DEF TaskInv
<1> QED
  BY <1>1, <1>3, <1>4, <1>5, SetTaskInv DEF BreakStream

LEMMA DeliverInv ==
  ASSUME IInv, NEW c \in Clients, NEW h, Deliver(c, h) PROVE IInv'
<1>1. FilesInv'
  BY DEF Deliver, IInv, TypeInv, FilesInv, server, ghosts
<1>2. LoopInv'
  BY DEF Deliver, IInv, TypeInv, LoopInv
<1>a. h \in DOMAIN batch[c] /\ batch[c][h].step = "ready"
  BY DEF Deliver, TaskAt
<1>b. /\ \A d \in Clients : DOMAIN batch'[d] \subseteq DOMAIN batch[d]
      /\ \A d \in Clients : \A g \in DOMAIN batch'[d] : batch'[d][g] = batch[d][g]
  BY DEF Deliver, Without, IInv, TypeInv, BatchInv, BatchType
<1>3. BatchInv'
  <2>1. batch' = [d \in Clients |-> IF d = c THEN Without(batch[c], h) ELSE batch[d]]
    BY DEF Deliver, IInv, TypeInv, BatchInv
  <2>2. BatchType(Without(batch[c], h))
    BY DEF Without, IInv, TypeInv, BatchInv, BatchType
  <2>3. ASSUME NEW d \in Clients PROVE BatchType(batch'[d])
    BY <2>1, <2>2 DEF IInv, TypeInv, BatchInv
  <2> QED
    BY <2>1, <2>3 DEF BatchInv, BatchType
<1>4. HandlesAreJustified' /\ EntriesAreJustified'
  <2>1. TaskInv(h, batch[c][h])
    BY <1>a DEF IInv, TasksInv
  <2> QED
    BY <1>a, <2>1 DEF Deliver, IInv, HandlesAreJustified, EntriesAreJustified, Justified, TaskInv, Faulted,
                      server, ghosts
<1>5. PlacesInv' /\ TasksInv'
  BY <1>b DEF Deliver, IInv, PlacesInv, TasksInv, TaskInv, Justified, Faulted, server, ghosts
<1> QED
  BY <1>1, <1>2, <1>3, <1>4, <1>5 DEF IInv, TypeInv

(* A file that changes leaves a replaced content behind.                   *)
LEMMA RewriteKeeps ==
  ASSUME FilesInv, NEW u \in Uris, NEW bytes \in Bytes \cup {Missing}, Rewrite(u, bytes)
  PROVE  /\ files' \in [Uris -> Bytes \cup {Missing}] /\ replaced \subseteq replaced'
         /\ \A h \in Bytes, v \in Uris : Justified(h, v) => Justified(h, v)'
  BY RegistryConstants DEF FilesInv, Rewrite, Justified, Bytes

LEMMA RewriteInv ==
  ASSUME IInv, NEW u \in Uris, NEW bytes \in Bytes \cup {Missing}, Rewrite(u, bytes),
         FilesInv', UNCHANGED <<job, registered, database, command>>,
         annotation'.step = "store" => annotation' = annotation, Faulted => Faulted'
  PROVE  IInv'
<1>a. /\ FilesInv
      /\ files' \in [Uris -> Bytes \cup {Missing}] /\ replaced \subseteq replaced'
      /\ \A h \in Bytes, v \in Uris : Justified(h, v) => Justified(h, v)'
  BY RewriteKeeps DEF IInv, TypeInv
<1>1. FilesInv'
  OBVIOUS
<1>2. LoopInv'
  BY DEF IInv, TypeInv, LoopInv, command
<1>3. BatchInv'
  BY DEF IInv, TypeInv, BatchInv, BatchType, command
<1>4. HandlesAreJustified' /\ EntriesAreJustified'
  <2>1. HandlesAreJustified'
    BY <1>a DEF IInv, HandlesAreJustified, FilesInv, database
  <2>2. EntriesAreJustified'
    BY <1>a DEF IInv, EntriesAreJustified, Faulted, database
  <2> QED
    BY <2>1, <2>2
<1>5. PlacesInv' /\ TasksInv'
  <2>1. PlacesInv'
    BY <1>a DEF IInv, TypeInv, FilesInv, LoopInv, PlacesInv, AtUri, Faulted, command
  <2>2. TasksInv'
    BY <1>a DEF IInv, TypeInv, BatchInv, BatchType, TasksInv, TaskInv, command
  <2> QED
    BY <2>1, <2>2
<1> QED
  BY <1>1, <1>2, <1>3, <1>4, <1>5 DEF IInv, TypeInv

LEMMA ChangeFileInv ==
  ASSUME IInv, NEW u \in Uris, NEW bytes \in Contents \cup {Missing}, ChangeFile(u, bytes)
  PROVE  IInv'
<1>1. Rewrite(u, bytes) /\ bytes \in Bytes \cup {Missing} /\ FilesInv
  BY DEF ChangeFile, Bytes, IInv, TypeInv
<1>2. FilesInv' /\ (Faulted => Faulted')
  BY <1>1, RewriteKeeps DEF ChangeFile, FilesInv, Faulted, server, database
<1> QED
  BY <1>1, <1>2, RewriteInv DEF ChangeFile, server

LEMMA AnnotateOpenInv == ASSUME IInv, AnnotateOpen PROVE IInv'
<1>1. /\ Rewrite(annotation.output, Empty) /\ annotation.output \in Uris
      /\ Empty \in Bytes \cup {Missing} /\ FilesInv
  BY DEF AnnotateOpen, Bytes, IInv, TypeInv, FilesInv
<1>2. FilesInv' /\ (Faulted => Faulted') /\ annotation'.step = "write"
  BY <1>1, RewriteKeeps DEF AnnotateOpen, FilesInv, AnnotationSteps, Faulted, database
<1>3. PICK u \in Uris : Rewrite(u, Empty)
  BY <1>1
<1> QED
  BY <1>1, <1>2, <1>3, RewriteInv DEF AnnotateOpen

LEMMA AnnotateWriteInv == ASSUME IInv, AnnotateWrite PROVE IInv'
<1>1. /\ Rewrite(annotation.output, annotation.bytes) /\ annotation.output \in Uris
      /\ annotation.bytes \in Bytes \cup {Missing} /\ FilesInv
  BY DEF AnnotateWrite, Bytes, IInv, TypeInv, FilesInv
<1>2. PICK u \in Uris, bytes \in Bytes \cup {Missing} : Rewrite(u, bytes)
  BY <1>1
<1>3. FilesInv' /\ (Faulted => Faulted') /\ annotation'.step = "hash"
  BY <1>1, <1>2, RewriteKeeps DEF AnnotateWrite, FilesInv, AnnotationSteps, Faulted, database
<1> QED
  BY <1>2, <1>3, RewriteInv DEF AnnotateWrite

LEMMA AnnotateReadInv == ASSUME IInv, AnnotateRead PROVE IInv'
<1>1. PICK output \in job.annotate, h \in DOMAIN registered :
        \E bytes \in {files[registered[h]], Empty} \ {Missing} :
          annotation' = [step |-> "open", bytes |-> AnnotatedAs[bytes], output |-> output]
  BY RegistryConstants DEF AnnotateRead
<1>bytes. PICK bytes \in {files[registered[h]], Empty} \ {Missing} :
            annotation' = [step |-> "open", bytes |-> AnnotatedAs[bytes], output |-> output]
  BY <1>1
<1>2. output \in Uris /\ AnnotatedAs[bytes] \in Bytes
  BY <1>1, <1>bytes, JobsAreConsistent, RegistryConstants DEF IInv, TypeInv, FilesInv, Bytes
<1>3. FilesInv' /\ annotation'.step = "open"
  BY <1>bytes, <1>2 DEF AnnotateRead, IInv, TypeInv, FilesInv, AnnotationSteps, database, ghosts
<1>4. LoopInv' /\ BatchInv'
  BY DEF AnnotateRead, IInv, TypeInv, LoopInv, BatchInv, BatchType, command
<1>5. HandlesAreJustified' /\ EntriesAreJustified'
  BY DEF AnnotateRead, IInv, HandlesAreJustified, EntriesAreJustified, Justified, database, ghosts
<1>6. PlacesInv' /\ TasksInv'
  BY <1>3 DEF AnnotateRead, IInv, PlacesInv, TasksInv, TaskInv, Justified, Faulted, command, ghosts
<1> QED
  BY <1>3, <1>4, <1>5, <1>6 DEF IInv, TypeInv

LEMMA AnnotateHashInv == ASSUME IInv, AnnotateHash PROVE IInv'
<1>1. FilesInv'
  BY DEF AnnotateHash, IInv, TypeInv, FilesInv, AnnotationSteps, database, ghosts
<1>2. LoopInv' /\ BatchInv'
  BY DEF AnnotateHash, IInv, TypeInv, LoopInv, BatchInv, BatchType, command
<1>3. HandlesAreJustified' /\ EntriesAreJustified'
  BY DEF AnnotateHash, IInv, HandlesAreJustified, EntriesAreJustified, Justified, database, ghosts
<1>4. annotation'.step = "store" =>
        annotation'.output = annotation.output /\ annotation'.bytes = files[annotation.output]
  BY DEF AnnotateHash, IInv, TypeInv, FilesInv
<1>5. PlacesInv' /\ TasksInv'
  BY <1>4 DEF AnnotateHash, IInv, PlacesInv, TasksInv, TaskInv, Justified, Faulted, command, ghosts
<1> QED
  BY <1>1, <1>2, <1>3, <1>5 DEF IInv, TypeInv

LEMMA AnnotateStoreInv == ASSUME IInv, AnnotateStore PROVE IInv'
<1>1. FilesInv'
  BY DEF AnnotateStore, Stored, And, IInv, TypeInv, FilesInv, AnnotationSteps, database, ghosts
<1>2. LoopInv' /\ BatchInv'
  BY DEF AnnotateStore, IInv, TypeInv, LoopInv, BatchInv, BatchType, command
<1>3. HandlesAreJustified' /\ EntriesAreJustified'
  BY DEF AnnotateStore, Stored, And, IInv, HandlesAreJustified, EntriesAreJustified, PlacesInv,
         Justified, database, ghosts
<1>4. DOMAIN registered \subseteq DOMAIN registered' /\ annotation'.step = "ended"
  BY DEF AnnotateStore, Stored, And, IInv, TypeInv, FilesInv
<1>5. PlacesInv' /\ TasksInv'
  BY <1>4 DEF AnnotateStore, IInv, PlacesInv, TasksInv, TaskInv, Justified, Faulted, command, ghosts
<1> QED
  BY <1>1, <1>2, <1>3, <1>5 DEF IInv, TypeInv

(* A restart is a fault: from then on an empty answer is excused.          *)
LEMMA RestartInv == ASSUME IInv, Restart PROVE IInv'
<1>1. FilesInv'
  BY DEF Restart, Idle, IInv, TypeInv, FilesInv, AnnotationSteps, Bytes, database
<1>2. LoopInv'
  BY DEF Restart, IInv, TypeInv, LoopInv, Steps, AtUri
<1>3. Faulted' /\ replaced' = replaced /\ files' = files
  BY DEF Restart, Faulted, IInv, TypeInv, FilesInv
<1>4. ASSUME NEW c \in Clients, NEW h \in DOMAIN batch[c]
      PROVE  (batch[c][h] \in Tasks /\ TaskInv(h, batch[c][h]))'
  <2>1. /\ FilesInv /\ h \in Bytes /\ batch[c][h] \in Tasks /\ TaskInv(h, batch[c][h])
        /\ batch[c][h].bytes \in Bytes /\ Empty \in Bytes
    BY DEF IInv, TypeInv, BatchInv, BatchType, TasksInv, Tasks, Bytes
  <2>2. batch'[c][h] = AfterRestart(c, batch[c][h])
    BY DEF Restart
  <2>3. PICK t : t = AfterRestart(c, batch[c][h])
    OBVIOUS
  <2>4. t = batch[c][h] \/ \E bytes \in Bytes, whole \in BOOLEAN :
          t = Parsed(c, bytes, whole) /\ (whole => bytes = Empty)
    BY <2>1, <2>3 DEF AfterRestart
  <2>5. t \in Tasks /\ TaskInv(h, t)'
    <3>1. CASE t = batch[c][h]
      <4>1. t \in Tasks /\ TaskInv(h, t)
        BY <3>1, <2>1
      <4> QED
        BY <4>1, <1>3 DEF TaskInv, Justified
    <3>2. CASE \E bytes \in Bytes, whole \in BOOLEAN :
                 t = Parsed(c, bytes, whole) /\ (whole => bytes = Empty)
      <4>1. t \in Tasks /\ t.step \in {"ready", "undone"} /\ (t.step = "ready" => t.bytes = Empty)
        BY <3>2, <2>1, ParsedIs
      <4> QED
        BY <4>1, <1>3 DEF TaskInv
    <3> QED
      BY <3>1, <3>2, <2>4
  <2>6. t = batch'[c][h]
    BY <2>2, <2>3
  <2> QED
    BY <2>5, <2>6 DEF TaskInv, Justified
<1>5. /\ batch' = [c \in Clients |-> batch'[c]]
      /\ \A c \in Clients : DOMAIN batch'[c] = DOMAIN batch[c]
      /\ \A c \in Clients : batch'[c] = [h \in DOMAIN batch'[c] |-> batch'[c][h]]
  BY DEF Restart
<1>6. BatchInv'
  BY <1>4, <1>5 DEF IInv, TypeInv, BatchInv, BatchType
<1>7. HandlesAreJustified' /\ EntriesAreJustified'
  BY <1>3 DEF Restart, IInv, HandlesAreJustified, EntriesAreJustified, Justified, Faulted, database
<1>8. PlacesInv'
  BY <1>3 DEF Restart, IInv, TypeInv, FilesInv, LoopInv, PlacesInv, Justified, Idle
<1>9. TasksInv'
  BY <1>4, <1>5 DEF TasksInv
<1> QED
  BY <1>1, <1>2, <1>6, <1>7, <1>8, <1>9 DEF IInv, TypeInv

LEMMA NextInv == IInv /\ [Next]_vars => IInv'
<1> SUFFICES ASSUME IInv, [Next]_vars PROVE IInv'
  OBVIOUS
<1>1. CASE UNCHANGED vars
  BY <1>1 DEF vars, server, database, command, ghosts, IInv, TypeInv, FilesInv, LoopInv, BatchInv,
              BatchType, HandlesAreJustified, EntriesAreJustified, Justified, PlacesInv,
              TasksInv, TaskInv, Faulted
<1>2. ASSUME NEW c \in Clients, ClientStep(c) PROVE IInv'
  <2>1. CASE TaskStep(c)
    BY <2>1, TaskLookupInv, TaskReadInv, SendChunkInv, DeliverInv DEF TaskStep
  <2>2. CASE Start(c) \/ Drop(c) \/ List(c) \/ ReadSpecifications(c) \/ NextUri(c) \/ Forget(c)
    BY <2>2, StartInv, DropInv, ListInv, ReadSpecificationsInv, NextUriInv, ForgetInv
  <2>3. CASE Lookup(c) \/ Confirm(c) \/ ReadFile(c) \/ StoreHandle(c) \/ Find(c) \/ Insert(c)
    BY <2>3, LookupInv, ConfirmInv, ReadFileInv, StoreHandleInv, FindInv, InsertInv
  <2>4. CASE Delete(c) \/ Check(c) \/ Submit(c) \/ Finish(c)
    BY <2>4, DeleteInv, CheckInv, SubmitInv, FinishInv
  <2> QED
    BY <1>2, <2>1, <2>2, <2>3, <2>4 DEF ClientStep
<1>3. CASE AnnotateStep
  BY <1>3, AnnotateReadInv, AnnotateOpenInv, AnnotateWriteInv, AnnotateHashInv, AnnotateStoreInv
  DEF AnnotateStep
<1>4. CASE Environment
  BY <1>4, ChangeFileInv, BreakStreamInv, RestartInv DEF Environment
<1> QED
  BY <1>1, <1>2, <1>3, <1>4 DEF Next

LEMMA Inductive == Spec => []IInv
  BY InitInv, NextInv, PTL DEF Spec

(* Whatever commands run, however their calls, the file changes, restarts  *)
(* and broken downloads interleave, the server's map and the filenames     *)
(* collection point at a file with the content of the handle, unless that  *)
(* content was replaced (DoRegisterBitcodeFile, insert_bitcode).           *)
THEOREM HandlesStayJustified == Spec => []HandlesAreJustified
<1>1. IInv => HandlesAreJustified
  BY DEF IInv
<1> QED
  BY <1>1, Inductive, PTL

(* Under the same conditions a stored answer is that of the content its    *)
(* identifier names, or one of the stated faults explains it (the tasks of *)
(* bitcode_server.cc, DownloadBitcode, insert_called_functions).           *)
THEOREM EntriesStayJustified == Spec => []EntriesAreJustified
<1>1. IInv => EntriesAreJustified
  BY DEF IInv
<1> QED
  BY <1>1, Inductive, PTL

(* A download is broken off only by a fault: the checker's task is left    *)
(* undone only with content that is no IR, however the file, its chunks    *)
(* and the reader's stream come together (DownloadBitcode, SendChunk).     *)
THEOREM DownloadsStayWhole == Spec => []DownloadsAreWhole
<1>1. IInv => DownloadsAreWhole
  BY DEF IInv, TasksInv, TaskInv, DownloadsAreWhole, Faulted
<1> QED
  BY <1>1, Inductive, PTL

(***************************************************************************)
(* Two commands at once.  A command that has looked for an entry and found *)
(* none will insert one; another command can insert it meanwhile only      *)
(* while both run, and overlap remembers who ran with whom.                *)
(***************************************************************************)
OverlapInv ==
  /\ DuplicatesNeedOverlap
  /\ \A c, d \in Clients : c # d /\ Running(c) /\ Running(d) => {c, d} \in overlap
  /\ \A c \in Clients :
       /\ pc[c] = "start" => DOMAIN batch[c] = {}
       /\ pc[c] = "insert" => \A f \in filenames : f.uri = current[c] => {f.by, c} \in overlap
       /\ Running(c) =>
            \A h \in DOMAIN batch[c] : \A e \in entries :
              e.kind = Kind(c) /\ e.id = h /\ e.by # c => {e.by, c} \in overlap

LEMMA InitOverlap == Init => OverlapInv
<1> SUFFICES ASSUME Init PROVE OverlapInv
  OBVIOUS
<1>1. DuplicatesNeedOverlap
  BY JobsAreConsistent DEF Init, DuplicatesNeedOverlap
<1>2. \A c \in Clients : ~ Running(c) /\ pc[c] # "insert"
  BY DEF Init, Running
<1>3. \A c \in Clients : DOMAIN batch[c] = {}
  <2>1. \A c \in Clients : batch[c] = [h \in {} |-> Task("queued", "nowhere", Empty, 0)]
    BY DEF Init
  <2> QED
    BY <2>1
<1> QED
  BY <1>1, <1>2, <1>3 DEF OverlapInv

(* A step that inserts nothing, starts no command and begins no insertion. *)
LEMMA QuietOverlap ==
  ASSUME OverlapInv, UNCHANGED <<job, overlap>>,
         filenames' \subseteq filenames, entries' \subseteq entries,
         \A c \in Clients : /\ pc'[c] \notin {"start", "done", "failed"} => Running(c)
                            /\ pc'[c] = "start" => pc[c] = "start"
                            /\ pc'[c] = "insert" => pc[c] = "insert" /\ current'[c] = current[c]
                            /\ DOMAIN batch'[c] \subseteq DOMAIN batch[c]
  PROVE  OverlapInv'
<1>1. DuplicatesNeedOverlap'
  BY DEF OverlapInv, DuplicatesNeedOverlap
<1>2. \A c \in Clients : Running(c)' => Running(c)
  BY DEF Running
<1>3. \A c \in Clients : Kind(c)' = Kind(c)
  BY DEF Kind
<1>4. \A c, d \in Clients : c # d /\ Running(c)' /\ Running(d)' => {c, d} \in overlap'
  BY <1>2 DEF OverlapInv
<1>5. \A c \in Clients :
        /\ pc'[c] = "start" => DOMAIN batch'[c] = {}
        /\ pc'[c] = "insert" => \A f \in filenames' : f.uri = current'[c] => {f.by, c} \in overlap'
  BY DEF OverlapInv
<1>6. ASSUME NEW c \in Clients, Running(c)', NEW h \in DOMAIN batch'[c], NEW e \in entries',
             e.kind = Kind(c), e.id = h, e.by # c
      PROVE  {e.by, c} \in overlap
  BY <1>2, <1>6 DEF OverlapInv
<1> QED
  BY <1>1, <1>3, <1>4, <1>5, <1>6 DEF OverlapInv

(* The commands' steps that only move on or remove.                        *)
LEMMA MovingOverlap ==
  ASSUME OverlapInv, TypeInv, NEW c \in Clients,
         \/ Drop(c) \/ List(c) \/ ReadSpecifications(c) \/ NextUri(c) \/ Forget(c) \/ Lookup(c)
         \/ Confirm(c) \/ ReadFile(c) \/ StoreHandle(c) \/ Delete(c) \/ Submit(c) \/ Finish(c)
  PROVE  OverlapInv'
<1>1. UNCHANGED <<job, overlap, batch>> /\ filenames' \subseteq filenames /\ entries' \subseteq entries
  BY DEF Drop, List, ReadSpecifications, NextUri, Forget, Lookup, Confirm, ReadFile, StoreHandle,
         Delete, Submit, Finish, Remove, database, ghosts
<1>2. /\ Running(c) /\ pc'[c] \notin {"start", "insert"}
      /\ \A d \in Clients : d # c => pc'[d] = pc[d] /\ current'[d] = current[d]
  <2>1. pc \in [Clients -> Steps] /\ current \in [Clients -> Uris \cup {"nowhere"}]
    BY DEF TypeInv, LoopInv
  <2>2. CASE Drop(c) \/ List(c) \/ ReadSpecifications(c) \/ NextUri(c) \/ Forget(c) \/ Lookup(c)
    BY <2>1, <2>2 DEF Drop, List, ReadSpecifications, NextUri, Forget, Lookup, Goto, Running
  <2>3. CASE \/ Confirm(c) \/ ReadFile(c) \/ StoreHandle(c) \/ Delete(c) \/ Submit(c) \/ Finish(c)
    BY <2>1, <2>3 DEF Confirm, ReadFile, StoreHandle, Delete, Submit, Finish, Goto, Running
  <2> QED
    BY <2>2, <2>3
<1>3. ASSUME NEW d \in Clients
      PROVE  /\ pc'[d] \notin {"start", "done", "failed"} => Running(d)
             /\ pc'[d] = "start" => pc[d] = "start"
             /\ pc'[d] = "insert" => pc[d] = "insert" /\ current'[d] = current[d]
  BY <1>2 DEF Running
<1> QED
  BY <1>1, <1>3, QuietOverlap

LEMMA StartOverlap ==
  ASSUME OverlapInv, TypeInv, NEW c \in Clients, Start(c)
  PROVE  OverlapInv'
<1>1. /\ pc[c] = "start" /\ pc'[c] \notin {"start", "insert"}
      /\ \A d \in Clients : d # c => pc'[d] = pc[d]
      /\ overlap' = overlap \cup {{c, d} : d \in {e \in Clients : Running(e)}}
      /\ UNCHANGED <<job, filenames, entries, batch, current>>
  BY DEF Start, Goto, TypeInv, LoopInv, database
<1>2. DuplicatesNeedOverlap'
  BY <1>1 DEF OverlapInv, DuplicatesNeedOverlap
<1>3. \A d, e \in Clients : d # e /\ Running(d)' /\ Running(e)' => {d, e} \in overlap'
  <2> SUFFICES ASSUME NEW d \in Clients, NEW e \in Clients, d # e, Running(d)', Running(e)'
               PROVE  {d, e} \in overlap'
    OBVIOUS
  <2>1. CASE d # c /\ e # c
    BY <1>1, <2>1 DEF OverlapInv, Running
  <2>2. CASE d = c
    <3>1. Running(e) BY <1>1, <2>2 DEF Running
    <3> QED BY <1>1, <2>2, <3>1
  <2>3. CASE e = c
    <3>1. Running(d) BY <1>1, <2>3 DEF Running
    <3>2. {d, e} = {c, d} BY <2>3
    <3> QED BY <1>1, <3>1, <3>2
  <2> QED
    BY <2>1, <2>2, <2>3
<1>4. \A d \in Clients :
        /\ pc'[d] = "start" => DOMAIN batch'[d] = {}
        /\ pc'[d] = "insert" => \A f \in filenames' : f.uri = current'[d] => {f.by, d} \in overlap'
  BY <1>1 DEF OverlapInv
<1>5. ASSUME NEW d \in Clients, Running(d)', NEW h \in DOMAIN batch'[d], NEW e \in entries',
             e.kind = Kind(d)', e.id = h, e.by # d
      PROVE  {e.by, d} \in overlap'
  <2>1. d # c
    BY <1>1, <1>5 DEF OverlapInv
  <2> QED
    BY <1>1, <1>5, <2>1 DEF OverlapInv, Running, Kind
<1> QED
  BY <1>2, <1>3, <1>4, <1>5 DEF OverlapInv

(* A find that meets no entry of the URI leaves nothing to excuse.         *)
LEMMA FindOverlap ==
  ASSUME OverlapInv, TypeInv, NEW c \in Clients, Find(c)
  PROVE  OverlapInv'
<1>1. /\ UNCHANGED <<job, overlap, filenames, entries, batch, current>>
      /\ pc[c] = "find" /\ pc'[c] # "start"
      /\ pc'[c] = "insert" => IdsOf(current[c]) = {}
      /\ \A d \in Clients : d # c => pc'[d] = pc[d]
  BY DEF Find, Goto, AfterInsert, TypeInv, LoopInv, database, ghosts
<1>2. \A d \in Clients : Running(d)' => Running(d)
  BY <1>1 DEF Running
<1>3. DuplicatesNeedOverlap'
  BY <1>1 DEF OverlapInv, DuplicatesNeedOverlap
<1>4. \A d, e \in Clients : d # e /\ Running(d)' /\ Running(e)' => {d, e} \in overlap'
  BY <1>1, <1>2 DEF OverlapInv
<1>5. ASSUME NEW d \in Clients
      PROVE  /\ pc'[d] = "start" => DOMAIN batch'[d] = {}
             /\ pc'[d] = "insert" => \A f \in filenames' : f.uri = current'[d] => {f.by, d} \in overlap'
  BY <1>1 DEF OverlapInv, IdsOf
<1>6. ASSUME NEW d \in Clients, Running(d)', NEW h \in DOMAIN batch'[d], NEW e \in entries',
             e.kind = Kind(d)', e.id = h, e.by # d
      PROVE  {e.by, d} \in overlap'
  BY <1>1, <1>2, <1>6 DEF OverlapInv, Kind
<1> QED
  BY <1>3, <1>4, <1>5, <1>6 DEF OverlapInv

(* A client that waits to insert for the same URI runs with this one.      *)
LEMMA InsertOverlap ==
  ASSUME OverlapInv, TypeInv, NEW c \in Clients, Insert(c)
  PROVE  OverlapInv'
<1>1. /\ UNCHANGED <<job, overlap, entries, batch, current>>
      /\ pc[c] = "insert" /\ pc'[c] \notin {"start", "insert"}
      /\ filenames' = filenames \cup {[uri |-> current[c], id |-> handle[c], by |-> c]}
      /\ \A d \in Clients : d # c => pc'[d] = pc[d]
  BY DEF Insert, Goto, AfterInsert, TypeInv, LoopInv, database, ghosts
<1>2. \A d \in Clients : Running(d)' => Running(d)
  BY <1>1 DEF Running
<1>3. DuplicatesNeedOverlap'
  <2>1. ASSUME NEW f \in filenames', NEW g \in filenames', f.uri = g.uri, f.by # g.by
        PROVE  {f.by, g.by} \in overlap
    <3>1. CASE f \in filenames /\ g \in filenames
      BY <2>1, <3>1 DEF OverlapInv, DuplicatesNeedOverlap
    <3>2. CASE f \in filenames /\ g \notin filenames
      <4>1. g.uri = current[c] /\ g.by = c
        BY <1>1, <3>2
      <4> QED
        BY <1>1, <2>1, <3>2, <4>1 DEF OverlapInv
    <3>3. CASE f \notin filenames /\ g \in filenames
      <4>1. f.uri = current[c] /\ f.by = c
        BY <1>1, <3>3
      <4>2. {g.by, c} \in overlap
        BY <1>1, <2>1, <3>3, <4>1 DEF OverlapInv
      <4>3. {f.by, g.by} = {g.by, c}
        BY <4>1
      <4> QED
        BY <4>2, <4>3
    <3>4. CASE f \notin filenames /\ g \notin filenames
      BY <1>1, <2>1, <3>4
    <3> QED
      BY <3>1, <3>2, <3>3, <3>4
  <2> QED
    BY <1>1, <2>1 DEF OverlapInv, DuplicatesNeedOverlap
<1>4. \A d, e \in Clients : d # e /\ Running(d)' /\ Running(e)' => {d, e} \in overlap'
  BY <1>1, <1>2 DEF OverlapInv
<1>5. ASSUME NEW d \in Clients, pc'[d] = "insert", NEW f \in filenames', f.uri = current'[d]
      PROVE  {f.by, d} \in overlap'
  <2>1. d # c /\ pc[d] = "insert" /\ Running(c) /\ Running(d)
    BY <1>1, <1>5 DEF Running
  <2>2. CASE f \in filenames
    BY <1>1, <1>5, <2>1, <2>2 DEF OverlapInv
  <2>3. CASE f \notin filenames
    <3>1. f.by = c
      BY <1>1, <2>3
    <3> QED
      BY <1>1, <2>1, <3>1 DEF OverlapInv
  <2> QED
    BY <2>2, <2>3
<1>6. ASSUME NEW d \in Clients, Running(d)', NEW h \in DOMAIN batch'[d], NEW e \in entries',
             e.kind = Kind(d)', e.id = h, e.by # d
      PROVE  {e.by, d} \in overlap'
  BY <1>1, <1>2, <1>6 DEF OverlapInv, Kind
<1>7. \A d \in Clients : pc'[d] = "start" => DOMAIN batch'[d] = {}
  BY <1>1 DEF OverlapInv
<1> QED
  BY <1>3, <1>4, <1>5, <1>6, <1>7 DEF OverlapInv

(* A handle joins the batch only where its collection has no entry of it.  *)
LEMMA CheckOverlap ==
  ASSUME OverlapInv, TypeInv, NEW c \in Clients, Check(c)
  PROVE  OverlapInv'
<1>1. /\ UNCHANGED <<job, overlap, filenames, entries, current>>
      /\ pc[c] = "check" /\ pc'[c] \notin {"start", "insert"}
      /\ \A d \in Clients : d # c => pc'[d] = pc[d]
  BY DEF Check, Goto, TypeInv, LoopInv, database
<1>2. /\ \A d \in Clients : d # c => DOMAIN batch'[d] = DOMAIN batch[d]
      /\ \A h \in DOMAIN batch'[c] : h \in DOMAIN batch[c] \/ ~ Contains(Kind(c), h)
  BY DEF Check, And, TypeInv, BatchInv
<1>3. \A d \in Clients : Running(d)' => Running(d)
  BY <1>1 DEF Running
<1>4. DuplicatesNeedOverlap'
  BY <1>1 DEF OverlapInv, DuplicatesNeedOverlap
<1>5. \A d, e \in Clients : d # e /\ Running(d)' /\ Running(e)' => {d, e} \in overlap'
  BY <1>1, <1>3 DEF OverlapInv
<1>6. ASSUME NEW d \in Clients
      PROVE  /\ pc'[d] = "start" => DOMAIN batch'[d] = {}
             /\ pc'[d] = "insert" => \A f \in filenames' : f.uri = current'[d] => {f.by, d} \in overlap'
  BY <1>1, <1>2 DEF OverlapInv
<1>7. ASSUME NEW d \in Clients, Running(d)', NEW h \in DOMAIN batch'[d], NEW e \in entries',
             e.kind = Kind(d)', e.id = h, e.by # d
      PROVE  {e.by, d} \in overlap'
  <2>1. h \in DOMAIN batch[d]
    BY <1>1, <1>2, <1>7 DEF Contains, Kind
  <2> QED
    BY <1>1, <1>3, <1>7, <2>1 DEF OverlapInv, Kind
<1> QED
  BY <1>4, <1>5, <1>6, <1>7 DEF OverlapInv

(* A client that waits for the same answer runs with this one.             *)
LEMMA DeliverOverlap ==
  ASSUME OverlapInv, TypeInv, NEW c \in Clients, NEW h \in DOMAIN batch[c], Deliver(c, h)
  PROVE  OverlapInv'
<1>1. /\ UNCHANGED <<job, overlap, filenames, current, pc>> /\ Running(c)
      /\ entries' = entries \cup
           {[kind |-> Kind(c), id |-> h, content |-> batch[c][h].bytes, by |-> c]}
      /\ \A d \in Clients : DOMAIN batch'[d] \subseteq DOMAIN batch[d]
  BY DEF Deliver, TaskAt, Without, Running, TypeInv, BatchInv, ghosts
<1>2. DuplicatesNeedOverlap'
  <2>1. ASSUME NEW d \in entries', NEW e \in entries', d.kind = e.kind, d.id = e.id, d.by # e.by
        PROVE  {d.by, e.by} \in overlap
    <3>1. CASE d \in entries /\ e \in entries
      BY <2>1, <3>1 DEF OverlapInv, DuplicatesNeedOverlap
    <3>2. CASE d \in entries /\ e \notin entries
      <4>1. e.kind = Kind(c) /\ e.id = h /\ e.by = c
        BY <1>1, <3>2
      <4> QED
        BY <1>1, <2>1, <3>2, <4>1 DEF OverlapInv
    <3>3. CASE d \notin entries /\ e \in entries
      <4>1. d.kind = Kind(c) /\ d.id = h /\ d.by = c
        BY <1>1, <3>3
      <4>2. {e.by, c} \in overlap
        BY <1>1, <2>1, <3>3, <4>1 DEF OverlapInv
      <4>3. {d.by, e.by} = {e.by, c}
        BY <4>1
      <4> QED
        BY <4>2, <4>3
    <3>4. CASE d \notin entries /\ e \notin entries
      BY <1>1, <2>1, <3>4
    <3> QED
      BY <3>1, <3>2, <3>3, <3>4
  <2> QED
    BY <1>1, <2>1 DEF OverlapInv, DuplicatesNeedOverlap
<1>3. \A d, e \in Clients : d # e /\ Running(d)' /\ Running(e)' => {d, e} \in overlap'
  BY <1>1 DEF OverlapInv, Running
<1>4. ASSUME NEW d \in Clients
      PROVE  /\ pc'[d] = "start" => DOMAIN batch'[d] = {}
             /\ pc'[d] = "insert" => \A f \in filenames' : f.uri = current'[d] => {f.by, d} \in overlap'
  BY <1>1 DEF OverlapInv
<1>5. ASSUME NEW d \in Clients, Running(d)', NEW k \in DOMAIN batch'[d], NEW e \in entries',
             e.kind = Kind(d)', e.id = k, e.by # d
      PROVE  {e.by, d} \in overlap'
  <2>1. Running(d) /\ k \in DOMAIN batch[d] /\ Kind(d)' = Kind(d)
    BY <1>1, <1>5 DEF Running, Kind
  <2>2. CASE e \in entries
    BY <1>1, <1>5, <2>1, <2>2 DEF OverlapInv
  <2>3. CASE e \notin entries
    <3>1. e.by = c
      BY <1>1, <2>3
    <3> QED
      BY <1>1, <1>5, <2>1, <3>1 DEF OverlapInv
  <2> QED
    BY <2>2, <2>3
<1> QED
  BY <1>2, <1>3, <1>4, <1>5 DEF OverlapInv

(* A step of a task keeps the handles its batch has.                       *)
LEMMA SetTaskOverlap ==
  ASSUME OverlapInv, TypeInv, NEW c \in Clients, NEW h \in DOMAIN batch[c], NEW t,
         SetTask(c, h, t), UNCHANGED overlap
  PROVE  OverlapInv'
<1>1. UNCHANGED <<job, overlap, filenames, entries, pc, current>>
  BY DEF SetTask, database
<1>2. \A d \in Clients : DOMAIN batch'[d] = DOMAIN batch[d]
  BY DEF SetTask, TypeInv, BatchInv
<1> QED
  BY <1>1, <1>2, QuietOverlap DEF Running

LEMMA TaskOverlap ==
  ASSUME OverlapInv, TypeInv, NEW c \in Clients, NEW h \in DOMAIN batch[c],
         TaskLookup(c, h) \/ TaskRead(c, h) \/ SendChunk(c, h) \/ BreakStream(c, h)
  PROVE  OverlapInv'
<1>1. UNCHANGED overlap /\ \E t : SetTask(c, h, t)
  BY DEF TaskLookup, TaskRead, SendChunk, BreakStream, ghosts
<1>2. PICK t : SetTask(c, h, t)
  BY <1>1
<1> QED
  BY <1>1, <1>2, SetTaskOverlap

LEMMA NextOverlap == TypeInv /\ OverlapInv /\ [Next]_vars => OverlapInv'
<1> SUFFICES ASSUME TypeInv, OverlapInv, [Next]_vars PROVE OverlapInv'
  OBVIOUS
<1>1. CASE UNCHANGED vars \/ AnnotateStep \/ \E u \in Uris, bytes \in Contents \cup {Missing} : ChangeFile(u, bytes)
  <2>1. UNCHANGED <<job, overlap, filenames, entries, pc, current, batch>>
    BY <1>1 DEF vars, AnnotateStep, AnnotateRead, AnnotateOpen, AnnotateWrite, AnnotateHash,
                AnnotateStore, ChangeFile, database, command, ghosts
  <2> QED
    BY <2>1, QuietOverlap DEF Running
<1>2. ASSUME NEW c \in Clients, ClientStep(c) PROVE OverlapInv'
  <2>1. CASE TaskStep(c)
    BY <2>1, TaskOverlap, DeliverOverlap DEF TaskStep
  <2>2. CASE Start(c) \/ Find(c) \/ Insert(c) \/ Check(c)
    BY <2>2, StartOverlap, FindOverlap, InsertOverlap, CheckOverlap
  <2>3. CASE \/ Drop(c) \/ List(c) \/ ReadSpecifications(c) \/ NextUri(c) \/ Forget(c) \/ Lookup(c)
             \/ Confirm(c) \/ ReadFile(c) \/ StoreHandle(c) \/ Delete(c) \/ Submit(c) \/ Finish(c)
    BY <2>3, MovingOverlap
  <2> QED
    BY <1>2, <2>1, <2>2, <2>3 DEF ClientStep
<1>3. ASSUME NEW c \in Clients, NEW h \in DOMAIN batch[c], BreakStream(c, h) PROVE OverlapInv'
  BY <1>3, TaskOverlap
<1>4. CASE Restart
  <2>1. UNCHANGED <<job, overlap, filenames, entries, current>>
    BY <1>4 DEF Restart, database
  <2>2. \A c \in Clients : pc'[c] \in {pc[c], "failed"} /\ DOMAIN batch'[c] = DOMAIN batch[c]
    BY <1>4 DEF Restart
  <2>3. ASSUME NEW c \in Clients
        PROVE /\ pc'[c] \notin {"start", "done", "failed"} => Running(c)
              /\ pc'[c] = "start" => pc[c] = "start"
              /\ pc'[c] = "insert" => pc[c] = "insert" /\ current'[c] = current[c]
    BY <2>1, <2>2 DEF Running
  <2> QED
    BY <2>1, <2>2, <2>3, QuietOverlap
<1> QED
  BY <1>1, <1>2, <1>3, <1>4 DEF Next, Environment

(* Two entries of one file, or two answers under one identifier, are there *)
(* only where the commands that inserted them ran at the same time: the    *)
(* finds before the inserts (insert_bitcode, collection_contains_id) keep  *)
(* commands that follow one another from inserting twice.                  *)
THEOREM DuplicatesComeFromOverlap == Spec => []DuplicatesNeedOverlap
<1>1. TypeInv /\ OverlapInv /\ [Next]_vars => OverlapInv'
  BY NextOverlap
<1>2. IInv => TypeInv
  BY DEF IInv
<1>3. OverlapInv => DuplicatesNeedOverlap
  BY DEF OverlapInv
<1> QED
  BY <1>1, <1>2, <1>3, InitOverlap, Inductive, PTL DEF Spec

(***************************************************************************)
(* What a Get command has covered.  CommandsCover speaks of a command that *)
(* has ended; while it runs, an answer it has not inserted is in its       *)
(* batch, and a listed file it has not covered is still before it.         *)
(* OfAll names the steps of a command over all files, which never deletes  *)
(* single entries; a command for one URI covers one handle, at its end.    *)
(***************************************************************************)
OfAll == {"start", "drop", "list", "next", "register", "store", "check", "wait", "done", "failed"}

PathInv(c) ==
  /\ pc[c] \in {"drop", "delete"} => Overwrite(c)
  /\ pc[c] \in {"delete", "check"} => Justified(handle[c], current[c])
  /\ nested[c] => Name(c) = "uri"
  /\ pc[c] \in {"start", "drop", "list"} => listed[c] = {}
  /\ Name(c) = "all" => pc[c] \in OfAll /\ (pc[c] \in {"wait", "done"} => todo[c] = {})
  /\ Name(c) = "uri" =>
       /\ listed[c] = {} /\ pc[c] \notin {"drop", "list"}
       /\ pc[c] \in AtUri => todo[c] = {}
       /\ pc[c] \in AtUri \cup {"start"} \/ todo[c] # {} => covered[c] = {}
       /\ todo[c] \in {{}, {job.command[c].uri}}

KeptInv(c) ==
  /\ pc[c] = "done" /\ Name(c) \in {"uri", "all"} =>
       \A id \in covered[c] : Contains(Kind(c), id)
  /\ pc[c] \notin {"done", "failed"} =>
       \A id \in covered[c] : Contains(Kind(c), id) \/ id \in DOMAIN batch[c]

Unchallenged(c) == replaced = {} /\ \A d \in Clients : d # c => ~ Overwrite(d)

ReachedInv(c) ==
  Name(c) = "all" /\ Unchallenged(c) =>
    \A u \in listed[c] :
      \/ u \in todo[c] \/ pc[c] = "failed" \/ files[u] \in covered[c]
      \/ pc[c] \in AtUri /\ current[c] = u

CoverOf(c) == PathInv(c) /\ KeptInv(c) /\ ReachedInv(c)

CoverInv ==
  /\ covered \in [Clients -> SUBSET Bytes] /\ nested \in [Clients -> BOOLEAN]
  /\ \A c \in Clients : CoverOf(c)

LEMMA InitCover == Init => CoverInv
<1> SUFFICES ASSUME Init PROVE CoverInv
  OBVIOUS
<1>1. covered \in [Clients -> SUBSET Bytes] /\ nested \in [Clients -> BOOLEAN]
  BY DEF Init
<1>2. ASSUME NEW c \in Clients PROVE CoverOf(c)
  <2>1. /\ pc[c] \in {"start", "done"} /\ (pc[c] = "done" => Name(c) = "none")
        /\ covered[c] = {} /\ listed[c] = {} /\ todo[c] = {} /\ nested[c] = FALSE
    BY DEF Init, Name
  <2> QED
    BY <2>1 DEF CoverOf, PathInv, KeptInv, ReachedInv, AtUri, OfAll
<1> QED
  BY <1>1, <1>2 DEF CoverInv

(* What a command knows survives the steps of others: files that change    *)
(* and entries that go, as long as what is covered goes with them.         *)
LEMMA OthersKeepCover ==
  ASSUME IInv, CoverInv, NEW c \in Clients, job' = job, pc'[c] = pc[c], todo'[c] = todo[c],
         current'[c] = current[c], nested'[c] = nested[c], handle'[c] = handle[c],
         listed'[c] = listed[c], DOMAIN batch'[c] = DOMAIN batch[c],
         covered'[c] \subseteq covered[c],
         covered'[c] = covered[c] \/ \E d \in Clients : d # c /\ Overwrite(d),
         \A id \in covered'[c] : Contains(Kind(c), id) => Contains(Kind(c), id)',
         replaced \subseteq replaced',
         \A h \in Bytes, v \in Uris : Justified(h, v) => Justified(h, v)'
  PROVE  CoverOf(c)'
<1>1. /\ covered[c] \subseteq Bytes /\ handle[c] \in Bytes /\ listed[c] \subseteq Uris
      /\ pc[c] \in AtUri => current[c] \in Uris
      /\ CoverOf(c) /\ files \in [Uris -> Bytes \cup {Missing}] /\ Missing \notin Bytes
  BY RegistryConstants DEF CoverInv, IInv, TypeInv, LoopInv, FilesInv, Bytes
<1>2. /\ Name(c)' = Name(c) /\ Kind(c)' = Kind(c)
      /\ \A d \in Clients : Overwrite(d)' = Overwrite(d)
  BY DEF Name, Kind, Overwrite
<1>3. PathInv(c)'
  <2>1. pc[c] \in {"delete", "check"} => Justified(handle[c], current[c])'
    BY <1>1 DEF CoverOf, PathInv, AtUri
  <2> QED
    BY <1>1, <1>2, <2>1 DEF CoverOf, PathInv, Justified
<1>4. KeptInv(c)'
  BY <1>1, <1>2 DEF CoverOf, KeptInv, Contains
<1>5. ReachedInv(c)'
  <2> SUFFICES ASSUME (Name(c) = "all" /\ Unchallenged(c))', NEW u \in listed[c],
                      u \notin todo[c], pc[c] # "failed", ~ (pc[c] \in AtUri /\ current[c] = u)
               PROVE  files'[u] \in covered'[c]
    BY DEF ReachedInv
  <2>1. Name(c) = "all" /\ Unchallenged(c) /\ replaced' = {} /\ covered'[c] = covered[c]
    BY <1>2 DEF Unchallenged
  <2>2. files[u] \in covered[c] /\ u \in Uris
    BY <1>1, <2>1 DEF CoverOf, ReachedInv
  <2>3. PICK h \in Bytes : h = files[u]
    BY <1>1, <2>2
  <2>4. Justified(h, u)'
    BY <2>2, <2>3 DEF Justified
  <2> QED
    BY <2>1, <2>2, <2>3, <2>4 DEF Justified
<1> QED
  BY <1>3, <1>4, <1>5 DEF CoverOf

(* A step of a command that leaves the entries and the files as they are   *)
(* is about that command only.                                             *)
LEMMA OwnCover ==
  ASSUME IInv, CoverInv, NEW c \in Clients, UNCHANGED <<job, files, entries, replaced>>,
         \A d \in Clients : d # c =>
           /\ pc'[d] = pc[d] /\ todo'[d] = todo[d] /\ current'[d] = current[d]
           /\ nested'[d] = nested[d] /\ handle'[d] = handle[d] /\ listed'[d] = listed[d]
           /\ DOMAIN batch'[d] = DOMAIN batch[d] /\ covered'[d] = covered[d],
         covered' \in [Clients -> SUBSET Bytes], nested' \in [Clients -> BOOLEAN],
         CoverOf(c)'
  PROVE  CoverInv'
<1>1. /\ \A k, id : Contains(k, id) => Contains(k, id)'
      /\ \A h \in Bytes, v \in Uris : Justified(h, v) => Justified(h, v)'
  BY DEF Contains, Justified
<1>2. ASSUME NEW d \in Clients, d # c PROVE CoverOf(d)'
  <2>1. /\ pc'[d] = pc[d] /\ todo'[d] = todo[d] /\ current'[d] = current[d]
        /\ nested'[d] = nested[d] /\ handle'[d] = handle[d] /\ listed'[d] = listed[d]
        /\ DOMAIN batch'[d] = DOMAIN batch[d] /\ covered'[d] = covered[d]
    BY <1>2
  <2>2. \A id \in covered'[d] : Contains(Kind(d), id) => Contains(Kind(d), id)'
    BY <1>1 DEF Kind, Contains
  <2> QED
    BY <1>1, <2>1, <2>2, OthersKeepCover
<1> QED
  BY <1>2 DEF CoverInv

(* What ReachedInv and KeptInv need of a step that moves a command on.     *)
LEMMA MoveCover ==
  ASSUME IInv, CoverInv, NEW c \in Clients,
         \/ Start(c) \/ List(c) \/ ReadSpecifications(c) \/ NextUri(c) \/ Forget(c) \/ Lookup(c)
         \/ Confirm(c) \/ ReadFile(c) \/ StoreHandle(c) \/ Find(c) \/ Insert(c) \/ Submit(c)
         \/ Finish(c)
  PROVE  CoverInv'
<1> DEFINE Others == \A d \in Clients : d # c =>
                       /\ pc'[d] = pc[d] /\ todo'[d] = todo[d] /\ current'[d] = current[d]
                       /\ nested'[d] = nested[d] /\ handle'[d] = handle[d] /\ listed'[d] = listed[d]
<1>1. UNCHANGED <<job, files, entries, replaced, batch, covered>>
  BY DEF Start, List, ReadSpecifications, NextUri, Forget, Lookup, Confirm, ReadFile, StoreHandle,
         Find, Insert, Submit, Finish, database, ghosts
<1>2. /\ pc \in [Clients -> Steps] /\ todo \in [Clients -> SUBSET Uris]
      /\ current \in [Clients -> Uris \cup {"nowhere"}] /\ nested \in [Clients -> BOOLEAN]
      /\ handle \in [Clients -> Bytes] /\ listed \in [Clients -> SUBSET Uris]
  BY DEF IInv, TypeInv, LoopInv, CoverInv
<1>3. Others /\ nested' \in [Clients -> BOOLEAN]
  <2>1. CASE Start(c) \/ List(c) \/ ReadSpecifications(c) \/ NextUri(c) \/ Forget(c) \/ Lookup(c)
    BY <1>2, <2>1 DEF Start, List, ReadSpecifications, NextUri, Forget, Lookup, Goto
  <2>2. CASE \/ Confirm(c) \/ ReadFile(c) \/ StoreHandle(c) \/ Find(c) \/ Insert(c) \/ Submit(c)
             \/ Finish(c)
    BY <1>2, <2>2 DEF Confirm, ReadFile, StoreHandle, Find, Insert, Submit, Finish, Goto
  <2> QED
    BY <2>1, <2>2
<1>4. PathInv(c) /\ KeptInv(c) /\ ReachedInv(c) /\ UNCHANGED <<Name(c), Kind(c), Overwrite(c)>>
  BY <1>1 DEF CoverInv, CoverOf, Name, Kind, Overwrite
<1>5. PathInv(c)'
  <2>1. CASE Start(c)
    BY <1>1, <1>2, <1>4, <2>1 DEF Start, Goto, PathInv, OfAll, AtUri
  <2>2. CASE List(c)
    BY <1>1, <1>2, <1>4, <2>2 DEF List, Goto, PathInv, OfAll, AtUri
  <2>3. CASE ReadSpecifications(c)
    BY <1>1, <1>2, <1>4, <2>3 DEF ReadSpecifications, Goto, PathInv, OfAll, AtUri
  <2>4. CASE NextUri(c)
    BY <1>1, <1>2, <1>4, <2>4 DEF NextUri, Goto, PathInv, OfAll, AtUri
  <2>5. CASE Forget(c) \/ Confirm(c) \/ Submit(c) \/ Finish(c)
    BY <1>1, <1>2, <1>4, <2>5 DEF Forget, Confirm, Submit, Finish, Goto, PathInv, OfAll, AtUri
  <2>6. CASE Lookup(c)
    BY <1>1, <1>2, <1>4, <2>6 DEF Lookup, Goto, PathInv, OfAll, AtUri
  <2>7. CASE ReadFile(c)
    BY <1>1, <1>2, <1>4, <2>7 DEF ReadFile, Goto, PathInv, OfAll, AtUri
  <2>8. CASE StoreHandle(c)
    <3>1. Justified(handle[c], current[c])' /\ pc[c] = "store" /\ UNCHANGED <<todo, nested, listed>>
      BY <1>1, <2>8 DEF StoreHandle, IInv, PlacesInv, Justified
    <3>2. pc'[c] \in {"find", "delete", "check"} /\ (pc'[c] = "delete" => Overwrite(c))
          /\ (Name(c) = "all" => pc'[c] = "check")
      BY <1>2, <1>4, <2>8 DEF StoreHandle, Goto, PathInv
    <3> QED
      BY <1>1, <1>4, <3>1, <3>2 DEF PathInv, OfAll, AtUri
  <2>9. CASE Find(c) \/ Insert(c)
    BY <1>1, <1>2, <1>4, <2>9 DEF Find, Insert, AfterInsert, Goto, PathInv, OfAll, AtUri
  <2> QED
    BY <2>1, <2>2, <2>3, <2>4, <2>5, <2>6, <2>7, <2>8, <2>9
<1>6. KeptInv(c)'
  <2>1. pc[c] \notin {"done", "failed"} /\ (pc'[c] = "done" => DOMAIN batch[c] = {})
    <3>1. CASE Start(c) \/ List(c) \/ ReadSpecifications(c) \/ NextUri(c) \/ Forget(c) \/ Lookup(c)
      BY <1>2, <3>1 DEF Start, List, ReadSpecifications, NextUri, Forget, Lookup, Goto
    <3>2. CASE \/ Confirm(c) \/ ReadFile(c) \/ StoreHandle(c) \/ Find(c) \/ Insert(c) \/ Submit(c)
               \/ Finish(c)
      BY <1>2, <3>2 DEF Confirm, ReadFile, StoreHandle, Find, Insert, AfterInsert, Submit, Finish,
                        Goto
    <3> QED
      BY <3>1, <3>2
  <2> QED
    BY <1>1, <1>4, <2>1 DEF KeptInv, Contains
<1>7. ReachedInv(c)'
  <2> SUFFICES ASSUME Name(c) = "all", Unchallenged(c), NEW u \in listed'[c], u \notin todo'[c],
                      pc'[c] # "failed", files[u] \notin covered[c]
               PROVE  pc'[c] \in AtUri /\ current'[c] = u
    BY <1>1, <1>4 DEF ReachedInv, Unchallenged, Overwrite
  <2>1. /\ pc[c] \in {"start", "list", "next", "register", "store", "wait"}
        /\ pc[c] \in {"start", "list"} => listed[c] = {}
    BY <1>2, <1>4 DEF Start, List, ReadSpecifications, NextUri, Forget, Lookup, Confirm, ReadFile,
                      StoreHandle, Find, Insert, Submit, Finish, PathInv, OfAll
  <2>2. CASE Start(c) \/ List(c)
    BY <1>2, <2>1, <2>2 DEF Start, List, Goto
  <2>3. CASE NextUri(c)
    <3>1. u \in listed[c] /\ u \in todo[c]
      BY <1>4, <2>1, <2>3 DEF NextUri, ReachedInv, AtUri
    <3> QED
      BY <1>2, <2>3, <3>1 DEF NextUri, Goto, AtUri
  <2>4. CASE ReadFile(c) \/ StoreHandle(c)
    <3>1. UNCHANGED <<todo, listed, current>> /\ pc'[c] \in AtUri \cup {"failed"} /\ pc[c] # "failed"
      BY <1>2, <2>4 DEF ReadFile, StoreHandle, Goto, AtUri
    <3> QED
      BY <1>4, <3>1 DEF ReachedInv
  <2>5. CASE Submit(c) \/ Finish(c)
    <3>1. UNCHANGED <<todo, listed>> /\ pc[c] \notin AtUri \cup {"failed"}
      BY <2>5 DEF Submit, Finish, AtUri
    <3> QED
      BY <1>4, <3>1 DEF ReachedInv
  <2> QED
    BY <2>1, <2>2, <2>3, <2>4, <2>5
    DEF ReadSpecifications, Forget, Lookup, Confirm, Find, Insert
<1>8. CoverOf(c)'
  BY <1>5, <1>6, <1>7 DEF CoverOf
<1> QED
  BY <1>1, <1>3, <1>8, OwnCover DEF CoverInv

(* What a command removes is no longer covered.                            *)
LEMMA RemoveCover ==
  ASSUME IInv, CoverInv, NEW c \in Clients, Overwrite(c), NEW ids \in SUBSET Bytes,
         Remove(Kind(c), ids), UNCHANGED <<job, files, replaced, nested, batch>>,
         \A d \in Clients : d # c =>
           /\ pc'[d] = pc[d] /\ todo'[d] = todo[d] /\ current'[d] = current[d]
           /\ handle'[d] = handle[d] /\ listed'[d] = listed[d],
         CoverOf(c)'
  PROVE  CoverInv'
<1>1. covered \in [Clients -> SUBSET Bytes] /\ nested \in [Clients -> BOOLEAN]
  BY DEF CoverInv
<1>2. covered' = [d \in Clients |-> IF Kind(d) = Kind(c) THEN covered[d] \ ids ELSE covered[d]]
  BY DEF Remove
<1>3. covered' \in [Clients -> SUBSET Bytes] /\ nested' \in [Clients -> BOOLEAN]
  BY <1>1, <1>2
<1>4. \A h \in Bytes, v \in Uris : Justified(h, v) => Justified(h, v)'
  BY DEF Justified
<1>5. ASSUME NEW d \in Clients, d # c PROVE CoverOf(d)'
  <2>1. \A id \in covered'[d] : Contains(Kind(d), id) => Contains(Kind(d), id)'
    <3>1. \A id \in covered'[d] : Kind(d) = Kind(c) => id \notin ids
      BY <1>2
    <3> QED
      BY <3>1 DEF Remove, Contains, Kind
  <2>2. covered'[d] \subseteq covered[d]
    BY <1>2
  <2> QED
    BY <1>4, <1>5, <2>1, <2>2, OthersKeepCover
<1> QED
  BY <1>3, <1>5 DEF CoverInv

LEMMA DropCover == ASSUME IInv, CoverInv, NEW c \in Clients, Drop(c) PROVE CoverInv'
<1>1. /\ UNCHANGED <<job, files, replaced, nested, batch, todo, current, handle, listed>>
      /\ pc[c] = "drop" /\ pc'[c] = "list" /\ \A d \in Clients : d # c => pc'[d] = pc[d]
      /\ Remove(Kind(c), Bytes)
  BY DEF Drop, Goto, IInv, TypeInv, LoopInv
<1>2. PathInv(c) /\ covered \in [Clients -> SUBSET Bytes]
  BY DEF CoverInv, CoverOf
<1>3. covered'[c] = {}
  BY <1>1, <1>2 DEF Remove
<1>4. CoverOf(c)'
  <2>1. PathInv(c)'
    BY <1>1, <1>2 DEF PathInv, Name, AtUri, OfAll
  <2>2. KeptInv(c)' /\ ReachedInv(c)'
    BY <1>1, <1>2, <1>3 DEF PathInv, KeptInv, ReachedInv
  <2> QED
    BY <2>1, <2>2 DEF CoverOf
<1>5. Overwrite(c)
  BY <1>1, <1>2 DEF PathInv
<1> QED
  BY <1>1, <1>4, <1>5, RemoveCover

LEMMA DeleteCover == ASSUME IInv, CoverInv, NEW c \in Clients, Delete(c) PROVE CoverInv'
<1>1. /\ UNCHANGED <<job, files, replaced, nested, batch, todo, current, handle, listed>>
      /\ pc[c] = "delete" /\ pc'[c] = "check" /\ \A d \in Clients : d # c => pc'[d] = pc[d]
      /\ Remove(Kind(c), {handle[c]}) /\ handle[c] \in Bytes
  BY DEF Delete, Goto, IInv, TypeInv, LoopInv
<1>2. PathInv(c) /\ KeptInv(c)
  BY DEF CoverInv, CoverOf
<1>3. covered'[c] = covered[c] \ {handle[c]}
  BY <1>1 DEF Remove
<1>4. CoverOf(c)'
  <2>1. PathInv(c)'
    BY <1>1, <1>2, <1>3 DEF PathInv, Name, Justified, AtUri, OfAll
  <2>2. KeptInv(c)'
    <3>1. \A id \in covered'[c] : Contains(Kind(c), id) => Contains(Kind(c), id)'
      BY <1>1, <1>3 DEF Remove, Contains, Kind
    <3> QED
      BY <1>1, <1>2, <1>3, <3>1 DEF KeptInv
  <2>3. ReachedInv(c)'
    BY <1>1, <1>2 DEF PathInv, ReachedInv, Name, OfAll
  <2> QED
    BY <2>1, <2>2, <2>3 DEF CoverOf
<1>5. Overwrite(c)
  BY <1>1, <1>2 DEF PathInv
<1> QED
  BY <1>1, <1>4, <1>5, RemoveCover

(* The handle of the file at hand is covered: its entry is there, or it    *)
(* joins the batch.                                                        *)
LEMMA CheckCover == ASSUME IInv, CoverInv, NEW c \in Clients, Check(c) PROVE CoverInv'
<1>1. /\ UNCHANGED <<job, files, entries, replaced, todo, current, nested, handle, listed>>
      /\ pc[c] = "check" /\ handle[c] \in Bytes
      /\ \A d \in Clients : d # c => pc'[d] = pc[d] /\ batch'[d] = batch[d] /\ covered'[d] = covered[d]
      /\ covered' \in [Clients -> SUBSET Bytes]
      /\ covered'[c] = covered[c] \cup {handle[c]}
  BY DEF Check, Goto, IInv, TypeInv, LoopInv, BatchInv, CoverInv, database
<1>2. \/ /\ Contains(Kind(c), handle[c]) /\ batch'[c] = batch[c]
         /\ pc'[c] = (IF Name(c) = "all" THEN "next" ELSE "done")
      \/ pc'[c] = "next" /\ DOMAIN batch'[c] = DOMAIN batch[c] \cup {handle[c]}
  BY DEF Check, Goto, And, IInv, TypeInv, LoopInv, BatchInv
<1>3. /\ PathInv(c) /\ KeptInv(c) /\ ReachedInv(c) /\ UNCHANGED <<Name(c), Kind(c), Overwrite(c)>>
      /\ nested \in [Clients -> BOOLEAN]
  BY <1>1 DEF CoverInv, CoverOf, Name, Kind, Overwrite
<1>4. PathInv(c)'
  BY <1>1, <1>2, <1>3 DEF PathInv, AtUri, OfAll
<1>5. KeptInv(c)'
  <2>1. \A id \in covered'[c] : Contains(Kind(c), id)' \/ id \in DOMAIN batch'[c]
    BY <1>1, <1>2, <1>3 DEF KeptInv, Contains
  <2>2. pc'[c] = "done" /\ Name(c) \in {"uri", "all"} => covered'[c] = {handle[c]} /\ Contains(Kind(c), handle[c])'
    BY <1>1, <1>2, <1>3 DEF PathInv, AtUri, Contains
  <2> QED
    BY <1>1, <1>2, <1>3, <2>1, <2>2 DEF KeptInv
<1>6. ReachedInv(c)'
  <2> SUFFICES ASSUME Name(c) = "all", Unchallenged(c), NEW u \in listed[c], u \notin todo[c]
               PROVE  files[u] \in covered'[c]
    BY <1>1, <1>3 DEF ReachedInv, Unchallenged, Overwrite
  <2>1. CASE current[c] = u
    BY <1>1, <1>3, <2>1 DEF PathInv, Justified, Unchallenged
  <2>2. CASE current[c] # u
    BY <1>1, <1>3, <2>2 DEF ReachedInv
  <2> QED
    BY <2>1, <2>2
<1>7. CoverOf(c)'
  BY <1>4, <1>5, <1>6 DEF CoverOf
<1> QED
  BY <1>1, <1>3, <1>7, OwnCover

(* An answer that arrives leaves the batch as its entry is inserted.       *)
LEMMA DeliverCover ==
  ASSUME IInv, CoverInv, NEW c \in Clients, NEW h \in DOMAIN batch[c], Deliver(c, h)
  PROVE  CoverInv'
<1>1. /\ UNCHANGED <<job, files, pc, todo, current, nested, handle, listed, covered, replaced>>
      /\ entries \subseteq entries' /\ pc[c] = "wait"
      /\ \A d \in Clients : d # c => batch'[d] = batch[d]
      /\ DOMAIN batch'[c] = DOMAIN batch[c] \ {h}
      /\ \E e \in entries' : e.kind = Kind(c) /\ e.id = h
  <2>1. [kind |-> Kind(c), id |-> h, content |-> batch[c][h].bytes, by |-> c] \in entries'
    BY DEF Deliver
  <2> QED
    BY <2>1 DEF Deliver, TaskAt, Without, IInv, TypeInv, BatchInv, ghosts
<1>2. \A k, id : Contains(k, id) => \E e \in entries' : e.kind = k /\ e.id = id
  BY <1>1 DEF Contains
<1>3. ASSUME NEW d \in Clients, d # c PROVE CoverOf(d)'
  <2>1. \A id \in covered'[d] : Contains(Kind(d), id) => Contains(Kind(d), id)'
    BY <1>1 DEF Kind, Contains
  <2>2. \A k \in Bytes, v \in Uris : Justified(k, v) => Justified(k, v)'
    BY <1>1 DEF Justified
  <2> QED
    BY <1>1, <1>3, <2>1, <2>2, OthersKeepCover
<1>4. CoverOf(c)'
  <2>1. PathInv(c) /\ KeptInv(c) /\ ReachedInv(c) /\ UNCHANGED <<Name(c), Kind(c), Overwrite(c)>>
    BY <1>1 DEF CoverInv, CoverOf, Name, Kind, Overwrite
  <2>2. PathInv(c)' /\ ReachedInv(c)'
    BY <1>1, <2>1 DEF PathInv, ReachedInv, Justified, Unchallenged, Overwrite
  <2>3. KeptInv(c)'
    <3>1. \A id \in covered[c] : Contains(Kind(c), id)' \/ id \in DOMAIN batch'[c]
      BY <1>1, <1>2, <2>1 DEF KeptInv, Contains
    <3> QED
      BY <1>1, <2>1, <3>1 DEF KeptInv
  <2> QED
    BY <2>2, <2>3 DEF CoverOf
<1> QED
  BY <1>1, <1>3, <1>4 DEF CoverInv

(* Steps of the tasks and of Annotate, and files that change, leave every  *)
(* command where it is; a restart fails some.                              *)
LEMMA AroundCover ==
  ASSUME IInv, CoverInv, replaced \subseteq replaced',
         UNCHANGED <<job, entries, todo, current, nested, handle, listed, covered>>,
         \A h \in Bytes, v \in Uris : Justified(h, v) => Justified(h, v)',
         \A c \in Clients : DOMAIN batch'[c] = DOMAIN batch[c] /\ pc'[c] \in {pc[c], "failed"}
  PROVE  CoverInv'
<1>1. ASSUME NEW c \in Clients, pc'[c] = pc[c] PROVE CoverOf(c)'
  <2>1. \A id \in covered'[c] : Contains(Kind(c), id) => Contains(Kind(c), id)'
    BY DEF Kind, Contains
  <2> QED
    BY <1>1, <2>1, OthersKeepCover
<1>2. ASSUME NEW c \in Clients, pc'[c] = "failed" PROVE CoverOf(c)'
  <2>1. PathInv(c) /\ UNCHANGED <<Name(c), Kind(c), Overwrite(c)>>
    BY DEF CoverInv, CoverOf, Name, Kind, Overwrite
  <2> QED
    BY <1>2, <2>1 DEF CoverOf, PathInv, KeptInv, ReachedInv, AtUri, OfAll
<1> QED
  BY <1>1, <1>2 DEF CoverInv

LEMMA TaskCover ==
  ASSUME IInv, CoverInv, NEW c \in Clients, NEW h \in DOMAIN batch[c],
         TaskLookup(c, h) \/ TaskRead(c, h) \/ SendChunk(c, h) \/ BreakStream(c, h)
  PROVE  CoverInv'
<1>1. UNCHANGED <<replaced, covered>> /\ \E t : SetTask(c, h, t)
  BY DEF TaskLookup, TaskRead, SendChunk, BreakStream, ghosts
<1>2. PICK t : SetTask(c, h, t)
  BY <1>1
<1>3. /\ UNCHANGED <<job, entries, todo, current, nested, handle, listed, pc, files>>
      /\ \A d \in Clients : DOMAIN batch'[d] = DOMAIN batch[d]
  BY <1>2 DEF SetTask, database, IInv, TypeInv, BatchInv
<1> QED
  BY <1>1, <1>3, AroundCover DEF Justified

LEMMA NextCover == IInv /\ CoverInv /\ [Next]_vars => CoverInv'
<1> SUFFICES ASSUME IInv, CoverInv, [Next]_vars PROVE CoverInv'
  OBVIOUS
<1>1. CASE UNCHANGED vars \/ AnnotateRead \/ AnnotateHash \/ AnnotateStore
  <2>1. UNCHANGED <<job, entries, command, covered, replaced, files>>
    BY <1>1 DEF vars, AnnotateRead, AnnotateHash, AnnotateStore, database, ghosts
  <2> QED
    BY <2>1, AroundCover DEF command, Justified
<1>2. ASSUME NEW u \in Uris, NEW bytes \in Bytes \cup {Missing}, Rewrite(u, bytes),
             UNCHANGED <<job, database, command, covered>>
      PROVE  CoverInv'
  <2>1. /\ replaced \subseteq replaced'
        /\ \A h \in Bytes, v \in Uris : Justified(h, v) => Justified(h, v)'
    BY <1>2, RewriteKeeps DEF IInv, TypeInv
  <2> QED
    BY <1>2, <2>1, AroundCover DEF command, database
<1>3. CASE AnnotateOpen \/ AnnotateWrite
  <2>1. annotation.output \in Uris /\ annotation.bytes \in Bytes \cup {Missing} /\ Empty \in Bytes
    BY <1>3 DEF AnnotateOpen, AnnotateWrite, IInv, TypeInv, FilesInv, Bytes
  <2>2. PICK u \in Uris, bytes \in Bytes \cup {Missing} : Rewrite(u, bytes)
    BY <1>3, <2>1 DEF AnnotateOpen, AnnotateWrite
  <2> QED
    BY <1>2, <1>3, <2>2 DEF AnnotateOpen, AnnotateWrite
<1>4. ASSUME NEW u \in Uris, NEW bytes \in Contents \cup {Missing}, ChangeFile(u, bytes)
      PROVE  CoverInv'
  BY <1>2, <1>4 DEF ChangeFile, Bytes
<1>5. CASE Restart
  <2>1. UNCHANGED <<job, entries, todo, current, nested, handle, listed, covered, replaced, files>>
    BY <1>5 DEF Restart, database
  <2>2. \A c \in Clients : DOMAIN batch'[c] = DOMAIN batch[c] /\ pc'[c] \in {pc[c], "failed"}
    BY <1>5 DEF Restart
  <2> QED
    BY <2>1, <2>2, AroundCover DEF Justified
<1>6. ASSUME NEW c \in Clients, NEW h \in DOMAIN batch[c], BreakStream(c, h) PROVE CoverInv'
  BY <1>6, TaskCover
<1>7. ASSUME NEW c \in Clients, ClientStep(c) PROVE CoverInv'
  <2>1. CASE TaskStep(c)
    BY <2>1, TaskCover, DeliverCover DEF TaskStep
  <2>2. CASE Drop(c) \/ Delete(c) \/ Check(c)
    BY <2>2, DropCover, DeleteCover, CheckCover
  <2>3. CASE \/ Start(c) \/ List(c) \/ ReadSpecifications(c) \/ NextUri(c) \/ Forget(c) \/ Lookup(c)
             \/ Confirm(c) \/ ReadFile(c) \/ StoreHandle(c) \/ Find(c) \/ Insert(c) \/ Submit(c)
             \/ Finish(c)
    BY <2>3, MoveCover
  <2> QED
    BY <1>7, <2>1, <2>2, <2>3 DEF ClientStep
<1> QED
  BY <1>1, <1>3, <1>4, <1>5, <1>6, <1>7 DEF Next, AnnotateStep, Environment

(* A Get command that has ended has left, or met, an entry of each handle  *)
(* it covered, and GetAll one of each file the database listed for it,     *)
(* where no file was replaced and no other command overwrites              *)
(* (get_called_functions and its like, the loops of commands.py).          *)
THEOREM CommandsAlwaysCover == Spec => []CommandsCover
<1>1. IInv /\ CoverInv /\ [Next]_vars => CoverInv'
  BY NextCover
<1>2. CoverInv => CommandsCover
  <2> SUFFICES ASSUME CoverInv, NEW c \in Clients, pc[c] = "done", Name(c) \in {"uri", "all"}
               PROVE  /\ \A id \in covered[c] : Contains(Kind(c), id)
                      /\ \A u \in listed[c] : Unchallenged(c) => Contains(Kind(c), files[u])
    BY DEF CommandsCover, Unchallenged
  <2>1. PathInv(c) /\ KeptInv(c) /\ ReachedInv(c)
    BY DEF CoverInv, CoverOf
  <2> QED
    BY <2>1 DEF PathInv, KeptInv, ReachedInv, AtUri
<1> QED
  BY <1>1, <1>2, InitCover, Inductive, PTL DEF Spec
=============================================================================
