----------------------------- MODULE MCRegistry -----------------------------
(***************************************************************************)
(* Two commands against one bitcode server, in every order of their calls: *)
(* two files, empty, of the size of a chunk and of more, the same file     *)
(* under two URIs, and one that is no IR; a database that is empty or has  *)
(* been filled by earlier commands.                                        *)
(***************************************************************************)
EXTENDS Registry

CONSTANTS c1, c2, u1, u2, a, b, junk

MCLength == [x \in Contents |-> CASE x = a -> 2 [] x = b -> 3 [] OTHER -> 1]
MCAnnotatedAs ==
  [x \in Contents \cup {Empty} |-> CASE x = a -> b [] x = Empty -> a [] OTHER -> x]

No == [name |-> "none", kind |-> "none", uri |-> "nowhere", overwrite |-> FALSE]

Register(u, o)  == [name |-> "register", kind |-> "none", uri |-> u, overwrite |-> o]
Dataset(o)      == [name |-> "dataset", kind |-> "none", uri |-> "nowhere", overwrite |-> o]
GetUri(u, o)    == [name |-> "uri", kind |-> "called", uri |-> u, overwrite |-> o]
GetAll(o)       == [name |-> "all", kind |-> "called", uri |-> "nowhere", overwrite |-> o]
Violations(o)   == [name |-> "violations", kind |-> "violations", uri |-> "nowhere",
                    overwrite |-> o]

Both(x, y) == [c \in Clients |-> IF c = c1 THEN x ELSE y]
On(x, y)   == [u \in Uris |-> IF u = u1 THEN x ELSE y]

Past(u, id)       == [uri |-> u, id |-> id, by |-> "past"]
PastEntry(k, id)  == [kind |-> k, id |-> id, content |-> id, by |-> "past"]

Job(orders, disk, names, found, annotate, faulty) ==
  [command |-> orders, files |-> disk, filenames |-> names, entries |-> found,
   annotate |-> annotate, faulty |-> faulty]

AB == On(a, b)
Known(disk)     == {Past(u, disk[u]) : u \in Uris}
Specified(disk) == {PastEntry("specifications", disk[u]) : u \in Uris}

(* Commands that race over an empty or a filled database. *)
Races ==
  {Job(Both(x, y), AB, {}, {}, {}, FALSE) :
     x \in {Register(u1, FALSE), Dataset(FALSE), GetUri(u1, FALSE)},
     y \in {Register(u1, TRUE), GetUri(u1, TRUE), Dataset(TRUE)}}
  \cup
  {Job(Both(x, y), disk, Known(disk), {PastEntry("called", a)}, {}, FALSE) :
     x \in {GetUri(u1, FALSE), GetAll(FALSE)}, y \in {GetUri(u2, TRUE), GetAll(TRUE), GetAll(FALSE)},
     disk \in {AB, On(b, b)}}

(* Commands while files change, the server restarts, downloads break. *)
Faults ==
  {Job(Both(x, No), disk, Known(disk), {}, {}, TRUE) :
     x \in {GetUri(u1, FALSE), GetAll(TRUE), Dataset(TRUE), Violations(FALSE)},
     disk \in {AB, On(junk, b)}}
  \cup
  {Job(Both(x, y), AB, Known(AB), Specified(AB), {}, TRUE) :
     x \in {Violations(FALSE), Violations(TRUE)}, y \in {No, Register(u1, TRUE)}}
  \cup
  {Job(Both(Violations(FALSE), No), On(Empty, b), Known(On(Empty, b)), Specified(On(Empty, b)),
       {}, TRUE)}

(* A file is annotated onto another while commands use both, or as an      *)
(* empty module after it was removed.                                      *)
Annotations ==
  {Job(Both(Register(u1, FALSE), y), AB, {}, {}, {u2}, TRUE) : y \in {No, Register(u2, FALSE)}} \cup
  {Job(Both(x, y), AB, Known(AB), {}, {u2}, FALSE) :
     x \in {GetAll(FALSE)}, y \in {No, GetUri(u2, FALSE)}}

MCJobs == Races \cup Faults \cup Annotations

(* The file of u1 has had its violations computed before u2 was registered. *)
MCCheckedBefore ==
  {Job(Both(Violations(FALSE), No), AB, Known(AB),
       Specified(AB) \cup {PastEntry("violations", a)}, {}, FALSE)}
=============================================================================
