--------------------------- MODULE ContainerInvariant ---------------------------
(***************************************************************************)
(* The inductive invariant of Container.                                   *)
(*                                                                         *)
(* Ranks at the same reduction are at the same place of the same call and  *)
(* decide alike, also about their sessions; a rank that is ahead has done  *)
(* what the others will do.  The file is a sequence of records of which    *)
(* all but the last one are listed while a record is written; the marker   *)
(* of a record is written when all its other parts are stored.             *)
(***************************************************************************)
EXTENDS Container, ReductionProofs

----------------------------------------------------------------------------
(* The order of places.                                                    *)

Places(o) == {Script(o)[i] : i \in 1..Len(Script(o))}

DetailPlace == {"collection options", "members", "collection preparation", "array descriptor",
                "array name", "preparation", "path bytes", "view descriptor"}

NamePlace == {"name", "collection name"}

ClosePlace == {"datatype free", "file close", "communicator free"}

AcquirePlace == {"duplicate", "communicator handler", "open", "file handler"}

ScanPlace == {"size", "report", "decode"}

CommitPlace == {"head", "header flush", "payload view", "payload", "payload flush",
                "marker view", "marker", "marker flush"}

AnyPlace ==
  {"descriptor", "options", "identifier", "info", "byte view", "record", "metadata", "datatype",
   "container", "payload read", "staging", "catalog validation", "view reset",
   "operation datatype free", "commit", "allocation", "flush", "cleanup", "return"}
    \union DetailPlace \union NamePlace \union ClosePlace \union AcquirePlace \union ScanPlace
    \union CommitPlace

NamedOp == WritingOp \union ReadingOp
InSession == {"write_named", "read_named"}

(* What may come after place p of operation o when all agree. *)
Leads(o, p, n) ==
  \/ p = "descriptor" /\ n = IF o \in Collection THEN "collection name"
                             ELSE IF o = "named_catalog" THEN "preparation"
                             ELSE IF o \in PathOp THEN "name" ELSE "options"
  \/ p = "options" /\ n = IF o \in InSession THEN "name"
                          ELSE IF o \in OpenOp THEN "preparation"
                          ELSE IF o = "catalog" THEN "byte view"
                          ELSE IF o = "flush" THEN "flush" ELSE "datatype free"
  \/ p \in NamePlace \union DetailPlace /\ o \in PathOp /\ n \in DetailPlace \union {"duplicate"}
  \/ p \in NamePlace \union DetailPlace /\ o \in InSession /\ n \in DetailPlace \union {"byte view"}
  \/ p \in DetailPlace /\ o \in OpenOp /\ n \in DetailPlace \union {"identifier"}
  \/ p = "identifier" /\ n = "info"
  \/ p = "info" /\ n = "duplicate"
  \/ p = "duplicate" /\ n = "communicator handler"
  \/ p = "communicator handler" /\ n = "open"
  \/ p = "open" /\ n = "file handler"
  \/ p = "file handler" /\ n = IF o \in NewOp THEN "datatype"
                               ELSE IF o = "create" THEN "container"
                               ELSE IF o \in OpenOp THEN "byte view" ELSE "size"
  \/ p = "byte view" /\ n = "size"
  \/ p = "size" /\ n = "report"
  \/ p = "report" /\ n = "decode"
  \/ p = "decode" /\ n = IF o = "named_catalog" THEN "catalog validation"
                         ELSE IF o \in PathOp THEN "datatype"
                         ELSE IF o = "write_named" THEN "record"
                         ELSE IF o = "read_named" THEN "metadata"
                         ELSE IF o = "catalog" THEN "allocation" ELSE "return"
  \/ p \in {"record", "metadata"} /\ n = "datatype"
  \/ p = "datatype" /\ n = IF o \in NewOp THEN "container"
                           ELSE IF o \in WritingOp THEN "head" ELSE "payload view"
  \/ p = "container" /\ n = IF o \in NewOp THEN "head" ELSE "header flush"
  \/ p = "head" /\ n = "header flush"
  \/ p = "header flush" /\ n = IF o = "create" THEN "return" ELSE "payload view"
  \/ p = "payload view" /\ n = IF o \in WritingOp THEN "payload" ELSE "payload read"
  \/ p = "payload" /\ n = "payload flush"
  \/ p = "payload flush" /\ n = "marker view"
  \/ p = "marker view" /\ n = "marker"
  \/ p = "marker" /\ n = "marker flush"
  \/ p = "payload read" /\ n = "staging"
  \/ p \in {"marker flush", "staging"} /\ n = IF o \in InSession THEN "view reset" ELSE "datatype free"
  \/ p = "catalog validation" /\ n = "datatype free"
  \/ p = "datatype free" /\ n = "file close"
  \/ p = "file close" /\ n = "communicator free"
  \/ p = "communicator free" /\ n \in {"cleanup", "return"}
  \/ p = "view reset" /\ n = "operation datatype free"
  \/ p = "operation datatype free" /\ n = IF o = "read_named" THEN "commit" ELSE "return"
  \/ p \in {"allocation", "flush", "cleanup", "commit"} /\ n = "return"

(* Operations that may be at place p. *)
Fits(o, p) ==
  /\ p \in AnyPlace
  /\ p \in {"identifier", "info"} => o \in OpenOp
  /\ p = "options" => o \in OpenOp \union SessionOp
  /\ p \in AcquirePlace => o \in PathOp \union OpenOp
  /\ p \in NamePlace \union {"datatype", "payload view"} => o \in NamedOp
  /\ p = "container" => o \in NewOp \union {"create"}
  /\ p = "header flush" => o \in WritingOp \union {"create"}
  /\ p \in CommitPlace \ {"header flush", "payload view"} => o \in WritingOp
  /\ p = "record" => o = "write_named"
  /\ p \in {"metadata", "commit"} => o = "read_named"
  /\ p \in {"payload read", "staging"} => o \in ReadingOp
  /\ p \in {"view reset", "operation datatype free"} => o \in InSession
  /\ p = "catalog validation" => o = "named_catalog"
  /\ p = "allocation" => o = "catalog"
  /\ p = "flush" => o = "flush"
  /\ p = "cleanup" => o \in PathOp
  /\ p \in ClosePlace => o \in PathOp \union OpenOp \union {"close"}
  /\ p \in ScanPlace => o \notin NewOp \union {"create"}

(* Places at which a rank may know of an error. *)
ExitPlace == ClosePlace \union {"catalog validation", "view reset", "operation datatype free", "cleanup"}

(* Places of a call of operation o, also when it fails. *)
At(o) == (Places(o) \ {"return"}) \union (IF o \in OpenOp THEN ClosePlace ELSE {})

----------------------------------------------------------------------------
(* Agreement.                                                              *)

Outcome ==
  {"none", "Failed", "CollectiveDescriptorMismatch", "Incompatible", "IdExhausted",
   "CommitUncertain", "Closed", "Poisoned", "ReadOnly", "InvalidTail", "DuplicateName",
   "SizeLimit", "NotFound", "InvalidFile"}

Scanning == {"none", "InvalidFile", "SizeLimit"}

Session == [id : Nat, readonly : BOOLEAN, closed : BOOLEAN, poisoned : BOOLEAN]

Busy(r) == place[r] # "idle"

WordsFit ==
  \A r \in Rank : \A i \in 1..Len(log[r]) :
    /\ log[r][i].word.ok \in BOOLEAN
    /\ log[r][i].place = "report" => log[r][i].word.about \in Scanning

ControlType ==
  /\ place \in [Rank -> (AnyPlace \ {"return"}) \union {"idle"}]
  /\ call \in [Rank -> [op : Operation \union {"none"}, name : Name \union {NoName}, handle : Nat]]
  /\ outcome \in [Rank -> Outcome] /\ result \in [Rank -> Outcome \union {"ok"}]
  /\ held \in [Rank -> SUBSET {"communicator", "file", "datatype"}]
  /\ handles \in [Rank -> Seq(Session)]
  /\ seen \in [Rank -> [names : SUBSET Name, tail : Nat, size : Nat]]
  /\ calls \in [Rank -> Nat] /\ nextId \in Nat

(* The call of rank r is one it could make. *)
CallInv(r) ==
  /\ Op(r) \in Operation
  /\ Op(r) \in SessionOp => call[r].handle \in 1..Len(handles[r])
  /\ Op(r) \in OpenOp => Len(handles[r]) < MaxSessions
  /\ Op(r) \in NamedOp => call[r].name \in Name

(* Where rank r is, and what its log tells about that. *)
PlaceInv(r) ==
  /\ Len(handles[r]) <= MaxSessions
  /\ place[r] \in {"idle", "descriptor"} => seen[r] = NotScanned
  /\ place[r] \in {"idle", "descriptor", "options"} \union NamePlace => held[r] = {}
  /\ ~ Busy(r) => Complete(r) /\ outcome[r] = "none"
  /\ Busy(r) =>
       /\ CallInv(r)
       /\ place[r] \in At(Op(r))
       /\ Len(log[r]) >= 1 /\ Own(r).place = place[r]
       /\ place[r] # "descriptor" => Len(log[r]) >= 2
       /\ place[r] = "descriptor" => Own(r).word.about = Op(r)
       /\ place[r] = "options" => Own(r).word.about = Flags(r)
       /\ place[r] \in NamePlace => Own(r).word.about = call[r].name
       /\ outcome[r] # "none" => place[r] \in ExitPlace
       /\ Op(r) \in OpenOp /\ place[r] \in ClosePlace => outcome[r] # "none"

(* What r has decided when it leaves its reduction, and returns then. *)
Decided(r) == IF outcome[r] = "none" THEN Error(r) ELSE outcome[r]
Returning(r) == IF Decided(r) = "none" THEN "ok" ELSE Decided(r)

(* What r holds of the file, before and after its part at place p. *)
Kept(r) == held[r] \intersect {"communicator", "file"}

Keeping(kept, p, ok) ==
  CASE p = "duplicate" /\ ok    -> kept \union {"communicator"}
    [] p = "open" /\ ok         -> kept \union {"file"}
    [] p = "file close"         -> kept \ {"file"}
    [] p = "communicator free"  -> kept \ {"communicator"}
    [] OTHER                    -> kept

(* The calls of p and q do not differ in what is agreed upon before place x. *)
Alike(p, q, x) ==
  /\ x # "descriptor" => Op(p) = Op(q)
  /\ x \notin {"descriptor", "options"} /\ Op(p) \in SessionOp => call[p].handle = call[q].handle
  /\ x \notin {"descriptor", "options"} \union NamePlace /\ Op(p) \in NamedOp =>
       call[p].name = call[q].name

(* Both are at the same place of the same call. *)
Abreast(p, q) ==
  /\ place[p] = place[q] /\ outcome[p] = outcome[q] /\ handles[p] = handles[q]
  /\ Alike(p, q, place[p])
  /\ Kept(p) # Kept(q) => place[p] \in StatePlace /\ Own(p).word.ok # Own(q).word.ok
  /\ outcome[p] = "none" /\ place[p] # "report" => seen[p] = seen[q]

(* q has returned and p will return the same. *)
Leaving(p, q) ==
  /\ ~ MustAbort(p) /\ Target(p) = "return"
  /\ result[q] = Returning(p) /\ handles[q] = HandlesAfter(p, Returning(p))

(* Ranks p and q are at the same reduction. *)
Same(p, q) ==
  /\ calls[p] = calls[q]
  /\ Busy(p) /\ Busy(q) => Abreast(p, q)
  /\ Busy(p) /\ ~ Busy(q) => Leaving(p, q)
  /\ ~ Busy(p) /\ ~ Busy(q) => result[p] = result[q] /\ handles[p] = handles[q]

(* Rank q is where p will go. *)
Further(q, p) ==
  /\ calls[q] = calls[p]
  /\ place[q] = Target(p) /\ outcome[q] = Decided(p)
  /\ handles[q] = IF place[q] = "operation datatype free" THEN PoisonView(p) ELSE handles[p]
  /\ Alike(p, q, place[q])
  /\ Kept(q) = Keeping(Kept(p), place[q], Own(q).word.ok)
  /\ outcome[q] = "none" /\ place[q] # "report" =>
       seen[q] = IF place[q] = "decode" THEN seen[Root] ELSE seen[p]

(* Rank q has begun the call after that of p. *)
Again(q, p) ==
  /\ calls[q] = calls[p] + 1
  /\ place[q] = "descriptor"
  /\ handles[q] = IF Busy(p) THEN HandlesAfter(p, Returning(p)) ELSE handles[p]

(* Rank q is one reduction ahead of p. *)
Lead(q, p) ==
  /\ Busy(q)
  /\ Busy(p) => ~ MustAbort(p)
  /\ IF Busy(p) /\ Target(p) # "return" THEN Further(q, p) ELSE Again(q, p)

InStep ==
  \A p, q \in Rank :
    /\ Ahead(q, p) = 0 => Same(p, q)
    /\ Ahead(q, p) = 1 => Lead(q, p)

(* Identifiers of sessions are unique. *)
Identified == {"info", "container", "header flush", "byte view"} \union AcquirePlace \union ScanPlace

Below(r) == \A i \in 1..Len(handles[r]) : handles[r][i].id < nextId

IdInv(r) ==
  /\ \A i \in 1..Len(handles[r]) : handles[r][i].id <= nextId
  /\ \A i, j \in 1..Len(handles[r]) : handles[r][i].id = handles[r][j].id => i = j
  /\ Busy(r) /\ Op(r) \in OpenOp /\ outcome[r] = "none" =>
       /\ place[r] \in Identified => Below(r)
       /\ place[r] = "identifier" /\ Own(r).word.ok /\ r = Root => Below(r)

ControlInv ==
  /\ LogInv /\ LogsMatch /\ WordsFit /\ ControlType
  /\ \A r \in Rank : PlaceInv(r)
  /\ \A r \in Rank : IdInv(r)
  /\ InStep

----------------------------------------------------------------------------
(* The file.                                                               *)

Record == [name : Name, parts : [Part -> State]]

FileType ==
  /\ created \in BOOLEAN /\ container \in State /\ file \in Seq(Record) /\ told \subseteq Name
  /\ view \in [Rank -> [0..MaxSessions -> {"bytes", "payload"}]]

Settled(r) == Busy(r) /\ outcome[r] = "none"
Did(r, p) == place[r] = p /\ Own(r).word.ok

BytesPlace == {"file handler", "container", "size", "report", "decode", "record", "metadata",
               "datatype", "head", "header flush", "marker"}

(* Through which view r sees its file. *)
ViewInv(r) ==
  Settled(r) /\ (place[r] \in BytesPlace \/ Did(r, "open") \/ Did(r, "byte view") \/ Did(r, "marker view"))
    => view[r][File(r)] = "bytes"

(* A file that has just been created is empty. *)
NewInv(r) ==
  Settled(r) /\ Creates(r) =>
    /\ Did(r, "open") => created /\ file = <<>>
    /\ r = Root /\ place[r] \in {"file handler", "datatype", "container"} => created /\ file = <<>>

(* What the root has found is what there is, until it writes a record. *)
ScanInv ==
  Settled(Root) /\ Op(Root) \in AppendOp \union {"write_named"} =>
    /\ place[Root] \in {"report", "decode", "record", "datatype"} => seen[Root] = Scanned
    /\ place[Root] \in {"decode", "record", "datatype"}
         \/ (Did(Root, "report") /\ Own(Root).word.about = "none")
       => container # "absent" /\ created
    /\ place[Root] \in {"record", "datatype"} =>
         seen[Root].tail = seen[Root].size /\ call[Root].name \notin seen[Root].names

AfterCommit == ClosePlace \union {"cleanup", "view reset", "operation datatype free"}
AfterHead   == (CommitPlace \ {"head"}) \union AfterCommit
BeforeMarker == {"header flush", "payload view", "payload", "payload flush", "marker view"}

Writer(r) == Settled(r) /\ Op(r) \in WritingOp

(* The record that writer r is about exists. *)
Has(r) == Writer(r) /\ (place[r] \in AfterHead \/ (r = Root /\ Did(r, "head")))

AllStored(n) == \A i \in 1..n : Stored(file[i])

(* What writer r has written so far. *)
WriteInv(r) ==
  Has(r) =>
    LET n == Len(file)
        parts == file[n].parts
    IN  /\ n >= 1 /\ Index(r) = n /\ file[n].name = call[r].name
        /\ Did(r, "payload") => parts[r] # "absent"
        /\ Did(r, "payload flush") \/ place[r] \in {"marker view", "marker", "marker flush"} =>
             parts[r] = "stored"
        /\ place[r] \in AfterCommit => container = "stored" /\ AllStored(n)

(* What the root has written beside its payload. *)
RootInv ==
  Has(Root) =>
    LET n == Len(file)
        parts == file[n].parts
    IN  /\ container # "absent"
        /\ parts["head"] # "absent"
        /\ \A i \in 1..(n - 1) : file[i].parts["marker"] # "absent"
        /\ Did(Root, "header flush") \/ place[Root] \in AfterHead \ {"header flush"} =>
             container = "stored" /\ parts["head"] = "stored" /\ AllStored(n - 1)
        /\ place[Root] \in {"head"} \union BeforeMarker => parts["marker"] = "absent"
        /\ Did(Root, "marker") => parts["marker"] # "absent"
        /\ Did(Root, "marker flush") => Stored(file[n])

(* The header of a new container is written before its first record. *)
HeaderInv ==
  Settled(Root) /\ Op(Root) \in NewOp /\ Did(Root, "container") => container # "absent"

(* The marker of a record comes last. *)
MarkerLast ==
  \A i \in 1..Len(file) :
    file[i].parts["marker"] # "absent" => \A x \in Part \ {"marker"} : file[i].parts[x] = "stored"

NamesDiffer == \A i, j \in 1..Len(file) : file[i].name = file[j].name => i = j

ToldStays ==
  /\ \A m \in told : \E i \in 1..Len(file) : file[i].name = m /\ AllStored(i)
  /\ told # {} => container = "stored"

FileInv ==
  /\ FileType
  /\ \A r \in Rank : ViewInv(r)
  /\ \A r \in Rank : NewInv(r)
  /\ \A r \in Rank : WriteInv(r)
  /\ ScanInv /\ HeaderInv /\ RootInv
  /\ MarkerLast /\ NamesDiffer /\ ToldStays
  /\ file # <<>> \/ container # "absent" => created

ContainerInv == ControlInv /\ FileInv
===============================================================================
