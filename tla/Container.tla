-------------------------------- MODULE Container --------------------------------
(***************************************************************************)
(* Named containers of pencil-io (named_mpi.rs) and sessions on them       *)
(* (named_mpi/session.rs).  A container is an append-only file of records; *)
(* a record has a header, one block of payload per rank and, written last, *)
(* a commit marker.  There is no index: what a container holds is found by *)
(* scanning it from the front up to the first record that is not whole.    *)
(*                                                                         *)
(* Calls by path open and close the file; a session keeps it open between  *)
(* calls, with the file view, and remembers whether one of its writes is   *)
(* uncertain.  As in MpiIo a call is a script of places, each of which     *)
(* ends in an agreement, and a crash loses what is not in stable storage.  *)
(***************************************************************************)
EXTENDS Reductions

CONSTANTS
  Root,          \* rank that scans the file and writes headers and markers
  Name,          \* names of records
  NoName,        \* of calls that are about no record
  Operation,     \* operations the callers use
  MaxRecords,    \* records a session or a catalog handles
  MaxFaults,     \* bound: local failures and calls that differ
  MaxCalls,      \* bound: calls of a rank
  MaxJobs,       \* bound: jobs
  MaxSessions    \* bound: sessions opened in one job, and their identifiers

Collection == {"write_collection", "append_collection", "read_collection"}
PathOp    == {"write", "append", "read", "named_catalog"} \union Collection
OpenOp    == {"create", "open_read", "open_append"}
SessionOp == {"write_named", "read_named", "catalog", "flush", "close"}

ASSUME ContainerAssumption ==
  /\ Root \in Rank /\ NoName \notin Name
  /\ Rank \intersect {"head", "marker"} = {}   \* other parts of a record
  /\ Operation \subseteq PathOp \union OpenOp \union SessionOp
  /\ {MaxRecords, MaxFaults, MaxCalls, MaxJobs, MaxSessions} \subseteq Nat

VARIABLES
  place,       \* place of each rank in its script; "idle" between calls
  call,        \* its call: operation, name and handle
  outcome,     \* error it has decided to return; "none" until then
  result,      \* what its last call returned
  held,        \* native resources it holds for its call
  handles,     \* its sessions
  view,        \* view of its open files: of the call, and of each session
  seen,        \* what it knows of the last scan
  created,     \* the file exists
  container,   \* state of the header of the file
  file,        \* the records
  nextId,      \* last session identifier given by the root
  system,      \* "running" or "aborted"
  job, calls, faults,
  told         \* names of writes that have ever returned Ok

locals == <<result, held, handles, view, seen>>
disk   == <<created, container, file>>
bounds == <<job, calls, faults>>
vars   == <<log, place, call, outcome, locals, disk, nextId, system, bounds, told>>

----------------------------------------------------------------------------
(* Records.                                                                *)

Part == {"head", "marker"} \union Rank
State == {"absent", "cached", "stored"}

NewRecord(n, state) ==
  [name |-> n, parts |-> [x \in Part |-> IF x = "head" THEN state ELSE "absent"]]

(* What a scan accepts: header and marker; it never looks at the payload.  *)
Listed(rec) == rec.parts["head"] # "absent" /\ rec.parts["marker"] # "absent"
Whole(rec)  == \A x \in Part : rec.parts[x] # "absent"
Stored(rec) == \A x \in Part : rec.parts[x] = "stored"

(* Length of the longest prefix of records with property P. *)
Prefix(P(_)) ==
  CHOOSE k \in 0..Len(file) :
    /\ \A i \in 1..k : P(file[i])
    /\ k = Len(file) \/ ~ P(file[k + 1])

Names(k) == {file[i].name : i \in 1..k}

(* A scan: names of the committed prefix, its end and the end of the file. *)
Scanned ==
  LET k == Prefix(Listed) IN [names |-> Names(k), tail |-> k, size |-> Len(file)]

NotScanned == [names |-> {}, tail |-> 0, size |-> 0]

(* The error a scan ends with, or "none". *)
ScanError(limit) ==
  LET k == Prefix(Listed)
  IN  IF container = "absent" THEN "InvalidFile"
      ELSE IF k > limit \/ (k = limit /\ k < Len(file)) THEN "SizeLimit" ELSE "none"

----------------------------------------------------------------------------
(* Scripts: the places of a call, in order.                                *)

(* Preparation stands for the checks of arguments and allocations between  *)
(* other places: each ends in an agreement on success and nothing else.    *)
Scan == <<"size", "report", "decode">>

Acquire == <<"duplicate", "communicator handler", "open", "file handler">>

Closing == <<"datatype free", "file close", "communicator free">>

(* Mutant: the marker is written through the view of the payload. *)
CommitInView == <<"head", "header flush", "payload view", "payload", "payload flush",
                  "marker", "marker flush">>

(* Mutant: the payload is not flushed before the marker. *)
CommitEarly == <<"head", "header flush", "payload view", "payload", "marker view", "marker",
                 "payload flush", "marker flush">>

Commit == <<"head", "header flush", "payload view", "payload", "payload flush",
            "marker view", "marker", "marker flush">>

Fetch == <<"datatype", "payload view", "payload read", "staging">>

Finish == <<"view reset", "operation datatype free">>

(* A collection is agreed on and staged as one array, which then is        *)
(* written or read like one.                                               *)
Entry(o) ==
  IF o \in Collection
  THEN <<"descriptor", "collection name", "collection options", "members",
         "collection preparation", "array descriptor", "array name", "preparation">>
  ELSE <<"descriptor", "name", "preparation">>

WriteScript(o) ==
  Entry(o) \o Acquire
  \o <<"datatype", "container">> \o Commit \o Closing \o <<"cleanup", "return">>

AppendScript(o) ==
  Entry(o) \o Acquire \o Scan
  \o <<"datatype">> \o Commit \o Closing \o <<"cleanup", "return">>

ReadScript(o) == Entry(o) \o Acquire \o Scan \o Fetch \o Closing \o <<"cleanup", "return">>

(* The names by path.  Whatever goes wrong in the open file is agreed upon *)
(* before the file is closed.                                              *)
NamedCatalogScript ==
  <<"descriptor", "preparation", "path bytes">> \o Acquire \o Scan
  \o <<"catalog validation">> \o Closing \o <<"return">>

OpenScript(o) ==
  <<"descriptor", "options", "preparation", "path bytes", "identifier", "info">> \o Acquire
  \o (IF o = "create" THEN <<"container", "header flush">> ELSE <<"byte view">> \o Scan)
  \o <<"return">>

SessionWriteScript ==
  <<"descriptor", "options", "name", "view descriptor", "preparation", "byte view">>
  \o Scan \o <<"record", "datatype">> \o Commit \o Finish \o <<"return">>

SessionReadScript ==
  <<"descriptor", "options", "name", "view descriptor", "preparation", "byte view">>
  \o Scan \o <<"metadata">> \o Fetch \o Finish \o <<"commit", "return">>

CatalogScript == <<"descriptor", "options", "byte view">> \o Scan \o <<"allocation", "return">>

FlushScript == <<"descriptor", "options", "flush", "return">>

CloseScript == <<"descriptor", "options">> \o Closing \o <<"return">>

Script(o) ==
  CASE o \in {"write", "write_collection"}   -> WriteScript(o)
    [] o \in {"append", "append_collection"} -> AppendScript(o)
    [] o \in {"read", "read_collection"}     -> ReadScript(o)
    [] o = "named_catalog" -> NamedCatalogScript
    [] o \in OpenOp      -> OpenScript(o)
    [] o = "write_named" -> SessionWriteScript
    [] o = "read_named"  -> SessionReadScript
    [] o = "catalog"     -> CatalogScript
    [] o = "flush"       -> FlushScript
    [] o = "close"       -> CloseScript

Successor ==
  [o \in Operation |->
     LET s == Script(o)
     IN  [p \in {s[i] : i \in 1..(Len(s) - 1)} |-> s[(CHOOSE i \in DOMAIN s : s[i] = p) + 1]]]

Op(r) == call[r].op

NewOp     == {"write", "write_collection"}
AppendOp  == {"append", "append_collection"}
WritingOp == NewOp \union AppendOp \union {"write_named"}
ReadingOp == {"read", "read_collection", "read_named"}

(* The handle of the session a call uses, and the number of its file. *)
Handle(r) == handles[r][call[r].handle]

File(r) ==
  IF Op(r) \in PathOp THEN 0
  ELSE IF Op(r) \in OpenOp THEN Len(handles[r]) + 1 ELSE call[r].handle

Flags(r) == IF Op(r) \in SessionOp
            THEN <<Handle(r).id, Handle(r).readonly, Handle(r).closed, Handle(r).poisoned>>
            ELSE <<>>

(* Sessions and catalogs scan a limited number of records. *)
ScanLimit(r) == IF Op(r) \in PathOp \ {"named_catalog"} THEN Len(file) + 1 ELSE MaxRecords

(* What the root reports of its scan to all. *)
Report(r) == IF r = Root THEN ScanError(ScanLimit(r)) ELSE "none"

(* Mutant: sessions are not told apart. *)
AboutAnonymous(r, p) ==
  CASE p = "descriptor" -> Op(r)
    [] p = "options"    -> <<>>
    [] p \in {"name", "collection name"} -> call[r].name
    [] p = "report"     -> Report(r)
    [] OTHER            -> "same"

(* What is compared at a place beside success, or broadcast there. *)
About(r, p) ==
  CASE p = "descriptor" -> Op(r)
    [] p = "options"    -> Flags(r)
    [] p \in {"name", "collection name"} -> call[r].name
    [] p = "report"     -> Report(r)
    [] OTHER            -> "same"

----------------------------------------------------------------------------
(* Agreements.                                                             *)

AgreedWords(ws) == (\A w \in ws : w.ok) /\ (\A v, w \in ws : v.about = w.about)

StatePlace   == {"duplicate", "open"}
ReleasePlace == {"datatype free", "file close", "communicator free", "operation datatype free"}

Mixed(ws) == \E v, w \in ws : v.ok /\ ~ w.ok

(* A resource that only some ranks got, or that a rank could not release.  *)
MustAbort(r) ==
  \/ place[r] \in StatePlace /\ Mixed(Words(r))
  \/ place[r] \in ReleasePlace /\ ~ AgreedWords(Words(r))

(* What the scan itself forbids; the same on all ranks. *)
Rejected(r) ==
  IF \/ /\ Op(r) \in AppendOp \union {"write_named", "open_append", "catalog", "named_catalog"}
        /\ seen[r].tail # seen[r].size
     \/ Op(r) = "named_catalog" /\ seen[r].tail = 0
  THEN "InvalidTail"
  ELSE IF Op(r) \in AppendOp \union {"write_named"} /\ call[r].name \in seen[r].names
       THEN "DuplicateName"
  ELSE IF Op(r) = "write_named" /\ seen[r].tail = MaxRecords THEN "SizeLimit"
  ELSE IF Op(r) \in ReadingOp /\ call[r].name \notin seen[r].names THEN "NotFound"
  ELSE "none"

(* What a session forbids once its options are agreed. *)
Barred(r) ==
  IF Op(r) = "close" THEN "none"
  ELSE IF Handle(r).closed THEN "Closed"
  ELSE IF Handle(r).poisoned THEN "Poisoned" ELSE "none"

(* The places at which a failed write may have committed its record, or,   *)
(* in a session, left something behind.                                    *)
Uncertain(r) ==
  IF Op(r) = "write_named"
  THEN {Commit[i] : i \in DOMAIN Commit} \union {"view reset"}
  ELSE {"marker", "marker flush"}

(* What an agreement fails with. *)
Refusal(r) ==
  IF place[r] \in {"descriptor", "options", "size", "path bytes", "view descriptor"}
  THEN "CollectiveDescriptorMismatch"
  ELSE IF place[r] = "members" THEN "Incompatible"
  ELSE IF place[r] = "identifier" THEN "IdExhausted"
  ELSE IF Op(r) \in WritingOp /\ place[r] \in Uncertain(r) THEN "CommitUncertain"
  ELSE "Failed"

(* The error with which r leaves its place, or "none". *)
Error(r) ==
  IF place[r] = "report" /\ \A w \in Words(r) : w.ok THEN WordOf(Root, r).about
  ELSE IF ~ AgreedWords(Words(r)) THEN Refusal(r)
  ELSE IF place[r] = "options" /\ Op(r) \in SessionOp THEN Barred(r)
  ELSE IF place[r] = "view descriptor" /\ Op(r) = "write_named" /\ Handle(r).readonly THEN "ReadOnly"
  ELSE IF place[r] = "decode" THEN Rejected(r)
  ELSE "none"

(* The closure of a session operation that finish_operation follows. *)
InOperation ==
  {"datatype"} \union {Commit[i] : i \in DOMAIN Commit} \union {Fetch[i] : i \in DOMAIN Fetch}

(* Where an error leads: the resources of the call are released first. *)
Exit(r) ==
  IF Op(r) \in SessionOp
  THEN IF place[r] \in InOperation THEN "view reset"
       ELSE IF place[r] = "view reset" THEN "operation datatype free" ELSE "return"
  ELSE IF Op(r) = "named_catalog" /\ place[r] \in {"size", "report", "decode"}
       THEN "catalog validation"
  ELSE IF "file" \in held[r] THEN "datatype free"
  ELSE IF "communicator" \in held[r] THEN "communicator free" ELSE "return"

(* Where r goes from a complete agreement. *)
Target(r) ==
  IF Error(r) # "none" THEN Exit(r)
  ELSE IF place[r] = "datatype free" THEN "file close"
  ELSE IF place[r] = "file close" THEN "communicator free"
  ELSE IF place[r] = "communicator free"
       THEN IF Op(r) \in PathOp \ {"named_catalog"} /\ log[r][2].place = "file close"
            THEN "cleanup" ELSE "return"
  ELSE IF \/ place[r] = "operation datatype free" /\ outcome[r] # "none"
          \/ place[r] = "options" /\ Op(r) = "close" /\ Handle(r).closed
       THEN "return"
  ELSE Successor[Op(r)][place[r]]

----------------------------------------------------------------------------
(* Steps.                                                                  *)

Leaves(r) ==
  /\ system = "running" /\ place[r] # "idle"
  /\ Complete(r) /\ ~ MustAbort(r)

(* It leaves for place p. *)
Reaches(r, p) == Leaves(r) /\ Target(r) = p

Good(r, p) == [ok |-> TRUE, about |-> About(r, p)]

(* The words r may contribute at p. *)
WordsAt(r, p) ==
  {Good(r, p)}
  \union (IF p \in {"cleanup", "commit", "identifier", "array descriptor", "array name"} THEN {}
           ELSE {[ok |-> FALSE, about |-> About(r, p)]})
  \union (IF p \in {"size", "path bytes", "view descriptor"}
           THEN {[ok |-> TRUE, about |-> "other"]} ELSE {})

(* Rank r does its part at place p and contributes w there. *)
Vote(r, p, w) ==
  /\ Enter(r, p, w)
  /\ place' = [place EXCEPT ![r] = p]
  /\ outcome' = [outcome EXCEPT ![r] = IF @ = "none" THEN Error(r) ELSE @]
  /\ UNCHANGED <<call, result, system, told>>

Fault(bad) ==
  /\ bad => faults < MaxFaults
  /\ faults' = IF bad THEN faults + 1 ELSE faults
  /\ UNCHANGED <<job, calls>>

NoCall == [op |-> "none", name |-> NoName, handle |-> 0]

(* The calls r may make next. *)
Calls(r) ==
  {c \in [op : Operation, name : Name \union {NoName}, handle : 0..Len(handles[r])] :
     /\ c.op \in SessionOp <=> c.handle # 0
     /\ c.op \in OpenOp => Len(handles[r]) < MaxSessions
     /\ c.op \in WritingOp \union ReadingOp <=> c.name # NoName}

(* Callers mean to make the same calls; one that differs is a fault. *)
Differs(r, c) == \E q \in Rank : calls[q] > calls[r] /\ call[q] # c

Begin(r) ==
  /\ system = "running" /\ place[r] = "idle" /\ calls[r] < MaxCalls
  /\ \E c \in Calls(r), ok \in BOOLEAN :
       LET bad == Differs(r, c) \/ ~ ok
       IN  /\ bad => faults < MaxFaults
           /\ faults' = IF bad THEN faults + 1 ELSE faults
           /\ call' = [call EXCEPT ![r] = c]
           /\ Enter(r, "descriptor", [ok |-> ok, about |-> c.op])
  /\ place' = [place EXCEPT ![r] = "descriptor"]
  /\ result' = [result EXCEPT ![r] = "none"]
  /\ calls' = [calls EXCEPT ![r] = @ + 1]
  /\ UNCHANGED <<outcome, held, handles, view, seen, disk, nextId, system, job, told>>

(* Places without an effect on files and handles: arguments, allocations,  *)
(* error handlers, sizes, broadcasts.                                      *)
Plain == {"options", "name", "path bytes", "info", "communicator handler", "file handler",
  "collection name", "collection options", "members", "collection preparation",
  "array descriptor", "array name", "record", "allocation", "view descriptor", "size", "preparation", "metadata",
  "payload read", "staging", "cleanup", "commit"}

Check(r) ==
  /\ Leaves(r)
  /\ \E p \in Plain \intersect {Target(r)} : \E w \in WordsAt(r, p) :
       Vote(r, p, w) /\ Fault(w # Good(r, p))
  /\ UNCHANGED <<held, handles, view, seen, disk, nextId>>

(* A rank that knows of an error of its catalog says so. *)
ValidateCatalog(r) ==
  /\ Reaches(r, "catalog validation")
  /\ Vote(r, "catalog validation",
          [ok |-> outcome[r] = "none" /\ Error(r) = "none", about |-> "same"])
  /\ Fault(FALSE)
  /\ UNCHANGED <<held, handles, view, seen, disk, nextId>>

(* The root draws the identifier of the session and broadcasts it. *)
Identify(r) ==
  /\ Reaches(r, "identifier")
  /\ \E ok \in BOOLEAN :
       /\ ok <=> r # Root \/ nextId < MaxSessions
       /\ Vote(r, "identifier", [ok |-> ok, about |-> "same"])
       /\ nextId' = IF ok /\ r = Root THEN nextId + 1 ELSE nextId
  /\ Fault(FALSE)
  /\ UNCHANGED <<held, handles, view, seen, disk>>

Duplicate(r) ==
  /\ Reaches(r, "duplicate")
  /\ \E w \in WordsAt(r, "duplicate") :
       /\ Vote(r, "duplicate", w) /\ Fault(~ w.ok)
       /\ held' = [held EXCEPT ![r] = IF w.ok THEN @ \union {"communicator"} ELSE @]
  /\ UNCHANGED <<handles, view, seen, disk, nextId>>

(* write and create insist that the file is new, the others need it.       *)
Creates(r) == Op(r) \in NewOp \union {"create"}

MayOpen(r) ==
  IF Creates(r) THEN ~ created \/ \E q \in Rank : place[q] = "open" /\ Own(q).word.ok
  ELSE created

OpenFile(r) ==
  /\ Reaches(r, "open")
  /\ \E w \in WordsAt(r, "open") :
       /\ w.ok => MayOpen(r)
       /\ Vote(r, "open", w)
       /\ Fault(~ w.ok /\ MayOpen(r))
       /\ held' = [held EXCEPT ![r] = IF w.ok THEN @ \union {"file"} ELSE @]
       /\ created' \in IF ~ Creates(r) THEN {created} ELSE IF w.ok THEN {TRUE} ELSE {created, TRUE}
       /\ view' = [view EXCEPT ![r][File(r)] = "bytes"]
  /\ UNCHANGED <<handles, seen, container, file, nextId>>

(* The root scans, and everybody learns what it found with the catalog.    *)
ScanFile(r) ==
  /\ Leaves(r)
  /\ \E p \in {"report", "decode"} \intersect {Target(r)} :
       /\ \E w \in WordsAt(r, p) : Vote(r, p, w) /\ Fault(~ w.ok)
       /\ seen' = [seen EXCEPT ![r] =
            IF p = "decode" THEN seen[Root]
            ELSE IF r = Root THEN Scanned ELSE @]
  /\ UNCHANGED <<held, handles, view, disk, nextId>>

CreateDatatype(r) ==
  /\ Reaches(r, "datatype")
  /\ \E w \in WordsAt(r, "datatype") :
       /\ Vote(r, "datatype", w) /\ Fault(~ w.ok)
       /\ held' = [held EXCEPT ![r] = IF w.ok THEN @ \union {"datatype"} ELSE @]
  /\ UNCHANGED <<handles, view, seen, disk, nextId>>

(* A view that could not be set may have been set all the same. *)
SetView(r) ==
  /\ Leaves(r)
  /\ \E p \in {"payload view", "marker view", "byte view", "view reset"} \intersect {Target(r)} :
       LET new == IF p = "payload view" THEN "payload" ELSE "bytes"
       IN  \E w \in WordsAt(r, p) :
             /\ Vote(r, p, w) /\ Fault(~ w.ok)
             /\ \E v \in IF w.ok THEN {new} ELSE {new, view[r][File(r)]} :
                  view' = [view EXCEPT ![r][File(r)] = v]
  /\ UNCHANGED <<held, handles, seen, disk, nextId>>

(* Mutant: a session appends at the last committed record, not after it.   *)
IndexLast(r) ==
  IF Op(r) \in NewOp \/ seen[r].tail = 0 THEN 1
  ELSE IF Op(r) \in AppendOp THEN seen[r].size + 1 ELSE seen[r].tail

(* The record a write of r is about. *)
Index(r) ==
  CASE Op(r) \in NewOp       -> 1
    [] Op(r) \in AppendOp    -> seen[r].size + 1
    [] Op(r) = "write_named" -> seen[r].tail + 1

Cached(i, x) == [file EXCEPT ![i].parts[x] = "cached"]

WithHead(i, state) ==
  IF i > Len(file) THEN Append(file, NewRecord(call[Root].name, state))
  ELSE [file EXCEPT ![i] = NewRecord(call[Root].name, state)]

(* A write that fails may have been done or not, or have left some bytes.  *)
WriteContainer(r) ==
  /\ Reaches(r, "container")
  /\ \E w \in WordsAt(r, "container") :
       /\ Vote(r, "container", w) /\ Fault(~ w.ok)
       /\ container' \in IF r # Root THEN {container}
                         ELSE IF w.ok THEN {"cached"} ELSE {container, "cached"}
  /\ UNCHANGED <<held, handles, view, seen, created, file, nextId>>

WriteHead(r) ==
  /\ Reaches(r, "head")
  /\ \E w \in WordsAt(r, "head") :
       /\ Vote(r, "head", w) /\ Fault(~ w.ok)
       /\ file' \in IF r # Root THEN {file}
                    ELSE IF w.ok THEN {WithHead(Index(r), "cached")}
                    ELSE {file, WithHead(Index(r), "absent"), WithHead(Index(r), "cached")}
  /\ UNCHANGED <<held, handles, view, seen, created, container, nextId>>

WritePayload(r) ==
  /\ Reaches(r, "payload")
  /\ \E w \in WordsAt(r, "payload") :
       /\ Vote(r, "payload", w) /\ Fault(~ w.ok)
       /\ file' \in IF w.ok THEN {Cached(Index(r), r)} ELSE {file, Cached(Index(r), r)}
  /\ UNCHANGED <<held, handles, view, seen, created, container, nextId>>

WriteMarker(r) ==
  /\ Reaches(r, "marker")
  /\ \E w \in WordsAt(r, "marker") :
       /\ Vote(r, "marker", w) /\ Fault(~ w.ok)
       /\ file' \in IF r # Root THEN {file}
                    ELSE IF w.ok THEN {Cached(Index(r), "marker")}
                    ELSE {file, Cached(Index(r), "marker")}
  /\ UNCHANGED <<held, handles, view, seen, created, container, nextId>>

WrittenBy(r) == {r} \union (IF r = Root THEN {"head", "marker"} ELSE {})

Synced(r) ==
  /\ file' = [i \in DOMAIN file |-> [file[i] EXCEPT !.parts =
       [x \in Part |-> IF x \in WrittenBy(r) /\ @[x] = "cached" THEN "stored" ELSE @[x]]]]
  /\ container' = IF r = Root /\ container = "cached" THEN "stored" ELSE container
  /\ UNCHANGED created

(* MPI_File_sync stores what the calling rank has written. *)
Flush(r) ==
  /\ Leaves(r)
  /\ \E p \in {"header flush", "payload flush", "marker flush", "flush"} \intersect {Target(r)} :
       \E w \in WordsAt(r, p) :
         /\ Vote(r, p, w) /\ Fault(~ w.ok)
         /\ IF w.ok THEN Synced(r) ELSE UNCHANGED disk
  /\ UNCHANGED <<held, handles, view, seen, nextId>>

(* Closing a file flushes it. *)
Release(r) ==
  /\ Leaves(r)
  /\ \E p \in {"datatype free", "file close", "communicator free"} \intersect {Target(r)} :
       \E w \in WordsAt(r, p) :
         /\ p = "datatype free" /\ "datatype" \notin held[r] => w.ok
         /\ Vote(r, p, w) /\ Fault(~ w.ok)
         /\ held' = [held EXCEPT ![r] = @ \
              CASE p = "datatype free" -> {"datatype"}
                [] p = "file close" -> {"file"}
                [] p = "communicator free" -> {"communicator"}]
         /\ IF p = "file close" /\ w.ok THEN Synced(r) ELSE UNCHANGED disk
  /\ UNCHANGED <<handles, view, seen, nextId>>

(* A session whose view could not be reset is poisoned. *)
PoisonView(r) ==
  IF Error(r) = "none" THEN handles[r] ELSE [handles[r] EXCEPT ![call[r].handle].poisoned = TRUE]

FinishOperation(r) ==
  /\ Reaches(r, "operation datatype free")
  /\ \E w \in WordsAt(r, "operation datatype free") :
       /\ "datatype" \notin held[r] => w.ok
       /\ Vote(r, "operation datatype free", w) /\ Fault(~ w.ok)
  /\ handles' = [handles EXCEPT ![r] = PoisonView(r)]
  /\ held' = [held EXCEPT ![r] = @ \ {"datatype"}]
  /\ UNCHANGED <<view, seen, disk, nextId>>

(* What the call leaves of the sessions of r. *)
HandlesAfter(r, o) ==
  CASE Op(r) \in OpenOp /\ o = "ok" ->
         Append(handles[r], [id |-> nextId, readonly |-> Op(r) = "open_read",
                             closed |-> FALSE, poisoned |-> FALSE])
    [] Op(r) = "close" /\ o = "ok" -> [handles[r] EXCEPT ![call[r].handle].closed = TRUE]
    [] Op(r) = "write_named" /\ o = "CommitUncertain" ->
         [handles[r] EXCEPT ![call[r].handle].poisoned = TRUE]
    [] OTHER -> handles[r]

Return(r) ==
  /\ Reaches(r, "return")
  /\ LET o == IF outcome[r] # "none" THEN outcome[r]
              ELSE IF Error(r) # "none" THEN Error(r) ELSE "ok"
     IN  /\ result' = [result EXCEPT ![r] = o]
         /\ handles' = [handles EXCEPT ![r] = HandlesAfter(r, o)]
         /\ told' = IF o = "ok" /\ Op(r) \in WritingOp THEN told \union {call[r].name} ELSE told
  /\ held' = [held EXCEPT ![r] = {}]
  /\ view' = [view EXCEPT ![r][0] = "bytes"]
  /\ seen' = [seen EXCEPT ![r] = NotScanned]
  /\ outcome' = [outcome EXCEPT ![r] = "none"]
  /\ place' = [place EXCEPT ![r] = "idle"]
  /\ UNCHANGED <<log, call, disk, nextId, system, bounds>>

Abort(r) ==
  /\ system = "running" /\ place[r] # "idle" /\ Complete(r) /\ MustAbort(r)
  /\ system' = "aborted"
  /\ UNCHANGED <<log, place, call, outcome, locals, disk, nextId, bounds, told>>

(* An open session that goes out of scope stops the program. *)
Drop(r) ==
  /\ system = "running" /\ place[r] = "idle"
  /\ \E i \in DOMAIN handles[r] : ~ handles[r][i].closed
  /\ Fault(TRUE)
  /\ system' = "aborted"
  /\ UNCHANGED <<log, place, call, outcome, locals, disk, nextId, told>>

(* The system goes down, or the program was stopped or has ended; a new    *)
(* job finds what is left.  A record of which nothing is left may leave    *)
(* the file longer or not.                                                 *)
Survives(kept) ==
  [i \in DOMAIN file |-> [file[i] EXCEPT !.parts =
     [x \in Part |-> IF @[x] = "cached" THEN IF <<i, x>> \in kept THEN "stored" ELSE "absent"
                     ELSE @[x]]]]

Trimmed(records) ==
  IF records # <<>> /\ \A x \in Part : records[Len(records)].parts[x] = "absent"
  THEN {records, SubSeq(records, 1, Len(records) - 1)} ELSE {records}

Crash ==
  /\ job < MaxJobs /\ job' = job + 1
  /\ \E kept \in SUBSET {p \in (DOMAIN file) \X Part : file[p[1]].parts[p[2]] = "cached"} :
       file' \in Trimmed(Survives(kept))
  /\ container' \in IF container = "cached" THEN {"stored", "absent"} ELSE {container}
  /\ log' = [r \in Rank |-> <<>>]
  /\ place' = [r \in Rank |-> "idle"]
  /\ outcome' = [r \in Rank |-> "none"]
  /\ result' = [r \in Rank |-> "none"]
  /\ held' = [r \in Rank |-> {}]
  /\ handles' = [r \in Rank |-> <<>>]
  /\ view' = [r \in Rank |-> [f \in 0..MaxSessions |-> "bytes"]]
  /\ seen' = [r \in Rank |-> NotScanned]
  /\ \E q \in Rank :
       /\ \A r \in Rank : calls[r] <= calls[q]
       /\ calls' = [r \in Rank |-> calls[q]]
  /\ nextId' = 0
  /\ system' = "running"
  /\ call' = [r \in Rank |-> NoCall]
  /\ UNCHANGED <<created, faults, told>>

(* Sessions that earlier calls have opened: none, or all. *)
Opened ==
  LET session(i) == [id |-> i, readonly |-> FALSE, closed |-> FALSE, poisoned |-> FALSE]
  IN  {[i \in 1..n |-> session(i)] : n \in {0, MaxSessions}}

(* A file that earlier calls have left: empty, or with one record. *)
Earlier ==
  {<<>>} \union {<<[name |-> n, parts |-> [x \in Part |-> "stored"]]>> : n \in Name}

Init ==
  /\ NoReductions
  /\ place = [r \in Rank |-> "idle"]
  /\ call = [r \in Rank |-> NoCall]
  /\ outcome = [r \in Rank |-> "none"]
  /\ result = [r \in Rank |-> "none"]
  /\ held = [r \in Rank |-> {}]
  /\ view = [r \in Rank |-> [f \in 0..MaxSessions |-> "bytes"]]
  /\ seen = [r \in Rank |-> NotScanned]
  /\ \/ /\ created = FALSE /\ container = "absent" /\ file = <<>>
        /\ nextId = 0 /\ handles = [r \in Rank |-> <<>>]
     \/ /\ created = TRUE /\ container = "stored" /\ file \in Earlier
        /\ \E sessions \in Opened :
             nextId = Len(sessions) /\ handles = [r \in Rank |-> sessions]
  /\ system = "running"
  /\ job = 1 /\ calls = [r \in Rank |-> 0] /\ faults = 0
  /\ told = Names(Len(file))

Step(r) ==
  \/ Check(r) \/ ValidateCatalog(r) \/ Identify(r) \/ Duplicate(r) \/ OpenFile(r) \/ ScanFile(r)
  \/ CreateDatatype(r) \/ SetView(r) \/ WriteContainer(r) \/ WriteHead(r) \/ WritePayload(r)
  \/ WriteMarker(r) \/ Flush(r) \/ Release(r) \/ FinishOperation(r) \/ Abort(r) \/ Return(r)

Done ==
  /\ system = "aborted" \/ \A r \in Rank : place[r] = "idle" /\ calls[r] = MaxCalls
  /\ UNCHANGED vars

Next == (\E r \in Rank : Begin(r) \/ Step(r) \/ Drop(r)) \/ Crash \/ Done

Spec == Init /\ [][Next]_vars

----------------------------------------------------------------------------
(* Properties.                                                             *)

(* A record that a scan lists has all its blocks, whatever failed, crashed *)
(* or was appended before and after; and no two of them share a name.      *)
ListedRecordsAreWhole ==
  LET k == Prefix(Listed)
  IN  /\ \A i \in 1..k : Whole(file[i])
      /\ \A i, j \in 1..k : file[i].name = file[j].name => i = j

(* A write that returned Ok is found by every later scan, also after       *)
(* crashes, aborts and failed writes of others.                            *)
OkIsListed ==
  /\ told \subseteq Names(Prefix(Stored))
  /\ told # {} => container = "stored"

(* What a scan finds is what was committed.                                *)
ScansTellTheTruth == ListedRecordsAreWhole /\ OkIsListed

(* The committed prefix is never modified (append_mpi_named: "without      *)
(* modifying the committed prefix").                                       *)
CommittedStays ==
  [][\A i \in 1..Prefix(Stored) : i \in DOMAIN file' /\ file'[i] = file[i]]_vars

(* Ranks that have returned from the same call return Ok together and hold *)
(* the same sessions in the same state, or the next preflight would refuse *)
(* every session for ever.                                                 *)
RanksAgree ==
  \A p, q \in Rank :
    place[p] = "idle" /\ place[q] = "idle" /\ calls[p] = calls[q] =>
      /\ handles[p] = handles[q]
      /\ result[p] = "ok" <=> result[q] = "ok"

(* Headers, markers and scans are addressed in bytes from the start of the *)
(* file: none of them happens through a view a payload has left behind.    *)
OffsetsAreBytes ==
  \A r \in Rank :
    place[r] \in {"container", "head", "marker", "report"} => view[r][File(r)] = "bytes"
==================================================================================
