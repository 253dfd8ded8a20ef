--------------------------------- MODULE MpiIo ---------------------------------
(***************************************************************************)
(* Collective files of pencil-io (mpi_io.rs): write_mpi creates a file and *)
(* writes one array into it, read_mpi reads one back.  A collection of     *)
(* arrays (collections.rs) is agreed on, staged as one array and then      *)
(* written or read like one; a catalog (catalog.rs) is the metadata of the *)
(* file; a raw read (raw.rs) takes the bytes at an offset for an array.    *)
(* A call is a script of places; at each of them every rank does something *)
(* of its own (checks its arguments, calls MPI-IO) and all of them agree   *)
(* whether to go on.  Failures are local and may happen at any place on    *)
(* any rank.                                                               *)
(*                                                                         *)
(* The file is a set of parts: header, commit marker, the block of each    *)
(* rank, and the length.  A part that was written is cached until the rank *)
(* that wrote it syncs the file; when the system crashes each cached part  *)
(* is kept or lost.  Jobs run after a crash or an abort find what is left. *)
(***************************************************************************)
EXTENDS Reductions

CONSTANTS
  Root,        \* rank that writes header and marker and reads the header
  Empty,       \* ranks whose block has no elements
  LastRank,    \* rank whose block ends the file
  Operation,   \* operations the callers use
  MaxFaults,   \* bound: local failures
  MaxCalls,    \* bound: calls of a rank in one job
  MaxJobs      \* bound: jobs

Collection ==
  {"write_mpi_collection", "write_mpi_collection_with_options",
   "read_mpi_collection", "read_mpi_collection_with_options"}
Writing ==
  {"write_mpi", "write_mpi_with_options",
   "write_mpi_collection", "write_mpi_collection_with_options"}
WithOptions ==
  {"write_mpi_with_options", "read_mpi_with_options",
   "write_mpi_collection_with_options", "read_mpi_collection_with_options"}
(* Collections without a member. *)
Void == {"write no members", "read no members"}
KnownOperation ==
  Writing \union WithOptions \union Collection \union Void
    \union {"read_mpi", "read_mpi_catalog", "read_mpi_raw"}

ASSUME FileAssumption ==
  /\ Root \in Rank /\ Empty \subseteq Rank /\ LastRank \in Rank \ Empty
  /\ Rank \intersect {"header", "marker", "length"} = {}   \* other parts of the file
  /\ Operation \subseteq KnownOperation
  /\ MaxFaults \in Nat /\ MaxCalls \in Nat /\ MaxJobs \in Nat

Part == {"header", "marker", "length"} \union (Rank \ Empty)

VARIABLES
  place,       \* place of each rank in its script
  op,          \* operation of each rank
  outcome,     \* error the rank has decided to return; "none" until then
  result,      \* what the last call returned
  held,        \* native resources the rank holds
  created,     \* the file exists
  file,        \* state of each part
  staging,     \* whether the staged block is the one written
  destination, \* contents of the reader's array
  system,      \* "running" or "aborted"
  job, calls, faults,
  told         \* results that write calls have ever returned

control == <<log, place, op, outcome, result, held>>
disk    == <<created, file>>
memory  == <<staging, destination>>
bounds  == <<job, calls, faults>>
vars    == <<control, disk, memory, bounds, system, told>>

----------------------------------------------------------------------------
(* Scripts: the places of a call, in order.                                *)

Decomposition == <<"decomposition preparation", "decomposition length",
  "decomposition allocation", "decomposition gather">>

Options == <<"options preparation", "options length", "options allocation",
  "options gather">>

(* A collection: its members are alike, its descriptor and decomposition   *)
(* agree, and the combined array is staged.  Then it is one array.         *)
CollectionPreparation ==
  <<"descriptor", "collection members", "collection preparation",
    "collection descriptor", "collection descriptor allocation",
    "collection descriptor gather">>
  \o <<"collection decomposition preparation", "collection decomposition length",
       "collection decomposition allocation", "collection decomposition gather">>
  \o <<"collection staging", "combined descriptor">>

Preparation(o) ==
  (IF o \in Collection THEN CollectionPreparation ELSE <<"descriptor">>)
  \o <<"descriptor allocation", "descriptor gather", "path preparation">>
  \o (IF o \in WithOptions
      THEN Options \o Decomposition \o <<"MPI_Info creation">> ELSE <<>>)
  \o <<"local preparation">>

Opening == <<"MPI_Comm_dup", "handler restoration", "communicator handler",
             "MPI_File_open", "file handler">>

ReadingHeader == <<"file size", "size comparison", "prefix read", "prefix broadcast",
  "prefix validation", "header allocation", "header read", "header broadcast",
  "metadata validation">>

Writes == <<"header write", "header flush", "datatype", "file view", "payload write",
  "payload flush", "payload size", "marker view", "marker write", "marker flush">>

Reads == ReadingHeader \o <<"datatype", "file view", "payload read", "physical staging">>

Closing == <<"datatype free", "file close", "communicator free">>

(* The metadata of the file alone, checked by every rank on its own; what  *)
(* the root broadcasts cannot fail.                                        *)
CatalogScript ==
  <<"descriptor", "path validity", "path length", "path bytes">> \o Opening
  \o <<"file size", "catalog size", "catalog prefix allocation", "catalog prefix read",
       "catalog header allocation", "catalog header read", "catalog validation">>
  \o Closing \o <<"return">>

(* No header is read; the file only has to be long enough.                 *)
RawScript ==
  <<"descriptor", "descriptor allocation", "descriptor gather">> \o Decomposition
  \o Options \o <<"raw preparation", "MPI_Info creation">> \o Opening
  \o <<"raw file size", "datatype", "file view", "payload read", "physical staging">>
  \o Closing \o <<"post cleanup", "return">>

(* Mutant: the marker is written with the header. *)
ScriptMarkerFirst(o) ==
  Preparation(o) \o Opening
  \o (IF o \in Writing
      THEN <<"header write", "marker write", "marker flush", "header flush", "datatype",
             "file view", "payload write", "payload flush", "payload size">>
      ELSE Reads)
  \o Closing \o <<"post cleanup", "return">>

Script(o) ==
  CASE o \in Void -> <<"descriptor", "return">>
    [] o = "read_mpi_catalog" -> CatalogScript
    [] o = "read_mpi_raw" -> RawScript
    [] OTHER -> Preparation(o) \o Opening \o (IF o \in Writing THEN Writes ELSE Reads)
                \o Closing \o <<"post cleanup", "return">>

Places(o) == {Script(o)[i] : i \in DOMAIN Script(o)}

Successor ==
  [o \in KnownOperation |->
     [p \in Places(o) \ {"return"} |->
        LET i == CHOOSE i \in DOMAIN Script(o) : Script(o)[i] = p IN Script(o)[i + 1]]]

NextPlace(o, p) == Successor[o][p]

ClosingPlace == {"datatype free", "file close", "communicator free"}
StatePlace == {"MPI_File_open", "datatype"}

----------------------------------------------------------------------------
(* Agreements.  The words a rank may contribute at a place; any but the    *)
(* good one is a local failure or a difference to the other ranks.         *)

GoodWord(r, p) == IF p = "descriptor" THEN op[r] ELSE "ok"

(* Places where the ranks compare values of theirs. *)
Comparing ==
  {"descriptor gather", "options length", "options gather", "decomposition length",
   "decomposition gather", "collection descriptor gather",
   "collection decomposition length", "collection decomposition gather",
   "path length", "path bytes", "catalog size"}

BadWords(p) ==
  CASE p \in {"path preparation", "collection preparation", "raw preparation"} ->
         {"failed", "limit"}
    [] p = "collection members" -> {"first", "second"}   \* member that differs
    [] p \in Comparing -> {"other"}
    [] p \in {"post cleanup", "combined descriptor"} -> {}
    [] OTHER -> {"failed"}

(* All ranks agree to go on: nobody failed and nobody differs. *)
AgreedWords(ws) ==
  /\ Cardinality(ws) = 1
  /\ ws \intersect ({"failed", "limit", "first", "second"} \union Void) = {}

Agreed(r) ==
  /\ AgreedWords(Words(r))
  /\ place[r] = "handler restoration" => AgreedWords(WordsBefore(r))

(* Some ranks hold a native resource that the others failed to get, or one *)
(* that a rank could not release: no rank can clean up, so all stop.       *)
MustAbort(r) ==
  \/ place[r] \in StatePlace /\ {"ok", "failed"} \subseteq Words(r)
  \/ place[r] \in ClosingPlace /\ "failed" \in Words(r)
  \/ /\ place[r] = "handler restoration"
     /\ \/ {"ok", "failed"} \subseteq WordsBefore(r)
        \/ "failed" \in Words(r)

(* All ranks see the same defect in what the root has read for a catalog. *)
Malformed(r) ==
  \/ place[r] = "catalog size" /\ file["header"] = "absent" /\ file["length"] = "absent"
  \/ place[r] = "catalog prefix read" /\ "absent" \in {file["header"], file["marker"]}

Refused(r) == (~ Agreed(r) \/ Malformed(r)) /\ place[r] # "MPI_Comm_dup"

(* A catalog that was opened is agreed upon before it is closed. *)
Cataloguing ==
  {"catalog size", "catalog prefix allocation", "catalog prefix read",
   "catalog header allocation", "catalog header read"}

InCatalog(r) ==
  \/ place[r] \in Cataloguing
  \/ place[r] = "file size" /\ op[r] = "read_mpi_catalog"

(* A raw read that had opened the file agrees on its result even then. *)
AgreesAfterError(r) == op[r] = "read_mpi_raw" /\ log[r][2].place = "file close"

(* Mutant: the duplicate is forgotten when the file cannot be opened. *)
TargetForgets(r) ==
  IF place[r] = "communicator free" /\ outcome[r] # "none" /\ ~ AgreesAfterError(r)
  THEN "return"
  ELSE IF Refused(r)
       THEN IF "file" \in held[r] THEN "datatype free" ELSE "return"
       ELSE NextPlace(op[r], place[r])

(* Where r goes from a complete reduction. *)
Target(r) ==
  IF place[r] = "communicator free" /\ outcome[r] # "none" /\ ~ AgreesAfterError(r)
  THEN "return"
  ELSE IF Refused(r)
       THEN IF InCatalog(r) THEN "catalog validation"
            ELSE IF "file" \in held[r] THEN "datatype free"
            ELSE IF "communicator" \in held[r] THEN "communicator free" ELSE "return"
       ELSE NextPlace(op[r], place[r])

(* The error of r when its reduction was refused. *)
LocalOr(r, own, peer) == IF Own(r).word = "ok" THEN peer ELSE own

WriteError(r) ==
  CASE place[r] \in {"header write", "payload write", "payload size", "datatype"} ->
         "WriteIncomplete"
    [] place[r] \in {"header flush", "file view", "payload flush", "marker view"} ->
         LocalOr(r, "WriteIncomplete", "CollectivePrecondition")
    [] place[r] = "marker write" -> "CommitUncertain"
    [] place[r] = "marker flush" -> LocalOr(r, "CommitUncertain", "CollectivePrecondition")
    [] OTHER -> LocalOr(r, "LocalError", "CollectivePrecondition")

ReadError(r) ==
  CASE place[r] = "size comparison" -> "InvalidFile"
    [] place[r] \in {"file size", "raw file size"} ->
         LocalOr(r, "InvalidFile", "CollectivePrecondition")
    [] place[r] \in {"prefix read", "header read", "datatype", "payload read",
                     "catalog prefix allocation", "catalog prefix read",
                     "catalog header allocation", "catalog header read"} ->
         "CollectivePrecondition"
    [] place[r] = "prefix validation" /\ file["header"] # "absent" -> "IncompleteFile"
    [] OTHER -> LocalOr(r, "LocalError", "CollectivePrecondition")

Error(r) ==
  CASE "limit" \in Words(r) -> "SizeLimit"
    [] place[r] = "handler restoration" -> "LocalError"   \* the duplication failed
    [] place[r] = "descriptor" ->
         IF Words(r) = {op[r]} THEN "Empty"
         ELSE IF Own(r).word = "failed" THEN "LocalError" ELSE "CollectiveDescriptorMismatch"
    [] place[r] = "collection members" ->
         IF "first" \in Words(r) THEN "Incompatible first" ELSE "Incompatible second"
    [] place[r] = "path validity" -> LocalOr(r, "LocalError", "CollectiveDescriptorMismatch")
    [] Malformed(r) /\ Agreed(r) -> "Malformed"
    [] place[r] \in Comparing /\ ~ (Malformed(r) /\ Agreed(r)) -> "CollectiveDescriptorMismatch"
    [] OTHER -> IF op[r] \in Writing THEN WriteError(r) ELSE ReadError(r)

----------------------------------------------------------------------------
(* Steps.                                                                  *)

(* Rank r leaves its reduction. *)
Leaves(r) ==
  /\ system = "running" /\ place[r] # "idle"
  /\ Complete(r) /\ ~ MustAbort(r)

(* It leaves for place p. *)
Reaches(r, p) == Leaves(r) /\ Target(r) = p

Fault(bad) ==
  /\ bad => faults < MaxFaults
  /\ faults' = IF bad THEN faults + 1 ELSE faults
  /\ UNCHANGED <<job, calls>>

(* r does its part at p and contributes word w to the agreement. *)
Vote(r, p, w) ==
  /\ Reaches(r, p)
  /\ Enter(r, p, w)
  /\ place' = [place EXCEPT ![r] = p]
  /\ outcome' = [outcome EXCEPT ![r] = IF Refused(r) /\ @ = "none" THEN Error(r) ELSE @]
  /\ UNCHANGED <<op, result, system, told>>

Acquire(r, x) == held' = [held EXCEPT ![r] = @ \union {x}]
Release(r, x) == held' = [held EXCEPT ![r] = @ \ {x}]

Outcomes == {"ok", "failed"}

Begin(r) ==
  /\ system = "running" /\ place[r] = "idle" /\ calls[r] < MaxCalls
  /\ \E o \in Operation, w \in {"ok", "failed"} :
       /\ w = "failed" => o \notin Collection \union Void \union {"read_mpi_catalog"}
       /\ op' = [op EXCEPT ![r] = o]
       /\ Enter(r, "descriptor", IF w = "ok" THEN o ELSE w)
       /\ w = "failed" => faults < MaxFaults
       /\ faults' = IF w = "failed" THEN faults + 1 ELSE faults
  /\ place' = [place EXCEPT ![r] = "descriptor"]
  /\ outcome' = [outcome EXCEPT ![r] = "none"]
  /\ result' = [result EXCEPT ![r] = "none"]
  /\ calls' = [calls EXCEPT ![r] = @ + 1]
  /\ staging' = [staging EXCEPT ![r] = "none"]
  /\ destination' = [destination EXCEPT ![r] = "old"]
  /\ UNCHANGED <<job, disk, system, told, held>>

(* Places without an effect on file or resources: arguments, allocations,  *)
(* views, header metadata.                                                 *)
Plain == (UNION {Places(o) : o \in KnownOperation})
         \ ({"descriptor", "MPI_Comm_dup", "handler restoration", "MPI_File_open",
             "file size", "size comparison", "raw file size", "catalog validation",
             "prefix validation", "metadata validation",
             "header write", "header flush", "datatype", "payload write", "payload flush",
             "payload size", "marker write", "marker flush", "payload read", "return"}
            \union ClosingPlace)

Check(r) ==
  /\ Leaves(r)
  /\ \E p \in Plain \intersect {Target(r)} : \E w \in {"ok"} \union BadWords(p) :
       /\ Vote(r, p, IF p = "post cleanup" /\ outcome[r] # "none" THEN "failed" ELSE w)
       /\ Fault(w # "ok")
  /\ UNCHANGED <<held, disk, memory>>

(* The caller's error handler is replaced during the duplication; a rank   *)
(* that cannot do so must not enter it and stops the program.              *)
DuplicateComm(r) ==
  /\ \E w \in Outcomes :
       /\ Vote(r, "MPI_Comm_dup", w) /\ Fault(w = "failed")
       /\ held' = [held EXCEPT ![r] = @ \union {"handler"}
                                      \union (IF w = "ok" THEN {"communicator"} ELSE {})]
  /\ UNCHANGED <<disk, memory>>

FailToSetHandler(r) ==
  /\ Reaches(r, "MPI_Comm_dup")
  /\ Fault(TRUE)
  /\ system' = "aborted"
  /\ UNCHANGED <<control, disk, memory, told>>

RestoreHandler(r) ==
  /\ \E w \in Outcomes : Vote(r, "handler restoration", w) /\ Fault(w = "failed")
  /\ Release(r, "handler")
  /\ UNCHANGED <<disk, memory>>

(* Writers create the file and insist that it is new; readers need it.     *)
(* A failed open may have created it all the same.                         *)
Creating == \E q \in Rank : place[q] = "MPI_File_open" /\ Own(q).word = "ok"

MayOpen(r) == IF op[r] \in Writing THEN ~ created \/ Creating ELSE created

OpenFile(r) ==
  /\ \E w \in Outcomes :
       /\ w = "ok" => MayOpen(r)
       /\ Vote(r, "MPI_File_open", w)
       /\ Fault(w = "failed" /\ MayOpen(r))
       /\ IF w = "ok" THEN Acquire(r, "file") ELSE UNCHANGED held
       /\ created' \in IF op[r] \notin Writing THEN {created}
                       ELSE IF w = "ok" THEN {TRUE} ELSE {created, TRUE}
  /\ UNCHANGED <<file, memory>>

(* A write that fails may have written or not; a rank that writes nothing  *)
(* may fail in the collective write all the same.                          *)
Written(ps, w) ==
  \E done \in IF w = "ok" THEN {ps} ELSE SUBSET ps :
    file' = [x \in Part |-> IF x \in done /\ file[x] = "absent" THEN "cached" ELSE file[x]]

WriteHeader(r) ==
  /\ \E w \in Outcomes :
       /\ Vote(r, "header write", w) /\ Fault(w = "failed")
       /\ Written(IF r = Root THEN {"header"} ELSE {}, w)
  /\ UNCHANGED <<held, created, memory>>

BlockOf(r) == {r} \ Empty
PayloadOf(r) == BlockOf(r) \union (IF r = LastRank THEN {"length"} ELSE {})

WritePayload(r) ==
  /\ \E w \in Outcomes :
       /\ Vote(r, "payload write", w) /\ Fault(w = "failed")
       /\ Written(PayloadOf(r), w)
  /\ UNCHANGED <<held, created, memory>>

WriteMarker(r) ==
  /\ \E w \in Outcomes :
       /\ Vote(r, "marker write", w) /\ Fault(w = "failed")
       /\ Written(IF r = Root THEN {"marker"} ELSE {}, w)
  /\ UNCHANGED <<held, created, memory>>

WrittenBy(r) == PayloadOf(r) \union (IF r = Root THEN {"header", "marker"} ELSE {})

(* MPI_File_sync stores what the calling rank has written. *)
Flush(r) ==
  /\ Leaves(r)
  /\ \E p \in {"header flush", "payload flush", "marker flush"} \intersect {Target(r)}, w \in Outcomes :
       /\ Vote(r, p, w) /\ Fault(w = "failed")
       /\ file' = [x \in Part |-> IF w = "ok" /\ x \in WrittenBy(r) /\ file[x] = "cached"
                                  THEN "stored" ELSE file[x]]
  /\ UNCHANGED <<held, created, memory>>

(* Sizes that are too small are refused on all ranks. *)
CheckSize(r) ==
  /\ Leaves(r)
  /\ \E p \in {"payload size", "file size", "size comparison", "raw file size"}
               \intersect {Target(r)}, w \in Outcomes :
       LET right == CASE p \in {"payload size", "raw file size"} -> file["length"] # "absent"
                      [] p = "file size" -> TRUE
                      [] OTHER -> file["header"] # "absent" \/ file["length"] # "absent"
       IN  /\ w = "ok" => right
           /\ Vote(r, p, w) /\ Fault(w = "failed" /\ right)
  /\ UNCHANGED <<held, disk, memory>>

(* The header that the root has read and broadcast carries the marker. *)
ValidatePrefix(r) ==
  /\ \E w \in Outcomes :
       /\ w = "ok" <=> file["header"] # "absent" /\ file["marker"] # "absent"
       /\ Vote(r, "prefix validation", w) /\ Fault(FALSE)
  /\ UNCHANGED <<held, disk, memory>>

(* It fits the length of the file and the caller's array. *)
ValidateMetadata(r) ==
  /\ \E w \in Outcomes :
       /\ w = "ok" => file["length"] # "absent"
       /\ Vote(r, "metadata validation", w)
       /\ Fault(w = "failed" /\ file["length"] # "absent")
  /\ UNCHANGED <<held, disk, memory>>

(* Ranks that have an error of the catalog already do not add one. *)
ValidateCatalog(r) ==
  /\ Leaves(r)
  /\ \E w \in Outcomes :
       LET good == outcome[r] = "none" /\ ~ Refused(r) /\ file["length"] # "absent"
       IN  /\ w = "ok" => good
           /\ Vote(r, "catalog validation", w) /\ Fault(w = "failed" /\ good)
  /\ UNCHANGED <<held, disk, memory>>

CreateDatatype(r) ==
  /\ \E w \in Outcomes :
       /\ r \in Empty => w = "ok"
       /\ Vote(r, "datatype", w) /\ Fault(w = "failed")
       /\ IF w = "ok" /\ r \notin Empty THEN Acquire(r, "datatype") ELSE UNCHANGED held
  /\ UNCHANGED <<disk, memory>>

ReadPayload(r) ==
  /\ \E w \in Outcomes :
       /\ Vote(r, "payload read", w) /\ Fault(w = "failed")
       /\ staging' = [staging EXCEPT ![r] =
            IF \A x \in BlockOf(r) : file[x] # "absent" THEN "written" ELSE "hole"]
  /\ UNCHANGED <<held, disk, destination>>

Resource(p) ==
  CASE p = "datatype free" -> "datatype" [] p = "file close" -> "file"
    [] p = "communicator free" -> "communicator"

Close(r) ==
  /\ Leaves(r)
  /\ \E p \in ClosingPlace \intersect {Target(r)}, w \in Outcomes :
       /\ p = "datatype free" /\ "datatype" \notin held[r] => w = "ok"
       /\ Vote(r, p, w) /\ Fault(w = "failed")
       /\ IF w = "ok" THEN Release(r, Resource(p)) ELSE UNCHANGED held
  /\ UNCHANGED <<disk, memory>>

(* Mutant: the failure is reported and the program goes on. *)
AbortReports(r) ==
  /\ system = "running" /\ place[r] # "idle" /\ Complete(r) /\ MustAbort(r)
  /\ UNCHANGED vars

Abort(r) ==
  /\ system = "running" /\ place[r] # "idle" /\ Complete(r) /\ MustAbort(r)
  /\ system' = "aborted"
  /\ UNCHANGED <<control, disk, memory, bounds, told>>

(* Mutant: a failure of the peers alone is no error. *)
ReturnOwn(r) ==
  /\ Reaches(r, "return")
  /\ result' = [result EXCEPT ![r] =
       IF \E i \in DOMAIN log[r] : log[r][i].word = "failed" THEN "LocalError" ELSE "ok"]
  /\ place' = [place EXCEPT ![r] = "idle"]
  /\ UNCHANGED <<log, op, outcome, held, disk, memory, bounds, system, told>>

(* The destination is written after everything else has succeeded. *)
Return(r) ==
  /\ Reaches(r, "return")
  /\ LET o == IF outcome[r] = "none" /\ Refused(r) THEN Error(r)
              ELSE IF outcome[r] = "none" THEN "ok" ELSE outcome[r]
     IN  /\ result' = [result EXCEPT ![r] = o]
         /\ destination' = IF o = "ok" /\ op[r] \notin Writing \union {"read_mpi_catalog"}
                           THEN [destination EXCEPT ![r] = staging[r]] ELSE destination
         /\ told' = IF op[r] \in Writing THEN told \union {o} ELSE told
  /\ place' = [place EXCEPT ![r] = "idle"]
  /\ UNCHANGED <<log, op, outcome, held, disk, staging, bounds, system>>

(* The system goes down, or the program was stopped; a new job finds the   *)
(* file as it was left.                                                    *)
Crash ==
  /\ job < MaxJobs /\ job' = job + 1
  /\ \E lost \in SUBSET {x \in Part : file[x] = "cached"} :
       file' = [x \in Part |-> IF x \in lost THEN "absent"
                               ELSE IF file[x] = "cached" THEN "stored" ELSE file[x]]
  /\ log' = [r \in Rank |-> <<>>]
  /\ place' = [r \in Rank |-> "idle"]
  /\ outcome' = [r \in Rank |-> "none"]
  /\ result' = [r \in Rank |-> "none"]
  /\ held' = [r \in Rank |-> {}]
  /\ staging' = [r \in Rank |-> "none"]
  /\ destination' = [r \in Rank |-> "old"]
  /\ calls' = [r \in Rank |-> 0]
  /\ system' = "running"
  /\ UNCHANGED <<op, created, faults, told>>

Init ==
  /\ NoReductions
  /\ place = [r \in Rank |-> "idle"]
  /\ op = [r \in Rank |-> "read_mpi"]
  /\ outcome = [r \in Rank |-> "none"]
  /\ result = [r \in Rank |-> "none"]
  /\ held = [r \in Rank |-> {}]
  /\ created = FALSE
  /\ file = [x \in Part |-> "absent"]
  /\ staging = [r \in Rank |-> "none"]
  /\ destination = [r \in Rank |-> "old"]
  /\ system = "running"
  /\ job = 1 /\ calls = [r \in Rank |-> 0] /\ faults = 0
  /\ told = {}

Step(r) ==
  \/ Check(r) \/ DuplicateComm(r) \/ FailToSetHandler(r) \/ RestoreHandler(r)
  \/ OpenFile(r) \/ WriteHeader(r) \/ WritePayload(r) \/ WriteMarker(r) \/ Flush(r)
  \/ CheckSize(r) \/ ValidatePrefix(r) \/ ValidateMetadata(r)
  \/ ValidateCatalog(r) \/ CreateDatatype(r) \/ ReadPayload(r) \/ Close(r) \/ Abort(r) \/ Return(r)

Done ==
  /\ system = "aborted" \/ \A r \in Rank : place[r] = "idle" /\ calls[r] = MaxCalls
  /\ UNCHANGED vars

Next == (\E r \in Rank : Begin(r) \/ Step(r)) \/ Crash \/ Done

Spec == Init /\ [][Next]_vars

FairSpec == Spec /\ \A r \in Rank : WF_vars(Begin(r)) /\ WF_vars(Step(r))

----------------------------------------------------------------------------
(* Properties.                                                             *)

Result == {"none", "ok", "LocalError", "CollectivePrecondition", "SizeLimit",
           "CollectiveDescriptorMismatch", "WriteIncomplete", "CommitUncertain",
           "InvalidFile", "IncompleteFile", "Empty", "Incompatible first",
           "Incompatible second", "Malformed"}

TypeOK ==
  /\ log \in [Rank -> Seq([turn : 0..3, place : STRING, word : STRING])]
  /\ place \in [Rank -> {"idle"} \union UNION {Places(o) : o \in KnownOperation}]
  /\ op \in [Rank -> KnownOperation]
  /\ outcome \in [Rank -> Result] /\ result \in [Rank -> Result]
  /\ held \in [Rank -> SUBSET {"handler", "communicator", "file", "datatype"}]
  /\ created \in BOOLEAN
  /\ file \in [Part -> {"absent", "cached", "stored"}]
  /\ staging \in [Rank -> {"none", "written", "hole"}]
  /\ destination \in [Rank -> {"old", "written", "hole"}]
  /\ system \in {"running", "aborted"}
  /\ job \in 0..MaxJobs /\ calls \in [Rank -> 0..MaxCalls] /\ faults \in 0..MaxFaults
  /\ told \subseteq Result

SameCall(p, q) == place[p] = "idle" /\ place[q] = "idle" /\ calls[p] = calls[q]

(* A read that publishes its block publishes what a write has written,     *)
(* also from a file that a crash or an abort has left behind, and a        *)
(* catalog lists no array of which a part is missing.  Only a raw read     *)
(* takes what it finds (raw.rs).                                           *)
ReadsAreWhole ==
  \A r \in Rank :
    /\ destination[r] = "hole" => op[r] = "read_mpi_raw"
    /\ result[r] = "ok" /\ op[r] = "read_mpi_catalog" => \A x \in Part : file[x] # "absent"

(* A write that returned Ok survives every crash.                          *)
OkIsStored == "ok" \in told => \A x \in Part : file[x] = "stored"

(* WriteIncomplete (lib.rs: "failed before its marker was durably          *)
(* flushed") is only said of files that no reader will ever accept.        *)
IncompleteIsInvisible == "WriteIncomplete" \in told => file["marker"] = "absent"

(* The marker is the whole truth about a file, after any crash: reads      *)
(* publish what was written, Ok lasts, and incomplete stays incomplete.    *)
MarkerTellsTheTruth == ReadsAreWhole /\ OkIsStored /\ IncompleteIsInvisible

(* Ranks that return from the same call return Ok together: an error on    *)
(* one rank means that no rank has published its block.  The local byte    *)
(* limit (lib.rs), an empty collection and its first incompatible member   *)
(* (collections.rs) are errors that all ranks report alike.                *)
OutcomesAgree ==
  \A p, q \in Rank :
  \A o \in {"ok", "SizeLimit", "Empty", "Incompatible first", "Incompatible second"} :
    SameCall(p, q) /\ result[p] = o => result[q] = o

(* Nobody leaves a call while a rank still holds a communicator, file or   *)
(* datatype of it, or has the caller's error handler replaced.             *)
ResourcesReleased ==
  \A p, q \in Rank :
    system = "running" /\ place[q] = "idle" /\ calls[p] = calls[q] => held[p] = {}

(* Every call ends: it returns on all ranks or stops the program.          *)
AllCallsEnd ==
  \A r \in Rank : place[r] # "idle" ~> place[r] = "idle" \/ system = "aborted"
===============================================================================
