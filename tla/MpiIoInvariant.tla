---------------------------- MODULE MpiIoInvariant ----------------------------
(***************************************************************************)
(* The inductive invariant of MpiIo.                                       *)
(*                                                                         *)
(* Ranks at the same reduction are at the same place of the same call and  *)
(* will decide alike; a rank that is ahead has done what the others will   *)
(* do.  What a rank holds follows from its place and its own words, and so *)
(* does what it has written; the marker is written when all ranks are past *)
(* the flush of their payload.                                             *)
(***************************************************************************)
EXTENDS MpiIo, ReductionProofs

----------------------------------------------------------------------------
(* The order of places, as far as it matters.                              *)

ReadOp == {"read_mpi", "read_mpi_with_options", "read_mpi_collection",
           "read_mpi_collection_with_options"}

EarlyPlace ==
  {"descriptor", "collection members", "collection preparation",
   "collection descriptor", "collection descriptor allocation",
   "collection descriptor gather", "collection decomposition preparation",
   "collection decomposition length", "collection decomposition allocation",
   "collection decomposition gather", "collection staging", "combined descriptor",
   "descriptor allocation", "descriptor gather", "path preparation",
   "options preparation", "options length", "options allocation", "options gather",
   "decomposition preparation", "decomposition length", "decomposition allocation",
   "decomposition gather", "MPI_Info creation", "local preparation",
   "path validity", "path length", "path bytes", "raw preparation"}

(* Before and after a reader has seen the marker. *)
UnseenPlace == {"file size", "size comparison", "prefix read", "prefix broadcast"}
SeenPlace   == {"header allocation", "header read", "header broadcast", "metadata validation"}

UnseenCatalog == {"file size", "catalog size", "catalog prefix allocation"}
SeenCatalog   == {"catalog header allocation", "catalog header read"}

(* Places with an open file, before and after the datatype. *)
MidPlace ==
  {"file handler", "header write", "header flush", "prefix validation", "raw file size",
   "catalog prefix read", "catalog validation"}
  \union UnseenPlace \union SeenPlace \union UnseenCatalog \union SeenCatalog

PastPlace == {"file view", "payload write", "payload flush", "payload size", "marker view",
              "marker write", "marker flush", "payload read", "physical staging"}

WriteStep == {"header write", "header flush", "payload write", "payload flush", "marker write",
              "marker flush"}

AnyPlace ==
  EarlyPlace \union MidPlace \union PastPlace \union ClosingPlace
    \union {"MPI_Comm_dup", "handler restoration", "communicator handler", "MPI_File_open",
            "datatype", "post cleanup", "return"}

(* Operations that may be at place p. *)
Fits(o, p) ==
  /\ p \in AnyPlace
  /\ p \in WriteStep \union {"payload size", "marker view"} => o \in Writing
  /\ p \in (UnseenPlace \ {"file size"}) \union SeenPlace \union {"prefix validation"} => o \in ReadOp
  /\ p = "file size" => o \in ReadOp \union {"read_mpi_catalog"}
  /\ p \in Cataloguing \union {"catalog validation"} => o = "read_mpi_catalog"
  /\ p = "raw file size" => o = "read_mpi_raw"
  /\ p \in {"payload read", "physical staging"} => o \in ReadOp \union {"read_mpi_raw"}
  /\ p \in {"datatype", "file view", "post cleanup"} => o # "read_mpi_catalog"
  /\ p \notin {"descriptor", "return"} => o \notin Void

(* What may come after place p of operation o when all agree. *)
Leads(o, p, n) ==
  \/ p \in EarlyPlace /\ o \notin Void /\ n \in (EarlyPlace \ {"descriptor"}) \union {"MPI_Comm_dup"}
  \/ p = "descriptor" /\ o \in Void /\ n = "return"
  \/ p = "MPI_Comm_dup" /\ n = "handler restoration"
  \/ p = "handler restoration" /\ n = "communicator handler"
  \/ p = "communicator handler" /\ n = "MPI_File_open"
  \/ p = "MPI_File_open" /\ n = "file handler"
  \/ p = "file handler" /\ n = IF o \in Writing THEN "header write"
                               ELSE IF o = "read_mpi_raw" THEN "raw file size" ELSE "file size"
  \/ p = "header write" /\ n = "header flush"
  \/ p \in UnseenPlace /\ o \in ReadOp /\ n \in UnseenPlace \union {"prefix validation"}
  \/ p = "prefix validation" /\ n \in SeenPlace
  \/ p \in SeenPlace /\ n \in SeenPlace \union {"datatype"}
  \/ p \in UnseenCatalog /\ o = "read_mpi_catalog" /\ n \in UnseenCatalog \union {"catalog prefix read"}
  \/ p = "catalog prefix read" /\ n \in SeenCatalog
  \/ p \in SeenCatalog /\ n \in SeenCatalog \union {"catalog validation"}
  \/ p = "catalog validation" /\ n = "datatype free"
  \/ p \in {"header flush", "raw file size"} /\ n = "datatype"
  \/ p = "datatype" /\ n = "file view"
  \/ p = "file view" /\ n = IF o \in Writing THEN "payload write" ELSE "payload read"
  \/ p = "payload write" /\ n = "payload flush"
  \/ p = "payload flush" /\ n = "payload size"
  \/ p = "payload size" /\ n = "marker view"
  \/ p = "marker view" /\ n = "marker write"
  \/ p = "marker write" /\ n = "marker flush"
  \/ p = "payload read" /\ n = "physical staging"
  \/ p \in {"marker flush", "physical staging"} /\ n = "datatype free"
  \/ p = "datatype free" /\ n = "file close"
  \/ p = "file close" /\ n = "communicator free"
  \/ p = "communicator free" /\ n = IF o = "read_mpi_catalog" THEN "return" ELSE "post cleanup"
  \/ p = "post cleanup" /\ n = "return"

(* Where a refused rank goes. *)
Exit(o, p) ==
  IF p \in Cataloguing \/ (p = "file size" /\ o = "read_mpi_catalog") THEN "catalog validation"
  ELSE IF p \in MidPlace \union PastPlace \union {"datatype"} THEN "datatype free"
  ELSE IF p \in {"communicator handler", "MPI_File_open"} THEN "communicator free" ELSE "return"

----------------------------------------------------------------------------
(* Agreement.                                                              *)

(* The words a rank may contribute at place p. *)
Vocabulary(p) ==
  CASE p = "descriptor" -> KnownOperation \union {"failed"}
    [] p = "post cleanup" -> {"ok", "failed"}
    [] OTHER -> {"ok"} \union BadWords(p)

WordsFit ==
  \A r \in Rank : \A i \in 1..Len(log[r]) : log[r][i].word \in Vocabulary(log[r][i].place)

Busy(r) == place[r] # "idle"

(* The place and the call of rank r, and what its log tells about them. *)
PlaceInv(r) ==
  /\ ~ Busy(r) => Complete(r)
  /\ Busy(r) =>
       /\ place[r] \in Places(op[r]) \ {"return"}
       /\ Len(log[r]) >= 1 /\ Own(r).place = place[r]
       /\ place[r] # "descriptor" => Len(log[r]) >= 2
       /\ place[r] = "descriptor" => Own(r).word \in {op[r], "failed"}
       /\ place[r] = "handler restoration" => log[r][2].place = "MPI_Comm_dup"
       /\ outcome[r] # "none" => place[r] \in ClosingPlace \union {"post cleanup", "catalog validation"}

(* What rank r holds. *)
HeldInv(r) ==
  LET p == place[r]
      ok == Own(r).word = "ok"
      open == {"communicator", "file"}
  IN  /\ p \in {"idle", "post cleanup"} \union EarlyPlace => held[r] = {}
      /\ p = "MPI_Comm_dup" => held[r] = {"handler"} \union (IF ok THEN {"communicator"} ELSE {})
      /\ p = "handler restoration" => held[r] = IF log[r][2].word = "ok" THEN {"communicator"} ELSE {}
      /\ p = "communicator handler" => held[r] = {"communicator"}
      /\ p = "MPI_File_open" => held[r] = IF ok THEN open ELSE {"communicator"}
      /\ p \in MidPlace => held[r] = open
      /\ p \in PastPlace \union {"datatype"} => held[r] \in {open, open \union {"datatype"}}
      /\ p = "datatype free" => IF ok THEN held[r] = open ELSE held[r] = open \union {"datatype"}
      /\ p = "file close" => held[r] = IF ok THEN {"communicator"} ELSE open
      /\ p = "communicator free" => held[r] = IF ok THEN {} ELSE {"communicator"}

(* The error of r as all ranks see it. *)
Kind(o) ==
  IF o \in {"none", "ok", "SizeLimit", "Empty", "Incompatible first", "Incompatible second"}
  THEN o ELSE "error"

(* What r has decided when it leaves its reduction, and returns then. *)
Decided(r) == IF Refused(r) /\ outcome[r] = "none" THEN Error(r) ELSE outcome[r]
Returning(r) == IF Decided(r) = "none" THEN "ok" ELSE Decided(r)

(* Ranks p and q are at the same reduction. *)
Same(p, q) ==
  /\ calls[p] = calls[q]
  /\ Busy(p) /\ Busy(q) =>
       /\ place[p] = place[q]
       /\ place[p] # "descriptor" => op[p] = op[q]
       /\ Kind(outcome[p]) = Kind(outcome[q])
  /\ ~ Busy(p) /\ Busy(q) =>
       ~ MustAbort(q) /\ Target(q) = "return" /\ Kind(result[p]) = Kind(Returning(q))
  /\ ~ Busy(p) /\ ~ Busy(q) => Kind(result[p]) = Kind(result[q])

(* Rank q is one reduction ahead of p. *)
Lead(q, p) ==
  /\ Busy(q)
  /\ Busy(p) => ~ MustAbort(p)
  /\ IF Busy(p) /\ Target(p) # "return"
     THEN /\ place[q] = Target(p) /\ op[q] = op[p] /\ calls[q] = calls[p]
          /\ Kind(outcome[q]) = Kind(Decided(p))
     ELSE place[q] = "descriptor" /\ calls[q] = calls[p] + 1

ControlType ==
  /\ place \in [Rank -> AnyPlace \union {"idle"}] /\ op \in [Rank -> KnownOperation]
  /\ outcome \in [Rank -> Result \ {"ok"}] /\ result \in [Rank -> Result]
  /\ held \in [Rank -> SUBSET {"handler", "communicator", "file", "datatype"}]
  /\ calls \in [Rank -> Nat]

InStep ==
  \A p, q \in Rank :
    /\ Ahead(q, p) = 0 => Same(p, q)
    /\ Ahead(q, p) = 1 => Lead(q, p)

ControlInv ==
  /\ LogInv /\ LogsMatch /\ WordsFit /\ ControlType
  /\ \A r \in Rank : PlaceInv(r)
  /\ \A r \in Rank : HeldInv(r)
  /\ InStep

----------------------------------------------------------------------------
(* The file.                                                               *)

FileType ==
  /\ file \in [Part -> {"absent", "cached", "stored"}] /\ created \in BOOLEAN
  /\ staging \in [Rank -> {"none", "written", "hole"}]
  /\ destination \in [Rank -> {"none", "old", "written", "hole"}]
  /\ told \subseteq Result

AfterHeader  == {"datatype", "file view", "payload write", "payload flush"}
AfterPayload == {"payload size", "marker view", "marker write", "marker flush"}
AfterOpen    == {"file handler", "header write", "header flush"}

Writer(r) == Busy(r) /\ op[r] \in Writing /\ outcome[r] = "none"

(* Writer r has done its part at place p, its current one or an earlier one. *)
Did(r, p) == place[r] = p /\ Own(r).word = "ok"

OnPath(r) ==
  /\ Writer(r)
  /\ Did(r, "MPI_File_open") \/ place[r] \in AfterOpen \union AfterHeader \union AfterPayload

(* What writer r has written so far. *)
WriteInv(r) ==
  /\ OnPath(r) => created
  /\ Writer(r) =>
       /\ Did(r, "header write") /\ r = Root => file["header"] # "absent"
       /\ r = Root /\ (Did(r, "header flush") \/ place[r] \in AfterHeader \union AfterPayload) =>
            file["header"] = "stored"
       /\ Did(r, "payload write") => \A x \in PayloadOf(r) : file[x] # "absent"
       /\ Did(r, "payload flush") \/ place[r] \in AfterPayload => \A x \in PayloadOf(r) : file[x] = "stored"
       /\ Did(r, "marker write") /\ r = Root => file["marker"] # "absent"
       /\ Did(r, "marker flush") /\ r = Root => file["marker"] = "stored"
       /\ place[r] \in ClosingPlace \union {"post cleanup"} => file["marker"] = "stored"

(* What readers have seen. *)
ReadInv(r) ==
  /\ Busy(r) /\ outcome[r] = "none" /\ op[r] \in ReadOp
       /\ (Did(r, "prefix validation")
             \/ place[r] \in SeenPlace \union {"datatype", "file view", "payload read", "physical staging"})
     => file["marker"] # "absent"
  /\ Busy(r) /\ outcome[r] = "none" /\ op[r] = "read_mpi_catalog"
       /\ place[r] \in SeenCatalog \union {"catalog validation"} \union ClosingPlace
     => file["marker"] # "absent"
  /\ ~ Busy(r) /\ op[r] = "read_mpi_catalog" /\ result[r] = "ok" => file["marker"] # "absent"
  /\ Busy(r) => result[r] = "none"
  /\ "hole" \in {staging[r], destination[r]} => op[r] = "read_mpi_raw"

Stored(x) == file[x] = "stored"

(* The marker comes last, when nobody can fail any more before it. *)
MarkerInv ==
  /\ file["marker"] # "absent" => \A x \in Part \ {"marker"} : Stored(x)
  /\ (\E x \in Part : file[x] # "absent") => created
  /\ file["marker"] # "absent" =>
       \A r \in Rank : OnPath(r) =>
         \/ place[r] \in {"marker write", "marker flush"}
         \/ place[r] = "marker view" /\ Complete(r) /\ ~ Refused(r)

(* Nobody goes on with a file that was called incomplete. *)
Incomplete == "WriteIncomplete" \in told \/ \E r \in Rank : outcome[r] = "WriteIncomplete"

IncompleteInv ==
  Incomplete =>
    /\ created /\ file["marker"] = "absent"
    /\ \A r \in Rank : OnPath(r) => place[r] # "MPI_File_open" /\ Complete(r) /\ Refused(r)

FileInv ==
  /\ FileType
  /\ \A r \in Rank : WriteInv(r)
  /\ \A r \in Rank : ReadInv(r)
  /\ MarkerInv /\ IncompleteInv
  /\ "ok" \in told => file["marker"] = "stored"

MpiIoInv == ControlInv /\ FileInv
===============================================================================
