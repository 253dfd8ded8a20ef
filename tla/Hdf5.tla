---------------------------------- MODULE Hdf5 ----------------------------------
(***************************************************************************)
(* Parallel HDF5 files of pencil-io: calls by path (hdf5_io.rs) and        *)
(* sessions (hdf5_io/session.rs).  What distinguishes them from the MPI-IO *)
(* files is the number of native handles a call holds.  Some are created   *)
(* locally, and when one rank fails the handles of its peers have to be    *)
(* closed; others are created collectively, and when only some ranks get   *)
(* one nobody can close it.  Handles are closed in the same order on all   *)
(* ranks, the file after the objects in it and the communicator last.      *)
(*                                                                         *)
(* As in Container a call is a script of places, each of which ends in an  *)
(* agreement; a rank is at an index of its script, since some places occur *)
(* twice.  The library and the file system are external: what a collective *)
(* flush has stored survives a crash, the rest survives in any part.       *)
(***************************************************************************)
EXTENDS Reductions

CONSTANTS
  Root,          \* rank that draws session identities
  Name,          \* names of members
  NoName,        \* of calls that are about no member
  Operation,     \* operations the callers use
  MaxFaults,     \* bound: local failures and calls that differ
  MaxCalls,      \* bound: calls of a rank
  MaxJobs,       \* bound: jobs
  MaxSessions    \* bound: sessions opened in one job, and their identities

CreatingOp == {"write_hdf5_named", "write_hdf5_named_collection", "create"}
AppendingOp == {"append_hdf5_named", "append_hdf5_named_collection"}
CatalogOp == {"read_hdf5_catalog", "catalog"}
OpenOp    == {"create", "open_read", "open_append"}
SessionOp == {"create_group", "write", "read", "catalog", "close"}
ReadingOp == {"read_hdf5_named", "read_hdf5_named_collection", "read"}
WritingOp == (CreatingOp \ {"create"}) \union AppendingOp \union {"write"}
PathOp    == (WritingOp \union ReadingOp \union CatalogOp) \ SessionOp

ASSUME Hdf5Assumption ==
  /\ Root \in Rank /\ NoName \notin Name
  /\ Operation \subseteq PathOp \union OpenOp \union SessionOp
  /\ {MaxFaults, MaxCalls, MaxJobs, MaxSessions} \subseteq Nat

VARIABLES
  at,          \* index of each rank in its script, 0 between calls
  call,        \* its call: operation, name and number of the session
  outcome,     \* error it has decided to return; "none" until then
  result,      \* what its last call returned
  held,        \* native handles of its call
  sessions,    \* its sessions
  staging,     \* what it has read: "none", "written" or "hole"
  destination, \* what its last call has published
  before,      \* the file when its call began
  file,        \* what the file contains
  stable,      \* what of it is in stable storage
  nextId,      \* last identity given by the root
  system,      \* "running" or "aborted"
  job, calls, faults,
  told         \* names of writes that have ever returned Ok

memory == <<sessions, staging, destination, before>>
bounds == <<job, calls, faults>>
vars   == <<log, at, call, outcome, result, held, memory, file, stable, nextId, system,
            bounds, told>>

----------------------------------------------------------------------------
(* The file: itself, its namespaces, and of each member its object, its    *)
(* commit marker and the block of each rank.  In a tree the members may    *)
(* lie in a group, the "parent".                                           *)

Space == {<<"named">>, <<"tree">>}
Dataset(n)  == <<n, "dataset">> \in file
Exists(n)   == Dataset(n) \/ <<n, "group">> \in file
Marked(n) == <<n, "marker">> \in file
SomeDataset == \E n \in Name : Dataset(n)
SomeGroup == <<"parent">> \in file \/ \E n \in Name : <<n, "group">> \in file
Whole(n, S) == \A x \in {"dataset", "marker"} \union Rank : <<n, x>> \in S

(* A member is found through its namespace, which is found in the file. *)
Consistent(S) ==
  /\ S # {} => <<"file">> \in S
  /\ S \intersect Space = {} => S \subseteq {<<"file">>}
  /\ \A n \in Name, x \in {"marker"} \union Rank : <<n, x>> \in S => <<n, "dataset">> \in S

----------------------------------------------------------------------------
(* Scripts: the places of a call, in order.  "checks" stands for checks of *)
(* arguments and allocations, each with an agreement and no other effect.  *)

Acquire == <<"duplicate", "fapl", "fapl setup", "fapl close", "open">>

Finish == <<"locals close", "dataset close", "group close">>

Closing == Finish \o <<"file close", "communicator free">>

(* Mutant: the marker is written before the payload is flushed. *)
CommitEarly == <<"payload", "marker handles", "marker", "marker close", "payload flush">>

Commit == <<"payload", "payload flush", "marker handles", "marker", "marker close", "marker flush">>

(* Attributes are written and read with handles of their own. *)
WriteAttribute == <<"attribute handles", "attribute create", "attribute", "attribute close">>
ReadAttribute  == <<"attribute handles", "validation", "attribute close">>

(* Ten attributes and the name, written one after another: one stands for  *)
(* all.                                                                    *)
WriteMetadata == WriteAttribute

CreateDataset == <<"dataset">> \o WriteMetadata \o <<"metadata flush">>

Types  == <<"datatype", "dataspace", "chunks">>
Select == <<"spaces", "selection">>

Fetch ==
  <<"dataset open">> \o ReadAttribute \o <<"datatype">> \o Select
  \o <<"transfer list", "payload read", "physical staging">>

(* What a catalog reads of an open dataset before it closes that. *)
Leaf == ReadAttribute \o <<"dataspace", "datatype", "checks", "locals close", "dataset close">>

(* The walk over the tree goes down into each group it finds and closes it *)
(* on the way back.  One group stands for all, and one dataset, which lies *)
(* in the group if there is one.                                           *)
Walk ==
  <<"links", "child open", "links", "dataset open">> \o Leaf \o <<"listed", "child close">>

OpenRoot == <<"root kind", "root open">>

Inspect == OpenRoot \o Walk \o <<"group close">>

WriteBody == Types \o CreateDataset \o Select \o <<"transfer list">> \o Commit

Open == <<"header", "identity", "controls">> \o Acquire

(* What an open session does when it is closed. *)
CloseNative == <<"return", "file close", "communicator free", "return">>

Entry == <<"header", "state">>

(* The group of a member, with each group on the way closed when the next  *)
(* is open.                                                                *)
Parent == OpenRoot \o <<"parent kind", "parent open", "ancestor close">>

WriteNamed ==
  <<"header", "name", "checks">> \o Acquire \o <<"namespace">> \o WriteBody
  \o Closing \o <<"cleanup", "return">>

(* The name is looked up in a file that is opened for that alone. *)
CheckNamedAbsent == Acquire \o <<"root open", "link query">> \o Closing \o <<"absent">>

AppendNamed ==
  <<"header", "name", "checks">> \o CheckNamedAbsent \o <<"checks">>
  \o Acquire \o <<"root open">> \o WriteBody \o Closing \o <<"cleanup", "return">>

ReadNamed ==
  <<"header", "name", "checks">> \o Acquire \o <<"root open", "link query", "presence">>
  \o Fetch \o Closing \o <<"cleanup", "return">>

CreateGroup ==
  Entry \o <<"name", "checks">> \o Parent
  \o <<"absent", "child create", "child close", "metadata flush", "group close", "return">>

SessionWrite ==
  Entry \o <<"name", "checks">> \o Parent \o <<"absent", "preparation">>
  \o Types \o <<"transfer list">> \o CreateDataset \o Select \o Commit \o Finish \o <<"return">>

SessionRead ==
  Entry \o <<"name", "checks">> \o Parent \o <<"kind", "preparation">>
  \o Fetch \o Finish \o <<"return">>

(* A collection is agreed on member by member and staged as one array,     *)
(* which then goes the way of an array.                                    *)
CollectionEntry == <<"header", "name", "controls", "members", "checks">>

(* The metadata of one dataset. *)
Describe == <<"dataset open">> \o Leaf \o <<"group close">>

(* The metadata of all named datasets, one standing for all; whatever goes *)
(* wrong in the open file is agreed upon before anything is closed.        *)
ReadCatalog ==
  <<"header", "checks">> \o Acquire
  \o <<"checks", "link query", "recognized", "root open", "count">> \o Describe
  \o <<"catalog validation">> \o Closing \o <<"return">>

Script ==
  [o \in Operation |->
    CASE o = "write_hdf5_named"  -> WriteNamed
      [] o = "write_hdf5_named_collection"  -> CollectionEntry \o WriteNamed
      [] o = "append_hdf5_named_collection" -> CollectionEntry \o AppendNamed
      [] o = "read_hdf5_named_collection"   -> CollectionEntry \o ReadNamed
      [] o = "read_hdf5_catalog" -> ReadCatalog
      [] o = "append_hdf5_named" -> AppendNamed
      [] o = "read_hdf5_named"   -> ReadNamed
      [] o = "create"       -> Open \o <<"namespace", "group close">> \o CloseNative
      [] o = "open_read"    -> Open \o OpenRoot \o <<"group close">> \o CloseNative
      [] o = "open_append"  -> Open \o OpenRoot \o <<"group close">> \o Inspect \o CloseNative
      [] o = "create_group" -> CreateGroup
      [] o = "write"        -> SessionWrite
      [] o = "read"         -> SessionRead
      [] o = "catalog"      -> Entry \o Inspect \o <<"return">>
      [] o = "close"        -> Entry \o <<"file close", "communicator free", "return">>]

Op(r) == call[r].op
Idle(r) == at[r] = 0
Place(r) == IF Idle(r) THEN "idle" ELSE Script[Op(r)][at[r]]

(* First index after i of the script of o with a place in P. *)
Following(o, i, P) ==
  CHOOSE j \in (i + 1)..Len(Script[o]) :
    Script[o][j] \in P /\ \A k \in (i + 1)..(j - 1) : Script[o][k] \notin P

Handle(r) == sessions[r][call[r].session]
SpaceOf(r) == IF Op(r) \in PathOp THEN <<"named">> ELSE <<"tree">>

----------------------------------------------------------------------------
(* Agreements.                                                             *)

(* Mutant: sessions are not told apart. *)
AboutAnonymous(r, p) ==
  CASE p = "header" -> Op(r)
    [] p = "state"  -> <<Handle(r).readonly, Handle(r).closed, Handle(r).poisoned>>
    [] p = "name"   -> call[r].name
    [] OTHER        -> "same"

(* What is compared at a place beside success. *)
About(r, p) ==
  CASE p = "header" -> Op(r)
    [] p = "state"  -> <<Handle(r).id, Handle(r).readonly, Handle(r).closed, Handle(r).poisoned>>
    [] p = "name"   -> call[r].name
    [] OTHER        -> "same"

Agreed(ws) == (\A w \in ws : w.ok) /\ (\A v, w \in ws : v.about = w.about)

(* Objects that HDF5 creates and opens on all ranks together. *)
CollectivePlace ==
  {"open", "namespace", "root open", "parent open", "child open", "child create", "dataset",
   "dataset open", "attribute create"}

ReleasePlace ==
  {"fapl close", "attribute close", "marker close", "locals close", "dataset close",
   "child close", "ancestor close", "group close", "file close", "communicator free"}

MarkerPlace == {"marker handles", "marker", "marker close", "marker flush"}

Mixed(ws) == \E v, w \in ws : v.ok /\ ~ w.ok

(* A handle that only some ranks got, or that a rank could not close.      *)
MustAbort(r) ==
  \/ Place(r) \in CollectivePlace \union {"duplicate"} /\ Mixed(Words(r))
  \/ Place(r) \in ReleasePlace /\ ~ Agreed(Words(r))

(* What a session forbids once its state and the arguments are agreed. *)
Barred(r) ==
  \/ Place(r) = "state" /\ Op(r) # "close" /\ (Handle(r).closed \/ Handle(r).poisoned)
  \/ <<Op(r), Place(r)>> \in {<<"create_group", "name">>, <<"write", "checks">>} /\ Handle(r).readonly

(* The error with which r leaves its place, or "none". *)
Error(r) ==
  CASE ~ Agreed(Words(r)) ->
         IF Place(r) \in {"header", "name"} THEN "CollectiveDescriptorMismatch"
         ELSE IF Place(r) = "members" THEN "Incompatible"
         ELSE IF Place(r) = "absent" /\ ~ Mixed(Words(r)) THEN "DuplicateName"
         ELSE IF Place(r) \in MarkerPlace THEN "CommitUncertain" ELSE "Failed"
    [] Op(r) \in SessionOp /\ Barred(r) -> "Invalid"
    [] OTHER -> "none"

(* The file of a catalog is open. *)
InCatalog(r) ==
  /\ Op(r) = "read_hdf5_catalog" /\ "file" \in held[r]
  /\ Place(r) # "catalog validation"

Inspecting(r) == Op(r) \in {"catalog", "open_append"}

(* Mutant: a group below the root is not closed on the way back. *)
WalkBackOpen(r) == {"group close"}

(* Up from a dataset or from the links of a group. *)
WalkBack(r) == IF "child" \in held[r] THEN {"child close"} ELSE {"group close"}

(* A parent that has no such member is all there is to close. *)
ParentOnly == {"absent", "kind", "parent kind", "parent open"}

(* Where an error leads: the handles of the call are closed first. *)
ExitPlaces(r) ==
  CASE Place(r) \in {"fapl", "fapl setup"} -> {"fapl close"}
    [] Place(r) \in {"attribute handles", "attribute create", "attribute", "validation"} ->
         {"attribute close"}
    [] Place(r) \in {"marker handles", "marker"} -> {"marker close"}
    [] InCatalog(r) -> {"catalog validation"}
    [] Inspecting(r) /\ "dataset" \in held[r] -> {"locals close"}
    [] Inspecting(r) /\ "group" \in held[r] -> WalkBack(r)
    [] "group" \in held[r] -> IF Place(r) \in ParentOnly THEN {"group close"}
                              ELSE {"locals close", "group close"}
    [] "file" \in held[r] -> IF Op(r) \in OpenOp THEN {"file close"}
                             ELSE {"locals close", "file close"}
    [] "communicator" \in held[r] -> {"communicator free"}
    [] OTHER -> {"return"}

(* Where a closed handle leads when the call has failed. *)
AfterRelease(r) ==
  CASE Place(r) = "fapl close" -> {"communicator free"}
    [] Place(r) \in {"attribute close", "marker close"} ->
         IF Op(r) = "read_hdf5_catalog" THEN {"catalog validation"} ELSE {"locals close"}
    [] Place(r) = "dataset close" /\ Inspecting(r) -> WalkBack(r)
    [] Place(r) = "group close" /\ Op(r) \in SessionOp -> {"return"}
    [] Place(r) = "group close" -> {"file close"}
    [] Place(r) = "communicator free" -> {"return"}
    [] OTHER -> {Script[Op(r)][at[r] + 1]}

(* Where r goes when the file has nothing for the places that follow; the  *)
(* empty set if it has.                                                    *)
PassedOver(r) ==
  LET p == Place(r)
  IN  CASE p = "links" /\ "child" \in held[r] -> IF SomeDataset THEN {} ELSE {"child close"}
        [] p = "links" /\ ~ SomeGroup -> IF SomeDataset THEN {"dataset open"} ELSE {"group close"}
        [] p = "listed" -> WalkBack(r)
        [] p = "root open" /\ <<"parent">> \notin file /\ Op(r) \in SessionOp \ CatalogOp ->
             {"absent", "kind"}
        [] OTHER -> {}

(* The index r goes to from a complete agreement. *)
Target(r) ==
  IF outcome[r] # "none" THEN Following(Op(r), at[r], AfterRelease(r))
  ELSE IF Error(r) # "none" THEN Following(Op(r), at[r], ExitPlaces(r))
  ELSE IF Op(r) = "close" /\ Place(r) = "state" /\ Handle(r).closed
       THEN Following(Op(r), at[r], {"return"})
  ELSE IF PassedOver(r) # {} THEN Following(Op(r), at[r], PassedOver(r))
  ELSE at[r] + 1

TargetPlace(r) == Script[Op(r)][Target(r)]

Leaves(r) ==
  /\ system = "running" /\ ~ Idle(r)
  /\ Complete(r) /\ ~ MustAbort(r)

----------------------------------------------------------------------------
(* Steps.                                                                  *)

(* Some other rank is at r's next place already, and succeeded or failed.  *)
Peer(r, ok) ==
  \E q \in Rank : Ahead(q, r) = 1 /\ log[q][1].word.ok = ok

Creates(r) == Op(r) \in CreatingOp

(* What the file allows r to do at its place p. *)
Allowed(r, p) ==
  LET n == call[r].name
  IN  CASE p = "open"         -> "file" \in held[r]
        [] p = "root open"    -> SpaceOf(r) \in file
        [] p = "root kind"    -> SpaceOf(r) \in file
        [] p = "absent"       -> ~ Exists(n)
        [] p \in {"dataset", "child create"} -> ~ Exists(n) \/ Peer(r, TRUE)
        [] p \in {"presence", "kind"}        -> Dataset(n)
        [] p = "validation"   ->
             \A m \in IF Op(r) \in CatalogOp \/ Inspecting(r) THEN Name ELSE {n} :
               Dataset(m) => Marked(m)
        [] p = "recognized"   -> SpaceOf(r) \in file
        [] p = "count"        -> \E m \in Name : Dataset(m)
        [] p = "catalog validation" -> outcome[r] = "none" /\ Error(r) = "none"
        [] OTHER -> TRUE

Good(r, p) == [ok |-> TRUE, about |-> About(r, p)]

(* The words r may contribute at p. *)
WordsAt(r, p) ==
  {[ok |-> ok, about |-> a] :
     ok \in IF p = "cleanup" THEN {TRUE} ELSE IF ~ Allowed(r, p) THEN {FALSE}
            ELSE IF p \in {"header", "open", "absent", "presence", "catalog validation"}
                 THEN {TRUE} ELSE BOOLEAN,
     a \in {About(r, p)}}

(* A collective call that fails on all ranks is one failure. *)
Fault(r, p, w) ==
  LET bad == ~ w.ok /\ Allowed(r, p) /\ ~ (p \in CollectivePlace /\ Peer(r, FALSE))
  IN  /\ bad => faults < MaxFaults
      /\ faults' = IF bad THEN faults + 1 ELSE faults
      /\ UNCHANGED <<job, calls>>

(* Mutant: a session is poisoned once its dataset has been created. *)
PoisonLate(r, p) ==
  IF p \in {"attribute handles", "child close"} /\ Op(r) \in {"write", "create_group"}
  THEN [sessions EXCEPT ![r][call[r].session].poisoned = TRUE] ELSE sessions

(* A session is poisoned before the first mutation is attempted. *)
Poison(r, p) ==
  IF p \in {"dataset", "child create"} /\ Op(r) \in {"write", "create_group"}
  THEN [sessions EXCEPT ![r][call[r].session].poisoned = TRUE] ELSE sessions

(* Rank r leaves its agreement for p and contributes w there. *)
Vote(r, p, w) ==
  /\ TargetPlace(r) = p
  /\ Enter(r, p, w) /\ Fault(r, p, w)
  /\ at' = [at EXCEPT ![r] = Target(r)]
  /\ outcome' = [outcome EXCEPT ![r] = IF @ = "none" THEN Error(r) ELSE @]
  /\ sessions' = Poison(r, p)
  /\ UNCHANGED <<call, result, destination, before, system, told>>

NoCall == [op |-> "none", name |-> NoName, session |-> 0]

(* The calls r may make next. *)
Calls(r) ==
  {c \in [op : Operation, name : Name \union {NoName}, session : 0..Len(sessions[r])] :
     /\ c.op \in SessionOp <=> c.session # 0
     /\ c.op \in OpenOp => Len(sessions[r]) < MaxSessions
     /\ c.op \in WritingOp \union ReadingOp \union {"create_group"} <=> c.name # NoName}

(* Callers mean to make the same calls; one that differs is a fault. *)
Differs(r, c) == \E q \in Rank : calls[q] > calls[r] /\ call[q] # c

Begin(r) ==
  /\ system = "running" /\ Idle(r) /\ calls[r] < MaxCalls
  /\ \E c \in Calls(r) :
       /\ Differs(r, c) => faults < MaxFaults
       /\ faults' = IF Differs(r, c) THEN faults + 1 ELSE faults
       /\ call' = [call EXCEPT ![r] = c]
       /\ Enter(r, "header", [ok |-> TRUE, about |-> c.op])
  /\ at' = [at EXCEPT ![r] = 1]
  /\ result' = [result EXCEPT ![r] = "none"]
  /\ destination' = [destination EXCEPT ![r] = "none"]
  /\ before' = [before EXCEPT ![r] = file]
  /\ calls' = [calls EXCEPT ![r] = @ + 1]
  /\ UNCHANGED <<outcome, held, sessions, staging, file, stable, nextId, system, job, told>>

(* Places with no effect beside the agreement. *)
Plain == {"header", "state", "name", "checks", "controls", "preparation", "members", "recognized", "count",
  "catalog validation", "fapl setup", "link query",
  "root kind", "absent", "presence", "kind", "parent kind", "links", "listed", "validation", "selection",
  "physical staging", "cleanup", "open"}

Check(r) ==
  /\ Leaves(r)
  /\ \E p \in Plain \intersect {TargetPlace(r)} : \E w \in WordsAt(r, p) : Vote(r, p, w)
  /\ UNCHANGED <<held, staging, file, stable, nextId>>

(* The root draws the identity of the session and broadcasts it; without   *)
(* one all ranks return.                                                   *)
Identify(r) ==
  /\ Leaves(r) /\ TargetPlace(r) = "identity"
  /\ LET ok == r # Root \/ nextId < MaxSessions
     IN  /\ Enter(r, "identity", [ok |-> ok, about |-> "same"])
         /\ nextId' = IF ok /\ r = Root THEN nextId + 1 ELSE nextId
  /\ at' = [at EXCEPT ![r] = Target(r)]
  /\ outcome' = [outcome EXCEPT ![r] = Error(r)]
  /\ UNCHANGED <<call, result, held, memory, file, stable, system, bounds, told>>

(* Handles that r obtains at p.  Several places obtain two or more, of     *)
(* which a rank that fails may have some.  On the way to a parent the      *)
(* handle of the group below takes the name of the one that is closed.     *)
Kind(p) ==
  CASE p = "duplicate" -> "communicator"
    [] p = "fapl" -> "fapl"
    [] p \in {"namespace", "root open"} -> "group"
    [] p = "parent open" -> "parent"
    [] p \in {"child create", "child open"} -> "child"
    [] p \in {"dataset", "dataset open"} -> "dataset"
    [] p \in {"attribute handles", "attribute create", "marker handles"} -> "attribute"
    [] p \in {"datatype", "dataspace", "chunks", "spaces", "transfer list"} -> "local"
    [] OTHER -> "none"

Several == {"attribute handles", "marker handles", "spaces"}

Obtained(r, p, w) ==
  IF w.ok THEN {held[r] \union {Kind(p)}}
  ELSE IF p \in Several THEN {held[r], held[r] \union {Kind(p)}} ELSE {held[r]}

Obtain(r) ==
  /\ Leaves(r) /\ Kind(TargetPlace(r)) # "none"
  /\ LET p == TargetPlace(r)
     IN  /\ p \notin {"namespace", "child create", "dataset"}
         /\ \E w \in WordsAt(r, p) :
              /\ Vote(r, p, w)
              /\ \E hs \in Obtained(r, p, w) : held' = [held EXCEPT ![r] = hs]
  /\ UNCHANGED <<staging, file, stable, nextId>>

(* A namespace, a group or a dataset appears in the file.  A creation that *)
(* fails may have left something there.                                    *)
Created(r, p) ==
  CASE p = "namespace"    -> SpaceOf(r)
    [] p = "child create" -> <<call[r].name, "group">>
    [] p = "dataset"      -> <<call[r].name, "dataset">>

CreateObject(r) ==
  /\ Leaves(r) /\ TargetPlace(r) \in {"namespace", "child create", "dataset"}
  /\ LET p == TargetPlace(r)
     IN  \E w \in WordsAt(r, p) :
           /\ Vote(r, p, w)
           /\ \E hs \in Obtained(r, p, w) : held' = [held EXCEPT ![r] = hs]
           /\ \E S \in IF w.ok THEN {{Created(r, p)}}
                       ELSE IF Allowed(r, p) THEN {{}, {Created(r, p)}} ELSE {{}} :
                file' = file \union S
  /\ UNCHANGED <<staging, stable, nextId>>

(* The file is opened, or created if it must be new, before the access     *)
(* list is closed; what became of it is agreed afterwards.                 *)
MayOpen(r) ==
  IF Creates(r) THEN <<"file">> \notin file \/ \E q \in Rank \ {r} : "file" \in held[q]
  ELSE <<"file">> \in file

OpenFile(r) ==
  /\ Leaves(r) /\ TargetPlace(r) = "fapl close"
  /\ \E w \in WordsAt(r, "fapl close"), opened \in BOOLEAN :
       LET tries == outcome[r] = "none" /\ Error(r) = "none"
       IN  /\ opened => tries /\ MayOpen(r)
           /\ tries /\ MayOpen(r) /\ ~ opened => w.ok /\ faults < MaxFaults
           /\ Enter(r, "fapl close", w)
           /\ at' = [at EXCEPT ![r] = Target(r)]
           /\ outcome' = [outcome EXCEPT ![r] = IF @ = "none" THEN Error(r) ELSE @]
           /\ faults' = IF ~ w.ok \/ (tries /\ MayOpen(r) /\ ~ opened) THEN faults + 1 ELSE faults
           /\ ~ w.ok => faults < MaxFaults
           /\ held' = [held EXCEPT ![r] = (IF w.ok THEN @ \ {"fapl"} ELSE @)
                                          \union (IF opened THEN {"file"} ELSE {})]
           /\ file' \in IF ~ (tries /\ Creates(r)) THEN {file}
                        ELSE IF opened THEN {file \union {<<"file">>}}
                        ELSE IF MayOpen(r) THEN {file, file \union {<<"file">>}} ELSE {file}
  /\ UNCHANGED <<call, result, memory, stable, nextId, system, job, calls, told>>

(* A transfer that fails may have been done or not. *)
WritePayload(r) ==
  /\ Leaves(r) /\ TargetPlace(r) = "payload"
  /\ \E w \in WordsAt(r, "payload") :
       /\ Vote(r, "payload", w)
       /\ file' \in IF w.ok THEN {file \union {<<call[r].name, r>>}}
                    ELSE {file, file \union {<<call[r].name, r>>}}
  /\ UNCHANGED <<held, staging, stable, nextId>>

(* The commit attribute exists from the start and says "incomplete".       *)
WriteMarker(r) ==
  /\ Leaves(r) /\ TargetPlace(r) \in {"marker", "attribute"}
  /\ LET p == TargetPlace(r)
         S == IF p = "marker" THEN {<<call[r].name, "marker">>} ELSE {}
     IN  \E w \in WordsAt(r, p) :
           /\ Vote(r, p, w)
           /\ file' \in IF w.ok THEN {file \union S} ELSE {file, file \union S}
  /\ UNCHANGED <<held, staging, stable, nextId>>

(* What a flush of r puts into stable storage: its blocks and, when it is  *)
(* the rank that writes the metadata, all of that.                         *)
WrittenBy(r) ==
  {i \in file : IF Len(i) = 2 /\ i[Len(i)] \in Rank THEN i[2] = r ELSE r = Root}

Flush(r) ==
  /\ Leaves(r) /\ TargetPlace(r) \in {"metadata flush", "payload flush", "marker flush"}
  /\ LET p == TargetPlace(r)
     IN  \E w \in WordsAt(r, p) :
           /\ Vote(r, p, w)
           /\ stable' = IF w.ok THEN stable \union WrittenBy(r) ELSE stable
  /\ UNCHANGED <<held, staging, file, nextId>>

ReadPayload(r) ==
  /\ Leaves(r) /\ TargetPlace(r) = "payload read"
  /\ \E w \in WordsAt(r, "payload read") : Vote(r, "payload read", w)
  /\ staging' = [staging EXCEPT ![r] =
       IF <<call[r].name, r>> \in file THEN "written" ELSE "hole"]
  /\ UNCHANGED <<held, file, stable, nextId>>

Closes(p) ==
  CASE p \in {"attribute close", "marker close"} -> "attribute"
    [] p = "locals close"      -> "local"
    [] p = "dataset close"     -> "dataset"
    [] p = "child close"       -> "child"
    [] p = "ancestor close"    -> "parent"
    [] p = "group close"       -> "group"
    [] p = "file close"        -> "file"
    [] p = "communicator free" -> "communicator"

(* Closing the file flushes it.  A session keeps its file and communicator *)
(* in the session, other calls among their handles.                        *)
Release(r) ==
  /\ Leaves(r) /\ TargetPlace(r) \in ReleasePlace \ {"fapl close"}
  /\ LET p == TargetPlace(r)
     IN  \E w \in WordsAt(r, p) :
           /\ ~ w.ok => Closes(p) \in held[r] \union (IF Op(r) = "close" THEN {"file", "communicator"} ELSE {})
           /\ Vote(r, p, w)
           /\ held' = [held EXCEPT ![r] = IF w.ok THEN @ \ {Closes(p)} ELSE @]
           /\ stable' = IF p = "file close" /\ w.ok THEN stable \union WrittenBy(r) ELSE stable
  /\ UNCHANGED <<staging, file, nextId>>

(* What the call leaves of the sessions of r. *)
SessionsAfter(r, o) ==
  LET i == call[r].session
  IN  CASE o # "ok" -> sessions[r]
        [] Op(r) \in OpenOp ->
             Append(sessions[r], [id |-> nextId, readonly |-> Op(r) = "open_read",
                                  closed |-> FALSE, poisoned |-> FALSE])
        [] Op(r) \in {"write", "create_group"} -> [sessions[r] EXCEPT ![i].poisoned = FALSE]
        [] Op(r) = "close" -> [sessions[r] EXCEPT ![i].closed = TRUE]
        [] OTHER -> sessions[r]

(* Only a read that has succeeded on all ranks publishes what it staged.   *)
Return(r) ==
  /\ Leaves(r) /\ TargetPlace(r) = "return"
  /\ LET o == IF outcome[r] # "none" THEN outcome[r]
              ELSE IF Error(r) # "none" THEN Error(r) ELSE "ok"
     IN  /\ result' = [result EXCEPT ![r] = o]
         /\ sessions' = [sessions EXCEPT ![r] = SessionsAfter(r, o)]
         /\ destination' = IF o = "ok" /\ Op(r) \in ReadingOp
                           THEN [destination EXCEPT ![r] = staging[r]] ELSE destination
         /\ told' = IF o = "ok" /\ Op(r) \in WritingOp THEN told \union {call[r].name} ELSE told
         /\ held' = [held EXCEPT ![r] =
              IF o = "ok" /\ Op(r) \in OpenOp THEN @ \ {"file", "communicator"} ELSE @]
  /\ staging' = [staging EXCEPT ![r] = "none"]
  /\ before' = [before EXCEPT ![r] = {}]
  /\ outcome' = [outcome EXCEPT ![r] = "none"]
  /\ at' = [at EXCEPT ![r] = 0]
  /\ UNCHANGED <<log, call, file, stable, nextId, system, bounds>>

Abort(r) ==
  /\ system = "running" /\ ~ Idle(r) /\ Complete(r) /\ MustAbort(r)
  /\ system' = "aborted"
  /\ UNCHANGED <<log, at, call, outcome, result, held, memory, file, stable, nextId, bounds, told>>

(* An open session that goes out of scope stops the program. *)
Drop(r) ==
  /\ system = "running" /\ Idle(r)
  /\ \E i \in DOMAIN sessions[r] : ~ sessions[r][i].closed
  /\ faults < MaxFaults /\ faults' = faults + 1
  /\ system' = "aborted"
  /\ UNCHANGED <<log, at, call, outcome, result, held, memory, file, stable, nextId, job, calls, told>>

(* The system goes down, or the program was stopped or has ended; a new    *)
(* job finds what is left.                                                 *)
Crash ==
  /\ job < MaxJobs /\ job' = job + 1
  /\ \E S \in SUBSET (file \ stable) :
       /\ Consistent(stable \union S)
       /\ file' = stable \union S /\ stable' = stable \union S
  /\ log' = [r \in Rank |-> <<>>]
  /\ at' = [r \in Rank |-> 0]
  /\ call' = [r \in Rank |-> NoCall]
  /\ outcome' = [r \in Rank |-> "none"]
  /\ result' = [r \in Rank |-> "none"]
  /\ held' = [r \in Rank |-> {}]
  /\ sessions' = [r \in Rank |-> <<>>]
  /\ staging' = [r \in Rank |-> "none"]
  /\ destination' = [r \in Rank |-> "none"]
  /\ before' = [r \in Rank |-> {}]
  /\ \E q \in Rank :
       /\ \A r \in Rank : calls[r] <= calls[q]
       /\ calls' = [r \in Rank |-> calls[q]]
  /\ nextId' = 0
  /\ system' = "running"
  /\ UNCHANGED <<faults, told>>

(* Files that earlier calls have left: no file, or one with a namespace, in *)
(* a tree perhaps with a group in it, and perhaps one committed dataset.    *)
(* One session is open on a tree.                                           *)
EarlierFile(spaces, ns) == {<<"file">>} \union spaces \union (ns \X ({"dataset", "marker"} \union Rank))

Session1 == [id |-> 1, readonly |-> FALSE, closed |-> FALSE, poisoned |-> FALSE]

Earlier ==
  {[file |-> {}, told |-> {}], [file |-> EarlierFile({<<"tree">>}, {}), told |-> {}]}
  \union {[file |-> EarlierFile(s, ns), told |-> ns] :
            s \in {{<<"named">>}, {<<"tree">>, <<"parent">>}}, ns \in {{}} \union {{n} : n \in Name}}

Init ==
  /\ NoReductions
  /\ at = [r \in Rank |-> 0]
  /\ call = [r \in Rank |-> NoCall]
  /\ outcome = [r \in Rank |-> "none"]
  /\ result = [r \in Rank |-> "none"]
  /\ held = [r \in Rank |-> {}]
  /\ staging = [r \in Rank |-> "none"]
  /\ destination = [r \in Rank |-> "none"]
  /\ before = [r \in Rank |-> {}]
  /\ \E e \in Earlier :
       /\ file = e.file /\ stable = e.file /\ told = e.told
       /\ LET opened == IF <<"tree">> \in e.file THEN <<Session1>> ELSE <<>>
          IN  /\ sessions = [r \in Rank |-> opened]
              /\ nextId = Len(opened)
  /\ system = "running"
  /\ job = 1 /\ calls = [r \in Rank |-> 0] /\ faults = 0

Step(r) ==
  \/ Check(r) \/ Identify(r) \/ Obtain(r) \/ CreateObject(r) \/ OpenFile(r) \/ WritePayload(r)
  \/ WriteMarker(r) \/ Flush(r) \/ ReadPayload(r) \/ Release(r) \/ Return(r) \/ Abort(r)

Done ==
  /\ system = "aborted" \/ \A r \in Rank : Idle(r) /\ calls[r] = MaxCalls
  /\ UNCHANGED vars

Next == (\E r \in Rank : Begin(r) \/ Step(r) \/ Drop(r)) \/ Crash \/ Done

Spec == Init /\ [][Next]_vars

----------------------------------------------------------------------------
(* Properties.                                                             *)

(* A read that publishes publishes what a committed write has written,     *)
(* also from a file that a crash or an abort has left behind, and no       *)
(* catalog lists a dataset of which a block is missing.                    *)
ReadsAreWhole ==
  \A r \in Rank :
    /\ destination[r] # "hole"
    /\ Op(r) \in CatalogOp /\ result[r] = "ok" => \A n \in Name : Dataset(n) => Whole(n, file)

(* A write that returned Ok is whole in stable storage ever after, also    *)
(* when it was made in a session that has not closed its file.             *)
OkIsStored == \A n \in told : Whole(n, stable)

(* The marker is the whole truth about a dataset.                          *)
MarkerTellsTheTruth == ReadsAreWhole /\ OkIsStored

(* Native handles end before what they live in: objects before the file,   *)
(* the file before its communicator, everything before the call returns,   *)
(* on every rank, whoever failed.                                          *)
HandlesReleased ==
  system = "running" =>
    \A p, q \in Rank :
      /\ Place(p) = "file close" => held[q] \subseteq {"file", "communicator"}
      /\ Place(p) = "communicator free" => held[q] \subseteq {"communicator"}
      /\ Idle(p) /\ calls[p] = calls[q] => held[p] = {}

(* Ranks that have returned from the same call return Ok together and hold *)
(* the same sessions in the same state.                                    *)
RanksAgree ==
  \A p, q \in Rank :
    Idle(p) /\ Idle(q) /\ calls[p] = calls[q] =>
      /\ sessions[p] = sessions[q]
      /\ result[p] = "ok" <=> result[q] = "ok"

(* A call of a session that fails and leaves it usable has not changed the *)
(* file (session.rs: "Failures after native group or dataset creation is   *)
(* attempted leave it poisoned"); nor has an append of a name that exists. *)
UsableAfterFailure ==
  [][\A r \in Rank :
       /\ ~ Idle(r) /\ at'[r] = 0 /\ job' = job
       /\ result'[r] # "ok"
       /\ \/ Op(r) \in SessionOp /\ ~ sessions'[r][call[r].session].poisoned
          \/ result'[r] = "DuplicateName"
       => file = before[r]]_vars
=================================================================================
