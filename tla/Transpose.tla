------------------------------ MODULE Transpose ------------------------------
(***************************************************************************)
(* A distributed transpose of pencil-array, as every rank of the Cartesian *)
(* communicator executes it: the collective agreements that precede any    *)
(* payload, the exchange with the peers of the changed axis (nonblocking   *)
(* point-to-point messages or one MPI_Alltoallv), the local unpack and     *)
(* callback, and the agreement on the callback's status.                   *)
(*                                                                         *)
(* Array data is abstracted to blocks.  The block of a pair of ranks is    *)
(* the region that one of them owns in the source layout and the other in  *)
(* the destination layout; a rank holds one block per peer, so an array's  *)
(* storage is a function from peers to values.  A value records the call   *)
(* in which the caller wrote it and whether the callback has transformed   *)
(* it, which is enough to tell a delivered block from a stale one.         *)
(***************************************************************************)
EXTENDS Integers, Sequences, FiniteSets

CONSTANTS
  Rank,          \* processes of the Cartesian communicator
  SendsTo,       \* SendsTo[l][r]: peers r has a nonempty region for, source layout l
  ReceivesFrom,  \* ReceivesFrom[l][r]: peers r expects a nonempty region from
  Operation,     \* operations the callers use
  Fault,         \* local failures that may happen
  MaxCalls       \* bound: collective calls each rank makes

Layout == {"input", "output"}

Other(l) == IF l = "input" THEN "output" ELSE "input"

(* The operations, by the properties the code distinguishes. *)
InPlace      == {"in_place", "in_place_callback", "alltoallv_in_place"}
WithCallback == {"views_callback", "in_place_callback"}
AllToAllv    == {"alltoallv_views", "alltoallv_in_place"}
SkipsSelf    == {"views", "views_callback"}
KnownOperation == InPlace \union WithCallback \union AllToAllv \union SkipsSelf \union {"new"}

KnownFault == {"descriptor", "preflight", "reserve", "error", "panic", "writer"}

ASSUME RankAssumption ==
  /\ Rank # {}
  /\ MaxCalls \in Nat
  /\ Operation \subseteq KnownOperation
  /\ Fault \subseteq KnownFault

(* Both ends of a pair find the same regions nonempty (module Geometry     *)
(* derives this from the range rule the two ends compute with).            *)
ASSUME RegionAssumption ==
  /\ SendsTo \in [Layout -> [Rank -> SUBSET Rank]]
  /\ ReceivesFrom \in [Layout -> [Rank -> SUBSET Rank]]
  /\ \A l \in Layout, p, q \in Rank :
       /\ q \in SendsTo[l][p] <=> p \in ReceivesFrom[l][q]
       /\ q \in SendsTo[l][p] <=> q \in ReceivesFrom[Other(l)][p]

VARIABLES
  pc,               \* where each rank is
  call,             \* number of the rank's current or last collective call
  op,               \* its operation
  plan,             \* its plan, named by the layout the plan reads
  log,              \* reductions entered on the Cartesian communicator, in order
  state,            \* ManyPencilArray state: the valid layout or "Poisoned"
  storage,          \* ManyPencilArray storage, a value per peer block
  destination,      \* destination view of the out-of-place operations
  sendBuffer, receiveBuffer,      \* workspace, a segment per peer
  sendRequests, receiveRequests,  \* incomplete requests, by peer
  wire,             \* wire[p][q]: segments MPI has taken from p for q
  verdict,          \* how the callback of the current call ended
  result            \* how the last call returned

control == <<pc, call, op, plan, log, verdict, result>>
array   == <<state, storage, destination>>
network == <<sendBuffer, receiveBuffer, sendRequests, receiveRequests, wire>>
vars    == <<control, array, network>>

(* Reductions on the Cartesian communicator, by the call site's purpose. *)
Phase == {"header", "ready", "descriptor", "layout", "peers",
          "preflight", "reservation", "status"}

Working == {"pack", "postReceives", "postSends", "waitReceives", "callback",
            "waitSends", "alltoallv", "waitAllToAllv", "unpack"}

Vote == KnownOperation \union Layout \union KnownFault \union {"ok"}

(* What a rank contributes to a reduction; call and op only label the call *)
(* site, the reduction itself carries val.                                 *)
Entry == [call : 1..MaxCalls, phase : Phase, op : KnownOperation, val : Vote]

Result == {"none", "ok", "CollectiveDescriptorMismatch", "PreparationFailed",
           "PreflightError", "CollectivePreconditionFailed", "CallbackError",
           "PeerCallbackFailed", "PeerPanicked", "Panicked"}

Value   == [call : 0..MaxCalls, transformed : BOOLEAN]
Content == [Rank -> Value]

(* Callers that use no in-place operation own no ManyPencilArray. *)
UsesArrays == Operation \intersect InPlace # {}

Written(k, t) == [call |-> k, transformed |-> t]
Blank == [p \in Rank |-> Written(0, FALSE)]

TypeOK ==
  /\ pc \in [Rank -> {"idle"} \union Phase \union Working]
  /\ call \in [Rank -> 0..MaxCalls]
  /\ op \in [Rank -> KnownOperation]
  /\ plan \in [Rank -> Layout]
  /\ log \in [Rank -> Seq(Entry)]
  /\ state \in [Rank -> Layout \union {"Poisoned"}]
  /\ storage \in [Rank -> Content]
  /\ destination \in [Rank -> Content]
  /\ sendBuffer \in [Rank -> Content]
  /\ receiveBuffer \in [Rank -> Content]
  /\ sendRequests \in [Rank -> SUBSET Rank]
  /\ receiveRequests \in [Rank -> SUBSET Rank]
  /\ wire \in [Rank -> [Rank -> Seq(Value)]]
  /\ verdict \in [Rank -> {"ok", "error", "panic"}]
  /\ result \in [Rank -> Result]

(* Ranks may hold their arrays in different layouts: an in-place call then *)
(* has to be refused on all of them.                                       *)
Init ==
  /\ pc = [r \in Rank |-> "idle"]
  /\ call = [r \in Rank |-> 0]
  /\ op = [r \in Rank |-> "new"]
  /\ plan = [r \in Rank |-> "input"]
  /\ log = [r \in Rank |-> <<>>]
  /\ state \in [Rank -> IF UsesArrays THEN Layout ELSE {"input"}]
  /\ storage = [r \in Rank |-> Blank]
  /\ destination = [r \in Rank |-> Blank]
  /\ sendBuffer = [r \in Rank |-> Blank]
  /\ receiveBuffer = [r \in Rank |-> Blank]
  /\ sendRequests = [r \in Rank |-> {}]
  /\ receiveRequests = [r \in Rank |-> {}]
  /\ wire = [p \in Rank |-> [q \in Rank |-> <<>>]]
  /\ verdict = [r \in Rank |-> "ok"]
  /\ result = [r \in Rank |-> "none"]

----------------------------------------------------------------------------
(* Reductions on the Cartesian communicator.  MPI matches them by order:   *)
(* the n-th reduction a rank enters completes with the n-th of every other *)
(* rank, and no rank leaves it before every rank has entered it.           *)

Enter(r, k, phase, o, v) ==
  /\ pc' = [pc EXCEPT ![r] = phase]
  /\ log' = [log EXCEPT
       ![r] = Append(@, [call |-> k, phase |-> phase, op |-> o, val |-> v])]

Round(r) == Len(log[r])

Complete(r) == \A q \in Rank : Len(log[q]) >= Round(r)

(* Mutant: the agreement runs on the communicator of the changed axis. *)
VotesOnLine(r) == {log[q][Round(r)].val : q \in {r} \union SendsTo["input"][r]}

Votes(r) == {log[q][Round(r)].val : q \in Rank}

Own(r) == log[r][Round(r)].val

(* Enters the next reduction of the current call. *)
Continue(r, phase, v) ==
  /\ Enter(r, call[r], phase, op[r], v)
  /\ UNCHANGED result

Return(r, res) ==
  /\ pc' = [pc EXCEPT ![r] = "idle"]
  /\ result' = [result EXCEPT ![r] = res]
  /\ UNCHANGED log

GoTo(r, place) ==
  /\ pc' = [pc EXCEPT ![r] = place]
  /\ UNCHANGED <<log, result>>

(* A fault either happens or does not; without it the step succeeds. *)
Choices(f) == {"ok"} \union ({f} \intersect Fault)

----------------------------------------------------------------------------
(* The caller.                                                             *)

Fresh(k) == [p \in Rank |-> Written(k, FALSE)]

(* Enters a collective operation.  Callers fill the array they pass, when  *)
(* it has an active layout; out-of-place callers pass a view of fresh data.*)
Start(r, o, l) ==
  LET k == call[r] + 1 IN
  /\ pc[r] = "idle" /\ call[r] < MaxCalls
  /\ call' = [call EXCEPT ![r] = k]
  /\ op' = [op EXCEPT ![r] = o]
  /\ plan' = [plan EXCEPT ![r] = l]
  /\ Enter(r, k, "header", o, o)
  /\ storage' = IF o \in InPlace /\ state[r] # "Poisoned"
                 THEN [storage EXCEPT ![r] = Fresh(k)] ELSE storage
  /\ UNCHANGED <<verdict, result, state, destination, network>>

(* ManyPencilArray::overwrite_with: the array is poisoned until the writer *)
(* has covered the whole target layout.                                    *)
Overwrite(r, l) ==
  /\ UsesArrays
  /\ pc[r] = "idle" /\ call[r] < MaxCalls
  /\ state' = [state EXCEPT ![r] = l]
  /\ storage' = [storage EXCEPT ![r] = Fresh(call[r] + 1)]
  /\ UNCHANGED <<control, destination, network>>

OverwriteFails(r) ==
  /\ UsesArrays /\ "writer" \in Fault
  /\ pc[r] = "idle" /\ call[r] < MaxCalls
  /\ state' = [state EXCEPT ![r] = "Poisoned"]
  /\ UNCHANGED <<control, storage, destination, network>>

----------------------------------------------------------------------------
(* The agreements, each entered with the local outcome so far and left     *)
(* with the combined one.                                                  *)

(* Everything but the rank's control state stays as it is. *)
OnlyControl == UNCHANGED <<call, op, plan, verdict, array, network>>

(* The fixed header: operation word, ranks N and M, descriptor length. *)
AfterHeader(r) ==
  /\ pc[r] = "header" /\ Complete(r)
  /\ \/ /\ Votes(r) = {op[r]}
        /\ \E v \in Choices("descriptor") : Continue(r, "ready", v)
     \/ /\ Votes(r) # {op[r]}
        /\ Return(r, "CollectiveDescriptorMismatch")
  /\ OnlyControl

(* Descriptors are compared only when every rank could build its own. *)
AfterReady(r) ==
  /\ pc[r] = "ready" /\ Complete(r)
  /\ \/ /\ Votes(r) = {"ok"}
        /\ Continue(r, "descriptor", plan[r])
     \/ /\ Votes(r) # {"ok"}
        /\ Return(r, "PreparationFailed")
  /\ OnlyControl

(* Local preparation: an in-place operation needs the plan's source to be  *)
(* the active layout.                                                      *)
PreflightVotes(r) ==
  IF op[r] \in InPlace /\ state[r] # plan[r] THEN {"preflight"} ELSE Choices("preflight")

(* A rank whose preflight failed does not attempt the reservation. *)
ReservationVotes(r) ==
  (PreflightVotes(r) \ {"ok"}) \union
    (IF "ok" \in PreflightVotes(r) THEN Choices("reserve") ELSE {})

(* Mutant: a failed preflight returns at once, skipping the reduction. *)
AfterDescriptorEarly(r) ==
  /\ pc[r] = "descriptor" /\ Complete(r)
  /\ \/ /\ Votes(r) = {plan[r]}
        /\ \E v \in ReservationVotes(r) :
             IF v = "ok"
             THEN Continue(r, IF op[r] = "new" THEN "layout"
                              ELSE IF op[r] \in AllToAllv THEN "preflight"
                              ELSE "reservation", v)
             ELSE Return(r, "PreflightError")
     \/ /\ Votes(r) # {plan[r]}
        /\ Return(r, "CollectiveDescriptorMismatch")
  /\ OnlyControl

AfterDescriptor(r) ==
  /\ pc[r] = "descriptor" /\ Complete(r)
  /\ \/ /\ Votes(r) = {plan[r]} /\ op[r] = "new"
        /\ \E v \in PreflightVotes(r) : Continue(r, "layout", v)
     \/ /\ Votes(r) = {plan[r]} /\ op[r] \in AllToAllv
        /\ \E v \in PreflightVotes(r) : Continue(r, "preflight", v)
     \/ /\ Votes(r) = {plan[r]} /\ op[r] \notin AllToAllv \union {"new"}
        /\ \E v \in ReservationVotes(r) : Continue(r, "reservation", v)
     \/ /\ Votes(r) # {plan[r]}
        /\ Return(r, "CollectiveDescriptorMismatch")
  /\ OnlyControl

(* Who is told what when some rank could not prepare: a rank keeps its own *)
(* preflight error; only a plain exchange names its own failed reservation,*)
(* and only if every preflight succeeded.                                  *)
Refusal(r) ==
  CASE Own(r) = "preflight" -> "PreflightError"
    [] /\ Own(r) = "reserve" /\ "preflight" \notin Votes(r)
       /\ op[r] \notin WithCallback -> "PreparationFailed"
    [] OTHER -> "CollectivePreconditionFailed"

AfterLayout(r) ==
  /\ pc[r] = "layout" /\ Complete(r)
  /\ \/ /\ Votes(r) = {"ok"}
        /\ \E v \in Choices("preflight") : Continue(r, "peers", v)
     \/ Votes(r) # {"ok"} /\ Return(r, Refusal(r))
  /\ OnlyControl

AfterPeers(r) ==
  /\ pc[r] = "peers" /\ Complete(r)
  /\ Return(r, IF Votes(r) = {"ok"} THEN "ok" ELSE Refusal(r))
  /\ OnlyControl

(* Mutant: a rank goes on when its own preparation succeeded. *)
AfterAgreementOwn(r) ==
  /\ pc[r] \in {"preflight", "reservation"} /\ Complete(r)
  /\ \/ Own(r) = "ok" /\ GoTo(r, "pack")
     \/ Own(r) # "ok" /\ Return(r, Refusal(r))
  /\ OnlyControl

AfterAgreement(r) ==
  /\ pc[r] \in {"preflight", "reservation"} /\ Complete(r)
  /\ \/ Votes(r) = {"ok"} /\ GoTo(r, "pack")
     \/ Votes(r) # {"ok"} /\ Return(r, Refusal(r))
  /\ OnlyControl

----------------------------------------------------------------------------
(* The exchange along the changed topology axis.                           *)

(* Peers with a nonempty region; only the out-of-place point-to-point forms*)
(* copy the rank's own region locally instead of sending it to itself.     *)
ByMessage(r, peers) == IF op[r] \in SkipsSelf THEN peers \ {r} ELSE peers

(* Mutant: the receiving end does not skip the rank's own region. *)
IncomingWithSelf(r) == ReceivesFrom[plan[r]][r]

Outgoing(r) == ByMessage(r, SendsTo[plan[r]][r])
Incoming(r) == ByMessage(r, ReceivesFrom[plan[r]][r])

SourceBlock(r, p) ==
  IF op[r] \in InPlace THEN storage[r][p] ELSE Written(call[r], FALSE)

(* The in-place callback form starts its write here, once nothing can be   *)
(* refused any more; the plain in-place forms start it when they unpack.   *)
Pack(r) ==
  /\ pc[r] = "pack"
  /\ sendBuffer' = [sendBuffer EXCEPT ![r] =
       [p \in Rank |-> IF p \in Outgoing(r) THEN SourceBlock(r, p) ELSE @[p]]]
  /\ state' = IF op[r] = "in_place_callback"
              THEN [state EXCEPT ![r] = "Poisoned"] ELSE state
  /\ GoTo(r, IF op[r] \in AllToAllv THEN "alltoallv" ELSE "postReceives")
  /\ UNCHANGED <<call, op, plan, verdict, storage, destination,
                 receiveBuffer, sendRequests, receiveRequests, wire>>

PostReceives(r) ==
  /\ pc[r] = "postReceives"
  /\ receiveRequests' = [receiveRequests EXCEPT ![r] = Incoming(r)]
  /\ GoTo(r, "postSends")
  /\ UNCHANGED <<call, op, plan, verdict, array, sendBuffer, receiveBuffer,
                 sendRequests, wire>>

PostSends(r) ==
  /\ pc[r] = "postSends"
  /\ sendRequests' = [sendRequests EXCEPT ![r] = Outgoing(r)]
  /\ GoTo(r, "waitReceives")
  /\ UNCHANGED <<call, op, plan, verdict, array, sendBuffer, receiveBuffer,
                 receiveRequests, wire>>

EnterAllToAllv(r) ==
  /\ pc[r] = "alltoallv"
  /\ receiveRequests' = [receiveRequests EXCEPT ![r] = Incoming(r)]
  /\ sendRequests' = [sendRequests EXCEPT ![r] = Outgoing(r)]
  /\ GoTo(r, "waitAllToAllv")
  /\ UNCHANGED <<call, op, plan, verdict, array, sendBuffer, receiveBuffer, wire>>

LeaveAllToAllv(r) ==
  /\ pc[r] = "waitAllToAllv"
  /\ receiveRequests[r] = {} /\ sendRequests[r] = {}
  /\ GoTo(r, "unpack")
  /\ OnlyControl

(* MPI takes a posted segment: the send is then complete at its origin.  A *)
(* standard send may be buffered before the receive is posted, or wait.    *)
Inject(p, q) ==
  /\ q \in sendRequests[p]
  /\ wire' = [wire EXCEPT ![p][q] = Append(@, sendBuffer[p][q])]
  /\ sendRequests' = [sendRequests EXCEPT ![p] = @ \ {q}]
  /\ UNCHANGED <<control, array, sendBuffer, receiveBuffer, receiveRequests>>

(* The oldest message from a source matches the receive posted for it: all *)
(* messages of all plans along an axis carry the same tag.                 *)
Deliver(p, q) ==
  /\ p \in receiveRequests[q] /\ wire[p][q] # <<>>
  /\ receiveBuffer' = [receiveBuffer EXCEPT ![q][p] = Head(wire[p][q])]
  /\ wire' = [wire EXCEPT ![p][q] = Tail(@)]
  /\ receiveRequests' = [receiveRequests EXCEPT ![q] = @ \ {p}]
  /\ UNCHANGED <<control, array, sendBuffer, sendRequests>>

(* Mutant: goes on before every receive is complete. *)
WaitReceivesUnfinished(r) ==
  /\ pc[r] = "waitReceives"
  /\ GoTo(r, IF op[r] \in WithCallback THEN "callback" ELSE "waitSends")
  /\ OnlyControl

WaitReceives(r) ==
  /\ pc[r] = "waitReceives" /\ receiveRequests[r] = {}
  /\ GoTo(r, IF op[r] \in WithCallback THEN "callback" ELSE "waitSends")
  /\ OnlyControl

WaitSends(r) ==
  /\ pc[r] = "waitSends" /\ sendRequests[r] = {}
  /\ \/ op[r] \in WithCallback /\ Continue(r, "status", verdict[r])
     \/ op[r] \notin WithCallback /\ GoTo(r, "unpack")
  /\ OnlyControl

(* What unpacking makes of old contents.  t says whether a callback then   *)
(* transforms the data; one that fails leaves it partly transformed, which *)
(* is represented as untransformed.                                        *)
Unpacked(r, old, t) ==
  [p \in Rank |->
     IF p \in Incoming(r) THEN [receiveBuffer[r][p] EXCEPT !.transformed = t]
     ELSE IF p \in ReceivesFrom[plan[r]][r] THEN [SourceBlock(r, p) EXCEPT !.transformed = t]
     ELSE old[p]]

UnpackInto(r, t) ==
  IF op[r] \in InPlace
  THEN /\ storage' = [storage EXCEPT ![r] = Unpacked(r, @, t)]
       /\ UNCHANGED destination
  ELSE /\ destination' = [destination EXCEPT ![r] = Unpacked(r, @, t)]
       /\ UNCHANGED storage

(* Unpacks and, in place, commits the plan's destination layout. *)
Unpack(r) ==
  /\ pc[r] = "unpack"
  /\ UnpackInto(r, FALSE)
  /\ state' = IF op[r] \in InPlace
              THEN [state EXCEPT ![r] = Other(plan[r])] ELSE state
  /\ Return(r, "ok")
  /\ UNCHANGED <<call, op, plan, verdict, network>>

(* Mutant: a callback error returns at once, past the drain and the status. *)
RunCallbackEscape(r) ==
  /\ pc[r] = "callback"
  /\ \E v \in Choices("error") \union Choices("panic") :
       /\ verdict' = [verdict EXCEPT ![r] = v]
       /\ UnpackInto(r, v = "ok")
       /\ IF v = "error" THEN Return(r, "CallbackError") ELSE GoTo(r, "waitSends")
  /\ UNCHANGED <<call, op, plan, state, network>>

(* Unpacks and runs the caller's callback while sends may be outstanding. *)
RunCallback(r) ==
  /\ pc[r] = "callback"
  /\ \E v \in Choices("error") \union Choices("panic") :
       /\ verdict' = [verdict EXCEPT ![r] = v]
       /\ UnpackInto(r, v = "ok")
  /\ GoTo(r, "waitSends")
  /\ UNCHANGED <<call, op, plan, state, network>>

(* Mutant: a callback error hides a peer's panic. *)
CallbackOutcomeErrorFirst(r) ==
  CASE Own(r) = "panic" -> "Panicked"
    [] Own(r) = "error" -> "CallbackError"
    [] Own(r) = "ok" /\ "error" \in Votes(r) -> "PeerCallbackFailed"
    [] Own(r) = "ok" /\ Votes(r) = {"ok", "panic"} -> "PeerPanicked"
    [] OTHER -> "ok"

(* A rank's own panic resumes; a peer's panic hides callback errors.       *)
CallbackOutcome(r) ==
  CASE Own(r) = "panic" -> "Panicked"
    [] Votes(r) = {"ok"} -> "ok"
    [] Own(r) # "panic" /\ "panic" \in Votes(r) -> "PeerPanicked"
    [] Own(r) = "error" /\ "panic" \notin Votes(r) -> "CallbackError"
    [] OTHER -> "PeerCallbackFailed"

(* Mutant: the array is committed when the rank's own callback succeeded. *)
AfterStatusOwnCommit(r) ==
  /\ pc[r] = "status" /\ Complete(r)
  /\ state' = IF Own(r) = "ok" /\ op[r] = "in_place_callback"
              THEN [state EXCEPT ![r] = Other(plan[r])] ELSE state
  /\ Return(r, CallbackOutcome(r))
  /\ UNCHANGED <<call, op, plan, verdict, storage, destination, network>>

AfterStatus(r) ==
  /\ pc[r] = "status" /\ Complete(r)
  /\ state' = IF CallbackOutcome(r) = "ok" /\ op[r] = "in_place_callback"
              THEN [state EXCEPT ![r] = Other(plan[r])] ELSE state
  /\ Return(r, CallbackOutcome(r))
  /\ UNCHANGED <<call, op, plan, verdict, storage, destination, network>>

----------------------------------------------------------------------------
Call(r) == \E o \in Operation, l \in Layout : Start(r, o, l)

Step(r) ==
  \/ AfterHeader(r) \/ AfterReady(r) \/ AfterDescriptor(r)
  \/ AfterLayout(r) \/ AfterPeers(r) \/ AfterAgreement(r)
  \/ Pack(r) \/ PostReceives(r) \/ PostSends(r)
  \/ EnterAllToAllv(r) \/ LeaveAllToAllv(r)
  \/ WaitReceives(r) \/ WaitSends(r) \/ Unpack(r)
  \/ RunCallback(r) \/ AfterStatus(r)

(* Every rank has made its calls: the program may end. *)
Done ==
  /\ \A r \in Rank : pc[r] = "idle" /\ call[r] = MaxCalls
  /\ UNCHANGED vars

Next ==
  \/ \E r \in Rank : Call(r) \/ Step(r)
  \/ \E r \in Rank, l \in Layout : Overwrite(r, l)
  \/ \E r \in Rank : OverwriteFails(r)
  \/ \E p, q \in Rank : Inject(p, q) \/ Deliver(p, q)
  \/ Done

Spec == Init /\ [][Next]_vars

(* Every rank makes its next collective call and runs on through it, as    *)
(* the documentation requires of callers.  MPI makes progress on a send    *)
(* whose receive is posted; it need not buffer one that is not.            *)
MatchedInject(p, q) == p \in receiveRequests[q] /\ Inject(p, q)

Fairness ==
  /\ \A r \in Rank : WF_vars(Call(r)) /\ WF_vars(Step(r))
  /\ \A p, q \in Rank : WF_vars(MatchedInject(p, q)) /\ WF_vars(Deliver(p, q))

FairSpec == Spec /\ Fairness

----------------------------------------------------------------------------
(* Properties.                                                             *)

(* The last call a rank has returned from. *)
Ended(r) == IF pc[r] = "idle" THEN call[r] ELSE call[r] - 1

CallbackFailed == {"CallbackError", "PeerCallbackFailed", "PeerPanicked", "Panicked"}

Outcome(r) ==
  IF result[r] \in {"none", "ok"} THEN result[r]
  ELSE IF result[r] \in CallbackFailed THEN "callbackFailed" ELSE "refused"

(* The n-th reductions of any two ranks are made by the same call site of  *)
(* the same call (the first one may belong to different operations: that is*)
(* what it finds out).  No rank-local early return of agree_execute_       *)
(* descriptor, the preflight or the callback protocol skips a reduction.   *)
CollectivesMatch ==
  \A p, q \in Rank : \A n \in 1..Len(log[p]) : n <= Len(log[q]) =>
    /\ log[p][n].phase = log[q][n].phase
    /\ log[p][n].call = log[q][n].call
    /\ log[p][n].phase # "header" => log[p][n].op = log[q][n].op

(* Two ranks that have returned from the same call agree on whether it was *)
(* carried out, refused before any data moved, or failed in a callback.    *)
OutcomesAgree ==
  \A p, q \in Rank : Ended(p) = Ended(q) => Outcome(p) = Outcome(q)

(* When all ranks have returned, whoever is told of a peer's failure can   *)
(* find a rank that reports the failure itself, and a panic is never       *)
(* reported as a mere callback error.                                      *)
FailureAttributed ==
  (\A p, q \in Rank : Ended(p) = Ended(q)) =>
    LET results == {result[r] : r \in Rank} IN
    /\ "PeerPanicked" \in results => "Panicked" \in results
    /\ "PeerCallbackFailed" \in results =>
         "CallbackError" \in results /\ "Panicked" \notin results

(* A rank that is outside a call owns no request, and no message is on its *)
(* way to it that a later call could mistake for its own (all messages of  *)
(* an axis carry the tag POINT_TO_POINT_RESERVED_TAG).                     *)
QuiescentReturn ==
  \A r \in Rank : pc[r] = "idle" =>
    /\ sendRequests[r] = {} /\ receiveRequests[r] = {}
    /\ \A p \in Rank : wire[p][r] = <<>>

Returns(r) == pc[r] # "idle" /\ pc'[r] = "idle"

(* The last reduction rank r entered is complete and every rank voted ok.  *)
AllAgreed(r) ==
  /\ log[r] # <<>> /\ Complete(r)
  /\ log[r][Round(r)].phase \in {"preflight", "reservation", "status"}
  /\ Votes(r) = {"ok"}

(* Within a call, nothing of a rank's array, destination or workspace is   *)
(* touched before every rank has agreed that it can take part.             *)
WritesOnlyAfterAgreement ==
  [][\A r \in Rank : pc[r] # "idle" /\ ~ AllAgreed(r) =>
       UNCHANGED <<state[r], storage[r], destination[r], sendBuffer[r], receiveBuffer[r]>>]_vars


(* An in-place call leaves the array in the new layout on success, poisoned*)
(* after a callback failed anywhere, and otherwise as the caller passed it.*)
StateFollowsOutcome ==
  [][\A r \in Rank : Returns(r) /\ op[r] \in InPlace =>
       state'[r] = CASE Outcome(r)' = "ok" -> Other(plan[r])
                     [] Outcome(r)' = "callbackFailed" -> "Poisoned"
                     [] Outcome(r)' = "refused" -> state[r]]_vars

(* A call that returns Ok has delivered, from every peer, the block that   *)
(* peer's caller wrote for this very call, transformed by the callback iff *)
(* there is one.                                                           *)
DeliveredData ==
  [][\A r \in Rank : Returns(r) /\ result'[r] = "ok" /\ op[r] # "new" =>
       \A p \in ReceivesFrom[plan[r]][r] :
         (IF op[r] \in InPlace THEN storage'[r][p] ELSE destination'[r][p])
           = Written(call[r], op[r] \in WithCallback)]_vars

(* The documentation of OverlapError::CollectivePreconditionFailed: a      *)
(* callback form returns it when the callback's result could not be agreed,*)
(* so after the callback.                                                  *)
PreconditionErrorIsAboutCallback ==
  \A r \in Rank :
    pc[r] = "idle" /\ op[r] \in WithCallback /\ result[r] = "CollectivePreconditionFailed"
      => log[r][Round(r)].phase = "status"

(* Every call returns on every rank, whatever fails. *)
AllCallsReturn == \A r \in Rank : pc[r] # "idle" ~> pc[r] = "idle"

(* Seen from outside, a collective call happens as one step on all ranks.  *)
Atomic == INSTANCE AtomicCall WITH
  called   <- call,
  returned <- [r \in Rank |-> Ended(r)],
  outcome  <- [r \in Rank |-> Outcome(r)]

ImplementsAtomicCall == Atomic!Spec

=============================================================================
