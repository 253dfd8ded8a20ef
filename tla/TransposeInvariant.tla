-------------------------- MODULE TransposeInvariant --------------------------
(***************************************************************************)
(* Why the reductions of Transpose match: the n-th reduction of a rank and *)
(* its combined result determine the call site of the (n+1)-th, whatever   *)
(* happened locally.  AgreementInv says so, and is inductive.              *)
(***************************************************************************)
EXTENDS Transpose

Last(r) == log[r][Round(r)]

VotesAt(n) == {log[q][n].val : q \in Rank}

(* The call site after phase, when the reduction there let the call go on. *)
Successor(o, phase) ==
  CASE phase = "header" -> "ready"
    [] phase = "ready" -> "descriptor"
    [] phase = "descriptor" /\ o = "new" -> "layout"
    [] phase = "descriptor" /\ o \in AllToAllv -> "preflight"
    [] phase = "descriptor" /\ o \notin AllToAllv \union {"new"} -> "reservation"
    [] phase = "layout" -> "peers"
    [] OTHER -> "status"

(* Does the call have another reduction after entry e, combined to V? *)
Continues(e, V) ==
  CASE e.phase = "header" -> V = {e.op}
    [] e.phase = "descriptor" -> V = {e.val}
    [] e.phase \in {"ready", "layout"} -> V = {"ok"}
    [] e.phase \in {"preflight", "reservation"} -> V = {"ok"} /\ e.op \in WithCallback
    [] OTHER -> FALSE

Follows(e, V, f) ==
  \/ /\ Continues(e, V)
     /\ f.phase = Successor(e.op, e.phase) /\ f.call = e.call /\ f.op = e.op
  \/ /\ ~ Continues(e, V)
     /\ f.phase = "header" /\ f.call = e.call + 1

(* No rank is more than one reduction ahead of another. *)
Lag == \A p, q \in Rank : Len(log[p]) <= Len(log[q]) + 1

FirstEntry ==
  \A p \in Rank : log[p] # <<>> => log[p][1].phase = "header" /\ log[p][1].call = 1

HeaderWord ==
  \A p \in Rank : \A n \in 1..Len(log[p]) :
    log[p][n].phase = "header" => log[p][n].val = log[p][n].op

Chain ==
  \A p \in Rank : \A n \in 1..(Len(log[p]) - 1) :
    /\ \A q \in Rank : n <= Len(log[q])
    /\ Follows(log[p][n], VotesAt(n), log[p][n + 1])

(* A rank's place in the program and the reduction it entered last.        *)
PlaceInv(r) ==
  /\ log[r] = <<>> => pc[r] = "idle" /\ call[r] = 0
  /\ log[r] # <<>> =>
       /\ Last(r).call = call[r] /\ Last(r).op = op[r]
       /\ pc[r] \in Phase => Last(r).phase = pc[r]
       /\ pc[r] = "descriptor" => Last(r).val = plan[r]
       /\ pc[r] \notin Phase => Complete(r)
       /\ pc[r] = "idle" => ~ Continues(Last(r), VotesAt(Round(r)))
       /\ pc[r] \in Working =>
            /\ Last(r).phase \in {"preflight", "reservation"}
            /\ VotesAt(Round(r)) = {"ok"}
       /\ pc[r] \in {"alltoallv", "waitAllToAllv"} => op[r] \in AllToAllv
       /\ pc[r] = "unpack" => op[r] \notin WithCallback

(* Every two ranks make the same reductions, in the order of the protocol. *)
AgreementInv ==
  /\ Lag /\ FirstEntry /\ HeaderWord /\ Chain
  /\ CollectivesMatch
  /\ \A r \in Rank : PlaceInv(r)

----------------------------------------------------------------------------
(* Why all ranks learn the same outcome: a call ends at a reduction that   *)
(* does not let it go on, that reduction is the same for all ranks, and    *)
(* its phase and votes determine what a rank is told.                      *)

(* Calls are made one after another. *)
CallsInOrder ==
  \A p \in Rank : \A m, n \in 1..Len(log[p]) : m <= n => log[p][m].call <= log[p][n].call

StatusWord ==
  \A p \in Rank : \A n \in 1..Len(log[p]) :
    log[p][n].phase = "status" => log[p][n].val \in {"ok", "error", "panic"}

OutcomeAt(phase, V) ==
  IF phase \in {"peers", "preflight", "reservation", "status"} /\ V = {"ok"} THEN "ok"
  ELSE IF phase = "status" THEN "callbackFailed" ELSE "refused"

(* What a rank is told that reports v when the ranks together report V. *)
StatusResult(v, V) ==
  CASE v = "panic" -> "Panicked"
    [] V = {"ok"} -> "ok"
    [] v # "panic" /\ "panic" \in V -> "PeerPanicked"
    [] v = "error" /\ "panic" \notin V -> "CallbackError"
    [] OTHER -> "PeerCallbackFailed"

(* The last call that r has returned from ended with its n-th reduction. *)
EndsAt(r, n) ==
  /\ n \in 1..Len(log[r]) /\ \A q \in Rank : n <= Len(log[q])
  /\ log[r][n].call = Ended(r)
  /\ ~ Continues(log[r][n], VotesAt(n))

ResultInv(r) ==
  IF Ended(r) = 0 THEN result[r] = "none"
  ELSE \E n \in 1..Len(log[r]) :
         /\ EndsAt(r, n)
         /\ Outcome(r) = OutcomeAt(log[r][n].phase, VotesAt(n))
         /\ log[r][n].phase = "status" =>
              result[r] = StatusResult(log[r][n].val, VotesAt(n))

(* What r reports of a call that ended with the agreement on callbacks.  A *)
(* panic of its own is always reported as that, an error of its own unless *)
(* a peer panicked, and r fails just when some rank has.                   *)
OwnFailureReported(r) ==
  \A n \in 1..Len(log[r]) : EndsAt(r, n) /\ log[r][n].phase = "status" =>
    /\ log[r][n].val = "panic" => result[r] = "Panicked"
    /\ log[r][n].val = "error" =>
         result[r] = IF "panic" \in VotesAt(n) THEN "PeerPanicked" ELSE "CallbackError"
    /\ log[r][n].val = "ok" => result[r] \notin {"Panicked", "CallbackError"}
    /\ result[r] # "ok" <=> \E v \in VotesAt(n) : v # "ok"

OutcomeInv ==
  /\ CallsInOrder /\ StatusWord
  /\ \A r \in Rank : ResultInv(r)

----------------------------------------------------------------------------
(* Why every message finds the receive it was meant for: the reduction     *)
(* that opens an exchange opens it on all ranks, for the same operation    *)
(* and plan, at a time when nothing is on its way.                         *)

(* The places of a call that only some operations come to. *)
OperationPlace(r) ==
  /\ pc[r] \in {"layout", "peers"} => op[r] = "new"
  /\ pc[r] \in {"preflight", "alltoallv", "waitAllToAllv"} => op[r] \in AllToAllv
  /\ pc[r] \in {"reservation", "postReceives", "postSends", "waitReceives", "waitSends"} =>
       op[r] \notin AllToAllv \union {"new"}
  /\ pc[r] \in {"pack", "unpack"} => op[r] # "new"
  /\ pc[r] = "unpack" => op[r] \notin WithCallback
  /\ pc[r] \in {"callback", "status"} => op[r] \in WithCallback

(* The descriptor a rank has sent in its current call names its plan.      *)
PlanWord(r) ==
  \A n \in 1..Len(log[r]) :
    log[r][n].phase = "descriptor" /\ log[r][n].call = call[r] => log[r][n].val = plan[r]

(* All ranks have agreed to exchange and r is the next to find out. *)
Opening(r) ==
  /\ pc[r] \in {"preflight", "reservation"}
  /\ Complete(r) /\ Votes(r) = {"ok"}

(* Peers that r still has to send to, or to receive from, in its call. *)
ToSend(r) ==
  IF Opening(r) \/ pc[r] \in {"pack", "postReceives", "postSends", "alltoallv"}
  THEN Outgoing(r) ELSE sendRequests[r]

ToReceive(r) ==
  IF Opening(r) \/ pc[r] \in {"pack", "postReceives", "alltoallv"}
  THEN Incoming(r) ELSE receiveRequests[r]

(* Requests are only open inside the exchange. *)
RequestPlace(r) ==
  /\ sendRequests[r] \subseteq Outgoing(r)
  /\ receiveRequests[r] \subseteq Incoming(r)
  /\ sendRequests[r] # {} =>
       pc[r] \in {"waitReceives", "callback", "waitSends", "waitAllToAllv"}
  /\ receiveRequests[r] # {} => pc[r] \in {"postSends", "waitReceives", "waitAllToAllv"}

(* Every send not yet made has a receive not yet done, and the message     *)
(* between the two is the only one on its way.                             *)
WireInv(p, q) ==
  /\ q \in ToSend(p) => p \in ToReceive(q) /\ wire[p][q] = <<>> /\ call[q] = call[p]
  /\ wire[p][q] # <<>> => p \in ToReceive(q) /\ wire[p][q] = <<Written(call[q], FALSE)>>

(* The array of an in-place call holds what the caller wrote for it, and a *)
(* rank votes ok only if its array is in the layout the plan reads.        *)
ArrayInv(r) ==
  op[r] \in InPlace =>
    /\ pc[r] \in (Phase \ {"status"}) \union {"pack"} /\ state[r] # "Poisoned" =>
         storage[r] = Fresh(call[r])
    /\ pc[r] \in {"preflight", "reservation"} /\ Own(r) = "ok" => state[r] = plan[r]
    /\ pc[r] = "pack" => state[r] = plan[r]

(* Where the operation of r puts the blocks that it has received. *)
Target(r) == IF op[r] \in InPlace THEN storage[r] ELSE destination[r]

(* The rank has posted its receives and not yet unpacked them. *)
BeforeUnpack(r) ==
  \/ pc[r] \in {"postSends", "waitReceives", "waitAllToAllv", "unpack", "callback"}
  \/ pc[r] = "waitSends" /\ op[r] \notin WithCallback

(* What the segments and the target hold on the way through an exchange.   *)
DataInv(r) ==
  /\ pc[r] \in Working \ {"pack"} =>
       \A q \in Outgoing(r) : sendBuffer[r][q] = Written(call[r], FALSE)
  /\ BeforeUnpack(r) =>
       \A p \in Incoming(r) \ receiveRequests[r] : receiveBuffer[r][p] = Written(call[r], FALSE)
  /\ pc[r] \in {"waitSends", "status"} /\ op[r] \in WithCallback =>
       \A p \in ReceivesFrom[plan[r]][r] : Target(r)[p] = Written(call[r], verdict[r] = "ok")
  /\ pc[r] = "status" => Own(r) = verdict[r]

(* The callback form has poisoned the array when it gets to its callback.  *)
PoisonInv(r) ==
  op[r] = "in_place_callback" /\ pc[r] \in (Working \ {"pack"}) \union {"status"} =>
    state[r] = "Poisoned"

(* What holds of a rank by itself. *)
OwnInv(r) ==
  /\ PlanWord(r) /\ OperationPlace(r) /\ RequestPlace(r)
  /\ ArrayInv(r) /\ DataInv(r) /\ PoisonInv(r)

ExchangeInv ==
  /\ \A r \in Rank : OwnInv(r)
  /\ \A p, q \in Rank : WireInv(p, q)
===============================================================================
