---------------------------- MODULE TransposeProofs ----------------------------
(***************************************************************************)
(* Proofs about Transpose for any number of ranks, any exchange pattern    *)
(* and any number of calls, in three parts: control (types, matching       *)
(* reductions), what the callers of a transpose are told, and what an      *)
(* exchange moves.                                                         *)
(***************************************************************************)
EXTENDS TransposeInvariant, TLAPS

----------------------------------------------------------------------------
(* Control: type correctness, and that the reductions of the ranks always  *)
(* match.                                                                  *)

(* Every call in progress has a number. *)
CallInv == \A r \in Rank : pc[r] # "idle" => call[r] \in 1..MaxCalls

TypeInv == TypeOK /\ CallInv

Place == {"idle"} \union Phase \union Working

(* A control step of a rank that enters a reduction, returns or moves on.  *)
ControlStep(r) ==
  \/ \E phase \in Phase, v \in Vote : Continue(r, phase, v)
  \/ \E res \in Result : Return(r, res)
  \/ \E place \in Working : GoTo(r, place)

USE DEF Layout

LEMMA EnterType ==
  ASSUME TypeOK, NEW r \in Rank, NEW k \in 1..MaxCalls, NEW phase \in Phase,
         NEW o \in KnownOperation, NEW v \in Vote, Enter(r, k, phase, o, v)
  PROVE  /\ pc' \in [Rank -> Place]
         /\ log' \in [Rank -> Seq(Entry)]
         /\ \A q \in Rank : q # r => pc'[q] = pc[q]
<1>1. [call |-> k, phase |-> phase, op |-> o, val |-> v] \in Entry
  BY DEF Entry
<1>2. log[r] \in Seq(Entry)
  BY DEF TypeOK
<1>3. Append(log[r], [call |-> k, phase |-> phase, op |-> o, val |-> v]) \in Seq(Entry)
  BY <1>1, <1>2
<1>4. QED
  BY <1>3 DEF TypeOK, Enter, Place

LEMMA ControlType ==
  ASSUME TypeInv, NEW r \in Rank, pc[r] # "idle", ControlStep(r),
         UNCHANGED <<call, op, plan>>
  PROVE  /\ pc' \in [Rank -> Place]
         /\ log' \in [Rank -> Seq(Entry)]
         /\ result' \in [Rank -> Result]
         /\ CallInv'
<1>0. call[r] \in 1..MaxCalls /\ op[r] \in KnownOperation
  BY DEF TypeInv, TypeOK, CallInv
<1>1. CASE \E phase \in Phase, v \in Vote : Continue(r, phase, v)
  <2>1. PICK phase \in Phase, v \in Vote : Continue(r, phase, v)
    BY <1>1
  <2>2. /\ pc' \in [Rank -> Place]
        /\ log' \in [Rank -> Seq(Entry)]
        /\ \A q \in Rank : q # r => pc'[q] = pc[q]
    BY <1>0, <2>1, EnterType DEF Continue, TypeInv
  <2>3. QED
    BY <1>0, <2>1, <2>2 DEF Continue, TypeInv, TypeOK, CallInv
<1>2. CASE \E res \in Result : Return(r, res)
  BY <1>2 DEF Return, TypeInv, TypeOK, CallInv, Place
<1>3. CASE \E place \in Working : GoTo(r, place)
  BY <1>0, <1>3 DEF GoTo, TypeInv, TypeOK, CallInv, Place
<1>4. QED
  BY <1>1, <1>2, <1>3 DEF ControlStep

(* The reductions leave everything but control alone. *)
LEMMA OnlyControlType ==
  ASSUME TypeInv, NEW r \in Rank, pc[r] # "idle", ControlStep(r), OnlyControl
  PROVE  TypeInv'
<1>1. UNCHANGED <<call, op, plan>>
  BY DEF OnlyControl
<1>2. QED
  BY <1>1, ControlType DEF OnlyControl, TypeInv, TypeOK, Place, array, network

LEMMA VoteType ==
  ASSUME TypeOK, NEW r \in Rank
  PROVE  /\ \A f \in KnownFault : Choices(f) \subseteq Vote
         /\ plan[r] \in Vote
         /\ PreflightVotes(r) \subseteq Vote
         /\ ReservationVotes(r) \subseteq Vote
         /\ verdict[r] \in Vote
         /\ Refusal(r) \in Result
         /\ CallbackOutcome(r) \in Result
<1>1. \A f \in KnownFault : Choices(f) \subseteq Vote
  BY DEF Choices, Vote
<1>2. "preflight" \in KnownFault /\ "reserve" \in KnownFault
  BY DEF KnownFault
<1>3. PreflightVotes(r) \subseteq Vote
  BY <1>1, <1>2 DEF PreflightVotes, Vote
<1>4. ReservationVotes(r) \subseteq Vote
  BY <1>1, <1>2, <1>3 DEF ReservationVotes
<1>5. plan[r] \in Vote /\ verdict[r] \in Vote
  BY DEF TypeOK, Vote, KnownFault
<1>6. Refusal(r) \in Result
  BY DEF Refusal, Result
<1>7. CallbackOutcome(r) \in Result
  BY DEF CallbackOutcome, Result
<1>8. QED
  BY <1>1, <1>3, <1>4, <1>5, <1>6, <1>7

(* Leaving an agreement is a control step. *)
LEMMA AgreementStep ==
  ASSUME TypeOK, NEW r \in Rank,
         \/ AfterHeader(r) \/ AfterReady(r) \/ AfterDescriptor(r)
         \/ AfterLayout(r) \/ AfterPeers(r) \/ AfterAgreement(r)
  PROVE  pc[r] # "idle" /\ ControlStep(r) /\ OnlyControl
<1>1. CASE AfterHeader(r)
  BY <1>1, VoteType DEF AfterHeader, ControlStep, KnownFault, Phase, Result
<1>2. CASE AfterReady(r)
  BY <1>2, VoteType DEF AfterReady, ControlStep, Phase, Result
<1>3. CASE AfterDescriptor(r)
  <2>1. {"layout", "preflight", "reservation"} \subseteq Phase
        /\ "CollectiveDescriptorMismatch" \in Result
    BY DEF Phase, Result
  <2>2. QED
    BY <1>3, <2>1, VoteType DEF AfterDescriptor, ControlStep
<1>4. CASE AfterLayout(r)
  BY <1>4, VoteType DEF AfterLayout, ControlStep, KnownFault, Phase
<1>5. CASE AfterPeers(r)
  BY <1>5, VoteType DEF AfterPeers, ControlStep, Result
<1>6. CASE AfterAgreement(r)
  BY <1>6, VoteType DEF AfterAgreement, ControlStep, Working
<1>7. QED
  BY <1>1, <1>2, <1>3, <1>4, <1>5, <1>6

(* So are the steps of the exchange, which move data as well. *)
LEMMA ExchangeStep ==
  ASSUME TypeOK, NEW r \in Rank,
         \/ Pack(r) \/ PostReceives(r) \/ PostSends(r)
         \/ EnterAllToAllv(r) \/ LeaveAllToAllv(r)
         \/ WaitReceives(r) \/ WaitSends(r) \/ Unpack(r)
         \/ RunCallback(r) \/ AfterStatus(r)
  PROVE  pc[r] # "idle" /\ ControlStep(r) /\ UNCHANGED <<call, op, plan>>
<1>1. CASE Pack(r) \/ PostReceives(r) \/ PostSends(r) \/ EnterAllToAllv(r) \/ LeaveAllToAllv(r)
  BY <1>1 DEF Pack, PostReceives, PostSends, EnterAllToAllv, LeaveAllToAllv,
              OnlyControl, ControlStep, Working
<1>2. CASE WaitReceives(r) \/ RunCallback(r)
  BY <1>2 DEF WaitReceives, RunCallback, OnlyControl, ControlStep, Working
<1>3. CASE WaitSends(r)
  BY <1>3, VoteType DEF WaitSends, OnlyControl, ControlStep, Working, Phase
<1>4. CASE Unpack(r)
  BY <1>4 DEF Unpack, ControlStep, Result
<1>5. CASE AfterStatus(r)
  BY <1>5, VoteType DEF AfterStatus, ControlStep
<1>6. QED
  BY <1>1, <1>2, <1>3, <1>4, <1>5

(* The peers a rank exchanges with are ranks, and blocks hold values. *)
LEMMA DataType ==
  ASSUME TypeInv, NEW r \in Rank
  PROVE  /\ Outgoing(r) \subseteq Rank
         /\ Incoming(r) \subseteq Rank
         /\ pc[r] # "idle" => \A p \in Rank : SourceBlock(r, p) \in Value
         /\ pc[r] # "idle" =>
              \A old \in Content, t \in BOOLEAN : Unpacked(r, old, t) \in Content
<1>1. Outgoing(r) \subseteq Rank /\ Incoming(r) \subseteq Rank
  BY RegionAssumption DEF TypeInv, TypeOK, Outgoing, Incoming, ByMessage
<1>2. ASSUME pc[r] # "idle", NEW p \in Rank
      PROVE  SourceBlock(r, p) \in Value
  <2>1. call[r] \in 0..MaxCalls
    BY DEF TypeInv, TypeOK
  <2>2. QED
    BY <2>1 DEF TypeInv, TypeOK, SourceBlock, Written, Value, Content
<1>3. ASSUME pc[r] # "idle", NEW old \in Content, NEW t \in BOOLEAN
      PROVE  Unpacked(r, old, t) \in Content
  <2>1. ASSUME NEW v \in Value PROVE [v EXCEPT !.transformed = t] \in Value
    BY DEF Value
  <2>2. \A p \in Rank : receiveBuffer[r][p] \in Value /\ old[p] \in Value
    BY DEF TypeInv, TypeOK, Content
  <2>3. QED
    BY <1>2, <1>3, <2>1, <2>2 DEF Unpacked, Content
<1>4. QED
  BY <1>1, <1>2, <1>3

----------------------------------------------------------------------------
(* Type correctness.                                                       *)

LEMMA TypeInit == Init => TypeInv
<1> SUFFICES ASSUME Init PROVE TypeInv
  OBVIOUS
<1>1. Blank \in Content
  BY RankAssumption DEF Blank, Content, Written, Value
<1>2. QED
  BY <1>1, RankAssumption DEF Init, TypeInv, TypeOK, CallInv, KnownOperation, Result, Entry

LEMMA CallerType ==
  ASSUME TypeInv, NEW r \in Rank,
         \/ \E o \in Operation, l \in Layout : Start(r, o, l)
         \/ \E l \in Layout : Overwrite(r, l)
         \/ OverwriteFails(r)
  PROVE  TypeInv'
<1>0. \A k \in 0..MaxCalls : Fresh(k) \in Content
  BY DEF Fresh, Content, Written, Value
<1>1. ASSUME NEW o \in Operation, NEW l \in Layout, Start(r, o, l)
      PROVE  TypeInv'
  <2> DEFINE k == call[r] + 1
  <2>1. k \in 1..MaxCalls /\ o \in KnownOperation
    BY <1>1, RankAssumption DEF Start, TypeInv, TypeOK
  <2>2. "header" \in Phase /\ o \in Vote
    BY <2>1 DEF Phase, Vote
  <2>3. /\ pc' \in [Rank -> Place]
        /\ log' \in [Rank -> Seq(Entry)]
        /\ \A q \in Rank : q # r => pc'[q] = pc[q]
    BY <1>1, <2>1, <2>2, EnterType DEF Start, TypeInv
  <2>4. storage' \in [Rank -> Content]
    BY <1>0, <1>1, <2>1 DEF Start, TypeInv, TypeOK
  <2>5. CallInv'
    BY <1>1, <2>1, <2>3 DEF Start, TypeInv, TypeOK, CallInv
  <2>6. /\ call' \in [Rank -> 0..MaxCalls]
        /\ op' \in [Rank -> KnownOperation]
        /\ plan' \in [Rank -> Layout]
    BY <1>1, <2>1 DEF Start, TypeInv, TypeOK
  <2>7. UNCHANGED <<verdict, result, state, destination, sendBuffer, receiveBuffer,
                    sendRequests, receiveRequests, wire>>
    BY <1>1 DEF Start, network
  <2>8. QED
    BY <2>3, <2>4, <2>5, <2>6, <2>7 DEF TypeInv, TypeOK, Place
<1>2. ASSUME NEW l \in Layout, Overwrite(r, l)
      PROVE  TypeInv'
  <2>1. call[r] + 1 \in 0..MaxCalls
    BY <1>2, RankAssumption DEF Overwrite, TypeInv, TypeOK
  <2>2. QED
    BY <1>0, <1>2, <2>1 DEF Overwrite, TypeInv, TypeOK, CallInv, control, network
<1>3. CASE OverwriteFails(r)
  BY <1>3 DEF OverwriteFails, TypeInv, TypeOK, CallInv, control, network
<1>4. QED
  BY <1>1, <1>2, <1>3

LEMMA ExchangeType ==
  ASSUME TypeInv, NEW r \in Rank,
         \/ Pack(r) \/ PostReceives(r) \/ PostSends(r)
         \/ EnterAllToAllv(r) \/ LeaveAllToAllv(r)
         \/ WaitReceives(r) \/ WaitSends(r) \/ Unpack(r)
         \/ RunCallback(r) \/ AfterStatus(r)
  PROVE  TypeInv'
<1>0. pc[r] # "idle" /\ ControlStep(r) /\ UNCHANGED <<call, op, plan>>
  BY ExchangeStep DEF TypeInv
<1>1. /\ pc' \in [Rank -> {"idle"} \union Phase \union Working]
      /\ log' \in [Rank -> Seq(Entry)]
      /\ result' \in [Rank -> Result]
      /\ CallInv'
  BY <1>0, ControlType DEF Place
<1>2. CASE Pack(r)
  <2>1. [p \in Rank |-> IF p \in Outgoing(r) THEN SourceBlock(r, p) ELSE sendBuffer[r][p]]
          \in Content
    <3>1. sendBuffer[r] \in Content
      BY DEF TypeInv, TypeOK
    <3>2. \A p \in Outgoing(r) : SourceBlock(r, p) \in Value
      BY <1>0, DataType
    <3> QED BY <3>1, <3>2 DEF Content
  <2>2. sendBuffer' \in [Rank -> Content] /\ state' \in [Rank -> Layout \union {"Poisoned"}]
    <3>1. sendBuffer \in [Rank -> Content] /\ state \in [Rank -> Layout \union {"Poisoned"}]
      BY DEF TypeInv, TypeOK
    <3>2. sendBuffer' \in [Rank -> Content]
      BY <1>2, <2>1, <3>1 DEF Pack
    <3>3. state' \in [Rank -> Layout \union {"Poisoned"}]
      BY <1>2, <3>1 DEF Pack
    <3> QED BY <3>2, <3>3
  <2>3. QED
    <3>1. UNCHANGED <<storage, destination, receiveBuffer, sendRequests, receiveRequests,
                      wire, verdict, call, op, plan>>
      BY <1>2 DEF Pack
    <3> QED BY <1>1, <2>2, <3>1 DEF TypeInv, TypeOK
<1>3. CASE PostReceives(r) \/ PostSends(r) \/ EnterAllToAllv(r)
  <2>1. Outgoing(r) \subseteq Rank /\ Incoming(r) \subseteq Rank
    BY DataType
  <2>2. /\ sendRequests' \in [Rank -> SUBSET Rank]
        /\ receiveRequests' \in [Rank -> SUBSET Rank]
    <3>1. CASE PostReceives(r)
      BY <2>1, <3>1 DEF PostReceives, TypeInv, TypeOK
    <3>2. CASE PostSends(r)
      BY <2>1, <3>2 DEF PostSends, TypeInv, TypeOK
    <3>3. CASE EnterAllToAllv(r)
      BY <2>1, <3>3 DEF EnterAllToAllv, TypeInv, TypeOK
    <3>4. QED
      BY <1>3, <3>1, <3>2, <3>3
  <2>3. UNCHANGED <<array, verdict, sendBuffer, receiveBuffer, wire>>
    BY <1>3 DEF PostReceives, PostSends, EnterAllToAllv
  <2>4. QED
    BY <1>0, <1>1, <2>2, <2>3 DEF TypeInv, TypeOK, array
<1>4. CASE LeaveAllToAllv(r) \/ WaitReceives(r) \/ WaitSends(r)
  BY <1>0, <1>1, <1>4 DEF LeaveAllToAllv, WaitReceives, WaitSends, OnlyControl, TypeInv, TypeOK,
              array, network
<1>5. ASSUME NEW t \in BOOLEAN, UnpackInto(r, t)
      PROVE  storage' \in [Rank -> Content] /\ destination' \in [Rank -> Content]
  <2>1. /\ Unpacked(r, storage[r], t) \in Content
        /\ Unpacked(r, destination[r], t) \in Content
    BY <1>0, DataType DEF TypeInv, TypeOK
  <2>2. QED
    <3>1. \/ /\ \E c \in Content : storage' = [storage EXCEPT ![r] = c]
             /\ UNCHANGED destination
          \/ /\ \E c \in Content : destination' = [destination EXCEPT ![r] = c]
             /\ UNCHANGED storage
      BY <1>5, <2>1, Zenon DEF UnpackInto
    <3>2. ASSUME NEW c \in Content, NEW f \in [Rank -> Content]
          PROVE  [f EXCEPT ![r] = c] \in [Rank -> Content]
      OBVIOUS
    <3>3. storage \in [Rank -> Content] /\ destination \in [Rank -> Content]
      BY DEF TypeInv, TypeOK
    <3>4. QED
      BY <3>1, <3>2, <3>3
<1>6. CASE Unpack(r)
  <2>1. storage' \in [Rank -> Content] /\ destination' \in [Rank -> Content]
    BY <1>5, <1>6 DEF Unpack
  <2>2. QED
    BY <1>0, <1>1, <1>6, <2>1 DEF Unpack, TypeInv, TypeOK, Other, network
<1>7. CASE RunCallback(r)
  <2>1. PICK v \in Choices("error") \union Choices("panic") :
          verdict' = [verdict EXCEPT ![r] = v] /\ UnpackInto(r, v = "ok")
    BY <1>7 DEF RunCallback
  <2>2. (v = "ok") \in BOOLEAN /\ v \in {"ok", "error", "panic"}
    BY DEF Choices
  <2>3. storage' \in [Rank -> Content] /\ destination' \in [Rank -> Content]
    BY <1>5, <2>1, <2>2
  <2>4. QED
    BY <1>0, <1>1, <1>7, <2>1, <2>2, <2>3 DEF RunCallback, TypeInv, TypeOK, network
<1>8. CASE AfterStatus(r)
  BY <1>0, <1>1, <1>8 DEF AfterStatus, TypeInv, TypeOK, Other, network
<1>9. QED
  BY <1>2, <1>3, <1>4, <1>6, <1>7, <1>8

LEMMA NetworkType ==
  ASSUME TypeInv, NEW p \in Rank, NEW q \in Rank, Inject(p, q) \/ Deliver(p, q)
  PROVE  TypeInv'
<1>1. CASE Inject(p, q)
  <2>1. Append(wire[p][q], sendBuffer[p][q]) \in Seq(Value)
    BY DEF TypeInv, TypeOK, Content
  <2>2. wire' \in [Rank -> [Rank -> Seq(Value)]]
    BY <1>1, <2>1 DEF Inject, TypeInv, TypeOK
  <2>3. QED
    BY <1>1, <2>2 DEF Inject, TypeInv, TypeOK, CallInv, control, array
<1>2. CASE Deliver(p, q)
  <2>1. wire[p][q] \in Seq(Value) /\ wire[p][q] # <<>>
    BY <1>2 DEF Deliver, TypeInv, TypeOK
  <2>2. Tail(wire[p][q]) \in Seq(Value) /\ Head(wire[p][q]) \in Value
    BY <2>1
  <2>3. wire' \in [Rank -> [Rank -> Seq(Value)]]
    BY <1>2, <2>2 DEF Deliver, TypeInv, TypeOK
  <2>4. receiveBuffer' \in [Rank -> Content]
    BY <1>2, <2>2 DEF Deliver, TypeInv, TypeOK, Content
  <2>5. QED
    BY <1>2, <2>3, <2>4 DEF Deliver, TypeInv, TypeOK, CallInv, control, array
<1>3. QED
  BY <1>1, <1>2

LEMMA TypeStep == TypeInv /\ [Next]_vars => TypeInv'
<1> SUFFICES ASSUME TypeInv, [Next]_vars PROVE TypeInv'
  OBVIOUS
<1>1. ASSUME NEW r \in Rank, Call(r) PROVE TypeInv'
  BY <1>1, CallerType DEF Call
<1>2. ASSUME NEW r \in Rank, Step(r) PROVE TypeInv'
  <2>1. CASE \/ AfterHeader(r) \/ AfterReady(r) \/ AfterDescriptor(r)
             \/ AfterLayout(r) \/ AfterPeers(r) \/ AfterAgreement(r)
    BY <2>1, AgreementStep, OnlyControlType DEF TypeInv
  <2>2. CASE \/ Pack(r) \/ PostReceives(r) \/ PostSends(r)
             \/ EnterAllToAllv(r) \/ LeaveAllToAllv(r)
             \/ WaitReceives(r) \/ WaitSends(r) \/ Unpack(r)
             \/ RunCallback(r) \/ AfterStatus(r)
    BY <2>2, ExchangeType
  <2>3. QED
    BY <1>2, <2>1, <2>2 DEF Step
<1>3. ASSUME NEW r \in Rank, NEW l \in Layout, Overwrite(r, l) PROVE TypeInv'
  BY <1>3, CallerType
<1>4. ASSUME NEW r \in Rank, OverwriteFails(r) PROVE TypeInv'
  BY <1>4, CallerType
<1>5. ASSUME NEW p \in Rank, NEW q \in Rank, Inject(p, q) \/ Deliver(p, q) PROVE TypeInv'
  BY <1>5, NetworkType
<1>6. CASE UNCHANGED vars
  BY <1>6 DEF vars, control, array, network, TypeInv, TypeOK, CallInv
<1>7. CASE Done
  BY <1>6, <1>7 DEF Done
<1>8. QED
  BY <1>1, <1>2, <1>3, <1>4, <1>5, <1>6, <1>7 DEF Next

LEMMA TypeInvariance == Spec => []TypeInv
  BY TypeInit, TypeStep, PTL DEF Spec

(* Every variable keeps its type, for any number of ranks and calls.       *)
THEOREM TypeCorrect == Spec => []TypeOK
  BY TypeInvariance, PTL DEF TypeInv

----------------------------------------------------------------------------
(* The reductions match.                                                   *)

(* Two matching entries whose reduction combined to the same votes are     *)
(* followed by matching entries.                                           *)
LEMMA FollowsDetermined ==
  ASSUME NEW e1 \in Entry, NEW e2 \in Entry, NEW f1 \in Entry, NEW f2 \in Entry, NEW V,
         e1.phase = e2.phase, e1.call = e2.call,
         e1.phase # "header" => e1.op = e2.op,
         e1.phase = "header" => e1.val = e1.op /\ e2.val = e2.op,
         e1.val \in V, e2.val \in V,
         Follows(e1, V, f1), Follows(e2, V, f2)
  PROVE  /\ f1.phase = f2.phase /\ f1.call = f2.call
         /\ f1.phase # "header" => f1.op = f2.op
<1>1. Continues(e1, V) => e1.op = e2.op
  <2>1. CASE e1.phase = "header"
    BY <2>1 DEF Continues
  <2>2. CASE e1.phase # "header"
    BY <2>2
  <2>3. QED
    BY <2>1, <2>2
<1>2. Continues(e2, V) => e1.op = e2.op
  <2>1. CASE e1.phase = "header"
    BY <2>1 DEF Continues
  <2>2. CASE e1.phase # "header"
    BY <2>2
  <2>3. QED
    BY <2>1, <2>2
<1>3. Continues(e1, V) <=> Continues(e2, V)
  <2>1. CASE e1.phase = "header"
    BY <1>1, <1>2, <2>1 DEF Continues
  <2>2. CASE e1.phase = "descriptor"
    <3>1. Continues(e1, V) <=> V = {e1.val}
      BY <2>2 DEF Continues
    <3>2. Continues(e2, V) <=> V = {e2.val}
      BY <2>2 DEF Continues
    <3>3. QED
      BY <3>1, <3>2
  <2>3. CASE e1.phase \notin {"header", "descriptor"}
    BY <2>3 DEF Continues
  <2>4. QED
    BY <2>1, <2>2, <2>3
<1>4. CASE Continues(e1, V)
  <2>1. e1.op = e2.op /\ Continues(e2, V)
    BY <1>1, <1>3, <1>4
  <2>2. f1.phase = Successor(e1.op, e1.phase) /\ f1.call = e1.call /\ f1.op = e1.op
    BY <1>4 DEF Follows
  <2>3. f2.phase = Successor(e2.op, e2.phase) /\ f2.call = e2.call /\ f2.op = e2.op
    BY <2>1 DEF Follows
  <2>4. QED
    BY <2>1, <2>2, <2>3
<1>5. CASE ~ Continues(e1, V)
  BY <1>3, <1>5 DEF Follows
<1>6. QED
  BY <1>4, <1>5

(* What AgreementInv says about the reductions alone. *)
LogInv == Lag /\ FirstEntry /\ HeaderWord /\ Chain /\ CollectivesMatch

(* The reductions entered so far stay as they are. *)
LogGrows ==
  \A q \in Rank :
    /\ Len(log[q]) <= Len(log[q])'
    /\ \A n \in 1..Len(log[q]) : log'[q][n] = log[q][n]

LEMMA LogLength ==
  ASSUME TypeOK, NEW q \in Rank
  PROVE  /\ log[q] \in Seq(Entry) /\ Len(log[q]) \in Nat
         /\ log[q] # <<>> <=> Len(log[q]) >= 1
         /\ \A n \in 1..Len(log[q]) : log[q][n] \in Entry
  BY DEF TypeOK

LEMMA AppendGrows ==
  ASSUME TypeOK, NEW r \in Rank, NEW f \in Entry,
         log' = [log EXCEPT ![r] = Append(@, f)]
  PROVE  /\ LogGrows
         /\ Len(log'[r]) = Len(log[r]) + 1
         /\ log'[r][Len(log[r]) + 1] = f
         /\ \A q \in Rank : q # r => log'[q] = log[q]
<1>1. log'[r] = Append(log[r], f) /\ \A q \in Rank : q # r => log'[q] = log[q]
  BY DEF TypeOK
<1>2. /\ Len(log'[r]) = Len(log[r]) + 1
      /\ log'[r][Len(log[r]) + 1] = f
      /\ \A n \in 1..Len(log[r]) : log'[r][n] = log[r][n]
  BY <1>1, LogLength
<1>3. LogGrows
  BY <1>1, <1>2, LogLength DEF LogGrows
<1>4. QED
  BY <1>1, <1>2, <1>3

LEMMA VotesStay ==
  ASSUME LogGrows, NEW n \in Nat, n >= 1, \A q \in Rank : n <= Len(log[q]) /\ Len(log[q]) \in Nat
  PROVE  VotesAt(n)' = VotesAt(n)
<1>1. \A q \in Rank : log'[q][n] = log[q][n]
  BY DEF LogGrows
<1>2. QED
  BY <1>1 DEF VotesAt

(* A rank that has seen its reduction complete may enter one that follows. *)
LEMMA GrowStep ==
  ASSUME TypeOK, TypeOK', LogInv, NEW r \in Rank, NEW f \in Entry,
         log' = [log EXCEPT ![r] = Append(@, f)],
         \A q \in Rank : Len(log[q]) >= Len(log[r]),
         log[r] = <<>> => f.phase = "header" /\ f.call = 1,
         log[r] # <<>> => Follows(log[r][Len(log[r])], VotesAt(Len(log[r])), f),
         f.phase = "header" => f.val = f.op
  PROVE  LogInv'
<1> DEFINE m == Len(log[r])
<1>1. /\ LogGrows
      /\ Len(log'[r]) = m + 1 /\ log'[r][m + 1] = f
      /\ \A q \in Rank : q # r => log'[q] = log[q]
  BY AppendGrows
<1>2. m \in Nat /\ \A q \in Rank : Len(log[q]) \in Nat
  BY LogLength
<1>3. Lag'
  BY <1>1, <1>2 DEF LogInv, Lag
<1>4. FirstEntry'
  <2>1. CASE m = 0
    BY <1>1, <2>1, LogLength DEF LogInv, FirstEntry
  <2>2. CASE m >= 1
    <3>1. log'[r][1] = log[r][1]
      BY <1>1, <1>2, <2>2 DEF LogGrows
    <3>2. QED
      BY <1>1, <2>2, <3>1, LogLength DEF LogInv, FirstEntry
  <2>3. QED
    BY <1>2, <2>1, <2>2
<1>5. HeaderWord'
  BY <1>1, <1>2 DEF LogInv, HeaderWord, LogGrows
<1>6. Chain'
  <2> SUFFICES ASSUME NEW p \in Rank, NEW n \in 1..(Len(log'[p]) - 1)
               PROVE  /\ \A q \in Rank : n <= Len(log'[q])
                      /\ Follows(log'[p][n], VotesAt(n)', log'[p][n + 1])
    BY DEF Chain, Follows, Continues
  <2>1. ASSUME n \in 1..(Len(log[p]) - 1)
        PROVE  /\ \A q \in Rank : n <= Len(log'[q])
               /\ Follows(log'[p][n], VotesAt(n)', log'[p][n + 1])
    <3>1. (\A q \in Rank : n <= Len(log[q])) /\ Follows(log[p][n], VotesAt(n), log[p][n + 1])
      BY <2>1 DEF LogInv, Chain
    <3>2. VotesAt(n)' = VotesAt(n)
      BY <1>1, <1>2, <3>1, VotesStay
    <3>3. log'[p][n] = log[p][n] /\ log'[p][n + 1] = log[p][n + 1]
      BY <1>1, <1>2, <2>1 DEF LogGrows
    <3>4. \A q \in Rank : n <= Len(log'[q])
      BY <1>1, <1>2, <3>1
    <3>5. QED
      BY <3>1, <3>2, <3>3, <3>4
  <2>2. ASSUME p = r, n = m
        PROVE  /\ \A q \in Rank : n <= Len(log'[q])
               /\ Follows(log'[p][n], VotesAt(n)', log'[p][n + 1])
    <3>1. n >= 1 /\ \A q \in Rank : n <= Len(log[q])
      BY <1>2, <2>2
    <3>2. VotesAt(n)' = VotesAt(n)
      BY <1>1, <1>2, <3>1, VotesStay
    <3>3. log'[r][n] = log[r][n] /\ Follows(log[r][n], VotesAt(n), f)
      BY <1>1, <1>2, <2>2, <3>1, LogLength DEF LogGrows
    <3>4. \A q \in Rank : n <= Len(log'[q])
      BY <1>1, <1>2, <3>1 DEF LogGrows
    <3>5. QED
      BY <1>1, <2>2, <3>2, <3>3, <3>4
  <2>3. n \in 1..(Len(log[p]) - 1) \/ (p = r /\ n = m)
    BY <1>1, <1>2
  <2>4. QED
    BY <2>1, <2>2, <2>3
<1>7. CollectivesMatch'
  <2>1. ASSUME NEW q \in Rank, q # r, m + 1 <= Len(log[q])
        PROVE  /\ f.phase = log[q][m + 1].phase /\ f.call = log[q][m + 1].call
               /\ f.phase # "header" => f.op = log[q][m + 1].op
    <3>1. CASE m = 0
      <4>1. log[r] = <<>> /\ log[q] # <<>>
        BY <1>2, <2>1, <3>1, LogLength
      <4>2. QED
        BY <3>1, <4>1 DEF LogInv, FirstEntry
    <3>2. CASE m >= 1
      <4>1. m \in 1..(Len(log[q]) - 1) /\ m \in 1..Len(log[r]) /\ m <= Len(log[q])
        BY <1>2, <2>1, <3>2
      <4>2. Follows(log[q][m], VotesAt(m), log[q][m + 1])
        BY <4>1 DEF LogInv, Chain
      <4>3. Follows(log[r][m], VotesAt(m), f)
        BY <3>2, LogLength
      <4>4. /\ log[r][m].phase = log[q][m].phase /\ log[r][m].call = log[q][m].call
            /\ log[r][m].phase # "header" => log[r][m].op = log[q][m].op
        BY <4>1 DEF LogInv, CollectivesMatch
      <4>5. /\ log[r][m].phase = "header" => log[r][m].val = log[r][m].op
            /\ log[q][m].phase = "header" => log[q][m].val = log[q][m].op
        BY <1>2, <4>1 DEF LogInv, HeaderWord
      <4>6. log[r][m].val \in VotesAt(m) /\ log[q][m].val \in VotesAt(m)
        BY DEF VotesAt
      <4>7. /\ log[r][m] \in Entry /\ log[q][m] \in Entry /\ log[q][m + 1] \in Entry
        BY <1>2, <2>1, <4>1, LogLength
      <4> DEFINE e1 == log[r][m]  e2 == log[q][m]  g == log[q][m + 1]  V == VotesAt(m)
      <4>8. /\ e1 \in Entry /\ e2 \in Entry /\ g \in Entry
            /\ e1.phase = e2.phase /\ e1.call = e2.call
            /\ e1.phase # "header" => e1.op = e2.op
            /\ e1.phase = "header" => e1.val = e1.op /\ e2.val = e2.op
            /\ e1.val \in V /\ e2.val \in V
            /\ Follows(e1, V, f) /\ Follows(e2, V, g)
        BY <4>2, <4>3, <4>4, <4>5, <4>6, <4>7
      <4> HIDE DEF e1, e2, g, V
      <4>9. f.phase = g.phase /\ f.call = g.call /\ (f.phase # "header" => f.op = g.op)
        BY <4>8, FollowsDetermined
      <4>10. QED
        BY <4>9 DEF g
    <3>3. QED
      BY <1>2, <3>1, <3>2
  <2> SUFFICES ASSUME NEW p \in Rank, NEW q \in Rank,
                      NEW n \in 1..Len(log'[p]), n <= Len(log'[q])
               PROVE  /\ log'[p][n].phase = log'[q][n].phase
                      /\ log'[p][n].call = log'[q][n].call
                      /\ log'[p][n].phase # "header" => log'[p][n].op = log'[q][n].op
    BY DEF CollectivesMatch
  <2>2. CASE p = q
    BY <2>2
  <2>3. CASE n <= Len(log[p]) /\ n <= Len(log[q])
    <3>1. log'[p][n] = log[p][n] /\ log'[q][n] = log[q][n]
      BY <1>1, <1>2, <2>3 DEF LogGrows
    <3>2. QED
      BY <1>2, <2>3, <3>1 DEF LogInv, CollectivesMatch
  <2>4. CASE p = r /\ q # r /\ n = m + 1
    BY <1>1, <2>1, <2>4
  <2>5. CASE q = r /\ p # r /\ n = m + 1
    BY <1>1, <1>2, <2>1, <2>5
  <2>6. QED
    BY <1>1, <1>2, <2>2, <2>3, <2>4, <2>5
<1>8. QED
  BY <1>3, <1>4, <1>5, <1>6, <1>7 DEF LogInv

(* A step of rank r does not disturb what is known about another rank.     *)
LEMMA OtherPlace ==
  ASSUME TypeOK, LogGrows, NEW p \in Rank, PlaceInv(p),
         \A q \in Rank : Len(log'[q]) \in Nat,
         log'[p] = log[p], pc'[p] = pc[p], call'[p] = call[p],
         op'[p] = op[p], plan'[p] = plan[p]
  PROVE  PlaceInv(p)'
<1>1. \A q \in Rank : Len(log[q]) \in Nat
  BY LogLength
<1>2. Round(p)' = Round(p) /\ Last(p)' = Last(p)
  BY DEF Round, Last
<1>3. Complete(p) => Complete(p)'
  BY <1>1, <1>2 DEF Complete, LogGrows, Round
<1>4. ASSUME log[p] # <<>>, pc[p] \notin Phase
      PROVE  VotesAt(Round(p))' = VotesAt(Round(p))
  <2>1. Round(p) >= 1 /\ Round(p) \in Nat
    BY <1>4, LogLength DEF Round
  <2>2. \A q \in Rank : Round(p) <= Len(log[q])
    BY <1>1, <1>4 DEF PlaceInv, Complete, Round
  <2>3. \A q \in Rank : log'[q][Round(p)] = log[q][Round(p)]
    BY <1>1, <2>1, <2>2 DEF LogGrows
  <2>4. QED
    BY <1>2, <2>3 DEF VotesAt
<1>5. "idle" \notin Phase /\ Working \intersect Phase = {}
  BY DEF Phase, Working
<1>6. CASE log[p] = <<>>
  BY <1>6 DEF PlaceInv
<1>7. CASE log[p] # <<>> /\ pc[p] \in Phase
  <2>1. pc[p] # "idle" /\ pc[p] \notin Working
        /\ pc[p] \notin {"alltoallv", "waitAllToAllv", "unpack"}
    BY <1>7 DEF Phase, Working
  <2>2. QED
    BY <1>2, <1>7, <2>1 DEF PlaceInv
<1>8. CASE log[p] # <<>> /\ pc[p] \notin Phase
  <2>1. VotesAt(Round(p))' = VotesAt(Round(p))
    BY <1>4, <1>8
  <2>2. Continues(Last(p), VotesAt(Round(p)))' = Continues(Last(p), VotesAt(Round(p)))
    BY <1>2, <2>1 DEF Continues
  <2>3. QED
    BY <1>2, <1>3, <1>8, <2>1, <2>2 DEF PlaceInv
<1>9. QED
  BY <1>6, <1>7, <1>8

AgreementParts == LogInv /\ \A r \in Rank : PlaceInv(r)

LEMMA AgreementInvParts == AgreementInv <=> AgreementParts
  BY DEF AgreementInv, AgreementParts, LogInv

(* A step that enters no reduction keeps what is known about all others.   *)
LEMMA SameLog ==
  ASSUME TypeOK, TypeOK', AgreementParts, NEW r \in Rank, log' = log,
         UNCHANGED <<call, op, plan>>, \A q \in Rank : q # r => pc'[q] = pc[q],
         PlaceInv(r)'
  PROVE  AgreementParts'
<1>1. LogGrows /\ \A q \in Rank : Len(log'[q]) \in Nat
  BY LogLength DEF LogGrows
<1>2. LogInv'
  <2>1. Lag' /\ FirstEntry' /\ HeaderWord' /\ CollectivesMatch'
    BY DEF AgreementParts, LogInv, Lag, FirstEntry, HeaderWord, CollectivesMatch
  <2>2. Chain'
    <3>1. \A n : VotesAt(n)' = VotesAt(n)
      BY DEF VotesAt
    <3>2. QED
      BY <3>1 DEF AgreementParts, LogInv, Chain, Follows, Continues
  <2>3. QED
    BY <2>1, <2>2 DEF LogInv
<1>3. ASSUME NEW q \in Rank, q # r PROVE PlaceInv(q)'
  BY <1>1, <1>3, OtherPlace DEF AgreementParts
<1>4. QED
  BY <1>2, <1>3 DEF AgreementParts

(* A call ends: its last reduction does not let it go on. *)
LEMMA ReturnStep ==
  ASSUME TypeOK, TypeOK', AgreementParts, NEW r \in Rank, NEW res \in Result,
         pc[r] # "idle", Return(r, res), UNCHANGED <<call, op, plan>>,
         Complete(r), ~ Continues(Last(r), VotesAt(Round(r)))
  PROVE  AgreementParts'
<1>1. /\ pc'[r] = "idle" /\ log' = log
      /\ \A q \in Rank : q # r => pc'[q] = pc[q]
  BY DEF Return, TypeOK
<1>2. log[r] # <<>>
  BY DEF AgreementParts, PlaceInv
<1>3. /\ Round(r)' = Round(r) /\ Last(r)' = Last(r) /\ Complete(r)'
      /\ VotesAt(Round(r))' = VotesAt(Round(r))
  BY <1>1 DEF Round, Last, Complete, VotesAt
<1>4. ~ Continues(Last(r), VotesAt(Round(r)))'
  BY <1>3 DEF Continues
<1>5. Last(r).call = call[r] /\ Last(r).op = op[r]
  BY <1>2 DEF AgreementParts, PlaceInv
<1>6. pc'[r] \notin Phase \union Working \union {"alltoallv", "waitAllToAllv", "unpack", "descriptor"}
  BY <1>1 DEF Phase, Working
<1>7. PlaceInv(r)'
  <2>1. Last(r)'.call = call'[r] /\ Last(r)'.op = op'[r]
    BY <1>3, <1>5
  <2>2. pc'[r] \notin Phase /\ pc'[r] # "descriptor" /\ pc'[r] \notin Working
        /\ pc'[r] \notin {"alltoallv", "waitAllToAllv"} /\ pc'[r] # "unpack"
    BY <1>6
  <2>3. log'[r] # <<>>
    BY <1>1, <1>2
  <2>4. QED
    BY <1>3, <1>4, <2>1, <2>2, <2>3 DEF PlaceInv
<1>8. QED
  BY <1>1, <1>7, SameLog

(* A rank moves on within the exchange, which everyone agreed to start.    *)
LEMMA GoToStep ==
  ASSUME TypeOK, TypeOK', AgreementParts, NEW r \in Rank, NEW place \in Working,
         pc[r] # "idle", GoTo(r, place), UNCHANGED <<call, op, plan>>,
         Complete(r), Last(r).phase \in {"preflight", "reservation"},
         VotesAt(Round(r)) = {"ok"},
         place \in {"alltoallv", "waitAllToAllv"} => op[r] \in AllToAllv,
         place = "unpack" => op[r] \notin WithCallback
  PROVE  AgreementParts'
<1>1. /\ pc'[r] = place /\ log' = log
      /\ \A q \in Rank : q # r => pc'[q] = pc[q]
  BY DEF GoTo, TypeOK
<1>2. log[r] # <<>>
  BY DEF AgreementParts, PlaceInv
<1>3. /\ Round(r)' = Round(r) /\ Last(r)' = Last(r) /\ Complete(r)'
      /\ VotesAt(Round(r))' = VotesAt(Round(r))
  BY <1>1 DEF Round, Last, Complete, VotesAt
<1>4. Last(r).call = call[r] /\ Last(r).op = op[r]
  BY <1>2 DEF AgreementParts, PlaceInv
<1>5. place # "idle" /\ place # "descriptor" /\ place \notin Phase
  BY DEF Phase, Working
<1>6. PlaceInv(r)'
  BY <1>1, <1>2, <1>3, <1>4, <1>5 DEF PlaceInv
<1>7. QED
  BY <1>1, <1>6, SameLog

(* A rank enters a reduction that its last one calls for. *)
LEMMA EnterStep ==
  ASSUME TypeOK, TypeOK', AgreementParts, NEW r \in Rank, NEW k \in 1..MaxCalls,
         NEW phase \in Phase, NEW o \in KnownOperation, NEW v \in Vote,
         Enter(r, k, phase, o, v),
         call' = [call EXCEPT ![r] = k], op' = [op EXCEPT ![r] = o],
         \A q \in Rank : q # r => plan'[q] = plan[q],
         phase = "descriptor" => v = plan'[r],
         phase = "header" => v = o,
         Complete(r),
         log[r] = <<>> => phase = "header" /\ k = 1,
         log[r] # <<>> => Follows(Last(r), VotesAt(Round(r)),
                                  [call |-> k, phase |-> phase, op |-> o, val |-> v])
  PROVE  AgreementParts'
<1> DEFINE f == [call |-> k, phase |-> phase, op |-> o, val |-> v]
<1>1. f \in Entry
  BY DEF Entry
<1>2. log' = [log EXCEPT ![r] = Append(@, f)]
  BY DEF Enter
<1>3. /\ pc'[r] = phase /\ call'[r] = k /\ op'[r] = o
      /\ \A q \in Rank : q # r => pc'[q] = pc[q] /\ call'[q] = call[q] /\ op'[q] = op[q]
  BY DEF Enter, TypeOK
<1>4. f.phase = phase /\ f.call = k /\ f.op = o /\ f.val = v
  OBVIOUS
<1> HIDE DEF f
<1>5. LogInv'
  <2>1. \A q \in Rank : Len(log[q]) >= Len(log[r])
    BY DEF Complete, Round
  <2>2. log[r] = <<>> => f.phase = "header" /\ f.call = 1
    BY <1>4
  <2>3. log[r] # <<>> => Follows(log[r][Len(log[r])], VotesAt(Len(log[r])), f)
    BY DEF f, Last, Round
  <2>4. f.phase = "header" => f.val = f.op
    BY <1>4
  <2>5. QED
    BY <1>1, <1>2, <2>1, <2>2, <2>3, <2>4, GrowStep DEF AgreementParts
<1>6. /\ LogGrows /\ Len(log'[r]) = Len(log[r]) + 1 /\ log'[r][Len(log[r]) + 1] = f
      /\ \A q \in Rank : q # r => log'[q] = log[q]
      /\ \A q \in Rank : Len(log'[q]) \in Nat
  <2>1. \A q \in Rank : Len(log'[q]) \in Nat
    BY DEF TypeOK
  <2>2. QED
    BY <1>1, <1>2, <2>1, AppendGrows
<1>7. ASSUME NEW q \in Rank, q # r PROVE PlaceInv(q)'
  BY <1>3, <1>6, <1>7, OtherPlace DEF AgreementParts
<1>8. PlaceInv(r)'
  <2>1. Last(r)' = f /\ log'[r] # <<>>
    <3>1. Len(log[r]) \in Nat /\ log'[r] \in Seq(Entry)
      BY LogLength DEF TypeOK
    <3>2. QED
      BY <1>6, <3>1 DEF Last, Round
  <2>2. phase # "idle" /\ phase \notin Working
        /\ phase \notin {"alltoallv", "waitAllToAllv", "unpack"}
    BY DEF Phase, Working
  <2>3. QED
    BY <1>3, <1>4, <2>1, <2>2 DEF PlaceInv
<1>9. QED
  BY <1>5, <1>7, <1>8 DEF AgreementParts

LEMMA AgreementInit == Init => AgreementParts
  BY DEF Init, AgreementParts, LogInv, Lag, FirstEntry, HeaderWord, Chain,
         CollectivesMatch, PlaceInv

LEMMA AgreementStart ==
  ASSUME TypeInv, TypeOK', AgreementParts, NEW r \in Rank, NEW o \in Operation,
         NEW l \in Layout, Start(r, o, l)
  PROVE  AgreementParts'
<1> DEFINE k == call[r] + 1
           f == [call |-> k, phase |-> "header", op |-> o, val |-> o]
<1>1. k \in 1..MaxCalls /\ o \in KnownOperation /\ "header" \in Phase /\ o \in Vote
  BY RankAssumption DEF Start, TypeInv, TypeOK, Phase, Vote
<1>2. Complete(r)
  <2>1. CASE log[r] = <<>>
    BY <2>1, LogLength DEF TypeInv, Complete, Round
  <2>2. CASE log[r] # <<>>
    BY <2>2 DEF Start, AgreementParts, PlaceInv, Phase
  <2>3. QED
    BY <2>1, <2>2
<1>3. log[r] = <<>> => k = 1
  BY DEF AgreementParts, PlaceInv
<1>4. ASSUME log[r] # <<>> PROVE Follows(Last(r), VotesAt(Round(r)), f)
  <2>1. ~ Continues(Last(r), VotesAt(Round(r))) /\ Last(r).call = call[r]
    BY <1>4 DEF Start, AgreementParts, PlaceInv
  <2>2. QED
    BY <2>1 DEF Follows
<1>5. /\ Enter(r, k, "header", o, o)
      /\ call' = [call EXCEPT ![r] = k] /\ op' = [op EXCEPT ![r] = o]
      /\ \A q \in Rank : q # r => plan'[q] = plan[q]
  BY DEF Start, TypeInv, TypeOK
<1> HIDE DEF k
<1>6. QED
  BY <1>1, <1>2, <1>3, <1>4, <1>5, EnterStep DEF TypeInv

(* Entering the next reduction of a call. *)
LEMMA ContinueStep ==
  ASSUME TypeInv, TypeOK', AgreementParts, NEW r \in Rank, pc[r] # "idle",
         NEW phase \in Phase, NEW v \in Vote, Continue(r, phase, v),
         UNCHANGED <<call, op, plan>>, Complete(r), phase # "header",
         phase = "descriptor" => v = plan[r],
         Continues(Last(r), VotesAt(Round(r))),
         phase = Successor(op[r], Last(r).phase)
  PROVE  AgreementParts'
<1> DEFINE f == [call |-> call[r], phase |-> phase, op |-> op[r], val |-> v]
<1>1. call[r] \in 1..MaxCalls /\ op[r] \in KnownOperation
  BY DEF TypeInv, TypeOK, CallInv
<1>2. /\ Enter(r, call[r], phase, op[r], v)
      /\ call' = [call EXCEPT ![r] = call[r]] /\ op' = [op EXCEPT ![r] = op[r]]
      /\ plan' = plan
  BY DEF Continue, TypeInv, TypeOK
<1>3. log[r] # <<>> /\ Last(r).call = call[r] /\ Last(r).op = op[r]
  BY DEF AgreementParts, PlaceInv
<1>4. Follows(Last(r), VotesAt(Round(r)), f)
  BY <1>3 DEF Follows
<1>5. QED
  BY <1>1, <1>2, <1>3, <1>4, EnterStep DEF TypeInv

(* What a rank knows at the reduction it waits in. *)
LEMMA AtPhase ==
  ASSUME AgreementParts, NEW r \in Rank, pc[r] \in Phase
  PROVE  /\ Last(r).phase = pc[r] /\ Last(r).op = op[r]
         /\ pc[r] = "descriptor" => Last(r).val = plan[r]
         /\ Votes(r) = VotesAt(Round(r))
<1>1. log[r] # <<>>
  BY DEF AgreementParts, PlaceInv, Phase
<1>2. QED
  BY <1>1 DEF AgreementParts, PlaceInv, Votes, VotesAt

LEMMA AgreementAgree ==
  ASSUME TypeInv, TypeOK', AgreementParts, NEW r \in Rank,
         \/ AfterHeader(r) \/ AfterReady(r) \/ AfterDescriptor(r)
         \/ AfterLayout(r) \/ AfterPeers(r) \/ AfterAgreement(r)
  PROVE  AgreementParts'
<1>0. pc[r] # "idle" /\ OnlyControl /\ UNCHANGED <<call, op, plan>> /\ Complete(r) /\ pc[r] \in Phase
  BY AgreementStep DEF TypeInv, OnlyControl, AfterHeader, AfterReady, AfterDescriptor,
                       AfterLayout, AfterPeers, AfterAgreement, Phase
<1>1. /\ Last(r).phase = pc[r] /\ Last(r).op = op[r]
      /\ pc[r] = "descriptor" => Last(r).val = plan[r]
      /\ Votes(r) = VotesAt(Round(r))
  BY <1>0, AtPhase
<1>2. CASE AfterHeader(r)
  <2>1. CASE Votes(r) = {op[r]}
    <3>1. PICK v \in Choices("descriptor") : Continue(r, "ready", v)
      BY <1>2, <2>1 DEF AfterHeader
    <3>2. v \in Vote /\ "ready" \in Phase
      BY VoteType DEF TypeInv, KnownFault, Phase
    <3>3. Continues(Last(r), VotesAt(Round(r))) /\ Successor(op[r], Last(r).phase) = "ready"
      BY <1>1, <1>2, <2>1 DEF AfterHeader, Continues, Successor
    <3>4. QED
      BY <1>0, <3>1, <3>2, <3>3, ContinueStep
  <2>2. CASE Votes(r) # {op[r]}
    <3>1. Return(r, "CollectiveDescriptorMismatch") /\ "CollectiveDescriptorMismatch" \in Result
      BY <1>2, <2>2 DEF AfterHeader, Result
    <3>2. ~ Continues(Last(r), VotesAt(Round(r)))
      BY <1>1, <1>2, <2>2 DEF AfterHeader, Continues
    <3>3. QED
      BY <1>0, <3>1, <3>2, ReturnStep DEF TypeInv
  <2>3. QED
    BY <2>1, <2>2
<1>3. CASE AfterReady(r)
  <2>1. CASE Votes(r) = {"ok"}
    <3>1. Continue(r, "descriptor", plan[r]) /\ plan[r] \in Vote /\ "descriptor" \in Phase
      BY <1>3, <2>1, VoteType DEF AfterReady, TypeInv, Phase
    <3>2. Continues(Last(r), VotesAt(Round(r))) /\ Successor(op[r], Last(r).phase) = "descriptor"
      BY <1>1, <1>3, <2>1 DEF AfterReady, Continues, Successor
    <3>3. QED
      BY <1>0, <3>1, <3>2, ContinueStep
  <2>2. CASE Votes(r) # {"ok"}
    <3>1. Return(r, "PreparationFailed") /\ "PreparationFailed" \in Result
      BY <1>3, <2>2 DEF AfterReady, Result
    <3>2. ~ Continues(Last(r), VotesAt(Round(r)))
      BY <1>1, <1>3, <2>2 DEF AfterReady, Continues
    <3>3. QED
      BY <1>0, <3>1, <3>2, ReturnStep DEF TypeInv
  <2>3. QED
    BY <2>1, <2>2
<1>4. CASE AfterDescriptor(r)
  <2>1. CASE Votes(r) = {plan[r]}
    <3>1. Continues(Last(r), VotesAt(Round(r)))
      BY <1>1, <1>4, <2>1 DEF AfterDescriptor, Continues
    <3>2. PICK phase \in Phase, v \in Vote :
            /\ Continue(r, phase, v) /\ phase = Successor(op[r], Last(r).phase)
            /\ phase \notin {"header", "descriptor"}
      <4>1. CASE op[r] = "new"
        <5>1. PICK v \in PreflightVotes(r) : Continue(r, "layout", v)
          BY <1>4, <2>1, <4>1 DEF AfterDescriptor, AllToAllv
        <5>2. Successor(op[r], Last(r).phase) = "layout"
          BY <1>1, <1>4, <4>1 DEF AfterDescriptor, Successor, AllToAllv
        <5>3. QED
          BY <5>1, <5>2, VoteType DEF TypeInv, Phase
      <4>2. CASE op[r] \in AllToAllv
        <5>1. PICK v \in PreflightVotes(r) : Continue(r, "preflight", v)
          BY <1>4, <2>1, <4>2 DEF AfterDescriptor, AllToAllv
        <5>2. Successor(op[r], Last(r).phase) = "preflight"
          BY <1>1, <1>4, <4>2 DEF AfterDescriptor, Successor, AllToAllv
        <5>3. QED
          BY <5>1, <5>2, VoteType DEF TypeInv, Phase
      <4>3. CASE op[r] \notin AllToAllv \union {"new"}
        <5>1. PICK v \in ReservationVotes(r) : Continue(r, "reservation", v)
          BY <1>4, <2>1, <4>3 DEF AfterDescriptor
        <5>2. Successor(op[r], Last(r).phase) = "reservation"
          BY <1>1, <1>4, <4>3 DEF AfterDescriptor, Successor
        <5>3. QED
          BY <5>1, <5>2, VoteType DEF TypeInv, Phase
      <4>4. QED
        BY <4>1, <4>2, <4>3
    <3>3. QED
      BY <1>0, <3>1, <3>2, ContinueStep
  <2>2. CASE Votes(r) # {plan[r]}
    <3>1. Return(r, "CollectiveDescriptorMismatch") /\ "CollectiveDescriptorMismatch" \in Result
      BY <1>4, <2>2 DEF AfterDescriptor, Result
    <3>2. ~ Continues(Last(r), VotesAt(Round(r)))
      BY <1>1, <1>4, <2>2 DEF AfterDescriptor, Continues
    <3>3. QED
      BY <1>0, <3>1, <3>2, ReturnStep DEF TypeInv
  <2>3. QED
    BY <2>1, <2>2
<1>5. CASE AfterLayout(r)
  <2>1. CASE Votes(r) = {"ok"}
    <3>1. PICK v \in Choices("preflight") : Continue(r, "peers", v)
      BY <1>5, <2>1 DEF AfterLayout
    <3>2. v \in Vote /\ "peers" \in Phase
      BY VoteType DEF TypeInv, KnownFault, Phase
    <3>3. Continues(Last(r), VotesAt(Round(r))) /\ Successor(op[r], Last(r).phase) = "peers"
      BY <1>1, <1>5, <2>1 DEF AfterLayout, Continues, Successor
    <3>4. QED
      BY <1>0, <3>1, <3>2, <3>3, ContinueStep
  <2>2. CASE Votes(r) # {"ok"}
    <3>1. Return(r, Refusal(r)) /\ Refusal(r) \in Result
      BY <1>5, <2>2, VoteType DEF AfterLayout, TypeInv
    <3>2. ~ Continues(Last(r), VotesAt(Round(r)))
      BY <1>1, <1>5, <2>2 DEF AfterLayout, Continues
    <3>3. QED
      BY <1>0, <3>1, <3>2, ReturnStep DEF TypeInv
  <2>3. QED
    BY <2>1, <2>2
<1>6. CASE AfterPeers(r)
  <2>1. PICK res \in Result : Return(r, res)
    BY <1>6, VoteType DEF AfterPeers, TypeInv, Result
  <2>2. ~ Continues(Last(r), VotesAt(Round(r)))
    BY <1>1, <1>6 DEF AfterPeers, Continues
  <2>3. QED
    BY <1>0, <2>1, <2>2, ReturnStep DEF TypeInv
<1>7. CASE AfterAgreement(r)
  <2>1. CASE Votes(r) = {"ok"}
    <3>1. GoTo(r, "pack") /\ "pack" \in Working
      BY <1>7, <2>1 DEF AfterAgreement, Working
    <3>2. Last(r).phase \in {"preflight", "reservation"} /\ VotesAt(Round(r)) = {"ok"}
      BY <1>1, <1>7, <2>1 DEF AfterAgreement
    <3>3. QED
      BY <1>0, <3>1, <3>2, GoToStep DEF TypeInv
  <2>2. CASE Votes(r) # {"ok"}
    <3>1. Return(r, Refusal(r)) /\ Refusal(r) \in Result
      BY <1>7, <2>2, VoteType DEF AfterAgreement, TypeInv
    <3>2. ~ Continues(Last(r), VotesAt(Round(r)))
      BY <1>1, <1>7, <2>2 DEF AfterAgreement, Continues
    <3>3. QED
      BY <1>0, <3>1, <3>2, ReturnStep DEF TypeInv
  <2>3. QED
    BY <2>1, <2>2
<1>8. QED
  BY <1>2, <1>3, <1>4, <1>5, <1>6, <1>7

LEMMA AgreementExchange ==
  ASSUME TypeInv, TypeOK', AgreementParts, NEW r \in Rank,
         \/ Pack(r) \/ PostReceives(r) \/ PostSends(r)
         \/ EnterAllToAllv(r) \/ LeaveAllToAllv(r)
         \/ WaitReceives(r) \/ WaitSends(r) \/ Unpack(r)
         \/ RunCallback(r) \/ AfterStatus(r)
  PROVE  AgreementParts'
<1>0. pc[r] # "idle" /\ UNCHANGED <<call, op, plan>>
  BY ExchangeStep DEF TypeInv
<1>1. ASSUME pc[r] \in Working
      PROVE  /\ Complete(r) /\ Last(r).op = op[r]
             /\ Last(r).phase \in {"preflight", "reservation"}
             /\ VotesAt(Round(r)) = {"ok"}
             /\ pc[r] \in {"alltoallv", "waitAllToAllv"} => op[r] \in AllToAllv
             /\ pc[r] = "unpack" => op[r] \notin WithCallback
  <2>1. log[r] # <<>> /\ pc[r] \notin Phase
    BY <1>0, <1>1 DEF AgreementParts, PlaceInv, Phase, Working
  <2>2. QED
    BY <1>1, <2>1 DEF AgreementParts, PlaceInv
<1>2. ASSUME pc[r] \in Working, NEW place \in Working, GoTo(r, place),
             place \in {"alltoallv", "waitAllToAllv"} => op[r] \in AllToAllv,
             place = "unpack" => op[r] \notin WithCallback
      PROVE  AgreementParts'
  BY <1>0, <1>1, <1>2, GoToStep DEF TypeInv
<1>3. CASE Pack(r) \/ PostReceives(r) \/ PostSends(r) \/ WaitReceives(r) \/ RunCallback(r)
  <2>1. pc[r] \in Working
    BY <1>3 DEF Pack, PostReceives, PostSends, WaitReceives, RunCallback, Working
  <2>2. PICK place \in Working :
          /\ GoTo(r, place) /\ place # "unpack" /\ place # "waitAllToAllv"
          /\ place = "alltoallv" => op[r] \in AllToAllv
    BY <1>3 DEF Pack, PostReceives, PostSends, WaitReceives, RunCallback, Working
  <2>3. QED
    BY <1>2, <2>1, <2>2
<1>4. CASE EnterAllToAllv(r) \/ LeaveAllToAllv(r)
  <2>1. pc[r] \in Working /\ pc[r] \in {"alltoallv", "waitAllToAllv"}
    BY <1>4 DEF EnterAllToAllv, LeaveAllToAllv, Working
  <2>2. op[r] \in AllToAllv /\ op[r] \notin WithCallback
    BY <1>1, <2>1 DEF AllToAllv, WithCallback
  <2>3. PICK place \in Working : GoTo(r, place)
    BY <1>4 DEF EnterAllToAllv, LeaveAllToAllv, Working
  <2>4. QED
    BY <1>2, <2>1, <2>2, <2>3
<1>5. CASE WaitSends(r)
  <2>1. pc[r] \in Working
    BY <1>5 DEF WaitSends, Working
  <2>2. CASE op[r] \in WithCallback
    <3>1. Continue(r, "status", verdict[r]) /\ verdict[r] \in Vote /\ "status" \in Phase
      BY <1>5, <2>2, VoteType DEF WaitSends, TypeInv, Phase
    <3>2. Continues(Last(r), VotesAt(Round(r))) /\ Successor(op[r], Last(r).phase) = "status"
      BY <1>1, <2>1, <2>2 DEF Continues, Successor
    <3>3. QED
      BY <1>0, <1>1, <2>1, <3>1, <3>2, ContinueStep
  <2>3. CASE op[r] \notin WithCallback
    BY <1>2, <1>5, <2>1, <2>3 DEF WaitSends, Working
  <2>4. QED
    BY <2>2, <2>3
<1>6. CASE Unpack(r)
  <2>1. pc[r] \in Working /\ Return(r, "ok") /\ "ok" \in Result /\ op[r] \notin WithCallback
    BY <1>1, <1>6 DEF Unpack, Working, Result
  <2>2. ~ Continues(Last(r), VotesAt(Round(r)))
    BY <1>1, <2>1 DEF Continues
  <2>3. QED
    BY <1>0, <1>1, <2>1, <2>2, ReturnStep DEF TypeInv
<1>7. CASE AfterStatus(r)
  <2>1. /\ pc[r] = "status" /\ pc[r] \in Phase /\ Complete(r)
        /\ Return(r, CallbackOutcome(r)) /\ CallbackOutcome(r) \in Result
    BY <1>7, VoteType DEF AfterStatus, TypeInv, Phase
  <2>2. ~ Continues(Last(r), VotesAt(Round(r)))
    BY <2>1, AtPhase DEF Continues
  <2>3. QED
    BY <1>0, <2>1, <2>2, ReturnStep DEF TypeInv
<1>8. QED
  BY <1>3, <1>4, <1>5, <1>6, <1>7

(* Steps of the caller between calls, of MPI, and stuttering. *)
LEMMA AgreementQuiet ==
  ASSUME TypeOK, TypeOK', AgreementParts, UNCHANGED <<pc, call, op, plan, log>>
  PROVE  AgreementParts'
<1>1. PICK r : r \in Rank
  BY RankAssumption
<1>2. LogGrows /\ \A q \in Rank : Len(log'[q]) \in Nat
  BY LogLength DEF LogGrows
<1>3. PlaceInv(r)'
  BY <1>1, <1>2, OtherPlace DEF AgreementParts
<1>4. QED
  BY <1>1, <1>3, SameLog

LEMMA AgreementNext == TypeInv /\ TypeInv' /\ AgreementParts /\ [Next]_vars => AgreementParts'
<1> SUFFICES ASSUME TypeInv, TypeInv', AgreementParts, [Next]_vars PROVE AgreementParts'
  OBVIOUS
<1>0. TypeOK /\ TypeOK'
  BY DEF TypeInv
<1>1. ASSUME NEW r \in Rank, Call(r) PROVE AgreementParts'
  BY <1>0, <1>1, AgreementStart DEF Call
<1>2. ASSUME NEW r \in Rank, Step(r) PROVE AgreementParts'
  <2>1. CASE \/ AfterHeader(r) \/ AfterReady(r) \/ AfterDescriptor(r)
             \/ AfterLayout(r) \/ AfterPeers(r) \/ AfterAgreement(r)
    BY <1>0, <2>1, AgreementAgree
  <2>2. CASE \/ Pack(r) \/ PostReceives(r) \/ PostSends(r)
             \/ EnterAllToAllv(r) \/ LeaveAllToAllv(r)
             \/ WaitReceives(r) \/ WaitSends(r) \/ Unpack(r)
             \/ RunCallback(r) \/ AfterStatus(r)
    BY <1>0, <2>2, AgreementExchange
  <2>3. QED
    BY <1>2, <2>1, <2>2 DEF Step
<1>3. ASSUME NEW r \in Rank, (\E l \in Layout : Overwrite(r, l)) \/ OverwriteFails(r)
      PROVE  AgreementParts'
  BY <1>0, <1>3, AgreementQuiet DEF Overwrite, OverwriteFails, control
<1>4. ASSUME NEW p \in Rank, NEW q \in Rank, Inject(p, q) \/ Deliver(p, q) PROVE AgreementParts'
  BY <1>0, <1>4, AgreementQuiet DEF Inject, Deliver, control
<1>5. CASE UNCHANGED vars
  BY <1>0, <1>5, AgreementQuiet DEF vars, control
<1>6. CASE Done
  BY <1>5, <1>6 DEF Done
<1>7. QED
  BY <1>1, <1>2, <1>3, <1>4, <1>5, <1>6 DEF Next

LEMMA AgreementInvariance == Spec => []AgreementParts
  BY AgreementInit, AgreementNext, TypeInvariance, PTL DEF Spec

(* The inductive invariant of the agreements holds in every execution: no  *)
(* rank runs more than one reduction ahead, and each reduction follows from*)
(* the one before and its combined result.                                 *)
THEOREM AgreementCorrect == Spec => []AgreementInv
  BY AgreementInvariance, AgreementInvParts, PTL

(* Whatever fails on whichever rank, and whatever operations the ranks     *)
(* call, the n-th reductions of any two ranks are the same reduction.      *)
THEOREM CollectivesAlwaysMatch == Spec => []CollectivesMatch
  BY AgreementInvariance, PTL DEF AgreementParts, LogInv

----------------------------------------------------------------------------
(* Nothing is written before everyone agreed.                              *)

(* Receives are outstanding only inside the exchange. *)
RequestInv ==
  \A r \in Rank :
    receiveRequests[r] # {} => pc[r] \in {"postSends", "waitReceives", "waitAllToAllv"}

(* A rank's own step never leaves the exchange with a receive outstanding. *)
LEMMA RequestStep ==
  ASSUME TypeOK, RequestInv, NEW r \in Rank, Step(r)
  PROVE  RequestInv'
<1>1. ASSUME NEW q \in Rank, q # r
      PROVE  pc'[q] = pc[q] /\ receiveRequests'[q] = receiveRequests[q]
  <2>1. ASSUME ControlStep(r) PROVE pc'[q] = pc[q]
    BY <1>1, <2>1 DEF ControlStep, Continue, Enter, Return, GoTo, TypeOK
  <2>2. CASE \/ AfterHeader(r) \/ AfterReady(r) \/ AfterDescriptor(r)
             \/ AfterLayout(r) \/ AfterPeers(r) \/ AfterAgreement(r)
    BY <2>1, <2>2, AgreementStep DEF OnlyControl, network
  <2>3. CASE \/ Pack(r) \/ PostReceives(r) \/ PostSends(r)
             \/ EnterAllToAllv(r) \/ LeaveAllToAllv(r)
             \/ WaitReceives(r) \/ WaitSends(r) \/ Unpack(r)
             \/ RunCallback(r) \/ AfterStatus(r)
    <3>1. pc'[q] = pc[q]
      BY <2>1, <2>3, ExchangeStep
    <3>2. receiveRequests'[q] = receiveRequests[q]
      BY <1>1, <2>3 DEF Pack, PostReceives, PostSends, EnterAllToAllv, LeaveAllToAllv,
         WaitReceives, WaitSends, Unpack, RunCallback, AfterStatus, OnlyControl, network, TypeOK
    <3>3. QED
      BY <3>1, <3>2
  <2>4. QED
    BY <2>2, <2>3 DEF Step
<1>2. receiveRequests'[r] # {} => pc'[r] \in {"postSends", "waitReceives", "waitAllToAllv"}
  <2>1. CASE PostReceives(r) \/ PostSends(r) \/ EnterAllToAllv(r)
    BY <2>1 DEF PostReceives, PostSends, EnterAllToAllv, GoTo, TypeOK
  <2>2. CASE LeaveAllToAllv(r) \/ WaitReceives(r)
    BY <2>2 DEF LeaveAllToAllv, WaitReceives, OnlyControl, network
  <2>3. CASE Pack(r) \/ WaitSends(r) \/ Unpack(r) \/ RunCallback(r) \/ AfterStatus(r)
    BY <2>3 DEF RequestInv, Pack, WaitSends, Unpack, RunCallback, AfterStatus, OnlyControl, network
  <2>4. CASE \/ AfterHeader(r) \/ AfterReady(r) \/ AfterDescriptor(r)
             \/ AfterLayout(r) \/ AfterPeers(r) \/ AfterAgreement(r)
    BY <2>4 DEF RequestInv, AfterHeader, AfterReady, AfterDescriptor, AfterLayout, AfterPeers,
                AfterAgreement, OnlyControl, network
  <2>5. QED
    BY <2>1, <2>2, <2>3, <2>4 DEF Step
<1>3. QED
  BY <1>1, <1>2 DEF RequestInv

LEMMA RequestNext == TypeOK /\ RequestInv /\ [Next]_vars => RequestInv'
<1> SUFFICES ASSUME TypeOK, RequestInv, [Next]_vars PROVE RequestInv'
  OBVIOUS
<1>1. ASSUME NEW r \in Rank, Call(r) PROVE RequestInv'
  <2>1. PICK o \in Operation, l \in Layout : Start(r, o, l)
    BY <1>1 DEF Call
  <2>2. receiveRequests' = receiveRequests /\ pc[r] = "idle"
        /\ \A q \in Rank : q # r => pc'[q] = pc[q]
    BY <2>1 DEF Start, Enter, network, TypeOK
  <2>3. QED
    BY <2>2 DEF RequestInv
<1>2. ASSUME NEW r \in Rank, Step(r) PROVE RequestInv'
  BY <1>2, RequestStep
<1>3. ASSUME NEW r \in Rank, (\E l \in Layout : Overwrite(r, l)) \/ OverwriteFails(r)
      PROVE  RequestInv'
  BY <1>3 DEF RequestInv, Overwrite, OverwriteFails, control, network
<1>4. ASSUME NEW p \in Rank, NEW q \in Rank, Inject(p, q) \/ Deliver(p, q) PROVE RequestInv'
  <2>1. \A r \in Rank : receiveRequests'[r] \subseteq receiveRequests[r]
    <3>1. CASE Inject(p, q)
      BY <3>1 DEF Inject
    <3>2. CASE Deliver(p, q)
      BY <3>2 DEF Deliver, TypeOK
    <3>3. QED
      BY <1>4, <3>1, <3>2
  <2>2. pc' = pc
    BY <1>4 DEF Inject, Deliver, control
  <2>3. QED
    BY <2>1, <2>2 DEF RequestInv
<1>5. CASE UNCHANGED vars
  BY <1>5 DEF vars, control, network, RequestInv
<1>6. CASE Done
  BY <1>5, <1>6 DEF Done
<1>7. QED
  BY <1>1, <1>2, <1>3, <1>4, <1>5, <1>6 DEF Next

LEMMA RequestInvariance == Spec => []RequestInv
<1>1. Init => RequestInv
  BY DEF Init, RequestInv
<1>2. QED
  BY <1>1, RequestNext, TypeInvariance, PTL DEF Spec, TypeInv

(* A rank inside the exchange has seen everyone agree to it. *)
LEMMA WorkingAgreed ==
  ASSUME AgreementParts, NEW r \in Rank, pc[r] \in Working
  PROVE  AllAgreed(r)
<1>1. log[r] # <<>> /\ pc[r] \notin Phase
  BY DEF AgreementParts, PlaceInv, Phase, Working
<1>2. /\ Complete(r) /\ Last(r).phase \in {"preflight", "reservation"}
      /\ VotesAt(Round(r)) = {"ok"}
  BY <1>1 DEF AgreementParts, PlaceInv
<1>3. QED
  BY <1>1, <1>2 DEF AllAgreed, Last, Votes, VotesAt

(* Everything a call writes. *)
Held(r) == <<state[r], storage[r], destination[r], sendBuffer[r], receiveBuffer[r]>>

LEMMA WriteStep ==
  ASSUME TypeOK, AgreementParts, RequestInv, [Next]_vars,
         NEW r \in Rank, pc[r] # "idle", ~ AllAgreed(r)
  PROVE  UNCHANGED Held(r)
<1>0. pc[r] \notin Working
  BY WorkingAgreed
<1>1. ASSUME NEW q \in Rank, Call(q) PROVE UNCHANGED Held(r)
  <2>1. PICK o \in Operation, l \in Layout : Start(q, o, l)
    BY <1>1 DEF Call
  <2>2. q # r
    BY <2>1 DEF Start
  <2>3. QED
    BY <2>1, <2>2 DEF Start, network, Held, TypeOK
<1>2. ASSUME NEW q \in Rank, Step(q) PROVE UNCHANGED Held(r)
  <2>1. CASE \/ AfterHeader(q) \/ AfterReady(q) \/ AfterDescriptor(q)
             \/ AfterLayout(q) \/ AfterPeers(q) \/ AfterAgreement(q)
    BY <2>1, AgreementStep DEF OnlyControl, array, network, Held
  <2>2. CASE PostReceives(q) \/ PostSends(q) \/ EnterAllToAllv(q) \/ LeaveAllToAllv(q)
             \/ WaitReceives(q) \/ WaitSends(q)
    BY <2>2 DEF PostReceives, PostSends, EnterAllToAllv, LeaveAllToAllv, WaitReceives,
                WaitSends, OnlyControl, array, network, Held
  <2>3. CASE Pack(q)
    <3>1. q # r
      BY <1>0, <2>3 DEF Pack, Working
    <3>2. QED
      BY <2>3, <3>1 DEF Pack, Held, TypeOK
  <2>4. CASE Unpack(q)
    <3>1. q # r
      BY <1>0, <2>4 DEF Unpack, Working
    <3>2. storage'[r] = storage[r] /\ destination'[r] = destination[r]
      BY <2>4, <3>1 DEF Unpack, UnpackInto, TypeOK
    <3>3. state'[r] = state[r] /\ UNCHANGED network
      BY <2>4, <3>1 DEF Unpack, TypeOK
    <3>4. QED
      BY <3>2, <3>3 DEF Held, network
  <2>5. CASE RunCallback(q)
    <3>1. q # r
      BY <1>0, <2>5 DEF RunCallback, Working
    <3>2. storage'[r] = storage[r] /\ destination'[r] = destination[r]
      BY <2>5, <3>1 DEF RunCallback, UnpackInto, TypeOK
    <3>3. UNCHANGED <<state, network>>
      BY <2>5 DEF RunCallback
    <3>4. QED
      BY <3>2, <3>3 DEF Held, network
  <2>6. CASE AfterStatus(q)
    <3>1. state'[r] = state[r]
      <4>1. CASE q # r
        BY <2>6, <4>1 DEF AfterStatus, TypeOK
      <4>2. CASE q = r
        <5>1. Complete(r) /\ pc[r] \in Phase /\ pc[r] = "status"
          BY <2>6, <4>2 DEF AfterStatus, Phase
        <5>2. Last(r).phase = "status" /\ log[r] # <<>>
          BY <5>1, AtPhase DEF AgreementParts, PlaceInv
        <5>3. Votes(r) # {"ok"}
          BY <5>1, <5>2 DEF AllAgreed, Last
        <5>4. CallbackOutcome(r) # "ok"
          BY <5>3 DEF CallbackOutcome
        <5>5. QED
          BY <2>6, <4>2, <5>4 DEF AfterStatus
      <4>3. QED
        BY <4>1, <4>2
    <3>2. QED
      BY <2>6, <3>1 DEF AfterStatus, network, Held
  <2>7. QED
    BY <1>2, <2>1, <2>2, <2>3, <2>4, <2>5, <2>6 DEF Step
<1>3. ASSUME NEW q \in Rank, (\E l \in Layout : Overwrite(q, l)) \/ OverwriteFails(q)
      PROVE  UNCHANGED Held(r)
  <2>1. q # r
    BY <1>3 DEF Overwrite, OverwriteFails
  <2>2. QED
    BY <1>3, <2>1 DEF Overwrite, OverwriteFails, network, Held, TypeOK
<1>4. ASSUME NEW p \in Rank, NEW q \in Rank, Inject(p, q) PROVE UNCHANGED Held(r)
  BY <1>4 DEF Inject, array, Held
<1>5. ASSUME NEW p \in Rank, NEW q \in Rank, Deliver(p, q) PROVE UNCHANGED Held(r)
  <2>1. receiveRequests[q] # {}
    BY <1>5 DEF Deliver
  <2>2. q # r
    BY <1>0, <2>1 DEF RequestInv, Working
  <2>3. QED
    BY <1>5, <2>2 DEF Deliver, array, Held, TypeOK
<1>6. CASE UNCHANGED vars
  BY <1>6 DEF vars, array, network, Held
<1>7. CASE Done
  BY <1>6, <1>7 DEF Done
<1>8. QED
  BY <1>1, <1>2, <1>3, <1>4, <1>5, <1>6, <1>7 DEF Next

(* A call writes nothing of a rank's array, destination or workspace until *)
(* every rank has agreed that it can take part: a refused call leaves them *)
(* as they were.                                                           *)
THEOREM NothingWrittenBeforeAgreement == Spec => WritesOnlyAfterAgreement
<1>1. TypeOK /\ AgreementParts /\ RequestInv /\ [Next]_vars =>
        [\A r \in Rank : pc[r] # "idle" /\ ~ AllAgreed(r) =>
           UNCHANGED <<state[r], storage[r], destination[r], sendBuffer[r], receiveBuffer[r]>>]_vars
  BY WriteStep DEF Held
<1>2. QED
  BY <1>1, TypeInvariance, AgreementInvariance, RequestInvariance, PTL
     DEF Spec, TypeInv, WritesOnlyAfterAgreement

----------------------------------------------------------------------------
(* Outcome: all ranks learn the same outcome of a call, a failure that a   *)
(* rank hears of is one that a rank reports, and seen from outside a call  *)
(* is one step on all ranks.                                               *)

Verdict == {"ok", "error", "panic"}

(* A step of the system as seen by the callers: a call begins, or a rank   *)
(* moves on in its call, or no rank notices.                               *)
Unnoticed == UNCHANGED <<pc, call, op, plan, log, result>>

LEMMA NextKinds ==
  ASSUME TypeInv, [Next]_vars
  PROVE  \/ \E r \in Rank, o \in Operation, l \in Layout : Start(r, o, l)
         \/ \E r \in Rank : Step(r)
         \/ Unnoticed
<1>1. ASSUME NEW r \in Rank, NEW l \in Layout, Overwrite(r, l) PROVE Unnoticed
  BY <1>1 DEF Overwrite, control, Unnoticed
<1>2. ASSUME NEW r \in Rank, OverwriteFails(r) PROVE Unnoticed
  BY <1>2 DEF OverwriteFails, control, Unnoticed
<1>3. ASSUME NEW p \in Rank, NEW q \in Rank, Inject(p, q) \/ Deliver(p, q) PROVE Unnoticed
  BY <1>3 DEF Inject, Deliver, control, Unnoticed
<1>4. CASE UNCHANGED vars
  BY <1>4 DEF vars, control, Unnoticed
<1>5. QED
  BY <1>1, <1>2, <1>3, <1>4 DEF Next, Done, Call

(* A rank's own step is a control step that leaves its call as it is. *)
LEMMA StepKind ==
  ASSUME TypeOK, NEW r \in Rank, Step(r)
  PROVE  pc[r] # "idle" /\ ControlStep(r) /\ UNCHANGED <<call, op, plan>>
<1>1. CASE \/ AfterHeader(r) \/ AfterReady(r) \/ AfterDescriptor(r)
           \/ AfterLayout(r) \/ AfterPeers(r) \/ AfterAgreement(r)
  BY <1>1, AgreementStep DEF OnlyControl
<1>2. CASE \/ Pack(r) \/ PostReceives(r) \/ PostSends(r)
           \/ EnterAllToAllv(r) \/ LeaveAllToAllv(r)
           \/ WaitReceives(r) \/ WaitSends(r) \/ Unpack(r)
           \/ RunCallback(r) \/ AfterStatus(r)
  BY <1>2, ExchangeStep
<1>3. QED
  BY <1>1, <1>2 DEF Step

(* What a step may do to the reductions. *)
Appends(r, f) ==
  /\ log' = [log EXCEPT ![r] = Append(@, f)]
  /\ f.phase = "status" => f.val \in Verdict

LEMMA ContinueAppends ==
  ASSUME TypeInv, NEW r \in Rank, pc[r] # "idle", NEW phase \in Phase, NEW v \in Vote,
         Continue(r, phase, v), phase = "status" => v \in Verdict
  PROVE  \E f \in Entry : Appends(r, f)
<1> DEFINE f == [call |-> call[r], phase |-> phase, op |-> op[r], val |-> v]
<1>1. call[r] \in 1..MaxCalls /\ op[r] \in KnownOperation
  BY DEF TypeInv, TypeOK, CallInv
<1>2. f \in Entry
  BY <1>1 DEF Entry
<1>3. Appends(r, f)
  BY DEF Continue, Enter, Appends
<1>4. QED
  BY <1>2, <1>3

LEMMA LogStep ==
  ASSUME TypeInv, [Next]_vars
  PROVE  log' = log \/ \E r \in Rank : \E f \in Entry : Appends(r, f)
<1>1. ASSUME NEW r \in Rank, NEW o \in Operation, NEW l \in Layout, Start(r, o, l)
      PROVE  \E f \in Entry : Appends(r, f)
  <2> DEFINE k == call[r] + 1
             f == [call |-> k, phase |-> "header", op |-> o, val |-> o]
  <2>1. k \in 1..MaxCalls /\ o \in KnownOperation /\ "header" \in Phase /\ o \in Vote
    BY <1>1, RankAssumption DEF Start, TypeInv, TypeOK, Phase, Vote
  <2>2. f \in Entry
    BY <2>1 DEF Entry
  <2>3. Appends(r, f)
    BY <1>1 DEF Start, Enter, Appends
  <2>4. QED
    BY <2>2, <2>3
<1>2. ASSUME NEW r \in Rank, Step(r)
      PROVE  log' = log \/ \E f \in Entry : Appends(r, f)
  <2>1. pc[r] # "idle" /\ ControlStep(r)
    BY <1>2, StepKind DEF TypeInv
  <2>2. CASE \E phase \in Phase \ {"status"}, v \in Vote : Continue(r, phase, v)
    BY <2>1, <2>2, ContinueAppends
  <2>3. CASE \E v \in Vote : Continue(r, "status", v)
    <3>1. pc'[r] = "status"
      BY <2>3 DEF Continue, Enter, TypeInv, TypeOK
    <3>2. Continue(r, "status", verdict[r])
      <4>1. \/ WaitSends(r)
            \/ \E phase \in Phase \ {"status"}, v \in Vote : Continue(r, phase, v)
            \/ \E res \in Result : Return(r, res)
            \/ \E place \in Working : GoTo(r, place)
        BY <1>2, VoteType DEF Step, AfterHeader, AfterReady, AfterDescriptor, AfterLayout, AfterPeers,
           AfterAgreement, Pack, PostReceives, PostSends, EnterAllToAllv, LeaveAllToAllv,
           WaitReceives, Unpack, RunCallback, AfterStatus, TypeInv, KnownFault, Phase, Result, Working
      <4>2. WaitSends(r)
        BY <3>1, <4>1 DEF Continue, Enter, Return, GoTo, TypeInv, TypeOK, Working
      <4>3. QED
        BY <3>1, <4>2 DEF WaitSends, GoTo, TypeInv, TypeOK
    <3>3. verdict[r] \in Verdict /\ verdict[r] \in Vote /\ "status" \in Phase
      BY VoteType DEF TypeInv, TypeOK, Verdict, Phase
    <3>4. QED
      BY <2>1, <3>2, <3>3, ContinueAppends
  <2>4. CASE (\E res \in Result : Return(r, res)) \/ (\E place \in Working : GoTo(r, place))
    BY <2>4 DEF Return, GoTo
  <2>5. QED
    BY <2>1, <2>2, <2>3, <2>4 DEF ControlStep
<1>3. QED
  BY <1>1, <1>2, NextKinds DEF Unnoticed

(* Reductions that were entered stay. *)
LEMMA LogOnlyGrows ==
  ASSUME TypeInv, [Next]_vars
  PROVE  LogGrows
<1>1. CASE log' = log
  BY <1>1, LogLength DEF LogGrows, TypeInv
<1>2. ASSUME NEW r \in Rank, NEW f \in Entry, Appends(r, f) PROVE LogGrows
  BY <1>2, AppendGrows DEF Appends, TypeInv
<1>3. QED
  BY <1>1, <1>2, LogStep

----------------------------------------------------------------------------
(* The reductions of a rank in the order of its calls.                     *)

LEMMA OrderNext ==
  ASSUME TypeInv, TypeOK', AgreementParts', CallsInOrder, StatusWord, [Next]_vars
  PROVE  CallsInOrder' /\ StatusWord'
<1>1. CASE log' = log
  BY <1>1 DEF CallsInOrder, StatusWord
<1>2. ASSUME NEW r \in Rank, NEW f \in Entry, Appends(r, f)
      PROVE  CallsInOrder' /\ StatusWord'
  <2> DEFINE m == Len(log[r])
  <2>1. /\ m \in Nat /\ LogGrows
        /\ Len(log'[r]) = m + 1 /\ log'[r][m + 1] = f
        /\ \A q \in Rank : q # r => log'[q] = log[q]
        /\ \A n \in 1..m : log'[r][n] = log[r][n]
    BY <1>2, AppendGrows, LogLength DEF Appends, TypeInv, LogGrows
  <2>2. /\ \A n \in 1..m : log'[r][n] \in Entry
        /\ \A n \in 1..m : log'[r][n].call \in Nat
        /\ f.call \in Nat
    <3>1. \A e \in Entry : e.call \in Nat
      BY DEF Entry
    <3>2. \A n \in 1..m : log'[r][n] \in Entry
      BY <2>1, LogLength DEF TypeInv
    <3>3. QED
      BY <3>1, <3>2
  <2>3. StatusWord'
    BY <1>2, <2>1 DEF StatusWord, Appends, Verdict
  <2>4. m >= 1 => log'[r][m].call <= f.call
    <3>1. ASSUME m >= 1 PROVE f.call \in {log'[r][m].call, log'[r][m].call + 1}
      <4>1. m \in 1..(Len(log'[r]) - 1)
        BY <2>1, <3>1
      <4>2. QED
        BY <2>1, <4>1 DEF AgreementParts, LogInv, Chain, Follows
    <3>2. QED
      BY <2>2, <3>1
  <2>5. \A i \in 1..m : log'[r][i].call <= log'[r][m].call
    BY <2>1 DEF CallsInOrder
  <2>6. ASSUME NEW i \in 1..(m + 1), NEW j \in 1..(m + 1), i <= j
        PROVE  log'[r][i].call <= log'[r][j].call
    <3>1. CASE j \in 1..m
      <4>1. i \in 1..m
        BY <2>1, <2>6, <3>1
      <4>2. QED
        BY <2>1, <2>6, <3>1, <4>1 DEF CallsInOrder
    <3>2. CASE i = m + 1 /\ j = m + 1
      BY <2>1, <2>2, <3>2
    <3>3. CASE i \in 1..m /\ j = m + 1
      <4>1. /\ log'[r][i].call \in Nat /\ log'[r][m].call \in Nat /\ m >= 1
            /\ log'[r][i].call <= log'[r][m].call
            /\ log'[r][m].call <= f.call
        BY <2>1, <2>2, <2>4, <2>5, <3>3
      <4>2. QED
        BY <2>1, <2>2, <3>3, <4>1
    <3>4. QED
      BY <2>1, <2>6, <3>1, <3>2, <3>3
  <2>7. CallsInOrder'
    BY <2>1, <2>6 DEF CallsInOrder
  <2>8. QED
    BY <2>3, <2>7
<1>3. QED
  BY <1>1, <1>2, LogStep

(* The end of a call stays where it is. *)
LEMMA EndStays ==
  ASSUME TypeOK, LogGrows, \A p \in Rank : Len(log'[p]) \in Nat,
         NEW q \in Rank, NEW n \in 1..Len(log[q]),
         EndsAt(q, n), Ended(q)' = Ended(q)
  PROVE  EndsAt(q, n)' /\ log'[q][n] = log[q][n] /\ VotesAt(n)' = VotesAt(n)
         /\ n \in 1..Len(log'[q])
<1>1. /\ \A p \in Rank : Len(log[p]) \in Nat /\ n <= Len(log[p])
      /\ n \in Nat /\ n >= 1
  BY LogLength DEF EndsAt
<1>2. VotesAt(n)' = VotesAt(n)
  BY <1>1, VotesStay
<1>3. log'[q][n] = log[q][n]
  BY DEF LogGrows
<1>4. /\ \A p \in Rank : n <= Len(log'[p])
      /\ n \in 1..Len(log'[q])
  BY <1>1 DEF LogGrows
<1>5. Continues(log[q][n], VotesAt(n))' = Continues(log[q][n], VotesAt(n))
  BY <1>2, <1>3 DEF Continues
<1>6. QED
  BY <1>2, <1>3, <1>4, <1>5 DEF EndsAt

LEMMA ResultStays ==
  ASSUME TypeOK, TypeOK', LogGrows, NEW q \in Rank, ResultInv(q),
         Ended(q)' = Ended(q), result'[q] = result[q]
  PROVE  ResultInv(q)'
<1>1. CASE Ended(q) = 0
  BY <1>1 DEF ResultInv
<1>2. CASE Ended(q) # 0
  <2>1. PICK n \in 1..Len(log[q]) :
          /\ EndsAt(q, n)
          /\ Outcome(q) = OutcomeAt(log[q][n].phase, VotesAt(n))
          /\ log[q][n].phase = "status" =>
               result[q] = StatusResult(log[q][n].val, VotesAt(n))
    BY <1>2 DEF ResultInv
  <2>2. \A p \in Rank : Len(log'[p]) \in Nat
    BY DEF TypeOK
  <2>3. /\ EndsAt(q, n)' /\ log'[q][n] = log[q][n] /\ VotesAt(n)' = VotesAt(n)
        /\ n \in 1..Len(log'[q])
    BY <2>1, <2>2, EndStays
  <2>4. Outcome(q)' = Outcome(q)
    BY DEF Outcome
  <2>5. OutcomeAt(log[q][n].phase, VotesAt(n))' = OutcomeAt(log[q][n].phase, VotesAt(n))
        /\ StatusResult(log[q][n].val, VotesAt(n))' = StatusResult(log[q][n].val, VotesAt(n))
    BY <2>3 DEF OutcomeAt, StatusResult
  <2>6. QED
    BY <1>2, <2>1, <2>3, <2>4, <2>5 DEF ResultInv
<1>3. QED
  BY <1>1, <1>2

----------------------------------------------------------------------------
(* What a rank is told when its call ends.                                 *)

Class(res) ==
  IF res \in {"none", "ok"} THEN res
  ELSE IF res \in CallbackFailed THEN "callbackFailed" ELSE "refused"

LEMMA RefusalClass ==
  ASSUME NEW r \in Rank
  PROVE  Class(Refusal(r)) = "refused"
BY DEF Class, Refusal, CallbackFailed

(* The result is a function of the last reduction's phase and votes. *)
Tells(r, res) ==
  /\ Return(r, res) /\ Complete(r) /\ res # "none"
  /\ Class(res) = OutcomeAt(Last(r).phase, VotesAt(Round(r)))
  /\ Last(r).phase = "status" => res = StatusResult(Last(r).val, VotesAt(Round(r)))

LEMMA StatusClass ==
  ASSUME NEW V, NEW v \in V, NEW phase, phase = "status"
  PROVE  /\ Class(StatusResult(v, V)) = OutcomeAt(phase, V)
         /\ StatusResult(v, V) # "none"
<1>1. CASE V = {"ok"}
  BY <1>1 DEF Class, StatusResult, OutcomeAt
<1>2. CASE V # {"ok"}
  <2>1. StatusResult(v, V) \in CallbackFailed
    BY <1>2 DEF StatusResult, CallbackFailed
  <2>2. QED
    BY <1>2, <2>1 DEF Class, OutcomeAt, CallbackFailed
<1>3. QED
  BY <1>1, <1>2

LEMMA AgreementTells ==
  ASSUME TypeInv, AgreementParts, NEW r \in Rank, pc'[r] = "idle",
         \/ AfterHeader(r) \/ AfterReady(r) \/ AfterDescriptor(r)
         \/ AfterLayout(r) \/ AfterPeers(r) \/ AfterAgreement(r)
  PROVE  \E res \in Result : Tells(r, res)
<1>0. /\ Complete(r) /\ pc[r] \in Phase
      /\ Last(r).phase = pc[r] /\ Votes(r) = VotesAt(Round(r))
  <2>1. Complete(r) /\ pc[r] \in Phase
    BY DEF AfterHeader, AfterReady, AfterDescriptor, AfterLayout, AfterPeers, AfterAgreement, Phase
  <2>2. QED
    BY <2>1, AtPhase
<1>1. ASSUME NEW phase \in Phase, NEW v, Continue(r, phase, v) PROVE FALSE
  BY <1>1 DEF Continue, Enter, TypeInv, TypeOK, Phase
<1>2. ASSUME GoTo(r, "pack") PROVE FALSE
  BY <1>2 DEF GoTo, TypeInv, TypeOK
<1>3. CASE \/ AfterHeader(r) \/ AfterReady(r) \/ AfterDescriptor(r)
  <2>1. PICK res \in {"CollectiveDescriptorMismatch", "PreparationFailed"} : Return(r, res)
    BY <1>1, <1>3 DEF AfterHeader, AfterReady, AfterDescriptor, Phase
  <2>2. Class(res) = "refused" /\ res \in Result /\ res # "none"
    BY <2>1 DEF Class, CallbackFailed, Result
  <2>3. pc[r] \in {"header", "ready", "descriptor"}
    BY <1>3 DEF AfterHeader, AfterReady, AfterDescriptor
  <2>4. QED
    BY <1>0, <2>1, <2>2, <2>3 DEF Tells, OutcomeAt
<1>4. CASE AfterLayout(r) \/ AfterAgreement(r)
  <2>1. Return(r, Refusal(r)) /\ pc[r] \in {"layout", "preflight", "reservation"}
    BY <1>1, <1>2, <1>4 DEF AfterLayout, AfterAgreement, Phase
  <2>2. Class(Refusal(r)) = "refused" /\ Refusal(r) \in Result /\ Refusal(r) # "none"
    BY RefusalClass, VoteType DEF TypeInv, Refusal
  <2>3. OutcomeAt(Last(r).phase, VotesAt(Round(r))) = "refused"
    <3>1. CASE AfterLayout(r)
      BY <1>0, <3>1 DEF AfterLayout, OutcomeAt
    <3>2. CASE AfterAgreement(r)
      BY <1>0, <1>2, <3>2 DEF AfterAgreement, OutcomeAt
    <3>3. QED
      BY <1>4, <3>1, <3>2
  <2>4. QED
    BY <1>0, <2>1, <2>2, <2>3 DEF Tells
<1>5. CASE AfterPeers(r)
  <2>1. CASE Votes(r) = {"ok"}
    BY <1>0, <1>5, <2>1 DEF AfterPeers, Tells, Class, OutcomeAt, Result
  <2>2. CASE Votes(r) # {"ok"}
    <3>1. Class(Refusal(r)) = "refused" /\ Refusal(r) \in Result /\ Refusal(r) # "none"
      BY RefusalClass, VoteType DEF TypeInv, Refusal
    <3>2. Return(r, Refusal(r)) /\ pc[r] = "peers"
      BY <1>5, <2>2 DEF AfterPeers
    <3>3. QED
      BY <1>0, <2>2, <3>1, <3>2 DEF Tells, OutcomeAt
  <2>3. QED
    BY <2>1, <2>2
<1>6. QED
  BY <1>3, <1>4, <1>5

LEMMA ExchangeTells ==
  ASSUME TypeInv, AgreementParts, NEW r \in Rank, pc'[r] = "idle",
         \/ Pack(r) \/ PostReceives(r) \/ PostSends(r)
         \/ EnterAllToAllv(r) \/ LeaveAllToAllv(r)
         \/ WaitReceives(r) \/ WaitSends(r) \/ Unpack(r)
         \/ RunCallback(r) \/ AfterStatus(r)
  PROVE  \E res \in Result : Tells(r, res)
<1>1. Unpack(r) \/ AfterStatus(r)
  BY DEF Pack, PostReceives, PostSends, EnterAllToAllv, LeaveAllToAllv, WaitReceives, WaitSends,
         RunCallback, GoTo, Continue, Enter, TypeInv, TypeOK
<1>2. CASE Unpack(r)
  <2>1. pc[r] \in Working /\ pc[r] # "idle" /\ pc[r] \notin Phase
    BY <1>2 DEF Unpack, Working, Phase
  <2>2. log[r] # <<>>
    BY <2>1 DEF AgreementParts, PlaceInv
  <2>3. /\ Complete(r) /\ Last(r).phase \in {"preflight", "reservation"}
        /\ VotesAt(Round(r)) = {"ok"}
    BY <2>1, <2>2 DEF AgreementParts, PlaceInv
  <2>4. QED
    BY <1>2, <2>3 DEF Unpack, Tells, Class, OutcomeAt, Result
<1>3. CASE AfterStatus(r)
  <2>1. Complete(r) /\ pc[r] = "status" /\ pc[r] \in Phase /\ Return(r, CallbackOutcome(r))
    BY <1>3 DEF AfterStatus, Phase
  <2>2. Last(r).phase = "status" /\ Votes(r) = VotesAt(Round(r))
    BY <2>1, AtPhase
  <2>3. CallbackOutcome(r) = StatusResult(Last(r).val, VotesAt(Round(r)))
    BY <2>2 DEF CallbackOutcome, StatusResult, Own, Last
  <2>4. Last(r).val \in VotesAt(Round(r))
    BY DEF Last, VotesAt
  <2>5. CallbackOutcome(r) \in Result
    BY VoteType DEF TypeInv
  <2>6. QED
    BY <2>1, <2>2, <2>3, <2>4, <2>5, StatusClass DEF Tells
<1>4. QED
  BY <1>1, <1>2, <1>3

LEMMA StepTells ==
  ASSUME TypeInv, AgreementParts, NEW r \in Rank, Step(r), pc'[r] = "idle"
  PROVE  \E res \in Result : Tells(r, res)
BY AgreementTells, ExchangeTells DEF Step

(* A step of r that does not end its call leaves its result alone. *)
LEMMA StepKeepsResult ==
  ASSUME TypeInv, NEW r \in Rank, Step(r), pc'[r] # "idle"
  PROVE  result' = result
<1>1. ControlStep(r)
  BY StepKind DEF TypeInv
<1>2. QED
  BY <1>1 DEF ControlStep, Continue, Return, GoTo, TypeInv, TypeOK

(* No step of r is seen by another rank's caller. *)
LEMMA StepOthers ==
  ASSUME TypeInv, NEW r \in Rank, Step(r), NEW q \in Rank, q # r
  PROVE  pc'[q] = pc[q] /\ result'[q] = result[q] /\ call'[q] = call[q]
<1>1. ControlStep(r) /\ UNCHANGED call
  BY StepKind DEF TypeInv
<1>2. QED
  BY <1>1 DEF ControlStep, Continue, Enter, Return, GoTo, TypeInv, TypeOK

LEMMA ResultNext ==
  ASSUME TypeInv, TypeInv', AgreementParts, AgreementParts',
         \A r \in Rank : ResultInv(r), [Next]_vars
  PROVE  \A r \in Rank : ResultInv(r)'
<1>0. LogGrows /\ TypeOK /\ TypeOK'
  BY LogOnlyGrows DEF TypeInv
<1>1. ASSUME NEW q \in Rank, Ended(q)' = Ended(q), result'[q] = result[q]
      PROVE  ResultInv(q)'
  BY <1>0, <1>1, ResultStays
<1>2. ASSUME NEW r \in Rank, NEW o \in Operation, NEW l \in Layout, Start(r, o, l),
             NEW q \in Rank
      PROVE  ResultInv(q)'
  <2>1. Ended(q)' = Ended(q)
    BY <1>2 DEF Start, Enter, Ended, TypeInv, TypeOK
  <2>2. result'[q] = result[q]
    BY <1>2 DEF Start
  <2>3. QED
    BY <1>1, <2>1, <2>2
<1>3. ASSUME NEW r \in Rank, Step(r), NEW q \in Rank
      PROVE  ResultInv(q)'
  <2>0. pc[r] # "idle" /\ call' = call
    BY <1>3, StepKind DEF TypeInv
  <2>1. CASE q # r
    <3>1. Ended(q)' = Ended(q) /\ result'[q] = result[q]
      BY <1>3, <2>1, StepOthers DEF Ended
    <3>2. QED
      BY <1>1, <3>1
  <2>2. CASE q = r /\ pc'[r] # "idle"
    <3>1. Ended(q)' = Ended(q) /\ result'[q] = result[q]
      BY <1>3, <2>0, <2>2, StepKeepsResult DEF Ended
    <3>2. QED
      BY <1>1, <3>1
  <2>3. CASE q = r /\ pc'[r] = "idle"
    <3>1. PICK res \in Result : Tells(r, res)
      BY <1>3, <2>3, StepTells
    <3> DEFINE n == Round(r)
    <3>2. /\ log' = log /\ result'[r] = res
      BY <3>1 DEF Tells, Return, TypeInv, TypeOK
    <3>3. log[r] # <<>> /\ Last(r).call = call[r]
      BY <2>0 DEF AgreementParts, PlaceInv
    <3>4. /\ n \in 1..Len(log[r]) /\ \A p \in Rank : n <= Len(log[p])
          /\ VotesAt(n)' = VotesAt(n)
      <4>1. n \in Nat /\ n >= 1 /\ \A p \in Rank : Len(log[p]) \in Nat
        BY <1>0, <3>3, LogLength DEF Round
      <4>2. \A p \in Rank : n <= Len(log[p])
        BY <3>1, <4>1 DEF Tells, Complete, Round
      <4>3. QED
        BY <3>2, <4>1, <4>2 DEF VotesAt, Round
    <3>5. Ended(r)' = call[r] /\ call[r] # 0
      BY <2>0, <2>3 DEF Ended, TypeInv, CallInv
    <3>6. ~ Continues(Last(r), VotesAt(n))'
      <4>1. log'[r] # <<>>
        BY <3>2, <3>3
      <4>2. ~ Continues(Last(r)', VotesAt(Round(r))')
        BY <2>3, <4>1 DEF AgreementParts, PlaceInv, Continues
      <4>3. Round(r)' = n /\ Last(r)' = Last(r)
        BY <3>2 DEF Round, Last
      <4>4. VotesAt(Round(r))' = VotesAt(n)'
        BY <3>2 DEF VotesAt, Round
      <4>5. QED
        BY <4>2, <4>3, <4>4 DEF Continues
    <3>7. EndsAt(r, n)'
      BY <3>2, <3>3, <3>4, <3>5, <3>6 DEF EndsAt, Last, Round, Continues
    <3>8. Outcome(r)' = Class(res)
      BY <3>2 DEF Outcome, Class
    <3>9. OutcomeAt(log[r][n].phase, VotesAt(n))' = OutcomeAt(Last(r).phase, VotesAt(n))
          /\ StatusResult(log[r][n].val, VotesAt(n))' = StatusResult(Last(r).val, VotesAt(n))
      BY <3>2, <3>4 DEF OutcomeAt, StatusResult, Last, Round
    <3>10. n' = n /\ log'[r][n] = Last(r) /\ n \in 1..Len(log'[r])
      BY <3>2, <3>4 DEF Round, Last
    <3>11. \E m \in 1..Len(log'[r]) :
             /\ EndsAt(r, m)'
             /\ Outcome(r)' = OutcomeAt(log[r][m].phase, VotesAt(m))'
             /\ log'[r][m].phase = "status" =>
                  result'[r] = StatusResult(log[r][m].val, VotesAt(m))'
      BY <3>1, <3>2, <3>7, <3>8, <3>9, <3>10 DEF Tells
    <3>12. QED
      BY <2>3, <3>5, <3>11 DEF ResultInv
  <2>4. QED
    BY <2>1, <2>2, <2>3
<1>4. ASSUME Unnoticed, NEW q \in Rank PROVE ResultInv(q)'
  BY <1>1, <1>4 DEF Unnoticed, Ended
<1>5. QED
  BY <1>2, <1>3, <1>4, NextKinds

LEMMA OutcomeInit == Init => OutcomeInv
  BY DEF Init, OutcomeInv, CallsInOrder, StatusWord, ResultInv, Ended

LEMMA OutcomeNext ==
  ASSUME TypeInv, TypeInv', AgreementParts, AgreementParts', OutcomeInv, [Next]_vars
  PROVE  OutcomeInv'
<1>1. CallsInOrder' /\ StatusWord'
  BY OrderNext DEF OutcomeInv, TypeInv
<1>2. \A r \in Rank : ResultInv(r)'
  BY ResultNext DEF OutcomeInv
<1>3. QED
  BY <1>1, <1>2 DEF OutcomeInv

(* The end of every call is one reduction, with the result that all ranks  *)
(* take from its votes.                                                    *)
THEOREM OutcomeCorrect == Spec => []OutcomeInv
  BY OutcomeInit, OutcomeNext, TypeInvariance, AgreementInvariance, PTL DEF Spec

----------------------------------------------------------------------------
(* All ranks leave a call with the same outcome.                           *)

(* Two ranks that have returned from the same call have left it at the     *)
(* same reduction.                                                         *)
LEMMA SameEnd ==
  ASSUME TypeOK, LogInv, CallsInOrder, NEW p \in Rank, NEW q \in Rank, NEW m, NEW n,
         EndsAt(p, m), EndsAt(q, n), Ended(p) = Ended(q)
  PROVE  ~ m < n
<1> SUFFICES ASSUME m < n PROVE FALSE
  OBVIOUS
<1>1. /\ m \in Nat /\ n \in Nat /\ m >= 1 /\ m + 1 \in 1..Len(log[q]) /\ m \in 1..Len(log[p])
      /\ m <= Len(log[q]) /\ m \in 1..(Len(log[q]) - 1) /\ n \in 1..Len(log[q])
      /\ Len(log[q]) \in Nat
  BY LogLength DEF EndsAt
<1>2. /\ log[p][m] \in Entry /\ log[q][m] \in Entry /\ log[q][m + 1] \in Entry
      /\ log[q][n] \in Entry
  BY <1>1, LogLength
<1>3. /\ log[p][m].phase = log[q][m].phase /\ log[p][m].call = log[q][m].call
      /\ log[p][m].phase # "header" => log[p][m].op = log[q][m].op
  BY <1>1 DEF LogInv, CollectivesMatch
<1>4. /\ log[p][m].phase = "header" => log[p][m].val = log[p][m].op
      /\ log[q][m].phase = "header" => log[q][m].val = log[q][m].op
  BY <1>1 DEF LogInv, HeaderWord
<1>5. log[p][m].val \in VotesAt(m) /\ log[q][m].val \in VotesAt(m)
  BY DEF VotesAt
<1>6. ~ Continues(log[q][m], VotesAt(m))
  <2>1. ~ Continues(log[p][m], VotesAt(m))
    BY DEF EndsAt
  <2>2. CASE log[p][m].phase = "header"
    BY <1>3, <1>4, <1>5, <2>1, <2>2 DEF Continues
  <2>3. CASE log[p][m].phase = "descriptor"
    BY <1>3, <1>5, <2>1, <2>3 DEF Continues
  <2>4. CASE log[p][m].phase \notin {"header", "descriptor"}
    BY <1>3, <2>1, <2>4 DEF Continues
  <2>5. QED
    BY <2>2, <2>3, <2>4
<1>7. log[q][m + 1].call = log[q][m].call + 1
  BY <1>1, <1>6 DEF LogInv, Chain, Follows
<1>8. log[q][m + 1].call <= log[q][n].call
  BY <1>1 DEF CallsInOrder
<1>9. log[q][n].call = Ended(q) /\ log[q][m].call = Ended(q)
  BY <1>3 DEF EndsAt
<1>10. log[q][m].call \in Nat /\ log[q][m + 1].call \in Nat
  BY <1>2 DEF Entry
<1>11. QED
  BY <1>7, <1>8, <1>9, <1>10

LEMMA OneEnd ==
  ASSUME TypeOK, LogInv, CallsInOrder, NEW p \in Rank, NEW q \in Rank, NEW m, NEW n,
         EndsAt(p, m), EndsAt(q, n), Ended(p) = Ended(q)
  PROVE  m = n /\ log[p][m].phase = log[q][m].phase
<1>1. ~ m < n /\ ~ n < m
  BY SameEnd
<1>2. m \in Nat /\ n \in Nat /\ m \in 1..Len(log[p]) /\ m \in 1..Len(log[p])
  BY LogLength DEF EndsAt
<1>3. m = n
  BY <1>1, <1>2
<1>4. QED
  BY <1>2, <1>3 DEF EndsAt, LogInv, CollectivesMatch

LEMMA OutcomesAgreeInv ==
  ASSUME TypeOK, LogInv, OutcomeInv
  PROVE  OutcomesAgree
<1> SUFFICES ASSUME NEW p \in Rank, NEW q \in Rank, Ended(p) = Ended(q)
             PROVE  Outcome(p) = Outcome(q)
  BY DEF OutcomesAgree
<1>1. CASE Ended(p) = 0
  BY <1>1 DEF OutcomeInv, ResultInv, Outcome
<1>2. CASE Ended(p) # 0
  <2>1. PICK m : EndsAt(p, m) /\ Outcome(p) = OutcomeAt(log[p][m].phase, VotesAt(m))
    BY <1>2 DEF OutcomeInv, ResultInv
  <2>2. PICK n : EndsAt(q, n) /\ Outcome(q) = OutcomeAt(log[q][n].phase, VotesAt(n))
    BY <1>2 DEF OutcomeInv, ResultInv
  <2>3. m = n /\ log[p][m].phase = log[q][m].phase
    BY <2>1, <2>2, OneEnd DEF OutcomeInv
  <2>4. QED
    BY <2>1, <2>2, <2>3
<1>3. QED
  BY <1>1, <1>2

(* Whichever rank fails wherever, two ranks that have returned from the    *)
(* same call agree whether it was carried out, refused, or failed in a     *)
(* callback, also when they have entered the next call.                    *)
THEOREM OutcomesAlwaysAgree == Spec => []OutcomesAgree
  BY OutcomesAgreeInv, OutcomeCorrect, TypeInvariance, AgreementInvariance, PTL
     DEF TypeInv, AgreementParts

----------------------------------------------------------------------------
(* A failure that is reported has happened.                                *)

LEMMA FailureAttributedInv ==
  ASSUME TypeOK, LogInv, OutcomeInv
  PROVE  FailureAttributed
<1> SUFFICES ASSUME \A p, q \in Rank : Ended(p) = Ended(q), NEW r \in Rank,
                    result[r] \in {"PeerPanicked", "PeerCallbackFailed"}
             PROVE  /\ result[r] = "PeerPanicked" => \E q \in Rank : result[q] = "Panicked"
                    /\ result[r] = "PeerCallbackFailed" =>
                         /\ \E q \in Rank : result[q] = "CallbackError"
                         /\ \A q \in Rank : result[q] # "Panicked"
  BY DEF FailureAttributed
<1>1. Ended(r) # 0
  BY DEF OutcomeInv, ResultInv
<1>2. PICK n \in 1..Len(log[r]) :
        /\ EndsAt(r, n)
        /\ Outcome(r) = OutcomeAt(log[r][n].phase, VotesAt(n))
        /\ log[r][n].phase = "status" => result[r] = StatusResult(log[r][n].val, VotesAt(n))
  BY <1>1 DEF OutcomeInv, ResultInv
<1>3. log[r][n].phase = "status"
  BY <1>2 DEF Outcome, CallbackFailed, OutcomeAt
<1>4. ASSUME NEW q \in Rank
      PROVE  /\ result[q] = StatusResult(log[q][n].val, VotesAt(n))
             /\ log[q][n].val \in Verdict
  <2>1. PICK m \in 1..Len(log[q]) :
          /\ EndsAt(q, m)
          /\ log[q][m].phase = "status" => result[q] = StatusResult(log[q][m].val, VotesAt(m))
    BY <1>1 DEF OutcomeInv, ResultInv
  <2>2. n = m /\ log[r][n].phase = log[q][n].phase
    BY <1>2, <2>1, OneEnd DEF OutcomeInv
  <2>3. log[q][n].val \in Verdict
    BY <1>3, <2>1, <2>2 DEF OutcomeInv, StatusWord, Verdict
  <2>4. QED
    BY <1>3, <2>1, <2>2, <2>3
<1> DEFINE V == VotesAt(n)
<1>5. /\ V \subseteq Verdict
      /\ \A v \in V : \E q \in Rank : log[q][n].val = v
      /\ \A q \in Rank : log[q][n].val \in V
  BY <1>4 DEF VotesAt
<1> HIDE DEF V
<1>6. ASSUME result[r] = "PeerPanicked" PROVE \E q \in Rank : result[q] = "Panicked"
  <2>1. result[r] = StatusResult(log[r][n].val, V)
    BY <1>4 DEF V
  <2>2. "panic" \in V
    BY <1>6, <2>1 DEF StatusResult
  <2>3. PICK q \in Rank : log[q][n].val = "panic"
    BY <1>5, <2>2
  <2>4. QED
    BY <1>4, <2>3 DEF StatusResult
<1>7. ASSUME result[r] = "PeerCallbackFailed"
      PROVE  /\ \E q \in Rank : result[q] = "CallbackError"
             /\ \A q \in Rank : result[q] # "Panicked"
  <2>1. result[r] = StatusResult(log[r][n].val, V)
    BY <1>4 DEF V
  <2>2. "panic" \notin V /\ V # {"ok"}
    BY <1>7, <2>1, <1>5 DEF StatusResult
  <2>3. "error" \in V
    <3>1. PICK v \in V : v # "ok"
      BY <1>5, <2>2
    <3>2. QED
      BY <1>5, <2>2, <3>1 DEF Verdict
  <2>4. PICK q \in Rank : log[q][n].val = "error"
    BY <1>5, <2>3
  <2>5. result[q] = "CallbackError"
    BY <1>4, <2>2, <2>4 DEF StatusResult, V
  <2>6. ASSUME NEW s \in Rank PROVE result[s] # "Panicked"
    <3>1. log[s][n].val # "panic"
      BY <1>5, <2>2
    <3>2. result[s] = StatusResult(log[s][n].val, V)
      BY <1>4 DEF V
    <3>3. QED
      BY <3>1, <3>2 DEF StatusResult
  <2>7. QED
    BY <2>5, <2>6
<1>8. QED
  BY <1>6, <1>7

LEMMA OwnFailureInv ==
  ASSUME TypeOK, LogInv, OutcomeInv, NEW r \in Rank
  PROVE  OwnFailureReported(r)
<1> SUFFICES ASSUME NEW n \in 1..Len(log[r]), EndsAt(r, n), log[r][n].phase = "status"
             PROVE  /\ log[r][n].val = "panic" => result[r] = "Panicked"
                    /\ log[r][n].val = "error" =>
                         result[r] = IF "panic" \in VotesAt(n) THEN "PeerPanicked" ELSE "CallbackError"
                    /\ log[r][n].val = "ok" => result[r] \notin {"Panicked", "CallbackError"}
                    /\ result[r] # "ok" <=> \E v \in VotesAt(n) : v # "ok"
  BY DEF OwnFailureReported
<1> DEFINE V == VotesAt(n)
<1>1. result[r] = StatusResult(log[r][n].val, V)
  <2>1. Ended(r) # 0
    <3>1. log[r][n].call = Ended(r) /\ log[r][n] \in Entry
      BY LogLength DEF EndsAt
    <3> QED BY <3>1 DEF Entry
  <2>2. PICK m \in 1..Len(log[r]) :
          EndsAt(r, m) /\ (log[r][m].phase = "status" => result[r] = StatusResult(log[r][m].val, VotesAt(m)))
    BY <2>1 DEF OutcomeInv, ResultInv
  <2>3. n = m
    BY <2>2, OneEnd DEF OutcomeInv
  <2> QED BY <2>2, <2>3
<1>2. log[r][n].val \in {"ok", "error", "panic"}
  BY DEF OutcomeInv, StatusWord
<1>3. log[r][n].val \in V
  BY DEF VotesAt
<1> HIDE DEF V
<1>4. log[r][n].val = "ok" /\ V # {"ok"} => \E v \in V : v # "ok"
  BY <1>3
<1> QED BY <1>1, <1>2, <1>3, <1>4 DEF StatusResult, V

(* Whoever is told of a peer's panic or callback error finds, when all     *)
(* ranks are back, a rank that reports it, and no panic is passed off as a *)
(* callback error.  A rank whose own callback failed reports its own       *)
(* failure, except that a callback error gives way to a peer's panic, and  *)
(* no call fails at the agreement on callbacks unless some callback did.   *)
THEOREM FailuresAlwaysAttributed ==
  Spec => [](FailureAttributed /\ \A r \in Rank : OwnFailureReported(r))
<1>1. OutcomeInv /\ TypeInv /\ AgreementParts =>
        FailureAttributed /\ \A r \in Rank : OwnFailureReported(r)
  BY FailureAttributedInv, OwnFailureInv DEF TypeInv, AgreementParts
<1>2. QED
  BY <1>1, OutcomeCorrect, TypeInvariance, AgreementInvariance, PTL

----------------------------------------------------------------------------
(* The calls of all ranks together are one step of AtomicCall.             *)

(* A rank that has seen the last reduction of its call complete knows that *)
(* all ranks have made that call.                                          *)
LEMMA AllHaveCalled ==
  ASSUME TypeOK, AgreementParts, CallsInOrder, NEW r \in Rank, pc[r] # "idle", Complete(r),
         NEW q \in Rank
  PROVE  call[q] >= call[r]
<1> DEFINE n == Round(r)
<1>1. log[r] # <<>> /\ Last(r).call = call[r]
  BY DEF AgreementParts, PlaceInv
<1>2. n \in Nat /\ n >= 1 /\ n \in 1..Len(log[r]) /\ n <= Len(log[q]) /\ Len(log[q]) \in Nat
  BY <1>1, LogLength DEF Complete, Round
<1>3. log[q] # <<>> /\ n \in 1..Len(log[q]) /\ Len(log[q]) \in 1..Len(log[q])
  BY <1>2, LogLength
<1>4. log[q][n].call = call[r]
  BY <1>1, <1>2 DEF AgreementParts, LogInv, CollectivesMatch, Last, Round
<1>5. log[q][n].call <= log[q][Len(log[q])].call
  BY <1>2, <1>3 DEF CallsInOrder
<1>6. Last(q).call = call[q]
  BY <1>3 DEF AgreementParts, PlaceInv
<1>7. QED
  BY <1>4, <1>5, <1>6 DEF Last, Round, TypeOK

ended == [r \in Rank |-> Ended(r)]
outcomes == [r \in Rank |-> Outcome(r)]

LEMMA AtomicInvoke ==
  ASSUME TypeInv, NEW r \in Rank, NEW o \in Operation, NEW l \in Layout, Start(r, o, l)
  PROVE  Atomic!Invoke(r)
<1>1. /\ pc[r] = "idle" /\ call[r] < MaxCalls /\ call' = [call EXCEPT ![r] = @ + 1]
      /\ pc' = [pc EXCEPT ![r] = "header"] /\ result' = result
  BY DEF Start, Enter
<1>2. ended[r] = call[r]
  BY <1>1 DEF ended, Ended
<1>3. \A q \in Rank : Ended(q)' = Ended(q)
  BY <1>1 DEF Ended, TypeInv, TypeOK
<1>4. \A q \in Rank : Outcome(q)' = Outcome(q)
  BY <1>1 DEF Outcome
<1>5. ended' = ended /\ outcomes' = outcomes
  BY <1>3, <1>4 DEF ended, outcomes
<1>6. QED
  BY <1>1, <1>2, <1>5 DEF Atomic!Invoke, ended, outcomes

LEMMA AtomicReturn ==
  ASSUME TypeInv, TypeInv', AgreementParts, AgreementParts', OutcomeInv, OutcomeInv',
         NEW r \in Rank, Step(r), pc'[r] = "idle"
  PROVE  \E c \in Atomic!Outcomes : Atomic!Return(r, c)
<1>1. pc[r] # "idle" /\ call' = call /\ call[r] \in 1..MaxCalls
  BY StepKind DEF TypeInv, TypeOK, CallInv
<1>2. PICK res \in Result : Tells(r, res)
  BY StepTells
<1>3. result' = [result EXCEPT ![r] = res] /\ pc' = [pc EXCEPT ![r] = "idle"] /\ Complete(r)
  BY <1>2 DEF Tells, Return
<1>4. /\ Ended(r)' = call[r] /\ Ended(r) = call[r] - 1
      /\ \A q \in Rank : q # r => Ended(q)' = Ended(q) /\ Outcome(q)' = Outcome(q)
  BY <1>1, <1>3 DEF Ended, Outcome, TypeInv, TypeOK
<1> DEFINE c == Outcome(r)'
<1>5. c \in Atomic!Outcomes
  BY <1>2, <1>3 DEF Outcome, Tells, Atomic!Outcomes, TypeInv, TypeOK
<1>6. OutcomesAgree'
  <2>1. TypeOK' /\ LogInv' /\ OutcomeInv'
    BY DEF TypeInv, AgreementParts
  <2>2. QED
    BY <2>1, OutcomesAgreeInv, PTL
<1>7. \A q \in Rank : call[q] >= call[r]
  BY <1>1, <1>3, AllHaveCalled DEF TypeInv, OutcomeInv
<1>8. \A q \in Rank : Ended(q) = call[r] => Outcome(q) = c
  <2> SUFFICES ASSUME NEW q \in Rank, Ended(q) = call[r] PROVE Outcome(q) = c
    OBVIOUS
  <2>1. q # r
    BY <1>1, <1>4
  <2>2. Ended(q)' = Ended(r)' /\ Outcome(q)' = Outcome(q)
    BY <1>4, <2>1
  <2>3. QED
    BY <1>6, <2>2 DEF OutcomesAgree
<1>9. ended' = [ended EXCEPT ![r] = call[r]] /\ outcomes' = [outcomes EXCEPT ![r] = c]
  BY <1>4 DEF ended, outcomes
<1> HIDE DEF c
<1>10. Atomic!Return(r, c)
  BY <1>1, <1>4, <1>7, <1>8, <1>9 DEF Atomic!Return, ended, outcomes
<1>11. QED
  BY <1>5, <1>10

LEMMA AtomicInit == Init => Atomic!Init
<1> SUFFICES ASSUME Init PROVE Atomic!Init
  OBVIOUS
<1>1. \A r \in Rank : Ended(r) = 0 /\ Outcome(r) = "none"
  BY DEF Init, Ended, Outcome
<1>2. QED
  BY <1>1 DEF Init, Atomic!Init

LEMMA AtomicNext ==
  ASSUME TypeInv, TypeInv', AgreementParts, AgreementParts', OutcomeInv, OutcomeInv',
         [Next]_vars
  PROVE  [Atomic!Next]_(Atomic!vars)
<1>1. ASSUME call' = call, \A q \in Rank : Ended(q)' = Ended(q) /\ result'[q] = result[q]
      PROVE  UNCHANGED Atomic!vars
  <2>1. ended' = ended /\ outcomes' = outcomes
    BY <1>1 DEF ended, outcomes, Outcome
  <2>2. QED
    BY <1>1, <2>1 DEF Atomic!vars, ended, outcomes
<1>2. ASSUME NEW r \in Rank, NEW o \in Operation, NEW l \in Layout, Start(r, o, l)
      PROVE  Atomic!Next
  BY <1>2, AtomicInvoke DEF Atomic!Next
<1>3. ASSUME NEW r \in Rank, Step(r), pc'[r] = "idle"
      PROVE  Atomic!Next
  BY <1>3, AtomicReturn DEF Atomic!Next
<1>4. ASSUME NEW r \in Rank, Step(r), pc'[r] # "idle"
      PROVE  UNCHANGED Atomic!vars
  <2>1. pc[r] # "idle" /\ call' = call /\ result' = result
    BY <1>4, StepKind, StepKeepsResult DEF TypeInv
  <2>2. \A q \in Rank : Ended(q)' = Ended(q)
    BY <1>4, <2>1, StepOthers DEF Ended
  <2>3. QED
    BY <1>1, <2>1, <2>2
<1>5. ASSUME Unnoticed PROVE UNCHANGED Atomic!vars
  BY <1>1, <1>5 DEF Unnoticed, Ended
<1>6. QED
  BY <1>2, <1>3, <1>4, <1>5, NextKinds

(* Seen from outside, every call of Transpose is one step that all ranks   *)
(* take together: none leaves it before all have made it, and all get the  *)
(* same outcome.                                                           *)
THEOREM TransposeImplementsAtomicCall == Spec => ImplementsAtomicCall
<1>1. TypeInv /\ TypeInv' /\ AgreementParts /\ AgreementParts' /\ OutcomeInv /\ OutcomeInv'
        /\ [Next]_vars => [Atomic!Next]_(Atomic!vars)
  BY AtomicNext
<1>2. QED
  BY <1>1, AtomicInit, TypeInvariance, AgreementInvariance, OutcomeCorrect, PTL
     DEF Spec, ImplementsAtomicCall, Atomic!Spec

----------------------------------------------------------------------------
(* Exchange: a call that returns leaves no request and no message behind,  *)
(* one that returns Ok has delivered what the peers have written for it,   *)
(* and the state of the array follows its outcome.                         *)

(* Everything of rank q that OwnInv(q) depends on. *)
Untouched(q) ==
  /\ pc'[q] = pc[q] /\ call'[q] = call[q] /\ op'[q] = op[q] /\ plan'[q] = plan[q]
  /\ log'[q] = log[q] /\ verdict'[q] = verdict[q]
  /\ state'[q] = state[q] /\ storage'[q] = storage[q] /\ destination'[q] = destination[q]
  /\ sendBuffer'[q] = sendBuffer[q] /\ receiveBuffer'[q] = receiveBuffer[q]
  /\ sendRequests'[q] = sendRequests[q] /\ receiveRequests'[q] = receiveRequests[q]

LEMMA PeersSame ==
  ASSUME NEW q \in Rank, op'[q] = op[q], plan'[q] = plan[q]
  PROVE  Outgoing(q)' = Outgoing(q) /\ Incoming(q)' = Incoming(q)
BY DEF Outgoing, Incoming, ByMessage

LEMMA OwnFrame ==
  ASSUME NEW q \in Rank, OwnInv(q), Untouched(q)
  PROVE  OwnInv(q)'
<1>0. Outgoing(q)' = Outgoing(q) /\ Incoming(q)' = Incoming(q)
  BY PeersSame DEF Untouched
<1>1. PlanWord(q)' /\ OperationPlace(q)' /\ PoisonInv(q)'
  BY DEF Untouched, OwnInv, PlanWord, OperationPlace, PoisonInv
<1>2. RequestPlace(q)'
  BY <1>0 DEF Untouched, OwnInv, RequestPlace
<1>3. Own(q)' = Own(q) /\ Target(q)' = Target(q) /\ BeforeUnpack(q)' = BeforeUnpack(q)
  BY DEF Untouched, Own, Round, Target, BeforeUnpack
<1>4. ArrayInv(q)'
  BY <1>3 DEF Untouched, OwnInv, ArrayInv, Fresh
<1>5. DataInv(q)'
  BY <1>0, <1>3 DEF Untouched, OwnInv, DataInv
<1>6. QED
  BY <1>1, <1>2, <1>4, <1>5 DEF OwnInv

(* A step of a rank touches no other rank. *)
LEMMA StartUntouched ==
  ASSUME TypeOK, NEW r \in Rank, NEW o \in Operation, NEW l \in Layout, Start(r, o, l),
         NEW q \in Rank, q # r
  PROVE  Untouched(q)
BY DEF Start, Enter, Untouched, TypeOK, network

LEMMA StepUntouched ==
  ASSUME TypeOK, NEW r \in Rank, Step(r), NEW q \in Rank, q # r
  PROVE  Untouched(q)
<1>1. ControlStep(r) /\ UNCHANGED <<call, op, plan>>
  BY StepKind
<1>2. pc'[q] = pc[q] /\ log'[q] = log[q]
  BY <1>1 DEF ControlStep, Continue, Enter, Return, GoTo, TypeOK
<1>3. CASE \/ AfterHeader(r) \/ AfterReady(r) \/ AfterDescriptor(r)
           \/ AfterLayout(r) \/ AfterPeers(r) \/ AfterAgreement(r)
  BY <1>1, <1>2, <1>3, AgreementStep DEF OnlyControl, array, network, Untouched
<1>4. CASE \/ PostReceives(r) \/ PostSends(r) \/ EnterAllToAllv(r) \/ LeaveAllToAllv(r)
           \/ WaitReceives(r) \/ WaitSends(r)
  <2>1. /\ UNCHANGED <<verdict, array, sendBuffer, receiveBuffer>>
        /\ sendRequests'[q] = sendRequests[q] /\ receiveRequests'[q] = receiveRequests[q]
    BY <1>4 DEF PostReceives, PostSends, EnterAllToAllv, LeaveAllToAllv, WaitReceives, WaitSends,
                OnlyControl, network, TypeOK
  <2>2. QED
    BY <1>1, <1>2, <2>1 DEF Untouched, array
<1>5. CASE Pack(r) \/ AfterStatus(r)
  BY <1>1, <1>2, <1>5 DEF Pack, AfterStatus, Untouched, TypeOK, network
<1>6. CASE Unpack(r) \/ RunCallback(r)
  <2>1. storage'[q] = storage[q] /\ destination'[q] = destination[q]
    BY <1>6 DEF Unpack, RunCallback, UnpackInto, TypeOK
  <2>2. state'[q] = state[q] /\ UNCHANGED network /\ verdict'[q] = verdict[q]
    BY <1>6 DEF Unpack, RunCallback, TypeOK
  <2>3. QED
    BY <1>1, <1>2, <2>1, <2>2 DEF Untouched, network
<1>7. QED
  BY <1>3, <1>4, <1>5, <1>6 DEF Step

----------------------------------------------------------------------------
(* The agreements of a rank.                                               *)

LEMMA NoRequests ==
  ASSUME NEW r \in Rank, RequestPlace(r),
         pc[r] \in Phase \union {"idle", "pack", "postReceives", "alltoallv", "unpack"}
  PROVE  sendRequests[r] = {} /\ receiveRequests[r] = {}
BY DEF RequestPlace, Phase

LEMMA OwnStart ==
  ASSUME TypeInv, AgreementParts, CallsInOrder, NEW r \in Rank, OwnInv(r),
         NEW o \in Operation, NEW l \in Layout, Start(r, o, l)
  PROVE  OwnInv(r)'
<1> DEFINE k == call[r] + 1
           f == [call |-> k, phase |-> "header", op |-> o, val |-> o]
<1>1. /\ pc[r] = "idle" /\ pc'[r] = "header" /\ call'[r] = k /\ op'[r] = o
      /\ log'[r] = Append(log[r], f) /\ UNCHANGED <<state, sendRequests, receiveRequests>>
  BY DEF Start, Enter, TypeInv, TypeOK, network
<1>2. PlanWord(r)'
  <2>1. ASSUME NEW n \in 1..Len(log[r]) PROVE log[r][n].call # k
    <3>1. Len(log[r]) \in 1..Len(log[r]) /\ n <= Len(log[r]) /\ log[r] # <<>>
      BY LogLength DEF TypeInv
    <3>2. log[r][n].call <= Last(r).call /\ Last(r).call = call[r]
      BY <3>1 DEF CallsInOrder, AgreementParts, PlaceInv, Last, Round
    <3>3. log[r][n] \in Entry /\ call[r] \in Nat
      BY LogLength DEF TypeInv, TypeOK
    <3>4. log[r][n].call \in Nat
      BY <3>3 DEF Entry
    <3>5. QED
      BY <3>2, <3>3, <3>4
  <2>2. log[r] \in Seq(Entry)
    BY DEF TypeInv, TypeOK
  <2>3. ASSUME NEW n \in 1..Len(log'[r]), log'[r][n].phase = "descriptor", log'[r][n].call = call'[r]
        PROVE  FALSE
    <3>1. Len(log'[r]) = Len(log[r]) + 1 /\ n \in 1..(Len(log[r]) + 1) /\ Len(log[r]) \in Nat
      BY <1>1, <2>2
    <3>2. CASE n = Len(log[r]) + 1
      BY <1>1, <2>2, <2>3, <3>2
    <3>3. CASE n \in 1..Len(log[r])
      BY <1>1, <2>1, <2>2, <2>3, <3>3
    <3>4. QED
      BY <3>1, <3>2, <3>3
  <2>4. QED
    BY <2>3 DEF PlanWord
<1>3. OperationPlace(r)' /\ PoisonInv(r)'
  BY <1>1 DEF OperationPlace, PoisonInv, Working
<1>4. RequestPlace(r)'
  BY <1>1, NoRequests DEF OwnInv, RequestPlace
<1>5. ArrayInv(r)'
  <2>1. o \in InPlace /\ state[r] # "Poisoned" => storage'[r] = Fresh(k)
    BY DEF Start, TypeInv, TypeOK
  <2>2. o \in InPlace /\ state[r] # "Poisoned" => storage'[r] = Fresh(call[r])'
    BY <1>1, <2>1 DEF Fresh, Written
  <2>3. QED
    BY <1>1, <2>2 DEF ArrayInv
<1>6. DataInv(r)'
  BY <1>1 DEF DataInv, BeforeUnpack, Working
<1>7. QED
  BY <1>2, <1>3, <1>4, <1>5, <1>6 DEF OwnInv

LEMMA ContinueLog ==
  ASSUME TypeInv, NEW r \in Rank, pc[r] # "idle", OwnInv(r), NEW phase \in Phase, NEW v \in Vote,
         Continue(r, phase, v), UNCHANGED <<call, op, plan>>,
         phase = "descriptor" => v = plan[r]
  PROVE  pc'[r] = phase /\ Own(r)' = v /\ PlanWord(r)'
<1> DEFINE f == [call |-> call[r], phase |-> phase, op |-> op[r], val |-> v]
           m == Len(log[r])
<1>1. pc'[r] = phase /\ log'[r] = Append(log[r], f) /\ log[r] \in Seq(Entry)
  BY DEF Continue, Enter, TypeInv, TypeOK
<1>2. /\ m \in Nat /\ Len(log'[r]) = m + 1 /\ log'[r][m + 1] = f
      /\ \A n \in 1..m : log'[r][n] = log[r][n]
  BY <1>1
<1>3. Own(r)' = v
  BY <1>2 DEF Own, Round
<1>4. ASSUME NEW n \in 1..Len(log'[r]), log'[r][n].phase = "descriptor", log'[r][n].call = call'[r]
      PROVE  log'[r][n].val = plan'[r]
  <2>1. CASE n = m + 1
    BY <1>2, <1>4, <2>1
  <2>2. CASE n \in 1..m
    BY <1>2, <1>4, <2>2 DEF OwnInv, PlanWord
  <2>3. QED
    BY <1>2, <2>1, <2>2
<1>5. QED
  BY <1>1, <1>3, <1>4 DEF PlanWord

(* A rank enters an agreement of the preparation. *)
LEMMA OwnContinue ==
  ASSUME TypeInv, NEW r \in Rank, pc[r] \in Phase \ {"status"}, OwnInv(r),
         NEW phase \in Phase \ {"status"}, NEW v \in Vote,
         Continue(r, phase, v), OnlyControl,
         phase = "descriptor" => v = plan[r],
         phase \in {"layout", "peers"} => op[r] = "new",
         phase = "preflight" => op[r] \in AllToAllv,
         phase = "reservation" => op[r] \notin AllToAllv \union {"new"},
         phase \in {"preflight", "reservation"} /\ op[r] \in InPlace /\ v = "ok" =>
           state[r] = plan[r]
  PROVE  OwnInv(r)'
<1>1. /\ UNCHANGED <<call, op, plan, verdict, state, storage, sendRequests, receiveRequests>>
      /\ pc[r] # "idle"
  BY DEF OnlyControl, array, network, Phase
<1>2. pc'[r] = phase /\ Own(r)' = v /\ PlanWord(r)'
  BY <1>1, ContinueLog
<1>3. OperationPlace(r)' /\ PoisonInv(r)'
  BY <1>1, <1>2 DEF OperationPlace, PoisonInv, Phase, Working
<1>4. RequestPlace(r)'
  BY <1>1, <1>2, NoRequests DEF OwnInv, RequestPlace
<1>5. ArrayInv(r)'
  <2>1. Fresh(call[r])' = Fresh(call[r])
    BY <1>1 DEF Fresh
  <2>2. QED
    BY <1>1, <1>2, <2>1 DEF OwnInv, ArrayInv, Phase
<1>6. DataInv(r)'
  BY <1>2 DEF DataInv, BeforeUnpack, Phase, Working
<1>7. QED
  BY <1>2, <1>3, <1>4, <1>5, <1>6 DEF OwnInv

(* A call ends. *)
LEMMA OwnReturn ==
  ASSUME TypeInv, NEW r \in Rank, pc[r] \in Phase \union {"unpack"}, OwnInv(r),
         NEW res, Return(r, res),
         UNCHANGED <<call, op, plan, sendRequests, receiveRequests>>
  PROVE  OwnInv(r)'
<1>1. pc'[r] = "idle" /\ log' = log
  BY DEF Return, TypeInv, TypeOK
<1>2. PlanWord(r)'
  BY <1>1 DEF OwnInv, PlanWord
<1>3. OperationPlace(r)' /\ PoisonInv(r)' /\ ArrayInv(r)' /\ DataInv(r)'
  BY <1>1 DEF OperationPlace, PoisonInv, ArrayInv, DataInv, BeforeUnpack, Phase, Working
<1>4. RequestPlace(r)'
  BY NoRequests DEF OwnInv, RequestPlace
<1>5. QED
  BY <1>2, <1>3, <1>4 DEF OwnInv

LEMMA OwnAgree ==
  ASSUME TypeInv, AgreementParts, NEW r \in Rank, OwnInv(r),
         \/ AfterHeader(r) \/ AfterReady(r) \/ AfterDescriptor(r)
         \/ AfterLayout(r) \/ AfterPeers(r) \/ AfterAgreement(r)
  PROVE  OwnInv(r)'
<1>0. OnlyControl /\ pc[r] \in Phase \ {"status"} /\ pc[r] # "idle"
  BY AgreementStep DEF TypeInv, AfterHeader, AfterReady, AfterDescriptor, AfterLayout, AfterPeers,
                       AfterAgreement, Phase
<1>1. ASSUME NEW res, Return(r, res) PROVE OwnInv(r)'
  BY <1>0, <1>1, OwnReturn DEF OnlyControl, network
<1>2. ASSUME NEW phase \in {"ready", "peers", "layout"}, NEW f \in {"descriptor", "preflight"},
             NEW v \in Choices(f) \union PreflightVotes(r), Continue(r, phase, v),
             phase \in {"peers", "layout"} => op[r] = "new"
      PROVE  OwnInv(r)'
  <2>1. v \in Vote /\ phase \in Phase \ {"status"}
    BY VoteType DEF TypeInv, KnownFault, Phase
  <2>2. QED
    BY <1>0, <1>2, <2>1, OwnContinue
<1>3. CASE AfterHeader(r)
  <2>1. CASE \E v \in Choices("descriptor") : Continue(r, "ready", v)
    BY <1>2, <2>1
  <2>2. QED
    BY <1>1, <1>3, <2>1 DEF AfterHeader
<1>4. CASE AfterReady(r)
  <2>1. CASE Continue(r, "descriptor", plan[r])
    <3>1. plan[r] \in Vote /\ "descriptor" \in Phase \ {"status"}
      BY VoteType DEF TypeInv, Phase
    <3>2. QED
      BY <1>0, <2>1, <3>1, OwnContinue
  <2>2. QED
    BY <1>1, <1>4, <2>1 DEF AfterReady
<1>5. CASE AfterDescriptor(r)
  <2>1. CASE op[r] = "new" /\ \E v \in PreflightVotes(r) : Continue(r, "layout", v)
    BY <1>2, <2>1
  <2>2. ASSUME NEW v \in PreflightVotes(r) \union ReservationVotes(r), v = "ok", op[r] \in InPlace
        PROVE  state[r] = plan[r]
    <3>1. "ok" \notin {"preflight"}
      OBVIOUS
    <3>2. QED
      BY <2>2, <3>1 DEF PreflightVotes, ReservationVotes
  <2>3. CASE op[r] \in AllToAllv /\ \E v \in PreflightVotes(r) : Continue(r, "preflight", v)
    <3>1. PICK v \in PreflightVotes(r) : Continue(r, "preflight", v)
      BY <2>3
    <3>2. v \in Vote /\ "preflight" \in Phase \ {"status"}
      BY VoteType DEF TypeInv, Phase
    <3>3. QED
      BY <1>0, <2>2, <2>3, <3>1, <3>2, OwnContinue
  <2>4. CASE /\ op[r] \notin AllToAllv \union {"new"}
             /\ \E v \in ReservationVotes(r) : Continue(r, "reservation", v)
    <3>1. PICK v \in ReservationVotes(r) : Continue(r, "reservation", v)
      BY <2>4
    <3>2. v \in Vote /\ "reservation" \in Phase \ {"status"}
      BY VoteType DEF TypeInv, Phase
    <3>3. QED
      BY <1>0, <2>2, <2>4, <3>1, <3>2, OwnContinue
  <2>5. QED
    BY <1>1, <1>5, <2>1, <2>3, <2>4 DEF AfterDescriptor
<1>6. CASE AfterLayout(r)
  <2>1. op[r] = "new"
    BY <1>6 DEF AfterLayout, OwnInv, OperationPlace
  <2>2. CASE \E v \in Choices("preflight") : Continue(r, "peers", v)
    BY <1>2, <2>1, <2>2
  <2>3. QED
    BY <1>1, <1>6, <2>2 DEF AfterLayout
<1>7. CASE AfterPeers(r)
  BY <1>1, <1>7 DEF AfterPeers
<1>8. CASE AfterAgreement(r)
  <2>1. CASE Votes(r) = {"ok"} /\ GoTo(r, "pack")
    <3>1. /\ pc[r] \in {"preflight", "reservation"} /\ pc'[r] = "pack" /\ log' = log
          /\ UNCHANGED <<call, op, plan, state, storage, sendRequests, receiveRequests>>
      BY <1>0, <1>8, <2>1 DEF AfterAgreement, GoTo, OnlyControl, array, network, TypeInv, TypeOK
    <3>2. Own(r) = "ok"
      BY <2>1 DEF Votes, Own
    <3>3. PlanWord(r)' /\ OperationPlace(r)' /\ PoisonInv(r)' /\ DataInv(r)'
      BY <3>1 DEF OwnInv, PlanWord, OperationPlace, PoisonInv, DataInv, BeforeUnpack, Working,
                  AllToAllv
    <3>4. RequestPlace(r)'
      BY <1>0, <3>1, NoRequests DEF OwnInv, RequestPlace
    <3>5. ArrayInv(r)'
      <4>1. Fresh(call[r])' = Fresh(call[r])
        BY <3>1 DEF Fresh
      <4>2. QED
        BY <1>0, <3>1, <3>2, <4>1 DEF OwnInv, ArrayInv, Phase
    <3>6. QED
      BY <3>3, <3>4, <3>5 DEF OwnInv
  <2>2. QED
    BY <1>1, <1>8, <2>1 DEF AfterAgreement
<1>9. QED
  BY <1>3, <1>4, <1>5, <1>6, <1>7, <1>8

----------------------------------------------------------------------------
(* The exchange of a rank.                                                 *)

(* What a step within the exchange keeps of the rank's control state.      *)
LEMMA OwnGoTo ==
  ASSUME TypeInv, NEW r \in Rank, NEW place, pc[r] \in Working, PlanWord(r),
         GoTo(r, place), UNCHANGED <<call, op, plan>>
  PROVE  /\ pc'[r] = place /\ log' = log /\ PlanWord(r)'
         /\ op'[r] = op[r] /\ call'[r] = call[r] /\ plan'[r] = plan[r]
         /\ Outgoing(r)' = Outgoing(r) /\ Incoming(r)' = Incoming(r)
<1>1. pc'[r] = place /\ log' = log
  BY DEF GoTo, TypeInv, TypeOK
<1>2. QED
  BY <1>1, PeersSame DEF PlanWord

(* What is packed is what the caller wrote for this call. *)
LEMMA PackedBlock ==
  ASSUME TypeInv, NEW r \in Rank, ArrayInv(r), pc[r] = "pack", NEW q \in Rank
  PROVE  SourceBlock(r, q) = Written(call[r], FALSE)
<1>1. CASE op[r] \in InPlace
  <2>1. state[r] = plan[r] /\ plan[r] \in Layout /\ "Poisoned" \notin Layout
    BY <1>1 DEF ArrayInv, TypeInv, TypeOK, Layout
  <2>2. storage[r] = Fresh(call[r])
    BY <1>1, <2>1 DEF ArrayInv
  <2>3. QED
    BY <1>1, <2>2 DEF SourceBlock, Fresh
<1>2. CASE op[r] \notin InPlace
  BY <1>2 DEF SourceBlock
<1>3. QED
  BY <1>1, <1>2

LEMMA OwnPack ==
  ASSUME TypeInv, NEW r \in Rank, OwnInv(r), Pack(r)
  PROVE  OwnInv(r)'
<1> DEFINE place == IF op[r] \in AllToAllv THEN "alltoallv" ELSE "postReceives"
<1>1. /\ pc[r] = "pack" /\ pc[r] \in Working /\ PlanWord(r) /\ GoTo(r, place)
      /\ UNCHANGED <<call, op, plan, sendRequests, receiveRequests>>
  BY DEF Pack, OwnInv, Working
<1>2. /\ pc'[r] = place /\ PlanWord(r)' /\ op'[r] = op[r] /\ call'[r] = call[r]
      /\ Outgoing(r)' = Outgoing(r) /\ Incoming(r)' = Incoming(r)
  BY <1>1, OwnGoTo
<1>3. OperationPlace(r)'
  BY <1>1, <1>2 DEF OwnInv, OperationPlace
<1>4. RequestPlace(r)'
  BY <1>1, <1>2, NoRequests DEF OwnInv, RequestPlace
<1>5. ArrayInv(r)' /\ PoisonInv(r)'
  <2>1. op[r] = "in_place_callback" => state'[r] = "Poisoned"
    BY DEF Pack, TypeInv, TypeOK
  <2>2. QED
    BY <1>2, <2>1 DEF ArrayInv, PoisonInv, Phase
<1>6. DataInv(r)'
  <2>1. ASSUME NEW q \in Outgoing(r) PROVE sendBuffer'[r][q] = Written(call[r], FALSE)
    <3>1. q \in Rank
      BY DataType
    <3>2. sendBuffer'[r][q] = SourceBlock(r, q)
      BY <3>1 DEF Pack, TypeInv, TypeOK
    <3>3. QED
      BY <1>1, <3>1, <3>2, PackedBlock DEF OwnInv
  <2>2. QED
    BY <1>2, <2>1 DEF DataInv, BeforeUnpack
<1>7. QED
  BY <1>2, <1>3, <1>4, <1>5, <1>6 DEF OwnInv

LEMMA OwnPost ==
  ASSUME TypeInv, NEW r \in Rank, OwnInv(r),
         PostReceives(r) \/ PostSends(r) \/ EnterAllToAllv(r)
  PROVE  OwnInv(r)'
<1>1. PICK place \in {"postSends", "waitReceives", "waitAllToAllv"} :
        /\ GoTo(r, place) /\ pc[r] \in {"postReceives", "postSends", "alltoallv"}
        /\ place = "postSends" => PostReceives(r)
        /\ place = "waitReceives" => PostSends(r)
        /\ place = "waitAllToAllv" => EnterAllToAllv(r)
  BY DEF PostReceives, PostSends, EnterAllToAllv
<1>2. pc[r] \in Working /\ PlanWord(r) /\ UNCHANGED <<call, op, plan, state, sendBuffer, receiveBuffer>>
  BY <1>1 DEF PostReceives, PostSends, EnterAllToAllv, OwnInv, Working, array
<1>3. /\ pc'[r] = place /\ PlanWord(r)' /\ op'[r] = op[r] /\ call'[r] = call[r]
      /\ Outgoing(r)' = Outgoing(r) /\ Incoming(r)' = Incoming(r)
  BY <1>1, <1>2, OwnGoTo
<1>4. OperationPlace(r)'
  BY <1>1, <1>3 DEF PostReceives, PostSends, EnterAllToAllv, OwnInv, OperationPlace, AllToAllv
<1>5. RequestPlace(r)'
  <2>1. CASE PostReceives(r)
    BY <1>3, <2>1, NoRequests DEF PostReceives, GoTo, OwnInv, RequestPlace, TypeInv, TypeOK
  <2>2. CASE PostSends(r)
    BY <1>3, <2>2 DEF PostSends, GoTo, OwnInv, RequestPlace, TypeInv, TypeOK
  <2>3. CASE EnterAllToAllv(r)
    BY <1>3, <2>3 DEF EnterAllToAllv, GoTo, RequestPlace, TypeInv, TypeOK
  <2>4. QED
    BY <2>1, <2>2, <2>3
<1>6. ArrayInv(r)' /\ PoisonInv(r)'
  BY <1>2, <1>3, <1>1 DEF ArrayInv, OwnInv, PoisonInv, Phase, Working
<1>7. DataInv(r)'
  <2>1. \A p \in Outgoing(r) : sendBuffer[r][p] = Written(call[r], FALSE)
    BY <1>1, <1>2 DEF OwnInv, DataInv
  <2>2. \A p \in Incoming(r) \ receiveRequests'[r] : receiveBuffer[r][p] = Written(call[r], FALSE)
    <3>1. CASE PostReceives(r) \/ EnterAllToAllv(r)
      BY <3>1 DEF PostReceives, EnterAllToAllv, TypeInv, TypeOK
    <3>2. CASE PostSends(r)
      BY <3>2 DEF PostSends, OwnInv, DataInv, BeforeUnpack
    <3>3. QED
      BY <3>1, <3>2
  <2>3. pc'[r] \notin {"waitSends", "status"}
    BY <1>3
  <2>4. QED
    BY <1>2, <1>3, <2>1, <2>2, <2>3 DEF DataInv
<1>8. QED
  BY <1>3, <1>4, <1>5, <1>6, <1>7 DEF OwnInv

LEMMA OwnWait ==
  ASSUME TypeInv, NEW r \in Rank, OwnInv(r), OnlyControl, NEW place, GoTo(r, place),
         \/ pc[r] = "waitAllToAllv" /\ receiveRequests[r] = {} /\ sendRequests[r] = {}
            /\ place = "unpack"
         \/ pc[r] = "waitReceives" /\ receiveRequests[r] = {}
            /\ place = IF op[r] \in WithCallback THEN "callback" ELSE "waitSends"
         \/ pc[r] = "waitSends" /\ sendRequests[r] = {}
            /\ op[r] \notin WithCallback /\ place = "unpack"
  PROVE  OwnInv(r)'
<1>1. /\ pc[r] \in Working \ {"pack"} /\ PlanWord(r)
      /\ UNCHANGED <<call, op, plan, state, storage, destination, verdict,
                     sendBuffer, receiveBuffer, sendRequests, receiveRequests>>
  BY DEF OnlyControl, OwnInv, Working, array, network
<1>2. /\ pc'[r] = place /\ PlanWord(r)' /\ op'[r] = op[r] /\ call'[r] = call[r]
      /\ Outgoing(r)' = Outgoing(r) /\ Incoming(r)' = Incoming(r)
      /\ place \in {"unpack", "callback", "waitSends"}
  BY <1>1, OwnGoTo
<1>3. OperationPlace(r)'
  BY <1>2 DEF OwnInv, OperationPlace, AllToAllv, WithCallback
<1>4. RequestPlace(r)'
  BY <1>1, <1>2 DEF OwnInv, RequestPlace
<1>5. ArrayInv(r)' /\ PoisonInv(r)'
  BY <1>1, <1>2 DEF ArrayInv, OwnInv, PoisonInv, Phase, Working
<1>6. DataInv(r)'
  <2>1. BeforeUnpack(r)
    BY DEF BeforeUnpack
  <2>2. ~ (place = "waitSends" /\ op[r] \in WithCallback)
    OBVIOUS
  <2>3. \A p \in Outgoing(r) : sendBuffer[r][p] = Written(call[r], FALSE)
    BY <1>1 DEF OwnInv, DataInv
  <2>4. \A p \in Incoming(r) \ receiveRequests[r] : receiveBuffer[r][p] = Written(call[r], FALSE)
    BY <2>1 DEF OwnInv, DataInv
  <2>5. QED
    BY <1>1, <1>2, <2>2, <2>3, <2>4 DEF DataInv
<1>7. QED
  BY <1>2, <1>3, <1>4, <1>5, <1>6 DEF OwnInv

LEMMA OwnStatus ==
  ASSUME TypeInv, NEW r \in Rank, OwnInv(r), OnlyControl, pc[r] = "waitSends",
         sendRequests[r] = {}, op[r] \in WithCallback, Continue(r, "status", verdict[r])
  PROVE  OwnInv(r)'
<1>1. /\ UNCHANGED <<call, op, plan, state, storage, destination, verdict,
                     sendRequests, receiveRequests>>
      /\ pc[r] # "idle" /\ "status" \in Phase /\ verdict[r] \in Vote
  BY VoteType DEF OnlyControl, array, network, TypeInv, Phase
<1>2. pc'[r] = "status" /\ Own(r)' = verdict[r] /\ PlanWord(r)'
  BY <1>1, ContinueLog
<1>3. OperationPlace(r)' /\ RequestPlace(r)' /\ ArrayInv(r)' /\ PoisonInv(r)'
  <2>1. Outgoing(r)' = Outgoing(r) /\ Incoming(r)' = Incoming(r)
    BY <1>1, PeersSame
  <2>2. RequestPlace(r)'
    BY <1>1, <1>2, <2>1 DEF OwnInv, RequestPlace
  <2>3. OperationPlace(r)' /\ ArrayInv(r)' /\ PoisonInv(r)'
    BY <1>1, <1>2 DEF OwnInv, OperationPlace, ArrayInv, PoisonInv, Phase, Working
  <2>4. QED
    BY <2>2, <2>3
<1>4. DataInv(r)'
  <2>1. \A p \in ReceivesFrom[plan[r]][r] : Target(r)[p] = Written(call[r], verdict[r] = "ok")
    BY DEF OwnInv, DataInv
  <2>2. Target(r)' = Target(r)
    BY <1>1 DEF Target
  <2>3. QED
    BY <1>1, <1>2, <2>1, <2>2 DEF DataInv, BeforeUnpack, Working
<1>5. QED
  BY <1>2, <1>3, <1>4 DEF OwnInv

(* Unpacking fills the target with the blocks of this call. *)
LEMMA UnpackedData ==
  ASSUME TypeInv, NEW r \in Rank, OwnInv(r), pc[r] \in {"unpack", "callback"},
         NEW t \in BOOLEAN, NEW old \in Content, NEW p \in ReceivesFrom[plan[r]][r]
  PROVE  Unpacked(r, old, t)[p] = Written(call[r], t)
<1>1. p \in Rank
  BY RegionAssumption DEF TypeInv, TypeOK, Layout
<1>2. CASE p \in Incoming(r)
  <2>1. receiveRequests[r] = {} /\ BeforeUnpack(r)
    BY DEF OwnInv, RequestPlace, BeforeUnpack
  <2>2. receiveBuffer[r][p] = Written(call[r], FALSE)
    BY <1>2, <2>1 DEF OwnInv, DataInv
  <2>3. QED
    BY <1>1, <1>2, <2>2 DEF Unpacked, Written
<1>3. CASE p \notin Incoming(r)
  <2>1. op[r] \in SkipsSelf /\ p = r
    BY <1>3 DEF Incoming, ByMessage
  <2>2. op[r] \notin InPlace
    BY <2>1 DEF SkipsSelf, InPlace
  <2>3. SourceBlock(r, p) = Written(call[r], FALSE)
    BY <2>2 DEF SourceBlock
  <2>4. QED
    BY <1>1, <1>3, <2>3 DEF Unpacked, Written
<1>4. QED
  BY <1>2, <1>3

LEMMA UnpackTarget ==
  ASSUME TypeInv, NEW r \in Rank, OwnInv(r), pc[r] \in {"unpack", "callback"},
         NEW t \in BOOLEAN, UnpackInto(r, t), UNCHANGED op,
         NEW p \in ReceivesFrom[plan[r]][r]
  PROVE  Target(r)'[p] = Written(call[r], t)
<1>1. \A old \in Content : Unpacked(r, old, t)[p] = Written(call[r], t)
  BY UnpackedData
<1>2. storage[r] \in Content /\ destination[r] \in Content
  BY DEF TypeInv, TypeOK
<1>3. Target(r)' = Unpacked(r, storage[r], t) \/ Target(r)' = Unpacked(r, destination[r], t)
  BY DEF Target, UnpackInto, TypeInv, TypeOK
<1>4. QED
  BY <1>1, <1>2, <1>3

LEMMA OwnCallback ==
  ASSUME TypeInv, NEW r \in Rank, OwnInv(r), RunCallback(r)
  PROVE  OwnInv(r)'
<1>1. /\ pc[r] = "callback" /\ pc[r] \in Working /\ PlanWord(r) /\ GoTo(r, "waitSends")
      /\ UNCHANGED <<call, op, plan, state, sendBuffer, receiveBuffer,
                     sendRequests, receiveRequests>>
  BY DEF RunCallback, OwnInv, Working, network
<1>2. /\ pc'[r] = "waitSends" /\ PlanWord(r)' /\ op'[r] = op[r] /\ call'[r] = call[r]
      /\ plan'[r] = plan[r]
      /\ Outgoing(r)' = Outgoing(r) /\ Incoming(r)' = Incoming(r)
  BY <1>1, OwnGoTo
<1>3. op[r] \in WithCallback /\ receiveRequests[r] = {}
  BY <1>1 DEF OwnInv, OperationPlace, RequestPlace
<1>4. OperationPlace(r)' /\ RequestPlace(r)' /\ ArrayInv(r)' /\ PoisonInv(r)'
  <2>1. RequestPlace(r)'
    BY <1>1, <1>2, <1>3 DEF OwnInv, RequestPlace
  <2>2. OperationPlace(r)'
    BY <1>2, <1>3 DEF OperationPlace, AllToAllv, WithCallback
  <2>3. ArrayInv(r)' /\ PoisonInv(r)'
    BY <1>1, <1>2 DEF OwnInv, ArrayInv, PoisonInv, Phase, Working
  <2>4. QED
    BY <2>1, <2>2, <2>3
<1>5. DataInv(r)'
  <2>1. PICK v : /\ verdict' = [verdict EXCEPT ![r] = v] /\ UnpackInto(r, v = "ok")
    BY DEF RunCallback
  <2>2. verdict'[r] = v /\ (v = "ok") \in BOOLEAN
    BY <2>1 DEF TypeInv, TypeOK
  <2>3. ASSUME NEW p \in ReceivesFrom[plan[r]][r]
        PROVE  Target(r)'[p] = Written(call[r], v = "ok")
    BY <1>1, <2>1, <2>2, UnpackTarget
  <2>4. \A p \in Outgoing(r) : sendBuffer[r][p] = Written(call[r], FALSE)
    BY <1>1 DEF OwnInv, DataInv
  <2>5. QED
    BY <1>1, <1>2, <1>3, <2>2, <2>3, <2>4 DEF DataInv, BeforeUnpack
<1>6. QED
  BY <1>2, <1>4, <1>5 DEF OwnInv

LEMMA OwnExchange ==
  ASSUME TypeInv, NEW r \in Rank, OwnInv(r),
         \/ Pack(r) \/ PostReceives(r) \/ PostSends(r)
         \/ EnterAllToAllv(r) \/ LeaveAllToAllv(r)
         \/ WaitReceives(r) \/ WaitSends(r) \/ Unpack(r)
         \/ RunCallback(r) \/ AfterStatus(r)
  PROVE  OwnInv(r)'
<1>1. CASE LeaveAllToAllv(r) \/ WaitReceives(r)
  BY <1>1, OwnWait DEF LeaveAllToAllv, WaitReceives
<1>2. CASE WaitSends(r)
  BY <1>2, OwnWait, OwnStatus DEF WaitSends
<1>3. CASE Unpack(r) \/ AfterStatus(r)
  <2>1. PICK res : Return(r, res)
    BY <1>3 DEF Unpack, AfterStatus
  <2>2. pc[r] \in Phase \union {"unpack"} /\ UNCHANGED <<call, op, plan, sendRequests, receiveRequests>>
    BY <1>3 DEF Unpack, AfterStatus, Phase, network
  <2>3. QED
    BY <2>1, <2>2, OwnReturn
<1>4. QED
  BY <1>1, <1>2, <1>3, OwnPack, OwnPost, OwnCallback

----------------------------------------------------------------------------
(* The caller between two calls, and MPI.                                  *)

LEMMA OwnOverwrite ==
  ASSUME TypeInv, NEW q \in Rank, OwnInv(q), NEW r \in Rank,
         (\E l \in Layout : Overwrite(r, l)) \/ OverwriteFails(r)
  PROVE  OwnInv(q)'
<1>1. CASE q # r
  <2>1. Untouched(q)
    BY <1>1 DEF Overwrite, OverwriteFails, Untouched, control, network, TypeInv, TypeOK
  <2>2. QED
    BY <2>1, OwnFrame
<1>2. CASE q = r
  <2>1. pc[q] = "idle" /\ UNCHANGED <<control, network>>
    BY <1>2 DEF Overwrite, OverwriteFails
  <2>2. /\ pc'[q] = "idle"
        /\ UNCHANGED <<call, op, plan, log, sendRequests, receiveRequests>>
    BY <2>1 DEF control, network
  <2>3. Outgoing(q)' = Outgoing(q) /\ Incoming(q)' = Incoming(q)
    BY <2>2, PeersSame
  <2>4. PlanWord(q)' /\ OperationPlace(q)'
    BY <2>1, <2>2 DEF OwnInv, PlanWord, OperationPlace
  <2>5. RequestPlace(q)'
    BY <2>1, <2>2, <2>3 DEF OwnInv, RequestPlace
  <2>6. ArrayInv(q)' /\ DataInv(q)' /\ PoisonInv(q)'
    BY <2>2 DEF ArrayInv, DataInv, BeforeUnpack, PoisonInv, Phase, Working
  <2>7. QED
    BY <2>4, <2>5, <2>6 DEF OwnInv
<1>3. QED
  BY <1>1, <1>2

LEMMA OwnInject ==
  ASSUME TypeInv, NEW r \in Rank, OwnInv(r), NEW p \in Rank, NEW q \in Rank, Inject(p, q)
  PROVE  OwnInv(r)'
<1>1. CASE r # p
  <2>1. Untouched(r)
    BY <1>1 DEF Inject, Untouched, control, array, TypeInv, TypeOK
  <2>2. QED
    BY <2>1, OwnFrame
<1>2. CASE r = p
  <2>1. /\ UNCHANGED <<pc, call, op, plan, log, verdict, state, storage, destination,
                       sendBuffer, receiveBuffer, receiveRequests>>
        /\ sendRequests'[r] = sendRequests[r] \ {q} /\ q \in sendRequests[r]
    BY <1>2 DEF Inject, control, array, TypeInv, TypeOK
  <2>2. Outgoing(r)' = Outgoing(r) /\ Incoming(r)' = Incoming(r)
    BY <2>1, PeersSame
  <2>3. PlanWord(r)' /\ OperationPlace(r)' /\ PoisonInv(r)'
    BY <2>1 DEF OwnInv, PlanWord, OperationPlace, PoisonInv
  <2>4. RequestPlace(r)'
    BY <2>1, <2>2 DEF OwnInv, RequestPlace
  <2>5. Own(r)' = Own(r) /\ Target(r)' = Target(r) /\ BeforeUnpack(r)' = BeforeUnpack(r)
    BY <2>1 DEF Own, Round, Target, BeforeUnpack
  <2>6. ArrayInv(r)'
    BY <2>1, <2>5 DEF OwnInv, ArrayInv, Fresh
  <2>7. DataInv(r)'
    BY <2>1, <2>2, <2>5 DEF OwnInv, DataInv
  <2>8. QED
    BY <2>3, <2>4, <2>6, <2>7 DEF OwnInv
<1>3. QED
  BY <1>1, <1>2

LEMMA OwnDeliver ==
  ASSUME TypeInv, NEW r \in Rank, OwnInv(r), NEW p \in Rank, NEW q \in Rank,
         WireInv(p, q), Deliver(p, q)
  PROVE  OwnInv(r)'
<1>1. CASE r # q
  <2>1. Untouched(r)
    BY <1>1 DEF Deliver, Untouched, control, array, TypeInv, TypeOK
  <2>2. QED
    BY <2>1, OwnFrame
<1>2. CASE r = q
  <2>1. /\ UNCHANGED <<pc, call, op, plan, log, verdict, state, storage, destination,
                       sendBuffer, sendRequests>>
        /\ receiveRequests'[r] = receiveRequests[r] \ {p} /\ p \in receiveRequests[r]
    BY <1>2 DEF Deliver, control, array, TypeInv, TypeOK
  <2>2. Outgoing(r)' = Outgoing(r) /\ Incoming(r)' = Incoming(r)
    BY <2>1, PeersSame
  <2>3. PlanWord(r)' /\ OperationPlace(r)' /\ PoisonInv(r)'
    BY <2>1 DEF OwnInv, PlanWord, OperationPlace, PoisonInv
  <2>4. RequestPlace(r)'
    BY <2>1, <2>2 DEF OwnInv, RequestPlace
  <2>5. Own(r)' = Own(r) /\ Target(r)' = Target(r) /\ BeforeUnpack(r)' = BeforeUnpack(r)
    BY <2>1 DEF Own, Round, Target, BeforeUnpack
  <2>6. ArrayInv(r)'
    BY <2>1, <2>5 DEF OwnInv, ArrayInv, Fresh
  <2>7. receiveBuffer'[r][p] = Written(call[r], FALSE)
    <3>1. wire[p][r] = <<Written(call[r], FALSE)>>
      BY <1>2 DEF Deliver, WireInv
    <3>2. Head(wire[p][r]) = Written(call[r], FALSE)
      BY <3>1
    <3>3. QED
      BY <1>2, <3>2 DEF Deliver, TypeInv, TypeOK, Content
  <2>8. \A s \in Rank : s # p => receiveBuffer'[r][s] = receiveBuffer[r][s]
    BY <1>2 DEF Deliver, TypeInv, TypeOK
  <2>9. DataInv(r)'
    <3>1. Incoming(r) \subseteq Rank
      BY DataType
    <3>2. QED
      BY <2>1, <2>2, <2>5, <2>7, <2>8, <3>1 DEF OwnInv, DataInv
  <2>10. QED
    BY <2>3, <2>4, <2>6, <2>9 DEF OwnInv
<1>3. QED
  BY <1>1, <1>2

(* What holds of each rank by itself is kept by every step. *)
LEMMA OwnNext ==
  ASSUME TypeInv, AgreementParts, CallsInOrder, ExchangeInv, [Next]_vars, NEW q \in Rank
  PROVE  OwnInv(q)'
<1>1. OwnInv(q) /\ \A p, s \in Rank : WireInv(p, s)
  BY DEF ExchangeInv
<1>2. ASSUME NEW r \in Rank, NEW o \in Operation, NEW l \in Layout, Start(r, o, l)
      PROVE  OwnInv(q)'
  BY <1>1, <1>2, OwnStart, StartUntouched, OwnFrame DEF TypeInv
<1>3. ASSUME NEW r \in Rank, Step(r) PROVE OwnInv(q)'
  <2>1. CASE q = r
    BY <1>1, <1>3, <2>1, OwnAgree, OwnExchange DEF Step
  <2>2. CASE q # r
    BY <1>1, <1>3, <2>2, StepUntouched, OwnFrame DEF TypeInv
  <2>3. QED
    BY <2>1, <2>2
<1>4. ASSUME UNCHANGED vars PROVE OwnInv(q)'
  BY <1>1, <1>4, OwnFrame DEF vars, control, array, network, Untouched
<1>5. QED
  BY <1>1, <1>2, <1>3, <1>4, OwnOverwrite, OwnInject, OwnDeliver DEF Next, Call, Done

----------------------------------------------------------------------------
(* The messages.                                                           *)

OpeningPhase == {"preflight", "reservation"}

Grows(r, f) == log' = [log EXCEPT ![r] = Append(@, f)]

(* The transfers that a rank still has to make do not change, and belong   *)
(* to the same call.                                                       *)
TransfersSame(q) ==
  /\ ToSend(q)' = ToSend(q) /\ ToReceive(q)' = ToReceive(q)
  /\ call'[q] = call[q] \/ (ToSend(q) = {} /\ ToReceive(q) = {})

LEMMA WireSame ==
  ASSUME NEW p \in Rank, NEW q \in Rank, WireInv(p, q), UNCHANGED wire,
         TransfersSame(p), TransfersSame(q)
  PROVE  WireInv(p, q)'
BY DEF WireInv, TransfersSame

(* A rank waiting in a reduction that is complete knows its result. *)
LEMMA OpeningFixed ==
  ASSUME TypeOK, TypeOK', LogGrows, NEW q \in Rank, PlaceInv(q), Complete(q),
         pc'[q] = pc[q], log'[q] = log[q]
  PROVE  Opening(q)' = Opening(q)
<1> DEFINE n == Len(log[q])
<1>1. \A s \in Rank : Len(log[s]) \in Nat /\ Len(log[s])' \in Nat /\ n <= Len(log[s])
  BY DEF TypeOK, Complete, Round
<1>2. \A s \in Rank : n <= Len(log[s])'
  BY <1>1 DEF LogGrows
<1>3. Complete(q)' /\ Round(q)' = Round(q)
  BY <1>2 DEF Complete, Round
<1>4. CASE n >= 1
  <2>1. VotesAt(n)' = VotesAt(n)
    BY <1>1, <1>4, VotesStay
  <2>2. Votes(q)' = Votes(q)
    BY <2>1, <1>3 DEF Votes, VotesAt, Round
  <2>3. QED
    BY <1>3, <2>2 DEF Opening
<1>5. CASE n = 0
  <2>1. log[q] = <<>>
    BY <1>5, LogLength
  <2>2. pc[q] = "idle"
    BY <2>1 DEF PlaceInv
  <2>3. QED
    BY <2>2 DEF Opening
<1>6. QED
  BY <1>1, <1>4, <1>5

(* A reduction that completes opens an exchange only if it is the one that *)
(* precedes exchanges.                                                     *)
LEMMA OpeningSame ==
  ASSUME TypeOK, TypeOK', LogGrows, AgreementParts, LogInv', NEW q \in Rank,
         pc'[q] = pc[q], log'[q] = log[q], NEW r \in Rank, NEW f \in Entry,
         Grows(r, f), f.phase \notin OpeningPhase
  PROVE  Opening(q)' = Opening(q)
<1> DEFINE n == Len(log[q])
<1>0. PlaceInv(q) /\ n \in Nat /\ \A s \in Rank : Len(log[s]) \in Nat /\ Len(log'[s]) \in Nat
  <2>1. \A s \in Rank : log[s] \in Seq(Entry) /\ log'[s] \in Seq(Entry)
    BY DEF TypeOK
  <2>2. QED
    BY <2>1 DEF AgreementParts
<1>1. CASE Complete(q)
  BY <1>0, <1>1, OpeningFixed
<1>3. CASE ~ Complete(q) /\ Complete(q)' /\ pc[q] \in OpeningPhase
  <2>1. PICK s \in Rank : Len(log[s]) < n
    BY <1>0, <1>3 DEF Complete, Round
  <2>2. n <= Len(log'[s])
    BY <1>3 DEF Complete, Round
  <2>3. s = r
    BY <1>3, <2>1, <2>2 DEF Grows, TypeOK
  <2>4. Len(log'[r]) = Len(log[r]) + 1 /\ log'[r][Len(log[r]) + 1] = f
    BY <1>3, AppendGrows DEF Grows
  <2>5. n = Len(log[r]) + 1 /\ n = Len(log'[r])
    BY <1>0, <2>1, <2>2, <2>3, <2>4
  <2>6. n \in 1..Len(log'[q]) /\ n \in 1..Len(log'[r])
    BY <1>0, <2>4, <2>5
  <2>7. log'[q][n].phase = log'[r][n].phase
    <3>1. CollectivesMatch'
      BY DEF LogInv
    <3>2. QED
      BY <2>6, <3>1 DEF CollectivesMatch
  <2>8. log[q][n].phase = pc[q]
    <3>1. log[q] # <<>> /\ pc[q] \in Phase
      BY <1>0, <1>3, <2>6 DEF OpeningPhase, Phase
    <3>2. QED
      BY <1>0, <3>1 DEF PlaceInv, Last, Round
  <2>9. f.phase = pc[q]
    BY <2>4, <2>5, <2>7, <2>8
  <2>10. QED
    BY <1>3, <2>9
<1>4. CASE ~ Complete(q) /\ ~ Complete(q)'
  BY <1>4 DEF Opening
<1>5. QED
  BY <1>1, <1>3, <1>4 DEF Opening, OpeningPhase

(* A step of a rank changes what it still has to transfer only when it     *)
(* enters the reduction that opens an exchange.                            *)
LEMMA NoTransfers ==
  ASSUME NEW r \in Rank, RequestPlace(r), ~ Opening(r), pc[r] \in Phase \union {"idle"}
  PROVE  ToSend(r) = {} /\ ToReceive(r) = {}
<1>1. sendRequests[r] = {} /\ receiveRequests[r] = {}
  BY NoRequests
<1>2. QED
  BY <1>1 DEF ToSend, ToReceive, Phase

LEMMA AgreeTransfers ==
  ASSUME TypeInv, AgreementParts, NEW r \in Rank, OwnInv(r), RequestPlace(r)',
         \/ AfterHeader(r) \/ AfterReady(r) \/ AfterDescriptor(r)
         \/ AfterLayout(r) \/ AfterPeers(r) \/ AfterAgreement(r),
         pc'[r] \notin OpeningPhase
  PROVE  TransfersSame(r)
<1>0. /\ OnlyControl /\ pc[r] \in Phase /\ ControlStep(r) /\ RequestPlace(r)
      /\ call'[r] = call[r]
  BY AgreementStep DEF TypeInv, AfterHeader, AfterReady, AfterDescriptor, AfterLayout, AfterPeers,
                       AfterAgreement, Phase, OwnInv, OnlyControl
<1>1. CASE pc'[r] # "pack"
  <2>1. pc'[r] \in Phase \union {"idle"}
    <3>1. pc'[r] # "pack" => pc'[r] \in Phase \union {"idle"}
      BY DEF AfterHeader, AfterReady, AfterDescriptor, AfterLayout, AfterPeers,
             AfterAgreement, Phase, Continue, Enter, Return, GoTo, TypeInv, TypeOK
    <3>2. QED
      BY <1>1, <3>1
  <2>2. ~ Opening(r)' /\ ToSend(r)' = {} /\ ToReceive(r)' = {}
    <3>1. ~ Opening(r)'
      BY DEF Opening, OpeningPhase
    <3>2. sendRequests'[r] = {} /\ receiveRequests'[r] = {}
      BY <2>1 DEF RequestPlace, Phase
    <3>3. QED
      BY <2>1, <3>1, <3>2 DEF ToSend, ToReceive, Phase
  <2>3. ~ Opening(r)
    BY <1>1 DEF Opening, AfterHeader, AfterReady, AfterDescriptor, AfterLayout, AfterPeers,
                AfterAgreement, GoTo, TypeInv, TypeOK
  <2>4. QED
    BY <1>0, <2>2, <2>3, NoTransfers DEF TransfersSame
<1>2. CASE pc'[r] = "pack"
  <2>1. AfterAgreement(r) /\ Votes(r) = {"ok"}
    BY <1>2 DEF AfterHeader, AfterReady, AfterDescriptor, AfterLayout, AfterPeers,
                AfterAgreement, Continue, Enter, Return, TypeInv, TypeOK
  <2>2. Opening(r)
    BY <2>1 DEF Opening, AfterAgreement
  <2>3. Outgoing(r)' = Outgoing(r) /\ Incoming(r)' = Incoming(r)
    BY <1>0, PeersSame DEF OnlyControl
  <2>4. QED
    BY <1>0, <1>2, <2>2, <2>3 DEF TransfersSame, ToSend, ToReceive
<1>3. QED
  BY <1>1, <1>2

LEMMA ExchangeTransfers ==
  ASSUME TypeInv, NEW r \in Rank, OwnInv(r),
         \/ Pack(r) \/ PostReceives(r) \/ PostSends(r)
         \/ EnterAllToAllv(r) \/ LeaveAllToAllv(r)
         \/ WaitReceives(r) \/ WaitSends(r) \/ Unpack(r)
         \/ RunCallback(r) \/ AfterStatus(r)
  PROVE  TransfersSame(r)
<1>1. UNCHANGED <<call, op, plan>>
  BY ExchangeStep DEF TypeInv
<1>2. call'[r] = call[r] /\ Outgoing(r)' = Outgoing(r) /\ Incoming(r)' = Incoming(r)
  BY <1>1, PeersSame
<1>3. ~ Opening(r) /\ ~ Opening(r)'
  BY DEF Opening, Pack, PostReceives, PostSends, EnterAllToAllv, LeaveAllToAllv, WaitReceives,
         WaitSends, Unpack, RunCallback, AfterStatus, GoTo, Return, Continue, Enter,
         TypeInv, TypeOK
<1>4. CASE Pack(r)
  BY <1>2, <1>3, <1>4 DEF Pack, GoTo, TypeInv, TypeOK, TransfersSame, ToSend, ToReceive
<1>5. CASE PostReceives(r)
  BY <1>2, <1>3, <1>5 DEF PostReceives, GoTo, TypeInv, TypeOK, TransfersSame, ToSend, ToReceive
<1>6. CASE PostSends(r)
  BY <1>2, <1>3, <1>6 DEF PostSends, GoTo, TypeInv, TypeOK, TransfersSame, ToSend, ToReceive
<1>7. CASE EnterAllToAllv(r)
  BY <1>2, <1>3, <1>7 DEF EnterAllToAllv, GoTo, TypeInv, TypeOK, TransfersSame, ToSend, ToReceive
<1>8. CASE \/ LeaveAllToAllv(r) \/ WaitReceives(r) \/ WaitSends(r) \/ Unpack(r)
           \/ RunCallback(r) \/ AfterStatus(r)
  <2>1. UNCHANGED <<sendRequests, receiveRequests>>
    BY <1>8 DEF LeaveAllToAllv, WaitReceives, WaitSends, Unpack, RunCallback, AfterStatus,
                OnlyControl, network
  <2>2. /\ pc[r] \notin {"pack", "postReceives", "postSends", "alltoallv"}
        /\ pc'[r] \notin {"pack", "postReceives", "postSends", "alltoallv"}
    BY <1>8 DEF LeaveAllToAllv, WaitReceives, WaitSends, Unpack, RunCallback, AfterStatus,
                GoTo, Return, Continue, Enter, TypeInv, TypeOK
  <2>3. QED
    BY <1>2, <1>3, <2>1, <2>2 DEF TransfersSame, ToSend, ToReceive
<1>9. QED
  BY <1>4, <1>5, <1>6, <1>7, <1>8

LEMMA OtherTransfers ==
  ASSUME NEW q \in Rank, Untouched(q), Opening(q)' = Opening(q)
  PROVE  TransfersSame(q)
<1>1. Outgoing(q)' = Outgoing(q) /\ Incoming(q)' = Incoming(q)
  BY PeersSame DEF Untouched
<1>2. QED
  BY <1>1 DEF TransfersSame, ToSend, ToReceive, Untouched

(* A caller that enters an operation has nothing left to transfer. *)
LEMMA WireStart ==
  ASSUME TypeInv, TypeOK', AgreementParts, LogInv', ExchangeInv, LogGrows,
         NEW r \in Rank, NEW o \in Operation, NEW l \in Layout, Start(r, o, l),
         NEW p \in Rank, NEW q \in Rank
  PROVE  WireInv(p, q)'
<1> DEFINE f == [call |-> call[r] + 1, phase |-> "header", op |-> o, val |-> o]
<1>1. f \in Entry /\ Grows(r, f) /\ f.phase \notin OpeningPhase
  <2>1. call[r] + 1 \in 1..MaxCalls
    BY RankAssumption DEF Start, TypeInv, TypeOK
  <2>2. o \in KnownOperation /\ o \in Vote /\ "header" \in Phase
    BY RankAssumption DEF Vote, Phase
  <2>3. QED
    BY <2>1, <2>2 DEF Start, Enter, Grows, Entry, OpeningPhase
<1>2. ASSUME NEW s \in Rank, s # r PROVE TransfersSame(s)
  <2>1. Untouched(s)
    BY <1>2, StartUntouched DEF TypeInv
  <2>2. Opening(s)' = Opening(s)
    BY <1>1, <2>1, OpeningSame DEF TypeInv, Untouched
  <2>3. QED
    BY <2>1, <2>2, OtherTransfers
<1>3. TransfersSame(r)
  <2>1. /\ pc[r] = "idle" /\ pc'[r] = "header" /\ UNCHANGED <<sendRequests, receiveRequests>>
        /\ RequestPlace(r)
    BY DEF Start, Enter, TypeInv, TypeOK, network, ExchangeInv, OwnInv
  <2>2. ToSend(r) = {} /\ ToReceive(r) = {}
    BY <2>1, NoTransfers DEF Opening
  <2>3. sendRequests[r] = {} /\ receiveRequests[r] = {}
    BY <2>1, NoRequests
  <2>4. ToSend(r)' = {} /\ ToReceive(r)' = {}
    BY <2>1, <2>3 DEF ToSend, ToReceive, Opening
  <2>5. QED
    BY <2>2, <2>4 DEF TransfersSame
<1>4. UNCHANGED wire /\ WireInv(p, q)
  BY DEF Start, network, ExchangeInv
<1>5. QED
  BY <1>2, <1>3, <1>4, WireSame

LEMMA StepGrows ==
  ASSUME TypeInv, NEW r \in Rank, Step(r)
  PROVE  log' = log \/ \E f \in Entry : Grows(r, f) /\ f.phase = pc'[r]
<1>1. ControlStep(r) /\ UNCHANGED <<call, op, plan>> /\ pc[r] # "idle"
  BY StepKind DEF TypeInv
<1>2. ASSUME NEW phase \in Phase, NEW v \in Vote, Continue(r, phase, v)
      PROVE  \E f \in Entry : Grows(r, f) /\ f.phase = pc'[r]
  <2> DEFINE f == [call |-> call[r], phase |-> phase, op |-> op[r], val |-> v]
  <2>1. f \in Entry
    BY <1>1 DEF Entry, TypeInv, CallInv, TypeOK
  <2>2. Grows(r, f) /\ f.phase = pc'[r]
    BY <1>2 DEF Continue, Enter, Grows, TypeInv, TypeOK
  <2>3. QED
    BY <2>1, <2>2
<1>3. QED
  BY <1>1, <1>2 DEF ControlStep, Return, GoTo

(* Every step of a rank but the one that may open an exchange. *)
LEMMA WireStep ==
  ASSUME TypeInv, TypeOK', AgreementParts, LogInv', ExchangeInv, LogGrows,
         NEW r \in Rank, Step(r), pc'[r] \notin OpeningPhase, RequestPlace(r)',
         NEW p \in Rank, NEW q \in Rank
  PROVE  WireInv(p, q)'
<1>1. \/ log' = log
      \/ \E f \in Entry : Grows(r, f) /\ f.phase \notin OpeningPhase
  BY StepGrows
<1>2. ASSUME NEW s \in Rank, s # r PROVE TransfersSame(s)
  <2>1. Untouched(s)
    BY <1>2, StepUntouched DEF TypeInv
  <2>2. CASE log' = log
    BY <2>1, <2>2, OtherTransfers DEF Untouched, Opening, Complete, Votes, Round
  <2>3. CASE log' # log
    <3>1. PICK f \in Entry : Grows(r, f) /\ f.phase \notin OpeningPhase
      BY <1>1, <2>3
    <3>2. Opening(s)' = Opening(s)
      BY <2>1, <3>1, OpeningSame DEF TypeInv, Untouched
    <3>3. QED
      BY <2>1, <3>2, OtherTransfers
  <2>4. QED
    BY <2>2, <2>3
<1>3. TransfersSame(r)
  BY AgreeTransfers, ExchangeTransfers DEF ExchangeInv, Step
<1>4. UNCHANGED wire /\ WireInv(p, q)
  BY AgreementStep DEF ExchangeInv, Step, TypeInv, OnlyControl, network, Pack, PostReceives,
     PostSends, EnterAllToAllv, LeaveAllToAllv, WaitReceives, WaitSends, Unpack, RunCallback,
     AfterStatus
<1>5. QED
  BY <1>2, <1>3, <1>4, WireSame

(* Ranks that execute the same operation with the same plan expect what    *)
(* their peers send.                                                       *)
LEMMA PeersMatch ==
  ASSUME TypeOK, NEW p \in Rank, NEW q \in Rank, op[p] = op[q], plan[p] = plan[q],
         q \in Outgoing(p)
  PROVE  p \in Incoming(q)
<1>1. q \in SendsTo[plan[p]][p] /\ plan[p] \in Layout
  BY DEF Outgoing, ByMessage, TypeOK
<1>2. p \in ReceivesFrom[plan[p]][q]
  BY <1>1, RegionAssumption
<1>3. QED
  BY <1>2 DEF Outgoing, Incoming, ByMessage

(* The descriptor agreement has made sure that the plans are the same. *)
LEMMA SamePlan ==
  ASSUME TypeOK, LogInv, NEW n \in Nat,
         \A q \in Rank : Len(log[q]) = n /\ PlanWord(q) /\ log[q] # <<>> /\ Last(q).call = call[q],
         NEW p \in Rank, NEW q \in Rank, Last(p).phase \in OpeningPhase
  PROVE  plan[p] = plan[q]
<1>0. n >= 1 /\ \A s \in Rank : \A m \in 1..n : log[s][m] \in Entry
  BY LogLength
<1>1. n # 1
  BY DEF LogInv, FirstEntry, Last, Round, OpeningPhase
<1> DEFINE m == n - 1
<1>2. m \in 1..(Len(log[p]) - 1) /\ m \in 1..n /\ n \in 1..n /\ m + 1 = n
  BY <1>0, <1>1
<1> HIDE DEF m
<1>3. Follows(log[p][m], VotesAt(m), log[p][n])
  BY <1>2 DEF LogInv, Chain
<1>4. log[p][n].phase \in OpeningPhase
  BY DEF Last, Round
<1>5. /\ Continues(log[p][m], VotesAt(m)) /\ log[p][n].call = log[p][m].call
      /\ log[p][n].phase = Successor(log[p][m].op, log[p][m].phase)
  BY <1>3, <1>4 DEF Follows, OpeningPhase
<1>6. log[p][m].phase = "descriptor"
  BY <1>4, <1>5 DEF Successor, OpeningPhase
<1>7. VotesAt(m) = {log[p][m].val}
  BY <1>5, <1>6 DEF Continues
<1>8. ASSUME NEW s \in Rank PROVE plan[s] = log[p][m].val
  <2>1. log[s][m].phase = "descriptor" /\ log[s][m].call = log[p][m].call
    BY <1>2, <1>6 DEF LogInv, CollectivesMatch
  <2>2. log[s][n].call = log[p][n].call
    BY <1>2 DEF LogInv, CollectivesMatch
  <2>3. log[s][m].call = call[s]
    BY <1>5, <2>1, <2>2 DEF Last, Round
  <2>4. log[s][m].val = plan[s]
    BY <1>2, <2>1, <2>3 DEF PlanWord
  <2>5. QED
    BY <1>7, <2>4 DEF VotesAt
<1>9. QED
  BY <1>8

(* All ranks have entered the same reduction, the last before an exchange. *)
Together ==
  \A s, t \in Rank : Len(log[s]) = Len(log[t]) /\ pc[s] \in OpeningPhase

PlanWords == \A r \in Rank : PlanWord(r)

SameCall ==
  \A p, q \in Rank : op[p] = op[q] /\ plan[p] = plan[q] /\ call[p] = call[q]

LEMMA TogetherSame == TypeOK /\ AgreementParts /\ PlanWords /\ Together => SameCall
<1> SUFFICES ASSUME TypeOK, AgreementParts, \A s \in Rank : PlanWord(s), Together,
                    NEW p \in Rank, NEW q \in Rank
             PROVE  op[p] = op[q] /\ plan[p] = plan[q] /\ call[p] = call[q]
  BY DEF PlanWords, SameCall
<1> DEFINE n == Len(log[p])
<1>1. ASSUME NEW s \in Rank
      PROVE  /\ Len(log[s]) = n /\ PlanWord(s) /\ log[s] # <<>> /\ n \in 1..Len(log[s])
             /\ Last(s).call = call[s] /\ Last(s).op = op[s] /\ Last(s).phase \in OpeningPhase
  <2>1. pc[s] \in OpeningPhase /\ Len(log[s]) = n
    BY DEF Together
  <2>2. log[s] # <<>>
    BY <2>1 DEF AgreementParts, PlaceInv, OpeningPhase
  <2>3. QED
    BY <2>1, <2>2, LogLength DEF AgreementParts, PlaceInv, OpeningPhase, Phase
<1>2. n \in Nat
  BY LogLength
<1>3. plan[p] = plan[q]
  BY <1>1, <1>2, SamePlan DEF AgreementParts
<1>4. log[p][n].call = log[q][n].call /\ log[p][n].op = log[q][n].op
  <2>1. log[p][n].phase # "header"
    BY <1>1 DEF Last, Round, OpeningPhase
  <2>2. n \in 1..Len(log[p]) /\ n <= Len(log[q])
    BY <1>1
  <2>3. QED
    BY <2>1, <2>2 DEF AgreementParts, LogInv, CollectivesMatch
<1>5. Last(p) = log[p][n] /\ Last(q) = log[q][n]
  BY <1>1 DEF Last, Round
<1>6. QED
  BY <1>1, <1>3, <1>4, <1>5

LEMMA WireOpen ==
  ASSUME TypeInv, TypeOK', AgreementParts, AgreementParts', ExchangeInv, LogGrows,
         \A s \in Rank : OwnInv(s)',
         NEW r \in Rank, Step(r), pc'[r] \in OpeningPhase,
         NEW p \in Rank, NEW q \in Rank
  PROVE  WireInv(p, q)'
<1> DEFINE n == Len(log'[r])
<1>1. AfterDescriptor(r) /\ pc[r] = "descriptor" /\ OnlyControl
  <2>1. \A place : pc' = [pc EXCEPT ![r] = place] => pc'[r] = place
    BY DEF TypeInv, TypeOK
  <2>2. pc'[r] = "preflight" \/ pc'[r] = "reservation"
    BY DEF OpeningPhase
  <2>3. ~(AfterHeader(r) \/ AfterReady(r) \/ AfterLayout(r) \/ AfterPeers(r))
    BY <2>1, <2>2 DEF AfterHeader, AfterReady, AfterLayout, AfterPeers,
                      GoTo, Return, Continue, Enter
  <2>4. ~(AfterAgreement(r) \/ Pack(r) \/ PostReceives(r) \/ PostSends(r) \/ EnterAllToAllv(r))
    BY <2>1, <2>2 DEF AfterAgreement, Pack, PostReceives, PostSends, EnterAllToAllv,
                      GoTo, Return, Continue, Enter
  <2>5. ~(LeaveAllToAllv(r) \/ WaitReceives(r) \/ WaitSends(r))
    BY <2>1, <2>2 DEF LeaveAllToAllv, WaitReceives, WaitSends, GoTo, Return, Continue, Enter
  <2>6. ~(Unpack(r) \/ RunCallback(r) \/ AfterStatus(r))
    BY <2>1, <2>2 DEF Unpack, RunCallback, AfterStatus, GoTo, Return, Continue, Enter
  <2>7. AfterDescriptor(r)
    BY <2>3, <2>4, <2>5, <2>6 DEF Step
  <2> QED BY <2>7 DEF AfterDescriptor
<1>2. PICK f \in Entry : Grows(r, f) /\ f.phase = pc'[r]
  <2>1. log' # log
    <3>1. PlaceInv(r) /\ PlaceInv(r)'
      BY DEF AgreementParts
    <3>2. log[r] # <<>> /\ pc[r] \in Phase /\ pc'[r] \in Phase
      BY <1>1, <3>1 DEF PlaceInv, OpeningPhase, Phase
    <3>3. Last(r).phase = "descriptor" /\ (log' = log => Last(r)'.phase = pc'[r])
      BY <1>1, <3>1, <3>2 DEF PlaceInv
    <3>4. QED
      BY <3>3 DEF Last, Round, OpeningPhase
  <2>2. QED
    BY <2>1, StepGrows
<1>3. /\ UNCHANGED <<call, op, plan, sendRequests, receiveRequests, wire>>
      /\ WireInv(p, q) /\ \A s \in Rank : OwnInv(s) /\ RequestPlace(s)
  BY <1>1 DEF OnlyControl, network, ExchangeInv, OwnInv
<1>4. \A s \in Rank : Len(log[s]) \in Nat /\ Len(log'[s]) \in Nat
  <2>1. \A s \in Rank : log[s] \in Seq(Entry) /\ log'[s] \in Seq(Entry)
    BY DEF TypeInv, TypeOK
  <2>2. QED
    BY <2>1
<1>5. /\ n = Len(log[r]) + 1 /\ log'[r][n] = f
      /\ \A s \in Rank : s # r => log'[s] = log[s] /\ pc'[s] = pc[s] /\ Untouched(s)
  <2>1. n = Len(log[r]) + 1 /\ log'[r][Len(log[r]) + 1] = f
    BY <1>2, AppendGrows DEF Grows, TypeInv
  <2>2. \A s \in Rank : s # r => Untouched(s)
    BY StepUntouched DEF TypeInv
  <2>3. QED
    BY <2>1, <2>2 DEF Untouched
<1>6. ToSend(r) = {} /\ ToReceive(r) = {} /\ sendRequests[r] = {} /\ receiveRequests[r] = {}
  BY <1>1, <1>3, NoTransfers, NoRequests DEF Opening, Phase
<1>7. CASE ~ Opening(r)'
  <2>1. TransfersSame(r)
    BY <1>3, <1>6, <1>7 DEF TransfersSame, ToSend, ToReceive, OpeningPhase
  <2>2. ASSUME NEW s \in Rank, s # r PROVE TransfersSame(s)
    <3>1. CASE Complete(s)
      <4>1. Opening(s)' = Opening(s)
        BY <1>5, <2>2, <3>1, OpeningFixed DEF AgreementParts, TypeInv
      <4>2. QED
        BY <1>5, <2>2, <4>1, OtherTransfers
    <3>2. CASE ~ Complete(s)
      <4>1. ~ Opening(s)
        BY <3>2 DEF Opening
      <4>2. ASSUME Opening(s)' PROVE FALSE
        <5>1. PICK t \in Rank : Len(log[t]) < Len(log[s])
          BY <1>4, <3>2 DEF Complete, Round
        <5>2. \A u \in Rank : Len(log[s]) <= Len(log'[u])
          BY <1>5, <2>2, <4>2 DEF Opening, Complete, Round
        <5>3. t = r
          BY <1>4, <1>5, <5>1, <5>2
        <5>4. Len(log[s]) = n
          BY <1>4, <1>5, <5>1, <5>2, <5>3
        <5>5. Round(s)' = n /\ Round(r)' = n
          BY <1>5, <2>2, <5>4 DEF Round
        <5>6. Complete(r)' /\ Votes(r)' = Votes(s)'
          BY <4>2, <5>5 DEF Opening, Complete, Votes
        <5>7. QED
          BY <1>7, <4>2, <5>6 DEF Opening, OpeningPhase
      <4>3. Opening(s)' = Opening(s)
        BY <4>1, <4>2 DEF Opening
      <4>4. QED
        BY <1>5, <2>2, <4>3, OtherTransfers
    <3>3. QED
      BY <3>1, <3>2
  <2>3. QED
    BY <1>3, <2>1, <2>2, WireSame
<1>8. CASE Opening(r)'
  <2>1. ASSUME NEW s \in Rank PROVE Len(log'[s]) = n
    <3>1. Len(log'[s]) >= n
      BY <1>8 DEF Opening, Complete, Round
    <3>2. Len(log[s]) <= Len(log[r]) + 1
      BY DEF AgreementParts, LogInv, Lag
    <3>3. QED
      BY <1>4, <1>5, <3>1, <3>2
  <2>2. ASSUME NEW s \in Rank, s # r
        PROVE  pc'[s] = pc'[r] /\ ToSend(s) = {} /\ ToReceive(s) = {}
    <3>1. Len(log[s]) = n /\ ~ Complete(s)
      BY <1>4, <1>5, <2>1, <2>2 DEF Complete, Round
    <3>2. PlaceInv(s) /\ log[s] # <<>> /\ pc[s] \in Phase
      <4>1. PlaceInv(s) /\ log[s] # <<>>
        BY <1>4, <1>5, <3>1, LogLength DEF AgreementParts, TypeInv
      <4>2. QED
        BY <3>1, <4>1 DEF PlaceInv
    <3>3. log[s][n].phase = pc[s]
      BY <3>1, <3>2 DEF PlaceInv, Last, Round
    <3>4. log'[s][n].phase = log'[r][n].phase
      <4>1. CollectivesMatch' /\ n \in 1..Len(log'[s]) /\ n <= Len(log'[r])
        BY <1>4, <1>5, <2>1 DEF AgreementParts, LogInv
      <4>2. QED
        BY <4>1 DEF CollectivesMatch
    <3>5. pc'[s] = pc'[r]
      BY <1>2, <1>5, <2>2, <3>3, <3>4
    <3>6. ~ Opening(s)
      BY <3>1 DEF Opening
    <3>7. QED
      BY <1>3, <3>2, <3>5, <3>6, NoTransfers
  <2>3. ASSUME NEW s \in Rank PROVE pc'[s] \in OpeningPhase /\ Opening(s)'
    <3>1. pc'[s] = pc'[r]
      BY <2>2
    <3>2. Round(s)' = Round(r)'
      BY <2>1 DEF Round
    <3>3. QED
      BY <1>8, <3>1, <3>2 DEF Opening, Complete, Votes
  <2>4. Together'
    BY <2>1, <2>3 DEF Together
  <2>5. op'[p] = op'[q] /\ plan'[p] = plan'[q] /\ call'[p] = call'[q]
    <3>1. PlanWords'
      BY DEF OwnInv, PlanWords
    <3>2. SameCall'
      BY <2>4, <3>1, TogetherSame, PTL DEF TypeInv
    <3>3. QED
      BY <3>2 DEF SameCall
  <2>6. wire'[p][q] = <<>>
    BY <1>3, <1>6, <2>2 DEF WireInv
  <2>7. \A s \in Rank : ToSend(s)' = Outgoing(s) /\ ToReceive(s)' = Incoming(s)
    BY <1>3, <2>3, PeersSame DEF ToSend, ToReceive
  <2>8. QED
    BY <1>3, <2>5, <2>6, <2>7, PeersMatch DEF WireInv, TypeInv
<1>9. QED
  BY <1>7, <1>8

LEMMA WireInject ==
  ASSUME TypeInv, ExchangeInv, NEW s \in Rank, NEW t \in Rank, Inject(s, t),
         NEW p \in Rank, NEW q \in Rank
  PROVE  WireInv(p, q)'
<1>1. /\ t \in sendRequests[s] /\ UNCHANGED <<pc, call, op, plan, log, receiveRequests>>
      /\ sendRequests' = [sendRequests EXCEPT ![s] = @ \ {t}]
      /\ wire' = [wire EXCEPT ![s][t] = Append(@, sendBuffer[s][t])]
      /\ wire \in [Rank -> [Rank -> Seq(Value)]] /\ sendRequests \in [Rank -> SUBSET Rank]
  BY DEF Inject, control, TypeInv, TypeOK
<1>2. ASSUME NEW r \in Rank
      PROVE  /\ Opening(r)' = Opening(r) /\ ToReceive(r)' = ToReceive(r)
             /\ Outgoing(r)' = Outgoing(r)
  <2>1. Opening(r)' = Opening(r)
    BY <1>1 DEF Opening, Complete, Votes, Round
  <2>2. QED
    BY <1>1, <2>1, PeersSame DEF ToReceive
<1>3. /\ ToSend(s) = sendRequests[s] /\ t \in Outgoing(s) /\ ~ Opening(s)
      /\ pc[s] \in {"waitReceives", "callback", "waitSends", "waitAllToAllv"}
  BY <1>1 DEF ExchangeInv, OwnInv, RequestPlace, ToSend, Opening
<1>4. wire[s][t] = <<>> /\ s \in ToReceive(t) /\ call[t] = call[s]
  BY <1>1, <1>3 DEF ExchangeInv, WireInv
<1>5. sendBuffer[s][t] = Written(call[t], FALSE)
  BY <1>3, <1>4 DEF ExchangeInv, OwnInv, DataInv, Working
<1>6. ToSend(s)' = ToSend(s) \ {t} /\ \A r \in Rank : r # s => ToSend(r)' = ToSend(r)
  <2>1. ToSend(s)' = sendRequests'[s] /\ sendRequests'[s] = sendRequests[s] \ {t}
    BY <1>1, <1>2, <1>3 DEF ToSend
  <2>2. ASSUME NEW r \in Rank, r # s PROVE ToSend(r)' = ToSend(r)
    BY <1>1, <1>2, <2>2 DEF ToSend
  <2>3. QED
    BY <1>3, <2>1, <2>2
<1>7. CASE p = s /\ q = t
  <2>1. wire'[s][t] = Append(<<>>, Written(call[t], FALSE))
    BY <1>1, <1>4, <1>5
  <2>2. wire'[s][t] = <<Written(call[t], FALSE)>>
    BY <2>1
  <2>3. QED
    BY <1>1, <1>2, <1>4, <1>6, <1>7, <2>2 DEF WireInv
<1>8. CASE p # s \/ q # t
  <2>1. wire'[p][q] = wire[p][q]
    BY <1>1, <1>8
  <2>2. q \in ToSend(p)' => q \in ToSend(p)
    BY <1>6
  <2>3. WireInv(p, q)
    BY DEF ExchangeInv
  <2>4. QED
    BY <1>1, <1>2, <2>1, <2>2, <2>3 DEF WireInv
<1>9. QED
  BY <1>7, <1>8

LEMMA WireDeliver ==
  ASSUME TypeInv, ExchangeInv, NEW s \in Rank, NEW t \in Rank, Deliver(s, t),
         NEW p \in Rank, NEW q \in Rank
  PROVE  WireInv(p, q)'
<1>1. /\ s \in receiveRequests[t] /\ UNCHANGED <<pc, call, op, plan, log, sendRequests>>
      /\ receiveRequests' = [receiveRequests EXCEPT ![t] = @ \ {s}]
      /\ wire[s][t] # <<>> /\ wire' = [wire EXCEPT ![s][t] = Tail(@)]
      /\ wire \in [Rank -> [Rank -> Seq(Value)]] /\ receiveRequests \in [Rank -> SUBSET Rank]
  BY DEF Deliver, control, TypeInv, TypeOK
<1>2. ASSUME NEW r \in Rank
      PROVE  Opening(r)' = Opening(r) /\ ToSend(r)' = ToSend(r) /\ Incoming(r)' = Incoming(r)
  <2>1. Opening(r)' = Opening(r)
    BY <1>1 DEF Opening, Complete, Votes, Round
  <2>2. QED
    BY <1>1, <2>1, PeersSame DEF ToSend
<1>3. /\ ToReceive(t) = receiveRequests[t] /\ ~ Opening(t)
      /\ pc[t] \in {"postSends", "waitReceives", "waitAllToAllv"}
  BY <1>1 DEF ExchangeInv, OwnInv, RequestPlace, ToReceive, Opening
<1>4. WireInv(s, t) /\ WireInv(p, q)
  BY DEF ExchangeInv
<1>5. wire[s][t] = <<Written(call[t], FALSE)>> /\ t \notin ToSend(s)
  BY <1>1, <1>4 DEF WireInv
<1>6. /\ ToReceive(t)' = ToReceive(t) \ {s}
      /\ \A r \in Rank : r # t => ToReceive(r)' = ToReceive(r)
  <2>1. ToReceive(t)' = receiveRequests'[t] /\ receiveRequests'[t] = receiveRequests[t] \ {s}
    BY <1>1, <1>2, <1>3 DEF ToReceive
  <2>2. ASSUME NEW r \in Rank, r # t PROVE ToReceive(r)' = ToReceive(r)
    BY <1>1, <1>2, <2>2 DEF ToReceive
  <2>3. QED
    BY <1>3, <2>1, <2>2
<1>7. CASE p = s /\ q = t
  <2>1. Tail(wire[s][t]) = <<>>
    BY <1>5
  <2>2. wire'[s][t] = <<>>
    BY <1>1, <2>1
  <2>3. QED
    BY <1>2, <1>5, <1>7, <2>2 DEF WireInv
<1>8. CASE p # s \/ q # t
  <2>1. wire'[p][q] = wire[p][q] /\ (p \in ToReceive(q) => p \in ToReceive(q)')
    BY <1>1, <1>6, <1>8
  <2>2. QED
    BY <1>1, <1>2, <1>4, <2>1 DEF WireInv
<1>9. QED
  BY <1>7, <1>8

LEMMA WireQuiet ==
  ASSUME UNCHANGED <<pc, call, op, plan, log, network>>, NEW p \in Rank, NEW q \in Rank,
         WireInv(p, q)
  PROVE  WireInv(p, q)'
<1>1. UNCHANGED <<sendRequests, receiveRequests, wire>>
  BY DEF network
<1>2. ASSUME NEW r \in Rank PROVE TransfersSame(r)
  <2>1. Opening(r)' = Opening(r) /\ Outgoing(r)' = Outgoing(r) /\ Incoming(r)' = Incoming(r)
    BY PeersSame DEF Opening, Complete, Votes, Round
  <2>2. QED
    BY <1>1, <2>1 DEF TransfersSame, ToSend, ToReceive
<1>3. QED
  BY <1>1, <1>2, WireSame

----------------------------------------------------------------------------
(* The invariant of the exchange.                                          *)

LEMMA ExchangeInit == Init => ExchangeInv
<1> SUFFICES ASSUME Init PROVE ExchangeInv
  OBVIOUS
<1>1. ASSUME NEW r \in Rank
      PROVE  OwnInv(r) /\ ToSend(r) = {} /\ ToReceive(r) = {}
  <2>1. pc[r] = "idle" /\ log[r] = <<>> /\ sendRequests[r] = {} /\ receiveRequests[r] = {}
    BY DEF Init
  <2>2. PlanWord(r) /\ OperationPlace(r) /\ RequestPlace(r)
    BY <2>1 DEF PlanWord, OperationPlace, RequestPlace
  <2>3. ArrayInv(r) /\ DataInv(r) /\ PoisonInv(r)
    BY <2>1 DEF ArrayInv, DataInv, BeforeUnpack, PoisonInv, Phase, Working
  <2>4. ToSend(r) = {} /\ ToReceive(r) = {}
    BY <2>1 DEF ToSend, ToReceive, Opening
  <2>5. QED
    BY <2>2, <2>3, <2>4 DEF OwnInv
<1>2. \A p, q \in Rank : wire[p][q] = <<>>
  BY DEF Init
<1>3. QED
  BY <1>1, <1>2 DEF ExchangeInv, WireInv

LEMMA ExchangeNext ==
  ASSUME TypeInv, TypeInv', AgreementParts, AgreementParts', CallsInOrder, ExchangeInv,
         [Next]_vars
  PROVE  ExchangeInv'
<1>1. \A r \in Rank : OwnInv(r)'
  BY OwnNext
<1>2. LogGrows /\ TypeOK' /\ LogInv'
  BY LogOnlyGrows DEF TypeInv, AgreementParts
<1>3. ASSUME NEW p \in Rank, NEW q \in Rank PROVE WireInv(p, q)'
  <2>1. ASSUME NEW r \in Rank, NEW o \in Operation, NEW l \in Layout, Start(r, o, l)
        PROVE  WireInv(p, q)'
    BY <1>2, <2>1, WireStart
  <2>2. ASSUME NEW r \in Rank, Step(r) PROVE WireInv(p, q)'
    <3>1. RequestPlace(r)'
      BY <1>1 DEF OwnInv
    <3>2. QED
      BY <1>1, <1>2, <2>2, <3>1, WireStep, WireOpen
  <2>3. CASE \/ \E r \in Rank, l \in Layout : Overwrite(r, l)
             \/ \E r \in Rank : OverwriteFails(r)
             \/ UNCHANGED vars
    <3>1. UNCHANGED <<pc, call, op, plan, log, network>>
      BY <2>3 DEF Overwrite, OverwriteFails, vars, control
    <3>2. QED
      BY <3>1, WireQuiet DEF ExchangeInv
  <2>4. QED
    BY <2>1, <2>2, <2>3, WireInject, WireDeliver DEF Next, Call, Done
<1>4. QED
  BY <1>1, <1>3 DEF ExchangeInv

(* The invariant of the exchange holds in every execution: a message is on *)
(* its way only to a rank that still has to receive it, and carries what   *)
(* its sender's caller wrote for the call the receiver executes.           *)
THEOREM ExchangeCorrect == Spec => []ExchangeInv
<1>1. OutcomeInv => CallsInOrder
  BY DEF OutcomeInv
<1>2. TypeInv /\ TypeInv' /\ AgreementParts /\ AgreementParts' /\ OutcomeInv /\ ExchangeInv
        /\ [Next]_vars => ExchangeInv'
  BY <1>1, ExchangeNext
<1>3. QED
  BY <1>2, ExchangeInit, OutcomeCorrect, TypeInvariance, AgreementInvariance, PTL DEF Spec

LEMMA QuiescentInv == ExchangeInv => QuiescentReturn
<1> SUFFICES ASSUME ExchangeInv, NEW r \in Rank, pc[r] = "idle", NEW p \in Rank
             PROVE  sendRequests[r] = {} /\ receiveRequests[r] = {} /\ wire[p][r] = <<>>
  BY DEF QuiescentReturn
<1>1. RequestPlace(r) /\ WireInv(p, r)
  BY DEF ExchangeInv, OwnInv
<1>2. sendRequests[r] = {} /\ receiveRequests[r] = {} /\ ToReceive(r) = {}
  BY <1>1, NoRequests, NoTransfers DEF Opening
<1>3. QED
  BY <1>1, <1>2 DEF WireInv

(* A rank that has left a call, whatever its outcome, has no request open  *)
(* and no message on its way that a later call could take for its own.     *)
THEOREM NothingLeftBehind == Spec => []QuiescentReturn
  BY QuiescentInv, ExchangeCorrect, PTL

----------------------------------------------------------------------------
(* What a call leaves in the caller's arrays.                              *)

LEMMA ReturnsStep ==
  ASSUME TypeInv, [Next]_vars, NEW r \in Rank, Returns(r)
  PROVE  Step(r)
<1>1. ASSUME NEW q \in Rank, NEW o \in Operation, NEW l \in Layout, Start(q, o, l) PROVE FALSE
  BY <1>1 DEF Returns, Start, Enter, TypeInv, TypeOK
<1>2. ~ Unnoticed
  BY DEF Returns, Unnoticed
<1>3. QED
  BY <1>1, <1>2, NextKinds, StepOthers DEF Returns

(* How a call that moves data can end. *)
LEMMA ReturnCases ==
  ASSUME TypeInv, NEW r \in Rank, OperationPlace(r), Step(r), Returns(r), op[r] # "new"
  PROVE  \/ Class(result'[r]) = "refused" /\ state'[r] = state[r]
         \/ Unpack(r)
         \/ AfterStatus(r)
<1>1. CASE \/ AfterHeader(r) \/ AfterReady(r) \/ AfterDescriptor(r)
           \/ AfterLayout(r) \/ AfterPeers(r) \/ AfterAgreement(r)
  <2>1. OnlyControl
    BY <1>1, AgreementStep DEF TypeInv
  <2>2. ~ AfterPeers(r)
    BY DEF AfterPeers, OperationPlace
  <2>3. \E res \in {"CollectiveDescriptorMismatch", "PreparationFailed", Refusal(r)} :
          Return(r, res)
    BY <1>1, <2>2 DEF AfterHeader, AfterReady, AfterDescriptor, AfterLayout, AfterAgreement,
                      Returns, Continue, Enter, GoTo, TypeInv, TypeOK, Phase
  <2>4. PICK res \in {"CollectiveDescriptorMismatch", "PreparationFailed", Refusal(r)} :
          Return(r, res)
    BY <2>3
  <2>5. result'[r] = res
    BY <2>4 DEF Return, TypeInv, TypeOK
  <2>6. Class(res) = "refused"
    BY RefusalClass DEF Class, CallbackFailed
  <2>7. QED
    BY <2>1, <2>5, <2>6 DEF OnlyControl, array
<1>2. CASE \/ Pack(r) \/ PostReceives(r) \/ PostSends(r)
           \/ EnterAllToAllv(r) \/ LeaveAllToAllv(r)
           \/ WaitReceives(r) \/ WaitSends(r) \/ RunCallback(r)
  BY <1>2 DEF Pack, PostReceives, PostSends, EnterAllToAllv, LeaveAllToAllv, WaitReceives,
              WaitSends, RunCallback, Returns, GoTo, Continue, Enter, TypeInv, TypeOK
<1>3. QED
  BY <1>1, <1>2 DEF Step

(* A callback form succeeds exactly when every callback did. *)
LEMMA StatusAgreed ==
  ASSUME TypeInv, AgreementParts, NEW r \in Rank, OwnInv(r), AfterStatus(r)
  PROVE  /\ op[r] \in WithCallback /\ result'[r] = CallbackOutcome(r)
         /\ CallbackOutcome(r) = "ok" => verdict[r] = "ok"
         /\ CallbackOutcome(r) # "ok" => CallbackOutcome(r) \in CallbackFailed
<1>1. pc[r] = "status" /\ Return(r, CallbackOutcome(r)) /\ Own(r) \in Votes(r)
  BY DEF AfterStatus, Own, Votes
<1>2. op[r] \in WithCallback /\ Own(r) = verdict[r]
  BY <1>1 DEF OwnInv, OperationPlace, DataInv
<1>3. CallbackOutcome(r) = "ok" => Own(r) = "ok"
  BY <1>1 DEF CallbackOutcome
<1>4. CallbackOutcome(r) # "ok" => CallbackOutcome(r) \in CallbackFailed
  BY DEF CallbackOutcome, CallbackFailed
<1>5. result'[r] = CallbackOutcome(r)
  BY <1>1 DEF Return, TypeInv, TypeOK
<1>6. QED
  BY <1>2, <1>3, <1>4, <1>5

LEMMA DeliveredStep ==
  ASSUME TypeInv, AgreementParts, ExchangeInv, [Next]_vars,
         NEW r \in Rank, Returns(r), result'[r] = "ok", op[r] # "new",
         NEW p \in ReceivesFrom[plan[r]][r]
  PROVE  (IF op[r] \in InPlace THEN storage'[r][p] ELSE destination'[r][p])
           = Written(call[r], op[r] \in WithCallback)
<1>1. Step(r) /\ OwnInv(r) /\ OperationPlace(r)
  BY ReturnsStep DEF ExchangeInv, OwnInv
<1>2. Class(result'[r]) = "ok"
  BY DEF Class
<1>3. CASE Unpack(r)
  <2>1. /\ pc[r] = "unpack" /\ UnpackInto(r, FALSE) /\ UNCHANGED op
        /\ op[r] \notin WithCallback /\ op'[r] = op[r]
    BY <1>1, <1>3 DEF Unpack, OperationPlace
  <2>2. Target(r)'[p] = Written(call[r], FALSE)
    BY <1>1, <2>1, UnpackTarget
  <2>3. (op[r] \in WithCallback) = FALSE
    BY <2>1
  <2>4. Target(r)' = IF op[r] \in InPlace THEN storage'[r] ELSE destination'[r]
    BY <2>1 DEF Target
  <2>5. QED
    BY <2>2, <2>3, <2>4
<1>4. CASE AfterStatus(r)
  <2>1. /\ pc[r] = "status" /\ UNCHANGED <<storage, destination>>
    BY <1>4 DEF AfterStatus
  <2>2. op[r] \in WithCallback /\ verdict[r] = "ok"
    BY <1>1, <1>4, StatusAgreed
  <2>3. Target(r)[p] = Written(call[r], TRUE)
    BY <1>1, <2>1, <2>2 DEF OwnInv, DataInv
  <2>4. QED
    BY <2>1, <2>2, <2>3 DEF Target
<1>5. QED
  BY <1>1, <1>2, <1>3, <1>4, ReturnCases

LEMMA StateStep ==
  ASSUME TypeInv, AgreementParts, ExchangeInv, [Next]_vars,
         NEW r \in Rank, Returns(r), op[r] \in InPlace
  PROVE  state'[r] = CASE Outcome(r)' = "ok" -> Other(plan[r])
                       [] Outcome(r)' = "callbackFailed" -> "Poisoned"
                       [] Outcome(r)' = "refused" -> state[r]
<1>1. Step(r) /\ OwnInv(r) /\ OperationPlace(r) /\ op[r] # "new"
  BY ReturnsStep DEF ExchangeInv, OwnInv, InPlace
<1>2. Outcome(r)' = Class(result'[r])
  BY DEF Outcome, Class
<1>3. CASE Class(result'[r]) = "refused" /\ state'[r] = state[r]
  BY <1>2, <1>3
<1>4. CASE Unpack(r)
  <2>1. result'[r] = "ok" /\ state'[r] = Other(plan[r])
    BY <1>4 DEF Unpack, Return, TypeInv, TypeOK
  <2>2. QED
    BY <1>2, <2>1 DEF Class
<1>5. CASE AfterStatus(r)
  <2>1. /\ op[r] \in WithCallback /\ result'[r] = CallbackOutcome(r)
        /\ CallbackOutcome(r) # "ok" => CallbackOutcome(r) \in CallbackFailed
    BY <1>1, <1>5, StatusAgreed
  <2>2. op[r] = "in_place_callback"
    BY <2>1 DEF InPlace, WithCallback
  <2>3. pc[r] = "status" /\ state[r] = "Poisoned"
    BY <1>1, <1>5, <2>2 DEF AfterStatus, OwnInv, PoisonInv
  <2>4. CASE CallbackOutcome(r) = "ok"
    <3>1. state'[r] = Other(plan[r])
      BY <1>5, <2>2, <2>4 DEF AfterStatus, TypeInv, TypeOK
    <3>2. QED
      BY <1>2, <2>1, <2>4, <3>1 DEF Class
  <2>5. CASE CallbackOutcome(r) # "ok"
    <3>1. state'[r] = state[r]
      BY <1>5, <2>5 DEF AfterStatus
    <3>2. Class(result'[r]) = "callbackFailed"
      BY <2>1, <2>5 DEF Class, CallbackFailed
    <3>3. QED
      BY <1>2, <2>3, <3>1, <3>2
  <2>6. QED
    BY <2>4, <2>5
<1>6. QED
  BY <1>1, <1>3, <1>4, <1>5, ReturnCases

(* A call that returns Ok has put, for every peer, the block written for   *)
(* this very call where the caller looks for it, transformed by the        *)
(* callback iff the operation has one.                                     *)
THEOREM DataAlwaysDelivered == Spec => DeliveredData
<1>1. TypeInv /\ AgreementParts /\ ExchangeInv /\ [Next]_vars =>
        [\A r \in Rank : Returns(r) /\ result'[r] = "ok" /\ op[r] # "new" =>
           \A p \in ReceivesFrom[plan[r]][r] :
             (IF op[r] \in InPlace THEN storage'[r][p] ELSE destination'[r][p])
               = Written(call[r], op[r] \in WithCallback)]_vars
  BY DeliveredStep
<1>2. QED
  BY <1>1, ExchangeCorrect, TypeInvariance, AgreementInvariance, PTL DEF Spec, DeliveredData

(* An in-place call leaves the array in the plan's other layout, poisoned, *)
(* or as it was, as its outcome says.                                      *)
THEOREM StateAlwaysFollowsOutcome == Spec => StateFollowsOutcome
<1>1. TypeInv /\ AgreementParts /\ ExchangeInv /\ [Next]_vars =>
        [\A r \in Rank : Returns(r) /\ op[r] \in InPlace =>
           state'[r] = CASE Outcome(r)' = "ok" -> Other(plan[r])
                         [] Outcome(r)' = "callbackFailed" -> "Poisoned"
                         [] Outcome(r)' = "refused" -> state[r]]_vars
  BY StateStep
<1>2. QED
  BY <1>1, ExchangeCorrect, TypeInvariance, AgreementInvariance, PTL DEF Spec, StateFollowsOutcome
================================================================================
