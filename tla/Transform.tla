------------------------------- MODULE Transform -------------------------------
(***************************************************************************)
(* Distributed transforms: every rank runs the script of its call over its *)
(* own arrays and meets the others in the agreements and transposes of the *)
(* script.  What a transpose does inside is module Transpose's; here it is *)
(* an agreement after which the data has moved.                            *)
(*                                                                         *)
(* The content of an array is the number of transforms and transitions it  *)
(* is ahead of the input: 2i when it is ready for stage i, 2i + 1 when     *)
(* stage i has transformed it.                                             *)
(***************************************************************************)
EXTENDS R2R, Mixed, Reductions

CONSTANTS
  Plans,        \* the plans to choose from
  Kinds,        \* Kinds[p]: the kinds of call made with plan p
  Members,      \* Members[p]: most members of a collection
  MaxCalls,     \* calls per rank
  MaxFaults     \* failures of all ranks together

AllKinds == {"construct", "single", "overlap", "in place", "many", "in place many"}

ASSUME TransformAssumption ==
  /\ Kinds \in [Plans -> SUBSET AllKinds] /\ Members \in [Plans -> Nat \ {0}]
  /\ MaxCalls \in Nat /\ MaxFaults \in Nat

(* What construction has checked of a plan. *)
ASSUME PlanAssumption ==
  \A p \in Plans :
    /\ p.family \in {"c2c", "r2r", "r2c", "mixed_c2c", "mixed_r2c"}
    /\ p.stages \in Nat \ {0} /\ p.boundary \in 0..(p.stages - 1) /\ p.chunks \in Nat
    /\ p.transition \in [0..(p.stages - 2) -> {"distributed", "local", "identity"}]

VARIABLES
  call,       \* call[r]: kind, direction, members, descriptor and bad spectra
  calls,      \* calls[r]: number of calls made
  busy,       \* busy[r]: the call has not returned
  todo,       \* todo[r]: the steps of the call still to go
  waiting,    \* waiting[r]: in the reduction of the next step
  failing,    \* failing[r]: a caught step has failed
  cause,      \* cause[r]: where the call was first refused
  result,     \* result[r]: what the last call returned
  data,       \* data[r]: contents of the buffers
  poisoned,   \* poisoned[r]: workspace arrays with no active layout
  state,      \* state[r]: Input, Output or Poisoned, of each array in place
  storage,    \* storage[r]: element type that owns each array's allocation
  faults,     \* failures so far
  stopped     \* ranks that have unwound a panic or were aborted

vars == <<plan, log, call, calls, busy, todo, waiting, failing, cause, result,
          data, poisoned, state, storage, faults, stopped>>

MemberIndex == 1..Members[plan]
Workspace == {Intermediate, RealIntermediate}
Buffers == Workspace \union
           UNION {{Source(m), Destination(m), Array(m)} : m \in MemberIndex}

Full == 2 * Last + 1     \* the output
Garbage == -1            \* data of no use
Old == -2                \* what the caller had in a destination
Content(p) == [p |-> p, zeroed |-> FALSE]

Start(direction) == IF direction = "forward" THEN 0 ELSE Full
End(direction) == IF direction = "forward" THEN Full ELSE 0
StateBefore(direction) == IF direction = "forward" THEN "Input" ELSE "Output"
StateAfter(direction) == IF direction = "forward" THEN "Output" ELSE "Input"

OutOfPlaceKinds == {"single", "overlap", "many"}
InPlaceKinds == {"in place", "in place many"}
CollectionKinds == {"many", "in place many"}

NoCall == [kind |-> "construct", direction |-> "forward", n |-> 1,
           descriptor |-> "plan", bad |-> {}]
OK == <<"ok", 0>>

Init ==
  /\ plan \in Plans
  /\ NoReductions
  /\ call = [r \in Rank |-> NoCall]
  /\ calls = [r \in Rank |-> 0]
  /\ busy = [r \in Rank |-> FALSE]
  /\ todo = [r \in Rank |-> <<>>]
  /\ waiting = [r \in Rank |-> FALSE]
  /\ failing = [r \in Rank |-> FALSE]
  /\ cause = [r \in Rank |-> OK]
  /\ result = [r \in Rank |-> OK]
  /\ data = [r \in Rank |-> [b \in Buffers |->
               Content(IF b[1] \in {"source", "array"} THEN 0 ELSE Old)]]
  /\ poisoned = [r \in Rank |-> {}]
  /\ state = [r \in Rank |-> [m \in MemberIndex |-> "Input"]]
  /\ storage = [r \in Rank |-> [m \in MemberIndex |-> IF IsReal THEN "real" ELSE "complex"]]
  /\ faults = 0
  /\ stopped = {}

----------------------------------------------------------------------------
(* Scripts of the calls.                                                   *)

Construct ==
  CASE plan.family = "c2c"       -> C2CConstruct
    [] plan.family = "r2r"       -> R2RConstruct
    [] plan.family = "r2c"       -> R2CConstruct
    [] plan.family = "mixed_c2c" -> MixedC2CConstruct
    [] plan.family = "mixed_r2c" -> MixedR2CConstruct

Execute(direction, m) ==
  CASE plan.family = "c2c"       -> C2CExecute(direction, m)
    [] plan.family = "r2r"       -> R2RExecute(direction, m)
    [] plan.family = "r2c"       -> IF direction = "forward" THEN R2CExecuteForward(m)
                                    ELSE R2CExecuteReverse(m)
    [] plan.family = "mixed_c2c" -> MixedC2CExecute(direction, m)
    [] plan.family = "mixed_r2c" -> MixedR2CExecute(direction, m)

ExecuteOverlap(direction, m) ==
  CASE plan.family = "c2c"       -> C2COverlap(direction, m)
    [] plan.family = "r2r"       -> R2ROverlap(direction, m)
    [] plan.family = "r2c"       -> IF direction = "forward" THEN R2COverlapForward(m)
                                    ELSE R2COverlapReverse(m)
    [] plan.family = "mixed_c2c" -> MixedC2COverlap(direction, m)
    [] plan.family = "mixed_r2c" -> MixedR2COverlap(direction, m)

ExecuteInPlace(direction, m) ==
  CASE plan.family = "c2c"       -> C2CExecuteInPlace(direction, m)
    [] plan.family = "r2r"       -> R2RExecuteInPlace(direction, m)
    [] plan.family = "r2c"       -> R2CExecuteInPlace(direction, m)
    [] plan.family = "mixed_c2c" -> MixedC2CExecuteInPlace(direction, m)
    [] plan.family = "mixed_r2c" -> MixedR2CExecuteInPlace(direction, m)

(* Collections: header and counts, the descriptor, preflight of all        *)
(* members, and then member after member, each with an agreement.          *)
CollectionBegin == AgreeHeader \o AgreeExecutionDescriptor

ExecuteMember(steps, m) ==
  Append([k \in DOMAIN steps |->
            [steps[k] EXCEPT !.caught = IF @ = "no" THEN "member" ELSE @]],
         Result("member execution", m))

ExecuteOne(c, m) ==
  ExecuteMember(IF c.kind = "many" THEN Execute(c.direction, m)
                ELSE ExecuteInPlace(c.direction, m), m)

(* Mutant: the last member first. *)
CollectionReversed(c) ==
  CollectionBegin \o
  Up(1, c.n, LAMBDA m : <<Agree("member preflight", m)>>) \o
  Down(1, c.n, LAMBDA m : ExecuteOne(c, m))

(* Mutant: each member is looked at when its turn comes. *)
CollectionOneByOne(c) ==
  CollectionBegin \o
  Up(1, c.n, LAMBDA m : <<Agree("member preflight", m)>> \o ExecuteOne(c, m))

Collection(c) ==
  CollectionBegin \o
  Up(1, c.n, LAMBDA m : <<Agree("member preflight", m)>>) \o
  Up(1, c.n, LAMBDA m : ExecuteOne(c, m))

Script(c) ==
  CASE c.kind = "construct"     -> Construct
    [] c.kind = "single"        -> Execute(c.direction, 1)
    [] c.kind = "overlap"       -> ExecuteOverlap(c.direction, 1)
    [] c.kind = "in place"      -> ExecuteInPlace(c.direction, 1)
    [] OTHER                    -> Collection(c)

----------------------------------------------------------------------------
(* Calls.                                                                  *)

(* Another rank has made the call that r is about to make, and c is not it.*)
Strays(r, c) ==
  \E q \in Rank : calls[q] = calls[r] + 1 /\
    <<call[q].kind, call[q].direction, call[q].n>> # <<c.kind, c.direction, c.n>>

(* A rank calls with arrays in which its caller has written, of which some *)
(* may hold no valid spectrum.  What callers do wrong counts as a fault.   *)
Call(r) ==
  /\ ~busy[r] /\ r \notin stopped /\ calls[r] < MaxCalls
  /\ \E kind \in Kinds[plan], direction \in {"forward", "reverse"}, n \in MemberIndex,
        descriptor \in {"plan", "other"}, bad \in SUBSET MemberIndex :
       LET c == [kind |-> kind, direction |-> direction, n |-> n,
                 descriptor |-> descriptor, bad |-> bad]
       IN  /\ kind = "construct" => direction = "forward"
           /\ kind \notin CollectionKinds => n = 1
           /\ bad # {} => /\ IsReal /\ direction = "reverse" /\ kind # "construct"
                          /\ bad \subseteq 1..n
           /\ faults' = faults + (IF descriptor = "other" THEN 1 ELSE 0)
                               + (IF bad # {} THEN 1 ELSE 0)
                               + (IF Strays(r, c) THEN 1 ELSE 0)
           /\ faults' <= MaxFaults
           /\ call' = [call EXCEPT ![r] = c]
           /\ todo' = [todo EXCEPT ![r] = Script(c)]
           /\ data' = [data EXCEPT ![r] = [b \in Buffers |->
                        CASE b[1] = "source" /\ kind \in OutOfPlaceKinds ->
                               Content(Start(direction))
                          [] b[1] = "destination" -> Content(Old)
                          [] OTHER -> @[b]]]
  /\ calls' = [calls EXCEPT ![r] = @ + 1]
  /\ busy' = [busy EXCEPT ![r] = TRUE]
  /\ cause' = [cause EXCEPT ![r] = OK]
  /\ UNCHANGED <<plan, log, waiting, failing, result, poisoned, state, storage, stopped>>

(* New arrays and a new workspace in the place of poisoned ones; no rank   *)
(* waits for another in it.                                                *)
Reallocate(r) ==
  /\ ~busy[r] /\ r \notin stopped /\ calls[r] < MaxCalls
  /\ poisoned[r] # {} \/ \E m \in MemberIndex : state[r][m] = "Poisoned"
  /\ poisoned' = [poisoned EXCEPT ![r] = {}]
  /\ state' = [state EXCEPT ![r] = [m \in MemberIndex |-> "Input"]]
  /\ storage' = [storage EXCEPT ![r] =
                   [m \in MemberIndex |-> IF IsReal THEN "real" ELSE "complex"]]
  /\ data' = [data EXCEPT ![r] =
                [b \in Buffers |-> IF b[1] = "array" THEN Content(0) ELSE @[b]]]
  /\ UNCHANGED <<plan, log, call, calls, busy, todo, waiting, failing, cause, result,
                 faults, stopped>>

Working(r) == busy[r] /\ r \notin stopped
At(r, kinds) == Working(r) /\ todo[r] # <<>> /\ Head(todo[r]).do \in kinds
Step(r) == Head(todo[r])

Advance(r) == todo' = [todo EXCEPT ![r] = Tail(@)]

Fault == faults < MaxFaults /\ faults' = faults + 1

(* Positions of the results that look at a refused step. *)
Handlers(r) ==
  {k \in 2..Len(todo[r]) :
     /\ todo[r][k].do = "result"
     /\ \/ Step(r).caught = "result"
        \/ Step(r).caught = "member" /\ todo[r][k].place[1] = "member execution"}

First(S) == CHOOSE k \in S : \A j \in S : k <= j

(* The call ends with an error, unless a result is to hear of it first.    *)
Refused(r, place) ==
  /\ cause' = [cause EXCEPT ![r] = IF @ = OK THEN place ELSE @]
  /\ IF Handlers(r) # {}
     THEN /\ todo' = [todo EXCEPT ![r] = SubSeq(@, First(Handlers(r)), Len(@))]
          /\ failing' = [failing EXCEPT ![r] = TRUE]
          /\ UNCHANGED <<busy, result>>
     ELSE /\ todo' = [todo EXCEPT ![r] = <<>>]
          /\ failing' = [failing EXCEPT ![r] = FALSE]
          /\ busy' = [busy EXCEPT ![r] = FALSE]
          /\ result' = [result EXCEPT ![r] = place]

Return(r) ==
  /\ Working(r) /\ todo[r] = <<>>
  /\ busy' = [busy EXCEPT ![r] = FALSE]
  /\ result' = [result EXCEPT ![r] = OK]
  /\ UNCHANGED <<plan, log, call, calls, todo, waiting, failing, cause, data,
                 poisoned, state, storage, faults, stopped>>

----------------------------------------------------------------------------
(* Agreements.                                                             *)

Member(r) == Step(r).place[2]

(* What validation finds of a call's arrays.                               *)
Fit(r, m) ==
  IF call[r].kind \in InPlaceKinds
  THEN state[r][m] = StateBefore(call[r].direction)
  ELSE Intermediate \notin poisoned[r]

(* Descriptors are reduced to a minimum and a maximum, and statistics to a *)
(* maximum and a sum: no rank leaves the script for what it has found.     *)
Silent == {"minimum", "max reduction", "sum reduction"}

About(r) ==
  CASE Step(r).place[1] = "header" -> <<call[r].kind, call[r].direction, call[r].n>>
    [] Step(r).place[1] \in {"minimum", "maximum"} -> <<call[r].descriptor>>
    [] OTHER -> <<>>

(* Whether the rank can go on, if nothing unforeseen happens. *)
Able(r) ==
  LET step == Step(r)
  IN  CASE step.do \in {"move", "exchange"} -> step.buf \notin poisoned[r]
        [] step.do = "result" -> ~failing[r]
        [] step.place[1] \in {"preflight", "member preflight"} -> Fit(r, Member(r))
        [] step.place[1] = "transport" -> plan.method = "point to point"
        [] step.place[1] = "spectrum" -> Member(r) \notin call[r].bad
        [] OTHER -> TRUE

(* Decided by what the ranks have in common, or only reported. *)
Infallible(r) ==
  Step(r).do = "result" \/ Step(r).place[1] \in Silent \union {"header", "maximum", "transport", "spectrum"}

Joint(r) ==
  \/ At(r, {"agree", "result", "exchange"})
  \/ At(r, {"move"}) /\ plan.transition[Step(r).i] = "distributed"

EnterAgreement(r) ==
  /\ Joint(r) /\ ~waiting[r]
  /\ \/ /\ Enter(r, Step(r).place, [ok |-> Able(r), about |-> About(r)])
        /\ UNCHANGED faults
     \/ /\ ~Infallible(r) /\ Able(r) /\ Fault
        /\ Enter(r, Step(r).place, [ok |-> FALSE, about |-> About(r)])
  /\ waiting' = [waiting EXCEPT ![r] = TRUE]
  /\ UNCHANGED <<plan, call, calls, busy, todo, failing, cause, result, data,
                 poisoned, state, storage, stopped>>

(* One word that all ranks have sent. *)
AcceptedOwn(r) == Own(r).word.ok    \* mutant: a rank goes by its own word

Accepted(r) ==
  /\ \A w \in Words(r) : w.ok
  /\ \A v, w \in Words(r) : v.about = w.about

(* Where transition i takes data, and data in the wrong place gets lost.   *)
(* Real data goes past the stages before the boundary untransformed.       *)
After(i) == IF plan.family = "r2c" /\ i < Boundary THEN 2 * i ELSE 2 * i + 1

Moved(content, i, direction) ==
  LET from == IF direction = "forward" THEN After(i) ELSE 2 * (i + 1)
      to   == IF direction = "forward" THEN 2 * (i + 1) ELSE After(i)
  IN  [content EXCEPT !.p = IF @ = from THEN to ELSE Garbage]

MoveData(r) ==
  data' = [data EXCEPT ![r][Step(r).buf] = Moved(@, Step(r).i, Step(r).direction)]

LeaveAgreement(r) ==
  /\ waiting[r] /\ Working(r) /\ Complete(r)
  /\ waiting' = [waiting EXCEPT ![r] = FALSE]
  /\ IF Step(r).place[1] \in Silent \/ Accepted(r)
     THEN /\ Advance(r)
          /\ IF Step(r).do \in {"move", "exchange"} THEN MoveData(r) ELSE UNCHANGED data
          /\ poisoned' = [poisoned EXCEPT ![r] =
               CASE Step(r).do = "exchange" -> @ \union {Step(r).buf}
                 [] Step(r).do = "result"   -> @ \ Step(r).guarded
                 [] OTHER                   -> @]
          /\ UNCHANGED <<busy, failing, cause, result>>
     ELSE /\ Refused(r, Step(r).place)
          /\ poisoned' = [poisoned EXCEPT ![r] =
               IF Step(r).do = "result" THEN @ \union Step(r).guarded ELSE @]
          /\ UNCHANGED data
  /\ UNCHANGED <<plan, log, call, calls, state, storage, faults, stopped>>

----------------------------------------------------------------------------
(* Local steps.                                                            *)

LocalMove(r) ==
  /\ At(r, {"move"}) /\ ~Joint(r)
  /\ MoveData(r)
  /\ Advance(r)
  /\ UNCHANGED <<plan, log, call, calls, busy, waiting, failing, cause, result,
                 poisoned, state, storage, faults, stopped>>

(* The boundary makes real data of a spectrum only after its imaginary     *)
(* endpoints have been cleared.                                            *)
Staged(content, i, direction) ==
  IF direction = "forward"
  THEN Content(IF content.p = 2 * i THEN 2 * i + 1 ELSE Garbage)
  ELSE Content(IF /\ content.p = 2 * i + 1
                  /\ IsReal /\ i = Boundary => content.zeroed
               THEN 2 * i ELSE Garbage)

(* Overwriting a workspace array gives it an active layout, writing in the *)
(* active one leaves it alone.                                             *)
Overwrites(step) == step.to \in Workspace /\ step.from # step.to

LocalStage(r) ==
  /\ At(r, {"stage"})
  /\ LET step == Step(r)
     IN  data' = [data EXCEPT ![r][step.to] = Staged(data[r][step.from], step.i, step.direction)]
  /\ poisoned' = [poisoned EXCEPT ![r] = IF Overwrites(Step(r)) THEN @ \ {Step(r).to} ELSE @]
  /\ Advance(r)
  /\ UNCHANGED <<plan, log, call, calls, busy, waiting, failing, cause, result,
                 state, storage, faults, stopped>>

(* A stage whose result somebody looks at may fail half way. *)
FailStage(r) ==
  /\ At(r, {"stage"}) /\ Step(r).caught = "result" /\ Fault
  /\ data' = [data EXCEPT ![r][Step(r).to] = Content(Garbage)]
  /\ poisoned' = [poisoned EXCEPT ![r] = IF Overwrites(Step(r)) THEN @ \union {Step(r).to} ELSE @]
  /\ Refused(r, Step(r).place)
  /\ UNCHANGED <<plan, log, call, calls, waiting, state, storage, stopped>>

(* A transpose takes its callback's panic for a failure.                   *)
InCallback(r) == Step(r).caught = "result" /\ todo[r][First(Handlers(r))].place[1] = "callback"

(* A panic in another stage unwinds the call of this rank; in a collection *)
(* it aborts the communicator.                                             *)
Panic(r) ==
  /\ At(r, {"stage"}) /\ ~InCallback(r) /\ Fault
  /\ data' = [data EXCEPT ![r][Step(r).to] = Content(Garbage)]
  /\ poisoned' = [poisoned EXCEPT ![r] = IF Overwrites(Step(r)) THEN @ \union {Step(r).to} ELSE @]
  /\ stopped' = IF call[r].kind \in CollectionKinds THEN Rank ELSE stopped \union {r}
  /\ UNCHANGED <<plan, log, call, calls, busy, todo, waiting, failing, cause, result,
                 state, storage>>

CopyData(r) ==
  /\ At(r, {"copy"})
  /\ data' = [data EXCEPT ![r][Step(r).to] = data[r][Step(r).from]]
  /\ poisoned' = [poisoned EXCEPT ![r] = @ \ {Step(r).to}]
  /\ Advance(r)
  /\ UNCHANGED <<plan, log, call, calls, busy, waiting, failing, cause, result,
                 state, storage, faults, stopped>>

ZeroEndpoints(r) ==
  /\ At(r, {"zero"})
  /\ data' = [data EXCEPT ![r][Step(r).buf].zeroed = TRUE]
  /\ Advance(r)
  /\ UNCHANGED <<plan, log, call, calls, busy, waiting, failing, cause, result,
                 poisoned, state, storage, faults, stopped>>

Overwrite(r) ==
  /\ At(r, {"overwrite"})
  /\ poisoned' = [poisoned EXCEPT ![r] = @ \union Step(r).bufs]
  /\ Advance(r)
  /\ UNCHANGED <<plan, log, call, calls, busy, waiting, failing, cause, result,
                 data, state, storage, faults, stopped>>

RefuseAlone(r) ==
  /\ At(r, {"refuse"})
  /\ Refused(r, Step(r).place)
  /\ UNCHANGED <<plan, log, call, calls, waiting, data, poisoned, state, storage,
                 faults, stopped>>

(* An array in place is poisoned first and gets its state when all is done.*)
SetState(r) ==
  /\ At(r, {"poison", "finish"})
  /\ state' = [state EXCEPT ![r][Step(r).m] =
                 IF Step(r).do = "poison" THEN "Poisoned" ELSE StateAfter(Step(r).direction)]
  /\ Advance(r)
  /\ UNCHANGED <<plan, log, call, calls, busy, waiting, failing, cause, result,
                 data, poisoned, storage, faults, stopped>>

(* The real transpose of a plain R2C takes the array out of its owner.     *)
TakeReal(r) ==
  /\ At(r, {"take", "put back"})
  /\ storage' = [storage EXCEPT ![r][Step(r).m] = IF Step(r).do = "take" THEN "none" ELSE "real"]
  /\ Advance(r)
  /\ UNCHANGED <<plan, log, call, calls, busy, waiting, failing, cause, result,
                 data, poisoned, state, faults, stopped>>

(* The boundary stage in place: the allocation changes its element type.   *)
ConvertStorage(r) ==
  /\ At(r, {"convert"})
  /\ LET step == Step(r)
         from == IF step.direction = "forward" THEN "real" ELSE "complex"
         to   == IF step.direction = "forward" THEN "complex" ELSE "real"
     IN  \/ /\ storage[r][step.m] = from
            /\ storage' = [storage EXCEPT ![r][step.m] = to]
            /\ data' = [data EXCEPT ![r][Array(step.m)] = Staged(@, Boundary, step.direction)]
            /\ Advance(r)
            /\ UNCHANGED <<busy, failing, cause, result, faults>>
         \/ /\ storage[r][step.m] # from \/ faults < MaxFaults
            /\ faults' = IF storage[r][step.m] = from THEN faults + 1 ELSE faults
            /\ storage' = [storage EXCEPT ![r][step.m] = "poisoned"]
            /\ data' = [data EXCEPT ![r][Array(step.m)] = Content(Garbage)]
            /\ Refused(r, step.place)
  /\ UNCHANGED <<plan, log, call, calls, waiting, poisoned, state, stopped>>

----------------------------------------------------------------------------

StepOf(r) ==
  \/ EnterAgreement(r) \/ LeaveAgreement(r) \/ Return(r)
  \/ LocalMove(r) \/ LocalStage(r) \/ FailStage(r) \/ CopyData(r)
  \/ ZeroEndpoints(r) \/ Overwrite(r) \/ RefuseAlone(r) \/ SetState(r)
  \/ TakeReal(r) \/ ConvertStorage(r)

(* All calls have been made, or a panic keeps the others waiting.          *)
AllDone ==
  /\ stopped # {} \/ \A r \in Rank : ~busy[r] /\ calls[r] = MaxCalls
  /\ UNCHANGED vars

Next == (\E r \in Rank : Call(r) \/ Reallocate(r) \/ StepOf(r) \/ Panic(r)) \/ AllDone

Spec == Init /\ [][Next]_vars

----------------------------------------------------------------------------
(* Properties.                                                             *)

TypeOK ==
  /\ plan \in Plans
  /\ calls \in [Rank -> 0..MaxCalls]
  /\ busy \in [Rank -> BOOLEAN] /\ waiting \in [Rank -> BOOLEAN] /\ failing \in [Rank -> BOOLEAN]
  /\ data \in [Rank -> [Buffers -> [p : -2..Full, zeroed : BOOLEAN]]]
  /\ poisoned \in [Rank -> SUBSET Workspace]
  /\ state \in [Rank -> [MemberIndex -> {"Input", "Output", "Poisoned"}]]
  /\ storage \in [Rank -> [MemberIndex -> {"real", "complex", "none", "poisoned"}]]
  /\ faults \in 0..MaxFaults /\ stopped \subseteq Rank

(* All ranks have returned from the same number of calls. *)
Quiet == stopped = {} /\ \A p, q \in Rank : ~busy[p] /\ calls[p] = calls[q]

Returned(r) == ~busy[r] /\ calls[r] > 0

(* Every rank returns success, or every rank is refused in the same place, *)
(* whichever of them failed and wherever: so the ranks may go on together  *)
(* after an error, and a collection reports one member index.              *)
OutcomesAgree == Quiet => \A p, q \in Rank : result[p] = result[q]

(* The first row of the documentation's table of failures (lib.rs): a call *)
(* is turned down before it starts, with arrays and workspace unchanged.   *)
(* So once a rank writes, no agreement is left that turns the call down;   *)
(* a collection has looked at all members before it writes the first one.  *)
BeforeStart == {"header", "ready", "maximum", "preflight", "transport"}

TurnsDown(step) ==
  /\ step.do = "agree"
  /\ \/ step.place[1] = "member preflight"
     \/ step.place[1] \in BeforeStart /\ step.caught # "member"

WritesAfterStart ==
  [][\A r \in Rank :
       /\ busy[r]
       /\ data'[r] # data[r] \/ poisoned'[r] # poisoned[r] \/ state'[r] # state[r]
            \/ storage'[r] # storage[r]
       => \A k \in DOMAIN todo[r] : ~TurnsDown(todo[r][k])]_vars

(* What a call out of place leaves of its caller's arrays.  The sources    *)
(* stay whatever happens.  Success means that every destination holds the  *)
(* complete transform: each stage and transition was applied, once and in  *)
(* order.  A spectrum that validation rejects, by now several stages into  *)
(* the way back, leaves the destination of its member as it was.  A        *)
(* collection that fails at a member has completed the ones before it and  *)
(* not begun the ones after it, on every rank.                             *)
Finished(r, m) == data[r][Destination(m)].p = End(call[r].direction)
Untouched(r, m) == data[r][Destination(m)].p = Old

DestinationsTell ==
  \A r \in Rank : Returned(r) /\ call[r].kind \in OutOfPlaceKinds =>
    \A m \in 1..call[r].n :
      /\ data[r][Source(m)].p = Start(call[r].direction)
      /\ result[r] = OK => Finished(r, m)
      /\ cause[r] = <<"spectrum", m>> => Untouched(r, m)
      /\ result[r][1] = "member execution" =>
           /\ m < result[r][2] => Finished(r, m)
           /\ m > result[r][2] => Untouched(r, m)

(* An array in place that says Input or Output holds just that, owned by   *)
(* the right element type, at every moment: also in the middle of a call,  *)
(* after an error, and after a panic that has unwound the call.            *)
StateTellsTheData ==
  \A r \in Rank, m \in MemberIndex :
    /\ state[r][m] = "Input" => /\ data[r][Array(m)].p = 0
                                /\ storage[r][m] = (IF IsReal THEN "real" ELSE "complex")
    /\ state[r][m] = "Output" => data[r][Array(m)].p = Full /\ storage[r][m] = "complex"

(* An error after a transform in place has started poisons the array on    *)
(* every rank, also on those where nothing has failed; in a collection the *)
(* members before the failing one keep their results.                      *)
FailedMember(place) == IF place[1] = "member execution" THEN place[2] ELSE 1

FailureInPlacePoisons ==
  [][\A r \in Rank :
       /\ busy[r] /\ ~busy'[r] /\ call[r].kind \in InPlaceKinds
       /\ result'[r] # OK /\ cause'[r][1] \notin BeforeStart \union {"member preflight"}
       => LET k == FailedMember(result'[r])
          IN  /\ state[r][k] = "Poisoned"
              /\ \A j \in 1..(k - 1) : state[r][j] = StateAfter(call[r].direction)]_vars

(* No rank gets real data out of a spectrum that any rank has found        *)
(* invalid, and all of them say so.                                        *)
InvalidSpectrumRejected ==
  Quiet /\ (\E r \in Rank : call[r].bad # {}) => \A r \in Rank : calls[r] > 0 => result[r] # OK
===============================================================================
