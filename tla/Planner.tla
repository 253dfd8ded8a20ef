-------------------------------- MODULE Planner --------------------------------
(***************************************************************************)
(* The planner of pencil-fftw (ffi.rs).  FFTW keeps a time limit, a thread *)
(* count and wisdom for the whole process, has no getter for them, and its *)
(* planner is not reentrant.  So each operation but the loading of the     *)
(* base library holds one lock, sets what it needs, and gives it back with *)
(* guards that are dropped in the reverse of the order they were made in,  *)
(* on success, on an error and when a panic unwinds.                       *)
(*                                                                         *)
(* The two precisions have state of their own and share nothing: this is   *)
(* one of them.  Execution of a plan touches none of this.                 *)
(***************************************************************************)
EXTENDS Integers, FiniteSets

CONSTANTS
  Thread,      \* threads of the process
  Count,       \* thread counts that plans ask for
  TimeLimit,   \* time limits that plans ask for
  MaxCalls,    \* bound: calls of a thread
  MaxFaults    \* bound: failures and panics of all threads together

Unlimited == -1
Nobody == "nobody"

ASSUME PlannerAssumption ==
  /\ Count \subseteq Nat \ {0} /\ Count # {}
  /\ TimeLimit \subseteq Nat \ {0}
  /\ Nobody \notin Thread
  /\ MaxCalls \in Nat /\ MaxFaults \in Nat

VARIABLES
  lock,      \* thread that holds the lock of the planner, or Nobody
  cached,    \* the base library is loaded and stays so
  slot,      \* what came of loading the thread library
  inits,     \* times FFTW was told to initialise its threads
  limit,     \* FFTW's time limit
  nthreads,  \* FFTW's thread count
  plans,     \* native plans that callers own
  pc,        \* pc[t]: what thread t does next
  request,   \* request[t]: the call that t is in
  guards,    \* guards[t]: guards on the stack of t
  built,     \* built[t]: native plans made for the call and not handed over
  failed,    \* threads whose call fails or unwinds
  calls,     \* calls[t]: calls made
  faults     \* failures so far

vars == <<lock, cached, slot, inits, limit, nthreads, plans, pc, request,
          guards, built, failed, calls, faults>>

PlanOp == {"plan pair", "plan one"}    \* plan_c2c and plan_r2r, plan_r2c and plan_c2r
WisdomOp == {"import_wisdom", "export_wisdom", "forget_wisdom"}

(* Native plans that an operation makes: out of place and in place, or one.*)
Wanted(op) == IF op = "plan pair" THEN 2 ELSE 1

Requests ==
  [op : PlanOp, count : Count, limit : TimeLimit \union {Unlimited}]
  \union [op : WisdomOp \union {"version", "drop"}, count : {1}, limit : {Unlimited}]

NoCall == [op |-> "version", count |-> 1, limit |-> Unlimited]

Init ==
  /\ lock = Nobody /\ cached = FALSE /\ slot = "none" /\ inits = 0
  /\ limit = Unlimited /\ nthreads = 1 /\ plans = 0
  /\ pc = [t \in Thread |-> "idle"]
  /\ request = [t \in Thread |-> NoCall]
  /\ guards = [t \in Thread |-> {}]
  /\ built = [t \in Thread |-> 0]
  /\ failed = {}
  /\ calls = [t \in Thread |-> 0]
  /\ faults = 0

Op(t) == request[t].op
Go(t, place) == pc' = [pc EXCEPT ![t] = place]
Fault == faults < MaxFaults /\ faults' = faults + 1

----------------------------------------------------------------------------
(* Outside the lock.                                                       *)

(* A dropped plan has its table with it, all others load theirs first.     *)
Call(t) ==
  /\ pc[t] = "idle" /\ calls[t] < MaxCalls
  /\ \E q \in Requests :
       /\ request' = [request EXCEPT ![t] = q]
       /\ IF q.op = "drop"
          THEN /\ plans > 0 /\ plans' = plans - 1
               /\ built' = [built EXCEPT ![t] = 1]
               /\ Go(t, "lock")
          ELSE Go(t, "table") /\ UNCHANGED <<plans, built>>
  /\ failed' = failed \ {t}
  /\ calls' = [calls EXCEPT ![t] = @ + 1]
  /\ UNCHANGED <<lock, cached, slot, inits, limit, nthreads, guards, faults>>

AfterTable(op) ==
  IF op \in PlanOp THEN "buffers" ELSE IF op \in WisdomOp THEN "lock" ELSE "end"

(* The library is cached when its symbols are complete; a failure to load  *)
(* it is not remembered.                                                   *)
LoadTable(t) ==
  /\ pc[t] = "table"
  /\ \/ /\ cached' = TRUE
        /\ Go(t, AfterTable(Op(t)))
        /\ UNCHANGED <<failed, faults>>
     \/ /\ ~cached /\ Fault
        /\ failed' = failed \union {t}
        /\ Go(t, "end")
        /\ UNCHANGED cached
  /\ UNCHANGED <<lock, slot, inits, limit, nthreads, plans, request, guards, built, calls>>

PlanningBuffers(t) ==
  /\ pc[t] = "buffers"
  /\ \/ Go(t, "lock") /\ UNCHANGED <<failed, faults>>
     \/ /\ Fault
        /\ failed' = failed \union {t}
        /\ Go(t, "end")
  /\ UNCHANGED <<lock, cached, slot, inits, limit, nthreads, plans, request,
                 guards, built, calls>>

(* A native plan is destroyed by its owner or after a failure next to it.  *)
Destroying(t) == Op(t) = "drop" \/ t \in failed

(* A lock that a panic has poisoned is taken like any other. *)
Lock(t) ==
  /\ pc[t] = "lock" /\ lock = Nobody
  /\ lock' = t
  /\ guards' = [guards EXCEPT ![t] = {"lock"}]
  /\ Go(t, IF Destroying(t) THEN "destroy" ELSE "threads")
  /\ UNCHANGED <<cached, slot, inits, limit, nthreads, plans, request, built,
                 failed, calls, faults>>

----------------------------------------------------------------------------
(* Under the lock.                                                         *)

(* The thread library is loaded once, before anything else is asked of the *)
(* base library.  It is turned down without its symbols or if it comes     *)
(* with a base library of its own, and is initialised only after that.     *)
LoadThreads ==
  \/ /\ slot = "none"
     /\ \/ slot' = "set" /\ inits' = inits + 1 /\ UNCHANGED faults
        \/ slot' = "load error" /\ Fault /\ UNCHANGED inits
        \/ slot' = "init error" /\ inits' = inits + 1 /\ Fault
  \/ /\ slot # "none"
     /\ UNCHANGED <<slot, inits, faults>>

(* Mutant: a failed initialisation passes for a missing library. *)
SettableAnyway(t) == slot' # "set" => request[t].count = 1

(* One thread does without the library, but not if FFTW may have half      *)
(* initialised it.                                                         *)
Settable(t) == slot' # "init error" /\ (slot' = "load error" => request[t].count = 1)

(* thread_setter; a plan goes on with set_threads, whose guard is made     *)
(* before the count is set.                                                *)
SetThreads(t) ==
  /\ pc[t] = "threads"
  /\ LoadThreads
  /\ IF Settable(t)
     THEN /\ IF Op(t) \in PlanOp /\ slot' = "set"
             THEN /\ guards' = [guards EXCEPT ![t] = @ \union {"threads"}]
                  /\ nthreads' = request[t].count
             ELSE UNCHANGED <<guards, nthreads>>
          /\ Go(t, IF Op(t) \in PlanOp THEN "limit" ELSE "wisdom")
          /\ UNCHANGED failed
     ELSE /\ failed' = failed \union {t}
          /\ Go(t, "guards")
          /\ UNCHANGED <<guards, nthreads>>
  /\ UNCHANGED <<lock, cached, limit, plans, request, built, calls>>

SetLimit(t) ==
  /\ pc[t] = "limit"
  /\ guards' = [guards EXCEPT ![t] = @ \union {"limit"}]
  /\ limit' = request[t].limit
  /\ Go(t, "planner")
  /\ UNCHANGED <<lock, cached, slot, inits, nthreads, plans, request, built,
                 failed, calls, faults>>

(* FFTW makes a plan, or none (without wisdom for it, or out of time), or  *)
(* the call unwinds.                                                       *)
MakePlan(t) ==
  /\ pc[t] = "planner"
  /\ \/ /\ built' = [built EXCEPT ![t] = @ + 1]
        /\ UNCHANGED <<failed, faults>>
     \/ /\ Fault
        /\ failed' = failed \union {t}
        /\ UNCHANGED built
  /\ Go(t, "guards")
  /\ UNCHANGED <<lock, cached, slot, inits, limit, nthreads, plans, request, guards, calls>>

(* FFTW may reject wisdom or have none to give. *)
UseWisdom(t) ==
  /\ pc[t] = "wisdom"
  /\ \/ UNCHANGED <<failed, faults>>
     \/ Op(t) # "forget_wisdom" /\ Fault /\ failed' = failed \union {t}
  /\ Go(t, "guards")
  /\ UNCHANGED <<lock, cached, slot, inits, limit, nthreads, plans, request,
                 guards, built, calls>>

DestroyPlan(t) ==
  /\ pc[t] = "destroy"
  /\ built' = [built EXCEPT ![t] = @ - 1]
  /\ Go(t, "guards")
  /\ UNCHANGED <<lock, cached, slot, inits, limit, nthreads, plans, request, guards,
                 failed, calls, faults>>

(* Mutant: the lock is the first to go. *)
LockFirst(held) ==
  IF "lock" \in held THEN "lock" ELSE IF "limit" \in held THEN "limit" ELSE "threads"

(* The guard made last, with the limit's dropped by hand before the others.*)
Youngest(held) ==
  IF "limit" \in held THEN "limit" ELSE IF "threads" \in held THEN "threads" ELSE "lock"

DropGuard(t) ==
  /\ pc[t] = "guards" /\ guards[t] # {}
  /\ LET g == Youngest(guards[t])
     IN  /\ guards' = [guards EXCEPT ![t] = @ \ {g}]
         /\ limit' = IF g = "limit" THEN Unlimited ELSE limit
         /\ nthreads' = IF g = "threads" THEN 1 ELSE nthreads
         /\ lock' = IF g = "lock" THEN Nobody ELSE lock
  /\ UNCHANGED <<cached, slot, inits, plans, pc, request, built, failed, calls, faults>>

(* The first plan of a pair is dropped when there is no second. *)
Orphan(t) == t \in failed /\ built[t] > 0

(* The end of a Plan::new, and of the call. *)
End(t) ==
  /\ pc[t] = "end" \/ (pc[t] = "guards" /\ guards[t] = {})
  /\ IF t \notin failed /\ Op(t) \in PlanOp /\ built[t] < Wanted(Op(t))
     THEN Go(t, "table") /\ UNCHANGED <<plans, built>>
     ELSE IF Orphan(t)
     THEN Go(t, "lock") /\ UNCHANGED <<plans, built>>
     ELSE /\ Go(t, "idle")
          /\ plans' = plans + (IF t \in failed THEN 0 ELSE built[t])
          /\ built' = [built EXCEPT ![t] = 0]
  /\ UNCHANGED <<lock, cached, slot, inits, limit, nthreads, request, guards,
                 failed, calls, faults>>

----------------------------------------------------------------------------

Step(t) ==
  \/ Call(t) \/ LoadTable(t) \/ PlanningBuffers(t) \/ Lock(t)
  \/ SetThreads(t) \/ SetLimit(t) \/ MakePlan(t) \/ UseWisdom(t) \/ DestroyPlan(t)
  \/ DropGuard(t) \/ End(t)

Done ==
  /\ \A t \in Thread : pc[t] = "idle" /\ calls[t] = MaxCalls
  /\ UNCHANGED vars

Next == (\E t \in Thread : Step(t)) \/ Done

Spec == Init /\ [][Next]_vars

----------------------------------------------------------------------------
(* Properties.                                                             *)

Place == {"idle", "table", "buffers", "lock", "threads", "limit", "planner", "wisdom",
          "destroy", "guards", "end"}

Slot == {"none", "set", "load error", "init error"}

TypeOK ==
  /\ lock \in Thread \union {Nobody}
  /\ cached \in BOOLEAN
  /\ slot \in Slot
  /\ inits \in Nat /\ plans \in Nat
  /\ limit \in TimeLimit \union {Unlimited} /\ nthreads \in Count \union {1}
  /\ pc \in [Thread -> Place]
  /\ request \in [Thread -> Requests]
  /\ guards \in [Thread -> SUBSET {"lock", "threads", "limit"}]
  /\ built \in [Thread -> Nat]
  /\ failed \subseteq Thread
  /\ calls \in [Thread -> Nat] /\ faults \in Nat

(* Inside the lock, in a routine of FFTW or on the way to one. *)
Inside(t) == pc[t] \in {"threads", "limit", "planner", "wisdom", "destroy"}

(* FFTW's planner runs for one thread at a time, with the limit and the    *)
(* thread count of that call and not of another ("planning, destruction    *)
(* and time limits are serialized"), and both are the defaults whenever    *)
(* nobody holds the lock, whichever way the last call went.                *)
PlansWithOwnSettings ==
  /\ \A t, u \in Thread : Inside(t) /\ Inside(u) => t = u
  /\ \A t \in Thread : pc[t] = "planner" =>
       limit = request[t].limit /\ nthreads = request[t].count
  /\ lock = Nobody => limit = Unlimited /\ nthreads = 1

(* "Initialization precedes any base routine": FFTW plans and handles      *)
(* wisdom only after the thread library has been tried, never after it     *)
(* was initialised and failed, and initialises it once.                    *)
InitComesFirst ==
  /\ \A t \in Thread : pc[t] \in {"planner", "wisdom"} => slot \in {"set", "load error"}
  /\ \A t \in Thread : pc[t] = "destroy" => slot # "none"
  /\ inits <= 1
===============================================================================
