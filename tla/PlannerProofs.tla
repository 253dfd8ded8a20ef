----------------------------- MODULE PlannerProofs -----------------------------
(***************************************************************************)
(* Planner's two properties for any number of threads, counts and limits.  *)
(*                                                                         *)
(* The argument: a thread holds the lock exactly when its stack has the    *)
(* lock's guard, and settings differ from the defaults only while the      *)
(* guard that resets them is on that stack above the lock's.  A plan       *)
(* exists, finished or not, only after the thread library was tried.       *)
(***************************************************************************)
EXTENDS Planner, TLAPS

(* The holder of the lock has its guard, and no other stack has one. *)
LockIsGuarded(t) ==
  /\ "lock" \in guards[t] <=> lock = t
  /\ guards[t] # {} => lock = t /\ (Inside(t) \/ pc[t] = "guards")
  /\ Inside(t) => "lock" \in guards[t]
  /\ pc[t] = "threads" => guards[t] = {"lock"}

(* Settings without a guard are the defaults. *)
SettingsAreGuarded(t) ==
  lock = t =>
    /\ "limit" \in guards[t] \/ limit = Unlimited
    /\ "threads" \in guards[t] \/ nthreads = 1

(* On the way to FFTW's planner the settings are those of the call. *)
SettingsAreOwn(t) ==
  /\ pc[t] \in {"limit", "planner"} => nthreads = request[t].count
  /\ pc[t] = "planner" => limit = request[t].limit
  /\ pc[t] \in {"limit", "planner", "wisdom"} => slot \in {"set", "load error"}

(* Whoever destroys a plan has one, others have not failed yet. *)
PlansExist(t) ==
  /\ pc[t] \in {"table", "buffers", "threads", "limit", "planner", "wisdom"} =>
       t \notin failed /\ Op(t) # "drop"
  /\ pc[t] = "lock" /\ Destroying(t) => built[t] > 0
  /\ pc[t] = "destroy" => built[t] > 0
  /\ built[t] > 0 => slot # "none"

FreeIsDefault == lock = Nobody => limit = Unlimited /\ nthreads = 1

Initialised ==
  /\ slot = "none" => inits = 0
  /\ inits <= 1
  /\ plans > 0 => slot # "none"

ThreadInv(t) ==
  LockIsGuarded(t) /\ SettingsAreGuarded(t) /\ SettingsAreOwn(t) /\ PlansExist(t)

IInv == TypeOK /\ FreeIsDefault /\ Initialised /\ \A t \in Thread : ThreadInv(t)

----------------------------------------------------------------------------

(* No call has begun. *)
LEMMA InitIInv == Init => IInv
<1> SUFFICES ASSUME Init PROVE IInv
  OBVIOUS
<1>1. NoCall \in Requests
  BY DEF NoCall, Requests, Unlimited
<1>2. TypeOK
  BY <1>1 DEF Init, TypeOK, Place, Slot, Unlimited
<1>3. FreeIsDefault /\ Initialised
  BY DEF Init, FreeIsDefault, Initialised
<1>4. ASSUME NEW t \in Thread PROVE ThreadInv(t)
  BY PlannerAssumption
  DEF Init, ThreadInv, LockIsGuarded, SettingsAreGuarded, SettingsAreOwn, PlansExist, Inside
<1> QED BY <1>2, <1>3, <1>4 DEF IInv

(* What a request asks for. *)
LEMMA RequestFields ==
  \A q \in Requests : /\ q.count \in Count \union {1}
                      /\ q.limit \in TimeLimit \union {Unlimited}
BY DEF Requests

LEMMA CallPreserves ==
  ASSUME IInv, NEW t \in Thread, Call(t)
  PROVE  IInv'
<1> USE PlannerAssumption
<1>1. TypeOK'
  BY DEF IInv, TypeOK, PlansExist, ThreadInv, Inside, Call, Go, Requests, Place
<1>2. FreeIsDefault' /\ Initialised'
  BY DEF IInv, TypeOK, FreeIsDefault, Initialised, ThreadInv, LockIsGuarded, SettingsAreGuarded, PlansExist, Inside, Call, Go, Requests, Place
<1>3. ThreadInv(t)'
  <2>1. pc[t] = "idle" /\ ThreadInv(t) /\ guards[t] = {} /\ lock # t
    BY DEF Call, IInv, ThreadInv, LockIsGuarded, Inside
  <2>2. PICK q \in Requests :
          /\ request'[t] = q /\ failed' = failed \ {t}
          /\ \/ q.op = "drop" /\ plans > 0 /\ built'[t] = 1 /\ pc'[t] = "lock"
             \/ q.op # "drop" /\ pc'[t] = "table" /\ UNCHANGED <<plans, built>>
    BY DEF Call, Go, IInv, TypeOK
  <2>3. plans > 0 => slot # "none"
    BY DEF IInv, Initialised
  <2>4. UNCHANGED <<lock, guards, slot, limit, nthreads>>
    BY DEF Call
  <2>5. LockIsGuarded(t)' /\ SettingsAreGuarded(t)' /\ SettingsAreOwn(t)'
    BY <2>1, <2>2, <2>4 DEF ThreadInv, LockIsGuarded, SettingsAreGuarded, SettingsAreOwn, Inside
  <2>6. PlansExist(t)'
    BY <2>1, <2>2, <2>3, <2>4 DEF ThreadInv, PlansExist, Destroying, Op
  <2> QED BY <2>5, <2>6 DEF ThreadInv
<1>4. ASSUME NEW u \in Thread, u # t PROVE ThreadInv(u)'
  <2>1. ThreadInv(u)
    BY DEF IInv
  <2>2. /\ pc'[u] = pc[u] /\ request'[u] = request[u] /\ built'[u] = built[u]
        /\ u \in failed' <=> u \in failed
    BY <1>4 DEF Call, Go, IInv, TypeOK
  <2>3. UNCHANGED <<lock, guards, slot, limit, nthreads>>
    BY DEF Call
  <2>4. LockIsGuarded(u)' /\ SettingsAreGuarded(u)' /\ SettingsAreOwn(u)'
    BY <2>1, <2>2, <2>3
    DEF ThreadInv, LockIsGuarded, SettingsAreGuarded, SettingsAreOwn, Inside
  <2>5. PlansExist(u)'
    BY <2>1, <2>2, <2>3 DEF ThreadInv, PlansExist, Destroying, Op
  <2> QED BY <2>4, <2>5 DEF ThreadInv
<1> QED BY <1>1, <1>2, <1>3, <1>4 DEF IInv

LEMMA LoadTablePreserves ==
  ASSUME IInv, NEW t \in Thread, LoadTable(t)
  PROVE  IInv'
<1> USE PlannerAssumption
<1>1. TypeOK'
  <2>1. AfterTable(Op(t)) \in Place
    BY DEF AfterTable, Place
  <2>2. cached' \in BOOLEAN
    BY DEF IInv, TypeOK, LoadTable
  <2>3. faults' \in Nat
    BY DEF IInv, TypeOK, LoadTable, Fault
  <2>4. pc' \in [Thread -> Place] /\ failed' \subseteq Thread
    BY <2>1 DEF IInv, TypeOK, LoadTable, Go, Place
  <2> QED BY <2>2, <2>3, <2>4 DEF IInv, TypeOK, LoadTable
<1>2. FreeIsDefault' /\ Initialised'
  BY DEF IInv, TypeOK, FreeIsDefault, Initialised, ThreadInv, LockIsGuarded, SettingsAreGuarded, PlansExist, Inside, LoadTable, AfterTable, Go, Fault, Place, PlanOp, WisdomOp, Op
<1>3. ThreadInv(t)'
  <2>1. pc[t] = "table" /\ ThreadInv(t) /\ t \notin failed /\ Op(t) # "drop"
    BY DEF LoadTable, IInv, ThreadInv, PlansExist
  <2>2. /\ \/ pc'[t] \in {"buffers", "lock", "end"} /\ failed' = failed
           \/ pc'[t] = "end"
        /\ UNCHANGED <<lock, slot, limit, nthreads, request, guards, built>>
    BY DEF LoadTable, AfterTable, Go, IInv, TypeOK
  <2>3. LockIsGuarded(t)' /\ SettingsAreGuarded(t)' /\ SettingsAreOwn(t)'
    BY <2>1, <2>2 DEF ThreadInv, LockIsGuarded, SettingsAreGuarded, SettingsAreOwn, Inside
  <2>4. PlansExist(t)'
    BY <2>1, <2>2 DEF ThreadInv, PlansExist, Destroying, Op
  <2> QED BY <2>3, <2>4 DEF ThreadInv
<1>4. ASSUME NEW u \in Thread, u # t PROVE ThreadInv(u)'
  <2>1. ThreadInv(u)
    BY DEF IInv
  <2>2. /\ pc'[u] = pc[u] /\ (u \in failed' <=> u \in failed)
        /\ UNCHANGED <<lock, slot, limit, nthreads, request, guards, built>>
    BY <1>4 DEF LoadTable, Go, IInv, TypeOK
  <2>3. LockIsGuarded(u)' /\ SettingsAreGuarded(u)' /\ SettingsAreOwn(u)'
    BY <2>1, <2>2 DEF ThreadInv, LockIsGuarded, SettingsAreGuarded, SettingsAreOwn, Inside
  <2>4. PlansExist(u)'
    BY <2>1, <2>2 DEF ThreadInv, PlansExist, Destroying, Op
  <2> QED BY <2>3, <2>4 DEF ThreadInv
<1> QED BY <1>1, <1>2, <1>3, <1>4 DEF IInv

LEMMA PlanningBuffersPreserves ==
  ASSUME IInv, NEW t \in Thread, PlanningBuffers(t)
  PROVE  IInv'
<1> USE PlannerAssumption
<1>1. TypeOK'
  BY DEF IInv, TypeOK, PlansExist, ThreadInv, Inside, PlanningBuffers, Go, Fault, Place
<1>2. FreeIsDefault' /\ Initialised'
  BY DEF IInv, TypeOK, FreeIsDefault, Initialised, ThreadInv, LockIsGuarded, SettingsAreGuarded, PlansExist, Inside, PlanningBuffers, Go, Fault, Place
<1>3. ThreadInv(t)'
  BY DEF IInv, TypeOK, FreeIsDefault, Initialised, ThreadInv, LockIsGuarded, SettingsAreGuarded, SettingsAreOwn,
         PlansExist, Inside, Destroying, Op, PlanningBuffers, Go, Fault, Place
<1>4. ASSUME NEW u \in Thread, u # t PROVE ThreadInv(u)'
  BY <1>4 DEF IInv, TypeOK, ThreadInv, LockIsGuarded, SettingsAreGuarded, SettingsAreOwn,
         PlansExist, Inside, Destroying, Op, PlanningBuffers, Go, Fault, Place
<1> QED BY <1>1, <1>2, <1>3, <1>4 DEF IInv

LEMMA LockPreserves ==
  ASSUME IInv, NEW t \in Thread, Lock(t)
  PROVE  IInv'
<1> USE PlannerAssumption
<1>1. TypeOK'
  BY DEF IInv, TypeOK, PlansExist, ThreadInv, Inside, Lock, Go, Place
<1>2. FreeIsDefault' /\ Initialised'
  BY DEF IInv, TypeOK, FreeIsDefault, Initialised, ThreadInv, LockIsGuarded, SettingsAreGuarded, PlansExist, Inside, Lock, Go, Place
<1>3. ThreadInv(t)'
  BY DEF IInv, TypeOK, FreeIsDefault, Initialised, ThreadInv, LockIsGuarded, SettingsAreGuarded, SettingsAreOwn,
         PlansExist, Inside, Destroying, Op, Lock, Go, Place
<1>4. ASSUME NEW u \in Thread, u # t PROVE ThreadInv(u)'
  BY <1>4 DEF IInv, TypeOK, ThreadInv, LockIsGuarded, SettingsAreGuarded, SettingsAreOwn,
         PlansExist, Inside, Destroying, Op, Lock, Go, Place
<1> QED BY <1>1, <1>2, <1>3, <1>4 DEF IInv

(* The thread library has been tried. *)
LEMMA ThreadsTried ==
  ASSUME IInv, NEW t \in Thread, SetThreads(t)
  PROVE  /\ slot' \in Slot /\ slot' # "none"
         /\ inits' \in Nat /\ inits' <= 1
         /\ faults' \in Nat
<1>1. inits \in Nat /\ faults \in Nat /\ slot \in Slot
  BY DEF IInv, TypeOK
<1>2. inits <= 1 /\ (slot = "none" => inits = 0)
  BY DEF IInv, Initialised
<1>3. LoadThreads
  BY DEF SetThreads
<1>4. CASE slot = "none" /\ slot' = "set" /\ inits' = inits + 1 /\ UNCHANGED faults
  BY <1>1, <1>2, <1>4 DEF Slot
<1>5. CASE slot = "none" /\ slot' = "load error" /\ Fault /\ UNCHANGED inits
  <2>1. slot' \in Slot /\ slot' # "none"
    BY <1>5 DEF Slot
  <2>2. inits' = inits /\ faults' = faults + 1
    BY <1>5 DEF Fault
  <2> QED BY <1>1, <1>2, <2>1, <2>2
<1>6. CASE slot = "none" /\ slot' = "init error" /\ inits' = inits + 1 /\ Fault
  <2>1. slot' \in Slot /\ slot' # "none"
    BY <1>6 DEF Slot
  <2>2. inits = 0 /\ inits' = inits + 1 /\ faults' = faults + 1
    BY <1>2, <1>6 DEF Fault
  <2> QED BY <1>1, <2>1, <2>2
<1>7. CASE slot # "none" /\ UNCHANGED <<slot, inits, faults>>
  BY <1>1, <1>2, <1>7
<1> QED BY <1>3, <1>4, <1>5, <1>6, <1>7, Zenon DEF LoadThreads

LEMMA SetThreadsPreserves ==
  ASSUME IInv, NEW t \in Thread, SetThreads(t)
  PROVE  IInv'
<1> USE PlannerAssumption
<1>0. /\ slot' \in Slot /\ slot' # "none"
      /\ inits' \in Nat /\ inits' <= 1
      /\ faults' \in Nat
  BY ThreadsTried
<1>1. pc[t] = "threads" /\ ThreadInv(t) /\ TypeOK /\ lock \in Thread \union {Nobody}
  BY DEF SetThreads, IInv, TypeOK
<1>2. /\ guards[t] = {"lock"} /\ lock = t /\ nthreads = 1 /\ limit = Unlimited
      /\ t \notin failed /\ Op(t) # "drop"
  BY <1>1 DEF ThreadInv, LockIsGuarded, SettingsAreGuarded, PlansExist
<1>3. request[t].count \in Count \union {1}
  <2>1. request[t] \in Requests
    BY DEF IInv, TypeOK
  <2> QED BY <2>1, RequestFields
<1>4. TypeOK'
  <2>1. /\ \/ nthreads' = nthreads \/ nthreads' = request[t].count
        /\ \/ guards' = guards \/ guards' = [guards EXCEPT ![t] = @ \union {"threads"}]
        /\ \/ failed' = failed \/ failed' = failed \union {t}
    BY DEF SetThreads
  <2>2. pc' \in [Thread -> Place]
    BY <1>1 DEF SetThreads, TypeOK, Go, Place
  <2>3. guards' \in [Thread -> SUBSET {"lock", "threads", "limit"}]
    BY <1>1, <2>1 DEF TypeOK
  <2>4. UNCHANGED <<lock, cached, limit, plans, request, built, calls>>
    BY DEF SetThreads
  <2> QED BY <1>0, <1>1, <1>3, <2>1, <2>2, <2>3, <2>4 DEF TypeOK
<1>5. FreeIsDefault' /\ Initialised'
  BY <1>0, <1>1, <1>2 DEF FreeIsDefault, Initialised, SetThreads
<1>6. ThreadInv(t)'
  <2>1. UNCHANGED <<lock, limit, request, built>> /\ Op(t)' = Op(t)
    BY DEF SetThreads, Op
  <2>2. CASE Settable(t)
    <3>1. /\ pc'[t] = "limit" \/ pc'[t] = "wisdom"
          /\ failed' = failed
          /\ \/ /\ Op(t) \in PlanOp /\ slot' = "set"
                /\ guards'[t] = {"lock", "threads"} /\ nthreads' = request[t].count
             \/ /\ pc'[t] = "limit" => slot' # "set"
                /\ guards'[t] = {"lock"} /\ nthreads' = 1
      BY <1>1, <1>2, <2>2 DEF SetThreads, Go, TypeOK
    <3>2. slot' \in {"set", "load error"} /\ (slot' # "set" => request[t].count = 1)
      BY <1>0, <2>2 DEF Settable, Slot
    <3>3. LockIsGuarded(t)' /\ SettingsAreGuarded(t)'
      BY <1>2, <2>1, <3>1 DEF LockIsGuarded, SettingsAreGuarded, Inside
    <3>4. SettingsAreOwn(t)'
      BY <2>1, <3>1, <3>2 DEF SettingsAreOwn
    <3>5. PlansExist(t)'
      BY <1>0, <1>2, <2>1, <3>1 DEF PlansExist
    <3> QED BY <3>3, <3>4, <3>5 DEF ThreadInv
  <2>3. CASE ~ Settable(t)
    <3>1. pc'[t] = "guards" /\ guards' = guards /\ nthreads' = nthreads
      BY <1>1, <2>3 DEF SetThreads, Go, TypeOK
    <3>2. LockIsGuarded(t)' /\ SettingsAreGuarded(t)' /\ SettingsAreOwn(t)'
      BY <1>2, <2>1, <3>1 DEF LockIsGuarded, SettingsAreGuarded, SettingsAreOwn, Inside
    <3>3. PlansExist(t)'
      BY <1>0, <2>1, <3>1 DEF PlansExist
    <3> QED BY <3>2, <3>3 DEF ThreadInv
  <2> QED BY <2>2, <2>3
<1>7. ASSUME NEW u \in Thread, u # t PROVE ThreadInv(u)'
  <2>1. ThreadInv(u) /\ lock # u
    BY <1>2, <1>7 DEF IInv
  <2>2. /\ pc'[u] = pc[u] /\ guards'[u] = guards[u] /\ (u \in failed' <=> u \in failed)
        /\ UNCHANGED <<lock, request, built>>
    BY <1>1, <1>7 DEF SetThreads, Go, TypeOK
  <2>3. LockIsGuarded(u)' /\ SettingsAreGuarded(u)'
    BY <2>1, <2>2 DEF ThreadInv, LockIsGuarded, SettingsAreGuarded, Inside
  <2>4. pc[u] \notin {"limit", "planner", "wisdom"}
    BY <2>1 DEF ThreadInv, LockIsGuarded, Inside
  <2>5. SettingsAreOwn(u)'
    BY <2>2, <2>4 DEF SettingsAreOwn
  <2>6. PlansExist(u)'
    BY <1>0, <2>1, <2>2 DEF ThreadInv, PlansExist, Destroying, Op
  <2> QED BY <2>3, <2>5, <2>6 DEF ThreadInv
<1> QED BY <1>4, <1>5, <1>6, <1>7 DEF IInv

LEMMA SetLimitPreserves ==
  ASSUME IInv, NEW t \in Thread, SetLimit(t)
  PROVE  IInv'
<1> USE PlannerAssumption
<1>1. TypeOK'
  BY DEF IInv, TypeOK, PlansExist, ThreadInv, Inside, SetLimit, Go, Place, Requests
<1>2. FreeIsDefault' /\ Initialised'
  BY DEF IInv, TypeOK, FreeIsDefault, Initialised, ThreadInv, LockIsGuarded, SettingsAreGuarded, PlansExist, Inside, SetLimit, Go, Place, Requests
<1>3. ThreadInv(t)'
  BY DEF IInv, TypeOK, FreeIsDefault, Initialised, ThreadInv, LockIsGuarded, SettingsAreGuarded, SettingsAreOwn,
         PlansExist, Inside, Destroying, Op, SetLimit, Go, Place, Requests
<1>4. ASSUME NEW u \in Thread, u # t PROVE ThreadInv(u)'
  BY <1>4 DEF IInv, TypeOK, ThreadInv, LockIsGuarded, SettingsAreGuarded, SettingsAreOwn,
         PlansExist, Inside, Destroying, Op, SetLimit, Go, Place, Requests
<1> QED BY <1>1, <1>2, <1>3, <1>4 DEF IInv

LEMMA MakePlanPreserves ==
  ASSUME IInv, NEW t \in Thread, MakePlan(t)
  PROVE  IInv'
<1> USE PlannerAssumption
<1>1. TypeOK'
  BY DEF IInv, TypeOK, PlansExist, ThreadInv, Inside, MakePlan, Go, Fault, Place
<1>2. FreeIsDefault' /\ Initialised'
  BY DEF IInv, TypeOK, FreeIsDefault, Initialised, ThreadInv, LockIsGuarded, SettingsAreGuarded, PlansExist, Inside, MakePlan, Go, Fault, Place
<1>3. ThreadInv(t)'
  BY DEF IInv, TypeOK, FreeIsDefault, Initialised, ThreadInv, LockIsGuarded, SettingsAreGuarded, SettingsAreOwn,
         PlansExist, Inside, Destroying, Op, MakePlan, Go, Fault, Place
<1>4. ASSUME NEW u \in Thread, u # t PROVE ThreadInv(u)'
  BY <1>4 DEF IInv, TypeOK, ThreadInv, LockIsGuarded, SettingsAreGuarded, SettingsAreOwn,
         PlansExist, Inside, Destroying, Op, MakePlan, Go, Fault, Place
<1> QED BY <1>1, <1>2, <1>3, <1>4 DEF IInv

LEMMA UseWisdomPreserves ==
  ASSUME IInv, NEW t \in Thread, UseWisdom(t)
  PROVE  IInv'
<1> USE PlannerAssumption
<1>1. TypeOK'
  BY DEF IInv, TypeOK, PlansExist, ThreadInv, Inside, UseWisdom, Go, Fault, Place
<1>2. FreeIsDefault' /\ Initialised'
  BY DEF IInv, TypeOK, FreeIsDefault, Initialised, ThreadInv, LockIsGuarded, SettingsAreGuarded, PlansExist, Inside, UseWisdom, Go, Fault, Place
<1>3. ThreadInv(t)'
  BY DEF IInv, TypeOK, FreeIsDefault, Initialised, ThreadInv, LockIsGuarded, SettingsAreGuarded, SettingsAreOwn,
         PlansExist, Inside, Destroying, Op, UseWisdom, Go, Fault, Place
<1>4. ASSUME NEW u \in Thread, u # t PROVE ThreadInv(u)'
  BY <1>4 DEF IInv, TypeOK, ThreadInv, LockIsGuarded, SettingsAreGuarded, SettingsAreOwn,
         PlansExist, Inside, Destroying, Op, UseWisdom, Go, Fault, Place
<1> QED BY <1>1, <1>2, <1>3, <1>4 DEF IInv

LEMMA DestroyPlanPreserves ==
  ASSUME IInv, NEW t \in Thread, DestroyPlan(t)
  PROVE  IInv'
<1> USE PlannerAssumption
<1>1. TypeOK'
  BY DEF IInv, TypeOK, PlansExist, ThreadInv, Inside, DestroyPlan, Go, Place
<1>2. FreeIsDefault' /\ Initialised'
  BY DEF IInv, TypeOK, FreeIsDefault, Initialised, ThreadInv, LockIsGuarded, SettingsAreGuarded, PlansExist, Inside, DestroyPlan, Go, Place
<1>3. ThreadInv(t)'
  BY DEF IInv, TypeOK, FreeIsDefault, Initialised, ThreadInv, LockIsGuarded, SettingsAreGuarded, SettingsAreOwn,
         PlansExist, Inside, Destroying, Op, DestroyPlan, Go, Place
<1>4. ASSUME NEW u \in Thread, u # t PROVE ThreadInv(u)'
  BY <1>4 DEF IInv, TypeOK, ThreadInv, LockIsGuarded, SettingsAreGuarded, SettingsAreOwn,
         PlansExist, Inside, Destroying, Op, DestroyPlan, Go, Place
<1> QED BY <1>1, <1>2, <1>3, <1>4 DEF IInv

LEMMA DropGuardPreserves ==
  ASSUME IInv, NEW t \in Thread, DropGuard(t)
  PROVE  IInv'
<1> USE PlannerAssumption
<1>1. TypeOK'
  BY DEF IInv, TypeOK, PlansExist, ThreadInv, Inside, DropGuard, Youngest
<1>2. FreeIsDefault' /\ Initialised'
  BY DEF IInv, TypeOK, FreeIsDefault, Initialised, ThreadInv, LockIsGuarded, SettingsAreGuarded, PlansExist, Inside, DropGuard, Youngest
<1>3. ThreadInv(t)'
  <2>1. pc[t] = "guards" /\ pc'[t] = "guards" /\ lock = t /\ "lock" \in guards[t]
    BY DEF DropGuard, IInv, ThreadInv, LockIsGuarded
  <2>2. UNCHANGED <<slot, request, built, failed>>
    BY DEF DropGuard
  <2>3. SettingsAreGuarded(t) /\ PlansExist(t) /\ t # Nobody
    BY DEF IInv, ThreadInv
  <2>4. PICK g \in {"limit", "threads", "lock"} :
          /\ g = Youngest(guards[t])
          /\ guards'[t] = guards[t] \ {g}
          /\ limit' = IF g = "limit" THEN Unlimited ELSE limit
          /\ nthreads' = IF g = "threads" THEN 1 ELSE nthreads
          /\ lock' = IF g = "lock" THEN Nobody ELSE lock
    BY DEF DropGuard, Youngest, IInv, TypeOK
  <2>5. guards[t] \subseteq {"lock", "threads", "limit"}
    BY DEF IInv, TypeOK
  <2>6. ASSUME g = "lock" PROVE guards[t] = {"lock"}
    <3>1. "limit" \notin guards[t] /\ "threads" \notin guards[t]
      BY <2>4, <2>6 DEF Youngest
    <3> QED BY <2>1, <2>5, <3>1
  <2>7. LockIsGuarded(t)' /\ SettingsAreGuarded(t)'
    BY <2>1, <2>3, <2>4, <2>5, <2>6 DEF LockIsGuarded, SettingsAreGuarded, Inside
  <2>8. SettingsAreOwn(t)' /\ PlansExist(t)'
    BY <2>1, <2>2, <2>3 DEF SettingsAreOwn, PlansExist
  <2> QED BY <2>7, <2>8 DEF ThreadInv
<1>4. ASSUME NEW u \in Thread, u # t PROVE ThreadInv(u)'
  BY <1>4 DEF IInv, TypeOK, ThreadInv, LockIsGuarded, SettingsAreGuarded, SettingsAreOwn,
         PlansExist, Inside, Destroying, Op, DropGuard, Youngest
<1> QED BY <1>1, <1>2, <1>3, <1>4 DEF IInv

LEMMA EndPreserves ==
  ASSUME IInv, NEW t \in Thread, End(t)
  PROVE  IInv'
<1> USE PlannerAssumption
<1>1. /\ guards[t] = {} /\ lock # t
      /\ UNCHANGED <<lock, cached, slot, inits, limit, nthreads, request, guards, failed, calls, faults>>
  BY DEF End, IInv, ThreadInv, LockIsGuarded, Inside
<1>2. /\ TypeOK /\ FreeIsDefault /\ Initialised /\ built[t] \in Nat /\ plans \in Nat
      /\ built[t] > 0 => slot # "none"
      /\ plans > 0 => slot # "none"
  BY DEF IInv, TypeOK, Initialised, ThreadInv, PlansExist
<1>3. /\ \/ /\ t \notin failed /\ Op(t) # "drop" /\ pc' = [pc EXCEPT ![t] = "table"]
            /\ UNCHANGED <<plans, built>>
         \/ /\ built[t] > 0 /\ pc' = [pc EXCEPT ![t] = "lock"] /\ UNCHANGED <<plans, built>>
         \/ /\ pc' = [pc EXCEPT ![t] = "idle"] /\ built' = [built EXCEPT ![t] = 0]
            /\ plans' = plans \/ plans' = plans + built[t]
  <2>1. CASE t \notin failed /\ Op(t) \in PlanOp /\ built[t] < Wanted(Op(t))
    BY <2>1 DEF End, Go, PlanOp
  <2>2. CASE ~ (t \notin failed /\ Op(t) \in PlanOp /\ built[t] < Wanted(Op(t))) /\ Orphan(t)
    BY <2>2 DEF End, Go, Orphan
  <2>3. CASE ~ (t \notin failed /\ Op(t) \in PlanOp /\ built[t] < Wanted(Op(t))) /\ ~ Orphan(t)
    BY <1>2, <2>3 DEF End, Go
  <2> QED BY <2>1, <2>2, <2>3
<1>4. TypeOK'
  BY <1>1, <1>2, <1>3 DEF TypeOK, Place
<1>5. FreeIsDefault' /\ Initialised'
  BY <1>1, <1>2, <1>3 DEF FreeIsDefault, Initialised
<1>6. ThreadInv(t)'
  <2>1. LockIsGuarded(t)' /\ SettingsAreGuarded(t)' /\ SettingsAreOwn(t)'
    BY <1>1, <1>2, <1>3 DEF TypeOK, LockIsGuarded, SettingsAreGuarded, SettingsAreOwn, Inside
  <2>2. PlansExist(t)'
    BY <1>1, <1>2, <1>3 DEF TypeOK, PlansExist, Destroying, Op
  <2> QED BY <2>1, <2>2 DEF ThreadInv
<1>7. ASSUME NEW u \in Thread, u # t PROVE ThreadInv(u)'
  <2>1. ThreadInv(u) /\ pc'[u] = pc[u] /\ built'[u] = built[u]
    BY <1>2, <1>3, <1>7 DEF TypeOK, IInv
  <2> QED BY <1>1, <2>1
      DEF ThreadInv, LockIsGuarded, SettingsAreGuarded, SettingsAreOwn, PlansExist, Inside, Destroying, Op
<1> QED BY <1>4, <1>5, <1>6, <1>7 DEF IInv

----------------------------------------------------------------------------

(* Steps of every thread keep the invariant. *)
LEMMA StepIInv == IInv /\ [Next]_vars => IInv'
<1> SUFFICES ASSUME IInv, [Next]_vars PROVE IInv'
  OBVIOUS
<1>1. ASSUME NEW t \in Thread, Step(t) PROVE IInv'
  BY <1>1, CallPreserves, LoadTablePreserves, PlanningBuffersPreserves, LockPreserves, SetThreadsPreserves, SetLimitPreserves, MakePlanPreserves, UseWisdomPreserves, DestroyPlanPreserves, DropGuardPreserves, EndPreserves DEF Step
<1>2. CASE UNCHANGED vars
  BY <1>2 DEF vars, IInv, TypeOK, FreeIsDefault, Initialised, ThreadInv, LockIsGuarded, SettingsAreGuarded,
         SettingsAreOwn, PlansExist, Inside, Destroying, Op
<1>3. CASE Done
  BY <1>2, <1>3 DEF Done
<1> QED BY <1>1, <1>2, <1>3 DEF Next

LEMMA IInvAlways == Spec => []IInv
BY InitIInv, StepIInv, PTL DEF Spec

(* Every variable keeps its type: in particular no more plans are dropped  *)
(* than were made. *)
THEOREM PlannerTypes == Spec => []TypeOK
<1>1. IInv => TypeOK
  BY DEF IInv
<1> QED BY <1>1, IInvAlways, PTL

(* FFTW's planner runs for one thread at a time and with its settings, and *)
(* a free lock means the defaults: Plan::new and its guards, on every way  *)
(* out of it.                                                              *)
THEOREM PlansWithOwnSettingsAlways == Spec => []PlansWithOwnSettings
<1>1. ASSUME IInv PROVE PlansWithOwnSettings
  <2>1. ASSUME NEW t \in Thread, NEW u \in Thread, Inside(t), Inside(u) PROVE t = u
    BY <1>1, <2>1 DEF IInv, ThreadInv, LockIsGuarded
  <2>2. ASSUME NEW t \in Thread, pc[t] = "planner"
        PROVE  limit = request[t].limit /\ nthreads = request[t].count
    BY <1>1, <2>2 DEF IInv, ThreadInv, SettingsAreOwn
  <2>3. lock = Nobody => limit = Unlimited /\ nthreads = 1
    BY <1>1 DEF IInv, FreeIsDefault
  <2> QED BY <2>1, <2>2, <2>3 DEF PlansWithOwnSettings
<1> QED BY <1>1, IInvAlways, PTL

(* The thread library is tried before FFTW is used, and a failed           *)
(* initialisation ends the use of it: thread_setter.                       *)
THEOREM InitAlwaysComesFirst == Spec => []InitComesFirst
<1>1. ASSUME IInv PROVE InitComesFirst
  <2>1. ASSUME NEW t \in Thread, pc[t] \in {"planner", "wisdom"} PROVE slot \in {"set", "load error"}
    BY <1>1, <2>1 DEF IInv, ThreadInv, SettingsAreOwn
  <2>2. ASSUME NEW t \in Thread, pc[t] = "destroy" PROVE slot # "none"
    BY <1>1, <2>2 DEF IInv, ThreadInv, PlansExist
  <2>3. inits <= 1
    BY <1>1 DEF IInv, Initialised
  <2> QED BY <2>1, <2>2, <2>3 DEF InitComesFirst
<1> QED BY <1>1, IInvAlways, PTL
===============================================================================
