----------------------------- MODULE Collectives -----------------------------
(***************************************************************************)
(* Global reductions and gathers of distributed arrays (collectives.rs),   *)
(* with the calls of the spatial remap that share their communicator and   *)
(* their header (spatial_remap.rs).                                        *)
(*                                                                         *)
(* A call is a script of places.  At each place the ranks reduce words: a  *)
(* success flag, something that has to be equal, or data.  What comes next *)
(* depends on the words of all: several calls leave their script early, on *)
(* a NaN, on an infinity, on an empty array.                               *)
(*                                                                         *)
(* Values are integers up to Limit in magnitude.  An integer sum that      *)
(* leaves this range overflows; a floating-point sum becomes infinite.     *)
(* Each value of an array is one element of each result's input: callbacks *)
(* map a value to itself.                                                  *)
(***************************************************************************)
EXTENDS Reductions, Integers, FiniteSetsExt, SequencesExt

CONSTANTS
  Limit,         \* largest magnitude of a value
  Block(_, _),   \* Block(kind, r): arrays that rank r may have
  Operation,     \* operations the callers use
  Mistaken,      \* bound: those a rank calls when the others call another one
  MaxFaults      \* bound: local failures and calls that differ

Nobody == -1     \* a root that is not a rank

ASSUME CollectivesAssumption ==
  /\ Rank = 0..(Cardinality(Rank) - 1)
  /\ Limit \in Nat /\ MaxFaults \in Nat

VARIABLES
  kind,          \* element type of the program: "int", "float" or "zero" (zero-sized)
  block,         \* block[r]: values that rank r owns, in memory order
  place,         \* place of each rank: "idle", in its script, or "returned"
  call,          \* its call: operation, what it is about, root of a gather
  known,         \* what earlier reductions of its call have told it
  result,        \* what its call returned
  flight,        \* messages of gathers that are sent and not received
  faults

data == <<kind, block>>
vars == <<log, data, place, call, known, result, flight, faults>>

----------------------------------------------------------------------------
(* Arithmetic.                                                             *)

Infinity == Limit + 1
NaN      == 100 * Infinity
Overflow == 200 * Infinity       \* of a checked integer sum

Infinite(x) == x \in {Infinity, -Infinity}

Clamp(x) == IF x > Limit THEN Infinity ELSE IF x < -Limit THEN -Infinity ELSE x

FloatAdd(x, y) ==
  CASE NaN \in {x, y} \/ (Infinite(x) /\ y = -x) -> NaN
    [] Infinite(x) -> x
    [] Infinite(y) -> y
    [] OTHER -> Clamp(x + y)

CheckedAdd(x, y) ==
  IF x = Overflow \/ Infinite(Clamp(x + y)) THEN Overflow ELSE x + y

(* local_sum, and the sum of partials in rank order. *)
SumOf(values) ==
  FoldLeft(LAMBDA x, y : IF kind = "int" THEN CheckedAdd(x, y) ELSE FloatAdd(x, y), 0, values)

(* The flags of values: NaN, positive infinity, negative infinity. *)
Flags(values) ==
  LET in(x) == IF kind = "float" /\ x \in ToSet(values) THEN 1 ELSE 0
  IN  <<in(NaN), in(Infinity), in(-Infinity)>>

(* Absolute values without NaNs, their greatest, and their squares' sum:   *)
(* the code keeps the latter scaled by the greatest.                       *)
Magnitudes(values) ==
  LET finite == SelectSeq(values, LAMBDA x : x # NaN)
  IN  [i \in DOMAIN finite |-> IF finite[i] < 0 THEN -finite[i] ELSE finite[i]]

Scale(values) == FoldLeft(LAMBDA x, y : IF x > y THEN x ELSE y, 0, Magnitudes(values))

Squares(values) == FoldLeft(LAMBDA x, y : x + (y * y), 0, Magnitudes(values))

(* local_extreme, for the minimum: NaNs are left to the flags. *)
Least(values) ==
  FoldLeft(LAMBDA x, y : IF y # NaN /\ y < x THEN y ELSE x,
           IF kind = "int" THEN Limit ELSE Infinity, values)

Truth(values) == IF \E i \in DOMAIN values : values[i] # 0 THEN 1 ELSE 0

----------------------------------------------------------------------------
(* Scripts.                                                                *)

LayoutOp == {"sum", "sum_by", "min_by", "norm", "any", "gather"}
ZipOp    == {"zip_sum_by", "zip_norm_by", "map_reduce"}
ManyOp   == {"sum_many_by", "min_many_by", "norm_many_by", "map_reduce_many"}
RemapOp  == {"prepare", "apply_views"}

MappedSumOp == {"sum_by", "zip_sum_by", "sum_many_by"}
SumOp       == {"sum"} \union MappedSumOp
ExtremeOp   == {"min_by", "min_many_by"}
NormOp      == {"norm", "zip_norm_by", "norm_many_by"}
MapReduceOp == {"map_reduce", "map_reduce_many"}

ASSUME OperationAssumption == Mistaken \subseteq Operation /\ Operation \subseteq LayoutOp \union ZipOp \union ManyOp \union RemapOp

Descriptor == <<"header", "descriptor ready", "descriptor words">>

PrepareLayout     == Descriptor \o <<"count">>
PrepareMapReduce  == Descriptor \o <<"shape", "layout", "strides", "count">>
PrepareMany       == <<"header", "prepared", "length header">> \o Tail(Descriptor) \o <<"layout">>

Preparation(o) ==
  CASE o \in LayoutOp -> PrepareLayout
    [] o \in ZipOp    -> PrepareMapReduce
    [] o \in ManyOp   -> PrepareMany
    [] o \in RemapOp  -> <<"header">>

Partials == IF kind = "int" THEN <<"partials">> ELSE <<>>
References(o) == IF o \in ManyOp THEN <<"references">> ELSE <<>>
Total == IF kind = "int" THEN <<"gather partials">> ELSE <<"total", "flags">>

GatherBody ==
  <<"root", "metadata", "local count", "largest count", "first nonempty",
    "allocation", "duplicate", "messages">>

(* The metadata of a plan is compared one part after another, its reversed *)
(* axes first.                                                             *)
AgreeSigns          == <<"signs", "valid signs">>
AgreePencilMetadata == <<"topology", "shape", "grid", "size", "shape words">>
AgreePlanDescriptor == <<"length", "length words", "descriptor ready", "descriptor words">>

RemapBody ==
  AgreeSigns \o AgreePencilMetadata \o AgreePlanDescriptor
  \o <<"routes", "receive counts", "counts exchange", "receive layout", "request buffers",
        "requests exchange", "source offsets", "payload layout", "payload buffers", "datatype">>

SumLayout     == <<"sum">> \o Partials \o Total
MappedSum(o)  == Partials \o References(o) \o <<"sum">> \o Total
Extreme(o)    == References(o) \o <<"extreme", "flags">>
Norm(o)       == References(o) \o <<"flags", "scale", "squares">>
ApplyViews    == <<"descriptor words", "views", "payload exchange">>

Body(o) ==
  CASE o = "sum"          -> SumLayout
    [] o \in MappedSumOp  -> MappedSum(o)
    [] o \in ExtremeOp    -> Extreme(o)
    [] o \in NormOp       -> Norm(o)
    [] o = "any"          -> <<"truth">>
    [] o \in MapReduceOp  -> <<"partials", "gather partials">>
    [] o = "gather"       -> GatherBody
    [] o = "prepare"      -> RemapBody
    [] o = "apply_views"  -> ApplyViews

Script(o) == Preparation(o) \o Body(o) \o <<"return">>

Op(r) == call[r].op

Successor(r) ==
  LET s == Script(Op(r)) IN s[(CHOOSE i \in DOMAIN s : s[i] = place[r]) + 1]

(* Where a failure of one rank alone is possible. *)
Fallible ==
  {"descriptor ready", "count", "shape", "layout", "strides", "prepared", "partials", "references",
   "metadata", "local count", "allocation", "valid signs", "topology", "length", "routes",
   "receive counts", "receive layout", "request buffers", "source offsets", "payload layout",
   "payload buffers", "datatype", "views"}

----------------------------------------------------------------------------
(* Words.                                                                  *)

Counts == [r \in Rank |-> Len(block[r])]
GlobalCount == FoldSet(LAMBDA r, n : n + Counts[r], 0, Rank)

FirstNonempty ==
  IF GlobalCount = 0 THEN Cardinality(Rank) ELSE Min({r \in Rank : Counts[r] # 0})

(* What has to be equal: the header tells operations and lengths apart,    *)
(* the descriptor everything else.                                         *)
About(r, p) ==
  CASE p = "header" -> <<Op(r), call[r].about = "length">>
    [] p \in {"length header", "length words"} -> call[r].about = "length"
    [] p \in {"signs", "grid", "size", "shape words", "descriptor words"} ->
         <<call[r].about, call[r].root>>
    [] OTHER -> "nothing"

Data(r, p) ==
  CASE p = "overflow" -> <<IF SumOf(block[r]) = Overflow THEN 1 ELSE 0>>
    [] p \in {"gather partials", "total"} ->
         IF Op(r) \in MapReduceOp THEN block[r] ELSE <<SumOf(block[r])>>
    [] p = "flags"   -> Flags(block[r])
    [] p = "extreme" -> <<Least(block[r])>>
    [] p = "scale"   -> <<Scale(block[r])>>
    [] p = "squares" -> <<Squares(block[r])>>
    [] p = "truth"   -> <<Truth(block[r])>>
    [] p = "largest count"  -> <<Counts[r]>>
    [] p = "first nonempty" -> <<IF Counts[r] = 0 THEN Cardinality(Rank) ELSE r>>
    [] OTHER -> <<>>

Succeeds(r, p) ==
  CASE p = "sum"  -> SumOf(block[r]) # Overflow
    [] p = "root" -> call[r].root \in Rank
    [] p \in {"zero-sized", "diverged"} -> FALSE
    [] OTHER -> TRUE

Agreed(ws) == (\A w \in ws : w.ok) /\ (\A v, w \in ws : v.about = w.about)

(* Mutant: a rank whose own sum is fine goes on with the sum. *)
RefusedOwn(r) == IF place[r] = "sum" THEN ~ Own(r).word.ok ELSE ~ Agreed(Words(r))

Refused(r) == ~ Agreed(Words(r))

(* The data of all ranks, in rank order, and its reduction. *)
Gathered(r) == [i \in 1..Cardinality(Rank) |-> WordOf(i - 1, r).value]

Reduced(r, Combine(_, _)) ==
  LET words == Gathered(r)
      reduce[i \in DOMAIN words] ==
        IF i = 1 THEN words[1]
        ELSE [k \in DOMAIN words[i] |-> Combine(reduce[i - 1][k], words[i][k])]
  IN  reduce[Len(words)]

Greatest(r) == Reduced(r, LAMBDA x, y : IF x > y THEN x ELSE y)
Smallest(r) == Reduced(r, LAMBDA x, y : IF x < y THEN x ELSE y)
Summed(r)   == Reduced(r, LAMBDA x, y : x + y)

Partial(r) == [i \in DOMAIN Gathered(r) |-> Gathered(r)[i][1]]

(* What r knows when it leaves its place. *)
Learnt(r) ==
  CASE place[r] = "flags"   -> [known[r] EXCEPT !.flags = Greatest(r)]
    [] place[r] = "scale"   -> [known[r] EXCEPT !.value = Greatest(r)]
    [] place[r] = "extreme" -> [known[r] EXCEPT !.value = Smallest(r)]
    [] place[r] = "total"   -> [known[r] EXCEPT !.value = <<SumOf(Partial(r))>>]
    [] OTHER -> known[r]

Unknown == [flags |-> <<0, 0, 0>>, value |-> <<>>]

(* Where r goes from a complete reduction. *)
Target(r) ==
  CASE Refused(r) -> IF place[r] = "sum" THEN "overflow" ELSE "return"
    [] place[r] = "overflow" -> "return"
    [] Op(r) \in NormOp /\ place[r] = "flags" /\ Learnt(r).flags[1] # 0 -> "return"
    [] Op(r) \in NormOp /\ place[r] = "scale"
         /\ (known[r].flags # <<0, 0, 0>> \/ Greatest(r)[1] \in {0, Infinity} \/ GlobalCount = 0) ->
           "return"
    [] place[r] = "flags" /\ Op(r) \notin NormOp -> "return"
    [] place[r] = "root" /\ kind = "zero" -> "zero-sized"
    [] Op(r) = "prepare" /\ place[r] = "descriptor words" /\ kind = "zero" -> "return"
    [] place[r] = "first nonempty" /\ Smallest(r) # <<FirstNonempty>> -> "diverged"
    [] OTHER -> Successor(r)

----------------------------------------------------------------------------
(* Results.                                                                *)

(* Mutant: the reduced total is trusted. *)
FloatSumUnflagged(total, flags) == total

(* The flags of the inputs decide before the total does. *)
FloatSum(total, flags) ==
  CASE flags[1] # 0 \/ (flags[2] # 0 /\ flags[3] # 0) -> NaN
    [] flags[2] # 0 -> Infinity
    [] flags[3] # 0 -> -Infinity
    [] OTHER -> total

Overflowed(r) == Greatest(r) = <<1>>

Failure(status) == [status |-> status, value |-> <<>>]
Success(value) == [status |-> "ok", value |-> value]

NormValue(r) ==
  CASE Learnt(r).flags[1] # 0 -> <<NaN>>
    [] known[r].flags # <<0, 0, 0>> \/ Learnt(r).value = <<Infinity>> -> <<Infinity>>
    [] place[r] = "scale" -> <<0>>
    [] OTHER -> Summed(r)

(* What r returns from a complete reduction. *)
Outcome(r) ==
  CASE place[r] = "overflow" ->
         Failure(IF Overflowed(r) THEN "IntegerOverflow" ELSE "CollectivePreconditionFailed")
    [] place[r] # "overflow" /\ Refused(r) ->
         Failure(IF place[r] \in {"header", "length header", "length words", "signs", "grid",
                                  "size", "shape words", "descriptor words"}
                 THEN "CollectiveDescriptorMismatch" ELSE "CollectivePreconditionFailed")
    [] place[r] = "descriptor words" /\ ~ Refused(r) -> Failure("UnsupportedDatatype")
    [] Op(r) \in SumOp /\ place[r] = "gather partials" ->
         IF SumOf(Partial(r)) = Overflow THEN Failure("IntegerOverflow") ELSE Success(<<SumOf(Partial(r))>>)
    [] Op(r) \in SumOp /\ place[r] = "flags" ->
         Success(<<FloatSum(known[r].value[1], Learnt(r).flags)>>)
    [] Op(r) \in ExtremeOp /\ place[r] = "flags" ->
         Success(IF GlobalCount = 0 THEN <<>>
                 ELSE IF Learnt(r).flags[1] # 0 THEN <<NaN>> ELSE known[r].value)
    [] Op(r) \in NormOp /\ ~ Refused(r) -> Success(NormValue(r))
    [] place[r] = "truth" -> Success(Greatest(r))
    [] Op(r) \in MapReduceOp /\ ~ Refused(r) -> Success(FlattenSeq(Gathered(r)))
    [] OTHER -> Success(<<>>)

----------------------------------------------------------------------------
(* Steps.                                                                  *)

Fault(bad) ==
  /\ bad => faults < MaxFaults
  /\ faults' = IF bad THEN faults + 1 ELSE faults

(* Every rank calls the same operation on the same arrays, unless one of   *)
(* them does not: the error the preparation is there for.                  *)
Begin(r) ==
  /\ place[r] = "idle"
  /\ \E c \in [op : Operation, about : {"same", "length", "words"}, root : Rank \union {Nobody}] :
       /\ c.op # "gather" => c.root = Nobody
       /\ kind = "zero" => c.op \in {"gather", "prepare"}
       /\ LET others == {call[q] : q \in {q \in Rank : place[q] # "idle"}}
          IN  /\ others = {} => c.about = "same"
              /\ Fault(others # {} /\ c \notin others)
              /\ others # {} => c.op \in Mistaken \union {o.op : o \in others}
       /\ call' = [call EXCEPT ![r] = c]
       /\ Enter(r, "header", [ok |-> TRUE, about |-> <<c.op, c.about = "length">>, value |-> <<>>])
  /\ place' = [place EXCEPT ![r] = "header"]
  /\ UNCHANGED <<data, known, result, flight>>

Waits == {"seed sent", "seed buffered", "payload sent", "payload buffered", "seed", "payloads"}

Leaves(r) ==
  /\ place[r] \notin {"idle", "returned"} \union Waits
  /\ Complete(r)

Vote(r) ==
  /\ Leaves(r)
  /\ LET p == Target(r)
     IN  /\ p \notin {"return", "messages"}
         /\ \E ok \in {Succeeds(r, p)} \union (IF p \in Fallible THEN {FALSE} ELSE {}) :
              /\ p = "allocation" /\ r # call[r].root => ok
              /\ Fault(p \in Fallible /\ ~ ok)
              /\ Enter(r, p, [ok |-> ok, about |-> About(r, p), value |-> Data(r, p)])
         /\ place' = [place EXCEPT ![r] = p]
  /\ known' = [known EXCEPT ![r] = Learnt(r)]
  /\ UNCHANGED <<data, call, result, flight>>

Return(r) ==
  /\ Leaves(r) /\ Target(r) = "return"
  /\ result' = [result EXCEPT ![r] = Outcome(r)]
  /\ place' = [place EXCEPT ![r] = "returned"]
  /\ known' = [known EXCEPT ![r] = Unknown]
  /\ UNCHANGED <<log, data, call, flight, faults>>

(* Messages of a gather, on a duplicate of the communicator.               *)

Root(r) == call[r].root

Message(tag, r) == [tag |-> tag, from |-> r, value |-> IF tag = "seed" THEN <<Head(block[r])>> ELSE block[r]]

(* A send returns when the message is buffered or received. *)
AfterSeed    == {"seed sent", "seed buffered"}
AfterPayload == {"payload sent", "payload buffered"}

Sent(tag, r) ==
  place[r] \in {"seed buffered", "payload buffered"} \/ Message(tag, r) \notin flight

SendSeed(r) ==
  /\ Leaves(r) /\ Target(r) = "messages"
  /\ r = FirstNonempty /\ r # Root(r)
  /\ flight' = flight \union {Message("seed", r)}
  /\ \E p \in AfterSeed : place' = [place EXCEPT ![r] = p]
  /\ UNCHANGED <<log, data, call, known, result, faults>>

SendPayload(r) ==
  /\ \/ Leaves(r) /\ Target(r) = "messages" /\ r \notin {FirstNonempty, Root(r)}
     \/ place[r] \in AfterSeed /\ Sent("seed", r)
  /\ flight' = flight \union {Message("payload", r)}
  /\ \E p \in AfterPayload : place' = [place EXCEPT ![r] = p]
  /\ UNCHANGED <<log, data, call, known, result, faults>>

ReturnSender(r) ==
  /\ place[r] \in AfterPayload /\ Sent("payload", r)
  /\ result' = [result EXCEPT ![r] = Success(<<>>)]
  /\ place' = [place EXCEPT ![r] = "returned"]
  /\ UNCHANGED <<log, data, call, known, flight, faults>>

(* The root fills its buffers with one value, its own or a received one.   *)
StartRoot(r) ==
  /\ Leaves(r) /\ Target(r) = "messages" /\ r = Root(r)
  /\ place' = [place EXCEPT ![r] =
       IF GlobalCount = 0 \/ FirstNonempty = r THEN "payloads" ELSE "seed"]
  /\ known' = [known EXCEPT ![r].flags = 0]
  /\ UNCHANGED <<log, data, call, result, flight, faults>>

ReceiveSeed(r) ==
  /\ place[r] = "seed"
  /\ \E m \in flight : m.tag = "seed" /\ m.from = FirstNonempty /\ flight' = flight \ {m}
  /\ place' = [place EXCEPT ![r] = "payloads"]
  /\ UNCHANGED <<log, data, call, known, result, faults>>

(* Blocks are unpacked in rank order: flags counts those that are done.    *)
ReceivePayload(r) ==
  /\ place[r] = "payloads"
  /\ LET source == known[r].flags
     IN  /\ source \in Rank
         /\ \/ source = r /\ UNCHANGED flight
               /\ known' = [known EXCEPT ![r].flags = @ + 1, ![r].value = @ \o block[r]]
            \/ \E m \in flight :
                 /\ m.tag = "payload" /\ m.from = source /\ flight' = flight \ {m}
                 /\ known' = [known EXCEPT ![r].flags = @ + 1, ![r].value = @ \o m.value]
  /\ UNCHANGED <<log, data, place, call, result, faults>>

ReturnRoot(r) ==
  /\ place[r] = "payloads" /\ known[r].flags \notin Rank
  /\ result' = [result EXCEPT ![r] = Success(known[r].value)]
  /\ place' = [place EXCEPT ![r] = "returned"]
  /\ known' = [known EXCEPT ![r] = Unknown]
  /\ UNCHANGED <<log, data, call, flight, faults>>

Init ==
  /\ NoReductions
  /\ kind \in {"int", "float", "zero"}
  /\ block \in {b \in [Rank -> UNION {Block(kind, r) : r \in Rank}] :
                  \A r \in Rank : b[r] \in Block(kind, r)}
  /\ place = [r \in Rank |-> "idle"]
  /\ call = [r \in Rank |-> [op |-> "none", about |-> "same", root |-> Nobody]]
  /\ known = [r \in Rank |-> Unknown]
  /\ result = [r \in Rank |-> Failure("none")]
  /\ flight = {}
  /\ faults = 0

Done ==
  /\ \A r \in Rank : place[r] = "returned"
  /\ UNCHANGED vars

Step(r) ==
  \/ Begin(r) \/ Vote(r) \/ Return(r)
  \/ SendSeed(r) \/ SendPayload(r) \/ ReturnSender(r)
  \/ StartRoot(r) \/ ReceiveSeed(r) \/ ReceivePayload(r) \/ ReturnRoot(r)

Next == (\E r \in Rank : Step(r)) \/ Done

Spec == Init /\ [][Next]_vars

----------------------------------------------------------------------------
(* Properties.                                                             *)

Returned(r) == place[r] = "returned"

(* Ranks that have returned have the same result: Ok together, an overflow *)
(* or a mismatch together, and one value ("the required identical          *)
(* rank-order overflow result"), except what only the root gets.           *)
ResultsAgree ==
  \A p, q \in Rank :
    Returned(p) /\ Returned(q) =>
      /\ result[p].status = result[q].status
      /\ Op(p) # "gather" => result[p] = result[q]

All == FlattenSeq([i \in 1..Cardinality(Rank) |-> block[i - 1]])

Arithmetic(values) == FoldLeft(LAMBDA x, y : x + y, 0, values)

Among(x) == kind = "float" /\ x \in ToSet(All)

GlobalSum ==
  CASE Among(NaN) \/ (Among(Infinity) /\ Among(-Infinity)) -> NaN
    [] Among(Infinity) -> Infinity
    [] Among(-Infinity) -> -Infinity
    [] OTHER -> Arithmetic(All)

(* A value does not depend on how the array is split: integer sums that    *)
(* are Ok are exact, an infinite input decides over finite sums that       *)
(* became infinite, NaNs decide over everything, empty ranks over nothing; *)
(* a gather hands all blocks to the root, and every message is received.   *)
(* Ranks agree on it.                                                      *)
ResultIsGlobal ==
  /\ ResultsAgree
  /\ \A r \in Rank :
       Returned(r) /\ result[r].status = "ok" =>
         LET v == result[r].value
         IN  CASE Op(r) \in SumOp ->
                    \/ v = <<GlobalSum>>
                    \/ kind = "float" /\ GlobalSum \notin {NaN, Infinity, -Infinity}
                         /\ Arithmetic(Magnitudes(All)) > Limit
               [] Op(r) \in ExtremeOp ->
                    v = IF All = <<>> THEN <<>> ELSE IF Among(NaN) THEN <<NaN>> ELSE <<Min(ToSet(All))>>
               [] Op(r) \in NormOp ->
                    v = IF Among(NaN) THEN <<NaN>>
                        ELSE IF Scale(All) = Infinity THEN <<Infinity>> ELSE <<Squares(All)>>
               [] Op(r) = "any" -> v = <<Truth(All)>>
               [] Op(r) \in MapReduceOp -> v = All
               [] Op(r) = "gather" -> v = IF r = Root(r) THEN All ELSE <<>>
               [] OTHER -> TRUE
  /\ (\A r \in Rank : Returned(r)) => flight = {}
==============================================================================
