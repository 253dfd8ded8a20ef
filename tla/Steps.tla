--------------------------------- MODULE Steps ---------------------------------
(***************************************************************************)
(* The vocabulary in which the modules of pencil-fft's transforms are      *)
(* written.  A call of a transform is a script, a sequence of steps that   *)
(* every rank goes through; module Transform executes it.                  *)
(*                                                                         *)
(* A plan has stages 0..Last, one per axis, and a transition between       *)
(* stages i and i + 1.  In a real transform the boundary stage makes       *)
(* complex data of real data.                                              *)
(***************************************************************************)
EXTENDS Integers, Sequences

Ext == INSTANCE SequencesExt

VARIABLE plan    \* [family, stages, boundary, transition, method, chunks]

Last == plan.stages - 1
Boundary == plan.boundary
IsReal == plan.family \in {"r2c", "mixed_r2c"}

(* Steps for i from a to b, and from b down to a. *)
Up(a, b, F(_)) == Ext!FlattenSeq([k \in 1..(b - a + 1) |-> F(a + k - 1)])
Down(a, b, F(_)) == Ext!FlattenSeq([k \in 1..(b - a + 1) |-> F(b - k + 1)])

If(condition, steps) == IF condition THEN steps ELSE <<>>

(* Buffers of a rank: the arrays of each member of a collection (a single  *)
(* call has one member) and the workspace's arrays.                        *)
Source(m) == <<"source", m>>
Destination(m) == <<"destination", m>>
Array(m) == <<"array", m>>
Intermediate == <<"intermediate", 0>>
RealIntermediate == <<"real intermediate", 0>>

----------------------------------------------------------------------------
(* Steps.  A step that is refused ends the call; if it is caught the call  *)
(* goes on at the next result, or at the result of the collection's member.*)

(* One reduction in which every rank says whether it can go on. *)
Agree(place, m) == [do |-> "agree", place |-> <<place, m>>, caught |-> "no"]

(* The same, of the result of the steps before it. *)
Result(place, m) ==
  [do |-> "result", place |-> <<place, m>>, guarded |-> {}, caught |-> "no"]

Caught(steps) == [k \in DOMAIN steps |-> [steps[k] EXCEPT !.caught = "result"]]
Try(steps, place, m) == Append(Caught(steps), Result(place, m))

(* A local transform of stage i. *)
Stage(i, direction, from, to) ==
  [do |-> "stage", i |-> i, direction |-> direction, from |-> from, to |-> to,
   place |-> <<"stage", i>>, caught |-> "no"]

(* Transition i of the array buf: a joint call if it is distributed.       *)
Move(i, direction, buf) ==
  [do |-> "move", i |-> i, direction |-> direction, buf |-> buf,
   place |-> <<"transition", i>>, caught |-> "no"]

(* Transition i of buf with its callback's steps.  The array is poisoned   *)
(* from the exchange until the ranks have agreed on their callbacks, and so *)
(* are the arrays in overwritten, which are being written around it.       *)
OverlappedInto(overwritten, i, direction, buf, callback) ==
  IF plan.transition[i] = "distributed"
  THEN If(overwritten # {},
          <<[do |-> "overwrite", bufs |-> overwritten, caught |-> "no"]>>) \o
       <<[Move(i, direction, buf) EXCEPT !.do = "exchange"]>> \o
       Caught(callback) \o
       <<[Result("callback", i) EXCEPT !.guarded = overwritten \union {buf}]>>
  ELSE <<Move(i, direction, buf)>> \o callback

Overlapped(i, direction, buf, callback) == OverlappedInto({}, i, direction, buf, callback)

Copy(from, to) == [do |-> "copy", from |-> from, to |-> to, caught |-> "no"]

(* Clears the imaginary parts that the agreement has accepted. *)
Zero(buf) == [do |-> "zero", buf |-> buf, caught |-> "no"]

(* Steps on the array of an in-place call: "poison", "take", "put back".   *)
InPlace(name, m) == [do |-> name, m |-> m, caught |-> "no"]
Convert(direction, m) ==
  [do |-> "convert", direction |-> direction, m |-> m,
   place |-> <<"conversion", m>>, caught |-> "no"]
Finish(direction, m) == [do |-> "finish", direction |-> direction, m |-> m, caught |-> "no"]

(* A refusal that every rank comes to by itself. *)
Refuse(place) == <<[do |-> "refuse", place |-> <<place, 0>>, caught |-> "no"]>>
===============================================================================
