---------------------------------- MODULE C2C ----------------------------------
(***************************************************************************)
(* Complex to complex transforms (distributed.rs), as scripts.             *)
(***************************************************************************)
EXTENDS Steps

(* agree_execution_descriptor: the header with the operation, then the     *)
(* plan's descriptor, of which minimum and maximum are compared.           *)
AgreeHeader == <<Agree("header", 0)>>

CollectiveDescriptor ==
  <<Agree("ready", 0), Agree("minimum", 0), Agree("maximum", 0)>>

AgreeExecutionDescriptor == AgreeHeader \o CollectiveDescriptor

Preflight(m) == <<Agree("preflight", m)>>

----------------------------------------------------------------------------
(* Construction.                                                           *)

(* A distributed transition is planned in both directions; each plan is a  *)
(* joint call of its own.                                                  *)
BuildTransitions ==
  <<Agree("transition allocation", 0)>> \o
  Up(0, Last - 1, LAMBDA i :
    CASE plan.transition[i] = "distributed" ->
           <<Agree("plan construction", i), Agree("forward plan", i),
             Agree("forward requirements", i), Agree("plan construction", i),
             Agree("backward plan", i), Agree("backward requirements", i)>>
      [] plan.transition[i] = "identity" -> <<>>
      [] OTHER -> <<Agree("local plans", i)>>)

C2CConstruct ==
  AgreeHeader \o CollectiveDescriptor \o
  <<Agree("route", 0), Agree("directions", 0), Agree("stages", 0)>> \o BuildTransitions

----------------------------------------------------------------------------
(* Out of place.                                                           *)

(* Stages first..Last; stage first has written the intermediate.           *)
ForwardTail(first, destination) ==
  IF first = Last THEN <<Copy(Intermediate, destination)>>
  ELSE Up(first, Last - 1, LAMBDA i :
         <<Move(i, "forward", Intermediate),
           Stage(i + 1, "forward", Intermediate,
                 IF i + 1 = Last THEN destination ELSE Intermediate)>>)

(* Stages Last..first, without the last one: its result is left in front   *)
(* of stage first.                                                         *)
InverseTail(first, source) ==
  <<IF first = Last THEN Copy(source, Intermediate)
    ELSE Stage(Last, "reverse", source, Intermediate)>> \o
  Down(first, Last - 1, LAMBDA i :
    <<Move(i, "reverse", Intermediate)>> \o
    If(i # first, <<Stage(i, "reverse", Intermediate, Intermediate)>>))

C2CForward(m) ==
  <<Stage(0, "forward", Source(m), Intermediate)>> \o ForwardTail(0, Destination(m))

C2CInverse(m) ==
  InverseTail(0, Source(m)) \o <<Stage(0, "reverse", Intermediate, Destination(m))>>

C2CExecute(direction, m) ==
  AgreeExecutionDescriptor \o Preflight(m) \o
  (IF direction = "forward" THEN C2CForward(m) ELSE C2CInverse(m))

----------------------------------------------------------------------------
(* With overlap: each later stage is the callback of its transition.       *)

C2CForwardOverlap(m) ==
  <<Stage(0, "forward", Source(m), Intermediate)>> \o
  Up(0, Last - 1, LAMBDA i :
    Overlapped(i, "forward", Intermediate,
               <<Stage(i + 1, "forward", Intermediate, Intermediate)>>)) \o
  <<Copy(Intermediate, Destination(m))>>

C2CInverseOverlap(m) ==
  <<Stage(Last, "reverse", Source(m), Intermediate)>> \o
  Down(0, Last - 1, LAMBDA i :
    Overlapped(i, "reverse", Intermediate,
               <<Stage(i, "reverse", Intermediate, Intermediate)>>)) \o
  <<Copy(Intermediate, Destination(m))>>

(* The transport is agreed before anything is written. *)
C2COverlap(direction, m) ==
  AgreeExecutionDescriptor \o Preflight(m) \o <<Agree("transport", 0)>> \o
  (IF direction = "forward" THEN C2CForwardOverlap(m) ELSE C2CInverseOverlap(m))

----------------------------------------------------------------------------
(* In place.                                                               *)

C2CForwardInPlace(m) ==
  <<Stage(0, "forward", Array(m), Array(m))>> \o
  Up(0, Last - 1, LAMBDA i :
    <<Move(i, "forward", Array(m)), Stage(i + 1, "forward", Array(m), Array(m))>>)

C2CInverseInPlace(m) ==
  <<Stage(Last, "reverse", Array(m), Array(m))>> \o
  Down(0, Last - 1, LAMBDA i :
    <<Move(i, "reverse", Array(m)), Stage(i, "reverse", Array(m), Array(m))>>)

(* The array is poisoned until the transform has succeeded.                *)
(* Mutant: a flag set on success only. *)
RunUnguarded(direction, m, body) == body \o <<Finish(direction, m)>>

RunInPlaceTransaction(direction, m, body) ==
  <<InPlace("poison", m)>> \o body \o <<Finish(direction, m)>>

C2CExecuteInPlace(direction, m) ==
  AgreeExecutionDescriptor \o Preflight(m) \o
  RunInPlaceTransaction(direction, m,
    IF direction = "forward" THEN C2CForwardInPlace(m) ELSE C2CInverseInPlace(m))
===============================================================================
