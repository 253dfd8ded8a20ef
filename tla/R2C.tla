---------------------------------- MODULE R2C ----------------------------------
(***************************************************************************)
(* Real to complex transforms (distributed/r2c.rs), as scripts.  Before    *)
(* the boundary stage real arrays are transposed, after it complex ones;   *)
(* on the way back the spectrum is validated before it becomes real.       *)
(* C2R plans (distributed/c2r.rs) are these, with the directions swapped.  *)
(***************************************************************************)
EXTENDS C2C

R2CConstruct ==
  AgreeHeader \o CollectiveDescriptor \o
  <<Agree("selection", 0), Agree("input", 0), Agree("threshold", 0), Agree("other input", 0),
    Agree("original route", 0), Agree("reduced route", 0), Agree("stages", 0),
    Agree("distributed", 0)>> \o BuildTransitions

----------------------------------------------------------------------------
(* Validation of the spectrum: statistics of every chunk of the batch are  *)
(* reduced on every rank, whatever it has found in its own values.         *)
ReduceChunks ==
  Up(1, plan.chunks, LAMBDA c : <<Agree("max reduction", c), Agree("sum reduction", c)>>)

(* Mutant: what has been accumulated is not looked at. *)
ValidateNothing(m) == <<Agree("validation preparation", m)>> \o ReduceChunks

ValidateBoundary(m) ==
  <<Agree("validation preparation", m)>> \o ReduceChunks \o <<Agree("spectrum", m)>>

ZeroAcceptedBoundary(buf) == <<Zero(buf)>>

----------------------------------------------------------------------------
(* Out of place.                                                           *)

R2CForward(m) ==
  (IF Boundary = 0 THEN <<Stage(0, "forward", Source(m), Intermediate)>>
   ELSE <<Copy(Source(m), RealIntermediate)>> \o
        Up(0, Boundary - 1, LAMBDA i : <<Move(i, "forward", RealIntermediate)>>) \o
        <<Stage(Boundary, "forward", RealIntermediate, Intermediate)>>)
  \o ForwardTail(Boundary, Destination(m))

(* Mutant: the boundary stage comes before the verdict. *)
R2CInverseUnvalidated(m) ==
  InverseTail(Boundary, Source(m)) \o ZeroAcceptedBoundary(Intermediate) \o
  (IF Boundary = 0 THEN <<Stage(0, "reverse", Intermediate, Destination(m))>> ELSE <<>>) \o
  ValidateBoundary(m)

R2CInverse(m) ==
  InverseTail(Boundary, Source(m)) \o ValidateBoundary(m) \o ZeroAcceptedBoundary(Intermediate) \o
  (IF Boundary = 0 THEN <<Stage(0, "reverse", Intermediate, Destination(m))>>
   ELSE <<Stage(Boundary, "reverse", Intermediate, RealIntermediate)>> \o
        Down(0, Boundary - 1, LAMBDA i : <<Move(i, "reverse", RealIntermediate)>>) \o
        <<Copy(RealIntermediate, Destination(m))>>)

R2CExecuteForward(m) == AgreeExecutionDescriptor \o Preflight(m) \o R2CForward(m)
R2CExecuteReverse(m) == AgreeExecutionDescriptor \o Preflight(m) \o R2CInverse(m)

----------------------------------------------------------------------------
(* With overlap: the boundary stage is the callback of the last real       *)
(* transition, or on the way back of the last complex one.  What it fills  *)
(* is overwritten from before the exchange until the callback has returned *)
(* on all ranks.                                                           *)

R2CForwardOverlap(m) ==
  (IF Boundary = 0 THEN <<Stage(0, "forward", Source(m), Intermediate)>>
   ELSE <<Copy(Source(m), RealIntermediate)>> \o
        Up(0, Boundary - 2, LAMBDA i : <<Move(i, "forward", RealIntermediate)>>) \o
        OverlappedInto({Intermediate}, Boundary - 1, "forward", RealIntermediate,
                       <<Stage(Boundary, "forward", RealIntermediate, Intermediate)>>))
  \o Up(Boundary, Last - 1, LAMBDA i :
       Overlapped(i, "forward", Intermediate,
                  <<Stage(i + 1, "forward", Intermediate, Intermediate)>>))
  \o <<Copy(Intermediate, Destination(m))>>

BoundaryC2RAfterTransition(target) == <<Stage(Boundary, "reverse", Intermediate, target)>>

R2CReverseOverlap(m) ==
  LET target == IF Boundary = 0 THEN Destination(m) ELSE RealIntermediate
  IN  <<IF Boundary = Last THEN Copy(Source(m), Intermediate)
        ELSE Stage(Last, "reverse", Source(m), Intermediate)>> \o
      Down(Boundary + 1, Last - 1, LAMBDA i :
        Overlapped(i, "reverse", Intermediate,
                   <<Stage(i, "reverse", Intermediate, Intermediate)>>)) \o
      ValidateBoundary(m) \o ZeroAcceptedBoundary(Intermediate) \o
      (IF Boundary < Last
       THEN OverlappedInto({target} \intersect {RealIntermediate}, Boundary, "reverse", Intermediate,
                           BoundaryC2RAfterTransition(target))
       ELSE BoundaryC2RAfterTransition(target)) \o
      If(Boundary # 0,
         Down(0, Boundary - 1, LAMBDA i : <<Move(i, "reverse", RealIntermediate)>>) \o
         <<Copy(RealIntermediate, Destination(m))>>)

R2COverlapForward(m) ==
  AgreeExecutionDescriptor \o Preflight(m) \o <<Agree("transport", 0)>> \o R2CForwardOverlap(m)

R2COverlapReverse(m) ==
  AgreeExecutionDescriptor \o Preflight(m) \o <<Agree("transport", 0)>> \o R2CReverseOverlap(m)

----------------------------------------------------------------------------
(* In place: one allocation is owned by a real or by a complex array.      *)

R2CForwardInPlace(m) ==
  <<InPlace("take", m)>> \o
  Up(0, Boundary - 1, LAMBDA i : <<Move(i, "forward", Array(m))>>) \o
  <<InPlace("put back", m)>> \o Try(<<Convert("forward", m)>>, "conversion", m) \o
  Up(Boundary, Last - 1, LAMBDA i :
    <<Move(i, "forward", Array(m)), Stage(i + 1, "forward", Array(m), Array(m))>>)

R2CReverseInPlace(m) ==
  If(Last > Boundary, <<Stage(Last, "reverse", Array(m), Array(m))>>) \o
  Down(Boundary, Last - 1, LAMBDA i :
    <<Move(i, "reverse", Array(m))>> \o
    If(i # Boundary, <<Stage(i, "reverse", Array(m), Array(m))>>)) \o
  ValidateBoundary(m) \o ZeroAcceptedBoundary(Array(m)) \o
  Try(<<Convert("reverse", m)>>, "conversion", m) \o
  Down(0, Boundary - 1, LAMBDA i : <<Move(i, "reverse", Array(m))>>)

(* Mutant: the array is poisoned only by the conversion. *)
R2CExecuteInPlaceLate(direction, m) ==
  AgreeExecutionDescriptor \o Preflight(m) \o
  (IF direction = "forward" THEN R2CForwardInPlace(m) ELSE R2CReverseInPlace(m)) \o
  <<InPlace("poison", m), Finish(direction, m)>>

R2CExecuteInPlace(direction, m) ==
  AgreeExecutionDescriptor \o Preflight(m) \o
  <<InPlace("poison", m)>> \o
  (IF direction = "forward" THEN R2CForwardInPlace(m) ELSE R2CReverseInPlace(m)) \o
  <<Finish(direction, m)>>
===============================================================================
