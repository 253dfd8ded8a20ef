--------------------------------- MODULE Mixed ---------------------------------
(***************************************************************************)
(* Transforms with a kind per axis (distributed/mixed.rs), as scripts.     *)
(* Their stages return errors, and the ranks agree on every stage and on   *)
(* every transition of the plain and of the in-place forms.  In the mixed  *)
(* real transform the stages before the boundary transform real data.      *)
(***************************************************************************)
EXTENDS R2C

MixedTransition(i, direction, buf) == Try(<<Move(i, direction, buf)>>, "transition result", i)

AgreedStage(i, direction, from, to) ==
  Try(<<Stage(i, direction, from, to)>>, "stage", i)

----------------------------------------------------------------------------
(* Construction.  Transitions are built and then agreed on as a whole.     *)

MixedC2CConstruct ==
  AgreeHeader \o CollectiveDescriptor \o
  <<Agree("graph", 0), Agree("directions", 0), Agree("input", 0), Agree("route", 0),
    Agree("stages", 0), Agree("pencils", 0), Agree("layout stages", 0)>> \o
  Try(BuildTransitions, "transitions", 0)

MixedR2CConstruct ==
  AgreeHeader \o CollectiveDescriptor \o
  <<Agree("directions", 0), Agree("graph", 0), Agree("input", 0), Agree("original route", 0),
    Agree("reduced input", 0), Agree("reduced route", 0), Agree("stages", 0),
    Agree("threshold", 0), Agree("layout stages", 0), Agree("distributed", 0)>> \o
  Try(BuildTransitions, "transitions", 0) \o
  <<Agree("real pencils", 0), Agree("complex pencils", 0), Agree("lines", 0)>>

----------------------------------------------------------------------------
(* Complex to complex.                                                     *)

MixedForwardTail(first, destination) ==
  IF first = Last THEN <<Copy(Intermediate, destination)>>
  ELSE Up(first, Last - 1, LAMBDA i :
         MixedTransition(i, "forward", Intermediate) \o
         AgreedStage(i + 1, "forward", Intermediate,
                     IF i + 1 = Last THEN destination ELSE Intermediate))

MixedReverseTail(first, source) ==
  (IF first = Last THEN Try(<<Copy(source, Intermediate)>>, "stage", Last)
   ELSE AgreedStage(Last, "reverse", source, Intermediate)) \o
  Down(first, Last - 1, LAMBDA i :
    MixedTransition(i, "reverse", Intermediate) \o
    If(i # first, AgreedStage(i, "reverse", Intermediate, Intermediate)))

MixedC2CForward(m) ==
  AgreedStage(0, "forward", Source(m), Intermediate) \o MixedForwardTail(0, Destination(m))

MixedC2CReverse(m) ==
  MixedReverseTail(0, Source(m)) \o AgreedStage(0, "reverse", Intermediate, Destination(m))

MixedC2CExecute(direction, m) ==
  AgreeExecutionDescriptor \o Preflight(m) \o
  (IF direction = "forward" THEN MixedC2CForward(m) ELSE MixedC2CReverse(m))

(* With overlap only the first stage is agreed on; the later ones are, as  *)
(* callbacks of their transitions.                                         *)
MixedC2COverlapped(direction, m) ==
  (IF direction = "forward"
   THEN AgreedStage(0, "forward", Source(m), Intermediate) \o
        Up(0, Last - 1, LAMBDA i :
          Overlapped(i, "forward", Intermediate,
                     <<Stage(i + 1, "forward", Intermediate, Intermediate)>>))
   ELSE AgreedStage(Last, "reverse", Source(m), Intermediate) \o
        Down(0, Last - 1, LAMBDA i :
          Overlapped(i, "reverse", Intermediate,
                     <<Stage(i, "reverse", Intermediate, Intermediate)>>)))
  \o <<Copy(Intermediate, Destination(m))>>

(* The method is looked at before preflight, without an agreement. *)
MixedTransport(m, steps) ==
  AgreeExecutionDescriptor \o
  (IF plan.method # "point to point" THEN Refuse("transport")
   ELSE Preflight(m) \o <<Agree("transport", 0)>> \o steps)

MixedC2COverlap(direction, m) == MixedTransport(m, MixedC2COverlapped(direction, m))

MixedC2CForwardInPlace(m) ==
  AgreedStage(0, "forward", Array(m), Array(m)) \o
  Up(0, Last - 1, LAMBDA i :
    MixedTransition(i, "forward", Array(m)) \o
    AgreedStage(i + 1, "forward", Array(m), Array(m)))

MixedC2CReverseInPlace(m) ==
  AgreedStage(Last, "reverse", Array(m), Array(m)) \o
  Down(0, Last - 1, LAMBDA i :
    MixedTransition(i, "reverse", Array(m)) \o
    AgreedStage(i, "reverse", Array(m), Array(m)))

MixedC2CExecuteInPlace(direction, m) ==
  AgreeExecutionDescriptor \o Preflight(m) \o <<InPlace("poison", m)>> \o
  (IF direction = "forward" THEN MixedC2CForwardInPlace(m) ELSE MixedC2CReverseInPlace(m)) \o
  <<Finish(direction, m)>>

----------------------------------------------------------------------------
(* Real to complex.                                                        *)

ZeroMixedBoundary(buf) == Try(<<Zero(buf)>>, "zero", 0)

MixedR2CForward(m) ==
  (IF Boundary = 0 THEN AgreedStage(0, "forward", Source(m), Intermediate)
   ELSE AgreedStage(0, "forward", Source(m), RealIntermediate) \o
        Up(0, Boundary - 1, LAMBDA i :
          MixedTransition(i, "forward", RealIntermediate) \o
          AgreedStage(i + 1, "forward", RealIntermediate,
                      IF i + 1 = Boundary THEN Intermediate ELSE RealIntermediate)))
  \o MixedForwardTail(Boundary, Destination(m))

MixedR2CReverse(m) ==
  MixedReverseTail(Boundary, Source(m)) \o ValidateBoundary(m) \o
  ZeroMixedBoundary(Intermediate) \o
  (IF Boundary = 0 THEN AgreedStage(0, "reverse", Intermediate, Destination(m))
   ELSE AgreedStage(Boundary, "reverse", Intermediate, RealIntermediate) \o
        Down(0, Boundary - 1, LAMBDA i :
          MixedTransition(i, "reverse", RealIntermediate) \o
          AgreedStage(i, "reverse", RealIntermediate,
                      IF i = 0 THEN Destination(m) ELSE RealIntermediate)))

MixedR2CExecute(direction, m) ==
  AgreeExecutionDescriptor \o Preflight(m) \o
  (IF direction = "forward" THEN MixedR2CForward(m) ELSE MixedR2CReverse(m))

MixedR2CForwardOverlap(m) ==
  (IF Boundary = 0 THEN AgreedStage(0, "forward", Source(m), Intermediate)
   ELSE AgreedStage(0, "forward", Source(m), RealIntermediate) \o
        Up(0, Boundary - 1, LAMBDA i :
          Overlapped(i, "forward", RealIntermediate,
                     <<Stage(i + 1, "forward", RealIntermediate,
                             IF i + 1 = Boundary THEN Intermediate ELSE RealIntermediate)>>)))
  \o Up(Boundary, Last - 1, LAMBDA i :
       Overlapped(i, "forward", Intermediate,
                  <<Stage(i + 1, "forward", Intermediate, Intermediate)>>))
  \o <<Copy(Intermediate, Destination(m))>>

(* On the way back a stage that is no callback is agreed on.  The spectrum *)
(* is validated in the callback, so a rejection poisons the intermediate.  *)
OverlappedOrAgreed(i, direction, buf, callback) ==
  IF plan.transition[i] = "distributed" THEN Overlapped(i, direction, buf, callback)
  ELSE <<Move(i, direction, buf)>> \o Try(callback, "converted", i)

MixedR2CReverseOverlap(m) ==
  LET target == IF Boundary = 0 THEN Destination(m) ELSE RealIntermediate
      convert == ValidateBoundary(m) \o
                 <<Zero(Intermediate), Stage(Boundary, "reverse", Intermediate, target)>>
  IN  (IF Boundary = Last THEN Try(<<Copy(Source(m), Intermediate)>>, "stage", Last)
       ELSE AgreedStage(Last, "reverse", Source(m), Intermediate)) \o
      Down(Boundary + 1, Last - 1, LAMBDA i :
        OverlappedOrAgreed(i, "reverse", Intermediate,
                           <<Stage(i, "reverse", Intermediate, Intermediate)>>)) \o
      (IF Boundary < Last THEN OverlappedOrAgreed(Boundary, "reverse", Intermediate, convert)
       ELSE Try(convert, "converted", Boundary)) \o
      If(Boundary # 0,
         Down(0, Boundary - 1, LAMBDA i :
           OverlappedOrAgreed(i, "reverse", RealIntermediate,
                              <<Stage(i, "reverse", RealIntermediate, RealIntermediate)>>)) \o
         <<Copy(RealIntermediate, Destination(m))>>)

MixedR2COverlap(direction, m) ==
  MixedTransport(m, IF direction = "forward" THEN MixedR2CForwardOverlap(m)
                    ELSE MixedR2CReverseOverlap(m))

MixedR2CForwardInPlace(m) ==
  If(Boundary > 0,
     AgreedStage(0, "forward", Array(m), Array(m)) \o
     Up(0, Boundary - 1, LAMBDA i :
       MixedTransition(i, "forward", Array(m)) \o
       If(i + 1 < Boundary, AgreedStage(i + 1, "forward", Array(m), Array(m))))) \o
  Try(<<Convert("forward", m)>>, "conversion", m) \o
  Up(Boundary, Last - 1, LAMBDA i :
    MixedTransition(i, "forward", Array(m)) \o
    AgreedStage(i + 1, "forward", Array(m), Array(m)))

MixedR2CReverseInPlace(m) ==
  Down(Boundary + 1, Last, LAMBDA i :
    AgreedStage(i, "reverse", Array(m), Array(m)) \o
    MixedTransition(i - 1, "reverse", Array(m))) \o
  ValidateBoundary(m) \o ZeroMixedBoundary(Array(m)) \o
  Try(<<Convert("reverse", m)>>, "conversion", m) \o
  Down(0, Boundary - 1, LAMBDA i :
    MixedTransition(i, "reverse", Array(m)) \o
    AgreedStage(i, "reverse", Array(m), Array(m)))

MixedR2CExecuteInPlace(direction, m) ==
  AgreeExecutionDescriptor \o Preflight(m) \o <<InPlace("poison", m)>> \o
  (IF direction = "forward" THEN MixedR2CForwardInPlace(m) ELSE MixedR2CReverseInPlace(m)) \o
  <<Finish(direction, m)>>
===============================================================================
