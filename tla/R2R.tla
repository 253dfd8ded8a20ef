---------------------------------- MODULE R2R ----------------------------------
(***************************************************************************)
(* Real to real transforms: sine, cosine and Hartley (distributed/r2r.rs), *)
(* as scripts.  Their stages return an error where those of C2C panic, and *)
(* do not agree on it: preflight has checked all they check.               *)
(***************************************************************************)
EXTENDS C2C

R2RChecked(m) == AgreeExecutionDescriptor \o Preflight(m)

R2RConstruct ==
  AgreeHeader \o CollectiveDescriptor \o
  <<Agree("input", 0), Agree("kinds", 0), Agree("route", 0), Agree("stages", 0),
    Agree("layout stages", 0)>> \o BuildTransitions

R2RForward(m) ==
  <<Stage(0, "forward", Source(m), Intermediate)>> \o
  Up(0, Last - 1, LAMBDA i :
    <<Move(i, "forward", Intermediate),
      Stage(i + 1, "forward", Intermediate,
            IF i + 1 = Last THEN Destination(m) ELSE Intermediate)>>)

R2RReverse(m) ==
  <<Stage(Last, "reverse", Source(m), Intermediate)>> \o
  Down(0, Last - 1, LAMBDA i :
    <<Move(i, "reverse", Intermediate)>> \o
    If(i # 0, <<Stage(i, "reverse", Intermediate, Intermediate)>>)) \o
  <<Stage(0, "reverse", Intermediate, Destination(m))>>

R2RExecute(direction, m) ==
  R2RChecked(m) \o (IF direction = "forward" THEN R2RForward(m) ELSE R2RReverse(m))

R2RForwardOverlap(m) ==
  <<Stage(0, "forward", Source(m), Intermediate)>> \o
  Up(0, Last - 1, LAMBDA i :
    Overlapped(i, "forward", Intermediate,
               <<Stage(i + 1, "forward", Intermediate, Intermediate)>>)) \o
  <<Copy(Intermediate, Destination(m))>>

R2RReverseOverlap(m) ==
  <<Stage(Last, "reverse", Source(m), Intermediate)>> \o
  Down(0, Last - 1, LAMBDA i :
    Overlapped(i, "reverse", Intermediate,
               <<Stage(i, "reverse", Intermediate, Intermediate)>>)) \o
  <<Copy(Intermediate, Destination(m))>>

R2ROverlap(direction, m) ==
  R2RChecked(m) \o <<Agree("transport", 0)>> \o
  (IF direction = "forward" THEN R2RForwardOverlap(m) ELSE R2RReverseOverlap(m))

R2RForwardInPlace(m) ==
  <<Stage(0, "forward", Array(m), Array(m))>> \o
  Up(0, Last - 1, LAMBDA i :
    <<Move(i, "forward", Array(m)), Stage(i + 1, "forward", Array(m), Array(m))>>)

R2RReverseInPlace(m) ==
  <<Stage(Last, "reverse", Array(m), Array(m))>> \o
  Down(0, Last - 1, LAMBDA i :
    <<Move(i, "reverse", Array(m)), Stage(i, "reverse", Array(m), Array(m))>>)

R2RTransaction(direction, m, body) ==
  <<InPlace("poison", m)>> \o body \o <<Finish(direction, m)>>

R2RExecuteInPlace(direction, m) ==
  R2RChecked(m) \o
  R2RTransaction(direction, m,
    IF direction = "forward" THEN R2RForwardInPlace(m) ELSE R2RReverseInPlace(m))
===============================================================================
