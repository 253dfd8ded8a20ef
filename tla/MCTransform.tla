------------------------------ MODULE MCTransform ------------------------------
(***************************************************************************)
(* Plans for the model checker: two or three axes, a boundary at the first *)
(* or at a later stage, and transitions of every kind.                     *)
(***************************************************************************)
EXTENDS Transform

PlanOf(family, boundary, transitions, method) ==
  [family |-> family, stages |-> Len(transitions) + 1, boundary |-> boundary,
   transition |-> [i \in 0..(Len(transitions) - 1) |-> transitions[i + 1]],
   method |-> method, chunks |-> 1]

D == "distributed"
L == "local"

(* Two or three stages of each family. *)
OutOfPlacePlans ==
  {PlanOf("c2c", 0, <<D, L>>, "point to point"), PlanOf("c2c", 0, <<D>>, "all to all"),
   PlanOf("r2r", 0, <<D, "identity">>, "point to point"),
   PlanOf("mixed_c2c", 0, <<D, L>>, "point to point"), PlanOf("mixed_c2c", 0, <<D>>, "all to all")}
  \union {PlanOf(family, b, <<D, D>>, "point to point") :
            family \in {"r2c", "mixed_r2c"}, b \in 0..2}
  \union {PlanOf("r2c", 1, <<L, D>>, "all to all"), PlanOf("mixed_r2c", 1, <<L, L>>, "point to point")}

(* Shorter ones, for calls that take the most steps. *)
InPlacePlans ==
  {PlanOf("c2c", 0, <<D>>, "point to point"), PlanOf("r2r", 0, <<"identity">>, "all to all"),
   PlanOf("r2c", 1, <<D>>, "point to point"),
   PlanOf("mixed_r2c", 1, <<D>>, "point to point")}

AllPlans == OutOfPlacePlans \union InPlacePlans

KindsOf == [p \in AllPlans |->
  IF p \in OutOfPlacePlans THEN {"construct", "single", "overlap"}
  ELSE {"in place", "many", "in place many"}]

MembersOf == [p \in AllPlans |-> IF p \in OutOfPlacePlans THEN 1 ELSE 2]
===============================================================================
