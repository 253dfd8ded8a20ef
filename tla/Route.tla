--------------------------------- MODULE Route ---------------------------------
(***************************************************************************)
(* The route of a distributed transform (build_route): from the input      *)
(* layout, one stage per spatial axis from the last to the first, and      *)
(* between two stages a transition to the layout in which the next axis    *)
(* lies on one process.  All families of transforms take this route.       *)
(*                                                                         *)
(* A layout is a decomposition, the spatial axis each topology axis splits,*)
(* and a permutation, the spatial axis at each position of memory order.   *)
(* Axes count from 0.                                                      *)
(***************************************************************************)
EXTENDS Integers, FiniteSets

CONSTANT MaxDimensions   \* bound: spatial dimensions of a plan

ASSUME DimensionsAssumption == MaxDimensions \in Nat

VARIABLES
  n, m,            \* spatial and topology dimensions
  permuteDims,     \* layout option: make the stage's axis contiguous
  decomposition, permutation,   \* layout of the current stage
  axis,            \* axis the current stage transforms
  transposed,      \* axes whose transition moves data between processes
  status

parameters == <<n, m, permuteDims>>
layout == <<decomposition, permutation>>
vars == <<parameters, layout, axis, transposed, status>>

Axes == 0..(n - 1)
TopologyAxes == 0..(m - 1)

Injective(f) == \A i, j \in DOMAIN f : f[i] = f[j] => i = j

Identity == [p \in Axes |-> p]
Reversed == [p \in Axes |-> n - 1 - p]

Split == {decomposition[i] : i \in TopologyAxes}

TypeOK ==
  /\ n \in 1..MaxDimensions /\ m \in 1..n
  /\ permuteDims \in BOOLEAN
  /\ decomposition \in [TopologyAxes -> Axes]
  /\ permutation \in [Axes -> Axes]
  /\ axis \in Axes
  /\ transposed \subseteq Axes
  /\ status \in {"new", "route", "done", "InvalidDimensions",
                 "InvalidInputLayout", "PreparationFailed"}

(* The caller passes any pencil; two memory orders stand for all.          *)
Init ==
  /\ n \in 1..MaxDimensions /\ m \in 1..n
  /\ permuteDims \in BOOLEAN
  /\ decomposition \in [TopologyAxes -> Axes] /\ Injective(decomposition)
  /\ permutation \in {Identity, Reversed}
  /\ axis = n - 1
  /\ transposed = {}
  /\ status = "new"

(* Mutant: accepts a decomposition of any axes. *)
CanonicalOrder == permutation = Identity

Canonical == permutation = Identity /\ \A i \in TopologyAxes : decomposition[i] = i

Validate ==
  /\ status = "new"
  /\ status' = IF m >= n THEN "InvalidDimensions"
               ELSE IF ~ Canonical THEN "InvalidInputLayout" ELSE "route"
  /\ UNCHANGED <<parameters, layout, axis, transposed>>

(* Mutant: every split at or behind a moves on. *)
AdvanceShift(a) ==
  [i \in TopologyAxes |-> IF decomposition[i] >= a THEN decomposition[i] + 1 ELSE decomposition[i]]

(* The topology axis that splits a, if any, splits a + 1 instead. *)
Advance(a) == [i \in TopologyAxes |-> IF decomposition[i] = a THEN a + 1 ELSE decomposition[i]]

(* Mutant: exchanges the axis with the last one. *)
MoveLastBySwap(a) ==
  LET k == CHOOSE k \in Axes : permutation[k] = a
  IN  [p \in Axes |-> IF p = k THEN permutation[n - 1] ELSE IF p = n - 1 THEN a ELSE permutation[p]]

(* Memory order with axis a moved to the end. *)
MoveLast(a) ==
  LET k == CHOOSE k \in Axes : permutation[k] = a
  IN  [p \in Axes |-> IF p < k THEN permutation[p]
                      ELSE IF p < n - 1 THEN permutation[p + 1] ELSE a]

(* Mutant: a transition counts as distributed when the layouts differ. *)
NextStageByLayout ==
  /\ status = "route" /\ axis > 0
  /\ axis' = axis - 1
  /\ decomposition' = Advance(axis - 1)
  /\ permutation' = IF permuteDims THEN MoveLast(axis - 1) ELSE Identity
  /\ transposed' = IF layout' # layout THEN transposed \union {axis - 1} ELSE transposed
  /\ UNCHANGED <<parameters, status>>

NextStage ==
  /\ status = "route" /\ axis > 0
  /\ axis' = axis - 1
  /\ decomposition' = Advance(axis - 1)
  /\ permutation' = IF permuteDims THEN MoveLast(axis - 1) ELSE Identity
  /\ transposed' = IF axis - 1 \in Split THEN transposed \union {axis - 1} ELSE transposed
  /\ UNCHANGED <<parameters, status>>

(* The layout the documentation of the plan promises for the output. *)
Expected ==
  /\ \A i \in TopologyAxes : decomposition[i] = i + 1
  /\ permutation = IF permuteDims THEN Reversed ELSE Identity

Finish ==
  /\ status = "route" /\ axis = 0
  /\ status' = IF Expected THEN "done" ELSE "PreparationFailed"
  /\ UNCHANGED <<parameters, layout, axis, transposed>>

Ended ==
  /\ status \notin {"new", "route"}
  /\ UNCHANGED vars

Next == Validate \/ NextStage \/ Finish \/ Ended

Spec == Init /\ [][Next]_vars

----------------------------------------------------------------------------
(* Properties.                                                             *)

(* A stage transforms whole lines: no process grid axis splits its axis,   *)
(* and with permute_dims the lines are contiguous in memory.               *)
StageAxisIsLocal ==
  status \in {"route", "done"} =>
    /\ axis \notin Split
    /\ permuteDims => permutation[n - 1] = axis

(* The layouts of the route are ones a pencil can have: nothing is split   *)
(* twice and memory order is a permutation, so reconfigured cannot fail,   *)
(* and the check of the last layout never refuses a route.                 *)
RouteSucceeds ==
  /\ Injective(decomposition) /\ Injective(permutation)
  /\ status # "PreparationFailed"

(* A transition that moves data changes exactly one topology axis, which   *)
(* the transpose plans insist on; any other one changes none and can be    *)
(* carried out by each process alone.                                      *)
TransitionsAreTransposes ==
  [][axis' # axis =>
       Cardinality({i \in TopologyAxes : decomposition'[i] # decomposition[i]})
         = IF transposed' # transposed THEN 1 ELSE 0]_vars

(* Every topology axis costs exactly one transpose, the others none: the   *)
(* counts the test canonical_routes_have_exact_local_and_distributed_      *)
(* transition_counts states for five pairs of dimensions.                  *)
TransposeCount == status = "done" => Cardinality(transposed) = m
===============================================================================
