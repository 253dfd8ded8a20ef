------------------------------ MODULE RouteProofs ------------------------------
(***************************************************************************)
(* Every route is correct, for any number of dimensions.  The layout of    *)
(* the stage that transforms axis c has a closed form; it is the inductive *)
(* invariant.                                                              *)
(***************************************************************************)
EXTENDS Route, FiniteSetTheorems, TLAPS

(* At the stage of axis c the topology axes from c on have moved by one,   *)
(* memory order is 0, ..., c - 1 followed by n - 1, ..., c, and the axes   *)
(* from c on that were split at the input have been transposed.            *)
StageSplit(i) == IF i >= axis THEN i + 1 ELSE i
StageOrder(p) == IF p < axis \/ ~ permuteDims THEN p ELSE n - 1 - (p - axis)

ClosedForm ==
  /\ m < n
  /\ \A i \in TopologyAxes : decomposition[i] = StageSplit(i)
  /\ \A p \in Axes : permutation[p] = StageOrder(p)
  /\ transposed = axis..(m - 1)

RouteInv ==
  /\ TypeOK
  /\ status = "new" => Injective(decomposition) /\ Injective(permutation) /\ axis = n - 1
  /\ status \in {"InvalidDimensions", "InvalidInputLayout"} =>
       Injective(decomposition) /\ Injective(permutation)
  /\ status \in {"route", "done"} => ClosedForm
  /\ status = "new" => transposed = {}
  /\ status = "done" => axis = 0
  /\ status # "PreparationFailed"

USE DEF Axes, TopologyAxes

(* The types of the numbers, without the rest of TypeOK.                   *)
LEMMA Dimensions ==
  ASSUME TypeOK
  PROVE  n \in Nat \ {0} /\ m \in Nat \ {0} /\ axis \in Nat /\ axis < n
<1>1. n \in 1..MaxDimensions /\ m \in 1..n /\ axis \in 0..(n - 1)
  BY DEF TypeOK
<1>2. n \in Nat \ {0}
  BY <1>1, DimensionsAssumption
<1>3. m \in Nat \ {0} /\ axis \in Nat /\ axis < n
  BY <1>1, <1>2
<1>4. QED
  BY <1>2, <1>3

LEMMA RouteInit == Init => RouteInv
<1> SUFFICES ASSUME Init PROVE RouteInv
  OBVIOUS
<1>1. n \in Nat \ {0} /\ m \in Nat \ {0}
  <2>1. n \in 1..MaxDimensions /\ m \in 1..n
    BY DEF Init
  <2>2. n \in Nat \ {0}
    BY <2>1, DimensionsAssumption
  <2>3. QED
    BY <2>1, <2>2
<1>2. permutation \in [Axes -> Axes] /\ Injective(permutation)
  BY <1>1 DEF Init, Identity, Reversed, Injective
<1>3. TypeOK
  <2>1. n \in 1..MaxDimensions /\ m \in 1..n /\ permuteDims \in BOOLEAN
    BY DEF Init
  <2>2. decomposition \in [TopologyAxes -> Axes] /\ transposed \subseteq Axes /\ status = "new"
    BY DEF Init
  <2>3. axis \in Axes
    BY <1>1 DEF Init
  <2>4. QED
    BY <1>2, <2>1, <2>2, <2>3 DEF TypeOK
<1>4. status = "new" /\ Injective(decomposition) /\ axis = n - 1 /\ transposed = {}
  BY DEF Init
<1>5. QED
  BY <1>2, <1>3, <1>4 DEF RouteInv

(* MoveLast takes the order of one stage to that of the next.              *)
LEMMA MoveLastOrder ==
  ASSUME TypeOK, ClosedForm, permuteDims, axis > 0
  PROVE  \A p \in Axes : MoveLast(axis - 1)[p] =
           IF p < axis - 1 THEN p ELSE n - 1 - (p - (axis - 1))
<1>1. n \in Nat \ {0} /\ axis \in Nat /\ axis < n
  BY Dimensions
<1>2. \A p \in Axes : permutation[p] = IF p < axis THEN p ELSE n - 1 - (p - axis)
  BY DEF ClosedForm, StageOrder
<1>3. (CHOOSE k \in Axes : permutation[k] = axis - 1) = axis - 1
  BY <1>1, <1>2
<1>4. MoveLast(axis - 1) =
        [p \in Axes |-> IF p < axis - 1 THEN permutation[p]
                        ELSE IF p < n - 1 THEN permutation[p + 1] ELSE axis - 1]
  BY <1>3 DEF MoveLast
<1>5. TAKE p \in Axes
<1>6. CASE p < axis - 1
  BY <1>1, <1>2, <1>4, <1>6
<1>7. CASE axis - 1 <= p /\ p < n - 1
  <2>1. p + 1 \in Axes /\ ~ (p + 1 < axis)
    BY <1>1, <1>7
  <2>2. MoveLast(axis - 1)[p] = permutation[p + 1]
    BY <1>1, <1>4, <1>7
  <2>3. QED
    BY <1>1, <1>2, <1>7, <2>1, <2>2
<1>8. CASE p = n - 1
  BY <1>1, <1>4, <1>8
<1>9. QED
  BY <1>1, <1>6, <1>7, <1>8

LEMMA RouteStep == RouteInv /\ [Next]_vars => RouteInv'
<1> SUFFICES ASSUME RouteInv, [Next]_vars PROVE RouteInv'
  OBVIOUS
<1> USE DEF RouteInv
<1>0. n \in Nat \ {0} /\ m \in Nat \ {0} /\ axis \in Nat /\ axis < n
  BY Dimensions
<1>1. CASE Validate
  <2>1. UNCHANGED <<n, m, permuteDims, decomposition, permutation, axis, transposed>>
    BY <1>1 DEF Validate, parameters, layout
  <2>2. TypeOK'
    BY <1>1, <2>1 DEF Validate, TypeOK
  <2>3. ASSUME status' = "route" PROVE ClosedForm'
    <3>1. /\ status = "new" /\ m < n /\ permutation = Identity
          /\ \A i \in TopologyAxes : decomposition[i] = i
      BY <1>0, <1>1, <2>3 DEF Validate, Canonical
    <3>2. axis = n - 1 /\ transposed = {}
      BY <3>1
    <3>3. axis..(m - 1) = {}
      BY <1>0, <3>1, <3>2
    <3>4. \A p \in Axes : permutation[p] = StageOrder(p)
      BY <1>0, <3>1, <3>2 DEF Identity, StageOrder
    <3>5. ClosedForm
      BY <1>0, <3>1, <3>2, <3>3, <3>4 DEF ClosedForm, StageSplit
    <3>6. QED
      BY <2>1, <3>5 DEF ClosedForm, StageSplit, StageOrder
  <2>4. QED
    BY <1>1, <2>1, <2>2, <2>3 DEF Validate, Injective
<1>2. CASE NextStage
  <2>1. /\ UNCHANGED <<n, m, permuteDims, status>>
        /\ status = "route" /\ axis > 0 /\ axis' = axis - 1
        /\ decomposition' = Advance(axis - 1)
        /\ permutation' = IF permuteDims THEN MoveLast(axis - 1) ELSE Identity
    BY <1>2 DEF NextStage, parameters
  <2>2. \A i \in TopologyAxes : decomposition'[i] = IF i >= axis - 1 THEN i + 1 ELSE i
    BY <1>0, <2>1 DEF ClosedForm, StageSplit, Advance
  <2>3. \A p \in Axes : permutation'[p] =
          IF p < axis - 1 \/ ~ permuteDims THEN p ELSE n - 1 - (p - (axis - 1))
    BY <1>0, <2>1, MoveLastOrder DEF Identity
  <2>4. axis - 1 \in Split <=> axis - 1 < m
    BY <1>0, <2>1 DEF ClosedForm, StageSplit, Split
  <2>5. transposed' = (axis - 1)..(m - 1)
    <3>1. transposed = axis..(m - 1)
      BY <2>1 DEF ClosedForm
    <3>2. CASE axis - 1 < m
      <4>1. transposed' = transposed \union {axis - 1}
        BY <1>2, <2>4, <3>2 DEF NextStage
      <4>2. QED
        BY <1>0, <2>1, <3>1, <3>2, <4>1
    <3>3. CASE ~ (axis - 1 < m)
      <4>1. transposed' = transposed
        BY <1>2, <2>4, <3>3 DEF NextStage
      <4>2. QED
        BY <1>0, <2>1, <3>1, <3>3, <4>1
    <3>4. QED
      BY <3>2, <3>3
  <2>6. ClosedForm'
    BY <2>1, <2>2, <2>3, <2>5 DEF ClosedForm, StageSplit, StageOrder
  <2>7. decomposition' \in [TopologyAxes -> Axes]
    BY <1>0, <2>1, <2>2 DEF Advance, ClosedForm
  <2>8. permutation' \in [Axes -> Axes]
    <3>1. CASE permuteDims
      BY <1>0, <2>1, <2>3, <3>1 DEF MoveLast
    <3>2. CASE ~ permuteDims
      BY <2>1, <3>2 DEF Identity
    <3>3. QED
      BY <3>1, <3>2
  <2>9. transposed' \subseteq Axes /\ axis' \in Axes
    <3>1. axis - 1 \in Axes
      BY <1>0, <2>1
    <3>2. transposed \subseteq Axes /\ transposed' \subseteq transposed \union {axis - 1}
      BY <1>2 DEF NextStage, TypeOK
    <3>3. QED
      BY <2>1, <3>1, <3>2
  <2>10. QED
    BY <2>1, <2>6, <2>7, <2>8, <2>9 DEF TypeOK
<1>3. CASE Finish
  <2>1. /\ UNCHANGED <<n, m, permuteDims, decomposition, permutation, axis, transposed>>
        /\ status = "route" /\ axis = 0
    BY <1>3 DEF Finish, parameters, layout
  <2>2. Expected
    <3>1. \A i \in TopologyAxes : decomposition[i] = i + 1
      BY <2>1 DEF ClosedForm, StageSplit
    <3>2. permutation = IF permuteDims THEN Reversed ELSE Identity
      <4>1. permutation \in [Axes -> Axes]
        BY DEF TypeOK
      <4>2. CASE permuteDims
        <5>1. \A p \in Axes : permutation[p] = n - 1 - p
          BY <1>0, <2>1, <4>2 DEF ClosedForm, StageOrder
        <5>2. QED
          BY <4>1, <4>2, <5>1 DEF Reversed
      <4>3. CASE ~ permuteDims
        <5>1. \A p \in Axes : permutation[p] = p
          BY <2>1, <4>3 DEF ClosedForm, StageOrder
        <5>2. QED
          BY <4>1, <4>3, <5>1 DEF Identity
      <4>4. QED
        BY <4>2, <4>3
    <3>3. QED
      BY <3>1, <3>2 DEF Expected
  <2>3. status' = "done"
    BY <1>3, <2>2 DEF Finish
  <2>4. QED
    BY <2>1, <2>3 DEF TypeOK, ClosedForm, StageSplit, StageOrder
<1>4. CASE Ended \/ UNCHANGED vars
  <2>1. UNCHANGED <<n, m, permuteDims, decomposition, permutation, axis, transposed, status>>
    BY <1>4 DEF Ended, vars, parameters, layout
  <2>2. TypeOK' /\ (ClosedForm => ClosedForm')
    BY <2>1 DEF TypeOK, ClosedForm, StageSplit, StageOrder
  <2>3. QED
    BY <2>1, <2>2 DEF Injective
<1>5. QED
  BY <1>1, <1>2, <1>3, <1>4 DEF Next

LEMMA RouteInvariant == Spec => []RouteInv
<1>1. QED
  BY RouteInit, RouteStep, PTL DEF Spec

(* The state of build_route is well typed: layouts name axes that exist.   *)
THEOREM TypeCorrect == Spec => []TypeOK
<1>1. RouteInv => TypeOK
  BY DEF RouteInv
<1>2. QED
  BY <1>1, RouteInvariant, PTL

(* build_route never lets a stage transform an axis that is split over     *)
(* processes, and with permute_dims its lines are contiguous.              *)
THEOREM StagesAreLocal == Spec => []StageAxisIsLocal
<1>1. RouteInv => StageAxisIsLocal
  <2> SUFFICES ASSUME RouteInv, status \in {"route", "done"}
               PROVE  axis \notin Split /\ (permuteDims => permutation[n - 1] = axis)
    BY DEF StageAxisIsLocal
  <2>1. n \in Nat \ {0} /\ m \in Nat \ {0} /\ axis \in Nat /\ axis < n
    BY Dimensions DEF RouteInv
  <2>2. QED
    BY <2>1 DEF RouteInv, ClosedForm, StageSplit, StageOrder, Split
<1>2. QED
  BY <1>1, RouteInvariant, PTL

(* The layouts build_route asks for are valid, and its final check of the  *)
(* output layout never fails.                                              *)
THEOREM RoutesSucceed == Spec => []RouteSucceeds
<1>1. RouteInv => RouteSucceeds
  <2> SUFFICES ASSUME RouteInv PROVE RouteSucceeds
    OBVIOUS
  <2>1. n \in Nat \ {0} /\ m \in Nat \ {0} /\ axis \in Nat /\ axis < n
    BY Dimensions DEF RouteInv
  <2>2. CASE status \in {"route", "done"}
    <3>1. /\ decomposition \in [TopologyAxes -> Axes] /\ permutation \in [Axes -> Axes]
          /\ ClosedForm /\ status # "PreparationFailed"
      BY <2>2 DEF RouteInv, TypeOK
    <3>2. \A i, j \in TopologyAxes : decomposition[i] = decomposition[j] => i = j
      <4>1. \A i \in TopologyAxes : decomposition[i] = IF i >= axis THEN i + 1 ELSE i
        BY <3>1 DEF ClosedForm, StageSplit
      <4>2. QED
        BY <2>1, <4>1
    <3>3. \A p, q \in Axes : permutation[p] = permutation[q] => p = q
      <4>1. CASE permuteDims
        <5>1. \A p \in Axes : permutation[p] = IF p < axis THEN p ELSE n - 1 - (p - axis)
          BY <3>1, <4>1 DEF ClosedForm, StageOrder
        <5>2. QED
          BY <2>1, <5>1
      <4>2. CASE ~ permuteDims
        BY <3>1, <4>2 DEF ClosedForm, StageOrder
      <4>3. QED
        BY <4>1, <4>2
    <3>4. QED
      BY <3>1, <3>2, <3>3 DEF Injective, RouteSucceeds
  <2>3. CASE status \notin {"route", "done"}
    BY <2>3 DEF RouteInv, TypeOK, RouteSucceeds
  <2>4. QED
    BY <2>2, <2>3
<1>2. QED
  BY <1>1, RouteInvariant, PTL

(* Every distributed transition of a route changes one topology axis, so   *)
(* validate_plan_layout accepts it; every other one changes none.          *)
THEOREM TransitionsAlwaysTranspose == Spec => TransitionsAreTransposes
<1>1. ASSUME RouteInv, Next, axis' # axis
      PROVE  Cardinality({i \in TopologyAxes : decomposition'[i] # decomposition[i]})
               = IF transposed' # transposed THEN 1 ELSE 0
  <2> DEFINE Changed == {i \in TopologyAxes : decomposition'[i] # decomposition[i]}
  <2>1. NextStage
    BY <1>1 DEF Next, Validate, Finish, Ended, vars
  <2>2. n \in Nat \ {0} /\ m \in Nat \ {0} /\ axis \in Nat /\ axis < n /\ axis > 0
    <3>1. TypeOK
      BY <1>1 DEF RouteInv
    <3>2. axis > 0
      BY <2>1 DEF NextStage
    <3>3. QED
      BY <3>1, <3>2, Dimensions
  <2>3. ClosedForm
    BY <1>1, <2>1 DEF RouteInv, NextStage
  <2>4. \A i \in TopologyAxes : decomposition'[i] # decomposition[i] <=> i = axis - 1
    BY <2>1, <2>2, <2>3 DEF NextStage, Advance, ClosedForm, StageSplit
  <2>5. axis - 1 \in Split <=> axis - 1 < m
    BY <2>2, <2>3 DEF ClosedForm, StageSplit, Split
  <2>6. CASE axis - 1 < m
    <3>1. Changed = {axis - 1}
      BY <2>2, <2>4, <2>6
    <3>2. transposed' # transposed
      <4>1. axis - 1 \in transposed'
        BY <2>1, <2>5, <2>6 DEF NextStage
      <4>2. axis - 1 \notin transposed
        BY <2>2, <2>3 DEF ClosedForm
      <4>3. QED
        BY <4>1, <4>2
    <3>3. Cardinality(Changed) = 1
      <4>1. Cardinality({axis - 1}) = 1
        BY FS_Singleton
      <4>2. QED
        BY <3>1, <4>1
    <3>4. QED
      BY <3>2, <3>3
  <2>7. CASE ~ (axis - 1 < m)
    <3>1. Changed = {}
      BY <2>2, <2>4, <2>7
    <3>2. transposed' = transposed
      BY <2>1, <2>5, <2>7 DEF NextStage
    <3>3. Cardinality(Changed) = 0
      <4>1. Cardinality({}) = 0
        BY FS_EmptySet
      <4>2. QED
        BY <3>1, <4>1
    <3>4. QED
      BY <3>2, <3>3
  <2>8. QED
    BY <2>6, <2>7
<1>2. RouteInv /\ [Next]_vars =>
        [axis' # axis =>
           Cardinality({i \in TopologyAxes : decomposition'[i] # decomposition[i]})
             = IF transposed' # transposed THEN 1 ELSE 0]_vars
  BY <1>1
<1>3. QED
  BY <1>2, RouteInvariant, PTL DEF Spec, TransitionsAreTransposes

(* A complete route of a plan costs one transpose per topology axis.       *)
THEOREM OneTransposePerTopologyAxis == Spec => []TransposeCount
<1>1. RouteInv => TransposeCount
  <2> SUFFICES ASSUME RouteInv, status = "done" PROVE Cardinality(transposed) = m
    BY DEF TransposeCount
  <2>1. m \in Nat \ {0} /\ transposed = 0..(m - 1)
    BY Dimensions DEF RouteInv, ClosedForm
  <2>2. QED
    BY <2>1, FS_Interval
<1>2. QED
  BY <1>1, RouteInvariant, PTL
===============================================================================
