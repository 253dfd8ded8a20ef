----------------------------- MODULE MCTranspose -----------------------------
(***************************************************************************)
(* Instances of Transpose whose exchange pattern is computed from a real   *)
(* geometry: ranks are the coordinates of a small process grid, and the    *)
(* peers with nonempty regions follow from the floor rule.                 *)
(***************************************************************************)
EXTENDS TransposeInvariant

CONSTANTS
  Grid,            \* process grid
  Shape,           \* global shape
  InputD, OutputD  \* decompositions of the two layouts

G == INSTANCE Geometry

Decomposition == [input |-> InputD, output |-> OutputD]
Changed == CHOOSE m \in G!ChangedAxes(InputD, OutputD) : TRUE

MCRank == G!Coordinates(Grid)

MCSendsTo ==
  [l \in Layout |-> [r \in MCRank |->
    G!SendPeers(Shape, Grid, Decomposition[l], Decomposition[Other(l)], r, Changed)]]

MCReceivesFrom ==
  [l \in Layout |-> [r \in MCRank |->
    G!ReceivePeers(Shape, Grid, Decomposition[l], Decomposition[Other(l)], r, Changed)]]

(* Two processes on a line, transposing between slabs. *)
TwoRanks   == <<2>>
(* Three processes on a line whose first axis has only two planes: rank 0  *)
(* owns nothing in the input layout.                                       *)
ThreeRanks == <<3>>
(* A 2 x 2 grid: exchanges on lines of two, agreements among all four.     *)
FourRanks  == <<2, 2>>

Slab        == <<2, 3>>
Cube        == <<2, 2, 2>>
FirstAxis   == <<1>>
SecondAxis  == <<2>>
FirstSecond == <<1, 2>>
FirstThird  == <<1, 3>>
==============================================================================
