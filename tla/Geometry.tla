------------------------------- MODULE Geometry -------------------------------
(***************************************************************************)
(* Who owns what: the floor rule that splits an axis over the processes of *)
(* a grid axis, the ranges a process owns under a decomposition, and the   *)
(* regions two processes exchange when one axis of the decomposition       *)
(* changes (the peer metadata of a transpose plan).                        *)
(*                                                                         *)
(* Spatial axes are 1..Len(shape), topology axes 1..Len(grid); a           *)
(* decomposition d maps each topology axis to the spatial axis it splits,  *)
(* coordinates count from 0.  The products of partition_range are taken in *)
(* 128 bits in the code and cannot overflow; they are integers here.       *)
(***************************************************************************)
EXTENDS Integers, Sequences, FiniteSets, Functions, FiniteSetsExt

(* Mutant: blocks of equal length, the remainder to nobody. *)
BoundaryBlock(length, parts, position) == position * (length \div parts)

Boundary(length, parts, position) == (length * position) \div parts

PartitionRange(length, parts, coordinate) ==
  [start |-> Boundary(length, parts, coordinate),
   end   |-> Boundary(length, parts, coordinate + 1)]

(* All coordinates of a process grid. *)
Coordinates(grid) ==
  {c \in [DOMAIN grid -> 0..(Max(Range(grid)) - 1)] : \A m \in DOMAIN grid : c[m] < grid[m]}

LocalRanges(shape, grid, coords, d) ==
  [axis \in DOMAIN shape |->
     IF \E m \in DOMAIN grid : d[m] = axis
     THEN LET m == CHOOSE m \in DOMAIN grid : d[m] = axis
          IN  PartitionRange(shape[axis], grid[m], coords[m])
     ELSE [start |-> 0, end |-> shape[axis]]]

IntersectRanges(left, right) ==
  [axis \in DOMAIN left |->
     LET start == Max({left[axis].start, right[axis].start})
         end   == Min({left[axis].end, right[axis].end})
     IN  [start |-> start, end |-> IF start < end THEN end ELSE start]]

SpatialLen(region) ==
  FoldFunction(LAMBDA range, len : (range.end - range.start) * len, 1, region)

(* The axes in which two decompositions differ; a plan has exactly one. *)
ChangedAxes(d, e) == {m \in DOMAIN d : d[m] # e[m]}

(* The peers of a process: everyone on its line of the changed axis. *)
PeerCoords(grid, coords, changed) ==
  {[coords EXCEPT ![changed] = i] : i \in 0..(grid[changed] - 1)}

(* What a process sends to, and expects from, a peer. *)
SendRegion(shape, grid, d, e, coords, peer) ==
  IntersectRanges(LocalRanges(shape, grid, coords, d), LocalRanges(shape, grid, peer, e))

(* Mutant: the source and destination layouts of the two ends swapped. *)
ReceiveRegionSwapped(shape, grid, d, e, coords, peer) ==
  IntersectRanges(LocalRanges(shape, grid, peer, e), LocalRanges(shape, grid, coords, d))

ReceiveRegion(shape, grid, d, e, coords, peer) ==
  IntersectRanges(LocalRanges(shape, grid, peer, d), LocalRanges(shape, grid, coords, e))

(* Offset of a peer's segment in the send buffer: peers are laid out in    *)
(* the order of their coordinates.                                         *)
SendDisplacement(shape, grid, d, e, coords, peer, changed) ==
  FoldSet(LAMBDA p, sum : sum + SpatialLen(SendRegion(shape, grid, d, e, coords, p)), 0,
          {p \in PeerCoords(grid, coords, changed) : p[changed] < peer[changed]})

ReceiveDisplacement(shape, grid, d, e, coords, peer, changed) ==
  FoldSet(LAMBDA p, sum : sum + SpatialLen(ReceiveRegion(shape, grid, d, e, coords, p)), 0,
          {p \in PeerCoords(grid, coords, changed) : p[changed] < peer[changed]})

(* Whom a process sends to, and receives from: empty segments are skipped. *)
SendPeers(shape, grid, d, e, coords, changed) ==
  {p \in PeerCoords(grid, coords, changed) :
     SpatialLen(SendRegion(shape, grid, d, e, coords, p)) # 0}

ReceivePeers(shape, grid, d, e, coords, changed) ==
  {p \in PeerCoords(grid, coords, changed) :
     SpatialLen(ReceiveRegion(shape, grid, d, e, coords, p)) # 0}

(* The cells of a region. *)
Cells(region) ==
  {c \in [DOMAIN region -> 0..Max({region[a].end : a \in DOMAIN region})] :
     \A a \in DOMAIN region : region[a].start <= c[a] /\ c[a] < region[a].end}
===============================================================================
