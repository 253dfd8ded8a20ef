-------------------------------- MODULE Remap --------------------------------
(***************************************************************************)
(* The plan of a spatial remap (spatial_remap.rs): an array moves from one *)
(* layout to any other of the same shape and topology, each point to where *)
(* an affine map sends it.  Every rank asks the owners of its points for   *)
(* them while the plan is prepared, and is served in that order by every   *)
(* later call.                                                             *)
(*                                                                         *)
(* A layout has a decomposition, as in Geometry, and a memory order that   *)
(* lists spatial axes from the slowest to the fastest.  Ranks are process  *)
(* coordinates; memory and buffers are addressed from 0.  The requests of  *)
(* one rank to another may be in any order, here that of the memory.       *)
(***************************************************************************)
EXTENDS Geometry, SequencesExt

LOCAL Join(f(_), list) == FlattenSeq([i \in DOMAIN list |-> f(list[i])])

(* Row-major offset of an index. *)
RowMajorOffset(shape, index) ==
  FoldLeft(LAMBDA base, axis : base * shape[axis] + index[axis], 0, [k \in DOMAIN shape |-> k])

(* The index at an offset: the inverse of it. *)
RowMajorIndex(shape, offset) ==
  [axis \in DOMAIN shape |->
     (offset \div FoldLeft(LAMBDA n, k : n * k, 1, SubSeq(shape, axis + 1, Len(shape)))) % shape[axis]]

(* All ranks of the topology, in rank order. *)
RankOrder(grid) ==
  [i \in 1..Cardinality(Coordinates(grid)) |-> RowMajorIndex(grid, i - 1)]

Ranges(plan, layout, r) == LocalRanges(plan.shape, plan.grid, r, layout.decomposition)

LocalLen(plan, layout, r) == SpatialLen(Ranges(plan, layout, r))

ShapeInMemory(plan, layout, r) ==
  [k \in DOMAIN layout.order |->
     LET range == Ranges(plan, layout, r)[layout.order[k]] IN range.end - range.start]

(* The point at an offset in the memory of a rank. *)
PointAt(plan, layout, r, offset) ==
  LET index == RowMajorIndex(ShapeInMemory(plan, layout, r), offset)
      position(axis) == CHOOSE k \in DOMAIN layout.order : layout.order[k] = axis
  IN  [axis \in DOMAIN plan.shape |->
         Ranges(plan, layout, r)[axis].start + index[position(axis)]]

(* Where a rank has a point in its memory. *)
OffsetOf(plan, layout, r, point) ==
  RowMajorOffset(ShapeInMemory(plan, layout, r),
    [k \in DOMAIN layout.order |->
       point[layout.order[k]] - Ranges(plan, layout, r)[layout.order[k]].start])

AffineCoordinate(plan, point) ==
  [axis \in DOMAIN plan.shape |->
     ((IF plan.signs[axis] = 1 THEN point[axis] ELSE -point[axis])
        + (plan.offsets[axis] % plan.shape[axis])) % plan.shape[axis]]

(* Binary search for the part that holds an index. *)
PartitionOwner(index, extent, parts) ==
  LET owner[low \in 0..parts, high \in 0..parts] ==
        LET middle == low + ((high - low) \div 2)
            range  == PartitionRange(extent, parts, middle)
        IN  IF index < range.start THEN owner[low, middle]
            ELSE IF index >= range.end THEN owner[middle + 1, high] ELSE middle
  IN  owner[0, parts]

OwnerRank(plan, point) ==
  [m \in DOMAIN plan.grid |->
     LET axis == plan.source.decomposition[m]
     IN  PartitionOwner(point[axis], plan.shape[axis], plan.grid[m])]

(* What r has to ask for: by owner, each request with the place its answer *)
(* goes to.                                                                *)
Requests(plan, r) ==
  [i \in 1..LocalLen(plan, plan.destination, r) |->
     LET point == AffineCoordinate(plan, PointAt(plan, plan.destination, r, i - 1))
     IN  [owner |-> OwnerRank(plan, point),
          index |-> RowMajorOffset(plan.shape, point), to |-> i - 1]]

OwnerRoutes(plan, r) ==
  Join(LAMBDA q : SelectSeq(Requests(plan, r), LAMBDA e : e.owner = q), RankOrder(plan.grid))

(* Segments follow one another in rank order. *)
Displacements(plan, counts) ==
  [q \in DOMAIN counts |->
     FoldSet(LAMBDA p, n : n + counts[p], 0,
       {p \in DOMAIN counts : RowMajorOffset(plan.grid, p) < RowMajorOffset(plan.grid, q)})]

(* What prepare keeps for each rank, given the requests of all: how many   *)
(* it has sent to every other and received from it, where these segments   *)
(* start, and the places in its memory of the points it is asked for.      *)
Prepare(plan, routes) ==
  LET ranks == Coordinates(plan.grid)
      sends == [r \in ranks |-> [q \in ranks |-> Len(SelectSeq(routes[r], LAMBDA e : e.owner = q))]]
      receives(r) == [q \in ranks |-> sends[q][r]]
      segment(q, r) == LET start == Displacements(plan, sends[q])[r]
                       IN  SubSeq(routes[q], start + 1, start + sends[q][r])
      incoming(r) == Join(LAMBDA q : segment(q, r), RankOrder(plan.grid))
  IN  [r \in ranks |->
         [sendCounts |-> sends[r], sendDisplacements |-> Displacements(plan, sends[r]),
          receiveCounts |-> receives(r), receiveDisplacements |-> Displacements(plan, receives(r)),
          destinationOffsets |-> [i \in DOMAIN routes[r] |-> routes[r][i].to],
          sourceOffsets |->
            LET requests == incoming(r)
            IN  [i \in DOMAIN requests |->
                   OffsetOf(plan, plan.source, r, RowMajorIndex(plan.shape, requests[i].index))]]]

(* Mutant: all points of a group of the extra axes follow one another.     *)
PackPayloadByPoint(plan, kept, r, q, memory) ==
  [at \in 0..(kept.receiveCounts[q] * plan.extra - 1) |->
     memory[(at % plan.extra) * LocalLen(plan, plan.source, r)
            + kept.sourceOffsets[kept.receiveDisplacements[q] + (at \div plan.extra) + 1]]]

(* What rank r, which keeps kept, sends to rank q. *)
PackPayload(plan, kept, r, q, memory) ==
  LET count == kept.receiveCounts[q]
  IN  [at \in 0..(count * plan.extra - 1) |->
         memory[(at \div count) * LocalLen(plan, plan.source, r)
                + kept.sourceOffsets[kept.receiveDisplacements[q] + (at % count) + 1]]]

(* The destination of r, given the segment that each rank has sent to it.  *)
UnpackPayload(plan, kept, r, received) ==
  LET len == LocalLen(plan, plan.destination, r)
  IN  [at \in 0..(len * plan.extra - 1) |->
         LET i == CHOOSE i \in DOMAIN kept.destinationOffsets : kept.destinationOffsets[i] = at % len
             q == CHOOSE q \in DOMAIN kept.sendCounts :
                    i - kept.sendDisplacements[q] \in 1..kept.sendCounts[q]
         IN  received[q][(at \div len) * kept.sendCounts[q] + i - kept.sendDisplacements[q] - 1]]

(* apply_views: the destinations of all ranks after a call.                *)
ApplyViews(plan, prepared, memory) ==
  [r \in DOMAIN prepared |->
     UnpackPayload(plan, prepared[r], r,
       [q \in DOMAIN prepared |-> PackPayload(plan, prepared[q], q, r, memory[q])])]
==============================================================================
