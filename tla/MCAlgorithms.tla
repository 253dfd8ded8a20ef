----------------------------- MODULE MCAlgorithms -----------------------------
(***************************************************************************)
(* The pure algorithms on every small input: one state per input.  An      *)
(* input is a transpose (shape, process grid, and two decompositions that  *)
(* differ in one axis), the buffer of an in-place real transform, a spatial *)
(* remap, or the words that ranks compare.                                 *)
(***************************************************************************)
EXTENDS Geometry, Repack, Remap, Preflight

CONSTANTS
  MaxLength, MaxParts,               \* bounds: axis lengths, processes per grid axis
  MaxLine, MaxGroups, MaxStride,     \* bounds: line length, outer groups, stride
  MaxRanks                           \* bound: ranks that compare words

ASSUME BoundAssumption ==
  /\ MaxLength \in Nat /\ MaxParts \in Nat /\ MaxRanks \in Nat \ {0}
  /\ MaxLine \in Nat /\ MaxGroups \in Nat /\ MaxStride \in Nat

VARIABLES
  input,
  work       \* of a remap: what its ranks have computed so far

Decomposition == {d \in [1..2 -> 1..3] : d[1] # d[2]}

Transposes ==
  {t \in [kind : {"transpose"}, shape : [1..3 -> 0..MaxLength], grid : [1..2 -> 1..MaxParts],
          source : Decomposition, destination : Decomposition] :
     Cardinality(ChangedAxes(t.source, t.destination)) = 1}

Buffers == [kind : {"buffer"}, n : 1..MaxLine, groups : 1..MaxGroups, stride : 1..MaxStride]

(* Layouts of arrays with two axes. *)
Layouts(m) ==
  [decomposition : {d \in [1..m -> 1..2] : m = 2 => d[1] # d[2]}, order : {<<1, 2>>, <<2, 1>>}]

Remaps ==
  UNION {[kind : {"remap"}, shape : [1..2 -> 1..MaxLength], grid : [1..m -> 2..(4 - m)], extra : 1..2,
          source : Layouts(m), destination : Layouts(m),
          signs : [1..2 -> {-1, 1}], offsets : {<<-4, 1>>, <<0, 0>>}] : m \in 1..2}

Headers ==
  UNION {[kind : {"words"}, n : {n}, words : [1..MaxRanks -> [1..n -> Word]]] : n \in 1..2}

Init ==
  /\ input \in Transposes \cup Buffers \cup Remaps \cup Headers
  /\ work = [stage |-> IF input.kind = "remap" THEN "routes" ELSE "done"]

(* The ranks of a remap, from one exchange to the next. *)
Routes ==
  /\ work.stage = "routes"
  /\ work' = [stage |-> "prepare",
              routes |-> [r \in Coordinates(input.grid) |-> OwnerRoutes(input, r)]]
  /\ UNCHANGED input

Exchange ==
  /\ work.stage = "prepare"
  /\ work' = [stage |-> "apply", prepared |-> Prepare(input, work.routes)]
  /\ UNCHANGED input

(* Each point of the source carries its own coordinates. *)
Memory(r) ==
  LET n == LocalLen(input, input.source, r)
  IN  [at \in 0..(n * input.extra - 1) |-> <<at \div n, PointAt(input, input.source, r, at % n)>>]

Apply ==
  /\ work.stage = "apply"
  /\ work' = [stage |-> "applied",
              arrived |-> ApplyViews(input, work.prepared,
                                     [r \in Coordinates(input.grid) |-> Memory(r)])]
  /\ UNCHANGED input

Next == Routes \/ Exchange \/ Apply

Spec == Init /\ [][Next]_<<input, work>>

----------------------------------------------------------------------------
(* Transposes.                                                             *)

Changed(t) == CHOOSE m \in ChangedAxes(t.source, t.destination) : TRUE
Ranks(t) == Coordinates(t.grid)
Owned(t, r, d) == LocalRanges(t.shape, t.grid, r, d)
Peers(t, r) == PeerCoords(t.grid, r, Changed(t))
Sent(t, r, p) == SendRegion(t.shape, t.grid, t.source, t.destination, r, p)
Received(t, r, p) == ReceiveRegion(t.shape, t.grid, t.source, t.destination, r, p)

(* partition_range: the processes of the grid own every cell of the array  *)
(* exactly once, also when an axis is shorter than its process count.      *)
RanksTileTheArray ==
  input.kind = "transpose" =>
    \A cell \in Cells([a \in 1..3 |-> [start |-> 0, end |-> input.shape[a]]]) :
      Cardinality({r \in Ranks(input) : cell \in Cells(Owned(input, r, input.source))}) = 1

(* build_peer_metadata: a rank hands each cell it owns to exactly one peer *)
(* of its line, and fills each cell of its destination from exactly one.   *)
PeersTileTheRegion ==
  input.kind = "transpose" =>
    \A r \in Ranks(input) :
      /\ \A cell \in Cells(Owned(input, r, input.source)) :
           Cardinality({p \in Peers(input, r) : cell \in Cells(Sent(input, r, p))}) = 1
      /\ \A cell \in Cells(Owned(input, r, input.destination)) :
           Cardinality({p \in Peers(input, r) : cell \in Cells(Received(input, r, p))}) = 1

(* The two ends of a pair compute the same region, so a segment that is    *)
(* skipped as empty on one side is skipped on the other, and counts match. *)
EndsAgree ==
  input.kind = "transpose" =>
    \A r \in Ranks(input) : \A p \in Peers(input, r) :
      Cells(Sent(input, r, p)) = Cells(Received(input, p, r))

(* The segments of the workspace follow one another without gap or overlap *)
(* and end at the local length, the equality prepare_common insists on.    *)
SegmentsFillTheBuffer ==
  input.kind = "transpose" =>
    \A r \in Ranks(input) : \A p \in Peers(input, r) :
      LET m == Changed(input)
          send == SendDisplacement(input.shape, input.grid, input.source, input.destination, r, p, m)
          receive == ReceiveDisplacement(input.shape, input.grid, input.source, input.destination, r, p, m)
      IN  p[m] = input.grid[m] - 1 =>
            /\ send + SpatialLen(Sent(input, r, p)) = SpatialLen(Owned(input, r, input.source))
            /\ receive + SpatialLen(Received(input, r, p))
                 = SpatialLen(Owned(input, r, input.destination))

(* Nobody loses a cell or gets one twice, in an array or in an exchange.   *)
OwnersTileTheArray == RanksTileTheArray /\ PeersTileTheRegion

(* What two ends exchange is the same region, and fits both workspaces.    *)
SegmentsFit == EndsAgree /\ SegmentsFillTheBuffer

----------------------------------------------------------------------------
(* In-place repacks.                                                       *)

(* convert_real_to_complex: every line is read whole before its reals are  *)
(* overwritten, by its own spectrum, by that of another line, or by the    *)
(* promotion; and no spectrum is overwritten after it was written.         *)
SpectrumInPlace ==
  input.kind = "buffer" =>
    LET cell == ConvertRealToComplex(input, Input(input))
    IN  \A line \in Elements(Lines(input)) :
          SpectralLine(input, cell, line, Complexes(input)) = WholeSpectral(input, line)

(* convert_complex_to_real: the way back finds every spectrum whole and    *)
(* restores every line to where it was.                                    *)
RoundTrip ==
  input.kind = "buffer" =>
    LET cell == ConvertComplexToReal(input,
                  InstallComplexStorage(input, ConvertRealToComplex(input, Input(input))))
    IN  \A line \in Elements(Lines(input)) : PackedLine(input, cell, line) = WholeReal(input, line)

(* No line is lost in either direction within the one allocation.          *)
RepackKeepsTheLines == SpectrumInPlace /\ RoundTrip

----------------------------------------------------------------------------
(* Spatial remaps.                                                         *)

(* SpatialRemapPlan: "Each logical point maps as source[a] = (signs[a] *   *)
(* destination[a] + offsets[a]) mod extent[a]. [...] Every extra-shape     *)
(* group uses the same spatial map", whatever the two layouts are.         *)
RemapIsAffine ==
  work.stage = "applied" =>
    \A r \in Coordinates(input.grid) : \A at \in DOMAIN work.arrived[r] :
      LET n == LocalLen(input, input.destination, r)
          point == PointAt(input, input.destination, r, at % n)
      IN  work.arrived[r][at] =
            <<at \div n, [a \in 1..2 |-> (input.signs[a] * point[a] + input.offsets[a]) % input.shape[a]]>>

----------------------------------------------------------------------------
(* Words.                                                                  *)

(* agree_header, agree_words: both exchanges accept exactly the words that *)
(* are equal on all ranks, whatever the chunks; no difference is masked by *)
(* a larger word of another rank.                                          *)
AgreementIsExact ==
  input.kind = "words" =>
    /\ AgreeHeader(input.words, input.n) = AllEqual(input.words, input.n)
    /\ \A chunk \in 1..2 : AgreeWords(input.words, input.n, chunk) = AllEqual(input.words, input.n)
===============================================================================
