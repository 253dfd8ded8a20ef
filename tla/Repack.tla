-------------------------------- MODULE Repack --------------------------------
(***************************************************************************)
(* The conversions of an in-place real to complex transform: one buffer    *)
(* holds lines of n reals, then lines of n \div 2 + 1 complex numbers, and *)
(* back.  A complex number occupies two scalars, so that most lines move   *)
(* when they are transformed; only one line at a time is held outside.     *)
(*                                                                         *)
(* The elements of a line are stride apart; the lines of an outer group    *)
(* are interleaved.  With stride 1 lines are read and written directly.    *)
(* With a larger one the reals are first promoted to complex numbers, and  *)
(* on the way back the blocks are expanded first and the real parts        *)
(* projected last.                                                         *)
(*                                                                         *)
(* b is the shape of a buffer, [n, groups, stride]; cell its content, a    *)
(* function of the scalars.                                                *)
(***************************************************************************)
EXTENDS Integers, Sequences, SequencesExt

Complexes(b) == b.n \div 2 + 1
Lines(b) == b.groups * b.stride
Reals(b) == Lines(b) * b.n

(* Length of the buffer in complex numbers: both forms fit, and the        *)
(* promoted reals too.                                                     *)
PromotedLen(b) ==
  LET real == IF b.stride > 1 THEN Reals(b) ELSE (Reals(b) + 1) \div 2
  IN  IF real > Lines(b) * Complexes(b) THEN real ELSE Lines(b) * Complexes(b)

Scalars(b) == 0..(2 * PromotedLen(b) - 1)

(* Element k of a line, counted in elements, when lines have len elements. *)
Slot(b, line, k, len) ==
  (line \div b.stride) * len * b.stride + k * b.stride + (line % b.stride)

(* Contents: element k of a line before and after its transform, and what  *)
(* is neither.                                                             *)
Real(line, k) == <<"real", line, k>>
Spectral(line, k) == <<"spectral", line, k>>
Zero == <<"zero">>
Garbage == <<"garbage">>

(* The slots of real and imaginary parts as scalars. *)
Re(slot) == 2 * slot
Im(slot) == 2 * slot + 1

Elements(len) == 0..(len - 1)

(* The buffer with the scalars of f overwritten. *)
Write(cell, f) ==
  [x \in DOMAIN cell \union DOMAIN f |-> IF x \in DOMAIN f THEN f[x] ELSE cell[x]]

(* What the buffer holds of a line where the loops expect it. *)
PackedLine(b, cell, line) == [k \in Elements(b.n) |-> cell[Slot(b, line, k, b.n)]]
PromotedLine(b, cell, line) == [k \in Elements(b.n) |-> cell[Re(Slot(b, line, k, b.n))]]
SpectralLine(b, cell, line, len) ==
  [k \in Elements(Complexes(b)) |->
     <<cell[Re(Slot(b, line, k, len))], cell[Im(Slot(b, line, k, len))]>>]

WholeReal(b, line) == [k \in Elements(b.n) |-> Real(line, k)]
WholeSpectral(b, line) == [k \in Elements(Complexes(b)) |-> <<Spectral(line, k), Spectral(line, k)>>]

(* The transform of one line needs all of it. *)
LocalTransform(input, whole, output) == IF input = whole THEN output ELSE Garbage

(* The spectrum of a line from its reals, written over the line. *)
WriteSpectral(b, cell, line, reals) ==
  Write(cell, [x \in UNION {{Re(Slot(b, line, k, Complexes(b))), Im(Slot(b, line, k, Complexes(b)))} :
                              k \in Elements(Complexes(b))} |->
    LocalTransform(reals, WholeReal(b, line),
      Spectral(line, CHOOSE k \in Elements(Complexes(b)) : x \div 2 = Slot(b, line, k, Complexes(b))))])

(* A loop from first to last, in that order, over the buffer. *)
Loop(cell, first, last, Turn(_, _)) ==
  FoldLeft(Turn, cell,
    IF first <= last THEN [i \in 1..(last - first + 1) |-> first + i - 1] ELSE <<>>)

LoopDown(cell, first, last, Turn(_, _)) ==
  FoldLeft(Turn, cell,
    IF first >= last THEN [i \in 1..(first - last + 1) |-> first - i + 1] ELSE <<>>)

----------------------------------------------------------------------------
(* Real to complex.                                                        *)

PromoteOne(cell, i) ==
  Write(cell, [x \in {Re(i), Im(i)} |-> IF x = Re(i) THEN cell[i] ELSE Zero])

(* Mutant: promotion from the front. *)
PromoteAscending(b, cell) == Loop(cell, 0, Reals(b) - 1, PromoteOne)

(* From the back: number i moves to the slots 2i and 2i + 1. *)
Promote(b, cell) == LoopDown(cell, Reals(b) - 1, 0, PromoteOne)

StridedForward(b, cell) ==
  Loop(cell, 0, Lines(b) - 1,
       LAMBDA c, line : WriteSpectral(b, c, line, PromotedLine(b, c, line)))

(* From the last row: rows grow. *)
ContiguousForward(b, cell) ==
  LoopDown(cell, Lines(b) - 1, 0,
           LAMBDA c, row : WriteSpectral(b, c, row, PackedLine(b, c, row)))

ConvertRealToComplex(b, cell) ==
  IF b.stride > 1 THEN StridedForward(b, Promote(b, cell)) ELSE ContiguousForward(b, cell)

(* The owner keeps the complex numbers; for the way back the buffer is     *)
(* resized again.                                                          *)
InstallComplexStorage(b, cell) ==
  Write(cell, [x \in {x \in Scalars(b) : x >= 2 * Lines(b) * Complexes(b)} |-> Zero])

----------------------------------------------------------------------------
(* Complex to real.                                                        *)

MoveBlock(b, cell, outer) ==
  LET from == Re(outer * Complexes(b) * b.stride)
      to == Re(outer * b.n * b.stride)
  IN  Write(cell, [x \in to..(to + Re(Complexes(b) * b.stride) - 1) |-> cell[x - to + from]])

(* From the last block: each moves up, one copy that minds its overlap. *)
Expand(b, cell) ==
  LoopDown(cell, b.groups - 1, 0, LAMBDA c, outer : MoveBlock(b, c, outer))

(* The reals of a line from its spectrum, written to the given scalars. *)
WriteReal(b, cell, line, spectrum, At(_)) ==
  Write(cell, [x \in {At(Slot(b, line, k, b.n)) : k \in Elements(b.n)} |->
    LocalTransform(spectrum, WholeSpectral(b, line),
      Real(line, CHOOSE k \in Elements(b.n) : x = At(Slot(b, line, k, b.n))))])

(* Results go into real parts; imaginary parts keep what they had. *)
StridedReverse(b, cell) ==
  Loop(cell, 0, Lines(b) - 1,
       LAMBDA c, line : WriteReal(b, c, line, SpectralLine(b, c, line, b.n), Re))

(* From the front: number i moves down to slot i. *)
Project(b, cell) ==
  Loop(cell, 0, Reals(b) - 1, LAMBDA c, i : Write(c, [x \in {i} |-> c[Re(i)]]))

(* From the first row: rows shrink. *)
ContiguousReverse(b, cell) ==
  Loop(cell, 0, Lines(b) - 1,
       LAMBDA c, row : WriteReal(b, c, row, SpectralLine(b, c, row, Complexes(b)), LAMBDA x : x))

ConvertComplexToReal(b, cell) ==
  IF b.stride > 1 THEN Project(b, StridedReverse(b, Expand(b, cell))) ELSE ContiguousReverse(b, cell)

----------------------------------------------------------------------------

(* A buffer as allocated and filled by the caller. *)
Input(b) ==
  [x \in Scalars(b) |->
     IF \E line \in Elements(Lines(b)), k \in Elements(b.n) : x = Slot(b, line, k, b.n)
     THEN LET p == CHOOSE p \in Elements(Lines(b)) \X Elements(b.n) : x = Slot(b, p[1], p[2], b.n)
          IN  Real(p[1], p[2])
     ELSE Zero]
===============================================================================
