# pencil-rs in TLA+

pencil-rs distributes multidimensional arrays over the processes ("ranks") of an MPI
Cartesian grid, redistributes ("transposes") them between decompositions, runs Fourier
transforms on them and writes them to files.  Nearly every public operation is *collective*:
all ranks have to call it, it first agrees through reductions that they can all carry it
out, and only then touches data.  This directory specifies those protocols, model-checks
them on small grids with TLC, and proves the central results for any number of ranks with
TLAPS.

The sections: [inventory](#inventory) of the system, [modules](#modules) and how they build on each other,
[models](#models) and their correspondence to the code, [runs](#runs),
[fairness](#fairness), [proofs](#proofs), [findings](#findings) and
[what is not modelled](#not-modelled).  Paths are relative to the repository; `array/`,
`fft/`, `fftw/` and `io/` stand for `crates/pencil-<name>/src/`.

## Inventory

### pencil-array: who owns what, and how it moves

* **Geometry** (`array/geometry.rs`, `decomposition.rs`, `pencil.rs`, `topology.rs`).  No
  state that changes.  A process grid, a global shape and a decomposition (which spatial
  axis each grid axis splits) determine the ranges of every rank by the floor rule
  `partition_range`.  *Correct when* the ranks tile the array, also with more processes
  than points.
* **Transpose plan** (`array/transpose.rs`).  State: two layouts that differ in one grid
  axis, and per peer on that axis the region to send, the region to receive and their
  offsets.  Operations: collective construction; agreement and local preparation of an
  execution.  *Correct when* the two ends of every pair compute the same regions, the
  segments fill the workspace exactly, and no rank-local failure makes the sequences of
  reductions diverge.
* **Point-to-point and all-to-all execution** (`array/point_to_point_transpose.rs`,
  `alltoallv_transpose.rs`).  State: workspace buffers, MPI requests, messages under way.
  Operations: out of place, in place, and (point to point) both with a callback that runs
  on the unpacked data *while sends are still outstanding*.  All messages carry one tag.
  *Correct when* a call that returns `Ok` delivered this call's data, nothing of a call is
  left over when it returns, all ranks learn the same outcome, a refused call touched
  nothing, and everybody returns.
* **Arrays with several layouts** (`array/many.rs`).  State: one buffer and
  `Valid(layout)` or `Poisoned`.  Operations: `overwrite_with`, the write guard of the
  in-place operations.  *Correct when* an array is readable only in a layout that was
  completely written, on all ranks alike.
* **Reductions, gathers, remaps, local transposes, pointwise operations**
  (`array/collectives.rs`, `spatial_remap.rs`, `local_transpose.rs`, `pointwise.rs`).  The
  same agreements, then a few MPI reductions whose number may depend on the data, messages
  to a root, or a planned exchange.  *Correct when* an exit one rank takes is taken by all,
  and the result is that of the global array however it is split.

### pencil-fft: transforms as routes of local stages and transposes

* **Distributed transforms** (`fft/distributed.rs`, `distributed/*.rs`).  State: a plan
  (stages and transitions), workspace with an intermediate array, and for in-place arrays
  `Input`, `Output` or `Poisoned`.  Operations: forward and inverse, out of place, in place,
  overlapped (a stage as the callback of a transpose).  Between stages it calls the
  transposes above, each with agreements of its own.  *Correct when* every rank takes the
  same route, an error at any stage leaves the array poisoned on all ranks, and nobody
  waits in a transpose a failed rank will not enter.
* **Collections** (`fft/distributed/collections.rs`).  Several members in sequence, agreed
  one by one; an error leaves a prefix transformed.
* **Local transforms** (`fft/r2c.rs`, `r2r.rs`, `dht.rs`, ...): numerics, no protocol.

### pencil-fftw: a process-wide planner

State: one lock, thread state and time limit per precision, process-wide in FFTW.
Operations: plan, destroy, wisdom.  *Correct when* limit and thread count are restored
before the lock is released, also on unwinding, nothing enters the planner unlocked, and
the thread library is initialised before FFTW is used, or FFTW is used without it.

### pencil-io: files written by all ranks

* **MPI-IO files** (`io/mpi_io.rs`).  A write goes through a dozen phases, each followed by
  an agreement; a commit marker is written last.  *Correct when* a marked file has its
  whole payload, whatever fails or crashes, and resources of half-open files end the
  program instead of leaking a rank.
* **Named containers and sessions** (`io/named_mpi.rs`, `named_mpi/session.rs`).  Append
  records, scan after a crash, sessions with identity, poison and collective close.
* **HDF5** (`io/hdf5_io.rs`, `hdf5_io/session.rs`): the same duties through another library.

### What is hard here

Ranks run unsynchronised except inside MPI calls.  A reduction completes when all ranks
entered it, and MPI pairs reductions by order only, so one skipped reduction is either a
deadlock or, worse, a pairing with the wrong call site.  Failures are local (allocation, a
wrong layout, a callback's error or panic) but must have the same consequence everywhere.
Messages of consecutive calls share a tag.  `PROJECT.json` lists these hazards with the line
where each bites and the properties that would catch it.

## Modules

| module | models | builds on |
|--------|--------|-----------|
| `Geometry` | floor rule, regions, displacements | |
| `Preflight` | agreement on words by one MAX reduction of words and complements | |
| `Reductions` | pairing of reductions by order; the agreements of all modules below but `Transpose` | |
| `ReductionProofs` | lemmas about `Reductions` for the proofs of all its users | `Reductions` |
| `Transpose` | agreements, exchange, callback, array state | |
| `AtomicCall` | what callers are promised; refined by `Transpose` | |
| `TransposeInvariant` | the inductive invariant: reductions, outcomes, exchange | `Transpose` |
| `TransposeProofs` | reductions match; outcomes agree, and the refinement of `AtomicCall`; messages, data and array state | `TransposeInvariant` |
| `MCTranspose` | exchange patterns of real geometries | `Transpose`, `Geometry` |
| `Route`, `RouteProofs` | layouts of a distributed transform, stage by stage | |
| `Steps` | vocabulary of scripts: agreements, stages, transitions, guards | |
| `C2C`, `R2R`, `R2C`, `Mixed` | scripts of the five families of plans | `Steps` |
| `Transform`, `MCTransform` | executes the scripts on all ranks, with failures; collections | the scripts, `Reductions` |
| `TransformInvariant` | its inductive invariant: outlook of the ranks, bad spectra | `Transform`, `ReductionProofs` |
| `TransformProofs` | shape of all scripts; outcomes agree, writes after the start, bad spectra | `TransformInvariant` |
| `Repack` | conversion of an in-place buffer between reals and complex numbers | |
| `Remap` | owners, requests and payload of a spatial remap | `Geometry` |
| `MCAlgorithms` | every small input of the pure algorithms | `Geometry`, `Repack`, `Remap`, `Preflight` |
| `AlgorithmProofs` | exact agreement, tiling, pairing of exchanges, for all inputs | `MCAlgorithms` |
| `Collectives`, `MCCollectives` | sums, extremes, norms, map-reduce, gather, agreements of remaps | `Reductions` |
| `MpiIo` | collective files: write, read, collections, catalog, raw reads | `Reductions` |
| `MpiIoInvariant` | its inductive invariant: ranks in step, resources, file | `MpiIo`, `ReductionProofs` |
| `MpiIoProofs` | scripts, agreement, clean-up, and the truth of the marker | `MpiIoInvariant` |
| `Container`, `MCContainer` | named containers and their sessions | `Reductions` |
| `ContainerInvariant` | its inductive invariant: ranks in step, sessions, records | `Container`, `ReductionProofs` |
| `ContainerProofs` | scripts, verdicts and sessions of ranks in step; records, markers and scans | `ContainerInvariant` |
| `Hdf5` | HDF5 files and their sessions | `Reductions` |
| `Planner`, `PlannerProofs` | FFTW's planner and its lock | |

`AtomicCall` is the interface of a transpose: `Transform` treats a transition as one
agreement after which data has moved, which is what `Transpose` is shown to implement.
`Preflight` justifies that the other modules compare words directly.

## Models

### Geometry

Operators only.  `Boundary` and `PartitionRange` are `partition_range`; `LocalRanges` is
`local_ranges_for`; `IntersectRanges`, `SpatialLen`, `SendRegion`, `ReceiveRegion` and the
displacements are `intersect_ranges`, `region_spatial_len` and `build_peer_metadata`.
`MCAlgorithms` enumerates plans as initial states and compares these operators with the
definition by cells: who owns a cell, who sends it, who receives it.

### Transpose

One process per rank; `pc[r]` is the place in the code.

| place | the rank is in |
|-------|----------------|
| `idle` | the caller |
| `header` | `agree_header` |
| `ready`, `descriptor` | the two reductions of `collective_descriptor` |
| `layout`, `peers` | the two `agree_preflight` of `TransposePlanCore::new` |
| `preflight` | `agree_preflight` of the all-to-all forms |
| `reservation` | `agree_preflight_and_reservation` of the point-to-point forms |
| `pack` ... `unpack` | the exchange, `callback` being between the receive and the send waits |
| `status` | the reduction of callback statuses |

*Reductions.*  `log[r]` is the sequence of reductions rank `r` has entered on the Cartesian
communicator, each with the call site's purpose and the word it contributed.  Entering
appends; a rank leaves its n-th reduction when everyone has entered an n-th one
(`Complete`), with the set of the n-th words (`Votes`) as the combined result.  This is
MPI's rule, not an assumption about matching: if ranks ever entered different reductions
the model would combine them too, as MPI would.  That they never do is `CollectivesMatch`.

*Operations.*  `new` (construction), `views`, `views_callback`, `in_place`,
`in_place_callback`, `alltoallv_views`, `alltoallv_in_place`.  Each rank chooses operation
and plan direction by itself, so ranks may disagree; the code has to notice.  The timed
variants differ by operation word and clocks only and are not distinguished.

*Local failures* are nondeterministic and enabled by the constant `Fault`: `descriptor`
(the descriptor or its buffers cannot be built), `preflight` (too small a workspace, count
overflow, wrong shapes; in construction, invalid layouts), `reserve` (no memory for
requests), `error` and `panic` (the callback), `writer` (an `overwrite_with` that fails).
An array in the wrong layout or poisoned is not a fault but a state: preparation then fails.

*Data.*  A block is what one rank owns in one layout and another in the other; it is moved
whole.  A value records the call for which its caller wrote it and whether the callback
transformed it: enough to tell delivered from stale data.  A rank's callers fill the array
(its active layout) before an in-place call.  Data a failed callback leaves half
transformed is represented as untransformed: the array is poisoned then.

*MPI* is external: `Inject` takes a posted segment out of the sender's buffer (at any time,
which covers eager, buffered and rendezvous transfer), `Deliver` matches the oldest message
of a pair with the posted receive.  `MPI_Alltoallv` is posting all sends and receives of
the line and waiting for them.

*Actions.*  `Start` enters an operation; `AfterHeader` ... `AfterAgreement` leave one
reduction and enter the next or return; `Pack`, `PostReceives`, `PostSends`,
`WaitReceives`, `RunCallback`, `WaitSends`, `Unpack`, `AfterStatus` follow the source in
order.  `Pack` poisons the array in the callback form (its guard begins in the pack
closure), `Unpack` does both poison and commit of the plain form (`finish_in_place` has no
failure between them), `AfterStatus` commits the callback form.

The exchange pattern enters as `SendsTo` and `ReceivesFrom` with the assumption
`RegionAssumption` that both ends of a pair agree.  `MCTranspose` computes both from
`Geometry`, so TLC checks the assumption on the instances; `ExchangesArePaired` in
`AlgorithmProofs` proves it for all of them.

### AtomicCall

What a caller may rely on: nobody returns from a call before all ranks have made it, and
all ranks that return from it have the same outcome: carried out, refused, or failed in a
callback.  `ImplementsAtomicCall` maps the calls made, the calls returned from and the class
of the result.

### Route

`build_route` lays out a distributed transform; all families use it (complex, real to
complex, real to real, mixed).  The state is the layout of the current stage: its axis, the
decomposition and the memory order, and the set of axes whose transition is distributed.
`Validate` is `validate_input`, `NextStage` one turn of the loop (`MoveLast` computes the
memory order, `Advance` is `advance_decomposition`), `Finish` the comparison with the
documented output layout.  Extents, topology identity and allocation failures are left out:
they refuse a plan before or during the loop and leave nothing behind.  Axes count from 0.
Callers pass any decomposition and one of two memory orders; only the canonical input passes.

### Repack, Remap and Preflight

Pure algorithms as operators.  `Repack` moves the lines of a buffer as
`convert_real_to_complex` and `convert_complex_to_real` do, in their order, with one line
held outside; each cell carries where it came from, so an overwritten line shows.  `Remap`
is `prepare` and `apply_views`: which rank asks which for what (`OwnerRoutes`), receive
displacements, packing and unpacking by memory order.  `Preflight` is `expand_for_max`,
`split_min_max`, `agree_header` and `agree_words` over words of any width.

### Reductions

The log of `Transpose`, bounded: the last entries of every rank, numbered modulo 4 (no rank
is ever more than one reduction ahead of one that waits).  `Enter` and `Complete` are all the
other modules need.  A rank that has entered keeps the words it may still have to combine.

### Steps, C2C, R2R, R2C, Mixed, Transform

A call of a transform is a *script*, the sequence of everything a rank does in it:
agreements, local stages, transitions, copies, the guards of poisoned arrays, changes of
state and of storage.  The script of each operation (`C2CExecute`, `R2COverlapForward`,
`MixedR2CExecuteInPlace`, ...) is translated from the function of the same name;
`Try(steps, ...)` marks steps whose error the code catches and agrees on, other errors
return from this rank alone, and a panic unwinds it.  `Transform` executes: `EnterAgreement`,
`LeaveAgreement`, `LocalStage`, `FailStage`, `Panic`, `ConvertStorage`, `SetState`, ... are
one action per kind of step.  Content is a number, how many stages and transitions the data
is ahead of the input, or `Garbage`; applying a stage or transition to data in another
position gives `Garbage`, so a skipped, doubled or reordered step shows.  Ranks may make
different calls (`Strays`), pass another plan's descriptor or bring an invalid spectrum.
Collections run member after member under the same rules and abort on a panic.

### Collectives

One call per rank.  `place[r]` is the reduction or message a rank is at; `Target` is where
the code goes from there, `Outcome` what it returns.  Values are small integers with an
overflow at `Limit`, or floats with NaN and infinities; norms and sums of floats take their
data-dependent early exits.  A gather sends seeds and payloads to the root, which receives
them in rank order.

### MpiIo, Container, Hdf5

A call is a script of places.  At each of them a rank does one thing (checks, MPI-IO or HDF5
calls) which may fail locally, and then all ranks agree; where the code cannot go on
collectively it aborts.  `Begin` starts a call, `Step` is one place.  A file is a set of
parts, each cached or in stable storage; `Crash` loses any set of cached parts and starts
the next job, which finds what is left.  Calls that differ between ranks (operation, name,
session) are made on purpose.

* `MpiIo`: header, payload per rank, marker and length; creation, staging, rename of nothing
  (the code writes in place), the marker after payload and its flush.
* `Container`: records with header, payload, marker; `Prefix` is the scan, which the root
  makes and whose result or error (`Report`) it broadcasts; a catalog by path and a session
  stop at `MaxRecords` (`ScanLimit`).  Sessions have identity, view and a
  poisoned flag, all of which a rank keeps for itself.  `OkIsListed` holds the file to every
  `Ok`: the name is there, under a listed record.
* `Hdf5`: namespaces, datasets, attributes, marker; native handles by kind.
  `Inspect` is the catalog of a session, which `open_append` makes too: root, `Walk` into a
  group and a dataset and back, every handle closed on every way out (`ExitPlaces`), an abort
  where only some ranks got a collective one.  One group and one dataset stand for all of a
  tree, and `Init` has an open session on every tree it starts with; `Parent` is the way to the
  group of a member.  The library is external: it keeps a file consistent, not complete, over a crash.

### Planner

Threads of one process.  `guards[t]` are the guards on a thread's stack; `DropGuard` drops
the youngest, so every way out of `Plan::new`, an unwinding one too, takes the same way.
`slot` is the remembered outcome of loading the thread library.  `plan_c2c` makes two native
plans, and the first is destroyed when the second fails (`Orphan`).

Definitions with the suffix of a bug (`...Own`, `...Early`, `...Late`, `...Unvalidated`, `LockFirst`, ...) are
wrong variants that show that a property can fail; no specification uses them.

## Runs

| run | instance | shows |
|-----|----------|-------|
| `algorithms` | axes of 0..3 points on grids up to 3 x 3, lines of up to 6, remaps of two axes, 3 ranks comparing words of two bits | tiling, agreement of the two ends, full buffers; no line is lost in a repack; a remap puts each point where the map sends it; words agree exactly when equal |
| `route` | all plans of 1 to 5 dimensions, both layout options, every input decomposition | stages are local, layouts valid, transitions are transposes, one per topology axis |
| `grid` | 2 x 2 ranks in place, exchanges on lines of two | outcomes cross lines, refused calls touch nothing, the state follows the outcome |
| `mixed` | 2 ranks, 2 calls, in place or with a callback among the sends, of different plans | reductions match, nothing is left over, `Ok` means delivered, a call is atomic |
| `live` | 3 ranks, one owning nothing, fair | everybody returns; errors and panics are attributed |
| `callback_error_doc` | 2 ranks, 1 call | a finding, see below |
| `transform` | 2 ranks, 2 calls, 17 plans of all families with two or three stages | equal outcomes; what destinations, states and workspaces hold after success, error or panic |
| `collectives` | 3 ranks, up to two values each, one failure or stray call | reductions stay in step; results are those of the global array |
| `mpi_io` | 2 ranks, 2 jobs, 2 failures, a crash, fair | the marker tells the truth, equal outcomes, nothing leaks, every call ends |
| `containers` | 2 ranks, 2 jobs with 2 calls, a failure and a crash | scans list whole records, `Ok` is listed for ever, sessions agree, offsets are bytes |
| `hdf5` | 2 ranks, 2 jobs with 2 calls, a failure and a crash | the same of datasets; all handles are closed, those of a walk over the tree included; a usable session has changed nothing |
| `planner` | 2 threads, 2 calls, 2 failures or panics | own settings under the lock, defaults outside it, thread library first |

*Bounds.*  `MaxCalls` bounds the calls of a rank: two are the least at which messages,
buffers, sessions or settings of one call can meet those of the next, and since no rank can
start call n + 2 before all have made call n + 1, a third adds no new overlap.  `MaxFaults`
bounds local failures: one failing rank beside a healthy one is what the protocols have to
survive; two are used where a second failure in the clean-up of the first matters
(`mpi_io`, `planner`).  `MaxJobs` of two is a job that crashes and one that finds its file.
`MaxSessions` and `MaxRecords` of two give a stale session next to a fresh one and a record
after a damaged one.  Two ranks show every pairing of a failed with a healthy rank; three
are needed for an error, a panic and a healthy rank at once, for a rank that owns nothing,
and for partial sums that overflow in one order only; the 2 x 2 grid is the least on which
agreements span more than the exchange.  `MaxLength` and `MaxParts` of 3 give empty, single
and uneven ranges; `MaxLine` of 6 gives odd and even lines of which several fit into the
space of the next; `MaxGroups` and `MaxStride` of 2 give both ways of walking a buffer.
`MaxRanks` of 3 and `MaxWord` of 3 (two bits) let ranks agree in the least and in the
greatest word but not in between.  `MaxDimensions` of 5 covers every plan the tests build;
the theorems remove the bound.  Symmetry is used for record names only: ranks have distinct
roles.

In-place and collection calls run with shorter plans than calls out of place (`KindsOf` in
`MCTransform`): their scripts are the longest, and two stages with one transition already
put a failure before, in and after a transition.

All runs but `algorithms`, which ends after each input, check for deadlock.  A protocol may
only stop when all ranks have made all their calls, when the system was aborted or a rank
unwound a panic that keeps the others waiting (`AllDone`, documented behaviour), or when a
route is complete (`Ended`); it stutters there.

## Fairness

`FairSpec` of `Transpose` assumes that every rank makes its calls and keeps running inside
them (`WF(Call(r))`, `WF(Step(r))`): the documentation requires every rank to call the
collective operations, and a rank is a running process.  Of MPI it assumes only that a send
*whose receive is posted* progresses (`MatchedInject`) and that a message in transit reaches
its posted receive.  A send without a posted receive may stay unbuffered forever, so a
protocol that relied on buffering would not pass `AllCallsReturn`.

`FairSpec` of `MpiIo` assumes the same of ranks (`WF(Begin(r))`, `WF(Step(r))`) and nothing
of crashes.  The other modules state no fairness: their properties are about safety, with
deadlocks checked.  The planner's lock is a `std::sync::Mutex`, which promises no order of
waiters, so that a call of a thread need not end.

## Proofs

`TransposeProofs` holds for every set of ranks, every exchange pattern that satisfies
`RegionAssumption`, every set of operations and faults, and every `MaxCalls`.

* `TypeCorrect`: `TypeOK` is an invariant; it is inductive as it stands.
* `AgreementCorrect`: `AgreementInv` is an invariant.  `CollectivesMatch` alone is not
  inductive: that two ranks' n-th reductions match says nothing about the next one.
  What makes the protocol work is that the (n+1)-th call site is a function of the n-th one
  and of its *combined* result: it does not depend on what happened locally.  `Follows` is
  that function, `Chain` says every log obeys it, `Lag` that no rank is more than one
  reduction ahead, `FirstEntry` anchors the induction, and `PlaceInv` ties the log to the
  rank's place and registers.  A step either leaves the logs alone or appends one entry;
  the lemmas about appending show that a rank can only append when its last reduction is
  complete, so that its successor is determined, and equal to that of any rank which is
  already ahead.
* `CollectivesAlwaysMatch`: the conjunct of it that matters to a reader.
* `NothingWrittenBeforeAgreement`: from `PlaceInv`, a rank in one of the working places has
  a complete last reduction in which every rank voted ok; the other places write nothing.

Its second part holds under the same assumptions.  `OutcomesAgree` compares ranks that may be
far apart, one of them in the next call already, so the registers of the two say nothing about each
other.  The invariant `OutcomeInv` looks at the logs instead: the call a rank has returned from
ended at a reduction that did not let the call go on (`EndsAt`), and what the rank reports is a
function of that entry and of the votes there (`OutcomeAt`, `StatusResult`).  The log of calls is
monotone (`CallsInOrder`), a call has only one reduction that ends it, and reductions match, so
two ranks that have returned from the same call ended it at the same reduction.

* `OutcomeCorrect`: `OutcomeInv` is an invariant (it uses `AgreementInv`).
* `OutcomesAlwaysAgree`, `FailuresAlwaysAttributed`: the two properties that follow from it.
  The second also proves `OwnFailureReported`: a rank reports the panic of its own callback,
  and its own error unless a peer panicked, and a call fails there only if some callback did.
* `TransposeImplementsAtomicCall`: every step of the protocol is a step of `AtomicCall` under
  the refinement mapping, or a stutter.  Only entering a call (`Invoke`) and returning from it
  (`Return`) are visible.  That nobody returns before all have called is `AllHaveCalled`: the last
  reduction of a call is complete only when every rank has made that call.

The third part proves the data path.  `ExchangeInv` has a part per rank (`OwnInv`: where a
rank is says which requests are open and what its buffers, array and verdict hold) and a part
per pair (`WireInv`: a send that is still to be made has its receive still open, and the message
between the two is alone on its wire).  The pair part is what makes one tag for all messages
safe.  It is not local: it needs that the reduction which opens an exchange opens it on all
ranks, for the same operation and plan, when no message is under way.  `AgreementInv` gives
that: `PeersMatch` and `SamePlan` carry the plan from the descriptor agreement, over which every
rank put its plan in a word, to the exchange.  `RegionAssumption`, that the ends of a pair agree
whether they exchange anything, is the only assumption on the plans.

* `ExchangeCorrect`: `ExchangeInv` is an invariant.
* `NothingLeftBehind`, `DataAlwaysDelivered`, `StateAlwaysFollowsOutcome`: the invariant
  `QuiescentReturn` and the action properties `DeliveredData` and `StateFollowsOutcome`.

With these, every safety property of `Transpose` is a theorem; only its liveness is not.

`RouteProofs` holds for every number of dimensions.  Its inductive invariant is a closed
form: at the stage of axis c the topology axes from c on have moved by one, memory order is
0, ..., c - 1 followed by N - 1, ..., c, and the transposed axes are those from c on that were
split at the input.  None of the properties is inductive without it: that a stage is local
says nothing of the axis two stages ahead.  `TypeCorrect`, `StagesAreLocal`, `RoutesSucceed`,
`TransitionsAlwaysTranspose` and `OneTransposePerTopologyAxis` follow from it, the last two
with the library's cardinality lemmas.

`AlgorithmProofs` is about the pure algorithms.

* `HeaderAgreementIsExact`, `WordAgreementIsExact`: for any set of ranks, any number of words and
  any width, the exchanges of `Preflight` accept exactly equal words.  The least and the greatest
  word exist by well-foundedness; complementing swaps them.  `AgreementAlwaysExact` is the
  property of the run, for any `MaxRanks` and `MaxWord`.
* `OneOwner`: every cell of an array belongs to exactly one process, for any number of axes, any
  shape (axes without points too) and any grid.  The floor rule is turned into integer arithmetic
  once: cell x lies before `Boundary(i)` iff (x + 1) * parts <= length * i, so that the owner of x
  along an axis is ((x + 1) * parts - 1) \div length and no other.
* `OnePeer`: a transpose moves each cell of a process to exactly one of its peers, the regions
  being intersections of two such ranges that differ along one grid axis only.
* `ExchangesArePaired`: p sends something to q iff q receives something from p.  This discharges
  `RegionAssumption` of `Transpose` for the exchange patterns of `Geometry`
  (`SendPeers`, `ReceivePeers`), on any grid.
* `CellsAreOwnedOnce`: the property `OwnersTileTheArray` of the run, for all bounds.
* `SegmentsFillWorkspace`: the displacement of the last peer and the length of its segment add up
  to the local array, at both ends of an exchange.  `spatial_len` is a product and a displacement a
  sum over a set, that is, functions on its subsets that remove one element after another.
  `FoldExists` and `FoldAnyFirst` show that such a function exists and may remove the elements in
  any order, `SubsetInduction` that what passes from the smaller subsets of a finite set to the
  larger ones is true of all (a smallest exception has no smaller one).  Then the product splits
  into the length of the changed axis and the rest (`SentLengths`, `SegmentsFollow`), and the sum
  over the preceding peers telescopes (`SumTelescopes`).  `SegmentsAlwaysFit` is the property
  `SegmentsFit` of the run.
* `SpectraStayWhole`, `LinesComeBack`: the in-place conversions of a real transform keep every line,
  for any line length, number of lines and stride.  A loop is the fold of its turns over its indexes;
  `LoopEnds` carries a family of sets of buffers, one per turn, through it: what turn i - 1 leaves in
  its set, turn i leaves in the next.  The set of a turn says which lines are still (or already) whole
  and in which form.  That the turn keeps it is a question of which scalars it writes: `SlotsApart`
  (different lines never share a slot, also when the one in front has fewer elements),
  `RowsApart` (without a stride, a row ends before the spectra of later rows begin, since
  2 * (n \div 2 + 1) >= n) and, for promotion and projection, i <= 2 * i.  All writes are shown to
  stay in the allocation.  `LinesAlwaysKept` is the property `RepackKeepsTheLines` of the run.

`PlannerProofs` holds for any number of threads, counts and limits.  `PlansWithOwnSettings`
is not inductive: that a free lock means the defaults needs to know that whoever is about to
free it has already dropped the guards of its settings.  `LockIsGuarded` ties the lock to the
guard on its holder's stack, `SettingsAreGuarded` says that a setting without a guard is the
default, `SettingsAreOwn` that the way to FFTW's planner keeps the call's settings, and
`PlansExist` that only existing plans are destroyed, hence after the thread library was tried.
`PlannerTypes`, `PlansWithOwnSettingsAlways` and `InitAlwaysComesFirst` follow.

`ReductionProofs` holds of every module that uses `Reductions` and enters a reduction only when
its last one is complete.  The logs are bounded and their turns counted modulo 4, so even "ahead
by one" has to be shown to mean something: `LogClose` says that a rank is ahead of another by
nothing, one, or is behind it by one, and that the remembered entries have the corresponding
lengths.  `EnterClose` keeps that, `EnterMatch` keeps `ReductionsMatch` when the rank that is
already ahead is where this one goes, and `Stable` says that a rank with a complete reduction
keeps seeing the same words, whatever the others do.  Its second part is about scripts: a `Walk`
is a sequence of places whose neighbours are related, `JoinWalks` joins two.

`MpiIoProofs` holds for every set of ranks, every set of ranks without elements, every set of
operations and all bounds on failures, calls and jobs, under `FileAssumption`: the ranks are not
called like one of the parts of the file, and the last rank of the file has elements.

* *Scripts.*  The script of an operation is a concatenation of up to a dozen pieces.
  `ScriptSegment` puts them together: every place of it has a successor, and both fit the
  operation (`Fits`, `Leads`).  All that follows uses these two and never a script.
* *Control.*  `ControlInv` is the inductive invariant of the agreements.  `InStep` compares any
  two ranks.  At the same reduction (`Same`) they are at the same place of the same call and have
  decided alike so far; one ahead of the other (`Lead`) is where the other will go, with the
  verdict the other will reach.  That two ranks decide alike (`DecideAlike`) is a matter of the
  words they see, which are the same, and of what they hold, which their own word at the place
  tells (`HeldInv`): had one of them got a file or communicator and another not, all would abort
  (`Decision`).  `RanksStayInStep` is the invariant, `ReductionsAlwaysMatch`,
  `OutcomesAlwaysAgree` and `ResourcesAlwaysReleased` follow.
* *File.*  `FileInv` says what a rank that is at a place has written (`WriteInv`) or seen
  (`ReadInv`), and what the marker stands for.  `MarkerTellsTheTruth` is far from inductive: it
  says nothing of a write under way.  `MarkerInv` adds that, once the marker exists, every rank
  still writing is at or past it, so that nobody can yet find the file incomplete; `IncompleteInv`
  adds that, once somebody does, every rank still writing has been refused and will write nothing
  more.  `Committing` is the step between the two: the marker is entered when all ranks are past
  the flush of their payload.  `Joining` closes the other way in: a rank starts to write only to a
  file that did not exist or that another rank is creating in the same call.  `CrashFile` shows
  that losing any cached parts keeps all of it, since the marker is written when everything else
  is stored.  `FilesStayConsistent` is the invariant, `MarkerAlwaysTellsTheTruth` the property.

With these, every safety property of `MpiIo` is a theorem; only its liveness is not.

`ContainerProofs` holds for every set of ranks and of names, every set of
operations and all bounds on records, sessions, failures, calls and jobs, under
`ContainerAssumption`: the root is a rank, no rank is called like a part of a record, and
`NoName` is no name.  The argument is that of `MpiIo`, with three things more.

* *Sessions.*  What a rank decides depends on the sessions it has, and each keeps its own copy.
  `Alike` says what has been agreed upon before a place: operation, session and name.  `Abreast`
  (at the same place) and `Further` (one ahead) add that the copies are the same, or will be when
  the one behind has left, and carry what a scan has found.  `IdInv` keeps identities distinct
  and, when a session is about to get one, below it, so that equal words at `options` mean the same
  session.
* *Scans.*  The root alone reads, and its report is part of the words, so that the others refuse
  with it.  `ScanInv` says that what was reported is what the file holds until the root writes,
  that nothing follows the last record listed, and that the new name is not there.
* *Records.*  `WriteInv` says what a rank that has come to a place has written of the last record,
  `RootInv` what the root has.  A marker is written when the payload of all ranks has been flushed
  (`WriterReady` and `RootReady` get that from the agreements in between), hence `MarkerLast`: what
  is listed is stored but for its marker, and a crash can only take whole records off the end.
  `Ok` follows the flush of the marker, hence `ToldStays`: what was reported is stored, and so is
  every record before it.

* `ContainerInductive`: `ContainerInv`, the conjunction of the two, is an invariant.
* `AgreementOfRanks`, `OffsetsOfBytes`, `TruthOfScans`: the invariants of the run.
* `CommittedPrefix`: the action property, that no step modifies a stored record.

With these, every property of `Container` is a theorem.

`TransformProofs` holds for every set of ranks, every set of plans, of any number of stages, and all
bounds on members, calls and failures, under `TransformAssumption` and `PlanAssumption`: kinds of
calls are among the six of the model, and a plan has a boundary within its stages and a known kind
for every transition, which is what construction has checked.

* *Scripts.*  A script is a concatenation of lists of steps over the stages of the plan, which
  nothing bounds.  `Joins` is the function that joins the first parts of such a list, and
  `JoinParts` carries a property from the parts to the whole list.  Each piece of each family is
  shown to be a `Part`: steps whose failure on one rank alone is answered by a result before the
  next meeting, and none that turns the call down.  A call is agreements and a part after
  them (`ScriptWhole`); a way back over real data looks at the spectrum of its member (`ScriptLooks`).
  All that follows uses these two and never a script.
* *Control.*  None of the properties is inductive: they speak of ranks that have returned.
  `ControlInv` says where a rank is going.  Its `Outlook` is the next meeting with what comes after
  it, or the end of the call with its result; it follows from the steps still to go and, while the
  rank waits, from the words of all.  Ranks at the same reduction have the same outlook (`Same`), and
  a rank that is ahead waits in the reduction the other has in its outlook (`Lead`).  Local steps
  keep the outlook (`OntoSuffix`), and so does a failure of one rank alone, since it goes to a
  result which the others come to as their next meeting (`FailsAlone`).  Only a rank that leaves a
  reduction has a new one, and all leave it with the same words.  A call counts from its first
  reduction on: ranks that call different operations are told apart there, by the header.
* *Spectra.*  `SpectrumInv` says that a rank with a bad spectrum still has the step to go that
  looks at it, or has failed and is at the result that tells the others, or has returned an error.
  `SpectrumAdvances` and `SpectrumRefused` keep it; the word of a rank that has failed is never one
  of success, and one such word is enough.

* `TransformInStep`: `ControlInv` is an invariant.
* `TransformOutcomesAgree`, `TransformWritesAfterStart`, `TransformInvalidSpectrumRejected`: the
  properties of the run.  The second rests on the order of steps in `Whole`, that what turns a
  call down has only agreements before it; the third on the first, since the rank with the
  bad spectrum has no success and all have the same result.

Only model-checked: `DestinationsTell`, `StateTellsTheData` and `FailureInPlacePoisons` of
`Transform`, for which what a script does to data would have to be followed through every family; the
properties of `Collectives` and `Hdf5`; `AllCallsReturn` and `AllCallsEnd` (liveness under fairness
is outside the prover's reach); `RemapIsAffine`.  The library's induction theorems cannot be used,
but a smallest counterexample can (`SubsetInduction`, `LoopEnds`, `JoinsExist`), one fold at a time:
every fold needs its own proof that the function it denotes exists.  A remap concatenates, filters
and sums lists of requests in several layers of such folds, a reduction folds over the values of
all ranks; these have not been done.

Worth proving next: `StateTellsTheData`, which needs the content that each part of a script expects
and leaves, and `Hdf5`, which is a script of agreements like `MpiIo` and `Container`, by the same argument.

## Findings

`OverlapError::CollectivePreconditionFailed` is documented (`array/transpose.rs:192`) as "A
callback result could not be agreed by the full Cartesian communicator."
`execute_point_to_point_exchange_callback` returns it when the preflight or the request
reservation of some rank failed, so before anything was sent and before any callback ran,
and never after one.  The run `callback_error_doc` shows a rank that returns it with the
reservation as its last reduction.  A caller who trusts the text would take data that was not
touched for data its callback has modified.

## Not modelled

* Numerics of the transforms and their local kernels (`fft/r2c.rs`, `r2r.rs`, `dht.rs`,
  `c2c_nd.rs`, `backend.rs`), and execution of native FFTW plans.
* Index walks of packing over permuted memory orders (`region_walk`), local transposes,
  pointwise operations and access through views: sequential, without protocol state.  Blocks
  move whole in `Transpose`.
* Construction of communicators and process grids (`array/topology.rs`): MPI does it.
* Byte formats of headers and records, checksums and their parsing (`io/format.rs`,
  `chunked.rs`).  What a commit marker means to a reader is modelled.
* Of HDF5: the unnamed legacy form, options after the marker, chunk layout and the
  serial reader.  The consistency of a file after a crash is the library's, and assumed.
* A raw read takes what it finds (`io/raw.rs` looks for no marker): `ReadsAreWhole` excludes it.
* Destruction of transpose plans, which has no protocol, and widths of MPI counts, which
  appear only as a cause of a local failure in preflight.
* Reference tools (`tools/`).

A dataset that a failed append leaves without its marker keeps its name: a later append of
that name is refused as `DuplicateName`, and the session's catalog and `open_append` reject the
file.  `Hdf5` has these outcomes; they are what the code does, and no text of the repository
promises otherwise.
