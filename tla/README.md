# AthenaK: a TLA+ model of what decides the data

AthenaK is a block-structured adaptive-mesh code for astrophysical fluids. Each
MPI rank owns a *pack* of MeshBlocks and advances it through the stages of an
explicit integrator. What the code computes in a cell is floating-point
arithmetic and is not modelled. What is modelled is everything that decides
*which* data the arithmetic sees: the order of tasks, the messages between ranks,
the ownership of blocks and particles, the changes of the mesh, the levels of the
multigrid solver, the main loop, its outputs and what a resumed job takes over.

Paths below are relative to `src/src/`.

## 1. Inventory

| Part | State it keeps | Operations | What makes it hard |
|---|---|---|---|
| Task lists (`tasklist/task_list.hpp`, `driver/driver.cpp: ExecuteTaskList`) | tasks with identifier bit, dependency bits and a flag; bits of completed tasks | AddTask, InsertTask, Reset, DoAvailable, IsComplete | tasks poll: one that answers *incomplete* is called again while later, independent ones run; InsertTask rewrites dependencies |
| Physics task assembly (`*_tasks.cpp`, `srcterms/turb_driver.cpp`) | the `id` structs | one list per physics for each phase of a stage | order of the physics exists only as dependencies |
| Numerical relativity queue (`tasklist/numerical_relativity.cpp`, `dyn_grmhd/`, `z4c/z4c_tasks.cpp`) | queues of tasks with required and optional dependencies | QueueTask, AssembleNumericalRelativityTasks | assembled by a loop to a fixed point; what is optional is dropped silently |
| Driver (`driver/driver.cpp`, `mesh/mesh.cpp`) | time, step, cycle, wall clock | Initialize, Execute, Finalize, NewTimeStep | every rank decides for itself when to stop, from values it believes to be common |
| Outputs (`outputs/`) | for each output its last time and file number; header of the event log | when due, LoadOutputData, restart files | restart files are written between other outputs; some outputs are collective |
| Ghost-zone exchange (`bvals/`) | aggregate send and receive buffers, requests, packed metadata | InitRecv, PackAndSendCC, RecvAndUnpackCC, ClearSend, ClearRecv, BuildRankPackedVarMetadata | ranks run ahead, buffers are reused, layouts go stale when the mesh changes |
| Flux correction (`bvals/flux_correct_*.cpp`) | one buffer and request per neighbour | the same five steps for fluxes and edge fields | only some neighbours send, others average |
| Index ranges of buffers, restriction, prolongation (`bvals/buffs_*.cpp`, `prolongation.cpp`, `prolong_prims.cpp`, `physics/`) | ranges by buffer and level; a coarse copy of each block with ghost zones | InitSendIndices, InitRecvIndices, FillCoarseInBndry, Prolongate, boundary conditions | the two ends of a buffer compute its range apart; what prolongation reads comes from four places |
| Mesh and tree (`mesh/build_tree.cpp`, `meshblock_tree.cpp`, `meshblock.cpp`) | octree of logical locations, lists by gid, table of neighbours | CreateRootGrid, AddNode, Refine, Derefine, FindNeighbor, CreateZOrderedLLList, SetNeighbors, refined regions, rebuilding at a restart | 2:1 balance across faces, edges, corners and periodic boundaries |
| Load balance (`mesh/load_balance.cpp`) | rank of each block, first block and count of each rank | LoadBalance; packing of the AMR messages | off-by-one in dealing, matching of sends and receives |
| Mesh refinement (`mesh/mesh_refinement.cpp`) | flags, cycles since refinement, old-to-new and new-to-old maps | CheckForRefinement, UpdateMeshBlockTree, RedistAndRefineMeshBlocks | blocks are moved in place and between ranks at once |
| Particles (`particles/`, `bvals/bvals_part.cpp`) | particles of the rank, send lists, counts | Push, SetNewPrtclGID, CountSendsAndRecvs, send, receive, compaction | counts by all-gather, holes filled in place |
| Multigrid (`multigrid/`, `gravity/`) | levels of root grid, octets and MeshBlocks, each with its counter; the root grid on device, host and in a buffer | Solve, V-cycle, full multigrid, transfers, smoothing, exchange on every level | three kinds of grids, levels counted twice, copies kept in step by hand |
| Shearing box, parameter input, refinement criteria, physics kernels, problem generators, utilities | | | not modelled, see section 7 |

Interactions. `main` builds the tree, from the input file or a restart file, and
calls the driver, which executes the task lists of the pack, phase by phase
(`before_timeintegrator` with the particles, then for each stage `before_stagen`,
`stagen`, `after_stagen`); tasks call the boundary objects, which talk to other
ranks through MPI. At the end of a cycle the driver writes outputs, then calls
refinement, which changes tree, block lists and ownership on all ranks, after which
`MarkMeshUpdated` makes every boundary object rebuild its metadata at its next use,
and computes the next time step. Gravity calls the multigrid solver, which runs task
lists of its own on the levels of the MeshBlocks.

What makes each part correct is written over the properties of its module; the
hazards, each at its line, are in `PROJECT.json`.

## 2. Modules

| Module | Models | Kind |
|---|---|---|
| `TaskGraph` | what a task list promises: every task once per round, after its dependencies | abstract specification |
| `TaskListOps` | AddTask, InsertTask, ChangeDependency | operators |
| `TaskList` | `ExecuteTaskList` over `DoAvailable` | implements `TaskGraph` |
| `NRQueue`, `MGLists` | the lists of numerical relativity and of the multigrid steps | operators on `TaskListOps` |
| `StageLists` | all these lists and those of the other physics, composed with `TaskList` | composition |
| `StageExchange` | what the exchange promises: in one step all ghost zones of a rank are those its neighbours published in this stage | abstract specification |
| `GhostExchange` | the rank-packed exchange over MPI, stage after stage, across mesh changes | implements `StageExchange` |
| `ParticleExchange` | the exchange of particles between ranks | state machine |
| `LoadBalance` | the two loops of `Mesh::LoadBalance` | state machine |
| `MeshTree` | the tree of MeshBlocks, refined regions, the table of neighbours | operators |
| `AMR` | one cycle of adaptive refinement: flags, tree, maps and ages; restarts | state machine on `MeshTree` |
| `BoundaryBuffers` | what the index of a boundary buffer stands for | operators on `AMR` |
| `GhostZones` | where each ghost zone is filled from on the meshes of `AMR` | operators on `BoundaryBuffers` |
| `FluxCorrection` | what fluxes and edge fields become on the meshes of `AMR` | operators on `BoundaryBuffers` |
| `AMRRedist` | the motion of data between and within ranks after a change of the tree | state machine |
| `Driver` | main loop, time step, outputs, kill, new and resumed jobs | state machine |
| `Multigrid` | the control of the solver and what its grids hold | state machine |
| `TaskListProofs`, `LoadBalanceProofs`, `GhostExchangeProofs`, `AMRRedistProofs`, `DriverProofs`, `ScheduleProofs`, `MultigridProofs`, `ParticleExchangeProofs` | | theorems, see section 5 |
| `MC*` | | instances for TLC |

### TaskList
State: `list` is `task_list_`, `completed` is `tasks_completed_`, `flag[i]` is
`complete_` of the task at position `i`, `pos` the iterator of `DoAvailable`'s
loop, `pc` where control is. A step is one visit of the loop, so that a task's
answer may differ between visits. `CallTask(status)` is a call that answers
`status`; nothing distinguishes *fail* from *incomplete* in the code, nor here.
A list is a parameter (`Lists`), assembled with `TaskListOps`, where a TaskID is
the set of its bits.

### StageLists, NRQueue, MGLists
Each list is the text of an assembly function, in its order and with its
dependencies. `Chain` abbreviates the many calls that name the previous task.
`NRQueue` has the calls of `QueueDynGRMHDTasks` and `QueueZ4cTasks` as data and
models the code that turns them into a list: which calls have an effect with the
modules there are, which optional dependencies remain, and the passes of the
assembly until all have been added, or the program aborts. `Configs` are the
combinations of modules and options that change the lists. `MGLists` builds the list
of a multigrid step for each number of half sweeps and place in the hierarchy.
The properties state which task must have completed when another has; they are
invariants of the execution by `TaskList`, not of the text.

### GhostExchange
`pc[r]` runs through the phases of a stage on rank `r`: post receives (or build
metadata, waiting for the headers), pack and send, poll and unpack, clear sends,
clear receives. Stage 0 is `InitBoundaryValuesAndPrimitives`, which clears before
it unpacks. A ghost zone's content is abstracted to the link, cycle and stage of
what was packed. A link `<<src, dst>>` is one (m,n) pair of the loops.
MPI is external: messages of a pair match in order; a send buffer may be read at
any time until its request completes, either early (`Buffer`) or when matched
(`Deliver`). `sbuf` is therefore read by `Deliver` at the time of the match: a
buffer reused too early shows as wrong ghost zones. The header exchange is modelled
by its effect: since every rank that waits in `meta` has posted the receives of the
headers, all that it waits for is that its peers have sent theirs.
The test in `PackAndSendCC` for stale metadata is never true when it is reached,
so the rebuild is modelled in `InitRecv` only.

### ParticleExchange
One action for each task of the list `before_timeintegrator`; the all-gathers are
collective only in that a rank goes on when all have contributed, so ranks run ahead
elsewhere. A column of the arrays of ints and one of the arrays of Reals travel in
two messages and are moved separately when holes are filled: a particle's identity
(`id`, `gid`) and its Reals (`vel`, `at`) may come apart, which
`ArraysHoldOwnParticles` would see. A position is the block it lies in. The kernel that
lists the leaving particles and the sorts of the list leave every order open that the
code does (`SetNewPrtclGID`, `SortedBy`).

### LoadBalance
One step per turn of each loop. Every caller passes the cost 1.0 for each block,
so `mycost >= targetcost` is a comparison of integers (exact in `float` below
2^24 blocks).

### MeshTree and AMR
A node of the tree is its `LogicalLocation`; a tree is the set of nodes with their
`gid_`, so a leaf is a node without children. The operators take 1, 2 or 3
dimensions from the length of `NRoot`. `Refine` and `AddNode` call each other as in
the code; the order in which neighbours are visited does not matter and is that of a
set. A refined region is given by its corners in blocks of the finest level, an
integer stand-in for the coordinates of the input file; `RegionNodes` are the nodes
the loops of `BuildTreeFromScratch` add. `AMR` has one action for each of the three
functions `AdaptiveMeshRefinement` calls: `CheckForRefinement` (with the flags the
criteria may raise given by the constant `Criteria`), `UpdateMeshBlockTree`,
`RedistAndRefineMeshBlocks`. All ranks compute the same lists from all-gathered
flags, so one copy stands for all. `RoomFor` is the check of the blocks each rank gets
against `max_nmb_per_rank`, with the share that `LoadBalance` gives (`EvenLoad`); where it
fails the program ends (`pc = "full"`), which is told apart from the errors that
`NeverFatal` excludes (`"fatal"`). `Restart` is a job that is killed and resumed from
a file of this cycle, or of the end of the cycle before its refinement: the list of
leaves comes from the file, tree and numbers are rebuilt, ages start again.
`since` is a history variable: how long each block has existed in this job, found from
the locations alone, against which the table `ncyc_since_ref` is checked.
`Derefine` in the code stops at the first finer neighbour; the model looks at all
of them, which makes a failing search more likely, never less.

### BoundaryBuffers and GhostZones
A buffer is an offset and the subblock bits `f1` and `f2`, found from its index as
`InitializeBuffers` does; `Half` is the bit that is for a given direction. `GhostZones` has
the index ranges of cells and of fields on faces: `RecvCells` those of cells, `Span` the
face more a field has along its own direction, and when the one on the boundary of the
block is left out. The ranges of `buffs_cc.cpp` and `buffs_fc.cpp` are these, written out
by direction. The rest follows the data on a mesh after the buffers have arrived: what is
unpacked into fine and coarse arrays (`Filled`), what the coarse array gets from the block
itself (`Restrict`) and from what came from the same level (`FillCoarseInBndry`), what is
prolongated (`Prolongated`, then `Shared` and `Internal` on the fine lattice) and what that
reads (`Stencil`, `Around`, `CellFaces`). Of a physical boundary the model has that values
beyond it are made from those inside (`Inside`). `ConsToPrimCoarseBndry` converts the
corners of its range too, which no slope reads; they are left out. What is stored are sets
of positions, and `GhostZonesAreFilled` compares them: both ends of a buffer mean the same
place in the mesh, every ghost zone in the mesh is written, none of the block's own is, a
cell comes from one level only, and nothing is made from what nobody filled.

### FluxCorrection
A flux or an edge field is told by what it was made from: the block that computed it, the
positions there of which it is the mean, and the buffer it came through; a sum is a set
of such terms. Positions count from a block's first cell, so `is`, `cis` and the like are
zero; `First` and `FirstOfHalf` are the starts of the index ranges of `buffs_cc.cpp` and
`buffs_fc.cpp`, and `Packed*` the sender's position of what arrives, the offset in the
two ranges being the same. The passes of `RecvAndUnpackFluxFC` are one operator each: sum
of the same level, zeroing where a finer level sends, sum of finer levels, division by a
count. Every block sends what it is asked for; the messages themselves are taken as
arrived.

`GhostZones` and `FluxCorrection` add no step: their properties, like `NeighborsAreMutual`,
are about the tree, in `run`, where a cycle is computed. They are evaluated where all
blocks are old enough to be merged (`Settled`): a tree is reached in many states that differ
in ages and flags only, and since the criteria may leave the mesh alone until it is settled,
each tree is reached in such a state too.

### AMRRedist
Starts where `AMR` has a new tree. A *plan* says what became of each family of
blocks (same, refined, derefined); `AMR`'s `MapsAgree` is what makes the maps have
that form. Old and new ranks of blocks are any runs `LoadBalance` may return.
`fine` and `coarse` are the arrays `u0` and `coarse_u0` of a rank by local index,
their contents told symbolically (data of which block, restricted, prolonged).
Steps 4 to 9 are one action each, but for the copies in place of step 7: `CopyCC` makes
one of them, in the order of the two loops (`MovesLeft` first, ascending, then
`MovesRight`, descending), `copied` holds those that are made, and `EndCopyCC` ends the
loops.
A message may be matched any time between its posting and the wait, but nobody
touches its buffers in that time, so the matching is done at the wait. Of the
variables moved by the same loops (hydro, MHD, radiation, Z4c, face fields) one
stands for all.

### Driver
Every rank has its own `time`, `dt`, `ncycle`, wall-clock verdict and output
counters. `NewTimeStep` and `WriteEventLog` are collective; `UpdateWallClock` is a
broadcast from rank 0 that others receive later; all else is a rank's own step.
An output is the index of its block in the input file; `Earlier` is the order of
`pout_list` (the last block first, the restart output last of all), `left` holds the
outputs a rank that goes through the list has still to consider, and `next` is the first
of them. There is one restart output at most (`OneRestartAssumption`): `Outputs` ends the
job when there are more.
`disk` survives `Kill`, with the files of an output by their number, as far as ranks have
written them; `Launch` starts a new job over the old files, `Resume(f)` one from the restart file `f`.
What the blocks allow for the next step is a constant function of rank and cycle,
as the physics is deterministic; a step may grow to twice the last.

### Multigrid
The levels of the driver are those of the root grid, then octets (2x2x2 cells that
refine one of the level below), then the MeshBlocks; `level` is `current_level_` of
the driver, `g.rootLevel` and `g.blockLevel` are the counters of the two grids. An
action is one step of `Solve`: a start, a step down or up, a step between the cycles
of full multigrid. What a grid holds is told symbolically: of what kind its right-hand
side is, whether `uold` is of this cycle, which ghost zones are of the present `u` (all;
those that are images of leaf cells; those between cells of one level; none), whether those
of the finest MeshBlock level have been exchanged, which copy of the finest root level is
current. `g.bad` records a read of something that was not there, by its kind. Two kinds the
code does produce, and `ReadsCurrentData` names them (section 6): `"image"`, when
`SetFromRootGrid` copies ghost zones of the root grid that are images of cells which
`RestrictOctetsBeforeTransfer` has just rewritten, and `"guess"`, when `SolveIterative`
takes its first defect norm of a guess whose ghost zones nobody has filled.

## 3. Runs

| Run | Instance | What it shows |
|---|---|---|
| `task_lists` | all stage lists (hydro, MHD, ion-neutral, radiation; with forcing; numerical relativity in every configuration; multigrid steps) and five small ones, each executed twice, every answer of every task | the executor implements `TaskGraph`, returns only when done and always; without forcing, updates use corrected fluxes; sends carry the whole update, primitives see filled ghost zones, the field update has its edge fields, two solvers use one metric, sweeps wait for their ghost zones |
| `forced_fluxes` | the lists with forcing | a violation, see section 6 |
| `ghost_exchange` | three ranks, the outer two without common neighbours; five blocks; two layouts in any sequence; two stages, two cycles | the exchange implements `StageExchange`, buffers are not reused early, peers stay within a stage, every stage completes |
| `particle_exchange` | three ranks with 3, 1 and 0 particles, every drift of each, one cycle | arrays stay dense and of a piece, no particle is lost or doubled, every exchange completes |
| `load_balance` | 1 to 12 blocks, 1 to 5 ranks, enough blocks | the lists agree, the load differs by one block at most |
| `amr_1d` | two root blocks, three levels, *all* combinations of flags, restarts | maps agree, ages follow blocks, only old blocks merge. An assumption TLC evaluates here says that every refined region is refined wherever it reaches |
| `amr_3d` | 2x2x1 root blocks, periodic in x1 and x3, three levels, two overlapping refined regions, then refinement around any of three points, the rest kept or given up, restarts; two ranks with room for 33 blocks each | balance at faces, edges and corners and through the periodic boundaries; neighbour tables mirror each other; every ghost zone, of cells and of faces, is filled from its place in the mesh and from data that is there; all blocks that share an edge end with the same edge field, the mean over the finest of them, each once; a coarse flux is replaced by the mean of the finer ones behind it, and nothing else is; a restart has the same numbered mesh, also after the program ended for want of room; the mesh returns to the root grid once asked to |
| `amr_redist` | three ranks, all plans of up to three families, all pairs of distributions | families split over ranks whose first leaf goes elsewhere, a middle rank trading with both sides: messages match, every block ends with its data, no rank waits for ever |
| `driver` | two ranks, three outputs (file, restart, log), time and wall-clock limits; two jobs, the first killed at any step, the second new or resumed from any restart file | ranks stop in the same cycle; outputs keep their schedule; a resumed run writes again what the killed one wrote; a job that is not killed ends |
| `event_log` | two ranks, one log, a cycle with nothing to report | a violation, see section 6 |
| `multigrid` | root grids of 1 to 3 levels, on host or device, MeshBlocks of 3 levels, 0 to 2 refinement levels that change between solves; V-cycles and full multigrid with 0 to 2 sweeps down and 0 or 1 up, one or two cycles | both counts of levels agree; corrections and right-hand sides are of this cycle; no stale copy or ghost zone is read, but for the two reads of section 6 |
| `mg_average` | the same | a violation, see section 6 |

Each passing property has a mutant in `PROJECT.json`: a plausible bug of the code
that the run then finds. (The operators of these bugs are marked *faulty variant*.)

Bounds and why they are enough. A stage list is bounded by its own length; two
executions (`MaxRounds`) show what one leaves behind. Of the multigrid lists
`ToFiner(2, 0)` and `ToFiner(2, 2)` are left out: they differ from the one kept only by
an exchange before or after, whose free sends multiply the states. Two ranks show all
of a link's protocol, since every message concerns one ordered pair; the third is
needed for drift. Two stages and two cycles reach: a first stage with fresh metadata, a
stage that reuses it, and a change of layout right before either. Three levels are
needed for a forced refinement and for a derefinement that a finer neighbour forbids;
two by two root blocks for one forced at a corner only. A mesh of 2x2x1 root blocks
refined in three dimensions has every kind of contact a two-dimensional one has, and
edges with subblocks besides; one dimension is left to the run that tries all flags.
Blocks of four cells and two ghost zones (`Cells`, `Ghost`) are the least the program
accepts: the ranges are linear in both, and four cells have two halves with a line
between and a coarse cell at each side. Two ranks with room for 33 blocks each (`NRanks`,
`MaxPerRank`) are filled by the largest meshes of that run, and by no other; in `amr_1d`
there is always room. One dimension was tried with three levels and shows
nothing else. Families of two leaves (`nleaf = 2`) keep the distributions few; the code treats leaves
alike, only their number differs. `age`, `since` and `cycle` are capped where the code no
longer tells values apart. Four particles on three ranks reach: more holes than
arrivals, more arrivals than holes, holes at the end of the arrays, a rank that empties
and one that fills; one cycle, as nothing but the arrays is kept from one to the next.
In `driver` the steps make the times 0, 1, 3, 4, 6, 9, 10: a step that one rank holds back
and then the other, one that doubles, one that passes an output's time, one cut at
the limit; two jobs are one kill and one resumption. In `multigrid`, `NBlk = 3` is the least with a
MeshBlock level that is neither the coarsest nor the finest, likewise three root levels
and two levels of octets; `MaxIter = 2` cycles show what one leaves for the next.

## 4. Fairness

`TaskList`: the driver's loop is sequential and goes on by itself (weak fairness of
its steps). A task that is asked again and again answers *complete* in the end
(strong fairness of that answer): that is what non-blocking communication provides, and
the assumption the code makes. It excludes an MPI call that fails for good: the
executor would call that task for ever, and no property is about that. `GhostExchange`, `ParticleExchange`, `AMRRedist`: each
rank runs (weak fairness of a rank's steps that move it on; a poll that finds nothing
is not one) and MPI delivers what has been sent and received for; buffering of a send
is never assumed. `AMR`: the driver's loop goes on; every step changes `pc` and one is
always possible until the program has ended, so the fairness is stated of `pc`, without
the tree. `CoarsensWhenAsked` assumes that a job which ran out of room is resumed; no
fairness says so. `Driver`: each rank's steps and the two collective calls, which take place
when all ranks have come to them; none of `Kill`, `Launch` and `Resume`, which may never
happen. `Multigrid` has no liveness property: it is a sequential program whose loops
are bounded by counters.

## 5. Proofs

Checked by TLAPS for all values of the constants. Each module proves an inductive
invariant (`IInv`: by `Init`, by each action) and derives what is listed in
`PROJECT.json` from it.

*TaskListProofs.* Assumptions: tasks of a list have different identifiers and
`MaxRounds` is a number. `IInv` is the conjunction of the type invariant and the
safety invariants, which are inductive only together: that a task completes after its
dependencies rests on the bits and flags agreeing, and that the loop returns on a
complete list on the executor having started (`Started`). One lemma per action
proves that `IInv` is kept. `ImplementsTaskGraph` is step simulation: a call answered
*complete* is the abstract step, everything else stutters or starts a round.

*LoadBalanceProofs.* Assumption: the inputs are numbers of blocks and ranks, at least one
block a rank. The first loop's invariant is that the blocks left suffice for the ranks
left (`rank j` has a block or will get one) and that those dealt form a monotone
sequence of ranks without gaps; the second loop's, that `slist` and `nlist` describe
the runs of `rlist` passed so far. `ShareLeaves` is the arithmetic between them: the
target is reached while enough blocks remain. `DistributionAgrees` says that every
rank gets a non-empty run and the three lists agree.

The second half is `LoadIsEven`. With `e` the blocks per rank, rounded down, the first
loop, which deals from the last rank to the first and recomputes its target after each
rank, gives each `e` or `e + 1`: the invariant `EvenSoFar` says that what is left keeps to
that share, and that once a rank has got `e` only, nothing is left over.

*GhostExchangeProofs.* Assumption: a layout is a symmetric set of links, with a table of them; any
number of ranks, cycles and stages, any sequence of layouts. None of the three safety
invariants is inductive: whether a ghost zone is of this stage depends on which message
MPI matches, and that on how far the two ranks may be apart. The inductive invariant goes
by ordered pairs of ranks and tells, from the phases of the two, all there is between
them: in flight are the messages of the stages from the receiver's to the sender's, one
each (`Flights`), with the payload of their stage, and only the last may still be in the
send buffer (`Messages`); what both buffers hold (`Buffers`); and that metadata of this
mesh lists the links of the two ranks in one order (`Layouts`, `Headers`). A step of one
rank changes its row and its column of that table. `ImplementsStageExchange` follows by
step simulation: packing is the abstract publication, unpacking the abstract wait, all
else stutters.

*AMRRedistProofs.* For any number of ranks, any sequence of families (same, refined,
derefined), and any old and new distribution of the blocks in runs. Three parts. The first
is the form of the maps (`Maps`, `Paired`): they pair the families in their order and are
monotone; it follows from how one family starts where the one before ends. Then, block by
block, which message a rank sends and which one the other expects (`Travels`, `SendOf`,
`RecvOf`): the two loops, one over old and one over new blocks, speak of the same
messages, which is `MessagesMatch`. Then what the arrays hold in every phase (`RankInv`):
messages are packed before a block is overwritten and unpacked after; of the copies in
place those made are told by their order (`InOrder`), so that the next one overwrites only
what has been copied already or is not needed. `BlocksHaveTheirData` is what is left when
a rank is done.

*DriverProofs.* For any number of ranks, outputs, limits and steps. The argument is by
rounds, from one `NewTimeStep` to the next. In a round some ranks have made their cycle
and others not, some know the wall clock and others not; `SameCounters` says that those
that have are exactly one step ahead, `SameClock` that those that know it know what rank
0 broadcast, `SameDecision` that what a rank ahead has decided is what those behind will
decide. `StopTogether` follows. A job that is down has no claim, a new or resumed one
starts a round on all ranks.

*ScheduleProofs.* What a killed and resumed run does is compared with a run that is not
killed. There is no such run in the state, so the invariant says that one exists:
`OneCourse` is that there is a sequence `tr`, of the time, the step and the counters of the outputs
after each cycle, which starts at `First`, goes on by `Succ`, and on which every rank of
the running job and every scheduled file on disk has its place (`OnCourse`, `MadeAt`). A rank is on it
at the cycle it counts, with the counters of the cycle before for outputs it has still to
consider; a file is at the one cycle that has its number. Only `Cycle` makes the sequence
longer, and only when no rank and no earlier job has been there. The restart output is the
last of the list, hence its file has the counters of a whole cycle and `Resume` is back on
the course; the step in the file is the last one, hence the step of the resumed job
(`FirstStepAgain` for a file made before the first cycle). As the number of a file never
decreases along the course, a file is only rewritten in the cycle it was made
(`RewrittenAlike`, without conditions). That it is the cycle the schedule asks for is
part of the course as well (`Punctual`): for outputs by cycles always, for outputs by time
when no step is longer than their interval (`ShortSteps`), which is assumed of the steps
the blocks allow. Without it an output falls behind its schedule, in the code as in
the model, since it is made at most once in a cycle; the run `driver` has a step that is
longer, followed by shorter ones.

*MultigridProofs.* For any root grid, depth of MeshBlocks and refinement and any
parameters. Most operations move data and no level: a lemma for each operator says
which counters it moves and to where. `LevelsAgree` alone is not inductive: the driver
goes from one grid to the next at certain levels, so `Within` says where each phase of a
cycle may stand, and that a cycle does not stop on octets while the source is being
restricted, and `RootAtTop` where the root grid is left between solves.
`LevelsStayTogether` is `LevelsAgree` for every behaviour.

What the grids hold is the second half of the module. `Sound` says that the arrays have
their types and that no wrong read has been recorded; `Has(x, copy, fields, cells)` that
these cells of a copy of the finest root level are current. A lemma for each operator says
what must be current for it to read rightly and what is current after it, and lemmas for
the steps down and up follow from these. The invariant, `DInv`, adds to `IInv`:

* `CopiesCurrent`: while the driver is on the root grid, and on the way up until it is
  back on the MeshBlocks, the copy the kernels of the root grid work on is current in all
  cells and fields; on octets and MeshBlocks, and between solves, the host's copy is, and no
  modification on the device is pending. Flat buffers that are not marked stale have what
  octets read. Between these two regimes lie exactly the synchronizations of the code: it
  is where the driver leaves one and enters the other that each of them is needed.
* `Sources`: from the level at which the cycle began upwards every level has its source,
  since FMG restricts it everywhere before it goes up and a V-cycle writes only
  below where it began.
* `Descent`: above the level reached, every level has the FAS right-hand side and a `uold`
  of this cycle, and that level has a restricted defect (`MadeAbove`). Cycles that begin
  on octets are left out, for the cells that nothing is restricted to (section 6).
* `FinestIsFMGLevel` and `NormKnown`: the level below which equations are made for FAS
  is the one the cycle began at, and where a defect norm may be taken the ghost zones of
  the finest level have been exchanged since the last sweep, or are those of new arrays.

`SolverReadsCurrentData` and `CorrectionsAreOfThisCycle` follow: `ReadsCurrentData` and
`AscentUsesThisDescent` for any number of levels and cycles, and zero to two sweeps of
each kind (`MultigridAssumption`; `Repeat` has no more). All other readers of
the root grid's ghost zones need all of them, so the proof also says that those a transfer
leaves older than the cells are set anew before anything but that transfer reads them. TLC
has checked `DInv` on the instance of the run `multigrid` too.

*ParticleExchangeProofs.* For any number of ranks, blocks, particles and cycles, any
drift, any order in which threads write the list, sorts leave equal entries and messages
arrive. The theorems have a premise, `Fits`: that no more particles leave a rank in a
cycle than its list has room for. That is what the code takes for granted
(`bvals/bvals_part.cpp:68` gives it a tenth of the rank's particles and nothing checks);
`SetNewPrtclGID` shows what is lost otherwise.

The two all-gathers divide a run in two phases, and the inductive invariant is a
disjunction. `Between` exchanges nothing is under way, each rank's arrays are its own and
together they are the particles of the run (`Whole`), and the list of those that will
leave is what their positions ask for (`Listing`, `ByRank`). `Exchanging`, the invariant
says that there are arrays `old`, those of the moment of the gather, which are whole and
that all ranks work on: the list still names the columns of `old` (`Counted`), each send
buffer has, part by part, what `old` owes a rank (`Announced`); in flight is what was sent
to a rank that has not received it (`Messages`), and what has been received is where it
belongs, Reals and ints each (`Arrived`); a rank that has unpacked has what `old` has for
it and nothing else (`Received`). A rank cannot get through the first gather, nor through
the second, unless all are at it (`AllGather`, `AllShare`): there one phase becomes the
other, the first with the arrays as they are for `old` (`ExchangeStarts`), the second because
what the ranks have unpacked is a partition of `old` (`ExchangeEnds`).

Under this lie the lemmas on the arithmetic of the code: the starts of parts are sums that
cut a buffer without gap or overlap (`PartsCover`), a list sorted by rank has one run for
each part (`RunsAre`, `PackedIs`), arrivals and the particles that stay fill the columns
(`Placing`), and the loop from the end of the arrays fills each hole that remains with a
particle that is not itself in a hole (`Filling`: what is not a hole up to `nend` is what
there is to keep, and `i_last_hole` never passes a hole by).

`TypeOK` of `TaskList` is proved (`TypeCorrect`) and in no run.

Only model-checked:

* all liveness, which is outside the prover's logic;
* what is about the tree (`AMR`, `GhostZones`, `FluxCorrection`): `MeshTree` refines and
  searches by recursive operators, which the prover does not take, and what they compute
  would need induction over the tree;
* the properties of the stage lists: each list is a constant that a fold builds, and the
  runs have all of them.

## 6. What the runs found

Three runs show a disagreement between what the repository says and what the code does.

* **With forcing the update does not wait for flux correction**
  (`srcterms/turb_driver.cpp:300`, run `forced_fluxes`): `InsertTask` moves the dependency
  of `RKUpdate` on the received fluxes to the forcing task, which asks for the local
  fluxes only.
* **The ranks disagree on when the event log is due** (`outputs/eventlog.cpp:72`, run
  `event_log`): with nothing to report, rank 0, and only it, returns before it advances the output's last
  time. At the next cycle rank 0 alone enters the sum of the counters, the others the
  reduction of the time step.
* **The average is subtracted at another level** (`multigrid/multigrid.cpp:836`, run
  `mg_average`): it is taken of the coarsest level and subtracted at the finest.

Seen while modelling; no run is about them.

* `srcterms/turb_driver.cpp:297`: forcing is inserted before the update; the comment says after it.
* `mesh/load_balance.cpp:54`: the guard against a rank without blocks never fires; with
  fewer blocks than ranks the lists disagree. The start of a run checks the numbers; AMR,
  which can derefine below the number of ranks, does not.
* `mesh/mesh_refinement.cpp:394`: the sort of parents to derefine leaves out the last one,
  so a coarser parent may come before a finer one and be refused. It is only late
  (`CoarsensWhenAsked`).
* `mesh/build_tree.cpp:130-143`: a refined region of zero width at the upper end of the mesh
  passes the checks and adds a node outside it.
* `mesh/build_tree.cpp:310`: with AMR, a job resumed from a file written in the loop skips
  the refinement at the end of that cycle, and ages start at zero, so its mesh may differ
  later from that of the job that was killed.
* `driver/driver.cpp:457`: outputs made at the end of a job advance `last_time` by a whole
  interval although they are early; a run resumed from that file has another schedule.
* `mesh/mesh.cpp:582`: a comment limits the growth of the step to twice the old one; the file
  written at the end of a job holds a step already limited so, which the resumed job doubles
  once more before its first cycle.
* `driver/driver.cpp:559`: a `Real` is broadcast as `MPI_DOUBLE`, also in single precision.
* `bvals/bvals_part.cpp:68`: the list of leaving particles has room for a tenth of the
  rank's; `:158`: a particle exactly on the upper face gets a new block but its position is
  not wrapped; `:146`: the search for a neighbour skips empty entries of the table, which
  a refined mesh has.
* `mesh/mesh.cpp:268`: blocks of four cells are accepted with four ghost zones, although a
  block then sends to a coarser neighbour more coarse cells than it has (`GhostAssumption`
  excludes this).
* `bvals/prolongation.cpp:95`: prolongation may write a block's own faces next to a coarser
  block; no index range asks for it (`GhostZonesAreFilled`), and it must not, since these
  faces have just been updated.
* `dyn_grmhd/dyn_grmhd.cpp:232`: a prescribed metric is replaced after the update of the
  fluid, while the edge fields of the same stage may still read it (comment at `:184`).
* `multigrid/multigrid_driver.cpp:1619`: on a refined mesh `RestrictOctetsBeforeTransfer`
  rewrites the refined cells of the root grid after `MGRootBoundary` has set its ghost
  zones, and `SetFromRootGrid` (`multigrid/multigrid.cpp:634`) copies those ghost zones to
  the MeshBlocks beside the boundary. Where they are periodic images of refined cells, or
  extrapolated from them, they are older than the cells. Without octets, and where they are images
  of leaf cells, they are current.
* `multigrid/multigrid_driver.cpp:790`: without full multigrid the first defect norm of
  `SolveIterative` is that of the last result, which `MGGravityDriver::Solve` loads without
  its ghost zones; on a mesh that has changed the arrays are new and nobody has filled
  these. This norm decides whether any cycle is made.
* Multigrid: cycles of full multigrid that begin on octets add `A u` to leaf cells whose
  right-hand side is the source, once more in each such cycle (`AscentUsesThisDescent`
  excludes these starts by name); level 0 is not solved before the first prolongation;
  the receives `recvB` and `recvR2` (`multigrid/multigrid_tasks.cpp:437, 453`) depend on
  their posting only and follow the sends by the order of the list.

## 7. Not modelled

Floating-point kernels, problem generators, units, coordinates, refinement criteria,
values of interpolation and of physical boundary conditions: loops over cells without
control; multigrid's stencils and multipole boundaries likewise. They are most of the lines of
the repository. The index ranges of
`multigrid_bvals.cpp` and the extra coarse data that numerical relativity exchanges and
interpolates at higher order; the size of the fixed buffers for AMR. Ghost zones outside
the mesh other than those prolongation reads. The messages of fields and of flux
correction, which follow the protocol of `GhostExchange` (flux correction with one message per
buffer).
The shearing box, whose shift is arithmetic on real offsets. Parsing of the input file
and the formats of outputs; restarts with one file per rank. The watchdog, a thread that aborts a job
without progress: it is part of `Kill`. The build without MPI. In `ParticleExchange`, the
search for the neighbour by the sign of the displacement and refined meshes. In `Driver`,
adaptive refinement within the loop.

## 8. Plan

1. The messages of `FluxCorrection`, one per buffer, and the index ranges of numerical
   relativity and of multigrid.
2. `AMR` inside the loop of `Driver`: a resumed job with another mesh.
3. Particles on refined meshes; shifted neighbours of the shearing box.
