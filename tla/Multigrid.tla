-------------------------------- MODULE Multigrid --------------------------------
(***************************************************************************)
(* The multigrid solver (multigrid/multigrid_driver.cpp, multigrid.cpp, and *)
(* MGGravityDriver::Solve): V-cycles and full multigrid (FMG) over a       *)
(* hierarchy of levels.  Levels 0 .. NRoot-1 are those of the root grid,   *)
(* whose cells are MeshBlocks; the next nref are octets, 2x2x2 cells that  *)
(* refine a cell of the level below, kept on the host; the rest are the    *)
(* levels of the MeshBlocks, of which the coarsest, a single cell, is the  *)
(* same as a cell of the finest root level or of an octet.                 *)
(*                                                                         *)
(* Abstracted: what the grids hold.  Of each level the model knows what    *)
(* its right-hand side is, whether uold is of this cycle, and whether the  *)
(* ghost zones have been set since u changed; and of the finest root level *)
(* which of its copies, on the device, on the host and in the flat buffer, *)
(* are current.  The task lists run on the MeshBlock levels are MGLists.   *)
(***************************************************************************)
EXTENDS Integers, FiniteSets

CONSTANTS Config,  \* parameters of runs, see the assumption
          NBlk,    \* nmblevel_: levels of a MeshBlock
          MaxRef,  \* bound on nreflevel_
          MaxIter  \* V-cycles after which SolveIterative gives up (40)

\* nroot: nrootlevel_; onHost: the root grid is on the host; average:
\* fsubtract_average_; single: the coarsest grid is one cell; fmg:
\* full_multigrid_; cycles: fmg_ncycle_; npre, npost: npresmooth_, npostsmooth_;
\* iterative: eps_ >= 0
ASSUME MultigridAssumption ==
  /\ Config \subseteq [nroot : Nat \ {0}, onHost : BOOLEAN, average : BOOLEAN, single : BOOLEAN,
                       fmg : BOOLEAN, cycles : Nat \ {0}, npre : 0..2, npost : 0..2, iterative : BOOLEAN]
  /\ NBlk \in Nat \ 0..2 /\ MaxRef \in Nat /\ MaxIter \in Nat

VARIABLES
  cfg, nref,  \* parameters of the run; nreflevel_ of the mesh
  phase,      \* what Solve is doing
  level, fmglevel, start, count,  \* current_level_, fmglevel_, startlevel, cycles done
  g           \* the grids, see Grids0

vars == <<cfg, nref, phase, level, fmglevel, start, count, g>>

NRoot == cfg.nroot
Top == NRoot - 1              \* the finest root level
FirstBlock == NRoot + nref    \* the first level on which MeshBlocks have several cells
NTotal == NRoot + NBlk + nref - 1

Home == IF cfg.onHost THEN "host" ELSE "dev"
Copies == {"dev", "host", "flat"}
Interior == {"leaf", "covered"}      \* cells that are MeshBlocks, and refined ones
Everywhere == Interior \cup {"ghost"}
LeafCells == IF nref = 0 THEN Interior ELSE {"leaf"}

Hierarchy(c) == 0..(c.nroot + MaxRef - 1)

\* as constructed: all arrays are zero
Grids0(c) ==
  [rootLevel  |-> c.nroot - 1, blockLevel |-> NBlk - 1,    \* current_level_ of each grid
   src   |-> [l \in Hierarchy(c) |-> [leaf |-> "none", covered |-> "none"]],
   old   |-> [l \in Hierarchy(c) |-> "before"],
   ghost |-> [l \in Hierarchy(c) |-> "old"],      \* "same", "leaf", "all": which are set
   bsrc  |-> [b \in 0..(NBlk - 1) |-> "none"],             \* the same of the MeshBlock levels
   bold  |-> [b \in 0..(NBlk - 1) |-> "before"],
   exchanged |-> "yes",  \* ghost zones of the finest level; "guess": of reallocated arrays
   sync |-> "synced", flatStale |-> TRUE,                  \* root_sync_state_, root_flat_buf_stale_
   fresh |-> {"dev", "host"} \X {"u", "uold", "src"} \X Everywhere,
   bad |-> {}]                                             \* history: kinds of wrong reads made

Init ==
  /\ cfg \in Config /\ nref \in 0..MaxRef
  /\ phase = "idle" /\ level = 0 /\ fmglevel = 0 /\ start = 0 /\ count = 0
  /\ g = Grids0(cfg)

-----------------------------------------------------------------------------
(* Copies of the finest root level *)

Wrong(x, kind, ok) == IF ok THEN x ELSE [x EXCEPT !.bad = @ \cup {kind}]
ReadCopy(x, copy, fields, cells) == Wrong(x, "copy", {copy} \X fields \X cells \subseteq x.fresh)
WriteCopy(x, copy, fields, cells) ==
  [x EXCEPT !.fresh = (@ \ (Copies \X fields \X cells)) \cup ({copy} \X fields \X cells)]

\* what the kernels of mgroot_ do to the copy they work on, at its current level
AtTop(x) == x.rootLevel = Top
ReadRoot(x, fields, cells)  == IF AtTop(x) THEN ReadCopy(x, Home, fields, cells) ELSE x
WriteRoot(x, fields, cells) == IF AtTop(x) THEN WriteCopy(x, Home, fields, cells) ELSE x

\* Kokkos::deep_copy of some fields from one copy to another
DeepCopy(x, from, to, fields) ==
  [x EXCEPT !.fresh = {t \in @ : ~(t[1] = to /\ t[2] \in fields)}
                      \cup {<<to, t[2], t[3]>> : t \in {u \in @ : u[1] = from /\ u[2] \in fields}}]

SyncRootToHost(x) ==
  IF cfg.onHost \/ x.sync # "device" THEN x
  ELSE [IF AtTop(x) THEN DeepCopy(x, "dev", "host", {"u", "uold", "src"}) ELSE x
        EXCEPT !.sync = "synced"]
SyncRootToDevice(x) ==
  IF cfg.onHost \/ x.sync # "host" THEN x
  ELSE [IF AtTop(x) THEN DeepCopy(x, "host", "dev", {"u", "src"}) ELSE x
        EXCEPT !.sync = "synced"]
MarkRootDeviceModified(x) == IF cfg.onHost THEN x ELSE [x EXCEPT !.sync = "device"]

BuildRootFlatBuffers(x) ==
  IF ~x.flatStale THEN x
  ELSE LET y == SyncRootToHost(x)
       IN  [DeepCopy(y, "host", "flat", {"u", "uold"}) EXCEPT !.flatStale = FALSE]

MGRootBoundary(x) ==
  LET y == WriteRoot(ReadRoot(x, {"u"}, Interior), {"u"}, {"ghost"})
  IN  MarkRootDeviceModified([y EXCEPT !.ghost[x.rootLevel] = "all", !.flatStale = TRUE])

-----------------------------------------------------------------------------
(* Kernels of the root grid, at its current level *)

Fas(s) == IF s = "defect" THEN "fas" ELSE IF s = "none" THEN s ELSE "wrong"
NeedGhosts(x, l) == Wrong(x, "ghost", x.ghost[l] = "all")

StoreOldData(x) ==
  [WriteRoot(ReadRoot(x, {"u"}, Everywhere), {"uold"}, Everywhere) EXCEPT !.old[x.rootLevel] = "now"]
\* src += A u, where src is a restricted defect
CalculateFASRHSPack(x) ==
  LET y == ReadRoot(ReadRoot(NeedGhosts(x, x.rootLevel), {"u"}, Everywhere), {"src"}, Interior)
  IN  [WriteRoot(y, {"src"}, Interior) EXCEPT
         !.src[x.rootLevel] = [leaf |-> Fas(@.leaf), covered |-> Fas(@.covered)]]
SmoothPack(x) ==
  LET y == ReadRoot(ReadRoot(NeedGhosts(x, x.rootLevel), {"u"}, Everywhere), {"src"}, Interior)
  IN  [WriteRoot(y, {"u"}, Interior) EXCEPT !.ghost[x.rootLevel] = "old"]
\* the defect and u go to the next coarser level
\* (Faulty variant: the grid's level is not changed.)
RestrictPackInPlace(x) ==
  LET y == ReadRoot(ReadRoot(NeedGhosts(x, x.rootLevel), {"u"}, Everywhere), {"src"}, Interior)
  IN  [y EXCEPT !.src[x.rootLevel - 1].covered = "defect", !.ghost[x.rootLevel - 1] = "old"]
RestrictPack(x) ==
  LET y == ReadRoot(ReadRoot(NeedGhosts(x, x.rootLevel), {"u"}, Everywhere), {"src"}, Interior)
  IN  [y EXCEPT !.src[x.rootLevel - 1].covered = "defect", !.ghost[x.rootLevel - 1] = "old",
                !.rootLevel = @ - 1]
RestrictSourcePack(x) ==
  [ReadRoot(x, {"src"}, Interior) EXCEPT
     !.src[x.rootLevel - 1].covered = "source", !.rootLevel = @ - 1]
\* both prolongations; only ProlongateAndCorrectPack adds to what is there
Prolongate(x, adds) ==
  LET y == [NeedGhosts(x, x.rootLevel) EXCEPT !.ghost[x.rootLevel + 1] = "old", !.rootLevel = @ + 1]
  IN  WriteRoot(IF adds THEN ReadRoot(y, {"u"}, Interior) ELSE y, {"u"}, Interior)

\* the average is that of the current level, but it is subtracted at the finest
SubtractAverage(x, field) ==
  LET cells == IF field = "src" THEN Interior ELSE Everywhere
      y == ReadCopy(Wrong(x, "average", AtTop(x)), Home, {field}, cells)
  IN  WriteCopy(y, Home, {field}, cells)

-----------------------------------------------------------------------------
(* Octets, on the host *)

Octets == NRoot..(FirstBlock - 1)

\* SetBoundariesOctets at level l: from octets beside them, and unless they are to
\* be prolongated from coarser octets or, at the first level, the root grid
SetBoundariesOctets(x, l, fprolong) ==
  IF fprolong THEN [x EXCEPT !.ghost[l] = IF @ = "all" THEN @ ELSE "same"]
  ELSE LET y == IF l = NRoot THEN ReadCopy(BuildRootFlatBuffers(x), "flat", {"u"}, {"leaf"}) ELSE x
       IN  [y EXCEPT !.ghost[l] = "all"]

SmoothOctets(x, l) == [NeedGhosts(x, l) EXCEPT !.ghost[l] = "old"]
StoreOldDataOctets(x, l) == [x EXCEPT !.old[l] = "now"]
CalculateFASRHSOctets(x, l) ==
  [NeedGhosts(x, l) EXCEPT !.src[l] = [leaf |-> Fas(@.leaf), covered |-> Fas(@.covered)]]

\* what is restricted to the root grid is written on the host
ToRootCells(x, fields) ==
  SyncRootToDevice([WriteCopy(x, "host", fields, {"covered"}) EXCEPT
                      !.flatStale = TRUE, !.sync = "host", !.ghost[Top] = "old"])

RestrictOctets(x, l) ==
  LET y == [NeedGhosts(x, l) EXCEPT !.src[l - 1].covered = "defect", !.ghost[l - 1] = "old"]
  IN  IF l = NRoot THEN ToRootCells(y, {"u", "src"}) ELSE y

RestrictFMGSourceOctets(x) ==
  ToRootCells([x EXCEPT !.src = [l \in DOMAIN x.src |->
                 IF l \in (Octets \cup {Top}) \ {FirstBlock - 1}
                 THEN [x.src[l] EXCEPT !.covered = "source"] ELSE x.src[l]]], {"src"})

\* both prolongations from level l to octets; the correction is u - uold
ProlongateOctets(x, l, corrects) ==
  LET y == Wrong(x, "ghost", x.ghost[l] \in {"same", "all"})
      z == IF l = Top
           THEN ReadCopy(SyncRootToHost(y), "host", IF corrects THEN {"u", "uold"} ELSE {"u"}, Everywhere)
           ELSE y
  IN  [z EXCEPT !.ghost[l + 1] = "old"]

-----------------------------------------------------------------------------
(* Between the MeshBlocks and the grids below *)

\* levels whose leaf cells are MeshBlocks
LeafLevels == Top..(FirstBlock - 1)

TransferFromBlocksToRoot(x, initflag) ==
  LET y == WriteCopy(x, "host", IF initflag THEN {"src"} ELSE {"u", "src"}, LeafCells)
      z == [y EXCEPT !.src = [l \in DOMAIN y.src |->
                       IF l \in LeafLevels THEN [y.src[l] EXCEPT !.leaf = x.bsrc[0]] ELSE y.src[l]],
                     !.ghost = [l \in DOMAIN y.ghost |->
                       IF l \in LeafLevels /\ ~initflag THEN "old" ELSE y.ghost[l]],
                     !.flatStale = TRUE, !.rootLevel = Top, !.sync = "host"]
  IN  IF nref = 0 THEN SyncRootToDevice(z) ELSE z

\* refined cells take the values of the octets that refine them, so that ghost zones
\* are current only where they are images of leaf cells; octets that have MeshBlocks
\* get theirs anew, at the first level from the flat buffers
SetOctetsBeforeTransfer(x, folddata) ==
  LET y == [WriteCopy(x, "host", {"u"}, {"covered"}) EXCEPT
              !.sync = "host",
              !.ghost = [l \in DOMAIN x.ghost |->
                           CASE l \in Octets -> "leaf"
                             [] l = Top -> IF x.ghost[l] = "all" THEN "leaf" ELSE "old"
                             [] OTHER -> x.ghost[l]]]
  IN  ReadCopy(BuildRootFlatBuffers(y), "flat", IF folddata THEN {"u", "uold"} ELSE {"u"}, {"leaf"})

\* cells that are MeshBlocks are copied with the cells around them, ghost zones too
SetFromRootGrid(x, folddata) ==
  LET g0 == Wrong(x, "ghost", \A l \in LeafLevels : x.ghost[l] \in {"leaf", "all"})
      g1 == Wrong(g0, "image", x.ghost[Top] = "all")
      y == ReadCopy(g1, "host", IF folddata THEN {"u", "uold"} ELSE {"u"}, Everywhere)
  IN  [y EXCEPT !.blockLevel = 0,
                !.bold[0] = IF folddata
                            THEN IF \A l \in LeafLevels : x.old[l] = "now" THEN "now" ELSE "before"
                            ELSE @]
\* (Faulty variant: the host is not brought up to date first.)
TransferFromRootToBlocksNoSync(x, folddata) ==
  SetFromRootGrid(IF nref > 0 THEN SetOctetsBeforeTransfer(x, folddata) ELSE x, folddata)
TransferFromRootToBlocks(x, folddata) ==
  LET y == SyncRootToHost(x)
  IN  SetFromRootGrid(IF nref > 0 THEN SetOctetsBeforeTransfer(y, folddata) ELSE y, folddata)

-----------------------------------------------------------------------------
(* One step of a cycle *)

\* below the finest level of the problem being solved, equations are for FAS
\* (Faulty variant: also on that level.)
BelowFinestIncl(l) == l <= fmglevel
BelowFinest(l) == l < fmglevel

\* nsmooth sweeps, each of both colours and with the boundaries set in between
Repeat(x, k, op(_)) == CASE k = 0 -> x
                         [] k = 1 -> op(x)
                         [] OTHER -> op(op(x))

RootSweep(x) == MarkRootDeviceModified(SmoothPack(x))
SweepThenBoundary(x) == MGRootBoundary(RootSweep(MGRootBoundary(RootSweep(x))))
BoundaryThenSweep(x) == RootSweep(MGRootBoundary(RootSweep(MGRootBoundary(x))))

SweepOctetsThenSet(x, l) == SetBoundariesOctets(SmoothOctets(x, l), l, FALSE)
SetThenSweepOctets(x, l) == SmoothOctets(SetBoundariesOctets(x, l, FALSE), l)

FASEquation(x) == MarkRootDeviceModified(CalculateFASRHSPack(StoreOldData(x)))

RootToCoarser(x) ==
  LET y == MGRootBoundary(x)
      z == IF BelowFinest(level) THEN FASEquation(y) ELSE y
  IN  MarkRootDeviceModified(RestrictPack(Repeat(z, cfg.npre, SweepThenBoundary)))

OctetsToCoarser(x, l) ==
  LET y == SetBoundariesOctets(x, l, FALSE)
      z == IF BelowFinest(l) THEN CalculateFASRHSOctets(StoreOldDataOctets(y, l), l) ELSE y
  IN  RestrictOctets(Repeat(z, cfg.npre, LAMBDA u : SweepOctetsThenSet(SweepOctetsThenSet(u, l), l)), l)

\* the list mg_to_coarser; PreRestrictOctetU changes values of u only
BlocksToCoarser(x, l) ==
  LET b == x.blockLevel
      y == IF BelowFinest(l) THEN [x EXCEPT !.bold[b] = "now", !.bsrc[b] = Fas(@)] ELSE x
      z == [y EXCEPT !.bsrc[b - 1] = "defect", !.blockLevel = b - 1]
  IN  IF l = FirstBlock THEN TransferFromBlocksToRoot(z, FALSE) ELSE z

OneStepToCoarser(x) ==
  IF level >= FirstBlock THEN BlocksToCoarser(x, level)
  ELSE IF level > Top THEN OctetsToCoarser(x, level)
  ELSE RootToCoarser(x)

RootToFiner(x) ==
  Repeat(MarkRootDeviceModified(Prolongate(MGRootBoundary(x), TRUE)), cfg.npost, BoundaryThenSweep)

OctetsToFiner(x, l) ==
  LET y == IF l = Top THEN MGRootBoundary(x) ELSE SetBoundariesOctets(x, l, TRUE)
  IN  Repeat(ProlongateOctets(y, l, TRUE), cfg.npost,
             LAMBDA u : SetThenSweepOctets(SetThenSweepOctets(u, l + 1), l + 1))

\* the list mg_to_finer; with flag 2 it ends with an exchange
BlocksToFiner(x, l) ==
  LET y == IF l = FirstBlock - 1 THEN TransferFromRootToBlocks(MGRootBoundary(x), TRUE) ELSE x
      flag == IF l = NTotal - 2 THEN 2 ELSE IF l = FirstBlock - 1 THEN 1 ELSE 0
  IN  [y EXCEPT !.blockLevel = @ + 1, !.exchanged = IF flag = 2 THEN "yes" ELSE "no"]

OneStepToFiner(x) ==
  IF level >= FirstBlock - 1 THEN BlocksToFiner(x, level)
  ELSE IF level >= Top THEN OctetsToFiner(x, level)
  ELSE RootToFiner(x)

FMGProlongate(x) ==
  IF level >= FirstBlock - 1
  THEN LET y == IF level = FirstBlock - 1 THEN TransferFromRootToBlocks(MGRootBoundary(x), FALSE) ELSE x
       IN  [y EXCEPT !.blockLevel = @ + 1, !.exchanged = "no"]
  ELSE IF level >= Top
  THEN ProlongateOctets(IF level = Top THEN MGRootBoundary(x) ELSE SetBoundariesOctets(x, level, TRUE),
                        level, FALSE)
  ELSE MarkRootDeviceModified(Prolongate(MGRootBoundary(x), FALSE))

\* (The number of sweeps is that of the cells across the grid, at least one.)
SolveCoarsestGrid(x) ==
  IF cfg.average /\ cfg.single
  THEN LET y == WriteRoot(StoreOldData(MGRootBoundary(x)), {"u"}, Everywhere)  \* ZeroClearData
       IN  MarkRootDeviceModified(y)
  ELSE LET Average(y, f) == IF cfg.average THEN MarkRootDeviceModified(SubtractAverage(y, f)) ELSE y
           y == FASEquation(MGRootBoundary(Average(Average(x, "src"), "u")))
       IN  Average(SweepThenBoundary(y), "u")

-----------------------------------------------------------------------------
(* Solve *)

\* A mesh that has changed since the last solve may have another number of
\* refinement levels, and other cells of the root grid may be refined
PrepareForAMR(x, n, changed) ==
  IF ~changed THEN x
  ELSE [x EXCEPT
          !.flatStale = TRUE, !.exchanged = "guess",
          !.fresh = {t \in Copies \X {"u", "uold", "src"} \X Everywhere :
                       IF t[3] = "ghost" THEN t \in x.fresh
                       ELSE {<<t[1], t[2], c>> : c \in Interior} \subseteq x.fresh},
          !.ghost = [l \in DOMAIN x.ghost |-> IF l > Top THEN "old" ELSE x.ghost[l]]]

\* CalculateDefectNorm on the finest level, by which SolveIterative goes on or ends
Measured(x) ==
  IF ~cfg.iterative THEN x
  ELSE Wrong(Wrong(x, "norm", x.exchanged # "no"), "guess", x.exchanged # "guess")

\* PrepareForAMR, LoadSource, SetupMultigrid, and on to SolveFMG, or to SolveMG with the
\* last result, without its ghost zones, as a guess
Solve ==
  /\ phase = "idle"
  /\ \E n \in 0..MaxRef, changed \in BOOLEAN :
       /\ n # nref => changed
       /\ nref' = n
       /\ LET x == [PrepareForAMR(g, n, changed) EXCEPT
                       !.blockLevel = NBlk - 1, !.bsrc[NBlk - 1] = "source"]
          IN  g' = IF cfg.fmg THEN x ELSE Measured(x)
       /\ level' = NRoot + NBlk + n - 2
  /\ fmglevel' = level'
  /\ phase' = IF cfg.fmg THEN "coarser" ELSE "iterate"
  /\ count' = 0
  /\ UNCHANGED <<cfg, start>>

\* SolveFMGCoarser: the source is restricted through all levels
SolveFMGCoarser ==
  /\ phase = "coarser"
  /\ IF level >= FirstBlock
     THEN LET y == [g EXCEPT !.bsrc[g.blockLevel - 1] = "source", !.blockLevel = @ - 1]
              z == IF level = FirstBlock THEN TransferFromBlocksToRoot(y, TRUE) ELSE y
          IN  IF level > FirstBlock
              THEN g' = z /\ level' = level - 1
              ELSE /\ g' = IF nref > 0 THEN RestrictFMGSourceOctets(z) ELSE z
                   /\ level' = Top
     ELSE /\ level > 0
          /\ g' = MarkRootDeviceModified(RestrictSourcePack(g))
          /\ level' = level - 1
  /\ phase' = IF level' = 0 THEN "fmg" ELSE phase
  /\ UNCHANGED <<cfg, nref, fmglevel, start, count>>

\* SolveFMG: one level finer, then fmg_ncycle_ V-cycles there
FMG ==
  /\ phase = "fmg"
  /\ IF level < NTotal - 1
     THEN /\ g' = FMGProlongate(g)
          /\ level' = level + 1 /\ fmglevel' = level + 1
          /\ phase' = "fmgcycle"
     ELSE /\ fmglevel' = NTotal - 1
          /\ phase' = "iterate"
          /\ g' = Measured(g)
          /\ UNCHANGED level
  /\ count' = 0
  /\ UNCHANGED <<cfg, nref, start>>

\* SolveVCycle begins: corrections are against what this cycle will restrict
VCycle ==
  /\ \/ phase = "fmgcycle" /\ count < cfg.cycles
     \/ phase = "iterate" /\ count < MaxIter
  /\ start' = level
  /\ count' = count + 1
  /\ phase' = IF phase = "iterate" THEN "down" ELSE "fmgdown"
  /\ g' = [g EXCEPT !.old = [l \in DOMAIN g.old |-> "before"], !.bold = [b \in DOMAIN g.bold |-> "before"]]
  /\ UNCHANGED <<cfg, nref, level, fmglevel>>

Down ==
  /\ phase \in {"down", "fmgdown"}
  /\ IF level > 0
     THEN g' = OneStepToCoarser(g) /\ level' = level - 1 /\ UNCHANGED phase
     ELSE /\ g' = SolveCoarsestGrid(g)
          /\ phase' = IF phase = "down" THEN "up" ELSE "fmgup"
          /\ UNCHANGED level
  /\ UNCHANGED <<cfg, nref, fmglevel, start, count>>

Up ==
  /\ phase \in {"up", "fmgup"}
  /\ IF level < start
     THEN g' = OneStepToFiner(g) /\ level' = level + 1 /\ UNCHANGED phase
     ELSE /\ phase' = CASE phase = "up" -> "iterate"
                        [] count < cfg.cycles -> "fmgcycle"
                        [] OTHER -> "fmg"
          /\ g' = IF phase = "up" THEN Measured(g) ELSE g
          /\ UNCHANGED level
  /\ UNCHANGED <<cfg, nref, fmglevel, start, count>>

\* The defect norm is small enough, the cycles have been made, or it is given up
Finish ==
  /\ phase = "iterate"
  /\ cfg.iterative \/ count > 0
  /\ phase' = "idle"
  /\ level' = 0 /\ fmglevel' = 0 /\ start' = 0 /\ count' = 0
  /\ UNCHANGED <<cfg, nref, g>>

Next == Solve \/ SolveFMGCoarser \/ FMG \/ VCycle \/ Down \/ Up \/ Finish

Spec == Init /\ [][Next]_vars

-----------------------------------------------------------------------------
(* Properties *)

InSolve == phase # "idle"

\* The driver counts levels through all grids, each grid counts its own: whatever
\* sequence of cycles has been made, through changes of the mesh, they agree.
LevelsAgree ==
  InSolve =>
    /\ g.blockLevel = IF level >= FirstBlock THEN level - (FirstBlock - 1) ELSE 0
    /\ g.rootLevel = IF level < Top THEN level ELSE Top

\* The cells at level l hold what the FAS scheme needs: below the finest level the
\* restricted defect plus A u, on it the source itself.
Equation(l) == IF l < start THEN "fas" ELSE "source"
CellsHold(l, what) ==
  /\ l >= Top => g.src[l].leaf = what
  /\ l < FirstBlock - 1 => g.src[l].covered = what

\* On the way up from the coarsest grid every level is corrected by the change of u
\* since this cycle came down, never by one against an older uold, and every level
\* solves its equation with the right-hand side made on the way down, exactly once.
\* Not so in the FMG cycles that begin on octets: there A u is also added to the
\* source of cells that no finer level restricts to, and again in every such cycle.
AscentUsesThisDescent ==
  phase \in {"up", "fmgup"} =>
    /\ \A l \in DOMAIN g.old : l < start /\ l < FirstBlock => g.old[l] = "now"
    /\ level >= FirstBlock => \A b \in 0..(start - FirstBlock) : g.bold[b] = "now"
    /\ \A b \in 1..(NBlk - 1) : b <= start - (FirstBlock - 1) =>
         g.bsrc[b] = Equation(b + FirstBlock - 1)
    /\ start \notin Octets =>
         \A l \in 0..(FirstBlock - 1) :
           l <= start /\ ~(l = 0 /\ cfg.average /\ cfg.single) => CellsHold(l, Equation(l))

\* No kernel reads a copy of the root grid that is not the current one, or ghost
\* zones that were not set since u changed, and no defect norm is taken with ghost
\* zones older than the last sweep; but for two reads that the code does make.  On a
\* refined mesh SetFromRootGrid takes the root grid's ghost zones as they were
\* before RestrictOctetsBeforeTransfer, where they are images of refined cells
\* ("image"); and without FMG the first norm after a change of the mesh is that of
\* a guess whose ghost zones nobody has filled ("guess").
ReadsCurrentData == g.bad \cap {"copy", "ghost", "norm"} = {}

\* "calculate the global average and subtract it": from the level it was taken of
AverageLeavesItsLevel == "average" \notin g.bad
=============================================================================
