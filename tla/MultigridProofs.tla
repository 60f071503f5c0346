---------------------------- MODULE MultigridProofs ----------------------------
(***************************************************************************)
(* For every root grid, MeshBlock, refinement and parameter of the solver, *)
(* through V-cycles and full multigrid and over changes of the mesh:       *)
(*   - the level the driver counts is the level the grids stand at;        *)
(*   - what is read is current, of the copies of the root grid, of ghost   *)
(*     zones, and of the values the defect norm is taken of, but for the   *)
(*     two reads that ReadsCurrentData names;                              *)
(*   - the way up uses the uold and the right-hand sides of the way down.  *)
(*                                                                         *)
(* First the levels.  Most operations move data and no level: the lemmas   *)
(* say of each operator which level it moves, and to where; the inductive  *)
(* invariant adds where a V-cycle begins and ends, since it is there that  *)
(* the driver goes from one grid to the next.                              *)
(*                                                                         *)
(* Then the data.  The lemmas say of each operator what it needs to be     *)
(* current, what it makes current, and what becomes of right-hand sides    *)
(* and uold; then of the steps down and up, which are made of them.  The   *)
(* inductive invariant says which copy of the root grid is current where   *)
(* the driver stands, and what the descent has made above that level.      *)
(***************************************************************************)
EXTENDS Multigrid, TLAPS

\* The arrays of the solver with integer level counters
Fields == {"rootLevel", "blockLevel", "src", "old", "ghost", "bsrc", "bold", "exchanged",
           "sync", "flatStale", "fresh", "bad"}
Grid(x) == /\ x = [f \in Fields |-> x[f]]
           /\ x.rootLevel \in Int /\ x.blockLevel \in Int

\* an operation that leaves the levels of both grids alone
Keeps(x, y) == Grid(y) /\ y.rootLevel = x.rootLevel /\ y.blockLevel = x.blockLevel

-----------------------------------------------------------------------------
\* Keeping the levels composes
LEMMA KeepsTrans == ASSUME NEW x, NEW y, NEW z, Keeps(x, y), Keeps(y, z) PROVE Keeps(x, z)
BY DEF Keeps

\* Doing nothing keeps the levels
LEMMA KeepsSelf == ASSUME NEW x, Grid(x) PROVE Keeps(x, x)
BY DEF Keeps

\* The level of the root grid, and only it, is set
LEMMA RootLevelSet ==
  ASSUME NEW x, Grid(x), NEW n \in Int
  PROVE  LET y == [x EXCEPT !.rootLevel = n]
         IN  Grid(y) /\ y.rootLevel = n /\ y.blockLevel = x.blockLevel
BY DEF Grid, Fields

\* The level of the MeshBlocks, and only it, is set
LEMMA BlockLevelSet ==
  ASSUME NEW x, Grid(x), NEW n \in Int
  PROVE  LET y == [x EXCEPT !.blockLevel = n]
         IN  Grid(y) /\ y.rootLevel = x.rootLevel /\ y.blockLevel = n
BY DEF Grid, Fields

(* Copies of the root grid *)
\* Recording a wrong read moves no level
LEMMA WrongKeeps == ASSUME NEW x, Grid(x), NEW k, NEW ok PROVE Keeps(x, Wrong(x, k, ok))
BY DEF Grid, Keeps, Wrong, Fields

\* Writing a copy of the root grid moves no level
LEMMA WriteCopyKeeps ==
  ASSUME NEW x, Grid(x), NEW c, NEW f, NEW cells PROVE Keeps(x, WriteCopy(x, c, f, cells))
BY DEF Grid, Keeps, WriteCopy, Fields

\* Reading a copy of the root grid moves no level
LEMMA ReadCopyKeeps ==
  ASSUME NEW x, Grid(x), NEW c, NEW f, NEW cells PROVE Keeps(x, ReadCopy(x, c, f, cells))
BY WrongKeeps DEF ReadCopy

\* A kernel that reads the root grid moves no level by that
LEMMA ReadRootKeeps ==
  ASSUME NEW x, Grid(x), NEW f, NEW cells PROVE Keeps(x, ReadRoot(x, f, cells))
BY ReadCopyKeeps, KeepsSelf DEF ReadRoot

\* A kernel that writes the root grid moves no level by that
LEMMA WriteRootKeeps ==
  ASSUME NEW x, Grid(x), NEW f, NEW cells PROVE Keeps(x, WriteRoot(x, f, cells))
BY WriteCopyKeeps, KeepsSelf DEF WriteRoot

\* Copying between host, device and buffers moves no level
LEMMA DeepCopyKeeps ==
  ASSUME NEW x, Grid(x), NEW from, NEW to, NEW f PROVE Keeps(x, DeepCopy(x, from, to, f))
BY DEF Grid, Keeps, DeepCopy, Fields

\* SyncRootToHost moves no level
LEMMA SyncRootToHostKeeps == ASSUME NEW x, Grid(x) PROVE Keeps(x, SyncRootToHost(x))
<1>1. Keeps(x, IF AtTop(x) THEN DeepCopy(x, "dev", "host", {"u", "uold", "src"}) ELSE x)
  BY DeepCopyKeeps, KeepsSelf
<1>2. QED BY <1>1, KeepsSelf DEF SyncRootToHost, Keeps, Grid, Fields

\* SyncRootToDevice moves no level
LEMMA SyncRootToDeviceKeeps == ASSUME NEW x, Grid(x) PROVE Keeps(x, SyncRootToDevice(x))
<1>1. Keeps(x, IF AtTop(x) THEN DeepCopy(x, "host", "dev", {"u", "src"}) ELSE x)
  BY DeepCopyKeeps, KeepsSelf
<1>2. QED BY <1>1, KeepsSelf DEF SyncRootToDevice, Keeps, Grid, Fields

\* Marking the device copy as modified moves no level
LEMMA MarkKeeps == ASSUME NEW x, Grid(x) PROVE Keeps(x, MarkRootDeviceModified(x))
BY KeepsSelf DEF MarkRootDeviceModified, Keeps, Grid, Fields

\* Building the flat buffers moves no level
LEMMA BuildKeeps == ASSUME NEW x, Grid(x) PROVE Keeps(x, BuildRootFlatBuffers(x))
<1>1. Keeps(x, DeepCopy(SyncRootToHost(x), "host", "flat", {"u", "uold"}))
  BY SyncRootToHostKeeps, DeepCopyKeeps DEF Keeps
<1>2. QED BY <1>1, KeepsSelf DEF BuildRootFlatBuffers, Keeps, Grid, Fields

\* Setting the boundary of the root grid moves no level
LEMMA MGRootBoundaryKeeps == ASSUME NEW x, Grid(x) PROVE Keeps(x, MGRootBoundary(x))
<1>1. PICK y : y = WriteRoot(ReadRoot(x, {"u"}, Interior), {"u"}, {"ghost"})
  OBVIOUS
<1>2. Keeps(x, y)
  BY <1>1, ReadRootKeeps, WriteRootKeeps DEF Keeps
<1>3. PICK a : MGRootBoundary(x) = MarkRootDeviceModified([y EXCEPT !.ghost = a, !.flatStale = TRUE])
  BY <1>1 DEF MGRootBoundary
<1>4. Keeps(y, [y EXCEPT !.ghost = a, !.flatStale = TRUE])
  BY <1>2 DEF Keeps, Grid, Fields
<1>5. QED BY <1>2, <1>3, <1>4, MarkKeeps DEF Keeps

(* Kernels of the root grid *)
\* Storing uold on the root grid moves no level
LEMMA StoreOldDataKeeps == ASSUME NEW x, Grid(x) PROVE Keeps(x, StoreOldData(x))
<1>1. PICK y : y = WriteRoot(ReadRoot(x, {"u"}, Everywhere), {"uold"}, Everywhere)
  OBVIOUS
<1>2. Keeps(x, y)
  BY <1>1, ReadRootKeeps, WriteRootKeeps DEF Keeps
<1>3. PICK a : StoreOldData(x) = [y EXCEPT !.old = a]
  BY <1>1 DEF StoreOldData
<1>4. QED BY <1>2, <1>3 DEF Keeps, Grid, Fields

\* What a stencil reads on the root grid moves no level
LEMMA ReadsKeep ==
  ASSUME NEW x, Grid(x)
  PROVE  Keeps(x, ReadRoot(ReadRoot(NeedGhosts(x, x.rootLevel), {"u"}, Everywhere), {"src"}, Interior))
BY ReadRootKeeps, WrongKeeps DEF NeedGhosts, Keeps

\* Making the FAS right-hand side of the root grid moves no level
LEMMA CalculateFASRHSPackKeeps == ASSUME NEW x, Grid(x) PROVE Keeps(x, CalculateFASRHSPack(x))
<1>1. PICK y : y = ReadRoot(ReadRoot(NeedGhosts(x, x.rootLevel), {"u"}, Everywhere), {"src"}, Interior)
  OBVIOUS
<1>2. Keeps(x, WriteRoot(y, {"src"}, Interior))
  BY <1>1, ReadsKeep, WriteRootKeeps DEF Keeps
<1>3. PICK a : CalculateFASRHSPack(x) = [WriteRoot(y, {"src"}, Interior) EXCEPT !.src = a]
  BY <1>1 DEF CalculateFASRHSPack
<1>4. QED BY <1>2, <1>3 DEF Keeps, Grid, Fields

\* Smoothing the root grid moves no level
LEMMA SmoothPackKeeps == ASSUME NEW x, Grid(x) PROVE Keeps(x, SmoothPack(x))
<1>1. PICK y : y = ReadRoot(ReadRoot(NeedGhosts(x, x.rootLevel), {"u"}, Everywhere), {"src"}, Interior)
  OBVIOUS
<1>2. Keeps(x, WriteRoot(y, {"u"}, Interior))
  BY <1>1, ReadsKeep, WriteRootKeeps DEF Keeps
<1>3. PICK a : SmoothPack(x) = [WriteRoot(y, {"u"}, Interior) EXCEPT !.ghost = a]
  BY <1>1 DEF SmoothPack
<1>4. QED BY <1>2, <1>3 DEF Keeps, Grid, Fields

\* restricting and prolonging move the level of the root grid by one
Moves(x, y, n) == Grid(y) /\ y.rootLevel = n /\ y.blockLevel = x.blockLevel

\* Restriction takes the root grid one level down and leaves the MeshBlocks
LEMMA RestrictPackMoves == ASSUME NEW x, Grid(x) PROVE Moves(x, RestrictPack(x), x.rootLevel - 1)
<1>1. PICK y : y = ReadRoot(ReadRoot(NeedGhosts(x, x.rootLevel), {"u"}, Everywhere), {"src"}, Interior)
  OBVIOUS
<1>2. Keeps(x, y)
  BY <1>1, ReadsKeep
<1>3. PICK a, b : RestrictPack(x) = [y EXCEPT !.src = a, !.ghost = b, !.rootLevel = @ - 1]
  BY <1>1 DEF RestrictPack
<1>4. PICK z : z = [y EXCEPT !.src = a, !.ghost = b]
  OBVIOUS
<1>5. Keeps(x, z)
  BY <1>2, <1>4 DEF Keeps, Grid, Fields
<1>6. RestrictPack(x) = [z EXCEPT !.rootLevel = z.rootLevel - 1]
  BY <1>2, <1>3, <1>4 DEF Keeps, Grid, Fields
<1>7. z.rootLevel = x.rootLevel /\ x.rootLevel - 1 \in Int
  BY <1>5 DEF Keeps, Grid
<1>8. QED BY <1>5, <1>6, <1>7, RootLevelSet DEF Keeps, Moves

\* Restricting the source takes the root grid one level down
LEMMA RestrictSourcePackMoves == ASSUME NEW x, Grid(x) PROVE Moves(x, RestrictSourcePack(x), x.rootLevel - 1)
<1>1. PICK y : y = ReadRoot(x, {"src"}, Interior)
  OBVIOUS
<1>2. Keeps(x, y)
  BY <1>1, ReadRootKeeps
<1>3. PICK a : RestrictSourcePack(x) = [y EXCEPT !.src = a, !.rootLevel = @ - 1]
  BY <1>1 DEF RestrictSourcePack
<1>4. PICK z : z = [y EXCEPT !.src = a]
  OBVIOUS
<1>5. Keeps(x, z)
  BY <1>2, <1>4 DEF Keeps, Grid, Fields
<1>6. RestrictSourcePack(x) = [z EXCEPT !.rootLevel = z.rootLevel - 1]
  BY <1>2, <1>3, <1>4 DEF Keeps, Grid, Fields
<1>7. z.rootLevel = x.rootLevel /\ x.rootLevel - 1 \in Int
  BY <1>5 DEF Keeps, Grid
<1>8. QED BY <1>5, <1>6, <1>7, RootLevelSet DEF Keeps, Moves

\* Either prolongation takes the root grid one level up
LEMMA ProlongateMoves == ASSUME NEW x, Grid(x), NEW adds PROVE Moves(x, Prolongate(x, adds), x.rootLevel + 1)
<1>1. PICK v : v = NeedGhosts(x, x.rootLevel)
  OBVIOUS
<1>2. Keeps(x, v)
  BY <1>1, WrongKeeps DEF NeedGhosts
<1>3. PICK y : y = [NeedGhosts(x, x.rootLevel) EXCEPT !.ghost[x.rootLevel + 1] = "old", !.rootLevel = @ + 1]
  OBVIOUS
<1>4. PICK a : y = [v EXCEPT !.ghost = a, !.rootLevel = @ + 1]
  BY <1>1, <1>3
<1>5. PICK z : z = [v EXCEPT !.ghost = a]
  OBVIOUS
<1>6. Keeps(x, z)
  BY <1>2, <1>5 DEF Keeps, Grid, Fields
<1>7. y = [z EXCEPT !.rootLevel = z.rootLevel + 1]
  BY <1>2, <1>4, <1>5 DEF Keeps, Grid, Fields
<1>8. Moves(x, y, x.rootLevel + 1)
  BY <1>6, <1>7, RootLevelSet DEF Keeps, Moves, Grid
<1>9. Prolongate(x, adds) = WriteRoot(IF adds THEN ReadRoot(y, {"u"}, Interior) ELSE y, {"u"}, Interior)
  BY <1>3 DEF Prolongate
<1>10. QED BY <1>8, <1>9, ReadRootKeeps, WriteRootKeeps DEF Keeps, Moves

\* Subtracting the average moves no level
LEMMA SubtractAverageKeeps == ASSUME NEW x, Grid(x), NEW f PROVE Keeps(x, SubtractAverage(x, f))
<1>1. \A cells : Keeps(x, WriteCopy(ReadCopy(Wrong(x, "average", AtTop(x)), Home, {f}, cells), Home, {f}, cells))
  BY WrongKeeps, ReadCopyKeeps, WriteCopyKeeps DEF Keeps
<1>2. QED BY <1>1 DEF SubtractAverage

(* Octets *)
\* Setting boundaries of octets moves no level of the other grids
LEMMA SetBoundariesOctetsKeeps ==
  ASSUME NEW x, Grid(x), NEW l, NEW fprolong PROVE Keeps(x, SetBoundariesOctets(x, l, fprolong))
<1>1. CASE fprolong
  <2>1. PICK a : SetBoundariesOctets(x, l, fprolong) = [x EXCEPT !.ghost = a]
    BY <1>1 DEF SetBoundariesOctets
  <2>2. QED BY <2>1 DEF Keeps, Grid, Fields
<1>2. CASE ~fprolong
  <2>1. PICK y : y = IF l = NRoot THEN ReadCopy(BuildRootFlatBuffers(x), "flat", {"u"}, {"leaf"}) ELSE x
    OBVIOUS
  <2>2. Keeps(x, y)
    BY <2>1, BuildKeeps, ReadCopyKeeps, KeepsSelf DEF Keeps
  <2>3. PICK a : SetBoundariesOctets(x, l, fprolong) = [y EXCEPT !.ghost = a]
    BY <1>2, <2>1 DEF SetBoundariesOctets
  <2>4. QED BY <2>2, <2>3 DEF Keeps, Grid, Fields
<1>3. QED BY <1>1, <1>2

\* Smoothing octets moves no level of the other grids
LEMMA SmoothOctetsKeeps == ASSUME NEW x, Grid(x), NEW l PROVE Keeps(x, SmoothOctets(x, l))
<1>1. PICK a : SmoothOctets(x, l) = [NeedGhosts(x, l) EXCEPT !.ghost = a]
  BY DEF SmoothOctets
<1>2. Keeps(x, NeedGhosts(x, l))
  BY WrongKeeps DEF NeedGhosts
<1>3. QED BY <1>1, <1>2 DEF Keeps, Grid, Fields

\* Storing uold on octets moves no level of the other grids
LEMMA StoreOldDataOctetsKeeps == ASSUME NEW x, Grid(x), NEW l PROVE Keeps(x, StoreOldDataOctets(x, l))
<1>1. PICK a : StoreOldDataOctets(x, l) = [x EXCEPT !.old = a]
  BY DEF StoreOldDataOctets
<1>2. QED BY <1>1 DEF Keeps, Grid, Fields

\* Making the right-hand side on octets moves no level of the other grids
LEMMA CalculateFASRHSOctetsKeeps ==
  ASSUME NEW x, Grid(x), NEW l PROVE Keeps(x, CalculateFASRHSOctets(x, l))
<1>1. PICK a : CalculateFASRHSOctets(x, l) = [NeedGhosts(x, l) EXCEPT !.src = a]
  BY DEF CalculateFASRHSOctets
<1>2. Keeps(x, NeedGhosts(x, l))
  BY WrongKeeps DEF NeedGhosts
<1>3. QED BY <1>1, <1>2 DEF Keeps, Grid, Fields

\* Writing restricted values into root cells moves no level
LEMMA ToRootCellsKeeps == ASSUME NEW x, Grid(x), NEW f PROVE Keeps(x, ToRootCells(x, f))
<1>1. PICK y : y = WriteCopy(x, "host", f, {"covered"})
  OBVIOUS
<1>2. Keeps(x, y)
  BY <1>1, WriteCopyKeeps
<1>3. PICK a : ToRootCells(x, f) =
                 SyncRootToDevice([y EXCEPT !.flatStale = TRUE, !.sync = "host", !.ghost = a])
  BY <1>1 DEF ToRootCells
<1>4. Keeps(x, [y EXCEPT !.flatStale = TRUE, !.sync = "host", !.ghost = a])
  BY <1>2 DEF Keeps, Grid, Fields
<1>5. QED BY <1>3, <1>4, SyncRootToDeviceKeeps DEF Keeps

\* Restricting octets moves no level of the other grids
LEMMA RestrictOctetsKeeps == ASSUME NEW x, Grid(x), NEW l PROVE Keeps(x, RestrictOctets(x, l))
<1>1. PICK y : y = [NeedGhosts(x, l) EXCEPT !.src[l - 1].covered = "defect", !.ghost[l - 1] = "old"]
  OBVIOUS
<1>2. PICK a, b : y = [NeedGhosts(x, l) EXCEPT !.src = a, !.ghost = b]
  BY <1>1
<1>3. Keeps(x, NeedGhosts(x, l))
  BY WrongKeeps DEF NeedGhosts
<1>4. Keeps(x, y)
  BY <1>2, <1>3 DEF Keeps, Grid, Fields
<1>5. RestrictOctets(x, l) = IF l = NRoot THEN ToRootCells(y, {"u", "src"}) ELSE y
  BY <1>1 DEF RestrictOctets
<1>6. QED BY <1>4, <1>5, ToRootCellsKeeps DEF Keeps

\* Restricting the source through the octets moves no level of the other grids
LEMMA RestrictFMGSourceOctetsKeeps == ASSUME NEW x, Grid(x) PROVE Keeps(x, RestrictFMGSourceOctets(x))
<1>1. PICK y : /\ \E a : y = [x EXCEPT !.src = a]
              /\ RestrictFMGSourceOctets(x) = ToRootCells(y, {"src"})
  BY DEF RestrictFMGSourceOctets
<1>2. Keeps(x, y)
  BY <1>1 DEF Keeps, Grid, Fields
<1>3. Keeps(y, ToRootCells(y, {"src"}))
  BY <1>2, ToRootCellsKeeps DEF Keeps
<1>4. QED BY <1>1, <1>2, <1>3, KeepsTrans

\* Prolongating to octets moves no level of the other grids
LEMMA ProlongateOctetsKeeps ==
  ASSUME NEW x, Grid(x), NEW l, NEW corrects PROVE Keeps(x, ProlongateOctets(x, l, corrects))
<1>1. PICK y : y = Wrong(x, "ghost", x.ghost[l] \in {"same", "all"})
  OBVIOUS
<1>2. Keeps(x, y)
  BY <1>1, WrongKeeps
<1>3. PICK z : z = IF l = Top
                   THEN ReadCopy(SyncRootToHost(y), "host", IF corrects THEN {"u", "uold"} ELSE {"u"}, Everywhere)
                   ELSE y
  OBVIOUS
<1>4. Keeps(x, z)
  BY <1>2, <1>3, SyncRootToHostKeeps, ReadCopyKeeps DEF Keeps
<1>5. PICK a : ProlongateOctets(x, l, corrects) = [z EXCEPT !.ghost = a]
  BY <1>1, <1>3 DEF ProlongateOctets
<1>6. QED BY <1>4, <1>5 DEF Keeps, Grid, Fields

(* Between the MeshBlocks and the grids below *)
\* The levels are in order: root grid, octets, at least three of the MeshBlocks
LEMMA TopInt == ASSUME cfg \in Config, nref \in Nat
                PROVE  /\ NRoot \in Nat \ {0} /\ Top \in Nat /\ FirstBlock \in Nat
                       /\ Top <= FirstBlock - 1 /\ NTotal - 1 = FirstBlock - 1 + (NBlk - 1) /\ NBlk \in Nat \ 0..2
BY MultigridAssumption DEF NRoot, Top, FirstBlock, NTotal

\* The transfer from MeshBlocks puts the root grid at its finest level
LEMMA BlocksToRootMoves ==
  ASSUME NEW x, Grid(x), NEW init, Top \in Int
  PROVE  Moves(x, TransferFromBlocksToRoot(x, init), Top)
<1>1. PICK y : y = WriteCopy(x, "host", IF init THEN {"src"} ELSE {"u", "src"}, LeafCells)
  OBVIOUS
<1>2. Keeps(x, y)
  BY <1>1, WriteCopyKeeps
<1>3. PICK a, b : TransferFromBlocksToRoot(x, init) =
        LET z == [y EXCEPT !.src = a, !.ghost = b, !.flatStale = TRUE, !.rootLevel = Top, !.sync = "host"]
        IN  IF nref = 0 THEN SyncRootToDevice(z) ELSE z
  BY <1>1 DEF TransferFromBlocksToRoot
<1>4. PICK z : z = [y EXCEPT !.src = a, !.ghost = b, !.flatStale = TRUE, !.rootLevel = Top, !.sync = "host"]
  OBVIOUS
<1>5. Moves(x, z, Top)
  BY <1>2, <1>4 DEF Keeps, Moves, Grid, Fields
<1>6. TransferFromBlocksToRoot(x, init) = IF nref = 0 THEN SyncRootToDevice(z) ELSE z
  BY <1>3, <1>4
<1>7. QED BY <1>5, <1>6, SyncRootToDeviceKeeps DEF Moves, Keeps

\* the transfer to the MeshBlocks sets their level to 0
ToBlocks(x, y) == Grid(y) /\ y.rootLevel = x.rootLevel /\ y.blockLevel = 0

\* Filling root cells and octets before the transfer to MeshBlocks moves no level
LEMMA SetOctetsKeeps == ASSUME NEW x, Grid(x), NEW fold PROVE Keeps(x, SetOctetsBeforeTransfer(x, fold))
<1>1. PICK a, y : /\ y = [WriteCopy(x, "host", {"u"}, {"covered"}) EXCEPT !.sync = "host", !.ghost = a]
                 /\ \E f : SetOctetsBeforeTransfer(x, fold) = ReadCopy(BuildRootFlatBuffers(y), "flat", f, {"leaf"})
  BY DEF SetOctetsBeforeTransfer
<1>2. Keeps(x, WriteCopy(x, "host", {"u"}, {"covered"}))
  BY WriteCopyKeeps
<1>3. Keeps(x, y)
  BY <1>1, <1>2 DEF Keeps, Grid, Fields
<1>4. Keeps(x, BuildRootFlatBuffers(y))
  BY <1>3, BuildKeeps DEF Keeps
<1>5. QED BY <1>1, <1>4, ReadCopyKeeps DEF Keeps

\* MeshBlocks set from the root grid are at their coarsest level
LEMMA SetFromRootGridToBlocks == ASSUME NEW x, Grid(x), NEW fold PROVE ToBlocks(x, SetFromRootGrid(x, fold))
<1>1. PICK y, p, q, f : /\ y = ReadCopy(Wrong(Wrong(x, "ghost", p), "image", q), "host", f, Everywhere)
                       /\ \E a : SetFromRootGrid(x, fold) = [y EXCEPT !.blockLevel = 0, !.bold = a]
  BY DEF SetFromRootGrid
<1>2. Keeps(x, y)
  BY <1>1, WrongKeeps, ReadCopyKeeps DEF Keeps
<1>3. PICK a : SetFromRootGrid(x, fold) = [y EXCEPT !.blockLevel = 0, !.bold = a]
  BY <1>1
<1>4. PICK z : z = [y EXCEPT !.bold = a]
  OBVIOUS
<1>5. Keeps(x, z)
  BY <1>2, <1>4 DEF Keeps, Grid, Fields
<1>6. SetFromRootGrid(x, fold) = [z EXCEPT !.blockLevel = 0]
  BY <1>2, <1>3, <1>4 DEF Keeps, Grid, Fields
<1>7. QED BY <1>5, <1>6, BlockLevelSet DEF Keeps, ToBlocks

\* The transfer to MeshBlocks puts them at their coarsest level
LEMMA RootToBlocksToBlocks ==
  ASSUME NEW x, Grid(x), NEW fold PROVE ToBlocks(x, TransferFromRootToBlocks(x, fold))
<1>1. PICK y : y = IF nref > 0 THEN SetOctetsBeforeTransfer(SyncRootToHost(x), fold) ELSE SyncRootToHost(x)
  OBVIOUS
<1>2. Keeps(x, y)
  BY <1>1, SyncRootToHostKeeps, SetOctetsKeeps DEF Keeps
<1>3. TransferFromRootToBlocks(x, fold) = SetFromRootGrid(y, fold)
  BY <1>1 DEF TransferFromRootToBlocks
<1>4. QED BY <1>2, <1>3, SetFromRootGridToBlocks DEF Keeps, ToBlocks

-----------------------------------------------------------------------------
(* Steps of a cycle *)
\* A half sweep of the root grid moves no level
LEMMA RootSweepKeeps == ASSUME NEW x, Grid(x) PROVE Keeps(x, RootSweep(x))
BY SmoothPackKeeps, MarkKeeps DEF RootSweep, Keeps

\* A sweep with its boundaries moves no level
LEMMA SweepThenBoundaryKeeps == ASSUME NEW x, Grid(x) PROVE Keeps(x, SweepThenBoundary(x))
BY RootSweepKeeps, MGRootBoundaryKeeps DEF SweepThenBoundary, Keeps

\* A sweep after its boundaries moves no level
LEMMA BoundaryThenSweepKeeps == ASSUME NEW x, Grid(x) PROVE Keeps(x, BoundaryThenSweep(x))
BY RootSweepKeeps, MGRootBoundaryKeeps DEF BoundaryThenSweep, Keeps

\* A sweep of octets with its boundaries moves no level of the other grids
LEMMA SweepOctetsThenSetKeeps == ASSUME NEW x, Grid(x), NEW l PROVE Keeps(x, SweepOctetsThenSet(x, l))
<1>1. PICK y : y = SmoothOctets(x, l)
  OBVIOUS
<1>2. Keeps(x, y) /\ Grid(y)
  BY <1>1, SmoothOctetsKeeps DEF Keeps
<1>3. PICK z : z = SetBoundariesOctets(y, l, FALSE)
  OBVIOUS
<1>4. Keeps(y, z)
  BY <1>2, <1>3, SetBoundariesOctetsKeeps
<1>5. SweepOctetsThenSet(x, l) = z
  BY <1>1, <1>3 DEF SweepOctetsThenSet
<1>6. QED BY <1>2, <1>4, <1>5, KeepsTrans

\* A sweep of octets after its boundaries moves no level of the other grids
LEMMA SetThenSweepOctetsKeeps == ASSUME NEW x, Grid(x), NEW l PROVE Keeps(x, SetThenSweepOctets(x, l))
<1>1. Keeps(x, SetBoundariesOctets(x, l, FALSE))
  BY SetBoundariesOctetsKeeps
<1>2. PICK y : y = SetBoundariesOctets(x, l, FALSE)
  OBVIOUS
<1>3. Keeps(y, SmoothOctets(y, l))
  BY <1>1, <1>2, SmoothOctetsKeeps DEF Keeps
<1>4. QED BY <1>1, <1>2, <1>3, KeepsTrans DEF SetThenSweepOctets

\* Making the FAS equation of the root grid moves no level
LEMMA FASEquationKeeps == ASSUME NEW x, Grid(x) PROVE Keeps(x, FASEquation(x))
BY StoreOldDataKeeps, CalculateFASRHSPackKeeps, MarkKeeps DEF FASEquation, Keeps

\* One step down on the root grid is one level down there
LEMMA RootToCoarserMoves ==
  ASSUME NEW x, Grid(x) PROVE Moves(x, RootToCoarser(x), x.rootLevel - 1)
<1>1. PICK z : z = IF BelowFinest(level) THEN FASEquation(MGRootBoundary(x)) ELSE MGRootBoundary(x)
  OBVIOUS
<1>2. Keeps(x, z)
  BY <1>1, MGRootBoundaryKeeps, FASEquationKeeps DEF Keeps
<1>3. PICK y : y = Repeat(z, cfg.npre, SweepThenBoundary)
  OBVIOUS
<1>4. Keeps(x, y)
  BY <1>2, <1>3, SweepThenBoundaryKeeps DEF Repeat, Keeps
<1>5. RootToCoarser(x) = MarkRootDeviceModified(RestrictPack(y))
  BY <1>1, <1>3 DEF RootToCoarser
<1>6. QED BY <1>4, <1>5, RestrictPackMoves, MarkKeeps DEF Keeps, Moves

\* One step down on octets leaves the other grids at their levels
LEMMA OctetsToCoarserKeeps == ASSUME NEW x, Grid(x), NEW l PROVE Keeps(x, OctetsToCoarser(x, l))
<1>1. PICK y : y = SetBoundariesOctets(x, l, FALSE)
  OBVIOUS
<1>2. PICK z : z = IF BelowFinest(l) THEN CalculateFASRHSOctets(StoreOldDataOctets(y, l), l) ELSE y
  OBVIOUS
<1>3. Keeps(x, z)
  <2>1. Keeps(x, y)
    BY <1>1, SetBoundariesOctetsKeeps
  <2>2. Keeps(y, StoreOldDataOctets(y, l))
    BY <2>1, StoreOldDataOctetsKeeps DEF Keeps
  <2>3. Keeps(y, CalculateFASRHSOctets(StoreOldDataOctets(y, l), l))
    BY <2>2, CalculateFASRHSOctetsKeeps DEF Keeps
  <2>4. QED BY <1>2, <2>1, <2>3, KeepsTrans
<1>4. PICK w : w = Repeat(z, cfg.npre, LAMBDA u : SweepOctetsThenSet(SweepOctetsThenSet(u, l), l))
  OBVIOUS
<1>5. Keeps(x, w)
  BY <1>3, <1>4, SweepOctetsThenSetKeeps DEF Repeat, Keeps
<1>6. OctetsToCoarser(x, l) = RestrictOctets(w, l)
  BY <1>1, <1>2, <1>4 DEF OctetsToCoarser
<1>7. QED BY <1>5, <1>6, RestrictOctetsKeeps DEF Keeps

\* One step down on MeshBlocks is one level down there; from the first level with
\* several cells it goes on to the finest root level
LEMMA BlocksToCoarserMoves ==
  ASSUME NEW x, Grid(x), NEW l, Top \in Int
  PROVE  LET y == BlocksToCoarser(x, l)
         IN  /\ Grid(y) /\ y.blockLevel = x.blockLevel - 1
             /\ y.rootLevel = IF l = FirstBlock THEN Top ELSE x.rootLevel
<1>1. PICK y : y = IF BelowFinest(l)
                   THEN [x EXCEPT !.bold[x.blockLevel] = "now", !.bsrc[x.blockLevel] = Fas(@)] ELSE x
  OBVIOUS
<1>2. Keeps(x, y)
  <2>1. CASE BelowFinest(l)
    <3>1. PICK a, b : y = [x EXCEPT !.bold = a, !.bsrc = b]
      BY <1>1, <2>1
    <3>2. QED BY <3>1 DEF Keeps, Grid, Fields
  <2>2. CASE ~BelowFinest(l)
    BY <1>1, <2>2, KeepsSelf
  <2>3. QED BY <2>1, <2>2
<1>3. PICK z : z = [y EXCEPT !.bsrc[x.blockLevel - 1] = "defect", !.blockLevel = x.blockLevel - 1]
  OBVIOUS
<1>4. PICK v, a : v = [y EXCEPT !.bsrc = a] /\ z = [y EXCEPT !.bsrc = a, !.blockLevel = x.blockLevel - 1]
  BY <1>3
<1>5. Keeps(x, v)
  BY <1>2, <1>4 DEF Keeps, Grid, Fields
<1>6. z = [v EXCEPT !.blockLevel = x.blockLevel - 1]
  BY <1>2, <1>4 DEF Keeps, Grid, Fields
<1>7. x.blockLevel - 1 \in Int
  BY DEF Grid
<1>8. Grid(z) /\ z.blockLevel = x.blockLevel - 1 /\ z.rootLevel = x.rootLevel
  BY <1>5, <1>6, <1>7, BlockLevelSet DEF Keeps
<1>9. BlocksToCoarser(x, l) = IF l = FirstBlock THEN TransferFromBlocksToRoot(z, FALSE) ELSE z
  BY <1>1, <1>3 DEF BlocksToCoarser
<1>10. QED BY <1>8, <1>9, BlocksToRootMoves DEF Moves

\* One step up on the root grid is one level up there
LEMMA RootToFinerMoves == ASSUME NEW x, Grid(x) PROVE Moves(x, RootToFiner(x), x.rootLevel + 1)
<1>1. PICK y : y = MarkRootDeviceModified(Prolongate(MGRootBoundary(x), TRUE))
  OBVIOUS
<1>2. Moves(x, y, x.rootLevel + 1)
  <2>1. Keeps(x, MGRootBoundary(x))
    BY MGRootBoundaryKeeps
  <2>2. Moves(x, Prolongate(MGRootBoundary(x), TRUE), x.rootLevel + 1)
    BY <2>1, ProlongateMoves DEF Keeps, Moves
  <2>3. QED BY <1>1, <2>2, MarkKeeps DEF Keeps, Moves
<1>3. RootToFiner(x) = Repeat(y, cfg.npost, BoundaryThenSweep)
  BY <1>1 DEF RootToFiner
<1>4. QED BY <1>2, <1>3, BoundaryThenSweepKeeps DEF Repeat, Keeps, Moves

\* One step up on octets leaves the other grids at their levels
LEMMA OctetsToFinerKeeps == ASSUME NEW x, Grid(x), NEW l PROVE Keeps(x, OctetsToFiner(x, l))
<1>1. PICK y : y = IF l = Top THEN MGRootBoundary(x) ELSE SetBoundariesOctets(x, l, TRUE)
  OBVIOUS
<1>2. PICK z : z = ProlongateOctets(y, l, TRUE)
  OBVIOUS
<1>3. Keeps(x, z)
  <2>1. Keeps(x, y)
    BY <1>1, MGRootBoundaryKeeps, SetBoundariesOctetsKeeps
  <2>2. Keeps(y, z)
    BY <1>2, <2>1, ProlongateOctetsKeeps DEF Keeps
  <2>3. QED BY <2>1, <2>2, KeepsTrans
<1>4. OctetsToFiner(x, l) =
        Repeat(z, cfg.npost, LAMBDA u : SetThenSweepOctets(SetThenSweepOctets(u, l + 1), l + 1))
  BY <1>1, <1>2 DEF OctetsToFiner
<1>5. QED BY <1>3, <1>4, SetThenSweepOctetsKeeps DEF Repeat, Keeps

\* One step up on MeshBlocks is one level up there, from their coarsest after a transfer
LEMMA BlocksToFinerMoves ==
  ASSUME NEW x, Grid(x), NEW l
  PROVE  LET y == BlocksToFiner(x, l)
         IN  /\ Grid(y) /\ y.rootLevel = x.rootLevel
             /\ y.blockLevel = (IF l = FirstBlock - 1 THEN 0 ELSE x.blockLevel) + 1
<1>1. PICK y : y = IF l = FirstBlock - 1 THEN TransferFromRootToBlocks(MGRootBoundary(x), TRUE) ELSE x
  OBVIOUS
<1>2. /\ Grid(y) /\ y.rootLevel = x.rootLevel
      /\ y.blockLevel = IF l = FirstBlock - 1 THEN 0 ELSE x.blockLevel
  <2>1. Keeps(x, MGRootBoundary(x))
    BY MGRootBoundaryKeeps
  <2>2. ToBlocks(x, TransferFromRootToBlocks(MGRootBoundary(x), TRUE))
    BY <2>1, RootToBlocksToBlocks DEF Keeps, ToBlocks
  <2>3. QED BY <1>1, <2>2 DEF ToBlocks
<1>3. PICK e : BlocksToFiner(x, l) = [y EXCEPT !.blockLevel = @ + 1, !.exchanged = e]
  BY <1>1 DEF BlocksToFiner
<1>4. PICK z : z = [y EXCEPT !.exchanged = e]
  OBVIOUS
<1>5. Keeps(y, z)
  BY <1>2, <1>4 DEF Keeps, Grid, Fields
<1>6. BlocksToFiner(x, l) = [z EXCEPT !.blockLevel = y.blockLevel + 1]
  BY <1>2, <1>3, <1>4 DEF Grid, Fields
<1>7. y.blockLevel + 1 \in Int
  BY <1>2 DEF Grid
<1>8. Grid(BlocksToFiner(x, l)) /\ BlocksToFiner(x, l).rootLevel = y.rootLevel
      /\ BlocksToFiner(x, l).blockLevel = y.blockLevel + 1
  BY <1>5, <1>6, <1>7, BlockLevelSet DEF Keeps
<1>9. QED BY <1>2, <1>8

\* The prolongation of full multigrid moves levels as a step up does
LEMMA FMGProlongateMoves ==
  ASSUME NEW x, Grid(x), level \in Int, Top \in Int, FirstBlock \in Int
  PROVE  LET y == FMGProlongate(x)
         IN  /\ Grid(y)
             /\ level >= FirstBlock - 1 =>
                  /\ y.rootLevel = x.rootLevel
                  /\ y.blockLevel = (IF level = FirstBlock - 1 THEN 0 ELSE x.blockLevel) + 1
             /\ level < FirstBlock - 1 /\ level >= Top => Keeps(x, y)
             /\ level < FirstBlock - 1 /\ level < Top => Moves(x, y, x.rootLevel + 1)
<1>1. Keeps(x, MGRootBoundary(x))
  BY MGRootBoundaryKeeps
<1>2. CASE level >= FirstBlock - 1
  <2>1. PICK y : y = IF level = FirstBlock - 1 THEN TransferFromRootToBlocks(MGRootBoundary(x), FALSE) ELSE x
    OBVIOUS
  <2>2. /\ Grid(y) /\ y.rootLevel = x.rootLevel
        /\ y.blockLevel = IF level = FirstBlock - 1 THEN 0 ELSE x.blockLevel
    <3>1. ToBlocks(x, TransferFromRootToBlocks(MGRootBoundary(x), FALSE))
      BY <1>1, RootToBlocksToBlocks DEF Keeps, ToBlocks
    <3>2. QED BY <2>1, <3>1 DEF ToBlocks
  <2>3. FMGProlongate(x) = [y EXCEPT !.blockLevel = @ + 1, !.exchanged = "no"]
    BY <1>2, <2>1 DEF FMGProlongate
  <2>4. PICK z : z = [y EXCEPT !.exchanged = "no"]
    OBVIOUS
  <2>5. Keeps(y, z)
    BY <2>2, <2>4 DEF Keeps, Grid, Fields
  <2>6. FMGProlongate(x) = [z EXCEPT !.blockLevel = y.blockLevel + 1]
    BY <2>2, <2>3, <2>4 DEF Grid, Fields
  <2>7. y.blockLevel + 1 \in Int
    BY <2>2 DEF Grid
  <2>8. Grid(FMGProlongate(x)) /\ FMGProlongate(x).rootLevel = y.rootLevel
        /\ FMGProlongate(x).blockLevel = y.blockLevel + 1
    BY <2>5, <2>6, <2>7, BlockLevelSet DEF Keeps
  <2>9. QED BY <1>2, <2>2, <2>8
<1>3. CASE level < FirstBlock - 1 /\ level >= Top
  <2>1. PICK y : y = IF level = Top THEN MGRootBoundary(x) ELSE SetBoundariesOctets(x, level, TRUE)
    OBVIOUS
  <2>2. Keeps(x, y)
    BY <1>1, <2>1, SetBoundariesOctetsKeeps
  <2>3. FMGProlongate(x) = ProlongateOctets(y, level, FALSE)
    <3>1. ~(level >= FirstBlock - 1)
      BY <1>3
    <3>2. level >= Top
      BY <1>3
    <3>3. FMGProlongate(x) = ProlongateOctets(IF level = Top THEN MGRootBoundary(x)
                                              ELSE SetBoundariesOctets(x, level, TRUE), level, FALSE)
      BY <3>1, <3>2, Zenon DEF FMGProlongate
    <3>4. QED BY <3>3, <2>1
  <2>4. Keeps(x, FMGProlongate(x))
    <3>1. Keeps(y, ProlongateOctets(y, level, FALSE))
      BY <2>2, ProlongateOctetsKeeps DEF Keeps
    <3>2. Keeps(x, ProlongateOctets(y, level, FALSE))
      BY <2>2, <3>1, KeepsTrans
    <3>3. QED BY <3>2, <2>3
  <2>5. QED BY <1>3, <2>4 DEF Keeps
<1>4. CASE level < FirstBlock - 1 /\ level < Top
  <2>1. Moves(x, Prolongate(MGRootBoundary(x), FALSE), x.rootLevel + 1)
    BY <1>1, ProlongateMoves DEF Keeps, Moves
  <2>2. FMGProlongate(x) = MarkRootDeviceModified(Prolongate(MGRootBoundary(x), FALSE))
    <3>1. ~(level >= FirstBlock - 1)
      BY <1>4
    <3>2. ~(level >= Top)
      BY <1>4
    <3>3. QED BY <3>1, <3>2, Zenon DEF FMGProlongate
  <2>3. Moves(x, FMGProlongate(x), x.rootLevel + 1)
    BY <2>1, <2>2, MarkKeeps DEF Keeps, Moves
  <2>4. QED BY <1>4, <2>3 DEF Moves
<1>5. QED BY <1>2, <1>3, <1>4

\* The coarsest solve, with or without averages, moves no level
LEMMA SolveCoarsestGridKeeps == ASSUME NEW x, Grid(x) PROVE Keeps(x, SolveCoarsestGrid(x))
<1>1. Keeps(x, MGRootBoundary(x))
  BY MGRootBoundaryKeeps
<1>2. CASE cfg.average /\ cfg.single
  <2>1. Keeps(x, StoreOldData(MGRootBoundary(x)))
    BY <1>1, StoreOldDataKeeps DEF Keeps
  <2>2. Keeps(x, WriteRoot(StoreOldData(MGRootBoundary(x)), {"u"}, Everywhere))
    BY <2>1, WriteRootKeeps DEF Keeps
  <2>3. QED BY <1>2, <2>2, MarkKeeps DEF SolveCoarsestGrid, Keeps
<1>3. CASE ~(cfg.average /\ cfg.single)
  <2> DEFINE Average(y, f) ==
        IF cfg.average THEN MarkRootDeviceModified(SubtractAverage(y, f)) ELSE y
  <2>1. ASSUME NEW y, Keeps(x, y), NEW f PROVE Keeps(x, Average(y, f))
    <3>1. Keeps(x, SubtractAverage(y, f))
      BY <2>1, SubtractAverageKeeps DEF Keeps
    <3>2. Keeps(x, MarkRootDeviceModified(SubtractAverage(y, f)))
      BY <3>1, MarkKeeps DEF Keeps
    <3>3. QED BY <2>1, <3>2
  <2>2. PICK y : y = Average(Average(x, "src"), "u")
    OBVIOUS
  <2>3. Keeps(x, y)
    BY <2>1, <2>2, KeepsSelf
  <2>4. Keeps(x, MGRootBoundary(y))
    BY <2>3, MGRootBoundaryKeeps DEF Keeps
  <2>5. Keeps(x, FASEquation(MGRootBoundary(y)))
    BY <2>4, FASEquationKeeps DEF Keeps
  <2>6. PICK z : z = SweepThenBoundary(FASEquation(MGRootBoundary(y)))
    OBVIOUS
  <2>7. Keeps(x, z)
    BY <2>5, <2>6, SweepThenBoundaryKeeps DEF Keeps
  <2>8. SolveCoarsestGrid(x) = Average(z, "u")
    BY <1>3, <2>2, <2>6 DEF SolveCoarsestGrid
  <2>9. QED BY <2>1, <2>7, <2>8
<1>4. QED BY <1>2, <1>3

\* A change of the mesh moves no level
LEMMA PrepareForAMRKeeps ==
  ASSUME NEW x, Grid(x), NEW n, NEW changed PROVE Keeps(x, PrepareForAMR(x, n, changed))
<1>1. CASE changed
  <2>1. PICK a, b : PrepareForAMR(x, n, changed) =
                      [x EXCEPT !.flatStale = TRUE, !.exchanged = "guess", !.fresh = a, !.ghost = b]
    BY <1>1 DEF PrepareForAMR
  <2>2. QED BY <2>1 DEF Keeps, Grid, Fields
<1>2. QED BY <1>1, KeepsSelf DEF PrepareForAMR

\* Taking the defect norm moves no level
LEMMA MeasuredKeeps == ASSUME NEW x, Grid(x) PROVE Keeps(x, Measured(x))
<1>1. \A p, q : Keeps(x, Wrong(Wrong(x, "norm", p), "guess", q))
  BY WrongKeeps DEF Keeps
<1>2. QED BY <1>1, KeepsSelf DEF Measured
-----------------------------------------------------------------------------
\* the grids x stand where the driver is at level l
LevelsAt(x, l) ==
  /\ x.blockLevel = IF l >= FirstBlock THEN l - (FirstBlock - 1) ELSE 0
  /\ x.rootLevel = IF l < Top THEN l ELSE Top

\* If the grids stand at the level the driver counts, they do so after a step down
LEMMA OneStepToCoarserLevels ==
  ASSUME cfg \in Config, nref \in Nat, NEW x, Grid(x), level \in Nat \ {0}, LevelsAt(x, level)
  PROVE  Grid(OneStepToCoarser(x)) /\ LevelsAt(OneStepToCoarser(x), level - 1)
<1> USE TopInt
<1>1. CASE level >= FirstBlock
  <2>1. OneStepToCoarser(x) = BlocksToCoarser(x, level)
    BY <1>1 DEF OneStepToCoarser
  <2>2. PICK y : y = BlocksToCoarser(x, level)
    OBVIOUS
  <2>3. /\ Grid(y) /\ y.blockLevel = x.blockLevel - 1
        /\ y.rootLevel = IF level = FirstBlock THEN Top ELSE x.rootLevel
    BY <2>2, BlocksToCoarserMoves
  <2>4. LevelsAt(y, level - 1)
    BY <1>1, <2>3 DEF LevelsAt
  <2>5. QED BY <2>1, <2>2, <2>3, <2>4
<1>2. CASE level < FirstBlock /\ level > Top
  <2>1. PICK y : y = OneStepToCoarser(x)
    OBVIOUS
  <2>2. Keeps(x, y)
    BY <1>2, <2>1, OctetsToCoarserKeeps DEF OneStepToCoarser
  <2>3. LevelsAt(y, level - 1)
    BY <1>2, <2>2 DEF LevelsAt, Keeps
  <2>4. QED BY <2>1, <2>2, <2>3 DEF Keeps
<1>3. CASE level <= Top
  <2>1. PICK y : y = OneStepToCoarser(x)
    OBVIOUS
  <2>2. Moves(x, y, x.rootLevel - 1)
    BY <1>3, <2>1, RootToCoarserMoves DEF OneStepToCoarser
  <2>3. LevelsAt(y, level - 1)
    BY <1>3, <2>2 DEF LevelsAt, Moves
  <2>4. QED BY <2>1, <2>2, <2>3 DEF Moves
<1>4. QED BY <1>1, <1>2, <1>3

\* If the grids stand at the level the driver counts, they do so after a step up
LEMMA OneStepToFinerLevels ==
  ASSUME cfg \in Config, nref \in Nat, NEW x, Grid(x), level \in Nat, LevelsAt(x, level)
  PROVE  Grid(OneStepToFiner(x)) /\ LevelsAt(OneStepToFiner(x), level + 1)
<1> USE TopInt
<1>1. CASE level >= FirstBlock - 1
  <2>1. OneStepToFiner(x) = BlocksToFiner(x, level)
    BY <1>1 DEF OneStepToFiner
  <2>2. PICK y : y = BlocksToFiner(x, level)
    OBVIOUS
  <2>3. /\ Grid(y) /\ y.rootLevel = x.rootLevel
        /\ y.blockLevel = (IF level = FirstBlock - 1 THEN 0 ELSE x.blockLevel) + 1
    BY <2>2, BlocksToFinerMoves
  <2>4. LevelsAt(y, level + 1)
    BY <1>1, <2>3 DEF LevelsAt
  <2>5. QED BY <2>1, <2>2, <2>3, <2>4
<1>2. CASE level < FirstBlock - 1 /\ level >= Top
  <2>1. PICK y : y = OneStepToFiner(x)
    OBVIOUS
  <2>2. Keeps(x, y)
    BY <1>2, <2>1, OctetsToFinerKeeps DEF OneStepToFiner
  <2>3. LevelsAt(y, level + 1)
    BY <1>2, <2>2 DEF LevelsAt, Keeps
  <2>4. QED BY <2>1, <2>2, <2>3 DEF Keeps
<1>3. CASE level < Top
  <2>1. PICK y : y = OneStepToFiner(x)
    OBVIOUS
  <2>2. Moves(x, y, x.rootLevel + 1)
    BY <1>3, <2>1, RootToFinerMoves DEF OneStepToFiner
  <2>3. x.rootLevel = level /\ x.blockLevel = 0 /\ level + 1 < FirstBlock /\ level + 1 <= Top
    BY <1>3 DEF LevelsAt
  <2>4. y.rootLevel = level + 1 /\ y.blockLevel = 0
    BY <2>2, <2>3 DEF Moves
  <2>5. LevelsAt(y, level + 1)
    <3>1. ~(level + 1 >= FirstBlock)
      BY <2>3
    <3>2. level + 1 = IF level + 1 < Top THEN level + 1 ELSE Top
      <4>1. Top \in Nat
        BY TopInt
      <4>2. CASE level + 1 < Top
        BY <4>2
      <4>3. CASE ~(level + 1 < Top)
        BY <2>3, <4>1, <4>3
      <4>4. QED BY <4>2, <4>3
    <3>3. QED BY <2>4, <3>1, <3>2 DEF LevelsAt
  <2>6. QED BY <2>1, <2>2, <2>5 DEF Moves
<1>4. QED BY <1>1, <1>2, <1>3

\* The same of the prolongation of full multigrid
LEMMA FMGProlongateLevels ==
  ASSUME cfg \in Config, nref \in Nat, NEW x, Grid(x), level \in Nat, LevelsAt(x, level)
  PROVE  Grid(FMGProlongate(x)) /\ LevelsAt(FMGProlongate(x), level + 1)
<1> USE TopInt
<1>1. PICK y : y = FMGProlongate(x)
  OBVIOUS
<1>2. /\ Grid(y)
      /\ level >= FirstBlock - 1 =>
           /\ y.rootLevel = x.rootLevel
           /\ y.blockLevel = (IF level = FirstBlock - 1 THEN 0 ELSE x.blockLevel) + 1
      /\ level < FirstBlock - 1 /\ level >= Top => Keeps(x, y)
      /\ level < FirstBlock - 1 /\ level < Top => Moves(x, y, x.rootLevel + 1)
  BY <1>1, FMGProlongateMoves
<1>3. LevelsAt(y, level + 1)
  BY <1>2 DEF LevelsAt, Keeps, Moves
<1>4. QED BY <1>1, <1>2, <1>3

-----------------------------------------------------------------------------
(* The inductive invariant *)
Phases == {"idle", "coarser", "fmg", "fmgcycle", "fmgdown", "fmgup", "iterate", "down", "up"}

Types ==
  /\ cfg \in Config /\ nref \in 0..MaxRef
  /\ phase \in Phases
  /\ level \in Nat /\ start \in Nat
  /\ Grid(g)

\* where a V-cycle begins and ends
Within ==
  /\ InSolve => level <= NTotal - 1
  /\ phase = "coarser" => level >= FirstBlock \/ level <= Top
  /\ phase = "iterate" => level = NTotal - 1
  /\ phase \in {"down", "up"} => start = NTotal - 1
  /\ phase \in {"fmgdown", "fmgup", "down", "up"} => level <= start /\ start <= NTotal - 1

\* between solves
RootAtTop == phase = "idle" => g.rootLevel = Top

IInv == Types /\ Within /\ RootAtTop /\ LevelsAgree

\* As constructed, the root grid is at its finest level
LEMMA InitIInv == Init => IInv
<1> SUFFICES ASSUME Init PROVE IInv
  OBVIOUS
<1>1. /\ cfg \in Config /\ nref \in 0..MaxRef /\ phase = "idle" /\ level = 0 /\ start = 0
      /\ g = Grids0(cfg)
  BY DEF Init
<1>2. Grid(g) /\ g.rootLevel = Top
  <2>1. cfg.nroot \in Nat
    BY <1>1, MultigridAssumption
  <2>2. cfg.nroot - 1 \in Int /\ NBlk - 1 \in Int
    BY <2>1, MultigridAssumption
  <2>3. g.rootLevel = cfg.nroot - 1 /\ g.blockLevel = NBlk - 1
    BY <1>1 DEF Grids0
  <2>4. g = [f \in Fields |-> g[f]]
    BY <1>1, <2>3 DEF Grids0, Fields
  <2>5. QED BY <2>2, <2>3, <2>4 DEF Grid, Top, NRoot
<1>3. QED BY <1>1, <1>2 DEF IInv, Types, Phases, Within, RootAtTop, LevelsAgree, InSolve

\* Within a solve the numbers of levels do not change
LEMMA SameMesh ==
  ASSUME cfg' = cfg, nref' = nref
  PROVE  Top' = Top /\ FirstBlock' = FirstBlock /\ NTotal' = NTotal /\ NRoot' = NRoot
BY DEF Top, FirstBlock, NTotal, NRoot

\* Grids at the level of the next state agree with it
LEMMA LevelsAgreeNext ==
  ASSUME cfg' = cfg, nref' = nref, NEW x, NEW l, g' = x, level' = l, LevelsAt(x, l)
  PROVE  LevelsAgree'
BY SameMesh DEF LevelsAt, LevelsAgree, InSolve

\* A solve begins at the finest level, of a mesh that may have changed
LEMMA SolveKeeps == ASSUME IInv, Solve PROVE IInv'
<1>1. PICK n \in 0..MaxRef, changed \in BOOLEAN :
        /\ n # nref => changed
        /\ nref' = n
        /\ \E v : /\ v = [PrepareForAMR(g, n, changed) EXCEPT
                             !.blockLevel = NBlk - 1, !.bsrc[NBlk - 1] = "source"]
                  /\ g' = IF cfg.fmg THEN v ELSE Measured(v)
        /\ level' = NRoot + NBlk + n - 2
  BY DEF Solve
<1>2. /\ cfg \in Config /\ cfg' = cfg /\ phase = "idle" /\ phase' \in {"coarser", "iterate"}
      /\ start' = start /\ start \in Nat /\ Grid(g) /\ g.rootLevel = Top
  BY DEF Solve, IInv, Types, RootAtTop
<1>3. PICK x : x = PrepareForAMR(g, n, changed)
  OBVIOUS
<1>4. Keeps(g, x)
  BY <1>2, <1>3, PrepareForAMRKeeps
<1>5. PICK a, v : /\ v = [x EXCEPT !.blockLevel = NBlk - 1, !.bsrc = a]
                 /\ g' = IF cfg.fmg THEN v ELSE Measured(v)
  BY <1>1, <1>3
<1>6. PICK y : y = [x EXCEPT !.bsrc = a]
  OBVIOUS
<1>7. Keeps(g, y)
  BY <1>4, <1>6 DEF Keeps, Grid, Fields
<1>8. v = [y EXCEPT !.blockLevel = NBlk - 1]
  BY <1>4, <1>5, <1>6 DEF Keeps, Grid, Fields
<1>9. NBlk \in Nat \ 0..2 /\ NBlk - 1 \in Int
  BY MultigridAssumption
<1>10. Grid(g') /\ g'.rootLevel = Top /\ g'.blockLevel = NBlk - 1
  <2>1. Grid(v) /\ v.rootLevel = Top /\ v.blockLevel = NBlk - 1
    BY <1>2, <1>7, <1>8, <1>9, BlockLevelSet DEF Keeps
  <2>2. Keeps(v, g')
    BY <1>5, <2>1, KeepsSelf, MeasuredKeeps
  <2>3. QED BY <2>1, <2>2 DEF Keeps
<1>11. NRoot \in Nat \ {0} /\ nref' \in Nat /\ MaxRef \in Nat /\ NRoot' = NRoot /\ Top' = Top /\ Top = NRoot - 1
  BY <1>1, <1>2, MultigridAssumption DEF NRoot, Top
<1>12. FirstBlock' = NRoot + n /\ NTotal' = NRoot + NBlk + n - 1
  BY <1>1, <1>11 DEF FirstBlock, NTotal
<1>13. level' \in Nat /\ level' = NTotal' - 1 /\ level' >= FirstBlock' /\ ~(level' < Top')
       /\ level' - (FirstBlock' - 1) = NBlk - 1
  BY <1>1, <1>9, <1>11, <1>12
<1>14. Types'
  BY <1>1, <1>2, <1>10, <1>13 DEF Types, Phases, Grid
<1>15. Within' /\ RootAtTop'
  BY <1>2, <1>13 DEF Within, RootAtTop
<1>16. LevelsAgree'
  BY <1>10, <1>11, <1>13 DEF LevelsAgree
<1>17. QED BY <1>14, <1>15, <1>16 DEF IInv

\* What the actions within a solve start from
LEMMA Here ==
  ASSUME IInv, InSolve
  PROVE  /\ cfg \in Config /\ nref \in Nat /\ level \in Nat /\ start \in Nat
         /\ Grid(g) /\ LevelsAt(g, level) /\ level <= NTotal - 1
         /\ NTotal \in Int /\ Top \in Nat /\ FirstBlock \in Nat /\ Top <= FirstBlock - 1
         /\ FirstBlock < NTotal - 1
<1>1. /\ cfg \in Config /\ nref \in Nat /\ level \in Nat /\ start \in Nat
      /\ Grid(g) /\ LevelsAt(g, level) /\ level <= NTotal - 1
  BY MultigridAssumption DEF IInv, Types, Within, LevelsAgree, LevelsAt
<1>2. /\ NRoot \in Nat \ {0} /\ NBlk \in Nat \ 0..2
  BY <1>1, MultigridAssumption DEF NRoot
<1>3. QED BY <1>1, <1>2 DEF Top, FirstBlock, NTotal

\* Types in the next state, from what an action gives its variables
LEMMA TypesNext ==
  ASSUME Types, cfg' = cfg, nref' = nref, phase' \in Phases, level' \in Nat, start' \in Nat, Grid(g')
  PROVE  Types'
BY DEF Types, Grid

\* On the way down with the source no step ends on octets
LEMMA SolveFMGCoarserKeeps == ASSUME IInv, SolveFMGCoarser PROVE IInv'
<1>1. /\ phase = "coarser" /\ cfg' = cfg /\ nref' = nref /\ start' = start
      /\ phase' \in {"coarser", "fmg"} /\ InSolve
  BY DEF SolveFMGCoarser, InSolve
<1>2. /\ cfg \in Config /\ nref \in Nat /\ level \in Nat /\ start \in Nat
      /\ Grid(g) /\ LevelsAt(g, level) /\ level <= NTotal - 1
      /\ NTotal \in Int /\ Top \in Nat /\ FirstBlock \in Nat /\ Top <= FirstBlock - 1
      /\ FirstBlock < NTotal - 1
  BY <1>1, Here
<1>3. /\ Grid(g') /\ level' \in Nat /\ LevelsAt(g', level') /\ level' <= level
      /\ level' >= FirstBlock \/ level' <= Top
  <2>1. CASE level >= FirstBlock
    <3>1. PICK y : y = [g EXCEPT !.bsrc[g.blockLevel - 1] = "source", !.blockLevel = @ - 1]
      OBVIOUS
    <3>2. Grid(y) /\ y.rootLevel = g.rootLevel /\ y.blockLevel = g.blockLevel - 1
      <4>1. PICK a, v : v = [g EXCEPT !.bsrc = a] /\ y = [g EXCEPT !.bsrc = a, !.blockLevel = g.blockLevel - 1]
        BY <3>1, <1>2 DEF Grid, Fields
      <4>2. Keeps(g, v)
        BY <1>2, <4>1 DEF Keeps, Grid, Fields
      <4>3. y = [v EXCEPT !.blockLevel = g.blockLevel - 1]
        BY <1>2, <4>1 DEF Grid, Fields
      <4>4. g.blockLevel - 1 \in Int
        BY <1>2 DEF Grid
      <4>5. QED BY <4>2, <4>3, <4>4, BlockLevelSet DEF Keeps
    <3>3. CASE level > FirstBlock
      <4>1. g' = y /\ level' = level - 1
        <5>1. level # FirstBlock
          BY <1>2, <3>3
        <5>2. QED BY <2>1, <3>1, <3>3, <5>1, Zenon DEF SolveFMGCoarser
      <4>2. g.blockLevel = level - (FirstBlock - 1) /\ g.rootLevel = Top
        BY <1>2, <2>1 DEF LevelsAt
      <4>3. level - 1 >= FirstBlock /\ ~(level - 1 < Top) /\ level - 1 \in Nat
        BY <1>2, <3>3
      <4>4. y.blockLevel = (level - 1) - (FirstBlock - 1) /\ y.rootLevel = Top
        BY <1>2, <3>2, <4>2
      <4>5. LevelsAt(y, level - 1)
        BY <4>3, <4>4 DEF LevelsAt
      <4>6. QED BY <1>2, <3>2, <4>1, <4>3, <4>5
    <3>4. CASE level = FirstBlock
      <4>1. PICK z : z = TransferFromBlocksToRoot(y, TRUE)
        OBVIOUS
      <4>2. Moves(y, z, Top)
        <5>1. Top \in Int
          BY <1>2
        <5>2. QED BY <3>2, <4>1, <5>1, BlocksToRootMoves
      <4>3. g' = (IF nref > 0 THEN RestrictFMGSourceOctets(z) ELSE z) /\ level' = Top
        <5>1. ~(level > FirstBlock)
          BY <1>2, <3>4
        <5>2. QED BY <2>1, <3>1, <3>4, <4>1, <5>1, Zenon DEF SolveFMGCoarser
      <4>4. Keeps(z, g')
        BY <4>2, <4>3, RestrictFMGSourceOctetsKeeps, KeepsSelf DEF Moves
      <4>5. g.blockLevel = 1
        BY <1>2, <3>4 DEF LevelsAt
      <4>6. g'.blockLevel = 0 /\ g'.rootLevel = Top
        BY <3>2, <4>2, <4>4, <4>5 DEF Moves, Keeps
      <4>7. LevelsAt(g', Top)
        BY <1>2, <4>6 DEF LevelsAt
      <4>8. QED BY <1>2, <3>4, <4>3, <4>4, <4>7 DEF Keeps
    <3>5. QED BY <1>2, <2>1, <3>3, <3>4
  <2>2. CASE ~(level >= FirstBlock)
    <3>1. /\ level > 0 /\ level' = level - 1
          /\ g' = MarkRootDeviceModified(RestrictSourcePack(g))
      BY <2>2 DEF SolveFMGCoarser
    <3>2. Moves(g, RestrictSourcePack(g), g.rootLevel - 1)
      BY <1>2, RestrictSourcePackMoves
    <3>3. Moves(g, g', g.rootLevel - 1)
      BY <3>1, <3>2, MarkKeeps DEF Moves, Keeps
    <3>4. level <= Top /\ g.rootLevel = level /\ g.blockLevel = 0
      BY <1>1, <1>2, <2>2 DEF IInv, Within, LevelsAt
    <3>5. g'.rootLevel = level - 1 /\ g'.blockLevel = 0 /\ Grid(g')
      BY <3>3, <3>4 DEF Moves
    <3>6. level - 1 < Top /\ ~(level - 1 >= FirstBlock) /\ level - 1 \in Nat
      BY <1>2, <3>1, <3>4
    <3>7. LevelsAt(g', level')
      BY <3>1, <3>5, <3>6 DEF LevelsAt
    <3>8. QED BY <1>2, <3>1, <3>5, <3>6, <3>7
  <2>3. QED BY <2>1, <2>2
<1>4. Types'
  BY <1>1, <1>2, <1>3, TypesNext DEF IInv, Phases
<1>5. Within' /\ RootAtTop'
  BY <1>1, <1>2, <1>3, SameMesh DEF Within, RootAtTop, InSolve
<1>6. LevelsAgree'
  BY <1>1, <1>3, LevelsAgreeNext
<1>7. QED BY <1>4, <1>5, <1>6 DEF IInv

\* Full multigrid goes one level up, or on to the iteration at the finest
LEMMA FMGKeeps == ASSUME IInv, FMG PROVE IInv'
<1>1. phase = "fmg" /\ cfg' = cfg /\ nref' = nref /\ start' = start /\ InSolve
  BY DEF FMG, InSolve
<1>2. /\ cfg \in Config /\ nref \in Nat /\ level \in Nat /\ start \in Nat
      /\ Grid(g) /\ LevelsAt(g, level) /\ level <= NTotal - 1 /\ NTotal \in Int
  BY <1>1, Here
<1>3. /\ Grid(g') /\ level' \in Nat /\ LevelsAt(g', level') /\ level' <= NTotal - 1
      /\ phase' \in {"fmgcycle", "iterate"} /\ (phase' = "iterate" => level' = NTotal - 1)
  <2>1. CASE level < NTotal - 1
    <3>1. g' = FMGProlongate(g) /\ level' = level + 1 /\ phase' = "fmgcycle"
      BY <2>1 DEF FMG
    <3>2. Grid(FMGProlongate(g)) /\ LevelsAt(FMGProlongate(g), level + 1)
      BY <1>2, FMGProlongateLevels
    <3>3. level + 1 \in Nat /\ level + 1 <= NTotal - 1
      BY <1>2, <2>1
    <3>4. QED BY <3>1, <3>2, <3>3
  <2>2. CASE ~(level < NTotal - 1)
    <3>1. Keeps(g, g') /\ level' = level /\ phase' = "iterate"
      BY <1>2, <2>2, MeasuredKeeps DEF FMG
    <3>2. level = NTotal - 1
      BY <1>2, <2>2
    <3>3. QED BY <1>2, <3>1, <3>2 DEF Keeps, LevelsAt
  <2>3. QED BY <2>1, <2>2
<1>4. Types'
  BY <1>1, <1>2, <1>3, TypesNext DEF IInv, Phases
<1>5. Within' /\ RootAtTop'
  BY <1>1, <1>2, <1>3, SameMesh DEF Within, RootAtTop, InSolve
<1>6. LevelsAgree'
  BY <1>1, <1>3, LevelsAgreeNext
<1>7. QED BY <1>4, <1>5, <1>6 DEF IInv

\* A V-cycle begins where the driver stands
LEMMA VCycleKeeps == ASSUME IInv, VCycle PROVE IInv'
<1>1. /\ phase \in {"fmgcycle", "iterate"} /\ cfg' = cfg /\ nref' = nref /\ start' = level
      /\ level' = level /\ phase' = (IF phase = "iterate" THEN "down" ELSE "fmgdown") /\ InSolve
  BY DEF VCycle, InSolve
<1>2. /\ cfg \in Config /\ nref \in Nat /\ level \in Nat /\ start \in Nat
      /\ Grid(g) /\ LevelsAt(g, level) /\ level <= NTotal - 1 /\ NTotal \in Int
  BY <1>1, Here
<1>3. Keeps(g, g')
  <2>1. PICK a, b : g' = [g EXCEPT !.old = a, !.bold = b]
    BY DEF VCycle
  <2>2. QED BY <1>2, <2>1 DEF Keeps, Grid, Fields
<1>4. Grid(g') /\ LevelsAt(g', level)
  BY <1>2, <1>3 DEF Keeps, LevelsAt
<1>5. Types'
  BY <1>1, <1>2, <1>4, TypesNext DEF IInv, Phases
<1>6. Within' /\ RootAtTop'
  <2>1. phase = "iterate" => level = NTotal - 1
    BY DEF IInv, Within
  <2>2. QED BY <1>1, <1>2, <2>1, SameMesh DEF Within, RootAtTop, InSolve
<1>7. LevelsAgree'
  BY <1>1, <1>4, LevelsAgreeNext
<1>8. QED BY <1>5, <1>6, <1>7 DEF IInv

\* A step down, or the coarsest solve
LEMMA DownKeeps == ASSUME IInv, Down PROVE IInv'
<1>1. /\ phase \in {"down", "fmgdown"} /\ cfg' = cfg /\ nref' = nref /\ start' = start /\ InSolve
  BY DEF Down, InSolve
<1>2. /\ cfg \in Config /\ nref \in Nat /\ level \in Nat /\ start \in Nat
      /\ Grid(g) /\ LevelsAt(g, level) /\ level <= NTotal - 1 /\ NTotal \in Int
  BY <1>1, Here
<1>3. /\ Grid(g') /\ level' \in Nat /\ LevelsAt(g', level') /\ level' <= level
      /\ phase' = phase \/ phase' = (IF phase = "down" THEN "up" ELSE "fmgup")
  <2>1. CASE level > 0
    <3>1. g' = OneStepToCoarser(g) /\ level' = level - 1 /\ phase' = phase
      BY <2>1 DEF Down
    <3>2. level \in Nat \ {0} /\ level - 1 \in Nat /\ level - 1 <= level
      BY <1>2, <2>1
    <3>3. Grid(OneStepToCoarser(g)) /\ LevelsAt(OneStepToCoarser(g), level - 1)
      BY <1>2, <3>2, OneStepToCoarserLevels
    <3>4. QED BY <3>1, <3>2, <3>3
  <2>2. CASE ~(level > 0)
    <3>1. g' = SolveCoarsestGrid(g) /\ level' = level /\ phase' = IF phase = "down" THEN "up" ELSE "fmgup"
      BY <2>2 DEF Down
    <3>2. Keeps(g, g')
      BY <1>2, <3>1, SolveCoarsestGridKeeps
    <3>3. QED BY <1>2, <3>1, <3>2 DEF Keeps, LevelsAt
  <2>3. QED BY <2>1, <2>2
<1>4. Types'
  BY <1>1, <1>2, <1>3, TypesNext DEF IInv, Phases
<1>5. Within' /\ RootAtTop'
  <2>1. /\ level <= start /\ start <= NTotal - 1
        /\ phase = "down" => start = NTotal - 1
    BY <1>1 DEF IInv, Within
  <2>2. QED BY <1>1, <1>2, <1>3, <2>1, SameMesh DEF Within, RootAtTop, InSolve
<1>6. LevelsAgree'
  BY <1>1, <1>3, LevelsAgreeNext
<1>7. QED BY <1>4, <1>5, <1>6 DEF IInv

\* A step up, or the end of the cycle at the level where it began
LEMMA UpKeeps == ASSUME IInv, Up PROVE IInv'
<1>1. /\ phase \in {"up", "fmgup"} /\ cfg' = cfg /\ nref' = nref /\ start' = start /\ InSolve
  BY DEF Up, InSolve
<1>2. /\ cfg \in Config /\ nref \in Nat /\ level \in Nat /\ start \in Nat
      /\ Grid(g) /\ LevelsAt(g, level) /\ level <= NTotal - 1 /\ NTotal \in Int
  BY <1>1, Here
<1>3. /\ level <= start /\ start <= NTotal - 1 /\ (phase = "up" => start = NTotal - 1)
  BY <1>1 DEF IInv, Within
<1>4. /\ Grid(g') /\ level' \in Nat /\ LevelsAt(g', level') /\ level' <= start
      /\ \/ phase' = phase
         \/ phase' \in {"fmgcycle", "fmg"}
         \/ phase' = "iterate" /\ level' = NTotal - 1
  <2>1. CASE level < start
    <3>1. g' = OneStepToFiner(g) /\ level' = level + 1 /\ phase' = phase
      BY <2>1 DEF Up
    <3>2. level + 1 \in Nat /\ level + 1 <= start
      BY <1>2, <2>1
    <3>3. Grid(OneStepToFiner(g)) /\ LevelsAt(OneStepToFiner(g), level + 1)
      BY <1>2, OneStepToFinerLevels
    <3>4. QED BY <3>1, <3>2, <3>3
  <2>2. CASE ~(level < start)
    <3>1. /\ g' = (IF phase = "up" THEN Measured(g) ELSE g) /\ level' = level
          /\ phase' = CASE phase = "up" -> "iterate"
                         [] count < cfg.cycles -> "fmgcycle"
                         [] OTHER -> "fmg"
      BY <2>2 DEF Up
    <3>2. phase' \in {"fmgcycle", "fmg"} \/ (phase' = "iterate" /\ phase = "up")
      BY <1>1, <3>1
    <3>3. level = start
      BY <1>2, <1>3, <2>2
    <3>4. Keeps(g, g')
      BY <1>2, <3>1, KeepsSelf, MeasuredKeeps
    <3>5. Grid(g') /\ LevelsAt(g', level')
      BY <1>2, <3>1, <3>4 DEF Keeps, LevelsAt
    <3>6. QED BY <1>2, <1>3, <3>1, <3>2, <3>3, <3>5
  <2>3. QED BY <2>1, <2>2
<1>5. Types'
  BY <1>1, <1>2, <1>4, TypesNext DEF IInv, Phases
<1>6. Within' /\ RootAtTop'
  BY <1>1, <1>2, <1>3, <1>4, SameMesh DEF Within, RootAtTop, InSolve
<1>7. LevelsAgree'
  BY <1>1, <1>4, LevelsAgreeNext
<1>8. QED BY <1>5, <1>6, <1>7 DEF IInv

\* The solver ends at the finest level, the root grid at its own
LEMMA FinishKeeps == ASSUME IInv, Finish PROVE IInv'
<1>1. /\ phase = "iterate" /\ phase' = "idle" /\ cfg' = cfg /\ nref' = nref /\ start' = 0
      /\ level' = 0 /\ InSolve
  BY DEF Finish, InSolve
<1>2. /\ Grid(g) /\ LevelsAt(g, level) /\ Top \in Nat /\ FirstBlock \in Nat
      /\ Top <= FirstBlock - 1 /\ FirstBlock < NTotal - 1 /\ NTotal \in Int /\ level = NTotal - 1
  BY <1>1, Here DEF IInv, Within
<1>3. Keeps(g, g')
  BY <1>2, KeepsSelf DEF Finish
<1>4. ~(level < Top)
  BY <1>2
<1>5. g'.rootLevel = Top
  BY <1>2, <1>3, <1>4 DEF LevelsAt, Keeps
<1>6. Types'
  BY <1>1, <1>3, TypesNext DEF IInv, Phases, Keeps
<1>7. QED BY <1>1, <1>5, <1>6, SameMesh DEF IInv, Within, RootAtTop, LevelsAgree, InSolve

\* Every operation of the solver keeps the inductive invariant
THEOREM Invariance == Spec => []IInv
<1>1. IInv /\ [Next]_vars => IInv'
  <2> SUFFICES ASSUME IInv, [Next]_vars PROVE IInv'
    OBVIOUS
  <2>1. CASE Solve           BY <2>1, SolveKeeps
  <2>2. CASE SolveFMGCoarser BY <2>2, SolveFMGCoarserKeeps
  <2>3. CASE FMG             BY <2>3, FMGKeeps
  <2>4. CASE VCycle          BY <2>4, VCycleKeeps
  <2>5. CASE Down            BY <2>5, DownKeeps
  <2>6. CASE Up              BY <2>6, UpKeeps
  <2>7. CASE Finish          BY <2>7, FinishKeeps
  <2>8. CASE UNCHANGED vars
    <3>1. /\ cfg' = cfg /\ nref' = nref /\ phase' = phase /\ level' = level /\ start' = start /\ g' = g
      BY <2>8 DEF vars
    <3>2. QED BY <3>1, SameMesh DEF IInv, Types, Within, RootAtTop, LevelsAgree, InSolve, Grid
  <2>9. QED BY <2>1, <2>2, <2>3, <2>4, <2>5, <2>6, <2>7, <2>8 DEF Next
<1>2. QED BY <1>1, InitIInv, PTL DEF Spec

\* The level counted by the driver (current_level_ of MultigridDriver) is the level
\* every grid stands at, whatever cycles have been made on whatever meshes
THEOREM LevelsStayTogether == Spec => []LevelsAgree
<1>1. IInv => LevelsAgree
  BY DEF IInv
<1>2. QED BY <1>1, Invariance, PTL

-----------------------------------------------------------------------------
(* What the grids hold *)
Kinds == {"none", "source", "defect", "fas", "wrong"}
Kept  == {"u", "uold", "src"}

Arrays(x) ==
  /\ x.src \in [Hierarchy(cfg) -> [leaf : Kinds, covered : Kinds]]
  /\ x.old \in [Hierarchy(cfg) -> {"before", "now"}]
  /\ x.ghost \in [Hierarchy(cfg) -> {"old", "same", "leaf", "all"}]
  /\ x.bsrc \in [0..(NBlk - 1) -> Kinds]
  /\ x.bold \in [0..(NBlk - 1) -> {"before", "now"}]
  /\ x.exchanged \in {"yes", "no", "guess"} /\ x.flatStale \in BOOLEAN
  /\ x.sync \in {"synced", "device", "host"}
  /\ cfg.onHost => x.sync # "device"

\* grids of which every read so far was of current data
Sound(x) == Grid(x) /\ Arrays(x) /\ x.bad \cap {"copy", "ghost", "norm"} = {}

\* these cells of these fields are current in a copy of the finest root level
Has(x, copy, fields, cells) == \A f \in fields, c \in cells : <<copy, f, c>> \in x.fresh
Whole(x, copy) == Has(x, copy, Kept, Everywhere)

\* buffers that are not stale have what octets read of them
FlatOk(x) == ~x.flatStale => Has(x, "flat", {"u", "uold"}, {"leaf"})

\* the root grid can be worked on; it, and the octets above it, can be read on the host
OnRoot(x) == Sound(x) /\ Whole(x, Home) /\ x.flatStale
OnHost(x) == /\ Sound(x) /\ Whole(x, "host") /\ x.sync # "device"
             /\ Has(x, Home, {"uold"}, Everywhere) /\ FlatOk(x)

\* what operations that only move copies or set ghost zones leave alone
Same(x, y) == /\ y.rootLevel = x.rootLevel /\ y.blockLevel = x.blockLevel
              /\ y.src = x.src /\ y.old = x.old /\ y.bsrc = x.bsrc /\ y.bold = x.bold
              /\ y.exchanged = x.exchanged
SameGhosts(x, y) == Same(x, y) /\ y.ghost = x.ghost

-----------------------------------------------------------------------------
\* Leaving data alone composes
LEMMA SameTrans == ASSUME NEW x, NEW y, NEW z, Same(x, y), Same(y, z) PROVE Same(x, z)
BY DEF Same

\* A read that is right is not recorded
LEMMA RightRead == ASSUME NEW x, NEW k PROVE Wrong(x, k, TRUE) = x
BY DEF Wrong

\* The reads that ReadsCurrentData names as exceptions are recorded, no more
LEMMA RecordedOnly ==
  ASSUME NEW x, Sound(x), NEW k \in {"image", "guess"}, NEW ok
  PROVE  LET y == Wrong(x, k, ok)
         IN  /\ Sound(y) /\ SameGhosts(x, y) /\ y.sync = x.sync /\ y.flatStale = x.flatStale
             /\ y.fresh = x.fresh
<1>1. CASE ok
  BY <1>1 DEF Wrong, SameGhosts, Same
<1>2. CASE ~ok
  <2>1. PICK y : y = [x EXCEPT !.bad = @ \cup {k}]
    OBVIOUS
  <2>2. /\ Grid(y) /\ SameGhosts(x, y) /\ y.sync = x.sync /\ y.flatStale = x.flatStale
        /\ y.fresh = x.fresh /\ y.bad = x.bad \cup {k}
    BY <2>1 DEF Sound, Grid, Fields, SameGhosts, Same
  <2>3. y.bad \cap {"copy", "ghost", "norm"} = {}
    BY <2>2 DEF Sound
  <2>4. Sound(y)
    BY <2>2, <2>3 DEF Sound, Arrays, SameGhosts, Same
  <2>5. Wrong(x, k, ok) = y
    BY <1>2, <2>1 DEF Wrong
  <2>6. QED BY <2>2, <2>4, <2>5
<1>3. QED BY <1>1, <1>2

\* Reading cells that are current changes nothing
LEMMA ReadCurrent ==
  ASSUME NEW x, NEW c, NEW F, NEW C, Has(x, c, F, C)
  PROVE  ReadCopy(x, c, F, C) = x
<1>1. {c} \X F \X C \subseteq x.fresh
  <2>1. SUFFICES ASSUME NEW t \in {c} \X F \X C PROVE t \in x.fresh
    OBVIOUS
  <2>2. PICK f \in F, d \in C : t = <<c, f, d>>
    BY <2>1
  <2>3. QED BY <2>2 DEF Has
<1>2. QED BY <1>1, RightRead DEF ReadCopy

\* the cells of the root grid
LEMMA Cells == Interior \subseteq Everywhere /\ {"leaf"} \subseteq Everywhere /\ {"ghost"} \subseteq Everywhere
               /\ LeafCells \subseteq Interior /\ Home \in {"dev", "host"}
BY DEF Interior, Everywhere, LeafCells, Home

\* A copy that is current everywhere can be read anywhere
LEMMA ReadWhole ==
  ASSUME NEW x, NEW c, NEW F, NEW C, Whole(x, c), F \subseteq Kept, C \subseteq Everywhere
  PROVE  ReadCopy(x, c, F, C) = x
BY ReadCurrent DEF Whole, Has

\* The kernels of the root grid read the copy they work on
LEMMA ReadRootWhole ==
  ASSUME NEW x, NEW F, NEW C, Whole(x, Home), F \subseteq Kept, C \subseteq Everywhere
  PROVE  ReadRoot(x, F, C) = x
BY ReadWhole DEF ReadRoot

\* Only the copies change: what is written is current, in the other copies the rest
LEMMA WriteCurrent ==
  ASSUME NEW x, Sound(x), NEW c \in Copies, NEW F, NEW C
  PROVE  LET y == WriteCopy(x, c, F, C)
         IN  /\ Sound(y) /\ SameGhosts(x, y) /\ y.sync = x.sync /\ y.flatStale = x.flatStale
             /\ Has(y, c, F, C)
             /\ \A F2, C2 : Has(x, c, F2, C2) => Has(y, c, F2, C2)
             /\ \A c2, F2, C2 : Has(x, c2, F2, C2) /\ (F \cap F2 = {} \/ C \cap C2 = {}) => Has(y, c2, F2, C2)
<1>1. PICK y : y = WriteCopy(x, c, F, C)
  OBVIOUS
<1>2. y = [x EXCEPT !.fresh = (@ \ (Copies \X F \X C)) \cup ({c} \X F \X C)]
  BY <1>1 DEF WriteCopy
<1>3. y.fresh = (x.fresh \ (Copies \X F \X C)) \cup ({c} \X F \X C)
  BY <1>2 DEF Sound, Grid, Fields
<1>4. Sound(y) /\ SameGhosts(x, y) /\ y.sync = x.sync /\ y.flatStale = x.flatStale
  <2>1. Grid(y) /\ SameGhosts(x, y) /\ y.sync = x.sync /\ y.flatStale = x.flatStale /\ y.bad = x.bad
    BY <1>2 DEF Sound, Grid, Fields, SameGhosts, Same
  <2>2. QED BY <2>1 DEF Sound, Arrays, SameGhosts, Same
<1>5. ASSUME NEW d, NEW f, NEW e, <<d, f, e>> \in x.fresh, d = c \/ ~(f \in F /\ e \in C)
      PROVE  <<d, f, e>> \in y.fresh
  <2>1. CASE f \in F /\ e \in C
    BY <1>3, <1>5, <2>1
  <2>2. CASE ~(f \in F /\ e \in C)
    BY <1>3, <1>5, <2>2
  <2>3. QED BY <2>1, <2>2
<1>6. Has(y, c, F, C)
  BY <1>3 DEF Has
<1>7. ASSUME NEW F2, NEW C2, Has(x, c, F2, C2) PROVE Has(y, c, F2, C2)
  BY <1>5, <1>7 DEF Has
<1>8. ASSUME NEW c2, NEW F2, NEW C2, Has(x, c2, F2, C2), F \cap F2 = {} \/ C \cap C2 = {}
      PROVE  Has(y, c2, F2, C2)
  BY <1>5, <1>8 DEF Has
<1>9. QED BY <1>1, <1>4, <1>6, <1>7, <1>8

\* A kernel that writes the root grid leaves the copy it works on current
LEMMA WriteRootWhole ==
  ASSUME NEW x, Sound(x), Whole(x, Home), NEW F, NEW C
  PROVE  LET y == WriteRoot(x, F, C)
         IN  /\ Sound(y) /\ SameGhosts(x, y) /\ y.sync = x.sync /\ y.flatStale = x.flatStale
             /\ Whole(y, Home)
<1>1. Home \in Copies
  BY DEF Home, Copies
<1>2. QED BY <1>1, WriteCurrent DEF WriteRoot, Whole, SameGhosts, Same

\* what a copy of fields F from one place to another does
Copied(x, y, from, to, F) ==
  /\ Sound(y) /\ SameGhosts(x, y) /\ y.sync = x.sync /\ y.flatStale = x.flatStale
  /\ \A F2, C2 : F2 \subseteq F /\ Has(x, from, F2, C2) => Has(y, to, F2, C2)
  /\ \A c2, F2, C2 : Has(x, c2, F2, C2) /\ (c2 # to \/ F \cap F2 = {}) => Has(y, c2, F2, C2)

\* A copy from one place to another makes current there what is current here
LEMMA DeepCopyCurrent ==
  ASSUME NEW x, Sound(x), NEW from, NEW to, from # to, NEW F
  PROVE  Copied(x, DeepCopy(x, from, to, F), from, to, F)
<1>1. PICK y : y = DeepCopy(x, from, to, F)
  OBVIOUS
<1>2. y = [x EXCEPT !.fresh = {t \in @ : ~(t[1] = to /\ t[2] \in F)}
                      \cup {<<to, t[2], t[3]>> : t \in {u \in @ : u[1] = from /\ u[2] \in F}}]
  BY <1>1 DEF DeepCopy
<1>3. y.fresh = {t \in x.fresh : ~(t[1] = to /\ t[2] \in F)}
                  \cup {<<to, t[2], t[3]>> : t \in {u \in x.fresh : u[1] = from /\ u[2] \in F}}
  BY <1>2 DEF Sound, Grid, Fields
<1>4. Sound(y) /\ SameGhosts(x, y) /\ y.sync = x.sync /\ y.flatStale = x.flatStale
  <2>1. Grid(y) /\ SameGhosts(x, y) /\ y.sync = x.sync /\ y.flatStale = x.flatStale /\ y.bad = x.bad
    BY <1>2 DEF Sound, Grid, Fields, SameGhosts, Same
  <2>2. QED BY <2>1 DEF Sound, Arrays, SameGhosts, Same
<1>5. ASSUME NEW f \in F, NEW e, <<from, f, e>> \in x.fresh PROVE <<to, f, e>> \in y.fresh
  <2>1. PICK t \in x.fresh : t = <<from, f, e>>
    BY <1>5
  <2>2. t[1] = from /\ t[2] = f /\ t[3] = e
    BY <2>1
  <2>3. <<to, t[2], t[3]>> \in y.fresh
    BY <1>3, <2>2
  <2>4. QED BY <2>2, <2>3
<1>6. ASSUME NEW d, NEW f, NEW e, <<d, f, e>> \in x.fresh, d # to \/ f \notin F PROVE <<d, f, e>> \in y.fresh
  BY <1>3, <1>6
<1>7. ASSUME NEW F2, NEW C2, F2 \subseteq F, Has(x, from, F2, C2) PROVE Has(y, to, F2, C2)
  BY <1>5, <1>7 DEF Has
<1>8. ASSUME NEW c2, NEW F2, NEW C2, Has(x, c2, F2, C2), c2 # to \/ F \cap F2 = {} PROVE Has(y, c2, F2, C2)
  BY <1>6, <1>8 DEF Has
<1>9. QED BY <1>1, <1>4, <1>7, <1>8 DEF Copied

-----------------------------------------------------------------------------
(* Copies of the root grid *)
\* Marking changes only the state of synchronization
LEMMA MarkData ==
  ASSUME NEW x, Sound(x)
  PROVE  LET y == MarkRootDeviceModified(x)
         IN  /\ Sound(y) /\ SameGhosts(x, y) /\ y.flatStale = x.flatStale /\ y.fresh = x.fresh
             /\ cfg.onHost \/ y.sync = "device"
<1>1. CASE cfg.onHost
  BY <1>1 DEF MarkRootDeviceModified, SameGhosts, Same
<1>2. CASE ~cfg.onHost
  <2>1. PICK y : y = MarkRootDeviceModified(x)
    OBVIOUS
  <2>2. y = [x EXCEPT !.sync = "device"]
    BY <1>2, <2>1 DEF MarkRootDeviceModified
  <2>3. Grid(y) /\ SameGhosts(x, y) /\ y.flatStale = x.flatStale /\ y.fresh = x.fresh /\ y.sync = "device"
        /\ y.bad = x.bad
    BY <2>2 DEF Sound, Grid, Fields, SameGhosts, Same
  <2>4. Sound(y)
    BY <1>2, <2>3 DEF Sound, Arrays, SameGhosts, Same
  <2>5. QED BY <2>1, <2>3, <2>4
<1>3. QED BY <1>1, <1>2

\* What is current on the device is current on the host once that is synchronized
LEMMA SyncRootToHostData ==
  ASSUME NEW x, Sound(x), AtTop(x), Whole(x, Home), cfg.onHost \/ x.sync = "device"
  PROVE  LET y == SyncRootToHost(x)
         IN  /\ Sound(y) /\ SameGhosts(x, y) /\ y.flatStale = x.flatStale /\ y.sync # "device"
             /\ Whole(y, "host") /\ Whole(y, Home)
             /\ \A F2, C2 : Has(x, "flat", F2, C2) => Has(y, "flat", F2, C2)
<1>1. CASE cfg.onHost
  <2>1. SyncRootToHost(x) = x /\ Home = "host"
    BY <1>1 DEF SyncRootToHost, Home
  <2>2. QED BY <1>1, <2>1 DEF SameGhosts, Same, Sound, Arrays
<1>2. CASE ~cfg.onHost
  <2>1. PICK z : z = DeepCopy(x, "dev", "host", {"u", "uold", "src"})
    OBVIOUS
  <2>2. Copied(x, z, "dev", "host", {"u", "uold", "src"})
    BY <2>1, DeepCopyCurrent
  <2>3. PICK y : y = SyncRootToHost(x)
    OBVIOUS
  <2>4. y = [z EXCEPT !.sync = "synced"]
    BY <1>2, <2>1, <2>3 DEF SyncRootToHost
  <2>5. Grid(y) /\ SameGhosts(z, y) /\ y.flatStale = z.flatStale /\ y.fresh = z.fresh /\ y.sync = "synced"
        /\ y.bad = z.bad
    BY <2>2, <2>4 DEF Sound, Grid, Fields, SameGhosts, Same, Copied
  <2>6. Sound(y)
    BY <2>2, <2>5 DEF Sound, Arrays, SameGhosts, Same, Copied
  <2>7. Home = "dev"
    BY <1>2 DEF Home
  <2>8. Whole(z, "host")
    BY <2>2, <2>7 DEF Whole, Kept, Copied
  <2>9. Whole(z, Home)
    BY <2>2, <2>7 DEF Whole, Copied
  <2>10. \A F2, C2 : Has(x, "flat", F2, C2) => Has(z, "flat", F2, C2)
    BY <2>2 DEF Copied
  <2>11. Whole(y, "host") /\ Whole(y, Home) /\ \A F2, C2 : Has(x, "flat", F2, C2) => Has(y, "flat", F2, C2)
    BY <2>5, <2>8, <2>9, <2>10 DEF Whole, Has
  <2>12. SameGhosts(x, y) /\ y.flatStale = x.flatStale /\ y.sync # "device"
    BY <2>2, <2>5 DEF SameGhosts, Same, Copied
  <2>13. QED BY <2>3, <2>6, <2>11, <2>12
<1>3. QED BY <1>1, <1>2

\* Nothing is copied to a host that is up to date
LEMMA HostUpToDate == ASSUME NEW x, x.sync # "device" PROVE SyncRootToHost(x) = x
BY DEF SyncRootToHost

\* What is current on the host is current on the device once that is synchronized;
\* the copy leaves out uold, which only the device writes
LEMMA SyncRootToDeviceData ==
  ASSUME NEW x, Sound(x), AtTop(x), Whole(x, "host"), Has(x, Home, {"uold"}, Everywhere), x.sync = "host"
  PROVE  LET y == SyncRootToDevice(x)
         IN  /\ Sound(y) /\ SameGhosts(x, y) /\ y.flatStale = x.flatStale /\ y.sync # "device"
             /\ Whole(y, "host") /\ Whole(y, Home)
<1>1. CASE cfg.onHost
  <2>1. SyncRootToDevice(x) = x /\ Home = "host"
    BY <1>1 DEF SyncRootToDevice, Home
  <2>2. QED BY <1>1, <2>1 DEF SameGhosts, Same, Sound, Arrays
<1>2. CASE ~cfg.onHost
  <2>1. PICK z : z = DeepCopy(x, "host", "dev", {"u", "src"})
    OBVIOUS
  <2>2. Copied(x, z, "host", "dev", {"u", "src"})
    BY <2>1, DeepCopyCurrent
  <2>3. PICK y : y = SyncRootToDevice(x)
    OBVIOUS
  <2>4. y = [z EXCEPT !.sync = "synced"]
    BY <1>2, <2>1, <2>3 DEF SyncRootToDevice
  <2>5. Grid(y) /\ SameGhosts(z, y) /\ y.flatStale = z.flatStale /\ y.fresh = z.fresh /\ y.sync = "synced"
        /\ y.bad = z.bad
    BY <2>2, <2>4 DEF Sound, Grid, Fields, SameGhosts, Same, Copied
  <2>6. Sound(y)
    BY <2>2, <2>5 DEF Sound, Arrays, SameGhosts, Same, Copied
  <2>7. Home = "dev"
    BY <1>2 DEF Home
  <2>8. Whole(z, "host")
    BY <2>2 DEF Whole, Copied
  <2>9. Has(x, "host", {"u", "src"}, Everywhere)
    BY DEF Whole, Has, Kept
  <2>10. Has(z, "dev", {"u", "src"}, Everywhere)
    BY <2>2, <2>9 DEF Copied
  <2>11. {"u", "src"} \cap {"uold"} = {}
    OBVIOUS
  <2>12. Has(z, "dev", {"uold"}, Everywhere)
    BY <2>2, <2>7, <2>11 DEF Copied
  <2>13. Whole(z, Home)
    BY <2>7, <2>10, <2>12 DEF Whole, Has, Kept
  <2>14. Whole(y, "host") /\ Whole(y, Home)
    BY <2>5, <2>8, <2>13 DEF Whole, Has
  <2>15. SameGhosts(x, y) /\ y.flatStale = x.flatStale /\ y.sync # "device"
    BY <2>2, <2>5 DEF SameGhosts, Same, Copied
  <2>16. QED BY <2>3, <2>6, <2>14, <2>15
<1>3. QED BY <1>1, <1>2

\* The flat buffers are rebuilt from a host that is up to date
LEMMA BuildData ==
  ASSUME NEW x, OnHost(x)
  PROVE  LET y == BuildRootFlatBuffers(x)
         IN  OnHost(y) /\ SameGhosts(x, y) /\ ~y.flatStale /\ (Whole(x, Home) => Whole(y, Home))
<1>1. CASE ~x.flatStale
  BY <1>1 DEF BuildRootFlatBuffers, SameGhosts, Same
<1>2. CASE x.flatStale
  <2>1. PICK z : z = DeepCopy(x, "host", "flat", {"u", "uold"})
    OBVIOUS
  <2>2. Sound(x)
    BY DEF OnHost
  <2>3. Copied(x, z, "host", "flat", {"u", "uold"})
    BY <2>1, <2>2, DeepCopyCurrent
  <2>4. PICK y : y = BuildRootFlatBuffers(x)
    OBVIOUS
  <2>5. SyncRootToHost(x) = x
    BY HostUpToDate DEF OnHost
  <2>6. y = [z EXCEPT !.flatStale = FALSE]
    BY <1>2, <2>1, <2>4, <2>5 DEF BuildRootFlatBuffers
  <2>7. Grid(y) /\ SameGhosts(z, y) /\ y.flatStale = FALSE /\ y.fresh = z.fresh /\ y.sync = z.sync
        /\ y.bad = z.bad
    BY <2>3, <2>6 DEF Sound, Grid, Fields, SameGhosts, Same, Copied
  <2>8. Sound(y)
    BY <2>3, <2>7 DEF Sound, Arrays, SameGhosts, Same, Copied
  <2>9. Has(x, "host", {"u", "uold"}, {"leaf"})
    BY Cells DEF OnHost, Whole, Has, Kept
  <2>10. Has(z, "flat", {"u", "uold"}, {"leaf"})
    BY <2>3, <2>9 DEF Copied
  <2>11. Whole(z, "host") /\ Has(z, Home, {"uold"}, Everywhere) /\ (Whole(x, Home) => Whole(z, Home))
    BY <2>3, Cells DEF OnHost, Whole, Copied
  <2>12. OnHost(y)
    BY <2>3, <2>7, <2>8, <2>10, <2>11 DEF OnHost, Whole, Has, FlatOk, Copied
  <2>13. SameGhosts(x, y) /\ ~y.flatStale /\ (Whole(x, Home) => Whole(y, Home))
    BY <2>3, <2>7, <2>11 DEF Whole, Has, SameGhosts, Same, Copied
  <2>14. QED BY <2>4, <2>12, <2>13
<1>3. QED BY <1>1, <1>2 DEF OnHost, Sound, Arrays

\* The root grid gets its boundary and can be worked on
LEMMA MGRootBoundaryData ==
  ASSUME NEW x, Sound(x), Whole(x, Home), x.rootLevel \in Hierarchy(cfg)
  PROVE  LET y == MGRootBoundary(x)
         IN  /\ OnRoot(y) /\ Same(x, y) /\ (cfg.onHost \/ y.sync = "device")
             /\ y.ghost = [x.ghost EXCEPT ![x.rootLevel] = "all"]
<1>1. ReadRoot(x, {"u"}, Interior) = x
  BY ReadRootWhole, Cells DEF Kept
<1>2. PICK y : y = WriteRoot(x, {"u"}, {"ghost"})
  OBVIOUS
<1>3. /\ Sound(y) /\ SameGhosts(x, y) /\ y.sync = x.sync /\ y.flatStale = x.flatStale /\ Whole(y, Home)
  BY <1>2, WriteRootWhole
<1>4. PICK z : z = [y EXCEPT !.ghost[x.rootLevel] = "all", !.flatStale = TRUE]
  OBVIOUS
<1>5. MGRootBoundary(x) = MarkRootDeviceModified(z)
  BY <1>1, <1>2, <1>3, <1>4 DEF MGRootBoundary, SameGhosts, Same
<1>6. /\ Grid(z) /\ Same(x, z) /\ z.ghost = [x.ghost EXCEPT ![x.rootLevel] = "all"] /\ z.flatStale = TRUE
      /\ z.sync = x.sync /\ z.bad = y.bad /\ z.fresh = y.fresh
  BY <1>3, <1>4 DEF Sound, Grid, Fields, SameGhosts, Same
<1>7. Sound(z) /\ Whole(z, Home)
  <2>1. z.ghost \in [Hierarchy(cfg) -> {"old", "same", "leaf", "all"}]
    BY <1>6 DEF Sound, Arrays
  <2>2. Arrays(z)
    BY <1>3, <1>6, <2>1 DEF Sound, Arrays, Same
  <2>3. QED BY <1>3, <1>6, <2>2 DEF Sound, Whole, Has
<1>8. PICK w : w = MarkRootDeviceModified(z)
  OBVIOUS
<1>9. /\ Sound(w) /\ SameGhosts(z, w) /\ w.flatStale = z.flatStale /\ w.fresh = z.fresh
      /\ cfg.onHost \/ w.sync = "device"
  BY <1>7, <1>8, MarkData
<1>10. OnRoot(w)
  BY <1>6, <1>7, <1>9 DEF OnRoot, Whole, Has
<1>11. Same(x, w) /\ w.ghost = [x.ghost EXCEPT ![x.rootLevel] = "all"]
  BY <1>6, <1>9 DEF SameGhosts, Same
<1>12. QED BY <1>5, <1>8, <1>9, <1>10, <1>11

-----------------------------------------------------------------------------
(* Kernels of the root grid *)
\* where the grid stands it has ghost zones that were set since u changed
GhostsSet(x, l) == l \in Hierarchy(cfg) /\ x.ghost[l] = "all"

\* A stencil reads what is current
LEMMA ReadsData ==
  ASSUME NEW x, OnRoot(x), GhostsSet(x, x.rootLevel)
  PROVE  ReadRoot(ReadRoot(NeedGhosts(x, x.rootLevel), {"u"}, Everywhere), {"src"}, Interior) = x
<1>1. NeedGhosts(x, x.rootLevel) = x
  BY RightRead DEF NeedGhosts, GhostsSet
<1>2. QED BY <1>1, ReadRootWhole, Cells DEF Kept, OnRoot

\* u is stored at the level of the root grid
LEMMA StoreOldDataData ==
  ASSUME NEW x, OnRoot(x), x.rootLevel \in Hierarchy(cfg)
  PROVE  LET y == StoreOldData(x)
         IN  /\ OnRoot(y) /\ y.ghost = x.ghost /\ y.old = [x.old EXCEPT ![x.rootLevel] = "now"]
             /\ y.rootLevel = x.rootLevel /\ y.blockLevel = x.blockLevel
             /\ y.src = x.src /\ y.bsrc = x.bsrc /\ y.bold = x.bold /\ y.exchanged = x.exchanged
<1>1. ReadRoot(x, {"u"}, Everywhere) = x
  BY ReadRootWhole DEF Kept, OnRoot
<1>2. PICK y : y = WriteRoot(x, {"uold"}, Everywhere)
  OBVIOUS
<1>3. /\ Sound(y) /\ SameGhosts(x, y) /\ y.sync = x.sync /\ y.flatStale = x.flatStale /\ Whole(y, Home)
  BY <1>2, WriteRootWhole DEF OnRoot
<1>4. PICK z : z = [y EXCEPT !.old[x.rootLevel] = "now"]
  OBVIOUS
<1>5. StoreOldData(x) = z
  BY <1>1, <1>2, <1>4 DEF StoreOldData
<1>6. /\ Grid(z) /\ z.old = [y.old EXCEPT ![x.rootLevel] = "now"] /\ z.bad = y.bad /\ z.fresh = y.fresh
      /\ z.sync = y.sync /\ z.flatStale = y.flatStale /\ z.ghost = y.ghost
      /\ z.rootLevel = y.rootLevel /\ z.blockLevel = y.blockLevel
      /\ z.src = y.src /\ z.bsrc = y.bsrc /\ z.bold = y.bold /\ z.exchanged = y.exchanged
  BY <1>3, <1>4 DEF Sound, Grid, Fields
<1>7. Sound(z) /\ Whole(z, Home)
  BY <1>3, <1>6 DEF Sound, Arrays, Whole, Has
<1>8. QED BY <1>3, <1>5, <1>6, <1>7 DEF OnRoot, SameGhosts, Same

\* a defect becomes the right-hand side of a FAS equation
InFas(r) == [leaf |-> Fas(r.leaf), covered |-> Fas(r.covered)]

\* kinds of right-hand sides
LEMMA FasKinds == \A r \in [leaf : Kinds, covered : Kinds] : InFas(r) \in [leaf : Kinds, covered : Kinds]
BY DEF InFas, Fas, Kinds

\* The equation is made at the level of the root grid
LEMMA CalculateFASRHSPackData ==
  ASSUME NEW x, OnRoot(x), GhostsSet(x, x.rootLevel)
  PROVE  LET y == CalculateFASRHSPack(x)
         IN  /\ OnRoot(y) /\ y.ghost = x.ghost
             /\ y.src = [x.src EXCEPT ![x.rootLevel] = InFas(@)]
             /\ y.rootLevel = x.rootLevel /\ y.blockLevel = x.blockLevel
             /\ y.old = x.old /\ y.bsrc = x.bsrc /\ y.bold = x.bold /\ y.exchanged = x.exchanged
<1>1. PICK y : y = WriteRoot(x, {"src"}, Interior)
  OBVIOUS
<1>2. /\ Sound(y) /\ SameGhosts(x, y) /\ y.sync = x.sync /\ y.flatStale = x.flatStale /\ Whole(y, Home)
  BY <1>1, WriteRootWhole DEF OnRoot
<1>3. PICK z : z = [y EXCEPT !.src[x.rootLevel] = InFas(@)]
  OBVIOUS
<1>4. CalculateFASRHSPack(x) = z
  BY <1>1, <1>3, ReadsData DEF CalculateFASRHSPack, InFas
<1>5. /\ Grid(z) /\ z.src = [y.src EXCEPT ![x.rootLevel] = InFas(@)] /\ z.bad = y.bad /\ z.fresh = y.fresh
      /\ z.sync = y.sync /\ z.flatStale = y.flatStale /\ z.ghost = y.ghost
      /\ z.rootLevel = y.rootLevel /\ z.blockLevel = y.blockLevel
      /\ z.old = y.old /\ z.bsrc = y.bsrc /\ z.bold = y.bold /\ z.exchanged = y.exchanged
  BY <1>2, <1>3 DEF Sound, Grid, Fields
<1>6. z.src \in [Hierarchy(cfg) -> [leaf : Kinds, covered : Kinds]]
  BY <1>2, <1>5, FasKinds DEF Sound, Arrays, GhostsSet
<1>7. Sound(z) /\ Whole(z, Home)
  BY <1>2, <1>5, <1>6 DEF Sound, Arrays, Whole, Has
<1>8. QED BY <1>2, <1>4, <1>5, <1>7 DEF OnRoot, SameGhosts, Same

\* A half sweep reads current data and leaves ghost zones old
LEMMA RootSweepData ==
  ASSUME NEW x, OnRoot(x), GhostsSet(x, x.rootLevel)
  PROVE  OnRoot(RootSweep(x)) /\ Same(x, RootSweep(x))
<1>1. PICK y : y = WriteRoot(x, {"u"}, Interior)
  OBVIOUS
<1>2. /\ Sound(y) /\ SameGhosts(x, y) /\ y.sync = x.sync /\ y.flatStale = x.flatStale /\ Whole(y, Home)
  BY <1>1, WriteRootWhole DEF OnRoot
<1>3. PICK z : z = [y EXCEPT !.ghost[x.rootLevel] = "old"]
  OBVIOUS
<1>4. SmoothPack(x) = z
  BY <1>1, <1>3, ReadsData DEF SmoothPack
<1>5. /\ Grid(z) /\ Same(y, z) /\ z.ghost = [y.ghost EXCEPT ![x.rootLevel] = "old"]
      /\ z.bad = y.bad /\ z.fresh = y.fresh /\ z.sync = y.sync /\ z.flatStale = y.flatStale
  BY <1>2, <1>3 DEF Sound, Grid, Fields, Same
<1>6. Sound(z) /\ Whole(z, Home)
  BY <1>2, <1>5 DEF Sound, Arrays, Whole, Has, Same, GhostsSet
<1>7. OnRoot(z) /\ Same(x, z)
  BY <1>2, <1>5, <1>6 DEF OnRoot, SameGhosts, Same
<1>8. QED BY <1>4, <1>7, MarkData DEF RootSweep, OnRoot, SameGhosts, Same, Whole, Has

\* A sweep with its boundaries ends with ghost zones set
LEMMA SweepThenBoundaryData ==
  ASSUME NEW x, OnRoot(x), GhostsSet(x, x.rootLevel)
  PROVE  LET y == SweepThenBoundary(x)
         IN  OnRoot(y) /\ Same(x, y) /\ GhostsSet(y, y.rootLevel)
<1>1. ASSUME NEW z, OnRoot(z), GhostsSet(z, z.rootLevel)
      PROVE  LET y == MGRootBoundary(RootSweep(z))
             IN  OnRoot(y) /\ Same(z, y) /\ GhostsSet(y, y.rootLevel)
  <2>1. PICK v : v = RootSweep(z)
    OBVIOUS
  <2>2. OnRoot(v) /\ Same(z, v)
    BY <1>1, <2>1, RootSweepData
  <2>3. v.rootLevel \in Hierarchy(cfg) /\ Sound(v) /\ Whole(v, Home)
    BY <1>1, <2>2 DEF OnRoot, Same, GhostsSet
  <2>4. PICK y : y = MGRootBoundary(v)
    OBVIOUS
  <2>5. OnRoot(y) /\ Same(v, y) /\ y.ghost = [v.ghost EXCEPT ![v.rootLevel] = "all"]
    BY <2>3, <2>4, MGRootBoundaryData
  <2>6. GhostsSet(y, y.rootLevel)
    BY <2>3, <2>5 DEF GhostsSet, Same, Sound, Arrays
  <2>7. QED BY <2>1, <2>2, <2>4, <2>5, <2>6, SameTrans
<1>2. PICK v : v = MGRootBoundary(RootSweep(x))
  OBVIOUS
<1>3. OnRoot(v) /\ Same(x, v) /\ GhostsSet(v, v.rootLevel)
  BY <1>1, <1>2
<1>4. PICK y : y = MGRootBoundary(RootSweep(v))
  OBVIOUS
<1>5. OnRoot(y) /\ Same(v, y) /\ GhostsSet(y, y.rootLevel)
  BY <1>1, <1>3, <1>4
<1>6. SweepThenBoundary(x) = y
  BY <1>2, <1>4 DEF SweepThenBoundary
<1>7. QED BY <1>3, <1>5, <1>6, SameTrans

\* A sweep that begins with its boundaries needs none before
LEMMA BoundaryThenSweepData ==
  ASSUME NEW x, OnRoot(x), x.rootLevel \in Hierarchy(cfg)
  PROVE  OnRoot(BoundaryThenSweep(x)) /\ Same(x, BoundaryThenSweep(x))
<1>1. ASSUME NEW z, OnRoot(z), z.rootLevel \in Hierarchy(cfg)
      PROVE  OnRoot(RootSweep(MGRootBoundary(z))) /\ Same(z, RootSweep(MGRootBoundary(z)))
  <2>1. PICK v : v = MGRootBoundary(z)
    OBVIOUS
  <2>2. OnRoot(v) /\ Same(z, v) /\ v.ghost = [z.ghost EXCEPT ![z.rootLevel] = "all"]
    BY <1>1, <2>1, MGRootBoundaryData DEF OnRoot
  <2>3. GhostsSet(v, v.rootLevel)
    BY <1>1, <2>2 DEF GhostsSet, Same, OnRoot, Sound, Arrays
  <2>4. OnRoot(RootSweep(v)) /\ Same(v, RootSweep(v))
    BY <2>2, <2>3, RootSweepData
  <2>5. QED BY <2>1, <2>2, <2>4, SameTrans
<1>2. PICK v : v = RootSweep(MGRootBoundary(x))
  OBVIOUS
<1>3. OnRoot(v) /\ Same(x, v)
  BY <1>1, <1>2
<1>4. v.rootLevel \in Hierarchy(cfg)
  BY <1>3 DEF Same
<1>5. PICK y : y = RootSweep(MGRootBoundary(v))
  OBVIOUS
<1>6. OnRoot(y) /\ Same(v, y)
  BY <1>1, <1>3, <1>4, <1>5
<1>7. BoundaryThenSweep(x) = y
  BY <1>2, <1>5 DEF BoundaryThenSweep
<1>8. QED BY <1>3, <1>6, <1>7, SameTrans

\* the equation at level l, of the root grid or of octets, is made or left alone
Equated(x, y, l, made) ==
  /\ y.bsrc = x.bsrc /\ y.bold = x.bold /\ y.exchanged = x.exchanged
  /\ y.rootLevel = x.rootLevel /\ y.blockLevel = x.blockLevel
  /\ y.src = IF made THEN [x.src EXCEPT ![l] = InFas(@)] ELSE x.src
  /\ y.old = IF made THEN [x.old EXCEPT ![l] = "now"] ELSE x.old

\* The FAS equation of the root grid is made from current data
LEMMA FASEquationData ==
  ASSUME NEW x, OnRoot(x), GhostsSet(x, x.rootLevel)
  PROVE  LET y == FASEquation(x)
         IN  OnRoot(y) /\ y.ghost = x.ghost /\ Equated(x, y, x.rootLevel, TRUE)
<1>1. PICK v : v = StoreOldData(x)
  OBVIOUS
<1>2. /\ OnRoot(v) /\ v.ghost = x.ghost /\ v.old = [x.old EXCEPT ![x.rootLevel] = "now"]
      /\ v.rootLevel = x.rootLevel /\ v.blockLevel = x.blockLevel
      /\ v.src = x.src /\ v.bsrc = x.bsrc /\ v.bold = x.bold /\ v.exchanged = x.exchanged
  BY <1>1, StoreOldDataData DEF GhostsSet
<1>3. GhostsSet(v, v.rootLevel)
  BY <1>2 DEF GhostsSet
<1>4. PICK w : w = CalculateFASRHSPack(v)
  OBVIOUS
<1>5. /\ OnRoot(w) /\ w.ghost = v.ghost
      /\ w.src = [v.src EXCEPT ![v.rootLevel] = InFas(@)]
      /\ w.rootLevel = v.rootLevel /\ w.blockLevel = v.blockLevel
      /\ w.old = v.old /\ w.bsrc = v.bsrc /\ w.bold = v.bold /\ w.exchanged = v.exchanged
  BY <1>2, <1>3, <1>4, CalculateFASRHSPackData
<1>6. PICK y : y = MarkRootDeviceModified(w)
  OBVIOUS
<1>7. /\ Sound(y) /\ SameGhosts(w, y) /\ y.flatStale = w.flatStale /\ y.fresh = w.fresh
  BY <1>5, <1>6, MarkData DEF OnRoot
<1>8. OnRoot(y) /\ y.ghost = x.ghost
  BY <1>2, <1>5, <1>7 DEF OnRoot, Whole, Has, SameGhosts
<1>9. Equated(x, y, x.rootLevel, TRUE)
  BY <1>2, <1>5, <1>7 DEF Equated, SameGhosts, Same
<1>10. FASEquation(x) = y
  BY <1>1, <1>4, <1>6 DEF FASEquation
<1>11. QED BY <1>8, <1>9, <1>10

\* the defect of level l goes to the cells of the level below
Restricted(x, y, l, what) ==
  /\ y.bsrc = x.bsrc /\ y.bold = x.bold /\ y.exchanged = x.exchanged /\ y.old = x.old
  /\ y.blockLevel = x.blockLevel
  /\ y.src = [x.src EXCEPT ![l - 1].covered = what]

\* replacing a right-hand side by another
LEMMA SrcSet ==
  ASSUME NEW s \in [Hierarchy(cfg) -> [leaf : Kinds, covered : Kinds]], NEW l \in Hierarchy(cfg), NEW k \in Kinds
  PROVE  [s EXCEPT ![l].covered = k] \in [Hierarchy(cfg) -> [leaf : Kinds, covered : Kinds]]
OBVIOUS

\* Restriction on the root grid reads current data
LEMMA RestrictPackData ==
  ASSUME NEW x, OnRoot(x), GhostsSet(x, x.rootLevel), x.rootLevel - 1 \in Hierarchy(cfg)
  PROVE  LET y == MarkRootDeviceModified(RestrictPack(x))
         IN  OnRoot(y) /\ Restricted(x, y, x.rootLevel, "defect") /\ y.rootLevel = x.rootLevel - 1
<1>1. PICK z : z = RestrictPack(x)
  OBVIOUS
<1>2. z = [x EXCEPT !.src[x.rootLevel - 1].covered = "defect", !.ghost[x.rootLevel - 1] = "old",
                    !.rootLevel = @ - 1]
  BY <1>1, ReadsData DEF RestrictPack
<1>3. /\ z.src = [x.src EXCEPT ![x.rootLevel - 1].covered = "defect"]
      /\ z.ghost = [x.ghost EXCEPT ![x.rootLevel - 1] = "old"]
      /\ z.rootLevel = x.rootLevel - 1 /\ z.bad = x.bad /\ z.fresh = x.fresh
      /\ z.sync = x.sync /\ z.flatStale = x.flatStale /\ z.blockLevel = x.blockLevel
      /\ z.old = x.old /\ z.bsrc = x.bsrc /\ z.bold = x.bold /\ z.exchanged = x.exchanged
  BY <1>2 DEF OnRoot, Sound, Grid, Fields
<1>4. Grid(z)
  BY <1>1, RestrictPackMoves DEF Moves, OnRoot, Sound
<1>5. z.src \in [Hierarchy(cfg) -> [leaf : Kinds, covered : Kinds]]
  <2>1. x.src \in [Hierarchy(cfg) -> [leaf : Kinds, covered : Kinds]] /\ "defect" \in Kinds
    BY DEF OnRoot, Sound, Arrays, Kinds
  <2>2. QED BY <1>3, <2>1, SrcSet
<1>6. z.ghost \in [Hierarchy(cfg) -> {"old", "same", "leaf", "all"}]
  BY <1>3 DEF OnRoot, Sound, Arrays
<1>7. Arrays(z)
  BY <1>3, <1>5, <1>6 DEF OnRoot, Sound, Arrays
<1>8. Sound(z) /\ Whole(z, Home)
  BY <1>3, <1>4, <1>7 DEF OnRoot, Sound, Whole, Has
<1>9. PICK y : y = MarkRootDeviceModified(z)
  OBVIOUS
<1>10. /\ Sound(y) /\ SameGhosts(z, y) /\ y.flatStale = z.flatStale /\ y.fresh = z.fresh
  BY <1>8, <1>9, MarkData
<1>11. OnRoot(y)
  BY <1>3, <1>8, <1>10 DEF OnRoot, Whole, Has
<1>12. Restricted(x, y, x.rootLevel, "defect") /\ y.rootLevel = x.rootLevel - 1
  BY <1>3, <1>10 DEF Restricted, SameGhosts, Same
<1>13. QED BY <1>1, <1>9, <1>11, <1>12

\* RestrictSourcePack reads the source where it is current and leaves the copies so
LEMMA RestrictSourcePackData ==
  ASSUME NEW x, Sound(x), Whole(x, Home), FlatOk(x), x.rootLevel - 1 \in Hierarchy(cfg)
  PROVE  LET y == MarkRootDeviceModified(RestrictSourcePack(x))
         IN  /\ Sound(y) /\ Whole(y, Home) /\ FlatOk(y)
             /\ Restricted(x, y, x.rootLevel, "source") /\ y.rootLevel = x.rootLevel - 1
<1>1. PICK z : z = RestrictSourcePack(x)
  OBVIOUS
<1>2. ReadRoot(x, {"src"}, Interior) = x
  BY ReadRootWhole, Cells DEF Kept
<1>3. z = [x EXCEPT !.src[x.rootLevel - 1].covered = "source", !.rootLevel = @ - 1]
  BY <1>1, <1>2 DEF RestrictSourcePack
<1>4. /\ z.src = [x.src EXCEPT ![x.rootLevel - 1].covered = "source"] /\ z.ghost = x.ghost
      /\ z.rootLevel = x.rootLevel - 1 /\ z.bad = x.bad /\ z.fresh = x.fresh
      /\ z.sync = x.sync /\ z.flatStale = x.flatStale /\ z.blockLevel = x.blockLevel
      /\ z.old = x.old /\ z.bsrc = x.bsrc /\ z.bold = x.bold /\ z.exchanged = x.exchanged
  BY <1>3 DEF Sound, Grid, Fields
<1>5. Grid(z)
  BY <1>1, RestrictSourcePackMoves DEF Moves, Sound
<1>6. z.src \in [Hierarchy(cfg) -> [leaf : Kinds, covered : Kinds]]
  <2>1. x.src \in [Hierarchy(cfg) -> [leaf : Kinds, covered : Kinds]] /\ "source" \in Kinds
    BY DEF Sound, Arrays, Kinds
  <2>2. QED BY <1>4, <2>1, SrcSet
<1>7. Arrays(z)
  BY <1>4, <1>6 DEF Sound, Arrays
<1>8. Sound(z) /\ Whole(z, Home) /\ FlatOk(z)
  BY <1>4, <1>5, <1>7 DEF Sound, Whole, Has, FlatOk
<1>9. PICK y : y = MarkRootDeviceModified(z)
  OBVIOUS
<1>10. /\ Sound(y) /\ SameGhosts(z, y) /\ y.flatStale = z.flatStale /\ y.fresh = z.fresh
  BY <1>8, <1>9, MarkData
<1>11. Whole(y, Home) /\ FlatOk(y)
  BY <1>8, <1>10 DEF Whole, Has, FlatOk
<1>12. Restricted(x, y, x.rootLevel, "source") /\ y.rootLevel = x.rootLevel - 1
  BY <1>4, <1>10 DEF Restricted, SameGhosts, Same
<1>13. QED BY <1>1, <1>9, <1>10, <1>11, <1>12

\* Either prolongation on the root grid reads current data
LEMMA ProlongateData ==
  ASSUME NEW x, OnRoot(x), GhostsSet(x, x.rootLevel), x.rootLevel + 1 \in Hierarchy(cfg), NEW adds
  PROVE  LET y == MarkRootDeviceModified(Prolongate(x, adds))
         IN  /\ OnRoot(y) /\ y.rootLevel = x.rootLevel + 1 /\ y.blockLevel = x.blockLevel
             /\ y.src = x.src /\ y.old = x.old /\ y.bsrc = x.bsrc /\ y.bold = x.bold
             /\ y.exchanged = x.exchanged
<1>1. NeedGhosts(x, x.rootLevel) = x
  BY RightRead DEF NeedGhosts, GhostsSet
<1>2. PICK z : z = [x EXCEPT !.ghost[x.rootLevel + 1] = "old", !.rootLevel = @ + 1]
  OBVIOUS
<1>3. /\ Grid(z) /\ z.ghost = [x.ghost EXCEPT ![x.rootLevel + 1] = "old"]
      /\ z.rootLevel = x.rootLevel + 1 /\ z.bad = x.bad /\ z.fresh = x.fresh
      /\ z.sync = x.sync /\ z.flatStale = x.flatStale /\ z.blockLevel = x.blockLevel /\ z.src = x.src
      /\ z.old = x.old /\ z.bsrc = x.bsrc /\ z.bold = x.bold /\ z.exchanged = x.exchanged
  <2>1. PICK v : v = [x EXCEPT !.ghost[x.rootLevel + 1] = "old"]
    OBVIOUS
  <2>2. /\ Grid(v) /\ v.ghost = [x.ghost EXCEPT ![x.rootLevel + 1] = "old"]
        /\ v.rootLevel = x.rootLevel /\ v.bad = x.bad /\ v.fresh = x.fresh
        /\ v.sync = x.sync /\ v.flatStale = x.flatStale /\ v.blockLevel = x.blockLevel /\ v.src = x.src
        /\ v.old = x.old /\ v.bsrc = x.bsrc /\ v.bold = x.bold /\ v.exchanged = x.exchanged
    BY <2>1 DEF OnRoot, Sound, Grid, Fields
  <2>3. x.rootLevel + 1 \in Int
    BY <2>2 DEF Grid
  <2>4. z = [v EXCEPT !.rootLevel = x.rootLevel + 1]
    BY <1>2, <2>1, <2>2 DEF OnRoot, Sound, Grid, Fields
  <2>5. QED BY <2>2, <2>3, <2>4 DEF Grid, Fields
<1>4. z.ghost \in [Hierarchy(cfg) -> {"old", "same", "leaf", "all"}]
  BY <1>3 DEF OnRoot, Sound, Arrays
<1>5. Sound(z) /\ Whole(z, Home)
  BY <1>3, <1>4 DEF OnRoot, Sound, Arrays, Whole, Has
<1>6. (IF adds THEN ReadRoot(z, {"u"}, Interior) ELSE z) = z
  BY <1>5, ReadRootWhole, Cells DEF Kept
<1>7. PICK w : w = WriteRoot(z, {"u"}, Interior)
  OBVIOUS
<1>8. Sound(w) /\ SameGhosts(z, w) /\ w.sync = z.sync /\ w.flatStale = z.flatStale /\ Whole(w, Home)
  BY <1>5, <1>7, WriteRootWhole
<1>9. Prolongate(x, adds) = w
  BY <1>1, <1>2, <1>6, <1>7 DEF Prolongate
<1>10. PICK y : y = MarkRootDeviceModified(w)
  OBVIOUS
<1>11. /\ Sound(y) /\ SameGhosts(w, y) /\ y.flatStale = w.flatStale /\ y.fresh = w.fresh
  BY <1>8, <1>10, MarkData
<1>12. OnRoot(y)
  BY <1>3, <1>8, <1>11 DEF OnRoot, Whole, Has
<1>13. /\ y.rootLevel = x.rootLevel + 1 /\ y.blockLevel = x.blockLevel
       /\ y.src = x.src /\ y.old = x.old /\ y.bsrc = x.bsrc /\ y.bold = x.bold
       /\ y.exchanged = x.exchanged
  BY <1>3, <1>8, <1>11 DEF SameGhosts, Same
<1>14. QED BY <1>9, <1>10, <1>12, <1>13

\* Subtracting the average reads and writes the copy in use
LEMMA SubtractAverageData ==
  ASSUME NEW x, Sound(x), Whole(x, Home), NEW field \in Kept
  PROVE  LET y == MarkRootDeviceModified(SubtractAverage(x, field))
         IN  Sound(y) /\ Whole(y, Home) /\ SameGhosts(x, y) /\ y.flatStale = x.flatStale
<1>1. PICK z : z = Wrong(x, "average", AtTop(x))
  OBVIOUS
<1>2. z = x \/ z = [x EXCEPT !.bad = @ \cup {"average"}]
  BY <1>1 DEF Wrong
<1>3. /\ Grid(z) /\ SameGhosts(x, z) /\ z.fresh = x.fresh /\ z.sync = x.sync /\ z.flatStale = x.flatStale
      /\ z.bad \subseteq x.bad \cup {"average"}
  BY <1>2 DEF Sound, Grid, Fields, SameGhosts, Same
<1>4. Sound(z) /\ Whole(z, Home)
  BY <1>3 DEF Sound, Arrays, Whole, Has, SameGhosts, Same
<1>5. PICK cells : cells = IF field = "src" THEN Interior ELSE Everywhere
  OBVIOUS
<1>6. ReadCopy(z, Home, {field}, cells) = z
  BY <1>4, <1>5, ReadWhole, Cells
<1>7. PICK w : w = WriteCopy(z, Home, {field}, cells)
  OBVIOUS
<1>8. SubtractAverage(x, field) = w
  BY <1>1, <1>5, <1>6, <1>7 DEF SubtractAverage
<1>9. Home \in Copies
  BY DEF Home, Copies
<1>10. Sound(w) /\ SameGhosts(z, w) /\ w.sync = z.sync /\ w.flatStale = z.flatStale /\ Whole(w, Home)
  BY <1>4, <1>7, <1>9, WriteCurrent DEF Whole
<1>11. PICK y : y = MarkRootDeviceModified(w)
  OBVIOUS
<1>12. /\ Sound(y) /\ SameGhosts(w, y) /\ y.flatStale = w.flatStale /\ y.fresh = w.fresh
  BY <1>10, <1>11, MarkData
<1>13. Whole(y, Home) /\ SameGhosts(x, y) /\ y.flatStale = x.flatStale
  BY <1>3, <1>10, <1>12 DEF SameGhosts, Same, Whole, Has
<1>14. QED BY <1>8, <1>11, <1>12, <1>13
-----------------------------------------------------------------------------
(* Octets *)
\* work on octets leaves the copies of the root grid as current as they are
HostKept(x, y) == OnHost(y) /\ (Whole(x, Home) => Whole(y, Home))

\* What only changes arrays of the octets leaves the copies alone
LEMMA CopiesAlone ==
  ASSUME NEW x, OnHost(x), NEW y, Sound(y), y.fresh = x.fresh, y.sync = x.sync, y.flatStale = x.flatStale
  PROVE  HostKept(x, y)
BY DEF HostKept, OnHost, Whole, Has, FlatOk

\* Levels of octets and of the root grid have arrays
LEMMA LevelsHaveArrays ==
  ASSUME cfg \in Config, nref \in 0..MaxRef
  PROVE  /\ \A l \in Nat : l < FirstBlock => l \in Hierarchy(cfg)
         /\ NRoot \in Nat \ {0} /\ Top \in Nat /\ FirstBlock \in Nat /\ Top + 1 = NRoot /\ NRoot <= FirstBlock
         /\ nref = 0 <=> Top = FirstBlock - 1
         /\ NTotal - 1 = FirstBlock - 1 + (NBlk - 1) /\ NBlk \in Nat \ 0..2 /\ cfg.npre \in 0..2 /\ cfg.npost \in 0..2
         /\ Hierarchy(cfg) \subseteq Nat
<1>1. cfg.nroot \in Nat \ {0} /\ MaxRef \in Nat /\ NBlk \in Nat \ 0..2 /\ cfg.npre \in 0..2 /\ cfg.npost \in 0..2
  BY MultigridAssumption
<1>2. QED BY <1>1 DEF Hierarchy, NRoot, Top, FirstBlock, NTotal

\* Octets that are to be prolongated get ghost zones from octets beside them at least
LEMMA SetForProlongation ==
  ASSUME NEW x, OnHost(x), NEW l \in Hierarchy(cfg)
  PROVE  LET y == SetBoundariesOctets(x, l, TRUE)
         IN  HostKept(x, y) /\ Same(x, y) /\ y.ghost[l] \in {"same", "all"}
<1>1. PICK y : y = SetBoundariesOctets(x, l, TRUE)
  OBVIOUS
<1>2. y = [x EXCEPT !.ghost[l] = IF @ = "all" THEN @ ELSE "same"]
  BY <1>1 DEF SetBoundariesOctets
<1>3. /\ Grid(y) /\ Same(x, y) /\ y.bad = x.bad
      /\ y.ghost = [x.ghost EXCEPT ![l] = IF @ = "all" THEN @ ELSE "same"]
      /\ y.fresh = x.fresh /\ y.sync = x.sync /\ y.flatStale = x.flatStale
  BY <1>2 DEF OnHost, Sound, Grid, Fields, Same
<1>4. y.ghost \in [Hierarchy(cfg) -> {"old", "same", "leaf", "all"}] /\ y.ghost[l] \in {"same", "all"}
  BY <1>3 DEF OnHost, Sound, Arrays
<1>5. Sound(y)
  BY <1>3, <1>4 DEF OnHost, Sound, Arrays, Same
<1>6. HostKept(x, y)
  BY <1>3, <1>5, CopiesAlone
<1>7. QED BY <1>1, <1>3, <1>4, <1>6

\* Octets get all their ghost zones, the first ones from the flat buffers
LEMMA SetBoundariesData ==
  ASSUME NEW x, OnHost(x), NEW l \in Hierarchy(cfg)
  PROVE  LET y == SetBoundariesOctets(x, l, FALSE)
         IN  HostKept(x, y) /\ Same(x, y) /\ GhostsSet(y, l)
<1>1. PICK v : v = IF l = NRoot THEN ReadCopy(BuildRootFlatBuffers(x), "flat", {"u"}, {"leaf"}) ELSE x
  OBVIOUS
<1>2. HostKept(x, v) /\ SameGhosts(x, v)
  <2>1. CASE l = NRoot
    <3>1. PICK w : w = BuildRootFlatBuffers(x)
      OBVIOUS
    <3>2. OnHost(w) /\ SameGhosts(x, w) /\ ~w.flatStale /\ (Whole(x, Home) => Whole(w, Home))
      BY <3>1, BuildData
    <3>3. Has(w, "flat", {"u"}, {"leaf"})
      BY <3>2 DEF OnHost, FlatOk, Has
    <3>4. v = w
      BY <1>1, <2>1, <3>1, <3>3, ReadCurrent
    <3>5. QED BY <3>2, <3>4 DEF HostKept
  <2>2. CASE l # NRoot
    BY <1>1, <2>2 DEF HostKept, SameGhosts, Same
  <2>3. QED BY <2>1, <2>2
<1>3. PICK y : y = [v EXCEPT !.ghost[l] = "all"]
  OBVIOUS
<1>4. SetBoundariesOctets(x, l, FALSE) = y
  BY <1>1, <1>3 DEF SetBoundariesOctets
<1>5. /\ Grid(y) /\ Same(v, y) /\ y.bad = v.bad
      /\ y.ghost = [v.ghost EXCEPT ![l] = "all"]
      /\ y.fresh = v.fresh /\ y.sync = v.sync /\ y.flatStale = v.flatStale
  BY <1>2, <1>3 DEF HostKept, OnHost, Sound, Grid, Fields, Same
<1>6. y.ghost \in [Hierarchy(cfg) -> {"old", "same", "leaf", "all"}] /\ y.ghost[l] = "all"
  BY <1>2, <1>5 DEF HostKept, OnHost, Sound, Arrays
<1>7. Sound(y)
  BY <1>2, <1>5, <1>6 DEF HostKept, OnHost, Sound, Arrays, Same
<1>8. HostKept(v, y)
  BY <1>2, <1>5, <1>7, CopiesAlone DEF HostKept
<1>9. HostKept(x, y) /\ Same(x, y) /\ GhostsSet(y, l)
  BY <1>2, <1>5, <1>6, <1>8 DEF HostKept, SameGhosts, Same, GhostsSet
<1>10. QED BY <1>4, <1>9

\* A half sweep of octets reads ghost zones that were set
LEMMA SmoothOctetsData ==
  ASSUME NEW x, OnHost(x), NEW l, GhostsSet(x, l)
  PROVE  HostKept(x, SmoothOctets(x, l)) /\ Same(x, SmoothOctets(x, l))
<1>1. PICK y : y = SmoothOctets(x, l)
  OBVIOUS
<1>2. y = [x EXCEPT !.ghost[l] = "old"]
  BY <1>1, RightRead DEF SmoothOctets, NeedGhosts, GhostsSet
<1>3. /\ Grid(y) /\ Same(x, y) /\ y.bad = x.bad
      /\ y.ghost = [x.ghost EXCEPT ![l] = "old"]
      /\ y.fresh = x.fresh /\ y.sync = x.sync /\ y.flatStale = x.flatStale
  BY <1>2 DEF OnHost, Sound, Grid, Fields, Same
<1>4. y.ghost \in [Hierarchy(cfg) -> {"old", "same", "leaf", "all"}]
  BY <1>3 DEF OnHost, Sound, Arrays, GhostsSet
<1>5. Sound(y)
  BY <1>3, <1>4 DEF OnHost, Sound, Arrays, Same
<1>6. QED BY <1>1, <1>3, <1>5, CopiesAlone

\* Half sweeps of octets with their boundaries end with ghost zones set
LEMMA SweepOctetsThenSetData ==
  ASSUME NEW x, OnHost(x), NEW l \in Hierarchy(cfg), GhostsSet(x, l)
  PROVE  LET y == SweepOctetsThenSet(x, l)
         IN  HostKept(x, y) /\ Same(x, y) /\ GhostsSet(y, l)
<1>1. PICK v : v = SmoothOctets(x, l)
  OBVIOUS
<1>2. HostKept(x, v) /\ Same(x, v)
  BY <1>1, SmoothOctetsData
<1>3. PICK y : y = SetBoundariesOctets(v, l, FALSE)
  OBVIOUS
<1>4. HostKept(v, y) /\ Same(v, y) /\ GhostsSet(y, l)
  BY <1>2, <1>3, SetBoundariesData DEF HostKept
<1>5. HostKept(x, y) /\ Same(x, y)
  BY <1>2, <1>4, SameTrans DEF HostKept
<1>6. QED BY <1>1, <1>3, <1>4, <1>5 DEF SweepOctetsThenSet

\* A half sweep of octets that begins with its boundaries needs none before
LEMMA SetThenSweepOctetsData ==
  ASSUME NEW x, OnHost(x), NEW l \in Hierarchy(cfg)
  PROVE  LET y == SetThenSweepOctets(x, l)
         IN  HostKept(x, y) /\ Same(x, y)
<1>1. PICK v : v = SetBoundariesOctets(x, l, FALSE)
  OBVIOUS
<1>2. HostKept(x, v) /\ Same(x, v) /\ GhostsSet(v, l)
  BY <1>1, SetBoundariesData
<1>3. PICK y : y = SmoothOctets(v, l)
  OBVIOUS
<1>4. HostKept(v, y) /\ Same(v, y)
  BY <1>2, <1>3, SmoothOctetsData DEF HostKept
<1>5. HostKept(x, y) /\ Same(x, y)
  BY <1>2, <1>4, SameTrans DEF HostKept
<1>6. QED BY <1>1, <1>3, <1>5 DEF SetThenSweepOctets

\* The FAS equation of octets is made with ghost zones that were set
LEMMA OctetsEquated ==
  ASSUME NEW x, OnHost(x), NEW l \in Hierarchy(cfg), GhostsSet(x, l)
  PROVE  LET y == CalculateFASRHSOctets(StoreOldDataOctets(x, l), l)
         IN  HostKept(x, y) /\ GhostsSet(y, l) /\ Equated(x, y, l, TRUE)
<1>1. PICK v : v = StoreOldDataOctets(x, l)
  OBVIOUS
<1>2. v = [x EXCEPT !.old[l] = "now"]
  BY <1>1 DEF StoreOldDataOctets
<1>3. /\ Grid(v) /\ v.old = [x.old EXCEPT ![l] = "now"]
      /\ v.rootLevel = x.rootLevel /\ v.blockLevel = x.blockLevel /\ v.src = x.src /\ v.bsrc = x.bsrc
      /\ v.bold = x.bold /\ v.exchanged = x.exchanged /\ v.ghost = x.ghost /\ v.bad = x.bad
      /\ v.fresh = x.fresh /\ v.sync = x.sync /\ v.flatStale = x.flatStale
  BY <1>2 DEF OnHost, Sound, Grid, Fields
<1>4. NeedGhosts(v, l) = v
  BY <1>3, RightRead DEF NeedGhosts, GhostsSet
<1>5. PICK y : y = [v EXCEPT !.src[l] = InFas(@)]
  OBVIOUS
<1>6. CalculateFASRHSOctets(v, l) = y
  BY <1>4, <1>5 DEF CalculateFASRHSOctets, InFas
<1>7. /\ Grid(y) /\ y.src = [x.src EXCEPT ![l] = InFas(@)] /\ y.old = v.old
      /\ y.rootLevel = x.rootLevel /\ y.blockLevel = x.blockLevel /\ y.bsrc = x.bsrc
      /\ y.bold = x.bold /\ y.exchanged = x.exchanged /\ y.ghost = x.ghost /\ y.bad = x.bad
      /\ y.fresh = x.fresh /\ y.sync = x.sync /\ y.flatStale = x.flatStale
  BY <1>3, <1>5 DEF Grid, Fields
<1>8. y.src \in [Hierarchy(cfg) -> [leaf : Kinds, covered : Kinds]]
  BY <1>7, FasKinds DEF OnHost, Sound, Arrays
<1>9. y.old \in [Hierarchy(cfg) -> {"before", "now"}]
  BY <1>3, <1>7 DEF OnHost, Sound, Arrays
<1>10. Sound(y)
  BY <1>7, <1>8, <1>9 DEF OnHost, Sound, Arrays
<1>11. HostKept(x, y)
  BY <1>7, <1>10, CopiesAlone
<1>12. GhostsSet(y, l) /\ Equated(x, y, l, TRUE)
  BY <1>3, <1>7 DEF GhostsSet, Equated
<1>13. QED BY <1>1, <1>6, <1>11, <1>12

\* What is restricted to cells of the root grid reaches both of its copies
LEMMA ToRootCellsData ==
  ASSUME NEW x, OnHost(x), AtTop(x), Top \in Hierarchy(cfg), NEW fields, fields \in {{"u", "src"}, {"src"}}
  PROVE  LET y == ToRootCells(x, fields)
         IN  OnHost(y) /\ Whole(y, Home) /\ Same(x, y)
<1>1. PICK v : v = WriteCopy(x, "host", fields, {"covered"})
  OBVIOUS
<1>2. "host" \in Copies /\ fields \cap {"uold"} = {} /\ Sound(x)
  BY DEF Copies, OnHost
<1>3. /\ Sound(v) /\ SameGhosts(x, v) /\ v.sync = x.sync /\ v.flatStale = x.flatStale
      /\ \A F2, C2 : Has(x, "host", F2, C2) => Has(v, "host", F2, C2)
      /\ \A c2, F2, C2 : Has(x, c2, F2, C2) /\ (fields \cap F2 = {} \/ {"covered"} \cap C2 = {}) => Has(v, c2, F2, C2)
  BY <1>1, <1>2, WriteCurrent
<1>4. Whole(v, "host") /\ Has(v, Home, {"uold"}, Everywhere)
  BY <1>2, <1>3 DEF OnHost, Whole
<1>5. PICK z : z = [v EXCEPT !.flatStale = TRUE, !.sync = "host", !.ghost[Top] = "old"]
  OBVIOUS
<1>6. /\ Grid(z) /\ Same(x, z) /\ z.ghost = [x.ghost EXCEPT ![Top] = "old"] /\ z.flatStale = TRUE
      /\ z.sync = "host" /\ z.bad = v.bad /\ z.fresh = v.fresh
  BY <1>3, <1>5 DEF Sound, Grid, Fields, SameGhosts, Same
<1>7. z.ghost \in [Hierarchy(cfg) -> {"old", "same", "leaf", "all"}]
  BY <1>6 DEF OnHost, Sound, Arrays
<1>8. Sound(z) /\ Whole(z, "host") /\ Has(z, Home, {"uold"}, Everywhere)
  <2>1. Arrays(z)
    <3>1. /\ z.src = v.src /\ z.old = v.old /\ z.bsrc = v.bsrc /\ z.bold = v.bold
          /\ z.exchanged = v.exchanged
      BY <1>3, <1>6 DEF SameGhosts, Same
    <3>2. Arrays(v)
      BY <1>3 DEF Sound
    <3>3. QED BY <1>6, <1>7, <3>1, <3>2 DEF Arrays
  <2>2. Sound(z)
    BY <1>3, <1>6, <2>1 DEF Sound
  <2>3. Whole(z, "host") /\ Has(z, Home, {"uold"}, Everywhere)
    BY <1>4, <1>6 DEF Whole, Has
  <2>4. QED BY <2>2, <2>3
<1>9. AtTop(z)
  BY <1>6 DEF AtTop, Same
<1>10. PICK y : y = SyncRootToDevice(z)
  OBVIOUS
<1>11. /\ Sound(y) /\ SameGhosts(z, y) /\ y.flatStale = z.flatStale /\ y.sync # "device"
       /\ Whole(y, "host") /\ Whole(y, Home)
  BY <1>6, <1>8, <1>9, <1>10, SyncRootToDeviceData
<1>12. Has(y, Home, {"uold"}, Everywhere) /\ FlatOk(y)
  BY <1>6, <1>11 DEF Whole, Has, Kept, FlatOk
<1>13. Same(x, y)
  BY <1>6, <1>11 DEF SameGhosts, Same
<1>14. ToRootCells(x, fields) = y
  BY <1>1, <1>5, <1>10 DEF ToRootCells
<1>15. QED BY <1>11, <1>12, <1>13, <1>14 DEF OnHost

\* Restriction of octets reads ghost zones that were set; from the first ones the
\* root grid is current for its kernels too
LEMMA RestrictOctetsData ==
  ASSUME NEW x, OnHost(x), AtTop(x), Top \in Hierarchy(cfg),
         NEW l \in Hierarchy(cfg), l - 1 \in Hierarchy(cfg), GhostsSet(x, l)
  PROVE  LET y == RestrictOctets(x, l)
         IN  /\ OnHost(y) /\ (l = NRoot => Whole(y, Home))
             /\ Restricted(x, y, l, "defect") /\ y.rootLevel = x.rootLevel
<1>1. NeedGhosts(x, l) = x
  BY RightRead DEF NeedGhosts, GhostsSet
<1>2. PICK v : v = [x EXCEPT !.src[l - 1].covered = "defect", !.ghost[l - 1] = "old"]
  OBVIOUS
<1>3. /\ Grid(v) /\ v.src = [x.src EXCEPT ![l - 1].covered = "defect"]
      /\ v.ghost = [x.ghost EXCEPT ![l - 1] = "old"] /\ v.old = x.old
      /\ v.rootLevel = x.rootLevel /\ v.blockLevel = x.blockLevel /\ v.bsrc = x.bsrc
      /\ v.bold = x.bold /\ v.exchanged = x.exchanged /\ v.bad = x.bad
      /\ v.fresh = x.fresh /\ v.sync = x.sync /\ v.flatStale = x.flatStale
  BY <1>2 DEF OnHost, Sound, Grid, Fields
<1>4. v.src \in [Hierarchy(cfg) -> [leaf : Kinds, covered : Kinds]]
  <2>1. x.src \in [Hierarchy(cfg) -> [leaf : Kinds, covered : Kinds]] /\ "defect" \in Kinds
    BY DEF OnHost, Sound, Arrays, Kinds
  <2>2. QED BY <1>3, <2>1, SrcSet
<1>5. v.ghost \in [Hierarchy(cfg) -> {"old", "same", "leaf", "all"}]
  BY <1>3 DEF OnHost, Sound, Arrays
<1>6. Sound(v)
  BY <1>3, <1>4, <1>5 DEF OnHost, Sound, Arrays
<1>7. OnHost(v)
  BY <1>3, <1>6, CopiesAlone DEF HostKept
<1>8. Restricted(x, v, l, "defect") /\ AtTop(v)
  BY <1>3 DEF Restricted, AtTop
<1>9. CASE l = NRoot
  <2>1. RestrictOctets(x, l) = ToRootCells(v, {"u", "src"})
    BY <1>1, <1>2, <1>9 DEF RestrictOctets
  <2>2. PICK y : y = ToRootCells(v, {"u", "src"})
    OBVIOUS
  <2>3. OnHost(y) /\ Whole(y, Home) /\ Same(v, y)
    BY <1>7, <1>8, <2>2, ToRootCellsData
  <2>4. Restricted(x, y, l, "defect") /\ y.rootLevel = x.rootLevel
    BY <1>3, <1>8, <2>3 DEF Restricted, Same
  <2>5. QED BY <2>1, <2>2, <2>3, <2>4
<1>10. CASE l # NRoot
  <2>1. RestrictOctets(x, l) = v
    BY <1>1, <1>2, <1>10 DEF RestrictOctets
  <2>2. QED BY <1>3, <1>7, <1>8, <1>10, <2>1
<1>11. QED BY <1>9, <1>10

\* The source restricted through octets ends where octets refine cells
LEMMA RestrictFMGSourceOctetsData ==
  ASSUME NEW x, OnHost(x), AtTop(x), Top \in Hierarchy(cfg)
  PROVE  LET y == RestrictFMGSourceOctets(x)
         IN  /\ OnHost(y) /\ Whole(y, Home)
             /\ y.rootLevel = x.rootLevel /\ y.blockLevel = x.blockLevel
             /\ y.old = x.old /\ y.bsrc = x.bsrc /\ y.bold = x.bold /\ y.exchanged = x.exchanged
             /\ \A l \in Hierarchy(cfg) :
                  /\ y.src[l].leaf = x.src[l].leaf
                  /\ l \in (Octets \cup {Top}) \ {FirstBlock - 1} => y.src[l].covered = "source"
<1>1. PICK v : v = [x EXCEPT !.src = [l \in DOMAIN x.src |->
                 IF l \in (Octets \cup {Top}) \ {FirstBlock - 1}
                 THEN [x.src[l] EXCEPT !.covered = "source"] ELSE x.src[l]]]
  OBVIOUS
<1>2. x.src \in [Hierarchy(cfg) -> [leaf : Kinds, covered : Kinds]] /\ "source" \in Kinds
  BY DEF OnHost, Sound, Arrays, Kinds
<1>3. /\ Grid(v)
      /\ v.src = [l \in Hierarchy(cfg) |-> IF l \in (Octets \cup {Top}) \ {FirstBlock - 1}
                 THEN [x.src[l] EXCEPT !.covered = "source"] ELSE x.src[l]]
      /\ v.ghost = x.ghost /\ v.old = x.old
      /\ v.rootLevel = x.rootLevel /\ v.blockLevel = x.blockLevel /\ v.bsrc = x.bsrc
      /\ v.bold = x.bold /\ v.exchanged = x.exchanged /\ v.bad = x.bad
      /\ v.fresh = x.fresh /\ v.sync = x.sync /\ v.flatStale = x.flatStale
  BY <1>1, <1>2 DEF OnHost, Sound, Grid, Fields
<1>4. v.src \in [Hierarchy(cfg) -> [leaf : Kinds, covered : Kinds]]
  BY <1>2, <1>3
<1>5. Sound(v)
  BY <1>3, <1>4 DEF OnHost, Sound, Arrays
<1>6. OnHost(v) /\ AtTop(v)
  BY <1>3, <1>5, CopiesAlone DEF HostKept, AtTop
<1>7. PICK y : y = ToRootCells(v, {"src"})
  OBVIOUS
<1>8. OnHost(y) /\ Whole(y, Home) /\ Same(v, y)
  BY <1>6, <1>7, ToRootCellsData
<1>9. RestrictFMGSourceOctets(x) = y
  BY <1>1, <1>7 DEF RestrictFMGSourceOctets
<1>10. ASSUME NEW l \in Hierarchy(cfg)
       PROVE  /\ v.src[l].leaf = x.src[l].leaf
              /\ l \in (Octets \cup {Top}) \ {FirstBlock - 1} => v.src[l].covered = "source"
  BY <1>2, <1>3
<1>11. /\ y.rootLevel = x.rootLevel /\ y.blockLevel = x.blockLevel /\ y.src = v.src
       /\ y.old = x.old /\ y.bsrc = x.bsrc /\ y.bold = x.bold /\ y.exchanged = x.exchanged
  BY <1>3, <1>8 DEF Same
<1>12. \A l \in Hierarchy(cfg) :
         /\ y.src[l].leaf = x.src[l].leaf
         /\ l \in (Octets \cup {Top}) \ {FirstBlock - 1} => y.src[l].covered = "source"
  BY <1>10, <1>11
<1>13. QED BY <1>8, <1>9, <1>11, <1>12

\* Either prolongation to octets reads data that is current on the host, of octets
\* with ghost zones, or of the root grid
LEMMA ProlongateOctetsData ==
  ASSUME NEW x, NEW l \in Hierarchy(cfg), l + 1 \in Hierarchy(cfg), NEW corrects,
         l # Top => OnHost(x) /\ Whole(x, Home),
         l = Top => OnRoot(x) /\ AtTop(x) /\ (cfg.onHost \/ x.sync = "device"),
         x.ghost[l] \in {"same", "all"}
  PROVE  LET y == ProlongateOctets(x, l, corrects)
         IN  OnHost(y) /\ Whole(y, Home) /\ Same(x, y)
<1>1. Wrong(x, "ghost", x.ghost[l] \in {"same", "all"}) = x
  BY RightRead
<1>2. PICK z : z = IF l = Top
                   THEN ReadCopy(SyncRootToHost(x), "host", IF corrects THEN {"u", "uold"} ELSE {"u"}, Everywhere)
                   ELSE x
  OBVIOUS
<1>3. OnHost(z) /\ Whole(z, Home) /\ Same(x, z)
  <2>1. CASE l = Top
    <3>1. PICK w : w = SyncRootToHost(x)
      OBVIOUS
    <3>2. /\ Sound(w) /\ SameGhosts(x, w) /\ w.flatStale = x.flatStale /\ w.sync # "device"
          /\ Whole(w, "host") /\ Whole(w, Home)
      BY <2>1, <3>1, SyncRootToHostData DEF OnRoot
    <3>3. z = w
      <4>1. (IF corrects THEN {"u", "uold"} ELSE {"u"}) \subseteq Kept
        BY DEF Kept
      <4>2. QED BY <1>2, <2>1, <3>1, <3>2, <4>1, ReadWhole
    <3>4. Has(w, Home, {"uold"}, Everywhere) /\ FlatOk(w)
      BY <2>1, <3>2 DEF Whole, Has, Kept, OnRoot, FlatOk
    <3>5. QED BY <3>2, <3>3, <3>4 DEF OnHost, SameGhosts
  <2>2. CASE l # Top
    BY <1>2, <2>2 DEF Same
  <2>3. QED BY <2>1, <2>2
<1>4. PICK y : y = [z EXCEPT !.ghost[l + 1] = "old"]
  OBVIOUS
<1>5. ProlongateOctets(x, l, corrects) = y
  BY <1>1, <1>2, <1>4 DEF ProlongateOctets
<1>6. /\ Grid(y) /\ Same(z, y) /\ y.bad = z.bad
      /\ y.ghost = [z.ghost EXCEPT ![l + 1] = "old"]
      /\ y.fresh = z.fresh /\ y.sync = z.sync /\ y.flatStale = z.flatStale
  BY <1>3, <1>4 DEF OnHost, Sound, Grid, Fields, Same
<1>7. y.ghost \in [Hierarchy(cfg) -> {"old", "same", "leaf", "all"}]
  BY <1>3, <1>6 DEF OnHost, Sound, Arrays
<1>8. Sound(y)
  BY <1>3, <1>6, <1>7 DEF OnHost, Sound, Arrays, Same
<1>9. HostKept(z, y)
  BY <1>3, <1>6, <1>8, CopiesAlone
<1>10. QED BY <1>3, <1>5, <1>6, <1>9, SameTrans DEF HostKept

-----------------------------------------------------------------------------
(* Between the MeshBlocks and the grids below *)
\* grids y have what the MeshBlocks of x give to leaf cells
GivenByBlocks(x, y) ==
  /\ OnHost(y) /\ (nref = 0 => Whole(y, Home)) /\ AtTop(y)
  /\ y.blockLevel = x.blockLevel /\ y.old = x.old /\ y.bsrc = x.bsrc /\ y.bold = x.bold
  /\ y.exchanged = x.exchanged
  /\ \A l \in Hierarchy(cfg) :
       /\ y.src[l].covered = x.src[l].covered
       /\ y.src[l].leaf = IF l \in LeafLevels THEN x.bsrc[0] ELSE x.src[l].leaf

\* What MeshBlocks give the root grid is current on the host, and without octets on
\* the device too
LEMMA BlocksToRootData ==
  ASSUME cfg \in Config, nref \in 0..MaxRef, NEW x, OnHost(x), AtTop(x), NEW init
  PROVE  GivenByBlocks(x, TransferFromBlocksToRoot(x, init))
<1>1. PICK v : v = WriteCopy(x, "host", IF init THEN {"src"} ELSE {"u", "src"}, LeafCells)
  OBVIOUS
<1>2. "host" \in Copies /\ (IF init THEN {"src"} ELSE {"u", "src"}) \cap {"uold"} = {} /\ Sound(x)
  BY DEF Copies, OnHost
<1>3. /\ Sound(v) /\ SameGhosts(x, v) /\ v.sync = x.sync /\ v.flatStale = x.flatStale
      /\ \A F2, C2 : Has(x, "host", F2, C2) => Has(v, "host", F2, C2)
      /\ \A c2, F2, C2 : Has(x, c2, F2, C2) /\ ((IF init THEN {"src"} ELSE {"u", "src"}) \cap F2 = {} \/ LeafCells \cap C2 = {})
                         => Has(v, c2, F2, C2)
  BY <1>1, <1>2, WriteCurrent
<1>4. Whole(v, "host") /\ Has(v, Home, {"uold"}, Everywhere)
  BY <1>2, <1>3 DEF OnHost, Whole
<1>5. PICK z : z = [v EXCEPT
                 !.src = [l \in DOMAIN v.src |->
                       IF l \in LeafLevels THEN [v.src[l] EXCEPT !.leaf = x.bsrc[0]] ELSE v.src[l]],
                 !.ghost = [l \in DOMAIN v.ghost |->
                       IF l \in LeafLevels /\ ~init THEN "old" ELSE v.ghost[l]],
                 !.flatStale = TRUE, !.rootLevel = Top, !.sync = "host"]
  OBVIOUS
<1>6. TransferFromBlocksToRoot(x, init) = IF nref = 0 THEN SyncRootToDevice(z) ELSE z
  BY <1>1, <1>5 DEF TransferFromBlocksToRoot
<1>7. /\ x.src \in [Hierarchy(cfg) -> [leaf : Kinds, covered : Kinds]] /\ x.bsrc[0] \in Kinds
      /\ x.ghost \in [Hierarchy(cfg) -> {"old", "same", "leaf", "all"}]
  <2>1. 0 \in 0..(NBlk - 1)
    BY MultigridAssumption
  <2>2. QED BY <2>1 DEF OnHost, Sound, Arrays
<1>8. v.src = x.src /\ v.ghost = x.ghost /\ v.rootLevel = Top
  BY <1>3 DEF SameGhosts, Same, AtTop
<1>9. Top \in Int
  BY LevelsHaveArrays
<1>10. /\ Grid(z)
       /\ z.src = [l \in Hierarchy(cfg) |->
                       IF l \in LeafLevels THEN [x.src[l] EXCEPT !.leaf = x.bsrc[0]] ELSE x.src[l]]
       /\ z.ghost = [l \in Hierarchy(cfg) |-> IF l \in LeafLevels /\ ~init THEN "old" ELSE x.ghost[l]]
       /\ z.flatStale = TRUE /\ z.sync = "host" /\ z.fresh = v.fresh /\ z.bad = v.bad
       /\ z.rootLevel = Top /\ z.blockLevel = x.blockLevel /\ z.old = x.old /\ z.bsrc = x.bsrc
       /\ z.bold = x.bold /\ z.exchanged = x.exchanged
  BY <1>3, <1>5, <1>7, <1>8, <1>9 DEF Sound, Grid, Fields, SameGhosts, Same
<1>11. z.src \in [Hierarchy(cfg) -> [leaf : Kinds, covered : Kinds]]
  BY <1>7, <1>10
<1>12. z.ghost \in [Hierarchy(cfg) -> {"old", "same", "leaf", "all"}]
  BY <1>7, <1>10
<1>13. Sound(z) /\ Whole(z, "host") /\ Has(z, Home, {"uold"}, Everywhere) /\ AtTop(z)
  BY <1>3, <1>4, <1>8, <1>10, <1>11, <1>12 DEF OnHost, Sound, Arrays, Whole, Has, AtTop
<1>14. ASSUME NEW l \in Hierarchy(cfg)
       PROVE  /\ z.src[l].covered = x.src[l].covered
              /\ z.src[l].leaf = IF l \in LeafLevels THEN x.bsrc[0] ELSE x.src[l].leaf
  BY <1>7, <1>10
<1>15. CASE nref = 0
  <2>1. PICK y : y = SyncRootToDevice(z)
    OBVIOUS
  <2>2. /\ Sound(y) /\ SameGhosts(z, y) /\ y.flatStale = z.flatStale /\ y.sync # "device"
        /\ Whole(y, "host") /\ Whole(y, Home)
    BY <1>10, <1>13, <2>1, SyncRootToDeviceData
  <2>3. Has(y, Home, {"uold"}, Everywhere) /\ FlatOk(y)
    BY <1>10, <2>2 DEF Whole, Has, Kept, FlatOk
  <2>4. OnHost(y) /\ AtTop(y)
    BY <1>10, <2>2, <2>3 DEF OnHost, AtTop, SameGhosts, Same
  <2>5. /\ y.blockLevel = x.blockLevel /\ y.old = x.old /\ y.bsrc = x.bsrc /\ y.bold = x.bold
        /\ y.exchanged = x.exchanged /\ y.src = z.src
    BY <1>10, <2>2 DEF SameGhosts, Same
  <2>6. GivenByBlocks(x, y)
    BY <1>14, <2>2, <2>4, <2>5 DEF GivenByBlocks
  <2>7. TransferFromBlocksToRoot(x, init) = y
    BY <1>6, <1>15, <2>1
  <2>8. QED BY <2>6, <2>7
<1>16. CASE nref # 0
  <2>1. OnHost(z)
    BY <1>10, <1>13 DEF OnHost, FlatOk
  <2>2. GivenByBlocks(x, z)
    BY <1>10, <1>13, <1>14, <1>16, <2>1 DEF GivenByBlocks
  <2>3. QED BY <1>6, <1>16, <2>2
<1>17. QED BY <1>15, <1>16

\* ghost zones of octets and of a root grid that had them, before MeshBlocks take them
AroundLeaves(x) == \A l \in Hierarchy(cfg) : l \in LeafLevels => x.ghost[l] \in {"leaf", "all"}

\* Octets filled before the transfer read flat buffers that are current, and have
\* ghost zones around the cells that are MeshBlocks
LEMMA SetOctetsData ==
  ASSUME cfg \in Config, nref \in 0..MaxRef, NEW x, OnHost(x), x.ghost[Top] = "all", NEW fold
  PROVE  LET y == SetOctetsBeforeTransfer(x, fold) IN OnHost(y) /\ Same(x, y) /\ AroundLeaves(y)
<1>1. PICK v : v = WriteCopy(x, "host", {"u"}, {"covered"})
  OBVIOUS
<1>2. "host" \in Copies /\ {"u"} \cap {"uold"} = {} /\ {"covered"} \cap {"leaf"} = {} /\ Sound(x)
  BY DEF Copies, OnHost
<1>3. /\ Sound(v) /\ SameGhosts(x, v) /\ v.sync = x.sync /\ v.flatStale = x.flatStale
      /\ \A F2, C2 : Has(x, "host", F2, C2) => Has(v, "host", F2, C2)
      /\ \A c2, F2, C2 : Has(x, c2, F2, C2) /\ ({"u"} \cap F2 = {} \/ {"covered"} \cap C2 = {}) => Has(v, c2, F2, C2)
  BY <1>1, <1>2, WriteCurrent
<1>4. Whole(v, "host") /\ Has(v, Home, {"uold"}, Everywhere) /\ FlatOk(v)
  BY <1>2, <1>3 DEF OnHost, Whole, FlatOk
<1>5. PICK z, a : /\ a = [l \in DOMAIN x.ghost |->
                           CASE l \in Octets -> "leaf"
                             [] l = Top -> IF x.ghost[l] = "all" THEN "leaf" ELSE "old"
                             [] OTHER -> x.ghost[l]]
                 /\ z = [v EXCEPT !.sync = "host", !.ghost = a]
  OBVIOUS
<1>6. /\ Grid(z) /\ Same(x, z) /\ z.ghost = a /\ z.sync = "host" /\ z.bad = v.bad /\ z.fresh = v.fresh
      /\ z.flatStale = v.flatStale
  BY <1>3, <1>5 DEF Sound, Grid, Fields, SameGhosts, Same
<1>7. x.ghost \in [Hierarchy(cfg) -> {"old", "same", "leaf", "all"}]
  BY <1>2 DEF Sound, Arrays
<1>8. a = [l \in Hierarchy(cfg) |->
              CASE l \in Octets -> "leaf"
                [] l = Top -> IF x.ghost[l] = "all" THEN "leaf" ELSE "old"
                [] OTHER -> x.ghost[l]]
  BY <1>5, <1>7
<1>9. ASSUME NEW l \in Hierarchy(cfg)
       PROVE  /\ a[l] = CASE l \in Octets -> "leaf"
                           [] l = Top -> IF x.ghost[l] = "all" THEN "leaf" ELSE "old"
                           [] OTHER -> x.ghost[l]
              /\ a[l] \in {"old", "same", "leaf", "all"}
              /\ l \in LeafLevels => a[l] = "leaf"
  <2>1. a[l] = CASE l \in Octets -> "leaf"
                 [] l = Top -> IF x.ghost[l] = "all" THEN "leaf" ELSE "old"
                 [] OTHER -> x.ghost[l]
    BY <1>8
  <2>2. CASE l \in Octets
    BY <2>1, <2>2
  <2>3. CASE l \notin Octets /\ l = Top
    BY <2>1, <2>3
  <2>4. CASE l \notin Octets /\ l # Top
    <3>1. l \notin LeafLevels
      BY <2>4, LevelsHaveArrays DEF LeafLevels, Octets
    <3>2. a[l] = x.ghost[l]
      BY <2>1, <2>4
    <3>3. QED BY <1>7, <2>1, <3>1, <3>2
  <2>5. QED BY <2>2, <2>3, <2>4, <2>1
<1>10. a \in [Hierarchy(cfg) -> {"old", "same", "leaf", "all"}]
  BY <1>8, <1>9
<1>11. AroundLeaves(z)
  BY <1>6, <1>9 DEF AroundLeaves
<1>12. Sound(z)
  BY <1>3, <1>6, <1>10 DEF Sound, Arrays, SameGhosts, Same
<1>13. OnHost(z)
  BY <1>4, <1>6, <1>12 DEF OnHost, Whole, Has, FlatOk
<1>14. PICK w : w = BuildRootFlatBuffers(z)
  OBVIOUS
<1>15. OnHost(w) /\ SameGhosts(z, w) /\ ~w.flatStale
  BY <1>13, <1>14, BuildData
<1>16. Has(w, "flat", IF fold THEN {"u", "uold"} ELSE {"u"}, {"leaf"})
  BY <1>15 DEF OnHost, FlatOk, Has
<1>17. SetOctetsBeforeTransfer(x, fold) = w
  <2>1. SetOctetsBeforeTransfer(x, fold) = ReadCopy(w, "flat", IF fold THEN {"u", "uold"} ELSE {"u"}, {"leaf"})
    BY <1>1, <1>5, <1>14 DEF SetOctetsBeforeTransfer
  <2>2. QED BY <1>16, <2>1, ReadCurrent
<1>18. QED BY <1>6, <1>15, <1>17, <1>11 DEF SameGhosts, Same, AroundLeaves

FilledFrom(x, y, fold) ==
  /\ OnHost(y) /\ y.rootLevel = x.rootLevel /\ y.blockLevel = 0
  /\ y.src = x.src /\ y.old = x.old /\ y.bsrc = x.bsrc /\ y.exchanged = x.exchanged
  /\ y.bold = IF fold THEN [x.bold EXCEPT ![0] =
                             IF \A l \in LeafLevels : x.old[l] = "now" THEN "now" ELSE "before"]
              ELSE x.bold

\* MeshBlocks are filled from a root grid that is current on the host, and know uold
\* of this cycle if the levels below do
LEMMA RootToBlocksData ==
  ASSUME cfg \in Config, nref \in 0..MaxRef,
         NEW x, OnRoot(x), AtTop(x), cfg.onHost \/ x.sync = "device", x.ghost[Top] = "all", NEW fold
  PROVE  FilledFrom(x, TransferFromRootToBlocks(x, fold), fold)
<1>1. PICK v : v = SyncRootToHost(x)
  OBVIOUS
<1>2. /\ Sound(v) /\ SameGhosts(x, v) /\ v.flatStale = x.flatStale /\ v.sync # "device"
      /\ Whole(v, "host") /\ Whole(v, Home)
  BY <1>1, SyncRootToHostData DEF OnRoot
<1>3. OnHost(v)
  BY <1>2 DEF Whole, Has, Kept, OnRoot, FlatOk, OnHost
<1>4. PICK s : s = IF nref > 0 THEN SetOctetsBeforeTransfer(v, fold) ELSE v
  OBVIOUS
<1>5. OnHost(s) /\ Same(v, s) /\ AroundLeaves(s)
  <2>1. v.ghost[Top] = "all"
    BY <1>2 DEF SameGhosts
  <2>2. CASE nref > 0
    BY <1>3, <1>4, <2>1, <2>2, SetOctetsData
  <2>3. CASE ~(nref > 0)
    <3>1. LeafLevels = {Top}
      BY <2>3, LevelsHaveArrays DEF LeafLevels
    <3>2. QED BY <1>3, <1>4, <2>1, <2>3, <3>1 DEF Same, AroundLeaves
  <2>4. QED BY <2>2, <2>3
<1>6. Wrong(s, "ghost", \A l \in LeafLevels : s.ghost[l] \in {"leaf", "all"}) = s
  <2>1. LeafLevels \subseteq Hierarchy(cfg)
    BY LevelsHaveArrays DEF LeafLevels
  <2>2. QED BY <1>5, <2>1, RightRead DEF AroundLeaves
<1>7. PICK w : w = Wrong(s, "image", s.ghost[Top] = "all")
  OBVIOUS
<1>8. OnHost(w) /\ Same(v, w)
  <2>1. /\ Sound(w) /\ SameGhosts(s, w) /\ w.sync = s.sync /\ w.flatStale = s.flatStale
        /\ w.fresh = s.fresh
    BY <1>5, <1>7, RecordedOnly DEF OnHost
  <2>2. QED BY <1>5, <2>1, CopiesAlone, SameTrans DEF HostKept, SameGhosts
<1>9. ReadCopy(w, "host", IF fold THEN {"u", "uold"} ELSE {"u"}, Everywhere) = w
  <2>1. (IF fold THEN {"u", "uold"} ELSE {"u"}) \subseteq Kept
    BY DEF Kept
  <2>2. QED BY <1>8, <2>1, ReadWhole DEF OnHost
<1>10. PICK y : y = TransferFromRootToBlocks(x, fold)
  OBVIOUS
<1>11. y = SetFromRootGrid(s, fold)
  BY <1>1, <1>4, <1>10 DEF TransferFromRootToBlocks
<1>12. s.old = w.old
  BY <1>5, <1>7, RecordedOnly DEF OnHost, SameGhosts, Same
<1>13. y = [w EXCEPT !.blockLevel = 0,
                    !.bold[0] = IF fold
                                THEN IF \A l \in LeafLevels : w.old[l] = "now" THEN "now" ELSE "before"
                                ELSE @]
  <2>1. y = [w EXCEPT !.blockLevel = 0,
                      !.bold[0] = IF fold
                                  THEN IF \A l \in LeafLevels : s.old[l] = "now" THEN "now" ELSE "before"
                                  ELSE @]
    BY <1>9, <1>11, <1>6, <1>7 DEF SetFromRootGrid
  <2>2. QED BY <1>12, <2>1
<1>14. /\ y.blockLevel = 0 /\ y.rootLevel = w.rootLevel /\ y.src = w.src /\ y.old = w.old /\ y.bsrc = w.bsrc
       /\ y.exchanged = w.exchanged /\ y.ghost = w.ghost /\ y.bad = w.bad /\ y.fresh = w.fresh
       /\ y.sync = w.sync /\ y.flatStale = w.flatStale
       /\ y.bold = [w.bold EXCEPT ![0] = IF fold
                                THEN IF \A l \in LeafLevels : w.old[l] = "now" THEN "now" ELSE "before"
                                ELSE @]
  BY <1>8, <1>13 DEF OnHost, Sound, Grid, Fields
<1>15. Grid(y)
  BY <1>11, <1>5, SetFromRootGridToBlocks DEF ToBlocks, OnHost, Sound
<1>16. w.bold \in [0..(NBlk - 1) -> {"before", "now"}]
  BY <1>8 DEF OnHost, Sound, Arrays
<1>17. y.bold \in [0..(NBlk - 1) -> {"before", "now"}]
  <2>1. CASE fold
    <3>1. PICK e \in {"before", "now"} : y.bold = [w.bold EXCEPT ![0] = e]
      BY <1>14, <2>1
    <3>2. QED BY <1>16, <3>1
  <2>2. CASE ~fold
    <3>1. y.bold = [w.bold EXCEPT ![0] = @]
      BY <1>14, <2>2
    <3>2. QED BY <1>16, <3>1
  <2>3. QED BY <2>1, <2>2
<1>18. Sound(y)
  BY <1>8, <1>14, <1>15, <1>17 DEF OnHost, Sound, Arrays
<1>19. OnHost(y)
  BY <1>8, <1>14, <1>18, CopiesAlone DEF HostKept
<1>20. y.bold = IF fold THEN [x.bold EXCEPT ![0] =
                               IF \A l \in LeafLevels : x.old[l] = "now" THEN "now" ELSE "before"]
                ELSE x.bold
  <2>1. w.bold = x.bold /\ w.old = x.old
    BY <1>2, <1>8 DEF SameGhosts, Same
  <2>2. CASE fold
    BY <1>14, <2>1, <2>2
  <2>3. CASE ~fold
    BY <1>14, <1>16, <2>1, <2>3
  <2>4. QED BY <2>2, <2>3
<1>21. QED BY <1>2, <1>8, <1>10, <1>14, <1>19, <1>20 DEF SameGhosts, Same, FilledFrom
-----------------------------------------------------------------------------
(* Steps of a cycle *)
\* what a step down from level l of the root grid or of octets does to the equations
StepsDown(x, y, l) ==
  /\ y.bsrc = x.bsrc /\ y.bold = x.bold /\ y.exchanged = x.exchanged
  /\ \A k \in Hierarchy(cfg) :
       /\ y.old[k] = IF k = l /\ BelowFinest(l) THEN "now" ELSE x.old[k]
       /\ y.src[k].leaf = IF k = l /\ BelowFinest(l) THEN Fas(x.src[k].leaf) ELSE x.src[k].leaf
       /\ y.src[k].covered = IF k = l - 1 THEN "defect"
                             ELSE IF k = l /\ BelowFinest(l) THEN Fas(x.src[k].covered)
                             ELSE x.src[k].covered

\* The equation is made at one level and the defect goes to the next
LEMMA EquatedAndRestricted ==
  ASSUME NEW x, Sound(x), NEW z, NEW y, NEW l \in Int, l \in Hierarchy(cfg), l - 1 \in Hierarchy(cfg),
         Equated(x, z, l, BelowFinest(l)), Restricted(z, y, l, "defect")
  PROVE  StepsDown(x, y, l)
<1>1. /\ x.src \in [Hierarchy(cfg) -> [leaf : Kinds, covered : Kinds]]
      /\ x.old \in [Hierarchy(cfg) -> {"before", "now"}]
  BY DEF Sound, Arrays
<1>2. z.src = (IF BelowFinest(l) THEN [x.src EXCEPT ![l] = InFas(@)] ELSE x.src)
      /\ z.old = IF BelowFinest(l) THEN [x.old EXCEPT ![l] = "now"] ELSE x.old
  BY DEF Equated
<1>3. y.src = [z.src EXCEPT ![l - 1].covered = "defect"] /\ y.old = z.old
  BY DEF Restricted
<1>4. z.src \in [Hierarchy(cfg) -> [leaf : Kinds, covered : Kinds]]
  BY <1>1, <1>2, FasKinds
<1>5. ASSUME NEW k \in Hierarchy(cfg)
      PROVE  /\ z.src[k].leaf = IF k = l /\ BelowFinest(l) THEN Fas(x.src[k].leaf) ELSE x.src[k].leaf
             /\ z.src[k].covered = IF k = l /\ BelowFinest(l) THEN Fas(x.src[k].covered)
                                   ELSE x.src[k].covered
             /\ z.old[k] = IF k = l /\ BelowFinest(l) THEN "now" ELSE x.old[k]
  <2>1. CASE BelowFinest(l)
    BY <1>1, <1>2, <2>1 DEF InFas
  <2>2. CASE ~BelowFinest(l)
    BY <1>2, <2>2
  <2>3. QED BY <2>1, <2>2
<1>6. ASSUME NEW k \in Hierarchy(cfg)
      PROVE  /\ y.src[k].leaf = z.src[k].leaf
             /\ y.src[k].covered = IF k = l - 1 THEN "defect" ELSE z.src[k].covered
  BY <1>3, <1>4
<1>7. QED BY <1>3, <1>5, <1>6 DEF StepsDown, Equated, Restricted

\* A step down on the root grid
LEMMA RootToCoarserData ==
  ASSUME cfg \in Config, nref \in 0..MaxRef, NEW x, Sound(x), Whole(x, Home),
         x.rootLevel = level, level \in Nat \ {0}, level <= Top
  PROVE  LET y == RootToCoarser(x) IN OnRoot(y) /\ StepsDown(x, y, level)
<1>1. level \in Hierarchy(cfg) /\ level - 1 \in Hierarchy(cfg) /\ cfg.npre \in 0..2
  BY LevelsHaveArrays
<1>2. PICK v : v = MGRootBoundary(x)
  OBVIOUS
<1>3. OnRoot(v) /\ Same(x, v) /\ v.ghost = [x.ghost EXCEPT ![x.rootLevel] = "all"]
  BY <1>1, <1>2, MGRootBoundaryData
<1>4. GhostsSet(v, v.rootLevel)
  BY <1>1, <1>3 DEF GhostsSet, Same, Sound, Arrays
<1>5. PICK z : z = IF BelowFinest(level) THEN FASEquation(v) ELSE v
  OBVIOUS
<1>6. OnRoot(z) /\ GhostsSet(z, z.rootLevel) /\ Equated(x, z, level, BelowFinest(level))
  <2>1. CASE BelowFinest(level)
    <3>1. OnRoot(z) /\ z.ghost = v.ghost /\ Equated(v, z, v.rootLevel, TRUE)
      BY <1>3, <1>4, <1>5, <2>1, FASEquationData
    <3>2. GhostsSet(z, z.rootLevel)
      BY <1>4, <3>1 DEF GhostsSet, Equated
    <3>3. Equated(x, z, level, BelowFinest(level))
      BY <1>3, <2>1, <3>1 DEF Equated, Same
    <3>4. QED BY <3>1, <3>2, <3>3
  <2>2. CASE ~BelowFinest(level)
    BY <1>3, <1>4, <1>5, <2>2 DEF Equated, Same
  <2>3. QED BY <2>1, <2>2
<1>7. PICK w : w = Repeat(z, cfg.npre, SweepThenBoundary)
  OBVIOUS
<1>8. OnRoot(w) /\ GhostsSet(w, w.rootLevel) /\ Same(z, w)
  <2>1. PICK a : a = SweepThenBoundary(z)
    OBVIOUS
  <2>2. OnRoot(a) /\ Same(z, a) /\ GhostsSet(a, a.rootLevel)
    BY <1>6, <2>1, SweepThenBoundaryData
  <2>3. PICK b : b = SweepThenBoundary(a)
    OBVIOUS
  <2>4. OnRoot(b) /\ Same(a, b) /\ GhostsSet(b, b.rootLevel)
    BY <2>2, <2>3, SweepThenBoundaryData
  <2>5. w = z \/ w = a \/ w = b
    BY <1>1, <1>7, <2>1, <2>3 DEF Repeat
  <2>6. Same(z, z) /\ Same(z, b)
    BY <2>2, <2>4, SameTrans DEF Same
  <2>7. QED BY <1>6, <2>2, <2>4, <2>5, <2>6
<1>9. w.rootLevel = level /\ Equated(x, w, level, BelowFinest(level))
  BY <1>6, <1>8 DEF Equated, Same
<1>10. PICK y : y = MarkRootDeviceModified(RestrictPack(w))
  OBVIOUS
<1>11. OnRoot(y) /\ Restricted(w, y, level, "defect")
  BY <1>1, <1>8, <1>9, <1>10, RestrictPackData
<1>12. StepsDown(x, y, level)
  BY <1>1, <1>9, <1>11, EquatedAndRestricted
<1>13. RootToCoarser(x) = y
  BY <1>2, <1>5, <1>7, <1>10 DEF RootToCoarser
<1>14. QED BY <1>11, <1>12, <1>13

\* A step down on octets; from the first ones to a root grid current for its kernels
LEMMA OctetsToCoarserData ==
  ASSUME cfg \in Config, nref \in 0..MaxRef, NEW x, OnHost(x), AtTop(x),
         NEW l \in Nat, l > Top, l < FirstBlock
  PROVE  LET y == OctetsToCoarser(x, l)
         IN  OnHost(y) /\ (l = NRoot => Whole(y, Home)) /\ StepsDown(x, y, l)
<1>1. l \in Hierarchy(cfg) /\ l - 1 \in Hierarchy(cfg) /\ Top \in Hierarchy(cfg) /\ cfg.npre \in 0..2
  BY LevelsHaveArrays
<1>2. PICK v : v = SetBoundariesOctets(x, l, FALSE)
  OBVIOUS
<1>3. HostKept(x, v) /\ Same(x, v) /\ GhostsSet(v, l)
  BY <1>1, <1>2, SetBoundariesData
<1>4. PICK z : z = IF BelowFinest(l) THEN CalculateFASRHSOctets(StoreOldDataOctets(v, l), l) ELSE v
  OBVIOUS
<1>5. OnHost(z) /\ GhostsSet(z, l) /\ Equated(x, z, l, BelowFinest(l))
  <2>1. CASE BelowFinest(l)
    <3>1. HostKept(v, z) /\ GhostsSet(z, l) /\ Equated(v, z, l, TRUE)
      BY <1>1, <1>3, <1>4, <2>1, OctetsEquated DEF HostKept
    <3>2. QED BY <1>3, <2>1, <3>1 DEF Equated, Same, HostKept
  <2>2. CASE ~BelowFinest(l)
    BY <1>3, <1>4, <2>2 DEF Equated, Same, HostKept
  <2>3. QED BY <2>1, <2>2
<1>6. PICK w : w = Repeat(z, cfg.npre, LAMBDA u : SweepOctetsThenSet(SweepOctetsThenSet(u, l), l))
  OBVIOUS
<1>7. ASSUME NEW a, OnHost(a), GhostsSet(a, l)
      PROVE  LET b == SweepOctetsThenSet(SweepOctetsThenSet(a, l), l)
             IN  OnHost(b) /\ GhostsSet(b, l) /\ Same(a, b)
  <2>1. PICK c : c = SweepOctetsThenSet(a, l)
    OBVIOUS
  <2>2. OnHost(c) /\ Same(a, c) /\ GhostsSet(c, l)
    BY <1>1, <1>7, <2>1, SweepOctetsThenSetData DEF HostKept
  <2>3. PICK b : b = SweepOctetsThenSet(c, l)
    OBVIOUS
  <2>4. OnHost(b) /\ Same(c, b) /\ GhostsSet(b, l)
    BY <1>1, <2>2, <2>3, SweepOctetsThenSetData DEF HostKept
  <2>5. QED BY <2>1, <2>2, <2>3, <2>4, SameTrans
<1>8. OnHost(w) /\ GhostsSet(w, l) /\ Same(z, w)
  <2>1. PICK a : a = SweepOctetsThenSet(SweepOctetsThenSet(z, l), l)
    OBVIOUS
  <2>2. OnHost(a) /\ GhostsSet(a, l) /\ Same(z, a)
    BY <1>5, <1>7, <2>1
  <2>3. PICK b : b = SweepOctetsThenSet(SweepOctetsThenSet(a, l), l)
    OBVIOUS
  <2>4. OnHost(b) /\ GhostsSet(b, l) /\ Same(a, b)
    BY <1>7, <2>2, <2>3
  <2>5. w = z \/ w = a \/ w = b
    BY <1>1, <1>6, <2>1, <2>3 DEF Repeat
  <2>6. Same(z, z) /\ Same(z, b)
    BY <2>2, <2>4, SameTrans DEF Same
  <2>7. QED BY <1>5, <2>2, <2>4, <2>5, <2>6
<1>9. AtTop(w) /\ Equated(x, w, l, BelowFinest(l))
  BY <1>5, <1>8 DEF Equated, Same, AtTop
<1>10. PICK y : y = RestrictOctets(w, l)
  OBVIOUS
<1>11. OnHost(y) /\ (l = NRoot => Whole(y, Home)) /\ Restricted(w, y, l, "defect")
  BY <1>1, <1>8, <1>9, <1>10, RestrictOctetsData
<1>12. StepsDown(x, y, l)
  BY <1>1, <1>9, <1>11, EquatedAndRestricted DEF OnHost
<1>13. OctetsToCoarser(x, l) = y
  BY <1>2, <1>4, <1>6, <1>10 DEF OctetsToCoarser
<1>14. QED BY <1>11, <1>12, <1>13

\* A step down on MeshBlocks; from their first level to the grids below
LEMMA BlocksToCoarserData ==
  ASSUME cfg \in Config, nref \in 0..MaxRef, NEW x, OnHost(x), AtTop(x),
         NEW l \in Nat, l >= FirstBlock, l <= NTotal - 1, x.blockLevel = l - (FirstBlock - 1)
  PROVE  LET y == BlocksToCoarser(x, l)
             b == x.blockLevel
         IN  /\ OnHost(y) /\ (l = FirstBlock /\ nref = 0 => Whole(y, Home))
             /\ y.old = x.old /\ y.exchanged = x.exchanged
             /\ \A k \in 0..(NBlk - 1) :
                  /\ y.bold[k] = IF k = b /\ BelowFinest(l) THEN "now" ELSE x.bold[k]
                  /\ y.bsrc[k] = IF k = b - 1 THEN "defect"
                                 ELSE IF k = b /\ BelowFinest(l) THEN Fas(x.bsrc[k]) ELSE x.bsrc[k]
             /\ l # FirstBlock => y.src = x.src
             /\ l = FirstBlock => \A k \in Hierarchy(cfg) :
                  /\ y.src[k].covered = x.src[k].covered
                  /\ y.src[k].leaf = IF k \in LeafLevels THEN "defect" ELSE x.src[k].leaf
<1>1. PICK b : b = x.blockLevel
  OBVIOUS
<1>2. b \in 1..(NBlk - 1) /\ b \in 0..(NBlk - 1) /\ b - 1 \in 0..(NBlk - 1) /\ b # b - 1 /\ (l = FirstBlock => b - 1 = 0)
  BY <1>1, LevelsHaveArrays
<1>3. PICK v : v = IF BelowFinest(l) THEN [x EXCEPT !.bold[b] = "now", !.bsrc[b] = Fas(@)] ELSE x
  OBVIOUS
<1>4. /\ x.bsrc \in [0..(NBlk - 1) -> Kinds] /\ x.bold \in [0..(NBlk - 1) -> {"before", "now"}]
      /\ \A s \in Kinds : Fas(s) \in Kinds /\ "defect" \in Kinds
  BY DEF OnHost, Sound, Arrays, Kinds, Fas
<1>5. /\ Grid(v) /\ v.src = x.src /\ v.old = x.old /\ v.exchanged = x.exchanged /\ v.ghost = x.ghost
      /\ v.rootLevel = x.rootLevel /\ v.blockLevel = b /\ v.bad = x.bad
      /\ v.fresh = x.fresh /\ v.sync = x.sync /\ v.flatStale = x.flatStale
      /\ v.bold = (IF BelowFinest(l) THEN [x.bold EXCEPT ![b] = "now"] ELSE x.bold)
      /\ v.bsrc = (IF BelowFinest(l) THEN [x.bsrc EXCEPT ![b] = Fas(@)] ELSE x.bsrc)
  <2>1. CASE BelowFinest(l)
    <3>1. v = [x EXCEPT !.bold[b] = "now", !.bsrc[b] = Fas(@)]
      BY <1>3, <2>1
    <3>2. QED BY <1>1, <2>1, <3>1 DEF OnHost, Sound, Grid, Fields
  <2>2. CASE ~BelowFinest(l)
    BY <1>1, <1>3, <2>2 DEF OnHost, Sound
  <2>3. QED BY <2>1, <2>2
<1>6. v.bsrc \in [0..(NBlk - 1) -> Kinds] /\ v.bold \in [0..(NBlk - 1) -> {"before", "now"}]
  <2>1. CASE BelowFinest(l)
    <3>1. v.bold = [x.bold EXCEPT ![b] = "now"] /\ v.bsrc = [x.bsrc EXCEPT ![b] = Fas(@)]
      BY <1>5, <2>1
    <3>2. Fas(x.bsrc[b]) \in Kinds
      BY <1>2, <1>4
    <3>3. v.bsrc \in [0..(NBlk - 1) -> Kinds]
      BY <1>4, <3>1, <3>2
    <3>4. v.bold \in [0..(NBlk - 1) -> {"before", "now"}]
      BY <1>4, <3>1
    <3>5. QED BY <3>3, <3>4
  <2>2. CASE ~BelowFinest(l)
    BY <1>4, <1>5, <2>2
  <2>3. QED BY <2>1, <2>2
<1>7. PICK z : z = [v EXCEPT !.bsrc[b - 1] = "defect", !.blockLevel = b - 1]
  OBVIOUS
<1>8. /\ z.src = x.src /\ z.old = x.old /\ z.exchanged = x.exchanged /\ z.ghost = x.ghost
      /\ z.rootLevel = x.rootLevel /\ z.blockLevel = b - 1 /\ z.bad = x.bad
      /\ z.fresh = x.fresh /\ z.sync = x.sync /\ z.flatStale = x.flatStale
      /\ z.bold = v.bold /\ z.bsrc = [v.bsrc EXCEPT ![b - 1] = "defect"]
  BY <1>5, <1>7 DEF Grid, Fields
<1>9. Grid(z)
  <2>1. PICK a : a = [v EXCEPT !.bsrc[b - 1] = "defect"]
    OBVIOUS
  <2>2. Grid(a)
    BY <1>5, <2>1 DEF Grid, Fields
  <2>3. z = [a EXCEPT !.blockLevel = b - 1]
    BY <1>5, <1>7, <2>1 DEF Grid, Fields
  <2>4. b - 1 \in Int
    BY <1>2
  <2>5. QED BY <2>2, <2>3, <2>4, BlockLevelSet
<1>10. z.bsrc \in [0..(NBlk - 1) -> Kinds]
  <2>1. "defect" \in Kinds
    BY DEF Kinds
  <2>2. QED BY <1>2, <1>6, <1>8, <2>1
<1>11. Sound(z)
  BY <1>6, <1>8, <1>9, <1>10 DEF OnHost, Sound, Arrays
<1>12. OnHost(z) /\ AtTop(z)
  BY <1>8, <1>11, CopiesAlone DEF HostKept, AtTop
<1>13. ASSUME NEW k \in 0..(NBlk - 1)
       PROVE  /\ z.bold[k] = IF k = b /\ BelowFinest(l) THEN "now" ELSE x.bold[k]
              /\ z.bsrc[k] = IF k = b - 1 THEN "defect"
                             ELSE IF k = b /\ BelowFinest(l) THEN Fas(x.bsrc[k]) ELSE x.bsrc[k]
  <2>1. z.bold[k] = v.bold[k] /\ z.bsrc[k] = IF k = b - 1 THEN "defect" ELSE v.bsrc[k]
    <3>1. z.bold = v.bold /\ z.bsrc = [v.bsrc EXCEPT ![b - 1] = "defect"]
      BY <1>8
    <3>2. QED BY <1>6, <3>1
  <2>2. /\ v.bold[k] = IF k = b /\ BelowFinest(l) THEN "now" ELSE x.bold[k]
        /\ v.bsrc[k] = IF k = b /\ BelowFinest(l) THEN Fas(x.bsrc[k]) ELSE x.bsrc[k]
    <3>1. CASE BelowFinest(l)
      <4>1. v.bold = [x.bold EXCEPT ![b] = "now"] /\ v.bsrc = [x.bsrc EXCEPT ![b] = Fas(@)]
        BY <1>5, <3>1
      <4>2. QED BY <1>4, <3>1, <4>1
    <3>2. CASE ~BelowFinest(l)
      BY <1>5, <3>2
    <3>3. QED BY <3>1, <3>2
  <2>3. QED BY <2>1, <2>2
<1>14. BlocksToCoarser(x, l) = IF l = FirstBlock THEN TransferFromBlocksToRoot(z, FALSE) ELSE z
  BY <1>1, <1>3, <1>7 DEF BlocksToCoarser
<1>15. CASE l = FirstBlock
  <2>1. PICK y : y = TransferFromBlocksToRoot(z, FALSE)
    OBVIOUS
  <2>2. /\ OnHost(y) /\ (nref = 0 => Whole(y, Home))
        /\ y.old = z.old /\ y.bsrc = z.bsrc /\ y.bold = z.bold /\ y.exchanged = z.exchanged
        /\ \A k \in Hierarchy(cfg) :
             /\ y.src[k].covered = z.src[k].covered
             /\ y.src[k].leaf = IF k \in LeafLevels THEN z.bsrc[0] ELSE z.src[k].leaf
    <3>1. GivenByBlocks(z, y)
      BY <1>12, <2>1, BlocksToRootData
    <3>2. QED BY <3>1 DEF GivenByBlocks
  <2>3. z.bsrc[0] = "defect"
    BY <1>2, <1>13, <1>15
  <2>4. \A k \in 0..(NBlk - 1) :
          /\ y.bold[k] = IF k = b /\ BelowFinest(l) THEN "now" ELSE x.bold[k]
          /\ y.bsrc[k] = IF k = b - 1 THEN "defect"
                         ELSE IF k = b /\ BelowFinest(l) THEN Fas(x.bsrc[k]) ELSE x.bsrc[k]
    BY <1>13, <2>2
  <2>5. \A k \in Hierarchy(cfg) :
          /\ y.src[k].covered = x.src[k].covered
          /\ y.src[k].leaf = IF k \in LeafLevels THEN "defect" ELSE x.src[k].leaf
    BY <1>8, <2>2, <2>3
  <2>6. y.old = x.old /\ y.exchanged = x.exchanged /\ OnHost(y) /\ (nref = 0 => Whole(y, Home))
    BY <1>8, <2>2
  <2>7. BlocksToCoarser(x, l) = y
    BY <1>14, <1>15, <2>1
  <2>8. QED BY <1>1, <1>15, <2>4, <2>5, <2>6, <2>7
<1>16. CASE l # FirstBlock
  <2>1. BlocksToCoarser(x, l) = z
    BY <1>14, <1>16
  <2>2. OnHost(z) /\ z.old = x.old /\ z.exchanged = x.exchanged /\ z.src = x.src
    BY <1>8, <1>12
  <2>3. QED BY <1>1, <1>13, <1>16, <2>1, <2>2
<1>17. QED BY <1>15, <1>16

\* what prolongation leaves alone
SameData(x, y) == y.src = x.src /\ y.old = x.old /\ y.bsrc = x.bsrc /\ y.bold = x.bold /\ y.exchanged = x.exchanged

\* The boundary set, with ghost zones, is all that prolongation on the root grid needs
LEMMA BoundaryAndProlongate ==
  ASSUME cfg \in Config, nref \in 0..MaxRef, NEW x, Sound(x), Whole(x, Home),
         NEW l \in Nat, x.rootLevel = l, l < Top, NEW adds
  PROVE  LET y == MarkRootDeviceModified(Prolongate(MGRootBoundary(x), adds))
         IN  OnRoot(y) /\ SameData(x, y) /\ y.rootLevel = l + 1
<1>1. l \in Hierarchy(cfg) /\ l + 1 \in Hierarchy(cfg)
  BY LevelsHaveArrays
<1>2. PICK v : v = MGRootBoundary(x)
  OBVIOUS
<1>3. OnRoot(v) /\ Same(x, v) /\ v.ghost = [x.ghost EXCEPT ![x.rootLevel] = "all"]
  BY <1>1, <1>2, MGRootBoundaryData
<1>4. GhostsSet(v, v.rootLevel) /\ v.rootLevel = l
  BY <1>1, <1>3 DEF GhostsSet, Same, Sound, Arrays
<1>5. PICK y : y = MarkRootDeviceModified(Prolongate(v, adds))
  OBVIOUS
<1>6. /\ OnRoot(y) /\ y.rootLevel = l + 1
      /\ y.src = v.src /\ y.old = v.old /\ y.bsrc = v.bsrc /\ y.bold = v.bold
      /\ y.exchanged = v.exchanged
  BY <1>1, <1>3, <1>4, <1>5, ProlongateData
<1>7. SameData(x, y)
  BY <1>3, <1>6 DEF SameData, Same
<1>8. QED BY <1>2, <1>5, <1>6, <1>7

\* A step up on the root grid
LEMMA RootToFinerData ==
  ASSUME cfg \in Config, nref \in 0..MaxRef, NEW x, Sound(x), Whole(x, Home),
         NEW l \in Nat, x.rootLevel = l, l < Top
  PROVE  LET y == RootToFiner(x) IN OnRoot(y) /\ SameData(x, y)
<1>1. l + 1 \in Hierarchy(cfg) /\ cfg.npost \in 0..2
  BY LevelsHaveArrays
<1>2. PICK v : v = MarkRootDeviceModified(Prolongate(MGRootBoundary(x), TRUE))
  OBVIOUS
<1>3. OnRoot(v) /\ SameData(x, v) /\ v.rootLevel = l + 1
  BY <1>2, BoundaryAndProlongate
<1>4. PICK a : a = BoundaryThenSweep(v)
  OBVIOUS
<1>5. OnRoot(a) /\ Same(v, a)
  BY <1>1, <1>3, <1>4, BoundaryThenSweepData
<1>6. PICK b : b = BoundaryThenSweep(a)
  OBVIOUS
<1>7. OnRoot(b) /\ Same(a, b)
  <2>1. a.rootLevel \in Hierarchy(cfg)
    BY <1>1, <1>3, <1>5 DEF Same
  <2>2. QED BY <1>5, <1>6, <2>1, BoundaryThenSweepData
<1>8. PICK y : y = RootToFiner(x)
  OBVIOUS
<1>9. y = Repeat(v, cfg.npost, BoundaryThenSweep)
  BY <1>2, <1>8 DEF RootToFiner
<1>10. y = v \/ y = a \/ y = b
  BY <1>1, <1>4, <1>6, <1>9 DEF Repeat
<1>11. SameData(x, a) /\ SameData(x, b)
  BY <1>3, <1>5, <1>7 DEF SameData, Same
<1>12. QED BY <1>3, <1>5, <1>7, <1>8, <1>10, <1>11

\* Boundaries of the level below are all that prolongation to octets needs
LEMMA BoundaryAndProlongateOctets ==
  ASSUME cfg \in Config, nref \in 0..MaxRef, NEW x, Sound(x), Whole(x, Home), AtTop(x),
         NEW l \in Nat, l >= Top, l < FirstBlock - 1, l > Top => OnHost(x), NEW corrects
  PROVE  LET y == ProlongateOctets(IF l = Top THEN MGRootBoundary(x) ELSE SetBoundariesOctets(x, l, TRUE),
                                   l, corrects)
         IN  OnHost(y) /\ Whole(y, Home) /\ Same(x, y)
<1>1. l \in Hierarchy(cfg) /\ l + 1 \in Hierarchy(cfg) /\ Top \in Nat
  BY LevelsHaveArrays
<1>2. PICK v : v = IF l = Top THEN MGRootBoundary(x) ELSE SetBoundariesOctets(x, l, TRUE)
  OBVIOUS
<1>3. PICK y : y = ProlongateOctets(v, l, corrects)
  OBVIOUS
<1>4. CASE l = Top
  <2>1. /\ OnRoot(v) /\ Same(x, v) /\ (cfg.onHost \/ v.sync = "device")
        /\ v.ghost = [x.ghost EXCEPT ![x.rootLevel] = "all"]
    BY <1>1, <1>2, <1>4, MGRootBoundaryData DEF AtTop
  <2>2. v.ghost[l] \in {"same", "all"} /\ AtTop(v)
    BY <1>1, <1>4, <2>1 DEF AtTop, Same, Sound, Arrays
  <2>3. OnHost(y) /\ Whole(y, Home) /\ Same(v, y)
    BY <1>1, <1>3, <1>4, <2>1, <2>2, ProlongateOctetsData
  <2>4. Same(x, y)
    BY <2>1, <2>3, SameTrans
  <2>5. QED BY <1>2, <1>3, <2>3, <2>4
<1>5. CASE l # Top
  <2>1. HostKept(x, v) /\ Same(x, v) /\ v.ghost[l] \in {"same", "all"}
    <3>1. OnHost(x) /\ v = SetBoundariesOctets(x, l, TRUE)
      BY <1>1, <1>2, <1>5
    <3>2. QED BY <1>1, <3>1, SetForProlongation
  <2>2. OnHost(y) /\ Whole(y, Home) /\ Same(v, y)
    BY <1>1, <1>3, <1>5, <2>1, ProlongateOctetsData DEF HostKept
  <2>3. QED BY <1>2, <1>3, <2>1, <2>2, SameTrans
<1>6. QED BY <1>4, <1>5

\* A step up on octets
LEMMA OctetsToFinerData ==
  ASSUME cfg \in Config, nref \in 0..MaxRef, NEW x, Sound(x), Whole(x, Home), AtTop(x),
         NEW l \in Nat, l >= Top, l < FirstBlock - 1, l > Top => OnHost(x)
  PROVE  LET y == OctetsToFiner(x, l) IN OnHost(y) /\ Whole(y, Home) /\ SameData(x, y)
<1>1. l + 1 \in Hierarchy(cfg) /\ cfg.npost \in 0..2
  BY LevelsHaveArrays
<1>2. PICK v : v = ProlongateOctets(IF l = Top THEN MGRootBoundary(x) ELSE SetBoundariesOctets(x, l, TRUE),
                                    l, TRUE)
  OBVIOUS
<1>3. OnHost(v) /\ Whole(v, Home) /\ Same(x, v)
  BY <1>2, BoundaryAndProlongateOctets
<1>4. ASSUME NEW a, OnHost(a), Whole(a, Home)
      PROVE  LET b == SetThenSweepOctets(SetThenSweepOctets(a, l + 1), l + 1)
             IN  OnHost(b) /\ Whole(b, Home) /\ Same(a, b)
  <2>1. PICK c : c = SetThenSweepOctets(a, l + 1)
    OBVIOUS
  <2>2. HostKept(a, c) /\ Same(a, c)
    BY <1>1, <1>4, <2>1, SetThenSweepOctetsData
  <2>3. PICK b : b = SetThenSweepOctets(c, l + 1)
    OBVIOUS
  <2>4. HostKept(c, b) /\ Same(c, b)
    BY <1>1, <2>2, <2>3, SetThenSweepOctetsData DEF HostKept
  <2>5. QED BY <1>4, <2>1, <2>2, <2>3, <2>4, SameTrans DEF HostKept
<1>5. PICK a : a = SetThenSweepOctets(SetThenSweepOctets(v, l + 1), l + 1)
  OBVIOUS
<1>6. OnHost(a) /\ Whole(a, Home) /\ Same(v, a)
  BY <1>3, <1>4, <1>5
<1>7. PICK b : b = SetThenSweepOctets(SetThenSweepOctets(a, l + 1), l + 1)
  OBVIOUS
<1>8. OnHost(b) /\ Whole(b, Home) /\ Same(a, b)
  BY <1>4, <1>6, <1>7
<1>9. PICK y : y = OctetsToFiner(x, l)
  OBVIOUS
<1>10. y = Repeat(v, cfg.npost, LAMBDA u : SetThenSweepOctets(SetThenSweepOctets(u, l + 1), l + 1))
  BY <1>2, <1>9 DEF OctetsToFiner
<1>11. y = v \/ y = a \/ y = b
  BY <1>1, <1>5, <1>7, <1>10 DEF Repeat
<1>12. SameData(x, v) /\ SameData(x, a) /\ SameData(x, b)
  BY <1>3, <1>6, <1>8 DEF SameData, Same
<1>13. QED BY <1>3, <1>6, <1>8, <1>9, <1>11, <1>12

\* MeshBlocks of y have what the root grid and octets of x give them, with uold or without
GivenByRoot(x, y, fold) ==
  /\ OnHost(y) /\ y.blockLevel = 0 /\ y.src = x.src /\ y.old = x.old /\ y.bsrc = x.bsrc
  /\ \A k \in 1..(NBlk - 1) : y.bold[k] = x.bold[k]
  /\ fold /\ (\A l \in LeafLevels : x.old[l] = "now") => y.bold[0] = "now"
  /\ ~fold => y.bold = x.bold

\* The transfer to MeshBlocks after the boundary of the root grid is set
LEMMA BoundaryAndTransfer ==
  ASSUME cfg \in Config, nref \in 0..MaxRef, NEW x, Sound(x), Whole(x, Home), AtTop(x), NEW fold
  PROVE  GivenByRoot(x, TransferFromRootToBlocks(MGRootBoundary(x), fold), fold)
<1>1. Top \in Hierarchy(cfg) /\ NBlk \in Nat \ 0..2
  BY LevelsHaveArrays
<1>2. PICK v : v = MGRootBoundary(x)
  OBVIOUS
<1>3. /\ OnRoot(v) /\ Same(x, v) /\ (cfg.onHost \/ v.sync = "device")
      /\ v.ghost = [x.ghost EXCEPT ![x.rootLevel] = "all"]
  BY <1>1, <1>2, MGRootBoundaryData DEF AtTop
<1>4. AtTop(v) /\ v.ghost[Top] = "all"
  BY <1>1, <1>3 DEF AtTop, Same, Sound, Arrays
<1>5. PICK y : y = TransferFromRootToBlocks(v, fold)
  OBVIOUS
<1>6. /\ OnHost(y) /\ y.blockLevel = 0 /\ y.src = v.src /\ y.old = v.old /\ y.bsrc = v.bsrc
      /\ y.bold = IF fold THEN [v.bold EXCEPT ![0] =
                                 IF \A l \in LeafLevels : v.old[l] = "now" THEN "now" ELSE "before"]
                  ELSE v.bold
  <2>1. FilledFrom(v, y, fold)
    BY <1>3, <1>4, <1>5, RootToBlocksData
  <2>2. QED BY <2>1 DEF FilledFrom
<1>7. v.bold = x.bold /\ v.old = x.old /\ v.bold \in [0..(NBlk - 1) -> {"before", "now"}]
  BY <1>3 DEF Same, OnRoot, Sound, Arrays
<1>8. \A k \in 1..(NBlk - 1) : y.bold[k] = x.bold[k]
  BY <1>1, <1>6, <1>7
<1>9. ASSUME fold, \A l \in LeafLevels : x.old[l] = "now" PROVE y.bold[0] = "now"
  <2>1. 0 \in 0..(NBlk - 1)
    BY <1>1
  <2>2. \A l \in LeafLevels : v.old[l] = "now"
    BY <1>7, <1>9
  <2>3. y.bold = [v.bold EXCEPT ![0] = "now"]
    BY <1>6, <1>9, <2>2
  <2>4. QED BY <1>7, <2>1, <2>3
<1>10. ~fold => y.bold = x.bold
  BY <1>6, <1>7
<1>11. y.src = x.src /\ y.old = x.old /\ y.bsrc = x.bsrc
  BY <1>3, <1>6 DEF Same
<1>12. GivenByRoot(x, y, fold)
  BY <1>6, <1>8, <1>9, <1>10, <1>11 DEF GivenByRoot
<1>13. QED BY <1>2, <1>5, <1>12

\* The next finer level of the MeshBlocks, with ghost zones exchanged or not
LEMMA NextBlockLevel ==
  ASSUME NEW x, OnHost(x), NEW y,
         \/ y = [x EXCEPT !.blockLevel = @ + 1, !.exchanged = "yes"]
         \/ y = [x EXCEPT !.blockLevel = @ + 1, !.exchanged = "no"]
  PROVE  OnHost(y) /\ y.src = x.src /\ y.old = x.old /\ y.bsrc = x.bsrc /\ y.bold = x.bold
<1>1. x.blockLevel + 1 \in Int
  BY DEF OnHost, Sound, Grid
<1>2. /\ y.exchanged \in {"yes", "no"} /\ y.rootLevel = x.rootLevel /\ y.blockLevel = x.blockLevel + 1
      /\ y.src = x.src /\ y.old = x.old /\ y.bsrc = x.bsrc /\ y.bold = x.bold
      /\ y.ghost = x.ghost /\ y.bad = x.bad /\ y.fresh = x.fresh /\ y.sync = x.sync /\ y.flatStale = x.flatStale
  BY DEF OnHost, Sound, Grid, Fields
<1>3. Grid(y)
  BY <1>1, <1>2 DEF OnHost, Sound, Grid, Fields
<1>4. Sound(y)
  BY <1>2, <1>3 DEF OnHost, Sound, Arrays
<1>5. OnHost(y)
  BY <1>2, <1>4, CopiesAlone DEF HostKept
<1>6. QED BY <1>2, <1>5

\* A step up on MeshBlocks, the first one from the grids below; the last one ends
\* with an exchange
LEMMA BlocksToFinerData ==
  ASSUME cfg \in Config, nref \in 0..MaxRef, NEW x, AtTop(x),
         NEW l \in Nat, l >= FirstBlock - 1,
         l >= FirstBlock => OnHost(x),
         l = FirstBlock - 1 => Sound(x) /\ Whole(x, Home)
  PROVE  LET y == BlocksToFiner(x, l)
         IN  /\ OnHost(y) /\ y.src = x.src /\ y.old = x.old /\ y.bsrc = x.bsrc
             /\ \A k \in 1..(NBlk - 1) : y.bold[k] = x.bold[k]
             /\ l = FirstBlock - 1 /\ (\A k \in LeafLevels : x.old[k] = "now") => y.bold[0] = "now"
             /\ l >= FirstBlock => y.bold = x.bold
             /\ y.exchanged = IF l = NTotal - 2 THEN "yes" ELSE "no"
<1>1. FirstBlock \in Nat /\ NTotal - 1 = FirstBlock - 1 + (NBlk - 1) /\ NBlk \in Nat \ 0..2
  BY LevelsHaveArrays
<1>2. PICK v : v = IF l = FirstBlock - 1 THEN TransferFromRootToBlocks(MGRootBoundary(x), TRUE) ELSE x
  OBVIOUS
<1>3. /\ OnHost(v) /\ v.src = x.src /\ v.old = x.old /\ v.bsrc = x.bsrc
      /\ \A k \in 1..(NBlk - 1) : v.bold[k] = x.bold[k]
      /\ l = FirstBlock - 1 /\ (\A k \in LeafLevels : x.old[k] = "now") => v.bold[0] = "now"
      /\ l >= FirstBlock => v.bold = x.bold
  <2>1. CASE l = FirstBlock - 1
    <3>1. v = TransferFromRootToBlocks(MGRootBoundary(x), TRUE)
      BY <1>2, <2>1
    <3>2. ~(l >= FirstBlock)
      BY <1>1, <2>1
    <3>3. GivenByRoot(x, v, TRUE)
      BY <2>1, <3>1, BoundaryAndTransfer
    <3>4. QED BY <3>2, <3>3 DEF GivenByRoot
  <2>2. CASE l # FirstBlock - 1
    <3>1. v = x /\ l >= FirstBlock
      BY <1>1, <1>2, <2>2
    <3>2. QED BY <2>2, <3>1
  <2>3. QED BY <2>1, <2>2
<1>4. PICK flag : flag = IF l = NTotal - 2 THEN 2 ELSE IF l = FirstBlock - 1 THEN 1 ELSE 0
  OBVIOUS
<1>5. (flag = 2) = (l = NTotal - 2)
  BY <1>4
<1>6. BlocksToFiner(x, l) = [v EXCEPT !.blockLevel = @ + 1, !.exchanged = IF flag = 2 THEN "yes" ELSE "no"]
  BY <1>2, <1>4 DEF BlocksToFiner
<1>7. PICK y : y = BlocksToFiner(x, l)
  OBVIOUS
<1>8. /\ OnHost(y) /\ y.exchanged = IF l = NTotal - 2 THEN "yes" ELSE "no"
      /\ y.src = v.src /\ y.old = v.old /\ y.bsrc = v.bsrc /\ y.bold = v.bold
  <2>1. CASE l = NTotal - 2
    <3>1. y = [v EXCEPT !.blockLevel = @ + 1, !.exchanged = "yes"]
      BY <1>5, <1>6, <1>7, <2>1
    <3>2. y.exchanged = "yes"
      BY <1>3, <3>1 DEF OnHost, Sound, Grid, Fields
    <3>3. OnHost(y) /\ y.src = v.src /\ y.old = v.old /\ y.bsrc = v.bsrc /\ y.bold = v.bold
      BY <1>3, <3>1, NextBlockLevel
    <3>4. QED BY <2>1, <3>2, <3>3
  <2>2. CASE l # NTotal - 2
    <3>1. y = [v EXCEPT !.blockLevel = @ + 1, !.exchanged = "no"]
      BY <1>5, <1>6, <1>7, <2>2
    <3>2. y.exchanged = "no"
      BY <1>3, <3>1 DEF OnHost, Sound, Grid, Fields
    <3>3. OnHost(y) /\ y.src = v.src /\ y.old = v.old /\ y.bsrc = v.bsrc /\ y.bold = v.bold
      BY <1>3, <3>1, NextBlockLevel
    <3>4. QED BY <2>2, <3>2, <3>3
  <2>3. QED BY <2>1, <2>2
<1>9. QED BY <1>3, <1>7, <1>8

\* The prolongation of full multigrid, on any of the grids
LEMMA FMGProlongateData ==
  ASSUME cfg \in Config, nref \in 0..MaxRef, NEW x, level \in Nat, LevelsAt(x, level), Sound(x),
         level > Top => OnHost(x), level < FirstBlock => Whole(x, Home)
  PROVE  LET y == FMGProlongate(x)
         IN  /\ y.src = x.src /\ y.old = x.old /\ y.bsrc = x.bsrc
             /\ level + 1 > Top => OnHost(y)
             /\ level + 1 <= Top => OnRoot(y)
             /\ level + 1 < FirstBlock => Whole(y, Home)
<1>1. /\ FirstBlock \in Nat /\ Top \in Nat /\ Top <= FirstBlock - 1
  BY LevelsHaveArrays
<1>2. CASE level >= FirstBlock - 1
  <2>1. PICK v : v = IF level = FirstBlock - 1 THEN TransferFromRootToBlocks(MGRootBoundary(x), FALSE) ELSE x
    OBVIOUS
  <2>2. OnHost(v) /\ v.src = x.src /\ v.old = x.old /\ v.bsrc = x.bsrc
    <3>1. CASE level = FirstBlock - 1
      <4>1. AtTop(x) /\ level < FirstBlock
        BY <1>1, <3>1 DEF AtTop, LevelsAt
      <4>2. GivenByRoot(x, v, FALSE)
        BY <2>1, <3>1, <4>1, BoundaryAndTransfer
      <4>3. QED BY <4>2 DEF GivenByRoot
    <3>2. CASE level # FirstBlock - 1
      <4>1. level > Top
        BY <1>1, <1>2, <3>2
      <4>2. QED BY <2>1, <3>2, <4>1
    <3>3. QED BY <3>1, <3>2
  <2>3. FMGProlongate(x) = [v EXCEPT !.blockLevel = @ + 1, !.exchanged = "no"]
    BY <1>2, <2>1 DEF FMGProlongate
  <2>4. PICK y : y = [v EXCEPT !.blockLevel = @ + 1, !.exchanged = "no"]
    OBVIOUS
  <2>5. OnHost(y) /\ y.src = v.src /\ y.old = v.old /\ y.bsrc = v.bsrc
    BY <2>2, <2>4, NextBlockLevel
  <2>6. ~(level + 1 <= Top) /\ ~(level + 1 < FirstBlock)
    BY <1>1, <1>2
  <2>7. QED BY <2>2, <2>3, <2>4, <2>5, <2>6
<1>3. CASE level < FirstBlock - 1 /\ level >= Top
  <2>1. AtTop(x) /\ level < FirstBlock /\ ~(level + 1 <= Top)
    BY <1>1, <1>3 DEF AtTop, LevelsAt
  <2>2. PICK y : y = ProlongateOctets(IF level = Top THEN MGRootBoundary(x) ELSE SetBoundariesOctets(x, level, TRUE),
                                      level, FALSE)
    OBVIOUS
  <2>3. OnHost(y) /\ Whole(y, Home) /\ Same(x, y)
    BY <1>3, <2>1, <2>2, BoundaryAndProlongateOctets
  <2>4. FMGProlongate(x) = y
    <3>1. ~(level >= FirstBlock - 1) /\ level >= Top
      BY <1>1, <1>3
    <3>2. FMGProlongate(x) = ProlongateOctets(IF level = Top THEN MGRootBoundary(x)
                                              ELSE SetBoundariesOctets(x, level, TRUE), level, FALSE)
      BY <3>1, Zenon DEF FMGProlongate
    <3>3. QED BY <2>2, <3>2
  <2>5. QED BY <2>1, <2>3, <2>4 DEF Same
<1>4. CASE level < Top
  <2>1. x.rootLevel = level /\ level < FirstBlock /\ level + 1 <= Top /\ ~(level + 1 > Top)
    BY <1>1, <1>4 DEF LevelsAt
  <2>2. PICK y : y = MarkRootDeviceModified(Prolongate(MGRootBoundary(x), FALSE))
    OBVIOUS
  <2>3. OnRoot(y) /\ SameData(x, y)
    BY <1>4, <2>1, <2>2, BoundaryAndProlongate
  <2>4. FMGProlongate(x) = y
    <3>1. ~(level >= FirstBlock - 1)
      BY <1>1, <1>4
    <3>2. ~(level >= Top)
      BY <1>1, <1>4
    <3>3. QED BY <3>1, <3>2, <2>2, Zenon DEF FMGProlongate
  <2>5. QED BY <2>1, <2>3, <2>4 DEF SameData, OnRoot
<1>5. QED BY <1>1, <1>2, <1>3, <1>4

\* The coarsest solve reads current data; unless it only clears the cell, it makes the
\* equation there
LEMMA SolveCoarsestGridData ==
  ASSUME cfg \in Config, nref \in 0..MaxRef, NEW x, Sound(x), Whole(x, Home), x.rootLevel = 0
  PROVE  LET y == SolveCoarsestGrid(x)
         IN  /\ OnRoot(y) /\ y.bsrc = x.bsrc /\ y.bold = x.bold /\ y.exchanged = x.exchanged
             /\ y.old = [x.old EXCEPT ![0] = "now"]
             /\ y.src = IF cfg.average /\ cfg.single THEN x.src ELSE [x.src EXCEPT ![0] = InFas(@)]
<1>1. 0 \in Hierarchy(cfg)
  BY LevelsHaveArrays
<1>2. CASE cfg.average /\ cfg.single
  <2>1. PICK v : v = MGRootBoundary(x)
    OBVIOUS
  <2>2. OnRoot(v) /\ Same(x, v)
    BY <1>1, <2>1, MGRootBoundaryData
  <2>3. v.rootLevel = 0
    BY <2>2 DEF Same
  <2>4. PICK w : w = StoreOldData(v)
    OBVIOUS
  <2>5. /\ OnRoot(w) /\ w.old = [v.old EXCEPT ![v.rootLevel] = "now"]
        /\ w.src = v.src /\ w.bsrc = v.bsrc /\ w.bold = v.bold /\ w.exchanged = v.exchanged
    BY <1>1, <2>2, <2>3, <2>4, StoreOldDataData
  <2>6. PICK z : z = WriteRoot(w, {"u"}, Everywhere)
    OBVIOUS
  <2>7. Sound(z) /\ SameGhosts(w, z) /\ z.flatStale = w.flatStale /\ Whole(z, Home)
    BY <2>5, <2>6, WriteRootWhole DEF OnRoot
  <2>8. PICK y : y = MarkRootDeviceModified(z)
    OBVIOUS
  <2>9. Sound(y) /\ SameGhosts(z, y) /\ y.flatStale = z.flatStale /\ y.fresh = z.fresh
    BY <2>7, <2>8, MarkData
  <2>10. OnRoot(y)
    BY <2>5, <2>7, <2>9 DEF OnRoot, Whole, Has
  <2>11. /\ y.bsrc = x.bsrc /\ y.bold = x.bold /\ y.exchanged = x.exchanged
         /\ y.old = [x.old EXCEPT ![0] = "now"] /\ y.src = x.src
    BY <2>2, <2>3, <2>5, <2>7, <2>9 DEF SameGhosts, Same
  <2>12. SolveCoarsestGrid(x) = y
    BY <1>2, <2>1, <2>4, <2>6, <2>8 DEF SolveCoarsestGrid
  <2>13. QED BY <1>2, <2>10, <2>11, <2>12
<1>3. CASE ~(cfg.average /\ cfg.single)
  <2> DEFINE Average(y, f) ==
        IF cfg.average THEN MarkRootDeviceModified(SubtractAverage(y, f)) ELSE y
  <2>1. ASSUME NEW y, Sound(y), Whole(y, Home), NEW f \in Kept
        PROVE  /\ Sound(Average(y, f)) /\ Whole(Average(y, f), Home) /\ SameGhosts(y, Average(y, f))
               /\ Average(y, f).flatStale = y.flatStale
    BY <2>1, SubtractAverageData DEF SameGhosts, Same
  <2>2. "src" \in Kept /\ "u" \in Kept
    BY DEF Kept
  <2>3. PICK a : a = Average(x, "src")
    OBVIOUS
  <2>4. Sound(a) /\ Whole(a, Home) /\ SameGhosts(x, a)
    BY <2>1, <2>2, <2>3
  <2>5. PICK b : b = Average(a, "u")
    OBVIOUS
  <2>6. Sound(b) /\ Whole(b, Home) /\ SameGhosts(a, b)
    BY <2>1, <2>2, <2>4, <2>5
  <2>7. Same(x, b) /\ b.rootLevel = 0
    BY <2>4, <2>6 DEF SameGhosts, Same
  <2>8. PICK v : v = MGRootBoundary(b)
    OBVIOUS
  <2>9. OnRoot(v) /\ Same(b, v) /\ v.ghost = [b.ghost EXCEPT ![b.rootLevel] = "all"]
    BY <1>1, <2>6, <2>7, <2>8, MGRootBoundaryData
  <2>10. GhostsSet(v, v.rootLevel) /\ v.rootLevel = 0
    BY <1>1, <2>6, <2>7, <2>9 DEF GhostsSet, Same, Sound, Arrays
  <2>11. PICK w : w = FASEquation(v)
    OBVIOUS
  <2>12. OnRoot(w) /\ w.ghost = v.ghost /\ Equated(v, w, v.rootLevel, TRUE)
    BY <2>9, <2>10, <2>11, FASEquationData
  <2>13. GhostsSet(w, w.rootLevel)
    BY <2>10, <2>12 DEF GhostsSet, Equated
  <2>14. PICK z : z = SweepThenBoundary(w)
    OBVIOUS
  <2>15. OnRoot(z) /\ Same(w, z)
    BY <2>12, <2>13, <2>14, SweepThenBoundaryData
  <2>16. PICK y : y = Average(z, "u")
    OBVIOUS
  <2>17. Sound(y) /\ Whole(y, Home) /\ SameGhosts(z, y) /\ y.flatStale = z.flatStale
    BY <2>1, <2>2, <2>15, <2>16 DEF OnRoot
  <2>18. OnRoot(y)
    BY <2>15, <2>17 DEF OnRoot
  <2>19. /\ y.bsrc = x.bsrc /\ y.bold = x.bold /\ y.exchanged = x.exchanged
         /\ y.old = [x.old EXCEPT ![0] = "now"] /\ y.src = [x.src EXCEPT ![0] = InFas(@)]
    BY <2>7, <2>9, <2>10, <2>12, <2>15, <2>17 DEF SameGhosts, Same, Equated
  <2>20. SolveCoarsestGrid(x) = y
    BY <1>3, <2>3, <2>5, <2>8, <2>11, <2>14, <2>16 DEF SolveCoarsestGrid
  <2>21. QED BY <1>3, <2>18, <2>19, <2>20
<1>4. QED BY <1>2, <1>3
-----------------------------------------------------------------------------
(* The inductive invariant *)
Ascending == {"up", "fmgup", "fmg", "fmgcycle"}
InCycle == {"down", "fmgdown", "up", "fmgup"}

\* Where the driver works on the root grid, and until it goes back to the MeshBlocks,
\* the copy its kernels work on is current; above it, and between solves, the host is
CopiesAt(x, lv, ph) ==
  /\ Sound(x) /\ FlatOk(x)
  /\ ph # "idle" /\ (lv <= Top \/ (ph \in Ascending /\ lv < FirstBlock)) => Whole(x, Home)
  /\ ph = "idle" \/ lv > Top => OnHost(x)
CopiesCurrent == CopiesAt(g, level, phase)

\* cells of level l hold a right-hand side of this kind
HoldsAt(x, l, what) ==
  /\ l >= Top => x.src[l].leaf = what
  /\ l < FirstBlock - 1 => x.src[l].covered = what

\* from level cur on every level has its source
SourceFrom(x, cur) ==
  /\ \A b \in 1..(NBlk - 1) : b + FirstBlock - 1 >= cur => x.bsrc[b] = "source"
  /\ \A l \in 0..(FirstBlock - 1) : l >= cur => HoldsAt(x, l, "source")

\* in a cycle from level st that came down to level at, equations were made above at,
\* and at has a restricted defect; in a cycle from octets, which restrict to some cells
\* only, this is not so of the cells of the grids below
MadeAbove(x, at, st) ==
  /\ \A l \in Hierarchy(cfg) : at < l /\ l < st /\ l < FirstBlock => x.old[l] = "now"
  /\ \A b \in 1..(NBlk - 1) : at < b + FirstBlock - 1 /\ b + FirstBlock - 1 < st =>
       x.bold[b] = "now" /\ x.bsrc[b] = "fas"
  /\ at >= FirstBlock /\ at < st => x.bsrc[at - (FirstBlock - 1)] = "defect"
  /\ st \notin Octets =>
       /\ \A l \in 0..(FirstBlock - 1) :
            at < l /\ l < st /\ ~(l = 0 /\ cfg.average /\ cfg.single) => HoldsAt(x, l, "fas")
       /\ st >= FirstBlock /\ at < FirstBlock => \A l \in LeafLevels : l <= at => x.src[l].leaf = "defect"
       /\ 0 <= at /\ at < FirstBlock - 1 /\ at < st => x.src[at].covered = "defect"

Cur == IF phase \in InCycle THEN start ELSE level
Sources == InSolve => SourceFrom(g, Cur)
Descent ==
  /\ phase \in {"down", "fmgdown"} => MadeAbove(g, level, start)
  /\ phase \in {"up", "fmgup"} => MadeAbove(g, -1, start)
  /\ phase \in {"up", "fmgup"} /\ level >= FirstBlock => g.bold[0] = "now"
FinestIsFMGLevel == phase \in {"iterate", "fmgcycle"} \cup InCycle => fmglevel = Cur /\ Cur > 0
NormKnown ==
  /\ phase \in {"idle", "iterate"} => g.exchanged # "no"
  /\ phase \in {"fmg", "up", "fmgup"} /\ level = NTotal - 1 => g.exchanged = "yes"

DInv == IInv /\ CopiesCurrent /\ Sources /\ Descent /\ FinestIsFMGLevel /\ NormKnown

-----------------------------------------------------------------------------
\* A step down on the root grid or on octets makes the equation of its level
LEMMA MadeByStepsDown ==
  ASSUME cfg \in Config, nref \in 0..MaxRef, NEW x, NEW y, NEW l \in Nat \ {0}, l < FirstBlock,
         NEW st \in Nat, l <= st, fmglevel = st, MadeAbove(x, l, st), SourceFrom(x, st), StepsDown(x, y, l)
  PROVE  MadeAbove(y, l - 1, st) /\ SourceFrom(y, st)
<1>1. /\ NRoot \in Nat \ {0} /\ Top \in Nat /\ FirstBlock \in Nat /\ Top + 1 = NRoot /\ NRoot <= FirstBlock
      /\ \A k \in Nat : k < FirstBlock => k \in Hierarchy(cfg)
      /\ Hierarchy(cfg) \subseteq Nat /\ NBlk \in Nat
  BY LevelsHaveArrays
<1>2. BelowFinest(l) <=> l < st
  BY DEF BelowFinest
<1>3. /\ y.bsrc = x.bsrc /\ y.bold = x.bold
      /\ \A k \in Hierarchy(cfg) :
           /\ y.old[k] = IF k = l /\ l < st THEN "now" ELSE x.old[k]
           /\ y.src[k].leaf = IF k = l /\ l < st THEN Fas(x.src[k].leaf) ELSE x.src[k].leaf
           /\ y.src[k].covered = IF k = l - 1 THEN "defect"
                                 ELSE IF k = l /\ l < st THEN Fas(x.src[k].covered)
                                 ELSE x.src[k].covered
  BY <1>2 DEF StepsDown
<1>4. Fas("defect") = "fas"
  BY DEF Fas
<1>5. ASSUME NEW k \in Hierarchy(cfg), l - 1 < k, k < st, k < FirstBlock PROVE y.old[k] = "now"
  <2>1. k = l \/ l < k
    BY <1>1, <1>5
  <2>2. l < k => x.old[k] = "now"
    BY <1>5 DEF MadeAbove
  <2>3. QED BY <1>3, <1>5, <2>1, <2>2
<1>6. ASSUME NEW b \in 1..(NBlk - 1), b + FirstBlock - 1 < st PROVE y.bold[b] = "now" /\ y.bsrc[b] = "fas"
  <2>1. l < b + FirstBlock - 1
    BY <1>1
  <2>2. QED BY <1>3, <1>6, <2>1 DEF MadeAbove
<1>7. ~(l - 1 >= FirstBlock)
  BY <1>1
<1>8. ASSUME st \notin Octets, NEW k \in 0..(FirstBlock - 1), l - 1 < k, k < st,
             ~(k = 0 /\ cfg.average /\ cfg.single)
      PROVE  HoldsAt(y, k, "fas")
  <2>1. k \in Hierarchy(cfg) /\ k # l - 1
    BY <1>1, <1>8
  <2>2. CASE k = l
    <3>1. l >= Top => x.src[l].leaf = "defect"
      <4>1. SUFFICES ASSUME l >= Top PROVE x.src[l].leaf = "defect"
        OBVIOUS
      <4>2. st >= FirstBlock
        BY <1>1, <1>8, <2>2, <4>1 DEF Octets
      <4>3. l \in LeafLevels
        BY <1>1, <4>1 DEF LeafLevels
      <4>4. QED BY <1>1, <1>8, <4>2, <4>3 DEF MadeAbove
    <3>2. l < FirstBlock - 1 => x.src[l].covered = "defect"
      BY <1>1, <1>8, <2>2 DEF MadeAbove
    <3>3. QED BY <1>3, <1>4, <1>8, <2>1, <2>2, <3>1, <3>2 DEF HoldsAt
  <2>3. CASE k # l
    <3>1. l < k
      BY <1>1, <1>8, <2>3
    <3>2. HoldsAt(x, k, "fas")
      BY <1>8, <3>1 DEF MadeAbove
    <3>3. y.src[k].leaf = x.src[k].leaf /\ y.src[k].covered = x.src[k].covered
      BY <1>3, <2>1, <2>3
    <3>4. QED BY <3>2, <3>3 DEF HoldsAt
  <2>4. QED BY <2>2, <2>3
<1>9. ASSUME st \notin Octets, st >= FirstBlock, NEW k \in LeafLevels, k <= l - 1
      PROVE  y.src[k].leaf = "defect"
  <2>1. k \in Hierarchy(cfg) /\ k # l /\ k <= l
    BY <1>1, <1>9 DEF LeafLevels
  <2>2. x.src[k].leaf = "defect"
    BY <1>9, <2>1 DEF MadeAbove
  <2>3. QED BY <1>3, <2>1, <2>2
<1>10. y.src[l - 1].covered = "defect"
  <2>1. l - 1 \in Hierarchy(cfg)
    BY <1>1
  <2>2. QED BY <1>3, <2>1
<1>11. MadeAbove(y, l - 1, st)
  BY <1>5, <1>6, <1>7, <1>8, <1>9, <1>10 DEF MadeAbove
<1>12. ASSUME NEW k \in 0..(FirstBlock - 1), k >= st PROVE HoldsAt(y, k, "source")
  <2>1. k \in Hierarchy(cfg) /\ k # l - 1 /\ ~(k = l /\ l < st)
    BY <1>1, <1>12
  <2>2. HoldsAt(x, k, "source")
    BY <1>12 DEF SourceFrom
  <2>3. y.src[k].leaf = x.src[k].leaf /\ y.src[k].covered = x.src[k].covered
    BY <1>3, <2>1
  <2>4. QED BY <2>2, <2>3 DEF HoldsAt
<1>13. SourceFrom(y, st)
  BY <1>3, <1>12 DEF SourceFrom
<1>14. QED BY <1>11, <1>13

\* A step down on MeshBlocks makes the equation of its level, and the cells of the
\* grids below, or the next level of the MeshBlocks, get their defect
LEMMA MadeByBlocks ==
  ASSUME cfg \in Config, nref \in 0..MaxRef, NEW x, NEW y, NEW l \in Nat, l >= FirstBlock, l <= NTotal - 1,
         NEW st \in Nat, l <= st, fmglevel = st, MadeAbove(x, l, st), SourceFrom(x, st),
         \A k \in 0..(NBlk - 1) :
           /\ y.bold[k] = IF k = l - (FirstBlock - 1) /\ BelowFinest(l) THEN "now" ELSE x.bold[k]
           /\ y.bsrc[k] = IF k = l - (FirstBlock - 1) - 1 THEN "defect"
                          ELSE IF k = l - (FirstBlock - 1) /\ BelowFinest(l) THEN Fas(x.bsrc[k]) ELSE x.bsrc[k],
         l = FirstBlock => \A k \in Hierarchy(cfg) : k \in LeafLevels => y.src[k].leaf = "defect"
  PROVE  MadeAbove(y, l - 1, st) /\ SourceFrom(y, st)
<1>1. /\ Top \in Nat /\ FirstBlock \in Nat /\ Top <= FirstBlock - 1
      /\ \A k \in Nat : k < FirstBlock => k \in Hierarchy(cfg)
      /\ Hierarchy(cfg) \subseteq Nat /\ NBlk \in Nat \ 0..2 /\ NTotal - 1 = FirstBlock - 1 + (NBlk - 1)
  BY LevelsHaveArrays
<1>2. PICK b \in 1..(NBlk - 1) : b = l - (FirstBlock - 1)
  BY <1>1
<1>3. BelowFinest(l) <=> l < st
  BY DEF BelowFinest
<1>4. \A k \in 0..(NBlk - 1) :
           /\ y.bold[k] = IF k = b /\ l < st THEN "now" ELSE x.bold[k]
           /\ y.bsrc[k] = IF k = b - 1 THEN "defect"
                          ELSE IF k = b /\ l < st THEN Fas(x.bsrc[k]) ELSE x.bsrc[k]
  BY <1>2, <1>3
<1>5. Fas("defect") = "fas"
  BY DEF Fas
<1>6. \A k \in Hierarchy(cfg) : ~(l - 1 < k /\ k < FirstBlock)
  BY <1>1
<1>7. ASSUME NEW k \in 1..(NBlk - 1), l - 1 < k + FirstBlock - 1, k + FirstBlock - 1 < st
      PROVE  y.bold[k] = "now" /\ y.bsrc[k] = "fas"
  <2>1. k \in 0..(NBlk - 1) /\ k # b - 1 /\ k >= b
    BY <1>1, <1>2, <1>7
  <2>2. CASE k = b
    <3>1. l < st
      BY <1>1, <1>2, <1>7, <2>2
    <3>2. x.bsrc[b] = "defect"
      BY <1>2, <3>1 DEF MadeAbove
    <3>3. QED BY <1>4, <1>5, <2>1, <2>2, <3>1, <3>2
  <2>3. CASE k # b
    <3>1. l < k + FirstBlock - 1
      BY <1>1, <1>2, <2>1, <2>3
    <3>2. x.bold[k] = "now" /\ x.bsrc[k] = "fas"
      BY <1>7, <3>1 DEF MadeAbove
    <3>3. QED BY <1>4, <2>1, <2>3, <3>2
  <2>4. QED BY <2>2, <2>3
<1>8. y.bsrc[(l - 1) - (FirstBlock - 1)] = "defect"
  <2>1. b - 1 \in 0..(NBlk - 1) /\ (l - 1) - (FirstBlock - 1) = b - 1
    BY <1>1, <1>2
  <2>2. QED BY <1>4, <2>1
<1>9. \A k \in 0..(FirstBlock - 1) : ~(l - 1 < k)
  BY <1>1
<1>10. ASSUME l - 1 < FirstBlock, NEW k \in LeafLevels PROVE y.src[k].leaf = "defect"
  <2>1. l = FirstBlock
    BY <1>1, <1>10
  <2>2. k \in Hierarchy(cfg)
    BY <1>1 DEF LeafLevels
  <2>3. QED BY <2>1, <2>2
<1>11. ~(l - 1 < FirstBlock - 1)
  BY <1>1
<1>12. MadeAbove(y, l - 1, st)
  BY <1>6, <1>7, <1>8, <1>9, <1>10, <1>11 DEF MadeAbove
<1>13. ASSUME NEW k \in 1..(NBlk - 1), k + FirstBlock - 1 >= st PROVE y.bsrc[k] = "source"
  <2>1. k \in 0..(NBlk - 1) /\ k # b - 1 /\ ~(k = b /\ l < st)
    BY <1>1, <1>2, <1>13
  <2>2. x.bsrc[k] = "source"
    BY <1>13 DEF SourceFrom
  <2>3. QED BY <1>4, <2>1, <2>2
<1>14. \A k \in 0..(FirstBlock - 1) : ~(k >= st)
  BY <1>1
<1>15. SourceFrom(y, st)
  BY <1>13, <1>14 DEF SourceFrom
<1>16. QED BY <1>12, <1>15

\* The coarsest solve makes the last equation
LEMMA MadeByCoarsest ==
  ASSUME cfg \in Config, nref \in 0..MaxRef, NEW x, Sound(x), NEW y, NEW st \in Nat \ {0},
         MadeAbove(x, 0, st), SourceFrom(x, st), y.bsrc = x.bsrc, y.bold = x.bold,
         y.old = [x.old EXCEPT ![0] = "now"],
         y.src = IF cfg.average /\ cfg.single THEN x.src ELSE [x.src EXCEPT ![0] = InFas(@)]
  PROVE  MadeAbove(y, -1, st) /\ SourceFrom(y, st)
<1>1. /\ NRoot \in Nat \ {0} /\ Top \in Nat /\ FirstBlock \in Nat /\ Top + 1 = NRoot /\ NRoot <= FirstBlock
      /\ \A k \in Nat : k < FirstBlock => k \in Hierarchy(cfg)
      /\ Hierarchy(cfg) \subseteq Nat /\ NBlk \in Nat
  BY LevelsHaveArrays
<1>2. 0 \in Hierarchy(cfg) /\ Fas("defect") = "fas"
  BY <1>1 DEF Fas
<1>3. /\ x.src \in [Hierarchy(cfg) -> [leaf : Kinds, covered : Kinds]]
      /\ x.old \in [Hierarchy(cfg) -> {"before", "now"}]
  BY DEF Sound, Arrays
<1>4. \A k \in Hierarchy(cfg) : y.old[k] = (IF k = 0 THEN "now" ELSE x.old[k]) /\ (k # 0 => y.src[k] = x.src[k])
  BY <1>2, <1>3
<1>5. ~(cfg.average /\ cfg.single) => y.src[0] = InFas(x.src[0])
  BY <1>2, <1>3
<1>6. y.src[0].leaf = x.src[0].leaf \/ ~(cfg.average /\ cfg.single)
  OBVIOUS
<1>7. ASSUME NEW k \in Hierarchy(cfg), k < st, k < FirstBlock PROVE y.old[k] = "now"
  <2>1. k # 0 => 0 < k
    BY <1>1
  <2>2. k # 0 => x.old[k] = "now"
    BY <1>7, <2>1 DEF MadeAbove
  <2>3. QED BY <1>4, <2>2
<1>8. ASSUME NEW b \in 1..(NBlk - 1), b + FirstBlock - 1 < st PROVE y.bold[b] = "now" /\ y.bsrc[b] = "fas"
  <2>1. 0 < b + FirstBlock - 1
    BY <1>1
  <2>2. QED BY <1>8, <2>1 DEF MadeAbove
<1>9. ASSUME st \notin Octets, NEW k \in 0..(FirstBlock - 1), k < st, ~(k = 0 /\ cfg.average /\ cfg.single)
      PROVE  HoldsAt(y, k, "fas")
  <2>1. CASE k = 0
    <3>1. 0 >= Top => x.src[0].leaf = "defect"
      <4>1. SUFFICES ASSUME 0 >= Top PROVE x.src[0].leaf = "defect"
        OBVIOUS
      <4>2. st >= FirstBlock
        BY <1>1, <1>9, <4>1 DEF Octets
      <4>3. 0 \in LeafLevels /\ 0 < FirstBlock
        BY <1>1, <4>1 DEF LeafLevels
      <4>4. QED BY <1>9, <4>2, <4>3 DEF MadeAbove
    <3>2. 0 < FirstBlock - 1 => x.src[0].covered = "defect"
      BY <1>1, <1>9, <2>1 DEF MadeAbove
    <3>3. y.src[0] = InFas(x.src[0])
      BY <1>5, <1>9, <2>1
    <3>4. QED BY <1>2, <2>1, <3>1, <3>2, <3>3 DEF HoldsAt, InFas
  <2>2. CASE k # 0
    <3>1. 0 < k /\ k \in Hierarchy(cfg)
      BY <1>1, <2>2
    <3>2. HoldsAt(x, k, "fas")
      BY <1>9, <3>1 DEF MadeAbove
    <3>3. QED BY <1>4, <2>2, <3>1, <3>2 DEF HoldsAt
  <2>3. QED BY <2>1, <2>2
<1>10. \A l \in LeafLevels : ~(l <= -1)
  BY <1>1 DEF LeafLevels
<1>11. MadeAbove(y, -1, st)
  BY <1>1, <1>7, <1>8, <1>9, <1>10 DEF MadeAbove
<1>12. ASSUME NEW k \in 0..(FirstBlock - 1), k >= st PROVE HoldsAt(y, k, "source")
  <2>1. k \in Hierarchy(cfg) /\ k # 0
    BY <1>1, <1>12
  <2>2. HoldsAt(x, k, "source")
    BY <1>12 DEF SourceFrom
  <2>3. QED BY <1>4, <2>1, <2>2 DEF HoldsAt
<1>13. SourceFrom(y, st)
  BY <1>12 DEF SourceFrom
<1>14. QED BY <1>11, <1>13

\* What leaves right-hand sides and uold alone keeps what the descent has made
LEMMA MadeKept ==
  ASSUME NEW x, NEW y, NEW at, NEW st, MadeAbove(x, at, st), y.src = x.src, y.old = x.old, y.bsrc = x.bsrc,
         \A k \in 1..(NBlk - 1) : y.bold[k] = x.bold[k]
  PROVE  MadeAbove(y, at, st)
BY DEF MadeAbove, HoldsAt

\* What leaves right-hand sides alone leaves the sources where they are
LEMMA SourceKept ==
  ASSUME NEW x, NEW y, NEW cur, SourceFrom(x, cur), y.src = x.src, y.bsrc = x.bsrc
  PROVE  SourceFrom(y, cur)
BY DEF SourceFrom, HoldsAt

\* A root grid that can be worked on, at one of its own levels
LEMMA CurrentOnRoot ==
  ASSUME NEW y, OnRoot(y), NEW lv, ~(lv > Top), NEW ph, ph # "idle"
  PROVE  CopiesAt(y, lv, ph)
BY DEF CopiesAt, OnRoot, FlatOk

\* Current on the host, above the root grid
LEMMA CurrentOnHost ==
  ASSUME NEW y, OnHost(y), NEW lv, ~(lv <= Top), NEW ph, ph \in Ascending /\ lv < FirstBlock => Whole(y, Home)
  PROVE  CopiesAt(y, lv, ph)
BY DEF CopiesAt, OnHost

\* Current on both
LEMMA CurrentOnBoth ==
  ASSUME NEW y, OnHost(y), Whole(y, Home), NEW lv, NEW ph
  PROVE  CopiesAt(y, lv, ph)
BY DEF CopiesAt, OnHost

\* The defect norm is taken of grids whose ghost zones were exchanged after the last
\* sweep, or of a guess on a new mesh; that only records the second
LEMMA MeasuredData ==
  ASSUME NEW x, Sound(x), x.exchanged # "no"
  PROVE  LET y == Measured(x)
         IN  /\ Sound(y) /\ SameGhosts(x, y) /\ y.sync = x.sync /\ y.flatStale = x.flatStale
             /\ y.fresh = x.fresh
<1>1. CASE ~cfg.iterative
  BY <1>1 DEF Measured, SameGhosts, Same
<1>2. CASE cfg.iterative
  <2>1. Wrong(x, "norm", x.exchanged # "no") = x
    BY RightRead
  <2>2. PICK ok \in BOOLEAN : ok = (x.exchanged # "guess")
    OBVIOUS
  <2>3. Measured(x) = Wrong(x, "guess", ok)
    BY <1>2, <2>1, <2>2 DEF Measured
  <2>4. QED BY <2>3, RecordedOnly
<1>3. QED BY <1>1, <1>2

\* Where the copies were current they are current when the norm has been taken
LEMMA CurrentWhenMeasured ==
  ASSUME NEW x, x.exchanged # "no", NEW l, NEW ph, CopiesAt(x, l, ph)
  PROVE  LET y == Measured(x)
         IN  CopiesAt(y, l, ph) /\ y.src = x.src /\ y.bsrc = x.bsrc /\ y.exchanged = x.exchanged
<1>1. PICK y : y = Measured(x)
  OBVIOUS
<1>2. /\ Sound(y) /\ SameGhosts(x, y) /\ y.sync = x.sync /\ y.flatStale = x.flatStale
      /\ y.fresh = x.fresh
  BY <1>1, MeasuredData DEF CopiesAt
<1>3. /\ OnHost(x) => OnHost(y)
      /\ Whole(x, Home) => Whole(y, Home)
      /\ FlatOk(x) => FlatOk(y)
  BY <1>2, CopiesAlone DEF HostKept, Whole, FlatOk, Has
<1>4. CopiesAt(y, l, ph)
  BY <1>2, <1>3 DEF CopiesAt
<1>5. QED BY <1>1, <1>2, <1>4 DEF SameGhosts, Same

\* A step down reads current data, makes the equation of its level, and leaves the next
\* level with its defect
LEMMA StepDownData ==
  ASSUME cfg \in Config, nref \in 0..MaxRef, NEW x, LevelsAt(x, level), level \in Nat \ {0},
         level <= NTotal - 1, NEW ph, ph \in {"down", "fmgdown"}, CopiesAt(x, level, ph),
         NEW st \in Nat, level <= st, fmglevel = st, MadeAbove(x, level, st), SourceFrom(x, st)
  PROVE  LET y == OneStepToCoarser(x)
         IN  CopiesAt(y, level - 1, ph) /\ MadeAbove(y, level - 1, st) /\ SourceFrom(y, st)
<1>1. /\ FirstBlock \in Nat /\ Top \in Nat /\ Top + 1 = NRoot /\ NRoot <= FirstBlock
      /\ nref = 0 <=> Top = FirstBlock - 1
  BY LevelsHaveArrays
<1>2. ph # "idle" /\ ph \notin Ascending
  BY DEF Ascending
<1>3. PICK y : y = OneStepToCoarser(x)
  OBVIOUS
<1>4. CASE level >= FirstBlock
  <2>1. OnHost(x) /\ x.blockLevel = level - (FirstBlock - 1) /\ AtTop(x)
    BY <1>1, <1>4 DEF CopiesAt, LevelsAt, AtTop
  <2>2. y = BlocksToCoarser(x, level)
    BY <1>3, <1>4 DEF OneStepToCoarser
  <2>3. /\ OnHost(y) /\ (level = FirstBlock /\ nref = 0 => Whole(y, Home))
        /\ \A k \in 0..(NBlk - 1) :
             /\ y.bold[k] = IF k = x.blockLevel /\ BelowFinest(level) THEN "now" ELSE x.bold[k]
             /\ y.bsrc[k] = IF k = x.blockLevel - 1 THEN "defect"
                            ELSE IF k = x.blockLevel /\ BelowFinest(level) THEN Fas(x.bsrc[k]) ELSE x.bsrc[k]
        /\ level # FirstBlock => y.src = x.src
        /\ level = FirstBlock => \A k \in Hierarchy(cfg) :
             y.src[k].leaf = IF k \in LeafLevels THEN "defect" ELSE x.src[k].leaf
    <3>1. level \in Nat
      OBVIOUS
    <3>2. QED BY <1>4, <2>1, <2>2, <3>1, BlocksToCoarserData
  <2>4. \A k \in 0..(NBlk - 1) :
             /\ y.bold[k] = IF k = level - (FirstBlock - 1) /\ BelowFinest(level) THEN "now" ELSE x.bold[k]
             /\ y.bsrc[k] = IF k = level - (FirstBlock - 1) - 1 THEN "defect"
                            ELSE IF k = level - (FirstBlock - 1) /\ BelowFinest(level) THEN Fas(x.bsrc[k])
                            ELSE x.bsrc[k]
    BY <2>1, <2>3
  <2>5. level = FirstBlock => \A k \in Hierarchy(cfg) : k \in LeafLevels => y.src[k].leaf = "defect"
    BY <2>3
  <2>6. level # FirstBlock => y.src = x.src
    BY <2>3
  <2>7. MadeAbove(y, level - 1, st) /\ SourceFrom(y, st)
    <3>1. level \in Nat
      OBVIOUS
    <3>2. QED BY <1>4, <2>4, <2>5, <3>1, MadeByBlocks
  <2>8. CopiesAt(y, level - 1, ph)
    <3>1. CASE level - 1 <= Top
      <4>1. level = FirstBlock /\ nref = 0
        BY <1>1, <1>4, <3>1
      <4>2. QED BY <2>3, <4>1, CurrentOnBoth
    <3>2. CASE ~(level - 1 <= Top)
      BY <1>2, <2>3, <3>2, CurrentOnHost
    <3>3. QED BY <3>1, <3>2
  <2>9. QED BY <1>3, <2>7, <2>8
<1>5. CASE level < FirstBlock /\ level > Top
  <2>1. OnHost(x) /\ AtTop(x)
    BY <1>1, <1>5 DEF CopiesAt, LevelsAt, AtTop
  <2>2. y = OctetsToCoarser(x, level)
    BY <1>1, <1>3, <1>5 DEF OneStepToCoarser
  <2>3. OnHost(y) /\ (level = NRoot => Whole(y, Home)) /\ StepsDown(x, y, level)
    <3>1. level \in Nat
      OBVIOUS
    <3>2. QED BY <1>5, <2>1, <2>2, <3>1, OctetsToCoarserData
  <2>4. MadeAbove(y, level - 1, st) /\ SourceFrom(y, st)
    BY <1>5, <2>3, MadeByStepsDown
  <2>5. CopiesAt(y, level - 1, ph)
    <3>1. CASE level - 1 <= Top
      <4>1. level = NRoot
        BY <1>1, <1>5, <3>1
      <4>2. QED BY <2>3, <4>1, CurrentOnBoth
    <3>2. CASE ~(level - 1 <= Top)
      BY <1>2, <2>3, <3>2, CurrentOnHost
    <3>3. QED BY <3>1, <3>2
  <2>6. QED BY <1>3, <2>4, <2>5
<1>6. CASE level <= Top
  <2>1. Sound(x) /\ Whole(x, Home)
    BY <1>2, <1>6 DEF CopiesAt
  <2>2. x.rootLevel = level
    BY <1>1, <1>6 DEF LevelsAt
  <2>3. ~(level >= FirstBlock) /\ ~(level > Top) /\ level < FirstBlock
    BY <1>1, <1>6
  <2>4. y = RootToCoarser(x)
    BY <1>3, <2>3 DEF OneStepToCoarser
  <2>5. OnRoot(y) /\ StepsDown(x, y, level)
    BY <1>6, <2>1, <2>2, <2>4, RootToCoarserData
  <2>6. MadeAbove(y, level - 1, st) /\ SourceFrom(y, st)
    BY <2>3, <2>5, MadeByStepsDown
  <2>7. ~(level - 1 > Top)
    BY <1>1, <1>6
  <2>8. CopiesAt(y, level - 1, ph)
    BY <1>2, <2>5, <2>7, CurrentOnRoot
  <2>9. QED BY <1>3, <2>6, <2>8
<1>7. QED BY <1>1, <1>4, <1>5, <1>6

\* A step up reads current data and leaves right-hand sides and uold alone; the first one
\* to MeshBlocks brings uold from the grids below, the last one ends with an exchange
LEMMA StepUpData ==
  ASSUME cfg \in Config, nref \in 0..MaxRef, NEW x, LevelsAt(x, level), level \in Nat,
         NEW ph, ph \in {"up", "fmgup"}, CopiesAt(x, level, ph)
  PROVE  LET y == OneStepToFiner(x)
         IN  /\ CopiesAt(y, level + 1, ph) /\ y.src = x.src /\ y.old = x.old /\ y.bsrc = x.bsrc
             /\ \A k \in 1..(NBlk - 1) : y.bold[k] = x.bold[k]
             /\ level = FirstBlock - 1 /\ (\A k \in LeafLevels : x.old[k] = "now") => y.bold[0] = "now"
             /\ level >= FirstBlock => y.bold = x.bold
             /\ level = NTotal - 2 => y.exchanged = "yes"
<1>1. /\ FirstBlock \in Nat /\ Top \in Nat /\ Top <= FirstBlock - 1
      /\ NTotal - 1 = FirstBlock - 1 + (NBlk - 1) /\ NBlk \in Nat \ 0..2
      /\ NTotal \in Int
  BY LevelsHaveArrays, MultigridAssumption DEF NTotal
<1>2. ph # "idle" /\ ph \in Ascending
  BY DEF Ascending
<1>3. PICK y : y = OneStepToFiner(x)
  OBVIOUS
<1>4. CASE level >= FirstBlock - 1
  <2>1. y = BlocksToFiner(x, level)
    BY <1>3, <1>4 DEF OneStepToFiner
  <2>2. AtTop(x) /\ (level >= FirstBlock => OnHost(x)) /\ (level = FirstBlock - 1 => Sound(x) /\ Whole(x, Home))
    BY <1>1, <1>2, <1>4 DEF AtTop, LevelsAt, CopiesAt
  <2>3. /\ OnHost(y) /\ y.src = x.src /\ y.old = x.old /\ y.bsrc = x.bsrc
        /\ \A k \in 1..(NBlk - 1) : y.bold[k] = x.bold[k]
        /\ level = FirstBlock - 1 /\ (\A k \in LeafLevels : x.old[k] = "now") => y.bold[0] = "now"
        /\ level >= FirstBlock => y.bold = x.bold
        /\ y.exchanged = IF level = NTotal - 2 THEN "yes" ELSE "no"
    BY <1>4, <2>1, <2>2, BlocksToFinerData
  <2>4. ~(level + 1 <= Top) /\ ~(level + 1 < FirstBlock)
    BY <1>1, <1>4
  <2>5. CopiesAt(y, level + 1, ph)
    BY <2>3, <2>4, CurrentOnHost
  <2>6. QED BY <1>3, <2>3, <2>5
<1>5. CASE level < FirstBlock - 1
  <2>1. ~(level >= FirstBlock - 1) /\ level # FirstBlock - 1 /\ ~(level >= FirstBlock) /\ level # NTotal - 2
        /\ level < FirstBlock
    BY <1>1, <1>5
  <2>2. Sound(x) /\ Whole(x, Home) /\ (level > Top => OnHost(x))
    BY <1>2, <2>1 DEF CopiesAt
  <2>3. CopiesAt(y, level + 1, ph) /\ SameData(x, y)
    <3>1. CASE level >= Top
      <4>1. AtTop(x)
        BY <1>1, <3>1 DEF AtTop, LevelsAt
      <4>2. y = OctetsToFiner(x, level)
        BY <1>3, <2>1, <3>1 DEF OneStepToFiner
      <4>3. OnHost(y) /\ Whole(y, Home) /\ SameData(x, y)
        BY <1>5, <2>2, <3>1, <4>1, <4>2, OctetsToFinerData
      <4>4. QED BY <4>3, CurrentOnBoth
    <3>2. CASE level < Top
      <4>1. x.rootLevel = level /\ ~(level >= Top) /\ ~(level + 1 > Top)
        BY <1>1, <3>2 DEF LevelsAt
      <4>2. y = RootToFiner(x)
        BY <1>3, <2>1, <4>1 DEF OneStepToFiner
      <4>3. OnRoot(y) /\ SameData(x, y)
        BY <2>2, <3>2, <4>1, <4>2, RootToFinerData
      <4>4. QED BY <1>2, <4>1, <4>3, CurrentOnRoot
    <3>3. QED BY <1>1, <3>1, <3>2
  <2>4. QED BY <1>3, <2>1, <2>3 DEF SameData
<1>6. QED BY <1>1, <1>4, <1>5

\* What is known of grids in this state is known of them in the next, on the same mesh
LEMMA CopiesNext ==
  ASSUME cfg' = cfg, nref' = nref, NEW x, NEW l, NEW ph, g' = x, level' = l, phase' = ph, CopiesAt(x, l, ph)
  PROVE  CopiesCurrent'
<1>1. Home' = Home
  BY DEF Home
<1>2. Sound(x) => Sound(x)'
  BY DEF Sound, Arrays, Grid, Hierarchy
<1>3. OnHost(x) => OnHost(x)'
  BY <1>1, <1>2 DEF OnHost, Whole, Has, FlatOk
<1>4. CopiesAt(x, l, ph)'
  BY <1>1, <1>2, <1>3, SameMesh DEF CopiesAt, Whole, Has, FlatOk
<1>5. QED BY <1>4 DEF CopiesCurrent

\* A source known of these grids is known of them in the next state, on the same mesh
LEMMA SourcesNext ==
  ASSUME cfg' = cfg, nref' = nref, NEW x, NEW cur, g' = x, Cur' = cur, SourceFrom(x, cur)
  PROVE  Sources'
BY SameMesh DEF Sources, SourceFrom, HoldsAt

\* So is what has been made on the way down
LEMMA MadeNext ==
  ASSUME cfg' = cfg, nref' = nref, NEW x, NEW at, NEW st, g' = x, start' = st, MadeAbove(x, at, st)
  PROVE  /\ level' = at => MadeAbove(g, level, start)'
         /\ at = -1 => MadeAbove(g, -1, start)'
<1>1. CASE level' = at
  BY <1>1, SameMesh DEF MadeAbove, HoldsAt, Hierarchy, Octets, LeafLevels
<1>2. CASE at = -1
  BY <1>2, SameMesh DEF MadeAbove, HoldsAt, Hierarchy, Octets, LeafLevels
<1>3. QED BY <1>1, <1>2

\* As constructed every copy is current
LEMMA InitData == Init => DInv
<1> SUFFICES ASSUME Init PROVE DInv
  OBVIOUS
<1>1. /\ cfg \in Config /\ nref \in 0..MaxRef /\ phase = "idle" /\ level = 0 /\ start = 0
      /\ g = Grids0(cfg)
  BY DEF Init
<1>2. IInv
  BY InitIInv
<1>3. Grid(g)
  BY <1>2 DEF IInv, Types
<1>4. Arrays(g) /\ g.bad = {}
  BY <1>1 DEF Grids0, Arrays, Kinds
<1>5. ASSUME NEW c \in {"dev", "host"}, NEW f \in Kept, NEW e \in Everywhere PROVE <<c, f, e>> \in g.fresh
  BY <1>1, <1>5 DEF Grids0, Kept
<1>6. Whole(g, "host") /\ Whole(g, Home)
  BY <1>5 DEF Whole, Has, Home
<1>7. g.flatStale /\ g.sync = "synced" /\ g.exchanged = "yes"
  BY <1>1 DEF Grids0
<1>8. Sound(g)
  BY <1>3, <1>4 DEF Sound
<1>9. OnHost(g)
  BY <1>6, <1>7, <1>8 DEF OnHost, Whole, Has, Kept, FlatOk
<1>10. CopiesCurrent
  BY <1>6, <1>9, CurrentOnBoth DEF CopiesCurrent
<1>11. Sources /\ Descent /\ FinestIsFMGLevel /\ NormKnown
  BY <1>1, <1>7 DEF Sources, InSolve, Descent, FinestIsFMGLevel, InCycle, NormKnown
<1>12. QED BY <1>2, <1>10, <1>11 DEF DInv

\* grids on a mesh that may have changed: new arrays have ghost zones that nobody filled
OnNewMesh(x, y) ==
  /\ OnHost(y) /\ y.rootLevel = x.rootLevel
  /\ y.src = x.src /\ y.old = x.old /\ y.bsrc = x.bsrc /\ y.bold = x.bold
  /\ x.exchanged # "no" => y.exchanged # "no"

\* A mesh that has changed leaves what was current on the host current there
LEMMA PrepareForAMRData ==
  ASSUME NEW x, OnHost(x), NEW n, NEW changed \in BOOLEAN
  PROVE  LET y == PrepareForAMR(x, n, changed)
         IN  OnNewMesh(x, y)
<1>1. CASE changed
  <2>1. PICK y : y = PrepareForAMR(x, n, changed)
    OBVIOUS
  <2>2. y = [x EXCEPT
          !.flatStale = TRUE, !.exchanged = "guess",
          !.fresh = {t \in Copies \X {"u", "uold", "src"} \X Everywhere :
                       IF t[3] = "ghost" THEN t \in x.fresh
                       ELSE {<<t[1], t[2], c>> : c \in Interior} \subseteq x.fresh},
          !.ghost = [l \in DOMAIN x.ghost |-> IF l > Top THEN "old" ELSE x.ghost[l]]]
    BY <1>1, <2>1 DEF PrepareForAMR
  <2>3. Grid(x) /\ Arrays(x)
    BY DEF OnHost, Sound
  <2>4. /\ Grid(y) /\ y.rootLevel = x.rootLevel /\ y.exchanged = "guess"
        /\ y.src = x.src /\ y.old = x.old /\ y.bsrc = x.bsrc /\ y.bold = x.bold
        /\ y.sync = x.sync /\ y.flatStale = TRUE /\ y.bad = x.bad
        /\ y.fresh = {t \in Copies \X {"u", "uold", "src"} \X Everywhere :
                       IF t[3] = "ghost" THEN t \in x.fresh
                       ELSE {<<t[1], t[2], c>> : c \in Interior} \subseteq x.fresh}
        /\ y.ghost = [l \in DOMAIN x.ghost |-> IF l > Top THEN "old" ELSE x.ghost[l]]
    BY <2>2, <2>3 DEF Grid, Fields
  <2>5. y.ghost \in [Hierarchy(cfg) -> {"old", "same", "leaf", "all"}]
    BY <2>3, <2>4 DEF Arrays
  <2>6. Sound(y)
    <3>1. Arrays(y)
      BY <2>3, <2>4, <2>5 DEF Arrays
    <3>2. QED BY <2>4, <3>1 DEF Sound, OnHost
  <2>7. ASSUME NEW c \in Copies, NEW f \in Kept, Has(x, c, {f}, Everywhere) PROVE Has(y, c, {f}, Everywhere)
    <3>1. SUFFICES ASSUME NEW e \in Everywhere PROVE <<c, f, e>> \in y.fresh
      BY DEF Has
    <3>2. <<c, f, e>> \in Copies \X {"u", "uold", "src"} \X Everywhere
      BY DEF Kept
    <3>3. \A d \in Everywhere : <<c, f, d>> \in x.fresh
      BY <2>7 DEF Has
    <3>4. {<<c, f, d>> : d \in Interior} \subseteq x.fresh
      BY <3>3, Cells
    <3>5. QED BY <2>4, <3>2, <3>3, <3>4
  <2>8. Whole(y, "host") /\ Has(y, Home, {"uold"}, Everywhere)
    <3>1. "host" \in Copies /\ Home \in Copies /\ "uold" \in Kept
      BY DEF Copies, Home, Kept
    <3>2. \A f \in Kept : Has(x, "host", {f}, Everywhere)
      BY DEF OnHost, Whole, Has
    <3>3. \A f \in Kept : Has(y, "host", {f}, Everywhere)
      BY <2>7, <3>1, <3>2
    <3>4. Has(x, Home, {"uold"}, Everywhere)
      BY DEF OnHost
    <3>5. Has(y, Home, {"uold"}, Everywhere)
      BY <2>7, <3>1, <3>4
    <3>6. QED BY <3>3, <3>5 DEF Whole, Has
  <2>9. OnHost(y)
    BY <2>4, <2>6, <2>8 DEF OnHost, FlatOk
  <2>10. QED BY <2>1, <2>4, <2>9 DEF OnNewMesh
<1>2. CASE ~changed
  BY <1>2 DEF PrepareForAMR, OnNewMesh
<1>3. QED BY <1>1, <1>2

\* A solve begins with its source on the MeshBlocks and the host's copy current
LEMMA SolveData == ASSUME DInv, Solve PROVE DInv'
<1>1. PICK n \in 0..MaxRef, changed \in BOOLEAN :
        /\ n # nref => changed
        /\ nref' = n
        /\ \E v : /\ v = [PrepareForAMR(g, n, changed) EXCEPT
                             !.blockLevel = NBlk - 1, !.bsrc[NBlk - 1] = "source"]
                  /\ g' = IF cfg.fmg THEN v ELSE Measured(v)
        /\ level' = NRoot + NBlk + n - 2
  BY DEF Solve
<1>2. /\ cfg \in Config /\ cfg' = cfg /\ phase = "idle" /\ phase' = (IF cfg.fmg THEN "coarser" ELSE "iterate")
      /\ count' = 0 /\ fmglevel' = level'
  BY DEF Solve, DInv, IInv, Types
<1>3. IInv'
  BY SolveKeeps DEF DInv
<1>4. NBlk \in Nat \ 0..2 /\ NRoot \in Nat \ {0} /\ n \in Nat
  BY <1>1, <1>2, MultigridAssumption DEF NRoot
<1>5. OnHost(g) /\ g.exchanged # "no"
  BY <1>2 DEF DInv, CopiesCurrent, CopiesAt, NormKnown
<1>6. PICK x : x = PrepareForAMR(g, n, changed)
  OBVIOUS
<1>7. OnHost(x) /\ x.exchanged # "no"
  BY <1>5, <1>6, PrepareForAMRData DEF OnNewMesh
<1>8. PICK y : /\ y = [x EXCEPT !.blockLevel = NBlk - 1, !.bsrc[NBlk - 1] = "source"]
              /\ g' = IF cfg.fmg THEN y ELSE Measured(y)
  BY <1>1, <1>6
<1>9. /\ Grid(y) /\ y.fresh = x.fresh /\ y.sync = x.sync /\ y.flatStale = x.flatStale /\ y.bad = x.bad
      /\ y.src = x.src /\ y.old = x.old /\ y.ghost = x.ghost /\ y.bold = x.bold /\ y.exchanged = x.exchanged
      /\ y.bsrc = [x.bsrc EXCEPT ![NBlk - 1] = "source"]
  <2>1. Grid(x)
    BY <1>7 DEF OnHost, Sound
  <2>2. PICK a : a = [x.bsrc EXCEPT ![NBlk - 1] = "source"]
    OBVIOUS
  <2>3. y = [x EXCEPT !.blockLevel = NBlk - 1, !.bsrc = a]
    BY <1>8, <2>2
  <2>4. NBlk - 1 \in Int
    BY <1>4
  <2>5. Grid(y)
    BY <2>1, <2>3, <2>4 DEF Grid, Fields
  <2>6. QED BY <2>1, <2>2, <2>3, <2>5 DEF Grid, Fields
<1>10. x.bsrc \in [0..(NBlk - 1) -> Kinds] /\ NBlk - 1 \in 0..(NBlk - 1)
  BY <1>4, <1>7 DEF OnHost, Sound, Arrays
<1>11. Sound(y)
  <2>1. y.bsrc \in [0..(NBlk - 1) -> Kinds]
    BY <1>9, <1>10 DEF Kinds
  <2>2. Arrays(y)
    BY <1>7, <1>9, <2>1 DEF OnHost, Sound, Arrays
  <2>3. QED BY <1>7, <1>9, <2>2 DEF OnHost, Sound
<1>12. OnHost(y)
  BY <1>7, <1>9, <1>11, CopiesAlone DEF HostKept
<1>13. PICK z : z = g'
  OBVIOUS
<1>14. OnHost(z) /\ z.bsrc = y.bsrc /\ z.exchanged # "no"
  <2>1. CASE cfg.fmg
    BY <1>7, <1>8, <1>9, <1>12, <1>13, <2>1
  <2>2. CASE ~cfg.fmg
    <3>1. CopiesAt(y, 0, "idle")
      BY <1>12 DEF CopiesAt, OnHost
    <3>2. CopiesAt(z, 0, "idle") /\ z.bsrc = y.bsrc /\ z.exchanged = y.exchanged
      BY <1>7, <1>8, <1>9, <1>13, <2>2, <3>1, CurrentWhenMeasured
    <3>3. QED BY <1>7, <1>9, <3>2 DEF CopiesAt
  <2>3. QED BY <2>1, <2>2
<1>15. Top' = Top /\ Home' = Home /\ Top = NRoot - 1 /\ FirstBlock' = NRoot + n
  BY <1>1, <1>2 DEF Top, NRoot, Home, FirstBlock
<1>16. level' \in Nat /\ ~(level' <= Top') /\ ~(level' < FirstBlock') /\ level' = NBlk - 1 + FirstBlock' - 1
       /\ level' > 0
  BY <1>1, <1>4, <1>15
<1>17. OnHost(z)'
  <2>1. Sound(z)'
    BY <1>2, <1>14 DEF OnHost, Sound, Arrays, Grid, Hierarchy
  <2>2. QED BY <1>15, <1>14, <2>1 DEF OnHost, Whole, Has, FlatOk
<1>18. CopiesCurrent'
  BY <1>13, <1>16, <1>17 DEF CopiesCurrent, CopiesAt, OnHost
<1>19. phase' \notin InCycle /\ phase' \in {"coarser", "iterate"}
  BY <1>2 DEF InCycle
<1>20. Sources'
  <2>1. Cur' = level'
    BY <1>19 DEF Cur
  <2>2. \A b \in 1..(NBlk - 1) : b + FirstBlock' - 1 >= level' => z.bsrc[b] = "source"
    <3>1. SUFFICES ASSUME NEW b \in 1..(NBlk - 1), b + FirstBlock' - 1 >= level' PROVE z.bsrc[b] = "source"
      OBVIOUS
    <3>2. b = NBlk - 1
      BY <1>1, <1>4, <1>15, <1>16, <3>1
    <3>3. QED BY <1>9, <1>10, <1>14, <3>2
  <2>3. \A l \in 0..(FirstBlock' - 1) : ~(l >= level')
    BY <1>1, <1>4, <1>15, <1>16
  <2>4. QED BY <1>13, <2>1, <2>2, <2>3 DEF Sources, SourceFrom
<1>21. Descent' /\ FinestIsFMGLevel' /\ NormKnown'
  <2>1. Descent'
    BY <1>19 DEF Descent
  <2>2. FinestIsFMGLevel'
    BY <1>2, <1>16, <1>19 DEF FinestIsFMGLevel, Cur
  <2>3. NormKnown'
    BY <1>13, <1>19, <1>14 DEF NormKnown
  <2>4. QED BY <2>1, <2>2, <2>3
<1>22. QED BY <1>3, <1>18, <1>20, <1>21 DEF DInv

\* Full multigrid goes one level up with the sources it restricted
LEMMA FMGData == ASSUME DInv, FMG PROVE DInv'
<1>1. /\ phase = "fmg" /\ cfg' = cfg /\ nref' = nref /\ start' = start /\ InSolve /\ phase # "idle"
      /\ phase' \in {"fmgcycle", "iterate"} /\ count' = 0
  BY DEF FMG, InSolve
<1>2. IInv' /\ IInv
  BY FMGKeeps DEF DInv
<1>3. /\ cfg \in Config /\ nref \in 0..MaxRef /\ level \in Nat
      /\ Grid(g) /\ LevelsAt(g, level) /\ level <= NTotal - 1 /\ NTotal \in Int
      /\ Top \in Nat /\ FirstBlock \in Nat /\ Top <= FirstBlock - 1 /\ FirstBlock < NTotal - 1
  BY <1>1, <1>2, Here DEF IInv, Types
<1>4. CopiesAt(g, level, "fmg") /\ SourceFrom(g, level) /\ "fmg" \in Ascending
  BY <1>1 DEF DInv, CopiesCurrent, Sources, Cur, InCycle, InSolve, Ascending
<1>5. phase' \notin InCycle
  BY <1>1 DEF InCycle
<1>6. CASE level < NTotal - 1
  <2>1. g' = FMGProlongate(g) /\ level' = level + 1 /\ fmglevel' = level + 1 /\ phase' = "fmgcycle"
    BY <1>6 DEF FMG
  <2>2. Sound(g) /\ (level > Top => OnHost(g)) /\ (level < FirstBlock => Whole(g, Home))
    BY <1>4 DEF CopiesAt
  <2>3. PICK y : y = FMGProlongate(g)
    OBVIOUS
  <2>4. /\ y.src = g.src /\ y.old = g.old /\ y.bsrc = g.bsrc
        /\ level + 1 > Top => OnHost(y)
        /\ level + 1 <= Top => OnRoot(y)
        /\ level + 1 < FirstBlock => Whole(y, Home)
    BY <1>3, <2>2, <2>3, FMGProlongateData
  <2>5. CopiesAt(y, level + 1, "fmgcycle")
    <3>1. CASE level + 1 > Top
      <4>1. ~(level + 1 <= Top)
        BY <1>3, <3>1
      <4>2. QED BY <2>4, <3>1, <4>1, CurrentOnHost
    <3>2. CASE ~(level + 1 > Top)
      <4>1. level + 1 <= Top
        BY <1>3, <3>2
      <4>2. QED BY <2>4, <3>2, <4>1, CurrentOnRoot
    <3>3. QED BY <3>1, <3>2
  <2>6. CopiesCurrent'
    BY <1>1, <2>1, <2>3, <2>5, CopiesNext
  <2>7. SourceFrom(y, level + 1)
    <3>1. SourceFrom(y, level)
      BY <1>4, <2>4, SourceKept
    <3>2. \A k \in Int : k >= level + 1 => k >= level
      BY <1>3
    <3>3. QED
      <4>1. \A b \in 1..(NBlk - 1) : b + FirstBlock - 1 >= level + 1 => y.bsrc[b] = "source"
        BY <1>3, <3>1, <3>2 DEF SourceFrom
      <4>2. \A l \in 0..(FirstBlock - 1) : l >= level + 1 => HoldsAt(y, l, "source")
        BY <1>3, <3>1, <3>2 DEF SourceFrom
      <4>3. QED BY <4>1, <4>2 DEF SourceFrom
  <2>8. Sources'
    <3>1. Cur' = level + 1
      BY <1>5, <2>1 DEF Cur
    <3>2. QED BY <1>1, <2>1, <2>3, <2>7, <3>1, SourcesNext
  <2>9. Descent' /\ NormKnown'
    BY <2>1 DEF Descent, NormKnown
  <2>10. FinestIsFMGLevel'
    BY <1>3, <1>5, <2>1 DEF FinestIsFMGLevel, Cur
  <2>11. QED BY <1>2, <2>6, <2>8, <2>9, <2>10 DEF DInv
<1>7. CASE ~(level < NTotal - 1)
  <2>1. g' = Measured(g) /\ level' = level /\ fmglevel' = NTotal - 1 /\ phase' = "iterate"
    BY <1>7 DEF FMG
  <2>2. level = NTotal - 1 /\ ~(level <= Top) /\ ~(level < FirstBlock) /\ level > Top /\ level > 0
    BY <1>3, <1>7
  <2>3. OnHost(g)
    BY <1>4, <2>2 DEF CopiesAt
  <2>4. g.exchanged = "yes" /\ CopiesAt(g, level, "iterate")
    BY <1>1, <2>2, <2>3, CurrentOnHost DEF DInv, NormKnown
  <2>5. PICK y : y = Measured(g)
    OBVIOUS
  <2>6. CopiesAt(y, level, "iterate") /\ y.src = g.src /\ y.bsrc = g.bsrc /\ y.exchanged = "yes"
    BY <2>4, <2>5, CurrentWhenMeasured
  <2>7. CopiesCurrent'
    BY <1>1, <2>1, <2>6, <2>5, CopiesNext
  <2>8. Cur' = level
    BY <1>5, <2>1 DEF Cur
  <2>9. Sources'
    <3>1. SourceFrom(y, level)
      BY <1>4, <2>6, SourceKept
    <3>2. QED BY <1>1, <2>1, <2>8, <2>5, <3>1, SourcesNext
  <2>10. Descent'
    BY <2>1 DEF Descent
  <2>11. FinestIsFMGLevel'
    BY <2>1, <2>2, <2>8 DEF FinestIsFMGLevel
  <2>12. NormKnown'
    BY <2>1, <2>6, <2>5 DEF NormKnown
  <2>13. QED BY <1>2, <2>7, <2>9, <2>10, <2>11, <2>12 DEF DInv
<1>8. QED BY <1>6, <1>7

\* Within a level of MeshBlocks the source goes to the level below
LEMMA SourceToCoarserBlocks ==
  ASSUME cfg \in Config, nref \in 0..MaxRef, NEW x, OnHost(x), AtTop(x),
         NEW l \in Nat, l >= FirstBlock, l <= NTotal - 1, x.blockLevel = l - (FirstBlock - 1), SourceFrom(x, l)
  PROVE  LET y == [x EXCEPT !.bsrc[x.blockLevel - 1] = "source", !.blockLevel = @ - 1]
         IN  /\ OnHost(y) /\ AtTop(y) /\ y.src = x.src
             /\ \A b \in 0..(NBlk - 1) : b + FirstBlock - 1 >= l - 1 => y.bsrc[b] = "source"
<1>1. /\ FirstBlock \in Nat /\ NTotal - 1 = FirstBlock - 1 + (NBlk - 1) /\ NBlk \in Nat \ 0..2
  BY LevelsHaveArrays
<1>2. PICK b : b = x.blockLevel
  OBVIOUS
<1>3. b \in 1..(NBlk - 1) /\ b = l - (FirstBlock - 1) /\ b - 1 \in 0..(NBlk - 1) /\ b - 1 \in Int
  BY <1>1, <1>2
<1>4. PICK a : a = [x.bsrc EXCEPT ![b - 1] = "source"]
  OBVIOUS
<1>5. PICK y : y = [x EXCEPT !.bsrc[x.blockLevel - 1] = "source", !.blockLevel = @ - 1]
  OBVIOUS
<1>6. Grid(x) /\ Sound(x) /\ x.bsrc \in [0..(NBlk - 1) -> Kinds]
  BY DEF OnHost, Sound, Arrays
<1>7. y = [x EXCEPT !.bsrc = a, !.blockLevel = b - 1]
  BY <1>2, <1>4, <1>5, <1>6 DEF Grid, Fields
<1>8. /\ Grid(y) /\ y.fresh = x.fresh /\ y.sync = x.sync /\ y.flatStale = x.flatStale /\ y.bad = x.bad
      /\ y.src = x.src /\ y.old = x.old /\ y.ghost = x.ghost /\ y.bold = x.bold /\ y.exchanged = x.exchanged
      /\ y.rootLevel = x.rootLevel /\ y.bsrc = a
  BY <1>3, <1>6, <1>7 DEF Grid, Fields
<1>9. a \in [0..(NBlk - 1) -> Kinds]
  BY <1>4, <1>6 DEF Kinds
<1>10. Arrays(y)
  BY <1>6, <1>8, <1>9 DEF Sound, Arrays
<1>11. Sound(y)
  BY <1>6, <1>8, <1>10 DEF Sound
<1>12. OnHost(y)
  BY <1>8, <1>11, CopiesAlone DEF HostKept
<1>13. ASSUME NEW k \in 0..(NBlk - 1), k + FirstBlock - 1 >= l - 1 PROVE y.bsrc[k] = "source"
  <2>1. k = b - 1 \/ (k # b - 1 /\ k \in 1..(NBlk - 1) /\ k + FirstBlock - 1 >= l)
    BY <1>1, <1>3, <1>13
  <2>2. k + FirstBlock - 1 >= l /\ k \in 1..(NBlk - 1) => x.bsrc[k] = "source"
    BY DEF SourceFrom
  <2>3. QED BY <1>4, <1>6, <1>8, <2>1, <2>2
<1>14. QED BY <1>5, <1>8, <1>12, <1>13 DEF AtTop

\* The source comes down to every level, from the MeshBlocks over octets to the root grid
LEMMA SolveFMGCoarserData == ASSUME DInv, SolveFMGCoarser PROVE DInv'
<1>1. /\ phase = "coarser" /\ cfg' = cfg /\ nref' = nref /\ InSolve /\ phase # "idle"
      /\ phase' = IF level' = 0 THEN "fmg" ELSE "coarser"
  BY DEF SolveFMGCoarser, InSolve
<1>2. IInv' /\ IInv
  BY SolveFMGCoarserKeeps DEF DInv
<1>3. /\ cfg \in Config /\ nref \in 0..MaxRef /\ level \in Nat
      /\ Grid(g) /\ LevelsAt(g, level) /\ level <= NTotal - 1 /\ NTotal \in Int
      /\ Top \in Nat /\ FirstBlock \in Nat /\ Top <= FirstBlock - 1 /\ FirstBlock < NTotal - 1
      /\ (level >= FirstBlock \/ level <= Top)
  BY <1>1, <1>2, Here DEF IInv, Types, Within
<1>4. CopiesAt(g, level, "coarser") /\ SourceFrom(g, level) /\ "coarser" \notin Ascending
  BY <1>1 DEF DInv, CopiesCurrent, Sources, Cur, InCycle, InSolve, Ascending
<1>5. phase' \notin InCycle /\ phase' \in {"coarser", "fmg"} /\ phase' # "idle"
  BY <1>1 DEF InCycle
<1>6. nref = 0 <=> Top = FirstBlock - 1
  BY <1>3, LevelsHaveArrays
<1>7. /\ CopiesAt(g', level', phase')
      /\ SourceFrom(g', level')
  <2>1. CASE level >= FirstBlock
    <3>1. PICK y : y = [g EXCEPT !.bsrc[g.blockLevel - 1] = "source", !.blockLevel = @ - 1]
      OBVIOUS
    <3>2. OnHost(g) /\ AtTop(g) /\ g.blockLevel = level - (FirstBlock - 1)
      BY <1>3, <1>4, <2>1 DEF CopiesAt, AtTop, LevelsAt
    <3>3. /\ OnHost(y) /\ AtTop(y) /\ y.src = g.src
          /\ \A b \in 0..(NBlk - 1) : b + FirstBlock - 1 >= level - 1 => y.bsrc[b] = "source"
      BY <1>3, <1>4, <2>1, <3>1, <3>2, SourceToCoarserBlocks
    <3>4. CASE level > FirstBlock
      <4>1. g' = y /\ level' = level - 1
        <5>1. level # FirstBlock
          BY <1>3, <3>4
        <5>2. QED BY <2>1, <3>1, <3>4, <5>1, Zenon DEF SolveFMGCoarser
      <4>2. level' # 0 /\ ~(level' <= Top) /\ phase' = "coarser"
        BY <1>1, <1>3, <3>4, <4>1
      <4>3. CopiesAt(y, level', phase')
        BY <1>4, <3>3, <4>2, CurrentOnHost
      <4>4. \A l \in 0..(FirstBlock - 1) : ~(l >= level - 1)
        BY <1>3, <3>4
      <4>5. \A b \in 1..(NBlk - 1) : b \in 0..(NBlk - 1)
        OBVIOUS
      <4>6. SourceFrom(y, level - 1)
        BY <3>3, <4>4, <4>5 DEF SourceFrom
      <4>7. QED BY <4>1, <4>3, <4>6
    <3>5. CASE level = FirstBlock
      <4>1. PICK z : z = TransferFromBlocksToRoot(y, TRUE)
        OBVIOUS
      <4>2. /\ OnHost(z) /\ (nref = 0 => Whole(z, Home)) /\ AtTop(z) /\ z.bsrc = y.bsrc
            /\ \A l \in Hierarchy(cfg) :
                 z.src[l].leaf = IF l \in LeafLevels THEN y.bsrc[0] ELSE y.src[l].leaf
        <5>1. GivenByBlocks(y, z)
          BY <1>3, <3>3, <4>1, BlocksToRootData
        <5>2. QED BY <5>1 DEF GivenByBlocks
      <4>3. g' = (IF nref > 0 THEN RestrictFMGSourceOctets(z) ELSE z) /\ level' = Top
        <5>1. ~(level > FirstBlock)
          BY <1>3, <3>5
        <5>2. QED BY <2>1, <3>1, <3>5, <4>1, <5>1, Zenon DEF SolveFMGCoarser
      <4>4. y.bsrc[0] = "source" /\ \A b \in 1..(NBlk - 1) : y.bsrc[b] = "source"
        <5>1. NBlk \in Nat \ 0..2
          BY MultigridAssumption
        <5>2. \A b \in 0..(NBlk - 1) : b + FirstBlock - 1 >= level - 1
          BY <1>3, <3>5
        <5>3. QED BY <3>3, <5>1, <5>2
      <4>5. \A l \in 0..(FirstBlock - 1) : l \in Hierarchy(cfg) /\ (l >= Top => l \in LeafLevels)
        BY <1>3, LevelsHaveArrays DEF LeafLevels
      <4>6. \A l \in 0..(FirstBlock - 1) : l >= Top => z.src[l].leaf = "source"
        BY <4>2, <4>4, <4>5
      <4>7. CASE nref = 0
        <5>1. g' = z /\ Whole(z, Home)
          BY <4>2, <4>3, <4>7
        <5>2. SourceFrom(z, Top)
          <6>1. \A l \in 0..(FirstBlock - 1) : ~(l < FirstBlock - 1 /\ l >= Top)
            BY <1>3, <1>6, <4>7
          <6>2. QED BY <4>2, <4>4, <4>6, <6>1 DEF SourceFrom, HoldsAt
        <5>3. QED BY <4>2, <4>3, <5>1, <5>2, CurrentOnBoth
      <4>8. CASE nref # 0
        <5>1. Top \in Hierarchy(cfg) /\ nref > 0
          BY <1>3, <4>8, <4>5, MultigridAssumption
        <5>2. PICK w : w = RestrictFMGSourceOctets(z)
          OBVIOUS
        <5>3. /\ OnHost(w) /\ Whole(w, Home) /\ w.bsrc = z.bsrc
              /\ \A l \in Hierarchy(cfg) :
                   /\ w.src[l].leaf = z.src[l].leaf
                   /\ l \in (Octets \cup {Top}) \ {FirstBlock - 1} => w.src[l].covered = "source"
          BY <4>2, <5>1, <5>2, RestrictFMGSourceOctetsData
        <5>4. g' = w
          BY <4>3, <5>1, <5>2
        <5>5. ASSUME NEW l \in 0..(FirstBlock - 1), l >= Top PROVE HoldsAt(w, l, "source")
          <6>1. l \in Hierarchy(cfg)
            BY <4>5
          <6>2. w.src[l].leaf = "source"
            BY <4>6, <5>3, <5>5, <6>1
          <6>3. l < FirstBlock - 1 => l \in (Octets \cup {Top}) \ {FirstBlock - 1}
            BY <1>3, <5>5, LevelsHaveArrays DEF Octets
          <6>4. QED BY <5>3, <6>1, <6>2, <6>3 DEF HoldsAt
        <5>6. SourceFrom(w, Top)
          BY <4>2, <4>4, <5>3, <5>5 DEF SourceFrom
        <5>7. QED BY <4>3, <5>3, <5>4, <5>6, CurrentOnBoth
      <4>9. QED BY <4>7, <4>8
    <3>6. QED BY <1>3, <2>1, <3>4, <3>5
  <2>2. CASE ~(level >= FirstBlock)
    <3>1. /\ level > 0 /\ level' = level - 1
          /\ g' = MarkRootDeviceModified(RestrictSourcePack(g))
      BY <2>2 DEF SolveFMGCoarser
    <3>2. level <= Top /\ g.rootLevel = level /\ level - 1 \in Nat /\ level - 1 < FirstBlock
      BY <1>3, <2>2, <3>1 DEF LevelsAt
    <3>3. Sound(g) /\ Whole(g, Home) /\ FlatOk(g)
      BY <1>4, <3>2 DEF CopiesAt
    <3>4. level - 1 \in Hierarchy(cfg)
      BY <1>3, <3>2, LevelsHaveArrays
    <3>5. PICK y : y = MarkRootDeviceModified(RestrictSourcePack(g))
      OBVIOUS
    <3>6. Sound(y) /\ Whole(y, Home) /\ FlatOk(y) /\ Restricted(g, y, level, "source")
      BY <3>2, <3>3, <3>4, <3>5, RestrictSourcePackData
    <3>7. ~(level - 1 > Top)
      BY <1>3, <3>2
    <3>8. CopiesAt(y, level', phase')
      BY <1>5, <3>1, <3>6, <3>7 DEF CopiesAt
    <3>9. SourceFrom(y, level - 1)
      <4>1. y.bsrc = g.bsrc /\ y.src = [g.src EXCEPT ![level - 1].covered = "source"]
        BY <3>6 DEF Restricted
      <4>2. g.src \in [Hierarchy(cfg) -> [leaf : Kinds, covered : Kinds]]
        BY <3>3 DEF Sound, Arrays
      <4>3. ASSUME NEW k \in Hierarchy(cfg)
            PROVE  /\ y.src[k].leaf = g.src[k].leaf
                   /\ y.src[k].covered = IF k = level - 1 THEN "source" ELSE g.src[k].covered
        BY <4>1, <4>2
      <4>4. ASSUME NEW l \in 0..(FirstBlock - 1), l >= level - 1 PROVE HoldsAt(y, l, "source")
        <5>1. l \in Hierarchy(cfg)
          BY <1>3, LevelsHaveArrays
        <5>2. CASE l = level - 1
          <6>1. ~(l >= Top)
            BY <1>3, <3>2, <5>2
          <6>2. QED BY <4>3, <5>1, <5>2, <6>1 DEF HoldsAt
        <5>3. CASE l # level - 1
          <6>1. l >= level
            BY <1>3, <4>4, <5>3
          <6>2. HoldsAt(g, l, "source")
            BY <1>4, <6>1 DEF SourceFrom
          <6>3. QED BY <4>3, <5>1, <5>3, <6>2 DEF HoldsAt
        <5>4. QED BY <5>2, <5>3
      <4>5. ASSUME NEW b \in 1..(NBlk - 1) PROVE y.bsrc[b] = "source"
        <5>1. b + FirstBlock - 1 >= level
          BY <1>3, <3>2
        <5>2. QED BY <1>4, <4>1, <5>1 DEF SourceFrom
      <4>6. QED BY <4>4, <4>5 DEF SourceFrom
    <3>10. QED BY <3>1, <3>5, <3>8, <3>9
  <2>3. QED BY <2>1, <2>2
<1>8. PICK x, l, ph : x = g' /\ l = level' /\ ph = phase'
  OBVIOUS
<1>9. CopiesCurrent'
  BY <1>1, <1>7, <1>8, CopiesNext
<1>10. Sources'
  <2>1. Cur' = l
    BY <1>5, <1>8 DEF Cur
  <2>2. QED BY <1>1, <1>7, <1>8, <2>1, SourcesNext
<1>11. Descent' /\ FinestIsFMGLevel'
  BY <1>1, <1>5 DEF Descent, FinestIsFMGLevel
<1>12. NormKnown'
  <2>1. phase' = "fmg" => level' = 0
    BY <1>1
  <2>2. NTotal' = NTotal /\ NTotal - 1 # 0
    BY <1>1, <1>3, SameMesh
  <2>3. QED BY <1>1, <1>5, <2>1, <2>2 DEF NormKnown
<1>13. QED BY <1>2, <1>9, <1>10, <1>11, <1>12 DEF DInv

\* A V-cycle begins with every level at the finest one's source
LEMMA VCycleData == ASSUME DInv, VCycle PROVE DInv'
<1>1. /\ phase \in {"fmgcycle", "iterate"} /\ cfg' = cfg /\ nref' = nref /\ start' = level /\ fmglevel' = fmglevel
      /\ level' = level /\ phase' = (IF phase = "iterate" THEN "down" ELSE "fmgdown") /\ InSolve
      /\ g' = [g EXCEPT !.old = [l \in DOMAIN g.old |-> "before"], !.bold = [b \in DOMAIN g.bold |-> "before"]]
  BY DEF VCycle, InSolve
<1>2. IInv' /\ IInv /\ Sound(g)
  BY VCycleKeeps DEF DInv, CopiesCurrent, CopiesAt
<1>3. /\ cfg \in Config /\ nref \in 0..MaxRef /\ level \in Nat /\ level <= NTotal - 1 /\ NTotal \in Int
      /\ Top \in Nat /\ FirstBlock \in Nat /\ Top <= FirstBlock - 1 /\ FirstBlock < NTotal - 1
  BY <1>1, <1>2, Here DEF IInv, Types
<1>4. CopiesAt(g, level, phase) /\ SourceFrom(g, level) /\ fmglevel = level /\ level > 0
  BY <1>1 DEF DInv, CopiesCurrent, Sources, FinestIsFMGLevel, Cur, InCycle
<1>5. PICK a, b : a = [l \in DOMAIN g.old |-> "before"] /\ b = [l \in DOMAIN g.bold |-> "before"]
  OBVIOUS
<1>6. PICK y : y = [g EXCEPT !.old = a, !.bold = b]
  OBVIOUS
<1>7. g' = y
  BY <1>1, <1>5, <1>6
<1>8. /\ Grid(y) /\ y.fresh = g.fresh /\ y.sync = g.sync /\ y.flatStale = g.flatStale /\ y.bad = g.bad
      /\ y.src = g.src /\ y.bsrc = g.bsrc /\ y.ghost = g.ghost /\ y.exchanged = g.exchanged
      /\ y.old = a /\ y.bold = b
  BY <1>2, <1>6 DEF Sound, Grid, Fields
<1>9. Sound(y)
  <2>1. a \in [Hierarchy(cfg) -> {"before", "now"}] /\ b \in [0..(NBlk - 1) -> {"before", "now"}]
    BY <1>2, <1>5 DEF Sound, Arrays
  <2>2. Arrays(y)
    BY <1>2, <1>8, <2>1 DEF Sound, Arrays
  <2>3. QED BY <1>2, <1>8, <2>2 DEF Sound
<1>10. CopiesAt(y, level, phase')
  <2>1. phase # "idle" /\ phase' # "idle" /\ phase' \notin Ascending
    BY <1>1 DEF Ascending
  <2>2. Whole(g, Home) => Whole(y, Home)
    BY <1>8 DEF Whole, Has
  <2>3. FlatOk(y)
    BY <1>4, <1>8 DEF CopiesAt, FlatOk, Has
  <2>4. OnHost(g) => OnHost(y)
    BY <1>8, <1>9, CopiesAlone DEF HostKept
  <2>5. QED BY <1>4, <1>9, <2>1, <2>2, <2>3, <2>4 DEF CopiesAt
<1>11. CopiesCurrent'
  <2>1. PICK ph : ph = phase'
    OBVIOUS
  <2>2. QED BY <1>1, <1>7, <1>10, <2>1, CopiesNext
<1>12. phase' \in {"down", "fmgdown"} /\ phase' \in InCycle
  BY <1>1 DEF InCycle
<1>13. Cur' = level
  BY <1>1, <1>12 DEF Cur
<1>14. Sources'
  <2>1. SourceFrom(y, level)
    BY <1>4, <1>8, SourceKept
  <2>2. QED BY <1>1, <1>7, <1>13, <2>1, SourcesNext
<1>15. Descent'
  <2>1. MadeAbove(y, level, level)
    <3>1. \A l \in Int : ~(level < l /\ l < level)
      BY <1>3
    <3>2. Hierarchy(cfg) \subseteq Int /\ NBlk \in Nat
      BY <1>3, LevelsHaveArrays
    <3>3. \A k \in 1..(NBlk - 1) : k + FirstBlock - 1 \in Int
      BY <1>3, <3>2
    <3>4. 0..(FirstBlock - 1) \subseteq Int /\ ~(level < level)
      BY <1>3
    <3>5. level < FirstBlock /\ level \notin Octets => ~(level >= FirstBlock)
      BY <1>3
    <3>6. level >= FirstBlock => ~(level < FirstBlock)
      BY <1>3
    <3>7. QED BY <3>1, <3>2, <3>3, <3>4, <3>5, <3>6 DEF MadeAbove
  <2>2. PICK l : l = level
    OBVIOUS
  <2>3. MadeAbove(g, level, start)'
    BY <1>1, <1>7, <2>1, <2>2, MadeNext
  <2>4. QED BY <1>12, <2>3 DEF Descent
<1>16. FinestIsFMGLevel'
  BY <1>1, <1>4, <1>13 DEF FinestIsFMGLevel
<1>17. NormKnown'
  BY <1>12 DEF NormKnown
<1>18. QED BY <1>2, <1>11, <1>14, <1>15, <1>16, <1>17 DEF DInv

\* On the way down every equation is made, the last by the coarsest solve
LEMMA DownData == ASSUME DInv, Down PROVE DInv'
<1>1. /\ phase \in {"down", "fmgdown"} /\ cfg' = cfg /\ nref' = nref /\ start' = start /\ fmglevel' = fmglevel
      /\ InSolve /\ phase # "idle" /\ phase \in InCycle
  BY DEF Down, InSolve, InCycle
<1>2. IInv' /\ IInv
  BY DownKeeps DEF DInv
<1>3. /\ cfg \in Config /\ nref \in 0..MaxRef /\ level \in Nat /\ start \in Nat /\ level <= start
      /\ Grid(g) /\ LevelsAt(g, level) /\ level <= NTotal - 1 /\ NTotal \in Int
      /\ Top \in Nat /\ FirstBlock \in Nat /\ Top <= FirstBlock - 1 /\ FirstBlock < NTotal - 1
  BY <1>1, <1>2, Here DEF IInv, Types, Within
<1>4. /\ CopiesAt(g, level, phase) /\ SourceFrom(g, start) /\ MadeAbove(g, level, start)
      /\ fmglevel = start /\ start > 0
  BY <1>1 DEF DInv, CopiesCurrent, Sources, Descent, FinestIsFMGLevel, Cur
<1>5. phase' \in InCycle => Cur' = start /\ FinestIsFMGLevel'
  BY <1>1, <1>4 DEF Cur, FinestIsFMGLevel
<1>6. CASE level > 0
  <2>1. g' = OneStepToCoarser(g) /\ level' = level - 1 /\ phase' = phase
    BY <1>6 DEF Down
  <2>2. PICK y : y = OneStepToCoarser(g)
    OBVIOUS
  <2>3. level \in Nat \ {0}
    BY <1>3, <1>6
  <2>4. CopiesAt(y, level - 1, phase) /\ MadeAbove(y, level - 1, start) /\ SourceFrom(y, start)
    BY <1>1, <1>3, <1>4, <2>2, <2>3, StepDownData
  <2>5. CopiesCurrent'
    BY <1>1, <2>1, <2>2, <2>4, CopiesNext
  <2>6. Sources' /\ FinestIsFMGLevel'
    BY <1>1, <1>5, <2>1, <2>2, <2>4, SourcesNext
  <2>7. MadeAbove(g, level, start)'
    BY <1>1, <2>1, <2>2, <2>4, MadeNext
  <2>8. Descent' /\ NormKnown'
    BY <1>1, <2>1, <2>7 DEF Descent, NormKnown
  <2>9. QED BY <1>2, <2>5, <2>6, <2>8 DEF DInv
<1>7. CASE ~(level > 0)
  <2>1. g' = SolveCoarsestGrid(g) /\ level' = level /\ phase' = IF phase = "down" THEN "up" ELSE "fmgup"
    BY <1>7 DEF Down
  <2>2. level = 0 /\ level <= Top
    BY <1>3, <1>7
  <2>3. Sound(g) /\ Whole(g, Home) /\ g.rootLevel = 0
    BY <1>1, <1>3, <1>4, <2>2 DEF CopiesAt, LevelsAt
  <2>4. PICK y : y = SolveCoarsestGrid(g)
    OBVIOUS
  <2>5. /\ OnRoot(y) /\ y.bsrc = g.bsrc /\ y.bold = g.bold /\ y.exchanged = g.exchanged
        /\ y.old = [g.old EXCEPT ![0] = "now"]
        /\ y.src = IF cfg.average /\ cfg.single THEN g.src ELSE [g.src EXCEPT ![0] = InFas(@)]
    BY <1>3, <2>3, <2>4, SolveCoarsestGridData
  <2>6. MadeAbove(y, -1, start) /\ SourceFrom(y, start)
    <3>1. start \in Nat \ {0} /\ MadeAbove(g, 0, start)
      BY <1>3, <1>4, <2>2
    <3>2. QED BY <1>3, <1>4, <2>3, <2>5, <3>1, MadeByCoarsest
  <2>7. phase' \in {"up", "fmgup"} /\ phase' # "idle" /\ phase' \in InCycle
    BY <1>1, <2>1 DEF InCycle
  <2>8. ~(0 > Top)
    BY <1>3
  <2>9. PICK ph : ph = phase'
    OBVIOUS
  <2>10. CopiesAt(y, 0, ph)
    BY <2>5, <2>7, <2>8, <2>9, CurrentOnRoot
  <2>11. CopiesCurrent'
    BY <1>1, <2>1, <2>2, <2>4, <2>9, <2>10, CopiesNext
  <2>12. Sources' /\ FinestIsFMGLevel'
    BY <1>1, <1>5, <2>1, <2>4, <2>6, <2>7, SourcesNext
  <2>13. MadeAbove(g, -1, start)'
    BY <1>1, <2>1, <2>4, <2>6, MadeNext
  <2>14. ~(level' >= FirstBlock') /\ ~(level' = NTotal' - 1)
    <3>1. FirstBlock > 0
      BY <1>3, LevelsHaveArrays
    <3>2. QED BY <1>1, <1>3, <2>1, <2>2, <3>1, SameMesh
  <2>15. Descent'
    BY <2>7, <2>13, <2>14 DEF Descent
  <2>16. NormKnown'
    BY <2>7, <2>14 DEF NormKnown
  <2>17. QED BY <1>2, <2>11, <2>12, <2>15, <2>16 DEF DInv
<1>8. QED BY <1>6, <1>7

\* On the way up they stay, and the MeshBlocks get uold from the grids below
LEMMA UpData == ASSUME DInv, Up PROVE DInv'
<1>1. /\ phase \in {"up", "fmgup"} /\ cfg' = cfg /\ nref' = nref /\ start' = start /\ fmglevel' = fmglevel
      /\ InSolve /\ phase # "idle" /\ phase \in InCycle /\ phase \in Ascending
  BY DEF Up, InSolve, InCycle, Ascending
<1>2. IInv' /\ IInv
  BY UpKeeps DEF DInv
<1>3. /\ cfg \in Config /\ nref \in 0..MaxRef /\ level \in Nat /\ start \in Nat /\ level <= start
      /\ Grid(g) /\ LevelsAt(g, level) /\ level <= NTotal - 1 /\ NTotal \in Int
      /\ Top \in Nat /\ FirstBlock \in Nat /\ Top <= FirstBlock - 1 /\ FirstBlock < NTotal - 1
      /\ phase = "up" => start = NTotal - 1
  BY <1>1, <1>2, Here DEF IInv, Types, Within
<1>4. /\ CopiesAt(g, level, phase) /\ SourceFrom(g, start) /\ MadeAbove(g, -1, start)
      /\ (level >= FirstBlock => g.bold[0] = "now") /\ (level = NTotal - 1 => g.exchanged = "yes")
      /\ fmglevel = start /\ start > 0
  BY <1>1 DEF DInv, CopiesCurrent, Sources, Descent, FinestIsFMGLevel, NormKnown, Cur
<1>5. CASE level < start
  <2>1. g' = OneStepToFiner(g) /\ level' = level + 1 /\ phase' = phase
    BY <1>5 DEF Up
  <2>2. PICK y : y = OneStepToFiner(g)
    OBVIOUS
  <2>3. /\ CopiesAt(y, level + 1, phase) /\ y.src = g.src /\ y.old = g.old /\ y.bsrc = g.bsrc
        /\ \A k \in 1..(NBlk - 1) : y.bold[k] = g.bold[k]
        /\ level = FirstBlock - 1 /\ (\A k \in LeafLevels : g.old[k] = "now") => y.bold[0] = "now"
        /\ level >= FirstBlock => y.bold = g.bold
        /\ level = NTotal - 2 => y.exchanged = "yes"
    BY <1>1, <1>3, <1>4, <2>2, StepUpData
  <2>4. CopiesCurrent'
    BY <1>1, <2>1, <2>2, <2>3, CopiesNext
  <2>5. Cur' = start /\ FinestIsFMGLevel'
    BY <1>1, <1>4, <2>1 DEF Cur, FinestIsFMGLevel
  <2>6. Sources'
    <3>1. SourceFrom(y, start)
      BY <1>4, <2>3, SourceKept
    <3>2. QED BY <1>1, <2>1, <2>2, <2>5, <3>1, SourcesNext
  <2>7. MadeAbove(g, -1, start)'
    <3>1. MadeAbove(y, -1, start)
      BY <1>4, <2>3, MadeKept
    <3>2. QED BY <1>1, <2>1, <2>2, <3>1, MadeNext
  <2>8. level + 1 >= FirstBlock => y.bold[0] = "now"
    <3>1. CASE level >= FirstBlock
      BY <1>4, <2>3, <3>1
    <3>2. CASE level = FirstBlock - 1
      <4>1. ASSUME NEW k \in LeafLevels PROVE g.old[k] = "now"
        <5>1. k \in Hierarchy(cfg) /\ -1 < k /\ k < start /\ k < FirstBlock
          BY <1>3, <1>5, <3>2, LevelsHaveArrays DEF LeafLevels
        <5>2. QED BY <1>4, <5>1 DEF MadeAbove
      <4>2. QED BY <2>3, <3>2, <4>1
    <3>3. QED BY <1>3, <3>1, <3>2
  <2>9. level' >= FirstBlock' => g'.bold[0] = "now"
    BY <1>1, <2>1, <2>2, <2>8, SameMesh
  <2>10. Descent'
    BY <1>1, <2>1, <2>7, <2>9 DEF Descent
  <2>11. NormKnown'
    <3>1. level + 1 = NTotal - 1 => y.exchanged = "yes"
      BY <1>3, <2>3
    <3>2. QED BY <1>1, <2>1, <2>2, <3>1, SameMesh DEF NormKnown
  <2>12. QED BY <1>2, <2>4, <2>5, <2>6, <2>10, <2>11 DEF DInv
<1>6. CASE ~(level < start)
  <2>1. /\ g' = (IF phase = "up" THEN Measured(g) ELSE g) /\ level' = level
        /\ phase' = CASE phase = "up" -> "iterate"
                       [] count < cfg.cycles -> "fmgcycle"
                       [] OTHER -> "fmg"
    BY <1>6 DEF Up
  <2>2. level = start
    BY <1>3, <1>6
  <2>3. /\ phase' \in {"iterate", "fmgcycle", "fmg"} /\ phase' # "idle" /\ phase' \notin InCycle
        /\ phase' = "iterate" => level = NTotal - 1
        /\ phase = "up" => level = NTotal - 1
    BY <1>1, <1>3, <2>1, <2>2 DEF InCycle
  <2>4. CopiesAt(g, level, phase')
    <3>1. CASE phase' = "iterate"
      <4>1. ~(level <= Top) /\ ~(level < FirstBlock) /\ level > Top
        BY <1>3, <2>3, <3>1
      <4>2. OnHost(g)
        BY <1>4, <4>1 DEF CopiesAt
      <4>3. QED BY <4>1, <4>2, CurrentOnHost
    <3>2. CASE phase' # "iterate"
      <4>1. phase' \in Ascending
        BY <2>3, <3>2 DEF Ascending
      <4>2. QED BY <1>1, <1>4, <2>3, <4>1 DEF CopiesAt
    <3>3. QED BY <3>1, <3>2
  <2>5. PICK ph : ph = phase'
    OBVIOUS
  <2>6. PICK y : y = IF phase = "up" THEN Measured(g) ELSE g
    OBVIOUS
  <2>7. CopiesAt(y, level, ph) /\ y.src = g.src /\ y.bsrc = g.bsrc /\ y.exchanged = g.exchanged
    <3>1. CASE phase = "up"
      <4>1. g.exchanged # "no"
        BY <1>4, <2>3, <3>1
      <4>2. QED BY <2>4, <2>5, <2>6, <3>1, <4>1, CurrentWhenMeasured
    <3>2. CASE phase # "up"
      BY <2>4, <2>5, <2>6, <3>2
    <3>3. QED BY <3>1, <3>2
  <2>8. CopiesCurrent'
    BY <1>1, <2>1, <2>5, <2>6, <2>7, CopiesNext
  <2>9. Cur' = level
    BY <2>1, <2>3 DEF Cur
  <2>10. Sources'
    <3>1. SourceFrom(y, level)
      BY <1>4, <2>2, <2>7, SourceKept
    <3>2. QED BY <1>1, <2>1, <2>9, <2>6, <3>1, SourcesNext
  <2>11. Descent'
    BY <2>3 DEF Descent
  <2>12. FinestIsFMGLevel'
    BY <1>1, <1>4, <2>2, <2>9 DEF FinestIsFMGLevel
  <2>13. NormKnown'
    BY <1>1, <1>4, <2>1, <2>3, <2>6, <2>7, SameMesh DEF NormKnown
  <2>14. QED BY <1>2, <2>8, <2>10, <2>11, <2>12, <2>13 DEF DInv
<1>7. QED BY <1>5, <1>6

\* The solver ends with the host's copy current
LEMMA FinishData == ASSUME DInv, Finish PROVE DInv'
<1>1. /\ phase = "iterate" /\ phase' = "idle" /\ cfg' = cfg /\ nref' = nref
      /\ g' = g /\ InSolve /\ g.exchanged # "no"
  BY DEF Finish, InSolve, DInv, NormKnown
<1>2. IInv' /\ IInv
  BY FinishKeeps DEF DInv
<1>3. /\ level = NTotal - 1 /\ NTotal \in Int /\ Top \in Nat /\ FirstBlock \in Nat
      /\ Top <= FirstBlock - 1 /\ FirstBlock < NTotal - 1
  BY <1>1, <1>2, Here DEF IInv, Within
<1>4. level > Top
  BY <1>3
<1>5. OnHost(g)
  BY <1>4 DEF DInv, CopiesCurrent, CopiesAt
<1>6. PICK l : l = level'
  OBVIOUS
<1>7. CopiesAt(g, l, "idle")
  BY <1>5 DEF CopiesAt, OnHost
<1>8. CopiesCurrent'
  BY <1>1, <1>6, <1>7, CopiesNext
<1>9. Sources' /\ Descent' /\ FinestIsFMGLevel' /\ NormKnown'
  BY <1>1 DEF Sources, InSolve, Descent, FinestIsFMGLevel, InCycle, NormKnown
<1>10. QED BY <1>2, <1>8, <1>9 DEF DInv

\* Nothing happens to the grids where no action is taken
LEMMA StutterData == ASSUME DInv, UNCHANGED vars PROVE DInv'
<1>1. /\ cfg' = cfg /\ nref' = nref /\ phase' = phase /\ level' = level /\ fmglevel' = fmglevel
      /\ start' = start /\ count' = count /\ g' = g
  BY DEF vars
<1>2. IInv'
  BY <1>1, SameMesh DEF DInv, IInv, Types, Within, RootAtTop, LevelsAgree, InSolve, Grid
<1>3. PICK x, l, ph, cur, st :
        x = g /\ l = level /\ ph = phase /\ cur = Cur /\ st = start
  OBVIOUS
<1>4. CopiesCurrent'
  BY <1>1, <1>3, CopiesNext DEF DInv, CopiesCurrent
<1>5. Cur' = Cur
  BY <1>1 DEF Cur
<1>6. Sources'
  <2>1. CASE InSolve
    BY <1>1, <1>3, <1>5, <2>1, SourcesNext DEF DInv, Sources
  <2>2. CASE ~InSolve
    BY <1>1, <2>2 DEF Sources, InSolve
  <2>3. QED BY <2>1, <2>2
<1>7. Descent'
  <2>1. phase \in {"down", "fmgdown"} => MadeAbove(g, level, start)'
    BY <1>1, <1>3, MadeNext DEF DInv, Descent
  <2>2. phase \in {"up", "fmgup"} => MadeAbove(g, -1, start)'
    BY <1>1, <1>3, MadeNext DEF DInv, Descent
  <2>3. QED BY <1>1, <2>1, <2>2, SameMesh DEF DInv, Descent
<1>8. FinestIsFMGLevel' /\ NormKnown'
  BY <1>1, <1>5, SameMesh DEF DInv, FinestIsFMGLevel, NormKnown
<1>9. QED BY <1>2, <1>4, <1>6, <1>7, <1>8 DEF DInv

\* Every operation of the solver keeps the data it will read current
THEOREM DataInvariance == Spec => []DInv
<1>1. DInv /\ [Next]_vars => DInv'
  <2> SUFFICES ASSUME DInv, [Next]_vars PROVE DInv'
    OBVIOUS
  <2>1. CASE Solve           BY <2>1, SolveData
  <2>2. CASE SolveFMGCoarser BY <2>2, SolveFMGCoarserData
  <2>3. CASE FMG             BY <2>3, FMGData
  <2>4. CASE VCycle          BY <2>4, VCycleData
  <2>5. CASE Down            BY <2>5, DownData
  <2>6. CASE Up              BY <2>6, UpData
  <2>7. CASE Finish          BY <2>7, FinishData
  <2>8. CASE UNCHANGED vars  BY <2>8, StutterData
  <2>9. QED BY <2>1, <2>2, <2>3, <2>4, <2>5, <2>6, <2>7, <2>8 DEF Next
<1>2. QED BY <1>1, InitData, PTL DEF Spec

\* No kernel of the solver reads a copy of the root grid that is not the current one, or
\* ghost zones older than the values beside them, save the root grid's own where they are
\* images of refined cells (SetFromRootGrid); every defect norm is taken after an exchange,
\* save, without FMG, the first one on a new mesh.  For all numbers of levels and cycles,
\* up to two sweeps of each kind, and over changes of the mesh
THEOREM SolverReadsCurrentData == Spec => []ReadsCurrentData
<1>1. DInv => ReadsCurrentData
  BY DEF DInv, CopiesCurrent, CopiesAt, Sound, ReadsCurrentData
<1>2. QED BY <1>1, DataInvariance, PTL

\* On the way up every level has the equation and the uold of this very descent
LEMMA DescentIsUsed == DInv => AscentUsesThisDescent
<1> SUFFICES ASSUME DInv, phase \in {"up", "fmgup"}
             PROVE  /\ \A l \in DOMAIN g.old : l < start /\ l < FirstBlock => g.old[l] = "now"
                    /\ level >= FirstBlock => \A b \in 0..(start - FirstBlock) : g.bold[b] = "now"
                    /\ \A b \in 1..(NBlk - 1) : b <= start - (FirstBlock - 1) =>
                         g.bsrc[b] = Equation(b + FirstBlock - 1)
                    /\ start \notin Octets =>
                         \A l \in 0..(FirstBlock - 1) :
                           l <= start /\ ~(l = 0 /\ cfg.average /\ cfg.single) => CellsHold(l, Equation(l))
  BY DEF AscentUsesThisDescent
<1>1. /\ IInv /\ InSolve /\ Sound(g) /\ MadeAbove(g, -1, start) /\ SourceFrom(g, start)
      /\ level >= FirstBlock => g.bold[0] = "now"
  BY DEF DInv, InSolve, CopiesCurrent, CopiesAt, Descent, Sources, Cur, InCycle
<1>2. /\ cfg \in Config /\ nref \in 0..MaxRef /\ start \in Nat /\ start <= NTotal - 1
      /\ FirstBlock \in Nat
  BY <1>1, Here DEF IInv, Types, Within
<1>3. NTotal - 1 = FirstBlock - 1 + (NBlk - 1) /\ NBlk \in Nat \ 0..2 /\ Hierarchy(cfg) \subseteq Nat
  BY <1>2, LevelsHaveArrays
<1>4. ASSUME NEW l \in DOMAIN g.old, l < start, l < FirstBlock PROVE g.old[l] = "now"
  <2>1. l \in Hierarchy(cfg) /\ -1 < l
    BY <1>1, <1>3 DEF Sound, Arrays
  <2>2. QED BY <1>1, <1>4, <2>1 DEF MadeAbove
<1>5. ASSUME level >= FirstBlock, NEW b \in 0..(start - FirstBlock) PROVE g.bold[b] = "now"
  <2>1. CASE b = 0
    BY <1>1, <1>5, <2>1
  <2>2. CASE b # 0
    <3>1. b \in 1..(NBlk - 1) /\ -1 < b + FirstBlock - 1 /\ b + FirstBlock - 1 < start
      BY <1>2, <1>3, <2>2
    <3>2. QED BY <1>1, <3>1 DEF MadeAbove
  <2>3. QED BY <2>1, <2>2
<1>6. ASSUME NEW b \in 1..(NBlk - 1) PROVE g.bsrc[b] = Equation(b + FirstBlock - 1)
  <2>1. CASE b + FirstBlock - 1 < start
    <3>1. -1 < b + FirstBlock - 1
      BY <1>2
    <3>2. QED BY <1>1, <2>1, <3>1 DEF MadeAbove, Equation
  <2>2. CASE ~(b + FirstBlock - 1 < start)
    <3>1. b + FirstBlock - 1 >= start
      BY <1>2, <2>2
    <3>2. QED BY <1>1, <2>2, <3>1 DEF SourceFrom, Equation
  <2>3. QED BY <2>1, <2>2
<1>7. ASSUME start \notin Octets, NEW l \in 0..(FirstBlock - 1), ~(l = 0 /\ cfg.average /\ cfg.single)
      PROVE  CellsHold(l, Equation(l))
  <2>1. CASE l < start
    <3>1. -1 < l
      BY <1>2
    <3>2. HoldsAt(g, l, "fas")
      BY <1>1, <1>7, <2>1, <3>1 DEF MadeAbove
    <3>3. QED BY <2>1, <3>2 DEF HoldsAt, CellsHold, Equation
  <2>2. CASE ~(l < start)
    <3>1. l >= start
      BY <1>2, <2>2
    <3>2. HoldsAt(g, l, "source")
      BY <1>1, <3>1 DEF SourceFrom
    <3>3. QED BY <2>2, <3>2 DEF HoldsAt, CellsHold, Equation
  <2>3. QED BY <2>1, <2>2
<1>8. QED BY <1>4, <1>5, <1>6, <1>7

\* On the way up from the coarsest grid every level is corrected by the change since this
\* cycle came down, with the right-hand side made then, exactly once
THEOREM CorrectionsAreOfThisCycle == Spec => []AscentUsesThisDescent
<1>1. QED BY DescentIsUsed, DataInvariance, PTL
=============================================================================
