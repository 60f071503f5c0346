------------------------------- MODULE GhostZones -------------------------------
(***************************************************************************)
(* What the ghost zones of MeshBlocks are filled with, on the meshes of    *)
(* AMR: the index ranges of boundary buffers (bvals/buffs_cc.cpp,          *)
(* buffs_fc.cpp) and what prolongation reads (bvals/prolongation.cpp).     *)
(* Variables are those at cells and the magnetic fields at the faces of    *)
(* cells across each direction.  Buffers have arrived; the mesh is refined *)
(* somewhere (multilevel), and sheared boundaries are left out.            *)
(***************************************************************************)
EXTENDS BoundaryBuffers

CONSTANT Ghost  \* ng

\* mesh.cpp asks for an even number of ghost zones; it does not ask for the last
\* conjunct, without which a block sends from beyond its own coarse cells
ASSUME GhostAssumption == Ghost \in Nat \ {0} /\ Ghost % 2 = 0 /\ Ghost <= CoarseCells

Variable == {0} \cup Dims   \* cells, and the faces across each direction

\* (a set of values rather than of functions into a set: TLC enumerates it once)
Lattice == {p : p \in [Dims -> (-Ghost)..(Cells + Ghost)]}

\* the positions within a range <<first, last>> along each direction
Box(range) == {p \in Lattice : \A d \in Dims : p[d] \in range[d][1]..range[d][2]}

\* A range lo..hi of cells as one of variable v.  Along its own direction a field has
\* one face more; on the side of the block's boundary that face may be left out.
Span(v, d, cells, side, shared) ==
  IF v # d THEN cells
  ELSE CASE side = 0 \/ shared -> <<cells[1], cells[2] + 1>>
         [] side > 0 /\ ~shared -> cells
         [] side < 0 /\ ~shared -> <<cells[1] + 1, cells[2] + 1>>

\* the face on the boundary belongs to the block; at edges and corners it is sent
Diagonal(i) == Cardinality({d \in Dims : Buffer[i].o[d] # 0}) > 1

\* InitSendIndices: isame, icoar and ifine of a send buffer, by the level of the
\* receiver relative to the sender's
SendSpan(v, i, to, d) ==
  LET o == Buffer[i].o[d]
      size == IF to < 0 THEN CoarseCells ELSE Cells
      cells == CASE o > 0 -> <<size - Ghost, size - 1>>
                 [] o < 0 -> <<0, Ghost - 1>>
                 [] o = 0 /\ to <= 0 -> <<0, size - 1>>
                 [] o = 0 /\ to > 0 ->
                      IF Half(i, d) = 1 THEN <<CoarseCells - Ghost, Cells - 1>>
                      ELSE <<0, CoarseCells + Ghost - 1>>
  IN  Span(v, d, cells, o, to > 0 \/ Diagonal(i))

\* InitRecvIndices: the same of a receive buffer, by the level of the sender.  From a
\* coarser block come coarse cells, as deep as asked for.
RecvCells(i, from, depth, d) ==
  LET o == Buffer[i].o[d]
      size == IF from < 0 THEN CoarseCells ELSE Cells
  IN  CASE o > 0 -> <<size, size + depth - 1>>
        [] o < 0 -> <<-depth, -1>>
        [] o = 0 /\ from = 0 -> <<0, size - 1>>
        [] o = 0 /\ from < 0 ->
             IF Half(i, d) = 1 THEN <<-depth, size - 1>> ELSE <<0, size - 1 + depth>>
        [] o = 0 /\ from > 0 ->
             IF Half(i, d) = 1 THEN <<CoarseCells, size - 1>> ELSE <<0, CoarseCells - 1>>
RecvSpan(v, i, from, d) ==
  Span(v, d, RecvCells(i, from, Ghost, d), -Buffer[i].o[d], from < 0 \/ Diagonal(i))
Received == [v \in Variable |-> [i \in DOMAIN Buffer |-> [from \in -1..1 |->
  [d \in Dims |-> RecvSpan(v, i, from, d)]]]]

\* iprol: the coarse cells or faces that are prolongated
\* (Faulty variant: the faces on the boundary of the block too, which are its own.)
ProlongSpanShared(v, i, d) ==
  Span(v, d, RecvCells(i, -1, Ghost \div 2, d), -Buffer[i].o[d], TRUE)
ProlongSpan(v, i, d) ==
  Span(v, d, RecvCells(i, -1, Ghost \div 2, d), -Buffer[i].o[d], FALSE)

\* a block's own cells or faces, on the fine and the coarse lattice
Own(v, size) == Box([d \in Dims |-> <<0, IF v = d THEN size ELSE size - 1>>])
Active == [v \in Variable |-> Own(v, Cells)]
Restrict == [v \in Variable |-> Own(v, CoarseCells)]

\* what RecvAndUnpackCC and RecvAndUnpackFC write, of the fine lattice if from >= 0;
\* the latter leaves a block's own faces alone
Filled == [v \in Variable |-> [i \in DOMAIN Buffer |-> [from \in -1..1 |->
  LET box == Box(Received[v][i][from])
  IN  IF v = 0 \/ from < 0 THEN box ELSE box \ Active[v]]]]

-----------------------------------------------------------------------------
(* FillCoarseInBndryCC, FillCoarseInBndryFC, RestrictCC, RestrictFC *)

\* the cells or faces of the next finer level at those of variable v in a range
Finer(v, range) ==
  {p \in Box([d \in Dims |-> <<2 * range[d][1], 2 * range[d][2] + 1>>]) :
     v # 0 => p[v] % 2 = 0}

\* the coarse ghost zones made from fine ones that came from the same level
Halved(range) == [d \in Dims |-> <<range[d][1] \div 2, range[d][2] \div 2>>]
CoarseRange == [v \in Variable |-> [i \in DOMAIN Buffer |-> Halved(Received[v][i][0])]]
FillCoarseInBndry ==
  [v \in Variable |-> [i \in DOMAIN Buffer |->
     IF Len(NRoot) = 1 THEN {} ELSE Box(CoarseRange[v][i])]]
FillsFrom == [v \in Variable |-> [i \in DOMAIN Buffer |->
  IF Len(NRoot) = 1 THEN {} ELSE Finer(v, CoarseRange[v][i])]]

-----------------------------------------------------------------------------
(* ProlongateCC, ProlongateFC *)

Prolongated ==
  [v \in Variable |-> [i \in DOMAIN Buffer |-> [d \in Dims |-> ProlongSpan(v, i, d)]]]

\* what the slopes in ProlongCC and ProlongFCShared* read of the coarse lattice
Stencil == [v \in Variable |-> [i \in DOMAIN Buffer |->
  LET range == Prolongated[v][i]
      beside(d) == [range EXCEPT ![d] = <<@[1] - 1, @[2] + 1>>]
  IN  Box(range) \cup UNION {Box(beside(d)) : d \in Dims \ {v}}]]

\* CanProlongateFCFace: a block's own face is left alone, unless it is on the face of
\* the block that buffer i is for
CanProlongate(v, i, p) ==
  \/ p \notin Active[v]
  \/ v # 0 /\ ~Diagonal(i)
     /\ CASE Buffer[i].o[v] < 0 -> p[v] = 0
          [] Buffer[i].o[v] = 0 -> FALSE
          [] Buffer[i].o[v] > 0 -> p[v] = Cells

\* the fine cells or faces written at those of a coarse cell; ProlongFCInternal
\* writes the faces between, from those around the cell
Shared == [v \in Variable |-> [i \in DOMAIN Buffer |->
  {p \in Finer(v, Prolongated[v][i]) : v = 0 \/ CanProlongate(v, i, p)}]]
Internal == [v \in Variable |-> [i \in DOMAIN Buffer |->
  IF v = 0 THEN {}
  ELSE {p \in Finer(0, Prolongated[0][i]) : p[v] % 2 = 1 /\ CanProlongate(v, i, p)}]]
Around == [v \in Variable |-> [i \in DOMAIN Buffer |->
  IF v = 0 THEN {}
  ELSE LET faces == [Prolongated[0][i] EXCEPT ![v] = <<@[1], @[2] + 1>>]
       IN  Finer(v, faces)]]

\* ConsToPrimCoarseBndry averages the fields at the faces of the cells the slopes read
CellFaces == [v \in Variable |-> [i \in DOMAIN Buffer |->
  IF v = 0 THEN {}
  ELSE {p \in Lattice : p \in Stencil[0][i] \/ [p EXCEPT ![v] = @ - 1] \in Stencil[0][i]}]]

\* HydroBCsCoarse, BFieldBCsCoarse: values beyond the mesh are made from those at its
\* boundary
Inside(n, v, q) ==
  LET first(d) == -n.lx[d] * CoarseCells
      last(d) == first(d) + CoarseCells * Extent(n.level, d) - (IF v = d THEN 0 ELSE 1)
  IN  [d \in Dims |-> CASE Periodic[d] -> q[d]
                        [] q[d] < first(d) -> first(d)
                        [] q[d] > last(d) -> last(d)
                        [] OTHER -> q[d]]

-----------------------------------------------------------------------------
(* Properties *)

\* What is packed is unpacked where it belongs, in whole: the two ranges have the same
\* size and the same place in the mesh, and the sender owns what it sends.
ComeFromTheirPlace(n, e, v) ==
  LET from == e.to.level - n.level
      size == IF from < 0 THEN CoarseCells ELSE Cells
      theirs == IF from > 0 THEN CoarseCells ELSE Cells
      mesh(d) == Cells * Extent(IF from < 0 THEN e.to.level ELSE n.level, d)
      recv(d) == Received[v][e.at][from][d]
      sent(d) == SendSpan(v, e.dest, -from, d)
      off(d) == (n.lx[d] * size + recv(d)[1]) - (e.to.lx[d] * theirs + sent(d)[1])
  IN  \A d \in Dims :
        /\ recv(d)[2] - recv(d)[1] = sent(d)[2] - sent(d)[1]
        /\ IF Periodic[d] THEN off(d) % mesh(d) = 0 ELSE off(d) = 0
        /\ sent(d)[1] >= 0 /\ sent(d)[2] < theirs + (IF v = d THEN 1 ELSE 0)

\* the ghost zones of n that lie in the mesh
GhostsInMesh(n, v) ==
  LET more(d) == IF v = d THEN 1 ELSE 0
      first(d) == IF Periodic[d] \/ n.lx[d] > 0 THEN -Ghost ELSE 0
      last(d) == IF Periodic[d] \/ n.lx[d] < Extent(n.level, d) - 1
                 THEN Cells + Ghost - 1 + more(d) ELSE Cells - 1 + more(d)
  IN  Box([d \in Dims |-> <<first(d), last(d)>>]) \ Active[v]

\* The ghost zones of a block, variable by variable:
GhostZonesOf(n) ==
  LET entries == SetNeighbors(tree, n)
      from(e) == e.to.level - n.level
      near == {e \in entries : from(e) >= 0}
      coarser == {e.at : e \in entries \ near}
      same == {e.at : e \in {x \in entries : from(x) = 0}}
  IN  \A v \in Variable :
        LET all(table, bufs) == UNION {table[v][i] : i \in bufs}
            direct == UNION {Filled[v][e.at][from(e)] : e \in near}
            shared == all(Shared, coarser)
            written == direct \cup shared \cup all(Internal, coarser)
            read == all(Stencil, coarser) \cup all(CellFaces, coarser)
            coarse == UNION {Filled[v][i][-1] : i \in coarser}
                      \cup all(FillCoarseInBndry, same) \cup Restrict[v]
            fine == Active[v] \cup direct
        IN  /\ \A e \in entries : ComeFromTheirPlace(n, e, v)
            \* none is left out, and the block's own are not overwritten
            /\ GhostsInMesh(n, v) \subseteq written
            /\ written \cap Active[v] = {}
            \* a cell is filled from one level only
            /\ v = 0 => direct \cap shared = {}
            \* nothing is made from what has not been filled
            /\ {Inside(n, v, q) : q \in read} \subseteq coarse
            /\ all(Around, coarser) \subseteq fine \cup shared
            /\ all(FillsFrom, same) \subseteq fine

\* On every mesh the ghost zones of all blocks are filled with what belongs there.
GhostZonesAreFilled == Settled => \A n \in Leaves(tree) : GhostZonesOf(n)
================================================================================
