----------------------------- MODULE FluxCorrection -----------------------------
(***************************************************************************)
(* Flux correction on the meshes of AMR: the fluxes of cell-centred        *)
(* variables at the faces of MeshBlocks (bvals/flux_correct_cc.cpp) and    *)
(* the edge-centred fields, EMFs, from which the magnetic field is updated *)
(* (bvals/flux_correct_fc.cpp), with the index ranges of buffs_cc.cpp and  *)
(* buffs_fc.cpp.                                                           *)
(*                                                                         *)
(* A value is what it was made from.  Positions are counted from the first *)
(* cell of a block; a value that was sent or summed is a set of terms      *)
(*   via   the buffer it came through, 0 being the block's own             *)
(*   of    the block that computed it                                      *)
(*   raw   the positions in that block of which it is the mean             *)
(* Buffers have arrived; sheared boundaries are left out.                  *)
(***************************************************************************)
EXTENDS BoundaryBuffers

Position == [Dims -> 0..Cells]
Component == 1..3                    \* x1e, x2e, x3e
Face == {o \in Offset : Cardinality({d \in Dims : o[d] # 0}) = 1}
BlockEdge == {o \in Offset : Cardinality({d \in Dims : o[d] # 0}) = 2}

-----------------------------------------------------------------------------
(* InitSendIndices, InitRecvIndices *)

\* the first position along d, of a sender on its own or on the coarse lattice, and
\* of a receiver whose sender is finer: its half of the face or edge
First(i, d, cells) == IF Buffer[i].o[d] > 0 THEN cells ELSE 0
FirstOfHalf(i, d) ==
  IF Buffer[i].o[d] = 0 THEN CoarseCells * Half(i, d) ELSE First(i, d, Cells)

\* positions of an EMF along component c, from first, over a length of cells
Positions(i, c, first, cells) ==
  LET o == Buffer[i].o
      last(d) == IF o[d] # 0 THEN first[d] ELSE first[d] + (IF d = c THEN cells - 1 ELSE cells)
  IN  IF c \in Dims /\ o[c] # 0
      THEN {}
      ELSE {p \in Position : \A d \in Dims : p[d] \in first[d]..last(d)}

\* iflux_same and iflux_coar of receive buffers
SameRange ==
  [i \in DOMAIN Buffer |-> [c \in Component |->
     Positions(i, c, [d \in Dims |-> First(i, d, Cells)], Cells)]]
FinerRange ==
  [i \in DOMAIN Buffer |-> [c \in Component |->
     Positions(i, c, [d \in Dims |-> FirstOfHalf(i, d)], CoarseCells)]]

\* the sender's position, in its buffer e.dest, of what arrives at p in buffer e.at
PackedSame(e, p) ==
  [d \in Dims |-> First(e.dest, d, Cells) + p[d] - First(e.at, d, Cells)]
PackedFiner(e, p) ==
  [d \in Dims |-> First(e.dest, d, CoarseCells) + p[d] - FirstOfHalf(e.at, d)]

\* what a block receives: only faces and edges, from the same and from a finer level
FromSame(n) == {e \in SetNeighbors(tree, n) : e.at < 48 /\ e.to.level = n.level}
FromFiner(n) == {e \in SetNeighbors(tree, n) : e.at < 48 /\ e.to.level > n.level}

-----------------------------------------------------------------------------
(* Edge fields: PackAndSendFluxFC, RecvAndUnpackFluxFC *)

\* SumBoundaryFluxes: what buffers add to the EMF at p along c
SumSameLevel(same, c, p) ==
  {[via |-> 1 + e.at, of |-> e.to, raw |-> {PackedSame(e, p)}] :
     e \in {x \in same : p \in SameRange[x.at][c]}}
SumFiner(finer, c, p) ==
  {[via |-> 1 + e.at, of |-> e.to, raw |-> Restricted(PackedFiner(e, p), {c})] :
     e \in {x \in finer : p \in FinerRange[x.at][c]}}

ZeroFluxesAtBoundaryWithFiner(finer, c, p) == \E e \in finer : p \in FinerRange[e.at][c]

\* the sum of a block n: its own EMF, what its level adds, and where that is zeroed, what
\* finer levels add
RecvAndUnpackFluxFC(n, same, finer, c, p) ==
  IF ZeroFluxesAtBoundaryWithFiner(finer, c, p)
  THEN SumFiner(finer, c, p)
  ELSE {[via |-> 0, of |-> n, raw |-> {p}]} \cup SumSameLevel(same, c, p)

\* nflx at the edge o of a block, counted by the first buffers of its two faces and its own
\* (Faulty variant: the count is not started anew when the fluxes are.)
CountNotReset(o, same, finer) ==
  LET faces == {f \in Face : \A d \in Dims : f[d] \in {0, o[d]}}
      first == {NeighborIndex(f, 0, 0) : f \in faces \cup {o}}
  IN  1 + Cardinality({e \in same : e.at \in first}) + Cardinality({e \in finer : e.at \in first})
Count(o, same, finer) ==
  LET faces == {f \in Face : \A d \in Dims : f[d] \in {0, o[d]}}
      first == {NeighborIndex(f, 0, 0) : f \in faces \cup {o}}
      level == {e \in same : e.at \in first}
      fine == {e \in finer : e.at \in first}
  IN  IF fine # {} THEN Cardinality(fine) ELSE 1 + Cardinality(level)

\* AverageBoundaryFluxes: what the sum is divided by
AverageBoundaryFluxes(same, finer, c, p) ==
  LET o == [d \in Dims |-> IF d = c THEN 0
                           ELSE CASE p[d] = 0 -> -1 [] p[d] = Cells -> 1 [] OTHER -> 0]
      first == NeighborIndex(o, 0, 0)
      mid == \E d \in Dims \ {c} : o[d] = 0 /\ p[d] = (Cells + 1) \div 2
  IN  IF o \in BlockEdge THEN Count(o, same, finer)
      ELSE IF \E e \in same : e.at = first THEN 2
      ELSE IF mid /\ \E e \in finer : e.at = first THEN 2
      ELSE 1

-----------------------------------------------------------------------------
(* Fluxes of cell-centred variables: PackAndSendFluxCC, RecvAndUnpackFluxCC *)

\* positions of a buffer at a face, iflux_coar of buffs_cc.cpp
FaceRange ==
  LET last(i, d) == FirstOfHalf(i, d) + (IF Buffer[i].o[d] = 0 THEN CoarseCells - 1 ELSE 0)
  IN  [i \in {j \in DOMAIN Buffer : Buffer[j].o \in Face} |->
         {p \in Position : \A d \in Dims : p[d] \in FirstOfHalf(i, d)..last(i, d)}]

\* what replaces the flux at p of the face o of block n, if anything
RecvAndUnpackFluxCC(finer, o, p) ==
  LET here(e) == e.at \in DOMAIN FaceRange /\ Buffer[e.at].o = o /\ p \in FaceRange[e.at]
      along == {d \in Dims : o[d] = 0}
  IN  {[of |-> e.to, raw |-> Restricted(PackedFiner(e, p), along)] : e \in {x \in finer : here(x)}}

-----------------------------------------------------------------------------
(* Properties *)

\* The blocks of a level at position g of the mesh, each with its own position there:
\* those that own one of the cells behind g by one of the steps
Sharing(leaves, level, g, steps) ==
  LET size(d) == Cells * Extent(level, d)
      inside(s) == \A d \in Dims : Periodic[d] \/ g[d] - s[d] \in 0..(size(d) - 1)
      cell(s, d) == (g[d] - s[d]) % size(d)
      all == {[of |-> Loc(level, [d \in Dims |-> cell(s, d) \div Cells]),
               at |-> [d \in Dims |-> (cell(s, d) % Cells) + s[d]]] :
                s \in {x \in steps : inside(x)}}
  IN  {x \in all : x.of \in leaves}

InMesh(n, p) == [d \in Dims |-> n.lx[d] * Cells + p[d]]
Doubled(g) == [d \in Dims |-> 2 * g[d]]
Without(along) == {b \in Bits : \A d \in Dims \cap along : b[d] = 0}

\* the edges of cells along c, and the faces of cells, on the boundary of a block
BoundaryEdges ==
  [c \in Component |->
     {p \in Position : /\ \E d \in Dims \ {c} : p[d] \in {0, Cells}
                       /\ c \in Dims => p[c] < Cells}]
BoundaryFaces ==
  [o \in Face |-> {p \in Position : \A d \in Dims :
     p[d] \in (CASE o[d] = 0 -> 0..(Cells - 1) [] o[d] < 0 -> {0} [] OTHER -> {Cells})}]

\* The EMF at an edge of cells on the boundary of a block is in the end the mean over all
\* the blocks that have this edge and are the finest that do, each taken once, with its
\* own EMF or the mean of its two along the edge.  So all blocks agree on it, and the
\* magnetic field updated from it stays free of divergence.
EdgeFieldsAgree ==
  LET leaves == Leaves(tree)
  IN  \A n \in leaves :
        LET same == FromSame(n)
            finer == FromFiner(n)
        IN  \A c \in Component : \A p \in BoundaryEdges[c] :
              LET sum == RecvAndUnpackFluxFC(n, same, finer, c, p)
                  fine == Sharing(leaves, n.level + 1, Doubled(InMesh(n, p)), Without({c}))
                  level == Sharing(leaves, n.level, InMesh(n, p), Without({c}))
                  half(x) == Restricted([d \in Dims |-> x.at[d] \div 2], {c})
                  all == IF fine # {} THEN {[of |-> x.of, raw |-> half(x)] : x \in fine}
                         ELSE {[of |-> x.of, raw |-> {x.at}] : x \in level}
              IN  /\ {[of |-> x.of, raw |-> x.raw] : x \in sum} = all
                  /\ Cardinality(sum) = Cardinality(all)
                  /\ AverageBoundaryFluxes(same, finer, c, p) = Cardinality(all)

\* The flux through a face of a block is replaced where there are finer blocks behind it,
\* once, by the mean of the fluxes these computed through the same area, and nowhere else:
\* what leaves one block enters the other.
FaceFluxesAgree ==
  LET leaves == Leaves(tree)
  IN  \A n \in leaves :
        LET finer == FromFiner(n)
        IN  \A o \in Face : \A p \in BoundaryFaces[o] :
              LET side == {[d \in Dims |-> IF o[d] < 0 THEN 1 ELSE 0]}
                  fine == Sharing(leaves, n.level + 1, Doubled(InMesh(n, p)), side)
                  along == {d \in Dims : o[d] = 0}
                  quarter(x) == Restricted([d \in Dims |-> x.at[d] \div 2], along)
              IN  RecvAndUnpackFluxCC(finer, o, p) =
                    {[of |-> x.of, raw |-> quarter(x)] : x \in fine}

\* Both, on every mesh a cycle is computed on.
FluxesAgree == Settled => EdgeFieldsAgree /\ FaceFluxesAgree
================================================================================
