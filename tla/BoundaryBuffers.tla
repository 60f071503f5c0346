---------------------------- MODULE BoundaryBuffers ----------------------------
(***************************************************************************)
(* The boundary buffers of a MeshBlock (bvals/bvals.cpp), on the meshes of *)
(* AMR: what the index of a buffer stands for.  Positions are counted from *)
(* the first cell of a block, so that is, js and ks are zero.              *)
(***************************************************************************)
EXTENDS AMR

CONSTANT Cells  \* nx1, nx2 and nx3 of a MeshBlock

ASSUME CellsAssumption == Cells \in Nat \ {0} /\ Cells % 2 = 0

CoarseCells == Cells \div 2          \* cnx1

\* InitializeBuffers: the offset of a buffer and its subblock, f1 and f2
Buffer ==
  LET along(o) == Cardinality({d \in Dims : o[d] = 0})
      all == {b \in [o : Offset, f : [1..2 -> {0, 1}]] :
                /\ along(b.o) < Cardinality(Dims)
                /\ \A k \in 1..2 : k > along(b.o) => b.f[k] = 0}
      index(b) == NeighborIndex(b.o, b.f[1], b.f[2])
  IN  [i \in {index(b) : b \in all} |-> CHOOSE b \in all : index(b) = i]

\* f1 or f2 of buffer i, whichever is for a direction d along it
Half(i, d) ==
  LET o == Buffer[i].o
  IN  Buffer[i].f[Cardinality({e \in 1..d : o[e] = 0})]

\* the positions of the next finer level within q, two along each of some directions
Restricted(q, along) ==
  {[d \in Dims |-> 2 * q[d] + b[d]] : b \in {c \in Bits : \A d \in Dims \ along : c[d] = 0}}
================================================================================
