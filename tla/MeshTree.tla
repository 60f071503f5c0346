-------------------------------- MODULE MeshTree --------------------------------
(***************************************************************************)
(* The tree of MeshBlocks (mesh/meshblock_tree.cpp) and the table of       *)
(* neighbours made from it (MeshBlock::SetNeighbors in mesh/meshblock.cpp, *)
(* NeighborIndex in mesh/nghbr_index.hpp), in one, two or three dimensions.*)
(*                                                                         *)
(* A node is its LogicalLocation.  A tree is a record:                     *)
(*   gid    the gid_ of every node that exists                             *)
(*   nnew, ndel   MeshBlocks made and destroyed since the last renumbering *)
(*   fatal  "Neighbor search failed" has ended the program                 *)
(***************************************************************************)
EXTENDS Integers, Sequences, FiniteSets

LOCAL INSTANCE SequencesExt
LOCAL INSTANCE FiniteSetsExt

CONSTANTS NRoot,     \* nmb_rootx1, nmb_rootx2, nmb_rootx3: as many as dimensions
          RootLevel, \* logical level of the root grid
          MaxLevel,  \* max_level
          Periodic   \* by dimension (shear_periodic in x1 is treated alike)

Dims == 1..Len(NRoot)
nleaf == 2^Len(NRoot)

ASSUME MeshAssumption ==
  /\ Len(NRoot) \in 1..3 /\ NRoot \in [Dims -> Nat \ {0}]
  /\ RootLevel \in Nat /\ MaxLevel \in Nat /\ RootLevel <= MaxLevel
  /\ \A d \in Dims : NRoot[d] <= 2^RootLevel
  /\ Periodic \in [Dims -> BOOLEAN]

Loc(level, lx) == [level |-> level, lx |-> lx]
Root == Loc(0, [d \in Dims |-> 0])
Outside == Loc(-1, <<>>)   \* nullptr
Broken == Loc(-2, <<>>)    \* the search ended in a FATAL ERROR

Offset == [Dims -> {-1, 0, 1}]
Bits == [Dims -> {0, 1}]

Child(n, b) == Loc(n.level + 1, [d \in Dims |-> 2 * n.lx[d] + b[d]])
Children(n) == {Child(n, b) : b \in Bits}
Parent(n) == Loc(n.level - 1, [d \in Dims |-> n.lx[d] \div 2])
Ancestor(n, level) == Loc(level, [d \in Dims |-> n.lx[d] \div 2^(n.level - level)])
\* the leaves of a node in the order of pleaf_[]: x1 runs fastest
ChildSeq(n) == [k \in 1..nleaf |->
                  Child(n, [d \in Dims |-> ((k - 1) \div 2^(d - 1)) % 2])]

Nodes(t) == DOMAIN t.gid
HasLeaves(t, n) == Children(n) \cap Nodes(t) # {}
Leaves(t) == {n \in Nodes(t) : ~HasLeaves(t, n)}

\* nodes at a level across the mesh; below the root level the tree covers more
Extent(level, d) == NRoot[d] * 2^(level - RootLevel)

\* the node next to n, through periodic boundaries
Neighbour(n, o) ==
  LET x(d) == n.lx[d] + o[d]
      out(d) == x(d) \notin 0..(Extent(n.level, d) - 1)
  IN  IF \E d \in Dims : out(d) /\ ~Periodic[d]
      THEN Outside
      ELSE Loc(n.level, [d \in Dims |-> x(d) % Extent(n.level, d)])

\* CreateRootGrid: every node down to the root level that lies in the mesh
RootGrid ==
  LET Level(l) == {n \in [level : {l}, lx : [Dims -> 0..(2^l - 1)]] :
                     \A d \in Dims : n.lx[d] * 2^(RootLevel - l) < NRoot[d]}
  IN  [gid |-> [n \in UNION {Level(l) : l \in 0..RootLevel} |-> -1],
       nnew |-> 0, ndel |-> 0, fatal |-> FALSE]

\* (Faulty variants of the neighbours that have to be refined: faces only; none
\* through periodic boundaries.)
NeedsFacesOnly(n) ==
  {Neighbour(n, o) : o \in {p \in Offset : Cardinality({d \in Dims : p[d] # 0}) = 1}} \ {Outside}
NeedsInsideOnly(n) ==
  {m \in {Neighbour(n, o) : o \in Offset} :
     m # Outside /\ \A d \in Dims : m.lx[d] - n.lx[d] \in {-1, 0, 1}} \ {n}
\* the nodes of its own level that must exist around a node that is refined
Needs(n) == {Neighbour(n, o) : o \in {p \in Offset : \E d \in Dims : p[d] # 0}} \ {Outside}

RECURSIVE Refine(_, _), AddNode(_, _, _)
Refine(t, n) ==
  IF HasLeaves(t, n)
  THEN t
  ELSE LET split  == [t EXCEPT !.gid = [m \in Nodes(t) \cup Children(n) |->
                                          IF m \in Nodes(t) THEN t.gid[m] ELSE t.gid[n]]]
           around == FoldSet(LAMBDA m, u : AddNode(u, Root, m), split, Needs(n))
       IN  [around EXCEPT !.gid[n] = -1, !.nnew = @ + nleaf - 1]
AddNode(t, at, rloc) ==
  IF at.level = rloc.level
  THEN t
  ELSE AddNode(Refine(t, at), Ancestor(rloc, at.level + 1), rloc)

\* AddNodeWithoutRefinement: the nodes on the way down to rloc, and no other
\* (Faulty variant: the way ends one level early.)
AddNodeShort(t, rloc) ==
  LET way == {Ancestor(rloc, l) : l \in 0..(rloc.level - 1)}
  IN  [t EXCEPT !.gid = [m \in Nodes(t) \cup way |-> IF m \in Nodes(t) THEN t.gid[m] ELSE -1]]
AddNodeWithoutRefinement(t, rloc) ==
  LET way == {Ancestor(rloc, l) : l \in 0..rloc.level}
  IN  [t EXCEPT !.gid = [m \in Nodes(t) \cup way |-> IF m \in Nodes(t) THEN t.gid[m] ELSE -1]]

\* A <refined_region>: [level, min, max], corners in blocks of the finest level.
\* Nodes are added at its level that cover it, a family of leaves at a time.
RegionNodes(region) ==
  LET width == 2^(MaxLevel - region.level)
      min(d) == region.min[d] \div width
      max(d) == LET last == ((region.max[d] + width - 1) \div width) - 1
                IN  IF last < min(d) THEN min(d) ELSE last
      even(i) == i - (i % 2)
      odd(i) == even(i) + 1
  IN  {Loc(region.level, lx) :
         lx \in {x \in [Dims -> 0..(2^region.level)] :
                   \A d \in Dims : x[d] % 2 = 0 /\ x[d] \in even(min(d))..(odd(max(d)) - 1)}}
AddRegion(t, region) == FoldSet(LAMBDA n, u : AddNode(u, Root, n), t, RegionNodes(region))

\* The node of n's level next to n, or the leaf one level coarser that covers
\* it.  A leaf coarser than that, or a finer one than amrflag allows, is fatal.
FindNeighbor(t, n, o, amrflag) ==
  LET nb == Neighbour(n, o)
  IN  IF nb = Outside THEN Outside
      ELSE IF n.level < 1 THEN Root
      ELSE LET at == Ancestor(nb, Max({l \in 0..n.level : Ancestor(nb, l) \in Nodes(t)}))
           IN  IF \/ at.level < n.level - 1
                  \/ /\ ~amrflag /\ at.level = n.level /\ HasLeaves(t, at)
                     /\ HasLeaves(t, Child(at, [d \in Dims |-> IF o[d] < 0 THEN 1 ELSE 0]))
               THEN Broken
               ELSE at

\* the leaves of a neighbour in direction o that are next to the node asking
NearLeaves(n, o) ==
  {Child(n, b) : b \in {c \in Bits : \A d \in Dims : o[d] # 0 => c[d] = (IF o[d] < 0 THEN 1 ELSE 0)}}

\* give up if a finer block is next to n; otherwise n takes its first leaf's gid
Derefine(t, n) ==
  LET found(o) == FindNeighbor(t, n, o, TRUE)
      finer(o) == /\ found(o) # Outside
                  /\ HasLeaves(t, found(o))
                  /\ \E m \in NearLeaves(found(o), o) : HasLeaves(t, m)
  IN  IF \E o \in Offset : found(o) = Broken THEN [t EXCEPT !.fatal = TRUE]
      ELSE IF \E o \in Offset : finer(o) THEN t
      ELSE [t EXCEPT !.gid = [m \in Nodes(t) \ Children(n) |->
                                IF m = n THEN t.gid[ChildSeq(n)[1]] ELSE t.gid[m]],
                     !.ndel = @ + nleaf - 1]

RECURSIVE ZOrder(_, _)
ZOrder(t, n) ==
  IF ~HasLeaves(t, n)
  THEN <<n>>
  ELSE FlattenSeq([k \in 1..nleaf |->
         IF ChildSeq(n)[k] \in Nodes(t) THEN ZOrder(t, ChildSeq(n)[k]) ELSE <<>>])

\* CreateZOrderedLLList: the list, from 0, and the tree with gids to match
ZOrderedLLList(t) ==
  LET z == ZOrder(t, Root)
  IN  [k \in 0..(Len(z) - 1) |-> z[k + 1]]
Renumber(t) ==
  LET z == ZOrder(t, Root)
  IN  [t EXCEPT !.gid = [n \in Nodes(t) |->
                           IF HasLeaves(t, n) THEN -1
                           ELSE (CHOOSE k \in 1..Len(z) : z[k] = n) - 1],
                !.nnew = 0, !.ndel = 0]

-----------------------------------------------------------------------------
\* NeighborIndex: the buffer for offset (ix,iy,iz) and subblock (n1,n2)
\* (Faulty variant: an edge has room for one subblock.)
NeighborIndexEdge(o, n1, n2) ==
  LET off(d) == IF d \in Dims THEN o[d] ELSE 0
      ix == off(1)  iy == off(2)  iz == off(3)
      one(i) == IF i = 0 THEN 0 ELSE 1
  IN  IF iz = 0
      THEN IF ix * iy = 0
           THEN one(ix) * 2 * (ix + 1) + one(iy) * 2 * (iy + 5) + n1 + 2 * n2
           ELSE 16 + (ix + 1) \div 2 + (iy + 1) + n1
      ELSE IF ix * iy = 0
           THEN 24 + one(ix) * (ix + 9) + one(iy) * (iy + 17) + 2 * (iz + 1) + n1 + 2 * n2
           ELSE 48 + (ix + 1) \div 2 + (iy + 1) + 2 * (iz + 1)
NeighborIndex(o, n1, n2) ==
  LET off(d) == IF d \in Dims THEN o[d] ELSE 0
      ix == off(1)  iy == off(2)  iz == off(3)
      one(i) == IF i = 0 THEN 0 ELSE 1
  IN  IF iz = 0
      THEN IF ix * iy = 0
           THEN one(ix) * 2 * (ix + 1) + one(iy) * 2 * (iy + 5) + n1 + 2 * n2
           ELSE 16 + (ix + 1) + 2 * (iy + 1) + n1
      ELSE IF ix * iy = 0
           THEN 24 + one(ix) * (ix + 9) + one(iy) * (iy + 17) + 2 * (iz + 1) + n1 + 2 * n2
           ELSE 48 + (ix + 1) \div 2 + (iy + 1) + 2 * (iz + 1)

\* the two subblock arguments: the position, in the directions along the face
\* or edge, of the finer one of the two blocks
SubBlock(o, fine) ==
  LET along == SelectSeq(<<1, 2, 3>>, LAMBDA d : d \notin Dims \/ o[d] = 0)
      bit(k) == IF k <= Len(along) /\ along[k] \in Dims THEN fine.lx[along[k]] % 2 ELSE 0
  IN  <<bit(1), bit(2)>>

\* SetNeighbors: the entries block n gets for offset o.  A coarser block at an
\* edge or corner counts only where its own edge or corner is.
Entries(t, n, o) ==
  LET nt == FindNeighbor(t, n, o, FALSE)
      back == [d \in Dims |-> -o[d]]
      entry(m, s) == [to |-> m, at |-> NeighborIndex(o, s[1], s[2]),
                      dest |-> NeighborIndex(back, s[1], s[2])]
      across == {d \in Dims : o[d] # 0}
      exterior == \A d \in across : (n.lx[d] % 2) * 2 - 1 = o[d]
  IN  IF nt = Outside THEN {}
      ELSE IF HasLeaves(t, nt) THEN {entry(m, SubBlock(o, m)) : m \in NearLeaves(nt, o)}
      ELSE IF nt.level = n.level THEN {entry(nt, <<0, 0>>)}
      ELSE IF Cardinality(across) = 1 \/ exterior THEN {entry(nt, SubBlock(o, n))}
      ELSE {}

SearchFails(t) == \E n \in Leaves(t), o \in Offset :
                    (\E d \in Dims : o[d] # 0) /\ FindNeighbor(t, n, o, FALSE) = Broken

SetNeighbors(t, n) ==
  UNION {Entries(t, n, o) : o \in {p \in Offset : \E d \in Dims : p[d] # 0}}

-----------------------------------------------------------------------------
\* Two blocks touch: they have a face, an edge or a corner in common, maybe
\* through a periodic boundary (lengths in cells of the finest level)
Touch(n, m) ==
  LET lo(b, d) == b.lx[d] * 2^(MaxLevel - b.level)
      hi(b, d) == (b.lx[d] + 1) * 2^(MaxLevel - b.level)
      shifts(d) == IF Periodic[d] THEN {-1, 0, 1} ELSE {0}
  IN  \A d \in Dims : \E s \in shifts(d) :
        LET by == s * Extent(MaxLevel, d)
        IN  lo(n, d) + by <= hi(m, d) /\ lo(m, d) <= hi(n, d) + by

=============================================================================
