--------------------------------- MODULE MCAMR ---------------------------------
(***************************************************************************)
(* Instances of AMR for TLC: meshes in one and in three dimensions.        *)
(***************************************************************************)
EXTENDS AMR

CONSTANT Points   \* bound: where the flow may want resolution, in finest blocks

OneD == <<2>>
ThreeD == <<2, 2, 1>>
Open1 == <<FALSE>>
Wrap3 == <<TRUE, FALSE, TRUE>>

\* no region, and two that overlap: one between blocks and one across a boundary
NoRegions == <<>>
Regions3 == << [level |-> 2, min |-> <<1, 1, 1>>, max |-> <<3, 2, 2>>],
               [level |-> 3, min |-> <<2, 1, 0>>, max |-> <<5, 1, 1>>] >>

Points1 == {<<0>>, <<3>>, <<4>>}
Points3 == {<<0, 1, 2>>, <<3, 3, 1>>, <<7, 0, 0>>}

\* every combination of flags
AnyFlags(ll) == [DOMAIN ll -> {-1, 0, 1}]

\* resolution is wanted around some of the points, and elsewhere blocks are
\* left alone or given up
PointFlags(ll) ==
  {[k \in DOMAIN ll |-> IF \E p \in some : Ancestor(Loc(MaxLevel, p), ll[k].level) = ll[k]
                        THEN 1 ELSE rest] : some \in SUBSET Points, rest \in {-1, 0}}
\* in one dimension, every region is refined to its level wherever it reaches, and
\* the mesh is balanced
ASSUME RegionsAreRefined ==
  Len(NRoot) = 1 =>
    LET size == Extent(MaxLevel, 1)
    IN  \A level \in (RootLevel + 1)..MaxLevel, min \in 0..(size - 1) : \A max \in min..size :
          LET t == AddRegion(RootGrid, [level |-> level, min |-> <<min>>, max |-> <<max>>])
              lo(n) == n.lx[1] * 2^(MaxLevel - n.level)
              hi(n) == (n.lx[1] + 1) * 2^(MaxLevel - n.level)
          IN  /\ \A n \in Leaves(t) :
                   lo(n) \in min..(max - 1) \/ min \in lo(n)..(hi(n) - 1) => n.level >= level
              /\ \A n, m \in Leaves(t) : hi(n) = lo(m) => n.level - m.level \in {-1, 0, 1}
================================================================================
