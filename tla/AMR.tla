---------------------------------- MODULE AMR ----------------------------------
(***************************************************************************)
(* Adaptive mesh refinement (mesh/mesh_refinement.cpp), as called by the   *)
(* driver at the end of every cycle: flag blocks, change the tree, then    *)
(* renumber the blocks and carry their tables over to the new numbers.     *)
(* Every rank holds the whole tree and, after the all-gathers, the same    *)
(* lists, so one copy stands for all.                                      *)
(***************************************************************************)
EXTENDS MeshTree

LOCAL INSTANCE SequencesExt
LOCAL INSTANCE FiniteSetsExt
LOCAL INSTANCE Functions

CONSTANTS RefInterval,  \* refinement_interval
          CheckEvery,   \* ncyc_check_amr
          NRanks,       \* nranks
          MaxPerRank,   \* nmb_maxperrank: blocks a rank has memory for
          Criteria(_),  \* what the criteria may ask: flags for a list of blocks
          Regions       \* the <refined_region> blocks, in the order of the input file

ASSUME AMRAssumption ==
  /\ RefInterval \in Nat \ {0} /\ CheckEvery \in Nat \ {0}
  /\ NRanks \in Nat \ {0} /\ MaxPerRank \in Nat \ {0}
  /\ \A i \in DOMAIN Regions :
       /\ Regions[i].level \in (RootLevel + 1)..MaxLevel
       /\ \A d \in Dims : /\ Regions[i].min[d] \in 0..(Extent(MaxLevel, d) - 1)
                          /\ Regions[i].max[d] \in Regions[i].min[d]..Extent(MaxLevel, d)

VARIABLES tree,   \* ptree
          lloc,   \* lloc_eachmb, by gid
          flag,   \* refine_flag, by gid; cleared when a check is over, as the
                  \* next check clears it before anything reads it
          age,    \* ncyc_since_ref, by gid, up to RefInterval
          cycle,  \* ncycle modulo ncyc_check_amr
          pc,     \* the next step of AdaptiveMeshRefinement; the program has ended
                  \* if "fatal", or "full" for want of room
          since   \* history: cycles each block of the mesh has existed in this job

vars == <<tree, lloc, flag, age, cycle, pc, since>>

Gids == DOMAIN lloc
Older(n) == IF n < RefInterval THEN n + 1 ELSE n

\* All blocks cost the same, so LoadBalance gives no rank more than the mean, rounded
\* up, and some rank that many; one that has no room for its share ends the program.
RoomFor(blocks) == Cardinality(DOMAIN blocks) <= NRanks * MaxPerRank

\* BuildTreeFromScratch, of an adaptive mesh
Init ==
  /\ tree = Renumber(FoldLeft(AddRegion, RootGrid, Regions))
  /\ lloc = ZOrderedLLList(tree)
  /\ flag = [k \in Gids |-> 0]
  /\ age = [k \in Gids |-> 0]
  /\ cycle = 0
  /\ pc = IF RoomFor(lloc) THEN "run" ELSE "full"
  /\ since = [n \in Range(lloc) |-> 0]

-----------------------------------------------------------------------------
(* CheckForRefinement *)

\* no finer than max_level, no coarser than root_level, nothing too recent
Masked(want, ages) ==
  [k \in Gids |-> IF \/ want[k] > 0 /\ lloc[k].level = MaxLevel
                     \/ want[k] < 0 /\ lloc[k].level = RootLevel
                     \/ ages[k] < RefInterval
                  THEN 0 ELSE want[k]]

CheckForRefinement ==
  /\ pc = "run"
  /\ cycle' = (cycle + 1) % CheckEvery
  /\ age' = [k \in Gids |-> Older(age[k])]
  /\ IF cycle' # 0
     THEN flag' = [k \in Gids |-> 0]
     ELSE \E want \in Criteria(lloc) : flag' = Masked(want, age')
  /\ since' = [n \in DOMAIN since |-> Older(since[n])]
  /\ pc' = "update"
  /\ UNCHANGED <<tree, lloc>>

-----------------------------------------------------------------------------
(* UpdateMeshBlockTree *)

\* llref, llderef: the flagged blocks, in the order of their gids
Flagged(f) ==
  LET gids == SelectSeq([k \in 1..Cardinality(Gids) |-> k - 1], LAMBDA k : flag[k] = f)
  IN  [i \in DOMAIN gids |-> lloc[gids[i]]]

\* cllderef: the parents all of whose leaves stand in llderef, one after another
\* (Faulty variants: it is not asked whose leaves they are; the last group is
\* never seen.)
ParentsOfAny(ll) ==
  LET whole(i) == /\ \A d \in Dims : ll[i].lx[d] % 2 = 0
                  /\ i + nleaf - 1 <= Len(ll)
      first == SelectSeq([i \in DOMAIN ll |-> i], whole)
  IN  [i \in DOMAIN first |-> Parent(ll[first[i]])]
ParentsOfShort(ll) ==
  LET whole(i) == /\ \A d \in Dims : ll[i].lx[d] % 2 = 0
                  /\ i + nleaf - 1 < Len(ll)
                  /\ \A k \in 1..nleaf : ll[i + k - 1] = ChildSeq(Parent(ll[i]))[k]
      first == SelectSeq([i \in DOMAIN ll |-> i], whole)
  IN  [i \in DOMAIN first |-> Parent(ll[first[i]])]
ParentsOf(ll) ==
  LET whole(i) == /\ \A d \in Dims : ll[i].lx[d] % 2 = 0
                  /\ i + nleaf - 1 <= Len(ll)
                  /\ \A k \in 1..nleaf : ll[i + k - 1] = ChildSeq(Parent(ll[i]))[k]
      first == SelectSeq([i \in DOMAIN ll |-> i], whole)
  IN  [i \in DOMAIN first |-> Parent(ll[first[i]])]

\* finest first, as GreaterLevel says; std::sort chooses the order in a level,
\* on which nothing depends
ByLevel(ll) ==
  FlattenSeq([i \in 1..(MaxLevel + 1) |->
                SelectSeq(ll, LAMBDA n : n.level = MaxLevel + 1 - i)])

\* the end iterator points at the last parent, so that one stays where it is
DerefineList ==
  LET parents == ParentsOf(Flagged(-1))
  IN  IF Len(parents) > 1 THEN Append(ByLevel(Front(parents)), Last(parents)) ELSE parents

\* (Faulty variant: derefining before refining.)
UpdatedTreeCoarseFirst ==
  LET coarsened == FoldLeft(Derefine, tree, DerefineList)
  IN  FoldLeft(LAMBDA t, n : IF n \in Nodes(t) THEN Refine(t, n) ELSE t, coarsened, Flagged(1))
UpdatedTree ==
  LET refined == FoldLeft(Refine, tree, Flagged(1))
  IN  FoldLeft(Derefine, refined, DerefineList)

UpdateMeshBlockTree ==
  /\ pc = "update"
  /\ tree' = IF Flagged(1) = <<>> /\ Len(Flagged(-1)) < nleaf THEN tree ELSE UpdatedTree
  /\ pc' = IF tree'.fatal THEN "fatal"
           ELSE IF tree'.nnew + tree'.ndel > 0 THEN "redist" ELSE "run"
  /\ flag' = IF pc' = "run" THEN [k \in Gids |-> 0] ELSE flag
  /\ UNCHANGED <<lloc, age, cycle, since>>

-----------------------------------------------------------------------------
(* RedistAndRefineMeshBlocks *)

NewLloc == ZOrderedLLList(tree)
NewToOld == LET new == NewLloc IN [k \in DOMAIN new |-> tree.gid[new[k]]]

\* oldtonew is filled from the differences of newtoold; the last number is
\* repeated for what is left
OldToNew(newtoold) ==
  LET last == Cardinality(DOMAIN newtoold) - 1
      step(s, n) == CASE newtoold[n] = newtoold[n - 1] + 1 -> Append(s, n)
                      [] newtoold[n] = newtoold[n - 1] + nleaf ->
                           Append(s \o [j \in 1..(nleaf - 1) |-> n - 1], n)
                      [] OTHER -> s
      found == FoldLeft(step, <<0>>, [n \in 1..last |-> n])
  IN  [k \in 0..(Max({Cardinality(Gids), Len(found)}) - 1) |->
         IF k < Len(found) THEN found[k + 1] ELSE last]

\* refine_flag anew: blocks changed level also where nobody flagged them
NewFlag ==
  LET new == NewLloc
      oldtonew == OldToNew(NewToOld)
      level(k) == new[oldtonew[k]].level
  IN  [k \in Gids |-> IF lloc[k].level > level(k) THEN -nleaf
                      ELSE IF lloc[k].level < level(k) THEN 1 ELSE 0]

\* (Faulty variant: only blocks the criteria flagged start anew.)
NewAgeByCriteria(refined, newtoold) ==
  [m \in DOMAIN newtoold |-> IF flag[newtoold[m]] # 0 THEN 0 ELSE age[newtoold[m]]]
NewAge(refined, newtoold) ==
  [m \in DOMAIN newtoold |-> IF refined[newtoold[m]] # 0 THEN 0 ELSE age[newtoold[m]]]

CountAgrees == Cardinality(DOMAIN NewLloc) = Cardinality(Gids) + tree.nnew - tree.ndel

RedistAndRefineMeshBlocks ==
  /\ pc = "redist"
  /\ pc' = CASE ~CountAgrees -> "fatal"
             [] CountAgrees /\ ~RoomFor(NewLloc) -> "full"
             [] OTHER -> IF SearchFails(tree) THEN "fatal" ELSE "run"
  /\ IF CountAgrees /\ RoomFor(NewLloc)
     THEN /\ lloc' = NewLloc
          /\ age' = NewAge(NewFlag, NewToOld)
          /\ flag' = [k \in DOMAIN NewLloc |-> 0]
          /\ tree' = Renumber(tree)
          /\ since' = [n \in Range(NewLloc) |-> IF n \in DOMAIN since THEN since[n] ELSE 0]
     ELSE UNCHANGED <<tree, lloc, flag, age, since>>
  /\ UNCHANGED cycle

-----------------------------------------------------------------------------
(* BuildTreeFromRestart, from a file written between two cycles, or before the *)
(* refinement at the end of one, which is then left out.  The file has the     *)
(* list of blocks; their ages are not in it.  A job that ran out of room can   *)
(* be resumed from the file it wrote last.                                     *)

Rebuilt == FoldFunction(LAMBDA n, t : AddNodeWithoutRefinement(t, n), RootGrid, lloc)

Restart ==
  /\ pc \in {"run", "full"}
  /\ lloc' = ZOrderedLLList(Rebuilt)
  /\ tree' = Renumber(Rebuilt)
  /\ pc' = CASE DOMAIN lloc' # Gids -> "fatal"
             [] DOMAIN lloc' = Gids /\ ~RoomFor(lloc') -> "full"
             [] OTHER -> IF SearchFails(tree') THEN "fatal" ELSE "run"
  /\ age' = [k \in DOMAIN lloc' |-> 0]
  /\ flag' = [k \in DOMAIN lloc' |-> 0]
  /\ \E n \in {0, 1} : cycle' = (cycle + n - (IF pc = "full" THEN 1 ELSE 0)) % CheckEvery
  /\ since' = [n \in Range(lloc') |-> 0]

Next == CheckForRefinement \/ UpdateMeshBlockTree \/ RedistAndRefineMeshBlocks \/ Restart

\* The driver calls AdaptiveMeshRefinement every cycle and no step of it waits:
\* until the program has ended some step of it is possible, and each moves pc.
Advance == pc \notin {"fatal", "full"} /\ pc' \in {"run", "update", "redist", "fatal", "full"} \ {pc}
Spec == Init /\ [][Next]_vars /\ WF_pc(Advance)

\* Whether the mesh is right depends on the tree alone, and every tree is also
\* reached with all its blocks old, as the criteria may ask for nothing.
Settled == pc = "run" /\ \A n \in DOMAIN since : since[n] = RefInterval

-----------------------------------------------------------------------------
(* Properties *)

\* Whatever is refined, derefined or refused, blocks that touch, at a face, an
\* edge or a corner and through periodic boundaries too, differ by one level at
\* most: Refine and Derefine see to it, and the exchange relies on it.
Balanced ==
  \A n, m \in Leaves(tree) : Touch(n, m) => n.level - m.level \in {-1, 0, 1}

\* The search for neighbours never fails, and the blocks found in the new tree, or in
\* the one built from a restart file, are as many as were counted: AMR ends the
\* program only when a rank would have more blocks than max_nmb_per_rank.
NeverFatal == pc # "fatal"

\* The two maps from which data is moved describe the same change: each old
\* block goes to itself, to its parent, or to the first of its children, and
\* each new block comes from itself, from its parent, or from its first child.
MapsAgree ==
  pc = "redist" =>
    LET new == NewLloc
        newtoold == NewToOld
        oldtonew == OldToNew(newtoold)
    IN  /\ DOMAIN oldtonew = Gids
        /\ \A k \in Gids :
             new[oldtonew[k]] \in {lloc[k], Parent(lloc[k]), ChildSeq(lloc[k])[1]}
        /\ \A m \in DOMAIN new :
             lloc[newtoold[m]] \in {new[m], Parent(new[m]), ChildSeq(new[m])[1]}

\* The age of a block, which travels through both maps, is the number of cycles
\* that block has existed in this job.
AgesFollowBlocks == pc # "fatal" => \A k \in Gids : age[k] = since[lloc[k]]

\* Blocks are merged only when all of them are refinement_interval cycles old.
MergesOnlyOldBlocks ==
  [][pc = "redist" =>
       LET blocks == Range(lloc')
       IN  \A k \in Gids : Parent(lloc[k]) \in blocks => since[lloc[k]] >= RefInterval]_vars

\* A resumed job has the mesh of the one that wrote the restart file, under the same
\* numbers: the file has the data of the blocks by number, and of the tree only the
\* number of blocks is checked.  (The tree of a job that ran out of room is ahead of
\* its blocks.)
RestartKeepsMesh ==
  [][pc' # "update" /\ pc \in {"run", "full"} =>
       lloc' = lloc /\ (pc = "run" => tree' = tree)]_vars

\* Once the criteria ask to derefine everywhere and never anything else, the
\* mesh comes back to the root grid: no derefinement is refused for ever.  (If the
\* job has run out of room, once it is resumed.)
CoarsensWhenAsked ==
  LET AsksLess == pc = "run" /\ cycle' = 0 => flag' = Masked([k \in Gids |-> -1], age')
  IN  (<>[][AsksLess]_vars) /\ []<>(pc # "full") => <>[](\A k \in Gids : lloc[k].level = RootLevel)

\* The neighbour tables of two blocks mirror each other: what one packs for slot
\* dest of the other is what the other expects there, and no slot is used twice.
NeighborsAreMutual ==
  Settled =>
    LET nghbr == [n \in Leaves(tree) |-> SetNeighbors(tree, n)]
    IN  \A n \in Leaves(tree) :
          /\ \A e, f \in nghbr[n] : e.at = f.at => e = f
          /\ \A e \in nghbr[n] :
               [to |-> n, at |-> e.dest, dest |-> e.at] \in nghbr[e.to]
================================================================================
