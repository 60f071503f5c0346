----------------------------- MODULE StageExchange -----------------------------
(***************************************************************************)
(* What the exchange of ghost zones promises to the integrator.  In every  *)
(* stage each rank publishes the state of its MeshBlocks and then, in one  *)
(* step, has all its ghost zones filled with what its neighbours published *)
(* in that same stage.  There are no messages, buffers or requests here:   *)
(* GhostExchange implements this module with them.                         *)
(***************************************************************************)
EXTENDS Integers

CONSTANTS Ranks, Meshes, NStages, MaxCycles

VARIABLES mesh, cycle, stage,
          published, \* published[r]: r has published its state of this stage
          filled,    \* filled[r]: r's ghost zones are those of this stage
          ghost      \* ghost[r]: by link, what the ghost zone holds

vars == <<mesh, cycle, stage, published, filled, ghost>>

LinksInto(m, r) == {l \in m.links : m.owner[l[2]] = r}
Neighbours(r) == {mesh.owner[l[1]] : l \in LinksInto(mesh, r)} \ {r}
None == [link |-> <<>>, cycle |-> 0, stage |-> 0]

Init ==
  /\ mesh \in Meshes
  /\ cycle = 0
  /\ stage = [r \in Ranks |-> 0]
  /\ published = [r \in Ranks |-> FALSE]
  /\ filled = [r \in Ranks |-> FALSE]
  /\ ghost = [r \in Ranks |-> [l \in LinksInto(mesh, r) |-> None]]

Publish(r) ==
  /\ ~published[r]
  /\ published' = [published EXCEPT ![r] = TRUE]
  /\ UNCHANGED <<mesh, cycle, stage, filled, ghost>>

\* every neighbour has published this stage, or has gone on to the next one
Fill(r) ==
  /\ published[r] /\ ~filled[r]
  /\ \A p \in Neighbours(r) :
       \/ stage[p] = stage[r] /\ published[p]
       \/ stage[p] = stage[r] + 1
  /\ ghost' = [ghost EXCEPT ![r] =
                 [l \in LinksInto(mesh, r) |->
                    [link |-> l, cycle |-> cycle, stage |-> stage[r]]]]
  /\ filled' = [filled EXCEPT ![r] = TRUE]
  /\ UNCHANGED <<mesh, cycle, stage, published>>

Advance(r) ==
  /\ filled[r]
  /\ stage[r] < NStages
  /\ stage' = [stage EXCEPT ![r] = @ + 1]
  /\ published' = [published EXCEPT ![r] = FALSE]
  /\ filled' = [filled EXCEPT ![r] = FALSE]
  /\ UNCHANGED <<mesh, cycle, ghost>>

EndCycle ==
  /\ cycle < MaxCycles
  /\ \A r \in Ranks : filled[r] /\ stage[r] = NStages
  /\ cycle' = cycle + 1
  /\ \/ /\ stage' = [r \in Ranks |-> 1]
        /\ UNCHANGED <<mesh, ghost>>
     \/ /\ mesh' \in Meshes
        /\ stage' = [r \in Ranks |-> 0]
        /\ ghost' = [r \in Ranks |-> [l \in LinksInto(mesh', r) |-> None]]
  /\ published' = [r \in Ranks |-> FALSE]
  /\ filled' = [r \in Ranks |-> FALSE]

Next ==
  \/ \E r \in Ranks : Publish(r) \/ Fill(r) \/ Advance(r)
  \/ EndCycle

Spec == Init /\ [][Next]_vars

=============================================================================
