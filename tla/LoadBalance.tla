------------------------------- MODULE LoadBalance -------------------------------
(***************************************************************************)
(* Mesh::LoadBalance (mesh/load_balance.cpp): the Z-ordered MeshBlocks are *)
(* dealt to the ranks in contiguous runs, from the last rank down, and the *)
(* runs are then written as a start (slist) and a length (nlist) per rank. *)
(*                                                                         *)
(* Every caller gives each block the cost 1.0, so the costs are counts and *)
(* the float comparison mycost >= targetcost, with targetcost =            *)
(* totalcost/(j+1), is exact below 2^24 blocks: it is a comparison of      *)
(* integers here.  Entries of the output arrays that are not written are   *)
(* Unset, or outside the domain.                                           *)
(***************************************************************************)
EXTENDS Integers, FiniteSets

CONSTANT Inputs   \* the pairs <<number of MeshBlocks, number of ranks>>

ASSUME InputsAssumption == Inputs \subseteq (Nat \ {0}) \X (Nat \ {0})

VARIABLES nb, nranks,          \* the input
          i, j,                \* loop variables: block, rank
          totalcost, mycost,   \* cost not yet dealt to a full rank; cost of rank j
          rlist, slist, nlist, \* the output
          pc                   \* "assign", "list", "done", "fatal"

vars == <<nb, nranks, i, j, totalcost, mycost, rlist, slist, nlist, pc>>

Unset == -1
Blocks == 0..(nb - 1)
Ranks == 0..(nranks - 1)

Init ==
  /\ \E in \in Inputs : nb = in[1] /\ nranks = in[2]
  /\ i = nb - 1
  /\ j = nranks - 1
  /\ totalcost = nb
  /\ mycost = 0
  /\ rlist = [m \in Blocks |-> Unset]
  /\ slist = [r \in {} |-> 0]
  /\ nlist = [r \in {} |-> 0]
  /\ pc = "assign"

\* (Faulty variant: a rank is full only when it has more than its share.)
FullStrict(cost) == cost * (j + 1) > totalcost /\ j > 0
Full(cost) == cost * (j + 1) >= totalcost /\ j > 0

\* one turn of the first loop; targetcost == 0.0 is the error that there is
\* "at least one process which has no MeshBlock"
AssignBlock ==
  /\ pc = "assign"
  /\ i >= 0
  /\ IF totalcost = 0
     THEN /\ pc' = "fatal"
          /\ UNCHANGED <<i, j, totalcost, mycost, rlist>>
     ELSE /\ rlist' = [rlist EXCEPT ![i] = j]
          /\ IF Full(mycost + 1)
             THEN /\ j' = j - 1
                  /\ totalcost' = totalcost - (mycost + 1)
                  /\ mycost' = 0
             ELSE /\ mycost' = mycost + 1
                  /\ UNCHANGED <<j, totalcost>>
          /\ i' = i - 1
          /\ UNCHANGED pc
  /\ UNCHANGED <<nb, nranks, slist, nlist>>

StartLists ==
  /\ pc = "assign"
  /\ i < 0
  /\ pc' = "list"
  /\ slist' = [r \in {0} |-> 0]
  /\ j' = 0
  /\ i' = 1
  /\ UNCHANGED <<nb, nranks, totalcost, mycost, rlist, nlist>>

\* one turn of the second loop
\* (Faulty variant: the run that starts at block i is taken to include i - 1.)
ListBlockLate ==
  /\ pc = "list"
  /\ i < nb
  /\ IF rlist[i] # rlist[i - 1]
     THEN /\ nlist' = [r \in 0..j |-> IF r = j THEN i - 1 - slist[j] ELSE nlist[r]]
          /\ slist' = [r \in 0..(j + 1) |-> IF r = j + 1 THEN i - 1 ELSE slist[r]]
          /\ j' = j + 1
     ELSE UNCHANGED <<j, slist, nlist>>
  /\ i' = i + 1
  /\ UNCHANGED <<nb, nranks, totalcost, mycost, rlist, pc>>
ListBlock ==
  /\ pc = "list"
  /\ i < nb
  /\ IF rlist[i] # rlist[i - 1]
     THEN /\ nlist' = [r \in 0..j |-> IF r = j THEN i - slist[j] ELSE nlist[r]]
          /\ slist' = [r \in 0..(j + 1) |-> IF r = j + 1 THEN i ELSE slist[r]]
          /\ j' = j + 1
     ELSE UNCHANGED <<j, slist, nlist>>
  /\ i' = i + 1
  /\ UNCHANGED <<nb, nranks, totalcost, mycost, rlist, pc>>

Finish ==
  /\ pc = "list"
  /\ i >= nb
  /\ nlist' = [r \in 0..j |-> IF r = j THEN nb - slist[j] ELSE nlist[r]]
  /\ pc' = "done"
  /\ UNCHANGED <<nb, nranks, i, j, totalcost, mycost, rlist, slist>>

Next == AssignBlock \/ StartLists \/ ListBlock \/ Finish

Spec == Init /\ [][Next]_vars

-----------------------------------------------------------------------------
\* Every variable has its type; in particular neither loop leaves its arrays
TypeOK ==
  /\ nb \in Nat \ {0} /\ nranks \in Nat \ {0}
  /\ i \in -1..nb
  /\ j \in Ranks
  /\ totalcost \in 0..nb /\ mycost \in 0..nb
  /\ rlist \in [Blocks -> Ranks \cup {Unset}]
  /\ DOMAIN slist \in {{}, 0..j} /\ \A r \in DOMAIN slist : slist[r] \in Blocks
  /\ DOMAIN nlist \in {0..(j - 1), 0..j} \cup {{}} /\ \A r \in DOMAIN nlist : nlist[r] \in 0..nb
  /\ pc \in {"assign", "list", "done", "fatal"}

\* When there are enough blocks every rank gets some, and the three output
\* arrays agree: rank r owns exactly the nlist[r] blocks from slist[r] on
ListsAgree ==
  pc = "done" /\ nb >= nranks =>
    /\ DOMAIN slist = Ranks /\ DOMAIN nlist = Ranks
    /\ \A r \in Ranks :
         /\ nlist[r] >= 1
         /\ {m \in Blocks : rlist[m] = r} = slist[r]..(slist[r] + nlist[r] - 1)

\* The load is even: no two ranks differ by more than one block, and "the
\* master MPI rank should have less load"
EvenLoad ==
  pc = "done" /\ nb >= nranks =>
    LET load == [r \in Ranks |-> Cardinality({m \in Blocks : rlist[m] = r})]
    IN  \A r, q \in Ranks : r < q => load[q] - load[r] \in {0, 1}

=============================================================================
