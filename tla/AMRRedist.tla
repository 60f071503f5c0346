------------------------------- MODULE AMRRedist -------------------------------
(***************************************************************************)
(* The motion of data after the tree has changed: Steps 4 to 9 of          *)
(* RedistAndRefineMeshBlocks (mesh/mesh_refinement.cpp) and the messages   *)
(* of mesh/load_balance.cpp.                                               *)
(*                                                                         *)
(* Every rank moves its blocks in place within its arrays; restricted data *)
(* and data to be prolonged pass through the coarse array; blocks that     *)
(* change rank travel as messages.  What the fine array of a block holds   *)
(* is told octant by octant.                                               *)
(***************************************************************************)
EXTENDS Integers, Sequences, FiniteSets, FiniteSetsExt

CONSTANTS NRanks, nleaf,
          Plans   \* bound: what has become of the tree, family by family

ASSUME RedistAssumption ==
  /\ NRanks \in Nat \ {0} /\ nleaf \in {2, 4, 8}
  /\ \A p \in Plans : p \in Seq({"same", "refine", "derefine"}) /\ p # <<>>

VARIABLES flag,               \* refine_flag, by old gid
          newtoold, oldtonew, \* the maps between old and new gids
          oldrank, newrank,   \* rank_eachmb before and after, by gid
          pc,                 \* the next step of each rank
          fine, coarse,       \* u0 and coarse_u0 of each rank, by local index
          copied,             \* the old blocks CopyCC has moved
          recvs, sends        \* the messages each rank has posted

maps == <<flag, newtoold, oldtonew, oldrank, newrank>>
vars == <<maps, pc, fine, coarse, copied, recvs, sends>>

Ranks == 0..(NRanks - 1)
Oct == 0..(nleaf - 1)
OldOn(r) == {k \in DOMAIN oldrank : oldrank[k] = r}
NewOn(r) == {m \in DOMAIN newrank : newrank[m] = r}
ombs(r) == Min(OldOn(r))   \* gids_eachrank
nmbs(r) == Min(NewOn(r))   \* new_gids_eachrank
\* the position of a block among the leaves of its parent: its lx modulo 2
OldOct(k) == k - newtoold[oldtonew[k]]
NewOct(m) == m - oldtonew[newtoold[m]]

Junk == <<"junk">>
Data(k, o) == <<"fine", k, o>>
Restricted(k) == <<"restricted", k>>
Prolonged(c, o) == <<"prolonged", c, o>>

\* what LoadBalance returns: every rank has a run of blocks (LoadBalanceProofs)
Distributions(n) ==
  {d \in [0..(n - 1) -> Ranks] :
     /\ d[0] = 0 /\ d[n - 1] = NRanks - 1
     /\ \A k \in 1..(n - 1) : d[k] - d[k - 1] \in {0, 1}}

\* the gid of the first block of family g, and the family of each block, if those of
\* this kind have nleaf blocks and the others one
Start(plan, kind, g) ==
  (g - 1) + (nleaf - 1) * Cardinality({h \in 1..(g - 1) : plan[h] = kind})
Families(plan, kind) ==
  [k \in 0..(Start(plan, kind, Len(plan) + 1) - 1) |->
     CHOOSE g \in DOMAIN plan : Start(plan, kind, g) <= k /\ k < Start(plan, kind, g + 1)]

Slots == DOMAIN oldrank \cup DOMAIN newrank
Held(r, i) == i + ombs(r) \in OldOn(r)

Init ==
  /\ \E plan \in Plans :
       LET old == Families(plan, "derefine")
           new == Families(plan, "refine")
       IN  /\ flag = [k \in DOMAIN old |-> CASE plan[old[k]] = "same" -> 0
                                             [] plan[old[k]] = "refine" -> 1
                                             [] plan[old[k]] = "derefine" -> -nleaf]
           /\ oldtonew = [k \in DOMAIN old |-> Start(plan, "refine", old[k])]
           /\ newtoold = [m \in DOMAIN new |-> Start(plan, "derefine", new[m])]
           /\ oldrank \in Distributions(Start(plan, "derefine", Len(plan) + 1))
           /\ newrank \in Distributions(Start(plan, "refine", Len(plan) + 1))
  /\ pc = [r \in Ranks |-> "InitRecv"]
  /\ fine = [r \in Ranks |-> [i \in Slots |-> [o \in Oct |->
               IF Held(r, i) THEN Data(i + ombs(r), o) ELSE Junk]]]
  /\ coarse = [r \in Ranks |-> [i \in Slots |->
                 IF Held(r, i) THEN Restricted(i + ombs(r)) ELSE Junk]]
  /\ copied = [r \in Ranks |-> {}]
  /\ recvs = [r \in Ranks |-> {}]
  /\ sends = [r \in Ranks |-> {}]

Step(r, from, to) == pc[r] = from /\ pc' = [pc EXCEPT ![r] = to] /\ UNCHANGED maps

-----------------------------------------------------------------------------
(* Messages; the tag is made of lid, the block's local index on the receiver,  *)
(* and an octant.                                                              *)

Recv(r, k, m, o) == [from |-> oldrank[k], lid |-> m - nmbs(r), oct |-> o]
Recvs(r) ==
  UNION {LET k == newtoold[m] IN
         CASE flag[k] < 0 -> {Recv(r, k + l, m, l) :
                                l \in {j \in Oct : oldrank[k] # r \/ oldrank[k + j] # r}}
           [] flag[k] = 0 -> IF oldrank[k] # r THEN {Recv(r, k, m, 0)} ELSE {}
           [] flag[k] > 0 -> IF newrank[oldtonew[k]] # r \/ oldrank[k] # r
                             THEN {Recv(r, k, m, 0)} ELSE {}
         : m \in NewOn(r)}

InitRecvAMR(r) ==
  /\ Step(r, "InitRecv", "PackAndSend")
  /\ recvs' = [recvs EXCEPT ![r] = Recvs(r)]
  /\ UNCHANGED <<fine, coarse, copied, sends>>

\* what is packed of block k, if for its leaf l
Packed(r, k, l) ==
  LET i == k - ombs(r)
  IN  CASE flag[k] > 0 -> fine[r][i][l]
        [] flag[k] = 0 -> fine[r][i]
        [] flag[k] < 0 -> coarse[r][i]

\* leaf l of a refined block, whose first leaf is m, comes as a message
\* (Faulty variant: only if it leaves, also when the first leaf has gone.)
LeafLeaves(r, m, l) == newrank[m + l] # r
LeafTravels(r, m, l) == newrank[m] # r \/ newrank[m + l] # r

Send(r, k, m, o, l) ==
  [to |-> newrank[m], lid |-> m - nmbs(newrank[m]), oct |-> o, data |-> Packed(r, k, l)]
Sends(r) ==
  UNION {LET m == oldtonew[k] IN
         CASE flag[k] > 0 -> {Send(r, k, m + l, 0, l) : l \in {j \in Oct : LeafTravels(r, m, j)}}
           [] flag[k] = 0 -> IF newrank[m] # r THEN {Send(r, k, m, 0, 0)} ELSE {}
           [] flag[k] < 0 -> IF oldrank[newtoold[m]] # r \/ newrank[m] # r
                             THEN {Send(r, k, m, OldOct(k), 0)} ELSE {}
         : k \in OldOn(r)}

PackAndSendAMR(r) ==
  /\ Step(r, "PackAndSend", "Derefine")
  /\ sends' = [sends EXCEPT ![r] = Sends(r)]
  /\ UNCHANGED <<fine, coarse, copied, recvs>>

-----------------------------------------------------------------------------
(* Copies within a rank *)

\* the first leaf of a group gathers the leaves that are on this rank
Gathers(r, k) ==
  /\ flag[k] < -1
  /\ ~(k > 0 /\ oldtonew[k - 1] = oldtonew[k])
  /\ newrank[oldtonew[k]] = r

DerefineCCSameRank(r) ==
  /\ Step(r, "Derefine", "Copy")
  /\ fine' = [fine EXCEPT ![r] = [i \in DOMAIN fine[r] |->
       LET k == i + ombs(r)
       IN  IF k \in OldOn(r) /\ Gathers(r, k)
           THEN [o \in Oct |-> IF k + o \in OldOn(r) THEN coarse[r][i + o] ELSE fine[r][i][o]]
           ELSE fine[r][i]]]
  /\ UNCHANGED <<coarse, copied, recvs, sends>>

\* a block that stays on the rank moves within its array; of a group that is given
\* up only the first leaf moves to the left
Shift(r, k) == (oldtonew[k] - nmbs(r)) - (k - ombs(r))
MovesLeft(r, k) ==
  /\ k > ombs(r) /\ newrank[oldtonew[k]] = r
  /\ Shift(r, k) < 0 /\ oldtonew[k] # oldtonew[k - 1]
MovesRight(r, k) == newrank[oldtonew[k]] = r /\ Shift(r, k) > 0
ToMove(r) == {k \in OldOn(r) \ copied[r] : MovesLeft(r, k) \/ MovesRight(r, k)}

\* one loop copies those that move left, from the left, the next one those that move
\* right, from the right
\* (Faulty variant: both from the left.)
BeforeAscending(r, k, j) ==
  IF MovesLeft(r, k) THEN MovesLeft(r, j) => k < j ELSE ~MovesLeft(r, j) /\ k < j
Before(r, k, j) ==
  IF MovesLeft(r, k) THEN MovesLeft(r, j) => k < j ELSE ~MovesLeft(r, j) /\ k > j

CopyCC(r, k) ==
  /\ pc[r] = "Copy"
  /\ k \in ToMove(r) /\ \A j \in ToMove(r) \ {k} : Before(r, k, j)
  /\ fine' = [fine EXCEPT ![r][oldtonew[k] - nmbs(r)] = fine[r][k - ombs(r)]]
  /\ copied' = [copied EXCEPT ![r] = @ \cup {k}]
  /\ UNCHANGED <<maps, pc, coarse, recvs, sends>>

EndCopyCC(r) ==
  /\ Step(r, "Copy", "CopyForRefinement")
  /\ ToMove(r) = {}
  /\ UNCHANGED <<fine, coarse, copied, recvs, sends>>

\* the coarse array of each leaf gets its octant of the block that is refined, which
\* stands where the first leaf will be
RefineSource(r, m) == oldtonew[newtoold[m]] - nmbs(r)
CopyForRefinementCC(r) ==
  /\ Step(r, "CopyForRefinement", "ClearSend")
  /\ coarse' = [coarse EXCEPT ![r] = [i \in DOMAIN coarse[r] |->
       LET m == i + nmbs(r)
       IN  IF m \in NewOn(r) /\ flag[newtoold[m]] > 0 /\ newrank[oldtonew[newtoold[m]]] = r
           THEN fine[r][RefineSource(r, m)][NewOct(m)]
           ELSE coarse[r][i]]]
  /\ UNCHANGED <<fine, copied, recvs, sends>>

-----------------------------------------------------------------------------
(* Waiting and unpacking *)

\* a send and a receive meet when ranks, local index and octant agree
Meet(s, snd, r, rcv) ==
  snd.to = r /\ rcv.from = s /\ snd.lid = rcv.lid /\ snd.oct = rcv.oct

\* MPI_Wait on a send returns when it was received, or as soon as it is buffered
ClearSendAMR(r, buffered) ==
  /\ buffered \/ \A snd \in sends[r] : \E rcv \in recvs[snd.to] : Meet(r, snd, snd.to, rcv)
  /\ Step(r, "ClearSend", "ClearRecv")
  /\ UNCHANGED <<fine, coarse, copied, recvs, sends>>

Arrived(r, rcv) == {snd \in sends[rcv.from] : Meet(rcv.from, snd, r, rcv)}
\* what arrived for local index i and octant o
Got(r, i, o) == LET rcv == CHOOSE q \in recvs[r] : q.lid = i /\ q.oct = o
                IN  (CHOOSE snd \in Arrived(r, rcv) : TRUE).data

ClearRecvAndUnpackAMR(r) ==
  LET for(i, o) == \E q \in recvs[r] : q.lid = i /\ q.oct = o
      kind(i) == flag[newtoold[i + nmbs(r)]]
  IN  /\ \A rcv \in recvs[r] : Arrived(r, rcv) # {}
      /\ Step(r, "ClearRecv", "Refine")
      /\ fine' = [fine EXCEPT ![r] = [i \in DOMAIN fine[r] |->
           IF for(i, 0) /\ kind(i) = 0
           THEN Got(r, i, 0)
           ELSE [o \in Oct |-> IF for(i, o) /\ kind(i) < 0 THEN Got(r, i, o)
                               ELSE fine[r][i][o]]]]
      /\ coarse' = [coarse EXCEPT ![r] = [i \in DOMAIN coarse[r] |->
           IF for(i, 0) /\ kind(i) > 0 THEN Got(r, i, 0) ELSE coarse[r][i]]]
      /\ UNCHANGED <<copied, recvs, sends>>

RefineCC(r) ==
  /\ Step(r, "Refine", "done")
  /\ fine' = [fine EXCEPT ![r] = [i \in DOMAIN fine[r] |->
       IF i + nmbs(r) \in NewOn(r) /\ flag[newtoold[i + nmbs(r)]] > 0
       THEN [o \in Oct |-> Prolonged(coarse[r][i], o)]
       ELSE fine[r][i]]]
  /\ UNCHANGED <<coarse, copied, recvs, sends>>

Local(r) == \/ InitRecvAMR(r) \/ PackAndSendAMR(r) \/ DerefineCCSameRank(r)
            \/ (\E k \in OldOn(r) : CopyCC(r, k)) \/ EndCopyCC(r)
            \/ CopyForRefinementCC(r) \/ ClearRecvAndUnpackAMR(r) \/ RefineCC(r)
Next == \E r \in Ranks : Local(r) \/ \E buffered \in BOOLEAN : ClearSendAMR(r, buffered)

\* ranks keep running, and MPI completes a send that was received; it need not
\* buffer any
Spec == /\ Init /\ [][Next]_vars
        /\ \A r \in Ranks : WF_vars(Local(r)) /\ WF_vars(ClearSendAMR(r, FALSE))

-----------------------------------------------------------------------------
(* Properties *)

\* A rank that is done has in every new block the data of the same cells: its own,
\* the restricted data of its leaves, or its octant of the parent prolonged.  No
\* copy in place has overwritten what was still to be read.
EveryBlockHasItsData ==
  \A r \in Ranks : pc[r] = "done" =>
    \A m \in NewOn(r), o \in Oct :
      LET k == newtoold[m]
      IN  fine[r][m - nmbs(r)][o] =
            CASE flag[k] = 0 -> Data(k, o)
              [] flag[k] < 0 -> Restricted(k + o)
              [] flag[k] > 0 -> Prolonged(Data(k, NewOct(m)), o)

\* Sender and receiver, each from its own loop and its own conditions, agree: what
\* one sends is what the other expects, message by message.
Posted(r) == pc[r] \notin {"InitRecv", "PackAndSend"}
SendsMatchReceives ==
  \A r, s \in Ranks : Posted(r) /\ Posted(s) =>
    /\ \A rcv \in recvs[r] : rcv.from = s => Cardinality(Arrived(r, rcv)) = 1
    /\ \A snd \in sends[s] : snd.to = r =>
         Cardinality({rcv \in recvs[r] : Meet(s, snd, r, rcv)}) = 1

\* Nobody waits for ever, though no send is buffered.
EveryRankFinishes == <>(\A r \in Ranks : pc[r] = "done")
================================================================================
