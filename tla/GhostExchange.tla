----------------------------- MODULE GhostExchange -----------------------------
(***************************************************************************)
(* The rank-packed exchange of cell-centred ghost zones                    *)
(* (bvals/bvals_tasks.cpp, bvals/bvals.cpp, bvals/bvals_cc.cpp), run by    *)
(* every rank stage after stage, and across AMR events that change which   *)
(* rank owns which MeshBlock.                                              *)
(*                                                                         *)
(* In a stage a rank posts one receive per peer rank (InitRecv), packs     *)
(* everything a peer needs into one message (PackAndSendCC), polls for the *)
(* peers' messages and unpacks them (RecvAndUnpackCC), then waits for its  *)
(* sends and receives (ClearSend, ClearRecv).  The layout of a message is  *)
(* sent once, in a header, when the metadata is (re)built.  A rank may be  *)
(* ahead of another within a cycle; the reduction of the time step at the  *)
(* end of the cycle is the only barrier.                                   *)
(*                                                                         *)
(* The contents of a ghost zone are abstracted to where and when they were *)
(* packed: the link they belong to, the cycle and the stage.  MPI is       *)
(* modelled from its use here: messages of one pair of ranks match in      *)
(* order, and the send buffer may be read any time until the request has   *)
(* completed, early (buffered) or late (rendezvous).                       *)
(***************************************************************************)
EXTENDS Integers, Sequences, FiniteSets

CONSTANTS Ranks,      \* MPI ranks
          Blocks,     \* MeshBlock ids
          Meshes,     \* the meshes AMR may produce: [owner, links]
          NStages,    \* stages of the integrator
          MaxCycles   \* bound: cycles run

\* <<src, dst>>: src has ghost zones of dst to fill.  The order of ids stands
\* for the order in which the loops over (m,n) meet the links.
Link == Blocks \X Blocks
Before(k, l) == k[1] < l[1] \/ (k[1] = l[1] /\ k[2] < l[2])

LinksBetween(m, s, d) == {l \in m.links : m.owner[l[1]] = s /\ m.owner[l[2]] = d}

\* the order in which s packs what it sends to d
PackOrder(m, s, d) ==
  LET L == LinksBetween(m, s, d)
  IN  CHOOSE q \in [1..Cardinality(L) -> L] :
        \A i, j \in 1..Cardinality(L) : i < j => Before(q[i], q[j])

ASSUME RanksAssumption ==
  /\ Blocks \subseteq Nat
  /\ NStages \in Nat \ {0}
  /\ MaxCycles \in Nat

\* neighbours are neighbours of one another, and a finite table lists them
ASSUME MeshesAssumption ==
  \A m \in Meshes :
    /\ m.owner \in [Blocks -> Ranks]
    /\ m.links \subseteq Link
    /\ \A l \in m.links : <<l[2], l[1]>> \in m.links
    /\ \A s, d \in Ranks :
         /\ PackOrder(m, s, d) \in Seq(LinksBetween(m, s, d))
         /\ \A l \in LinksBetween(m, s, d) :
              \E i \in 1..Len(PackOrder(m, s, d)) : PackOrder(m, s, d)[i] = l

VARIABLES
  mesh, seq,  \* the mesh, and GetAMRLoadBalanceUpdateSeq()
  cycle,      \* cycles finished
  stage,      \* stage[r]; 0 is InitBoundaryValuesAndPrimitives
  pc,         \* pc[r]: what the rank does next
  meta,       \* meta[r]: the metadata of BuildRankPackedVarMetadata
  header,     \* header[s][d]: headers on their way (tag 2)
  sbuf,       \* sbuf[s][d]: the part of the aggregate send buffer for d
  flight,     \* flight[s][d]: sends not yet matched by a receive (tag 1)
  sreq, rreq, \* sreq[s][d], rreq[d][s]: the request of that send / receive
  rbuf,       \* rbuf[d][s]: the part of the aggregate receive buffer from s
  onrank,     \* onrank[r]: recvbuf[].vars, written directly by the sender
  ghost       \* ghost[r]: the ghost zones of r's blocks, by link

vars == <<mesh, seq, cycle, stage, pc, meta, header, sbuf, flight, sreq, rreq,
          rbuf, onrank, ghost>>

Peers(r) == {p \in Ranks \ {r} : LinksBetween(mesh, r, p) # {}}
LinksInto(m, r) == {l \in m.links : m.owner[l[2]] = r}

\* what is packed for link l by a rank that is at this point of the run
Packed(l, r) == [link |-> l, cycle |-> cycle, stage |-> stage[r]]
None == [link |-> <<>>, cycle |-> 0, stage |-> 0]
Zeros(L) == [i \in 1..Cardinality(L) |-> None]

NoMeta == [seq |-> -1, out |-> [p \in Ranks |-> <<>>], in |-> [p \in Ranks |-> <<>>]]
NoRequests == [p \in Ranks |-> "null"]

Init ==
  /\ mesh \in Meshes
  /\ seq = 0
  /\ cycle = 0
  /\ stage = [r \in Ranks |-> 0]
  /\ pc = [r \in Ranks |-> "irecv"]
  /\ meta = [r \in Ranks |-> NoMeta]
  /\ header = [s \in Ranks |-> [d \in Ranks |-> <<>>]]
  /\ sbuf = [s \in Ranks |-> [d \in Ranks |-> <<>>]]
  /\ flight = [s \in Ranks |-> [d \in Ranks |-> <<>>]]
  /\ sreq = [r \in Ranks |-> NoRequests]
  /\ rreq = [r \in Ranks |-> NoRequests]
  /\ rbuf = [r \in Ranks |-> [s \in Ranks |-> <<>>]]
  /\ onrank = [r \in Ranks |-> [l \in {} |-> None]]
  /\ ghost = [r \in Ranks |-> [l \in LinksInto(mesh, r) |-> None]]

-----------------------------------------------------------------------------
\* The tasks of a stage, in the order of the task lists; stage 0 has the order
\* of InitBoundaryValuesAndPrimitives, which clears before it unpacks
\* (Faulty variant: the receive task precedes the send task.)
FollowRecvFirst(r) ==
  LET order == <<"irecv", "recv", "send", "csend", "crecv", "end">>
  IN  order[1 + CHOOSE i \in 1..5 :
                  order[i] = IF pc[r] = "meta" THEN "irecv" ELSE pc[r]]
Follow(r) ==
  LET order == IF stage[r] = 0
               THEN <<"irecv", "send", "csend", "crecv", "recv", "end">>
               ELSE <<"irecv", "send", "recv", "csend", "crecv", "end">>
  IN  order[1 + CHOOSE i \in 1..5 :
                  order[i] = IF pc[r] = "meta" THEN "irecv" ELSE pc[r]]

Stale(r) == meta[r].seq # seq

\* one MPI_Irecv per peer; the former requests are forgotten
PostReceives(r) ==
  /\ rreq' = [rreq EXCEPT ![r] = [p \in Ranks |-> IF p \in Peers(r) THEN "active" ELSE "null"]]
  /\ sreq' = [sreq EXCEPT ![r] = NoRequests]

\* InitRecv with metadata of this mesh
InitRecv(r) ==
  /\ pc[r] = "irecv"
  /\ ~Stale(r)
  /\ PostReceives(r)
  /\ pc' = [pc EXCEPT ![r] = Follow(r)]
  /\ UNCHANGED <<mesh, seq, cycle, stage, meta, header, sbuf, flight, rbuf, onrank, ghost>>

\* BuildRankPackedVarMetadata up to its MPI_Waitall: list what goes to each peer,
\* reallocate the buffers, send the list to the peer
StartBuild(r) ==
  /\ pc[r] = "irecv"
  /\ Stale(r)
  /\ LET out == [p \in Ranks |-> IF p = r THEN <<>> ELSE PackOrder(mesh, r, p)]
     IN  /\ meta' = [meta EXCEPT ![r] = [NoMeta EXCEPT !.seq = seq, !.out = out]]
         /\ header' = [header EXCEPT ![r] =
                         [p \in Ranks |-> IF p \in Peers(r) THEN Append(@[p], out[p]) ELSE @[p]]]
  /\ sbuf' = [sbuf EXCEPT ![r] = [p \in Ranks |-> Zeros(LinksBetween(mesh, r, p))]]
  /\ rbuf' = [rbuf EXCEPT ![r] = [p \in Ranks |-> Zeros(LinksBetween(mesh, p, r))]]
  /\ pc' = [pc EXCEPT ![r] = "meta"]
  /\ UNCHANGED <<mesh, seq, cycle, stage, flight, sreq, rreq, onrank, ghost>>

\* the rest of it, once the header of every peer is there: where in a peer's
\* payload each of our links lies.  InitRecv then posts the receives.
FinishBuild(r) ==
  /\ pc[r] = "meta"
  /\ \A p \in Peers(r) : header[p][r] # <<>>
  /\ meta' = [meta EXCEPT ![r].in =
                [p \in Ranks |-> IF p \in Peers(r) THEN Head(header[p][r]) ELSE <<>>]]
  /\ header' = [p \in Ranks |-> IF p \in Peers(r)
                                THEN [header[p] EXCEPT ![r] = Tail(@)]
                                ELSE header[p]]
  /\ PostReceives(r)
  /\ pc' = [pc EXCEPT ![r] = Follow(r)]
  /\ UNCHANGED <<mesh, seq, cycle, stage, sbuf, flight, rbuf, onrank, ghost>>

\* PackAndSendCC: links within the rank are copied into the receive buffers at
\* once, the others packed in the order announced and sent, one message a peer
PackAndSend(r) ==
  /\ pc[r] = "send"
  /\ onrank' = [onrank EXCEPT ![r] = [l \in LinksBetween(mesh, r, r) |-> Packed(l, r)]]
  /\ sbuf' = [sbuf EXCEPT ![r] =
                [p \in Ranks |-> [i \in DOMAIN meta[r].out[p] |-> Packed(meta[r].out[p][i], r)]]]
  /\ sreq' = [sreq EXCEPT ![r] = [p \in Ranks |-> IF p \in Peers(r) THEN "active" ELSE "null"]]
  /\ flight' = [flight EXCEPT ![r] =
                  [p \in Ranks |-> IF p \in Peers(r)
                                   THEN Append(@[p], [buffered |-> FALSE, data |-> <<>>])
                                   ELSE @[p]]]
  /\ pc' = [pc EXCEPT ![r] = Follow(r)]
  /\ UNCHANGED <<mesh, seq, cycle, stage, meta, header, rreq, rbuf, ghost>>

\* a completed request becomes MPI_REQUEST_NULL when it is tested or waited for
Tested(reqs) == [p \in Ranks |-> IF reqs[p] = "active" THEN "active" ELSE "null"]
\* (Faulty variant: one completed request is taken for all.)
SomeInactive(reqs) == \E p \in Ranks : reqs[p] # "active"
NoneActive(reqs) == \A p \in Ranks : reqs[p] # "active"

\* RecvAndUnpackCC while a receive is pending: the task answers incomplete
RecvIncomplete(r) ==
  /\ pc[r] = "recv"
  /\ ~NoneActive(rreq[r])
  /\ rreq' = [rreq EXCEPT ![r] = Tested(@)]
  /\ UNCHANGED <<mesh, seq, cycle, stage, pc, meta, header, sbuf, flight, sreq, rbuf, onrank, ghost>>

\* recv_agg_offset: where l lies in the payload of p, by the header of p
\* (Faulty variant: the payload is read in the receiver's own order of links.)
PlaceByOwnOrder(r, p, l) ==
  Cardinality({k \in LinksBetween(mesh, p, r) :
                 k[2] < l[2] \/ (k[2] = l[2] /\ k[1] <= l[1])})
Place(r, p, l) == CHOOSE i \in DOMAIN meta[r].in[p] : meta[r].in[p][i] = l

RecvAndUnpack(r) ==
  /\ pc[r] = "recv"
  /\ NoneActive(rreq[r])
  /\ rreq' = [rreq EXCEPT ![r] = Tested(@)]
  /\ ghost' = [ghost EXCEPT ![r] =
                 [l \in LinksInto(mesh, r) |->
                    LET p == mesh.owner[l[1]]
                    IN  IF p = r THEN onrank[r][l] ELSE rbuf[r][p][Place(r, p, l)]]]
  /\ pc' = [pc EXCEPT ![r] = Follow(r)]
  /\ UNCHANGED <<mesh, seq, cycle, stage, meta, header, sbuf, flight, sreq, rbuf, onrank>>

\* (Faulty variant: sends are not waited for.)
ClearSendNoWait(r) ==
  /\ pc[r] = "csend"
  /\ pc' = [pc EXCEPT ![r] = Follow(r)]
  /\ UNCHANGED <<mesh, seq, cycle, stage, meta, header, sbuf, flight, sreq, rreq, rbuf, onrank, ghost>>
ClearSend(r) ==
  /\ pc[r] = "csend"
  /\ NoneActive(sreq[r])
  /\ sreq' = [sreq EXCEPT ![r] = NoRequests]
  /\ pc' = [pc EXCEPT ![r] = Follow(r)]
  /\ UNCHANGED <<mesh, seq, cycle, stage, meta, header, sbuf, flight, rreq, rbuf, onrank, ghost>>

ClearRecv(r) ==
  /\ pc[r] = "crecv"
  /\ NoneActive(rreq[r])
  /\ rreq' = [rreq EXCEPT ![r] = NoRequests]
  /\ pc' = [pc EXCEPT ![r] = Follow(r)]
  /\ UNCHANGED <<mesh, seq, cycle, stage, meta, header, sbuf, flight, sreq, rbuf, onrank, ghost>>

\* on to the next stage of this cycle; nothing makes ranks wait for one another
NextStage(r) ==
  /\ pc[r] = "end"
  /\ stage[r] < NStages
  /\ stage' = [stage EXCEPT ![r] = @ + 1]
  /\ pc' = [pc EXCEPT ![r] = "irecv"]
  /\ UNCHANGED <<mesh, seq, cycle, meta, header, sbuf, flight, sreq, rreq, rbuf, onrank, ghost>>

\* End of the cycle.  AMR and load balancing may give a new mesh, which is counted
\* by MarkMeshUpdated and followed by InitBoundaryValuesAndPrimitives; the
\* collective calls of AMR and of NewTimeStep hold all ranks here.
EndCycle ==
  /\ cycle < MaxCycles
  /\ \A r \in Ranks : pc[r] = "end" /\ stage[r] = NStages
  /\ cycle' = cycle + 1
  /\ \/ /\ stage' = [r \in Ranks |-> 1]
        /\ UNCHANGED <<mesh, seq, ghost>>
     \/ /\ mesh' \in Meshes
        /\ seq' = seq + 1
        /\ stage' = [r \in Ranks |-> 0]
        /\ ghost' = [r \in Ranks |-> [l \in LinksInto(mesh', r) |-> None]]
  /\ pc' = [r \in Ranks |-> "irecv"]
  /\ UNCHANGED <<meta, header, sbuf, flight, sreq, rreq, rbuf, onrank>>

-----------------------------------------------------------------------------
(***************************************************************************)
(* MPI.  The request in sreq[s][d] is that of the last send posted.        *)
(***************************************************************************)
Completed(s, d, k) ==
  IF k = Len(flight[s][d]) /\ sreq[s][d] = "active"
  THEN [sreq EXCEPT ![s][d] = "done"]
  ELSE sreq

\* MPI copies an unmatched message out of the send buffer
Buffer(s, d) ==
  \E k \in 1..Len(flight[s][d]) :
    /\ ~flight[s][d][k].buffered
    /\ flight' = [flight EXCEPT ![s][d][k] = [buffered |-> TRUE, data |-> sbuf[s][d]]]
    /\ sreq' = Completed(s, d, k)
    /\ UNCHANGED <<mesh, seq, cycle, stage, pc, meta, header, sbuf, rreq, rbuf, onrank, ghost>>

\* the oldest unmatched message of s meets the receive d has posted
Deliver(s, d) ==
  /\ flight[s][d] # <<>>
  /\ rreq[d][s] = "active"
  /\ LET msg == Head(flight[s][d])
     IN  /\ rbuf' = [rbuf EXCEPT ![d][s] = IF msg.buffered THEN msg.data ELSE sbuf[s][d]]
         /\ sreq' = IF msg.buffered THEN sreq ELSE Completed(s, d, 1)
  /\ flight' = [flight EXCEPT ![s][d] = Tail(@)]
  /\ rreq' = [rreq EXCEPT ![d][s] = "done"]
  /\ UNCHANGED <<mesh, seq, cycle, stage, pc, meta, header, sbuf, onrank, ghost>>

-----------------------------------------------------------------------------
Rank(r) ==
  \/ InitRecv(r) \/ StartBuild(r) \/ FinishBuild(r) \/ PackAndSend(r)
  \/ RecvIncomplete(r) \/ RecvAndUnpack(r) \/ ClearSend(r) \/ ClearRecv(r) \/ NextStage(r)

Next ==
  \/ \E r \in Ranks : Rank(r)
  \/ \E s, d \in Ranks : Buffer(s, d) \/ Deliver(s, d)
  \/ EndCycle

Spec == Init /\ [][Next]_vars

\* each rank keeps executing, and MPI delivers what has a receive
Fairness ==
  /\ \A r \in Ranks : WF_vars(Rank(r) /\ pc'[r] # pc[r])
  /\ \A s, d \in Ranks : WF_vars(Deliver(s, d))
  /\ WF_vars(EndCycle)

FairSpec == Spec /\ Fairness

-----------------------------------------------------------------------------
Sent(r) == pc[r] \notin {"irecv", "meta", "send"}
Unpacked(r) ==
  IF stage[r] = 0 THEN pc[r] = "end" ELSE pc[r] \in {"csend", "crecv", "end"}

\* Once a rank has unpacked, every ghost zone of every block it owns holds what
\* its neighbour packed for that zone in this cycle and this stage: never the
\* data of another stage, of another zone, or of the mesh before AMR
GhostsAreOfThisStage ==
  \A r \in Ranks : Unpacked(r) =>
    \A l \in LinksInto(mesh, r) : ghost[r][l] = Packed(l, r)

\* When a rank is about to pack (or to reallocate) its send buffer, and when InitRecv
\* and PackAndSendCC overwrite its request handles with MPI_REQUEST_NULL, MPI is done
\* with them: no message that would still be read from the buffer is in flight, and
\* no handle that is dropped is of an operation under way.
SendBufferFree ==
  \A s, d \in Ranks :
    /\ pc[s] \in {"irecv", "meta", "send"} =>
         NoneActive(sreq[s]) /\ \A k \in 1..Len(flight[s][d]) : flight[s][d][k].buffered
    /\ pc[s] \in {"irecv", "meta"} => NoneActive(rreq[s])

\* No barrier separates the stages of a cycle, and yet ranks that exchange are
\* never more than a stage apart, with at most two messages between them
PeersWithinOneStage ==
  \A s, d \in Ranks :
    /\ d \in Peers(s) => stage[s] <= stage[d] + 1
    /\ Len(flight[s][d]) <= 2

\* Every rank that starts a stage completes it: no set of ranks waits in a
\* circle, whether MPI buffers messages or not
EveryStageCompletes == \A r \in Ranks : pc[r] = "irecv" ~> pc[r] = "end"

\* The message protocol implements the exchange the integrator assumes
Abstract == INSTANCE StageExchange WITH
              published <- [r \in Ranks |-> Sent(r)],
              filled <- [r \in Ranks |-> Unpacked(r)]

AbstractSpec == Abstract!Spec

=============================================================================
