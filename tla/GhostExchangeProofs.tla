-------------------------- MODULE GhostExchangeProofs --------------------------
(***************************************************************************)
(* For every number of ranks, stages and cycles and every set of meshes:   *)
(* the safety properties of GhostExchange, and that the message protocol   *)
(* implements StageExchange.                                               *)
(***************************************************************************)
EXTENDS GhostExchange, FiniteSetTheorems, SequenceTheorems, TLAPS

Item == [link : Link \cup {<<>>}, cycle : Nat, stage : Nat]
Message == [buffered : BOOLEAN, data : Seq(Item)]
Metadata == [seq : Int, out : [Ranks -> Seq(Link)], in : [Ranks -> Seq(Link)]]
Request == {"null", "active", "done"}

TypeOK ==
  /\ mesh \in Meshes /\ seq \in Nat /\ cycle \in Nat
  /\ stage \in [Ranks -> 0..NStages]
  /\ pc \in [Ranks -> {"irecv", "meta", "send", "recv", "csend", "crecv", "end"}]
  /\ meta \in [Ranks -> Metadata]
  /\ header \in [Ranks -> [Ranks -> Seq(Seq(Link))]]
  /\ sbuf \in [Ranks -> [Ranks -> Seq(Item)]]
  /\ rbuf \in [Ranks -> [Ranks -> Seq(Item)]]
  /\ flight \in [Ranks -> [Ranks -> Seq(Message)]]
  /\ sreq \in [Ranks -> [Ranks -> Request]]
  /\ rreq \in [Ranks -> [Ranks -> Request]]
  /\ DOMAIN onrank = Ranks
  /\ DOMAIN ghost = Ranks

\* Where r is in its stage: its receives are posted; its sends, or its receives,
\* of all stages so far have completed
Posted(r) == pc[r] \notin {"irecv", "meta"}
SendsCleared(r) ==
  \/ pc[r] \in {"irecv", "meta", "send", "crecv", "end"}
  \/ pc[r] = "recv" /\ stage[r] = 0
RecvsCleared(r) ==
  \/ pc[r] \in {"irecv", "meta", "end"}
  \/ pc[r] \in {"csend", "crecv"} /\ stage[r] # 0
  \/ pc[r] = "recv" /\ stage[r] = 0

Requests ==
  \A r \in Ranks :
    /\ SendsCleared(r) => NoneActive(sreq[r])
    /\ RecvsCleared(r) => NoneActive(rreq[r])

\* The stage of the next message that s sends to its peers, and of the next one
\* that d receives from s
NextSent(s) == IF Sent(s) THEN stage[s] + 1 ELSE stage[s]
NextReceived(s, d) ==
  IF Posted(d) /\ rreq[d][s] # "active" THEN stage[d] + 1 ELSE stage[d]

\* Between two peers are the messages of the stages from the receiver's to the
\* sender's, one per stage; between other ranks nothing
Flights ==
  \A s, d \in Ranks :
    IF d \in Peers(s)
    THEN Len(flight[s][d]) = NextSent(s) - NextReceived(s, d)
    ELSE flight[s][d] = <<>> /\ rreq[d][s] # "active"

\* what s packs for d in a stage of this cycle
Payload(s, d, st) ==
  [i \in 1..Len(PackOrder(mesh, s, d)) |->
     [link |-> PackOrder(mesh, s, d)[i], cycle |-> cycle, stage |-> st]]

\* A message that has left the send buffer holds the payload of its stage; only the
\* last one may still be in the buffer, and then the request is of that message
Messages ==
  \A s, d \in Ranks : \A k \in 1..Len(flight[s][d]) :
    IF flight[s][d][k].buffered
    THEN flight[s][d][k].data = Payload(s, d, NextReceived(s, d) + k - 1)
    ELSE k = Len(flight[s][d]) /\ sreq[s][d] = "active"

Buffers ==
  \A r \in Ranks :
    /\ Sent(r) => onrank[r] = [l \in LinksBetween(mesh, r, r) |-> Packed(l, r)]
    /\ \A p \in Peers(r) :
         /\ Sent(r) => sbuf[r][p] = Payload(r, p, stage[r])
         /\ Posted(r) /\ rreq[r][p] # "active" => rbuf[r][p] = Payload(p, r, stage[r])

\* Metadata of this mesh is the order in which r packs, and once it is complete
\* the order in which its peers, which have metadata of this mesh by then, do
Layouts ==
  \A r \in Ranks :
    /\ meta[r].seq <= seq
    /\ pc[r] # "irecv" => ~Stale(r)
    /\ \A p \in Peers(r) :
         /\ ~Stale(r) => meta[r].out[p] = PackOrder(mesh, r, p)
         /\ ~Stale(r) /\ pc[r] # "meta" =>
              ~Stale(p) /\ meta[r].in[p] = PackOrder(mesh, p, r)

\* A header is on its way from when its sender has listed its links until the
\* receiver has completed its metadata
Headers ==
  \A s, d \in Ranks :
    header[s][d] = IF d \in Peers(s) /\ ~Stale(s) /\ (Stale(d) \/ pc[d] = "meta")
                   THEN <<PackOrder(mesh, s, d)>> ELSE <<>>

IInv ==
  /\ TypeOK
  /\ Requests
  /\ Flights
  /\ Messages
  /\ Buffers
  /\ Layouts
  /\ Headers
  /\ GhostsAreOfThisStage

-----------------------------------------------------------------------------
\* The neighbour relation of ranks is symmetric
LEMMA PeersSymmetric ==
  ASSUME mesh \in Meshes
  PROVE  \A r, p \in Ranks : p \in Peers(r) <=> r \in Peers(p)
<1>1. ASSUME NEW r \in Ranks, NEW p \in Ranks, p \in Peers(r)
      PROVE  r \in Peers(p)
  <2>1. PICK l \in LinksBetween(mesh, r, p) : TRUE
    BY <1>1 DEF Peers
  <2>2. <<l[2], l[1]>> \in LinksBetween(mesh, p, r)
    BY <2>1, MeshesAssumption DEF LinksBetween
  <2> QED
    BY <1>1, <2>2 DEF Peers
<1> QED
  BY <1>1

\* The order in which s packs what it sends to d lists links of the mesh, and all of
\* those between them
LEMMA PackOrderLists ==
  ASSUME NEW m \in Meshes, NEW s \in Ranks, NEW d \in Ranks
  PROVE  /\ PackOrder(m, s, d) \in Seq(Link)
         /\ \A i \in 1..Len(PackOrder(m, s, d)) :
              PackOrder(m, s, d)[i] \in LinksBetween(m, s, d)
         /\ \A l \in LinksBetween(m, s, d) :
              \E i \in 1..Len(PackOrder(m, s, d)) : PackOrder(m, s, d)[i] = l
         /\ Cardinality(LinksBetween(m, s, d)) \in Nat
<1> DEFINE q == PackOrder(m, s, d)
           L == LinksBetween(m, s, d)
<1>1. /\ q \in Seq(L)
      /\ \A l \in L : \E i \in 1..Len(q) : q[i] = l
  BY MeshesAssumption
<1>2. L \subseteq Link
  BY MeshesAssumption DEF LinksBetween
<1> HIDE DEF q, L
<1>3. /\ q \in [1..Len(q) -> L]
      /\ Len(q) \in Nat
      /\ q \in Seq(Link)
  BY <1>1, <1>2
<1>4. q \in Surjection(1..Len(q), L)
  BY <1>1, <1>3 DEF Surjection
<1>5. Cardinality(L) \in Nat
  BY <1>3, <1>4, FS_Interval, FS_Surjection, FS_CardinalityType
<1> QED
  BY <1>1, <1>3, <1>5 DEF q, L

\* Nothing is left of a sequence of one when its head is taken
LEMMA TailOfOne ==
  ASSUME NEW x
  PROVE  Tail(<<x>>) = <<>>
<1>1. <<x>> \in Seq({x}) /\ Len(<<x>>) = 1 /\ <<x>> # <<>>
  OBVIOUS
<1>2. Tail(<<x>>) \in Seq({x}) /\ Len(Tail(<<x>>)) = 0
  BY <1>1, HeadTailProperties
<1> QED
  BY <1>2, EmptySeq

\* A payload and a zeroed buffer are sequences of items
LEMMA PayloadType ==
  ASSUME TypeOK, NEW s \in Ranks, NEW d \in Ranks, NEW st \in Nat
  PROVE  Payload(s, d, st) \in Seq(Item)
<1> DEFINE q == PackOrder(mesh, s, d)
<1>1. q \in Seq(Link)
  BY PackOrderLists DEF TypeOK
<1> HIDE DEF q
<1>2. [i \in 1..Len(q) |-> [link |-> q[i], cycle |-> cycle, stage |-> st]] \in Seq(Item)
  BY <1>1 DEF TypeOK, Item
<1> QED
  BY <1>2 DEF Payload, q

\* BuildRankPackedVarMetadata allocates a slot per link
LEMMA ZerosType ==
  ASSUME NEW m \in Meshes, NEW s \in Ranks, NEW d \in Ranks
  PROVE  Zeros(LinksBetween(m, s, d)) \in Seq(Item)
<1> DEFINE n == Cardinality(LinksBetween(m, s, d))
<1>1. n \in Nat
  BY PackOrderLists
<1>2. None \in Item
  BY DEF None, Item
<1> HIDE DEF n
<1>3. [i \in 1..n |-> None] \in Seq(Item)
  BY <1>1, <1>2
<1> QED
  BY <1>3 DEF Zeros, n

\* The order of the tasks of a stage
LEMMA FollowIs ==
  ASSUME TypeOK, NEW r \in Ranks
  PROVE  /\ pc[r] \in {"irecv", "meta"} => Follow(r) = "send"
         /\ pc[r] = "send" => Follow(r) = IF stage[r] = 0 THEN "csend" ELSE "recv"
         /\ pc[r] = "recv" => Follow(r) = IF stage[r] = 0 THEN "end" ELSE "csend"
         /\ pc[r] = "csend" => Follow(r) = "crecv"
         /\ pc[r] = "crecv" => Follow(r) = IF stage[r] = 0 THEN "recv" ELSE "end"
<1> DEFINE order == IF stage[r] = 0
                    THEN <<"irecv", "send", "csend", "crecv", "recv", "end">>
                    ELSE <<"irecv", "send", "recv", "csend", "crecv", "end">>
           i == CHOOSE j \in 1..5 : order[j] = IF pc[r] = "meta" THEN "irecv" ELSE pc[r]
<1>1. Follow(r) = order[1 + i]
  BY DEF Follow
<1>2. ASSUME pc[r] # "end"
      PROVE  \E j \in 1..5 : order[j] = IF pc[r] = "meta" THEN "irecv" ELSE pc[r]
  <2>1. CASE pc[r] \in {"irecv", "meta"}
    <3>1. order[1] = "irecv"
      OBVIOUS
    <3> QED BY <3>1, <2>1
  <2>2. CASE pc[r] = "send"
    <3>1. order[2] = "send"
      OBVIOUS
    <3> QED BY <3>1, <2>2
  <2>3. CASE pc[r] = "recv"
    <3>1. order[IF stage[r] = 0 THEN 5 ELSE 3] = "recv"
      OBVIOUS
    <3> QED BY <3>1, <2>3
  <2>4. CASE pc[r] = "csend"
    <3>1. order[IF stage[r] = 0 THEN 3 ELSE 4] = "csend"
      OBVIOUS
    <3> QED BY <3>1, <2>4
  <2>5. CASE pc[r] = "crecv"
    <3>1. order[IF stage[r] = 0 THEN 4 ELSE 5] = "crecv"
      OBVIOUS
    <3> QED BY <3>1, <2>5
  <2> QED BY <1>2, <2>1, <2>2, <2>3, <2>4, <2>5 DEF TypeOK
<1>3. pc[r] # "end" =>
        i \in 1..5 /\ order[i] = IF pc[r] = "meta" THEN "irecv" ELSE pc[r]
  BY <1>2
<1> HIDE DEF i
<1> QED
  BY <1>1, <1>3

-----------------------------------------------------------------------------
\* The initial states satisfy the invariant; below, one lemma per action that keeps it
LEMMA InitIInv == Init => IInv
<1> SUFFICES ASSUME Init PROVE IInv
  OBVIOUS
<1>1. TypeOK
  BY RanksAssumption DEF Init, TypeOK, NoRequests, Request, NoMeta, Metadata
<1>2. Requests
  BY DEF Init, Requests, NoneActive, NoRequests
<1>3. Flights /\ Messages
  BY DEF Init, Flights, Messages, NextSent, NextReceived, Sent, Posted, NoRequests
<1>4. Buffers
  BY DEF Init, Buffers, Sent, Posted
<1>5. Layouts /\ Headers
  BY DEF Init, Layouts, Headers, Stale, NoMeta
<1>6. GhostsAreOfThisStage
  BY RanksAssumption DEF Init, GhostsAreOfThisStage, Unpacked
<1> QED
  BY <1>1, <1>2, <1>3, <1>4, <1>5, <1>6 DEF IInv

\* What keeps each part of the invariant while the mesh and the cycle stay
LEMMA FlightsKept ==
  ASSUME IInv, UNCHANGED <<mesh, cycle, flight>>,
         \A s \in Ranks : NextSent(s)' = NextSent(s),
         \A s, d \in Ranks :
           /\ d \in Peers(s) => NextReceived(s, d)' = NextReceived(s, d)
           /\ d \notin Peers(s) => rreq'[d][s] # "active"
           /\ sreq[s][d] = "active" => sreq'[s][d] = "active" \/ SendsCleared(s)
  PROVE  Flights' /\ Messages'
<1>1. \A s \in Ranks : Peers(s)' = Peers(s)
  BY DEF Peers
<1>2. Flights'
  BY <1>1 DEF IInv, Flights
<1>3. Messages'
  <2> SUFFICES ASSUME NEW s \in Ranks, NEW d \in Ranks, NEW k \in 1..Len(flight[s][d])
               PROVE  IF flight[s][d][k].buffered
                      THEN flight[s][d][k].data = Payload(s, d, NextReceived(s, d) + k - 1)'
                      ELSE k = Len(flight[s][d]) /\ sreq'[s][d] = "active"
    BY DEF Messages
  <2>1. d \in Peers(s)
    BY DEF IInv, Flights
  <2>2. Payload(s, d, NextReceived(s, d) + k - 1)' = Payload(s, d, NextReceived(s, d) + k - 1)
    BY <2>1 DEF Payload
  <2>3. flight[s][d][k].buffered \/ ~SendsCleared(s)
    BY DEF IInv, Messages, Requests, NoneActive
  <2> QED
    BY <2>2, <2>3 DEF IInv, Messages
<1> QED
  BY <1>2, <1>3

\* Metadata and headers depend on the control only through who is building
LEMMA LayoutsKept ==
  ASSUME IInv, UNCHANGED <<mesh, seq, meta, header>>,
         \A r \in Ranks : /\ pc'[r] = "meta" <=> pc[r] = "meta"
                          /\ pc'[r] # "irecv" => ~Stale(r)
  PROVE  Layouts' /\ Headers'
<1>1. \A r \in Ranks : Peers(r)' = Peers(r) /\ Stale(r)' = Stale(r) /\ Peers(r) \subseteq Ranks
  BY DEF Peers, Stale
<1>2. Layouts'
  BY <1>1 DEF IInv, Layouts
<1>3. Headers'
  BY <1>1 DEF IInv, Headers
<1> QED
  BY <1>2, <1>3

\* What a rank unpacks, for every ghost zone of its blocks, is what was packed for it
LEMMA UnpackIsPacked ==
  ASSUME IInv, NEW r \in Ranks, RecvAndUnpack(r), NEW l \in LinksInto(mesh, r)
  PROVE  ghost'[r][l] = Packed(l, r)
<1> DEFINE p == mesh.owner[l[1]]
           q == PackOrder(mesh, p, r)
<1>1. p \in Ranks /\ l \in LinksBetween(mesh, p, r) /\ mesh \in Meshes
  <2>1. mesh \in Meshes /\ l \in mesh.links /\ mesh.owner[l[2]] = r
    BY DEF IInv, TypeOK, LinksInto
  <2>2. l \in Link /\ mesh.owner \in [Blocks -> Ranks]
    BY <2>1, MeshesAssumption
  <2> QED
    BY <2>1, <2>2 DEF LinksBetween, Link
<1>2. ghost'[r][l] = IF p = r THEN onrank[r][l] ELSE rbuf[r][p][Place(r, p, l)]
  BY DEF IInv, TypeOK, RecvAndUnpack
<1>3. CASE p = r
  <2>1. Sent(r)
    BY DEF RecvAndUnpack, Sent
  <2>2. onrank[r] = [k \in LinksBetween(mesh, r, r) |-> Packed(k, r)]
    BY <2>1 DEF IInv, Buffers
  <2> QED
    BY <1>1, <1>2, <1>3, <2>2
<1>4. CASE p # r
  <2>1. p \in Peers(r)
    BY <1>1, <1>4, PeersSymmetric DEF Peers
  <2>2. meta[r].in[p] = q /\ rbuf[r][p] = Payload(p, r, stage[r])
    BY <1>1, <2>1 DEF IInv, Layouts, Buffers, RecvAndUnpack, Posted, NoneActive
  <2>3. DOMAIN q = 1..Len(q) /\ \E i \in 1..Len(q) : q[i] = l
    BY <1>1, PackOrderLists
  <2>4. Place(r, p, l) \in 1..Len(q) /\ q[Place(r, p, l)] = l
    BY <2>2, <2>3 DEF Place
  <2> QED
    BY <1>2, <1>4, <2>2, <2>4 DEF Payload, Packed
<1> QED
  BY <1>3, <1>4

\* The handles InitRecv forgets are of completed requests, so no message loses its request
LEMMA InitRecvIInv ==
  ASSUME IInv, NEW r \in Ranks, InitRecv(r)
  PROVE  IInv'
<1>1. /\ pc[r] = "irecv" /\ ~Stale(r)
      /\ \A q \in Ranks : pc'[q] = IF q = r THEN "send" ELSE pc[q]
  BY FollowIs DEF IInv, InitRecv, TypeOK
<1>2. \A q, p \in Ranks :
        /\ rreq'[q][p] = IF q # r THEN rreq[q][p] ELSE IF p \in Peers(r) THEN "active" ELSE "null"
        /\ sreq'[q][p] = IF q # r THEN sreq[q][p] ELSE "null"
  BY DEF IInv, TypeOK, InitRecv, PostReceives, NoRequests
<1>3. TypeOK'
  BY FollowIs DEF IInv, TypeOK, InitRecv, PostReceives, NoRequests, Request
<1>4. Requests'
  BY <1>1, <1>2 DEF IInv, InitRecv, Requests, SendsCleared, RecvsCleared, NoneActive
<1>5. Flights' /\ Messages'
  <2>1. \A s \in Ranks : NextSent(s)' = NextSent(s)
    BY <1>1 DEF NextSent, InitRecv, Sent
  <2>2. ASSUME NEW s \in Ranks, NEW d \in Ranks
        PROVE  /\ d \in Peers(s) => NextReceived(s, d)' = NextReceived(s, d)
               /\ d \notin Peers(s) => rreq'[d][s] # "active"
    <3>1. d \in Peers(s) <=> s \in Peers(d)
      BY PeersSymmetric DEF IInv, TypeOK
    <3>2. d \notin Peers(s) => rreq[d][s] # "active"
      BY DEF IInv, Flights
    <3> QED
      BY <1>1, <1>2, <3>1, <3>2 DEF NextReceived, InitRecv, Posted
  <2> QED
    BY <1>1, <1>2, <2>1, <2>2, FlightsKept DEF InitRecv, SendsCleared
<1>6. Buffers'
  BY <1>1, <1>2 DEF IInv, InitRecv, Buffers, Sent, Posted, Payload, Packed, Peers
<1>7. Layouts' /\ Headers'
  BY <1>1, LayoutsKept DEF IInv, Layouts, InitRecv
<1>8. GhostsAreOfThisStage'
  BY <1>1 DEF IInv, InitRecv, GhostsAreOfThisStage, Unpacked, Packed
<1> QED
  BY <1>3, <1>4, <1>5, <1>6, <1>7, <1>8 DEF IInv

\* Polling only turns completed requests into null ones
LEMMA RecvIncompleteIInv ==
  ASSUME IInv, NEW r \in Ranks, RecvIncomplete(r)
  PROVE  IInv'
<1>1. \A q, p \in Ranks : rreq'[q][p] = "active" <=> rreq[q][p] = "active"
  BY DEF IInv, TypeOK, RecvIncomplete, Tested
<1>2. TypeOK'
  BY DEF IInv, TypeOK, RecvIncomplete, Tested, Request
<1>3. Requests'
  BY <1>1 DEF IInv, RecvIncomplete, Requests, SendsCleared, RecvsCleared, NoneActive
<1>4. Flights' /\ Messages'
  <2>1. \A s, d \in Ranks : NextSent(s)' = NextSent(s) /\ NextReceived(s, d)' = NextReceived(s, d)
    BY <1>1 DEF NextSent, NextReceived, Sent, Posted, RecvIncomplete
  <2>2. \A s, d \in Ranks : d \notin Peers(s) => rreq'[d][s] # "active"
    BY <1>1 DEF IInv, Flights
  <2> QED
    BY <2>1, <2>2, FlightsKept DEF RecvIncomplete
<1>5. Buffers'
  BY <1>1, SMTT(40) DEF IInv, RecvIncomplete, Buffers, Sent, Posted, Payload, Packed, Peers
<1>6. Layouts' /\ Headers'
  BY LayoutsKept DEF IInv, Layouts, RecvIncomplete
<1>7. GhostsAreOfThisStage'
  BY DEF IInv, RecvIncomplete, GhostsAreOfThisStage, Unpacked, Packed
<1> QED
  BY <1>2, <1>3, <1>4, <1>5, <1>6, <1>7 DEF IInv

\* Past ClearSend all messages have left the send buffer
LEMMA ClearSendIInv ==
  ASSUME IInv, NEW r \in Ranks, ClearSend(r)
  PROVE  IInv'
<1>1. /\ pc[r] = "csend" /\ NoneActive(sreq[r])
      /\ \A q \in Ranks : pc'[q] = IF q = r THEN "crecv" ELSE pc[q]
  BY FollowIs DEF IInv, ClearSend, TypeOK
<1>2. \A q, p \in Ranks : sreq'[q][p] = "active" <=> sreq[q][p] = "active"
  BY <1>1 DEF IInv, TypeOK, ClearSend, NoRequests, NoneActive
<1>3. TypeOK'
  BY FollowIs DEF IInv, TypeOK, ClearSend, NoRequests, Request
<1>4. Requests'
  BY <1>1, <1>2 DEF IInv, ClearSend, Requests, SendsCleared, RecvsCleared, NoneActive
<1>5. Flights' /\ Messages'
  <2>1. \A s, d \in Ranks : NextSent(s)' = NextSent(s) /\ NextReceived(s, d)' = NextReceived(s, d)
    BY <1>1 DEF NextSent, NextReceived, Sent, Posted, ClearSend
  <2>2. \A s, d \in Ranks : d \notin Peers(s) => rreq'[d][s] # "active"
    BY DEF IInv, Flights, ClearSend
  <2> QED
    BY <1>2, <2>1, <2>2, FlightsKept DEF ClearSend
<1>6. Buffers'
  BY <1>1 DEF IInv, ClearSend, Buffers, Sent, Posted, Payload, Packed, Peers
<1>7. Layouts' /\ Headers'
  BY <1>1, LayoutsKept DEF IInv, Layouts, ClearSend
<1>8. GhostsAreOfThisStage'
  BY <1>1 DEF IInv, ClearSend, GhostsAreOfThisStage, Unpacked, Packed
<1> QED
  BY <1>3, <1>4, <1>5, <1>6, <1>7, <1>8 DEF IInv

\* Past ClearRecv the message of this stage is there from every peer
LEMMA ClearRecvIInv ==
  ASSUME IInv, NEW r \in Ranks, ClearRecv(r)
  PROVE  IInv'
<1>1. /\ pc[r] = "crecv" /\ NoneActive(rreq[r])
      /\ \A q \in Ranks : pc'[q] = IF q # r THEN pc[q] ELSE IF stage[r] = 0 THEN "recv" ELSE "end"
  BY FollowIs DEF IInv, ClearRecv, TypeOK
<1>2. \A q, p \in Ranks : rreq'[q][p] = "active" <=> rreq[q][p] = "active"
  BY <1>1 DEF IInv, TypeOK, ClearRecv, NoRequests, NoneActive
<1>3. NoneActive(rreq'[r])
  BY <1>1, <1>2 DEF NoneActive
<1>4. TypeOK'
  BY FollowIs DEF IInv, TypeOK, ClearRecv, NoRequests, Request
<1>5. Requests'
  BY <1>1, <1>2, <1>3 DEF IInv, ClearRecv, Requests, SendsCleared, RecvsCleared, NoneActive
<1>6. Flights' /\ Messages'
  <2>1. \A s, d \in Ranks : NextSent(s)' = NextSent(s) /\ NextReceived(s, d)' = NextReceived(s, d)
    BY <1>1, <1>2 DEF NextSent, NextReceived, Sent, Posted, ClearRecv
  <2>2. \A s, d \in Ranks : d \notin Peers(s) => rreq'[d][s] # "active"
    BY <1>2 DEF IInv, Flights
  <2> QED
    BY <2>1, <2>2, FlightsKept DEF ClearRecv
<1>7. Buffers'
  BY <1>1, <1>2 DEF IInv, ClearRecv, Buffers, Sent, Posted, Payload, Packed, Peers
<1>8. Layouts' /\ Headers'
  BY <1>1, LayoutsKept DEF IInv, Layouts, ClearRecv
<1>9. GhostsAreOfThisStage'
  BY <1>1 DEF IInv, ClearRecv, GhostsAreOfThisStage, Unpacked, Packed
<1> QED
  BY <1>4, <1>5, <1>6, <1>7, <1>8, <1>9 DEF IInv

\* The stages sent and received up to here are those before the next one
LEMMA NextStageIInv ==
  ASSUME IInv, NEW r \in Ranks, NextStage(r)
  PROVE  IInv'
<1>1. /\ pc[r] = "end" /\ stage[r] \in Nat
      /\ \A q \in Ranks : /\ pc'[q] = IF q = r THEN "irecv" ELSE pc[q]
                          /\ stage'[q] = IF q = r THEN stage[r] + 1 ELSE stage[q]
  BY DEF IInv, NextStage, TypeOK
<1>2. TypeOK'
  BY RanksAssumption DEF IInv, TypeOK, NextStage
<1>3. NoneActive(sreq[r]) /\ NoneActive(rreq[r])
  BY <1>1 DEF IInv, Requests, SendsCleared, RecvsCleared
<1>4. Requests'
  BY <1>1, <1>3 DEF IInv, NextStage, Requests, SendsCleared, RecvsCleared
<1>5. Flights' /\ Messages'
  <2>1. \A s, d \in Ranks : NextSent(s)' = NextSent(s) /\ NextReceived(s, d)' = NextReceived(s, d)
    BY <1>1, <1>3 DEF NextSent, NextReceived, Sent, Posted, NextStage, NoneActive
  <2>2. \A s, d \in Ranks : d \notin Peers(s) => rreq'[d][s] # "active"
    BY DEF IInv, Flights, NextStage
  <2> QED
    BY <2>1, <2>2, FlightsKept DEF NextStage
<1>6. Buffers'
  <2> SUFFICES ASSUME NEW q \in Ranks, Posted(q)'
               PROVE  /\ Sent(q) => onrank[q] = [l \in LinksBetween(mesh, q, q) |-> Packed(l, q)']
                      /\ \A p \in Peers(q) :
                           /\ Sent(q) => sbuf[q][p] = Payload(q, p, stage'[q])
                           /\ rreq[q][p] # "active" => rbuf[q][p] = Payload(p, q, stage'[q])
    BY <1>1 DEF NextStage, Buffers, Sent, Posted, Payload, Peers
  <2>1. q # r /\ Posted(q) /\ stage'[q] = stage[q] /\ cycle' = cycle
    BY <1>1 DEF Posted, NextStage
  <2> QED
    BY <2>1 DEF IInv, Buffers, Packed
<1>7. Layouts' /\ Headers'
  BY <1>1, LayoutsKept DEF IInv, Layouts, NextStage
<1>8. GhostsAreOfThisStage'
  BY <1>1 DEF IInv, NextStage, GhostsAreOfThisStage, Unpacked, Packed
<1> QED
  BY <1>2, <1>4, <1>5, <1>6, <1>7, <1>8 DEF IInv

\* Unpacking fills the ghost zones
LEMMA RecvAndUnpackIInv ==
  ASSUME IInv, NEW r \in Ranks, RecvAndUnpack(r)
  PROVE  IInv'
<1>1. /\ pc[r] = "recv" /\ NoneActive(rreq[r])
      /\ \A q \in Ranks : pc'[q] = IF q # r THEN pc[q] ELSE IF stage[r] = 0 THEN "end" ELSE "csend"
  BY FollowIs DEF IInv, RecvAndUnpack, TypeOK
<1>2. \A q, p \in Ranks : rreq'[q][p] = "active" <=> rreq[q][p] = "active"
  BY <1>1 DEF IInv, TypeOK, RecvAndUnpack, Tested
<1>3. NoneActive(rreq'[r])
  BY <1>1, <1>2 DEF NoneActive
<1>4. TypeOK'
  BY FollowIs DEF IInv, TypeOK, RecvAndUnpack, Tested, Request
<1>5. Requests'
  BY <1>1, <1>2, <1>3 DEF IInv, RecvAndUnpack, Requests, SendsCleared, RecvsCleared, NoneActive
<1>6. Flights' /\ Messages'
  <2>1. \A s, d \in Ranks : NextSent(s)' = NextSent(s) /\ NextReceived(s, d)' = NextReceived(s, d)
    BY <1>1, <1>2 DEF NextSent, NextReceived, Sent, Posted, RecvAndUnpack
  <2>2. \A s, d \in Ranks : d \notin Peers(s) => rreq'[d][s] # "active"
    BY <1>2 DEF IInv, Flights
  <2> QED
    BY <2>1, <2>2, FlightsKept DEF RecvAndUnpack
<1>7. Buffers'
  BY <1>1, <1>2 DEF IInv, RecvAndUnpack, Buffers, Sent, Posted, Payload, Packed, Peers
<1>8. Layouts' /\ Headers'
  BY <1>1, LayoutsKept DEF IInv, Layouts, RecvAndUnpack
<1>9. \A l \in LinksInto(mesh, r) : ghost'[r][l] = Packed(l, r)
  BY UnpackIsPacked
<1>10. GhostsAreOfThisStage'
  <2>1. mesh' = mesh /\ stage' = stage /\ \A l, q : Packed(l, q)' = Packed(l, q)
    BY DEF RecvAndUnpack, Packed
  <2> SUFFICES ASSUME NEW q \in Ranks, Unpacked(q)', NEW l \in LinksInto(mesh, q)
               PROVE  ghost'[q][l] = Packed(l, q)
    BY <2>1 DEF GhostsAreOfThisStage, LinksInto
  <2>2. CASE q = r
    BY <1>9, <2>2
  <2>3. CASE q # r
    <3>1. ghost'[q] = ghost[q] /\ pc'[q] = pc[q]
      BY <1>1, <2>3 DEF IInv, TypeOK, RecvAndUnpack
    <3>2. Unpacked(q)
      BY <2>1, <3>1 DEF Unpacked
    <3> QED
      BY <3>1, <3>2 DEF IInv, GhostsAreOfThisStage
  <2> QED
    BY <2>2, <2>3
<1> QED
  BY <1>4, <1>5, <1>6, <1>7, <1>8, <1>10 DEF IInv

\* The buffers are free to be reallocated, and no peer can have completed its metadata
\* before this header is sent
LEMMA StartBuildIInv ==
  ASSUME IInv, NEW r \in Ranks, StartBuild(r)
  PROVE  IInv'
<1>1. /\ pc[r] = "irecv" /\ Stale(r) /\ mesh \in Meshes
      /\ \A q \in Ranks : pc'[q] = IF q = r THEN "meta" ELSE pc[q]
  BY DEF IInv, StartBuild, TypeOK
<1> DEFINE out == [p \in Ranks |-> IF p = r THEN <<>> ELSE PackOrder(mesh, r, p)]
<1>2. /\ meta' = [meta EXCEPT ![r] = [NoMeta EXCEPT !.seq = seq, !.out = out]]
      /\ header' = [header EXCEPT ![r] =
                      [p \in Ranks |-> IF p \in Peers(r) THEN Append(header[r][p], out[p]) ELSE header[r][p]]]
  BY DEF IInv, TypeOK, StartBuild
<1>3. out \in [Ranks -> Seq(Link)]
  BY <1>1, PackOrderLists
<1> HIDE DEF out
<1>4. meta'[r] = [seq |-> seq, out |-> out, in |-> [p \in Ranks |-> <<>>]]
  BY <1>2 DEF NoMeta, IInv, TypeOK
<1>5. TypeOK'
  <2>1. meta' \in [Ranks -> Metadata]
    <3>1. meta'[r] \in Metadata
      BY <1>3, <1>4 DEF IInv, TypeOK, Metadata
    <3> QED
      BY <1>2, <3>1 DEF IInv, TypeOK
  <2>2. header' \in [Ranks -> [Ranks -> Seq(Seq(Link))]]
    <3> DEFINE h == [p \in Ranks |-> IF p \in Peers(r) THEN Append(header[r][p], out[p]) ELSE header[r][p]]
    <3>1. ASSUME NEW p \in Ranks
          PROVE  h[p] \in Seq(Seq(Link))
      <4>1. header[r][p] \in Seq(Seq(Link)) /\ out[p] \in Seq(Link)
        BY <1>3 DEF IInv, TypeOK
      <4>2. Append(header[r][p], out[p]) \in Seq(Seq(Link))
        BY <4>1, AppendProperties
      <4> QED
        BY <4>1, <4>2
    <3>2. h \in [Ranks -> Seq(Seq(Link))]
      BY <3>1
    <3> HIDE DEF h
    <3>3. header' = [header EXCEPT ![r] = h]
      BY <1>2 DEF h
    <3> QED
      BY <3>2, <3>3 DEF IInv, TypeOK
  <2>3. sbuf' \in [Ranks -> [Ranks -> Seq(Item)]] /\ rbuf' \in [Ranks -> [Ranks -> Seq(Item)]]
    BY <1>1, ZerosType DEF IInv, TypeOK, StartBuild
  <2> QED
    BY <2>1, <2>2, <2>3 DEF IInv, TypeOK, StartBuild
<1>6. Requests'
  BY <1>1 DEF IInv, StartBuild, Requests, SendsCleared, RecvsCleared, NoneActive
<1>7. Flights' /\ Messages'
  <2>1. \A s, d \in Ranks : NextSent(s)' = NextSent(s) /\ NextReceived(s, d)' = NextReceived(s, d)
    BY <1>1 DEF NextSent, NextReceived, Sent, Posted, StartBuild
  <2>2. \A s, d \in Ranks : d \notin Peers(s) => rreq'[d][s] # "active"
    BY DEF IInv, Flights, StartBuild
  <2> QED
    BY <2>1, <2>2, FlightsKept DEF StartBuild
<1>8. Buffers'
  <2> SUFFICES ASSUME NEW q \in Ranks, Posted(q)'
               PROVE  /\ Sent(q) => onrank[q] = [l \in LinksBetween(mesh, q, q) |-> Packed(l, q)']
                      /\ \A p \in Peers(q) :
                           /\ Sent(q) => sbuf'[q][p] = Payload(q, p, stage[q])
                           /\ rreq[q][p] # "active" => rbuf'[q][p] = Payload(p, q, stage[q])
    BY <1>1, SMTT(40) DEF StartBuild, Buffers, Sent, Posted, Payload, Peers
  <2>1. q # r /\ Posted(q) /\ stage' = stage /\ cycle' = cycle /\ sbuf'[q] = sbuf[q] /\ rbuf'[q] = rbuf[q]
    BY <1>1 DEF IInv, TypeOK, Posted, StartBuild
  <2> QED
    BY <2>1 DEF IInv, Buffers, Packed
<1>9. /\ \A q \in Ranks : Peers(q)' = Peers(q) /\ q \notin Peers(q)
      /\ \A q \in Ranks \ {r} : Stale(q)' = Stale(q) /\ meta'[q] = meta[q] /\ header'[q] = header[q]
      /\ ~Stale(r)' /\ meta'[r].seq = seq
      /\ \A p \in Peers(r) : meta'[r].out[p] = PackOrder(mesh, r, p)
  BY <1>2, <1>4 DEF IInv, TypeOK, StartBuild, Peers, Stale, out
<1>10. Layouts'
  <2> SUFFICES ASSUME NEW q \in Ranks
               PROVE  /\ meta'[q].seq <= seq
                      /\ pc'[q] # "irecv" => ~Stale(q)'
                      /\ \A p \in Peers(q) :
                          /\ ~Stale(q)' => meta'[q].out[p] = PackOrder(mesh, q, p)
                          /\ ~Stale(q)' /\ pc'[q] # "meta" =>
                               ~Stale(p)' /\ meta'[q].in[p] = PackOrder(mesh, p, q)
    BY <1>9 DEF Layouts, StartBuild, Peers
  <2>1. CASE q = r
    BY <1>1, <1>9, <2>1 DEF IInv, TypeOK
  <2>2. CASE q # r
    BY <1>1, <1>9, <2>2 DEF IInv, Layouts, Peers
  <2> QED
    BY <2>1, <2>2
<1>11. Headers'
  <2> SUFFICES ASSUME NEW s \in Ranks, NEW d \in Ranks
               PROVE  header'[s][d] =
                        IF d \in Peers(s) /\ ~Stale(s)' /\ (Stale(d)' \/ pc'[d] = "meta")
                        THEN <<PackOrder(mesh, s, d)>> ELSE <<>>
    BY <1>9 DEF Headers, StartBuild
  <2>1. CASE s = r
    <3>1. header[r][d] = <<>>
      BY <1>1 DEF IInv, Headers
    <3>2. d \in Peers(r) => d # r /\ (Stale(d) \/ pc[d] = "meta")
      BY <1>1, PeersSymmetric DEF IInv, Layouts, Peers
    <3>3. header'[r][d] = IF d \in Peers(r) THEN Append(<<>>, out[d]) ELSE <<>>
      BY <1>2, <3>1 DEF IInv, TypeOK
    <3>4. d \in Peers(r) => out[d] = PackOrder(mesh, r, d)
      BY <3>2 DEF out
    <3> QED
      BY <1>1, <1>9, <2>1, <3>2, <3>3, <3>4
  <2>2. CASE s # r
    BY <1>1, <1>9, <2>2 DEF IInv, Headers
  <2> QED
    BY <2>1, <2>2
<1>12. GhostsAreOfThisStage'
  BY <1>1 DEF IInv, StartBuild, GhostsAreOfThisStage, Unpacked, Packed
<1> QED
  BY <1>5, <1>6, <1>7, <1>8, <1>10, <1>11, <1>12 DEF IInv

\* The header taken is the one of this mesh
LEMMA FinishBuildIInv ==
  ASSUME IInv, NEW r \in Ranks, FinishBuild(r)
  PROVE  IInv'
<1>1. /\ pc[r] = "meta" /\ ~Stale(r) /\ mesh \in Meshes
      /\ \A q \in Ranks : pc'[q] = IF q = r THEN "send" ELSE pc[q]
  BY FollowIs DEF IInv, FinishBuild, TypeOK, Layouts
<1>2. \A q, p \in Ranks :
        /\ rreq'[q][p] = IF q # r THEN rreq[q][p] ELSE IF p \in Peers(r) THEN "active" ELSE "null"
        /\ sreq'[q][p] = IF q # r THEN sreq[q][p] ELSE "null"
  BY DEF IInv, TypeOK, FinishBuild, PostReceives, NoRequests
<1>3. \A p \in Peers(r) : /\ ~Stale(p) /\ p \in Ranks /\ p # r /\ r \in Peers(p)
                          /\ header[p][r] = <<PackOrder(mesh, p, r)>>
  BY <1>1, PeersSymmetric DEF FinishBuild, IInv, Headers, Peers
<1> DEFINE heads == [p \in Ranks |-> IF p \in Peers(r) THEN Head(header[p][r]) ELSE <<>>]
<1>4. meta' = [meta EXCEPT ![r].in = heads]
  BY DEF FinishBuild
<1>5. heads \in [Ranks -> Seq(Link)] /\ \A p \in Peers(r) : heads[p] = PackOrder(mesh, p, r)
  BY <1>1, <1>3, PackOrderLists
<1> HIDE DEF heads
<1>6. ASSUME NEW s \in Ranks, NEW d \in Ranks
      PROVE  header'[s][d] = IF s \in Peers(r) /\ d = r THEN <<>> ELSE header[s][d]
  <2>1. header'[s] = IF s \in Peers(r) THEN [header[s] EXCEPT ![r] = Tail(header[s][r])] ELSE header[s]
    BY DEF IInv, TypeOK, FinishBuild
  <2>2. header[s] \in [Ranks -> Seq(Seq(Link))]
    BY DEF IInv, TypeOK
  <2>3. s \in Peers(r) => Tail(header[s][r]) = <<>>
    BY <1>3, TailOfOne
  <2> QED
    BY <2>1, <2>2, <2>3
<1>7. TypeOK'
  <2>1. meta' \in [Ranks -> Metadata]
    <3>1. meta \in [Ranks -> Metadata]
      BY DEF IInv, TypeOK
    <3> QED
      BY <1>4, <1>5, <3>1 DEF Metadata
  <2>2. header' \in [Ranks -> [Ranks -> Seq(Seq(Link))]]
    <3>1. header' = [s \in Ranks |-> header'[s]]
      BY DEF IInv, TypeOK, FinishBuild
    <3>2. \A s, d \in Ranks : header'[s][d] \in Seq(Seq(Link))
      <4>1. \A s, d \in Ranks : header[s][d] \in Seq(Seq(Link))
        BY DEF IInv, TypeOK
      <4>2. <<>> \in Seq(Seq(Link))
        OBVIOUS
      <4> QED
        BY <1>6, <4>1, <4>2
    <3>3. \A s \in Ranks : header'[s] = [d \in Ranks |-> header'[s][d]]
      BY DEF IInv, TypeOK, FinishBuild
    <3> QED
      BY <3>1, <3>2, <3>3
  <2> QED
    BY <2>1, <2>2, FollowIs DEF IInv, TypeOK, FinishBuild, PostReceives, NoRequests, Request
<1>8. Requests'
  BY <1>1, <1>2 DEF IInv, FinishBuild, Requests, SendsCleared, RecvsCleared, NoneActive
<1>9. Flights' /\ Messages'
  <2>1. \A s \in Ranks : NextSent(s)' = NextSent(s)
    BY <1>1 DEF NextSent, FinishBuild, Sent
  <2>2. ASSUME NEW s \in Ranks, NEW d \in Ranks
        PROVE  /\ d \in Peers(s) => NextReceived(s, d)' = NextReceived(s, d)
               /\ d \notin Peers(s) => rreq'[d][s] # "active"
    <3>1. d \in Peers(s) <=> s \in Peers(d)
      BY PeersSymmetric DEF IInv, TypeOK
    <3>2. d \notin Peers(s) => rreq[d][s] # "active"
      BY DEF IInv, Flights
    <3> QED
      BY <1>1, <1>2, <3>1, <3>2 DEF NextReceived, FinishBuild, Posted
  <2> QED
    BY <1>1, <1>2, <2>1, <2>2, FlightsKept DEF FinishBuild, SendsCleared
<1>10. Buffers'
  <2> SUFFICES ASSUME NEW q \in Ranks
               PROVE  /\ Sent(q)' => onrank[q] = [l \in LinksBetween(mesh, q, q) |-> Packed(l, q)]
                      /\ \A p \in Peers(q) :
                           /\ Sent(q)' => sbuf[q][p] = Payload(q, p, stage[q])
                           /\ Posted(q)' /\ rreq'[q][p] # "active" => rbuf[q][p] = Payload(p, q, stage[q])
    BY SMTT(40) DEF FinishBuild, Buffers, Sent, Posted, Payload, Packed, Peers
  <2>1. CASE q = r
    BY <1>1, <1>2, <2>1 DEF Sent, Peers
  <2>2. CASE q # r
    BY <1>1, <1>2, <2>2 DEF IInv, Buffers, Sent, Posted, Peers
  <2> QED
    BY <2>1, <2>2
<1>11. /\ \A q \in Ranks : Peers(q)' = Peers(q) /\ (Stale(q)' <=> Stale(q))
       /\ \A q \in Ranks : meta'[q].seq = meta[q].seq /\ meta'[q].out = meta[q].out
       /\ \A q \in Ranks : meta'[q].in = IF q = r THEN heads ELSE meta[q].in
  <2>1. \A q \in Ranks : meta'[q] = IF q = r THEN [meta[r] EXCEPT !.in = heads] ELSE meta[q]
    BY <1>4 DEF IInv, TypeOK
  <2>2. meta[r] \in Metadata
    BY DEF IInv, TypeOK
  <2>3. \A q \in Ranks : /\ meta'[q].seq = meta[q].seq /\ meta'[q].out = meta[q].out
                         /\ meta'[q].in = IF q = r THEN heads ELSE meta[q].in
    BY <2>1, <2>2 DEF Metadata
  <2> QED
    BY <2>3 DEF FinishBuild, Peers, Stale
<1>12. Layouts'
  <2> SUFFICES ASSUME NEW q \in Ranks
               PROVE  /\ meta'[q].seq <= seq
                      /\ pc'[q] # "irecv" => ~Stale(q)
                      /\ \A p \in Peers(q) :
                          /\ ~Stale(q) => meta'[q].out[p] = PackOrder(mesh, q, p)
                          /\ ~Stale(q) /\ pc'[q] # "meta" =>
                               ~Stale(p) /\ meta'[q].in[p] = PackOrder(mesh, p, q)
    BY <1>11 DEF Layouts, FinishBuild, Peers
  <2>1. CASE q = r
    BY <1>1, <1>3, <1>5, <1>11, <2>1 DEF IInv, Layouts
  <2>2. CASE q # r
    BY <1>1, <1>11, <2>2 DEF IInv, Layouts
  <2> QED
    BY <2>1, <2>2
<1>13. Headers'
  <2> SUFFICES ASSUME NEW s \in Ranks, NEW d \in Ranks
               PROVE  header'[s][d] =
                        IF d \in Peers(s) /\ ~Stale(s) /\ (Stale(d) \/ pc'[d] = "meta")
                        THEN <<PackOrder(mesh, s, d)>> ELSE <<>>
    BY <1>11 DEF Headers, FinishBuild
  <2>1. d \in Peers(s) <=> s \in Peers(d)
    BY PeersSymmetric DEF IInv, TypeOK
  <2>2. header[s][d] = IF d \in Peers(s) /\ ~Stale(s) /\ (Stale(d) \/ pc[d] = "meta")
                       THEN <<PackOrder(mesh, s, d)>> ELSE <<>>
    BY DEF IInv, Headers
  <2> QED
    BY <1>1, <1>6, <2>1, <2>2
<1>14. GhostsAreOfThisStage'
  BY <1>1 DEF IInv, FinishBuild, GhostsAreOfThisStage, Unpacked, Packed
<1> QED
  BY <1>7, <1>8, <1>9, <1>10, <1>12, <1>13, <1>14 DEF IInv

\* The send buffer is free, and the message is that of the next stage of the pair
LEMMA PackAndSendIInv ==
  ASSUME IInv, NEW r \in Ranks, PackAndSend(r)
  PROVE  IInv'
<1>1. /\ pc[r] = "send" /\ ~Stale(r) /\ mesh \in Meshes /\ stage[r] \in Nat
      /\ \A q \in Ranks : pc'[q] = IF q # r THEN pc[q] ELSE IF stage[r] = 0 THEN "csend" ELSE "recv"
  BY FollowIs DEF IInv, PackAndSend, TypeOK, Layouts
<1>2. \A s, d \in Ranks :
        sreq'[s][d] = IF s # r THEN sreq[s][d] ELSE IF d \in Peers(r) THEN "active" ELSE "null"
  BY DEF IInv, TypeOK, PackAndSend
<1> DEFINE new == [buffered |-> FALSE, data |-> <<>>]
<1>3. \A s, d \in Ranks :
        flight'[s][d] = IF s = r /\ d \in Peers(r) THEN Append(flight[s][d], new) ELSE flight[s][d]
  BY DEF IInv, TypeOK, PackAndSend
<1>4. new \in Message /\ new.buffered = FALSE
  BY DEF Message
<1> HIDE DEF new
<1>5. ASSUME NEW s \in Ranks, NEW d \in Ranks
      PROVE  flight'[s][d] \in Seq(Message)
  <2>1. flight[s][d] \in Seq(Message)
    BY DEF IInv, TypeOK
  <2>2. Append(flight[s][d], new) \in Seq(Message)
    BY <1>4, <2>1, AppendProperties
  <2> QED
    BY <1>3, <2>1, <2>2
<1>6. \A q \in Ranks : Peers(q)' = Peers(q) /\ Peers(q) \subseteq Ranks /\ q \notin Peers(q)
  BY DEF PackAndSend, Peers
<1> DEFINE packed == [p \in Ranks |-> [i \in DOMAIN meta[r].out[p] |-> Packed(meta[r].out[p][i], r)]]
<1>7. sbuf' = [sbuf EXCEPT ![r] = packed]
  BY DEF PackAndSend
<1>8. packed \in [Ranks -> Seq(Item)]
  <2> SUFFICES ASSUME NEW p \in Ranks
               PROVE  [i \in DOMAIN meta[r].out[p] |-> Packed(meta[r].out[p][i], r)] \in Seq(Item)
    OBVIOUS
  <2> DEFINE q == meta[r].out[p]
  <2>1. q \in Seq(Link) /\ cycle \in Nat
    BY DEF IInv, TypeOK, Metadata
  <2> HIDE DEF q
  <2>2. [i \in 1..Len(q) |-> [link |-> q[i], cycle |-> cycle, stage |-> stage[r]]] \in Seq(Item)
    BY <1>1, <2>1 DEF Item
  <2> QED
    BY <2>1, <2>2 DEF Packed, q
<1>9. \A p \in Peers(r) : packed[p] = Payload(r, p, stage[r])
  <2> SUFFICES ASSUME NEW p \in Peers(r)
               PROVE  packed[p] = Payload(r, p, stage[r])
    OBVIOUS
  <2>1. meta[r].out[p] = PackOrder(mesh, r, p) /\ p \in Ranks
    BY <1>1, <1>6 DEF IInv, Layouts
  <2>2. DOMAIN PackOrder(mesh, r, p) = 1..Len(PackOrder(mesh, r, p))
    BY <1>1, <2>1, PackOrderLists
  <2> QED
    BY <2>1, <2>2 DEF Payload, Packed
<1> HIDE DEF packed
<1>10. TypeOK'
  <2>1. flight' \in [Ranks -> [Ranks -> Seq(Message)]]
    <3>1. flight' = [s \in Ranks |-> flight'[s]] /\ \A s \in Ranks : flight'[s] = [d \in Ranks |-> flight'[s][d]]
      BY DEF IInv, TypeOK, PackAndSend
    <3> QED
      BY <1>5, <3>1
  <2>2. sbuf' \in [Ranks -> [Ranks -> Seq(Item)]]
    BY <1>7, <1>8 DEF IInv, TypeOK
  <2> QED
    BY <2>1, <2>2, FollowIs DEF IInv, TypeOK, PackAndSend, Request
<1>11. Requests'
  BY <1>1, <1>2 DEF IInv, PackAndSend, Requests, SendsCleared, RecvsCleared, NoneActive
<1>12. \A s, d \in Ranks : NextReceived(s, d)' = NextReceived(s, d)
  BY <1>1 DEF NextReceived, Posted, PackAndSend
<1>13. \A s \in Ranks : NextSent(s)' = IF s = r THEN NextSent(s) + 1 ELSE NextSent(s)
  BY <1>1 DEF NextSent, Sent, PackAndSend
<1>14. ASSUME NEW s \in Ranks, NEW d \in Ranks
       PROVE  /\ Len(flight[s][d]) \in Nat
              /\ s = r /\ d \in Peers(r) =>
                   /\ Len(flight'[s][d]) = Len(flight[s][d]) + 1
                   /\ \A k \in 1..Len(flight[s][d]) : flight'[s][d][k] = flight[s][d][k]
                   /\ flight'[s][d][Len(flight[s][d]) + 1] = new
              /\ s # r \/ d \notin Peers(r) => flight'[s][d] = flight[s][d]
  <2>1. flight[s][d] \in Seq(Message)
    BY DEF IInv, TypeOK
  <2>2. /\ Len(Append(flight[s][d], new)) = Len(flight[s][d]) + 1
        /\ \A k \in 1..Len(flight[s][d]) : Append(flight[s][d], new)[k] = flight[s][d][k]
        /\ Append(flight[s][d], new)[Len(flight[s][d]) + 1] = new
    BY <1>4, <2>1, AppendProperties
  <2> QED
    BY <1>3, <2>1, <2>2, LenProperties
<1>15. Flights'
  <2> SUFFICES ASSUME NEW s \in Ranks, NEW d \in Ranks
               PROVE  IF d \in Peers(s) THEN Len(flight'[s][d]) = NextSent(s)' - NextReceived(s, d)
                      ELSE flight'[s][d] = <<>> /\ rreq[d][s] # "active"
    BY <1>6, <1>12 DEF Flights, PackAndSend
  <2>1. NextSent(s) \in Nat /\ NextReceived(s, d) \in Nat
    <3>1. \A q \in Ranks : stage[q] \in Nat
      BY DEF IInv, TypeOK
    <3> QED
      BY <3>1 DEF NextSent, NextReceived
  <2> QED
    BY <1>13, <1>14, <2>1 DEF IInv, Flights
<1>16. Messages'
  <2> SUFFICES ASSUME NEW s \in Ranks, NEW d \in Ranks, NEW k \in 1..Len(flight'[s][d])
               PROVE  IF flight'[s][d][k].buffered
                      THEN flight'[s][d][k].data = Payload(s, d, NextReceived(s, d) + k - 1)'
                      ELSE k = Len(flight'[s][d]) /\ sreq'[s][d] = "active"
    BY DEF Messages
  <2>0. Payload(s, d, NextReceived(s, d) + k - 1)' = Payload(s, d, NextReceived(s, d) + k - 1)
    BY <1>12 DEF Payload, PackAndSend
  <2>1. CASE s = r /\ d \in Peers(r)
    <3>1. CASE k = Len(flight[s][d]) + 1
      BY <1>2, <1>14, <2>1, <3>1 DEF new
    <3>2. CASE k # Len(flight[s][d]) + 1
      <4>1. k \in 1..Len(flight[s][d]) /\ flight'[s][d][k] = flight[s][d][k]
        BY <1>14, <2>1, <3>2
      <4>2. sreq[s][d] # "active"
        BY <1>1, <2>1 DEF IInv, Requests, SendsCleared, NoneActive
      <4> QED
        BY <2>0, <4>1, <4>2 DEF IInv, Messages
    <3> QED
      BY <3>1, <3>2
  <2>2. CASE s # r
    <3>1. flight'[s][d] = flight[s][d] /\ sreq'[s][d] = sreq[s][d]
      BY <1>2, <1>14, <2>2
    <3> QED
      BY <2>0, <3>1 DEF IInv, Messages
  <2>3. CASE s = r /\ d \notin Peers(r)
    <3>1. flight'[s][d] = <<>>
      BY <1>14, <2>3 DEF IInv, Flights
    <3> QED
      BY <3>1
  <2> QED
    BY <2>1, <2>2, <2>3
<1>17. Buffers'
  <2> SUFFICES ASSUME NEW q \in Ranks
               PROVE  /\ Sent(q)' => onrank'[q] = [l \in LinksBetween(mesh, q, q) |-> Packed(l, q)]
                      /\ \A p \in Peers(q) :
                           /\ Sent(q)' => sbuf'[q][p] = Payload(q, p, stage[q])
                           /\ Posted(q)' /\ rreq[q][p] # "active" => rbuf[q][p] = Payload(p, q, stage[q])
    <3>1. UNCHANGED <<mesh, cycle, stage, rreq, rbuf>>
      BY DEF PackAndSend
    <3> QED
      BY <1>6, <3>1 DEF Buffers, Sent, Posted, Payload, Packed
  <2>1. CASE q = r
    <3>1. onrank'[r] = [l \in LinksBetween(mesh, r, r) |-> Packed(l, r)]
      BY DEF IInv, TypeOK, PackAndSend
    <3>2. sbuf'[r] = packed
      BY <1>7 DEF IInv, TypeOK
    <3>3. Posted(r)
      BY <1>1 DEF Posted
    <3> QED
      BY <1>9, <2>1, <3>1, <3>2, <3>3 DEF IInv, Buffers
  <2>2. CASE q # r
    <3>1. onrank'[q] = onrank[q] /\ sbuf'[q] = sbuf[q]
      BY <2>2 DEF IInv, TypeOK, PackAndSend
    <3> QED
      BY <1>1, <2>2, <3>1 DEF IInv, Buffers, Sent, Posted
  <2> QED
    BY <2>1, <2>2
<1>18. Layouts' /\ Headers'
  BY <1>1, LayoutsKept DEF IInv, Layouts, PackAndSend
<1>19. GhostsAreOfThisStage'
  BY <1>1 DEF IInv, PackAndSend, GhostsAreOfThisStage, Unpacked, Packed
<1> QED
  BY <1>10, <1>11, <1>15, <1>16, <1>17, <1>18, <1>19 DEF IInv

\* A message still in the send buffer is the last one sent, and the buffer holds the
\* payload of its stage
LEMMA UnbufferedIsLast ==
  ASSUME IInv, NEW s \in Ranks, NEW d \in Ranks, NEW k \in 1..Len(flight[s][d]),
         ~flight[s][d][k].buffered
  PROVE  /\ k = Len(flight[s][d]) /\ sreq[s][d] = "active"
         /\ d \in Peers(s)
         /\ sbuf[s][d] = Payload(s, d, NextReceived(s, d) + k - 1)
<1>1. k = Len(flight[s][d]) /\ sreq[s][d] = "active" /\ d \in Peers(s)
  BY DEF IInv, Messages, Flights
<1>2. ~SendsCleared(s)
  BY <1>1 DEF IInv, Requests, NoneActive
<1>3. Sent(s) /\ stage[s] \in Nat /\ stage[d] \in Nat
  BY <1>2 DEF IInv, TypeOK, SendsCleared, Sent
<1>4. stage[s] = NextReceived(s, d) + k - 1
  <2>1. Len(flight[s][d]) = NextSent(s) - NextReceived(s, d)
    BY <1>1 DEF IInv, Flights
  <2>2. NextSent(s) = stage[s] + 1 /\ NextReceived(s, d) \in Nat
    BY <1>3 DEF NextSent, NextReceived
  <2> QED
    BY <1>1, <1>3, <2>1, <2>2
<1> QED
  BY <1>1, <1>3, <1>4 DEF IInv, Buffers

\* MPI copies the payload of the stage, and completes the request of that send
LEMMA BufferIInv ==
  ASSUME IInv, NEW s \in Ranks, NEW d \in Ranks, Buffer(s, d)
  PROVE  IInv'
<1>1. PICK k \in 1..Len(flight[s][d]) :
        /\ ~flight[s][d][k].buffered
        /\ flight' = [flight EXCEPT ![s][d][k] = [buffered |-> TRUE, data |-> sbuf[s][d]]]
        /\ sreq' = Completed(s, d, k)
  BY DEF Buffer
<1>2. /\ k = Len(flight[s][d]) /\ sreq[s][d] = "active" /\ d \in Peers(s)
      /\ sbuf[s][d] = Payload(s, d, NextReceived(s, d) + k - 1)
  BY <1>1, UnbufferedIsLast
<1> DEFINE new == [buffered |-> TRUE, data |-> sbuf[s][d]]
<1>3. new \in Message /\ new.buffered /\ new.data = sbuf[s][d]
  BY DEF IInv, TypeOK, Message
<1>4. flight' = [flight EXCEPT ![s] = [flight[s] EXCEPT ![d] = [flight[s][d] EXCEPT ![k] = new]]]
  BY <1>1
<1> HIDE DEF new
<1>5. flight[s][d] \in Seq(Message) /\ flight[s] \in [Ranks -> Seq(Message)]
  BY DEF IInv, TypeOK
<1>6. /\ [flight[s][d] EXCEPT ![k] = new] \in Seq(Message)
      /\ Len([flight[s][d] EXCEPT ![k] = new]) = Len(flight[s][d])
      /\ \A j \in 1..Len(flight[s][d]) :
           [flight[s][d] EXCEPT ![k] = new][j] = IF j = k THEN new ELSE flight[s][d][j]
  BY <1>3, <1>5, ExceptSeq
<1>7. /\ \A a, b \in Ranks : ~(a = s /\ b = d) => flight'[a][b] = flight[a][b]
      /\ flight'[s][d] = [flight[s][d] EXCEPT ![k] = new]
  BY <1>4 DEF IInv, TypeOK
<1>8. sreq' = [sreq EXCEPT ![s][d] = "done"]
  BY <1>1, <1>2 DEF Completed
<1>9. \A a, b \in Ranks : sreq'[a][b] = IF a = s /\ b = d THEN "done" ELSE sreq[a][b]
  BY <1>8 DEF IInv, TypeOK
<1>10. UNCHANGED <<mesh, seq, cycle, stage, pc, meta, header, sbuf, rreq, rbuf, onrank, ghost>>
  BY DEF Buffer
<1>11. TypeOK'
  <2>1. flight' \in [Ranks -> [Ranks -> Seq(Message)]]
    BY <1>4, <1>6 DEF IInv, TypeOK
  <2>2. sreq' \in [Ranks -> [Ranks -> Request]]
    BY <1>8 DEF IInv, TypeOK, Request
  <2> QED
    BY <1>10, <2>1, <2>2 DEF IInv, TypeOK
<1>12. Requests'
  BY <1>9, <1>10 DEF IInv, Requests, SendsCleared, RecvsCleared, NoneActive
<1>13. \A a, b \in Ranks : /\ NextReceived(a, b)' = NextReceived(a, b) /\ NextSent(a)' = NextSent(a)
                           /\ Peers(a)' = Peers(a)
  BY <1>10 DEF NextReceived, NextSent, Posted, Sent, Peers
<1>14. Flights'
  BY <1>2, <1>6, <1>7, <1>10, <1>13 DEF IInv, Flights
<1>15. Messages'
  <2> SUFFICES ASSUME NEW a \in Ranks, NEW b \in Ranks, NEW j \in 1..Len(flight'[a][b])
               PROVE  IF flight'[a][b][j].buffered
                      THEN flight'[a][b][j].data = Payload(a, b, NextReceived(a, b) + j - 1)'
                      ELSE j = Len(flight'[a][b]) /\ sreq'[a][b] = "active"
    BY DEF Messages
  <2>1. Payload(a, b, NextReceived(a, b) + j - 1)' = Payload(a, b, NextReceived(a, b) + j - 1)
    BY <1>10, <1>13 DEF Payload
  <2>2. CASE a = s /\ b = d /\ j = k
    BY <1>2, <1>3, <1>6, <1>7, <2>1, <2>2
  <2>3. CASE a = s /\ b = d /\ j # k
    <3>1. j \in 1..Len(flight[s][d]) /\ flight'[s][d][j] = flight[s][d][j] /\ j # Len(flight[s][d])
      BY <1>2, <1>6, <1>7, <2>3
    <3> QED
      BY <2>1, <2>3, <3>1 DEF IInv, Messages
  <2>4. CASE ~(a = s /\ b = d)
    <3>1. flight'[a][b] = flight[a][b] /\ sreq'[a][b] = sreq[a][b]
      BY <1>7, <1>9, <2>4
    <3> QED
      BY <2>1, <3>1 DEF IInv, Messages
  <2> QED
    BY <2>2, <2>3, <2>4
<1>16. Buffers'
  BY <1>10 DEF IInv, Buffers, Sent, Posted, Payload, Packed, Peers
<1>17. Layouts' /\ Headers'
  BY <1>10, LayoutsKept DEF IInv, Layouts
<1>18. GhostsAreOfThisStage'
  BY <1>10 DEF IInv, GhostsAreOfThisStage, Unpacked, Packed
<1> QED
  BY <1>11, <1>12, <1>14, <1>15, <1>16, <1>17, <1>18 DEF IInv

\* The oldest message of the pair is that of the stage the receive was posted in
LEMMA DeliverIInv ==
  ASSUME IInv, NEW s \in Ranks, NEW d \in Ranks, Deliver(s, d)
  PROVE  IInv'
<1> DEFINE q == flight[s][d]
<1>1. /\ q \in Seq(Message) /\ q # <<>> /\ rreq[d][s] = "active" /\ d \in Peers(s) /\ s \in Peers(d)
      /\ Len(q) \in Nat /\ 1 \in 1..Len(q) /\ Head(q) = q[1]
  <2>1. q \in Seq(Message) /\ q # <<>> /\ rreq[d][s] = "active"
    BY DEF IInv, TypeOK, Deliver
  <2>2. d \in Peers(s) /\ s \in Peers(d)
    BY <2>1, PeersSymmetric DEF IInv, TypeOK, Flights
  <2>3. Len(q) \in Nat /\ 1 \in 1..Len(q) /\ Head(q) = q[1]
    BY <2>1
  <2> QED
    BY <2>1, <2>2, <2>3
<1>2. Posted(d) /\ NextReceived(s, d) = stage[d]
  BY <1>1 DEF IInv, TypeOK, Requests, RecvsCleared, NoneActive, Posted, NextReceived
<1>20. stage[s] \in Nat /\ stage[d] \in Nat
  BY DEF IInv, TypeOK
<1>3. \A a, b \in Ranks : flight'[a][b] = IF a = s /\ b = d THEN Tail(q) ELSE flight[a][b]
  BY DEF IInv, TypeOK, Deliver
<1>4. /\ Tail(q) \in Seq(Message) /\ Len(Tail(q)) = Len(q) - 1
      /\ \A j \in 1..Len(Tail(q)) : Tail(q)[j] = q[j + 1]
  BY <1>1, HeadTailProperties
<1>5. \A a, b \in Ranks : rreq'[a][b] = IF a = d /\ b = s THEN "done" ELSE rreq[a][b]
  BY DEF IInv, TypeOK, Deliver
<1> DEFINE got == IF q[1].buffered THEN q[1].data ELSE sbuf[s][d]
<1>6. rbuf' = [rbuf EXCEPT ![d][s] = got]
  BY <1>1 DEF Deliver
<1>7. got = Payload(s, d, stage[d])
  <2>1. CASE q[1].buffered
    <3>1. q[1].data = Payload(s, d, NextReceived(s, d) + 1 - 1)
      BY <1>1, <2>1 DEF IInv, Messages
    <3>2. stage[d] \in Nat
      BY DEF IInv, TypeOK
    <3> QED
      BY <1>2, <2>1, <3>1, <3>2
  <2>2. CASE ~q[1].buffered
    <3>1. sbuf[s][d] = Payload(s, d, NextReceived(s, d) + 1 - 1)
      BY <1>1, <2>2, UnbufferedIsLast
    <3>2. stage[d] \in Nat
      BY DEF IInv, TypeOK
    <3> QED
      BY <1>2, <2>2, <3>1, <3>2
  <2> QED
    BY <2>1, <2>2
<1> HIDE DEF got
<1>8. \A a, b \in Ranks : rbuf'[a][b] = IF a = d /\ b = s THEN got ELSE rbuf[a][b]
  BY <1>6 DEF IInv, TypeOK
<1>9. /\ \A a, b \in Ranks : ~(a = s /\ b = d) => sreq'[a][b] = sreq[a][b]
      /\ sreq'[s][d] \in {sreq[s][d], "done"} 
      /\ sreq'[s][d] # sreq[s][d] => Len(q) = 1
      /\ sreq' \in [Ranks -> [Ranks -> Request]]
  BY <1>1 DEF IInv, TypeOK, Deliver, Completed, Request
<1>10. UNCHANGED <<mesh, seq, cycle, stage, pc, meta, header, sbuf, onrank, ghost>>
  BY DEF Deliver
<1> HIDE DEF q
<1>11. TypeOK'
  <2>1. flight' \in [Ranks -> [Ranks -> Seq(Message)]]
    BY <1>4 DEF IInv, TypeOK, Deliver, q
  <2>2. rreq' \in [Ranks -> [Ranks -> Request]]
    BY DEF IInv, TypeOK, Request, Deliver
  <2>3. got \in Seq(Item)
    BY <1>20, <1>7, PayloadType DEF IInv
  <2>4. rbuf' \in [Ranks -> [Ranks -> Seq(Item)]]
    BY <1>6, <2>3 DEF IInv, TypeOK
  <2> QED
    BY <1>9, <1>10, <2>1, <2>2, <2>4 DEF IInv, TypeOK
<1>12. Requests'
  <2>1. \A a \in Ranks : SendsCleared(a)' = SendsCleared(a) /\ RecvsCleared(a)' = RecvsCleared(a)
    BY <1>10 DEF SendsCleared, RecvsCleared
  <2>2. \A a, b \in Ranks : /\ sreq'[a][b] = "active" => sreq[a][b] = "active"
                            /\ rreq'[a][b] = "active" => rreq[a][b] = "active"
    BY <1>5, <1>9
  <2> QED
    BY <2>1, <2>2 DEF IInv, Requests, NoneActive
<1>13. \A a, b \in Ranks :
         /\ NextReceived(a, b)' = IF a = s /\ b = d THEN stage[d] + 1 ELSE NextReceived(a, b)
         /\ NextSent(a)' = NextSent(a) /\ Peers(a)' = Peers(a)
  BY <1>2, <1>5, <1>10 DEF NextReceived, NextSent, Posted, Sent, Peers
<1>14. \A a \in Ranks : Peers(a)' = Peers(a) /\ Peers(a) \subseteq Ranks
  BY <1>10 DEF Peers
<1>15. Flights'
  <2> SUFFICES ASSUME NEW a \in Ranks, NEW b \in Ranks
               PROVE  IF b \in Peers(a) THEN Len(flight'[a][b]) = NextSent(a) - NextReceived(a, b)'
                      ELSE flight'[a][b] = <<>> /\ rreq'[b][a] # "active"
    BY <1>13 DEF Flights
  <2>1. CASE a = s /\ b = d
    <3>1. Len(q) = NextSent(s) - stage[d]
      BY <1>1, <1>2 DEF IInv, Flights, q
    <3>2. NextSent(s) \in Nat
      BY <1>20 DEF NextSent
    <3>3. Len(flight'[a][b]) = Len(q) - 1
      BY <1>3, <1>4, <2>1
    <3>4. NextReceived(a, b)' = stage[d] + 1
      BY <1>13, <2>1
    <3> QED
      BY <1>20, <1>1, <2>1, <3>1, <3>2, <3>3, <3>4
  <2>2. CASE ~(a = s /\ b = d)
    BY <1>3, <1>5, <1>13, <2>2 DEF IInv, Flights
  <2> QED
    BY <2>1, <2>2
<1>16. Messages'
  <2> SUFFICES ASSUME NEW a \in Ranks, NEW b \in Ranks, NEW j \in 1..Len(flight'[a][b])
               PROVE  IF flight'[a][b][j].buffered
                      THEN flight'[a][b][j].data = Payload(a, b, NextReceived(a, b) + j - 1)'
                      ELSE j = Len(flight'[a][b]) /\ sreq'[a][b] = "active"
    BY DEF Messages
  <2>1. CASE a = s /\ b = d
    <3>1. /\ j + 1 \in 1..Len(q) /\ flight'[a][b][j] = q[j + 1] /\ Len(flight'[a][b]) = Len(q) - 1
          /\ j \in Nat /\ sreq'[s][d] = sreq[s][d]
      <4>1. flight'[a][b] = Tail(q)
        BY <1>3, <2>1
      <4>2. j \in Nat /\ j <= Len(q) - 1 /\ 0 < j /\ Len(q) \in Nat
        BY <1>1, <1>4, <4>1
      <4> DEFINE n == Len(q)
      <4>3. n # 1
        <5>1. j \in Nat /\ j <= n - 1 /\ 0 < j /\ n \in Nat
          BY <4>2
        <5> HIDE DEF n
        <5> QED
          BY <5>1
      <4> QED
        BY <1>1, <1>4, <1>9, <4>1, <4>2, <4>3
    <3>2. NextReceived(s, d)' + j - 1 = NextReceived(s, d) + (j + 1) - 1
      BY <1>20, <1>2, <1>13, <3>1
    <3>3. Payload(a, b, NextReceived(a, b) + j - 1)' = Payload(s, d, NextReceived(s, d) + (j + 1) - 1)
      BY <1>10, <2>1, <3>2 DEF Payload
    <3>4. IF q[j + 1].buffered
          THEN q[j + 1].data = Payload(s, d, NextReceived(s, d) + (j + 1) - 1)
          ELSE j + 1 = Len(q) /\ sreq[s][d] = "active"
      BY <3>1 DEF IInv, Messages, q
    <3> QED
      BY <1>1, <2>1, <3>1, <3>3, <3>4
  <2>2. CASE ~(a = s /\ b = d)
    <3>1. Payload(a, b, NextReceived(a, b) + j - 1)' = Payload(a, b, NextReceived(a, b) + j - 1)
      BY <1>10, <1>13, <2>2 DEF Payload
    <3>2. flight'[a][b] = flight[a][b] /\ sreq'[a][b] = sreq[a][b]
      BY <1>3, <1>9, <2>2
    <3> QED
      BY <3>1, <3>2 DEF IInv, Messages
  <2> QED
    BY <2>1, <2>2
<1>17. Buffers'
  <2> SUFFICES ASSUME NEW a \in Ranks
               PROVE  /\ Sent(a) => onrank[a] = [l \in LinksBetween(mesh, a, a) |-> Packed(l, a)]
                      /\ \A p \in Peers(a) :
                           /\ Sent(a) => sbuf[a][p] = Payload(a, p, stage[a])
                           /\ Posted(a) /\ rreq'[a][p] # "active" => rbuf'[a][p] = Payload(p, a, stage[a])
    BY <1>10, <1>14 DEF Buffers, Sent, Posted, Payload, Packed
  <2> QED
    BY <1>5, <1>7, <1>8, <1>14 DEF IInv, Buffers
<1>18. Layouts' /\ Headers'
  BY <1>10, LayoutsKept DEF IInv, Layouts
<1>19. GhostsAreOfThisStage'
  BY <1>10 DEF IInv, GhostsAreOfThisStage, Unpacked, Packed
<1> QED
  BY <1>11, <1>12, <1>15, <1>16, <1>17, <1>18, <1>19 DEF IInv

\* At the end of a cycle nothing is left under way, so the next one may start on
\* another mesh
LEMMA EndCycleIInv ==
  ASSUME IInv, EndCycle
  PROVE  IInv'
<1>1. \A r \in Ranks : pc[r] = "end" /\ stage[r] = NStages /\ NStages \in Nat
  BY RanksAssumption DEF EndCycle
<1>2. \A r, p \in Ranks : sreq[r][p] # "active" /\ rreq[r][p] # "active"
  BY <1>1 DEF IInv, Requests, SendsCleared, RecvsCleared, NoneActive
<1>3. \A s, d \in Ranks : flight[s][d] = <<>>
  <2> SUFFICES ASSUME NEW s \in Ranks, NEW d \in Ranks, d \in Peers(s)
               PROVE  flight[s][d] = <<>>
    BY DEF IInv, Flights
  <2>1. NextSent(s) = NStages + 1 /\ NextReceived(s, d) = NStages + 1
    BY <1>1, <1>2 DEF NextSent, NextReceived, Sent, Posted
  <2>2. Len(flight[s][d]) = 0
    BY <1>1, <2>1 DEF IInv, Flights
  <2>3. flight[s][d] \in Seq(Message)
    BY DEF IInv, TypeOK
  <2> QED
    BY <2>2, <2>3, EmptySeq
<1>4. \A r \in Ranks : ~Stale(r) /\ \A p \in Ranks : header[r][p] = <<>>
  BY <1>1 DEF IInv, Layouts, Headers
<1>5. \A r \in Ranks : /\ pc'[r] = "irecv" /\ stage'[r] \in Nat
                       /\ \A p \in Ranks : stage'[r] = stage'[p]
  BY DEF EndCycle
<1>6. UNCHANGED <<meta, header, sbuf, flight, sreq, rreq, rbuf, onrank>>
  BY DEF EndCycle
<1>7. TypeOK'
  BY RanksAssumption DEF IInv, TypeOK, EndCycle
<1>8. Requests'
  BY <1>2, <1>6 DEF Requests, NoneActive
<1>9. Flights' /\ Messages'
  <2>1. \A s, d \in Ranks : NextSent(s)' = stage'[s] /\ NextReceived(s, d)' = stage'[d]
    BY <1>5 DEF NextSent, NextReceived, Sent, Posted
  <2>2. \A s, d \in Ranks : flight'[s][d] = <<>> /\ rreq'[d][s] # "active"
    BY <1>2, <1>3, <1>6
  <2>3. Flights'
    BY <1>5, <2>1, <2>2 DEF Flights
  <2>4. Messages'
    BY <2>2 DEF Messages
  <2> QED
    BY <2>3, <2>4
<1>10. Buffers'
  BY <1>5 DEF Buffers, Sent, Posted
<1>11. Layouts' /\ Headers'
  <2>1. CASE UNCHANGED <<mesh, seq>>
    <3>1. \A r \in Ranks : Peers(r)' = Peers(r) /\ Peers(r) \subseteq Ranks /\ ~Stale(r)'
      BY <1>4, <1>6, <2>1 DEF Peers, Stale
    <3> QED
      BY <1>1, <1>4, <1>5, <1>6, <2>1, <3>1 DEF IInv, Layouts, Headers
  <2>2. CASE seq' = seq + 1
    <3>1. \A r \in Ranks : Stale(r)' /\ meta'[r].seq <= seq'
      BY <1>4, <1>6, <2>2 DEF IInv, TypeOK, Stale
    <3> QED
      BY <1>4, <1>5, <1>6, <3>1 DEF Layouts, Headers
  <2> QED
    BY <2>1, <2>2 DEF EndCycle
<1>12. GhostsAreOfThisStage'
  BY <1>5 DEF GhostsAreOfThisStage, Unpacked
<1> QED
  BY <1>7, <1>8, <1>9, <1>10, <1>11, <1>12 DEF IInv

\* Every step keeps the invariant
LEMMA NextIInv == IInv /\ [Next]_vars => IInv'
<1> SUFFICES ASSUME IInv, [Next]_vars PROVE IInv'
  OBVIOUS
<1>1. ASSUME NEW r \in Ranks, Rank(r) PROVE IInv'
  BY <1>1, InitRecvIInv, StartBuildIInv, FinishBuildIInv, PackAndSendIInv, RecvIncompleteIInv,
     RecvAndUnpackIInv, ClearSendIInv, ClearRecvIInv, NextStageIInv DEF Rank
<1>2. ASSUME NEW s \in Ranks, NEW d \in Ranks, Buffer(s, d) \/ Deliver(s, d) PROVE IInv'
  BY <1>2, BufferIInv, DeliverIInv
<1>3. CASE EndCycle
  BY <1>3, EndCycleIInv
<1>4. CASE UNCHANGED vars
  <2>1. UNCHANGED <<mesh, seq, cycle, stage, pc, meta, header, sbuf, flight, sreq, rreq, rbuf, onrank, ghost>>
    BY <1>4 DEF vars
  <2>2. TypeOK' /\ Requests'
    BY <2>1 DEF IInv, TypeOK, Requests, SendsCleared, RecvsCleared
  <2>3. Flights' /\ Messages'
    BY <2>1, FlightsKept DEF IInv, Flights, NextSent, NextReceived, Sent, Posted
  <2>4. Buffers'
    BY <2>1 DEF IInv, Buffers, Sent, Posted, Payload, Packed, Peers
  <2>5. Layouts' /\ Headers'
    BY <2>1, LayoutsKept DEF IInv, Layouts
  <2>6. GhostsAreOfThisStage'
    BY <2>1 DEF IInv, GhostsAreOfThisStage, Unpacked, Packed
  <2> QED
    BY <2>2, <2>3, <2>4, <2>5, <2>6 DEF IInv
<1> QED
  BY <1>1, <1>2, <1>3, <1>4 DEF Next

-----------------------------------------------------------------------------
\* The inductive invariant: the types, and what requests, messages, buffers, metadata,
\* headers and ghost zones have to do with where the ranks are
THEOREM Invariance == Spec => []IInv
<1> QED
  BY InitIInv, NextIInv, PTL DEF Spec

\* Once a rank has unpacked, each of its ghost zones holds what its neighbour packed for
\* it in this cycle and stage, whatever the interleaving, the buffering and the meshes
THEOREM GhostsOfThisStage == Spec => []GhostsAreOfThisStage
<1>1. IInv => GhostsAreOfThisStage
  BY DEF IInv
<1> QED
  BY <1>1, Invariance, PTL

\* A rank never writes to, reallocates or forgets what MPI still uses
THEOREM SendBufferIsFree == Spec => []SendBufferFree
<1>1. IInv => SendBufferFree
  <2> SUFFICES ASSUME IInv, NEW s \in Ranks, NEW d \in Ranks
               PROVE  /\ pc[s] \in {"irecv", "meta", "send"} =>
                           NoneActive(sreq[s]) /\ \A k \in 1..Len(flight[s][d]) : flight[s][d][k].buffered
                      /\ pc[s] \in {"irecv", "meta"} => NoneActive(rreq[s])
    BY DEF SendBufferFree
  <2>1. pc[s] \in {"irecv", "meta", "send"} => NoneActive(sreq[s])
    BY DEF IInv, Requests, SendsCleared
  <2>2. NoneActive(sreq[s]) => \A k \in 1..Len(flight[s][d]) : flight[s][d][k].buffered
    BY DEF IInv, Messages, NoneActive
  <2>3. pc[s] \in {"irecv", "meta"} => NoneActive(rreq[s])
    BY DEF IInv, Requests, RecvsCleared
  <2> QED
    BY <2>1, <2>2, <2>3
<1> QED
  BY <1>1, Invariance, PTL

\* What s and d have sent one another bounds how far apart they are
LEMMA PeersClose ==
  ASSUME IInv, NEW s \in Ranks, NEW d \in Ranks
  PROVE  /\ d \in Peers(s) => stage[s] <= stage[d] + 1
         /\ Len(flight[s][d]) <= 2
<1>1. CASE d \notin Peers(s)
  BY <1>1 DEF IInv, Flights
<1>2. CASE d \in Peers(s)
  <2>1. s \in Peers(d) /\ stage[s] \in Nat /\ stage[d] \in Nat
    BY <1>2, PeersSymmetric DEF IInv, TypeOK
  <2>2. /\ Len(flight[s][d]) = NextSent(s) - NextReceived(s, d)
        /\ Len(flight[d][s]) = NextSent(d) - NextReceived(d, s)
    BY <1>2, <2>1 DEF IInv, Flights
  <2>3. Len(flight[s][d]) \in Nat /\ Len(flight[d][s]) \in Nat
    BY SMTT(40) DEF IInv, TypeOK
  <2>4. /\ NextSent(s) \in {stage[s], stage[s] + 1} /\ NextReceived(s, d) \in {stage[d], stage[d] + 1}
        /\ NextSent(d) \in {stage[d], stage[d] + 1} /\ NextReceived(d, s) \in {stage[s], stage[s] + 1}
    BY DEF NextSent, NextReceived
  <2> DEFINE sd == Len(flight[s][d])
             ds == Len(flight[d][s])
  <2> HIDE DEF sd, ds
  <2>5. sd <= stage[s] + 1 - stage[d] /\ 0 <= stage[d] + 1 - stage[s]
    <3>1. sd = NextSent(s) - NextReceived(s, d) /\ ds = NextSent(d) - NextReceived(d, s) /\ ds \in Nat
      BY <2>2, <2>3 DEF sd, ds
    <3> QED
      BY <2>1, <2>4, <3>1
  <2> QED
    BY <2>1, <2>3, <2>5, SMTT(40) DEF sd
<1> QED
  BY <1>1, <1>2

\* Ranks that exchange are never more than a stage apart
THEOREM WithinOneStage == Spec => []PeersWithinOneStage
<1>1. IInv => PeersWithinOneStage
  BY PeersClose DEF PeersWithinOneStage
<1> QED
  BY <1>1, Invariance, PTL

-----------------------------------------------------------------------------
\* Every step of the protocol is a step of StageExchange, or leaves it as it is.
\* Published and filled are what StageExchange sees of a rank's control.
Published == [r \in Ranks |-> Sent(r)]
Filled == [r \in Ranks |-> Unpacked(r)]

\* What StageExchange sees of a rank is a truth value, before and after a step
LEMMA StatusIsBoolean ==
  \A r \in Ranks : /\ Sent(r) \in BOOLEAN /\ Unpacked(r) \in BOOLEAN
                   /\ Sent(r)' \in BOOLEAN /\ Unpacked(r)' \in BOOLEAN
<1> SUFFICES ASSUME NEW r \in Ranks
             PROVE  /\ Sent(r) \in BOOLEAN /\ Unpacked(r) \in BOOLEAN
                    /\ Sent(r)' \in BOOLEAN /\ Unpacked(r)' \in BOOLEAN
  OBVIOUS
<1>1. Sent(r) \in BOOLEAN /\ Sent(r)' \in BOOLEAN
  BY DEF Sent
<1>2. Unpacked(r) \in BOOLEAN
  <2>1. CASE stage[r] = 0
    BY <2>1 DEF Unpacked
  <2>2. CASE stage[r] # 0
    BY <2>2 DEF Unpacked
  <2> QED
    BY <2>1, <2>2
<1>3. Unpacked(r)' \in BOOLEAN
  <2>1. CASE stage'[r] = 0
    BY <2>1 DEF Unpacked
  <2>2. CASE stage'[r] # 0
    BY <2>2 DEF Unpacked
  <2> QED
    BY <2>1, <2>2
<1> QED
  BY <1>1, <1>2, <1>3

\* A step that leaves the ghost zones, and what StageExchange sees of the control
LEMMA AbstractStutters ==
  ASSUME UNCHANGED <<mesh, cycle, stage, ghost>>,
         \A r \in Ranks : (Sent(r)' <=> Sent(r)) /\ (Unpacked(r)' <=> Unpacked(r))
  PROVE  UNCHANGED Abstract!vars
<1>1. \A r \in Ranks : Sent(r)' = Sent(r) /\ Unpacked(r)' = Unpacked(r)
  BY StatusIsBoolean, Zenon
<1>2. Published' = Published
  BY <1>1, Zenon DEF Published
<1>3. Filled' = Filled
  BY <1>1, Zenon DEF Filled
<1> QED
  BY <1>2, <1>3 DEF Abstract!vars, Published, Filled

\* When a rank unpacks, its neighbours have published this stage or are in the next
LEMMA NeighboursHavePublished ==
  ASSUME IInv, NEW r \in Ranks, RecvAndUnpack(r), NEW p \in Abstract!Neighbours(r)
  PROVE  \/ stage[p] = stage[r] /\ Sent(p)
         \/ stage[p] = stage[r] + 1
<1>1. PICK l \in LinksInto(mesh, r) : p = mesh.owner[l[1]] /\ p # r
  BY DEF Abstract!Neighbours, Abstract!LinksInto, LinksInto
<1>2. mesh \in Meshes /\ l \in mesh.links /\ mesh.owner[l[2]] = r
  BY <1>1 DEF IInv, TypeOK, LinksInto
<1>3. l \in Link /\ mesh.owner \in [Blocks -> Ranks]
  BY <1>2, MeshesAssumption
<1>4. p \in Ranks /\ l \in LinksBetween(mesh, p, r)
  BY <1>1, <1>2, <1>3 DEF LinksBetween, Link
<1>5. r \in Peers(p) /\ p \in Peers(r)
  BY <1>1, <1>2, <1>4, PeersSymmetric DEF Peers
<1>6. stage[p] <= stage[r] + 1
  BY <1>4, <1>5, PeersClose
<1>7. stage[p] \in Nat /\ stage[r] \in Nat /\ Len(flight[p][r]) \in Nat
  BY <1>4 DEF IInv, TypeOK
<1>8. NextReceived(p, r) = stage[r] + 1
  BY <1>4 DEF RecvAndUnpack, NoneActive, NextReceived, Posted
<1>9. Len(flight[p][r]) = NextSent(p) - NextReceived(p, r)
  BY <1>4, <1>5 DEF IInv, Flights
<1> DEFINE n == Len(flight[p][r])
<1>10. n \in Nat /\ n = NextSent(p) - (stage[r] + 1)
  BY <1>7, <1>8, <1>9
<1> HIDE DEF n
<1> QED
  BY <1>6, <1>7, <1>10 DEF NextSent

\* PackAndSend publishes, RecvAndUnpack fills, NextStage advances; the other steps of a
\* rank stutter
LEMMA RankStepRefines ==
  ASSUME IInv, NEW r \in Ranks, Rank(r)
  PROVE  [Abstract!Next]_(Abstract!vars)
<1>1. ASSUME InitRecv(r) \/ StartBuild(r) \/ FinishBuild(r) PROVE UNCHANGED Abstract!vars
  <2>1. /\ pc[r] \in {"irecv", "meta"}
        /\ \A q \in Ranks : IF q = r THEN pc'[q] \in {"meta", "send"} ELSE pc'[q] = pc[q]
        /\ UNCHANGED <<mesh, cycle, stage, ghost>>
    BY <1>1, FollowIs DEF IInv, TypeOK, InitRecv, StartBuild, FinishBuild
  <2> QED
    BY <2>1, AbstractStutters DEF Sent, Unpacked
<1>2. ASSUME PackAndSend(r) PROVE Abstract!Publish(r)
  <2>1. /\ pc[r] = "send" /\ UNCHANGED <<mesh, cycle, stage, ghost>>
        /\ \A q \in Ranks : pc'[q] = IF q # r THEN pc[q] ELSE IF stage[r] = 0 THEN "csend" ELSE "recv"
    BY <1>2, FollowIs DEF IInv, TypeOK, PackAndSend
  <2>2. \A q \in Ranks : Sent(q)' = (IF q = r THEN TRUE ELSE Sent(q)) /\ Unpacked(q)' = Unpacked(q)
    <3>1. \A q \in Ranks : /\ Sent(q)' <=> (q = r \/ Sent(q))
                           /\ Unpacked(q)' <=> Unpacked(q)
      BY <2>1 DEF Sent, Unpacked
    <3> QED
      BY <3>1, StatusIsBoolean, Zenon
  <2>3. Published' = [Published EXCEPT ![r] = TRUE]
    BY <2>2, Zenon DEF Published
  <2>4. Filled' = Filled
    BY <2>2, Zenon DEF Filled
  <2>5. ~Published[r]
    BY <2>1 DEF Published, Sent
  <2> QED
    BY <2>1, <2>3, <2>4, <2>5 DEF Abstract!Publish, Published, Filled
<1>3. ASSUME RecvIncomplete(r) PROVE UNCHANGED Abstract!vars
  BY <1>3, AbstractStutters DEF RecvIncomplete, Sent, Unpacked
<1>4. ASSUME RecvAndUnpack(r) PROVE Abstract!Fill(r)
  <2>1. /\ pc[r] = "recv" /\ UNCHANGED <<mesh, cycle, stage>>
        /\ \A q \in Ranks : pc'[q] = IF q # r THEN pc[q] ELSE IF stage[r] = 0 THEN "end" ELSE "csend"
    BY <1>4, FollowIs DEF IInv, TypeOK, RecvAndUnpack
  <2>2. \A q \in Ranks : Unpacked(q)' = (IF q = r THEN TRUE ELSE Unpacked(q)) /\ Sent(q)' = Sent(q)
    BY <2>1 DEF Sent, Unpacked
  <2>3. Filled' = [Filled EXCEPT ![r] = TRUE]
    BY <2>2, Zenon DEF Filled
  <2>4. Published' = Published
    BY <2>2, Zenon DEF Published
  <2>5. Published[r] /\ ~Filled[r]
    BY <2>1 DEF Published, Filled, Sent, Unpacked
  <2>6. \A p \in Abstract!Neighbours(r) :
          \/ stage[p] = stage[r] /\ Published[p]
          \/ stage[p] = stage[r] + 1
    <3>1. Abstract!Neighbours(r) \subseteq Ranks
      <4> SUFFICES ASSUME NEW l \in LinksInto(mesh, r) PROVE mesh.owner[l[1]] \in Ranks
        BY DEF Abstract!Neighbours, Abstract!LinksInto, LinksInto
      <4>1. mesh \in Meshes /\ l \in mesh.links
        BY DEF IInv, TypeOK, LinksInto
      <4> QED
        BY <4>1, MeshesAssumption DEF Link
    <3> QED
      BY <1>4, <3>1, NeighboursHavePublished DEF Published
  <2>7. ghost' = [ghost EXCEPT ![r] = [l \in LinksInto(mesh, r) |-> Packed(l, r)]]
    <3>1. \A l \in LinksInto(mesh, r) : ghost'[r][l] = Packed(l, r)
      BY <1>4, UnpackIsPacked
    <3> DEFINE unpacked ==
                 [l \in LinksInto(mesh, r) |->
                    LET p == mesh.owner[l[1]]
                    IN  IF p = r THEN onrank[r][l] ELSE rbuf[r][p][Place(r, p, l)]]
    <3>2. ghost' = [ghost EXCEPT ![r] = unpacked] /\ ghost'[r] = unpacked
      BY <1>4 DEF RecvAndUnpack, IInv, TypeOK
    <3>3. \A l \in LinksInto(mesh, r) : unpacked[l] = Packed(l, r)
      BY <3>1, <3>2, Zenon
    <3>4. unpacked = [l \in LinksInto(mesh, r) |-> unpacked[l]]
      OBVIOUS
    <3> HIDE DEF unpacked
    <3>5. unpacked = [l \in LinksInto(mesh, r) |-> Packed(l, r)]
      BY <3>3, <3>4
    <3> QED
      BY <3>2, <3>5
  <2> QED
    BY <2>1, <2>3, <2>4, <2>5, <2>6, <2>7 DEF Abstract!Fill, Abstract!LinksInto, LinksInto, Packed, Published, Filled

<1>5. ASSUME ClearSend(r) \/ ClearRecv(r) PROVE UNCHANGED Abstract!vars
  <2>1. /\ UNCHANGED <<mesh, cycle, stage, ghost>>
        /\ \/ /\ pc[r] = "csend"
              /\ \A q \in Ranks : pc'[q] = IF q = r THEN "crecv" ELSE pc[q]
           \/ /\ pc[r] = "crecv"
              /\ \A q \in Ranks : pc'[q] = IF q # r THEN pc[q] ELSE IF stage[r] = 0 THEN "recv" ELSE "end"
    BY <1>5, FollowIs DEF IInv, TypeOK, ClearSend, ClearRecv
  <2> QED
    BY <2>1, AbstractStutters DEF Sent, Unpacked
<1>6. ASSUME NextStage(r) PROVE Abstract!Advance(r)
  <2>1. /\ pc[r] = "end" /\ stage[r] \in Nat /\ stage[r] < NStages /\ UNCHANGED <<mesh, cycle, ghost>>
        /\ stage' = [stage EXCEPT ![r] = stage[r] + 1]
        /\ \A q \in Ranks : /\ pc'[q] = IF q = r THEN "irecv" ELSE pc[q]
                            /\ stage'[q] = IF q = r THEN stage[r] + 1 ELSE stage[q]
    BY <1>6 DEF IInv, TypeOK, NextStage
  <2>2. \A q \in Ranks : /\ Unpacked(q)' = (IF q = r THEN FALSE ELSE Unpacked(q))
                         /\ Sent(q)' = (IF q = r THEN FALSE ELSE Sent(q))
    <3>1. \A q \in Ranks : /\ Sent(q)' <=> (q # r /\ Sent(q))
                           /\ Unpacked(q)' <=> (q # r /\ Unpacked(q))
      BY <2>1 DEF Sent, Unpacked
    <3> QED
      BY <3>1, StatusIsBoolean, Zenon
  <2>3. Filled' = [Filled EXCEPT ![r] = FALSE]
    BY <2>2, Zenon DEF Filled
  <2>4. Published' = [Published EXCEPT ![r] = FALSE]
    BY <2>2, Zenon DEF Published
  <2>5. Filled[r]
    BY <2>1 DEF Filled, Unpacked
  <2> QED
    BY <2>1, <2>3, <2>4, <2>5 DEF Abstract!Advance, Published, Filled
<1> QED
  BY <1>1, <1>2, <1>3, <1>4, <1>5, <1>6 DEF Rank, Abstract!Next

\* The barrier of the protocol is that of StageExchange
LEMMA EndCycleRefines ==
  ASSUME IInv, EndCycle
  PROVE  Abstract!EndCycle
<1>1. \A r \in Ranks : pc[r] = "end" /\ stage[r] = NStages /\ pc'[r] = "irecv"
  BY DEF EndCycle
<1>2. \A r \in Ranks : Unpacked(r) /\ Unpacked(r)' = FALSE /\ Sent(r)' = FALSE
  BY <1>1 DEF Unpacked, Sent
<1>3. Published' = [r \in Ranks |-> FALSE]
  BY <1>2, Zenon DEF Published
<1>4. Filled' = [r \in Ranks |-> FALSE] 
  BY <1>2, Zenon DEF Filled
<1>5. \A r \in Ranks : Filled[r]
  BY <1>2 DEF Filled
<1> QED
  BY <1>1, <1>3, <1>4, <1>5 DEF EndCycle, Abstract!EndCycle, Abstract!LinksInto, Abstract!None, LinksInto, None, Published, Filled

\* The exchange with its messages, requests, headers and buffers does what the integrator
\* assumes of it: in a stage every rank publishes, and is filled from this stage
THEOREM ImplementsStageExchange == Spec => AbstractSpec
<1>1. Init => Abstract!Init
  BY DEF Init, Abstract!Init, Abstract!LinksInto, Abstract!None, LinksInto, None, Sent, Unpacked
<1>2. IInv /\ [Next]_vars => [Abstract!Next]_(Abstract!vars)
  <2> SUFFICES ASSUME IInv, [Next]_vars PROVE [Abstract!Next]_(Abstract!vars)
    OBVIOUS
  <2>1. ASSUME NEW r \in Ranks, Rank(r) PROVE [Abstract!Next]_(Abstract!vars)
    BY <2>1, RankStepRefines
  <2>2. ASSUME NEW s \in Ranks, NEW d \in Ranks, Buffer(s, d) \/ Deliver(s, d)
        PROVE  UNCHANGED Abstract!vars
    BY <2>2, AbstractStutters DEF Buffer, Deliver, Sent, Unpacked
  <2>3. CASE EndCycle
    BY <2>3, EndCycleRefines DEF Abstract!Next
  <2>4. CASE UNCHANGED vars
    BY <2>4, AbstractStutters DEF vars, Sent, Unpacked
  <2> QED
    BY <2>1, <2>2, <2>3, <2>4 DEF Next
<1> QED
  BY <1>1, <1>2, Invariance, PTL DEF Spec, AbstractSpec, Abstract!Spec
=============================================================================
