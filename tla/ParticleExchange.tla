----------------------------- MODULE ParticleExchange -----------------------------
(***************************************************************************)
(* Particles that leave their MeshBlock (bvals/bvals_part.cpp), through    *)
(* the tasks of the list "before_timeintegrator" (particles_tasks.cpp):    *)
(* push, newgid, count, irecv, sendp, recvp, crecv, csend.                 *)
(*                                                                         *)
(* A rank keeps its particles in two arrays, of ints (id, gid) and of      *)
(* Reals (a velocity that never changes, a position); column p of both is  *)
(* particle p.  Those that go to another rank are listed, counted by an    *)
(* all-gather, sent to each rank in two messages (tag 0 Reals, 1 ints),    *)
(* and the holes they leave are filled with arrivals, then from the end.   *)
(*                                                                         *)
(* A position is the MeshBlock it lies in.  The send buffer is read when a *)
(* message is delivered: the latest time MPI may read it, and the worst.   *)
(***************************************************************************)
EXTENDS Integers, Sequences, FiniteSets, Functions

CONSTANTS Owner,        \* rank of each MeshBlock (uniform mesh, all neighbours)
          NRanks,       \* number of ranks
          Counts,       \* particles each rank starts with, by rank
          SendListPart, \* the part of npart the send list has room for: 1/SendListPart,
                        \* 10 in the code, which assumes that no more leave in a cycle
          MaxCycles     \* bound: cycles run

Ranks == 0..(NRanks - 1)
Blocks == DOMAIN Owner

ASSUME ParticlesAssumption ==
  /\ NRanks \in Nat \ {0} /\ SendListPart \in Nat \ {0} /\ MaxCycles \in Nat
  /\ Owner \in [Blocks -> Ranks]
  /\ \A r \in Ranks : \E b \in Blocks : Owner[b] = r
  /\ Counts \in [Ranks -> Nat]

Tags == {0, 1}
Zero == [id |-> 0, gid |-> 0, vel |-> 0, at |-> 0]

\* CreateParticleTags, "rank_order": myrank + nranks*p
Tag(r, p) == r + NRanks * (p - 1)
Ids == UNION {{Tag(r, p) : p \in 1..Counts[r]} : r \in Ranks}

VARIABLES
  cycle, pc,      \* by rank: cycles finished; the next task
  prtcl,          \* prtcl[r]: the columns of prtcl_idata and prtcl_rdata
  npart,          \* nprtcl_thispack
  sendlist,       \* <<prtcl_indx, dest_rank>> of the particles that leave
  sends,          \* sends_thisrank: the number for each rank (no triple for 0)
  allsends,       \* sends_allranks: the same of each rank
  sbuf, rbuf,     \* send and receive buffers, one place per particle
  flight,         \* flight[s][d][tag]: <<first place, particles>>, oldest first
  sreq, rreq,     \* sends <<recvrank, tag>>, receives <<sendrank, tag>> under way
  eachrank        \* nprtcl_eachrank

vars == <<cycle, pc, prtcl, npart, sendlist, sends, allsends, sbuf, rbuf,
          flight, sreq, rreq, eachrank>>

HomeOf(r) == CHOOSE b \in Blocks : Owner[b] = r

Init ==
  /\ cycle = [r \in Ranks |-> 0]
  /\ pc = [r \in Ranks |-> "push"]
  /\ prtcl = [r \in Ranks |-> [p \in 1..Counts[r] |->
                [id |-> Tag(r, p), gid |-> HomeOf(r), vel |-> Tag(r, p), at |-> HomeOf(r)]]]
  /\ npart = Counts
  /\ sendlist = [r \in Ranks |-> <<>>]
  /\ sends = [r \in Ranks |-> [d \in Ranks |-> 0]]
  /\ allsends = [r \in Ranks |-> [s \in Ranks |-> [d \in Ranks |-> 0]]]
  /\ sbuf = [r \in Ranks |-> <<>>]
  /\ rbuf = [r \in Ranks |-> <<>>]
  /\ flight = [s \in Ranks |-> [d \in Ranks |-> [t \in Tags |-> <<>>]]]
  /\ sreq = [r \in Ranks |-> {}]
  /\ rreq = [r \in Ranks |-> {}]
  /\ eachrank = [r \in Ranks |-> Counts]

Go(r, to) == pc' = [pc EXCEPT ![r] = to]

-----------------------------------------------------------------------------
\* Push: each particle stays in its block or drifts into a neighbour
Push(r) ==
  /\ pc[r] = "push" /\ cycle[r] < MaxCycles
  /\ \E drift \in [1..npart[r] -> Blocks] :
       prtcl' = [prtcl EXCEPT ![r] =
                   [p \in 1..npart[r] |-> [prtcl[r][p] EXCEPT !.at = drift[p]]]]
  /\ Go(r, "newgid")
  /\ UNCHANGED <<cycle, npart, sendlist, sends, allsends, sbuf, rbuf, flight, sreq, rreq, eachrank>>

\* SetNewPrtclGID: the kernel writes one entry per particle that leaves, at a
\* counter the threads increment in any order.  The list was given room for a part
\* of npart; what is written past it is lost when the list is resized, which leaves
\* zeros.
Leaving(r) == {p \in 1..npart[r] : Owner[prtcl[r][p].at] # r}
SetNewPrtclGID(r) ==
  /\ pc[r] = "newgid"
  /\ prtcl' = [prtcl EXCEPT ![r] =
                 [p \in 1..npart[r] |-> [prtcl[r][p] EXCEPT !.gid = prtcl[r][p].at]]]
  /\ \E written \in Bijection(1..Cardinality(Leaving(r)), Leaving(r)) :
       sendlist' = [sendlist EXCEPT ![r] =
         [i \in DOMAIN written |-> IF i <= npart[r] \div SendListPart
                                   THEN <<written[i], Owner[prtcl[r][written[i]].at]>>
                                   ELSE <<1, 0>>]]
  /\ Go(r, "count")
  /\ UNCHANGED <<cycle, npart, sends, allsends, sbuf, rbuf, flight, sreq, rreq, eachrank>>

\* std::sort of sendlist: by component 1 the index, by 2 the rank; entries that
\* compare equal in any order
SortedBy(list, key) ==
  {q \in {[i \in DOMAIN list |-> list[p[i]]] : p \in Bijection(DOMAIN list, DOMAIN list)} :
     \A i, j \in DOMAIN list : i < j => q[i][key] <= q[j][key]}

\* a run of entries with the same destination makes one triple; in a list sorted by
\* rank that is one for each destination
\* (Faulty variant: the last run is not recorded.)
RunsButLast(list) ==
  [d \in Ranks |-> IF list # <<>> /\ list[Len(list)][2] = d
                   THEN 0 ELSE Cardinality({i \in DOMAIN list : list[i][2] = d})]
Runs(list) == [d \in Ranks |-> Cardinality({i \in DOMAIN list : list[i][2] = d})]

CountSends(r) ==
  /\ pc[r] = "count"
  /\ \E list \in SortedBy(sendlist[r], 2) :
       /\ sendlist' = [sendlist EXCEPT ![r] = list]
       /\ sends' = [sends EXCEPT ![r] = Runs(list)]
  /\ Go(r, "gather")
  /\ UNCHANGED <<cycle, prtcl, npart, allsends, sbuf, rbuf, flight, sreq, rreq, eachrank>>

\* q has come at least as far as the collective call r is in
Reached(q, r, before) == cycle[q] > cycle[r] \/ (cycle[q] = cycle[r] /\ pc[q] \notin before)

\* the two all-gathers: counts, then the triples of all ranks
GatherSends(r) ==
  /\ pc[r] = "gather"
  /\ \A q \in Ranks : Reached(q, r, {"push", "newgid", "count"})
  /\ allsends' = [allsends EXCEPT ![r] = sends]
  /\ Go(r, "irecv")
  /\ UNCHANGED <<cycle, prtcl, npart, sendlist, sends, sbuf, rbuf, flight, sreq, rreq, eachrank>>

\* recvs_thisrank: the number from each rank
\* (Faulty variant: the sends of this rank are taken for its receives.)
ReceivesSwapped(r) == [s \in Ranks |-> allsends[r][r][s]]
Receives(r) == [s \in Ranks |-> allsends[r][s][r]]

\* data_start: the places before those of a rank, in the order of the ranks, and
\* their number after the last
Starts(n) ==
  LET start[k \in 0..NRanks] == IF k = 0 THEN 0 ELSE start[k - 1] + n[k - 1]
  IN  start

InitPrtclRecv(r) ==
  /\ pc[r] = "irecv"
  /\ rbuf' = [rbuf EXCEPT ![r] = [i \in 1..Starts(Receives(r))[NRanks] |-> Zero]]
  /\ rreq' = [rreq EXCEPT ![r] = {q \in Ranks \X Tags : Receives(r)[q[1]] > 0}]
  /\ Go(r, "sendp")
  /\ UNCHANGED <<cycle, prtcl, npart, sendlist, sends, allsends, sbuf, flight, sreq, eachrank>>

PackAndSendPrtcls(r) ==
  /\ pc[r] = "sendp"
  /\ sbuf' = [sbuf EXCEPT ![r] = [i \in DOMAIN sendlist[r] |-> prtcl[r][sendlist[r][i][1]]]]
  /\ flight' = [flight EXCEPT ![r] =
       [d \in Ranks |-> [t \in Tags |->
          IF sends[r][d] > 0 THEN Append(@[d][t], <<Starts(sends[r])[d], sends[r][d]>>)
                             ELSE @[d][t]]]]
  /\ sreq' = [sreq EXCEPT ![r] = {q \in Ranks \X Tags : sends[r][q[1]] > 0}]
  /\ Go(r, "recvp")
  /\ UNCHANGED <<cycle, prtcl, npart, sendlist, sends, allsends, rbuf, rreq, eachrank>>

-----------------------------------------------------------------------------
(***************************************************************************)
(* RecvAndUnpackPrtcls.  Each call sorts the send list by index and makes  *)
(* room for arrivals, also a call that finds a message missing.            *)
(***************************************************************************)
NSend(r) == Len(sendlist[r])
NRecv(r) == Starts(Receives(r))[NRanks]
NewNpart(r) == npart[r] + NRecv(r) - NSend(r)

Grown(r) ==
  IF NRecv(r) > NSend(r)
  THEN [p \in 1..NewNpart(r) |-> IF p \in DOMAIN prtcl[r] THEN prtcl[r][p] ELSE Zero]
  ELSE prtcl[r]

RecvIncomplete(r) ==
  /\ pc[r] = "recvp"
  /\ rreq[r] # {}
  /\ \E hole \in SortedBy(sendlist[r], 1) : sendlist' = [sendlist EXCEPT ![r] = hole]
  /\ prtcl' = [prtcl EXCEPT ![r] = Grown(r)]
  /\ UNCHANGED <<cycle, pc, npart, sends, allsends, sbuf, rbuf, flight, sreq, rreq, eachrank>>

\* arrivals go into the holes, then to the end of the arrays
PlaceOf(r, hole, n) ==
  IF n <= NSend(r) THEN hole[n][1] ELSE npart[r] + n - NSend(r)
Placed(r, hole) ==
  [p \in DOMAIN Grown(r) |->
     IF \E n \in DOMAIN rbuf[r] : PlaceOf(r, hole, n) = p
     THEN rbuf[r][CHOOSE n \in DOMAIN rbuf[r] : PlaceOf(r, hole, n) = p]
     ELSE Grown(r)[p]]

\* holes that remain are filled from the end of the arrays: n-th from the end,
\* unless that one is itself a hole, the last one not yet passed
\* (Faulty variant: without regard to holes at the end.)
FillBlindly(r, hole, acc, n) ==
  [at |-> [acc.at EXCEPT ![hole[acc.next][1]] = acc.at[npart[r] + 1 - n]],
   next |-> acc.next + 1, last |-> acc.last]
Fill(r, hole, acc, n) ==
  LET nend == npart[r] + 1 - n
  IN  IF nend > hole[acc.last][1]
      THEN [at |-> [acc.at EXCEPT ![hole[acc.next][1]] = acc.at[nend]],
            next |-> acc.next + 1, last |-> acc.last]
      ELSE [at |-> acc.at, next |-> acc.next, last |-> acc.last - 1]
Filled(r, hole) ==
  LET remain == IF NSend(r) > NRecv(r) THEN NSend(r) - NRecv(r) ELSE 0
      acc[n \in 0..remain] ==
        IF n = 0
        THEN [at |-> Placed(r, hole), next |-> NRecv(r) + 1, last |-> NSend(r)]
        ELSE Fill(r, hole, acc[n - 1], n)
  IN  acc[remain].at

RecvAndUnpackPrtcls(r) ==
  /\ pc[r] = "recvp"
  /\ rreq[r] = {}
  /\ \E hole \in SortedBy(sendlist[r], 1) :
       /\ sendlist' = [sendlist EXCEPT ![r] = hole]
       /\ prtcl' = [prtcl EXCEPT ![r] = [p \in 1..NewNpart(r) |-> Filled(r, hole)[p]]]
  /\ npart' = [npart EXCEPT ![r] = NewNpart(r)]
  /\ Go(r, "share")
  /\ UNCHANGED <<cycle, sends, allsends, sbuf, rbuf, flight, sreq, rreq, eachrank>>

\* the all-gather of new_npart, inside the same task
ShareCounts(r) ==
  /\ pc[r] = "share"
  /\ \A q \in Ranks :
       Reached(q, r, {"push", "newgid", "count", "gather", "irecv", "sendp", "recvp"})
  /\ eachrank' = [eachrank EXCEPT ![r] = npart]
  /\ Go(r, "crecv")
  /\ UNCHANGED <<cycle, prtcl, npart, sendlist, sends, allsends, sbuf, rbuf, flight, sreq, rreq>>

ClearPrtclRecv(r) ==
  /\ pc[r] = "crecv"
  /\ rreq[r] = {}
  /\ Go(r, "csend")
  /\ UNCHANGED <<cycle, prtcl, npart, sendlist, sends, allsends, sbuf, rbuf, flight, sreq, rreq, eachrank>>

\* and on to the next cycle
ClearPrtclSend(r) ==
  /\ pc[r] = "csend"
  /\ sreq[r] = {}
  /\ cycle' = [cycle EXCEPT ![r] = @ + 1]
  /\ Go(r, "push")
  /\ UNCHANGED <<prtcl, npart, sendlist, sends, allsends, sbuf, rbuf, flight, sreq, rreq, eachrank>>

\* MPI: the oldest message of s for d with this tag meets the receive posted for it
Deliver(s, d, t) ==
  /\ flight[s][d][t] # <<>>
  /\ <<s, t>> \in rreq[d]
  /\ LET msg  == Head(flight[s][d][t])
         to   == Starts(Receives(d))[s]
         part(old, new) == IF t = 0 THEN [old EXCEPT !.vel = new.vel, !.at = new.at]
                                    ELSE [old EXCEPT !.id = new.id, !.gid = new.gid]
     IN  rbuf' = [rbuf EXCEPT ![d] =
                    [i \in DOMAIN @ |-> IF i - to \in 1..msg[2]
                                        THEN part(@[i], sbuf[s][msg[1] + i - to])
                                        ELSE @[i]]]
  /\ flight' = [flight EXCEPT ![s][d][t] = Tail(@)]
  /\ rreq' = [rreq EXCEPT ![d] = @ \ {<<s, t>>}]
  /\ sreq' = [sreq EXCEPT ![s] = @ \ {<<d, t>>}]
  /\ UNCHANGED <<cycle, pc, prtcl, npart, sendlist, sends, allsends, sbuf, eachrank>>

-----------------------------------------------------------------------------
\* a step of rank r that moves it on
Advance(r) ==
  \/ Push(r) \/ SetNewPrtclGID(r) \/ CountSends(r) \/ GatherSends(r) \/ InitPrtclRecv(r)
  \/ PackAndSendPrtcls(r) \/ RecvAndUnpackPrtcls(r) \/ ShareCounts(r)
  \/ ClearPrtclRecv(r) \/ ClearPrtclSend(r)

Next ==
  \/ \E r \in Ranks : Advance(r) \/ RecvIncomplete(r)
  \/ \E s, d \in Ranks, t \in Tags : Deliver(s, d, t)

Spec == Init /\ [][Next]_vars

\* ranks keep executing, MPI delivers what has a receive
Fairness ==
  /\ \A r \in Ranks : WF_vars(Advance(r))
  /\ \A s, d \in Ranks, t \in Tags : WF_vars(Deliver(s, d, t))

FairSpec == Spec /\ Fairness

-----------------------------------------------------------------------------
InExchange(r) == pc[r] \in {"count", "gather", "irecv", "sendp", "recvp"}

\* Outside the exchange a rank's arrays are dense and hold its own particles: as
\* many columns as nprtcl_thispack, ints and Reals of each column of the same
\* particle, which lies in the block it is assigned to and which the rank owns
ArraysHoldOwnParticles ==
  \A r \in Ranks : ~InExchange(r) =>
    /\ Len(prtcl[r]) = npart[r]
    /\ \A p \in 1..npart[r] :
         LET x == prtcl[r][p]
         IN  /\ x.id = x.vel
             /\ Owner[x.gid] = r
             /\ pc[r] # "newgid" => x.gid = x.at

\* No particle is lost or doubled: whenever no rank is between being counted and
\* unpacking, each particle of the run is in the arrays of one rank, once, and a
\* rank knows how many every rank has (outputs place theirs in one file by that)
NoParticleLostOrDoubled ==
  (\A r \in Ranks : pc[r] \notin {"gather", "irecv", "sendp", "recvp"}) =>
    /\ \A i \in Ids : \E r \in Ranks : \E p \in 1..npart[r] :
         \A s \in Ranks : \A q \in 1..npart[s] :
           prtcl[s][q].id = i <=> s = r /\ q = p
    /\ \A r \in Ranks : pc[r] # "share" => eachrank[r] = npart

\* Every rank that starts an exchange completes it, whatever the others send
EveryExchangeCompletes == \A r \in Ranks : pc[r] = "newgid" ~> pc[r] = "push"

=============================================================================
