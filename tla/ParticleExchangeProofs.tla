------------------------ MODULE ParticleExchangeProofs ------------------------
(***************************************************************************)
(* Proof that the exchange of particles neither loses nor doubles one, for *)
(* any number of ranks, particles and cycles, any drift, and any order in  *)
(* which threads, sorts and messages come, as long as the send list has    *)
(* room for the particles that leave (Fits).                               *)
(***************************************************************************)
EXTENDS ParticleExchange, FiniteSetTheorems, WellFoundedInduction, TLAPS

\* What the code takes for granted: SetNewPrtclGID never writes past the list it
\* made room for
Fits == \A r \in Ranks :
          pc[r] = "newgid" => Cardinality(Leaving(r)) <= npart[r] \div SendListPart

\* a particle, and a column that may not hold one yet
Particle == [id : Nat, gid : Blocks, vel : Nat, at : Blocks]
Column   == [id : Nat, gid : Blocks \cup {0}, vel : Nat, at : Blocks \cup {0}]

Steps == {"push", "newgid", "count", "gather", "irecv", "sendp", "recvp", "share", "crecv", "csend"}

TypeOK ==
  /\ cycle \in [Ranks -> Nat] /\ pc \in [Ranks -> Steps]
  /\ prtcl \in [Ranks -> Seq(Column)] /\ npart \in [Ranks -> Nat]
  /\ sendlist \in [Ranks -> Seq((Nat \ {0}) \X Ranks)]
  /\ sends \in [Ranks -> [Ranks -> Nat]]
  /\ allsends \in [Ranks -> [Ranks -> [Ranks -> Nat]]]
  /\ sbuf \in [Ranks -> Seq(Column)] /\ rbuf \in [Ranks -> Seq(Column)]
  /\ flight \in [Ranks -> [Ranks -> [Tags -> Seq(Nat \X Nat)]]]
  /\ sreq \in [Ranks -> SUBSET (Ranks \X Tags)]
  /\ rreq \in [Ranks -> SUBSET (Ranks \X Tags)]
  /\ eachrank \in [Ranks -> [Ranks -> Nat]]

-----------------------------------------------------------------------------
(***************************************************************************)
(* How far the ranks may be apart.  The two all-gathers divide a run: all  *)
(* ranks are between two exchanges, or all are in the same exchange.       *)
(***************************************************************************)
Turn(r) == IF pc[r] \in {"share", "crecv", "csend"} THEN cycle[r] + 1 ELSE cycle[r]
Between ==
  /\ \A r \in Ranks : pc[r] \notin {"irecv", "sendp", "recvp"}
  /\ \A q, r \in Ranks : Turn(q) = Turn(r)
Exchanging ==
  /\ \A r \in Ranks : pc[r] \in {"gather", "irecv", "sendp", "recvp", "share"}
  /\ \A q, r \in Ranks : cycle[q] = cycle[r]
AllAt(step) == \A r \in Ranks : pc[r] = step

\* f takes each value of S at one place of D, and no other value
Enumerates(f, D, S) ==
  /\ \A k \in D : f[k] \in S
  /\ \A x \in S : \E k \in D : f[k] = x
  /\ \A k, l \in D : f[k] = f[l] => k = l

\* the arrays of all ranks have each particle of the run in one column
Whole(arr) ==
  /\ \A r \in Ranks : arr[r] \in Seq(Particle)
  /\ \A r \in Ranks : \A p \in DOMAIN arr[r] : arr[r][p].id = arr[r][p].vel
  /\ \A i \in Ids : \E r \in Ranks : \E p \in DOMAIN arr[r] : arr[r][p].id = i
  /\ \A r, s \in Ranks : \A p \in DOMAIN arr[r], q \in DOMAIN arr[s] :
       arr[r][p].id = arr[s][q].id => r = s /\ p = q

\* list has the columns of the particles that leave r, with their destination
Listing(list, arr, r) ==
  /\ list \in Seq((1..Len(arr)) \X Ranks)
  /\ \A i \in DOMAIN list : Owner[arr[list[i][1]].at] = list[i][2] /\ list[i][2] # r
  /\ \A i, j \in DOMAIN list : list[i][1] = list[j][1] => i = j
  /\ \A p \in DOMAIN arr : Owner[arr[p].at] # r => \E i \in DOMAIN list : list[i][1] = p
ByRank(list) == \A i, j \in DOMAIN list : i < j => list[i][2] <= list[j][2]

\* Between exchanges: arrays are whole, nothing is under way, and the list of those
\* that will leave is the one their positions ask for
Arrays(r) ==
  /\ Len(prtcl[r]) = npart[r]
  /\ \A p \in DOMAIN prtcl[r] :
       /\ pc[r] \in {"share", "crecv", "csend", "push", "newgid"} => Owner[prtcl[r][p].gid] = r
       /\ pc[r] # "newgid" => prtcl[r][p].gid = prtcl[r][p].at
Lists(r) ==
  /\ pc[r] \in {"count", "gather"} => Listing(sendlist[r], prtcl[r], r)
  /\ pc[r] = "gather" => ByRank(sendlist[r]) /\ sends[r] = Runs(sendlist[r])
Quiet ==
  /\ \A s, d \in Ranks, t \in Tags : flight[s][d][t] = <<>>
  /\ \A r \in Ranks : rreq[r] = {}
BetweenInv ==
  /\ Whole(prtcl)
  /\ Quiet
  /\ \A r \in Ranks : Arrays(r) /\ Lists(r) /\ (pc[r] # "share" => eachrank[r] = npart)

\* In an exchange that started with the arrays old
Out(old, s, d) == {old[s][q] : q \in {p \in DOMAIN old[s] : Owner[old[s][p].at] = d}}
Mine(old, d) == UNION {Out(old, s, d) : s \in Ranks}
Part(n, d) == (Starts(n)[d] + 1)..(Starts(n)[d] + n[d])

Sent(s) == pc[s] \in {"recvp", "share"}
Posted(d) == pc[d] \in {"sendp", "recvp"}

\* the arrays of a rank that has not unpacked are those counted, maybe grown
Counted(old, r) ==
  pc[r] # "share" =>
    /\ npart[r] = Len(old[r])
    /\ Listing(sendlist[r], old[r], r)
    /\ pc[r] # "recvp" => prtcl[r] = old[r] /\ ByRank(sendlist[r]) /\ sends[r] = Runs(sendlist[r])
    /\ pc[r] = "recvp" =>
         /\ Len(prtcl[r]) \in {npart[r]} \cup
              (IF NRecv(r) > NSend(r) THEN {NewNpart(r)} ELSE {})
         /\ \A p \in 1..npart[r] : prtcl[r][p] = old[r][p]
\* what a rank has sent is the list its neighbours counted with
Announced(old, s) ==
  /\ sends[s][s] = 0
  /\ \A d \in Ranks \ {s} : sends[s][d] = 0 => Out(old, s, d) = {}
  /\ pc[s] \in {"irecv", "sendp", "recvp", "share"} => allsends[s] = sends
  /\ Sent(s) => \A d \in Ranks \ {s} : Enumerates(sbuf[s], Part(sends[s], d), Out(old, s, d))
\* a message is in flight from when it is sent to when its receive is completed
Messages(s, d, t) ==
  /\ <<s, t>> \in rreq[d] => Posted(d) /\ sends[s][d] > 0
  /\ flight[s][d][t] =
       IF /\ Sent(s) /\ sends[s][d] > 0
          /\ pc[d] \in {"gather", "irecv"} \/ <<s, t>> \in rreq[d]
       THEN << <<Starts(sends[s])[d], sends[s][d]>> >> ELSE <<>>
\* a receive that was posted and is not under way has been completed, and what has
\* arrived is where it belongs, Reals and ints each
Arrived(s, d, t) ==
  pc[d] \in {"sendp", "recvp", "share"} /\ sends[s][d] > 0 /\ <<s, t>> \notin rreq[d] =>
    /\ Sent(s)
    /\ Posted(d) => \A j \in 1..sends[s][d] :
         LET x == rbuf[d][Starts(Receives(d))[s] + j]
             y == sbuf[s][Starts(sends[s])[d] + j]
         IN  IF t = 0 THEN x.vel = y.vel /\ x.at = y.at ELSE x.id = y.id /\ x.gid = y.gid
Received(old, d) ==
  /\ Posted(d) => Len(rbuf[d]) = NRecv(d)
  /\ pc[d] = "share" => /\ Len(prtcl[d]) = npart[d]
                        /\ Enumerates(prtcl[d], 1..npart[d], Mine(old, d))
ExchangeInv(old) ==
  /\ old \in [Ranks -> Seq(Particle)] /\ Whole(old)
  /\ \A r \in Ranks : \A p \in DOMAIN old[r] : old[r][p].gid = old[r][p].at
  /\ \A r \in Ranks : Counted(old, r) /\ Announced(old, r) /\ Received(old, r)
  /\ \A s, d \in Ranks, t \in Tags : Messages(s, d, t) /\ Arrived(s, d, t)

\* (When all ranks are about to gather, or have just unpacked, both are true.)
IInv ==
  /\ TypeOK
  /\ \/ Between /\ BetweenInv
     \/ Exchanging /\ \E old \in [Ranks -> Seq(Particle)] : ExchangeInv(old)

-----------------------------------------------------------------------------
\* A set of natural numbers has a least element
LEMMA Least ==
  ASSUME NEW S, S \subseteq Nat, S # {}
  PROVE  \E m \in S : \A k \in S : m <= k
<1>1. PICK m \in S : \A k \in S : ~(<<k, m>> \in OpToRel(<, Nat))
  <2> DEFINE R == OpToRel(<, Nat)
  <2>1. IsWellFoundedOn(R, Nat)
    BY NatLessThanWellFounded
  <2> HIDE DEF R
  <2>2. \E m \in S : \A k \in S : ~(<<k, m>> \in R)
    BY <2>1, WFMin
  <2> QED
    BY <2>2 DEF R
<1>2. \A k \in S : ~(k < m)
  BY <1>1 DEF OpToRel
<1> QED
  BY <1>2

\* Induction up to n, for a set
LEMMA UpTo ==
  ASSUME NEW n \in Nat, NEW S, 0 \in S, \A k \in 0..(n - 1) : k \in S => k + 1 \in S
  PROVE  \A k \in 0..n : k \in S
<1> DEFINE B == {k \in 0..n : k \notin S}
<1>1. SUFFICES ASSUME B # {} PROVE FALSE
  OBVIOUS
<1>2. B \subseteq Nat
  OBVIOUS
<1>3. PICK m \in B : \A k \in B : m <= k
  BY <1>1, <1>2, Least
<1>4. m # 0 /\ m - 1 \in 0..(n - 1) /\ m - 1 \notin B
  BY <1>3
<1>5. m - 1 \in S
  BY <1>4
<1>6. (m - 1) + 1 \in S
  BY <1>4, <1>5
<1> QED
  BY <1>3, <1>6

\* An element of a sequence
LEMMA ElementOf ==
  ASSUME NEW T, NEW q \in Seq(T), NEW i \in DOMAIN q
  PROVE  q[i] \in T
  OBVIOUS

\* A function on 1..n is a sequence
LEMMA ListOf ==
  ASSUME NEW T, NEW n \in Nat, NEW f \in [1..n -> T]
  PROVE  f \in Seq(T) /\ DOMAIN f = 1..n /\ Len(f) = n
<1>1. f \in Seq(T) /\ DOMAIN f = 1..n
  OBVIOUS
<1>2. DOMAIN f = 1..Len(f) /\ Len(f) \in Nat
  BY <1>1
<1> QED
  BY <1>1, <1>2

-----------------------------------------------------------------------------
(***************************************************************************)
(* Counts and places                                                       *)
(***************************************************************************)
LEMMA Ranking == NRanks \in Nat \ {0} /\ Ranks = 0..(NRanks - 1)
  BY ParticlesAssumption DEF Ranks

\* The recursion of Starts has a solution
LEMMA StartsIs ==
  ASSUME NEW n \in [Ranks -> Nat]
  PROVE  /\ Starts(n) \in [0..NRanks -> Nat]
         /\ Starts(n)[0] = 0
         /\ \A k \in Ranks : Starts(n)[k + 1] = Starts(n)[k] + n[k]
<1> DEFINE Body(f) == [k \in 0..NRanks |-> IF k = 0 THEN 0 ELSE f[k - 1] + n[k - 1]]
           Partial(g, m) == /\ g \in [0..m -> Nat] /\ g[0] = 0
                            /\ \A k \in 1..m : g[k] = g[k - 1] + n[k - 1]
           S == {m \in 0..NRanks : \E g \in [0..m -> Nat] : Partial(g, m)}
<1>1. NRanks \in Nat /\ Ranks = 0..(NRanks - 1)
  BY Ranking
<1>2. 0 \in S
  <2> DEFINE z == [k \in 0..0 |-> 0]
  <2>1. z \in [0..0 -> Nat] /\ Partial(z, 0)
    OBVIOUS
  <2> HIDE DEF z
  <2> QED
    BY <1>1, <2>1
<1>3. ASSUME NEW m \in 0..(NRanks - 1), m \in S
      PROVE  m + 1 \in S
  <2>1. PICK g \in [0..m -> Nat] : Partial(g, m)
    BY <1>3
  <2> DEFINE h == [k \in 0..(m + 1) |-> IF k = m + 1 THEN g[m] + n[m] ELSE g[k]]
  <2>2. m \in Nat /\ n[m] \in Nat /\ m + 1 \in 0..NRanks
    BY <1>1
  <2>3. g[m] \in Nat /\ h \in [0..(m + 1) -> Nat]
    BY <2>2
  <2>4. h[0] = 0
    BY <2>1, <2>2
  <2>5. \A k \in 1..(m + 1) : h[k] = h[k - 1] + n[k - 1]
    <3> SUFFICES ASSUME NEW k \in 1..(m + 1) PROVE h[k] = h[k - 1] + n[k - 1]
      OBVIOUS
    <3>1. CASE k = m + 1
      BY <2>2, <2>3, <3>1
    <3>2. CASE k # m + 1
      <4>1. k \in 1..m /\ k - 1 \in 0..m
        BY <2>2, <3>2
      <4>2. g[k] = g[k - 1] + n[k - 1]
        BY <2>1, <4>1
      <4> QED
        BY <2>2, <4>1, <4>2
    <3> QED
      BY <3>1, <3>2
  <2> HIDE DEF h
  <2>6. Partial(h, m + 1)
    BY <2>3, <2>4, <2>5
  <2> QED
    BY <2>2, <2>3, <2>6
<1>4. NRanks \in S
  <2> HIDE DEF S
  <2>1. \A k \in 0..NRanks : k \in S
    BY <1>1, <1>2, <1>3, UpTo
  <2> QED
    BY <1>1, <2>1
<1>5. PICK g \in [0..NRanks -> Nat] : Partial(g, NRanks)
  BY <1>4
<1>6. g = Body(g)
  <2>1. \A k \in 0..NRanks : g[k] = Body(g)[k]
    BY <1>1, <1>5
  <2> QED
    BY <2>1
<1>7. Starts(n) = CHOOSE f : f = Body(f)
  BY DEF Starts
<1> HIDE DEF Body
<1>8. Starts(n) = Body(Starts(n))
  BY <1>6, <1>7
<1>9. /\ Starts(n)[0] = 0
      /\ \A k \in Ranks : Starts(n)[k + 1] = Starts(n)[k] + n[k]
  <2>1. \A k \in 0..NRanks : Starts(n)[k] = IF k = 0 THEN 0 ELSE Starts(n)[k - 1] + n[k - 1]
    BY <1>8 DEF Body
  <2> QED
    BY <1>1, <2>1
<1>10. \A k \in 0..NRanks : Starts(n)[k] \in Nat
  <2> DEFINE T == {k \in Nat : Starts(n)[k] \in Nat}
  <2>1. 0 \in T
    BY <1>9
  <2>2. \A k \in 0..(NRanks - 1) : k \in T => k + 1 \in T
    BY <1>1, <1>9
  <2> HIDE DEF T
  <2>3. \A k \in 0..NRanks : k \in T
    BY <1>1, <2>1, <2>2, UpTo
  <2> QED
    BY <2>3 DEF T
<1>11. Starts(n) \in [0..NRanks -> Nat]
  <2>1. DOMAIN Starts(n) = 0..NRanks /\ Starts(n) = [k \in 0..NRanks |-> Starts(n)[k]]
    BY <1>8 DEF Body
  <2> QED
    BY <1>10, <2>1
<1> QED
  BY <1>9, <1>11

\* Places grow with the rank
LEMMA StartsGrow ==
  ASSUME NEW n \in [Ranks -> Nat]
  PROVE  \A k, l \in 0..NRanks : k <= l => Starts(n)[k] <= Starts(n)[l]
<1>1. NRanks \in Nat /\ Ranks = 0..(NRanks - 1)
  BY Ranking
<1>2. SUFFICES ASSUME NEW k \in 0..NRanks
               PROVE  \A l \in 0..NRanks : k <= l => Starts(n)[k] <= Starts(n)[l]
  OBVIOUS
<1> DEFINE f == Starts(n)
           T == {l \in Nat : k <= l => f[k] <= f[l]}
<1>3. /\ f \in [0..NRanks -> Nat]
      /\ \A i \in Ranks : f[i + 1] = f[i] + n[i]
  BY StartsIs
<1> HIDE DEF f
<1>4. 0 \in T
  BY <1>1, <1>3
<1>5. \A l \in 0..(NRanks - 1) : l \in T => l + 1 \in T
  <2> SUFFICES ASSUME NEW l \in 0..(NRanks - 1), l \in T, k <= l + 1
               PROVE  f[k] <= f[l + 1]
    BY <1>1
  <2>1. f[l + 1] = f[l] + n[l] /\ f[l] \in Nat /\ n[l] \in Nat /\ f[k] \in Nat
    BY <1>1, <1>3
  <2>2. CASE k = l + 1
    BY <2>1, <2>2
  <2>3. CASE k # l + 1
    BY <1>1, <2>1, <2>3
  <2> QED
    BY <2>2, <2>3
<1> HIDE DEF T
<1>6. \A l \in 0..NRanks : l \in T
  BY <1>1, <1>4, <1>5, UpTo
<1> QED
  BY <1>6 DEF f, T

\* Each place belongs to the part of one rank, and the parts do not overlap
LEMMA PartsCover ==
  ASSUME NEW n \in [Ranks -> Nat]
  PROVE  /\ \A k \in Ranks : /\ Part(n, k) \subseteq 1..Starts(n)[NRanks]
                             /\ Starts(n)[k] \in Nat /\ n[k] \in Nat
         /\ \A i \in 1..Starts(n)[NRanks] : \E k \in Ranks : i \in Part(n, k)
         /\ \A k, l \in Ranks : \A i \in Part(n, k) : i \in Part(n, l) => k = l
<1> DEFINE f == Starts(n)
<1>1. NRanks \in Nat /\ Ranks = 0..(NRanks - 1)
  BY Ranking
<1>2. /\ f \in [0..NRanks -> Nat] /\ f[0] = 0
      /\ \A k \in Ranks : f[k + 1] = f[k] + n[k]
      /\ \A k, l \in 0..NRanks : k <= l => f[k] <= f[l]
      /\ \A k \in Ranks : Part(n, k) = (f[k] + 1)..(f[k] + n[k])
  BY StartsIs, StartsGrow DEF Part
<1> HIDE DEF f
<1>3. \A k \in Ranks : /\ k \in 0..NRanks /\ k + 1 \in 0..NRanks /\ NRanks \in 0..NRanks /\ k \in Nat
                       /\ f[k] \in Nat /\ f[k + 1] \in Nat /\ n[k] \in Nat /\ f[NRanks] \in Nat
                       /\ k + 1 <= NRanks /\ Part(n, k) = (f[k] + 1)..f[k + 1]
  BY <1>1, <1>2
<1>4. \A k \in Ranks : Part(n, k) \subseteq 1..f[NRanks]
  <2> SUFFICES ASSUME NEW k \in Ranks PROVE Part(n, k) \subseteq 1..f[NRanks]
    OBVIOUS
  <2>1. f[k + 1] <= f[NRanks]
    BY <1>2, <1>3
  <2> QED
    BY <1>3, <2>1
<1>5. ASSUME NEW i \in 1..f[NRanks]
      PROVE  \E k \in Ranks : i \in Part(n, k)
  <2> DEFINE A == {k \in 0..NRanks : i <= f[k]}
  <2>1. A \subseteq Nat /\ NRanks \in A
    BY <1>1, <1>2
  <2>2. PICK m \in A : \A k \in A : m <= k
    BY <2>1, Least
  <2>3. m # 0
    BY <1>1, <1>2, <2>2
  <2>4. m - 1 \in Ranks /\ m - 1 \notin A /\ (m - 1) + 1 = m
    BY <1>1, <2>2, <2>3
  <2>5. f[m - 1] < i /\ i <= f[m]
    BY <1>1, <1>3, <2>2, <2>4
  <2>6. Part(n, m - 1) = (f[m - 1] + 1)..f[m] /\ f[m - 1] \in Nat /\ f[m] \in Nat
    BY <1>3, <2>4
  <2> QED
    BY <2>4, <2>5, <2>6
<1>6. ASSUME NEW k \in Ranks, NEW l \in Ranks, NEW i \in Part(n, k), i \in Part(n, l), k < l
      PROVE  FALSE
  <2>1. f[k + 1] <= f[l]
    BY <1>1, <1>2, <1>3, <1>6
  <2>2. i \in (f[k] + 1)..f[k + 1] /\ i \in (f[l] + 1)..f[l + 1]
    BY <1>3, <1>6
  <2> QED
    BY <1>3, <2>1, <2>2
<1>7. \A k, l \in Ranks : \A i \in Part(n, k) : i \in Part(n, l) => k = l
  BY <1>1, <1>6
<1> QED
  BY <1>3, <1>4, <1>5, <1>7 DEF f

-----------------------------------------------------------------------------
(***************************************************************************)
(* The send list                                                           *)
(***************************************************************************)
\* A sort permutes the list
LEMMA SortPermutes ==
  ASSUME NEW list, NEW key, NEW q \in SortedBy(list, key)
  PROVE  \E p \in [DOMAIN list -> DOMAIN list] :
           /\ q = [i \in DOMAIN list |-> list[p[i]]]
           /\ \A i, j \in DOMAIN list : p[i] = p[j] => i = j
           /\ \A i \in DOMAIN list : \E j \in DOMAIN list : p[j] = i
<1>1. PICK p \in Bijection(DOMAIN list, DOMAIN list) : q = [i \in DOMAIN list |-> list[p[i]]]
  BY DEF SortedBy
<1>2. /\ p \in [DOMAIN list -> DOMAIN list]
      /\ \A i, j \in DOMAIN list : p[i] = p[j] => i = j
      /\ \A i \in DOMAIN list : \E j \in DOMAIN list : p[j] = i
  BY <1>1 DEF Bijection, Injection, Surjection, IsInjective
<1> QED
  BY <1>1, <1>2

\* and orders it by the key
LEMMA SortOrders ==
  ASSUME NEW T, NEW list \in Seq(T), NEW key, NEW q \in SortedBy(list, key)
  PROVE  /\ q \in Seq(T) /\ Len(q) = Len(list) /\ DOMAIN q = DOMAIN list
         /\ \A i, j \in DOMAIN q : i < j => q[i][key] <= q[j][key]
<1>1. PICK p \in [DOMAIN list -> DOMAIN list] : q = [i \in DOMAIN list |-> list[p[i]]]
  BY DEF SortedBy, Bijection, Injection
<1>2. DOMAIN list = 1..Len(list) /\ Len(list) \in Nat
  OBVIOUS
<1>3. q \in [1..Len(list) -> T]
  BY <1>1, <1>2
<1>4. q \in Seq(T) /\ Len(q) = Len(list) /\ DOMAIN q = DOMAIN list
  BY <1>2, <1>3
<1>5. \A i, j \in DOMAIN q : i < j => q[i][key] <= q[j][key]
  BY <1>4 DEF SortedBy
<1> QED
  BY <1>4, <1>5

\* A sorted list is a list of the same particles
LEMMA ListingSorted ==
  ASSUME NEW r \in Ranks, NEW arr, NEW list, Listing(list, arr, r),
         NEW key, NEW q \in SortedBy(list, key)
  PROVE  Listing(q, arr, r) /\ Len(q) = Len(list) /\ DOMAIN q = DOMAIN list
<1> DEFINE T == (1..Len(arr)) \X Ranks
<1>1. list \in Seq(T)
  BY DEF Listing
<1> HIDE DEF T
<1>2. /\ q \in Seq(T) /\ Len(q) = Len(list) /\ DOMAIN q = DOMAIN list
  BY <1>1, SortOrders
<1>3. PICK p \in [DOMAIN list -> DOMAIN list] :
           /\ q = [i \in DOMAIN list |-> list[p[i]]]
           /\ \A i, j \in DOMAIN list : p[i] = p[j] => i = j
           /\ \A i \in DOMAIN list : \E j \in DOMAIN list : p[j] = i
  BY SortPermutes
<1>4. /\ \A i \in DOMAIN list : Owner[arr[list[i][1]].at] = list[i][2] /\ list[i][2] # r
      /\ \A i, j \in DOMAIN list : list[i][1] = list[j][1] => i = j
      /\ \A x \in DOMAIN arr : Owner[arr[x].at] # r => \E i \in DOMAIN list : list[i][1] = x
  BY DEF Listing
<1>5. \A i \in DOMAIN list : p[i] \in DOMAIN list
  BY <1>3
<1>6. \A i \in DOMAIN q : Owner[arr[q[i][1]].at] = q[i][2] /\ q[i][2] # r
  <2> SUFFICES ASSUME NEW i \in DOMAIN list
               PROVE  Owner[arr[q[i][1]].at] = q[i][2] /\ q[i][2] # r
    BY <1>2
  <2>1. q[i] = list[p[i]] /\ p[i] \in DOMAIN list
    BY <1>3, <1>5
  <2> QED
    BY <1>4, <2>1
<1>7. \A i, j \in DOMAIN q : q[i][1] = q[j][1] => i = j
  <2> SUFFICES ASSUME NEW i \in DOMAIN list, NEW j \in DOMAIN list, q[i][1] = q[j][1]
               PROVE  i = j
    BY <1>2
  <2>1. q[i] = list[p[i]] /\ p[i] \in DOMAIN list /\ q[j] = list[p[j]] /\ p[j] \in DOMAIN list
    BY <1>3, <1>5
  <2>2. p[i] = p[j]
    BY <1>4, <2>1
  <2> QED
    BY <1>3, <2>2
<1>8. \A x \in DOMAIN arr : Owner[arr[x].at] # r => \E i \in DOMAIN q : q[i][1] = x
  <2> SUFFICES ASSUME NEW x \in DOMAIN arr, Owner[arr[x].at] # r
               PROVE  \E i \in DOMAIN list : q[i][1] = x
    BY <1>2
  <2>1. PICK j \in DOMAIN list : list[j][1] = x
    BY <1>4
  <2>2. PICK i \in DOMAIN list : p[i] = j
    BY <1>3
  <2> QED
    BY <1>3, <2>1, <2>2
<1> QED
  BY <1>2, <1>6, <1>7, <1>8 DEF Listing, T

\* In a list sorted by rank the entries of a rank are in the places of its part
LEMMA RunsAre ==
  ASSUME NEW T, NEW list \in Seq(T \X Ranks), ByRank(list)
  PROVE  /\ Runs(list) \in [Ranks -> Nat]
         /\ Starts(Runs(list))[NRanks] = Len(list)
         /\ \A d \in Ranks, i \in DOMAIN list : list[i][2] = d <=> i \in Part(Runs(list), d)
<1> DEFINE L == Len(list)
           n == Runs(list)
           f == Starts(n)
           A == {k \in Nat : f[k] \in 0..L /\ \A i \in 1..L : list[i][2] < k <=> i <= f[k]}
<1>1. NRanks \in Nat \ {0} /\ Ranks = 0..(NRanks - 1)
  BY Ranking
<1>2. L \in Nat /\ DOMAIN list = 1..L /\ \A i \in 1..L : list[i][2] \in Ranks
  OBVIOUS
<1>3. \A d \in Ranks : n[d] = Cardinality({i \in 1..L : list[i][2] = d})
  BY <1>2 DEF Runs
<1>4. n \in [Ranks -> Nat]
  <2>1. \A d \in Ranks : Cardinality({i \in 1..L : list[i][2] = d}) \in Nat
    <3> SUFFICES ASSUME NEW d \in Ranks
                 PROVE  Cardinality({i \in 1..L : list[i][2] = d}) \in Nat
      OBVIOUS
    <3>1. IsFiniteSet(1..L)
      BY <1>2, FS_Interval
    <3>2. {i \in 1..L : list[i][2] = d} \subseteq 1..L
      OBVIOUS
    <3>3. IsFiniteSet({i \in 1..L : list[i][2] = d})
      BY <3>1, <3>2, FS_Subset
    <3> QED
      BY <3>3, FS_CardinalityType
  <2> QED
    BY <1>2, <2>1 DEF Runs
<1> HIDE DEF n
<1>5. /\ f \in [0..NRanks -> Nat] /\ f[0] = 0
      /\ \A k \in Ranks : f[k + 1] = f[k] + n[k]
  BY <1>4, StartsIs
<1> HIDE DEF f, L
<1>6. 0 \in A
  BY <1>1, <1>2, <1>5
<1>7. ASSUME NEW k \in 0..(NRanks - 1), k \in A
      PROVE  k + 1 \in A
  <2> DEFINE e == f[k]
             B == {i \in (e + 1)..(L + 1) : i = L + 1 \/ list[i][2] # k}
             D == {i \in 1..L : list[i][2] = k}
  <2>1. e \in 0..L /\ k \in Ranks /\ k \in Nat /\ (\A i \in 1..L : list[i][2] < k <=> i <= e)
    BY <1>1, <1>7
  <2> HIDE DEF e
  <2>2. B \subseteq Nat /\ L + 1 \in B
    BY <1>2, <2>1
  <2>3. PICK b \in B : \A i \in B : b <= i
    BY <2>2, Least
  <2>4. b \in (e + 1)..(L + 1) /\ (b = L + 1 \/ (b \in 1..L /\ list[b][2] # k))
    BY <1>2, <2>1, <2>3
  <2>5. \A i \in 1..L : i <= e => list[i][2] < k
    BY <2>1
  <2>6. \A i \in 1..L : e < i /\ i < b => list[i][2] = k
    BY <1>2, <2>1, <2>3
  <2>7. \A i \in 1..L : b <= i => list[i][2] > k
    <3> SUFFICES ASSUME NEW i \in 1..L, b <= i PROVE list[i][2] > k
      OBVIOUS
    <3>1. b \in 1..L /\ list[b][2] # k /\ ~(b <= e)
      BY <1>2, <2>1, <2>4
    <3>2. list[b][2] \in Nat /\ list[i][2] \in Nat /\ list[b][2] > k
      <4>1. list[b][2] \in Nat /\ list[i][2] \in Nat
        BY <1>1, <1>2, <3>1
      <4>2. ~(list[b][2] < k)
        BY <2>1, <3>1
      <4> QED
        BY <2>1, <3>1, <4>1, <4>2
    <3>3. list[b][2] <= list[i][2]
      <4>1. CASE b = i
        BY <3>2, <4>1
      <4>2. CASE b # i
        <5>1. b < i /\ b \in DOMAIN list /\ i \in DOMAIN list
          BY <1>2, <2>1, <2>4, <4>2
        <5> QED
          BY <5>1 DEF ByRank
      <4> QED
        BY <4>1, <4>2
    <3> QED
      BY <2>1, <3>2, <3>3
  <2>8. D = (e + 1)..(b - 1)
    <3>1. \A i \in 1..L : list[i][2] = k <=> e < i /\ i < b
      <4> SUFFICES ASSUME NEW i \in 1..L PROVE list[i][2] = k <=> e < i /\ i < b
        OBVIOUS
      <4>1. i \in Nat /\ e \in Nat /\ b \in Nat /\ list[i][2] \in Nat
        BY <1>1, <1>2, <2>1, <2>4
      <4>2. /\ i <= e => list[i][2] < k
            /\ e < i /\ i < b => list[i][2] = k
            /\ b <= i => list[i][2] > k
        BY <2>5, <2>6, <2>7
      <4> QED
        BY <2>1, <4>1, <4>2
    <3> QED
      BY <1>2, <2>1, <2>4, <3>1
  <2>9. Cardinality(D) = (b - 1) - e
    <3>1. e + 1 \in Int /\ b - 1 \in Int /\ e + 1 <= b /\ e \in Int /\ b \in Int
      BY <1>2, <2>1, <2>4
    <3>2. Cardinality((e + 1)..(b - 1)) = IF e + 1 > b - 1 THEN 0 ELSE (b - 1) - (e + 1) + 1
      BY <3>1, FS_Interval, Zenon
    <3>3. Cardinality((e + 1)..(b - 1)) = (b - 1) - e
      BY <3>1, <3>2
    <3> QED
      BY <2>8, <3>3
  <2>10. f[k + 1] = b - 1
    BY <1>2, <1>3, <1>5, <2>1, <2>4, <2>9 DEF e
  <2>11. \A i \in 1..L : list[i][2] < k + 1 <=> i <= b - 1
    <3> SUFFICES ASSUME NEW i \in 1..L PROVE list[i][2] < k + 1 <=> i <= b - 1
      OBVIOUS
    <3>1. i \in Nat /\ e \in Nat /\ b \in Nat /\ list[i][2] \in Nat
      BY <1>1, <1>2, <2>1, <2>4
    <3>2. /\ i <= e => list[i][2] < k
          /\ e < i /\ i < b => list[i][2] = k
          /\ b <= i => list[i][2] > k
      BY <2>5, <2>6, <2>7
    <3> QED
      BY <2>1, <3>1, <3>2
  <2> QED
    BY <1>2, <2>1, <2>4, <2>10, <2>11
<1> HIDE DEF A
<1>8. \A k \in 0..NRanks : k \in A
  BY <1>1, <1>6, <1>7, UpTo
<1>9. f[NRanks] = L
  <2>1. f[NRanks] \in 0..L /\ \A i \in 1..L : list[i][2] < NRanks <=> i <= f[NRanks]
    BY <1>1, <1>8 DEF A
  <2>2. \A i \in 1..L : list[i][2] < NRanks
    BY <1>1, <1>2
  <2>3. L # 0 => L \in 1..L
    BY <1>2
  <2> QED
    BY <1>2, <2>1, <2>2, <2>3
<1>10. ASSUME NEW d \in Ranks, NEW i \in 1..L
       PROVE  list[i][2] = d <=> i \in Part(n, d)
  <2>1. /\ d \in 0..NRanks /\ d + 1 \in 0..NRanks /\ f[d + 1] = f[d] + n[d]
        /\ n[d] \in Nat /\ f[d] \in Nat /\ list[i][2] \in Nat
    <3>1. d \in 0..NRanks /\ d + 1 \in 0..NRanks
      BY <1>1
    <3>2. n[d] \in Nat /\ f[d] \in Nat /\ f[d + 1] = f[d] + n[d]
      BY <1>4, <1>5, <3>1
    <3>3. list[i][2] \in Nat
      BY <1>1, <1>2
    <3> QED
      BY <3>1, <3>2, <3>3
  <2>2. (list[i][2] < d <=> i <= f[d]) /\ (list[i][2] < d + 1 <=> i <= f[d + 1])
    BY <1>8, <2>1 DEF A
  <2>3. Part(n, d) = (f[d] + 1)..(f[d] + n[d])
    BY DEF Part, f
  <2>4. i \in Nat
    BY <1>2
  <2> HIDE DEF n, L
  <2> QED
    BY <2>1, <2>2, <2>3, <2>4
<1> QED
  BY <1>2, <1>4, <1>9, <1>10 DEF L, n, f

-----------------------------------------------------------------------------
(***************************************************************************)
(* The columns of the arrays                                               *)
(***************************************************************************)
\* A particle that goes from s to d goes from no other rank, and to no other
LEMMA OutOnce ==
  ASSUME NEW old, Whole(old), NEW s \in Ranks, NEW d \in Ranks, NEW a \in Ranks, NEW b \in Ranks,
         NEW x \in Out(old, s, d), NEW y \in Out(old, a, b), x.id = y.id
  PROVE  s = a /\ d = b /\ x = y
<1>1. PICK p \in DOMAIN old[s] : Owner[old[s][p].at] = d /\ x = old[s][p]
  BY DEF Out
<1>2. PICK q \in DOMAIN old[a] : Owner[old[a][q].at] = b /\ y = old[a][q]
  BY DEF Out
<1>3. \A r, t \in Ranks : \A i \in DOMAIN old[r], j \in DOMAIN old[t] :
        old[r][i].id = old[t][j].id => r = t /\ i = j
  BY DEF Whole
<1>4. s = a /\ p = q
  BY <1>1, <1>2, <1>3
<1> QED
  BY <1>1, <1>2, <1>4

\* and is a particle that lies in a block of d
LEMMA OutIs ==
  ASSUME NEW old, Whole(old), NEW s \in Ranks, NEW d \in Ranks, NEW x \in Out(old, s, d)
  PROVE  x \in Particle /\ x.at \in Blocks /\ Owner[x.at] = d /\ x.id = x.vel
<1>1. PICK p \in DOMAIN old[s] : Owner[old[s][p].at] = d /\ x = old[s][p]
  BY DEF Out
<1>2. old[s] \in Seq(Particle) /\ \A q \in DOMAIN old[s] : old[s][q].id = old[s][q].vel
  BY DEF Whole
<1>3. old[s][p] \in Particle
  BY <1>2
<1>4. x \in Particle
  BY <1>1, <1>3
<1>5. x.at \in Blocks
  BY <1>4 DEF Particle
<1> QED
  BY <1>1, <1>2, <1>4, <1>5

\* What CountSends and PackAndSendPrtcls make of the list of those that leave: the
\* part of the buffer for d has the particles that go to d
LEMMA PackedIs ==
  ASSUME NEW old, Whole(old), NEW s \in Ranks, NEW list, Listing(list, old[s], s), ByRank(list)
  PROVE  /\ Runs(list) \in [Ranks -> Nat]
         /\ Starts(Runs(list))[NRanks] = Len(list)
         /\ Runs(list)[s] = 0
         /\ \A d \in Ranks \ {s} : Runs(list)[d] = 0 => Out(old, s, d) = {}
         /\ \A d \in Ranks \ {s} :
              Enumerates([i \in DOMAIN list |-> old[s][list[i][1]]], Part(Runs(list), d), Out(old, s, d))
<1> DEFINE n == Runs(list)
           L == Len(list)
           f == [i \in DOMAIN list |-> old[s][list[i][1]]]
<1>1. /\ list \in Seq((1..Len(old[s])) \X Ranks)
      /\ \A i \in DOMAIN list : Owner[old[s][list[i][1]].at] = list[i][2] /\ list[i][2] # s
      /\ \A i, j \in DOMAIN list : list[i][1] = list[j][1] => i = j
      /\ \A p \in DOMAIN old[s] : Owner[old[s][p].at] # s => \E i \in DOMAIN list : list[i][1] = p
  BY DEF Listing
<1>2. /\ old[s] \in Seq(Particle)
      /\ \A p, q \in DOMAIN old[s] : old[s][p].id = old[s][q].id => p = q
  BY DEF Whole
<1>3. DOMAIN list = 1..L /\ L \in Nat /\ DOMAIN old[s] = 1..Len(old[s])
  BY <1>1, <1>2
<1>4. \A i \in 1..L : list[i][1] \in DOMAIN old[s] /\ list[i][2] \in Ranks
  BY <1>1, <1>3
<1>5. /\ n \in [Ranks -> Nat] /\ Starts(n)[NRanks] = L
      /\ \A d \in Ranks, i \in DOMAIN list : list[i][2] = d <=> i \in Part(n, d)
  BY <1>1, RunsAre, Zenon
<1> HIDE DEF n, L
<1>6. \A d \in Ranks : /\ Part(n, d) \subseteq 1..L
                       /\ Starts(n)[d] \in Nat /\ n[d] \in Nat
  BY <1>5, PartsCover
<1>7. \A d \in Ranks : n[d] # 0 => Starts(n)[d] + 1 \in Part(n, d)
  BY <1>6 DEF Part
<1>8. \A d \in Ranks : n[d] = 0 => Part(n, d) = {}
  BY <1>6 DEF Part
<1>9. n[s] = 0
  <2> SUFFICES ASSUME n[s] # 0 PROVE FALSE
    OBVIOUS
  <2>1. Starts(n)[s] + 1 \in Part(n, s)
    BY <1>7
  <2>2. Starts(n)[s] + 1 \in DOMAIN list
    BY <1>3, <1>6, <2>1
  <2> QED
    BY <1>1, <1>5, <2>1, <2>2
<1>10. ASSUME NEW d \in Ranks \ {s}, NEW x \in Out(old, s, d)
       PROVE  \E k \in Part(n, d) : k \in 1..L /\ f[k] = x
  <2>1. PICK p \in DOMAIN old[s] : Owner[old[s][p].at] = d /\ x = old[s][p]
    BY DEF Out
  <2>2. PICK i \in DOMAIN list : list[i][1] = p
    BY <1>1, <2>1
  <2>3. list[i][2] = d
    BY <1>1, <2>1, <2>2
  <2>4. i \in Part(n, d)
    BY <1>5, <2>3
  <2> QED
    BY <1>3, <2>1, <2>2, <2>4
<1>11. ASSUME NEW d \in Ranks \ {s}
       PROVE  n[d] = 0 => Out(old, s, d) = {}
  BY <1>8, <1>10
<1>12. ASSUME NEW d \in Ranks \ {s}
       PROVE  Enumerates(f, Part(n, d), Out(old, s, d))
  <2>1. ASSUME NEW k \in Part(n, d) PROVE f[k] \in Out(old, s, d)
    <3>1. k \in DOMAIN list
      BY <1>3, <1>6
    <3>2. f[k] = old[s][list[k][1]] /\ list[k][1] \in DOMAIN old[s]
      BY <1>3, <1>4, <3>1
    <3>3. list[k][2] = d
      BY <1>5, <3>1
    <3>4. Owner[old[s][list[k][1]].at] = d
      BY <1>1, <3>1, <3>3
    <3> QED
      BY <3>2, <3>4 DEF Out
  <2>2. ASSUME NEW k \in Part(n, d), NEW l \in Part(n, d), f[k] = f[l] PROVE k = l
    <3>1. k \in DOMAIN list /\ l \in DOMAIN list
      BY <1>3, <1>6
    <3>2. old[s][list[k][1]] = old[s][list[l][1]]
      BY <2>2, <3>1
    <3>3. list[k][1] = list[l][1]
      BY <1>2, <1>3, <1>4, <3>1, <3>2
    <3> QED
      BY <1>1, <3>1, <3>3
  <2> HIDE DEF f
  <2> QED
    BY <1>10, <2>1, <2>2 DEF Enumerates
<1> HIDE DEF f
<1>13. \A d \in Ranks \ {s} : Enumerates(f, Part(n, d), Out(old, s, d))
  BY <1>12
<1>14. \A d \in Ranks \ {s} : n[d] = 0 => Out(old, s, d) = {}
  BY <1>11
<1> QED
  BY <1>5, <1>9, <1>13, <1>14 DEF n, L, f

\* the part of the buffer b of r for each rank is that of the buffer of the rank
Arrival(old, r, n, from, b, sb) ==
  /\ n \in [Ranks -> Nat] /\ from \in [Ranks -> Nat] /\ n[r] = 0
  /\ \A s \in Ranks \ {r} : n[s] = 0 => Out(old, s, r) = {}
  /\ \A s \in Ranks \ {r} : n[s] > 0 =>
       /\ Enumerates(sb[s], (from[s] + 1)..(from[s] + n[s]), Out(old, s, r))
       /\ \A j \in 1..n[s] : b[Starts(n)[s] + j] = sb[s][from[s] + j]

\* What has arrived from the others, each rank's part at its place
LEMMA ArrivalsAre ==
  ASSUME NEW old, Whole(old), NEW r \in Ranks, NEW n, NEW from, NEW b, NEW sb,
         Arrival(old, r, n, from, b, sb)
  PROVE  Enumerates(b, 1..Starts(n)[NRanks], UNION {Out(old, s, r) : s \in Ranks \ {r}})
<1> DEFINE U == UNION {Out(old, s, r) : s \in Ranks \ {r}}
           f == Starts(n)
<1>1. /\ n \in [Ranks -> Nat] /\ from \in [Ranks -> Nat] /\ n[r] = 0
      /\ \A s \in Ranks \ {r} : n[s] = 0 => Out(old, s, r) = {}
      /\ \A s \in Ranks \ {r} : n[s] > 0 =>
           /\ Enumerates(sb[s], (from[s] + 1)..(from[s] + n[s]), Out(old, s, r))
           /\ \A j \in 1..n[s] : b[Starts(n)[s] + j] = sb[s][from[s] + j]
  BY DEF Arrival
<1>2. /\ \A s \in Ranks : /\ Part(n, s) \subseteq 1..f[NRanks]
                          /\ f[s] \in Nat /\ n[s] \in Nat /\ from[s] \in Nat
      /\ \A i \in 1..f[NRanks] : \E s \in Ranks : i \in Part(n, s)
  BY <1>1, PartsCover
<1>3. \A s \in Ranks : Part(n, s) = (f[s] + 1)..(f[s] + n[s])
  BY DEF Part
<1> HIDE DEF f
<1>4. ASSUME NEW k \in 1..f[NRanks]
      PROVE  \E s \in Ranks \ {r}, j \in Nat :
               /\ j \in 1..n[s] /\ n[s] > 0
               /\ k = f[s] + j /\ b[k] = sb[s][from[s] + j] /\ b[k] \in Out(old, s, r)
  <2>1. PICK s \in Ranks : k \in (f[s] + 1)..(f[s] + n[s])
    BY <1>2, <1>3
  <2>2. n[s] > 0 /\ s # r /\ k - f[s] \in 1..n[s] /\ k - f[s] \in Nat /\ k = f[s] + (k - f[s])
    <3>1. f[s] \in Nat /\ n[s] \in Nat
      BY <1>2
    <3>2. n[s] > 0 /\ k - f[s] \in 1..n[s] /\ k - f[s] \in Nat /\ k = f[s] + (k - f[s])
      BY <2>1, <3>1
    <3>3. s # r
      BY <1>1, <3>2
    <3> QED
      BY <3>2, <3>3
  <2>3. /\ Enumerates(sb[s], (from[s] + 1)..(from[s] + n[s]), Out(old, s, r))
        /\ \A j \in 1..n[s] : b[f[s] + j] = sb[s][from[s] + j]
    BY <1>1, <2>2 DEF f
  <2>4. b[k] = sb[s][from[s] + (k - f[s])]
    BY <2>2, <2>3
  <2>5. from[s] + (k - f[s]) \in (from[s] + 1)..(from[s] + n[s])
    BY <1>2, <2>2
  <2>6. b[k] \in Out(old, s, r)
    BY <2>3, <2>4, <2>5 DEF Enumerates
  <2> QED
    BY <2>2, <2>4, <2>6
<1>5. \A k \in 1..f[NRanks] : b[k] \in U
  BY <1>4
<1>6. ASSUME NEW x \in U PROVE \E k \in 1..f[NRanks] : b[k] = x
  <2>1. PICK s \in Ranks \ {r} : x \in Out(old, s, r)
    OBVIOUS
  <2>2. n[s] > 0
    BY <1>1, <1>2, <2>1
  <2>3. /\ Enumerates(sb[s], (from[s] + 1)..(from[s] + n[s]), Out(old, s, r))
        /\ \A j \in 1..n[s] : b[f[s] + j] = sb[s][from[s] + j]
    BY <1>1, <2>2 DEF f
  <2>4. PICK q \in (from[s] + 1)..(from[s] + n[s]) : sb[s][q] = x
    BY <2>1, <2>3 DEF Enumerates
  <2>5. q - from[s] \in 1..n[s] /\ from[s] + (q - from[s]) = q
    BY <1>2, <2>4
  <2>6. b[f[s] + (q - from[s])] = x
    BY <2>3, <2>4, <2>5
  <2>7. f[s] + (q - from[s]) \in Part(n, s)
    BY <1>2, <1>3, <2>5
  <2> QED
    BY <1>2, <2>6, <2>7
<1>7. ASSUME NEW k \in 1..f[NRanks], NEW l \in 1..f[NRanks], b[k] = b[l] PROVE k = l
  <2>1. PICK s \in Ranks \ {r}, j \in Nat :
          /\ j \in 1..n[s] /\ n[s] > 0
          /\ k = f[s] + j /\ b[k] = sb[s][from[s] + j] /\ b[k] \in Out(old, s, r)
    BY <1>4
  <2>2. PICK a \in Ranks \ {r}, i \in Nat :
          /\ i \in 1..n[a] /\ n[a] > 0
          /\ l = f[a] + i /\ b[l] = sb[a][from[a] + i] /\ b[l] \in Out(old, a, r)
    BY <1>4
  <2>3. s = a
    BY <1>7, <2>1, <2>2, OutOnce
  <2>4. Enumerates(sb[s], (from[s] + 1)..(from[s] + n[s]), Out(old, s, r))
    BY <1>1, <2>1
  <2>5. sb[s][from[s] + j] = sb[s][from[s] + i]
    BY <1>7, <2>1, <2>2, <2>3
  <2>6. /\ from[s] + j \in (from[s] + 1)..(from[s] + n[s])
        /\ from[s] + i \in (from[s] + 1)..(from[s] + n[s])
    <3>1. j \in 1..n[s] /\ i \in 1..n[s] /\ from[s] \in Nat /\ n[s] \in Nat
      BY <1>1, <1>2, <2>1, <2>2, <2>3
    <3> QED
      BY <3>1
  <2>7. from[s] + j = from[s] + i
    BY <2>4, <2>5, <2>6 DEF Enumerates
  <2> QED
    BY <1>2, <2>1, <2>2, <2>3, <2>7
<1> HIDE DEF U
<1> QED
  BY <1>5, <1>6, <1>7 DEF Enumerates, U, f

\* Arrivals b[1..nr] go into the holes h[1..ns] of the m columns g, then to the end
Placement(m, ns, nr, h, Kept, Come, g, b, place, placed, size) ==
  /\ m \in Nat /\ ns \in Nat /\ nr \in Nat /\ h \in [1..ns -> 1..m]
  /\ \A i, j \in 1..ns : h[i] = h[j] => i = j
  /\ \A x \in Kept : x \notin Come
  /\ size = IF nr > ns THEN m + nr - ns ELSE m
  /\ \A n \in 1..nr : place[n] = IF n <= ns THEN h[n] ELSE m + n - ns
  /\ \A p \in 1..size : placed[p] = IF \E n \in 1..nr : place[n] = p
                                    THEN b[CHOOSE n \in 1..nr : place[n] = p] ELSE g[p]
  /\ Enumerates(b, 1..nr, Come)
  /\ Enumerates(g, (1..m) \ {h[k] : k \in 1..ns}, Kept)

\* Then all columns but the holes that remain are those kept and those that came
LEMMA Placing ==
  ASSUME NEW m, NEW ns, NEW nr, NEW h, NEW Kept, NEW Come, NEW g, NEW b, NEW place, NEW placed, NEW size,
         Placement(m, ns, nr, h, Kept, Come, g, b, place, placed, size)
  PROVE  Enumerates(placed, (1..size) \ {h[k] : k \in (nr + 1)..ns}, Kept \cup Come)
<1>1. SUFFICES
        ASSUME m \in Nat, ns \in Nat, nr \in Nat, h \in [1..ns -> 1..m],
               \A i, j \in 1..ns : h[i] = h[j] => i = j,
               \A x \in Kept : x \notin Come,
               size = IF nr > ns THEN m + nr - ns ELSE m,
               \A n \in 1..nr : place[n] = IF n <= ns THEN h[n] ELSE m + n - ns,
               \A p \in 1..size : placed[p] = IF \E n \in 1..nr : place[n] = p
                                              THEN b[CHOOSE n \in 1..nr : place[n] = p] ELSE g[p],
               Enumerates(b, 1..nr, Come),
               Enumerates(g, (1..m) \ {h[k] : k \in 1..ns}, Kept)
        PROVE  Enumerates(placed, (1..size) \ {h[k] : k \in (nr + 1)..ns}, Kept \cup Come)
  BY DEF Placement
<1> USE <1>1
<1> DEFINE C == (1..size) \ {h[k] : k \in (nr + 1)..ns}
           K == (1..m) \ {h[k] : k \in 1..ns}
<1>2. size \in Nat /\ size >= m
  OBVIOUS
<1>3. \A n \in 1..nr : n <= ns => n \in 1..ns /\ h[n] \in 1..m /\ place[n] = h[n]
  OBVIOUS
<1>4. \A n \in 1..nr : n > ns => place[n] \in (m + 1)..size /\ place[n] = m + n - ns
  BY <1>2
<1>5. \A n, l \in 1..nr : place[n] = place[l] => n = l
  <2> SUFFICES ASSUME NEW n \in 1..nr, NEW l \in 1..nr, place[n] = place[l] PROVE n = l
    OBVIOUS
  <2>1. CASE n <= ns /\ l <= ns
    BY <1>3, <2>1
  <2>2. CASE n > ns /\ l > ns
    BY <1>4, <2>2
  <2>3. CASE n <= ns /\ l > ns
    BY <1>3, <1>4, <2>3
  <2>4. CASE n > ns /\ l <= ns
    BY <1>3, <1>4, <2>4
  <2> QED
    BY <2>1, <2>2, <2>3, <2>4
<1>6. \A n \in 1..nr : place[n] \in C
  <2> SUFFICES ASSUME NEW n \in 1..nr PROVE place[n] \in C
    OBVIOUS
  <2>1. CASE n <= ns
    <3>1. \A k \in (nr + 1)..ns : h[k] # h[n]
      BY <1>3, <2>1
    <3> QED
      BY <1>2, <1>3, <2>1, <3>1
  <2>2. CASE n > ns
    <3>1. \A k \in (nr + 1)..ns : h[k] \in 1..m
      OBVIOUS
    <3> QED
      BY <1>2, <1>4, <2>2, <3>1
  <2> QED
    BY <2>1, <2>2
<1>7. \A n \in 1..nr : placed[place[n]] = b[n]
  <2> SUFFICES ASSUME NEW n \in 1..nr PROVE placed[place[n]] = b[n]
    OBVIOUS
  <2> DEFINE p == place[n]
  <2>1. p \in 1..size
    BY <1>6
  <2>2. (CHOOSE l \in 1..nr : place[l] = p) = n
    BY <1>5
  <2> QED
    BY <2>1, <2>2
<1>8. \A p \in C : (\A n \in 1..nr : place[n] # p) => p \in K /\ placed[p] = g[p]
  <2> SUFFICES ASSUME NEW p \in C, \A n \in 1..nr : place[n] # p PROVE p \in K /\ placed[p] = g[p]
    OBVIOUS
  <2>1. p <= m
    <3>1. SUFFICES ASSUME p > m PROVE FALSE
      BY <1>2
    <3>2. nr > ns /\ p - m + ns \in 1..nr /\ p - m + ns > ns
      BY <1>2, <3>1
    <3>3. place[p - m + ns] = p
      BY <1>2, <1>4, <3>2
    <3> QED
      BY <3>2, <3>3
  <2>2. ASSUME NEW k \in 1..ns, h[k] = p PROVE FALSE
    <3>1. CASE k <= nr
      BY <1>3, <2>2, <3>1
    <3>2. CASE k > nr
      BY <2>2, <3>2
    <3> QED
      BY <3>1, <3>2
  <2>3. p \in 1..size /\ p \in 1..m
    BY <1>2, <2>1
  <2>4. p \in K
    BY <2>2, <2>3
  <2> HIDE DEF C, K
  <2>5. placed[p] = g[p]
    BY <2>3
  <2> QED
    BY <2>4, <2>5
<1>9. \A p \in K : p \in C /\ \A n \in 1..nr : place[n] # p
  <2> SUFFICES ASSUME NEW p \in K PROVE p \in C /\ \A n \in 1..nr : place[n] # p
    OBVIOUS
  <2>1. p \in 1..m /\ \A k \in 1..ns : h[k] # p
    OBVIOUS
  <2>2. p \in C
    BY <1>2, <2>1
  <2>3. ASSUME NEW n \in 1..nr PROVE place[n] # p
    <3>1. CASE n <= ns
      BY <1>3, <2>1, <3>1
    <3>2. CASE n > ns
      BY <1>4, <2>1, <3>2
    <3> QED
      BY <3>1, <3>2
  <2> QED
    BY <2>2, <2>3
<1> HIDE DEF C, K
<1>10. /\ \A k \in 1..nr : b[k] \in Come
       /\ \A x \in Come : \E k \in 1..nr : b[k] = x
       /\ \A k, l \in 1..nr : b[k] = b[l] => k = l
  BY DEF Enumerates
<1>11. /\ \A k \in K : g[k] \in Kept
       /\ \A x \in Kept : \E k \in K : g[k] = x
       /\ \A k, l \in K : g[k] = g[l] => k = l
  BY DEF Enumerates, K
<1>12. ASSUME NEW p \in C PROVE placed[p] \in Kept \cup Come
  <2>1. CASE \E n \in 1..nr : place[n] = p
    <3>1. PICK n \in 1..nr : place[n] = p
      BY <2>1
    <3>2. placed[p] = b[n]
      BY <1>7, <3>1
    <3> QED
      BY <1>10, <3>2
  <2>2. CASE \A n \in 1..nr : place[n] # p
    BY <1>8, <1>11, <2>2
  <2> QED
    BY <2>1, <2>2
<1>13. \A x \in Kept \cup Come : \E p \in C : placed[p] = x
  <2>1. ASSUME NEW x \in Kept PROVE \E p \in C : placed[p] = x
    <3>1. PICK p \in K : g[p] = x
      BY <1>11
    <3> QED
      BY <1>8, <1>9, <3>1
  <2>2. ASSUME NEW x \in Come PROVE \E p \in C : placed[p] = x
    BY <1>6, <1>7, <1>10
  <2> QED
    BY <2>1, <2>2
<1>14. ASSUME NEW p \in C, NEW q \in C, placed[p] = placed[q] PROVE p = q
  <2>1. CASE \E n \in 1..nr : place[n] = p
    <3>1. PICK n \in 1..nr : place[n] = p
      BY <2>1
    <3>2. placed[p] = b[n] /\ placed[q] \in Come
      <4>1. placed[p] = b[n]
        BY <1>7, <3>1
      <4> QED
        BY <1>10, <1>14, <4>1
    <3>3. PICK l \in 1..nr : place[l] = q
      BY <1>8, <1>11, <3>2
    <3>4. placed[q] = b[l]
      BY <1>7, <3>3
    <3>5. n = l
      <4>1. b[n] = b[l]
        BY <1>14, <3>2, <3>4
      <4> QED
        BY <1>10, <4>1
    <3> QED
      BY <3>1, <3>3, <3>5
  <2>2. CASE \A n \in 1..nr : place[n] # p
    <3>1. p \in K /\ placed[p] = g[p] /\ placed[q] \in Kept
      BY <1>8, <1>11, <1>14, <2>2
    <3>2. \A n \in 1..nr : place[n] # q
      BY <1>7, <1>10, <3>1
    <3>3. q \in K /\ placed[q] = g[q]
      BY <1>8, <3>2
    <3> QED
      BY <1>11, <1>14, <3>1, <3>3
  <2> QED
    BY <2>1, <2>2
<1> QED
  BY <1>12, <1>13, <1>14 DEF Enumerates, C

\* One round of the loop that fills the holes next..last from the end, at column e:
\* a column that is no hole moves into the first of them, the last hole is passed
LEMMA Filling ==
  ASSUME NEW m \in Nat, NEW ns \in Nat, NEW h \in [1..ns -> 1..m],
         \A i, j \in 1..ns : i < j => h[i] < h[j],
         NEW S, NEW at, DOMAIN at = 1..m,
         NEW next \in 1..ns, NEW last \in 1..ns, next <= last,
         NEW e \in 1..m, h[last] <= e,
         Enumerates(at, (1..e) \ {h[k] : k \in next..last}, S)
  PROVE  /\ e > h[last] =>
              /\ Enumerates([at EXCEPT ![h[next]] = at[e]],
                            (1..(e - 1)) \ {h[k] : k \in (next + 1)..last}, S)
              /\ h[last] <= e - 1
         /\ ~(e > h[last]) =>
              /\ Enumerates(at, (1..(e - 1)) \ {h[k] : k \in next..(last - 1)}, S)
              /\ last - 1 >= 1 => h[last - 1] <= e - 1
<1> DEFINE C == (1..e) \ {h[k] : k \in next..last}
<1>1. \A k \in 1..last : k \in 1..ns /\ h[k] \in 1..m /\ h[k] <= h[last] /\ h[k] \in 1..e
  <2> SUFFICES ASSUME NEW k \in 1..last PROVE k \in 1..ns /\ h[k] \in 1..m /\ h[k] <= h[last] /\ h[k] \in 1..e
    OBVIOUS
  <2>1. k \in 1..ns /\ h[k] \in 1..m /\ h[last] \in 1..m
    OBVIOUS
  <2>2. h[k] <= h[last]
    BY <2>1
  <2> QED
    BY <2>1, <2>2
<1>2. ASSUME e > h[last]
      PROVE  /\ Enumerates([at EXCEPT ![h[next]] = at[e]],
                           (1..(e - 1)) \ {h[k] : k \in (next + 1)..last}, S)
             /\ h[last] <= e - 1
  <2> DEFINE x == h[next]
             D == (1..(e - 1)) \ {h[k] : k \in (next + 1)..last}
             new == [at EXCEPT ![x] = at[e]]
  <2>1. x \in 1..m /\ x < e /\ x \notin C /\ h[last] \in 1..m /\ next \in 1..last
    BY <1>1, <1>2
  <2>2. \A k \in (next + 1)..last : k \in 1..ns /\ h[k] # x
    OBVIOUS
  <2>3. x \in D
    BY <2>1, <2>2
  <2>4. e \in C
    BY <1>1, <1>2
  <2>5. \A p \in D : p # x => p \in C /\ p # e
    <3> SUFFICES ASSUME NEW p \in D, p # x PROVE p \in C /\ p # e
      OBVIOUS
    <3>1. \A k \in next..last : k = next \/ k \in (next + 1)..last
      OBVIOUS
    <3>2. \A k \in next..last : h[k] # p
      BY <3>1
    <3> QED
      BY <3>2
  <2>6. \A p \in C : p = e \/ p \in D
    OBVIOUS
  <2> HIDE DEF C, D, x
  <2>7. /\ \A k \in C : at[k] \in S
        /\ \A y \in S : \E k \in C : at[k] = y
        /\ \A k, l \in C : at[k] = at[l] => k = l
    BY DEF Enumerates, C
  <2>8. new[x] = at[e] /\ \A p \in D : p # x => new[p] = at[p]
    BY <2>1
  <2> HIDE DEF new
  <2>9. \A p \in D : new[p] \in S
    BY <2>4, <2>5, <2>7, <2>8
  <2>10. ASSUME NEW y \in S PROVE \E p \in D : new[p] = y
    <3>1. PICK k \in C : at[k] = y
      BY <2>7
    <3>2. CASE k = e
      BY <2>3, <2>8, <3>1, <3>2
    <3>3. CASE k # e
      BY <2>1, <2>6, <2>8, <3>1, <3>3
    <3> QED
      BY <3>2, <3>3
  <2>11. ASSUME NEW p \in D, NEW q \in D, new[p] = new[q] PROVE p = q
    <3>1. CASE p = x /\ q # x
      BY <2>4, <2>5, <2>7, <2>8, <2>11, <3>1
    <3>2. CASE p # x /\ q = x
      BY <2>4, <2>5, <2>7, <2>8, <2>11, <3>2
    <3>3. CASE p # x /\ q # x
      <4>1. p \in C /\ q \in C /\ new[p] = at[p] /\ new[q] = at[q]
        BY <2>5, <2>8, <3>3
      <4> QED
        BY <2>7, <2>11, <4>1
    <3> QED
      BY <3>1, <3>2, <3>3
  <2>12. Enumerates(new, D, S)
    BY <2>9, <2>10, <2>11 DEF Enumerates
  <2>13. h[last] <= e - 1
    BY <1>2, <2>1
  <2> QED
    BY <2>12, <2>13 DEF new, D, x
<1>3. ASSUME ~(e > h[last])
      PROVE  /\ Enumerates(at, (1..(e - 1)) \ {h[k] : k \in next..(last - 1)}, S)
             /\ last - 1 >= 1 => h[last - 1] <= e - 1
  <2>1. h[last] = e
    BY <1>1, <1>3
  <2>2. C = (1..(e - 1)) \ {h[k] : k \in next..(last - 1)}
    <3>1. ASSUME NEW p \in C PROVE p \in (1..(e - 1)) \ {h[k] : k \in next..(last - 1)}
      <4>1. p # e
        BY <2>1
      <4> QED
        BY <4>1
    <3>2. ASSUME NEW p \in (1..(e - 1)) \ {h[k] : k \in next..(last - 1)} PROVE p \in C
      <4>1. \A k \in next..last : k = last \/ k \in next..(last - 1)
        OBVIOUS
      <4>2. \A k \in next..last : h[k] # p
        BY <2>1, <4>1
      <4> QED
        BY <4>2
    <3> HIDE DEF C
    <3> QED
      BY <3>1, <3>2
  <2>3. last - 1 >= 1 => h[last - 1] <= e - 1
    <3> SUFFICES ASSUME last - 1 >= 1 PROVE h[last - 1] <= e - 1
      OBVIOUS
    <3>1. last - 1 \in 1..ns /\ h[last - 1] < h[last] /\ h[last - 1] \in 1..m
      OBVIOUS
    <3> QED
      BY <2>1, <3>1
  <2> QED
    BY <2>2, <2>3
<1> QED
  BY <1>2, <1>3

\* A rank of m columns with holes h[1..ns], in ascending order, into which nr
\* arrivals were placed
Holes(r, hole, m, ns, nr, h, S, size) ==
  /\ m \in Nat /\ ns \in Nat /\ nr \in Nat
  /\ npart[r] = m /\ NSend(r) = ns /\ NRecv(r) = nr
  /\ h \in [1..ns -> 1..m] /\ \A k \in 1..ns : hole[k][1] = h[k]
  /\ \A i, j \in 1..ns : i < j => h[i] < h[j]
  /\ size = IF nr > ns THEN m + nr - ns ELSE m
  /\ DOMAIN Placed(r, hole) = 1..size
  /\ Enumerates(Placed(r, hole), (1..size) \ {h[k] : k \in (nr + 1)..ns}, S)

\* The loop fills every hole that remains: afterwards the first columns are dense
LEMMA FilledIs ==
  ASSUME NEW r \in Ranks, NEW hole, NEW m, NEW ns, NEW nr, NEW h, NEW S, NEW size,
         Holes(r, hole, m, ns, nr, h, S, size)
  PROVE  /\ m + nr - ns \in Nat
         /\ Enumerates(Filled(r, hole), 1..(m + nr - ns), S)
<1>1. SUFFICES
        ASSUME m \in Nat, ns \in Nat, nr \in Nat,
               npart[r] = m, NSend(r) = ns, NRecv(r) = nr,
               h \in [1..ns -> 1..m], \A k \in 1..ns : hole[k][1] = h[k],
               \A i, j \in 1..ns : i < j => h[i] < h[j],
               size = IF nr > ns THEN m + nr - ns ELSE m,
               DOMAIN Placed(r, hole) = 1..size,
               Enumerates(Placed(r, hole), (1..size) \ {h[k] : k \in (nr + 1)..ns}, S)
        PROVE  /\ m + nr - ns \in Nat
               /\ Enumerates(Filled(r, hole), 1..(m + nr - ns), S)
  BY DEF Holes
<1> USE <1>1
<1> DEFINE R == IF ns > nr THEN ns - nr ELSE 0
           a0 == [at |-> Placed(r, hole), next |-> nr + 1, last |-> ns]
           Body(k, a) == [n \in 0..k |-> IF n = 0 THEN a0 ELSE Fill(r, hole, a[n - 1], n)]
           acc == CHOOSE a : a = Body(R, a)
           E == {k \in 0..R : \E a : a = Body(k, a)}
           Good(a, k) ==
             /\ a = [at |-> a.at, next |-> a.next, last |-> a.last] /\ DOMAIN a.at = 1..m
             /\ a.next \in (nr + 1)..(ns + 1) /\ a.last \in nr..ns /\ a.last - a.next + 1 = R - k
             /\ m - k \in Nat /\ (a.last >= 1 => h[a.last] <= m - k)
             /\ Enumerates(a.at, (1..(m - k)) \ {h[i] : i \in a.next..a.last}, S)
<1>2. R \in Nat
  OBVIOUS
<1>3. Filled(r, hole) = acc[R].at
  <2> USE DEF Filled
  <2>1. (IF NSend(r) > NRecv(r) THEN NSend(r) - NRecv(r) ELSE 0) = R
    OBVIOUS
  <2>2. NSend(r) = ns /\ NRecv(r) = nr
    OBVIOUS
  <2> QED
    BY <2>2, Zenon
<1> HIDE DEF R
<1>4. \E a : a = Body(R, a)
  <2>1. 0 \in E
    <3> DEFINE a == [n \in 0..0 |-> a0]
    <3>1. a = Body(0, a)
      OBVIOUS
    <3> HIDE DEF a
    <3>2. \E x : x = Body(0, x)
      BY <3>1, Zenon
    <3> QED
      BY <1>2, <3>2
  <2>2. ASSUME NEW k \in 0..(R - 1), k \in E
        PROVE  k + 1 \in E
    <3>1. PICK a : a = Body(k, a)
      BY <2>2
    <3> HIDE DEF a0
    <3> DEFINE b == [n \in 0..(k + 1) |-> IF n = k + 1 THEN Fill(r, hole, a[k], k + 1) ELSE a[n]]
    <3>2. k \in Nat /\ k + 1 \in 0..R
      BY <1>2
    <3>3. \A n \in 0..k : a[n] = IF n = 0 THEN a0 ELSE Fill(r, hole, a[n - 1], n)
      BY <3>1, Zenon
    <3>4. \A n \in 0..(k + 1) : b[n] = IF n = 0 THEN a0 ELSE Fill(r, hole, b[n - 1], n)
      <4> SUFFICES ASSUME NEW n \in 0..(k + 1)
                   PROVE  b[n] = IF n = 0 THEN a0 ELSE Fill(r, hole, b[n - 1], n)
        OBVIOUS
      <4>1. CASE n = k + 1
        <5>1. n # 0 /\ n - 1 = k /\ k \in 0..(k + 1) /\ k # k + 1
          BY <3>2, <4>1
        <5>2. b[k] = a[k] /\ b[n] = Fill(r, hole, a[k], k + 1)
          BY <4>1, <5>1
        <5> QED
          BY <4>1, <5>1, <5>2
      <4>2. CASE n # k + 1
        <5>1. n \in 0..k
          BY <3>2, <4>2
        <5>2. b[n] = a[n] /\ (n # 0 => n - 1 \in 0..k /\ n - 1 \in 0..(k + 1) /\ n - 1 # k + 1)
          BY <3>2, <4>2, <5>1
        <5>3. n # 0 => b[n - 1] = a[n - 1]
          BY <5>2
        <5> QED
          BY <3>3, <5>1, <5>2, <5>3
      <4> QED
        BY <4>1, <4>2
    <3>5. b = Body(k + 1, b)
      <4>1. b = [n \in 0..(k + 1) |-> b[n]]
        OBVIOUS
      <4> HIDE DEF b
      <4> QED
        BY <3>4, <4>1
    <3> QED
      BY <3>2, <3>5
  <2> HIDE DEF E
  <2>3. \A k \in 0..R : k \in E
    BY <1>2, <2>1, <2>2, UpTo
  <2>4. R \in E
    BY <1>2, <2>3
  <2> QED
    BY <2>4 DEF E
<1>5. acc = Body(R, acc)
  BY <1>4
<1> HIDE DEF acc, a0
<1>6. \A n \in 0..R : acc[n] = IF n = 0 THEN a0 ELSE Fill(r, hole, acc[n - 1], n)
  BY <1>5, Zenon
<1>7. acc[0] = a0
  BY <1>2, <1>6
<1>8. CASE nr >= ns
  <2>1. R = 0 /\ size = m + nr - ns
    BY <1>8 DEF R
  <2>2. (nr + 1)..ns = {}
    BY <1>8
  <2>3. (1..size) \ {h[k] : k \in (nr + 1)..ns} = 1..(m + nr - ns)
    BY <2>1, <2>2
  <2>4. Filled(r, hole) = Placed(r, hole)
    BY <1>3, <1>7, <2>1 DEF a0
  <2>5. m + nr - ns \in Nat
    BY <1>8
  <2> QED
    BY <2>3, <2>4, <2>5
<1>9. CASE ns > nr
  <2> DEFINE G == {k \in 0..R : Good(acc[k], k)}
  <2>1. R = ns - nr /\ size = m
    BY <1>9 DEF R
  <2>2. 0 \in G
    <3>1. /\ acc[0] = [at |-> acc[0].at, next |-> acc[0].next, last |-> acc[0].last]
          /\ acc[0].at = Placed(r, hole) /\ acc[0].next = nr + 1 /\ acc[0].last = ns
      BY <1>7 DEF a0
    <3>2. DOMAIN acc[0].at = 1..m
      BY <2>1, <3>1
    <3>3. /\ acc[0].next \in (nr + 1)..(ns + 1) /\ acc[0].last \in nr..ns
          /\ acc[0].last - acc[0].next + 1 = R - 0
      BY <1>9, <2>1, <3>1
    <3>4. m - 0 = m /\ m \in Nat /\ h[ns] <= m
      BY <1>9
    <3>5. Enumerates(acc[0].at, (1..(m - 0)) \ {h[i] : i \in acc[0].next..acc[0].last}, S)
      BY <2>1, <3>1, <3>4
    <3>6. acc[0].last >= 1 => h[acc[0].last] <= m - 0
      BY <3>1, <3>4
    <3>7. Good(acc[0], 0)
      BY <3>1, <3>2, <3>3, <3>4, <3>5, <3>6
    <3> HIDE DEF Good
    <3> QED
      BY <1>2, <3>7
  <2>3. ASSUME NEW k \in 0..(R - 1), k \in G
        PROVE  k + 1 \in G
    <3> DEFINE at == acc[k].at
               next == acc[k].next
               last == acc[k].last
               a == [at |-> at, next |-> next, last |-> last]
               e == m - k
               new == acc[k + 1]
    <3>1. Good(acc[k], k)
      BY <2>3
    <3>2. k + 1 \in 0..R /\ k + 1 # 0 /\ (k + 1) - 1 = k /\ k \in Nat
      BY <1>2
    <3>3. new = Fill(r, hole, a, k + 1)
      <4>1. acc[k] = a
        BY <3>1
      <4> QED
        BY <1>6, <3>2, <4>1
    <3>4. /\ DOMAIN at = 1..m
          /\ next \in (nr + 1)..(ns + 1) /\ last \in nr..ns /\ last - next + 1 = R - k
          /\ e \in Nat /\ (last >= 1 => h[last] <= e)
      BY <3>1
    <3>5. Enumerates(at, (1..e) \ {h[i] : i \in next..last}, S)
      BY <3>1
    <3> HIDE DEF new, at, next, last
    <3>6. /\ next \in Int /\ nr + 1 <= next /\ next <= ns + 1 /\ last \in Int /\ nr <= last /\ last <= ns
          /\ last - next + 1 = R - k /\ k < R
      BY <1>2, <3>2, <3>4
    <3>7. next <= last /\ next \in 1..ns /\ last \in 1..ns
      BY <1>2, <3>2, <3>6
    <3>8. e \in 1..m /\ h[last] <= e /\ h[last] \in 1..m /\ m + 1 - (k + 1) = e /\ m - (k + 1) = e - 1
      BY <3>2, <3>4, <3>7
    <3>9. hole[last][1] = h[last] /\ hole[next][1] = h[next]
      BY <3>7
    <3>10. /\ next + 1 \in (nr + 1)..(ns + 1) /\ last \in nr..ns /\ last - (next + 1) + 1 = R - (k + 1)
           /\ next \in (nr + 1)..(ns + 1) /\ last - 1 \in nr..ns /\ (last - 1) - next + 1 = R - (k + 1)
      BY <1>2, <3>2, <3>6, <3>7
    <3>11. new = IF e > h[last]
                 THEN [at |-> [at EXCEPT ![h[next]] = at[e]], next |-> next + 1, last |-> last]
                 ELSE [at |-> at, next |-> next, last |-> last - 1]
      <4>1. npart[r] + 1 - (k + 1) = e
        BY <3>8
      <4> HIDE DEF e
      <4>2. new = IF npart[r] + 1 - (k + 1) > hole[last][1]
                  THEN [at |-> [at EXCEPT ![hole[next][1]] = at[npart[r] + 1 - (k + 1)]],
                        next |-> next + 1, last |-> last]
                  ELSE [at |-> at, next |-> next, last |-> last - 1]
        BY <3>3 DEF Fill
      <4> QED
        BY <3>9, <4>1, <4>2, Zenon
    <3> HIDE DEF e
    <3>12. /\ e > h[last] =>
                /\ Enumerates([at EXCEPT ![h[next]] = at[e]],
                              (1..(e - 1)) \ {h[i] : i \in (next + 1)..last}, S)
                /\ h[last] <= e - 1
           /\ ~(e > h[last]) =>
                /\ Enumerates(at, (1..(e - 1)) \ {h[i] : i \in next..(last - 1)}, S)
                /\ last - 1 >= 1 => h[last - 1] <= e - 1
      <4>1. DOMAIN at = 1..m /\ e \in 1..m /\ h[last] <= e
        BY <3>4, <3>8
      <4> QED
        BY <4>1, <3>5, <3>7, Filling, Zenon
    <3>13. CASE e > h[last]
      <4>1. /\ new.at = [at EXCEPT ![h[next]] = at[e]] /\ new.next = next + 1 /\ new.last = last
            /\ new = [at |-> new.at, next |-> new.next, last |-> new.last] /\ DOMAIN new.at = 1..m
        BY <3>4, <3>11, <3>13
      <4>2. /\ new.next \in (nr + 1)..(ns + 1) /\ new.last \in nr..ns
            /\ new.last - new.next + 1 = R - (k + 1)
        BY <3>10, <4>1, Zenon
      <4>3. m - (k + 1) \in Nat /\ h[new.last] <= m - (k + 1)
        BY <3>8, <3>12, <3>13, <4>1
      <4>4. Enumerates(new.at, (1..(m - (k + 1))) \ {h[i] : i \in new.next..new.last}, S)
        BY <3>8, <3>12, <3>13, <4>1
      <4>5. Good(new, k + 1)
        BY <4>1, <4>2, <4>3, <4>4
      <4> HIDE DEF Good
      <4> QED
        BY <3>2, <4>5 DEF new
    <3>14. CASE ~(e > h[last])
      <4>1. /\ new.at = at /\ new.next = next /\ new.last = last - 1
            /\ new = [at |-> new.at, next |-> new.next, last |-> new.last] /\ DOMAIN new.at = 1..m
        BY <3>4, <3>11, <3>14
      <4>2. /\ new.next \in (nr + 1)..(ns + 1) /\ new.last \in nr..ns
            /\ new.last - new.next + 1 = R - (k + 1)
        BY <3>10, <4>1, Zenon
      <4>3. m - (k + 1) \in Nat /\ (new.last >= 1 => h[new.last] <= m - (k + 1))
        BY <3>8, <3>12, <3>14, <4>1
      <4>4. Enumerates(new.at, (1..(m - (k + 1))) \ {h[i] : i \in new.next..new.last}, S)
        BY <3>8, <3>12, <3>14, <4>1
      <4>5. Good(new, k + 1)
        BY <4>1, <4>2, <4>3, <4>4
      <4> HIDE DEF Good
      <4> QED
        BY <3>2, <4>5 DEF new
    <3> QED
      BY <3>13, <3>14
  <2> HIDE DEF G
  <2>4. \A k \in 0..R : k \in G
    BY <1>2, <2>2, <2>3, UpTo
  <2>5. R \in G
    BY <1>2, <2>4
  <2>6. Good(acc[R], R)
    BY <2>5 DEF G
  <2>7. acc[R].next..acc[R].last = {}
    BY <1>2, <2>6
  <2>8. m - R = m + nr - ns /\ m - R \in Nat
    BY <2>1, <2>6
  <2>9. (1..(m - R)) \ {h[i] : i \in acc[R].next..acc[R].last} = 1..(m + nr - ns)
    BY <2>7, <2>8
  <2> QED
    BY <1>3, <2>6, <2>8, <2>9
<1> QED
  BY <1>8, <1>9

-----------------------------------------------------------------------------
(***************************************************************************)
(* Unpacking                                                               *)
(***************************************************************************)
\* Once the counts are gathered, a rank expects from each what it was counted
LEMMA Expects ==
  ASSUME TypeOK, NEW old, NEW r \in Ranks, Announced(old, r),
         pc[r] \in {"irecv", "sendp", "recvp", "share"}
  PROVE  /\ Receives(r) \in [Ranks -> Nat]
         /\ \A s \in Ranks : Receives(r)[s] = sends[s][r]
         /\ Starts(Receives(r)) \in [0..NRanks -> Nat] /\ NRecv(r) \in Nat
<1>1. sends \in [Ranks -> [Ranks -> Nat]]
  BY DEF TypeOK
<1>2. allsends[r] = sends
  BY DEF Announced
<1>3. Receives(r) \in [Ranks -> Nat] /\ \A s \in Ranks : Receives(r)[s] = sends[s][r]
  BY <1>1, <1>2 DEF Receives
<1>4. Starts(Receives(r)) \in [0..NRanks -> Nat]
  BY <1>3, StartsIs
<1> QED
  BY <1>3, <1>4, Ranking DEF NRecv

\* All that arrived at r
LEMMA Arrivals ==
  ASSUME TypeOK, NEW old, ExchangeInv(old), NEW r \in Ranks, pc[r] = "recvp", rreq[r] = {}
  PROVE  /\ DOMAIN rbuf[r] = 1..NRecv(r)
         /\ Enumerates(rbuf[r], 1..NRecv(r), UNION {Out(old, s, r) : s \in Ranks \ {r}})
<1> DEFINE n == Receives(r)
           from == [s \in Ranks |-> Starts(sends[s])[r]]
<1>1. Announced(old, r) /\ Received(old, r) /\ Posted(r) /\ Whole(old)
  BY DEF ExchangeInv, Posted
<1>2. /\ n \in [Ranks -> Nat] /\ \A s \in Ranks : n[s] = sends[s][r]
      /\ NRecv(r) \in Nat /\ NRecv(r) = Starts(n)[NRanks]
  BY <1>1, Expects DEF NRecv
<1>3. n[r] = 0
  BY <1>1, <1>2 DEF Announced
<1>4. /\ rbuf[r] \in Seq(Column) /\ sends \in [Ranks -> [Ranks -> Nat]]
      /\ Len(rbuf[r]) = NRecv(r)
  BY <1>1 DEF TypeOK, Received
<1>5. DOMAIN rbuf[r] = 1..NRecv(r)
  BY <1>4
<1>6. from \in [Ranks -> Nat]
  <2>1. ASSUME NEW s \in Ranks PROVE Starts(sends[s])[r] \in Nat
    <3>1. sends[s] \in [Ranks -> Nat]
      BY <1>4
    <3>2. Starts(sends[s]) \in [0..NRanks -> Nat]
      BY <3>1, StartsIs
    <3>3. r \in 0..NRanks
      BY Ranking
    <3> QED
      BY <3>2, <3>3
  <2> QED
    BY <2>1
<1>7. ASSUME NEW s \in Ranks \ {r}, n[s] = 0
      PROVE  Out(old, s, r) = {}
  BY <1>2, <1>7 DEF ExchangeInv, Announced
<1>8. ASSUME NEW s \in Ranks \ {r}, n[s] > 0
      PROVE  /\ Enumerates(sbuf[s], (from[s] + 1)..(from[s] + n[s]), Out(old, s, r))
             /\ \A j \in 1..n[s] : rbuf[r][Starts(n)[s] + j] = sbuf[s][from[s] + j]
  <2>1. sends[s][r] > 0 /\ n[s] = sends[s][r] /\ from[s] = Starts(sends[s])[r] /\ n[s] \in Nat /\ from[s] \in Nat
    BY <1>2, <1>6, <1>8
  <2>2. Announced(old, s) /\ Arrived(s, r, 0) /\ Arrived(s, r, 1)
    BY DEF ExchangeInv, Tags
  <2>3. /\ Sent(s)
        /\ \A j \in 1..n[s] :
             LET x == rbuf[r][Starts(n)[s] + j]
                 y == sbuf[s][from[s] + j]
             IN  x.vel = y.vel /\ x.at = y.at /\ x.id = y.id /\ x.gid = y.gid
    BY <1>1, <2>1, <2>2 DEF Arrived
  <2>4. Enumerates(sbuf[s], (from[s] + 1)..(from[s] + n[s]), Out(old, s, r))
    BY <2>1, <2>2, <2>3 DEF Announced, Part
  <2>5. ASSUME NEW j \in 1..n[s] PROVE rbuf[r][Starts(n)[s] + j] = sbuf[s][from[s] + j]
    <3> DEFINE x == rbuf[r][Starts(n)[s] + j]
               y == sbuf[s][from[s] + j]
    <3>1. Starts(n)[s] + j \in Part(n, s)
      <4>1. Starts(n)[s] \in Nat
        BY <1>2, PartsCover
      <4> QED
        BY <2>1, <4>1 DEF Part
    <3>2. Starts(n)[s] + j \in DOMAIN rbuf[r]
      BY <1>2, <1>5, <3>1, PartsCover
    <3>3. x \in Column
      BY <1>4, <3>2
    <3>4. from[s] + j \in (from[s] + 1)..(from[s] + n[s])
      BY <2>1
    <3>5. y \in Out(old, s, r)
      BY <2>4, <3>4 DEF Enumerates
    <3>6. y \in Particle
      BY <1>1, <3>5, OutIs
    <3>7. x.vel = y.vel /\ x.at = y.at /\ x.id = y.id /\ x.gid = y.gid
      BY <2>3
    <3> HIDE DEF x, y
    <3>8. x = y
      BY <3>3, <3>6, <3>7 DEF Column, Particle
    <3> QED
      BY <3>8 DEF x, y
  <2> QED
    BY <2>4, <2>5
<1> HIDE DEF from, n
<1>9. /\ \A s \in Ranks \ {r} : n[s] = 0 => Out(old, s, r) = {}
      /\ \A s \in Ranks \ {r} : n[s] > 0 =>
           /\ Enumerates(sbuf[s], (from[s] + 1)..(from[s] + n[s]), Out(old, s, r))
           /\ \A j \in 1..n[s] : rbuf[r][Starts(n)[s] + j] = sbuf[s][from[s] + j]
  BY <1>7, <1>8
<1>10. Enumerates(rbuf[r], 1..Starts(n)[NRanks], UNION {Out(old, s, r) : s \in Ranks \ {r}})
  <2>1. Arrival(old, r, n, from, rbuf[r], sbuf)
    BY <1>2, <1>3, <1>6, <1>9 DEF Arrival
  <2> QED
    BY <1>1, <2>1, ArrivalsAre
<1> QED
  BY <1>2, <1>5, <1>10

\* RecvAndUnpackPrtcls: the arrays then hold the particles that lie in a block of
\* the rank, each in one column
LEMMA Unpacked ==
  ASSUME TypeOK, NEW old, ExchangeInv(old), NEW r \in Ranks, pc[r] = "recvp", rreq[r] = {},
         NEW hole \in SortedBy(sendlist[r], 1)
  PROVE  NewNpart(r) \in Nat /\ Enumerates(Filled(r, hole), 1..NewNpart(r), Mine(old, r))
<1> DEFINE m == npart[r]
           ns == NSend(r)
           nr == NRecv(r)
           h == [k \in 1..ns |-> hole[k][1]]
           size == IF nr > ns THEN m + nr - ns ELSE m
           Kept == Out(old, r, r)
           Come == UNION {Out(old, s, r) : s \in Ranks \ {r}}
           place == [n \in 1..nr |-> PlaceOf(r, hole, n)]
           list == sendlist[r]
<1>1. Counted(old, r) /\ Announced(old, r) /\ Whole(old)
  BY DEF ExchangeInv
<1>2. /\ m = Len(old[r]) /\ Listing(list, old[r], r)
      /\ Len(prtcl[r]) \in {m} \cup (IF nr > ns THEN {NewNpart(r)} ELSE {})
      /\ \A p \in 1..m : prtcl[r][p] = old[r][p]
  BY <1>1 DEF Counted
<1>3. nr \in Nat
  BY <1>1, Expects
<1>4. /\ prtcl[r] \in Seq(Column) /\ list \in Seq((Nat \ {0}) \X Ranks) /\ m \in Nat
  BY DEF TypeOK
<1>5. ns \in Nat /\ ns = Len(list) /\ DOMAIN list = 1..ns /\ NewNpart(r) = m + nr - ns
  BY <1>4 DEF NSend, NewNpart
<1>6. old[r] \in Seq(Particle) /\ DOMAIN old[r] = 1..m
  BY <1>1, <1>2 DEF Whole
<1>7. Listing(hole, old[r], r) /\ DOMAIN hole = 1..ns
  <2>1. Listing(sendlist[r], old[r], r)
    BY <1>2
  <2>2. Listing(hole, old[r], r) /\ DOMAIN hole = DOMAIN sendlist[r]
    BY <2>1, ListingSorted
  <2> QED
    BY <1>5, <2>2
<1>8. \A i, j \in DOMAIN hole : i < j => hole[i][1] <= hole[j][1]
  BY <1>4, SortOrders, Zenon
<1>9. /\ hole \in Seq((1..m) \X Ranks)
      /\ \A i \in 1..ns : Owner[old[r][hole[i][1]].at] = hole[i][2] /\ hole[i][2] # r
      /\ \A i, j \in 1..ns : hole[i][1] = hole[j][1] => i = j
      /\ \A p \in 1..m : Owner[old[r][p].at] # r => \E i \in 1..ns : hole[i][1] = p
  BY <1>2, <1>6, <1>7 DEF Listing
<1> HIDE DEF m, ns, nr, list
<1>10. \A k \in 1..ns : hole[k][1] \in 1..m
  <2> SUFFICES ASSUME NEW k \in 1..ns PROVE hole[k][1] \in 1..m
    OBVIOUS
  <2>1. hole[k] \in (1..m) \X Ranks
    <3>1. hole \in Seq((1..m) \X Ranks) /\ k \in DOMAIN hole
      BY <1>7, <1>9
    <3> QED
      BY <3>1, ElementOf
  <2> QED
    BY <2>1
<1>11. /\ h \in [1..ns -> 1..m] /\ \A k \in 1..ns : h[k] = hole[k][1] /\ h[k] \in 1..m
       /\ \A i, j \in 1..ns : h[i] = h[j] => i = j
  BY <1>9, <1>10
<1>12. \A i, j \in 1..ns : i < j => h[i] < h[j]
  <2> SUFFICES ASSUME NEW i \in 1..ns, NEW j \in 1..ns, i < j PROVE h[i] < h[j]
    OBVIOUS
  <2>1. h[i] <= h[j]
    BY <1>7, <1>8, <1>11
  <2>2. i # j /\ h[i] # h[j]
    BY <1>5, <1>11
  <2> QED
    BY <1>11, <2>1, <2>2
<1> HIDE DEF h
<1>13. /\ DOMAIN rbuf[r] = 1..nr
       /\ Enumerates(rbuf[r], 1..nr, Come)
  BY Arrivals DEF nr
<1>14. Enumerates(old[r], (1..m) \ {h[k] : k \in 1..ns}, Kept)
  <2> DEFINE K == (1..m) \ {h[k] : k \in 1..ns}
  <2>1. \A p \in 1..m : p \in K <=> Owner[old[r][p].at] = r
    <3> SUFFICES ASSUME NEW p \in 1..m PROVE p \in K <=> Owner[old[r][p].at] = r
      OBVIOUS
    <3>1. ASSUME Owner[old[r][p].at] # r PROVE p \notin K
      BY <1>9, <1>11, <3>1
    <3>2. ASSUME NEW k \in 1..ns, h[k] = p PROVE Owner[old[r][p].at] # r
      BY <1>9, <1>11, <3>2
    <3> QED
      BY <3>1, <3>2
  <2>2. \A p \in K : p \in 1..m
    OBVIOUS
  <2> HIDE DEF K
  <2>3. \A p, q \in 1..m : old[r][p] = old[r][q] => p = q
    <3>1. \A p, q \in 1..m : old[r][p].id = old[r][q].id => p = q
      <4>1. \A s, t \in Ranks : \A p \in DOMAIN old[s], q \in DOMAIN old[t] :
              old[s][p].id = old[t][q].id => s = t /\ p = q
        BY <1>1 DEF Whole
      <4>2. \A p \in DOMAIN old[r], q \in DOMAIN old[r] :
              old[r][p].id = old[r][q].id => r = r /\ p = q
        BY <4>1, Zenon
      <4> QED
        BY <1>6, <4>2
    <3> SUFFICES ASSUME NEW p \in 1..m, NEW q \in 1..m, old[r][p] = old[r][q] PROVE p = q
      OBVIOUS
    <3>2. old[r][p].id = old[r][q].id
      OBVIOUS
    <3> QED
      BY <3>1, <3>2
  <2>4. \A p \in K : old[r][p] \in Kept
    BY <1>6, <2>1, <2>2 DEF Out
  <2>5. \A x \in Kept : \E p \in K : old[r][p] = x
    BY <1>6, <2>1 DEF Out
  <2> QED
    BY <2>2, <2>3, <2>4, <2>5 DEF Enumerates, K
<1>15. DOMAIN Grown(r) = 1..size /\ \A p \in 1..m : Grown(r)[p] = old[r][p]
  <2>1. DOMAIN prtcl[r] = 1..Len(prtcl[r]) /\ Len(prtcl[r]) \in Nat
    BY <1>4
  <2>2. CASE nr > ns
    <3>1. Grown(r) = [p \in 1..NewNpart(r) |-> IF p \in DOMAIN prtcl[r] THEN prtcl[r][p] ELSE Zero]
      BY <2>2 DEF Grown, nr, ns
    <3>2. size = NewNpart(r) /\ size \in Nat /\ size >= m
      BY <1>3, <1>4, <1>5, <2>2
    <3>3. \A p \in 1..m : p \in DOMAIN prtcl[r] /\ p \in 1..size
      BY <1>2, <1>4, <2>1, <3>2
    <3> QED
      BY <1>2, <3>1, <3>2, <3>3
  <2>3. CASE ~(nr > ns)
    <3>1. Grown(r) = prtcl[r] /\ size = m /\ Len(prtcl[r]) = m
      BY <1>2, <2>3 DEF Grown, nr, ns
    <3> QED
      BY <1>2, <2>1, <3>1
  <2> QED
    BY <2>2, <2>3
<1>16. \A n \in 1..nr : place[n] = IF n <= ns THEN h[n] ELSE m + n - ns
  <2> SUFFICES ASSUME NEW n \in 1..nr PROVE PlaceOf(r, hole, n) = IF n <= ns THEN h[n] ELSE m + n - ns
    OBVIOUS
  <2>1. n <= ns => hole[n][1] = h[n]
    BY <1>3, <1>5, <1>11
  <2> QED
    BY <2>1 DEF PlaceOf, m, ns
<1>17. /\ DOMAIN Placed(r, hole) = 1..size
       /\ \A p \in 1..size : Placed(r, hole)[p] =
            IF \E n \in 1..nr : place[n] = p
            THEN rbuf[r][CHOOSE n \in 1..nr : place[n] = p] ELSE Grown(r)[p]
  <2>1. \A n \in 1..nr : place[n] = PlaceOf(r, hole, n)
    OBVIOUS
  <2>2. \A p : (CHOOSE n \in 1..nr : place[n] = p) = (CHOOSE n \in 1..nr : PlaceOf(r, hole, n) = p)
    BY <2>1
  <2> HIDE DEF place, size
  <2>3. Placed(r, hole) = [p \in 1..size |->
          IF \E n \in 1..nr : PlaceOf(r, hole, n) = p
          THEN rbuf[r][CHOOSE n \in 1..nr : PlaceOf(r, hole, n) = p] ELSE Grown(r)[p]]
    BY <1>13, <1>15, Zenon DEF Placed
  <2>4. DOMAIN Placed(r, hole) = 1..size
    BY <2>3
  <2>5. ASSUME NEW p \in 1..size
        PROVE  Placed(r, hole)[p] =
                 IF \E n \in 1..nr : place[n] = p
                 THEN rbuf[r][CHOOSE n \in 1..nr : place[n] = p] ELSE Grown(r)[p]
    <3>1. Placed(r, hole)[p] =
            IF \E n \in 1..nr : PlaceOf(r, hole, n) = p
            THEN rbuf[r][CHOOSE n \in 1..nr : PlaceOf(r, hole, n) = p] ELSE Grown(r)[p]
      BY <2>3, Zenon
    <3>2. (\E n \in 1..nr : PlaceOf(r, hole, n) = p) <=> (\E n \in 1..nr : place[n] = p)
      BY <2>1
    <3>3. (CHOOSE n \in 1..nr : place[n] = p) = (CHOOSE n \in 1..nr : PlaceOf(r, hole, n) = p)
      BY <2>2, SMT
    <3> QED
      BY <3>1, <3>2, <3>3, Zenon
  <2> QED
    BY <2>4, <2>5
<1>18. \A x \in Kept : x \notin Come
  <2> SUFFICES ASSUME NEW x \in Kept, NEW s \in Ranks \ {r}, x \in Out(old, s, r) PROVE FALSE
    OBVIOUS
  <2> QED
    BY <1>1, OutOnce
<1>19. Enumerates(Grown(r), (1..m) \ {h[k] : k \in 1..ns}, Kept)
  <2> DEFINE K == (1..m) \ {h[k] : k \in 1..ns}
  <2>1. \A p \in K : Grown(r)[p] = old[r][p]
    BY <1>15
  <2> HIDE DEF K
  <2> QED
    BY <1>14, <2>1 DEF Enumerates, K
<1>20. size = IF nr > ns THEN m + nr - ns ELSE m
  OBVIOUS
<1>21. Kept \cup Come = Mine(old, r)
  BY DEF Mine
<1> HIDE DEF place, size, Kept, Come
<1>22. Enumerates(Placed(r, hole), (1..size) \ {h[k] : k \in (nr + 1)..ns}, Kept \cup Come)
  <2>1. m \in Nat /\ ns \in Nat /\ nr \in Nat /\ h \in [1..ns -> 1..m]
    BY <1>3, <1>4, <1>5, <1>11 DEF m
  <2>2. \A i, j \in 1..ns : h[i] = h[j] => i = j
    BY <1>11
  <2> QED
    <3>1. Placement(m, ns, nr, h, Kept, Come, Grown(r), rbuf[r], place, Placed(r, hole), size)
      BY <2>1, <2>2, <1>13, <1>16, <1>17, <1>18, <1>19, <1>20 DEF Placement
    <3> QED
      BY <3>1, Placing
<1>23. m \in Nat /\ npart[r] = m /\ NSend(r) = ns /\ NRecv(r) = nr
  BY <1>4 DEF m, ns, nr
<1>24. m + nr - ns \in Nat /\ Enumerates(Filled(r, hole), 1..(m + nr - ns), Kept \cup Come)
  <2>1. /\ ns \in Nat /\ nr \in Nat /\ h \in [1..ns -> 1..m]
        /\ \A k \in 1..ns : hole[k][1] = h[k]
    BY <1>3, <1>5, <1>11
  <2> QED
    <3>1. Holes(r, hole, m, ns, nr, h, Kept \cup Come, size)
      BY <2>1, <1>12, <1>17, <1>20, <1>22, <1>23 DEF Holes
    <3> QED
      BY <3>1, FilledIs
<1> QED
  BY <1>5, <1>21, <1>24

-----------------------------------------------------------------------------
(***************************************************************************)
(* From one phase to the other                                             *)
(***************************************************************************)
\* When all are about to gather their counts, an exchange of what they hold starts
LEMMA ExchangeStarts ==
  ASSUME TypeOK, BetweenInv, AllAt("gather")
  PROVE  ExchangeInv(prtcl) /\ prtcl \in [Ranks -> Seq(Particle)]
<1>1. /\ prtcl \in [Ranks -> Seq(Column)] /\ Whole(prtcl)
      /\ \A r \in Ranks : Arrays(r) /\ Lists(r) /\ pc[r] = "gather" /\ rreq[r] = {}
      /\ \A s, d \in Ranks, t \in Tags : flight[s][d][t] = <<>>
  BY DEF BetweenInv, AllAt, Quiet, TypeOK
<1>2. prtcl \in [Ranks -> Seq(Particle)]
  BY <1>1 DEF Whole
<1>3. \A r \in Ranks : \A p \in DOMAIN prtcl[r] : prtcl[r][p].gid = prtcl[r][p].at
  BY <1>1 DEF Arrays
<1>4. ASSUME NEW r \in Ranks
      PROVE  Counted(prtcl, r) /\ Announced(prtcl, r) /\ Received(prtcl, r)
  <2>1. /\ Len(prtcl[r]) = npart[r] /\ Listing(sendlist[r], prtcl[r], r)
        /\ ByRank(sendlist[r]) /\ sends[r] = Runs(sendlist[r]) /\ pc[r] = "gather"
    BY <1>1 DEF Arrays, Lists
  <2>2. Counted(prtcl, r)
    BY <2>1 DEF Counted
  <2>3. sends[r][r] = 0 /\ \A d \in Ranks \ {r} : sends[r][d] = 0 => Out(prtcl, r, d) = {}
    BY <1>1, <2>1, PackedIs
  <2>4. Announced(prtcl, r)
    BY <2>1, <2>3 DEF Announced, Sent
  <2>5. Received(prtcl, r)
    BY <2>1 DEF Received, Posted
  <2> QED
    BY <2>2, <2>4, <2>5
<1>5. ASSUME NEW s \in Ranks, NEW d \in Ranks, NEW t \in Tags
      PROVE  Messages(s, d, t) /\ Arrived(s, d, t)
  <2>1. pc[s] = "gather" /\ pc[d] = "gather" /\ rreq[d] = {} /\ flight[s][d][t] = <<>>
    BY <1>1
  <2> QED
    BY <2>1 DEF Messages, Arrived, Sent
<1> QED
  BY <1>1, <1>2, <1>3, <1>4, <1>5 DEF ExchangeInv

\* What a rank has after unpacking is its own
LEMMA HasItsOwn ==
  ASSUME TypeOK, NEW old, ExchangeInv(old), NEW r \in Ranks, pc[r] = "share"
  PROVE  /\ Len(prtcl[r]) = npart[r] /\ DOMAIN prtcl[r] = 1..npart[r]
         /\ \A p \in 1..npart[r] :
              /\ prtcl[r][p] \in Particle /\ prtcl[r][p].id = prtcl[r][p].vel
              /\ prtcl[r][p].gid = prtcl[r][p].at /\ Owner[prtcl[r][p].gid] = r
              /\ \E s \in Ranks : prtcl[r][p] \in Out(old, s, r)
         /\ \A s \in Ranks : \A x \in Out(old, s, r) : \E p \in 1..npart[r] : prtcl[r][p] = x
         /\ \A p, q \in 1..npart[r] : prtcl[r][p] = prtcl[r][q] => p = q
<1>1. /\ Received(old, r) /\ Whole(old)
      /\ \A s \in Ranks : \A p \in DOMAIN old[s] : old[s][p].gid = old[s][p].at
  BY DEF ExchangeInv
<1>2. Len(prtcl[r]) = npart[r] /\ Enumerates(prtcl[r], 1..npart[r], Mine(old, r))
  BY <1>1 DEF Received
<1>3. DOMAIN prtcl[r] = 1..npart[r]
  BY <1>2 DEF TypeOK
<1>4. /\ \A p \in 1..npart[r] : prtcl[r][p] \in Mine(old, r)
      /\ \A x \in Mine(old, r) : \E p \in 1..npart[r] : prtcl[r][p] = x
      /\ \A p, q \in 1..npart[r] : prtcl[r][p] = prtcl[r][q] => p = q
  BY <1>2 DEF Enumerates
<1>5. \A s \in Ranks : \A x \in Out(old, s, r) : x \in Mine(old, r)
  BY DEF Mine
<1>6. ASSUME NEW p \in 1..npart[r]
      PROVE  /\ prtcl[r][p] \in Particle /\ prtcl[r][p].id = prtcl[r][p].vel
             /\ prtcl[r][p].gid = prtcl[r][p].at /\ Owner[prtcl[r][p].gid] = r
             /\ \E s \in Ranks : prtcl[r][p] \in Out(old, s, r)
  <2>1. PICK s \in Ranks : prtcl[r][p] \in Out(old, s, r)
    BY <1>4 DEF Mine
  <2>2. PICK q \in DOMAIN old[s] : prtcl[r][p] = old[s][q]
    BY <2>1 DEF Out
  <2>3. prtcl[r][p].gid = prtcl[r][p].at
    BY <1>1, <2>2
  <2>4. /\ prtcl[r][p] \in Particle /\ Owner[prtcl[r][p].at] = r /\ prtcl[r][p].id = prtcl[r][p].vel
    BY <1>1, <2>1, OutIs
  <2> QED
    BY <2>1, <2>3, <2>4
<1> QED
  BY <1>2, <1>3, <1>4, <1>5, <1>6

\* When all have unpacked, the exchange is over and nothing of it is left
LEMMA ExchangeEnds ==
  ASSUME TypeOK, NEW old, ExchangeInv(old), AllAt("share")
  PROVE  BetweenInv
<1>1. /\ Whole(old) /\ \A s, d \in Ranks, t \in Tags : Messages(s, d, t)
      /\ \A r \in Ranks : pc[r] = "share"
  BY DEF ExchangeInv, AllAt
<1>2. \A r \in Ranks :
        /\ Len(prtcl[r]) = npart[r] /\ DOMAIN prtcl[r] = 1..npart[r]
        /\ \A p \in 1..npart[r] :
             /\ prtcl[r][p] \in Particle /\ prtcl[r][p].id = prtcl[r][p].vel
             /\ prtcl[r][p].gid = prtcl[r][p].at /\ Owner[prtcl[r][p].gid] = r
             /\ \E s \in Ranks : prtcl[r][p] \in Out(old, s, r)
        /\ \A s \in Ranks : \A x \in Out(old, s, r) : \E p \in 1..npart[r] : prtcl[r][p] = x
        /\ \A p, q \in 1..npart[r] : prtcl[r][p] = prtcl[r][q] => p = q
  BY <1>1, HasItsOwn
<1>3. \A r \in Ranks : prtcl[r] \in Seq(Column) /\ npart[r] \in Nat
  BY DEF TypeOK
<1>4. ASSUME NEW r \in Ranks PROVE prtcl[r] \in Seq(Particle)
  <2>1. prtcl[r] \in [1..npart[r] -> Particle]
    <3>1. prtcl[r] = [p \in 1..npart[r] |-> prtcl[r][p]]
      BY <1>2, <1>3
    <3> QED
      BY <1>2, <3>1
  <2> QED
    BY <1>3, <2>1
<1>5. ASSUME NEW i \in Ids
      PROVE  \E r \in Ranks : \E p \in DOMAIN prtcl[r] : prtcl[r][p].id = i
  <2>1. PICK s \in Ranks : \E q \in DOMAIN old[s] : old[s][q].id = i
    BY <1>1 DEF Whole
  <2>2. PICK q \in DOMAIN old[s] : old[s][q].id = i
    BY <2>1
  <2> DEFINE d == Owner[old[s][q].at]
  <2>3. old[s][q] \in Particle
    BY <1>1, ElementOf DEF Whole
  <2>4. d \in Ranks
    BY <2>3, ParticlesAssumption DEF Particle
  <2>5. old[s][q] \in Out(old, s, d)
    BY DEF Out
  <2>6. PICK p \in 1..npart[d] : prtcl[d][p] = old[s][q]
    BY <1>2, <2>4, <2>5
  <2> QED
    BY <1>2, <2>2, <2>4, <2>6
<1>6. ASSUME NEW r \in Ranks, NEW s \in Ranks, NEW p \in DOMAIN prtcl[r], NEW q \in DOMAIN prtcl[s],
             prtcl[r][p].id = prtcl[s][q].id
      PROVE  r = s /\ p = q
  <2>1. p \in 1..npart[r] /\ q \in 1..npart[s]
    BY <1>2
  <2>2. PICK a \in Ranks : prtcl[r][p] \in Out(old, a, r)
    BY <1>2, <2>1
  <2>3. PICK b \in Ranks : prtcl[s][q] \in Out(old, b, s)
    BY <1>2, <2>1
  <2>4. r = s /\ prtcl[r][p] = prtcl[s][q]
    BY <1>1, <1>6, <2>2, <2>3, OutOnce
  <2> QED
    BY <1>2, <2>1, <2>4
<1>7. Whole(prtcl)
  <2>1. \A r \in Ranks : \A p \in DOMAIN prtcl[r] : prtcl[r][p].id = prtcl[r][p].vel
    BY <1>2
  <2> QED
    BY <1>4, <1>5, <1>6, <2>1 DEF Whole
<1>8. \A d \in Ranks : rreq[d] = {}
  <2> SUFFICES ASSUME NEW d \in Ranks, NEW x \in rreq[d] PROVE FALSE
    OBVIOUS
  <2>1. rreq[d] \subseteq Ranks \X Tags
    BY DEF TypeOK
  <2>2. PICK s \in Ranks, t \in Tags : x = <<s, t>>
    BY <2>1
  <2>3. Posted(d)
    BY <1>1, <2>2 DEF Messages
  <2> QED
    BY <1>1, <2>3 DEF Posted
<1>9. \A s, d \in Ranks, t \in Tags : flight[s][d][t] = <<>>
  <2> SUFFICES ASSUME NEW s \in Ranks, NEW d \in Ranks, NEW t \in Tags PROVE flight[s][d][t] = <<>>
    OBVIOUS
  <2> QED
    BY <1>1, <1>8 DEF Messages
<1>10. ASSUME NEW r \in Ranks PROVE Arrays(r) /\ Lists(r) /\ pc[r] = "share"
  <2>1. Arrays(r)
    BY <1>1, <1>2 DEF Arrays
  <2>2. Lists(r)
    BY <1>1 DEF Lists
  <2> QED
    BY <1>1, <2>1, <2>2
<1> QED
  BY <1>7, <1>8, <1>9, <1>10 DEF BetweenInv, Quiet

\* A step that does not take a rank into the exchange or out of it
LEMMA BetweenKept ==
  ASSUME TypeOK, Between, NEW r \in Ranks, NEW to,
         pc' = [pc EXCEPT ![r] = to], to \notin {"irecv", "sendp", "recvp"},
         \/ cycle' = cycle /\ (to \in {"share", "crecv", "csend"} <=> pc[r] \in {"share", "crecv", "csend"})
         \/ cycle' = [cycle EXCEPT ![r] = @ + 1] /\ to = "push" /\ pc[r] = "csend"
  PROVE  Between'
<1>1. pc \in [Ranks -> Steps] /\ cycle \in [Ranks -> Nat]
  BY DEF TypeOK
<1>2. \A q \in Ranks : q # r => pc'[q] = pc[q] /\ cycle'[q] = cycle[q]
  BY <1>1
<1>3. pc'[r] = to
  BY <1>1
<1>4. \A q \in Ranks : Turn(q)' = Turn(q)
  <2>1. Turn(r)' = Turn(r)
    BY <1>1, <1>3 DEF Turn
  <2>2. \A q \in Ranks : q # r => Turn(q)' = Turn(q)
    BY <1>2 DEF Turn
  <2> QED
    BY <2>1, <2>2
<1>5. \A q \in Ranks : pc'[q] \notin {"irecv", "sendp", "recvp"}
  BY <1>2, <1>3 DEF Between
<1> QED
  BY <1>4, <1>5 DEF Between

\* A step that changes neither identities nor their number
LEMMA WholeKept ==
  ASSUME NEW a, NEW b, Whole(a),
         \A r \in Ranks : b[r] \in Seq(Particle) /\ DOMAIN b[r] = DOMAIN a[r],
         \A r \in Ranks : \A p \in DOMAIN a[r] : b[r][p].id = a[r][p].id /\ b[r][p].vel = a[r][p].vel
  PROVE  Whole(b)
<1>1. \A r \in Ranks : \A p \in DOMAIN b[r] : b[r][p].id = b[r][p].vel
  BY DEF Whole
<1>2. ASSUME NEW i \in Ids PROVE \E r \in Ranks : \E p \in DOMAIN b[r] : b[r][p].id = i
  <2>1. PICK r \in Ranks : \E p \in DOMAIN a[r] : a[r][p].id = i
    BY DEF Whole
  <2>2. PICK p \in DOMAIN a[r] : a[r][p].id = i
    BY <2>1
  <2> QED
    BY <2>2
<1>3. \A r, s \in Ranks : \A p \in DOMAIN b[r], q \in DOMAIN b[s] :
        b[r][p].id = b[s][q].id => r = s /\ p = q
  BY DEF Whole
<1> QED
  BY <1>1, <1>2, <1>3 DEF Whole

-----------------------------------------------------------------------------
(***************************************************************************)
(* The steps between two exchanges                                         *)
(***************************************************************************)
\* A drift changes only where particles lie
LEMMA PushStep ==
  ASSUME TypeOK, Between, BetweenInv, NEW r \in Ranks, Push(r)
  PROVE  TypeOK' /\ Between' /\ BetweenInv'
<1>1. PICK drift \in [1..npart[r] -> Blocks] :
        prtcl' = [prtcl EXCEPT ![r] = [p \in 1..npart[r] |-> [prtcl[r][p] EXCEPT !.at = drift[p]]]]
  BY DEF Push
<1>2. /\ pc[r] = "push" /\ pc' = [pc EXCEPT ![r] = "newgid"]
      /\ UNCHANGED <<cycle, npart, sendlist, sends, allsends, sbuf, rbuf, flight, sreq, rreq, eachrank>>
  BY DEF Push, Go
<1>3. /\ pc \in [Ranks -> Steps] /\ prtcl \in [Ranks -> Seq(Column)] /\ npart \in [Ranks -> Nat]
  BY DEF TypeOK
<1>4. /\ Whole(prtcl) /\ Quiet
      /\ \A q \in Ranks : Arrays(q) /\ Lists(q) /\ (pc[q] # "share" => eachrank[q] = npart)
  BY DEF BetweenInv
<1>5. /\ \A q \in Ranks : q # r => prtcl'[q] = prtcl[q] /\ pc'[q] = pc[q]
      /\ prtcl'[r] = [p \in 1..npart[r] |-> [prtcl[r][p] EXCEPT !.at = drift[p]]]
      /\ pc'[r] = "newgid"
  BY <1>1, <1>2, <1>3
<1>6. Len(prtcl[r]) = npart[r] /\ DOMAIN prtcl[r] = 1..npart[r] /\ prtcl[r] \in Seq(Particle)
  BY <1>3, <1>4 DEF Arrays, Whole
<1>7. ASSUME NEW p \in 1..npart[r]
      PROVE  /\ prtcl'[r][p] \in Particle /\ prtcl'[r][p].id = prtcl[r][p].id
             /\ prtcl'[r][p].vel = prtcl[r][p].vel /\ prtcl'[r][p].gid = prtcl[r][p].gid
  <2>1. prtcl[r][p] \in Particle
    BY <1>6, ElementOf
  <2>2. prtcl'[r][p] = [prtcl[r][p] EXCEPT !.at = drift[p]] /\ drift[p] \in Blocks
    BY <1>5
  <2> QED
    BY <2>1, <2>2 DEF Particle
<1>8. prtcl'[r] \in Seq(Particle) /\ DOMAIN prtcl'[r] = 1..npart[r] /\ Len(prtcl'[r]) = npart[r]
  <2>1. prtcl'[r] \in [1..npart[r] -> Particle]
    <3>1. DOMAIN prtcl'[r] = 1..npart[r] /\ prtcl'[r] = [p \in 1..npart[r] |-> prtcl'[r][p]]
      BY <1>5
    <3> QED
      BY <1>7, <3>1
  <2>2. npart[r] \in Nat
    BY <1>3
  <2> QED
    BY <2>1, <2>2, ListOf
<1>9. Whole(prtcl')
  <2>1. \A q \in Ranks : prtcl'[q] \in Seq(Particle) /\ DOMAIN prtcl'[q] = DOMAIN prtcl[q]
    BY <1>4, <1>5, <1>6, <1>8 DEF Whole
  <2>2. \A q \in Ranks : \A p \in DOMAIN prtcl[q] :
          prtcl'[q][p].id = prtcl[q][p].id /\ prtcl'[q][p].vel = prtcl[q][p].vel
    BY <1>5, <1>6, <1>7
  <2> QED
    BY <1>4, <2>1, <2>2, WholeKept
<1>10. TypeOK'
  <2>1. Particle \subseteq Column
    BY DEF Particle, Column
  <2>2. prtcl'[r] \in Seq(Column)
    BY <1>8, <2>1
  <2>3. prtcl' \in [Ranks -> Seq(Column)] /\ pc' \in [Ranks -> Steps]
    BY <1>1, <1>2, <1>3, <1>5, <2>2 DEF Steps
  <2> QED
    BY <1>2, <2>3 DEF TypeOK
<1>11. Between'
  <2>1. "newgid" \notin {"irecv", "sendp", "recvp"} /\ cycle' = cycle
        /\ ("newgid" \in {"share", "crecv", "csend"} <=> pc[r] \in {"share", "crecv", "csend"})
    BY <1>2
  <2> QED
    BY <1>2, <2>1, BetweenKept
<1>12. \A q \in Ranks : Arrays(q)' /\ Lists(q)' /\ (pc'[q] # "share" => eachrank'[q] = npart')
  <2>1. Arrays(r)'
    BY <1>2, <1>4, <1>5, <1>6, <1>7, <1>8 DEF Arrays
  <2>2. Lists(r)'
    BY <1>5 DEF Lists
  <2>3. ASSUME NEW q \in Ranks, q # r PROVE Arrays(q)' /\ Lists(q)'
    BY <1>2, <1>4, <1>5, <2>3 DEF Arrays, Lists
  <2>4. ASSUME NEW q \in Ranks PROVE pc'[q] # "share" => eachrank'[q] = npart'
    BY <1>2, <1>4, <1>5
  <2> QED
    BY <2>1, <2>2, <2>3, <2>4
<1>13. Quiet'
  BY <1>2, <1>4 DEF Quiet
<1> QED
  BY <1>9, <1>10, <1>11, <1>12, <1>13 DEF BetweenInv

\* The list names the particles that leave, each once, if it has room for them
LEMMA SetNewPrtclGIDStep ==
  ASSUME TypeOK, Between, BetweenInv, Fits, NEW r \in Ranks, SetNewPrtclGID(r)
  PROVE  TypeOK' /\ Between' /\ BetweenInv'
<1> DEFINE n == Cardinality(Leaving(r))
<1>1. /\ pc[r] = "newgid" /\ pc' = [pc EXCEPT ![r] = "count"]
      /\ prtcl' = [prtcl EXCEPT ![r] = [p \in 1..npart[r] |-> [prtcl[r][p] EXCEPT !.gid = prtcl[r][p].at]]]
      /\ UNCHANGED <<cycle, npart, sends, allsends, sbuf, rbuf, flight, sreq, rreq, eachrank>>
  BY DEF SetNewPrtclGID, Go
<1>2. PICK written \in Bijection(1..n, Leaving(r)) :
        sendlist' = [sendlist EXCEPT ![r] =
          [i \in DOMAIN written |-> IF i <= npart[r] \div SendListPart
                                    THEN <<written[i], Owner[prtcl[r][written[i]].at]>>
                                    ELSE <<1, 0>>]]
  BY DEF SetNewPrtclGID
<1>3. /\ pc \in [Ranks -> Steps] /\ prtcl \in [Ranks -> Seq(Column)] /\ npart \in [Ranks -> Nat]
      /\ sendlist \in [Ranks -> Seq((Nat \ {0}) \X Ranks)]
  BY DEF TypeOK
<1>4. /\ Whole(prtcl) /\ Quiet
      /\ \A q \in Ranks : Arrays(q) /\ Lists(q) /\ (pc[q] # "share" => eachrank[q] = npart)
  BY DEF BetweenInv
<1>5. /\ \A q \in Ranks : q # r => prtcl'[q] = prtcl[q] /\ pc'[q] = pc[q] /\ sendlist'[q] = sendlist[q]
      /\ prtcl'[r] = [p \in 1..npart[r] |-> [prtcl[r][p] EXCEPT !.gid = prtcl[r][p].at]]
      /\ pc'[r] = "count"
  BY <1>1, <1>2, <1>3
<1>6. Len(prtcl[r]) = npart[r] /\ DOMAIN prtcl[r] = 1..npart[r] /\ prtcl[r] \in Seq(Particle)
  BY <1>3, <1>4 DEF Arrays, Whole
<1>7. ASSUME NEW p \in 1..npart[r]
      PROVE  /\ prtcl'[r][p] \in Particle /\ prtcl'[r][p].id = prtcl[r][p].id
             /\ prtcl'[r][p].vel = prtcl[r][p].vel /\ prtcl'[r][p].gid = prtcl'[r][p].at
             /\ prtcl'[r][p].at = prtcl[r][p].at /\ prtcl[r][p].at \in Blocks
  <2>1. prtcl[r][p] \in Particle
    BY <1>6, ElementOf
  <2>2. prtcl'[r][p] = [prtcl[r][p] EXCEPT !.gid = prtcl[r][p].at]
    BY <1>5
  <2> QED
    BY <2>1, <2>2 DEF Particle
<1>8. prtcl'[r] \in Seq(Particle) /\ DOMAIN prtcl'[r] = 1..npart[r] /\ Len(prtcl'[r]) = npart[r]
  <2>1. prtcl'[r] \in [1..npart[r] -> Particle]
    <3>1. DOMAIN prtcl'[r] = 1..npart[r] /\ prtcl'[r] = [p \in 1..npart[r] |-> prtcl'[r][p]]
      BY <1>5
    <3> QED
      BY <1>7, <3>1
  <2>2. npart[r] \in Nat
    BY <1>3
  <2> QED
    BY <2>1, <2>2, ListOf
<1>9. Whole(prtcl')
  <2>1. \A q \in Ranks : prtcl'[q] \in Seq(Particle) /\ DOMAIN prtcl'[q] = DOMAIN prtcl[q]
    BY <1>4, <1>5, <1>6, <1>8 DEF Whole
  <2>2. \A q \in Ranks : \A p \in DOMAIN prtcl[q] :
          prtcl'[q][p].id = prtcl[q][p].id /\ prtcl'[q][p].vel = prtcl[q][p].vel
    BY <1>5, <1>6, <1>7
  <2> QED
    BY <1>4, <2>1, <2>2, WholeKept
\* the list has room for all that leave
<1>10. n \in Nat /\ n <= npart[r] \div SendListPart
  <2>1. IsFiniteSet(1..npart[r])
    BY <1>3, FS_Interval
  <2>2. Leaving(r) \subseteq 1..npart[r]
    BY DEF Leaving
  <2>3. IsFiniteSet(Leaving(r))
    BY <2>1, <2>2, FS_Subset
  <2> QED
    BY <1>1, <2>3, FS_CardinalityType DEF Fits
<1>11. /\ written \in [1..n -> Leaving(r)]
       /\ \A i, j \in 1..n : written[i] = written[j] => i = j
       /\ \A p \in Leaving(r) : \E i \in 1..n : written[i] = p
  BY DEF Bijection, Injection, Surjection, IsInjective
<1>12. \A p \in 1..npart[r] : p \in Leaving(r) <=> Owner[prtcl[r][p].at] # r
  BY DEF Leaving
<1>13. \A i \in 1..n : /\ written[i] \in 1..npart[r] /\ written[i] \in Leaving(r)
                       /\ Owner[prtcl[r][written[i]].at] # r
  BY <1>11 DEF Leaving
<1> HIDE DEF n
<1> DEFINE list == sendlist'[r]
<1>14. /\ DOMAIN list = 1..n
       /\ \A i \in 1..n : list[i] = <<written[i], Owner[prtcl[r][written[i]].at]>>
  <2>1. \A i \in 1..n : i <= npart[r] \div SendListPart
    <3>1. npart[r] \div SendListPart \in Int
      BY <1>3, ParticlesAssumption
    <3> QED
      BY <1>10, <3>1
  <2>2. DOMAIN written = 1..n
    BY <1>11
  <2>3. list = [i \in 1..n |-> IF i <= npart[r] \div SendListPart
                               THEN <<written[i], Owner[prtcl[r][written[i]].at]>> ELSE <<1, 0>>]
    BY <1>2, <1>3, <2>2
  <2> HIDE DEF list
  <2> QED
    BY <2>1, <2>3
<1>15. \A i \in 1..n : Owner[prtcl[r][written[i]].at] \in Ranks
  BY <1>7, <1>13, ParticlesAssumption
<1>16. list \in Seq((1..npart[r]) \X Ranks)
  <2>1. list \in [1..n -> (1..npart[r]) \X Ranks]
    <3>1. ASSUME NEW i \in 1..n PROVE list[i] \in (1..npart[r]) \X Ranks
      <4>1. list[i] = <<written[i], Owner[prtcl[r][written[i]].at]>>
        BY <1>14
      <4>2. written[i] \in 1..npart[r] /\ Owner[prtcl[r][written[i]].at] \in Ranks
        BY <1>13, <1>15
      <4> HIDE DEF list
      <4> QED
        BY <4>1, <4>2
    <3>2. list = [i \in 1..n |-> list[i]]
      <4>1. list = [i \in DOMAIN list |-> list[i]]
        BY <1>2, <1>3
      <4> HIDE DEF list
      <4> QED
        BY <1>14, <4>1
    <3> HIDE DEF list
    <3> QED
      BY <3>1, <3>2
  <2> HIDE DEF list
  <2> QED
    BY <1>10, <2>1
<1> HIDE DEF list
<1>17. Listing(list, prtcl'[r], r)
  <2>1. \A i \in 1..n : list[i][1] = written[i] /\ list[i][2] = Owner[prtcl[r][written[i]].at]
    BY <1>14
  <2>2. ASSUME NEW i \in DOMAIN list
        PROVE  Owner[prtcl'[r][list[i][1]].at] = list[i][2] /\ list[i][2] # r
    BY <1>7, <1>13, <1>14, <2>1
  <2>3. ASSUME NEW i \in DOMAIN list, NEW j \in DOMAIN list, list[i][1] = list[j][1] PROVE i = j
    BY <1>11, <1>14, <2>1, <2>3
  <2>4. ASSUME NEW p \in DOMAIN prtcl'[r], Owner[prtcl'[r][p].at] # r
        PROVE  \E i \in DOMAIN list : list[i][1] = p
    <3>1. p \in Leaving(r)
      BY <1>7, <1>8, <1>12, <2>4
    <3>2. PICK i \in 1..n : written[i] = p
      BY <1>11, <3>1
    <3> QED
      BY <1>14, <2>1, <3>2
  <2> QED
    BY <1>8, <1>16, <2>2, <2>3, <2>4 DEF Listing
<1>18. TypeOK'
  <2>1. Particle \subseteq Column
    BY DEF Particle, Column
  <2>2. prtcl'[r] \in Seq(Column)
    BY <1>8, <2>1
  <2>3. prtcl' \in [Ranks -> Seq(Column)] /\ pc' \in [Ranks -> Steps]
    BY <1>1, <1>3, <1>5, <2>2 DEF Steps
  <2>4. list \in Seq((Nat \ {0}) \X Ranks)
    BY <1>16
  <2>5. sendlist' \in [Ranks -> Seq((Nat \ {0}) \X Ranks)]
    BY <1>2, <1>3, <1>5, <2>4 DEF list
  <2> QED
    BY <1>1, <2>3, <2>5 DEF TypeOK
<1>19. Between'
  <2>1. "count" \notin {"irecv", "sendp", "recvp"} /\ cycle' = cycle
        /\ ("count" \in {"share", "crecv", "csend"} <=> pc[r] \in {"share", "crecv", "csend"})
    BY <1>1
  <2> QED
    BY <1>1, <2>1, BetweenKept
<1>20. \A q \in Ranks : Arrays(q)' /\ Lists(q)' /\ (pc'[q] # "share" => eachrank'[q] = npart')
  <2>1. Arrays(r)'
    BY <1>1, <1>5, <1>7, <1>8 DEF Arrays
  <2>2. Lists(r)'
    BY <1>5, <1>17 DEF Lists, list
  <2>3. ASSUME NEW q \in Ranks, q # r PROVE Arrays(q)' /\ Lists(q)'
    BY <1>1, <1>4, <1>5, <2>3 DEF Arrays, Lists
  <2>4. ASSUME NEW q \in Ranks PROVE pc'[q] # "share" => eachrank'[q] = npart'
    BY <1>1, <1>4, <1>5
  <2> QED
    BY <2>1, <2>2, <2>3, <2>4
<1>21. Quiet'
  BY <1>1, <1>4 DEF Quiet
<1> QED
  BY <1>9, <1>18, <1>19, <1>20, <1>21 DEF BetweenInv

\* The list, in the order of the ranks, is what the counts are made from
LEMMA CountSendsStep ==
  ASSUME TypeOK, Between, BetweenInv, NEW r \in Ranks, CountSends(r)
  PROVE  TypeOK' /\ Between' /\ BetweenInv'
<1>1. PICK list \in SortedBy(sendlist[r], 2) :
        /\ sendlist' = [sendlist EXCEPT ![r] = list]
        /\ sends' = [sends EXCEPT ![r] = Runs(list)]
  BY DEF CountSends
<1>2. /\ pc[r] = "count" /\ pc' = [pc EXCEPT ![r] = "gather"]
      /\ UNCHANGED <<cycle, prtcl, npart, allsends, sbuf, rbuf, flight, sreq, rreq, eachrank>>
  BY DEF CountSends, Go
<1>3. /\ pc \in [Ranks -> Steps] /\ sends \in [Ranks -> [Ranks -> Nat]]
      /\ sendlist \in [Ranks -> Seq((Nat \ {0}) \X Ranks)]
  BY DEF TypeOK
<1>4. /\ Whole(prtcl) /\ Quiet
      /\ \A q \in Ranks : Arrays(q) /\ Lists(q) /\ (pc[q] # "share" => eachrank[q] = npart)
  BY DEF BetweenInv
<1>5. /\ \A q \in Ranks : q # r => pc'[q] = pc[q] /\ sendlist'[q] = sendlist[q] /\ sends'[q] = sends[q]
      /\ sendlist'[r] = list /\ sends'[r] = Runs(list) /\ pc'[r] = "gather"
  BY <1>1, <1>2, <1>3
<1>6. Listing(sendlist[r], prtcl[r], r)
  BY <1>2, <1>4 DEF Lists
<1>7. Listing(list, prtcl[r], r)
  BY <1>6, ListingSorted
<1>8. sendlist[r] \in Seq((Nat \ {0}) \X Ranks)
  BY <1>3
<1>9. /\ list \in Seq((Nat \ {0}) \X Ranks)
      /\ \A i, j \in DOMAIN list : i < j => list[i][2] <= list[j][2]
  BY <1>8, SortOrders
<1>10. ByRank(list)
  BY <1>9 DEF ByRank
<1>11. Runs(list) \in [Ranks -> Nat]
  BY <1>9, <1>10, RunsAre
<1>12. TypeOK'
  <2>1. /\ sendlist' \in [Ranks -> Seq((Nat \ {0}) \X Ranks)]
        /\ sends' \in [Ranks -> [Ranks -> Nat]] /\ pc' \in [Ranks -> Steps]
    BY <1>1, <1>2, <1>3, <1>9, <1>11 DEF Steps
  <2> QED
    BY <1>2, <2>1 DEF TypeOK
<1>13. Between'
  <2>1. "gather" \notin {"irecv", "sendp", "recvp"} /\ cycle' = cycle
        /\ ("gather" \in {"share", "crecv", "csend"} <=> pc[r] \in {"share", "crecv", "csend"})
    BY <1>2
  <2> QED
    BY <1>2, <2>1, BetweenKept
<1>14. \A q \in Ranks : Arrays(q)' /\ Lists(q)' /\ (pc'[q] # "share" => eachrank'[q] = npart')
  <2>1. Arrays(r)'
    BY <1>2, <1>4, <1>5 DEF Arrays
  <2>2. Lists(r)'
    BY <1>2, <1>5, <1>7, <1>10 DEF Lists
  <2>3. ASSUME NEW q \in Ranks, q # r PROVE Arrays(q)' /\ Lists(q)'
    BY <1>2, <1>4, <1>5, <2>3 DEF Arrays, Lists
  <2>4. ASSUME NEW q \in Ranks PROVE pc'[q] # "share" => eachrank'[q] = npart'
    BY <1>2, <1>4, <1>5
  <2> QED
    BY <2>1, <2>2, <2>3, <2>4
<1>15. Quiet'
  BY <1>2, <1>4 DEF Quiet
<1> QED
  BY <1>2, <1>4, <1>12, <1>13, <1>14, <1>15 DEF BetweenInv

\* the steps after an exchange: only pc, cycle or eachrank change
LEMMA AfterStep ==
  ASSUME TypeOK, Between, BetweenInv, NEW r \in Ranks,
         \/ /\ pc[r] = "share" /\ pc' = [pc EXCEPT ![r] = "crecv"]
            /\ eachrank' = [eachrank EXCEPT ![r] = npart] /\ cycle' = cycle
         \/ ClearPrtclRecv(r) \/ ClearPrtclSend(r),
         UNCHANGED <<prtcl, npart, sendlist, sends, allsends, sbuf, rbuf, flight, sreq, rreq>>
  PROVE  TypeOK' /\ Between' /\ BetweenInv'
<1>1. PICK to \in {"crecv", "csend", "push"} :
        /\ pc' = [pc EXCEPT ![r] = to] /\ pc[r] \in {"share", "crecv", "csend"}
        /\ \/ cycle' = cycle /\ to # "push"
           \/ cycle' = [cycle EXCEPT ![r] = @ + 1] /\ to = "push" /\ pc[r] = "csend"
        /\ \/ eachrank' = eachrank /\ pc[r] # "share"
           \/ eachrank' = [eachrank EXCEPT ![r] = npart]
  BY DEF ClearPrtclRecv, ClearPrtclSend, Go
<1>2. /\ pc \in [Ranks -> Steps] /\ cycle \in [Ranks -> Nat] /\ npart \in [Ranks -> Nat]
      /\ eachrank \in [Ranks -> [Ranks -> Nat]]
  BY DEF TypeOK
<1>3. /\ Whole(prtcl) /\ Quiet
      /\ \A q \in Ranks : Arrays(q) /\ Lists(q) /\ (pc[q] # "share" => eachrank[q] = npart)
  BY DEF BetweenInv
<1>4. /\ \A q \in Ranks : q # r => pc'[q] = pc[q] /\ eachrank'[q] = eachrank[q]
      /\ pc'[r] = to /\ eachrank'[r] = npart
  BY <1>1, <1>2, <1>3
<1>5. TypeOK'
  <2>1. pc' \in [Ranks -> Steps] /\ eachrank' \in [Ranks -> [Ranks -> Nat]]
    BY <1>1, <1>2 DEF Steps
  <2>2. cycle' \in [Ranks -> Nat]
    BY <1>1, <1>2
  <2> QED
    BY <2>1, <2>2 DEF TypeOK
<1>6. Between'
  BY <1>1, BetweenKept
<1>7. \A q \in Ranks : Arrays(q)' /\ Lists(q)' /\ (pc'[q] # "share" => eachrank'[q] = npart')
  <2>1. Arrays(r)'
    BY <1>1, <1>3, <1>4 DEF Arrays
  <2>2. Lists(r)'
    BY <1>1, <1>4 DEF Lists
  <2>3. ASSUME NEW q \in Ranks, q # r PROVE Arrays(q)' /\ Lists(q)'
    BY <1>3, <1>4, <2>3 DEF Arrays, Lists
  <2>4. ASSUME NEW q \in Ranks PROVE pc'[q] # "share" => eachrank'[q] = npart'
    BY <1>3, <1>4
  <2> QED
    BY <2>1, <2>2, <2>3, <2>4
<1>8. Quiet'
  BY <1>3 DEF Quiet
<1> QED
  BY <1>3, <1>5, <1>6, <1>7, <1>8 DEF BetweenInv

-----------------------------------------------------------------------------
(***************************************************************************)
(* The steps of an exchange                                                *)
(***************************************************************************)
\* What a step leaves alone of a rank
LEMMA RankUntouched ==
  ASSUME NEW old, NEW q \in Ranks, Counted(old, q), Announced(old, q), Received(old, q),
         pc'[q] = pc[q], sends' = sends, npart'[q] = npart[q], prtcl'[q] = prtcl[q],
         sendlist'[q] = sendlist[q], allsends'[q] = allsends[q], sbuf'[q] = sbuf[q],
         Len(rbuf'[q]) = Len(rbuf[q])
  PROVE  Counted(old, q)' /\ Announced(old, q)' /\ Received(old, q)'
<1>1. NRecv(q)' = NRecv(q) /\ NSend(q)' = NSend(q) /\ NewNpart(q)' = NewNpart(q)
  BY DEF NRecv, NSend, NewNpart, Receives
<1>2. Counted(old, q)'
  BY <1>1 DEF Counted
<1>3. Announced(old, q)'
  BY DEF Announced, Sent
<1>4. Received(old, q)'
  BY <1>1 DEF Received, Posted
<1> QED
  BY <1>2, <1>3, <1>4

\* and of the messages from s to d with tag t
LEMMA PairUntouched ==
  ASSUME NEW s \in Ranks, NEW d \in Ranks, NEW t \in Tags, Messages(s, d, t), Arrived(s, d, t),
         pc'[s] = pc[s], pc'[d] = pc[d], sends' = sends, flight'[s][d][t] = flight[s][d][t],
         <<s, t>> \in rreq'[d] <=> <<s, t>> \in rreq[d],
         rbuf'[d] = rbuf[d], sbuf'[s] = sbuf[s], allsends'[d] = allsends[d]
  PROVE  Messages(s, d, t)' /\ Arrived(s, d, t)'
<1>1. Receives(d)' = Receives(d)
  BY DEF Receives
<1>2. Messages(s, d, t)'
  BY DEF Messages, Sent, Posted
<1>3. Arrived(s, d, t)'
  BY <1>1 DEF Arrived, Sent, Posted
<1> QED
  BY <1>2, <1>3

\* A rank that goes on in an exchange stays in it
LEMMA ExchangingKept ==
  ASSUME TypeOK, Exchanging, NEW r \in Ranks, NEW to \in {"irecv", "sendp", "recvp", "share"},
         pc' = [pc EXCEPT ![r] = to], cycle' = cycle
  PROVE  Exchanging' /\ pc' \in [Ranks -> Steps]
  BY DEF TypeOK, Exchanging, Steps

\* The gather tells a rank what the others will send it
LEMMA GatherSendsStep ==
  ASSUME TypeOK, Exchanging, NEW old, ExchangeInv(old), NEW r \in Ranks, GatherSends(r)
  PROVE  TypeOK' /\ Exchanging' /\ ExchangeInv(old)'
<1>1. /\ pc[r] = "gather" /\ pc' = [pc EXCEPT ![r] = "irecv"]
      /\ allsends' = [allsends EXCEPT ![r] = sends]
      /\ UNCHANGED <<cycle, prtcl, npart, sendlist, sends, sbuf, rbuf, flight, sreq, rreq, eachrank>>
  BY DEF GatherSends, Go
<1>2. /\ pc \in [Ranks -> Steps] /\ sends \in [Ranks -> [Ranks -> Nat]]
      /\ allsends \in [Ranks -> [Ranks -> [Ranks -> Nat]]]
      /\ rreq \in [Ranks -> SUBSET (Ranks \X Tags)]
  BY DEF TypeOK
<1>3. /\ \A q \in Ranks : q # r => pc'[q] = pc[q] /\ allsends'[q] = allsends[q]
      /\ pc'[r] = "irecv" /\ allsends'[r] = sends
  BY <1>1, <1>2
<1>4. Exchanging' /\ pc' \in [Ranks -> Steps]
  BY <1>1, ExchangingKept
<1>5. TypeOK'
  BY <1>1, <1>2, <1>4 DEF TypeOK
<1>6. /\ \A q \in Ranks : Counted(old, q) /\ Announced(old, q) /\ Received(old, q)
      /\ \A s, d \in Ranks, t \in Tags : Messages(s, d, t) /\ Arrived(s, d, t)
  BY DEF ExchangeInv
<1>7. ASSUME NEW q \in Ranks
      PROVE  Counted(old, q)' /\ Announced(old, q)' /\ Received(old, q)'
  <2>1. CASE q # r
    BY <1>1, <1>3, <1>6, <2>1, RankUntouched
  <2>2. CASE q = r
    <3>1. Counted(old, r)'
      BY <1>1, <1>3, <1>6 DEF Counted
    <3>2. Announced(old, r)'
      BY <1>1, <1>3, <1>6 DEF Announced, Sent
    <3>3. Received(old, r)'
      BY <1>3 DEF Received, Posted
    <3> QED
      BY <2>2, <3>1, <3>2, <3>3
  <2> QED
    BY <2>1, <2>2
<1>8. ASSUME NEW s \in Ranks, NEW d \in Ranks, NEW t \in Tags
      PROVE  Messages(s, d, t)' /\ Arrived(s, d, t)'
  <2>1. Messages(s, d, t) /\ Arrived(s, d, t)
    BY <1>6
  <2>2. CASE d = r
    <3>1. <<s, t>> \notin rreq[r]
      BY <1>1, <2>1, <2>2 DEF Messages, Posted
    <3>2. Sent(s)' <=> Sent(s)
      BY <1>1, <1>3 DEF Sent
    <3>3. Messages(s, r, t)'
      BY <1>1, <1>3, <2>1, <2>2, <3>1, <3>2 DEF Messages
    <3>4. Arrived(s, r, t)'
      BY <1>3 DEF Arrived
    <3> QED
      BY <2>2, <3>3, <3>4
  <2>3. CASE d # r /\ s = r
    <3>1. ~Sent(r) /\ ~Sent(r)'
      BY <1>1, <1>3 DEF Sent
    <3>2. pc'[d] = pc[d] /\ rreq' = rreq /\ flight' = flight /\ sends' = sends
      BY <1>1, <1>3, <2>3
    <3>3. Messages(r, d, t)'
      BY <2>1, <2>3, <3>1, <3>2 DEF Messages, Posted
    <3>4. Arrived(r, d, t)'
      BY <2>1, <2>3, <3>1, <3>2 DEF Arrived
    <3> QED
      BY <2>3, <3>3, <3>4
  <2>4. CASE d # r /\ s # r
    BY <1>1, <1>3, <2>1, <2>4, PairUntouched
  <2> QED
    BY <2>2, <2>3, <2>4
<1> QED
  BY <1>4, <1>5, <1>7, <1>8 DEF ExchangeInv

\* A receive is posted for each message that will come, in a buffer of the right size
LEMMA InitPrtclRecvStep ==
  ASSUME TypeOK, Exchanging, NEW old, ExchangeInv(old), NEW r \in Ranks, InitPrtclRecv(r)
  PROVE  TypeOK' /\ Exchanging' /\ ExchangeInv(old)'
<1>1. /\ pc[r] = "irecv" /\ pc' = [pc EXCEPT ![r] = "sendp"]
      /\ rbuf' = [rbuf EXCEPT ![r] = [i \in 1..Starts(Receives(r))[NRanks] |-> Zero]]
      /\ rreq' = [rreq EXCEPT ![r] = {q \in Ranks \X Tags : Receives(r)[q[1]] > 0}]
      /\ UNCHANGED <<cycle, prtcl, npart, sendlist, sends, allsends, sbuf, flight, sreq, eachrank>>
  BY DEF InitPrtclRecv, Go
<1>2. /\ pc \in [Ranks -> Steps] /\ sends \in [Ranks -> [Ranks -> Nat]]
      /\ rbuf \in [Ranks -> Seq(Column)] /\ rreq \in [Ranks -> SUBSET (Ranks \X Tags)]
  BY DEF TypeOK
<1>3. /\ \A q \in Ranks : q # r => pc'[q] = pc[q] /\ rbuf'[q] = rbuf[q] /\ rreq'[q] = rreq[q]
      /\ pc'[r] = "sendp" /\ rbuf'[r] = [i \in 1..NRecv(r) |-> Zero]
      /\ rreq'[r] = {q \in Ranks \X Tags : Receives(r)[q[1]] > 0}
  BY <1>1, <1>2 DEF NRecv
<1>4. Exchanging' /\ pc' \in [Ranks -> Steps]
  BY <1>1, ExchangingKept
<1>5. /\ \A q \in Ranks : Counted(old, q) /\ Announced(old, q) /\ Received(old, q)
      /\ \A s, d \in Ranks, t \in Tags : Messages(s, d, t) /\ Arrived(s, d, t)
  BY DEF ExchangeInv
<1>6. /\ NRecv(r) \in Nat /\ \A s \in Ranks : Receives(r)[s] = sends[s][r]
      /\ NRecv(r)' = NRecv(r)
  BY <1>1, <1>5, Expects DEF NRecv, Receives
<1>7. rbuf'[r] \in Seq(Column) /\ Len(rbuf'[r]) = NRecv(r)
  <2>1. Zero \in Column
    BY DEF Zero, Column
  <2>2. rbuf'[r] \in [1..NRecv(r) -> Column]
    BY <1>3, <2>1
  <2> QED
    BY <1>6, <2>2, ListOf
<1>8. TypeOK'
  <2>1. rbuf' \in [Ranks -> Seq(Column)]
    BY <1>1, <1>2, <1>3, <1>7
  <2>2. rreq' \in [Ranks -> SUBSET (Ranks \X Tags)]
    BY <1>1, <1>2, <1>3
  <2> QED
    BY <1>1, <1>4, <2>1, <2>2 DEF TypeOK
<1>9. ASSUME NEW q \in Ranks
      PROVE  Counted(old, q)' /\ Announced(old, q)' /\ Received(old, q)'
  <2>1. CASE q # r
    BY <1>1, <1>3, <1>5, <2>1, RankUntouched
  <2>2. CASE q = r
    <3>1. Counted(old, r)'
      BY <1>1, <1>3, <1>5 DEF Counted
    <3>2. Announced(old, r)'
      BY <1>1, <1>3, <1>5 DEF Announced, Sent
    <3>3. Received(old, r)'
      BY <1>3, <1>6, <1>7 DEF Received, Posted
    <3> QED
      BY <2>2, <3>1, <3>2, <3>3
  <2> QED
    BY <2>1, <2>2
<1>10. ASSUME NEW s \in Ranks, NEW d \in Ranks, NEW t \in Tags
       PROVE  Messages(s, d, t)' /\ Arrived(s, d, t)'
  <2>1. Messages(s, d, t) /\ Arrived(s, d, t)
    BY <1>5
  <2>2. CASE d = r
    <3>1. <<s, t>> \in rreq'[r] <=> sends[s][r] > 0
      BY <1>3, <1>6
    <3>2. Sent(s)' <=> Sent(s)
      BY <1>1, <1>3 DEF Sent
    <3>3. Messages(s, r, t)'
      BY <1>1, <1>3, <2>1, <2>2, <3>1, <3>2 DEF Messages, Posted
    <3>4. Arrived(s, r, t)'
      BY <1>1, <3>1 DEF Arrived
    <3> QED
      BY <2>2, <3>3, <3>4
  <2>3. CASE d # r /\ s = r
    <3>1. ~Sent(r) /\ ~Sent(r)'
      BY <1>1, <1>3 DEF Sent
    <3>2. pc'[d] = pc[d] /\ rreq'[d] = rreq[d] /\ flight' = flight /\ sends' = sends
      BY <1>1, <1>3, <2>3
    <3>3. Messages(r, d, t)'
      BY <2>1, <2>3, <3>1, <3>2 DEF Messages, Posted
    <3>4. Arrived(r, d, t)'
      BY <2>1, <2>3, <3>1, <3>2 DEF Arrived
    <3> QED
      BY <2>3, <3>3, <3>4
  <2>4. CASE d # r /\ s # r
    BY <1>1, <1>3, <2>1, <2>4, PairUntouched
  <2> QED
    BY <2>2, <2>3, <2>4
<1> QED
  BY <1>4, <1>8, <1>9, <1>10 DEF ExchangeInv

\* A rank packs the columns its list names and sends each rank its part
LEMMA PackAndSendPrtclsStep ==
  ASSUME TypeOK, Exchanging, NEW old, ExchangeInv(old), NEW r \in Ranks, PackAndSendPrtcls(r)
  PROVE  TypeOK' /\ Exchanging' /\ ExchangeInv(old)'
<1>1. /\ pc[r] = "sendp" /\ pc' = [pc EXCEPT ![r] = "recvp"]
      /\ sbuf' = [sbuf EXCEPT ![r] = [i \in DOMAIN sendlist[r] |-> prtcl[r][sendlist[r][i][1]]]]
      /\ flight' = [flight EXCEPT ![r] =
           [d \in Ranks |-> [t \in Tags |->
              IF sends[r][d] > 0 THEN Append(flight[r][d][t], <<Starts(sends[r])[d], sends[r][d]>>)
                                 ELSE flight[r][d][t]]]]
      /\ sreq' = [sreq EXCEPT ![r] = {q \in Ranks \X Tags : sends[r][q[1]] > 0}]
      /\ UNCHANGED <<cycle, prtcl, npart, sendlist, sends, allsends, rbuf, rreq, eachrank>>
  BY DEF PackAndSendPrtcls, Go, TypeOK
<1>2. /\ pc \in [Ranks -> Steps] /\ sends \in [Ranks -> [Ranks -> Nat]]
      /\ sbuf \in [Ranks -> Seq(Column)] /\ prtcl \in [Ranks -> Seq(Column)]
      /\ flight \in [Ranks -> [Ranks -> [Tags -> Seq(Nat \X Nat)]]]
      /\ sreq \in [Ranks -> SUBSET (Ranks \X Tags)] /\ rreq \in [Ranks -> SUBSET (Ranks \X Tags)]
  BY DEF TypeOK
<1>3. /\ \A q \in Ranks : q # r => pc'[q] = pc[q] /\ sbuf'[q] = sbuf[q] /\ flight'[q] = flight[q]
      /\ pc'[r] = "recvp"
      /\ sbuf'[r] = [i \in DOMAIN sendlist[r] |-> prtcl[r][sendlist[r][i][1]]]
  BY <1>1, <1>2
<1>4. \A d \in Ranks, t \in Tags : flight'[r][d][t] =
        IF sends[r][d] > 0 THEN Append(flight[r][d][t], <<Starts(sends[r])[d], sends[r][d]>>)
                           ELSE flight[r][d][t]
  BY <1>1, <1>2
<1>5. Exchanging' /\ pc' \in [Ranks -> Steps]
  BY <1>1, ExchangingKept
<1>6. /\ \A q \in Ranks : Counted(old, q) /\ Announced(old, q) /\ Received(old, q)
      /\ \A s, d \in Ranks, t \in Tags : Messages(s, d, t) /\ Arrived(s, d, t)
      /\ old \in [Ranks -> Seq(Particle)] /\ Whole(old)
  BY DEF ExchangeInv
<1>7. /\ npart[r] = Len(old[r]) /\ Listing(sendlist[r], old[r], r) /\ prtcl[r] = old[r]
      /\ ByRank(sendlist[r]) /\ sends[r] = Runs(sendlist[r])
  BY <1>1, <1>6 DEF Counted
<1>8. \A d \in Ranks \ {r} : Enumerates(sbuf'[r], Part(sends[r], d), Out(old, r, d))
  <2>1. sbuf'[r] = [i \in DOMAIN sendlist[r] |-> old[r][sendlist[r][i][1]]]
    BY <1>3, <1>7
  <2>2. \A d \in Ranks \ {r} :
          Enumerates([i \in DOMAIN sendlist[r] |-> old[r][sendlist[r][i][1]]],
                     Part(Runs(sendlist[r]), d), Out(old, r, d))
    BY <1>6, <1>7, PackedIs
  <2> QED
    BY <1>7, <2>1, <2>2
<1>9. \A d \in Ranks : Starts(sends[r])[d] \in Nat /\ sends[r][d] \in Nat
  BY <1>2, PartsCover
<1>10. \A d \in Ranks, t \in Tags : flight[r][d][t] = <<>>
  <2>1. ~Sent(r)
    BY <1>1 DEF Sent
  <2> QED
    BY <1>6, <2>1 DEF Messages
<1>11. \A d \in Ranks, t \in Tags :
         flight'[r][d][t] = IF sends[r][d] > 0 THEN << <<Starts(sends[r])[d], sends[r][d]>> >> ELSE <<>>
  <2>1. \A e : Append(<<>>, e) = <<e>>
    OBVIOUS
  <2>2. ASSUME NEW d \in Ranks, NEW t \in Tags, NEW e, e = <<Starts(sends[r])[d], sends[r][d]>>
        PROVE  flight'[r][d][t] = IF sends[r][d] > 0 THEN <<e>> ELSE <<>>
    <3>1. flight'[r][d][t] = IF sends[r][d] > 0 THEN Append(<<>>, e) ELSE <<>>
      BY <1>4, <1>10, <2>2
    <3> QED
      BY <2>1, <3>1
  <2> QED
    BY <2>2
<1>12. TypeOK'
  <2>1. sbuf'[r] \in Seq(Column)
    <3>1. sendlist[r] \in Seq((1..Len(old[r])) \X Ranks)
      BY <1>7 DEF Listing
    <3>2. \A i \in DOMAIN sendlist[r] : sendlist[r][i][1] \in 1..Len(old[r])
      BY <3>1, ElementOf
    <3>3. Len(old[r]) \in Nat /\ DOMAIN old[r] = 1..Len(old[r]) /\ old[r] \in Seq(Column)
      BY <1>2, <1>7
    <3>4. \A i \in DOMAIN sendlist[r] : old[r][sendlist[r][i][1]] \in Column
      BY <3>2, <3>3, ElementOf
    <3>5. Len(sendlist[r]) \in Nat /\ DOMAIN sendlist[r] = 1..Len(sendlist[r])
      BY <3>1
    <3>6. sbuf'[r] \in [1..Len(sendlist[r]) -> Column]
      BY <1>3, <1>7, <3>4, <3>5
    <3> QED
      BY <3>5, <3>6, ListOf
  <2>2. sbuf' \in [Ranks -> Seq(Column)]
    BY <1>1, <1>2, <1>3, <2>1
  <2>3. flight' \in [Ranks -> [Ranks -> [Tags -> Seq(Nat \X Nat)]]]
    <3>1. ASSUME NEW d \in Ranks, NEW t \in Tags PROVE flight'[r][d][t] \in Seq(Nat \X Nat)
      <4>1. <<Starts(sends[r])[d], sends[r][d]>> \in Nat \X Nat
        BY <1>9
      <4>2. \A e \in Nat \X Nat : <<e>> \in Seq(Nat \X Nat)
        OBVIOUS
      <4>3. << <<Starts(sends[r])[d], sends[r][d]>> >> \in Seq(Nat \X Nat)
        BY <4>1, <4>2
      <4>4. <<>> \in Seq(Nat \X Nat)
        OBVIOUS
      <4> QED
        BY <1>11, <4>3, <4>4
    <3>2. flight'[r] \in [Ranks -> [Tags -> Seq(Nat \X Nat)]]
      <4>1. flight'[r] = [d \in Ranks |-> [t \in Tags |-> flight'[r][d][t]]]
        BY <1>1, <1>2
      <4> QED
        BY <3>1, <4>1
    <3>3. flight' = [flight EXCEPT ![r] = flight'[r]]
      BY <1>1, <1>2
    <3> QED
      BY <1>2, <3>2, <3>3
  <2>4. sreq' \in [Ranks -> SUBSET (Ranks \X Tags)]
    BY <1>1, <1>2
  <2> QED
    BY <1>1, <1>5, <2>2, <2>3, <2>4 DEF TypeOK
<1>13. ASSUME NEW q \in Ranks
       PROVE  Counted(old, q)' /\ Announced(old, q)' /\ Received(old, q)'
  <2>1. CASE q # r
    BY <1>1, <1>3, <1>6, <2>1, RankUntouched
  <2>2. CASE q = r
    <3>1. Counted(old, r)'
      <4>1. \A p \in 1..npart[r] : prtcl'[r][p] = old[r][p]
        BY <1>1, <1>7
      <4>2. Len(prtcl'[r]) = npart'[r] /\ npart' = npart /\ sendlist' = sendlist
        BY <1>1, <1>7
      <4> QED
        BY <1>3, <1>7, <4>1, <4>2 DEF Counted
    <3>2. Announced(old, r)'
      BY <1>1, <1>3, <1>6, <1>8 DEF Announced
    <3>3. Received(old, r)'
      <4>1. Len(rbuf[r]) = NRecv(r) /\ NRecv(r)' = NRecv(r)
        BY <1>1, <1>6 DEF Received, Posted, NRecv, Receives
      <4> QED
        BY <1>1, <1>3, <4>1 DEF Received
    <3> QED
      BY <2>2, <3>1, <3>2, <3>3
  <2> QED
    BY <2>1, <2>2
<1>14. ASSUME NEW s \in Ranks, NEW d \in Ranks, NEW t \in Tags
       PROVE  Messages(s, d, t)' /\ Arrived(s, d, t)'
  <2>1. Messages(s, d, t) /\ Arrived(s, d, t) /\ sends[r][r] = 0
    BY <1>6 DEF Announced
  <2>2. Posted(d) => Posted(d)'
    BY <1>1, <1>3 DEF Posted
  <2>3. CASE s = r
    <3>1. ~Sent(r) /\ Sent(r)'
      BY <1>1, <1>3 DEF Sent
    <3>2. CASE sends[r][d] > 0
      <4>1. d # r
        BY <2>1, <3>2
      <4>2. pc[d] \in {"sendp", "recvp", "share"} => <<r, t>> \in rreq[d]
        BY <2>1, <2>3, <3>1, <3>2 DEF Arrived
      <4>3. pc'[d] = pc[d] /\ rreq' = rreq /\ sends' = sends
        BY <1>1, <1>3, <4>1
      <4>4. pc[d] \in {"gather", "irecv"} \/ <<r, t>> \in rreq[d]
        BY <4>2 DEF Exchanging
      <4>5. Messages(r, d, t)'
        BY <1>11, <2>1, <2>2, <2>3, <3>1, <3>2, <4>3, <4>4 DEF Messages
      <4>6. Arrived(r, d, t)'
        BY <4>2, <4>3 DEF Arrived
      <4> QED
        BY <2>3, <4>5, <4>6
    <3>3. CASE ~(sends[r][d] > 0)
      <4>1. flight'[r][d][t] = <<>> /\ ~(sends'[r][d] > 0) /\ rreq' = rreq
        BY <1>1, <1>11, <3>3
      <4>2. Messages(r, d, t)'
        BY <2>1, <2>3, <3>3, <4>1 DEF Messages
      <4>3. Arrived(r, d, t)'
        BY <4>1 DEF Arrived
      <4> QED
        BY <2>3, <4>2, <4>3
    <3> QED
      BY <3>2, <3>3
  <2>4. CASE s # r /\ d = r
    <3>1. /\ pc'[s] = pc[s] /\ flight'[s] = flight[s] /\ sbuf'[s] = sbuf[s] /\ rreq' = rreq
          /\ sends' = sends /\ rbuf' = rbuf /\ Receives(r)' = Receives(r)
      BY <1>1, <1>3, <2>4 DEF Receives
    <3>2. Messages(s, r, t)'
      BY <1>1, <1>3, <2>1, <2>2, <2>4, <3>1 DEF Messages, Sent
    <3>3. Arrived(s, r, t)'
      <4>1. /\ pc'[r] \in {"sendp", "recvp", "share"} /\ pc[r] \in {"sendp", "recvp", "share"}
            /\ Posted(r) /\ (Sent(s)' <=> Sent(s))
        BY <1>1, <1>3, <3>1 DEF Posted, Sent
      <4> QED
        BY <2>1, <2>4, <3>1, <4>1 DEF Arrived
    <3> QED
      BY <2>4, <3>2, <3>3
  <2>5. CASE s # r /\ d # r
    BY <1>1, <1>3, <2>1, <2>5, PairUntouched
  <2> QED
    BY <2>3, <2>4, <2>5
<1> QED
  BY <1>5, <1>6, <1>12, <1>13, <1>14 DEF ExchangeInv

\* A call that finds a message missing sorts the list and makes room, and that is all
LEMMA RecvIncompleteStep ==
  ASSUME TypeOK, Exchanging, NEW old, ExchangeInv(old), NEW r \in Ranks, RecvIncomplete(r)
  PROVE  TypeOK' /\ Exchanging' /\ ExchangeInv(old)'
<1>1. PICK hole \in SortedBy(sendlist[r], 1) : sendlist' = [sendlist EXCEPT ![r] = hole]
  BY DEF RecvIncomplete
<1>2. /\ pc[r] = "recvp" /\ prtcl' = [prtcl EXCEPT ![r] = Grown(r)]
      /\ UNCHANGED <<cycle, pc, npart, sends, allsends, sbuf, rbuf, flight, sreq, rreq, eachrank>>
  BY DEF RecvIncomplete
<1>3. /\ prtcl \in [Ranks -> Seq(Column)] /\ npart \in [Ranks -> Nat]
      /\ sendlist \in [Ranks -> Seq((Nat \ {0}) \X Ranks)]
  BY DEF TypeOK
<1>4. /\ \A q \in Ranks : q # r => prtcl'[q] = prtcl[q] /\ sendlist'[q] = sendlist[q]
      /\ prtcl'[r] = Grown(r) /\ sendlist'[r] = hole
  BY <1>1, <1>2, <1>3
<1>5. /\ \A q \in Ranks : Counted(old, q) /\ Announced(old, q) /\ Received(old, q)
      /\ \A s, d \in Ranks, t \in Tags : Messages(s, d, t) /\ Arrived(s, d, t)
  BY DEF ExchangeInv
<1>6. /\ npart[r] = Len(old[r]) /\ Listing(sendlist[r], old[r], r)
      /\ Len(prtcl[r]) \in {npart[r]} \cup (IF NRecv(r) > NSend(r) THEN {NewNpart(r)} ELSE {})
      /\ \A p \in 1..npart[r] : prtcl[r][p] = old[r][p]
  BY <1>2, <1>5 DEF Counted
<1>7. Listing(hole, old[r], r) /\ Len(hole) = NSend(r)
  BY <1>6, ListingSorted DEF NSend
<1>8. hole \in Seq((Nat \ {0}) \X Ranks)
  <2>1. sendlist[r] \in Seq((Nat \ {0}) \X Ranks)
    BY <1>3
  <2> QED
    BY <2>1, SortOrders
<1>9. NRecv(r) \in Nat /\ NSend(r) \in Nat /\ npart[r] \in Nat
  <2>1. NRecv(r) \in Nat
    BY <1>2, <1>5, Expects
  <2>2. Len(hole) \in Nat
    BY <1>8
  <2> QED
    BY <1>3, <1>7, <2>1, <2>2
<1>10. NRecv(r)' = NRecv(r) /\ NSend(r)' = NSend(r) /\ NewNpart(r)' = NewNpart(r)
  <2>1. NRecv(r)' = NRecv(r)
    BY <1>2 DEF NRecv, Receives
  <2>2. NSend(r)' = NSend(r)
    BY <1>4, <1>7 DEF NSend
  <2> QED
    BY <1>2, <2>1, <2>2 DEF NewNpart
<1>11. 1..npart[r] \subseteq DOMAIN prtcl[r] /\ DOMAIN prtcl[r] = 1..Len(prtcl[r])
  <2>1. DOMAIN prtcl[r] = 1..Len(prtcl[r])
    BY <1>3
  <2>2. Len(prtcl[r]) >= npart[r]
    BY <1>6, <1>9 DEF NewNpart
  <2>3. Len(prtcl[r]) \in Nat
    BY <1>3
  <2> QED
    BY <1>9, <2>1, <2>2, <2>3
<1>12. /\ Grown(r) \in Seq(Column)
       /\ Len(Grown(r)) \in {npart[r]} \cup (IF NRecv(r) > NSend(r) THEN {NewNpart(r)} ELSE {})
       /\ \A p \in 1..npart[r] : Grown(r)[p] = old[r][p]
  <2>1. CASE NRecv(r) > NSend(r)
    <3>1. NewNpart(r) \in Nat /\ npart[r] <= NewNpart(r)
      BY <1>9, <2>1 DEF NewNpart
    <3>2. Grown(r) = [p \in 1..NewNpart(r) |-> IF p \in DOMAIN prtcl[r] THEN prtcl[r][p] ELSE Zero]
      BY <2>1 DEF Grown
    <3>3. Zero \in Column
      BY DEF Zero, Column
    <3>4. \A p \in DOMAIN prtcl[r] : prtcl[r][p] \in Column
      BY <1>3, ElementOf
    <3>5. Grown(r) \in [1..NewNpart(r) -> Column]
      BY <3>2, <3>3, <3>4
    <3>6. Grown(r) \in Seq(Column) /\ Len(Grown(r)) = NewNpart(r)
      BY <3>1, <3>5, ListOf
    <3>7. ASSUME NEW p \in 1..npart[r] PROVE Grown(r)[p] = old[r][p]
      <4>1. p \in 1..NewNpart(r)
        BY <1>9, <3>1
      <4>2. Grown(r)[p] = prtcl[r][p]
        BY <1>11, <3>2, <4>1
      <4> QED
        BY <1>6, <4>2
    <3> QED
      BY <2>1, <3>6, <3>7
  <2>2. CASE ~(NRecv(r) > NSend(r))
    BY <1>3, <1>6, <2>2 DEF Grown
  <2> QED
    BY <2>1, <2>2
<1>13. TypeOK'
  <2>1. prtcl' \in [Ranks -> Seq(Column)] /\ sendlist' \in [Ranks -> Seq((Nat \ {0}) \X Ranks)]
    BY <1>1, <1>2, <1>3, <1>8, <1>12
  <2> QED
    BY <1>2, <2>1 DEF TypeOK
<1>14. Exchanging'
  BY <1>2 DEF Exchanging
<1>15. ASSUME NEW q \in Ranks
       PROVE  Counted(old, q)' /\ Announced(old, q)' /\ Received(old, q)'
  <2>1. CASE q # r
    BY <1>2, <1>4, <1>5, <2>1, RankUntouched
  <2>2. CASE q = r
    <3>1. Counted(old, r)'
      BY <1>2, <1>4, <1>6, <1>7, <1>10, <1>12 DEF Counted
    <3>2. Announced(old, r)'
      BY <1>2, <1>5 DEF Announced, Sent
    <3>3. Received(old, r)'
      BY <1>2, <1>5, <1>10 DEF Received, Posted
    <3> QED
      BY <2>2, <3>1, <3>2, <3>3
  <2> QED
    BY <2>1, <2>2
<1>16. ASSUME NEW s \in Ranks, NEW d \in Ranks, NEW t \in Tags
       PROVE  Messages(s, d, t)' /\ Arrived(s, d, t)'
  BY <1>2, <1>5, PairUntouched
<1> QED
  BY <1>5, <1>13, <1>14, <1>15, <1>16 DEF ExchangeInv

\* A call that finds all of them ends with the rank's own particles, and no others
LEMMA RecvAndUnpackPrtclsStep ==
  ASSUME TypeOK, Exchanging, NEW old, ExchangeInv(old), NEW r \in Ranks, RecvAndUnpackPrtcls(r)
  PROVE  TypeOK' /\ Exchanging' /\ ExchangeInv(old)'
<1>1. PICK hole \in SortedBy(sendlist[r], 1) :
        /\ sendlist' = [sendlist EXCEPT ![r] = hole]
        /\ prtcl' = [prtcl EXCEPT ![r] = [p \in 1..NewNpart(r) |-> Filled(r, hole)[p]]]
  BY DEF RecvAndUnpackPrtcls
<1>2. /\ pc[r] = "recvp" /\ rreq[r] = {} /\ npart' = [npart EXCEPT ![r] = NewNpart(r)]
      /\ pc' = [pc EXCEPT ![r] = "share"]
      /\ UNCHANGED <<cycle, sends, allsends, sbuf, rbuf, flight, sreq, rreq, eachrank>>
  BY DEF RecvAndUnpackPrtcls, Go
<1>3. /\ pc \in [Ranks -> Steps] /\ prtcl \in [Ranks -> Seq(Column)] /\ npart \in [Ranks -> Nat]
      /\ sendlist \in [Ranks -> Seq((Nat \ {0}) \X Ranks)]
  BY DEF TypeOK
<1>4. /\ \A q \in Ranks : q # r => /\ prtcl'[q] = prtcl[q] /\ sendlist'[q] = sendlist[q]
                                   /\ npart'[q] = npart[q] /\ pc'[q] = pc[q]
      /\ prtcl'[r] = [p \in 1..NewNpart(r) |-> Filled(r, hole)[p]] /\ sendlist'[r] = hole
      /\ npart'[r] = NewNpart(r) /\ pc'[r] = "share"
  BY <1>1, <1>2, <1>3
<1>5. /\ \A q \in Ranks : Counted(old, q) /\ Announced(old, q) /\ Received(old, q)
      /\ \A s, d \in Ranks, t \in Tags : Messages(s, d, t) /\ Arrived(s, d, t)
      /\ Whole(old)
  BY DEF ExchangeInv
<1>6. NewNpart(r) \in Nat /\ Enumerates(Filled(r, hole), 1..NewNpart(r), Mine(old, r))
  BY <1>2, Unpacked
<1>7. Enumerates(prtcl'[r], 1..NewNpart(r), Mine(old, r))
  BY <1>4, <1>6 DEF Enumerates
<1>8. prtcl'[r] \in Seq(Column) /\ Len(prtcl'[r]) = NewNpart(r)
  <2>1. ASSUME NEW x \in Mine(old, r) PROVE x \in Column
    <3>1. PICK s \in Ranks : x \in Out(old, s, r)
      BY DEF Mine
    <3>2. x \in Particle
      BY <1>5, <3>1, OutIs
    <3> QED
      BY <3>2 DEF Particle, Column
  <2>2. \A p \in 1..NewNpart(r) : Filled(r, hole)[p] \in Column
    BY <1>6, <2>1 DEF Enumerates
  <2>3. prtcl'[r] \in [1..NewNpart(r) -> Column]
    BY <1>4, <2>2
  <2> QED
    BY <1>6, <2>3, ListOf
<1>9. hole \in Seq((Nat \ {0}) \X Ranks)
  <2>1. sendlist[r] \in Seq((Nat \ {0}) \X Ranks)
    BY <1>3
  <2> QED
    BY <2>1, SortOrders
<1>10. Exchanging' /\ pc' \in [Ranks -> Steps]
  BY <1>2, ExchangingKept
<1>11. TypeOK'
  <2>1. prtcl' \in [Ranks -> Seq(Column)] /\ sendlist' \in [Ranks -> Seq((Nat \ {0}) \X Ranks)]
    BY <1>1, <1>3, <1>8, <1>9
  <2>2. npart' \in [Ranks -> Nat]
    BY <1>2, <1>3, <1>6
  <2> QED
    BY <1>2, <1>10, <2>1, <2>2 DEF TypeOK
<1>12. ASSUME NEW q \in Ranks
       PROVE  Counted(old, q)' /\ Announced(old, q)' /\ Received(old, q)'
  <2>1. CASE q # r
    BY <1>2, <1>4, <1>5, <2>1, RankUntouched
  <2>2. CASE q = r
    <3>1. Counted(old, r)'
      BY <1>4 DEF Counted
    <3>2. Announced(old, r)'
      BY <1>2, <1>4, <1>5 DEF Announced, Sent
    <3>3. Received(old, r)'
      BY <1>4, <1>7, <1>8 DEF Received, Posted
    <3> QED
      BY <2>2, <3>1, <3>2, <3>3
  <2> QED
    BY <2>1, <2>2
<1>13. ASSUME NEW s \in Ranks, NEW d \in Ranks, NEW t \in Tags
       PROVE  Messages(s, d, t)' /\ Arrived(s, d, t)'
  <2>1. Messages(s, d, t) /\ Arrived(s, d, t)
    BY <1>5
  <2>2. Sent(s)' <=> Sent(s)
    BY <1>2, <1>4 DEF Sent
  <2>3. CASE d = r
    <3>1. <<s, t>> \notin rreq[r] /\ ~Posted(r)' /\ pc'[r] = "share"
      BY <1>2, <1>4 DEF Posted
    <3>2. Messages(s, r, t)'
      BY <1>2, <2>1, <2>2, <2>3, <3>1 DEF Messages
    <3>3. Arrived(s, r, t)'
      BY <1>2, <2>1, <2>2, <2>3, <3>1 DEF Arrived
    <3> QED
      BY <2>3, <3>2, <3>3
  <2>4. CASE d # r
    <3>1. /\ pc'[d] = pc[d] /\ (Posted(d)' <=> Posted(d)) /\ rreq' = rreq /\ rbuf' = rbuf
          /\ sbuf' = sbuf /\ sends' = sends /\ flight' = flight /\ Receives(d)' = Receives(d)
      BY <1>2, <1>4, <2>4 DEF Posted, Receives
    <3>2. Messages(s, d, t)'
      BY <2>1, <2>2, <3>1 DEF Messages
    <3>3. Arrived(s, d, t)'
      BY <2>1, <2>2, <3>1 DEF Arrived
    <3> QED
      BY <3>2, <3>3
  <2> QED
    BY <2>3, <2>4
<1> QED
  BY <1>5, <1>10, <1>11, <1>12, <1>13 DEF ExchangeInv

\* What the delivery of a message writes: the fields of its tag, in the part of the
\* buffer kept for the sender
Landed(s, d, t) ==
  /\ Sent(s) /\ Posted(d) /\ s # d /\ sends[s][d] > 0 /\ <<s, t>> \in rreq[d]
  /\ flight[s][d][t] = << <<Starts(sends[s])[d], sends[s][d]>> >>
  /\ DOMAIN rbuf[d] = 1..NRecv(d) /\ DOMAIN rbuf'[d] = 1..NRecv(d)
  /\ rbuf'[d] = [i \in 1..NRecv(d) |-> rbuf'[d][i]]
  /\ \A i \in 1..NRecv(d) : i \notin Part(Receives(d), s) => rbuf'[d][i] = rbuf[d][i]
  /\ \A i \in Part(Receives(d), s) :
       LET y == sbuf[s][Starts(sends[s])[d] + (i - Starts(Receives(d))[s])]
       IN  /\ y \in Particle
           /\ rbuf'[d][i] = IF t = 0 THEN [rbuf[d][i] EXCEPT !.vel = y.vel, !.at = y.at]
                                     ELSE [rbuf[d][i] EXCEPT !.id = y.id, !.gid = y.gid]

\* A delivery finds its receive posted and the one message there is, from a rank that has
\* sent, and writes just that
LEMMA Landing ==
  ASSUME TypeOK, NEW old, ExchangeInv(old),
         NEW s \in Ranks, NEW d \in Ranks, NEW t \in Tags, Deliver(s, d, t)
  PROVE  Landed(s, d, t)
<1> DEFINE from == Starts(sends[s])[d]
           to == Starts(Receives(d))[s]
           n == sends[s][d]
           part(x, y) == IF t = 0 THEN [x EXCEPT !.vel = y.vel, !.at = y.at]
                                  ELSE [x EXCEPT !.id = y.id, !.gid = y.gid]
<1>1. /\ <<s, t>> \in rreq[d] /\ flight[s][d][t] # <<>>
      /\ rbuf' = [rbuf EXCEPT ![d] =
           [i \in DOMAIN rbuf[d] |->
              IF i - to \in 1..Head(flight[s][d][t])[2]
              THEN part(rbuf[d][i], sbuf[s][Head(flight[s][d][t])[1] + i - to])
              ELSE rbuf[d][i]]]
  BY DEF Deliver, TypeOK
<1>2. /\ \A q \in Ranks : Announced(old, q) /\ Received(old, q)
      /\ \A a, b \in Ranks, u \in Tags : Messages(a, b, u)
      /\ Whole(old)
  BY DEF ExchangeInv
<1>3. Posted(d) /\ n > 0 /\ Sent(s) /\ flight[s][d][t] = << <<from, n>> >>
  BY <1>1, <1>2 DEF Messages
<1>4. s # d
  BY <1>2, <1>3 DEF Announced
<1>5. pc[d] \in {"irecv", "sendp", "recvp", "share"}
  BY <1>3 DEF Posted
<1>6. /\ Receives(d) \in [Ranks -> Nat] /\ Receives(d)[s] = n /\ NRecv(d) \in Nat
  BY <1>2, <1>5, Expects
<1>7. /\ Part(Receives(d), s) \subseteq 1..NRecv(d) /\ to \in Nat /\ n \in Nat
  BY <1>6, PartsCover DEF NRecv
<1>8. sends[s] \in [Ranks -> Nat]
  BY DEF TypeOK
<1>9. from \in Nat
  BY <1>8, PartsCover
<1>10. rbuf \in [Ranks -> Seq(Column)]
  BY DEF TypeOK
<1>11. Len(rbuf[d]) = NRecv(d) /\ DOMAIN rbuf[d] = 1..NRecv(d)
  <2>1. Len(rbuf[d]) = NRecv(d)
    BY <1>2, <1>3 DEF Received
  <2> QED
    BY <1>10, <2>1
<1>12. Head(flight[s][d][t])[1] = from /\ Head(flight[s][d][t])[2] = n
  <2>1. \A e : Head(<<e>>) = e
    OBVIOUS
  <2>2. Head(flight[s][d][t]) = <<from, n>>
    BY <1>3, <2>1
  <2> QED
    BY <2>2
<1>13. rbuf'[d] = [i \in 1..NRecv(d) |-> IF i - to \in 1..n
                                         THEN part(rbuf[d][i], sbuf[s][from + i - to]) ELSE rbuf[d][i]]
  <2> HIDE DEF part, from, to, n
  <2> QED
    BY <1>1, <1>10, <1>11, <1>12
<1>14. \A i \in Part(Receives(d), s) : i \in Int /\ i - to \in 1..n /\ from + i - to = from + (i - to)
  <2>1. Part(Receives(d), s) = (to + 1)..(to + n)
    BY <1>6 DEF Part
  <2> HIDE DEF from, to, n
  <2> QED
    BY <1>7, <1>9, <2>1
<1>15. \A i \in 1..NRecv(d) : i - to \in 1..n => i \in Part(Receives(d), s)
  <2>1. Part(Receives(d), s) = (to + 1)..(to + n)
    BY <1>6 DEF Part
  <2> HIDE DEF from, to, n
  <2> QED
    BY <1>6, <1>7, <2>1
<1>16. ASSUME NEW i \in Part(Receives(d), s)
       PROVE  /\ sbuf[s][from + (i - to)] \in Particle
              /\ rbuf'[d][i] = part(rbuf[d][i], sbuf[s][from + (i - to)])
  <2>1. i \in 1..NRecv(d) /\ i - to \in 1..n /\ from + i - to = from + (i - to)
    BY <1>7, <1>14
  <2>2. from + (i - to) \in (from + 1)..(from + n)
    <3> HIDE DEF from, to, n
    <3> QED
      BY <1>7, <1>9, <2>1
  <2>3. Part(sends[s], d) = (from + 1)..(from + n)
    BY DEF Part
  <2>4. Enumerates(sbuf[s], Part(sends[s], d), Out(old, s, d))
    BY <1>2, <1>3, <1>4 DEF Announced
  <2>5. sbuf[s][from + (i - to)] \in Out(old, s, d)
    BY <2>2, <2>3, <2>4 DEF Enumerates
  <2>6. sbuf[s][from + (i - to)] \in Particle
    BY <1>2, <2>5, OutIs
  <2>7. rbuf'[d][i] = part(rbuf[d][i], sbuf[s][from + (i - to)])
    <3> HIDE DEF part, from, to, n
    <3> QED
      BY <1>13, <2>1
  <2> QED
    BY <2>6, <2>7
<1>17. \A i \in 1..NRecv(d) : i \notin Part(Receives(d), s) => rbuf'[d][i] = rbuf[d][i]
  <2> HIDE DEF part, from, to, n
  <2> QED
    BY <1>13, <1>15
<1>18. DOMAIN rbuf'[d] = 1..NRecv(d) /\ rbuf'[d] = [i \in 1..NRecv(d) |-> rbuf'[d][i]]
  <2> HIDE DEF part, from, to, n
  <2> QED
    BY <1>13
<1> QED
  <2>1. sends[s][d] > 0
    BY <1>3
  <2> QED
    BY <1>1, <1>3, <1>4, <1>11, <1>16, <1>17, <1>18, <2>1 DEF Landed

\* A message that lands where it belongs, from a buffer that is as it was when sent
LEMMA DeliverStep ==
  ASSUME TypeOK, Exchanging, NEW old, ExchangeInv(old),
         NEW s \in Ranks, NEW d \in Ranks, NEW t \in Tags, Deliver(s, d, t)
  PROVE  TypeOK' /\ Exchanging' /\ ExchangeInv(old)'
<1> DEFINE from == Starts(sends[s])[d]
           to == Starts(Receives(d))[s]
           n == sends[s][d]
<1>1. /\ flight' = [flight EXCEPT ![s][d][t] = Tail(flight[s][d][t])]
      /\ rreq' = [rreq EXCEPT ![d] = rreq[d] \ {<<s, t>>}]
      /\ sreq' = [sreq EXCEPT ![s] = sreq[s] \ {<<d, t>>}]
      /\ rbuf' = [rbuf EXCEPT ![d] = rbuf'[d]]
      /\ UNCHANGED <<cycle, pc, prtcl, npart, sendlist, sends, allsends, sbuf, eachrank>>
  BY DEF Deliver, TypeOK
<1>2. /\ rbuf \in [Ranks -> Seq(Column)] /\ rreq \in [Ranks -> SUBSET (Ranks \X Tags)]
      /\ sreq \in [Ranks -> SUBSET (Ranks \X Tags)]
      /\ flight \in [Ranks -> [Ranks -> [Tags -> Seq(Nat \X Nat)]]]
  BY DEF TypeOK
<1>3. /\ Sent(s) /\ Posted(d) /\ s # d /\ n > 0 /\ <<s, t>> \in rreq[d]
      /\ flight[s][d][t] = << <<from, n>> >>
      /\ DOMAIN rbuf[d] = 1..NRecv(d) /\ DOMAIN rbuf'[d] = 1..NRecv(d)
      /\ rbuf'[d] = [i \in 1..NRecv(d) |-> rbuf'[d][i]]
  <2>1. Landed(s, d, t)
    BY Landing
  <2> QED
    BY <2>1 DEF Landed
<1>4. \A i \in 1..NRecv(d) : i \notin Part(Receives(d), s) => rbuf'[d][i] = rbuf[d][i]
  <2>1. Landed(s, d, t)
    BY Landing
  <2> QED
    BY <2>1 DEF Landed
<1>5. \A i \in Part(Receives(d), s) :
         LET y == sbuf[s][from + (i - to)]
         IN  /\ y \in Particle
             /\ rbuf'[d][i] = IF t = 0 THEN [rbuf[d][i] EXCEPT !.vel = y.vel, !.at = y.at]
                                       ELSE [rbuf[d][i] EXCEPT !.id = y.id, !.gid = y.gid]
  <2>1. Landed(s, d, t)
    BY Landing
  <2> QED
    BY <2>1 DEF Landed
<1>6. /\ \A q \in Ranks : Counted(old, q) /\ Announced(old, q) /\ Received(old, q)
      /\ \A a, b \in Ranks, u \in Tags : Messages(a, b, u) /\ Arrived(a, b, u)
      /\ Whole(old)
  BY DEF ExchangeInv
<1>7. /\ Receives(d) \in [Ranks -> Nat] /\ NRecv(d) \in Nat
      /\ \A a \in Ranks : Receives(d)[a] = sends[a][d]
  <2>1. pc[d] \in {"irecv", "sendp", "recvp", "share"}
    BY <1>3 DEF Posted
  <2> QED
    BY <1>6, <2>1, Expects
<1>8. /\ \A a \in Ranks : /\ Part(Receives(d), a) \subseteq 1..NRecv(d)
                          /\ Starts(Receives(d))[a] \in Nat /\ sends[a][d] \in Nat
      /\ \A a, b \in Ranks : \A i \in Part(Receives(d), a) : i \in Part(Receives(d), b) => a = b
  BY <1>7, PartsCover DEF NRecv
<1>9. \A a \in Ranks, j \in Int : j \in 1..sends[a][d] =>
        /\ Starts(Receives(d))[a] + j \in Part(Receives(d), a)
        /\ (Starts(Receives(d))[a] + j) - Starts(Receives(d))[a] = j
  <2>1. \A a \in Ranks : Part(Receives(d), a)
                         = (Starts(Receives(d))[a] + 1)..(Starts(Receives(d))[a] + sends[a][d])
    BY <1>7 DEF Part
  <2> QED
    BY <1>8, <2>1
<1>10. \A i \in 1..NRecv(d) : rbuf[d][i] \in Column
  <2>1. rbuf[d] \in Seq(Column)
    BY <1>2
  <2> QED
    BY <1>3, <2>1, ElementOf
\* the fields of the other tag stay as they were
<1>11. ASSUME NEW i \in 1..NRecv(d)
       PROVE  /\ rbuf'[d][i] \in Column
              /\ t = 0 => rbuf'[d][i].id = rbuf[d][i].id /\ rbuf'[d][i].gid = rbuf[d][i].gid
              /\ t # 0 => rbuf'[d][i].vel = rbuf[d][i].vel /\ rbuf'[d][i].at = rbuf[d][i].at
  <2>1. CASE i \notin Part(Receives(d), s)
    BY <1>4, <1>10, <2>1
  <2>2. CASE i \in Part(Receives(d), s)
    <3>1. PICK y \in Particle :
            rbuf'[d][i] = IF t = 0 THEN [rbuf[d][i] EXCEPT !.vel = y.vel, !.at = y.at]
                                   ELSE [rbuf[d][i] EXCEPT !.id = y.id, !.gid = y.gid]
      BY <1>5, <2>2
    <3>2. rbuf[d][i] \in Column
      BY <1>10
    <3> QED
      BY <3>1, <3>2 DEF Particle, Column
  <2> QED
    BY <2>1, <2>2
<1>12. ASSUME NEW i \in Part(Receives(d), s)
       PROVE  LET x == rbuf'[d][i]
                  y == sbuf[s][from + (i - to)]
              IN  IF t = 0 THEN x.vel = y.vel /\ x.at = y.at ELSE x.id = y.id /\ x.gid = y.gid
  <2>1. rbuf[d][i] \in Column
    BY <1>8, <1>10
  <2> DEFINE y == sbuf[s][from + (i - to)]
  <2>2. rbuf'[d][i] = IF t = 0 THEN [rbuf[d][i] EXCEPT !.vel = y.vel, !.at = y.at]
                               ELSE [rbuf[d][i] EXCEPT !.id = y.id, !.gid = y.gid]
    BY <1>5
  <2> HIDE DEF y
  <2>3. IF t = 0 THEN rbuf'[d][i].vel = y.vel /\ rbuf'[d][i].at = y.at
                 ELSE rbuf'[d][i].id = y.id /\ rbuf'[d][i].gid = y.gid
    BY <2>1, <2>2 DEF Column
  <2> QED
    BY <2>3 DEF y
<1>13. rbuf'[d] \in Seq(Column) /\ Len(rbuf'[d]) = Len(rbuf[d])
  <2>1. rbuf'[d] \in [1..NRecv(d) -> Column]
    BY <1>3, <1>11
  <2>2. rbuf'[d] \in Seq(Column) /\ Len(rbuf'[d]) = NRecv(d)
    BY <1>7, <2>1, ListOf
  <2>3. Len(rbuf[d]) = NRecv(d)
    BY <1>3, <1>6 DEF Received
  <2> QED
    BY <2>2, <2>3
<1>14. /\ flight'[s][d][t] = <<>> /\ rreq'[d] = rreq[d] \ {<<s, t>>}
       /\ \A a, b \in Ranks, u \in Tags : <<a, b, u>> # <<s, d, t>> => flight'[a][b][u] = flight[a][b][u]
       /\ \A b \in Ranks : b # d => rreq'[b] = rreq[b] /\ rbuf'[b] = rbuf[b]
  <2>1. \A e : Tail(<<e>>) = <<>>
    OBVIOUS
  <2>2. Tail(flight[s][d][t]) = <<>>
    BY <1>3, <2>1
  <2> HIDE DEF from, to, n
  <2>3. /\ \A a \in Ranks : a # s => flight'[a] = flight[a]
        /\ \A b \in Ranks : b # d => flight'[s][b] = flight[s][b]
        /\ \A u \in Tags : u # t => flight'[s][d][u] = flight[s][d][u]
        /\ flight'[s][d][t] = <<>>
    BY <1>1, <1>2, <2>2
  <2>4. ASSUME NEW a \in Ranks, NEW b \in Ranks, NEW u \in Tags, <<a, b, u>> # <<s, d, t>>
        PROVE  flight'[a][b][u] = flight[a][b][u]
    BY <2>3, <2>4
  <2> QED
    BY <1>1, <1>2, <2>3, <2>4
<1>15. TypeOK'
  <2>1. rbuf' \in [Ranks -> Seq(Column)]
    BY <1>1, <1>2, <1>13
  <2>2. /\ rreq' \in [Ranks -> SUBSET (Ranks \X Tags)] /\ sreq' \in [Ranks -> SUBSET (Ranks \X Tags)]
    BY <1>1, <1>2
  <2>3. flight' \in [Ranks -> [Ranks -> [Tags -> Seq(Nat \X Nat)]]]
    <3>1. Tail(flight[s][d][t]) \in Seq(Nat \X Nat)
      <4>1. <<>> \in Seq(Nat \X Nat) /\ \A e : Tail(<<e>>) = <<>>
        OBVIOUS
      <4> QED
        BY <1>3, <4>1
    <3>2. [flight[s][d] EXCEPT ![t] = Tail(flight[s][d][t])] \in [Tags -> Seq(Nat \X Nat)]
      BY <1>2, <3>1
    <3>3. flight' = [flight EXCEPT ![s] = [flight[s] EXCEPT ![d] =
                       [flight[s][d] EXCEPT ![t] = Tail(flight[s][d][t])]]]
      BY <1>1, <1>2
    <3> QED
      BY <1>2, <3>2, <3>3
  <2> QED
    BY <1>1, <2>1, <2>2, <2>3 DEF TypeOK
<1>16. Exchanging'
  BY <1>1 DEF Exchanging
<1>17. ASSUME NEW q \in Ranks
       PROVE  Counted(old, q)' /\ Announced(old, q)' /\ Received(old, q)'
  <2>1. Len(rbuf'[q]) = Len(rbuf[q])
    BY <1>13, <1>14
  <2> QED
    BY <1>1, <1>6, <2>1, RankUntouched
<1>18. ASSUME NEW a \in Ranks, NEW b \in Ranks, NEW u \in Tags
       PROVE  Messages(a, b, u)' /\ Arrived(a, b, u)'
  <2>1. Messages(a, b, u) /\ Arrived(a, b, u)
    BY <1>6
  <2>2. CASE b # d
    <3>1. <<a, b, u>> # <<s, d, t>>
      BY <2>2
    <3>2. /\ flight'[a][b][u] = flight[a][b][u] /\ rreq'[b] = rreq[b] /\ rbuf'[b] = rbuf[b]
          /\ pc' = pc /\ sends' = sends /\ sbuf' = sbuf /\ allsends' = allsends
      BY <1>1, <1>14, <2>2, <3>1
    <3> QED
      BY <2>1, <3>2, PairUntouched
  <2>3. CASE b = d /\ <<a, u>> # <<s, t>>
    <3>1. /\ flight'[a][d][u] = flight[a][d][u] /\ (<<a, u>> \in rreq'[d] <=> <<a, u>> \in rreq[d])
      BY <1>14, <2>3
    <3>2. Messages(a, d, u)'
      BY <1>1, <2>1, <2>3, <3>1 DEF Messages, Sent, Posted
    <3>3. ASSUME sends[a][d] > 0, <<a, u>> \notin rreq[d], NEW j \in 1..sends[a][d]
          PROVE  LET x == rbuf'[d][Starts(Receives(d))[a] + j]
                     y == sbuf[a][Starts(sends[a])[d] + j]
                 IN  IF u = 0 THEN x.vel = y.vel /\ x.at = y.at ELSE x.id = y.id /\ x.gid = y.gid
      <4> DEFINE i == Starts(Receives(d))[a] + j
      <4>1. i \in Part(Receives(d), a)
        BY <1>9
      <4>2. i \in 1..NRecv(d)
        BY <1>8, <4>1
      <4>3. LET x == rbuf[d][i]
                y == sbuf[a][Starts(sends[a])[d] + j]
            IN  IF u = 0 THEN x.vel = y.vel /\ x.at = y.at ELSE x.id = y.id /\ x.gid = y.gid
        <5>1. pc[d] \in {"sendp", "recvp", "share"}
          BY <1>3 DEF Posted
        <5> QED
          BY <1>3, <2>1, <2>3, <3>3, <5>1 DEF Arrived
      <4> HIDE DEF i
      <4>4. CASE a # s
        <5>1. i \notin Part(Receives(d), s)
          BY <1>8, <4>1, <4>4
        <5>2. rbuf'[d][i] = rbuf[d][i]
          BY <1>4, <4>2, <5>1
        <5> QED
          BY <4>3, <5>2 DEF i
      <4>5. CASE a = s
        <5>1. u # t
          BY <2>3, <4>5
        <5>2. CASE u = 0
          BY <1>11, <4>2, <4>3, <5>1, <5>2 DEF i
        <5>3. CASE u # 0
          <6>1. t = 0
            BY <5>1, <5>3 DEF Tags
          <6> QED
            BY <1>11, <4>2, <4>3, <5>3, <6>1 DEF i
        <5> QED
          BY <5>2, <5>3
      <4> QED
        BY <4>4, <4>5
    <3>4. Receives(d)' = Receives(d) /\ sbuf' = sbuf /\ sends' = sends /\ pc' = pc
      BY <1>1 DEF Receives
    <3>5. Arrived(a, d, u)'
      BY <2>1, <2>3, <3>1, <3>3, <3>4 DEF Arrived, Sent
    <3> QED
      BY <2>3, <3>2, <3>5
  <2>4. CASE b = d /\ <<a, u>> = <<s, t>>
    <3>1. Messages(s, d, t)'
      BY <1>1, <1>3, <1>14 DEF Messages, Posted
    <3>2. ASSUME NEW j \in 1..sends[s][d]
          PROVE  LET x == rbuf'[d][Starts(Receives(d))[s] + j]
                     y == sbuf[s][Starts(sends[s])[d] + j]
                 IN  IF t = 0 THEN x.vel = y.vel /\ x.at = y.at ELSE x.id = y.id /\ x.gid = y.gid
      <4>1. to + j \in Part(Receives(d), s) /\ (to + j) - to = j
        BY <1>9
      <4> QED
        BY <1>12, <4>1
    <3>3. Receives(d)' = Receives(d) /\ sbuf' = sbuf /\ sends' = sends /\ pc' = pc
      BY <1>1 DEF Receives
    <3>4. Arrived(s, d, t)'
      BY <1>3, <3>2, <3>3 DEF Arrived, Sent
    <3> QED
      BY <2>4, <3>1, <3>4
  <2> QED
    BY <2>2, <2>3, <2>4
<1> QED
  BY <1>1, <1>6, <1>15, <1>16, <1>17, <1>18 DEF ExchangeInv

-----------------------------------------------------------------------------
(***************************************************************************)
(* The invariant, and what follows                                         *)
(***************************************************************************)
\* The tags of the particles a run starts with are all different
LEMMA TagsDiffer ==
  ASSUME NEW r \in Ranks, NEW s \in Ranks, NEW p \in Nat \ {0}, NEW q \in Nat \ {0}
  PROVE  /\ Tag(r, p) \in Nat
         /\ Tag(r, p) = Tag(s, q) => r = s /\ p = q
<1>1. NRanks \in Nat \ {0} /\ r \in 0..(NRanks - 1) /\ s \in 0..(NRanks - 1)
  BY Ranking
<1>2. ASSUME NEW k \in Nat PROVE NRanks * k \in Nat /\ (k > 0 => NRanks * k >= NRanks)
  <2>1. NRanks * k \in Nat
    BY <1>1
  <2>2. CASE k > 0
    <3>1. k - 1 \in Nat /\ NRanks * k = NRanks * (k - 1) + NRanks
      BY <1>1, <2>2
    <3>2. NRanks * (k - 1) \in Nat
      BY <1>1, <3>1
    <3> QED
      BY <1>1, <2>1, <3>1, <3>2
  <2> QED
    BY <2>1, <2>2
<1>3. Tag(r, p) \in Nat
  BY <1>1, <1>2 DEF Tag
<1>4. ASSUME NEW a \in Ranks, NEW b \in Ranks, NEW i \in Nat \ {0}, NEW j \in Nat \ {0},
             Tag(a, i) = Tag(b, j)
      PROVE  i <= j
  <2>1. a \in 0..(NRanks - 1) /\ b \in 0..(NRanks - 1)
    BY Ranking
  <2>2. SUFFICES ASSUME i > j PROVE FALSE
    OBVIOUS
  <2>3. i - j \in Nat /\ NRanks * (i - j) >= NRanks /\ NRanks * (i - j) \in Nat
    BY <1>2, <2>2
  <2>4. NRanks * (i - 1) = NRanks * (j - 1) + NRanks * (i - j)
    BY <1>1
  <2>5. NRanks * (i - 1) \in Nat /\ NRanks * (j - 1) \in Nat
    BY <1>2
  <2> QED
    BY <1>1, <1>4, <2>1, <2>3, <2>4, <2>5 DEF Tag
<1>5. Tag(r, p) = Tag(s, q) => p = q
  BY <1>4
<1>6. ASSUME Tag(r, p) = Tag(s, p) PROVE r = s
  <2>1. NRanks * (p - 1) \in Nat
    BY <1>2
  <2> QED
    BY <1>1, <1>6, <2>1 DEF Tag
<1> QED
  BY <1>3, <1>5, <1>6

\* The invariant holds at first: each rank has particles of its own, in a block it owns
LEMMA Initially == Init => IInv
<1> SUFFICES ASSUME Init PROVE IInv
  OBVIOUS
<1> DEFINE new(r, p) == [id |-> Tag(r, p), gid |-> HomeOf(r), vel |-> Tag(r, p), at |-> HomeOf(r)]
<1>1. /\ \A r \in Ranks : pc[r] = "push" /\ cycle[r] = 0 /\ npart[r] = Counts[r] /\ Counts[r] \in Nat
      /\ \A r \in Ranks : prtcl[r] = [p \in 1..Counts[r] |-> new(r, p)]
      /\ npart = Counts /\ eachrank = [r \in Ranks |-> Counts]
  BY ParticlesAssumption DEF Init
<1>2. \A r \in Ranks : HomeOf(r) \in Blocks /\ Owner[HomeOf(r)] = r
  BY ParticlesAssumption DEF HomeOf
<1>3. ASSUME NEW r \in Ranks
      PROVE  prtcl[r] \in Seq(Particle) /\ DOMAIN prtcl[r] = 1..Counts[r] /\ Len(prtcl[r]) = Counts[r]
  <2>1. ASSUME NEW p \in 1..Counts[r] PROVE new(r, p) \in Particle
    <3>1. Tag(r, p) \in Nat
      BY <1>1, TagsDiffer
    <3> QED
      BY <1>2, <3>1 DEF Particle
  <2> HIDE DEF new
  <2>2. prtcl[r] \in [1..Counts[r] -> Particle]
    BY <1>1, <2>1
  <2> QED
    BY <1>1, <2>2, ListOf
<1>4. ASSUME NEW r \in Ranks, NEW p \in 1..Counts[r]
      PROVE  /\ prtcl[r][p].id = Tag(r, p) /\ prtcl[r][p].vel = Tag(r, p)
             /\ prtcl[r][p].gid = HomeOf(r) /\ prtcl[r][p].at = HomeOf(r)
  <2>1. prtcl[r][p] = new(r, p)
    <3> HIDE DEF new
    <3> QED
      BY <1>1
  <2> QED
    BY <2>1
<1>5. TypeOK
  <2>1. prtcl \in [Ranks -> Seq(Column)]
    <3>1. \A r \in Ranks : prtcl[r] \in Seq(Column)
      <4>1. Particle \subseteq Column
        BY DEF Particle, Column
      <4>2. \A q \in Seq(Particle) : q \in Seq(Column)
        BY <4>1
      <4> QED
        BY <1>3, <4>2
    <3> QED
      BY <3>1 DEF Init
  <2>2. /\ cycle \in [Ranks -> Nat] /\ pc \in [Ranks -> Steps] /\ npart \in [Ranks -> Nat]
        /\ sends \in [Ranks -> [Ranks -> Nat]] /\ allsends \in [Ranks -> [Ranks -> [Ranks -> Nat]]]
        /\ eachrank \in [Ranks -> [Ranks -> Nat]]
    BY ParticlesAssumption DEF Init, Steps
  <2>3. /\ sendlist \in [Ranks -> Seq((Nat \ {0}) \X Ranks)]
        /\ sbuf \in [Ranks -> Seq(Column)] /\ rbuf \in [Ranks -> Seq(Column)]
    BY DEF Init
  <2>4. /\ flight \in [Ranks -> [Ranks -> [Tags -> Seq(Nat \X Nat)]]]
        /\ sreq \in [Ranks -> SUBSET (Ranks \X Tags)] /\ rreq \in [Ranks -> SUBSET (Ranks \X Tags)]
    BY DEF Init
  <2> QED
    BY <2>1, <2>2, <2>3, <2>4 DEF TypeOK
<1>6. Between
  BY <1>1 DEF Between, Turn
<1>7. Whole(prtcl)
  <2>1. \A r \in Ranks : \A p \in DOMAIN prtcl[r] : prtcl[r][p].id = prtcl[r][p].vel
    BY <1>3, <1>4
  <2>2. ASSUME NEW i \in Ids PROVE \E r \in Ranks : \E p \in DOMAIN prtcl[r] : prtcl[r][p].id = i
    <3>1. PICK r \in Ranks : \E p \in 1..Counts[r] : i = Tag(r, p)
      BY DEF Ids
    <3> QED
      BY <1>3, <1>4, <3>1
  <2>3. ASSUME NEW r \in Ranks, NEW s \in Ranks, NEW p \in DOMAIN prtcl[r], NEW q \in DOMAIN prtcl[s],
               prtcl[r][p].id = prtcl[s][q].id
        PROVE  r = s /\ p = q
    <3>1. Tag(r, p) = Tag(s, q) /\ p \in Nat \ {0} /\ q \in Nat \ {0}
      BY <1>3, <1>4, <2>3
    <3> QED
      BY <3>1, TagsDiffer
  <2> QED
    BY <1>3, <2>1, <2>2, <2>3 DEF Whole
<1>8. Quiet
  BY DEF Init, Quiet
<1>9. ASSUME NEW r \in Ranks PROVE Arrays(r) /\ Lists(r) /\ (pc[r] # "share" => eachrank[r] = npart)
  BY <1>1, <1>2, <1>3, <1>4 DEF Arrays, Lists
<1> QED
  BY <1>5, <1>6, <1>7, <1>8, <1>9 DEF IInv, BetweenInv

\* The gathers bring the ranks together: who gets through one of them knows that all
\* are at it, though MPI only says that all have come so far
LEMMA AllGather ==
  ASSUME TypeOK, Between, NEW r \in Ranks, GatherSends(r)
  PROVE  AllAt("gather") /\ Exchanging
<1>1. /\ pc[r] = "gather" /\ \A q \in Ranks : Reached(q, r, {"push", "newgid", "count"})
  BY DEF GatherSends
<1>2. ASSUME NEW q \in Ranks PROVE pc[q] = "gather" /\ cycle[q] = cycle[r]
  <2>1. cycle[q] \in Nat /\ cycle[r] \in Nat /\ pc[q] \in Steps
    BY DEF TypeOK
  <2>2. Turn(q) = cycle[r] /\ Turn(q) >= cycle[q]
    BY <1>1, <2>1 DEF Between, Turn
  <2>3. cycle[q] = cycle[r] /\ pc[q] \notin {"push", "newgid", "count"}
    BY <1>1, <2>1, <2>2 DEF Reached
  <2>4. pc[q] \notin {"share", "crecv", "csend"}
    BY <2>1, <2>2, <2>3 DEF Turn
  <2> QED
    BY <2>1, <2>3, <2>4 DEF Between, Steps
<1> QED
  BY <1>2 DEF AllAt, Exchanging

\* The same of the all-gather of the new numbers
LEMMA AllShare ==
  ASSUME TypeOK, Exchanging, NEW r \in Ranks, ShareCounts(r)
  PROVE  AllAt("share") /\ Between
<1>1. \A q \in Ranks :
        Reached(q, r, {"push", "newgid", "count", "gather", "irecv", "sendp", "recvp"})
  BY DEF ShareCounts
<1>2. ASSUME NEW q \in Ranks PROVE pc[q] = "share"
  <2>1. cycle[q] \in Nat /\ cycle[q] = cycle[r]
    BY DEF TypeOK, Exchanging
  <2> QED
    BY <1>1, <2>1 DEF Reached, Exchanging
<1> QED
  BY <1>2 DEF AllAt, Between, Exchanging, Turn

\* One step between two exchanges
LEMMA StepBetween ==
  ASSUME TypeOK, Between, BetweenInv, Fits, Next
  PROVE  IInv'
<1>1. ASSUME NEW r \in Ranks, Advance(r) \/ RecvIncomplete(r) PROVE IInv'
  <2>1. pc[r] \notin {"irecv", "sendp", "recvp"}
    BY DEF Between
  <2>2. CASE Push(r)
    BY <2>2, PushStep DEF IInv
  <2>3. CASE SetNewPrtclGID(r)
    BY <2>3, SetNewPrtclGIDStep DEF IInv
  <2>4. CASE CountSends(r)
    BY <2>4, CountSendsStep DEF IInv
  <2>5. CASE GatherSends(r)
    <3>1. AllAt("gather") /\ Exchanging
      BY <2>5, AllGather
    <3>2. ExchangeInv(prtcl) /\ prtcl \in [Ranks -> Seq(Particle)]
      BY <3>1, ExchangeStarts
    <3>3. PICK old \in [Ranks -> Seq(Particle)] : ExchangeInv(old)
      BY <3>2
    <3>4. TypeOK' /\ Exchanging' /\ ExchangeInv(old)'
      BY <2>5, <3>1, <3>3, GatherSendsStep
    <3> QED
      BY <3>3, <3>4 DEF IInv
  <2>6. CASE ShareCounts(r)
    <3>1. /\ pc[r] = "share" /\ pc' = [pc EXCEPT ![r] = "crecv"]
          /\ eachrank' = [eachrank EXCEPT ![r] = npart] /\ cycle' = cycle
          /\ UNCHANGED <<prtcl, npart, sendlist, sends, allsends, sbuf, rbuf, flight, sreq, rreq>>
      BY <2>6 DEF ShareCounts, Go
    <3>2. TypeOK' /\ Between' /\ BetweenInv'
      BY <3>1, AfterStep
    <3> QED
      BY <3>2 DEF IInv
  <2>7. CASE ClearPrtclRecv(r) \/ ClearPrtclSend(r)
    <3>1. UNCHANGED <<prtcl, npart, sendlist, sends, allsends, sbuf, rbuf, flight, sreq, rreq>>
      BY <2>7 DEF ClearPrtclRecv, ClearPrtclSend
    <3>2. TypeOK' /\ Between' /\ BetweenInv'
      BY <2>7, <3>1, AfterStep
    <3> QED
      BY <3>2 DEF IInv
  <2>8. ~(InitPrtclRecv(r) \/ PackAndSendPrtcls(r) \/ RecvAndUnpackPrtcls(r) \/ RecvIncomplete(r))
    BY <2>1 DEF InitPrtclRecv, PackAndSendPrtcls, RecvAndUnpackPrtcls, RecvIncomplete
  <2> QED
    BY <1>1, <2>2, <2>3, <2>4, <2>5, <2>6, <2>7, <2>8 DEF Advance
<1>2. ASSUME NEW s \in Ranks, NEW d \in Ranks, NEW t \in Tags PROVE ~Deliver(s, d, t)
  <2>1. rreq[d] = {}
    BY DEF BetweenInv, Quiet
  <2> QED
    BY <2>1 DEF Deliver
<1> QED
  BY <1>1, <1>2 DEF Next

\* and one in an exchange
LEMMA StepExchanging ==
  ASSUME TypeOK, Exchanging, NEW old \in [Ranks -> Seq(Particle)], ExchangeInv(old), Next
  PROVE  IInv'
<1>1. ASSUME NEW r \in Ranks, Advance(r) \/ RecvIncomplete(r) PROVE IInv'
  <2>1. pc[r] \in {"gather", "irecv", "sendp", "recvp", "share"}
    BY DEF Exchanging
  <2>2. CASE GatherSends(r)
    BY <2>2, GatherSendsStep DEF IInv
  <2>3. CASE InitPrtclRecv(r)
    BY <2>3, InitPrtclRecvStep DEF IInv
  <2>4. CASE PackAndSendPrtcls(r)
    BY <2>4, PackAndSendPrtclsStep DEF IInv
  <2>5. CASE RecvIncomplete(r)
    BY <2>5, RecvIncompleteStep DEF IInv
  <2>6. CASE RecvAndUnpackPrtcls(r)
    BY <2>6, RecvAndUnpackPrtclsStep DEF IInv
  <2>7. CASE ShareCounts(r)
    <3>1. AllAt("share") /\ Between
      BY <2>7, AllShare
    <3>2. BetweenInv
      BY <3>1, ExchangeEnds
    <3>3. /\ pc[r] = "share" /\ pc' = [pc EXCEPT ![r] = "crecv"]
          /\ eachrank' = [eachrank EXCEPT ![r] = npart] /\ cycle' = cycle
          /\ UNCHANGED <<prtcl, npart, sendlist, sends, allsends, sbuf, rbuf, flight, sreq, rreq>>
      BY <2>7 DEF ShareCounts, Go
    <3>4. TypeOK' /\ Between' /\ BetweenInv'
      BY <3>1, <3>2, <3>3, AfterStep
    <3> QED
      BY <3>4 DEF IInv
  <2>8. ~(Push(r) \/ SetNewPrtclGID(r) \/ CountSends(r) \/ ClearPrtclRecv(r) \/ ClearPrtclSend(r))
    BY <2>1 DEF Push, SetNewPrtclGID, CountSends, ClearPrtclRecv, ClearPrtclSend
  <2> QED
    BY <1>1, <2>2, <2>3, <2>4, <2>5, <2>6, <2>7, <2>8 DEF Advance
<1>2. ASSUME NEW s \in Ranks, NEW d \in Ranks, NEW t \in Tags, Deliver(s, d, t) PROVE IInv'
  BY <1>2, DeliverStep DEF IInv
<1> QED
  BY <1>1, <1>2 DEF Next

\* A step that changes nothing
LEMMA Stutter ==
  ASSUME IInv, UNCHANGED vars
  PROVE  IInv'
<1>1. /\ UNCHANGED <<cycle, pc, prtcl, npart, sendlist, sends, allsends>>
      /\ UNCHANGED <<sbuf, rbuf, flight, sreq, rreq, eachrank>>
  BY DEF vars
<1>2. TypeOK'
  BY <1>1 DEF IInv, TypeOK
<1>3. CASE Between /\ BetweenInv
  <2>1. Between'
    BY <1>1, <1>3 DEF Between, Turn
  <2>2. BetweenInv'
    BY <1>1, <1>3 DEF BetweenInv, Quiet, Arrays, Lists
  <2> QED
    BY <1>2, <2>1, <2>2 DEF IInv
<1>4. CASE Exchanging /\ \E old \in [Ranks -> Seq(Particle)] : ExchangeInv(old)
  <2>1. PICK old \in [Ranks -> Seq(Particle)] : ExchangeInv(old)
    BY <1>4
  <2>2. Exchanging'
    BY <1>1, <1>4 DEF Exchanging
  <2>3. \A q \in Ranks : Counted(old, q)' /\ Announced(old, q)' /\ Received(old, q)'
    BY <1>1, <2>1, RankUntouched DEF ExchangeInv
  <2>4. \A s, d \in Ranks, t \in Tags : Messages(s, d, t)' /\ Arrived(s, d, t)'
    BY <1>1, <2>1, PairUntouched DEF ExchangeInv
  <2>5. ExchangeInv(old)'
    BY <2>1, <2>3, <2>4 DEF ExchangeInv
  <2> QED
    BY <1>2, <2>1, <2>2, <2>5 DEF IInv
<1> QED
  BY <1>3, <1>4 DEF IInv

\* The invariant is inductive, given room in the list
LEMMA Inductive ==
  ASSUME IInv, Fits, [Next]_vars
  PROVE  IInv'
<1>1. CASE UNCHANGED vars
  BY <1>1, Stutter
<1>2. CASE Next
  BY <1>2, StepBetween, StepExchanging DEF IInv
<1> QED
  BY <1>1, <1>2

\* What the invariant says of a rank outside an exchange
LEMMA OwnArrays == IInv => ArraysHoldOwnParticles
<1> SUFFICES ASSUME IInv, NEW r \in Ranks, ~InExchange(r)
             PROVE  /\ Len(prtcl[r]) = npart[r]
                    /\ \A p \in 1..npart[r] :
                         LET x == prtcl[r][p]
                         IN  x.id = x.vel /\ Owner[x.gid] = r /\ (pc[r] # "newgid" => x.gid = x.at)
  BY DEF ArraysHoldOwnParticles
<1>1. TypeOK /\ pc[r] \in {"push", "newgid", "share", "crecv", "csend"}
  BY DEF IInv, TypeOK, Steps, InExchange
<1>2. CASE Between /\ BetweenInv
  <2>1. Arrays(r) /\ Whole(prtcl)
    BY <1>2 DEF BetweenInv
  <2>2. Len(prtcl[r]) = npart[r] /\ DOMAIN prtcl[r] = 1..npart[r]
    BY <1>1, <2>1 DEF Arrays, TypeOK
  <2> QED
    BY <1>1, <2>1, <2>2 DEF Arrays, Whole
<1>3. CASE Exchanging /\ \E old \in [Ranks -> Seq(Particle)] : ExchangeInv(old)
  <2>1. pc[r] = "share"
    BY <1>1, <1>3 DEF Exchanging
  <2>2. PICK old : ExchangeInv(old)
    BY <1>3
  <2> QED
    BY <1>1, <2>1, <2>2, HasItsOwn
<1> QED
  BY <1>2, <1>3 DEF IInv

\* and of all of them when none is between being counted and unpacking
LEMMA NoneLost == IInv => NoParticleLostOrDoubled
<1> SUFFICES ASSUME IInv, \A r \in Ranks : pc[r] \notin {"gather", "irecv", "sendp", "recvp"}
             PROVE  /\ \A i \in Ids : \E r \in Ranks : \E p \in 1..npart[r] :
                         \A s \in Ranks : \A q \in 1..npart[s] :
                           prtcl[s][q].id = i <=> s = r /\ q = p
                    /\ \A r \in Ranks : pc[r] # "share" => eachrank[r] = npart
  BY DEF NoParticleLostOrDoubled
<1>1. TypeOK
  BY DEF IInv
<1>2. BetweenInv
  <2>1. CASE Exchanging /\ \E old \in [Ranks -> Seq(Particle)] : ExchangeInv(old)
    <3>1. AllAt("share")
      BY <2>1 DEF Exchanging, AllAt
    <3> QED
      BY <1>1, <2>1, <3>1, ExchangeEnds
  <2> QED
    BY <2>1 DEF IInv
<1>3. Whole(prtcl) /\ \A r \in Ranks : Arrays(r) /\ (pc[r] # "share" => eachrank[r] = npart)
  BY <1>2 DEF BetweenInv
<1>4. \A r \in Ranks : DOMAIN prtcl[r] = 1..npart[r]
  BY <1>1, <1>3 DEF Arrays, TypeOK
<1>5. /\ \A i \in Ids : \E r \in Ranks : \E p \in DOMAIN prtcl[r] : prtcl[r][p].id = i
      /\ \A r, s \in Ranks : \A p \in DOMAIN prtcl[r], q \in DOMAIN prtcl[s] :
           prtcl[r][p].id = prtcl[s][q].id => r = s /\ p = q
  BY <1>3 DEF Whole
<1>6. ASSUME NEW i \in Ids
      PROVE  \E r \in Ranks : \E p \in 1..npart[r] :
               \A s \in Ranks : \A q \in 1..npart[s] : prtcl[s][q].id = i <=> s = r /\ q = p
  <2>1. PICK r \in Ranks : \E p \in DOMAIN prtcl[r] : prtcl[r][p].id = i
    BY <1>5
  <2>2. PICK p \in DOMAIN prtcl[r] : prtcl[r][p].id = i
    BY <2>1
  <2>3. ASSUME NEW s \in Ranks, NEW q \in DOMAIN prtcl[s]
        PROVE  prtcl[s][q].id = i <=> s = r /\ q = p
    BY <1>5, <2>2
  <2>4. p \in 1..npart[r]
    BY <1>4, <2>2
  <2>5. \A s \in Ranks : \A q \in 1..npart[s] : prtcl[s][q].id = i <=> s = r /\ q = p
    BY <1>4, <2>3
  <2> QED
    BY <2>4, <2>5
<1> QED
  BY <1>3, <1>6

\* All states of a run satisfy the invariant, so their variables have their types,
\* as long as no rank has more leaving particles than its list has room for
THEOREM ParticlesInductive == Spec /\ []Fits => []IInv
<1>1. IInv /\ Fits /\ [Next]_vars => IInv'
  BY Inductive
<1> QED
  BY <1>1, Initially, PTL DEF Spec

\* Outside an exchange the arrays of a rank are dense and hold whole particles of its
\* own, whatever order threads, sorts and messages took (RecvAndUnpackPrtcls)
THEOREM ParticlesStayWithTheirOwner == Spec /\ []Fits => []ArraysHoldOwnParticles
<1> QED
  BY ParticlesInductive, OwnArrays, PTL

\* No exchange loses a particle or leaves it on two ranks, and the counts all ranks
\* share are those of the arrays
THEOREM ParticlesConserved == Spec /\ []Fits => []NoParticleLostOrDoubled
<1> QED
  BY ParticlesInductive, NoneLost, PTL

===============================================================================
