--------------------------- MODULE LoadBalanceProofs ---------------------------
(***************************************************************************)
(* For every number of blocks and ranks: LoadBalance stays within its      *)
(* arrays, and with at least one block per rank its three output arrays    *)
(* describe one distribution that leaves no rank without a block and gives *)
(* no rank more than one block more than another.                          *)
(***************************************************************************)
EXTENDS LoadBalance, FiniteSetTheorems, WellFoundedInduction, TLAPS

Enough == nb >= nranks

\* blocks after i are dealt, to ranks that go down by at most one
DealtFrom(lo) ==
  /\ \A m \in lo..(nb - 1) : rlist[m] \in Ranks
  /\ \A m \in lo..(nb - 2) : rlist[m + 1] - rlist[m] \in {0, 1}
  /\ lo < nb => rlist[nb - 1] = nranks - 1

\* the first loop: what is left to deal, and the rank being filled
Assigning ==
  /\ i \in -1..(nb - 1)
  /\ j \in Ranks
  /\ totalcost \in Nat /\ mycost \in Nat
  /\ totalcost = i + 1 + mycost
  /\ totalcost <= nb
  /\ j > 0 => mycost = 0 \/ mycost * (j + 1) < totalcost
  /\ Enough => totalcost >= j + 1
  /\ DealtFrom(i + 1)
  /\ IF i = nb - 1 THEN j = nranks - 1 /\ mycost = 0
     ELSE rlist[i + 1] = IF mycost = 0 THEN j + 1 ELSE j
  /\ slist = [r \in {} |-> 0] /\ nlist = [r \in {} |-> 0]

\* the second loop: the runs of equal ranks among the blocks before i
RunsBefore ==
  /\ DealtFrom(0)
  /\ Enough => rlist[0] = 0
  /\ totalcost \in 0..nb /\ mycost \in 0..nb
  /\ i \in 1..nb
  /\ j = rlist[i - 1] - rlist[0] /\ j \in Nat
  /\ \A m \in 0..(i - 1) : rlist[m] - rlist[0] \in 0..j
  /\ slist \in [0..j -> 0..(i - 1)]
  /\ slist[0] = 0
  /\ \A r \in 0..j : rlist[slist[r]] - rlist[0] = r
  /\ \A m \in 0..(i - 1), r \in 0..j :
       rlist[m] - rlist[0] = r <=> slist[r] <= m /\ (r < j => m < slist[r + 1])

Listing ==
  /\ RunsBefore
  /\ nlist \in [0..(j - 1) -> 0..nb]
  /\ \A r \in 0..(j - 1) : nlist[r] = slist[r + 1] - slist[r]

Listed ==
  /\ RunsBefore
  /\ i = nb
  /\ nlist \in [0..j -> 0..nb]
  /\ \A r \in 0..j : nlist[r] = (IF r = j THEN nb ELSE slist[r + 1]) - slist[r]

IInv ==
  /\ nb \in Nat \ {0} /\ nranks \in Nat \ {0}
  /\ rlist \in [Blocks -> Ranks \cup {Unset}]
  /\ pc \in {"assign", "list", "done"}
  /\ pc = "assign" => Assigning
  /\ pc = "list" => Listing
  /\ pc = "done" => Listed

-----------------------------------------------------------------------------
\* While a rank is short of its share, the ranks below it can still get a block each
LEMMA ShareLeaves ==
  ASSUME NEW M \in Nat, NEW J \in Nat, NEW T \in Nat,
         J >= 2, T >= J, M = 0 \/ M * J < T
  PROVE  T - (M + 1) >= J - 1
<1>1. CASE M = 0
  BY <1>1
<1>2. CASE M # 0
  <2>1. SUFFICES ASSUME M > T - J PROVE FALSE
    OBVIOUS
  <2>2. PICK k \in Nat : T = J + k
    <3>1. T - J \in Nat /\ T = J + (T - J)
      OBVIOUS
    <3>2. QED BY <3>1
  <2>3. PICK d \in Nat : M = k + 1 + d
    <3>1. M - k - 1 \in Nat /\ M = k + 1 + (M - k - 1)
      BY <2>1, <2>2
    <3>2. QED BY <3>1
  <2>4. M * J = k * J + J + d * J
    BY <2>3
  <2>5. d * J >= 0 /\ k * J >= k
    <3>1. PICK e \in Nat : J = 1 + e
      <4>1. J - 1 \in Nat /\ J = 1 + (J - 1)
        OBVIOUS
      <4>2. QED BY <4>1
    <3>2. k * J = k + k * e /\ k * e \in Nat /\ d * J \in Nat
      BY <3>1
    <3>3. QED BY <3>2
  <2>6. k * J \in Int /\ d * J \in Int /\ M * J < T
    BY <1>2
  <2>7. QED
    BY <2>2, <2>4, <2>5, <2>6
<1>3. QED BY <1>1, <1>2

\* The rank that is being filled when the blocks run out is rank 0
LEMMA LastRankIsZero ==
  ASSUME NEW M \in Nat, NEW k \in Nat, M >= k + 1, k > 0 => M = 0 \/ M * (k + 1) < M
  PROVE  k = 0
<1>1. M * (k + 1) = M * k + M
  OBVIOUS
<1>2. M * k \in Nat
  OBVIOUS
<1>3. QED BY <1>1, <1>2

\* The invariant holds at first
LEMMA InitIInv == Init => IInv
  BY InputsAssumption DEF Init, IInv, Assigning, DealtFrom, Enough, Ranks, Blocks, Unset

\* Dealing a block to a rank preserves the invariant
LEMMA AssignIInv == IInv /\ AssignBlock => IInv'
<1> SUFFICES ASSUME IInv, AssignBlock PROVE IInv'
  OBVIOUS
<1> USE DEF Unset
<1>1. Assigning /\ nb \in Nat \ {0} /\ nranks \in Nat \ {0} /\ i >= 0
      /\ rlist \in [Blocks -> Ranks \cup {Unset}]
  BY DEF IInv, AssignBlock
<1>2. totalcost >= 1 /\ i \in Blocks /\ j \in Ranks /\ i \in 0..(nb - 1) /\ j \in 0..(nranks - 1)
  BY <1>1 DEF Assigning, Blocks, Ranks
<1>3. rlist' = [rlist EXCEPT ![i] = j] /\ i' = i - 1 /\ pc' = "assign"
      /\ nb' = nb /\ nranks' = nranks /\ slist' = slist /\ nlist' = nlist
  BY <1>2 DEF AssignBlock, IInv
<1>4. rlist' \in [Blocks -> Ranks \cup {Unset}]
  BY <1>1, <1>2, <1>3
<1>5. rlist'[i] = j /\ \A m \in (i + 1)..(nb - 1) : rlist'[m] = rlist[m]
  BY <1>1, <1>2, <1>3 DEF Blocks
<1>6. DealtFrom(i + 1)'
  <2>1. \A m \in i..(nb - 1) : rlist'[m] \in 0..(nranks - 1)
    BY <1>1, <1>2, <1>5 DEF Assigning, DealtFrom, Ranks
  <2>2. ASSUME i < nb - 1 PROVE rlist'[i + 1] - rlist'[i] \in {0, 1}
    BY <1>1, <1>2, <1>5, <2>2 DEF Assigning
  <2>3. \A m \in (i + 1)..(nb - 2) : rlist'[m + 1] - rlist'[m] \in {0, 1}
    BY <1>1, <1>2, <1>5 DEF Assigning, DealtFrom
  <2>4. \A m \in i..(nb - 2) : rlist'[m + 1] - rlist'[m] \in {0, 1}
    <3>1. i \in Int /\ nb \in Int /\ \A m \in i..(nb - 2) : (m = i /\ i < nb - 1) \/ m \in (i + 1)..(nb - 2)
      BY <1>1, <1>2
    <3>2. QED BY <2>2, <2>3, <3>1
  <2>5. rlist'[nb - 1] = nranks - 1
    BY <1>1, <1>2, <1>5 DEF Assigning, DealtFrom
  <2>6. QED BY <1>2, <1>3, <2>1, <2>4, <2>5 DEF DealtFrom, Ranks
<1>7. CASE Full(mycost + 1)
  <2>1. j' = j - 1 /\ totalcost' = totalcost - (mycost + 1) /\ mycost' = 0 /\ j > 0
    BY <1>2, <1>7 DEF AssignBlock, Full
  <2>2. ASSUME Enough PROVE totalcost' >= j
    <3>1. mycost \in Nat /\ j + 1 \in Nat /\ totalcost \in Nat /\ j + 1 >= 2 /\ totalcost >= j + 1
          /\ (mycost = 0 \/ mycost * (j + 1) < totalcost)
      BY <1>1, <1>2, <2>1, <2>2 DEF Assigning
    <3>2. totalcost - (mycost + 1) >= (j + 1) - 1
      BY <3>1, ShareLeaves
    <3>3. QED BY <1>2, <2>1, <3>2
  <2>3. Assigning'
    BY <1>1, <1>2, <1>3, <1>5, <1>6, <2>1, <2>2 DEF Assigning, Enough, Ranks
  <2>4. QED BY <1>1, <1>3, <1>4, <2>3 DEF IInv, Blocks, Ranks
<1>8. CASE ~Full(mycost + 1)
  <2>1. j' = j /\ totalcost' = totalcost /\ mycost' = mycost + 1
    BY <1>2, <1>8 DEF AssignBlock
  <2>2. ASSUME j > 0 PROVE (mycost + 1) * (j + 1) < totalcost
    <3>1. (mycost + 1) * (j + 1) \in Int
      BY <1>1, <1>2 DEF Assigning
    <3>2. QED BY <1>1, <1>8, <2>2, <3>1 DEF Full, Assigning
  <2>3. Assigning'
    BY <1>1, <1>2, <1>3, <1>5, <1>6, <2>1, <2>2 DEF Assigning, Enough, Ranks
  <2>4. QED BY <1>1, <1>3, <1>4, <2>3 DEF IInv, Blocks, Ranks
<1>9. QED BY <1>7, <1>8

\* Starting the lists by rank preserves the invariant
LEMMA StartIInv == IInv /\ StartLists => IInv'
<1> SUFFICES ASSUME IInv, StartLists PROVE IInv'
  OBVIOUS
<1>1. Assigning /\ nb \in Nat \ {0} /\ nranks \in Nat \ {0} /\ i = -1
  BY DEF IInv, StartLists, Assigning
<1>2. DealtFrom(0) /\ totalcost = mycost
  BY <1>1 DEF Assigning
<1>3. ASSUME Enough PROVE rlist[0] = 0
  <2>1. mycost \in Nat /\ j \in Nat /\ mycost >= j + 1 /\ (j > 0 => mycost = 0 \/ mycost * (j + 1) < mycost)
    BY <1>1, <1>2, <1>3 DEF Assigning, Ranks
  <2>2. j = 0 /\ mycost # 0
    BY <2>1, LastRankIsZero
  <2>3. QED BY <1>1, <2>2 DEF Assigning
<1>4. rlist' = rlist /\ nb' = nb /\ nranks' = nranks /\ i' = 1 /\ j' = 0 /\ nlist' = nlist
      /\ slist' = [r \in {0} |-> 0] /\ totalcost' = totalcost /\ mycost' = mycost /\ pc' = "list"
  BY DEF StartLists
<1>5. DealtFrom(0)' /\ (Enough => rlist[0] = 0)'
  BY <1>2, <1>3, <1>4 DEF DealtFrom, Ranks, Enough
<1>6. 0..j' = {0} /\ 0..(i' - 1) = {0} /\ 0..(j' - 1) = {}
  BY <1>4
<1>7. rlist[0] \in Int
  BY <1>1, <1>2 DEF DealtFrom, Ranks
<1>8. RunsBefore'
  BY <1>1, <1>2, <1>4, <1>5, <1>6, <1>7 DEF RunsBefore, Assigning
<1>9. nlist' \in [0..(j' - 1) -> 0..nb']
  BY <1>1, <1>4, <1>6 DEF Assigning
<1>10. Listing'
  BY <1>6, <1>8, <1>9 DEF Listing
<1>11. QED BY <1>4, <1>10 DEF IInv, Blocks, Ranks

\* Entering a block in the lists preserves the invariant
LEMMA ListIInv == IInv /\ ListBlock => IInv'
<1> SUFFICES ASSUME IInv, ListBlock PROVE IInv'
  OBVIOUS
<1>1. /\ Listing /\ RunsBefore
      /\ nb \in Nat \ {0} /\ nranks \in Nat \ {0}
      /\ i \in Nat \ {0} /\ i < nb
      /\ pc = "list"
  BY SMTT(40) DEF IInv, ListBlock, Listing, RunsBefore
<1>2. rlist' = rlist /\ nb' = nb /\ nranks' = nranks /\ i' = i + 1
      /\ totalcost' = totalcost /\ mycost' = mycost /\ pc' = pc
  BY DEF ListBlock
<1>3. /\ j = rlist[i - 1] - rlist[0] /\ j \in Nat
      /\ \A m \in 0..(i - 1) : rlist[m] - rlist[0] \in 0..j
      /\ slist \in [0..j -> 0..(i - 1)]
      /\ slist[0] = 0
  BY <1>1 DEF RunsBefore
<1>4. /\ \A r \in 0..j : rlist[slist[r]] - rlist[0] = r
      /\ \A m \in 0..(i - 1), r \in 0..j :
           rlist[m] - rlist[0] = r <=> slist[r] <= m /\ (r < j => m < slist[r + 1])
  BY <1>1 DEF RunsBefore
<1>5. \A r \in 0..j : slist[r] \in Int /\ 0 <= slist[r] /\ slist[r] < i
  <2>1. slist \in [0..j -> 0..(i - 1)] /\ i \in Int
    BY <1>1, <1>3
  <2>2. \A r \in 0..j : slist[r] \in 0..(i - 1)
    BY ONLY <2>1
  <2>3. QED BY ONLY <2>1, <2>2
<1>6. \A m \in 0..(nb - 1) : rlist[m] \in Int
  BY <1>1 DEF RunsBefore, DealtFrom, Ranks
<1>7. rlist[i] - rlist[i - 1] \in {0, 1} /\ rlist[i] \in Int /\ rlist[0] \in Int /\ rlist[i - 1] \in Int
  <2>1. i - 1 \in 0..(nb - 2) /\ (i - 1) + 1 = i
    BY <1>1
  <2>2. rlist[(i - 1) + 1] - rlist[i - 1] \in {0, 1}
    BY <1>1, <2>1 DEF RunsBefore, DealtFrom
  <2>3. i \in 0..(nb - 1) /\ 0 \in 0..(nb - 1) /\ i - 1 \in 0..(nb - 1)
    BY <1>1
  <2>4. QED BY <1>6, <2>1, <2>2, <2>3
<1>8. /\ DealtFrom(0)' /\ (Enough => rlist[0] = 0)'
      /\ totalcost' \in 0..nb' /\ mycost' \in 0..nb' /\ i' \in 1..nb'
  BY <1>1, <1>2 DEF RunsBefore, DealtFrom, Ranks, Enough
<1>9. \A m \in 0..i : m = i \/ m \in 0..(i - 1)
  BY <1>1
<1>10. CASE rlist[i] = rlist[i - 1]
  <2>1. j' = j /\ slist' = slist /\ nlist' = nlist
    BY <1>10 DEF ListBlock
  <2>2. rlist[i] - rlist[0] = j
    BY <1>3, <1>10
  <2>3. \A r \in 0..j : rlist[i] - rlist[0] = r <=> slist[r] <= i /\ (r < j => i < slist[r + 1])
    <3>1. \A r \in 0..j : r < j => r + 1 \in 0..j
      BY <1>3
    <3>2. \A r \in 0..j : slist[r] <= i /\ (r < j => ~(i < slist[r + 1]))
      BY <1>1, <1>5, <3>1
    <3>3. QED BY <1>3, <2>2, <3>2
  <2>4. \A m \in 0..i, r \in 0..j :
          rlist[m] - rlist[0] = r <=> slist[r] <= m /\ (r < j => m < slist[r + 1])
    BY <1>4, <1>9, <2>3
  <2>5. \A m \in 0..i : rlist[m] - rlist[0] \in 0..j
    BY <1>3, <1>9, <2>2
  <2>6. slist \in [0..j -> 0..i]
    BY <1>1, <1>3
  <2>7. i' - 1 = i /\ j = rlist[i' - 1] - rlist[0]
    BY <1>1, <1>2, <2>2
  <2>8. RunsBefore'
    BY <1>2, <1>3, <1>4, <1>8, <2>1, <2>4, <2>5, <2>6, <2>7 DEF RunsBefore
  <2>9. Listing'
    BY <1>1, <1>2, <2>1, <2>8 DEF Listing
  <2>10. QED BY <1>1, <1>2, <2>9 DEF IInv, Blocks, Ranks
<1>11. CASE rlist[i] # rlist[i - 1]
  <2>1. /\ j' = j + 1
        /\ slist' = [r \in 0..(j + 1) |-> IF r = j + 1 THEN i ELSE slist[r]]
        /\ nlist' = [r \in 0..j |-> IF r = j THEN i - slist[j] ELSE nlist[r]]
    BY <1>11 DEF ListBlock
  <2>2. rlist[i] - rlist[0] = j + 1
    BY <1>3, <1>7, <1>11
  <2>3. \A r \in 0..j : slist'[r] = slist[r] /\ r # j + 1 /\ r \in 0..(j + 1)
    BY <1>3, <2>1
  <2>4. slist'[j + 1] = i
    BY <1>3, <2>1
  <2>5. \A r \in 0..(j + 1) : r = j + 1 \/ r \in 0..j
    BY <1>3
  <2>6. slist' \in [0..(j + 1) -> 0..i] /\ slist'[0] = 0
    <3>1. \A r \in 0..(j + 1) : slist'[r] \in 0..i
      BY <1>1, <1>5, <2>3, <2>4, <2>5
    <3>2. slist' \in [0..(j + 1) -> 0..i]
      BY <2>1, <3>1
    <3>3. 0 \in 0..j
      BY <1>3
    <3>4. QED BY <1>3, <2>3, <3>2, <3>3
  <2>7. \A r \in 0..(j + 1) : rlist[slist'[r]] - rlist[0] = r
    BY <1>4, <2>2, <2>3, <2>4, <2>5
  <2>8. \A m \in 0..i, r \in 0..(j + 1) :
          rlist[m] - rlist[0] = r <=> slist'[r] <= m /\ (r < j + 1 => m < slist'[r + 1])
    <3> SUFFICES ASSUME NEW m \in 0..i, NEW r \in 0..(j + 1)
                 PROVE rlist[m] - rlist[0] = r <=> slist'[r] <= m /\ (r < j + 1 => m < slist'[r + 1])
      OBVIOUS
    <3>1. CASE r = j + 1
      <4>1. CASE m = i
        BY <1>1, <1>3, <2>2, <2>4, <3>1, <4>1
      <4>2. CASE m \in 0..(i - 1)
        <5>1. rlist[m] - rlist[0] \in 0..j
          BY <1>3, <4>2
        <5>2. rlist[m] - rlist[0] # r
          BY <1>3, <3>1, <5>1
        <5>3. ~(i <= m) /\ slist'[r] = i
          BY <1>1, <2>4, <3>1, <4>2
        <5>4. QED BY <5>2, <5>3
      <4>3. QED BY <1>9, <4>1, <4>2
    <3>2. CASE r = j
      <4>1. slist'[r] = slist[r] /\ slist[r] \in Int /\ slist[r] < i /\ slist'[r + 1] = i
        BY <1>3, <1>5, <2>3, <2>4, <3>2, SMTT(40)
      <4>2. CASE m = i
        BY <1>1, <1>3, <2>2, <3>2, <4>1, <4>2
      <4>3. CASE m \in 0..(i - 1)
        <5>1. rlist[m] - rlist[0] = j <=> slist[j] <= m
          BY <1>3, <1>4, <4>3
        <5>2. QED BY <1>1, <3>2, <4>1, <4>3, <5>1
      <4>4. QED BY <1>9, <4>2, <4>3
    <3>3. CASE r \in 0..(j - 1)
      <4>1. r \in 0..j /\ r + 1 \in 0..j /\ r < j
        BY <1>3, <3>3
      <4>2. slist'[r] = slist[r] /\ slist'[r + 1] = slist[r + 1]
        BY <2>3, <4>1
      <4>3. CASE m = i
        <5>1. slist[r] \in Int /\ slist[r] < i /\ slist[r + 1] \in Int /\ slist[r + 1] < i
          BY <1>5, <4>1
        <5>2. rlist[m] - rlist[0] # r
          BY <1>3, <2>2, <4>1, <4>3
        <5>3. ~(m < slist'[r + 1]) /\ r < j + 1
          BY <1>1, <1>3, <4>1, <4>2, <4>3, <5>1, SMTT(40)
        <5>4. QED BY <5>2, <5>3
      <4>4. CASE m \in 0..(i - 1)
        BY <1>3, <1>4, <4>1, <4>2, <4>4
      <4>5. QED BY <1>9, <4>3, <4>4
    <3>4. QED BY <1>3, <3>1, <3>2, <3>3
  <2>9. \A m \in 0..i : rlist[m] - rlist[0] \in 0..(j + 1)
    BY <1>3, <1>9, <2>2
  <2>10. i' - 1 = i /\ j + 1 = rlist[i' - 1] - rlist[0] /\ j + 1 \in Nat
    BY <1>1, <1>2, <1>3, <2>2, SMTT(40)
  <2>11. RunsBefore'
    BY <1>2, <1>8, <2>1, <2>6, <2>7, <2>8, <2>9, <2>10 DEF RunsBefore
  <2>12. \A r \in 0..j : nlist'[r] = slist'[r + 1] - slist'[r] /\ nlist'[r] \in 0..nb
    <3>1. \A r \in 0..(j - 1) : nlist[r] = slist[r + 1] - slist[r] /\ nlist[r] \in 0..nb /\ r + 1 \in 0..j
      <4>1. \A r \in 0..(j - 1) : nlist[r] = slist[r + 1] - slist[r] /\ nlist[r] \in 0..nb
        BY <1>1 DEF Listing
      <4>2. \A r \in 0..(j - 1) : r + 1 \in 0..j
        BY <1>3
      <4>3. QED BY <4>1, <4>2
    <3>2. i - slist[j] \in 0..nb
      BY <1>1, <1>3, <1>5, SMTT(40)
    <3>3. QED BY <1>3, <2>1, <2>3, <2>4, <3>1, <3>2
  <2>13. nlist' \in [0..j -> 0..nb] /\ j' - 1 = j
    <3>1. j' - 1 = j
      BY <1>3, <2>1
    <3>2. nlist' \in [0..j -> 0..nb]
      BY <2>1, <2>12
    <3>3. QED BY <3>1, <3>2
  <2>14. Listing'
    BY <1>2, <2>11, <2>12, <2>13 DEF Listing
  <2>15. QED BY <1>1, <1>2, <2>14 DEF IInv, Blocks, Ranks
<1>12. QED BY <1>10, <1>11

\* Closing the last list preserves the invariant
LEMMA FinishIInv == IInv /\ Finish => IInv'
<1> SUFFICES ASSUME IInv, Finish PROVE IInv'
  OBVIOUS
<1>1. Listing /\ RunsBefore /\ nb \in Nat \ {0} /\ nranks \in Nat \ {0} /\ i = nb
  BY DEF IInv, Finish, Listing, RunsBefore
<1>2. rlist' = rlist /\ nb' = nb /\ nranks' = nranks /\ i' = i /\ j' = j /\ slist' = slist
      /\ totalcost' = totalcost /\ mycost' = mycost /\ pc' = "done"
      /\ nlist' = [r \in 0..j |-> IF r = j THEN nb - slist[j] ELSE nlist[r]]
  BY DEF Finish
<1>3. RunsBefore'
  BY <1>1, <1>2 DEF RunsBefore, DealtFrom, Ranks, Enough
<1>4. 0 \in 0..j /\ j \in Int
  BY <1>1 DEF RunsBefore, DealtFrom, Ranks
<1>5. \A r \in 0..j : slist[r] \in 0..(nb - 1)
  BY <1>1 DEF RunsBefore
<1>6. Listed'
  BY <1>1, <1>2, <1>3, <1>4, <1>5 DEF Listed, Listing
<1>7. QED BY <1>1, <1>2, <1>6 DEF IInv, Blocks, Ranks
\* Every step preserves the invariant
LEMMA StepIInv == IInv /\ [Next]_vars => IInv'
<1> SUFFICES ASSUME IInv, [Next]_vars PROVE IInv'
  OBVIOUS
<1>1. CASE AssignBlock
  BY <1>1, AssignIInv
<1>2. CASE StartLists
  BY <1>2, StartIInv
<1>3. CASE ListBlock
  BY <1>3, ListIInv
<1>4. CASE Finish
  BY <1>4, FinishIInv
<1>5. CASE UNCHANGED vars
  <2>1. /\ nb' = nb /\ nranks' = nranks /\ i' = i /\ j' = j
        /\ totalcost' = totalcost /\ mycost' = mycost /\ pc' = pc
        /\ rlist' = rlist /\ slist' = slist /\ nlist' = nlist
    BY <1>5 DEF vars
  <2>2. DealtFrom(0)' = DealtFrom(0) /\ DealtFrom(i + 1)' = DealtFrom(i + 1) /\ Enough' = Enough
    BY <2>1 DEF DealtFrom, Enough, Ranks
  <2>3. Assigning' = Assigning
    BY <2>1, <2>2 DEF Assigning, Ranks
  <2>4. RunsBefore' = RunsBefore
    BY <2>1, <2>2 DEF RunsBefore
  <2>5. Listing' = Listing /\ Listed' = Listed
    BY <2>1, <2>4 DEF Listing, Listed
  <2>6. QED BY <2>1, <2>3, <2>5 DEF IInv, Blocks, Ranks
<1>6. QED BY <1>1, <1>2, <1>3, <1>4, <1>5 DEF Next

\* The loops keep the inductive invariant, for every number of blocks and ranks
THEOREM Invariance == Spec => []IInv
<1>1. QED BY InitIInv, StepIInv, PTL DEF Spec

\* Type correctness: no loop indexes outside its arrays, for any input
THEOREM TypeCorrect == Spec => []TypeOK
<1>1. ASSUME IInv PROVE TypeOK
  <2>1. CASE pc = "assign"
    BY <1>1, <2>1 DEF IInv, TypeOK, Assigning, Ranks, Blocks
  <2>2. CASE pc \in {"list", "done"}
    <3>1. RunsBefore /\ nb \in Nat \ {0} /\ nranks \in Nat \ {0}
      BY <1>1, <2>2 DEF IInv, Listing, Listed
    <3>2. rlist[i - 1] \in 0..(nranks - 1) /\ rlist[0] \in 0..(nranks - 1)
      BY <3>1 DEF RunsBefore, DealtFrom, Ranks
    <3>3. j \in Ranks /\ i \in -1..nb /\ totalcost \in 0..nb /\ mycost \in 0..nb
      BY <3>1, <3>2 DEF RunsBefore, Ranks
    <3>4. DOMAIN slist = 0..j /\ \A r \in DOMAIN slist : slist[r] \in Blocks
      BY <3>1 DEF RunsBefore, Blocks
    <3>5. DOMAIN nlist \in {0..(j - 1), 0..j} /\ \A r \in DOMAIN nlist : nlist[r] \in 0..nb
      BY <1>1, <2>2 DEF IInv, Listing, Listed
    <3>6. QED BY <1>1, <3>1, <3>3, <3>4, <3>5 DEF IInv, TypeOK
  <2>3. QED BY <1>1, <2>1, <2>2 DEF IInv
<1>2. QED BY <1>1, Invariance, PTL

\* With at least one block per rank, every rank gets a run of blocks and the
\* rank list, the starts and the lengths describe the same distribution
THEOREM DistributionAgrees == Spec => []ListsAgree
<1>1. ASSUME IInv PROVE ListsAgree
  <2> SUFFICES ASSUME pc = "done", nb >= nranks
               PROVE /\ DOMAIN slist = Ranks /\ DOMAIN nlist = Ranks
                     /\ \A r \in Ranks :
                          /\ nlist[r] >= 1
                          /\ {m \in Blocks : rlist[m] = r} = slist[r]..(slist[r] + nlist[r] - 1)
    BY DEF ListsAgree
  <2>1. Listed /\ RunsBefore /\ i = nb /\ nb \in Nat \ {0} /\ nranks \in Nat \ {0}
    BY <1>1 DEF IInv, Listed
  <2>2. rlist[0] = 0 /\ rlist[nb - 1] = nranks - 1 /\ j = nranks - 1
    BY <2>1 DEF RunsBefore, DealtFrom, Enough
  <2>3. slist \in [Ranks -> Blocks] /\ DOMAIN nlist = Ranks
    BY <2>1, <2>2 DEF RunsBefore, Listed, Ranks, Blocks
  <2>4. ASSUME NEW r \in Ranks
        PROVE  /\ nlist[r] >= 1
               /\ {m \in Blocks : rlist[m] = r} = slist[r]..(slist[r] + nlist[r] - 1)
    <3>1. r \in 0..j /\ slist[r] \in 0..(nb - 1) /\ r \in Nat
      BY <2>1, <2>2, <2>3 DEF Ranks, Blocks
    <3>2. rlist[slist[r]] - rlist[0] = r
      BY <2>1, <3>1 DEF RunsBefore
    <3>3. \A m \in Blocks : rlist[m] - rlist[0] = r <=> slist[r] <= m /\ (r < j => m < slist[r + 1])
      BY <2>1, <3>1 DEF RunsBefore, Blocks
    <3>4. nlist[r] = (IF r = j THEN nb ELSE slist[r + 1]) - slist[r]
      BY <2>1, <3>1 DEF Listed
    <3>5. r < j => slist[r + 1] \in Blocks /\ slist[r] < slist[r + 1]
      BY <2>2, <2>3, <3>1, <3>2, <3>3 DEF Ranks, Blocks
    <3>6. \A m \in Blocks : rlist[m] \in Int
      <4>1. \A m \in 0..(nb - 1) : rlist[m] \in 0..(nranks - 1)
        BY <2>1 DEF RunsBefore, DealtFrom, Ranks
      <4>2. QED BY <4>1 DEF Blocks
    <3>7. \A m \in Blocks : rlist[m] = r <=> slist[r] <= m /\ (r < j => m < slist[r + 1])
      BY <2>2, <3>1, <3>3, <3>6
    <3>8. CASE r = j
      <4>1. slist[r] + nlist[r] - 1 = nb - 1 /\ nlist[r] >= 1
        BY <2>1, <3>1, <3>4, <3>8
      <4>2. QED BY <2>1, <3>1, <3>7, <3>8, <4>1 DEF Blocks
    <3>9. CASE r < j
      <4>1. slist[r] + nlist[r] - 1 = slist[r + 1] - 1 /\ nlist[r] >= 1
        BY <2>1, <2>2, <3>1, <3>4, <3>5, <3>9 DEF Blocks
      <4>2. slist[r + 1] \in 0..(nb - 1)
        BY <3>5, <3>9 DEF Blocks
      <4>3. QED BY <2>1, <3>1, <3>7, <3>9, <4>1, <4>2 DEF Blocks
    <3>10. QED BY <2>1, <2>2, <3>1, <3>8, <3>9
  <2>5. QED BY <2>3, <2>4
<1>2. QED BY <1>1, Invariance, PTL

-----------------------------------------------------------------------------
\* The blocks of rank r, and how many they are
Owned(r) == {m \in Blocks : rlist[m] = r}
Load(r) == Cardinality(Owned(r))

\* The ranks of R have e or e + 1 blocks each, the higher ones the larger share
Even(R, e) ==
  /\ \A r \in R : Load(r) \in {e, e + 1}
  /\ \A r, q \in R : r < q => Load(q) - Load(r) \in {0, 1}

\* The first loop: e is the share of blocks per rank, rounded down. What is left keeps
\* to it, and once a rank has got no more than e nothing is left over
EvenSoFar(e) ==
  /\ \A m \in 0..i : rlist[m] = Unset
  /\ Load(j) = mycost
  /\ \A r \in Ranks : r < j => Load(r) = 0
  /\ Even((j + 1)..(nranks - 1), e)
  /\ e * (j + 1) <= totalcost /\ totalcost <= (e + 1) * (j + 1)
  /\ \A r \in (j + 1)..(nranks - 1) : Load(r) = e => totalcost = e * (j + 1)

Shares(e) ==
  /\ pc = "assign" => EvenSoFar(e)
  /\ pc # "assign" /\ Enough => Even(Ranks, e)

\* Products are monotonic
LEMMA Monotonic ==
  ASSUME NEW a \in Nat, NEW b \in Nat, NEW c \in Nat, a <= b
  PROVE  a * c <= b * c
<1>1. PICK d \in Nat : b = a + d
  <2>1. b - a \in Nat /\ b = a + (b - a)
    OBVIOUS
  <2>2. QED BY <2>1
<1>2. b * c = a * c + d * c /\ d * c \in Nat /\ a * c \in Nat
  BY <1>1
<1>3. QED BY <1>2

\* A set of natural numbers has a least element
LEMMA Least ==
  ASSUME NEW S, S \subseteq Nat, S # {}
  PROVE  \E m \in S : \A k \in S : m <= k
<1>1. PICK m \in S : \A k \in S : ~(<<k, m>> \in OpToRel(<, Nat))
  <2> DEFINE R == OpToRel(<, Nat)
  <2>1. IsWellFoundedOn(R, Nat)
    BY NatLessThanWellFounded
  <2> HIDE DEF R
  <2>2. \E m \in S : \A k \in S : ~(<<k, m>> \in R)
    BY <2>1, WFMin
  <2> QED
    BY <2>2 DEF R
<1>2. \A k \in S : ~(k < m)
  BY <1>1 DEF OpToRel
<1>3. QED BY <1>2

\* Every number of blocks has a share per rank
LEMMA Quotient ==
  ASSUME NEW n \in Nat, NEW k \in Nat \ {0}
  PROVE  \E e \in Nat : e * k <= n /\ n <= (e + 1) * k
<1> DEFINE S == {x \in Nat : n <= (x + 1) * k}
<1>1. n \in S
  <2>1. (n + 1) * 1 <= (n + 1) * k
    <3>1. PICK d \in Nat : k = 1 + d
      <4>1. k - 1 \in Nat /\ k = 1 + (k - 1)
        OBVIOUS
      <4>2. QED BY <4>1
    <3>2. (n + 1) * k = (n + 1) + (n + 1) * d /\ (n + 1) * d \in Nat
      BY <3>1
    <3>3. QED BY <3>2
  <2>2. (n + 1) * k \in Nat
    OBVIOUS
  <2>3. QED BY <2>1, <2>2
<1>2. PICK e \in S : \A x \in S : e <= x
  BY <1>1, Least
<1>3. CASE e = 0
  BY <1>2, <1>3
<1>4. CASE e # 0
  <2>1. e - 1 \in Nat /\ e - 1 \notin S
    BY <1>2, <1>4
  <2>2. ~(n <= e * k) /\ e * k \in Nat
    BY <2>1
  <2>3. QED BY <1>2, <2>2
<1>5. QED BY <1>3, <1>4

\* A rank that is full when J ranks have T blocks to share, has T \div J, or one more when
\* they do not share evenly, and leaves the others in the same situation
LEMMA EvenShare ==
  ASSUME NEW M \in Nat, NEW J \in Nat, NEW T \in Nat, NEW e \in Nat,
         J >= 2, T >= 1, e * J <= T, T <= (e + 1) * J,
         M = 0 \/ M * J < T, (M + 1) * J >= T
  PROVE  \/ M + 1 = e /\ T = e * J /\ T - (M + 1) = e * (J - 1)
         \/ /\ M = e /\ T # e * J
            /\ e * (J - 1) <= T - (M + 1) /\ T - (M + 1) <= (e + 1) * (J - 1)
<1>1. M <= e
  <2>1. CASE M = 0
    BY <2>1
  <2>2. CASE M # 0
    <3>1. SUFFICES ASSUME e + 1 <= M PROVE FALSE
      OBVIOUS
    <3>2. (e + 1) * J <= M * J
      BY <3>1, Monotonic
    <3>3. M * J \in Int /\ (e + 1) * J \in Int
      OBVIOUS
    <3>4. QED BY <2>2, <3>2, <3>3
  <2>3. QED BY <2>1, <2>2
<1>2. e * (J - 1) = e * J - e /\ (e + 1) * (J - 1) = (e + 1) * J - e - 1 /\ e * J \in Nat /\ (e + 1) * J \in Nat
  OBVIOUS
<1>3. M + 1 >= e
  <2>1. SUFFICES ASSUME M + 2 <= e PROVE FALSE
    BY <1>1
  <2>2. (M + 2) * J <= e * J /\ (M + 2) * J = (M + 1) * J + J /\ (M + 1) * J \in Nat
    BY <2>1, Monotonic
  <2>3. QED BY <1>2, <2>2
<1>4. CASE M + 1 = e
  BY <1>2, <1>4
<1>5. CASE M = e
  <2>1. T # e * J
    BY <1>5
  <2>2. QED BY <1>2, <1>5, <2>1
<1>6. QED BY <1>1, <1>3, <1>4, <1>5

\* Dealing a block to rank q adds it to that rank and to no other
LEMMA DealtLoad ==
  ASSUME nb \in Nat, NEW b \in Blocks, NEW q \in Ranks, rlist \in [Blocks -> Ranks \cup {Unset}],
         rlist[b] = Unset, nb' = nb, rlist' = [rlist EXCEPT ![b] = q]
  PROVE  /\ Load(q)' = Load(q) + 1 /\ Load(q) \in Nat
         /\ \A r \in Ranks \ {q} : Load(r)' = Load(r)
<1>1. IsFiniteSet(Owned(q))
  <2>1. IsFiniteSet(Blocks) /\ Owned(q) \subseteq Blocks
    BY FS_Interval DEF Blocks, Owned
  <2>2. QED BY <2>1, FS_Subset
<1>2. b \notin Owned(q) /\ q # Unset
  BY DEF Owned, Ranks, Unset
<1>3. Blocks' = Blocks /\ \A m \in Blocks : rlist'[m] = IF m = b THEN q ELSE rlist[m]
  BY DEF Blocks
<1>4. Owned(q)' = Owned(q) \cup {b}
  BY <1>3 DEF Owned
<1>5. \A r \in Ranks \ {q} : Owned(r)' = Owned(r)
  BY <1>3 DEF Owned, Ranks, Unset
<1>6. Cardinality(Owned(q) \cup {b}) = Cardinality(Owned(q)) + 1 /\ Cardinality(Owned(q)) \in Nat
  BY <1>1, <1>2, FS_AddElement, FS_CardinalityType
<1>7. QED BY <1>4, <1>5, <1>6 DEF Load

\* At first no rank has a block, and the share is the quotient of blocks and ranks
LEMMA InitShares == Init => \E e \in Nat : Shares(e)
<1> SUFFICES ASSUME Init PROVE \E e \in Nat : Shares(e)
  OBVIOUS
<1>1. nb \in Nat \ {0} /\ nranks \in Nat \ {0} /\ i = nb - 1 /\ j = nranks - 1 /\ totalcost = nb /\ mycost = 0
      /\ rlist = [m \in Blocks |-> Unset] /\ pc = "assign"
  BY InputsAssumption DEF Init
<1>2. PICK e \in Nat : e * nranks <= nb /\ nb <= (e + 1) * nranks
  BY <1>1, Quotient
<1>3. \A r \in Ranks : Load(r) = 0
  <2>1. \A r \in Ranks : Owned(r) = {}
    BY <1>1 DEF Owned, Ranks, Unset
  <2>2. QED BY <2>1, FS_EmptySet DEF Load
<1>4. j \in Ranks /\ (j + 1)..(nranks - 1) = {} /\ j + 1 = nranks
  BY <1>1 DEF Ranks
<1>5. EvenSoFar(e)
  BY <1>1, <1>2, <1>3, <1>4 DEF EvenSoFar, Even, Blocks
<1>6. QED BY <1>1, <1>5 DEF Shares

\* Dealing a block keeps the ranks dealt with so far even
LEMMA AssignShares ==
  ASSUME IInv, NEW e \in Nat, Shares(e), AssignBlock
  PROVE  Shares(e)'
<1>1. /\ Assigning /\ EvenSoFar(e) /\ nb \in Nat \ {0} /\ nranks \in Nat \ {0} /\ i >= 0
      /\ rlist \in [Blocks -> Ranks \cup {Unset}]
  BY DEF IInv, AssignBlock, Shares
<1>2. PICK k, b : k = j /\ b = i
  OBVIOUS
<1>3. /\ k \in Ranks /\ k \in Nat /\ k < nranks /\ b \in Blocks /\ b \in Nat
      /\ mycost \in Nat /\ totalcost \in Nat /\ totalcost >= 1
      /\ k > 0 => mycost = 0 \/ mycost * (k + 1) < totalcost
  BY <1>1, <1>2 DEF Assigning, Blocks, Ranks
<1>4. /\ rlist' = [rlist EXCEPT ![b] = k] /\ i' = b - 1 /\ nb' = nb /\ nranks' = nranks /\ pc' = "assign"
      /\ pc = "assign"
  BY <1>2, <1>3 DEF AssignBlock
<1>5. rlist[b] = Unset
  BY <1>1, <1>2, <1>3 DEF EvenSoFar
<1>6. Load(k)' = mycost + 1 /\ \A r \in Ranks \ {k} : Load(r)' = Load(r)
  BY <1>1, <1>2, <1>3, <1>4, <1>5, DealtLoad DEF EvenSoFar
<1>7. \A m \in 0..(b - 1) : rlist'[m] = Unset
  BY <1>1, <1>2, <1>3, <1>4 DEF EvenSoFar, Blocks
<1>8. \A r \in Ranks : r < k => Load(r)' = 0
  BY <1>1, <1>2, <1>3, <1>6 DEF EvenSoFar, Ranks
<1>9. /\ \A r \in (k + 1)..(nranks - 1) :
           /\ Load(r)' \in {e, e + 1}
           /\ Load(r)' = e => totalcost = e * (k + 1)
      /\ \A r, q \in (k + 1)..(nranks - 1) : r < q => Load(q)' - Load(r)' \in {0, 1}
  <2>1. \A r \in (k + 1)..(nranks - 1) : Load(r)' = Load(r)
    BY <1>1, <1>3, <1>6 DEF Ranks
  <2>2. QED BY <1>1, <1>2, <2>1 DEF EvenSoFar, Even
<1>10. e * (k + 1) <= totalcost /\ totalcost <= (e + 1) * (k + 1)
  BY <1>1, <1>2 DEF EvenSoFar
<1>11. CASE Full(mycost + 1)
  <2>1. j' = k - 1 /\ totalcost' = totalcost - (mycost + 1) /\ mycost' = 0 /\ k > 0
        /\ (mycost + 1) * (k + 1) >= totalcost
    BY <1>2, <1>3, <1>11 DEF AssignBlock, Full
  <2>2. \/ mycost + 1 = e /\ totalcost = e * (k + 1) /\ totalcost' = e * k
        \/ /\ mycost = e /\ totalcost # e * (k + 1)
           /\ e * k <= totalcost' /\ totalcost' <= (e + 1) * k
    <3>1. k + 1 \in Nat /\ k + 1 >= 2 /\ (k + 1) - 1 = k
      BY <1>3, <2>1
    <3>2. QED BY <1>3, <1>10, <2>1, <3>1, EvenShare
  <2>3. \A r \in k..(nranks - 1) : r = k \/ r \in (k + 1)..(nranks - 1)
    BY <1>1, <1>3
  <2>4. \A r \in k..(nranks - 1) : Load(r)' \in {e, e + 1} /\ (Load(r)' = e => totalcost' = e * k)
    <3> SUFFICES ASSUME NEW r \in k..(nranks - 1)
                 PROVE  Load(r)' \in {e, e + 1} /\ (Load(r)' = e => totalcost' = e * k)
      OBVIOUS
    <3>1. CASE r = k
      <4>1. Load(r)' = mycost + 1 /\ mycost \in Nat
        BY <1>3, <1>6, <3>1
      <4>2. CASE mycost + 1 = e /\ totalcost' = e * k
        BY <4>1, <4>2
      <4>3. CASE mycost = e
        BY <4>1, <4>3
      <4>4. QED BY <2>2, <4>2, <4>3
    <3>2. CASE r \in (k + 1)..(nranks - 1)
      <4>1. Load(r)' \in {e, e + 1} /\ (Load(r)' = e => totalcost = e * (k + 1))
        BY <1>9, <3>2
      <4>2. totalcost = e * (k + 1) => totalcost' = e * k
        BY <2>2
      <4>3. QED BY <4>1, <4>2
    <3>3. QED BY <2>3, <3>1, <3>2
  <2>5. \A r, q \in k..(nranks - 1) : r < q => Load(q)' - Load(r)' \in {0, 1}
    <3> SUFFICES ASSUME NEW r \in k..(nranks - 1), NEW q \in k..(nranks - 1), r < q
                 PROVE  Load(q)' - Load(r)' \in {0, 1}
      OBVIOUS
    <3>1. q \in (k + 1)..(nranks - 1)
      BY <1>1, <1>3
    <3>2. CASE r = k
      <4>1. Load(r)' = mycost + 1 /\ mycost \in Nat
        BY <1>3, <1>6, <3>2
      <4>2. Load(q)' \in {e, e + 1} /\ (Load(q)' = e => totalcost = e * (k + 1))
        BY <1>9, <3>1
      <4>3. CASE mycost + 1 = e
        BY <4>1, <4>2, <4>3
      <4>4. CASE mycost = e /\ totalcost # e * (k + 1)
        <5>1. Load(q)' = e + 1
          BY <4>2, <4>4
        <5>2. QED BY <4>1, <4>4, <5>1
      <4>5. QED BY <2>2, <4>3, <4>4
    <3>3. CASE r # k
      BY <1>9, <2>3, <3>1, <3>3
    <3>4. QED BY <3>2, <3>3
  <2>6. k - 1 \in Ranks /\ k - 1 + 1 = k
    BY <1>1, <1>3, <2>1 DEF Ranks
  <2>7. EvenSoFar(e)'
    BY <1>1, <1>3, <1>4, <1>7, <1>8, <2>1, <2>2, <2>4, <2>5, <2>6 DEF EvenSoFar, Even, Ranks
  <2>8. QED BY <1>4, <2>7 DEF Shares
<1>12. CASE ~Full(mycost + 1)
  <2>1. j' = k /\ totalcost' = totalcost /\ mycost' = mycost + 1
    BY <1>2, <1>3, <1>12 DEF AssignBlock
  <2>2. EvenSoFar(e)'
    <3>1. /\ \A m \in 0..i' : rlist'[m] = Unset
          /\ Load(j)' = mycost'
          /\ \A r \in Ranks : r < j' => Load(r)' = 0
      BY <1>4, <1>6, <1>7, <1>8, <2>1 DEF Load, Owned
    <3>2. /\ e * (j' + 1) <= totalcost' /\ totalcost' <= (e + 1) * (j' + 1)
          /\ \A r \in (j' + 1)..(nranks - 1) : Load(r)' = e => totalcost' = e * (j' + 1)
      BY <1>9, <1>10, <2>1
    <3>3. Even((j + 1)..(nranks - 1), e)'
      BY <1>4, <1>9, <2>1 DEF Even
    <3>4. Ranks' = Ranks
      BY <1>4 DEF Ranks
    <3>5. QED BY <1>4, <3>1, <3>2, <3>3, <3>4 DEF EvenSoFar
  <2>3. QED BY <1>4, <2>2 DEF Shares
<1>13. QED BY <1>11, <1>12

\* The last rank filled is rank 0, so with enough blocks all ranks have their share
LEMMA StartShares ==
  ASSUME IInv, NEW e \in Nat, Shares(e), StartLists
  PROVE  Shares(e)'
<1>1. Assigning /\ EvenSoFar(e) /\ nb \in Nat \ {0} /\ nranks \in Nat \ {0} /\ i = -1
  BY DEF IInv, StartLists, Assigning, Shares
<1>2. rlist' = rlist /\ nb' = nb /\ nranks' = nranks /\ pc' = "list"
  BY DEF StartLists
<1> SUFFICES ASSUME Enough PROVE Even(Ranks, e)'
  BY <1>2 DEF Shares, Enough
<1>3. j = 0 /\ totalcost = mycost /\ mycost \in Nat
  <2>1. mycost \in Nat /\ j \in Nat /\ mycost >= j + 1 /\ totalcost = mycost
        /\ (j > 0 => mycost = 0 \/ mycost * (j + 1) < mycost)
    BY <1>1 DEF Assigning, Ranks
  <2>2. QED BY <2>1, LastRankIsZero
<1>4. /\ Load(0) = mycost /\ e <= mycost /\ mycost <= e + 1
      /\ \A r \in 1..(nranks - 1) : Load(r) \in {e, e + 1} /\ (Load(r) = e => mycost = e)
      /\ \A r, q \in 1..(nranks - 1) : r < q => Load(q) - Load(r) \in {0, 1}
  BY <1>1, <1>3 DEF EvenSoFar, Even
<1>5. \A r \in Ranks : r = 0 \/ r \in 1..(nranks - 1)
  BY <1>1 DEF Ranks
<1>6. \A r \in Ranks : Load(r) \in {e, e + 1}
  BY <1>3, <1>4, <1>5
<1>7. \A r, q \in Ranks : r < q => Load(q) - Load(r) \in {0, 1}
  <2> SUFFICES ASSUME NEW r \in Ranks, NEW q \in Ranks, r < q PROVE Load(q) - Load(r) \in {0, 1}
    OBVIOUS
  <2>1. q \in 1..(nranks - 1)
    BY <1>5 DEF Ranks
  <2>2. QED BY <1>3, <1>4, <1>5, <2>1
<1>8. Ranks' = Ranks /\ \A r \in Ranks : Load(r)' = Load(r)
  BY <1>2 DEF Ranks, Blocks, Load, Owned
<1>9. QED BY <1>6, <1>7, <1>8 DEF Even

\* No other step disturbs the shares
LEMMA StepShares ==
  ASSUME IInv, [Next]_vars, NEW e \in Nat, Shares(e)
  PROVE  Shares(e)'
<1>1. CASE AssignBlock
  BY <1>1, AssignShares
<1>2. CASE StartLists
  BY <1>2, StartShares
<1>3. CASE ListBlock \/ Finish
  <2>1. rlist' = rlist /\ nb' = nb /\ nranks' = nranks /\ pc # "assign" /\ pc' # "assign"
    BY <1>3 DEF ListBlock, Finish
  <2>2. Ranks' = Ranks /\ \A r : Load(r)' = Load(r)
    BY <2>1 DEF Ranks, Blocks, Load, Owned
  <2>3. QED BY <2>1, <2>2 DEF Shares, Even, Enough
<1>4. CASE UNCHANGED vars
  <2>1. /\ nb' = nb /\ nranks' = nranks /\ i' = i /\ j' = j
        /\ totalcost' = totalcost /\ mycost' = mycost /\ pc' = pc /\ rlist' = rlist
    BY <1>4 DEF vars
  <2>2. Ranks' = Ranks /\ \A r : Load(r)' = Load(r)
    BY <2>1 DEF Ranks, Blocks, Load, Owned
  <2>3. QED BY <2>1, <2>2 DEF Shares, Even, EvenSoFar, Enough
<1>5. QED BY <1>1, <1>2, <1>3, <1>4 DEF Next

\* The load is even for every number of blocks and ranks: with at least one block per
\* rank, a rank has as many blocks as any rank below it or one more
THEOREM LoadIsEven == Spec => []EvenLoad
<1> DEFINE Inv == IInv /\ \E e \in Nat : Shares(e)
<1>1. Init => Inv
  BY InitIInv, InitShares
<1>2. Inv /\ [Next]_vars => Inv'
  BY StepIInv, StepShares
<1>3. Inv => EvenLoad
  BY DEF Shares, Even, EvenLoad, Load, Owned, Enough
<1>4. QED BY <1>1, <1>2, <1>3, PTL DEF Spec
=============================================================================
