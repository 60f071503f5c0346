---------------------------- MODULE AMRRedistProofs ----------------------------
(***************************************************************************)
(* For every number of ranks, distribution of the blocks and change of the *)
(* tree: the messages of AMRRedist match, and every block ends up with its *)
(* data.                                                                   *)
(***************************************************************************)
EXTENDS AMRRedist, FiniteSetTheorems, WellFoundedInduction, TLAPS

Old == DOMAIN oldrank
New == DOMAIN newrank

\* The maps between the gids.  A block that stays is paired with itself; a refined
\* one with its leaves in their order, a new block with its leaves that are given
\* up in theirs.  The order of blocks is kept.
Paired ==
  /\ \A k \in Old : LET m == oldtonew[k] IN
       /\ flag[k] = 0 => newtoold[m] = k
       /\ flag[k] = 1 => \A l \in Oct : m + l \in New /\ newtoold[m + l] = k
       /\ flag[k] = -nleaf => OldOct(k) \in Oct /\ flag[newtoold[m]] = -nleaf
  /\ \A m \in New : LET k == newtoold[m] IN
       /\ flag[k] = 0 => oldtonew[k] = m
       /\ flag[k] = 1 => NewOct(m) \in Oct
       /\ flag[k] = -nleaf =>
            \A l \in Oct : k + l \in Old /\ flag[k + l] = -nleaf /\ oldtonew[k + l] = m
  /\ \A j, k \in Old : j <= k => oldtonew[j] <= oldtonew[k]
Maps ==
  /\ \E a, b \in Nat \ {0} :
       /\ flag \in [0..(a - 1) -> {-nleaf, 0, 1}]
       /\ oldtonew \in [0..(a - 1) -> 0..(b - 1)]
       /\ newtoold \in [0..(b - 1) -> 0..(a - 1)]
       /\ oldrank \in [0..(a - 1) -> Ranks]
       /\ newrank \in [0..(b - 1) -> Ranks]
  /\ Paired

Phases == {"InitRecv", "PackAndSend", "Derefine", "Copy", "CopyForRefinement",
           "ClearSend", "ClearRecv", "Refine", "done"}
TypeOK ==
  /\ pc \in [Ranks -> Phases]
  /\ DOMAIN fine = Ranks /\ \A r \in Ranks : DOMAIN fine[r] = Slots
  /\ DOMAIN coarse = Ranks /\ \A r \in Ranks : DOMAIN coarse[r] = Slots
  /\ DOMAIN recvs = Ranks /\ DOMAIN sends = Ranks
  /\ copied \in [Ranks -> SUBSET Old]

\* The arrays at first, and the fine one after derefinement
FineAtFirst(r) ==
  [i \in Slots |-> [o \in Oct |-> IF Held(r, i) THEN Data(i + ombs(r), o) ELSE Junk]]
CoarseAtFirst(r) ==
  [i \in Slots |-> IF Held(r, i) THEN Restricted(i + ombs(r)) ELSE Junk]
Gathered(r) ==
  [i \in Slots |->
     LET k == i + ombs(r)
     IN  IF k \in OldOn(r) /\ Gathers(r, k)
         THEN [o \in Oct |-> IF k + o \in OldOn(r) THEN CoarseAtFirst(r)[i + o]
                             ELSE FineAtFirst(r)[i][o]]
         ELSE FineAtFirst(r)[i]]

\* The old block from which octant o of new block m comes as a message, if it does,
\* and what it brings
Source(m, o) == IF flag[newtoold[m]] < 0 THEN newtoold[m] + o ELSE newtoold[m]
Payload(m) ==
  LET k == newtoold[m] IN
  IF flag[k] = 0 THEN [o \in Oct |-> Data(k, o)] ELSE Data(k, NewOct(m))
Travels(m, o) ==
  LET k == newtoold[m] IN
  CASE flag[k] < 0 -> oldrank[k] # newrank[m] \/ oldrank[k + o] # newrank[m]
    [] flag[k] = 0 -> o = 0 /\ oldrank[k] # newrank[m]
    [] flag[k] > 0 -> o = 0 /\ (newrank[oldtonew[k]] # newrank[m] \/ oldrank[k] # newrank[m])
RecvOf(m, o) == [from |-> oldrank[Source(m, o)], lid |-> m - nmbs(newrank[m]), oct |-> o]
SendOf(m, o) ==
  [to |-> newrank[m], lid |-> m - nmbs(newrank[m]), oct |-> o,
   data |-> IF flag[newtoold[m]] < 0 THEN Restricted(newtoold[m] + o) ELSE Payload(m)]
Expected(r) ==
  UNION {{RecvOf(m, o) : o \in {q \in Oct : Travels(m, q)}} : m \in NewOn(r)}
Posts(r) ==
  UNION {{SendOf(m, o) : o \in {q \in Oct : Travels(m, q) /\ oldrank[Source(m, q)] = r}} : m \in New}

Messages(r) ==
  /\ recvs[r] = IF pc[r] = "InitRecv" THEN {} ELSE Expected(r)
  /\ sends[r] = IF Posted(r) THEN Posts(r) ELSE {}

\* Until they are used, the arrays are as they were
Untouched(r) ==
  /\ pc[r] \in {"InitRecv", "PackAndSend", "Derefine"} => fine[r] = FineAtFirst(r) /\ copied[r] = {}
  /\ pc[r] \in {"InitRecv", "PackAndSend", "Derefine", "Copy", "CopyForRefinement"} =>
       coarse[r] = CoarseAtFirst(r)

\* The blocks whose copy counts: those that stay on the rank, of a group the first
Kept(r) ==
  {k \in OldOn(r) : newrank[oldtonew[k]] = r /\ newtoold[oldtonew[k]] = k}
From(r, k) == k - ombs(r)
To(r, k) == oldtonew[k] - nmbs(r)
\* What has been copied when k has
InOrder(r) ==
  \A k \in copied[r] :
    /\ MovesLeft(r, k) \/ MovesRight(r, k)
    /\ \A j \in OldOn(r) : MovesLeft(r, j) /\ (j < k \/ ~MovesLeft(r, k)) => j \in copied[r]
    /\ \A j \in OldOn(r) : MovesRight(r, j) /\ ~MovesLeft(r, k) /\ j > k => j \in copied[r]
\* A block that has been copied is where it goes to, another still where it was
InPlace(r, k) ==
  fine[r][IF k \in copied[r] THEN To(r, k) ELSE From(r, k)] = Gathered(r)[From(r, k)]
Copying(r) == pc[r] = "Copy" => InOrder(r) /\ \A k \in Kept(r) : InPlace(r, k)
Moved(r) ==
  pc[r] \in {"CopyForRefinement", "ClearSend", "ClearRecv"} =>
    \A k \in Kept(r) : fine[r][To(r, k)] = Gathered(r)[From(r, k)]

\* The data to be prolonged, and before all that the messages have not brought, are
\* in the coarse array
Octants(r) ==
  pc[r] \in {"ClearSend", "ClearRecv"} =>
    \A m \in NewOn(r) :
      flag[newtoold[m]] = 1 /\ ~Travels(m, 0) =>
        coarse[r][m - nmbs(r)] = Data(newtoold[m], NewOct(m))
Unpacked(r) ==
  pc[r] = "Refine" =>
    \A m \in NewOn(r) : LET k == newtoold[m] IN
      /\ flag[k] = 0 => \A o \in Oct : fine[r][m - nmbs(r)][o] = Data(k, o)
      /\ flag[k] = -nleaf => \A o \in Oct : fine[r][m - nmbs(r)][o] = Restricted(k + o)
      /\ flag[k] = 1 => coarse[r][m - nmbs(r)] = Data(k, NewOct(m))
Finished(r) ==
  pc[r] = "done" =>
    \A m \in NewOn(r), o \in Oct : LET k == newtoold[m] IN
      /\ flag[k] = 0 => fine[r][m - nmbs(r)][o] = Data(k, o)
      /\ flag[k] = -nleaf => fine[r][m - nmbs(r)][o] = Restricted(k + o)
      /\ flag[k] = 1 => fine[r][m - nmbs(r)][o] = Prolonged(Data(k, NewOct(m)), o)

RankInv(r) ==
  /\ Messages(r)
  /\ Untouched(r)
  /\ Copying(r)
  /\ Moved(r)
  /\ Octants(r)
  /\ Unpacked(r)
  /\ Finished(r)
IInv == Maps /\ TypeOK /\ \A r \in Ranks : RankInv(r)

-----------------------------------------------------------------------------
\* A set of natural numbers has a least element, and Min is it
LEMMA MinIs ==
  ASSUME NEW S, S \subseteq Nat, S # {}
  PROVE  Min(S) \in S /\ \A k \in S : Min(S) <= k
<1>1. PICK m \in S : \A k \in S : ~(<<k, m>> \in OpToRel(<, Nat))
  <2> DEFINE R == OpToRel(<, Nat)
  <2>1. IsWellFoundedOn(R, Nat)
    BY NatLessThanWellFounded
  <2> HIDE DEF R
  <2>2. \E m \in S : \A k \in S : ~(<<k, m>> \in R)
    BY <2>1, WFMin
  <2> QED
    BY <2>2 DEF R
<1>2. \A k \in S : ~(k < m)
  BY <1>1 DEF OpToRel
<1>3. \A k \in S : m =< k
  BY <1>2
<1> QED
  BY <1>3 DEF Min

\* How families follow each other among the blocks
LEMMA StartIs ==
  ASSUME NEW plan \in Plans, NEW kind
  PROVE  /\ Start(plan, kind, 1) = 0
         /\ \A g \in 1..(Len(plan) + 1) : Start(plan, kind, g) \in Nat
         /\ \A g \in DOMAIN plan :
              Start(plan, kind, g + 1) =
                Start(plan, kind, g) + (IF plan[g] = kind THEN nleaf ELSE 1)
         /\ \A g, h \in 1..(Len(plan) + 1) : g <= h => Start(plan, kind, g) <= Start(plan, kind, h)
<1> DEFINE Of(g) == {h \in 1..(g - 1) : plan[h] = kind}
           N == Len(plan)
<1>1. N \in Nat /\ DOMAIN plan = 1..N
  BY RedistAssumption
<1>2. \A g \in 1..(N + 1) : IsFiniteSet(Of(g)) /\ Cardinality(Of(g)) \in Nat
  <2> SUFFICES ASSUME NEW g \in 1..(N + 1)
               PROVE  IsFiniteSet(Of(g)) /\ Cardinality(Of(g)) \in Nat
    OBVIOUS
  <2>1. IsFiniteSet(1..(g - 1))
    BY <1>1, FS_Interval
  <2>2. Of(g) \subseteq 1..(g - 1)
    OBVIOUS
  <2>3. IsFiniteSet(Of(g))
    BY <2>1, <2>2, FS_Subset
  <2> QED
    BY <2>3, FS_CardinalityType
<1>3. \A g \in 1..N : Cardinality(Of(g + 1)) = Cardinality(Of(g)) + (IF plan[g] = kind THEN 1 ELSE 0)
  <2> SUFFICES ASSUME NEW g \in 1..N
               PROVE  Cardinality(Of(g + 1)) = Cardinality(Of(g)) + (IF plan[g] = kind THEN 1 ELSE 0)
    OBVIOUS
  <2>1. g \in 1..(N + 1) /\ g \notin Of(g)
    BY <1>1
  <2>2. Of(g + 1) = IF plan[g] = kind THEN Of(g) \cup {g} ELSE Of(g)
    BY <1>1
  <2>3. IsFiniteSet(Of(g)) /\ Cardinality(Of(g)) \in Nat
    BY <1>2, <2>1
  <2> HIDE DEF Of
  <2>4. Cardinality(Of(g) \cup {g}) = Cardinality(Of(g)) + 1
    BY <2>1, <2>3, FS_AddElement
  <2> QED
    BY <2>2, <2>3, <2>4
<1>4. \A g, h \in 1..(N + 1) : g <= h => Cardinality(Of(g)) <= Cardinality(Of(h))
  <2> SUFFICES ASSUME NEW g \in 1..(N + 1), NEW h \in 1..(N + 1), g <= h
               PROVE  Cardinality(Of(g)) <= Cardinality(Of(h))
    OBVIOUS
  <2>1. Of(g) \subseteq Of(h)
    BY <1>1
  <2> QED
    BY <1>2, <2>1, FS_Subset
<1>5. Cardinality(Of(1)) = 0
  <2>1. Of(1) = {}
    OBVIOUS
  <2> QED
    BY <2>1, FS_EmptySet
<1>6. \A g : Start(plan, kind, g) = (g - 1) + (nleaf - 1) * Cardinality(Of(g))
  BY DEF Start
<1> HIDE DEF Of
<1>7. nleaf = 2 \/ nleaf = 4 \/ nleaf = 8
  BY RedistAssumption
<1>8. Start(plan, kind, 1) = 0
  BY <1>5, <1>6, <1>7
<1>9. \A g \in 1..(N + 1) : Start(plan, kind, g) \in Nat
  BY <1>1, <1>2, <1>6, <1>7
<1>10. \A g \in 1..N : Start(plan, kind, g + 1) = Start(plan, kind, g) + (IF plan[g] = kind THEN nleaf ELSE 1)
  <2> SUFFICES ASSUME NEW g \in 1..N
               PROVE  Start(plan, kind, g + 1) = Start(plan, kind, g) + (IF plan[g] = kind THEN nleaf ELSE 1)
    OBVIOUS
  <2>1. g \in 1..(N + 1) /\ g \in Nat
    BY <1>1
  <2>2. Cardinality(Of(g)) \in Nat
    BY <1>2, <2>1
  <2>3. Cardinality(Of(g + 1)) = Cardinality(Of(g)) + (IF plan[g] = kind THEN 1 ELSE 0)
    BY <1>3
  <2> DEFINE c == Cardinality(Of(g))
             d == Cardinality(Of(g + 1))
  <2>4. Start(plan, kind, g + 1) = g + (nleaf - 1) * d
    BY <1>6, <2>1
  <2>5. Start(plan, kind, g) = (g - 1) + (nleaf - 1) * c
    BY <1>6
  <2> HIDE DEF c, d
  <2>6. c \in Nat /\ d = c + (IF plan[g] = kind THEN 1 ELSE 0)
    BY <2>2, <2>3 DEF c, d
  <2>7. (nleaf - 1) * d = (nleaf - 1) * c + (IF plan[g] = kind THEN nleaf - 1 ELSE 0)
    <3>1. CASE nleaf = 2
      BY <2>6, <3>1
    <3>2. CASE nleaf = 4
      BY <2>6, <3>2
    <3>3. CASE nleaf = 8
      BY <2>6, <3>3
    <3> QED
      BY <1>7, <3>1, <3>2, <3>3
  <2>8. (nleaf - 1) * c \in Nat
    BY <1>7, <2>6
  <2> QED
    BY <1>7, <2>1, <2>4, <2>5, <2>7, <2>8
<1>11. \A g, h \in 1..(N + 1) : g <= h => Start(plan, kind, g) <= Start(plan, kind, h)
  <2> SUFFICES ASSUME NEW g \in 1..(N + 1), NEW h \in 1..(N + 1), g <= h
               PROVE  Start(plan, kind, g) <= Start(plan, kind, h)
    OBVIOUS
  <2>1. /\ Cardinality(Of(g)) \in Nat /\ Cardinality(Of(h)) \in Nat
        /\ Cardinality(Of(g)) <= Cardinality(Of(h))
    BY <1>2, <1>4
  <2> QED
    BY <1>1, <1>6, <1>7, <2>1, SMTT(40)
<1> QED
  BY <1>1, <1>8, <1>9, <1>10, <1>11

\* The family of a block is the one between whose bounds it lies
LEMMA FamilyIs ==
  ASSUME NEW plan \in Plans, NEW kind
  PROVE  /\ Start(plan, kind, Len(plan) + 1) \in Nat \ {0}
         /\ \A k \in 0..(Start(plan, kind, Len(plan) + 1) - 1) :
              /\ Families(plan, kind)[k] \in DOMAIN plan
              /\ Start(plan, kind, Families(plan, kind)[k]) <= k
              /\ k < Start(plan, kind, Families(plan, kind)[k] + 1)
         /\ \A g \in DOMAIN plan, k \in Nat :
              Start(plan, kind, g) <= k /\ k < Start(plan, kind, g + 1) =>
                /\ k \in 0..(Start(plan, kind, Len(plan) + 1) - 1)
                /\ Families(plan, kind)[k] = g
<1> DEFINE St(g) == Start(plan, kind, g)
           N == Len(plan)
           f == Families(plan, kind)
<1>1. N \in Nat \ {0} /\ DOMAIN plan = 1..N
  <2>1. plan \in Seq({"same", "refine", "derefine"}) /\ plan # <<>>
    BY RedistAssumption
  <2> QED
    BY <2>1
<1>2. nleaf \in Nat /\ nleaf >= 1
  BY RedistAssumption
<1>3. /\ St(1) = 0
      /\ \A g \in 1..(N + 1) : St(g) \in Nat
      /\ \A g \in 1..N : St(g) < St(g + 1)
      /\ \A g, h \in 1..(N + 1) : g <= h => St(g) <= St(h)
  <2>1. /\ St(1) = 0
        /\ \A g \in 1..(N + 1) : St(g) \in Nat
        /\ \A g \in 1..N : St(g + 1) = St(g) + (IF plan[g] = kind THEN nleaf ELSE 1)
        /\ \A g, h \in 1..(N + 1) : g <= h => St(g) <= St(h)
    <3>1. /\ St(1) = 0
          /\ \A g \in 1..(N + 1) : St(g) \in Nat
          /\ \A g \in DOMAIN plan : St(g + 1) = St(g) + (IF plan[g] = kind THEN nleaf ELSE 1)
          /\ \A g, h \in 1..(N + 1) : g <= h => St(g) <= St(h)
      BY StartIs, Zenon
    <3> QED
      BY <1>1, <3>1, Zenon
  <2> HIDE DEF St
  <2> QED
    BY <1>1, <1>2, <2>1
<1>4. f = [k \in 0..(St(N + 1) - 1) |-> CHOOSE g \in 1..N : St(g) <= k /\ k < St(g + 1)]
  BY <1>1 DEF Families
<1> HIDE DEF St, f
<1>5. St(N + 1) \in Nat \ {0}
  BY <1>1, <1>3
<1>6. \A k \in 0..(St(N + 1) - 1) : \E g \in 1..N : St(g) <= k /\ k < St(g + 1)
  <2> SUFFICES ASSUME NEW k \in 0..(St(N + 1) - 1)
               PROVE  \E g \in 1..N : St(g) <= k /\ k < St(g + 1)
    OBVIOUS
  <2> DEFINE S == {g \in 1..(N + 1) : k < St(g)}
  <2>1. S \subseteq Nat /\ N + 1 \in S
    BY <1>1, <1>5
  <2>2. Min(S) \in S /\ \A g \in S : Min(S) <= g
    BY <2>1, MinIs
  <2>3. PICK h \in S : \A g \in S : h <= g
    BY <2>2
  <2>4. h # 1
    BY <1>3, <2>3
  <2>5. h - 1 \in 1..N /\ h - 1 \notin S /\ (h - 1) + 1 = h
    BY <1>1, <2>3, <2>4
  <2>6. St(h - 1) <= k
    BY <1>1, <1>3, <1>5, <2>5
  <2> QED
    BY <2>3, <2>5, <2>6
<1>7. \A k \in 0..(St(N + 1) - 1) : f[k] \in 1..N /\ St(f[k]) <= k /\ k < St(f[k] + 1)
  BY <1>4, <1>6
<1>8. ASSUME NEW g \in 1..N, NEW k \in Nat, St(g) <= k, k < St(g + 1)
      PROVE  k \in 0..(St(N + 1) - 1) /\ f[k] = g
  <2>1. g + 1 \in 1..(N + 1) /\ N + 1 \in 1..(N + 1) /\ g + 1 <= N + 1
    BY <1>1
  <2>2. St(g + 1) <= St(N + 1)
    BY <1>3, <2>1
  <2>3. k \in 0..(St(N + 1) - 1)
    BY <1>3, <1>5, <1>8, <2>1, <2>2
  <2>4. f[k] \in 1..N /\ St(f[k]) <= k /\ k < St(f[k] + 1)
    BY <1>7, <2>3
  <2>5. ~(f[k] < g)
    <3> SUFFICES ASSUME f[k] < g PROVE FALSE
      OBVIOUS
    <3>1. f[k] + 1 \in 1..(N + 1) /\ g \in 1..(N + 1) /\ f[k] + 1 <= g
      BY <1>1, <2>4
    <3>2. St(f[k] + 1) <= St(g)
      BY <1>3, <3>1
    <3> QED
      BY <1>3, <1>8, <2>4, <3>1, <3>2
  <2>6. ~(g < f[k])
    <3> SUFFICES ASSUME g < f[k] PROVE FALSE
      OBVIOUS
    <3>1. g + 1 \in 1..(N + 1) /\ f[k] \in 1..(N + 1) /\ g + 1 <= f[k]
      BY <1>1, <2>4
    <3>2. St(g + 1) <= St(f[k])
      BY <1>3, <3>1
    <3> QED
      BY <1>3, <1>8, <2>4, <3>1, <3>2, SMTT(40)
  <2> QED
    BY <2>3, <2>4, <2>5, <2>6
<1> QED
  BY <1>1, <1>5, <1>7, <1>8 DEF St, f

\* The maps are so paired when the tree has changed, and nothing touches them after
LEMMA InitMaps == Init => Maps
<1> SUFFICES ASSUME Init PROVE Maps
  OBVIOUS
<1>1. PICK plan \in Plans :
        LET old == Families(plan, "derefine")
            new == Families(plan, "refine")
        IN  /\ flag = [k \in DOMAIN old |-> CASE plan[old[k]] = "same" -> 0
                                              [] plan[old[k]] = "refine" -> 1
                                              [] plan[old[k]] = "derefine" -> -nleaf]
            /\ oldtonew = [k \in DOMAIN old |-> Start(plan, "refine", old[k])]
            /\ newtoold = [m \in DOMAIN new |-> Start(plan, "derefine", new[m])]
            /\ oldrank \in Distributions(Start(plan, "derefine", Len(plan) + 1))
            /\ newrank \in Distributions(Start(plan, "refine", Len(plan) + 1))
  BY DEF Init
<1> DEFINE old == Families(plan, "derefine")
           new == Families(plan, "refine")
           o(g) == Start(plan, "derefine", g)
           w(g) == Start(plan, "refine", g)
           N == Len(plan)
           a == o(N + 1)
           b == w(N + 1)
<1>2. DOMAIN old = 0..(a - 1) /\ DOMAIN new = 0..(b - 1)
  BY DEF Families
<1>3. N \in Nat /\ DOMAIN plan = 1..N /\ \A g \in 1..N : plan[g] \in {"same", "refine", "derefine"}
  BY RedistAssumption
<1>4. /\ a \in Nat \ {0}
      /\ \A k \in 0..(a - 1) : old[k] \in 1..N /\ o(old[k]) <= k /\ k < o(old[k] + 1)
      /\ \A g \in 1..N, k \in Nat : o(g) <= k /\ k < o(g + 1) => k \in 0..(a - 1) /\ old[k] = g
  <2>1. /\ a \in Nat \ {0}
        /\ \A k \in 0..(a - 1) : old[k] \in DOMAIN plan /\ o(old[k]) <= k /\ k < o(old[k] + 1)
        /\ \A g \in DOMAIN plan, k \in Nat : o(g) <= k /\ k < o(g + 1) => k \in 0..(a - 1) /\ old[k] = g
    BY FamilyIs
  <2> QED
    BY <1>3, <2>1, Zenon
<1>5. /\ b \in Nat \ {0}
      /\ \A m \in 0..(b - 1) : new[m] \in 1..N /\ w(new[m]) <= m /\ m < w(new[m] + 1)
      /\ \A g \in 1..N, m \in Nat : w(g) <= m /\ m < w(g + 1) => m \in 0..(b - 1) /\ new[m] = g
  <2>1. /\ b \in Nat \ {0}
        /\ \A m \in 0..(b - 1) : new[m] \in DOMAIN plan /\ w(new[m]) <= m /\ m < w(new[m] + 1)
        /\ \A g \in DOMAIN plan, m \in Nat : w(g) <= m /\ m < w(g + 1) => m \in 0..(b - 1) /\ new[m] = g
    BY FamilyIs
  <2> QED
    BY <1>3, <2>1, Zenon
<1>6. /\ \A g \in 1..(N + 1) : o(g) \in Nat /\ w(g) \in Nat
      /\ \A g \in 1..N : o(g + 1) = o(g) + (IF plan[g] = "derefine" THEN nleaf ELSE 1)
      /\ \A g \in 1..N : w(g + 1) = w(g) + (IF plan[g] = "refine" THEN nleaf ELSE 1)
      /\ \A g, h \in 1..(N + 1) : g <= h => o(g) <= o(h) /\ w(g) <= w(h)
  <2>1. /\ \A g \in 1..(N + 1) : o(g) \in Nat /\ w(g) \in Nat
        /\ \A g \in DOMAIN plan : o(g + 1) = o(g) + (IF plan[g] = "derefine" THEN nleaf ELSE 1)
        /\ \A g \in DOMAIN plan : w(g + 1) = w(g) + (IF plan[g] = "refine" THEN nleaf ELSE 1)
        /\ \A g, h \in 1..(N + 1) : g <= h => o(g) <= o(h) /\ w(g) <= w(h)
    BY StartIs, ZenonT(40)
  <2> QED
    BY <1>3, <2>1, Zenon
<1>7. /\ flag = [k \in 0..(a - 1) |-> CASE plan[old[k]] = "same" -> 0
                                        [] plan[old[k]] = "refine" -> 1
                                        [] plan[old[k]] = "derefine" -> -nleaf]
      /\ oldtonew = [k \in 0..(a - 1) |-> w(old[k])]
      /\ newtoold = [m \in 0..(b - 1) |-> o(new[m])]
  BY <1>1, <1>2, Zenon
<1>8. oldrank \in [0..(a - 1) -> Ranks] /\ newrank \in [0..(b - 1) -> Ranks]
  BY <1>1 DEF Distributions
<1> HIDE DEF old, new, o, w, a, b
<1>9. nleaf \in Nat /\ nleaf >= 2
  BY RedistAssumption
<1>10. \A g \in 1..N :
         /\ g \in 1..(N + 1) /\ g + 1 \in 1..(N + 1)
         /\ o(g) \in Nat /\ o(g + 1) \in Nat /\ w(g) \in Nat /\ w(g + 1) \in Nat
         /\ o(g) < o(g + 1) /\ w(g) < w(g + 1)
  <2> SUFFICES ASSUME NEW g \in 1..N
               PROVE  /\ g \in 1..(N + 1) /\ g + 1 \in 1..(N + 1)
                      /\ o(g) \in Nat /\ o(g + 1) \in Nat /\ w(g) \in Nat /\ w(g + 1) \in Nat
                      /\ o(g) < o(g + 1) /\ w(g) < w(g + 1)
    OBVIOUS
  <2>1. g \in 1..(N + 1) /\ g + 1 \in 1..(N + 1)
    BY <1>3
  <2>2. o(g) \in Nat /\ o(g + 1) \in Nat /\ w(g) \in Nat /\ w(g + 1) \in Nat
    BY <1>6, <2>1
  <2>3. o(g + 1) = o(g) + (IF plan[g] = "derefine" THEN nleaf ELSE 1)
    BY <1>6
  <2>4. w(g + 1) = w(g) + (IF plan[g] = "refine" THEN nleaf ELSE 1)
    BY <1>6
  <2> QED
    BY <1>9, <2>1, <2>2, <2>3, <2>4
<1>11. \A k \in 0..(a - 1) :
         /\ oldtonew[k] = w(old[k]) /\ oldtonew[k] \in 0..(b - 1) /\ new[oldtonew[k]] = old[k]
         /\ newtoold[oldtonew[k]] = o(old[k])
         /\ flag[k] = 0 <=> plan[old[k]] = "same"
         /\ flag[k] = 1 <=> plan[old[k]] = "refine"
         /\ flag[k] = -nleaf <=> plan[old[k]] = "derefine"
         /\ flag[k] \in {-nleaf, 0, 1}
  <2> SUFFICES ASSUME NEW k \in 0..(a - 1)
               PROVE  /\ oldtonew[k] = w(old[k]) /\ oldtonew[k] \in 0..(b - 1) /\ new[oldtonew[k]] = old[k]
                      /\ newtoold[oldtonew[k]] = o(old[k])
                      /\ flag[k] = 0 <=> plan[old[k]] = "same"
                      /\ flag[k] = 1 <=> plan[old[k]] = "refine"
                      /\ flag[k] = -nleaf <=> plan[old[k]] = "derefine"
                      /\ flag[k] \in {-nleaf, 0, 1}
    OBVIOUS
  <2>1. old[k] \in 1..N
    BY <1>4
  <2>2. w(old[k]) < w(old[k] + 1) /\ w(old[k]) \in Nat
    BY <1>10, <2>1
  <2>3. w(old[k]) \in 0..(b - 1) /\ new[w(old[k])] = old[k]
    BY <1>5, <2>1, <2>2
  <2>4. oldtonew[k] = w(old[k])
    BY <1>7
  <2>5. newtoold[oldtonew[k]] = o(old[k])
    BY <1>7, <2>3, <2>4
  <2>6. flag[k] = CASE plan[old[k]] = "same" -> 0
                    [] plan[old[k]] = "refine" -> 1
                    [] plan[old[k]] = "derefine" -> -nleaf
    BY <1>7
  <2>7. plan[old[k]] \in {"same", "refine", "derefine"}
    BY <1>3, <2>1
  <2> QED
    BY <1>9, <2>3, <2>4, <2>5, <2>6, <2>7
<1>12. \A m \in 0..(b - 1) :
         /\ newtoold[m] = o(new[m]) /\ newtoold[m] \in 0..(a - 1) /\ old[newtoold[m]] = new[m]
         /\ oldtonew[newtoold[m]] = w(new[m])
  <2> SUFFICES ASSUME NEW m \in 0..(b - 1)
               PROVE  /\ newtoold[m] = o(new[m]) /\ newtoold[m] \in 0..(a - 1)
                      /\ old[newtoold[m]] = new[m] /\ oldtonew[newtoold[m]] = w(new[m])
    OBVIOUS
  <2>1. new[m] \in 1..N
    BY <1>5
  <2>2. o(new[m]) < o(new[m] + 1) /\ o(new[m]) \in Nat
    BY <1>10, <2>1
  <2>3. o(new[m]) \in 0..(a - 1) /\ old[o(new[m])] = new[m]
    BY <1>4, <2>1, <2>2
  <2>4. newtoold[m] = o(new[m])
    BY <1>7
  <2> QED
    BY <1>11, <2>3, <2>4
<1>13. Old = 0..(a - 1) /\ New = 0..(b - 1)
  BY <1>8 DEF Old, New
<1>14. ASSUME NEW k \in Old
       PROVE  /\ flag[k] = 0 => newtoold[oldtonew[k]] = k
              /\ flag[k] = 1 =>
                   \A l \in Oct : oldtonew[k] + l \in New /\ newtoold[oldtonew[k] + l] = k
              /\ flag[k] = -nleaf => OldOct(k) \in Oct /\ flag[newtoold[oldtonew[k]]] = -nleaf
  <2>1. old[k] \in 1..N /\ o(old[k]) <= k /\ k < o(old[k] + 1) /\ o(old[k]) \in Nat
    BY <1>4, <1>10, <1>13
  <2>2. /\ oldtonew[k] = w(old[k]) /\ newtoold[oldtonew[k]] = o(old[k])
        /\ flag[k] = 0 <=> plan[old[k]] = "same"
        /\ flag[k] = 1 <=> plan[old[k]] = "refine"
        /\ flag[k] = -nleaf <=> plan[old[k]] = "derefine"
    BY <1>11, <1>13
  <2>3. k \in Nat
    BY <1>13
  <2>4. CASE flag[k] = 0
    <3>1. plan[old[k]] = "same"
      BY <2>2, <2>4
    <3>2. o(old[k] + 1) = o(old[k]) + 1
      BY <1>6, <2>1, <3>1
    <3> QED
      BY <1>9, <2>1, <2>2, <2>3, <2>4, <3>2
  <2>5. CASE flag[k] = 1
    <3>1. plan[old[k]] = "refine"
      BY <2>2, <2>5
    <3>2. o(old[k] + 1) = o(old[k]) + 1 /\ w(old[k] + 1) = w(old[k]) + nleaf /\ w(old[k]) \in Nat
      BY <1>6, <1>10, <2>1, <3>1
    <3>3. o(old[k]) = k
      BY <2>1, <2>3, <3>2
    <3>4. ASSUME NEW l \in Oct
          PROVE  oldtonew[k] + l \in New /\ newtoold[oldtonew[k] + l] = k
      <4>1. w(old[k]) <= w(old[k]) + l /\ w(old[k]) + l < w(old[k] + 1) /\ w(old[k]) + l \in Nat
        BY <1>9, <3>2 DEF Oct
      <4>2. w(old[k]) + l \in 0..(b - 1) /\ new[w(old[k]) + l] = old[k]
        BY <1>5, <2>1, <4>1
      <4> QED
        BY <1>12, <1>13, <2>2, <3>3, <4>2
    <3> QED
      BY <1>9, <2>5, <3>4
  <2>6. CASE flag[k] = -nleaf
    <3>1. plan[old[k]] = "derefine"
      BY <2>2, <2>6
    <3>2. o(old[k] + 1) = o(old[k]) + nleaf
      BY <1>6, <2>1, <3>1
    <3>3. OldOct(k) \in Oct
      BY <1>9, <2>1, <2>2, <2>3, <3>2 DEF OldOct, Oct
    <3>4. o(old[k]) \in 0..(a - 1) /\ old[o(old[k])] = old[k]
      BY <1>4, <1>9, <2>1, <3>2
    <3>5. flag[o(old[k])] = -nleaf
      BY <1>11, <3>1, <3>4
    <3> QED
      BY <1>9, <2>2, <2>6, <3>3, <3>5
  <2> QED
    BY <1>11, <1>13, <2>4, <2>5, <2>6
<1>15. ASSUME NEW m \in New
       PROVE  /\ flag[newtoold[m]] = 0 => oldtonew[newtoold[m]] = m
              /\ flag[newtoold[m]] = 1 => NewOct(m) \in Oct
              /\ flag[newtoold[m]] = -nleaf =>
                   \A l \in Oct : /\ newtoold[m] + l \in Old
                                  /\ flag[newtoold[m] + l] = -nleaf
                                  /\ oldtonew[newtoold[m] + l] = m
  <2>1. new[m] \in 1..N /\ w(new[m]) <= m /\ m < w(new[m] + 1) /\ w(new[m]) \in Nat /\ o(new[m]) \in Nat
    BY <1>5, <1>10, <1>13
  <2>2. /\ newtoold[m] = o(new[m]) /\ newtoold[m] \in 0..(a - 1) /\ old[newtoold[m]] = new[m]
        /\ oldtonew[newtoold[m]] = w(new[m])
    BY <1>12, <1>13
  <2>3. /\ flag[newtoold[m]] = 0 <=> plan[new[m]] = "same"
        /\ flag[newtoold[m]] = 1 <=> plan[new[m]] = "refine"
        /\ flag[newtoold[m]] = -nleaf <=> plan[new[m]] = "derefine"
        /\ flag[newtoold[m]] \in {-nleaf, 0, 1}
    BY <1>11, <2>2
  <2>4. m \in Nat
    BY <1>13
  <2>5. CASE plan[new[m]] = "same"
    <3>1. w(new[m] + 1) = w(new[m]) + 1
      BY <1>6, <2>1, <2>5
    <3> QED
      BY <1>9, <2>1, <2>2, <2>3, <2>4, <2>5, <3>1
  <2>6. CASE plan[new[m]] = "refine"
    <3>1. w(new[m] + 1) = w(new[m]) + nleaf
      BY <1>6, <2>1, <2>6
    <3> QED
      BY <1>9, <2>1, <2>2, <2>3, <2>4, <2>6, <3>1 DEF NewOct, Oct
  <2>7. CASE plan[new[m]] = "derefine"
    <3>1. w(new[m] + 1) = w(new[m]) + 1 /\ o(new[m] + 1) = o(new[m]) + nleaf
      BY <1>6, <2>1, <2>7
    <3>2. w(new[m]) = m
      BY <2>1, <2>4, <3>1
    <3>3. ASSUME NEW l \in Oct
          PROVE  /\ newtoold[m] + l \in Old
                 /\ flag[newtoold[m] + l] = -nleaf
                 /\ oldtonew[newtoold[m] + l] = m
      <4>1. o(new[m]) <= o(new[m]) + l /\ o(new[m]) + l < o(new[m] + 1) /\ o(new[m]) + l \in Nat
        BY <1>9, <2>1, <3>1 DEF Oct
      <4>2. o(new[m]) + l \in 0..(a - 1) /\ old[o(new[m]) + l] = new[m]
        BY <1>4, <2>1, <4>1
      <4> QED
        BY <1>11, <1>13, <2>2, <2>7, <3>2, <4>2
    <3> QED
      BY <1>9, <2>3, <2>7, <3>3
  <2> QED
    BY <1>3, <2>1, <2>5, <2>6, <2>7
<1>16. ASSUME NEW j \in Old, NEW k \in Old, j <= k
       PROVE  oldtonew[j] <= oldtonew[k]
  <2>1. /\ old[j] \in 1..N /\ o(old[j]) <= j /\ j < o(old[j] + 1)
        /\ old[k] \in 1..N /\ o(old[k]) <= k /\ k < o(old[k] + 1)
        /\ j \in Nat /\ k \in Nat
    BY <1>4, <1>13
  <2>2. old[j] <= old[k]
    <3> SUFFICES ASSUME old[k] < old[j] PROVE FALSE
      BY <1>3, <2>1
    <3>1. old[k] + 1 \in 1..(N + 1) /\ old[j] \in 1..(N + 1) /\ old[k] + 1 <= old[j]
      BY <1>3, <2>1
    <3>2. o(old[k] + 1) <= o(old[j]) /\ o(old[k] + 1) \in Nat /\ o(old[j]) \in Nat
      BY <1>6, <3>1
    <3> QED
      BY <1>16, <2>1, <3>2
  <2>3. w(old[j]) <= w(old[k])
    <3>1. old[j] \in 1..(N + 1) /\ old[k] \in 1..(N + 1)
      BY <1>10, <2>1
    <3> QED
      BY <1>6, <2>2, <3>1
  <2> QED
    BY <1>11, <1>13, <2>3
<1>17. Paired
  BY <1>14, <1>15, <1>16, Zenon DEF Paired
<1>18. /\ flag \in [0..(a - 1) -> {-nleaf, 0, 1}]
       /\ oldtonew \in [0..(a - 1) -> 0..(b - 1)]
       /\ newtoold \in [0..(b - 1) -> 0..(a - 1)]
  <2>1. \A k \in 0..(a - 1) : flag[k] \in {-nleaf, 0, 1}
    BY <1>11
  <2>2. flag = [k \in 0..(a - 1) |-> flag[k]]
    <3> DEFINE f(k) == CASE plan[old[k]] = "same" -> 0
                         [] plan[old[k]] = "refine" -> 1
                         [] plan[old[k]] = "derefine" -> -nleaf
    <3>1. flag = [k \in 0..(a - 1) |-> f(k)]
      BY <1>7
    <3> HIDE DEF f
    <3> QED
      BY <3>1
  <2>3. flag \in [0..(a - 1) -> {-nleaf, 0, 1}]
    BY <2>1, <2>2
  <2>4. \A k \in 0..(a - 1) : w(old[k]) \in 0..(b - 1)
    BY <1>11
  <2>5. \A m \in 0..(b - 1) : o(new[m]) \in 0..(a - 1)
    BY <1>12
  <2> QED
    BY <1>7, <2>3, <2>4, <2>5
<1> QED
  BY <1>4, <1>5, <1>8, <1>17, <1>18 DEF Maps

-----------------------------------------------------------------------------
\* Types of the maps, block by block
LEMMA MapTypes ==
  ASSUME Maps
  PROVE  /\ Old \subseteq Nat /\ New \subseteq Nat
         /\ DOMAIN oldtonew = Old /\ DOMAIN newtoold = New
         /\ \A k \in Old : /\ oldtonew[k] \in New /\ oldrank[k] \in Ranks
                           /\ flag[k] \in {-nleaf, 0, 1}
         /\ \A m \in New : newtoold[m] \in Old /\ newrank[m] \in Ranks
         /\ \A k \in Old \cup New, i \in Nat : i <= k => i \in Slots
<1>1. PICK a \in Nat \ {0}, b \in Nat \ {0} :
        /\ flag \in [0..(a - 1) -> {-nleaf, 0, 1}]
        /\ oldtonew \in [0..(a - 1) -> 0..(b - 1)]
        /\ newtoold \in [0..(b - 1) -> 0..(a - 1)]
        /\ oldrank \in [0..(a - 1) -> Ranks]
        /\ newrank \in [0..(b - 1) -> Ranks]
  BY DEF Maps
<1>2. Old = 0..(a - 1) /\ New = 0..(b - 1) /\ Slots = 0..(a - 1) \cup 0..(b - 1)
  BY <1>1 DEF Old, New, Slots
<1> QED
  BY <1>1, <1>2, SMTT(40)

\* flag and nleaf as numbers
LEMMA Kinds ==
  /\ nleaf \in Nat /\ nleaf >= 2 /\ -nleaf < -1 /\ -nleaf # 0 /\ -nleaf # 1
  /\ \A l \in Oct : l \in Nat
  /\ 0 \in Oct
  BY RedistAssumption DEF Oct

\* The local indices of a rank's blocks lie within its arrays
LEMMA Indices ==
  ASSUME Maps, NEW r \in Ranks
  PROVE  /\ \A k \in OldOn(r) : /\ k \in Old /\ k \in Nat /\ oldrank[k] = r
                                /\ ombs(r) \in Nat /\ ombs(r) <= k /\ ombs(r) \in OldOn(r)
                                /\ k - ombs(r) \in Slots /\ k - ombs(r) \in Nat
         /\ \A m \in NewOn(r) : /\ m \in New /\ m \in Nat /\ newrank[m] = r
                                /\ nmbs(r) \in Nat /\ nmbs(r) <= m
                                /\ m - nmbs(r) \in Slots /\ m - nmbs(r) \in Nat
<1>1. OldOn(r) \subseteq Nat /\ OldOn(r) \subseteq Old /\ NewOn(r) \subseteq Nat /\ NewOn(r) \subseteq New
  BY MapTypes DEF OldOn, NewOn, Old, New
<1>2. ASSUME NEW k \in OldOn(r)
      PROVE  /\ k \in Old /\ k \in Nat /\ oldrank[k] = r
             /\ ombs(r) \in Nat /\ ombs(r) <= k /\ ombs(r) \in OldOn(r)
             /\ k - ombs(r) \in Slots /\ k - ombs(r) \in Nat
  <2>1. ombs(r) \in OldOn(r) /\ ombs(r) <= k
    BY <1>1, MinIs DEF ombs
  <2>2. k - ombs(r) \in Nat /\ k - ombs(r) <= k
    BY <1>1, <2>1
  <2> QED
    BY <1>1, <2>1, <2>2, MapTypes DEF OldOn
<1>3. ASSUME NEW m \in NewOn(r)
      PROVE  /\ m \in New /\ m \in Nat /\ newrank[m] = r
             /\ nmbs(r) \in Nat /\ nmbs(r) <= m
             /\ m - nmbs(r) \in Slots /\ m - nmbs(r) \in Nat
  <2>1. nmbs(r) \in NewOn(r) /\ nmbs(r) <= m
    BY <1>1, MinIs DEF nmbs
  <2>2. m - nmbs(r) \in Nat /\ m - nmbs(r) <= m
    BY <1>1, <2>1
  <2> QED
    BY <1>1, <2>1, <2>2, MapTypes DEF NewOn
<1> QED
  BY <1>2, <1>3

\* A block is the first of its group exactly if the one before it goes elsewhere
LEMMA FirstOfGroup ==
  ASSUME Maps, NEW k \in Old
  PROVE  newtoold[oldtonew[k]] = k <=> ~(k > 0 /\ oldtonew[k - 1] = oldtonew[k])
<1>1. /\ k \in Nat /\ oldtonew[k] \in New /\ flag[k] \in {-nleaf, 0, 1}
      /\ newtoold[oldtonew[k]] \in Nat
  BY MapTypes
<1>2. k > 0 => k - 1 \in Old /\ flag[k - 1] \in {-nleaf, 0, 1}
  <2>1. PICK a \in Nat : Old = 0..(a - 1)
    BY DEF Maps, Old
  <2> QED
    BY <2>1, MapTypes
<1>3. ASSUME newtoold[oldtonew[k]] = k, k > 0, oldtonew[k - 1] = oldtonew[k]
      PROVE  FALSE
  <2>1. flag[k - 1] = -nleaf
    <3>1. newtoold[oldtonew[k - 1]] # k - 1
      BY <1>1, <1>3
    <3>2. flag[k - 1] # 0
      BY <1>2, <1>3, <3>1 DEF Maps, Paired
    <3>3. flag[k - 1] # 1
      <4>1. flag[k - 1] = 1 => newtoold[oldtonew[k - 1] + 0] = k - 1
        BY <1>2, <1>3, Kinds DEF Maps, Paired
      <4> QED
        BY <1>1, <1>2, <1>3, <3>1, <4>1, MapTypes
    <3> QED
      BY <1>2, <1>3, <3>2, <3>3
  <2>2. OldOct(k - 1) \in Oct
    BY <1>2, <1>3, <2>1 DEF Maps, Paired
  <2> QED
    BY <1>1, <1>3, <2>2 DEF OldOct, Oct
<1>4. ASSUME newtoold[oldtonew[k]] # k
      PROVE  k > 0 /\ oldtonew[k - 1] = oldtonew[k]
  <2>1. flag[k] = -nleaf
    <3>1. flag[k] # 0
      BY <1>1, <1>4 DEF Maps, Paired
    <3>2. flag[k] # 1
      <4>1. flag[k] = 1 => newtoold[oldtonew[k] + 0] = k
        BY Kinds DEF Maps, Paired
      <4> QED
        BY <1>1, <1>4, <4>1, MapTypes
    <3> QED
      BY <1>1, <3>1, <3>2
  <2>2. OldOct(k) \in Oct /\ flag[newtoold[oldtonew[k]]] = -nleaf
    BY <2>1 DEF Maps, Paired
  <2>3. OldOct(k) >= 1 /\ OldOct(k) - 1 \in Oct /\ newtoold[oldtonew[k]] + (OldOct(k) - 1) = k - 1
    BY <1>1, <1>4, <2>2, Kinds DEF OldOct, Oct
  <2>4. oldtonew[newtoold[oldtonew[k]] + (OldOct(k) - 1)] = oldtonew[k]
    BY <1>1, <2>2, <2>3 DEF Maps, Paired
  <2> QED
    BY <1>1, <2>2, <2>3, <2>4 DEF OldOct, Oct
<1> QED
  BY <1>3, <1>4

-----------------------------------------------------------------------------
\* The messages a rank expects, told block by block
LEMMA ExpectedIs ==
  ASSUME Maps, NEW r \in Ranks
  PROVE  Recvs(r) = Expected(r)
<1> DEFINE R(m) ==
      LET k == newtoold[m] IN
      CASE flag[k] < 0 -> {Recv(r, k + l, m, l) :
                             l \in {j \in Oct : oldrank[k] # r \/ oldrank[k + j] # r}}
        [] flag[k] = 0 -> IF oldrank[k] # r THEN {Recv(r, k, m, 0)} ELSE {}
        [] flag[k] > 0 -> IF newrank[oldtonew[k]] # r \/ oldrank[k] # r
                          THEN {Recv(r, k, m, 0)} ELSE {}
<1>1. Recvs(r) = UNION {R(m) : m \in NewOn(r)}
  BY DEF Recvs
<1>2. ASSUME NEW m \in NewOn(r), NEW x
      PROVE  x \in R(m) <=> \E o \in Oct : Travels(m, o) /\ x = RecvOf(m, o)
  <2>1. newrank[m] = r /\ flag[newtoold[m]] \in {-nleaf, 0, 1} /\ 0 \in Oct
    BY Indices, MapTypes, Kinds
  <2>2. \A o \in Oct : flag[newtoold[m]] < 0 => RecvOf(m, o) = Recv(r, newtoold[m] + o, m, o)
    BY <2>1 DEF RecvOf, Recv, Source
  <2>3. ~(flag[newtoold[m]] < 0) => RecvOf(m, 0) = Recv(r, newtoold[m], m, 0)
    BY <2>1 DEF RecvOf, Recv, Source
  <2>4. CASE flag[newtoold[m]] = -nleaf
    <3>1. R(m) = {Recv(r, newtoold[m] + l, m, l) :
                    l \in {j \in Oct : oldrank[newtoold[m]] # r \/ oldrank[newtoold[m] + j] # r}}
      BY <2>4, Kinds
    <3>2. flag[newtoold[m]] < 0 /\ flag[newtoold[m]] # 0 /\ ~(flag[newtoold[m]] > 0)
      BY <2>4, Kinds
    <3>3. \A o \in Oct : Travels(m, o) <=>
                           oldrank[newtoold[m]] # r \/ oldrank[newtoold[m] + o] # r
      BY <2>1, <3>2 DEF Travels
    <3> HIDE DEF R
    <3> QED
      BY <2>2, <3>1, <3>2, <3>3
  <2>5. CASE flag[newtoold[m]] = 0
    <3>1. R(m) = IF oldrank[newtoold[m]] # r THEN {Recv(r, newtoold[m], m, 0)} ELSE {}
      BY <2>5
    <3>2. \A o \in Oct : Travels(m, o) <=> o = 0 /\ oldrank[newtoold[m]] # r
      BY <2>1, <2>5 DEF Travels
    <3> HIDE DEF R
    <3> QED
      BY <2>1, <2>3, <2>5, <3>1, <3>2
  <2>6. CASE flag[newtoold[m]] = 1
    <3>1. R(m) = IF newrank[oldtonew[newtoold[m]]] # r \/ oldrank[newtoold[m]] # r
                 THEN {Recv(r, newtoold[m], m, 0)} ELSE {}
      BY <2>6
    <3>2. \A o \in Oct : Travels(m, o) <=>
            o = 0 /\ (newrank[oldtonew[newtoold[m]]] # r \/ oldrank[newtoold[m]] # r)
      BY <2>1, <2>6 DEF Travels
    <3> HIDE DEF R
    <3> QED
      BY <2>1, <2>3, <2>6, <3>1, <3>2
  <2> QED
    BY <2>1, <2>4, <2>5, <2>6
<1> HIDE DEF R
<1>3. \A x : x \in Expected(r) <=>
               \E m \in NewOn(r), o \in Oct : Travels(m, o) /\ x = RecvOf(m, o)
  BY DEF Expected
<1>4. \A x : x \in Recvs(r) <=> x \in Expected(r)
  BY <1>1, <1>2, <1>3
<1> QED
  BY <1>4, Zenon

\* The messages a rank posts while its arrays are as at first, told block by block
LEMMA PostsIs ==
  ASSUME Maps, NEW r \in Ranks, fine[r] = FineAtFirst(r), coarse[r] = CoarseAtFirst(r)
  PROVE  Sends(r) = Posts(r)
<1> DEFINE T(k) ==
      LET m == oldtonew[k] IN
      CASE flag[k] > 0 -> {Send(r, k, m + l, 0, l) : l \in {j \in Oct : LeafTravels(r, m, j)}}
        [] flag[k] = 0 -> IF newrank[m] # r THEN {Send(r, k, m, 0, 0)} ELSE {}
        [] flag[k] < 0 -> IF oldrank[newtoold[m]] # r \/ newrank[m] # r
                          THEN {Send(r, k, m, OldOct(k), 0)} ELSE {}
<1>1. Sends(r) = UNION {T(k) : k \in OldOn(r)}
  BY DEF Sends
<1>2. ASSUME NEW k \in OldOn(r)
      PROVE  /\ k \in Old /\ oldrank[k] = r /\ flag[k] \in {-nleaf, 0, 1} /\ k \in Nat
             /\ oldtonew[k] \in New /\ oldtonew[k] \in Nat
             /\ flag[k] = 0 => Packed(r, k, 0) = [o \in Oct |-> Data(k, o)]
             /\ flag[k] = 1 => \A l \in Oct : Packed(r, k, l) = Data(k, l)
             /\ flag[k] = -nleaf => Packed(r, k, 0) = Restricted(k)
             /\ flag[k] = 0 => T(k) = IF newrank[oldtonew[k]] # r
                                      THEN {Send(r, k, oldtonew[k], 0, 0)} ELSE {}
             /\ flag[k] = 1 => T(k) = {Send(r, k, oldtonew[k] + l, 0, l) :
                                         l \in {j \in Oct : LeafTravels(r, oldtonew[k], j)}}
             /\ flag[k] = -nleaf =>
                  T(k) = IF oldrank[newtoold[oldtonew[k]]] # r \/ newrank[oldtonew[k]] # r
                         THEN {Send(r, k, oldtonew[k], OldOct(k), 0)} ELSE {}
  <2>1. /\ k \in Old /\ oldrank[k] = r /\ flag[k] \in {-nleaf, 0, 1} /\ k \in Nat
        /\ oldtonew[k] \in New /\ oldtonew[k] \in Nat
        /\ k - ombs(r) \in Slots /\ (k - ombs(r)) + ombs(r) = k
    BY Indices, MapTypes
  <2>2. Held(r, k - ombs(r))
    BY <2>1 DEF Held
  <2>3. \A l \in Oct : fine[r][k - ombs(r)][l] = Data(k, l)
    BY <2>1, <2>2 DEF FineAtFirst
  <2>4. fine[r][k - ombs(r)] = [o \in Oct |-> Data(k, o)]
    BY <2>1, <2>2 DEF FineAtFirst
  <2>5. coarse[r][k - ombs(r)] = Restricted(k)
    BY <2>1, <2>2 DEF CoarseAtFirst
  <2>6. CASE flag[k] = 0
    <3>1. flag[k] # 1 /\ flag[k] # -nleaf /\ ~(flag[k] > 0) /\ ~(flag[k] < 0)
      BY <2>6, Kinds
    <3> QED
      BY <2>1, <2>4, <2>6, <3>1 DEF Packed
  <2>7. CASE flag[k] = 1
    <3>1. flag[k] # 0 /\ flag[k] # -nleaf /\ flag[k] > 0 /\ ~(flag[k] < 0)
      BY <2>7, Kinds
    <3> QED
      BY <2>1, <2>3, <2>7, <3>1 DEF Packed
  <2>8. CASE flag[k] = -nleaf
    <3>1. flag[k] # 0 /\ flag[k] # 1 /\ ~(flag[k] > 0) /\ flag[k] < 0
      BY <2>8, Kinds
    <3> QED
      BY <2>1, <2>5, <2>8, <3>1 DEF Packed
  <2> QED
    BY <2>1, <2>6, <2>7, <2>8
<1> HIDE DEF T
<1> DEFINE Msg(m, o, d) ==
      [to |-> newrank[m], lid |-> m - nmbs(newrank[m]), oct |-> o, data |-> d]
<1>3. ASSUME NEW m \in New, NEW o \in Oct, NEW k, newtoold[m] = k
      PROVE  /\ flag[k] = 0 =>
                  /\ Source(m, o) = k
                  /\ Travels(m, o) <=> (o = 0 /\ oldrank[k] # newrank[m])
                  /\ SendOf(m, o) = Msg(m, o, [q \in Oct |-> Data(k, q)])
             /\ flag[k] = 1 =>
                  /\ Source(m, o) = k
                  /\ Travels(m, o) <=> (o = 0 /\ (\/ newrank[oldtonew[k]] # newrank[m]
                                                  \/ oldrank[k] # newrank[m]))
                  /\ SendOf(m, o) = Msg(m, o, Data(k, NewOct(m)))
             /\ flag[k] = -nleaf =>
                  /\ Source(m, o) = k + o
                  /\ Travels(m, o) <=> (oldrank[k] # newrank[m] \/ oldrank[k + o] # newrank[m])
                  /\ SendOf(m, o) = Msg(m, o, Restricted(k + o))
  <2>1. CASE flag[k] = 0
    <3>1. ~(flag[k] > 0) /\ ~(flag[k] < 0) /\ flag[k] # 1 /\ flag[k] # -nleaf
      BY <2>1, Kinds
    <3> QED
      BY <1>3, <2>1, <3>1 DEF Source, Travels, SendOf, Payload
  <2>2. CASE flag[k] = 1
    <3>1. flag[k] > 0 /\ ~(flag[k] < 0) /\ flag[k] # 0 /\ flag[k] # -nleaf
      BY <2>2, Kinds
    <3> QED
      BY <1>3, <2>2, <3>1 DEF Source, Travels, SendOf, Payload
  <2>3. CASE flag[k] = -nleaf
    <3>1. ~(flag[k] > 0) /\ flag[k] < 0 /\ flag[k] # 0 /\ flag[k] # 1
      BY <2>3, Kinds
    <3> QED
      BY <1>3, <2>3, <3>1 DEF Source, Travels, SendOf, Payload
  <2> QED
    BY <2>1, <2>2, <2>3
<1>4. ASSUME NEW k \in OldOn(r), NEW x \in T(k)
      PROVE  \E m \in New, o \in Oct :
               Travels(m, o) /\ oldrank[Source(m, o)] = r /\ x = SendOf(m, o)
  <2> DEFINE n == oldtonew[k]
  <2>1. CASE flag[k] = 0
    <3>1. n \in New /\ newtoold[n] = k /\ newrank[n] # r /\ x = Send(r, k, n, 0, 0)
      BY <1>2, <1>4, <2>1 DEF Maps, Paired
    <3>2. /\ Source(n, 0) = k /\ Travels(n, 0)
          /\ SendOf(n, 0) = Msg(n, 0, [q \in Oct |-> Data(k, q)])
      BY <1>2, <1>3, <2>1, <3>1, Kinds
    <3>3. x = SendOf(n, 0)
      BY <1>2, <2>1, <3>1, <3>2 DEF Send
    <3> QED
      BY <1>2, <3>1, <3>2, <3>3, Kinds
  <2>2. CASE flag[k] = 1
    <3>1. PICK l \in Oct : LeafTravels(r, n, l) /\ x = Send(r, k, n + l, 0, l)
      BY <1>2, <1>4, <2>2
    <3>2. n + l \in New /\ newtoold[n + l] = k
      BY <1>2, <2>2 DEF Maps, Paired
    <3>3. NewOct(n + l) = l
      BY <1>2, <3>2, Kinds DEF NewOct
    <3> DEFINE m == n + l
    <3> HIDE DEF m
    <3>4. /\ Source(m, 0) = k
          /\ Travels(m, 0) <=> (newrank[n] # newrank[m] \/ oldrank[k] # newrank[m])
          /\ SendOf(m, 0) = Msg(m, 0, Data(k, l))
      <4>1. m \in New /\ newtoold[m] = k /\ NewOct(m) = l
        BY <3>2, <3>3 DEF m
      <4> QED
        BY <1>3, <2>2, <4>1, Kinds
    <3>5. Travels(m, 0)
      BY <1>2, <3>1, <3>4 DEF LeafTravels, m
    <3>6. x = Send(r, k, m, 0, l) /\ Packed(r, k, l) = Data(k, l)
      BY <1>2, <2>2, <3>1 DEF m
    <3>7. x = SendOf(m, 0)
      BY <3>4, <3>6 DEF Send
    <3> QED
      BY <1>2, <3>2, <3>4, <3>5, <3>7, Kinds DEF m
  <2>3. CASE flag[k] = -nleaf
    <3>1. /\ n \in New /\ x = Send(r, k, n, OldOct(k), 0)
          /\ oldrank[newtoold[n]] # r \/ newrank[n] # r
      BY <1>2, <1>4, <2>3
    <3>2. OldOct(k) \in Oct /\ flag[newtoold[n]] = -nleaf
      BY <1>2, <2>3 DEF Maps, Paired
    <3>3. newtoold[n] + OldOct(k) = k
      BY <1>2, <3>1, MapTypes DEF OldOct
    <3>4. /\ Source(n, OldOct(k)) = k
          /\ Travels(n, OldOct(k)) <=> (oldrank[newtoold[n]] # newrank[n] \/ oldrank[k] # newrank[n])
          /\ SendOf(n, OldOct(k)) = Msg(n, OldOct(k), Restricted(k))
      <4> DEFINE h == newtoold[n]
                 q == OldOct(k)
      <4>1. n \in New /\ q \in Oct /\ newtoold[n] = h /\ flag[h] = -nleaf /\ h + q = k
        BY <3>1, <3>2, <3>3
      <4> HIDE DEF h, q
      <4>2. /\ Source(n, q) = h + q
            /\ Travels(n, q) <=> (oldrank[h] # newrank[n] \/ oldrank[h + q] # newrank[n])
            /\ SendOf(n, q) = Msg(n, q, Restricted(h + q))
        BY <1>3, <4>1
      <4> QED
        BY <4>1, <4>2 DEF h, q
    <3>5. Travels(n, OldOct(k))
      BY <1>2, <3>1, <3>4
    <3>6. x = SendOf(n, OldOct(k))
      BY <1>2, <2>3, <3>1, <3>4 DEF Send
    <3> QED
      BY <1>2, <3>1, <3>2, <3>4, <3>5, <3>6
  <2> QED
    BY <1>2, <2>1, <2>2, <2>3
<1>5. ASSUME NEW m \in New, NEW o \in Oct, Travels(m, o), oldrank[Source(m, o)] = r
      PROVE  \E k \in OldOn(r) : SendOf(m, o) \in T(k)
  <2>1. PICK h \in Old : newtoold[m] = h /\ h \in Nat /\ m \in Nat /\ flag[h] \in {-nleaf, 0, 1}
    BY MapTypes
  <2>2. CASE flag[h] = 0
    <3>1. /\ Source(m, o) = h /\ o = 0 /\ oldrank[h] # newrank[m]
          /\ SendOf(m, o) = Msg(m, o, [q \in Oct |-> Data(h, q)])
      BY <1>3, <1>5, <2>1, <2>2
    <3>2. h \in OldOn(r) /\ newrank[m] # r
      BY <1>5, <3>1 DEF OldOn, Old
    <3>3. oldtonew[h] = m
      BY <2>1, <2>2 DEF Maps, Paired
    <3>4. SendOf(m, o) = Send(r, h, m, 0, 0)
      BY <1>2, <2>2, <3>1, <3>2 DEF Send
    <3>5. T(h) = {Send(r, h, m, 0, 0)}
      BY <1>2, <2>2, <3>2, <3>3
    <3> QED
      BY <3>2, <3>4, <3>5
  <2>3. CASE flag[h] = 1
    <3>1. /\ Source(m, o) = h /\ o = 0
          /\ newrank[oldtonew[h]] # newrank[m] \/ oldrank[h] # newrank[m]
          /\ SendOf(m, o) = Msg(m, o, Data(h, NewOct(m)))
      BY <1>3, <1>5, <2>1, <2>3
    <3>2. h \in OldOn(r) /\ oldrank[h] = r
      BY <1>5, <3>1 DEF OldOn, Old
    <3>3. NewOct(m) \in Oct
      BY <2>1, <2>3 DEF Maps, Paired
    <3>4. oldtonew[h] + NewOct(m) = m
      BY <1>2, <2>1, <3>2 DEF NewOct
    <3>5. LeafTravels(r, oldtonew[h], NewOct(m))
      <4>1. newrank[oldtonew[h]] # r \/ newrank[m] # r
        BY <3>1, <3>2
      <4> QED
        BY <3>4, <4>1 DEF LeafTravels
    <3>6. SendOf(m, o) = Send(r, h, m, 0, NewOct(m))
      BY <1>2, <2>3, <3>1, <3>2, <3>3 DEF Send
    <3>7. SendOf(m, o) \in T(h)
      <4>1. T(h) = {Send(r, h, oldtonew[h] + l, 0, l) :
                      l \in {j \in Oct : LeafTravels(r, oldtonew[h], j)}}
        BY <1>2, <2>3, <3>2
      <4>2. Send(r, h, oldtonew[h] + NewOct(m), 0, NewOct(m)) \in T(h)
        BY <3>3, <3>5, <4>1
      <4> QED
        BY <3>4, <3>6, <4>2
    <3> QED
      BY <3>2, <3>7
  <2>4. CASE flag[h] = -nleaf
    <3>1. h + o \in Old /\ flag[h + o] = -nleaf /\ oldtonew[h + o] = m
      BY <2>1, <2>4 DEF Maps, Paired
    <3>2. /\ Source(m, o) = h + o
          /\ oldrank[h] # newrank[m] \/ oldrank[h + o] # newrank[m]
          /\ SendOf(m, o) = Msg(m, o, Restricted(h + o))
      BY <1>3, <1>5, <2>1, <2>4
    <3> DEFINE k == h + o
    <3>3. /\ k \in OldOn(r) /\ flag[k] = -nleaf /\ oldtonew[k] = m /\ oldrank[k] = r
          /\ oldrank[h] # newrank[m] \/ oldrank[k] # newrank[m]
          /\ SendOf(m, o) = Msg(m, o, Restricted(k))
      BY <1>5, <3>1, <3>2 DEF OldOn, Old
    <3>4. OldOct(k) = o
      BY <2>1, <3>1, Kinds DEF OldOct
    <3> HIDE DEF k
    <3>5. oldrank[h] # r \/ newrank[m] # r
      BY <3>3
    <3>6. SendOf(m, o) = Send(r, k, m, OldOct(k), 0)
      BY <1>2, <3>3, <3>4 DEF Send
    <3>7. T(k) = {Send(r, k, m, OldOct(k), 0)}
      BY <1>2, <2>1, <3>3, <3>5
    <3> QED
      BY <3>3, <3>6, <3>7
  <2> QED
    BY <2>1, <2>2, <2>3, <2>4
<1>6. \A x : x \in Posts(r) <=>
        \E m \in New, o \in Oct : Travels(m, o) /\ oldrank[Source(m, o)] = r /\ x = SendOf(m, o)
  BY DEF Posts
<1>7. \A x : x \in Sends(r) <=> x \in Posts(r)
  BY <1>1, <1>4, <1>5, <1>6
<1> QED
  BY <1>7, Zenon

-----------------------------------------------------------------------------
\* A message names the block and the octant it is for
LEMMA KeyIs ==
  ASSUME Maps, NEW r \in Ranks, NEW m \in NewOn(r), NEW n \in New, NEW o, NEW q
  PROVE  /\ RecvOf(n, q).lid = m - nmbs(r) /\ newrank[n] = r => n = m
         /\ RecvOf(n, q).oct = q
         /\ SendOf(n, q).to = newrank[n] /\ SendOf(n, q).oct = q
         /\ Meet(RecvOf(m, o).from, SendOf(n, q), r, RecvOf(m, o)) <=> n = m /\ q = o
<1>1. m \in Nat /\ nmbs(r) \in Nat /\ newrank[m] = r
  BY Indices
<1>2. newrank[n] = r => n \in Nat /\ n \in NewOn(r)
  BY MapTypes DEF NewOn, New
<1>3. /\ RecvOf(n, q).lid = n - nmbs(newrank[n]) /\ RecvOf(n, q).oct = q
      /\ RecvOf(m, o).lid = m - nmbs(r) /\ RecvOf(m, o).oct = o
      /\ SendOf(n, q).to = newrank[n] /\ SendOf(n, q).oct = q
      /\ SendOf(n, q).lid = n - nmbs(newrank[n])
  BY <1>1 DEF RecvOf, SendOf
<1>4. newrank[n] = r /\ n - nmbs(newrank[n]) = m - nmbs(r) => n = m
  BY <1>1, <1>2
<1> QED
  BY <1>1, <1>3, <1>4 DEF Meet

\* Between ranks that have posted, to each expected message belongs the one posted
\* for the same block and octant, and no other
LEMMA Matches ==
  ASSUME Maps, NEW r \in Ranks, NEW s \in Ranks
  PROVE  /\ \A rcv \in Expected(r) : rcv.from = s =>
              \E snd : {x \in Posts(s) : Meet(s, x, r, rcv)} = {snd}
         /\ \A snd \in Posts(s) : snd.to = r =>
              \E rcv : {x \in Expected(r) : Meet(s, snd, r, x)} = {rcv}
         /\ \A m \in NewOn(r), o \in Oct :
              Travels(m, o) /\ RecvOf(m, o).from = s =>
                {x \in Posts(s) : Meet(s, x, r, RecvOf(m, o))} = {SendOf(m, o)}
<1>1. \A x : x \in Posts(s) <=>
        \E m \in New, o \in Oct : Travels(m, o) /\ oldrank[Source(m, o)] = s /\ x = SendOf(m, o)
  BY DEF Posts
<1>2. \A x : x \in Expected(r) <=> \E m \in NewOn(r), o \in Oct : Travels(m, o) /\ x = RecvOf(m, o)
  BY DEF Expected
<1>3. \A m, o : RecvOf(m, o).from = oldrank[Source(m, o)]
  BY DEF RecvOf
<1>4. ASSUME NEW m \in NewOn(r), NEW o \in Oct, Travels(m, o), RecvOf(m, o).from = s
      PROVE  {x \in Posts(s) : Meet(s, x, r, RecvOf(m, o))} = {SendOf(m, o)}
  <2>1. m \in New
    BY Indices
  <2>2. SendOf(m, o) \in Posts(s)
    BY <1>1, <1>3, <1>4, <2>1
  <2>3. Meet(s, SendOf(m, o), r, RecvOf(m, o))
    BY <1>4, <2>1, KeyIs
  <2>4. ASSUME NEW x \in Posts(s), Meet(s, x, r, RecvOf(m, o))
        PROVE  x = SendOf(m, o)
    <3>1. PICK n \in New, q \in Oct : x = SendOf(n, q)
      BY <1>1
    <3>2. n = m /\ q = o
      BY <1>4, <2>4, <3>1, KeyIs
    <3> QED
      BY <3>1, <3>2
  <2> QED
    BY <2>2, <2>3, <2>4
<1>5. ASSUME NEW snd \in Posts(s), snd.to = r
      PROVE  \E rcv : {x \in Expected(r) : Meet(s, snd, r, x)} = {rcv}
  <2>1. PICK m \in New, o \in Oct : /\ Travels(m, o) /\ oldrank[Source(m, o)] = s
                                    /\ snd = SendOf(m, o)
    BY <1>1
  <2>2. m \in NewOn(r)
    BY <1>5, <2>1 DEF SendOf, NewOn, New
  <2>3. RecvOf(m, o) \in Expected(r) /\ RecvOf(m, o).from = s
    BY <1>2, <1>3, <2>1, <2>2
  <2>4. Meet(s, snd, r, RecvOf(m, o))
    BY <2>1, <2>2, <2>3, KeyIs
  <2>5. ASSUME NEW x \in Expected(r), Meet(s, snd, r, x)
        PROVE  x = RecvOf(m, o)
    <3>1. PICK n \in NewOn(r), q \in Oct : x = RecvOf(n, q)
      BY <1>2
    <3>2. RecvOf(n, q).from = s
      BY <2>5, <3>1 DEF Meet
    <3>3. m = n /\ o = q
      BY <2>1, <2>5, <3>1, <3>2, KeyIs
    <3> QED
      BY <3>1, <3>3
  <2> QED
    BY <2>3, <2>4, <2>5
<1>6. ASSUME NEW rcv \in Expected(r), rcv.from = s
      PROVE  \E snd : {x \in Posts(s) : Meet(s, x, r, rcv)} = {snd}
  <2>1. PICK m \in NewOn(r), o \in Oct : Travels(m, o) /\ rcv = RecvOf(m, o)
    BY <1>2
  <2>2. {x \in Posts(s) : Meet(s, x, r, rcv)} = {SendOf(m, o)}
    <3>1. RecvOf(m, o).from = s
      BY <1>6, <2>1
    <3>2. {x \in Posts(s) : Meet(s, x, r, RecvOf(m, o))} = {SendOf(m, o)}
      BY <1>4, <2>1, <3>1, Zenon
    <3> QED
      BY <2>1, <3>2, Zenon
  <2> QED
    BY <2>2, Zenon
<1> QED
  BY <1>4, <1>5, <1>6, Zenon

\* Once all a rank waits for has arrived, what it finds for an octant of a block is
\* what the source of it has packed
LEMMA Arrivals ==
  ASSUME Maps, \A s \in Ranks : Messages(s), NEW r \in Ranks, pc[r] = "ClearRecv",
         \A rcv \in recvs[r] : Arrived(r, rcv) # {},
         NEW m \in NewOn(r), NEW o \in Oct
  PROVE  /\ (\E q \in recvs[r] : q.lid = m - nmbs(r) /\ q.oct = o) <=> Travels(m, o)
         /\ Travels(m, o) => Got(r, m - nmbs(r), o) = SendOf(m, o).data
<1>1. recvs[r] = Expected(r)
  BY DEF Messages
<1>2. \A x : x \in Expected(r) <=> \E n \in NewOn(r), q \in Oct : Travels(n, q) /\ x = RecvOf(n, q)
  BY DEF Expected
<1>3. m \in New /\ RecvOf(m, o).lid = m - nmbs(r) /\ RecvOf(m, o).oct = o
  BY Indices DEF RecvOf
<1>4. ASSUME NEW x \in recvs[r], x.lid = m - nmbs(r), x.oct = o
      PROVE  x = RecvOf(m, o) /\ Travels(m, o)
  <2>1. PICK n \in NewOn(r), q \in Oct : Travels(n, q) /\ x = RecvOf(n, q)
    BY <1>1, <1>2
  <2>2. n \in New /\ newrank[n] = r
    BY Indices
  <2>3. n = m /\ q = o
    BY <1>4, <2>1, <2>2, KeyIs
  <2> QED
    BY <2>1, <2>3
<1>5. Travels(m, o) => RecvOf(m, o) \in recvs[r]
  BY <1>1, <1>2
<1>6. ASSUME Travels(m, o)
      PROVE  Got(r, m - nmbs(r), o) = SendOf(m, o).data
  <2> DEFINE rcv == RecvOf(m, o)
  <2>1. rcv \in recvs[r] /\ rcv.lid = m - nmbs(r) /\ rcv.oct = o
    BY <1>3, <1>5, <1>6
  <2> HIDE DEF rcv
  <2>2. (CHOOSE q \in recvs[r] : q.lid = m - nmbs(r) /\ q.oct = o) = rcv
    BY <1>4, <2>1 DEF rcv
  <2>3. rcv.from \in Ranks
    <3>1. Source(m, o) \in Old
      <4>1. newtoold[m] \in Old /\ flag[newtoold[m]] \in {-nleaf, 0, 1}
        BY <1>3, MapTypes
      <4>2. flag[newtoold[m]] < 0 => newtoold[m] + o \in Old
        <5>1. flag[newtoold[m]] < 0 => flag[newtoold[m]] = -nleaf
          BY <4>1, Kinds
        <5>2. flag[newtoold[m]] = -nleaf => newtoold[m] + o \in Old
          BY <1>3 DEF Maps, Paired
        <5> QED
          BY <5>1, <5>2
      <4> QED
        BY <4>1, <4>2 DEF Source
    <3>2. rcv.from = oldrank[Source(m, o)]
      BY DEF rcv, RecvOf
    <3> QED
      BY <3>1, <3>2, MapTypes
  <2>4. Arrived(r, rcv) # {}
    BY <2>1
  <2>5. sends[rcv.from] = Posts(rcv.from)
    BY <2>3, <2>4 DEF Arrived, Messages
  <2>6. Arrived(r, rcv) = {SendOf(m, o)}
    BY <1>6, <2>3, <2>5, Matches DEF Arrived, rcv
  <2>7. (CHOOSE snd \in Arrived(r, rcv) : TRUE) = SendOf(m, o)
    BY <2>6
  <2> QED
    BY <2>2, <2>7 DEF Got
<1> QED
  BY <1>3, <1>4, <1>5, <1>6

-----------------------------------------------------------------------------
\* What is defined of the maps alone does not change
LEMMA StaticKept ==
  ASSUME UNCHANGED maps
  PROVE  /\ Old' = Old /\ New' = New /\ Slots' = Slots
         /\ Maps => Maps'
         /\ \A r : /\ OldOn(r)' = OldOn(r) /\ NewOn(r)' = NewOn(r)
                   /\ ombs(r)' = ombs(r) /\ nmbs(r)' = nmbs(r)
                   /\ FineAtFirst(r)' = FineAtFirst(r)
                   /\ CoarseAtFirst(r)' = CoarseAtFirst(r)
                   /\ Gathered(r)' = Gathered(r)
                   /\ Kept(r)' = Kept(r)
                   /\ Expected(r)' = Expected(r) /\ Posts(r)' = Posts(r)
         /\ \A r, k : /\ From(r, k)' = From(r, k) /\ To(r, k)' = To(r, k)
                      /\ MovesLeft(r, k)' = MovesLeft(r, k)
                      /\ MovesRight(r, k)' = MovesRight(r, k)
         /\ \A m, o : Travels(m, o)' = Travels(m, o) /\ NewOct(m)' = NewOct(m)
<1>1. /\ flag' = flag /\ newtoold' = newtoold /\ oldtonew' = oldtonew
      /\ oldrank' = oldrank /\ newrank' = newrank
  BY DEF maps
<1>2. Old' = Old /\ New' = New /\ Slots' = Slots
  BY <1>1, Zenon DEF Old, New, Slots
<1>3. \A r : OldOn(r)' = OldOn(r) /\ NewOn(r)' = NewOn(r)
  BY <1>1, Zenon DEF OldOn, NewOn
<1>4. \A r : ombs(r)' = ombs(r) /\ nmbs(r)' = nmbs(r)
  BY <1>3, Zenon DEF ombs, nmbs
<1>5. \A k : OldOct(k)' = OldOct(k) /\ NewOct(k)' = NewOct(k)
  BY <1>1, Zenon DEF OldOct, NewOct
<1>6. \A r, i : Held(r, i)' = Held(r, i)
  BY <1>3, <1>4, Zenon DEF Held
<1>7. \A r : FineAtFirst(r)' = FineAtFirst(r)
  BY <1>2, <1>4, <1>6, Zenon DEF FineAtFirst
<1>8. \A r : CoarseAtFirst(r)' = CoarseAtFirst(r)
  BY <1>2, <1>4, <1>6, Zenon DEF CoarseAtFirst
<1>9. \A r, k : Gathers(r, k)' = Gathers(r, k)
  BY <1>1, Zenon DEF Gathers
<1>10. \A r : Gathered(r)' = Gathered(r)
  BY <1>2, <1>3, <1>4, <1>7, <1>8, <1>9, Zenon DEF Gathered
<1>11. \A r : Kept(r)' = Kept(r)
  BY <1>1, <1>3, Zenon DEF Kept
<1>12. \A r, k : From(r, k)' = From(r, k) /\ To(r, k)' = To(r, k) /\ Shift(r, k)' = Shift(r, k)
  BY <1>1, <1>4, Zenon DEF From, To, Shift
<1>13. \A r, k : MovesLeft(r, k)' = MovesLeft(r, k)
  BY <1>1, <1>4, <1>12, Zenon DEF MovesLeft
<1>14. \A r, k : MovesRight(r, k)' = MovesRight(r, k)
  BY <1>1, <1>12, Zenon DEF MovesRight
<1>15. \A m, o : Travels(m, o)' = Travels(m, o)
  BY <1>1, Zenon DEF Travels
<1>16. \A m, o : Source(m, o)' = Source(m, o)
  BY <1>1, Zenon DEF Source
<1>17. \A m : Payload(m)' = Payload(m)
  BY <1>1, <1>5, Zenon DEF Payload
<1>18. \A m, o : RecvOf(m, o)' = RecvOf(m, o) /\ SendOf(m, o)' = SendOf(m, o)
  BY <1>1, <1>4, <1>16, <1>17, Zenon DEF RecvOf, SendOf
<1>19. \A r : Expected(r)' = Expected(r)
  <2> DEFINE W(m) == {q \in Oct : Travels(m, q)}
             E(m) == {RecvOf(m, o) : o \in W(m)}
  <2>1. \A m : W(m)' = W(m)
    BY <1>15, Zenon
  <2> HIDE DEF W
  <2>2. \A m : E(m)' = E(m)
    BY <1>18, <2>1, Zenon
  <2>3. \A r : Expected(r) = UNION {E(m) : m \in NewOn(r)}
    BY Zenon DEF Expected, W
  <2>4. \A r : Expected(r)' = UNION {E(m)' : m \in NewOn(r)'}
    BY Zenon DEF Expected, W
  <2> HIDE DEF E
  <2> QED
    BY <1>3, <2>2, <2>3, <2>4, Zenon
<1>20. \A r : Posts(r)' = Posts(r)
  <2> DEFINE W(r, m) == {q \in Oct : Travels(m, q) /\ oldrank[Source(m, q)] = r}
             P(r, m) == {SendOf(m, o) : o \in W(r, m)}
  <2>1. \A r, m : W(r, m)' = W(r, m)
    BY <1>1, <1>15, <1>16, Zenon
  <2> HIDE DEF W
  <2>2. \A r, m : P(r, m)' = P(r, m)
    BY <1>18, <2>1, Zenon
  <2>3. \A r : Posts(r) = UNION {P(r, m) : m \in New}
    BY Zenon DEF Posts, W
  <2>4. \A r : Posts(r)' = UNION {P(r, m)' : m \in New'}
    BY Zenon DEF Posts, W
  <2> HIDE DEF P
  <2> QED
    BY <1>2, <2>2, <2>3, <2>4, Zenon
<1>21. Maps => Maps'
  <2>1. Paired => Paired'
    BY <1>1, <1>2, <1>5, Zenon DEF Paired
  <2> QED
    BY <1>1, <2>1, Zenon DEF Maps
<1> QED
  BY <1>2, <1>3, <1>4, <1>5, <1>7, <1>8, <1>10, <1>11, <1>12, <1>13, <1>14, <1>15,
     <1>19, <1>20, <1>21, Zenon

\* A step of one rank leaves what is known of the others
LEMMA OthersKept ==
  ASSUME NEW q \in Ranks, RankInv(q), UNCHANGED maps,
         pc'[q] = pc[q], fine'[q] = fine[q], coarse'[q] = coarse[q],
         copied'[q] = copied[q], recvs'[q] = recvs[q], sends'[q] = sends[q]
  PROVE  RankInv(q)'
<1>1. /\ flag' = flag /\ newtoold' = newtoold /\ newrank' = newrank
  BY DEF maps
<1>2. Messages(q)'
  BY StaticKept, Zenon DEF RankInv, Messages, Posted
<1>3. Untouched(q)'
  BY StaticKept, Zenon DEF RankInv, Untouched
<1>4. \A k : InPlace(q, k) => InPlace(q, k)'
  <2> TAKE k
  <2>1. /\ From(q, k)' = From(q, k) /\ To(q, k)' = To(q, k) /\ Gathered(q)' = Gathered(q)
        /\ (k \in copied[q])' = (k \in copied[q])
    BY StaticKept, Zenon
  <2> QED
    BY <2>1 DEF InPlace
<1>5. InOrder(q) => InOrder(q)'
  <2>1. /\ \A k : MovesLeft(q, k)' <=> MovesLeft(q, k)
        /\ \A k : MovesRight(q, k)' <=> MovesRight(q, k)
        /\ OldOn(q)' = OldOn(q)
    BY StaticKept
  <2> QED
    BY <2>1 DEF InOrder
<1>6. Copying(q)'
  BY <1>4, <1>5, StaticKept, Zenon DEF RankInv, Copying
<1>7. Moved(q)'
  BY StaticKept, Zenon DEF RankInv, Moved
<1>8. Octants(q)'
  BY <1>1, StaticKept, ZenonT(40) DEF RankInv, Octants
<1>9. Unpacked(q)'
  BY <1>1, StaticKept, ZenonT(40) DEF RankInv, Unpacked
<1>10. Finished(q)'
  BY <1>1, StaticKept, ZenonT(40) DEF RankInv, Finished
<1> QED
  BY <1>2, <1>3, <1>6, <1>7, <1>8, <1>9, <1>10 DEF RankInv

\* A step of one rank preserves the invariant if it preserves what is said of that rank
LEMMA LocalStep ==
  ASSUME IInv, NEW r \in Ranks, UNCHANGED maps, TypeOK', RankInv(r)',
         \A q \in Ranks \ {r} :
           /\ pc'[q] = pc[q] /\ fine'[q] = fine[q] /\ coarse'[q] = coarse[q]
           /\ copied'[q] = copied[q] /\ recvs'[q] = recvs[q] /\ sends'[q] = sends[q]
  PROVE  IInv'
<1>1. \A q \in Ranks : RankInv(q)'
  <2> SUFFICES ASSUME NEW q \in Ranks, q # r PROVE RankInv(q)'
    OBVIOUS
  <2> QED
    BY OthersKept DEF IInv
<1>2. Maps' /\ Ranks' = Ranks
  BY StaticKept DEF IInv, Ranks
<1> QED
  BY <1>1, <1>2 DEF IInv

\* The invariant holds at first
LEMMA InitIInv == Init => IInv
<1> SUFFICES ASSUME Init PROVE IInv
  OBVIOUS
<1>1. Maps
  BY InitMaps
<1>2. TypeOK
  BY DEF Init, TypeOK, Phases
<1>3. ASSUME NEW r \in Ranks PROVE RankInv(r)
  <2>1. /\ pc[r] = "InitRecv" /\ recvs[r] = {} /\ sends[r] = {} /\ copied[r] = {}
        /\ fine[r] = FineAtFirst(r) /\ coarse[r] = CoarseAtFirst(r)
    BY DEF Init, FineAtFirst, CoarseAtFirst
  <2> QED
    BY <2>1 DEF RankInv, Messages, Posted, Untouched, Copying, Moved, Octants, Unpacked, Finished
<1> QED
  BY <1>1, <1>2, <1>3 DEF IInv

\* A rank posts a receive for each message it expects
LEMMA InitRecvIInv ==
  ASSUME IInv, NEW r \in Ranks, InitRecvAMR(r)
  PROVE  IInv'
<1>1. /\ pc[r] = "InitRecv" /\ pc' = [pc EXCEPT ![r] = "PackAndSend"] /\ UNCHANGED maps
      /\ recvs' = [recvs EXCEPT ![r] = Recvs(r)]
      /\ UNCHANGED <<fine, coarse, copied, sends>>
  BY DEF InitRecvAMR, Step
<1>2. TypeOK'
  BY <1>1, StaticKept DEF IInv, TypeOK, Phases
<1>3. pc'[r] = "PackAndSend" /\ recvs'[r] = Expected(r)
  BY <1>1, ExpectedIs DEF IInv, TypeOK
<1>4. RankInv(r)
  BY DEF IInv
<1>5. Messages(r)'
  BY <1>1, <1>3, <1>4, StaticKept DEF RankInv, Messages, Posted
<1>6. Untouched(r)'
  BY <1>1, <1>3, <1>4, StaticKept DEF RankInv, Untouched
<1>7. RankInv(r)'
  BY <1>3, <1>5, <1>6 DEF RankInv, Copying, Moved, Octants, Unpacked, Finished
<1> QED
  BY <1>1, <1>2, <1>7, LocalStep DEF IInv, TypeOK

\* A rank packs its messages before anything has been moved
LEMMA PackAndSendIInv ==
  ASSUME IInv, NEW r \in Ranks, PackAndSendAMR(r)
  PROVE  IInv'
<1>1. /\ pc[r] = "PackAndSend" /\ pc' = [pc EXCEPT ![r] = "Derefine"] /\ UNCHANGED maps
      /\ sends' = [sends EXCEPT ![r] = Sends(r)]
      /\ UNCHANGED <<fine, coarse, copied, recvs>>
  BY DEF PackAndSendAMR, Step
<1>2. TypeOK'
  BY <1>1, StaticKept DEF IInv, TypeOK, Phases
<1>3. RankInv(r)
  BY DEF IInv
<1>4. pc'[r] = "Derefine" /\ sends'[r] = Posts(r)
  <2>1. Sends(r) = Posts(r)
    BY <1>1, <1>3, PostsIs DEF IInv, RankInv, Untouched
  <2> QED
    BY <1>1, <2>1 DEF IInv, TypeOK
<1>5. Messages(r)'
  BY <1>1, <1>3, <1>4, StaticKept DEF RankInv, Messages, Posted
<1>6. Untouched(r)'
  BY <1>1, <1>3, <1>4, StaticKept DEF RankInv, Untouched
<1>7. RankInv(r)'
  BY <1>4, <1>5, <1>6 DEF RankInv, Copying, Moved, Octants, Unpacked, Finished
<1> QED
  BY <1>1, <1>2, <1>7, LocalStep DEF IInv, TypeOK

\* The leaves that are here are gathered before they are moved
LEMMA DerefineIInv ==
  ASSUME IInv, NEW r \in Ranks, DerefineCCSameRank(r)
  PROVE  IInv'
<1> DEFINE G == [i \in DOMAIN fine[r] |->
                   LET k == i + ombs(r)
                   IN  IF k \in OldOn(r) /\ Gathers(r, k)
                       THEN [o \in Oct |-> IF k + o \in OldOn(r) THEN coarse[r][i + o]
                                           ELSE fine[r][i][o]]
                       ELSE fine[r][i]]
<1>1. /\ pc[r] = "Derefine" /\ pc' = [pc EXCEPT ![r] = "Copy"] /\ UNCHANGED maps
      /\ fine' = [fine EXCEPT ![r] = G]
      /\ UNCHANGED <<coarse, copied, recvs, sends>>
  BY DEF DerefineCCSameRank, Step
<1>2. RankInv(r) /\ DOMAIN fine[r] = Slots
  BY DEF IInv, TypeOK
<1>3. G = Gathered(r)
  <2>1. fine[r] = FineAtFirst(r) /\ coarse[r] = CoarseAtFirst(r)
    BY <1>1, <1>2 DEF RankInv, Untouched
  <2> QED
    BY <1>2, <2>1, Zenon DEF Gathered
<1>4. DOMAIN G = Slots
  BY <1>2
<1> HIDE DEF G
<1>5. TypeOK'
  BY <1>1, <1>4, StaticKept DEF IInv, TypeOK, Phases
<1>6. pc'[r] = "Copy" /\ fine'[r] = Gathered(r) /\ copied'[r] = {}
  BY <1>1, <1>2, <1>3 DEF IInv, TypeOK, RankInv, Untouched
<1>7. Messages(r)'
  BY <1>1, <1>2, <1>6, StaticKept DEF RankInv, Messages, Posted
<1>8. Untouched(r)'
  BY <1>1, <1>2, <1>6, StaticKept DEF RankInv, Untouched
<1>9. Copying(r)'
  <2>1. InOrder(r)'
    BY <1>6 DEF InOrder
  <2>2. ASSUME NEW k PROVE InPlace(r, k)'
    <3>1. From(r, k)' = From(r, k) /\ Gathered(r)' = Gathered(r)
      BY <1>1, StaticKept
    <3> QED
      BY <1>6, <3>1 DEF InPlace
  <2> QED
    BY <2>1, <2>2 DEF Copying
<1>10. RankInv(r)'
  BY <1>6, <1>7, <1>8, <1>9 DEF RankInv, Moved, Octants, Unpacked, Finished
<1> QED
  BY <1>1, <1>5, <1>10, LocalStep DEF IInv, TypeOK

-----------------------------------------------------------------------------
\* Where the blocks that stay on a rank come from and go to: the order is kept, only
\* leaves of one group go to the same place, and of those whose copy counts all that
\* do not stand still are moved
LEMMA Places ==
  ASSUME Maps, NEW r \in Ranks,
         NEW k \in OldOn(r), newrank[oldtonew[k]] = r
  PROVE  /\ From(r, k) \in Nat /\ From(r, k) \in Slots /\ To(r, k) \in Nat /\ To(r, k) \in Slots
         /\ newtoold[oldtonew[k]] <= k
         /\ MovesLeft(r, k) => k \in Kept(r) /\ To(r, k) < From(r, k)
         /\ MovesRight(r, k) <=> To(r, k) > From(r, k)
         /\ k \in Kept(r) /\ To(r, k) < From(r, k) => MovesLeft(r, k)
         /\ \A j \in OldOn(r) : newrank[oldtonew[j]] = r =>
              /\ j <= k => To(r, j) <= To(r, k)
              /\ j < k <=> From(r, j) < From(r, k)
              /\ To(r, j) = To(r, k) => oldtonew[j] = oldtonew[k]
<1>1. /\ k \in Old /\ k \in Nat /\ ombs(r) \in Nat /\ ombs(r) <= k
      /\ k - ombs(r) \in Slots /\ k - ombs(r) \in Nat
  BY Indices
<1>2. oldtonew[k] \in New /\ oldtonew[k] \in Nat /\ oldtonew[k] \in NewOn(r)
  BY <1>1, MapTypes DEF NewOn, New
<1>3. nmbs(r) \in Nat /\ oldtonew[k] - nmbs(r) \in Slots /\ oldtonew[k] - nmbs(r) \in Nat
  BY <1>2, Indices
<1>4. newtoold[oldtonew[k]] <= k
  <2>1. newtoold[oldtonew[k]] \in Nat /\ flag[k] \in {-nleaf, 0, 1}
    BY <1>1, <1>2, MapTypes
  <2>2. CASE newtoold[oldtonew[k]] = k
    BY <1>1, <2>2
  <2>3. CASE newtoold[oldtonew[k]] # k
    <3>1. flag[k] # 0
      BY <1>1, <2>3 DEF Maps, Paired
    <3>2. flag[k] # 1
      <4>1. flag[k] = 1 => newtoold[oldtonew[k] + 0] = k
        BY <1>1, Kinds DEF Maps, Paired
      <4> QED
        BY <1>2, <2>3, <4>1
    <3>3. OldOct(k) \in Oct
      BY <1>1, <2>1, <3>1, <3>2 DEF Maps, Paired
    <3> QED
      BY <1>1, <2>1, <3>3, Kinds DEF OldOct
  <2> QED
    BY <2>2, <2>3
<1>5. Shift(r, k) = To(r, k) - From(r, k)
  BY DEF Shift, To, From
<1>6. MovesLeft(r, k) => k \in Kept(r) /\ To(r, k) < From(r, k)
  <2> HAVE MovesLeft(r, k)
  <2>1. k > 0 /\ oldtonew[k] # oldtonew[k - 1] /\ Shift(r, k) < 0
    BY <1>1 DEF MovesLeft
  <2>2. newtoold[oldtonew[k]] = k
    BY <1>1, <2>1, FirstOfGroup
  <2> QED
    BY <1>1, <1>3, <1>5, <2>1, <2>2 DEF Kept, To, From
<1>7. MovesRight(r, k) <=> To(r, k) > From(r, k)
  BY <1>1, <1>3, <1>5 DEF MovesRight, To, From
<1>8. k \in Kept(r) /\ To(r, k) < From(r, k) => MovesLeft(r, k)
  <2> HAVE k \in Kept(r) /\ To(r, k) < From(r, k)
  <2>1. k > ombs(r) /\ k > 0 /\ Shift(r, k) < 0
    BY <1>1, <1>3, <1>5 DEF To, From
  <2>2. oldtonew[k - 1] # oldtonew[k]
    BY <1>1, <2>1, FirstOfGroup DEF Kept
  <2> QED
    BY <2>1, <2>2 DEF MovesLeft
<1>9. ASSUME NEW j \in OldOn(r), newrank[oldtonew[j]] = r
      PROVE  /\ j <= k => To(r, j) <= To(r, k)
             /\ j < k <=> From(r, j) < From(r, k)
             /\ To(r, j) = To(r, k) => oldtonew[j] = oldtonew[k]
  <2>1. j \in Old /\ j \in Nat /\ oldtonew[j] \in Nat
    BY Indices, MapTypes
  <2>2. j <= k => oldtonew[j] <= oldtonew[k]
    BY <1>1, <2>1 DEF Maps, Paired
  <2> QED
    BY <1>1, <1>2, <1>3, <2>1, <2>2 DEF To, From
<1> QED
  BY <1>1, <1>3, <1>4, <1>6, <1>7, <1>8, <1>9 DEF To, From

\* One copy: what it overwrites is not read any more
LEMMA CopyKeeps ==
  ASSUME Maps, NEW r \in Ranks, UNCHANGED maps, InOrder(r),
         \A h \in Kept(r) : InPlace(r, h), DOMAIN fine[r] = Slots,
         NEW k \in ToMove(r), \A j \in ToMove(r) \ {k} : Before(r, k, j),
         fine'[r] = [fine[r] EXCEPT ![To(r, k)] = fine[r][From(r, k)]],
         copied'[r] = copied[r] \cup {k}
  PROVE  InOrder(r)' /\ \A h \in Kept(r) : InPlace(r, h)'
<1>1. /\ k \in OldOn(r) /\ k \notin copied[r]
      /\ MovesLeft(r, k) \/ MovesRight(r, k)
      /\ newrank[oldtonew[k]] = r
  BY DEF ToMove, MovesLeft, MovesRight
<1>2. k \in Nat /\ \A j \in OldOn(r) : j \in Nat
  BY <1>1, Indices
<1>3. \A j \in OldOn(r) : j \notin copied[r] /\ j # k /\ (MovesLeft(r, j) \/ MovesRight(r, j)) =>
        IF MovesLeft(r, k) THEN MovesLeft(r, j) => k < j ELSE ~MovesLeft(r, j) /\ k > j
  BY DEF ToMove, Before
<1>4. InOrder(r)'
  <2>1. /\ \A h : MovesLeft(r, h)' <=> MovesLeft(r, h)
        /\ \A h : MovesRight(r, h)' <=> MovesRight(r, h)
        /\ OldOn(r)' = OldOn(r)
    BY StaticKept
  <2>2. /\ \A j \in OldOn(r) : MovesLeft(r, j) /\ (j < k \/ ~MovesLeft(r, k)) => j \in copied[r] \cup {k}
        /\ \A j \in OldOn(r) : MovesRight(r, j) /\ ~MovesLeft(r, k) /\ j > k => j \in copied[r] \cup {k}
    BY <1>2, <1>3
  <2> QED
    BY <1>1, <2>1, <2>2 DEF InOrder
<1>5. ASSUME NEW h \in Kept(r) PROVE InPlace(r, h)'
  <2>1. /\ h \in OldOn(r) /\ newrank[oldtonew[h]] = r /\ newtoold[oldtonew[h]] = h
        /\ h \in Nat /\ k \in Nat
    BY <1>2 DEF Kept
  <2>2. From(r, h)' = From(r, h) /\ To(r, h)' = To(r, h) /\ Gathered(r)' = Gathered(r)
    BY StaticKept
  <2>3. /\ From(r, k) \in Nat /\ To(r, k) \in Nat /\ From(r, h) \in Nat /\ To(r, h) \in Nat
        /\ To(r, k) \in Slots /\ To(r, h) \in Slots /\ From(r, h) \in Slots
        /\ newtoold[oldtonew[k]] <= k
        /\ MovesLeft(r, k) => k \in Kept(r) /\ To(r, k) < From(r, k)
        /\ MovesRight(r, k) => To(r, k) > From(r, k)
        /\ MovesLeft(r, h) <=> To(r, h) < From(r, h)
        /\ MovesRight(r, h) <=> To(r, h) > From(r, h)
        /\ h <= k => To(r, h) <= To(r, k)
        /\ h < k <=> From(r, h) < From(r, k)
        /\ k < h <=> From(r, k) < From(r, h)
        /\ To(r, h) = To(r, k) => oldtonew[h] = oldtonew[k]
    <3>1. /\ From(r, k) \in Nat /\ To(r, k) \in Nat /\ To(r, k) \in Slots
          /\ newtoold[oldtonew[k]] <= k
          /\ MovesLeft(r, k) => k \in Kept(r) /\ To(r, k) < From(r, k)
          /\ MovesRight(r, k) => To(r, k) > From(r, k)
          /\ h <= k => To(r, h) <= To(r, k)
          /\ h < k <=> From(r, h) < From(r, k)
          /\ To(r, h) = To(r, k) => oldtonew[h] = oldtonew[k]
      BY <1>1, <2>1, Places
    <3>2. /\ From(r, h) \in Nat /\ To(r, h) \in Nat /\ To(r, h) \in Slots /\ From(r, h) \in Slots
          /\ MovesLeft(r, h) <=> To(r, h) < From(r, h)
          /\ MovesRight(r, h) <=> To(r, h) > From(r, h)
          /\ k < h <=> From(r, k) < From(r, h)
      BY <1>1, <2>1, Places
    <3> QED
      BY <3>1, <3>2
  <2>4. CASE h = k
    <3>1. fine[r][From(r, k)] = Gathered(r)[From(r, k)]
      BY <1>1, <2>4 DEF InPlace
    <3>2. fine'[r][To(r, k)] = fine[r][From(r, k)] /\ h \in copied'[r]
      BY <2>3, <2>4
    <3> QED
      BY <2>2, <2>4, <3>1, <3>2 DEF InPlace
  <2>5. CASE h # k
    <3> DEFINE pos == IF h \in copied[r] THEN To(r, h) ELSE From(r, h)
    <3>1. pos # To(r, k)
      <4>1. CASE MovesLeft(r, k)
        <5>1. To(r, h) # To(r, k)
          <6>1. newtoold[oldtonew[k]] = k
            BY <2>3, <4>1 DEF Kept
          <6> QED
            BY <2>1, <2>3, <2>5, <6>1
        <5>2. ASSUME h \notin copied[r], From(r, h) = To(r, k) PROVE FALSE
          <6>1. h < k
            BY <2>3, <4>1, <5>2
          <6>2. ~MovesLeft(r, h)
            BY <1>3, <2>1, <2>5, <4>1, <5>2, <6>1
          <6> QED
            BY <2>1, <2>3, <5>1, <5>2, <6>1, <6>2
        <5> QED
          BY <5>1, <5>2
      <4>2. CASE ~MovesLeft(r, k)
        <5>1. MovesRight(r, k) /\ To(r, k) > From(r, k)
          BY <1>1, <2>3, <4>2
        <5>2. To(r, h) = To(r, k) => h < k
          BY <2>1, <2>3, <2>5
        <5>3. ASSUME h \in copied[r], To(r, h) = To(r, k) PROVE FALSE
          <6>1. h < k
            BY <5>2, <5>3
          <6>2. ~MovesLeft(r, h)
            BY <2>3, <5>1, <5>3, <6>1
          <6>3. k \in copied[r]
            BY <1>1, <5>1, <5>3, <6>1, <6>2, <2>1 DEF InOrder
          <6> QED
            BY <1>1, <6>3
        <5>4. ASSUME h \notin copied[r], From(r, h) = To(r, k) PROVE FALSE
          <6>1. k < h
            BY <2>3, <5>1, <5>4
          <6>2. ~MovesLeft(r, h) /\ ~MovesRight(r, h)
            BY <1>3, <2>1, <2>5, <4>2, <5>4, <6>1
          <6> QED
            BY <2>1, <2>3, <5>2, <5>4, <6>1, <6>2
        <5> QED
          BY <5>3, <5>4
      <4> QED
        BY <4>1, <4>2
    <3>2. pos \in Slots
      BY <2>3
    <3>3. fine'[r][pos] = fine[r][pos]
      BY <3>1, <3>2
    <3>4. fine[r][pos] = Gathered(r)[From(r, h)]
      BY DEF InPlace
    <3>5. h \in copied'[r] <=> h \in copied[r]
      BY <2>5
    <3> QED
      BY <2>2, <3>3, <3>4, <3>5 DEF InPlace
  <2> QED
    BY <2>4, <2>5
<1> QED
  BY <1>4, <1>5

\* Copying a block leaves every other where it is or has been moved to
LEMMA CopyCCIInv ==
  ASSUME IInv, NEW r \in Ranks, NEW k \in OldOn(r), CopyCC(r, k)
  PROVE  IInv'
<1>1. /\ pc[r] = "Copy" /\ UNCHANGED maps
      /\ k \in ToMove(r) /\ \A j \in ToMove(r) \ {k} : Before(r, k, j)
      /\ fine' = [fine EXCEPT ![r][To(r, k)] = fine[r][From(r, k)]]
      /\ copied' = [copied EXCEPT ![r] = copied[r] \cup {k}]
      /\ UNCHANGED <<pc, coarse, recvs, sends>>
  BY DEF CopyCC, To, From
<1>2. RankInv(r) /\ DOMAIN fine[r] = Slots /\ r \in DOMAIN fine /\ r \in DOMAIN copied
  BY DEF IInv, TypeOK
<1>3. /\ fine'[r] = [fine[r] EXCEPT ![To(r, k)] = fine[r][From(r, k)]]
      /\ copied'[r] = copied[r] \cup {k}
  BY <1>1, <1>2
<1>4. TypeOK'
  <2>1. DOMAIN fine' = Ranks /\ \A q \in Ranks : DOMAIN fine'[q] = Slots
    BY <1>1, <1>2 DEF IInv, TypeOK
  <2>2. copied' \in [Ranks -> SUBSET Old]
    <3>1. k \in Old
      BY Indices DEF IInv
    <3> QED
      BY <1>1, <3>1 DEF IInv, TypeOK
  <2> QED
    BY <1>1, <2>1, <2>2, StaticKept DEF IInv, TypeOK
<1>5. InOrder(r)' /\ \A h \in Kept(r) : InPlace(r, h)'
  BY <1>1, <1>2, <1>3, CopyKeeps DEF IInv, RankInv, Copying
<1>6. Copying(r)'
  BY <1>1, <1>5, StaticKept, Zenon DEF Copying
<1>7. Messages(r)'
  BY <1>1, <1>2, StaticKept DEF RankInv, Messages, Posted
<1>8. Untouched(r)'
  BY <1>1, <1>2, StaticKept DEF RankInv, Untouched
<1>9. RankInv(r)'
  BY <1>1, <1>6, <1>7, <1>8 DEF RankInv, Moved, Octants, Unpacked, Finished
<1> QED
  BY <1>1, <1>4, <1>9, LocalStep DEF IInv, TypeOK

\* When nothing is left to move, every block that stays is in its place
LEMMA EndCopyIInv ==
  ASSUME IInv, NEW r \in Ranks, EndCopyCC(r)
  PROVE  IInv'
<1>1. /\ pc[r] = "Copy" /\ pc' = [pc EXCEPT ![r] = "CopyForRefinement"] /\ UNCHANGED maps
      /\ ToMove(r) = {}
      /\ UNCHANGED <<fine, coarse, copied, recvs, sends>>
  BY DEF EndCopyCC, Step
<1>2. RankInv(r) /\ pc'[r] = "CopyForRefinement" /\ Maps
  BY <1>1 DEF IInv, TypeOK
<1>3. TypeOK'
  BY <1>1, StaticKept DEF IInv, TypeOK, Phases
<1>4. ASSUME NEW k \in Kept(r)
      PROVE  fine[r][To(r, k)] = Gathered(r)[From(r, k)]
  <2>1. InPlace(r, k)
    BY <1>1, <1>2 DEF RankInv, Copying
  <2>2. CASE k \in copied[r]
    BY <2>1, <2>2 DEF InPlace
  <2>3. CASE k \notin copied[r]
    <3>1. k \in OldOn(r) /\ newrank[oldtonew[k]] = r
      BY DEF Kept
    <3>2. ~MovesLeft(r, k) /\ ~MovesRight(r, k)
      BY <1>1, <2>3, <3>1 DEF ToMove
    <3>3. To(r, k) = From(r, k)
      BY <1>2, <3>1, <3>2, Places
    <3> QED
      BY <2>1, <2>3, <3>3 DEF InPlace
  <2> QED
    BY <2>2, <2>3
<1>5. Moved(r)'
  BY <1>1, <1>4, StaticKept, Zenon DEF Moved
<1>6. Messages(r)'
  BY <1>1, <1>2, StaticKept DEF RankInv, Messages, Posted
<1>7. Untouched(r)'
  BY <1>1, <1>2, StaticKept DEF RankInv, Untouched
<1>8. RankInv(r)'
  BY <1>2, <1>5, <1>6, <1>7 DEF RankInv, Copying, Octants, Unpacked, Finished
<1> QED
  BY <1>1, <1>3, <1>8, LocalStep DEF IInv, TypeOK

\* What there is to copy of a block: itself, or the restricted leaves that are here
LEMMA GatheredIs ==
  ASSUME Maps, NEW r \in Ranks, NEW k \in Kept(r), NEW o \in Oct
  PROVE  Gathered(r)[From(r, k)][o] =
           IF flag[k] = -nleaf /\ k + o \in OldOn(r) THEN Restricted(k + o) ELSE Data(k, o)
<1> DEFINE i == From(r, k)
<1>1. /\ k \in OldOn(r) /\ k \in Old /\ k \in Nat /\ ombs(r) \in Nat
      /\ newrank[oldtonew[k]] = r /\ newtoold[oldtonew[k]] = k
      /\ flag[k] \in {-nleaf, 0, 1} /\ o \in Nat
  BY Indices, MapTypes, Kinds DEF Kept
<1>2. i \in Slots /\ i + ombs(r) = k /\ i \in Nat
  BY <1>1, Indices DEF From
<1> HIDE DEF i
<1>3. Gathers(r, k) <=> flag[k] = -nleaf
  <2>1. flag[k] < -1 <=> flag[k] = -nleaf
    BY <1>1, Kinds
  <2> QED
    BY <1>1, <2>1, FirstOfGroup DEF Gathers
<1>4. FineAtFirst(r)[i][o] = Data(k, o)
  BY <1>1, <1>2 DEF FineAtFirst, Held
<1>5. k + o \in OldOn(r) => CoarseAtFirst(r)[i + o] = Restricted(k + o)
  <2> HAVE k + o \in OldOn(r)
  <2>1. (k + o) - ombs(r) \in Slots
    BY Indices
  <2>2. i + o \in Slots /\ (i + o) + ombs(r) = k + o
    <3> DEFINE b == ombs(r)
    <3>1. i \in Nat /\ b \in Nat /\ o \in Nat /\ i + b = k
      BY <1>1, <1>2
    <3> HIDE DEF b
    <3>2. i + o = (k + o) - b /\ (i + o) + b = k + o
      BY <3>1
    <3> QED
      BY <2>1, <3>2 DEF b
  <2> QED
    BY <2>2 DEF CoarseAtFirst, Held
<1>6. Gathered(r)[i] = IF Gathers(r, k)
                       THEN [q \in Oct |-> IF k + q \in OldOn(r) THEN CoarseAtFirst(r)[i + q]
                                           ELSE FineAtFirst(r)[i][q]]
                       ELSE FineAtFirst(r)[i]
  BY <1>1, <1>2 DEF Gathered
<1> QED
  BY <1>3, <1>4, <1>5, <1>6 DEF i

\* A new block whose data have not travelled is a copy of its old one
LEMMA StayersAreKept ==
  ASSUME Maps, NEW r \in Ranks, NEW m \in NewOn(r), NEW o \in Oct, ~Travels(m, o)
  PROVE  LET k == newtoold[m] IN
         /\ flag[k] = 0 /\ o = 0 => k \in Kept(r) /\ To(r, k) = m - nmbs(r)
         /\ flag[k] = -nleaf => k \in Kept(r) /\ To(r, k) = m - nmbs(r) /\ k + o \in OldOn(r)
         /\ flag[k] = 1 /\ o = 0 => k \in Kept(r) /\ newrank[oldtonew[k]] = r
<1> DEFINE k == newtoold[m]
<1>1. /\ m \in New /\ newrank[m] = r /\ k \in Old /\ k \in Nat /\ flag[k] \in {-nleaf, 0, 1}
      /\ oldtonew[k] \in New /\ oldtonew[k] \in Nat
  BY Indices, MapTypes
<1>2. OldOn(r) = {j \in Old : oldrank[j] = r}
  BY DEF OldOn, Old
<1>3. ASSUME flag[k] = 0, o = 0
      PROVE  k \in Kept(r) /\ To(r, k) = m - nmbs(r)
  <2>1. oldtonew[k] = m
    BY <1>1, <1>3 DEF Maps, Paired
  <2>2. oldrank[k] = r
    BY <1>1, <1>3 DEF Travels
  <2> QED
    BY <1>1, <1>2, <2>1, <2>2 DEF Kept, To
<1>4. ASSUME flag[k] = -nleaf
      PROVE  k \in Kept(r) /\ To(r, k) = m - nmbs(r) /\ k + o \in OldOn(r)
  <2>1. k + o \in Old /\ oldtonew[k + 0] = m
    BY <1>1, <1>4, Kinds DEF Maps, Paired
  <2>2. oldrank[k] = r /\ oldrank[k + o] = r
    <3>1. flag[k] < 0 /\ flag[k] # 0 /\ ~(flag[k] > 0)
      BY <1>4, Kinds
    <3>2. Travels(m, o) <=> oldrank[k] # newrank[m] \/ oldrank[k + o] # newrank[m]
      BY <3>1 DEF Travels
    <3> QED
      BY <1>1, <3>2
  <2> QED
    BY <1>1, <1>2, <2>1, <2>2 DEF Kept, To
<1>5. ASSUME flag[k] = 1, o = 0
      PROVE  k \in Kept(r) /\ newrank[oldtonew[k]] = r
  <2>1. newtoold[oldtonew[k] + 0] = k
    BY <1>1, <1>5, Kinds DEF Maps, Paired
  <2>2. oldrank[k] = r /\ newrank[oldtonew[k]] = r
    BY <1>1, <1>5 DEF Travels
  <2> QED
    BY <1>1, <1>2, <2>1, <2>2 DEF Kept
<1> QED
  BY <1>3, <1>4, <1>5

\* The octants are taken from the block that is refined, which has been moved by then
LEMMA CopyForRefinementIInv ==
  ASSUME IInv, NEW r \in Ranks, CopyForRefinementCC(r)
  PROVE  IInv'
<1> DEFINE C == [i \in DOMAIN coarse[r] |->
                   LET m == i + nmbs(r)
                   IN  IF /\ m \in NewOn(r) /\ flag[newtoold[m]] > 0
                          /\ newrank[oldtonew[newtoold[m]]] = r
                       THEN fine[r][RefineSource(r, m)][NewOct(m)]
                       ELSE coarse[r][i]]
<1>1. /\ pc[r] = "CopyForRefinement" /\ pc' = [pc EXCEPT ![r] = "ClearSend"] /\ UNCHANGED maps
      /\ coarse' = [coarse EXCEPT ![r] = C]
      /\ UNCHANGED <<fine, copied, recvs, sends>>
  BY DEF CopyForRefinementCC, Step
<1>2. RankInv(r) /\ pc'[r] = "ClearSend" /\ Maps /\ DOMAIN coarse[r] = Slots /\ coarse'[r] = C
  BY <1>1 DEF IInv, TypeOK
<1>3. DOMAIN C = Slots
  BY <1>2
<1>4. TypeOK'
  <2> HIDE DEF C
  <2> QED
    BY <1>1, <1>3, StaticKept DEF IInv, TypeOK, Phases
<1>5. ASSUME NEW m \in NewOn(r), flag[newtoold[m]] = 1, ~Travels(m, 0)
      PROVE  C[m - nmbs(r)] = Data(newtoold[m], NewOct(m))
  <2> DEFINE k == newtoold[m]
  <2>1. k \in Kept(r) /\ newrank[oldtonew[k]] = r
    BY <1>2, <1>5, StayersAreKept, Kinds
  <2>2. /\ m \in New /\ m - nmbs(r) \in Slots /\ (m - nmbs(r)) + nmbs(r) = m
    BY <1>2, Indices
  <2>3. C[m - nmbs(r)] = fine[r][To(r, k)][NewOct(m)]
    BY <1>2, <1>5, <2>1, <2>2 DEF RefineSource, To
  <2>4. NewOct(m) \in Oct
    BY <1>2, <1>5, <2>2 DEF Maps, Paired
  <2>5. fine[r][To(r, k)] = Gathered(r)[From(r, k)]
    BY <1>1, <1>2, <2>1 DEF RankInv, Moved
  <2>6. Gathered(r)[From(r, k)][NewOct(m)] = Data(k, NewOct(m))
    BY <1>2, <1>5, <2>1, <2>4, GatheredIs, Kinds
  <2> QED
    BY <2>3, <2>5, <2>6
<1> HIDE DEF C
<1>6. Octants(r)'
  <2>1. \A m \in NewOn(r) : flag[newtoold[m]] = 1 /\ ~Travels(m, 0) =>
          coarse'[r][m - nmbs(r)] = Data(newtoold[m], NewOct(m))
    BY <1>2, <1>5
  <2>2. flag' = flag /\ newtoold' = newtoold
    BY <1>1 DEF maps
  <2> QED
    BY <1>1, <2>1, <2>2, StaticKept, Zenon DEF Octants
<1>7. Moved(r)'
  BY <1>1, <1>2, StaticKept, Zenon DEF RankInv, Moved
<1>8. Messages(r)'
  BY <1>1, <1>2, StaticKept DEF RankInv, Messages, Posted
<1>9. RankInv(r)'
  BY <1>2, <1>6, <1>7, <1>8 DEF RankInv, Untouched, Copying, Unpacked, Finished
<1> QED
  BY <1>1, <1>4, <1>9, LocalStep DEF IInv, TypeOK

\* Waiting for the sends changes nothing else
LEMMA ClearSendIInv ==
  ASSUME IInv, NEW r \in Ranks, NEW buffered, ClearSendAMR(r, buffered)
  PROVE  IInv'
<1>1. /\ pc[r] = "ClearSend" /\ pc' = [pc EXCEPT ![r] = "ClearRecv"] /\ UNCHANGED maps
      /\ UNCHANGED <<fine, coarse, copied, recvs, sends>>
  BY DEF ClearSendAMR, Step
<1>2. RankInv(r) /\ pc'[r] = "ClearRecv"
  BY <1>1 DEF IInv, TypeOK
<1>3. TypeOK'
  BY <1>1, StaticKept DEF IInv, TypeOK, Phases
<1>4. Messages(r)'
  BY <1>1, <1>2, StaticKept DEF RankInv, Messages, Posted
<1>5. Moved(r)'
  BY <1>1, <1>2, StaticKept, Zenon DEF RankInv, Moved
<1>6. Octants(r)'
  <2>1. flag' = flag /\ newtoold' = newtoold
    BY <1>1 DEF maps
  <2> QED
    BY <1>1, <1>2, <2>1, StaticKept, Zenon DEF RankInv, Octants
<1>7. RankInv(r)'
  BY <1>2, <1>4, <1>5, <1>6 DEF RankInv, Untouched, Copying, Unpacked, Finished
<1> QED
  BY <1>1, <1>3, <1>7, LocalStep DEF IInv, TypeOK

\* Every octant of a new block has been brought by its message or stood there already,
\* as a copy of what was gathered on this rank
LEMMA ClearRecvIInv ==
  ASSUME IInv, NEW r \in Ranks, ClearRecvAndUnpackAMR(r)
  PROVE  IInv'
<1> DEFINE for(i, o) == \E q \in recvs[r] : q.lid = i /\ q.oct = o
           kind(i) == flag[newtoold[i + nmbs(r)]]
           F == [i \in DOMAIN fine[r] |->
                   IF for(i, 0) /\ kind(i) = 0
                   THEN Got(r, i, 0)
                   ELSE [o \in Oct |-> IF for(i, o) /\ kind(i) < 0 THEN Got(r, i, o)
                                       ELSE fine[r][i][o]]]
           C == [i \in DOMAIN coarse[r] |->
                   IF for(i, 0) /\ kind(i) > 0 THEN Got(r, i, 0) ELSE coarse[r][i]]
<1>1. /\ pc[r] = "ClearRecv" /\ pc' = [pc EXCEPT ![r] = "Refine"] /\ UNCHANGED maps
      /\ \A rcv \in recvs[r] : Arrived(r, rcv) # {}
      /\ fine' = [fine EXCEPT ![r] = F]
      /\ coarse' = [coarse EXCEPT ![r] = C]
      /\ UNCHANGED <<copied, recvs, sends>>
  BY DEF ClearRecvAndUnpackAMR, Step
<1>2. /\ RankInv(r) /\ Maps /\ DOMAIN fine[r] = Slots /\ DOMAIN coarse[r] = Slots
      /\ r \in DOMAIN fine /\ r \in DOMAIN coarse /\ pc'[r] = "Refine"
  BY <1>1 DEF IInv, TypeOK
<1>3. DOMAIN F = Slots /\ DOMAIN C = Slots
  BY <1>2
<1>4. TypeOK'
  <2> HIDE DEF F, C
  <2> QED
    BY <1>1, <1>3, StaticKept DEF IInv, TypeOK, Phases
<1>5. ASSUME NEW m \in NewOn(r)
      PROVE  LET k == newtoold[m] IN
             /\ flag[k] = 0 => \A o \in Oct : F[m - nmbs(r)][o] = Data(k, o)
             /\ flag[k] = -nleaf => \A o \in Oct : F[m - nmbs(r)][o] = Restricted(k + o)
             /\ flag[k] = 1 => C[m - nmbs(r)] = Data(k, NewOct(m))
  <2> DEFINE k == newtoold[m]
             i == m - nmbs(r)
  <2>1. i \in Slots /\ kind(i) = flag[k]
    <3>1. i \in Slots /\ i + nmbs(r) = m
      BY <1>2, Indices
    <3> QED
      BY <3>1
  <2>2. \A o \in Oct : /\ for(i, o) <=> Travels(m, o)
                       /\ Travels(m, o) => Got(r, i, o) = SendOf(m, o).data
    BY <1>1, <1>2, Arrivals DEF IInv, RankInv
  <2>3. /\ F[i] = IF for(i, 0) /\ kind(i) = 0
                  THEN Got(r, i, 0)
                  ELSE [o \in Oct |-> IF for(i, o) /\ kind(i) < 0 THEN Got(r, i, o)
                                      ELSE fine[r][i][o]]
        /\ C[i] = IF for(i, 0) /\ kind(i) > 0 THEN Got(r, i, 0) ELSE coarse[r][i]
    BY <1>2, <2>1
  <2> HIDE DEF F, C, for, kind, i
  <2>4. ASSUME NEW o \in Oct, ~Travels(m, o), k \in Kept(r), To(r, k) = i
        PROVE  fine[r][i][o] = IF flag[k] = -nleaf /\ k + o \in OldOn(r)
                               THEN Restricted(k + o) ELSE Data(k, o)
    <3>1. fine[r][i] = Gathered(r)[From(r, k)]
      BY <1>1, <1>2, <2>4 DEF RankInv, Moved
    <3>2. Gathered(r)[From(r, k)][o] = IF flag[k] = -nleaf /\ k + o \in OldOn(r)
                                       THEN Restricted(k + o) ELSE Data(k, o)
      BY <1>2, <2>4, GatheredIs
    <3> QED
      BY <3>1, <3>2
  <2>5. ASSUME flag[k] = 0, NEW o \in Oct
        PROVE  F[i][o] = Data(k, o)
    <3>1. flag[k] # -nleaf /\ ~(flag[k] < 0) /\ 0 \in Oct
      BY <2>5, Kinds
    <3>2. CASE Travels(m, 0)
      <4>1. F[i] = SendOf(m, 0).data
        BY <2>1, <2>2, <2>3, <2>5, <3>1, <3>2
      <4>2. SendOf(m, 0).data = [q \in Oct |-> Data(k, q)]
        BY <2>5, <3>1 DEF SendOf, Payload
      <4> QED
        BY <4>1, <4>2
    <3>3. CASE ~Travels(m, 0)
      <4>1. F[i][o] = fine[r][i][o]
        BY <2>1, <2>2, <2>3, <2>5, <3>1, <3>3
      <4>2. k \in Kept(r) /\ To(r, k) = i
        BY <1>2, <2>5, <3>1, <3>3, StayersAreKept DEF i
      <4>3. fine[r][i] = Gathered(r)[From(r, k)]
        BY <1>1, <1>2, <4>2 DEF RankInv, Moved
      <4>4. Gathered(r)[From(r, k)][o] = Data(k, o)
        BY <1>2, <3>1, <4>2, GatheredIs
      <4> QED
        BY <4>1, <4>3, <4>4
    <3> QED
      BY <3>2, <3>3
  <2>6. ASSUME flag[k] = -nleaf, NEW o \in Oct
        PROVE  F[i][o] = Restricted(k + o)
    <3>1. flag[k] < 0 /\ flag[k] # 0
      BY <2>6, Kinds
    <3>2. F[i][o] = IF Travels(m, o) THEN Got(r, i, o) ELSE fine[r][i][o]
      BY <2>1, <2>2, <2>3, <3>1
    <3>3. CASE Travels(m, o)
      BY <2>2, <3>1, <3>2, <3>3 DEF SendOf
    <3>4. CASE ~Travels(m, o)
      <4>1. k \in Kept(r) /\ To(r, k) = i /\ k + o \in OldOn(r)
        BY <1>2, <2>6, <3>4, StayersAreKept DEF i
      <4> QED
        BY <2>4, <2>6, <3>2, <3>4, <4>1
    <3> QED
      BY <3>3, <3>4
  <2>7. ASSUME flag[k] = 1
        PROVE  C[i] = Data(k, NewOct(m))
    <3>1. flag[k] > 0 /\ ~(flag[k] < 0) /\ flag[k] # 0 /\ 0 \in Oct
      BY <2>7, Kinds
    <3>2. C[i] = IF Travels(m, 0) THEN Got(r, i, 0) ELSE coarse[r][i]
      BY <2>1, <2>2, <2>3, <3>1
    <3>3. CASE Travels(m, 0)
      <4>1. SendOf(m, 0).data = Data(k, NewOct(m))
        BY <3>1 DEF SendOf, Payload
      <4> QED
        BY <2>2, <3>1, <3>2, <3>3, <4>1
    <3>4. CASE ~Travels(m, 0)
      <4>1. coarse[r][i] = Data(k, NewOct(m))
        BY <1>1, <1>2, <2>7, <3>4 DEF RankInv, Octants, i
      <4> QED
        BY <3>2, <3>4, <4>1
    <3> QED
      BY <3>3, <3>4
  <2> QED
    BY <2>5, <2>6, <2>7 DEF i
<1> HIDE DEF F, C
<1>6. fine'[r] = F /\ coarse'[r] = C
  BY <1>1, <1>2
<1>7. Unpacked(r)'
  <2>1. /\ flag' = flag /\ newtoold' = newtoold /\ nleaf' = nleaf
        /\ \A k, o : Data(k, o)' = Data(k, o)
        /\ \A k : Restricted(k)' = Restricted(k)
    BY <1>1, Zenon DEF maps, Data, Restricted
  <2>2. \A m \in NewOn(r) : LET k == newtoold[m] IN
          /\ flag[k] = 0 => \A o \in Oct : fine'[r][m - nmbs(r)][o] = Data(k, o)
          /\ flag[k] = -nleaf => \A o \in Oct : fine'[r][m - nmbs(r)][o] = Restricted(k + o)
          /\ flag[k] = 1 => coarse'[r][m - nmbs(r)] = Data(k, NewOct(m))
    BY <1>5, <1>6
  <2>3. \A m, o : NewOct(m)' = NewOct(m)
    BY <1>1, StaticKept
  <2>4. NewOn(r)' = NewOn(r) /\ nmbs(r)' = nmbs(r)
    BY <1>1, StaticKept
  <2> QED
    BY <2>1, <2>2, <2>3, <2>4 DEF Unpacked
<1>8. Messages(r)'
  BY <1>1, <1>2, StaticKept DEF RankInv, Messages, Posted
<1>9. RankInv(r)'
  BY <1>2, <1>7, <1>8 DEF RankInv, Untouched, Copying, Moved, Octants, Finished
<1> QED
  BY <1>1, <1>4, <1>9, LocalStep DEF IInv, TypeOK

\* What is prolonged is the octant of the block that is refined
LEMMA RefineIInv ==
  ASSUME IInv, NEW r \in Ranks, RefineCC(r)
  PROVE  IInv'
<1> DEFINE F == [i \in DOMAIN fine[r] |->
                   IF i + nmbs(r) \in NewOn(r) /\ flag[newtoold[i + nmbs(r)]] > 0
                   THEN [o \in Oct |-> Prolonged(coarse[r][i], o)]
                   ELSE fine[r][i]]
<1>1. /\ pc[r] = "Refine" /\ pc' = [pc EXCEPT ![r] = "done"] /\ UNCHANGED maps
      /\ fine' = [fine EXCEPT ![r] = F]
      /\ UNCHANGED <<coarse, copied, recvs, sends>>
  BY DEF RefineCC, Step
<1>2. /\ RankInv(r) /\ Maps /\ DOMAIN fine[r] = Slots /\ r \in DOMAIN fine /\ pc'[r] = "done"
  BY <1>1 DEF IInv, TypeOK
<1>3. DOMAIN F = Slots
  BY <1>2
<1>4. TypeOK'
  <2> HIDE DEF F
  <2> QED
    BY <1>1, <1>3, StaticKept DEF IInv, TypeOK, Phases
<1>5. ASSUME NEW m \in NewOn(r), NEW o \in Oct
      PROVE  LET k == newtoold[m] IN
             /\ flag[k] = 0 => F[m - nmbs(r)][o] = Data(k, o)
             /\ flag[k] = -nleaf => F[m - nmbs(r)][o] = Restricted(k + o)
             /\ flag[k] = 1 => F[m - nmbs(r)][o] = Prolonged(Data(k, NewOct(m)), o)
  <2> DEFINE k == newtoold[m]
             i == m - nmbs(r)
  <2>1. i \in Slots /\ i + nmbs(r) = m
    BY <1>2, Indices
  <2>2. F[i] = IF flag[k] > 0 THEN [q \in Oct |-> Prolonged(coarse[r][i], q)] ELSE fine[r][i]
    BY <1>2, <2>1
  <2>3. /\ flag[k] = 0 => fine[r][i][o] = Data(k, o)
        /\ flag[k] = -nleaf => fine[r][i][o] = Restricted(k + o)
        /\ flag[k] = 1 => coarse[r][i] = Data(k, NewOct(m))
    BY <1>1, <1>2 DEF RankInv, Unpacked
  <2> HIDE DEF F, i
  <2>4. flag[k] = -nleaf => ~(flag[k] > 0)
    BY Kinds
  <2> QED
    BY <2>2, <2>3, <2>4 DEF i
<1> HIDE DEF F
<1>6. Finished(r)'
  <2>1. /\ flag' = flag /\ newtoold' = newtoold /\ nleaf' = nleaf
        /\ \A k, o : Data(k, o)' = Data(k, o) /\ Prolonged(k, o)' = Prolonged(k, o)
        /\ \A k : Restricted(k)' = Restricted(k)
    BY <1>1, Zenon DEF maps, Data, Restricted, Prolonged
  <2>2. \A m \in NewOn(r), o \in Oct : LET k == newtoold[m] IN
          /\ flag[k] = 0 => fine'[r][m - nmbs(r)][o] = Data(k, o)
          /\ flag[k] = -nleaf => fine'[r][m - nmbs(r)][o] = Restricted(k + o)
          /\ flag[k] = 1 => fine'[r][m - nmbs(r)][o] = Prolonged(Data(k, NewOct(m)), o)
    BY <1>1, <1>2, <1>5
  <2>3. \A m, o : NewOct(m)' = NewOct(m)
    BY <1>1, StaticKept
  <2>4. NewOn(r)' = NewOn(r) /\ nmbs(r)' = nmbs(r)
    BY <1>1, StaticKept
  <2> QED
    BY <2>1, <2>2, <2>3, <2>4 DEF Finished
<1>7. Messages(r)'
  BY <1>1, <1>2, StaticKept DEF RankInv, Messages, Posted
<1>8. RankInv(r)'
  BY <1>2, <1>6, <1>7 DEF RankInv, Untouched, Copying, Moved, Octants, Unpacked
<1> QED
  BY <1>1, <1>4, <1>8, LocalStep DEF IInv, TypeOK

-----------------------------------------------------------------------------
\* The maps keep their form; the messages, the copies and what is unpacked stay as
\* told above
THEOREM Invariance == Spec => []IInv
<1>1. IInv /\ [Next]_vars => IInv'
  <2> SUFFICES ASSUME IInv, [Next]_vars PROVE IInv'
    OBVIOUS
  <2>1. ASSUME NEW r \in Ranks, Local(r) PROVE IInv'
    <3>1. CASE InitRecvAMR(r)
      BY <3>1, InitRecvIInv
    <3>2. CASE PackAndSendAMR(r)
      BY <3>2, PackAndSendIInv
    <3>3. CASE DerefineCCSameRank(r)
      BY <3>3, DerefineIInv
    <3>4. CASE \E k \in OldOn(r) : CopyCC(r, k)
      BY <3>4, CopyCCIInv
    <3>5. CASE EndCopyCC(r)
      BY <3>5, EndCopyIInv
    <3>6. CASE CopyForRefinementCC(r)
      BY <3>6, CopyForRefinementIInv
    <3>7. CASE ClearRecvAndUnpackAMR(r)
      BY <3>7, ClearRecvIInv
    <3>8. CASE RefineCC(r)
      BY <3>8, RefineIInv
    <3> QED
      BY <2>1, <3>1, <3>2, <3>3, <3>4, <3>5, <3>6, <3>7, <3>8 DEF Local
  <2>2. ASSUME NEW r \in Ranks, NEW buffered \in BOOLEAN, ClearSendAMR(r, buffered) PROVE IInv'
    BY <2>2, ClearSendIInv
  <2>3. CASE UNCHANGED vars
    <3>1. /\ UNCHANGED maps /\ pc' = pc /\ fine' = fine /\ coarse' = coarse
          /\ copied' = copied /\ recvs' = recvs /\ sends' = sends
      BY <2>3 DEF vars
    <3>2. \A q \in Ranks : RankInv(q)'
      BY <3>1, OthersKept DEF IInv
    <3>3. TypeOK'
      BY <3>1, StaticKept DEF IInv, TypeOK
    <3>4. Maps' /\ Ranks' = Ranks
      BY <3>1, StaticKept DEF IInv, Ranks
    <3> QED
      BY <3>2, <3>3, <3>4 DEF IInv
  <2> QED
    BY <2>1, <2>2, <2>3 DEF Next
<1> QED
  BY <1>1, InitIInv, PTL DEF Spec

\* When a rank is done every block it has holds the data of its cells, whatever has
\* become of the tree and however the blocks were and are distributed
THEOREM BlocksHaveTheirData == Spec => []EveryBlockHasItsData
<1>1. IInv => EveryBlockHasItsData
  <2> SUFFICES ASSUME IInv, NEW r \in Ranks, pc[r] = "done", NEW m \in NewOn(r), NEW o \in Oct
               PROVE  LET k == newtoold[m] IN
                      fine[r][m - nmbs(r)][o] =
                        CASE flag[k] = 0 -> Data(k, o)
                          [] flag[k] < 0 -> Restricted(k + o)
                          [] flag[k] > 0 -> Prolonged(Data(k, NewOct(m)), o)
    BY Zenon DEF EveryBlockHasItsData
  <2> DEFINE k == newtoold[m]
             x == fine[r][m - nmbs(r)][o]
  <2>1. Maps /\ Finished(r)
    BY DEF IInv, RankInv
  <2>2. /\ flag[k] = 0 => x = Data(k, o)
        /\ flag[k] = -nleaf => x = Restricted(k + o)
        /\ flag[k] = 1 => x = Prolonged(Data(k, NewOct(m)), o)
    BY <2>1 DEF Finished
  <2>3. flag[k] \in {-nleaf, 0, 1}
    BY <2>1, Indices, MapTypes
  <2> HIDE DEF x, k
  <2>4. CASE flag[k] = 0
    BY <2>2, <2>4 DEF x, k
  <2>5. CASE flag[k] = -nleaf
    <3>1. flag[k] < 0 /\ flag[k] # 0 /\ ~(flag[k] > 0)
      BY <2>5, Kinds
    <3> QED
      BY <2>2, <2>5, <3>1 DEF x, k
  <2>6. CASE flag[k] = 1
    <3>1. ~(flag[k] < 0) /\ flag[k] # 0 /\ flag[k] > 0
      BY <2>6
    <3> QED
      BY <2>2, <2>6, <3>1 DEF x, k
  <2> QED
    BY <2>3, <2>4, <2>5, <2>6
<1> QED
  BY <1>1, Invariance, PTL

\* What one rank sends another, by its own loop over the old blocks, is message by
\* message what the other expects by its loop over the new ones
THEOREM MessagesMatch == Spec => []SendsMatchReceives
<1>1. IInv => SendsMatchReceives
  <2> SUFFICES ASSUME IInv, NEW r \in Ranks, NEW s \in Ranks, Posted(r), Posted(s)
               PROVE  /\ \A rcv \in recvs[r] : rcv.from = s => Cardinality(Arrived(r, rcv)) = 1
                      /\ \A snd \in sends[s] : snd.to = r =>
                           Cardinality({rcv \in recvs[r] : Meet(s, snd, r, rcv)}) = 1
    BY Zenon DEF SendsMatchReceives
  <2>1. Maps /\ recvs[r] = Expected(r) /\ sends[s] = Posts(s)
    BY DEF IInv, RankInv, Messages, Posted
  <2>2. ASSUME NEW S, NEW x, S = {x} PROVE Cardinality(S) = 1
    BY <2>2, FS_Singleton
  <2>3. ASSUME NEW rcv \in recvs[r], rcv.from = s
        PROVE  Cardinality(Arrived(r, rcv)) = 1
    <3>1. Arrived(r, rcv) = {x \in Posts(s) : Meet(s, x, r, rcv)}
      BY <2>1, <2>3 DEF Arrived
    <3>2. \A q \in Expected(r) : q.from = s => \E snd : {x \in Posts(s) : Meet(s, x, r, q)} = {snd}
      BY <2>1, Matches, Zenon
    <3>3. \E snd : {x \in Posts(s) : Meet(s, x, r, rcv)} = {snd}
      BY <2>1, <2>3, <3>2, Zenon
    <3> QED
      BY <2>2, <3>1, <3>3, Zenon
  <2>4. ASSUME NEW snd \in sends[s], snd.to = r
        PROVE  Cardinality({rcv \in recvs[r] : Meet(s, snd, r, rcv)}) = 1
    <3>1. \A q \in Posts(s) : q.to = r => \E rcv : {x \in Expected(r) : Meet(s, q, r, x)} = {rcv}
      BY <2>1, Matches, Zenon
    <3>2. \E rcv : {x \in Expected(r) : Meet(s, snd, r, x)} = {rcv}
      BY <2>1, <2>4, <3>1, Zenon
    <3> QED
      BY <2>1, <2>2, <3>2, Zenon
  <2> QED
    BY <2>3, <2>4
<1> QED
  BY <1>1, Invariance, PTL

================================================================================
