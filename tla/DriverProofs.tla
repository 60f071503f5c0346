------------------------------ MODULE DriverProofs ------------------------------
(***************************************************************************)
(* For every number of ranks, every list of outputs, every limit and       *)
(* whatever steps the blocks allow: all ranks leave the main loop in the   *)
(* same cycle.                                                             *)
(*                                                                         *)
(* A round is what happens between two calls of NewTimeStep, which all     *)
(* ranks make together.  In a round a rank writes outputs, learns the wall *)
(* clock, and makes a cycle or leaves; others may be ahead of it or behind.*)
(* The invariant says what a rank that is ahead has already decided for    *)
(* those that are behind.                                                  *)
(***************************************************************************)
EXTENDS Driver, TLAPS

\* what the decision to stop is made from
core == <<up, pc, time, dt, ncycle, over, clock>>

After == {"run", "newdt"}             \* has made the cycle of this round
Out   == {"final", "done"}            \* has left the loop
NotYet == {"start", "init", "clock"}  \* does not know the wall clock of this round
AllPcs == NotYet \cup {"loop"} \cup After \cup Out

Types ==
  /\ pc \in [Ranks -> AllPcs]
  /\ over \in [Ranks -> BOOLEAN]
  /\ time = [r \in Ranks |-> time[r]]
  /\ dt = [r \in Ranks |-> dt[r]]
  /\ ncycle = [r \in Ranks |-> ncycle[r]]
  /\ clock = [r \in Ranks |-> clock[r]]

\* a job starts on all ranks at once
StartTogether == \A r, q \in Ranks : pc[r] = "start" => pc[q] = "start"

\* every rank has the same time step; ranks that have made the cycle of this round
\* agree on time and number of cycles, so do those that have not, and the former
\* are one step ahead of the latter
SameCounters ==
  /\ \A r, q \in Ranks : dt[r] = dt[q]
  /\ \A r, q \in Ranks : (pc[r] \in After <=> pc[q] \in After) =>
       time[r] = time[q] /\ ncycle[r] = ncycle[q]
  /\ \A r, q \in Ranks : pc[q] \in After /\ pc[r] \notin After =>
       time[q] = time[r] + dt[r] /\ ncycle[q] = ncycle[r] + 1

\* ranks that know the wall clock of this round know what rank 0 knows, and the
\* broadcast is on its way to the others
SameClock ==
  IF WallTime
  THEN \A r \in Ranks \ {0} :
         /\ pc[0] \in NotYet => pc[r] \in NotYet /\ clock[r] = <<>> /\ over[r] = over[0]
         /\ pc[0] \notin NotYet /\ pc[r] \in NotYet => clock[r] = <<over[0]>>
         /\ pc[0] \notin NotYet /\ pc[r] \notin NotYet => clock[r] = <<>> /\ over[r] = over[0]
  ELSE \A r \in Ranks : ~over[r] /\ pc[r] # "clock"

InLimits(r) == time[r] < TLim /\ (ncycle[r] < NLim \/ NLim < 0)

\* a rank that has made its cycle leaves no other a reason not to make it, and one
\* that has left the loop leaves no other a reason to go on
SameDecision ==
  /\ \A q \in Ranks : pc[q] \in After =>
       /\ ~over[q]
       /\ \A r \in Ranks : pc[r] \notin After => InLimits(r)
  /\ \A q \in Ranks : pc[q] \in Out =>
       /\ ~Continue(q)
       /\ \A r \in Ranks : pc[r] \notin After

IInv == Types /\ (up => StartTogether /\ SameCounters /\ SameClock /\ SameDecision)
-----------------------------------------------------------------------------
\* There is a rank 0
LEMMA RankZero == 0 \in Ranks
BY DriverAssumption DEF Ranks

\* Outputs do not touch what the decision is made from
LEMMA CoreKept == IInv /\ UNCHANGED core => IInv'
BY DEF IInv, core, Types, StartTogether, SameCounters, SameClock, SameDecision, InLimits, Continue

\* A new job starts with one set of counters on all ranks
LEMMA StartKeepsIInv ==
  ASSUME Started,
         NEW t, time' = [r \in Ranks |-> t],
         NEW d, dt' = [r \in Ranks |-> d],
         NEW n, ncycle' = [r \in Ranks |-> n]
  PROVE  IInv'
<1>1. /\ pc' = [r \in Ranks |-> "start"]
      /\ over' = [r \in Ranks |-> FALSE]
      /\ clock' = [r \in Ranks |-> <<>>]
  BY DEF Started
<1>2. Types'
  BY <1>1 DEF Types, AllPcs, NotYet
<1>3. StartTogether' /\ SameCounters'
  BY <1>1 DEF StartTogether, SameCounters, After
<1>4. SameClock'
  BY <1>1, RankZero DEF SameClock, NotYet
<1>5. SameDecision'
  BY <1>1 DEF SameDecision, After, Out
<1>6. QED BY <1>2, <1>3, <1>4, <1>5 DEF IInv

\* The invariant holds at first
LEMMA InitIInv == Init => IInv
<1> SUFFICES ASSUME Init PROVE IInv
  OBVIOUS
<1> USE DEF Init
<1>1. Types
  BY DEF Types, AllPcs, NotYet
<1>2. StartTogether /\ SameCounters
  BY DEF StartTogether, SameCounters, After
<1>3. SameClock
  BY RankZero DEF SameClock, NotYet
<1>4. SameDecision
  BY DEF SameDecision, After, Out
<1>5. QED BY <1>1, <1>2, <1>3, <1>4 DEF IInv

-----------------------------------------------------------------------------
(* The steps of a running job that the decision depends on *)

\* The least step is the same on all ranks, and so is the time it would reach
LEMMA NewTimeStepKeepsIInv == IInv /\ NewTimeStep => IInv'
<1> SUFFICES ASSUME IInv, NewTimeStep PROVE IInv'
  OBVIOUS
<1>0. up /\ Types /\ StartTogether /\ SameCounters /\ SameClock /\ SameDecision
  BY DEF IInv, NewTimeStep
<1>1. /\ up' = up /\ UNCHANGED <<time, ncycle, over, clock>>
      /\ pc' = [r \in Ranks |-> IF pc[r] = "start" /\ ~resumed THEN "init" ELSE BeforeLoop]
      /\ \A r \in Ranks : pc[r] \in {"start", "newdt"}
  BY DEF NewTimeStep
<1>2. \A r, q \in Ranks : pc[r] \in After <=> pc[q] \in After
  BY <1>0, <1>1 DEF StartTogether, After
<1>3. \A r, q \in Ranks : time[r] = time[q] /\ ncycle[r] = ncycle[q]
  BY <1>0, <1>2 DEF SameCounters
<1>4. \A r \in Ranks : pc'[r] \in {"init", BeforeLoop} /\ pc'[r] \notin After \cup Out \cup {"start"}
  BY <1>1 DEF BeforeLoop, After, Out
<1>5. Types'
  <2>1. dt' = [r \in Ranks |-> dt'[r]]
    BY DEF NewTimeStep
  <2>2. pc' \in [Ranks -> AllPcs]
    BY <1>1 DEF AllPcs, NotYet, BeforeLoop
  <2>3. QED BY <2>1, <2>2, <1>0, <1>1 DEF Types
<1>6. StartTogether'
  BY <1>4 DEF StartTogether
<1>7. SameCounters'
  <2>1. \A r, q \in Ranks : NewDt(r) = NewDt(q)
    BY <1>3 DEF NewDt
  <2>2. \A r, q \in Ranks : dt'[r] = dt'[q]
    BY <2>1 DEF NewTimeStep
  <2>3. QED BY <2>2, <1>1, <1>3, <1>4 DEF SameCounters
<1>8. SameClock'
  <2>1. CASE WallTime
    <3>1. \A r \in Ranks : pc'[r] \in NotYet
      BY <2>1, <1>4 DEF BeforeLoop, NotYet
    <3>2. \A r \in Ranks \ {0} : clock[r] = <<>> /\ over[r] = over[0]
      <4>1. CASE pc[0] = "start"
        BY <4>1, <2>1, <1>0 DEF SameClock, NotYet
      <4>2. CASE pc[0] # "start"
        BY <4>2, <2>1, <1>0, <1>1, <1>2, RankZero DEF SameClock, NotYet, After
      <4>3. QED BY <4>1, <4>2
    <3>3. QED BY <2>1, <3>1, <3>2, <1>1, RankZero DEF SameClock
  <2>2. CASE ~WallTime
    BY <2>2, <1>0, <1>1, <1>4 DEF SameClock, BeforeLoop
  <2>3. QED BY <2>1, <2>2
<1>9. SameDecision'
  BY <1>4 DEF SameDecision
<1>10. QED BY <1>5, <1>6, <1>7, <1>8, <1>9 DEF IInv

\* A rank learns what rank 0 has read off the clock
LEMMA UpdateWallClockKeepsIInv ==
  ASSUME IInv, NEW r \in Ranks, UpdateWallClock(r)
  PROVE  IInv'
<1>0. up /\ Types /\ StartTogether /\ SameCounters /\ SameClock /\ SameDecision
  BY DEF IInv, UpdateWallClock
<1>1. /\ pc[r] = "clock" /\ pc' = [pc EXCEPT ![r] = "loop"]
      /\ up' = up /\ UNCHANGED <<time, dt, ncycle>>
  BY DEF UpdateWallClock, counters
<1>2. WallTime
  BY <1>0, <1>1 DEF SameClock
<1>3. \A q \in Ranks : (pc'[q] \in After <=> pc[q] \in After) /\ (pc'[q] \in Out <=> pc[q] \in Out)
  BY <1>0, <1>1 DEF Types, After, Out
<1>4. CASE r = 0
  <2>1. PICK late \in BOOLEAN :
          /\ over' = [over EXCEPT ![0] = late]
          /\ clock' = [q \in Ranks |-> IF q = 0 THEN <<>> ELSE Append(clock[q], late)]
    BY <1>4 DEF UpdateWallClock
  <2>2. \A q \in Ranks \ {0} : pc[q] \in NotYet /\ clock[q] = <<>>
    BY <1>0, <1>1, <1>2, <1>4 DEF SameClock, NotYet
  <2>3. \A q \in Ranks : pc[q] \notin After \cup Out
    BY <2>2, <1>1, <1>4 DEF NotYet, After, Out
  <2>4. Types'
    BY <2>1, <1>0, <1>1, RankZero DEF Types, AllPcs
  <2>5. StartTogether' /\ SameCounters' /\ SameDecision'
    BY <2>3, <1>0, <1>1, <1>3 DEF StartTogether, SameCounters, SameDecision, Types
  <2>6. SameClock'
    <3>0. \A q \in Ranks \ {0} : pc'[q] \in NotYet
      BY <2>2, <1>0, <1>1, <1>4 DEF Types
    <3>1. \A q \in Ranks \ {0} : clock'[q] = <<late>> /\ pc'[q] \in NotYet
      <4>1. Append(<<>>, late) = <<late>>
        OBVIOUS
      <4>2. \A q \in Ranks \ {0} : clock'[q] = Append(<<>>, late)
        BY <2>1, <2>2
      <4>3. QED BY <3>0, <4>1, <4>2
    <3>2. pc'[0] \notin NotYet /\ over'[0] = late
      BY <2>1, <1>0, <1>1, <1>4, RankZero DEF Types, NotYet
    <3>3. QED BY <3>1, <3>2, <1>2 DEF SameClock
  <2>7. QED BY <2>4, <2>5, <2>6 DEF IInv
<1>5. CASE r # 0
  <2>1. /\ clock[r] # <<>>
        /\ over' = [over EXCEPT ![r] = Head(clock[r])]
        /\ clock' = [clock EXCEPT ![r] = Tail(@)]
    BY <1>5 DEF UpdateWallClock
  <2>2. pc[0] \notin NotYet /\ clock[r] = <<over[0]>>
    BY <2>1, <1>0, <1>1, <1>2, <1>5 DEF SameClock, NotYet
  <2>3. over'[r] = over[0] /\ clock'[r] = <<>>
    BY <2>1, <2>2, <1>0 DEF Types
  <2>4. \A q \in Ranks \ {r} : over'[q] = over[q] /\ clock'[q] = clock[q] /\ pc'[q] = pc[q]
    BY <2>1, <1>0, <1>1 DEF Types
  <2>5. Types'
    BY <2>1, <2>2, <1>0, <1>1, RankZero DEF Types, AllPcs
  <2>6. StartTogether' /\ SameCounters'
    BY <1>0, <1>1, <1>3 DEF StartTogether, SameCounters, Types
  <2>7. SameClock'
    <3>1. pc'[r] = "loop" /\ over'[0] = over[0] /\ pc'[0] = pc[0]
      BY <2>4, <1>0, <1>1, <1>5, RankZero DEF Types
    <3>2. QED BY <3>1, <2>2, <2>3, <2>4, <1>0, <1>2, <1>5 DEF SameClock, NotYet
  <2>8. SameDecision'
    <3>1. \A q \in Ranks : pc'[q] \in After \cup Out => q # r /\ over'[q] = over[q] /\ pc'[q] = pc[q]
      BY <2>4, <1>0, <1>1 DEF Types, After, Out
    <3>2. QED BY <3>1, <1>0, <1>1, <1>3 DEF SameDecision, InLimits, Continue
  <2>9. QED BY <2>5, <2>6, <2>7, <2>8 DEF IInv
<1>6. QED BY <1>4, <1>5

\* A rank makes its cycle: the others may, too
LEMMA CycleKeepsIInv ==
  ASSUME IInv, NEW r \in Ranks, Cycle(r)
  PROVE  IInv'
<1>0. up /\ Types /\ StartTogether /\ SameCounters /\ SameClock /\ SameDecision
  BY DEF IInv, Cycle
<1>1. /\ pc[r] = "loop" /\ Continue(r) /\ pc' = [pc EXCEPT ![r] = "run"]
      /\ time' = [time EXCEPT ![r] = @ + dt[r]]
      /\ ncycle' = [ncycle EXCEPT ![r] = @ + 1]
      /\ up' = up /\ UNCHANGED <<dt, over, clock>>
  BY DEF Cycle
<1>2. /\ pc'[r] = "run" /\ time'[r] = time[r] + dt[r] /\ ncycle'[r] = ncycle[r] + 1
      /\ \A q \in Ranks \ {r} : pc'[q] = pc[q] /\ time'[q] = time[q] /\ ncycle'[q] = ncycle[q]
  BY <1>0, <1>1 DEF Types
<1>3. \A q \in Ranks : pc[q] \notin After => time[q] = time[r] /\ ncycle[q] = ncycle[r]
  BY <1>0, <1>1 DEF SameCounters, After
<1>4. \A q \in Ranks : pc[q] \in After => time[q] = time'[r] /\ ncycle[q] = ncycle'[r]
  BY <1>0, <1>1, <1>2 DEF SameCounters, After
<1>5. Types'
  <2>1. pc' \in [Ranks -> AllPcs]
    BY <1>0, <1>1 DEF Types, AllPcs, After
  <2>2. time' = [q \in Ranks |-> time'[q]] /\ ncycle' = [q \in Ranks |-> ncycle'[q]]
    BY <1>0, <1>1 DEF Types
  <2>3. QED BY <2>1, <2>2, <1>0, <1>1 DEF Types
<1>6. StartTogether'
  BY <1>0, <1>1, <1>2 DEF StartTogether
<1>7. SameCounters'
  <2>1. \A p \in Ranks : pc'[p] \in After => time'[p] = time'[r] /\ ncycle'[p] = ncycle'[r]
    BY <1>2, <1>4
  <2>2. \A p \in Ranks : pc'[p] \notin After =>
          time'[p] = time[r] /\ ncycle'[p] = ncycle[r] /\ dt[p] = dt[r]
    BY <1>0, <1>2, <1>3 DEF SameCounters, After
  <2>3. QED BY <2>1, <2>2, <1>0, <1>1, <1>2 DEF SameCounters
<1>8. SameClock'
  BY <1>0, <1>1, <1>2, RankZero DEF SameClock, NotYet
<1>9. SameDecision'
  <2>1. ~over[r] /\ InLimits(r)
    BY <1>1 DEF Continue, InLimits
  <2>2. \A q \in Ranks : pc'[q] \in After => ~over'[q]
    BY <2>1, <1>0, <1>1, <1>2 DEF SameDecision
  <2>3. \A q \in Ranks : pc'[q] \notin After => InLimits(q)'
    BY <2>1, <1>1, <1>2, <1>3 DEF InLimits, After
  <2>4. \A q \in Ranks : pc[q] \notin Out
    <3>1. SUFFICES ASSUME NEW q \in Ranks, pc[q] \in Out PROVE FALSE
      OBVIOUS
    <3>2. time[q] = time[r] /\ ncycle[q] = ncycle[r]
      BY <3>1, <1>3 DEF Out, After
    <3>3. ~over[q]
      <4>1. CASE WallTime
        <5>1. over[q] = over[r]
          BY <4>1, <3>1, <1>0, <1>1, RankZero DEF SameClock, NotYet, Out
        <5>2. QED BY <5>1, <2>1, <1>0 DEF Types
      <4>2. CASE ~WallTime
        BY <4>2, <1>0 DEF SameClock
      <4>3. QED BY <4>1, <4>2
    <3>4. QED BY <3>1, <3>2, <3>3, <2>1, <1>0 DEF SameDecision, Continue, InLimits
  <2>5. \A q \in Ranks : pc'[q] \notin Out
    BY <2>4, <1>2 DEF Out
  <2>6. QED BY <2>2, <2>3, <2>5 DEF SameDecision
<1>10. QED BY <1>5, <1>6, <1>7, <1>8, <1>9 DEF IInv

\* A rank leaves: none has made the cycle it does not make
LEMMA LeaveKeepsIInv ==
  ASSUME IInv, NEW r \in Ranks, Leave(r)
  PROVE  IInv'
<1>0. up /\ Types /\ StartTogether /\ SameCounters /\ SameClock /\ SameDecision
  BY DEF IInv, Leave
<1>1. /\ pc[r] = "loop" /\ ~Continue(r) /\ pc' = [pc EXCEPT ![r] = "final"]
      /\ up' = up /\ UNCHANGED <<time, dt, ncycle, over, clock>>
  BY DEF Leave, counters
<1>2. pc'[r] = "final" /\ \A q \in Ranks \ {r} : pc'[q] = pc[q]
  BY <1>0, <1>1 DEF Types
<1>3. \A q \in Ranks : pc[q] \notin After
  <2>1. SUFFICES ASSUME NEW q \in Ranks, pc[q] \in After PROVE FALSE
    OBVIOUS
  <2>2. InLimits(r) /\ ~over[q]
    BY <2>1, <1>0, <1>1 DEF SameDecision, After
  <2>3. ~over[r]
    <3>1. CASE WallTime
      <4>1. over[q] = over[r]
        BY <3>1, <2>1, <1>0, <1>1, RankZero DEF SameClock, NotYet, After
      <4>2. QED BY <4>1, <2>2, <1>0 DEF Types
    <3>2. CASE ~WallTime
      BY <3>2, <1>0 DEF SameClock
    <3>3. QED BY <3>1, <3>2
  <2>4. QED BY <2>2, <2>3, <1>1 DEF Continue, InLimits
<1>4. Types'
  BY <1>0, <1>1 DEF Types, AllPcs, Out
<1>5. StartTogether' /\ SameCounters'
  BY <1>0, <1>1, <1>2, <1>3 DEF StartTogether, SameCounters, After
<1>6. SameClock'
  BY <1>0, <1>1, <1>2, RankZero DEF SameClock, NotYet
<1>7. SameDecision'
  <2>1. \A q \in Ranks : pc'[q] \notin After
    BY <1>2, <1>3 DEF After
  <2>2. \A q \in Ranks : pc'[q] \in Out => ~Continue(q)'
    BY <1>0, <1>1, <1>2 DEF SameDecision, Continue, Out
  <2>3. QED BY <2>1, <2>2 DEF SameDecision
<1>8. QED BY <1>4, <1>5, <1>6, <1>7 DEF IInv

\* The last output: a rank stays on its side of the cycle and of the end
LEMMA EndOutputsKeepsIInv ==
  ASSUME IInv, NEW r \in Ranks, EndOutputs(r)
  PROVE  IInv'
<1>0. up /\ Types /\ StartTogether /\ SameCounters /\ SameClock /\ SameDecision
  BY DEF IInv, EndOutputs
<1>1. /\ up' = up /\ UNCHANGED <<time, dt, ncycle, over, clock>>
      /\ \/ pc[r] = "init" /\ pc' = [pc EXCEPT ![r] = BeforeLoop]
         \/ pc[r] = "run" /\ pc' = [pc EXCEPT ![r] = "newdt"]
         \/ pc[r] = "final" /\ pc' = [pc EXCEPT ![r] = "done"]
  BY DEF EndOutputs, counters
<1>2. \A q \in Ranks : /\ pc'[q] \in After <=> pc[q] \in After
                       /\ pc'[q] \in Out <=> pc[q] \in Out
                       /\ pc'[q] = "start" <=> pc[q] = "start"
                       /\ WallTime => (pc'[q] \in NotYet <=> pc[q] \in NotYet)
                       /\ ~WallTime /\ pc[q] # "clock" => pc'[q] # "clock"
  BY <1>0, <1>1 DEF Types, After, Out, NotYet, BeforeLoop
<1>3. Types'
  BY <1>0, <1>1 DEF Types, AllPcs, NotYet, After, Out, BeforeLoop
<1>4. StartTogether' /\ SameCounters'
  BY <1>0, <1>1, <1>2 DEF StartTogether, SameCounters
<1>5. SameClock'
  BY <1>0, <1>1, <1>2, RankZero DEF SameClock
<1>6. SameDecision'
  BY <1>0, <1>1, <1>2 DEF SameDecision, InLimits, Continue
<1>7. QED BY <1>3, <1>4, <1>5, <1>6 DEF IInv

-----------------------------------------------------------------------------
\* Every step preserves the invariant
LEMMA NextKeepsIInv == IInv /\ [Next]_vars => IInv'
<1> SUFFICES ASSUME IInv, [Next]_vars PROVE IInv'
  OBVIOUS
<1>1. ASSUME NEW r \in Ranks, Step(r) PROVE IInv'
  <2>1. CASE UpdateWallClock(r)
    BY <2>1, UpdateWallClockKeepsIInv
  <2>2. CASE Cycle(r)
    BY <2>2, CycleKeepsIInv
  <2>3. CASE Leave(r)
    BY <2>3, LeaveKeepsIInv
  <2>4. CASE Skip(r)
    BY <2>4, CoreKept DEF Skip, core, counters
  <2>5. CASE WriteOutputFile(r)
    BY <2>5, CoreKept DEF WriteOutputFile, core, counters
  <2>6. CASE EndOutputs(r)
    BY <2>6, EndOutputsKeepsIInv
  <2>7. QED BY <1>1, <2>1, <2>2, <2>3, <2>4, <2>5, <2>6 DEF Step
<1>2. CASE NewTimeStep
  BY <1>2, NewTimeStepKeepsIInv
<1>3. CASE WriteEventLog
  BY <1>3, CoreKept DEF WriteEventLog, core, counters
<1>4. CASE Kill
  BY <1>4 DEF Kill, IInv, Types, counters
<1>5. CASE Launch
  BY <1>5, StartKeepsIInv DEF Launch
<1>6. ASSUME NEW f, Resume(f) PROVE IInv'
  BY <1>6, StartKeepsIInv DEF Resume, TakenOver
<1>7. CASE UNCHANGED vars
  BY <1>7, CoreKept DEF vars, core, counters
<1>8. QED BY <1>1, <1>2, <1>3, <1>4, <1>5, <1>6, <1>7 DEF Next

\* When a rank has left the loop, no rank makes another cycle (Driver::Execute):
\* whatever the limits, the outputs and the wall clock, in every job of the run
THEOREM StopTogether == Spec => []RanksStopTogether
<1>1. IInv => RanksStopTogether
  <2>1. SUFFICES ASSUME IInv, up, NEW r \in Ranks, NEW q \in Ranks, pc[r] \in Out
                 PROVE  /\ ncycle[q] = ncycle[r] /\ time[q] = time[r]
                        /\ pc[q] \notin {"run", "newdt"}
                        /\ pc[q] = "loop" => ~Continue(q)
    BY DEF RanksStopTogether, Out
  <2>2. Types /\ SameCounters /\ SameClock /\ SameDecision
    BY <2>1 DEF IInv
  <2>3. pc[q] \notin After /\ pc[r] \notin After /\ ~Continue(r)
    BY <2>1, <2>2 DEF SameDecision
  <2>4. ncycle[q] = ncycle[r] /\ time[q] = time[r]
    BY <2>2, <2>3 DEF SameCounters
  <2>5. ASSUME pc[q] = "loop" PROVE over[q] = over[r]
    <3>1. CASE WallTime
      BY <3>1, <2>1, <2>2, <2>5, RankZero DEF SameClock, NotYet, Out
    <3>2. CASE ~WallTime
      <4>1. ~over[q] /\ ~over[r]
        BY <3>2, <2>2 DEF SameClock
      <4>2. over[q] \in BOOLEAN /\ over[r] \in BOOLEAN
        BY <2>2 DEF Types
      <4>3. QED BY <4>1, <4>2
    <3>3. QED BY <3>1, <3>2
  <2>6. QED BY <2>3, <2>4, <2>5 DEF Continue, After
<1>2. QED BY <1>1, InitIInv, NextKeepsIInv, PTL DEF Spec

===============================================================================
