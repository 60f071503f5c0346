----------------------------- MODULE ScheduleProofs -----------------------------
(***************************************************************************)
(* For every number of ranks, every list of outputs, every limit and       *)
(* whatever steps the blocks allow: a run that is killed and resumed, as   *)
(* often as may be, makes the same outputs at the same cycles as one that  *)
(* is not, and makes them on schedule.                                     *)
(*                                                                         *)
(* The argument is that there is one course of a run, cycle by cycle, and  *)
(* that every rank of every job and every file on disk is somewhere on it. *)
(***************************************************************************)
EXTENDS DriverProofs, WellFoundedInduction

\* The course: after n cycles the time, the step that follows, and the counters of
\* the outputs with files, when those due then have been made
FileOuts == {o \in Outs : ~IsLog(o)}
LeastStep(d, n) == Min({2 * d} \cup {CflStep[q][n + 1] : q \in Ranks})
NextDt(t, d, n) ==
  IF t < TLim /\ t + LeastStep(d, n) > TLim THEN TLim - t ELSE LeastStep(d, n)
DueAt(o, n, t, last) ==
  \/ Blocks[o].dcycle > 0 /\ n % Blocks[o].dcycle = 0
  \/ Blocks[o].dcycle = 0 /\ t >= last + Blocks[o].dt /\ t < TLim
Onward(o, c) ==
  [last |-> c.last + (IF Blocks[o].dcycle > 0 THEN 0 ELSE Blocks[o].dt), num |-> c.num + 1]
First ==
  [time |-> 0, dt |-> NextDt(0, NoStep, 0),
   outp |-> [o \in FileOuts |-> [last |-> 0, num |-> 1]]]
Succ(s, n) ==
  LET t == s.time + s.dt
  IN  [time |-> t, dt |-> NextDt(t, s.dt, n + 1),
       outp |-> [o \in FileOuts |-> IF DueAt(o, n + 1, t, s.outp[o].last)
                                    THEN Onward(o, s.outp[o]) ELSE s.outp[o]]]

\* No step the blocks allow is longer than the interval of an output by time
ShortSteps ==
  \A o \in FileOuts : Blocks[o].dcycle = 0 =>
    \A n \in 1..(TLim + 1) : \E q \in Ranks : CflStep[q][n] <= Blocks[o].dt

\* The next file of output o after n cycles is the one whose turn it is
Punctual(s, n, o) ==
  LET b == Blocks[o]  c == s.outp[o] IN
  /\ b.dcycle > 0 => (c.num - 1) * b.dcycle <= n /\ n < c.num * b.dcycle
  /\ b.dcycle = 0 /\ ShortSteps =>
       /\ s.dt <= b.dt
       /\ c.last = (c.num - 1) * b.dt
       /\ s.time < c.num * b.dt \/ s.time >= TLim

Course(M, tr) ==
  /\ M \in Nat /\ tr[0] = First
  /\ \A n \in 0..(M - 1) : tr[n].time < TLim /\ tr[n + 1] = Succ(tr[n], n)
  /\ \A n \in 0..M :
       /\ tr[n].time \in Nat /\ tr[n].dt \in Nat \ {0}
       /\ n <= tr[n].time /\ tr[n].time <= TLim
       /\ tr[n].time < TLim => tr[n].time + tr[n].dt <= TLim
       /\ \A o \in FileOuts :
            /\ tr[n].outp[o] = [last |-> tr[n].outp[o].last, num |-> tr[n].outp[o].num]
            /\ tr[n].outp[o].last \in Nat /\ tr[n].outp[o].num \in Nat \ {0}
            /\ Punctual(tr[n], n, o)
            /\ \A m \in 0..n : tr[m].outp[o].num <= tr[n].outp[o].num

\* A rank is on the course: with the counters of the cycle it has done, for the
\* outputs it has still to consider with those of the cycle before
OutputPhases == {"init", "run", "final"}
CountersOf(r, o, tr) ==
  IF o \in left[r] /\ pc[r] \in {"start", "init"} /\ ~resumed THEN NewOut[o]
  ELSE IF o \in left[r] /\ pc[r] = "run" THEN tr[ncycle[r] - 1].outp[o]
  ELSE tr[ncycle[r]].outp[o]
OnCourse(r, M, tr) ==
  LET n == ncycle[r] IN
  /\ n \in 0..M /\ time[r] = tr[n].time
  /\ pc[r] = "start" => NextDt(time[r], dt[r], n) = tr[n].dt
  /\ pc[r] \in {"start", "init"} /\ ~resumed => n = 0
  /\ pc[r] = "init" => ~resumed
  /\ pc[r] \in {"init", "clock", "loop"} => dt[r] = tr[n].dt
  /\ pc[r] \in After => n > 0 /\ dt[r] = tr[n - 1].dt
  /\ pc[r] \notin OutputPhases => left[r] = Outs
  /\ DOMAIN outp[r] = Outs
  /\ pc[r] \notin Out => \A o \in FileOuts : outp[r][o] = CountersOf(r, o, tr)

\* File n of output o was made after c cycles
MadeAt(f, o, n, c, tr) ==
  /\ n \in Nat /\ f.ncycle = c /\ f.time = tr[c].time
  /\ f.dt = IF c = 0 THEN tr[0].dt ELSE tr[c - 1].dt
  /\ tr[c].outp[o].num = n + 1
  /\ IF c = 0 THEN n = 0 ELSE tr[c - 1].outp[o].num = n
  /\ o \in Rst => DOMAIN f.outp = Outs /\ \A q \in FileOuts : f.outp[q] = tr[c].outp[q]
FilesOnCourse(M, tr) ==
  \A o \in FileOuts : \A n \in DOMAIN disk[o] :
    Scheduled(disk[o][n]) => \E c \in 0..M : MadeAt(disk[o][n], o, n, c, tr)

IsFile(f) == f = [by |-> f.by, time |-> f.time, dt |-> f.dt, ncycle |-> f.ncycle,
                  outp |-> f.outp, final |-> f.final, clean |-> f.clean]
Shape ==
  /\ DOMAIN left = Ranks /\ DOMAIN outp = Ranks /\ DOMAIN disk = Outs
  /\ \A r \in Ranks : left[r] \subseteq Outs
  /\ \A o \in Outs : IsLog(o) => DOMAIN disk[o] = {}
  /\ \A o \in Outs : \A n \in DOMAIN disk[o] : IsFile(disk[o][n])

Follows(M, tr) ==
  /\ Course(M, tr)
  /\ up /\ clean => \A r \in Ranks : OnCourse(r, M, tr)
  /\ FilesOnCourse(M, tr)
OneCourse == Shape /\ \E M, tr : Follows(M, tr)
-----------------------------------------------------------------------------
\* A set of natural numbers has a least element, and Min is it
LEMMA LeastElement ==
  ASSUME NEW S, S \subseteq Nat, S # {}
  PROVE  Min(S) \in S /\ \A k \in S : Min(S) <= k
<1>1. PICK m \in S : \A k \in S : ~(<<k, m>> \in OpToRel(<, Nat))
  <2> DEFINE R == OpToRel(<, Nat)
  <2>1. IsWellFoundedOn(R, Nat)
    BY NatLessThanWellFounded
  <2> HIDE DEF R
  <2>2. \E m \in S : \A k \in S : ~(<<k, m>> \in R)
    BY <2>1, WFMin
  <2> QED
    BY <2>2 DEF R
<1>2. \A k \in S : ~(k < m)
  BY <1>1 DEF OpToRel
<1>3. \A k \in S : m =< k
  BY <1>2
<1> QED
  BY <1>3 DEF Min

\* What the blocks allow
LEMMA LeastStepIs ==
  ASSUME NEW d \in Nat \ {0}, NEW n \in 0..TLim
  PROVE  /\ LeastStep(d, n) \in Nat \ {0}
         /\ LeastStep(d, n) <= 2 * d
         /\ \A q \in Ranks : LeastStep(d, n) <= CflStep[q][n + 1]
         /\ \A k \in Nat : k <= 2 * d /\ (\A q \in Ranks : k <= CflStep[q][n + 1]) => k <= LeastStep(d, n)
<1> DEFINE S == {2 * d} \cup {CflStep[q][n + 1] : q \in Ranks}
<1>1. TLim \in Nat /\ n + 1 \in 1..(TLim + 1)
  BY DriverAssumption DEF NoStep
<1>2. \A q \in Ranks : CflStep[q][n + 1] \in Nat \ {0}
  BY <1>1, DriverAssumption
<1>3. 2 * d \in Nat \ {0}
  OBVIOUS
<1>4. S \subseteq Nat \ {0} /\ S # {}
  BY <1>2, <1>3
<1>5. \A q \in Ranks : CflStep[q][n + 1] \in S
  OBVIOUS
<1>6. 2 * d \in S /\ \A k \in S : k = 2 * d \/ \E q \in Ranks : k = CflStep[q][n + 1]
  OBVIOUS
<1>7. LeastStep(d, n) = Min(S)
  BY DEF LeastStep
<1> HIDE DEF S
<1>8. Min(S) \in S /\ \A k \in S : Min(S) <= k
  BY <1>4, LeastElement
<1> DEFINE L == LeastStep(d, n)
<1> HIDE DEF L
<1>9. L \in S /\ (\A k \in S : L <= k) /\ L \in Nat \ {0}
  BY <1>4, <1>7, <1>8 DEF L
<1>10. L <= 2 * d /\ \A q \in Ranks : L <= CflStep[q][n + 1]
  BY <1>5, <1>6, <1>9
<1>11. \A k \in Nat : k <= 2 * d /\ (\A q \in Ranks : k <= CflStep[q][n + 1]) => k <= L
  BY <1>6, <1>9
<1> QED
  BY <1>9, <1>10, <1>11 DEF L

\* The step is one, stays within the limit, and is none longer than the blocks allow
LEMMA NextDtIs ==
  ASSUME NEW t \in Nat, t <= TLim, NEW d \in Nat \ {0}, NEW n \in 0..TLim
  PROVE  /\ NextDt(t, d, n) \in Nat \ {0}
         /\ t < TLim => t + NextDt(t, d, n) <= TLim
         /\ \A q \in Ranks : NextDt(t, d, n) <= CflStep[q][n + 1]
<1>1. TLim \in Nat /\ n + 1 \in 1..(TLim + 1)
  BY DriverAssumption DEF NoStep
<1>2. \A q \in Ranks : CflStep[q][n + 1] \in Nat \ {0}
  BY <1>1, DriverAssumption
<1>3. /\ LeastStep(d, n) \in Nat \ {0}
      /\ \A q \in Ranks : LeastStep(d, n) <= CflStep[q][n + 1]
  BY LeastStepIs
<1> QED
  BY <1>1, <1>2, <1>3 DEF NextDt

\* A job resumed at the start computes the step it took over once more
LEMMA FirstStepAgain == NextDt(0, First.dt, 0) = First.dt
<1> DEFINE d == NextDt(0, NoStep, 0)
           L == LeastStep(NoStep, 0)
           K == LeastStep(d, 0)
<1>1. TLim \in Nat /\ 1 <= TLim /\ TLim <= 1000 /\ NoStep = 1000
  BY DriverAssumption DEF NoStep
<1>2. \A q \in Ranks : CflStep[q][0 + 1] \in Nat \ {0}
  BY <1>1, DriverAssumption
<1>3. d \in Nat \ {0} /\ d <= L /\ (d = L \/ d = TLim) /\ (L > TLim => d = TLim) /\ (L <= TLim => d = L)
  <2>1. L \in Nat \ {0}
    BY <1>1, LeastStepIs
  <2> HIDE DEF L
  <2>2. d = IF 0 < TLim /\ 0 + L > TLim THEN TLim - 0 ELSE L
    BY DEF NextDt, L
  <2> QED
    BY <2>1, <2>2, <1>1
<1>4. /\ L \in Nat \ {0} /\ L <= 2 * NoStep
      /\ \A q \in Ranks : L <= CflStep[q][0 + 1]
      /\ \A k \in Nat : k <= 2 * NoStep /\ (\A q \in Ranks : k <= CflStep[q][0 + 1]) => k <= L
  BY <1>1, LeastStepIs
<1> HIDE DEF d, L
<1>5. /\ K \in Nat \ {0} /\ K <= 2 * d
      /\ \A q \in Ranks : K <= CflStep[q][0 + 1]
      /\ \A k \in Nat : k <= 2 * d /\ (\A q \in Ranks : k <= CflStep[q][0 + 1]) => k <= K
  BY <1>1, <1>3, LeastStepIs
<1>6. NextDt(0, d, 0) = IF 0 < TLim /\ 0 + K > TLim THEN TLim - 0 ELSE K
  BY DEF NextDt
<1> HIDE DEF K
<1>7. CASE L <= TLim
  <2>1. d = L
    BY <1>3, <1>7
  <2>2. L <= K
    BY <2>1, <1>4, <1>5
  <2>3. K <= L
    <3>1. K <= 2 * NoStep
      BY <2>1, <1>1, <1>4, <1>5, <1>7
    <3> QED
      BY <3>1, <1>4, <1>5
  <2> QED
    BY <2>1, <2>2, <2>3, <1>1, <1>4, <1>5, <1>6, <1>7 DEF First, d
<1>8. CASE L > TLim
  <2>1. d = TLim
    BY <1>3, <1>8
  <2>2. TLim + 1 <= 2 * d /\ \A q \in Ranks : TLim + 1 <= CflStep[q][0 + 1]
    BY <2>1, <1>1, <1>2, <1>4, <1>8
  <2>3. TLim + 1 <= K
    BY <2>2, <1>1, <1>5
  <2> QED
    BY <2>1, <2>3, <1>1, <1>5, <1>6 DEF First, d
<1> QED
  BY <1>7, <1>8, <1>1, <1>4

-----------------------------------------------------------------------------
(* The course of a run *)

LEMMA OutputsAre ==
  ASSUME NEW o \in Outs
  PROVE  /\ Blocks[o].dcycle \in Nat /\ Blocks[o].dt \in Nat
         /\ Blocks[o].dcycle = 0 => Blocks[o].dt > 0
         /\ o \in Nat
<1>1. o \in DOMAIN Blocks /\ (Blocks[o].dcycle > 0 \/ Blocks[o].dt > 0)
  BY DEF Outs
<1> DEFINE B == [type : {"file", "log", "rst"}, dt : Nat, dcycle : Nat]
<1>2. Blocks \in Seq(B)
  BY DriverAssumption
<1>3. \A b \in B : b.dt \in Nat /\ b.dcycle \in Nat
  OBVIOUS
<1> HIDE DEF B
<1>4. Blocks[o] \in B /\ o \in Nat
  BY <1>1, <1>2
<1>5. Blocks[o].dt \in Nat /\ Blocks[o].dcycle \in Nat
  BY <1>3, <1>4
<1> QED
  BY <1>1, <1>4, <1>5

\* Between two multiples of d the next comes when the number of cycles is one
LEMMA NextMultiple ==
  ASSUME NEW d \in Nat \ {0}, NEW k \in Nat \ {0}, NEW m \in Nat,
         (k - 1) * d <= m, m < k * d
  PROVE  /\ (m + 1) % d = 0 => m + 1 = k * d /\ m + 1 < (k + 1) * d
         /\ (m + 1) % d # 0 => m + 1 < k * d
<1> DEFINE x == m + 1  q == x \div d
<1>1. x = d * q + (x % d) /\ q \in Int /\ x % d \in 0..(d - 1)
  OBVIOUS
<1>2. (k - 1) * d = k * d - d /\ (k + 1) * d = k * d + d
  OBVIOUS
<1>3. q \in Nat /\ k * d \in Nat
  OBVIOUS
<1>4. k * d - d < x /\ x <= k * d /\ x \in Nat
  BY <1>2, <1>3
<1>5. q >= k \/ q <= k - 1
  BY <1>3
<1>6. q >= k => d * q >= k * d
  BY <1>3
<1>7. q >= k + 1 => d * q >= k * d + d
  <2>1. q >= k + 1 => d * q >= d * (k + 1)
    BY <1>3
  <2> QED
    BY <2>1, <1>2
<1>8. q <= k - 1 => d * q <= k * d - d
  <2>1. q <= k - 1 => d * q <= d * (k - 1)
    BY <1>3
  <2> QED
    BY <2>1, <1>2
<1> HIDE DEF q
<1>9. x % d = 0 => x = k * d
  <2> SUFFICES ASSUME x % d = 0 PROVE x = k * d
    OBVIOUS
  <2>1. x = d * q
    BY <1>1
  <2>2. ~(q <= k - 1)
    BY <2>1, <1>4, <1>8
  <2>3. q >= k
    BY <2>2, <1>5
  <2> QED
    BY <2>1, <2>3, <1>4, <1>6
<1>10. x % d # 0 => x < k * d
  <2> SUFFICES ASSUME x % d # 0, x = k * d PROVE FALSE
    BY <1>3, <1>4
  <2>1. ~(q >= k)
    <3>1. d * q <= x - 1
      BY <1>1, <1>3
    <3> QED
      BY <3>1, <1>3, <1>6
  <2>2. d * q <= x - d
    BY <2>1, <1>5, <1>8
  <2> QED
    BY <2>2, <1>1
<1> QED
  BY <1>2, <1>3, <1>9, <1>10

\* The time step of a cycle is no longer than the interval of an output by time
LEMMA StepIsShort ==
  ASSUME ShortSteps, NEW o \in FileOuts, Blocks[o].dcycle = 0,
         NEW t \in Nat, t <= TLim, NEW d \in Nat \ {0}, NEW n \in 0..TLim
  PROVE  NextDt(t, d, n) <= Blocks[o].dt
<1>1. TLim \in Nat /\ n + 1 \in 1..(TLim + 1)
  BY DriverAssumption DEF NoStep
<1>2. PICK q \in Ranks : CflStep[q][n + 1] <= Blocks[o].dt
  BY <1>1 DEF ShortSteps
<1>3. CflStep[q][n + 1] \in Nat \ {0}
  BY <1>1, DriverAssumption
<1>4. NextDt(t, d, n) \in Nat /\ NextDt(t, d, n) <= CflStep[q][n + 1]
  BY NextDtIs
<1>5. Blocks[o].dt \in Nat
  BY OutputsAre DEF FileOuts
<1> QED
  BY <1>2, <1>3, <1>4, <1>5

\* It starts
LEMMA CourseStarts ==
  ASSUME NEW tr, tr[0] = First
  PROVE  Course(0, tr)
<1>1. TLim \in Nat /\ 1 <= TLim /\ NoStep \in Nat \ {0} /\ 0 \in 0..TLim
  BY DriverAssumption DEF NoStep
<1>2. /\ First.time = 0
      /\ First.dt = NextDt(0, NoStep, 0)
      /\ \A o \in FileOuts : First.outp[o] = [last |-> 0, num |-> 1]
  BY DEF First
<1>3. First.dt \in Nat \ {0} /\ 0 + First.dt <= TLim
  BY <1>1, <1>2, NextDtIs
<1>4. \A o \in FileOuts : Punctual(First, 0, o)
  <2> SUFFICES ASSUME NEW o \in FileOuts PROVE Punctual(First, 0, o)
    OBVIOUS
  <2>1. /\ Blocks[o].dcycle \in Nat /\ Blocks[o].dt \in Nat
        /\ Blocks[o].dcycle = 0 => Blocks[o].dt > 0
    BY OutputsAre DEF FileOuts
  <2>2. Blocks[o].dcycle = 0 /\ ShortSteps => First.dt <= Blocks[o].dt
    BY <1>1, <1>2, StepIsShort
  <2>3. (1 - 1) * Blocks[o].dt = 0 /\ 1 * Blocks[o].dt = Blocks[o].dt
        /\ (1 - 1) * Blocks[o].dcycle = 0 /\ 1 * Blocks[o].dcycle = Blocks[o].dcycle
    BY <2>1
  <2>4. First.outp[o].last = 0 /\ First.outp[o].num = 1
    BY <1>2
  <2> QED
    BY <2>1, <2>2, <2>3, <2>4, <1>2 DEF Punctual
<1>5. \A n \in 0..0 : n = 0
  OBVIOUS
<1>6. \A n \in 0..(0 - 1) : FALSE
  OBVIOUS
<1>7. \A o \in FileOuts : /\ First.outp[o] = [last |-> First.outp[o].last, num |-> First.outp[o].num]
                          /\ First.outp[o].last \in Nat /\ First.outp[o].num \in Nat \ {0}
                          /\ First.outp[o].num <= First.outp[o].num
  BY <1>2
<1> QED
  BY <1>1, <1>2, <1>3, <1>4, <1>5, <1>6, <1>7 DEF Course

\* The turn of an output comes when the course comes to it
LEMMA StaysPunctual ==
  ASSUME NEW s, NEW n \in Nat, n + 1 \in 0..TLim, NEW o \in FileOuts,
         s.time \in Nat, s.dt \in Nat \ {0}, s.time < TLim, s.time + s.dt <= TLim,
         s.outp[o].last \in Nat, s.outp[o].num \in Nat \ {0},
         Punctual(s, n, o)
  PROVE  Punctual(Succ(s, n), n + 1, o)
<1> DEFINE b == Blocks[o]
           c == s.outp[o]
           t == s.time + s.dt
           u == Succ(s, n)
<1>1. /\ u.time = t /\ u.dt = NextDt(t, s.dt, n + 1)
      /\ u.outp[o] = IF DueAt(o, n + 1, t, c.last) THEN Onward(o, c) ELSE c
  BY DEF Succ
<1>2. b.dcycle \in Nat /\ b.dt \in Nat /\ c.num \in Nat \ {0} /\ c.last \in Nat /\ t \in Nat
  BY OutputsAre DEF FileOuts
<1>3. /\ Onward(o, c).num = c.num + 1
      /\ Onward(o, c).last = c.last + (IF b.dcycle > 0 THEN 0 ELSE b.dt)
  BY DEF Onward
<1>4. TLim \in Nat
  BY DriverAssumption DEF NoStep
<1>5. b.dcycle = 0 /\ ShortSteps => u.dt <= b.dt
  BY <1>1, <1>2, StepIsShort
<1>6. /\ b.dcycle > 0 => (c.num - 1) * b.dcycle <= n /\ n < c.num * b.dcycle
      /\ b.dcycle = 0 /\ ShortSteps =>
           /\ s.dt <= b.dt
           /\ c.last = (c.num - 1) * b.dt
           /\ s.time < c.num * b.dt
  BY <1>4 DEF Punctual
<1> HIDE DEF b, c, t, u
<1>7. b.dcycle > 0 => (u.outp[o].num - 1) * b.dcycle <= n + 1 /\ n + 1 < u.outp[o].num * b.dcycle
  <2> SUFFICES ASSUME b.dcycle > 0
               PROVE  (u.outp[o].num - 1) * b.dcycle <= n + 1 /\ n + 1 < u.outp[o].num * b.dcycle
    OBVIOUS
  <2>1. /\ (n + 1) % b.dcycle = 0 => n + 1 = c.num * b.dcycle /\ n + 1 < (c.num + 1) * b.dcycle
        /\ (n + 1) % b.dcycle # 0 => n + 1 < c.num * b.dcycle
    BY <1>2, <1>6, NextMultiple
  <2>2. DueAt(o, n + 1, t, c.last) <=> (n + 1) % b.dcycle = 0
    BY <1>2 DEF DueAt, b
  <2>3. (c.num + 1 - 1) = c.num
    BY <1>2
  <2>4. CASE (n + 1) % b.dcycle = 0
    <3>1. u.outp[o].num = c.num + 1
      BY <2>2, <2>4, <1>1, <1>3
    <3>2. (u.outp[o].num - 1) * b.dcycle = c.num * b.dcycle /\ c.num * b.dcycle \in Nat
      BY <3>1, <2>3, <1>2
    <3>3. u.outp[o].num * b.dcycle = (c.num + 1) * b.dcycle
      BY <3>1
    <3>4. n + 1 = c.num * b.dcycle /\ n + 1 < (c.num + 1) * b.dcycle
      BY <2>1, <2>4
    <3> QED
      BY <3>2, <3>3, <3>4
  <2>5. CASE (n + 1) % b.dcycle # 0
    <3>1. u.outp[o].num = c.num
      BY <2>2, <2>5, <1>1
    <3>2. (c.num - 1) * b.dcycle \in Int
      BY <1>2
    <3> QED
      BY <3>1, <3>2, <2>1, <2>5, <1>6
  <2> QED
    BY <2>4, <2>5
<1>8. b.dcycle = 0 /\ ShortSteps =>
        /\ u.outp[o].last = (u.outp[o].num - 1) * b.dt
        /\ u.time < u.outp[o].num * b.dt \/ u.time >= TLim
  <2> SUFFICES ASSUME b.dcycle = 0, ShortSteps
               PROVE  /\ u.outp[o].last = (u.outp[o].num - 1) * b.dt
                      /\ u.time < u.outp[o].num * b.dt \/ u.time >= TLim
    OBVIOUS
  <2>1. DueAt(o, n + 1, t, c.last) <=> t >= c.last + b.dt /\ t < TLim
    BY <1>2 DEF DueAt, b
  <2>2. /\ (c.num + 1 - 1) * b.dt = c.num * b.dt
        /\ (c.num - 1) * b.dt + b.dt = c.num * b.dt
        /\ (c.num + 1) * b.dt = c.num * b.dt + b.dt
        /\ c.num * b.dt \in Nat
    BY <1>2
  <2>3. t < c.num * b.dt + b.dt
    BY <2>2, <1>2, <1>6 DEF t
  <2>4. CASE t >= c.last + b.dt /\ t < TLim
    <3>1. u.outp[o].num = c.num + 1 /\ u.outp[o].last = c.last + b.dt
      BY <2>1, <2>4, <1>1, <1>3
    <3>2. (u.outp[o].num - 1) * b.dt = c.num * b.dt /\ u.outp[o].num * b.dt = c.num * b.dt + b.dt
      <4>1. u.outp[o].num - 1 = c.num
        BY <3>1, <1>2
      <4>2. u.outp[o].num * b.dt = (c.num + 1) * b.dt
        BY <3>1
      <4> QED
        BY <4>1, <4>2, <2>2
    <3>3. c.last + b.dt = c.num * b.dt
      BY <2>2, <1>6
    <3> QED
      BY <3>1, <3>2, <3>3, <2>3, <1>1
  <2>5. CASE ~(t >= c.last + b.dt /\ t < TLim)
    <3>1. u.outp[o] = c
      BY <2>1, <2>5, <1>1
    <3>2. t < c.num * b.dt \/ t >= TLim
      BY <2>2, <2>5, <1>2, <1>4, <1>6
    <3> QED
      BY <3>1, <3>2, <1>1, <1>6
  <2> QED
    BY <2>4, <2>5
<1> QED
  BY <1>5, <1>7, <1>8 DEF Punctual, b, u

\* It goes on
LEMMA CourseGoesOn ==
  ASSUME NEW M, NEW tr, Course(M, tr), tr[M].time < TLim
  PROVE  \E tr2 : Course(M + 1, tr2) /\ \A n \in 0..M : tr2[n] = tr[n]
<1> DEFINE s == tr[M]
           u == Succ(s, M)
           tr2 == [n \in 0..(M + 1) |-> IF n = M + 1 THEN u ELSE tr[n]]
<1>0. M \in Nat /\ TLim \in Nat
  <2>1. M \in Nat
    BY DEF Course
  <2> QED
    BY <2>1, DriverAssumption DEF NoStep
<1>1. \A n \in 0..M : tr2[n] = tr[n] /\ n # M + 1 /\ n \in Nat
  BY <1>0
<1>2. tr2[M + 1] = u /\ tr2[M] = s /\ tr2[0] = tr[0]
  BY <1>0
<1>3. /\ s.time \in Nat /\ s.dt \in Nat \ {0} /\ M <= s.time
      /\ s.time < TLim /\ s.time + s.dt <= TLim
      /\ \A o \in FileOuts :
            /\ s.outp[o] = [last |-> s.outp[o].last, num |-> s.outp[o].num]
            /\ s.outp[o].last \in Nat /\ s.outp[o].num \in Nat \ {0}
            /\ Punctual(s, M, o)
            /\ \A m \in 0..M : tr[m].outp[o].num <= s.outp[o].num
  BY <1>0 DEF Course
<1>4. /\ u.time = s.time + s.dt /\ u.dt = NextDt(s.time + s.dt, s.dt, M + 1)
      /\ \A o \in FileOuts : u.outp[o] =
           IF DueAt(o, M + 1, s.time + s.dt, s.outp[o].last) THEN Onward(o, s.outp[o]) ELSE s.outp[o]
  BY DEF Succ
<1>5. M + 1 \in 0..TLim /\ s.time + s.dt \in Nat /\ M + 1 <= s.time + s.dt
  BY <1>0, <1>3
<1>6. /\ u.time \in Nat /\ u.dt \in Nat \ {0} /\ M + 1 <= u.time /\ u.time <= TLim
      /\ u.time < TLim => u.time + u.dt <= TLim
  <2> DEFINE t == s.time + s.dt
  <2>1. t \in Nat /\ t <= TLim /\ M + 1 <= t
    BY <1>3, <1>5
  <2> HIDE DEF t
  <2>2. NextDt(t, s.dt, M + 1) \in Nat \ {0} /\ (t < TLim => t + NextDt(t, s.dt, M + 1) <= TLim)
    BY <2>1, <1>3, <1>5, NextDtIs
  <2>3. u.time = t /\ u.dt = NextDt(t, s.dt, M + 1)
    BY <1>4 DEF t
  <2> HIDE DEF u, s
  <2> QED
    BY <2>1, <2>2, <2>3
<1>7. \A o \in FileOuts : Punctual(u, M + 1, o)
  BY <1>0, <1>3, <1>5, StaysPunctual
<1>8. \A o \in FileOuts :
        /\ u.outp[o] = [last |-> u.outp[o].last, num |-> u.outp[o].num]
        /\ u.outp[o].last \in Nat /\ u.outp[o].num \in Nat \ {0}
        /\ s.outp[o].num <= u.outp[o].num
  <2> SUFFICES ASSUME NEW o \in FileOuts
               PROVE  /\ u.outp[o] = [last |-> u.outp[o].last, num |-> u.outp[o].num]
                      /\ u.outp[o].last \in Nat /\ u.outp[o].num \in Nat \ {0}
                      /\ s.outp[o].num <= u.outp[o].num
    OBVIOUS
  <2>1. Blocks[o].dt \in Nat
    BY OutputsAre DEF FileOuts
  <2>2. u.outp[o] = Onward(o, s.outp[o]) \/ u.outp[o] = s.outp[o]
    BY <1>4
  <2>5. /\ s.outp[o] = [last |-> s.outp[o].last, num |-> s.outp[o].num]
        /\ s.outp[o].last \in Nat /\ s.outp[o].num \in Nat \ {0}
    BY <1>3
  <2> HIDE DEF u, s
  <2>3. CASE u.outp[o] = s.outp[o]
    BY <2>3, <2>5
  <2>4. CASE u.outp[o] = Onward(o, s.outp[o])
    BY <2>1, <2>4, <2>5 DEF Onward
  <2> QED
    BY <2>2, <2>3, <2>4
<1> HIDE DEF tr2, u, s
<1>9. \A o \in FileOuts, m \in 0..(M + 1) : tr2[m].outp[o].num <= u.outp[o].num
  <2> SUFFICES ASSUME NEW o \in FileOuts, NEW m \in 0..(M + 1)
               PROVE  tr2[m].outp[o].num <= u.outp[o].num
    OBVIOUS
  <2>1. u.outp[o].num \in Nat
    BY <1>8
  <2>2. CASE m = M + 1
    BY <2>1, <2>2, <1>2
  <2>3. CASE m # M + 1
    <3>1. m \in 0..M
      BY <2>3, <1>0
    <3>2. tr2[m] = tr[m]
      BY <3>1, <1>1
    <3>3. tr[m].outp[o].num \in Nat /\ s.outp[o].num \in Nat
      BY <3>1, <1>3 DEF Course
    <3>4. tr[m].outp[o].num <= s.outp[o].num /\ s.outp[o].num <= u.outp[o].num
      BY <3>1, <1>3, <1>8
    <3> QED
      BY <3>2, <3>3, <3>4, <2>1
  <2> QED
    BY <2>2, <2>3
<1>10. Course(M + 1, tr2)
  <2>1. M + 1 \in Nat /\ tr2[0] = First
    BY <1>0, <1>2 DEF Course
  <2>2. \A n \in 0..(M + 1 - 1) : tr2[n].time < TLim /\ tr2[n + 1] = Succ(tr2[n], n)
    <3> SUFFICES ASSUME NEW n \in 0..M
                 PROVE  tr2[n].time < TLim /\ tr2[n + 1] = Succ(tr2[n], n)
      BY <1>0
    <3>1. CASE n = M
      BY <3>1, <1>2, <1>3 DEF u
    <3>2. CASE n # M
      <4>1. n \in 0..(M - 1) /\ n + 1 \in 0..M
        BY <3>2, <1>0
      <4> QED
        BY <4>1, <1>1 DEF Course
    <3> QED
      BY <3>1, <3>2
  <2>3. ASSUME NEW n \in 0..(M + 1)
        PROVE  /\ tr2[n].time \in Nat /\ tr2[n].dt \in Nat \ {0}
               /\ n <= tr2[n].time /\ tr2[n].time <= TLim
               /\ tr2[n].time < TLim => tr2[n].time + tr2[n].dt <= TLim
               /\ \A o \in FileOuts :
                    /\ tr2[n].outp[o] = [last |-> tr2[n].outp[o].last, num |-> tr2[n].outp[o].num]
                    /\ tr2[n].outp[o].last \in Nat /\ tr2[n].outp[o].num \in Nat \ {0}
                    /\ Punctual(tr2[n], n, o)
                    /\ \A m \in 0..n : tr2[m].outp[o].num <= tr2[n].outp[o].num
    <3>1. CASE n = M + 1
      BY <3>1, <1>2, <1>6, <1>7, <1>8, <1>9
    <3>2. CASE n # M + 1
      <4>1. n \in 0..M /\ \A m \in 0..n : m \in 0..M
        BY <3>2, <1>0
      <4>2. tr2[n] = tr[n] /\ \A m \in 0..n : tr2[m] = tr[m]
        BY <4>1, <1>1
      <4> QED
        BY <4>1, <4>2 DEF Course
    <3> QED
      BY <3>1, <3>2
  <2> QED
    BY <2>1, <2>2, <2>3 DEF Course
<1> QED
  BY <1>1, <1>10

\* All that is on the course so far stays on it
LEMMA LongerCourse ==
  ASSUME NEW M, NEW tr, M \in Nat, NEW tr2, \A n \in 0..M : tr2[n] = tr[n]
  PROVE  /\ \A r \in Ranks : OnCourse(r, M, tr) => OnCourse(r, M + 1, tr2)
         /\ FilesOnCourse(M, tr) => FilesOnCourse(M + 1, tr2)
<1>1. \A n \in 0..M : n \in 0..(M + 1) /\ (n # 0 => n - 1 \in 0..M)
  OBVIOUS
<1>2. ASSUME NEW r \in Ranks, OnCourse(r, M, tr)
      PROVE  OnCourse(r, M + 1, tr2)
  <2> DEFINE n == ncycle[r]
  <2>1. n \in 0..M /\ n \in 0..(M + 1) /\ tr2[n] = tr[n]
    BY <1>1, <1>2 DEF OnCourse
  <2>2. n # 0 => tr2[n - 1] = tr[n - 1]
    BY <1>1, <2>1
  <2>3. pc[r] = "run" => n # 0
    BY <1>2, <2>1 DEF OnCourse, After
  <2>4. \A o : CountersOf(r, o, tr2) = CountersOf(r, o, tr)
    BY <2>1, <2>2, <2>3 DEF CountersOf
  <2> QED
    BY <1>2, <2>1, <2>2, <2>4 DEF OnCourse
<1>3. ASSUME NEW f, NEW o, NEW n, NEW c \in 0..M, MadeAt(f, o, n, c, tr)
      PROVE  MadeAt(f, o, n, c, tr2)
  <2>1. tr2[c] = tr[c] /\ (c # 0 => tr2[c - 1] = tr[c - 1]) /\ tr2[0] = tr[0]
    BY <1>1
  <2> QED
    BY <2>1, <1>3 DEF MadeAt
<1> QED
  BY <1>1, <1>2, <1>3 DEF FilesOnCourse

\* A rank that does nothing stays where it is, and so does a file
LEMMA RankStays ==
  ASSUME NEW M, NEW tr, NEW r \in Ranks, OnCourse(r, M, tr),
         pc'[r] = pc[r], left'[r] = left[r], time'[r] = time[r], dt'[r] = dt[r],
         ncycle'[r] = ncycle[r], outp'[r] = outp[r], resumed' = resumed
  PROVE  OnCourse(r, M, tr)'
BY DEF OnCourse, CountersOf, NewOut

LEMMA FilesStay ==
  ASSUME NEW M, NEW tr, FilesOnCourse(M, tr), disk' = disk
  PROVE  FilesOnCourse(M, tr)'
BY DEF FilesOnCourse, MadeAt, Scheduled

-----------------------------------------------------------------------------
(* The order of the outputs *)

\* The output to consider is one that is left, the restart output only when no
\* other is
LEMMA NextIs ==
  ASSUME NEW r \in Ranks, left[r] \subseteq Outs, left[r] # {}
  PROVE  next(r) \in left[r] /\ (next(r) \in Rst => left[r] = {next(r)})
<1>1. \E o \in left[r] : \A p \in left[r] \ {o} : Earlier(o, p)
  <2>1. CASE left[r] \subseteq Rst
    BY <2>1, OneRestartAssumption
  <2>2. CASE ~(left[r] \subseteq Rst)
    <3> DEFINE T == left[r] \ Rst
               S == {Len(Blocks) - o : o \in T}
    <3>1. \A o \in left[r] : o \in 1..Len(Blocks)
      <4>1. DOMAIN Blocks = 1..Len(Blocks)
        BY DriverAssumption
      <4> QED
        BY <4>1 DEF Outs
    <3>2. Len(Blocks) \in Nat
      BY DriverAssumption
    <3>3. S \subseteq Nat /\ S # {}
      BY <2>2, <3>1, <3>2
    <3>4. \A o \in T : Len(Blocks) - o \in S
      OBVIOUS
    <3>5. \A k \in S : \E o \in T : k = Len(Blocks) - o
      OBVIOUS
    <3> HIDE DEF S
    <3>6. Min(S) \in S /\ \A k \in S : Min(S) <= k
      BY <3>3, LeastElement
    <3>7. PICK m \in T : Min(S) = Len(Blocks) - m
      BY <3>5, <3>6
    <3>8. \A p \in T \ {m} : m > p
      BY <3>1, <3>2, <3>4, <3>6, <3>7
    <3> QED
      BY <3>7, <3>8 DEF Earlier
  <2> QED
    BY <2>1, <2>2
<1>2. next(r) \in left[r] /\ \A p \in left[r] \ {next(r)} : Earlier(next(r), p)
  BY <1>1 DEF next
<1>3. ASSUME next(r) \in Rst, NEW p \in left[r] \ {next(r)} PROVE FALSE
  BY <1>2, <1>3, OneRestartAssumption DEF Earlier
<1> QED
  BY <1>2, <1>3

-----------------------------------------------------------------------------
(* One lemma for each step *)

\* The first job is at the start of the course
LEMMA InitOneCourse == Init => OneCourse
<1> SUFFICES ASSUME Init PROVE OneCourse
  OBVIOUS
<1> DEFINE tr == [n \in {0} |-> First]
<1>1. tr[0] = First
  OBVIOUS
<1> HIDE DEF tr
<1>2. Course(0, tr)
  BY <1>1, CourseStarts
<1>3. Shape
  <2>1. DOMAIN <<>> = {}
    OBVIOUS
  <2> QED
    BY <2>1 DEF Init, Shape
<1>4. \A r \in Ranks : OnCourse(r, 0, tr)
  <2> SUFFICES ASSUME NEW r \in Ranks PROVE OnCourse(r, 0, tr)
    OBVIOUS
  <2>1. /\ pc[r] = "start" /\ left[r] = Outs /\ ~resumed
        /\ time[r] = 0 /\ dt[r] = NoStep /\ ncycle[r] = 0 /\ outp[r] = NewOut
    BY DEF Init
  <2>2. DOMAIN NewOut = Outs
    BY DEF NewOut
  <2>3. \A o \in FileOuts : CountersOf(r, o, tr) = NewOut[o]
    BY <2>1 DEF CountersOf, FileOuts
  <2> QED
    BY <1>1, <2>1, <2>2, <2>3 DEF OnCourse, First, After, OutputPhases
<1>5. FilesOnCourse(0, tr)
  <2>1. DOMAIN <<>> = {}
    OBVIOUS
  <2> QED
    BY <2>1 DEF Init, FilesOnCourse, FileOuts
<1> QED
  BY <1>2, <1>3, <1>4, <1>5 DEF OneCourse, Follows

\* The step is the one of the course, whatever the rank
LEMMA NewTimeStepFollows ==
  ASSUME IInv, Shape, NEW M, NEW tr, Follows(M, tr), NewTimeStep
  PROVE  Shape' /\ Follows(M, tr)'
<1>1. /\ up /\ up' = up /\ clean' = clean
      /\ UNCHANGED <<left, time, ncycle, outp, resumed, disk>>
      /\ \A r \in Ranks : pc[r] \in {"start", "newdt"}
  BY DEF NewTimeStep
<1>2. Types /\ SameCounters /\ StartTogether
  BY <1>1 DEF IInv
<1>3. Shape'
  BY <1>1 DEF Shape
<1>4. FilesOnCourse(M, tr)'
  BY <1>1, FilesStay DEF Follows
<1>5. Course(M, tr) /\ M \in Nat
  BY DEF Follows, Course
<1>6. ASSUME clean, NEW r \in Ranks PROVE OnCourse(r, M, tr)'
  <2> DEFINE n == ncycle[r]
  <2>1. OnCourse(r, M, tr)
    BY <1>1, <1>6 DEF Follows
  <2>2. \A q \in Ranks : dt[q] = dt[r] /\ ncycle[q] = ncycle[r]
    <3>1. \A q \in Ranks : pc[q] = pc[r]
      BY <1>1, <1>2 DEF StartTogether
    <3> QED
      BY <3>1, <1>2 DEF SameCounters
  <2>3. dt'[r] = NextDt(time[r], dt[r], n)
    <3>1. {2 * dt[q] : q \in Ranks} = {2 * dt[r]}
      BY <2>2
    <3>2. {CflStep[q][ncycle[q] + 1] : q \in Ranks} = {CflStep[q][n + 1] : q \in Ranks}
      BY <2>2
    <3>3. dt'[r] = NewDt(r)
      BY DEF NewTimeStep
    <3> QED
      BY <3>1, <3>2, <3>3 DEF NewDt, NextDt, LeastStep
  <2>4. n \in 0..M /\ time[r] = tr[n].time
    BY <2>1 DEF OnCourse
  <2>5. dt'[r] = tr[n].dt
    <3>1. CASE pc[r] = "start"
      BY <3>1, <2>1, <2>3 DEF OnCourse
    <3>2. CASE pc[r] = "newdt"
      <4>1. n > 0 /\ dt[r] = tr[n - 1].dt
        BY <3>2, <2>1 DEF OnCourse, After
      <4>2. n - 1 \in 0..(M - 1) /\ n - 1 + 1 = n
        BY <4>1, <2>4, <1>5
      <4>3. tr[n] = Succ(tr[n - 1], n - 1)
        BY <4>2, <1>5 DEF Course
      <4> QED
        BY <4>1, <4>2, <4>3, <2>3, <2>4 DEF Succ
    <3> QED
      BY <3>1, <3>2, <1>1
  <2>6. /\ pc'[r] = IF pc[r] = "start" /\ ~resumed THEN "init" ELSE BeforeLoop
        /\ left'[r] = left[r] /\ time'[r] = time[r] /\ ncycle'[r] = n
        /\ outp'[r] = outp[r] /\ resumed' = resumed
    BY <1>1 DEF NewTimeStep
  <2>7. pc'[r] \in {"init", "clock", "loop"} /\ (pc'[r] = "init" <=> pc[r] = "start" /\ ~resumed)
    BY <2>6 DEF BeforeLoop
  <2>8. left[r] = Outs
    BY <1>1, <2>1 DEF OnCourse, OutputPhases
  <2>9. \A o \in FileOuts : outp'[r][o] = CountersOf(r, o, tr)'
    <3>1. \A o \in FileOuts : outp[r][o] = CountersOf(r, o, tr)
      BY <1>1, <2>1 DEF OnCourse, Out
    <3>2. \A o \in FileOuts : CountersOf(r, o, tr)' = CountersOf(r, o, tr)
      BY <1>1, <2>6, <2>7 DEF CountersOf, NewOut
    <3> QED
      BY <3>1, <3>2, <2>6
  <2> QED
    BY <2>1, <2>4, <2>5, <2>6, <2>7, <2>8, <2>9 DEF OnCourse, After, OutputPhases
<1> QED
  BY <1>1, <1>3, <1>4, <1>5, <1>6 DEF Follows

\* The step is made: the course goes on unless another rank or job has been there
LEMMA CycleFollows ==
  ASSUME IInv, Shape, NEW M, NEW tr, Follows(M, tr), NEW r \in Ranks, Cycle(r)
  PROVE  OneCourse'
<1>1. /\ up /\ up' = up /\ clean' = clean /\ resumed' = resumed
      /\ UNCHANGED <<left, dt, outp, disk>>
      /\ pc[r] = "loop" /\ time[r] < TLim
  BY DEF Cycle, Continue
<1>2. Types
  BY DEF IInv
<1>3. Shape'
  BY <1>1 DEF Shape
<1>4. /\ pc'[r] = "run" /\ time'[r] = time[r] + dt[r] /\ ncycle'[r] = ncycle[r] + 1
      /\ \A q \in Ranks \ {r} : pc'[q] = pc[q] /\ time'[q] = time[q] /\ ncycle'[q] = ncycle[q]
  BY <1>2 DEF Types, Cycle
<1>5. Course(M, tr) /\ M \in Nat
  BY DEF Follows, Course
<1>6. FilesOnCourse(M, tr)'
  BY <1>1, FilesStay DEF Follows
<1>7. CASE ~clean
  BY <1>1, <1>3, <1>5, <1>6, <1>7 DEF OneCourse, Follows
<1>8. CASE clean
  <2>1. \A q \in Ranks : OnCourse(q, M, tr)
    BY <1>1, <1>8 DEF Follows
  <2>2. PICK N, tr2 : /\ N \in Nat /\ Course(N, tr2) /\ FilesOnCourse(N, tr2)
                      /\ \A q \in Ranks : OnCourse(q, N, tr2)
                      /\ ncycle[r] + 1 \in 0..N
    <3>1. ncycle[r] \in 0..M /\ time[r] = tr[ncycle[r]].time
      BY <2>1 DEF OnCourse
    <3>2. CASE ncycle[r] = M
      <4>1. PICK tr2 : Course(M + 1, tr2) /\ \A n \in 0..M : tr2[n] = tr[n]
        BY <3>1, <3>2, <1>1, <1>5, CourseGoesOn
      <4>2. /\ \A q \in Ranks : OnCourse(q, M + 1, tr2)
            /\ FilesOnCourse(M + 1, tr2)
        <5>1. FilesOnCourse(M, tr)
          BY DEF Follows
        <5> QED
          BY <5>1, <4>1, <1>5, <2>1, LongerCourse
      <4> QED
        BY <4>1, <4>2, <3>2, <1>5
    <3>3. CASE ncycle[r] # M
      <4>1. ncycle[r] + 1 \in 0..M /\ FilesOnCourse(M, tr)
        BY <3>1, <3>3, <1>5 DEF Follows
      <4> QED
        BY <4>1, <1>5, <2>1
    <3> QED
      BY <3>2, <3>3
  <2>3. FilesOnCourse(N, tr2)'
    BY <2>2, <1>1, FilesStay
  <2>4. OnCourse(r, N, tr2)'
    <3> DEFINE n == ncycle[r]
    <3>1. OnCourse(r, N, tr2)
      BY <2>2
    <3>2. /\ n \in 0..N /\ time[r] = tr2[n].time /\ dt[r] = tr2[n].dt /\ left[r] = Outs
          /\ DOMAIN outp[r] = Outs
      BY <3>1, <1>1 DEF OnCourse, OutputPhases
    <3>3. n \in 0..(N - 1) /\ n + 1 - 1 = n /\ n + 1 > 0 /\ n + 1 \in 0..N
      BY <2>2, <3>2
    <3>4. tr2[n + 1] = Succ(tr2[n], n)
      BY <3>3, <2>2 DEF Course
    <3>5. time'[r] = tr2[n + 1].time
      BY <3>2, <3>4, <1>4 DEF Succ
    <3>6. \A o \in FileOuts : outp'[r][o] = CountersOf(r, o, tr2)'
      <4>1. \A o \in FileOuts : outp[r][o] = CountersOf(r, o, tr2)
        BY <3>1, <1>1 DEF OnCourse, Out
      <4>2. \A o \in FileOuts : o \in left[r] /\ CountersOf(r, o, tr2) = tr2[n].outp[o]
        BY <3>2, <1>1 DEF CountersOf, FileOuts
      <4>3. ncycle'[r] - 1 = n
        BY <3>3, <1>4
      <4>4. \A o \in FileOuts : CountersOf(r, o, tr2)' = tr2[n].outp[o]
        BY <4>2, <4>3, <1>1, <1>4 DEF CountersOf
      <4> QED
        BY <4>1, <4>2, <4>4, <1>1
    <3>7. /\ ncycle'[r] = n + 1 /\ ncycle'[r] - 1 = n /\ pc'[r] = "run"
          /\ dt'[r] = tr2[ncycle'[r] - 1].dt /\ DOMAIN outp'[r] = Outs
      BY <3>2, <3>3, <1>1, <1>4
    <3>8. ncycle'[r] \in 0..N /\ ncycle'[r] > 0 /\ time'[r] = tr2[ncycle'[r]].time
      BY <3>3, <3>5, <3>7
    <3> HIDE DEF n
    <3> QED
      BY <3>6, <3>7, <3>8 DEF OnCourse, After, OutputPhases
  <2>5. \A q \in Ranks \ {r} : OnCourse(q, N, tr2)'
    BY <2>2, <1>1, <1>4, RankStays
  <2>6. Follows(N, tr2)'
    BY <2>2, <2>3, <2>4, <2>5 DEF Follows
  <2> QED
    BY <2>6, <1>3 DEF OneCourse
<1> QED
  BY <1>7, <1>8

\* A rank learns the wall clock, or leaves the loop
LEMMA LoopFollows ==
  ASSUME IInv, Shape, NEW M, NEW tr, Follows(M, tr), NEW r \in Ranks,
         UpdateWallClock(r) \/ Leave(r)
  PROVE  Shape' /\ Follows(M, tr)'
<1>1. /\ up /\ up' = up /\ clean' = clean /\ resumed' = resumed
      /\ UNCHANGED <<left, time, dt, ncycle, outp, disk>>
      /\ pc[r] \in {"clock", "loop"} /\ \E x \in {"loop", "final"} : pc' = [pc EXCEPT ![r] = x]
  BY DEF UpdateWallClock, Leave, counters
<1>2. pc'[r] \in {"loop", "final"} /\ \A q \in Ranks \ {r} : pc'[q] = pc[q]
  BY <1>1 DEF IInv, Types
<1>3. Shape'
  BY <1>1 DEF Shape
<1>4. FilesOnCourse(M, tr)'
  BY <1>1, FilesStay DEF Follows
<1>5. Course(M, tr)
  BY DEF Follows
<1>6. ASSUME clean PROVE \A q \in Ranks : OnCourse(q, M, tr)'
  <2>1. \A q \in Ranks : OnCourse(q, M, tr)
    BY <1>1, <1>6 DEF Follows
  <2>2. \A q \in Ranks \ {r} : OnCourse(q, M, tr)'
    BY <2>1, <1>1, <1>2, RankStays
  <2>3. OnCourse(r, M, tr)'
    <3>1. \A o \in FileOuts : pc'[r] # "final" => outp'[r][o] = CountersOf(r, o, tr)'
      BY <2>1, <1>1, <1>2 DEF OnCourse, CountersOf, Out
    <3>2. left'[r] = Outs
      BY <2>1, <1>1 DEF OnCourse, OutputPhases
    <3>3. /\ ncycle'[r] \in 0..M /\ time'[r] = tr[ncycle'[r]].time
          /\ dt'[r] = tr[ncycle'[r]].dt /\ DOMAIN outp'[r] = Outs
      BY <2>1, <1>1 DEF OnCourse
    <3> QED
      BY <3>1, <3>2, <3>3, <1>2 DEF OnCourse, After, Out
  <2> QED
    BY <2>2, <2>3
<1> QED
  BY <1>1, <1>3, <1>4, <1>5, <1>6 DEF Follows

\* All outputs have been considered
LEMMA EndOutputsFollows ==
  ASSUME IInv, Shape, NEW M, NEW tr, Follows(M, tr), NEW r \in Ranks, EndOutputs(r)
  PROVE  Shape' /\ Follows(M, tr)'
<1>1. /\ up /\ up' = up /\ clean' = clean /\ resumed' = resumed
      /\ UNCHANGED <<time, dt, ncycle, outp, disk>> /\ left[r] = {}
      /\ left' = [left EXCEPT ![r] = Outs]
      /\ \/ pc[r] = "init" /\ pc' = [pc EXCEPT ![r] = BeforeLoop]
         \/ pc[r] = "run" /\ pc' = [pc EXCEPT ![r] = "newdt"]
         \/ pc[r] = "final" /\ pc' = [pc EXCEPT ![r] = "done"]
  BY DEF EndOutputs, counters
<1>2. /\ \/ pc[r] = "init" /\ pc'[r] \in {"clock", "loop"}
         \/ pc[r] = "run" /\ pc'[r] = "newdt"
         \/ pc[r] = "final" /\ pc'[r] = "done"
      /\ left'[r] = Outs
      /\ \A q \in Ranks \ {r} : pc'[q] = pc[q] /\ left'[q] = left[q]
  BY <1>1 DEF IInv, Types, Shape, BeforeLoop
<1>3. Shape'
  BY <1>1 DEF Shape
<1>4. FilesOnCourse(M, tr)'
  BY <1>1, FilesStay DEF Follows
<1>5. Course(M, tr)
  BY DEF Follows
<1>6. ASSUME clean PROVE \A q \in Ranks : OnCourse(q, M, tr)'
  <2>1. \A q \in Ranks : OnCourse(q, M, tr)
    BY <1>1, <1>6 DEF Follows
  <2>2. \A q \in Ranks \ {r} : OnCourse(q, M, tr)'
    BY <2>1, <1>1, <1>2, RankStays
  <2>3. OnCourse(r, M, tr)'
    <3>1. \A o \in FileOuts : pc'[r] # "done" =>
            outp'[r][o] = tr[ncycle[r]].outp[o] /\ CountersOf(r, o, tr)' = tr[ncycle[r]].outp[o]
      BY <2>1, <1>1, <1>2 DEF OnCourse, CountersOf, Out
    <3>2. /\ ncycle'[r] \in 0..M /\ time'[r] = tr[ncycle'[r]].time /\ DOMAIN outp'[r] = Outs
          /\ pc[r] = "init" => dt'[r] = tr[ncycle'[r]].dt
          /\ pc[r] = "run" => ncycle'[r] > 0 /\ dt'[r] = tr[ncycle'[r] - 1].dt
      BY <2>1, <1>1 DEF OnCourse, After
    <3> QED
      BY <3>1, <3>2, <1>2 DEF OnCourse, After, Out
  <2> QED
    BY <2>2, <2>3
<1> QED
  BY <1>1, <1>3, <1>4, <1>5, <1>6 DEF Follows

\* An output that is not due in this cycle is not due on the course
LEMMA SkipFollows ==
  ASSUME IInv, Shape, NEW M, NEW tr, Follows(M, tr), NEW r \in Ranks, Skip(r)
  PROVE  Shape' /\ Follows(M, tr)'
<1> DEFINE o == next(r)
<1>1. /\ up /\ up' = up /\ clean' = clean /\ resumed' = resumed
      /\ UNCHANGED <<pc, time, dt, ncycle, outp, disk>>
      /\ left' = [left EXCEPT ![r] = @ \ {o}]
      /\ pc[r] = "run" /\ ~Due(r, o) /\ left[r] # {}
  BY DEF Skip, Considered, Made, AtOutput, counters
<1>2. o \in left[r] /\ left[r] \subseteq Outs
  BY <1>1, NextIs DEF Shape
<1> HIDE DEF o
<1>3. left'[r] = left[r] \ {o} /\ \A q \in Ranks \ {r} : left'[q] = left[q]
  BY <1>1 DEF Shape
<1>4. Shape'
  BY <1>1, <1>3 DEF Shape
<1>5. FilesOnCourse(M, tr)'
  BY <1>1, FilesStay DEF Follows
<1>6. Course(M, tr) /\ M \in Nat
  BY DEF Follows, Course
<1>7. ASSUME clean PROVE \A q \in Ranks : OnCourse(q, M, tr)'
  <2>1. \A q \in Ranks : OnCourse(q, M, tr)
    BY <1>1, <1>7 DEF Follows
  <2>2. \A q \in Ranks \ {r} : OnCourse(q, M, tr)'
    BY <2>1, <1>1, <1>3, RankStays
  <2>3. OnCourse(r, M, tr)'
    <3> DEFINE n == ncycle[r]
    <3>1. /\ n \in 0..M /\ n > 0 /\ time[r] = tr[n].time /\ dt[r] = tr[n - 1].dt
          /\ DOMAIN outp[r] = Outs
          /\ \A p \in FileOuts : outp[r][p] = CountersOf(r, p, tr)
      BY <2>1, <1>1 DEF OnCourse, After, Out
    <3>2. n - 1 \in 0..(M - 1) /\ n - 1 + 1 = n
      BY <3>1, <1>6
    <3>3. tr[n] = Succ(tr[n - 1], n - 1)
      BY <3>2, <1>6 DEF Course
    <3>4. \A p \in FileOuts : tr[n].outp[p] =
            IF DueAt(p, n, tr[n].time, tr[n - 1].outp[p].last)
            THEN Onward(p, tr[n - 1].outp[p]) ELSE tr[n - 1].outp[p]
      BY <3>2, <3>3 DEF Succ
    <3>5. o \in FileOuts => outp[r][o] = tr[n - 1].outp[o]
      BY <3>1, <1>1, <1>2 DEF CountersOf
    <3>6. o \in FileOuts => tr[n].outp[o] = tr[n - 1].outp[o]
      <4>1. o \in FileOuts => ~DueAt(o, n, tr[n].time, tr[n - 1].outp[o].last)
        BY <3>1, <3>5, <1>1 DEF Due, DueAt
      <4> QED
        BY <4>1, <3>4
    <3>7. \A p \in FileOuts : outp'[r][p] = CountersOf(r, p, tr)'
      BY <3>1, <3>5, <3>6, <1>1, <1>3 DEF CountersOf
    <3>8. ncycle'[r] = n /\ time'[r] = time[r] /\ dt'[r] = dt[r] /\ outp'[r] = outp[r] /\ pc'[r] = "run"
      BY <1>1
    <3> HIDE DEF n
    <3> QED
      BY <3>1, <3>7, <3>8 DEF OnCourse, After, OutputPhases
  <2> QED
    BY <2>2, <2>3
<1> QED
  BY <1>1, <1>4, <1>5, <1>6, <1>7 DEF Follows

\* The event log numbers no files
LEMMA WriteEventLogFollows ==
  ASSUME IInv, Shape, NEW M, NEW tr, Follows(M, tr), WriteEventLog
  PROVE  Shape' /\ Follows(M, tr)'
<1> DEFINE o == next(0)
<1>1. /\ up' = up /\ clean' = clean /\ resumed' = resumed
      /\ UNCHANGED <<pc, time, dt, ncycle, disk>>
      /\ left' = [r \in Ranks |-> left[r] \ {o}]
      /\ DOMAIN outp' = Ranks
      /\ \A r \in Ranks : /\ DOMAIN outp'[r] = DOMAIN outp[r]
                          /\ \A p \in DOMAIN outp[r] \ {o} : outp'[r][p] = outp[r][p]
      /\ IsLog(o)
      /\ \A r \in Ranks : AtOutput(r)
  BY DEF WriteEventLog, Made, counters
<1> HIDE DEF o
<1>2. up /\ \A r \in Ranks : pc[r] \in OutputPhases
  BY <1>1, RankZero DEF AtOutput, OutputPhases
<1>3. Shape'
  BY <1>1 DEF Shape
<1>4. FilesOnCourse(M, tr)'
  BY <1>1, FilesStay DEF Follows
<1>5. Course(M, tr)
  BY DEF Follows
<1>6. ASSUME clean, NEW r \in Ranks PROVE OnCourse(r, M, tr)'
  <2>1. OnCourse(r, M, tr)
    BY <1>2, <1>6 DEF Follows
  <2>2. \A p \in FileOuts : p # o /\ p \in Outs
    BY <1>1 DEF FileOuts
  <2>3. \A p \in FileOuts : outp'[r][p] = outp[r][p] /\ (p \in left'[r] <=> p \in left[r])
    BY <2>1, <2>2, <1>1 DEF OnCourse
  <2>4. \A p \in FileOuts : CountersOf(r, p, tr)' = CountersOf(r, p, tr)
    BY <2>3, <1>1 DEF CountersOf, NewOut
  <2>5. pc[r] \notin Out => \A p \in FileOuts : outp'[r][p] = CountersOf(r, p, tr)'
    BY <2>1, <2>3, <2>4 DEF OnCourse
  <2>6. /\ pc'[r] = pc[r] /\ time'[r] = time[r] /\ dt'[r] = dt[r] /\ ncycle'[r] = ncycle[r]
        /\ DOMAIN outp'[r] = DOMAIN outp[r] /\ pc[r] \in OutputPhases /\ resumed' = resumed
    BY <1>1, <1>2
  <2> QED
    BY <2>1, <2>5, <2>6 DEF OnCourse, OutputPhases
<1> QED
  BY <1>1, <1>2, <1>3, <1>4, <1>5, <1>6 DEF Follows

\* Who has written its part of a file says nothing of when it was made
LEMMA PartsOfFile ==
  ASSUME NEW f, IsFile(f), NEW x
  PROVE  /\ IsFile([f EXCEPT !.by = x])
         /\ Scheduled([f EXCEPT !.by = x]) <=> Scheduled(f)
         /\ [f EXCEPT !.by = x].time = f.time /\ [f EXCEPT !.by = x].dt = f.dt
         /\ [f EXCEPT !.by = x].ncycle = f.ncycle
         /\ \A o, n, c, tr : MadeAt(f, o, n, c, tr) => MadeAt([f EXCEPT !.by = x], o, n, c, tr)
<1> DEFINE g == [f EXCEPT !.by = x]
<1>1. g = [by |-> x, time |-> f.time, dt |-> f.dt, ncycle |-> f.ncycle,
           outp |-> f.outp, final |-> f.final, clean |-> f.clean]
  <2> DEFINE h == [by |-> f.by, time |-> f.time, dt |-> f.dt, ncycle |-> f.ncycle,
                   outp |-> f.outp, final |-> f.final, clean |-> f.clean]
  <2>1. f = h
    BY DEF IsFile
  <2>2. [h EXCEPT !.by = x] = [by |-> x, time |-> f.time, dt |-> f.dt, ncycle |-> f.ncycle,
           outp |-> f.outp, final |-> f.final, clean |-> f.clean]
    OBVIOUS
  <2> HIDE DEF h
  <2> QED
    BY <2>1, <2>2
<1> HIDE DEF g
<1>2. /\ IsFile(g) /\ g.time = f.time /\ g.dt = f.dt /\ g.ncycle = f.ncycle /\ g.outp = f.outp
      /\ g.final = f.final /\ g.clean = f.clean
  BY <1>1 DEF IsFile
<1>3. Scheduled(g) <=> Scheduled(f)
  BY <1>2 DEF Scheduled
<1>4. \A o, n, c, tr : MadeAt(f, o, n, c, tr) => MadeAt(g, o, n, c, tr)
  BY <1>2 DEF MadeAt
<1> QED
  BY <1>2, <1>3, <1>4 DEF g

\* An output that is made is due on the course; its file gets the number, and a
\* restart file the counters, that the course has for it
LEMMA WriteOutputFileFollows ==
  ASSUME IInv, Shape, NEW M, NEW tr, Follows(M, tr), NEW r \in Ranks, WriteOutputFile(r)
  PROVE  Shape' /\ Follows(M, tr)'
<1> DEFINE o == next(r)
           n == outp[r][o].num
           c == ncycle[r]
           by == Ongoing(r, o, n) \cup {r}
           file == [by |-> by, time |-> time[r], dt |-> dt[r], ncycle |-> ncycle[r],
                    outp |-> [outp[r] EXCEPT ![o] = Advanced(r, o)],
                    final |-> pc[r] = "final", clean |-> clean]
           kept == [disk[o][n] EXCEPT !.by = by]
<1>1. /\ up /\ up' = up /\ clean' = clean /\ resumed' = resumed
      /\ UNCHANGED <<pc, time, dt, ncycle>>
      /\ left' = [left EXCEPT ![r] = @ \ {o}]
      /\ outp' = [outp EXCEPT ![r][o] = Advanced(r, o)]
      /\ disk' = [disk EXCEPT ![o] = [m \in DOMAIN disk[o] \cup {n} |->
                    CASE m # n -> disk[o][m]
                      [] m = n /\ (r = 0 \/ by = {r}) -> file
                      [] m = n /\ ~(r = 0 \/ by = {r}) -> kept]]
      /\ left[r] # {} /\ ~IsLog(o)
      /\ pc[r] \in {"init", "run", "final"} /\ (pc[r] = "run" => Due(r, o))
  BY DEF WriteOutputFile, Considered, Made, AtOutput, counters
<1>2. o \in left[r] /\ left[r] \subseteq Outs /\ (o \in Rst => left[r] = {o})
  BY <1>1, NextIs DEF Shape
<1>3. o \in FileOuts
  BY <1>1, <1>2 DEF FileOuts
<1>4. by # {r} => n \in DOMAIN disk[o]
  BY DEF Ongoing
<1>5. /\ file.time = time[r] /\ file.dt = dt[r] /\ file.ncycle = c
      /\ file.outp = [outp[r] EXCEPT ![o] = Advanced(r, o)]
      /\ (file.final <=> pc[r] = "final") /\ file.clean = clean /\ IsFile(file)
  BY DEF IsFile
<1> HIDE DEF o, n, c, by, file
<1>6. /\ DOMAIN disk' = Outs /\ DOMAIN disk'[o] = DOMAIN disk[o] \cup {n}
      /\ \A p \in Outs \ {o} : disk'[p] = disk[p]
      /\ \A m \in DOMAIN disk[o] \ {n} : disk'[o][m] = disk[o][m]
      /\ disk'[o][n] = file \/ (disk'[o][n] = kept /\ n \in DOMAIN disk[o])
  <2> HIDE DEF kept
  <2>1. DOMAIN disk = Outs /\ o \in Outs
    BY <1>2 DEF Shape
  <2> DEFINE new == [m \in DOMAIN disk[o] \cup {n} |->
                    CASE m # n -> disk[o][m]
                      [] m = n /\ (r = 0 \/ by = {r}) -> file
                      [] m = n /\ ~(r = 0 \/ by = {r}) -> kept]
  <2>2. /\ DOMAIN new = DOMAIN disk[o] \cup {n}
        /\ \A m \in DOMAIN disk[o] \ {n} : new[m] = disk[o][m]
        /\ r = 0 \/ by = {r} => new[n] = file
        /\ ~(r = 0 \/ by = {r}) => new[n] = kept
    OBVIOUS
  <2>3. disk' = [disk EXCEPT ![o] = new]
    BY <1>1
  <2> HIDE DEF new
  <2>4. disk'[o] = new /\ DOMAIN disk' = Outs /\ \A p \in Outs \ {o} : disk'[p] = disk[p]
    BY <2>1, <2>3
  <2> QED
    BY <2>2, <2>4, <1>4
<1>7. /\ left'[r] = left[r] \ {o} /\ \A q \in Ranks \ {r} : left'[q] = left[q] /\ outp'[q] = outp[q]
      /\ outp'[r] = [outp[r] EXCEPT ![o] = Advanced(r, o)]
      /\ DOMAIN left' = Ranks /\ DOMAIN outp' = Ranks
  BY <1>1 DEF Shape
<1>8. n \in DOMAIN disk[o] =>
        /\ IsFile(kept) /\ (Scheduled(kept) <=> Scheduled(disk[o][n]))
        /\ \A k, u : MadeAt(disk[o][n], o, n, k, u) => MadeAt(kept, o, n, k, u)
  <2> SUFFICES ASSUME n \in DOMAIN disk[o]
               PROVE  /\ IsFile(kept) /\ (Scheduled(kept) <=> Scheduled(disk[o][n]))
                      /\ \A k, u : MadeAt(disk[o][n], o, n, k, u) => MadeAt(kept, o, n, k, u)
    OBVIOUS
  <2>1. IsFile(disk[o][n])
    BY <1>2 DEF Shape
  <2> QED
    BY <2>1, PartsOfFile
<1> HIDE DEF kept
<1>9. Shape'
  <2>1. \A p \in Outs : IsLog(p) => DOMAIN disk'[p] = {}
    BY <1>1, <1>6 DEF Shape
  <2>2. \A p \in Outs : \A m \in DOMAIN disk'[p] : IsFile(disk'[p][m])
    BY <1>5, <1>6, <1>8 DEF Shape
  <2>3. \A q \in Ranks : left'[q] \subseteq Outs
    BY <1>7 DEF Shape
  <2> QED
    BY <2>1, <2>2, <2>3, <1>6, <1>7 DEF Shape, IsLog, IsFile
<1>10. Course(M, tr) /\ M \in Nat
  BY DEF Follows, Course
<1>11. ASSUME clean
       PROVE  /\ OnCourse(r, M, tr)'
              /\ pc[r] # "final" => MadeAt(file, o, n, c, tr)
  <2>1. OnCourse(r, M, tr)
    BY <1>1, <1>11 DEF Follows
  <2>2. /\ c \in 0..M /\ time[r] = tr[c].time /\ DOMAIN outp[r] = Outs
        /\ pc[r] \in {"init", "run"} => \A p \in FileOuts : outp[r][p] = CountersOf(r, p, tr)
    BY <2>1 DEF OnCourse, Out, c
  <2>3. DOMAIN outp'[r] = Outs /\ outp'[r][o] = Advanced(r, o)
        /\ \A p \in FileOuts \ {o} : outp'[r][p] = outp[r][p]
    BY <2>2, <1>2, <1>7 DEF FileOuts
  <2>4. pc[r] = "init" =>
          /\ c = 0 /\ dt[r] = tr[0].dt /\ n = 0 /\ Advanced(r, o) = tr[0].outp[o]
          /\ tr[0].outp[o].num = 1
    <3> SUFFICES ASSUME pc[r] = "init"
                 PROVE  /\ c = 0 /\ dt[r] = tr[0].dt /\ n = 0 /\ Advanced(r, o) = tr[0].outp[o]
                        /\ tr[0].outp[o].num = 1
      OBVIOUS
    <3>1. ~resumed /\ c = 0 /\ dt[r] = tr[0].dt
      BY <2>1 DEF OnCourse, c
    <3>2. outp[r][o] = [last |-> -1, num |-> 0]
      BY <2>2, <3>1, <1>2, <1>3 DEF CountersOf, NewOut
    <3>3. tr[0].time = 0 /\ tr[0].outp[o] = [last |-> 0, num |-> 1]
      BY <1>3, <1>10 DEF Course, First
    <3>4. Advanced(r, o) = [last |-> time[r], num |-> outp[r][o].num + 1]
      BY <3>2, <1>1 DEF Advanced
    <3> QED
      BY <2>2, <3>1, <3>2, <3>3, <3>4 DEF n
  <2>5. pc[r] = "run" =>
          /\ c > 0 /\ dt[r] = tr[c - 1].dt /\ n = tr[c - 1].outp[o].num
          /\ Advanced(r, o) = tr[c].outp[o] /\ tr[c].outp[o].num = n + 1 /\ n \in Nat
    <3> SUFFICES ASSUME pc[r] = "run"
                 PROVE  /\ c > 0 /\ dt[r] = tr[c - 1].dt /\ n = tr[c - 1].outp[o].num
                        /\ Advanced(r, o) = tr[c].outp[o] /\ tr[c].outp[o].num = n + 1 /\ n \in Nat
      OBVIOUS
    <3>1. c > 0 /\ dt[r] = tr[c - 1].dt
      BY <2>1 DEF OnCourse, After, c
    <3>2. c - 1 \in 0..(M - 1) /\ c - 1 + 1 = c /\ c - 1 \in 0..M
      BY <3>1, <2>2, <1>10
    <3>3. tr[c] = Succ(tr[c - 1], c - 1)
      BY <3>2, <1>10 DEF Course
    <3>4. tr[c].outp[o] = IF DueAt(o, c, tr[c].time, tr[c - 1].outp[o].last)
                          THEN Onward(o, tr[c - 1].outp[o]) ELSE tr[c - 1].outp[o]
      BY <3>2, <3>3, <1>3 DEF Succ
    <3>5. outp[r][o] = tr[c - 1].outp[o]
      BY <2>2, <1>2, <1>3 DEF CountersOf, c
    <3>6. DueAt(o, c, tr[c].time, tr[c - 1].outp[o].last)
      BY <2>2, <3>5, <1>1 DEF Due, DueAt, c
    <3>7. tr[c - 1].outp[o].last \in Nat /\ tr[c - 1].outp[o].num \in Nat
      BY <3>2, <1>3, <1>10 DEF Course
    <3>8. Advanced(r, o) = Onward(o, tr[c - 1].outp[o])
      BY <3>5, <3>7, <1>1 DEF Advanced, Onward
    <3> QED
      BY <3>1, <3>4, <3>5, <3>6, <3>7, <3>8 DEF Onward, n
  <2>6. pc[r] \in {"init", "run"} => Advanced(r, o) = tr[c].outp[o]
    BY <2>4, <2>5
  <2>7. pc[r] # "final" => \A p \in FileOuts : outp'[r][p] = CountersOf(r, p, tr)'
    <3> SUFFICES ASSUME pc[r] \in {"init", "run"}, NEW p \in FileOuts
                 PROVE  outp'[r][p] = CountersOf(r, p, tr)'
      BY <1>1
    <3>1. CASE p = o
      <4>1. p \notin left'[r]
        BY <3>1, <1>7
      <4>2. CountersOf(r, p, tr)' = tr[c].outp[p]
        BY <4>1, <1>1 DEF CountersOf, c
      <4> QED
        BY <4>2, <3>1, <2>3, <2>6
    <3>2. CASE p # o
      <4>1. p \in left'[r] <=> p \in left[r]
        BY <3>2, <1>7
      <4>2. CountersOf(r, p, tr)' = CountersOf(r, p, tr)
        BY <4>1, <1>1 DEF CountersOf, NewOut
      <4> QED
        BY <4>2, <3>2, <2>2, <2>3
    <3> QED
      BY <3>1, <3>2
  <2>8. OnCourse(r, M, tr)'
    <3>1. /\ pc'[r] = pc[r] /\ time'[r] = time[r] /\ dt'[r] = dt[r] /\ ncycle'[r] = ncycle[r]
          /\ resumed' = resumed
      BY <1>1
    <3> QED
      BY <3>1, <2>1, <2>3, <2>7, <1>1 DEF OnCourse, Out, OutputPhases
  <2>9. o \in Rst /\ pc[r] # "final" => \A p \in FileOuts : outp'[r][p] = tr[c].outp[p]
    <3> SUFFICES ASSUME o \in Rst, pc[r] # "final", NEW p \in FileOuts
                 PROVE  outp'[r][p] = tr[c].outp[p]
      OBVIOUS
    <3>1. left'[r] = {}
      BY <1>2, <1>7
    <3>2. CountersOf(r, p, tr)' = tr[c].outp[p]
      BY <3>1, <1>1 DEF CountersOf, c
    <3> QED
      BY <3>2, <2>7
  <2>10. pc[r] # "final" => MadeAt(file, o, n, c, tr)
    <3> SUFFICES ASSUME pc[r] # "final" PROVE MadeAt(file, o, n, c, tr)
      OBVIOUS
    <3>1. file.outp = outp'[r] /\ DOMAIN file.outp = Outs
      BY <1>5, <1>7, <2>3
    <3>2. o \in Rst => DOMAIN file.outp = Outs /\ \A q \in FileOuts : file.outp[q] = tr[c].outp[q]
      BY <3>1, <2>9
    <3>3. /\ n \in Nat /\ file.dt = IF c = 0 THEN tr[0].dt ELSE tr[c - 1].dt
          /\ tr[c].outp[o].num = n + 1
          /\ IF c = 0 THEN n = 0 ELSE tr[c - 1].outp[o].num = n
      BY <2>4, <2>5, <1>1, <1>5
    <3> QED
      BY <3>2, <3>3, <2>2, <1>5 DEF MadeAt
  <2> QED
    BY <2>8, <2>10
<1>12. clean => \A q \in Ranks : OnCourse(q, M, tr)'
  <2>1. clean => \A q \in Ranks : OnCourse(q, M, tr)
    BY <1>1 DEF Follows
  <2> QED
    BY <2>1, <1>1, <1>7, <1>11, RankStays
<1>13. ASSUME NEW p \in FileOuts, NEW m \in DOMAIN disk'[p], Scheduled(disk'[p][m])
       PROVE  \E k \in 0..M : MadeAt(disk'[p][m], p, m, k, tr)
  <2>1. p \in Outs /\ FilesOnCourse(M, tr)
    BY DEF FileOuts, Follows
  <2>2. CASE p # o \/ m # n
    <3>1. m \in DOMAIN disk[p] /\ disk'[p][m] = disk[p][m]
      BY <2>1, <2>2, <1>6, <1>13
    <3> QED
      BY <3>1, <2>1, <1>13 DEF FilesOnCourse
  <2>3. CASE p = o /\ m = n /\ disk'[o][n] = file
    <3>1. clean /\ pc[r] # "final"
      BY <2>3, <1>5, <1>13 DEF Scheduled
    <3>2. MadeAt(file, o, n, c, tr)
      BY <3>1, <1>11
    <3>3. c \in 0..M
      BY <3>1, <1>1 DEF Follows, OnCourse, c
    <3> QED
      BY <3>2, <3>3, <2>3
  <2>4. CASE p = o /\ m = n /\ disk'[o][n] = kept /\ n \in DOMAIN disk[o]
    <3>1. Scheduled(disk[o][n])
      BY <2>4, <1>8, <1>13
    <3>2. PICK k \in 0..M : MadeAt(disk[o][n], o, n, k, tr)
      BY <3>1, <2>1, <2>4 DEF FilesOnCourse
    <3> QED
      BY <3>2, <2>4, <1>8
  <2> QED
    BY <2>2, <2>3, <2>4, <1>6
<1>14. FilesOnCourse(M, tr)'
  <2>1. \A p \in FileOuts : \A m \in DOMAIN disk'[p] :
          Scheduled(disk'[p][m]) => \E k \in 0..M : MadeAt(disk'[p][m], p, m, k, tr)
    BY <1>13
  <2> QED
    BY <2>1 DEF FilesOnCourse, MadeAt, Scheduled, FileOuts, IsLog
<1> QED
  BY <1>1, <1>9, <1>10, <1>12, <1>14 DEF Follows

\* A killed job leaves files on disk
LEMMA KillFollows ==
  ASSUME Shape, NEW M, NEW tr, Follows(M, tr), Kill
  PROVE  Shape' /\ Follows(M, tr)'
<1>1. /\ ~up' /\ UNCHANGED <<left, outp>>
      /\ disk' = [o \in Outs |-> [n \in DOMAIN disk[o] |->
                IF Whole(disk[o][n]) THEN disk[o][n] ELSE [disk[o][n] EXCEPT !.by = {}]]]
  BY DEF Kill
<1>2. ASSUME NEW o \in Outs
      PROVE  /\ DOMAIN disk'[o] = DOMAIN disk[o]
             /\ \A n \in DOMAIN disk[o] :
                  disk'[o][n] = disk[o][n] \/ disk'[o][n] = [disk[o][n] EXCEPT !.by = {}]
  BY <1>1
<1>3. ASSUME NEW o \in Outs, NEW n \in DOMAIN disk[o]
      PROVE  /\ IsFile(disk'[o][n]) /\ (Scheduled(disk'[o][n]) => Scheduled(disk[o][n]))
             /\ \A c, u : MadeAt(disk[o][n], o, n, c, u) => MadeAt(disk'[o][n], o, n, c, u)
  <2>1. IsFile(disk[o][n])
    BY DEF Shape
  <2>2. CASE disk'[o][n] = disk[o][n]
    BY <2>1, <2>2
  <2>3. CASE disk'[o][n] = [disk[o][n] EXCEPT !.by = {}]
    BY <2>1, <2>3, PartsOfFile
  <2> QED
    BY <2>2, <2>3, <1>2
<1>4. Shape'
  <2>1. \A o \in Outs : \A n \in DOMAIN disk'[o] : IsFile(disk'[o][n])
    BY <1>2, <1>3
  <2>2. DOMAIN disk' = Outs /\ \A o \in Outs : IsLog(o) => DOMAIN disk'[o] = {}
    BY <1>1, <1>2 DEF Shape
  <2> QED
    BY <2>1, <2>2, <1>1 DEF Shape, IsFile, IsLog
<1>5. \A o \in FileOuts : \A n \in DOMAIN disk'[o] :
        Scheduled(disk'[o][n]) => \E c \in 0..M : MadeAt(disk'[o][n], o, n, c, tr)
  <2> SUFFICES ASSUME NEW o \in FileOuts, NEW n \in DOMAIN disk'[o], Scheduled(disk'[o][n])
               PROVE  \E c \in 0..M : MadeAt(disk'[o][n], o, n, c, tr)
    OBVIOUS
  <2>1. o \in Outs /\ n \in DOMAIN disk[o]
    BY <1>2 DEF FileOuts
  <2>2. Scheduled(disk[o][n])
    BY <2>1, <1>3
  <2>3. PICK c \in 0..M : MadeAt(disk[o][n], o, n, c, tr)
    BY <2>1, <2>2 DEF Follows, FilesOnCourse
  <2> QED
    BY <2>1, <2>3, <1>3
<1>6. FilesOnCourse(M, tr)'
  BY <1>5 DEF FilesOnCourse, MadeAt, Scheduled, FileOuts, IsLog
<1> QED
  BY <1>1, <1>4, <1>6 DEF Follows

\* A new job is at the start of the course
LEMMA LaunchFollows ==
  ASSUME Shape, NEW M, NEW tr, Follows(M, tr), Launch
  PROVE  Shape' /\ Follows(M, tr)'
<1>1. /\ disk' = disk /\ ~resumed'
      /\ left' = [r \in Ranks |-> Outs] /\ outp' = [r \in Ranks |-> NewOut]
      /\ \A r \in Ranks : /\ pc'[r] = "start" /\ left'[r] = Outs
                          /\ time'[r] = 0 /\ dt'[r] = NoStep /\ ncycle'[r] = 0
                          /\ outp'[r] = NewOut
  BY DEF Launch, Started
<1>2. Shape'
  <2>1. DOMAIN left' = Ranks /\ DOMAIN outp' = Ranks
    BY <1>1
  <2> QED
    BY <2>1, <1>1 DEF Shape, IsFile
<1>3. FilesOnCourse(M, tr)'
  BY <1>1, FilesStay DEF Follows
<1>4. Course(M, tr) /\ M \in Nat
  BY DEF Follows, Course
<1>5. ASSUME NEW r \in Ranks PROVE OnCourse(r, M, tr)'
  <2>1. DOMAIN NewOut = Outs
    BY DEF NewOut
  <2>2. \A o \in FileOuts : CountersOf(r, o, tr)' = NewOut[o]
    BY <1>1 DEF CountersOf, FileOuts, NewOut
  <2>3. tr[0].time = 0 /\ tr[0].dt = NextDt(0, NoStep, 0) /\ 0 \in 0..M
    BY <1>4 DEF Course, First
  <2> QED
    BY <1>1, <2>1, <2>2, <2>3 DEF OnCourse, After, OutputPhases
<1> QED
  BY <1>2, <1>3, <1>4, <1>5 DEF Follows

\* A job resumed from a scheduled output is where the course was then
LEMMA ResumeFollows ==
  ASSUME Shape, NEW M, NEW tr, Follows(M, tr),
         NEW o \in Rst, NEW n \in DOMAIN disk[o], Resume(disk[o][n])
  PROVE  Shape' /\ Follows(M, tr)'
<1> DEFINE f == disk[o][n]
<1>1. /\ disk' = disk /\ resumed' /\ (clean' <=> Scheduled(f))
      /\ left' = [r \in Ranks |-> Outs] /\ outp' = [r \in Ranks |-> f.outp]
      /\ \A r \in Ranks : /\ pc'[r] = "start" /\ left'[r] = Outs
                          /\ time'[r] = f.time /\ dt'[r] = f.dt /\ ncycle'[r] = f.ncycle
                          /\ outp'[r] = f.outp
  BY DEF Resume, Started, TakenOver, Scheduled
<1>2. o \in FileOuts
  BY DEF Rst, FileOuts, IsLog
<1> HIDE DEF f
<1>3. Shape'
  <2>1. DOMAIN left' = Ranks /\ DOMAIN outp' = Ranks
    BY <1>1
  <2> QED
    BY <2>1, <1>1 DEF Shape, IsFile
<1>4. FilesOnCourse(M, tr)'
  BY <1>1, FilesStay DEF Follows
<1>5. Course(M, tr) /\ M \in Nat
  BY DEF Follows, Course
<1>6. ASSUME clean', NEW r \in Ranks PROVE OnCourse(r, M, tr)'
  <2>1. PICK c \in 0..M : MadeAt(f, o, n, c, tr)
    <3>1. Scheduled(f) /\ FilesOnCourse(M, tr)
      BY <1>1, <1>6 DEF Follows
    <3> QED
      BY <3>1, <1>2 DEF FilesOnCourse, f
  <2>2. /\ f.ncycle = c /\ f.time = tr[c].time
        /\ f.dt = IF c = 0 THEN tr[0].dt ELSE tr[c - 1].dt
        /\ DOMAIN f.outp = Outs /\ \A q \in FileOuts : f.outp[q] = tr[c].outp[q]
    BY <2>1 DEF MadeAt
  <2>3. NextDt(f.time, f.dt, c) = tr[c].dt
    <3>1. CASE c = 0
      <4>1. tr[0].time = 0 /\ tr[0].dt = First.dt
        BY <1>5 DEF Course, First
      <4> QED
        BY <3>1, <4>1, <2>2, FirstStepAgain
    <3>2. CASE c # 0
      <4>1. c - 1 \in 0..(M - 1) /\ c - 1 + 1 = c
        BY <3>2, <1>5
      <4>2. tr[c] = Succ(tr[c - 1], c - 1)
        BY <4>1, <1>5 DEF Course
      <4>3. tr[c].time = tr[c - 1].time + tr[c - 1].dt
            /\ tr[c].dt = NextDt(tr[c - 1].time + tr[c - 1].dt, tr[c - 1].dt, c)
        BY <4>1, <4>2 DEF Succ
      <4> QED
        BY <3>2, <4>3, <2>2
    <3> QED
      BY <3>1, <3>2
  <2>4. NextDt(time[r], dt[r], ncycle[r])' = tr[c].dt
    <3>1. time'[r] = f.time /\ dt'[r] = f.dt /\ ncycle'[r] = c
      BY <1>1, <2>2
    <3> QED
      BY <3>1, <2>3 DEF NextDt, LeastStep
  <2>5. \A p \in FileOuts : CountersOf(r, p, tr)' = tr[c].outp[p]
    BY <1>1, <2>2 DEF CountersOf
  <2>6. /\ ncycle'[r] = c /\ time'[r] = tr[c].time /\ DOMAIN outp'[r] = Outs
        /\ \A p \in FileOuts : outp'[r][p] = CountersOf(r, p, tr)'
    BY <1>1, <2>2, <2>5
  <2> QED
    BY <1>1, <2>4, <2>6 DEF OnCourse, After, OutputPhases
<1> QED
  BY <1>3, <1>4, <1>5, <1>6 DEF Follows

-----------------------------------------------------------------------------
\* Every step keeps to the course
LEMMA NextKeepsOneCourse == IInv /\ OneCourse /\ [Next]_vars => OneCourse'
<1> SUFFICES ASSUME IInv, OneCourse, [Next]_vars PROVE OneCourse'
  OBVIOUS
<1>1. PICK M, tr : Follows(M, tr)
  BY DEF OneCourse
<1>2. Shape
  BY DEF OneCourse
<1>3. ASSUME NEW r \in Ranks, Step(r) PROVE OneCourse'
  <2>1. CASE UpdateWallClock(r) \/ Leave(r)
    BY <2>1, <1>1, <1>2, LoopFollows DEF OneCourse
  <2>2. CASE Cycle(r)
    BY <2>2, <1>1, <1>2, CycleFollows
  <2>3. CASE Skip(r)
    BY <2>3, <1>1, <1>2, SkipFollows DEF OneCourse
  <2>4. CASE WriteOutputFile(r)
    BY <2>4, <1>1, <1>2, WriteOutputFileFollows DEF OneCourse
  <2>5. CASE EndOutputs(r)
    BY <2>5, <1>1, <1>2, EndOutputsFollows DEF OneCourse
  <2> QED
    BY <1>3, <2>1, <2>2, <2>3, <2>4, <2>5 DEF Step
<1>4. CASE NewTimeStep
  BY <1>4, <1>1, <1>2, NewTimeStepFollows DEF OneCourse
<1>5. CASE WriteEventLog
  BY <1>5, <1>1, <1>2, WriteEventLogFollows DEF OneCourse
<1>6. CASE Kill
  BY <1>6, <1>1, <1>2, KillFollows DEF OneCourse
<1>7. CASE Launch
  BY <1>7, <1>1, <1>2, LaunchFollows DEF OneCourse
<1>8. ASSUME NEW o \in Rst, NEW n \in DOMAIN disk[o], Resume(disk[o][n]) PROVE OneCourse'
  BY <1>8, <1>1, <1>2, ResumeFollows DEF OneCourse
<1>9. CASE UNCHANGED vars
  <2>1. UNCHANGED <<up, clean, pc, left, time, dt, ncycle, outp, resumed, disk>>
    BY <1>9 DEF vars, counters
  <2>2. Shape'
    BY <2>1, <1>2 DEF Shape, IsFile
  <2>3. FilesOnCourse(M, tr)'
    BY <2>1, <1>1, FilesStay DEF Follows
  <2>4. \A r \in Ranks : OnCourse(r, M, tr) => OnCourse(r, M, tr)'
    BY <2>1, RankStays
  <2>5. Follows(M, tr)'
    BY <2>1, <2>3, <2>4, <1>1 DEF Follows
  <2> QED
    BY <2>2, <2>5 DEF OneCourse
<1> QED
  BY <1>3, <1>4, <1>5, <1>6, <1>7, <1>8, <1>9 DEF Next

\* All jobs of a run, killed and resumed from scheduled restart files, follow one
\* course (Driver::Execute, Mesh::NewTimeStep, Mesh::BuildTreeFromRestart)
THEOREM OneCourseForAllJobs == Spec => [](IInv /\ OneCourse)
BY InitIInv, NextKeepsIInv, InitOneCourse, NextKeepsOneCourse, PTL DEF Spec

-----------------------------------------------------------------------------
\* The cycle in which a file was made is the one with its number
LEMMA OneCycleForFile ==
  ASSUME NEW M, NEW tr, Course(M, tr), NEW o \in FileOuts, NEW n,
         NEW f, NEW c \in 0..M, MadeAt(f, o, n, c, tr),
         NEW g, NEW e \in 0..M, MadeAt(g, o, n, e, tr), c < e
  PROVE  FALSE
<1>1. M \in Nat
  BY DEF Course
<1>2. e # 0 /\ e - 1 \in 0..M /\ c \in 0..(e - 1)
  BY <1>1
<1>3. tr[c].outp[o].num = n + 1 /\ tr[e - 1].outp[o].num = n /\ n \in Nat
  BY <1>2 DEF MadeAt
<1>4. tr[c].outp[o].num <= tr[e - 1].outp[o].num
  BY <1>2 DEF Course
<1> QED
  BY <1>3, <1>4

\* A scheduled file is overwritten only by the same output: file n of an output is
\* made in one cycle of the course (Driver::Execute, and the counters that
\* RestartOutput::WriteOutputFile saves for the next job)
THEOREM RewrittenAlike == Spec => RewritesAgree
<1> DEFINE Agree ==
      \A o \in Outs : \A n \in DOMAIN disk[o] :
        LET old == disk[o][n]  new == disk'[o][n]
        IN  Scheduled(old) /\ Scheduled(new) /\ Whole(old) =>
              new.time = old.time /\ new.ncycle = old.ncycle /\ new.dt = old.dt
<1>1. IInv /\ OneCourse /\ [Next]_vars => [Agree]_vars
  <2> SUFFICES ASSUME IInv, OneCourse, Next, NEW o \in Outs, NEW n \in DOMAIN disk[o],
                      Scheduled(disk[o][n]), Scheduled(disk'[o][n]), Whole(disk[o][n])
               PROVE  /\ disk'[o][n].time = disk[o][n].time
                      /\ disk'[o][n].ncycle = disk[o][n].ncycle
                      /\ disk'[o][n].dt = disk[o][n].dt
    OBVIOUS
  <2>1. CASE disk' = disk
    BY <2>1
  <2>2. CASE Kill
    BY <2>2 DEF Kill
  <2>3. ASSUME NEW r \in Ranks, WriteOutputFile(r)
        PROVE  /\ disk'[o][n].time = disk[o][n].time
               /\ disk'[o][n].ncycle = disk[o][n].ncycle
               /\ disk'[o][n].dt = disk[o][n].dt
    <3>1. PICK M, tr : Follows(M, tr)
      BY DEF OneCourse
    <3>2. Shape
      BY DEF OneCourse
    <3>3. Course(M, tr) /\ FilesOnCourse(M, tr) /\ FilesOnCourse(M, tr)'
      BY <3>1, <3>2, <2>3, WriteOutputFileFollows DEF Follows
    <3>4. o \in FileOuts
      BY <3>2 DEF Shape, FileOuts
    <3>5. n \in DOMAIN disk'[o]
      <4>1. DOMAIN disk = Outs
        BY <3>2 DEF Shape
      <4> QED
        BY <4>1, <2>3 DEF WriteOutputFile
    <3>6. PICK c \in 0..M : MadeAt(disk[o][n], o, n, c, tr)
      BY <3>3, <3>4 DEF FilesOnCourse
    <3>7. PICK e \in 0..M : MadeAt(disk'[o][n], o, n, e, tr)
      BY <3>3, <3>4, <3>5 DEF FilesOnCourse, MadeAt, Scheduled, FileOuts, IsLog
    <3>8. c = e
      <4>1. M \in Nat
        BY <3>3 DEF Course
      <4>2. ~(c < e)
        BY <3>3, <3>4, <3>6, <3>7, OneCycleForFile
      <4>3. ~(e < c)
        BY <3>3, <3>4, <3>6, <3>7, OneCycleForFile
      <4> QED
        BY <4>1, <4>2, <4>3
    <3> QED
      BY <3>6, <3>7, <3>8 DEF MadeAt
  <2>4. disk' = disk \/ Kill \/ \E r \in Ranks : WriteOutputFile(r)
    BY DEF Next, Step, NewTimeStep, WriteEventLog, Launch, Resume, Started,
           UpdateWallClock, Cycle, Leave, Skip, EndOutputs
  <2> QED
    BY <2>1, <2>2, <2>3, <2>4
<1>2. QED
  BY <1>1, InitIInv, NextKeepsIInv, InitOneCourse, NextKeepsOneCourse, PTL DEF Spec, RewritesAgree

\* When the blocks allow no step longer than an interval, no output misses its
\* turn: file n is made after n * dcycle cycles, or in the first cycle that reaches
\* n * dt (Driver::Execute, Mesh::NewTimeStep)
THEOREM OnSchedule == ShortSteps => (Spec => []OutputsOnSchedule)
<1> SUFFICES ASSUME ShortSteps PROVE Spec => []OutputsOnSchedule
  OBVIOUS
<1>1. OneCourse => OutputsOnSchedule
  <2> SUFFICES ASSUME OneCourse, NEW o \in Outs, NEW n \in DOMAIN disk[o], Scheduled(disk[o][n])
               PROVE  IF Blocks[o].dcycle > 0
                      THEN disk[o][n].ncycle = n * Blocks[o].dcycle
                      ELSE /\ disk[o][n].time - disk[o][n].dt < n * Blocks[o].dt
                           /\ n * Blocks[o].dt <= disk[o][n].time
    BY DEF OutputsOnSchedule
  <2> DEFINE f == disk[o][n]
             b == Blocks[o]
  <2>1. PICK M, tr : Course(M, tr) /\ FilesOnCourse(M, tr)
    BY DEF OneCourse, Follows
  <2>2. o \in FileOuts
    BY DEF OneCourse, Shape, FileOuts
  <2>3. PICK c \in 0..M : MadeAt(f, o, n, c, tr)
    BY <2>1, <2>2 DEF FilesOnCourse
  <2>4. b.dcycle \in Nat /\ b.dt \in Nat /\ (b.dcycle = 0 => b.dt > 0)
    BY OutputsAre
  <2>5. /\ n \in Nat /\ f.ncycle = c /\ f.time = tr[c].time
        /\ f.dt = IF c = 0 THEN tr[0].dt ELSE tr[c - 1].dt
        /\ tr[c].outp[o].num = n + 1
        /\ IF c = 0 THEN n = 0 ELSE tr[c - 1].outp[o].num = n
    BY <2>3 DEF MadeAt
  <2>6. M \in Nat /\ Punctual(tr[c], c, o) /\ tr[0] = First
        /\ tr[c].time \in Nat /\ tr[c].dt \in Nat \ {0}
    BY <2>1, <2>2 DEF Course
  <2> HIDE DEF f, b
  <2>7. CASE c = 0
    <3>1. n = 0 /\ f.time = 0 /\ f.dt = tr[0].dt /\ f.ncycle = 0
      BY <2>5, <2>6, <2>7 DEF First
    <3>2. f.dt \in Nat \ {0}
      BY <3>1, <2>6, <2>7
    <3>3. n * b.dcycle = 0 /\ n * b.dt = 0
      BY <3>1, <2>4
    <3> QED
      BY <3>1, <3>2, <3>3 DEF f, b
  <2>8. CASE c # 0
    <3> DEFINE s == tr[c - 1]
    <3>1. c - 1 \in 0..(M - 1) /\ c - 1 \in 0..M /\ c - 1 + 1 = c
      BY <2>6, <2>8
    <3>2. /\ s.time < TLim /\ tr[c] = Succ(s, c - 1) /\ Punctual(s, c - 1, o)
          /\ s.time \in Nat /\ s.dt \in Nat \ {0} /\ s.outp[o].last \in Nat
      BY <2>1, <2>2, <3>1 DEF Course
    <3>3. /\ tr[c].time = s.time + s.dt
          /\ tr[c].outp[o] = IF DueAt(o, c, s.time + s.dt, s.outp[o].last)
                             THEN Onward(o, s.outp[o]) ELSE s.outp[o]
      BY <2>2, <3>1, <3>2 DEF Succ
    <3>4. s.outp[o].num = n /\ f.dt = s.dt /\ f.time = s.time + s.dt
      BY <2>5, <2>8, <3>3
    <3> HIDE DEF s
    <3>5. DueAt(o, c, s.time + s.dt, s.outp[o].last)
      BY <2>5, <3>3, <3>4
    <3>6. TLim \in Nat
      BY DriverAssumption DEF NoStep
    <3>7. CASE b.dcycle > 0
      <4>1. (n + 1 - 1) * b.dcycle <= c
        BY <2>5, <2>6, <3>7 DEF Punctual, b
      <4>2. c - 1 < n * b.dcycle
        BY <3>2, <3>4, <3>7 DEF Punctual, b
      <4>3. n + 1 - 1 = n /\ n * b.dcycle \in Nat
        BY <2>4, <2>5
      <4>4. c = n * b.dcycle
        BY <4>1, <4>2, <4>3, <2>6
      <4> QED
        BY <4>4, <3>7, <2>5 DEF f, b
    <3>8. CASE b.dcycle = 0
      <4>1. s.time < n * b.dt /\ s.outp[o].last = (n - 1) * b.dt
        BY <3>2, <3>4, <3>6, <3>8 DEF Punctual, b
      <4>2. s.time + s.dt >= s.outp[o].last + b.dt
        BY <3>5, <3>8 DEF DueAt, b
      <4>3. (n - 1) * b.dt + b.dt = n * b.dt /\ n * b.dt \in Nat
        BY <2>4, <2>5
      <4>4. f.time - f.dt < n * b.dt /\ n * b.dt <= f.time
        BY <4>1, <4>2, <4>3, <3>2, <3>4
      <4> QED
        BY <4>4, <3>8 DEF f, b
    <3> QED
      BY <3>7, <3>8, <2>4
  <2> QED
    BY <2>7, <2>8
<1>2. QED
  BY <1>1, InitIInv, NextKeepsIInv, InitOneCourse, NextKeepsOneCourse, PTL DEF Spec

=================================================================================
