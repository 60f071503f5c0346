------------------------------- MODULE Driver -------------------------------
(***************************************************************************)
(* The main loop (driver/driver.cpp: Initialize, Execute, Finalize), the   *)
(* time step (mesh/mesh.cpp: NewTimeStep), the schedule of outputs and the *)
(* files they number (outputs/), and what a job resumed from a restart     *)
(* file takes over from it (main.cpp, BuildTreeFromRestart).               *)
(*                                                                         *)
(* Every rank runs the loop on its own copies of time, dt, ncycle and the  *)
(* output counters.  A job may be killed at any step; the disk survives.   *)
(* The physics is deterministic: what it allows for the next step depends  *)
(* on the rank and on the number of cycles done.  Time is counted in units *)
(* that make every step an integer.  The mesh is not adaptive.             *)
(***************************************************************************)
EXTENDS Integers, Sequences, FiniteSets, FiniteSetsExt

CONSTANTS NRanks,       \* number of ranks
          Blocks,       \* output blocks of the input file, in its order: [type, dt, dcycle]
          TLim, NLim,   \* limits on time and on cycles (NLim < 0: none)
          WallTime,     \* whether a wall time limit is given
          CflStep,      \* CflStep[r][n + 1]: step the blocks of rank r allow after n cycles
          EventCycles,  \* cycles that raise the event counters
          MaxJobs       \* bound: jobs started

Ranks == 0..(NRanks - 1)
NoStep == 1000          \* stands for the largest float, the dt of a new mesh

ASSUME DriverAssumption ==
  /\ NRanks \in Nat \ {0} /\ TLim \in 1..NoStep /\ NLim \in Int /\ MaxJobs \in Nat
  /\ WallTime \in BOOLEAN
  /\ Blocks \in Seq([type : {"file", "log", "rst"}, dt : Nat, dcycle : Nat])
  /\ \A r \in Ranks, n \in 1..(TLim + 1) : CflStep[r][n] \in Nat \ {0}

\* Outputs: blocks without dt and dcycle are left out; an output is put at the
\* front of the list, the restart output, of which there is at most one, at its end
Outs == {o \in DOMAIN Blocks : Blocks[o].dcycle > 0 \/ Blocks[o].dt > 0}
Rst  == {o \in Outs : Blocks[o].type = "rst"}
Earlier(o, p) == p \in Rst \/ (o \notin Rst /\ o > p)

\* (Outputs::Outputs ends the job otherwise)
ASSUME OneRestartAssumption == \A o, p \in Rst : o = p

VARIABLES
  jobs,     \* jobs started so far
  up,       \* a job is running
  clean,    \* history: the job goes back to restart files of scheduled outputs only
  pc,       \* where each rank is
  left,     \* the outputs it has still to consider, while it goes through pout_list
  time, dt, ncycle,
  outp,     \* outp[r][o]: [last, num], last_time and file_number of output o
  resumed,  \* res_flag
  header,   \* header_written of the event log
  counted,  \* events on this rank not yet reported
  over,     \* elapsed_time >= wall_time
  clock,    \* broadcasts of the wall clock under way to each rank
  disk      \* disk[o]: files of output o, by number

counters == <<time, dt, ncycle>>
vars == <<jobs, up, clean, pc, left, counters, outp, resumed, header, counted, over, clock, disk>>

NewOut == [o \in Outs |-> [last |-> -1, num |-> 0]]

\* A file: the ranks that have written their part, and what was written
Whole(f) == f.by = Ranks

Init ==
  /\ jobs = 1 /\ up = TRUE /\ clean = TRUE
  /\ pc = [r \in Ranks |-> "start"]
  /\ left = [r \in Ranks |-> Outs]
  /\ time = [r \in Ranks |-> 0]
  /\ dt = [r \in Ranks |-> NoStep]
  /\ ncycle = [r \in Ranks |-> 0]
  /\ outp = [r \in Ranks |-> NewOut]
  /\ resumed = FALSE
  /\ header = [r \in Ranks |-> FALSE]
  /\ counted = [r \in Ranks |-> FALSE]
  /\ over = [r \in Ranks |-> FALSE]
  /\ clock = [r \in Ranks |-> <<>>]
  /\ disk = [o \in Outs |-> <<>>]

-----------------------------------------------------------------------------
(***************************************************************************)
(* Time step and wall clock                                                *)
(***************************************************************************)
BeforeLoop == IF WallTime THEN "clock" ELSE "loop"

\* Mesh::NewTimeStep.  The all-reduce is one step of all ranks: none returns
\* before all have called.
NewDt(r) ==
  LET least == Min({2 * dt[q] : q \in Ranks} \cup {CflStep[q][ncycle[q] + 1] : q \in Ranks})
  IN  IF time[r] < TLim /\ time[r] + least > TLim THEN TLim - time[r] ELSE least

NewTimeStep ==
  /\ up
  /\ \A r \in Ranks : pc[r] \in {"start", "newdt"}
  /\ dt' = [r \in Ranks |-> NewDt(r)]
  /\ pc' = [r \in Ranks |-> IF pc[r] = "start" /\ ~resumed THEN "init" ELSE BeforeLoop]
  /\ UNCHANGED <<jobs, up, clean, left, time, ncycle, outp, resumed, header, counted, over, clock, disk>>

\* Driver::UpdateWallClock: rank 0 reads its clock and broadcasts what it read
\* (Faulty variant: every rank reads its own.)
UpdateWallClockOwn(r) ==
  /\ up /\ pc[r] = "clock"
  /\ \E late \in BOOLEAN : (over[r] => late) /\ over' = [over EXCEPT ![r] = late]
  /\ pc' = [pc EXCEPT ![r] = "loop"]
  /\ UNCHANGED <<jobs, up, clean, left, counters, outp, resumed, header, counted, clock, disk>>
UpdateWallClock(r) ==
  /\ up /\ pc[r] = "clock"
  /\ \/ /\ r = 0
        /\ \E late \in BOOLEAN :
             /\ over[r] => late
             /\ over' = [over EXCEPT ![r] = late]
             /\ clock' = [q \in Ranks |-> IF q = 0 THEN <<>> ELSE Append(clock[q], late)]
     \/ /\ r # 0 /\ clock[r] # <<>>
        /\ over' = [over EXCEPT ![r] = Head(clock[r])]
        /\ clock' = [clock EXCEPT ![r] = Tail(@)]
  /\ pc' = [pc EXCEPT ![r] = "loop"]
  /\ UNCHANGED <<jobs, up, clean, left, counters, outp, resumed, header, counted, disk>>

-----------------------------------------------------------------------------
(***************************************************************************)
(* One cycle                                                               *)
(***************************************************************************)
Continue(r) == time[r] < TLim /\ (ncycle[r] < NLim \/ NLim < 0) /\ ~over[r]

\* the task lists, then the counters
Cycle(r) ==
  /\ up /\ pc[r] = "loop" /\ Continue(r)
  /\ time' = [time EXCEPT ![r] = @ + dt[r]]
  /\ ncycle' = [ncycle EXCEPT ![r] = @ + 1]
  /\ counted' = [counted EXCEPT ![r] = @ \/ ncycle[r] + 1 \in EventCycles]
  /\ pc' = [pc EXCEPT ![r] = "run"]
  /\ UNCHANGED <<jobs, up, clean, left, dt, outp, resumed, header, over, clock, disk>>

\* the loop ends: Finalize
Leave(r) ==
  /\ up /\ pc[r] = "loop" /\ ~Continue(r)
  /\ pc' = [pc EXCEPT ![r] = "final"]
  /\ UNCHANGED <<jobs, up, clean, left, counters, outp, resumed, header, counted, over, clock, disk>>

-----------------------------------------------------------------------------
(***************************************************************************)
(* Outputs: all of them in Initialize and Finalize, those that are due in  *)
(* Execute                                                                 *)
(***************************************************************************)
AtOutput(r) == up /\ pc[r] \in {"init", "run", "final"} /\ left[r] # {}
next(r) == CHOOSE o \in left[r] : \A p \in left[r] \ {o} : Earlier(o, p)
Considered(r) == left' = [left EXCEPT ![r] = @ \ {next(r)}]
Due(r, o) ==
  \/ Blocks[o].dcycle > 0 /\ ncycle[r] % Blocks[o].dcycle = 0
  \/ Blocks[o].dcycle = 0 /\ time[r] >= outp[r][o].last + Blocks[o].dt /\ time[r] < TLim
Made(r) == AtOutput(r) /\ (pc[r] = "run" => Due(r, next(r)))
IsLog(o) == Blocks[o].type = "log"

Skip(r) ==
  /\ AtOutput(r) /\ ~Made(r)
  /\ Considered(r)
  /\ UNCHANGED <<jobs, up, clean, pc, counters, outp, resumed, header, counted, over, clock, disk>>

\* the counters are moved on before the file is written, so that a restart file
\* holds those of the next dump
\* (Faulty variant: the interval is counted from the time of this output.)
AdvancedDrifting(r, o) ==
  [last |-> time[r], num |-> outp[r][o].num + (IF IsLog(o) THEN 0 ELSE 1)]
Advanced(r, o) ==
  [last |-> IF outp[r][o].last < 0 THEN time[r]
            ELSE outp[r][o].last + (IF Blocks[o].dcycle > 0 THEN 0 ELSE Blocks[o].dt),
   num  |-> outp[r][o].num + (IF IsLog(o) THEN 0 ELSE 1)]

\* LoadOutputData and WriteOutputFile of an output that numbers its files; the
\* part of rank 0 has the time, and in a restart file the header
Ongoing(r, o, n) == IF n \in DOMAIN disk[o] /\ r \notin disk[o][n].by THEN disk[o][n].by ELSE {}
WriteOutputFile(r) ==
  LET o == next(r)
      n == outp[r][o].num
      by == Ongoing(r, o, n) \cup {r}
      file == [by |-> by, time |-> time[r], dt |-> dt[r], ncycle |-> ncycle[r],
               outp |-> [outp[r] EXCEPT ![o] = Advanced(r, o)],
               final |-> pc[r] = "final", clean |-> clean]
  IN  /\ Made(r) /\ ~IsLog(o)
      /\ disk' = [disk EXCEPT ![o] = [m \in DOMAIN disk[o] \cup {n} |->
                    CASE m # n -> disk[o][m]
                      [] m = n /\ (r = 0 \/ by = {r}) -> file
                      [] m = n /\ ~(r = 0 \/ by = {r}) -> [disk[o][n] EXCEPT !.by = by]]]
      /\ outp' = [outp EXCEPT ![r][o] = Advanced(r, o)]
      /\ Considered(r)
      /\ UNCHANGED <<jobs, up, clean, pc, counters, resumed, header, counted, over, clock>>

\* The event log: LoadOutputData sums the event counters over all ranks (a step
\* of all of them), WriteOutputFile returns when there is nothing to report and
\* the header has been written, which only rank 0 does
WriteEventLog ==
  LET o == next(0)
      noOutput == \A q \in Ranks : ~counted[q]
      returns(r) == header[r] /\ noOutput
  IN  /\ \A r \in Ranks : Made(r) /\ next(r) = o
      /\ IsLog(o)
      /\ header' = [header EXCEPT ![0] = TRUE]
      /\ counted' = [r \in Ranks |-> FALSE]
      /\ outp' = [r \in Ranks |-> [outp[r] EXCEPT ![o] = IF returns(r) THEN @ ELSE Advanced(r, o)]]
      /\ left' = [r \in Ranks |-> left[r] \ {o}]
      /\ UNCHANGED <<jobs, up, clean, pc, counters, resumed, over, clock, disk>>

EndOutputs(r) ==
  /\ up /\ pc[r] \in {"init", "run", "final"} /\ left[r] = {}
  /\ left' = [left EXCEPT ![r] = Outs]
  /\ pc' = [pc EXCEPT ![r] = CASE @ = "init"  -> BeforeLoop
                               [] @ = "run"   -> "newdt"
                               [] @ = "final" -> "done"]
  /\ UNCHANGED <<jobs, up, clean, counters, outp, resumed, header, counted, over, clock, disk>>

-----------------------------------------------------------------------------
(***************************************************************************)
(* Jobs                                                                    *)
(***************************************************************************)
\* the job is killed; a file not written whole is broken for good
Kill ==
  /\ up /\ \E r \in Ranks : pc[r] # "done"
  /\ up' = FALSE
  /\ disk' = [o \in Outs |-> [n \in DOMAIN disk[o] |->
                IF Whole(disk[o][n]) THEN disk[o][n] ELSE [disk[o][n] EXCEPT !.by = {}]]]
  /\ UNCHANGED <<jobs, clean, pc, left, counters, outp, resumed, header, counted, over, clock>>

Started ==
  /\ jobs < MaxJobs
  /\ ~up \/ \A r \in Ranks : pc[r] = "done"
  /\ jobs' = jobs + 1 /\ up' = TRUE
  /\ pc' = [r \in Ranks |-> "start"]
  /\ left' = [r \in Ranks |-> Outs]
  /\ header' = [r \in Ranks |-> FALSE]
  /\ counted' = [r \in Ranks |-> FALSE]
  /\ over' = [r \in Ranks |-> FALSE]
  /\ clock' = [r \in Ranks |-> <<>>]
  /\ UNCHANGED disk

\* a new run, from the input file
Launch ==
  /\ Started
  /\ clean' = TRUE /\ resumed' = FALSE
  /\ time' = [r \in Ranks |-> 0]
  /\ dt' = [r \in Ranks |-> NoStep]
  /\ ncycle' = [r \in Ranks |-> 0]
  /\ outp' = [r \in Ranks |-> NewOut]

\* a run resumed from a restart file: BuildTreeFromRestart takes time, dt and
\* ncycle from its header, Outputs the counters from the parameters in it
\* (Faulty variant: the time step is not taken over.)
TakenOverNoDt(f) ==
  /\ time' = [r \in Ranks |-> f.time]
  /\ dt' = [r \in Ranks |-> NoStep]
  /\ ncycle' = [r \in Ranks |-> f.ncycle]
  /\ outp' = [r \in Ranks |-> f.outp]
TakenOver(f) ==
  /\ time' = [r \in Ranks |-> f.time]
  /\ dt' = [r \in Ranks |-> f.dt]
  /\ ncycle' = [r \in Ranks |-> f.ncycle]
  /\ outp' = [r \in Ranks |-> f.outp]
Resume(f) ==
  /\ Started
  /\ Whole(f)
  /\ TakenOver(f)
  /\ resumed' = TRUE
  /\ clean' = (f.clean /\ ~f.final)

-----------------------------------------------------------------------------
Step(r) ==
  \/ UpdateWallClock(r) \/ Cycle(r) \/ Leave(r)
  \/ Skip(r) \/ WriteOutputFile(r) \/ EndOutputs(r)

Next ==
  \/ \E r \in Ranks : Step(r)
  \/ NewTimeStep \/ WriteEventLog
  \/ Kill \/ Launch
  \/ \E o \in Rst : \E n \in DOMAIN disk[o] : Resume(disk[o][n])

Spec == Init /\ [][Next]_vars

\* ranks keep executing, collective calls that all have made return
Fairness == /\ \A r \in Ranks : WF_vars(Step(r))
            /\ WF_vars(NewTimeStep) /\ WF_vars(WriteEventLog)

FairSpec == Spec /\ Fairness

-----------------------------------------------------------------------------
\* When a rank has left the loop, every rank has done as many cycles, and none
\* starts another: the decision to stop is the same on all ranks
RanksStopTogether ==
  \A r, q \in Ranks : up /\ pc[r] \in {"final", "done"} =>
    /\ ncycle[q] = ncycle[r] /\ time[q] = time[r]
    /\ pc[q] \notin {"run", "newdt"}
    /\ pc[q] = "loop" => ~Continue(q)

\* A scheduled output falls on its schedule, however often the run has been
\* killed and resumed: file n at the first cycle that reaches n * dt, or after
\* n * dcycle cycles (as long as no step, or now and then one, is longer than dt)
Scheduled(f) == f.clean /\ ~f.final
OutputsOnSchedule ==
  \A o \in Outs : \A n \in DOMAIN disk[o] :
    LET f == disk[o][n]  b == Blocks[o]
    IN  Scheduled(f) =>
          IF b.dcycle > 0
          THEN f.ncycle = n * b.dcycle
          ELSE f.time - f.dt < n * b.dt /\ n * b.dt <= f.time

\* A resumed run writes again what the killed run had written: a scheduled file
\* is only overwritten by a scheduled file of the same cycle, time and step
RewritesAgree ==
  [][\A o \in Outs : \A n \in DOMAIN disk[o] :
       LET old == disk[o][n]  new == disk'[o][n]
       IN  Scheduled(old) /\ Scheduled(new) /\ Whole(old) =>
             new.time = old.time /\ new.ncycle = old.ncycle /\ new.dt = old.dt]_vars

\* A job that is not killed ends on all ranks
EveryJobEnds == up ~> (~up \/ \A r \in Ranks : pc[r] = "done")

\* "sums event counter data across MPI ranks": while a rank waits in the sum of
\* the event counters, no rank waits in another collective call
EventsSummedByAllRanks ==
  \A r, q \in Ranks : up /\ Made(r) /\ IsLog(next(r)) =>
    ~(pc[q] \in {"start", "newdt"} /\ ncycle[q] = ncycle[r])

=============================================================================
