-------------------------------- MODULE TaskList --------------------------------
(***************************************************************************)
(* Driver::ExecuteTaskList over TaskList::DoAvailable                      *)
(* (driver/driver.cpp, tasklist/task_list.hpp).  The driver resets the     *)
(* list, then passes over it again and again: a pass visits the tasks in   *)
(* list order and calls each one that is not complete and whose            *)
(* dependencies are.  A task function answers complete, incomplete (a      *)
(* receive still pending) or fail; the last two are treated alike: the     *)
(* task is called again in a later pass.                                   *)
(*                                                                         *)
(* A rank has one MeshBlockPack, so one list is executed at a time.        *)
(***************************************************************************)
EXTENDS Naturals, Sequences, FiniteSets

CONSTANTS Id,        \* task identifiers
          Lists,     \* the task lists that may be executed
          MaxRounds  \* bound: how many times the driver executes the list

Task == [id : Id, dep : SUBSET Id]

\* AddTask and InsertTask give each task a bit of its own
DistinctIds(tl) == \A i, j \in 1..Len(tl) : tl[i].id = tl[j].id => i = j

ASSUME ListsAssumption ==
  /\ Lists \subseteq Seq(Task)
  /\ \A tl \in Lists : DistinctIds(tl)

ASSUME MaxRoundsAssumption == MaxRounds \in Nat

TaskStatus == {"complete", "incomplete", "fail"}

VARIABLES list,      \* task_list_
          completed, \* tasks_completed_: the set of identifiers whose bit is on
          flag,      \* complete_ of the task at each position
          pos,       \* the position the pass is at
          pc,        \* "idle": outside; "loop": the while of ExecuteTaskList;
                     \* "pass": the for of DoAvailable
          round      \* executions started

vars == <<list, completed, flag, pos, pc, round>>

Ids == {list[i].id : i \in 1..Len(list)}

Init ==
  /\ list \in Lists
  /\ completed = {}
  /\ flag = [i \in 1..Len(list) |-> FALSE]
  /\ pos = 1
  /\ pc = "idle"
  /\ round = 0

IsComplete == Ids \subseteq completed

\* (Faulty variant: only the bits are cleared.)
ResetBitsOnly ==
  /\ completed' = {}
  /\ UNCHANGED flag
Reset ==
  /\ completed' = {}
  /\ flag' = [i \in 1..Len(list) |-> FALSE]

\* ExecuteTaskList: an empty list is left at once
Execute ==
  /\ pc = "idle"
  /\ round < MaxRounds
  /\ Reset
  /\ round' = round + 1
  /\ pc' = IF Len(list) = 0 THEN "idle" ELSE "loop"
  /\ UNCHANGED <<list, pos>>

StartPass ==
  /\ pc = "loop"
  /\ ~IsComplete
  /\ pc' = "pass"
  /\ pos' = 1
  /\ UNCHANGED <<list, completed, flag, round>>

\* Faulty variant: the dependency must only have one completed task, not all
AvailableAny(i) == (list[i].dep = {} \/ list[i].dep \cap completed # {}) /\ ~flag[i]
Available(i) == list[i].dep \subseteq completed /\ ~flag[i]

CallTask(status) ==
  /\ pc = "pass"
  /\ pos \in 1..Len(list)
  /\ Available(pos)
  /\ IF status = "complete"
     THEN /\ completed' = completed \cup {list[pos].id}
          /\ flag' = [flag EXCEPT ![pos] = TRUE]
     ELSE UNCHANGED <<completed, flag>>
  /\ pos' = pos + 1
  /\ UNCHANGED <<list, pc, round>>

SkipTask ==
  /\ pc = "pass"
  /\ pos \in 1..Len(list)
  /\ ~Available(pos)
  /\ pos' = pos + 1
  /\ UNCHANGED <<list, completed, flag, pc, round>>

\* Faulty variant: one pass is taken to be enough
EndPassOnce ==
  /\ pc = "pass"
  /\ pos = Len(list) + 1
  /\ pc' = "idle"
  /\ UNCHANGED <<list, completed, flag, pos, round>>

\* the end of DoAvailable and the driver's test of what it returned
EndPass ==
  /\ pc = "pass"
  /\ pos = Len(list) + 1
  /\ pc' = IF IsComplete THEN "idle" ELSE "loop"
  /\ UNCHANGED <<list, completed, flag, pos, round>>

Next ==
  \/ Execute
  \/ StartPass
  \/ \E status \in TaskStatus : CallTask(status)
  \/ SkipTask
  \/ EndPass

Spec == Init /\ [][Next]_vars

-----------------------------------------------------------------------------
(***************************************************************************)
(* Fairness: the driver's loop never stops by itself, and the tasks that   *)
(* are called again and again are not all refused for ever (what one of    *)
(* them polls for, an MPI message, arrives).                               *)
(***************************************************************************)
Fairness ==
  /\ WF_vars(StartPass)
  /\ WF_vars(SkipTask)
  /\ WF_vars(EndPass)
  /\ WF_vars(\E status \in TaskStatus : CallTask(status))
  /\ SF_vars(CallTask("complete"))

FairSpec == Spec /\ Fairness

-----------------------------------------------------------------------------
\* Every variable has its type; positions are those of the list, or one past it
TypeOK ==
  /\ list \in Seq(Task) /\ DistinctIds(list)
  /\ completed \subseteq Ids
  /\ flag \in [1..Len(list) -> BOOLEAN]
  /\ pos \in 1..(Len(list) + 1)
  /\ pc \in {"idle", "loop", "pass"}
  /\ round \in 0..MaxRounds

\* The bit of a task in tasks_completed_ and its own complete_ flag, which
\* DoAvailable sets one after the other and Reset clears separately, agree
FlagsAgree == \A i \in 1..Len(list) : flag[i] <=> list[i].id \in completed

\* At every moment of every execution the completed tasks are closed under
\* dependency: nothing completed in this execution used a task that has not
DependenciesCompleteFirst ==
  \A i \in 1..Len(list) : list[i].id \in completed => list[i].dep \subseteq completed

\* ExecuteTaskList returns to its caller only when every task has completed
ReturnsOnlyWhenDone == pc = "idle" /\ round > 0 => completed = Ids

\* In ExecuteTaskList's loop "if (!IsComplete()) ..." is never false: a complete
\* list seen there would be skipped without npack_left going down, for ever
NeverSpinsOnCompleteList == pc = "loop" => ~IsComplete

\* A list is executed to the end: every task of it completes
EveryExecutionReturns == pc # "idle" ~> pc = "idle"

\* The list implements the dependency graph it stands for
GraphOf(tl) == [t \in {tl[i].id : i \in 1..Len(tl)} |->
                  (tl[CHOOSE i \in 1..Len(tl) : tl[i].id = t]).dep]

Abstract == INSTANCE TaskGraph WITH Plans <- {GraphOf(tl) : tl \in Lists},
                                    graph <- GraphOf(list)

AbstractSpec == Abstract!Spec

=============================================================================
