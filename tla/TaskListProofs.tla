----------------------------- MODULE TaskListProofs -----------------------------
(***************************************************************************)
(* For every set of task lists and every number of executions: the type    *)
(* invariant, the safety properties of TaskList, and that TaskList         *)
(* implements TaskGraph.                                                   *)
(***************************************************************************)
EXTENDS TaskList, TLAPS

\* A pass is under way only inside an execution
Started == pc # "idle" => round > 0

\* The strengthening under which every step can be analysed: the properties
\* lean on one another (a skipped complete task is complete by its flag, an
\* execution that returns has all bits on, a new one starts with none)
IInv ==
  /\ list \in Lists
  /\ TypeOK
  /\ FlagsAgree
  /\ DependenciesCompleteFirst
  /\ ReturnsOnlyWhenDone
  /\ NeverSpinsOnCompleteList
  /\ Started

\* A list is a sequence of tasks with different identifiers
LEMMA ListType ==
  ASSUME NEW tl \in Lists
  PROVE  /\ tl \in Seq(Task)
         /\ Len(tl) \in Nat
         /\ \A i \in 1..Len(tl) : tl[i] \in Task
         /\ DistinctIds(tl)
<1>1. tl \in Seq(Task)
  BY ListsAssumption
<1>2. Len(tl) \in Nat /\ \A i \in 1..Len(tl) : tl[i] \in Task
  BY <1>1
<1>3. DistinctIds(tl)
  BY ListsAssumption
<1> QED
  BY <1>1, <1>2, <1>3

\* The invariant holds at first
LEMMA InitIInv == Init => IInv
<1> SUFFICES ASSUME Init PROVE IInv
  OBVIOUS
<1>1. list \in Lists /\ list \in Seq(Task) /\ DistinctIds(list) /\ Len(list) \in Nat
  BY ListType DEF Init
<1>2. TypeOK
  BY <1>1, MaxRoundsAssumption DEF Init, TypeOK, Ids
<1>3. FlagsAgree /\ DependenciesCompleteFirst
  BY DEF Init, FlagsAgree, DependenciesCompleteFirst
<1>4. ReturnsOnlyWhenDone /\ NeverSpinsOnCompleteList /\ Started
  BY DEF Init, ReturnsOnlyWhenDone, NeverSpinsOnCompleteList, Started
<1> QED
  BY <1>1, <1>2, <1>3, <1>4 DEF IInv

\* Polling one task preserves the invariant
LEMMA ExecuteIInv == IInv /\ Execute => IInv'
<1> SUFFICES ASSUME IInv, Execute PROVE IInv'
  OBVIOUS
<1>1. /\ list' = list /\ pos' = pos /\ round' = round + 1 /\ round < MaxRounds
      /\ completed' = {} /\ flag' = [i \in 1..Len(list) |-> FALSE]
      /\ pc' = IF Len(list) = 0 THEN "idle" ELSE "loop"
  BY DEF Execute, Reset
<1>2. list \in Lists /\ Len(list) \in Nat /\ list' \in Seq(Task) /\ DistinctIds(list)'
  BY <1>1, ListType DEF IInv, DistinctIds
<1>3. TypeOK'
  BY <1>1, <1>2, MaxRoundsAssumption DEF IInv, TypeOK, Ids
<1>4. FlagsAgree' /\ DependenciesCompleteFirst'
  BY <1>1 DEF FlagsAgree, DependenciesCompleteFirst
<1>5. ReturnsOnlyWhenDone'
  BY <1>1, <1>2 DEF ReturnsOnlyWhenDone, Ids
<1>6. NeverSpinsOnCompleteList'
  <2> SUFFICES ASSUME pc' = "loop" PROVE ~IsComplete'
    BY DEF NeverSpinsOnCompleteList
  <2>1. 1 \in 1..Len(list)
    BY <1>1, <1>2
  <2> QED
    BY <2>1, <1>1 DEF IsComplete, Ids
<1>7. Started'
  BY <1>1 DEF Started, IInv, TypeOK
<1> QED
  BY <1>1, <1>2, <1>3, <1>4, <1>5, <1>6, <1>7 DEF IInv

\* Visiting a task: a call that completes it sets both marks, any other visit none
LEMMA CallTaskIInv == ASSUME NEW status \in TaskStatus PROVE IInv /\ CallTask(status) => IInv'
<1> SUFFICES ASSUME IInv, CallTask(status) PROVE IInv'
  OBVIOUS
<1>1. /\ list \in Lists /\ list' = list /\ pc' = pc /\ pc = "pass" /\ round' = round
      /\ pos \in 1..Len(list) /\ pos' = pos + 1 /\ Available(pos)
  BY DEF CallTask, IInv, TypeOK
<1>2. Len(list) \in Nat /\ DistinctIds(list) /\ list' \in Seq(Task) /\ DistinctIds(list)'
  BY <1>1, ListType DEF DistinctIds
<1>3. \/ completed' = completed /\ flag' = flag
      \/ /\ completed' = completed \cup {list[pos].id}
         /\ flag' = [flag EXCEPT ![pos] = TRUE]
  BY DEF CallTask
<1>4. TypeOK'
  <2>1. completed' \subseteq Ids' /\ Ids' = Ids
    BY <1>1, <1>3 DEF IInv, TypeOK, Ids
  <2>2. flag' \in [1..Len(list) -> BOOLEAN]
    BY <1>1, <1>3 DEF IInv, TypeOK
  <2>3. pos' \in 1..(Len(list) + 1)
    BY <1>1, <1>2
  <2> QED
    BY <1>1, <1>2, <2>1, <2>2, <2>3 DEF IInv, TypeOK
<1>5. FlagsAgree'
  BY <1>1, <1>2, <1>3 DEF IInv, TypeOK, FlagsAgree, DistinctIds
<1>6. DependenciesCompleteFirst'
  BY <1>1, <1>2, <1>3 DEF IInv, DependenciesCompleteFirst, DistinctIds, Available
<1>7. ReturnsOnlyWhenDone' /\ NeverSpinsOnCompleteList' /\ Started'
  BY <1>1 DEF IInv, ReturnsOnlyWhenDone, NeverSpinsOnCompleteList, Started
<1> QED
  BY <1>1, <1>4, <1>5, <1>6, <1>7 DEF IInv

\* The other steps of a pass change neither the completed tasks nor the flags
LEMMA PassIInv == IInv /\ (StartPass \/ SkipTask \/ EndPass) => IInv'
<1> SUFFICES ASSUME IInv, StartPass \/ SkipTask \/ EndPass PROVE IInv'
  OBVIOUS
<1>1. list \in Lists /\ list' = list /\ completed' = completed /\ flag' = flag /\ round' = round
  BY DEF StartPass, SkipTask, EndPass, IInv, TypeOK
<1>2. Len(list) \in Nat /\ list' \in Seq(Task) /\ DistinctIds(list)'
  BY <1>1, ListType DEF DistinctIds
<1>3. FlagsAgree' /\ DependenciesCompleteFirst'
  BY <1>1 DEF IInv, FlagsAgree, DependenciesCompleteFirst
<1>4. IsComplete' = IsComplete /\ Ids' = Ids
  BY <1>1 DEF IsComplete, Ids
<1>5. CASE StartPass
  BY <1>1, <1>2, <1>3, <1>4, <1>5
  DEF StartPass, IInv, TypeOK, ReturnsOnlyWhenDone, NeverSpinsOnCompleteList, Started
<1>6. CASE SkipTask
  BY <1>1, <1>2, <1>3, <1>4, <1>6
  DEF SkipTask, IInv, TypeOK, ReturnsOnlyWhenDone, NeverSpinsOnCompleteList, Started
<1>7. CASE EndPass
  <2>1. IsComplete => completed = Ids
    BY DEF IsComplete, IInv, TypeOK
  <2> QED
    BY <1>1, <1>2, <1>3, <1>4, <1>7, <2>1
    DEF EndPass, IInv, TypeOK, ReturnsOnlyWhenDone, NeverSpinsOnCompleteList, Started
<1> QED
  BY <1>5, <1>6, <1>7

\* Every step preserves the invariant
LEMMA StepIInv == IInv /\ [Next]_vars => IInv'
<1>1. IInv /\ UNCHANGED vars => IInv'
  BY DEF IInv, TypeOK, FlagsAgree, DependenciesCompleteFirst, ReturnsOnlyWhenDone,
         NeverSpinsOnCompleteList, Started, Ids, IsComplete, vars
<1> QED
  BY <1>1, ExecuteIInv, CallTaskIInv, PassIInv DEF Next

\* The inductive invariant holds in every reachable state, for every task list
THEOREM Invariance == Spec => []IInv
<1> QED
  BY InitIInv, StepIInv, PTL DEF Spec

-----------------------------------------------------------------------------
\* Every variable of the task list keeps its type (DoAvailable, ExecuteTaskList)
THEOREM TypeCorrect == Spec => []TypeOK
<1>1. IInv => TypeOK
  BY DEF IInv
<1> QED
  BY <1>1, Invariance, PTL

\* No task of any list completes before what it depends on, in any execution,
\* however often the tasks answer incomplete or fail (DoAvailable)
THEOREM DependencyOrder == Spec => []DependenciesCompleteFirst
<1>1. IInv => DependenciesCompleteFirst
  BY DEF IInv
<1> QED
  BY <1>1, Invariance, PTL

\* The driver goes on to the next list only when every task has completed, and
\* its loop never waits on a list that is already complete (ExecuteTaskList)
THEOREM ReturnsComplete == Spec => [](ReturnsOnlyWhenDone /\ NeverSpinsOnCompleteList)
<1>1. IInv => ReturnsOnlyWhenDone /\ NeverSpinsOnCompleteList
  BY DEF IInv
<1> QED
  BY <1>1, Invariance, PTL

-----------------------------------------------------------------------------
\* The graph of a list: its tasks, each with its own dependencies
LEMMA GraphOfList ==
  ASSUME NEW tl \in Lists
  PROVE  /\ DOMAIN GraphOf(tl) = {tl[i].id : i \in 1..Len(tl)}
         /\ \A i \in 1..Len(tl) : GraphOf(tl)[tl[i].id] = tl[i].dep
<1>1. DOMAIN GraphOf(tl) = {tl[i].id : i \in 1..Len(tl)}
  BY DEF GraphOf
<1>2. ASSUME NEW i \in 1..Len(tl) PROVE GraphOf(tl)[tl[i].id] = tl[i].dep
  <2>1. GraphOf(tl)[tl[i].id] = tl[CHOOSE j \in 1..Len(tl) : tl[j].id = tl[i].id].dep
    BY DEF GraphOf
  <2>2. (CHOOSE j \in 1..Len(tl) : tl[j].id = tl[i].id) = i
    <3>1. DistinctIds(tl)
      BY ListType
    <3> QED
      BY <3>1 DEF DistinctIds
  <2> QED
    BY <2>1, <2>2
<1> QED
  BY <1>1, <1>2

\* Every step of the list is a round start, the completion of one task, or
\* invisible to the graph
LEMMA StepSimulation == IInv /\ [Next]_vars => [Abstract!Next]_(Abstract!vars)
<1> SUFFICES ASSUME IInv, [Next]_vars PROVE [Abstract!Next]_(Abstract!vars)
  OBVIOUS
<1> DEFINE g == GraphOf(list)
<1>1. list \in Lists /\ DOMAIN g = Ids /\ (list' = list => g' = g)
  BY GraphOfList DEF IInv, TypeOK, Ids
<1>2. CASE Execute
  <2>1. round = 0 \/ completed = Ids
    BY <1>2 DEF Execute, IInv, TypeOK, ReturnsOnlyWhenDone
  <2> QED
    BY <1>1, <1>2, <2>1 DEF Execute, Reset, Abstract!Next, Abstract!StartRound
<1>3. ASSUME NEW status \in TaskStatus, CallTask(status)
      PROVE  [Abstract!Next]_(Abstract!vars)
  <2> DEFINE t == list[pos].id
  <2>1. pos \in 1..Len(list) /\ t \in Ids /\ list' = list /\ round' = round /\ Available(pos)
    BY <1>3 DEF CallTask, Ids
  <2>2. t \notin completed /\ g[t] \subseteq completed /\ round > 0
    <3>1. g[t] = list[pos].dep
      BY <1>1, <2>1, GraphOfList
    <3> QED
      BY <1>3, <2>1, <3>1 DEF Available, IInv, FlagsAgree, Started, CallTask
  <2>3. completed' = completed \/ completed' = completed \cup {t}
    BY <1>3 DEF CallTask
  <2>4. CASE completed' = completed
    BY <2>4, <2>1, <1>1 DEF Abstract!vars
  <2>5. CASE completed' = completed \cup {t}
    BY <2>5, <2>1, <2>2, <1>1 DEF Abstract!Next, Abstract!Complete
  <2> QED
    BY <2>3, <2>4, <2>5
<1>4. CASE StartPass \/ SkipTask \/ EndPass \/ UNCHANGED vars
  BY <1>1, <1>4 DEF StartPass, SkipTask, EndPass, vars, Abstract!vars
<1> QED
  BY <1>2, <1>3, <1>4 DEF Next

\* A task list executed by the driver is an implementation of the dependency
\* graph: each round, every task once, in an order the dependencies allow
THEOREM ImplementsTaskGraph == Spec => AbstractSpec
<1>1. Init => Abstract!Init
  BY DEF Init, Abstract!Init
<1> QED
  BY <1>1, StepSimulation, Invariance, PTL DEF Spec, AbstractSpec, Abstract!Spec

=============================================================================
