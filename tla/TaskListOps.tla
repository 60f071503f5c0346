------------------------------ MODULE TaskListOps ------------------------------
(***************************************************************************)
(* Assembling a task list (tasklist/task_list.hpp): a task is a record of  *)
(* its identifier and the identifiers it depends on, a list is a sequence  *)
(* of tasks.  TaskID is a bitset: a set of identifiers here, so that "dep  *)
(* contains id" is inclusion and (dep ^ id) | newdep, under that guard, is *)
(* a difference followed by a union.                                       *)
(***************************************************************************)
EXTENDS Naturals, Sequences

LOCAL INSTANCE SequencesExt

\* TaskList::AddTask: append, whatever the dependency is
AddTask(tl, id, dep) == Append(tl, [id |-> id, dep |-> dep])

\* a chain of AddTask calls, one per <<identifier, dependencies>> pair
AddTasks(tl, pairs) ==
  tl \o [k \in DOMAIN pairs |-> [id |-> pairs[k][1], dep |-> pairs[k][2]]]

\* Task::ChangeDependency: only a task that depends on all of id changes
ChangeDependency(task, id, newdep) ==
  IF id \subseteq task.dep
  THEN [task EXCEPT !.dep = (@ \ id) \cup newdep]
  ELSE task

\* TaskList::InsertTask: put the task just before loc, then make every OTHER
\* task that depended on what loc depended on depend on the new task instead.
\* A list without loc is left as it is (the code returns TaskID(0)).
\* (Faulty variant: no other task is made to wait for the new one.)
InsertTaskUnlinked(tl, id, dep, loc) ==
  IF \A k \in DOMAIN tl : tl[k].id # loc
  THEN tl
  ELSE InsertAt(tl, SelectInSeq(tl, LAMBDA t : t.id = loc), [id |-> id, dep |-> dep])
InsertTask(tl, id, dep, loc) ==
  IF \A k \in DOMAIN tl : tl[k].id # loc
  THEN tl
  ELSE LET at      == SelectInSeq(tl, LAMBDA t : t.id = loc)
           old_dep == tl[at].dep
           longer  == InsertAt(tl, at, [id |-> id, dep |-> dep])
       IN  [k \in DOMAIN longer |->
              IF longer[k].id = id
              THEN longer[k]
              ELSE ChangeDependency(longer[k], old_dep, {id})]

=============================================================================
