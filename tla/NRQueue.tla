------------------------------- MODULE NRQueue -------------------------------
(***************************************************************************)
(* The task lists of numerical relativity.  DynGRMHD and Z4c queue their   *)
(* tasks under names, with the names they require and those they wait for  *)
(* only if the other module is present (QueueDynGRMHDTasks, QueueZ4cTasks);*)
(* NumericalRelativity assembles a list from a queue by passing over it    *)
(* until every task has been added (tasklist/numerical_relativity.cpp).    *)
(* Here: the lists "stagen" (Task_Run) and "after_stagen" (Task_End).      *)
(***************************************************************************)
EXTENDS TaskListOps

LOCAL INSTANCE SequencesExt
LOCAL INSTANCE FiniteSets

\* which modules there are (pdyngr, pz4c), whether chi is floored, and whether a
\* prescribed metric depends on time (adm.is_dynamic)
Configs == {c \in [dyngr : BOOLEAN, z4c : BOOLEAN, floor_chi : BOOLEAN, dynamic : BOOLEAN] :
              /\ c.dyngr \/ c.z4c
              /\ c.floor_chi => c.z4c
              /\ c.dynamic => c.dyngr /\ ~c.z4c}

MHDNames == {"MHD_CopyU", "MHD_Flux", "MHD_SetTmunu", "MHD_SendFlux", "MHD_RecvFlux",
             "MHD_ExplRK", "MHD_AddSrc", "MHD_RestU", "MHD_SendU", "MHD_RecvU", "MHD_EField",
             "MHD_SendE", "MHD_RecvE", "MHD_CT", "MHD_RestB", "MHD_SendB", "MHD_RecvB",
             "MHD_BCS", "MHD_Prolong", "MHD_SetADM", "MHD_Excise", "MHD_C2P", "MHD_Newdt",
             "MHD_ClearS", "MHD_ClearR"}

\* NeedsPhysics and DependencyAvailable: the physics a task belongs to is there
PhysicsAvailable(c, name) == IF name \in MHDNames THEN c.dyngr ELSE c.z4c

\* QueueTask: a call is without effect unless the physics of all it requires is
\* there; what it waits for if present becomes required if present.
\* (Faulty variant: what is optional is never waited for.)
QueueTaskNoExtra(c, call) == [name |-> call[1], dep |-> call[2]]
QueueTask(c, call) ==
  [name |-> call[1],
   dep  |-> call[2] \cup {d \in call[3] : PhysicsAvailable(c, d)}]
Queue(c, calls) ==
  LET queued == SelectSeq(calls, LAMBDA call : \A d \in call[2] : PhysicsAvailable(c, d))
  IN  [k \in DOMAIN queued |-> QueueTask(c, queued[k])]

\* calls that each require the one before
Line(start, names) ==
  [k \in DOMAIN names |-> <<names[k], IF k = 1 THEN start ELSE {names[k - 1]}, {}>>]

When(cond, tasks) == IF cond THEN tasks ELSE <<>>

DynGRMHDRun(c) ==
  Line({}, <<"MHD_CopyU", "MHD_Flux">>) \o
  When(c.z4c, << <<"MHD_SetTmunu", {"MHD_CopyU"}, {}>> >>) \o
  Line({"MHD_Flux"}, <<"MHD_SendFlux", "MHD_RecvFlux">>) \o
  << <<"MHD_ExplRK", {"MHD_RecvFlux"} \cup (IF c.z4c THEN {"MHD_SetTmunu"} ELSE {}), {}>> >> \o
  Line({"MHD_ExplRK"},
    <<"MHD_AddSrc", "MHD_RestU", "MHD_SendU", "MHD_RecvU", "MHD_EField", "MHD_SendE",
      "MHD_RecvE", "MHD_CT", "MHD_RestB", "MHD_SendB", "MHD_RecvB", "MHD_Prolong", "MHD_BCS">>) \o
  (IF c.dynamic
   THEN << <<"MHD_SetADM", {"MHD_ExplRK"}, {}>>,
           <<"MHD_C2P", {"MHD_BCS", "MHD_SetADM"}, {"Z4c_Excise"}>>,
           <<"MHD_Excise", {"MHD_SetADM"}, {}>> >>
   ELSE << <<"MHD_C2P", {"MHD_BCS"}, {"Z4c_Excise"}>> >>) \o
  << <<"MHD_Newdt", {"MHD_C2P"}, {}>> >>

Z4cRun(c) ==
  << <<"Z4c_CopyU", {}, {}>>,
     <<"Z4c_CalcRHS", {"Z4c_CopyU"}, {"MHD_SetTmunu"}>>,
     <<"Z4c_SomBC", {"Z4c_CalcRHS"}, {}>>,
     <<"Z4c_ExplRK", {"Z4c_SomBC"}, {"MHD_EField"}>> >> \o
  Line({"Z4c_ExplRK"},
    When(c.floor_chi, <<"Z4c_ChiFloor">>) \o
    <<"Z4c_RestU", "Z4c_SendU", "Z4c_RecvU", "Z4c_Prolong", "Z4c_BCS", "Z4c_AlgC", "Z4c_Z4c2ADM">>) \o
  When(c.dyngr, << <<"Z4c_Excise", {"Z4c_Z4c2ADM"}, {"Z4c_FastFlow"}>> >>) \o
  << <<"Z4c_Newdt", {"Z4c_Z4c2ADM"}, {}>> >> \o
  Line({"Z4c_Z4c2ADM"}, <<"Z4c_PT", "Z4c_FastFlow">>)

DynGRMHDEnd == << <<"MHD_ClearS", {}, {}>>, <<"MHD_ClearR", {}, {}>> >>
Z4cEnd == Line({}, <<"Z4c_ClearS", "Z4c_ClearR", "Z4c_ADMC", "Z4c_Weyl", "Z4c_RestW", "Z4c_SendW",
                     "Z4c_RecvW", "Z4c_ProlW", "Z4c_ClearSW", "Z4c_ClearRW", "Z4c_Wave", "Z4c_CCE",
                     "Z4c_DumpHorizon">>)

-----------------------------------------------------------------------------
\* DependenciesMet: every name a task requires is that of a task of the queue
\* already added
DependenciesMet(task, queue, list) ==
  \A d \in task.dep : /\ \E k \in DOMAIN queue : queue[k].name = d
                      /\ \E k \in DOMAIN list : list[k].id = d

\* one pass over the queue
Pass(queue, list) ==
  FoldLeft(LAMBDA acc, task :
             IF DependenciesMet(task, queue, acc) /\ ~\E k \in DOMAIN acc : acc[k].id = task.name
             THEN AddTask(acc, task.name, task.dep)
             ELSE acc,
           list, queue)

\* AssembleNumericalRelativityTasks: passes until one adds nothing; the program
\* aborts if the list is then shorter than the queue
Assemble(queue) ==
  LET names == {queue[k].name : k \in DOMAIN queue}
      assembled[list \in Seq([id : names, dep : SUBSET names])] ==
        LET longer == Pass(queue, list)
        IN  IF longer = list THEN list ELSE assembled[longer]
  IN  assembled[<<>>]

\* both modules queue, DynGRMHD first
RunQueue(c) == Queue(c, When(c.dyngr, DynGRMHDRun(c)) \o When(c.z4c, Z4cRun(c)))
EndQueue(c) == Queue(c, When(c.dyngr, DynGRMHDEnd) \o When(c.z4c, Z4cEnd))

RunStage(c) == Assemble(RunQueue(c))
EndStage(c) == Assemble(EndQueue(c))

\* some task would never be added: the program stops when it starts
Aborts(c) == Len(RunStage(c)) < Len(RunQueue(c)) \/ Len(EndStage(c)) < Len(EndQueue(c))

=============================================================================
