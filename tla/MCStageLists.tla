------------------------------ MODULE MCStageLists ------------------------------
EXTENDS StageLists

\* the multigrid lists but those with two sweeps to a finer level that differ from
\* the one kept only by an exchange before or after: their free sends multiply the
\* states without a new order of tasks
CheckedMGStages == MGStages \ {ToFiner(2, 0), ToFiner(2, 2)}
AllStages == PlainStages \cup ForcedStages \cup NRStages \cup CheckedMGStages

\* lists of at most five tasks for the run of the generic properties: a chain, a
\* fork and join, one assembled by InsertTask, and the empty list
Small == {
  <<>>,
  AddTasks(<<>>, Chain({}, <<"a", "b", "c">>)),
  AddTasks(<<>>, << <<"a", {}>>, <<"b", {"a"}>>, <<"c", {"a"}>>, <<"d", {"b", "c"}>>,
                    <<"e", {}>> >>),
  InsertTask(AddTasks(<<>>, Chain({}, <<"a", "b", "c">>)), "d", {"b"}, "c"),
  \* an insertion that makes an earlier task of the list wait for a later one
  InsertTask(AddTasks(<<>>, << <<"a", {}>>, <<"b", {"a"}>>, <<"c", {"a"}>> >>), "d", {"a"}, "c") }

\* the program starts with every configuration
ASSUME NothingAborts == \A c \in Configs : ~Aborts(c)

MCLists == Small \cup AllStages
MCId == UNION {{tl[k].id : k \in DOMAIN tl} : tl \in MCLists}
=============================================================================
