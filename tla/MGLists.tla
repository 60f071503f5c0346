-------------------------------- MODULE MGLists --------------------------------
(***************************************************************************)
(* The task lists one step of a multigrid cycle executes on the MeshBlock  *)
(* levels (multigrid/multigrid_tasks.cpp): to a finer level, to a coarser  *)
(* one, and the prolongation of full multigrid.  Identifiers are the       *)
(* fields of the id struct; the local ids of the last exchange end in L.   *)
(***************************************************************************)
EXTENDS TaskListOps

\* Ghost zones are filled in five steps: the coarse buffers, the sends, the
\* receives, the physical boundary and the fine/coarse boundary; the receives are
\* posted by "ircv".  (Faulty variant: the boundary is set without the receives.)
FillGhostsUnreceived(s, after, posted) ==
  << <<"fill_coarse" \o s, after>>, <<"ircv" \o s, posted>>, <<"send" \o s, {"fill_coarse" \o s}>>,
     <<"recv" \o s, {"send" \o s}>>, <<"physb" \o s, {"send" \o s}>>,
     <<"fc_ghosts" \o s, {"physb" \o s}>> >>
FillGhosts(s, after, posted) ==
  << <<"fill_coarse" \o s, after>>, <<"ircv" \o s, posted>>, <<"send" \o s, {"fill_coarse" \o s}>>,
     <<"recv" \o s, {"send" \o s}>>, <<"physb" \o s, {"recv" \o s}>>,
     <<"fc_ghosts" \o s, {"physb" \o s}>> >>

\* as FillGhosts, with the receive waiting for its own posting and not for the
\* send (exchanges B and R2 on the way to a finer level)
FillGhostsFromPosted(s, after, posted) ==
  [FillGhosts(s, after, posted) EXCEPT ![4] = <<"recv" \o s, {"ircv" \o s}>>]

Clear(last) == << <<"clear_send0", {last}>>, <<"clear_recv0", {"clear_send0"}>> >>

\* SetMGTaskListToFiner: flag 1 on the first step from the root grid, 2 on the
\* last one, to the finest level
ToFiner(nsmooth, flag) == AddTasks(<<>>,
  (IF flag = 1 THEN << <<"prolongate", {}>> >>
   ELSE FillGhosts("0", {}, {}) \o << <<"prolongate", {"fc_ghosts0"}>> >>) \o
  (IF nsmooth = 0 THEN <<>> ELSE
     FillGhosts("1", {"prolongate"}, {"prolongate"}) \o << <<"smoothR", {"fc_ghosts1"}>> >> \o
     FillGhosts("R", {"smoothR"}, {"fc_ghosts1"})    \o << <<"smoothB", {"fc_ghostsR"}>> >>) \o
  (IF nsmooth < 2 THEN <<>> ELSE
     FillGhostsFromPosted("B", {"smoothB"}, {"fc_ghostsR"})  \o << <<"smoothR2", {"fc_ghostsB"}>> >> \o
     FillGhostsFromPosted("R2", {"smoothR2"}, {"fc_ghostsB"}) \o << <<"smoothB2", {"fc_ghostsR2"}>> >>) \o
  LET last_smooth == CASE nsmooth = 0 -> "prolongate" [] nsmooth = 1 -> "smoothB"
                       [] OTHER -> "smoothB2"
  IN  IF flag = 2 THEN FillGhosts("L", {last_smooth}, {last_smooth}) \o Clear("fc_ghostsL")
      ELSE Clear(last_smooth))

\* SetMGTaskListFMGProlongate: straight from the root grid (flag 1), or after an
\* exchange
FMGProlongate(flag) == AddTasks(<<>>,
  IF flag = 1 THEN << <<"fmg_prolongate", {}>> >>
  ELSE FillGhosts("0", {}, {}) \o << <<"fmg_prolongate", {"fc_ghosts0"}>> >> \o Clear("fmg_prolongate"))

\* a half sweep that waits for task after, and the exchange of its result; the
\* receives are posted when the exchange before, whose last task is posted, ended
HalfSweep(s, after, posted) ==
  << <<"ircv" \o s, {posted}>>, <<"smooth" \o s, {after}>> >> \o
  SelectSeq(FillGhosts(s, {"smooth" \o s}, {posted}), LAMBDA call : call[1] # "ircv" \o s)

\* SetMGTaskListToCoarser
ToCoarser(nsmooth) == AddTasks(<<>>,
  FillGhosts("0", {}, {}) \o << <<"calc_rhs", {"fc_ghosts0"}>> >> \o
  (IF nsmooth = 0 THEN <<>> ELSE
     HalfSweep("R", "calc_rhs", "fc_ghosts0") \o HalfSweep("B", "fc_ghostsR", "fc_ghostsR")) \o
  (IF nsmooth < 2 THEN <<>> ELSE
     HalfSweep("R2", "fc_ghostsB", "fc_ghostsB") \o HalfSweep("B2", "fc_ghostsR2", "fc_ghostsR2")) \o
  << <<"restrict_", {CASE nsmooth = 0 -> "calc_rhs" [] nsmooth = 1 -> "fc_ghostsB"
                       [] OTHER -> "fc_ghostsB2"}>> >> \o
  Clear("restrict_"))

MGStages == {ToFiner(n, f) : n \in 0..2, f \in 0..2} \cup {FMGProlongate(f) : f \in 0..1}
            \cup {ToCoarser(n) : n \in 0..2}

=============================================================================
