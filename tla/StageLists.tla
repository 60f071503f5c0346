------------------------------- MODULE StageLists -------------------------------
(***************************************************************************)
(* The "stagen" task lists the physics modules assemble for one stage of   *)
(* the integrator, and what the order of their tasks must guarantee while  *)
(* TaskList executes them.  Identifiers are the fields of the id structs,  *)
(* and the task names of numerical relativity.                             *)
(***************************************************************************)
EXTENDS TaskListOps, NRQueue, MGLists, TaskList

\* AddTask calls of which each names the one before as its dependency
\* (Faulty variant: each names the one before the one before.)
ChainSkipping(start, names) ==
  [k \in DOMAIN names |-> <<names[k], IF k <= 2 THEN start ELSE {names[k - 2]}>>]
Chain(start, names) ==
  [k \in DOMAIN names |-> <<names[k], IF k = 1 THEN start ELSE {names[k - 1]}>>]

HydroStage == AddTasks(<<>>, Chain({},
  <<"copyu", "flux", "sendf", "recvf", "rkupdt", "srctrms", "sendu_oa", "recvu_oa",
    "restu", "sendu", "recvu", "sendu_shr", "recvu_shr", "prol", "bcs", "c2p", "newdt">>))

MHDStage == AddTasks(<<>>, Chain({},
  <<"copyu", "flux", "sendf", "recvf", "rkupdt", "srctrms", "sendu_oa", "recvu_oa",
    "restu", "sendu", "recvu", "sendu_shr", "recvu_shr", "efld", "sende", "recve", "ct",
    "sendb_oa", "recvb_oa", "restb", "sendb", "recvb", "sendb_shr", "recvb_shr",
    "prol", "bcs", "c2p", "newdt">>))

\* the two fluids are updated one after the other, coupled by the drag (impl),
\* and exchanged independently
IonNeutralStage == AddTasks(<<>>, Chain({},
  <<"impl_2x", "i_flux", "i_sendf", "i_recvf", "i_rkupdt", "i_srctrms",
    "n_flux", "n_sendf", "n_recvf", "n_rkupdt", "n_srctrms", "impl",
    "i_restu", "n_restu">>) \o
  << <<"i_sendu", {"n_restu"}>>, <<"n_sendu", {"n_restu"}>>,
     <<"i_recvu", {"i_sendu"}>>, <<"n_recvu", {"n_sendu"}>> >> \o
  Chain({"i_recvu"}, <<"efld", "sende", "recve", "ct", "restb", "sendb", "recvb">>) \o
  << <<"i_bcs", {"recvb"}>>,   <<"n_bcs", {"n_recvu"}>>,
     <<"i_prol", {"i_bcs"}>>,  <<"n_prol", {"n_bcs"}>>,
     <<"i_c2p", {"i_prol"}>>,  <<"n_c2p", {"n_prol"}>>,
     <<"i_newdt", {"i_c2p"}>>, <<"n_newdt", {"n_c2p"}>> >>)

RadMHDStage == AddTasks(<<>>, Chain({},
  <<"copyu", "rad_flux", "rad_sendf", "rad_recvf", "rad_rkupdt", "rad_src",
    "mhd_flux", "mhd_sendf", "mhd_recvf", "mhd_rkupdt", "mhd_src", "mhd_efld",
    "mhd_sende", "mhd_recve", "mhd_ct", "rad_coupl", "rad_resti", "rad_sendi",
    "rad_recvi", "mhd_restu", "mhd_sendu", "mhd_recvu", "mhd_restb", "mhd_sendb",
    "mhd_recvb", "rad_prol", "mhd_prol", "bcs", "mhd_c2p">>))

RadHydroStage == AddTasks(<<>>, Chain({},
  <<"copyu", "rad_flux", "rad_sendf", "rad_recvf", "rad_rkupdt", "rad_src",
    "hyd_flux", "hyd_sendf", "hyd_recvf", "hyd_rkupdt", "hyd_src", "rad_coupl",
    "rad_resti", "rad_sendi", "rad_recvi", "hyd_restu", "hyd_sendu", "hyd_recvu",
    "rad_prol", "hyd_prol", "bcs", "hyd_c2p">>))

RadStage == AddTasks(<<>>, Chain({},
  <<"copyu", "rad_flux", "rad_sendf", "rad_recvf", "rad_rkupdt", "rad_src",
    "rad_coupl", "rad_resti", "rad_sendi", "rad_recvi", "rad_prol", "bcs">>))

\* TurbulenceDriver::IncludeAddForcingTask: with two fluids only the neutral
\* update is preceded by the forcing
IncludeAddForcingTask(tl) ==
  IF \E k \in DOMAIN tl : tl[k].id = "n_rkupdt"
  THEN InsertTask(tl, "addforcing", {"n_flux"}, "n_rkupdt")
  ELSE InsertTask(tl, "addforcing", {"flux"}, "rkupdt")

PlainStages  == {HydroStage, MHDStage, IonNeutralStage, RadMHDStage, RadHydroStage, RadStage}
ForcedStages == {IncludeAddForcingTask(tl) : tl \in {HydroStage, MHDStage, IonNeutralStage}}
NRStages     == {RunStage(c) : c \in Configs} \cup {EndStage(c) : c \in Configs}

-----------------------------------------------------------------------------
\* wherever both tasks are in the list, y has completed if x has
Follows(x, y) == x \in completed /\ y \in Ids => y \in completed

\* A fluid is advanced only with fluxes that have been corrected at fine/coarse
\* faces: RKUpdate after RecvFlux, which may have to poll, whichever other tasks
\* are available meanwhile
UpdateUsesCorrectedFluxes ==
  /\ \A p \in {"", "i_", "n_", "rad_", "mhd_", "hyd_"} : Follows(p \o "rkupdt", p \o "recvf")
  /\ Follows("MHD_ExplRK", "MHD_RecvFlux")

\* In the stages as they are assembled, without forcing, that is so
PlainUpdateUsesCorrectedFluxes == list \notin ForcedStages => UpdateUsesCorrectedFluxes

\* The magnetic field is advanced only with edge fields received from all
\* neighbours, and only these of the updated gas
FieldUpdateUsesReceivedEMF ==
  /\ Follows("ct", "recve") /\ Follows("mhd_ct", "mhd_recve")
  /\ Follows("efld", "rkupdt") /\ Follows("efld", "i_rkupdt")
  /\ Follows("MHD_CT", "MHD_RecvE") /\ Follows("MHD_EField", "MHD_ExplRK")

\* What is packed for the neighbours is the finished update: sources, forcing,
\* drag and radiation coupling are all in, and the coarse copy is restricted
SendsCarryWholeUpdate ==
  /\ \A u \in {"rkupdt", "srctrms", "addforcing", "restu"} : Follows("sendu", u)
  /\ \A u \in {"i_srctrms", "n_srctrms", "impl", "addforcing"} :
       Follows("i_sendu", u) /\ Follows("n_sendu", u)
  /\ Follows("i_sendu", "i_restu") /\ Follows("n_sendu", "n_restu")
  /\ \A u \in {"rad_coupl", "mhd_restu", "mhd_src"} : Follows("mhd_sendu", u)
  /\ \A u \in {"rad_coupl", "hyd_restu", "hyd_src"} : Follows("hyd_sendu", u)
  /\ \A u \in {"rad_coupl", "rad_resti"} : Follows("rad_sendi", u)
  /\ Follows("sendb", "restb") /\ Follows("mhd_sendb", "mhd_restb") /\ Follows("restb", "ct")
  /\ \A u \in {"MHD_AddSrc", "MHD_RestU"} : Follows("MHD_SendU", u)
  /\ \A u \in {"Z4c_ExplRK", "Z4c_ChiFloor", "Z4c_RestU"} : Follows("Z4c_SendU", u)
  /\ Follows("MHD_SendB", "MHD_RestB") /\ Follows("Z4c_SendW", "Z4c_RestW")

\* Primitives, and the time step made from them, use ghost zones that were
\* received, prolongated and set by the boundary conditions in this stage
PrimitivesUseFilledGhosts ==
  /\ \A g \in {"recvu", "recvb", "recvu_shr", "recvb_shr", "prol", "bcs"} : Follows("c2p", g)
  /\ \A g \in {"i_recvu", "recvb", "i_prol", "i_bcs"} : Follows("i_c2p", g)
  /\ \A g \in {"n_recvu", "n_prol", "n_bcs"} : Follows("n_c2p", g)
  /\ \A g \in {"rad_recvi", "mhd_recvu", "mhd_recvb", "mhd_prol", "bcs"} : Follows("mhd_c2p", g)
  /\ \A g \in {"rad_recvi", "hyd_recvu", "hyd_prol", "bcs"} : Follows("hyd_c2p", g)
  /\ Follows("newdt", "c2p") /\ Follows("i_newdt", "i_c2p") /\ Follows("n_newdt", "n_c2p")
  /\ \A g \in {"MHD_RecvU", "MHD_RecvB", "MHD_Prolong", "MHD_BCS"} : Follows("MHD_C2P", g)
  /\ \A g \in {"Z4c_RecvU", "Z4c_Prolong", "Z4c_BCS"} : Follows("Z4c_Z4c2ADM", g)

\* With an evolved metric the two solvers of numerical relativity, whose tasks
\* interleave as their messages arrive, use each other's state of the right
\* moment: the right-hand side is made from the matter of this stage; the metric
\* is replaced only after every task of the fluid that reads the old one; and the
\* conversion to primitives reads the new metric and the new excision mask.
SolversUseOneMetric ==
  /\ Follows("Z4c_CalcRHS", "MHD_SetTmunu") /\ Follows("MHD_ExplRK", "MHD_SetTmunu")
  /\ \A reader \in {"MHD_SetTmunu", "MHD_Flux", "MHD_AddSrc", "MHD_EField"} :
       Follows("Z4c_ExplRK", reader) /\ Follows("Z4c_Z4c2ADM", reader)
  /\ Follows("MHD_C2P", "Z4c_Z4c2ADM") /\ Follows("MHD_C2P", "Z4c_Excise")
  /\ Follows("MHD_C2P", "MHD_SetADM")

\* A multigrid step is made of half sweeps over cells of one colour, each of which
\* reads the other colour in the ghost zones: it runs only after these have been
\* received and corrected at fine/coarse faces, and every exchange sends the result
\* of the half sweep before it.  So do the transfers between levels.
SweepsUseReceivedGhosts ==
  /\ \A use \in {<<"prolongate", "0">>, <<"fmg_prolongate", "0">>, <<"calc_rhs", "0">>,
                 <<"smoothR", "0">>, <<"smoothR", "1">>, <<"smoothB", "R">>, <<"smoothR2", "B">>,
                 <<"smoothB2", "R2">>, <<"restrict_", "0">>, <<"restrict_", "B">>,
                 <<"restrict_", "B2">>, <<"clear_send0", "L">>} :
       Follows(use[1], "recv" \o use[2]) /\ Follows(use[1], "fc_ghosts" \o use[2])
  /\ \A s \in {"R", "B", "R2", "B2"} : Follows("send" \o s, "smooth" \o s)
  /\ Follows("send1", "prolongate")

=============================================================================
