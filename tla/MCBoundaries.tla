------------------------------ MODULE MCBoundaries ------------------------------
(***************************************************************************)
(* Instance of FluxCorrection and GhostZones for TLC: the meshes of MCAMR. *)
(***************************************************************************)
EXTENDS MCAMR, GhostZones, FluxCorrection
================================================================================
