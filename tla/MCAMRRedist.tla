------------------------------- MODULE MCAMRRedist ------------------------------
(***************************************************************************)
(* Instances of AMRRedist for TLC.                                         *)
(***************************************************************************)
EXTENDS AMRRedist

Kinds == {"same", "refine", "derefine"}
Enough(p) == /\ Cardinality(DOMAIN Families(p, "refine")) >= NRanks
             /\ Cardinality(DOMAIN Families(p, "derefine")) >= NRanks
\* every change of up to three families, with a block for each rank before and after,
\* as LoadBalance promises one only then
Plans3 == {p \in UNION {[1..n -> Kinds] : n \in 1..3} : Enough(p)}
================================================================================
