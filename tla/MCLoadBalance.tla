------------------------------ MODULE MCLoadBalance ------------------------------
EXTENDS LoadBalance

\* what the start of a run accepts: at least one block per rank
MCEnough == {in \in (1..12) \X (1..5) : in[1] >= in[2]}
=============================================================================
