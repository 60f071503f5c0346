------------------------------ MODULE MCMultigrid ------------------------------
EXTENDS Multigrid

\* root grids of one to three levels, on the device or the host; periodic or not,
\* reducible to one cell or not
MCConfig ==
  {c \in [nroot : 1..3, onHost : BOOLEAN, average : BOOLEAN, single : BOOLEAN, fmg : BOOLEAN,
          cycles : 1..2, npre : 0..2, npost : 0..1, iterative : BOOLEAN] :
     /\ c.single => c.average
     /\ c.cycles = 2 => c.fmg /\ c.npre = 1
     /\ c.npre = 2 => c.fmg
     /\ ~c.iterative => c.npre = 0}
=============================================================================
