----------------------------- MODULE MCGhostExchange -----------------------------
EXTENDS GhostExchange

MCBlocks == 1..5
\* two rows of two MeshBlocks in Z order and one block below them, which touch at
\* edges and corners. Rank 0 has the top, rank 1 the middle, rank 2 the bottom: 0 and
\* 2 exchange nothing, so may drift apart, and the blocks of 0 and 1 are linked
\* crosswise. Load balancing may choose either of two layouts.
MCRanks == {0, 1, 2}
MCLinks == {l \in (1..4) \X (1..4) : l[1] # l[2]} \cup ({3, 4} \X {5}) \cup ({5} \X {3, 4})
MCMeshes == {[owner |-> <<0, 0, 1, 1, 2>>, links |-> MCLinks], [owner |-> <<0, 1, 1, 1, 2>>, links |-> MCLinks]}
=============================================================================
