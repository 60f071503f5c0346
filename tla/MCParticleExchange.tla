----------------------------- MODULE MCParticleExchange -----------------------------
EXTENDS ParticleExchange

\* three ranks, one of which starts empty; with SendListPart 1 the send list never
\* overflows
MCOwner  == [b \in 0..2 |-> b]
MCCounts == [r \in 0..2 |-> <<3, 1, 0>>[r + 1]]
=============================================================================
