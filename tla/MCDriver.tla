------------------------------- MODULE MCDriver -------------------------------
EXTENDS Driver

\* steps that one rank or the other holds back, that grow again by no more than
\* a factor of two, and that are cut at TLim: times 0, 1, 3, 4, 6, 9, 10
MCCflStep == [r \in 0..1 |-> [n \in 1..15 |->
  IF n <= 5 THEN (IF r = 0 THEN <<1, 3, 1, 3, 3>> ELSE <<2, 3, 2, 3, 3>>)[n] ELSE 3 - r]]
MCBlocks == <<[type |-> "file", dt |-> 4, dcycle |-> 0],
              [type |-> "rst", dt |-> 2, dcycle |-> 0],
              [type |-> "log", dt |-> 0, dcycle |-> 2]>>
\* nothing to report when the log is due at time 9
LogBlocks == <<[type |-> "log", dt |-> 4, dcycle |-> 0]>>
===============================================================================
