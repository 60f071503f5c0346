------------------------------- MODULE TaskGraph -------------------------------
(***************************************************************************)
(* What a task list promises to the code that executes it: in every round  *)
(* each task of a dependency graph completes exactly once, never before    *)
(* the tasks it depends on, and a round starts only when the previous one  *)
(* has completed every task.  Nothing is said of positions, passes or      *)
(* polling: those belong to TaskList, which implements this module.        *)
(***************************************************************************)
EXTENDS Naturals

CONSTANT Plans    \* the dependency graphs a list may have: task -> set of tasks

VARIABLES graph,      \* the graph of the list being executed
          completed,  \* the tasks completed in this round
          round       \* the rounds started so far

vars == <<graph, completed, round>>

Init == graph \in Plans /\ completed = {} /\ round = 0

StartRound ==
  /\ round = 0 \/ completed = DOMAIN graph
  /\ completed' = {}
  /\ round' = round + 1
  /\ UNCHANGED graph

Complete(t) ==
  /\ round > 0
  /\ t \notin completed
  /\ graph[t] \subseteq completed
  /\ completed' = completed \cup {t}
  /\ UNCHANGED <<graph, round>>

Next == StartRound \/ \E t \in DOMAIN graph : Complete(t)

Spec == Init /\ [][Next]_vars

=============================================================================
