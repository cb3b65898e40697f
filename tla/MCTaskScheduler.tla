-------------------------- MODULE MCTaskScheduler --------------------------
(* TaskScheduler on small instances. *)
EXTENDS TaskSchedulerWaits, TLC

Symmetry == Permutations(Threads) \cup Permutations(Tasks) \cup Permutations(Signals)

NonNegative == {0, 1, 2}
WithUndefined == {-1, 1}
OneOrTwo == {1, 2}
ZeroOrOne == {0, 1}
JustOne == {1}

=============================================================================
