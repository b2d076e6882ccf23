----------------------------- MODULE MCSchedule -----------------------------
(* Instances of Schedule for TLC.                                          *)
EXTENDS Schedule, TLC

CONSTANTS t1, t2, t3, e1, e2

OneShot == [hb |-> FALSE, ign |-> FALSE]
Heartbeat == [hb |-> TRUE, ign |-> FALSE]
Tolerant == [hb |-> FALSE, ign |-> TRUE]
TolerantBeat == [hb |-> TRUE, ign |-> TRUE]

BothKinds == {OneShot, Heartbeat}
TolerantKinds == {OneShot, TolerantBeat}
AllKinds == BothKinds \cup {Tolerant, TolerantBeat}

Symmetry == Permutations(Tasks) \cup Permutations(ExitTasks)
=============================================================================
