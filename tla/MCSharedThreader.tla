-------------------------- MODULE MCSharedThreader --------------------------
(* Instances of SharedThreader for TLC. *)
EXTENDS SharedThreader, TLC

CONSTANTS t1, t2, t3, c1, c2

TwoTasks == {t1, t2}
ThreeTasks == {t1, t2, t3}
NoTask == {}
OneTask == {t1}
OneCloser == {c1}
TwoClosers == {c1, c2}

\* Tasks, and closing calls, are interchangeable (not used with liveness).
Symmetry == Permutations(Task) \cup Permutations(Closer)
=============================================================================
