---------------------------- MODULE MCTaskQueue -----------------------------
(* Small instances of TaskQueue. *)
EXTENDS TaskQueue, TLC

CONSTANTS t1, t2, t3, t4, p1, p2, f1, f2

Symmetry == Permutations(Task) \cup Permutations(Project) \cup Permutations(Feedback)
=============================================================================
