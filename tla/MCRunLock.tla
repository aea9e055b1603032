----------------------------- MODULE MCRunLock -----------------------------
(* RunLock with a few processes and inodes.                                *)
EXTENDS RunLock, TLC

Interchangeable == Permutations(Procs) \cup Permutations(Inodes)
=============================================================================
