---------------------------- MODULE MCThreadPool ----------------------------
(* Small instances of ThreadPool.                                          *)
EXTENDS ThreadPool, TLC

\* Workers and tasks are interchangeable in the safety properties.
Symmetry == Permutations(Workers) \cup Permutations(Tasks)
=============================================================================
