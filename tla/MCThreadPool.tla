---------------------------- MODULE MCThreadPool ----------------------------
(* Instances of the thread pool for TLC. *)
EXTENDS ThreadPool, TLC

(* Workers and jobs are interchangeable in the safety properties. *)
Symmetry == Permutations(Workers) \cup Permutations(Jobs)
=============================================================================
