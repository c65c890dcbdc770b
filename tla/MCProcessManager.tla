-------------------------- MODULE MCProcessManager --------------------------
(***************************************************************************)
(* Small instances of ProcessManager for TLC.                              *)
(***************************************************************************)
EXTENDS ProcessManager, TLC

\* Handles, pids and requests are interchangeable; used by the safety runs only.
Symmetry == Permutations(Handles) \cup Permutations(Pids) \cup Permutations(Requests)

=============================================================================
