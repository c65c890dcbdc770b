------------------------- MODULE MCScheduledManager -------------------------
(***************************************************************************)
(* Small instances of ScheduledManager for TLC.                            *)
(***************************************************************************)
EXTENDS ScheduledManager, TLC

\* Job ids are interchangeable; used by the safety runs only.
Symmetry == Permutations(Jobs)

\* Daylight saving ends: the local clock is put back by one.
PutBack == -1

=============================================================================
