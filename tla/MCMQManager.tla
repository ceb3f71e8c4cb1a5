----------------------------- MODULE MCMQManager -----------------------------
(* Small instances of MQManager for TLC. *)
EXTENDS MQManager, TLC

CONSTANTS j1, j2, l1

\* Jobs are interchangeable: only safety is checked with this symmetry.
Symmetry == Permutations(Jobs)
=============================================================================
