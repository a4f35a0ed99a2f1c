---------------------------- MODULE MCWorkspace ----------------------------
(* Small instances of Workspace for TLC. *)
EXTENDS Workspace, TLC

CONSTANTS r1, r2, r3

\* The requests are interchangeable.
MCSymmetry == Permutations(Requests)
=============================================================================
