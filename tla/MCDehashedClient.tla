-------------------------- MODULE MCDehashedClient --------------------------
(* Small instances of DehashedClient for TLC. *)
EXTENDS DehashedClient

CONSTANTS c1, c2, c3
=============================================================================
