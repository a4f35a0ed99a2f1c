------------------------------ MODULE MCAtRest ------------------------------
(* Small instances of AtRest for TLC. *)
EXTENDS AtRest

\* One query finds a record with sensitive values and one without.
MCPage == [q \in Queries |-> IF q = "alice" THEN {"x", "y"} ELSE {"x"}]
=============================================================================
