------------------------------ MODULE MCGates -------------------------------
(* Instances of Gates for TLC. *)
EXTENDS Gates, TLC

=============================================================================
