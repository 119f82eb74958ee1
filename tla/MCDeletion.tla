----------------------------- MODULE MCDeletion -----------------------------
(* Instances of Deletion for TLC. *)
EXTENDS Deletion, TLC

=============================================================================
