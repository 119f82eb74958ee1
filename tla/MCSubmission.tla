---------------------------- MODULE MCSubmission ----------------------------
(***************************************************************************)
(* Submission for TLC.  Every assignment of keys and contents to requests  *)
(* is an initial state.  Liveness is checked, so no symmetry is declared.  *)
(***************************************************************************)
EXTENDS Submission, TLC

=============================================================================
