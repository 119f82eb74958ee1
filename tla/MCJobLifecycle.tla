--------------------------- MODULE MCJobLifecycle ---------------------------
(* Instances of JobLifecycle for TLC. *)
EXTENDS JobLifecycle, TLC

\* The workers are interchangeable.
WorkerSymmetry == Permutations(Workers)
=============================================================================
