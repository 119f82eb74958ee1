----------------------------- MODULE MCBeatLock -----------------------------
(* Instances of BeatLock for TLC. *)
EXTENDS BeatLock, TLC

=============================================================================
