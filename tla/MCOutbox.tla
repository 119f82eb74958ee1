------------------------------ MODULE MCOutbox ------------------------------
(***************************************************************************)
(* Outbox for TLC: relays are interchangeable, and so are events, whose    *)
(* order of creation is part of the state.                                 *)
(***************************************************************************)
EXTENDS Outbox, TLC

OutboxSymmetry == Permutations(Events) \cup Permutations(Relays)

=============================================================================
