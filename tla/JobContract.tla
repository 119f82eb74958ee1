----------------------------- MODULE JobContract -----------------------------
(***************************************************************************)
(* What the conversion service promises about a job, without workers,      *)
(* claims, retries or a reaper: an open job receives one outcome and keeps *)
(* it, a completed job is billed in the same step, a completed or failed   *)
(* job is announced in the same step, and the only later change is that a  *)
(* completed job's output expires.  A cancellation may be announced later, *)
(* and a failure may be followed by a dead letter.                         *)
(***************************************************************************)
EXTENDS Naturals

CONSTANT Jobs

VARIABLES outcome, ledger, outbox

Init ==
    /\ outcome = [j \in Jobs |-> "OPEN"]
    /\ ledger = [j \in Jobs |-> 0]
    /\ outbox = {}

\* The output may expire at once: an organization may keep outputs for 0 hours.
Complete(j) ==
    /\ outcome[j] = "OPEN"
    /\ \E o \in {"DONE", "EXPIRED"} : outcome' = [outcome EXCEPT ![j] = o]
    /\ ledger' = [ledger EXCEPT ![j] = @ + 1]
    /\ outbox' = outbox \cup {<<j, "done">>}

Fail(j) ==
    /\ outcome[j] = "OPEN"
    /\ outcome' = [outcome EXCEPT ![j] = "FAILED"]
    /\ \/ outbox' = outbox \cup {<<j, "failed">>}
       \/ outbox' = outbox \cup {<<j, "failed">>, <<j, "dead_letter">>}
    /\ UNCHANGED ledger

DeadLetter(j) ==
    /\ outcome[j] = "FAILED"
    /\ outbox' = outbox \cup {<<j, "dead_letter">>}
    /\ UNCHANGED <<outcome, ledger>>

Cancel(j) ==
    /\ outcome[j] = "OPEN"
    /\ outcome' = [outcome EXCEPT ![j] = "CANCELLED"]
    /\ \/ outbox' = outbox
       \/ outbox' = outbox \cup {<<j, "cancelled">>}
    /\ UNCHANGED ledger

AnnounceCancel(j) ==
    /\ outcome[j] = "CANCELLED"
    /\ outbox' = outbox \cup {<<j, "cancelled">>}
    /\ UNCHANGED <<outcome, ledger>>

Expire(j) ==
    /\ outcome[j] = "DONE"
    /\ outcome' = [outcome EXCEPT ![j] = "EXPIRED"]
    /\ UNCHANGED <<ledger, outbox>>

Next == \E j \in Jobs : \/ Complete(j) \/ Fail(j) \/ DeadLetter(j)
                        \/ Cancel(j) \/ AnnounceCancel(j) \/ Expire(j)

Spec == Init /\ [][Next]_<<outcome, ledger, outbox>>

=============================================================================
