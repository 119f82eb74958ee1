--------------------------- MODULE OutboxContract ---------------------------
(***************************************************************************)
(* What the outbox promises about an event, without relays, locks, retries *)
(* or crashes: at-least-once delivery or a dead letter.  The webhook gets  *)
(* an event only between its acceptance and its settlement; it is called   *)
(* delivered only if the webhook got it; giving it up and accepting its    *)
(* dead letter are one step; a settled event can only be forgotten.        *)
(***************************************************************************)
EXTENDS Naturals

CONSTANT Events

VARIABLES outcome, received

\* The message of an event, and its dead letter.
Message(e) == <<e, FALSE>>
DeadLetter(e) == <<e, TRUE>>

Messages == Events \X BOOLEAN

Init ==
    /\ outcome = [x \in Messages |-> "absent"]
    /\ received = [x \in Messages |-> 0]

Accept(e) ==
    /\ outcome[Message(e)] = "absent"
    /\ outcome' = [outcome EXCEPT ![Message(e)] = "pending"]
    /\ UNCHANGED received

Receive(x) ==
    /\ outcome[x] = "pending"
    /\ received' = [received EXCEPT ![x] = @ + 1]
    /\ UNCHANGED outcome

Deliver(x) ==
    /\ outcome[x] = "pending"
    /\ received[x] > 0
    /\ outcome' = [outcome EXCEPT ![x] = "delivered"]
    /\ UNCHANGED received

GiveUp(e) ==
    /\ outcome[Message(e)] = "pending"
    /\ outcome[DeadLetter(e)] = "absent"
    /\ outcome' = [outcome EXCEPT ![Message(e)] = "failed",
                                  ![DeadLetter(e)] = "pending"]
    /\ UNCHANGED received

\* A dead letter has no dead letter.
GiveUpLetter(e) ==
    /\ outcome[DeadLetter(e)] = "pending"
    /\ outcome' = [outcome EXCEPT ![DeadLetter(e)] = "failed"]
    /\ UNCHANGED received

Forget(x) ==
    /\ outcome[x] \in {"delivered", "failed"}
    /\ outcome' = [outcome EXCEPT ![x] = "purged"]
    /\ UNCHANGED received

Next == \/ \E e \in Events : Accept(e) \/ GiveUp(e) \/ GiveUpLetter(e)
        \/ \E x \in Messages : Receive(x) \/ Deliver(x) \/ Forget(x)

Spec == Init /\ [][Next]_<<outcome, received>>

=============================================================================
