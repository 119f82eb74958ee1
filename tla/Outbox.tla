------------------------------- MODULE Outbox -------------------------------
(***************************************************************************)
(* The relay of the transactional outbox (apps/audit/services.py): the     *)
(* rows that enqueue_outbox wrote are posted to the webhook with capped    *)
(* retries, dead-lettered when the retries are used up, and purged after   *)
(* their retention window.                                                 *)
(*                                                                         *)
(* Several passes may run at once (PostgreSQL: SELECT FOR UPDATE SKIP      *)
(* LOCKED).  A pass holds one row's lock over the HTTP request and the     *)
(* update that records its result.  A pass that finds delivery switched    *)
(* off or no URL configured changes nothing and is a stutter here.         *)
(***************************************************************************)
EXTENDS Naturals, FiniteSets

CONSTANTS
    Events,         \* idempotency keys of the rows that jobs enqueue
    Relays,         \* processes that run deliver_outbox_events
    NoRow,
    max_attempts,   \* FILECONVERTER_OUTBOX_MAX_ATTEMPTS
    batch_size,
    MaxCrashes      \* bound: passes that die inside their transaction

ASSUME OutboxConstants ==
    /\ IsFiniteSet(Events)
    /\ IsFiniteSet(Relays)
    /\ NoRow \notin Events \X BOOLEAN
    /\ max_attempts \in Nat \ {0}
    /\ batch_size \in Nat \ {0}
    /\ MaxCrashes \in Nat

\* <<e, FALSE>> is the row of e, <<e, TRUE>> its outbox.event.dead_letter row.
Rows == Events \X BOOLEAN

VARIABLES
    state,      \* "absent", "pending", "delivered", "failed", "purged"
    attempts,
    created_at, \* rows in order of creation: 1, 2, ...
    received,   \* how often the webhook got the event
    phase, event, seen,  \* each relay: step, row it locks, attempts it read
    delivered,  \* how many events the current pass delivered
    crashes

table == <<state, attempts, created_at>>
pass  == <<phase, event, seen, delivered>>
vars  == <<table, received, pass, crashes>>

States == {"absent", "pending", "delivered", "failed", "purged"}
Phases == {"idle", "select", "send", "accepted", "refused"}

TypeOK ==
    /\ state \in [Rows -> States]
    /\ attempts \in [Rows -> Nat]
    /\ created_at \in [Rows -> Nat]
    /\ received \in [Rows -> Nat]
    /\ phase \in [Relays -> Phases]
    /\ event \in [Relays -> Rows \cup {NoRow}]
    /\ \A d \in Relays : event[d] = NoRow <=> phase[d] \in {"idle", "select"}
    /\ seen \in [Relays -> Nat]
    /\ delivered \in [Relays -> Nat]
    /\ crashes \in Nat

Init ==
    /\ state = [x \in Rows |-> "absent"]
    /\ attempts = [x \in Rows |-> 0]
    /\ created_at = [x \in Rows |-> 0]
    /\ received = [x \in Rows |-> 0]
    /\ phase = [d \in Relays |-> "idle"]
    /\ event = [d \in Relays |-> NoRow]
    /\ seen = [d \in Relays |-> 0]
    /\ delivered = [d \in Relays |-> 0]
    /\ crashes = 0

-----------------------------------------------------------------------------
Latest == Cardinality({x \in Rows : state[x] # "absent"})

\* enqueue_outbox: get_or_create, called in the transaction of a job's end.
enqueue_outbox(e) ==
    /\ state[<<e, FALSE>>] = "absent"
    /\ state' = [state EXCEPT ![<<e, FALSE>>] = "pending"]
    /\ created_at' = [created_at EXCEPT ![<<e, FALSE>>] = Latest + 1]
    /\ UNCHANGED <<attempts, received, pass, crashes>>

\* Beat starts a pass.
start_pass(d) ==
    /\ phase[d] = "idle"
    /\ phase' = [phase EXCEPT ![d] = "select"]
    /\ UNCHANGED <<table, received, event, seen, delivered, crashes>>

\* The transaction ends: the row is unlocked and the pass goes on or ends.
Release(d, next) ==
    /\ phase' = [phase EXCEPT ![d] = next]
    /\ event' = [event EXCEPT ![d] = NoRow]
    /\ seen' = [seen EXCEPT ![d] = 0]

\* Mutant: plain SELECT, no row locks.
NothingLocked(x) == FALSE

Locked(x) == \E d \in Relays : event[d] = x

Pending == {x \in Rows : /\ state[x] = "pending"
                         /\ attempts[x] < max_attempts
                         /\ ~Locked(x)}

\* Dead letters first, then the order of creation.
Precedes(x, y) == \/ x[2] /\ ~y[2]
                  \/ x[2] = y[2] /\ created_at[x] < created_at[y]

select_event(d) ==
    /\ phase[d] = "select"
    /\ delivered[d] < batch_size
    /\ \E x \in Pending :
          /\ \A y \in Pending \ {x} : Precedes(x, y)
          /\ event' = [event EXCEPT ![d] = x]
          /\ seen' = [seen EXCEPT ![d] = attempts[x]]
    /\ phase' = [phase EXCEPT ![d] = "send"]
    /\ UNCHANGED <<table, received, delivered, crashes>>

\* Nothing is left to deliver, or the batch is complete.
end_pass(d) ==
    /\ phase[d] = "select"
    /\ delivered[d] >= batch_size \/ Pending = {}
    /\ delivered' = [delivered EXCEPT ![d] = 0]
    /\ Release(d, "idle")
    /\ UNCHANGED <<table, received, crashes>>

\* Mutant: a redirect is followed to a page that answers 200.
RedirectFollowed ==
    {<<TRUE, "accepted">>, <<FALSE, "refused">>, <<FALSE, "accepted">>}

\* Whether the webhook got the event, and what _deliver_one makes of it: the
\* answer to a request that was received may be an error, or be lost.
Responses == {<<TRUE, "accepted">>, <<TRUE, "refused">>, <<FALSE, "refused">>}

deliver_one(d) ==
    /\ phase[d] = "send"
    /\ \E r \in Responses :
          /\ received' = IF r[1] THEN [received EXCEPT ![event[d]] = @ + 1]
                                 ELSE received
          /\ phase' = [phase EXCEPT ![d] = r[2]]
    /\ UNCHANGED <<table, event, seen, delivered, crashes>>

\* delivered_at is set and the transaction commits.
record_delivery(d) ==
    /\ phase[d] = "accepted"
    /\ state' = [state EXCEPT ![event[d]] = "delivered"]
    /\ attempts' = [attempts EXCEPT ![event[d]] = seen[d] + 1]
    /\ delivered' = [delivered EXCEPT ![d] = @ + 1]
    /\ Release(d, "select")
    /\ UNCHANGED <<created_at, received, crashes>>

\* Mutants: the last attempt does not fail the row; a failure is not counted.
ExhaustedLate(d) == seen[d] + 1 > max_attempts

NotCounted(d) == seen[d]

new_attempts(d) == seen[d] + 1

Exhausted(d) == seen[d] + 1 >= max_attempts

\* Mutant: the test for recursion is inverted.
DeadLettersOnly(x) == x[2]

\* _emit_outbox_dead_letter: a dead letter has no dead letter.
NeedsDeadLetter(x) == ~x[2]

Letter(x) == <<x[1], TRUE>>

\* The failed attempt is recorded, a dead letter written if it was the last
\* one, and the pass ends.
record_failure(d) ==
    LET x == event[d]
    IN  /\ phase[d] = "refused"
        /\ attempts' = [attempts EXCEPT ![x] = new_attempts(d)]
        /\ \/ /\ ~Exhausted(d)
              /\ UNCHANGED <<state, created_at>>
           \/ /\ Exhausted(d)
              /\ NeedsDeadLetter(x)
              /\ state' = [state EXCEPT ![x] = "failed", ![Letter(x)] = "pending"]
              /\ created_at' = [created_at EXCEPT ![Letter(x)] = Latest + 1]
           \/ /\ Exhausted(d)
              /\ ~NeedsDeadLetter(x)
              /\ state' = [state EXCEPT ![x] = "failed"]
              /\ UNCHANGED created_at
        /\ delivered' = [delivered EXCEPT ![d] = 0]
        /\ Release(d, "idle")
        /\ UNCHANGED <<received, crashes>>

\* The process dies inside the transaction, which is rolled back.
RelayDies(d) ==
    /\ phase[d] \in {"send", "accepted", "refused"}
    /\ crashes < MaxCrashes
    /\ crashes' = crashes + 1
    /\ delivered' = [delivered EXCEPT ![d] = 0]
    /\ Release(d, "idle")
    /\ UNCHANGED <<table, received>>

\* purge_delivered_outbox_events and purge_failed_outbox_events
Purgeable(x) == state[x] \in {"delivered", "failed"}

purge_outbox(x) ==
    /\ Purgeable(x)
    /\ state' = [state EXCEPT ![x] = "purged"]
    /\ UNCHANGED <<attempts, created_at, received, pass, crashes>>

RelayStep(d) ==
    \/ start_pass(d) \/ select_event(d) \/ end_pass(d) \/ deliver_one(d)
    \/ record_delivery(d) \/ record_failure(d)

Next ==
    \/ \E e \in Events : enqueue_outbox(e)
    \/ \E d \in Relays : RelayStep(d) \/ RelayDies(d)
    \/ \E x \in Rows : purge_outbox(x)

Spec == Init /\ [][Next]_vars

\* Beat keeps starting passes, and a pass that is not killed goes on.
FairSpec == Spec /\ \A d \in Relays : WF_vars(RelayStep(d))

-----------------------------------------------------------------------------
(* Properties.                                                             *)

\* A row is marked delivered only if the webhook got it at least once.
DeliveredWasReceived ==
    \A x \in Rows : state[x] = "delivered" => received[x] > 0

Posting(x) == {d \in Relays : event[d] = x /\ phase[d] \in {"accepted", "refused"}}

\* Duplicates come only from lost answers and crashes: every time the webhook
\* got an event is accounted for by a recorded attempt, by the request that is
\* being recorded, or by a pass that died.
ReceiptsAccounted ==
    \A x \in Rows : received[x] <= attempts[x] + Cardinality(Posting(x)) + crashes

\* A row that is still undelivered can be selected again: no row is left
\* pending with its attempts used up, nor failed with attempts left.
NoLimbo ==
    \A x \in Rows : /\ state[x] = "pending" => attempts[x] < max_attempts
                    /\ state[x] = "failed" => attempts[x] = max_attempts

\* An event has a dead letter if it failed and only then: never when it was
\* delivered, and not twice.
DeadLetterIffFailed ==
    \A e \in Events :
        /\ state[<<e, FALSE>>] = "failed" => state[<<e, TRUE>>] # "absent"
        /\ state[<<e, FALSE>>] \in {"absent", "pending", "delivered"}
              => state[<<e, TRUE>>] = "absent"

Contract == INSTANCE OutboxContract WITH outcome <- state

\* The relay, with its locks, retries, batches and crashes, implements the
\* OutboxContract specification: in particular a recorded delivery is final,
\* although another pass may have read the row before it.
DeliveryContract == Contract!Spec

\* Every event is delivered or declared failed, dead letters included, whatever
\* the webhook answers: a failing event does not block the ones behind it.
EveryEventSettles ==
    \A x \in Rows : state[x] = "pending" ~> state[x] \in {"delivered", "failed"}

-----------------------------------------------------------------------------
(* The inductive invariant behind the safety properties.                   *)

\* A relay inside its transaction is the only one to hold its row, which is
\* pending and has the attempts the relay read.  A row that does not exist has
\* no attempts.
Holding ==
    /\ \A x \in Rows : state[x] = "absent" => attempts[x] = 0
    /\ \A d \in Relays : phase[d] \in {"send", "accepted", "refused"} =>
          /\ state[event[d]] = "pending"
          /\ seen[d] = attempts[event[d]]
    /\ \A c, d \in Relays : event[c] = event[d] /\ event[c] # NoRow => c = d

AcceptedWasReceived ==
    \A d \in Relays : phase[d] = "accepted" => received[event[d]] > 0

\* A receipt beyond the recorded attempts is the one being recorded, or was
\* lost with a crash.
Receipts ==
    \A x \in Rows :
        \/ received[x] <= attempts[x] + crashes
        \/ /\ received[x] = attempts[x] + crashes + 1
           /\ \E d \in Relays : d \in Posting(x)

OutboxInv ==
    /\ TypeOK
    /\ Holding
    /\ AcceptedWasReceived
    /\ DeliveredWasReceived
    /\ Receipts
    /\ NoLimbo
    /\ DeadLetterIffFailed

=============================================================================
