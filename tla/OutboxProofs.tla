---------------------------- MODULE OutboxProofs ----------------------------
(***************************************************************************)
(* Proofs about Outbox, for any finite sets of events and relays, any      *)
(* attempt limit and batch size, and any number of crashes.                *)
(*                                                                         *)
(* Everything rests on Holding: between the select and the commit a relay  *)
(* is alone with its row, which keeps the state and the attempts the relay *)
(* read.  With it every step of a relay is a step of OutboxContract or     *)
(* leaves what the contract speaks of alone.                               *)
(***************************************************************************)
EXTENDS Outbox, FiniteSetTheorems, TLAPS

\* The two rows of an event, and nothing else, are rows.
LEMMA RowShape ==
  /\ \A e \in Events, b \in BOOLEAN : <<e, b>> \in Rows
  /\ \A x \in Rows : x[1] \in Events /\ x[2] \in BOOLEAN
  /\ \A x \in Rows : x = <<x[1], x[2]>>
  /\ \A x \in Rows : Letter(x) \in Rows
<1>1. \A e \in Events, b \in BOOLEAN : <<e, b>> \in Rows
  BY Zenon DEF Rows
<1>2. \A x \in Rows : x[1] \in Events /\ x[2] \in BOOLEAN
  BY DEF Rows
<1>3. \A x \in Rows : x = <<x[1], x[2]>>
  BY SMT DEF Rows
<1>4. \A x \in Rows : Letter(x) \in Rows
  BY <1>1, <1>2, Zenon DEF Letter
<1> QED
  BY <1>1, <1>2, <1>3, <1>4

\* An event's own row and its dead letter are different rows.
LEMMA LetterDiffers ==
  ASSUME NEW x \in Rows, NEW e \in Events
  PROVE  /\ <<e, FALSE>> # <<e, TRUE>>
         /\ x = <<e, FALSE>> => ~x[2] /\ Letter(x) = <<e, TRUE>>
         /\ ~x[2] => x = <<x[1], FALSE>> /\ x # Letter(x)
         /\ Letter(x) # <<e, FALSE>>
         /\ ~x[2] /\ Letter(x) = <<e, TRUE>> => x = <<e, FALSE>>
<1>1. x[1] \in Events /\ x[2] \in BOOLEAN /\ x = <<x[1], x[2]>>
  BY RowShape
<1>2. Letter(x)[1] = x[1] /\ Letter(x)[2] = TRUE
  BY DEF Letter
<1>3. <<e, FALSE>>[2] = FALSE /\ <<e, TRUE>>[2] = TRUE /\ <<e, TRUE>>[1] = e
  OBVIOUS
<1>4. ~x[2] => x = <<x[1], FALSE>>
  BY <1>1
<1>5. x = <<e, FALSE>> => x[1] = e /\ ~x[2]
  BY <1>3
<1>6. ~x[2] => x # Letter(x)
  BY <1>2
<1>7. Letter(x) # <<e, FALSE>>
  BY <1>2, <1>3
<1>8. Letter(x) = <<e, TRUE>> => x[1] = e
  BY <1>2, <1>3
<1>9. x[1] = e => Letter(x) = <<e, TRUE>>
  BY DEF Letter
<1> QED
  BY <1>3, <1>4, <1>5, <1>6, <1>7, <1>8, <1>9

\* The number of rows is a natural number.
LEMMA LatestType == Latest \in Nat
<1>1. IsFiniteSet(BOOLEAN)
  <2>1. IsFiniteSet({TRUE})
    BY FS_Singleton, Zenon
  <2>2. IsFiniteSet({TRUE} \cup {FALSE})
    BY <2>1, FS_AddElement, Zenon
  <2>3. BOOLEAN = {TRUE} \cup {FALSE}
    OBVIOUS
  <2> QED
    BY <2>2, <2>3, Zenon
<1>2. IsFiniteSet(Rows)
  BY <1>1, OutboxConstants, FS_Product DEF Rows
<1> QED
  BY <1>2, FS_Subset, FS_CardinalityType DEF Latest

\* What enqueue_outbox does, in terms of the row it inserts.
LEMMA EnqueueEffect ==
  ASSUME NEW e \in Events, enqueue_outbox(e)
  PROVE  \E x \in Rows :
            /\ x = <<e, FALSE>>
            /\ state[x] = "absent"
            /\ state' = [state EXCEPT ![x] = "pending"]
            /\ created_at' = [created_at EXCEPT ![x] = Latest + 1]
            /\ UNCHANGED <<attempts, received, pass, crashes>>
  BY RowShape, Zenon DEF enqueue_outbox

\* What record_failure does, in terms of the failed row and its dead letter.
LEMMA FailureEffect ==
  ASSUME TypeOK, NEW d \in Relays, record_failure(d)
  PROVE  \E x, y \in Rows :
            /\ x = event[d]
            /\ y = Letter(x)
            /\ phase[d] = "refused"
            /\ attempts' = [attempts EXCEPT ![x] = seen[d] + 1]
            /\ \/ seen[d] + 1 < max_attempts /\ UNCHANGED <<state, created_at>>
               \/ /\ seen[d] + 1 >= max_attempts
                  /\ ~x[2]
                  /\ state' = [state EXCEPT ![x] = "failed", ![y] = "pending"]
                  /\ created_at' = [created_at EXCEPT ![y] = Latest + 1]
               \/ /\ seen[d] + 1 >= max_attempts
                  /\ x[2]
                  /\ state' = [state EXCEPT ![x] = "failed"]
                  /\ UNCHANGED created_at
            /\ delivered' = [delivered EXCEPT ![d] = 0]
            /\ Release(d, "idle")
            /\ UNCHANGED <<received, crashes>>
<1>1. event[d] \in Rows /\ Letter(event[d]) \in Rows
  <2>1. phase[d] = "refused"
    BY DEF record_failure
  <2> QED
    BY <2>1, RowShape DEF TypeOK
<1>2. ~Exhausted(d) <=> seen[d] + 1 < max_attempts
  BY OutboxConstants DEF Exhausted, TypeOK
<1>3. Exhausted(d) <=> seen[d] + 1 >= max_attempts
  BY DEF Exhausted
<1> QED
  BY <1>1, <1>2, <1>3, Zenon DEF record_failure, new_attempts, NeedsDeadLetter

\* What deliver_one does: the webhook may get the event whatever the answer,
\* and an accepted event was received.
LEMMA DeliverEffect ==
  ASSUME TypeOK, NEW d \in Relays, deliver_one(d)
  PROVE  \E x \in Rows, a \in {"accepted", "refused"} :
            /\ x = event[d]
            /\ phase[d] = "send"
            /\ phase' = [phase EXCEPT ![d] = a]
            /\ \/ received' = [received EXCEPT ![x] = @ + 1]
               \/ a = "refused" /\ received' = received
            /\ UNCHANGED <<table, event, seen, delivered, crashes>>
<1>1. phase[d] = "send" /\ event[d] \in Rows
  BY DEF deliver_one, TypeOK
<1>2. PICK r \in Responses :
        /\ received' = IF r[1] THEN [received EXCEPT ![event[d]] = @ + 1] ELSE received
        /\ phase' = [phase EXCEPT ![d] = r[2]]
  BY Zenon DEF deliver_one
<1>3. r[2] \in {"accepted", "refused"} /\ (r[1] \/ r[2] = "refused")
  <2>1. r = <<TRUE, "accepted">> \/ r = <<TRUE, "refused">> \/ r = <<FALSE, "refused">>
    BY DEF Responses
  <2>2. CASE r = <<TRUE, "accepted">>
    BY <2>2
  <2>3. CASE r = <<TRUE, "refused">>
    BY <2>3
  <2>4. CASE r = <<FALSE, "refused">>
    BY <2>4
  <2> QED
    BY <2>1, <2>2, <2>3, <2>4
<1>4. UNCHANGED <<table, event, seen, delivered, crashes>>
  BY DEF deliver_one
<1>5. CASE r[1]
  BY <1>1, <1>2, <1>3, <1>4, <1>5, Zenon
<1>6. CASE ~r[1]
  BY <1>1, <1>2, <1>3, <1>4, <1>6, Zenon
<1> QED
  BY <1>5, <1>6

\* Types are preserved.
LEMMA TypeStep ==
  ASSUME TypeOK, [Next]_vars
  PROVE  TypeOK'
<1> USE OutboxConstants DEF TypeOK, States, Phases, Release, table, pass
<1>1. ASSUME NEW e \in Events, enqueue_outbox(e) PROVE TypeOK'
  <2>1. PICK x \in Rows :
          /\ state[x] = "absent"
          /\ state' = [state EXCEPT ![x] = "pending"]
          /\ created_at' = [created_at EXCEPT ![x] = Latest + 1]
          /\ UNCHANGED <<attempts, received, pass, crashes>>
    BY <1>1, EnqueueEffect
  <2> QED
    BY <2>1, LatestType
<1>2. ASSUME NEW d \in Relays, start_pass(d) PROVE TypeOK'
  BY <1>2 DEF start_pass
<1>3. ASSUME NEW d \in Relays, select_event(d) PROVE TypeOK'
  BY <1>3 DEF select_event, Pending, Locked
<1>4. ASSUME NEW d \in Relays, end_pass(d) PROVE TypeOK'
  BY <1>4 DEF end_pass
<1>5. ASSUME NEW d \in Relays, deliver_one(d) PROVE TypeOK'
  <2>1. PICK x \in Rows, a \in {"accepted", "refused"} :
          /\ x = event[d]
          /\ phase[d] = "send"
          /\ phase' = [phase EXCEPT ![d] = a]
          /\ \/ received' = [received EXCEPT ![x] = @ + 1]
             \/ a = "refused" /\ received' = received
          /\ UNCHANGED <<table, event, seen, delivered, crashes>>
    BY <1>5, DeliverEffect
  <2> QED
    BY <2>1
<1>6. ASSUME NEW d \in Relays, record_delivery(d) PROVE TypeOK'
  BY <1>6 DEF record_delivery
<1>7. ASSUME NEW d \in Relays, record_failure(d) PROVE TypeOK'
  <2>1. PICK x, y \in Rows :
          /\ x = event[d]
          /\ y = Letter(x)
          /\ phase[d] = "refused"
          /\ attempts' = [attempts EXCEPT ![x] = seen[d] + 1]
          /\ \/ seen[d] + 1 < max_attempts /\ UNCHANGED <<state, created_at>>
             \/ /\ seen[d] + 1 >= max_attempts
                /\ ~x[2]
                /\ state' = [state EXCEPT ![x] = "failed", ![y] = "pending"]
                /\ created_at' = [created_at EXCEPT ![y] = Latest + 1]
             \/ /\ seen[d] + 1 >= max_attempts
                /\ x[2]
                /\ state' = [state EXCEPT ![x] = "failed"]
                /\ UNCHANGED created_at
          /\ delivered' = [delivered EXCEPT ![d] = 0]
          /\ Release(d, "idle")
          /\ UNCHANGED <<received, crashes>>
    BY <1>7, FailureEffect
  <2> QED
    BY <2>1, LatestType
<1>8. ASSUME NEW d \in Relays, RelayDies(d) PROVE TypeOK'
  BY <1>8 DEF RelayDies
<1>9. ASSUME NEW x \in Rows, purge_outbox(x) PROVE TypeOK'
  BY <1>9 DEF purge_outbox, Purgeable
<1>10. CASE UNCHANGED vars
  BY <1>10 DEF vars
<1> HIDE DEF TypeOK, States, Phases, Release, table, pass
<1> QED
  BY <1>1, <1>2, <1>3, <1>4, <1>5, <1>6, <1>7, <1>8, <1>9, <1>10 DEF Next, RelayStep

\* A relay is alone with the row it locked, and the row does not change.
LEMMA HoldingStep ==
  ASSUME TypeOK, Holding, DeadLetterIffFailed, [Next]_vars
  PROVE  Holding'
<1> USE OutboxConstants DEF TypeOK, Holding, Release, table, pass
<1>1. ASSUME NEW e \in Events, enqueue_outbox(e) PROVE Holding'
  <2>1. PICK x \in Rows :
          /\ state[x] = "absent"
          /\ state' = [state EXCEPT ![x] = "pending"]
          /\ created_at' = [created_at EXCEPT ![x] = Latest + 1]
          /\ UNCHANGED <<attempts, received, pass, crashes>>
    BY <1>1, EnqueueEffect
  <2> QED
    BY <2>1
<1>2. ASSUME NEW d \in Relays, start_pass(d) PROVE Holding'
  BY <1>2 DEF start_pass
<1>3. ASSUME NEW d \in Relays, select_event(d) PROVE Holding'
  BY <1>3 DEF select_event, Pending, Locked
<1>4. ASSUME NEW d \in Relays, end_pass(d) PROVE Holding'
  BY <1>4 DEF end_pass
<1>5. ASSUME NEW d \in Relays, deliver_one(d) PROVE Holding'
  <2>1. PICK x \in Rows, a \in {"accepted", "refused"} :
          /\ x = event[d]
          /\ phase[d] = "send"
          /\ phase' = [phase EXCEPT ![d] = a]
          /\ \/ received' = [received EXCEPT ![x] = @ + 1]
             \/ a = "refused" /\ received' = received
          /\ UNCHANGED <<table, event, seen, delivered, crashes>>
    BY <1>5, DeliverEffect
  <2> QED
    BY <2>1
<1>6. ASSUME NEW d \in Relays, record_delivery(d) PROVE Holding'
  BY <1>6 DEF record_delivery
<1>7. ASSUME NEW d \in Relays, record_failure(d) PROVE Holding'
  <2>1. PICK x, y \in Rows :
          /\ x = event[d]
          /\ y = Letter(x)
          /\ phase[d] = "refused"
          /\ attempts' = [attempts EXCEPT ![x] = seen[d] + 1]
          /\ \/ seen[d] + 1 < max_attempts /\ UNCHANGED <<state, created_at>>
             \/ /\ seen[d] + 1 >= max_attempts
                /\ ~x[2]
                /\ state' = [state EXCEPT ![x] = "failed", ![y] = "pending"]
                /\ created_at' = [created_at EXCEPT ![y] = Latest + 1]
             \/ /\ seen[d] + 1 >= max_attempts
                /\ x[2]
                /\ state' = [state EXCEPT ![x] = "failed"]
                /\ UNCHANGED created_at
          /\ delivered' = [delivered EXCEPT ![d] = 0]
          /\ Release(d, "idle")
          /\ UNCHANGED <<received, crashes>>
    BY <1>7, FailureEffect
  <2>2. ~x[2] => x # y /\ state[y] = "absent"
    <3>1. x[1] \in Events /\ state[x] = "pending"
      BY <2>1, RowShape
    <3>2. ~x[2] => x = <<x[1], FALSE>> /\ x # y
      BY <2>1, <3>1, LetterDiffers
    <3> QED
      BY <2>1, <3>1, <3>2, Zenon DEF Letter, DeadLetterIffFailed
  <2> QED
    BY <2>1, <2>2
<1>8. ASSUME NEW d \in Relays, RelayDies(d) PROVE Holding'
  BY <1>8 DEF RelayDies
<1>9. ASSUME NEW x \in Rows, purge_outbox(x) PROVE Holding'
  BY <1>9 DEF purge_outbox, Purgeable
<1>10. CASE UNCHANGED vars
  BY <1>10 DEF vars
<1> HIDE DEF TypeOK, Holding, Release, table, pass
<1> QED
  BY <1>1, <1>2, <1>3, <1>4, <1>5, <1>6, <1>7, <1>8, <1>9, <1>10 DEF Next, RelayStep

\* The attempts of a row agree with its state.
LEMMA LimboStep ==
  ASSUME TypeOK, Holding, NoLimbo, DeadLetterIffFailed, [Next]_vars
  PROVE  NoLimbo'
<1> USE OutboxConstants DEF TypeOK, Holding, NoLimbo, Release, table, pass
<1>1. ASSUME NEW e \in Events, enqueue_outbox(e) PROVE NoLimbo'
  <2>1. PICK x \in Rows :
          /\ state[x] = "absent"
          /\ state' = [state EXCEPT ![x] = "pending"]
          /\ created_at' = [created_at EXCEPT ![x] = Latest + 1]
          /\ UNCHANGED <<attempts, received, pass, crashes>>
    BY <1>1, EnqueueEffect
  <2> QED
    BY <2>1
<1>2. ASSUME NEW d \in Relays, start_pass(d) PROVE NoLimbo'
  BY <1>2 DEF start_pass
<1>3. ASSUME NEW d \in Relays, select_event(d) PROVE NoLimbo'
  BY <1>3 DEF select_event, Pending, Locked
<1>4. ASSUME NEW d \in Relays, end_pass(d) PROVE NoLimbo'
  BY <1>4 DEF end_pass
<1>5. ASSUME NEW d \in Relays, deliver_one(d) PROVE NoLimbo'
  <2>1. PICK x \in Rows, a \in {"accepted", "refused"} :
          /\ x = event[d]
          /\ phase[d] = "send"
          /\ phase' = [phase EXCEPT ![d] = a]
          /\ \/ received' = [received EXCEPT ![x] = @ + 1]
             \/ a = "refused" /\ received' = received
          /\ UNCHANGED <<table, event, seen, delivered, crashes>>
    BY <1>5, DeliverEffect
  <2> QED
    BY <2>1
<1>6. ASSUME NEW d \in Relays, record_delivery(d) PROVE NoLimbo'
  BY <1>6 DEF record_delivery
<1>7. ASSUME NEW d \in Relays, record_failure(d) PROVE NoLimbo'
  <2>1. PICK x, y \in Rows :
          /\ x = event[d]
          /\ y = Letter(x)
          /\ phase[d] = "refused"
          /\ attempts' = [attempts EXCEPT ![x] = seen[d] + 1]
          /\ \/ seen[d] + 1 < max_attempts /\ UNCHANGED <<state, created_at>>
             \/ /\ seen[d] + 1 >= max_attempts
                /\ ~x[2]
                /\ state' = [state EXCEPT ![x] = "failed", ![y] = "pending"]
                /\ created_at' = [created_at EXCEPT ![y] = Latest + 1]
             \/ /\ seen[d] + 1 >= max_attempts
                /\ x[2]
                /\ state' = [state EXCEPT ![x] = "failed"]
                /\ UNCHANGED created_at
          /\ delivered' = [delivered EXCEPT ![d] = 0]
          /\ Release(d, "idle")
          /\ UNCHANGED <<received, crashes>>
    BY <1>7, FailureEffect
  <2>2. ~x[2] => x # y /\ state[y] = "absent"
    <3>1. x[1] \in Events /\ state[x] = "pending"
      BY <2>1, RowShape
    <3>2. ~x[2] => x = <<x[1], FALSE>> /\ x # y
      BY <2>1, <3>1, LetterDiffers
    <3> QED
      BY <2>1, <3>1, <3>2, Zenon DEF Letter, DeadLetterIffFailed
  <2> QED
    BY <2>1, <2>2
<1>8. ASSUME NEW d \in Relays, RelayDies(d) PROVE NoLimbo'
  BY <1>8 DEF RelayDies
<1>9. ASSUME NEW x \in Rows, purge_outbox(x) PROVE NoLimbo'
  BY <1>9 DEF purge_outbox, Purgeable
<1>10. CASE UNCHANGED vars
  BY <1>10 DEF vars
<1> HIDE DEF TypeOK, Holding, NoLimbo, Release, table, pass
<1> QED
  BY <1>1, <1>2, <1>3, <1>4, <1>5, <1>6, <1>7, <1>8, <1>9, <1>10 DEF Next, RelayStep

\* A dead letter is written with the failure it reports, and only then.
LEMMA DeadLetterStep ==
  ASSUME TypeOK, Holding, DeadLetterIffFailed, [Next]_vars
  PROVE  DeadLetterIffFailed'
<1> USE OutboxConstants DEF TypeOK, Holding, DeadLetterIffFailed, Release, table, pass
<1>1. ASSUME NEW e \in Events, enqueue_outbox(e) PROVE DeadLetterIffFailed'
  <2>1. PICK x \in Rows :
          /\ x = <<e, FALSE>>
          /\ state[x] = "absent"
          /\ state' = [state EXCEPT ![x] = "pending"]
          /\ created_at' = [created_at EXCEPT ![x] = Latest + 1]
          /\ UNCHANGED <<attempts, received, pass, crashes>>
    BY <1>1, EnqueueEffect
  <2> SUFFICES ASSUME NEW f \in Events
               PROVE  /\ state'[<<f, FALSE>>] = "failed" => state'[<<f, TRUE>>] # "absent"
                      /\ state'[<<f, FALSE>>] \in {"absent", "pending", "delivered"}
                            => state'[<<f, TRUE>>] = "absent"
    BY DEF DeadLetterIffFailed
  <2>2. PICK u, v \in Rows :
          /\ u = <<f, FALSE>>
          /\ v = <<f, TRUE>>
          /\ u # v
          /\ state[u] = "failed" => state[v] # "absent"
          /\ state[u] \in {"absent", "pending", "delivered"} => state[v] = "absent"
    BY RowShape, LetterDiffers, Zenon DEF DeadLetterIffFailed
  <2>3. x # v /\ u # v /\ (x = u \/ state'[u] = state[u])
    BY <2>1, <2>2, LetterDiffers
  <2>4. state[u] = "absent" => state[v] = "absent"
    BY <2>2
  <2> QED
    BY <2>1, <2>2, <2>3, <2>4
<1>2. ASSUME NEW d \in Relays, start_pass(d) PROVE DeadLetterIffFailed'
  BY <1>2 DEF start_pass
<1>3. ASSUME NEW d \in Relays, select_event(d) PROVE DeadLetterIffFailed'
  BY <1>3 DEF select_event, Pending, Locked
<1>4. ASSUME NEW d \in Relays, end_pass(d) PROVE DeadLetterIffFailed'
  BY <1>4 DEF end_pass
<1>5. ASSUME NEW d \in Relays, deliver_one(d) PROVE DeadLetterIffFailed'
  <2>1. PICK x \in Rows, a \in {"accepted", "refused"} :
          /\ x = event[d]
          /\ phase[d] = "send"
          /\ phase' = [phase EXCEPT ![d] = a]
          /\ \/ received' = [received EXCEPT ![x] = @ + 1]
             \/ a = "refused" /\ received' = received
          /\ UNCHANGED <<table, event, seen, delivered, crashes>>
    BY <1>5, DeliverEffect
  <2> QED
    BY <2>1
<1>6. ASSUME NEW d \in Relays, record_delivery(d) PROVE DeadLetterIffFailed'
  <2> SUFFICES ASSUME NEW f \in Events
               PROVE  /\ state'[<<f, FALSE>>] = "failed" => state'[<<f, TRUE>>] # "absent"
                      /\ state'[<<f, FALSE>>] \in {"absent", "pending", "delivered"}
                            => state'[<<f, TRUE>>] = "absent"
    BY DEF DeadLetterIffFailed
  <2>1. PICK u, v \in Rows :
          /\ u = <<f, FALSE>>
          /\ v = <<f, TRUE>>
          /\ u # v
          /\ state[u] = "failed" => state[v] # "absent"
          /\ state[u] \in {"absent", "pending", "delivered"} => state[v] = "absent"
    BY RowShape, LetterDiffers, Zenon DEF DeadLetterIffFailed
  <2>2. event[d] \in Rows /\ state[event[d]] = "pending"
    BY <1>6 DEF record_delivery
  <2>3. PICK x \in Rows :
          state[x] = "pending" /\ state' = [state EXCEPT ![x] = "delivered"]
    BY <1>6, <2>2 DEF record_delivery
  <2>4. /\ state'[u] = "failed" => state'[v] # "absent"
        /\ state'[u] \in {"absent", "pending", "delivered"} => state'[v] = "absent"
    <3>1. state \in [Rows -> States]
      OBVIOUS
    <3> HIDE DEF TypeOK, Holding, DeadLetterIffFailed
    <3>2. /\ state'[u] = IF x = u THEN "delivered" ELSE state[u]
          /\ state'[v] = IF x = v THEN "delivered" ELSE state[v]
      BY <2>3, <3>1
    <3>3. CASE x = u
      <4>1. state[v] = "absent" /\ state'[u] = "delivered" /\ state'[v] = state[v]
        BY <2>1, <2>3, <3>2, <3>3, Zenon
      <4> QED
        BY <4>1
    <3>4. CASE x = v
      <4>1. state[v] # "absent"
        BY <2>3, <3>4
      <4> QED
        BY <2>1, <3>2, <3>4, <4>1, Zenon
    <3>5. CASE x # u /\ x # v
      BY <2>1, <3>2, <3>5, Zenon
    <3> QED
      BY <3>3, <3>4, <3>5
  <2> QED
    BY <2>1, <2>4, Zenon
<1>7. ASSUME NEW d \in Relays, record_failure(d) PROVE DeadLetterIffFailed'
  <2>1. PICK x, y \in Rows :
          /\ x = event[d]
          /\ y = Letter(x)
          /\ phase[d] = "refused"
          /\ attempts' = [attempts EXCEPT ![x] = seen[d] + 1]
          /\ \/ seen[d] + 1 < max_attempts /\ UNCHANGED <<state, created_at>>
             \/ /\ seen[d] + 1 >= max_attempts
                /\ ~x[2]
                /\ state' = [state EXCEPT ![x] = "failed", ![y] = "pending"]
                /\ created_at' = [created_at EXCEPT ![y] = Latest + 1]
             \/ /\ seen[d] + 1 >= max_attempts
                /\ x[2]
                /\ state' = [state EXCEPT ![x] = "failed"]
                /\ UNCHANGED created_at
          /\ delivered' = [delivered EXCEPT ![d] = 0]
          /\ Release(d, "idle")
          /\ UNCHANGED <<received, crashes>>
    BY <1>7, FailureEffect
  <2> SUFFICES ASSUME NEW f \in Events
               PROVE  /\ state'[<<f, FALSE>>] = "failed" => state'[<<f, TRUE>>] # "absent"
                      /\ state'[<<f, FALSE>>] \in {"absent", "pending", "delivered"}
                            => state'[<<f, TRUE>>] = "absent"
    BY DEF DeadLetterIffFailed
  <2>2. PICK u, v \in Rows :
          /\ u = <<f, FALSE>>
          /\ v = <<f, TRUE>>
          /\ u # v
          /\ state[u] = "failed" => state[v] # "absent"
          /\ state[u] \in {"absent", "pending", "delivered"} => state[v] = "absent"
    BY RowShape, LetterDiffers, Zenon DEF DeadLetterIffFailed
  <2>3. state[x] = "pending"
    BY <2>1
  <2>4. /\ x[2] => x # u
        /\ x = u => y = v
        /\ y # u
        /\ ~x[2] => x # y
        /\ ~x[2] /\ x # u => y # v
    BY <2>1, <2>2, LetterDiffers
  <2>5. /\ state'[u] = "failed" => state'[v] # "absent"
        /\ state'[u] \in {"absent", "pending", "delivered"} => state'[v] = "absent"
    <3>1. state \in [Rows -> States]
      OBVIOUS
    <3> HIDE DEF TypeOK, Holding, DeadLetterIffFailed
    <3>2. CASE UNCHANGED state
      BY <2>2, <3>2
    <3>3. CASE ~x[2] /\ state' = [state EXCEPT ![x] = "failed", ![y] = "pending"]
      BY <2>2, <2>3, <2>4, <3>1, <3>3
    <3>4. CASE x[2] /\ state' = [state EXCEPT ![x] = "failed"]
      BY <2>2, <2>3, <2>4, <3>1, <3>4
    <3> QED
      BY <2>1, <3>2, <3>3, <3>4, Zenon
  <2> QED
    BY <2>2, <2>5, Zenon
<1>8. ASSUME NEW d \in Relays, RelayDies(d) PROVE DeadLetterIffFailed'
  BY <1>8 DEF RelayDies
<1>9. ASSUME NEW x \in Rows, purge_outbox(x) PROVE DeadLetterIffFailed'
  <2> SUFFICES ASSUME NEW f \in Events
               PROVE  /\ state'[<<f, FALSE>>] = "failed" => state'[<<f, TRUE>>] # "absent"
                      /\ state'[<<f, FALSE>>] \in {"absent", "pending", "delivered"}
                            => state'[<<f, TRUE>>] = "absent"
    BY DEF DeadLetterIffFailed
  <2>1. PICK u, v \in Rows :
          /\ u = <<f, FALSE>>
          /\ v = <<f, TRUE>>
          /\ u # v
          /\ state[u] = "failed" => state[v] # "absent"
          /\ state[u] \in {"absent", "pending", "delivered"} => state[v] = "absent"
    BY RowShape, LetterDiffers, Zenon DEF DeadLetterIffFailed
  <2>2. state[x] \in {"delivered", "failed"} /\ state' = [state EXCEPT ![x] = "purged"]
    BY <1>9 DEF purge_outbox, Purgeable
  <2>3. /\ state'[u] = "failed" => state'[v] # "absent"
        /\ state'[u] \in {"absent", "pending", "delivered"} => state'[v] = "absent"
    BY <2>1, <2>2
  <2> QED
    BY <2>1, <2>3, Zenon
<1>10. CASE UNCHANGED vars
  BY <1>10 DEF vars
<1> HIDE DEF TypeOK, Holding, DeadLetterIffFailed, Release, table, pass
<1> QED
  BY <1>1, <1>2, <1>3, <1>4, <1>5, <1>6, <1>7, <1>8, <1>9, <1>10 DEF Next, RelayStep

\* An event the webhook accepted was received by it.
LEMMA AcceptedStep ==
  ASSUME TypeOK, AcceptedWasReceived, [Next]_vars
  PROVE  AcceptedWasReceived'
<1> USE OutboxConstants DEF TypeOK, AcceptedWasReceived, Release, table, pass
<1>1. ASSUME NEW e \in Events, enqueue_outbox(e) PROVE AcceptedWasReceived'
  <2>1. PICK x \in Rows :
          /\ state[x] = "absent"
          /\ state' = [state EXCEPT ![x] = "pending"]
          /\ UNCHANGED <<attempts, received, pass, crashes>>
    BY <1>1, EnqueueEffect
  <2> QED
    BY <2>1
<1>2. ASSUME NEW d \in Relays, start_pass(d) PROVE AcceptedWasReceived'
  BY <1>2 DEF start_pass
<1>3. ASSUME NEW d \in Relays, select_event(d) PROVE AcceptedWasReceived'
  BY <1>3 DEF select_event, Pending, Locked
<1>4. ASSUME NEW d \in Relays, end_pass(d) PROVE AcceptedWasReceived'
  BY <1>4 DEF end_pass
<1>5. ASSUME NEW d \in Relays, deliver_one(d) PROVE AcceptedWasReceived'
  <2>1. PICK x \in Rows, a \in {"accepted", "refused"} :
          /\ x = event[d]
          /\ phase[d] = "send"
          /\ phase' = [phase EXCEPT ![d] = a]
          /\ \/ received' = [received EXCEPT ![x] = @ + 1]
             \/ a = "refused" /\ received' = received
          /\ UNCHANGED <<table, event, seen, delivered, crashes>>
    BY <1>5, DeliverEffect
  <2> QED
    BY <2>1
<1>6. ASSUME NEW d \in Relays, record_delivery(d) PROVE AcceptedWasReceived'
  BY <1>6 DEF record_delivery
<1>7. ASSUME NEW d \in Relays, record_failure(d) PROVE AcceptedWasReceived'
  <2>1. PICK x, y \in Rows :
          /\ x = event[d]
          /\ phase[d] = "refused"
          /\ attempts' = [attempts EXCEPT ![x] = seen[d] + 1]
          /\ \/ UNCHANGED state
             \/ state' = [state EXCEPT ![x] = "failed", ![y] = "pending"]
             \/ state' = [state EXCEPT ![x] = "failed"]
          /\ Release(d, "idle")
          /\ UNCHANGED <<received, crashes>>
    BY <1>7, FailureEffect
  <2> QED
    BY <2>1
<1>8. ASSUME NEW d \in Relays, RelayDies(d) PROVE AcceptedWasReceived'
  BY <1>8 DEF RelayDies
<1>9. ASSUME NEW x \in Rows, purge_outbox(x) PROVE AcceptedWasReceived'
  BY <1>9 DEF purge_outbox, Purgeable
<1>10. CASE UNCHANGED vars
  BY <1>10 DEF vars
<1> HIDE DEF TypeOK, AcceptedWasReceived, Release, table, pass
<1> QED
  BY <1>1, <1>2, <1>3, <1>4, <1>5, <1>6, <1>7, <1>8, <1>9, <1>10 DEF Next, RelayStep

\* So a row is marked delivered after the webhook received it.
LEMMA DeliveredStep ==
  ASSUME TypeOK, AcceptedWasReceived, DeliveredWasReceived, [Next]_vars
  PROVE  DeliveredWasReceived'
<1> USE OutboxConstants DEF TypeOK, AcceptedWasReceived, DeliveredWasReceived, Release, table, pass
<1>1. ASSUME NEW e \in Events, enqueue_outbox(e) PROVE DeliveredWasReceived'
  <2>1. PICK x \in Rows :
          /\ state[x] = "absent"
          /\ state' = [state EXCEPT ![x] = "pending"]
          /\ UNCHANGED <<attempts, received, pass, crashes>>
    BY <1>1, EnqueueEffect
  <2> QED
    BY <2>1
<1>2. ASSUME NEW d \in Relays, start_pass(d) PROVE DeliveredWasReceived'
  BY <1>2 DEF start_pass
<1>3. ASSUME NEW d \in Relays, select_event(d) PROVE DeliveredWasReceived'
  BY <1>3 DEF select_event, Pending, Locked
<1>4. ASSUME NEW d \in Relays, end_pass(d) PROVE DeliveredWasReceived'
  BY <1>4 DEF end_pass
<1>5. ASSUME NEW d \in Relays, deliver_one(d) PROVE DeliveredWasReceived'
  <2>1. PICK x \in Rows, a \in {"accepted", "refused"} :
          /\ x = event[d]
          /\ phase[d] = "send"
          /\ phase' = [phase EXCEPT ![d] = a]
          /\ \/ received' = [received EXCEPT ![x] = @ + 1]
             \/ a = "refused" /\ received' = received
          /\ UNCHANGED <<table, event, seen, delivered, crashes>>
    BY <1>5, DeliverEffect
  <2> QED
    BY <2>1
<1>6. ASSUME NEW d \in Relays, record_delivery(d) PROVE DeliveredWasReceived'
  BY <1>6 DEF record_delivery
<1>7. ASSUME NEW d \in Relays, record_failure(d) PROVE DeliveredWasReceived'
  <2>1. PICK x, y \in Rows :
          /\ x = event[d]
          /\ phase[d] = "refused"
          /\ attempts' = [attempts EXCEPT ![x] = seen[d] + 1]
          /\ \/ UNCHANGED state
             \/ state' = [state EXCEPT ![x] = "failed", ![y] = "pending"]
             \/ state' = [state EXCEPT ![x] = "failed"]
          /\ Release(d, "idle")
          /\ UNCHANGED <<received, crashes>>
    BY <1>7, FailureEffect
  <2> QED
    BY <2>1
<1>8. ASSUME NEW d \in Relays, RelayDies(d) PROVE DeliveredWasReceived'
  BY <1>8 DEF RelayDies
<1>9. ASSUME NEW x \in Rows, purge_outbox(x) PROVE DeliveredWasReceived'
  BY <1>9 DEF purge_outbox, Purgeable
<1>10. CASE UNCHANGED vars
  BY <1>10 DEF vars
<1> HIDE DEF TypeOK, AcceptedWasReceived, DeliveredWasReceived, Release, table, pass
<1> QED
  BY <1>1, <1>2, <1>3, <1>4, <1>5, <1>6, <1>7, <1>8, <1>9, <1>10 DEF Next, RelayStep

\* A receipt without a recorded attempt is being recorded or was lost.
LEMMA ReceiptsStep ==
  ASSUME TypeOK, Holding, Receipts, [Next]_vars
  PROVE  Receipts'
<1> USE OutboxConstants DEF TypeOK, Holding, Receipts, Release, Posting, table, pass
<1>1. ASSUME NEW e \in Events, enqueue_outbox(e) PROVE Receipts'
  <2>1. PICK x \in Rows :
          /\ state[x] = "absent"
          /\ state' = [state EXCEPT ![x] = "pending"]
          /\ UNCHANGED <<attempts, received, pass, crashes>>
    BY <1>1, EnqueueEffect
  <2> QED
    BY <2>1
<1>2. ASSUME NEW d \in Relays, start_pass(d) PROVE Receipts'
  BY <1>2 DEF start_pass
<1>3. ASSUME NEW d \in Relays, select_event(d) PROVE Receipts'
  BY <1>3 DEF select_event, Pending, Locked
<1>4. ASSUME NEW d \in Relays, end_pass(d) PROVE Receipts'
  BY <1>4 DEF end_pass
<1>5. ASSUME NEW d \in Relays, deliver_one(d) PROVE Receipts'
  <2>1. PICK x \in Rows, a \in {"accepted", "refused"} :
          /\ x = event[d]
          /\ phase[d] = "send"
          /\ phase' = [phase EXCEPT ![d] = a]
          /\ \/ received' = [received EXCEPT ![x] = @ + 1]
             \/ a = "refused" /\ received' = received
          /\ UNCHANGED <<table, event, seen, delivered, crashes>>
    BY <1>5, DeliverEffect
  <2> QED
    BY <2>1
<1>6. ASSUME NEW d \in Relays, record_delivery(d) PROVE Receipts'
  BY <1>6 DEF record_delivery
<1>7. ASSUME NEW d \in Relays, record_failure(d) PROVE Receipts'
  <2>1. PICK x, y \in Rows :
          /\ x = event[d]
          /\ phase[d] = "refused"
          /\ attempts' = [attempts EXCEPT ![x] = seen[d] + 1]
          /\ \/ UNCHANGED state
             \/ state' = [state EXCEPT ![x] = "failed", ![y] = "pending"]
             \/ state' = [state EXCEPT ![x] = "failed"]
          /\ Release(d, "idle")
          /\ UNCHANGED <<received, crashes>>
    BY <1>7, FailureEffect
  <2> QED
    BY <2>1
<1>8. ASSUME NEW d \in Relays, RelayDies(d) PROVE Receipts'
  BY <1>8 DEF RelayDies
<1>9. ASSUME NEW x \in Rows, purge_outbox(x) PROVE Receipts'
  BY <1>9 DEF purge_outbox, Purgeable
<1>10. CASE UNCHANGED vars
  BY <1>10 DEF vars
<1> HIDE DEF TypeOK, Holding, Receipts, Release, Posting, table, pass
<1> QED
  BY <1>1, <1>2, <1>3, <1>4, <1>5, <1>6, <1>7, <1>8, <1>9, <1>10 DEF Next, RelayStep

\* Every step preserves the invariant.
LEMMA OutboxInvStep == OutboxInv /\ [Next]_vars => OutboxInv'
  BY TypeStep, HoldingStep, LimboStep, DeadLetterStep, AcceptedStep, DeliveredStep,
     ReceiptsStep DEF OutboxInv

\* At first nothing has happened.
LEMMA OutboxInvInit == Init => OutboxInv
<1> SUFFICES ASSUME Init PROVE OutboxInv
  OBVIOUS
<1> USE OutboxConstants DEF Init
<1>1. TypeOK
  BY DEF TypeOK, States, Phases, Rows
<1>2. Holding /\ AcceptedWasReceived /\ DeliveredWasReceived /\ NoLimbo
  BY DEF Holding, AcceptedWasReceived, DeliveredWasReceived, NoLimbo
<1>3. Receipts
  BY DEF Receipts
<1>4. DeadLetterIffFailed
  <2>1. \A x \in Rows : state[x] = "absent"
    OBVIOUS
  <2>2. \A e \in Events, b \in BOOLEAN : state[<<e, b>>] = "absent"
    BY <2>1, RowShape, Zenon
  <2> QED
    BY <2>2 DEF DeadLetterIffFailed
<1> QED
  BY <1>1, <1>2, <1>3, <1>4 DEF OutboxInv

\* THE INVARIANT of the relay holds for any finite sets of events and relays,
\* any attempt limit and batch size, and any number of crashes.
THEOREM OutboxSafe == Spec => []OutboxInv
  BY OutboxInvInit, OutboxInvStep, PTL DEF Spec

\* A row marked delivered was received: deliver_outbox_events sets
\* delivered_at only after a 2xx answer.
THEOREM DeliveryIsReal == Spec => []DeliveredWasReceived
<1>1. OutboxInv => DeliveredWasReceived
  BY DEF OutboxInv
<1> QED
  BY <1>1, OutboxSafe, PTL

\* No row is left pending with its attempts used up, which the relay would
\* never select again, nor failed before them.
THEOREM NoRowInLimbo == Spec => []NoLimbo
<1>1. OutboxInv => NoLimbo
  BY DEF OutboxInv
<1> QED
  BY <1>1, OutboxSafe, PTL

\* A failed event has its dead letter and no other event has one.
THEOREM DeadLettersAreRight == Spec => []DeadLetterIffFailed
<1>1. OutboxInv => DeadLetterIffFailed
  BY DEF OutboxInv
<1> QED
  BY <1>1, OutboxSafe, PTL

\* Duplicate posts are bounded by the recorded attempts and the crashes.
THEOREM DuplicatesAccounted == Spec => []ReceiptsAccounted
<1>1. ASSUME OutboxInv PROVE ReceiptsAccounted
  <2> SUFFICES ASSUME NEW x \in Rows
               PROVE  received[x] <= attempts[x] + Cardinality(Posting(x)) + crashes
    BY DEF ReceiptsAccounted
  <2>1. received[x] \in Nat /\ attempts[x] \in Nat /\ crashes \in Nat
    BY <1>1 DEF OutboxInv, TypeOK
  <2>2. IsFiniteSet(Posting(x))
    BY OutboxConstants, FS_Subset DEF Posting
  <2>3. Cardinality(Posting(x)) \in Nat
    BY <2>2, FS_CardinalityType
  <2>4. CASE received[x] <= attempts[x] + crashes
    BY <2>1, <2>3, <2>4
  <2>5. CASE /\ received[x] = attempts[x] + crashes + 1
             /\ \E d \in Relays : d \in Posting(x)
    <3>1. Cardinality(Posting(x)) # 0
      BY <2>2, <2>5, FS_EmptySet
    <3> QED
      BY <2>1, <2>3, <2>5, <3>1
  <2> QED
    BY <1>1, <2>4, <2>5 DEF OutboxInv, Receipts
<1> QED
  BY <1>1, OutboxSafe, PTL

-----------------------------------------------------------------------------
\* An action of the contract for some message is a step of the contract.
LEMMA ContractAction ==
  ASSUME \/ \E e \in Events : \/ Contract!Accept(e) \/ Contract!GiveUp(e)
                              \/ Contract!GiveUpLetter(e)
         \/ \E x \in Rows : \/ Contract!Receive(x) \/ Contract!Deliver(x)
                            \/ Contract!Forget(x)
  PROVE  Contract!Next
  BY Zenon DEF Contract!Next, Contract!Messages, Rows

\* The last failure of an event's own message creates its dead letter; the last
\* failure of a dead letter creates nothing.
LEMMA FailureRefines ==
  ASSUME OutboxInv, NEW d \in Relays, record_failure(d)
  PROVE  [Contract!Next]_<<state, received>>
<1>1. PICK x, y \in Rows :
        /\ x = event[d]
        /\ y = Letter(x)
        /\ phase[d] = "refused"
        /\ \/ UNCHANGED state
           \/ ~x[2] /\ state' = [state EXCEPT ![x] = "failed", ![y] = "pending"]
           \/ x[2] /\ state' = [state EXCEPT ![x] = "failed"]
        /\ UNCHANGED received
  BY FailureEffect DEF OutboxInv
<1>2. x[1] \in Events /\ x[2] \in BOOLEAN /\ x = <<x[1], x[2]>>
  BY RowShape
<1>3. state[x] = "pending"
  BY <1>1 DEF OutboxInv, Holding
<1>4. CASE ~x[2] /\ state' = [state EXCEPT ![x] = "failed", ![y] = "pending"]
  <2>1. x = Contract!Message(x[1]) /\ y = Contract!DeadLetter(x[1])
    BY <1>1, <1>2, <1>4, LetterDiffers DEF Contract!Message, Contract!DeadLetter, Letter
  <2>2. state[y] = "absent"
    BY <1>2, <1>3, <2>1, Zenon
       DEF OutboxInv, DeadLetterIffFailed, Contract!Message, Contract!DeadLetter
  <2>3. Contract!GiveUp(x[1])
    BY <1>1, <1>3, <1>4, <2>1, <2>2, Zenon DEF Contract!GiveUp
  <2> QED
    BY <1>2, <2>3, ContractAction, Zenon
<1>5. CASE x[2] /\ state' = [state EXCEPT ![x] = "failed"]
  <2>1. x = Contract!DeadLetter(x[1])
    BY <1>2, <1>5 DEF Contract!DeadLetter
  <2>2. Contract!GiveUpLetter(x[1])
    BY <1>1, <1>3, <1>5, <2>1, Zenon DEF Contract!GiveUpLetter
  <2> QED
    BY <1>2, <2>2, ContractAction, Zenon
<1> QED
  BY <1>1, <1>4, <1>5

\* Every step of the relay is a step of the contract or a stutter.
LEMMA ContractStep ==
  ASSUME OutboxInv, [Next]_vars
  PROVE  [Contract!Next]_<<state, received>>
<1>1. ASSUME NEW e \in Events, enqueue_outbox(e)
      PROVE  [Contract!Next]_<<state, received>>
  <2>1. Contract!Accept(e)
    BY <1>1, Zenon DEF enqueue_outbox, Contract!Accept, Contract!Message
  <2> QED
    BY <2>1, ContractAction, Zenon
<1>2. ASSUME NEW d \in Relays,
             start_pass(d) \/ select_event(d) \/ end_pass(d) \/ RelayDies(d)
      PROVE  UNCHANGED <<state, received>>
  BY <1>2 DEF start_pass, select_event, end_pass, RelayDies, table
<1>3. ASSUME NEW d \in Relays, deliver_one(d)
      PROVE  [Contract!Next]_<<state, received>>
  <2>1. PICK x \in Rows :
          /\ x = event[d]
          /\ phase[d] = "send"
          /\ received' = [received EXCEPT ![x] = @ + 1] \/ received' = received
          /\ UNCHANGED state
    BY <1>3, DeliverEffect DEF OutboxInv, table
  <2>2. state[x] = "pending"
    BY <1>3, <2>1 DEF OutboxInv, Holding
  <2>3. received' # received => Contract!Receive(x)
    BY <2>1, <2>2, Zenon DEF Contract!Receive
  <2> QED
    BY <2>1, <2>3, ContractAction, Zenon
<1>4. ASSUME NEW d \in Relays, record_delivery(d)
      PROVE  [Contract!Next]_<<state, received>>
  <2>1. /\ event[d] \in Rows
        /\ state[event[d]] = "pending"
        /\ received[event[d]] > 0
    BY <1>4 DEF record_delivery, OutboxInv, TypeOK, Holding, AcceptedWasReceived
  <2>2. Contract!Deliver(event[d])
    BY <1>4, <2>1, Zenon DEF record_delivery, Contract!Deliver
  <2> QED
    BY <2>1, <2>2, ContractAction, Zenon
<1>5. ASSUME NEW d \in Relays, record_failure(d)
      PROVE  [Contract!Next]_<<state, received>>
  BY <1>5, FailureRefines
<1>6. ASSUME NEW x \in Rows, purge_outbox(x)
      PROVE  [Contract!Next]_<<state, received>>
  <2>1. Contract!Forget(x)
    BY <1>6, Zenon DEF purge_outbox, Purgeable, Contract!Forget
  <2> QED
    BY <2>1, ContractAction, Zenon
<1>7. CASE UNCHANGED vars
  BY <1>7 DEF vars, table
<1> QED
  BY <1>1, <1>2, <1>3, <1>4, <1>5, <1>6, <1>7 DEF Next, RelayStep

\* The relay implements OutboxContract: at-least-once delivery or a dead letter,
\* and nothing is posted once it is settled, for any number of relays, events,
\* attempts and crashes.
THEOREM ImplementsContract == Spec => DeliveryContract
<1>1. Init => Contract!Init
  BY DEF Init, Contract!Init, Contract!Messages, Rows
<1>2. OutboxInv /\ [Next]_vars => [Contract!Next]_<<state, received>>
  BY ContractStep
<1> QED
  BY <1>1, <1>2, OutboxSafe, PTL DEF Spec, DeliveryContract, Contract!Spec

=============================================================================
