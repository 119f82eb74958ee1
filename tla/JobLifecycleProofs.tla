------------------------- MODULE JobLifecycleProofs -------------------------
(***************************************************************************)
(* Proofs about JobLifecycle, for any sets of jobs and workers, any        *)
(* attempt budget, either retention policy and any number of faults.       *)
(*                                                                         *)
(* SafetyInv is the inductive invariant.  It is proved in layers, each     *)
(* resting on the ones before: types; the uniqueness of claims; what the   *)
(* newest attempt knows; the accuracy of the reaper's snapshot and, with   *)
(* it, the attempt budget; stored bytes; and the externally visible        *)
(* effects.  The actions are first sorted by what they can disturb, so     *)
(* that each layer treats one by one only the actions that matter to it.   *)
(***************************************************************************)
EXTENDS JobLifecycle, FiniteSetTheorems, TLAPS

-----------------------------------------------------------------------------
(* The kinds of actions.                                                   *)

\* The actions that write the status of a row.
RowAction ==
    \/ \E w \in Workers :
         \/ \E j \in Jobs, via \in {"message", "command"} :
               claim_job(w, j, via) \/ claim_cancelled(w, j, via)
         \/ Finish(w) \/ retry_transition(w)
    \/ \E r \in rows : ReapRow(r)
    \/ \E j \in Jobs : immediate_cancel(j) \/ expire_due_outputs(j)

\* The actions that write another field of a row, or the outbox.
OtherWrite ==
    \/ \E w \in Workers : promote_output(w) \/ emit_dead_letter(w)
    \/ \E j \in Jobs : announce_cancel(j) \/ flag_cancel(j)

\* All the others.
QuietAction ==
    \/ \E w \in Workers :
         \/ \E j \in Jobs : claim_refused(w, j)
         \/ Work(w) \/ Progress(w) \/ raise_if_cancelled(w)
         \/ create_output_blob(w) \/ discard_output(w) \/ FinishFenced(w)
         \/ retry_enqueue(w) \/ ConverterRaises(w) \/ Raises(w)
         \/ Redeliver(w)
         \/ \E redelivered \in BOOLEAN : WorkerDies(w, redelivered)
    \/ \E j \in Jobs : \/ HeartbeatAges(j) \/ WorkerStalls(j)
                       \/ request_cancel(j) \/ CancelRequestDies(j)
                       \/ RetentionElapses(j) \/ ExpiryRollsBack(j)
                       \/ purge_terminal_input_files(j)
    \/ requeue_stale_jobs \/ reap_enqueue \/ ReaperDies
    \/ \E b \in blobs : garbage_collect_blobs(b)
    \/ UNCHANGED vars

\* Every step is of one of these kinds.
LEMMA Kinds ==
  ASSUME [Next]_vars
  PROVE  RowAction \/ OtherWrite \/ QuietAction
  BY DEF Next, Deliver, WorkerStep, Platform, Reaper, Cancel, Retention,
     RowAction, OtherWrite, QuietAction

\* A worker that is executing goes to another step.
Move(w, step) == pc[w] # "idle" /\ Goto(w, step)

\* The steps a quiet action may lead to, create_output_blob aside.
QuietSteps == Steps \ {"blob", "promote", "finish", "exhausted", "deadLetter"}

\* A quiet action writes neither rows nor effects; it moves at most one worker,
\* and only create_output_blob moves one towards promotion.
LEMMA QuietFrame ==
  ASSUME QuietAction
  PROVE  /\ UNCHANGED <<row, effects>>
         /\ \/ UNCHANGED attempts
            \/ \E w \in Workers : create_output_blob(w)
            \/ \E w \in Workers, step \in QuietSteps : Move(w, step)
<1> USE DEF QuietAction, claim_refused, Work, Progress, raise_if_cancelled, create_output_blob,
     discard_output, FinishFenced, retry_enqueue, ConverterRaises, Raises,
     Redeliver, WorkerDies, HeartbeatAges, WorkerStalls, request_cancel,
     CancelRequestDies, RetentionElapses, ExpiryRollsBack,
     purge_terminal_input_files, requeue_stale_jobs, reap_enqueue, ReaperDies,
     garbage_collect_blobs, vars, row, beats, effects, storage, attempts,
     reaping
<1>1. UNCHANGED <<row, effects>>
  OBVIOUS
<1>2. \/ UNCHANGED attempts
      \/ \E w \in Workers : create_output_blob(w)
      \/ \E w \in Workers, step \in QuietSteps : Move(w, step)
  BY DEF QuietSteps, Steps, TryBody, Discards, Handlers, EndSteps, NextPc,
     AfterDiscard, Move
<1> QED
  BY <1>1, <1>2

\* The quiet actions that write or delete output bytes.
LEMMA QuietFiles ==
  ASSUME QuietAction
  PROVE  \/ UNCHANGED <<files, blobs>>
         \/ \E w \in Workers : create_output_blob(w) \/ discard_output(w)
         \/ \E j \in Jobs : ExpiryRollsBack(j)
         \/ \E b \in blobs : garbage_collect_blobs(b)
  BY DEF QuietAction, claim_refused, Work, Progress, raise_if_cancelled, create_output_blob,
     discard_output, FinishFenced, retry_enqueue, ConverterRaises, Raises,
     Redeliver, WorkerDies, HeartbeatAges, WorkerStalls, request_cancel,
     CancelRequestDies, RetentionElapses, ExpiryRollsBack,
     purge_terminal_input_files, requeue_stale_jobs, reap_enqueue, ReaperDies,
     garbage_collect_blobs, vars, row, beats, effects, storage, attempts,
     reaping

\* A quiet action starts or drops a reaper pass, or refreshes heartbeats.
LEMMA QuietReaper ==
  ASSUME QuietAction
  PROVE  \/ rows' = rows /\ overdue' \subseteq overdue
         \/ rows' = {}
         \/ requeue_stale_jobs
  BY DEF QuietAction, heartbeat, Touch, claim_refused, Work, Progress, raise_if_cancelled, create_output_blob,
     discard_output, FinishFenced, retry_enqueue, ConverterRaises, Raises,
     Redeliver, WorkerDies, HeartbeatAges, WorkerStalls, request_cancel,
     CancelRequestDies, RetentionElapses, ExpiryRollsBack,
     purge_terminal_input_files, requeue_stale_jobs, reap_enqueue, ReaperDies,
     garbage_collect_blobs, vars, row, beats, effects, storage, attempts,
     reaping

\* Whatever the step, either it is a claim, or the counters stand still and at
\* most one worker moves.
LEMMA AttemptFrame ==
  ASSUME [Next]_vars
  PROVE  \/ \E w \in Workers, j \in Jobs, via \in {"message", "command"} :
               claim_job(w, j, via)
         \/ /\ UNCHANGED <<claim_generation, attempt_count>>
            /\ \/ UNCHANGED <<pc, claim>>
               \/ \E w \in Workers, step \in Steps : Move(w, step)
<1> USE DEF Steps, TryBody, Handlers, Discards
<1>1. CASE RowAction
  BY <1>1 DEF RowAction, claim_job, claim_cancelled, Finish, terminal_transition,
     EndSteps, retry_transition, ReapRow, immediate_cancel, expire_due_outputs,
     attempts, Move
<1>2. CASE OtherWrite
  BY <1>2 DEF OtherWrite, promote_output, NextPc, emit_dead_letter,
     announce_cancel, flag_cancel, row, attempts, Move
<1>3. CASE QuietAction
  <2>1. CASE \E w \in Workers : create_output_blob(w)
    BY <2>1, <1>3, QuietFrame DEF create_output_blob, NextPc, Move, row
  <2>2. CASE UNCHANGED attempts \/ \E w \in Workers, step \in QuietSteps : Move(w, step)
    BY <2>2, <1>3, QuietFrame DEF row, attempts, QuietSteps
  <2> QED
    BY <1>3, <2>1, <2>2, QuietFrame
<1> QED
  BY <1>1, <1>2, <1>3, Kinds

-----------------------------------------------------------------------------
(* The layers of the invariant.                                            *)

\* Every step preserves the type invariant.
LEMMA TypeStep ==
  ASSUME TypeOK, [Next]_vars
  PROVE  TypeOK'
<1> USE ConstantsOK DEF TypeOK, Steps, TryBody, Handlers, Discards, Claims,
     NoClaim, StaleRows, Status, Active, Waiting, Terminal, Events, Outcomes,
     Take, Touch, Goto, NextPc, heartbeat, Fault, row, beats, effects,
     storage, attempts, reaping, budget
<1>1. ASSUME NEW w \in Workers, NEW j \in Jobs,
             NEW via \in {"message", "command"}, claim_job(w, j, via)
      PROVE  TypeOK'
  <2>1. claim' \in [Workers -> Claims]
    BY <1>1 DEF claim_job, NextGeneration
  <2>2. /\ pc' \in [Workers -> Steps]
        /\ \A v \in Workers : pc'[v] # "idle" => claim'[v].job \in Jobs
    BY <1>1 DEF claim_job
  <2>3. queue' \in [Jobs -> Nat]
    BY <1>1 DEF claim_job
  <2> QED
    BY <1>1, <2>1, <2>2, <2>3 DEF claim_job, NextGeneration
<1>2. ASSUME NEW w \in Workers, NEW j \in Jobs,
             NEW via \in {"message", "command"}, claim_cancelled(w, j, via)
      PROVE  TypeOK'
  BY <1>2 DEF claim_cancelled
<1>3. ASSUME NEW w \in Workers, NEW j \in Jobs, claim_refused(w, j)
      PROVE  TypeOK'
  BY <1>3 DEF claim_refused
<1>4. ASSUME NEW w \in Workers, Work(w) PROVE TypeOK'
  BY <1>4 DEF Work
<1>5. ASSUME NEW w \in Workers, Progress(w) PROVE TypeOK'
  BY <1>5 DEF Progress
<1>6. ASSUME NEW w \in Workers, raise_if_cancelled(w) PROVE TypeOK'
  BY <1>6 DEF raise_if_cancelled
<1>7. ASSUME NEW w \in Workers, create_output_blob(w) PROVE TypeOK'
  BY <1>7 DEF create_output_blob
<1>8. ASSUME NEW w \in Workers, promote_output(w) PROVE TypeOK'
  BY <1>8 DEF promote_output
<1>9. ASSUME NEW w \in Workers, discard_output(w) PROVE TypeOK'
  BY <1>9 DEF discard_output, AfterDiscard
<1>10. ASSUME NEW w \in Workers, Finish(w) PROVE TypeOK'
  BY <1>10 DEF Finish, terminal_transition, EndingAt, EndSteps, Expires,
     Purged
<1>11. ASSUME NEW w \in Workers, FinishFenced(w) PROVE TypeOK'
  BY <1>11 DEF FinishFenced, EndSteps
<1>12. ASSUME NEW w \in Workers, retry_transition(w) PROVE TypeOK'
  BY <1>12 DEF retry_transition
<1>13. ASSUME NEW w \in Workers, retry_enqueue(w) PROVE TypeOK'
  BY <1>13 DEF retry_enqueue
<1>14. ASSUME NEW w \in Workers, emit_dead_letter(w) PROVE TypeOK'
  BY <1>14 DEF emit_dead_letter
<1>15. ASSUME NEW w \in Workers, ConverterRaises(w) PROVE TypeOK'
  BY <1>15 DEF ConverterRaises
<1>16. ASSUME NEW w \in Workers, Raises(w) PROVE TypeOK'
  BY <1>16 DEF Raises
<1>17. ASSUME NEW w \in Workers, NEW redelivered \in BOOLEAN, WorkerDies(w, redelivered)
      PROVE  TypeOK'
  BY <1>17 DEF WorkerDies
<1>18. ASSUME NEW w \in Workers, Redeliver(w) PROVE TypeOK'
  BY <1>18 DEF Redeliver
<1>19. ASSUME NEW j \in Jobs, HeartbeatAges(j) PROVE TypeOK'
  BY <1>19 DEF HeartbeatAges
<1>20. ASSUME NEW j \in Jobs, WorkerStalls(j) PROVE TypeOK'
  BY <1>20 DEF WorkerStalls
<1>21. ASSUME requeue_stale_jobs PROVE TypeOK'
  BY <1>21 DEF requeue_stale_jobs, StaleProcessing
<1>22. ASSUME NEW r \in rows, ReapRow(r) PROVE TypeOK'
  BY <1>22 DEF ReapRow, ReapCancelled, ReapExhausted, ReapRequeue, ReapSkip,
     StillStale
<1>23. ASSUME reap_enqueue PROVE TypeOK'
  BY <1>23 DEF reap_enqueue
<1>24. ASSUME ReaperDies PROVE TypeOK'
  BY <1>24 DEF ReaperDies
<1>25. ASSUME NEW j \in Jobs, request_cancel(j) PROVE TypeOK'
  BY <1>25 DEF request_cancel
<1>26. ASSUME NEW j \in Jobs, immediate_cancel(j) PROVE TypeOK'
  BY <1>26 DEF immediate_cancel, CancelApplies
<1>27. ASSUME NEW j \in Jobs, announce_cancel(j) PROVE TypeOK'
  BY <1>27 DEF announce_cancel
<1>28. ASSUME NEW j \in Jobs, flag_cancel(j) PROVE TypeOK'
  BY <1>28 DEF flag_cancel
<1>29. ASSUME NEW j \in Jobs, CancelRequestDies(j) PROVE TypeOK'
  BY <1>29 DEF CancelRequestDies
<1>30. ASSUME NEW j \in Jobs, RetentionElapses(j) PROVE TypeOK'
  BY <1>30 DEF RetentionElapses
<1>31. ASSUME NEW j \in Jobs, expire_due_outputs(j) PROVE TypeOK'
  BY <1>31 DEF expire_due_outputs, Purged
<1>32. ASSUME NEW j \in Jobs, ExpiryRollsBack(j) PROVE TypeOK'
  BY <1>32 DEF ExpiryRollsBack, Purged
<1>33. ASSUME NEW j \in Jobs, purge_terminal_input_files(j) PROVE TypeOK'
  BY <1>33 DEF purge_terminal_input_files
<1>34. ASSUME NEW b \in blobs, garbage_collect_blobs(b) PROVE TypeOK'
  BY <1>34 DEF garbage_collect_blobs
<1>35. CASE UNCHANGED vars
  BY <1>35 DEF vars
<1> HIDE DEF TypeOK, Steps, TryBody, Handlers, Discards, Claims, NoClaim,
     StaleRows, Status, Active, Waiting, Terminal, Events, Outcomes, Take,
     Touch, Goto, NextPc, heartbeat, Fault, row, beats, effects, storage,
     attempts, reaping, budget
<1> QED
  BY <1>1, <1>2, <1>3, <1>4, <1>5, <1>6, <1>7, <1>8, <1>9, <1>10, <1>11, <1>12, <1>13, <1>14, <1>15, <1>16, <1>17, <1>18, <1>19, <1>20, <1>21, <1>22, <1>23, <1>24, <1>25, <1>26, <1>27, <1>28, <1>29, <1>30, <1>31, <1>32, <1>33, <1>34, <1>35
     DEF Next, Deliver, WorkerStep, Platform, Reaper, Cancel, Retention

\* Every step preserves the uniqueness of claims: claim_job alone issues a
\* generation, and it issues one newer than any in use.
LEMMA ClaimsFencedStep ==
  ASSUME TypeOK, ClaimsFenced, [Next]_vars
  PROVE  ClaimsFenced'
<1> USE DEF TypeOK, Claims, ClaimsFenced
<1>1. ASSUME NEW w \in Workers, NEW j \in Jobs,
             NEW via \in {"message", "command"}, claim_job(w, j, via)
      PROVE  ClaimsFenced'
  BY <1>1 DEF claim_job, NextGeneration
<1>2. ASSUME NEW w \in Workers, NEW step \in Steps, Move(w, step),
             UNCHANGED <<claim_generation, attempt_count>>
      PROVE  ClaimsFenced'
  BY <1>2 DEF Move, Goto, NoClaim
<1>3. CASE UNCHANGED <<pc, claim, claim_generation, attempt_count>>
  BY <1>3
<1> HIDE DEF TypeOK, Claims, ClaimsFenced
<1> QED
  BY <1>1, <1>2, <1>3, AttemptFrame

\* Every step preserves what the newest attempt knows of its row.
LEMMA NewestAttemptStep ==
  ASSUME TypeOK, TypeOK', ClaimsFenced, NewestAttempt, [Next]_vars
  PROVE  NewestAttempt'
<1> USE ConstantsOK DEF NewestAttempt, ClaimsFenced, Holds, Claims, TypeOK,
     NoClaim, Touch, Goto, NextPc
<1>1. ASSUME NEW w \in Workers, NEW j \in Jobs,
             NEW via \in {"message", "command"}, claim_job(w, j, via)
      PROVE  NewestAttempt'
  BY <1>1 DEF claim_job, NextGeneration, Claimable, Waiting
<1>2. ASSUME NEW w \in Workers, NEW j \in Jobs,
             NEW via \in {"message", "command"}, claim_cancelled(w, j, via)
      PROVE  NewestAttempt'
  BY <1>2 DEF claim_cancelled, Waiting, attempts
<1>3. ASSUME NEW w \in Workers, Finish(w) PROVE NewestAttempt'
  BY <1>3 DEF Finish, terminal_transition, EndingAt, EndSteps, Expires, Purged
<1>4. ASSUME NEW w \in Workers, retry_transition(w) PROVE NewestAttempt'
  BY <1>4 DEF retry_transition
<1>5. ASSUME NEW r \in rows, ReapRow(r) PROVE NewestAttempt'
  BY <1>5 DEF ReapRow, ReapCancelled, ReapExhausted, ReapRequeue, ReapSkip,
     StillStale, attempts
<1>6. ASSUME NEW j \in Jobs, immediate_cancel(j) PROVE NewestAttempt'
  BY <1>6 DEF immediate_cancel, CancelApplies, Waiting, attempts
<1>7. ASSUME NEW j \in Jobs, expire_due_outputs(j) PROVE NewestAttempt'
  BY <1>7 DEF expire_due_outputs, attempts
<1>8. CASE OtherWrite
  <2>1. ASSUME NEW w \in Workers, promote_output(w) PROVE NewestAttempt'
    BY <2>1 DEF promote_output, MayPromote
  <2>2. ASSUME NEW w \in Workers, emit_dead_letter(w) PROVE NewestAttempt'
    BY <2>2 DEF emit_dead_letter, row
  <2>3. ASSUME NEW j \in Jobs, announce_cancel(j) \/ flag_cancel(j)
        PROVE  NewestAttempt'
    BY <2>3 DEF announce_cancel, flag_cancel, row, attempts
  <2> QED
    BY <1>8, <2>1, <2>2, <2>3 DEF OtherWrite
<1>9. CASE QuietAction
  <2>1. UNCHANGED row
    BY <1>9, QuietFrame
  <2>2. CASE UNCHANGED attempts
    BY <2>1, <2>2 DEF row, attempts
  <2>3. ASSUME NEW w \in Workers, create_output_blob(w) PROVE NewestAttempt'
    BY <2>1, <2>3 DEF row, create_output_blob
  <2>4. ASSUME NEW w \in Workers, NEW step \in QuietSteps, Move(w, step)
        PROVE  NewestAttempt'
    BY <2>1, <2>4 DEF row, Move, QuietSteps
  <2> QED
    BY <1>9, <2>2, <2>3, <2>4, QuietFrame
<1> HIDE DEF NewestAttempt, ClaimsFenced, Holds, Claims, TypeOK, NoClaim,
     Touch, Goto, NextPc
<1> QED
  BY <1>1, <1>2, <1>3, <1>4, <1>5, <1>6, <1>7, <1>8, <1>9, Kinds DEF RowAction

\* Only a claim changes attempt_count, and a claim writes the heartbeat; hence
\* the reaper's snapshot is accurate where its update applies, and neither it
\* nor a worker puts a job back without an attempt left.
LEMMA BudgetStep ==
  ASSUME TypeOK, TypeOK', ClaimsFenced, SnapshotAccurate, RetriesWithinBudget,
         [Next]_vars
  PROVE  SnapshotAccurate' /\ RetriesWithinBudget'
<1> USE DEF SnapshotAccurate, RetriesWithinBudget, Waiting, StaleRows, Claims,
     TypeOK, Touch, beats, reaping
<1>1. ASSUME NEW w \in Workers, NEW j \in Jobs,
             NEW via \in {"message", "command"}, claim_job(w, j, via)
      PROVE  SnapshotAccurate' /\ RetriesWithinBudget'
  BY <1>1 DEF claim_job, NextGeneration, Claimable
<1>2. ASSUME NEW w \in Workers, NEW j \in Jobs,
             NEW via \in {"message", "command"}, claim_cancelled(w, j, via)
      PROVE  SnapshotAccurate' /\ RetriesWithinBudget'
  BY <1>2 DEF claim_cancelled
<1>3. ASSUME NEW w \in Workers, Finish(w)
      PROVE  SnapshotAccurate' /\ RetriesWithinBudget'
  BY <1>3 DEF Finish, EndSteps, EndingAt, terminal_transition, Expires, Holds
<1>4. ASSUME NEW w \in Workers, retry_transition(w)
      PROVE  SnapshotAccurate' /\ RetriesWithinBudget'
  BY <1>4 DEF retry_transition, CanRetry, Holds, ClaimsFenced
<1>5. ASSUME NEW r \in rows, ReapRow(r)
      PROVE  SnapshotAccurate' /\ RetriesWithinBudget'
  BY <1>5 DEF ReapRow, ReapCancelled, ReapExhausted, ReapRequeue, ReapSkip,
     StillStale
<1>6. ASSUME NEW j \in Jobs, immediate_cancel(j)
      PROVE  SnapshotAccurate' /\ RetriesWithinBudget'
  BY <1>6 DEF immediate_cancel, CancelApplies
<1>7. ASSUME NEW j \in Jobs, expire_due_outputs(j)
      PROVE  SnapshotAccurate' /\ RetriesWithinBudget'
  BY <1>7 DEF expire_due_outputs
<1>8. CASE OtherWrite
  BY <1>8 DEF OtherWrite, promote_output, emit_dead_letter, announce_cancel,
     flag_cancel, row
<1>9. CASE QuietAction
  <2>1. UNCHANGED row
    BY <1>9, QuietFrame
  <2>2. CASE requeue_stale_jobs
    BY <2>1, <2>2 DEF row, requeue_stale_jobs, StaleProcessing
  <2>3. CASE (rows' = rows /\ overdue' \subseteq overdue) \/ rows' = {}
    BY <2>1, <2>3 DEF row
  <2> QED
    BY <1>9, <2>2, <2>3, QuietReaper
<1> HIDE DEF SnapshotAccurate, RetriesWithinBudget, Waiting, StaleRows,
     Claims, TypeOK, Touch, beats, reaping
<1> QED
  BY <1>1, <1>2, <1>3, <1>4, <1>5, <1>6, <1>7, <1>8, <1>9, Kinds DEF RowAction

\* The output of a running attempt stays on disk, and a DONE row links the
\* output of its newest claim.
LEMMA OutputStep ==
  ASSUME TypeOK, TypeOK', ClaimsFenced, ClaimsFenced', NewestAttempt,
         NewestAttempt', AttemptOutputStored, DoneLinksNewestClaim,
         [Next]_vars
  PROVE  AttemptOutputStored' /\ DoneLinksNewestClaim'
<1> USE DEF AttemptOutputStored, DoneLinksNewestClaim, NewestAttempt,
     ClaimsFenced, Holds, NoClaim, Claims, Waiting, TypeOK, Goto, NextPc,
     storage
<1>1. ASSUME NEW w \in Workers, NEW j \in Jobs,
             NEW via \in {"message", "command"}, claim_job(w, j, via)
      PROVE  AttemptOutputStored' /\ DoneLinksNewestClaim'
  BY <1>1 DEF claim_job, NextGeneration, Claimable
<1>2. ASSUME NEW w \in Workers, NEW j \in Jobs,
             NEW via \in {"message", "command"}, claim_cancelled(w, j, via)
      PROVE  AttemptOutputStored' /\ DoneLinksNewestClaim'
  BY <1>2 DEF claim_cancelled, attempts
<1>3. ASSUME NEW w \in Workers, Finish(w)
      PROVE  AttemptOutputStored' /\ DoneLinksNewestClaim'
  BY <1>3 DEF Finish, EndSteps, EndingAt, terminal_transition, Expires, Purged
<1>4. ASSUME NEW w \in Workers, retry_transition(w)
      PROVE  AttemptOutputStored' /\ DoneLinksNewestClaim'
  BY <1>4 DEF retry_transition
<1>5. ASSUME NEW r \in rows, ReapRow(r)
      PROVE  AttemptOutputStored' /\ DoneLinksNewestClaim'
  BY <1>5 DEF ReapRow, ReapCancelled, ReapExhausted, ReapRequeue, ReapSkip,
     StillStale, attempts
<1>6. ASSUME NEW j \in Jobs, immediate_cancel(j)
      PROVE  AttemptOutputStored' /\ DoneLinksNewestClaim'
  BY <1>6 DEF immediate_cancel, CancelApplies, attempts
<1>7. ASSUME NEW j \in Jobs, expire_due_outputs(j)
      PROVE  AttemptOutputStored' /\ DoneLinksNewestClaim'
  BY <1>7 DEF expire_due_outputs, Purged, attempts
<1>8. CASE OtherWrite
  <2>1. ASSUME NEW w \in Workers, promote_output(w)
        PROVE  AttemptOutputStored' /\ DoneLinksNewestClaim'
    <3>1. AttemptOutputStored'
      BY <2>1 DEF promote_output
    <3>2. claim[w].job \in Jobs /\ UNCHANGED <<status, claim_generation>>
      BY <2>1 DEF promote_output
    <3>3. CASE UNCHANGED output_file
      BY <3>1, <3>2, <3>3
    <3>4. CASE /\ status[claim[w].job] = "PROCESSING"
               /\ output_file' = [output_file EXCEPT ![claim[w].job] = claim[w].gen]
      BY <3>1, <3>2, <3>4
    <3> QED
      BY <2>1, <3>3, <3>4 DEF promote_output, MayPromote
  <2>2. ASSUME NEW w \in Workers, emit_dead_letter(w)
        PROVE  AttemptOutputStored' /\ DoneLinksNewestClaim'
    BY <2>2 DEF emit_dead_letter, row
  <2>3. ASSUME NEW j \in Jobs, announce_cancel(j) \/ flag_cancel(j)
        PROVE  AttemptOutputStored' /\ DoneLinksNewestClaim'
    BY <2>3 DEF announce_cancel, flag_cancel, row, attempts
  <2> QED
    BY <1>8, <2>1, <2>2, <2>3 DEF OtherWrite
<1>9. CASE QuietAction
  <2> USE QuietFrame DEF row
  <2>1. CASE UNCHANGED <<files, blobs>>
    <3>1. CASE UNCHANGED attempts
      BY <1>9, <2>1, <3>1 DEF attempts
    <3>2. ASSUME NEW w \in Workers, create_output_blob(w)
          PROVE  AttemptOutputStored' /\ DoneLinksNewestClaim'
      BY <1>9, <3>2 DEF create_output_blob
    <3>3. ASSUME NEW w \in Workers, NEW step \in QuietSteps, Move(w, step)
          PROVE  AttemptOutputStored' /\ DoneLinksNewestClaim'
      BY <1>9, <2>1, <3>3 DEF Move, QuietSteps
    <3> QED
      BY <1>9, <3>1, <3>2, <3>3
  <2>2. ASSUME NEW w \in Workers, create_output_blob(w)
        PROVE  AttemptOutputStored' /\ DoneLinksNewestClaim'
    BY <1>9, <2>2 DEF create_output_blob
  <2>3. ASSUME NEW w \in Workers, discard_output(w)
        PROVE  AttemptOutputStored' /\ DoneLinksNewestClaim'
    BY <1>9, <2>3 DEF discard_output, Discards, AfterDiscard
  <2>4. ASSUME NEW j \in Jobs, ExpiryRollsBack(j)
        PROVE  AttemptOutputStored' /\ DoneLinksNewestClaim'
    BY <1>9, <2>4 DEF ExpiryRollsBack, Purged, attempts
  <2>5. ASSUME NEW b \in blobs, garbage_collect_blobs(b)
        PROVE  AttemptOutputStored' /\ DoneLinksNewestClaim'
    BY <1>9, <2>5 DEF garbage_collect_blobs, InUse, attempts
  <2> QED
    BY <1>9, <2>1, <2>2, <2>3, <2>4, <2>5, QuietFiles
<1> HIDE DEF AttemptOutputStored, DoneLinksNewestClaim, NewestAttempt,
     ClaimsFenced, Holds, NoClaim, Claims, Waiting, TypeOK, Goto, NextPc,
     storage
<1> QED
  BY <1>1, <1>2, <1>3, <1>4, <1>5, <1>6, <1>7, <1>8, <1>9, Kinds DEF RowAction

\* Downloadable outputs keep their bytes and expired ones do not return.
LEMMA BytesStep ==
  ASSUME TypeOK, TypeOK', ClaimsFenced, NewestAttempt, AttemptOutputStored,
         DoneLinksNewestClaim, DownloadsHaveBytes, ExpiredBytesGone,
         [Next]_vars
  PROVE  DownloadsHaveBytes' /\ ExpiredBytesGone'
<1> USE DEF DownloadsHaveBytes, ExpiredBytesGone, Downloadable,
     DoneLinksNewestClaim, NewestAttempt, Holds, Claims, Waiting, TypeOK,
     storage
<1>1. ASSUME NEW w \in Workers, NEW j \in Jobs,
             NEW via \in {"message", "command"}, claim_job(w, j, via)
      PROVE  DownloadsHaveBytes' /\ ExpiredBytesGone'
  BY <1>1 DEF claim_job, NextGeneration, Claimable
<1>2. ASSUME NEW w \in Workers, NEW j \in Jobs,
             NEW via \in {"message", "command"}, claim_cancelled(w, j, via)
      PROVE  DownloadsHaveBytes' /\ ExpiredBytesGone'
  BY <1>2 DEF claim_cancelled
<1>3. ASSUME NEW w \in Workers, Finish(w)
      PROVE  DownloadsHaveBytes' /\ ExpiredBytesGone'
  BY <1>3 DEF Finish, EndSteps, EndingAt, terminal_transition, Expires,
     Purged, AttemptOutputStored, ClaimsFenced
<1>4. ASSUME NEW w \in Workers, retry_transition(w)
      PROVE  DownloadsHaveBytes' /\ ExpiredBytesGone'
  BY <1>4 DEF retry_transition
<1>5. ASSUME NEW r \in rows, ReapRow(r)
      PROVE  DownloadsHaveBytes' /\ ExpiredBytesGone'
  BY <1>5 DEF ReapRow, ReapCancelled, ReapExhausted, ReapRequeue, ReapSkip,
     StillStale
<1>6. ASSUME NEW j \in Jobs, immediate_cancel(j)
      PROVE  DownloadsHaveBytes' /\ ExpiredBytesGone'
  BY <1>6 DEF immediate_cancel, CancelApplies
<1>7. ASSUME NEW j \in Jobs, expire_due_outputs(j)
      PROVE  DownloadsHaveBytes' /\ ExpiredBytesGone'
  BY <1>7 DEF expire_due_outputs, Purged
<1>8. CASE OtherWrite
  BY <1>8 DEF OtherWrite, promote_output, MayPromote, emit_dead_letter,
     announce_cancel, flag_cancel, row
<1>9. CASE QuietAction
  <2> USE <1>9, QuietFrame DEF row
  <2>1. CASE UNCHANGED <<files, blobs>>
    BY <2>1 DEF QuietAction, claim_refused, Work, Progress, raise_if_cancelled,
       create_output_blob, discard_output, FinishFenced, retry_enqueue,
       ConverterRaises, Raises, Redeliver, WorkerDies, HeartbeatAges,
       WorkerStalls, request_cancel, CancelRequestDies, RetentionElapses,
       ExpiryRollsBack, purge_terminal_input_files, requeue_stale_jobs,
       reap_enqueue, ReaperDies, garbage_collect_blobs, vars
  <2>2. ASSUME NEW w \in Workers, create_output_blob(w) PROVE DownloadsHaveBytes' /\ ExpiredBytesGone'
    BY <2>2 DEF create_output_blob
  <2>3. ASSUME NEW w \in Workers, discard_output(w) PROVE DownloadsHaveBytes' /\ ExpiredBytesGone'
    BY <2>3 DEF discard_output, Discards
  <2>4. ASSUME NEW j \in Jobs, ExpiryRollsBack(j) PROVE DownloadsHaveBytes' /\ ExpiredBytesGone'
    BY <2>4 DEF ExpiryRollsBack, Purged
  <2>5. ASSUME NEW b \in blobs, garbage_collect_blobs(b) PROVE DownloadsHaveBytes' /\ ExpiredBytesGone'
    BY <2>5 DEF garbage_collect_blobs, Unreferenced
  <2> QED
    BY <2>1, <2>2, <2>3, <2>4, <2>5, QuietFiles
<1> HIDE DEF DownloadsHaveBytes, ExpiredBytesGone, Downloadable,
     DoneLinksNewestClaim, NewestAttempt, Holds, Claims, Waiting, TypeOK,
     storage
<1> QED
  BY <1>1, <1>2, <1>3, <1>4, <1>5, <1>6, <1>7, <1>8, <1>9, Kinds DEF RowAction

\* A request announces only a cancellation that has happened, and a CANCELLED
\* row stays CANCELLED.
LEMMA AnnounceStep ==
  ASSUME TypeOK, AnnouncesCancelled, [Next]_vars
  PROVE  AnnouncesCancelled'
<1> USE DEF AnnouncesCancelled, Waiting, StaleRows, Claims, TypeOK
<1>1. ASSUME NEW w \in Workers, NEW j \in Jobs,
             NEW via \in {"message", "command"}, claim_job(w, j, via)
      PROVE  AnnouncesCancelled'
  BY <1>1 DEF claim_job, Claimable
<1>2. ASSUME NEW w \in Workers, NEW j \in Jobs,
             NEW via \in {"message", "command"}, claim_cancelled(w, j, via)
      PROVE  AnnouncesCancelled'
  BY <1>2 DEF claim_cancelled
<1>3. ASSUME NEW w \in Workers, Finish(w) PROVE AnnouncesCancelled'
  BY <1>3 DEF Finish, terminal_transition, Holds, EndSteps
<1>4. ASSUME NEW w \in Workers, retry_transition(w) PROVE AnnouncesCancelled'
  BY <1>4 DEF retry_transition, Holds
<1>5. ASSUME NEW r \in rows, ReapRow(r) PROVE AnnouncesCancelled'
  BY <1>5 DEF ReapRow, ReapCancelled, ReapExhausted, ReapRequeue, ReapSkip,
     StillStale
<1>6. ASSUME NEW j \in Jobs, immediate_cancel(j) PROVE AnnouncesCancelled'
  BY <1>6 DEF immediate_cancel, CancelApplies
<1>7. ASSUME NEW j \in Jobs, expire_due_outputs(j) PROVE AnnouncesCancelled'
  BY <1>7 DEF expire_due_outputs
<1>8. CASE OtherWrite
  BY <1>8 DEF OtherWrite, promote_output, emit_dead_letter, announce_cancel,
     flag_cancel, row
<1>9. CASE QuietAction
  <2>1. UNCHANGED status
    BY <1>9, QuietFrame DEF row
  <2>2. \A j \in Jobs : canceller'[j] = "announce" => canceller[j] = "announce"
    BY <1>9 DEF QuietAction, claim_refused, Work, Progress, raise_if_cancelled,
       create_output_blob, discard_output, FinishFenced, retry_enqueue,
       ConverterRaises, Raises, Redeliver, WorkerDies, HeartbeatAges,
       WorkerStalls, request_cancel, CancelRequestDies, RetentionElapses,
       ExpiryRollsBack, purge_terminal_input_files, requeue_stale_jobs,
       reap_enqueue, ReaperDies, garbage_collect_blobs, vars
  <2> QED
    BY <2>1, <2>2
<1> HIDE DEF AnnouncesCancelled, Waiting, StaleRows, Claims, TypeOK
<1> QED
  BY <1>1, <1>2, <1>3, <1>4, <1>5, <1>6, <1>7, <1>8, <1>9, Kinds DEF RowAction

\* The ledger changes only in the step that completes a job.
LEMMA BilledStep ==
  ASSUME TypeOK, BilledExactlyOnce, [Next]_vars
  PROVE  BilledExactlyOnce'
<1> USE DEF BilledExactlyOnce, Waiting, StaleRows, Claims, TypeOK, effects
<1>1. ASSUME NEW w \in Workers, NEW j \in Jobs,
             NEW via \in {"message", "command"}, claim_job(w, j, via)
      PROVE  BilledExactlyOnce'
  BY <1>1 DEF claim_job, Claimable
<1>2. ASSUME NEW w \in Workers, NEW j \in Jobs,
             NEW via \in {"message", "command"}, claim_cancelled(w, j, via)
      PROVE  BilledExactlyOnce'
  BY <1>2 DEF claim_cancelled
<1>3. ASSUME NEW w \in Workers, Finish(w) PROVE BilledExactlyOnce'
  BY <1>3 DEF Finish, EndSteps, EndingAt, terminal_transition, Expires, Holds
<1>4. ASSUME NEW w \in Workers, retry_transition(w) PROVE BilledExactlyOnce'
  BY <1>4 DEF retry_transition, Holds
<1>5. ASSUME NEW r \in rows, ReapRow(r) PROVE BilledExactlyOnce'
  BY <1>5 DEF ReapRow, ReapCancelled, ReapExhausted, ReapRequeue, ReapSkip,
     StillStale
<1>6. ASSUME NEW j \in Jobs, immediate_cancel(j) PROVE BilledExactlyOnce'
  BY <1>6 DEF immediate_cancel, CancelApplies
<1>7. ASSUME NEW j \in Jobs, expire_due_outputs(j) PROVE BilledExactlyOnce'
  BY <1>7 DEF expire_due_outputs
<1>8. CASE OtherWrite
  BY <1>8 DEF OtherWrite, promote_output, emit_dead_letter, announce_cancel,
     flag_cancel, row
<1>9. CASE QuietAction
  BY <1>9, QuietFrame DEF row
<1> HIDE DEF BilledExactlyOnce, Waiting, StaleRows, Claims, TypeOK, effects
<1> QED
  BY <1>1, <1>2, <1>3, <1>4, <1>5, <1>6, <1>7, <1>8, <1>9, Kinds DEF RowAction

\* The part of the type invariant that the outbox and the refinement need.
OutcomeTypes ==
    /\ status \in [Jobs -> Status]
    /\ ledger \in [Jobs -> Nat]
    /\ claim \in [Workers -> Claims]
    /\ \A w \in Workers : pc[w] # "idle" => claim[w].job \in Jobs
    /\ rows \subseteq StaleRows

\* What the outbox may say of a job whose status is s.
EventsOf(j, s, events) ==
    /\ <<j, "done">> \in events <=> s \in {"DONE", "EXPIRED"}
    /\ <<j, "failed">> \in events <=> s = "FAILED"
    /\ <<j, "cancelled">> \in events => s = "CANCELLED"
    /\ <<j, "dead_letter">> \in events => s = "FAILED"

\* It is enough to look at the one job that a step writes.
LEMMA OneJobWritten ==
  ASSUME status \in [Jobs -> Status], OutboxAgreesWithRow,
         NEW j \in Jobs, EventsOf(j, status'[j], outbox'),
         \A k \in Jobs \ {j} : status'[k] = status[k],
         \A k \in Jobs \ {j} : \A e \in Events :
             <<k, e>> \in outbox' <=> <<k, e>> \in outbox
  PROVE  OutboxAgreesWithRow'
<1>1. ASSUME NEW k \in Jobs \ {j} PROVE EventsOf(k, status'[k], outbox')
  <2>1. "done" \in Events /\ "failed" \in Events /\ "cancelled" \in Events
        /\ "dead_letter" \in Events
    BY DEF Events, Outcomes
  <2> QED
    BY <1>1, <2>1 DEF OutboxAgreesWithRow, EventsOf
<1> QED
  BY <1>1 DEF OutboxAgreesWithRow, EventsOf

\* Every outbox row is written by the step that makes it true, or after it.
LEMMA OutboxStep ==
  ASSUME OutcomeTypes, NewestAttempt, AnnouncesCancelled, OutboxAgreesWithRow,
         [Next]_vars
  PROVE  OutboxAgreesWithRow'
<1> USE DEF OutcomeTypes, OutboxAgreesWithRow
<1>1. ASSUME NEW w \in Workers, NEW j \in Jobs,
             NEW via \in {"message", "command"}, claim_job(w, j, via)
      PROVE  OutboxAgreesWithRow'
  BY <1>1 DEF claim_job, Claimable, Waiting, effects
<1>2. ASSUME NEW w \in Workers, NEW j \in Jobs,
             NEW via \in {"message", "command"}, claim_cancelled(w, j, via)
      PROVE  OutboxAgreesWithRow'
  BY <1>2 DEF claim_cancelled, Waiting
<1>3. ASSUME NEW w \in Workers, Finish(w) PROVE OutboxAgreesWithRow'
  BY <1>3 DEF Finish, EndSteps, EndingAt, terminal_transition, Expires, Holds,
     Claims
<1>4. ASSUME NEW w \in Workers, retry_transition(w) PROVE OutboxAgreesWithRow'
  BY <1>4 DEF retry_transition, Holds, effects, Claims
<1>5. ASSUME NEW r \in rows, ReapRow(r) PROVE OutboxAgreesWithRow'
  <2>1. r.job \in Jobs
    BY DEF StaleRows
  <2>2. CASE ReapCancelled(r)
    BY <2>1, <2>2, OneJobWritten DEF ReapCancelled, EventsOf
  <2>3. CASE ReapExhausted(r)
    BY <2>1, <2>3, OneJobWritten DEF ReapExhausted, StillStale, EventsOf
  <2>4. CASE ReapRequeue(r)
    BY <2>1, <2>4, OneJobWritten DEF ReapRequeue, StillStale, EventsOf
  <2>5. CASE ReapSkip(r)
    BY <2>5 DEF ReapSkip
  <2> QED
    BY <1>5, <2>2, <2>3, <2>4, <2>5 DEF ReapRow
<1>6. ASSUME NEW j \in Jobs, immediate_cancel(j) PROVE OutboxAgreesWithRow'
  BY <1>6, OneJobWritten
     DEF immediate_cancel, CancelApplies, Waiting, effects, EventsOf
<1>7. ASSUME NEW j \in Jobs, expire_due_outputs(j) PROVE OutboxAgreesWithRow'
  BY <1>7, OneJobWritten DEF expire_due_outputs, effects, EventsOf
<1>8. ASSUME NEW w \in Workers, promote_output(w) PROVE OutboxAgreesWithRow'
  BY <1>8 DEF promote_output, effects
<1>9. ASSUME NEW w \in Workers, emit_dead_letter(w) PROVE OutboxAgreesWithRow'
  <2>1. PICK j \in Jobs : /\ j = claim[w].job
                          /\ status[j] = "FAILED"
                          /\ status' = status
                          /\ outbox' = outbox \cup {<<j, "dead_letter">>}
    BY <1>9 DEF emit_dead_letter, NewestAttempt, row
  <2> QED
    BY <2>1
<1>10. ASSUME NEW j \in Jobs, announce_cancel(j) PROVE OutboxAgreesWithRow'
  BY <1>10 DEF announce_cancel, AnnouncesCancelled, row
<1>11. ASSUME NEW j \in Jobs, flag_cancel(j) PROVE OutboxAgreesWithRow'
  BY <1>11 DEF flag_cancel, effects
<1>12. CASE QuietAction
  BY <1>12, QuietFrame DEF row, effects
<1> HIDE DEF OutcomeTypes, OutboxAgreesWithRow
<1> QED
  BY <1>1, <1>2, <1>3, <1>4, <1>5, <1>6, <1>7, <1>8, <1>9, <1>10, <1>11,
     <1>12, Kinds DEF RowAction, OtherWrite

\* Inputs are purged only for rows that no attempt can claim again.
LEMMA InputStep ==
  ASSUME TypeOK, ActiveKeepsInput, [Next]_vars
  PROVE  ActiveKeepsInput'
<1> USE DEF ActiveKeepsInput, Waiting, Active, Terminal, StaleRows, Claims,
     TypeOK, storage
<1>1. ASSUME NEW w \in Workers, NEW j \in Jobs,
             NEW via \in {"message", "command"}, claim_job(w, j, via)
      PROVE  ActiveKeepsInput'
  BY <1>1 DEF claim_job, Claimable
<1>2. ASSUME NEW w \in Workers, NEW j \in Jobs,
             NEW via \in {"message", "command"}, claim_cancelled(w, j, via)
      PROVE  ActiveKeepsInput'
  BY <1>2 DEF claim_cancelled
<1>3. ASSUME NEW w \in Workers, Finish(w) PROVE ActiveKeepsInput'
  BY <1>3 DEF Finish, terminal_transition, Holds, EndSteps
<1>4. ASSUME NEW w \in Workers, retry_transition(w) PROVE ActiveKeepsInput'
  BY <1>4 DEF retry_transition, Holds
<1>5. ASSUME NEW r \in rows, ReapRow(r) PROVE ActiveKeepsInput'
  BY <1>5 DEF ReapRow, ReapCancelled, ReapExhausted, ReapRequeue, ReapSkip,
     StillStale
<1>6. ASSUME NEW j \in Jobs, immediate_cancel(j) PROVE ActiveKeepsInput'
  BY <1>6 DEF immediate_cancel, CancelApplies
<1>7. ASSUME NEW j \in Jobs, expire_due_outputs(j) PROVE ActiveKeepsInput'
  BY <1>7 DEF expire_due_outputs
<1>8. CASE OtherWrite
  BY <1>8 DEF OtherWrite, promote_output, emit_dead_letter, announce_cancel,
     flag_cancel, row
<1>9. CASE QuietAction
  <2>1. UNCHANGED status
    BY <1>9, QuietFrame DEF row
  <2>2. CASE UNCHANGED inputs
    BY <2>1, <2>2
  <2>3. ASSUME NEW j \in Jobs, purge_terminal_input_files(j)
        PROVE  ActiveKeepsInput'
    BY <2>1, <2>3 DEF purge_terminal_input_files, InputPurgeable
  <2>4. \/ UNCHANGED inputs
        \/ \E j \in Jobs : purge_terminal_input_files(j)
    BY <1>9 DEF QuietAction, claim_refused, Work, Progress, raise_if_cancelled,
       create_output_blob, discard_output, FinishFenced, retry_enqueue,
       ConverterRaises, Raises, Redeliver, WorkerDies, HeartbeatAges,
       WorkerStalls, request_cancel, CancelRequestDies, RetentionElapses,
       ExpiryRollsBack, requeue_stale_jobs, reap_enqueue, ReaperDies,
       garbage_collect_blobs, vars
  <2> QED
    BY <2>2, <2>3, <2>4
<1> HIDE DEF ActiveKeepsInput, Waiting, Active, Terminal, StaleRows, Claims,
     TypeOK, storage
<1> QED
  BY <1>1, <1>2, <1>3, <1>4, <1>5, <1>6, <1>7, <1>8, <1>9, Kinds DEF RowAction

-----------------------------------------------------------------------------
\* The initial states satisfy the inductive invariant.
LEMMA InitSafety == Init => SafetyInv
<1> SUFFICES ASSUME Init PROVE SafetyInv
  OBVIOUS
<1>1. TypeOK
  BY ConstantsOK DEF Init, TypeOK, Steps, Claims, NoClaim, Status, Active, Waiting
<1>2. ClaimsFenced /\ NewestAttempt /\ AttemptOutputStored
  BY DEF Init, ClaimsFenced, NewestAttempt, AttemptOutputStored
<1>3. SnapshotAccurate /\ RetriesWithinBudget
  BY ConstantsOK DEF Init, SnapshotAccurate, RetriesWithinBudget
<1>4. DoneLinksNewestClaim /\ DownloadsHaveBytes /\ ExpiredBytesGone
  BY DEF Init, DoneLinksNewestClaim, DownloadsHaveBytes, ExpiredBytesGone, Downloadable
<1>5. AnnouncesCancelled /\ BilledExactlyOnce /\ OutboxAgreesWithRow /\ ActiveKeepsInput
  BY DEF Init, AnnouncesCancelled, BilledExactlyOnce, OutboxAgreesWithRow,
     ActiveKeepsInput
<1> QED
  BY <1>1, <1>2, <1>3, <1>4, <1>5 DEF SafetyInv

\* Every step preserves the inductive invariant, layer by layer.
LEMMA StepSafety == SafetyInv /\ [Next]_vars => SafetyInv'
<1> SUFFICES ASSUME SafetyInv, [Next]_vars PROVE SafetyInv'
  OBVIOUS
<1> USE DEF SafetyInv
<1>1. TypeOK'
  BY TypeStep
<1>2. ClaimsFenced'
  BY ClaimsFencedStep
<1>3. NewestAttempt'
  BY <1>1, NewestAttemptStep
<1>4. SnapshotAccurate' /\ RetriesWithinBudget'
  BY <1>1, BudgetStep
<1>5. AttemptOutputStored' /\ DoneLinksNewestClaim'
  BY <1>1, <1>2, <1>3, OutputStep
<1>6. DownloadsHaveBytes' /\ ExpiredBytesGone'
  BY <1>1, BytesStep
<1>7. AnnouncesCancelled'
  BY <1>1, AnnounceStep
<1>8. BilledExactlyOnce'
  BY <1>1, BilledStep
<1>9. OutboxAgreesWithRow'
  <2>1. OutcomeTypes
    BY DEF OutcomeTypes, TypeOK
  <2> QED
    BY <2>1, OutboxStep
<1>10. ActiveKeepsInput'
  BY <1>1, InputStep
<1> QED
  BY <1>1, <1>2, <1>3, <1>4, <1>5, <1>6, <1>7, <1>8, <1>9, <1>10

\* The inductive invariant holds in every reachable state of the protocol.
THEOREM Safety == Spec => []SafetyInv
<1>1. Init => SafetyInv
  BY InitSafety
<1>2. SafetyInv /\ [Next]_vars => SafetyInv'
  BY StepSafety
<1> QED
  BY <1>1, <1>2, PTL DEF Spec

\* Type correctness of the job rows, the workers, the reaper and the queues.
THEOREM TypeCorrect == Spec => []TypeOK
<1>1. SafetyInv => TypeOK
  BY DEF SafetyInv
<1> QED
  BY <1>1, Safety, PTL

\* claim_job's generation fences attempts: at most one passes the write filter
\* of a job at any time.
THEOREM Fencing == Spec => []SingleHolder
<1>1. SafetyInv => SingleHolder
  BY DEF SafetyInv, TypeOK, ClaimsFenced, SingleHolder, Holds
<1> QED
  BY <1>1, Safety, PTL

\* The attempt budget holds for every job that waits, although the reaper
\* decides from a snapshot.
THEOREM RetryBudget == Spec => []RetriesWithinBudget
<1>1. SafetyInv => RetriesWithinBudget
  BY DEF SafetyInv
<1> QED
  BY <1>1, Safety, PTL

\* A DONE job links the output of its newest claim.
THEOREM FencedPromotion == Spec => []DoneLinksNewestClaim
<1>1. SafetyInv => DoneLinksNewestClaim
  BY DEF SafetyInv
<1> QED
  BY <1>1, Safety, PTL

\* What output_downloadable offers has its bytes on disk.
THEOREM DownloadIntegrity == Spec => []DownloadsHaveBytes
<1>1. SafetyInv => DownloadsHaveBytes
  BY DEF SafetyInv
<1> QED
  BY <1>1, Safety, PTL

\* A job is billed exactly once if it completed, and never otherwise.
THEOREM ExactBilling == Spec => []BilledExactlyOnce
<1>1. SafetyInv => BilledExactlyOnce
  BY DEF SafetyInv
<1> QED
  BY <1>1, Safety, PTL

\* The outbox never contradicts the row.
THEOREM TruthfulOutbox == Spec => []OutboxAgreesWithRow
<1>1. SafetyInv => OutboxAgreesWithRow
  BY DEF SafetyInv
<1> QED
  BY <1>1, Safety, PTL

\* An expired job's bytes are gone, whichever of expire_due_outputs and the
\* completing transaction purged them.
THEOREM ExpiryDeletes == Spec => []ExpiredBytesGone
<1>1. SafetyInv => ExpiredBytesGone
  BY DEF SafetyInv
<1> QED
  BY <1>1, Safety, PTL

\* A job that can still be attempted has its input: purge_terminal_input_files
\* never outruns a retry or a takeover.
THEOREM InputsOutliveAttempts == Spec => []ActiveKeepsInput
<1>1. SafetyInv => ActiveKeepsInput
  BY DEF SafetyInv
<1> QED
  BY <1>1, Safety, PTL

-----------------------------------------------------------------------------
(* Dead letters.  SafetyInv says nothing of why an attempt gave up; the    *)
(* cause must be carried from retry_transition to emit_dead_letter, two    *)
(* commits later.                                                          *)

\* What justifies a dead letter of j; neither part is ever revoked.
Cause(j) == attempt_count[j] >= MAX_ATTEMPTS \/ cancel_requested[j]

\* An attempt that gave up and may still fail its job, or has failed it, did
\* so for a cause.
GivesUpForCause ==
    \A w \in Workers :
        /\ pc[w] = "exhausted" /\ Holds(w) => Cause(claim[w].job)
        /\ pc[w] = "deadLetter" => Cause(claim[w].job)

\* attempt_count only grows and cancel_requested is never reset.
LEMMA CauseRemains ==
  ASSUME TypeOK, [Next]_vars, NEW k \in Jobs, Cause(k)
  PROVE  Cause(k)'
<1> USE ConstantsOK DEF Cause, TypeOK
<1>1. ASSUME NEW w \in Workers, NEW j \in Jobs,
             NEW via \in {"message", "command"}, claim_job(w, j, via)
      PROVE  Cause(k)'
  BY <1>1 DEF claim_job
<1>2. UNCHANGED attempt_count \/
      \E w \in Workers, j \in Jobs, via \in {"message", "command"} : claim_job(w, j, via)
  BY AttemptFrame
<1>3. CASE RowAction
  <2>1. cancel_requested' = cancel_requested \/ \E j \in Jobs : immediate_cancel(j)
    BY <1>3 DEF RowAction, claim_job, claim_cancelled, Finish, terminal_transition,
       retry_transition, ReapRow, expire_due_outputs
  <2>2. \A j \in Jobs : immediate_cancel(j) => (cancel_requested[k] => cancel_requested'[k])
    BY DEF immediate_cancel
  <2> QED
    BY <1>1, <1>2, <2>1, <2>2
<1>4. CASE OtherWrite
  <2>1. cancel_requested[k] => cancel_requested'[k]
    BY <1>4 DEF OtherWrite, promote_output, emit_dead_letter, announce_cancel,
       flag_cancel, row
  <2> QED
    BY <1>1, <1>2, <2>1
<1>5. CASE QuietAction
  BY <1>5, QuietFrame DEF row
<1> QED
  BY <1>3, <1>4, <1>5, Kinds

\* An attempt that has lost its claim never holds it again: PROCESSING is
\* only entered with a new generation.
LEMMA HoldsNoMore ==
  ASSUME TypeOK, ClaimsFenced, [Next]_vars, NEW x \in Workers,
         pc[x] # "idle", claim'[x] = claim[x], Holds(x)'
  PROVE  Holds(x)
<1> USE DEF Holds, TypeOK, Claims, ClaimsFenced
<1>1. ASSUME NEW w \in Workers, NEW j \in Jobs,
             NEW via \in {"message", "command"}, claim_job(w, j, via)
      PROVE  Holds(x)
  BY <1>1 DEF claim_job, NextGeneration
<1>2. CASE RowAction
  <2>1. ASSUME NEW w \in Workers, NEW j \in Jobs,
               NEW via \in {"message", "command"}, claim_cancelled(w, j, via)
        PROVE  Holds(x)
    BY <2>1 DEF claim_cancelled
  <2>2. ASSUME NEW w \in Workers, Finish(w) PROVE Holds(x)
    BY <2>2 DEF Finish, EndSteps, EndingAt, terminal_transition, Expires
  <2>3. ASSUME NEW w \in Workers, retry_transition(w) PROVE Holds(x)
    BY <2>3 DEF retry_transition
  <2>4. ASSUME NEW r \in rows, ReapRow(r) PROVE Holds(x)
    BY <2>4 DEF ReapRow, ReapCancelled, ReapExhausted, ReapRequeue, ReapSkip,
       StaleRows
  <2>5. ASSUME NEW j \in Jobs, immediate_cancel(j) \/ expire_due_outputs(j)
        PROVE  Holds(x)
    BY <2>5 DEF immediate_cancel, expire_due_outputs
  <2> QED
    BY <1>1, <1>2, <2>1, <2>2, <2>3, <2>4, <2>5 DEF RowAction
<1>3. CASE OtherWrite
  BY <1>3 DEF OtherWrite, promote_output, emit_dead_letter, announce_cancel,
     flag_cancel, row
<1>4. CASE QuietAction
  BY <1>4, QuietFrame DEF row
<1> QED
  BY <1>1, <1>2, <1>3, <1>4, Kinds

\* Only a worker whose update was refused gives up, only one that holds its
\* claim goes on to the dead letter, and a worker that moves keeps its claim.
LEMMA GivingUp ==
  ASSUME TypeOK, [Next]_vars, NEW x \in Workers,
         pc'[x] \in {"exhausted", "deadLetter"}
  PROVE  /\ claim'[x] = claim[x] /\ pc[x] # "idle"
         /\ \/ pc'[x] = pc[x]
            \/ pc'[x] = "exhausted" /\ retry_transition(x)
            \/ pc'[x] = "deadLetter" /\ pc[x] = "exhausted" /\ Holds(x)
<1> USE DEF TypeOK, Goto
<1>1. CASE RowAction
  BY <1>1 DEF RowAction, claim_job, claim_cancelled, Finish, EndSteps,
     retry_transition, ReapRow, immediate_cancel, expire_due_outputs, attempts
<1>2. CASE OtherWrite
  BY <1>2 DEF OtherWrite, promote_output, emit_dead_letter, announce_cancel,
     flag_cancel, NextPc, attempts
<1>3. CASE QuietAction
  <2>1. CASE UNCHANGED attempts
    BY <2>1 DEF attempts
  <2>2. ASSUME NEW w \in Workers, create_output_blob(w)
        PROVE  pc'[x] = pc[x] /\ claim'[x] = claim[x]
    BY <2>2 DEF create_output_blob, NextPc
  <2>3. ASSUME NEW w \in Workers, NEW step \in QuietSteps, Move(w, step)
        PROVE  pc'[x] = pc[x] /\ claim'[x] = claim[x]
    BY <2>3 DEF Move, QuietSteps
  <2> QED
    BY <1>3, <2>1, <2>2, <2>3, QuietFrame
<1> QED
  BY <1>1, <1>2, <1>3, Kinds

\* Every step preserves both.
LEMMA CauseStep ==
  ASSUME TypeOK, ClaimsFenced, SnapshotAccurate, GivesUpForCause,
         DeadLetterHasCause, [Next]_vars
  PROVE  GivesUpForCause' /\ DeadLetterHasCause'
<1>1. ASSUME NEW x \in Workers, pc'[x] \in {"exhausted", "deadLetter"},
             pc'[x] = "exhausted" => Holds(x)'
      PROVE  Cause(claim[x].job)'
  <2>1. claim'[x] = claim[x] /\ claim[x].job \in Jobs /\ pc[x] # "idle"
    BY <1>1, GivingUp DEF TypeOK
  <2>2. pc'[x] = "exhausted" => Holds(x)
    BY <1>1, <2>1, HoldsNoMore
  <2>3. Cause(claim[x].job)
    <3>1. CASE retry_transition(x) /\ pc'[x] = "exhausted"
      BY <3>1, <2>1, <2>2, ConstantsOK DEF retry_transition, CanRetry, Cause,
         ClaimsFenced, Holds, TypeOK, Claims, Goto
    <3> QED
      BY <1>1, <2>2, <3>1, GivingUp DEF GivesUpForCause
  <2> QED
    BY <2>1, <2>3, CauseRemains
<1>2. GivesUpForCause'
  BY <1>1 DEF GivesUpForCause
<1>3. ASSUME NEW k \in Jobs, <<k, "dead_letter">> \in outbox'
      PROVE  Cause(k)
  <2> USE DEF TypeOK, StaleRows, effects
  <2>1. ASSUME NEW w \in Workers, emit_dead_letter(w) PROVE Cause(k)
    BY <1>3, <2>1 DEF emit_dead_letter, GivesUpForCause, DeadLetterHasCause, Cause
  <2>2. ASSUME NEW r \in rows, ReapRow(r) PROVE Cause(k)
    BY <1>3, <2>2 DEF ReapRow, ReapCancelled, ReapExhausted, ReapRequeue,
       ReapSkip, StillStale, SnapshotAccurate, DeadLetterHasCause, Cause
  <2>3. ASSUME NEW w \in Workers, Finish(w) PROVE Cause(k)
    BY <1>3, <2>3 DEF Finish, terminal_transition, EndingAt, DeadLetterHasCause, Cause
  <2>4. CASE RowAction
    BY <1>3, <2>2, <2>3, <2>4 DEF RowAction, claim_job, claim_cancelled,
       retry_transition, immediate_cancel, expire_due_outputs, DeadLetterHasCause, Cause
  <2>5. CASE OtherWrite
    BY <1>3, <2>1, <2>5 DEF OtherWrite, promote_output, announce_cancel, flag_cancel,
       DeadLetterHasCause, Cause
  <2>6. CASE QuietAction
    BY <1>3, <2>6, QuietFrame DEF DeadLetterHasCause, Cause
  <2> QED
    BY <2>4, <2>5, <2>6, Kinds
<1>4. DeadLetterHasCause'
  BY <1>3, CauseRemains DEF DeadLetterHasCause, Cause
<1> QED
  BY <1>2, <1>4

\* emit_dead_letter and the reaper report only jobs that used all their
\* attempts or were cancelled: crashes, takeovers and the reaper's snapshot
\* never make a job look exhausted early.
THEOREM DeadLettersHaveCause == Spec => []DeadLetterHasCause
<1>1. Init => GivesUpForCause /\ DeadLetterHasCause
  BY DEF Init, GivesUpForCause, DeadLetterHasCause
<1>2. SafetyInv /\ GivesUpForCause /\ DeadLetterHasCause /\ [Next]_vars
        => GivesUpForCause' /\ DeadLetterHasCause'
  BY CauseStep DEF SafetyInv
<1> QED
  BY <1>1, <1>2, Safety, PTL DEF Spec

-----------------------------------------------------------------------------
(* Lost enqueues.                                                          *)

\* What an action does to the stranded rows: it strands none, or it is counted
\* as a loss and strands one.
StrandsNone == Stranded' \subseteq Stranded /\ lost' = lost

StrandsOne ==
    \E j \in Jobs : Stranded' \subseteq Stranded \cup {j} /\ lost' = lost + 1

\* Actions that leave alone the status, the messages, and who is about to
\* enqueue.
LEMMA StrandedFrame ==
  ASSUME UNCHANGED <<status, queue, requeuing, lost>>,
         \A w \in Workers : pc[w] = "retryQueue" =>
             pc'[w] = pc[w] /\ claim'[w] = claim[w]
  PROVE  StrandsNone
  BY DEF StrandsNone, Stranded

\* A worker that moves, and was not about to enqueue.
LEMMA StrandedMove ==
  ASSUME TypeOK, UNCHANGED <<status, queue, requeuing, lost>>,
         NEW w \in Workers, NEW step, pc[w] # "retryQueue", Goto(w, step)
  PROVE  StrandsNone
<1>1. \A v \in Workers : pc[v] = "retryQueue" =>
          pc'[v] = pc[v] /\ claim'[v] = claim[v]
  BY DEF Goto, TypeOK
<1> QED
  BY <1>1, StrandedFrame

\* The actions that write a status.
LEMMA StrandedRow ==
  ASSUME TypeOK, RowAction
  PROVE  StrandsNone
<1> USE ConstantsOK DEF TypeOK, Stranded, StrandsNone, Waiting, Take, Goto, budget
<1>1. ASSUME NEW w \in Workers, NEW j \in Jobs,
             NEW via \in {"message", "command"}, claim_job(w, j, via)
      PROVE  StrandsNone
  BY <1>1 DEF claim_job, reaping
<1>2. ASSUME NEW w \in Workers, NEW j \in Jobs,
             NEW via \in {"message", "command"}, claim_cancelled(w, j, via)
      PROVE  StrandsNone
  BY <1>2 DEF claim_cancelled, attempts, reaping
<1>3. ASSUME NEW w \in Workers, Finish(w) PROVE StrandsNone
  BY <1>3 DEF Finish, terminal_transition, EndingAt, EndSteps, Expires, reaping
<1>4. ASSUME NEW w \in Workers, retry_transition(w) PROVE StrandsNone
  BY <1>4 DEF retry_transition, reaping
<1>5. ASSUME NEW r \in rows, ReapRow(r) PROVE StrandsNone
  BY <1>5 DEF ReapRow, ReapCancelled, ReapExhausted, ReapRequeue, ReapSkip,
     StaleRows, attempts
<1>6. ASSUME NEW j \in Jobs, immediate_cancel(j) \/ expire_due_outputs(j)
      PROVE  StrandsNone
  BY <1>6 DEF immediate_cancel, expire_due_outputs, attempts, reaping
<1> HIDE DEF TypeOK, Stranded, StrandsNone, Waiting, Take, Goto, budget
<1> QED
  BY <1>1, <1>2, <1>3, <1>4, <1>5, <1>6 DEF RowAction

\* The actions that write another field.
LEMMA StrandedOther ==
  ASSUME TypeOK, OtherWrite
  PROVE  StrandsNone
<1>1. ASSUME NEW w \in Workers, promote_output(w) \/ emit_dead_letter(w)
      PROVE  StrandsNone
  <2>1. /\ pc[w] # "retryQueue" /\ \E step : Goto(w, step)
        /\ UNCHANGED <<status, queue, requeuing, lost>>
    BY <1>1 DEF promote_output, emit_dead_letter, row, reaping, budget
  <2> QED
    BY <2>1, StrandedMove
<1>2. ASSUME NEW j \in Jobs, announce_cancel(j) \/ flag_cancel(j)
      PROVE  StrandsNone
  BY <1>2, StrandedFrame DEF announce_cancel, flag_cancel, row, attempts,
     reaping, budget
<1> QED
  BY <1>1, <1>2 DEF OtherWrite

\* The remaining actions: a refused delivery consumes the message of a row that
\* does not wait, an enqueue leaves a message, and only a death on the way to
\* an enqueue strands a row.
LEMMA StrandedQuiet ==
  ASSUME TypeOK, QuietAction
  PROVE  StrandsNone \/ StrandsOne
<1>1. ASSUME NEW w \in Workers, NEW j \in Jobs, claim_refused(w, j)
      PROVE  StrandsNone
  BY <1>1 DEF claim_refused, Claimable, Take, TypeOK, Stranded, StrandsNone,
     Waiting, row, attempts, reaping, budget
<1>2. ASSUME NEW w \in Workers,
             \/ Work(w) \/ raise_if_cancelled(w) \/ create_output_blob(w)
             \/ discard_output(w) \/ FinishFenced(w) \/ ConverterRaises(w) \/ Raises(w)
      PROVE  StrandsNone
  <2>1. /\ pc[w] # "retryQueue" /\ \E step : Goto(w, step)
        /\ UNCHANGED <<status, queue, requeuing, lost>>
    BY <1>2 DEF Work, raise_if_cancelled, create_output_blob, discard_output,
       FinishFenced, ConverterRaises, Raises, TryBody, Discards, EndSteps,
       row, reaping, budget
  <2> QED
    BY <2>1, StrandedMove
<1>3. ASSUME NEW w \in Workers, retry_enqueue(w) PROVE StrandsNone
  BY <1>3 DEF retry_enqueue, Goto, TypeOK, Stranded, StrandsNone, row, reaping,
     budget
<1>4. ASSUME NEW w \in Workers, Redeliver(w) PROVE StrandsNone
  BY <1>4 DEF Redeliver, TypeOK, Stranded, StrandsNone, row, attempts, reaping
<1>5. ASSUME NEW w \in Workers, NEW redelivered \in BOOLEAN, WorkerDies(w, redelivered)
      PROVE  StrandsNone \/ StrandsOne
  <2> USE DEF WorkerDies, Goto, TypeOK, Stranded, row, reaping
  <2>1. CASE redelivered
    BY <1>5, <2>1 DEF StrandsNone
  <2>2. CASE ~redelivered /\ pc[w] = "retryQueue"
    <3>1. claim[w].job \in Jobs /\ lost' = lost + 1
      BY <1>5, <2>2
    <3>2. Stranded' \subseteq Stranded \cup {claim[w].job}
      BY <1>5, <2>2
    <3> QED
      BY <3>1, <3>2 DEF StrandsOne
  <2>3. CASE ~redelivered /\ pc[w] # "retryQueue"
    BY <1>5, <2>3 DEF StrandsNone
  <2> QED
    BY <2>1, <2>2, <2>3
<1>6. CASE reap_enqueue
  BY <1>6 DEF reap_enqueue, TypeOK, Stranded, StrandsNone, row, attempts, budget
<1>7. CASE ReaperDies
  <2> USE DEF ReaperDies, TypeOK, Stranded, row, attempts
  <2>1. CASE requeuing = NoJob
    BY <1>7, <2>1 DEF StrandsNone
  <2>2. CASE requeuing # NoJob
    <3>1. Stranded' \subseteq Stranded \cup {requeuing}
      BY <1>7, <2>2
    <3> QED
      BY <1>7, <2>2, <3>1 DEF StrandsOne
  <2> QED
    BY <2>1, <2>2
<1>8. CASE \/ \E w \in Workers : Progress(w)
           \/ \E j \in Jobs : \/ HeartbeatAges(j) \/ WorkerStalls(j)
                              \/ request_cancel(j) \/ CancelRequestDies(j)
                              \/ RetentionElapses(j) \/ ExpiryRollsBack(j)
                              \/ purge_terminal_input_files(j)
           \/ requeue_stale_jobs
           \/ \E b \in blobs : garbage_collect_blobs(b)
           \/ UNCHANGED vars
  <2>1. UNCHANGED <<status, queue, requeuing, lost, pc, claim>>
    BY <1>8 DEF Progress, HeartbeatAges, WorkerStalls, request_cancel,
       CancelRequestDies, RetentionElapses, ExpiryRollsBack,
       purge_terminal_input_files, requeue_stale_jobs, garbage_collect_blobs,
       vars, row, attempts, reaping, budget
  <2> QED
    BY <2>1, StrandedFrame
<1> QED
  BY <1>1, <1>2, <1>3, <1>4, <1>5, <1>6, <1>7, <1>8 DEF QuietAction

\* The number of stranded rows stays within the number of losses.
StrandedInv == IsFiniteSet(Stranded) /\ StrandedByLossOnly

LEMMA StrandedStep ==
  ASSUME TypeOK, StrandedInv, [Next]_vars
  PROVE  StrandedInv'
<1> USE DEF StrandedInv, StrandedByLossOnly
<1>1. StrandsNone \/ StrandsOne
  BY Kinds, StrandedRow, StrandedOther, StrandedQuiet
<1>2. lost \in Nat /\ Cardinality(Stranded) \in Nat
  BY FS_CardinalityType DEF TypeOK
<1>3. CASE StrandsNone
  <2>1. IsFiniteSet(Stranded') /\ Cardinality(Stranded') <= Cardinality(Stranded)
    BY <1>3, FS_Subset, Zenon DEF StrandsNone
  <2>2. Cardinality(Stranded') \in Nat
    BY <2>1, FS_CardinalityType
  <2> QED
    BY <1>2, <1>3, <2>1, <2>2 DEF StrandsNone
<1>4. CASE StrandsOne
  <2>1. PICK j \in Jobs : Stranded' \subseteq Stranded \cup {j} /\ lost' = lost + 1
    BY <1>4 DEF StrandsOne
  <2>2. /\ IsFiniteSet(Stranded \cup {j})
        /\ Cardinality(Stranded \cup {j}) \in Nat
        /\ Cardinality(Stranded \cup {j}) <= Cardinality(Stranded) + 1
    <3>1. /\ IsFiniteSet(Stranded \cup {j})
          /\ \/ Cardinality(Stranded \cup {j}) = Cardinality(Stranded)
             \/ Cardinality(Stranded \cup {j}) = Cardinality(Stranded) + 1
      BY FS_AddElement, Zenon
    <3> QED
      BY <1>2, <3>1
  <2>3. /\ IsFiniteSet(Stranded')
        /\ Cardinality(Stranded') <= Cardinality(Stranded \cup {j})
    BY <2>1, <2>2, FS_Subset, Zenon
  <2>4. Cardinality(Stranded') \in Nat
    BY <2>3, FS_CardinalityType
  <2> QED
    BY <1>2, <2>1, <2>2, <2>3, <2>4
<1> QED
  BY <1>1, <1>3, <1>4

\* Only a crash between the commit of RETRYING and the enqueue strands a job,
\* one job each: the safety half of EveryJobEnds, for any number of losses.
THEOREM OnlyLossStrands == Spec => []StrandedByLossOnly
<1>1. Init => StrandedInv
  <2> SUFFICES ASSUME Init PROVE StrandedInv
    OBVIOUS
  <2>1. Stranded = {}
    BY DEF Init, Stranded
  <2> QED
    BY <2>1, FS_EmptySet DEF StrandedInv, StrandedByLossOnly, Init
<1>2. SafetyInv /\ StrandedInv /\ [Next]_vars => StrandedInv'
  BY StrandedStep DEF SafetyInv
<1>3. StrandedInv => StrandedByLossOnly
  BY DEF StrandedInv
<1> QED
  BY <1>1, <1>2, <1>3, Safety, PTL DEF Spec

-----------------------------------------------------------------------------
\* The step formula of FencedWorkerIsInert, for one worker.
InertStep(w) ==
    LET j == claim[w].job
    IN  /\ pc[w] # "idle"
        /\ pc'[w] # pc[w]
        /\ claim_generation[j] # claim[w].gen
        => UNCHANGED <<row, ledger, outbox>>

\* A step of a superseded attempt leaves the row and its effects alone.
LEMMA InertActions ==
  ASSUME TypeOK, NewestAttempt, NEW x \in Workers, [Next]_vars
  PROVE  InertStep(x)
<1> USE DEF InertStep, NewestAttempt, Holds, Claims, TypeOK, attempts
<1>1. ASSUME NEW w \in Workers, NEW j \in Jobs,
             NEW via \in {"message", "command"}, claim_job(w, j, via)
      PROVE  InertStep(x)
  BY <1>1 DEF claim_job
<1>2. ASSUME NEW w \in Workers, NEW j \in Jobs,
             NEW via \in {"message", "command"}, claim_cancelled(w, j, via)
      PROVE  InertStep(x)
  BY <1>2 DEF claim_cancelled
<1>3. ASSUME NEW w \in Workers, Finish(w) PROVE InertStep(x)
  BY <1>3 DEF Finish, Goto
<1>4. ASSUME NEW w \in Workers, retry_transition(w) PROVE InertStep(x)
  BY <1>4 DEF retry_transition, Goto, row, effects
<1>5. ASSUME NEW r \in rows, ReapRow(r) PROVE InertStep(x)
  BY <1>5 DEF ReapRow
<1>6. ASSUME NEW j \in Jobs, immediate_cancel(j) PROVE InertStep(x)
  BY <1>6 DEF immediate_cancel
<1>7. ASSUME NEW j \in Jobs, expire_due_outputs(j) PROVE InertStep(x)
  BY <1>7 DEF expire_due_outputs
<1>8. CASE OtherWrite
  <2>1. ASSUME NEW w \in Workers, promote_output(w) PROVE InertStep(x)
    BY <2>1 DEF promote_output, MayPromote, Goto, row, effects
  <2>2. ASSUME NEW w \in Workers, emit_dead_letter(w) PROVE InertStep(x)
    BY <2>2 DEF emit_dead_letter, Goto
  <2>3. ASSUME NEW j \in Jobs, announce_cancel(j) \/ flag_cancel(j)
        PROVE  InertStep(x)
    BY <2>3 DEF announce_cancel, flag_cancel
  <2> QED
    BY <1>8, <2>1, <2>2, <2>3 DEF OtherWrite
<1>9. CASE QuietAction
  BY <1>9, QuietFrame DEF effects
<1> HIDE DEF InertStep, NewestAttempt, Holds, Claims, TypeOK, attempts
<1> QED
  BY <1>1, <1>2, <1>3, <1>4, <1>5, <1>6, <1>7, <1>8, <1>9, Kinds DEF RowAction

\* A superseded worker changes neither the row nor its billing nor its
\* announcements, whatever step of run_conversion it wakes up in.
THEOREM ZombiesAreInert == Spec => FencedWorkerIsInert
<1>1. SafetyInv /\ [Next]_vars => [\A w \in Workers : InertStep(w)]_vars
  BY InertActions DEF SafetyInv
<1>2. Spec => [][\A w \in Workers : InertStep(w)]_vars
  BY <1>1, Safety, PTL DEF Spec
<1> QED
  BY <1>2 DEF FencedWorkerIsInert, InertStep

\* The step formula of CancelBeforePromotionWins, for one job.
CancelWinsStep(j) ==
    CancelBeforePromotion(j) =>
        \/ CancelBeforePromotion(j)'
        \/ status'[j] \in {"FAILED", "CANCELLED"}

\* No step completes a job that was cancelled before its promotion.
LEMMA CancelActions ==
  ASSUME TypeOK, NewestAttempt, NEW k \in Jobs, [Next]_vars
  PROVE  CancelWinsStep(k)
<1> USE DEF CancelWinsStep, CancelBeforePromotion, NewestAttempt, Holds,
     Waiting, Active, StaleRows, Claims, TypeOK
<1>1. ASSUME NEW w \in Workers, NEW j \in Jobs,
             NEW via \in {"message", "command"}, claim_job(w, j, via)
      PROVE  CancelWinsStep(k)
  BY <1>1 DEF claim_job, Claimable
<1>2. ASSUME NEW w \in Workers, NEW j \in Jobs,
             NEW via \in {"message", "command"}, claim_cancelled(w, j, via)
      PROVE  CancelWinsStep(k)
  BY <1>2 DEF claim_cancelled
<1>3. ASSUME NEW w \in Workers, Finish(w) PROVE CancelWinsStep(k)
  BY <1>3 DEF Finish, EndSteps, EndingAt, terminal_transition, Expires
<1>4. ASSUME NEW w \in Workers, retry_transition(w) PROVE CancelWinsStep(k)
  BY <1>4 DEF retry_transition
<1>5. ASSUME NEW r \in rows, ReapRow(r) PROVE CancelWinsStep(k)
  BY <1>5 DEF ReapRow, ReapCancelled, ReapExhausted, ReapRequeue, ReapSkip,
     StillStale
<1>6. ASSUME NEW j \in Jobs, immediate_cancel(j) PROVE CancelWinsStep(k)
  BY <1>6 DEF immediate_cancel, CancelApplies
<1>7. ASSUME NEW j \in Jobs, expire_due_outputs(j) PROVE CancelWinsStep(k)
  BY <1>7 DEF expire_due_outputs
<1>8. CASE OtherWrite
  BY <1>8 DEF OtherWrite, promote_output, MayPromote, emit_dead_letter,
     announce_cancel, flag_cancel, row
<1>9. CASE QuietAction
  BY <1>9, QuietFrame DEF row
<1> HIDE DEF CancelWinsStep, CancelBeforePromotion, NewestAttempt, Holds,
     Waiting, Active, StaleRows, Claims, TypeOK
<1> QED
  BY <1>1, <1>2, <1>3, <1>4, <1>5, <1>6, <1>7, <1>8, <1>9, Kinds DEF RowAction

\* A cancellation requested before promote_output never ends in a download.
THEOREM CancellationWins == Spec => CancelBeforePromotionWins
<1>1. SafetyInv /\ [Next]_vars => [\A j \in Jobs : CancelWinsStep(j)]_vars
  BY CancelActions DEF SafetyInv
<1>2. Spec => [][\A j \in Jobs : CancelWinsStep(j)]_vars
  BY <1>1, Safety, PTL DEF Spec
<1> QED
  BY <1>2 DEF CancelBeforePromotionWins, CancelWinsStep

-----------------------------------------------------------------------------
\* An action of the contract for some job is a step of the contract.
LEMMA ContractAction ==
  ASSUME NEW j \in Jobs,
         \/ Contract!Complete(j) \/ Contract!Fail(j) \/ Contract!DeadLetter(j)
         \/ Contract!Cancel(j) \/ Contract!AnnounceCancel(j) \/ Contract!Expire(j)
  PROVE  Contract!Next
  BY DEF Contract!Next

\* Every step of the protocol is a step of the contract or a stutter.
LEMMA ContractStep ==
  ASSUME OutcomeTypes, NewestAttempt, AnnouncesCancelled, [Next]_vars
  PROVE  [Contract!Next]_<<Outcome, ledger, outbox>>
<1> USE DEF Outcome, OutcomeTypes, NewestAttempt, AnnouncesCancelled, Waiting,
     Active, Terminal, Status, Holds, Claims, StaleRows, effects
<1>1. ASSUME NEW w \in Workers, NEW j \in Jobs,
             NEW via \in {"message", "command"}, claim_job(w, j, via)
      PROVE  [Contract!Next]_<<Outcome, ledger, outbox>>
  BY <1>1 DEF claim_job, Claimable, Touch
<1>2. ASSUME NEW w \in Workers, NEW j \in Jobs,
             NEW via \in {"message", "command"}, claim_cancelled(w, j, via)
      PROVE  [Contract!Next]_<<Outcome, ledger, outbox>>
  <2>1. Contract!Cancel(j)
    BY <1>2 DEF claim_cancelled, Contract!Cancel
  <2> QED
    BY <2>1, ContractAction
<1>3. ASSUME NEW w \in Workers, Finish(w)
      PROVE  [Contract!Next]_<<Outcome, ledger, outbox>>
  <2>1. PICK j \in Jobs : j = claim[w].job /\ status[j] = "PROCESSING"
    BY <1>3 DEF Finish, EndSteps
  <2>2. CASE pc[w] = "finish"
    <3>1. Contract!Complete(j)
      BY <1>3, <2>1, <2>2 DEF Finish, terminal_transition, EndingAt, Expires,
         Contract!Complete
    <3> QED
      BY <3>1, ContractAction
  <2>3. CASE pc[w] = "cancel"
    <3>1. Contract!Cancel(j)
      BY <1>3, <2>1, <2>3 DEF Finish, terminal_transition, EndingAt, Expires,
         Contract!Cancel
    <3> QED
      BY <3>1, ContractAction
  <2>4. CASE pc[w] \in {"permanent", "exhausted"}
    <3>1. Contract!Fail(j)
      BY <1>3, <2>1, <2>4 DEF Finish, terminal_transition, EndingAt, Expires,
         Contract!Fail
    <3> QED
      BY <3>1, ContractAction
  <2> QED
    BY <1>3, <2>2, <2>3, <2>4 DEF Finish, EndSteps
<1>4. ASSUME NEW w \in Workers, retry_transition(w)
      PROVE  [Contract!Next]_<<Outcome, ledger, outbox>>
  BY <1>4 DEF retry_transition
<1>5. ASSUME NEW r \in rows, ReapRow(r)
      PROVE  [Contract!Next]_<<Outcome, ledger, outbox>>
  <2>1. r.job \in Jobs /\ UNCHANGED ledger
    BY <1>5 DEF ReapRow
  <2>2. CASE ReapCancelled(r)
    <3>1. Contract!Cancel(r.job)
      BY <2>1, <2>2 DEF ReapCancelled, Contract!Cancel
    <3> QED
      BY <2>1, <3>1, ContractAction
  <2>3. CASE ReapExhausted(r)
    <3>1. Contract!Fail(r.job)
      BY <2>1, <2>3 DEF ReapExhausted, StillStale, Contract!Fail
    <3> QED
      BY <2>1, <3>1, ContractAction
  <2>4. CASE ReapRequeue(r)
    BY <2>1, <2>4 DEF ReapRequeue, StillStale
  <2>5. CASE ReapSkip(r)
    BY <2>1, <2>5 DEF ReapSkip
  <2> QED
    BY <1>5, <2>2, <2>3, <2>4, <2>5 DEF ReapRow
<1>6. ASSUME NEW j \in Jobs, immediate_cancel(j)
      PROVE  [Contract!Next]_<<Outcome, ledger, outbox>>
  <2>1. CASE CancelApplies(j)
    <3>1. /\ status[j] \in Waiting
          /\ status' = [status EXCEPT ![j] = "CANCELLED"]
          /\ UNCHANGED <<ledger, outbox>>
      BY <1>6, <2>1 DEF immediate_cancel, CancelApplies
    <3>2. Contract!Cancel(j)
      BY <3>1 DEF Contract!Cancel
    <3> QED
      BY <3>2, ContractAction
  <2>2. CASE ~CancelApplies(j)
    BY <1>6, <2>2 DEF immediate_cancel
  <2> QED
    BY <2>1, <2>2
<1>7. ASSUME NEW j \in Jobs, expire_due_outputs(j)
      PROVE  [Contract!Next]_<<Outcome, ledger, outbox>>
  <2>1. Contract!Expire(j)
    BY <1>7 DEF expire_due_outputs, Contract!Expire
  <2> QED
    BY <2>1, ContractAction
<1>8. CASE OtherWrite
  <2>1. ASSUME NEW w \in Workers, promote_output(w)
        PROVE  [Contract!Next]_<<Outcome, ledger, outbox>>
    BY <2>1 DEF promote_output
  <2>2. ASSUME NEW w \in Workers, emit_dead_letter(w)
        PROVE  [Contract!Next]_<<Outcome, ledger, outbox>>
    <3>1. claim[w].job \in Jobs /\ Contract!DeadLetter(claim[w].job)
      BY <2>2 DEF emit_dead_letter, row, Contract!DeadLetter
    <3> QED
      BY <3>1, ContractAction
  <2>3. ASSUME NEW j \in Jobs, announce_cancel(j)
        PROVE  [Contract!Next]_<<Outcome, ledger, outbox>>
    <3>1. Contract!AnnounceCancel(j)
      BY <2>3 DEF announce_cancel, row, Contract!AnnounceCancel
    <3> QED
      BY <3>1, ContractAction
  <2>4. ASSUME NEW j \in Jobs, flag_cancel(j)
        PROVE  [Contract!Next]_<<Outcome, ledger, outbox>>
    BY <2>4 DEF flag_cancel
  <2> QED
    BY <1>8, <2>1, <2>2, <2>3, <2>4 DEF OtherWrite
<1>9. CASE QuietAction
  BY <1>9, QuietFrame DEF row
<1> HIDE DEF Outcome, OutcomeTypes, NewestAttempt, AnnouncesCancelled,
     Waiting, Active, Terminal, Status, Holds, Claims, StaleRows, effects
<1> QED
  BY <1>1, <1>2, <1>3, <1>4, <1>5, <1>6, <1>7, <1>8, <1>9, Kinds DEF RowAction

\* JobLifecycle implements JobContract under the mapping Outcome: one outcome
\* per job, billed and announced in the step that decides it.
THEOREM ImplementsContract == Spec => ContractSpec
<1>1. Init => Contract!Init
  BY DEF Init, Contract!Init, Outcome, Active, Waiting
<1>2. SafetyInv /\ [Next]_vars => [Contract!Next]_<<Outcome, ledger, outbox>>
  <2> SUFFICES ASSUME SafetyInv, [Next]_vars
               PROVE  [Contract!Next]_<<Outcome, ledger, outbox>>
    OBVIOUS
  <2>1. OutcomeTypes
    BY DEF SafetyInv, OutcomeTypes, TypeOK
  <2> QED
    BY <2>1, ContractStep DEF SafetyInv
<1> QED
  BY <1>1, <1>2, Safety, PTL DEF Spec, ContractSpec, Contract!Spec

=============================================================================
