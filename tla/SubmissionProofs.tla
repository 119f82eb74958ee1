-------------------------- MODULE SubmissionProofs --------------------------
(***************************************************************************)
(* Proofs about Submission, for any finite set of requests, any keys and   *)
(* contents, any quota and rate limit, and any number of faults.           *)
(*                                                                         *)
(* The quota argument is the classical one for a lock: whoever is between  *)
(* the count and the insert holds the quota row, so the number of active   *)
(* jobs can only have gone down since it counted.  The rest of the         *)
(* invariant follows a request from step to step.                          *)
(***************************************************************************)
EXTENDS Submission, FiniteSetTheorems, TLAPS

-----------------------------------------------------------------------------
(* The steps of the system, one by one.                                    *)

\* The cases of a proof about every step.
StepOf(r) ==
    \/ gate(r)
    \/ lookup(r)
    \/ reuse(r)
    \/ enforce_upload_rate(r)
    \/ persist_input_blob(r)
    \/ reserve_quota(r)
    \/ get_or_create(r)
    \/ enqueue_conversion_job(r)
    \/ record_quota_denial(r)
    \/ raced(r)
    \/ discard_blob(r)
    \/ discard_decision(r)
    \/ TransactionFails(r)
    \/ EnqueueFails(r)
    \/ Crash(r)
    \/ JobMoves(r)
    \/ purge_terminal_input_files(r)
    \/ garbage_collect_blobs(r)

\* Every step is one of these, the end of the rate window, or a stutter.
LEMMA EveryStep ==
  ASSUME [Next]_vars
  PROVE  (\E r \in Requests : StepOf(r)) \/ WindowElapses \/ UNCHANGED vars
  BY DEF Next, RequestStep, StepOf

\* Types are preserved.
LEMMA TypeStep ==
  ASSUME TypeOK,
         [Next]_vars
  PROVE  TypeOK'
<1> USE SubmissionConstants DEF TypeOK, Steps, Answered, Active, Finished,
     Uploads, Goto, Fault, Answer, admission, bytes
<1>1. ASSUME NEW r \in Requests, gate(r) PROVE TypeOK'
  BY <1>1 DEF gate
<1>2. ASSUME NEW r \in Requests, lookup(r) PROVE TypeOK'
  BY <1>2 DEF lookup, SameKey, JobRows
<1>3. ASSUME NEW r \in Requests, reuse(r) PROVE TypeOK'
  BY <1>3 DEF reuse, Reusable
<1>4. ASSUME NEW r \in Requests, enforce_upload_rate(r) PROVE TypeOK'
  BY <1>4 DEF enforce_upload_rate
<1>5. ASSUME NEW r \in Requests, persist_input_blob(r) PROVE TypeOK'
  BY <1>5 DEF persist_input_blob
<1>6. ASSUME NEW r \in Requests, reserve_quota(r) PROVE TypeOK'
  BY <1>6 DEF reserve_quota
<1>7. ASSUME NEW r \in Requests, get_or_create(r) PROVE TypeOK'
  BY <1>7 DEF get_or_create, Existing, SameKey, JobRows
<1>8. ASSUME NEW r \in Requests, enqueue_conversion_job(r) PROVE TypeOK'
  BY <1>8 DEF enqueue_conversion_job
<1>9. ASSUME NEW r \in Requests, record_quota_denial(r) PROVE TypeOK'
  BY <1>9 DEF record_quota_denial
<1>10. ASSUME NEW r \in Requests, raced(r) PROVE TypeOK'
  BY <1>10 DEF raced
<1>11. ASSUME NEW r \in Requests, discard_blob(r) PROVE TypeOK'
  BY <1>11 DEF discard_blob
<1>12. ASSUME NEW r \in Requests, discard_decision(r) PROVE TypeOK'
  BY <1>12 DEF discard_decision
<1>13. ASSUME NEW r \in Requests, TransactionFails(r) PROVE TypeOK'
  BY <1>13 DEF TransactionFails, Unlocked
<1>14. ASSUME NEW r \in Requests, EnqueueFails(r) PROVE TypeOK'
  BY <1>14 DEF EnqueueFails
<1>15. ASSUME NEW r \in Requests, Crash(r) PROVE TypeOK'
  BY <1>15 DEF Crash, Unlocked
<1>16. ASSUME NEW r \in Requests, JobMoves(r) PROVE TypeOK'
  BY <1>16 DEF JobMoves
<1>17. ASSUME NEW r \in Requests, purge_terminal_input_files(r) PROVE TypeOK'
  BY <1>17 DEF purge_terminal_input_files
<1>18. ASSUME NEW r \in Requests, garbage_collect_blobs(r) PROVE TypeOK'
  BY <1>18 DEF garbage_collect_blobs
<1>19. CASE WindowElapses
  BY <1>19 DEF WindowElapses
<1>20. CASE UNCHANGED vars
  BY <1>20 DEF vars
<1> HIDE DEF TypeOK, Steps, Answered, Active, Finished, Uploads,
     Goto, Fault, Answer, admission, bytes
<1> QED
  BY <1>1, <1>2, <1>3, <1>4, <1>5, <1>6, <1>7, <1>8, <1>9, <1>10, <1>11,
     <1>12, <1>13, <1>14, <1>15, <1>16, <1>17, <1>18, <1>19, <1>20, EveryStep
     DEF StepOf

\* What a step may do to the jobs: nothing, insert one, or move one on.
LEMMA JobsFrame ==
  ASSUME [Next]_vars
  PROVE  /\ upload' = upload
         /\ \/ status' = status
            \/ \E r \in Requests : get_or_create(r)
            \/ \E j \in Requests : JobMoves(j)
<1> USE DEF StepOf, admission
<1>1. ASSUME NEW r \in Requests, StepOf(r)
      PROVE  /\ upload' = upload
             /\ status' = status \/ get_or_create(r) \/ JobMoves(r)
  BY <1>1 DEF gate, lookup, reuse, enforce_upload_rate, persist_input_blob,
     reserve_quota, get_or_create, enqueue_conversion_job,
     record_quota_denial, raced, discard_blob, discard_decision,
     TransactionFails, EnqueueFails, Crash, JobMoves,
     purge_terminal_input_files, garbage_collect_blobs
<1>2. CASE WindowElapses
  BY <1>2 DEF WindowElapses
<1>3. CASE UNCHANGED vars
  BY <1>3 DEF vars
<1> QED
  BY <1>1, <1>2, <1>3, EveryStep

\* A job that moves stays a job and does not become active again.
LEMMA JobMovesFrame ==
  ASSUME TypeOK, NEW j \in Requests, JobMoves(j)
  PROVE  JobRows' = JobRows /\ ActiveJobs' \subseteq ActiveJobs
  BY DEF TypeOK, JobMoves, Moves, JobRows, ActiveJobs, Active, Finished

\* What a request owns follows its progress.
LEMMA OwnershipStep ==
  ASSUME TypeOK, Fresh, Undecided, Stored, Loser,
         [Next]_vars
  PROVE  Fresh' /\ Undecided' /\ Stored'
<1> USE DEF TypeOK, Fresh, Undecided, Stored, JobRows, Answered,
     Goto, Fault, Answer, admission, bytes
<1>1. ASSUME NEW r \in Requests, gate(r) PROVE Fresh' /\ Undecided' /\ Stored'
  BY <1>1 DEF gate
<1>2. ASSUME NEW r \in Requests, lookup(r)
      PROVE  Fresh' /\ Undecided' /\ Stored'
  BY <1>2 DEF lookup
<1>3. ASSUME NEW r \in Requests, reuse(r) PROVE Fresh' /\ Undecided' /\ Stored'
  BY <1>3 DEF reuse
<1>4. ASSUME NEW r \in Requests, enforce_upload_rate(r)
      PROVE  Fresh' /\ Undecided' /\ Stored'
  BY <1>4 DEF enforce_upload_rate
<1>5. ASSUME NEW r \in Requests, persist_input_blob(r)
      PROVE  Fresh' /\ Undecided' /\ Stored'
  BY <1>5 DEF persist_input_blob
<1>6. ASSUME NEW r \in Requests, reserve_quota(r)
      PROVE  Fresh' /\ Undecided' /\ Stored'
  BY <1>6 DEF reserve_quota
<1>7. ASSUME NEW r \in Requests, get_or_create(r)
      PROVE  Fresh' /\ Undecided' /\ Stored'
  BY <1>7 DEF get_or_create, Existing
<1>8. ASSUME NEW r \in Requests, enqueue_conversion_job(r)
      PROVE  Fresh' /\ Undecided' /\ Stored'
  BY <1>8 DEF enqueue_conversion_job
<1>9. ASSUME NEW r \in Requests, record_quota_denial(r)
      PROVE  Fresh' /\ Undecided' /\ Stored'
  BY <1>9 DEF record_quota_denial
<1>10. ASSUME NEW r \in Requests, raced(r)
       PROVE  Fresh' /\ Undecided' /\ Stored'
  BY <1>10 DEF raced
<1>11. ASSUME NEW r \in Requests, discard_blob(r)
       PROVE  Fresh' /\ Undecided' /\ Stored'
  <2>1. CASE pc[r] = "discardFile"
    BY <1>11, <2>1 DEF discard_blob
  <2>2. CASE pc[r] = "discardRow"
    <3>1. result[r] # NoRequest => r \notin blobs'
      BY <1>11, <2>2 DEF discard_blob, Deletable, Loser
    <3>2. /\ files' = files
          /\ blobs' \subseteq blobs
          /\ \A s \in Requests \ {r} : s \in blobs => s \in blobs'
      BY <1>11, <2>2 DEF discard_blob
    <3> QED
      BY <1>11, <2>2, <3>1, <3>2 DEF discard_blob
  <2> QED
    BY <1>11, <2>1, <2>2 DEF discard_blob
<1>12. ASSUME NEW r \in Requests, discard_decision(r)
       PROVE  Fresh' /\ Undecided' /\ Stored'
  BY <1>12 DEF discard_decision
<1>13. ASSUME NEW r \in Requests, TransactionFails(r)
       PROVE  Fresh' /\ Undecided' /\ Stored'
  BY <1>13 DEF TransactionFails
<1>14. ASSUME NEW r \in Requests, EnqueueFails(r)
       PROVE  Fresh' /\ Undecided' /\ Stored'
  BY <1>14 DEF EnqueueFails
<1>15. ASSUME NEW r \in Requests, Crash(r)
       PROVE  Fresh' /\ Undecided' /\ Stored'
  BY <1>15 DEF Crash
<1>16. ASSUME NEW r \in Requests, JobMoves(r)
       PROVE  Fresh' /\ Undecided' /\ Stored'
  BY <1>16 DEF JobMoves, Moves, Active, Finished
<1>17. ASSUME NEW r \in Requests, purge_terminal_input_files(r)
       PROVE  Fresh' /\ Undecided' /\ Stored'
  BY <1>17 DEF purge_terminal_input_files, Active, Finished
<1>18. ASSUME NEW r \in Requests, garbage_collect_blobs(r)
       PROVE  Fresh' /\ Undecided' /\ Stored'
  BY <1>18 DEF garbage_collect_blobs, Collectable
<1>19. CASE WindowElapses
  BY <1>19 DEF WindowElapses
<1>20. CASE UNCHANGED vars
  BY <1>20 DEF vars
<1> HIDE DEF TypeOK, Fresh, Undecided, Stored, JobRows, Answered,
     Goto, Fault, Answer, admission, bytes
<1> QED
  BY <1>1, <1>2, <1>3, <1>4, <1>5, <1>6, <1>7, <1>8, <1>9, <1>10, <1>11,
     <1>12, <1>13, <1>14, <1>15, <1>16, <1>17, <1>18, <1>19, <1>20, EveryStep
     DEF StepOf

\* The input row of a job stays, and its bytes while the job may need them.
LEMMA RunnableStep ==
  ASSUME TypeOK, Undecided, Stored, InputRowKept, AnsweredJobCanRun,
         Loser,
         [Next]_vars
  PROVE  InputRowKept' /\ AnsweredJobCanRun'
<1> USE DEF TypeOK, Undecided, Stored, InputRowKept, AnsweredJobCanRun,
     JobRows, Answered, Goto, Fault, Answer, admission, bytes
<1>1. ASSUME NEW r \in Requests, gate(r)
      PROVE  InputRowKept' /\ AnsweredJobCanRun'
  BY <1>1 DEF gate
<1>2. ASSUME NEW r \in Requests, lookup(r)
      PROVE  InputRowKept' /\ AnsweredJobCanRun'
  <2>1. \A j \in SameKey(r) : j # r
    BY <1>2 DEF lookup, SameKey
  <2> QED
    BY <1>2, <2>1 DEF lookup, SameKey
<1>3. ASSUME NEW r \in Requests, reuse(r)
      PROVE  InputRowKept' /\ AnsweredJobCanRun'
  <2>1. \A j \in Reusable(r) : j # r
    BY <1>3 DEF reuse, Reusable
  <2> QED
    BY <1>3, <2>1 DEF reuse, Reusable
<1>4. ASSUME NEW r \in Requests, enforce_upload_rate(r)
      PROVE  InputRowKept' /\ AnsweredJobCanRun'
  BY <1>4 DEF enforce_upload_rate
<1>5. ASSUME NEW r \in Requests, persist_input_blob(r)
      PROVE  InputRowKept' /\ AnsweredJobCanRun'
  BY <1>5 DEF persist_input_blob
<1>6. ASSUME NEW r \in Requests, reserve_quota(r)
      PROVE  InputRowKept' /\ AnsweredJobCanRun'
  BY <1>6 DEF reserve_quota
<1>7. ASSUME NEW r \in Requests, get_or_create(r)
      PROVE  InputRowKept' /\ AnsweredJobCanRun'
  BY <1>7 DEF get_or_create, Existing, SameKey
<1>8. ASSUME NEW r \in Requests, enqueue_conversion_job(r)
      PROVE  InputRowKept' /\ AnsweredJobCanRun'
  BY <1>8 DEF enqueue_conversion_job
<1>9. ASSUME NEW r \in Requests, record_quota_denial(r)
      PROVE  InputRowKept' /\ AnsweredJobCanRun'
  BY <1>9 DEF record_quota_denial
<1>10. ASSUME NEW r \in Requests, raced(r)
       PROVE  InputRowKept' /\ AnsweredJobCanRun'
  BY <1>10 DEF raced
<1>11. ASSUME NEW r \in Requests, discard_blob(r)
       PROVE  InputRowKept' /\ AnsweredJobCanRun'
  BY <1>11 DEF discard_blob, Deletable, Loser
<1>12. ASSUME NEW r \in Requests, discard_decision(r)
       PROVE  InputRowKept' /\ AnsweredJobCanRun'
  <2>1. result[r] # r
    BY <1>12 DEF discard_decision, Loser, SameKey
  <2> QED
    BY <1>12, <2>1 DEF discard_decision
<1>13. ASSUME NEW r \in Requests, TransactionFails(r)
       PROVE  InputRowKept' /\ AnsweredJobCanRun'
  BY <1>13 DEF TransactionFails
<1>14. ASSUME NEW r \in Requests, EnqueueFails(r)
       PROVE  InputRowKept' /\ AnsweredJobCanRun'
  BY <1>14 DEF EnqueueFails
<1>15. ASSUME NEW r \in Requests, Crash(r)
       PROVE  InputRowKept' /\ AnsweredJobCanRun'
  BY <1>15 DEF Crash
<1>16. ASSUME NEW r \in Requests, JobMoves(r)
       PROVE  InputRowKept' /\ AnsweredJobCanRun'
  BY <1>16 DEF JobMoves, Moves, Active, Finished
<1>17. ASSUME NEW r \in Requests, purge_terminal_input_files(r)
       PROVE  InputRowKept' /\ AnsweredJobCanRun'
  BY <1>17 DEF purge_terminal_input_files, Active, Finished
<1>18. ASSUME NEW r \in Requests, garbage_collect_blobs(r)
       PROVE  InputRowKept' /\ AnsweredJobCanRun'
  BY <1>18 DEF garbage_collect_blobs, Collectable, Active
<1>19. CASE WindowElapses
  BY <1>19 DEF WindowElapses
<1>20. CASE UNCHANGED vars
  BY <1>20 DEF vars
<1> HIDE DEF TypeOK, Undecided, Stored, InputRowKept, AnsweredJobCanRun,
     JobRows, Answered, Goto, Fault, Answer, admission, bytes
<1> QED
  BY <1>1, <1>2, <1>3, <1>4, <1>5, <1>6, <1>7, <1>8, <1>9, <1>10, <1>11,
     <1>12, <1>13, <1>14, <1>15, <1>16, <1>17, <1>18, <1>19, <1>20, EveryStep
     DEF StepOf

\* Nobody but the holder of the quota row inserts a job, and it had room.
LEMMA QuotaStep ==
  ASSUME TypeOK, Reserved, ActiveJobsWithinQuota, [Next]_vars
  PROVE  Reserved' /\ ActiveJobsWithinQuota'
<1>1. IsFiniteSet(ActiveJobs) /\ Cardinality(ActiveJobs) \in Nat
  BY FS_Subset, FS_CardinalityType, SubmissionConstants DEF ActiveJobs
<1>2. ASSUME NEW r \in Requests, get_or_create(r)
      PROVE  Reserved' /\ ActiveJobsWithinQuota'
  <2>1. ActiveJobs' \subseteq ActiveJobs \cup {r}
    BY <1>2 DEF get_or_create, ActiveJobs, TypeOK
  <2>2. /\ IsFiniteSet(ActiveJobs \cup {r})
        /\ Cardinality(ActiveJobs \cup {r}) <= Cardinality(ActiveJobs) + 1
        /\ Cardinality(ActiveJobs \cup {r}) \in Nat
    <3>1. Cardinality(ActiveJobs \cup {r}) =
             IF r \in ActiveJobs THEN Cardinality(ActiveJobs)
                                ELSE Cardinality(ActiveJobs) + 1
      BY <1>1, FS_AddElement
    <3>2. IsFiniteSet(ActiveJobs \cup {r})
      BY <1>1, FS_AddElement
    <3> QED
      BY <1>1, <3>1, <3>2
  <2>3. /\ Cardinality(ActiveJobs') <= Cardinality(ActiveJobs \cup {r})
        /\ Cardinality(ActiveJobs') \in Nat
    BY <2>1, <2>2, FS_Subset, FS_CardinalityType
  <2>4. Cardinality(ActiveJobs) < max_active_jobs
    BY <1>2 DEF get_or_create, Reserved, HasRoom
  <2>5. ActiveJobsWithinQuota'
    BY <1>1, <2>2, <2>3, <2>4, SubmissionConstants DEF ActiveJobsWithinQuota
  <2>6. \A s \in Requests : pc'[s] # "insert"
    BY <1>2 DEF get_or_create, Reserved, Goto, TypeOK
  <2> QED
    BY <2>5, <2>6 DEF Reserved
<1>3. CASE ~\E r \in Requests : get_or_create(r)
  <2>1. ActiveJobs' \subseteq ActiveJobs
    <3>1. CASE status' = status
      BY <3>1 DEF ActiveJobs
    <3> QED
      BY <3>1, <1>3, JobsFrame, JobMovesFrame
  <2>2. /\ Cardinality(ActiveJobs') <= Cardinality(ActiveJobs)
        /\ Cardinality(ActiveJobs') \in Nat
    BY <1>1, <2>1, FS_Subset, FS_CardinalityType
  <2>3. ActiveJobsWithinQuota' /\ (HasRoom => HasRoom')
    BY <1>1, <2>2, SubmissionConstants DEF ActiveJobsWithinQuota, HasRoom
  <2>4. ASSUME NEW s \in Requests, pc'[s] = "insert"
        PROVE  quotaLock' = s /\ HasRoom
    <3> USE DEF Reserved, TypeOK, Goto, Answer, admission
    <3>1. ASSUME NEW r \in Requests, StepOf(r) PROVE quotaLock' = s /\ HasRoom
      <4>1. CASE reserve_quota(r)
        BY <4>1, <2>4, SubmissionConstants DEF reserve_quota, LockFree
      <4>2. CASE TransactionFails(r) \/ Crash(r)
        BY <4>2, <2>4 DEF TransactionFails, Crash, Unlocked
      <4> QED
        BY <3>1, <4>1, <4>2, <2>4, <1>3
           DEF StepOf, gate, lookup, reuse, enforce_upload_rate,
               persist_input_blob, enqueue_conversion_job,
               record_quota_denial, raced, discard_blob, discard_decision,
               EnqueueFails, JobMoves, purge_terminal_input_files,
               garbage_collect_blobs
    <3>2. CASE WindowElapses \/ UNCHANGED vars
      BY <3>2, <2>4 DEF WindowElapses, vars
    <3> QED
      BY <3>1, <3>2, EveryStep
  <2> QED
    BY <2>3, <2>4 DEF Reserved
<1> QED
  BY <1>2, <1>3

\* A job is inserted only under a key that has none.
LEMMA KeyStep ==
  ASSUME TypeOK, OneJobPerKey, [Next]_vars
  PROVE  OneJobPerKey'
<1>1. upload' = upload
  BY JobsFrame
<1>2. ASSUME NEW r \in Requests, get_or_create(r) PROVE OneJobPerKey'
  <2>1. \A j \in JobRows' \ {r} : j \in JobRows
    BY <1>2 DEF get_or_create, JobRows, TypeOK
  <2>2. r \in JobRows' => SameKey(r) = {} \/ r \in JobRows
    BY <1>2 DEF get_or_create, Existing, JobRows
  <2> QED
    BY <1>1, <2>1, <2>2 DEF OneJobPerKey, SameKey, JobRows
<1>3. CASE JobRows' = JobRows
  BY <1>1, <1>3 DEF OneJobPerKey
<1>4. CASE status' = status
  <2>1. JobRows' = JobRows
    BY <1>4 DEF JobRows
  <2> QED
    BY <2>1, <1>3
<1> QED
  BY <1>2, <1>3, <1>4, JobsFrame, JobMovesFrame

\* A request is answered with the job it inserted, or with one it compared.
LEMMA AnswerStep ==
  ASSUME TypeOK, Undecided, Stored, Loser, Denied, AnswersMatchUpload,
         [Next]_vars
  PROVE  Loser' /\ Denied' /\ AnswersMatchUpload'
<1> USE DEF TypeOK, Undecided, Stored, Loser, Denied, AnswersMatchUpload,
     SameKey, Matches, JobRows, Goto, Fault, Answer, admission, bytes
<1>1. ASSUME NEW r \in Requests, gate(r)
      PROVE  Loser' /\ Denied' /\ AnswersMatchUpload'
  BY <1>1 DEF gate
<1>2. ASSUME NEW r \in Requests, lookup(r)
      PROVE  Loser' /\ Denied' /\ AnswersMatchUpload'
  BY <1>2 DEF lookup, JobRows
<1>3. ASSUME NEW r \in Requests, reuse(r)
      PROVE  Loser' /\ Denied' /\ AnswersMatchUpload'
  BY <1>3 DEF reuse, Reusable, JobRows
<1>4. ASSUME NEW r \in Requests, enforce_upload_rate(r)
      PROVE  Loser' /\ Denied' /\ AnswersMatchUpload'
  BY <1>4 DEF enforce_upload_rate
<1>5. ASSUME NEW r \in Requests, persist_input_blob(r)
      PROVE  Loser' /\ Denied' /\ AnswersMatchUpload'
  BY <1>5 DEF persist_input_blob
<1>6. ASSUME NEW r \in Requests, reserve_quota(r)
      PROVE  Loser' /\ Denied' /\ AnswersMatchUpload'
  BY <1>6 DEF reserve_quota
<1>7. ASSUME NEW r \in Requests, get_or_create(r)
      PROVE  Loser' /\ Denied' /\ AnswersMatchUpload'
  <2>1. Denied'
    BY <1>7 DEF get_or_create
  <2>2. JobRows \subseteq JobRows' /\ JobRows' \subseteq JobRows \cup {r}
    BY <1>7 DEF get_or_create
  <2>4. Loser'
    <3>1. CASE Existing(r) = {} /\ pc' = [pc EXCEPT ![r] = "enqueue"]
      BY <1>7, <2>2, <3>1 DEF get_or_create
    <3>2. CASE Existing(r) # {} /\ pc' = [pc EXCEPT ![r] = "raced"]
      <4>1. PICK j \in SameKey(r) : /\ result' = [result EXCEPT ![r] = j]
                                    /\ status' = status
                                    /\ upload' = upload
        BY <1>7, <3>2 DEF get_or_create, Existing
      <4>2. status[r] = "none" /\ JobRows' = JobRows
        BY <1>7, <4>1 DEF get_or_create
      <4> QED
        BY <1>7, <3>2, <4>1, <4>2
    <3> QED
      BY <1>7, <3>1, <3>2 DEF get_or_create
  <2>5. AnswersMatchUpload'
    BY <1>7, <2>2 DEF get_or_create
  <2> QED
    BY <2>1, <2>4, <2>5
<1>8. ASSUME NEW r \in Requests, enqueue_conversion_job(r)
      PROVE  Loser' /\ Denied' /\ AnswersMatchUpload'
  BY <1>8 DEF enqueue_conversion_job
<1>9. ASSUME NEW r \in Requests, record_quota_denial(r)
      PROVE  Loser' /\ Denied' /\ AnswersMatchUpload'
  <2>1. Denied'
    BY <1>9 DEF record_quota_denial
  <2>2. result[r] = NoRequest
    BY <1>9 DEF record_quota_denial
  <2>4. Loser'
    BY <1>9, <2>2 DEF record_quota_denial
  <2>5. AnswersMatchUpload'
    BY <1>9 DEF record_quota_denial
  <2> QED
    BY <2>1, <2>4, <2>5
<1>10. ASSUME NEW r \in Requests, raced(r)
       PROVE  Loser' /\ Denied' /\ AnswersMatchUpload'
  BY <1>10 DEF raced, SameBody
<1>11. ASSUME NEW r \in Requests, discard_blob(r)
       PROVE  Loser' /\ Denied' /\ AnswersMatchUpload'
  BY <1>11 DEF discard_blob
<1>12. ASSUME NEW r \in Requests, discard_decision(r)
       PROVE  Loser' /\ Denied' /\ AnswersMatchUpload'
  <2>1. Denied' /\ Loser'
    BY <1>12 DEF discard_decision
  <2>2. /\ result[r] \in JobRows
        /\ Matches(r, result[r])
        /\ upload[result[r]].key = upload[r].key
    BY <1>12 DEF discard_decision
  <2>3. AnswersMatchUpload'
    BY <1>12, <2>2 DEF discard_decision
  <2> QED
    BY <2>1, <2>3
<1>13. ASSUME NEW r \in Requests, TransactionFails(r)
       PROVE  Loser' /\ Denied' /\ AnswersMatchUpload'
  <2>1. result[r] = NoRequest
    BY <1>13 DEF TransactionFails
  <2> QED
    BY <1>13, <2>1 DEF TransactionFails
<1>14. ASSUME NEW r \in Requests, EnqueueFails(r)
       PROVE  Loser' /\ Denied' /\ AnswersMatchUpload'
  BY <1>14 DEF EnqueueFails
<1>15. ASSUME NEW r \in Requests, Crash(r)
       PROVE  Loser' /\ Denied' /\ AnswersMatchUpload'
  BY <1>15 DEF Crash
<1>16. ASSUME NEW r \in Requests, JobMoves(r)
       PROVE  Loser' /\ Denied' /\ AnswersMatchUpload'
  BY <1>16 DEF JobMoves, Moves, Active, Finished
<1>17. ASSUME NEW r \in Requests, purge_terminal_input_files(r)
       PROVE  Loser' /\ Denied' /\ AnswersMatchUpload'
  BY <1>17 DEF purge_terminal_input_files
<1>18. ASSUME NEW r \in Requests, garbage_collect_blobs(r)
       PROVE  Loser' /\ Denied' /\ AnswersMatchUpload'
  BY <1>18 DEF garbage_collect_blobs
<1>19. CASE WindowElapses
  BY <1>19 DEF WindowElapses, JobRows
<1>20. CASE UNCHANGED vars
  BY <1>20 DEF vars, JobRows
<1> HIDE DEF TypeOK, Undecided, Stored, Loser, Denied, AnswersMatchUpload,
     SameKey, Matches, JobRows, Goto, Fault, Answer, admission, bytes
<1> QED
  BY <1>1, <1>2, <1>3, <1>4, <1>5, <1>6, <1>7, <1>8, <1>9, <1>10, <1>11,
     <1>12, <1>13, <1>14, <1>15, <1>16, <1>17, <1>18, <1>19, <1>20, EveryStep
     DEF StepOf

\* A submission without a job of its own cleans up after itself.
LEMMA CleanupStep ==
  ASSUME TypeOK, Fresh, Undecided, Stored, Loser, Denied,
         LosersLeaveNothing,
         [Next]_vars
  PROVE  LosersLeaveNothing'
<1> USE DEF TypeOK, Fresh, Undecided, Stored, Loser, Denied,
     LosersLeaveNothing, JobRows, Goto, Fault, Answer, admission, bytes
<1>1. ASSUME NEW r \in Requests, gate(r) PROVE LosersLeaveNothing'
  BY <1>1 DEF gate
<1>2. ASSUME NEW r \in Requests, lookup(r) PROVE LosersLeaveNothing'
  BY <1>2 DEF lookup
<1>3. ASSUME NEW r \in Requests, reuse(r) PROVE LosersLeaveNothing'
  BY <1>3 DEF reuse
<1>4. ASSUME NEW r \in Requests, enforce_upload_rate(r)
      PROVE  LosersLeaveNothing'
  BY <1>4 DEF enforce_upload_rate
<1>5. ASSUME NEW r \in Requests, persist_input_blob(r)
      PROVE  LosersLeaveNothing'
  BY <1>5 DEF persist_input_blob
<1>6. ASSUME NEW r \in Requests, reserve_quota(r) PROVE LosersLeaveNothing'
  BY <1>6 DEF reserve_quota
<1>7. ASSUME NEW r \in Requests, get_or_create(r) PROVE LosersLeaveNothing'
  BY <1>7 DEF get_or_create
<1>8. ASSUME NEW r \in Requests, enqueue_conversion_job(r)
      PROVE  LosersLeaveNothing'
  BY <1>8 DEF enqueue_conversion_job
<1>9. ASSUME NEW r \in Requests, record_quota_denial(r)
      PROVE  LosersLeaveNothing'
  BY <1>9 DEF record_quota_denial
<1>10. ASSUME NEW r \in Requests, raced(r) PROVE LosersLeaveNothing'
  BY <1>10 DEF raced
<1>11. ASSUME NEW r \in Requests, discard_blob(r) PROVE LosersLeaveNothing'
  BY <1>11 DEF discard_blob, Deletable
<1>12. ASSUME NEW r \in Requests, discard_decision(r) PROVE LosersLeaveNothing'
  BY <1>12 DEF discard_decision
<1>13. ASSUME NEW r \in Requests, TransactionFails(r) PROVE LosersLeaveNothing'
  BY <1>13 DEF TransactionFails
<1>14. ASSUME NEW r \in Requests, EnqueueFails(r) PROVE LosersLeaveNothing'
  BY <1>14 DEF EnqueueFails
<1>15. ASSUME NEW r \in Requests, Crash(r) PROVE LosersLeaveNothing'
  BY <1>15 DEF Crash
<1>16. ASSUME NEW r \in Requests, JobMoves(r) PROVE LosersLeaveNothing'
  BY <1>16 DEF JobMoves
<1>17. ASSUME NEW r \in Requests, purge_terminal_input_files(r)
       PROVE  LosersLeaveNothing'
  BY <1>17 DEF purge_terminal_input_files
<1>18. ASSUME NEW r \in Requests, garbage_collect_blobs(r)
       PROVE  LosersLeaveNothing'
  BY <1>18 DEF garbage_collect_blobs
<1>19. CASE WindowElapses
  BY <1>19 DEF WindowElapses
<1>20. CASE UNCHANGED vars
  BY <1>20 DEF vars
<1> HIDE DEF TypeOK, Fresh, Undecided, Stored, Loser, Denied,
     LosersLeaveNothing, JobRows, Goto, Fault, Answer, admission, bytes
<1> QED
  BY <1>1, <1>2, <1>3, <1>4, <1>5, <1>6, <1>7, <1>8, <1>9, <1>10, <1>11,
     <1>12, <1>13, <1>14, <1>15, <1>16, <1>17, <1>18, <1>19, <1>20, EveryStep
     DEF StepOf

\* The invariant holds before any request has done anything ...
LEMMA InitSubmission == Init => SubmissionInv
<1> SUFFICES ASSUME Init PROVE SubmissionInv
  OBVIOUS
<1> USE DEF Init
<1>1. TypeOK
  BY DEF TypeOK, Steps
<1>2. JobRows = {} /\ ActiveJobs = {}
  BY DEF JobRows, ActiveJobs, Active
<1>3. ActiveJobsWithinQuota
  BY <1>2, FS_EmptySet, SubmissionConstants DEF ActiveJobsWithinQuota
<1>4. OneJobPerKey /\ InputRowKept
  BY <1>2 DEF OneJobPerKey, InputRowKept
<1> QED
  BY <1>1, <1>3, <1>4
     DEF SubmissionInv, Reserved, Fresh, Undecided, Stored, Loser, Denied,
         AnswersMatchUpload, AnsweredJobCanRun, LosersLeaveNothing

\* ... and every step preserves it, layer by layer.
LEMMA StepSubmission == SubmissionInv /\ [Next]_vars => SubmissionInv'
  BY TypeStep, OwnershipStep, RunnableStep, QuotaStep, KeyStep, AnswerStep,
     CleanupStep DEF SubmissionInv

\* Every reachable state satisfies the inductive invariant.
THEOREM SubmissionSafe == Spec => []SubmissionInv
<1>1. Init => SubmissionInv
  BY InitSubmission
<1>2. SubmissionInv /\ [Next]_vars => SubmissionInv'
  BY StepSubmission
<1> QED
  BY <1>1, <1>2, PTL DEF Spec

\* reserve_quota and the insert admit no more active jobs than the quota
\* allows, however many submissions run at once and wherever they crash.
THEOREM QuotaIsEnforced == Spec => []ActiveJobsWithinQuota
<1>1. SubmissionInv => ActiveJobsWithinQuota
  BY DEF SubmissionInv
<1> QED
  BY <1>1, SubmissionSafe, PTL

\* get_or_create under the quota lock creates one job for an idempotency key.
THEOREM IdempotentSubmission == Spec => []OneJobPerKey
<1>1. SubmissionInv => OneJobPerKey
  BY DEF SubmissionInv
<1> QED
  BY <1>1, SubmissionSafe, PTL

\* A submission is answered with a job for the content it uploaded.
THEOREM AnswersAreRight == Spec => []AnswersMatchUpload
<1>1. SubmissionInv => AnswersMatchUpload
  BY DEF SubmissionInv
<1> QED
  BY <1>1, SubmissionSafe, PTL

\* A job its submitter was told about has its message and its input.
THEOREM AnsweredJobsRun == Spec => []AnsweredJobCanRun
<1>1. SubmissionInv => AnsweredJobCanRun
  BY DEF SubmissionInv
<1> QED
  BY <1>1, SubmissionSafe, PTL

\* ConversionJob.input_file never dangles, the failed enqueue included.
THEOREM InputsProtected == Spec => []InputRowKept
<1>1. SubmissionInv => InputRowKept
  BY DEF SubmissionInv
<1> QED
  BY <1>1, SubmissionSafe, PTL

\* Losing duplicates and denied submissions leave nothing behind.
THEOREM CleanLosers == Spec => []LosersLeaveNothing
<1>1. SubmissionInv => LosersLeaveNothing
  BY DEF SubmissionInv
<1> QED
  BY <1>1, SubmissionSafe, PTL

=============================================================================
