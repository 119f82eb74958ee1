----------------------------- MODULE Submission -----------------------------
(***************************************************************************)
(* submit_conversion_job (apps/conversions/services.py) with the quota     *)
(* reservation it makes (apps/quotas/services.py): concurrent submissions  *)
(* of one user to one workspace, from the first check to the enqueued job. *)
(*                                                                         *)
(* Django runs it without a surrounding transaction, so every step is one  *)
(* storage, cache or broker call, one autocommitted statement, or the part *)
(* of the admitting transaction on one side of the quota lock.  A blob, a  *)
(* quota decision and a job are named by the request that made them.  What *)
(* becomes of a job once it exists is JobLifecycle's concern; here only    *)
(* the order of its statuses matters.                                      *)
(***************************************************************************)
EXTENDS Naturals, FiniteSets

CONSTANTS
    Requests,         \* submissions, each of which is made once
    NoRequest,
    Keys,             \* idempotency keys
    Bodies,           \* the compared content: formats, checksum and options
    max_active_jobs,  \* UsageQuota.max_active_jobs
    UploadRateMax,    \* FILECONVERTER_UPLOAD_RATE_MAX, 0 for no limit
    AllowReuse,       \* workspace.allow_output_reuse
    MaxFaults         \* bound: crashes and failures of the database or broker

ASSUME SubmissionConstants ==
    /\ IsFiniteSet(Requests)
    /\ NoRequest \notin Requests
    /\ max_active_jobs \in Nat
    /\ UploadRateMax \in Nat
    /\ AllowReuse \in BOOLEAN
    /\ MaxFaults \in Nat

VARIABLES
    upload,      \* what each request submits
    pc,          \* where each request is
    result,      \* the job a request will be answered with
    status,      \* status of the job a request inserted, "none" before that
    files,       \* input bytes on disk
    blobs,       \* FileBlob rows of inputs
    decisions,   \* QuotaDecision rows that survive
    queued,      \* jobs whose message was accepted by the broker
    quotaLock,   \* the transaction holding the UsageQuota row
    uploads,     \* the rate counter in the cache
    faults

admission == <<result, status, decisions, quotaLock>>
bytes     == <<files, blobs>>
vars      == <<upload, pc, admission, bytes, queued, uploads, faults>>

-----------------------------------------------------------------------------
Active   == {"PENDING", "PROCESSING", "RETRYING"}
Finished == {"DONE", "FAILED", "CANCELLED", "EXPIRED"}

Answered == {"returned", "rejected", "crashed"}
Steps    == Answered \cup
            {"gate", "lookup", "reuse", "peek", "count", "store", "row",
             "reserve", "insert", "enqueue", "denied", "raced",
             "discardFile", "discardRow", "dropDecision"}

Uploads == [key : Keys, body : Bodies, oversized : BOOLEAN]

TypeOK ==
    /\ upload \in [Requests -> Uploads]
    /\ pc \in [Requests -> Steps]
    /\ result \in [Requests -> Requests \cup {NoRequest}]
    /\ status \in [Requests -> Active \cup Finished \cup {"none"}]
    /\ files \subseteq Requests
    /\ blobs \subseteq Requests
    /\ decisions \subseteq Requests \X {"ALLOWED", "DENIED"}
    /\ queued \subseteq Requests
    /\ quotaLock \in Requests \cup {NoRequest}
    /\ uploads \in Nat
    /\ faults \in Nat

Init ==
    /\ upload \in [Requests -> Uploads]
    /\ pc = [r \in Requests |-> "gate"]
    /\ result = [r \in Requests |-> NoRequest]
    /\ status = [r \in Requests |-> "none"]
    /\ files = {}
    /\ blobs = {}
    /\ decisions = {}
    /\ queued = {}
    /\ quotaLock = NoRequest
    /\ uploads = 0
    /\ faults = 0

JobRows    == {j \in Requests : status[j] # "none"}
ActiveJobs == {j \in Requests : status[j] \in Active}

Goto(r, step) == pc' = [pc EXCEPT ![r] = step]

Fault == /\ faults < MaxFaults
         /\ faults' = faults + 1

Answer(r, j) == /\ result' = [result EXCEPT ![r] = j]
                /\ Goto(r, "returned")

-----------------------------------------------------------------------------
(* Before anything is written.                                             *)

\* Suspended organization, disabled uploads, missing permission, size, format
\* pair, options, MIME type: each raises before there is anything to undo.
gate(r) ==
    /\ pc[r] = "gate"
    /\ \E step \in {"lookup", "rejected"} : Goto(r, step)
    /\ UNCHANGED <<upload, admission, bytes, queued, uploads, faults>>

\* The row the unique constraint (owner, workspace, idempotency_key) finds.
SameKey(r) == {j \in JobRows : upload[j].key = upload[r].key}

\* _verify_idempotent_match
Matches(r, j) == upload[j].body = upload[r].body

\* _idempotent_job_returnable; DONE past expires_at counts as EXPIRED here.
Returnable(j) == status[j] \in Active \cup {"DONE"}

\* The idempotency fast path.
lookup(r) ==
    /\ pc[r] = "lookup"
    /\ \/ /\ SameKey(r) = {}
          /\ Goto(r, "reuse")
          /\ UNCHANGED result
       \/ \E j \in SameKey(r) :
             IF Matches(r, j) /\ Returnable(j)
             THEN Answer(r, j)
             ELSE Goto(r, "rejected") /\ UNCHANGED result
    /\ UNCHANGED <<upload, status, decisions, quotaLock, bytes, queued,
                   uploads, faults>>

\* _find_reusable_job
Reusable(r) == {j \in Requests : /\ AllowReuse
                                 /\ status[j] = "DONE"
                                 /\ Matches(r, j)}

reuse(r) ==
    /\ pc[r] = "reuse"
    /\ \/ /\ Reusable(r) = {}
          /\ Goto(r, "peek")
          /\ UNCHANGED result
       \/ \E j \in Reusable(r) : Answer(r, j)
    /\ UNCHANGED <<upload, status, decisions, quotaLock, bytes, queued,
                   uploads, faults>>

\* _enforce_upload_rate: a read of the counter, then an increment.
enforce_upload_rate(r) ==
    /\ \/ /\ pc[r] = "peek"
          /\ Goto(r, IF UploadRateMax > 0 /\ uploads >= UploadRateMax
                     THEN "rejected" ELSE "count")
          /\ UNCHANGED uploads
       \/ /\ pc[r] = "count"
          /\ uploads' = uploads + 1
          /\ Goto(r, "store")
    /\ UNCHANGED <<upload, admission, bytes, queued, faults>>

\* The counter's window ends.
WindowElapses ==
    /\ uploads > 0
    /\ uploads' = 0
    /\ UNCHANGED <<upload, pc, admission, bytes, queued, faults>>

\* _persist_input_blob: the bytes, then the row.
persist_input_blob(r) ==
    /\ \/ /\ pc[r] = "store"
          /\ files' = files \cup {r}
          /\ Goto(r, "row")
          /\ UNCHANGED blobs
       \/ /\ pc[r] = "row"
          /\ blobs' = blobs \cup {r}
          /\ Goto(r, "reserve")
          /\ UNCHANGED files
    /\ UNCHANGED <<upload, admission, queued, uploads, faults>>

-----------------------------------------------------------------------------
(* The admitting transaction: reserve_quota takes the row lock and counts, *)
(* get_or_create inserts, the commit releases the lock.                    *)

\* Mutant: the quota row is read without select_for_update.
NoLockNeeded(r) == TRUE

LockFree(r) == quotaLock = NoRequest

HasRoom == Cardinality(ActiveJobs) < max_active_jobs

\* Mutant: the lock is leaked when the process dies.
KeptLock(r) == quotaLock

\* Locks die with their transaction.
Unlocked(r) == IF quotaLock = r THEN NoRequest ELSE quotaLock

\* A denial raises _QuotaDenied, which rolls the transaction back.
reserve_quota(r) ==
    /\ pc[r] = "reserve"
    /\ LockFree(r)
    /\ IF ~upload[r].oversized /\ HasRoom
       THEN /\ quotaLock' = r
            /\ Goto(r, "insert")
       ELSE /\ Goto(r, "denied")
            /\ UNCHANGED quotaLock
    /\ UNCHANGED <<upload, result, status, decisions, bytes, queued, uploads,
                   faults>>

\* Mutant: the row is created without looking for the key.
NothingToGet(r) == {}

\* What get_or_create gets.
Existing(r) == SameKey(r)

get_or_create(r) ==
    /\ pc[r] = "insert"
    /\ decisions' = decisions \cup {<<r, "ALLOWED">>}
    /\ quotaLock' = NoRequest
    /\ \/ /\ Existing(r) = {}
          /\ status' = [status EXCEPT ![r] = "PENDING"]
          /\ result' = [result EXCEPT ![r] = r]
          /\ Goto(r, "enqueue")
       \/ \E j \in Existing(r) :
             /\ result' = [result EXCEPT ![r] = j]
             /\ Goto(r, "raced")
             /\ UNCHANGED status
    /\ UNCHANGED <<upload, bytes, queued, uploads, faults>>

\* The database fails during the transaction: it is rolled back.
TransactionFails(r) ==
    /\ pc[r] \in {"reserve", "insert"}
    /\ Fault
    /\ quotaLock' = Unlocked(r)
    /\ Goto(r, "discardFile")
    /\ UNCHANGED <<upload, result, status, decisions, bytes, queued, uploads>>

-----------------------------------------------------------------------------
(* After the transaction.                                                  *)

\* The on_commit hook: enqueue_conversion_job.
enqueue_conversion_job(r) ==
    /\ pc[r] = "enqueue"
    /\ queued' = queued \cup {r}
    /\ Goto(r, "returned")
    /\ UNCHANGED <<upload, admission, bytes, uploads, faults>>

\* The broker refuses the message, or the statement that stores the task id
\* fails after it.  The hook runs inside the try block: its exception reaches
\* the handler that discards the input, and the request has no answer.
EnqueueFails(r) ==
    /\ pc[r] = "enqueue"
    /\ Fault
    /\ \E sent \in BOOLEAN : queued' = IF sent THEN queued \cup {r} ELSE queued
    /\ result' = [result EXCEPT ![r] = NoRequest]
    /\ Goto(r, "discardFile")
    /\ UNCHANGED <<upload, status, decisions, quotaLock, bytes, uploads>>

\* Mutant: the denial is recorded and the input kept.
DenialKeepsInput(r) ==
    /\ pc[r] = "denied"
    /\ decisions' = decisions \cup {<<r, "DENIED">>}
    /\ Goto(r, "rejected")
    /\ UNCHANGED <<upload, result, status, quotaLock, bytes, queued, uploads,
                   faults>>

record_quota_denial(r) ==
    /\ pc[r] = "denied"
    /\ decisions' = decisions \cup {<<r, "DENIED">>}
    /\ Goto(r, "discardFile")
    /\ UNCHANGED <<upload, result, status, quotaLock, bytes, queued, uploads,
                   faults>>

\* Mutant: the duplicate is not compared with the winner of the race.
AnyBody(r) == TRUE

SameBody(r) == Matches(r, result[r])

\* created is False: the winner is compared outside the try block, so that a
\* mismatch leaves the blob to the collector and the decision to the purge.
raced(r) ==
    /\ pc[r] = "raced"
    /\ IF SameBody(r)
       THEN Goto(r, "discardFile") /\ UNCHANGED result
       ELSE Goto(r, "rejected") /\ result' = [result EXCEPT ![r] = NoRequest]
    /\ UNCHANGED <<upload, status, decisions, quotaLock, bytes, queued,
                   uploads, faults>>

\* Mutant: the foreign key cascades or is nulled instead of protecting.
NeverProtected(r) == TRUE

\* ConversionJob.input_file is PROTECT: a referenced row cannot be deleted.
Deletable(r) == r \notin JobRows

\* _discard_blob deletes the bytes, then the row; failures are swallowed.
discard_blob(r) ==
    /\ \/ /\ pc[r] = "discardFile"
          /\ files' = files \ {r}
          /\ Goto(r, "discardRow")
          /\ UNCHANGED blobs
       \/ /\ pc[r] = "discardRow"
          /\ blobs' = IF Deletable(r) THEN blobs \ {r} ELSE blobs
          /\ Goto(r, IF result[r] = NoRequest THEN "rejected"
                                              ELSE "dropDecision")
          /\ UNCHANGED files
    /\ UNCHANGED <<upload, admission, queued, uploads, faults>>

discard_decision(r) ==
    /\ pc[r] = "dropDecision"
    /\ decisions' = decisions \ {<<r, "ALLOWED">>}
    /\ Goto(r, "returned")
    /\ UNCHANGED <<upload, result, status, quotaLock, bytes, queued, uploads,
                   faults>>

\* The process dies; the database releases its locks.
Crash(r) ==
    /\ pc[r] \notin Answered
    /\ Fault
    /\ Goto(r, "crashed")
    /\ quotaLock' = Unlocked(r)
    /\ UNCHANGED <<upload, result, status, decisions, bytes, queued, uploads>>

RequestStep(r) ==
    \/ gate(r) \/ lookup(r) \/ reuse(r) \/ enforce_upload_rate(r)
    \/ persist_input_blob(r) \/ reserve_quota(r) \/ get_or_create(r)
    \/ enqueue_conversion_job(r) \/ record_quota_denial(r) \/ raced(r)
    \/ discard_blob(r) \/ discard_decision(r)

-----------------------------------------------------------------------------
(* The rest of the system, as far as submissions can see it.               *)

\* The order of statuses that JobLifecycle establishes.  A job leaves PENDING
\* for PROCESSING when its message is delivered, and completes only if its
\* input can be read.
Moves ==
    {<<"PENDING", "PROCESSING">>, <<"PENDING", "CANCELLED">>,
     <<"PROCESSING", "RETRYING">>, <<"RETRYING", "PROCESSING">>,
     <<"RETRYING", "CANCELLED">>, <<"PROCESSING", "DONE">>,
     <<"PROCESSING", "FAILED">>, <<"PROCESSING", "CANCELLED">>,
     <<"DONE", "EXPIRED">>}

JobMoves(j) ==
    \E s \in Active \cup Finished :
        /\ <<status[j], s>> \in Moves
        /\ s = "PROCESSING" => j \in queued
        /\ s = "DONE" => j \in files
        /\ status' = [status EXCEPT ![j] = s]
        /\ UNCHANGED <<upload, pc, result, decisions, quotaLock, bytes, queued,
                       uploads, faults>>

\* purge_terminal_input_files keeps the row.
purge_terminal_input_files(j) ==
    /\ status[j] \in Finished
    /\ j \in files
    /\ files' = files \ {j}
    /\ UNCHANGED <<upload, pc, admission, blobs, queued, uploads, faults>>

\* Mutants: the collector looks only at the age of a blob, or only at those
\* of requests that were cut short.
OldEnough(b) == pc[b] \in Answered

CrashedOnly(b) == pc[b] = "crashed" /\ b \notin JobRows

\* A row no job references, older than any request that may still use it.
Collectable(b) == pc[b] \in Answered /\ b \notin JobRows

garbage_collect_blobs(b) ==
    /\ Collectable(b)
    /\ b \in blobs
    /\ files' = files \ {b}
    /\ blobs' = blobs \ {b}
    /\ UNCHANGED <<upload, pc, admission, queued, uploads, faults>>

Next ==
    \/ \E r \in Requests : \/ RequestStep(r) \/ TransactionFails(r)
                           \/ EnqueueFails(r) \/ Crash(r)
    \/ WindowElapses
    \/ \E j \in Requests : \/ JobMoves(j) \/ purge_terminal_input_files(j)
                           \/ garbage_collect_blobs(j)

Spec == Init /\ [][Next]_vars

\* A request that is not killed runs on, the database grants a free lock to
\* some waiter again and again, and beat runs the collector.
Fairness ==
    \A r \in Requests : /\ SF_vars(RequestStep(r))
                        /\ WF_vars(garbage_collect_blobs(r))

FairSpec == Spec /\ Fairness

-----------------------------------------------------------------------------
(* Properties.                                                             *)

\* Concurrent submissions never admit more active jobs than the quota allows:
\* the count and the insert are made under one row lock.
ActiveJobsWithinQuota == Cardinality(ActiveJobs) <= max_active_jobs

\* One key never creates two jobs, although duplicates that start together all
\* miss the fast path.
OneJobPerKey ==
    \A i, j \in JobRows : upload[i].key = upload[j].key => i = j

\* A request is answered with a job for the very content it uploaded, and with
\* its own key's job unless the workspace reuses outputs.
AnswersMatchUpload ==
    \A r \in Requests : pc[r] = "returned" =>
        /\ result[r] \in JobRows
        /\ Matches(r, result[r])
        /\ AllowReuse \/ upload[result[r]].key = upload[r].key

\* A job that its submitter was told about can run: its message was accepted,
\* and neither a losing duplicate nor the collector took its input.
AnsweredJobCanRun ==
    \A r \in Requests :
        pc[r] = "returned" /\ result[r] = r /\ status[r] \in Active =>
            r \in files /\ r \in blobs /\ r \in queued

\* No job row ever points to a deleted FileBlob row, even when the handler of
\* a failed enqueue tries to discard the input of a committed job.
InputRowKept == JobRows \subseteq blobs

\* A duplicate answered with another request's job, and a submission denied by
\* the quota, leave no bytes, no blob row and no ALLOWED decision behind.
LosersLeaveNothing ==
    \A r \in Requests :
        \/ pc[r] = "returned" /\ result[r] # r
        \/ pc[r] = "rejected" /\ <<r, "DENIED">> \in decisions
        => r \notin files \cup blobs /\ <<r, "ALLOWED">> \notin decisions

\* Every submission is answered or dies: waiting for the quota row ends.
EveryRequestEnds == \A r \in Requests : <>(pc[r] \in Answered)

\* The blob of a submission that came to nothing is deleted, by the submission
\* itself or by the collector.
OrphanInputsCollected ==
    \A r \in Requests :
        (r \in blobs /\ r \notin JobRows) ~> (r \notin blobs \/ r \in JobRows)

-----------------------------------------------------------------------------
(* The inductive invariant behind the safety properties.                   *)

\* Only the holder of the quota row is about to insert, and since it counted
\* nobody else could: there still is room.
Reserved ==
    \A r \in Requests : pc[r] = "insert" => quotaLock = r /\ HasRoom

\* Until it stores its input a request owns nothing.
Fresh ==
    \A r \in Requests :
        pc[r] \in {"gate", "lookup", "reuse", "peek", "count", "store"} =>
            r \notin files \cup blobs

\* Until it has a job or is told of another's, a request has no answer.
Undecided ==
    \A r \in Requests :
        pc[r] \in {"gate", "lookup", "reuse", "peek", "count", "store", "row",
                   "reserve", "insert", "denied"} =>
            /\ status[r] = "none"
            /\ result[r] = NoRequest
            /\ <<r, "ALLOWED">> \notin decisions
            /\ <<r, "DENIED">> \notin decisions

\* The input is stored from the admission to the enqueue, and its row at least
\* until the request deletes it.
Stored ==
    \A r \in Requests :
        /\ pc[r] \in {"row", "reserve", "insert"} => r \in files
        /\ pc[r] = "enqueue" /\ status[r] \in Active => r \in files
        /\ pc[r] \in {"reserve", "insert"} => r \in blobs
        /\ pc[r] = "enqueue" => result[r] = r /\ r \in JobRows
        /\ pc[r] = "discardRow" => r \notin files
        /\ pc[r] = "dropDecision" => r \notin files \cup blobs

\* What a losing duplicate knows of the winner.
Loser ==
    \A r \in Requests :
        /\ pc[r] = "raced" => result[r] \in SameKey(r) /\ r \notin JobRows
        /\ pc[r] = "dropDecision" => result[r] # NoRequest
        /\ /\ pc[r] \in {"discardFile", "discardRow", "dropDecision"}
           /\ result[r] # NoRequest
           => /\ r \notin JobRows
              /\ result[r] \in SameKey(r)
              /\ Matches(r, result[r])

\* A request denied by the quota has no ALLOWED decision and no job.
Denied ==
    \A r \in Requests :
        <<r, "DENIED">> \in decisions =>
            /\ <<r, "ALLOWED">> \notin decisions
            /\ r \notin JobRows
            /\ pc[r] # "raced"

SubmissionInv ==
    /\ TypeOK
    /\ Reserved
    /\ ActiveJobsWithinQuota
    /\ OneJobPerKey
    /\ Fresh
    /\ Undecided
    /\ Stored
    /\ Loser
    /\ Denied
    /\ InputRowKept
    /\ AnswersMatchUpload
    /\ AnsweredJobCanRun
    /\ LosersLeaveNothing

-----------------------------------------------------------------------------
(* Statements of the documentation that the code does not keep.            *)

\* "the pre-persisted input blob is unreferenced" when the handler discards it.
ActiveJobsKeepInput == ActiveJobs \subseteq files

=============================================================================
