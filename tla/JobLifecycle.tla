---------------------------- MODULE JobLifecycle ----------------------------
(***************************************************************************)
(* The life of a ConversionJob row between the moment it is queued and the *)
(* moment its bytes are gone: apps/conversions/services.py, the Celery     *)
(* task that calls it and the beat tasks that repair and retire jobs.      *)
(*                                                                         *)
(* Every action is one database statement or one transaction.  Between two *)
(* of them anything else may run: another worker holding a redelivered     *)
(* message, the stale-job reaper, a cancellation from the web, a crash.    *)
(*                                                                         *)
(* Time is abstracted to the facts the code tests: heartbeat_at is either  *)
(* younger or older than STALE_PROCESSING_AFTER, expires_at has passed or  *)
(* not, a blob is old enough to collect when no attempt is using it.       *)
(***************************************************************************)
EXTENDS Naturals, FiniteSets

CONSTANTS
    Jobs,             \* primary keys of ConversionJob rows
    Workers,          \* processes that execute run_conversion
    NoJob,            \* "no row": an idle worker, an idle reaper
    MAX_ATTEMPTS,     \* settings.FILECONVERTER_MAX_ATTEMPTS
    TtlHours,         \* values of the organization's default_output_ttl_hours
    MaxFaults,        \* bound: crashes, stalls and redeliveries
    MaxLost           \* bound: RETRYING rows whose enqueue never happened

ASSUME ConstantsOK ==
    /\ NoJob \notin Jobs
    /\ MAX_ATTEMPTS \in Nat \ {0}
    /\ TtlHours \subseteq Nat /\ TtlHours # {}
    /\ MaxFaults \in Nat
    /\ MaxLost \in Nat

VARIABLES
    status, claim_generation, attempt_count, cancel_requested,
    output_file,      \* the generation whose blob is linked, 0 for NULL
    stale,            \* rows whose heartbeat is older than the threshold
    due,              \* rows whose expires_at has passed
    ledger,           \* UsageLedger rows per job
    outbox,           \* OutboxEvent rows <<job, event>> (the key is unique)
    files,            \* output bytes on disk, named <<job, generation>>
    blobs,            \* FileBlob rows of outputs, named the same way
    inputs,           \* jobs whose input bytes are on disk
    queue,            \* broker messages ready for delivery, per job
    pc, claim,        \* each worker: where it is, and what it claimed
    rows, overdue, requeuing,  \* the reaper's pass
    canceller,        \* the cancellation request in progress, per job
    faults, lost      \* faults spent so far

row      == <<status, claim_generation, attempt_count, cancel_requested,
              output_file>>
beats    == <<stale, overdue>>
effects  == <<ledger, outbox>>
storage  == <<files, blobs, inputs>>
attempts == <<pc, claim>>
reaping  == <<rows, requeuing>>
budget   == <<faults, lost>>

vars == <<row, beats, due, effects, storage, queue, attempts, reaping,
          canceller, budget>>

-----------------------------------------------------------------------------
Waiting  == {"PENDING", "RETRYING"}
Active   == Waiting \cup {"PROCESSING"}
Terminal == {"DONE", "FAILED", "CANCELLED", "EXPIRED"}
Status   == Active \cup Terminal

Outcomes == {"done", "failed", "cancelled"}
Events   == Outcomes \cup {"dead_letter"}

\* The steps of run_conversion that run in order inside its try block.
NextPc ==
    [start    |-> "check1",  check1 |-> "validate", validate |-> "check2",
     check2   |-> "convert", convert |-> "check3",  check3   |-> "store",
     store    |-> "blob",    blob    |-> "promote", promote  |-> "finish"]

\* Where the exception that interrupted promote_output goes once the output
\* blob has been dropped.
AfterDiscard ==
    [discardFenced |-> "idle", discardCancelled |-> "cancel",
     discardFailed |-> "permanent"]

TryBody  == {"start", "check1", "validate", "check2", "convert", "check3",
             "store", "blob", "promote", "refused", "finish"}
Handlers == {"cancel", "permanent", "transient", "exhausted", "retryQueue",
             "deadLetter"}
Discards == {"discardFenced", "discardCancelled", "discardFailed"}
Steps    == {"idle"} \cup TryBody \cup Handlers \cup Discards

\* What claim_job returned: the row, its generation and attempt number, and
\* whether a broker message is held unacknowledged meanwhile.
Claims  == [job : Jobs \cup {NoJob}, gen : Nat, attempt : Nat, msg : BOOLEAN]
NoClaim == [job |-> NoJob, gen |-> 0, attempt |-> 0, msg |-> FALSE]

StaleRows == [job : Jobs, attempt_count : Nat, cancel_requested : BOOLEAN]

TypeOK ==
    /\ status \in [Jobs -> Status]
    /\ claim_generation \in [Jobs -> Nat]
    /\ attempt_count \in [Jobs -> Nat]
    /\ cancel_requested \in [Jobs -> BOOLEAN]
    /\ output_file \in [Jobs -> Nat]
    /\ stale \subseteq Jobs
    /\ due \subseteq Jobs
    /\ ledger \in [Jobs -> Nat]
    /\ outbox \subseteq Jobs \X Events
    /\ files \subseteq Jobs \X Nat
    /\ blobs \subseteq Jobs \X Nat
    /\ inputs \subseteq Jobs
    /\ queue \in [Jobs -> Nat]
    /\ pc \in [Workers -> Steps]
    /\ claim \in [Workers -> Claims]
    /\ \A w \in Workers : pc[w] # "idle" => claim[w].job \in Jobs
    /\ rows \subseteq StaleRows
    /\ overdue \subseteq Jobs
    /\ requeuing \in Jobs \cup {NoJob}
    /\ canceller \in [Jobs -> {"idle", "cancel", "flag", "announce"}]
    /\ faults \in Nat
    /\ lost \in Nat

\* submit_conversion_job has committed the row and enqueued it.
Init ==
    /\ status = [j \in Jobs |-> "PENDING"]
    /\ claim_generation = [j \in Jobs |-> 0]
    /\ attempt_count = [j \in Jobs |-> 0]
    /\ cancel_requested = [j \in Jobs |-> FALSE]
    /\ output_file = [j \in Jobs |-> 0]
    /\ stale = {}
    /\ due = {}
    /\ ledger = [j \in Jobs |-> 0]
    /\ outbox = {}
    /\ files = {}
    /\ blobs = {}
    /\ inputs = Jobs
    /\ queue = [j \in Jobs |-> 1]
    /\ pc = [w \in Workers |-> "idle"]
    /\ claim = [w \in Workers |-> NoClaim]
    /\ rows = {}
    /\ overdue = {}
    /\ requeuing = NoJob
    /\ canceller = [j \in Jobs |-> "idle"]
    /\ faults = 0
    /\ lost = 0

-----------------------------------------------------------------------------
(* Vocabulary shared by the actions.                                       *)

\* A write of heartbeat_at = now: the row is stale neither for claim_job nor
\* for a reaper pass whose threshold was computed earlier.
Touch(j) ==
    /\ stale' = stale \ {j}
    /\ overdue' = overdue \ {j}

\* Mutants of Holds: a filter that forgets the status, or the generation.
HoldsAnyStatus(w) == claim_generation[claim[w].job] = claim[w].gen

HoldsAnyGeneration(w) == status[claim[w].job] = "PROCESSING"

\* The filter (pk, claim_generation, status=PROCESSING) of every fenced write.
Holds(w) ==
    /\ claim_generation[claim[w].job] = claim[w].gen
    /\ status[claim[w].job] = "PROCESSING"

\* The newest claim of j is still being executed.
Attended(j) ==
    \E w \in Workers : /\ pc[w] # "idle"
                       /\ claim[w].job = j
                       /\ claim[w].gen = claim_generation[j]

Goto(w, step) ==
    /\ pc' = [pc EXCEPT ![w] = step]
    /\ claim' = IF step = "idle" THEN [claim EXCEPT ![w] = NoClaim] ELSE claim

Fault == /\ faults < MaxFaults
         /\ faults' = faults + 1

\* Mutant: expires_at is not consulted.
DownloadableForever(j) ==
    /\ status[j] = "DONE"
    /\ output_file[j] # 0
    /\ <<j, output_file[j]>> \in blobs

\* ConversionJob.output_downloadable
Downloadable(j) ==
    /\ status[j] = "DONE"
    /\ output_file[j] # 0
    /\ <<j, output_file[j]>> \in blobs
    /\ j \notin due

-----------------------------------------------------------------------------
(* Delivery and claim_job.  A process starts run_conversion because the    *)
(* broker delivered process_conversion_job, or because an operator ran the *)
(* convert_pending_once command (no message is involved then).             *)

Take(j, via) ==
    \/ /\ via = "message"
       /\ queue[j] > 0
       /\ queue' = [queue EXCEPT ![j] = @ - 1]
    \/ /\ via = "command"
       /\ UNCHANGED queue

\* Mutant: a job put back for another attempt is not claimable.
ClaimablePending(j) ==
    /\ ~cancel_requested[j]
    /\ \/ status[j] = "PENDING"
       \/ status[j] = "PROCESSING" /\ j \in stale

Claimable(j) ==
    /\ ~cancel_requested[j]
    /\ \/ status[j] \in Waiting
       \/ status[j] = "PROCESSING" /\ j \in stale

\* Mutant: the fencing token is not advanced.
SameGeneration(j) == claim_generation[j]

NextGeneration(j) == claim_generation[j] + 1

claim_job(w, j, via) ==
    /\ pc[w] = "idle"
    /\ Take(j, via)
    /\ Claimable(j)
    /\ status' = [status EXCEPT ![j] = "PROCESSING"]
    /\ claim_generation' = [claim_generation EXCEPT ![j] = NextGeneration(j)]
    /\ attempt_count' = [attempt_count EXCEPT ![j] = @ + 1]
    /\ Touch(j)
    /\ pc' = [pc EXCEPT ![w] = "start"]
    /\ claim' = [claim EXCEPT ![w] =
                    [job |-> j, gen |-> NextGeneration(j),
                     attempt |-> attempt_count[j] + 1,
                     msg |-> via = "message"]]
    /\ UNCHANGED <<cancel_requested, output_file, due, effects, storage,
                   reaping, canceller, budget>>

\* A flagged row that is waiting is cancelled inside the claiming
\* transaction, announcement included; run_conversion then returns.
claim_cancelled(w, j, via) ==
    /\ pc[w] = "idle"
    /\ Take(j, via)
    /\ cancel_requested[j]
    /\ status[j] \in Waiting
    /\ status' = [status EXCEPT ![j] = "CANCELLED"]
    /\ Touch(j)
    /\ outbox' = outbox \cup {<<j, "cancelled">>}
    /\ UNCHANGED <<claim_generation, attempt_count, cancel_requested,
                   output_file, due, ledger, storage, attempts, reaping,
                   canceller, budget>>

\* claim_job returned None: the message is acknowledged and nothing happens.
claim_refused(w, j) ==
    /\ pc[w] = "idle"
    /\ Take(j, "message")
    /\ ~Claimable(j)
    /\ ~(cancel_requested[j] /\ status[j] \in Waiting)
    /\ UNCHANGED <<row, beats, due, effects, storage, attempts, reaping,
                   canceller, budget>>

Deliver(w, j) ==
    \/ \E via \in {"message", "command"} :
            claim_job(w, j, via) \/ claim_cancelled(w, j, via)
    \/ claim_refused(w, j)

-----------------------------------------------------------------------------
(* The body of run_conversion.                                             *)

\* heartbeat, coarse_progress and ProgressReporter write heartbeat_at under
\* the fence; a superseded worker's write matches no row.
heartbeat(w) == IF Holds(w) THEN Touch(claim[w].job) ELSE UNCHANGED beats

\* start: registry.get, the work directory, reporter(5).  validate: probe,
\* validate_input, coarse_progress.  convert: the converter, then heartbeat.
Work(w) ==
    /\ pc[w] \in {"start", "validate", "convert"}
    /\ heartbeat(w)
    /\ Goto(w, NextPc[pc[w]])
    /\ UNCHANGED <<row, due, effects, storage, queue, reaping, canceller,
                   budget>>

\* The converter calls progress_callback while it runs.
Progress(w) ==
    /\ pc[w] = "convert"
    /\ Holds(w)
    /\ Touch(claim[w].job)
    /\ UNCHANGED <<row, due, effects, storage, queue, attempts, reaping,
                   canceller, budget>>

\* raise_if_cancelled: the fence is tested before the cancellation flag.
raise_if_cancelled(w) ==
    /\ pc[w] \in {"check1", "check2", "check3"}
    /\ LET j == claim[w].job
       IN  Goto(w, CASE claim_generation[j] # claim[w].gen -> "idle"
                     [] claim_generation[j] = claim[w].gen /\ cancel_requested[j]
                            -> "cancel"
                     [] OTHER -> NextPc[pc[w]])
    /\ UNCHANGED <<row, beats, due, effects, storage, queue, reaping,
                   canceller, budget>>

\* create_output_blob writes the bytes, then inserts the FileBlob row.
create_output_blob(w) ==
    LET b == <<claim[w].job, claim[w].gen>>
    IN  /\ \/ /\ pc[w] = "store"
              /\ heartbeat(w)
              /\ files' = files \cup {b}
              /\ UNCHANGED blobs
           \/ /\ pc[w] = "blob"
              /\ blobs' = blobs \cup {b}
              /\ UNCHANGED <<files, beats>>
        /\ Goto(w, NextPc[pc[w]])
        /\ UNCHANGED <<row, due, effects, inputs, queue, reaping, canceller,
                       budget>>

\* Mutants: a promotion that ignores the fence, or the cancellation flag.
PromoteUnfenced(w) == ~cancel_requested[claim[w].job]

PromoteUncancelled(w) == Holds(w)

MayPromote(w) == Holds(w) /\ ~cancel_requested[claim[w].job]

\* promote_output links the blob if the claim still holds and no cancellation
\* was requested; otherwise it re-reads the row to say which exception to raise.
promote_output(w) ==
    LET j == claim[w].job
    IN  /\ \/ /\ pc[w] = "promote"
              /\ IF MayPromote(w)
                 THEN /\ output_file' = [output_file EXCEPT ![j] = claim[w].gen]
                      /\ Goto(w, NextPc[pc[w]])
                 ELSE /\ Goto(w, "refused")
                      /\ UNCHANGED output_file
           \/ /\ pc[w] = "refused"
              /\ Goto(w, IF /\ claim_generation[j] = claim[w].gen
                            /\ cancel_requested[j]
                         THEN "discardCancelled" ELSE "discardFenced")
              /\ UNCHANGED output_file
        /\ UNCHANGED <<status, claim_generation, attempt_count,
                       cancel_requested, beats, due, effects, storage, queue,
                       reaping, canceller, budget>>

\* _discard_blob(output_blob), then the exception propagates.
discard_output(w) ==
    LET b == <<claim[w].job, claim[w].gen>>
    IN  /\ pc[w] \in Discards
        /\ files' = files \ {b}
        /\ blobs' = blobs \ {b}
        /\ Goto(w, AfterDiscard[pc[w]])
        /\ UNCHANGED <<row, beats, due, effects, inputs, queue, reaping,
                       canceller, budget>>

-----------------------------------------------------------------------------
(* How an attempt ends.                                                    *)

\* Mutant: the blob is looked up after output_file was set to NULL.
PurgedTooLate(j) == files \ {<<j, 0>>}

\* The bytes left once the output of j is deleted.
Purged(j) == files \ {<<j, output_file[j]>>}

\* terminal_transition: one transaction guarded by the fence (and not by the
\* cancellation flag).  Only DONE is billed.  With a retention of zero hours,
\* a setting that may have been edited since the last attempt, the same
\* transaction expires the output.
Expires(new, ttl) == new = "DONE" /\ ttl = 0

terminal_transition(w, new, event) ==
    LET j == claim[w].job
    IN  \E ttl \in TtlHours :
          /\ status' = [status EXCEPT ![j] =
                            IF Expires(new, ttl) THEN "EXPIRED" ELSE new]
          /\ output_file' = IF Expires(new, ttl) THEN [output_file EXCEPT ![j] = 0]
                                                 ELSE output_file
          /\ files' = IF Expires(new, ttl) THEN Purged(j) ELSE files
          /\ Touch(j)
          /\ ledger' = IF new = "DONE" THEN [ledger EXCEPT ![j] = @ + 1]
                                       ELSE ledger
          /\ outbox' = outbox \cup {<<j, event>>}
          /\ UNCHANGED <<claim_generation, attempt_count, cancel_requested,
                         blobs, inputs>>

\* The step at which an attempt asks for a terminal status.
EndingAt(step) ==
    CASE step = "finish" -> [new |-> "DONE",      event |-> "done"]
      [] step = "cancel" -> [new |-> "CANCELLED", event |-> "cancelled"]
      [] OTHER           -> [new |-> "FAILED",    event |-> "failed"]

EndSteps == {"finish", "cancel", "permanent", "exhausted"}

Finish(w) ==
    /\ pc[w] \in EndSteps
    /\ Holds(w)
    /\ terminal_transition(w, EndingAt(pc[w]).new, EndingAt(pc[w]).event)
    /\ Goto(w, IF pc[w] = "exhausted" THEN "deadLetter" ELSE "idle")
    /\ UNCHANGED <<due, queue, reaping, canceller, budget>>

\* The update matched no row: terminal_transition returned False.
FinishFenced(w) ==
    /\ pc[w] \in EndSteps
    /\ ~Holds(w)
    /\ Goto(w, "idle")
    /\ UNCHANGED <<row, beats, due, effects, storage, queue, reaping,
                   canceller, budget>>

\* Mutant: the last attempt is given away.
RetryUnlessNextIsLast(w) == claim[w].attempt < MAX_ATTEMPTS - 1

\* _handle_conversion_exception for a transient error.  The in-memory copy of
\* cancel_requested is FALSE since claim_job never returns a flagged row, so
\* the first branch of retry_transition is never taken.
CanRetry(w) == claim[w].attempt < MAX_ATTEMPTS

retry_transition(w) ==
    LET j == claim[w].job
    IN  /\ pc[w] = "transient"
        /\ IF CanRetry(w) /\ Holds(w) /\ ~cancel_requested[j]
           THEN /\ status' = [status EXCEPT ![j] = "RETRYING"]
                /\ Touch(j)
                /\ Goto(w, "retryQueue")
           ELSE /\ Goto(w, "exhausted")
                /\ UNCHANGED <<status, beats>>
        /\ UNCHANGED <<claim_generation, attempt_count, cancel_requested,
                       output_file, due, effects, storage, queue, reaping,
                       canceller, budget>>

\* The on_commit hook of retry_transition.
retry_enqueue(w) ==
    /\ pc[w] = "retryQueue"
    /\ queue' = [queue EXCEPT ![claim[w].job] = @ + 1]
    /\ Goto(w, "idle")
    /\ UNCHANGED <<row, beats, due, effects, storage, reaping, canceller,
                   budget>>

emit_dead_letter(w) ==
    /\ pc[w] = "deadLetter"
    /\ outbox' = outbox \cup {<<claim[w].job, "dead_letter">>}
    /\ Goto(w, "idle")
    /\ UNCHANGED <<row, beats, due, ledger, storage, queue, reaping,
                   canceller, budget>>

\* A converter raised.  validate_output and create_output_blob may raise too.
ConverterRaises(w) ==
    /\ pc[w] \in {"validate", "convert", "store"}
    /\ \E class \in {"transient", "permanent"} : Goto(w, class)
    /\ UNCHANGED <<row, beats, due, effects, storage, queue, reaping,
                   canceller, budget>>

\* Any other exception inside the try block: UnsupportedFormatPair, a full
\* disk, a database error, Celery's SoftTimeLimitExceeded.  None is transient.
Raises(w) ==
    /\ pc[w] \in TryBody
    /\ Goto(w, IF pc[w] \in {"promote", "refused"} THEN "discardFailed"
                                                    ELSE "permanent")
    /\ UNCHANGED <<row, beats, due, effects, storage, queue, reaping,
                   canceller, budget>>

WorkerStep(w) ==
    \/ Work(w) \/ raise_if_cancelled(w) \/ create_output_blob(w)
    \/ promote_output(w) \/ discard_output(w)
    \/ Finish(w) \/ FinishFenced(w)
    \/ retry_transition(w) \/ retry_enqueue(w) \/ emit_dead_letter(w)
    \/ ConverterRaises(w) \/ Raises(w)

-----------------------------------------------------------------------------
(* What the platform does to workers and messages.                         *)

\* An attempt ends without another write.  Its message goes back to the queue
\* when the process is lost (acks_late with reject_on_worker_lost), and is
\* acknowledged when the hard time limit, or an exception raised by a handler
\* or by the broker, ends the task.  A row left RETRYING with no message is a
\* lost enqueue.
WorkerDies(w, redelivered) ==
    /\ pc[w] # "idle"
    /\ Fault
    /\ redelivered => claim[w].msg
    /\ queue' = IF redelivered
                THEN [queue EXCEPT ![claim[w].job] = @ + 1] ELSE queue
    /\ IF pc[w] = "retryQueue" /\ ~redelivered
       THEN lost < MaxLost /\ lost' = lost + 1
       ELSE UNCHANGED lost
    /\ Goto(w, "idle")
    /\ UNCHANGED <<row, beats, due, effects, storage, reaping, canceller>>

\* The broker's visibility timeout elapsed before the acknowledgement.
Redeliver(w) ==
    /\ pc[w] # "idle"
    /\ claim[w].msg
    /\ Fault
    /\ queue' = [queue EXCEPT ![claim[w].job] = @ + 1]
    /\ UNCHANGED <<row, beats, due, effects, storage, attempts, reaping,
                   canceller, lost>>

\* STALE_PROCESSING_AFTER elapses with nobody writing heartbeats ...
HeartbeatAges(j) ==
    /\ status[j] = "PROCESSING"
    /\ ~Attended(j)
    /\ stale' = stale \cup {j}
    /\ UNCHANGED <<row, overdue, due, effects, storage, queue, attempts,
                   reaping, canceller, budget>>

\* ... or while the worker is paused: the task limits are shorter than it.
WorkerStalls(j) ==
    /\ status[j] = "PROCESSING"
    /\ Attended(j)
    /\ j \notin stale
    /\ Fault
    /\ stale' = stale \cup {j}
    /\ UNCHANGED <<row, overdue, due, effects, storage, queue, attempts,
                   reaping, canceller, lost>>

-----------------------------------------------------------------------------
(* requeue_stale_jobs: a snapshot of the stale rows, then one step per row.*)

\* Mutant: rows with a cancellation request are left to their worker.
StaleUncancelled == {j \in stale : status[j] = "PROCESSING" /\ ~cancel_requested[j]}

StaleProcessing == {j \in stale : status[j] = "PROCESSING"}

requeue_stale_jobs ==
    LET found == StaleProcessing
    IN  /\ rows = {}
        /\ requeuing = NoJob
        /\ found # {}
        /\ rows' = {[job |-> j, attempt_count |-> attempt_count[j],
                     cancel_requested |-> cancel_requested[j]] : j \in found}
        /\ overdue' = found
        /\ UNCHANGED <<row, stale, due, effects, storage, queue, attempts,
                       requeuing, canceller, budget>>

\* Mutant: the snapshot's word is taken for the status.
ReapCancelledUnchecked(r) ==
    /\ r.cancel_requested
    /\ cancel_requested[r.job]
    /\ status' = [status EXCEPT ![r.job] = "CANCELLED"]
    /\ Touch(r.job)
    /\ UNCHANGED <<outbox, requeuing>>

\* Rechecked under the row lock: the flag and the status, not the heartbeat.
ReapCancelled(r) ==
    /\ r.cancel_requested
    /\ cancel_requested[r.job]
    /\ status[r.job] = "PROCESSING"
    /\ status' = [status EXCEPT ![r.job] = "CANCELLED"]
    /\ Touch(r.job)
    /\ UNCHANGED <<outbox, requeuing>>

\* Mutant: the heartbeat is not rechecked.
StillProcessing(r) == status[r.job] = "PROCESSING"

\* The updates below recheck the status and the heartbeat, not the flag.
StillStale(r) == status[r.job] = "PROCESSING" /\ r.job \in overdue

ReapExhausted(r) ==
    /\ ~r.cancel_requested
    /\ r.attempt_count >= MAX_ATTEMPTS
    /\ StillStale(r)
    /\ status' = [status EXCEPT ![r.job] = "FAILED"]
    /\ Touch(r.job)
    /\ outbox' = outbox \cup {<<r.job, "failed">>, <<r.job, "dead_letter">>}
    /\ UNCHANGED requeuing

ReapRequeue(r) ==
    /\ ~r.cancel_requested
    /\ r.attempt_count < MAX_ATTEMPTS
    /\ StillStale(r)
    /\ status' = [status EXCEPT ![r.job] = "RETRYING"]
    /\ requeuing' = r.job
    /\ overdue' = overdue \ {r.job}
    /\ UNCHANGED <<stale, outbox>>

\* The row moved on since the snapshot.
ReapSkip(r) ==
    /\ IF r.cancel_requested
       THEN ~(cancel_requested[r.job] /\ status[r.job] = "PROCESSING")
       ELSE ~StillStale(r)
    /\ overdue' = overdue \ {r.job}
    /\ UNCHANGED <<status, stale, outbox, requeuing>>

ReapRow(r) ==
    /\ requeuing = NoJob
    /\ \/ ReapCancelled(r) \/ ReapExhausted(r) \/ ReapRequeue(r) \/ ReapSkip(r)
    /\ rows' = rows \ {r}
    /\ UNCHANGED <<claim_generation, attempt_count, cancel_requested,
                   output_file, due, ledger, storage, queue, attempts,
                   canceller, budget>>

\* enqueue_conversion_job, a separate step from the update it follows.
reap_enqueue ==
    /\ requeuing # NoJob
    /\ queue' = [queue EXCEPT ![requeuing] = @ + 1]
    /\ requeuing' = NoJob
    /\ UNCHANGED <<row, beats, due, effects, storage, attempts, rows,
                   canceller, budget>>

\* The pass is interrupted, by a crash or because the broker refused.
ReaperDies ==
    /\ rows # {} \/ requeuing # NoJob
    /\ Fault
    /\ IF requeuing # NoJob THEN lost < MaxLost /\ lost' = lost + 1
                            ELSE UNCHANGED lost
    /\ rows' = {}
    /\ overdue' = {}
    /\ requeuing' = NoJob
    /\ UNCHANGED <<row, stale, due, effects, storage, queue, attempts,
                   canceller>>

-----------------------------------------------------------------------------
(* request_cancel, called by the cancel view outside any transaction: it   *)
(* reads the row, then writes on the strength of what it read.             *)

request_cancel(j) ==
    /\ canceller[j] = "idle"
    /\ \/ /\ status[j] \in Waiting
          /\ canceller' = [canceller EXCEPT ![j] = "cancel"]
       \/ /\ status[j] = "PROCESSING"
          /\ ~cancel_requested[j]
          /\ canceller' = [canceller EXCEPT ![j] = "flag"]
    /\ UNCHANGED <<row, beats, due, effects, storage, queue, attempts,
                   reaping, budget>>

\* Mutant: the update is not conditional on the status.
CancelAppliesAlways(j) == TRUE

CancelApplies(j) == status[j] \in Waiting

\* The conditional update of _immediate_cancel ...
immediate_cancel(j) ==
    /\ canceller[j] = "cancel"
    /\ IF CancelApplies(j)
       THEN /\ status' = [status EXCEPT ![j] = "CANCELLED"]
            /\ cancel_requested' = [cancel_requested EXCEPT ![j] = TRUE]
            /\ Touch(j)
            /\ canceller' = [canceller EXCEPT ![j] = "announce"]
       ELSE /\ canceller' = [canceller EXCEPT ![j] = "idle"]
            /\ UNCHANGED <<status, cancel_requested, beats>>
    /\ UNCHANGED <<claim_generation, attempt_count, output_file, due, effects,
                   storage, queue, attempts, reaping, budget>>

\* ... and the outbox event that follows it.
announce_cancel(j) ==
    /\ canceller[j] = "announce"
    /\ outbox' = outbox \cup {<<j, "cancelled">>}
    /\ canceller' = [canceller EXCEPT ![j] = "idle"]
    /\ UNCHANGED <<row, beats, due, ledger, storage, queue, attempts, reaping,
                   budget>>

\* The flag is set whatever the status has become meanwhile.
flag_cancel(j) ==
    /\ canceller[j] = "flag"
    /\ cancel_requested' = [cancel_requested EXCEPT ![j] = TRUE]
    /\ canceller' = [canceller EXCEPT ![j] = "idle"]
    /\ UNCHANGED <<status, claim_generation, attempt_count, output_file, beats,
                   due, effects, storage, queue, attempts, reaping, budget>>

\* The web process dies in the middle of the request.
CancelRequestDies(j) ==
    /\ canceller[j] # "idle"
    /\ Fault
    /\ canceller' = [canceller EXCEPT ![j] = "idle"]
    /\ UNCHANGED <<row, beats, due, effects, storage, queue, attempts,
                   reaping, lost>>

-----------------------------------------------------------------------------
(* Retention.                                                              *)

RetentionElapses(j) ==
    /\ status[j] = "DONE"
    /\ j \notin due
    /\ due' = due \cup {j}
    /\ UNCHANGED <<row, beats, effects, storage, queue, attempts, reaping,
                   canceller, budget>>

\* The bytes are deleted inside the transaction that expires the row.
expire_due_outputs(j) ==
    /\ status[j] = "DONE"
    /\ j \in due
    /\ files' = Purged(j)
    /\ status' = [status EXCEPT ![j] = "EXPIRED"]
    /\ output_file' = [output_file EXCEPT ![j] = 0]
    /\ UNCHANGED <<claim_generation, attempt_count, cancel_requested, beats,
                   due, effects, blobs, inputs, queue, attempts, reaping,
                   canceller, budget>>

\* The process dies after the deletion and before the commit.
ExpiryRollsBack(j) ==
    /\ status[j] = "DONE"
    /\ j \in due
    /\ Fault
    /\ files' = Purged(j)
    /\ UNCHANGED <<row, beats, due, effects, blobs, inputs, queue, attempts,
                   reaping, canceller, lost>>

\* Mutant: any row that no worker holds.
InputPurgeableUnclaimed(j) == status[j] # "PROCESSING"

InputPurgeable(j) == status[j] \in Terminal

purge_terminal_input_files(j) ==
    /\ InputPurgeable(j)
    /\ j \in inputs
    /\ inputs' = inputs \ {j}
    /\ UNCHANGED <<row, beats, due, effects, files, blobs, queue, attempts,
                   reaping, canceller, budget>>

\* A blob no row references, older than any attempt that might still link it.
InUse(b) == \E w \in Workers : /\ pc[w] # "idle"
                               /\ b = <<claim[w].job, claim[w].gen>>

\* Mutant: only the blobs of a job without any output.
UnreferencedNoOutput(b) == output_file[b[1]] = 0

Unreferenced(b) == output_file[b[1]] # b[2]

garbage_collect_blobs(b) ==
    /\ Unreferenced(b)
    /\ ~InUse(b)
    /\ files' = files \ {b}
    /\ blobs' = blobs \ {b}
    /\ UNCHANGED <<row, beats, due, effects, inputs, queue, attempts, reaping,
                   canceller, budget>>

-----------------------------------------------------------------------------
Platform ==
    \/ \E w \in Workers : \/ \E redelivered \in BOOLEAN : WorkerDies(w, redelivered)
                          \/ Redeliver(w)
    \/ \E j \in Jobs : HeartbeatAges(j) \/ WorkerStalls(j)

Reaper == \/ requeue_stale_jobs
          \/ \E r \in rows : ReapRow(r)
          \/ reap_enqueue

Cancel(j) == \/ request_cancel(j) \/ immediate_cancel(j) \/ announce_cancel(j)
             \/ flag_cancel(j) \/ CancelRequestDies(j)

Retention(j) == \/ RetentionElapses(j) \/ expire_due_outputs(j)
                \/ ExpiryRollsBack(j) \/ purge_terminal_input_files(j)

Next ==
    \/ \E w \in Workers : \/ \E j \in Jobs : Deliver(w, j)
                          \/ WorkerStep(w)
                          \/ Progress(w)
    \/ Platform
    \/ Reaper
    \/ ReaperDies
    \/ \E j \in Jobs : Cancel(j) \/ Retention(j)
    \/ \E b \in blobs : garbage_collect_blobs(b)

Spec == Init /\ [][Next]_vars

\* Weak fairness of what runs by itself: Celery delivers to an idle worker, a
\* worker that was not killed keeps going, an unattended heartbeat ages, beat
\* runs the reaper, the expiry and the collector.  Nothing obliges a crash, a
\* cancellation request, the operator's command or the purge of inputs.
Fairness ==
    /\ \A j \in Jobs :
         /\ WF_vars(\E w \in Workers : \/ claim_job(w, j, "message")
                                       \/ claim_cancelled(w, j, "message")
                                       \/ claim_refused(w, j))
         /\ WF_vars(HeartbeatAges(j))
         /\ WF_vars(immediate_cancel(j) \/ announce_cancel(j) \/ flag_cancel(j))
         /\ WF_vars(RetentionElapses(j))
         /\ WF_vars(expire_due_outputs(j))
    /\ \A w \in Workers : WF_vars(WorkerStep(w))
    /\ WF_vars(Reaper)
    /\ WF_vars(\E b \in blobs : garbage_collect_blobs(b))

FairSpec == Spec /\ Fairness

-----------------------------------------------------------------------------
(* Properties.                                                             *)

\* Fencing: at most one running attempt passes the (pk, claim_generation,
\* PROCESSING) filter of a job, however often its message was delivered.
SingleHolder ==
    \A v, w \in Workers :
        /\ pc[v] # "idle" /\ Holds(v)
        /\ pc[w] # "idle" /\ Holds(w)
        /\ claim[v].job = claim[w].job
        => v = w

\* A DONE job links the output of its newest claim: promote_output and
\* terminal_transition are two commits, and no other attempt's output can be
\* linked between them or after them.
DoneLinksNewestClaim ==
    \A j \in Jobs : status[j] = "DONE" =>
        /\ claim_generation[j] > 0
        /\ output_file[j] = claim_generation[j]

\* A DONE job inside its retention window can be downloaded, and whatever
\* output_downloadable offers has its bytes on disk, although expiry deletes
\* bytes before it commits and superseded attempts discard theirs.
DownloadsHaveBytes ==
    \A j \in Jobs :
        /\ status[j] = "DONE" /\ j \notin due => Downloadable(j)
        /\ Downloadable(j) => <<j, output_file[j]>> \in files

\* UsageLedger has one row for a job that completed (expired since or not)
\* and none for any other: redelivered and superseded attempts are not billed.
BilledExactlyOnce ==
    \A j \in Jobs :
        ledger[j] = IF status[j] \in {"DONE", "EXPIRED"} THEN 1 ELSE 0

\* Once a job is EXPIRED the bytes of the claim that completed it are gone,
\* whether expire_due_outputs or the completing transaction purged them.
ExpiredBytesGone ==
    \A j \in Jobs : status[j] = "EXPIRED" => <<j, claim_generation[j]>> \notin files

\* Consumers of the outbox are never told two outcomes of one job, nor one
\* that the row contradicts; a completed or a failed job has its event.
OutboxAgreesWithRow ==
    \A j \in Jobs :
        /\ <<j, "done">> \in outbox <=> status[j] \in {"DONE", "EXPIRED"}
        /\ <<j, "failed">> \in outbox <=> status[j] = "FAILED"
        /\ <<j, "cancelled">> \in outbox => status[j] = "CANCELLED"
        /\ <<j, "dead_letter">> \in outbox => status[j] = "FAILED"

\* A job waiting for another attempt has an attempt left, whether it was the
\* worker or the reaper (from a snapshot) that put it back.
RetriesWithinBudget ==
    \A j \in Jobs : status[j] \in Waiting => attempt_count[j] < MAX_ATTEMPTS

\* A dead letter reports a job that used all its attempts, or one whose retry a
\* cancellation defeated: no crash, takeover or stale snapshot makes a job look
\* exhausted before it is.
DeadLetterHasCause ==
    \A j \in Jobs : <<j, "dead_letter">> \in outbox =>
        attempt_count[j] >= MAX_ATTEMPTS \/ cancel_requested[j]

\* Rows that wait for a message which is neither in the queue nor about to be
\* put there: no scheduled task looks at them.
Stranded ==
    {j \in Jobs : /\ status[j] \in Waiting
                  /\ queue[j] = 0
                  /\ requeuing # j
                  /\ \A w \in Workers : ~(pc[w] = "retryQueue" /\ claim[w].job = j)}

\* A job is stranded only by a crash between the commit of RETRYING and the
\* enqueue, at most one job by each: refused, duplicated and superseded
\* deliveries never consume the message a waiting row depends on.
StrandedByLossOnly == Cardinality(Stranded) <= lost

\* Input bytes are not purged while an attempt may still read them.
ActiveKeepsInput == \A j \in Jobs : status[j] \in Active => j \in inputs

\* No step of an attempt whose claim was superseded changes the job's row, its
\* billing or its announcements.
FencedWorkerIsInert ==
    [][\A w \in Workers :
         LET j == claim[w].job
         IN  /\ pc[w] # "idle"
             /\ pc'[w] # pc[w]
             /\ claim_generation[j] # claim[w].gen
             => UNCHANGED <<row, ledger, outbox>>]_vars

\* A cancellation that is requested before the running claim has promoted its
\* output is honoured: the job does not become DONE, nor is an output linked.
CancelBeforePromotion(j) ==
    /\ cancel_requested[j]
    /\ status[j] \in Active
    /\ output_file[j] # claim_generation[j]

CancelBeforePromotionWins ==
    [][\A j \in Jobs : CancelBeforePromotion(j) =>
           \/ CancelBeforePromotion(j)'
           \/ status'[j] \in {"FAILED", "CANCELLED"}]_vars

\* Every job reaches a terminal status although workers crash, stall and are
\* killed, messages are duplicated and acknowledged early, and cancellations
\* interleave with all of it.
EveryJobEnds == \A j \in Jobs : <>(status[j] \in Terminal)

MaxGeneration == MAX_ATTEMPTS + MaxFaults

\* An output blob whose promotion never happened is collected, unless its
\* attempt goes on to link it.
OrphansCollected ==
    \A j \in Jobs, g \in 1..MaxGeneration :
        (<<j, g>> \in blobs /\ output_file[j] # g)
            ~> (<<j, g>> \notin blobs \/ output_file[j] = g)

\* The refinement mapping: a job is open until its status is terminal.
Outcome == [j \in Jobs |-> IF status[j] \in Active THEN "OPEN" ELSE status[j]]

Contract == INSTANCE JobContract WITH outcome <- Outcome

\* The whole protocol (claims, retries, fencing, the reaper, cancellation and
\* expiry) implements the JobContract specification of a job's outcome.
ContractSpec == Contract!Spec

-----------------------------------------------------------------------------
(* The inductive invariant behind the safety properties.                   *)

\* Claims are fenced: an attempt holds a generation no other attempt holds and
\* no newer than the row's; while it is the newest it knows attempt_count.
ClaimsFenced ==
    /\ \A w \in Workers : pc[w] # "idle" =>
          /\ 0 < claim[w].gen
          /\ claim[w].gen <= claim_generation[claim[w].job]
          /\ claim[w].gen = claim_generation[claim[w].job]
                => claim[w].attempt = attempt_count[claim[w].job]
    /\ \A v, w \in Workers :
          /\ pc[v] # "idle" /\ pc[w] # "idle"
          /\ claim[v].job = claim[w].job
          /\ claim[v].gen = claim[w].gen
          => v = w

\* While the newest attempt runs its job is not completed; at the finish line
\* it has linked its own output; after "exhausted" its job has failed.
NewestAttempt ==
    \A w \in Workers :
        LET j == claim[w].job
        IN  /\ pc[w] # "idle" /\ claim[w].gen = claim_generation[j]
                 => status[j] \notin {"DONE", "EXPIRED"}
            /\ pc[w] = "finish" /\ Holds(w) => output_file[j] = claim[w].gen
            /\ pc[w] = "deadLetter"
                 => status[j] = "FAILED" /\ claim[w].gen = claim_generation[j]

\* The reaper's snapshot is accurate for the rows it may still act on.
SnapshotAccurate ==
    \A r \in rows : r.job \in overdue => r.attempt_count = attempt_count[r.job]

\* An attempt's output exists from its creation until the attempt ends.
AttemptOutputStored ==
    \A w \in Workers :
        LET b == <<claim[w].job, claim[w].gen>>
        IN  /\ pc[w] \in {"blob", "promote", "finish"} => b \in files
            /\ pc[w] \in {"promote", "finish"} => b \in blobs

\* A request announces a cancellation only after having made it.
AnnouncesCancelled ==
    \A j \in Jobs : canceller[j] = "announce" => status[j] = "CANCELLED"

SafetyInv ==
    /\ TypeOK
    /\ ClaimsFenced
    /\ NewestAttempt
    /\ SnapshotAccurate
    /\ RetriesWithinBudget
    /\ AttemptOutputStored
    /\ DoneLinksNewestClaim
    /\ DownloadsHaveBytes
    /\ ExpiredBytesGone
    /\ AnnouncesCancelled
    /\ BilledExactlyOnce
    /\ OutboxAgreesWithRow
    /\ ActiveKeepsInput

-----------------------------------------------------------------------------
(* A statement of the documentation that the code does not keep.           *)

\* The scheduled tasks eventually reclaim the bytes of the outputs that an
\* ended job registered as FileBlob rows.
OutputsReclaimed ==
    \A j \in Jobs :
        status[j] \in Terminal ~> \A g \in 1..MaxGeneration :
                                       <<j, g>> \notin files \cap blobs

=============================================================================
