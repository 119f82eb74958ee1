------------------------------ MODULE BeatLock ------------------------------
(***************************************************************************)
(* single_instance (apps/conversions/tasks.py): the cache entry that keeps *)
(* two runs of one periodic task from overlapping.  The entry carries no   *)
(* owner: it expires by itself, and whoever finishes deletes it.           *)
(*                                                                         *)
(* Time passes in ticks.  A run is stopped once TimeLimit ticks have gone  *)
(* by since its task started (CELERY_TASK_SOFT_TIME_LIMIT), which is a     *)
(* little before it takes the lock.                                        *)
(***************************************************************************)
EXTENDS Integers

CONSTANTS
    Processes,    \* Celery workers that may run the task
    LockTimeout,  \* the timeout argument of single_instance
    TimeLimit     \* the task's time limit

ASSUME BeatLockConstants ==
    /\ LockTimeout \in Nat \ {0}
    /\ TimeLimit \in Nat \ {0}

VARIABLES
    phase,  \* "idle", "adding", "running", "deleting"
    age,    \* ticks since the task started
    lock    \* ticks the cache entry has left, 0 when there is none

vars == <<phase, age, lock>>

TypeOK ==
    /\ phase \in [Processes -> {"idle", "adding", "running", "deleting"}]
    /\ age \in [Processes -> 0..TimeLimit]
    /\ lock \in 0..LockTimeout

Init ==
    /\ phase = [p \in Processes |-> "idle"]
    /\ age = [p \in Processes |-> 0]
    /\ lock = 0

-----------------------------------------------------------------------------
\* Beat's message reaches a worker: a second scheduler, or a run that is still
\* going, does not prevent it.
start(p) ==
    /\ phase[p] = "idle"
    /\ phase' = [phase EXCEPT ![p] = "adding"]
    /\ age' = [age EXCEPT ![p] = 0]
    /\ UNCHANGED lock

\* Mutant: the key is set instead of added.
Overwritten == TRUE

Free == lock = 0

\* cache.add(key, "1", timeout) succeeds only if there is no entry.
add(p) ==
    /\ phase[p] = "adding"
    /\ IF Free
       THEN /\ lock' = LockTimeout
            /\ phase' = [phase EXCEPT ![p] = "running"]
       ELSE /\ phase' = [phase EXCEPT ![p] = "idle"]
            /\ UNCHANGED lock
    /\ UNCHANGED age

\* func returns or raises, at the latest when the time limit is reached.
body_ends(p) ==
    /\ phase[p] = "running"
    /\ phase' = [phase EXCEPT ![p] = "deleting"]
    /\ UNCHANGED <<age, lock>>

\* finally: cache.delete(key)
delete(p) ==
    /\ phase[p] = "deleting"
    /\ lock' = 0
    /\ phase' = [phase EXCEPT ![p] = "idle"]
    /\ UNCHANGED age

\* The process is lost: the finally clause does not run.
Dies(p) ==
    /\ phase[p] \in {"running", "deleting"}
    /\ phase' = [phase EXCEPT ![p] = "idle"]
    /\ UNCHANGED <<age, lock>>

\* Mutant: an entry without a timeout.
NeverExpires == lock

Expiring == IF lock = 0 THEN 0 ELSE lock - 1

\* No run outlives its time limit.
Tick ==
    /\ \A p \in Processes : phase[p] # "idle" => age[p] < TimeLimit
    /\ age' = [p \in Processes |-> IF phase[p] = "idle" THEN age[p] ELSE age[p] + 1]
    /\ lock' = Expiring
    /\ UNCHANGED phase

RunStep(p) == start(p) \/ add(p) \/ body_ends(p) \/ delete(p)

Next == \/ \E p \in Processes : RunStep(p) \/ Dies(p)
        \/ Tick

Spec == Init /\ [][Next]_vars

\* Beat keeps sending the task, workers run on, and time passes.
FairSpec == Spec /\ WF_vars(Tick) /\ \A p \in Processes : WF_vars(RunStep(p))

-----------------------------------------------------------------------------
\* "Ensure only one instance of a periodic task runs at a time across the
\* fleet": single_instance's docstring.
Exclusive ==
    \A p, q \in Processes : phase[p] = "running" /\ phase[q] = "running" => p = q

\* A run that dies with the lock does not stop the periodic task for good.
RunsAgain == []<>(\E p \in Processes : phase[p] = "running")

\* The inductive invariant: one process at most is past cache.add, and the
\* entry it added outlives what is left of its time.
Holders == {p \in Processes : phase[p] \in {"running", "deleting"}}

LockOutlivesRun ==
    /\ \A p, q \in Holders : p = q
    /\ \A p \in Holders : lock + age[p] >= LockTimeout

BeatLockInv == TypeOK /\ LockOutlivesRun

=============================================================================
