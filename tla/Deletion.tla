------------------------------ MODULE Deletion ------------------------------
(***************************************************************************)
(* delete_user_account (apps/organizations/lifecycle.py): one transaction  *)
(* that scrubs the user's data from organizations others belong to, and    *)
(* deletes those nobody else belongs to.  Meanwhile people join and leave, *)
(* submissions arrive and workers convert.                                 *)
(*                                                                         *)
(* PostgreSQL at READ COMMITTED: a statement sees what others have         *)
(* committed so far and what its own transaction did (tx).  The deletion   *)
(* of bytes is not undone by a rollback.  A statement of somebody else     *)
(* that needs a row the transaction holds waits until it ends.             *)
(***************************************************************************)
EXTENDS Naturals

CONSTANTS
    Orgs, People,
    user,        \* the person whose account is deleted
    NoOrg,
    Jobs,        \* conversions, each submitted once
    MaxFaults    \* bound: database errors, storage errors, kills of the command

ASSUME DeletionConstants ==
    /\ user \in People
    /\ NoOrg \notin Orgs
    /\ MaxFaults \in Nat

VARIABLES
    orgs, members,        \* Organization and Membership rows
    origin,               \* the organization and the owner of each job
    jobs, blobs,          \* ConversionJob and FileBlob rows
    deleted,              \* FileBlob rows with deleted_at
    redacted,             \* ConversionJob rows without the file's name
    files,                \* bytes on disk
    stage,                \* how far each conversion is
    pc, todo, shared, target,  \* the command
    tx,                   \* what its transaction has written so far
    scope,                \* the user's organizations when it started, {} as
                          \* soon as anyone else acts or a file.delete raises
    faults

tables  == <<orgs, members, jobs, blobs, deleted, redacted>>
command == <<pc, todo, shared, target, tx, scope>>
vars    == <<tables, origin, files, stage, command, faults>>

-----------------------------------------------------------------------------
In(j)  == <<j, "input">>
Out(j) == <<j, "output">>
Blobs  == Jobs \X {"input", "output"}

\* Submission up to "queued", conversion up to "converted".
Stages == {"new", "stored", "registered", "queued", "running", "outStored",
           "outRegistered", "converted", "ended"}

Settled == {"new", "converted", "ended"}

Steps == {"idle", "shared", "redact", "survey", "files", "jobs", "blobs", "org",
          "commit", "done", "failed"}

NoTx == [jobs |-> {}, blobs |-> {}, orgs |-> {}, deleted |-> {}, redacted |-> {}]

TypeOK ==
    /\ orgs \subseteq Orgs
    /\ members \in [Orgs -> SUBSET People]
    /\ origin \in [Jobs -> [org : Orgs, owner : People]]
    /\ jobs \subseteq Jobs
    /\ blobs \subseteq Blobs
    /\ deleted \subseteq blobs
    /\ redacted \subseteq jobs
    /\ files \subseteq Blobs
    /\ stage \in [Jobs -> Stages]
    /\ pc \in Steps
    /\ todo \subseteq Orgs
    /\ shared \subseteq Orgs
    /\ target \in Orgs \cup {NoOrg}
    /\ tx \in [jobs : SUBSET Jobs, blobs : SUBSET Blobs, orgs : SUBSET Orgs,
               deleted : SUBSET Blobs, redacted : SUBSET Jobs]
    /\ scope \subseteq Orgs
    /\ faults \in Nat

Init ==
    /\ orgs = Orgs
    /\ members \in [Orgs -> SUBSET People]
    /\ origin \in [Jobs -> [org : Orgs, owner : People]]
    /\ jobs = {} /\ blobs = {} /\ deleted = {} /\ redacted = {}
    /\ files = {}
    /\ stage = [j \in Jobs |-> "new"]
    /\ pc = "idle"
    /\ todo = {} /\ shared = {} /\ target = NoOrg
    /\ tx = NoTx
    /\ scope = {}
    /\ faults = 0

JobsOf(o)  == {j \in jobs \ tx.jobs : origin[j].org = o}
BlobsOf(o) == {b \in blobs \ tx.blobs : origin[b[1]].org = o}

\* The linked blobs of j: output_file is set by the promotion.
Linked(j) == {In(j)} \cup IF stage[j] = "converted" THEN {Out(j)} ELSE {}

-----------------------------------------------------------------------------
(* Everybody else.                                                         *)

\* Rows another transaction may reference or update without waiting.
Free(o) == o \in orgs \ tx.orgs
FreeJob(j) == j \in jobs \ (tx.jobs \cup tx.redacted)
FreePerson(p) == p = user => pc \notin {"commit", "done"}

Other == /\ scope' = {}
         /\ UNCHANGED <<origin, pc, todo, shared, target, tx, faults>>

\* An administrator edits the memberships.
Join(p, o) ==
    /\ Free(o) /\ FreePerson(p)
    /\ p \notin members[o]
    /\ members' = [members EXCEPT ![o] = @ \cup {p}]
    /\ Other
    /\ UNCHANGED <<orgs, jobs, blobs, deleted, redacted, files, stage>>

Leave(p, o) ==
    /\ Free(o) /\ FreePerson(p)
    /\ p \in members[o]
    /\ members' = [members EXCEPT ![o] = @ \ {p}]
    /\ Other
    /\ UNCHANGED <<orgs, jobs, blobs, deleted, redacted, files, stage>>

Advance(j, from, to) ==
    /\ stage[j] = from
    /\ stage' = [stage EXCEPT ![j] = to]
    /\ Other

\* file.save of _persist_input_blob, after the access check.
store_input(j) ==
    /\ origin[j].owner \in members[origin[j].org]
    /\ Advance(j, "new", "stored")
    /\ files' = files \cup {In(j)}
    /\ UNCHANGED tables

\* FileBlob.save, of an input or an output; in an organization that is gone it
\* raises, and nobody deletes the bytes.
insert_blob(j, b, from, to) ==
    /\ \/ /\ Free(origin[j].org)
          /\ Advance(j, from, to)
          /\ blobs' = blobs \cup {b}
       \/ /\ origin[j].org \notin orgs
          /\ Advance(j, from, "ended")
          /\ UNCHANGED blobs
    /\ UNCHANGED <<orgs, members, jobs, deleted, redacted, files>>

\* Mutant: the row is left to the collector.
DiscardBytes(b) ==
    /\ files' = files \ {b}
    /\ UNCHANGED <<blobs, deleted>>

\* _discard_blob
discard_blob(b) ==
    /\ files' = files \ {b}
    /\ blobs' = blobs \ {b}
    /\ deleted' = deleted \ {b}

\* get_or_create of the job, or the handler when the quota, a lost row or an
\* error refuses it.
insert_job(j) ==
    /\ \/ /\ Free(origin[j].org) /\ FreePerson(origin[j].owner)
          /\ In(j) \in blobs \ tx.blobs
          /\ Advance(j, "registered", "queued")
          /\ jobs' = jobs \cup {j}
          /\ UNCHANGED <<blobs, deleted, files>>
       \/ /\ In(j) \notin tx.blobs
          /\ Advance(j, "registered", "ended")
          /\ discard_blob(In(j))
          /\ UNCHANGED jobs
    /\ UNCHANGED <<orgs, members, redacted>>

claim_job(j) ==
    /\ \/ FreeJob(j) /\ Advance(j, "queued", "running")
       \/ j \notin jobs /\ Advance(j, "queued", "ended")
    /\ UNCHANGED <<tables, files>>

\* An attempt ends, in a row of its own or one that is gone.
Ends(j, from) ==
    /\ FreeJob(j) \/ j \notin jobs
    /\ Advance(j, from, "ended")

\* The conversion, which needs the bytes of the input, or its failure.
store_output(j) ==
    /\ \/ /\ In(j) \in files
          /\ Advance(j, "running", "outStored")
          /\ files' = files \cup {Out(j)}
       \/ /\ Ends(j, "running")
          /\ UNCHANGED files
    /\ UNCHANGED tables

\* Promoted, or fenced or cancelled.
promote_output(j) ==
    /\ \/ /\ FreeJob(j)
          /\ Advance(j, "outRegistered", "converted")
          /\ UNCHANGED <<blobs, deleted, files>>
       \/ /\ Ends(j, "outRegistered")
          /\ Out(j) \notin tx.blobs
          /\ discard_blob(Out(j))
    /\ UNCHANGED <<orgs, members, jobs, redacted>>

purge_terminal_input_files(j) ==
    /\ stage[j] \in {"converted", "ended"}
    /\ FreeJob(j)
    /\ In(j) \in blobs \ (deleted \cup tx.deleted)
    /\ files' = files \ {In(j)}
    /\ deleted' = deleted \cup {In(j)}
    /\ Other
    /\ UNCHANGED <<orgs, members, jobs, blobs, redacted, stage>>

Conversion(j) ==
    \/ store_input(j)
    \/ insert_blob(j, In(j), "stored", "registered")
    \/ insert_job(j) \/ claim_job(j) \/ store_output(j)
    \/ insert_blob(j, Out(j), "outStored", "outRegistered")
    \/ promote_output(j) \/ purge_terminal_input_files(j)

-----------------------------------------------------------------------------
(* delete_user_account.                                                    *)

MyOrgs == {o \in orgs \ tx.orgs : user \in members[o]}

has_others(o) == members[o] \ {user} # {}

\* The command, run for the first time or again after a failure.
begin ==
    /\ pc \in {"idle", "failed"}
    /\ pc' = "shared"
    /\ todo' = MyOrgs
    /\ shared' = {}
    /\ scope' = IF \A j \in Jobs : stage[j] \in Settled THEN MyOrgs ELSE {}
    /\ UNCHANGED <<tables, origin, files, stage, target, tx, faults>>

find_shared(o) ==
    /\ pc = "shared"
    /\ o \in todo
    /\ todo' = todo \ {o}
    /\ shared' = IF has_others(o) THEN shared \cup {o} ELSE shared
    /\ UNCHANGED <<tables, origin, files, stage, pc, target, tx, scope, faults>>

OwnedJobs == {j \in jobs : origin[j].owner = user /\ origin[j].org \in shared}

\* Mutant: only the inputs.
InputsOfOwned == {In(j) : j \in OwnedJobs} \ deleted

\* What the scrub selects: linked blobs without deleted_at.
OwnedBlobs == (UNION {Linked(j) : j \in OwnedJobs}) \ deleted

\* file.delete of each blob; the loops go on past one that raises.
unlink(bs) ==
    \/ /\ files' = files \ bs
       /\ UNCHANGED <<scope, faults>>
    \/ /\ faults < MaxFaults
       /\ faults' = faults + 1
       /\ \E kept \in SUBSET (bs \cap files) : files' = (files \ bs) \cup kept
       /\ scope' = {}

scrub_blobs ==
    /\ pc = "shared"
    /\ todo = {}
    /\ unlink(OwnedBlobs)
    /\ tx' = [tx EXCEPT !.deleted = OwnedBlobs]
    /\ pc' = "redact"
    /\ UNCHANGED <<tables, origin, stage, todo, shared, target>>

\* The updates that follow evaluate the query again.
redact ==
    /\ pc = "redact"
    /\ tx' = [tx EXCEPT !.redacted = OwnedJobs]
    /\ pc' = "survey"
    /\ todo' = MyOrgs
    /\ UNCHANGED <<tables, origin, files, stage, shared, target, scope, faults>>

survey(o) ==
    /\ pc = "survey"
    /\ o \in todo
    /\ todo' = todo \ {o}
    /\ IF has_others(o) THEN UNCHANGED <<pc, target>>
                        ELSE pc' = "files" /\ target' = o
    /\ UNCHANGED <<tables, origin, files, stage, shared, tx, scope, faults>>

Rollback == /\ pc' = "failed"
            /\ tx' = NoTx
            /\ target' = NoOrg

delete_files ==
    /\ pc = "files"
    /\ unlink(BlobsOf(target))
    /\ pc' = "jobs"
    /\ UNCHANGED <<tables, origin, stage, todo, shared, target, tx>>

delete_jobs ==
    /\ pc = "jobs"
    /\ tx' = [tx EXCEPT !.jobs = @ \cup JobsOf(target)]
    /\ pc' = "blobs"
    /\ UNCHANGED <<tables, origin, files, stage, todo, shared, target, scope,
                   faults>>

\* Mutant: input_file with on_delete=DO_NOTHING.
NeverProtected(o) == FALSE

\* on_delete=PROTECT: a job that came in since delete_jobs holds its input.
Protected(o) == \E j \in JobsOf(o) : In(j) \in BlobsOf(o)

delete_blobs ==
    /\ pc = "blobs"
    /\ IF Protected(target)
       THEN Rollback
       ELSE /\ tx' = [tx EXCEPT !.blobs = @ \cup BlobsOf(target)]
            /\ pc' = "org"
            /\ UNCHANGED target
    /\ UNCHANGED <<tables, origin, files, stage, todo, shared, scope, faults>>

\* org.delete() cascades to whatever else refers to the organization by now.
delete_org ==
    /\ pc = "org"
    /\ IF Protected(target)
       THEN Rollback
       ELSE /\ tx' = [tx EXCEPT !.blobs = @ \cup BlobsOf(target),
                                !.orgs = @ \cup {target}]
            /\ pc' = "survey"
            /\ target' = NoOrg
    /\ UNCHANGED <<tables, origin, files, stage, todo, shared, scope, faults>>

\* user.delete(): cascades to memberships, and owner becomes NULL.
delete_user ==
    /\ pc = "survey"
    /\ todo = {}
    /\ pc' = "commit"
    /\ UNCHANGED <<tables, origin, files, stage, todo, shared, target, tx, scope,
                   faults>>

Remaining(o) == IF o \in tx.orgs THEN {} ELSE members[o] \ {user}

commit ==
    /\ pc = "commit"
    /\ orgs' = orgs \ tx.orgs
    /\ members' = [o \in Orgs |-> Remaining(o)]
    /\ jobs' = jobs \ tx.jobs
    /\ blobs' = blobs \ tx.blobs
    /\ deleted' = (deleted \cup tx.deleted) \ tx.blobs
    /\ redacted' = (redacted \cup tx.redacted) \ tx.jobs
    /\ tx' = NoTx
    /\ pc' = "done"
    /\ UNCHANGED <<origin, files, stage, todo, shared, target, scope, faults>>

\* A database error, or the command is killed.
Fails ==
    /\ pc \notin {"idle", "done", "failed"}
    /\ faults < MaxFaults
    /\ faults' = faults + 1
    /\ Rollback
    /\ UNCHANGED <<tables, origin, files, stage, todo, shared, scope>>

delete_user_account ==
    \/ begin
    \/ \E o \in todo : find_shared(o) \/ survey(o)
    \/ scrub_blobs \/ redact
    \/ delete_files \/ delete_jobs \/ delete_blobs \/ delete_org
    \/ delete_user \/ commit

Next ==
    \/ delete_user_account
    \/ Fails
    \/ \E p \in People, o \in Orgs : Join(p, o) \/ Leave(p, o)
    \/ \E j \in Jobs : Conversion(j)

Spec == Init /\ [][Next]_vars

-----------------------------------------------------------------------------
(* Properties.                                                             *)

\* Referential integrity, with organizations, their jobs and their blobs
\* disappearing under submissions and workers: a job has its input row and its
\* organization, a blob has its organization, and a deleted organization has
\* no members.
NothingDangles ==
    /\ \A j \in jobs : In(j) \in blobs /\ origin[j].org \in orgs
    /\ \A b \in blobs : origin[b[1]].org \in orgs
    /\ \A o \in Orgs \ orgs : members[o] = {}

\* delete_user_account erases everything when nobody else acts and no
\* file.delete raises meanwhile, whatever an earlier attempt left half done: of
\* the conversions the user made in the organizations the user belongs to no
\* bytes remain, and the job rows that remain are redacted and in an
\* organization others belong to.
QuietErasure ==
    pc = "done" =>
        \A j \in Jobs : origin[j].owner = user /\ origin[j].org \in scope =>
            /\ In(j) \notin files
            /\ Out(j) \notin files
            /\ j \in jobs => j \in redacted /\ has_others(origin[j].org)

\* A submission that is refused, because its owner was deleted under it or
\* otherwise, leaves neither bytes nor rows in an organization that survives.
RefusedLeavesNothing ==
    \A j \in Jobs \ jobs : stage[j] = "ended" /\ origin[j].org \in orgs =>
        In(j) \notin files \cup blobs

-----------------------------------------------------------------------------
(* The inductive invariant behind NothingDangles.                          *)

\* What the transaction leaves does not refer to what it deletes, and what it
\* marks belongs to existing jobs.
TxClosed ==
    /\ \A j \in jobs \ tx.jobs :
          {In(j), Out(j)} \cap tx.blobs = {} /\ origin[j].org \notin tx.orgs
    /\ \A b \in blobs \ tx.blobs : origin[b[1]].org \notin tx.orgs
    /\ \A b \in tx.deleted : b \in blobs /\ b[1] \in jobs
    /\ \A j \in Jobs : Out(j) \in tx.deleted => stage[j] = "converted"
    /\ tx.redacted \subseteq jobs

\* A submission under way has no job and no output yet, a registered output
\* has its row, and an organization is being deleted.
InProgress ==
    /\ \A j \in Jobs : stage[j] \in {"new", "stored", "registered"} =>
          j \notin jobs /\ Out(j) \notin blobs \cup tx.blobs
    /\ \A j \in jobs : stage[j] \in {"outRegistered", "converted"} => Out(j) \in blobs
    /\ pc \in {"files", "jobs", "blobs", "org"} => target \in Orgs

DeletionInv == TypeOK /\ NothingDangles /\ TxClosed /\ InProgress

=============================================================================
