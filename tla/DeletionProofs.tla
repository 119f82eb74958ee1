--------------------------- MODULE DeletionProofs ---------------------------
(***************************************************************************)
(* Proofs about Deletion, for any organizations, people, conversions and   *)
(* faults, in three layers.  NothingDangles: the invariant adds that the   *)
(* open transaction is closed, what it leaves does not refer to what it    *)
(* deletes, so that the commit is safe.  RefusedLeavesNothing: a           *)
(* conversion past its submission keeps its row unless its organization    *)
(* goes.  QuietErasure: how far an undisturbed command has come, step by   *)
(* step.                                                                   *)
(***************************************************************************)
EXTENDS Deletion, TLAPS

\* In and Out name the blobs of a job.
LEMMA BlobNames ==
  ASSUME NEW j \in Jobs
  PROVE  /\ In(j) \in Blobs /\ Out(j) \in Blobs
         /\ In(j)[1] = j /\ Out(j)[1] = j
         /\ In(j) # Out(j)
         /\ \A k \in Jobs : In(k) = In(j) => k = j
         /\ \A k \in Jobs : In(k) # Out(j) /\ (Out(k) = Out(j) => k = j)
  BY DEF In, Out, Blobs

\* An organization that passes the PROTECT test has no jobs left.
LEMMA UnprotectedIsEmpty ==
  ASSUME DeletionInv, NEW o \in Orgs, ~Protected(o)
  PROVE  JobsOf(o) = {}
<1>1. ASSUME NEW j \in JobsOf(o) PROVE FALSE
  <2>1. j \in Jobs /\ j \in jobs \ tx.jobs /\ origin[j].org = o
    BY <1>1 DEF JobsOf, DeletionInv, TypeOK
  <2>2. In(j) \in blobs \ tx.blobs
    BY <2>1 DEF DeletionInv, NothingDangles, TxClosed
  <2>3. In(j) \in BlobsOf(o)
    BY <2>1, <2>2, BlobNames DEF BlobsOf
  <2> QED
    BY <1>1, <2>3 DEF Protected
<1> QED
  BY <1>1

\* What org.delete() adds to the transaction.
LEMMA OrgTransaction ==
  ASSUME TypeOK, delete_org, ~Protected(target)
  PROVE  tx' = [jobs |-> tx.jobs, blobs |-> tx.blobs \cup BlobsOf(target),
                orgs |-> tx.orgs \cup {target}, deleted |-> tx.deleted,
                redacted |-> tx.redacted]
<1>1. tx' = [tx EXCEPT !.blobs = @ \cup BlobsOf(target), !.orgs = @ \cup {target}]
  BY DEF delete_org
<1> QED
  BY <1>1 DEF TypeOK

\* What the other actors do preserves the invariant.
LEMMA OthersStep ==
  ASSUME DeletionInv,
         \/ \E p \in People, o \in Orgs : Join(p, o) \/ Leave(p, o)
         \/ \E j \in Jobs : Conversion(j)
  PROVE  DeletionInv'
<1> USE DEF DeletionInv, TypeOK, NothingDangles, TxClosed, InProgress, tables,
     Other, Advance, Stages, Free
<1>1. ASSUME NEW p \in People, NEW o \in Orgs, Join(p, o) \/ Leave(p, o)
      PROVE  DeletionInv'
  BY <1>1 DEF Join, Leave
<1>2. ASSUME NEW j \in Jobs, store_input(j) PROVE DeletionInv'
  BY <1>2, BlobNames DEF store_input
<1>3. ASSUME NEW j \in Jobs, insert_blob(j, In(j), "stored", "registered")
      PROVE  DeletionInv'
  <2>1. In(j) \in Blobs /\ In(j)[1] = j
    BY BlobNames
  <2>2. j \notin jobs
    BY <1>3 DEF insert_blob
  <2>3. stage[j] = "stored" /\ stage' \in [Jobs -> Stages]
        /\ \A k \in Jobs \ {j} : stage'[k] = stage[k]
    BY <1>3 DEF insert_blob
  <2>4. \/ blobs' = blobs
        \/ blobs' = blobs \cup {In(j)} /\ Free(origin[j].org)
    BY <1>3 DEF insert_blob
  <2>5. TypeOK'
    BY <1>3, <2>1, <2>3, <2>4 DEF insert_blob
  <2>6. NothingDangles'
    BY <1>3, <2>1, <2>4 DEF insert_blob
  <2>7. TxClosed'
    BY <1>3, <2>1, <2>4 DEF insert_blob
  <2>8. InProgress'
    BY <1>3, <2>2, <2>3, <2>4, BlobNames DEF insert_blob
  <2> QED
    BY <2>5, <2>6, <2>7, <2>8
<1>4. ASSUME NEW j \in Jobs, insert_blob(j, Out(j), "outStored", "outRegistered")
      PROVE  DeletionInv'
  <2>1. Out(j) \in Blobs /\ Out(j)[1] = j
    BY BlobNames
  <2>2. /\ stage' \in [Jobs -> Stages]
        /\ \A k \in Jobs \ {j} : stage'[k] = stage[k]
        /\ \/ stage'[j] = "ended" /\ blobs' = blobs
           \/ /\ stage'[j] = "outRegistered" /\ blobs' = blobs \cup {Out(j)}
              /\ Free(origin[j].org)
    BY <1>4 DEF insert_blob
  <2>3. TypeOK'
    BY <1>4, <2>1, <2>2 DEF insert_blob
  <2>4. NothingDangles'
    BY <1>4, <2>1, <2>2 DEF insert_blob
  <2>5. TxClosed'
    BY <1>4, <2>1, <2>2 DEF insert_blob
  <2>6. InProgress'
    BY <1>4, <2>2, BlobNames DEF insert_blob
  <2> QED
    BY <2>3, <2>4, <2>5, <2>6
<1>5. ASSUME NEW j \in Jobs, insert_job(j) PROVE DeletionInv'
  <2>1. /\ stage[j] = "registered"
        /\ stage' \in [Jobs -> Stages]
        /\ \A k \in Jobs \ {j} : stage'[k] = stage[k]
        /\ stage'[j] \in {"queued", "ended"}
    BY <1>5 DEF insert_job
  <2>2. j \notin jobs
    BY <2>1
  <2>3. \A k \in jobs : In(k) # In(j) /\ Out(k) # In(j)
    BY <2>2, BlobNames
  <2>4. In(j)[1] = j
    BY BlobNames
  <2>5. CASE jobs' = jobs \cup {j}
    <3>1. /\ Free(origin[j].org) /\ In(j) \in blobs \ tx.blobs
          /\ blobs' = blobs /\ deleted' = deleted /\ files' = files
          /\ stage'[j] = "queued"
      BY <1>5, <2>2, <2>5 DEF insert_job
    <3>2. TypeOK'
      BY <1>5, <2>1, <2>5, <3>1 DEF insert_job
    <3>3. NothingDangles'
      BY <1>5, <2>5, <3>1 DEF insert_job
    <3>4. TxClosed'
      BY <1>5, <2>5, <3>1 DEF insert_job
    <3>5. InProgress'
      BY <1>5, <2>1, <2>5, <3>1 DEF insert_job
    <3> QED
      BY <3>2, <3>3, <3>4, <3>5
  <2>6. CASE jobs' = jobs
    <3>1. /\ blobs' = blobs \ {In(j)} /\ deleted' = deleted \ {In(j)}
          /\ files' = files \ {In(j)}
      BY <1>5, <2>2, <2>6 DEF insert_job, discard_blob
    <3>2. In(j) \notin tx.deleted
      BY <2>2, <2>4
    <3>3. TypeOK'
      BY <1>5, <2>1, <2>6, <3>1 DEF insert_job
    <3>4. NothingDangles'
      BY <1>5, <2>3, <2>6, <3>1 DEF insert_job
    <3>5. TxClosed'
      BY <1>5, <2>6, <3>1, <3>2 DEF insert_job
    <3>6. InProgress'
      BY <1>5, <2>1, <2>2, <2>3, <2>6, <3>1 DEF insert_job
    <3> QED
      BY <3>3, <3>4, <3>5, <3>6
  <2> QED
    BY <1>5, <2>5, <2>6 DEF insert_job
<1>6. ASSUME NEW j \in Jobs, claim_job(j) \/ store_output(j) PROVE DeletionInv'
  BY <1>6, BlobNames DEF claim_job, store_output, Ends
<1>7. ASSUME NEW j \in Jobs, promote_output(j) PROVE DeletionInv'
  <2>1. CASE UNCHANGED <<blobs, deleted, files>> /\ stage'[j] = "converted"
    <3>1. /\ stage[j] = "outRegistered" /\ stage' \in [Jobs -> Stages]
          /\ \A k \in Jobs \ {j} : stage'[k] = stage[k]
      BY <1>7 DEF promote_output, Ends
    <3>2. UNCHANGED <<tables, files, origin, pc, todo, shared, target, tx, faults>>
          /\ scope' = {}
      BY <1>7, <2>1 DEF promote_output, Ends
    <3> QED
      BY <2>1, <3>1, <3>2
  <2>2. CASE discard_blob(Out(j)) /\ stage'[j] = "ended"
    <3>1. /\ stage[j] = "outRegistered" /\ stage' \in [Jobs -> Stages]
          /\ \A k \in Jobs \ {j} : stage'[k] = stage[k]
      BY <1>7 DEF promote_output, Ends
    <3>2. /\ Out(j) \notin tx.deleted
          /\ \A k \in Jobs : In(k) # Out(j) /\ (k # j => Out(k) # Out(j))
      BY <3>1, BlobNames
    <3>3. TypeOK'
      BY <1>7, <2>2, <3>1 DEF promote_output, discard_blob, Ends
    <3>4. NothingDangles'
      BY <1>7, <2>2, <3>2 DEF promote_output, discard_blob, Ends
    <3>5. TxClosed'
      BY <1>7, <2>2, <3>1, <3>2 DEF promote_output, discard_blob, Ends
    <3>6. InProgress'
      BY <1>7, <2>2, <3>1, <3>2 DEF promote_output, discard_blob, Ends
    <3> QED
      BY <3>3, <3>4, <3>5, <3>6
  <2> QED
    BY <1>7, <2>1, <2>2 DEF promote_output, Ends
<1>8. ASSUME NEW j \in Jobs, purge_terminal_input_files(j) PROVE DeletionInv'
  BY <1>8, BlobNames DEF purge_terminal_input_files
<1>9. ASSUME NEW j \in Jobs, Conversion(j) PROVE DeletionInv'
  BY <1>2, <1>3, <1>4, <1>5, <1>6, <1>7, <1>8, <1>9 DEF Conversion
<1> QED
  BY <1>1, <1>9

\* The steps of delete_user_account preserve the invariant.
LEMMA CommandStep ==
  ASSUME DeletionInv, delete_user_account \/ Fails
  PROVE  DeletionInv'
<1> USE DeletionConstants DEF DeletionInv, TypeOK, NothingDangles, TxClosed,
     InProgress, tables, Steps
<1>1. CASE begin
  BY <1>1 DEF begin, MyOrgs
<1>2. ASSUME NEW o \in todo, find_shared(o) \/ survey(o) PROVE DeletionInv'
  BY <1>2 DEF find_shared, survey
<1>3. CASE scrub_blobs
  <2>1. \A b \in OwnedBlobs : b \in blobs /\ b[1] \in jobs
    BY BlobNames DEF OwnedBlobs, OwnedJobs, Linked
  <2>2. \A j \in Jobs : Out(j) \in OwnedBlobs => stage[j] = "converted"
    BY BlobNames DEF OwnedBlobs, OwnedJobs, Linked
  <2> QED
    BY <1>3, <2>1, <2>2 DEF scrub_blobs, unlink
<1>4. CASE redact
  BY <1>4 DEF redact, OwnedJobs, MyOrgs
<1>5. CASE delete_files
  BY <1>5 DEF delete_files, unlink
<1>6. CASE delete_jobs
  BY <1>6 DEF delete_jobs, JobsOf
<1>7. CASE Fails
  BY <1>7 DEF Fails, Rollback, NoTx
<1>8. CASE delete_blobs
  <2>1. CASE Protected(target)
    BY <1>8, <2>1 DEF delete_blobs, Rollback, NoTx
  <2>2. CASE ~Protected(target)
    <3>1. JobsOf(target) = {}
      BY <1>8, <2>2, UnprotectedIsEmpty DEF delete_blobs
    <3>2. ASSUME NEW j \in jobs \ tx.jobs PROVE {In(j), Out(j)} \cap BlobsOf(target) = {}
      BY <3>1, <3>2, BlobNames DEF JobsOf, BlobsOf
    <3> QED
      BY <1>8, <2>2, <3>2 DEF delete_blobs, BlobsOf
  <2> QED
    BY <2>1, <2>2
<1>9. CASE delete_org
  <2>1. CASE Protected(target)
    BY <1>9, <2>1 DEF delete_org, Rollback, NoTx
  <2>2. CASE ~Protected(target)
    <3>1. JobsOf(target) = {}
      BY <1>9, <2>2, UnprotectedIsEmpty DEF delete_org
    <3>2. ASSUME NEW j \in jobs \ tx.jobs
          PROVE  /\ {In(j), Out(j)} \cap BlobsOf(target) = {}
                 /\ origin[j].org # target
      BY <3>1, <3>2, BlobNames DEF JobsOf, BlobsOf
    <3>3. tx' = [jobs |-> tx.jobs, blobs |-> tx.blobs \cup BlobsOf(target),
                 orgs |-> tx.orgs \cup {target}, deleted |-> tx.deleted,
                 redacted |-> tx.redacted]
      BY <1>9, <2>2, OrgTransaction DEF DeletionInv
    <3>4. /\ tx'.jobs = tx.jobs /\ tx'.deleted = tx.deleted
          /\ tx'.redacted = tx.redacted
          /\ tx'.blobs = tx.blobs \cup BlobsOf(target)
          /\ tx'.orgs = tx.orgs \cup {target}
      BY <3>3
    <3>5. TypeOK'
      <4>1. BlobsOf(target) \subseteq Blobs /\ target \in Orgs
        BY <1>9 DEF delete_org, BlobsOf
      <4> QED
        BY <1>9, <2>2, <3>3, <4>1 DEF delete_org
    <3>6. TxClosed'
      BY <1>9, <3>2, <3>4 DEF delete_org, BlobsOf
    <3>7. InProgress'
      BY <1>9, <2>2, <3>4 DEF delete_org, BlobsOf
    <3>8. NothingDangles'
      BY <1>9 DEF delete_org
    <3> QED
      BY <3>5, <3>6, <3>7, <3>8
  <2> QED
    BY <2>1, <2>2
<1>10. CASE delete_user
  BY <1>10 DEF delete_user
<1>11. CASE commit
  <2>1. TypeOK'
    BY <1>11 DEF commit, Remaining, NoTx
  <2>2. \A j \in jobs' : In(j) \in blobs' /\ origin'[j].org \in orgs'
    BY <1>11 DEF commit
  <2>3. \A b \in blobs' : origin'[b[1]].org \in orgs'
    BY <1>11 DEF commit
  <2>4. \A o \in Orgs \ orgs' : members'[o] = {}
    BY <1>11 DEF commit, Remaining
  <2>5. TxClosed'
    BY <1>11 DEF commit, NoTx
  <2>6. InProgress'
    <3>1. ASSUME NEW j \in Jobs, stage'[j] \in {"new", "stored", "registered"}
          PROVE  j \notin jobs' /\ Out(j) \notin blobs' \cup tx'.blobs
      BY <1>11, <3>1 DEF commit, NoTx
    <3>2. ASSUME NEW j \in jobs', stage'[j] \in {"outRegistered", "converted"}
          PROVE  Out(j) \in blobs'
      BY <1>11, <3>2 DEF commit
    <3> QED
      BY <1>11, <3>1, <3>2 DEF commit
  <2> QED
    BY <1>11, <2>1, <2>2, <2>3, <2>4, <2>5, <2>6 DEF commit
<1> QED
  BY <1>1, <1>2, <1>3, <1>4, <1>5, <1>6, <1>7, <1>8, <1>9, <1>10, <1>11
     DEF delete_user_account

\* DeletionInv is inductive.
LEMMA DeletionInvStep ==
  ASSUME DeletionInv, [Next]_vars
  PROVE  DeletionInv'
<1>1. CASE UNCHANGED vars
  BY <1>1 DEF vars, tables, command, DeletionInv, TypeOK, NothingDangles,
     TxClosed, InProgress
<1> QED
  BY <1>1, OthersStep, CommandStep DEF Next

LEMMA DeletionInvInit ==
  ASSUME Init
  PROVE  DeletionInv
  BY DeletionConstants DEF Init, DeletionInv, TypeOK, NothingDangles, TxClosed,
     InProgress, NoTx, Steps, Stages

\* Deleting organizations under submissions and workers leaves no reference to
\* a deleted row.
THEOREM ReferentialIntegrity == Spec => []NothingDangles
<1>1. DeletionInv => NothingDangles
  BY DEF DeletionInv
<1> QED
  BY <1>1, DeletionInvInit, DeletionInvStep, PTL DEF Spec

-----------------------------------------------------------------------------
(* Refused submissions.                                                    *)

\* A conversion past its submission has its row, unless its organization is
\* gone; and the transaction deletes jobs only together with their organization.
RowOrGone ==
    /\ \A j \in Jobs :
          stage[j] \notin {"new", "stored", "registered", "ended"} =>
              j \in jobs \/ origin[j].org \notin orgs
    /\ \A j \in tx.jobs : \/ origin[j].org \in tx.orgs
                          \/ pc \in {"blobs", "org"} /\ origin[j].org = target

RefusalInv == DeletionInv /\ RowOrGone /\ RefusedLeavesNothing

\* What the steps of one conversion leave alone.
LEMMA ConversionFrame ==
  ASSUME TypeOK, NEW j \in Jobs, Conversion(j)
  PROVE  /\ UNCHANGED <<orgs, members, redacted, origin, pc, todo, shared, target, tx, faults>>
         /\ scope' = {}
         /\ \A k \in Jobs \ {j} :
               /\ stage'[k] = stage[k]
               /\ k \in jobs' <=> k \in jobs
               /\ \A b \in {In(k), Out(k)} :
                     /\ b \in files' <=> b \in files
                     /\ b \in blobs' <=> b \in blobs
                     /\ b \in deleted' <=> b \in deleted
<1> USE DEF Conversion, store_input, insert_blob, insert_job, discard_blob, claim_job,
     store_output, promote_output, purge_terminal_input_files, Ends, Advance, Other
<1>1. /\ UNCHANGED <<orgs, members, redacted, origin, pc, todo, shared, target, tx, faults>>
      /\ scope' = {}
  BY DEF tables
<1>2. /\ stage' = stage \/ \E to \in Stages : stage' = [stage EXCEPT ![j] = to]
      /\ jobs' = jobs \/ jobs' = jobs \cup {j}
      /\ \E b \in {In(j), Out(j)} :
            /\ files' = files \/ files' = files \cup {b} \/ files' = files \ {b}
            /\ blobs' = blobs \/ blobs' = blobs \cup {b} \/ blobs' = blobs \ {b}
            /\ deleted' = deleted \/ deleted' = deleted \cup {b} \/ deleted' = deleted \ {b}
  BY DEF tables, Stages
<1>3. \A k \in Jobs \ {j} : {In(k), Out(k)} \cap {In(j), Out(j)} = {}
  BY BlobNames
<1> QED
  BY <1>1, <1>2, <1>3 DEF TypeOK

\* What the steps of a conversion do to its own row, bytes and blobs.
LEMMA ConversionOwn ==
  ASSUME TypeOK, NEW j \in Jobs, Conversion(j)
  PROVE  \/ \* store_input
            /\ stage[j] = "new" /\ stage'[j] = "stored"
            /\ UNCHANGED <<jobs, blobs, deleted>> /\ files' = files \cup {In(j)}
         \/ \* a blob's row cannot be inserted
            /\ stage[j] \in {"stored", "outStored"} /\ stage'[j] = "ended"
            /\ origin[j].org \notin orgs
            /\ UNCHANGED <<jobs, blobs, deleted, files>>
         \/ \* the input's row
            /\ stage[j] = "stored" /\ stage'[j] = "registered"
            /\ blobs' = blobs \cup {In(j)} /\ UNCHANGED <<jobs, deleted, files>>
         \/ \* the job's row
            /\ stage[j] = "registered" /\ stage'[j] = "queued"
            /\ jobs' = jobs \cup {j} /\ UNCHANGED <<blobs, deleted, files>>
         \/ \* the submission is refused
            /\ stage[j] = "registered" /\ stage'[j] = "ended"
            /\ jobs' = jobs /\ discard_blob(In(j))
         \/ \* the claim, or an attempt that ends before it stored anything
            /\ stage[j] \in {"queued", "running"} /\ stage'[j] \in {"running", "ended"}
            /\ UNCHANGED <<jobs, blobs, deleted, files>>
         \/ \* the output's bytes
            /\ stage[j] = "running" /\ stage'[j] = "outStored"
            /\ UNCHANGED <<jobs, blobs, deleted>> /\ files' = files \cup {Out(j)}
         \/ \* the output's row
            /\ stage[j] = "outStored" /\ stage'[j] = "outRegistered"
            /\ blobs' = blobs \cup {Out(j)} /\ UNCHANGED <<jobs, deleted, files>>
         \/ \* promotion
            /\ stage[j] = "outRegistered" /\ stage'[j] = "converted"
            /\ UNCHANGED <<jobs, blobs, deleted, files>>
         \/ \* an attempt that is fenced or cancelled
            /\ stage[j] = "outRegistered" /\ stage'[j] = "ended"
            /\ jobs' = jobs /\ discard_blob(Out(j))
         \/ \* purge_terminal_input_files
            /\ stage' = stage /\ stage[j] \in {"converted", "ended"}
            /\ j \in jobs /\ UNCHANGED <<jobs, blobs>>
            /\ files' = files \ {In(j)} /\ deleted' = deleted \cup {In(j)}
<1> USE DEF Advance, TypeOK, tables
<1>1. CASE store_input(j)
  BY <1>1 DEF store_input
<1>2. CASE insert_blob(j, In(j), "stored", "registered")
  BY <1>2 DEF insert_blob
<1>3. CASE insert_job(j)
  BY <1>3 DEF insert_job
<1>4. CASE claim_job(j)
  BY <1>4 DEF claim_job
<1>5. CASE store_output(j)
  BY <1>5 DEF store_output, Ends
<1>6. CASE insert_blob(j, Out(j), "outStored", "outRegistered")
  BY <1>6 DEF insert_blob
<1>7. CASE promote_output(j)
  BY <1>7 DEF promote_output, Ends
<1>8. CASE purge_terminal_input_files(j)
  BY <1>8 DEF purge_terminal_input_files, FreeJob
<1> QED
  BY <1>1, <1>2, <1>3, <1>4, <1>5, <1>6, <1>7, <1>8 DEF Conversion

\* Memberships do not matter to refusals.
LEMMA RefusalMembers ==
  ASSUME RefusalInv, NEW p \in People, NEW o \in Orgs, Join(p, o) \/ Leave(p, o)
  PROVE  RowOrGone' /\ RefusedLeavesNothing'
  BY DEF RefusalInv, RowOrGone, RefusedLeavesNothing, Join, Leave, Other

\* A conversion ends refused only after it deleted its input or lost its
\* organization.
LEMMA RefusalConversion ==
  ASSUME RefusalInv, NEW j \in Jobs, Conversion(j)
  PROVE  RowOrGone' /\ RefusedLeavesNothing'
<1>1. TypeOK
  BY DEF RefusalInv, DeletionInv
<1>2. UNCHANGED <<orgs, origin, pc, target, tx>>
  BY <1>1, ConversionFrame
<1>3. ASSUME NEW k \in Jobs \ {j}
      PROVE  /\ stage'[k] = stage[k] /\ (k \in jobs' <=> k \in jobs)
             /\ In(k) \in files' <=> In(k) \in files
             /\ In(k) \in blobs' <=> In(k) \in blobs
  BY <1>1, <1>3, ConversionFrame
<1>4. RowOrGone'
  <2>1. ASSUME stage'[j] \notin {"new", "stored", "registered", "ended"}
        PROVE  j \in jobs' \/ origin[j].org \notin orgs
    BY <1>1, <2>1, ConversionOwn DEF RefusalInv, RowOrGone
  <2> QED
    BY <1>2, <1>3, <2>1 DEF RefusalInv, RowOrGone
<1>5. RefusedLeavesNothing'
  <2>1. ASSUME j \notin jobs', stage'[j] = "ended", origin[j].org \in orgs
        PROVE  In(j) \notin files' \cup blobs'
    BY <1>1, <2>1, ConversionOwn
       DEF RefusalInv, RowOrGone, RefusedLeavesNothing, discard_blob
  <2> QED
    BY <1>2, <1>3, <2>1 DEF RefusalInv, RefusedLeavesNothing
<1> QED
  BY <1>4, <1>5

\* The command deletes jobs only with their organization.
LEMMA RefusalCommand ==
  ASSUME RefusalInv, delete_user_account \/ Fails
  PROVE  RowOrGone' /\ RefusedLeavesNothing'
<1> USE DEF RefusalInv, DeletionInv, TypeOK, RowOrGone, RefusedLeavesNothing, tables
<1>1. CASE begin
  BY <1>1 DEF begin
<1>2. ASSUME NEW o \in todo, find_shared(o) \/ survey(o)
      PROVE  RowOrGone' /\ RefusedLeavesNothing'
  BY <1>2 DEF find_shared, survey
<1>3. CASE scrub_blobs \/ redact
  BY <1>3 DEF scrub_blobs, redact, unlink
<1>4. CASE delete_files
  BY <1>4 DEF delete_files, unlink
<1>5. CASE delete_jobs
  BY <1>5 DEF delete_jobs, JobsOf
<1>6. CASE delete_blobs
  BY <1>6 DEF delete_blobs, Rollback, NoTx
<1>7. CASE delete_org
  <2>1. CASE Protected(target)
    BY <1>7, <2>1 DEF delete_org, Rollback, NoTx
  <2>2. CASE ~Protected(target)
    <3>1. tx'.jobs = tx.jobs /\ tx'.orgs = tx.orgs \cup {target}
      BY <1>7, <2>2, OrgTransaction
    <3> QED
      BY <1>7, <3>1 DEF delete_org
  <2> QED
    BY <2>1, <2>2
<1>8. CASE delete_user
  BY <1>8 DEF delete_user
<1>9. CASE commit
  BY <1>9 DEF commit, NoTx
<1>10. CASE Fails
  BY <1>10 DEF Fails, Rollback, NoTx
<1> QED
  BY <1>1, <1>2, <1>3, <1>4, <1>5, <1>6, <1>7, <1>8, <1>9, <1>10
     DEF delete_user_account

\* RefusalInv is inductive.
LEMMA RefusalStep ==
  ASSUME RefusalInv, [Next]_vars
  PROVE  RefusalInv'
<1>1. DeletionInv'
  BY DeletionInvStep DEF RefusalInv
<1>2. CASE UNCHANGED vars
  BY <1>1, <1>2 DEF vars, tables, command, RefusalInv, RowOrGone, RefusedLeavesNothing
<1> QED
  BY <1>1, <1>2, RefusalMembers, RefusalConversion, RefusalCommand
     DEF Next, RefusalInv

LEMMA RefusalInit ==
  ASSUME Init
  PROVE  RefusalInv
  BY DeletionInvInit DEF Init, RefusalInv, RowOrGone, RefusedLeavesNothing, NoTx

\* A submission that is refused, even because delete_user_account deleted its
\* owner or its input under it, leaves nothing in an organization that stands.
THEOREM CleanRefusals == Spec => []RefusedLeavesNothing
<1>1. RefusalInv => RefusedLeavesNothing
  BY DEF RefusalInv
<1> QED
  BY <1>1, RefusalInit, RefusalStep, PTL DEF Spec

-----------------------------------------------------------------------------
(* Quiet runs of the command.                                              *)

Deleting  == {"files", "jobs", "blobs", "org"}
Surveying == Deleting \cup {"survey", "commit"}

\* Bytes without a row: none before they are stored, none of an output whose
\* attempt ended, and none behind deleted_at until the command commits.
BytesHaveRows ==
    /\ \A j \in Jobs :
          /\ stage[j] = "new" => In(j) \notin files
          /\ stage[j] \in {"new", "stored", "registered", "queued", "running"} =>
                Out(j) \notin files
          /\ stage[j] = "ended" /\ origin[j].org \in orgs => Out(j) \notin files
    /\ pc # "done" =>
          \A b \in deleted : /\ b \notin files
                             /\ \E j \in Jobs : b = In(j) /\ stage[j] \in {"converted", "ended"}

\* What the transaction has written by each step of the command.
TxProgress ==
    /\ pc \in {"idle", "shared", "failed", "done"} => tx = NoTx
    /\ pc = "redact" => tx.blobs = {} /\ tx.orgs = {}
    /\ \A b \in tx.blobs : \/ origin[b[1]].org \in tx.orgs
                           \/ pc = "org" /\ origin[b[1]].org = target
    /\ pc \in Surveying => todo \cap tx.orgs = {}
    /\ pc \in Deleting => target \notin tx.orgs \cup todo
    /\ pc = "commit" => todo = {}

\* No bytes are left of what the user converted in o.
Erased(o) ==
    \A j \in Jobs : origin[j].owner = user /\ origin[j].org = o =>
        In(j) \notin files /\ Out(j) \notin files

\* How far a command has come that nobody disturbed.
QuietProgress ==
    scope # {} /\ pc \in Surveying \cup {"shared", "redact"} =>
        /\ \A j \in Jobs : stage[j] \in Settled
        /\ scope = {o \in orgs : user \in members[o]}
        /\ \A o \in scope : \/ o \in shared /\ has_others(o)
                            \/ o \notin shared /\ ~has_others(o)
                            \/ pc = "shared" /\ o \in todo /\ o \notin shared
        /\ pc # "shared" => \A o \in scope \cap shared : Erased(o)
        /\ pc \in Surveying =>
              /\ \A j \in jobs :
                    origin[j].owner = user /\ origin[j].org \in scope \cap shared =>
                        j \in tx.redacted
              /\ \A o \in scope : \/ o \in todo \cup shared \cup tx.orgs
                                  \/ pc \in Deleting /\ o = target
              /\ \A o \in scope \cap tx.orgs : Erased(o)
              /\ pc \in Deleting \ {"files"} /\ target \in scope => Erased(target)

ErasureInv == RefusalInv /\ BytesHaveRows /\ TxProgress /\ QuietProgress /\ QuietErasure

\* Memberships change no bytes and disturb whatever the command was doing.
LEMMA ErasureMembers ==
  ASSUME ErasureInv, NEW p \in People, NEW o \in Orgs, Join(p, o) \/ Leave(p, o)
  PROVE  BytesHaveRows' /\ TxProgress' /\ QuietProgress' /\ QuietErasure'
<1>1. /\ UNCHANGED <<orgs, jobs, blobs, deleted, redacted, files, stage, origin, pc,
                     todo, shared, target, tx>>
      /\ scope' = {}
  BY DEF Join, Leave, Other
<1> QED
  BY <1>1 DEF ErasureInv, BytesHaveRows, TxProgress, QuietProgress, QuietErasure

\* So does a conversion, which keeps its bytes and its rows together.
LEMMA ErasureConversion ==
  ASSUME ErasureInv, NEW j \in Jobs, Conversion(j)
  PROVE  BytesHaveRows' /\ TxProgress' /\ QuietProgress' /\ QuietErasure'
<1>1. TypeOK
  BY DEF ErasureInv, RefusalInv, DeletionInv
<1>2. UNCHANGED <<orgs, origin, pc, todo, target, tx>> /\ scope' = {}
  BY <1>1, ConversionFrame
<1>3. TxProgress' /\ QuietProgress' /\ QuietErasure'
  BY <1>2 DEF ErasureInv, TxProgress, QuietProgress, QuietErasure
<1>4. ASSUME NEW k \in Jobs \ {j}
      PROVE  /\ stage'[k] = stage[k]
             /\ In(k) \in files' <=> In(k) \in files
             /\ Out(k) \in files' <=> Out(k) \in files
             /\ In(k) \in deleted' <=> In(k) \in deleted
  BY <1>1, <1>4, ConversionFrame
<1>5. /\ stage'[j] = "new" => In(j) \notin files'
      /\ stage'[j] \in {"new", "stored", "registered", "queued", "running"} =>
            Out(j) \notin files'
      /\ stage'[j] = "ended" /\ origin[j].org \in orgs => Out(j) \notin files'
  <2>1. In(j) # Out(j)
    BY BlobNames
  <2>2. stage[j] = "ended" => UNCHANGED stage
    BY <1>1, ConversionOwn
  <2> QED
    BY <1>1, <2>1, <2>2, ConversionOwn DEF ErasureInv, BytesHaveRows, discard_blob
<1>6. ASSUME pc # "done", NEW b \in deleted'
      PROVE  b \notin files' /\ \E k \in Jobs : b = In(k) /\ stage'[k] \in {"converted", "ended"}
  <2>1. \/ deleted' = deleted
        \/ deleted' = deleted \ {In(j)} \/ deleted' = deleted \ {Out(j)}
        \/ /\ deleted' = deleted \cup {In(j)} /\ In(j) \notin files'
           /\ stage[j] \in {"converted", "ended"} /\ stage' = stage
    BY <1>1, ConversionOwn DEF discard_blob
  <2>2. CASE b \notin deleted
    BY <1>6, <2>1, <2>2
  <2>3. CASE b \in deleted
    <3>1. PICK k \in Jobs : b = In(k) /\ stage[k] \in {"converted", "ended"} /\ b \notin files
      BY <1>6, <2>3 DEF ErasureInv, BytesHaveRows
    <3>2. CASE k # j
      BY <1>4, <3>1, <3>2
    <3>3. CASE k = j
      <4>1. In(j) # Out(j)
        BY BlobNames
      <4> QED
        BY <1>1, <3>1, <3>3, <4>1, ConversionOwn
    <3> QED
      BY <3>2, <3>3
  <2> QED
    BY <2>2, <2>3
<1>7. BytesHaveRows'
  BY <1>2, <1>4, <1>5, <1>6 DEF ErasureInv, BytesHaveRows
<1> QED
  BY <1>3, <1>7

\* The bytes of a settled conversion have rows; hence a deletion that goes by
\* rows misses none.
LEMMA SettledBytes ==
  ASSUME ErasureInv, NEW j \in Jobs, stage[j] \in Settled, origin[j].org \in orgs
  PROVE  /\ In(j) \in files => j \in jobs /\ In(j) \in blobs
         /\ Out(j) \in files => /\ j \in jobs /\ Out(j) \in blobs
                                /\ stage[j] = "converted"
<1>1. CASE stage[j] = "new"
  BY <1>1 DEF ErasureInv, BytesHaveRows
<1>2. CASE stage[j] = "converted"
  BY <1>2 DEF ErasureInv, RefusalInv, RowOrGone, DeletionInv, NothingDangles, InProgress
<1>3. CASE stage[j] = "ended"
  BY <1>3 DEF ErasureInv, BytesHaveRows, RefusalInv, RefusedLeavesNothing, DeletionInv,
     NothingDangles
<1> QED
  BY <1>1, <1>2, <1>3 DEF Settled

\* unlink removes no more than it was given, and all of it unless it raises.
LEMMA Unlinked ==
  ASSUME NEW bs, unlink(bs)
  PROVE  /\ files' \subseteq files
         /\ scope' = {} \/ (files' = files \ bs /\ scope' = scope)
  BY DEF unlink

\* Fewer bytes break nothing.
LEMMA FewerBytes ==
  ASSUME BytesHaveRows, files' \subseteq files, pc # "done", pc' # "done",
         UNCHANGED <<stage, origin, orgs, deleted>>
  PROVE  BytesHaveRows'
  BY DEF BytesHaveRows

\* scrub_blobs erases what the user converted in the shared organizations.
LEMMA ErasureScrub ==
  ASSUME ErasureInv, scrub_blobs
  PROVE  BytesHaveRows' /\ TxProgress' /\ QuietProgress' /\ QuietErasure'
<1>1. /\ pc = "shared" /\ pc' = "redact" /\ todo = {}
      /\ UNCHANGED <<orgs, members, jobs, blobs, deleted, redacted, origin, stage,
                     todo, shared, target>>
      /\ unlink(OwnedBlobs)
  BY DEF scrub_blobs, tables
<1>2. BytesHaveRows'
  BY <1>1, Unlinked, FewerBytes DEF ErasureInv
<1>3. TxProgress'
  BY <1>1 DEF scrub_blobs, ErasureInv, TxProgress, NoTx, Surveying, Deleting
<1>4. ASSUME scope' # {}, NEW o \in scope \cap shared PROVE Erased(o)'
  <2>1. /\ files' = files \ OwnedBlobs /\ scope' = scope
        /\ \A j \in Jobs : stage[j] \in Settled
        /\ o \in orgs
    BY <1>1, <1>4, Unlinked DEF ErasureInv, QuietProgress
  <2>2. ASSUME NEW j \in Jobs, origin[j].owner = user, origin[j].org = o
        PROVE  In(j) \notin files' /\ Out(j) \notin files'
    <3>1. \A b \in files : b \notin deleted
      BY <1>1 DEF ErasureInv, BytesHaveRows
    <3>2. j \in jobs => j \in OwnedJobs
      BY <1>4, <2>2 DEF OwnedJobs
    <3>3. /\ In(j) \in files => j \in jobs
          /\ Out(j) \in files => j \in jobs /\ stage[j] = "converted"
      BY <2>1, <2>2, SettledBytes
    <3>4. In(j) \in Linked(j) /\ (stage[j] = "converted" => Out(j) \in Linked(j))
      BY DEF Linked
    <3>5. \A b \in files : j \in jobs /\ b \in Linked(j) => b \in OwnedBlobs
      BY <3>1, <3>2 DEF OwnedBlobs
    <3>6. /\ In(j) \in files => In(j) \in OwnedBlobs
          /\ Out(j) \in files => Out(j) \in OwnedBlobs
      BY <3>3, <3>4, <3>5
    <3> QED
      BY <2>1, <3>6
  <2> QED
    BY <1>1, <2>2 DEF Erased
<1>5. QuietProgress'
  BY <1>1, <1>4, Unlinked
     DEF ErasureInv, QuietProgress, Surveying, Deleting, has_others
<1> QED
  BY <1>1, <1>2, <1>3, <1>5 DEF QuietErasure

\* delete_files erases everything converted in the organization.
LEMMA ErasureFiles ==
  ASSUME ErasureInv, delete_files
  PROVE  BytesHaveRows' /\ TxProgress' /\ QuietProgress' /\ QuietErasure'
<1>1. /\ pc = "files" /\ pc' = "jobs"
      /\ UNCHANGED <<orgs, members, jobs, blobs, deleted, redacted, origin, stage,
                     todo, shared, target, tx>>
      /\ unlink(BlobsOf(target))
  BY DEF delete_files, tables
<1>2. BytesHaveRows'
  BY <1>1, Unlinked, FewerBytes DEF ErasureInv
<1>3. TxProgress'
  BY <1>1 DEF ErasureInv, TxProgress, Surveying, Deleting
<1>4. ASSUME scope' # {}, target \in scope PROVE Erased(target)'
  <2>1. /\ files' = files \ BlobsOf(target) /\ scope' = scope
        /\ \A j \in Jobs : stage[j] \in Settled
        /\ target \in orgs
    BY <1>1, <1>4, Unlinked DEF ErasureInv, QuietProgress, Surveying, Deleting
  <2>2. ASSUME NEW j \in Jobs, origin[j].org = target
        PROVE  In(j) \notin files' /\ Out(j) \notin files'
    <3>1. In(j)[1] = j /\ Out(j)[1] = j
      BY BlobNames
    <3>2. target \notin tx.orgs
      BY <1>1 DEF ErasureInv, TxProgress, Deleting
    <3>3. In(j) \notin tx.blobs /\ Out(j) \notin tx.blobs
      BY <1>1, <2>2, <3>1, <3>2 DEF ErasureInv, TxProgress
    <3>4. /\ In(j) \in files => In(j) \in BlobsOf(target)
          /\ Out(j) \in files => Out(j) \in BlobsOf(target)
      BY <2>1, <2>2, <3>1, <3>3, SettledBytes DEF BlobsOf
    <3> QED
      BY <2>1, <3>4
  <2> QED
    BY <1>1, <2>2 DEF Erased
<1>5. \A o \in Orgs : Erased(o) => Erased(o)'
  BY <1>1, Unlinked DEF Erased
<1>6. scope \subseteq Orgs
  BY DEF ErasureInv, RefusalInv, DeletionInv, TypeOK
<1>7. QuietProgress'
  BY <1>1, <1>4, <1>5, <1>6, Unlinked
     DEF ErasureInv, QuietProgress, Surveying, Deleting, has_others
<1> QED
  BY <1>1, <1>2, <1>3, <1>7 DEF QuietErasure

\* The other steps of the command before its commit touch no bytes.
LEMMA ErasureOrders ==
  ASSUME ErasureInv,
         \/ begin \/ redact \/ delete_jobs \/ delete_blobs \/ delete_org \/ delete_user
         \/ Fails \/ \E o \in todo : find_shared(o) \/ survey(o)
  PROVE  BytesHaveRows' /\ TxProgress' /\ QuietProgress' /\ QuietErasure'
<1>1. /\ UNCHANGED <<orgs, members, jobs, blobs, deleted, redacted, origin, stage, files>>
      /\ pc # "done" /\ pc' # "done"
  BY DEF begin, redact, delete_jobs, delete_blobs, delete_org, delete_user, Fails,
     find_shared, survey, Rollback, tables
<1>2. BytesHaveRows' /\ QuietErasure'
  BY <1>1, FewerBytes DEF ErasureInv, QuietErasure
<1>3. /\ \A o \in Orgs : Erased(o)' <=> Erased(o)
      /\ \A o \in Orgs : has_others(o)' <=> has_others(o)
  BY <1>1 DEF Erased, has_others
<1>4. /\ scope \subseteq Orgs /\ orgs \subseteq Orgs /\ target \in Orgs \cup {NoOrg}
      /\ todo \subseteq Orgs /\ shared \subseteq Orgs
      /\ tx \in [jobs : SUBSET Jobs, blobs : SUBSET Blobs, orgs : SUBSET Orgs,
                 deleted : SUBSET Blobs, redacted : SUBSET Jobs]
  BY DEF ErasureInv, RefusalInv, DeletionInv, TypeOK
<1>5. TxProgress /\ QuietProgress
  BY DEF ErasureInv
<1> USE DEF TxProgress, QuietProgress, Surveying, Deleting
<1>6. ASSUME begin PROVE TxProgress' /\ QuietProgress'
  <2>1. /\ tx = NoTx /\ tx' = NoTx /\ pc' = "shared" /\ shared' = {}
        /\ todo' = MyOrgs /\ MyOrgs = {o \in orgs : user \in members[o]}
        /\ scope' # {} => scope' = MyOrgs /\ \A j \in Jobs : stage[j] \in Settled
    BY <1>5, <1>6 DEF begin, MyOrgs, NoTx
  <2>2. TxProgress'
    BY <2>1 DEF NoTx
  <2>3. QuietProgress'
    BY <1>1, <2>1
  <2> QED
    BY <2>2, <2>3
<1>7. ASSUME NEW o \in todo, find_shared(o) PROVE TxProgress' /\ QuietProgress'
  BY <1>1, <1>3, <1>4, <1>5, <1>7 DEF find_shared
<1>8. ASSUME redact PROVE TxProgress' /\ QuietProgress'
  <2>1. /\ pc = "redact" /\ pc' = "survey" /\ UNCHANGED <<shared, target, scope>>
        /\ tx'.blobs = tx.blobs /\ tx'.orgs = tx.orgs /\ tx'.redacted = OwnedJobs
        /\ todo' = MyOrgs
    BY <1>4, <1>8 DEF redact
  <2>2. tx.blobs = {} /\ tx.orgs = {} /\ MyOrgs = {o \in orgs : user \in members[o]}
    BY <1>5, <2>1 DEF MyOrgs
  <2>3. TxProgress'
    BY <2>1, <2>2
  <2>4. QuietProgress'
    BY <1>1, <1>3, <1>4, <1>5, <2>1, <2>2 DEF OwnedJobs
  <2> QED
    BY <2>3, <2>4
<1>9. ASSUME NEW o \in todo, survey(o) PROVE TxProgress' /\ QuietProgress'
  BY <1>1, <1>3, <1>4, <1>5, <1>9 DEF survey
<1>10. ASSUME delete_jobs PROVE TxProgress' /\ QuietProgress'
  <2>1. /\ pc = "jobs" /\ pc' = "blobs" /\ UNCHANGED <<todo, shared, target, scope>>
        /\ tx'.blobs = tx.blobs /\ tx'.orgs = tx.orgs /\ tx'.redacted = tx.redacted
    BY <1>4, <1>10 DEF delete_jobs
  <2>2. TxProgress'
    BY <1>1, <1>5, <2>1
  <2>3. QuietProgress'
    BY <1>1, <1>3, <1>4, <1>5, <2>1
  <2> QED
    BY <2>2, <2>3
<1>11. ASSUME Rollback PROVE TxProgress' /\ QuietProgress'
  BY <1>11 DEF Rollback, NoTx
<1>12. ASSUME delete_blobs, ~Protected(target) PROVE TxProgress' /\ QuietProgress'
  <2>1. /\ pc = "blobs" /\ pc' = "org" /\ UNCHANGED <<todo, shared, target, scope>>
        /\ tx'.blobs = tx.blobs \cup BlobsOf(target)
        /\ tx'.orgs = tx.orgs /\ tx'.redacted = tx.redacted
    BY <1>4, <1>12 DEF delete_blobs
  <2>2. TxProgress'
    BY <1>1, <1>5, <2>1 DEF BlobsOf
  <2>3. QuietProgress'
    BY <1>1, <1>3, <1>4, <1>5, <2>1
  <2> QED
    BY <2>2, <2>3
<1>13. ASSUME delete_org, ~Protected(target) PROVE TxProgress' /\ QuietProgress'
  <2>1. /\ tx'.blobs = tx.blobs \cup BlobsOf(target)
        /\ tx'.orgs = tx.orgs \cup {target} /\ tx'.redacted = tx.redacted
    BY <1>4, <1>13 DEF delete_org
  <2>2. /\ pc = "org" /\ pc' = "survey" /\ UNCHANGED <<todo, shared, scope>>
    BY <1>13 DEF delete_org
  <2>3. TxProgress'
    BY <1>1, <1>5, <2>1, <2>2 DEF BlobsOf
  <2>4. QuietProgress'
    BY <1>1, <1>3, <1>4, <1>5, <2>1, <2>2
  <2> QED
    BY <2>3, <2>4
<1>14. ASSUME delete_user PROVE TxProgress' /\ QuietProgress'
  BY <1>1, <1>3, <1>4, <1>5, <1>14 DEF delete_user
<1>15. Fails => Rollback
  BY DEF Fails
<1>16. (delete_blobs \/ delete_org) /\ Protected(target) => Rollback
  BY DEF delete_blobs, delete_org
<1> QED
  BY <1>2, <1>6, <1>7, <1>8, <1>9, <1>10, <1>11, <1>12, <1>13, <1>14, <1>15, <1>16

\* The commit: every organization of the user was either scrubbed and redacted
\* or deleted.
LEMMA ErasureCommit ==
  ASSUME ErasureInv, commit
  PROVE  BytesHaveRows' /\ TxProgress' /\ QuietProgress' /\ QuietErasure'
<1>1. /\ pc = "commit" /\ pc' = "done" /\ tx' = NoTx
      /\ UNCHANGED <<files, stage, origin, scope>>
      /\ jobs' = jobs \ tx.jobs /\ orgs' = orgs \ tx.orgs
      /\ redacted' = (redacted \cup tx.redacted) \ tx.jobs
      /\ members' = [o \in Orgs |-> Remaining(o)]
  BY DEF commit
<1>2. BytesHaveRows'
  BY <1>1 DEF ErasureInv, BytesHaveRows
<1>3. TxProgress' /\ QuietProgress'
  BY <1>1 DEF TxProgress, QuietProgress, NoTx, Surveying, Deleting
<1>4. ASSUME NEW j \in Jobs, origin[j].owner = user, origin[j].org \in scope
      PROVE  /\ In(j) \notin files
             /\ Out(j) \notin files
             /\ j \in jobs' => j \in redacted' /\ has_others(origin[j].org)'
  <2> DEFINE o == origin[j].org
  <2>1. o \in shared \cup tx.orgs /\ o \in Orgs
    BY <1>1, <1>4
       DEF ErasureInv, TxProgress, QuietProgress, Surveying, Deleting, RefusalInv,
           DeletionInv, TypeOK
  <2>2. Erased(o)
    BY <1>1, <1>4, <2>1 DEF ErasureInv, QuietProgress, Surveying
  <2>3. ASSUME j \in jobs' PROVE j \in redacted' /\ has_others(o)'
    <3>1. o \notin tx.orgs /\ o \in shared
      BY <1>1, <2>1, <2>3 DEF ErasureInv, RefusalInv, DeletionInv, TxClosed
    <3>2. j \in tx.redacted /\ has_others(o)
      BY <1>1, <1>4, <2>3, <3>1 DEF ErasureInv, QuietProgress, Surveying
    <3> QED
      BY <1>1, <2>1, <2>3, <3>1, <3>2 DEF Remaining, has_others
  <2> QED
    BY <1>4, <2>2, <2>3 DEF Erased
<1>5. QuietErasure'
  BY <1>1, <1>4 DEF QuietErasure
<1> QED
  BY <1>2, <1>3, <1>5

\* ErasureInv is inductive.
LEMMA ErasureStep ==
  ASSUME ErasureInv, [Next]_vars
  PROVE  ErasureInv'
<1>1. RefusalInv'
  BY RefusalStep DEF ErasureInv
<1>2. CASE UNCHANGED vars
  BY <1>1, <1>2 DEF vars, tables, command, ErasureInv, BytesHaveRows, TxProgress,
     QuietProgress, QuietErasure, Erased, has_others
<1> QED
  BY <1>1, <1>2, ErasureMembers, ErasureConversion, ErasureScrub, ErasureFiles,
     ErasureOrders, ErasureCommit
     DEF Next, delete_user_account, ErasureInv

LEMMA ErasureInit ==
  ASSUME Init
  PROVE  ErasureInv
  BY RefusalInit DEF Init, ErasureInv, BytesHaveRows, TxProgress, QuietProgress,
     QuietErasure, NoTx, Surveying, Deleting

\* delete_user_account erases what its docstring promises when nobody else acts
\* and no file.delete raises, for any organizations, members and conversions,
\* and whatever earlier attempts of the command left half done.
THEOREM AccountErased == Spec => []QuietErasure
<1>1. ErasureInv => QuietErasure
  BY DEF ErasureInv
<1> QED
  BY <1>1, ErasureInit, ErasureStep, PTL DEF Spec

=============================================================================
