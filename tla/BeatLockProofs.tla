--------------------------- MODULE BeatLockProofs ---------------------------
(***************************************************************************)
(* Mutual exclusion of BeatLock for any number of processes, provided that *)
(* a run is stopped before the lock it took expires.                       *)
(***************************************************************************)
EXTENDS BeatLock, TLAPS

\* With the time limit below the lock's timeout, every step keeps the entry
\* alive for as long as the process that added it can run.
LEMMA BeatLockStep ==
  ASSUME TimeLimit < LockTimeout, BeatLockInv, [Next]_vars
  PROVE  BeatLockInv'
<1> USE BeatLockConstants DEF BeatLockInv, TypeOK, LockOutlivesRun, Holders
<1>1. ASSUME NEW p \in Processes, start(p) PROVE BeatLockInv'
  BY <1>1 DEF start
<1>2. ASSUME NEW p \in Processes, add(p) PROVE BeatLockInv'
  <2>1. CASE lock = 0
    <3>1. Holders = {}
      BY <2>1
    <3> QED
      BY <1>2, <2>1, <3>1 DEF add, Free
  <2>2. CASE lock # 0
    BY <1>2, <2>2 DEF add, Free
  <2> QED
    BY <2>1, <2>2
<1>3. ASSUME NEW p \in Processes, body_ends(p) PROVE BeatLockInv'
  BY <1>3 DEF body_ends
<1>4. ASSUME NEW p \in Processes, delete(p) PROVE BeatLockInv'
  BY <1>4 DEF delete
<1>5. ASSUME NEW p \in Processes, Dies(p) PROVE BeatLockInv'
  BY <1>5 DEF Dies
<1>6. CASE Tick
  BY <1>6 DEF Tick, Expiring
<1>7. CASE UNCHANGED vars
  BY <1>7 DEF vars
<1> HIDE DEF BeatLockInv
<1> QED
  BY <1>1, <1>2, <1>3, <1>4, <1>5, <1>6, <1>7 DEF Next, RunStep

\* The lock of single_instance excludes overlapping runs of one periodic task
\* if the task's time limit is shorter than the lock's timeout, although the
\* entry has no owner and any run's finally clause deletes it.
THEOREM SingleInstance ==
  ASSUME TimeLimit < LockTimeout
  PROVE  Spec => []Exclusive
<1>1. Init => BeatLockInv
  BY BeatLockConstants DEF Init, BeatLockInv, TypeOK, LockOutlivesRun, Holders
<1>2. BeatLockInv /\ [Next]_vars => BeatLockInv'
  BY BeatLockStep
<1>3. BeatLockInv => Exclusive
  BY DEF BeatLockInv, LockOutlivesRun, Holders, Exclusive
<1> QED
  BY <1>1, <1>2, <1>3, PTL DEF Spec

=============================================================================
