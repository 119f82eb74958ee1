---------------------------- MODULE GatesProofs -----------------------------
(***************************************************************************)
(* Proofs about Gates, for any number of requests, users, limits, flips    *)
(* and failed lookups.                                                     *)
(*                                                                         *)
(* The bound of AttemptsBounded is about all the attempts since a counter  *)
(* was last absent, while the code only sees the counter.  What connects   *)
(* them is who is under way: the requests past the check of a counter may  *)
(* still raise it, and each of those about to store it afresh may make the *)
(* code forget everything counted so far, once.  EntriesTimed, at the end, *)
(* is the safety part of what the runs check as liveness.                  *)
(***************************************************************************)
EXTENDS Gates, FiniteSetTheorems, TLAPS

\* About to overwrite the counter of k.
Pend(k) == {r \in Requests : at[r] = "set" /\ key[r] = k}

\* Past the check of k, with the increment still to come.
Passed(r, k) ==
    \/ at[r] \in {"add", "incr"} /\ key[r] = k
    \/ at[r] \in {"add", "incr", "set"} /\ key[r] \in Users /\ k = "ip"
    \/ at[r] = "ip" /\ user[r] = k
    \/ at[r] = "auth" /\ (user[r] = k \/ k = "ip")

Past(k) == {r \in Requests : Passed(r, k)}

\* What p pending requests out of n may have made the counter forget, doubled.
Slack(n, l, p) ==
    IF p = n THEN 0 ELSE 2 * (n - 1 - p) * l + (n - 1 - p) * (n - 2 - p)

\* The counter c and the attempts s of a key with the limit l.
Good(n, l, p, q, c, s) ==
    l > 0 =>
        /\ c <= s
        /\ c = 0 => s = 0
        /\ p = n => c = 0
        /\ c + q <= l - 1 + n - p
        /\ 2 * (s - c) <= Slack(n, l, p)

KeyInv(k) ==
    Good(N, Limit(k), Cardinality(Pend(k)), Cardinality(Past(k)), count[k], seen[k])

\* A request that increments names a counter.
Placed == \A r \in Requests : at[r] \in {"add", "incr", "set"} => key[r] \in Keys

IInv == TypeOK /\ Placed /\ \A k \in Keys : KeyInv(k)

-----------------------------------------------------------------------------
(* Arithmetic *)

LEMMA GoodKeep ==
  ASSUME NEW n \in Nat, NEW l \in Nat, NEW p \in Nat, NEW q \in Nat, NEW c \in Nat,
         NEW s \in Nat, NEW q1 \in Nat, Good(n, l, p, q, c, s), q1 <= q
  PROVE  Good(n, l, p, q1, c, s)
  BY DEF Good, Slack

LEMMA GoodPeek ==
  ASSUME NEW n \in Nat, NEW l \in Nat, NEW p \in Nat, NEW q \in Nat, NEW c \in Nat,
         NEW s \in Nat, NEW q1 \in Nat, Good(n, l, p, q, c, s),
         p + q1 <= n, l > 0 => c < l
  PROVE  Good(n, l, p, q1, c, s)
  BY DEF Good, Slack

LEMMA GoodBump ==
  ASSUME NEW n \in Nat, NEW l \in Nat, NEW p \in Nat, NEW q \in Nat, NEW c \in Nat,
         NEW s \in Nat, NEW q1 \in Nat, Good(n, l, p, q, c, s),
         p + q <= n, q1 + 1 = q
  PROVE  Good(n, l, p, q1, c + 1, s + 1)
  BY DEF Good, Slack

LEMMA SlackNonNegative ==
  ASSUME NEW n \in Nat, NEW l \in Nat, NEW p \in Nat, p <= n
  PROVE  Slack(n, l, p) >= 0
<1>1. CASE p < n
  <2>1. PICK m \in Nat : m = n - 1 - p
    BY <1>1
  <2>2. m * l \in Nat
    OBVIOUS
  <2>3. m * (m - 1) >= 0
    <3>1. CASE m = 0
      BY <3>1
    <3>2. CASE m - 1 \in Nat
      BY <3>2
    <3> QED
      BY <3>1, <3>2
  <2>4. Slack(n, l, p) = 2 * (m * l) + m * (m - 1)
    BY <1>1, <2>1 DEF Slack
  <2> QED
    BY <2>2, <2>3, <2>4
<1> QED
  BY <1>1 DEF Slack

LEMMA GoodZero ==
  ASSUME NEW n \in Nat, NEW l \in Nat, NEW p \in Nat, NEW q \in Nat, NEW c \in Nat,
         NEW s \in Nat, p + q <= n, l > 0 => c = 0 /\ s = 0
  PROVE  Good(n, l, p, q, c, s)
<1>1. Slack(n, l, p) >= 0
  BY SlackNonNegative
<1> QED
  BY <1>1 DEF Good

\* The step that matters: one pending request less, and what the others had
\* counted is forgotten.
LEMMA GoodSet ==
  ASSUME NEW n \in Nat, NEW l \in Nat, NEW p \in Nat, NEW q \in Nat, NEW c \in Nat,
         NEW s \in Nat, NEW p1 \in Nat, NEW q1 \in Nat, Good(n, l, p, q, c, s),
         p <= n, p = p1 + 1, p1 + q1 + 1 <= n
  PROVE  Good(n, l, p1, q1, 1, s + 1)
<1> SUFFICES ASSUME l > 0
             PROVE  2 * s <= Slack(n, l, p1)
  BY DEF Good
<1>1. CASE p = n
  <2>1. s = 0
    BY <1>1 DEF Good
  <2> QED
    BY <2>1, SlackNonNegative
<1>2. CASE p < n
  <2>1. PICK m \in Nat : m = n - 1 - p
    BY <1>2
  <2>2. c <= l + m
    BY <2>1 DEF Good
  <2>3. 2 * (s - c) <= 2 * (m * l) + m * (m - 1)
    BY <1>2, <2>1 DEF Good, Slack
  <2>4. Slack(n, l, p1) = 2 * ((m + 1) * l) + (m + 1) * m
    BY <1>2, <2>1 DEF Slack
  <2>5. (m + 1) * l = m * l + l /\ (m + 1) * m = m * (m - 1) + 2 * m
    OBVIOUS
  <2>6. m * l \in Int /\ m * (m - 1) \in Int
    OBVIOUS
  <2> QED
    BY <2>2, <2>3, <2>4, <2>5, <2>6
<1> QED
  BY <1>1, <1>2

LEMMA Half ==
  ASSUME NEW x \in Int, NEW t \in Int, 2 * t <= x
  PROVE  t <= x \div 2
  OBVIOUS

LEMMA GoodBounds ==
  ASSUME NEW n \in Nat, NEW l \in Nat, NEW p \in Nat, NEW q \in Nat, NEW c \in Nat,
         NEW s \in Nat, Good(n, l, p, q, c, s), p <= n, l > 0
  PROVE  s <= n * l + (n * (n - 1)) \div 2
<1>0. n * l \in Nat /\ n * (n - 1) \in Int /\ n * (n - 1) >= 0
  <2>1. CASE n = 0
    BY <2>1
  <2>2. CASE n - 1 \in Nat
    BY <2>2
  <2> QED
    BY <2>1, <2>2
<1>1. 2 * s <= 2 * (n * l) + n * (n - 1)
  <2>1. CASE p = n
    <3>1. s = 0
      BY <2>1 DEF Good
    <3> QED
      BY <1>0, <3>1
  <2>2. CASE p < n
    <3>1. PICK m \in Nat : m = n - 1 - p
      BY <2>2
    <3>2. c <= l + m
      BY <3>1 DEF Good
    <3>3. 2 * (s - c) <= 2 * (m * l) + m * (m - 1)
      BY <2>2, <3>1 DEF Good, Slack
    <3>4. n = m + 1 + p
      BY <3>1
    <3>5. n * l = m * l + l + p * l
      BY <3>4
    <3>6. n * (n - 1) = m * (m - 1) + 2 * m + 2 * (p * m) + p * p + p
      BY <3>4
    <3>7. p * l \in Nat /\ p * m \in Nat /\ p * p \in Nat /\ m * l \in Nat /\ m * (m - 1) \in Int
      OBVIOUS
    <3> QED
      BY <3>2, <3>3, <3>5, <3>6, <3>7
  <2> QED
    BY <2>1, <2>2
<1>2. s - n * l \in Int /\ 2 * (s - n * l) <= n * (n - 1)
  BY <1>0, <1>1
<1>3. s - n * l <= (n * (n - 1)) \div 2
  BY <1>0, <1>2, Half
<1>4. (n * (n - 1)) \div 2 \in Int
  BY <1>0
<1> QED
  BY <1>0, <1>3, <1>4

-----------------------------------------------------------------------------
(* Who is under way *)

LEMMA RequestsFinite == IsFiniteSet(Requests) /\ N \in Nat
  BY GatesConstants, FS_CardinalityType DEF N

LEMMA Counted ==
  ASSUME NEW S \in SUBSET Requests
  PROVE  IsFiniteSet(S) /\ Cardinality(S) \in Nat /\ Cardinality(S) <= N
  BY RequestsFinite, FS_Subset, FS_CardinalityType DEF N

\* Two disjoint groups of requests, and possibly one request in neither.
LEMMA Disjoint ==
  ASSUME NEW P \in SUBSET Requests, NEW Q \in SUBSET Requests, P \intersect Q = {}
  PROVE  /\ Cardinality(P) + Cardinality(Q) <= N
         /\ \A r \in Requests : r \notin P \union Q => Cardinality(P) + Cardinality(Q) + 1 <= N
<1>1. /\ IsFiniteSet(P) /\ IsFiniteSet(Q) /\ IsFiniteSet(P \union Q)
      /\ Cardinality(P) \in Nat /\ Cardinality(Q) \in Nat /\ Cardinality(P \union Q) \in Nat
      /\ Cardinality(P \union Q) <= N
  BY Counted
<1>2. Cardinality(P \union Q) = Cardinality(P) + Cardinality(Q)
  BY <1>1, FS_Union, FS_EmptySet
<1>3. ASSUME NEW r \in Requests, r \notin P \union Q
      PROVE  Cardinality(P) + Cardinality(Q) + 1 <= N
  <2>1. (P \union Q) \union {r} \in SUBSET Requests
    OBVIOUS
  <2>2. Cardinality((P \union Q) \union {r}) = Cardinality(P \union Q) + 1
    BY <1>1, <1>3, FS_AddElement
  <2>3. Cardinality((P \union Q) \union {r}) <= N
    BY <2>1, Counted
  <2> QED
    BY <1>2, <2>2, <2>3
<1> QED
  BY <1>1, <1>2, <1>3

LEMMA OneLess ==
  ASSUME NEW S \in SUBSET Requests, NEW T \in SUBSET Requests, NEW r \in S,
         r \notin T, T \ {r} = S \ {r}
  PROVE  Cardinality(T) + 1 = Cardinality(S)
<1>1. T = S \ {r}
  OBVIOUS
<1>2. Cardinality(S \ {r}) = Cardinality(S) - 1
  BY Counted, FS_RemoveElement
<1> QED
  BY <1>1, <1>2, Counted

LEMMA LimitType == \A k \in Keys : Limit(k) \in Nat
  BY GatesConstants DEF Limit

\* No request is in both groups of a key, before or after a step.
LEMMA Apart ==
  ASSUME NEW k
  PROVE  /\ Pend(k) \in SUBSET Requests /\ Past(k) \in SUBSET Requests
         /\ Pend(k) \intersect Past(k) = {}
         /\ Pend(k)' \in SUBSET Requests /\ Past(k)' \in SUBSET Requests
         /\ Pend(k)' \intersect Past(k)' = {}
  BY GatesConstants DEF Pend, Past, Passed

\* A step of r moves no other request.
Local(r) ==
    \A x \in Requests \ {r} :
        at'[x] = at[x] /\ key'[x] = key[x] /\ user'[x] = user[x]

LEMMA OthersStay ==
  ASSUME NEW k, NEW r \in Requests, Local(r)
  PROVE  Pend(k)' \ {r} = Pend(k) \ {r} /\ Past(k)' \ {r} = Past(k) \ {r}
  BY DEF Local, Pend, Past, Passed

\* The sizes of the groups, for the lemmas below.
LEMMA Sizes ==
  ASSUME NEW k
  PROVE  /\ Cardinality(Pend(k)) \in Nat /\ Cardinality(Past(k)) \in Nat
         /\ Cardinality(Pend(k)) + Cardinality(Past(k)) <= N
         /\ Cardinality(Pend(k)') \in Nat /\ Cardinality(Past(k)') \in Nat
         /\ Cardinality(Pend(k)') + Cardinality(Past(k)') <= N
  BY Apart, Counted, Disjoint

\* A step that leaves a counter alone, lets no request into either group.
LEMMA KeepKey ==
  ASSUME IInv, TypeOK', NEW r \in Requests, Local(r), NEW k \in Keys,
         count'[k] = count[k], seen'[k] = seen[k],
         r \notin Pend(k), r \notin Pend(k)', r \in Past(k)' => r \in Past(k)
  PROVE  KeyInv(k)'
<1>1. Pend(k)' = Pend(k)
  BY OthersStay
<1>2. Cardinality(Past(k)') <= Cardinality(Past(k))
  <2>1. Past(k)' \in SUBSET Past(k)
    BY OthersStay
  <2> QED
    BY <2>1, Apart, Counted, FS_Subset
<1>3. Good(N, Limit(k), Cardinality(Pend(k)), Cardinality(Past(k)'), count[k], seen[k])
  BY <1>2, GoodKeep, Sizes, LimitType, RequestsFinite DEF IInv, TypeOK, KeyInv
<1> QED
  BY <1>1, <1>3 DEF KeyInv, N, Limit

\* A request passes the check of a counter below its limit.
LEMMA PeekKey ==
  ASSUME IInv, TypeOK', NEW r \in Requests, Local(r), NEW k \in Keys,
         count'[k] = count[k], seen'[k] = seen[k],
         r \notin Pend(k), r \notin Pend(k)', Limit(k) > 0 => count[k] < Limit(k)
  PROVE  KeyInv(k)'
<1>1. Pend(k)' = Pend(k)
  BY OthersStay
<1>2. Good(N, Limit(k), Cardinality(Pend(k)), Cardinality(Past(k)'), count[k], seen[k])
  BY <1>1, GoodPeek, Sizes, LimitType, RequestsFinite DEF IInv, TypeOK, KeyInv
<1> QED
  BY <1>1, <1>2 DEF KeyInv, N, Limit

\* A request past the check raises the counter.
LEMMA BumpKey ==
  ASSUME IInv, TypeOK', NEW r \in Requests, Local(r), NEW k \in Keys,
         count'[k] = count[k] + 1, seen'[k] = seen[k] + 1,
         r \in Past(k), r \notin Past(k)', r \notin Pend(k)'
  PROVE  KeyInv(k)'
<1>1. Pend(k)' = Pend(k)
  BY OthersStay, Apart
<1>2. Cardinality(Past(k)') + 1 = Cardinality(Past(k))
  BY OthersStay, OneLess, Apart
<1>3. Good(N, Limit(k), Cardinality(Pend(k)), Cardinality(Past(k)'), count[k] + 1, seen[k] + 1)
  BY <1>2, GoodBump, Sizes, LimitType, RequestsFinite DEF IInv, TypeOK, KeyInv
<1> QED
  BY <1>1, <1>3 DEF KeyInv, N, Limit

\* A pending request overwrites the counter.
LEMMA SetKey ==
  ASSUME IInv, TypeOK', NEW r \in Requests, Local(r), NEW k \in Keys,
         count'[k] = 1, seen'[k] = seen[k] + 1,
         r \in Pend(k), r \notin Pend(k)', r \notin Past(k)'
  PROVE  KeyInv(k)'
<1>1. Cardinality(Pend(k)') + 1 = Cardinality(Pend(k))
  BY OthersStay, OneLess, Apart
<1>2. Cardinality(Pend(k)') + Cardinality(Past(k)') + 1 <= N
  BY Apart, Disjoint
<1>3. Good(N, Limit(k), Cardinality(Pend(k)'), Cardinality(Past(k)'), 1, seen[k] + 1)
  <2>1. Good(N, Limit(k), Cardinality(Pend(k)), Cardinality(Past(k)), count[k], seen[k])
    BY DEF IInv, KeyInv
  <2>2. /\ N \in Nat /\ Limit(k) \in Nat /\ count[k] \in Nat /\ seen[k] \in Nat
        /\ Cardinality(Pend(k)) \in Nat /\ Cardinality(Past(k)) \in Nat
        /\ Cardinality(Pend(k)') \in Nat /\ Cardinality(Past(k)') \in Nat
    BY Sizes, LimitType, RequestsFinite DEF IInv, TypeOK
  <2>3. Cardinality(Pend(k)) <= N
    BY Apart, Counted
  <2> QED
    BY <1>1, <1>2, <2>1, <2>2, <2>3, GoodSet
<1> QED
  BY <1>3 DEF KeyInv, N, Limit

\* The counter is absent after the step.
LEMMA ZeroKey ==
  ASSUME TypeOK', NEW k \in Keys, Limit(k) > 0 => count'[k] = 0 /\ seen'[k] = 0
  PROVE  KeyInv(k)'
<1>1. count'[k] \in Nat /\ seen'[k] \in Nat
  BY DEF TypeOK, Keys
<1>2. Good(N, Limit(k), Cardinality(Pend(k)'), Cardinality(Past(k)'), count'[k], seen'[k])
  BY <1>1, GoodZero, Sizes, LimitType, RequestsFinite
<1> QED
  BY <1>2 DEF KeyInv, N, Limit

-----------------------------------------------------------------------------
(* One step of the specification *)

LEMMA KeyTypes == /\ Users \subseteq Keys /\ "ip" \in Keys /\ "rate" \in Keys
                  /\ "ip" \notin Users /\ "rate" \notin Users /\ "none" \notin Users
  BY GatesConstants DEF Keys

\* Bumped: on to the address's counter after a user's, else done.
LEMMA BumpedMoves ==
  ASSUME IInv, NEW r \in Requests, at[r] \in {"add", "incr", "set"}, Bumped(r), user' = user
  PROVE  /\ Local(r)
         /\ at' \in [Requests -> Steps] /\ key' \in [Requests -> Keys \union {"none"}]
         /\ Placed'
         /\ \A k \in Keys : /\ r \notin Pend(k)'
                            /\ r \in Past(k)' <=> key[r] \in Users /\ k = "ip"
<1>1. key[r] \in Keys
  BY DEF IInv, Placed
<1>2. /\ at' = [at EXCEPT ![r] = IF key[r] \in Users THEN "add" ELSE "idle"]
      /\ key' = [key EXCEPT ![r] = IF key[r] \in Users THEN "ip" ELSE "none"]
  BY DEF Bumped, goto
<1>3. /\ at' \in [Requests -> Steps] /\ key' \in [Requests -> Keys \union {"none"}]
      /\ at'[r] = (IF key[r] \in Users THEN "add" ELSE "idle")
      /\ key'[r] = (IF key[r] \in Users THEN "ip" ELSE "none")
  BY <1>2, KeyTypes DEF IInv, TypeOK, Steps
<1>4. Local(r)
  BY <1>2 DEF Local, IInv, TypeOK
<1>5. Placed'
  BY <1>3, <1>4, KeyTypes DEF Placed, Local, IInv
<1>6. \A k \in Keys : r \notin Pend(k)' /\ (r \in Past(k)' <=> key[r] \in Users /\ k = "ip")
  BY <1>3, KeyTypes DEF Pend, Past, Passed
<1> QED
  BY <1>3, <1>4, <1>5, <1>6

\* Where the request stands before it increments the counter key[r].
LEMMA BeforeBump ==
  ASSUME IInv, NEW r \in Requests, at[r] \in {"add", "incr", "set"}, NEW k \in Keys
  PROVE  /\ r \in Pend(k) <=> at[r] = "set" /\ k = key[r]
         /\ at[r] # "set" /\ k = key[r] => r \in Past(k)
         /\ key[r] \in Users /\ k = "ip" => r \in Past(k)
  BY DEF Pend, Past, Passed

\* Record with one more, of a request past the check.
LEMMA RecordBump ==
  ASSUME IInv, NEW r \in Requests, at[r] \in {"add", "incr"}, Bumped(r),
         Record(key[r], count[key[r]] + 1), timed' \in SUBSET (timed \union {key[r]}),
         UNCHANGED <<row, cached, user, read, flips, faults>>
  PROVE  IInv'
<1>1. key[r] \in Keys
  BY DEF IInv, Placed
<1>2. /\ Local(r) /\ Placed'
      /\ at' \in [Requests -> Steps] /\ key' \in [Requests -> Keys \union {"none"}]
      /\ \A k \in Keys : r \notin Pend(k)' /\ (r \in Past(k)' <=> key[r] \in Users /\ k = "ip")
  BY BumpedMoves
<1>3. TypeOK'
  BY <1>1, <1>2 DEF IInv, TypeOK, Record
<1>4. ASSUME NEW k \in Keys PROVE KeyInv(k)'
  <2>1. CASE k = key[r]
    <3>1. count'[k] = count[k] + 1 /\ seen'[k] = seen[k] + 1
      BY <2>1 DEF Record, IInv, TypeOK
    <3>2. r \in Past(k) /\ r \notin Past(k)' /\ r \notin Pend(k)'
      BY <1>2, <2>1, BeforeBump, KeyTypes
    <3> QED
      BY <1>2, <1>3, <3>1, <3>2, BumpKey
  <2>2. CASE k # key[r]
    <3>1. count'[k] = count[k] /\ seen'[k] = seen[k]
      BY <2>2 DEF Record, IInv, TypeOK
    <3>2. r \notin Pend(k) /\ r \notin Pend(k)' /\ (r \in Past(k)' => r \in Past(k))
      BY <1>2, <2>2, BeforeBump
    <3> QED
      BY <1>2, <1>3, <3>1, <3>2, KeepKey
  <2> QED
    BY <2>1, <2>2
<1> QED
  BY <1>2, <1>3, <1>4 DEF IInv

LEMMA Inv_counter_set == ASSUME IInv, NEW r \in Requests, counter_set(r) PROVE IInv'
<1>1. key[r] \in Keys /\ at[r] = "set" /\ Bumped(r) /\ Record(key[r], 1)
  BY DEF IInv, Placed, counter_set
<1>2. /\ Local(r) /\ Placed'
      /\ at' \in [Requests -> Steps] /\ key' \in [Requests -> Keys \union {"none"}]
      /\ \A k \in Keys : r \notin Pend(k)' /\ (r \in Past(k)' <=> key[r] \in Users /\ k = "ip")
  BY <1>1, BumpedMoves DEF counter_set
<1>3. TypeOK'
  BY <1>1, <1>2 DEF IInv, TypeOK, Record, counter_set, SetTimed
<1>4. ASSUME NEW k \in Keys PROVE KeyInv(k)'
  <2>1. CASE k = key[r]
    <3>1. count'[k] = 1 /\ seen'[k] = seen[k] + 1
      BY <1>1, <2>1 DEF Record, IInv, TypeOK
    <3>2. r \in Pend(k) /\ r \notin Past(k)' /\ r \notin Pend(k)'
      BY <1>1, <1>2, <2>1, BeforeBump, KeyTypes
    <3> QED
      BY <1>2, <1>3, <3>1, <3>2, SetKey
  <2>2. CASE k # key[r]
    <3>1. count'[k] = count[k] /\ seen'[k] = seen[k]
      BY <1>1, <2>2 DEF Record, IInv, TypeOK
    <3>2. r \notin Pend(k) /\ r \notin Pend(k)' /\ (r \in Past(k)' => r \in Past(k))
      BY <1>1, <1>2, <2>2, BeforeBump
    <3> QED
      BY <1>2, <1>3, <3>1, <3>2, KeepKey
  <2> QED
    BY <2>1, <2>2
<1> QED
  BY <1>2, <1>3, <1>4 DEF IInv

\* Steps that only move r, and the request's own fields.
LEMMA Moves ==
  ASSUME IInv, NEW r \in Requests, NEW s \in Steps, NEW c \in Keys \union {"none"},
         NEW u \in Users,
         at' = [at EXCEPT ![r] = s], key' = [key EXCEPT ![r] = c], user' = [user EXCEPT ![r] = u]
  PROVE  /\ Local(r) /\ at'[r] = s /\ key'[r] = c /\ user'[r] = u
         /\ at' \in [Requests -> Steps] /\ key' \in [Requests -> Keys \union {"none"}]
         /\ user' \in [Requests -> Users]
         /\ (s \in {"add", "incr", "set"} => c \in Keys) => Placed'
<1>1. /\ at' \in [Requests -> Steps] /\ key' \in [Requests -> Keys \union {"none"}]
      /\ user' \in [Requests -> Users] /\ at'[r] = s /\ key'[r] = c /\ user'[r] = u
  BY DEF IInv, TypeOK
<1>2. Local(r)
  BY DEF Local, IInv, TypeOK
<1>3. (s \in {"add", "incr", "set"} => c \in Keys) => Placed'
  BY <1>1, <1>2 DEF Placed, Local, IInv
<1> QED
  BY <1>1, <1>2, <1>3

\* A step that changes no counter, where r newly passes only checks of counters
\* below their limits.
LEMMA MoveInv ==
  ASSUME IInv, NEW r \in Requests, NEW s \in Steps \ {"set"}, NEW c \in Keys \union {"none"},
         NEW u \in Users,
         at' = [at EXCEPT ![r] = s], key' = [key EXCEPT ![r] = c], user' = [user EXCEPT ![r] = u],
         UNCHANGED counters, at[r] # "set", s \in {"add", "incr"} => c \in Keys,
         row' \in {"absent", "on", "off"}, cached' \in {"none", "on", "off"},
         timed' \subseteq Keys \union {"flag"}, read' \in [Requests -> {"on", "off"}],
         flips' \in 0..MaxFlips, faults' \in 0..MaxFaults,
         \A k \in Keys : r \in Past(k)' /\ r \notin Past(k) /\ Limit(k) > 0 => count[k] < Limit(k)
  PROVE  IInv'
<1>1. /\ Local(r) /\ at'[r] = s /\ Placed'
      /\ at' \in [Requests -> Steps] /\ key' \in [Requests -> Keys \union {"none"}]
      /\ user' \in [Requests -> Users]
  BY Moves
<1>2. TypeOK'
  BY <1>1 DEF IInv, TypeOK, counters
<1>3. ASSUME NEW k \in Keys PROVE KeyInv(k)'
  <2>1. count'[k] = count[k] /\ seen'[k] = seen[k]
    BY DEF counters
  <2>2. r \notin Pend(k) /\ r \notin Pend(k)'
    BY <1>1 DEF Pend
  <2>3. CASE r \in Past(k)' => r \in Past(k)
    BY <1>1, <1>2, <2>1, <2>2, <2>3, KeepKey
  <2>4. CASE Limit(k) > 0 => count[k] < Limit(k)
    BY <1>1, <1>2, <2>1, <2>2, <2>4, PeekKey
  <2> QED
    BY <2>3, <2>4
<1> QED
  BY <1>1, <1>2, <1>3 DEF IInv

LEMMA Inv_counter_add == ASSUME IInv, NEW r \in Requests, counter_add(r) PROVE IInv'
<1>1. at[r] = "add" /\ key[r] \in Keys
  BY DEF counter_add, IInv, Placed
<1>2. CASE count[key[r]] = 0
  BY <1>1, <1>2, RecordBump DEF counter_add
<1>3. CASE count[key[r]] # 0
  <2>1. /\ at' = [at EXCEPT ![r] = "incr"] /\ key' = [key EXCEPT ![r] = key[r]]
        /\ user' = [user EXCEPT ![r] = user[r]]
        /\ UNCHANGED <<counters, timed, row, cached, read, flips, faults>>
    BY <1>3 DEF counter_add, goto, IInv, TypeOK
  <2>2. \A k \in Keys : r \in Past(k)' => r \in Past(k)
    BY <1>1, <2>1 DEF Past, Passed, IInv, TypeOK
  <2> QED
    BY <1>1, <2>1, <2>2, MoveInv DEF IInv, TypeOK, Steps
<1> QED
  BY <1>2, <1>3

LEMMA Inv_counter_incr == ASSUME IInv, NEW r \in Requests, counter_incr(r) PROVE IInv'
<1>1. at[r] = "incr" /\ key[r] \in Keys
  BY DEF counter_incr, IInv, Placed
<1>2. CASE count[key[r]] # 0
  BY <1>1, <1>2, RecordBump DEF counter_incr
<1>3. CASE count[key[r]] = 0
  <2>1. /\ at' = [at EXCEPT ![r] = "set"] /\ key' = [key EXCEPT ![r] = key[r]]
        /\ user' = [user EXCEPT ![r] = user[r]]
        /\ UNCHANGED <<counters, timed, row, cached, read, flips, faults>>
    BY <1>3 DEF counter_incr, goto, IInv, TypeOK
  <2>2. /\ Local(r) /\ Placed' /\ at'[r] = "set" /\ key'[r] = key[r]
        /\ at' \in [Requests -> Steps] /\ key' \in [Requests -> Keys \union {"none"}]
        /\ user' \in [Requests -> Users]
    BY <1>1, <2>1, Moves DEF Steps, IInv, TypeOK
  <2>3. TypeOK'
    BY <2>1, <2>2 DEF IInv, TypeOK, counters
  <2>4. ASSUME NEW k \in Keys PROVE KeyInv(k)'
    <3>1. count'[k] = count[k] /\ seen'[k] = seen[k]
      BY <2>1 DEF counters
    <3>2. CASE k = key[r]
      <4>1. Limit(k) > 0 => seen[k] = 0
        BY <1>3, <3>2 DEF IInv, KeyInv, Good
      <4> QED
        BY <1>3, <2>3, <3>1, <3>2, <4>1, ZeroKey
    <3>3. CASE k # key[r]
      <4>1. r \notin Pend(k) /\ r \notin Pend(k)'
        BY <1>1, <2>2, <3>3 DEF Pend
      <4>2. r \in Past(k)' => r \in Past(k)
        BY <1>1, <2>2, <3>3 DEF Past, Passed
      <4> QED
        BY <2>2, <2>3, <3>1, <4>1, <4>2, KeepKey
    <3> QED
      BY <3>2, <3>3
  <2> QED
    BY <2>2, <2>3, <2>4 DEF IInv
<1> QED
  BY <1>2, <1>3

LEMMA Inv_login == ASSUME IInv, NEW r \in Requests, NEW u \in Users, login(r, u) PROVE IInv'
<1>1. /\ at[r] = "idle" /\ at' = [at EXCEPT ![r] = "user"] /\ key' = [key EXCEPT ![r] = key[r]]
      /\ user' = [user EXCEPT ![r] = u]
      /\ UNCHANGED <<counters, timed, row, cached, read, flips, faults>>
  BY DEF login, goto, IInv, TypeOK
<1>2. \A k \in Keys : r \notin Past(k)'
  BY <1>1 DEF Past, Passed, IInv, TypeOK
<1> QED
  BY <1>1, <1>2, MoveInv DEF IInv, TypeOK, Steps

LEMMA Inv_blocked_user == ASSUME IInv, NEW r \in Requests, blocked_user(r) PROVE IInv'
<1>0. user[r] \in Users /\ user[r] \in Keys
  BY KeyTypes DEF IInv, TypeOK
<1>1. PICK s \in {"idle", "ip"} :
         /\ at[r] = "user" /\ at' = [at EXCEPT ![r] = s] /\ key' = [key EXCEPT ![r] = key[r]]
         /\ user' = [user EXCEPT ![r] = user[r]]
         /\ s = "ip" => ~AtLimit(user[r])
         /\ UNCHANGED <<counters, timed, row, cached, read, flips, faults>>
  BY DEF blocked_user, goto, IInv, TypeOK
<1>2. \A k \in Keys : r \in Past(k)' => s = "ip" /\ k = user[r]
  BY <1>1 DEF Past, Passed, IInv, TypeOK
<1>3. \A k \in Keys : r \in Past(k)' => count[k] < Limit(k)
  BY <1>0, <1>1, <1>2, LimitType DEF AtLimit, IInv, TypeOK
<1> QED
  BY <1>0, <1>1, <1>3, MoveInv DEF IInv, TypeOK, Steps

LEMMA Inv_blocked_ip == ASSUME IInv, NEW r \in Requests, blocked_ip(r) PROVE IInv'
<1>0. user[r] \in Users
  BY DEF IInv, TypeOK
<1>1. PICK s \in {"idle", "auth"} :
         /\ at[r] = "ip" /\ at' = [at EXCEPT ![r] = s] /\ key' = [key EXCEPT ![r] = key[r]]
         /\ user' = [user EXCEPT ![r] = user[r]]
         /\ s = "auth" => ~AtLimit("ip")
         /\ UNCHANGED <<counters, timed, row, cached, read, flips, faults>>
  BY DEF blocked_ip, goto, IInv, TypeOK
<1>2. \A k \in Keys : r \in Past(k)' => r \in Past(k) \/ (s = "auth" /\ k = "ip")
  <2>1. at'[r] = s /\ user'[r] = user[r]
    BY <1>1 DEF IInv, TypeOK
  <2> SUFFICES ASSUME NEW k \in Keys, r \in Past(k)', r \notin Past(k)
               PROVE  s = "auth" /\ k = "ip"
    OBVIOUS
  <2>2. s = "auth" /\ (user[r] = k \/ k = "ip")
    BY <2>1 DEF Past, Passed
  <2>3. user[r] # k
    BY <1>1 DEF Past, Passed
  <2> QED
    BY <2>2, <2>3
<1>3. \A k \in Keys : r \in Past(k)' => r \in Past(k) \/ count[k] < Limit(k)
  BY <1>1, <1>2, LimitType DEF AtLimit, IInv, TypeOK
<1> QED
  BY <1>0, <1>1, <1>3, MoveInv DEF IInv, TypeOK, Steps

LEMMA Inv_form_invalid == ASSUME IInv, NEW r \in Requests, form_invalid(r) PROVE IInv'
<1>0. user[r] \in Users /\ user[r] \in Keys
  BY KeyTypes DEF IInv, TypeOK
<1>1. /\ at[r] = "auth" /\ at' = [at EXCEPT ![r] = "add"] /\ key' = [key EXCEPT ![r] = user[r]]
      /\ user' = [user EXCEPT ![r] = user[r]]
      /\ UNCHANGED <<counters, timed, row, cached, read, flips, faults>>
  BY DEF form_invalid, goto, IInv, TypeOK
<1>2. \A k \in Keys : r \in Past(k)' => r \in Past(k)
  BY <1>1 DEF Past, Passed, IInv, TypeOK
<1> QED
  BY <1>0, <1>1, <1>2, MoveInv DEF IInv, TypeOK, Steps

LEMMA Inv_form_valid == ASSUME IInv, NEW r \in Requests, form_valid(r) PROVE IInv'
<1>0. user[r] \in Users /\ user[r] \in Keys
  BY KeyTypes DEF IInv, TypeOK
<1>1. /\ at[r] = "auth" /\ at' = [at EXCEPT ![r] = "idle"] /\ key' = [key EXCEPT ![r] = key[r]]
      /\ user' = [user EXCEPT ![r] = user[r]]
      /\ count' = [count EXCEPT ![user[r]] = 0] /\ seen' = [seen EXCEPT ![user[r]] = 0]
      /\ timed' \subseteq timed /\ UNCHANGED <<row, cached, read, flips, faults>>
  BY DEF form_valid, goto, IInv, TypeOK
<1>2. /\ Local(r) /\ Placed' /\ at'[r] = "idle"
      /\ at' \in [Requests -> Steps] /\ key' \in [Requests -> Keys \union {"none"}]
      /\ user' \in [Requests -> Users]
  BY <1>0, <1>1, Moves DEF Steps, IInv, TypeOK
<1>3. TypeOK'
  BY <1>1, <1>2 DEF IInv, TypeOK
<1>4. ASSUME NEW k \in Keys PROVE KeyInv(k)'
  <2>1. CASE k = user[r]
    BY <1>1, <1>3, <2>1, ZeroKey DEF IInv, TypeOK
  <2>2. CASE k # user[r]
    <3>1. count'[k] = count[k] /\ seen'[k] = seen[k]
      BY <1>1, <2>2 DEF IInv, TypeOK
    <3>2. r \notin Pend(k) /\ r \notin Pend(k)' /\ r \notin Past(k)'
      BY <1>1, <1>2 DEF Pend, Past, Passed
    <3> QED
      BY <1>2, <1>3, <3>1, <3>2, KeepKey
  <2> QED
    BY <2>1, <2>2
<1> QED
  BY <1>2, <1>3, <1>4 DEF IInv

\* The uploads: up to the rate no counter is looked at.
LEMMA Inv_flag ==
  ASSUME IInv, NEW r \in Requests,
         upload(r) \/ flag_cached(r) \/ flag_read(r) \/ flag_unavailable(r) \/ flag_fill(r)
  PROVE  IInv'
<1>0. user[r] \in Users /\ key[r] \in Keys \union {"none"} /\ read[r] \in {"on", "off"}
  BY DEF IInv, TypeOK
<1>1. PICK s \in {"idle", "flag", "db", "fill", "rate"} : at' = [at EXCEPT ![r] = s]
  BY DEF upload, flag_cached, flag_read, flag_unavailable, flag_fill, Decided, goto
<1>2. /\ at[r] \in {"idle", "flag", "db", "fill"}
      /\ key' = [key EXCEPT ![r] = key[r]] /\ user' = [user EXCEPT ![r] = user[r]]
      /\ UNCHANGED counters /\ UNCHANGED <<row, flips>>
  BY DEF upload, flag_cached, flag_read, flag_unavailable, flag_fill, IInv, TypeOK
<1>3. /\ cached' \in {"none", "on", "off"} /\ timed' \subseteq Keys \union {"flag"}
      /\ read' \in [Requests -> {"on", "off"}]
  BY <1>0 DEF upload, flag_cached, flag_read, flag_unavailable, flag_fill, FlagTimed, IInv, TypeOK
<1>4. faults' \in 0..MaxFaults
  BY GatesConstants DEF upload, flag_cached, flag_read, flag_unavailable, flag_fill, IInv, TypeOK
<1>5. \A k \in Keys : r \notin Past(k)'
  BY <1>1 DEF Past, Passed, IInv, TypeOK
<1>6. row' \in {"absent", "on", "off"} /\ flips' \in 0..MaxFlips
  BY <1>2 DEF IInv, TypeOK
<1> QED
  BY <1>0, <1>1, <1>2, <1>3, <1>4, <1>5, <1>6, MoveInv DEF Steps

LEMMA Inv_enforce_upload_rate ==
  ASSUME IInv, NEW r \in Requests, enforce_upload_rate(r)
  PROVE  IInv'
<1>0. user[r] \in Users /\ key[r] \in Keys \union {"none"}
  BY DEF IInv, TypeOK
<1>1. /\ at[r] = "rate" /\ user' = [user EXCEPT ![r] = user[r]]
      /\ UNCHANGED <<counters, row, cached, timed, read, flips, faults>>
  BY DEF enforce_upload_rate, IInv, TypeOK
<1>2. CASE RateMax > 0 /\ AtLimit("rate")
  <2>1. at' = [at EXCEPT ![r] = "idle"] /\ key' = [key EXCEPT ![r] = key[r]]
    BY <1>2 DEF enforce_upload_rate, goto, IInv, TypeOK
  <2>2. \A k \in Keys : r \notin Past(k)'
    BY <2>1 DEF Past, Passed, IInv, TypeOK
  <2> QED
    BY <1>0, <1>1, <2>1, <2>2, MoveInv DEF IInv, TypeOK, Steps
<1>3. CASE ~(RateMax > 0 /\ AtLimit("rate"))
  <2>1. at' = [at EXCEPT ![r] = "add"] /\ key' = [key EXCEPT ![r] = "rate"]
    BY <1>3 DEF enforce_upload_rate, goto
  <2>2. \A k \in Keys : r \in Past(k)' => k = "rate"
    BY <2>1, KeyTypes DEF Past, Passed, IInv, TypeOK
  <2>3. Limit("rate") > 0 => count["rate"] < Limit("rate")
    BY <1>3, KeyTypes, LimitType DEF AtLimit, Limit, IInv, TypeOK
  <2> QED
    BY <1>0, <1>1, <2>1, <2>2, <2>3, KeyTypes, MoveInv DEF IInv, TypeOK, Steps
<1> QED
  BY <1>2, <1>3

\* Around the requests: no request moves.
LEMMA Inv_around ==
  ASSUME IInv, UNCHANGED <<at, user, key, read>>,
         row' \in {"absent", "on", "off"}, cached' \in {"none", "on", "off"},
         timed' \subseteq timed, flips' \in 0..MaxFlips, faults' \in 0..MaxFaults,
         count' \in [Keys -> Nat], seen' \in [Keys -> Nat],
         \A k \in Keys : \/ count'[k] = count[k] /\ seen'[k] = seen[k]
                         \/ count'[k] = 0 /\ seen'[k] = 0
  PROVE  IInv'
<1>1. TypeOK'
  BY DEF IInv, TypeOK
<1>2. Placed'
  BY DEF IInv, Placed
<1>3. ASSUME NEW k \in Keys PROVE KeyInv(k)'
  <2>1. CASE count'[k] = 0 /\ seen'[k] = 0
    BY <1>1, <2>1, ZeroKey
  <2>2. CASE count'[k] = count[k] /\ seen'[k] = seen[k]
    <3>1. Pend(k)' = Pend(k) /\ Past(k)' = Past(k)
      BY DEF Pend, Past, Passed
    <3> QED
      BY <2>2, <3>1 DEF IInv, KeyInv, Limit, N
  <2> QED
    BY <2>1, <2>2
<1> QED
  BY <1>1, <1>2, <1>3 DEF IInv

LEMMA Inv_init == Init => IInv
<1> SUFFICES ASSUME Init PROVE IInv
  OBVIOUS
<1>1. TypeOK
  BY GatesConstants DEF Init, TypeOK, Steps
<1>2. Placed
  BY DEF Init, Placed
<1>3. ASSUME NEW k \in Keys PROVE KeyInv(k)
  <2>1. count[k] = 0 /\ seen[k] = 0
    BY DEF Init
  <2> QED
    BY <2>1, GoodZero, Sizes, LimitType, RequestsFinite DEF KeyInv
<1> QED
  BY <1>1, <1>2, <1>3 DEF IInv

LEMMA Inv_next == IInv /\ [Next]_vars => IInv'
<1> SUFFICES ASSUME IInv, [Next]_vars PROVE IInv'
  OBVIOUS
<1>0. TypeOK
  BY DEF IInv
<1>1. CASE UNCHANGED vars
  BY <1>0, <1>1, Inv_around DEF vars, TypeOK
<1>2. CASE \E r \in Requests : Handle(r) \/ Arrive(r)
  BY <1>2, Inv_counter_add, Inv_counter_incr, Inv_counter_set, Inv_login, Inv_blocked_user,
     Inv_blocked_ip, Inv_form_invalid, Inv_form_valid, Inv_flag, Inv_enforce_upload_rate
     DEF Handle, Arrive
<1>3. CASE expire_flag
  BY <1>0, <1>3, Inv_around DEF expire_flag, TypeOK, counters
<1>4. CASE \E k \in Keys : expire_counter(k)
  <2>1. PICK k \in Keys : expire_counter(k)
    BY <1>4
  <2>2. /\ count' \in [Keys -> Nat] /\ seen' \in [Keys -> Nat]
        /\ \A q \in Keys : \/ count'[q] = count[q] /\ seen'[q] = seen[q]
                           \/ count'[q] = 0 /\ seen'[q] = 0
    BY <1>0, <2>1 DEF expire_counter, TypeOK
  <2> QED
    BY <1>0, <2>1, <2>2, Inv_around DEF expire_counter, TypeOK
<1>5. CASE \E v \in {"absent", "on", "off"} : flip(v)
  <2>1. flips' \in 0..MaxFlips
    BY <1>0, <1>5, GatesConstants DEF flip, TypeOK
  <2> QED
    BY <1>0, <1>5, <2>1, Inv_around DEF flip, TypeOK, counters
<1> QED
  BY <1>1, <1>2, <1>3, <1>4, <1>5 DEF Next, Expire

LEMMA Inductive == Spec => []IInv
  BY Inv_init, Inv_next, PTL DEF Spec

-----------------------------------------------------------------------------
\* Type correctness of the counters, the flag and the requests.
THEOREM TypeCorrect == Spec => []TypeOK
<1>1. IInv => TypeOK
  BY DEF IInv
<1> QED
  BY <1>1, Inductive, PTL

\* increment_counter and the checks before it let through at most this many
\* attempts between two moments without an entry, for any number of requests in
\* flight and any limits, although the fallback forgets what was counted.
THEOREM AttemptsBoundedHolds == Spec => []AttemptsBounded
<1>1. IInv => AttemptsBounded
  <2> SUFFICES ASSUME IInv, NEW k \in Keys, Limit(k) > 0
               PROVE  seen[k] <= N * Limit(k) + (N * (N - 1)) \div 2
    BY DEF AttemptsBounded
  <2>1. Good(N, Limit(k), Cardinality(Pend(k)), Cardinality(Past(k)), count[k], seen[k])
    BY DEF IInv, KeyInv
  <2>2. /\ N \in Nat /\ Limit(k) \in Nat /\ count[k] \in Nat /\ seen[k] \in Nat
        /\ Cardinality(Pend(k)) \in Nat /\ Cardinality(Past(k)) \in Nat
        /\ Cardinality(Pend(k)) <= N
    BY Sizes, Apart, Counted, LimitType, RequestsFinite DEF IInv, TypeOK
  <2> QED
    BY <2>1, <2>2, GoodBounds
<1> QED
  BY <1>1, Inductive, PTL

-----------------------------------------------------------------------------
\* An entry of the cache has a timeout, and a timeout is that of an entry: what
\* BlocksEnd and KillSwitchTakesEffect rest on, since an entry without one would
\* block logins, or keep the uploads open, for good.
EntriesTimed ==
    /\ \A k \in Keys : count[k] # 0 <=> k \in timed
    /\ cached # "none" <=> "flag" \in timed

\* Each path of increment_counter sets or keeps the timeout, form_valid and the
\* expiry drop it with the entry, and the others leave the cache alone.
LEMMA TimedStep ==
  ASSUME TypeOK, Placed, EntriesTimed, [Next]_vars
  PROVE  EntriesTimed'
<1> USE GatesConstants DEF TypeOK, Keys, EntriesTimed, counters
<1>1. ASSUME NEW r \in Requests, counter_add(r) PROVE EntriesTimed'
  BY <1>1 DEF counter_add, Record, Placed
<1>2. ASSUME NEW r \in Requests, counter_incr(r) PROVE EntriesTimed'
  BY <1>2 DEF counter_incr, Record, Placed
<1>3. ASSUME NEW r \in Requests, counter_set(r) PROVE EntriesTimed'
  BY <1>3 DEF counter_set, Record, SetTimed, Placed
<1>4. ASSUME NEW r \in Requests, form_valid(r) PROVE EntriesTimed'
  BY <1>4 DEF form_valid
<1>5. ASSUME NEW r \in Requests, flag_fill(r) PROVE EntriesTimed'
  BY <1>5 DEF flag_fill, FlagTimed
<1>6. ASSUME NEW k \in Keys, expire_counter(k) PROVE EntriesTimed'
  BY <1>6 DEF expire_counter
<1>7. CASE expire_flag
  BY <1>7 DEF expire_flag
<1>8. ASSUME NEW r \in Requests,
             \/ blocked_user(r) \/ blocked_ip(r) \/ form_invalid(r)
             \/ flag_cached(r) \/ flag_read(r) \/ flag_unavailable(r)
             \/ enforce_upload_rate(r) \/ Arrive(r)
      PROVE  EntriesTimed'
  BY <1>8 DEF blocked_user, blocked_ip, form_invalid, flag_cached, flag_read,
     flag_unavailable, enforce_upload_rate, Arrive, upload, login
<1>9. ASSUME NEW v \in {"absent", "on", "off"}, flip(v) PROVE EntriesTimed'
  BY <1>9 DEF flip
<1>10. CASE UNCHANGED vars
  BY <1>10 DEF vars
<1> HIDE DEF TypeOK, Keys, EntriesTimed, counters
<1> QED
  BY <1>1, <1>2, <1>3, <1>4, <1>5, <1>6, <1>7, <1>8, <1>9, <1>10
     DEF Next, Handle, Expire

\* No path of increment_counter or flag_enabled leaves an entry that the cache
\* cannot drop: any counter that is above zero can expire, and so can the flag.
THEOREM EveryEntryExpires == Spec => []EntriesTimed
<1>1. Init => EntriesTimed
  BY GatesConstants DEF Init, EntriesTimed
<1>2. IInv /\ EntriesTimed /\ [Next]_vars => EntriesTimed'
  BY TimedStep DEF IInv
<1> QED
  BY <1>1, <1>2, Inductive, PTL DEF Spec

=============================================================================
