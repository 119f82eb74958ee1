------------------------------- MODULE Gates --------------------------------
(***************************************************************************)
(* The gates that web requests pass through the shared cache: the login    *)
(* throttle (apps/organizations/auth.py), the upload rate and the counters *)
(* of both (fileconverter/ratelimit.py), and the kill switch of the        *)
(* uploads (apps/ops/flags.py).                                            *)
(*                                                                         *)
(* Every cache call is a step of its own, and the cache may drop an entry  *)
(* that has a timeout between any two of them.  The cache itself is        *)
(* external (django.core.cache); add, incr and set are atomic in it.       *)
(***************************************************************************)
EXTENDS Integers, FiniteSets

CONSTANTS
    Requests,    \* web requests handled at the same time
    Users,       \* usernames tried from one client address
    UserMax,     \* FILECONVERTER_LOGIN_MAX_ATTEMPTS
    IpMax,       \* FILECONVERTER_LOGIN_IP_MAX_ATTEMPTS
    RateMax,     \* FILECONVERTER_UPLOAD_RATE_MAX, 0 for no limit
    Override,    \* FILECONVERTER_FLAGS: "unset", "on" or "off" for the flag
    MaxFlips,    \* bound: times an operator changes the flag's row
    MaxFaults    \* bound: flag lookups that the database fails

ASSUME GatesConstants ==
    /\ IsFiniteSet(Requests) /\ Requests # {}
    /\ Users \intersect {"ip", "rate", "flag", "none"} = {}
    /\ UserMax \in Nat /\ IpMax \in Nat /\ RateMax \in Nat
    /\ Override \in {"unset", "on", "off"}
    /\ MaxFlips \in Nat /\ MaxFaults \in Nat

VARIABLES
    count,   \* the counter under each key, 0 when there is no entry
    seen,    \* attempts recorded since the entry was last absent
    row,     \* the FeatureFlag row: "absent", "on", "off"
    cached,  \* its cache entry: "none", "on", "off"
    timed,   \* the keys whose entry has a timeout
    at,      \* where each request is
    user,    \* the username it tries
    key,     \* the counter it increments, "none" when it does not
    read,    \* what it read from the flag's row
    flips, faults

counters == <<count, seen>>
vars == <<count, seen, row, cached, timed, at, user, key, read, flips, faults>>

Keys == Users \union {"ip", "rate"}

Limit(k) == CASE k = "ip" -> IpMax [] k = "rate" -> RateMax [] OTHER -> UserMax

Steps == {"idle", "user", "ip", "auth", "flag", "db", "fill", "rate",
          "add", "incr", "set"}

N == Cardinality(Requests)

TypeOK ==
    /\ count \in [Keys -> Nat]
    /\ seen \in [Keys -> Nat]
    /\ row \in {"absent", "on", "off"}
    /\ cached \in {"none", "on", "off"}
    /\ timed \subseteq Keys \union {"flag"}
    /\ at \in [Requests -> Steps]
    /\ user \in [Requests -> Users]
    /\ key \in [Requests -> Keys \union {"none"}]
    /\ read \in [Requests -> {"on", "off"}]
    /\ flips \in 0..MaxFlips
    /\ faults \in 0..MaxFaults

Init ==
    /\ count = [k \in Keys |-> 0]
    /\ seen = [k \in Keys |-> 0]
    /\ row = "absent"
    /\ cached = "none"
    /\ timed = {}
    /\ at = [r \in Requests |-> "idle"]
    /\ user \in [Requests -> Users]
    /\ key = [r \in Requests |-> "none"]
    /\ read = [r \in Requests |-> "on"]
    /\ flips = 0
    /\ faults = 0

goto(r, s) == at' = [at EXCEPT ![r] = s]

-----------------------------------------------------------------------------
(* increment_counter: add, else incr, else set *)

\* The address's counter follows a user's; then the request is done.
Bumped(r) ==
    /\ key' = [key EXCEPT ![r] = IF @ \in Users THEN "ip" ELSE "none"]
    /\ goto(r, IF key[r] \in Users THEN "add" ELSE "idle")

Record(k, n) ==
    /\ count' = [count EXCEPT ![k] = n]
    /\ seen' = [seen EXCEPT ![k] = @ + 1]

counter_add(r) ==
    LET k == key[r]
    IN /\ at[r] = "add"
       /\ IF count[k] = 0
          THEN /\ Record(k, 1)
               /\ timed' = timed \union {k}
               /\ Bumped(r)
          ELSE /\ goto(r, "incr")
               /\ UNCHANGED <<counters, timed, key>>
       /\ UNCHANGED <<row, cached, user, read, flips, faults>>

\* incr keeps the timeout, and raises ValueError when the entry has expired.
counter_incr(r) ==
    LET k == key[r]
    IN /\ at[r] = "incr"
       /\ IF count[k] # 0
          THEN Record(k, count[k] + 1) /\ Bumped(r)
          ELSE goto(r, "set") /\ UNCHANGED <<counters, key>>
       /\ UNCHANGED <<row, cached, timed, user, read, flips, faults>>

\* Mutant: the fallback stores the counter without a timeout.
Untimed(k) == timed

SetTimed(k) == timed \union {k}

\* The fallback overwrites whatever was counted since incr failed.
counter_set(r) ==
    LET k == key[r]
    IN /\ at[r] = "set"
       /\ Record(k, 1)
       /\ timed' = SetTimed(k)
       /\ Bumped(r)
       /\ UNCHANGED <<row, cached, user, read, flips, faults>>

-----------------------------------------------------------------------------
(* ThrottledLoginView *)

\* Mutant: one attempt more than the limit.
OverLimit(k) == count[k] > Limit(k)

AtLimit(k) == count[k] >= Limit(k)

login(r, u) ==
    /\ at[r] = "idle"
    /\ user' = [user EXCEPT ![r] = u]
    /\ goto(r, "user")
    /\ UNCHANGED <<counters, row, cached, timed, key, read, flips, faults>>

\* _is_blocked reads the per-user counter and then the address's.
blocked_user(r) ==
    /\ at[r] = "user"
    /\ goto(r, IF AtLimit(user[r]) THEN "idle" ELSE "ip")
    /\ UNCHANGED <<counters, row, cached, timed, user, key, read, flips, faults>>

blocked_ip(r) ==
    /\ at[r] = "ip"
    /\ goto(r, IF AtLimit("ip") THEN "idle" ELSE "auth")
    /\ UNCHANGED <<counters, row, cached, timed, user, key, read, flips, faults>>

\* form_invalid: a wrong password, or a right one of an account without any
\* active organization, which form_valid sends the same way.
form_invalid(r) ==
    /\ at[r] = "auth"
    /\ key' = [key EXCEPT ![r] = user[r]]
    /\ goto(r, "add")
    /\ UNCHANGED <<counters, row, cached, timed, user, read, flips, faults>>

\* form_valid: the address's counter stays.
form_valid(r) ==
    /\ at[r] = "auth"
    /\ count' = [count EXCEPT ![user[r]] = 0]
    /\ seen' = [seen EXCEPT ![user[r]] = 0]
    /\ timed' = timed \ {user[r]}
    /\ goto(r, "idle")
    /\ UNCHANGED <<row, cached, user, key, read, flips, faults>>

-----------------------------------------------------------------------------
(* Upload: flag_enabled, then _enforce_upload_rate *)

upload(r) ==
    /\ at[r] = "idle"
    /\ goto(r, "flag")
    /\ UNCHANGED <<counters, row, cached, timed, user, key, read, flips, faults>>

Decided(r, value) == goto(r, IF value = "on" THEN "rate" ELSE "idle")

flag_cached(r) ==
    /\ at[r] = "flag"
    /\ CASE Override # "unset" -> Decided(r, Override)
         [] Override = "unset" /\ cached # "none" -> Decided(r, cached)
         [] OTHER -> goto(r, "db")
    /\ UNCHANGED <<counters, row, cached, timed, user, key, read, flips, faults>>

\* Without a row the default holds, which is TRUE for the uploads.
flag_read(r) ==
    /\ at[r] = "db"
    /\ read' = [read EXCEPT ![r] = IF row = "off" THEN "off" ELSE "on"]
    /\ goto(r, "fill")
    /\ UNCHANGED <<counters, row, cached, timed, user, key, flips, faults>>

\* The lookup fails: the default, and nothing is cached.
flag_unavailable(r) ==
    /\ at[r] = "db"
    /\ faults < MaxFaults
    /\ faults' = faults + 1
    /\ Decided(r, "on")
    /\ UNCHANGED <<counters, row, cached, timed, user, key, read, flips>>

\* Mutant: the flag is cached for good.
ForGood == timed

FlagTimed == timed \union {"flag"}

\* The value is stored although the row may have changed since.
flag_fill(r) ==
    /\ at[r] = "fill"
    /\ cached' = read[r]
    /\ timed' = FlagTimed
    /\ read' = [read EXCEPT ![r] = "on"]
    /\ Decided(r, read[r])
    /\ UNCHANGED <<counters, row, user, key, flips, faults>>

\* rate_limit_would_exceed, then rate_limit_commit.
enforce_upload_rate(r) ==
    /\ at[r] = "rate"
    /\ IF RateMax > 0 /\ AtLimit("rate")
       THEN goto(r, "idle") /\ UNCHANGED key
       ELSE goto(r, "add") /\ key' = [key EXCEPT ![r] = "rate"]
    /\ UNCHANGED <<counters, row, cached, timed, user, read, flips, faults>>

-----------------------------------------------------------------------------
(* Around the requests *)

expire_counter(k) ==
    /\ count[k] # 0
    /\ k \in timed
    /\ count' = [count EXCEPT ![k] = 0]
    /\ seen' = [seen EXCEPT ![k] = 0]
    /\ timed' = timed \ {k}
    /\ UNCHANGED <<row, cached, at, user, key, read, flips, faults>>

expire_flag ==
    /\ cached # "none"
    /\ "flag" \in timed
    /\ cached' = "none"
    /\ timed' = timed \ {"flag"}
    /\ UNCHANGED <<counters, row, at, user, key, read, flips, faults>>

\* An operator saves or deletes the row in the admin site; the cache is not told.
flip(v) ==
    /\ flips < MaxFlips
    /\ row # v
    /\ row' = v
    /\ flips' = flips + 1
    /\ UNCHANGED <<counters, cached, timed, at, user, key, read, faults>>

-----------------------------------------------------------------------------
Handle(r) ==
    \/ counter_add(r) \/ counter_incr(r) \/ counter_set(r)
    \/ blocked_user(r) \/ blocked_ip(r) \/ form_invalid(r) \/ form_valid(r)
    \/ flag_cached(r) \/ flag_read(r) \/ flag_unavailable(r) \/ flag_fill(r)
    \/ enforce_upload_rate(r)

Arrive(r) == upload(r) \/ \E u \in Users : login(r, u)

Expire == expire_flag \/ \E k \in Keys : expire_counter(k)

Next ==
    \/ \E r \in Requests : Handle(r) \/ Arrive(r)
    \/ Expire
    \/ \E v \in {"absent", "on", "off"} : flip(v)

Spec == Init /\ [][Next]_vars

\* A request that has begun is carried on; an entry with a timeout expires.
FairSpec ==
    /\ Spec
    /\ \A r \in Requests : WF_vars(Handle(r))
    /\ WF_vars(expire_flag)
    /\ \A k \in Keys : WF_vars(expire_counter(k))

-----------------------------------------------------------------------------
\* Peek and increment are apart, and the fallback of increment_counter forgets
\* what was counted before it.  Between two moments without an entry still no
\* more attempts are let through than this: each of N requests can be about to
\* overwrite the counter once, the last of them after all others overshot.
AttemptsBounded ==
    \A k \in Keys : Limit(k) > 0 => seen[k] <= N * Limit(k) + (N * (N - 1)) \div 2

\* A counter that blocks eventually lets through again: no path of
\* increment_counter leaves an entry without a timeout.
BlocksEnd ==
    \A k \in Keys : Limit(k) > 0 => (count[k] >= Limit(k) ~> count[k] < Limit(k))

\* An operator who switches the uploads off, and leaves it at that, has them
\* off: a lookup that read the row before the change may store the old value
\* after it, but not for good.
KillSwitchTakesEffect ==
    Override = "unset" =>
        (<>[](row = "off") => <>[](\A r \in Requests : at[r] # "rate"))

=============================================================================
