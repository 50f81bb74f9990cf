------------------------------- MODULE RateLimit -------------------------------
(***************************************************************************)
(* The rate limiter in front of the API: the token bucket of one client    *)
(* address, kept in Redis and worked by a script, and the middleware that  *)
(* calls it.  Time is counted in seconds; fractions of a token are left    *)
(* out, and so is the handler behind, which takes no token.                *)
(***************************************************************************)
EXTENDS Integers

CONSTANTS Slots,            \* requests under way at a time
          Capacity, Rate,   \* rate_limit_capacity, rate_limit_refill_rate
          MaxTime, MaxLosses    \* bounds

ASSUME RateAssumption ==
    /\ {Capacity, Rate} \subseteq Nat \ {0}
    /\ {MaxTime, MaxLosses} \subseteq Nat

None == -1

VARIABLES
    time,
    tokens, ts,     \* the bucket as it was last written
    written,        \* when it was written, None if there is no key
    clock,          \* per request: the time it sends to the script
    \* history: what is counted from the moment since on, None before it
    since,
    passed,         \* requests the script let through
    late,           \* seconds between their clock and the script, in all
    lost            \* buckets lost with Redis

bucketVars == <<tokens, ts, written>>
countVars == <<since, passed, late, lost>>
vars == <<time, bucketVars, clock, countVars>>

Init ==
    /\ time = 0
    /\ tokens = 0 /\ ts = 0 /\ written = None
    /\ clock = [r \in Slots |-> None]
    /\ since = None /\ passed = 0 /\ late = 0 /\ lost = 0

-----------------------------------------------------------------------------
(* The script                                                              *)

Least(a, b) == IF a < b THEN a ELSE b
CeilDiv(a, b) == (a + b - 1) \div b

\* The expiry of the key; Redis has no key any more once it is over.
Lifetime == CeilDiv(Capacity, Rate) + 1
Present == written # None /\ time < written + Lifetime

Counted(x, more) == IF since = None THEN x ELSE x + more

\* Mutant: nothing limits the bucket to its capacity.
RefilledUncapped(n) ==
    IF Present THEN tokens + (IF n > ts THEN (n - ts) * Rate ELSE 0) ELSE Capacity

\* The tokens a caller finds whose clock shows n.
Refilled(n) ==
    IF Present
    THEN Least(Capacity, tokens + (IF n > ts THEN (n - ts) * Rate ELSE 0))
    ELSE Capacity

-----------------------------------------------------------------------------
(* The middleware                                                          *)

Tick ==
    /\ time < MaxTime
    /\ time' = time + 1
    /\ UNCHANGED <<bucketVars, clock, countVars>>

\* A request comes in and the clock is read.
Arrive(r) ==
    /\ clock[r] = None
    /\ clock' = [clock EXCEPT ![r] = time]
    /\ UNCHANGED <<time, bucketVars, countVars>>

\* evalsha: Redis runs the script, perhaps later than that and after requests
\* that came later.  If its answer is lost the request goes through whatever
\* the script decided.
Consume(r) ==
    /\ clock[r] # None
    /\ LET found == Refilled(clock[r]) IN
         /\ tokens' = (IF found >= 1 THEN found - 1 ELSE found)
         /\ \/ passed' = Counted(passed, IF found >= 1 THEN 1 ELSE 0)
            \/ UNCHANGED passed
    /\ ts' = clock[r] /\ written' = time
    /\ late' = Counted(late, time - clock[r])
    /\ clock' = [clock EXCEPT ![r] = None]
    /\ UNCHANGED <<time, since, lost>>

\* Fail open: Redis cannot be reached or does not know the script, which a
\* process loads only once (_script_sha), so that after a restart of Redis it
\* fails every time.  A process that dies takes its requests along likewise.
FailOpen(r) ==
    /\ clock[r] # None
    /\ clock' = [clock EXCEPT ![r] = None]
    /\ UNCHANGED <<time, bucketVars, countVars>>

\* Redis restarts without what it had of the bucket.
RedisRestarts ==
    /\ lost < MaxLosses
    /\ written' = None /\ lost' = Counted(lost, 1)
    /\ UNCHANGED <<time, tokens, ts, clock, since, passed, late>>

\* Not a step of the code: the count begins, at any moment.
Watch ==
    /\ since = None
    /\ since' = time
    /\ UNCHANGED <<time, bucketVars, clock, passed, late, lost>>

Next ==
    \/ Tick \/ RedisRestarts \/ Watch
    \/ \E r \in Slots : Arrive(r) \/ Consume(r) \/ FailOpen(r)

Spec == Init /\ [][Next]_vars

-----------------------------------------------------------------------------
(* The values of the variables; no clock is ahead of time.                 *)
TypeOK ==
    /\ time \in Nat /\ since \in {None} \cup 0..time
    /\ tokens \in 0..Capacity /\ ts \in 0..time
    /\ written \in {None} \cup 0..time
    /\ written # None => ts <= written
    /\ clock \in [Slots -> {None} \cup 0..time]
    /\ {passed, late, lost} \subseteq Nat
    /\ since = None => passed = 0 /\ late = 0 /\ lost = 0

(* What a token bucket promises: in any interval it lets no more through   *)
(* than its capacity and what is refilled meanwhile.  Two things add to    *)
(* that here: a script that runs late puts the bucket's clock back, so     *)
(* that the same seconds are refilled again, and a bucket lost is full.    *)
RateBound ==
    since # None => passed <= Capacity * (1 + lost) + Rate * (time - since + late)

(* Why it holds: what was let through and what is left to let through stay *)
(* within what was refilled up to the bucket's own clock.                  *)
Budget == Capacity * (1 + lost) + Rate * (ts - since + late)
InBudget ==
    passed > 0 => /\ tokens + passed <= Budget
                  /\ written = None => Capacity + passed <= Budget
=============================================================================
