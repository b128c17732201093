------------------------------ MODULE RateLimit --------------------------------
(***************************************************************************)
(* The rate limiter of one server process (core/security/ratelimit.py):    *)
(* a token bucket kept in Redis by a script, which falls back to a bucket  *)
(* in the process's memory when Redis fails, and the edge trigger that     *)
(* reports the failure and the recovery.  With Redis the calls run in      *)
(* threads; without it, one after the other in the event loop.             *)
(*                                                                         *)
(* One bucket key.  Tokens are counted in parts, of which a call takes     *)
(* Cost, so that the refill per unit of time need not be a whole token.    *)
(***************************************************************************)
EXTENDS Integers

CONSTANTS
    Calls,     \* threads that call the limiter
    Capacity,  \* parts a full bucket holds
    Cost,      \* parts of a token
    Refill,    \* parts refilled per unit of time
    Margin,    \* life of a key in Redis beyond twice its refill (60 s)
    MaxTime,   \* bound: how long the system is observed
    MaxBack    \* bound: by how much the wall clock is set back in all

ASSUME BucketAssumption ==
    /\ Capacity \in Nat /\ Cost \in Nat \ {0} /\ Refill \in Nat \ {0} /\ Margin \in Nat \ {0}
ASSUME TimeAssumption == MaxTime \in Nat /\ MaxBack \in Nat

VARIABLES
    time,     \* real time, which the monotonic clock shows
    back,     \* by how much the wall clock was set back so far
    backend,  \* what build_limiter chose: "redis" or "memory"
    redis,    \* the bucket in Redis
    memory,   \* the bucket in memory
    failing,  \* FailOpenLimiter._failing
    call      \* the calls

vars == <<time, back, backend, redis, memory, failing, call>>

\* A bucket: tokens and time of the last call, and when the key expires; further
\* the real time of its last use, and what the rate allows beyond the calls it let
\* through: its capacity and the refill of all the time since its first use.
Buckets == [used : BOOLEAN, tokens : 0..Capacity, ts : Int, exp : Nat,
            last : Nat, allowed : Int]

NoBucket == [used |-> FALSE, tokens |-> 0, ts |-> 0, exp |-> 0, last |-> 0,
             allowed |-> Capacity]

PCs == {"idle", "script", "fallback", "bucket", "success", "failure"}

TypeOK ==
    /\ time \in Nat
    /\ back \in Nat
    /\ backend \in {"redis", "memory"}
    /\ redis \in Buckets
    /\ memory \in Buckets
    /\ failing \in BOOLEAN
    /\ call \in [Calls -> [pc : PCs, now : Int, read : Nat]]

\* build_limiter: Redis if it answers a ping.
Init ==
    /\ time = 0
    /\ back = 0
    /\ backend \in {"redis", "memory"}
    /\ redis = NoBucket
    /\ memory = NoBucket
    /\ failing = FALSE
    /\ call = [c \in Calls |-> [pc |-> "idle", now |-> 0, read |-> 0]]

--------------------------------------------------------------------------------
(* The bucket *)

Wall == time - back

AtLeast(m, n) == IF m > n THEN m ELSE n
AtMost(m, n) == IF m < n THEN m ELSE n

\* What is in the bucket some time after it held tokens; a clock set back takes
\* away what there is, and no more.
Filled(tokens, since) == AtLeast(0, AtMost(Capacity, tokens + since * Refill))

\* Mutant of Take: the time of the call is not kept.
TakeKeepingTime(b, now, anew) ==
    LET tokens == IF anew THEN Capacity ELSE Filled(b.tokens, now - b.ts)
        taken == IF tokens >= Cost THEN Cost ELSE 0
    IN [b EXCEPT !.used = TRUE,
                 !.tokens = tokens - taken,
                 !.ts = IF anew THEN now ELSE @,
                 !.allowed = @ - taken]

\* A call with a reading of the clock: it is let through if there is a token.
Take(b, now, anew) ==
    LET tokens == IF anew THEN Capacity ELSE Filled(b.tokens, now - b.ts)
        taken == IF tokens >= Cost THEN Cost ELSE 0
    IN [b EXCEPT !.used = TRUE,
                 !.tokens = tokens - taken,
                 !.ts = now,
                 !.allowed = @ - taken]

\* The rate allows the refill of the time since the last call.  A call that read
\* the clock and comes to the bucket after another, or after its end, may count the
\* time since its reading again, and the corrections of the clock since.
Allow(b, old, read, corrected, anew) ==
    LET late == IF anew \/ old.last >= read THEN time - read + corrected ELSE 0
        passed == time - (IF old.used THEN old.last ELSE read)
    IN [b EXCEPT !.last = time, !.allowed = @ + Refill * (passed + late)]

\* Mutant of Ttl: half a refill, without the margin.
TtlHalf == Capacity \div (2 * Refill)

\* How long a key lives after a call: twice the time that fills the bucket, in
\* whole units, and a margin.
Ttl == (2 * Capacity) \div Refill + Margin

\* There is no key, or it has expired.
Expired == ~redis.used \/ time >= redis.exp

--------------------------------------------------------------------------------
(* A call *)

At(c, pc) == call[c].pc = pc
Goto(c, pc) == call' = [call EXCEPT ![c] = [pc |-> pc, now |-> 0, read |-> 0]]

\* RedisTokenBucket.allow reads the wall clock.
ReadWall(c) ==
    /\ At(c, "idle")
    /\ backend = "redis"
    /\ call' = [call EXCEPT ![c] = [pc |-> "script", now |-> Wall, read |-> time]]
    /\ UNCHANGED <<time, back, backend, redis, memory, failing>>

RunScript(c) ==
    LET now == call[c].now
        read == call[c].read
        bucket == Allow(Take(redis, now, Expired), redis, read, back - (read - now), Expired)
    IN redis' = [bucket EXCEPT !.exp = time + Ttl]

\* The script runs and its answer comes.
Script(c) ==
    /\ At(c, "script")
    /\ RunScript(c)
    /\ Goto(c, "success")
    /\ UNCHANGED <<time, back, backend, memory, failing>>

\* No connection, or no answer in time, whether the script ran or not.
RedisFails(c) ==
    /\ At(c, "script")
    /\ RunScript(c) \/ UNCHANGED redis
    /\ Goto(c, "fallback")
    /\ UNCHANGED <<time, back, backend, memory, failing>>

\* InMemoryTokenBucket.allow reads the monotonic clock before it has the lock.
ReadClock(c) ==
    /\ \/ At(c, "fallback")
       \/ backend = "memory" /\ \A d \in Calls : At(d, "idle")
    /\ call' = [call EXCEPT ![c] = [pc |-> "bucket", now |-> time, read |-> time]]
    /\ UNCHANGED <<time, back, backend, redis, memory, failing>>

TakeInMemory(c) ==
    /\ At(c, "bucket")
    /\ memory' = LET now == call[c].now
                     anew == ~memory.used
                 IN Allow(Take(memory, now, anew), memory, now, 0, anew)
    /\ Goto(c, IF backend = "memory" THEN "success" ELSE "failure")
    /\ UNCHANGED <<time, back, backend, redis, failing>>

\* FailOpenLimiter, after a failure: the first one is reported, by this edge.
ReportFailure(c) ==
    /\ At(c, "failure")
    /\ failing' = TRUE
    /\ Goto(c, "idle")
    /\ UNCHANGED <<time, back, backend, redis, memory>>

\* Mutant of ReportSuccess: a recovery is not noticed.
ReportNothing(c) ==
    /\ At(c, "success")
    /\ Goto(c, "idle")
    /\ UNCHANGED <<time, back, backend, redis, memory, failing>>

\* After a success: the recovery is reported, if there is one.
ReportSuccess(c) ==
    /\ At(c, "success")
    /\ failing' = FALSE
    /\ Goto(c, "idle")
    /\ UNCHANGED <<time, back, backend, redis, memory>>

--------------------------------------------------------------------------------
(* The world *)

Tick ==
    /\ time < MaxTime
    /\ time' = time + 1
    /\ UNCHANGED <<back, backend, redis, memory, failing, call>>

\* The wall clock is corrected.
SetBack ==
    /\ back < MaxBack
    /\ back' = back + 1
    /\ UNCHANGED <<time, backend, redis, memory, failing, call>>

--------------------------------------------------------------------------------

Begin(c) == ReadWall(c) \/ (At(c, "idle") /\ ReadClock(c))
Continue(c) ==
    \/ Script(c) \/ RedisFails(c) \/ (At(c, "fallback") /\ ReadClock(c))
    \/ TakeInMemory(c) \/ ReportFailure(c) \/ ReportSuccess(c)

Next == Tick \/ SetBack \/ \E c \in Calls : Begin(c) \/ Continue(c)

\* A thread that has begun goes on.
Fairness == \A c \in Calls : WF_vars(Continue(c))

Spec == Init /\ [][Next]_vars
FairSpec == Spec /\ Fairness

--------------------------------------------------------------------------------
(* Properties *)

\* A bucket lets through no more than its capacity and the refill of the time
\* since its first call; except for the time by which calls came late to it.
RateKept(b) == b.allowed >= 0

\* The bucket in memory, of which the clock is read before the lock is taken
\* (ratelimit.py:75).
MemoryRate == RateKept(memory)

\* The bucket in Redis, whose clock is set back and whose key expires: a bucket
\* that comes back full had been filled by then (ratelimit.py:109).
RedisRate == RateKept(redis)

\* If Redis answers every call from some time on, or none, what was reported last
\* becomes true and stays so, in whatever order calls reach the report
\* (ratelimit.py:153).
ReportIsTrue ==
    LET succeeds == \E c \in Calls : At(c, "success")
        fails == \E c \in Calls : At(c, "failure")
    IN /\ (<>[]~fails /\ []<>succeeds) => <>[]~failing
       /\ (<>[]~succeeds /\ []<>fails) => <>[]failing
================================================================================
