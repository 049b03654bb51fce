------------------------------- MODULE ApiMeter -------------------------------
(***************************************************************************)
(* Limits and metering of one API key: the rate limiter and the meter      *)
(* (core/ratelimit.py) under enforce_api_limits (api/deps.py), and the     *)
(* nightly roll-up to the usage table (core/tasks.py,                      *)
(* db/repositories.py).  The guard per address comes first and counts      *)
(* nothing of the key's, so it is left out.                                *)
(***************************************************************************)
EXTENDS Integers, FiniteSets

CONSTANTS Callers,
          Rate, Window,    \* max_requests in window_seconds
          Quota, Day,      \* quota_limit, and the length of a day
          MaxNow, MaxCalls

VARIABLES
    redis,     \* _get_redis() answers, throughout, or there is none
    now,
    bucket,    \* the limiter's counters by window, in Redis
    passed,    \* the requests it let through, each with its second: what it keeps when it
               \* is in memory, and history with Redis
    meter,     \* the meter's counters by day, in Redis
    memory,    \* and in memory, where there is one day only
    usage,     \* api_key_usage by day
    rolled,    \* the day of the last roll-up
    at, number, when, \* a request: where it is, what it is counted as, the second it was checked
    served,    \* history: what the requests that were served were counted as
    received,  \* history: requests counted, by day
    raced,     \* history: two requests have been between reading a window and counting in it
    calls

vars == <<redis, now, bucket, passed, meter, memory, usage, rolled, at, number, when, served,
          received, raced, calls>>

Seconds == 0 .. MaxNow
\* A request by its place among all, the day it is counted on and its number there.
Uncounted == [id |-> 0, day |-> 0, n |-> 0]
Days == 0 .. MaxNow \div Day
Today == now \div Day

Init ==
    /\ redis \in BOOLEAN
    /\ now = 0 /\ calls = 0 /\ raced = FALSE /\ rolled = -1
    /\ bucket = [b \in 0 .. MaxNow \div Window |-> 0]
    /\ passed = {} /\ served = {}
    /\ meter = [d \in Days |-> 0] /\ usage = [d \in Days |-> 0] /\ received = [d \in Days |-> 0]
    /\ memory = [day |-> 0, n |-> 0]
    /\ at = [c \in Callers |-> "idle"]
    /\ number = [c \in Callers |-> Uncounted]
    /\ when = [c \in Callers |-> 0]

clock == <<redis, now>>
limiter == <<bucket, passed, raced>>
meters == <<meter, memory, usage, rolled, received>>

Go(c, there) == at' = [at EXCEPT ![c] = there]
Over(c) == Go(c, "idle") /\ number' = [number EXCEPT ![c] = Uncounted] /\ when' = [when EXCEPT ![c] = 0]
Pass(c, second) == passed' = passed \union {<<number[c], second>>}
Recent(t) == Cardinality({p \in passed : t - Window < p[2] /\ p[2] <= t})

-----------------------------------------------------------------------------
(* A request.                                                              *)

\* The counter of a day, where the meter keeps it now.
Counter(d) == IF redis THEN meter[d] ELSE IF memory.day = d THEN memory.n ELSE 0

\* Mutant: the number of a request is what the counter was before it.
NumberBefore == Counter(Today)

\* What INCR returns.
NumberOf == Counter(Today) + 1

\* count_request, before any limit is looked at.
Count(c) ==
    /\ at[c] = "idle" /\ calls < MaxCalls
    /\ calls' = calls + 1
    /\ number' = [number EXCEPT ![c] = [id |-> calls + 1, day |-> Today, n |-> NumberOf]]
    /\ IF redis THEN meter' = [meter EXCEPT ![Today] = @ + 1] /\ UNCHANGED memory
       ELSE memory' = [day |-> Today, n |-> Counter(Today) + 1] /\ UNCHANGED meter
    /\ received' = [received EXCEPT ![Today] = @ + 1]
    /\ Go(c, "counted")
    /\ UNCHANGED <<clock, limiter, usage, rolled, when, served>>

\* Mutant: a fixed window, without the one before it.
Current(t) == bucket[t \div Window] * Window

\* _estimate, times Window: of the window before the current one counts the share
\* that is less than a window ago.
Estimate(t) ==
    LET b == t \div Window
    IN (IF b = 0 THEN 0 ELSE bucket[b - 1] * (Window - (t % Window))) + bucket[b] * Window

\* _redis_check reads the two windows ...
CheckRead(c) ==
    /\ at[c] = "counted" /\ redis
    /\ IF Estimate(now) + Window > Rate * Window THEN Over(c) /\ UNCHANGED raced
       ELSE /\ Go(c, "read")
            /\ when' = [when EXCEPT ![c] = now]
            /\ raced' = (raced \/ \E d \in Callers : at[d] = "read")
            /\ UNCHANGED number
    /\ UNCHANGED <<clock, bucket, passed, meters, served, calls>>

\* ... and increments that of the time it began.
CheckMark(c) ==
    /\ at[c] = "read"
    /\ bucket' = [bucket EXCEPT ![when[c] \div Window] = @ + 1]
    /\ Pass(c, when[c])
    /\ Go(c, "checked")
    /\ UNCHANGED <<clock, raced, meters, number, when, served, calls>>

\* _memory_check, under its lock.
CheckMemory(c) ==
    /\ at[c] = "counted" /\ ~redis
    /\ IF Recent(now) >= Rate THEN Over(c) /\ UNCHANGED passed
       ELSE /\ Go(c, "checked")
            /\ when' = [when EXCEPT ![c] = now]
            /\ Pass(c, now)
            /\ UNCHANGED number
    /\ UNCHANGED <<clock, bucket, raced, meters, served, calls>>

\* The request that goes beyond the quota is refused.
Serve(c) ==
    /\ at[c] = "checked"
    /\ Over(c)
    /\ served' = IF number[c].n > Quota THEN served ELSE served \union {number[c]}
    /\ UNCHANGED <<clock, limiter, meters, calls>>

-----------------------------------------------------------------------------
(* The roll-up, time and Redis.                                            *)

\* active_keys: every day that has a counter.
ActiveDays == IF redis THEN {d \in Days : meter[d] > 0} ELSE {memory.day}

\* rollup_api_key_usage, once a night: upsert_usage adds the counter to the row.
RollUp ==
    /\ rolled < Today
    /\ rolled' = Today
    /\ usage' = [d \in Days |-> usage[d] + IF d \in ActiveDays THEN Counter(d) ELSE 0]
    /\ UNCHANGED <<clock, limiter, meter, memory, received, at, number, when, served, calls>>

\* Counters live for 48 hours from their first request.  No night goes without its
\* roll-up.
Tick ==
    /\ now < MaxNow
    /\ (now + 1) \div Day > Today => rolled = Today
    /\ now' = now + 1
    /\ \E gone \in {{}, {d \in Days : now + 1 >= (d + 2) * Day}} :
          /\ {d \in Days : now + 1 >= (d + 3) * Day} \subseteq gone
          /\ meter' = [d \in Days |-> IF d \in gone THEN 0 ELSE meter[d]]
    /\ UNCHANGED <<redis, limiter, memory, usage, rolled, received, at, number, when, served, calls>>

Next ==
    \/ \E c \in Callers : Count(c) \/ CheckRead(c) \/ CheckMark(c) \/ CheckMemory(c) \/ Serve(c)
    \/ RollUp \/ Tick

-----------------------------------------------------------------------------
(* Properties.                                                             *)

\* No more than the quota is served of a day's requests, and in no window of time
\* twice the rate gets through, also across the seam of two windows; the rate exactly
\* when the limiter is in memory.  Not, for the rate, when two requests read the
\* windows before either counted.
QuotaHolds == \A d \in Days : Cardinality({r \in served : r.day = d}) <= Quota
RateHolds == ~raced => \A t \in Seconds : Recent(t) < (IF redis THEN 2 * Rate ELSE Rate + 1)
LimitsHold == QuotaHolds /\ RateHolds

\* A roll-up every night loses no request of a day that is over.
NoDayIsLost ==
    \A d \in Days : redis /\ rolled > d => usage[d] >= received[d]

\* ratelimit.py:203-205: the nightly roll-up copies the counters to the rows.
UsageIsExact == \A d \in Days : usage[d] <= received[d]
=============================================================================
