------------------------------ MODULE DigestClaim ------------------------------
(***************************************************************************)
(* The weekly digest (core/tasks.py): a cron of rq-scheduler or a thread   *)
(* of every API process calls schedule_weekly_digests in the digest hour;  *)
(* whoever gets the claim enqueues one mail per profile.  The claim is one *)
(* key in Redis, or a variable of the process when there is no Redis.      *)
(*                                                                         *)
(* Time is the digest hour of one week after the other: the claim's 48     *)
(* hours are longer than the hour and shorter than the week.               *)
(***************************************************************************)
EXTENDS Integers

CONSTANTS Callers, Processes, ProcessOf(_), \* who calls, and the process it is in
          Profiles,                         \* profiles with a weekly preference
          MaxWeek, MaxHiccups, MaxCalls

VARIABLES
    redis,     \* there is a Redis (REDIS_URL)
    week,
    claim,     \* digest:last_scheduled_iso: the week it was set, or 0
    day,       \* _digest_run_day of each process
    at, todo,  \* where a caller is, and the profiles it still has to enqueue
    calls,     \* calls so far
    wants,     \* the profiles that still have a weekly preference and an address
    queued,    \* queued[p]: digest jobs of p in the queue
    events,    \* the email_events of this week, by profile
    hiccups

vars == <<redis, week, claim, day, at, todo, calls, wants, queued, events, hiccups>>

Nothing == [p \in Profiles |-> 0]

Init ==
    /\ redis \in BOOLEAN
    /\ week = 1 /\ claim = 0 /\ calls = 0 /\ hiccups = 0
    /\ day = [q \in Processes |-> 0]
    /\ at = [c \in Callers |-> "idle"] /\ todo = [c \in Callers |-> {}]
    /\ wants = Profiles /\ queued = Nothing /\ events = Nothing

Go(c, there) == at' = [at EXCEPT ![c] = there]

\* start_digest_scheduler's _daily_check in the digest hour, or the cron.
Call(c) ==
    /\ at[c] = "idle" /\ calls < MaxCalls
    /\ calls' = calls + 1
    /\ Go(c, "claim")
    /\ UNCHANGED <<redis, week, claim, day, todo, wants, queued, events, hiccups>>

\* _claim_digest_run: SET NX, or the guard of the process when there is no Redis or
\* Redis raises.
ClaimInProcess(c) ==
    IF day[ProcessOf(c)] = week THEN Go(c, "idle") /\ UNCHANGED day
    ELSE Go(c, "select") /\ day' = [day EXCEPT ![ProcessOf(c)] = week]

Claim(c) ==
    /\ at[c] = "claim"
    /\ \/ redis /\ claim = 0 /\ claim' = week /\ Go(c, "select") /\ UNCHANGED <<day, hiccups>>
       \/ redis /\ claim # 0 /\ Go(c, "idle") /\ UNCHANGED <<claim, day, hiccups>>
       \/ ~redis /\ ClaimInProcess(c) /\ UNCHANGED <<claim, hiccups>>
       \/ redis /\ hiccups < MaxHiccups /\ hiccups' = hiccups + 1 /\ ClaimInProcess(c) /\ UNCHANGED claim
    /\ UNCHANGED <<redis, week, todo, calls, wants, queued, events>>

\* _schedule_weekly_digests: the select may raise, and then the claim is released.
Select(c) ==
    /\ at[c] = "select"
    /\ \/ Go(c, "enqueue") /\ todo' = [todo EXCEPT ![c] = wants]
       \/ Go(c, "release") /\ UNCHANGED todo
    /\ UNCHANGED <<redis, week, claim, day, calls, wants, queued, events, hiccups>>

\* Mutant: an enqueue that fails ends the batch like any other failure.
EnqueueOrFail(c) ==
    /\ at[c] = "enqueue" /\ todo[c] # {}
    /\ \E p \in todo[c] :
          \/ todo' = [todo EXCEPT ![c] = @ \ {p}] /\ queued' = [queued EXCEPT ![p] = @ + 1] /\ UNCHANGED at
          \/ Go(c, "release") /\ UNCHANGED <<queued, todo>>
    /\ UNCHANGED <<redis, week, claim, day, calls, wants, events, hiccups>>

\* One profile after the other; one that cannot be enqueued is skipped.
Enqueue(c) ==
    /\ at[c] = "enqueue" /\ todo[c] # {}
    /\ \E p \in todo[c] :
          /\ todo' = [todo EXCEPT ![c] = @ \ {p}]
          /\ queued' = [queued EXCEPT ![p] = @ + 1] \/ UNCHANGED queued
    /\ UNCHANGED <<redis, week, claim, day, at, calls, wants, events, hiccups>>

Done(c) ==
    /\ at[c] = "enqueue" /\ todo[c] = {}
    /\ Go(c, "idle")
    /\ UNCHANGED <<redis, week, claim, day, todo, calls, wants, queued, events, hiccups>>

\* send_digest_job: nothing is sent to a profile that has gone or wants none any
\* more; the mail is recorded whether the provider took it or not, unless the job
\* raises, which it swallows.
Deliver(p) ==
    /\ queued[p] > 0
    /\ queued' = [queued EXCEPT ![p] = @ - 1]
    /\ \/ p \in wants /\ events' = [events EXCEPT ![p] = @ + 1]
       \/ UNCHANGED events
    /\ UNCHANGED <<redis, week, claim, day, at, todo, calls, wants, hiccups>>

Unsubscribe(p) ==
    /\ p \in wants
    /\ wants' = wants \ {p}
    /\ UNCHANGED <<redis, week, claim, day, at, todo, calls, queued, events, hiccups>>

\* _release_digest_run deletes the key, whoever has set it, and clears the guard.
Release(c) ==
    /\ at[c] = "release"
    /\ Go(c, "idle")
    /\ claim' = 0
    /\ day' = [day EXCEPT ![ProcessOf(c)] = 0]
    /\ todo' = [todo EXCEPT ![c] = {}]
    /\ UNCHANGED <<redis, week, calls, wants, queued, events, hiccups>>

\* The process of c dies; what it has claimed in Redis stays claimed.
Die(c) ==
    /\ at[c] # "idle"
    /\ at' = [d \in Callers |-> IF ProcessOf(d) = ProcessOf(c) THEN "idle" ELSE at[d]]
    /\ todo' = [d \in Callers |-> IF ProcessOf(d) = ProcessOf(c) THEN {} ELSE todo[d]]
    /\ day' = [day EXCEPT ![ProcessOf(c)] = 0]
    /\ UNCHANGED <<redis, week, claim, calls, wants, queued, events, hiccups>>

NextWeek ==
    /\ week < MaxWeek /\ queued = Nothing /\ \A c \in Callers : at[c] = "idle"
    /\ week' = week + 1
    /\ claim' = 0 /\ calls' = 0 /\ events' = Nothing
    /\ UNCHANGED <<redis, day, at, todo, wants, queued, hiccups>>

Next ==
    \/ \E c \in Callers : Call(c) \/ Claim(c) \/ Select(c) \/ Enqueue(c) \/ Done(c) \/ Release(c) \/ Die(c)
    \/ \E p \in Profiles : Deliver(p) \/ Unsubscribe(p)
    \/ NextWeek

-----------------------------------------------------------------------------
(* Properties.                                                             *)

\* However many processes and crons call, fail half-way or die, a profile gets one
\* digest a week, as long as Redis answers.
OneDigestAWeek ==
    \A p \in Profiles : redis /\ hiccups = 0 => queued[p] + events[p] <= 1
=============================================================================
