-------------------------------- MODULE RqQueue --------------------------------
(***************************************************************************)
(* The job queue when there is a Redis (core/tasks.py, the rq branches):   *)
(* pipeline crawls and supervisor searches run in worker processes, the    *)
(* API only sees their rq status, and a cancel is a key in Redis that the  *)
(* crawl polls (core/cancel.py, RedisToken).                               *)
(*                                                                         *)
(* rq itself is external: a status per job, a queue, a retry that waits,   *)
(* and a registry of failed jobs that keeps the job and its identifier.    *)
(***************************************************************************)
EXTENDS Integers

CONSTANTS Jobs, Supervisors,  \* job identifiers; those of supervisor searches
          Workers, NoWorker,
          MaxRetries,         \* MAX_PIPELINE_RETRIES
          Checks,             \* how often a crawl asks its token (once per source)
          MaxRequeues, MaxHiccups  \* bounds of the model

VARIABLES
    status,    \* the rq status of a job, "none" before it exists, "expired" after its TTL
    retries,   \* rq attempts left
    flag,      \* the keys astra:cancel:<job> in Redis
    runner,    \* the worker that runs a job, or NoWorker
    step,      \* sources fetched by the running attempt
    cancelled, \* RedisToken._cancelled of the running attempt
    stored,    \* "none", or what the last attempt to store left: "part" or "all"
    asking,    \* the status cancel_job has read of a job and not yet acted on
    obeyed,    \* history: an attempt of this enqueue has stopped for a cancel
    requeues, hiccups

vars == <<status, retries, flag, runner, step, cancelled, stored, asking, obeyed, requeues, hiccups>>

Init ==
    /\ status = [j \in Jobs |-> "none"]
    /\ retries = [j \in Jobs |-> 0]
    /\ flag = {} /\ obeyed = {}
    /\ runner = [j \in Jobs |-> NoWorker]
    /\ step = [j \in Jobs |-> 0]
    /\ cancelled = [j \in Jobs |-> FALSE]
    /\ stored = [j \in Jobs |-> "none"]
    /\ asking = [j \in Jobs |-> "none"]
    /\ requeues = 0 /\ hiccups = 0

idle == <<flag, asking, obeyed, requeues, hiccups>>

\* enqueue_pipeline_job and enqueue_supervisor_job: a fresh identifier; only
\* crawls are retried.
Enqueue(j) ==
    /\ status[j] = "none"
    /\ status' = [status EXCEPT ![j] = "queued"]
    /\ retries' = [retries EXCEPT ![j] = IF j \in Supervisors THEN 0 ELSE MaxRetries]
    /\ UNCHANGED <<runner, step, cancelled, stored, idle>>

\* A worker takes a queued job and builds its token (_rq_cancel_token).
Begin(w, j) ==
    /\ status[j] = "queued" /\ \A i \in Jobs : runner[i] # w
    /\ status' = [status EXCEPT ![j] = "started"]
    /\ runner' = [runner EXCEPT ![j] = w]
    /\ step' = [step EXCEPT ![j] = 0]
    /\ cancelled' = [cancelled EXCEPT ![j] = FALSE]
    /\ UNCHANGED <<retries, stored, idle>>

RunJob(j) == runner[j] # NoWorker /\ step[j] < Checks

\* RedisToken.is_cancelled between two sources.  A supervisor search has no job_id
\* here and so no token.
Poll(j) ==
    /\ RunJob(j) /\ ~cancelled[j]
    /\ IF j \in flag /\ j \notin Supervisors
       THEN /\ cancelled' = [cancelled EXCEPT ![j] = TRUE]
            /\ step' = [step EXCEPT ![j] = Checks]
            /\ obeyed' = obeyed \cup {j}
       ELSE /\ step' = [step EXCEPT ![j] = @ + 1]
            /\ UNCHANGED <<cancelled, obeyed>>
    /\ UNCHANGED <<status, retries, flag, runner, stored, asking, requeues, hiccups>>

\* A check that Redis does not answer counts as "not cancelled".
PollBlind(j) ==
    /\ RunJob(j) /\ j \notin Supervisors /\ hiccups < MaxHiccups
    /\ step' = [step EXCEPT ![j] = @ + 1]
    /\ hiccups' = hiccups + 1
    /\ UNCHANGED <<status, retries, flag, runner, cancelled, stored, asking, obeyed, requeues>>

\* _persist_records, then the result is returned and rq records it; the status of
\* a cancelled crawl is "finished" as well.
Store(j) ==
    /\ runner[j] # NoWorker /\ step[j] = Checks
    /\ stored' = [stored EXCEPT ![j] = IF cancelled[j] THEN "part" ELSE "all"]
    /\ step' = [step EXCEPT ![j] = Checks + 1]
    /\ UNCHANGED <<status, retries, runner, cancelled, idle>>

Finish(j) ==
    /\ runner[j] # NoWorker /\ step[j] = Checks + 1
    /\ status' = [status EXCEPT ![j] = "finished"]
    /\ runner' = [runner EXCEPT ![j] = NoWorker]
    /\ UNCHANGED <<retries, step, cancelled, stored, idle>>

\* Mutant: the attempt that ends takes its cancel flag with it.
RaiseAndClear(j) ==
    /\ runner[j] # NoWorker /\ step[j] <= Checks
    /\ runner' = [runner EXCEPT ![j] = NoWorker]
    /\ status' = [status EXCEPT ![j] = IF retries[j] > 0 THEN "scheduled" ELSE "failed"]
    /\ retries' = [retries EXCEPT ![j] = IF @ > 0 THEN @ - 1 ELSE 0]
    /\ flag' = flag \ {j}
    /\ UNCHANGED <<step, cancelled, stored, asking, obeyed, requeues, hiccups>>

\* The job raises, also when it stores: rq waits and retries, or the job goes to
\* the failed registry.
Raise(j) ==
    /\ runner[j] # NoWorker /\ step[j] <= Checks
    /\ runner' = [runner EXCEPT ![j] = NoWorker]
    /\ status' = [status EXCEPT ![j] = IF retries[j] > 0 THEN "scheduled" ELSE "failed"]
    /\ retries' = [retries EXCEPT ![j] = IF @ > 0 THEN @ - 1 ELSE 0]
    /\ UNCHANGED <<step, cancelled, stored, idle>>

RetryDue(j) ==
    /\ status[j] = "scheduled"
    /\ status' = [status EXCEPT ![j] = "queued"]
    /\ UNCHANGED <<retries, runner, step, cancelled, stored, idle>>

\* cancel_job: the status is fetched, and acted on a moment later.
CancelRead(j) ==
    /\ asking[j] = "none" /\ status[j] \in {"queued", "started"}
    /\ asking' = [asking EXCEPT ![j] = status[j]]
    /\ UNCHANGED <<status, retries, flag, runner, step, cancelled, stored, obeyed, requeues, hiccups>>

\* A queued job is dropped, though a worker may have taken it since; for a started
\* one the flag is set, though it may have ended; Redis may refuse.
CancelAct(j) ==
    /\ asking[j] # "none"
    /\ asking' = [asking EXCEPT ![j] = "none"]
    /\ \/ /\ asking[j] = "queued"
          /\ status' = [status EXCEPT ![j] = IF @ \in {"queued", "started"} THEN "canceled" ELSE @]
          /\ UNCHANGED <<flag, hiccups>>
       \/ asking[j] = "started" /\ flag' = flag \cup {j} /\ UNCHANGED <<status, hiccups>>
       \/ asking[j] = "started" /\ hiccups < MaxHiccups /\ hiccups' = hiccups + 1 /\ UNCHANGED <<status, flag>>
    /\ UNCHANGED <<retries, runner, step, cancelled, stored, obeyed, requeues>>

\* retry_job: the failed job is queued again under the same identifier, and a
\* cancel flag of before is still there; there are no retries left in it.
Requeue(j) ==
    /\ status[j] = "failed" /\ requeues < MaxRequeues
    /\ requeues' = requeues + 1
    /\ status' = [status EXCEPT ![j] = "queued"]
    /\ obeyed' = obeyed \ {j}
    /\ UNCHANGED <<retries, flag, runner, step, cancelled, stored, asking, hiccups>>

\* CANCEL_TTL_S is longer than a run, result_ttl and failure_ttl than a poll.
Expire(j) ==
    /\ status[j] \in {"finished", "failed", "canceled"} /\ runner[j] = NoWorker
    /\ \/ flag' = flag \ {j} /\ UNCHANGED status
       \/ status' = [status EXCEPT ![j] = "expired"] /\ UNCHANGED flag
    /\ UNCHANGED <<retries, runner, step, cancelled, stored, asking, obeyed, requeues, hiccups>>

\* get_job_status: the word the client polls.  rq spells a dropped job "canceled",
\* which falls through to the last line.
PolledStatus(j) ==
    CASE status[j] = "finished" -> "completed"
      [] status[j] = "started" -> "running"
      [] OTHER -> status[j]

Step(j) ==
    \/ Enqueue(j) \/ (\E w \in Workers : Begin(w, j)) \/ Poll(j) \/ PollBlind(j) \/ Store(j) \/ Finish(j)
    \/ Raise(j) \/ RetryDue(j) \/ CancelRead(j) \/ CancelAct(j) \/ Requeue(j) \/ Expire(j)

Next == \E j \in Jobs : Step(j)

-----------------------------------------------------------------------------
(* Properties.                                                             *)

\* Once an attempt has stopped for a cancel, no later attempt of the same enqueue
\* crawls a source: not the retry that follows when storing its results failed,
\* unless Redis did not answer it.
CancelOutlivesAttempts ==
    \A j \in obeyed : hiccups = 0 => cancelled[j] \/ step[j] = 0 \/ runner[j] = NoWorker
=============================================================================
