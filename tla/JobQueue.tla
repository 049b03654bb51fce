------------------------------ MODULE JobQueue ------------------------------
(***************************************************************************)
(* The in-process job queue of core/tasks.py (the backend used when there  *)
(* is no Redis): daemon threads that run pipeline crawls, supervisor syncs *)
(* and email digests, the job table the API polls, the semaphores that cap *)
(* concurrency, the retry chain, the cancellation tokens of core/cancel.py *)
(* and the dead-letter retry of the admin page.                            *)
(*                                                                         *)
(* A step is one lock-protected section or one call out of the process.    *)
(* What a crawl collects is abstracted to whether its save step finished.  *)
(***************************************************************************)
EXTENDS Integers, FiniteSets

CONSTANTS Jobs,        \* the job ids uuid4() will mint
          Slots,       \* Slots[k]: initial value of the semaphore of kind k
          MaxRetries   \* MAX_PIPELINE_RETRIES: attempts after the first

Slotted == {"pipeline", "supervisor"}     \* the kinds guarded by a semaphore
Kinds   == Slotted \cup {"digest"}

ASSUME QueueAssumption ==
    /\ IsFiniteSet(Jobs)
    /\ Slots \in [Slotted -> Nat]
    /\ MaxRetries \in Nat

VARIABLES
    status,      \* status of the job's record, "absent" when there is none
    recParams,   \* the request parameters the record still carries
    kind, args, attempt, pc,     \* the job's thread
    stored,      \* this attempt's save step has finished (or was rescued)
    stopped,     \* a supervisor thread's local copy of the token
    registered,  \* the token is in the registry of core/cancel.py
    event,       \* the token's Event is set
    free,        \* the semaphores
    call,        \* how far a cancel_job call for this job has come
    told,        \* some cancel_job call for it has returned True
    retrying     \* dead letters retry_job took out of the table

record == <<status, recParams>>
thread == <<kind, args, attempt, pc, stored, stopped>>
token  == <<registered, event>>
cancel == <<call, told>>
vars   == <<record, thread, token, free, cancel, retrying>>

(***************************************************************************)
(* "scope" stands for country, sources and field; "focus" for subfields,   *)
(* include_slow and position_types; "limit" for a supervisor sync's limit. *)
(***************************************************************************)
Params  == {"scope", "focus", "limit"}
Settled == {"completed", "cancelled", "failed"}
Status  == Settled \cup {"absent", "running"}

\* Where a thread can be: Working until it has settled its record, Exiting
\* until it has given back what it holds.
Working == {"spawned", "crawling", "storing", "returned", "deciding", "raised"}
Exiting == {"recorded", "released"}

TypeOK ==
    /\ status \in [Jobs -> Status]
    /\ recParams \in [Jobs -> SUBSET Params]
    /\ kind \in [Jobs -> Kinds]
    /\ args \in [Jobs -> SUBSET Params]
    /\ attempt \in [Jobs -> 1 .. MaxRetries + 1]
    /\ pc \in [Jobs -> Working \cup Exiting \cup {"unused", "done"}]
    /\ stored \in [Jobs -> BOOLEAN]
    /\ stopped \in [Jobs -> BOOLEAN]
    /\ registered \in [Jobs -> BOOLEAN]
    /\ event \in [Jobs -> BOOLEAN]
    /\ free \in [Slotted -> Nat]
    /\ call \in [Jobs -> {"idle", "checked", "found", "missed"}]
    /\ told \in [Jobs -> BOOLEAN]
    /\ retrying \in SUBSET [job : Jobs, params : SUBSET Params]

Init ==
    /\ status = [j \in Jobs |-> "absent"]
    /\ recParams = [j \in Jobs |-> {}]
    /\ kind = [j \in Jobs |-> "pipeline"]
    /\ args = [j \in Jobs |-> {}]
    /\ attempt = [j \in Jobs |-> 1]
    /\ pc = [j \in Jobs |-> "unused"]
    /\ stored = [j \in Jobs |-> FALSE]
    /\ stopped = [j \in Jobs |-> FALSE]
    /\ registered = [j \in Jobs |-> FALSE]
    /\ event = [j \in Jobs |-> FALSE]
    /\ free = Slots
    /\ call = [j \in Jobs |-> "idle"]
    /\ told = [j \in Jobs |-> FALSE]
    /\ retrying = {}

-----------------------------------------------------------------------------
(* Enqueueing.  A full semaphore raises RuntimeError before anything is    *)
(* written, so a refused request is no step at all.  Nobody knows the new  *)
(* id before the call returns: taking the slot, writing the record and     *)
(* starting the thread are one step.                                       *)

Acquire(k) == /\ free[k] > 0
              /\ free' = [free EXCEPT ![k] = @ - 1]

\* The job's record and its thread at attempt 1.
Launch(j, k, params, rec, at) ==
    /\ pc[j] = "unused"
    /\ status' = [status EXCEPT ![j] = "running"]
    /\ recParams' = [recParams EXCEPT ![j] = rec]
    /\ kind' = [kind EXCEPT ![j] = k]
    /\ args' = [args EXCEPT ![j] = params]
    /\ pc' = [pc EXCEPT ![j] = at]
    /\ UNCHANGED <<attempt, stored, stopped, token, cancel>>

EnqueueFallback(j, params) ==
    /\ Acquire("pipeline")
    /\ Launch(j, "pipeline", params, params \cap {"scope"}, "spawned")

EnqueuePipeline(j) ==
    /\ EnqueueFallback(j, {"scope", "focus"})
    /\ UNCHANGED retrying

EnqueueSupervisor(j) ==
    /\ Acquire("supervisor")
    /\ Launch(j, "supervisor", {"scope", "limit"}, {"scope"}, "spawned")
    /\ UNCHANGED retrying

\* Digests take no slot and register no token.
EnqueueDigest(j) ==
    /\ Launch(j, "digest", {}, {}, "crawling")
    /\ UNCHANGED <<free, retrying>>

-----------------------------------------------------------------------------
(* The thread.                                                             *)

Goto(j, from, to) == /\ pc[j] = from
                     /\ pc' = [pc EXCEPT ![j] = to]

\* cancel.get(job_id) or cancel.register(job_id)
TakeToken(j) ==
    /\ Goto(j, "spawned", "crawling")
    /\ registered' = [registered EXCEPT ![j] = TRUE]
    /\ event' = [event EXCEPT ![j] = registered[j] /\ @]
    /\ UNCHANGED <<record, kind, args, attempt, stored, stopped, free, cancel, retrying>>

CrawlEnds(j) ==
    /\ \/ Goto(j, "crawling", "storing")
       \/ Goto(j, "crawling", "raised")
    /\ UNCHANGED <<record, kind, args, attempt, stored, stopped, token, free, cancel, retrying>>

\* A pipeline run never raises once it stores: a failing save is rescued to
\* a file.  A supervisor sync raises when its commit fails, and also after a
\* commit that left some candidates out.
Store(j) ==
    /\ \/ /\ Goto(j, "storing", "returned")
          /\ stored' = [stored EXCEPT ![j] = TRUE]
       \/ /\ kind[j] = "supervisor"
          /\ Goto(j, "storing", "raised")
          /\ \/ stored' = [stored EXCEPT ![j] = TRUE]
             \/ UNCHANGED stored
    /\ UNCHANGED <<record, kind, args, attempt, stopped, token, free, cancel, retrying>>

\* A fresh dict replaces the record: only its status is carried by the model,
\* and none of the request's parameters survive.
WriteRecord(j, s) ==
    /\ status' = [status EXCEPT ![j] = s]
    /\ recParams' = [recParams EXCEPT ![j] = {}]

\* Mutant: the record is written before the results are stored.
ReportBeforeSave(j) ==
    /\ kind[j] = "pipeline"
    /\ Goto(j, "storing", "recorded")
    /\ WriteRecord(j, IF event[j] THEN "cancelled" ELSE "completed")
    /\ UNCHANGED <<kind, args, attempt, stored, stopped, token, free, cancel, retrying>>

\* A pipeline run reads its token inside the lock that writes the record,
\* and overwrites whatever the record says.
ReportPipeline(j) ==
    /\ kind[j] = "pipeline"
    /\ Goto(j, "returned", "recorded")
    /\ WriteRecord(j, IF event[j] THEN "cancelled" ELSE "completed")
    /\ UNCHANGED <<kind, args, attempt, stored, stopped, token, free, cancel, retrying>>

\* A supervisor sync reads its token first and takes the lock afterwards.
ReadStop(j) ==
    /\ kind[j] = "supervisor"
    /\ Goto(j, "returned", "deciding")
    /\ stopped' = [stopped EXCEPT ![j] = registered[j] /\ event[j]]
    /\ UNCHANGED <<record, kind, args, attempt, stored, token, free, cancel, retrying>>

ReportSupervisor(j) ==
    /\ Goto(j, "deciding", "recorded")
    /\ IF status[j] # "cancelled" \/ stopped[j]
       THEN WriteRecord(j, IF stopped[j] THEN "cancelled" ELSE "completed")
       ELSE UNCHANGED record
    /\ UNCHANGED <<kind, args, attempt, stored, stopped, token, free, cancel, retrying>>

ReportDigest(j) ==
    /\ kind[j] = "digest"
    /\ Goto(j, "returned", "recorded")
    /\ IF status[j] # "cancelled" THEN WriteRecord(j, "completed") ELSE UNCHANGED record
    /\ UNCHANGED <<kind, args, attempt, stored, stopped, token, free, cancel, retrying>>

MayRetry(j) == kind[j] \in Slotted /\ attempt[j] <= MaxRetries

\* Mutant: the finally block runs after every attempt (is_final is not checked).
FinallyEveryAttempt(j) ==
    /\ MayRetry(j)
    /\ Goto(j, "raised", "spawned")
    /\ attempt' = [attempt EXCEPT ![j] = @ + 1]
    /\ registered' = [registered EXCEPT ![j] = FALSE]
    /\ free' = [free EXCEPT ![kind[j]] = @ + 1]
    /\ UNCHANGED <<record, kind, args, stored, stopped, event, cancel, retrying>>

\* After the backoff a new thread runs the next attempt; slot and token stay
\* with the chain.  A supervisor retry is not passed the limit.
NextAttempt(j) ==
    /\ MayRetry(j)
    /\ Goto(j, "raised", "spawned")
    /\ attempt' = [attempt EXCEPT ![j] = @ + 1]
    /\ args' = [args EXCEPT ![j] = IF kind[j] = "supervisor" THEN @ \ {"limit"} ELSE @]
    /\ stored' = [stored EXCEPT ![j] = FALSE]
    /\ UNCHANGED <<record, kind, stopped, token, free, cancel, retrying>>

\* Mutant: the last failure is logged but not recorded.
GiveUpSilently(j) ==
    /\ ~MayRetry(j)
    /\ Goto(j, "raised", "recorded")
    /\ UNCHANGED <<record, kind, args, attempt, stored, stopped, token, free, cancel, retrying>>

GiveUp(j) ==
    /\ ~MayRetry(j)
    /\ Goto(j, "raised", "recorded")
    /\ IF status[j] # "cancelled" THEN WriteRecord(j, "failed") ELSE UNCHANGED record
    /\ UNCHANGED <<kind, args, attempt, stored, stopped, token, free, cancel, retrying>>

\* Mutant: cancel.release is not called.
KeepToken(j) ==
    /\ kind[j] = "pipeline"
    /\ Goto(j, "recorded", "released")
    /\ UNCHANGED <<record, kind, args, attempt, stored, stopped, token, free, cancel, retrying>>

\* The finally block: a pipeline run forgets its token, then frees its slot.
ReleaseToken(j) ==
    /\ kind[j] = "pipeline"
    /\ Goto(j, "recorded", "released")
    /\ registered' = [registered EXCEPT ![j] = FALSE]
    /\ UNCHANGED <<record, kind, args, attempt, stored, stopped, event, free, cancel, retrying>>

\* Mutant: the semaphore is released on the success path only.
ReleaseSlotOnSuccess(j) ==
    /\ kind[j] \in Slotted
    /\ status[j] = "completed"
    /\ Goto(j, IF kind[j] = "pipeline" THEN "released" ELSE "recorded", "done")
    /\ free' = [free EXCEPT ![kind[j]] = @ + 1]
    /\ UNCHANGED <<record, kind, args, attempt, stored, stopped, token, cancel, retrying>>

ReleaseSlot(j) ==
    /\ kind[j] \in Slotted
    /\ Goto(j, IF kind[j] = "pipeline" THEN "released" ELSE "recorded", "done")
    /\ free' = [free EXCEPT ![kind[j]] = @ + 1]
    /\ UNCHANGED <<record, kind, args, attempt, stored, stopped, token, cancel, retrying>>

DigestExits(j) ==
    /\ kind[j] = "digest"
    /\ Goto(j, "recorded", "done")
    /\ UNCHANGED <<record, kind, args, attempt, stored, stopped, token, free, cancel, retrying>>

ThreadStep(j) ==
    \/ TakeToken(j) \/ CrawlEnds(j) \/ Store(j)
    \/ ReportPipeline(j) \/ ReadStop(j) \/ ReportSupervisor(j) \/ ReportDigest(j)
    \/ NextAttempt(j) \/ GiveUp(j)
    \/ ReleaseToken(j) \/ ReleaseSlot(j) \/ DigestExits(j)

-----------------------------------------------------------------------------
(* cancel_job.  A call that finds no running record returns False at once, *)
(* which is no step.  One call per job is in progress at a time: the calls *)
(* only ever set the same flags.                                           *)

CancelCheck(j) ==
    /\ call[j] = "idle"
    /\ status[j] = "running"
    /\ call' = [call EXCEPT ![j] = "checked"]
    /\ UNCHANGED <<record, thread, token, free, told, retrying>>

CancelLookup(j) ==
    /\ call[j] = "checked"
    /\ call' = [call EXCEPT ![j] = IF registered[j] THEN "found" ELSE "missed"]
    /\ UNCHANGED <<record, thread, token, free, told, retrying>>

\* The caller holds the token object: it sets the Event even if the run has
\* meanwhile finished and dropped the token.
CancelSignal(j) ==
    /\ call[j] = "found"
    /\ call' = [call EXCEPT ![j] = "idle"]
    /\ event' = [event EXCEPT ![j] = TRUE]
    /\ told' = [told EXCEPT ![j] = TRUE]
    /\ UNCHANGED <<record, thread, registered, free, retrying>>

\* Mutant: the record is marked on the strength of the first check alone.
ForceWithoutRecheck(j) ==
    /\ call[j] = "missed"
    /\ call' = [call EXCEPT ![j] = "idle"]
    /\ status' = [status EXCEPT ![j] = "cancelled"]
    /\ told' = [told EXCEPT ![j] = TRUE]
    /\ UNCHANGED <<recParams, thread, token, free, retrying>>

\* No live token: mark the record itself, if it is still running.
CancelForce(j) ==
    /\ call[j] = "missed"
    /\ call' = [call EXCEPT ![j] = "idle"]
    /\ status' = [status EXCEPT ![j] = IF @ = "running" THEN "cancelled" ELSE @]
    /\ told' = [told EXCEPT ![j] = @ \/ status[j] = "running"]
    /\ UNCHANGED <<recParams, thread, token, free, retrying>>

CancelReturns(j) == CancelLookup(j) \/ CancelSignal(j) \/ CancelForce(j)

-----------------------------------------------------------------------------
(* retry_job: any failed record is taken out of the table and its scope    *)
(* re-enqueued as a pipeline run under a new id.                           *)

RetryTake(j) ==
    /\ status[j] = "failed"
    /\ status' = [status EXCEPT ![j] = "absent"]
    /\ recParams' = [recParams EXCEPT ![j] = {}]
    /\ retrying' = retrying \cup {[job |-> j, params |-> recParams[j] \cap {"scope"}]}
    /\ UNCHANGED <<thread, token, free, cancel>>

RetryLaunch(r, j) ==
    /\ EnqueueFallback(j, r.params)
    /\ retrying' = retrying \ {r}

\* _enqueue_fallback raises: the dead letter is already deleted.
RetryRefused(r) ==
    /\ free["pipeline"] = 0
    /\ retrying' = retrying \ {r}
    /\ UNCHANGED <<record, thread, token, free, cancel>>

RetryReturns ==
    \E r \in retrying : RetryRefused(r) \/ \E j \in Jobs : RetryLaunch(r, j)

-----------------------------------------------------------------------------
Enqueue(j) == EnqueuePipeline(j) \/ EnqueueSupervisor(j) \/ EnqueueDigest(j)

Next ==
    \/ \E j \in Jobs : \/ Enqueue(j)
                       \/ ThreadStep(j)
                       \/ CancelCheck(j) \/ CancelReturns(j)
                       \/ RetryTake(j)
    \/ RetryReturns

Spec == Init /\ [][Next]_vars

\* A started thread keeps being scheduled, its crawl ends (every request has
\* a timeout), and a request handler runs to its return.  Nobody has to ask
\* for a job, a cancellation or a retry.
Fairness ==
    /\ \A j \in Jobs : WF_vars(ThreadStep(j)) /\ WF_vars(CancelReturns(j))
    /\ WF_vars(RetryReturns)

FairSpec == Spec /\ Fairness

-----------------------------------------------------------------------------
(* Properties.                                                             *)

Alive(j) == pc[j] \in Working \cup Exiting
Holders(k) == {j \in Jobs : kind[j] = k /\ Alive(j)}

\* The cap of tasks.py:50-53 holds through every retry chain: no more jobs of
\* a kind are alive than its semaphore admits ("never run two at once" for
\* supervisor syncs).
ConcurrencyCap == \A k \in Slotted : Cardinality(Holders(k)) <= Slots[k]

\* No slot is lost or given back twice, whichever way a job ends: the free
\* slots and the live jobs of a kind always add up to the semaphore's size.
SlotsAccounted ==
    \A k \in Slotted : free[k] + Cardinality(Holders(k)) = Slots[k]

\* A record says "running" only while a thread is left that will settle it:
\* the UI can not poll a job nobody is working on.
RunningIsOwned == \A j \in Jobs : status[j] = "running" => pc[j] \in Working

\* From its first token on until its record is settled, a crawl is reachable
\* by cancel_job, between two attempts too ("a cancel during attempt 1 must
\* still apply to attempt 2").
CancelReachesRetries ==
    \A j \in Jobs :
        (pc[j] \in Working /\ kind[j] \in Slotted /\ (attempt[j] > 1 \/ pc[j] # "spawned"))
            => registered[j]

\* What a poll may call complete has been through the save step.
CompletedIsSaved == \A j \in Jobs : status[j] = "completed" => stored[j]

\* A pipeline run leaves no token behind in the registry.
PipelineTokensForgotten ==
    \A j \in Jobs : kind[j] = "pipeline" /\ pc[j] = "done" => ~registered[j]

\* A landed cancellation is never withdrawn, not even by the next attempt's
\* "get or register".
CancelIsSticky == [][\A j \in Jobs : event[j] => event'[j]]_event

\* A completed record stands; a failed one stands until retry_job takes it.
\* The record check and the signal of cancel_job are two locks apart, and the
\* second check is what keeps a late call from rewriting a finished job.
SettledRecordsStand ==
    [][\A j \in Jobs :
          /\ status[j] = "completed" => status'[j] = "completed"
          /\ status[j] = "failed" => status'[j] \in {"failed", "absent"}]_status

\* A cancel that landed is followed by a settled record.
CancelEnds == \A j \in Jobs : told[j] ~> status[j] # "running"

\* The queue implements the JobBoard: threads, retries and tokens are details
\* of how a job that is in comes to its outcome.  A digest needs no slot.
Place(j) == IF pc[j] = "unused" THEN "new" ELSE IF pc[j] = "done" THEN "out" ELSE "in"

Board == INSTANCE JobBoard WITH
    Classes <- Kinds,
    Room    <- [k \in Kinds |-> IF k \in Slotted THEN Slots[k] ELSE Cardinality(Jobs)],
    place   <- [j \in Jobs |-> Place(j)],
    class   <- kind,
    outcome <- status

\* Safety of the job board.
ImplementsBoard == Board!BoardSpec

\* The job board with its progress: every job comes to an outcome and gives its
\* place back, whatever fails.
ImplementsFairBoard == Board!FairBoardSpec
=============================================================================
