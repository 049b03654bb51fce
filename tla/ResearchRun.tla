----------------------------- MODULE ResearchRun -----------------------------
(***************************************************************************)
(* Research runs on one evaluation case: the request that creates a run    *)
(* and puts it on the rq queue (api/routes/radar_evidence.py), the worker  *)
(* job with its attempts (jobs/research_job.py) and the transaction that   *)
(* persists what the workflow found (research/service.py).                 *)
(*                                                                         *)
(* What the workflow finds is abstracted to whether every mandatory        *)
(* evidence class was covered; module ResearchGraph is about that part.    *)
(* rq and Redis are modelled by how the code uses them: a job is delivered *)
(* to one worker, and a job whose worker died goes to the failed registry, *)
(* from where an operator may requeue it for the day failure_ttl grants.   *)
(***************************************************************************)
EXTENDS Integers, FiniteSets

CONSTANTS Runs,        \* the run ids the database will mint
          Clients,     \* concurrent callers of POST /cases/{id}/research
          Workers,     \* rq workers on the research queue
          RunKeys,     \* the idempotency keys callers supply
          MaxRetries,  \* MAX_RETRIES: attempts after the first
          FixtureMode, \* RADAR_FIXTURE_MODE
          Faults,      \* which of AllFaults the environment may produce
          MaxDeaths    \* bound: worker deaths in a behaviour

\* "death": a worker dies, or an exception escapes the attempt loop.
\* "abort": the API process dies between its commit and its enqueue.
\* "lostReply": Redis takes the job, the reply times out.
\* "reread": the read that follows the worker's commit fails.
AllFaults == {"death", "abort", "lostReply", "reread"}

ASSUME RunAssumption ==
    /\ MaxRetries \in Nat
    /\ MaxDeaths \in Nat
    /\ FixtureMode \in BOOLEAN
    /\ Faults \subseteq AllFaults
    /\ RunKeys \cap Runs = {}
    /\ "none" \notin Runs \cup RunKeys

VARIABLES
    caseState,   \* EvaluationCase.research_state
    status,      \* ResearchRun.status, "none" when there is no row
    key,         \* run_identity.run_key
    claimed,     \* how many times the claims of the run were inserted
    covered,     \* runs whose persisted coverage was ready
    evidenced,   \* runs with committed evidence artifacts
    post,        \* the callers of post_research
    queue, dead, \* rq: waiting jobs, failed registry
    job,         \* what each worker is doing
    deaths

rows == <<caseState, status, key, claimed, covered, evidenced>>
vars == <<rows, post, queue, dead, job, deaths>>

CaseStates == {"DISCOVERED", "TRIAGED", "RESEARCHING", "EVIDENCE_READY", "STALE",
               "FAILED", "ARCHIVED"}
RunStatus  == {"none", "QUEUED", "RUNNING", "COMPLETED", "PARTIAL", "FAILED"}

\* A caller, between its check of the run key and its answer.
PostState == [at : {"idle", "checked", "inserted", "unsent"},
              key : RunKeys \cup {"none"}, run : Runs \cup {"none"}]
NoPost    == [at |-> "idle", key |-> "none", run |-> "none"]

\* A worker: where it is in research_case_job, the case state its session read,
\* and the readiness the workflow computed.
JobState == [at : {"idle", "loaded", "running", "bound", "graded", "persisted", "exhausted"},
             run : Runs \cup {"none"}, attempt : 0 .. MaxRetries,
             seen : CaseStates, ready : BOOLEAN]
NoJob    == [at |-> "idle", run |-> "none", attempt |-> 0, seen |-> "DISCOVERED", ready |-> FALSE]

TypeOK ==
    /\ caseState \in CaseStates
    /\ status \in [Runs -> RunStatus]
    /\ key \in [Runs -> RunKeys \cup Runs]
    /\ claimed \in [Runs -> Nat]
    /\ covered \in SUBSET Runs
    /\ evidenced \in SUBSET Runs
    /\ post \in [Clients -> PostState]
    /\ queue \in SUBSET Runs
    /\ dead \in SUBSET Runs
    /\ job \in [Workers -> JobState]
    /\ deaths \in 0 .. MaxDeaths

Init ==
    /\ caseState = "DISCOVERED"
    /\ status = [r \in Runs |-> "none"]
    /\ key = [r \in Runs |-> r]
    /\ claimed = [r \in Runs |-> 0]
    /\ covered = {}
    /\ evidenced = {}
    /\ post = [c \in Clients |-> NoPost]
    /\ queue = {}
    /\ dead = {}
    /\ job = [w \in Workers |-> NoJob]
    /\ deaths = 0

-----------------------------------------------------------------------------
(* The case's state machine.                                               *)

LegalTransitions ==
    [s \in CaseStates |->
        CASE s = "DISCOVERED"     -> {"TRIAGED", "ARCHIVED"}
          [] s = "TRIAGED"        -> {"RESEARCHING", "ARCHIVED"}
          [] s = "RESEARCHING"    -> {"EVIDENCE_READY", "FAILED"}
          [] s = "FAILED"         -> {"RESEARCHING", "ARCHIVED"}
          [] s = "EVIDENCE_READY" -> {"STALE", "RESEARCHING", "ARCHIVED"}
          [] s = "STALE"          -> {"RESEARCHING", "ARCHIVED"}
          [] s = "ARCHIVED"       -> {}]

\* can_transition, and the assignment it guards
Advance(s, to) == IF to \in LegalTransitions[s] THEN to ELSE s

\* Where run_research takes a case it found in state s.
Researching(s) == Advance(Advance(s, "TRIAGED"), "RESEARCHING")
Outcome(s, isReady) ==
    IF isReady THEN Advance(Researching(s), "EVIDENCE_READY") ELSE Researching(s)

-----------------------------------------------------------------------------
(* post_research.  A request that is refused (unknown case, no provider,   *)
(* no Redis, no protocol) writes nothing and is no step; so is one that    *)
(* finds its run key among the runs of the case and returns that run.      *)

HasKey(k) == \E r \in Runs : status[r] # "none" /\ key[r] = k

PostCheck(c, k) ==
    /\ post[c].at = "idle"
    /\ k # "none" => ~HasKey(k)
    /\ post' = [post EXCEPT ![c].at = "checked", ![c].key = k]
    /\ UNCHANGED <<rows, queue, dead, job, deaths>>

\* The run is committed as QUEUED under its key, or its own id without one.
PostInsert(c, r) ==
    /\ post[c].at = "checked"
    /\ status[r] = "none"
    /\ status' = [status EXCEPT ![r] = "QUEUED"]
    /\ key' = [key EXCEPT ![r] = IF post[c].key = "none" THEN r ELSE post[c].key]
    /\ post' = [post EXCEPT ![c].at = "inserted", ![c].run = r]
    /\ UNCHANGED <<caseState, claimed, covered, evidenced, queue, dead, job, deaths>>

PostEnqueue(c) ==
    /\ post[c].at = "inserted"
    /\ post' = [post EXCEPT ![c] = NoPost]
    /\ queue' = queue \cup {post[c].run}
    /\ UNCHANGED <<rows, dead, job, deaths>>

\* enqueue_research raises; the job is on the queue only if a reply was lost.
PostEnqueueFails(c) ==
    /\ post[c].at = "inserted"
    /\ post' = [post EXCEPT ![c].at = "unsent"]
    /\ \/ UNCHANGED queue
       \/ "lostReply" \in Faults /\ queue' = queue \cup {post[c].run}
    /\ UNCHANGED <<rows, dead, job, deaths>>

\* QUEUE_UNAVAILABLE is written without looking at the run again.
PostMarkFailed(c) ==
    /\ post[c].at = "unsent"
    /\ post' = [post EXCEPT ![c] = NoPost]
    /\ status' = [status EXCEPT ![post[c].run] = "FAILED"]
    /\ UNCHANGED <<caseState, key, claimed, covered, evidenced, queue, dead, job, deaths>>

PostAborts(c) ==
    /\ "abort" \in Faults
    /\ post[c].at \in {"inserted", "unsent"}
    /\ post' = [post EXCEPT ![c] = NoPost]
    /\ UNCHANGED <<rows, queue, dead, job, deaths>>

PostReturns(c) == PostEnqueue(c) \/ PostEnqueueFails(c) \/ PostMarkFailed(c)

-----------------------------------------------------------------------------
(* research_case_job.                                                      *)

\* The worker moves on in its job.
Moves(w, from, to) == job[w].at = from /\ job' = [job EXCEPT ![w].at = to]

\* Mutant: a settled run is run again.
DeliverAnyway(w, r) ==
    /\ job[w].at = "idle"
    /\ r \in queue
    /\ queue' = queue \ {r}
    /\ job' = [job EXCEPT ![w].at = "loaded", ![w].run = r]
    /\ UNCHANGED <<rows, post, dead, deaths>>

\* A COMPLETED or PARTIAL run is returned as it is: its job is over.
Deliver(w, r) ==
    /\ job[w].at = "idle"
    /\ r \in queue
    /\ queue' = queue \ {r}
    /\ IF status[r] \in {"COMPLETED", "PARTIAL"}
       THEN UNCHANGED job
       ELSE job' = [job EXCEPT ![w].at = "loaded", ![w].run = r]
    /\ UNCHANGED <<rows, post, dead, deaths>>

MarkRunning(w) ==
    /\ Moves(w, "loaded", "running")
    /\ status' = [status EXCEPT ![job[w].run] = "RUNNING"]
    /\ UNCHANGED <<caseState, key, claimed, covered, evidenced, post, queue, dead, deaths>>

\* _resolve_provider: the case is read into the session and evidence is
\* bound: committed at once in fixture mode, pending in the transaction else.
Bind(w) ==
    /\ job[w].at = "running"
    /\ job' = [job EXCEPT ![w].at = "bound", ![w].seen = caseState]
    /\ evidenced' = IF FixtureMode THEN evidenced \cup {job[w].run} ELSE evidenced
    /\ UNCHANGED <<caseState, status, key, claimed, covered, post, queue, dead, deaths>>

\* The nine nodes run, for minutes; the fixture script covers every class.
Investigate(w) ==
    /\ job[w].at = "bound"
    /\ \E ready \in (IF FixtureMode THEN {TRUE} ELSE BOOLEAN) :
          job' = [job EXCEPT ![w].at = "graded", ![w].ready = ready]
    /\ UNCHANGED <<rows, post, queue, dead, deaths>>

\* Mutant: the status is committed before the rest.
WriteStatusFirst(w) ==
    /\ status' = [status EXCEPT ![job[w].run] = IF job[w].ready THEN "COMPLETED" ELSE "PARTIAL"]
    /\ UNCHANGED <<claimed, covered, evidenced>>

\* What run_research writes about a run.
WriteRun(w) ==
    /\ status' = [status EXCEPT ![job[w].run] = IF job[w].ready THEN "COMPLETED" ELSE "PARTIAL"]
    /\ claimed' = [claimed EXCEPT ![job[w].run] = @ + 1]
    /\ covered' = IF job[w].ready THEN covered \cup {job[w].run} ELSE covered
    /\ evidenced' = evidenced \cup {job[w].run}

\* Mutant: the case is advanced whatever the readiness says.
PersistAsReady(w) ==
    /\ Moves(w, "graded", "persisted")
    /\ WriteRun(w)
    /\ caseState' = Outcome(job[w].seen, TRUE)
    /\ UNCHANGED <<key, post, queue, dead, deaths>>

\* The one transaction of run_research.  The case's new state is computed from
\* what the session read before the workflow, and written only if assigned.
Persist(w) ==
    /\ Moves(w, "graded", "persisted")
    /\ WriteRun(w)
    /\ LET seen == job[w].seen
           outcome == Outcome(seen, job[w].ready)
       IN  caseState' = IF Researching(seen) = seen /\ outcome = seen THEN caseState ELSE outcome
    /\ UNCHANGED <<key, post, queue, dead, deaths>>

Finish(w) ==
    /\ job[w].at = "persisted"
    /\ job' = [job EXCEPT ![w] = NoJob]
    /\ UNCHANGED <<rows, post, queue, dead, deaths>>

MayFail(w) == \/ job[w].at \in {"running", "bound", "graded"}
              \/ job[w].at = "persisted" /\ "reread" \in Faults

\* Mutant: no bound on the attempts.
RetryForever(w) ==
    /\ MayFail(w)
    /\ job' = [job EXCEPT ![w].at = "running"]
    /\ UNCHANGED <<rows, post, queue, dead, deaths>>

\* Something in an attempt raises: nothing bound, the provider, the database;
\* also after the commit, when the row is read again.  Rollback, next attempt.
AttemptFails(w) ==
    /\ MayFail(w)
    /\ job' = IF job[w].attempt < MaxRetries
              THEN [job EXCEPT ![w].at = "running", ![w].attempt = @ + 1]
              ELSE [job EXCEPT ![w].at = "exhausted"]
    /\ UNCHANGED <<rows, post, queue, dead, deaths>>

\* Mutant: the last failure leaves the run as it is.
ForgetFailure(w) ==
    /\ job[w].at = "exhausted"
    /\ job' = [job EXCEPT ![w] = NoJob]
    /\ UNCHANGED <<rows, post, queue, dead, deaths>>

RecordFailure(w) ==
    /\ job[w].at = "exhausted"
    /\ job' = [job EXCEPT ![w] = NoJob]
    /\ status' = [status EXCEPT ![job[w].run] = "FAILED"]
    /\ UNCHANGED <<caseState, key, claimed, covered, evidenced, post, queue, dead, deaths>>

JobStep(w) ==
    \/ MarkRunning(w) \/ Bind(w) \/ Investigate(w) \/ Persist(w) \/ Finish(w)
    \/ AttemptFails(w) \/ RecordFailure(w)

-----------------------------------------------------------------------------
(* The environment.                                                        *)

WorkerDies(w) ==
    /\ "death" \in Faults
    /\ deaths < MaxDeaths
    /\ job[w].at # "idle"
    /\ job' = [job EXCEPT ![w] = NoJob]
    /\ dead' = dead \cup {job[w].run}
    /\ deaths' = deaths + 1
    /\ UNCHANGED <<rows, post, queue>>

Requeue(r) ==
    /\ r \in dead
    /\ dead' = dead \ {r}
    /\ queue' = queue \cup {r}
    /\ UNCHANGED <<rows, post, job, deaths>>

\* A changed source reaches the case; only the fixture-mode watch commits it.
CaseGoesStale ==
    /\ FixtureMode
    /\ "STALE" \in LegalTransitions[caseState]
    /\ caseState' = "STALE"
    /\ UNCHANGED <<status, key, claimed, covered, evidenced, post, queue, dead, job, deaths>>

Next ==
    \/ \E c \in Clients :
          \/ \E k \in RunKeys \cup {"none"} : PostCheck(c, k)
          \/ \E r \in Runs : PostInsert(c, r)
          \/ PostReturns(c) \/ PostAborts(c)
    \/ \E w \in Workers :
          \/ \E r \in Runs : Deliver(w, r)
          \/ JobStep(w) \/ WorkerDies(w)
    \/ \E r \in Runs : Requeue(r)
    \/ CaseGoesStale

Spec == Init /\ [][Next]_vars

\* A live worker takes jobs and works on; nobody is bound to requeue.
Fairness ==
    \A w \in Workers : WF_vars(JobStep(w)) /\ WF_vars(\E r \in Runs : Deliver(w, r))

FairSpec == Spec /\ Fairness

-----------------------------------------------------------------------------
(* Properties.                                                             *)

Holders(r) == {w \in Workers : job[w].run = r}

\* A run's job is in one place at a time: waiting, in the failed registry or
\* with a single worker.  Two workers never advance the same row.
OneDelivery ==
    \A r \in Runs :
        /\ \A v, w \in Holders(r) : v = w
        /\ r \in queue => Holders(r) = {} /\ r \notin dead
        /\ r \in dead => Holders(r) = {}

\* A run that calls itself settled has its claims and its evidence in the database,
\* and a COMPLETED one has covered every mandatory class, whatever was interrupted:
\* status, coverage and claims are one commit, with the evidence that waited for it.
SettledIsWhole ==
    \A r \in Runs :
        /\ status[r] \in {"COMPLETED", "PARTIAL"} => claimed[r] > 0 /\ r \in evidenced
        /\ status[r] = "COMPLETED" => r \in covered

\* FLOW-003's terminal state, "never false completeness": a case is ready for
\* evidence only on the strength of a run that completed and still says so.
ReadyHasCompletedRun ==
    caseState = "EVIDENCE_READY" => \E r \in covered : status[r] = "COMPLETED"

\* A run says RUNNING only while its job is held, waiting or, for as long as
\* failure_ttl keeps it, in the failed registry: no path through the attempts
\* forgets the row.
RunningIsHeld ==
    \A r \in Runs : status[r] = "RUNNING" => Holders(r) # {} \/ r \in queue \cup dead

\* Redelivery of a finished run, a second worker, a late caller: none of them
\* inserts the claims of a run twice.
ClaimsInsertedOnce == \A r \in Runs : claimed[r] <= 1

\* "a COMPLETED/PARTIAL run is returned without re-running the provider": once a
\* run has settled on a result, no later step of anybody changes it.
ResultStands ==
    [][\A r \in Runs : status[r] \in {"COMPLETED", "PARTIAL"} => status'[r] = status[r]]_status

\* Every job that is on the queue ends: its run settles, or the job is in the
\* failed registry for an operator to see.
JobsEnd == \A r \in Runs : r \in queue ~> (status[r] \in {"COMPLETED", "PARTIAL", "FAILED"} \/ r \in dead)

(* What docs and comments say, and the code does not.                      *)

\* radar_evidence.py:192: a run key "idempotently returns the existing run for
\* that key": no two runs share a caller's key.
OneRunPerKey ==
    \A r, s \in Runs : status[r] # "none" /\ status[s] # "none" /\ key[r] = key[s] => r = s
=============================================================================
