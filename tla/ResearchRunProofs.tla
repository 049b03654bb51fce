------------------------- MODULE ResearchRunProofs -------------------------
(***************************************************************************)
(* Proofs about ResearchRun for any number of runs, callers, workers and   *)
(* attempts.                                                               *)
(***************************************************************************)
EXTENDS ResearchRun, TLAPS

-----------------------------------------------------------------------------
(* Type correctness.                                                       *)

LEMMA AdvanceType ==
  ASSUME NEW s \in CaseStates, NEW to \in CaseStates
  PROVE  Advance(s, to) \in CaseStates
  BY DEF Advance

LEMMA OutcomeType ==
  ASSUME NEW s \in CaseStates, NEW isReady \in BOOLEAN
  PROVE  Researching(s) \in CaseStates /\ Outcome(s, isReady) \in CaseStates
  <1>1. Researching(s) \in CaseStates
    BY AdvanceType DEF Researching, CaseStates
  <1> QED
    BY <1>1, AdvanceType DEF Outcome, CaseStates

\* A caller past its insert and a worker past its dequeue know their run.
Filled ==
    /\ \A c \in Clients : post[c].at \in {"inserted", "unsent"} => post[c].run \in Runs
    /\ \A w \in Workers : job[w].at # "idle" => job[w].run \in Runs

TypeInv == TypeOK /\ Filled

LEMMA InitTypeInv == Init => TypeInv
  BY RunAssumption
  DEF Init, TypeInv, TypeOK, Filled, CaseStates, RunStatus, PostState, NoPost, JobState, NoJob

PostStep(c) ==
    \/ \E k \in RunKeys \cup {"none"} : PostCheck(c, k)
    \/ \E r \in Runs : PostInsert(c, r)
    \/ PostReturns(c) \/ PostAborts(c)

LEMMA PostTypeInv ==
  ASSUME TypeInv, NEW c \in Clients, PostStep(c)
  PROVE  TypeInv'
  <1> USE DEF TypeInv, TypeOK, Filled, PostState, NoPost, rows
  <1>1. ASSUME NEW k \in RunKeys \cup {"none"}, PostCheck(c, k)
        PROVE  TypeInv'
    <2>1. post' = [post EXCEPT ![c].at = "checked", ![c].key = k] /\ UNCHANGED <<rows, queue, dead, job, deaths>>
      BY <1>1 DEF PostCheck
    <2>2. [post[c] EXCEPT !.at = "checked", !.key = k] \in PostState
      OBVIOUS
    <2> QED
      BY <2>1, <2>2
  <1>2. ASSUME NEW r \in Runs, PostInsert(c, r)
        PROVE  TypeInv'
    <2>1. post' = [post EXCEPT ![c].at = "inserted", ![c].run = r]
      BY <1>2 DEF PostInsert
    <2>2. [post[c] EXCEPT !.at = "inserted", !.run = r] \in PostState
      OBVIOUS
    <2>3. post' \in [Clients -> PostState]
      <3>1. post \in [Clients -> PostState]
        OBVIOUS
      <3> HIDE DEF TypeInv, TypeOK, PostState
      <3> QED
        BY <2>1, <2>2, <3>1
    <2>4. status' \in [Runs -> RunStatus] /\ key' \in [Runs -> RunKeys \cup Runs]
      BY <1>2 DEF PostInsert, RunStatus
    <2>5. \A d \in Clients : post'[d].at \in {"inserted", "unsent"} => post'[d].run \in Runs
      BY <2>1
    <2> QED
      BY <1>2, <2>3, <2>4, <2>5 DEF PostInsert
  <1>3. CASE PostEnqueue(c)
    BY <1>3 DEF PostEnqueue
  <1>4. CASE PostEnqueueFails(c)
    BY <1>4 DEF PostEnqueueFails
  <1>5. CASE PostMarkFailed(c)
    BY <1>5 DEF PostMarkFailed, RunStatus
  <1>6. CASE PostAborts(c)
    BY <1>6 DEF PostAborts
  <1> QED
    BY <1>1, <1>2, <1>3, <1>4, <1>5, <1>6 DEF PostStep, PostReturns

LEMMA GradedType ==
  ASSUME NEW j \in JobState, NEW b \in BOOLEAN
  PROVE  [j EXCEPT !.at = "graded", !.ready = b] \in JobState
  BY DEF JobState

LEMMA BoundType ==
  ASSUME NEW j \in JobState, NEW s \in CaseStates
  PROVE  LET b == [j EXCEPT !.at = "bound", !.seen = s]
         IN  b \in JobState /\ b.run = j.run /\ b.at = "bound"
  BY DEF JobState

LEMMA JobTypeInv ==
  ASSUME TypeInv, NEW w \in Workers,
         JobStep(w) \/ WorkerDies(w) \/ \E r \in Runs : Deliver(w, r)
  PROVE  TypeInv'
  <1> USE RunAssumption DEF TypeInv, TypeOK, Filled, JobState, NoJob, rows, Moves
  <1>1. ASSUME NEW r \in Runs, Deliver(w, r)
        PROVE  TypeInv'
    BY <1>1 DEF Deliver
  <1>2. CASE MarkRunning(w)
    BY <1>2 DEF MarkRunning, RunStatus
  <1>3. CASE Bind(w)
    <2>1. /\ job' = [job EXCEPT ![w].at = "bound", ![w].seen = caseState]
          /\ job[w].at = "running" /\ job \in [Workers -> JobState] /\ caseState \in CaseStates
      BY <1>3 DEF Bind
    <2>2. /\ job' \in [Workers -> JobState]
          /\ \A v \in Workers : job'[v].run = job[v].run /\ (job'[v].at # "idle" <=> job[v].at # "idle")
      <3> HIDE DEF TypeInv, TypeOK, JobState
      <3>1. job' = [job EXCEPT ![w] = [job[w] EXCEPT !.at = "bound", !.seen = caseState]]
        BY <2>1
      <3>2. job'[w] \in JobState /\ job'[w].run = job[w].run /\ job'[w].at = "bound"
        <4> DEFINE b == [job[w] EXCEPT !.at = "bound", !.seen = caseState]
        <4>1. b \in JobState /\ b.run = job[w].run /\ b.at = "bound"
          BY <2>1, BoundType
        <4>2. job'[w] = b
          BY <2>1, <3>1
        <4> QED
          BY <4>1, <4>2
      <3>3. \A v \in Workers \ {w} : job'[v] = job[v]
        BY <2>1, <3>1
      <3>4. DOMAIN job' = Workers /\ job' = [v \in Workers |-> job'[v]]
        BY <2>1, <3>1
      <3>5. \A v \in Workers : job'[v] \in JobState
        BY <2>1, <3>2, <3>3
      <3> QED
        BY <2>1, <3>2, <3>3, <3>4, <3>5
    <2>3. evidenced' \in SUBSET Runs
      BY <1>3 DEF Bind
    <2> QED
      BY <1>3, <2>2, <2>3 DEF Bind
  <1>4. CASE Investigate(w)
    <2>1. PICK ready \in BOOLEAN : job' = [job EXCEPT ![w].at = "graded", ![w].ready = ready]
      BY <1>4 DEF Investigate
    <2>2. job' \in [Workers -> JobState]
      <3> HIDE DEF JobState
      <3> QED
        BY <2>1, GradedType
    <2>3. \A v \in Workers : job'[v].run = job[v].run /\ (job'[v].at # "idle" <=> job[v].at # "idle")
      BY <1>4, <2>1 DEF Investigate
    <2> QED
      BY <1>4, <2>1, <2>2, <2>3 DEF Investigate
  <1>5. CASE Persist(w)
    <2>1. job[w].run \in Runs /\ job[w].seen \in CaseStates /\ job[w].ready \in BOOLEAN
      BY <1>5 DEF Persist
    <2>2. caseState' \in CaseStates
      BY <1>5, <2>1, OutcomeType DEF Persist
    <2> QED
      BY <1>5, <2>1, <2>2 DEF Persist, WriteRun, RunStatus
  <1>6. CASE Finish(w)
    BY <1>6 DEF Finish, CaseStates
  <1>7. CASE AttemptFails(w)
    BY <1>7 DEF AttemptFails, MayFail
  <1>8. CASE RecordFailure(w)
    BY <1>8 DEF RecordFailure, RunStatus, CaseStates
  <1>9. CASE WorkerDies(w)
    BY <1>9 DEF WorkerDies, CaseStates
  <1> QED
    BY <1>1, <1>2, <1>3, <1>4, <1>5, <1>6, <1>7, <1>8, <1>9 DEF JobStep

LEMMA OtherTypeInv ==
  ASSUME TypeInv, CaseGoesStale \/ \E r \in Runs : Requeue(r)
  PROVE  TypeInv'
  <1> USE DEF TypeInv, TypeOK, Filled, rows
  <1>1. CASE CaseGoesStale
    BY <1>1 DEF CaseGoesStale, CaseStates
  <1>2. ASSUME NEW r \in Runs, Requeue(r)
        PROVE  TypeInv'
    BY <1>2 DEF Requeue
  <1> QED
    BY <1>1, <1>2

LEMMA NextTypeInv == TypeInv /\ [Next]_vars => TypeInv'
  <1> SUFFICES ASSUME TypeInv, [Next]_vars PROVE TypeInv'
    OBVIOUS
  <1>1. CASE UNCHANGED vars
    BY <1>1 DEF TypeInv, TypeOK, Filled, vars, rows
  <1>2. CASE Next
    BY <1>2, PostTypeInv, JobTypeInv, OtherTypeInv DEF Next, PostStep
  <1> QED
    BY <1>1, <1>2

LEMMA TypeInvariant == Spec => []TypeInv
  BY InitTypeInv, NextTypeInv, PTL DEF Spec

\* Every variable keeps its type: no attempt is started beyond MAX_RETRIES, and
\* no row, request or worker is ever in a state the code does not name.
THEOREM TypeCorrect == Spec => []TypeOK
  <1>1. TypeInv => TypeOK
    BY DEF TypeInv
  <1> QED
    BY <1>1, TypeInvariant, PTL

-----------------------------------------------------------------------------
(* Delivery.  OneDelivery speaks of a run once it is on the queue; it holds *)
(* because a run gets there from the one caller that inserted it, and that  *)
(* caller is the only one that has it until then.                           *)

Holds(w, r) == job[w].run = r
Unsent(c, r) == post[c].at = "inserted" /\ post[c].run = r

Placed ==
    /\ \A r \in Runs, v, w \in Workers : Holds(v, r) /\ Holds(w, r) => v = w
    /\ \A r \in queue : r \notin dead /\ \A w \in Workers : ~Holds(w, r)
    /\ \A r \in dead, w \in Workers : ~Holds(w, r)
    /\ \A r \in Runs, c \in Clients :
          Unsent(c, r) => /\ r \notin queue \cup dead
                          /\ \A w \in Workers : ~Holds(w, r)
                          /\ \A d \in Clients : Unsent(d, r) => d = c
    /\ \A c \in Clients : post[c].at \in {"inserted", "unsent"} => status[post[c].run] # "none"
    /\ \A r \in Runs : status[r] = "none" =>
          /\ r \notin queue \cup dead
          /\ \A w \in Workers : ~Holds(w, r)
    /\ \A w \in Workers : job[w].at = "idle" => job[w].run = "none"

LEMMA InitPlaced == Init => Placed
  BY RunAssumption DEF Init, Placed, Holds, Unsent, NoPost, NoJob

LEMMA PostPlaced ==
  ASSUME TypeInv, Placed, NEW c \in Clients, PostStep(c)
  PROVE  Placed'
  <1> USE RunAssumption DEF TypeInv, TypeOK, Filled, PostState, Placed, Holds, Unsent, NoPost, rows
  <1>1. ASSUME NEW k \in RunKeys \cup {"none"}, PostCheck(c, k)
        PROVE  Placed'
    BY <1>1 DEF PostCheck
  <1>2. ASSUME NEW r \in Runs, PostInsert(c, r)
        PROVE  Placed'
    BY <1>2 DEF PostInsert
  <1>3. CASE PostEnqueue(c)
    BY <1>3 DEF PostEnqueue
  <1>4. CASE PostEnqueueFails(c)
    BY <1>4 DEF PostEnqueueFails
  <1>5. CASE PostMarkFailed(c)
    BY <1>5 DEF PostMarkFailed
  <1>6. CASE PostAborts(c)
    BY <1>6 DEF PostAborts
  <1> QED
    BY <1>1, <1>2, <1>3, <1>4, <1>5, <1>6 DEF PostStep, PostReturns

\* Most steps of a worker leave its run, and who holds what, alone.
LEMMA SameHolderPlaced ==
  ASSUME TypeInv, Placed,
         \A w \in Workers : job'[w].run = job[w].run /\ (job'[w].at = "idle" => job[w].at = "idle"),
         \A r \in Runs : status'[r] = "none" => status[r] = "none",
         UNCHANGED <<post, queue, dead>>
  PROVE  Placed'
  BY DEF TypeInv, TypeOK, Filled, Placed, Holds, Unsent

LEMMA JobPlaced ==
  ASSUME TypeInv, Placed, NEW w \in Workers,
         JobStep(w) \/ WorkerDies(w) \/ \E r \in Runs : Deliver(w, r)
  PROVE  Placed'
  <1> USE RunAssumption DEF TypeInv, TypeOK, Filled, JobState, rows, Moves
  <1>1. ASSUME NEW r \in Runs, Deliver(w, r)
        PROVE  Placed'
    BY <1>1 DEF Deliver, Placed, Holds, Unsent
  <1>2. CASE MarkRunning(w)
    BY <1>2, SameHolderPlaced DEF MarkRunning
  <1>3. CASE Bind(w)
    BY <1>3, SameHolderPlaced DEF Bind
  <1>4. CASE Investigate(w)
    BY <1>4, SameHolderPlaced DEF Investigate
  <1>5. CASE Persist(w)
    BY <1>5, SameHolderPlaced DEF Persist, WriteRun
  <1>6. CASE Finish(w)
    BY <1>6 DEF Finish, Placed, Holds, Unsent, NoJob
  <1>7. CASE AttemptFails(w)
    BY <1>7, SameHolderPlaced DEF AttemptFails, MayFail
  <1>8. CASE RecordFailure(w)
    BY <1>8 DEF RecordFailure, Placed, Holds, Unsent, NoJob
  <1>9. CASE WorkerDies(w)
    BY <1>9 DEF WorkerDies, Placed, Holds, Unsent, NoJob
  <1> QED
    BY <1>1, <1>2, <1>3, <1>4, <1>5, <1>6, <1>7, <1>8, <1>9 DEF JobStep

LEMMA OtherPlaced ==
  ASSUME TypeInv, Placed, CaseGoesStale \/ \E r \in Runs : Requeue(r)
  PROVE  Placed'
  <1>1. CASE CaseGoesStale
    BY <1>1 DEF CaseGoesStale, Placed, Holds, Unsent
  <1>2. ASSUME NEW r \in Runs, Requeue(r)
        PROVE  Placed'
    BY <1>2 DEF Requeue, Placed, Holds, Unsent, rows
  <1> QED
    BY <1>1, <1>2

LEMMA PlacedInvariant == Spec => [](TypeInv /\ Placed)
  <1>1. Placed /\ TypeInv /\ [Next]_vars => Placed'
    <2> SUFFICES ASSUME Placed, TypeInv, [Next]_vars PROVE Placed'
      OBVIOUS
    <2>1. CASE UNCHANGED vars
      BY <2>1 DEF Placed, Holds, Unsent, vars, rows
    <2>2. CASE Next
      BY <2>2, PostPlaced, JobPlaced, OtherPlaced DEF Next, PostStep
    <2> QED
      BY <2>1, <2>2
  <1> QED
    BY <1>1, InitPlaced, TypeInvariant, PTL DEF Spec

\* A run's job is on the queue, in the failed registry or with one worker, and
\* never in two of them, whatever faults the environment produces.
THEOREM DeliveredOnce == Spec => []OneDelivery
  <1>1. TypeInv /\ Placed => OneDelivery
    BY DEF TypeInv, TypeOK, Placed, OneDelivery, Holders, Holds
  <1> QED
    BY <1>1, PlacedInvariant, PTL

-----------------------------------------------------------------------------
(* What a settled run has in the database, and who holds a running one.    *)

LEMMA WholeInvariant == Spec => [](TypeInv /\ SettledIsWhole)
  <1>1. Init => SettledIsWhole
    BY DEF Init, SettledIsWhole
  <1>2. TypeInv /\ SettledIsWhole /\ [Next]_vars => SettledIsWhole'
    <2> SUFFICES ASSUME TypeInv, SettledIsWhole, [Next]_vars PROVE SettledIsWhole'
      OBVIOUS
    <2> USE DEF TypeInv, TypeOK, Filled, SettledIsWhole, rows
    <2>1. CASE UNCHANGED <<status, claimed, covered>> /\ evidenced \subseteq evidenced'
      BY <2>1
    <2>2. ASSUME NEW c \in Clients, NEW r \in Runs, PostInsert(c, r)
          PROVE  SettledIsWhole'
      BY <2>2 DEF PostInsert
    <2>3. ASSUME NEW c \in Clients, PostMarkFailed(c)
          PROVE  SettledIsWhole'
      BY <2>3 DEF PostMarkFailed
    <2>4. ASSUME NEW w \in Workers, Persist(w)
          PROVE  SettledIsWhole'
      BY <2>4 DEF Persist, WriteRun, Moves
    <2>5. ASSUME NEW w \in Workers, MarkRunning(w) \/ RecordFailure(w)
          PROVE  SettledIsWhole'
      BY <2>5 DEF MarkRunning, RecordFailure
    <2>6. CASE UNCHANGED vars
      BY <2>1, <2>6 DEF vars
    <2> QED
      BY <2>1, <2>2, <2>3, <2>4, <2>5, <2>6
      DEF Next, PostCheck, PostReturns, PostEnqueue, PostEnqueueFails, PostAborts, Deliver,
          JobStep, Bind, Investigate, Finish, AttemptFails, WorkerDies, Requeue, CaseGoesStale
  <1> QED
    BY <1>1, <1>2, TypeInvariant, PTL DEF Spec

\* A run that says COMPLETED or PARTIAL has its claims and its evidence, and a COMPLETED
\* one its coverage, in the database: every fault falls before or after the one commit.
THEOREM AlwaysWhole == Spec => []SettledIsWhole
  BY WholeInvariant, PTL

\* RunningIsHeld, and what makes it inductive: only the holder of a run marks
\* it RUNNING, and it does not let go before it has settled it.
Watched ==
    /\ \A r \in Runs : status[r] = "RUNNING" =>
          r \in queue \cup dead \/ \E w \in Workers : Holds(w, r)
    /\ \A w \in Workers : job[w].at = "persisted" => status[job[w].run] # "RUNNING"

LEMMA JobWatched ==
  ASSUME TypeInv, Placed, Watched, NEW w \in Workers,
         JobStep(w) \/ WorkerDies(w) \/ \E r \in Runs : Deliver(w, r)
  PROVE  Watched'
  <1> USE RunAssumption DEF TypeInv, TypeOK, Filled, JobState, rows, Moves, Watched, Holds
  <1>1. ASSUME NEW r \in Runs, Deliver(w, r)
        PROVE  Watched'
    BY <1>1 DEF Deliver, Placed
  <1>2. CASE MarkRunning(w)
    BY <1>2 DEF MarkRunning, Placed
  <1>3. CASE Bind(w)
    <2>1. job' = [job EXCEPT ![w].at = "bound", ![w].seen = caseState] /\ UNCHANGED <<status, queue, dead>>
      BY <1>3 DEF Bind
    <2>2. \A v \in Workers : job'[v].run = job[v].run
      BY <2>1
    <2>3. \A v \in Workers : job'[v].at = "persisted" => job[v].at = "persisted"
      BY <2>1
    <2> QED
      BY <2>1, <2>2, <2>3
  <1>4. CASE Investigate(w)
    BY <1>4 DEF Investigate
  <1>5. CASE Persist(w)
    BY <1>5 DEF Persist, WriteRun
  <1>6. CASE Finish(w)
    BY <1>6 DEF Finish, NoJob
  <1>7. CASE AttemptFails(w)
    BY <1>7 DEF AttemptFails, MayFail
  <1>8. CASE RecordFailure(w)
    BY <1>8 DEF RecordFailure, NoJob
  <1>9. CASE WorkerDies(w)
    BY <1>9 DEF WorkerDies, NoJob
  <1> QED
    BY <1>1, <1>2, <1>3, <1>4, <1>5, <1>6, <1>7, <1>8, <1>9 DEF JobStep

LEMMA OtherWatched ==
  ASSUME TypeInv, Placed, Watched,
         (\E c \in Clients : PostStep(c)) \/ CaseGoesStale \/ \E r \in Runs : Requeue(r)
  PROVE  Watched'
  <1> USE DEF TypeInv, TypeOK, Filled, rows, Watched, Holds
  <1>1. ASSUME NEW c \in Clients, NEW r \in Runs, PostInsert(c, r)
        PROVE  Watched'
    BY <1>1 DEF PostInsert, Placed
  <1>2. ASSUME NEW c \in Clients, PostMarkFailed(c)
        PROVE  Watched'
    BY <1>2 DEF PostMarkFailed
  <1>3. CASE UNCHANGED <<status, job>> /\ queue \cup dead \subseteq (queue \cup dead)'
    BY <1>3
  <1> QED
    BY <1>1, <1>2, <1>3
    DEF PostStep, PostCheck, PostReturns, PostEnqueue, PostEnqueueFails, PostAborts, Requeue,
        CaseGoesStale

\* A run never says RUNNING while its job is lost.
THEOREM HeldWhileRunning == Spec => []RunningIsHeld
  <1>1. Init => Watched
    BY DEF Init, Watched, Holds, NoJob
  <1>2. TypeInv /\ Placed /\ Watched /\ [Next]_vars => Watched'
    <2> SUFFICES ASSUME TypeInv, Placed, Watched, [Next]_vars PROVE Watched'
      OBVIOUS
    <2>1. CASE UNCHANGED vars
      BY <2>1 DEF vars, rows, Watched, Holds
    <2>2. CASE Next
      BY <2>2, JobWatched, OtherWatched DEF Next, PostStep
    <2> QED
      BY <2>1, <2>2
  <1>3. Watched => RunningIsHeld
    BY DEF Watched, RunningIsHeld, Holders, Holds
  <1> QED
    BY <1>1, <1>2, <1>3, PlacedInvariant, PTL DEF Spec

-----------------------------------------------------------------------------
(* Results, where no reply of Redis is lost and no re-read fails: after     *)
(* the former PostMarkFailed overwrites a result that a worker has settled  *)
(* meanwhile, after the latter the next attempt persists the run once more. *)

Undisturbed == Faults \cap {"lostReply", "reread"} = {}

Done == {"COMPLETED", "PARTIAL"}

\* A caller that has not answered yet still owns its run; a worker on a run
\* works on one that is not done; and claims are those of a run that is.
Once ==
    /\ \A c \in Clients : post[c].at \in {"inserted", "unsent"} =>
          /\ status[post[c].run] = "QUEUED"
          /\ post[c].run \notin queue \cup dead
          /\ \A w \in Workers : ~Holds(w, post[c].run)
          /\ \A d \in Clients : post[d].at \in {"inserted", "unsent"} /\ post[d].run = post[c].run => d = c
    /\ \A r \in Runs : claimed[r] <= 1 /\ (claimed[r] > 0 => status[r] \in Done)
    /\ \A w \in Workers : job[w].at \notin {"idle", "persisted"} => status[job[w].run] \notin Done

\* No step but an attempt's own commit touches a result.
Stands == \A r \in Runs : status[r] \in Done => status'[r] = status[r]

LEMMA PostOnce ==
  ASSUME Undisturbed, TypeInv, Placed, Once, NEW c \in Clients, PostStep(c)
  PROVE  Once' /\ Stands
  <1> USE DEF TypeInv, TypeOK, Filled, PostState, Placed, Holds, Unsent, Once, Stands, Done, NoPost, rows
  <1>1. ASSUME NEW k \in RunKeys \cup {"none"}, PostCheck(c, k)
        PROVE  Once' /\ Stands
    BY <1>1 DEF PostCheck
  <1>2. ASSUME NEW r \in Runs, PostInsert(c, r)
        PROVE  Once' /\ Stands
    BY <1>2 DEF PostInsert
  <1>3. CASE PostEnqueue(c)
    BY <1>3 DEF PostEnqueue
  <1>4. CASE PostEnqueueFails(c)
    BY <1>4 DEF PostEnqueueFails, Undisturbed
  <1>5. CASE PostMarkFailed(c)
    BY <1>5 DEF PostMarkFailed
  <1>6. CASE PostAborts(c)
    BY <1>6 DEF PostAborts
  <1> QED
    BY <1>1, <1>2, <1>3, <1>4, <1>5, <1>6 DEF PostStep, PostReturns

LEMMA JobOnce ==
  ASSUME Undisturbed, TypeInv, Placed, Once, NEW w \in Workers,
         JobStep(w) \/ WorkerDies(w) \/ \E r \in Runs : Deliver(w, r)
  PROVE  Once' /\ Stands
  <1> USE RunAssumption
      DEF TypeInv, TypeOK, Filled, JobState, rows, Moves, Once, Stands, Done, Holds
  <1>1. ASSUME NEW r \in Runs, Deliver(w, r)
        PROVE  Once' /\ Stands
    BY <1>1 DEF Deliver
  <1>2. CASE MarkRunning(w)
    BY <1>2 DEF MarkRunning, Placed
  <1>3. CASE Bind(w)
    BY <1>3 DEF Bind
  <1>4. CASE Investigate(w)
    BY <1>4 DEF Investigate
  <1>5. CASE Persist(w)
    BY <1>5 DEF Persist, WriteRun, Placed
  <1>6. CASE Finish(w)
    BY <1>6 DEF Finish, NoJob
  <1>7. CASE AttemptFails(w)
    BY <1>7 DEF AttemptFails, MayFail, Undisturbed
  <1>8. CASE RecordFailure(w)
    BY <1>8 DEF RecordFailure, NoJob
  <1>9. CASE WorkerDies(w)
    BY <1>9 DEF WorkerDies, NoJob
  <1> QED
    BY <1>1, <1>2, <1>3, <1>4, <1>5, <1>6, <1>7, <1>8, <1>9 DEF JobStep

LEMMA OtherOnce ==
  ASSUME TypeInv, Placed, Once, CaseGoesStale \/ \E r \in Runs : Requeue(r)
  PROVE  Once' /\ Stands
  <1> USE DEF TypeInv, TypeOK, Filled, rows, Once, Stands, Holds
  <1>1. CASE CaseGoesStale
    BY <1>1 DEF CaseGoesStale
  <1>2. ASSUME NEW r \in Runs, Requeue(r)
        PROVE  Once' /\ Stands
    BY <1>2 DEF Requeue
  <1> QED
    BY <1>1, <1>2

LEMMA NextOnce ==
  ASSUME Undisturbed, TypeInv, Placed, Once, [Next]_vars
  PROVE  Once' /\ Stands
  <1>1. CASE UNCHANGED vars
    BY <1>1 DEF vars, rows, Once, Stands, Holds
  <1>2. CASE Next
    BY <1>2, PostOnce, JobOnce, OtherOnce DEF Next, PostStep
  <1> QED
    BY <1>1, <1>2

LEMMA InitOnce == Init => Once
  BY DEF Init, Once, NoPost, NoJob

\* No redelivery, retry or worker's death inserts the claims of a run twice.
THEOREM InsertedOnce ==
  ASSUME Undisturbed
  PROVE  Spec => []ClaimsInsertedOnce
  <1>1. TypeInv /\ Placed /\ Once /\ [Next]_vars => Once'
    BY NextOnce
  <1>2. Once => ClaimsInsertedOnce
    BY DEF Once, ClaimsInsertedOnce
  <1> QED
    BY <1>1, <1>2, InitOnce, PlacedInvariant, PTL DEF Spec

\* A run that has settled on COMPLETED or PARTIAL says so for ever.
THEOREM ResultsAlwaysStand ==
  ASSUME Undisturbed
  PROVE  Spec => ResultStands
  <1>1. TypeInv /\ Placed /\ Once /\ [Next]_vars => Once'
    BY NextOnce
  <1>2. TypeInv /\ Placed /\ Once /\ [Next]_vars =>
          [\A r \in Runs : status[r] \in {"COMPLETED", "PARTIAL"} => status'[r] = status[r]]_status
    BY NextOnce DEF Stands, Done
  <1> QED
    BY <1>1, <1>2, InitOnce, PlacedInvariant, PTL DEF Spec, ResultStands

\* A case that is EVIDENCE_READY rests on a run that covered every mandatory
\* class and still says COMPLETED.
THEOREM ReadyAlwaysGrounded ==
  ASSUME Undisturbed
  PROVE  Spec => []ReadyHasCompletedRun
  <1>1. Init => ReadyHasCompletedRun
    BY DEF Init, ReadyHasCompletedRun
  <1>2. TypeInv /\ Placed /\ Once /\ ReadyHasCompletedRun /\ [Next]_vars => ReadyHasCompletedRun'
    <2> SUFFICES ASSUME TypeInv, Placed, Once, ReadyHasCompletedRun, [Next]_vars
                 PROVE  ReadyHasCompletedRun'
      OBVIOUS
    <2>1. Stands
      BY NextOnce
    <2>2. ASSUME NEW w \in Workers, Persist(w)
          PROVE  ReadyHasCompletedRun'
      <3> DEFINE r == job[w].run
                 seen == job[w].seen
      <3>1. r \in Runs /\ seen \in CaseStates /\ covered \subseteq covered'
        BY <2>2 DEF Persist, Moves, WriteRun, TypeInv, TypeOK, Filled, JobState
      <3>2. CASE job[w].ready
        BY <2>2, <3>1, <3>2 DEF Persist, WriteRun, ReadyHasCompletedRun, TypeInv, TypeOK
      <3>3. CASE ~job[w].ready
        <4>1. Researching(seen) # "EVIDENCE_READY"
          BY <3>1 DEF Researching, Advance, LegalTransitions, CaseStates
        <4>2. caseState' = caseState \/ caseState' # "EVIDENCE_READY"
          BY <2>2, <3>3, <4>1 DEF Persist, Outcome
        <4> QED
          BY <2>1, <3>1, <4>2 DEF ReadyHasCompletedRun, Stands, Done, TypeInv, TypeOK
      <3> QED
        BY <3>2, <3>3
    <2>3. CASE caseState' \in {caseState, "STALE"} /\ UNCHANGED covered
      BY <2>1, <2>3 DEF ReadyHasCompletedRun, Stands, Done, TypeInv, TypeOK
    <2> QED
      BY <2>2, <2>3
      DEF Next, vars, rows, PostCheck, PostInsert, PostReturns, PostEnqueue, PostEnqueueFails,
          PostMarkFailed, PostAborts, Deliver, JobStep, MarkRunning, Bind, Investigate, Finish,
          AttemptFails, RecordFailure, WorkerDies, Requeue, CaseGoesStale
  <1>3. TypeInv /\ Placed /\ Once /\ [Next]_vars => Once'
    BY NextOnce
  <1> QED
    BY <1>1, <1>2, <1>3, InitOnce, PlacedInvariant, PTL DEF Spec

=============================================================================
