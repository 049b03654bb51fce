--------------------------- MODULE JobQueueProofs ---------------------------
(***************************************************************************)
(* Proofs about JobQueue for any finite set of jobs, any semaphore sizes   *)
(* and any number of retries.                                              *)
(***************************************************************************)
EXTENDS JobQueue, FiniteSetTheorems, TLAPS

-----------------------------------------------------------------------------
(* Type correctness.                                                       *)

LEMMA InitTypeOK == Init => TypeOK
  BY QueueAssumption DEF Init, TypeOK, Slotted, Kinds, Working, Status, Settled, Params, Exiting

LEMMA EnqueueTypeOK ==
  ASSUME TypeOK, NEW j \in Jobs, Enqueue(j)
  PROVE  TypeOK'
  <1> USE DEF TypeOK, Launch, Acquire, record, thread, token, cancel, Slotted, Kinds, Working,
              Exiting, Status, Settled, Params
  <1>1. CASE EnqueuePipeline(j)
    BY <1>1 DEF EnqueuePipeline, EnqueueFallback
  <1>2. CASE EnqueueSupervisor(j)
    BY <1>2 DEF EnqueueSupervisor
  <1>3. CASE EnqueueDigest(j)
    BY <1>3 DEF EnqueueDigest
  <1> QED
    BY <1>1, <1>2, <1>3 DEF Enqueue

LEMMA ThreadTypeOK ==
  ASSUME TypeOK, NEW j \in Jobs, ThreadStep(j)
  PROVE  TypeOK'
  <1> USE QueueAssumption DEF TypeOK, Goto, WriteRecord, record, thread, token, cancel, Slotted,
              Kinds, Working, Exiting, Status, Settled, Params
  <1>1. CASE TakeToken(j)
    BY <1>1 DEF TakeToken
  <1>2. CASE CrawlEnds(j)
    BY <1>2 DEF CrawlEnds
  <1>3. CASE Store(j)
    BY <1>3 DEF Store
  <1>4. CASE ReportPipeline(j)
    BY <1>4 DEF ReportPipeline
  <1>5. CASE ReadStop(j)
    BY <1>5 DEF ReadStop
  <1>6. CASE ReportSupervisor(j)
    BY <1>6 DEF ReportSupervisor
  <1>7. CASE ReportDigest(j)
    BY <1>7 DEF ReportDigest
  <1>8. CASE NextAttempt(j)
    <2>1. attempt[j] + 1 \in 1 .. MaxRetries + 1
      BY <1>8 DEF NextAttempt, MayRetry
    <2> QED
      BY <1>8, <2>1 DEF NextAttempt
  <1>9. CASE GiveUp(j)
    BY <1>9 DEF GiveUp
  <1>10. CASE ReleaseToken(j)
    BY <1>10 DEF ReleaseToken
  <1>11. CASE ReleaseSlot(j)
    BY <1>11 DEF ReleaseSlot
  <1>12. CASE DigestExits(j)
    BY <1>12 DEF DigestExits
  <1> QED
    BY <1>1, <1>2, <1>3, <1>4, <1>5, <1>6, <1>7, <1>8, <1>9, <1>10, <1>11, <1>12
    DEF ThreadStep

LEMMA CancelTypeOK ==
  ASSUME TypeOK, NEW j \in Jobs, CancelCheck(j) \/ CancelReturns(j)
  PROVE  TypeOK'
  <1> USE DEF TypeOK, record, thread, token, cancel, Slotted, Kinds, Working, Exiting, Status,
              Settled, Params
  <1>1. CASE CancelCheck(j)
    BY <1>1 DEF CancelCheck
  <1>2. CASE CancelLookup(j)
    BY <1>2 DEF CancelLookup
  <1>3. CASE CancelSignal(j)
    BY <1>3 DEF CancelSignal
  <1>4. CASE CancelForce(j)
    BY <1>4 DEF CancelForce
  <1> QED
    BY <1>1, <1>2, <1>3, <1>4 DEF CancelReturns

LEMMA RetryTypeOK ==
  ASSUME TypeOK, RetryReturns \/ \E j \in Jobs : RetryTake(j)
  PROVE  TypeOK'
  <1> USE DEF TypeOK, record, thread, token, cancel, Slotted, Kinds, Working, Exiting, Status,
              Settled, Params
  <1>1. ASSUME NEW j \in Jobs, RetryTake(j)
        PROVE  TypeOK'
    BY <1>1 DEF RetryTake
  <1>2. ASSUME NEW r \in retrying, NEW j \in Jobs, RetryLaunch(r, j)
        PROVE  TypeOK'
    BY <1>2 DEF RetryLaunch, EnqueueFallback, Launch, Acquire
  <1>3. ASSUME NEW r \in retrying, RetryRefused(r)
        PROVE  TypeOK'
    BY <1>3 DEF RetryRefused
  <1> QED
    BY <1>1, <1>2, <1>3 DEF RetryReturns

LEMMA NextTypeOK == TypeOK /\ [Next]_vars => TypeOK'
  <1> SUFFICES ASSUME TypeOK, [Next]_vars PROVE TypeOK'
    OBVIOUS
  <1>1. CASE UNCHANGED vars
    BY <1>1 DEF TypeOK, vars, record, thread, token, cancel
  <1>2. CASE Next
    BY <1>2, EnqueueTypeOK, ThreadTypeOK, CancelTypeOK, RetryTypeOK DEF Next
  <1> QED
    BY <1>1, <1>2

\* Every variable keeps its type: in particular no semaphore goes negative and
\* no chain starts more attempts than MAX_PIPELINE_RETRIES allows.
THEOREM TypeCorrect == Spec => []TypeOK
  BY InitTypeOK, NextTypeOK, PTL DEF Spec

-----------------------------------------------------------------------------
(* Slots.  A step leaves the holders of a slot and the semaphore alone, or *)
(* adds one holder and takes one slot, or the reverse.                     *)

Kept(k) == Holders(k)' = Holders(k) /\ free'[k] = free[k]

Taken(k) ==
    /\ free'[k] = free[k] - 1
    /\ \E j \in Jobs \ Holders(k) : Holders(k)' = Holders(k) \cup {j}

Returned(k) ==
    /\ free'[k] = free[k] + 1
    /\ \E j \in Holders(k) : Holders(k)' = Holders(k) \ {j}

LEMMA LaunchTakes ==
  ASSUME TypeOK, NEW j \in Jobs, NEW k \in Slotted, NEW params, NEW rec,
         Acquire(k), Launch(j, k, params, rec, "spawned")
  PROVE  \A c \in Slotted : IF c = k THEN Taken(c) ELSE Kept(c)
  <1>1. kind' = [kind EXCEPT ![j] = k] /\ pc' = [pc EXCEPT ![j] = "spawned"] /\ pc[j] = "unused"
    BY DEF Launch
  <1>2. free' = [free EXCEPT ![k] = @ - 1]
    BY DEF Acquire
  <1>3. Holders(k)' = Holders(k) \cup {j} /\ j \notin Holders(k)
    BY <1>1 DEF Holders, Alive, Working, Exiting, TypeOK
  <1>4. \A c \in Slotted : c # k => Holders(c)' = Holders(c)
    BY <1>1 DEF Holders, Alive, Working, Exiting, TypeOK
  <1> QED
    BY <1>2, <1>3, <1>4 DEF Taken, Kept, TypeOK

LEMMA EnqueueSlots ==
  ASSUME TypeOK, NEW j \in Jobs, NEW k \in Slotted,
         Enqueue(j) \/ \E r \in retrying : RetryLaunch(r, j)
  PROVE  Kept(k) \/ Taken(k)
  <1>1. CASE EnqueueSupervisor(j)
    BY <1>1, LaunchTakes DEF EnqueueSupervisor, Slotted
  <1>2. CASE EnqueueDigest(j)
    BY <1>2 DEF EnqueueDigest, Launch, Kept, Holders, Alive, Working, Exiting, Slotted, TypeOK
  <1>3. CASE EnqueuePipeline(j) \/ \E r \in retrying : RetryLaunch(r, j)
    <2>1. PICK params : EnqueueFallback(j, params)
      BY <1>3 DEF EnqueuePipeline, RetryLaunch
    <2> QED
      BY <2>1, LaunchTakes DEF EnqueueFallback, Slotted
  <1> QED
    BY <1>1, <1>2, <1>3 DEF Enqueue

LEMMA ThreadSlots ==
  ASSUME TypeOK, NEW j \in Jobs, NEW k \in Slotted, ThreadStep(j)
  PROVE  Kept(k) \/ Returned(k)
  <1> USE DEF Kept, Holders, Alive, Working, Exiting, Goto, TypeOK
  <1>1. CASE ReleaseSlot(j)
    <2>1. j \in Holders(kind[j]) /\ pc' = [pc EXCEPT ![j] = "done"] /\ kind' = kind
      BY <1>1 DEF ReleaseSlot
    <2>2. Holders(kind[j])' = Holders(kind[j]) \ {j}
      BY <2>1
    <2>3. kind[j] # k => Holders(k)' = Holders(k)
      BY <2>1
    <2>4. free' = [free EXCEPT ![kind[j]] = @ + 1]
      BY <1>1 DEF ReleaseSlot
    <2> QED
      BY <2>1, <2>2, <2>3, <2>4 DEF Returned
  <1>2. CASE DigestExits(j)
    BY <1>2 DEF DigestExits, Slotted
  <1>3. CASE TakeToken(j) \/ CrawlEnds(j) \/ Store(j)
    BY <1>3 DEF TakeToken, CrawlEnds, Store
  <1>4. CASE ReportPipeline(j) \/ ReadStop(j) \/ ReportSupervisor(j) \/ ReportDigest(j)
    BY <1>4 DEF ReportPipeline, ReadStop, ReportSupervisor, ReportDigest
  <1>5. CASE NextAttempt(j) \/ GiveUp(j) \/ ReleaseToken(j)
    BY <1>5 DEF NextAttempt, GiveUp, ReleaseToken
  <1> QED
    BY <1>1, <1>2, <1>3, <1>4, <1>5 DEF ThreadStep

LEMMA StepSlots ==
  ASSUME TypeOK, [Next]_vars, NEW k \in Slotted
  PROVE  Kept(k) \/ Taken(k) \/ Returned(k)
  <1>1. CASE \E j \in Jobs : Enqueue(j) \/ \E r \in retrying : RetryLaunch(r, j)
    BY <1>1, EnqueueSlots
  <1>2. CASE \E j \in Jobs : ThreadStep(j)
    BY <1>2, ThreadSlots
  <1>3. CASE \E j \in Jobs : CancelCheck(j) \/ CancelReturns(j) \/ RetryTake(j)
    BY <1>3 DEF CancelCheck, CancelReturns, CancelLookup, CancelSignal, CancelForce, RetryTake,
                Kept, Holders, Alive, thread
  <1>4. CASE (\E r \in retrying : RetryRefused(r)) \/ UNCHANGED vars
    BY <1>4 DEF RetryRefused, Kept, Holders, Alive, thread, vars
  <1> QED
    BY <1>1, <1>2, <1>3, <1>4 DEF Next, RetryReturns

LEMMA HoldersFinite == \A k \in Slotted : IsFiniteSet(Holders(k)) /\ Cardinality(Holders(k)) \in Nat
  BY QueueAssumption, FS_Subset, FS_CardinalityType DEF Holders

LEMMA SlotsStep == TypeOK /\ SlotsAccounted /\ [Next]_vars => SlotsAccounted'
  <1> SUFFICES ASSUME TypeOK, SlotsAccounted, [Next]_vars, NEW k \in Slotted
               PROVE  free'[k] + Cardinality(Holders(k)') = Slots[k]
    BY DEF SlotsAccounted
  <1>1. IsFiniteSet(Holders(k)) /\ Cardinality(Holders(k)) \in Nat
    BY HoldersFinite
  <1>2. free[k] + Cardinality(Holders(k)) = Slots[k] /\ free[k] \in Nat
    BY DEF SlotsAccounted, TypeOK
  <1>3. CASE Kept(k)
    BY <1>2, <1>3 DEF Kept
  <1>4. CASE Taken(k)
    <2>1. Cardinality(Holders(k)') = Cardinality(Holders(k)) + 1
      BY <1>1, <1>4, FS_AddElement DEF Taken
    <2> QED
      BY <1>1, <1>2, <1>4, <2>1 DEF Taken
  <1>5. CASE Returned(k)
    <2>1. Cardinality(Holders(k)') = Cardinality(Holders(k)) - 1
      BY <1>1, <1>5, FS_RemoveElement DEF Returned
    <2> QED
      BY <1>1, <1>2, <1>5, <2>1 DEF Returned
  <1> QED
    BY <1>3, <1>4, <1>5, StepSlots

LEMMA InitSlots == Init => SlotsAccounted
  <1> SUFFICES ASSUME Init, NEW k \in Slotted
               PROVE  free[k] + Cardinality(Holders(k)) = Slots[k]
    BY DEF SlotsAccounted
  <1>1. Holders(k) = {}
    BY DEF Init, Holders, Alive, Working, Exiting
  <1>2. Cardinality(Holders(k)) = 0
    BY <1>1, FS_EmptySet
  <1> QED
    BY <1>2, QueueAssumption DEF Init

\* No slot leaks and none is given back twice, through any retry chain, refused
\* request, forced cancellation or dead-letter retry.
THEOREM SlotsAlwaysAccounted == Spec => []SlotsAccounted
  BY InitSlots, SlotsStep, TypeCorrect, PTL DEF Spec

\* At most Slots[k] jobs of kind k are ever alive at once; with one supervisor
\* slot, two supervisor syncs never overlap.
THEOREM CapHolds == Spec => []ConcurrencyCap
  <1>1. TypeOK /\ SlotsAccounted => ConcurrencyCap
    <2> SUFFICES ASSUME TypeOK, SlotsAccounted, NEW k \in Slotted
                 PROVE  Cardinality(Holders(k)) <= Slots[k]
      BY DEF ConcurrencyCap
    <2>1. free[k] + Cardinality(Holders(k)) = Slots[k] /\ free[k] \in Nat
      BY DEF SlotsAccounted, TypeOK
    <2> QED
      BY <2>1, HoldersFinite
  <1> QED
    BY <1>1, TypeCorrect, SlotsAlwaysAccounted, PTL

-----------------------------------------------------------------------------
(* The life of a record and of a token.                                    *)

\* The thread has been through TakeToken at least once.
Registered(j) == pc[j] # "unused" /\ (pc[j] = "spawned" => attempt[j] > 1)

\* The inductive invariant: where a thread is bounds what its record says and
\* what the registry holds; a canceller's token was once a registered one.
LifecycleInv ==
  \A j \in Jobs :
    /\ pc[j] = "unused" => status[j] = "absent" /\ attempt[j] = 1
    /\ pc[j] = "spawned" => kind[j] \in Slotted
    /\ status[j] = "running" => pc[j] \in Working
    /\ status[j] \in {"completed", "failed"} => pc[j] \in Exiting \cup {"done"}
    /\ pc[j] \in {"returned", "deciding"} \/ status[j] = "completed" => stored[j]
    /\ pc[j] \in Working /\ kind[j] \in Slotted /\ Registered(j) => registered[j]
    /\ registered[j] \/ event[j] \/ call[j] = "found" => Registered(j)
    /\ kind[j] = "pipeline" /\ pc[j] \in {"released", "done"} => ~registered[j]

LEMMA InitLifecycle == Init => LifecycleInv
  BY DEF Init, LifecycleInv, Registered, Working, Exiting

LEMMA EnqueueLifecycle ==
  ASSUME TypeOK, LifecycleInv, NEW j \in Jobs,
         Enqueue(j) \/ \E r \in retrying : RetryLaunch(r, j)
  PROVE  LifecycleInv'
  <1>1. PICK k, params, rec, at :
           /\ k \in Kinds
           /\ Launch(j, k, params, rec, at)
           /\ \/ k \in Slotted /\ at = "spawned"
              \/ k = "digest" /\ at = "crawling"
    BY DEF Enqueue, EnqueuePipeline, EnqueueSupervisor, EnqueueDigest, RetryLaunch,
           EnqueueFallback, Kinds, Slotted
  <1> QED
    BY <1>1 DEF Launch, LifecycleInv, Registered, Working, Exiting, TypeOK, token, cancel, Slotted

LEMMA ThreadLifecycle ==
  ASSUME TypeOK, LifecycleInv, NEW j \in Jobs, ThreadStep(j)
  PROVE  LifecycleInv'
  <1> USE DEF LifecycleInv, Registered, Working, Exiting, TypeOK, Goto, record, token, cancel,
              WriteRecord, Slotted
  <1>1. CASE TakeToken(j)
    BY <1>1 DEF TakeToken
  <1>2. CASE CrawlEnds(j)
    BY <1>2 DEF CrawlEnds
  <1>3. CASE Store(j)
    BY <1>3 DEF Store
  <1>4. CASE ReportPipeline(j)
    BY <1>4 DEF ReportPipeline
  <1>5. CASE ReadStop(j)
    BY <1>5 DEF ReadStop
  <1>6. CASE ReportSupervisor(j)
    BY <1>6 DEF ReportSupervisor
  <1>7. CASE ReportDigest(j)
    BY <1>7 DEF ReportDigest
  <1>8. CASE NextAttempt(j)
    BY <1>8 DEF NextAttempt, MayRetry
  <1>9. CASE GiveUp(j)
    BY <1>9 DEF GiveUp
  <1>10. CASE ReleaseToken(j)
    BY <1>10 DEF ReleaseToken
  <1>11. CASE ReleaseSlot(j)
    BY <1>11 DEF ReleaseSlot
  <1>12. CASE DigestExits(j)
    BY <1>12 DEF DigestExits
  <1> QED
    BY <1>1, <1>2, <1>3, <1>4, <1>5, <1>6, <1>7, <1>8, <1>9, <1>10, <1>11, <1>12
    DEF ThreadStep

LEMMA NextLifecycle == TypeOK /\ LifecycleInv /\ [Next]_vars => LifecycleInv'
  <1> SUFFICES ASSUME TypeOK, LifecycleInv, [Next]_vars PROVE LifecycleInv'
    OBVIOUS
  <1> USE DEF LifecycleInv, Registered, Working, Exiting, TypeOK, record, thread, token, cancel
  <1>1. CASE \E j \in Jobs : CancelCheck(j) \/ CancelReturns(j)
    BY <1>1 DEF CancelCheck, CancelReturns, CancelLookup, CancelSignal, CancelForce
  <1>2. CASE \E j \in Jobs : RetryTake(j)
    BY <1>2 DEF RetryTake
  <1>3. CASE (\E r \in retrying : RetryRefused(r)) \/ UNCHANGED vars
    BY <1>3 DEF RetryRefused, vars
  <1>4. CASE \E j \in Jobs : Enqueue(j) \/ \E r \in retrying : RetryLaunch(r, j)
    BY <1>4, EnqueueLifecycle
  <1>5. CASE \E j \in Jobs : ThreadStep(j)
    BY <1>5, ThreadLifecycle
  <1> QED
    BY <1>1, <1>2, <1>3, <1>4, <1>5 DEF Next, RetryReturns

THEOREM LifecycleHolds == Spec => []LifecycleInv
  BY InitLifecycle, NextLifecycle, TypeCorrect, PTL DEF Spec

\* A record that says "running" always has a thread that will settle it.
THEOREM RunningAlwaysOwned == Spec => []RunningIsOwned
  <1>1. LifecycleInv => RunningIsOwned
    BY DEF LifecycleInv, RunningIsOwned
  <1> QED
    BY <1>1, LifecycleHolds, PTL

\* cancel_job finds a live token at any point of a retry chain.
THEOREM CancelAlwaysReaches == Spec => []CancelReachesRetries
  <1>1. LifecycleInv => CancelReachesRetries
    BY DEF LifecycleInv, CancelReachesRetries, Registered, Working
  <1> QED
    BY <1>1, LifecycleHolds, PTL

\* A job that reports "completed" has been through its save step.
THEOREM CompletedAlwaysSaved == Spec => []CompletedIsSaved
  <1>1. LifecycleInv => CompletedIsSaved
    BY DEF LifecycleInv, CompletedIsSaved
  <1> QED
    BY <1>1, LifecycleHolds, PTL

\* The registry forgets every pipeline run.
THEOREM PipelineTokensAlwaysForgotten == Spec => []PipelineTokensForgotten
  <1>1. LifecycleInv => PipelineTokensForgotten
    BY DEF LifecycleInv, PipelineTokensForgotten
  <1> QED
    BY <1>1, LifecycleHolds, PTL

\* A cancellation that landed is never lost to a later attempt.
THEOREM CancelAlwaysSticky == Spec => CancelIsSticky
  <1>1. LifecycleInv /\ TypeOK /\ [Next]_vars => [\A j \in Jobs : event[j] => event'[j]]_event
    <2> SUFFICES ASSUME LifecycleInv, TypeOK, Next, NEW i \in Jobs, event[i]
                 PROVE  event'[i]
      BY DEF vars, token
    <2>1. ASSUME NEW j \in Jobs, TakeToken(j)
          PROVE  event'[i]
      BY <2>1 DEF TakeToken, Goto, LifecycleInv, Registered, Working, TypeOK
    <2>2. ASSUME NEW j \in Jobs, ThreadStep(j), ~TakeToken(j)
          PROVE  event'[i]
      BY <2>2 DEF ThreadStep, CrawlEnds, Store, ReportPipeline, ReadStop, ReportSupervisor,
                  ReportDigest, NextAttempt, GiveUp, ReleaseToken, ReleaseSlot, DigestExits, token
    <2>3. ASSUME NEW j \in Jobs,
                 Enqueue(j) \/ CancelCheck(j) \/ CancelReturns(j) \/ RetryTake(j)
          PROVE  event'[i]
      BY <2>3 DEF Enqueue, EnqueuePipeline, EnqueueFallback, EnqueueSupervisor, EnqueueDigest,
                  Launch, CancelCheck, CancelReturns, CancelLookup, CancelSignal, CancelForce,
                  RetryTake, token, TypeOK
    <2>4. CASE RetryReturns
      BY <2>4 DEF RetryReturns, RetryRefused, RetryLaunch, EnqueueFallback, Launch, token
    <2> QED
      BY <2>1, <2>2, <2>3, <2>4 DEF Next
  <1> QED
    BY <1>1, LifecycleHolds, TypeCorrect, PTL DEF Spec, CancelIsSticky

\* No interleaving of reports, forced cancellations and retries rewrites a
\* settled record: only retry_job takes a failed one away.
THEOREM SettledAlwaysStand == Spec => SettledRecordsStand
  <1> DEFINE Stands(j) == /\ status[j] = "completed" => status'[j] = "completed"
                          /\ status[j] = "failed" => status'[j] \in {"failed", "absent"}
  <1>1. LifecycleInv /\ TypeOK /\ [Next]_vars => [\A j \in Jobs : Stands(j)]_status
    <2> SUFFICES ASSUME LifecycleInv, TypeOK, Next, NEW i \in Jobs
                 PROVE  Stands(i)
      BY DEF vars, record
    <2>1. ASSUME NEW j \in Jobs, ThreadStep(j)
          PROVE  Stands(i)
      BY <2>1 DEF ThreadStep, TakeToken, CrawlEnds, Store, ReportPipeline, ReadStop,
                  ReportSupervisor, ReportDigest, NextAttempt, GiveUp, ReleaseToken, ReleaseSlot,
                  DigestExits, Goto, WriteRecord, record, LifecycleInv, Exiting, TypeOK
    <2>2. ASSUME NEW j \in Jobs,
                 Enqueue(j) \/ CancelCheck(j) \/ CancelReturns(j) \/ RetryTake(j)
          PROVE  Stands(i)
      BY <2>2 DEF Enqueue, EnqueuePipeline, EnqueueFallback, EnqueueSupervisor, EnqueueDigest,
                  Launch, CancelCheck, CancelReturns, CancelLookup, CancelSignal, CancelForce,
                  RetryTake, record, LifecycleInv, TypeOK
    <2>3. CASE RetryReturns
      BY <2>3 DEF RetryReturns, RetryRefused, RetryLaunch, EnqueueFallback, Launch, record,
                  LifecycleInv, TypeOK
    <2> QED
      BY <2>1, <2>2, <2>3 DEF Next
  <1> QED
    BY <1>1, LifecycleHolds, TypeCorrect, PTL DEF Spec, SettledRecordsStand

-----------------------------------------------------------------------------
(* The queue implements the job board.                                     *)

\* The thread of a job finds its record, and nobody but a cancellation has settled it.
Recorded == \A j \in Jobs : pc[j] \in Working => status[j] \in {"running", "cancelled"}

LEMMA InitRecorded == Init => Recorded
  BY DEF Init, Recorded, Working

LEMMA ThreadRecorded ==
  ASSUME TypeOK, Recorded, NEW j \in Jobs, ThreadStep(j)
  PROVE  Recorded'
  <1> USE DEF Recorded, TypeOK, Goto, Working, record, WriteRecord
  <1>1. CASE TakeToken(j) \/ CrawlEnds(j) \/ Store(j)
    BY <1>1 DEF TakeToken, CrawlEnds, Store
  <1>2. CASE ReportPipeline(j) \/ ReadStop(j) \/ ReportSupervisor(j) \/ ReportDigest(j)
    BY <1>2 DEF ReportPipeline, ReadStop, ReportSupervisor, ReportDigest
  <1>3. CASE NextAttempt(j) \/ GiveUp(j)
    BY <1>3 DEF NextAttempt, GiveUp
  <1>4. CASE ReleaseToken(j) \/ ReleaseSlot(j) \/ DigestExits(j)
    BY <1>4 DEF ReleaseToken, ReleaseSlot, DigestExits
  <1> QED
    BY <1>1, <1>2, <1>3, <1>4 DEF ThreadStep

LEMMA NextRecorded == TypeOK /\ LifecycleInv /\ Recorded /\ [Next]_vars => Recorded'
  <1> SUFFICES ASSUME TypeOK, LifecycleInv, Recorded, [Next]_vars PROVE Recorded'
    OBVIOUS
  <1> USE DEF Recorded, TypeOK
  <1>1. CASE \E j \in Jobs : CancelCheck(j) \/ CancelReturns(j)
    BY <1>1 DEF CancelCheck, CancelReturns, CancelLookup, CancelSignal, CancelForce, record, thread
  <1>2. CASE \E j \in Jobs : RetryTake(j)
    BY <1>2 DEF RetryTake, LifecycleInv, Working, Exiting, thread
  <1>3. CASE (\E r \in retrying : RetryRefused(r)) \/ UNCHANGED vars
    BY <1>3 DEF RetryRefused, vars, record, thread
  <1>4. CASE \E j \in Jobs : Enqueue(j) \/ \E r \in retrying : RetryLaunch(r, j)
    BY <1>4 DEF Enqueue, EnqueuePipeline, EnqueueSupervisor, EnqueueDigest, RetryLaunch, EnqueueFallback, Launch
  <1>5. CASE \E j \in Jobs : ThreadStep(j)
    BY <1>5, ThreadRecorded
  <1> QED
    BY <1>1, <1>2, <1>3, <1>4, <1>5 DEF Next, RetryReturns

\* The steps of the board that a step of the queue is, if it is not a stutter.
Admits(j, c) ==
    /\ Place(j) = "new"
    /\ Cardinality({i \in Jobs : Place(i) = "in" /\ kind[i] = c}) < IF c \in Slotted THEN Slots[c] ELSE Cardinality(Jobs)
    /\ [i \in Jobs |-> Place(i)]' = [[i \in Jobs |-> Place(i)] EXCEPT ![j] = "in"]
    /\ kind' = [kind EXCEPT ![j] = c]
    /\ status' = [status EXCEPT ![j] = "running"]
Concludes(j, o) ==
    /\ Place(j) = "in" /\ status[j] \in {"running", "cancelled"}
    /\ status' = [status EXCEPT ![j] = o]
    /\ [i \in Jobs |-> Place(i)]' = [i \in Jobs |-> Place(i)] /\ kind' = kind
Leaves(j) ==
    /\ Place(j) = "in" /\ status[j] # "running"
    /\ [i \in Jobs |-> Place(i)]' = [[i \in Jobs |-> Place(i)] EXCEPT ![j] = "out"]
    /\ kind' = kind /\ status' = status
Withdraws(j) ==
    /\ status[j] = "failed" /\ status' = [status EXCEPT ![j] = "absent"]
    /\ [i \in Jobs |-> Place(i)]' = [i \in Jobs |-> Place(i)] /\ kind' = kind
Stays == [i \in Jobs |-> Place(i)]' = [i \in Jobs |-> Place(i)] /\ kind' = kind /\ status' = status

LEMMA PlacedSame == ASSUME pc' = pc PROVE [i \in Jobs |-> Place(i)]' = [i \in Jobs |-> Place(i)]
  BY DEF Place

LEMMA PlacedIn ==
  ASSUME TypeOK, NEW j \in Jobs, NEW to \in {"spawned", "crawling"}, pc' = [pc EXCEPT ![j] = to]
  PROVE  [i \in Jobs |-> Place(i)]' = [[i \in Jobs |-> Place(i)] EXCEPT ![j] = "in"]
  BY DEF Place, TypeOK

LEMMA PlacedOut ==
  ASSUME TypeOK, NEW j \in Jobs, pc' = [pc EXCEPT ![j] = "done"]
  PROVE  [i \in Jobs |-> Place(i)]' = [[i \in Jobs |-> Place(i)] EXCEPT ![j] = "out"]
  BY DEF Place, TypeOK

LEMMA PlacedInside ==
  ASSUME TypeOK, NEW j \in Jobs, NEW to \in Working \cup Exiting, Place(j) = "in", pc' = [pc EXCEPT ![j] = to]
  PROVE  [i \in Jobs |-> Place(i)]' = [i \in Jobs |-> Place(i)]
  BY DEF Place, TypeOK, Working, Exiting

LEMMA HoldersAreInside ==
  ASSUME TypeOK, NEW k \in Kinds
  PROVE  {i \in Jobs : Place(i) = "in" /\ kind[i] = k} = Holders(k)
  BY DEF Place, Holders, Alive, TypeOK, Working, Exiting

LEMMA LaunchAdmits ==
  ASSUME TypeOK, SlotsAccounted, NEW j \in Jobs, NEW k \in Kinds, NEW params, NEW rec,
         NEW to \in {"spawned", "crawling"}, k \in Slotted => free[k] > 0, Launch(j, k, params, rec, to)
  PROVE  Admits(j, k)
  <1>1. pc[j] = "unused" /\ pc' = [pc EXCEPT ![j] = to]
        /\ kind' = [kind EXCEPT ![j] = k] /\ status' = [status EXCEPT ![j] = "running"]
    BY DEF Launch
  <1>2. Place(j) = "new"
    BY <1>1 DEF Place
  <1>3. [i \in Jobs |-> Place(i)]' = [[i \in Jobs |-> Place(i)] EXCEPT ![j] = "in"]
    BY <1>1, PlacedIn
  <1>4. Cardinality(Holders(k)) < IF k \in Slotted THEN Slots[k] ELSE Cardinality(Jobs)
    <2>1. CASE k \in Slotted
      <3>1. free[k] + Cardinality(Holders(k)) = Slots[k] /\ free[k] \in Nat /\ free[k] > 0
        BY <2>1 DEF SlotsAccounted, TypeOK
      <3>2. Cardinality(Holders(k)) \in Nat
        BY <2>1, HoldersFinite
      <3> QED
        BY <2>1, <3>1, <3>2
    <2>2. CASE k \notin Slotted
      <3>1. Holders(k) \subseteq Jobs \ {j}
        BY <1>1 DEF Holders, Alive, Working, Exiting
      <3>2. IsFiniteSet(Jobs \ {j}) /\ Cardinality(Jobs \ {j}) = Cardinality(Jobs) - 1
        BY QueueAssumption, FS_RemoveElement
      <3>3. Cardinality(Holders(k)) <= Cardinality(Jobs \ {j})
        BY <3>1, <3>2, FS_Subset
      <3>4. IsFiniteSet(Holders(k))
        BY <3>1, <3>2, FS_Subset
      <3>5. Cardinality(Holders(k)) \in Nat /\ Cardinality(Jobs) \in Nat
        BY <3>4, QueueAssumption, FS_CardinalityType
      <3> QED
        BY <2>2, <3>2, <3>3, <3>5
    <2> QED
      BY <2>1, <2>2
  <1> QED
    BY <1>1, <1>2, <1>3, <1>4, HoldersAreInside DEF Admits

LEMMA ThreadOnBoard ==
  ASSUME TypeOK, LifecycleInv, Recorded, NEW j \in Jobs, ThreadStep(j)
  PROVE  (\E o \in Settled : Concludes(j, o)) \/ Leaves(j) \/ Stays
  <1>1. CASE TakeToken(j) \/ CrawlEnds(j) \/ Store(j) \/ ReadStop(j) \/ NextAttempt(j)
    <2>1. status' = status /\ kind' = kind /\ Place(j) = "in"
      BY <1>1 DEF TakeToken, CrawlEnds, Store, ReadStop, NextAttempt, record, Goto, Place
    <2>2. PICK to \in Working : pc' = [pc EXCEPT ![j] = to]
      BY <1>1 DEF TakeToken, CrawlEnds, Store, ReadStop, NextAttempt, Goto, Working
    <2> QED
      BY <2>1, <2>2, PlacedInside DEF Stays
  <1>2. CASE ReportPipeline(j) \/ ReportSupervisor(j) \/ ReportDigest(j) \/ GiveUp(j)
    <2>1. pc[j] \in Working /\ Place(j) = "in" /\ pc' = [pc EXCEPT ![j] = "recorded"] /\ kind' = kind
      BY <1>2 DEF ReportPipeline, ReportSupervisor, ReportDigest, GiveUp, Goto, Place, Working
    <2>2. [i \in Jobs |-> Place(i)]' = [i \in Jobs |-> Place(i)]
      BY <2>1, PlacedInside DEF Exiting
    <2>3. status' = status \/ \E o \in Settled : status' = [status EXCEPT ![j] = o]
      BY <1>2 DEF ReportPipeline, ReportSupervisor, ReportDigest, GiveUp, WriteRecord, Settled, record
    <2>4. status[j] \in {"running", "cancelled"}
      BY <2>1 DEF Recorded
    <2> QED
      BY <2>1, <2>2, <2>3, <2>4 DEF Concludes, Stays
  <1>3. CASE ReleaseToken(j)
    <2>1. status' = status /\ kind' = kind /\ Place(j) = "in" /\ pc' = [pc EXCEPT ![j] = "released"]
      BY <1>3 DEF ReleaseToken, record, Goto, Place
    <2> QED
      BY <2>1, PlacedInside DEF Stays, Exiting
  <1>4. CASE ReleaseSlot(j) \/ DigestExits(j)
    <2>1. pc[j] \in Exiting /\ Place(j) = "in" /\ pc' = [pc EXCEPT ![j] = "done"] /\ kind' = kind /\ status' = status
      BY <1>4 DEF ReleaseSlot, DigestExits, Goto, Place, Exiting, record
    <2>2. [i \in Jobs |-> Place(i)]' = [[i \in Jobs |-> Place(i)] EXCEPT ![j] = "out"]
      BY <2>1, PlacedOut
    <2>3. status[j] # "running"
      BY <2>1 DEF LifecycleInv, Working, Exiting
    <2> QED
      BY <2>1, <2>2, <2>3 DEF Leaves
  <1> QED
    BY <1>1, <1>2, <1>3, <1>4 DEF ThreadStep

LEMMA OnBoard ==
  ASSUME TypeOK, LifecycleInv, Recorded, SlotsAccounted, [Next]_vars
  PROVE  \/ \E j \in Jobs : (\E c \in Kinds : Admits(j, c)) \/ (\E o \in Settled : Concludes(j, o)) \/ Leaves(j) \/ Withdraws(j)
         \/ Stays
  <1>1. ASSUME NEW j \in Jobs, Enqueue(j) \/ \E r \in retrying : RetryLaunch(r, j)
        PROVE  \E c \in Kinds : Admits(j, c)
    <2>1. CASE EnqueuePipeline(j) \/ \E r \in retrying : RetryLaunch(r, j)
      <3>1. PICK params : EnqueueFallback(j, params)
        BY <2>1 DEF EnqueuePipeline, RetryLaunch
      <3>2. free["pipeline"] > 0 /\ Launch(j, "pipeline", params, params \cap {"scope"}, "spawned")
        BY <3>1 DEF EnqueueFallback, Acquire
      <3>3. Admits(j, "pipeline")
        BY <3>2, LaunchAdmits DEF Kinds, Slotted
      <3> QED
        BY <3>3 DEF Kinds, Slotted
    <2>2. CASE EnqueueSupervisor(j)
      <3>1. free["supervisor"] > 0 /\ Launch(j, "supervisor", {"scope", "limit"}, {"scope"}, "spawned")
        BY <2>2 DEF EnqueueSupervisor, Acquire
      <3>2. Admits(j, "supervisor")
        BY <3>1, LaunchAdmits DEF Kinds, Slotted
      <3> QED
        BY <3>2 DEF Kinds, Slotted
    <2>3. CASE EnqueueDigest(j)
      <3>1. Launch(j, "digest", {}, {}, "crawling") /\ "digest" \notin Slotted
        BY <2>3 DEF EnqueueDigest, Slotted
      <3>2. Admits(j, "digest")
        BY <3>1, LaunchAdmits DEF Kinds
      <3> QED
        BY <3>2 DEF Kinds
    <2> QED
      BY <1>1, <2>1, <2>2, <2>3 DEF Enqueue
  <1>2. ASSUME NEW j \in Jobs, CancelCheck(j) \/ CancelReturns(j)
        PROVE  (\E o \in Settled : Concludes(j, o)) \/ Stays
    <2>1. pc' = pc /\ kind' = kind
      BY <1>2 DEF CancelCheck, CancelReturns, CancelLookup, CancelSignal, CancelForce, thread
    <2>2. status' = status \/ (status[j] = "running" /\ status' = [status EXCEPT ![j] = "cancelled"])
      BY <1>2 DEF CancelCheck, CancelReturns, CancelLookup, CancelSignal, CancelForce, record, TypeOK
    <2>3. status[j] = "running" => Place(j) = "in"
      BY DEF LifecycleInv, Place, Working
    <2> QED
      BY <2>1, <2>2, <2>3, PlacedSame DEF Concludes, Stays, Settled
  <1>3. ASSUME NEW j \in Jobs, RetryTake(j) PROVE Withdraws(j)
    BY <1>3, PlacedSame DEF RetryTake, Withdraws, thread
  <1>4. CASE (\E r \in retrying : RetryRefused(r)) \/ UNCHANGED vars
    <2>1. pc' = pc /\ kind' = kind /\ status' = status
      BY <1>4 DEF RetryRefused, vars, record, thread
    <2> QED
      BY <2>1, PlacedSame DEF Stays
  <1> QED
    BY <1>1, <1>2, <1>3, <1>4, ThreadOnBoard DEF Next, RetryReturns

\* Threads, retries, tokens and semaphores are details: for any jobs and slots the queue
\* does what the job board does, which knows none of them (JobBoard).
THEOREM BoardImplemented == Spec => ImplementsBoard
  <1>1. Init => Board!BoardInit
    BY DEF Init, Board!BoardInit, Place, Kinds, Slotted
  <1>2. TypeOK /\ LifecycleInv /\ Recorded /\ SlotsAccounted /\ [Next]_vars => [Board!BoardNext]_Board!boardVars
    <2> SUFFICES ASSUME TypeOK, LifecycleInv, Recorded, SlotsAccounted, [Next]_vars
                 PROVE  [Board!BoardNext]_Board!boardVars
      OBVIOUS
    <2> DEFINE places == [i \in Jobs |-> Place(i)]
    <2>1. ASSUME NEW j \in Jobs, NEW c \in Kinds, Admits(j, c) PROVE Board!Admit(j, c)
      <3>1. Board!Inside(c) = {i \in Jobs : Place(i) = "in" /\ kind[i] = c}
        BY DEF Board!Inside
      <3> QED
        BY <2>1, <3>1 DEF Admits, Board!Admit, Board!Cardinality, Cardinality
    <2>2. ASSUME NEW j \in Jobs, NEW o \in Settled, Concludes(j, o) PROVE Board!Conclude(j, o) /\ o \in Board!Final
      BY <2>2 DEF Concludes, Board!Conclude, Board!Final, Settled
    <2>3. ASSUME NEW j \in Jobs, Leaves(j) PROVE Board!Leave(j)
      BY <2>3 DEF Leaves, Board!Leave
    <2>4. ASSUME NEW j \in Jobs, Withdraws(j) PROVE Board!Withdraw(j)
      BY <2>4 DEF Withdraws, Board!Withdraw
    <2>5. CASE Stays
      BY <2>5 DEF Stays, Board!boardVars
    <2> QED
      BY <2>1, <2>2, <2>3, <2>4, <2>5, OnBoard DEF Board!BoardNext
  <1>3. TypeOK /\ LifecycleInv /\ Recorded /\ [Next]_vars => Recorded'
    BY NextRecorded
  <1> QED
    BY <1>1, <1>2, <1>3, InitRecorded, TypeCorrect, LifecycleHolds, SlotsAlwaysAccounted, PTL
    DEF Spec, ImplementsBoard, Board!BoardSpec
=============================================================================
