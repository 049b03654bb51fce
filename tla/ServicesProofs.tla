---------------------------- MODULE ServicesProofs ----------------------------
(* The services' safety properties for every value of their constants.       *)
EXTENDS Services, PipelineRun, LoopProofs

-----------------------------------------------------------------------------
(* The weekly digest.                                                      *)

Busy == {"select", "enqueue", "release"}

\* While Redis answers, the claim is held by whoever selects or enqueues, nothing is in
\* the queue before it enqueues, and what it has still to enqueue has not been sent.
DigestInv ==
    /\ week \in Nat \ {0} /\ hiccups \in Nat
    /\ digestAt \in [Crons -> {"idle", "claim"} \union Busy]
    /\ todo \in [Crons -> SUBSET Subscribers] /\ wants \subseteq Subscribers
    /\ queued \in [Subscribers -> Nat] /\ events \in [Subscribers -> Nat]
    /\ redis /\ hiccups = 0 =>
          /\ \A c, d \in Crons : digestAt[c] \in Busy /\ digestAt[d] \in Busy => c = d
          /\ (claim = 0 \/ \E c \in Crons : digestAt[c] \in {"select", "release"}) => queued = D!Nothing /\ events = D!Nothing
          /\ claim = 0 => \A c \in Crons : digestAt[c] \notin Busy
          /\ \A c \in Crons : digestAt[c] = "enqueue" => \A p \in todo[c] : queued[p] + events[p] = 0
          /\ \A p \in Subscribers : queued[p] + events[p] <= 1

LEMMA DigestInvInit == D!Init => DigestInv
BY DEF D!Init, D!Nothing, DigestInv, Busy

LEMMA DigestInvNext == DigestInv /\ D!Next => DigestInv'
<1> SUFFICES ASSUME DigestInv, D!Next PROVE DigestInv'
  OBVIOUS
<1> USE DEF DigestInv, Busy
<1>1. ASSUME NEW c \in Crons, D!Call(c) PROVE DigestInv'
  BY <1>1 DEF D!Call, D!Go
<1>2. ASSUME NEW c \in Crons, D!Claim(c) PROVE DigestInv'
  BY <1>2 DEF D!Claim, D!Go, D!ClaimInProcess
<1>3. ASSUME NEW c \in Crons, D!Select(c) PROVE DigestInv'
  BY <1>3 DEF D!Select, D!Go, D!Nothing
<1>4. ASSUME NEW c \in Crons, D!Enqueue(c) PROVE DigestInv'
  BY <1>4 DEF D!Enqueue, D!Nothing
<1>5. ASSUME NEW c \in Crons, D!Done(c) PROVE DigestInv'
  BY <1>5 DEF D!Done, D!Go
<1>6. ASSUME NEW c \in Crons, D!Release(c) PROVE DigestInv'
  BY <1>6 DEF D!Release, D!Go
<1>7. ASSUME NEW c \in Crons, D!Die(c) PROVE DigestInv'
  BY <1>7 DEF D!Die
<1>8. ASSUME NEW p \in Subscribers, D!Deliver(p) PROVE DigestInv'
  BY <1>8 DEF D!Deliver, D!Nothing
<1>9. ASSUME NEW p \in Subscribers, D!Unsubscribe(p) PROVE DigestInv'
  BY <1>9 DEF D!Unsubscribe
<1>10. ASSUME D!NextWeek PROVE DigestInv'
  BY <1>10 DEF D!NextWeek, D!Nothing
<1> QED BY <1>1, <1>2, <1>3, <1>4, <1>5, <1>6, <1>7, <1>8, <1>9, <1>10 DEF D!Next

\* Whatever number of schedulers run, interleave, fail or die: no profile is sent two digests
\* in a week while Redis answers (tasks.py:955).
THEOREM ServicesOneDigest == ServicesSpec => []OneDigestAWeek
<1> DEFINE Inv == part = "digest" => DigestInv
<1>1. ServicesInit => Inv
  BY DigestInvInit DEF ServicesInit, AtStart
<1>2. Inv /\ [ServicesNext]_services => Inv'
  <2> SUFFICES ASSUME Inv, [ServicesNext]_services PROVE Inv'
    OBVIOUS
  <2>1. CASE part = "digest" /\ D!Next /\ part' = part
    BY <2>1, DigestInvNext
  <2>2. CASE part # "digest" /\ part' = part
    BY <2>2
  <2>3. CASE UNCHANGED services
    BY <2>3 DEF services, digest, DigestInv
  <2> QED
    BY <2>1, <2>2, <2>3 DEF ServicesNext
<1>3. Inv => OneDigestAWeek
  BY DEF OneDigestAWeek, DigestInv, D!OneDigestAWeek
<1> QED
  BY <1>1, <1>2, <1>3, PTL DEF ServicesSpec

-----------------------------------------------------------------------------
(* The source monitor.                                                     *)

\* A check that the mark of store s has let send.
Sends(c, s) == checkAt[c] = "send" /\ by[c] = s
Debouncing == {"idle", "due", "mark", "memory", "send"}

MonitorTypes ==
    /\ hour \in Nat \ {0}
    /\ lastAlert \in [S!Stores -> Nat] /\ \A s \in S!Stores : lastAlert[s] <= hour
    /\ alerts \in [S!Stores -> Nat]
    /\ checkAt \in [Clients -> Debouncing] /\ by \in [Clients -> S!Stores]

\* Unless two checks raced, one at most is between the get of Redis and having sent.
RedisGuards ==
    /\ \A c \in Clients : checkAt[c] = "mark" => redis
    /\ ~alertRaced =>
          /\ \A c, d \in Clients : (checkAt[c] = "mark" \/ Sends(c, "redis")) /\ (checkAt[d] = "mark" \/ Sends(d, "redis")) => c = d
          /\ \A c \in Clients : checkAt[c] = "mark" => lastAlert["redis"] # hour
          /\ \A c \in Clients : Sends(c, "redis") => lastAlert["redis"] = hour /\ alerts["redis"] = 0
          /\ lastAlert["redis"] # hour => alerts["redis"] = 0
          /\ alerts["redis"] <= 1

\* A process lets one check send, for the lock, and none that Redis has answered.
MemoryGuards ==
    \A p \in Processes :
        /\ \A c, d \in Clients : Sends(c, p) /\ Sends(d, p) => c = d
        /\ \A c \in Clients : Sends(c, p) => lastAlert[p] = hour /\ alerts[p] = 0
        /\ lastAlert[p] # hour => alerts[p] = 0
        /\ alerts[p] <= 1
        /\ redis /\ p \notin unanswered =>
              /\ alerts[p] = 0
              /\ \A c \in Clients : ~Sends(c, p) /\ (checkAt[c] = "memory" => ProcessOf(c) # p)

MonitorInv == MonitorTypes /\ RedisGuards /\ MemoryGuards

LEMMA StoresAre == "redis" \in S!Stores /\ \A p \in Processes : p \in S!Stores /\ p # "redis"
BY ServicesAssumption DEF S!Stores

LEMMA CheckerHasProcess == \A c \in Clients : ProcessOf(c) \in Processes
BY ServicesAssumption

LEMMA MonitorInvInit == S!Init => MonitorInv
BY StoresAre DEF S!Init, MonitorInv, MonitorTypes, RedisGuards, MemoryGuards, Sends, Debouncing

\* The step of one check changes where that check is, and maybe one mark or one count.
LEMMA MonitorInvNext == MonitorInv /\ S!Next => MonitorInv'
<1> SUFFICES ASSUME MonitorInv, S!Next PROVE MonitorInv'
  OBVIOUS
<1> USE StoresAre, CheckerHasProcess DEF MonitorInv, Sends, Debouncing
<1>1. ASSUME NEW p \in Processes, NEW r, S!Push(p, r) PROVE MonitorInv'
  BY <1>1 DEF S!Push, MonitorTypes, RedisGuards, MemoryGuards
<1>2. ASSUME NEW c \in Clients, S!Check(c) PROVE MonitorInv'
  <2>1. checkAt[c] = "idle" /\ checkAt' = [checkAt EXCEPT ![c] = "due"]
        /\ UNCHANGED <<redis, hour, lastAlert, by, alerts, unanswered, alertRaced>>
    BY <1>2 DEF S!Check
  <2> QED
    BY <2>1 DEF MonitorTypes, RedisGuards, MemoryGuards
<1>3. ASSUME NEW c \in Clients, S!Due(c) PROVE MonitorInv'
  <2>1. checkAt[c] = "due" /\ UNCHANGED <<redis, hour, lastAlert, by, alerts>>
    BY <1>3 DEF S!Due
  <2>2. CASE redis /\ lastAlert["redis"] # hour /\ checkAt' = [checkAt EXCEPT ![c] = "mark"]
             /\ alertRaced' = (alertRaced \/ \E d \in Clients : checkAt[d] = "mark") /\ UNCHANGED unanswered
    <3>1. ~alertRaced' => ~alertRaced /\ \A d \in Clients : checkAt[d] # "mark"
      BY <2>2, Zenon
    <3>2. MonitorTypes' /\ MemoryGuards'
      BY <2>1, <2>2 DEF MonitorTypes, MemoryGuards
    <3>3. redis /\ lastAlert["redis"] # hour /\ checkAt' = [checkAt EXCEPT ![c] = "mark"] /\ redis' = redis
      BY <2>1, <2>2
    <3>4. RedisGuards'
      BY <2>1, <3>1, <3>3 DEF MonitorTypes, RedisGuards
    <3> QED
      BY <3>2, <3>4
  <2>3. CASE (checkAt' = [checkAt EXCEPT ![c] = "idle"] \/ checkAt' = [checkAt EXCEPT ![c] = "due"]) /\ UNCHANGED <<alertRaced, unanswered>>
    BY <2>1, <2>3 DEF MonitorTypes, RedisGuards, MemoryGuards
  <2>4. CASE /\ checkAt' = [checkAt EXCEPT ![c] = "memory"] /\ UNCHANGED alertRaced
             /\ (~redis /\ UNCHANGED unanswered) \/ unanswered' = unanswered \union {ProcessOf(c)}
    BY <2>1, <2>4 DEF MonitorTypes, RedisGuards, MemoryGuards
  <2> QED
    BY <1>3, <2>2, <2>3, <2>4 DEF S!Due, S!Go, S!Over
<1>4. ASSUME NEW c \in Clients, S!Mark(c) PROVE MonitorInv'
  <2>1. checkAt[c] = "mark" /\ redis /\ UNCHANGED <<redis, hour, alerts, alertRaced>>
    BY <1>4 DEF S!Mark, RedisGuards
  <2>2. CASE S!Marked(c, "redis") /\ UNCHANGED unanswered
    BY <2>1, <2>2 DEF S!Marked, S!Go, MonitorTypes, RedisGuards, MemoryGuards
  <2>3. ASSUME NEW t \in {lastAlert["redis"], hour}, lastAlert' = [lastAlert EXCEPT !["redis"] = t],
               checkAt' = [checkAt EXCEPT ![c] = "memory"], unanswered' = unanswered \union {ProcessOf(c)}, UNCHANGED by
        PROVE  MonitorInv'
    BY <2>1, <2>3 DEF MonitorTypes, RedisGuards, MemoryGuards
  <2> QED
    BY <1>4, <2>2, <2>3 DEF S!Mark, S!Go
<1>5. ASSUME NEW c \in Clients, S!Memory(c) PROVE MonitorInv'
  <2>1. checkAt[c] = "memory" /\ UNCHANGED <<redis, hour, alerts, unanswered, alertRaced>>
    BY <1>5 DEF S!Memory
  <2>2. CASE lastAlert[ProcessOf(c)] = hour
    <3>1. UNCHANGED <<lastAlert, by>> /\ (checkAt' = [checkAt EXCEPT ![c] = "idle"] \/ checkAt' = [checkAt EXCEPT ![c] = "due"])
      BY <1>5, <2>2 DEF S!Memory, S!Over
    <3> QED
      BY <2>1, <3>1 DEF MonitorTypes, RedisGuards, MemoryGuards
  <2>3. CASE lastAlert[ProcessOf(c)] # hour
    <3>1. lastAlert' = [lastAlert EXCEPT ![ProcessOf(c)] = hour] /\ by' = [by EXCEPT ![c] = ProcessOf(c)]
          /\ checkAt' = [checkAt EXCEPT ![c] = "send"]
      BY <1>5, <2>3 DEF S!Memory, S!Marked, S!Go
    <3> QED
      BY <2>1, <2>3, <3>1 DEF MonitorTypes, RedisGuards, MemoryGuards
  <2> QED
    BY <2>2, <2>3
<1>6. ASSUME NEW c \in Clients, S!Dispatch(c) PROVE MonitorInv'
  <2>1. checkAt[c] = "send" /\ UNCHANGED <<redis, hour, lastAlert, unanswered, alertRaced>>
    BY <1>6 DEF S!Dispatch
  <2>2. checkAt' = [checkAt EXCEPT ![c] = "idle"] \/ checkAt' = [checkAt EXCEPT ![c] = "due"]
    BY <1>6 DEF S!Dispatch, S!Over
  <2>3. alerts' = [alerts EXCEPT ![by[c]] = @ + 1] /\ by' = [by EXCEPT ![c] = "redis"]
    BY <1>6 DEF S!Dispatch
  <2> QED
    BY <2>1, <2>2, <2>3 DEF MonitorTypes, RedisGuards, MemoryGuards
<1>7. ASSUME S!NextHour PROVE MonitorInv'
  BY <1>7 DEF S!NextHour, MonitorTypes, RedisGuards, MemoryGuards
<1>8. ASSUME S!Expire PROVE MonitorInv'
  BY <1>8 DEF S!Expire, MonitorTypes, RedisGuards, MemoryGuards
<1> QED BY <1>1, <1>2, <1>3, <1>4, <1>5, <1>6, <1>7, <1>8 DEF S!Next

\* However many checks run and interleave, and whichever call to Redis raises an error, before or
\* after it is done: a source is alerted about once in an hour by the mark of Redis, unless two
\* checks raced between its get and its set, and once by that of a process, which lets none
\* through while Redis answers the process (source_monitor.py:156).
THEOREM ServicesOneAlert == ServicesSpec => []OneAlertAnHour
<1> DEFINE Inv == part = "monitor" => MonitorInv
<1>1. ServicesInit => Inv
  BY MonitorInvInit DEF ServicesInit, AtStart
<1>2. Inv /\ [ServicesNext]_services => Inv'
  <2> SUFFICES ASSUME Inv, [ServicesNext]_services PROVE Inv'
    OBVIOUS
  <2>1. CASE part = "monitor" /\ S!Next /\ part' = part
    BY <2>1, MonitorInvNext
  <2>2. CASE part # "monitor" /\ part' = part
    BY <2>2
  <2>3. CASE UNCHANGED services
    BY <2>3 DEF services, monitor, MonitorInv, MonitorTypes, RedisGuards, MemoryGuards, Sends
  <2> QED
    BY <2>1, <2>2, <2>3 DEF ServicesNext
<1>3. Inv => OneAlertAnHour
  BY DEF OneAlertAnHour, MonitorInv, RedisGuards, MemoryGuards, S!OneAlertAnHour
<1> QED
  BY <1>1, <1>2, <1>3, PTL DEF ServicesSpec

-----------------------------------------------------------------------------
(* The queue of rq.                                                        *)

Ended == {"finished", "failed", "canceled", "expired"}

\* A job that has obeyed a cancel keeps its flag until it has ended for good; while it
\* runs, an attempt either has seen the flag or has fetched nothing.
CancelInv ==
    /\ rqHiccups \in Nat
    /\ status \in [RqJobs -> {"none", "queued", "started", "scheduled"} \union Ended]
    /\ runner \in [RqJobs -> Workers \union {NoWorker}]
    /\ step \in [RqJobs -> Nat]
    /\ rqCancelled \in [RqJobs -> BOOLEAN]
    /\ obeyed \subseteq RqJobs \ Searches /\ (Checks = 0 => obeyed = {})
    /\ \A j \in RqJobs : runner[j] # NoWorker => status[j] \in {"started", "canceled"}
    /\ rqHiccups = 0 => \A j \in obeyed :
          /\ j \in flag \/ (status[j] \in Ended /\ runner[j] = NoWorker)
          /\ rqCancelled[j] = TRUE \/ step[j] = 0 \/ runner[j] = NoWorker

LEMMA CancelInvInit == Q!Init => CancelInv
BY DEF Q!Init, CancelInv

LEMMA CancelInvNext == CancelInv /\ Q!Next => CancelInv'
<1> SUFFICES ASSUME CancelInv, NEW j \in RqJobs, Q!Step(j) PROVE CancelInv'
  BY DEF Q!Next
<1> USE DEF CancelInv, Ended, Q!idle
<1>1. CASE Q!Enqueue(j)
  BY <1>1 DEF Q!Enqueue
<1>2. ASSUME NEW w \in Workers, Q!Begin(w, j) PROVE CancelInv'
  BY <1>2 DEF Q!Begin
<1>3. CASE Q!Poll(j)
  <2>1. runner[j] # NoWorker /\ UNCHANGED <<status, flag, runner, rqHiccups>> /\ Checks # 0
    BY <1>3, ServicesAssumption DEF Q!Poll, Q!RunJob
  <2>2. CASE j \in flag /\ j \notin Searches
    <3>1. step' = [step EXCEPT ![j] = Checks] /\ obeyed' = obeyed \union {j}
      BY <1>3, <2>2 DEF Q!Poll
    <3>2. rqCancelled' = [rqCancelled EXCEPT ![j] = TRUE] /\ Checks \in Nat
      BY <1>3, <2>2, ServicesAssumption DEF Q!Poll
    <3> QED
      BY <2>1, <2>2, <3>1, <3>2
  <2>3. CASE ~(j \in flag /\ j \notin Searches)
    <3>1. step' = [step EXCEPT ![j] = @ + 1] /\ UNCHANGED <<rqCancelled, obeyed>>
      BY <1>3, <2>3 DEF Q!Poll
    <3>2. rqHiccups = 0 => j \notin obeyed
      BY <2>1, <2>3
    <3> QED
      BY <2>1, <3>1, <3>2
  <2> QED
    BY <2>2, <2>3
<1>4. CASE Q!PollBlind(j)
  BY <1>4 DEF Q!PollBlind
<1>5. CASE Q!Store(j)
  BY <1>5, ServicesAssumption DEF Q!Store
<1>6. CASE Q!Finish(j)
  BY <1>6 DEF Q!Finish
<1>7. CASE Q!Raise(j)
  BY <1>7 DEF Q!Raise
<1>8. CASE Q!RetryDue(j)
  BY <1>8 DEF Q!RetryDue
<1>9. CASE Q!CancelRead(j)
  BY <1>9 DEF Q!CancelRead
<1>10. CASE Q!CancelAct(j)
  BY <1>10 DEF Q!CancelAct
<1>11. CASE Q!Requeue(j)
  BY <1>11 DEF Q!Requeue
<1>12. CASE Q!Expire(j)
  BY <1>12 DEF Q!Expire
<1> QED BY <1>1, <1>2, <1>3, <1>4, <1>5, <1>6, <1>7, <1>8, <1>9, <1>10, <1>11, <1>12 DEF Q!Step

\* A crawl that has stopped for a cancel does not fetch again when rq retries it, whatever
\* workers, requests and timers do, as long as Redis answers (cancel.py:79, tasks.py:734).
THEOREM ServicesCancelOutlives == ServicesSpec => []CancelOutlivesAttempts
<1> DEFINE Inv == part = "rq" => CancelInv
<1>1. ServicesInit => Inv
  BY CancelInvInit DEF ServicesInit, AtStart
<1>2. Inv /\ [ServicesNext]_services => Inv'
  <2>1. CASE UNCHANGED services
    BY <2>1 DEF services, rq, CancelInv
  <2> QED
    BY <2>1, CancelInvNext DEF ServicesNext
<1>3. Inv => CancelOutlivesAttempts
  BY Zenon DEF CancelInv, CancelOutlivesAttempts, Q!CancelOutlivesAttempts
<1> QED
  BY <1>1, <1>2, <1>3, PTL DEF ServicesSpec

-----------------------------------------------------------------------------
(* The HTTP client.                                                        *)

\* The row of the cache and what a fetch has read of it are versions the site has had;
\* an answer that is used is what the site held when it gave it.
PageInv ==
    /\ site \in Nat \ {0} /\ cache \in 0 .. site
    /\ DOMAIN httpAt = Clients /\ DOMAIN held = Clients /\ DOMAIN page = Clients
    /\ entry \in [Clients -> 0 .. site]
    /\ DOMAIN reply = Clients
    /\ \A c \in Clients : httpAt[c] = "answered" =>
          /\ reply[c].status = "unchanged" => entry[c] = held[c]
          /\ reply[c].status = "ok" => reply[c].body = held[c] /\ held[c] \in 1 .. site
    /\ \A c \in Clients : httpAt[c] = "idle" /\ page[c] # H!None => page[c] = held[c]

LEMMA PageInvInit == H!Init => PageInv
BY DEF H!Init, H!None, PageInv

LEMMA PageInvNext == PageInv /\ H!Next => PageInv'
<1> SUFFICES ASSUME PageInv, H!Next PROVE PageInv'
  OBVIOUS
<1> USE DEF PageInv, H!None, H!Return, H!world
<1>1. CASE H!Edit
  BY <1>1 DEF H!Edit
<1>2. ASSUME NEW c \in Clients, H!Step(c) PROVE PageInv'
  <2>1. CASE H!ReadRobots(c)
    BY <2>1 DEF H!ReadRobots
  <2>2. CASE H!Ask(c)
    BY <2>2 DEF H!Ask
  <2>3. CASE H!Answer(c)
    BY <2>3 DEF H!Answer
  <2>4. CASE H!Receive(c)
    BY <2>4 DEF H!Receive
  <2>5. CASE H!TryFingerprint(c)
    BY <2>5 DEF H!TryFingerprint
  <2>6. CASE H!Launch(c)
    BY <2>6 DEF H!Launch
  <2>7. CASE H!Render(c)
    BY <2>7 DEF H!Render
  <2>8. CASE H!RenderHeaded(c)
    BY <2>8 DEF H!RenderHeaded
  <2>9. CASE H!Close(c)
    BY <2>9 DEF H!Close
  <2> QED
    BY <1>2, <2>1, <2>2, <2>3, <2>4, <2>5, <2>6, <2>7, <2>8, <2>9 DEF H!Step
<1> QED
  BY <1>1, <1>2 DEF H!Next

-----------------------------------------------------------------------------
(* The cached lists.                                                       *)

\* No request was making list l when it was written or invalidated; nor has an
\* invalidation that failed left the entry of l.
Clean(l) == l \notin raced
Swept(l) == Clean(l) /\ l \notin unswept
Makes(r, l) == at[r] # "idle" /\ list[r] = l

\* A list under way is of the tables as they are, or raced; what the process keeps under
\* the current version is too, except between an edit and the new version.
ListsInv ==
    /\ rows \in Nat /\ profile \in Nat \ {0} /\ profile <= MaxProfile + 1
    /\ version \in Nat /\ version = profile - (IF edit = "bump" THEN 2 ELSE 1)
    /\ crawl \in {"idle", "opportunities", "matches"} /\ edit \in {"idle", "bump", "matches", "opportunities"}
    /\ at \in [Clients -> {"idle", "key", "memo", "compute", "fill"}] /\ list \in [Clients -> L!Lists]
    /\ own \in [Clients -> Nat] /\ key \in [Clients -> 0 .. version]
    /\ \A r \in Clients : at[r] \in {"key", "memo"} => list[r] = "matches"
    /\ DOMAIN value = Clients /\ DOMAIN store = L!Lists /\ DOMAIN memo = 0 .. MaxProfile
    /\ \A v \in 0 .. MaxProfile : v > version => memo[v] = L!None
    /\ Clean("opportunities") =>
          \A r \in Clients : Makes(r, "opportunities") /\ at[r] = "fill" => value[r].rows = rows
    /\ Swept("opportunities") /\ crawl # "opportunities" =>
          store["opportunities"] = L!None \/ store["opportunities"].rows = rows
    /\ Clean("matches") =>
          /\ \A r \in Clients : Makes(r, "matches") => own[r] = profile
          /\ edit # "bump" =>
                /\ memo[version] = L!None \/ memo[version].profile = profile
                /\ \A r \in Clients : Makes(r, "matches") /\ at[r] = "memo" => key[r] = version
                /\ \A r \in Clients : Makes(r, "matches") /\ at[r] = "fill" => value[r].profile = profile
    /\ Swept("matches") /\ edit \in {"idle", "opportunities"} =>
          store["matches"] = L!None \/ store["matches"].profile = profile

LEMMA ListsInvInit == L!Init => ListsInv
BY ServicesAssumption DEF L!Init, L!None, L!Lists, ListsInv, Clean, Swept, Makes

LEMMA ListsInvNext == ListsInv /\ L!Next => ListsInv'
<1> SUFFICES ASSUME ListsInv, L!Next PROVE ListsInv'
  OBVIOUS
<1>0. MaxProfile \in Nat
  BY ServicesAssumption
<1> USE <1>0 DEF ListsInv, Clean, Swept, Makes, L!Lists, L!reader, L!tables
<1>1. ASSUME NEW r \in Clients, L!Look(r) PROVE ListsInv'
  BY <1>1 DEF L!Look
<1>2. ASSUME NEW r \in Clients, L!ReadKey(r) PROVE ListsInv'
  BY <1>2 DEF L!ReadKey
<1>3. ASSUME NEW r \in Clients, L!Memoised(r) PROVE ListsInv'
  <2> DEFINE v == IF memo[key[r]] = L!None THEN L!Made(r) ELSE memo[key[r]]
  <2>1. at[r] = "memo" /\ list[r] = "matches" /\ key[r] \in 0 .. MaxProfile
    BY <1>3 DEF L!Memoised
  <2>2. memo' = [memo EXCEPT ![key[r]] = v] /\ value' = [value EXCEPT ![r] = v] /\ at' = [at EXCEPT ![r] = "fill"]
    BY <1>3 DEF L!Memoised
  <2>3. UNCHANGED <<rows, profile, store, version, list, own, key, crawl, edit, raced, unswept>>
    BY <1>3 DEF L!Memoised
  <2>4. Clean("matches") /\ edit # "bump" => key[r] = version /\ v.profile = profile
    BY <2>1 DEF L!Made
  <2> HIDE DEF v
  <2> QED
    BY <2>1, <2>2, <2>3, <2>4
<1>4. ASSUME NEW r \in Clients, L!Compute(r) PROVE ListsInv'
  BY <1>4 DEF L!Compute, L!Made
<1>5. ASSUME NEW r \in Clients, L!Fill(r) PROVE ListsInv'
  <2>1. /\ at[r] = "fill" /\ at' = [at EXCEPT ![r] = "idle"] /\ list' = [list EXCEPT ![r] = "matches"]
        /\ own' = [own EXCEPT ![r] = 0] /\ key' = [key EXCEPT ![r] = 0] /\ value' = [value EXCEPT ![r] = L!None]
        /\ UNCHANGED <<rows, profile, memo, version, crawl, edit, raced>>
    BY <1>5 DEF L!Fill
  <2>2. CASE UNCHANGED <<store, unswept>>
    BY <2>1, <2>2
  <2>3. CASE store' = [store EXCEPT ![list[r]] = value[r]] /\ unswept' = unswept \ {list[r]}
    <3>1. CASE list[r] = "opportunities"
      <4>1. store' = [store EXCEPT !["opportunities"] = value[r]] /\ unswept' = unswept \ {"opportunities"}
        BY <2>3, <3>1
      <4>2. Clean("opportunities") => value[r].rows = rows
        BY <2>1, <3>1
      <4> QED
        BY <2>1, <4>1, <4>2
    <3>2. CASE list[r] = "matches"
      <4>1. store' = [store EXCEPT !["matches"] = value[r]] /\ unswept' = unswept \ {"matches"}
        BY <2>3, <3>2
      <4>2. Clean("matches") /\ edit # "bump" => value[r].profile = profile
        BY <2>1, <3>2
      <4> QED
        BY <2>1, <4>1, <4>2
    <3> QED
      BY <3>1, <3>2
  <2> QED
    BY <1>5, <2>2, <2>3 DEF L!Fill
<1>6. ASSUME NEW l \in L!Lists, L!Expire(l) PROVE ListsInv'
  BY <1>6 DEF L!Expire
<1>7. CASE L!Crawl
  <2>1. CASE crawl = "idle" /\ rows' = rows + 1 /\ crawl' = "opportunities"
    BY <1>7, <2>1 DEF L!Crawl, L!Making
  <2>2. CASE crawl = "idle" /\ crawl' = "matches"
    <3>1. UNCHANGED <<rows, profile, store, memo, version, at, list, own, key, value, edit, raced, unswept>>
      BY <1>7, <2>2 DEF L!Crawl
    <3> QED
      BY <2>2, <3>1
  <2>3. CASE crawl \in L!Lists
    <3>1. L!Invalidate(crawl) /\ crawl' = IF crawl = "opportunities" THEN "matches" ELSE "idle"
      BY <1>7, <2>3 DEF L!Crawl
    <3>2. UNCHANGED <<rows, profile, memo, version, at, list, own, key, value, edit>> /\ raced \subseteq raced'
      BY <1>7, <2>3 DEF L!Crawl, L!Invalidate
    <3>3. CASE crawl = "opportunities"
      BY <3>1, <3>2, <3>3 DEF L!Invalidate
    <3>4. CASE crawl = "matches"
      BY <3>1, <3>2, <3>4 DEF L!Invalidate
    <3> QED
      BY <2>3, <3>3, <3>4
  <2> QED
    BY <1>7, <2>1, <2>2, <2>3 DEF L!Crawl
<1>8. CASE L!Edit
  <2>1. CASE edit = "idle" /\ profile < MaxProfile /\ profile' = profile + 1 /\ edit' = "bump"
    BY <1>8, <2>1 DEF L!Edit, L!Making
  <2>2. CASE edit = "bump" /\ version' = version + 1 /\ edit' = "matches"
    BY <1>8, <2>2 DEF L!Edit, L!Making
  <2>3. CASE edit = "matches"
    <3>1. edit' = "opportunities" /\ raced \subseteq raced' /\ L!Invalidate("matches")
      BY <1>8, <2>3 DEF L!Edit, L!Invalidate
    <3>2. UNCHANGED <<rows, profile, memo, version, at, list, own, key, value, crawl>>
      BY <1>8, <2>3 DEF L!Edit
    <3> QED
      BY <2>3, <3>1, <3>2 DEF L!Invalidate
  <2>4. CASE edit = "opportunities"
    <3>1. edit' = "idle" /\ raced \subseteq raced' /\ L!Invalidate("opportunities")
      BY <1>8, <2>4 DEF L!Edit, L!Invalidate
    <3>2. UNCHANGED <<rows, profile, memo, version, at, list, own, key, value, crawl>>
      BY <1>8, <2>4 DEF L!Edit
    <3> QED
      BY <2>4, <3>1, <3>2 DEF L!Invalidate
  <2> QED
    BY <1>8, <2>1, <2>2, <2>3, <2>4 DEF L!Edit
<1> QED
  BY <1>1, <1>2, <1>3, <1>4, <1>5, <1>6, <1>7, <1>8 DEF L!Next

\* For any number of clients, however the site changes and the cache is shared: a fetch returns
\* what the site held when it answered (http.py:483).  And for any number of requests, crawls and
\* edits, whichever of the calls to Redis fail: the cached lists are of the tables, unless a
\* request was making one at the time, or the invalidation failed and its entry has neither run
\* out nor been replaced (cache.py:96, cache.py:133, matches.py:130, profile.py:141).
THEOREM ServicesCachesCurrent == ServicesSpec => []CachesAreCurrent
<1> DEFINE Inv == (part = "http" => PageInv) /\ (part = "listings" => ListsInv)
<1>1. ServicesInit => Inv
  BY PageInvInit, ListsInvInit DEF ServicesInit, AtStart
<1>2. Inv /\ [ServicesNext]_services => Inv'
  <2> SUFFICES ASSUME Inv, [ServicesNext]_services PROVE Inv'
    OBVIOUS
  <2>1. CASE part = "http" /\ H!Next /\ part' = part
    BY <2>1, PageInvNext
  <2>2. CASE part = "listings" /\ L!Next /\ part' = part
    BY <2>2, ListsInvNext
  <2>3. CASE part \notin {"http", "listings"} /\ part' = part
    BY <2>3
  <2>4. CASE UNCHANGED services
    BY <2>4 DEF services, http, listings, PageInv, ListsInv, Clean, Swept, Makes
  <2> QED
    BY <2>1, <2>2, <2>3, <2>4 DEF ServicesNext
<1>3. Inv => CachesAreCurrent
  BY DEF CachesAreCurrent, PageInv, ListsInv, Clean, Swept, H!ContentIsCurrent, L!ListsAreCurrent, H!None
<1> QED
  BY <1>1, <1>2, <1>3, PTL DEF ServicesSpec

-----------------------------------------------------------------------------
(* The slice driver.                                                       *)

Places == {"in", "out"}

\* States of the driver's file: typed, with a slice for the answer that is awaited, and no
\* slice done before those it depends on.
DriverStates == [status : [G!Jobs -> {"pending", "done", "blocked"}], doing : G!Jobs \union {G!None},
                 pending : [sha : Nat, slice : Nat, tries : Nat], red : SUBSET Nat]
Good == {st \in DriverStates :
            /\ st.pending = G!NoCi \/ st.pending.slice \in G!Slices
            /\ \A s \in G!Slices : st.status[<<s, 0>>] = "done" => \A d \in Deps[s] : st.status[<<d, 0>>] = "done"}

Trying == {"begin", "attempt", "judge", "gates"}
Working == Trying \union {"commit", "push", "pushed", "unpushed", "failed"}

\* The job being tried is pending, its dependencies are done; a fix answers a slice.
JobInv ==
    /\ mem \in Good /\ file \in Good /\ headFile \in Good
    /\ sha \in Nat
    /\ where \in {"loop", "settle", "final"}
    /\ where = "settle" => outer \in G!Slices \X Nat
    /\ driverAt = "follow" => where = "settle"
    /\ driverAt \in Working =>
          /\ job \in G!Jobs
          /\ job[2] > 0 => mem.pending.slice \in G!Slices
    /\ driverAt \in Trying /\ job[2] = 0 =>
          mem.status[job] = "pending" /\ \A d \in Deps[job[1]] : mem.status[<<d, 0>>] = "done"

LEMMA SliceJobs == \A s \in G!Slices : <<s, 0>> \in G!Jobs /\ Deps[s] \subseteq G!Slices
BY ServicesAssumption DEF G!Slices, G!Jobs

LEMMA FreshIsGood == G!Fresh \in Good
<1>1. G!Fresh \in DriverStates
  BY DEF DriverStates, G!Fresh, G!NoCi
<1>2. \A s \in G!Slices : <<s, 0>> \in G!Jobs
  BY SliceJobs
<1>3. \A s \in G!Slices : G!Fresh.status[<<s, 0>>] = "pending"
  BY <1>2 DEF G!Fresh
<1> QED
  BY <1>1, <1>3 DEF Good, G!Fresh

LEMMA DoneIsGood ==
  ASSUME NEW st \in Good, NEW j \in G!Jobs, j[2] = 0 => \A d \in Deps[j[1]] : st.status[<<d, 0>>] = "done"
  PROVE  [st EXCEPT !.status[j] = "done"] \in Good
<1> DEFINE new == [st EXCEPT !.status[j] = "done"]
<1>1. new \in DriverStates
  BY DEF Good, DriverStates
<1>2. new.pending = st.pending /\ new.status = [st.status EXCEPT ![j] = "done"]
  BY DEF Good, DriverStates
<1> HIDE DEF new
<1>3. ASSUME NEW s \in G!Slices, NEW d \in Deps[s], new.status[<<s, 0>>] = "done" PROVE new.status[<<d, 0>>] = "done"
  <2>1. <<s, 0>> \in G!Jobs /\ <<d, 0>> \in G!Jobs
    BY SliceJobs
  <2>2. st.status[<<d, 0>>] = "done"
    <3>1. CASE j = <<s, 0>>
      BY <3>1
    <3>2. CASE j # <<s, 0>>
      <4>1. st.status[<<s, 0>>] = "done"
        BY <1>2, <1>3, <2>1, <3>2 DEF Good, DriverStates
      <4> QED
        BY <4>1 DEF Good
    <3> QED
      BY <3>1, <3>2
  <2> QED
    BY <1>2, <2>1, <2>2 DEF Good, DriverStates
<1>4. new \in Good
  BY <1>1, <1>2, <1>3 DEF Good
<1> QED
  BY <1>4 DEF new

LEMMA BlockedIsGood ==
  ASSUME NEW st \in Good, NEW j \in G!Jobs, j[2] = 0 => st.status[j] = "pending"
  PROVE  [st EXCEPT !.status[j] = "blocked", !.doing = G!None] \in Good
<1> DEFINE new == [st EXCEPT !.status[j] = "blocked", !.doing = G!None]
<1>1. new \in DriverStates
  BY DEF Good, DriverStates
<1>2. new.pending = st.pending /\ new.status = [st.status EXCEPT ![j] = "blocked"]
  BY DEF Good, DriverStates
<1> HIDE DEF new
<1>3. ASSUME NEW s \in G!Slices, NEW d \in Deps[s], new.status[<<s, 0>>] = "done" PROVE new.status[<<d, 0>>] = "done"
  <2>1. <<s, 0>> \in G!Jobs /\ <<d, 0>> \in G!Jobs
    BY SliceJobs
  <2>2. j # <<s, 0>> /\ st.status[<<s, 0>>] = "done"
    BY <1>2, <1>3, <2>1 DEF Good, DriverStates
  <2>3. st.status[<<d, 0>>] = "done"
    BY <2>2 DEF Good
  <2>4. j # <<d, 0>>
    BY <2>3
  <2> QED
    BY <1>2, <2>1, <2>3, <2>4 DEF Good, DriverStates
<1>4. new \in Good
  BY <1>1, <1>2, <1>3 DEF Good
<1> QED
  BY <1>4 DEF new

LEMMA DoingIsGood ==
  ASSUME NEW st \in Good, NEW j \in G!Jobs \union {G!None}
  PROVE  [st EXCEPT !.doing = j] \in Good
BY DEF Good, DriverStates

LEMMA PendingIsGood ==
  ASSUME NEW st \in Good, NEW s \in G!Slices, NEW n \in Nat, NEW k \in Nat
  PROVE  [st EXCEPT !.pending = [slice |-> s, sha |-> n, tries |-> k]] \in Good
<1> DEFINE pending == [slice |-> s, sha |-> n, tries |-> k]
<1>1. s \in Nat
  BY ServicesAssumption DEF G!Slices
<1>2. pending \in [sha : Nat, slice : Nat, tries : Nat] /\ pending.slice \in G!Slices
  BY <1>1
<1> HIDE DEF pending
<1>3. [st EXCEPT !.pending = pending] \in Good
  BY <1>2 DEF Good, DriverStates
<1> QED
  BY <1>3 DEF pending

LEMMA GivenUpIsGood ==
  ASSUME NEW st \in Good
  PROVE  [st EXCEPT !.red = @ \union {st.pending.slice}, !.pending = G!NoCi] \in Good
BY DEF Good, DriverStates, G!NoCi

LEMMA AnsweredIsGood ==
  ASSUME NEW st \in Good
  PROVE  [st EXCEPT !.pending = G!NoCi] \in Good
BY DEF Good, DriverStates, G!NoCi

LEMMA TriedIsGood ==
  ASSUME NEW st \in Good, st.pending # G!NoCi
  PROVE  [st EXCEPT !.pending.tries = @ + 1] \in Good
<1> DEFINE new == [st EXCEPT !.pending.tries = @ + 1]
<1>1. new \in DriverStates
  BY DEF Good, DriverStates
<1>2. new.pending.slice = st.pending.slice /\ new.status = st.status
  BY DEF Good, DriverStates
<1> QED
  BY <1>1, <1>2 DEF Good

LEMMA FinishedIsGood ==
  ASSUME NEW st \in Good, NEW n \in Nat, n = st.pending.sha \/ st.pending.slice \in G!Slices
  PROVE  [st EXCEPT !.doing = G!None, !.pending.sha = n] \in Good
BY ServicesAssumption DEF Good, DriverStates, G!NoCi, G!Slices

\* The first of the slices that can be worked on is one of them.
LEMMA FirstIsIn ==
  ASSUME NEW T \in SUBSET G!Slices, T # {}
  PROVE  G!FirstOf(T) \in T
<1>1. T \subseteq Nat
  BY ServicesAssumption DEF G!Slices
<1>2. PICK s \in T : \A t \in T : ~(<<t, s>> \in OpToRel(<, Nat))
  BY <1>1, NatLessThanWellFounded, WFMin
<1>3. ASSUME NEW t \in T PROVE s <= t
  <2>1. t \in Nat /\ s \in Nat
    BY <1>1
  <2>2. ~(t < s)
    BY <1>2, <2>1 DEF OpToRel
  <2> QED
    BY <2>1, <2>2
<1> QED
  BY <1>3 DEF G!FirstOf

LEMMA JobInvInit == G!Init => JobInv
BY FreshIsGood DEF G!Init, JobInv, Trying, Working

LEMMA JobInvNext == JobInv /\ G!Next => JobInv'
<1> SUFFICES ASSUME JobInv, G!Next PROVE JobInv'
  OBVIOUS
<1> USE DEF JobInv, Trying, Working, G!Goto, G!git, G!Save
<1>1. CASE G!Start
  BY <1>1 DEF G!Start
<1>2. CASE G!PickNext
  <2> DEFINE s == G!FirstOf(G!Runnable)
  <2>1. s \in G!Runnable
    BY <1>2, FirstIsIn DEF G!PickNext, G!Runnable, G!Pending
  <2> HIDE DEF s
  <2>2. job' = <<s, 0>> /\ driverAt' = "begin" /\ UNCHANGED <<mem, headFile, sha, where, outer>> /\ file' \in {file, headFile}
    BY <1>2 DEF G!PickNext, G!StashTree, s
  <2>3. s \in G!Slices /\ mem.status[<<s, 0>>] = "pending" /\ \A d \in Deps[s] : mem.status[<<d, 0>>] = "done"
    BY <2>1 DEF G!Runnable, G!Pending
  <2> QED
    BY <2>2, <2>3, SliceJobs
<1>3. CASE G!NothingRunnable
  BY <1>3 DEF G!NothingRunnable
<1>4. CASE G!Begin
  <2>1. mem' = [mem EXCEPT !.doing = job] /\ mem' \in Good
    BY <1>4, DoingIsGood DEF G!Begin
  <2>2. mem'.status = mem.status /\ mem'.pending = mem.pending
    BY <2>1 DEF Good, DriverStates
  <2> QED
    BY <1>4, <2>1, <2>2 DEF G!Begin
<1>5. CASE G!RunHaiku
  BY <1>5 DEF G!RunHaiku
<1>6. CASE G!Blocked /\ driverAt \in {"judge", "gates"}
  <2>1. mem' = [mem EXCEPT !.status[job] = "blocked", !.doing = G!None] /\ mem' \in Good
    BY <1>6, BlockedIsGood DEF G!Blocked
  <2>2. mem'.pending = mem.pending
    BY <2>1 DEF Good, DriverStates
  <2>3. driverAt' = "failed" /\ UNCHANGED <<headFile, sha, job, where, outer>> /\ file' = headFile
    BY <1>6 DEF G!Blocked, G!StashTree
  <2> QED
    BY <1>6, <2>1, <2>2, <2>3
<1>7. CASE G!Again /\ driverAt \in {"judge", "gates"}
  BY <1>6, <1>7 DEF G!Again
<1>8. CASE G!EnforcePaths
  BY <1>8 DEF G!EnforcePaths
<1>9. CASE G!GatesPass
  <2>1. mem' = [mem EXCEPT !.status[job] = "done"] /\ mem' \in Good
    BY <1>9, DoneIsGood DEF G!GatesPass
  <2>2. mem'.pending = mem.pending
    BY <2>1 DEF Good, DriverStates
  <2> QED
    BY <1>9, <2>1, <2>2 DEF G!GatesPass
<1>10. CASE G!CommitPush
  BY <1>10 DEF G!CommitPush, G!CommitTree
<1>11. CASE G!Push
  BY <1>11 DEF G!Push
<1>12. CASE G!Settle
  <2>1. mem' \in Good /\ job[1] \in G!Slices
    BY <1>12, DoingIsGood DEF G!Settle, G!Jobs
  <2> QED
    BY <1>12, <2>1 DEF G!Settle
<1>13. CASE G!Follow
  <2>1. mem' \in Good
    BY <1>13, PendingIsGood DEF G!Follow
  <2> QED
    BY <1>13, <2>1 DEF G!Follow
<1>14. CASE G!Finished
  <2>1. mem' \in Good
    <3>1. PICK n \in Nat : mem' = [mem EXCEPT !.doing = G!None, !.pending.sha = n] /\ (n = mem.pending.sha \/ mem.pending.slice \in G!Slices)
      BY <1>14 DEF G!Finished, G!IsFix, Good, DriverStates
    <3> QED
      BY <3>1, FinishedIsGood
  <2> QED
    BY <1>14, <2>1 DEF G!Finished
<1>15. CASE G!Failed
  <2>1. mem' \in Good
    BY <1>15, GivenUpIsGood DEF G!Failed
  <2> QED
    BY <1>15, <2>1 DEF G!Failed
<1>16. ASSUME NEW st \in Good, driverAt = "ci", G!Answered(st) PROVE JobInv'
  BY <1>16 DEF G!Answered, G!AfterCi
<1>17. CASE G!NoPending \/ G!StillRunning \/ G!Green \/ G!RedForGood
  BY <1>16, <1>17, GivenUpIsGood, AnsweredIsGood DEF G!NoPending, G!StillRunning, G!Green, G!RedForGood, G!GaveUpOn
<1>18. CASE G!FixCi
  <2>1. mem' = [mem EXCEPT !.pending.tries = @ + 1] /\ mem' \in Good
    BY <1>18, TriedIsGood DEF G!FixCi
  <2>2. mem'.pending.slice = mem.pending.slice /\ mem.pending.slice \in G!Slices
    BY <1>18, <2>1 DEF G!FixCi, Good, DriverStates
  <2>3. mem.pending.tries \in Nat /\ mem.pending.tries < MaxFixes /\ MaxFixes \in Nat
    BY <1>18, ServicesAssumption DEF G!FixCi, Good, DriverStates
  <2>4. mem.pending.tries + 1 \in 0 .. MaxFixes
    BY <2>3
  <2>5. job' \in G!Jobs /\ job'[2] > 0
    BY <1>18, <2>2, <2>3, <2>4 DEF G!FixCi, G!Jobs
  <2> QED
    BY <1>18, <2>1, <2>2, <2>5 DEF G!FixCi
<1>19. CASE G!Finish
  BY <1>19 DEF G!Finish
<1>20. CASE G!Kill
  BY <1>20 DEF G!Kill
<1> QED
  BY <1>1, <1>2, <1>3, <1>4, <1>5, <1>6, <1>7, <1>8, <1>9, <1>10, <1>11, <1>12, <1>13, <1>14, <1>15, <1>17, <1>18, <1>19, <1>20
  DEF G!Next, G!JudgeBlocker, G!JudgeError, G!GatesFail

\* Work outside the bounds is excused, except what the attempt that is being judged has
\* left; whatever is new in the tree is that attempt's own.
Excused(p) == p[2] = "out" => p[1] \in excused

WriteInv ==
    /\ tree \subseteq G!Jobs \X Places /\ made \subseteq G!Jobs \X {"in"}
    /\ made \subseteq tree \union gitted \union stash
    /\ \A p \in gitted : Excused(p)
    /\ driverAt # "judge" => \A p \in tree : Excused(p)
    /\ driverAt = "judge" =>
          /\ \A p \in tree : Excused(p) \/ (p \notin pre /\ p[1] = job /\ kind # "error")
          /\ \A p \in tree : p \in pre \/ p[1] = job

LEMMA WriteInvInit == G!Init => WriteInv
BY DEF G!Init, WriteInv

LEMMA WriteInvNext == JobInv /\ WriteInv /\ G!Next => WriteInv'
<1> SUFFICES ASSUME JobInv, WriteInv, G!Next PROVE WriteInv'
  OBVIOUS
<1> USE DEF WriteInv, Excused, Places, G!Goto, G!git
<1>1. ASSUME UNCHANGED <<tree, made, gitted, stash, excused>>, driverAt # "judge", driverAt' # "judge" PROVE WriteInv'
  BY <1>1
<1>2. ASSUME G!StashTree, UNCHANGED <<made, gitted, excused>>, driverAt' # "judge" PROVE WriteInv'
  BY <1>2 DEF G!StashTree
<1>3. CASE G!Start
  BY <1>1, <1>3 DEF G!Start
<1>4. CASE G!PickNext
  <2>1. UNCHANGED <<made, gitted, excused>> /\ driverAt = "pick" /\ driverAt' = "begin"
    BY <1>4 DEF G!PickNext
  <2>2. G!StashTree \/ UNCHANGED <<tree, stash>>
    BY <1>4 DEF G!PickNext
  <2> QED
    BY <1>1, <1>2, <2>1, <2>2
<1>5. CASE G!NothingRunnable
  BY <1>1, <1>5 DEF G!NothingRunnable
<1>6. CASE G!Begin
  BY <1>1, <1>6 DEF G!Begin, G!Save
<1>7. CASE G!RunHaiku
  <2>1. job \in G!Jobs /\ job' = job /\ driverAt = "attempt" /\ driverAt' = "judge" /\ UNCHANGED <<gitted, stash>> /\ pre' = tree
    BY <1>7 DEF G!RunHaiku, JobInv, Working, Trying
  <2>2. PICK places \in Writes :
          /\ tree' = tree \union ({job} \X places)
          /\ made' = made \union (({job} \X places) \intersect G!AllowedPaths(job))
          /\ excused' = IF kind' = "error" /\ "out" \in places THEN excused \union {job} ELSE excused
    BY <1>7 DEF G!RunHaiku
  <2>3. places \subseteq Places
    BY ServicesAssumption
  <2>4. tree' \subseteq G!Jobs \X Places /\ made' \subseteq G!Jobs \X {"in"}
    <3>1. {job} \X places \subseteq G!Jobs \X Places
      BY <2>1, <2>3
    <3>2. G!AllowedPaths(job) \subseteq G!Jobs \X {"in"}
      BY <2>1 DEF G!AllowedPaths
    <3> QED
      BY <2>2, <3>1, <3>2
  <2>5. made' \subseteq tree' \union gitted' \union stash'
    BY <2>1, <2>2
  <2>6. excused \subseteq excused'
    BY <2>2
  <2>7. ASSUME NEW p \in tree' PROVE Excused(p)' \/ (p \notin pre' /\ p[1] = job' /\ kind' # "error")
    <3>1. CASE p \in tree
      BY <2>1, <2>6, <3>1
    <3>2. CASE p \notin tree
      BY <2>1, <2>2, <3>2
    <3> QED
      BY <3>1, <3>2
  <2>8. \A p \in tree' : p \in pre' \/ p[1] = job'
    BY <2>1, <2>2
  <2> QED
    BY <2>1, <2>4, <2>5, <2>6, <2>7, <2>8
<1>8. CASE G!Blocked
  BY <1>2, <1>8 DEF G!Blocked
<1>9. CASE G!Again /\ (driverAt = "judge" => kind = "error")
  <2>1. CASE attempts < MAX_ATTEMPTS
    BY <1>9, <2>1 DEF G!Again
  <2>2. CASE ~(attempts < MAX_ATTEMPTS)
    BY <1>8, <1>9, <2>2 DEF G!Again
  <2> QED
    BY <2>1, <2>2
<1>10. CASE G!EnforcePaths
  <2>1. tree' = {p \in tree : p \in pre \/ p = <<job, "in">>}
    BY <1>10 DEF G!EnforcePaths, G!Enforced, G!AllowedPaths
  <2>2. driverAt = "judge" /\ driverAt' = "gates" /\ UNCHANGED <<made, gitted, stash, excused>>
    BY <1>10 DEF G!EnforcePaths
  <2>3. \A p \in tree' : Excused(p)
    BY <2>1, <2>2
  <2>4. \A p \in made : p \in tree => p \in tree'
    BY <2>1, <2>2
  <2> QED
    BY <2>1, <2>2, <2>3, <2>4
<1>11. CASE G!GatesPass
  BY <1>1, <1>11 DEF G!GatesPass, G!Save
<1>12. CASE G!CommitPush
  BY <1>12 DEF G!CommitPush, G!CommitTree
<1>13. CASE G!Push
  BY <1>1, <1>13 DEF G!Push
<1>14. CASE G!Settle
  BY <1>1, <1>14 DEF G!Settle
<1>15. CASE G!Follow
  BY <1>1, <1>15 DEF G!Follow, G!Save
<1>16. CASE G!Finished
  BY <1>1, <1>16 DEF G!Finished, G!Save
<1>17. CASE G!Failed
  BY <1>1, <1>17 DEF G!Failed, G!Save
<1>18. ASSUME NEW st, driverAt = "ci", G!Answered(st) PROVE WriteInv'
  BY <1>1, <1>18 DEF G!Answered, G!AfterCi, JobInv
<1>19. CASE G!NoPending \/ G!StillRunning \/ G!Green \/ G!RedForGood
  BY <1>18, <1>19 DEF G!NoPending, G!StillRunning, G!Green, G!RedForGood
<1>20. CASE G!FixCi
  BY <1>1, <1>20 DEF G!FixCi
<1>21. CASE G!Finish
  BY <1>21 DEF G!Finish
<1>22. CASE G!Kill
  <2>1. UNCHANGED <<tree, made, gitted, stash>> /\ driverAt' = "down"
    BY <1>22 DEF G!Kill
  <2>2. excused' = IF driverAt = "judge" /\ <<job, "out">> \in tree THEN excused \union {job} ELSE excused
    BY <1>22 DEF G!Kill
  <2>3. \A p \in tree : Excused(p)'
    <3> SUFFICES ASSUME NEW p \in tree, p[2] = "out" PROVE p[1] \in excused'
      OBVIOUS
    <3>1. p = <<p[1], "out">>
      OBVIOUS
    <3>2. CASE driverAt # "judge"
      BY <2>2, <3>2
    <3>3. CASE driverAt = "judge"
      BY <2>2, <3>1, <3>3
    <3> QED
      BY <3>2, <3>3
  <2>4. \A p \in gitted : Excused(p)'
    BY <2>2
  <2> QED
    BY <2>1, <2>3, <2>4
<1> QED
  BY <1>3, <1>4, <1>5, <1>6, <1>7, <1>8, <1>9, <1>10, <1>11, <1>12, <1>13, <1>14, <1>15, <1>16, <1>17, <1>19, <1>20, <1>21, <1>22
  DEF G!Next, G!JudgeBlocker, G!JudgeError, G!GatesFail

\* However often the driver is killed, between any two of its steps, and whatever executors
\* write and CI answers: no work within bounds is lost, none outside them is committed unless
\* an attempt was cut off or failed, and slices are done in their order (driver.py:280, 300).
THEOREM ServicesKeepWork == ServicesSpec => []WorkIsKept
<1> DEFINE Inv == part = "driver" => JobInv /\ WriteInv
<1>1. ServicesInit => Inv
  BY JobInvInit, WriteInvInit DEF ServicesInit, AtStart
<1>2. Inv /\ [ServicesNext]_services => Inv'
  <2>1. CASE UNCHANGED services
    BY <2>1 DEF services, driver, JobInv, WriteInv, Excused
  <2> QED
    BY <2>1, JobInvNext, WriteInvNext DEF ServicesNext
<1>3. Inv => WorkIsKept
  BY DEF JobInv, WriteInv, Excused, Good, WorkIsKept, G!WorkIsKept, G!NoWorkIsLost, G!BoundsHold, G!DepsFirst
<1> QED
  BY <1>1, <1>2, <1>3, PTL DEF ServicesSpec

-----------------------------------------------------------------------------
(* A window of counts.                                                     *)

LEMMA Product ==
  ASSUME NEW x \in Int, NEW y \in Int, NEW z \in Int
  PROVE  /\ x * y \in Int /\ x * y = y * x /\ x * (y + z) = x * y + x * z
         /\ x * (y - 1) + x = x * y /\ x * 0 = 0 /\ x * (y * z) = (x * y) * z
OBVIOUS

LEMMA ProductOrder ==
  ASSUME NEW x \in Nat, NEW y \in Int, NEW z \in Int, y <= z
  PROVE  x * y <= x * z
OBVIOUS

LEMMA QuotientFloor ==
  ASSUME NEW x \in Int, NEW l \in Nat \ {0}
  PROVE  x \div l \in Int /\ x < (x \div l) * l + l
OBVIOUS

\* The sum of numbers that are alike, but for a last one that is zero.
LEMMA SumOfSame ==
  ASSUME NEW v \in Seq(Int), NEW k \in Int, Len(v) > 0,
         \A i \in 1 .. (Len(v) - 1) : v[i] = k, v[Len(v)] = 0
  PROVE  SumOf(v) = k * (Len(v) - 1)
<1> DEFINE len == Len(v)
           g == [n \in 0 .. (len - 1) |-> k * n]
<1>1. len \in Nat /\ len - 1 \in Nat
  OBVIOUS
<1>2. PICK f \in [0 .. len -> Int] : f[0] = 0 /\ (\A n \in 1 .. len : f[n] = f[n - 1] + v[n]) /\ SumOf(v) = f[len]
  BY SumSteps
<1> HIDE DEF len
<1>3. \A n \in 1 .. (len - 1) : v[n] = k
  BY DEF len
<1>4. f[0] = g[0]
  <2>1. k * 0 = 0
    BY Product
  <2> QED
    BY <1>1, <1>2, <2>1
<1>5. ASSUME NEW n \in 1 .. (len - 1), f[n - 1] = g[n - 1] PROVE f[n] = g[n]
  <2>1. n \in Int /\ n - 1 \in 0 .. (len - 1) /\ n \in 0 .. (len - 1) /\ n \in 1 .. len
    BY <1>1
  <2>2. f[n] = f[n - 1] + k
    BY <1>2, <1>3, <2>1
  <2>3. g[n - 1] = k * (n - 1) /\ g[n] = k * n
    BY <2>1
  <2>4. k * (n - 1) + k = k * n
    BY <2>1, Product
  <2> HIDE DEF g
  <2> QED
    BY <1>5, <2>2, <2>3, <2>4
<1>6. f[len - 1] = g[len - 1]
  <2> HIDE DEF g
  <2>1. Alike(f, g, len - 1)
    BY <1>4, <1>5 DEF Alike
  <2> QED
    BY <1>1, <2>1, Agreement
<1>7. f[len] = f[len - 1] + 0 /\ f[len - 1] = k * (len - 1)
  <2>1. v[len] = 0 /\ len \in 1 .. len /\ len - 1 \in 0 .. (len - 1)
    BY <1>1 DEF len
  <2> QED
    BY <1>2, <1>6, <2>1
<1>8. k * (len - 1) \in Int
  BY <1>1, Product
<1> QED
  BY <1>2, <1>7, <1>8 DEF len

-----------------------------------------------------------------------------
(* A source that falls silent.                                             *)

LEMMA SameSum == \A v : S!SumOf(v) = SumOf(v)
BY DEF S!SumOf, SumOf

LEMMA SamePicked == \A v, I : S!Picked(v, I) = Picked(v, I)
BY DEF S!Picked, Picked

\* A last zero after seven numbers alike is far from their mean.
LEMMA ZeroIsFar ==
  ASSUME NEW v \in Seq(Int), NEW k \in Nat \ {0}, Len(v) > 7,
         \A i \in 1 .. (Len(v) - 1) : v[i] = k, v[Len(v)] = 0
  PROVE  S!Far(0, v)
<1> DEFINE len == Len(v)
           w == k * (len - 1)
           q == (200 * w + len) \div (2 * len)
           u == [i \in DOMAIN v |-> v[i] * v[i]]
<1>1. len \in Nat /\ len - 1 \in Nat /\ len > 7
  OBVIOUS
<1>2. SumOf(v) = w
  BY SumOfSame
<1>3. SumOf(u) = k * w
  <2> DEFINE m == k * k
  <2>0. \A i \in 1 .. len : u[i] = v[i] * v[i]
    <3> HIDE DEF w, q, m
    <3> QED
      OBVIOUS
  <2>1. u \in Seq(Int) /\ Len(u) = len
    <3>1. ASSUME NEW i \in 1 .. len PROVE u[i] \in Int
      <4>1. v[i] \in Int
        OBVIOUS
      <4>2. v[i] * v[i] \in Int
        BY <4>1, Product
      <4> QED
        BY <4>2, <2>0
    <3>2. DOMAIN u = 1 .. len /\ u = [i \in 1 .. len |-> u[i]]
      OBVIOUS
    <3>3. u = [i \in 1 .. len |-> u[i]] /\ len \in Nat /\ \A i \in 1 .. len : u[i] \in Int
      BY <1>1, <3>1, <3>2
    <3> HIDE DEF u, len
    <3> QED
      BY <3>3, Itemwise
  <2>2. ASSUME NEW i \in 1 .. (len - 1) PROVE u[i] = m
    <3>1. v[i] = k /\ i \in 1 .. len
      OBVIOUS
    <3> QED
      BY <2>0, <3>1
  <2>3. u[len] = 0 * 0 /\ 0 * 0 = 0
    OBVIOUS
  <2>4. m \in Int
    BY Product
  <2>5. m * (len - 1) = k * (k * (len - 1))
    BY <1>1, Product
  <2>6. SumOf(u) = m * (Len(u) - 1)
    <3> HIDE DEF u, len, w, m
    <3>1. Len(u) > 0 /\ u[Len(u)] = 0 /\ \A i \in 1 .. (Len(u) - 1) : u[i] = m
      BY <1>1, <2>1, <2>2, <2>3
    <3> QED
      BY <2>1, <2>4, <3>1, SumOfSame
  <2> HIDE DEF u, len, m
  <2> QED
    BY <2>1, <2>5, <2>6 DEF w
<1>4. S!Mean100(v) = q
  BY <1>2, SameSum DEF S!Mean100
<1>5. S!Spread(v) = len * (k * w) - w * w
  BY <1>2, <1>3, SameSum DEF S!Spread
<1> HIDE DEF u
<1>6. w \in Nat /\ 7 * k <= w /\ len - 1 <= w
  <2> DEFINE z == len - 1
  <2>1. z \in Nat /\ 7 <= z /\ w = k * z
    BY <1>1
  <2> HIDE DEF z, w, len
  <2>2. k * 7 <= k * z /\ z * 1 <= z * k
    BY <2>1, ProductOrder
  <2>3. z * k = k * z /\ k * z \in Int
    BY <2>1, Product
  <2>4. w \in Nat /\ 7 * k <= w /\ z <= w
    BY <2>1, <2>2, <2>3
  <2> QED
    BY <2>4 DEF z
<1> HIDE DEF w
<1>7. len * (k * w) - w * w = k * w
  <2>1. w * w = (k * (len - 1)) * w
    BY DEF w
  <2> HIDE DEF len
  <2> QED
    BY <1>1, <1>6, <2>1
<1> HIDE DEF len
<1>8. q \in Int /\ 200 * w + len < q * (2 * len) + 2 * len
  <2>1. PICK a, b : a = 200 * w + len /\ b = 2 * len
    OBVIOUS
  <2>2. a \in Int /\ b \in Nat \ {0}
    BY <1>1, <1>6, <2>1
  <2>3. a \div b \in Int /\ a < (a \div b) * b + b
    BY <2>2, QuotientFloor
  <2>4. q = a \div b
    BY <2>1
  <2> HIDE DEF q
  <2>5. q \in Int /\ a < q * b + b
    BY <2>3, <2>4, Zenon
  <2>6. q * b + b = q * (2 * len) + 2 * len
    BY <2>1, Zenon
  <2>7. 200 * w + len < q * b + b
    BY <2>1, <2>5, Zenon
  <2> QED
    BY <2>5, <2>6, <2>7, Zenon
<1> HIDE DEF q
<1> DEFINE x == q * (2 * len)
<1>9. x \in Int /\ 198 * w <= x
  <2>1. x \in Int
    BY <1>1, <1>8
  <2> HIDE DEF x
  <2>2. 200 * w + len < x + 2 * len
    BY <1>8 DEF x
  <2> QED
    BY <1>1, <1>6, <2>1, <2>2
<1>10. 4 * (100 * 0 - q) * (100 * 0 - q) * len * len = x * x
  BY <1>1, <1>8
<1> HIDE DEF x
<1>11. 39204 * (w * w) <= x * x
  <2>1. (198 * w) * (198 * w) <= x * x
    <3> DEFINE y == 198 * w
    <3>1. y \in Nat /\ y <= x /\ x \in Nat
      BY <1>6, <1>9
    <3> HIDE DEF y
    <3>2. y * y <= y * x /\ x * y <= x * x /\ x * y = y * x
      BY <3>1, ProductOrder, Product
    <3>3. y * y \in Int /\ y * x \in Int /\ x * x \in Int
      BY <3>1, Product
    <3>4. y * y <= x * x
      BY <3>2, <3>3
    <3> QED
      BY <3>4 DEF y
  <2>2. (198 * w) * (198 * w) = 39204 * (w * w)
    BY <1>6
  <2> QED
    BY <2>1, <2>2
<1>12. 7 * (k * w) <= w * w
  <2>1. w * (7 * k) <= w * w
    BY <1>6, ProductOrder
  <2>2. w * (7 * k) = 7 * (k * w)
    BY <1>6
  <2> QED
    BY <2>1, <2>2
<1>13. k * w \in Nat /\ k * w > 0 /\ w * w \in Int /\ x * x \in Int
  <2>1. w > 0
    BY <1>6
  <2> QED
    BY <1>6, <1>9, <2>1
<1>14. x * x > 250000 * (k * w)
  BY <1>11, <1>12, <1>13
<1> QED
  BY <1>4, <1>5, <1>7, <1>10, <1>13, <1>14 DEF S!Far, len

Delivered == Deliveries \union {Error}

\* The windows hold what has been delivered.
Held == DOMAIN runs = S!Stores /\ \A s \in S!Stores : runs[s] \in Seq(Delivered)

LEMMA WindowInit == S!Init => Held
BY ServicesAssumption DEF S!Init, Delivered, Held

LEMMA WindowNext == Held /\ S!Next => Held'
<1> SUFFICES ASSUME Held, S!Next PROVE Held'
  OBVIOUS
<1> USE DEF Held
<1>1. ASSUME NEW p \in Processes, NEW run \in Delivered, S!Push(p, run) PROVE Held'
  <2>1. "redis" \in S!Stores /\ p \in S!Stores
    BY DEF S!Stores
  <2>2. ASSUME NEW s \in S!Stores PROVE S!Pushed(runs[s], run) \in Seq(Delivered)
    BY Longer DEF S!Pushed
  <2>3. CASE \E s \in {"redis", p} : runs' = [runs EXCEPT ![s] = S!Pushed(@, run)]
    BY <2>1, <2>2, <2>3
  <2>4. CASE \E there \in {runs["redis"], S!Pushed(runs["redis"], run)} :
               runs' = [runs EXCEPT !["redis"] = there, ![p] = S!Pushed(@, run)]
    BY <2>1, <2>2, <2>4, StoresAre
  <2> QED
    BY <1>1, <2>3, <2>4 DEF S!Push
<1>2. CASE UNCHANGED runs
  BY <1>2
<1>3. CASE S!Expire
  BY <1>3 DEF S!Expire
<1> QED
  BY <1>1, <1>2, <1>3 DEF S!Next, S!Check, S!Due, S!Mark, S!Memory, S!Dispatch, S!NextHour, Delivered

LEMMA SilenceIsFar ==
  ASSUME NEW window \in Seq(Delivered), S!FallsSilent(window)
  PROVE  S!Drift(window)
<1> DEFINE v == S!Successful(window)
           I == {i \in DOMAIN window : window[i] # Error}
           V == {window[i] : i \in I \intersect (1 .. Len(window))}
           k == v[1]
<1>0. Len(v) > 7 /\ S!Last(window) = 0 /\ k > 0 /\ \A i \in 1 .. Len(v) - 1 : v[i] = k
  BY DEF S!FallsSilent
<1>1. Deliveries \subseteq Nat /\ Error \notin Nat
  BY ServicesAssumption
<1>2. v = Picked(window, I)
  BY SamePicked DEF S!Successful
<1>3. V \subseteq Nat
  <2>1. ASSUME NEW i \in I PROVE window[i] \in Nat
    <3>1. window[i] \in Delivered /\ window[i] # Error
      OBVIOUS
    <3> QED
      BY <1>1, <3>1 DEF Delivered
  <2> HIDE DEF I
  <2> QED
    BY <2>1
<1>4. v \in Seq(V) /\ (Len(window) \in I /\ Len(window) > 0 => \E p \in Seq(V) : v = Append(p, window[Len(window)]))
  <2> HIDE DEF v
  <2> QED
    BY <1>2, PickedItems
<1> HIDE DEF v
<1>5. k \in V
  <2> HIDE DEF V
  <2> QED
    BY <1>0, <1>4
<1>6. Len(window) \in Nat /\ Len(window) > 0 /\ window # <<>>
  BY <1>0, <1>5
<1>7. window[Len(window)] = 0 /\ Len(window) \in I
  BY <1>0, <1>1, <1>6 DEF S!Last
<1> HIDE DEF I, V
<1>8. PICK p \in Seq(V) : v = Append(p, 0)
  BY <1>4, <1>6, <1>7
<1>9. v \in Seq(Int) /\ k \in Nat \ {0} /\ v[Len(v)] = 0
  <2>1. v[Len(v)] = 0
    BY <1>8
  <2>2. k \in Nat \ {0}
    <3>1. k \in Nat
      BY <1>3, <1>5
    <3>2. k > 0
      BY <1>0
    <3> HIDE DEF k
    <3> QED
      BY <3>1, <3>2
  <2>3. V \subseteq Int
    BY <1>3
  <2>4. v \in Seq(Int)
    BY <1>4, <2>3, Wider
  <2> QED
    BY <2>1, <2>2, <2>4
<1> HIDE DEF k
<1>10. S!Far(0, v)
  BY <1>0, <1>9, ZeroIsFar
<1> QED
  BY <1>1, <1>6, <1>7, <1>10 DEF S!Drift, S!Last, v

\* However many records a source used to deliver and however long its window: once it has
\* delivered the same number seven times and then none, it is in drift (source_monitor.py:92).
THEOREM ServicesSilence == ServicesSpec => []SilenceIsNoticed
<1> DEFINE Inv == part = "monitor" => Held
<1>1. ServicesInit => Inv
  BY WindowInit DEF ServicesInit, AtStart
<1>2. Inv /\ [ServicesNext]_services => Inv'
  <2> SUFFICES ASSUME Inv, [ServicesNext]_services PROVE Inv'
    OBVIOUS
  <2>1. CASE part = "monitor" /\ S!Next /\ part' = part
    BY <2>1, WindowNext
  <2>2. CASE part # "monitor" /\ part' = part
    BY <2>2
  <2>3. CASE UNCHANGED services
    BY <2>3 DEF services, monitor, Held
  <2> QED
    BY <2>1, <2>2, <2>3 DEF ServicesNext
<1>3. Inv => SilenceIsNoticed
  BY SilenceIsFar DEF SilenceIsNoticed, S!SilenceIsNoticed, Held
<1> QED
  BY <1>1, <1>2, <1>3, PTL DEF ServicesSpec

-----------------------------------------------------------------------------
(* The age of undated postings.                                            *)

Keys == {StateKey(p) : p \in AllPostings}
Marks == [Keys -> [first : Nat, last : Nat]]
Offers == [source : SourceSet, posting : AllPostings]
Stages == {"idle", "fetch", "date", "save", "compare", "open", "write", "import", "done", "dead"}

\* One crawl runs at most, it has loaded, or has in hand, what a shared seen-state would
\* hold, and the file holds that unless it is being written.
Alone ==
    /\ \A q, r \in Runs : Active(q) /\ Active(r) => q = r
    /\ \A r \in Runs : pc[r] \in {"date", "save"} => state[r] = ideal
    /\ (\A r \in Runs : pc[r] # "save") => stateFile.whole /\ stateFile.urls = ideal

CrawlInv ==
    /\ today \in Nat \ {0}
    /\ pc \in [Runs -> Stages]
    /\ got \in [Runs -> [SourceSet -> Seq(AllPostings)]]
    /\ recs = [r \in Runs |-> recs[r]]
    /\ \A r \in Runs : pc[r] = "date" => recs[r] \in Seq(Offers)
    /\ state \in [Runs -> Marks] /\ stateFile \in [whole : BOOLEAN, urls : Marks] /\ ideal \in Marks
    /\ orderly => Alone

LEMMA FreshMarks == Fresh \in Marks
BY DEF Fresh, Marks, Keys, Unseen

LEMMA TouchedMarks ==
  ASSUME NEW st \in Marks, NEW items, NEW now \in Nat
  PROVE  Prune(Touch(st, items, now), now) \in Marks
<1> DEFINE touched == Touch(st, items, now)
<1>1. touched \in Marks
  <2>1. \A k \in Keys : st[k] \in [first : Nat, last : Nat] /\ st[k].first \in Nat
    BY DEF Marks
  <2>2. DOMAIN st = Keys
    BY DEF Marks
  <2>3. \A k \in Keys : (IF \E i \in Range(items) : StateKey(i.posting) = k
                         THEN [first |-> IF st[k] = Unseen THEN now ELSE st[k].first, last |-> now]
                         ELSE st[k]) \in [first : Nat, last : Nat]
    BY <2>1
  <2> QED
    BY <2>2, <2>3 DEF Touch, Marks
<1>2. Unseen \in [first : Nat, last : Nat]
  BY DEF Unseen
<1> HIDE DEF touched
<1>3. Prune(touched, now) \in Marks
  BY <1>1, <1>2 DEF Prune, Marks
<1> QED
  BY <1>3 DEF touched

\* What is collected are the postings of all sources, with their sources.
LEMMA CollectedAll ==
  ASSUME NEW r \in Runs, got \in [Runs -> [SourceSet -> Seq(AllPostings)]]
  PROVE  /\ Collected(r) \in Seq(Offers)
         /\ \A s \in SourceSet : \A p \in Range(got[r][s]) : [source |-> s, posting |-> p] \in Range(Collected(r))
<1> DEFINE lists == [i \in DOMAIN Sources |-> Listed(r, Sources[i])]
<1>1. ASSUME NEW s \in SourceSet
      PROVE  /\ Listed(r, s) \in Seq(Offers)
             /\ \A p \in Range(got[r][s]) : [source |-> s, posting |-> p] \in Range(Listed(r, s))
  <2> DEFINE g == got[r][s]
             n == Len(g)
             listing == Listed(r, s)
  <2>1. g \in Seq(AllPostings)
    OBVIOUS
  <2>2. listing = [i \in DOMAIN g |-> [source |-> s, posting |-> g[i]]]
    BY DEF Listed
  <2> HIDE DEF g, listing
  <2>3. n \in Nat /\ DOMAIN g = 1 .. n /\ \A i \in 1 .. n : g[i] \in AllPostings
    BY <2>1
  <2> HIDE DEF n
  <2>4. listing = [i \in 1 .. n |-> listing[i]] /\ \A i \in 1 .. n : listing[i] \in Offers
    BY <2>2, <2>3 DEF Offers
  <2>5. listing \in Seq(Offers)
    BY <2>3, <2>4, Itemwise
  <2>6. \A p \in Range(g) : [source |-> s, posting |-> p] \in Range(listing)
    BY <2>2 DEF Range
  <2> QED
    BY <2>5, <2>6 DEF listing, g
<1> DEFINE n == Len(Sources)
<1>2. n \in Nat /\ DOMAIN Sources = 1 .. n /\ \A i \in 1 .. n : Sources[i] \in SourceSet
  BY PipelineAssumption DEF SourceSet, Range
<1> HIDE DEF n
<1>3. \A i \in 1 .. n : lists[i] = Listed(r, Sources[i])
  BY <1>2
<1>4. lists = [i \in 1 .. n |-> lists[i]]
  BY <1>2
<1>5. Joined(lists) = Collected(r)
  BY DEF Collected
<1> HIDE DEF lists
<1>6. lists \in Seq(Seq(Offers)) /\ Len(lists) = n
  <2>1. \A i \in 1 .. n : lists[i] \in Seq(Offers)
    BY <1>1, <1>2, <1>3
  <2> QED
    BY <1>2, <1>4, <2>1, Itemwise
<1>7. Joined(lists) \in Seq(Offers) /\ \A i \in 1 .. n : Range(lists[i]) \subseteq Range(Joined(lists))
  BY <1>6, JoinedItems
<1>8. ASSUME NEW s \in SourceSet, NEW p \in Range(got[r][s])
      PROVE  [source |-> s, posting |-> p] \in Range(Joined(lists))
  <2>1. PICK i \in 1 .. n : Sources[i] = s
    BY <1>2 DEF SourceSet, Range
  <2>2. [source |-> s, posting |-> p] \in Range(lists[i])
    BY <1>1, <1>3, <2>1
  <2> QED
    BY <1>7, <2>2
<1> QED
  BY <1>5, <1>7, <1>8

\* What passes the filter are postings with their sources.
LEMMA SiftedItems ==
  ASSUME NEW r \in Runs, got \in [Runs -> [SourceSet -> Seq(AllPostings)]], NEW now
  PROVE  FilterRecords(Collected(r), now) \in Seq(Offers)
<1> DEFINE all == Collected(r)
           I == {n \in DOMAIN all : Survives(all[n].posting, now)}
           V == {all[i] : i \in I \intersect (1 .. Len(all))}
<1>1. all \in Seq(Offers)
  BY CollectedAll
<1>2. FilterRecords(Collected(r), now) = Picked(all, I)
  BY DEF FilterRecords
<1> HIDE DEF all, I
<1>3. Picked(all, I) \in Seq(V)
  BY <1>1, PickedItems
<1>4. V \subseteq Offers
  BY <1>1
<1> HIDE DEF V
<1> QED
  BY <1>2, <1>3, <1>4, Wider

LEMMA CrawlInvInit == Init => CrawlInv
BY FreshMarks DEF Init, CrawlInv, Alone, Active, Stages

\* What Date does to the seen-state a run has loaded.
Dated(st, items) == Prune(Touch(st, items, today), today)

LEMMA CrawlInvNext == CrawlInv /\ [Next]_vars => CrawlInv'
<1> SUFFICES ASSUME CrawlInv, [Next]_vars PROVE CrawlInv'
  OBVIOUS
<1> USE DEF CrawlInv, Alone
<1>0. /\ [s \in SourceSet |-> <<>>] \in [SourceSet -> Seq(AllPostings)]
      /\ Fresh \in Marks
  BY FreshMarks
<1>1. ASSUME NEW r \in Runs, Start(r) PROVE CrawlInv'
  <2>1. pc' \in [Runs -> Stages] /\ got' \in [Runs -> [SourceSet -> Seq(AllPostings)]]
    BY <1>0, <1>1 DEF Start, Goto, Stages
  <2>2. /\ UNCHANGED <<today, recs, state, stateFile, ideal>>
        /\ pc' = [pc EXCEPT ![r] = "fetch"] /\ ~Active(r)
        /\ orderly' => orderly /\ \A q \in Runs \ {r} : ~Active(q)
    BY <1>1 DEF Start, Goto, files
  <2> QED
    BY <2>1, <2>2 DEF Active, Stages
<1>2. ASSUME NEW r \in Runs, Cancel(r) PROVE CrawlInv'
  BY <1>2 DEF Cancel, files, history, bounds, Active
<1>3. ASSUME NEW r \in Runs, Sift(r) PROVE CrawlInv'
  <2>1. /\ pc[r] = "fetch" /\ pc' = [pc EXCEPT ![r] = "date"]
        /\ recs' = [recs EXCEPT ![r] = FilterRecords(Collected(r), today)]
        /\ state' = [state EXCEPT ![r] = LoadState]
        /\ UNCHANGED <<today, got, stateFile, ideal, orderly>>
    BY <1>3 DEF Sift, Goto, files, history, bounds
  <2>2. FilterRecords(Collected(r), today) \in Seq(Offers)
    BY SiftedItems
  <2>3. recs' = [q \in Runs |-> recs'[q]] /\ \A q \in Runs : pc'[q] = "date" => recs'[q] \in Seq(Offers)
    BY <2>1, <2>2 DEF Stages
  <2>4. LoadState \in Marks
    BY <1>0 DEF LoadState
  <2>5. pc' \in [Runs -> Stages] /\ state' \in [Runs -> Marks]
    BY <2>1, <2>4 DEF Stages
  <2>6. ASSUME orderly PROVE LoadState = ideal /\ \A q \in Runs : q # r => ~Active(q)
    <3>1. \A q \in Runs : q # r => ~Active(q)
      BY <2>1, <2>6 DEF Active
    <3>2. \A q \in Runs : pc[q] # "save"
      BY <2>1, <3>1 DEF Active
    <3> QED
      BY <2>6, <3>1, <3>2 DEF LoadState
  <2>7. orderly' => Alone'
    BY <2>1, <2>5, <2>6 DEF Active, Stages
  <2> QED
    BY <2>1, <2>3, <2>5, <2>7
<1>4. ASSUME NEW r \in Runs, Date(r) PROVE CrawlInv'
  <2>1. /\ pc[r] = "date" /\ pc' = [pc EXCEPT ![r] = "save"]
        /\ \E read : recs' = [recs EXCEPT ![r] = ApplyFreshness(recs[r], state[r], today, read)]
        /\ state' = [state EXCEPT ![r] = Dated(state[r], recs[r])]
        /\ ideal' = Dated(ideal, recs[r])
        /\ stateFile' = [whole |-> FALSE, urls |-> Fresh]
        /\ UNCHANGED <<today, got, orderly>>
    BY <1>4 DEF Date, Goto, bounds, Dated
  <2>2. Dated(state[r], recs[r]) \in Marks /\ Dated(ideal, recs[r]) \in Marks
    BY TouchedMarks DEF Dated
  <2>3. recs' = [q \in Runs |-> recs'[q]] /\ \A q \in Runs : pc'[q] = "date" => recs'[q] \in Seq(Offers)
    BY <2>1 DEF Stages
  <2>4. /\ pc' \in [Runs -> Stages] /\ state' \in [Runs -> Marks] /\ ideal' \in Marks
        /\ stateFile' \in [whole : BOOLEAN, urls : Marks]
    BY <1>0, <2>1, <2>2 DEF Stages
  <2>5. orderly' => Alone'
    <3> SUFFICES ASSUME orderly PROVE Alone'
      BY <2>1
    <3>1. \A q \in Runs : q # r => ~Active(q)
      BY <2>1 DEF Active
    <3>2. state[r] = ideal
      BY <2>1
    <3>3. state'[r] = ideal' /\ pc'[r] = "save"
      BY <2>1, <3>2
    <3> QED
      BY <2>1, <3>1, <3>3 DEF Active
  <2> QED
    BY <2>1, <2>3, <2>4, <2>5
<1>5. ASSUME NEW r \in Runs, SaveState(r) PROVE CrawlInv'
  <2>1. /\ pc[r] = "save" /\ pc' = [pc EXCEPT ![r] = "compare"]
        /\ recs' = [recs EXCEPT ![r] = Dedupe(recs[r])]
        /\ stateFile' = [whole |-> TRUE, urls |-> state[r]]
        /\ UNCHANGED <<today, got, state, ideal, orderly>>
    BY <1>5 DEF SaveState, Goto, history, bounds
  <2>2. recs' = [q \in Runs |-> recs'[q]] /\ \A q \in Runs : pc'[q] = "date" => recs'[q] \in Seq(Offers)
    BY <2>1 DEF Stages
  <2>3. pc' \in [Runs -> Stages] /\ stateFile' \in [whole : BOOLEAN, urls : Marks]
    BY <2>1 DEF Stages
  <2>4. orderly' => Alone'
    BY <2>1 DEF Active
  <2> QED
    BY <2>1, <2>2, <2>3, <2>4
<1>6. ASSUME NEW r \in Runs, Compare(r) PROVE CrawlInv'
  <2>1. /\ pc[r] = "compare" /\ pc' = [pc EXCEPT ![r] = "open"]
        /\ recs' = [recs EXCEPT ![r] = <<>>]
        /\ state' = [state EXCEPT ![r] = Fresh]
        /\ UNCHANGED <<today, got, stateFile, ideal, orderly>>
    BY <1>6 DEF Compare, Goto, files, history, bounds
  <2> QED
    BY <1>0, <2>1 DEF Active, Stages
<1>7. ASSUME NEW r \in Runs, OpenOutput(r) PROVE CrawlInv'
  <2>1. /\ pc[r] = "open" /\ pc' = [pc EXCEPT ![r] = "write"]
        /\ got' = [got EXCEPT ![r] = [s \in SourceSet |-> <<>>]]
        /\ UNCHANGED <<today, recs, state, stateFile, ideal, orderly>>
    BY <1>7 DEF OpenOutput, Goto, finishUnchanged, history, bounds
  <2> QED
    BY <1>0, <2>1 DEF Active, Stages
<1>8. ASSUME NEW r \in Runs, WriteOutput(r) \/ Import(r) PROVE CrawlInv'
  <2>1. /\ \E place \in {"import", "done"} : pc' = [pc EXCEPT ![r] = place]
        /\ pc[r] \in {"write", "import"}
        /\ UNCHANGED <<today, got, recs, state, stateFile, ideal, orderly>>
    BY <1>8 DEF WriteOutput, Import, Goto, finishUnchanged, history, bounds
  <2> QED
    BY <2>1 DEF Active, Stages
<1>9. ASSUME NEW r \in Runs, Crash(r) PROVE CrawlInv'
  <2>1. /\ Active(r) /\ pc' = [pc EXCEPT ![r] = "dead"]
        /\ recs' = [recs EXCEPT ![r] = <<>>] /\ state' = [state EXCEPT ![r] = Fresh]
        /\ got' = [got EXCEPT ![r] = [s \in SourceSet |-> <<>>]]
        /\ orderly' = (orderly /\ pc[r] # "save")
        /\ UNCHANGED <<today, stateFile, ideal>>
    BY <1>9 DEF Crash, Goto, files
  <2>2. pc' \in [Runs -> Stages] /\ state' \in [Runs -> Marks] /\ got' \in [Runs -> [SourceSet -> Seq(AllPostings)]]
    BY <1>0, <2>1 DEF Stages
  <2>3. recs' = [q \in Runs |-> recs'[q]] /\ \A q \in Runs : pc'[q] = "date" => recs'[q] \in Seq(Offers)
    BY <2>1 DEF Stages
  <2>4. ASSUME orderly' PROVE Alone'
    <3>1. \A q \in Runs : pc'[q] = IF q = r THEN "dead" ELSE pc[q]
      BY <2>1
    <3>2. Alone /\ pc[r] # "save" /\ \A q \in Runs \ {r} : ~Active(q)
      BY <2>1, <2>4
    <3>3. \A q \in Runs : pc[q] # "save"
      BY <3>2 DEF Active
    <3>4. \A q \in Runs : pc'[q] \notin {"date", "save"}
      BY <3>1, <3>2 DEF Active
    <3>5. \A p, q \in Runs : Active(p)' /\ Active(q)' => p = q
      BY <3>1, <3>2 DEF Active
    <3> QED
      BY <2>1, <3>2, <3>3, <3>4, <3>5
  <2> QED
    BY <2>1, <2>2, <2>3, <2>4
<1>10. ASSUME NEW r \in Runs, NEW s \in SourceSet, SourceStep(r, s) PROVE CrawlInv'
  <2>1. got' \in [Runs -> [SourceSet -> Seq(AllPostings)]]
    <3>1. CASE FinishSource(r, s)
      <4>1. PICK listing \in Pages[s] : got' = [got EXCEPT ![r][s] = listing]
        BY <3>1 DEF FinishSource
      <4>2. listing \in Seq(Posting)
        BY PipelineAssumption DEF SourceSet
      <4>3. Len(listing) \in Nat /\ listing = [i \in 1 .. Len(listing) |-> listing[i]]
        BY <4>2
      <4>4. \A i \in 1 .. Len(listing) : listing[i] \in AllPostings
        BY <4>3 DEF AllPostings, Range
      <4>5. listing \in Seq(AllPostings)
        BY <4>3, <4>4, Itemwise
      <4> QED
        BY <4>1, <4>5
    <3>2. CASE UNCHANGED got
      BY <3>2
    <3> QED
      BY <1>10, <3>1, <3>2 DEF SourceStep, BeginSource, SkipSource, SourceRaises
  <2>2. UNCHANGED <<today, pc, recs, state, stateFile, ideal, orderly>>
    BY <1>10 DEF SourceStep, BeginSource, SkipSource, FinishSource, SourceRaises, fetchUnchanged, files, history, bounds
  <2> QED
    BY <2>1, <2>2 DEF Active
<1>11. CASE NextDay
  BY <1>11 DEF NextDay, files, history, Active
<1>12. CASE UNCHANGED vars
  BY <1>12 DEF vars, Active
<1> QED
  BY <1>1, <1>2, <1>3, <1>4, <1>5, <1>6, <1>7, <1>8, <1>9, <1>10, <1>11, <1>12 DEF Next, Stage

\* An undated posting goes by the day it was first seen, or by today if it is new.
LEMMA UndatedStamp ==
  ASSUME NEW p, NEW st, NEW now \in Nat \ {0}, NEW read,
         p.deadline = 0, p.posted = 0, p.page = 0
  PROVE  Stamp(p, st, now, read) = IF Seen(p, st, now) THEN [fresh |-> "first_seen", date |-> st[StateKey(p)].first]
                                   ELSE [fresh |-> "undated_new", date |-> now]
<1>1. ~(p.deadline >= now) /\ ~(p.deadline < now /\ p.posted # 0) /\ ~(p.deadline < now /\ p.posted = 0 /\ p.deadline # 0)
  OBVIOUS
<1>2. ~(Undated(p, st, now) /\ p \in read /\ p.page # 0)
  OBVIOUS
<1> HIDE DEF Seen, Undated, StateKey
<1> QED
  BY <1>1, <1>2 DEF Stamp

\* A posting that is kept undated was first seen within the window.
LEMMA KeptUndated ==
  ASSUME NEW st \in Marks, NEW items \in Seq(Offers), NEW now \in Nat \ {0}, NEW read,
         NEW x \in Range(ApplyFreshness(items, st, now, read)), NEW p \in x.of,
         p.deadline = 0, p.posted = 0, p.page = 0
  PROVE  now - Prune(Touch(st, items, now), now)[StateKey(p)].first <= Config.window
<1> DEFINE dated == [n \in DOMAIN items |-> Record(items[n], Stamp(items[n].posting, st, now, read))]
           I == {n \in DOMAIN dated : Keeps(dated[n], now)}
           V == {dated[n] : n \in DOMAIN dated}
           k == StateKey(p)
<1>1. PICK n \in DOMAIN items : x = dated[n] /\ Keeps(dated[n], now)
  <2> DEFINE len == Len(items)
  <2>1. len \in Nat /\ DOMAIN items = 1 .. len
    OBVIOUS
  <2> HIDE DEF len
  <2>2. dated = [n \in 1 .. len |-> dated[n]] /\ DOMAIN dated = 1 .. len /\ \A n \in 1 .. len : dated[n] \in V
    BY <2>1
  <2> HIDE DEF dated, V
  <2>3. dated \in Seq(V) /\ Len(dated) = len
    BY <2>1, <2>2, Itemwise
  <2> DEFINE W == {dated[i] : i \in I \intersect (1 .. Len(dated))}
  <2>4. Picked(dated, I) \in Seq(W)
    BY <2>3, PickedItems
  <2>5. x \in Range(Picked(dated, I))
    BY DEF ApplyFreshness, dated
  <2>6. x \in W
    <3> HIDE DEF W, I
    <3> QED
      BY <2>4, <2>5 DEF Range
  <2> QED
    BY <2>1, <2>2, <2>6
<1> DEFINE stamp == Stamp(items[n].posting, st, now, read)
<1>2. x.of = {items[n].posting} /\ x.fresh = stamp.fresh /\ x.date = stamp.date
  <2> HIDE DEF stamp
  <2>1. x = Record(items[n], stamp)
    BY <1>1 DEF stamp
  <2> QED
    BY <2>1 DEF Record
<1>3. p = items[n].posting
  BY <1>2
<1>4. stamp = IF Seen(p, st, now) THEN [fresh |-> "first_seen", date |-> st[k].first]
              ELSE [fresh |-> "undated_new", date |-> now]
  BY <1>3, UndatedStamp
<1>5. items[n] \in Offers /\ items[n] \in Range(items)
  BY DEF Range
<1>6. k \in Keys
  BY <1>3, <1>5 DEF Keys, Offers
<1> HIDE DEF k, dated
<1>7. st[k] \in [first : Nat, last : Nat]
  BY <1>6 DEF Marks
<1> DEFINE touched == Touch(st, items, now)
<1>8. touched[k] = [first |-> IF st[k] = Unseen THEN now ELSE st[k].first, last |-> now]
  BY <1>3, <1>5, <1>6 DEF Touch, Marks, k
<1>9. Prune(touched, now)[k] = touched[k]
  <2>1. k \in DOMAIN touched
    BY <1>6 DEF Touch, Marks
  <2> HIDE DEF touched
  <2>2. touched[k].last = now
    BY <1>8
  <2>3. ~(now < now - Horizon)
    BY PipelineAssumption
  <2> QED
    BY <2>1, <2>2, <2>3 DEF Prune
<1>10. Config.window \in Nat
  BY PipelineAssumption
<1>11. Keeps(x, now)
  BY <1>1
<1> HIDE DEF touched, stamp
<1>12. CASE Seen(p, st, now)
  <2>1. x.fresh = "first_seen" /\ x.date = st[k].first /\ st[k] # Unseen
    BY <1>2, <1>4, <1>12 DEF Seen, k
  <2>2. now - st[k].first <= Config.window
    BY <1>11, <2>1 DEF Keeps
  <2> QED
    BY <1>8, <1>9, <2>1, <2>2 DEF touched, k
<1>13. CASE ~Seen(p, st, now)
  <2>1. st[k] = Unseen \/ now <= st[k].first
    BY <1>7, <1>13 DEF Seen, k
  <2>2. touched[k].first \in Nat /\ now <= touched[k].first
    BY <1>7, <1>8, <2>1
  <2> QED
    BY <1>9, <1>10, <2>2 DEF touched, k
<1> QED
  BY <1>12, <1>13

\* Whatever the sources list, on whichever days crawls run, however they end: while no two
\* overlap and none dies with the seen-state open, an undated posting that is kept was first
\* seen no longer ago than the window (freshness.py:21-28).
THEOREM CrawlAgesOut == Spec => UndatedAgesOut
<1> DEFINE Ages == \A r \in Runs : orderly /\ pc[r] = "date" /\ pc'[r] = "save" =>
                      \A x \in Range(recs'[r]) : \A p \in x.of :
                          p.posted = 0 /\ p.deadline = 0 /\ p.page = 0 =>
                              today - ideal'[StateKey(p)].first <= Config.window
<1>1. CrawlInv /\ [Next]_vars => [Ages]_vars
  <2> SUFFICES ASSUME CrawlInv, Next, NEW r \in Runs, orderly, pc[r] = "date", pc'[r] = "save",
                      NEW x \in Range(recs'[r]), NEW p \in x.of, p.posted = 0, p.deadline = 0, p.page = 0
               PROVE  today - ideal'[StateKey(p)].first <= Config.window
    OBVIOUS
  <2> USE DEF CrawlInv, Alone
  <2>1. Date(r)
    <3>1. ASSUME NEW q \in Runs, Start(q) \/ Cancel(q) \/ Sift(q) \/ SaveState(q) \/ Compare(q) \/ OpenOutput(q)
                                 \/ WriteOutput(q) \/ Import(q) \/ Crash(q)
          PROVE  FALSE
      BY <3>1 DEF Start, Cancel, Sift, SaveState, Compare, OpenOutput, WriteOutput, Import, Crash, Goto, finishUnchanged
    <3>2. ASSUME NEW q \in Runs, Date(q) PROVE q = r
      BY <3>2 DEF Date, Goto
    <3>3. ASSUME NEW q \in Runs, NEW s \in SourceSet, SourceStep(q, s) PROVE FALSE
      BY <3>3 DEF SourceStep, BeginSource, SkipSource, FinishSource, SourceRaises, fetchUnchanged
    <3>4. ~NextDay
      BY DEF NextDay
    <3> QED
      BY <3>1, <3>2, <3>3, <3>4 DEF Next, Stage
  <2>2. PICK read : recs'[r] = ApplyFreshness(recs[r], state[r], today, read)
    BY <2>1 DEF Date
  <2>3. state[r] = ideal /\ ideal \in Marks /\ recs[r] \in Seq(Offers)
    OBVIOUS
  <2>4. ideal' = Prune(Touch(ideal, recs[r], today), today)
    BY <2>1 DEF Date
  <2>5. today \in Nat \ {0}
    OBVIOUS
  <2>6. x \in Range(ApplyFreshness(recs[r], ideal, today, read))
    BY <2>2, <2>3
  <2>7. today - Prune(Touch(ideal, recs[r], today), today)[StateKey(p)].first <= Config.window
    BY <2>3, <2>5, <2>6, KeptUndated
  <2> QED
    BY <2>4, <2>7
<1> QED
  BY <1>1, CrawlInvInit, CrawlInvNext, PTL DEF Spec, UndatedAgesOut

-----------------------------------------------------------------------------
(* The two passes over duplicates.                                         *)

Records == [url : STRING, title : STRING, inst : STRING, type : STRING, from : SUBSET SourceSet,
            fresh : DOMAIN Quality, date : Nat, of : SUBSET AllPostings]

LEMMA Merged ==
  ASSUME NEW base \in Records, NEW dup \in Records
  PROVE  /\ MergeInto(base, dup) \in Records
         /\ MergeInto(base, dup).title = base.title
         /\ MergeInto(base, dup).inst = IF base.inst = NoInst THEN dup.inst ELSE base.inst
         /\ MergeInto(base, dup).url = IF base.url = NoUrl THEN dup.url ELSE base.url
         /\ MergeInto(base, dup).from = base.from \union dup.from
         /\ MergeInto(base, dup).of = base.of \union dup.of
BY DEF MergeInto, Records

\* What a record absorbs by its key does not change the key.
LEMMA MergedKey ==
  ASSUME NEW base \in Records, NEW dup \in Records, SameKey(base, dup)
  PROVE  DedupeKey(MergeInto(base, dup)) = DedupeKey(base)
<1> DEFINE m == MergeInto(base, dup)
<1>1. /\ m.title = base.title
      /\ m.inst = IF base.inst = NoInst THEN dup.inst ELSE base.inst
      /\ m.url = IF base.url = NoUrl THEN dup.url ELSE base.url
  BY Merged
<1> HIDE DEF m
<1>2. CASE base.inst # NoInst
  BY <1>1, <1>2 DEF DedupeKey, m
<1>3. CASE base.inst = NoInst
  <2>1. dup.inst = NoInst
    <3>1. DedupeKey(base)[1] # "ti"
      BY <1>3 DEF DedupeKey
    <3>2. dup.inst # NoInst => DedupeKey(dup)[1] = "ti"
      BY DEF DedupeKey
    <3> QED
      BY <3>1, <3>2 DEF SameKey
  <2>2. CASE base.url # NoUrl
    BY <1>1, <1>3, <2>1, <2>2 DEF DedupeKey, m
  <2>3. CASE base.url = NoUrl
    <3>1. DedupeKey(base)[1] = "t"
      BY <1>3, <2>3 DEF DedupeKey
    <3>2. dup.url # NoUrl => DedupeKey(dup)[1] = "url"
      BY <2>1 DEF DedupeKey
    <3>3. dup.url = NoUrl
      BY <3>1, <3>2 DEF SameKey
    <3> QED
      BY <1>1, <1>3, <2>1, <2>3, <3>3 DEF DedupeKey, m
  <2> QED
    BY <2>2, <2>3
<1> QED
  BY <1>2, <1>3

LEMMA IntoCases ==
  ASSUME NEW s \in Seq(Records), NEW r \in Records, NEW pass
  PROVE  /\ Into(s, r, pass) \in Seq(Records)
         /\ \/ /\ \A i \in 1 .. Len(s) : ~Same(pass, s[i], r)
               /\ Into(s, r, pass) = Append(s, r)
            \/ \E i \in 1 .. Len(s) : /\ Same(pass, s[i], r)
                                      /\ Into(s, r, pass) = [s EXCEPT ![i] = MergeInto(s[i], r)]
<1> DEFINE hits == {i \in DOMAIN s : Same(pass, s[i], r)}
           i == CHOOSE i \in hits : TRUE
<1>0. DOMAIN s = 1 .. Len(s) /\ Len(s) \in Nat
  OBVIOUS
<1>1. CASE hits = {}
  <2>1. Into(s, r, pass) = Append(s, r)
    BY <1>1 DEF Into
  <2>2. \A j \in 1 .. Len(s) : ~Same(pass, s[j], r)
    BY <1>0, <1>1
  <2>3. Append(s, r) \in Seq(Records)
    BY Longer
  <2> QED
    BY <2>1, <2>2, <2>3
<1>2. CASE hits # {}
  <2>1. i \in 1 .. Len(s) /\ Same(pass, s[i], r)
    <3>1. i \in hits
      BY <1>2
    <3> HIDE DEF i
    <3> QED
      BY <1>0, <3>1
  <2>2. Into(s, r, pass) = [s EXCEPT ![i] = MergeInto(s[i], r)]
    BY <1>2 DEF Into
  <2> HIDE DEF i
  <2> DEFINE m == MergeInto(s[i], r)
  <2>3. s[i] \in Records
    BY <2>1
  <2>4. m \in Records
    BY <2>3, Merged
  <2> HIDE DEF m
  <2>5. [s EXCEPT ![i] = m] \in Seq(Records)
    BY <2>1, <2>4
  <2> QED
    BY <2>1, <2>2, <2>5 DEF m
<1> QED
  BY <1>1, <1>2

LEMMA AbsorbSteps ==
  ASSUME NEW s \in Seq(Records), NEW pass
  PROVE  \E f \in [0 .. Len(s) -> Seq(Records)] :
             /\ f[0] = <<>>
             /\ \A n \in 1 .. Len(s) : f[n] = Into(f[n - 1], s[n], pass)
             /\ Absorb(s, pass) = f[Len(s)]
<1> DEFINE len == Len(s)
           h == [n \in 1 .. len |-> [v \in Seq(Records) |-> Into(v, s[n], pass)]]
           F == CHOOSE f : f = [n \in 0 .. len |-> IF n = 0 THEN <<>> ELSE Into(f[n - 1], s[n], pass)]
<1>1. len \in Nat /\ \A n \in 1 .. len : s[n] \in Records
  OBVIOUS
<1>2. ASSUME NEW n \in 1 .. len, NEW v \in Seq(Records) PROVE h[n][v] = Into(v, s[n], pass) /\ h[n][v] \in Seq(Records)
  <2>1. h[n][v] = Into(v, s[n], pass)
    OBVIOUS
  <2> HIDE DEF h, len
  <2> QED
    BY <1>1, <2>1, IntoCases
<1>3. PICK f \in [0 .. len -> Seq(Records)] : Follows(f, <<>>, len, h)
  <2>1. <<>> \in Seq(Records)
    OBVIOUS
  <2>2. Steps(h, len, Seq(Records))
    BY <1>2 DEF Steps
  <2> HIDE DEF h, len, F
  <2> QED
    BY <1>1, <2>1, <2>2, Recursion
<1>4. ASSUME NEW n \in 1 .. len PROVE f[n] = Into(f[n - 1], s[n], pass)
  <2>1. f[n - 1] \in Seq(Records)
    <3> HIDE DEF h, F, len
    <3> QED
      BY <1>1
  <2> HIDE DEF h, F, len
  <2> QED
    BY <1>2, <1>3, <2>1 DEF Follows
<1>5. f = [n \in 0 .. len |-> IF n = 0 THEN <<>> ELSE Into(f[n - 1], s[n], pass)]
  <2> HIDE DEF h, F, len
  <2>1. ASSUME NEW n \in 0 .. len PROVE f[n] = IF n = 0 THEN <<>> ELSE Into(f[n - 1], s[n], pass)
    <3>1. CASE n = 0
      BY <1>3, <3>1 DEF Follows
    <3>2. CASE n # 0
      <4>1. n \in 1 .. len
        BY <1>1, <3>2
      <4> QED
        BY <1>4, <3>2, <4>1
    <3> QED
      BY <3>1, <3>2
  <2> QED
    BY <2>1
<1>6. F = [n \in 0 .. len |-> IF n = 0 THEN <<>> ELSE Into(F[n - 1], s[n], pass)]
  BY <1>5
<1>7. F[len] = f[len]
  <2> HIDE DEF F, h, len
  <2>1. f[0] = F[0]
    BY <1>1, <1>3, <1>6 DEF Follows
  <2>2. ASSUME NEW n \in 1 .. len, f[n - 1] = F[n - 1] PROVE f[n] = F[n]
    <3>1. n \in 0 .. len /\ n # 0
      BY <1>1
    <3>2. F[n] = Into(F[n - 1], s[n], pass)
      BY <1>6, <3>1
    <3> QED
      BY <1>4, <2>2, <3>2
  <2>3. \A n \in 0 .. len : f[n] = F[n]
    <3>1. Alike(f, F, len)
      BY <2>1, <2>2 DEF Alike
    <3> QED
      BY <1>1, <3>1, Agreement
  <2> QED
    BY <1>1, <2>3
<1>8. Absorb(s, pass) = F[len]
  BY DEF Absorb
<1> HIDE DEF F, h
<1> QED
  BY <1>3, <1>4, <1>7, <1>8 DEF Follows

\* Up to a bound, for a set.
LEMMA InductionUpTo ==
  ASSUME NEW len \in Nat, NEW T, 0 \in T, \A n \in 0 .. (len - 1) : n \in T => n + 1 \in T
  PROVE  len \in T
<1> DEFINE U == {n \in Nat : n <= len => n \in T}
<1>1. ASSUME NEW n \in Nat, n \in U PROVE n + 1 \in U
  BY <1>1
<1>2. 0 \in U
  OBVIOUS
<1> HIDE DEF U
<1>3. len \in U
  BY <1>1, <1>2, Induction
<1> QED
  BY <1>3 DEF U

\* No posting is lost: who absorbs a record stands for what it stood for.
Covers(X, y) == \E x \in X : y.of \subseteq x.of /\ y.from \subseteq x.from

LEMMA IntoCovers ==
  ASSUME NEW s \in Seq(Records), NEW r \in Records, NEW pass, NEW y \in Records, y = r \/ Covers(Range(s), y)
  PROVE  Covers(Range(Into(s, r, pass)), y)
<1> DEFINE t == Into(s, r, pass)
<1>1. CASE t = Append(s, r)
  BY <1>1, RangeOfAppend DEF Covers
<1>2. ASSUME NEW i \in 1 .. Len(s), t = [s EXCEPT ![i] = MergeInto(s[i], r)] PROVE Covers(Range(t), y)
  <2> HIDE DEF t
  <2> DEFINE m == MergeInto(s[i], r)
  <2>1. s[i] \in Records /\ DOMAIN s = 1 .. Len(s)
    OBVIOUS
  <2>2. m.from = s[i].from \union r.from /\ m.of = s[i].of \union r.of
    BY <2>1, Merged
  <2> HIDE DEF m
  <2>3. DOMAIN t = 1 .. Len(s) /\ t[i] = m /\ \A j \in 1 .. Len(s) : j # i => t[j] = s[j]
    BY <1>2, <2>1 DEF m
  <2>4. m \in Range(t) /\ \A j \in 1 .. Len(s) : j # i => s[j] \in Range(t)
    BY <2>3 DEF Range
  <2>5. CASE y = r
    BY <2>2, <2>4, <2>5 DEF Covers
  <2>6. CASE Covers(Range(s), y)
    <3>1. PICK j \in 1 .. Len(s) : y.of \subseteq s[j].of /\ y.from \subseteq s[j].from
      BY <2>1, <2>6 DEF Covers, Range
    <3>2. CASE j = i
      BY <2>2, <2>4, <3>1, <3>2 DEF Covers
    <3>3. CASE j # i
      BY <2>4, <3>1, <3>3 DEF Covers
    <3> QED
      BY <3>2, <3>3
  <2> QED
    BY <2>5, <2>6
<1> QED
  BY <1>1, <1>2, IntoCases

LEMMA AbsorbCovers ==
  ASSUME NEW s \in Seq(Records), NEW pass
  PROVE  Absorb(s, pass) \in Seq(Records) /\ \A y \in Range(s) : Covers(Range(Absorb(s, pass)), y)
<1> DEFINE len == Len(s)
           Has(v, n) == \A m \in 1 .. n : Covers(Range(v), s[m])
<1>1. len \in Nat /\ DOMAIN s = 1 .. len /\ \A n \in 1 .. len : s[n] \in Records
  OBVIOUS
<1>2. PICK f \in [0 .. len -> Seq(Records)] :
          /\ f[0] = <<>>
          /\ \A n \in 1 .. len : f[n] = Into(f[n - 1], s[n], pass)
          /\ Absorb(s, pass) = f[len]
  BY AbsorbSteps
<1> HIDE DEF len
<1> DEFINE T == {n \in 0 .. len : Has(f[n], n)}
<1>3. ASSUME NEW n \in 0 .. (len - 1), n \in T PROVE n + 1 \in T
  <2>1. n + 1 \in 1 .. len /\ n \in 0 .. len /\ (n + 1) - 1 = n
    BY <1>1
  <2>2. f[n + 1] = Into(f[n], s[n + 1], pass) /\ f[n] \in Seq(Records) /\ s[n + 1] \in Records
    BY <1>1, <1>2, <2>1
  <2>3. ASSUME NEW m \in 1 .. (n + 1) PROVE Covers(Range(f[n + 1]), s[m])
    <3>1. m \in 1 .. len /\ s[m] \in Records
      BY <1>1, <2>1
    <3>2. m = n + 1 \/ m \in 1 .. n
      OBVIOUS
    <3>3. s[m] = s[n + 1] \/ Covers(Range(f[n]), s[m])
      BY <1>3, <3>2
    <3> HIDE DEF T, Has
    <3> QED
      BY <2>2, <3>1, <3>3, IntoCovers
  <2> QED
    BY <1>1, <2>1, <2>3
<1>4. 0 \in T
  BY <1>1
<1>5. len \in T
  <2> HIDE DEF T
  <2> QED
    BY <1>1, <1>3, <1>4, InductionUpTo
<1>6. f[len] \in Seq(Records)
  BY <1>1
<1> QED
  BY <1>1, <1>2, <1>5, <1>6 DEF Range

\* No two records of a list are of one address, or of one key.
Apart(s, pass) == \A i, j \in 1 .. Len(s) : i # j => ~Same(pass, s[i], s[j])

LEMMA SameIsMutual == \A pass, a, b : Same(pass, a, b) => Same(pass, b, a)
BY DEF Same, SameUrl, SameKey

LEMMA AppendApart ==
  ASSUME NEW s \in Seq(Records), NEW r \in Records, NEW pass, Apart(s, pass), \A i \in 1 .. Len(s) : ~Same(pass, s[i], r)
  PROVE  Apart(Append(s, r), pass)
<1> DEFINE t == Append(s, r)
           len == Len(s)
<1>1. len \in Nat /\ Len(t) = len + 1 /\ t[len + 1] = r /\ \A i \in 1 .. len : t[i] = s[i]
  OBVIOUS
<1>2. \A i \in 1 .. len : ~Same(pass, s[i], r) /\ ~Same(pass, r, s[i])
  BY SameIsMutual
<1>3. \A i, j \in 1 .. len : i # j => ~Same(pass, s[i], s[j])
  BY DEF Apart
<1> HIDE DEF t, len
<1>4. ASSUME NEW i \in 1 .. Len(t), NEW j \in 1 .. Len(t), i # j PROVE ~Same(pass, t[i], t[j])
  <2>1. CASE i \in 1 .. len /\ j \in 1 .. len
    BY <1>1, <1>3, <1>4, <2>1
  <2>2. CASE i \in 1 .. len /\ j = len + 1
    BY <1>1, <1>2, <2>2
  <2>3. CASE i = len + 1 /\ j \in 1 .. len
    BY <1>1, <1>2, <2>3
  <2> QED
    BY <1>1, <1>4, <2>1, <2>2, <2>3
<1> QED
  BY <1>4 DEF Apart, t

\* A pass by address leaves one record of each.
LEMMA IntoUrls ==
  ASSUME NEW s \in Seq(Records), NEW r \in Records, Apart(s, "url")
  PROVE  Apart(Into(s, r, "url"), "url")
<1> DEFINE t == Into(s, r, "url")
<1>1. CASE t = Append(s, r) /\ \A i \in 1 .. Len(s) : ~Same("url", s[i], r)
  BY <1>1, AppendApart
<1>2. ASSUME NEW i \in 1 .. Len(s), Same("url", s[i], r), t = [s EXCEPT ![i] = MergeInto(s[i], r)] PROVE Apart(t, "url")
  <2> HIDE DEF t
  <2> DEFINE m == MergeInto(s[i], r)
  <2>1. s[i] \in Records /\ s[i].url # NoUrl
    BY <1>2 DEF Same, SameUrl
  <2>2. m.url = s[i].url
    BY <2>1, Merged
  <2> HIDE DEF m
  <2>3. Len(t) = Len(s) /\ \A j \in 1 .. Len(s) : t[j].url = s[j].url
    BY <1>2, <2>2 DEF m
  <2> QED
    BY <2>3 DEF Apart, Same, SameUrl
<1> QED
  BY <1>1, <1>2, IntoCases

LEMMA AbsorbUrls ==
  ASSUME NEW s \in Seq(Records)
  PROVE  Apart(Absorb(s, "url"), "url")
<1> DEFINE len == Len(s)
<1>1. len \in Nat /\ \A n \in 1 .. len : s[n] \in Records
  OBVIOUS
<1>2. PICK f \in [0 .. len -> Seq(Records)] :
          /\ f[0] = <<>>
          /\ \A n \in 1 .. len : f[n] = Into(f[n - 1], s[n], "url")
          /\ Absorb(s, "url") = f[len]
  BY AbsorbSteps
<1> HIDE DEF len
<1> DEFINE T == {n \in 0 .. len : Apart(f[n], "url")}
<1>3. ASSUME NEW n \in 0 .. (len - 1), n \in T PROVE n + 1 \in T
  <2>1. n + 1 \in 1 .. len /\ n \in 0 .. len /\ (n + 1) - 1 = n
    BY <1>1
  <2>2. f[n + 1] = Into(f[n], s[n + 1], "url") /\ f[n] \in Seq(Records) /\ s[n + 1] \in Records
    BY <1>1, <1>2, <2>1
  <2>3. Apart(f[n + 1], "url")
    BY <1>3, <2>2, IntoUrls
  <2> QED
    BY <1>1, <2>1, <2>3
<1>4. 0 \in T
  BY <1>1, <1>2 DEF Apart
<1>5. len \in T
  <2> HIDE DEF T
  <2> QED
    BY <1>1, <1>3, <1>4, InductionUpTo
<1> QED
  BY <1>2, <1>5

\* A pass by key takes an address over only from a record it absorbs.
LEMMA IntoKeys ==
  ASSUME NEW s \in Seq(Records), NEW r \in Records, Apart(s, "url"), Apart(s, "key"),
         \A i \in 1 .. Len(s) : ~Same("url", s[i], r)
  PROVE  /\ Apart(Into(s, r, "key"), "url") /\ Apart(Into(s, r, "key"), "key")
         /\ \A i \in 1 .. Len(Into(s, r, "key")) :
                \/ Into(s, r, "key")[i].url = r.url
                \/ \E j \in 1 .. Len(s) : Into(s, r, "key")[i].url = s[j].url
<1> DEFINE t == Into(s, r, "key")
<1>1. ASSUME t = Append(s, r), \A i \in 1 .. Len(s) : ~Same("key", s[i], r)
      PROVE  Apart(t, "url") /\ Apart(t, "key") /\ \A i \in 1 .. Len(t) : t[i].url = r.url \/ \E j \in 1 .. Len(s) : t[i].url = s[j].url
  <2> HIDE DEF t
  <2>1. Apart(t, "url") /\ Apart(t, "key")
    BY <1>1, AppendApart
  <2>2. Len(s) \in Nat /\ Len(t) = Len(s) + 1 /\ t[Len(s) + 1] = r /\ \A i \in 1 .. Len(s) : t[i] = s[i]
    BY <1>1
  <2>3. ASSUME NEW i \in 1 .. Len(t) PROVE t[i].url = r.url \/ \E j \in 1 .. Len(s) : t[i].url = s[j].url
    <3>1. i = Len(s) + 1 \/ i \in 1 .. Len(s)
      BY <2>2
    <3> QED
      BY <2>2, <3>1
  <2> QED
    BY <2>1, <2>3
<1>2. ASSUME NEW i \in 1 .. Len(s), Same("key", s[i], r), t = [s EXCEPT ![i] = MergeInto(s[i], r)]
      PROVE  Apart(t, "url") /\ Apart(t, "key") /\ \A k \in 1 .. Len(t) : t[k].url = r.url \/ \E j \in 1 .. Len(s) : t[k].url = s[j].url
  <2> HIDE DEF t
  <2> DEFINE m == MergeInto(s[i], r)
  <2>1. s[i] \in Records /\ SameKey(s[i], r)
    BY <1>2 DEF Same
  <2>2. m.url = (IF s[i].url = NoUrl THEN r.url ELSE s[i].url) /\ DedupeKey(m) = DedupeKey(s[i])
    BY <2>1, Merged, MergedKey
  <2> HIDE DEF m
  <2>3. Len(t) = Len(s) /\ t[i] = m /\ \A j \in 1 .. Len(s) : j # i => t[j] = s[j]
    BY <1>2 DEF m
  <2>4. \A j \in 1 .. Len(s) : DedupeKey(t[j]) = DedupeKey(s[j])
    BY <2>2, <2>3
  <2>5. Apart(t, "key")
    BY <2>3, <2>4 DEF Apart, Same, SameKey
  <2>6. \A j \in 1 .. Len(s) : t[j].url = s[j].url \/ (j = i /\ t[j].url = r.url)
    BY <2>2, <2>3
  <2>7. \A j \in 1 .. Len(s) : s[j].url = NoUrl \/ s[j].url # r.url
    BY DEF Same, SameUrl
  <2>8. \A j, k \in 1 .. Len(s) : j # k => s[j].url = NoUrl \/ s[j].url # s[k].url
    BY DEF Apart, Same, SameUrl
  <2>9. ASSUME NEW j \in 1 .. Len(s), NEW k \in 1 .. Len(s), j # k PROVE t[j].url = NoUrl \/ t[j].url # t[k].url
    <3>1. CASE t[j].url = s[j].url /\ t[k].url = s[k].url
      BY <2>8, <2>9, <3>1
    <3>2. CASE j = i /\ t[j].url = r.url
      <4>1. t[k].url = s[k].url
        BY <2>3, <2>9, <3>2
      <4> QED
        BY <2>7, <3>2, <4>1
    <3>3. CASE k = i /\ t[k].url = r.url
      <4>1. t[j].url = s[j].url
        BY <2>3, <2>9, <3>3
      <4> QED
        BY <2>7, <3>3, <4>1
    <3> QED
      BY <2>6, <3>1, <3>2, <3>3
  <2>10. Apart(t, "url")
    BY <2>3, <2>9 DEF Apart, Same, SameUrl
  <2> QED
    BY <2>3, <2>5, <2>6, <2>10
<1> QED
  BY <1>1, <1>2, IntoCases

LEMMA AbsorbKeys ==
  ASSUME NEW s \in Seq(Records), Apart(s, "url")
  PROVE  Apart(Absorb(s, "key"), "url") /\ Apart(Absorb(s, "key"), "key")
<1> DEFINE len == Len(s)
           From(v, n) == \A i \in 1 .. Len(v) : \E m \in 1 .. n : v[i].url = s[m].url
<1>1. len \in Nat /\ \A n \in 1 .. len : s[n] \in Records
  OBVIOUS
<1>2. PICK f \in [0 .. len -> Seq(Records)] :
          /\ f[0] = <<>>
          /\ \A n \in 1 .. len : f[n] = Into(f[n - 1], s[n], "key")
          /\ Absorb(s, "key") = f[len]
  BY AbsorbSteps
<1>3. \A m, n \in 1 .. len : m # n => s[m].url = NoUrl \/ s[m].url # s[n].url
  BY DEF Apart, Same, SameUrl
<1> HIDE DEF len
<1> DEFINE T == {n \in 0 .. len : Apart(f[n], "url") /\ Apart(f[n], "key") /\ From(f[n], n)}
<1>4. ASSUME NEW n \in 0 .. (len - 1), n \in T PROVE n + 1 \in T
  <2>1. n + 1 \in 1 .. len /\ n \in 0 .. len /\ (n + 1) - 1 = n /\ n \in Nat
    BY <1>1
  <2> DEFINE v == f[n]
             u == f[n + 1]
             r == s[n + 1]
  <2>2. u = Into(v, r, "key") /\ v \in Seq(Records) /\ r \in Records
    BY <1>1, <1>2, <2>1
  <2>3. Apart(v, "url") /\ Apart(v, "key") /\ From(v, n)
    BY <1>4
  <2> HIDE DEF T, u, v
  <2>4. ASSUME NEW i \in 1 .. Len(v) PROVE ~Same("url", v[i], r)
    <3>1. PICK m \in 1 .. n : v[i].url = s[m].url
      BY <2>3
    <3>2. m \in 1 .. len /\ m # n + 1
      BY <1>1, <2>1
    <3>3. s[m].url = NoUrl \/ s[m].url # r.url
      BY <1>3, <2>1, <3>2
    <3> QED
      BY <3>1, <3>3 DEF Same, SameUrl
  <2> HIDE DEF r, From
  <2>5. /\ Apart(u, "url") /\ Apart(u, "key")
        /\ \A i \in 1 .. Len(u) : u[i].url = r.url \/ \E j \in 1 .. Len(v) : u[i].url = v[j].url
    BY <2>2, <2>3, <2>4, IntoKeys
  <2>6. From(u, n + 1)
    <3>1. ASSUME NEW i \in 1 .. Len(u) PROVE \E m \in 1 .. (n + 1) : u[i].url = s[m].url
      <4>1. CASE u[i].url = r.url
        <5>1. n + 1 \in 1 .. (n + 1) /\ u[i].url = s[n + 1].url
          BY <2>1, <4>1 DEF r
        <5> QED
          BY <5>1
      <4>2. ASSUME NEW j \in 1 .. Len(v), u[i].url = v[j].url PROVE \E m \in 1 .. (n + 1) : u[i].url = s[m].url
        <5>1. PICK m \in 1 .. n : v[j].url = s[m].url
          BY <2>3 DEF From
        <5> QED
          BY <2>1, <4>2, <5>1
      <4> QED
        BY <2>5, <4>1, <4>2
    <3> QED
      BY <3>1 DEF From
  <2> QED
    BY <1>1, <2>1, <2>5, <2>6 DEF T, u
<1>5. 0 \in T
  BY <1>1, <1>2 DEF Apart
<1>6. len \in T
  <2> HIDE DEF T
  <2> QED
    BY <1>1, <1>4, <1>5, InductionUpTo
<1> QED
  BY <1>2, <1>6

\* Both passes: each posting once, and all of them.
LEMMA DedupeIsWhole ==
  ASSUME NEW s \in Seq(Records)
  PROVE  /\ Dedupe(s) \in Seq(Records)
         /\ Apart(Dedupe(s), "url") /\ Apart(Dedupe(s), "key")
         /\ \A y \in Range(s) : Covers(Range(Dedupe(s)), y)
<1> DEFINE once == Absorb(s, "url")
<1>1. once \in Seq(Records) /\ Apart(once, "url") /\ \A y \in Range(s) : Covers(Range(once), y)
  BY AbsorbCovers, AbsorbUrls
<1> HIDE DEF once
<1> DEFINE twice == Absorb(once, "key")
<1>2. /\ twice \in Seq(Records) /\ Apart(twice, "url") /\ Apart(twice, "key")
      /\ \A y \in Range(once) : Covers(Range(twice), y)
  BY <1>1, AbsorbCovers, AbsorbKeys
<1> HIDE DEF twice
<1>3. \A y \in Range(s) : Covers(Range(twice), y)
  <2> SUFFICES ASSUME NEW y \in Range(s) PROVE Covers(Range(twice), y)
    OBVIOUS
  <2>1. PICK x \in Range(once) : y.of \subseteq x.of /\ y.from \subseteq x.from
    BY <1>1 DEF Covers
  <2>2. PICK z \in Range(twice) : x.of \subseteq z.of /\ x.from \subseteq z.from
    BY <1>2 DEF Covers
  <2> QED
    BY <2>1, <2>2 DEF Covers
<1>4. Dedupe(s) = twice
  BY DEF Dedupe, twice, once
<1> QED
  BY <1>2, <1>3, <1>4

-----------------------------------------------------------------------------
(* What a crawl writes.                                                    *)

Outcomes == {"todo", "disabled", "busy", "done", "error", "skipped"}
Offer(s, p) == [source |-> s, posting |-> p]
InDate(p) == Survives(p, today) /\ p.deadline >= today
Covered(r, X) ==
    \A s \in SourceSet : \A p \in Range(got[r][s]) : InDate(p) => \E x \in X : p \in x.of /\ s \in x.from
Distinct(X) == \A x, y \in X : x # y => ~SameUrl(x.record, y.record) /\ ~SameKey(x.record, y.record)

\* Sources answer while the run fetches, and what it then has in hand covers all it was given that is in date: as offers, then as
\* records, from the two passes on one of each posting.
WholeInv ==
    /\ source \in [Runs -> [SourceSet -> Outcomes]]
    /\ \A r \in Runs : pc[r] # "fetch" => \A s \in SourceSet : source[r][s] # "busy"
    /\ \A r \in Runs : pc[r] = "date" =>
          \A s \in SourceSet : \A p \in Range(got[r][s]) : Survives(p, today) => Offer(s, p) \in Range(recs[r])
    /\ \A r \in Runs : pc[r] \in {"save", "compare"} => recs[r] \in Seq(Records) /\ Covered(r, Range(recs[r]))
    /\ \A r \in Runs : pc[r] = "compare" => Apart(recs[r], "url") /\ Apart(recs[r], "key")
    /\ result = [r \in Runs |-> result[r]]
    /\ \A r \in Runs : Distinct(result[r])
    /\ \A r \in Runs : pc[r] = "open" => Covered(r, {x.record : x \in result[r]})

LEMMA PostingTypes ==
  /\ AllPostings \subseteq Posting
  /\ \A p \in AllPostings : p.deadline \in Nat /\ p.posted \in Nat /\ p.page \in Nat
<1>1. AllPostings \subseteq Posting
  BY PipelineAssumption DEF AllPostings, SourceSet, Range
<1> QED
  BY <1>1 DEF Posting

\* The filter passes what survives it.
LEMMA SiftCovers ==
  ASSUME NEW r \in Runs, got \in [Runs -> [SourceSet -> Seq(AllPostings)]], NEW now,
         NEW s \in SourceSet, NEW p \in Range(got[r][s]), Survives(p, now)
  PROVE  Offer(s, p) \in Range(FilterRecords(Collected(r), now))
<1> DEFINE all == Collected(r)
           I == {n \in DOMAIN all : Survives(all[n].posting, now)}
<1>1. all \in Seq(Offers) /\ Offer(s, p) \in Range(all)
  BY CollectedAll DEF Offer
<1> HIDE DEF all
<1>2. PICK n \in DOMAIN all : all[n] = Offer(s, p)
  BY <1>1 DEF Range
<1>3. n \in 1 .. Len(all) /\ all[n].posting = p
  BY <1>1, <1>2 DEF Offer
<1>4. n \in I
  BY <1>2, <1>3
<1>5. all[n] \in Range(Picked(all, I))
  <2> HIDE DEF I
  <2> QED
    BY <1>1, <1>3, <1>4, PickedItems
<1> QED
  BY <1>2, <1>5 DEF FilterRecords, all

LEMMA StampTypes ==
  ASSUME NEW p \in AllPostings, NEW st \in Marks, NEW now \in Nat \ {0}, NEW read
  PROVE  Stamp(p, st, now, read).fresh \in DOMAIN Quality /\ Stamp(p, st, now, read).date \in Nat
<1>1. p.deadline \in Nat /\ p.posted \in Nat /\ p.page \in Nat /\ st[StateKey(p)].first \in Nat
  BY PostingTypes DEF Marks, Keys
<1>2. DOMAIN Quality = {"deadline", "posted", "page_date", "first_seen", "undated_new"}
  BY DEF Quality
<1> HIDE DEF Seen, Undated, StateKey, Quality
<1> DEFINE d == p.deadline
<1>3. CASE d >= now
  BY <1>1, <1>2, <1>3 DEF Stamp
<1>4. CASE d < now /\ p.posted # 0
  BY <1>1, <1>2, <1>4 DEF Stamp
<1>5. CASE d < now /\ p.posted = 0 /\ d # 0
  BY <1>1, <1>2, <1>5 DEF Stamp
<1>6. CASE d = 0 /\ p.posted = 0
  BY <1>1, <1>2, <1>6 DEF Stamp
<1> QED
  BY <1>1, <1>3, <1>4, <1>5, <1>6

\* A posting in date goes by its deadline, and is kept.
LEMMA DateCovers ==
  ASSUME NEW st \in Marks, NEW items \in Seq(Offers), NEW now \in Nat \ {0}, NEW read
  PROVE  /\ ApplyFreshness(items, st, now, read) \in Seq(Records)
         /\ \A o \in Range(items) : o.posting.deadline >= now =>
                \E x \in Range(ApplyFreshness(items, st, now, read)) : o.posting \in x.of /\ o.source \in x.from
<1> DEFINE len == Len(items)
           mark(n) == Stamp(items[n].posting, st, now, read)
           dated == [n \in DOMAIN items |-> Record(items[n], mark(n))]
           I == {n \in DOMAIN dated : Keeps(dated[n], now)}
<1>1. len \in Nat /\ DOMAIN items = 1 .. len /\ \A n \in 1 .. len : items[n] \in Offers
  OBVIOUS
<1>2. ASSUME NEW n \in 1 .. len
      PROVE  /\ dated[n] \in Records
             /\ dated[n].of = {items[n].posting} /\ dated[n].from = {items[n].source}
             /\ dated[n].fresh = mark(n).fresh /\ dated[n].date = mark(n).date
  <2> DEFINE p == items[n].posting
             stamp == mark(n)
  <2>1. p \in AllPostings /\ items[n].source \in SourceSet
    BY <1>1 DEF Offers
  <2>2. stamp.fresh \in DOMAIN Quality /\ stamp.date \in Nat
    BY <2>1, StampTypes
  <2> HIDE DEF stamp
  <2>3. dated[n] = [url |-> p.url, title |-> p.title, inst |-> p.inst, type |-> p.type, from |-> {items[n].source},
                    fresh |-> stamp.fresh, date |-> stamp.date, of |-> {p}]
    BY <1>1 DEF Record, stamp
  <2>4. p.url \in STRING /\ p.title \in STRING /\ p.inst \in STRING /\ p.type \in STRING
    BY <2>1, PostingTypes DEF Posting
  <2> HIDE DEF p, dated
  <2>5. dated[n] \in Records
    BY <2>1, <2>2, <2>3, <2>4 DEF Records
  <2> QED
    BY <2>3, <2>5 DEF p, stamp
<1>3. dated = [n \in 1 .. len |-> dated[n]] /\ DOMAIN dated = 1 .. len
  BY <1>1
<1> HIDE DEF dated, len
<1>4. dated \in Seq(Records) /\ Len(dated) = len
  BY <1>1, <1>2, <1>3, Itemwise
<1> DEFINE V == {dated[i] : i \in I \intersect (1 .. Len(dated))}
<1>5. Picked(dated, I) \in Seq(V) /\ \A i \in I \intersect (1 .. Len(dated)) : dated[i] \in Range(Picked(dated, I))
  <2> HIDE DEF I
  <2> QED
    BY <1>4, PickedItems
<1>6. V \subseteq Records
  BY <1>2, <1>4
<1>7. ApplyFreshness(items, st, now, read) = Picked(dated, I)
  BY DEF ApplyFreshness, dated
<1>8. ASSUME NEW n \in 1 .. len, items[n].posting.deadline >= now PROVE n \in I
  <2>1. items[n].posting.deadline \in Nat
    BY <1>1, PostingTypes DEF Offers
  <2>2. mark(n) = [fresh |-> "deadline", date |-> items[n].posting.deadline]
    <3> DEFINE p == items[n].posting
    <3>1. p.deadline \in Nat /\ p.deadline >= now /\ p.deadline # 0 /\ ~(p.deadline < now)
      BY <1>8, <2>1
    <3>2. ~Undated(p, st, now)
      BY <3>1 DEF Undated
    <3> HIDE DEF p
    <3>3. Stamp(p, st, now, read) = [fresh |-> "deadline", date |-> p.deadline]
      BY <3>1, <3>2 DEF Stamp
    <3> QED
      BY <3>3 DEF p
  <2>3. dated[n].fresh = "deadline" /\ dated[n].date >= now
    BY <1>2, <1>8, <2>2
  <2> QED
    BY <1>3, <2>3 DEF Keeps
<1>9. ASSUME NEW o \in Range(items), o.posting.deadline >= now
      PROVE  \E x \in Range(Picked(dated, I)) : o.posting \in x.of /\ o.source \in x.from
  <2>1. PICK n \in 1 .. len : o = items[n]
    BY <1>1 DEF Range
  <2>2. n \in I /\ n \in 1 .. Len(dated)
    BY <1>4, <1>8, <1>9, <2>1
  <2> HIDE DEF I
  <2>3. dated[n] \in Range(Picked(dated, I))
    BY <1>5, <2>2
  <2> QED
    BY <1>2, <2>1, <2>3
<1>10. Picked(dated, I) \in Seq(Records)
  <2> HIDE DEF I, V
  <2> QED
    BY <1>5, <1>6, Wider
<1> HIDE DEF I
<1> QED
  BY <1>7, <1>9, <1>10

LEMMA WholeInvInit == Init => WholeInv
BY DEF Init, WholeInv, Distinct, NoSource, Outcomes

\* A day later a posting is in date no more than before.
LEMMA LaterInDate ==
  ASSUME today \in Nat, today' \in Nat, today <= today', NEW p \in AllPostings
  PROVE  (Survives(p, today') => Survives(p, today)) /\ (InDate(p)' => InDate(p))
<1>1. p.deadline \in Nat
  BY PostingTypes
<1> QED
  BY <1>1 DEF Survives, InDate

\* Marking what is new changes no record.
LEMMA MarkedRecords ==
  ASSUME NEW u \in Seq(Records), Apart(u, "url"), Apart(u, "key")
  PROVE  {x.record : x \in MarkNew(u)} = Range(u) /\ Distinct(MarkNew(u))
<1> DEFINE new(x) == output.is = "whole" /\ DedupeKey(x) \notin {DedupeKey(o.record) : o \in output.rows}
           marked == {[record |-> x, new |-> new(x)] : x \in Range(u)}
<1>1. MarkNew(u) = marked
  BY DEF MarkNew
<1> HIDE DEF new
<1>2. \A x \in Range(u) : [record |-> x, new |-> new(x)] \in marked
  OBVIOUS
<1>3. \A y \in marked : y.record \in Range(u) /\ y = [record |-> y.record, new |-> new(y.record)]
  OBVIOUS
<1> HIDE DEF marked
<1>4. {x.record : x \in marked} = Range(u)
  <2>1. \A x \in Range(u) : \E y \in marked : y.record = x
    BY <1>2
  <2> QED
    BY <1>3, <2>1
<1>5. ASSUME NEW x \in marked, NEW y \in marked, x # y PROVE ~SameUrl(x.record, y.record) /\ ~SameKey(x.record, y.record)
  <2>1. PICK i \in 1 .. Len(u) : x.record = u[i]
    BY <1>3 DEF Range
  <2>2. PICK j \in 1 .. Len(u) : y.record = u[j]
    BY <1>3 DEF Range
  <2>3. i # j
    BY <1>3, <1>5, <2>1, <2>2
  <2>4. ~Same("url", x.record, y.record) /\ ~Same("key", x.record, y.record)
    BY <2>1, <2>2, <2>3 DEF Apart
  <2> QED
    BY <2>4 DEF Same
<1> QED
  BY <1>1, <1>4, <1>5 DEF Distinct

LEMMA WholeInvNext == CrawlInv /\ WholeInv /\ [Next]_vars => WholeInv'
<1> SUFFICES ASSUME CrawlInv, WholeInv, [Next]_vars PROVE WholeInv'
  OBVIOUS
<1> USE DEF WholeInv
<1>0. /\ today \in Nat \ {0} /\ pc \in [Runs -> Stages] /\ recs = [q \in Runs |-> recs[q]]
      /\ got \in [Runs -> [SourceSet -> Seq(AllPostings)]] /\ state \in [Runs -> Marks]
      /\ \A r \in Runs : pc[r] = "date" => recs[r] \in Seq(Offers)
  BY DEF CrawlInv
<1>1. ASSUME NEW r \in Runs, Start(r) PROVE WholeInv'
  <2>1. /\ UNCHANGED <<today, recs>> /\ pc' = [pc EXCEPT ![r] = "fetch"]
        /\ source' = [source EXCEPT ![r] = [s \in SourceSet |-> IF s \in Enabled THEN "todo" ELSE "disabled"]]
        /\ got' = [got EXCEPT ![r] = [s \in SourceSet |-> <<>>]] /\ result' = [result EXCEPT ![r] = {}]
    BY <1>1 DEF Start, Goto
  <2>2. source' \in [Runs -> [SourceSet -> Outcomes]]
    BY <2>1 DEF Outcomes
  <2> QED
    BY <1>0, <2>1, <2>2 DEF Covered, Distinct, InDate, Stages
<1>2. ASSUME NEW r \in Runs, Cancel(r) PROVE WholeInv'
  BY <1>2 DEF Cancel, bounds, Covered, InDate
<1>3. ASSUME NEW r \in Runs, Sift(r) PROVE WholeInv'
  <2>1. /\ pc' = [pc EXCEPT ![r] = "date"] /\ UNCHANGED <<today, got, result>>
        /\ recs' = [recs EXCEPT ![r] = FilterRecords(Collected(r), today)]
    BY <1>3 DEF Sift, Goto, bounds
  <2>3. source' = [source EXCEPT ![r] = NoSource] /\ NoSource \in [SourceSet -> Outcomes] /\ \A s \in SourceSet : NoSource[s] # "busy"
    BY <1>3 DEF Sift, NoSource, Outcomes
  <2>2. \A s \in SourceSet : \A p \in Range(got[r][s]) :
            Survives(p, today) => Offer(s, p) \in Range(FilterRecords(Collected(r), today))
    BY <1>0, SiftCovers
  <2> QED
    BY <1>0, <2>1, <2>2, <2>3 DEF Covered, InDate, Stages
<1>4. ASSUME NEW r \in Runs, Date(r) PROVE WholeInv'
  <2>1. PICK read : recs' = [recs EXCEPT ![r] = ApplyFreshness(recs[r], state[r], today, read)]
    BY <1>4 DEF Date
  <2>2. pc[r] = "date" /\ pc' = [pc EXCEPT ![r] = "save"] /\ UNCHANGED <<today, got, result, source>>
    BY <1>4 DEF Date, Goto, bounds
  <2> DEFINE dated == ApplyFreshness(recs[r], state[r], today, read)
  <2>3. /\ dated \in Seq(Records)
        /\ \A o \in Range(recs[r]) : o.posting.deadline >= today =>
                \E x \in Range(dated) : o.posting \in x.of /\ o.source \in x.from
    BY <1>0, <2>2, DateCovers
  <2>4. recs' = [recs EXCEPT ![r] = dated]
    BY <2>1
  <2> HIDE DEF dated
  <2>5. Covered(r, Range(dated))
    <3> SUFFICES ASSUME NEW s \in SourceSet, NEW p \in Range(got[r][s]), InDate(p)
                 PROVE  \E x \in Range(dated) : p \in x.of /\ s \in x.from
      BY DEF Covered
    <3>1. Offer(s, p) \in Range(recs[r]) /\ p.deadline >= today
      BY <2>2 DEF InDate
    <3>2. Offer(s, p).posting = p /\ Offer(s, p).source = s
      BY DEF Offer
    <3> QED
      BY <2>3, <3>1, <3>2
  <2> QED
    BY <1>0, <2>2, <2>3, <2>4, <2>5 DEF Covered, InDate, Stages
<1>5. ASSUME NEW r \in Runs, SaveState(r) PROVE WholeInv'
  <2>1. /\ pc[r] = "save" /\ pc' = [pc EXCEPT ![r] = "compare"] /\ UNCHANGED <<today, got, result, source>>
        /\ recs' = [recs EXCEPT ![r] = Dedupe(recs[r])]
    BY <1>5 DEF SaveState, Goto, history, bounds
  <2> DEFINE once == Dedupe(recs[r])
  <2>2. recs[r] \in Seq(Records) /\ Covered(r, Range(recs[r]))
    BY <2>1
  <2>3. /\ once \in Seq(Records) /\ Apart(once, "url") /\ Apart(once, "key")
        /\ \A y \in Range(recs[r]) : Covers(Range(once), y)
    BY <2>2, DedupeIsWhole
  <2>4. recs' = [recs EXCEPT ![r] = once]
    BY <2>1
  <2> HIDE DEF once
  <2>5. Covered(r, Range(once))
    BY <2>2, <2>3 DEF Covered, Covers
  <2> QED
    BY <1>0, <2>1, <2>3, <2>4, <2>5 DEF Covered, InDate, Stages
<1>6. ASSUME NEW r \in Runs, Compare(r) PROVE WholeInv'
  <2>1. /\ pc[r] = "compare" /\ pc' = [pc EXCEPT ![r] = "open"] /\ UNCHANGED <<today, got, source>>
        /\ recs' = [recs EXCEPT ![r] = <<>>] /\ result' = [result EXCEPT ![r] = MarkNew(recs[r])]
    BY <1>6 DEF Compare, Goto, bounds
  <2> DEFINE marked == MarkNew(recs[r])
  <2>2. recs[r] \in Seq(Records) /\ Covered(r, Range(recs[r])) /\ Apart(recs[r], "url") /\ Apart(recs[r], "key")
    BY <2>1
  <2>3. {x.record : x \in marked} = Range(recs[r]) /\ Distinct(marked)
    BY <2>2, MarkedRecords
  <2>5. result' = [result EXCEPT ![r] = marked]
    BY <2>1
  <2>6. Covered(r, {x.record : x \in marked})
    BY <2>2, <2>3
  <2> HIDE DEF marked
  <2> QED
    BY <1>0, <2>1, <2>3, <2>5, <2>6 DEF Covered, InDate, Stages
<1>7. ASSUME NEW r \in Runs, OpenOutput(r) PROVE WholeInv'
  <2>1. /\ pc[r] = "open" /\ pc' = [pc EXCEPT ![r] = "write"] /\ UNCHANGED <<today, recs, result, source>>
        /\ got' = [got EXCEPT ![r] = [s \in SourceSet |-> <<>>]]
    BY <1>7 DEF OpenOutput, Goto, finishUnchanged, bounds
  <2> QED
    BY <1>0, <2>1 DEF Covered, InDate, Stages
<1>8. ASSUME NEW r \in Runs, WriteOutput(r) \/ Import(r) PROVE WholeInv'
  <2>1. /\ \E place \in {"import", "done"} : pc' = [pc EXCEPT ![r] = place]
        /\ pc[r] \in {"write", "import"} /\ UNCHANGED <<today, got, recs, result, source>>
    BY <1>8 DEF WriteOutput, Import, Goto, finishUnchanged, bounds
  <2> QED
    BY <1>0, <2>1 DEF Covered, InDate, Stages
<1>9. ASSUME NEW r \in Runs, Crash(r) PROVE WholeInv'
  <2>1. /\ pc' = [pc EXCEPT ![r] = "dead"] /\ UNCHANGED today
        /\ recs' = [recs EXCEPT ![r] = <<>>] /\ result' = [result EXCEPT ![r] = {}]
        /\ got' = [got EXCEPT ![r] = [s \in SourceSet |-> <<>>]]
    BY <1>9 DEF Crash, Goto
  <2>2. source' = [source EXCEPT ![r] = NoSource] /\ NoSource \in [SourceSet -> Outcomes] /\ \A s \in SourceSet : NoSource[s] # "busy"
    BY <1>9 DEF Crash, NoSource, Outcomes
  <2> QED
    BY <1>0, <2>1, <2>2 DEF Covered, Distinct, InDate, Stages
<1>10. ASSUME NEW r \in Runs, NEW s \in SourceSet, SourceStep(r, s) PROVE WholeInv'
  <2>1. UNCHANGED <<today, pc, recs, result>>
    BY <1>10 DEF SourceStep, BeginSource, SkipSource, FinishSource, SourceRaises, fetchUnchanged, bounds
  <2>2. pc[r] = "fetch" /\ \E outcome \in Outcomes : source' = [source EXCEPT ![r][s] = outcome]
    BY <1>10 DEF SourceStep, BeginSource, SkipSource, FinishSource, SourceRaises, NextUp, SetSource, Outcomes
  <2>3. source' \in [Runs -> [SourceSet -> Outcomes]] /\ \A q \in Runs \ {r} : source'[q] = source[q]
    BY <2>2
  <2>4. \A q \in Runs \ {r} : got'[q] = got[q]
    BY <1>0, <1>10 DEF SourceStep, BeginSource, SkipSource, FinishSource, SourceRaises
  <2>5. \A q \in Runs : pc'[q] # "fetch" => q # r
    BY <2>1, <2>2
  <2>6. \A q \in Runs : pc'[q] # "fetch" => \A t \in SourceSet : source'[q][t] # "busy"
    BY <2>1, <2>3, <2>5
  <2>7. \A q \in Runs : pc'[q] = "date" =>
           \A t \in SourceSet : \A p \in Range(got'[q][t]) : Survives(p, today') => Offer(t, p) \in Range(recs'[q])
    BY <2>1, <2>4, <2>5
  <2>8. \A q \in Runs : pc'[q] \in {"save", "compare"} =>
           recs'[q] \in Seq(Records) /\ Covered(q, Range(recs[q]))'
    BY <2>1, <2>4, <2>5 DEF Covered, InDate
  <2>9. \A q \in Runs : pc'[q] = "open" => Covered(q, {x.record : x \in result[q]})'
    BY <2>1, <2>4, <2>5 DEF Covered, InDate
  <2> QED
    BY <2>1, <2>3, <2>6, <2>7, <2>8, <2>9 DEF WholeInv
<1>11. CASE NextDay
  <2>1. today' = today + 1 /\ UNCHANGED <<pc, source, got, recs, result>>
    BY <1>11 DEF NextDay
  <2>2. \A q \in Runs : \A s \in SourceSet : \A p \in Range(got[q][s]) :
            (Survives(p, today') => Survives(p, today)) /\ (InDate(p)' => InDate(p))
    <3>1. \A q \in Runs : \A s \in SourceSet : \A p \in Range(got[q][s]) : p \in AllPostings
      BY <1>0 DEF Range
    <3> QED
      BY <1>0, <2>1, <3>1, LaterInDate
  <2> QED
    BY <2>1, <2>2 DEF Covered
<1>12. CASE UNCHANGED vars
  BY <1>12 DEF vars, Covered, InDate
<1> QED
  BY <1>1, <1>2, <1>3, <1>4, <1>5, <1>6, <1>7, <1>8, <1>9, <1>10, <1>11, <1>12 DEF Next, Stage

\* Whatever the sources list, fail to deliver or repeat, and whether the run is cancelled:
\* a result has each posting once, and all of those that are in date (run.py:554, dedupe.py:64).
THEOREM CrawlKeepsAll == Spec => []CrawlIsWhole
<1>1. WholeInv => CrawlIsWhole
  BY DEF WholeInv, CrawlIsWhole, OutputIsDistinct, NothingIsLost, Distinct, Covered, InDate
<1> QED
  BY <1>1, CrawlInvInit, CrawlInvNext, WholeInvInit, WholeInvNext, PTL DEF Spec
=============================================================================
