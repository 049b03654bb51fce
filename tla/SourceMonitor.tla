----------------------------- MODULE SourceMonitor -----------------------------
(***************************************************************************)
(* The health of one source (core/source_monitor.py): crawls push the      *)
(* number of records of a run, or an error, to a rolling window; checks    *)
(* compare the latest run with the window and alert, once an hour.         *)
(* Where Redis is off, and after any call to it that fails, the process    *)
(* uses a window and a mark of its own, which know nothing of Redis's.     *)
(***************************************************************************)
EXTENDS Integers, Sequences, FiniteSets, SequencesExt, Loops

CONSTANTS Checkers,                \* concurrent calls of check_drift
          Processes, ProcessOf(_), \* the processes that crawl and check, and a checker's
          Counts, Error,           \* records of a run; what an error is pushed as
          Windows,                 \* windows to start from
          WINDOW, MAX_ERRORS, MaxHour, MaxPushes, MaxHiccups

\* Where a window and the time of the last alert are kept: in Redis, in _MEMORY.
Stores == {"redis"} \cup Processes

VARIABLES
    redis,     \* whether there is a client for Redis
    runs,      \* the windows, oldest run first
    hour, lastAlert,
    at,        \* where a check is: "idle", "due", "mark", "memory" or "send"
    todo,      \* entries of the source it has found in drift and still to debounce
    by,        \* the store whose mark let it send
    alerts,    \* alerts sent this hour, by that store
    failed,    \* processes that have debounced without an answer from Redis this hour
    raced,     \* history: two checks have been between the get and the set at once
    pushes, hiccups

vars == <<redis, runs, hour, lastAlert, at, todo, by, alerts, failed, raced, pushes, hiccups>>

Init ==
    /\ redis \in BOOLEAN
    /\ \E w \in Windows : runs = [s \in Stores |-> IF redis = (s = "redis") THEN w ELSE <<>>]
    /\ hour = 1 /\ lastAlert = [s \in Stores |-> 0] /\ alerts = [s \in Stores |-> 0]
    /\ at = [c \in Checkers |-> "idle"] /\ todo = [c \in Checkers |-> 0] /\ by = [c \in Checkers |-> "redis"]
    /\ failed = {} /\ raced = FALSE /\ pushes = 0 /\ hiccups = 0

\* A call to Redis raises an error.
Fails == redis /\ hiccups < MaxHiccups /\ hiccups' = hiccups + 1

-----------------------------------------------------------------------------
(* The windows.                                                            *)

\* rpush and ltrim, or a bounded deque.
Pushed(window, run) ==
    LET all == Append(window, run)
    IN IF Len(all) > WINDOW THEN Tail(all) ELSE all

\* _push_run by record_run or record_error, in process p; after an error, which Redis
\* may raise when it has done its part, also to the process's own window.
Push(p, run) ==
    /\ pushes < MaxPushes
    /\ pushes' = pushes + 1
    /\ \/ /\ redis /\ UNCHANGED hiccups
          /\ runs' = [runs EXCEPT !["redis"] = Pushed(@, run)]
       \/ /\ ~redis /\ UNCHANGED hiccups
          /\ runs' = [runs EXCEPT ![p] = Pushed(@, run)]
       \/ /\ Fails
          /\ \E there \in {runs["redis"], Pushed(runs["redis"], run)} :
                runs' = [runs EXCEPT !["redis"] = there, ![p] = Pushed(@, run)]
    /\ UNCHANGED <<redis, hour, lastAlert, at, todo, by, alerts, failed, raced>>

\* A day without a run.
Expire ==
    /\ redis /\ runs["redis"] # <<>> /\ runs' = [runs EXCEPT !["redis"] = <<>>]
    /\ UNCHANGED <<redis, hour, lastAlert, at, todo, by, alerts, failed, raced, pushes, hiccups>>

-----------------------------------------------------------------------------
(* source_health.                                                          *)

Successful(s) == Picked(s, {i \in DOMAIN s : s[i] # Error})

\* round(mean, 2), in hundredths.
Mean100(v) == (200 * SumOf(v) + Len(v)) \div (2 * Len(v))

\* (Len(v) * pstdev)^2.
Spread(v) == Len(v) * SumOf([i \in DOMAIN v |-> v[i] * v[i]]) - SumOf(v) * SumOf(v)

\* Mutant: the deviation of a sample, over Len(v) - 1.
FarOfSample(n, v) ==
    LET delta == 100 * n - Mean100(v)
    IN Spread(v) > 0 /\ 4 * delta * delta * Len(v) * (Len(v) - 1) > 250000 * Spread(v)

\* |n - mean| / std > DRIFT_Z, squared to stay with integers.  When all values are
\* equal the latest, which is one of them, does not differ from their mean.
Far(n, v) ==
    LET delta == 100 * n - Mean100(v)
    IN Spread(v) > 0 /\ 4 * delta * delta * Len(v) * Len(v) > 250000 * Spread(v)

Drift(s) ==
    IF s = <<>> THEN FALSE
    ELSE IF Last(s) # Error THEN Far(Last(s), Successful(s))
    ELSE Len(s) >= MAX_ERRORS /\ \A i \in Len(s) - MAX_ERRORS + 1 .. Len(s) : s[i] = Error

-----------------------------------------------------------------------------
(* check_drift.                                                            *)

\* The calls to Redis that list the sources and read the window, for each place the
\* source is listed at: _known_sources names it twice when _MEMORY knows it as well.
Listed(c, lost) ==
    {s \in {"redis", ProcessOf(c)} :
        IF s = "redis" THEN redis /\ "keys" \notin lost /\ runs["redis"] # <<>>
        ELSE runs[s] # <<>> \/ lastAlert[s] # 0}
Read(c, s, lost) == IF redis /\ s \notin lost THEN runs["redis"] ELSE runs[ProcessOf(c)]

Check(c) ==
    /\ at[c] = "idle"
    /\ \E lost \in SUBSET ({"keys", "redis", ProcessOf(c)}) :
          /\ IF lost = {} THEN UNCHANGED hiccups ELSE Fails
          /\ LET found == {s \in Listed(c, lost) : Drift(Read(c, s, lost))}
             IN found # {} /\ todo' = [todo EXCEPT ![c] = Cardinality(found)]
    /\ at' = [at EXCEPT ![c] = "due"]
    /\ UNCHANGED <<redis, runs, hour, lastAlert, by, alerts, failed, raced, pushes>>

Go(c, there) == at' = [at EXCEPT ![c] = there] /\ UNCHANGED todo

\* To the next entry.
Over(c) ==
    /\ at' = [at EXCEPT ![c] = IF todo[c] > 1 THEN "due" ELSE "idle"]
    /\ todo' = [todo EXCEPT ![c] = @ - 1]

\* The mark of a store lets the check send, and is set.
Marked(c, s) ==
    /\ lastAlert' = [lastAlert EXCEPT ![s] = hour] /\ by' = [by EXCEPT ![c] = s]
    /\ Go(c, "send")

\* Mutant: the mark of Redis is no reason to return.
FallsThrough(c) ==
    /\ at[c] = "due"
    /\ \/ /\ redis /\ UNCHANGED <<failed, hiccups>>
          /\ IF lastAlert["redis"] = hour THEN Go(c, "memory") /\ UNCHANGED raced
             ELSE Go(c, "mark") /\ raced' = (raced \/ \E d \in Checkers : at[d] = "mark")
       \/ /\ ~redis /\ Go(c, "memory") /\ UNCHANGED <<failed, raced, hiccups>>
    /\ UNCHANGED <<redis, runs, hour, lastAlert, by, alerts, pushes>>

\* _debounce_due gets the mark of Redis; without an answer it goes to that of the process.
Due(c) ==
    /\ at[c] = "due"
    /\ \/ /\ redis /\ UNCHANGED <<failed, hiccups>>
          /\ IF lastAlert["redis"] = hour THEN Over(c) /\ UNCHANGED raced
             ELSE Go(c, "mark") /\ raced' = (raced \/ \E d \in Checkers : at[d] = "mark")
       \/ /\ ~redis /\ Go(c, "memory") /\ UNCHANGED <<failed, raced, hiccups>>
       \/ /\ Fails /\ Go(c, "memory")
          /\ failed' = failed \cup {ProcessOf(c)} /\ UNCHANGED raced
    /\ UNCHANGED <<redis, runs, hour, lastAlert, by, alerts, pushes>>

\* The set, which may raise with the mark set or not.
Mark(c) ==
    /\ at[c] = "mark"
    /\ \/ Marked(c, "redis") /\ UNCHANGED <<failed, hiccups>>
       \/ /\ Fails /\ Go(c, "memory") /\ UNCHANGED by
          /\ \E t \in {lastAlert["redis"], hour} : lastAlert' = [lastAlert EXCEPT !["redis"] = t]
          /\ failed' = failed \cup {ProcessOf(c)}
    /\ UNCHANGED <<redis, runs, hour, alerts, raced, pushes>>

\* Under _MEM_LOCK.
Memory(c) ==
    /\ at[c] = "memory"
    /\ IF lastAlert[ProcessOf(c)] = hour THEN Over(c) /\ UNCHANGED <<lastAlert, by>> ELSE Marked(c, ProcessOf(c))
    /\ UNCHANGED <<redis, runs, hour, alerts, failed, raced, pushes, hiccups>>

Dispatch(c) ==
    /\ at[c] = "send"
    /\ Over(c) /\ alerts' = [alerts EXCEPT ![by[c]] = @ + 1]
    /\ by' = [by EXCEPT ![c] = "redis"]
    /\ UNCHANGED <<redis, runs, hour, lastAlert, failed, raced, pushes, hiccups>>

\* DEBOUNCE_S later; a check does not take an hour.
NextHour ==
    /\ hour < MaxHour /\ \A c \in Checkers : at[c] = "idle"
    /\ hour' = hour + 1 /\ alerts' = [s \in Stores |-> 0] /\ failed' = {}
    /\ UNCHANGED <<redis, runs, lastAlert, at, todo, by, raced, pushes, hiccups>>

Next ==
    \/ \E p \in Processes, run \in Counts \cup {Error} : Push(p, run)
    \/ \E c \in Checkers : Check(c) \/ Due(c) \/ Mark(c) \/ Memory(c) \/ Dispatch(c)
    \/ Expire \/ NextHour

-----------------------------------------------------------------------------
(* Properties.                                                             *)

\* A source that drifts is alerted about once an hour: Redis lets one alert through,
\* unless two checks raced between its get and its set; a process lets one of its own
\* through where there is no Redis, and where Redis has failed it one more, not a
\* second one.
OneAlertAnHour ==
    /\ ~raced => alerts["redis"] <= 1
    /\ \A p \in Processes : alerts[p] <= 1 /\ (redis /\ p \notin failed => alerts[p] = 0)

\* The same number of records seven times or more, then none.
FallsSilent(window) ==
    LET v == Successful(window)
    IN Len(v) > 7 /\ Last(window) = 0 /\ v[1] > 0 /\ \A i \in 1 .. Len(v) - 1 : v[i] = v[1]

\* A source that falls silent is in drift, in whichever window: the latest run weighs
\* in the mean and the deviation it is compared with, and must still stand out.
SilenceIsNoticed == \A s \in Stores : FallsSilent(runs[s]) => Drift(runs[s])
=============================================================================
