------------------------------- MODULE Services -------------------------------
(* Six services that share no state: a behaviour is one of a single one, the *)
(* others stay as they start.                                                 *)
EXTENDS Integers, Sequences, Parts

CONSTANTS Clients, Fingerprints, HaveCffi, HavePlaywright, HasDisplay, ForceRefresh, MaxVersion, MaxFetches,    \* HttpClient
          RqJobs, Searches, Workers, NoWorker, MaxRetries, Checks, MaxRequeues,                                 \* RqQueue
          Crons, Processes, ProcessOf(_), Subscribers, MaxWeek, MaxCalls, MaxHiccups,                           \* DigestClaim, RqQueue
          Deliveries, Error, Windows, WINDOW, MAX_ERRORS, MaxHour, MaxPushes,                                   \* SourceMonitor
          MaxRows, MaxProfile,                                                                                  \* Listings
          N, Deps, Ci, MAX_ATTEMPTS, MaxFixes, Writes, MaxKills                                                 \* SliceDriver

VARIABLES
    site, private, disallowed, cache, robots, httpAt, entry, reply, cursor, tried, browser, page, held, fetches,
    status, retries, flag, runner, step, rqCancelled, rqStored, asking, obeyed, requeues, rqHiccups,
    redis, week, claim, day, digestAt, todo, calls, wants, queued, events, hiccups,
    runs, hour, lastAlert, checkAt, debounces, by, alerts, unanswered, alertRaced, pushes, outages,
    rows, profile, store, memo, version, at, list, own, key, value, crawl, edit, raced, unswept,
    mem, file, headFile, tree, stash, gitted, made, sha, pushed, driverAt, job, where, outer, attempts, pre, kind, excused, kills

H == INSTANCE HttpClient WITH at <- httpAt, result <- page
Q == INSTANCE RqQueue WITH Jobs <- RqJobs, Supervisors <- Searches, hiccups <- rqHiccups, cancelled <- rqCancelled, stored <- rqStored
D == INSTANCE DigestClaim WITH Callers <- Crons, Profiles <- Subscribers, at <- digestAt
S == INSTANCE SourceMonitor WITH Counts <- Deliveries, Checkers <- Clients, at <- checkAt, todo <- debounces,
        failed <- unanswered, raced <- alertRaced, hiccups <- outages
L == INSTANCE Listings WITH Readers <- Clients
G == INSTANCE SliceDriver WITH MaxCrashes <- MaxKills, committed <- gitted, pc <- driverAt

\* What is counted is counted in numbers, an error is no count, Redis is no process, and a slice waits for slices.
ASSUME ServicesAssumption ==
    /\ Checks \in Nat /\ MaxProfile \in Nat
    /\ "redis" \notin Processes /\ \A c \in Clients \union Crons : ProcessOf(c) \in Processes
    /\ Deliveries \subseteq Nat /\ Error \in Int \ Nat /\ Windows \subseteq Seq(Deliveries \union {Error})
    /\ N \in Nat /\ MaxFixes \in Nat
    /\ Deps \in [1 .. N -> SUBSET (1 .. N)] /\ Writes \subseteq SUBSET {"in", "out"}

http == <<site, private, disallowed, cache, robots, httpAt, entry, reply, cursor, tried, browser, page, held, fetches>>
rq == <<status, retries, flag, runner, step, rqCancelled, rqStored, asking, obeyed, requeues, rqHiccups>>
digest == <<week, claim, day, digestAt, todo, calls, wants, queued, events, hiccups>>
monitor == <<runs, hour, lastAlert, checkAt, debounces, by, alerts, unanswered, alertRaced, pushes, outages>>
listings == <<rows, profile, store, memo, version, at, list, own, key, value, crawl, edit, raced, unswept>>
driver == <<mem, file, headFile, tree, stash, gitted, made, sha, pushed, driverAt, job, where, outer, attempts, pre, kind, excused, kills>>
services == <<part, redis, http, rq, digest, monitor, listings, driver>>

\* What the variables of each service are when another one runs: one of its initial states.
AtStart ==
    /\ H!Init /\ Q!Init /\ D!Init /\ S!Init /\ L!Init /\ G!Init
    /\ part # "http" => ~private /\ ~disallowed /\ cache = 0
    /\ part \notin {"digest", "monitor"} => ~redis
    /\ part # "monitor" => \A s \in S!Stores : runs[s] = <<>>

ServicesInit == part \in {"http", "rq", "digest", "monitor", "listings", "driver"} /\ AtStart

ServicesNext ==
    \/ part = "http" /\ H!Next /\ UNCHANGED <<part, redis, rq, digest, monitor, listings, driver>>
    \/ part = "rq" /\ Q!Next /\ UNCHANGED <<part, redis, http, digest, monitor, listings, driver>>
    \/ part = "digest" /\ D!Next /\ UNCHANGED <<part, http, rq, monitor, listings, driver>>
    \/ part = "monitor" /\ S!Next /\ UNCHANGED <<part, http, rq, digest, listings, driver>>
    \/ part = "listings" /\ L!Next /\ UNCHANGED <<part, redis, http, rq, digest, monitor, driver>>
    \/ part = "driver" /\ G!Next /\ UNCHANGED <<part, redis, http, rq, digest, monitor, listings>>

ServicesSpec == ServicesInit /\ [][ServicesNext]_services

-----------------------------------------------------------------------------
(* Their properties, stated in the services' modules.                      *)

\* HttpClient and Listings: what the caches hold is what a fetch or the tables would give.
CachesAreCurrent ==
    /\ part = "http" => H!ContentIsCurrent
    /\ part = "listings" => L!ListsAreCurrent

\* RqQueue: a cancel stops the retries too.
CancelOutlivesAttempts == part = "rq" => Q!CancelOutlivesAttempts

\* DigestClaim: one digest a week.
OneDigestAWeek == part = "digest" => D!OneDigestAWeek

\* SourceMonitor: one alert an hour by each of the marks, and by that of Redis where it answers.
OneAlertAnHour == part = "monitor" => S!OneAlertAnHour

\* SourceMonitor: a source that falls silent is in drift.
SilenceIsNoticed == part = "monitor" => S!SilenceIsNoticed

\* Listings: the matches shown are those of the last crawl.
MatchesFollowRun == part = "listings" => L!MatchesFollowRun

\* SliceDriver: no work is lost, none outside the bounds committed, in the order of the slices.
WorkIsKept == part = "driver" => G!WorkIsKept
=============================================================================
