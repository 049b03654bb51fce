# Academic-Radar: a verification development

TLA+ models of the parts of Academic-Radar whose correctness depends on the order in which things
happen or on how rules compose, the TLC runs that check them on small instances, and TLAPS proofs of
what matters most for instances of every size. Paths below are relative to `src/astra/` of the
repository (`core/tasks.py`); `academic_radar/...` is written `radar/...`.

## 1. The system

A FastAPI application (`api/`) over a SQL database (`db/`), with background work in threads or in rq
workers, crawls academic job boards ("Astra") and, on top of it, runs evidence based research on
individual admission or funding cases ("Academic Radar"). A Next.js dashboard polls the API; a Tauri
shell packages both as a desktop program. A script beside it, the slice driver, lets a language model
write parts of the program and commits what it wrote.

| Part | State it keeps | Operations | What is hard about it | Module |
|---|---|---|---|---|
| In-process job queue, `core/tasks.py`, `core/cancel.py` | job records, two semaphores, token registry, a thread per attempt | enqueue, run, retry with backoff, cancel, dead-letter retry | threads against requests; a retry chain that must keep slot and token | `JobQueue`, `JobBoard` |
| rq job queue, same files, run by `rq worker` processes (docs/DEPLOYMENT.md) | rq jobs and cancel flags in Redis | the same through rq | flags outlive jobs, identifiers are reused | `RqQueue` |
| Digest scheduler, `core/tasks.py` | claim of the week, mail events | claim, enqueue per profile, release | several schedulers; a crash after the claim | `DigestClaim` |
| Crawl, `pipeline/*` | seen-state file, output file, rows | fetch by a pool, filter, date, merge, write, import | partial failure, cancellation, shared files, crashes | `PipelineRun` |
| Sources, `sources/*` | none | queries, pages, siblings of a seed | bounded pages, scoping, failing queries | `Sources` |
| HTTP client, `core/http.py`, `core/http_cache.py` | robots verdicts, browser, shared conditional-GET cache | fetch with fallbacks | threads that share the cache, block pages | `HttpClient` |
| Configuration, `core/config.py`, `core/position_types.py` | one module-wide table of country aliases | build from four layers | threads that extend one table | `Configuration` |
| Matching, `matching/scorer.py`, `api/routes/matches.py` | compiled terms by profile | score, rank, filter, page | a cache key that must tell profiles apart | `Matching` |
| Read caches, `core/cache.py` and the routes | cached lists | fill, invalidate, expire | a fill that races an invalidation, an invalidation that fails | `Listings` |
| Supervisor search, `supervisors/*`, `cli/commands.py` | session | chain of services, aggregation, verification, fit, saving | services that fail half-way, one paper found twice | `Supervisors` |
| Source monitor, `core/source_monitor.py` | windows of runs and last alerts, in Redis and in each process | record, detect drift, alert | checks that race; Redis that fails one call; statistics of a short window | `SourceMonitor` |
| Key meter and limiter, `core/ratelimit.py`, `db/repositories.py` | counters by window and day, usage rows | count, check, roll up | check then count; a roll-up that repeats | `ApiMeter` |
| Assistant, `core/llm.py`, `core/assistant.py` | rows of spend | completion along a chain of models | cap compared before, recorded after | `Drafting` |
| Schema and migrations, `db/init.py`, `alembic/versions` | the schema | upgrade, downgrade, create and reconcile at start | migrations that fail half-way; processes that start together | `Schema` |
| Accounts, `api/routes/auth.py`, `account.py`, `invites.py`, profiles, bookmarks | users, tokens, invites, profiles | register, verify, reset, erase | reuse of tokens, references that block erasure | `Accounts` |
| Research runs, `radar/jobs/research_job.py`, `api/routes/radar_evidence.py` | run rows, claims, coverage, state of the case | create, attempt, persist | redelivery, crash, idempotency key | `ResearchRun` |
| Research workflow, `radar/research/*` | answers of the nodes | ask, accept, merge, grade | weak reports after strong ones | `ResearchGraph` |
| Invalidation, `radar/domain/invalidation.py` | dependency rows, stale marks | walk | cycles, rows added during the walk | `Invalidation` |
| Case evidence and briefs, `radar/evidence/*`, `radar/domain/briefs.py` | snapshots, claims, gates, briefs | capture, watch, freeze, supersede | a brief against later evidence | `CaseEvidence` |
| Live evidence, `radar/evidence/binding.py`, `radar/watch/checks.py` | snapshots, artifacts, events | bind, watch, simulate | rollbacks between attempts, a failure after the commit, overlapping captures | `Watching` |
| Case desk, `radar/domain/disposition.py` | dispositions, stages, histories | create, set, suggest | requests that overlap | `CaseDesk` |
| Owner's workspace, `radar/profile/mozare_import.py` | profile, routes | forms, import of a seed file | an import that is repeated, or overlaps another | `Workspace` |
| Decision rules, `radar/domain/*` | none | gates, dimensions, funding, conflicts, deadlines | unknown is neither zero nor a pass; time zones | `Verdicts` |
| Slice driver, `../ops/haiku-runner/driver.py` | state file in the tree it commits | attempt, judge, revert, commit, push, follow CI | a kill between any two steps | `SliceDriver` |
| Discovery, host authority, identity; wiring of the API; command line and toolkit; dashboard; desktop shell | - | - | text, tables, rendering | not modelled, see section 8 |

The API enqueues jobs and polls their records; crawls write opportunities and supervisors and
invalidate the cached lists; the radar routes read and write the radar tables and enqueue research
through rq; watch checks write snapshots and change events, which invalidate claims along
`EvidenceDependency` rows.

## 2. How the development is organised

**Modules.** One per part, each a specification of its own: CONSTANTS, VARIABLES, `Init`, one action per
operation or per section that other actors can separate, `Next`, and the properties at its end.
`JobBoard` is the abstract specification of the job queue, which `JobQueue` implements by a refinement
mapping. `Loops` says what a loop over a list computes as a function of how far it has come, so that it can be
reasoned about, and `LoopProofs` what every such loop yields. The modules named `...Proofs` hold the theorems.

**Instances.** `MCJobQueue`, `MCResearchRun`, `MCInvalidation`, `MCPipelineRun` give a module its
constants. Most other parts share no state with each other, so many of them are composed. `Services`
instantiates `HttpClient`, `RqQueue`, `DigestClaim`, `SourceMonitor`, `Listings` and `SliceDriver` with
constants of its own, and `Seeking` does so with `Supervisors`, `Sources`, `Configuration` and `Matching`;
`Api` instantiates `CaseEvidence`, `ApiMeter`, `Accounts`, `CaseDesk`, `Watching`, `Verdicts` and `Drafting`,
and `Stores` extends it and `ResearchGraph` by `Schema` and `Workspace`. `ServicesProofs`, `SearchProofs`,
`ApiProofs` and `StoreProofs` prove of these compositions, for every value of the constants, what the runs
check. `MCServices` extends `Services`, `Seeking` and `MCPipelineRun`, `MCApi` extends `Stores` and
`MCResearchGraph`. The variable `part` (module `Parts`), chosen at the start, says whose behaviour this is: the
next-state relation is a disjunction of `part = "x" /\ X!Next`, and the variables of
the others stay as they start (`AtStart` picks one of their initial states where they have several). The
states of such a run are the sum of those of the parts, not their product, and a property is
`part = "x" => X!Property`. `MCSpec` is the specification of a composed run. Parts that do meet are in one
module: a crawl and its import, an edit and the cached lists, evidence and the briefs that rest on it,
research runs with rq and the API.

**Mutants.** `PROJECT.json` maps every definition to the lines it translates and pairs every checked
property with a mutant: a second definition, kept before the one it replaces and marked as such or
named for the slip it makes, that changes the code the way a plausible slip would. The property fails
when the mutant takes the definition's place, so the instance is large enough for the property to say
something. Mutants are no part of any specification.

**Deadlock** is not checked: every module bounds what the program mints without end (identifiers, rows,
weeks), and once it is used up, or nobody asks for anything, standing still is right. That nothing is
stuck on the way is what the liveness properties are for.

To run: `tlc -config Services.cfg MCServices.tla`, `tlapm JobQueueProofs.tla`.

| Run | Module | Shows |
|---|---|---|
| `jobs` | `MCJobQueue` | slots, token life, standing records, end of cancellations, and the refinement of `JobBoard` with fairness |
| `research_safety` | `MCResearchRun` | two runs of one case, two workers, two callers, a death and a retry |
| `research_faults` | `MCResearchRun` | one run under every fault, with liveness |
| `invalidation` | `MCInvalidation` | the walk on every subgraph, while rows are added |
| `services` | `MCServices` | a crawl and ten services |
| `api` | `MCApi` | the research workflow and nine parts of the API |
| `research_key_race`, `crawl_overlap`, `matches_stale`, `skills_ignored`, `usage_double`, `erasure` | | a document or comment that the code contradicts, see section 7 |

**Fairness** is assumed in the modules with liveness properties only: `JobQueue` (started threads are
scheduled, requests of a crawl have timeouts, a backoff is a sleep, a handler that began ends; nobody
must enqueue, cancel or retry, and a crawl may fail at every attempt), `ResearchRun` (a live worker takes
jobs and goes on with the one it has, for the worker process loops and rq imposes a timeout; nobody must
requeue a dead job) and `Invalidation` (the loop goes on; rows are never bound to come). Symmetry is used
only in runs without liveness.

**Constraints** (`Explored`, one in `MCServices` and one in `MCApi`) end a behaviour where its properties have
nothing more to say. Of a cached list once a request has raced on it (the two lists meet in no action of a
request, so whatever becomes of one is also found where nobody asks for the other), of digests once Redis has
failed a claim, of alerts once two checks have raced, and of the profile and the routes once something was
committed over a transaction: all are histories that never shrink, the properties excuse what comes after, and
the step that sets them is still taken and checked. (Of the workspace the promise about an import that is
repeated goes on after such a step; that is the theorem's.) The two crawls are alike, so the constraint lets the
first one begin first. Two transactions of the workspace are open at once only over one profile and one route
at most, where each still finds what the other is about to add; a schema whose history is not one of
migrations alone stops after twelve moves instead of fourteen.

## 3. The job queue and the research runs

**`JobQueue`.** `status` and `recParams` are the record in `_fallback_jobs`; `kind`, `args`, `attempt`,
`pc`, `stored`, `stopped` are a job's thread; `registered` and `event` the registry and the Event of
`core/cancel.py`; `free` the semaphores; `call`, `told`, `retrying` requests under way. One action for
each section under `_fallback_lock`, each semaphore operation and each call out. What a crawl collects is
abstracted to whether the save step has finished; no thread is killed, for the records die with the
process. Checked: `SlotsAccounted` (no slot lost or given back twice on any path through the retry
chain), `RunningIsOwned`, `CancelReachesRetries`, `CompletedIsSaved`, `SettledRecordsStand` (the second
check of `cancel_job` keeps a late call from rewriting a finished job), `CancelEnds`, and
`ImplementsFairBoard`: a job is admitted while there is room, comes to an outcome, leaves, and only a
failed outcome is withdrawn. *Instance:* two jobs of any kind, one slot of each, one retry: the second
job can be refused, race the release of the first or be its dead-letter retry, and a chain has two
attempts. Two are enough because actions of different jobs meet only in `free` and `retrying`.

**`ResearchRun`.** The run rows, the case's state, callers of `post_research` in the four stages of the
request, rq's queue and failed registry, and workers with the case state their session has read.
`Persist` is the one transaction of `run_research`. `Faults` names what the environment may do:
`"death"` of a worker, `"abort"` of the API process, `"lostReply"` of Redis, `"reread"`, an error after
the commit. rq and Redis are external. `research_safety` has two runs, callers and workers, so that a run
key is raced, a ready case is researched again and an attempt follows another with a second run at any
point of the first; `research_faults` has one run, every fault, two deaths and two retries.
`JobsEnd` promises a settled run or a job in the failed registry, which is all an operator gets.

**`ResearchGraph`** (part "workflow" of `api`). An answer of a node is accepted as a whole or rejected as
a whole, its claims and coverage are merged, readiness is computed, and the result is written in one
transaction that fails on a link to a row that is not there. `CoverageIsLastWord`: merging node by node
computes a reference that speaks of the whole list of answers at once. `ClaimsAreSupported` (ORACLE-010),
`CompletedIsCovered` (ORACLE-008). With three answers a weak report can come before, between and after
two strong ones, which is every relation the merge distinguishes. `ResearchRun` and `ResearchGraph` split
one transaction: the former keeps of the workflow only whether it ended ready, the latter of the run only
its last status.

**`RqQueue`** (part "rq" of `services`). The status of rq jobs, retries left, the cancel keys, what the running attempt
knows and has stored, a `cancel_job` between its read and its write, Redis that does not answer once.
`CancelOutlivesAttempts`: once an attempt has stopped for a cancel, no later attempt of the same enqueue
crawls a source. Two jobs, one of them a supervisor search, one worker, a retry and a requeue.

**`DigestClaim`** (part "digest" of `services`). The claim, the guard of each process, callers between claim, selection,
enqueues and release, preferences that change, processes that die. `OneDigestAWeek`: however many
schedulers call, fail half-way or die, a profile gets one digest a week as long as Redis answers. Two
crons in one process and one in another, two profiles, two weeks.

## 4. The crawl and the services around it (`services`)

**`PipelineRun`.** Crawls with the pool of `_source_concurrency`, a token, three stages of records, the
loaded seen-state, and the two files, which are rewritten in place, so that a kill leaves one torn.
`CrawlIsWhole`: no two records of a result share an address or a title and institution, and a posting
that a source delivered and that is in date is in the result, also when other sources failed or the run
was cancelled. `UndatedAgesOut`: an undated posting is kept no later than the window after it was first
seen, while no two crawls overlap. Three sources, seven kinds of postings (without date, without address,
renamed, of another country, off field, seeds, broken), two crawls over three days, one crash: enough for
two undated sightings on different days and for every pair of stages of two crawls to overlap.

**`Sources`.** One call of one source: its plan of queries with pages, size and cap, what is known
already, what failed, which queries the call is to answer. `AskedIsSearched`: scoping EURAXESS to the countries it
searches (the wanted ones, or those of them the profile's own option names) reaches every posting tagged with one
that the unscoped search would have reached; a query that answered is delivered whatever became of the others; a
sibling is found once and never shadows a seed. AcademicTransfer is the exception the code makes: an error of the
browser drops what its queries had captured, and the property then asks for what the fallback's page shows. A
board of seven postings read one to the page, each source with and without vocabulary, countries with and
without a facet, and an option that names others. The bounds on pages are the code's constants scaled down, so
that a query does run past its limit.

**`HttpClient`.** Guard, robots.txt once per host, conditional GET with the shared cache, fingerprints,
browser with and without a window; the site changes at any moment and may answer anything.
`CachesAreCurrent` (with `Listings`): a fetch returns what the page held when the site answered, also
when that was 304 and another thread stored a newer version since; no challenge page is cached. Two
clients, two versions, two fetches: a 304 can overtake a newer 200.

**`Configuration`.** `build_config` as steps of a thread: aliases are extended in place, the table is
walked, the list that lookups use is replaced, the rest is local. One setting stands for each kind (number,
text, choice, secret); terms are names. `ChosenIsUsed` (`ConfigurationIsSound`): no build's aliases are
lost to another's unless config.yaml changed meanwhile; adding aliases again changes no lookup; choosing
subfields or types never empties a search, adds anchors or repeats a term; the command line wins. Two
threads, three builds, two files, four command lines with unknown, shared and malformed choices.

**`Matching`.** Profiles that differ in skills only, five postings; scores are integers, 1000 for 1.0.
`RankingIsFair` (in `SearchIsSound`): a posting that names at least all that another names, as
prominently and in a country judged no worse, is not ranked below it; percentiles agree with the order;
page after page shows every match the filter lets through once, and an unknown field shows none.

**`Listings`.** Requests between reading the profile, making a list and storing it; crawls and edits that
commit and then invalidate; the entries of `core.cache`, which expire, and the dictionary of the process, which
does not. A call to Redis may fail: a read is then a miss, a write is lost, and an invalidation leaves the
entry where it is (`core/cache.py:96`), which `unswept` remembers. `CachesAreCurrent`: between writes the
lists served are current, unless a request straddled a write or its invalidation, or the invalidation failed and
its entry has neither expired nor been replaced: what is stored after it is current again. Two readers, two writes of each kind.

**`Supervisors`.** Pairs of field and country, the chain of services, pages that fail, aggregation by
author, verification of OpenAlex's pool, fit, gate, and a session that commits at the end.
`SearchIsSound`: a candidate from OpenAlex's papers stands `MinPapers` times in different places of them,
however often queries delivered a paper; a completed synchronisation stored every candidate it announced.
Three papers with authors coded and told differently, pages of two, two batches of terms.

**`SourceMonitor`.** A window and the mark of the last alert in Redis, and both again in every process: each call
to Redis may fail, before or after it took effect, and `core/source_monitor.py` then goes on with what the
process has, which knows nothing of Redis's. A check lists the source at both places, reads a window, and then
gets and sets the mark in two steps. `OneAlertAnHour`: the mark in Redis lets one alert through an hour, unless
two checks raced between its get and its set; a process lets one through by its own mark, and only where Redis
is off or has failed it in this hour. So the hour's alerts are at most one and one more for each process that
Redis has failed, which is more than the module's docstring says (section 7). `SilenceIsNoticed`: a source that
delivered the same number seven times or more and then none is in drift, although the silent run weighs in the
mean and the deviation it is compared with. The window has the code's size of thirty; runs start with
none, six, or a full window of equal counts, or with one that errors have thinned out, so that two more pushes
reach the seventh run, the last place and the run after it. One failing call, two processes, two checks, two hours.

**`SliceDriver`.** Every step of the driver's loop with the working tree, the stash, commits and the state
file, which is itself in the tree; it may be killed between any two. `WorkIsKept`: what an executor wrote
within its bounds is in the tree, a commit or the stash; what it wrote outside is committed only where an
attempt failed before its paths were looked at; a slice is done only after those it depends on. Two
slices, two attempts, one CI fix, one kill.

## 5. The API and the cases (`api`)

**`Invalidation`** (run of its own). `edges` are the dependency rows, `stale` and `research` the marks,
`toVisit`, `visited`, `unresolved` the locals of `invalidate`. The walk queries object by object, so rows
appear during it. `DependentsGoStale` and `OnlyDependentsGoStale` are the halves of ORACLE-020, against a
definition of "downstream" without a walk; `StopsAreReported` is DEC-042; `WalkEnds` holds on cycles. All
subgraphs of a graph with a diamond, a cycle and an object of unknown kind.

**`CaseEvidence`.** Snapshots, artifacts, claims, gates, funding, briefs; `freeze_brief` reads three times and
others commit in between. Fixture mode, because watch runs that invalidate exist only there.
`ContentIsTracked` (ORACLE-032): whatever a brief says it depends on; `SupersededForGood`. Five
snapshots: two researches of a page and a watch run of each page, or a page that changes and changes back.

**`Watching`.** Live research binds a case to a page in a transaction that a failed attempt rolls back, while
watch runs and simulated changes record the page too. After the commit the worker reads the row again; if that
fails, so has the attempt (`radar/jobs/research_job.py:93-96`), and the next one captures the page once more, or
the run ends FAILED with what it had committed. `EvidenceIsWhole`: a live run has left one capture with its
artifact for each attempt that committed and none for another, so that one that completed rests on exactly one
but for those of unread rows; a snapshot says "changed" or "unchanged" rightly against the one before it unless
they overlapped. Two runs, one retry, three captures, texts that differ only in order.

**`CaseDesk`.** Requests load a case and commit later. `HistoryTellsCase`: the history of a disposition or a
stage is a chain that ends at today's value, excusing what another request overtook; automation never
shows in the disposition (ORACLE-002).

**`Workspace`.** The forms and the import of a seed file are transactions: they look for the row to write, the
import for one after the other, and others see what they wrote at the commit; no constraint keeps two from adding
the same row. `alone` remembers of a transaction that nothing was committed since it began. `ImportTwiceIsOnce`: a seed file with
an ACTIVE candidate that was imported by a transaction alone, imported again with nothing committed in between,
adds nothing; and there are two ACTIVE profiles only after a commit that was not alone. Two imports of one
file that overlap do add its rows twice (section 7). Four files: whole, with a candidate that is not ACTIVE, with
an incomplete one, and with none; routes that retire; two requests.

**`Verdicts`.** Facts about a case come in one at a time. `VerdictsHold`: what is called fully funded is so
whatever the unknown amounts turn out to be; a case to act on stays one whatever the open gates answer; a
deadline has passed exactly when its instant, or the end of its day, is over. That a
contradiction stays until someone of higher authority than all before speaks (`ContradictionStays`, ORACLE-016) is
a theorem only, for it is a fact about one comparison. Time is in half hours, eight to a day.

**`ApiMeter`** and **`Drafting`** (`LimitsHold`). A request counts, checks the rate, checks the quota, in Redis or
in memory: no more than the quota of a day is served, in no window twice the rate, and no day is lost by
the roll-up. Completions walk the chain of models: spend passes the cap by no more than the
calls under way at once and those let through while the rows could not be read, and no request gives up
before every lane failed. Two requests each, quota and rate two, cap of one call's cost.

**`Schema`** (`SchemaHolds`). Tables with their references and the columns that came later, every migration up
and down, with or without transactions, `init_db` of two processes in between. When the API's `init_db` has
returned every table and column of the models is there, from whatever state; migrations alone lead to the
schema of their version. Fourteen moves reach the last version from the first and back.

**`Accounts`** (`OnlyOnce`). No token works twice, no invite admits two accounts, no account has two active
profiles, unless two requests read the same before either wrote; also across erasure and a second
registration of the address.

## 6. What is proved, what is only checked

Every invariant and action property of a run that passes is a theorem too. They hold for every value of the
constants that satisfies the modules' named assumptions, which TLC evaluates on the runs' instances:

- sets of requests, callers and pages are finite, bounds, limits and prices are numbers, windows and days
  take time (`ServicesAssumption`, `ApiAssumption`, `StoresAssumption` and those of the other modules);
- what the code keeps in a list is a list (`MatchingAssumption`, `SupervisorsAssumption`, `SourcesAssumption`,
  `ConfigurationAssumption`); a candidate needs one paper at least (`MinPapers`, two by default in
  `core/config.py`); a page of a board holds something; a call is of a source the crawl has, and a seed is a
  posting of the board; what an option of the command line says is of its type, for argparse refuses the rest
  (`astra.py`, `type=float`);
- `MigrationsAssumption` says of the migrations as `Schema` has them from `alembic/versions` that each statement makes
  what is not there yet, of what is there, and that the last version has what the models have. It has no
  constants: TLC decides it.

Each invariant below is inductive and implies the property.

- `JobQueue`: `TypeOK`, `SlotsAccounted` (inductive with the types: a step changes the holders of a kind by at most
  the job it moves and `free` by the same amount), the cap on live jobs, and the others by `LifecycleInv`, which
  ties the position of a thread to its record and to the registry; `CancelIsSticky` and `SettledRecordsStand`.
  `BoardImplemented` is the refinement of `JobBoard`, without its fairness: the initial states map to initial
  states and every action to a step of the board or a stutter, where `Recorded` says that a
  thread at work has a record that is running or cancelled, and the slots a kind has taken are those of the
  threads that have passed the semaphore (`HoldersAreInside`).
- `ResearchRun`: `TypeOK`, `OneDelivery` (strengthened by `Placed`: a run not yet enqueued is known to the one
  caller that inserted it), `SettledIsWhole` under every fault, `RunningIsHeld` (by `Watched`), and by `Once`
  `ClaimsInsertedOnce`, `ResultStands`, `ReadyHasCompletedRun` under `Undisturbed`: no lost reply and no
  failed re-read. The proviso is necessary: a lost reply makes `PostMarkFailed` overwrite what a worker
  settled, and a failed re-read makes the next attempt insert the claims once more. `SettledIsWhole` speaks of the
  evidence too, in both modes: with live providers the binding waits for the run's transaction. That what an
  attempt bound persists when the attempt fails (ORACLE-021) is not stated, for with live providers it is false.
- `ResearchGraph`: `TypeOK`, `CoverageIsLastWord` (a case analysis of what a new answer says of a class),
  `ClaimsAreSupported`, `CompletedIsCovered` (by `GradeInv`, which ties readiness to the final coverage),
  `SearchedStaysSearched`; and `MandatoryHasRow`, which is not in a run.
- `Invalidation`: `TypeOK`, `DependentsGoStale`, `OnlyDependentsGoStale`, `StopsAreReported`, by `LoopInv`: found is
  downstream, changed is found, and what is expanded has its dependents found by the rows of the call.
- `CaseEvidence` (in `ApiProofs`): `TypeOK`, `ContentIsTracked`, `SupersededForGood`, for finitely many classes. `EvidenceInv` says
  that what a caller has collected, and what a brief depends on, is still there row for row: rows are only added
  (`RowsStay`), so a page's latest cited capture is never older than a claim that was collected before. It also
  shows that the gates and funding of a brief never differ from the rows, so only a newer capture supersedes it:
  a new gate or a new route does not.

*The services* (`ServicesProofs`):

- `OneDigestAWeek`. `DigestInv`: while Redis answers the claim belongs to one scheduler, the queue is empty
  until it enqueues, and what it has still to enqueue was neither queued nor sent.
- `OneAlertAnHour`. `MonitorInv`: whoever may still send by a store's mark has set it for this hour, when nothing had been
  sent by it; for Redis, unless two checks raced, one at most is between its get and the sending (`RedisGuards`), for
  a process the lock gives as much, and nobody comes to its mark unless Redis is off or has failed it (`MemoryGuards`).
- `CancelOutlivesAttempts` (`CancelInv`): a job that obeyed a cancel keeps its flag until it has ended for good,
  and an attempt that has not seen the flag has fetched nothing.
- `CachesAreCurrent`. `PageInv`: the row of the cache is a version the site had, and a 304 answers for the version
  the client sent. `ListsInv` is long, for it says of each stage of a request, a crawl and an edit which of
  entry, key and dictionary may lag behind the tables, and which entries a failed invalidation has left; it is needed because the entry under a version is
  right between the new version and the next edit only.
- `WorkIsKept`. `JobInv`: the job tried is pending, its dependencies are done, in memory and in the file, also in
  the file of the last commit, to which a revert goes back. `WriteInv`: what is new in the tree is the judged
  attempt's own, and the rest outside the bounds is excused.
- `SilenceIsNoticed`. The sums of the window are those of n - 1 equal numbers and a zero, and 2.5 standard deviations
  are then less than the distance of the zero from the mean, for every n above seven.

*The crawl* (also `ServicesProofs`, of `PipelineRun` itself, for lists of any length):

- `UndatedAgesOut`. `CrawlInv`: while no two crawls have overlapped, one at most holds the state, and the state it
  holds, or else the file, has the marks of the ideal record of first sights. Then by the loops of
  `apply_freshness`: a mark written once is not moved, and a record is dated by its mark.
- `CrawlIsWhole`. `WholeInv` follows the postings from stage to stage: a source's postings that survive are offered
  to the dating, what is in date is covered by a record, and merging keeps what is covered. That the two passes
  leave nothing twice needs that `_merge_into` moves neither the address of a record that has one nor its key
  (`MergedKey`): otherwise the second pass could bring two records of one address together, or the merging
  change the key under which a record is filed.
- A loop over a list is a function of how far it has come (`Loops`, `Absorb`), and what it computes is shown by
  induction on the length: the theorems of the library about induction take an operator, so it is derived here, for
  a set of numbers, from the least counterexample (`Induction`, from `WFMin`).

*The API* (`ApiProofs`):

- `HistoryTellsCase` (`DeskInv`): what a request has loaded is today's value, unless it is marked overtaken.
- `OnlyOnce` (`AccountsInv`): requests in progress are about different things unless two have read the same; the
  token, invite or set of profiles that each has read is still what it was.
- `EvidenceIsWhole` (`PagesInv`): a bound run holds one capture of its own and others none, a run has an artifact
  for each attempt that committed, captures are told apart by their time, and each was classed by the newest of those there when it was taken.
- `LimitsHold`. Quota: numbers of a day are given out once and none above the counter (`Numbered`), so what is
  served injects into 1..Quota. Roll-up: today's and yesterday's counters are exact and days before the last
  roll-up are in the table (`Rolled`). Rate: `RateInv`; two neighbouring windows of the shared counter sum to less
  than twice the rate, because whoever counts in the second weighed the first. The lemmas on division
  (`QuotientFloor`, `QuotientOrder`, `Places`) serve the windows and days. Spend: `Capped` counts a call's cost from
  its start, so a cap that had room for one is passed by those under way; failures: `Walked`, the lanes behind
  a request have failed it.
- `VerdictsHold` needs the types only: it is a fact about the rules, for any amounts and any zones. `ContradictionStays`
  follows from the order of authorities, statement by statement.

*Stores* (`StoreProofs`):

- `ImportTwiceIsOnce` (`WorkInv`): at most one profile is ACTIVE while every commit was alone, and while nothing is
  committed after an import its profile and all its routes are there. A transaction that is alone is abreast of the
  tables (`Abreast`): the profile it found is the active one, and of its file the routes read so far are there, as
  they would be after its commit (`Absorbed`), unchanged if the file was the last one (`Near`).
- `SchemaHolds`. The migrations are followed statement by statement: a table that a statement refers to is there
  (`Fits`), what the first k statements make is `Made`, and a guarded `upgrade` or `downgrade` runs the rest
  whichever of them have run before. `StartInv` says what each of two processes that start has found missing and has
  still to add, while the other one adds too.

*The searches* (`SearchProofs`):

- `SearchIsSound`. `SupInv`: OpenAlex's papers are collected once each; whoever is ranked has been aggregated of them,
  and his works are counted by a set of places, which a paper delivered twice does not enlarge; unless the session
  broke, what was announced is in it or still to be saved. `MatchInv`: the list is the ranking of a compiled profile,
  and what was shown a beginning of it. The score is a composition of monotone steps (`RelevanceOrder`,
  `MethodOrder`, `OverallOrder`, on quotients that are rounded down), and putting each posting behind the earlier
  ones that score no less yields their order (`BestFirstIsBest`).
- `AskedIsSearched`. `SrcInv`: every query that was planned is still planned, has failed, or is answered, that
  is, all that its pages reach has been taken; of the one being read, what the pages so far hold. A scoped query
  reaches what the unscoped one would have reached of the wanted countries, because leaving postings out only
  moves the rest to earlier pages. A sibling is no seed and is listed once.
- `ChosenIsUsed`. `CfgInv`: what a build has made is what its layers give so far (`Lower`, `Override`),
  and, while no build has overlapped an edit of config.yaml, those under way read the same file, the one table holds
  its aliases once they are applied, and what a thread has walked, or else the list in use, finds the country that
  the table gives. Lists of a lookup are compared by `Within`: the first of
  the longest variants that a text contains wins, so a variant added once more behind itself changes nothing.

The type invariants are theorems, not entries of the runs.

Only model-checked, for the proof system has neither fairness nor ENABLED: the *liveness* properties `CancelEnds`,
`JobsEnd`, `WalkEnds` and the fairness of `ImplementsFairBoard`. The counterexamples of section 7 are TLC's.

## 7. Where the documents and the code part

Six runs end in a counterexample; each is listed with its quotation under `findings`:

- `research_key_race`: two callers with one run key both pass the lookup and create two runs.
- `crawl_overlap`: the import of a crawl reads the output another crawl has put in its place.
- `matches_stale`: after a crawl the matches still come from a dictionary it does not touch.
- `skills_ignored`: the key of the compiled taxonomy lacks the skills it is compiled from, so an edited
  profile, or another user's, is scored by the terms of whoever came first.
- `usage_double`: the nightly roll-up adds counters that live for two days to the rows.
- `erasure`: an account with a saved item cannot be erased.

Noticed while modelling, visible in the modules, without a run of their own:

*Job queues and digest.* A cancel between the start of a thread and its token marks the job cancelled while
it runs on (`core/tasks.py:762-770`); `:752` tells of a job by a status read before it ended. A dead-letter
retry has lost the parameters and is a pipeline run whatever the job was (`:715`, `:381`), and is lost itself
when there is no free slot. A supervisor's token is kept for ever (`:533`). On rq, a search for supervisors
has no token; the flag outlives the job, for `clear_redis` has no caller, so a requeued job stops at once
(`core/cancel.py:36-38`); rq spells "canceled" and the code asks for "cancelled"; a crawl that was cancelled
is reported completed. A digest whose selection failed releases its claim and is not retried, for the next
look is an hour later (`:1003`), and the sleeps of an hour drift; the claim is deleted whoever owns it, and
a crash after it loses the week. The digest asks the preference at `:1022-1025`, the toggle of the settings
writes elsewhere; its mail lacks the unsubscribe link.

*Research.* An API process that dies before the enqueue leaves a run QUEUED for ever
(`api/routes/radar_evidence.py:231`); `:236` overwrites the result of a run whose reply was lost. An error
after the commit inserts the claims again (`radar/jobs/research_job.py:93`); a live run then has two captures of its page, or is FAILED with a
committed one. In live mode the rollback takes the evidence that ORACLE-021 says persists (`:96`), and with it the
rows that `evidence/binding.py:74-75` promises ("Failures (blocked, HTTP error, oversize) are recorded as
FETCH_FAILED snapshots"). A PARTIAL run takes an EVIDENCE_READY case back
(`radar/research/service.py:62`); a STALE committed during the workflow is overwritten (`:156`). The workflow
starts with no sources (`:69`), so a finding may be COMPLETED with nothing behind it. Artifacts are linked
to claims and no snapshot to an artifact (`:146`), so no change of a page makes a researched claim STALE,
against `invalidation.py:15-17`. A watch run invalidates an arbitrary snapshot of the page
(`api/routes/radar_dev.py:629`, against `:808-809`). A gate committed between the check of `freeze_brief` and
its collection is frozen UNKNOWN (`radar/domain/briefs.py:329`). After a failed fetch a snapshot says
CAPTURED, as if it were the first (`radar/evidence/snapshots.py`); two overlapping captures both compare with
the one before. `identity.py:40-44` lets a differing ORCID beat a shared OpenAlex id, although rule 1 comes
first. Deadlines: the minutes of an offset are dropped; OFFSET_AWARE is a naive instant and raises against an
aware now; a date with `assume_tz` is AMBIGUOUS and a local time LOCAL_TIME, the comment says otherwise.
`case_truth` ignores deadlines of SUPERVISOR_FIRST_PHD. `suggest`, `resolve_conflict`, `identity`, `deadlines`
and `due_targets` have no caller in production.

*Case desk and workspace.* Overlapping requests break the history; a save that changes nothing and overlaps
leaves the row unlike its history. Two first saves of a profile make two ACTIVE ones, and so
do two imports that overlap, or an import and a save (`radar/profile/mozare_import.py:117`); overlapping imports of a file add
its routes twice (`:219`), against `:115` "there is only one active profile at a time". An import whose
candidate is not ACTIVE adds a profile each time; without fixed_constraints it raises; a renamed route is
imported again; the owner's edits are overwritten; a file without a candidate is stored and answered 400.

*Crawl and sources.* Overlapping crawls lose first-seen dates (`pipeline/freshness.py:63`). An error of the
browser, be it while it closes, drops all AcademicTransfer had captured (`sources/academictransfer.py:60`). `aas` ignores the category its docstring lets the profile
choose; EURAXESS's field sweep records a posting without type before the "phd" sweep can force it; the
validator's addresses differ from the crawler's for adjacent fields of EURAXESS and FindAPhD; seeds equal up
to normalisation are fetched twice. The browser of a failed source is not closed (`core/http.py`).

*Configuration and assistant.* Aliases grow on every build of a process; builds that overlap an edit of
config.yaml may lose one, and a country added under another thread's walk ends that build. Some values of
config.yaml are set before they are validated and stay; integers are checked in a profile and not in the
file; malformed options of a source without departments raise (`core/config.py:888`), though they are said
to be ignored. Usage is recorded under the default model whichever lane answered (`core/llm.py:339`, against
`:54-55` "never under-billed"); `:78` says the cap "would be exceeded by this call", but spend is compared before
it; a letter or an e-mail at the cap answers 500; quota is charged before the 404.

*Caches and monitor.* `core/cache.py:96-103` swallows the error of an invalidation: the list it was to drop is
served until its TTL, against `:10` "can invalidate the relevant keys in one shot". A source may be alerted about
more than once an hour, against `core/source_monitor.py:7-8` "debounced to one per source per hour": two checks
race between the get and the set, and a check that Redis fails asks the process's own mark, which has not heard of
the alert (`:161-175`). A process that Redis failed once names its sources twice from then on (`:144`).

*Matching and supervisors.* A blocked country counts neutral when nothing is preferred. An author coded in
another country whose affiliation names none counts in the target country (`supervisors/aggregate.py:109`,
against `:106-107`); namesakes merge and may pass the threshold on one paper; a work in two batches of topics
counts twice; arXiv's answers are not told apart; a weak author may not "sink below every genuine local candidate"
(`fit.py`); after a failed flush the session takes no more (`cli/commands.py:409`).

*Accounts and schema.* The data export omits saved items; a bookmark deleted as a saved item returns at the
next start. `saved_items` is in no migration; revision bf5a96b1b784 adds NOT NULL to rows; start-up
creates what docs/RADAR_RUNBOOK.md:71 and docs/DEPLOYMENT.md:65-68 leave to migrations.

*Slice driver.* "Restart is always safe" (its line 7) is false: killed between `save_state("done")` (`:323`) and the commit, a
done slice's work goes to the stash, and state.json with it. An attempt that errors is not looked at by
`enforce_paths`; what it wrote out of bounds is in `pre` of the next attempt and committed. After a failed push
CI is never asked about the slice. A CI fix after a crash starts on a dirty tree and commits ungated work.

## 8. What is not modelled

- *Text:* page markup, dates, wording, prompts, scoring of documents, the texts of mails and explanations;
  a text is a set of terms or a name where a rule looks at it.
- *Discovery, host authority, identity:* classification and comparison without state.
- *API wiring, command line, toolkit, dashboard, desktop shell:* middleware, rendering, templates, starting
  and stopping a process. The endpoints the dashboard polls are modelled.
- *Parts of modelled components* are named in `PROJECT.json`, with the component: among them throttling and
  proxies, passwords and sessions, the audit trail, ORCID mails, deadlines that block a brief.
- External services (rq, Redis, git, the sites, ADS, OpenAlex, arXiv, CI, language models) appear as what the
  code asks of them, and may fail.

Hazards that a property covers only with a proviso, or not at all, carry a note.

## 9. What is left

- Liveness stays with TLC, see section 6.
- `RqQueue` does not implement `JobBoard`: the differences of section 7 (the flag that outlives its job, the
  spelling of "cancelled", a cancelled crawl reported completed) would all be exceptions, so its promise is
  stated by itself (`CancelOutlivesAttempts`).
- `JobQueue` and `PipelineRun` meet in one call: a pipeline job runs a crawl. Their composition would check what
  each abstracts of the other, the outcome of a crawl and the token.
