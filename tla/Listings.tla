------------------------------- MODULE Listings -------------------------------
(***************************************************************************)
(* The cached lists of the API (core/cache.py): opportunities              *)
(* (routes/opportunities.py) and the matches of the active profile, which  *)
(* the process also keeps in a dictionary of its own (routes/matches.py).  *)
(* A crawl and an edit of the profile invalidate them after their commit.  *)
(*                                                                         *)
(* A list is the versions of what it was made from: of the opportunities,  *)
(* and of the profile's terms.                                             *)
(***************************************************************************)
EXTENDS Integers

CONSTANTS Readers, MaxRows, MaxProfile

None == [rows |-> 0, profile |-> 0]
Lists == {"opportunities", "matches"}

VARIABLES
    rows, profile,  \* the tables: how often they have been written
    store,          \* the entries of core.cache
    memo, version,  \* _match_cache, by version, and CACHE_VERSION
    at, list,       \* where a request is, and the list it is for
    own, key,       \* the profile and the CACHE_VERSION it has read
    value,          \* the list it will store and return
    crawl, edit,    \* where the crawl and the profile edit are
    raced,          \* history: lists a request was making while they were written or invalidated
    unswept            \* history: lists with an entry that an invalidation which failed has left

vars == <<rows, profile, store, memo, version, at, list, own, key, value, crawl, edit, raced, unswept>>

Init ==
    /\ rows = 1 /\ profile = 1 /\ version = 0
    /\ store = [l \in Lists |-> None]
    /\ memo = [v \in 0 .. MaxProfile |-> None]
    /\ at = [r \in Readers |-> "idle"] /\ list = [r \in Readers |-> "matches"]
    /\ own = [r \in Readers |-> 0] /\ key = [r \in Readers |-> 0]
    /\ value = [r \in Readers |-> None]
    /\ crawl = "idle" /\ edit = "idle" /\ raced = {} /\ unswept = {}

reader == <<at, list, own, key, value>>
tables == <<rows, profile>>

Making == {list[r] : r \in {q \in Readers : at[q] # "idle"}}

-----------------------------------------------------------------------------
(* Requests.                                                               *)

\* list_opportunities, list_matches and v1_matches: the profile is read, then the
\* cache; a hit is returned, an error of Redis is a miss.
Look(r) ==
    /\ at[r] = "idle"
    /\ \E l \in Lists :
          /\ list' = [list EXCEPT ![r] = l]
          /\ own' = [own EXCEPT ![r] = profile]
          /\ \E there \in (IF l = "matches" THEN {"key", "compute"} ELSE {"compute"}) :
                at' = [at EXCEPT ![r] = there]
    /\ UNCHANGED <<tables, store, memo, version, key, value, crawl, edit, raced, unswept>>

\* list_matches picks its key before it has the lock.
ReadKey(r) ==
    /\ at[r] = "key"
    /\ at' = [at EXCEPT ![r] = "memo"] /\ key' = [key EXCEPT ![r] = version]
    /\ UNCHANGED <<tables, store, memo, version, list, own, value, crawl, edit, raced, unswept>>

Made(r) == [rows |-> rows, profile |-> IF list[r] = "matches" THEN own[r] ELSE 0]

Memoised(r) ==
    /\ at[r] = "memo"
    /\ LET v == IF memo[key[r]] = None THEN Made(r) ELSE memo[key[r]]
       IN memo' = [memo EXCEPT ![key[r]] = v] /\ value' = [value EXCEPT ![r] = v]
    /\ at' = [at EXCEPT ![r] = "fill"]
    /\ UNCHANGED <<tables, store, version, list, own, key, crawl, edit, raced, unswept>>

Compute(r) ==
    /\ at[r] = "compute"
    /\ value' = [value EXCEPT ![r] = Made(r)]
    /\ at' = [at EXCEPT ![r] = "fill"]
    /\ UNCHANGED <<tables, store, memo, version, list, own, key, crawl, edit, raced, unswept>>

\* The list is stored, whatever has been invalidated since; a set that fails is
\* ignored.
Fill(r) ==
    /\ at[r] = "fill"
    /\ at' = [at EXCEPT ![r] = "idle"] /\ list' = [list EXCEPT ![r] = "matches"]
    /\ own' = [own EXCEPT ![r] = 0] /\ key' = [key EXCEPT ![r] = 0] /\ value' = [value EXCEPT ![r] = None]
    /\ \/ store' = [store EXCEPT ![list[r]] = value[r]] /\ unswept' = unswept \ {list[r]}
       \/ UNCHANGED <<store, unswept>>
    /\ UNCHANGED <<tables, memo, version, crawl, edit, raced>>

\* The TTL of an entry.
Expire(l) ==
    /\ store[l] # None
    /\ store' = [store EXCEPT ![l] = None] /\ unswept' = unswept \ {l}
    /\ UNCHANGED <<tables, memo, version, reader, crawl, edit, raced>>

-----------------------------------------------------------------------------
(* Writers.                                                                *)

\* invalidate, after the commit: an error of Redis is swallowed, and the entry stays
\* until its TTL is over.
Invalidate(l) ==
    /\ raced' = raced \cup Making
    /\ \/ store' = [store EXCEPT ![l] = None] /\ unswept' = unswept \ {l}
       \/ store[l] # None /\ unswept' = unswept \cup {l} /\ UNCHANGED store

\* run_pipeline_job: the import commits, then the opportunities are invalidated,
\* then the matches.  An import that fails leaves the table and the opportunities.
Crawl ==
    \/ /\ crawl = "idle" /\ rows < MaxRows
       /\ rows' = rows + 1 /\ crawl' = "opportunities" /\ raced' = raced \cup Making
       /\ UNCHANGED <<profile, store, memo, version, reader, edit, unswept>>
    \/ /\ crawl = "idle" /\ rows < MaxRows
       /\ crawl' = "matches"
       /\ UNCHANGED <<tables, store, memo, version, reader, edit, raced, unswept>>
    \/ /\ crawl \in Lists
       /\ Invalidate(crawl)
       /\ crawl' = IF crawl = "opportunities" THEN "matches" ELSE "idle"
       /\ UNCHANGED <<tables, memo, version, reader, edit>>

\* Mutant: an edit only bumps the version.
BumpOnly ==
    \/ /\ edit = "idle" /\ profile < MaxProfile
       /\ profile' = profile + 1 /\ edit' = "bump" /\ raced' = raced \cup Making
       /\ UNCHANGED <<rows, store, memo, version, reader, crawl, unswept>>
    \/ /\ edit = "bump"
       /\ version' = version + 1 /\ edit' = "idle" /\ raced' = raced \cup Making
       /\ UNCHANGED <<tables, store, memo, reader, crawl, unswept>>

\* update_profile: commit, a new CACHE_VERSION, the matches, the opportunities.
\* (build_profile does the same for a new row, whose matches have a key of their own.)
Edit ==
    \/ /\ edit = "idle" /\ profile < MaxProfile
       /\ profile' = profile + 1 /\ edit' = "bump" /\ raced' = raced \cup Making
       /\ UNCHANGED <<rows, store, memo, version, reader, crawl, unswept>>
    \/ /\ edit = "bump"
       /\ version' = version + 1 /\ edit' = "matches" /\ raced' = raced \cup Making
       /\ UNCHANGED <<tables, store, memo, reader, crawl, unswept>>
    \/ /\ edit \in Lists
       /\ Invalidate(edit)
       /\ edit' = IF edit = "matches" THEN "opportunities" ELSE "idle"
       /\ UNCHANGED <<tables, memo, version, reader, crawl>>

Next ==
    \/ \E r \in Readers : Look(r) \/ ReadKey(r) \/ Memoised(r) \/ Compute(r) \/ Fill(r)
    \/ \E l \in Lists : Expire(l)
    \/ Crawl \/ Edit

-----------------------------------------------------------------------------
(* Properties.                                                             *)

\* Between crawls the cached opportunities are those of the table, and between
\* edits the cached matches are those of the profile as it is, unless a request read
\* before the last write or its invalidation and stored after, or the invalidation
\* failed: then the entry it left may be old, but none that is stored later.  The
\* dictionary of the process, which no time limits, does not bring old ones back.
ListsAreCurrent ==
    /\ crawl = "idle" /\ "opportunities" \notin raced \cup unswept =>
          store["opportunities"] = None \/ store["opportunities"].rows = rows
    /\ edit = "idle" /\ "matches" \notin raced \cup unswept =>
          store["matches"] = None \/ store["matches"].profile = profile

\* core/cache.py:10-12: a fresh pipeline run invalidates the keys it makes old, so
\* between crawls the cached matches are of the rows as they are, also where no
\* invalidation has failed.
MatchesFollowRun ==
    crawl = "idle" /\ "matches" \notin raced \cup unswept => store["matches"] = None \/ store["matches"].rows = rows
=============================================================================
