----------------------------- MODULE PipelineRun -----------------------------
(***************************************************************************)
(* A crawl (pipeline/run.py): the enabled sources are fetched by a pool of *)
(* threads, the postings are filtered, dated against the seen-state file,  *)
(* deduplicated, compared with the previous output, written over it, and   *)
(* then imported from that file into the database (core/tasks.py).         *)
(*                                                                         *)
(* Up to three crawls run at once (tasks.py:51) and share the two files,   *)
(* which are rewritten in place: opening one for writing empties it.       *)
(* Text, scores and the order of a result are left out; days are numbers   *)
(* and 0 is "no date".                                                     *)
(***************************************************************************)
EXTENDS Integers, Sequences, FiniteSets, SequencesExt, Loops

CONSTANTS Runs,        \* slots for crawls: a slot is used again
          Sources,     \* names in SOURCES, in registration order
          Info,        \* Info[s]: fields it serves ("*" is any), slow, on, claimed
          Request,     \* only (--source), field, includeSlow
          Pages,       \* Pages[s]: the lists of postings source s may return
          Concurrency, \* _source_concurrency()
          Config,      \* wanted, keepAmbiguous, strict, bypass, exclude, geo,
                       \* window (max_age_days), keepUndated, probes
          Horizon,     \* days after which an unseen entry is pruned
          MaxDay, MaxRuns, MaxCrashes

Day == 1 .. MaxDay
NoUrl == "no url"
NoInst == "no institution"

\* make_record: what the stages look at.  A posting that is broken makes a
\* stage of the filter raise.
Posting == [url : STRING, title : STRING, inst : STRING, type : STRING, anchored : BOOLEAN,
            seed : BOOLEAN, broken : BOOLEAN, country : {"in", "out", "unknown"},
            deadline : Nat, posted : Nat, page : Nat]

ASSUME PipelineAssumption ==
    /\ Concurrency \in Nat \ {0}
    /\ Config.window \in Nat /\ Horizon \in Nat /\ Horizon >= 2 * Config.window
    /\ Sources \in Seq(STRING) /\ Range(Sources) \subseteq DOMAIN Pages
    /\ \A s \in Range(Sources) : Pages[s] \subseteq Seq(Posting)

VARIABLES
    today,
    pc,        \* where each crawl is
    source,    \* source[r][s]: todo, busy, done, error or skipped
    got,       \* got[r][s]: the postings s delivered
    cancelled, \* the token of the run
    recs,      \* the records in hand, from the filter on
    state,     \* the seen-state the run has loaded
    result,    \* what the run returned
    stored,    \* what its import read and wrote; a torn file is a storage error
    stateFile, \* the seen-state on disk
    output,    \* the JSON output on disk: "none", "torn" or "whole"
    table,     \* the opportunities rows
    started, crashes,
    ideal,     \* history: what a shared, atomic seen-state would hold
    orderly    \* history: every crawl was alone, and none died over the file

vars == <<today, pc, source, got, cancelled, recs, state, result, stored, stateFile, output,
          table, started, crashes, ideal, orderly>>

SourceSet == Range(Sources)
AllPostings == UNION {Range(page) : page \in UNION {Pages[s] : s \in SourceSet}}

(***************************************************************************)
(* The sources of a run: those named, or else those that serve its field   *)
(* and are switched on (sources/base.py).                                  *)
(***************************************************************************)
Relevant(s) ==
    /\ Info[s].claimed \/ Info[s].fields \cap {"*", Request.field} # {}
    /\ Info[s].slow => Request.includeSlow

Enabled ==
    IF Request.only # {} THEN Request.only \cap SourceSet
    ELSE {s \in SourceSet : Relevant(s) /\ Info[s].on}

(***************************************************************************)
(* Filter (pipeline/filter.py).                                            *)
(***************************************************************************)
\* Seeds bypass the first two gates only.
Bypass(p) == p.seed /\ Config.bypass

TypeAllowed(p) ==
    \/ Bypass(p)
    \/ p.type \notin Config.wanted /\ p.type = "unknown" /\ Config.keepAmbiguous
    \/ p.type \in Config.wanted /\ ~(p.type = "unknown" /\ Config.strict)

CountryAllowed(p) ==
    \/ ~Config.geo
    \/ p.country = "in"
    \/ p.country = "unknown" /\ Config.keepAmbiguous

Survives(p, day) ==
    /\ ~p.broken
    /\ TypeAllowed(p)
    /\ p.anchored \/ Bypass(p)
    /\ ~(Config.exclude /\ p.deadline # 0 /\ p.deadline < day)
    /\ CountryAllowed(p)

\* An item is a posting with the source that listed it.
FilterRecords(items, day) == Picked(items, {n \in DOMAIN items : Survives(items[n].posting, day)})

(***************************************************************************)
(* Freshness (pipeline/freshness.py).                                      *)
(***************************************************************************)
StateKey(p) == IF p.url # NoUrl THEN p.url ELSE "t:" \o p.title
Unseen == [first |-> 0, last |-> 0]
NoFile == [is |-> "none", rows |-> {}]
Fresh == [k \in {StateKey(p) : p \in AllPostings} |-> Unseen]

LoadState == IF stateFile.whole THEN stateFile.urls ELSE Fresh

\* Entries a run touches; the others stay as it loaded them.
Touch(st, items, day) ==
    [k \in DOMAIN st |->
        IF \E i \in Range(items) : StateKey(i.posting) = k
        THEN [first |-> IF st[k] = Unseen THEN day ELSE st[k].first, last |-> day]
        ELSE st[k]]

Prune(st, day) == [k \in DOMAIN st |-> IF st[k].last < day - Horizon THEN Unseen ELSE st[k]]

Seen(p, st, day) == st[StateKey(p)] # Unseen /\ st[StateKey(p)].first < day

\* Postings whose page may be read for a date: the first few undated new ones.
Undated(p, st, day) == p.deadline = 0 /\ p.posted = 0 /\ ~Seen(p, st, day)
Probed(items, st, day) ==
    LET candidates == Picked(items, {n \in DOMAIN items : Undated(items[n].posting, st, day) /\ items[n].posting.url # NoUrl})
    IN {candidates[n].posting : n \in {m \in DOMAIN candidates : m <= Config.probes}}

\* The date a posting goes by, and how it was found; read are the postings
\* whose page could be fetched.
Stamp(p, st, day, read) ==
    CASE p.deadline >= day -> [fresh |-> "deadline", date |-> p.deadline]
      [] p.deadline < day /\ p.posted # 0 -> [fresh |-> "posted", date |-> p.posted]
      [] p.deadline < day /\ p.posted = 0 /\ p.deadline # 0 -> [fresh |-> "deadline", date |-> p.deadline]
      [] p.deadline = 0 /\ p.posted = 0 /\ Seen(p, st, day) -> [fresh |-> "first_seen", date |-> st[StateKey(p)].first]
      [] Undated(p, st, day) /\ p \in read /\ p.page # 0 -> [fresh |-> "page_date", date |-> p.page]
      [] OTHER -> [fresh |-> "undated_new", date |-> day]

\* Mutant: a posting once seen is kept whatever its age.
KeepsSeen(stamp, day) ==
    \/ stamp.fresh \in {"undated_new", "first_seen"}
    \/ stamp.date >= day - Config.window

Keeps(stamp, day) ==
    \/ stamp.fresh = "deadline" /\ stamp.date >= day
    \/ stamp.fresh = "undated_new"
    \/ /\ day - stamp.date <= Config.window
       /\ stamp.fresh = "first_seen" => Config.keepUndated

Quality == [deadline |-> 4, posted |-> 3, page_date |-> 2, first_seen |-> 1, undated_new |-> 0]

\* A record: what is merged of a posting, and the postings it stands for.
Record(i, stamp) ==
    LET p == i.posting
    IN [url |-> p.url, title |-> p.title, inst |-> p.inst, type |-> p.type, from |-> {i.source},
        fresh |-> stamp.fresh, date |-> stamp.date, of |-> {p}]

ApplyFreshness(items, st, day, read) ==
    LET dated == [n \in DOMAIN items |-> Record(items[n], Stamp(items[n].posting, st, day, read))]
    IN Picked(dated, {n \in DOMAIN dated : Keeps(dated[n], day)})

(***************************************************************************)
(* Deduplication (pipeline/dedupe.py, utils.dedupe_key).                   *)
(***************************************************************************)
DedupeKey(r) ==
    IF r.inst # NoInst THEN <<"ti", r.title, r.inst>>
    ELSE IF r.url # NoUrl THEN <<"url", r.url>> ELSE <<"t", r.title>>

MergeInto(base, dup) ==
    LET better == Quality[dup.fresh] > Quality[base.fresh] IN
    [base EXCEPT !.from = @ \cup dup.from, !.of = @ \cup dup.of,
                 !.type = IF @ = "unknown" THEN dup.type ELSE @,
                 !.inst = IF @ = NoInst THEN dup.inst ELSE @,
                 !.url = IF @ = NoUrl THEN dup.url ELSE @,
                 !.fresh = IF better THEN dup.fresh ELSE @,
                 !.date = IF better THEN dup.date ELSE @]

SameUrl(a, b) == a.url # NoUrl /\ a.url = b.url
SameKey(a, b) == DedupeKey(a) = DedupeKey(b)
Same(pass, a, b) == IF pass = "url" THEN SameUrl(a, b) ELSE SameKey(a, b)

\* The first record of a kind absorbs the later ones.
Into(records, r, pass) ==
    LET hits == {i \in DOMAIN records : Same(pass, records[i], r)}
    IN IF hits = {} THEN Append(records, r)
       ELSE [records EXCEPT ![CHOOSE i \in hits : TRUE] = MergeInto(@, r)]

Absorb(records, pass) ==
    LET upTo[n \in 0 .. Len(records)] == IF n = 0 THEN <<>> ELSE Into(upTo[n - 1], records[n], pass)
    IN  upTo[Len(records)]

\* Mutant: the passes swapped.
KeysThenUrls(records) == Absorb(Absorb(records, "key"), "url")

Dedupe(records) == Absorb(Absorb(records, "url"), "key")

(***************************************************************************)
(* The steps of a crawl.                                                   *)
(***************************************************************************)
Active(r) == pc[r] \notin {"idle", "done", "dead"}
Goto(r, place) == pc' = [pc EXCEPT ![r] = place]

NoSource == [s \in SourceSet |-> "todo"]

Init ==
    /\ today = 1
    /\ pc = [r \in Runs |-> "idle"]
    /\ source = [r \in Runs |-> NoSource]
    /\ got = [r \in Runs |-> [s \in SourceSet |-> <<>>]]
    /\ cancelled = [r \in Runs |-> FALSE]
    /\ recs = [r \in Runs |-> <<>>]
    /\ state = [r \in Runs |-> Fresh]
    /\ result = [r \in Runs |-> {}]
    /\ stored = [r \in Runs |-> NoFile]
    /\ stateFile = [whole |-> TRUE, urls |-> Fresh]
    /\ output = NoFile
    /\ table = {}
    /\ started = 0 /\ crashes = 0
    /\ ideal = Fresh
    /\ orderly = TRUE

files == <<stateFile, output, table>>
history == <<ideal, orderly>>
bounds == <<today, started, crashes>>

\* run: a job thread or the command line begins a crawl.
Start(r) ==
    /\ ~Active(r) /\ started < MaxRuns
    /\ started' = started + 1
    /\ Goto(r, "fetch")
    /\ source' = [source EXCEPT ![r] = [s \in SourceSet |-> IF s \in Enabled THEN "todo" ELSE "disabled"]]
    /\ got' = [got EXCEPT ![r] = [s \in SourceSet |-> <<>>]]
    /\ cancelled' = [cancelled EXCEPT ![r] = FALSE]
    /\ result' = [result EXCEPT ![r] = {}]
    /\ stored' = [stored EXCEPT ![r] = NoFile]
    /\ orderly' = (orderly /\ \A q \in Runs \ {r} : ~Active(q))
    /\ UNCHANGED <<today, recs, state, files, crashes, ideal>>

\* The token is set from outside; only the pool reads it.
Cancel(r) ==
    /\ pc[r] = "fetch" /\ ~cancelled[r]
    /\ cancelled' = [cancelled EXCEPT ![r] = TRUE]
    /\ UNCHANGED <<pc, source, got, recs, state, result, stored, files, history, bounds>>

\* A thread of the pool is free; the pool hands sources out in order.
NextUp(r, s) ==
    /\ pc[r] = "fetch" /\ source[r][s] = "todo"
    /\ Cardinality({q \in SourceSet : source[r][q] = "busy"}) < Concurrency
    /\ \A i, j \in DOMAIN Sources : Sources[j] = s /\ i < j => source[r][Sources[i]] # "todo"

SetSource(r, s, status) == source' = [source EXCEPT ![r][s] = status]
fetchUnchanged == <<pc, cancelled, recs, state, result, stored, files, history, bounds>>

\* _fetch_one.
BeginSource(r, s) ==
    /\ NextUp(r, s) /\ ~cancelled[r]
    /\ SetSource(r, s, "busy")
    /\ UNCHANGED <<got, fetchUnchanged>>

SkipSource(r, s) ==
    /\ NextUp(r, s) /\ cancelled[r]
    /\ SetSource(r, s, "skipped")
    /\ UNCHANGED <<got, fetchUnchanged>>

FinishSource(r, s) ==
    /\ source[r][s] = "busy"
    /\ SetSource(r, s, "done")
    /\ \E page \in Pages[s] : got' = [got EXCEPT ![r][s] = page]
    /\ UNCHANGED fetchUnchanged

SourceRaises(r, s) ==
    /\ source[r][s] = "busy"
    /\ SetSource(r, s, "error")
    /\ UNCHANGED <<got, fetchUnchanged>>

\* The postings of all sources, in the order of the registry whatever the order
\* in which the sources finished.
Listed(r, s) == [i \in DOMAIN got[r][s] |-> [source |-> s, posting |-> got[r][s][i]]]

\* Mutant: a cancelled run keeps nothing.
CollectedUnlessCancelled(r) ==
    IF cancelled[r] THEN <<>> ELSE Joined([i \in DOMAIN Sources |-> Listed(r, Sources[i])])

Collected(r) == Joined([i \in DOMAIN Sources |-> Listed(r, Sources[i])])

\* The pool has drained: filter, then load_state.
Sift(r) ==
    /\ pc[r] = "fetch"
    /\ \A s \in SourceSet : source[r][s] \notin {"todo", "busy"}
    /\ recs' = [recs EXCEPT ![r] = FilterRecords(Collected(r), today)]
    /\ state' = [state EXCEPT ![r] = LoadState]
    /\ Goto(r, "date")
    /\ source' = [source EXCEPT ![r] = NoSource]
    /\ cancelled' = [cancelled EXCEPT ![r] = FALSE]
    /\ UNCHANGED <<got, result, stored, files, history, bounds>>

\* apply_freshness; its page probes take minutes.  The state is then opened for
\* writing, which empties the file.
Date(r) ==
    /\ pc[r] = "date"
    /\ \E read \in SUBSET Probed(recs[r], state[r], today) :
          recs' = [recs EXCEPT ![r] = ApplyFreshness(@, state[r], today, read)]
    /\ state' = [state EXCEPT ![r] = Prune(Touch(@, recs[r], today), today)]
    /\ ideal' = Prune(Touch(ideal, recs[r], today), today)
    /\ stateFile' = [whole |-> FALSE, urls |-> Fresh]
    /\ Goto(r, "save")
    /\ UNCHANGED <<source, got, cancelled, result, stored, output, table, orderly, bounds>>

\* save_state writes the file; dedupe and sort follow.
SaveState(r) ==
    /\ pc[r] = "save"
    /\ stateFile' = [whole |-> TRUE, urls |-> state[r]]
    /\ recs' = [recs EXCEPT ![r] = Dedupe(@)]
    /\ Goto(r, "compare")
    /\ UNCHANGED <<source, got, cancelled, state, result, stored, output, table, history, bounds>>

\* load_previous_keys and mark_new.  An output that is missing or unreadable is
\* a first run, which flags nothing.
MarkNew(records) ==
    LET previous == {DedupeKey(o.record) : o \in output.rows}
    IN {[record |-> x, new |-> output.is = "whole" /\ DedupeKey(x) \notin previous] : x \in Range(records)}

Compare(r) ==
    /\ pc[r] = "compare"
    /\ result' = [result EXCEPT ![r] = MarkNew(recs[r])]
    /\ recs' = [recs EXCEPT ![r] = <<>>]
    /\ state' = [state EXCEPT ![r] = Fresh]
    /\ Goto(r, "open")
    /\ UNCHANGED <<source, got, cancelled, stored, files, history, bounds>>

\* write_outputs: the JSON file is opened, and written.
finishUnchanged == <<source, cancelled, recs, state, result, stateFile, history, bounds>>

OpenOutput(r) ==
    /\ pc[r] = "open"
    /\ output' = [is |-> "torn", rows |-> {}]
    /\ got' = [got EXCEPT ![r] = [s \in SourceSet |-> <<>>]]
    /\ Goto(r, "write")
    /\ UNCHANGED <<stored, table, finishUnchanged>>

WriteOutput(r) ==
    /\ pc[r] = "write"
    /\ output' = [is |-> "whole", rows |-> result[r]]
    /\ Goto(r, "import")
    /\ UNCHANGED <<got, stored, table, finishUnchanged>>

\* _persist_records: seed_from_json reads the file, not the result.  Rows are
\* matched by (source, url); an unreadable file is rescued and reported.
RowKey(record) == <<record.from, record.url>>

Import(r) ==
    /\ pc[r] = "import"
    /\ stored' = [stored EXCEPT ![r] = output]
    /\ table' = table \cup {RowKey(o.record) : o \in output.rows}
    /\ Goto(r, "done")
    /\ UNCHANGED <<got, output, finishUnchanged>>

\* The process that runs the crawl is killed: a file it had open stays empty, what
\* it held is gone.
Crash(r) ==
    /\ Active(r) /\ crashes < MaxCrashes
    /\ crashes' = crashes + 1
    /\ Goto(r, "dead")
    /\ source' = [source EXCEPT ![r] = NoSource]
    /\ got' = [got EXCEPT ![r] = [s \in SourceSet |-> <<>>]]
    /\ cancelled' = [cancelled EXCEPT ![r] = FALSE]
    /\ recs' = [recs EXCEPT ![r] = <<>>]
    /\ state' = [state EXCEPT ![r] = Fresh]
    /\ result' = [result EXCEPT ![r] = {}]
    /\ orderly' = (orderly /\ pc[r] # "save")
    /\ UNCHANGED <<today, stored, files, started, ideal>>

\* Also in the middle of a crawl.
NextDay ==
    /\ today < MaxDay
    /\ today' = today + 1
    /\ UNCHANGED <<pc, source, got, cancelled, recs, state, result, stored, files, history, started, crashes>>

SourceStep(r, s) == BeginSource(r, s) \/ SkipSource(r, s) \/ FinishSource(r, s) \/ SourceRaises(r, s)
Stage(r) == Sift(r) \/ Date(r) \/ SaveState(r) \/ Compare(r) \/ OpenOutput(r) \/ WriteOutput(r) \/ Import(r)

Next ==
    \/ \E r \in Runs : Start(r) \/ Cancel(r) \/ Stage(r) \/ Crash(r)
    \/ \E r \in Runs, s \in SourceSet : SourceStep(r, s)
    \/ NextDay

Spec == Init /\ [][Next]_vars

-----------------------------------------------------------------------------
(* Properties.                                                             *)

\* The two passes leave one record of a posting: no two records of a result
\* share an address, or a title and institution.
OutputIsDistinct ==
    \A r \in Runs : \A x, y \in result[r] :
        x # y => ~SameUrl(x.record, y.record) /\ ~SameKey(x.record, y.record)

\* A posting that a source delivered and that is in date is in the result, also
\* when the run was cancelled or other sources failed: nothing is lost between
\* the pool, the three stages and the merging of duplicates.
NothingIsLost ==
    \A r \in Runs : pc[r] = "open" =>
        \A s \in SourceSet : \A p \in Range(got[r][s]) :
            Survives(p, today) /\ p.deadline >= today =>
                \E x \in result[r] : p \in x.record.of /\ s \in x.record.from

\* What a crawl writes is each posting once, and all of them: both, of every result.
CrawlIsWhole == OutputIsDistinct /\ NothingIsLost

\* freshness.py:21-28: undated posts must not survive forever.  While no two
\* crawls overlap and none dies with the file open, an undated posting is kept
\* no later than the window after the day a crawl first saw it.
UndatedAgesOut ==
    [][\A r \in Runs : orderly /\ pc[r] = "date" /\ pc'[r] = "save" =>
          \A x \in Range(recs'[r]) : \A p \in x.of :
              p.posted = 0 /\ p.deadline = 0 /\ p.page = 0 =>
                  today - ideal'[StateKey(p)].first <= Config.window]_vars

(* What a comment says, and the code does not.                             *)

\* tasks.py:249-250: "stored" is the last stage of THIS run's funnel, so it must
\* be what this run wrote.
StoredIsOwn == \A r \in Runs : pc[r] = "done" /\ stored[r].is = "whole" => stored[r].rows = result[r]
=============================================================================
