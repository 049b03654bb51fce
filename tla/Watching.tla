------------------------------- MODULE Watching -------------------------------
(***************************************************************************)
(* What is kept of a page (evidence/snapshots.py, artifacts.py): live      *)
(* research binds a case to it (evidence/binding.py, jobs/research_job.py),*)
(* watch runs and simulated changes record it (watch/checks.py,            *)
(* api/routes/radar_dev.py).  A research attempt is one transaction, from  *)
(* the fetch to the end of the workflow; what it wrote is visible to       *)
(* others when it commits, in the order of captured_at even so.  The       *)
(* worker then reads the row again, and takes a failure of that read for   *)
(* one of the attempt: the next one captures the page once more.  Watch    *)
(* runs exist in fixture mode only, where a fetch cannot fail; a live run  *)
(* that was queued before a restart into that mode goes on beside them.    *)
(***************************************************************************)
EXTENDS Naturals, Sequences, FiniteSets

CONSTANTS Lines,        \* of a page
          Runs,         \* live research runs of the case
          MaxRetries,   \* MAX_RETRIES
          MaxCaptures

VARIABLES
    clock,      \* captures so far
    snapshots,  \* committed: at, text, state, by, and what was behind it (history)
    artifacts,  \* committed: at, by
    events,     \* captures for which a change event was written
    checked,    \* deadline_evidence_id: the capture, 0 for none
    status,     \* where the worker is in the run's job
    attempt, pending,
    unread      \* attempts that had committed when the read of the row failed (history)

vars == <<clock, snapshots, artifacts, events, checked, status, attempt, pending, unread>>

\* A text, up to white space and case; the order matters for the fingerprint only.
Texts == {t \in [lines : SUBSET Lines, order : {1, 2}] : t.order = 2 => Cardinality(t.lines) > 1}
OldHash == [lines |-> {}, order |-> 0]

Init ==
    /\ clock = 0 /\ snapshots = {} /\ artifacts = {} /\ events = {} /\ checked = 0
    /\ status = [r \in Runs |-> "QUEUED"] /\ attempt = [r \in Runs |-> 0] /\ pending = [r \in Runs |-> {}]
    /\ unread = [r \in Runs |-> 0]

Newest(S) == {s \in S : \A t \in S : t.at <= s.at}

\* record_snapshot: the state, by the newest one this transaction sees.
StateOf(S, text) ==
    IF S = {} THEN "CAPTURED" ELSE IF \E s \in Newest(S) : s.text = text THEN "UNCHANGED" ELSE "CHANGED"

Capture(S, text, by) ==
    [at |-> clock + 1, text |-> text, state |-> StateOf(S, text), by |-> by, seen |-> {s.at : s \in S}]

-----------------------------------------------------------------------------
(* Live research.                                                          *)

\* research_case_job.
Start(r) ==
    /\ status[r] = "QUEUED"
    /\ status' = [status EXCEPT ![r] = "RUNNING"]
    /\ UNCHANGED <<clock, snapshots, artifacts, events, checked, attempt, pending, unread>>

MayTry(r) == status[r] = "RUNNING" /\ attempt[r] <= MaxRetries

\* acquire_case_evidence: the page is fetched; its snapshot and its artifact are in
\* the transaction, and the target's deadline is marked as checked.
Bind(r, text) ==
    /\ MayTry(r) /\ clock < MaxCaptures
    /\ clock' = clock + 1
    /\ pending' = [pending EXCEPT ![r] = @ \union {Capture(snapshots \union pending[r], text, r)}]
    /\ status' = [status EXCEPT ![r] = "BOUND"]
    /\ UNCHANGED <<snapshots, artifacts, events, checked, attempt, unread>>

\* bind_or_fail raises, for there is no page, or the fetch failed.  The row that
\* says so is in the transaction the worker then rolls back.
Unbound(r) ==
    /\ MayTry(r)
    /\ attempt' = [attempt EXCEPT ![r] = @ + 1]
    /\ UNCHANGED <<clock, snapshots, artifacts, events, checked, status, pending, unread>>

\* run_research commits: the run says COMPLETED or PARTIAL from here on.
Commit(r) ==
    /\ status[r] = "BOUND"
    /\ snapshots' = snapshots \union pending[r]
    /\ artifacts' = artifacts \union {[at |-> p.at, by |-> r] : p \in pending[r]}
    /\ \E p \in Newest(pending[r]) : checked' = p.at
    /\ status' = [status EXCEPT ![r] = "COMMITTED"]
    /\ pending' = [pending EXCEPT ![r] = {}]
    /\ UNCHANGED <<clock, events, attempt, unread>>

\* session.refresh: the row is read again, and the job is over.
Reread(r) ==
    /\ status[r] = "COMMITTED"
    /\ status' = [status EXCEPT ![r] = "COMPLETED"]
    /\ UNCHANGED <<clock, snapshots, artifacts, events, checked, attempt, pending, unread>>

\* It fails: so did the attempt, whose commit stays.
RereadFails(r) ==
    /\ status[r] = "COMMITTED"
    /\ attempt' = [attempt EXCEPT ![r] = @ + 1]
    /\ status' = [status EXCEPT ![r] = "RUNNING"]
    /\ unread' = [unread EXCEPT ![r] = @ + 1]
    /\ UNCHANGED <<clock, snapshots, artifacts, events, checked, pending>>

\* Mutant: the session is not rolled back before the next attempt.
Kept(r) == pending

RolledBack(r) == [pending EXCEPT ![r] = {}]

\* The provider, or its output, fails.
Raise(r) ==
    /\ status[r] = "BOUND"
    /\ pending' = RolledBack(r)
    /\ attempt' = [attempt EXCEPT ![r] = @ + 1]
    /\ status' = [status EXCEPT ![r] = "RUNNING"]
    /\ UNCHANGED <<clock, snapshots, artifacts, events, checked, unread>>

GiveUp(r) ==
    /\ status[r] = "RUNNING" /\ attempt[r] > MaxRetries
    /\ status' = [status EXCEPT ![r] = "FAILED"]
    /\ UNCHANGED <<clock, snapshots, artifacts, events, checked, attempt, pending, unread>>

-----------------------------------------------------------------------------
(* Watching.                                                               *)

\* line_diff.
Added(old, new) == new.lines \ old.lines
Removed(old, new) == old.lines \ new.lines

Material(old, new) == Cardinality(Added(old, new)) + Cardinality(Removed(old, new)) > 1

\* run_watch_check: the change is told by the snapshots, its size by the text the
\* caller had before.
WatchCheck(prior, text) ==
    /\ clock < MaxCaptures
    /\ LET s == Capture(snapshots, text, "watch")
       IN  /\ snapshots' = snapshots \union {s}
           /\ events' = IF s.state = "CHANGED" /\ Material(prior, text) THEN events \union {s.at} ELSE events
    /\ clock' = clock + 1
    /\ UNCHANGED <<artifacts, checked, status, attempt, pending, unread>>

\* simulate_change: a snapshot with a fingerprint no text has, CAPTURED, and its event.
SimulateChange ==
    /\ clock < MaxCaptures
    /\ snapshots' = snapshots \union {[at |-> clock + 1, text |-> OldHash, state |-> "CAPTURED", by |-> "simulated",
                                       seen |-> {s.at : s \in snapshots}]}
    /\ events' = events \union {clock + 1}
    /\ clock' = clock + 1
    /\ UNCHANGED <<artifacts, checked, status, attempt, pending, unread>>

Next ==
    \/ \E r \in Runs : Start(r) \/ Unbound(r) \/ Commit(r) \/ Reread(r) \/ RereadFails(r) \/ Raise(r) \/ GiveUp(r)
    \/ \E r \in Runs, t \in Texts : Bind(r, t)
    \/ \E p, t \in Texts : WatchCheck(p, t)
    \/ SimulateChange

Spec == Init /\ [][Next]_vars

-----------------------------------------------------------------------------

\* A live run has left one capture of the page with its artifact for each attempt that
\* committed and none for another: one that ended well rests on exactly one, its own, but
\* for those of attempts that failed only when the row was read again, and one that failed
\* has left those alone; the evidence that the deadline was checked exists.  What a snapshot
\* says of the page it says against the one before it, unless that one was not
\* yet committed when it was taken.
EvidenceIsWhole ==
    /\ \A r \in Runs :
          LET A == {a \in artifacts : a.by = r}  S == {s \in snapshots : s.by = r}
          IN  /\ {a.at : a \in A} = {s.at : s \in S}
              /\ Cardinality(A) = unread[r] + IF status[r] \in {"COMMITTED", "COMPLETED"} THEN 1 ELSE 0
    /\ checked # 0 => \E a \in artifacts : a.at = checked
    /\ \A s \in snapshots : s.by # "simulated" =>
          LET before == {t \in snapshots : t.at < s.at}
          IN  before = {t \in snapshots : t.at \in s.seen} =>
                  /\ s.state = "CAPTURED" <=> before = {}
                  /\ s.state = "CHANGED" <=> \E t \in Newest(before) : t.text # s.text
=============================================================================
