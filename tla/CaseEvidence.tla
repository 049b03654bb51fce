----------------------------- MODULE CaseEvidence -----------------------------
(***************************************************************************)
(* The evidence of one case, from its capture to the brief that is frozen  *)
(* on it: snapshots (evidence/snapshots.py), research in fixture mode      *)
(* (research/fixtures.py, research/service.py), watch runs, gates and      *)
(* funding (api/routes/radar_dev.py), invalidation (domain/invalidation.py)*)
(* and briefs (domain/briefs.py, domain/case_truth.py).                    *)
(*                                                                         *)
(* Each request is a transaction of its own, but freeze_brief reads the    *)
(* case three times, and other requests commit in between.  Watch runs     *)
(* exist in fixture mode only, so that is the mode modelled: no fetch      *)
(* fails, and what research and funding capture never differs.             *)
(***************************************************************************)
EXTENDS Naturals, Sequences, FiniteSets

CONSTANTS ResearchUrls, \* one per mandatory class of the case's protocol
          FundingUrl,   \* not one of them
          Texts,        \* contents, up to the normalisation of fingerprint
          Original,     \* of Texts, what research and funding capture
          Callers,      \* concurrent requests to freeze a brief
          MaxSnapshots, MaxGates, MaxFunding, MaxBriefs  \* bounds on the rows

Urls == ResearchUrls \cup {FundingUrl}

ResearchState == {"DISCOVERED", "EVIDENCE_READY", "STALE"}
GateResult == {"PASS", "FAIL", "UNKNOWN"}
FundingState == {"ELIGIBLE", "ELIGIBILITY_UNKNOWN", "FORMALLY_BLOCKED"}
ClaimStatus == {"SUPPORTED", "UNKNOWN", "STALE"}

VARIABLES
    snapshots, \* radar_source_snapshots in the order of captured_at
    artifacts, \* the snapshots that have an evidence artifact
    claims,    \* the case's claims: status by the snapshot they cite
    edges,     \* radar_evidence_dependencies, as <<upstream, downstream>>
    gates,     \* results of the case's gate assessments
    funding,   \* states of its funding assessments
    research,  \* EvaluationCase.research_state
    bound,     \* artifacts of the research attempt in progress
    briefs,    \* the frozen briefs: content and dependencies
    freezing   \* what each caller has read

rows == <<snapshots, artifacts, claims, edges, gates, funding, research>>
vars == <<rows, bound, briefs, freezing>>

Snapshot(n) == <<"SourceSnapshot", n>>
Artifact(n) == <<"EvidenceArtifact", n>>
ClaimOf(n) == <<"Claim", n>>
Case == <<"EvaluationCase", 0>>

Ids == 1 .. MaxSnapshots
Content == [claims : SUBSET Ids, gates : Seq(GateResult), funding : Seq(FundingState)]
NoContent == [claims |-> {}, gates |-> <<>>, funding |-> <<>>]
Brief == [content : Content, snapshots : SUBSET Ids, gates : Seq(GateResult), funding : Seq(FundingState)]

TypeOK ==
    /\ snapshots \in Seq([url : Urls, text : Texts])
    /\ Len(snapshots) <= MaxSnapshots
    /\ artifacts \in SUBSET (DOMAIN snapshots)
    /\ DOMAIN claims \in SUBSET artifacts
    /\ \A n \in DOMAIN claims : claims[n] \in ClaimStatus
    /\ edges \in SUBSET ({Snapshot(n) : n \in Ids} \X {Case} \cup {<<Artifact(n), ClaimOf(n)>> : n \in Ids})
    /\ gates \in Seq(GateResult)
    /\ funding \in Seq(FundingState)
    /\ research \in ResearchState
    /\ bound \in SUBSET artifacts
    /\ briefs \in Seq(Brief)
    /\ freezing \in [Callers -> [at : {"idle", "checked", "collected"}, content : Content]]

Init ==
    /\ snapshots = <<>>
    /\ artifacts = {}
    /\ claims = <<>>
    /\ edges = {}
    /\ gates = <<>>
    /\ funding = <<>>
    /\ research = "DISCOVERED"
    /\ bound = {}
    /\ briefs = <<>>
    /\ freezing = [c \in Callers |-> [at |-> "idle", content |-> NoContent]]

-----------------------------------------------------------------------------
(* Snapshots.                                                              *)

Capture(u, text) == [url |-> u, text |-> text]
Of(u) == {n \in DOMAIN snapshots : snapshots[n].url = u}
Newest(S) == CHOOSE n \in S : \A m \in S : m <= n

\* record_snapshot's verdict on a successful fetch.
State(ss, u, text) ==
    LET S == {n \in DOMAIN ss : ss[n].url = u}
    IN  IF S = {} THEN "CAPTURED"
        ELSE IF ss[Newest(S)].text = text THEN "UNCHANGED" ELSE "CHANGED"

-----------------------------------------------------------------------------
(* Research.                                                               *)

AddClaims(S, status) ==
    claims' = [n \in DOMAIN claims \cup S |-> IF n \in DOMAIN claims THEN claims[n] ELSE status]

\* fixture_evidence_and_provider: one snapshot and one artifact for each class,
\* in a transaction of their own.  An attempt that had bound evidence and did not
\* persist its claims has failed.
BindEvidence ==
    LET k == Cardinality(ResearchUrls)
        new == (Len(snapshots) + 1) .. (Len(snapshots) + k)
    IN  /\ Len(snapshots) + k <= MaxSnapshots
        /\ \E order \in [1 .. k -> ResearchUrls] :
              /\ \A u \in ResearchUrls : \E i \in 1 .. k : order[i] = u
              /\ snapshots' = snapshots \o [i \in 1 .. k |-> Capture(order[i], Original)]
        /\ artifacts' = artifacts \cup new
        /\ bound' = new
        /\ UNCHANGED <<claims, edges, gates, funding, research, briefs, freezing>>

\* run_research's transaction: the claims with their dependencies, and the case,
\* whose state was loaded before the workflow ran: it ends EVIDENCE_READY, for
\* the fixtures cover every mandatory class, whatever was written meanwhile.
PersistClaims ==
    /\ bound # {}
    /\ AddClaims(bound, "SUPPORTED")
    /\ edges' = edges \cup {<<Artifact(n), ClaimOf(n)>> : n \in bound}
    /\ research' = "EVIDENCE_READY"
    /\ bound' = {}
    /\ UNCHANGED <<snapshots, artifacts, gates, funding, briefs, freezing>>

-----------------------------------------------------------------------------
(* Gates and funding.                                                      *)

CreateGate(result) ==
    /\ Len(gates) < MaxGates
    /\ gates' = Append(gates, result)
    /\ UNCHANGED <<snapshots, artifacts, claims, edges, funding, research, bound, briefs, freezing>>

\* create_funding_fixture; the claim is SUPPORTED when no cost is unknown.
CreateFunding(state, status) ==
    /\ Len(funding) < MaxFunding
    /\ Len(snapshots) < MaxSnapshots
    /\ LET n == Len(snapshots) + 1
       IN  /\ snapshots' = Append(snapshots, Capture(FundingUrl, Original))
           /\ artifacts' = artifacts \cup {n}
           /\ AddClaims({n}, status)
           /\ edges' = edges \cup {<<Snapshot(n), Case>>}
    /\ funding' = Append(funding, state)
    /\ UNCHANGED <<gates, research, bound, briefs, freezing>>

-----------------------------------------------------------------------------
(* Watching and invalidation.                                              *)

\* invalidate, from snapshot n.  The program writes no dependency that leads on
\* from a claim or a case, so the walk is one step deep; module Invalidation is
\* about the walk on any graph.
Reached(n) == {e[2] : e \in {d \in edges : d[1] = Snapshot(n)}}

Invalidate(n) ==
    /\ claims' = [m \in DOMAIN claims |-> IF ClaimOf(m) \in Reached(n) THEN "STALE" ELSE claims[m]]
    /\ research' = IF Case \in Reached(n) /\ research = "EVIDENCE_READY" THEN "STALE" ELSE research

\* The watch run records what the page said before, if nothing did.
WithPrior(u, prior) == IF Of(u) = {} THEN Append(snapshots, Capture(u, prior)) ELSE snapshots

\* What it invalidates is some snapshot of the page: .first(), unordered.
WatchRun(u, prior, text) ==
    LET ss == WithPrior(u, prior)
    IN  /\ Len(snapshots) + (IF Of(u) = {} THEN 2 ELSE 1) <= MaxSnapshots
        /\ snapshots' = Append(ss, Capture(u, text))
        /\ IF State(ss, u, text) = "CHANGED"
           THEN \E n \in {m \in DOMAIN ss : ss[m].url = u} : Invalidate(n)
           ELSE UNCHANGED <<claims, research>>
        /\ UNCHANGED <<artifacts, edges, gates, funding, bound, briefs, freezing>>

-----------------------------------------------------------------------------
(* Briefs.                                                                 *)

Values(s) == {s[i] : i \in DOMAIN s}

\* brief_block_reasons is empty.  (Deadlines may block as well.)
MayFreeze ==
    /\ research = "EVIDENCE_READY"
    /\ Values(gates) \cap {"FAIL", "UNKNOWN", "STALE"} = {}
    /\ "FORMALLY_BLOCKED" \notin Values(funding)
    /\ "STALE" \notin Values(claims)

FreezeCheck(c) ==
    /\ freezing[c].at = "idle"
    /\ Len(briefs) < MaxBriefs
    /\ MayFreeze
    /\ freezing' = [freezing EXCEPT ![c].at = "checked"]
    /\ UNCHANGED <<rows, bound, briefs>>

\* _collect_brief_content.
FreezeCollect(c) ==
    /\ freezing[c].at = "checked"
    /\ freezing' = [freezing EXCEPT ![c] = [at |-> "collected",
                       content |-> [claims |-> DOMAIN claims, gates |-> gates, funding |-> funding]]]
    /\ UNCHANGED <<rows, bound, briefs>>

\* Mutant: the artifacts are sorted the other way round.
OldestCited == {n \in DOMAIN claims : \A m \in DOMAIN claims : snapshots[m].url = snapshots[n].url => n <= m}

\* _record_dependencies: of the artifacts of a page, the one retrieved last.
LatestCited == {n \in DOMAIN claims : \A m \in DOMAIN claims : snapshots[m].url = snapshots[n].url => m <= n}

FreezeRecord(c) ==
    /\ freezing[c].at = "collected"
    /\ Len(briefs) < MaxBriefs
    /\ briefs' = Append(briefs, [content |-> freezing[c].content, snapshots |-> LatestCited,
                                 gates |-> gates, funding |-> funding])
    /\ freezing' = [freezing EXCEPT ![c] = [at |-> "idle", content |-> NoContent]]
    /\ UNCHANGED <<rows, bound>>

\* Mutant: only a page that says something else now counts.
NowDiffers(n) == snapshots[Newest(Of(snapshots[n].url))].text # snapshots[n].text

HasNewer(n) == \E m \in DOMAIN snapshots : snapshots[m].url = snapshots[n].url /\ m > n

\* is_superseded.
Superseded(b) ==
    \/ \E n \in b.snapshots : HasNewer(n)
    \/ \E i \in DOMAIN b.gates : gates[i] # b.gates[i]
    \/ \E i \in DOMAIN b.funding : funding[i] # b.funding[i]

Next ==
    \/ BindEvidence
    \/ PersistClaims
    \/ \E r \in GateResult : CreateGate(r)
    \/ \E s \in FundingState, q \in {"SUPPORTED", "UNKNOWN"} : CreateFunding(s, q)
    \/ \E u \in Urls, p, t \in Texts : WatchRun(u, p, t)
    \/ \E c \in Callers : FreezeCheck(c) \/ FreezeCollect(c) \/ FreezeRecord(c)

Spec == Init /\ [][Next]_vars

-----------------------------------------------------------------------------
(* Properties.                                                             *)

\* ORACLE-032: whatever a brief says, rows that were committed while it was
\* being frozen included, it depends on: a claim by a capture of its page no
\* older than the one it cites, a gate or a funding route by its value.
ContentIsTracked ==
    \A i \in DOMAIN briefs :
        LET b == briefs[i]
        IN  /\ \A n \in b.content.claims :
                  \E m \in b.snapshots : snapshots[m].url = snapshots[n].url /\ n <= m
            /\ \A g \in DOMAIN b.content.gates : g \in DOMAIN b.gates /\ b.gates[g] = b.content.gates[g]
            /\ \A f \in DOMAIN b.content.funding : f \in DOMAIN b.funding /\ b.funding[f] = b.content.funding[f]

\* A brief that was superseded stays superseded, even if the page goes back to
\* what it said.
SupersededForGood ==
    [][\A i \in DOMAIN briefs : Superseded(briefs[i]) => Superseded(briefs[i])']_vars
=============================================================================
