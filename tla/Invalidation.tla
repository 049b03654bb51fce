---------------------------- MODULE Invalidation ----------------------------
(***************************************************************************)
(* invalidate (domain/invalidation.py): a breadth-first walk over the      *)
(* dependency rows, from a changed snapshot to whatever rests on it.       *)
(*                                                                         *)
(* An object is a (kind, id) pair.  The walk queries the rows node by node *)
(* while other transactions may commit new ones, so rows appear during it. *)
(***************************************************************************)
EXTENDS Naturals, Sequences, FiniteSets

CONSTANTS Objects,   \* every (kind, id) that a dependency row may name
          Kind,      \* the kind of each
          Rows,      \* the objects that have a row of their own
          Snapshots, \* the snapshots invalidate may be called with
          Possible,  \* the dependencies that may ever be added
          NoObject

Recognised == {"Claim", "GateAssessment", "FundingAssessment", "EvaluationCase"}
Cases == {o \in Objects : Kind[o] = "EvaluationCase"}
CaseState == {"RESEARCHING", "EVIDENCE_READY", "STALE"}

ASSUME InvalidationAssumption ==
    /\ IsFiniteSet(Objects)
    /\ Kind \in [Objects -> STRING]
    /\ Rows \subseteq Objects
    /\ Snapshots \subseteq {o \in Objects : Kind[o] = "SourceSnapshot"}
    /\ Possible \subseteq Objects \X Objects
    /\ NoObject \notin Objects

VARIABLES
    edges,      \* the rows of radar_evidence_dependencies
    stale,      \* the claims and assessments whose status is STALE
    research,   \* EvaluationCase.research_state
    source,     \* the snapshot of the last call, or NoObject
    toVisit,    \* to_visit
    visited,    \* visited
    unresolved, \* report.unresolved_dependencies
    before      \* what the database said when the last call began

vars == <<edges, stale, research, source, toVisit, visited, unresolved, before>>
walk == <<source, toVisit, visited, unresolved, before>>

Database == [edges : SUBSET Possible, stale : SUBSET (Objects \ Cases), research : [Cases -> CaseState]]

TypeOK ==
    /\ [edges |-> edges, stale |-> stale, research |-> research] \in Database
    /\ source \in Snapshots \cup {NoObject}
    /\ toVisit \in Seq(Objects)
    /\ visited \in SUBSET Objects
    /\ unresolved \in SUBSET Possible
    /\ before \in Database

Init ==
    /\ edges = {}
    /\ stale = {}
    /\ research \in [Cases -> CaseState]
    /\ source = NoObject
    /\ toVisit = <<>>
    /\ visited = {}
    /\ unresolved = {}
    /\ before = [edges |-> edges, stale |-> stale, research |-> research]

-----------------------------------------------------------------------------
\* add_dependency, in any transaction.
AddDependency(e) ==
    /\ edges' = edges \cup {e}
    /\ UNCHANGED <<stale, research, walk>>

\* Mutant: what an earlier call found is taken for visited in the next.
CallKeepingVisited(s) ==
    /\ toVisit = <<>>
    /\ source' = s
    /\ toVisit' = <<s>>
    /\ unresolved' = {}
    /\ before' = [edges |-> edges, stale |-> stale, research |-> research]
    /\ UNCHANGED <<edges, stale, research, visited>>

Call(s) ==
    /\ toVisit = <<>>
    /\ source' = s
    /\ toVisit' = <<s>>
    /\ visited' = {}
    /\ unresolved' = {}
    /\ before' = [edges |-> edges, stale |-> stale, research |-> research]
    /\ UNCHANGED <<edges, stale, research>>

\* The walk goes on to an object whose kind it knows and whose row exists.
Passable(o) == Kind[o] \in Recognised /\ o \in Rows

\* Mutant: the rows that name the object on either side.
Neighbours(o) == {d \in Objects : (<<o, d>> \in edges \/ <<d, o>> \in edges) /\ Passable(d)}

Dependents(o) == {d \in Objects : <<o, d>> \in edges /\ Passable(d)}

\* A query returns its rows in any order.
Orders(S) == {f \in [1 .. Cardinality(S) -> S] : \A d \in S : \E i \in 1 .. Cardinality(S) : f[i] = d}

\* Only a case that is EVIDENCE_READY may become STALE.
Staled(r, found) == [k \in Cases |-> IF k \in found /\ r[k] = "EVIDENCE_READY" THEN "STALE" ELSE r[k]]

Assessed(found) == found \ Cases

\* Mutant: the rows that are gone are reported, and not the kinds unknown.
RowsGone(o) == {e \in edges : e[1] = o /\ Kind[e[2]] \in Recognised /\ e[2] \notin Rows}

Stops(o) == {e \in edges : e[1] = o /\ Kind[e[2]] \notin Recognised}

Mark(o) ==
    /\ stale' = stale \cup Assessed(Dependents(o))
    /\ research' = Staled(research, Dependents(o))
    /\ unresolved' = unresolved \cup Stops(o)
    /\ visited' = visited \cup {o}

Skip ==
    /\ toVisit # <<>>
    /\ Head(toVisit) \in visited
    /\ toVisit' = Tail(toVisit)
    /\ UNCHANGED <<edges, stale, research, source, visited, unresolved, before>>

\* Mutant: what is found is marked, but not queued.
ExpandNoFurther ==
    /\ toVisit # <<>>
    /\ Head(toVisit) \notin visited
    /\ Mark(Head(toVisit))
    /\ toVisit' = Tail(toVisit)
    /\ UNCHANGED <<edges, source, before>>

\* Mutant: an object is expanded as often as it is found.
ExpandAgain ==
    /\ toVisit # <<>>
    /\ Mark(Head(toVisit))
    /\ \E order \in Orders(Dependents(Head(toVisit))) : toVisit' = Tail(toVisit) \o order
    /\ UNCHANGED <<edges, source, before>>

Expand ==
    /\ toVisit # <<>>
    /\ Head(toVisit) \notin visited
    /\ Mark(Head(toVisit))
    /\ \E order \in Orders(Dependents(Head(toVisit))) : toVisit' = Tail(toVisit) \o order
    /\ UNCHANGED <<edges, source, before>>

Next ==
    \/ \E e \in Possible : AddDependency(e)
    \/ \E s \in Snapshots : Call(s)
    \/ Skip
    \/ Expand

Spec == Init /\ [][Next]_vars

\* The loop runs on; nothing else is promised.
FairSpec == Spec /\ WF_vars(Skip \/ Expand)

-----------------------------------------------------------------------------
(* Properties.                                                             *)

Done == source # NoObject /\ toVisit = <<>>

\* S holds the source and, with an object, what the walk may go on to from it.
Closed(S, E) ==
    /\ source \in S
    /\ \A e \in E : e[1] \in S /\ Passable(e[2]) => e[2] \in S

\* o is in every such set, which is to say downstream of the source.
Downstream(o, E) == \A S \in SUBSET Objects : Closed(S, E) => o \in S

Marked(o) == IF o \in Cases THEN research[o] # "EVIDENCE_READY" ELSE o \in stale

Changed(o) == IF o \in Cases THEN research[o] # before.research[o] ELSE o \in stale \ before.stale

\* ORACLE-020, one half: when invalidate returns, no object downstream of the
\* snapshot, by the rows there were when it was called, still passes for fresh.
DependentsGoStale ==
    Done => \A o \in Objects : o # source /\ Downstream(o, before.edges) => Marked(o)

\* ORACLE-020, the other half: what a call changed is downstream of its snapshot;
\* unrelated reviewed state survives.
OnlyDependentsGoStale == \A o \in Objects : Changed(o) => Downstream(o, edges)

\* DEC-042: where the walk had to stop, at a kind it does not know, is reported.
StopsAreReported ==
    Done => \A e \in before.edges :
                Downstream(e[1], before.edges) /\ Kind[e[2]] \notin Recognised => e \in unresolved

\* A call returns, on graphs with cycles and while rows are added.
WalkEnds == toVisit # <<>> ~> toVisit = <<>>
=============================================================================
