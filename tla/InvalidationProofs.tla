------------------------- MODULE InvalidationProofs -------------------------
(***************************************************************************)
(* Proofs about Invalidation for any dependency graph, with or without     *)
(* cycles, and any rows that are added during a walk.                      *)
(***************************************************************************)
EXTENDS Invalidation, FiniteSetTheorems, TLAPS

-----------------------------------------------------------------------------
(* The queue.                                                              *)

Elements(s) == {s[i] : i \in DOMAIN s}

LEMMA ElementsOfTail ==
  ASSUME NEW S, NEW s \in Seq(S), s # <<>>
  PROVE  /\ Head(s) \in S
         /\ Tail(s) \in Seq(S)
         /\ Elements(s) = {Head(s)} \cup Elements(Tail(s))
  <1>1. Head(s) = s[1] /\ Len(s) \in Nat /\ Len(s) >= 1 /\ DOMAIN s = 1 .. Len(s)
    OBVIOUS
  <1>2. Tail(s) \in Seq(S) /\ DOMAIN Tail(s) = 1 .. (Len(s) - 1)
    OBVIOUS
  <1>3. \A i \in 1 .. (Len(s) - 1) : Tail(s)[i] = s[i + 1]
    OBVIOUS
  <1>4. \A i \in 2 .. Len(s) : i - 1 \in 1 .. (Len(s) - 1) /\ s[i] = Tail(s)[i - 1]
    BY <1>1, <1>3
  <1>5. ASSUME NEW x \in Elements(s) PROVE x \in {Head(s)} \cup Elements(Tail(s))
    <2>1. PICK i \in 1 .. Len(s) : x = s[i]
      BY <1>1, <1>5 DEF Elements
    <2>2. CASE i = 1
      BY <1>1, <2>1, <2>2
    <2>3. CASE i # 1
      <3>1. i - 1 \in DOMAIN Tail(s) /\ x = Tail(s)[i - 1]
        BY <1>1, <1>2, <1>4, <2>1, <2>3
      <3> QED
        BY <3>1 DEF Elements
    <2> QED
      BY <2>2, <2>3
  <1>6. ASSUME NEW x \in Elements(Tail(s)) PROVE x \in Elements(s)
    <2>1. PICK i \in 1 .. (Len(s) - 1) : x = Tail(s)[i]
      BY <1>2, <1>6 DEF Elements
    <2>2. i + 1 \in DOMAIN s /\ x = s[i + 1]
      BY <1>1, <1>3, <2>1
    <2> QED
      BY <2>2 DEF Elements
  <1>7. Head(s) \in Elements(s) /\ Head(s) \in S
    <2>1. 1 \in DOMAIN s
      BY <1>1
    <2> QED
      BY <1>1, <2>1 DEF Elements
  <1> QED
    BY <1>2, <1>5, <1>6, <1>7

LEMMA ElementsOfConcat ==
  ASSUME NEW S, NEW s \in Seq(S), NEW t \in Seq(S)
  PROVE  s \o t \in Seq(S) /\ Elements(s \o t) = Elements(s) \cup Elements(t)
  <1>1. s \o t \in Seq(S) /\ DOMAIN (s \o t) = 1 .. (Len(s) + Len(t))
    OBVIOUS
  <1>2. Len(s) \in Nat /\ Len(t) \in Nat /\ DOMAIN s = 1 .. Len(s) /\ DOMAIN t = 1 .. Len(t)
    OBVIOUS
  <1>3. \A i \in 1 .. Len(s) : i \in DOMAIN (s \o t) /\ (s \o t)[i] = s[i]
    BY <1>1, <1>2
  <1>4. \A i \in 1 .. Len(t) : Len(s) + i \in DOMAIN (s \o t) /\ (s \o t)[Len(s) + i] = t[i]
    BY <1>1, <1>2
  <1>5. \A i \in DOMAIN (s \o t) : i \in 1 .. Len(s) \/ (i - Len(s) \in 1 .. Len(t) /\ i = Len(s) + (i - Len(s)))
    BY <1>1, <1>2
  <1>6. ASSUME NEW x \in Elements(s \o t) PROVE x \in Elements(s) \cup Elements(t)
    <2>1. PICK i \in DOMAIN (s \o t) : x = (s \o t)[i]
      BY <1>6 DEF Elements
    <2>2. CASE i \in 1 .. Len(s)
      BY <1>2, <1>3, <2>1, <2>2 DEF Elements
    <2>3. CASE i - Len(s) \in 1 .. Len(t) /\ i = Len(s) + (i - Len(s))
      <3>1. x = t[i - Len(s)]
        BY <1>4, <2>1, <2>3
      <3> QED
        BY <1>2, <2>3, <3>1 DEF Elements
    <2> QED
      BY <1>5, <2>2, <2>3
  <1>7. Elements(s) \subseteq Elements(s \o t)
    BY <1>2, <1>3 DEF Elements
  <1>8. Elements(t) \subseteq Elements(s \o t)
    BY <1>2, <1>4 DEF Elements
  <1> QED
    BY <1>1, <1>6, <1>7, <1>8

\* A query result is a sequence of exactly the objects asked for.
LEMMA ElementsOfOrder ==
  ASSUME NEW D \in SUBSET Objects, NEW order \in Orders(D)
  PROVE  order \in Seq(Objects) /\ Elements(order) = D
  <1>1. Cardinality(D) \in Nat
    BY InvalidationAssumption, FS_Subset, FS_CardinalityType
  <1>2. order \in [1 .. Cardinality(D) -> D] /\ \A d \in D : \E i \in 1 .. Cardinality(D) : order[i] = d
    BY DEF Orders
  <1>3. order \in Seq(D)
    BY <1>1, <1>2
  <1>4. Elements(order) = D
    BY <1>2 DEF Elements
  <1> QED
    BY <1>3, <1>4

-----------------------------------------------------------------------------
(* Type correctness.                                                       *)

LEMMA DependentsInObjects ==
  ASSUME NEW o
  PROVE  Dependents(o) \in SUBSET Objects
  BY DEF Dependents

LEMMA StaledType ==
  ASSUME NEW r \in [Cases -> CaseState], NEW found
  PROVE  Staled(r, found) \in [Cases -> CaseState]
  BY DEF Staled, CaseState

\* What the database says, one variable at a time.
LEMMA DatabaseParts ==
  ASSUME NEW E, NEW S, NEW r
  PROVE  [edges |-> E, stale |-> S, research |-> r] \in Database
         <=> E \in SUBSET Possible /\ S \in SUBSET (Objects \ Cases) /\ r \in [Cases -> CaseState]
  BY DEF Database

LEMMA InitTypeOK == Init => TypeOK
  BY DatabaseParts DEF Init, TypeOK

LEMMA CallTypeOK ==
  ASSUME TypeOK, NEW s \in Snapshots, Call(s)
  PROVE  TypeOK'
  <1>1. s \in Objects
    BY InvalidationAssumption
  <1>2. toVisit' \in Seq(Objects)
    BY <1>1 DEF Call
  <1>3. before' \in Database /\ [edges |-> edges', stale |-> stale', research |-> research'] \in Database
    BY DEF Call, TypeOK
  <1> QED
    BY <1>2, <1>3 DEF Call, TypeOK

\* What Expand does to the queue, in every order of the rows.
LEMMA ExpandQueue ==
  ASSUME TypeOK, Expand
  PROVE  /\ Head(toVisit) \in Objects
         /\ toVisit' \in Seq(Objects)
         /\ Elements(toVisit') \cup {Head(toVisit)} = Elements(toVisit) \cup Dependents(Head(toVisit))
  <1> DEFINE o == Head(toVisit)
  <1>1. o \in Objects /\ Tail(toVisit) \in Seq(Objects) /\ Elements(toVisit) = {o} \cup Elements(Tail(toVisit))
    BY ElementsOfTail DEF TypeOK, Expand
  <1>2. PICK order \in Orders(Dependents(o)) : toVisit' = Tail(toVisit) \o order
    BY DEF Expand
  <1>3. order \in Seq(Objects) /\ Elements(order) = Dependents(o)
    <2>1. Dependents(o) \in SUBSET Objects
      BY DependentsInObjects
    <2>2. ASSUME NEW D \in SUBSET Objects, NEW t \in Orders(D)
          PROVE  t \in Seq(Objects) /\ Elements(t) = D
      BY <2>2, ElementsOfOrder
    <2> QED
      BY <1>2, <2>1, <2>2
  <1>4. toVisit' \in Seq(Objects) /\ Elements(toVisit') = Elements(Tail(toVisit)) \cup Dependents(o)
    <2>1. ASSUME NEW s \in Seq(Objects), NEW t \in Seq(Objects)
          PROVE  s \o t \in Seq(Objects) /\ Elements(s \o t) = Elements(s) \cup Elements(t)
      BY <2>1, ElementsOfConcat
    <2> HIDE DEF o
    <2> QED
      BY <1>1, <1>2, <1>3, <2>1
  <1> QED
    BY <1>1, <1>4

LEMMA ExpandTypeOK ==
  ASSUME TypeOK, Expand
  PROVE  TypeOK'
  <1> DEFINE o == Head(toVisit)
  <1>1. o \in Objects /\ toVisit' \in Seq(Objects)
    BY ExpandQueue
  <1>2. edges \in SUBSET Possible /\ stale \in SUBSET (Objects \ Cases) /\ research \in [Cases -> CaseState]
    BY DatabaseParts DEF TypeOK
  <1>3. stale' \in SUBSET (Objects \ Cases)
    BY <1>2, DependentsInObjects DEF Expand, Mark, Assessed
  <1>4. research' \in [Cases -> CaseState]
    BY <1>2, StaledType DEF Expand, Mark
  <1>5. [edges |-> edges', stale |-> stale', research |-> research'] \in Database
    BY <1>2, <1>3, <1>4, DatabaseParts DEF Expand
  <1>6. visited' \in SUBSET Objects /\ unresolved' \in SUBSET Possible
    BY <1>1, <1>2 DEF Expand, Mark, Stops, TypeOK
  <1> QED
    BY <1>1, <1>5, <1>6 DEF Expand, TypeOK

LEMMA NextTypeOK == TypeOK /\ [Next]_vars => TypeOK'
  <1> SUFFICES ASSUME TypeOK, [Next]_vars PROVE TypeOK'
    OBVIOUS
  <1>1. CASE UNCHANGED vars
    BY <1>1 DEF vars, TypeOK
  <1>2. ASSUME NEW e \in Possible, AddDependency(e) PROVE TypeOK'
    <2>1. [edges |-> edges', stale |-> stale', research |-> research'] \in Database
      BY <1>2, DatabaseParts DEF AddDependency, TypeOK
    <2> QED
      BY <1>2, <2>1 DEF AddDependency, walk, TypeOK
  <1>3. ASSUME NEW s \in Snapshots, Call(s) PROVE TypeOK'
    BY <1>3, CallTypeOK
  <1>4. CASE Skip
    <2>1. toVisit' \in Seq(Objects)
      BY <1>4, ElementsOfTail DEF Skip, TypeOK
    <2> QED
      BY <1>4, <2>1 DEF Skip, TypeOK
  <1>5. CASE Expand
    BY <1>5, ExpandTypeOK
  <1> QED
    BY <1>1, <1>2, <1>3, <1>4, <1>5 DEF Next

\* Every variable keeps its type; a case is never marked as an assessment.
THEOREM TypeCorrect == Spec => []TypeOK
  BY InitTypeOK, NextTypeOK, PTL DEF Spec

-----------------------------------------------------------------------------
(* Downstream.                                                             *)

\* More rows close fewer sets.
LEMMA DownstreamMonotone ==
  ASSUME NEW E, NEW F, E \subseteq F, NEW o, Downstream(o, E)
  PROVE  Downstream(o, F)
  <1>1. \A S : Closed(S, F) => Closed(S, E)
    BY DEF Closed
  <1> QED
    BY <1>1 DEF Downstream

LEMMA SourceIsDownstream ==
  ASSUME NEW E
  PROVE  Downstream(source, E)
  BY DEF Downstream, Closed

LEMMA DependentIsDownstream ==
  ASSUME NEW E, NEW o, NEW d, Downstream(o, E), <<o, d>> \in E, Passable(d)
  PROVE  Downstream(d, E)
  <1> SUFFICES ASSUME NEW S \in SUBSET Objects, Closed(S, E) PROVE d \in S
    BY DEF Downstream
  <1>1. o \in S
    BY DEF Downstream
  <1>2. \A e \in E : e[1] \in S /\ Passable(e[2]) => e[2] \in S
    BY DEF Closed
  <1>3. <<o, d>>[1] = o /\ <<o, d>>[2] = d
    OBVIOUS
  <1> QED
    BY <1>1, <1>2, <1>3

-----------------------------------------------------------------------------
(* The loop invariant.                                                     *)

\* What the walk has found: expanded, or waiting to be.
Found == visited \cup Elements(toVisit)

\* Nothing was found without being downstream, and nothing changed without
\* being found.
Sound ==
    /\ source = NoObject => toVisit = <<>> /\ visited = {}
    /\ \A o \in Found : Downstream(o, edges)
    /\ \A o \in Objects : Changed(o) => o \in Found

\* What was found is marked, and of what was expanded everything that rested
\* on it is found, by the rows of the time of the call.
Complete ==
    source # NoObject =>
        /\ before.edges \subseteq edges
        /\ source \in Found
        /\ \A o \in Found : o # source => Marked(o)
        /\ \A e \in before.edges : e[1] \in visited /\ Passable(e[2]) => e[2] \in Found
        /\ \A e \in before.edges : e[1] \in visited /\ Kind[e[2]] \notin Recognised => e \in unresolved

LoopInv == TypeOK /\ Sound /\ Complete

LEMMA InitLoop == Init => LoopInv
  <1> SUFFICES ASSUME Init PROVE LoopInv
    OBVIOUS
  <1>1. TypeOK
    BY InitTypeOK
  <1>2. Elements(toVisit) = {}
    BY DEF Init, Elements
  <1>3. before.edges = edges /\ before.stale = stale /\ before.research = research
    BY DEF Init
  <1> QED
    BY <1>1, <1>2, <1>3 DEF Init, LoopInv, Sound, Complete, Found, Changed

LEMMA AddDependencyLoop ==
  ASSUME LoopInv, NEW e \in Possible, AddDependency(e), TypeOK'
  PROVE  LoopInv'
  <1>1. edges \subseteq edges' /\ Found' = Found
    BY DEF AddDependency, walk, Found, Elements
  <1>2. \A o : Marked(o)' <=> Marked(o)
    BY DEF AddDependency, walk, Marked
  <1>3. \A o : Changed(o)' <=> Changed(o)
    BY DEF AddDependency, walk, Changed
  <1>4. \A o \in Found : Downstream(o, edges')
    BY DownstreamMonotone, <1>1 DEF LoopInv, Sound
  <1>5. \A o \in Found : (Downstream(o, edges))'
    BY <1>4 DEF AddDependency, walk, Downstream, Closed, Passable
  <1>6. Sound'
    BY <1>1, <1>3, <1>5 DEF LoopInv, Sound, AddDependency, walk
  <1>7. Complete'
    BY <1>1, <1>2 DEF LoopInv, Complete, AddDependency, walk, Passable
  <1> QED
    BY <1>6, <1>7 DEF LoopInv

LEMMA CallLoop ==
  ASSUME LoopInv, NEW s \in Snapshots, Call(s), TypeOK'
  PROVE  LoopInv'
  <1>1. Elements(toVisit') = {s} /\ visited' = {} /\ source' = s
    BY DEF Call, Elements
  <1>2. before'.edges = edges' /\ before'.stale = stale' /\ before'.research = research'
    BY DEF Call
  <1>3. s # NoObject
    BY InvalidationAssumption
  <1>4. Found' = {source'}
    BY <1>1 DEF Found, Elements
  <1>5. \A o : Changed(o)' => FALSE
    BY <1>2 DEF Changed
  <1>6. Sound'
    <2>1. \A o \in Found' : (Downstream(o, edges))'
      BY <1>4 DEF Downstream, Closed
    <2> QED
      BY <1>1, <1>3, <1>5, <2>1 DEF Sound
  <1>7. Complete'
    BY <1>1, <1>2, <1>4 DEF Complete
  <1> QED
    BY <1>6, <1>7 DEF LoopInv

LEMMA SkipLoop ==
  ASSUME LoopInv, Skip, TypeOK'
  PROVE  LoopInv'
  <1>1. Elements(toVisit) = {Head(toVisit)} \cup Elements(Tail(toVisit))
    BY ElementsOfTail DEF LoopInv, TypeOK, Skip
  <1>2. Found' = Found
    BY <1>1 DEF Skip, Found, Elements
  <1>3. source # NoObject
    BY DEF LoopInv, Sound, Skip
  <1>4. Sound'
    BY <1>2, <1>3 DEF LoopInv, Sound, Skip, Changed, Downstream, Closed, Passable
  <1>5. Complete'
    BY <1>2 DEF LoopInv, Complete, Skip, Marked, Passable
  <1> QED
    BY <1>4, <1>5 DEF LoopInv

LEMMA ExpandSound ==
  ASSUME LoopInv, Expand
  PROVE  Sound'
  <1> DEFINE o == Head(toVisit)
  <1>1. o \in Objects /\ o \in Found
    BY ExpandQueue, ElementsOfTail DEF LoopInv, TypeOK, Expand, Found
  <1>2. Elements(toVisit') \cup {o} = Elements(toVisit) \cup Dependents(o)
    BY ExpandQueue DEF LoopInv
  <1>3. Found' = Found \cup Dependents(o)
    <2>1. visited' = visited \cup {o}
      BY DEF Expand, Mark
    <2> QED
      BY <1>2, <2>1 DEF Found, Elements
  <1>4. source # NoObject /\ source' = source /\ edges' = edges
    BY DEF LoopInv, Sound, Expand
  <1>5. \A d \in Found' : Downstream(d, edges)
    <2>1. \A d \in Dependents(o) : <<o, d>> \in edges /\ Passable(d)
      BY DEF Dependents
    <2>2. Downstream(o, edges)
      BY <1>1 DEF LoopInv, Sound
    <2>3. \A d \in Dependents(o) : Downstream(d, edges)
      BY <2>1, <2>2, DependentIsDownstream
    <2> QED
      BY <1>3, <2>3 DEF LoopInv, Sound
  <1>6. \A d \in Found' : Downstream(d, edges)'
    BY <1>4, <1>5 DEF Downstream, Closed, Passable
  <1>7. ASSUME NEW d \in Objects, Changed(d)' PROVE d \in Found'
    <2>1. before' = before
      BY DEF Expand
    <2>2. CASE d \in Cases
      <3>1. research'[d] # before.research[d]
        BY <1>7, <2>1, <2>2 DEF Changed
      <3>2. CASE research'[d] = research[d]
        BY <1>3, <2>2, <3>1, <3>2 DEF Changed, LoopInv, Sound
      <3>3. CASE research'[d] # research[d]
        <4>1. d \in Dependents(o)
          BY <2>2, <3>3 DEF Expand, Mark, Staled
        <4> QED
          BY <1>3, <4>1
      <3> QED
        BY <3>2, <3>3
    <2>3. CASE d \notin Cases
      <3>1. d \in stale' \ before.stale
        BY <1>7, <2>1, <2>3 DEF Changed
      <3>2. CASE d \in stale
        BY <1>3, <2>3, <3>1, <3>2 DEF Changed, LoopInv, Sound
      <3>3. CASE d \notin stale
        <4>1. d \in Dependents(o)
          BY <3>1, <3>3 DEF Expand, Mark, Assessed
        <4> QED
          BY <1>3, <4>1
      <3> QED
        BY <3>2, <3>3
    <2> QED
      BY <2>2, <2>3
  <1> QED
    BY <1>4, <1>6, <1>7 DEF Sound

LEMMA ExpandComplete ==
  ASSUME LoopInv, Expand
  PROVE  Complete'
  <1> DEFINE o == Head(toVisit)
  <1>1. o \in Objects /\ o \in Found /\ Dependents(o) \in SUBSET Objects
    BY ExpandQueue, ElementsOfTail, DependentsInObjects DEF LoopInv, TypeOK, Expand, Found
  <1>2. visited' = visited \cup {o}
    BY DEF Expand, Mark
  <1>3. Found' = Found \cup Dependents(o)
    <2>1. Elements(toVisit') \cup {o} = Elements(toVisit) \cup Dependents(o)
      BY ExpandQueue DEF LoopInv
    <2> QED
      BY <1>2, <2>1 DEF Found, Elements
  <1>4. source # NoObject /\ source' = source /\ edges' = edges /\ before' = before
    BY DEF LoopInv, Sound, Expand
  <1>5. \A d \in Found' : d # source => Marked(d)'
    <2>1. \A d \in Cases : research'[d] = IF d \in Dependents(o) /\ research[d] = "EVIDENCE_READY"
                                           THEN "STALE" ELSE research[d]
      BY DEF Expand, Mark, Staled
    <2>2. stale' = stale \cup (Dependents(o) \ Cases)
      BY DEF Expand, Mark, Assessed
    <2>3. \A d \in Dependents(o) : Marked(d)'
      BY <2>1, <2>2 DEF Marked
    <2>4. \A d \in Found : d # source => Marked(d)'
      BY <1>4, <2>1, <2>2 DEF Marked, LoopInv, Complete
    <2> QED
      BY <1>3, <2>3, <2>4
  <1>6. ASSUME NEW e \in before.edges, e[1] \in visited' PROVE Passable(e[2]) => e[2] \in Found'
    <2>1. CASE e[1] \in visited
      BY <1>3, <1>4, <1>6, <2>1 DEF LoopInv, Complete
    <2>2. CASE e[1] = o
      <3>1. e \in edges /\ e[2] \in Objects /\ e = <<o, e[2]>>
        BY <1>4, <2>2, InvalidationAssumption DEF LoopInv, Complete, TypeOK, Database
      <3> QED
        BY <1>3, <3>1 DEF Dependents
    <2> QED
      BY <1>2, <1>6, <2>1, <2>2
  <1>7. ASSUME NEW e \in before.edges, e[1] \in visited', Kind[e[2]] \notin Recognised PROVE e \in unresolved'
    <2>1. unresolved' = unresolved \cup Stops(o)
      BY DEF Expand, Mark
    <2>2. CASE e[1] \in visited
      BY <1>4, <1>7, <2>1, <2>2 DEF LoopInv, Complete
    <2>3. CASE e[1] = o
      <3>1. e \in edges
        BY <1>4 DEF LoopInv, Complete
      <3> QED
        BY <1>7, <2>1, <2>3, <3>1 DEF Stops
    <2> QED
      BY <1>2, <1>7, <2>2, <2>3
  <1>8. \A x : Passable(x)' <=> Passable(x)
    BY DEF Passable
  <1> QED
    BY <1>3, <1>4, <1>5, <1>6, <1>7, <1>8 DEF Complete, LoopInv

LEMMA NextLoop == LoopInv /\ [Next]_vars => LoopInv'
  <1> SUFFICES ASSUME LoopInv, [Next]_vars PROVE LoopInv'
    OBVIOUS
  <1>1. TypeOK'
    BY NextTypeOK DEF LoopInv
  <1>2. CASE UNCHANGED vars
    <2>1. Found' = Found /\ \A o : (Marked(o)' <=> Marked(o)) /\ (Changed(o)' <=> Changed(o))
      BY <1>2 DEF vars, Found, Elements, Marked, Changed
    <2>2. \A o : (Downstream(o, edges))' <=> Downstream(o, edges)
      BY <1>2 DEF vars, Downstream, Closed, Passable
    <2>3. Sound'
      BY <1>2, <2>1, <2>2 DEF vars, LoopInv, Sound
    <2>4. Complete'
      BY <1>2, <2>1 DEF vars, LoopInv, Complete, Passable
    <2> QED
      BY <1>1, <2>3, <2>4 DEF LoopInv
  <1>3. ASSUME NEW e \in Possible, AddDependency(e) PROVE LoopInv'
    BY <1>1, <1>3, AddDependencyLoop
  <1>4. ASSUME NEW s \in Snapshots, Call(s) PROVE LoopInv'
    BY <1>1, <1>4, CallLoop
  <1>5. CASE Skip
    BY <1>1, <1>5, SkipLoop
  <1>6. CASE Expand
    BY <1>1, <1>6, ExpandSound, ExpandComplete DEF LoopInv
  <1> QED
    BY <1>2, <1>3, <1>4, <1>5, <1>6 DEF Next

LEMMA LoopAlways == Spec => []LoopInv
  BY InitLoop, NextLoop, PTL DEF Spec

-----------------------------------------------------------------------------
(* When the queue is empty, what was found is closed.                      *)

LEMMA DoneIsClosed ==
  ASSUME LoopInv, Done
  PROVE  Found = visited /\ visited \in SUBSET Objects /\ Closed(visited, before.edges)
  <1>1. Found = visited
    BY DEF Done, Found, Elements
  <1>2. visited \in SUBSET Objects
    BY DEF LoopInv, TypeOK
  <1>3. Closed(visited, before.edges)
    BY <1>1 DEF Done, LoopInv, Complete, Closed
  <1> QED
    BY <1>1, <1>2, <1>3

\* No object downstream of the snapshot is left unmarked when the walk is over.
THEOREM DependentsAlwaysGoStale == Spec => []DependentsGoStale
  <1>1. LoopInv => DependentsGoStale
    <2> SUFFICES ASSUME LoopInv, Done, NEW o \in Objects, o # source, Downstream(o, before.edges)
                 PROVE  Marked(o)
      BY DEF DependentsGoStale
    <2>1. o \in Found
      BY DoneIsClosed DEF Downstream
    <2> QED
      BY <2>1 DEF LoopInv, Complete, Done
  <1> QED
    BY <1>1, LoopAlways, PTL

\* And nothing else is touched, whatever the graph.
THEOREM OnlyDependentsAlways == Spec => []OnlyDependentsGoStale
  <1>1. LoopInv => OnlyDependentsGoStale
    BY DEF LoopInv, Sound, OnlyDependentsGoStale
  <1> QED
    BY <1>1, LoopAlways, PTL

\* Every dependency at which the walk stopped short is in the report.
THEOREM StopsAlwaysReported == Spec => []StopsAreReported
  <1>1. LoopInv => StopsAreReported
    <2> SUFFICES ASSUME LoopInv, Done, NEW e \in before.edges,
                        Downstream(e[1], before.edges), Kind[e[2]] \notin Recognised
                 PROVE  e \in unresolved
      BY DEF StopsAreReported
    <2>1. e[1] \in visited
      BY DoneIsClosed DEF Downstream
    <2> QED
      BY <2>1 DEF LoopInv, Complete, Done
  <1> QED
    BY <1>1, LoopAlways, PTL
=============================================================================
