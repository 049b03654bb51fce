------------------------------ MODULE StoreProofs ------------------------------
(* Proofs about the parts of module Stores: the research workflow, for any    *)
(* protocol, any number of nodes and any answers of the provider; the owner's *)
(* profile and routes, for any seed files and requests; the schema, for any   *)
(* interleaving of migrations with processes that start.                      *)
EXTENDS Stores, LoopProofs, FiniteSetTheorems

-----------------------------------------------------------------------------
(* Type correctness.                                                       *)

LEMMA InitTypeOK == Init => TypeOK
  <1> SUFFICES ASSUME Init PROVE TypeOK
    OBVIOUS
  <1>1. Nothing \in Coverage
    BY DEF Nothing, Coverage
  <1>2. answers \in Seq(Answers) /\ Len(answers) <= LastNode
    BY GraphAssumption DEF Init
  <1> QED
    BY <1>1, <1>2 DEF Init, TypeOK

LEMMA MergeStatusType ==
  ASSUME NEW old \in CoverageStatus \cup {"absent"}, NEW new \in CoverageStatus \cup {"absent"}
  PROVE  MergeStatus(old, new) \in CoverageStatus \cup {"absent"}
  BY DEF MergeStatus

\* What AskNode does, in one of two ways.
Took(output) ==
    /\ answers' = Append(answers, output)
    /\ IF Acceptable(output) THEN Merge(output) ELSE Reject(output)

LEMMA AskTypeOK ==
  ASSUME TypeOK, AskNode
  PROVE  TypeOK'
  <1>1. PICK output \in Answers : Took(output)
    BY DEF AskNode, Took
  <1>2. output \in NodeOutput
    BY <1>1, GraphAssumption
  <1>3. answers' \in Seq(Answers) /\ Len(answers') = Len(answers) + 1 /\ Len(answers) + 1 \in 1 .. LastNode
    BY <1>1, GraphAssumption DEF AskNode, NodesLeft, Took, TypeOK
  <1>4. claims' \in SUBSET ((1 .. LastNode) \X Claim)
    BY <1>1, <1>2, <1>3 DEF Took, Merge, Reject, NodeOutput, TypeOK
  <1>5. coverage' \in Coverage
    BY <1>1, <1>2, MergeStatusType DEF Took, Merge, Reject, NodeOutput, Coverage, TypeOK
  <1> QED
    BY <1>3, <1>4, <1>5, GraphAssumption DEF AskNode, NodesLeft, TypeOK

LEMMA NextTypeOK == TypeOK /\ [Next]_vars => TypeOK'
  <1> SUFFICES ASSUME TypeOK, [Next]_vars PROVE TypeOK'
    OBVIOUS
  <1>1. CASE UNCHANGED vars
    BY <1>1 DEF vars, TypeOK
  <1>2. CASE NodeRaises
    BY <1>2 DEF NodeRaises, TypeOK
  <1>3. CASE ComputeReadiness
    <2>1. ready' \in BOOLEAN
      BY <1>3 DEF ComputeReadiness
    <2> QED
      BY <1>3, <2>1 DEF ComputeReadiness, TypeOK
  <1>4. CASE PersistResult
    BY <1>4 DEF PersistResult, CoverageRows, Coverage, CoverageStatus, TypeOK
  <1> QED
    BY <1>1, <1>2, <1>3, <1>4, AskTypeOK DEF Next

\* Every variable keeps its type; no more nodes are asked than there are.
THEOREM TypeCorrect == Spec => []TypeOK
  BY InitTypeOK, NextTypeOK, PTL DEF Spec

-----------------------------------------------------------------------------
(* An answer more: what it adds to the accepted ones.                      *)

LEMMA AcceptedAppend ==
  ASSUME TypeOK, NEW output \in Answers, answers' = Append(answers, output)
  PROVE  /\ \A n \in Accepted : answers'[n] = answers[n] /\ n \in 1 .. Len(answers)
         /\ answers'[Len(answers) + 1] = output
         /\ Accepted' = IF Acceptable(output) THEN Accepted \cup {Len(answers) + 1} ELSE Accepted
  <1>1. Len(answers) \in Nat /\ DOMAIN answers = 1 .. Len(answers) /\ DOMAIN answers' = 1 .. Len(answers) + 1
    BY DEF TypeOK
  <1>2. answers'[Len(answers) + 1] = output
    BY DEF TypeOK
  <1>3. \A n \in 1 .. Len(answers) : answers'[n] = answers[n]
    BY DEF TypeOK
  <1>4. Accepted = {n \in 1 .. Len(answers) : Acceptable(answers[n])}
    BY <1>1 DEF Accepted
  <1>5. Accepted' = {n \in 1 .. Len(answers) + 1 : Acceptable(answers'[n])}
    BY <1>1 DEF Accepted, Acceptable
  <1> QED
    BY <1>1, <1>2, <1>3, <1>4, <1>5

-----------------------------------------------------------------------------
(* What is kept is supported.                                              *)

LEMMA NextSupported == TypeOK /\ ClaimsAreSupported /\ [Next]_vars => ClaimsAreSupported'
  <1> SUFFICES ASSUME TypeOK, ClaimsAreSupported, [Next]_vars PROVE ClaimsAreSupported'
    OBVIOUS
  <1>1. CASE UNCHANGED <<answers, claims, saved>>
    BY <1>1 DEF ClaimsAreSupported, Accepted
  <1>2. CASE PersistResult
    BY <1>2 DEF PersistResult, ClaimsAreSupported, Accepted
  <1>3. CASE AskNode
    <2>1. PICK output \in Answers : Took(output)
      BY <1>3 DEF AskNode, Took
    <2>2. saved' = saved
      BY <1>3 DEF AskNode
    <2>3. /\ \A n \in Accepted : answers'[n] = answers[n]
          /\ answers'[Len(answers) + 1] = output
          /\ Accepted' = IF Acceptable(output) THEN Accepted \cup {Len(answers) + 1} ELSE Accepted
      BY <2>1, AcceptedAppend DEF Took
    <2>4. ASSUME NEW p \in claims \cup saved
          PROVE  /\ p[1] \in Accepted' /\ p[2] \in answers'[p[1]].claims
                 /\ Consequential(p[2]) => p[2].cites # {} /\ p[2].cites \subseteq Bound
      BY <2>3, <2>4 DEF ClaimsAreSupported
    <2>5. ASSUME Acceptable(output), NEW c \in output.claims
          PROVE  Consequential(c) => c.cites # {} /\ c.cites \subseteq Bound
      BY <2>5 DEF Acceptable, Supported
    <2>6. CASE Acceptable(output)
      <3>1. claims' = claims \cup {<<Len(answers) + 1, c>> : c \in output.claims}
        BY <2>1, <2>6 DEF Took, Merge
      <3>2. ASSUME NEW p \in claims' \cup saved'
            PROVE  /\ p[1] \in Accepted' /\ p[2] \in answers'[p[1]].claims
                   /\ Consequential(p[2]) => p[2].cites # {} /\ p[2].cites \subseteq Bound
        <4>1. CASE p \in claims \cup saved
          BY <2>4, <4>1
        <4>2. CASE \E c \in output.claims : p = <<Len(answers) + 1, c>>
          BY <2>3, <2>5, <2>6, <4>2
        <4> QED
          BY <2>2, <3>1, <3>2, <4>1, <4>2
      <3> QED
        BY <3>2 DEF ClaimsAreSupported
    <2>7. CASE ~Acceptable(output)
      BY <2>1, <2>2, <2>4, <2>7 DEF Took, Reject, ClaimsAreSupported
    <2> QED
      BY <2>6, <2>7
  <1> QED
    BY <1>1, <1>2, <1>3 DEF Next, vars, NodeRaises, ComputeReadiness

\* No claim is kept that an accepted answer did not make, and no consequential
\* one that does not cite evidence bound to the run.
THEOREM ClaimsAlwaysSupported == Spec => []ClaimsAreSupported
  <1>1. Init => ClaimsAreSupported
    BY DEF Init, ClaimsAreSupported
  <1> QED
    BY <1>1, NextSupported, TypeCorrect, PTL DEF Spec

-----------------------------------------------------------------------------
(* Coverage.                                                               *)

\* What is said about a class after one more answer.
LEMMA SayingAppend ==
  ASSUME TypeOK, NEW output \in Answers, answers' = Append(answers, output), NEW c \in Classes, NEW S
  PROVE  Saying(c, S)' = IF Acceptable(output) /\ output.coverage[c] \in S
                         THEN Saying(c, S) \cup {Len(answers) + 1} ELSE Saying(c, S)
  BY AcceptedAppend DEF Saying

LEMMA SpeakersAppend ==
  ASSUME TypeOK, NEW output \in Answers, answers' = Append(answers, output), NEW c \in Classes
  PROVE  Speakers(c)' = IF Acceptable(output) /\ output.coverage[c] # "absent"
                        THEN Speakers(c) \cup {Len(answers) + 1} ELSE Speakers(c)
  BY AcceptedAppend DEF Speakers

LEMMA RejectedKeepsWord ==
  ASSUME TypeOK, NEW output \in Answers, answers' = Append(answers, output), ~Acceptable(output),
         NEW c \in Classes, NEW s, LastWord(c, s)
  PROVE  LastWord(c, s)'
  <1>1. \A S : Saying(c, S)' = Saying(c, S)
    BY SayingAppend
  <1>2. Speakers(c)' = Speakers(c)
    BY SpeakersAppend
  <1>3. \A n \in Saying(c, {"SEARCHED_FOUND", "BLOCKED"}) : answers'[n] = answers[n]
    BY AcceptedAppend DEF Saying
  <1>4. Decisive(c)' = Decisive(c)
    BY <1>1 DEF Decisive
  <1> QED
    BY <1>1, <1>2, <1>3, <1>4 DEF LastWord, Decisive

LEMMA AcceptedMergesWord ==
  ASSUME TypeOK, NEW output \in Answers, answers' = Append(answers, output), Acceptable(output),
         NEW c \in Classes, NEW s, LastWord(c, s)
  PROVE  LastWord(c, MergeStatus(s, output.coverage[c]))'
  <1> DEFINE next == Len(answers) + 1
             said == output.coverage[c]
             hard == {"SEARCHED_FOUND", "BLOCKED"}
  <1>1. said \in CoverageStatus \cup {"absent"}
    BY GraphAssumption DEF NodeOutput, Coverage
  <1>2. \A S : Saying(c, S)' = IF said \in S THEN Saying(c, S) \cup {next} ELSE Saying(c, S)
    BY SayingAppend
  <1>3. Speakers(c)' = IF said # "absent" THEN Speakers(c) \cup {next} ELSE Speakers(c)
    BY SpeakersAppend
  <1>4. /\ \A n \in Accepted : answers'[n] = answers[n] /\ n \in 1 .. Len(answers)
        /\ answers'[next] = output
        /\ Len(answers) \in Nat
    BY AcceptedAppend DEF TypeOK
  <1>5. Decisive(c) \subseteq Accepted /\ Saying(c, {"SEARCHED_NONE_FOUND"}) \subseteq Speakers(c)
    BY DEF Decisive, Saying, Speakers
  <1>6. CASE said \in hard
    <2>1. Decisive(c)' = Decisive(c) \cup {next}
      BY <1>2, <1>6 DEF Decisive
    <2>2. \A m \in Decisive(c)' : m <= next
      BY <1>4, <1>5, <2>1
    <2>3. MergeStatus(s, said) = answers'[next].coverage[c]
      BY <1>4, <1>6 DEF MergeStatus
    <2> QED
      BY <2>1, <2>2, <2>3 DEF LastWord
  <1>7. CASE said \notin hard
    <2>1. Decisive(c)' = Decisive(c)
      BY <1>2, <1>7 DEF Decisive
    <2>2. CASE Decisive(c) # {}
      <3>1. PICK n \in Decisive(c) : s = answers[n].coverage[c] /\ \A m \in Decisive(c) : m <= n
        BY <2>2 DEF LastWord
      <3>2. s \in hard
        BY <3>1 DEF Decisive, Saying
      <3>3. MergeStatus(s, said) = s
        BY <1>7, <3>2 DEF MergeStatus
      <3>4. s = answers'[n].coverage[c]
        BY <1>4, <1>5, <3>1
      <3> QED
        BY <2>1, <3>1, <3>3, <3>4 DEF LastWord
    <2>3. CASE Decisive(c) = {}
      <3>1. s = IF Saying(c, {"SEARCHED_NONE_FOUND"}) # {} THEN "SEARCHED_NONE_FOUND"
                ELSE IF Speakers(c) # {} THEN "NOT_SEARCHED" ELSE "absent"
        BY <2>3 DEF LastWord
      <3>2. said \in {"SEARCHED_NONE_FOUND", "NOT_SEARCHED", "absent"}
        BY <1>1, <1>7 DEF CoverageStatus
      <3>3. Saying(c, {"SEARCHED_NONE_FOUND"})' =
              IF said = "SEARCHED_NONE_FOUND" THEN Saying(c, {"SEARCHED_NONE_FOUND"}) \cup {next}
              ELSE Saying(c, {"SEARCHED_NONE_FOUND"})
        BY <1>2
      <3>4. MergeStatus(s, said) = IF Saying(c, {"SEARCHED_NONE_FOUND"})' # {} THEN "SEARCHED_NONE_FOUND"
                                   ELSE IF Speakers(c)' # {} THEN "NOT_SEARCHED" ELSE "absent"
        BY <1>3, <3>1, <3>2, <3>3 DEF MergeStatus
      <3> QED
        BY <2>1, <2>3, <3>4 DEF LastWord
    <2> QED
      BY <2>2, <2>3
  <1> QED
    BY <1>6, <1>7

LEMMA NextLastWord == TypeOK /\ CoverageIsLastWord /\ [Next]_vars => CoverageIsLastWord'
  <1> SUFFICES ASSUME TypeOK, CoverageIsLastWord, [Next]_vars PROVE CoverageIsLastWord'
    OBVIOUS
  <1>1. CASE UNCHANGED <<answers, coverage>>
    BY <1>1 DEF CoverageIsLastWord, LastWord, Decisive, Saying, Speakers, Accepted
  <1>2. CASE AskNode
    <2>1. PICK output \in Answers : Took(output)
      BY <1>2 DEF AskNode, Took
    <2>2. SUFFICES ASSUME NEW c \in Classes PROVE LastWord(c, coverage[c])'
      BY DEF CoverageIsLastWord
    <2>3. LastWord(c, coverage[c])
      BY DEF CoverageIsLastWord
    <2>4. CASE Acceptable(output)
      <3>1. coverage'[c] = MergeStatus(coverage[c], output.coverage[c])
        BY <2>1, <2>4 DEF Took, Merge
      <3> QED
        BY <2>1, <2>3, <2>4, <3>1, AcceptedMergesWord DEF Took
    <2>5. CASE ~Acceptable(output)
      <3>1. coverage' = coverage
        BY <2>1, <2>5 DEF Took, Reject
      <3> QED
        BY <2>1, <2>3, <2>5, <3>1, RejectedKeepsWord DEF Took
    <2> QED
      BY <2>4, <2>5
  <1> QED
    BY <1>1, <1>2 DEF Next, vars, NodeRaises, ComputeReadiness, PersistResult

\* The coverage of every class is the last finding or blockage an accepted
\* answer reported, or else the strongest weaker report, after any answers.
THEOREM CoverageAlwaysLastWord == Spec => []CoverageIsLastWord
  <1>1. Init => CoverageIsLastWord
    BY DEF Init, CoverageIsLastWord, LastWord, Decisive, Saying, Speakers, Accepted, Nothing
  <1> QED
    BY <1>1, NextLastWord, TypeCorrect, PTL DEF Spec

-----------------------------------------------------------------------------
(* Completeness.  The grade is computed from the final coverage, and what  *)
(* the coverage of a class stands for is CoverageIsLastWord.               *)

GradeInv ==
    /\ ready => phase # "asking" /\ \A c \in Mandatory : Satisfied(coverage[c])
    /\ status = "COMPLETED" => ready

LEMMA SatisfiedMeansSearched ==
  ASSUME TypeOK, NEW c \in Classes, LastWord(c, coverage[c]), Satisfied(coverage[c])
  PROVE  \E n \in Saying(c, {"SEARCHED_FOUND"} \cup (IF AllowZero THEN {"SEARCHED_NONE_FOUND"} ELSE {})) :
             \A m \in Saying(c, {"BLOCKED"}) : m < n
  <1> DEFINE good == {"SEARCHED_FOUND"} \cup (IF AllowZero THEN {"SEARCHED_NONE_FOUND"} ELSE {})
  <1>1. Saying(c, {"BLOCKED"}) \subseteq Decisive(c) /\ Accepted \subseteq Nat
    BY DEF Decisive, Saying, Accepted, TypeOK
  <1>2. CASE coverage[c] = "SEARCHED_FOUND"
    <2>1. PICK n \in Decisive(c) : coverage[c] = answers[n].coverage[c] /\ \A m \in Decisive(c) : m <= n
      BY <1>2 DEF LastWord
    <2>2. n \in Saying(c, good) /\ n \notin Saying(c, {"BLOCKED"})
      BY <1>2, <2>1 DEF Decisive, Saying
    <2>3. \A m \in Saying(c, {"BLOCKED"}) : m < n
      BY <1>1, <2>1, <2>2 DEF Saying
    <2> QED
      BY <2>2, <2>3
  <1>3. CASE coverage[c] = "SEARCHED_NONE_FOUND"
    <2>1. Decisive(c) = {} /\ Saying(c, {"SEARCHED_NONE_FOUND"}) # {}
      BY <1>3 DEF LastWord, Decisive, Saying
    <2>2. AllowZero
      BY <1>3 DEF Satisfied
    <2>3. \A n \in Saying(c, {"SEARCHED_NONE_FOUND"}) : n \in Saying(c, good)
      BY <2>2 DEF Saying
    <2> QED
      BY <1>1, <2>1, <2>3
  <1> QED
    BY <1>2, <1>3 DEF Satisfied

LEMMA NextGrade == GradeInv /\ [Next]_vars => GradeInv'
  <1> SUFFICES ASSUME GradeInv, [Next]_vars PROVE GradeInv'
    OBVIOUS
  <1>1. CASE UNCHANGED <<phase, coverage, ready, status>>
    BY <1>1 DEF GradeInv
  <1>2. CASE AskNode
    BY <1>2 DEF AskNode, GradeInv
  <1>3. CASE NodeRaises
    BY <1>3 DEF NodeRaises, GradeInv
  <1>4. CASE ComputeReadiness
    <2>1. ready' => \A c \in Mandatory : Satisfied(coverage'[c])
      BY <1>4 DEF ComputeReadiness
    <2>2. ~ready
      BY <1>4 DEF ComputeReadiness, GradeInv
    <2> QED
      BY <1>4, <2>1, <2>2 DEF ComputeReadiness, GradeInv
  <1>5. CASE PersistResult
    BY <1>5 DEF PersistResult, GradeInv
  <1> QED
    BY <1>1, <1>2, <1>3, <1>4, <1>5 DEF Next, vars

\* No false completeness: a COMPLETED run has searched every mandatory class
\* with a result its protocol accepts, and none was blocked after that.
THEOREM CompletedAlwaysCovered == Spec => []CompletedIsCovered
  <1>1. Init => GradeInv
    BY DEF Init, GradeInv
  <1>2. TypeOK /\ CoverageIsLastWord /\ GradeInv => CompletedIsCovered
    BY SatisfiedMeansSearched, GraphAssumption DEF CoverageIsLastWord, GradeInv, CompletedIsCovered
  <1> QED
    BY <1>1, <1>2, NextGrade, TypeCorrect, CoverageAlwaysLastWord, PTL DEF Spec

\* A searched class stays searched and a finding or blockage is replaced by
\* another one only.
THEOREM SearchedAlwaysStays == Spec => SearchedStaysSearched
  <1>1. TypeOK /\ [Next]_vars =>
          [\A c \in Classes :
             /\ coverage[c] = "SEARCHED_NONE_FOUND" => coverage'[c] \notin {"absent", "NOT_SEARCHED"}
             /\ coverage[c] \in {"SEARCHED_FOUND", "BLOCKED"} =>
                   coverage'[c] \in {"SEARCHED_FOUND", "BLOCKED"}]_coverage
    <2> SUFFICES ASSUME [Next]_vars, coverage' # coverage, NEW c \in Classes
                 PROVE  /\ coverage[c] = "SEARCHED_NONE_FOUND" => coverage'[c] \notin {"absent", "NOT_SEARCHED"}
                        /\ coverage[c] \in {"SEARCHED_FOUND", "BLOCKED"} =>
                              coverage'[c] \in {"SEARCHED_FOUND", "BLOCKED"}
      OBVIOUS
    <2>1. PICK output \in Answers : Merge(output)
      BY DEF Next, vars, AskNode, Reject, NodeRaises, ComputeReadiness, PersistResult
    <2>2. coverage'[c] = MergeStatus(coverage[c], output.coverage[c])
      BY <2>1 DEF Merge
    <2> QED
      BY <2>2 DEF MergeStatus
  <1> QED
    BY <1>1, TypeCorrect, PTL DEF Spec, SearchedStaysSearched

-----------------------------------------------------------------------------
(* What is written.                                                        *)

\* ORACLE-009: a saved run has a row for every mandatory class, also for those
\* that no accepted answer named (research/service.py).
THEOREM MandatoryAlwaysHasRow == Spec => []MandatoryHasRow
  <1>1. Init => MandatoryHasRow
    BY DEF Init, MandatoryHasRow
  <1>2. MandatoryHasRow /\ [Next]_vars => MandatoryHasRow'
    <2> SUFFICES ASSUME MandatoryHasRow, [Next]_vars PROVE MandatoryHasRow'
      OBVIOUS
    <2>1. CASE PersistResult
      BY <2>1, GraphAssumption DEF PersistResult, CoverageRows, MandatoryHasRow
    <2>2. CASE phase' = phase /\ rows' = rows
      BY <2>2 DEF MandatoryHasRow
    <2>3. CASE phase' # "saved"
      BY <2>3 DEF MandatoryHasRow
    <2> QED
      BY <2>1, <2>2, <2>3 DEF Next, vars, AskNode, NodeRaises, ComputeReadiness
  <1> QED
    BY <1>1, <1>2, PTL DEF Spec

-----------------------------------------------------------------------------
(* The owner's profile and routes.                                         *)

Facts == [Sections -> {"none", "seed", "self"}]
ProfileRow == [state : STRING \union {"ACTIVE"}, facts : Facts]
RouteRow == [name : RouteNames, state : STRING \union RouteStates, text : {"seed", "self"}]
SeedRoute == [key : RouteNames, state : STRING]
RowOf(seed) == [name |-> seed.key, state |-> seed.state, text |-> "seed"]
ProfileOf(f) == [state |-> f.candidate.state, facts |-> f.candidate.facts]

\* Every route of the seeds up to n is called by its key, and the last of a key is in
\* the routes as it is in the seeds.
Absorbed(seeds, n, rs) ==
    \A m \in 1 .. n :
        /\ \E i \in DOMAIN rs : rs[i].name = seeds[m].key
        /\ (\A k \in (m + 1) .. n : seeds[k].key # seeds[m].key) => \E i \in DOMAIN rs : rs[i] = RowOf(seeds[m])

\* The rows are those that are stored, but for what an earlier route of the seeds made
\* of one, where no two rows have one name; what is left of the seeds will put it back.
OneRowEach == \A i, j \in DOMAIN routes : routes[i].name = routes[j].name => i = j
Near(seeds, n, rs) ==
    /\ Len(rs) = Len(routes)
    /\ \A i \in DOMAIN routes : rs[i].name = routes[i].name
    /\ OneRowEach => \A i \in DOMAIN routes : rs[i] = routes[i] \/ \E m \in (n + 1) .. Len(seeds) : seeds[m].key = routes[i].name

\* One route of a file has been imported: into a row of its name, or a new one where
\* there is none.
RouteStored(rs, seed, new) ==
    /\ \E i \in DOMAIN new : new[i] = RowOf(seed)
    /\ \A i \in DOMAIN rs : i \in DOMAIN new /\ new[i].name = rs[i].name /\ (new[i] # rs[i] => new[i] = RowOf(seed) /\ rs[i].name = seed.key)
    /\ (\E i \in DOMAIN rs : rs[i].name = seed.key) => Len(new) = Len(rs)

LEMMA SeedTypes ==
  ASSUME NEW f \in SeedFiles
  PROVE  /\ f.candidate.given \in BOOLEAN /\ f.candidate.state \in STRING /\ f.candidate.facts \in Facts
         /\ f.routes \in Seq(SeedRoute)
BY StoresAssumption DEF Facts, SeedRoute

\* What was there of the file stays, and its next route is there too.
LEMMA AbsorbsNext ==
  ASSUME NEW seeds \in Seq(SeedRoute), NEW n \in Nat, NEW rs, NEW new, Absorbed(seeds, n, rs), RouteStored(rs, seeds[n + 1], new)
  PROVE  Absorbed(seeds, n + 1, new)
<1>1. \E i \in DOMAIN new : new[i] = RowOf(seeds[n + 1])
  BY DEF RouteStored
<1>2. \A i \in DOMAIN rs : i \in DOMAIN new /\ new[i].name = rs[i].name /\ (rs[i].name # seeds[n + 1].key => new[i] = rs[i])
  BY DEF RouteStored
<1>3. ASSUME NEW m \in 1 .. (n + 1)
      PROVE  /\ \E i \in DOMAIN new : new[i].name = seeds[m].key
             /\ (\A k \in (m + 1) .. (n + 1) : seeds[k].key # seeds[m].key) => \E i \in DOMAIN new : new[i] = RowOf(seeds[m])
  <2>1. CASE m = n + 1
    <3>1. RowOf(seeds[m]).name = seeds[m].key
      BY DEF RowOf
    <3> QED
      BY <1>1, <2>1, <3>1
  <2>2. CASE m # n + 1
    <3>1. m \in 1 .. n /\ n + 1 \in (m + 1) .. (n + 1) /\ \A k \in (m + 1) .. n : k \in (m + 1) .. (n + 1)
      BY <2>2
    <3>2. \E i \in DOMAIN rs : rs[i].name = seeds[m].key
      BY <3>1 DEF Absorbed
    <3>3. ASSUME \A k \in (m + 1) .. (n + 1) : seeds[k].key # seeds[m].key
          PROVE  \E i \in DOMAIN new : new[i] = RowOf(seeds[m])
      <4>1. PICK i \in DOMAIN rs : rs[i] = RowOf(seeds[m])
        BY <3>1, <3>3 DEF Absorbed
      <4>2. rs[i].name # seeds[n + 1].key
        BY <3>1, <3>3, <4>1 DEF RowOf
      <4> QED
        BY <1>2, <4>1, <4>2
    <3> QED
      BY <1>2, <3>2, <3>3
  <2> QED
    BY <2>1, <2>2
<1> QED
  BY <1>3 DEF Absorbed

\* A file whose routes are there is imported again: its next route adds none, and leaves
\* a row that is like no stored one only where a later route has its name.
LEMMA NearNext ==
  ASSUME NEW seeds \in Seq(SeedRoute), routes \in Seq(RouteRow), Absorbed(seeds, Len(seeds), routes),
         NEW n \in Nat, n < Len(seeds), NEW rs \in Seq(RouteRow), NEW new \in Seq(RouteRow),
         Near(seeds, n, rs), RouteStored(rs, seeds[n + 1], new)
  PROVE  Near(seeds, n + 1, new)
<1> DEFINE len == Len(seeds)
<1>1. len \in Nat /\ n + 1 \in 1 .. len /\ seeds[n + 1] \in SeedRoute
  OBVIOUS
<1>2. Absorbed(seeds, len, routes) /\ n < len
  OBVIOUS
<1> HIDE DEF len
<1>3. /\ Len(rs) = Len(routes) /\ DOMAIN rs = DOMAIN routes
      /\ \A i \in DOMAIN routes : rs[i].name = routes[i].name
      /\ OneRowEach => \A i \in DOMAIN routes : rs[i] = routes[i] \/ \E m \in (n + 1) .. len : seeds[m].key = routes[i].name
  BY DEF Near, len
<1>4. \E i \in DOMAIN rs : rs[i].name = seeds[n + 1].key
  <2>1. \E i \in DOMAIN routes : routes[i].name = seeds[n + 1].key
    BY <1>1, <1>2 DEF Absorbed
  <2> QED
    BY <1>3, <2>1
<1>5. /\ Len(new) = Len(rs) /\ DOMAIN new = DOMAIN rs
      /\ \A i \in DOMAIN rs : new[i].name = rs[i].name /\ (new[i] # rs[i] => new[i] = RowOf(seeds[n + 1]) /\ rs[i].name = seeds[n + 1].key)
  BY <1>4 DEF RouteStored
<1>6. ASSUME OneRowEach, NEW i \in DOMAIN routes, new[i] # routes[i], ~\E m \in (n + 2) .. len : seeds[m].key = routes[i].name
      PROVE  FALSE
  <2>1. ASSUME seeds[n + 1].key # routes[i].name PROVE FALSE
    <3>1. new[i] = rs[i]
      BY <1>3, <1>5, <2>1
    <3>2. PICK m \in (n + 1) .. len : seeds[m].key = routes[i].name
      BY <1>3, <1>6, <3>1
    <3>3. m \in (n + 2) .. len
      BY <1>1, <2>1, <3>2
    <3> QED
      BY <1>6, <3>2, <3>3
  <2>2. \A k \in (n + 2) .. len : seeds[k].key # seeds[n + 1].key
    BY <1>6, <2>1
  <2>3. PICK j \in DOMAIN routes : routes[j] = RowOf(seeds[n + 1])
    <3>1. (n + 1) + 1 = n + 2
      OBVIOUS
    <3> QED
      BY <1>1, <1>2, <2>2, <3>1 DEF Absorbed
  <2>4. routes[j].name = routes[i].name
    BY <2>1, <2>3 DEF RowOf
  <2>5. routes[i] = RowOf(seeds[n + 1])
    BY <1>6, <2>3, <2>4 DEF OneRowEach
  <2>6. PICK k \in DOMAIN new : new[k] = RowOf(seeds[n + 1])
    BY DEF RouteStored
  <2>7. k \in DOMAIN routes /\ routes[k].name = routes[i].name
    BY <1>3, <1>5, <2>1, <2>6 DEF RowOf
  <2>8. k = i
    BY <1>6, <2>7 DEF OneRowEach
  <2> QED
    BY <1>6, <2>5, <2>6, <2>8
<1> QED
  <2>1. (n + 1) + 1 = n + 2
    OBVIOUS
  <2>2. Len(new) = Len(routes) /\ \A i \in DOMAIN routes : new[i].name = routes[i].name
    BY <1>3, <1>5
  <2>3. OneRowEach => \A i \in DOMAIN routes : new[i] = routes[i] \/ \E m \in ((n + 1) + 1) .. len : seeds[m].key = routes[i].name
    BY <1>6, <2>1
  <2> QED
    BY <2>2, <2>3 DEF Near, len

LEMMA ImportedAt ==
  ASSUME NEW rs \in Seq(RouteRow), NEW new \in Seq(RouteRow), NEW seed \in SeedRoute, NEW k \in DOMAIN new, new[k] = RowOf(seed),
         \A i \in DOMAIN rs : i \in DOMAIN new /\ (i # k => new[i] = rs[i]),
         k \in DOMAIN rs => rs[k].name = seed.key /\ Len(new) = Len(rs),
         k \notin DOMAIN rs => \A i \in DOMAIN rs : rs[i].name # seed.key
  PROVE  RouteStored(rs, seed, new)
<1>1. RowOf(seed).name = seed.key
  BY DEF RowOf
<1>2. \A i \in DOMAIN rs : new[i].name = rs[i].name
  BY <1>1
<1>3. (\E i \in DOMAIN rs : rs[i].name = seed.key) => Len(new) = Len(rs)
  OBVIOUS
<1> QED
  BY <1>2, <1>3 DEF RouteStored

-----------------------------------------------------------------------------

SameSizeOfDrafts == \A S : W!Cardinality(S) = Cardinality(S)

LEMMA CountDrafts == SameSizeOfDrafts
BY DEF SameSizeOfDrafts, W!Cardinality, Cardinality

LEMMA AtMostOne ==
  ASSUME NEW ps \in Seq(ProfileRow)
  PROVE  W!Cardinality(W!Active(ps)) <= 1 <=> \A i, j \in W!Active(ps) : i = j
<1> DEFINE S == W!Active(ps)
<1>1. S \subseteq 1 .. Len(ps) /\ Len(ps) \in Nat
  BY DEF W!Active
<1>2. IsFiniteSet(S)
  <2>1. IsFiniteSet(1 .. Len(ps))
    BY <1>1, FS_Interval
  <2> HIDE DEF S
  <2> QED
    BY <1>1, <2>1, FS_Subset
<1>3. W!Cardinality(S) = Cardinality(S)
  BY CountDrafts DEF SameSizeOfDrafts
<1> HIDE DEF S
<1>0. IsFiniteSet(S) /\ W!Cardinality(S) = Cardinality(S)
  BY <1>2, <1>3
<1>4. Cardinality(S) \in Nat
  BY <1>2, FS_CardinalityType
<1>5. ASSUME Cardinality(S) <= 1, NEW i \in S, NEW j \in S, i # j PROVE FALSE
  <2>1. {i} \subseteq S /\ {i} # S
    BY <1>5
  <2>2. Cardinality({i}) = 1
    BY FS_Singleton
  <2>3. Cardinality({i}) <= Cardinality(S) /\ Cardinality({i}) # Cardinality(S)
    BY <1>0, <2>1, FS_Subset
  <2> QED
    BY <1>4, <1>5, <2>2, <2>3
<1>6. ASSUME \A i, j \in S : i = j PROVE Cardinality(S) <= 1
  <2>1. CASE S = {}
    BY <2>1, FS_EmptySet
  <2>2. ASSUME NEW i \in S PROVE Cardinality(S) <= 1
    <3>1. S = {i}
      BY <1>6, <2>2
    <3>2. Cardinality({i}) = 1
      BY FS_Singleton
    <3> QED
      BY <3>1, <3>2
  <2> QED
    BY <2>1, <2>2
<1> QED
  BY <1>3, <1>5, <1>6 DEF S

\* What a transaction is, and how far it is in its file.
Transactions == [file : {Nobody} \union SeedFiles, profile : Nat, upTo : Nat, wrote : [1 .. MaxRoutes -> Nat],
                 added : Seq(RouteRow), alone : BOOLEAN]
InFile(t) ==
    t.file # Nobody => t.upTo <= Len(t.file.routes) /\ \A i \in 1 .. MaxRoutes : t.wrote[i] <= t.upTo

\* While nothing else is committed: the profile that it found is what there is, the file is
\* stored as far as it is read, and if it was the last one, nothing has come of it.
Abreast(t) ==
    t.alone = TRUE =>
        /\ t.file = Nobody \/ t.file.candidate.given = TRUE =>
              (t.profile = 0 /\ W!Active(drafts) = {}) \/ t.profile \in W!Active(drafts)
        /\ t.file # Nobody => Absorbed(t.file.routes, t.upTo, W!WithRoutes(t))
        /\ t.file # Nobody /\ t.file = last => Near(t.file.routes, t.upTo, W!WithRoutes(t))

\* What the import of a file leaves until something else is stored, and that only saves
\* and imports that have overlapped leave two active profiles.
WorkInv ==
    /\ drafts \in Seq(ProfileRow) /\ routes \in Seq(RouteRow) /\ Len(routes) <= MaxRoutes
    /\ editing \in [Clients -> {Nobody} \union Transactions]
    /\ \A r \in Clients : editing[r] # Nobody => InFile(editing[r]) /\ Abreast(editing[r])
    /\ formRaced \in BOOLEAN /\ (formRaced = FALSE => \A i, j \in W!Active(drafts) : i = j)
    /\ last # Nobody =>
          /\ last \in SeedFiles
          /\ (last.candidate.given /\ last.candidate.state = "ACTIVE") => \E i \in DOMAIN drafts : drafts[i] = ProfileOf(last)
          /\ Absorbed(last.routes, Len(last.routes), routes)

LEMMA RewrittenOver ==
  ASSUME NEW t \in Transactions, NEW n, NEW w
  PROVE  [t EXCEPT !.upTo = n, !.wrote = w] = [file |-> t.file, profile |-> t.profile, upTo |-> n, wrote |-> w, added |-> t.added, alone |-> t.alone]
<1> DEFINE x == [t EXCEPT !.upTo = n]
           y == [x EXCEPT !.wrote = w]
<1>1. /\ DOMAIN x = DOMAIN t /\ DOMAIN t = {"file", "profile", "upTo", "wrote", "added", "alone"}
      /\ x.file = t.file /\ x.profile = t.profile /\ x.upTo = n /\ x.wrote = t.wrote /\ x.added = t.added /\ x.alone = t.alone
      /\ x = [f \in DOMAIN t |-> x[f]]
  BY DEF Transactions
<1> HIDE DEF x
<1>2. y = [file |-> t.file, profile |-> t.profile, upTo |-> n, wrote |-> w, added |-> t.added, alone |-> t.alone]
  BY <1>1
<1> QED
  BY <1>2 DEF x

LEMMA RewrittenMore ==
  ASSUME NEW t \in Transactions, NEW n, NEW w
  PROVE  [t EXCEPT !.upTo = n, !.added = w] = [file |-> t.file, profile |-> t.profile, upTo |-> n, wrote |-> t.wrote, added |-> w, alone |-> t.alone]
<1> DEFINE x == [t EXCEPT !.upTo = n]
           y == [x EXCEPT !.added = w]
<1>1. /\ DOMAIN x = DOMAIN t /\ DOMAIN t = {"file", "profile", "upTo", "wrote", "added", "alone"}
      /\ x.file = t.file /\ x.profile = t.profile /\ x.upTo = n /\ x.wrote = t.wrote /\ x.added = t.added /\ x.alone = t.alone
      /\ x = [f \in DOMAIN t |-> x[f]]
  BY DEF Transactions
<1> HIDE DEF x
<1>2. y = [file |-> t.file, profile |-> t.profile, upTo |-> n, wrote |-> t.wrote, added |-> w, alone |-> t.alone]
  BY <1>1
<1> QED
  BY <1>2 DEF x

LEMMA MaxRoutesIsNatural == MaxRoutes \in Nat
BY StoresAssumption

LEMMA WorkInvInit == W!Init => WorkInv
<1> SUFFICES ASSUME W!Init PROVE WorkInv
  OBVIOUS
<1>1. drafts = <<>> /\ routes = <<>> /\ last = Nobody /\ formRaced = FALSE /\ editing = [r \in Clients |-> Nobody]
  BY DEF W!Init
<1>2. drafts \in Seq(ProfileRow) /\ routes \in Seq(RouteRow) /\ Len(routes) <= MaxRoutes /\ W!Active(drafts) = {}
  BY <1>1, MaxRoutesIsNatural DEF W!Active
<1>3. editing \in [Clients -> {Nobody} \union Transactions] /\ \A r \in Clients : editing[r] = Nobody
  BY <1>1
<1> QED
  BY <1>1, <1>2, <1>3 DEF WorkInv

LEMMA Concatenated ==
  ASSUME NEW X, NEW s \in Seq(X), NEW u \in Seq(X)
  PROVE  /\ s \o u \in Seq(X) /\ Len(s \o u) = Len(s) + Len(u)
         /\ \A i \in DOMAIN s : (s \o u)[i] = s[i]
         /\ \A j \in DOMAIN u : (s \o u)[Len(s) + j] = u[j]
<1>1. s \o u \in Seq(X) /\ Len(s \o u) = Len(s) + Len(u) /\ Len(s) \in Nat /\ Len(u) \in Nat
      /\ DOMAIN s = 1 .. Len(s) /\ DOMAIN u = 1 .. Len(u)
  OBVIOUS
<1>2. ASSUME NEW i \in DOMAIN s PROVE (s \o u)[i] = s[i]
  OBVIOUS
<1>3. ASSUME NEW j \in DOMAIN u PROVE (s \o u)[Len(s) + j] = u[j]
  OBVIOUS
<1> QED
  BY <1>1, <1>2, <1>3

\* The rows as a transaction sees them.
LEMMA View ==
  ASSUME routes \in Seq(RouteRow), Len(routes) <= MaxRoutes, NEW t \in Transactions, t.file # Nobody, InFile(t)
  PROVE  /\ W!WithRoutes(t) \in Seq(RouteRow)
         /\ Len(W!WithRoutes(t)) = Len(routes) + Len(t.added)
         /\ \A i \in DOMAIN routes :
               /\ t.wrote[i] = 0 => W!WithRoutes(t)[i] = routes[i]
               /\ t.wrote[i] # 0 => W!WithRoutes(t)[i] = [name |-> routes[i].name, state |-> t.file.routes[t.wrote[i]].state, text |-> "seed"]
               /\ W!WithRoutes(t)[i].name = routes[i].name
         /\ \A j \in DOMAIN t.added : W!WithRoutes(t)[Len(routes) + j] = t.added[j]
<1> DEFINE Row(i) == IF t.wrote[i] = 0 THEN routes[i]
                     ELSE [routes[i] EXCEPT !.state = t.file.routes[t.wrote[i]].state, !.text = "seed"]
           base == [i \in DOMAIN routes |-> Row(i)]
<1>1. /\ t.file \in SeedFiles /\ t.upTo \in Nat /\ t.upTo <= Len(t.file.routes) /\ t.added \in Seq(RouteRow)
      /\ \A i \in 1 .. MaxRoutes : t.wrote[i] \in Nat /\ t.wrote[i] <= t.upTo
  BY DEF Transactions, InFile
<1>2. t.file.routes \in Seq(SeedRoute)
  BY <1>1, SeedTypes
<1>3. ASSUME NEW i \in DOMAIN routes
      PROVE  /\ Row(i) \in RouteRow
             /\ t.wrote[i] # 0 => Row(i) = [name |-> routes[i].name, state |-> t.file.routes[t.wrote[i]].state, text |-> "seed"]
             /\ Row(i).name = routes[i].name
  <2>1. routes[i] \in RouteRow /\ i \in 1 .. MaxRoutes
    BY MaxRoutesIsNatural
  <2>2. routes[i] = [name |-> routes[i].name, state |-> routes[i].state, text |-> routes[i].text] /\ routes[i].name \in RouteNames
    BY <2>1 DEF RouteRow
  <2>3. CASE t.wrote[i] = 0
    BY <2>1, <2>3
  <2>4. CASE t.wrote[i] # 0
    <3>1. t.wrote[i] \in 1 .. Len(t.file.routes)
      BY <1>1, <1>2, <2>1, <2>4
    <3>2. t.file.routes[t.wrote[i]] \in SeedRoute
      BY <1>2, <3>1
    <3>3. t.file.routes[t.wrote[i]].state \in STRING
      BY <3>2 DEF SeedRoute
    <3>4. Row(i) = [name |-> routes[i].name, state |-> t.file.routes[t.wrote[i]].state, text |-> "seed"]
      BY <2>2, <2>4
    <3> QED
      BY <2>2, <3>3, <3>4 DEF RouteRow
  <2> QED
    BY <2>3, <2>4
<1> HIDE DEF Row
<1>4. base \in Seq(RouteRow) /\ Len(base) = Len(routes) /\ DOMAIN base = DOMAIN routes
  <2>1. Len(routes) \in Nat /\ DOMAIN routes = 1 .. Len(routes)
    OBVIOUS
  <2>2. base = [i \in 1 .. Len(routes) |-> base[i]] /\ \A i \in 1 .. Len(routes) : base[i] \in RouteRow
    BY <1>3, <2>1
  <2> HIDE DEF base
  <2> QED
    BY <2>1, <2>2, Itemwise
<1>5. \A i \in DOMAIN routes : base[i] = Row(i)
  OBVIOUS
<1>6. W!WithRoutes(t) = base \o t.added
  BY DEF W!WithRoutes, Row
<1> HIDE DEF base
<1>7. /\ W!WithRoutes(t) \in Seq(RouteRow)
      /\ Len(W!WithRoutes(t)) = Len(routes) + Len(t.added)
      /\ \A i \in DOMAIN routes : W!WithRoutes(t)[i] = Row(i)
      /\ \A j \in DOMAIN t.added : W!WithRoutes(t)[Len(routes) + j] = t.added[j]
  <2>1. /\ base \o t.added \in Seq(RouteRow) /\ Len(base \o t.added) = Len(base) + Len(t.added)
        /\ \A i \in DOMAIN base : (base \o t.added)[i] = base[i]
        /\ \A j \in DOMAIN t.added : (base \o t.added)[Len(base) + j] = t.added[j]
    <3>1. base \in Seq(RouteRow) /\ t.added \in Seq(RouteRow)
      BY <1>1, <1>4
    <3> QED
      BY <3>1, Concatenated
  <2> QED
    BY <1>4, <1>5, <1>6, <2>1
<1>8. \A i \in DOMAIN routes : t.wrote[i] = 0 => Row(i) = routes[i]
  BY DEF Row
<1> QED
  BY <1>3, <1>7, <1>8

\* At first it sees what is stored.
LEMMA FirstView ==
  ASSUME routes \in Seq(RouteRow), Len(routes) <= MaxRoutes, NEW f, NEW found
  PROVE  W!WithRoutes(W!Transaction(f, found)) = routes
<1> DEFINE t == W!Transaction(f, found)
           base == [i \in DOMAIN routes |-> IF t.wrote[i] = 0 THEN routes[i]
                        ELSE [routes[i] EXCEPT !.state = t.file.routes[t.wrote[i]].state, !.text = "seed"]]
<1>1. t.added = <<>> /\ \A i \in DOMAIN routes : t.wrote[i] = 0
  BY MaxRoutesIsNatural DEF W!Transaction
<1>2. W!WithRoutes(t) = base \o t.added
  BY DEF W!WithRoutes
<1> HIDE DEF t
<1>3. base = routes
  <2>1. routes = [i \in DOMAIN routes |-> routes[i]]
    OBVIOUS
  <2>2. \A i \in DOMAIN routes : base[i] = routes[i]
    BY <1>1
  <2>3. base = [i \in DOMAIN routes |-> base[i]]
    OBVIOUS
  <2> HIDE DEF base
  <2> QED
    BY <2>1, <2>2, <2>3
<1> HIDE DEF base
<1>4. routes \o <<>> = routes
  OBVIOUS
<1> QED
  BY <1>1, <1>2, <1>3, <1>4 DEF t

\* The import of one route: the row it writes, as the transaction sees it.
LEMMA RouteIsImported ==
  ASSUME WorkInv, NEW r \in Clients, W!ImportRoute(r)
  PROVE  \E u \in Transactions :
            /\ editing' = [editing EXCEPT ![r] = u]
            /\ u.file = editing[r].file /\ u.profile = editing[r].profile /\ u.alone = editing[r].alone
            /\ u.upTo = editing[r].upTo + 1 /\ u.file # Nobody /\ InFile(u)
            /\ RouteStored(W!WithRoutes(editing[r]), u.file.routes[u.upTo], W!WithRoutes(u))
<1> DEFINE t == editing[r]
           n == t.upTo + 1
           seed == t.file.routes[n]
           row == RowOf(seed)
<1>1. /\ t \in Transactions /\ t.file \in SeedFiles /\ t.file # Nobody /\ t.upTo \in Nat /\ t.profile \in Nat /\ t.alone \in BOOLEAN
      /\ t.wrote \in [1 .. MaxRoutes -> Nat] /\ t.added \in Seq(RouteRow)
      /\ t = [file |-> t.file, profile |-> t.profile, upTo |-> t.upTo, wrote |-> t.wrote, added |-> t.added, alone |-> t.alone]
  <2>1. t \in Transactions /\ t.file # Nobody
    BY DEF W!ImportRoute, WorkInv
  <2> QED
    BY <2>1 DEF Transactions
<1>2. InFile(t) /\ routes \in Seq(RouteRow) /\ Len(routes) <= MaxRoutes /\ editing \in [Clients -> {Nobody} \union Transactions]
  BY DEF W!ImportRoute, WorkInv
<1>3. t.file.routes \in Seq(SeedRoute)
  BY <1>1, SeedTypes
<1>4. /\ t.upTo < Len(t.file.routes)
      /\ \/ W!Called(routes, seed.key) = {} /\ W!Called(t.added, seed.key) = {}
            /\ editing' = [editing EXCEPT ![r].upTo = n, ![r].added = Append(@, row)]
         \/ \E i \in W!Called(routes, seed.key) : editing' = [editing EXCEPT ![r].upTo = n, ![r].wrote = [@ EXCEPT ![i] = n]]
         \/ \E i \in W!Called(t.added, seed.key) : editing' = [editing EXCEPT ![r].upTo = n, ![r].added = [@ EXCEPT ![i] = row]]
  BY DEF W!ImportRoute, RowOf
<1>5. n \in Nat /\ n <= Len(t.file.routes) /\ n # 0 /\ seed \in SeedRoute
  <2>1. n \in 1 .. Len(t.file.routes)
    <3>1. Len(t.file.routes) \in Nat
      BY <1>3
    <3> HIDE DEF t
    <3> QED
      BY <1>1, <1>4, <3>1
  <2> QED
    BY <1>3, <2>1
<1>6. row \in RouteRow /\ row.name = seed.key /\ row = [name |-> seed.key, state |-> seed.state, text |-> "seed"]
  BY <1>5 DEF RowOf, SeedRoute, RouteRow
<1>7. /\ W!WithRoutes(t) \in Seq(RouteRow)
      /\ Len(W!WithRoutes(t)) = Len(routes) + Len(t.added)
      /\ \A i \in DOMAIN routes :
            /\ t.wrote[i] = 0 => W!WithRoutes(t)[i] = routes[i]
            /\ t.wrote[i] # 0 => W!WithRoutes(t)[i] = [name |-> routes[i].name, state |-> t.file.routes[t.wrote[i]].state, text |-> "seed"]
            /\ W!WithRoutes(t)[i].name = routes[i].name
      /\ \A j \in DOMAIN t.added : W!WithRoutes(t)[Len(routes) + j] = t.added[j]
  BY <1>1, <1>2, View
<1>8. Len(routes) \in Nat /\ DOMAIN routes = 1 .. Len(routes) /\ Len(t.added) \in Nat /\ DOMAIN t.added = 1 .. Len(t.added)
      /\ DOMAIN W!WithRoutes(t) = 1 .. (Len(routes) + Len(t.added))
  BY <1>1, <1>2, <1>7
<1> HIDE DEF row, seed, n, t
<1>9. ASSUME NEW k \in DOMAIN W!WithRoutes(t)
      PROVE  k \in DOMAIN routes \/ \E j \in DOMAIN t.added : k = Len(routes) + j
  <2>1. CASE k <= Len(routes)
    BY <1>8, <2>1
  <2>2. CASE k > Len(routes)
    <3>1. k - Len(routes) \in DOMAIN t.added /\ k = Len(routes) + (k - Len(routes))
      BY <1>8, <2>2
    <3> QED
      BY <3>1
  <2> QED
    BY <1>8, <2>1, <2>2
\* What a new state of the transaction has to be like.
<1>10. ASSUME NEW w \in [1 .. MaxRoutes -> Nat], NEW a \in Seq(RouteRow),
              \A i \in 1 .. MaxRoutes : w[i] <= n,
              editing' = [editing EXCEPT ![r] = [file |-> t.file, profile |-> t.profile, upTo |-> n, wrote |-> w, added |-> a, alone |-> t.alone]],
              \A u \in Transactions :
                  u = [file |-> t.file, profile |-> t.profile, upTo |-> n, wrote |-> w, added |-> a, alone |-> t.alone] /\ InFile(u)
                      => RouteStored(W!WithRoutes(t), seed, W!WithRoutes(u))
       PROVE  \E u \in Transactions :
                 /\ editing' = [editing EXCEPT ![r] = u]
                 /\ u.file = t.file /\ u.profile = t.profile /\ u.alone = t.alone
                 /\ u.upTo = t.upTo + 1 /\ u.file # Nobody /\ InFile(u)
                 /\ RouteStored(W!WithRoutes(t), u.file.routes[u.upTo], W!WithRoutes(u))
  <2> DEFINE v == [file |-> t.file, profile |-> t.profile, upTo |-> n, wrote |-> w, added |-> a, alone |-> t.alone]
  <2>1. v \in Transactions
    BY <1>1, <1>5, <1>10 DEF Transactions
  <2>2. v.file = t.file /\ v.profile = t.profile /\ v.alone = t.alone /\ v.upTo = n /\ v.wrote = w
    OBVIOUS
  <2> HIDE DEF v
  <2>3. InFile(v)
    BY <1>5, <1>10, <2>2 DEF InFile
  <2>4. RouteStored(W!WithRoutes(t), seed, W!WithRoutes(v))
    BY <1>10, <2>1, <2>3 DEF v
  <2>5. seed = v.file.routes[v.upTo] /\ v.upTo = t.upTo + 1
    BY <2>2 DEF seed, n
  <2> QED
    BY <1>1, <1>10, <2>1, <2>2, <2>3, <2>4, <2>5 DEF v
<1>11. CASE /\ W!Called(routes, seed.key) = {} /\ W!Called(t.added, seed.key) = {}
            /\ editing' = [editing EXCEPT ![r].upTo = n, ![r].added = Append(@, row)]
  <2> DEFINE a == Append(t.added, row)
             v == [file |-> t.file, profile |-> t.profile, upTo |-> n, wrote |-> t.wrote, added |-> a, alone |-> t.alone]
  <2>1. a \in Seq(RouteRow) /\ Len(a) = Len(t.added) + 1 /\ a[Len(t.added) + 1] = row /\ \A j \in DOMAIN t.added : a[j] = t.added[j]
    BY <1>1, <1>6, Longer
  <2>2. editing' = [editing EXCEPT ![r] = v]
    <3>1. editing' = [editing EXCEPT ![r] = [t EXCEPT !.upTo = n, !.added = a]]
      BY <1>11 DEF t
    <3>2. [t EXCEPT !.upTo = n, !.added = a] = v
      <4> HIDE DEF a
      <4> QED
        BY <1>1, RewrittenMore
    <3> QED
      BY <3>1, <3>2
  <2>3. \A i \in 1 .. MaxRoutes : t.wrote[i] <= n
    BY <1>1, <1>2, MaxRoutesIsNatural DEF InFile, n
  <2>4. ASSUME NEW u \in Transactions, u = v, InFile(u) PROVE RouteStored(W!WithRoutes(t), seed, W!WithRoutes(u))
    <3>1. u.file = t.file /\ u.wrote = t.wrote /\ u.added = a
      BY <2>4
    <3> HIDE DEF a, v
    <3>2. /\ W!WithRoutes(u) \in Seq(RouteRow)
          /\ Len(W!WithRoutes(u)) = Len(routes) + Len(a)
          /\ \A i \in DOMAIN routes :
                /\ t.wrote[i] = 0 => W!WithRoutes(u)[i] = routes[i]
                /\ t.wrote[i] # 0 => W!WithRoutes(u)[i] = [name |-> routes[i].name, state |-> t.file.routes[t.wrote[i]].state, text |-> "seed"]
          /\ \A j \in DOMAIN a : W!WithRoutes(u)[Len(routes) + j] = a[j]
      BY <1>1, <1>2, <2>4, <3>1, View
    <3> DEFINE k == Len(routes) + (Len(t.added) + 1)
    <3>3. k \in DOMAIN W!WithRoutes(u) /\ W!WithRoutes(u)[k] = row /\ k \notin DOMAIN W!WithRoutes(t)
      <4>1. Len(t.added) + 1 \in DOMAIN a /\ Len(a) = Len(t.added) + 1 /\ a[Len(t.added) + 1] = row
        BY <1>8, <2>1
      <4>2. W!WithRoutes(u)[k] = row
        BY <3>2, <4>1
      <4>3. k \in DOMAIN W!WithRoutes(u) /\ k \notin DOMAIN W!WithRoutes(t)
        BY <1>8, <3>2, <4>1
      <4> QED
        BY <4>2, <4>3
    <3>4. ASSUME NEW i \in DOMAIN W!WithRoutes(t)
          PROVE  i \in DOMAIN W!WithRoutes(u) /\ W!WithRoutes(u)[i] = W!WithRoutes(t)[i] /\ W!WithRoutes(t)[i].name # seed.key
      <4>1. i \in DOMAIN W!WithRoutes(u)
        BY <1>8, <2>1, <3>2
      <4>2. CASE i \in DOMAIN routes
        <5>1. W!WithRoutes(u)[i] = W!WithRoutes(t)[i]
          BY <1>7, <3>2, <4>2
        <5>2. W!WithRoutes(t)[i].name # seed.key
          BY <1>7, <1>11, <4>2 DEF W!Called
        <5> QED
          BY <4>1, <5>1, <5>2
      <4>3. CASE i \notin DOMAIN routes
        <5>1. PICK j \in DOMAIN t.added : i = Len(routes) + j
          BY <1>9, <4>3
        <5>2. W!WithRoutes(t)[i] = t.added[j] /\ t.added[j].name # seed.key
          BY <1>7, <1>11, <5>1 DEF W!Called
        <5>3. j \in DOMAIN a /\ a[j] = t.added[j]
          BY <1>8, <2>1
        <5>4. W!WithRoutes(u)[i] = t.added[j]
          BY <3>2, <5>1, <5>3
        <5> QED
          BY <4>1, <5>2, <5>4
      <4> QED
        BY <4>2, <4>3
    <3> HIDE DEF k
    <3> QED
      <4>1. row = RowOf(seed)
        BY DEF row
      <4> QED
        BY <1>5, <1>7, <3>2, <3>3, <3>4, <4>1, ImportedAt
  <2> HIDE DEF a
  <2> QED
    <3>1. \E u \in Transactions :
             /\ editing' = [editing EXCEPT ![r] = u]
             /\ u.file = t.file /\ u.profile = t.profile /\ u.alone = t.alone
             /\ u.upTo = t.upTo + 1 /\ u.file # Nobody /\ InFile(u)
             /\ RouteStored(W!WithRoutes(t), u.file.routes[u.upTo], W!WithRoutes(u))
      BY <1>1, <1>10, <2>1, <2>2, <2>3, <2>4
    <3> QED
      BY <3>1 DEF t
<1>12. CASE \E i \in W!Called(routes, seed.key) : editing' = [editing EXCEPT ![r].upTo = n, ![r].wrote = [@ EXCEPT ![i] = n]]
  <2>1. PICK k \in W!Called(routes, seed.key) : editing' = [editing EXCEPT ![r].upTo = n, ![r].wrote = [@ EXCEPT ![k] = n]]
    BY <1>12
  <2> DEFINE w == [t.wrote EXCEPT ![k] = n]
             v == [file |-> t.file, profile |-> t.profile, upTo |-> n, wrote |-> w, added |-> t.added, alone |-> t.alone]
  <2>2. k \in DOMAIN routes /\ routes[k].name = seed.key /\ k \in 1 .. MaxRoutes
    BY <1>2, <1>8, MaxRoutesIsNatural DEF W!Called
  <2>3. w \in [1 .. MaxRoutes -> Nat] /\ w[k] = n /\ \A i \in 1 .. MaxRoutes : i # k => w[i] = t.wrote[i]
    BY <1>1, <1>5, <2>2
  <2>4. editing' = [editing EXCEPT ![r] = v]
    <3>1. editing' = [editing EXCEPT ![r] = [t EXCEPT !.upTo = n, !.wrote = w]]
      BY <2>1 DEF t
    <3>2. [t EXCEPT !.upTo = n, !.wrote = w] = v
      <4> HIDE DEF w
      <4> QED
        BY <1>1, RewrittenOver
    <3> QED
      BY <3>1, <3>2
  <2> HIDE DEF w
  <2>5. \A i \in 1 .. MaxRoutes : w[i] <= n
    <3>1. \A i \in 1 .. MaxRoutes : t.wrote[i] <= n
      BY <1>1, <1>2, MaxRoutesIsNatural DEF InFile, n
    <3> QED
      BY <1>5, <2>3, <3>1
  <2>6. ASSUME NEW u \in Transactions, u = v, InFile(u) PROVE RouteStored(W!WithRoutes(t), seed, W!WithRoutes(u))
    <3>1. u.file = t.file /\ u.wrote = w /\ u.added = t.added
      BY <2>6
    <3> HIDE DEF v
    <3>2. /\ W!WithRoutes(u) \in Seq(RouteRow)
          /\ Len(W!WithRoutes(u)) = Len(routes) + Len(t.added)
          /\ \A i \in DOMAIN routes :
                /\ w[i] = 0 => W!WithRoutes(u)[i] = routes[i]
                /\ w[i] # 0 => W!WithRoutes(u)[i] = [name |-> routes[i].name, state |-> t.file.routes[w[i]].state, text |-> "seed"]
          /\ \A j \in DOMAIN t.added : W!WithRoutes(u)[Len(routes) + j] = t.added[j]
      BY <1>1, <1>2, <2>6, <3>1, View
    <3>3. W!WithRoutes(u)[k] = row
      BY <1>5, <1>6, <2>2, <2>3, <3>2 DEF seed
    <3>4. DOMAIN W!WithRoutes(u) = DOMAIN W!WithRoutes(t) /\ Len(W!WithRoutes(u)) = Len(W!WithRoutes(t)) /\ k \in DOMAIN W!WithRoutes(t)
      BY <1>7, <1>8, <2>2, <3>2
    <3>5. W!WithRoutes(t)[k].name = seed.key
      BY <1>7, <2>2
    <3>6. ASSUME NEW i \in DOMAIN W!WithRoutes(t), i # k PROVE W!WithRoutes(u)[i] = W!WithRoutes(t)[i]
      <4>1. CASE i \in DOMAIN routes
        <5>1. i \in 1 .. MaxRoutes
          BY <1>2, <1>8, <4>1, MaxRoutesIsNatural
        <5>2. w[i] = t.wrote[i]
          BY <2>3, <3>6, <5>1
        <5> QED
          BY <1>7, <3>2, <4>1, <5>2
      <4>2. CASE i \notin DOMAIN routes
        <5>1. PICK j \in DOMAIN t.added : i = Len(routes) + j
          BY <1>9, <4>2
        <5> QED
          BY <1>7, <3>2, <5>1
      <4> QED
        BY <4>1, <4>2
    <3> QED
      <4>1. row = RowOf(seed)
        BY DEF row
      <4> QED
        BY <1>5, <1>7, <3>2, <3>3, <3>4, <3>5, <3>6, <4>1, ImportedAt
  <2> QED
    <3>1. \E u \in Transactions :
             /\ editing' = [editing EXCEPT ![r] = u]
             /\ u.file = t.file /\ u.profile = t.profile /\ u.alone = t.alone
             /\ u.upTo = t.upTo + 1 /\ u.file # Nobody /\ InFile(u)
             /\ RouteStored(W!WithRoutes(t), u.file.routes[u.upTo], W!WithRoutes(u))
      BY <1>1, <1>10, <2>3, <2>4, <2>5, <2>6
    <3> QED
      BY <3>1 DEF t
<1>13. CASE \E j \in W!Called(t.added, seed.key) : editing' = [editing EXCEPT ![r].upTo = n, ![r].added = [@ EXCEPT ![j] = row]]
  <2>1. PICK l \in W!Called(t.added, seed.key) : editing' = [editing EXCEPT ![r].upTo = n, ![r].added = [@ EXCEPT ![l] = row]]
    BY <1>13
  <2> DEFINE a == [t.added EXCEPT ![l] = row]
             v == [file |-> t.file, profile |-> t.profile, upTo |-> n, wrote |-> t.wrote, added |-> a, alone |-> t.alone]
  <2>2. l \in DOMAIN t.added /\ t.added[l].name = seed.key
    BY DEF W!Called
  <2>3. a \in Seq(RouteRow) /\ Len(a) = Len(t.added) /\ DOMAIN a = DOMAIN t.added /\ a[l] = row /\ \A j \in DOMAIN t.added : j # l => a[j] = t.added[j]
    BY <1>1, <1>6, <2>2
  <2>4. editing' = [editing EXCEPT ![r] = v]
    <3>1. editing' = [editing EXCEPT ![r] = [t EXCEPT !.upTo = n, !.added = a]]
      BY <2>1 DEF t
    <3>2. [t EXCEPT !.upTo = n, !.added = a] = v
      <4> HIDE DEF a
      <4> QED
        BY <1>1, RewrittenMore
    <3> QED
      BY <3>1, <3>2
  <2> HIDE DEF a
  <2>5. \A i \in 1 .. MaxRoutes : t.wrote[i] <= n
    BY <1>1, <1>2, MaxRoutesIsNatural DEF InFile, n
  <2>6. ASSUME NEW u \in Transactions, u = v, InFile(u) PROVE RouteStored(W!WithRoutes(t), seed, W!WithRoutes(u))
    <3>1. u.file = t.file /\ u.wrote = t.wrote /\ u.added = a
      BY <2>6
    <3> HIDE DEF v
    <3>2. /\ W!WithRoutes(u) \in Seq(RouteRow)
          /\ Len(W!WithRoutes(u)) = Len(routes) + Len(a)
          /\ \A i \in DOMAIN routes :
                /\ t.wrote[i] = 0 => W!WithRoutes(u)[i] = routes[i]
                /\ t.wrote[i] # 0 => W!WithRoutes(u)[i] = [name |-> routes[i].name, state |-> t.file.routes[t.wrote[i]].state, text |-> "seed"]
          /\ \A j \in DOMAIN a : W!WithRoutes(u)[Len(routes) + j] = a[j]
      BY <1>1, <1>2, <2>6, <3>1, View
    <3> DEFINE k == Len(routes) + l
    <3>3. W!WithRoutes(u)[k] = row /\ W!WithRoutes(t)[k] = t.added[l] /\ k \notin DOMAIN routes
      BY <1>7, <1>8, <2>2, <2>3, <3>2
    <3>4. DOMAIN W!WithRoutes(u) = DOMAIN W!WithRoutes(t) /\ Len(W!WithRoutes(u)) = Len(W!WithRoutes(t)) /\ k \in DOMAIN W!WithRoutes(t)
      BY <1>7, <1>8, <2>2, <2>3, <3>2
    <3>5. W!WithRoutes(t)[k].name = seed.key
      BY <2>2, <3>3
    <3>6. ASSUME NEW i \in DOMAIN W!WithRoutes(t), i # k PROVE W!WithRoutes(u)[i] = W!WithRoutes(t)[i]
      <4>1. CASE i \in DOMAIN routes
        BY <1>7, <3>2, <4>1
      <4>2. CASE i \notin DOMAIN routes
        <5>1. PICK j \in DOMAIN t.added : i = Len(routes) + j
          BY <1>9, <4>2
        <5>2. j # l
          BY <3>6, <5>1
        <5> QED
          BY <1>7, <2>3, <3>2, <5>1, <5>2
      <4> QED
        BY <4>1, <4>2
    <3> HIDE DEF k
    <3> QED
      <4>1. row = RowOf(seed)
        BY DEF row
      <4> QED
        BY <1>5, <1>7, <3>2, <3>3, <3>4, <3>5, <3>6, <4>1, ImportedAt
  <2> QED
    <3>1. \E u \in Transactions :
             /\ editing' = [editing EXCEPT ![r] = u]
             /\ u.file = t.file /\ u.profile = t.profile /\ u.alone = t.alone
             /\ u.upTo = t.upTo + 1 /\ u.file # Nobody /\ InFile(u)
             /\ RouteStored(W!WithRoutes(t), u.file.routes[u.upTo], W!WithRoutes(u))
      BY <1>1, <1>10, <2>3, <2>4, <2>5, <2>6
    <3> QED
      BY <3>1 DEF t
<1> QED
  BY <1>4, <1>11, <1>12, <1>13 DEF t

LEMMA AbreastStays == ASSUME UNCHANGED <<drafts, routes, last>>, NEW t, Abreast(t) PROVE Abreast(t)'
<1>1. W!WithRoutes(t)' = W!WithRoutes(t) /\ \A n, rs, seeds : Near(seeds, n, rs)' <=> Near(seeds, n, rs)
  BY DEF W!WithRoutes, Near, OneRowEach
<1>2. W!Active(drafts)' = W!Active(drafts)
  BY DEF W!Active
<1> QED
  BY <1>1, <1>2 DEF Abreast

\* A step of a transaction that stores nothing.
LEMMA OthersStay ==
  ASSUME WorkInv, UNCHANGED <<drafts, routes, last, formRaced>>, NEW r \in Clients, NEW u \in {Nobody} \union Transactions,
         editing' = [editing EXCEPT ![r] = u], u # Nobody => InFile(u) /\ Abreast(u)
  PROVE  WorkInv'
<1>1. editing' \in [Clients -> {Nobody} \union Transactions]
  BY DEF WorkInv
<1>2. ASSUME NEW q \in Clients, editing'[q] # Nobody PROVE InFile(editing'[q]) /\ Abreast(editing[q])'
  <2>1. PICK t : t = editing'[q]
    OBVIOUS
  <2>2. InFile(t) /\ Abreast(t)
    BY <1>2, <2>1 DEF WorkInv
  <2>3. Abreast(t)'
    BY <2>2, AbreastStays
  <2> QED
    BY <2>1, <2>2, <2>3
<1>3. W!Active(drafts') = W!Active(drafts)
  BY DEF W!Active
<1> QED
  BY <1>1, <1>2, <1>3 DEF WorkInv

\* What r commits leaves no other transaction alone, and that is all that has to be known of them.
LEMMA OthersLag ==
  ASSUME WorkInv, NEW S \in SUBSET Clients,
         editing' = [q \in Clients |-> IF q \in S \/ editing[q] = Nobody THEN Nobody ELSE [editing[q] EXCEPT !.alone = FALSE]]
  PROVE  /\ editing' \in [Clients -> {Nobody} \union Transactions]
         /\ \A q \in Clients : editing'[q] # Nobody => InFile(editing'[q]) /\ Abreast(editing[q])'
<1>1. ASSUME NEW q \in Clients
      PROVE  /\ editing'[q] \in {Nobody} \union Transactions
             /\ editing'[q] # Nobody => InFile(editing'[q]) /\ Abreast(editing[q])'
  <2>1. CASE q \in S \/ editing[q] = Nobody
    BY <2>1
  <2>2. CASE ~(q \in S \/ editing[q] = Nobody)
    <3>1. PICK t : t = editing[q]
      OBVIOUS
    <3> DEFINE u == [t EXCEPT !.alone = FALSE]
    <3>2. t \in Transactions /\ InFile(t)
      BY <2>2, <3>1 DEF WorkInv
    <3>3. u \in Transactions /\ u.alone = FALSE /\ u.file = t.file /\ u.upTo = t.upTo /\ u.wrote = t.wrote
      BY <3>2 DEF Transactions
    <3>4. editing'[q] = u
      BY <2>2, <3>1
    <3> HIDE DEF u
    <3>5. PICK v : v = u
      OBVIOUS
    <3>6. InFile(v)
      BY <3>2, <3>3, <3>5 DEF InFile
    <3>7. Abreast(v)'
      BY <3>3, <3>5 DEF Abreast
    <3> QED
      BY <3>3, <3>4, <3>5, <3>6, <3>7
  <2> QED
    BY <2>1, <2>2
<1> QED
  BY <1>1

\* What the transaction finds as it begins.
LEMMA Begun ==
  ASSUME WorkInv, NEW f \in {Nobody} \union SeedFiles, NEW found,
         f = Nobody \/ f.candidate.given = TRUE => found \in W!Found, found \in W!Found \union {0}
  PROVE  W!Transaction(f, found) \in Transactions /\ InFile(W!Transaction(f, found)) /\ Abreast(W!Transaction(f, found))
<1> DEFINE t == W!Transaction(f, found)
<1>1. W!Active(drafts) \subseteq Nat \ {0}
  BY DEF W!Active, WorkInv
<1>2. found \in Nat
  BY <1>1 DEF W!Found
<1>3. t.file = f /\ t.profile = found /\ t.upTo = 0 /\ t.wrote = [i \in 1 .. MaxRoutes |-> 0]
  BY DEF W!Transaction
<1>4. t \in Transactions
  BY <1>2 DEF Transactions, W!Transaction
<1>5. InFile(t)
  <2>1. ASSUME f # Nobody PROVE Len(f.routes) \in Nat
    BY <2>1, SeedTypes
  <2> HIDE DEF t
  <2> QED
    BY <1>3, <2>1 DEF InFile
<1>6. W!WithRoutes(t) = routes
  BY FirstView DEF WorkInv
<1>7. Absorbed(f.routes, 0, routes)
  BY DEF Absorbed
<1>8. Near(f.routes, 0, routes)
  BY DEF Near
<1>9. f = Nobody \/ f.candidate.given = TRUE => (found = 0 /\ W!Active(drafts) = {}) \/ found \in W!Active(drafts)
  BY DEF W!Found
<1> HIDE DEF t
<1>10. Abreast(t)
  BY <1>3, <1>6, <1>7, <1>8, <1>9 DEF Abreast
<1> QED
  BY <1>4, <1>5, <1>10 DEF t

LEMMA ProfileReadKeeps == ASSUME WorkInv, NEW r \in Clients, W!ProfileRead(r) PROVE WorkInv'
<1>1. UNCHANGED <<drafts, routes, last, formRaced>>
  BY DEF W!ProfileRead
<1>2. PICK found \in W!Found : editing' = [editing EXCEPT ![r] = W!Transaction(Nobody, found)]
  BY DEF W!ProfileRead
<1>3. W!Transaction(Nobody, found) \in Transactions /\ InFile(W!Transaction(Nobody, found)) /\ Abreast(W!Transaction(Nobody, found))
  BY Begun
<1> QED
  BY <1>1, <1>2, <1>3, OthersStay

LEMMA ImportBeginKeeps == ASSUME WorkInv, NEW r \in Clients, NEW f \in SeedFiles, W!ImportBegin(r, f) PROVE WorkInv'
<1>1. UNCHANGED <<drafts, routes, last, formRaced>>
  BY DEF W!ImportBegin
<1>2. PICK found \in (IF f.candidate.given THEN W!Found ELSE {0}) : editing' = [editing EXCEPT ![r] = W!Transaction(f, found)]
  BY DEF W!ImportBegin
<1>3. f # Nobody /\ f.candidate.given \in BOOLEAN
  BY StoresAssumption, SeedTypes
<1>4. W!Transaction(f, found) \in Transactions /\ InFile(W!Transaction(f, found)) /\ Abreast(W!Transaction(f, found))
  BY <1>2, <1>3, Begun
<1> QED
  BY <1>1, <1>2, <1>4, OthersStay

LEMMA ImportFailsKeeps == ASSUME WorkInv, NEW r \in Clients, W!ImportFails(r) PROVE WorkInv'
BY OthersStay DEF W!ImportFails

LEMMA ImportRouteKeeps == ASSUME WorkInv, NEW r \in Clients, W!ImportRoute(r) PROVE WorkInv'
<1>1. UNCHANGED <<drafts, routes, last, formRaced>> /\ editing[r] # Nobody /\ editing[r].upTo < Len(editing[r].file.routes)
  BY DEF W!ImportRoute
<1>2. PICK t : t = editing[r]
  OBVIOUS
<1>3. PICK u \in Transactions :
        /\ editing' = [editing EXCEPT ![r] = u]
        /\ u.file = editing[r].file /\ u.profile = editing[r].profile /\ u.alone = editing[r].alone
        /\ u.upTo = editing[r].upTo + 1 /\ u.file # Nobody /\ InFile(u)
        /\ RouteStored(W!WithRoutes(editing[r]), u.file.routes[u.upTo], W!WithRoutes(u))
  BY RouteIsImported
<1>4. /\ t \in Transactions /\ InFile(t) /\ Abreast(t) /\ t.upTo < Len(t.file.routes) /\ t.upTo \in Nat /\ u.file \in SeedFiles
      /\ u.file = t.file /\ u.profile = t.profile /\ u.alone = t.alone /\ u.upTo = t.upTo + 1 /\ u.file # Nobody
      /\ RouteStored(W!WithRoutes(t), u.file.routes[t.upTo + 1], W!WithRoutes(u))
  BY <1>1, <1>2, <1>3 DEF WorkInv, Transactions
<1>5. t.file.routes \in Seq(SeedRoute)
  BY <1>4, SeedTypes
<1>6. W!WithRoutes(t) \in Seq(RouteRow) /\ W!WithRoutes(u) \in Seq(RouteRow)
  BY <1>3, <1>4, View DEF WorkInv
<1>7. Absorbed(t.file.routes, t.upTo, W!WithRoutes(t)) => Absorbed(t.file.routes, t.upTo + 1, W!WithRoutes(u))
  BY <1>4, <1>5, AbsorbsNext
<1>8. t.file = last /\ Near(t.file.routes, t.upTo, W!WithRoutes(t)) => Near(t.file.routes, t.upTo + 1, W!WithRoutes(u))
  <2> SUFFICES ASSUME t.file = last, Near(t.file.routes, t.upTo, W!WithRoutes(t)) PROVE Near(t.file.routes, t.upTo + 1, W!WithRoutes(u))
    OBVIOUS
  <2>1. Absorbed(t.file.routes, Len(t.file.routes), routes) /\ routes \in Seq(RouteRow)
    BY <1>4 DEF WorkInv
  <2> QED
    BY <1>4, <1>5, <1>6, <2>1, NearNext
<1>9. Abreast(u)
  BY <1>4, <1>7, <1>8 DEF Abreast
<1> QED
  BY <1>1, <1>3, <1>9, OthersStay

LEMMA FillType ==
  ASSUME NEW facts \in Facts, NEW sent, NEW cleared
  PROVE  W!Fill(facts, sent, cleared) \in Facts
BY DEF Facts, W!Fill

\* A row of the profile is added where none is active, or written over: one at most is.
LEMMA RowAdded ==
  ASSUME drafts \in Seq(ProfileRow), NEW row \in ProfileRow, drafts' = Append(drafts, row)
  PROVE  /\ drafts' \in Seq(ProfileRow) /\ Len(drafts') = Len(drafts) + 1 /\ Len(drafts) + 1 \in DOMAIN drafts'
         /\ drafts'[Len(drafts) + 1] = row
         /\ W!Active(drafts) = {} => \A i, j \in W!Active(drafts') : i = j
<1>1. /\ drafts' \in Seq(ProfileRow) /\ Len(drafts') = Len(drafts) + 1 /\ Len(drafts) + 1 \in DOMAIN drafts'
      /\ drafts'[Len(drafts) + 1] = row /\ \A i \in 1 .. Len(drafts) : drafts'[i] = drafts[i]
  OBVIOUS
<1>2. W!Active(drafts) = {} => W!Active(drafts') \subseteq {Len(drafts) + 1}
  BY <1>1 DEF W!Active
<1> QED
  BY <1>1, <1>2

LEMMA RowWritten ==
  ASSUME drafts \in Seq(ProfileRow), NEW p \in Nat, NEW row \in ProfileRow, drafts' = [drafts EXCEPT ![p] = row]
  PROVE  /\ drafts' \in Seq(ProfileRow) /\ DOMAIN drafts' = DOMAIN drafts /\ Len(drafts') = Len(drafts)
         /\ p \in DOMAIN drafts => drafts'[p] = row
         /\ p \in W!Active(drafts) => W!Active(drafts') \subseteq W!Active(drafts)
<1>1. DOMAIN drafts = 1 .. Len(drafts) /\ Len(drafts) \in Nat
  OBVIOUS
<1>2. drafts' = [i \in DOMAIN drafts |-> IF i = p THEN row ELSE drafts[i]]
  OBVIOUS
<1>3. PICK d : d = drafts'
  OBVIOUS
<1>4. drafts' \in Seq(ProfileRow) /\ Len(drafts') = Len(drafts)
  <2>1. d = [i \in 1 .. Len(drafts) |-> IF i = p THEN row ELSE drafts[i]]
    BY <1>1, <1>2, <1>3
  <2>2. \A i \in 1 .. Len(drafts) : d[i] \in ProfileRow
    BY <2>1
  <2>3. d = [i \in 1 .. Len(drafts) |-> d[i]]
    BY <2>1
  <2>4. d \in Seq(ProfileRow) /\ Len(d) = Len(drafts)
    BY <1>1, <2>2, <2>3, Itemwise
  <2> QED
    BY <1>3, <2>4
<1>5. p \in W!Active(drafts) => W!Active(drafts') \subseteq W!Active(drafts)
  BY <1>2 DEF W!Active
<1> QED
  BY <1>2, <1>4, <1>5

LEMMA ProfileCommitKeeps ==
  ASSUME WorkInv, NEW r \in Clients, NEW sent, NEW cleared, W!ProfileCommit(r, sent, cleared)
  PROVE  WorkInv'
<1>1. last' = Nobody /\ routes' = routes /\ editing[r] # Nobody /\ editing[r].file = Nobody
  BY DEF W!ProfileCommit
<1>2. /\ editing' \in [Clients -> {Nobody} \union Transactions]
      /\ \A q \in Clients : editing'[q] # Nobody => InFile(editing'[q]) /\ Abreast(editing[q])'
  <2>1. editing' = [q \in Clients |-> IF q \in {r} \/ editing[q] = Nobody THEN Nobody ELSE [editing[q] EXCEPT !.alone = FALSE]]
    BY DEF W!ProfileCommit, W!Commits
  <2> QED
    BY <2>1, OthersLag
<1>3. PICK t : t = editing[r]
  OBVIOUS
<1>4. t \in Transactions /\ t.profile \in Nat /\ t.alone \in BOOLEAN /\ t.file = Nobody /\ Abreast(t)
  BY <1>1, <1>3 DEF WorkInv, Transactions
<1>5. formRaced' = (formRaced \/ ~t.alone) /\ IF t.profile = 0
        THEN drafts' = Append(drafts, [state |-> "ACTIVE", facts |-> W!Fill([s \in Sections |-> "none"], sent, cleared)])
        ELSE drafts' = [drafts EXCEPT ![t.profile].facts = W!Fill(@, sent, cleared)]
  BY <1>3 DEF W!ProfileCommit
<1>6. drafts' \in Seq(ProfileRow) /\ (formRaced' = FALSE => \A i, j \in W!Active(drafts') : i = j)
  <2>1. CASE t.profile = 0
    <3> DEFINE row == [state |-> "ACTIVE", facts |-> W!Fill([s \in Sections |-> "none"], sent, cleared)]
    <3>1. row \in ProfileRow
      <4>1. [s \in Sections |-> "none"] \in Facts
        BY DEF Facts
      <4>2. W!Fill([s \in Sections |-> "none"], sent, cleared) \in Facts
        BY <4>1, FillType
      <4> QED
        BY <4>2 DEF ProfileRow
    <3>2. drafts' = Append(drafts, row)
      BY <1>5, <2>1
    <3> HIDE DEF row
    <3>3. drafts' \in Seq(ProfileRow) /\ (W!Active(drafts) = {} => \A i, j \in W!Active(drafts') : i = j)
      BY <3>1, <3>2, RowAdded DEF WorkInv
    <3>4. formRaced' = FALSE => W!Active(drafts) = {}
      <4>1. 0 \notin W!Active(drafts)
        BY DEF W!Active, WorkInv
      <4> QED
        BY <1>4, <1>5, <2>1, <4>1 DEF Abreast
    <3> QED
      BY <3>3, <3>4
  <2>2. CASE t.profile # 0
    <3>2. \A i \in DOMAIN drafts : /\ drafts[i] \in ProfileRow
                                   /\ drafts'[i] = IF i = t.profile THEN [drafts[i] EXCEPT !.facts = W!Fill(@, sent, cleared)] ELSE drafts[i]
      BY <1>5, <2>2 DEF WorkInv
    <3>3. \A i \in DOMAIN drafts : drafts'[i] \in ProfileRow /\ drafts'[i].state = drafts[i].state
      <4> SUFFICES ASSUME NEW i \in DOMAIN drafts PROVE drafts'[i] \in ProfileRow /\ drafts'[i].state = drafts[i].state
        OBVIOUS
      <4>1. drafts[i].facts \in Facts
        BY <3>2 DEF ProfileRow
      <4>2. W!Fill(drafts[i].facts, sent, cleared) \in Facts
        BY <4>1, FillType
      <4> QED
        BY <3>2, <4>2 DEF ProfileRow
    <3>4. DOMAIN drafts' = DOMAIN drafts /\ drafts' = [i \in 1 .. Len(drafts) |-> drafts'[i]]
      <4>1. DOMAIN drafts = 1 .. Len(drafts)
        BY DEF WorkInv
      <4>2. drafts' = [i \in DOMAIN drafts |-> IF i = t.profile THEN [drafts[i] EXCEPT !.facts = W!Fill(@, sent, cleared)] ELSE drafts[i]]
        BY <1>5, <2>2
      <4> QED
        BY <4>1, <4>2
    <3>5. drafts' \in Seq(ProfileRow)
      <4>1. Len(drafts) \in Nat /\ DOMAIN drafts = 1 .. Len(drafts)
        BY DEF WorkInv
      <4> QED
        BY <3>3, <3>4, <4>1, Itemwise
    <3>6. W!Active(drafts') = W!Active(drafts)
      BY <3>3, <3>4 DEF W!Active
    <3>7. formRaced' = FALSE => formRaced = FALSE
      BY <1>5 DEF WorkInv
    <3> QED
      BY <3>5, <3>6, <3>7 DEF WorkInv
  <2> QED
    BY <2>1, <2>2
<1> QED
  BY <1>1, <1>2, <1>4, <1>5, <1>6 DEF WorkInv

LEMMA RoutesKept ==
  ASSUME WorkInv, last' = Nobody, UNCHANGED <<drafts, formRaced>>, W!Overtakes, routes' \in Seq(RouteRow), Len(routes') <= MaxRoutes
  PROVE  WorkInv'
<1>1. /\ editing' \in [Clients -> {Nobody} \union Transactions]
      /\ \A q \in Clients : editing'[q] # Nobody => InFile(editing'[q]) /\ Abreast(editing[q])'
  <2>0. PICK S \in SUBSET Clients : S = {}
    OBVIOUS
  <2>1. editing' = [q \in Clients |-> IF q \in S \/ editing[q] = Nobody THEN Nobody ELSE [editing[q] EXCEPT !.alone = FALSE]]
    BY <2>0 DEF W!Overtakes
  <2> QED
    BY <2>1, OthersLag
<1>2. W!Active(drafts') = W!Active(drafts)
  BY DEF W!Active
<1> QED
  BY <1>1, <1>2 DEF WorkInv

LEMMA RouteFormsKeep ==
  ASSUME WorkInv,
         \/ \E n \in RouteNames, s \in RouteStates : W!CreateRoute(n, s)
         \/ \E i \in DOMAIN routes, n \in RouteNames, s \in RouteStates : \E t \in {routes[i].text, "self"} : W!UpdateRoute(i, n, s, t)
         \/ \E i \in DOMAIN routes, s \in RouteStates : W!UpdateRouteState(i, s)
  PROVE  WorkInv' /\ last' = Nobody
<1>0. routes \in Seq(RouteRow) /\ Len(routes) <= MaxRoutes
  BY DEF WorkInv
<1>1. ASSUME NEW n \in RouteNames, NEW s \in RouteStates, W!CreateRoute(n, s) PROVE WorkInv' /\ last' = Nobody
  <2>1. [name |-> n, state |-> s, text |-> "self"] \in RouteRow
    BY DEF RouteRow
  <2>2. routes' \in Seq(RouteRow) /\ Len(routes') <= MaxRoutes /\ last' = Nobody /\ W!Overtakes /\ UNCHANGED <<drafts, formRaced>>
    <3>1. routes' = Append(routes, [name |-> n, state |-> s, text |-> "self"]) /\ Len(routes) < MaxRoutes
          /\ last' = Nobody /\ W!Overtakes /\ UNCHANGED <<drafts, formRaced>>
      BY <1>1 DEF W!CreateRoute
    <3>2. Len(routes') = Len(routes) + 1 /\ Len(routes) \in Nat
      BY <1>0, <3>1
    <3> QED
      BY <1>0, <2>1, <3>1, <3>2, Longer, MaxRoutesIsNatural
  <2> QED
    BY <2>2, RoutesKept
<1>2. ASSUME NEW i \in DOMAIN routes, NEW n \in RouteNames, NEW s \in RouteStates, NEW t \in {routes[i].text, "self"}, W!UpdateRoute(i, n, s, t)
      PROVE  WorkInv' /\ last' = Nobody
  <2>1. [name |-> n, state |-> s, text |-> t] \in RouteRow
    <3>1. routes[i] \in RouteRow
      BY <1>0
    <3>2. routes[i].text \in {"seed", "self"}
      BY <3>1 DEF RouteRow
    <3>3. t \in {"seed", "self"}
      BY <3>2
    <3> QED
      BY <3>3 DEF RouteRow
  <2>2. routes' \in Seq(RouteRow) /\ Len(routes') = Len(routes) /\ last' = Nobody /\ W!Overtakes /\ UNCHANGED <<drafts, formRaced>>
    BY <1>0, <1>2, <2>1 DEF W!UpdateRoute
  <2> QED
    BY <1>0, <2>2, RoutesKept
<1>3. ASSUME NEW i \in DOMAIN routes, NEW s \in RouteStates, W!UpdateRouteState(i, s) PROVE WorkInv' /\ last' = Nobody
  <2>1. routes' = [routes EXCEPT ![i].state = s] /\ last' = Nobody /\ W!Overtakes /\ UNCHANGED <<drafts, formRaced>>
    BY <1>3 DEF W!UpdateRouteState
  <2>2. [routes[i] EXCEPT !.state = s] \in RouteRow
    <3>1. routes[i] \in RouteRow
      BY <1>0
    <3> QED
      BY <3>1 DEF RouteRow
  <2>3. routes' \in Seq(RouteRow) /\ Len(routes') = Len(routes)
    <3>1. routes' = [routes EXCEPT ![i] = [routes[i] EXCEPT !.state = s]]
      BY <2>1
    <3> QED
      BY <1>0, <2>2, <3>1
  <2> QED
    BY <1>0, <2>1, <2>3, RoutesKept
<1> QED
  BY <1>1, <1>2, <1>3

\* What the import stores: the profile it found, or a new one, is the file's.
LEMMA ProfileStored ==
  ASSUME WorkInv, NEW t \in Transactions, t.file # Nobody, drafts' = W!WithProfile(t)
  PROVE  /\ drafts' \in Seq(ProfileRow)
         /\ t.alone = TRUE /\ Abreast(t) =>
               /\ (\A i, j \in W!Active(drafts) : i = j) => \A i, j \in W!Active(drafts') : i = j
               /\ t.file.candidate.given => \E i \in DOMAIN drafts' : drafts'[i] = ProfileOf(t.file)
<1> DEFINE f == t.file
           row == ProfileOf(f)
<1>1. f \in SeedFiles /\ t.profile \in Nat /\ drafts \in Seq(ProfileRow)
  BY DEF Transactions, WorkInv
<1>2. f.candidate.given \in BOOLEAN /\ row \in ProfileRow
  BY <1>1, SeedTypes DEF ProfileOf, ProfileRow
<1>3. drafts' = IF ~f.candidate.given THEN drafts
               ELSE IF t.profile = 0 THEN Append(drafts, row) ELSE [drafts EXCEPT ![t.profile] = row]
  BY DEF W!WithProfile, ProfileOf
<1>4. 0 \notin W!Active(drafts)
  BY <1>1 DEF W!Active
<1> HIDE DEF row, f
<1>5. CASE ~f.candidate.given
  <2>1. drafts' = drafts /\ W!Active(drafts') = W!Active(drafts)
    BY <1>3, <1>5
  <2> QED
    BY <1>1, <1>5, <2>1 DEF f
<1>6. CASE f.candidate.given /\ t.profile = 0
  <2>1. /\ drafts' \in Seq(ProfileRow) /\ Len(drafts) + 1 \in DOMAIN drafts' /\ drafts'[Len(drafts) + 1] = row
        /\ W!Active(drafts) = {} => \A i, j \in W!Active(drafts') : i = j
    BY <1>1, <1>2, <1>3, <1>6, RowAdded
  <2>2. t.alone = TRUE /\ Abreast(t) => W!Active(drafts) = {}
    BY <1>2, <1>4, <1>6 DEF Abreast, f
  <2> QED
    BY <2>1, <2>2 DEF row, f
<1>7. CASE f.candidate.given /\ t.profile # 0
  <2>1. /\ drafts' \in Seq(ProfileRow) /\ DOMAIN drafts' = DOMAIN drafts
        /\ t.profile \in DOMAIN drafts => drafts'[t.profile] = row
        /\ t.profile \in W!Active(drafts) => W!Active(drafts') \subseteq W!Active(drafts)
    BY <1>1, <1>2, <1>3, <1>7, RowWritten
  <2>2. t.alone = TRUE /\ Abreast(t) => t.profile \in W!Active(drafts) /\ t.profile \in DOMAIN drafts
    BY <1>2, <1>7 DEF Abreast, f, W!Active
  <2> QED
    BY <2>1, <2>2 DEF row, f
<1> QED
  BY <1>2, <1>5, <1>6, <1>7

LEMMA ImportCommitKeeps == ASSUME WorkInv, NEW r \in Clients, W!ImportCommit(r) PROVE WorkInv'
<1>1. PICK t : t = editing[r]
  OBVIOUS
<1>2. /\ t # Nobody /\ t.file # Nobody /\ t.upTo = Len(t.file.routes)
      /\ drafts' = W!WithProfile(t) /\ routes' = W!WithRoutes(t) /\ Len(routes') <= MaxRoutes
      /\ last' = (IF t.alone THEN t.file ELSE Nobody) /\ formRaced' = (formRaced \/ ~t.alone)
  BY <1>1 DEF W!ImportCommit
<1>3. t \in Transactions /\ t.file \in SeedFiles /\ t.alone \in BOOLEAN /\ InFile(t) /\ Abreast(t) /\ routes \in Seq(RouteRow) /\ Len(routes) <= MaxRoutes
  BY <1>1, <1>2 DEF WorkInv, Transactions
<1>4. /\ editing' \in [Clients -> {Nobody} \union Transactions]
      /\ \A q \in Clients : editing'[q] # Nobody => InFile(editing'[q]) /\ Abreast(editing[q])'
  <2>1. editing' = [q \in Clients |-> IF q \in {r} \/ editing[q] = Nobody THEN Nobody ELSE [editing[q] EXCEPT !.alone = FALSE]]
    BY DEF W!ImportCommit, W!Commits
  <2> QED
    BY <2>1, OthersLag
<1>5. routes' \in Seq(RouteRow)
  BY <1>2, <1>3, View
<1>6. /\ drafts' \in Seq(ProfileRow)
      /\ t.alone = TRUE =>
            /\ (\A i, j \in W!Active(drafts) : i = j) => \A i, j \in W!Active(drafts') : i = j
            /\ t.file.candidate.given => \E i \in DOMAIN drafts' : drafts'[i] = ProfileOf(t.file)
  BY <1>2, <1>3, ProfileStored
<1>7. formRaced' = FALSE => \A i, j \in W!Active(drafts') : i = j
  <2>1. formRaced' = FALSE => formRaced = FALSE /\ t.alone = TRUE
    BY <1>2, <1>3 DEF WorkInv
  <2>2. formRaced = FALSE => \A i, j \in W!Active(drafts) : i = j
    BY DEF WorkInv
  <2> QED
    BY <1>6, <2>1, <2>2
<1>8. ASSUME last' # Nobody
      PROVE  /\ last' \in SeedFiles
             /\ (last'.candidate.given /\ last'.candidate.state = "ACTIVE") => \E i \in DOMAIN drafts' : drafts'[i] = ProfileOf(last')
             /\ Absorbed(last'.routes, Len(last'.routes), routes')
  <2>1. t.alone = TRUE /\ last' = t.file
    BY <1>2, <1>3, <1>8
  <2>2. Absorbed(t.file.routes, Len(t.file.routes), W!WithRoutes(t))
    BY <1>2, <1>3, <2>1 DEF Abreast
  <2> QED
    BY <1>2, <1>3, <1>6, <2>1, <2>2
<1>9. formRaced' \in BOOLEAN
  BY <1>2, <1>3 DEF WorkInv
<1> QED
  BY <1>2, <1>4, <1>5, <1>6, <1>7, <1>8, <1>9 DEF WorkInv

LEMMA WorkInvNext == WorkInv /\ W!Next => WorkInv'
BY ProfileReadKeeps, ProfileCommitKeeps, RouteFormsKeep, ImportBeginKeeps, ImportRouteKeeps, ImportFailsKeeps, ImportCommitKeeps DEF W!Next

\* A file that is imported again, alone.
LEMMA ImportedTwice ==
  ASSUME WorkInv, last # Nobody, last.candidate.state = "ACTIVE", NEW r \in Clients, W!ImportCommit(r), last' = last
  PROVE  /\ Len(drafts') = Len(drafts) /\ Len(routes') = Len(routes)
         /\ W!Unambiguous => drafts' = drafts /\ routes' = routes
<1>1. last \in SeedFiles /\ (last.candidate.given => \E i \in DOMAIN drafts : drafts[i] = ProfileOf(last))
  BY DEF WorkInv
<1>2. PICK t : t = editing[r]
  OBVIOUS
<1>3. /\ t # Nobody /\ t.file # Nobody /\ t.upTo = Len(t.file.routes) /\ drafts' = W!WithProfile(t) /\ routes' = W!WithRoutes(t)
      /\ last' = (IF t.alone THEN t.file ELSE Nobody)
  BY <1>2 DEF W!ImportCommit
<1>4. t \in Transactions /\ t.alone \in BOOLEAN /\ t.profile \in Nat /\ InFile(t) /\ Abreast(t) /\ routes \in Seq(RouteRow) /\ Len(routes) <= MaxRoutes
  BY <1>2, <1>3 DEF WorkInv, Transactions
<1>5. t.alone = TRUE /\ t.file = last
  BY <1>3, <1>4
<1>6. Len(routes') = Len(routes) /\ (OneRowEach => routes' = routes)
  <2>1. Near(last.routes, Len(last.routes), routes') /\ routes' \in Seq(RouteRow)
    BY <1>3, <1>4, <1>5, View DEF Abreast
  <2>2. Len(last.routes) \in Nat
    BY <1>1, SeedTypes
  <2>3. Len(routes') = Len(routes) /\ (OneRowEach => \A i \in DOMAIN routes : routes'[i] = routes[i])
    BY <2>1, <2>2 DEF Near
  <2> QED
    BY <1>4, <2>1, <2>3
<1>7. Len(drafts') = Len(drafts) /\ ((\A i, j \in W!Active(drafts) : i = j) => drafts' = drafts)
  <2>1. last.candidate.given \in BOOLEAN /\ drafts \in Seq(ProfileRow)
    BY <1>1, SeedTypes DEF WorkInv
  <2>2. drafts' = IF ~last.candidate.given THEN drafts
                  ELSE IF t.profile = 0 THEN Append(drafts, ProfileOf(last)) ELSE [drafts EXCEPT ![t.profile] = ProfileOf(last)]
    BY <1>3, <1>5 DEF W!WithProfile, ProfileOf
  <2>3. CASE ~last.candidate.given
    BY <2>2, <2>3
  <2>4. CASE last.candidate.given
    <3>1. PICK k \in DOMAIN drafts : drafts[k] = ProfileOf(last)
      BY <1>1, <2>4
    <3>2. k \in W!Active(drafts)
      BY <3>1 DEF W!Active, ProfileOf
    <3>3. t.profile \in W!Active(drafts)
      BY <1>4, <1>5, <2>1, <2>4, <3>2 DEF Abreast
    <3>4. t.profile # 0 /\ t.profile \in DOMAIN drafts
      BY <2>1, <3>3 DEF W!Active
    <3>5. drafts' = [drafts EXCEPT ![t.profile] = ProfileOf(last)]
      BY <2>2, <2>4, <3>4
    <3>6. Len(drafts') = Len(drafts)
      BY <2>1, <3>5
    <3>7. ASSUME t.profile = k PROVE drafts' = drafts
      BY <2>1, <3>1, <3>5, <3>7
    <3> QED
      BY <3>2, <3>3, <3>6, <3>7
  <2> QED
    BY <2>1, <2>3, <2>4
<1>8. W!Unambiguous => OneRowEach /\ \A i, j \in W!Active(drafts) : i = j
  BY AtMostOne DEF W!Unambiguous, WorkInv, OneRowEach
<1> QED
  BY <1>6, <1>7, <1>8

\* For any seed files, routes and requests: an import of the file imported last, with nothing
\* committed in between or beside it, adds no profile and no route and changes none; and
\* only saves and imports that overlapped another commit leave two active profiles
\* (mozare_import.py, radar_misc.py).
THEOREM ImportAddsNothing == StoresSpec => ImportTwiceIsOnce
<1> DEFINE Inv == part = "workspace" => WorkInv
<1>1. StoresInit => Inv
  BY WorkInvInit DEF StoresInit, StoresAtStart
<1>2. Inv /\ [StoresNext]_stores => Inv'
  <2> SUFFICES ASSUME Inv, [StoresNext]_stores, part' = "workspace" PROVE WorkInv'
    OBVIOUS
  <2>1. part = "workspace" /\ WorkInv
    BY DEF StoresNext, stores, api
  <2>2. CASE W!Next
    BY <2>1, <2>2, WorkInvNext
  <2>3. CASE UNCHANGED workspace
    <3>1. UNCHANGED <<drafts, routes, last, formRaced>> /\ editing' = editing
      BY <2>3 DEF workspace
    <3>2. ASSUME NEW q \in Clients, editing'[q] # Nobody PROVE InFile(editing'[q]) /\ Abreast(editing[q])'
      <4>1. PICK t : t = editing'[q]
        OBVIOUS
      <4>2. InFile(t) /\ Abreast(t)
        BY <2>1, <3>1, <3>2, <4>1 DEF WorkInv
      <4>3. Abreast(t)'
        BY <3>1, <4>2, AbreastStays
      <4> QED
        BY <4>1, <4>2, <4>3
    <3>3. W!Active(drafts') = W!Active(drafts)
      BY <3>1
    <3> QED
      BY <2>1, <3>1, <3>2, <3>3 DEF WorkInv
  <2> QED
    BY <2>1, <2>2, <2>3 DEF StoresNext, stores
<1>3. Inv /\ [StoresNext]_stores =>
        [/\ last = last' /\ last # Nobody /\ last.candidate.state = "ACTIVE" =>
               /\ Len(drafts') = Len(drafts) /\ Len(routes') = Len(routes)
               /\ W!Unambiguous => drafts' = drafts /\ routes' = routes
         /\ ~formRaced' => W!Cardinality(W!Active(drafts')) <= 1]_(W!vars)
  <2> SUFFICES ASSUME Inv, [StoresNext]_stores, ~UNCHANGED W!vars
               PROVE  /\ last = last' /\ last # Nobody /\ last.candidate.state = "ACTIVE" =>
                             /\ Len(drafts') = Len(drafts) /\ Len(routes') = Len(routes)
                             /\ W!Unambiguous => drafts' = drafts /\ routes' = routes
                      /\ ~formRaced' => W!Cardinality(W!Active(drafts')) <= 1
    OBVIOUS
  <2>1. part = "workspace" /\ W!Next
    BY DEF StoresNext, stores, workspace, W!vars
  <2>2. WorkInv /\ WorkInv'
    BY <2>1, WorkInvNext
  <2>3. ~formRaced' => W!Cardinality(W!Active(drafts')) <= 1
    BY <2>2, AtMostOne DEF WorkInv
  <2>4. ASSUME last = last', last # Nobody, last.candidate.state = "ACTIVE"
        PROVE  /\ Len(drafts') = Len(drafts) /\ Len(routes') = Len(routes)
               /\ W!Unambiguous => drafts' = drafts /\ routes' = routes
    <3>1. CASE \E r \in Clients : W!ImportCommit(r)
      BY <2>2, <2>4, <3>1, ImportedTwice
    <3>2. CASE \E r \in Clients : W!ProfileRead(r) \/ W!ImportRoute(r) \/ W!ImportFails(r) \/ \E f \in SeedFiles : W!ImportBegin(r, f)
      <4>1. drafts' = drafts /\ routes' = routes
        BY <3>2 DEF W!ProfileRead, W!ImportRoute, W!ImportFails, W!ImportBegin
      <4> QED
        BY <4>1
    <3>3. \/ \E r \in Clients : W!ProfileRead(r) \/ W!ImportRoute(r) \/ W!ImportFails(r) \/ \E f \in SeedFiles : W!ImportBegin(r, f)
          \/ \E r \in Clients : W!ImportCommit(r)
      <4>1. ASSUME NEW r \in Clients, NEW sent, NEW cleared, W!ProfileCommit(r, sent, cleared) PROVE FALSE
        BY <2>4, <4>1 DEF W!ProfileCommit
      <4> QED
        BY <2>1, <2>2, <2>4, <4>1, RouteFormsKeep DEF W!Next
    <3> QED
      BY <3>1, <3>2, <3>3
  <2> QED
    BY <2>3, <2>4
<1> QED
  BY <1>1, <1>2, <1>3, PTL DEF StoresSpec, ImportTwiceIsOnce, W!ImportTwiceIsOnce

-----------------------------------------------------------------------------
(* The schema: the migrations.                                             *)

IsList(s) == Len(s) \in Nat /\ s = [i \in 1 .. Len(s) |-> s[i]]

LEMMA UpsAreLists == M!Latest = 13 /\ \A v \in 1 .. M!Latest : IsList(M!Ups[v])
<1>1. M!Latest = 13
  BY DEF M!Latest, M!Ups
<1>2. /\ M!Ups[1] = M!Initial /\ M!Ups[2] = M!Role /\ M!Ups[3] = M!Invites /\ M!Ups[4] = M!Hardening /\ M!Ups[5] = M!ApiKeys
      /\ M!Ups[6] = M!LlmUsage /\ M!Ups[7] = M!Consent /\ M!Ups[8] = M!FitExplanation /\ M!Ups[9] = M!R001 /\ M!Ups[10] = M!R002
      /\ M!Ups[11] = M!R003 /\ M!Ups[12] = M!R004 /\ M!Ups[13] = M!R005
  BY DEF M!Ups
<1>3. IsList(M!Initial)
  BY DEF IsList, M!Initial
<1>4. IsList(M!Role) /\ IsList(M!Invites) /\ IsList(M!LlmUsage)
  BY DEF IsList, M!Role, M!Invites, M!LlmUsage
<1>5. IsList(M!ApiKeys) /\ IsList(M!Consent)
  BY DEF IsList, M!ApiKeys, M!Consent
<1>6. IsList(M!FitExplanation)
  BY DEF IsList, M!FitExplanation
<1>7. IsList(M!Hardening)
  BY DEF IsList, M!Hardening
<1>8. IsList(M!R001)
  BY DEF IsList, M!R001
<1>9. IsList(M!R002)
  BY DEF IsList, M!R002
<1>10. IsList(M!R003)
  BY DEF IsList, M!R003
<1>11. IsList(M!R004)
  BY DEF IsList, M!R004
<1>12. IsList(M!R005)
  BY DEF IsList, M!R005
<1> QED
  BY <1>1, <1>2, <1>3, <1>4, <1>5, <1>6, <1>7, <1>8, <1>9, <1>10, <1>11, <1>12

LEMMA NewIsList ==
  ASSUME NEW v \in 1 .. M!Latest
  PROVE  /\ IsList(M!New(v)) /\ IsList(M!Ups[v])
         /\ M!Guarded(v) => M!New(v) = <<M!Column("fit_explanation")>> /\ M!Downs(v) = <<M!Column("fit_explanation")>>
         /\ ~M!Guarded(v) => /\ M!New(v) = M!Ups[v]
                             /\ M!Downs(v) = [i \in 1 .. Len(M!Ups[v]) |-> M!Ups[v][(Len(M!Ups[v]) + 1) - i]]
<1>1. IsList(M!Ups[v])
  BY UpsAreLists
<1>2. CASE M!Guarded(v)
  <2>1. M!Downs(v) = <<M!Column("fit_explanation")>>
    BY <1>2 DEF M!Downs
  <2> DEFINE c == M!Column("fit_explanation")
  <2> HIDE DEF c
  <2>2. M!Reverse(<<c>>) = <<c>>
    BY DEF M!Reverse
  <2>3. M!New(v) = <<c>>
    BY <1>2, <2>1, <2>2 DEF M!New, c
  <2>4. IsList(<<c>>)
    BY DEF IsList
  <2> QED
    BY <1>1, <1>2, <2>1, <2>3, <2>4 DEF c
<1>3. CASE ~M!Guarded(v)
  <2> DEFINE s == M!Ups[v]
  <2>1. M!New(v) = s /\ M!Downs(v) = M!Reverse(s)
    BY <1>3 DEF M!New, M!Downs
  <2> HIDE DEF s
  <2>2. M!Reverse(s) = [i \in 1 .. Len(s) |-> s[(Len(s) - i) + 1]]
    BY DEF M!Reverse
  <2>3. IsList(s)
    BY <1>1 DEF s
  <2>4. \A i \in 1 .. Len(s) : (Len(s) - i) + 1 = (Len(s) + 1) - i
    BY <2>3 DEF IsList
  <2>5. M!Downs(v) = [i \in 1 .. Len(s) |-> s[(Len(s) + 1) - i]]
    BY <2>1, <2>2, <2>4
  <2> QED
    BY <1>3, <2>1, <2>3, <2>5 DEF s
<1> QED
  BY <1>2, <1>3

LEMMA OfGrows ==
  ASSUME NEW S, NEW s, NEW kind
  PROVE  M!Of(S \union {s}, kind) = M!Of(S, kind) \union (IF s.kind = kind THEN {s.name} ELSE {})
BY DEF M!Of

GrownTables(s, T) == IF s.kind = "column" THEN T ELSE T \union {s.name}
GrownColumns(s, C) == IF s.kind = "column" THEN C \union {s.name} ELSE C \union M!Along(s.name)
ShrunkTables(s, T) == IF s.kind = "column" THEN T ELSE T \ {s.name}
ShrunkColumns(s, C) == IF s.kind = "column" THEN C \ {s.name} ELSE {c \in C : M!Later[c] # s.name}

LEMMA MadeGrows ==
  ASSUME NEW S, NEW s, s.kind \in {"table", "column"}
  PROVE  /\ M!Made(S \union {s}).tables = GrownTables(s, M!Made(S).tables)
         /\ M!Made(S \union {s}).columns = GrownColumns(s, M!Made(S).columns)
<1>1. CASE s.kind = "column"
  <2>1. M!Of(S \union {s}, "table") = M!Of(S, "table") /\ M!Of(S \union {s}, "column") = M!Of(S, "column") \union {s.name}
    BY <1>1, OfGrows
  <2> QED
    BY <1>1, <2>1 DEF M!Made, GrownTables, GrownColumns
<1>2. CASE s.kind = "table"
  <2>1. M!Of(S \union {s}, "table") = M!Of(S, "table") \union {s.name} /\ M!Of(S \union {s}, "column") = M!Of(S, "column")
    BY <1>2, OfGrows
  <2>2. UNION {M!Along(t) : t \in M!Of(S, "table") \union {s.name}} = M!Along(s.name) \union UNION {M!Along(t) : t \in M!Of(S, "table")}
    OBVIOUS
  <2> QED
    BY <1>2, <2>1, <2>2 DEF M!Made, GrownTables, GrownColumns
<1> QED
  BY <1>1, <1>2

LEMMA UptoGrows ==
  ASSUME NEW v \in 1 .. M!Latest, NEW k \in 1 .. Len(M!New(v))
  PROVE  M!Upto(v, k) = M!Upto(v, k - 1) \union {M!New(v)[k]}
<1>1. Len(M!New(v)) \in Nat
  BY NewIsList DEF IsList
<1>2. 1 .. k = (1 .. (k - 1)) \union {k}
  BY <1>1
<1> QED
  BY <1>2 DEF M!Upto

\* A statement of an upgrade and the schema it is for.
LEMMA Fits ==
  ASSUME NEW v \in 1 .. M!Latest, NEW k \in 1 .. Len(M!New(v))
  PROVE  LET s == M!New(v)[k]
             db == M!Made(M!Upto(v, k - 1))
         IN  \/ s.kind = "column" /\ s.name \notin db.columns
             \/ /\ s.kind = "table" /\ s.name \notin db.tables
                /\ s.refs = M!Refs[s.name] /\ s.refs \subseteq db.tables \union {s.name}
                /\ \A c \in db.columns : M!Later[c] # s.name
                /\ \A c \in M!Along(s.name) : M!Later[c] = s.name
<1>1. k \in DOMAIN M!New(v)
  <2>1. DOMAIN M!New(v) = 1 .. Len(M!New(v))
    BY NewIsList DEF IsList
  <2> QED
    BY <2>1
<1> QED
  BY <1>1, MigrationsAssumption DEF M!MigrationsFit

\* Up, and down again.
LEMMA MadeByStep ==
  ASSUME NEW v \in 1 .. M!Latest, NEW k \in 1 .. Len(M!New(v))
  PROVE  LET s == M!New(v)[k]
             less == M!Made(M!Upto(v, k - 1))
             more == M!Made(M!Upto(v, k))
         IN  /\ GrownTables(s, less.tables) = more.tables /\ GrownColumns(s, less.columns) = more.columns
             /\ ShrunkTables(s, more.tables) = less.tables /\ ShrunkColumns(s, more.columns) = less.columns
<1> DEFINE s == M!New(v)[k]
           less == M!Made(M!Upto(v, k - 1))
           more == M!Made(M!Upto(v, k))
<1>1. \/ s.kind = "column" /\ s.name \notin less.columns
      \/ /\ s.kind = "table" /\ s.name \notin less.tables
         /\ \A c \in less.columns : M!Later[c] # s.name
         /\ \A c \in M!Along(s.name) : M!Later[c] = s.name
  BY Fits
<1>2. more.tables = GrownTables(s, less.tables) /\ more.columns = GrownColumns(s, less.columns)
  <2>1. M!Upto(v, k) = M!Upto(v, k - 1) \union {s}
    BY UptoGrows
  <2>2. s.kind \in {"table", "column"}
    BY <1>1
  <2> DEFINE S == M!Upto(v, k - 1)
  <2>3. less = M!Made(S) /\ more = M!Made(S \union {s})
    BY <2>1
  <2> HIDE DEF s, S, less, more
  <2>4. M!Made(S \union {s}).tables = GrownTables(s, M!Made(S).tables)
        /\ M!Made(S \union {s}).columns = GrownColumns(s, M!Made(S).columns)
    BY <2>2, MadeGrows
  <2> QED
    BY <2>3, <2>4
<1> DEFINE Goal == /\ GrownTables(s, less.tables) = more.tables /\ GrownColumns(s, less.columns) = more.columns
                   /\ ShrunkTables(s, more.tables) = less.tables /\ ShrunkColumns(s, more.columns) = less.columns
<1> HIDE DEF s, less, more
<1>3. ASSUME s.kind = "column" /\ s.name \notin less.columns PROVE Goal
  BY <1>2, <1>3 DEF GrownTables, GrownColumns, ShrunkTables, ShrunkColumns
<1>4. ASSUME s.kind = "table", s.name \notin less.tables,
             \A c \in less.columns : M!Later[c] # s.name, \A c \in M!Along(s.name) : M!Later[c] = s.name
      PROVE  Goal
  <2>1. more.tables = less.tables \union {s.name} /\ more.columns = less.columns \union M!Along(s.name)
    BY <1>2, <1>4 DEF GrownTables, GrownColumns
  <2>2. ShrunkTables(s, more.tables) = less.tables
    BY <1>4, <2>1 DEF ShrunkTables
  <2>3. ShrunkColumns(s, more.columns) = {c \in more.columns : M!Later[c] # s.name}
    BY <1>4 DEF ShrunkColumns
  <2>4. {c \in more.columns : M!Later[c] # s.name} = less.columns
    BY <1>4, <2>1
  <2> QED
    BY <1>2, <2>2, <2>3, <2>4
<1>5. Goal
  BY <1>1, <1>3, <1>4
<1> QED
  BY <1>5 DEF s, less, more

LEMMA MadeAtVersion ==
  ASSUME NEW v \in 1 .. M!Latest
  PROVE  /\ M!Upto(v, 0) = M!Statements(v - 1)
         /\ M!Made(M!Upto(v, Len(M!New(v)))) = M!Made(M!Statements(v))
<1>1. M!Upto(v, 0) = M!Statements(v - 1)
  BY DEF M!Upto
<1>2. v \in Nat /\ v - 1 \in Nat
  BY UpsAreLists
<1>3. M!Statements(v) = M!Statements(v - 1) \union M!Range(M!Ups[v])
  <2>1. 1 .. v = (1 .. (v - 1)) \union {v}
    BY <1>2
  <2> QED
    BY <2>1 DEF M!Statements
<1>4. M!Upto(v, Len(M!New(v))) = M!Statements(v - 1) \union M!Range(M!New(v))
  <2>1. DOMAIN M!New(v) = 1 .. Len(M!New(v))
    BY NewIsList DEF IsList
  <2> QED
    BY <2>1 DEF M!Upto, M!Range
<1>5. CASE ~M!Guarded(v)
  BY <1>1, <1>3, <1>4, <1>5, NewIsList
<1>6. CASE M!Guarded(v)
  <2> DEFINE S == M!Statements(v - 1)
             Fresh == M!Range(M!New(v))
             U == M!Range(M!Ups[v])
  <2>1. Fresh \subseteq U
    <3>1. M!New(v) = <<M!Column("fit_explanation")>> /\ M!Ups[v] = M!FitExplanation
      BY <1>6, NewIsList DEF M!Guarded
    <3>2. Fresh = {M!Column("fit_explanation")}
      BY <3>1 DEF M!Range
    <3>3. M!Column("fit_explanation") = M!FitExplanation[1] /\ 1 \in DOMAIN M!FitExplanation
      BY DEF M!FitExplanation
    <3> QED
      BY <3>1, <3>2, <3>3 DEF M!Range
  <2>2. \A s \in U \ Fresh : s.kind = "column" /\ s.name \in M!Made(S).columns
    BY <1>6, MigrationsAssumption DEF M!MigrationsFit
  <2>3. M!Made(S).columns = M!Of(S, "column") \union UNION {M!Along(t) : t \in M!Of(S, "table")}
    BY DEF M!Made
  <2> HIDE DEF S, Fresh, U
  <2>4. M!Of(S \union U, "table") = M!Of(S \union Fresh, "table")
    BY <2>1, <2>2 DEF M!Of
  <2>5. \A t \in M!Of(S, "table") : t \in M!Of(S \union Fresh, "table")
    BY DEF M!Of
  <2>6. M!Of(S \union Fresh, "column") \subseteq M!Of(S \union U, "column")
    BY <2>1 DEF M!Of
  <2>7. M!Of(S \union U, "column") \subseteq M!Of(S \union Fresh, "column") \union M!Made(S).columns
    BY <2>2 DEF M!Of
  <2>8. M!Made(S).columns \subseteq M!Made(S \union Fresh).columns
    <3>1. M!Of(S, "column") \subseteq M!Of(S \union Fresh, "column")
      BY DEF M!Of
    <3>2. M!Made(S \union Fresh).columns = M!Of(S \union Fresh, "column") \union UNION {M!Along(t) : t \in M!Of(S \union Fresh, "table")}
      BY DEF M!Made
    <3> QED
      BY <2>3, <2>5, <3>1, <3>2
  <2>9. M!Made(S \union U) = M!Made(S \union Fresh)
    BY <2>4, <2>6, <2>7, <2>8 DEF M!Made
  <2> QED
    BY <1>1, <1>3, <1>4, <2>9 DEF S, Fresh, U
<1> QED
  BY <1>5, <1>6

Closed(T) == \A t \in T : M!Refs[t] \subseteq T

LEMMA NothingMade == M!Made(M!Statements(0)).tables = {} /\ M!Made(M!Statements(0)).columns = {}
<1>1. M!Statements(0) = {}
  BY DEF M!Statements
<1>2. M!Of({}, "table") = {} /\ M!Of({}, "column") = {}
  BY DEF M!Of
<1> QED
  BY <1>1, <1>2 DEF M!Made

\* Whatever a table that the migrations made refers to, they have made.
LEMMA MadeIsClosed == \A v \in 1 .. M!Latest : \A k \in 0 .. Len(M!New(v)) : Closed(M!Made(M!Upto(v, k)).tables)
<1> DEFINE T == {v \in Nat : v <= M!Latest => Closed(M!Made(M!Statements(v)).tables)}
           Within(v, k) == Closed(M!Made(M!Upto(v, k)).tables)
<1>1. ASSUME NEW v \in 1 .. M!Latest, Closed(M!Made(M!Statements(v - 1)).tables), NEW k \in 0 .. Len(M!New(v))
      PROVE  Within(v, k)
  <2> DEFINE Steady == {n \in Nat : n <= Len(M!New(v)) => Within(v, n)}
  <2>0. Len(M!New(v)) \in Nat
    BY NewIsList DEF IsList
  <2>1. 0 \in Steady
    BY <1>1, MadeAtVersion
  <2>2. ASSUME NEW n \in Nat, n \in Steady, n + 1 <= Len(M!New(v)) PROVE Within(v, n + 1)
    <3> DEFINE s == M!New(v)[n + 1]
               less == M!Made(M!Upto(v, n))
               more == M!Made(M!Upto(v, n + 1))
    <3>1. n + 1 \in 1 .. Len(M!New(v)) /\ (n + 1) - 1 = n
      BY <2>0, <2>2
    <3>2. more.tables = GrownTables(s, less.tables)
      BY <3>1, MadeByStep
    <3>3. s.kind = "column" \/ (s.kind = "table" /\ M!Refs[s.name] \subseteq less.tables \union {s.name})
      <4>1. \/ s.kind = "column"
            \/ s.kind = "table" /\ s.refs = M!Refs[s.name] /\ s.refs \subseteq less.tables \union {s.name}
        BY <3>1, Fits
      <4> HIDE DEF s, less
      <4> QED
        BY <4>1
    <3>4. Closed(less.tables)
      BY <2>0, <2>2
    <3> HIDE DEF s, less
    <3>5. Closed(more.tables)
      <4> HIDE DEF more
      <4> QED
        BY <3>2, <3>3, <3>4 DEF Closed, GrownTables
    <3> QED
      BY <3>5
  <2>3. ASSUME NEW n \in Nat, n \in Steady PROVE n + 1 \in Steady
    <3> HIDE DEF Within
    <3> QED
      BY <2>2, <2>3
  <2> HIDE DEF Steady, Within
  <2>4. k \in Steady
    BY <2>0, <2>1, <2>3, Induction
  <2> QED
    BY <2>0, <2>4 DEF Steady
<1>2. 0 \in T
  BY NothingMade DEF Closed
<1>3. ASSUME NEW v \in Nat, v \in T PROVE v + 1 \in T
  <2> SUFFICES ASSUME v + 1 <= M!Latest PROVE Closed(M!Made(M!Statements(v + 1)).tables)
    OBVIOUS
  <2>1. v + 1 \in 1 .. M!Latest /\ (v + 1) - 1 = v /\ Closed(M!Made(M!Statements(v)).tables)
    BY <1>3, UpsAreLists
  <2>2. Len(M!New(v + 1)) \in 0 .. Len(M!New(v + 1))
    BY <2>1, NewIsList DEF IsList
  <2>3. Within(v + 1, Len(M!New(v + 1)))
    <3> HIDE DEF Within
    <3> QED
      BY <1>1, <2>1, <2>2
  <2> QED
    BY <2>1, <2>3, MadeAtVersion
<1>4. \A v \in Nat : v \in T
  <2> HIDE DEF T
  <2> QED
    BY <1>2, <1>3, Induction
<1>5. ASSUME NEW v \in 1 .. M!Latest PROVE Closed(M!Made(M!Statements(v - 1)).tables)
  <2>1. v - 1 \in Nat /\ v - 1 <= M!Latest
    BY UpsAreLists
  <2> QED
    BY <1>4, <2>1
<1> QED
  BY <1>1, <1>5

LEMMA RefsAgree ==
  ASSUME NEW n \in 0 .. M!Latest, NEW s \in M!Statements(n), s.kind = "table"
  PROVE  s.refs = M!Refs[s.name]
<1>1. PICK v \in 1 .. n : s \in M!Range(M!Ups[v])
  BY DEF M!Statements
<1>2. v \in 1 .. M!Latest
  BY UpsAreLists
<1>3. s \in M!Range(M!New(v))
  <2>1. CASE M!Guarded(v)
    BY <1>1, <1>2, <2>1, MigrationsAssumption DEF M!MigrationsFit
  <2>2. CASE ~M!Guarded(v)
    BY <1>1, <1>2, <2>2, NewIsList
  <2> QED
    BY <2>1, <2>2
<1>4. PICK k \in 1 .. Len(M!New(v)) : s = M!New(v)[k]
  <2>1. DOMAIN M!New(v) = 1 .. Len(M!New(v))
    BY <1>2, NewIsList DEF IsList
  <2> QED
    BY <1>3, <2>1 DEF M!Range
<1>5. M!New(v)[k].kind = "table" => M!New(v)[k].refs = M!Refs[M!New(v)[k].name]
  BY <1>2, Fits
<1> QED
  BY <1>4, <1>5

\* The migration that skips what it finds has one statement to go.
LEMMA OnlyFirst ==
  ASSUME NEW a, NEW b, NEW c, NEW I, 1 \in I, 2 \notin I, 3 \notin I
  PROVE  M!Picked(<<a, b, c>>, I) = <<a>> /\ M!Picked(<<a>>, I) = <<a>>
<1>0. \A s, kept : M!Picked(s, kept) = Picked(s, kept)
  BY DEF M!Picked, Picked
<1>1. Picked(<<a, b, c>>, I) = <<a>>
  <2> DEFINE s == <<a, b, c>>
  <2>1. s \in Seq({a, b, c}) /\ Len(s) = 3 /\ s[1] = a
    OBVIOUS
  <2> HIDE DEF s
  <2>2. PICK f : /\ f[0] = <<>>
                 /\ \A n \in 1 .. Len(s) : f[n] = IF n \in I THEN Append(f[n - 1], s[n]) ELSE f[n - 1]
                 /\ Picked(s, I) = f[Len(s)]
    BY <2>1, PickedSteps
  <2>3. f[1] = Append(f[0], s[1]) /\ f[2] = f[1] /\ f[3] = f[2]
    <3>1. 1 \in 1 .. 3 /\ 2 \in 1 .. 3 /\ 3 \in 1 .. 3 /\ 1 - 1 = 0 /\ 2 - 1 = 1 /\ 3 - 1 = 2
      OBVIOUS
    <3> QED
      BY <2>1, <2>2, <3>1
  <2>4. f[1] = <<a>>
    BY <2>1, <2>2, <2>3
  <2> QED
    BY <2>1, <2>2, <2>3, <2>4 DEF s
<1>2. Picked(<<a>>, I) = <<a>>
  <2> DEFINE s == <<a>>
  <2>1. s \in Seq({a}) /\ Len(s) = 1 /\ s[1] = a
    OBVIOUS
  <2> HIDE DEF s
  <2>2. PICK f : /\ f[0] = <<>>
                 /\ \A n \in 1 .. Len(s) : f[n] = IF n \in I THEN Append(f[n - 1], s[n]) ELSE f[n - 1]
                 /\ Picked(s, I) = f[Len(s)]
    BY <2>1, PickedSteps
  <2>3. f[1] = Append(f[0], s[1])
    <3>1. 1 \in 1 .. 1 /\ 1 - 1 = 0
      OBVIOUS
    <3> QED
      BY <2>1, <2>2, <3>1
  <2>4. f[1] = <<a>>
    BY <2>1, <2>2, <2>3
  <2> QED
    BY <2>1, <2>2, <2>4 DEF s
<1> QED
  BY <1>0, <1>1, <1>2

-----------------------------------------------------------------------------
(* A transaction runs the statements one after the other.                  *)

DBs(X, Y) == [tables : SUBSET X, columns : SUBSET Y, ok : BOOLEAN]

Ran(s, up, db) == [M!After(s, up, db) EXCEPT !.ok = @ /\ ~M!Fails(s, up, db)]

\* db becomes d.
Moves(s, up, db, d) ==
    /\ up = TRUE => d.tables = GrownTables(s, db.tables) /\ d.columns = GrownColumns(s, db.columns)
    /\ up = FALSE => d.tables = ShrunkTables(s, db.tables) /\ d.columns = ShrunkColumns(s, db.columns)
    /\ d.ok => db.ok /\ ~M!Fails(s, up, db)

LEMMA RunOne ==
  ASSUME NEW s, NEW X, NEW Y, s.name \in X \intersect Y, M!Along(s.name) \subseteq Y, NEW db \in DBs(X, Y), NEW up \in BOOLEAN,
         NEW d, d = Ran(s, up, db)
  PROVE  d \in DBs(X, Y) /\ Moves(s, up, db, d)
<1> DEFINE a == M!After(s, up, db)
<1>1. a \in DBs(X, Y)
      /\ (up = TRUE => a.tables = GrownTables(s, db.tables) /\ a.columns = GrownColumns(s, db.columns))
      /\ (up = FALSE => a.tables = ShrunkTables(s, db.tables) /\ a.columns = ShrunkColumns(s, db.columns))
      /\ a.ok = db.ok
  <2>1. CASE s.kind = "column" /\ up = TRUE
    BY <2>1 DEF M!After, DBs, GrownTables, GrownColumns
  <2>2. CASE s.kind = "column" /\ up = FALSE
    BY <2>2 DEF M!After, DBs, ShrunkTables, ShrunkColumns
  <2>3. CASE s.kind # "column" /\ up = TRUE
    BY <2>3 DEF M!After, DBs, GrownTables, GrownColumns
  <2>4. CASE s.kind # "column" /\ up = FALSE
    BY <2>4 DEF M!After, DBs, ShrunkTables, ShrunkColumns
  <2> QED
    BY <2>1, <2>2, <2>3, <2>4
<1> DEFINE good == a.ok /\ ~M!Fails(s, up, db)
<1>2. good \in BOOLEAN
  OBVIOUS
<1>3. d = [a EXCEPT !.ok = good]
  BY DEF Ran
<1>4. good => db.ok /\ ~M!Fails(s, up, db)
  BY <1>1
<1> HIDE DEF a, good
<1>5. d \in DBs(X, Y) /\ d.tables = a.tables /\ d.columns = a.columns /\ d.ok = good
  BY <1>1, <1>2, <1>3 DEF DBs
<1> QED
  BY <1>1, <1>4, <1>5 DEF Moves

LEMMA RunSteps ==
  ASSUME NEW steps, IsList(steps), NEW up \in BOOLEAN
  PROVE  \E f : LET db == [tables |-> tables, columns |-> columns, ok |-> TRUE]
                IN  /\ f[0] = db /\ M!Run(steps, up, db) = f[Len(steps)]
                    /\ \A n \in 1 .. Len(steps) : Moves(steps[n], up, f[n - 1], f[n])
<1> DEFINE len == Len(steps)
           names == {steps[i].name : i \in 1 .. len}
           X == tables \union names
           Y == columns \union names \union {"field", "subfield"}
           V == DBs(X, Y)
           db == [tables |-> tables, columns |-> columns, ok |-> TRUE]
           h == [n \in 1 .. len |-> [b \in V |-> Ran(steps[n], up, b)]]
           F == CHOOSE f : f = [n \in 0 .. len |-> IF n = 0 THEN db ELSE Ran(steps[n], up, f[n - 1])]
<1>1. len \in Nat /\ db \in V
  BY DEF IsList, DBs
<1>2. ASSUME NEW n \in 1 .. len PROVE steps[n].name \in X \intersect Y /\ M!Along(steps[n].name) \subseteq Y
  <2>1. M!Along(steps[n].name) \subseteq {"field", "subfield"}
    BY DEF M!Along
  <2> QED
    BY <2>1
<1>3. ASSUME NEW n \in 1 .. len, NEW b \in V PROVE h[n][b] = Ran(steps[n], up, b) /\ h[n][b] \in V
  <2>1. h[n][b] = Ran(steps[n], up, b)
    OBVIOUS
  <2>3. b \in DBs(X, Y) /\ steps[n].name \in X \intersect Y /\ M!Along(steps[n].name) \subseteq Y
    BY <1>2
  <2>4. Ran(steps[n], up, b) \in DBs(X, Y)
    <3> HIDE DEF X, Y, h
    <3> QED
      BY <2>3, RunOne
  <2> HIDE DEF h, X, Y
  <2> QED
    BY <2>1, <2>4
<1>4. PICK f \in [0 .. len -> V] : Follows(f, db, len, h)
  <2>1. Steps(h, len, V)
    BY <1>3 DEF Steps
  <2> HIDE DEF h, len, F, V, db
  <2> QED
    BY <1>1, <2>1, Recursion
<1>5. ASSUME NEW n \in 1 .. len PROVE f[n] = Ran(steps[n], up, f[n - 1]) /\ f[n - 1] \in V
  <2>1. f[n - 1] \in V
    <3> HIDE DEF V, len, F, h
    <3> QED
      BY <1>1
  <2> HIDE DEF h, F, V, len
  <2> QED
    BY <1>3, <1>4, <2>1 DEF Follows
<1>6. ASSUME NEW n \in 1 .. len PROVE Moves(steps[n], up, f[n - 1], f[n])
  <2>1. f[n] = Ran(steps[n], up, f[n - 1])
    BY <1>5
  <2>2. f[n - 1] \in DBs(X, Y)
    BY <1>5
  <2> HIDE DEF X, Y
  <2> QED
    BY <1>2, <2>1, <2>2, RunOne
<1>7. f = [n \in 0 .. len |-> IF n = 0 THEN db ELSE Ran(steps[n], up, f[n - 1])]
  <2> HIDE DEF h, F, V, len, db
  <2>1. ASSUME NEW n \in 0 .. len PROVE f[n] = IF n = 0 THEN db ELSE Ran(steps[n], up, f[n - 1])
    <3>1. CASE n = 0
      BY <1>4, <3>1 DEF Follows
    <3>2. CASE n # 0
      <4>1. n \in 1 .. len
        BY <1>1, <3>2
      <4> QED
        BY <1>5, <3>2, <4>1
    <3> QED
      BY <3>1, <3>2
  <2> QED
    BY <2>1
<1>8. F = [n \in 0 .. len |-> IF n = 0 THEN db ELSE Ran(steps[n], up, F[n - 1])]
  BY <1>7
<1>9. F[len] = f[len]
  <2> HIDE DEF F, h, len, V, db
  <2>1. f[0] = F[0]
    BY <1>1, <1>4, <1>8 DEF Follows
  <2>2. ASSUME NEW n \in 1 .. len, f[n - 1] = F[n - 1] PROVE f[n] = F[n]
    <3>1. n \in 0 .. len /\ n # 0
      BY <1>1
    <3>2. F[n] = Ran(steps[n], up, F[n - 1])
      BY <1>8, <3>1
    <3> QED
      BY <1>5, <2>2, <3>2
  <2>3. Alike(f, F, len)
    BY <2>1, <2>2 DEF Alike
  <2>4. \A n \in 0 .. len : f[n] = F[n]
    BY <1>1, <2>3, Agreement
  <2> QED
    BY <1>1, <2>4
<1>10. M!Run(steps, up, db) = F[len]
  BY DEF M!Run, Ran
<1>11. f[0] = db
  <2> HIDE DEF h, db
  <2> QED
    BY <1>4 DEF Follows
<1>12. M!Run(steps, up, db) = f[len] /\ \A n \in 1 .. len : Moves(steps[n], up, f[n - 1], f[n])
  <2> HIDE DEF F, db, len
  <2> QED
    BY <1>6, <1>9, <1>10
<1> HIDE DEF F, h, V, X, Y
<1> QED
  BY <1>11, <1>12

-----------------------------------------------------------------------------
(* How far a migration is.                                                 *)

Rising(e, k) == [i \in 1 .. (Len(e) - k) |-> e[k + i]]
Falling(e, k) == [i \in 1 .. k |-> e[(k + 1) - i]]

Target == IF todo.up = TRUE THEN version + 1 ELSE version

Reached(tbs, cols, v, k) == tbs = M!Made(M!Upto(v, k)).tables /\ cols = M!Made(M!Upto(v, k)).columns
StepsLeft(v, up, k) == IF up = TRUE THEN Rising(M!New(v), k) ELSE Falling(M!New(v), k)
First(v, up) == IF up = TRUE THEN 0 ELSE Len(M!New(v))

SchemaType ==
    /\ version \in 0 .. M!Latest
    /\ todo = [steps |-> todo.steps, up |-> todo.up, to |-> todo.to] /\ todo.up \in BOOLEAN
    /\ todo # M!Idle => IF todo.up = TRUE THEN version < M!Latest /\ todo.to = version + 1
                        ELSE version > 0 /\ todo.to = version - 1

\* Migrations alone: some of the statements are done, the others to go.
MadeInv == mixed = FALSE =>
    /\ todo = M!Idle => tables = M!Made(M!Statements(version)).tables /\ columns = M!Made(M!Statements(version)).columns
    /\ todo # M!Idle => \E k \in 0 .. Len(M!New(Target)) :
          /\ Reached(tables, columns, Target, k) /\ todo.steps = StepsLeft(Target, todo.up, k)
          /\ transactional = TRUE => k = First(Target, todo.up)

\* On PostgreSQL: what the version has is there, and all it refers to.
ClosedInv == transactional = TRUE =>
    /\ M!Made(M!Statements(version)).tables \subseteq tables /\ Closed(tables)
    /\ todo # M!Idle =>
          IF M!Guarded(Target) THEN IsList(todo.steps) /\ \A i \in 1 .. Len(todo.steps) : todo.steps[i].kind = "column"
          ELSE todo.steps = StepsLeft(Target, todo.up, First(Target, todo.up))

LEMMA RisingIsList ==
  ASSUME NEW e, IsList(e)
  PROVE  Rising(e, 0) = e
<1>1. Len(e) \in Nat /\ e = [i \in 1 .. Len(e) |-> e[i]]
  BY DEF IsList
<1>2. Len(e) - 0 = Len(e) /\ \A i \in 1 .. Len(e) : 0 + i = i
  BY <1>1
<1> QED
  BY <1>1, <1>2 DEF Rising

LEMMA FallingIsList ==
  ASSUME NEW e, NEW k \in Nat
  PROVE  IsList(Falling(e, k)) /\ Len(Falling(e, k)) = k /\ \A i \in 1 .. k : Falling(e, k)[i] = e[(k + 1) - i]
BY DEF Falling, IsList

LEMMA MigrateUp ==
  ASSUME SchemaType, NEW up, up = TRUE, M!Migrate(up)
  PROVE  /\ version + 1 \in 1 .. M!Latest /\ todo = M!Idle /\ todo' = [steps |-> todo'.steps, up |-> TRUE, to |-> version + 1] /\ todo'.up = TRUE /\ todo'.to = version + 1
         /\ UNCHANGED <<tables, columns, version, mixed, transactional>>
         /\ ~M!Guarded(version + 1) => todo'.steps = M!Ups[version + 1]
         /\ M!Guarded(version + 1) => todo'.steps = M!Picked(M!Ups[version + 1], {i \in DOMAIN M!Ups[version + 1] : M!Ups[version + 1][i].name \notin columns})
<1> DEFINE v == version + 1
           steps == M!Ups[v]
           left == {i \in DOMAIN steps : (steps[i].name \in columns) # up}
<1>1. version \in Nat /\ version < M!Latest /\ todo = M!Idle /\ UNCHANGED <<tables, columns, version, mixed, transactional>>
  BY UpsAreLists DEF M!Migrate, M!Moving, SchemaType
<1>2. todo' = [steps |-> IF M!Guarded(v) THEN M!Picked(steps, left) ELSE steps, up |-> up, to |-> v]
  BY DEF M!Migrate
<1>3. left = {i \in DOMAIN steps : steps[i].name \notin columns}
  OBVIOUS
<1>4. v \in 1 .. M!Latest
  BY <1>1, UpsAreLists
<1> HIDE DEF left, steps, v
<1>5. todo' = [steps |-> todo'.steps, up |-> TRUE, to |-> v] /\ todo'.up = TRUE /\ todo'.to = v /\ (~M!Guarded(v) => todo'.steps = steps) /\ (M!Guarded(v) => todo'.steps = M!Picked(steps, left))
  BY <1>2
<1> QED
  BY <1>1, <1>3, <1>4, <1>5 DEF v, steps

LEMMA MigrateDown ==
  ASSUME SchemaType, NEW up, up = FALSE, M!Migrate(up)
  PROVE  /\ version \in 1 .. M!Latest /\ todo = M!Idle /\ todo' = [steps |-> todo'.steps, up |-> FALSE, to |-> version - 1] /\ todo'.up = FALSE /\ todo'.to = version - 1
         /\ UNCHANGED <<tables, columns, version, mixed, transactional>>
         /\ ~M!Guarded(version) => todo'.steps = M!Downs(version)
         /\ M!Guarded(version) => todo'.steps = M!Picked(M!Downs(version), {i \in DOMAIN M!Downs(version) : M!Downs(version)[i].name \in columns})
<1> DEFINE steps == M!Downs(version)
           left == {i \in DOMAIN steps : (steps[i].name \in columns) # up}
<1>1. version \in Nat /\ version <= M!Latest /\ version > 0 /\ todo = M!Idle /\ UNCHANGED <<tables, columns, version, mixed, transactional>>
  BY UpsAreLists DEF M!Migrate, M!Moving, SchemaType
<1>2. todo' = [steps |-> IF M!Guarded(version) THEN M!Picked(steps, left) ELSE steps, up |-> up, to |-> version - 1]
  BY DEF M!Migrate
<1>3. left = {i \in DOMAIN steps : steps[i].name \in columns}
  <2>1. \A p \in BOOLEAN : (p # up) <=> p
    OBVIOUS
  <2>2. \A i \in DOMAIN steps : (steps[i].name \in columns) \in BOOLEAN
    OBVIOUS
  <2>3. ASSUME NEW i \in DOMAIN steps PROVE ((steps[i].name \in columns) # up) <=> steps[i].name \in columns
    <3> DEFINE p == steps[i].name \in columns
    <3>1. p \in BOOLEAN
      OBVIOUS
    <3> HIDE DEF p
    <3>2. (p # up) <=> p
      BY <2>1, <3>1
    <3> QED
      BY <3>2 DEF p
  <2> HIDE DEF steps
  <2> QED
    BY <2>3
<1>4. version \in 1 .. M!Latest
  BY <1>1, UpsAreLists
<1> HIDE DEF left, steps
<1>5. todo' = [steps |-> todo'.steps, up |-> FALSE, to |-> version - 1] /\ todo'.up = FALSE /\ todo'.to = version - 1 /\ (~M!Guarded(version) => todo'.steps = steps) /\ (M!Guarded(version) => todo'.steps = M!Picked(steps, left))
  BY <1>2
<1> QED
  BY <1>1, <1>3, <1>4, <1>5 DEF steps

\* The guarded migration, where only migrations have made the schema.
LEMMA GuardedUp ==
  ASSUME NEW v \in 1 .. M!Latest, M!Guarded(v), columns = M!Made(M!Statements(v - 1)).columns
  PROVE  M!Picked(M!Ups[v], {i \in DOMAIN M!Ups[v] : M!Ups[v][i].name \notin columns}) = M!New(v)
<1> DEFINE a == M!Column("fit_explanation")
           b == M!Column("field")
           c == M!Column("subfield")
           I == {i \in DOMAIN M!Ups[v] : M!Ups[v][i].name \notin columns}
<1>1. M!Ups[v] = <<a, b, c>> /\ M!New(v) = <<a>>
  BY NewIsList DEF M!Guarded, M!FitExplanation
<1>2. a.name \notin columns
  <2>1. 1 \in 1 .. Len(M!New(v)) /\ M!New(v)[1] = a
    BY <1>1
  <2>2. a.kind = "column"
    BY DEF M!Column
  <2> HIDE DEF a
  <2>3. 1 - 1 = 0
    OBVIOUS
  <2>4. a.name \notin M!Made(M!Upto(v, 1 - 1)).columns
    BY <2>1, <2>2, Fits
  <2> QED
    BY <2>3, <2>4, MadeAtVersion
<1>3. b.name \in columns /\ c.name \in columns
  <2>1. b # a /\ c # a
    BY DEF M!Column
  <2>2. M!Range(M!New(v)) = {a} /\ b \in M!Range(M!Ups[v]) /\ c \in M!Range(M!Ups[v])
    <3> HIDE DEF a, b, c
    <3>1. 2 \in DOMAIN <<a, b, c>> /\ 3 \in DOMAIN <<a, b, c>> /\ DOMAIN <<a>> = {1}
      OBVIOUS
    <3> QED
      BY <1>1, <3>1 DEF M!Range
  <2> HIDE DEF a, b, c
  <2> QED
    BY <2>1, <2>2, MigrationsAssumption DEF M!MigrationsFit
<1>4. 1 \in I /\ 2 \notin I /\ 3 \notin I
  <2> HIDE DEF a, b, c
  <2> QED
    BY <1>1, <1>2, <1>3
<1> HIDE DEF a, b, c, I
<1>5. M!Picked(<<a, b, c>>, I) = <<a>>
  BY <1>4, OnlyFirst
<1> QED
  BY <1>1, <1>5 DEF I

LEMMA GuardedDown ==
  ASSUME NEW v \in 1 .. M!Latest, M!Guarded(v), columns = M!Made(M!Statements(v)).columns
  PROVE  M!Picked(M!Downs(v), {i \in DOMAIN M!Downs(v) : M!Downs(v)[i].name \in columns}) = M!New(v)
<1> DEFINE a == M!Column("fit_explanation")
           I == {i \in DOMAIN M!Downs(v) : M!Downs(v)[i].name \in columns}
<1>1. M!Downs(v) = <<a>> /\ M!New(v) = <<a>>
  BY NewIsList
<1>2. a.name \in columns
  <2>1. 1 \in 1 .. Len(M!New(v)) /\ M!New(v)[1] = a /\ Len(M!New(v)) = 1
    BY <1>1
  <2>2. a.kind = "column"
    BY DEF M!Column
  <2> HIDE DEF a
  <2>3. M!Made(M!Upto(v, 1)).columns = GrownColumns(a, M!Made(M!Upto(v, 1 - 1)).columns)
    BY <2>1, MadeByStep
  <2>4. a.name \in M!Made(M!Upto(v, 1)).columns
    BY <2>2, <2>3 DEF GrownColumns
  <2> QED
    BY <2>1, <2>4, MadeAtVersion
<1>3. 1 \in I /\ 2 \notin I /\ 3 \notin I
  <2> HIDE DEF a
  <2> QED
    BY <1>1, <1>2
<1> HIDE DEF a, I
<1>4. M!Picked(<<a>>, I) = <<a>>
  BY <1>3, OnlyFirst
<1> QED
  BY <1>1, <1>4 DEF I

-----------------------------------------------------------------------------
(* init_db, beside another process.                                        *)

Processes == {"api", "cli"}
Progress == [at : {"off", "created", "adding"}, columns : SUBSET (DOMAIN M!Later)]

StartInv ==
    /\ starting \in [Processes -> Progress] /\ started \in BOOLEAN
    /\ \A p \in Processes : /\ starting[p].at # "adding" => starting[p].columns = {}
                            /\ starting[p].at # "off" => todo = M!Idle /\ mixed = TRUE
    /\ todo # M!Idle => started = FALSE
    /\ starting["api"].at # "off" => DOMAIN M!Refs \subseteq tables
    /\ starting["api"].at = "adding" => DOMAIN M!Later \subseteq columns \union starting["api"].columns
    /\ started = TRUE => DOMAIN M!Refs \subseteq tables /\ DOMAIN M!Later \subseteq columns

LEMMA StartInvInit == M!Init => StartInv
<1> SUFFICES ASSUME M!Init PROVE StartInv
  OBVIOUS
<1>1. starting = [p \in {"api", "cli"} |-> M!Off] /\ todo = M!Idle /\ started = FALSE
  BY DEF M!Init
<1>2. M!Off \in Progress /\ M!Off.at = "off" /\ M!Off.columns = {}
  BY DEF M!Off, Progress
<1> QED
  BY <1>1, <1>2 DEF StartInv, Processes

LEMMA OffIsOff == ASSUME StartInv, NEW p \in Processes PROVE starting[p] = M!Off <=> starting[p].at = "off"
<1>1. starting[p] \in Progress /\ (starting[p].at # "adding" => starting[p].columns = {})
  BY DEF StartInv
<1> QED
  BY <1>1 DEF Progress, M!Off

LEMMA StartInvNext == StartInv /\ M!Next => StartInv'
<1> SUFFICES ASSUME StartInv, M!Next PROVE StartInv'
  OBVIOUS
<1>0. /\ starting \in [Processes -> Progress] /\ DOMAIN starting = Processes /\ "api" \in Processes
      /\ \A p \in Processes : starting[p] \in Progress /\ starting[p].at \in {"off", "created", "adding"}
  BY DEF StartInv, Processes, Progress
<1>9. M!Off \in Progress /\ M!Off.at = "off" /\ M!Off.columns = {}
  BY DEF M!Off, Progress
<1>1. ASSUME NEW up \in BOOLEAN, M!Migrate(up) PROVE StartInv'
  <2>1. started' = FALSE /\ UNCHANGED <<tables, columns, starting, mixed>> /\ \A p \in Processes : starting[p] = M!Off
    BY <1>0, <1>1 DEF M!Migrate, M!Moving
  <2> QED
    BY <1>9, <2>1 DEF StartInv
<1>2. CASE M!Transaction \/ M!Statement \/ M!Stamp
  <2>1. todo # M!Idle
    BY <1>2 DEF M!Transaction, M!Statement, M!Stamp, M!Idle
  <2>2. UNCHANGED <<starting, started>> /\ started = FALSE /\ \A p \in Processes : starting[p].at = "off"
    BY <1>0, <1>2, <2>1 DEF StartInv, M!Transaction, M!Statement, M!Stamp
  <2> QED
    BY <1>0, <2>2 DEF StartInv
<1>3. CASE M!Register
  BY <1>3 DEF M!Register, StartInv
<1>4. ASSUME NEW p \in Processes, M!CreateAll(p) PROVE StartInv'
  <2> DEFINE new == [at |-> "created", columns |-> {}]
  <2>1. /\ starting' = [starting EXCEPT ![p] = new] /\ mixed' = TRUE /\ UNCHANGED <<todo, started>> /\ todo = M!Idle
        /\ tables' = tables \union DOMAIN M!Models(p) /\ columns \subseteq columns'
    BY <1>4 DEF M!CreateAll, M!Go
  <2>2. new \in Progress /\ new.at = "created" /\ new.columns = {}
    BY DEF Progress
  <2>3. M!Refs = M!Models("api")
    BY DEF M!Refs
  <2> HIDE DEF new
  <2>4. starting' \in [Processes -> Progress] /\ \A q \in Processes : starting'[q] = IF q = p THEN new ELSE starting[q]
    BY <1>0, <2>1, <2>2
  <2> QED
    BY <1>0, <2>1, <2>2, <2>3, <2>4 DEF StartInv
<1>5. ASSUME NEW p \in Processes, M!Inspect(p) PROVE StartInv'
  <2> DEFINE new == [at |-> "adding", columns |-> M!Addable \ columns]
  <2>1. starting' = [starting EXCEPT ![p] = new] /\ starting[p].at = "created" /\ UNCHANGED <<todo, started, tables, columns, mixed>>
    BY <1>5 DEF M!Inspect, M!Go
  <2>2. new \in Progress /\ new.at = "adding" /\ DOMAIN M!Later \subseteq columns \union new.columns
    BY DEF Progress, M!Addable
  <2> HIDE DEF new
  <2>3. starting' \in [Processes -> Progress] /\ \A q \in Processes : starting'[q] = IF q = p THEN new ELSE starting[q]
    BY <1>0, <2>1, <2>2
  <2> QED
    BY <1>0, <2>1, <2>2, <2>3 DEF StartInv
<1>6. ASSUME NEW p \in Processes, starting' = [starting EXCEPT ![p] = M!Off], UNCHANGED <<todo, tables, columns, mixed>>,
             started' = started \/ (started' = TRUE /\ starting[p].at # "off" /\ DOMAIN M!Refs \subseteq tables /\ DOMAIN M!Later \subseteq columns)
      PROVE  StartInv'
  <2>1. starting' \in [Processes -> Progress] /\ \A q \in Processes : starting'[q] = IF q = p THEN M!Off ELSE starting[q]
    BY <1>0, <1>6, <1>9
  <2> QED
    BY <1>0, <1>6, <1>9, <2>1 DEF StartInv
<1>7. ASSUME NEW p \in Processes, M!Add(p) PROVE StartInv'
  <2> DEFINE c == CHOOSE x \in starting[p].columns : TRUE
             new == [starting[p] EXCEPT !.columns = @ \ {c}]
  <2>1. starting[p].columns # {} /\ c \in starting[p].columns /\ UNCHANGED <<todo, tables, started, mixed>>
    BY <1>7 DEF M!Add
  <2>2. CASE c \in columns
    <3>1. starting' = [starting EXCEPT ![p] = M!Off] /\ columns' = columns
      BY <1>7, <2>2 DEF M!Add, M!Go
    <3> QED
      BY <1>6, <2>1, <3>1
  <2>3. CASE c \notin columns
    <3>1. starting' = [starting EXCEPT ![p] = new] /\ columns' = columns \union {c}
      BY <1>7, <2>3 DEF M!Add, M!Go
    <3>2. starting[p] \in Progress /\ starting[p].at = "adding"
      BY <1>0, <2>1 DEF StartInv
    <3>3. new \in Progress /\ new.at = "adding" /\ new.columns = starting[p].columns \ {c}
      BY <3>2 DEF Progress
    <3> HIDE DEF new, c
    <3>4. starting' \in [Processes -> Progress] /\ \A q \in Processes : starting'[q] = IF q = p THEN new ELSE starting[q]
      BY <1>0, <3>1, <3>3
    <3> QED
      BY <1>0, <2>1, <3>1, <3>2, <3>3, <3>4 DEF StartInv
  <2> QED
    BY <2>2, <2>3
<1>8. ASSUME NEW p \in Processes, M!Started(p) PROVE StartInv'
  <2>1. starting[p].at = "adding" /\ starting[p].columns = {} /\ starting' = [starting EXCEPT ![p] = M!Off]
        /\ UNCHANGED <<todo, tables, columns, mixed>> /\ started' = (started \/ p = "api")
    BY <1>8 DEF M!Started, M!Go
  <2>2. CASE p = "api"
    BY <1>6, <2>1, <2>2 DEF StartInv
  <2>3. CASE p # "api"
    <3>1. started' = started
      BY <2>1, <2>3 DEF StartInv
    <3> QED
      BY <1>6, <2>1, <3>1
  <2> QED
    BY <2>2, <2>3
<1>10. ASSUME NEW p \in Processes, M!Kill(p) PROVE StartInv'
  BY <1>6, <1>10 DEF M!Kill, M!Go
<1> QED
  BY <1>0, <1>1, <1>2, <1>3, <1>4, <1>5, <1>7, <1>8, <1>10 DEF M!Next

-----------------------------------------------------------------------------

LEMMA SchemaTypeInit == M!Init => SchemaType
<1> SUFFICES ASSUME M!Init PROVE SchemaType
  OBVIOUS
<1>1. todo = [steps |-> <<>>, up |-> TRUE, to |-> 0] /\ todo = M!Idle /\ version = 0
  BY DEF M!Init, M!Idle
<1> QED
  BY <1>1, UpsAreLists DEF SchemaType

LEMMA IdleType == M!Idle = [steps |-> M!Idle.steps, up |-> M!Idle.up, to |-> M!Idle.to] /\ M!Idle.up = TRUE /\ M!Idle.to = 0 /\ M!Idle.steps = <<>>
BY DEF M!Idle

LEMMA SchemaTypeNext == SchemaType /\ M!Next => SchemaType'
<1> SUFFICES ASSUME SchemaType, M!Next PROVE SchemaType'
  OBVIOUS
<1>0. version \in 0 .. 13 /\ M!Latest = 13
  BY UpsAreLists DEF SchemaType
<1>1. ASSUME NEW up \in BOOLEAN, M!Migrate(up) PROVE SchemaType'
  <2>1. CASE up = TRUE
    <3>1. version + 1 \in 1 .. M!Latest /\ todo' = [steps |-> todo'.steps, up |-> TRUE, to |-> version + 1] /\ todo'.up = TRUE
          /\ todo'.to = version + 1 /\ version' = version
      BY <1>1, <2>1, MigrateUp
    <3>2. todo' = [steps |-> todo'.steps, up |-> todo'.up, to |-> todo'.to] /\ todo'.up \in BOOLEAN
      BY <3>1
    <3>3. version' \in 0 .. M!Latest /\ version' < M!Latest
      BY <1>0, <3>1
    <3> QED
      BY <3>1, <3>2, <3>3 DEF SchemaType
  <2>2. CASE up = FALSE
    <3>1. version \in 1 .. M!Latest /\ todo' = [steps |-> todo'.steps, up |-> FALSE, to |-> version - 1] /\ todo'.up = FALSE
          /\ todo'.to = version - 1 /\ version' = version
      BY <1>1, <2>2, MigrateDown
    <3>2. todo' = [steps |-> todo'.steps, up |-> todo'.up, to |-> todo'.to] /\ todo'.up \in BOOLEAN
      BY <3>1
    <3>3. version' \in 0 .. M!Latest /\ version' > 0
      BY <1>0, <3>1
    <3>4. todo'.up # TRUE
      BY <3>1
    <3> QED
      BY <3>1, <3>2, <3>3, <3>4 DEF SchemaType
  <2> QED
    BY <2>1, <2>2
<1>2. CASE M!Transaction \/ M!Stamp
  <2>1. todo' = M!Idle /\ (version' = version \/ version' = todo.to) /\ todo # M!Idle
    BY <1>2 DEF M!Transaction, M!Stamp
  <2>2. version' \in 0 .. M!Latest
    BY <1>0, <2>1 DEF SchemaType
  <2> QED
    BY <2>1, <2>2, IdleType DEF SchemaType
<1>3. CASE M!Statement
  <2>1. version' = version /\ (todo' = M!Idle \/ todo' = [todo EXCEPT !.steps = Tail(@)]) /\ todo # M!Idle
    BY <1>3 DEF M!Statement, M!Idle
  <2>2. CASE todo' = M!Idle
    BY <2>1, <2>2, IdleType DEF SchemaType
  <2>3. CASE todo' = [todo EXCEPT !.steps = Tail(@)]
    <3>1. todo' = [steps |-> Tail(todo.steps), up |-> todo.up, to |-> todo.to]
      BY <2>3 DEF SchemaType
    <3> QED
      BY <2>1, <3>1 DEF SchemaType
  <2> QED
    BY <2>1, <2>2, <2>3
<1>4. CASE UNCHANGED <<version, todo>>
  BY <1>4 DEF SchemaType
<1> QED
  BY <1>1, <1>2, <1>3, <1>4 DEF M!Next, M!Register, M!CreateAll, M!Inspect, M!Add, M!Started, M!Kill

\* What a transaction computes, where only migrations have made the schema.
LEMMA RunMakes ==
  ASSUME NEW v \in 1 .. M!Latest, NEW steps, NEW up \in BOOLEAN, NEW f,
         \A n \in 1 .. Len(steps) : Moves(steps[n], up, f[n - 1], f[n]),
         steps = IF up = TRUE THEN Rising(M!New(v), 0) ELSE Falling(M!New(v), Len(M!New(v))),
         LET k == IF up = TRUE THEN 0 ELSE Len(M!New(v))
         IN  f[0].tables = M!Made(M!Upto(v, k)).tables /\ f[0].columns = M!Made(M!Upto(v, k)).columns
  PROVE  /\ Len(steps) = Len(M!New(v))
         /\ LET k == IF up = TRUE THEN Len(M!New(v)) ELSE 0
            IN  f[Len(steps)].tables = M!Made(M!Upto(v, k)).tables /\ f[Len(steps)].columns = M!Made(M!Upto(v, k)).columns
<1> DEFINE e == M!New(v)
           len == Len(e)
           At(n, k) == f[n].tables = M!Made(M!Upto(v, k)).tables /\ f[n].columns = M!Made(M!Upto(v, k)).columns
<1>1. IsList(e) /\ len \in Nat
  BY NewIsList DEF IsList
<1>2. CASE up = TRUE
  <2> DEFINE T == {n \in Nat : n <= len => At(n, n)}
  <2>1. steps = e /\ At(0, 0)
    BY <1>1, <1>2, RisingIsList
  <2>2. ASSUME NEW n \in Nat, n \in T, n + 1 <= len PROVE At(n + 1, n + 1)
    <3>1. n + 1 \in 1 .. len /\ (n + 1) - 1 = n /\ At(n, n)
      BY <1>1, <2>2
    <3>2. Moves(e[n + 1], up, f[n], f[n + 1])
      BY <2>1, <3>1
    <3>3. GrownTables(e[n + 1], M!Made(M!Upto(v, n)).tables) = M!Made(M!Upto(v, n + 1)).tables
          /\ GrownColumns(e[n + 1], M!Made(M!Upto(v, n)).columns) = M!Made(M!Upto(v, n + 1)).columns
      BY <3>1, MadeByStep
    <3> QED
      BY <1>2, <3>1, <3>2, <3>3 DEF Moves
  <2>3. 0 \in T /\ \A n \in Nat : n \in T => n + 1 \in T
    <3> HIDE DEF At
    <3>1. 0 \in T
      BY <2>1
    <3>2. ASSUME NEW n \in Nat, n \in T PROVE n + 1 \in T
      <4>1. n + 1 <= len => At(n + 1, n + 1)
        BY <2>2, <3>2
      <4> QED
        BY <4>1
    <3> QED
      BY <3>1, <3>2
  <2> HIDE DEF T, At
  <2>4. len \in T
    BY <1>1, <2>3, Induction
  <2>5. At(len, len)
    BY <1>1, <2>4 DEF T
  <2> QED
    BY <1>2, <2>1, <2>5 DEF At
<1>3. CASE up = FALSE
  <2> DEFINE T == {n \in Nat : n <= len => At(n, len - n)}
  <2>1. steps = Falling(e, len) /\ At(0, len)
    BY <1>1, <1>3
  <2>0. Len(steps) = len /\ (\A n \in 1 .. len : steps[n] = e[(len + 1) - n])
    <3> HIDE DEF e, len
    <3> QED
      BY <1>1, <2>1 DEF Falling
  <2>2. ASSUME NEW n \in Nat, n \in T, n + 1 <= len PROVE At(n + 1, len - (n + 1))
    <3> DEFINE k == len - n
    <3>1. n + 1 \in 1 .. len /\ (n + 1) - 1 = n /\ At(n, k) /\ k \in 1 .. len /\ k - 1 = len - (n + 1) /\ (len + 1) - (n + 1) = k
      BY <1>1, <2>2
    <3>2. Moves(e[k], up, f[n], f[n + 1])
      BY <2>0, <3>1
    <3>3. ShrunkTables(e[k], M!Made(M!Upto(v, k)).tables) = M!Made(M!Upto(v, k - 1)).tables
          /\ ShrunkColumns(e[k], M!Made(M!Upto(v, k)).columns) = M!Made(M!Upto(v, k - 1)).columns
      BY <3>1, MadeByStep
    <3> HIDE DEF k
    <3> QED
      BY <1>3, <3>1, <3>2, <3>3 DEF Moves
  <2>3. 0 \in T /\ \A n \in Nat : n \in T => n + 1 \in T
    <3>1. len - 0 = len
      BY <1>1
    <3> HIDE DEF At
    <3> QED
      BY <1>1, <2>1, <2>2, <3>1
  <2> HIDE DEF T, At
  <2>4. len \in T
    BY <1>1, <2>3, Induction
  <2>5. At(len, 0)
    <3>1. len - len = 0
      BY <1>1
    <3> QED
      BY <1>1, <2>4, <3>1 DEF T
  <2> QED
    BY <1>3, <2>0, <2>5 DEF At
<1> QED
  BY <1>2, <1>3

LEMMA TransactionKeepsMade ==
  ASSUME SchemaType, MadeInv, mixed = FALSE, M!Transaction
  PROVE  MadeInv'
<1> DEFINE v == Target
           e == M!New(v)
           up == todo.up
           first == First(v, up)
           db == [tables |-> tables, columns |-> columns, ok |-> TRUE]
           ran == M!Run(todo.steps, up, db)
<1>1. todo # M!Idle /\ transactional = TRUE /\ todo' = M!Idle /\ mixed' = mixed
      /\ IF ran.ok THEN tables' = ran.tables /\ columns' = ran.columns /\ version' = todo.to ELSE UNCHANGED <<tables, columns, version>>
  <2>1. todo # M!Idle /\ transactional /\ todo' = M!Idle /\ mixed' = mixed
    BY DEF M!Transaction
  <2>2. transactional = TRUE
    BY <2>1 DEF SchemaType
  <2> QED
    BY <2>1, <2>2 DEF M!Transaction, M!Becomes
<1>2. v \in 1 .. M!Latest /\ up \in BOOLEAN /\ v - 1 \in Nat
      /\ version = (IF up = TRUE THEN v - 1 ELSE v) /\ todo.to = (IF up = TRUE THEN v ELSE v - 1)
  BY <1>1, UpsAreLists DEF SchemaType, Target
<1>3. Reached(tables, columns, v, first) /\ todo.steps = StepsLeft(v, up, first)
  BY <1>1 DEF MadeInv
<1>4. IsList(e)
  BY <1>2, NewIsList
<1>5. todo.steps = (IF up = TRUE THEN Rising(e, 0) ELSE Falling(e, Len(e)))
  BY <1>3 DEF StepsLeft, First
<1>6. IsList(todo.steps)
  <2> HIDE DEF e, up
  <2>1. CASE up = TRUE
    BY <1>4, <1>5, <2>1, RisingIsList
  <2>2. CASE up # TRUE
    <3>1. todo.steps = Falling(e, Len(e)) /\ Len(e) \in Nat
      BY <1>4, <1>5, <2>2 DEF IsList
    <3> QED
      BY <3>1, FallingIsList
  <2> QED
    BY <2>1, <2>2
<1> HIDE DEF v, up
<1>7. PICK f : /\ f[0] = db /\ ran = f[Len(todo.steps)]
               /\ \A n \in 1 .. Len(todo.steps) : Moves(todo.steps[n], up, f[n - 1], f[n])
  BY <1>2, <1>6, RunSteps
<1>8. f[0].tables = tables /\ f[0].columns = columns
  BY <1>7
<1>9. LET k == IF up = TRUE THEN Len(e) ELSE 0
      IN  ran.tables = M!Made(M!Upto(v, k)).tables /\ ran.columns = M!Made(M!Upto(v, k)).columns
  <2>1. f[0].tables = M!Made(M!Upto(v, first)).tables /\ f[0].columns = M!Made(M!Upto(v, first)).columns
    BY <1>3, <1>8 DEF Reached
  <2>2. LET k == IF up = TRUE THEN 0 ELSE Len(M!New(v))
        IN  f[0].tables = M!Made(M!Upto(v, k)).tables /\ f[0].columns = M!Made(M!Upto(v, k)).columns
    BY <2>1 DEF First
  <2> HIDE DEF ran, db
  <2> QED
    BY <1>2, <1>5, <1>7, <2>2, RunMakes
<1>10. ran.tables = M!Made(M!Statements(todo.to)).tables /\ ran.columns = M!Made(M!Statements(todo.to)).columns
  <2> HIDE DEF ran, db
  <2> QED
    BY <1>2, <1>9, MadeAtVersion
<1>11. tables = M!Made(M!Statements(version)).tables /\ columns = M!Made(M!Statements(version)).columns
  BY <1>2, <1>3, MadeAtVersion DEF Reached, First
<1>12. tables' = M!Made(M!Statements(version')).tables /\ columns' = M!Made(M!Statements(version')).columns
  <2> HIDE DEF ran, db
  <2>1. CASE ran.ok
    BY <1>1, <1>10, <2>1
  <2>2. CASE ~ran.ok
    BY <1>1, <1>11, <2>2
  <2> QED
    BY <2>1, <2>2
<1> QED
  BY <1>1, <1>12 DEF MadeInv

LEMMA MidwayIsMade ==
  ASSUME NEW v, Target' = v, NEW k \in 0 .. Len(M!New(v)), Reached(tables', columns', v, k), todo'.steps = StepsLeft(v, todo'.up, k),
         transactional' = TRUE => k = First(v, todo'.up), todo' # M!Idle
  PROVE  MadeInv'
BY DEF MadeInv

LEMMA MigrateKeepsMade ==
  ASSUME SchemaType, MadeInv, mixed = FALSE, NEW up \in BOOLEAN, M!Migrate(up)
  PROVE  MadeInv'
<1>1. CASE up = TRUE
  <2>0. version + 1 \in 1 .. M!Latest
    BY <1>1, MigrateUp
  <2> PICK v \in 1 .. M!Latest : v = version + 1
    BY <2>0
  <2> DEFINE e == M!New(v)
  <2>1. /\ todo = M!Idle /\ todo'.up = TRUE /\ UNCHANGED <<tables, columns, version, mixed, transactional>> /\ todo'.to = v
        /\ ~M!Guarded(v) => todo'.steps = M!Ups[v]
        /\ M!Guarded(v) => todo'.steps = M!Picked(M!Ups[v], {i \in DOMAIN M!Ups[v] : M!Ups[v][i].name \notin columns})
    BY <1>1, MigrateUp
  <2>2. tables = M!Made(M!Statements(version)).tables /\ columns = M!Made(M!Statements(version)).columns
    BY <2>1 DEF MadeInv
  <2>3. v - 1 = version
    BY UpsAreLists DEF SchemaType
  <2>4. Reached(tables', columns', v, 0)
    BY <2>1, <2>2, <2>3, MadeAtVersion DEF Reached
  <2>5. todo'.steps = e
    BY <2>1, <2>2, <2>3, GuardedUp, NewIsList
  <2>6. IsList(e) /\ Len(e) \in Nat
    BY NewIsList DEF IsList
  <2>7. todo'.steps = StepsLeft(v, todo'.up, 0) /\ 0 \in 0 .. Len(e) /\ First(v, todo'.up) = 0
    BY <2>1, <2>5, <2>6, RisingIsList DEF StepsLeft, First
  <2>8. Target' = v /\ todo' # M!Idle
    BY <2>1, IdleType DEF Target
  <2> QED
    BY <2>4, <2>7, <2>8, MidwayIsMade
<1>2. CASE up = FALSE
  <2>0. version \in 1 .. M!Latest
    BY <1>2, MigrateDown
  <2> PICK v \in 1 .. M!Latest : v = version
    BY <2>0
  <2> DEFINE e == M!New(v)
  <2>1. /\ todo = M!Idle /\ todo'.up = FALSE /\ UNCHANGED <<tables, columns, version, mixed, transactional>>
        /\ ~M!Guarded(v) => todo'.steps = M!Downs(v)
        /\ M!Guarded(v) => todo'.steps = M!Picked(M!Downs(v), {i \in DOMAIN M!Downs(v) : M!Downs(v)[i].name \in columns})
    BY <1>2, MigrateDown
  <2>2. tables = M!Made(M!Statements(v)).tables /\ columns = M!Made(M!Statements(v)).columns
    BY <2>1 DEF MadeInv
  <2>4. Reached(tables', columns', v, Len(e))
    BY <2>1, <2>2, MadeAtVersion DEF Reached
  <2>6. IsList(e) /\ Len(e) \in Nat
    BY NewIsList DEF IsList
  <2>5. todo'.steps = Falling(e, Len(e))
    <3>1. CASE M!Guarded(v)
      <4>1. todo'.steps = e
        BY <2>1, <2>2, <3>1, GuardedDown
      <4>2. e = <<M!Column("fit_explanation")>>
        BY <3>1, NewIsList
      <4> DEFINE a == M!Column("fit_explanation")
      <4> HIDE DEF a
      <4>3. Falling(<<a>>, 1) = <<a>> /\ Len(<<a>>) = 1
        BY DEF Falling
      <4> QED
        BY <4>1, <4>2, <4>3 DEF a
    <3>2. CASE ~M!Guarded(v)
      BY <2>1, <3>2, NewIsList DEF Falling
    <3> QED
      BY <3>1, <3>2
  <2>0a. todo'.up # TRUE
    BY <2>1
  <2>7. todo'.steps = StepsLeft(v, todo'.up, Len(e)) /\ Len(e) \in 0 .. Len(e) /\ First(v, todo'.up) = Len(e)
    <3>1. First(v, todo'.up) = Len(e)
      BY <2>0a DEF First
    <3>2. StepsLeft(v, todo'.up, Len(e)) = Falling(e, Len(e))
      BY <2>0a DEF StepsLeft
    <3> QED
      BY <2>5, <2>6, <3>1, <3>2
  <2>8. Target' = v /\ todo' # M!Idle
    BY <2>0a, <2>1, IdleType DEF Target
  <2> QED
    BY <2>4, <2>7, <2>8, MidwayIsMade
<1> QED
  BY <1>1, <1>2

LEMMA TailOfList ==
  ASSUME NEW n \in Nat, n > 0, NEW s, s = [i \in 1 .. n |-> s[i]]
  PROVE  Tail(s) = [i \in 1 .. (Len(s) - 1) |-> s[i + 1]]
<1> DEFINE V == {s[i] : i \in 1 .. n}
<1>1. s \in Seq(V) /\ Len(s) = n
  <2>1. s \in [1 .. n -> V]
    OBVIOUS
  <2> HIDE DEF V
  <2> QED
    BY <2>1
<1>2. s # <<>>
  BY <1>1
<1> HIDE DEF V
<1>3. Tail(s) \in Seq(V) /\ Len(Tail(s)) = n - 1 /\ \A i \in 1 .. (n - 1) : Tail(s)[i] = s[i + 1]
  BY <1>1, <1>2
<1>4. Tail(s) = [i \in 1 .. (n - 1) |-> Tail(s)[i]]
  BY <1>3
<1> QED
  BY <1>1, <1>3, <1>4

LEMMA RisingTail ==
  ASSUME NEW e, Len(e) \in Nat, NEW k \in 0 .. Len(e)
  PROVE  /\ Rising(e, k) = <<>> <=> k = Len(e)
         /\ k < Len(e) => Head(Rising(e, k)) = e[k + 1] /\ Tail(Rising(e, k)) = Rising(e, k + 1)
<1>1. Len(e) - k \in Nat /\ Rising(e, k) = [i \in 1 .. (Len(e) - k) |-> e[k + i]]
      /\ Rising(e, k) = [i \in 1 .. (Len(e) - k) |-> Rising(e, k)[i]]
  BY DEF Rising
<1>2. Len(Rising(e, k)) = Len(e) - k
  BY <1>1
<1>3. ASSUME k < Len(e) PROVE Head(Rising(e, k)) = e[k + 1] /\ Tail(Rising(e, k)) = Rising(e, k + 1)
  <2>1. Head(Rising(e, k)) = e[k + 1]
    BY <1>1, <1>3
  <2>2. Tail(Rising(e, k)) = [i \in 1 .. (Len(Rising(e, k)) - 1) |-> Rising(e, k)[i + 1]]
    BY <1>1, <1>2, <1>3, TailOfList
  <2>3. (Len(e) - k) - 1 = Len(e) - (k + 1) /\ \A i \in 1 .. ((Len(e) - k) - 1) : i + 1 \in 1 .. (Len(e) - k) /\ k + (i + 1) = (k + 1) + i
    <3>1. \A m \in Nat : \A j \in 0 .. m : /\ (m - j) - 1 = m - (j + 1)
                                       /\ \A i \in 1 .. ((m - j) - 1) : i + 1 \in 1 .. (m - j) /\ j + (i + 1) = (j + 1) + i
      OBVIOUS
    <3> QED
      BY <3>1
  <2>4. \A i \in 1 .. ((Len(e) - k) - 1) : Rising(e, k)[i + 1] = e[(k + 1) + i]
    BY <1>1, <2>3
  <2> QED
    BY <1>2, <2>1, <2>2, <2>3, <2>4 DEF Rising
<1>4. k = Len(e) => Rising(e, k) = <<>>
  BY <1>1, <1>2
<1>5. Rising(e, k) = <<>> => k = Len(e)
  <2>1. ASSUME Rising(e, k) = <<>> PROVE Len(e) - k = 0
    BY <1>2, <2>1
  <2> QED
    BY <2>1
<1> QED
  BY <1>3, <1>4, <1>5

LEMMA FallingTail ==
  ASSUME NEW e, NEW k \in Nat
  PROVE  /\ Falling(e, k) = <<>> <=> k = 0
         /\ k > 0 => Head(Falling(e, k)) = e[k] /\ Tail(Falling(e, k)) = Falling(e, k - 1)
<1>1. Falling(e, k) = [i \in 1 .. k |-> e[(k + 1) - i]] /\ Len(Falling(e, k)) = k /\ Falling(e, k) = [i \in 1 .. k |-> Falling(e, k)[i]]
  BY DEF Falling
<1>3. ASSUME k > 0 PROVE Head(Falling(e, k)) = e[k] /\ Tail(Falling(e, k)) = Falling(e, k - 1)
  <2>1. Head(Falling(e, k)) = e[k]
    <3>1. (k + 1) - 1 = k /\ 1 \in 1 .. k
      BY <1>3
    <3> QED
      BY <1>1, <3>1
  <2>2. Tail(Falling(e, k)) = [i \in 1 .. (Len(Falling(e, k)) - 1) |-> Falling(e, k)[i + 1]]
    BY <1>1, <1>3, TailOfList
  <2>3. \A i \in 1 .. (k - 1) : i + 1 \in 1 .. k /\ (k + 1) - (i + 1) = ((k - 1) + 1) - i
    OBVIOUS
  <2>4. \A i \in 1 .. (k - 1) : Falling(e, k)[i + 1] = e[((k - 1) + 1) - i]
    BY <1>1, <2>3
  <2> QED
    BY <1>1, <2>1, <2>2, <2>4 DEF Falling
<1>4. k = 0 => Falling(e, k) = <<>>
  BY <1>1
<1> QED
  BY <1>1, <1>3, <1>4

LEMMA StatementKeepsMade ==
  ASSUME SchemaType, MadeInv, mixed' = FALSE, M!Statement
  PROVE  MadeInv'
<1>1. /\ todo.steps # <<>> /\ transactional # TRUE /\ UNCHANGED <<transactional, version>>
      /\ LET s == Head(todo.steps)
             db == [tables |-> tables, columns |-> columns]
         IN  todo' = [todo EXCEPT !.steps = Tail(@)] /\ mixed' = mixed /\ M!Becomes(M!After(s, todo.up, db))
  BY DEF M!Statement
<1>2. todo # M!Idle
  BY <1>1, IdleType
<1>3. Target \in 1 .. M!Latest
  BY <1>2, UpsAreLists DEF SchemaType, Target
<1> PICK v \in 1 .. M!Latest : v = Target
  BY <1>3
<1> DEFINE e == M!New(v)
<1>4. IsList(e) /\ Len(e) \in Nat
  BY NewIsList DEF IsList
<1>5. PICK k \in 0 .. Len(e) : Reached(tables, columns, v, k) /\ todo.steps = StepsLeft(v, todo.up, k)
  BY <1>1, <1>2 DEF MadeInv
<1>6. todo' = [steps |-> Tail(todo.steps), up |-> todo.up, to |-> todo.to]
  BY <1>1 DEF SchemaType
<1>7. todo'.up = todo.up /\ todo'.steps = Tail(todo.steps) /\ Target' = v /\ transactional' # TRUE
  BY <1>1, <1>6 DEF Target
<1>8. todo' # M!Idle
  <2>1. todo.up = TRUE => todo.to = version + 1 /\ version + 1 # 0
    BY <1>2, UpsAreLists DEF SchemaType
  <2>2. todo' = M!Idle => todo.up = TRUE /\ todo.to = 0
    BY <1>6, IdleType
  <2> QED
    BY <2>1, <2>2
<1>9. CASE todo.up = TRUE
  <2>1. todo.steps = Rising(e, k)
    BY <1>5, <1>9 DEF StepsLeft
  <2>2. k < Len(e) /\ Head(todo.steps) = e[k + 1] /\ Tail(todo.steps) = Rising(e, k + 1)
    BY <1>1, <1>4, <2>1, RisingTail
  <2>3. tables' = GrownTables(e[k + 1], tables) /\ columns' = GrownColumns(e[k + 1], columns)
    <3> DEFINE s == e[k + 1]
    <3>1. M!Becomes(M!After(s, todo.up, [tables |-> tables, columns |-> columns]))
      BY <1>1, <2>2
    <3> HIDE DEF s
    <3>2. tables' = GrownTables(s, tables) /\ columns' = GrownColumns(s, columns)
      <4>1. CASE s.kind = "column"
        BY <1>9, <3>1, <4>1 DEF M!Becomes, M!After, GrownTables, GrownColumns
      <4>2. CASE s.kind # "column"
        BY <1>9, <3>1, <4>2 DEF M!Becomes, M!After, GrownTables, GrownColumns
      <4> QED
        BY <4>1, <4>2
    <3> QED
      BY <3>2 DEF s
  <2>4. k + 1 \in 1 .. Len(e) /\ k + 1 \in 0 .. Len(e) /\ (k + 1) - 1 = k
    BY <1>4, <2>2
  <2>5. Reached(tables', columns', v, k + 1)
    BY <1>5, <2>3, <2>4, MadeByStep DEF Reached
  <2>6. todo'.steps = StepsLeft(v, todo'.up, k + 1)
    BY <1>7, <1>9, <2>2 DEF StepsLeft
  <2> QED
    BY <1>7, <1>8, <2>4, <2>5, <2>6, MidwayIsMade
<1>10. CASE todo.up = FALSE
  <2>0. todo.up # TRUE
    BY <1>10
  <2>1. todo.steps = Falling(e, k)
    BY <1>5, <2>0 DEF StepsLeft
  <2>2. k \in Nat /\ k > 0 /\ Head(todo.steps) = e[k] /\ Tail(todo.steps) = Falling(e, k - 1)
    BY <1>1, <1>4, <2>1, FallingTail
  <2>3. tables' = ShrunkTables(e[k], tables) /\ columns' = ShrunkColumns(e[k], columns)
    <3> DEFINE s == e[k]
    <3>1. M!Becomes(M!After(s, todo.up, [tables |-> tables, columns |-> columns]))
      BY <1>1, <2>2
    <3> HIDE DEF s
    <3>2. tables' = ShrunkTables(s, tables) /\ columns' = ShrunkColumns(s, columns)
      <4>1. CASE s.kind = "column"
        BY <1>10, <3>1, <4>1 DEF M!Becomes, M!After, ShrunkTables, ShrunkColumns
      <4>2. CASE s.kind # "column"
        BY <1>10, <3>1, <4>2 DEF M!Becomes, M!After, ShrunkTables, ShrunkColumns
      <4> QED
        BY <4>1, <4>2
    <3> QED
      BY <3>2 DEF s
  <2>4. k \in 1 .. Len(e) /\ k - 1 \in 0 .. Len(e)
    BY <1>4, <2>2
  <2>5. Reached(tables', columns', v, k - 1)
    BY <1>5, <2>3, <2>4, MadeByStep DEF Reached
  <2>6. todo'.steps = StepsLeft(v, todo'.up, k - 1)
    BY <1>7, <2>0, <2>2 DEF StepsLeft
  <2> QED
    BY <1>7, <1>8, <2>4, <2>5, <2>6, MidwayIsMade
<1> QED
  BY <1>9, <1>10 DEF SchemaType

LEMMA StampKeepsMade ==
  ASSUME SchemaType, MadeInv, mixed = FALSE, M!Stamp
  PROVE  MadeInv'
<1>1. todo.steps = <<>> /\ todo # M!Idle /\ todo' = M!Idle /\ version' = todo.to /\ UNCHANGED <<tables, columns>>
  BY DEF M!Stamp
<1>2. Target \in 1 .. M!Latest
  BY <1>1, UpsAreLists DEF SchemaType, Target
<1> PICK v \in 1 .. M!Latest : v = Target
  BY <1>2
<1> DEFINE e == M!New(v)
<1>3. IsList(e) /\ Len(e) \in Nat
  BY NewIsList DEF IsList
<1>4. PICK k \in 0 .. Len(e) : Reached(tables, columns, v, k) /\ todo.steps = StepsLeft(v, todo.up, k)
  BY <1>1 DEF MadeInv
<1>5. CASE todo.up = TRUE
  <2>1. k = Len(e) /\ version' = v
    <3>1. Rising(e, k) = <<>>
      BY <1>1, <1>4, <1>5 DEF StepsLeft
    <3> QED
      BY <1>1, <1>3, <1>5, <3>1, RisingTail DEF SchemaType, Target
  <2> QED
    BY <1>1, <1>4, <2>1, MadeAtVersion DEF MadeInv, Reached
<1>6. CASE todo.up # TRUE
  <2>1. k = 0 /\ version' = v - 1
    <3>1. Falling(e, k) = <<>>
      BY <1>1, <1>4, <1>6 DEF StepsLeft
    <3>2. k \in Nat
      BY <1>3
    <3>3. k = 0
      BY <3>1, <3>2, FallingTail
    <3>4. v = version /\ todo.to = version - 1
      BY <1>1, <1>6 DEF SchemaType, Target
    <3> QED
      BY <1>1, <3>3, <3>4
  <2> QED
    BY <1>1, <1>4, <2>1, MadeAtVersion DEF MadeInv, Reached
<1> QED
  BY <1>5, <1>6

LEMMA MadeInvInit == M!Init => MadeInv
<1> SUFFICES ASSUME M!Init PROVE MadeInv
  OBVIOUS
<1>1. todo = M!Idle /\ version = 0 /\ columns = {} /\ (mixed = FALSE => tables = {})
  BY DEF M!Init
<1> QED
  BY <1>1, NothingMade DEF MadeInv

LEMMA MadeInvNext == SchemaType /\ StartInv /\ MadeInv /\ M!Next => MadeInv'
<1> SUFFICES ASSUME SchemaType, StartInv, MadeInv, M!Next, mixed' = FALSE PROVE MadeInv'
  BY DEF MadeInv
<1>1. ASSUME NEW up \in BOOLEAN, M!Migrate(up) PROVE MadeInv'
  <2>1. mixed = FALSE
    BY <1>1 DEF M!Migrate
  <2> QED
    BY <1>1, <2>1, MigrateKeepsMade
<1>2. CASE M!Transaction
  <2>1. mixed = FALSE
    BY <1>2 DEF M!Transaction
  <2> QED
    BY <1>2, <2>1, TransactionKeepsMade
<1>3. CASE M!Statement
  BY <1>3, StatementKeepsMade
<1>4. CASE M!Stamp
  <2>1. mixed = FALSE
    BY <1>4 DEF M!Stamp
  <2> QED
    BY <1>4, <2>1, StampKeepsMade
<1>5. CASE M!Register
  <2>1. UNCHANGED <<tables, columns, version, todo, transactional, mixed>>
    BY <1>5 DEF M!Register
  <2> QED
    BY <2>1 DEF MadeInv, Target
<1>6. ASSUME NEW p \in Processes, M!CreateAll(p) \/ M!Inspect(p) \/ M!Add(p) \/ M!Started(p) \/ M!Kill(p) PROVE FALSE
  <2>1. CASE M!CreateAll(p)
    BY <2>1 DEF M!CreateAll
  <2>2. CASE M!Inspect(p) \/ M!Add(p) \/ M!Started(p) \/ M!Kill(p)
    <3>1. mixed' = mixed
      BY <2>2 DEF M!Inspect, M!Add, M!Started, M!Kill
    <3>2. starting[p].at # "off"
      <4>1. starting[p].at = "off" => starting[p].columns = {} /\ starting[p] = M!Off
        BY OffIsOff DEF StartInv
      <4> QED
        BY <2>2, <4>1 DEF M!Inspect, M!Add, M!Started, M!Kill
    <3> QED
      BY <3>1, <3>2 DEF StartInv
  <2> QED
    BY <1>6, <2>1, <2>2
<1>7. DOMAIN starting = Processes
  BY DEF StartInv
<1> QED
  BY <1>1, <1>2, <1>3, <1>4, <1>5, <1>6, <1>7 DEF M!Next

\* What a version makes refers to nothing else.
LEMMA VersionIsClosed == \A v \in 0 .. M!Latest : Closed(M!Made(M!Statements(v)).tables)
<1>1. ASSUME NEW v \in 1 .. M!Latest PROVE Closed(M!Made(M!Statements(v)).tables)
  <2>1. Len(M!New(v)) \in 0 .. Len(M!New(v))
    BY NewIsList DEF IsList
  <2> QED
    BY <2>1, MadeIsClosed, MadeAtVersion
<1>2. Closed(M!Made(M!Statements(0)).tables)
  BY NothingMade DEF Closed
<1> QED
  BY <1>1, <1>2, UpsAreLists

LEMMA ClosedInvInit == M!Init => ClosedInv
<1> SUFFICES ASSUME M!Init PROVE ClosedInv
  OBVIOUS
<1>1. todo = M!Idle /\ version = 0 /\ (tables = {} \/ tables = M!Of(M!Range(M!Initial), "table"))
  BY DEF M!Init
<1>2. M!Of(M!Range(M!Initial), "table") = M!Made(M!Statements(1)).tables
  <2>1. M!Ups[1] = M!Initial
    BY DEF M!Ups
  <2>2. 1 .. 1 = {1}
    OBVIOUS
  <2>3. M!Statements(1) = M!Range(M!Initial)
    BY <2>1, <2>2 DEF M!Statements
  <2> QED
    BY <2>3 DEF M!Made
<1>3. Closed(tables)
  <2>1. CASE tables = {}
    BY <2>1 DEF Closed
  <2>2. CASE tables = M!Of(M!Range(M!Initial), "table")
    BY <1>2, <2>2, VersionIsClosed, UpsAreLists
  <2> QED
    BY <1>1, <2>1, <2>2
<1> QED
  BY <1>1, <1>3, NothingMade DEF ClosedInv

LEMMA GuardedMakesNoTable ==
  ASSUME NEW v \in 1 .. M!Latest, M!Guarded(v)
  PROVE  M!Made(M!Statements(v)).tables = M!Made(M!Statements(v - 1)).tables
<1> DEFINE a == M!Column("fit_explanation")
<1>1. M!New(v) = <<a>> /\ a.kind = "column"
  BY NewIsList DEF M!Column
<1> HIDE DEF a
<1>2. Len(M!New(v)) = 1 /\ M!New(v)[1] = a /\ 1 - 1 = 0
  BY <1>1
<1>3. GrownTables(a, M!Made(M!Upto(v, 0)).tables) = M!Made(M!Upto(v, 1)).tables
  <2>1. 1 \in 1 .. Len(M!New(v))
    BY <1>2
  <2>2. GrownTables(M!New(v)[1], M!Made(M!Upto(v, 1 - 1)).tables) = M!Made(M!Upto(v, 1)).tables
    BY <2>1, MadeByStep
  <2> QED
    BY <1>2, <2>2
<1> QED
  BY <1>1, <1>2, <1>3, MadeAtVersion DEF GrownTables

\* What the guarded migration has to go are columns.
LEMMA PickedColumns ==
  ASSUME NEW v \in 1 .. M!Latest, M!Guarded(v), NEW s, s = M!Ups[v] \/ s = M!Downs(v), NEW I
  PROVE  IsList(M!Picked(s, I)) /\ \A i \in 1 .. Len(M!Picked(s, I)) : M!Picked(s, I)[i].kind = "column"
<1> DEFINE a == M!Column("fit_explanation")
           b == M!Column("field")
           c == M!Column("subfield")
           V == {a, b, c}
<1>1. s = <<a, b, c>> \/ s = <<a>>
  BY NewIsList DEF M!Guarded, M!FitExplanation
<1>2. \A x \in V : x.kind = "column"
  BY DEF M!Column
<1> HIDE DEF a, b, c
<1>3. s \in Seq(V)
  <2>1. <<a, b, c>> \in Seq(V) /\ <<a>> \in Seq(V)
    OBVIOUS
  <2> HIDE DEF V
  <2> QED
    BY <1>1, <2>1
<1>4. M!Picked(s, I) = Picked(s, I)
  BY DEF M!Picked, Picked
<1> DEFINE Left == {s[i] : i \in I \intersect (1 .. Len(s))}
<1>5. Picked(s, I) \in Seq(Left)
  <2> HIDE DEF V
  <2> QED
    BY <1>3, PickedItems
<1>6. \A x \in Left : x.kind = "column"
  <2> HIDE DEF V
  <2> QED
    BY <1>2, <1>3
<1> HIDE DEF V, Left
<1> QED
  BY <1>4, <1>5, <1>6 DEF IsList

LEMMA MigrateKeepsClosed ==
  ASSUME SchemaType, ClosedInv, transactional = TRUE, NEW up \in BOOLEAN, M!Migrate(up)
  PROVE  ClosedInv'
<1>1. CASE up = TRUE
  <2>0. version + 1 \in 1 .. M!Latest
    BY <1>1, MigrateUp
  <2> PICK v \in 1 .. M!Latest : v = version + 1
    BY <2>0
  <2>1. /\ todo'.up = TRUE /\ UNCHANGED <<tables, version>>
        /\ ~M!Guarded(v) => todo'.steps = M!Ups[v]
        /\ M!Guarded(v) => todo'.steps = M!Picked(M!Ups[v], {i \in DOMAIN M!Ups[v] : M!Ups[v][i].name \notin columns})
    BY <1>1, MigrateUp
  <2>2. Target' = v
    BY <2>1 DEF Target
  <2>3. ~M!Guarded(v) => todo'.steps = StepsLeft(v, todo'.up, First(v, todo'.up))
    BY <2>1, NewIsList, RisingIsList DEF StepsLeft, First
  <2>4. M!Guarded(v) => IsList(todo'.steps) /\ \A i \in 1 .. Len(todo'.steps) : todo'.steps[i].kind = "column"
    BY <2>1, PickedColumns
  <2> QED
    BY <2>1, <2>2, <2>3, <2>4 DEF ClosedInv
<1>2. CASE up = FALSE
  <2>0. version \in 1 .. M!Latest
    BY <1>2, MigrateDown
  <2> PICK v \in 1 .. M!Latest : v = version
    BY <2>0
  <2>1. /\ todo'.up = FALSE /\ UNCHANGED <<tables, version>>
        /\ ~M!Guarded(v) => todo'.steps = M!Downs(v)
        /\ M!Guarded(v) => todo'.steps = M!Picked(M!Downs(v), {i \in DOMAIN M!Downs(v) : M!Downs(v)[i].name \in columns})
    BY <1>2, MigrateDown
  <2>5. todo'.up # TRUE
    BY <2>1
  <2>2. Target' = v
    BY <2>1, <2>5 DEF Target
  <2>3. ASSUME ~M!Guarded(v) PROVE todo'.steps = StepsLeft(v, todo'.up, First(v, todo'.up))
    <3>1. First(v, todo'.up) = Len(M!New(v))
      BY <2>5 DEF First
    <3>2. StepsLeft(v, todo'.up, Len(M!New(v))) = Falling(M!New(v), Len(M!New(v)))
      BY <2>5 DEF StepsLeft
    <3> QED
      BY <2>1, <2>3, <3>1, <3>2, NewIsList DEF Falling
  <2>4. M!Guarded(v) => IsList(todo'.steps) /\ \A i \in 1 .. Len(todo'.steps) : todo'.steps[i].kind = "column"
    BY <2>1, PickedColumns
  <2> QED
    BY <2>1, <2>2, <2>3, <2>4 DEF ClosedInv
<1> QED
  BY <1>1, <1>2

\* Columns come and go without their table.
LEMMA ColumnsRun ==
  ASSUME NEW steps, IsList(steps), NEW up \in BOOLEAN, NEW f,
         \A n \in 1 .. Len(steps) : Moves(steps[n], up, f[n - 1], f[n]) /\ steps[n].kind = "column"
  PROVE  f[Len(steps)].tables = f[0].tables
<1> DEFINE T == {n \in Nat : n <= Len(steps) => f[n].tables = f[0].tables}
<1>1. Len(steps) \in Nat
  BY DEF IsList
<1>2. 0 \in T
  OBVIOUS
<1>3. ASSUME NEW n \in Nat, n \in T PROVE n + 1 \in T
  <2> SUFFICES ASSUME n + 1 <= Len(steps) PROVE f[n + 1].tables = f[0].tables
    OBVIOUS
  <2>1. n + 1 \in 1 .. Len(steps) /\ (n + 1) - 1 = n /\ f[n].tables = f[0].tables
    BY <1>1, <1>3
  <2>2. Moves(steps[n + 1], up, f[n], f[n + 1]) /\ steps[n + 1].kind = "column"
    BY <2>1
  <2> QED
    BY <2>1, <2>2 DEF Moves, GrownTables, ShrunkTables
<1> HIDE DEF T
<1>4. Len(steps) \in T
  BY <1>1, <1>2, <1>3, Induction
<1> QED
  BY <1>1, <1>4 DEF T

\* A whole upgrade.
LEMMA UpgradeRun ==
  ASSUME NEW v \in 1 .. M!Latest, NEW up, up = TRUE, NEW f, NEW e, e = M!New(v),
         \A n \in 1 .. Len(e) : Moves(e[n], up, f[n - 1], f[n]),
         M!Made(M!Statements(v - 1)).tables \subseteq f[0].tables, Closed(f[0].tables)
  PROVE  M!Made(M!Statements(v)).tables \subseteq f[Len(e)].tables /\ Closed(f[Len(e)].tables)
<1> DEFINE At(n) == M!Made(M!Upto(v, n)).tables \subseteq f[n].tables /\ Closed(f[n].tables)
           T == {n \in Nat : n <= Len(e) => At(n)}
<1>1. Len(e) \in Nat
  BY NewIsList DEF IsList
<1>2. 0 \in T
  BY MadeAtVersion
<1>3. ASSUME NEW n \in Nat, n \in T PROVE n + 1 \in T
  <2> SUFFICES ASSUME n + 1 <= Len(e) PROVE At(n + 1)
    OBVIOUS
  <2> DEFINE s == e[n + 1]
             less == M!Made(M!Upto(v, n))
             more == M!Made(M!Upto(v, n + 1))
  <2>1. n + 1 \in 1 .. Len(e) /\ (n + 1) - 1 = n /\ At(n)
    BY <1>1, <1>3
  <2>2. f[n + 1].tables = GrownTables(s, f[n].tables)
    BY <2>1 DEF Moves
  <2>3. GrownTables(s, less.tables) = more.tables
    BY <2>1, MadeByStep
  <2>4. \/ s.kind = "column"
        \/ s.kind = "table" /\ M!Refs[s.name] \subseteq less.tables \union {s.name}
    <3>1. \/ s.kind = "column"
          \/ s.kind = "table" /\ s.refs = M!Refs[s.name] /\ s.refs \subseteq less.tables \union {s.name}
      BY <2>1, Fits
    <3> HIDE DEF s, less
    <3> QED
      BY <3>1
  <2>5. less.tables \subseteq f[n].tables /\ Closed(f[n].tables)
    BY <2>1
  <2> HIDE DEF s, less, more
  <2>6. more.tables \subseteq f[n + 1].tables /\ Closed(f[n + 1].tables)
    BY <2>2, <2>3, <2>4, <2>5 DEF GrownTables, Closed
  <2> QED
    BY <2>6 DEF more
<1> HIDE DEF T, At
<1>4. Len(e) \in T
  BY <1>1, <1>2, <1>3, Induction
<1>5. At(Len(e))
  BY <1>1, <1>4 DEF T
<1> QED
  BY <1>5, MadeAtVersion DEF At

\* A whole downgrade, when none of its statements failed.
LEMMA DowngradeRun ==
  ASSUME transactional = TRUE,
         NEW v \in 1 .. M!Latest, NEW up, up = FALSE, NEW f, NEW e, e = M!New(v), NEW len, len = Len(e), NEW steps, steps = Falling(e, len),
         \A n \in 1 .. len : Moves(steps[n], up, f[n - 1], f[n]),
         M!Made(M!Statements(v)).tables \subseteq f[0].tables, Closed(f[0].tables), f[len].ok
  PROVE  M!Made(M!Statements(v - 1)).tables \subseteq f[len].tables /\ Closed(f[len].tables)
<1> DEFINE At(n) == f[n].ok => M!Made(M!Upto(v, len - n)).tables \subseteq f[n].tables /\ Closed(f[n].tables)
           T == {n \in Nat : n <= len => At(n)}
<1>1. len \in Nat /\ len - 0 = len /\ len - len = 0
  BY NewIsList DEF IsList
<1>0. \A n \in 1 .. len : steps[n] = e[(len + 1) - n]
  BY <1>1 DEF Falling
<1>2. 0 \in T
  BY <1>1, MadeAtVersion
<1>3. ASSUME NEW n \in Nat, n \in T PROVE n + 1 \in T
  <2> SUFFICES ASSUME n + 1 <= len, f[n + 1].ok
               PROVE  M!Made(M!Upto(v, len - (n + 1))).tables \subseteq f[n + 1].tables /\ Closed(f[n + 1].tables)
    OBVIOUS
  <2> DEFINE k == len - n
             s == e[k]
             less == M!Made(M!Upto(v, k - 1))
             more == M!Made(M!Upto(v, k))
  <2>1. n + 1 \in 1 .. len /\ (n + 1) - 1 = n /\ k \in 1 .. len /\ k - 1 = len - (n + 1) /\ (len + 1) - (n + 1) = k
    BY <1>1
  <2>2. Moves(s, up, f[n], f[n + 1])
    BY <1>0, <2>1
  <2>3. f[n + 1].tables = ShrunkTables(s, f[n].tables) /\ f[n].ok /\ ~M!Fails(s, up, f[n])
    BY <2>2 DEF Moves
  <2>4. ShrunkTables(s, more.tables) = less.tables
    BY <2>1, MadeByStep
  <2>5. more.tables \subseteq f[n].tables /\ Closed(f[n].tables)
    BY <1>1, <1>3, <2>3
  <2> HIDE DEF s, less, more, k
  <2>6. s.kind = "column" \/ \A t \in f[n].tables \ {s.name} : s.name \notin M!Refs[t]
    BY <2>3 DEF M!Fails
  <2>7. less.tables \subseteq f[n + 1].tables /\ Closed(f[n + 1].tables)
    BY <2>3, <2>4, <2>5, <2>6 DEF ShrunkTables, Closed
  <2> QED
    BY <2>1, <2>7 DEF less
<1> HIDE DEF T, At
<1>4. len \in T
  BY <1>1, <1>2, <1>3, Induction
<1>5. At(len)
  BY <1>1, <1>4 DEF T
<1> QED
  BY <1>1, <1>5, MadeAtVersion DEF At

LEMMA TransactionKeepsClosed ==
  ASSUME SchemaType, ClosedInv, M!Transaction
  PROVE  ClosedInv'
<1> DEFINE steps == todo.steps
           db == [tables |-> tables, columns |-> columns, ok |-> TRUE]
           ran == M!Run(steps, todo.up, db)
<1>1. todo # M!Idle /\ transactional = TRUE /\ todo' = M!Idle
      /\ IF ran.ok THEN tables' = ran.tables /\ version' = todo.to ELSE UNCHANGED <<tables, version>>
  <2>1. todo # M!Idle /\ transactional /\ todo' = M!Idle
    BY DEF M!Transaction
  <2>2. transactional = TRUE
    BY <2>1
  <2> QED
    BY <2>1, <2>2 DEF M!Transaction, M!Becomes
<1>2. /\ Target \in 1 .. M!Latest /\ todo.up \in BOOLEAN
      /\ version = (IF todo.up = TRUE THEN Target - 1 ELSE Target) /\ todo.to = (IF todo.up = TRUE THEN Target ELSE Target - 1)
  BY <1>1, UpsAreLists DEF SchemaType, Target
<1> PICK v \in 1 .. M!Latest : v = Target
  BY <1>2
<1> PICK up \in BOOLEAN : up = todo.up
  BY <1>2
<1>3. version = (IF up = TRUE THEN v - 1 ELSE v) /\ todo.to = (IF up = TRUE THEN v ELSE v - 1)
  BY <1>2
<1> DEFINE e == M!New(v)
<1>4. IsList(e) /\ Len(e) \in Nat
  BY NewIsList DEF IsList
<1>5. M!Made(M!Statements(version)).tables \subseteq tables /\ Closed(tables)
      /\ IF M!Guarded(v) THEN IsList(steps) /\ \A i \in 1 .. Len(steps) : steps[i].kind = "column"
         ELSE steps = (IF up = TRUE THEN Rising(e, 0) ELSE Falling(e, Len(e)))
  BY <1>1 DEF ClosedInv, StepsLeft, First
<1>6. IsList(steps)
  <2> HIDE DEF e, steps
  <2>1. CASE M!Guarded(v)
    BY <1>5, <2>1
  <2>2. CASE ~M!Guarded(v) /\ up = TRUE
    BY <1>4, <1>5, <2>2, RisingIsList
  <2>3. CASE ~M!Guarded(v) /\ up = FALSE
    BY <1>4, <1>5, <2>3, FallingIsList
  <2> QED
    BY <2>1, <2>2, <2>3
<1>7. PICK f : /\ f[0] = db /\ ran = f[Len(steps)]
               /\ \A n \in 1 .. Len(steps) : Moves(steps[n], up, f[n - 1], f[n])
  <2> HIDE DEF steps
  <2> QED
    BY <1>6, RunSteps
<1>8. f[0].tables = tables
  BY <1>7
<1>9. SUFFICES ASSUME ran.ok
               PROVE  M!Made(M!Statements(todo.to)).tables \subseteq ran.tables /\ Closed(ran.tables)
  <2> HIDE DEF ran
  <2>1. M!Made(M!Statements(version')).tables \subseteq tables' /\ Closed(tables')
    <3>1. CASE ran.ok
      BY <1>1, <1>9, <3>1
    <3>2. CASE ~ran.ok
      BY <1>1, <1>5, <3>2
    <3> QED
      BY <3>1, <3>2
  <2> QED
    BY <1>1, <2>1 DEF ClosedInv
<1> HIDE DEF ran, db, e, steps
<1>10. CASE M!Guarded(v)
  <2>1. ran.tables = tables
    BY <1>5, <1>6, <1>7, <1>8, <1>10, ColumnsRun
  <2>2. M!Made(M!Statements(v)).tables = M!Made(M!Statements(v - 1)).tables
    BY <1>10, GuardedMakesNoTable
  <2>3. M!Made(M!Statements(todo.to)).tables = M!Made(M!Statements(version)).tables
    BY <1>3, <2>2
  <2> QED
    BY <1>5, <2>1, <2>3
<1>11. CASE ~M!Guarded(v) /\ up = TRUE
  <2>1. steps = e
    BY <1>4, <1>5, <1>11, RisingIsList
  <2>2. M!Made(M!Statements(v)).tables \subseteq f[Len(e)].tables /\ Closed(f[Len(e)].tables)
    BY <1>3, <1>5, <1>7, <1>8, <1>11, <2>1, UpgradeRun DEF e
  <2> QED
    BY <1>3, <1>7, <1>11, <2>1, <2>2
<1>12. CASE ~M!Guarded(v) /\ up = FALSE
  <2>1. steps = Falling(e, Len(e)) /\ Len(steps) = Len(e)
    BY <1>4, <1>5, <1>12, FallingIsList
  <2>2. M!Made(M!Statements(v - 1)).tables \subseteq f[Len(e)].tables /\ Closed(f[Len(e)].tables)
    BY <1>1, <1>3, <1>5, <1>7, <1>8, <1>9, <1>12, <2>1, DowngradeRun DEF e
  <2> QED
    BY <1>3, <1>7, <1>12, <2>1, <2>2
<1> QED
  BY <1>10, <1>11, <1>12

LEMMA CreateAllKeepsClosed ==
  ASSUME ClosedInv, transactional = TRUE, NEW p \in Processes, M!CreateAll(p)
  PROVE  ClosedInv'
<1> DEFINE Imported == DOMAIN M!Models(p)
<1>1. tables' = tables \union Imported /\ todo = M!Idle /\ UNCHANGED <<todo, version>>
  BY DEF M!CreateAll
<1>2. \A t \in Imported : M!Refs[t] \subseteq Imported
  BY MigrationsAssumption DEF M!MigrationsFit, Processes
<1> HIDE DEF Imported
<1> QED
  BY <1>1, <1>2 DEF ClosedInv, Closed

LEMMA ClosedInvNext == SchemaType /\ StartInv /\ ClosedInv /\ M!Next => ClosedInv'
<1> SUFFICES ASSUME SchemaType, StartInv, ClosedInv, M!Next, transactional' = TRUE PROVE ClosedInv'
  BY DEF ClosedInv
<1>0. DOMAIN starting = Processes
  BY DEF StartInv
<1>1. ASSUME NEW up \in BOOLEAN, M!Migrate(up) PROVE ClosedInv'
  <2>1. transactional = TRUE
    BY <1>1 DEF M!Migrate
  <2> QED
    BY <1>1, <2>1, MigrateKeepsClosed
<1>2. CASE M!Transaction
  BY <1>2, TransactionKeepsClosed
<1>3. CASE M!Statement \/ M!Stamp
  BY <1>3 DEF M!Statement, M!Stamp
<1>4. ASSUME NEW p \in Processes, M!CreateAll(p) PROVE ClosedInv'
  <2>1. transactional = TRUE
    BY <1>4 DEF M!CreateAll
  <2> QED
    BY <1>4, <2>1, CreateAllKeepsClosed
<1>5. CASE UNCHANGED <<tables, version, todo, transactional>>
  BY <1>5 DEF ClosedInv, Target
<1> QED
  BY <1>0, <1>1, <1>2, <1>3, <1>4, <1>5 DEF M!Next, M!Register, M!Inspect, M!Add, M!Started, M!Kill

-----------------------------------------------------------------------------

LEMMA StartMeans == StartInv => M!StartCompletes
BY DEF StartInv, M!StartCompletes

LEMMA SchemaMeans == SchemaType /\ MadeInv /\ ClosedInv /\ mixed \in BOOLEAN /\ transactional \in BOOLEAN => M!MigrationsInvert
<1> SUFFICES ASSUME SchemaType, MadeInv, ClosedInv, mixed \in BOOLEAN, transactional \in BOOLEAN PROVE M!MigrationsInvert
  OBVIOUS
<1>1. ASSUME ~mixed, todo = M!Idle
      PROVE  /\ [tables |-> tables, columns |-> columns] = M!Made(M!Statements(version))
             /\ version = M!Latest => tables = DOMAIN M!Refs \ {"saved_items"} /\ columns = DOMAIN M!Later
  <2>1. tables = M!Made(M!Statements(version)).tables /\ columns = M!Made(M!Statements(version)).columns
    BY <1>1 DEF MadeInv
  <2>2. [tables |-> tables, columns |-> columns] = M!Made(M!Statements(version))
    BY <2>1 DEF M!Made
  <2> DEFINE models == [tables |-> DOMAIN M!Refs \ {"saved_items"}, columns |-> DOMAIN M!Later]
  <2>3. M!Made(M!Statements(M!Latest)) = models
    BY MigrationsAssumption DEF M!MigrationsFit
  <2>4. models.tables = DOMAIN M!Refs \ {"saved_items"} /\ models.columns = DOMAIN M!Later
    OBVIOUS
  <2> HIDE DEF models
  <2> QED
    BY <2>1, <2>2, <2>3, <2>4
<1>2. \A s \in M!Statements(version) : s.kind = "table" => s.refs = M!Refs[s.name]
  BY RefsAgree DEF SchemaType
<1>3. ASSUME ~mixed \/ transactional PROVE \A t \in tables : M!Refs[t] \subseteq tables
  <2>1. CASE transactional = TRUE
    BY <2>1 DEF ClosedInv, Closed
  <2>2. CASE mixed = FALSE
    <3>1. CASE todo = M!Idle
      BY <2>2, <3>1, VersionIsClosed DEF MadeInv, SchemaType, Closed
    <3>2. CASE todo # M!Idle
      <4>1. Target \in 1 .. M!Latest
        BY <3>2, UpsAreLists DEF SchemaType, Target
      <4>2. PICK k \in 0 .. Len(M!New(Target)) : tables = M!Made(M!Upto(Target, k)).tables
        BY <2>2, <3>2 DEF MadeInv, Reached
      <4> QED
        BY <4>1, <4>2, MadeIsClosed DEF Closed
    <3> QED
      BY <3>1, <3>2
  <2> QED
    BY <1>3, <2>1, <2>2
<1> QED
  BY <1>1, <1>2, <1>3 DEF M!MigrationsInvert

LEMMA FlagsKept ==
  /\ M!Init => mixed \in BOOLEAN /\ transactional \in BOOLEAN
  /\ mixed \in BOOLEAN /\ transactional \in BOOLEAN /\ M!Next => mixed' \in BOOLEAN /\ transactional' \in BOOLEAN
BY DEF M!Init, M!Next, M!Migrate, M!Transaction, M!Statement, M!Stamp, M!Register, M!CreateAll, M!Inspect, M!Add, M!Started, M!Kill

\* init_db and the migrations do what they promise: when the API has started, every table
\* and column of its models is there; migrations alone make the schema of their version,
\* up and down; and no table refers to one that is not there.
THEOREM SchemaIsWhole == StoresSpec => []SchemaHolds
<1> DEFINE Flags == mixed \in BOOLEAN /\ transactional \in BOOLEAN
           Inv == part = "schema" => SchemaType /\ StartInv /\ MadeInv /\ ClosedInv /\ Flags
<1>1. StoresInit => Inv
  BY SchemaTypeInit, StartInvInit, MadeInvInit, ClosedInvInit, FlagsKept DEF StoresInit, StoresAtStart
<1>2. Inv /\ [StoresNext]_stores => Inv'
  <2> SUFFICES ASSUME Inv, [StoresNext]_stores PROVE Inv'
    OBVIOUS
  <2>1. CASE part = "schema" /\ M!Next
    BY <2>1, SchemaTypeNext, StartInvNext, MadeInvNext, ClosedInvNext, FlagsKept
  <2>2. CASE UNCHANGED <<part, schema>>
    <3>1. part' = part /\ UNCHANGED <<transactional, tables, columns, version, userRows, todo, starting, started, mixed, moves>>
      BY <2>2 DEF schema
    <3>2. SchemaType => SchemaType'
      BY <3>1 DEF SchemaType
    <3>3. StartInv => StartInv'
      BY <3>1 DEF StartInv
    <3>4. MadeInv => MadeInv'
      BY <3>1 DEF MadeInv, Target
    <3>5. ClosedInv => ClosedInv'
      BY <3>1 DEF ClosedInv, Target
    <3> QED
      BY <3>1, <3>2, <3>3, <3>4, <3>5
  <2>3. CASE part # "schema" /\ part' = part
    BY <2>3
  <2> QED
    BY <2>1, <2>2, <2>3 DEF StoresNext, stores, api
<1>3. Inv => SchemaHolds
  BY StartMeans, SchemaMeans DEF SchemaHolds
<1> QED
  BY <1>1, <1>2, <1>3, PTL DEF StoresSpec
=============================================================================
