---------------------------- MODULE ResearchGraph ----------------------------
(***************************************************************************)
(* What one research attempt finds: the nodes of the workflow are asked in *)
(* order (research/graph.py), each answer is accepted as a whole or not at *)
(* all (research/validate.py), accepted claims and coverage are merged,    *)
(* and the result is graded (domain/protocols.py) and written to the       *)
(* database (research/service.py).                                         *)
(*                                                                         *)
(* Statements, prompts and identifiers are left out; a claim is what the   *)
(* rules look at: its type, what it cites and the class it speaks about.   *)
(***************************************************************************)
EXTENDS Integers, Sequences, FiniteSets

CONSTANTS Classes,    \* evidence classes a provider may name
          Mandatory,  \* Protocol.mandatory
          AllowZero,  \* Protocol.allow_zero_result
          Artifacts,  \* rows of radar_evidence_artifacts
          Bound,      \* those bound to this run: the keys of evidence_lookup
          Invented,   \* identifiers of no row
          LastNode,   \* the number of nodes, nine in the code
          Answers     \* what the provider may answer

CoverageStatus == {"SEARCHED_FOUND", "SEARCHED_NONE_FOUND", "NOT_SEARCHED", "BLOCKED"}
ClaimType == {"EXTERNAL_FACT", "OBSERVED_RELATION", "INFERENCE", "USER_DECISION"}
Claim == [type : ClaimType, cites : SUBSET (Artifacts \cup Invented), class : Classes]

\* NodeOutput; a class the dict does not name is "absent".  An answer that is
\* no JSON or does not fit the schema is not wellFormed.
Coverage == [Classes -> CoverageStatus \cup {"absent"}]
NodeOutput == [wellFormed : BOOLEAN, claims : SUBSET Claim, coverage : Coverage]

ASSUME GraphAssumption ==
    /\ Mandatory \subseteq Classes
    /\ AllowZero \in BOOLEAN
    /\ Bound \subseteq Artifacts
    /\ Artifacts \cap Invented = {}
    /\ LastNode \in Nat \ {0}
    /\ Answers \subseteq NodeOutput

VARIABLES
    phase,     \* "asking", "graded", "saved", or "failed": the attempt raised
    answers,   \* the provider's answers so far
    claims,    \* state["claims"], each with the node it came from
    coverage,  \* state["coverage"]
    ready,     \* result["readiness"]["ready"]
    rows,      \* the ResearchCoverage rows of the run
    saved,     \* the Claim rows of the run
    status     \* ResearchRun.status

vars == <<phase, answers, claims, coverage, ready, rows, saved, status>>

Nothing == [c \in Classes |-> "absent"]

TypeOK ==
    /\ phase \in {"asking", "graded", "saved", "failed"}
    /\ answers \in Seq(Answers)
    /\ Len(answers) <= LastNode
    /\ claims \in SUBSET ((1 .. LastNode) \X Claim)
    /\ coverage \in Coverage
    /\ ready \in BOOLEAN
    /\ rows \in Coverage
    /\ saved \in SUBSET ((1 .. LastNode) \X Claim)
    /\ status \in {"RUNNING", "COMPLETED", "PARTIAL"}

Init ==
    /\ phase = "asking"
    /\ answers = <<>>
    /\ claims = {}
    /\ coverage = Nothing
    /\ ready = FALSE
    /\ rows = Nothing
    /\ saved = {}
    /\ status = "RUNNING"

-----------------------------------------------------------------------------
(* accept_output.                                                          *)

Consequential(claim) == claim.type \in {"EXTERNAL_FACT", "OBSERVED_RELATION", "INFERENCE"}

\* Mutant: any identifier will do.
Cited(claim) == Consequential(claim) => claim.cites # {}

\* A consequential claim cites evidence, and only evidence of this run.  The
\* branch for claims of type UNKNOWN is dead: the schema has no such type.
Supported(claim) == Consequential(claim) => claim.cites # {} /\ claim.cites \subseteq Bound

Acceptable(output) == output.wellFormed /\ \A claim \in output.claims : Supported(claim)

-----------------------------------------------------------------------------
(* run_node.                                                               *)

\* Mutant: the last node to mention a class has the word.
MergeLatest(old, new) == IF new = "absent" THEN old ELSE new

\* What a class's status becomes when an accepted answer says new about it.
MergeStatus(old, new) ==
    IF \/ new \in {"SEARCHED_FOUND", "BLOCKED"}
       \/ new # "absent" /\ old \in {"absent", "NOT_SEARCHED"}
    THEN new
    ELSE old

\* Mutant: the good claims of a rejected answer are kept.
KeepGoodClaims(output) ==
    /\ claims' = claims \cup {<<Len(answers) + 1, c>> : c \in {d \in output.claims : Supported(d)}}
    /\ UNCHANGED coverage

Reject(output) == UNCHANGED <<claims, coverage>>

Merge(output) ==
    /\ claims' = claims \cup {<<Len(answers) + 1, c>> : c \in output.claims}
    /\ coverage' = [c \in Classes |-> MergeStatus(coverage[c], output.coverage[c])]

\* The nodes are a chain, and the last one is the finish point.
NodesLeft == Len(answers) < LastNode

AskNode ==
    /\ phase = "asking"
    /\ NodesLeft
    /\ \E output \in Answers :
          /\ answers' = Append(answers, output)
          /\ IF Acceptable(output) THEN Merge(output) ELSE Reject(output)
    /\ UNCHANGED <<phase, ready, rows, saved, status>>

\* The provider raises, or its answer is JSON but no object: the attempt is over,
\* and nothing of it is kept.
NodeRaises ==
    /\ phase = "asking"
    /\ NodesLeft
    /\ phase' = "failed"
    /\ UNCHANGED <<answers, claims, coverage, ready, rows, saved, status>>

-----------------------------------------------------------------------------
(* compute_readiness and the persisting half of run_research.              *)

\* Mutant: a blocked class is not missing.
SatisfiedOrBlocked(s) ==
    \/ s \in {"SEARCHED_FOUND", "BLOCKED"}
    \/ s = "SEARCHED_NONE_FOUND" /\ AllowZero

Satisfied(s) == \/ s = "SEARCHED_FOUND"
                \/ s = "SEARCHED_NONE_FOUND" /\ AllowZero

ComputeReadiness ==
    /\ phase = "asking"
    /\ Len(answers) = LastNode
    /\ phase' = "graded"
    /\ ready' = \A c \in Mandatory : Satisfied(coverage[c])
    /\ UNCHANGED <<answers, claims, coverage, rows, saved, status>>

CoverageRows ==
    [c \in Classes |-> IF c \in Mandatory /\ coverage[c] = "absent" THEN "NOT_SEARCHED" ELSE coverage[c]]

\* One transaction.  A link to an artifact that has no row violates the foreign
\* key, and the exception takes the whole result with it.
PersistResult ==
    /\ phase = "graded"
    /\ IF \A p \in claims : p[2].cites \subseteq Artifacts
       THEN /\ phase' = "saved"
            /\ rows' = CoverageRows
            /\ saved' = claims
            /\ status' = IF ready THEN "COMPLETED" ELSE "PARTIAL"
       ELSE phase' = "failed" /\ UNCHANGED <<rows, saved, status>>
    /\ UNCHANGED <<answers, claims, coverage, ready>>

Next == AskNode \/ NodeRaises \/ ComputeReadiness \/ PersistResult

Spec == Init /\ [][Next]_vars

-----------------------------------------------------------------------------
(* Properties.                                                             *)

Accepted == {n \in DOMAIN answers : Acceptable(answers[n])}

\* The accepted answers that say something about class c, and those that say
\* one of S about it.
Speakers(c) == {n \in Accepted : answers[n].coverage[c] # "absent"}
Saying(c, S) == {n \in Accepted : answers[n].coverage[c] \in S}

\* What the coverage of a class should be: the last finding or blockage that an
\* accepted answer reported, or else the strongest of the weaker reports.
Decisive(c) == Saying(c, {"SEARCHED_FOUND", "BLOCKED"})

LastWord(c, s) ==
    \/ \E n \in Decisive(c) : s = answers[n].coverage[c] /\ \A m \in Decisive(c) : m <= n
    \/ /\ Decisive(c) = {}
       /\ s = IF Saying(c, {"SEARCHED_NONE_FOUND"}) # {} THEN "SEARCHED_NONE_FOUND"
              ELSE IF Speakers(c) # {} THEN "NOT_SEARCHED" ELSE "absent"

\* Node by node merging computes that reference: no order of answers loses a
\* finding to a "not searched", and no rejected answer counts.
CoverageIsLastWord == \A c \in Classes : LastWord(c, coverage[c])

\* ORACLE-010: a claim that was kept, in memory or in the database, is one of an
\* accepted answer; when it is consequential it cites evidence of this run.
ClaimsAreSupported ==
    \A p \in claims \cup saved :
        /\ p[1] \in Accepted /\ p[2] \in answers[p[1]].claims
        /\ Consequential(p[2]) => p[2].cites # {} /\ p[2].cites \subseteq Bound

\* ORACLE-008: a COMPLETED run has, for every mandatory class, an accepted answer
\* that found something, or nothing where the protocol allows it, and no later
\* one that was blocked.
CompletedIsCovered ==
    status = "COMPLETED" =>
        \A c \in Mandatory :
            \E n \in Saying(c, {"SEARCHED_FOUND"} \cup (IF AllowZero THEN {"SEARCHED_NONE_FOUND"} ELSE {})) :
                \A m \in Saying(c, {"BLOCKED"}) : m < n

\* ORACLE-009: every mandatory class of a saved run has a row, so that "searched
\* and found nothing" is told from "not searched".
MandatoryHasRow == phase = "saved" => \A c \in Mandatory : rows[c] # "absent"

\* Once a class was searched no later answer makes it unsearched, and once it
\* was found or blocked none makes it "nothing found".
SearchedStaysSearched ==
    [][\A c \in Classes :
          /\ coverage[c] = "SEARCHED_NONE_FOUND" => coverage'[c] \notin {"absent", "NOT_SEARCHED"}
          /\ coverage[c] \in {"SEARCHED_FOUND", "BLOCKED"} => coverage'[c] \in {"SEARCHED_FOUND", "BLOCKED"}]_coverage
=============================================================================
