--------------------------- MODULE MCResearchGraph ---------------------------
(* ResearchGraph with a mandatory and an optional class, evidence of this  *)
(* run, of another one and of none, and answers that are malformed,        *)
(* supported, unsupported or mixed.                                        *)
EXTENDS ResearchGraph

CONSTANTS needed, extra, own, other, ghost

MCClasses == {needed, extra}

About(type, cited) == [type |-> type, cites |-> cited, class |-> needed]

ClaimSets ==
    {{}, {About("INFERENCE", {own})}, {About("EXTERNAL_FACT", {})},
     {About("INFERENCE", {own}), About("OBSERVED_RELATION", {own, other})},
     {About("USER_DECISION", {other})}, {About("USER_DECISION", {ghost})}}

Reports(c1, c2) == [c \in Classes |-> IF c = needed THEN c1 ELSE c2]

MCAnswers ==
    LET statuses == CoverageStatus \cup {"absent"}
        mostly   == {Reports(s, "absent") : s \in statuses}
        few      == {Reports(s, t) : s \in {"absent", "SEARCHED_FOUND"}, t \in statuses}
    IN  {[wellFormed |-> TRUE, claims |-> cs, coverage |-> cov] : cs \in ClaimSets, cov \in mostly}
        \cup {[wellFormed |-> TRUE, claims |-> {}, coverage |-> cov] : cov \in few}
        \cup {[wellFormed |-> FALSE, claims |-> {}, coverage |-> Nothing]}
=============================================================================
