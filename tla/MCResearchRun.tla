--------------------------- MODULE MCResearchRun ---------------------------
(* ResearchRun with two runs, so that a run key can be raced and a ready   *)
(* case researched again, and one retry, so that an attempt can follow     *)
(* another.                                                                *)
EXTENDS ResearchRun, TLC

Symmetry == Permutations(Runs) \cup Permutations(Clients) \cup Permutations(Workers)
=============================================================================
