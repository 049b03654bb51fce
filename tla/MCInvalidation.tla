--------------------------- MODULE MCInvalidation ---------------------------
(* Invalidation on the subgraphs of a graph with a diamond, a cycle and an *)
(* artifact, whose kind the walk does not know.                            *)
EXTENDS Invalidation

MCObjects == {"snap", "c1", "c2", "gate", "art", "case"}

MCKind ==
    [o \in MCObjects |->
        CASE o = "snap" -> "SourceSnapshot"
          [] o \in {"c1", "c2"} -> "Claim"
          [] o = "gate" -> "GateAssessment"
          [] o = "art" -> "EvidenceArtifact"
          [] o = "case" -> "EvaluationCase"]

MCPossible ==
    {<<"snap", "c1">>, <<"snap", "c2">>, <<"c1", "case">>, <<"c2", "case">>,
     <<"c1", "gate">>, <<"gate", "c1">>, <<"c1", "art">>}
=============================================================================
