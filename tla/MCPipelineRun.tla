---------------------------- MODULE MCPipelineRun ----------------------------
(* Two sources.  Board "a" lists a posting without date or institution, the *)
(* same that "b" lists under another title, and one of a country nobody     *)
(* asked for; "b" also lists the posting of "a" without its address.        *)
EXTENDS PipelineRun

Plain == [url |-> "u", title |-> "t", inst |-> NoInst, type |-> "unknown", anchored |-> TRUE,
          seed |-> FALSE, broken |-> FALSE, country |-> "in", deadline |-> 0, posted |-> 0, page |-> 0]
Abroad == [Plain EXCEPT !.url = "v", !.country = "out"]
Renamed == [Plain EXCEPT !.title = "s", !.inst = "i", !.type = "phd", !.page = 1]
NoAddress == [Plain EXCEPT !.url = NoUrl, !.inst = "i", !.type = "phd", !.deadline = 3]
OffField == [Plain EXCEPT !.url = "w", !.anchored = FALSE]
Seed == [OffField EXCEPT !.url = "x", !.seed = TRUE, !.posted = 1]
Broken == [Plain EXCEPT !.url = "y", !.broken = TRUE]

MCSources == <<"a", "b", "c">>
MCPages == [a |-> {<<Plain, Abroad>>, <<OffField, Seed>>}, b |-> {<<Renamed, NoAddress>>, <<Broken>>},
            c |-> {<<Plain>>}]
General == [fields |-> {"*"}, slow |-> FALSE, on |-> TRUE, claimed |-> FALSE]
MCInfo == [a |-> General, b |-> [General EXCEPT !.fields = {"astronomy"}],
           c |-> [General EXCEPT !.slow = TRUE]]
MCRequest == [only |-> {}, field |-> "astronomy", includeSlow |-> FALSE]
MCConfig == [wanted |-> {"phd"}, keepAmbiguous |-> TRUE, strict |-> FALSE, bypass |-> TRUE,
             exclude |-> TRUE, geo |-> TRUE, window |-> 1, keepUndated |-> TRUE, probes |-> 1]
Symmetry == Permutations(Runs)
=============================================================================
