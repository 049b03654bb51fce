-------------------------------- MODULE MCApi --------------------------------
(* The parts of Api and those of Stores: a behaviour is one of a single part, *)
(* the others stay as they start.                                             *)
EXTENDS Stores, MCResearchGraph, TLC

\* A seed file whole, with a candidate that is not ACTIVE, with an incomplete one, and
\* with none; a route retires.
Whole == [given |-> TRUE, state |-> "ACTIVE", whole |-> TRUE, facts |-> [s \in {"facts"} |-> "seed"]]
Retired == <<[key |-> "n", state |-> "RETIRED"]>>
MCSeeds == {[candidate |-> Whole, routes |-> Retired],
            [candidate |-> [Whole EXCEPT !.state = "SUPERSEDED"], routes |-> Retired],
            [candidate |-> [Whole EXCEPT !.whole = FALSE], routes |-> <<>>],
            [candidate |-> [Whole EXCEPT !.given = FALSE], routes |-> Retired \o <<[key |-> "o", state |-> "ACTIVE"]>>]}

\* Two lanes, the first named again, or one.
MCChains == {<<"a", "", "b", "a">>, <<"a">>}

\* Clients are alike.
Symmetry == Permutations(Clients)

MCInit ==
    /\ part \in {"case", "meter", "accounts", "desk", "watching", "verdicts", "drafting", "workflow", "schema", "workspace"}
    /\ StoresAtStart

\* The profile and its routes: not beyond a commit that was not alone, and with two
\* transactions open over a row of each at most.  Twelve moves of a schema that is not
\* of the migrations alone.
Explored ==
    /\ part = "workspace" => ~formRaced
    /\ part = "workspace" /\ (\A c \in Clients : editing[c] # Nobody) => Len(routes) <= 1 /\ Len(drafts) <= 1
    /\ part = "schema" => ~mixed \/ moves <= 12

MCNext ==
    \/ ApiNext /\ UNCHANGED <<workflow, schema, workspace>>
    \/ StoresNext

MCSpec == MCInit /\ [][MCNext]_stores
=============================================================================
