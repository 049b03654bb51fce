-------------------------------- MODULE Stores --------------------------------
(* What the API finds and leaves in its database, beside the parts of module  *)
(* Api: the research workflow, the schema with its migrations, the owner's    *)
(* profile and routes.  They share no state: a behaviour is one of a single   *)
(* part, the others stay as they start.                                       *)
EXTENDS Api, ResearchGraph

CONSTANTS
    MaxMoves,                                                                        \* Schema
    Sections, RouteNames, RouteStates, SeedFiles, MaxDrafts, MaxRoutes               \* Workspace

VARIABLES
    transactional, tables, columns, version, userRows, todo, starting, started, mixed, moves,
    drafts, routes, editing, last, formRaced

M == INSTANCE Schema WITH rows <- userRows, ready <- started
W == INSTANCE Workspace WITH Names <- RouteNames, States <- RouteStates, Seeds <- SeedFiles, Requests <- Clients, Nothing <- Nobody,
        MaxProfiles <- MaxDrafts, profiles <- drafts, doing <- editing, raced <- formRaced

\* A seed file has a candidate, whose facts are whose word they are, and routes by their
\* names; what is not there is no number and no file.
ASSUME StoresAssumption ==
    /\ Nobody \notin Nat \union SeedFiles /\ MaxRoutes \in Nat
    /\ SeedFiles \subseteq [candidate : [given : BOOLEAN, state : STRING, whole : BOOLEAN, facts : [Sections -> {"none", "seed", "self"}]],
                          routes : Seq([key : RouteNames, state : STRING])]

\* The migrations are no parameter: this says of those in Schema that they fit together.
ASSUME MigrationsAssumption == M!MigrationsFit

workflow == <<phase, answers, claims, coverage, ready, rows, saved, status>>
schema == <<transactional, tables, columns, version, userRows, todo, starting, started, mixed, moves>>
workspace == <<drafts, routes, editing, last, formRaced>>
stores == <<api, workflow, schema, workspace>>

\* What the variables of each part are when another one runs: one of its initial states.
StoresAtStart ==
    /\ AtStart /\ Init /\ M!Init /\ W!Init
    /\ part # "schema" => ~mixed /\ ~transactional

StoresInit == part \in {"workflow", "schema", "workspace"} /\ StoresAtStart

StoresNext ==
    \/ part = "workflow" /\ Next /\ UNCHANGED <<api, schema, workspace>>
    \/ part = "schema" /\ M!Next /\ UNCHANGED <<api, workflow, workspace>>
    \/ part = "workspace" /\ W!Next /\ UNCHANGED <<api, workflow, schema>>

StoresSpec == StoresInit /\ [][StoresNext]_stores

-----------------------------------------------------------------------------
(* Their properties, stated in the parts' modules.                         *)

\* Schema: what init_db promises, and what the migrations lead to.
SchemaHolds == part = "schema" => M!StartCompletes /\ M!MigrationsInvert

\* Workspace: an import that is repeated adds nothing.
ImportTwiceIsOnce == W!ImportTwiceIsOnce
=============================================================================
