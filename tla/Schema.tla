-------------------------------- MODULE Schema --------------------------------
(***************************************************************************)
(* The database's schema: the migrations of alembic/versions, the models   *)
(* of db/, and init_db (db/init.py), by which every process creates what a *)
(* database lacks.  Tables with what they refer to, and the columns that   *)
(* came after their table.  radar_ is left off, but for r_opportunities.   *)
(***************************************************************************)
EXTENDS Integers, Sequences, SequencesExt, Loops

CONSTANT MaxMoves

VARIABLES
    transactional, \* PostgreSQL runs a migration in a transaction, SQLite does not
    tables, columns, version,
    rows,      \* users has rows
    todo,      \* a migration: its statements to go, its direction, the version it leads to
    starting,  \* init_db, by process: how far it is and the columns it will add
    ready,     \* the API's init_db has returned, and no migration has started since
    mixed,     \* history: more than complete migrations has made the schema
    moves

vars == <<transactional, tables, columns, version, rows, todo, starting, ready, mixed, moves>>

-----------------------------------------------------------------------------
(* The models.                                                             *)

People == [users |-> {}, user_profiles |-> {"users"}, opportunities |-> {}, supervisors |-> {}]

Links == [
    matches |-> {"user_profiles", "opportunities", "supervisors"},
    applications |-> {"user_profiles", "opportunities"}, bookmarks |-> {"user_profiles", "opportunities"},
    saved_items |-> {"users"}, digest_preferences |-> {"user_profiles"}, match_feedback |-> {"users"}]

Accounts == [
    invites |-> {"users"}, email_events |-> {}, password_resets |-> {"users"}, email_verifications |-> {"users"},
    audit_events |-> {"users"}, api_keys |-> {"users"}, api_key_usage |-> {"api_keys"}, llm_usage |-> {"users"}]

Targets == [
    candidate_profiles |-> {}, candidate_evidence |-> {"candidate_profiles"}, mozare_routes |-> {},
    target_entities |-> {}, person_identities |-> {"target_entities"}, programmes |-> {"target_entities"},
    r_opportunities |-> {"target_entities"}, funding_routes |-> {"target_entities"},
    entity_relations |-> {"target_entities"}]

Cases == [
    evaluation_cases |-> {"mozare_routes", "target_entities"}, case_disposition_history |-> {"evaluation_cases"},
    application_stage_history |-> {"evaluation_cases"}, user_notes |-> {"evaluation_cases"}]

Evidence == [
    research_protocols |-> {}, research_runs |-> {"evaluation_cases"}, research_coverage |-> {"research_runs"},
    evidence_artifacts |-> {"source_snapshots"}, source_snapshots |-> {}, source_authorities |-> {},
    discovery_traces |-> {"target_entities", "research_runs"}, evidence_dependencies |-> {}]

Claims == [
    claims |-> {"evaluation_cases", "research_runs"}, claim_evidence |-> {"claims", "evidence_artifacts"},
    gate_assessments |-> {"evaluation_cases"}, dimension_assessments |-> {"evaluation_cases"},
    funding_assessments |-> {"evaluation_cases", "target_entities"},
    supervision_precedents |-> {"evaluation_cases", "target_entities"}]

Watch == [
    watch_targets |-> {"target_entities"}, watch_checks |-> {"watch_targets", "source_snapshots"},
    change_events |-> {"watch_checks"}, application_briefs |-> {"evaluation_cases", "application_briefs"},
    brief_dependencies |-> {"application_briefs"}]

Radar == Targets @@ Cases @@ Evidence @@ Claims @@ Watch

\* A process creates the models it has imported: the command line and the digest know
\* nothing of the radar.
Models(p) == People @@ Links @@ Accounts @@ IF p = "api" THEN Radar ELSE <<>>
Refs == Models("api")

\* Columns younger than their table, by whether one can be added to existing rows:
\* nullable, or with a default.
Later == [role |-> "users", email_verified |-> "users", email_verified_at |-> "users",
          marketing_consent |-> "users", consent_updated_at |-> "users",
          fit_explanation |-> "supervisors", field |-> "opportunities", subfield |-> "opportunities"]

-----------------------------------------------------------------------------
(* The migrations: a table with what it refers to, or a column.            *)

Table(t, refs) == [kind |-> "table", name |-> t, refs |-> refs]
Column(c) == [kind |-> "column", name |-> c, refs |-> {}]

Initial == <<
    Table("opportunities", {}), Table("supervisors", {}), Table("users", {}),
    Table("match_feedback", {"users"}), Table("user_profiles", {"users"}),
    Table("applications", {"opportunities", "user_profiles"}),
    Table("bookmarks", {"opportunities", "user_profiles"}), Table("digest_preferences", {"user_profiles"}),
    Table("matches", {"opportunities", "user_profiles", "supervisors"})>>
Role == <<Column("role")>>
Invites == <<Table("invites", {"users"})>>
Hardening == <<
    Column("email_verified"), Column("email_verified_at"), Table("email_events", {}),
    Table("password_resets", {"users"}), Table("email_verifications", {"users"}), Table("audit_events", {"users"})>>
ApiKeys == <<Table("api_keys", {"users"}), Table("api_key_usage", {"api_keys"})>>
LlmUsage == <<Table("llm_usage", {"users"})>>
Consent == <<Column("marketing_consent"), Column("consent_updated_at")>>
FitExplanation == <<Column("fit_explanation"), Column("field"), Column("subfield")>>
R001 == <<
    Table("candidate_profiles", {}), Table("candidate_evidence", {"candidate_profiles"}), Table("mozare_routes", {}),
    Table("target_entities", {}), Table("person_identities", {"target_entities"}),
    Table("programmes", {"target_entities"}), Table("r_opportunities", {"target_entities"}),
    Table("funding_routes", {"target_entities"}), Table("entity_relations", {"target_entities"})>>
R002 == <<
    Table("evaluation_cases", {"mozare_routes", "target_entities"}),
    Table("case_disposition_history", {"evaluation_cases"}),
    Table("application_stage_history", {"evaluation_cases"}), Table("user_notes", {"evaluation_cases"})>>
R003 == <<
    Table("research_protocols", {}), Table("source_snapshots", {}), Table("research_runs", {"evaluation_cases"}),
    Table("evidence_artifacts", {"source_snapshots"}), Table("research_coverage", {"research_runs"}),
    Table("source_authorities", {}), Table("discovery_traces", {"target_entities", "research_runs"}),
    Table("evidence_dependencies", {})>>
R004 == <<
    Table("claims", {"evaluation_cases", "research_runs"}), Table("claim_evidence", {"claims", "evidence_artifacts"}),
    Table("gate_assessments", {"evaluation_cases"}), Table("dimension_assessments", {"evaluation_cases"}),
    Table("funding_assessments", {"evaluation_cases", "target_entities"}),
    Table("supervision_precedents", {"evaluation_cases", "target_entities"})>>
R005 == <<
    Table("watch_targets", {"target_entities"}), Table("watch_checks", {"watch_targets", "source_snapshots"}),
    Table("change_events", {"watch_checks"}),
    Table("application_briefs", {"evaluation_cases", "application_briefs"}),
    Table("brief_dependencies", {"application_briefs"})>>

Ups == <<Initial, Role, Invites, Hardening, ApiKeys, LlmUsage, Consent, FitExplanation, R001, R002, R003, R004, R005>>
Latest == Len(Ups)
Guarded(v) == Ups[v] = FitExplanation

\* Every downgrade undoes its upgrade backwards; that of fit_explanation leaves the
\* columns of opportunities, which the first migration has too.
Downs(v) == IF Guarded(v) THEN <<Column("fit_explanation")>> ELSE Reverse(Ups[v])

-----------------------------------------------------------------------------

Idle == [steps |-> <<>>, up |-> TRUE, to |-> 0]
Off == [at |-> "off", columns |-> {}]
Of(S, kind) == {s.name : s \in {x \in S : x.kind = kind}}

\* A new database, or one an early release created: with users in it, and no version.
Init ==
    /\ transactional \in BOOLEAN /\ mixed \in BOOLEAN
    /\ tables = (IF mixed THEN Of(Range(Initial), "table") ELSE {})
    /\ columns = {} /\ rows = mixed
    /\ version = 0 /\ todo = Idle /\ ready = FALSE /\ moves = 0
    /\ starting = [p \in {"api", "cli"} |-> Off]

Moving ==
    /\ todo = Idle /\ \A p \in DOMAIN starting : starting[p] = Off
    /\ moves < MaxMoves /\ moves' = moves + 1

\* A statement on a schema fails when it creates what is there, drops what is not or,
\* on PostgreSQL, is referred to, or adds to rows a column that may not be null.
Fails(s, up, db) ==
    IF s.kind = "column"
    THEN IF up THEN s.name \in db.columns \/ Later[s.name] \notin db.tables \/ (s.name = "role" /\ rows)
         ELSE s.name \notin db.columns
    ELSE IF up THEN s.name \in db.tables
         ELSE s.name \notin db.tables \/ (transactional /\ \E t \in db.tables \ {s.name} : s.name \in Refs[t])

\* The first migration creates two of the columns with their table.
Along(t) == IF t = "opportunities" THEN {"field", "subfield"} ELSE {}

\* A column goes with its table.
After(s, up, db) ==
    IF s.kind = "column" THEN [db EXCEPT !.columns = IF up THEN @ \union {s.name} ELSE @ \ {s.name}]
    ELSE IF up THEN [db EXCEPT !.tables = @ \union {s.name}, !.columns = @ \union Along(s.name)]
    ELSE [db EXCEPT !.tables = @ \ {s.name}, !.columns = {c \in @ : Later[c] # s.name}]

\* The statements one after the other, and whether none of them failed.
Run(steps, up, db) ==
    LET upTo[n \in 0 .. Len(steps)] ==
          IF n = 0 THEN db
          ELSE [After(steps[n], up, upTo[n - 1]) EXCEPT !.ok = @ /\ ~Fails(steps[n], up, upTo[n - 1])]
    IN  upTo[Len(steps)]

Becomes(db) ==
    /\ tables' = db.tables /\ columns' = db.columns
    /\ rows' = (rows /\ "users" \in db.tables)

\* alembic upgrade to the next version, or downgrade; the guarded migration skips what
\* it finds done.
Migrate(up) ==
    /\ Moving
    /\ IF up THEN version < Latest ELSE version > 0
    /\ LET v == IF up THEN version + 1 ELSE version
           steps == IF up THEN Ups[v] ELSE Downs(v)
           left == {i \in DOMAIN steps : (steps[i].name \in columns) # up}
       IN todo' = [steps |-> IF Guarded(v) THEN Picked(steps, left) ELSE steps,
                   up |-> up, to |-> IF up THEN v ELSE v - 1]
    /\ ready' = FALSE
    /\ UNCHANGED <<transactional, tables, columns, version, rows, starting, mixed>>

\* PostgreSQL: all of it or nothing.
Transaction ==
    /\ todo # Idle /\ transactional
    /\ LET db == Run(todo.steps, todo.up, [tables |-> tables, columns |-> columns, ok |-> TRUE])
       IN IF db.ok THEN Becomes(db) /\ version' = todo.to ELSE UNCHANGED <<tables, columns, rows, version>>
    /\ todo' = Idle
    /\ UNCHANGED <<transactional, starting, ready, mixed, moves>>

\* SQLite: one statement after the other; what fails, or dies, half-way stays so.
Statement ==
    /\ todo.steps # <<>> /\ ~transactional
    /\ LET s == Head(todo.steps)
           db == [tables |-> tables, columns |-> columns]
       IN \/ /\ ~Fails(s, todo.up, db) /\ Becomes(After(s, todo.up, db))
             /\ todo' = [todo EXCEPT !.steps = Tail(@)]
             /\ UNCHANGED mixed
          \/ /\ todo' = Idle /\ mixed' = TRUE
             /\ UNCHANGED <<tables, columns, rows>>
    /\ UNCHANGED <<transactional, version, starting, ready, moves>>

Stamp ==
    /\ todo # Idle /\ ~transactional /\ todo.steps = <<>>
    /\ version' = todo.to /\ todo' = Idle
    /\ UNCHANGED <<transactional, tables, columns, rows, starting, ready, mixed, moves>>

-----------------------------------------------------------------------------
(* init_db, of two processes.                                              *)

Go(p, state) == starting' = [starting EXCEPT ![p] = state]

\* create_all creates the missing tables, in full.
CreateAll(p) ==
    /\ starting[p] = Off /\ todo = Idle /\ ~(p = "api" /\ ready)
    /\ moves < MaxMoves /\ moves' = moves + 1
    /\ tables' = tables \union DOMAIN Models(p)
    /\ columns' = columns \union {c \in DOMAIN Later : Later[c] \notin tables}
    /\ Go(p, [at |-> "created", columns |-> {}])
    /\ mixed' = TRUE
    /\ UNCHANGED <<transactional, version, rows, todo, ready>>

\* Mutant: only nullable columns can be added.
AddableNullable == DOMAIN Later \ {"role", "email_verified"}

\* The columns of the models that may be null or have a default to fill the rows with.
Addable == DOMAIN Later

\* reconcile_columns looks at the tables ...
Inspect(p) ==
    /\ starting[p].at = "created"
    /\ Go(p, [at |-> "adding", columns |-> Addable \ columns])
    /\ UNCHANGED <<transactional, tables, columns, version, rows, todo, ready, mixed, moves>>

\* ... and adds what is missing, column by column: it raises when another process has
\* added one since, and the next request starts over.
Add(p) ==
    /\ starting[p].columns # {}
    /\ LET c == CHOOSE x \in starting[p].columns : TRUE
       IN IF c \in columns THEN Go(p, Off) /\ UNCHANGED columns
          ELSE Go(p, [starting[p] EXCEPT !.columns = @ \ {c}]) /\ columns' = columns \union {c}
    /\ UNCHANGED <<transactional, tables, version, rows, todo, ready, mixed, moves>>

Started(p) ==
    /\ starting[p] = [at |-> "adding", columns |-> {}]
    /\ Go(p, Off)
    /\ ready' = (ready \/ p = "api")
    /\ UNCHANGED <<transactional, tables, columns, version, rows, todo, mixed, moves>>

Kill(p) ==
    /\ starting[p] # Off
    /\ Go(p, Off)
    /\ UNCHANGED <<transactional, tables, columns, version, rows, todo, ready, mixed, moves>>

Register ==
    /\ ready /\ ~rows /\ rows' = TRUE
    /\ UNCHANGED <<transactional, tables, columns, version, todo, starting, ready, mixed, moves>>

Next ==
    \/ \E up \in BOOLEAN : Migrate(up)
    \/ Transaction \/ Statement \/ Stamp \/ Register
    \/ \E p \in DOMAIN starting : CreateAll(p) \/ Inspect(p) \/ Add(p) \/ Started(p) \/ Kill(p)

-----------------------------------------------------------------------------
(* Properties.                                                             *)

\* The statements of the upgrades to a version, and the schema they make.
Statements(v) == UNION {Range(Ups[w]) : w \in 1 .. v}
Made(S) ==
    [tables |-> Of(S, "table"),
     columns |-> Of(S, "column") \union UNION {Along(t) : t \in Of(S, "table")}]

\* What the statements of an upgrade add to the schema of the version before it, which
\* has two columns of the guarded one; the first k of them, after that version's.
New(v) == IF Guarded(v) THEN Reverse(Downs(v)) ELSE Ups[v]
Upto(v, k) == Statements(v - 1) \union {New(v)[i] : i \in 1 .. k}

\* The migrations as they are written: each statement makes what is not there yet, of
\* what is there, and refers to what the model refers to; the last version has what the
\* models have; no model refers to one a process has not imported.
MigrationsFit ==
    /\ \A v \in 1 .. Latest : \A k \in DOMAIN New(v) :
          LET s == New(v)[k]
              db == Made(Upto(v, k - 1))
          IN  \/ s.kind = "column" /\ s.name \notin db.columns /\ Later[s.name] \in db.tables
              \/ /\ s.kind = "table" /\ s.name \notin db.tables
                 /\ s.refs = Refs[s.name] /\ s.refs \subseteq db.tables \union {s.name}
                 /\ \A c \in db.columns : Later[c] # s.name
                 /\ \A c \in Along(s.name) : Later[c] = s.name
    /\ \A v \in 1 .. Latest : Guarded(v) =>
          \A s \in Range(Ups[v]) \ Range(New(v)) : s.kind = "column" /\ s.name \in Made(Statements(v - 1)).columns
    /\ Made(Statements(Latest)) = [tables |-> DOMAIN Refs \ {"saved_items"}, columns |-> DOMAIN Later]
    /\ \A p \in {"api", "cli"} : \A t \in DOMAIN Models(p) : Refs[t] \subseteq DOMAIN Models(p)

\* When the API's init_db has returned, every table and column of the models is there:
\* from any release, any version up or down, a migration that failed half-way, and with
\* another process that starts at the same time.
StartCompletes == ready => DOMAIN Refs \subseteq tables /\ DOMAIN Later \subseteq columns

\* Migrations alone lead to the schema of their version, up or down, and at the latest
\* to that of the models, but for saved_items; on the way, and on PostgreSQL whatever
\* created the tables, no table refers to one that is not there.
MigrationsInvert ==
    /\ ~mixed /\ todo = Idle =>
            /\ [tables |-> tables, columns |-> columns] = Made(Statements(version))
            /\ version = Latest => tables = DOMAIN Refs \ {"saved_items"} /\ columns = DOMAIN Later
    /\ \A s \in Statements(version) : s.kind = "table" => s.refs = Refs[s.name]
    /\ ~mixed \/ transactional => \A t \in tables : Refs[t] \subseteq tables
=============================================================================
