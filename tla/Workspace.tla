------------------------------- MODULE Workspace -------------------------------
(***************************************************************************)
(* The owner's profile and research routes: the forms (api/routes/         *)
(* radar_misc.py) and the import of a seed file (profile/mozare_import.py, *)
(* api/routes/radar_dev.py).  Each looks for the rows it is to write and   *)
(* commits in a later step; no constraint of the schema keeps two of them  *)
(* from adding the same row.  An import looks for one row after the other  *)
(* and sees what others have committed and what it wrote itself.           *)
(***************************************************************************)
EXTENDS Integers, Sequences, FiniteSets

CONSTANTS Sections,   \* of a profile: education, languages, works, ...
          Names,      \* of routes; seed keys are names
          States,     \* of routes
          Seeds,      \* files: candidate (given, state, whole, facts), routes
          Requests, Nothing,
          MaxProfiles, MaxRoutes

VARIABLES profiles,   \* state, and by section "none", "seed" or "self"
          routes,     \* name, state, and whether the text is of a seed or the owner's
          doing,      \* by request: its transaction
          last,       \* history: the file imported last, by an import alone, unless anything was committed since
          raced       \* history: a save or an import has committed that was not alone

vars == <<profiles, routes, doing, last, raced>>

Init ==
    /\ profiles = <<>> /\ routes = <<>>
    /\ doing = [r \in Requests |-> Nothing]
    /\ last = Nothing /\ raced = FALSE

Active(ps) == {i \in DOMAIN ps : ps[i].state = "ACTIVE"}

\* A transaction: of the form, or of the import of a file; the profile it found (0 for
\* none), how many routes of the file it has stored so far, which of them wrote over each
\* row (0 for none) and the rows they added; and whether nothing was committed since it began (history).
Transaction(f, found) == [file |-> f, profile |-> found, upTo |-> 0, wrote |-> [i \in 1 .. MaxRoutes |-> 0],
                          added |-> <<>>, alone |-> TRUE]
Found == IF Active(profiles) = {} THEN {0} ELSE Active(profiles)

\* What r commits, others have not seen.
Commits(r) == doing' = [q \in Requests |->
    IF q = r \/ doing[q] = Nothing THEN Nothing ELSE [doing[q] EXCEPT !.alone = FALSE]]
Overtakes == doing' = [q \in Requests |-> IF doing[q] = Nothing THEN Nothing ELSE [doing[q] EXCEPT !.alone = FALSE]]

-----------------------------------------------------------------------------
(* The forms.                                                              *)

\* upsert_profile.  A section that is sent is the owner's word, whatever
\* provenance came with it; an empty one is cleared, one left out stays.
ProfileRead(r) ==
    /\ doing[r] = Nothing
    /\ \E found \in Found : doing' = [doing EXCEPT ![r] = Transaction(Nothing, found)]
    /\ UNCHANGED <<profiles, routes, last, raced>>

Fill(facts, sent, cleared) ==
    [s \in Sections |-> IF s \in cleared THEN "none" ELSE IF s \in sent THEN "self" ELSE facts[s]]

ProfileCommit(r, sent, cleared) ==
    /\ doing[r] # Nothing /\ doing[r].file = Nothing
    /\ IF doing[r].profile = 0
       THEN /\ Len(profiles) < MaxProfiles
            /\ profiles' = Append(profiles, [state |-> "ACTIVE", facts |-> Fill([s \in Sections |-> "none"], sent, cleared)])
       ELSE profiles' = [profiles EXCEPT ![doing[r].profile].facts = Fill(@, sent, cleared)]
    /\ raced' = (raced \/ ~doing[r].alone)
    /\ Commits(r)
    /\ last' = Nothing
    /\ UNCHANGED routes

CreateRoute(n, s) ==
    /\ Len(routes) < MaxRoutes
    /\ routes' = Append(routes, [name |-> n, state |-> s, text |-> "self"])
    /\ Overtakes /\ last' = Nothing
    /\ UNCHANGED <<profiles, raced>>

\* update_route, and update_route_state: the fields that were sent.
UpdateRoute(i, n, s, t) ==
    /\ routes' = [routes EXCEPT ![i] = [name |-> n, state |-> s, text |-> t]]
    /\ Overtakes /\ last' = Nothing
    /\ UNCHANGED <<profiles, raced>>

UpdateRouteState(i, s) ==
    /\ routes' = [routes EXCEPT ![i].state = s]
    /\ Overtakes /\ last' = Nothing
    /\ UNCHANGED <<profiles, raced>>

-----------------------------------------------------------------------------
(* import_seed.                                                            *)

\* _import_candidate_profile, first: a candidate without fixed_constraints, which both
\* statements bind, raises and is no step.
ImportBegin(r, f) ==
    /\ doing[r] = Nothing
    /\ f.candidate.given => f.candidate.whole
    /\ \E found \in (IF f.candidate.given THEN Found ELSE {0}) : doing' = [doing EXCEPT ![r] = Transaction(f, found)]
    /\ UNCHANGED <<profiles, routes, last, raced>>

\* Mutant: a route that is retired is not found.
InUse(rs, key) == {i \in DOMAIN rs : rs[i].name = key /\ rs[i].state # "RETIRED"}

Called(rs, key) == {i \in DOMAIN rs : rs[i].name = key}

\* _import_route: the key is stored as the name, and looked up as one, among the rows
\* that are committed and those it has added.
ImportRoute(r) ==
    /\ doing[r] # Nothing /\ doing[r].file # Nothing
    /\ LET t == doing[r]
           n == t.upTo + 1
           seed == t.file.routes[n]
           row == [name |-> seed.key, state |-> seed.state, text |-> "seed"]
           there == Called(routes, seed.key)
           mine == Called(t.added, seed.key)
       IN  /\ t.upTo < Len(t.file.routes) /\ seed.state \in States
           /\ \/ there = {} /\ mine = {} /\ doing' = [doing EXCEPT ![r].upTo = n, ![r].added = Append(@, row)]
              \/ \E i \in there : doing' = [doing EXCEPT ![r].upTo = n, ![r].wrote = [@ EXCEPT ![i] = n]]
              \/ \E i \in mine : doing' = [doing EXCEPT ![r].upTo = n, ![r].added = [@ EXCEPT ![i] = row]]
    /\ UNCHANGED <<profiles, routes, last, raced>>

\* A fact without provenance, a route without a key, a state there is none of, an error of
\* the database: nothing of the file is stored.
ImportFails(r) ==
    /\ doing[r] # Nothing /\ doing[r].file # Nothing
    /\ doing' = [doing EXCEPT ![r] = Nothing]
    /\ UNCHANGED <<profiles, routes, last, raced>>

\* Of the profile that was active every section is replaced, the owner's own words too;
\* of a route all but its name.
WithProfile(t) ==
    LET row == [state |-> t.file.candidate.state, facts |-> t.file.candidate.facts]
    IN  IF ~t.file.candidate.given THEN profiles
        ELSE IF t.profile = 0 THEN Append(profiles, row) ELSE [profiles EXCEPT ![t.profile] = row]
WithRoutes(t) ==
    [i \in DOMAIN routes |-> IF t.wrote[i] = 0 THEN routes[i]
                             ELSE [routes[i] EXCEPT !.state = t.file.routes[t.wrote[i]].state, !.text = "seed"]] \o t.added

\* A file without a candidate is stored, although the answer is an error.
ImportCommit(r) ==
    /\ doing[r] # Nothing /\ doing[r].file # Nothing
    /\ LET t == doing[r] IN
         /\ t.upTo = Len(t.file.routes)
         /\ profiles' = WithProfile(t) /\ routes' = WithRoutes(t)
         /\ Len(profiles') <= MaxProfiles /\ Len(routes') <= MaxRoutes
         /\ last' = IF t.alone THEN t.file ELSE Nothing
         /\ raced' = (raced \/ ~t.alone)
    /\ Commits(r)

Next ==
    \/ \E r \in Requests : ProfileRead(r) \/ ImportRoute(r) \/ ImportFails(r) \/ ImportCommit(r)
    \/ \E r \in Requests, f \in Seeds : ImportBegin(r, f)
    \/ \E r \in Requests, sent, cleared \in SUBSET Sections :
          sent \intersect cleared = {} /\ ProfileCommit(r, sent, cleared)
    \/ \E n \in Names, s \in States : CreateRoute(n, s)
    \/ \E i \in DOMAIN routes, n \in Names, s \in States :
          \E t \in {routes[i].text, "self"} : UpdateRoute(i, n, s, t)
    \/ \E i \in DOMAIN routes, s \in States : UpdateRouteState(i, s)

Spec == Init /\ [][Next]_vars

-----------------------------------------------------------------------------

Unambiguous == Cardinality(Active(profiles)) <= 1
                  /\ \A i, j \in DOMAIN routes : routes[i].name = routes[j].name => i = j

\* Importing a file whose candidate is ACTIVE a second time, while nothing else is committed,
\* adds nothing, and changes nothing unless several rows answer to one key; and only saves
\* and imports that overlapped another commit leave two active profiles behind.
ImportTwiceIsOnce ==
    [][/\ last = last' /\ last # Nothing /\ last.candidate.state = "ACTIVE" =>
             /\ Len(profiles') = Len(profiles) /\ Len(routes') = Len(routes)
             /\ Unambiguous => profiles' = profiles /\ routes' = routes
       /\ ~raced' => Cardinality(Active(profiles')) <= 1]_vars
=============================================================================
