----------------------------- MODULE Supervisors -----------------------------
(***************************************************************************)
(* The search for supervisors (supervisors/, sync_supervisors): for each   *)
(* pair of field and country the choice of literature sources, paged       *)
(* queries that fail anywhere, the aggregation of papers by author,        *)
(* OpenAlex's pool of authors with its verification, the fit, and saving   *)
(* into one session that commits at the end.  A paper names each author's  *)
(* country codes and the country the text of the affiliation tells.        *)
(***************************************************************************)
EXTENDS Integers, Sequences, FiniteSets, SequencesExt, Loops

CONSTANTS
    Papers,    \* by number, the newest last: authors in order, [who, codes, text]
    Authors,
    HIndex,    \* by author
    Recents,   \* what an author's recent works may be: [n, has, in, enough, anchors, senior]
    PageSize, Pages, PoolPages, Keywords, Batches, MaxPapers, MaxAuthors,
    MinPapers, Enrich, Terms,
    Configs,   \* cli, requested, token, db, explicit, profile, topics, field, known, signal
    Pairs

Places == {"here", "unverified"}

VARIABLES
    cfg, left,   \* pairs to search
    at,          \* pair, choose, ads, openalex, arxiv, pool, records, verify, gate, save, done
    chain, query, page,
    docs, seen,  \* papers in the order of arrival; those that do not count again
    pool, todo, attempted, \* own works in the country by author; who is to be verified
    ranked, used, \* candidates [who, papers, senior, place], and where they are from
    session, stored, \* fit by candidate, 0 for none: pending and committed
    broken, rejected, outcome,
    announced    \* candidates that passed the gate

search == <<chain, query, page, docs, seen, pool, todo, attempted, ranked, used>>
saving == <<session, stored, broken, rejected, outcome, announced>>
vars == <<cfg, left, at, search, saving>>

NoPool == [a \in Authors |-> 0]
NoRows == [p \in Authors \X Places |-> 0]
Max2(x, y) == IF x > y THEN x ELSE y
Half(n) == (n + 1) \div 2

-----------------------------------------------------------------------------
(* Where to search.                                                        *)

AdsIsAppropriate(c) == c.db = "ads" /\ (c.explicit \/ c.profile # "other")

SupervisorChain(c) ==
    CASE c.requested = "arxiv" -> <<"arxiv">>
      [] c.requested = "openalex" -> <<"openalex">>
      [] OTHER -> IF c.token /\ AdsIsAppropriate(c) THEN <<"ads", "openalex">> ELSE <<"openalex", "arxiv">>

AuthorsFirst == cfg.known /\ (cfg.topics \/ (cfg.cli /\ cfg.field))

Clean == /\ query' = 1 /\ page' = 1 /\ docs' = <<>> /\ seen' = {}
         /\ pool' = NoPool /\ todo' = {} /\ attempted' = 0

Init ==
    /\ cfg \in Configs /\ left = IF cfg.cli THEN 1 ELSE Pairs
    /\ at = "pair" /\ chain = <<>> /\ query = 1 /\ page = 1 /\ docs = <<>> /\ seen = {}
    /\ pool = NoPool /\ todo = {} /\ attempted = 0 /\ ranked = {} /\ used = "none"
    /\ session = NoRows /\ stored = NoRows /\ broken = FALSE /\ rejected = FALSE /\ outcome = "none" /\ announced = {}

\* A cancelled search starts no further pair.
NextPair ==
    /\ at = "pair" /\ left > 0
    /\ \/ left' = left - 1 /\ at' = "choose" /\ chain' = SupervisorChain(cfg)
       \/ ~cfg.cli /\ left' = 0 /\ UNCHANGED <<at, chain>>
    /\ ranked' = {} /\ used' = "none" /\ Clean
    /\ UNCHANGED <<cfg, saving>>

\* Nobody anywhere: an error of the command, an empty pair of a synchronisation.
Choose ==
    /\ at = "choose"
    /\ IF chain = <<>>
       THEN at' = "pair" /\ used' = "none" /\ outcome' = (IF cfg.cli THEN "nobody" ELSE outcome) /\ UNCHANGED chain
       ELSE /\ used' = Head(chain) /\ chain' = Tail(chain) /\ UNCHANGED outcome
            /\ at' = IF Head(chain) = "openalex" /\ AuthorsFirst THEN "pool" ELSE Head(chain)
    /\ Clean
    /\ UNCHANGED <<cfg, left, ranked, session, stored, broken, rejected, announced>>

-----------------------------------------------------------------------------
(* Papers by author.                                                       *)

\* Only OpenAlex tells codes; arXiv's affiliations are too sparse to verify.
Counts(p, source) ==
    LET codes == IF source = "openalex" THEN p.codes ELSE "none"
        told == p.text \in {"here", "away"}
        verified == IF codes # "none" THEN codes = "here" ELSE p.text = "here"
    IN source # "arxiv" => (told => verified) /\ (p.text # "none" \/ codes # "none")

\* Where the author's key stands, in papers that are not of a mega-collaboration.
Appearances(ds, a, source) ==
    {x \in (DOMAIN ds) \X (1 .. MaxAuthors) :
        /\ x[2] <= Len(Papers[ds[x[1]]]) /\ Len(Papers[ds[x[1]]]) <= MaxAuthors
        /\ LET p == Papers[ds[x[1]]][x[2]] IN p.who = a /\ Counts(p, source)}

Senior(ds, xs) == Cardinality({x \in xs : x[2] = Len(Papers[ds[x[1]]]) /\ x[2] > 1})
Told(ds, xs, place) == Cardinality({x \in xs : Papers[ds[x[1]]][x[2]].text = place})

\* From arXiv a candidate is where most affiliations are, here or
\* unverified; on a tie the first one met decides.
Aggregate(ds, source, ties) ==
    LET Row(a) == LET xs == Appearances(ds, a, source)
                  IN [who |-> a, papers |-> Cardinality(xs), senior |-> Senior(ds, xs),
                      place |-> IF source # "arxiv" THEN "here"
                                ELSE LET h == Told(ds, xs, "here")
                                         w == Told(ds, xs, "away")
                                     IN IF h + w = 0 THEN "unverified"
                                        ELSE IF h > w \/ (h = w /\ a \in ties) THEN "here" ELSE "away"]
    IN {r \in {Row(a) : a \in Authors} : r.papers >= MinPapers /\ r.place \in Places}

\* Without a candidate the next source is tried.
Found(got, rows) ==
    /\ ranked' = rows /\ docs' = got /\ at' = IF rows = {} THEN "choose" ELSE "gate"
    /\ query' = 1 /\ page' = 1 /\ seen' = {} /\ pool' = NoPool /\ todo' = {} /\ attempted' = 0
    /\ UNCHANGED <<cfg, left, chain, used, saving>>

\* What a page holds, newest first, and whether it is full.
Listed == {S \in SUBSET DOMAIN Papers : Cardinality(S) <= PageSize}
Sorted(S) == Among([i \in DOMAIN Papers |-> (Len(Papers) + 1) - i], S)
Full(S) == Cardinality(S) = PageSize
Keep == UNCHANGED <<cfg, left, chain, ranked, used, pool, todo, attempted, saving>>

\* A page ADS cannot deliver ends the query with what there is.
AdsPage ==
    /\ at = "ads"
    /\ \E S \in Listed, ok, more \in BOOLEAN :
        LET got == IF ok THEN docs \o Sorted(S \ seen) ELSE docs
        IN IF ok /\ more /\ S # {} /\ page < Pages
           THEN /\ docs' = got /\ seen' = seen \union S /\ page' = page + 1 /\ UNCHANGED <<query, at>> /\ Keep
           ELSE Found(got, Aggregate(got, "ads", {}))

\* Mutant: it does.
SeenPapers(S) == Sorted(S)

\* A paper another keyword found does not count again.
NewPapers(S) == Sorted(S \ seen)

Cut(ds) == SubSeq(ds, 1, IF Len(ds) > MaxPapers THEN MaxPapers ELSE Len(ds))

DocsPage ==
    /\ at = "openalex"
    /\ \E S \in Listed, ok \in BOOLEAN :
        LET got == IF ok THEN docs \o NewPapers(S) ELSE docs
            enough == ok /\ Len(got) >= MaxPapers
        IN IF ~enough /\ (query < Keywords \/ (ok /\ Full(S) /\ page < Pages))
           THEN /\ docs' = got /\ seen' = (IF ok THEN seen \union S ELSE seen)
                /\ IF ok /\ Full(S) /\ page < Pages THEN page' = page + 1 /\ UNCHANGED query
                   ELSE page' = 1 /\ query' = query + 1
                /\ UNCHANGED at /\ Keep
           ELSE Found(Cut(got), Aggregate(Cut(got), "openalex", {}))

\* arXiv's answers are taken as they come.
ArxivQuery ==
    /\ at = "arxiv"
    /\ \E S \in Listed, ok \in BOOLEAN :
        LET got == IF ok THEN docs \o Sorted(S) ELSE docs
        IN IF query < Keywords
           THEN docs' = got /\ query' = query + 1 /\ UNCHANGED <<page, seen, at>> /\ Keep
           ELSE \E ties \in {{}, Authors} : Found(got, Aggregate(got, "arxiv", ties))

-----------------------------------------------------------------------------
(* OpenAlex by authors.                                                    *)

OwnWorks(S, a) == Cardinality({x \in S \X (1 .. MaxAuthors) :
    x[2] <= Len(Papers[x[1]]) /\ Papers[x[1]][x[2]].who = a /\ Papers[x[1]][x[2]].codes = "here"})

\* By batch of topics; a work that two batches list counts twice.
PoolPage ==
    /\ at = "pool"
    /\ \E S \in Listed, ok \in BOOLEAN :
        LET stats == IF ok THEN [a \in Authors |-> pool[a] + OwnWorks(S, a)] ELSE pool
            kept == {a \in Authors : stats[a] >= MinPapers}
        IN /\ IF ok /\ Full(S) /\ page < PoolPages
              THEN pool' = stats /\ page' = page + 1 /\ UNCHANGED <<query, at>>
              ELSE IF query < (IF cfg.topics THEN Batches ELSE 1)
              THEN pool' = stats /\ page' = 1 /\ query' = query + 1 /\ UNCHANGED at
              ELSE /\ page' = 1 /\ query' = 1 /\ at' = IF kept = {} THEN "openalex" ELSE "records"
                   /\ pool' = [a \in Authors |-> IF a \in kept THEN stats[a] ELSE 0]
    /\ UNCHANGED <<cfg, left, chain, docs, seen, todo, attempted, ranked, used, saving>>

\* Batches of records, any of which may fail.
Records ==
    /\ at = "records"
    /\ \E got \in SUBSET {a \in Authors : pool[a] > 0} :
        todo' = got /\ at' = IF got = {} THEN "openalex" ELSE "verify"
    /\ UNCHANGED <<cfg, left, chain, query, page, docs, seen, pool, attempted, ranked, used, saving>>

Best == CHOOSE a \in todo : \A b \in todo : HIndex[a] > HIndex[b] \/ (HIndex[a] = HIndex[b] /\ pool[a] >= pool[b])

\* Most of the works that tell a country are from this one, and enough of them.
Need(r) == IF r.has >= 3 THEN Max2(MinPapers, Half(r.has)) ELSE MinPapers + (IF r.has = 0 THEN 1 ELSE 0)
RightField(r) == (cfg.field /\ r.enough) \/ r.anchors

\* The author's own recent works; n is 0 too when they cannot be read.
Verify ==
    /\ at = "verify"
    /\ IF todo = {} \/ Cardinality(ranked) >= Enrich \/ attempted >= 3 * Enrich
       THEN /\ at' = IF ranked = {} THEN "openalex" ELSE "gate"
            /\ Clean /\ UNCHANGED ranked
       ELSE \E r \in Recents :
            /\ attempted' = attempted + 1 /\ todo' = todo \ {Best}
            /\ ranked' = IF r.n > 0 /\ r.in >= Need(r) /\ RightField(r)
                         THEN ranked \union {[who |-> Best, papers |-> r.n, senior |-> r.senior, place |-> "here"]}
                         ELSE ranked
            /\ UNCHANGED <<at, query, page, docs, seen, pool>>
    /\ UNCHANGED <<cfg, left, chain, used, saving>>

-----------------------------------------------------------------------------
(* The fit, in thousandths of a point, and saving.                         *)

Clamp(x) == IF x > 1000 THEN 1000 ELSE x
TopicComponent(matched) == IF Terms = 0 THEN 500 ELSE Clamp((10000 * matched) \div Max2(10, 6 * Terms))
RecencyComponent(n) == Clamp((1000 * n) \div 12)
SeniorityComponent(s, n) == Clamp((2000 * s) \div n)
CountryComponent(place) == IF place = "here" THEN 1000 ELSE 400

ComputeFit(r, matched) ==
    LET common == 40 * TopicComponent(matched) + 25 * RecencyComponent(r.papers) + 15 * CountryComponent(r.place)
    IN IF cfg.signal = "none" THEN (100 * common) \div 80 ELSE common + 20 * SeniorityComponent(r.senior, r.papers)

\* A synchronisation drops whose work matches no term; the command writes a file.
Gate ==
    /\ at = "gate"
    /\ \E kept \in IF cfg.cli \/ Terms = 0 THEN {ranked} ELSE SUBSET ranked :
        /\ ranked' = (IF cfg.cli THEN {} ELSE kept)
        /\ announced' = announced \union {<<r.who, r.place>> : r \in ranked'}
    /\ outcome' = (IF cfg.cli THEN "written" ELSE outcome) /\ at' = "save" /\ Clean
    /\ UNCHANGED <<cfg, left, chain, used, session, stored, broken, rejected>>

\* A statement the database refuses is counted; a flush it refuses also undoes the
\* session, which then takes no more.
Save ==
    /\ at = "save"
    /\ \E r \in ranked, matched \in (IF Terms = 0 THEN {0} ELSE 1 .. Terms), answer \in {"saved", "rejected", "broken"} :
        /\ ranked' = ranked \ {r}
        /\ IF broken \/ answer # "saved"
           THEN /\ rejected' = TRUE /\ broken' = (broken \/ answer = "broken")
                /\ session' = IF broken' THEN stored ELSE session
           ELSE /\ session' = [session EXCEPT ![<<r.who, r.place>>] = Max2(@, ComputeFit(r, matched))]
                /\ UNCHANGED <<broken, rejected>>
    /\ UNCHANGED <<cfg, left, at, chain, query, page, docs, seen, pool, todo, attempted, used, stored, outcome, announced>>

Saved ==
    /\ at = "save" /\ ranked = {} /\ at' = "pair"
    /\ UNCHANGED <<cfg, left, search, saving>>

\* An error of one row is an error of all, though the others may be committed.
Finished == IF broken \/ rejected THEN "raised" ELSE "completed"

Commit ==
    /\ at = "pair" /\ left = 0 /\ ~cfg.cli /\ at' = "done"
    /\ stored' = IF broken THEN stored ELSE session
    /\ outcome' = Finished
    /\ UNCHANGED <<cfg, left, search, session, broken, rejected, announced>>

Next == NextPair \/ Choose \/ AdsPage \/ DocsPage \/ ArxivQuery \/ PoolPage \/ Records \/ Verify \/ Gate \/ Save \/ Saved \/ Commit
Spec == Init /\ [][Next]_vars

-----------------------------------------------------------------------------
(* Properties.                                                             *)

AuthorsOwn(a) == {<<docs[i], j>> : i \in DOMAIN docs, j \in 1 .. MaxAuthors} \cap
    {x \in (DOMAIN Papers) \X (1 .. MaxAuthors) : x[2] <= Len(Papers[x[1]]) /\ Papers[x[1]][x[2]].who = a}

\* Whom OpenAlex's papers make a candidate stands MinPapers times in different
\* places of them, however often queries and pages delivered the same paper.
RankedHaveWorks ==
    at = "gate" /\ used = "openalex" /\ docs # <<>> => \A r \in ranked : Cardinality(AuthorsOwn(r.who)) >= MinPapers

\* A completed synchronisation stored every candidate it announced.
CompletedIsStored == outcome = "completed" => \A p \in announced : stored[p] > 0
=============================================================================
