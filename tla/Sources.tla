------------------------------- MODULE Sources -------------------------------
(***************************************************************************)
(* src/astra/sources: one call of one source of a crawl.  A source turns   *)
(* the profile and the registry's vocabulary of its board into queries and *)
(* reads a bounded number of pages of each; any page may fail to answer.   *)
(* A board is a sequence of postings; which markup says what of a posting  *)
(* is left out.  A query is the set of postings it matches, with the pages *)
(* it is read for, their size, and the most records it may add.            *)
(***************************************************************************)
EXTENDS Integers, Sequences, FiniteSets, SequencesExt, Loops

CONSTANTS Board,        \* postings [on, phd, country, ad]: subjects, whether doctoral, the portal's tag, whether a card is one
          Registry,     \* of each source, the values and adjacent values of each field it knows
          Vocabulary,   \* the countries the EURAXESS portal has a facet for
          Locations,    \* LINKEDIN_LOCATIONS
          Asks,         \* the sources and the profiles they are asked for
          PageSize, FieldPages, PhdPages, UNSCOPED_PAGES, LINKEDIN_MAX_KEYWORDS, LINKEDIN_KEYWORDS, MaxLinks, MaxSiblings

VARIABLES ask,          \* the source and profile of this call
          plan, at,     \* queries left, and the page of the first one
          due, failed,  \* queries this call is to answer, and those that did not to their end
          known,        \* seen, known: what is not taken again
          out           \* records, and whether each bypasses the gates

sources == <<ask, plan, at, due, failed, known, out>>

Posts == DOMAIN Board
On(subjects) == {i \in Posts : Board[i].on \cap subjects # {}}
Doctoral == {i \in Posts : Board[i].phd}
Tagged(countries) == {i \in Posts : Board[i].country \in countries}
Ads == {i \in Posts : Board[i].ad}

Least(a, b) == IF a < b THEN a ELSE b
Ordered(S) == Picked([i \in Posts |-> i], S)
Query(of, pages, size) == [of |-> of, pages |-> pages, size |-> size, most |-> Len(Board)]
WholePage(of) == Query(of, 1, Len(Board) + 1)
QueryEach(seq) == [k \in DOMAIN seq |-> WholePage(On({seq[k]}))]
FirstFew(seq, n) == SubSeq(seq, 1, Least(n, Len(seq)))

-----------------------------------------------------------------------------
(* The registry: the profile's own values, the field's, those of "*", none. *)
Target(source, field) ==
    LET fields == Registry[source] IN
      CASE field \in DOMAIN fields -> fields[field]
        [] field \notin DOMAIN fields /\ "*" \in DOMAIN fields -> fields["*"]
        [] OTHER -> [values |-> <<>>, adjacent |-> <<>>]
ValuesFor(a) == IF a.option # <<>> THEN a.option ELSE Target(a.source, a.field).values
UrlsFor(a) == LET target == Target(a.source, a.field) IN
    IF target.values = <<>> THEN <<>>
    ELSE <<WholePage(On(Range(target.values)))>> \o QueryEach(target.adjacent)

\* The portal's facets of some countries: none when it lacks one of them.
Facets(countries) == IF countries \subseteq Vocabulary THEN countries ELSE {}

\* Mutant: the facets of those countries the portal knows.
KnownCountries(a) == a.wanted \cap Vocabulary

\* The countries to scope by, where any are wanted: what the profile's options name
\* instead, or the wanted ones; nothing is scoped by none.
CountryFacets(a) ==
    IF a.wanted = {} THEN {} ELSE IF a.override # {} THEN a.override ELSE Facets(a.wanted)

-----------------------------------------------------------------------------
(* What each source asks for.                                              *)
Sweeps(a) ==
    LET values == Range(ValuesFor(a))
        adjacent == IF a.adjacent # <<>> THEN a.adjacent ELSE Target(a.source, a.field).adjacent
    IN IF values = {} THEN <<Query(Doctoral, FieldPages, PageSize)>>
       ELSE <<Query(On(values), FieldPages, PageSize), Query(On(values) \cap Doctoral, PhdPages, PageSize)>>
            \o [k \in DOMAIN adjacent |-> Query(On({adjacent[k]}) \cap Doctoral, PhdPages, PageSize)]
Euraxess(a) ==
    LET sweeps == Sweeps(a) IN
      IF CountryFacets(a) = {} THEN sweeps
      ELSE [k \in DOMAIN sweeps |-> [sweeps[k] EXCEPT !.of = @ \cap Tagged(CountryFacets(a))]]
           \o [k \in DOMAIN sweeps |-> [sweeps[k] EXCEPT !.pages = Least(@, UNSCOPED_PAGES)]]

\* Phrases of a term and a type, a few of them, at each location; gigs are no cards.
Phrases(a) == IF a.option # <<>> THEN a.option ELSE IF a.terms = <<>> THEN LINKEDIN_KEYWORDS ELSE
              LET all == [k \in 1 .. (Len(a.terms) * Len(a.types)) |->
                            <<a.terms[((k - 1) \div Len(a.types)) + 1], a.types[((k - 1) % Len(a.types)) + 1]>>]
              IN FirstFew(all, LINKEDIN_MAX_KEYWORDS)
Linkedin(a) ==
    LET places == SetToSeq(IF a.wanted # {} THEN a.wanted ELSE Locations)
        phrases == Phrases(a)
        Ask(k) == LET phrase == phrases[((k - 1) % Len(phrases)) + 1] IN
                    Query(Ads \cap On({phrase[1]}) \cap Tagged({places[((k - 1) \div Len(phrases)) + 1]})
                          \cap {i \in Posts : Board[i].phd = (phrase[2] = "phd")}, 1, PageSize)
    IN [k \in 1 .. (Len(places) * Len(phrases)) |-> Ask(k)]

JobsAcUk(a) == LET terms == FirstFew(a.terms, 4) IN
    [k \in DOMAIN terms |-> [WholePage(On({terms[k]}) \cap Doctoral) EXCEPT !.size = PageSize]]
Jrecin(a) == QueryEach(FirstFew(a.terms, 3))
NatureCareers(a) == QueryEach(FirstFew(a.terms, 6))
Esa(a) == <<WholePage(Doctoral), WholePage(Posts)>>
Academicjobsonline(a) == QueryEach(ValuesFor(a))
Findaphd(a) == LET slugs == ValuesFor(a) IN [k \in DOMAIN slugs |-> WholePage(Ads \cap On({slugs[k]}) \cap Doctoral)]
Aas(a) == LET urls == UrlsFor(a) IN [k \in DOMAIN urls |-> [urls[k] EXCEPT !.of = @ \cap Ads]]
Academictransfer(a) == QueryEach(FirstFew(a.terms, 2))
\* The latest jobs, whatever their subject, as one page shows them.
SsrFallback == Query(Posts, 1, PageSize)

\* The departments of the wanted countries, their links that look like an opening, so many of each page.
UniDepartments(a) ==
    LET mine == Among(a.departments, {d \in Range(a.departments) : a.wanted = {} \/ d.country \in a.wanted})
    IN [k \in DOMAIN mine |-> [WholePage(mine[k].links \cap Ads) EXCEPT !.most = MaxLinks]]

Plan(a) == CASE a.source = "euraxess" -> Euraxess(a) [] a.source = "linkedin" -> Linkedin(a)
             [] a.source = "jobs_ac_uk" -> JobsAcUk(a) [] a.source = "jrecin" -> Jrecin(a)
             [] a.source = "nature_careers" -> NatureCareers(a) [] a.source = "esa" -> Esa(a)
             [] a.source = "academicjobsonline" -> Academicjobsonline(a) [] a.source = "findaphd" -> Findaphd(a)
             [] a.source = "aas" -> Aas(a) [] a.source = "academictransfer" -> Academictransfer(a)
             [] a.source = "uni_departments" -> UniDepartments(a) [] a.source = "eso" -> <<>>
             [] a.source = "seed_urls" -> [k \in DOMAIN a.seeds |-> WholePage({a.seeds[k]})]

Init == /\ ask \in Asks
        /\ plan = Plan(ask) /\ at = 0 /\ due = Range(plan) /\ failed = {} /\ out = <<>>
        /\ known = IF ask.source = "seed_urls" THEN Range(ask.seeds) ELSE {}

-----------------------------------------------------------------------------
Records(posts) == [k \in DOMAIN posts |-> [post |-> posts[k], seed |-> FALSE]]
SkipQuery == plan' = Tail(plan) /\ at' = 0

\* A page answers: its cards that are not known yet; a short one is the last.
PageOf == LET q == Head(plan) all == Ordered(q.of) IN
            SubSeq(all, (at * q.size) + 1, Least((at + 1) * q.size, Len(all)))
ReadPage == /\ plan # <<>> /\ ask.source # "seed_urls"
            /\ LET q == Head(plan)
                   new == FirstFew(Among(PageOf, Posts \ known), q.most)
               IN /\ out' = out \o Records(new)
                  /\ known' = known \cup Range(new)
                  /\ IF Len(PageOf) < q.size \/ at + 1 = q.pages THEN SkipQuery ELSE at' = at + 1 /\ plan' = plan
            /\ UNCHANGED <<ask, due, failed>>

\* A page does not answer: the query ends, the next one is asked.  For AcademicTransfer: the
\* response was not there in time, could not be read, or the fallback's page does not answer.
LosePage == /\ plan # <<>> /\ ask.source # "seed_urls"
            /\ failed' = failed \cup {Head(plan)}
            /\ SkipQuery
            /\ UNCHANGED <<ask, due, known, out>>

\* AAS and ESO: the feed is enough where it answers; the pages are not asked then.
Feed == /\ ask.source \in {"aas", "eso"} /\ plan = Plan(ask) /\ at = 0 /\ out = <<>> /\ failed = {}
        /\ out' = Records(Ordered(Ads))
        /\ plan' = <<>> /\ due' = {}
        /\ UNCHANGED <<ask, at, failed, known>>

\* AcademicTransfer: an error of the browser, be it while it closes, drops what it had
\* captured, and the latest jobs are read instead; so they are without Playwright.
BrowserFails == /\ ask.source = "academictransfer" /\ due = Range(Plan(ask))
                /\ plan' = <<SsrFallback>> /\ at' = 0 /\ due' = {SsrFallback} /\ known' = {} /\ out' = <<>>
                /\ UNCHANGED <<ask, failed>>

\* Where a seed's siblings may be listed: what its pages say of a board, up to three
\* listings, the nearest first; or the listings of the board's adapter.
ParentListings(seed) == FirstFew(<<On(Board[seed].on) \cap Tagged({Board[seed].country}), On(Board[seed].on), Posts>>, 3)
AdapterListings(seed) == <<On(Board[seed].on)>>
SiblingsOn(listing, seen) == FirstFew(Ordered(listing \ seen), MaxSiblings)

\* A page becomes a record when a JobPosting or its own tags give it a title.
PageShapes == [jobposting : {"none", "untitled", "titled"}, title : BOOLEAN]
Parsed(page) == page.jobposting = "titled" \/ page.title

\* One seed: its page, then the first listing that answers with siblings, then their
\* pages, of which any may fail.
Siblings(seed, seen, listings, answered) ==
    LET good == {k \in answered \cap DOMAIN listings : listings[k] \ seen # {}}
    IN IF good = {} THEN <<>> ELSE SiblingsOn(listings[CHOOSE k \in good : \A l \in good : k <= l], seen)
ReadSeed == /\ ask.source = "seed_urls" /\ plan # <<>>
            /\ LET seed == CHOOSE i \in Head(plan).of : TRUE IN
                 \E page \in PageShapes, adapter \in BOOLEAN, answered \in SUBSET (1 .. 3), parsed \in SUBSET Posts :
                    LET siblings == Siblings(seed, known, IF adapter THEN AdapterListings(seed) ELSE ParentListings(seed), answered)
                        own == IF Parsed(page) THEN <<[post |-> seed, seed |-> TRUE]>> ELSE <<>>
                    IN /\ parsed \subseteq Range(siblings)
                       /\ out' = out \o own \o Records(Among(siblings, parsed))
                       /\ known' = known \cup Range(siblings)
            /\ SkipQuery
            /\ UNCHANGED <<ask, due, failed>>
\* Its page does not answer: no record, and no siblings.
LoseSeed == /\ ask.source = "seed_urls" /\ plan # <<>>
            /\ failed' = failed \cup {Head(plan)}
            /\ SkipQuery
            /\ UNCHANGED <<ask, due, known, out>>

Next == ReadPage \/ LosePage \/ Feed \/ BrowserFails \/ ReadSeed \/ LoseSeed

Spec == Init /\ [][Next]_sources

-----------------------------------------------------------------------------
(* Properties of a call that has ended.                                    *)
Taken == {out[k].post : k \in DOMAIN out}
Reach(q) == Range(SubSeq(Ordered(q.of), 1, Least(q.pages * q.size, Cardinality(q.of))))

\* The wanted countries, of which the profile's own options may leave some to the unscoped search.
Searched(a) == IF a.override = {} THEN a.wanted ELSE a.wanted \cap a.override

\* Scoping EURAXESS to the wanted countries reaches every posting tagged with one
\* that the unscoped search would have reached (euraxess.py:101-117,
\* registry.py:85-97: "so nothing is silently dropped").
ScopingHidesNothing ==
    ask.source = "euraxess" /\ plan = <<>> /\ failed = {} =>
        \A k \in DOMAIN Sweeps(ask) : Reach(Sweeps(ask)[k]) \cap Tagged(Searched(ask)) \subseteq Taken

\* A query that answered to its end is delivered whatever became of the others, up to
\* the links one page may add; but AcademicTransfer's are not once its browser has failed:
\* then its fallback is.
FailureIsLocal ==
    plan = <<>> /\ ask.source # "seed_urls" => \A q \in due \ failed :
        q.most >= Cardinality(q.of) => Reach(q) \subseteq Taken

\* A sibling is never a seed, and is found once, whichever seeds share its board: a
\* seed keeps the bypass of the gates.
SiblingsAreNew == \A k \in DOMAIN out : ask.source = "seed_urls" /\ ~out[k].seed =>
                    /\ out[k].post \notin Range(ask.seeds)
                    /\ \A l \in DOMAIN out \ {k} : out[l].post # out[k].post

SourcesAreSound == ScopingHidesNothing /\ FailureIsLocal /\ SiblingsAreNew
=============================================================================
