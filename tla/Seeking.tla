------------------------------- MODULE Seeking -------------------------------
(* What is looked for and where, beside the services: a search for supervisors, *)
(* one call of a source, the builds of the configuration and the requests for   *)
(* matches.  They share no state: a behaviour is one of a single part, the      *)
(* others stay as they start.                                                   *)
EXTENDS Integers, Sequences, FiniteSets, Parts

CONSTANTS
    Papers, Authors, HIndex, Recents, ResultsPerPage, ResultPages, PoolPages, QueryKeywords, Batches,   \* Supervisors
    MaxPapers, MaxAuthors, MinPapers, Enrich, Terms, Configs, SearchPairs,
    BoardPosts, Registry, Vocabulary, Locations, Asks, PostsPerPage, FieldPages, PhdPages,              \* Sources
    UNSCOPED_PAGES, LINKEDIN_MAX_KEYWORDS, LINKEDIN_KEYWORDS, MaxLinks, MaxSiblings,
    Builders, Countries, Aliases, Length, Files, FieldProfiles, ProfileOrder, FIELD_PROFILE,            \* Configuration
    Defaults, Builtin, Planned, Environments, Args, Subfields, Absent, Malformed, MaxBuilds,
    Seekers, Offers, FieldKeywords, Fields, ListPage, Thresholds, NoCountry, MaxComputed                \* Matching

VARIABLES
    cfg, left, phase, chain, query, fetched, docs, seen, pool, unverified, attempted, ranked, used,
    session, committed, broken, rejected, outcome, announced,
    ask, plan, pageAt, due, failed, known, out,
    settings, env, order, variants, lookup, buildAt, args, built, walked, builds, overlap,
    mini, matched, matches, shown, asked, computed

V == INSTANCE Supervisors WITH PageSize <- ResultsPerPage, Pages <- ResultPages, Keywords <- QueryKeywords, Pairs <- SearchPairs,
        at <- phase, page <- fetched, todo <- unverified, stored <- committed
C == INSTANCE Sources WITH Board <- BoardPosts, PageSize <- PostsPerPage, at <- pageAt
F == INSTANCE Configuration WITH Profiles <- FieldProfiles, file <- settings, table <- variants, at <- buildAt, cfg <- built
X == INSTANCE Matching WITH Profiles <- Seekers, Postings <- Offers, Keywords <- FieldKeywords, Limit <- ListPage, profile <- matched

IsList(s) == s \in Seq({s[i] : i \in DOMAIN s})

\* A profile and the postings it is compared with are finite, and so is a page of the list.
ASSUME MatchingAssumption ==
    /\ IsList(Offers)
    /\ \A p \in Seekers : \A terms \in {p.domain, p.skills, p.methods, p.tools} : IsFiniteSet(terms)
    /\ ListPage \in Nat

\* Papers are numbered; authors are few, as are those of one paper that counts; a
\* candidate stands in a paper at least.
ASSUME SupervisorsAssumption ==
    /\ IsList(Papers)
    /\ IsFiniteSet(Authors) /\ HIndex \in [Authors -> Int]
    /\ \A r \in Recents : r.n \in Nat /\ r.senior \in Nat
    /\ MinPapers \in Nat \ {0} /\ MaxPapers \in Nat /\ MaxAuthors \in Nat /\ Terms \in Nat

\* A call is of one of the sources, with the lists of its profile; its seeds are on the
\* board; what the registry knows of a field are lists too, and a page holds something.
ASSUME SourcesAssumption ==
    /\ IsList(BoardPosts) /\ IsList(LINKEDIN_KEYWORDS) /\ IsFiniteSet(Locations)
    /\ {PostsPerPage, FieldPages, PhdPages, UNSCOPED_PAGES} \subseteq Nat \ {0}
    /\ {MaxLinks, MaxSiblings, LINKEDIN_MAX_KEYWORDS} \subseteq Nat
    /\ {"euraxess", "aas", "academicjobsonline", "findaphd"} \subseteq DOMAIN Registry
    /\ \A s \in DOMAIN Registry : \A f \in DOMAIN Registry[s] : IsList(Registry[s][f].values) /\ IsList(Registry[s][f].adjacent)
    /\ \A a \in Asks :
         /\ a.source \in {"euraxess", "linkedin", "jobs_ac_uk", "jrecin", "nature_careers", "esa", "academicjobsonline", "findaphd",
                          "aas", "academictransfer", "uni_departments", "eso", "seed_urls"}
         /\ IsList(a.option) /\ IsList(a.adjacent) /\ IsList(a.terms) /\ IsList(a.types) /\ IsList(a.departments)
         /\ IsFiniteSet(a.wanted) /\ a.seeds \in Seq(DOMAIN BoardPosts)

\* The table of aliases and those of a file name lists, of few countries; variants have a
\* length; every setting has a value, terms and subfields are lists, and what an option of
\* the command line says is of its type: argparse refuses the rest.
ASSUME ConfigurationAssumption ==
    /\ IsList(Countries) /\ DOMAIN Aliases = {Countries[k] : k \in DOMAIN Countries}
    /\ \A aliases \in {Aliases} \cup {f.aliases : f \in Files} :
         /\ IsFiniteSet(DOMAIN aliases) /\ aliases = [c \in DOMAIN aliases |-> aliases[c]]
         /\ \A c \in DOMAIN aliases : IsList(aliases[c])
    /\ Length \in [DOMAIN Length -> Nat]
    /\ Defaults = [s \in DOMAIN Defaults |-> Defaults[s]]
    /\ {"threshold", "proxy", "countries", "source", "context", "anchors", "types", "selected"} \subseteq DOMAIN Defaults
    /\ IsList(Defaults.context)
    /\ \A p \in DOMAIN FieldProfiles : LET says == FieldProfiles[p].says IN
         "context" \in DOMAIN says /\ says.context # Malformed => IsList(says.context)
    /\ \A subfields \in {Subfields} \cup {FieldProfiles[p].subfields : p \in DOMAIN FieldProfiles} :
         \A s \in DOMAIN subfields : IsList(subfields[s])
    /\ \A a \in Args :
         /\ a = [config |-> a.config, field |-> a.field, says |-> a.says, keywords |-> a.keywords, types |-> a.types,
                 subfields |-> a.subfields, file |-> a.file]
         /\ a.config \in BOOLEAN /\ IsList(a.subfields) /\ \A s \in DOMAIN a.says : a.says[s] # Malformed

supervisors == <<cfg, left, phase, chain, query, fetched, docs, seen, pool, unverified, attempted, ranked, used,
                 session, committed, broken, rejected, outcome, announced>>
sources == <<ask, plan, pageAt, due, failed, known, out>>
configuration == <<settings, env, order, variants, lookup, buildAt, args, built, walked, builds, overlap>>
matching == <<mini, matched, matches, shown, asked, computed>>
seeking == <<part, supervisors, sources, configuration, matching>>

SeekingAtStart == V!Init /\ C!Init /\ F!Init /\ X!Init

SeekingInit == part \in {"supervisors", "sources", "settings", "matching"} /\ SeekingAtStart

SeekingNext ==
    \/ part = "supervisors" /\ V!Next /\ UNCHANGED <<part, sources, configuration, matching>>
    \/ part = "sources" /\ C!Next /\ UNCHANGED <<part, supervisors, configuration, matching>>
    \/ part = "settings" /\ F!Next /\ UNCHANGED <<part, supervisors, sources, matching>>
    \/ part = "matching" /\ X!Next /\ UNCHANGED <<part, supervisors, sources, configuration>>

SeekingSpec == SeekingInit /\ [][SeekingNext]_seeking

-----------------------------------------------------------------------------
(* Their properties, stated in the parts' modules.                         *)

\* Supervisors and Matching: candidates have the works they count, what a completed search
\* saved, and the ranking of postings.
SearchIsSound ==
    /\ part = "supervisors" => V!RankedHaveWorks /\ V!CompletedIsStored
    /\ part = "matching" => X!RankingIsFair
ScoresAreOwn == part = "matching" => X!ScoresAreOwn

\* Configuration: what was chosen is what is looked for.
ChosenIsUsed == part = "settings" => F!ConfigurationIsSound

\* Sources: nothing is hidden by a scope, lost with another query or listed as a sibling twice.
AskedIsSearched == part = "sources" => C!SourcesAreSound
=============================================================================
