------------------------------ MODULE Matching ------------------------------
(***************************************************************************)
(* src/astra/matching/scorer.py and the list of matches made from it       *)
(* (api/routes/matches.py).  A profile is scored against every posting     *)
(* with a taxonomy of its own terms, which the process compiles once and   *)
(* keeps.  A text is the set of terms it names; scores are integers, 1000  *)
(* standing for 1.0.                                                       *)
(***************************************************************************)
EXTENDS Integers, Sequences, FiniteSets, SequencesExt, Loops

CONSTANTS Profiles,     \* [domain, skills, methods, tools, preferred, blocked], sets of terms and of countries
          Postings,     \* Seq of [title, text, institution, country, field]
          Keywords,     \* of each field the list may be filtered by
          Fields, Limit, Thresholds,
          NoCountry,
          MaxComputed   \* bound: lists computed

VARIABLES mini,         \* _mini_cfg_cache: the compiled taxonomies by their keys
          profile,      \* whose matches the list has
          matches,      \* Seq of [posting, score, percentile, suggestions], best first
          shown, asked, \* a filtered list page by page, and its filter
          computed

matching == <<mini, profile, matches, shown, asked, computed>>

NEUTRAL == 500
Least(a, b) == IF a < b THEN a ELSE b

\* The profile's own terms, and the key they are kept under.
Compiled(p) == [core |-> p.domain, context |-> p.skills \cup p.methods \cup p.tools]
KeyOf(p) == [domain |-> p.domain, methods |-> p.methods, tools |-> p.tools]
Taxonomy(p) == IF KeyOf(p) \in DOMAIN mini THEN mini[KeyOf(p)] ELSE Compiled(p)

\* Twice the weights 5, 2.5, 1 and 0.5 of a term named in the title or only in the text.
Named(terms, o, title, text) == title * Cardinality(terms \cap o.title) + text * Cardinality(terms \cap (o.text \ o.title))
ScoreRelevance(t, o) == Named(t.core, o, 10, 5) + Named(t.context, o, 2, 1)
\* Two anchors in the title are a full score.
TopicScore(t, o) == IF o.title \cup o.text = {} THEN 0 ELSE Least(1000, 50 * ScoreRelevance(t, o))

Methods(p) == p.methods \cup p.tools
Hay(o) == o.title \cup o.text \cup o.institution
MethodScore(p, o) == IF Methods(p) = {} THEN NEUTRAL ELSE (1000 * Cardinality(Methods(p) \cap Hay(o))) \div Cardinality(Methods(p))
MissingMethods(p, o) == Methods(p) \ Hay(o)

\* Without preferences nothing is judged, not even a blocked country.
LocationScore(p, o) ==
    CASE o.country = NoCountry \/ p.preferred = {} -> NEUTRAL
      [] p.preferred # {} /\ o.country \in p.blocked -> 0
      [] p.preferred # {} /\ o.country \in p.preferred \ p.blocked -> 1000
      [] OTHER -> 250

Overall(p, t, o) == (5 * TopicScore(t, o) + 3 * MethodScore(p, o) + 2 * LocationScore(p, o)) \div 10

\* The share of scores that are below this one.
StrictPercentile(scores, s) == (100 * Cardinality({i \in DOMAIN scores : scores[i] < s})) \div Len(scores)
\* The share of scores at or below this one.
Percentile(scores, s) == (100 * Cardinality({i \in DOMAIN scores : scores[i] <= s})) \div Len(scores)

\* The places of the scores, each behind those of the earlier ones that are no lower.
BestFirst(scores) ==
    LET upTo[n \in 0 .. Len(scores)] ==
          IF n = 0 THEN <<>>
          ELSE LET ahead == {i \in 1 .. n : scores[i] >= scores[n]}
               IN  Append(Among(upTo[n - 1], ahead), n) \o Among(upTo[n - 1], (1 .. n) \ ahead)
    IN  upTo[Len(scores)]

\* Best first, postings of one score in the order of the table.
Ranked(p, t) ==
    LET scores == [i \in DOMAIN Postings |-> Overall(p, t, Postings[i])]
        best == BestFirst(scores)
    IN [k \in DOMAIN best |-> [posting |-> best[k], score |-> scores[best[k]], percentile |-> Percentile(scores, scores[best[k]]),
                               missing |-> MissingMethods(p, Postings[best[k]])]]

Init == mini = <<>> /\ matches = <<>> /\ shown = <<>> /\ asked = <<>> /\ computed = 0 /\ profile \in Profiles

\* _compute_matches for the profile of a request: of another user, or edited since.
ComputeMatches(p) ==
    /\ computed < MaxComputed
    /\ computed' = computed + 1
    /\ profile' = p
    /\ mini' = [k \in DOMAIN mini \cup {KeyOf(p)} |-> IF k \in DOMAIN mini THEN mini[k] ELSE Compiled(p)]
    /\ matches' = Ranked(p, Taxonomy(p))
    /\ shown' = <<>> /\ asked' = <<>>

\* A field without keywords lists nothing; then pages of those with the least score asked for.
HitsField(o, field) == Keywords[field] \cap o.field # {}
Wanted(field, least) == Among(matches,
    {m \in Range(matches) : (field = "none" \/ HitsField(Postings[m.posting], field)) /\ m.score >= least})
ListMatches ==
    /\ matches # <<>>
    /\ \E field \in Fields \cup {"none"}, least \in Thresholds :
         LET page == IF asked = <<field, least>> THEN shown ELSE <<>> IN
           /\ asked = <<>> \/ asked = <<field, least>>
           /\ asked' = <<field, least>>
           /\ shown' = page \o SubSeq(Wanted(field, least), Len(page) + 1, Least(Len(page) + Limit, Len(Wanted(field, least))))
    /\ UNCHANGED <<mini, profile, matches, computed>>

Next == (\E p \in Profiles : ComputeMatches(p)) \/ ListMatches
Spec == Init /\ [][Next]_matching

-----------------------------------------------------------------------------
\* A posting that names all terms another one names, as prominently, in a country that is
\* judged no worse, is not ranked below it: naming more never costs anything.
NamingMoreNeverCosts ==
    \A k, j \in DOMAIN matches :
        LET o == Postings[matches[k].posting]
            less == Postings[matches[j].posting]
        IN less.title \subseteq o.title /\ less.text \subseteq o.text \cup o.title /\ Hay(less) \subseteq Hay(o)
             /\ LocationScore(profile, less) <= LocationScore(profile, o) => matches[k].score >= matches[j].score

\* Percentiles agree with the order: equal scores share one, and the best is above all.
PercentilesRank ==
    \A k, j \in DOMAIN matches :
        /\ matches[k].score = matches[j].score => matches[k].percentile = matches[j].percentile
        /\ matches[k].score > matches[j].score => matches[k].percentile >= matches[j].percentile
        /\ matches[1].percentile = 100

\* Page after page shows every match once that the filter lets through, and a field that
\* nobody knows shows none (matches.py:138: "never match everything").
PagesShowAll ==
    asked # <<>> => /\ IsPrefix(shown, Wanted(asked[1], asked[2]))
                    /\ asked[1] # "none" /\ Keywords[asked[1]] = {} => shown = <<>>

RankingIsFair == NamingMoreNeverCosts /\ PercentilesRank /\ PagesShowAll

\* scorer.py:78-82: the taxonomy is "compiled once per distinct profile content": a list is
\* made from the terms of its own profile, whatever was compiled before.
ScoresAreOwn == matches # <<>> => matches = Ranked(profile, Compiled(profile))
=============================================================================
