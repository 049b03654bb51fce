----------------------------- MODULE MCServices -----------------------------
(* The services, and beside them a crawl and the parts of Seeking: a behaviour *)
(* is one of a single part, the others stay as they start.                     *)
EXTENDS Services, Seeking, MCPipelineRun

-----------------------------------------------------------------------------
(* Values of the services' constants.                                      *)

\* Two crons in one process, a third in another.
MCProcessOf(c) == IF c \in Clients THEN "q1" ELSE "q2"

\* A new source, one that always delivers one record, for some runs or for as many as
\* the window holds, one that fails now and then.
MCWindows == {<<>>, [i \in 1 .. 6 |-> 1], [i \in 1 .. 30 |-> 1], [i \in 1 .. 29 |-> IF i = 3 \/ i > 27 THEN -1 ELSE 3]}
MCError == -1

\* Two slices, the second after the first; an attempt writes within bounds, or outside too.
MCDeps == <<{}, {1}>>
MCWrites == {{"in"}, {"in", "out"}}

-----------------------------------------------------------------------------
(* The other parts.                                                        *)

\* Authors with several affiliations, one twice on a paper, none told, or told and
\* coded differently; runs that end with each source.
As(who, codes, text) == [who |-> who, codes |-> codes, text |-> text]
MCPapers == <<<<As("a", "here", "vague"), As("b", "away", "none")>>, <<As("b", "away", "vague"), As("a", "here", "here")>>,
    <<As("a", "here", "away"), As("a", "none", "none"), As("b", "here", "none")>>>>
RecentWorks(n, has, in, enough, anchors, senior) ==
    [n |-> n, has |-> has, in |-> in, enough |-> enough, anchors |-> anchors, senior |-> senior]
Search(cli, requested, token, topics, signal) ==
    [cli |-> cli, requested |-> requested, token |-> token, db |-> "ads", explicit |-> FALSE, profile |-> "astronomy",
     topics |-> topics, field |-> TRUE, known |-> TRUE, signal |-> signal]
MCHIndex == [a |-> 5, b |-> 3]
MCRecents == {RecentWorks(0, 0, 0, FALSE, FALSE, 0), RecentWorks(3, 0, 0, TRUE, FALSE, 1), RecentWorks(3, 3, 2, TRUE, FALSE, 3),
              RecentWorks(5, 5, 2, TRUE, TRUE, 0), RecentWorks(2, 2, 2, FALSE, TRUE, 2)}
MCConfigs == {Search(FALSE, "auto", TRUE, FALSE, "none"), Search(FALSE, "auto", FALSE, TRUE, "last_author"),
              Search(TRUE, "ads", FALSE, FALSE, "none"), Search(FALSE, "arxiv", FALSE, TRUE, "none")}

\* A board of seven postings read one to the page: postings of two subjects, one a gig,
\* tagged with countries the portal has a facet for, one it has none for, and none.
Post(on, phd, country, ad) == [on |-> on, phd |-> phd, country |-> country, ad |-> ad]
MCBoard == <<Post({"stars"}, FALSE, "fr", TRUE), Post({"stars"}, TRUE, "fr", FALSE), Post({"stars", "physics"}, TRUE, "de", TRUE),
    Post({"physics"}, TRUE, "us", TRUE), Post({"stars"}, TRUE, "us", TRUE), Post({"physics"}, TRUE, "none", TRUE),
    Post({"stars"}, FALSE, "de", TRUE)>>
Values(values, adjacent) == [values |-> values, adjacent |-> adjacent]
MCRegistry == [euraxess |-> [astro |-> Values(<<"stars">>, <<"physics">>)], aas |-> [astro |-> Values(<<"stars">>, <<"physics">>)],
    academicjobsonline |-> [astro |-> Values(<<"stars", "physics">>, <<>>)],
    findaphd |-> ("astro" :> Values(<<"physics">>, <<>>)) @@ ("*" :> Values(<<"stars">>, <<>>))]
Asking(names, fields, options, wanteds) ==
    {[source |-> n, field |-> f, option |-> o, adjacent |-> <<>>, wanted |-> w, override |-> {}, seeds |-> <<3, 5>>,
      terms |-> <<"stars", "physics">>, types |-> <<"phd", "postdoc">>,
      departments |-> <<[country |-> "de", links |-> {1, 3, 4}], [country |-> "us", links |-> {3, 5, 6}]>>] :
        n \in names, f \in fields, o \in options, w \in wanteds}
Anywhere == Asking({"eso"}, {"astro"}, {<<>>}, {{}})
MCAsks == Anywhere \union Asking({"euraxess"}, {"astro", "law"}, {<<>>, <<"physics">>}, {{}, {"de"}, {"de", "us"}, {"fr", "de"}})
    \union {[a EXCEPT !.override = {"us", "de"}] : a \in Asking({"euraxess"}, {"astro"}, {<<>>}, {{}, {"de", "fr"}, {"us"}})}
    \union Asking({"academicjobsonline", "findaphd", "aas"}, {"astro", "law"}, {<<>>}, {{"de", "us"}})
    \union Asking({"linkedin", "uni_departments"}, {"astro"}, {<<>>}, {{}, {"de"}})
    \union Asking({"jobs_ac_uk", "jrecin", "nature_careers", "esa", "academictransfer", "seed_urls"}, {"astro"}, {<<>>}, {{}})
MCLinkedinKeywords == <<<<"stars", "phd">>>>

\* Aliases that are new, repeat a built-in variant of another country, or bring a country of
\* their own; a profile with malformed options; subfields that share a keyword or are unknown.
Says(threshold, signal, types) == [threshold |-> threshold, signal |-> signal, types |-> types]
ConfigFile(says, aliases, offers) == [says |-> says, field |-> "stars", aliases |-> aliases, offers |-> offers]
CommandLine(config, field, types, subfields) ==
    [config |-> config, field |-> field, says |-> ("proxy" :> "p"), keywords |-> <<"dust">>, types |-> types,
     subfields |-> subfields, file |-> Absent]
Field(options, subfields) ==
    [says |-> [anchors |-> <<"star">>, context |-> <<"gas">>, threshold |-> Malformed], subfields |-> subfields,
     options |-> options, departments |-> FALSE]
MCCountries == <<"kr", "kp", "de">>
MCAliases == [kr |-> <<"south korea", "korea">>, kp |-> <<"north korea">>, de |-> <<"germany">>]
MCLength == ("south korea" :> 11) @@ ("north korea" :> 11) @@ ("korea" :> 5) @@ ("germany" :> 7) @@ ("brd" :> 3)
MCFiles == {ConfigFile(Says(3, Malformed, <<"phd">>), [de |-> <<"brd">>, xx |-> <<"korea", "north korea">>], <<"phd", "masters">>),
            ConfigFile(Says(Malformed, "none", <<"phd", "postdoc">>), [kr |-> <<"germany">>], <<"phd", "postdoc", "masters">>)}
MCFieldProfiles == [stars |-> Field(Malformed, <<>>),
                    money |-> Field(Absent, [trade |-> <<"gas", "ship", "ship">>, tax |-> <<"ship">>])]
MCProfileOrder == <<"money", "stars">>
MCDefaults == [threshold |-> 4, proxy |-> "none", signal |-> "last_author", topics |-> <<>>, countries |-> <<>>, types |-> <<"phd">>,
               source |-> "auto", anchors |-> <<"sun">>, context |-> <<"ray">>, selected |-> <<>>]
MCBuiltin == <<"phd", "postdoc">>
MCSubfields == [sun |-> <<"ray", "spot">>]
MCEnvironments == {<<>>, [proxy |-> "e"]}
MCArgs == {CommandLine(TRUE, "trade", <<"masters">>, <<"tax", "trade", "art">>), CommandLine(TRUE, Absent, <<>>, <<>>),
           CommandLine(FALSE, "art", <<>>, <<>>), CommandLine(FALSE, Absent, <<"postdoc", "masters">>, <<"sun">>)}

\* Profiles that differ in their skills only, postings that name more or less of them.
Seeker(skills, methods, preferred, blocked) ==
    [domain |-> {"astro"}, skills |-> skills, methods |-> methods, tools |-> {}, preferred |-> preferred, blocked |-> blocked]
Offered(title, text, institution, country, field) ==
    [title |-> title, text |-> text, institution |-> institution, country |-> country, field |-> field]
MCSeekers == {Seeker({"dust"}, {"python"}, {"fr"}, {"us"}), Seeker({"gas"}, {"python"}, {}, {"us"}), Seeker({}, {}, {"fr", "us"}, {})}
MCOffers == <<Offered({"astro"}, {"dust"}, {}, "fr", {"stars"}), Offered({"astro"}, {"gas"}, {}, "us", {"stars"}),
              Offered({}, {}, {"python"}, "none", {}), Offered({}, {"astro", "python"}, {}, "none", {"stars"}),
              Offered({"astro"}, {"gas", "dust", "python"}, {}, "fr", {})>>
MCFieldKeywords == [astro |-> {"stars"}, law |-> {}]

\* TLC stops where nothing is said any more: of a cached list once a request has raced
\* (requests for the other list do not meet it), of digests once Redis has failed a claim
\* (`raced` and `hiccups` only grow); and of alerts once two checks have raced, which the
\* guards in memory do not notice.  It lets the crawls, which are alike, begin in order.
Explored ==
    /\ part = "listings" => raced = {}
    /\ part = "digest" => hiccups = 0
    /\ part = "monitor" => ~alertRaced
    /\ part = "crawl" /\ (\E r \in Runs : pc[r] # "idle") => pc[CHOOSE r \in Runs : TRUE] # "idle"

\* A part is as it starts when another one runs.
MCInit ==
    /\ part \in {"http", "rq", "digest", "monitor", "listings", "driver", "crawl", "supervisors", "sources", "settings", "matching"}
    /\ AtStart /\ Init /\ SeekingAtStart
    /\ part # "sources" => ask \in Anywhere
    /\ part # "settings" => env = <<>> /\ settings.says.threshold = 3
    /\ part # "matching" => matched = Seeker({}, {}, {"fr", "us"}, {})
    /\ part # "supervisors" => cfg.requested = "arxiv"

run == <<today, pc, source, got, cancelled, recs, state, result, stored, stateFile, output, table,
         started, crashes, ideal, orderly>>
MCNext ==
    \/ ServicesNext /\ UNCHANGED <<run, supervisors, sources, configuration, matching>>
    \/ part = "crawl" /\ Next /\ UNCHANGED <<services, supervisors, sources, configuration, matching>>
    \/ SeekingNext /\ UNCHANGED <<redis, http, rq, digest, monitor, listings, driver, run>>


all == <<services, run, supervisors, sources, configuration, matching>>
MCSpec == MCInit /\ [][MCNext]_all
=============================================================================
