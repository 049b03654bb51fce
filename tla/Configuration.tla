---------------------------- MODULE Configuration ----------------------------
(***************************************************************************)
(* src/astra/core/config.py: build_config lays config.yaml, the profile of *)
(* a field, the environment and the command line over the built-in values, *)
(* each layer over the earlier ones.  Threads of one process build at the  *)
(* same time, and one thing outlives a build: the table of country aliases *)
(* is the module's own, every build extends it in place, and the list the  *)
(* lookups walk is made again from it.                                     *)
(* A layer is a function from the settings it names to their values.        *)
(***************************************************************************)
EXTENDS Naturals, Sequences, SequencesExt, Loops

CONSTANTS Builders,     \* threads that build a configuration
          Countries,    \* Seq of the built-in canonical names, in their order
          Aliases,      \* the built-in variants of each of them, Seq of variants
          Length,       \* of each variant
          Files,        \* contents of config.yaml: [says, field, aliases, position types of position_types.yaml]
          Profiles,     \* fields/*.yaml: name |-> [says, subfields, options, departments]
          ProfileOrder, \* Seq of the profiles' names, sorted
          FIELD_PROFILE,
          Defaults,     \* the built-in value of every setting
          Builtin,      \* the built-in position types, Seq
          Planned,      \* position types that are not offered
          Environments, \* what ASTRA_PROXY says
          Args,         \* command lines: [config, field, says, keywords, types, subfields, file], the file as yet Absent
          Subfields,    \* the built-in subfields and their keywords
          Absent, Malformed,
          MaxBuilds     \* bound: builds begun

VARIABLES file, env,    \* config.yaml and the environment
          order, table, \* COUNTRY_ALIASES: its keys as inserted, and their variants
          lookup,       \* _ALIAS_LOOKUP: Seq of <<variant, canonical name>>
          at, args, cfg, walked,    \* of each builder: where it is, what it builds, the countries it walks and the list it makes
          builds, overlap           \* builds begun; whether two were ever under way at once with different files

configuration == <<file, env, order, table, lookup, at, args, cfg, walked, builds, overlap>>

-----------------------------------------------------------------------------
(* The layers.                                                             *)

\* The settings each layer knows; it reports any other name and goes on.
Understood == [yaml |-> {"threshold", "proxy", "signal", "topics", "countries", "types", "source"},
               profile |-> {"threshold", "signal", "topics", "anchors", "context", "source"},
               env |-> {"proxy"},
               cli |-> {"threshold", "proxy", "countries", "source"}]

\* A bad value is ignored, but config.yaml's text settings are taken as they are.
Usable(layer, setting, value) == value # Malformed \/ (layer = "yaml" /\ setting \in {"signal", "source"})

Overlay(c, layer, says) ==
    [s \in DOMAIN c |-> IF s \in Understood[layer] \cap DOMAIN says /\ Usable(layer, s, says[s]) THEN says[s] ELSE c[s]]

\* The position types of the YAML file, or all built-in ones when it lacks one of them.
LoadTypes(f) == IF Range(Builtin) \subseteq Range(f.offers) THEN f.offers ELSE Builtin
OfferedTypes(f) == Range(LoadTypes(f)) \ Planned

\* Without the fallback.
OnlyOffered(c, f, types) == [c EXCEPT !.types = Among(types, OfferedTypes(f))]
\* --types: those on offer; none of them leaves the types as they were.
WantTypes(c, f, types) ==
    LET kept == Among(types, OfferedTypes(f))
    IN IF kept = <<>> THEN c ELSE [c EXCEPT !.types = kept]

\* The keywords of the chosen subfields become terms that only raise a score.
ApplySubfieldFocus(c, subfields, chosen) ==
    LET matched == Among(chosen, DOMAIN subfields)
        keywords == Joined([k \in DOMAIN matched |-> subfields[matched[k]]])
        fresh == {k \in DOMAIN keywords : keywords[k] \notin Range(c.context) \cup {keywords[j] : j \in 1 .. (k - 1)}}
    IN [c EXCEPT !.context = @ \o Picked(keywords, fresh), !.selected = matched]

\* --field names a profile, or a subfield of the first profile that has it.
ResolveField(name) ==
    LET owners == Among(ProfileOrder, {p \in DOMAIN Profiles : name \in DOMAIN Profiles[p].subfields})
    IN CASE name \in DOMAIN Profiles -> [profile |-> name, subfield |-> Absent]
         [] name \notin DOMAIN Profiles /\ owners # <<>> -> [profile |-> owners[1], subfield |-> name]
         [] OTHER -> [profile |-> Absent, subfield |-> Absent]

-----------------------------------------------------------------------------
(* The table of country aliases.                                           *)

\* The pairs of the table in its order; the lookups take the longest, the first of equals.
Pairs(keys, variants) ==
    Joined([k \in DOMAIN keys |-> [j \in DOMAIN variants[keys[k]] |-> <<variants[keys[k]][j], keys[k]>>]])

\* Every alias of the file goes behind the variants of its country.
Extended(keys, variants, aliases) ==
    [k \in Range(keys) \cup DOMAIN aliases |->
        (IF k \in DOMAIN variants THEN variants[k] ELSE <<>>) \o (IF k \in DOMAIN aliases THEN aliases[k] ELSE <<>>)]
WithKeys(keys, aliases) == keys \o SetToSeq(DOMAIN aliases \ Range(keys))

\* guess_country: the country of the longest variant a text holds, the earliest of equals.
GuessCountry(pairs, text) ==
    LET hits == {k \in DOMAIN pairs : pairs[k][1] \in text}
        longest == {k \in hits : \A j \in hits : Length[pairs[j][1]] <= Length[pairs[k][1]]}
    IN IF hits = {} THEN Absent ELSE pairs[CHOOSE k \in longest : \A j \in longest : k <= j][2]

-----------------------------------------------------------------------------
NotWalked == [keys |-> <<>>, pairs |-> <<>>]

Init == /\ file \in Files /\ env \in Environments
        /\ order = Countries /\ table = Aliases /\ lookup = Pairs(Countries, Aliases)
        /\ at = [b \in Builders |-> "idle"] /\ args = [b \in Builders |-> Absent]
        /\ cfg = [b \in Builders |-> Absent] /\ walked = [b \in Builders |-> NotWalked]
        /\ builds = 0 /\ overlap = FALSE

Idle == {"idle", "done", "refused", "broken"}

\* A build starts from copies of the built-in values.
Begin(b) ==
    /\ at[b] \in Idle /\ builds < MaxBuilds
    /\ builds' = builds + 1
    /\ \E a \in Args :
         /\ args' = [args EXCEPT ![b] = [a EXCEPT !.file = file]]
         /\ at' = [at EXCEPT ![b] = IF a.config THEN "yaml" ELSE "rest"]
    /\ cfg' = [cfg EXCEPT ![b] = Defaults]
    /\ overlap' = (overlap \/ \E o \in Builders : at[o] \notin Idle /\ args[o].file # file)
    /\ UNCHANGED <<file, env, order, table, lookup, walked>>

\* apply_config_yaml, up to the table: COUNTRY_ALIASES has the file's aliases once more.
ApplyConfigYaml(b) ==
    /\ at[b] = "yaml"
    /\ LET f == args[b].file IN
         /\ cfg' = [cfg EXCEPT ![b] = Overlay(@, "yaml", f.says)]
         /\ at' = [at EXCEPT ![b] = IF DOMAIN f.aliases = {} THEN "rest" ELSE "walk"]
         /\ order' = WithKeys(order, f.aliases)
         /\ table' = Extended(order, table, f.aliases)
    /\ UNCHANGED <<file, env, lookup, args, walked, builds, overlap>>

\* _rebuild_alias_lookup walks the table, and then sets the list.
WalkAliases(b) ==
    /\ at[b] = "walk"
    /\ walked' = [walked EXCEPT ![b] = [keys |-> order, pairs |-> Pairs(order, table)]]
    /\ at' = [at EXCEPT ![b] = "rebuild"]
    /\ UNCHANGED <<file, env, order, table, lookup, args, cfg, builds, overlap>>

\* A country that another thread adds under the walk raises and ends the build.
RebuildAliasLookup(b) ==
    /\ at[b] = "rebuild"
    /\ \/ /\ lookup' = walked[b].pairs
          /\ at' = [at EXCEPT ![b] = "rest"]
       \/ /\ order # walked[b].keys
          /\ at' = [at EXCEPT ![b] = "broken"]
          /\ UNCHANGED lookup
    /\ walked' = [walked EXCEPT ![b] = NotWalked]
    /\ UNCHANGED <<file, env, order, table, args, cfg, builds, overlap>>

\* The profile and whether the build may go on without it.
FieldOf(a) == LET named == IF a.config THEN a.file.field ELSE FIELD_PROFILE IN
    IF a.field # Absent THEN ResolveField(a.field) ELSE [profile |-> named, subfield |-> Absent]

\* Malformed options are reported with the departments, which the profile may lack.
Breaks(name) == name \in DOMAIN Profiles /\ Profiles[name].options = Malformed /\ ~Profiles[name].departments

\* The command line comes last, then the choice of types and subfields.
Override(c, a) ==
    LET over == Overlay(Overlay(c, "env", env), "cli", a.says)
        subfields == IF FieldOf(a).profile \in DOMAIN Profiles THEN Profiles[FieldOf(a).profile].subfields ELSE Subfields
        typed == WantTypes([over EXCEPT !.anchors = @ \o a.keywords], a.file, a.types)
    IN IF a.subfields = <<>> THEN typed ELSE ApplySubfieldFocus(typed, subfields, a.subfields)

BuildConfig(b) ==
    LET a == args[b]
        name == FieldOf(a).profile
        found == name \in DOMAIN Profiles
    IN /\ at[b] = "rest"
       /\ at' = [at EXCEPT ![b] = IF Breaks(name) THEN "broken"
                                  ELSE IF ~found /\ name # FIELD_PROFILE THEN "refused" ELSE "done"]
       /\ cfg' = [cfg EXCEPT ![b] = IF at'[b] # "done" THEN Absent
                     ELSE Override(IF found THEN Overlay(@, "profile", Profiles[name].says) ELSE @, a)]
       /\ UNCHANGED <<file, env, order, table, lookup, args, walked, builds, overlap>>

\* Somebody edits config.yaml.
Edit == /\ builds < MaxBuilds
        /\ file' \in Files
        /\ UNCHANGED <<env, order, table, lookup, at, args, cfg, walked, builds, overlap>>

Next == \/ \E b \in Builders : \/ Begin(b) \/ ApplyConfigYaml(b) \/ WalkAliases(b)
                               \/ RebuildAliasLookup(b) \/ BuildConfig(b)
        \/ Edit
Spec == Init /\ [][Next]_configuration

-----------------------------------------------------------------------------
Done == {b \in Builders : at[b] = "done"}
Quiet == \A b \in Builders : at[b] \in Idle
Texts == {{v} : v \in DOMAIN Length} \cup {DOMAIN Length}

\* When no build is under way, a text is of the country that the built-in table, extended
\* by all aliases the process has met, gives it: no build's list is lost to another's.
\* Builds that overlap an edit of config.yaml may lose one (apply_config_yaml).
AliasesResolve == Quiet /\ ~overlap => \A t \in Texts : GuessCountry(lookup, t) = GuessCountry(Pairs(order, table), t)

\* However often the aliases are added again, no text changes its country: a second
\* copy of a variant is found where the first one is.
RepetitionIsHarmless ==
    \A b \in Builders : at[b] # "idle" /\ args[b].config =>
        \A t \in Texts : LET again == args[b].file.aliases IN
            GuessCountry(Pairs(WithKeys(order, again), Extended(order, table, again)), t)
                = GuessCountry(Pairs(WithKeys(order, again), Extended(order, Extended(order, table, again), again)), t)

\* Choosing subfields or types never empties a search nor qualifies a post: the anchors are
\* those without the choice, the terms are kept in place and none twice, and a type is left.
ChoicesOnlyFocus ==
    \A b \in Done : LET a == args[b]
                        without == [a EXCEPT !.subfields = <<>>, !.types = <<>>]
                        base == Overlay(IF a.config THEN Overlay(Defaults, "yaml", a.file.says) ELSE Defaults, "profile",
                            IF FieldOf(a).profile \in DOMAIN Profiles THEN Profiles[FieldOf(a).profile].says ELSE <<>>)
                    IN /\ cfg[b].anchors = Override(base, without).anchors
                       /\ IsPrefix(base.context, cfg[b].context)
                       /\ \A k, j \in (Len(base.context) + 1) .. Len(cfg[b].context) : k # j => cfg[b].context[k] # cfg[b].context[j]
                       /\ base.types # <<>> => cfg[b].types # <<>>

\* What the command line says holds whatever the other layers say.
CommandLineWins == \A b \in Done : \A s \in Understood["cli"] \cap DOMAIN args[b].says : cfg[b][s] = args[b].says[s]

ConfigurationIsSound == AliasesResolve /\ RepetitionIsHarmless /\ ChoicesOnlyFocus /\ CommandLineWins
=============================================================================
