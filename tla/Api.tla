--------------------------------- MODULE Api ---------------------------------
(* Seven parts of the API that share no state: a behaviour is one of a single *)
(* one, the others stay as they start.                                        *)
EXTENDS Integers, Sequences, FiniteSets, Parts

CONSTANTS Clients, Nobody,
          ResearchUrls, FundingUrl, CaseTexts, Original, Callers, MaxSnapshots, MaxGates, MaxFunding, MaxBriefs, \* CaseEvidence
          KeyCallers, Rate, Window, Quota, KeyDay, MaxSecond, MaxCalls,                                         \* ApiMeter
          Users, Owners, Admin, Codes, InvitesRequired, MaxTokens, MaxProfiles,                                 \* Accounts
          DeskCases, Fields, Choices, MaxHistory, MaxNotes,                                                     \* CaseDesk
          Lines, MaxRetries, MaxCaptures,                                                                       \* Watching
          DayLength, Soon, Authorities, Stated, Amounts, MaxInstant, MaxFacts,                                  \* Verdicts
          Chains, MAX_RETRIES, Caps, Cost, MaxRounds, MaxAsks, MaxHiccups                                       \* Drafting

VARIABLES
    snapshots, artifacts, caseClaims, edges, gates, funding, research, bound, briefs, freezing,
    redis, now, bucket, passed, meter, memory, usage, rolled, at, number, when, served, received, limitRaced, calls,
    users, verified, via, invites, tokens, profiles, marks, items, request, spent, refused, raced,
    desk, history, notes, doing,
    clock, captures, excerpts, events, checked, runStatus, attempt, pending, unread,
    topic, assessed, dimensions, urgent, stale, money, unlisted, statements, deadline, instant, aware,
    chain, cap, spend, feature, draftAt, lane, tries, round, failing, asks, blind, hiccups

E == INSTANCE CaseEvidence WITH Texts <- CaseTexts, claims <- caseClaims
K == INSTANCE ApiMeter WITH Callers <- KeyCallers, Day <- KeyDay, MaxNow <- MaxSecond, raced <- limitRaced
A == INSTANCE Accounts WITH saved <- items
D == INSTANCE CaseDesk WITH Cases <- DeskCases, Requests <- Clients
P == INSTANCE Watching WITH Runs <- Clients, snapshots <- captures, artifacts <- excerpts, status <- runStatus
J == INSTANCE Verdicts WITH Values <- Stated, Day <- DayLength, MaxNow <- MaxInstant, gates <- assessed, extra <- unlisted, now <- instant
N == INSTANCE Drafting WITH Callers <- Clients, spent <- spend, at <- draftAt, attempt <- tries, refused <- failing

\* Requests are finitely many; limits and prices are numbers, windows and days take
\* time; what is not known is no amount.
ASSUME ApiAssumption ==
    /\ IsFiniteSet(Clients) /\ IsFiniteSet(KeyCallers) /\ IsFiniteSet(ResearchUrls)
    /\ Nobody \notin Users \union {Admin} /\ {"watch", "simulated"} \intersect Clients = {}
    /\ Original \in CaseTexts /\ MaxSnapshots \in Nat /\ MaxTokens \in Nat /\ MAX_RETRIES \in Nat
    /\ Rate \in Nat \ {0} /\ Window \in Nat \ {0} /\ Quota \in Nat /\ KeyDay \in Nat \ {0} /\ MaxSecond \in Nat
    /\ DayLength \in Nat \ {0} /\ Authorities \in Nat /\ Amounts \subseteq Int \ {J!None}
    /\ Chains \subseteq Seq(STRING) /\ Caps \subseteq Nat /\ Cost \in Nat

case == <<snapshots, artifacts, caseClaims, edges, gates, funding, research, bound, briefs, freezing>>
limits == <<redis, now, bucket, passed, meter, memory, usage, rolled, at, number, when, served, received, limitRaced, calls>>
accounts == <<users, verified, via, invites, tokens, profiles, marks, items, request, spent, refused, raced>>
cases == <<desk, history, notes, doing>>
watching == <<clock, captures, excerpts, events, checked, runStatus, attempt, pending, unread>>
verdicts == <<topic, assessed, dimensions, urgent, stale, money, unlisted, statements, deadline, instant, aware>>
drafting == <<chain, cap, spend, feature, draftAt, lane, tries, round, failing, asks, blind, hiccups>>
api == <<part, case, limits, accounts, cases, watching, verdicts, drafting>>

\* What the variables of each part are when another one runs: one of its initial states.
AtStart ==
    /\ E!Init /\ K!Init /\ A!Init /\ D!Init /\ P!Init /\ J!Init /\ N!Init
    /\ part # "meter" => redis
    /\ part # "verdicts" => topic = "case"
    /\ part # "drafting" => (\A c \in Chains : Len(chain) <= Len(c)) /\ \A c \in Caps : cap <= c

ApiInit == part \in {"case", "meter", "accounts", "desk", "watching", "verdicts", "drafting"} /\ AtStart

ApiNext ==
    \/ part = "case" /\ E!Next /\ UNCHANGED <<part, limits, accounts, cases, watching, verdicts, drafting>>
    \/ part = "meter" /\ K!Next /\ UNCHANGED <<part, case, accounts, cases, watching, verdicts, drafting>>
    \/ part = "accounts" /\ A!Next /\ UNCHANGED <<part, case, limits, cases, watching, verdicts, drafting>>
    \/ part = "desk" /\ D!Next /\ UNCHANGED <<part, case, limits, accounts, watching, verdicts, drafting>>
    \/ part = "watching" /\ P!Next /\ UNCHANGED <<part, case, limits, accounts, cases, verdicts, drafting>>
    \/ part = "verdicts" /\ J!Next /\ UNCHANGED <<part, case, limits, accounts, cases, watching, drafting>>
    \/ part = "drafting" /\ N!Next /\ UNCHANGED <<part, case, limits, accounts, cases, watching, verdicts>>

ApiSpec == ApiInit /\ [][ApiNext]_api

-----------------------------------------------------------------------------
(* Their properties, stated in the parts' modules.                         *)

\* CaseEvidence: what a brief depends on, and that it does not become current again.
ContentIsTracked == part = "case" => E!ContentIsTracked
SupersededForGood == E!SupersededForGood

\* ApiMeter and Drafting: quota and rate, what the roll-up counts, and the cap on spend.
LimitsHold ==
    /\ part = "meter" => K!LimitsHold /\ K!NoDayIsLost
    /\ part = "drafting" => N!DraftingHolds

\* Accounts: tokens, invites and profiles.
OnlyOnce == part = "accounts" => A!OnlyOnce

\* CaseDesk: the histories account for the case.
HistoryTellsCase == part = "desk" => D!HistoryTellsCase

\* Watching: what a live run rests on, and what snapshots say.
EvidenceIsWhole == part = "watching" => P!EvidenceIsWhole

\* Verdicts: unknown is not zero, past is past, and contradictions stay.
VerdictsHold == part = "verdicts" => J!VerdictsHold
ContradictionStays == J!ContradictionStays

\* What documents and comments say of them, and the code does not.
UsageIsExact == part = "meter" => K!UsageIsExact
ErasureSucceeds == part = "accounts" => A!ErasureSucceeds
=============================================================================
