------------------------------ MODULE Drafting ------------------------------
(***************************************************************************)
(* src/astra/core/llm.py and what calls it: requests that want a text of a *)
(* language model (core/assistant.py, core/profile.py, core/digest.py and  *)
(* their routes).  A completion walks a chain of lanes, each of which may  *)
(* fail, under a cap on the month's spend that is the sum of recorded      *)
(* calls.  What a request does without an answer depends on its feature.   *)
(* The daily quota of drafts is the limiter of module ApiMeter.            *)
(***************************************************************************)
EXTENDS Naturals, Sequences, FiniteSets

CONSTANTS Callers,
          Chains,       \* LLM_MODEL_CHAIN, or the default and the fallback model
          MAX_RETRIES,  \* LLM_CHAIN_RETRIES
          Caps,         \* LLM_MONTHLY_CAP_USD, 0 when it is not set
          Cost,         \* of one call, at the price of the default model
          MaxRounds,    \* attempts of extract_profile
          MaxAsks, MaxHiccups   \* bounds: requests, times the database does not answer

VARIABLES chain, cap,
          spent,        \* the cost of the month's rows of llm_usage
          feature, at,  \* of each request
          lane, attempt, round, refused,    \* the lane, attempt and round it is at; the lanes that failed in this round
          asks, blind, hiccups              \* requests so far; calls let through without the sum; database failures

drafting == <<chain, cap, spent, feature, at, lane, attempt, round, refused, asks, blind, hiccups>>
walk == <<lane, attempt, refused>>

\* The lanes in order, each one once, without empty names.
Firsts == {k \in DOMAIN chain : chain[k] # "" /\ \A j \in 1 .. (k - 1) : chain[j] # chain[k]}
Models == [n \in 1 .. Cardinality(Firsts) |->
             chain[CHOOSE k \in Firsts : Cardinality({j \in Firsts : j <= k}) = n]]

\* The last one of several lanes is not tried at all.
AttemptsButLast(k) == IF k = Len(Models) /\ Len(Models) > 1 THEN 0 ELSE 1 + MAX_RETRIES
\* The last one of several lanes is tried once, any other again after a failure.
Attempts(k) == IF k = Len(Models) /\ Len(Models) > 1 THEN 1 ELSE 1 + MAX_RETRIES

Init == /\ chain \in Chains /\ cap \in Caps
        /\ spent = 0 /\ asks = 0 /\ blind = 0 /\ hiccups = 0
        /\ feature = [c \in Callers |-> "none"] /\ at = [c \in Callers |-> "idle"]
        /\ lane = [c \in Callers |-> 1] /\ attempt = [c \in Callers |-> 1]
        /\ round = [c \in Callers |-> 1] /\ refused = [c \in Callers |-> {}]

\* The request ends and is forgotten: a text, the deterministic wording, a refusal or an error.
End(c) == /\ at' = [at EXCEPT ![c] = "idle"]
          /\ feature' = [feature EXCEPT ![c] = "none"]
          /\ round' = [round EXCEPT ![c] = 1]
Rest(c) == /\ lane' = [lane EXCEPT ![c] = 1]
           /\ attempt' = [attempt EXCEPT ![c] = 1]
           /\ refused' = [refused EXCEPT ![c] = {}]

-----------------------------------------------------------------------------
\* A request goes to the model, unless the feature is off, what it needs is missing,
\* there is nothing to word, or no key is set: then it never asks one.
Ask(c) ==
    /\ at[c] = "idle" /\ asks < MaxAsks
    /\ asks' = asks + 1
    /\ \E f \in {"cover_letter", "application_email", "cv_improvements", "build_profile", "digest"} :
         /\ feature' = [feature EXCEPT ![c] = f]
         /\ at' = [at EXCEPT ![c] = "complete"]
    /\ UNCHANGED <<chain, cap, spent, walk, round, blind, hiccups>>

\* complete: the cap is compared with the rows there are, with nothing when they cannot be read.
CheckCap(c) ==
    /\ at[c] = "complete"
    /\ \E read \in BOOLEAN :
         /\ read \/ (hiccups < MaxHiccups /\ cap > 0)
         /\ hiccups' = IF read THEN hiccups ELSE hiccups + 1
         /\ blind' = IF read THEN blind ELSE blind + 1
         /\ at' = [at EXCEPT ![c] = IF cap > 0 /\ read /\ spent >= cap THEN "capped"
                                    ELSE IF Models = <<>> THEN "failed" ELSE "call"]
    /\ UNCHANGED <<chain, cap, spent, feature, walk, round, asks>>

\* A lane answers; the row is written with the default model's name, whichever lane it was.
Answer(c) ==
    /\ at[c] = "call" /\ attempt[c] <= Attempts(lane[c])
    /\ at' = [at EXCEPT ![c] = "answered"]
    /\ Rest(c)
    /\ UNCHANGED <<chain, cap, spent, feature, round, asks, blind, hiccups>>

RecordUsage(c) ==
    /\ at[c] = "answered"
    /\ \/ spent' = spent + Cost /\ UNCHANGED hiccups
       \/ hiccups < MaxHiccups /\ hiccups' = hiccups + 1 /\ UNCHANGED spent
    /\ at' = [at EXCEPT ![c] = "text"]
    /\ UNCHANGED <<chain, cap, feature, walk, round, asks, blind>>

\* A lane fails: the same one again, then the next, then none.
Fails(c) ==
    /\ at[c] = "call" /\ attempt[c] <= Attempts(lane[c])
    /\ refused' = [refused EXCEPT ![c] = @ \cup {Models[lane[c]]}]
    /\ attempt' = [attempt EXCEPT ![c] = @ + 1]
    /\ UNCHANGED <<chain, cap, spent, feature, at, lane, round, asks, blind, hiccups>>
NextLane(c) ==
    /\ at[c] = "call" /\ attempt[c] > Attempts(lane[c])
    /\ IF lane[c] < Len(Models)
         THEN /\ lane' = [lane EXCEPT ![c] = @ + 1]
              /\ attempt' = [attempt EXCEPT ![c] = 1]
              /\ UNCHANGED at
         ELSE /\ at' = [at EXCEPT ![c] = "failed"]
              /\ UNCHANGED <<lane, attempt>>
    /\ UNCHANGED <<chain, cap, spent, feature, refused, round, asks, blind, hiccups>>

-----------------------------------------------------------------------------
\* A letter or an e-mail takes any text; the others want JSON of their own shape
\* and do with the deterministic wording, a profile after another round.
Useful(c) == at[c] = "text" /\ End(c) /\ UNCHANGED walk
Again(c) == /\ at[c] \in {"text", "failed", "capped"} /\ feature[c] = "build_profile" /\ round[c] < MaxRounds
            /\ round' = [round EXCEPT ![c] = @ + 1]
            /\ at' = [at EXCEPT ![c] = "complete"]
            /\ Rest(c) /\ UNCHANGED feature
Degrade(c) == /\ \/ at[c] = "text" /\ feature[c] \in {"cv_improvements", "digest", "build_profile"}
                 \/ at[c] \in {"failed", "capped"}
              /\ feature[c] = "build_profile" => round[c] = MaxRounds
              /\ End(c) /\ Rest(c)
Use(c) == (Useful(c) \/ Again(c) \/ Degrade(c)) /\ UNCHANGED <<chain, cap, spent, asks, blind, hiccups>>

\* monthly_spend_usd counts from the first of the month.
NewMonth == /\ spent > 0 /\ asks < MaxAsks
            /\ spent' = 0 /\ blind' = 0
            /\ UNCHANGED <<chain, cap, feature, at, walk, round, asks, hiccups>>

Next == (\E c \in Callers : Ask(c) \/ CheckCap(c) \/ Answer(c) \/ RecordUsage(c) \/ Fails(c) \/ NextLane(c) \/ Use(c)) \/ NewMonth
Spec == Init /\ [][Next]_drafting

-----------------------------------------------------------------------------
\* The month's cap is passed by no more than the calls that were under way at once,
\* and those let through while the rows could not be read (complete).
SpendIsCapped == cap > 0 => spent <= cap - 1 + Cost * (Cardinality(Callers) + blind)

\* No request gives a completion up before every lane of the chain failed it.
FailureIsUnanimous == \A c \in Callers : at[c] = "failed" => refused[c] = {Models[k] : k \in DOMAIN Models}

DraftingHolds == SpendIsCapped /\ FailureIsUnanimous
=============================================================================
