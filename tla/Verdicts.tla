------------------------------- MODULE Verdicts -------------------------------
(***************************************************************************)
(* The rules that judge a case, as facts about it come in: gates and       *)
(* dimensions and the disposition they suggest (domain/gates.py,           *)
(* dimensions.py, suggestions.py), the funding gap (funding.py),           *)
(* statements that conflict (evidence/authority_logic.py), and deadlines   *)
(* (deadlines.py).  The rules are pure; what is passed to one of them does *)
(* not concern another, so a behaviour is about one topic.  Time is        *)
(* counted in half hours, Day of them to a day.                            *)
(***************************************************************************)
EXTENDS Integers, FiniteSets

CONSTANTS Day, Soon,        \* half hours in a day; days before a deadline that are soon
          Authorities,      \* ranks, 1 for OFFICIAL_REGULATION
          Values, Amounts,  \* what statements say; amounts of money
          MaxNow, MaxFacts

VARIABLES topic,
          gates, dimensions, urgent, stale,  \* case
          money, extra,                      \* funding: amounts by name, unknown_cost_items
          statements,
          deadline, now, aware               \* its text; datetime.now, with a zone or without

vars == <<topic, gates, dimensions, urgent, stale, money, extra, statements, deadline, now, aware>>

None == -99  \* a number that is not known

-----------------------------------------------------------------------------
(* Gates, dimensions, suggestion.                                          *)

Gate == [hard : BOOLEAN, result : {"PASS", "FAIL", "UNKNOWN", "NOT_APPLICABLE", "STALE"}, evidence : BOOLEAN]

\* validate_gate.
Valid(g) == g.result \in {"PASS", "FAIL"} => g.evidence

Blockers(G) == {g \in G : g.hard /\ g.result = "FAIL"}
Unknowns(G) == {g \in G : g.result = "UNKNOWN"}
Actionable(G) == Blockers(G) = {}
FormallyOpen(G) == \A g \in G : g.hard => g.result \notin {"FAIL", "UNKNOWN"}

\* assess_dimension: a value, 0 to 3, takes evidence.
Assessed(d) == d.value # None => d.evidence
Dimension == [value : {0, 3, None}, evidence : BOOLEAN]

\* summarize_supervisor: unknown_dims.
UnknownDims(D) == {d \in D : d.value = None}

Suggest(G, D, u, s) ==
    IF Blockers(G) # {} THEN "REJECTED"
    ELSE IF Unknowns(G) # {} THEN "WATCH"
    ELSE IF u = "critical" THEN "ACT"
    ELSE IF u = "high" \/ s \/ UnknownDims(D) # {} THEN "WATCH" ELSE "UNDECIDED"

-----------------------------------------------------------------------------
(* Funding.                                                                *)

Income == {"award", "waiver"}
Costs == {"tuition", "living"}

\* The totals of what is known.
Known(a) == IF a = None THEN 0 ELSE a
TotalIn(f) == Known(f["award"]) + Known(f["waiver"])
TotalOut(f) == Known(f["tuition"]) + Known(f["living"])

\* Mutant: an amount nobody knows is nothing.
KnownGap(f, x) == TotalIn(f) - TotalOut(f)

\* compute_gap; of the kinds of income and of costs it has seven in all.
Complete(f, x) == ~x /\ \A i \in DOMAIN f : f[i] # None
Gap(f, x) == IF Complete(f, x) THEN TotalIn(f) - TotalOut(f) ELSE None

FullyFunded(f, x) == Gap(f, x) # None /\ Gap(f, x) >= 0

-----------------------------------------------------------------------------
(* Conflicts.                                                              *)

Statement == [value : Values, authority : 1 .. Authorities, date : {1, 2}]

Highest(S) == {s \in S : \A t \in S : s.authority <= t.authority}

TopValues(S) == {s.value : s \in Highest(S)}

\* resolve_conflict: the status; a winner has the value its equals agree on, the
\* other statements are overridden.
Contradicted(S) == Cardinality(TopValues(S)) > 1
Winner(S) == CHOOSE v \in TopValues(S) : TRUE

-----------------------------------------------------------------------------
(* Deadlines.                                                              *)

\* What a text says.  A date alone has no time and no zone; a zone is one that
\* zoneinfo knows, a numeric offset, or words.
Text == [date : 1 .. 2, clock : {3}, zone : {"none", "named", "offset", "words"}, shift : {-4, 0, 3, 4}]
        \union [date : 1 .. 2, clock : {None}, zone : {"none"}, shift : {0}]
        \union [date : {None}, clock : {None}, zone : {"none"}, shift : {0}]

Instant(t, s) == t.date * Day + t.clock - s

\* The minutes of an offset are dropped.
WholeHours(s) == IF s >= 0 THEN s - (s % 2) ELSE s + ((-s) % 2)

\* parse_deadline, where tz is assume_tz, the shift of a zone.
Parse(t, tz) ==
    CASE t.date = None -> [precision |-> "AMBIGUOUS"]
      [] t.date # None /\ t.clock = None ->
            IF tz = None THEN [precision |-> "DATE_ONLY", date |-> t.date] ELSE [precision |-> "AMBIGUOUS"]
      [] t.clock # None /\ t.zone = "none" ->
            IF tz = None THEN [precision |-> "AMBIGUOUS"] ELSE [precision |-> "LOCAL_TIME", at |-> Instant(t, tz)]
      [] t.clock # None /\ t.zone = "words" -> [precision |-> "AMBIGUOUS"]
      [] t.zone = "named" -> [precision |-> "LOCAL_TIME", at |-> Instant(t, t.shift)]
      [] t.zone = "offset" -> [precision |-> "OFFSET_AWARE", at |-> Instant(t, WholeHours(t.shift))]

Label(left, days) == IF left < 0 THEN "PASSED" ELSE IF days <= Soon THEN "DUE_SOON" ELSE "OPEN"

\* urgency.  The instant of an offset has no zone, that of a named zone has one;
\* subtracting a now of the other kind raises.
Urgency(d, n, tz) ==
    CASE d.precision = "DATE_ONLY" ->
            LET left == d.date - (n + (IF tz = None THEN 0 ELSE tz)) \div Day IN Label(left, left)
      [] d.precision = "AMBIGUOUS" -> "UNKNOWN_TIME"
      [] d.precision = "LOCAL_TIME" -> IF aware THEN Label(d.at - n, (d.at - n) \div Day) ELSE "TypeError"
      [] d.precision = "OFFSET_AWARE" -> IF aware THEN "TypeError" ELSE Label(d.at - n, (d.at - n) \div Day)

-----------------------------------------------------------------------------

Init ==
    /\ topic \in {"case", "funding", "conflict", "deadline"}
    /\ gates = {} /\ dimensions = {} /\ urgent = "none" /\ stale = FALSE
    /\ money = [i \in Income \union Costs |-> None] /\ extra \in BOOLEAN
    /\ statements = {}
    /\ deadline \in Text /\ now = 0 /\ aware \in BOOLEAN
    /\ topic # "deadline" => deadline.date = None /\ aware
    /\ topic # "funding" => ~extra

\* A gate is assessed, again if it was before.
Assess(g, h) ==
    /\ topic = "case" /\ Valid(h)
    /\ g \in gates \/ Cardinality(gates) < MaxFacts
    /\ gates' = (gates \ {g}) \union {h}
    /\ UNCHANGED <<topic, dimensions, urgent, stale, money, extra, statements, deadline, now, aware>>

AssessDimension(d) ==
    /\ topic = "case" /\ Assessed(d)
    /\ dimensions' = {d}
    /\ UNCHANGED <<topic, gates, urgent, stale, money, extra, statements, deadline, now, aware>>

\* The deadline comes closer, a critical fact ages or is checked again.
Ages(u, s) ==
    /\ topic = "case"
    /\ urgent' = u /\ stale' = s
    /\ UNCHANGED <<topic, gates, dimensions, money, extra, statements, deadline, now, aware>>

Learn(i, a) ==
    /\ topic = "funding"
    /\ money' = [money EXCEPT ![i] = a]
    /\ UNCHANGED <<topic, gates, dimensions, urgent, stale, extra, statements, deadline, now, aware>>

Itemise ==
    /\ topic = "funding" /\ extra
    /\ extra' = FALSE
    /\ UNCHANGED <<topic, gates, dimensions, urgent, stale, money, statements, deadline, now, aware>>

State(s) ==
    /\ topic = "conflict" /\ Cardinality(statements) < MaxFacts + 1
    /\ statements' = statements \union {s}
    /\ UNCHANGED <<topic, gates, dimensions, urgent, stale, money, extra, deadline, now, aware>>

Tick ==
    /\ topic = "deadline" /\ now < MaxNow
    /\ now' = now + 1
    /\ UNCHANGED <<topic, gates, dimensions, urgent, stale, money, extra, statements, deadline, aware>>

Next ==
    \/ \E g, h \in Gate : Assess(g, h)
    \/ \E d \in Dimension : AssessDimension(d)
    \/ \E u \in {"none", "high", "critical"}, s \in BOOLEAN : Ages(u, s)
    \/ \E i \in Income \union Costs, a \in Amounts : Learn(i, a)
    \/ Itemise
    \/ \E s \in Statement : State(s)
    \/ Tick

Spec == Init /\ [][Next]_vars

-----------------------------------------------------------------------------
(* Properties.                                                             *)

Answered(G, a) == {IF g \in DOMAIN a THEN [g EXCEPT !.result = a[g], !.evidence = TRUE] ELSE g : g \in G}

\* Unknown is not zero and not a pass: whatever the amounts nobody knows yet turn
\* out to be, what is called fully funded is; whatever the answer to the gates
\* that are open, a case to act on stays one that may be acted on.
VerdictsSurviveAnswers ==
    /\ FullyFunded(money, extra) =>
          \A f \in [Income \union Costs -> Amounts], x \in (IF extra THEN Amounts ELSE {0}) :
             (\A i \in DOMAIN f : money[i] # None => f[i] = money[i]) => TotalIn(f) >= TotalOut(f) + x
    /\ Suggest(gates, dimensions, urgent, stale) = "ACT" => 
          \A a \in [Unknowns(gates) -> {"PASS", "FAIL"}] :
             Actionable(Answered(gates, a)) /\ FormallyOpen(Answered(gates, a))

\* Where a zone is given, a deadline has passed exactly when its instant, or the
\* last half hour of its day there, is over: half hours of an offset excepted.
PassedIsPast ==
    \A tz \in {-4, 0, 4} :
        LET d == Parse(deadline, tz)  day == Parse(deadline, None)
        IN  /\ deadline.clock # None /\ (deadline.zone = "named" \/ (deadline.zone = "offset" /\ deadline.shift % 2 = 0))
                  /\ Urgency(d, now, tz) # "TypeError"
               => (Urgency(d, now, tz) = "PASSED" <=> now + deadline.shift > deadline.date * Day + deadline.clock)
            /\ day.precision = "DATE_ONLY"
               => (Urgency(day, now, tz) = "PASSED" <=> now + tz >= (deadline.date + 1) * Day)

VerdictsHold == VerdictsSurviveAnswers /\ PassedIsPast

\* ORACLE-016: a contradiction stays visible until someone of a higher authority
\* than every one before speaks.
ContradictionStays ==
    [][Contradicted(statements) =>
          \/ Contradicted(statements')
          \/ \E s \in statements' : \A t \in statements : s.authority < t.authority]_vars
=============================================================================
