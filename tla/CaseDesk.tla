------------------------------- MODULE CaseDesk -------------------------------
(***************************************************************************)
(* What the owner decides about a case: it is created, its disposition and *)
(* its application stage are set, each with a history of its own           *)
(* (api/routes/radar_cases.py, domain/disposition.py), while suggestions   *)
(* are saved beside them.  A request loads the case, and in a later step   *)
(* writes what it computed from what it loaded and commits.                *)
(***************************************************************************)
EXTENDS Naturals, Sequences

CONSTANTS Cases,        \* (route, target, application route), one row each
          Fields,       \* of "disposition" and "stage"
          Choices,      \* values of a field; 0 is the first: UNDECIDED, NOT_STARTED
          Requests,
          MaxHistory, MaxNotes

VARIABLES
    desk,       \* by case: FALSE, or its fields and its suggestion
    history,    \* by case and field: entries in the order of their commits
    notes,      \* by case: how many
    doing       \* by request: what it loaded

vars == <<desk, history, notes, doing>>

Absent == [exists |-> FALSE]
New == [exists |-> TRUE, value |-> [f \in Fields |-> 0], suggested |-> 0]
Idle == [op |-> "idle"]

Init ==
    /\ desk = [c \in Cases |-> Absent]
    /\ history = [c \in Cases |-> [f \in Fields |-> <<>>]]
    /\ notes = [c \in Cases |-> 0]
    /\ doing = [r \in Requests |-> Idle]

Exists(c) == desk[c].exists

-----------------------------------------------------------------------------

\* create_case: there is no such case yet.
CreateRead(r, c) ==
    /\ doing[r] = Idle /\ ~Exists(c)
    /\ doing' = [doing EXCEPT ![r] = [op |-> "create", case |-> c]]
    /\ UNCHANGED <<desk, history, notes>>

\* The constraint of the table holds a second one back.
CreateCommit(r) ==
    /\ doing[r].op = "create"
    /\ LET c == doing[r].case IN desk' = IF Exists(c) THEN desk ELSE [desk EXCEPT ![c] = New]
    /\ doing' = [doing EXCEPT ![r] = Idle]
    /\ UNCHANGED <<history, notes>>

\* set_disposition and post_stage load the case; the second SELECT of a
\* disposition returns the row that is loaded already.
Load(r, c, f, v) ==
    /\ doing[r] = Idle /\ Exists(c) /\ Len(history[c][f]) < MaxHistory
    /\ doing' = [doing EXCEPT ![r] = [op |-> "set", case |-> c, field |-> f, new |-> v,
                                      previous |-> desk[c].value[f], overtaken |-> FALSE]]
    /\ UNCHANGED <<desk, history, notes>>

\* Mutant: the value is assigned before it is recorded as the previous one.
AssignedEntry(w) == [previous |-> w.new, new |-> w.new, overtaken |-> w.overtaken]

Entry(w) == [previous |-> w.previous, new |-> w.new, overtaken |-> w.overtaken]

\* The ORM updates a column only if its value is not the one loaded.
Written(w) == IF w.new # w.previous THEN [desk EXCEPT ![w.case].value[w.field] = w.new] ELSE desk

\* Other requests that have loaded the field are overtaken (history).
Overtake(r, c, f) ==
    [q \in Requests |-> IF q = r THEN Idle
                        ELSE IF doing[q].op = "set" /\ doing[q].case = c /\ doing[q].field = f
                        THEN [doing[q] EXCEPT !.overtaken = TRUE] ELSE doing[q]]

Save(r) ==
    /\ doing[r].op = "set"
    /\ LET w == doing[r]
       IN  /\ desk' = Written(w)
           /\ history' = [history EXCEPT ![w.case][w.field] = Append(@, Entry(w))]
           /\ doing' = Overtake(r, w.case, w.field)
    /\ UNCHANGED notes

\* save_suggestion: another column of the same row.
SaveSuggestion(c, v) ==
    /\ Exists(c)
    /\ desk' = [desk EXCEPT ![c].suggested = v]
    /\ UNCHANGED <<history, notes, doing>>

Note(c) ==
    /\ Exists(c) /\ notes[c] < MaxNotes
    /\ notes' = [notes EXCEPT ![c] = @ + 1]
    /\ UNCHANGED <<desk, history, doing>>

Next ==
    \/ \E r \in Requests, c \in Cases : CreateRead(r, c)
    \/ \E r \in Requests : CreateCommit(r) \/ Save(r)
    \/ \E r \in Requests, c \in Cases, f \in Fields, v \in Choices : Load(r, c, f, v)
    \/ \E c \in Cases, v \in Choices : SaveSuggestion(c, v)
    \/ \E c \in Cases : Note(c)

Spec == Init /\ [][Next]_vars

-----------------------------------------------------------------------------

\* The history of a field accounts for its value: it starts at the first value,
\* every change starts where the one before led, and the last one led to the value
\* of today.  An entry is excused only if another request committed between what
\* it read and its own commit, and the one after it with it.  What automation
\* writes never shows in the disposition (ORACLE-002).
HistoryTellsCase ==
    \A c \in Cases : Exists(c) => \A f \in Fields :
        LET h == history[c][f]
            At(i) == IF i = 0 THEN 0 ELSE h[i].new
            Sound(i) == i = 0 \/ ~h[i].overtaken
        IN  /\ \A i \in DOMAIN h : Sound(i) /\ Sound(i - 1) => h[i].previous = At(i - 1)
            /\ Sound(Len(h)) => desk[c].value[f] = At(Len(h))
=============================================================================
