------------------------------ MODULE JobBoard ------------------------------
(***************************************************************************)
(* What the job queue promises, without threads, locks, tokens or retries: *)
(* a job is admitted once, while its class has room; while it is in it     *)
(* comes to an outcome; then it leaves, and the outcome stands unless a    *)
(* failed job is withdrawn to be run again under another id.  Until it     *)
(* leaves, a cancellation that was only noted may still be revised by what *)
(* the run itself reports.                                                 *)
(***************************************************************************)
EXTENDS Integers, FiniteSets

CONSTANTS Jobs, Classes, Room     \* Room[c]: how many jobs of class c may be in

VARIABLES place, class, outcome

boardVars == <<place, class, outcome>>

Final == {"completed", "cancelled", "failed"}

Inside(c) == {j \in Jobs : place[j] = "in" /\ class[j] = c}

BoardInit ==
    /\ place = [j \in Jobs |-> "new"]
    /\ class \in [Jobs -> Classes]
    /\ outcome = [j \in Jobs |-> "absent"]

Admit(j, c) ==
    /\ place[j] = "new"
    /\ Cardinality(Inside(c)) < Room[c]
    /\ place' = [place EXCEPT ![j] = "in"]
    /\ class' = [class EXCEPT ![j] = c]
    /\ outcome' = [outcome EXCEPT ![j] = "running"]

Conclude(j, o) ==
    /\ place[j] = "in"
    /\ outcome[j] \in {"running", "cancelled"}
    /\ outcome' = [outcome EXCEPT ![j] = o]
    /\ UNCHANGED <<place, class>>

Leave(j) ==
    /\ place[j] = "in"
    /\ outcome[j] # "running"
    /\ place' = [place EXCEPT ![j] = "out"]
    /\ UNCHANGED <<class, outcome>>

Withdraw(j) ==
    /\ outcome[j] = "failed"
    /\ outcome' = [outcome EXCEPT ![j] = "absent"]
    /\ UNCHANGED <<place, class>>

BoardNext ==
    \E j \in Jobs : \/ \E c \in Classes : Admit(j, c)
                    \/ \E o \in Final : Conclude(j, o)
                    \/ Leave(j)
                    \/ Withdraw(j)

BoardSpec == BoardInit /\ [][BoardNext]_boardVars

\* A job that is in comes to an outcome and leaves.
BoardFairness ==
    \A j \in Jobs : /\ WF_boardVars(outcome[j] = "running" /\ \E o \in Final : Conclude(j, o))
                    /\ WF_boardVars(Leave(j))

FairBoardSpec == BoardSpec /\ BoardFairness
=============================================================================
