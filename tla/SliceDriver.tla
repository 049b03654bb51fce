----------------------------- MODULE SliceDriver -----------------------------
(***************************************************************************)
(* ops/haiku-runner/driver.py: a process that lets an executor work on the *)
(* slices of a manifest, judges what it left in the working tree, commits  *)
(* and pushes it, and follows the answer of CI.  Its state is a file of    *)
(* the same repository, so a stash takes the state along.  It may be       *)
(* killed between any two steps and is started again.                      *)
(* Work is a set of <<job, place>>: what a job wrote within its allowed    *)
(* paths ("in") or outside them ("out").  A job is <<slice, 0>> or the     *)
(* k-th fix of its CI, <<slice, k>>.                                       *)
(***************************************************************************)
EXTENDS Naturals, FiniteSets

CONSTANTS N,            \* slices 1 .. N, in the manifest's order
          Deps,         \* the slices each one depends on
          Ci,           \* the slices whose commit CI is asked about
          MAX_ATTEMPTS, MaxFixes,
          Writes,       \* bound: where an attempt may write, sets of places
          MaxCrashes    \* bound: times the driver is killed

None == <<0, 0>>
Slices == 1 .. N
Jobs == Slices \X (0 .. MaxFixes)

VARIABLES mem,          \* the process's state: status of each job, doing, pending CI, slices found red
          file, headFile,   \* state.json in the tree and in the last commit
          tree, stash, committed, made,     \* uncommitted, stashed and committed work; all within bounds
          sha, pushed,  \* commits so far, and how many of them the origin has
          pc, job, where, outer, attempts, pre, kind, excused, kills

driver == <<mem, file, headFile, tree, stash, committed, made, sha, pushed, pc, job, where, outer, attempts, pre, kind, excused, kills>>
git == <<headFile, committed, sha, pushed>>

NoCi == [sha |-> 0, slice |-> 0, tries |-> 0]
Fresh == [status |-> [j \in Jobs |-> "pending"], doing |-> None, pending |-> NoCi, red |-> {}]

Init == /\ mem = Fresh /\ file = Fresh /\ headFile = Fresh
        /\ tree = {} /\ stash = {} /\ committed = {} /\ made = {}
        /\ sha = 0 /\ pushed = 0
        /\ pc = "down" /\ job = None /\ where = "loop" /\ outer = None /\ attempts = 0 /\ pre = {} /\ kind = "none"
        /\ excused = {} /\ kills = 0

Goto(label) == pc' = label
Save(state) == mem' = state /\ file' = state

\* git stash push -u: the tree is clean again, and state.json as committed.
StashTree == /\ stash' = stash \cup tree
             /\ tree' = {}
             /\ file' = headFile

\* What a job may write, besides the paths that were dirty before it.
AllowedPaths(j) == {<<j, "in">>}

\* enforce_paths without the second argument: everything else goes back.
EnforcedBare(t) == t \cap AllowedPaths(job)
Enforced(t) == {p \in t : p \in pre \/ p \in AllowedPaths(job)}

-----------------------------------------------------------------------------
Start == /\ pc = "down"
         /\ mem' = file
         /\ where' = "loop"
         /\ Goto("ci")
         /\ UNCHANGED <<file, tree, stash, made, git, job, outer, attempts, pre, kind, excused, kills>>

\* The slices of the manifest, in order, that are pending and whose dependencies are done.
Pending == {s \in Slices : mem.status[<<s, 0>>] = "pending"}
Runnable == {s \in Pending : \A d \in Deps[s] : mem.status[<<d, 0>>] = "done"}
FirstOf(S) == CHOOSE s \in S : \A t \in S : s <= t

\* The next slice; the work another one left in the tree is stashed before.
Orphans(s) == tree # {} /\ mem.doing \notin {None, <<s, 0>>}
PickNext == /\ pc = "pick" /\ Runnable # {}
            /\ LET s == FirstOf(Runnable) IN
                 /\ job' = <<s, 0>>
                 /\ IF Orphans(s) THEN StashTree ELSE UNCHANGED <<tree, stash, file>>
            /\ Goto("begin")
            /\ UNCHANGED <<mem, made, git, where, outer, attempts, pre, kind, excused, kills>>
NothingRunnable == /\ pc = "pick" /\ Runnable = {}
                   /\ where' = "final"
                   /\ Goto("ci")
                   /\ UNCHANGED <<mem, file, tree, stash, made, git, job, outer, attempts, pre, kind, excused, kills>>

Begin == /\ pc = "begin"
         /\ Save([mem EXCEPT !.doing = job])
         /\ attempts' = 0
         /\ Goto("attempt")
         /\ UNCHANGED <<tree, stash, made, git, job, where, outer, pre, kind, excused, kills>>

\* What run_haiku says of a run; a usage limit is slept through, and the run repeated.
Outcomes == {"ok", "error", "BLOCKED"}

\* The executor runs, after any sleep a usage limit asks for, and leaves what it leaves.
RunHaiku == /\ pc = "attempt"
            /\ pre' = tree
            /\ attempts' = attempts + 1
            /\ \E k \in Outcomes, places \in Writes : LET wrote == {job} \X places IN
                 /\ kind' = k
                 /\ tree' = tree \cup wrote
                 /\ made' = made \cup (wrote \cap AllowedPaths(job))
                 /\ excused' = IF k = "error" /\ "out" \in places THEN excused \cup {job} ELSE excused
            /\ Goto("judge")
            /\ UNCHANGED <<mem, file, stash, git, job, where, outer, kills>>

\* Where do_slice returns to: the main loop for a slice, resolve_ci for a fix.
IsFix == job[2] > 0
Blocked == /\ StashTree
           /\ mem' = [mem EXCEPT !.status[job] = "blocked", !.doing = None]
           /\ Goto("failed")
           /\ kind' = "none" /\ pre' = {} /\ attempts' = 0
           /\ UNCHANGED <<made, git, job, where, outer, excused, kills>>
Again == IF attempts < MAX_ATTEMPTS
         THEN /\ Goto("attempt")
              /\ kind' = "none" /\ pre' = {}
              /\ UNCHANGED <<mem, file, tree, stash, made, git, job, where, outer, attempts, excused, kills>>
         ELSE Blocked

\* A blocker stashes at once; an error goes on to the next attempt before the paths are looked at.
JudgeBlocker == pc = "judge" /\ kind = "BLOCKED" /\ Blocked
JudgeError == pc = "judge" /\ kind = "error" /\ Again
EnforcePaths == /\ pc = "judge" /\ kind = "ok"
                /\ tree' = Enforced(tree)
                /\ kind' = IF tree' = tree THEN "clean" ELSE "bad"
                /\ Goto("gates")
                /\ UNCHANGED <<mem, file, stash, made, git, job, where, outer, attempts, pre, excused, kills>>
GatesFail == pc = "gates" /\ Again
GatesPass == /\ pc = "gates" /\ kind = "clean"
             /\ Save([mem EXCEPT !.status[job] = "done"])
             /\ Goto("commit")
             /\ kind' = "none" /\ pre' = {} /\ attempts' = 0
             /\ UNCHANGED <<tree, stash, made, git, job, where, outer, excused, kills>>

\* git add -A; git commit: all of the tree, with the state as it was saved.
CommitTree == /\ committed' = committed \cup tree
              /\ tree' = {}
              /\ headFile' = file
              /\ sha' = sha + 1
CommitPush == /\ pc = "commit"
              /\ \/ /\ CommitTree
                    /\ Goto("push")
                 \/ /\ Goto("unpushed")
                    /\ UNCHANGED <<tree, git>>
              /\ UNCHANGED <<pushed, mem, file, stash, made, job, where, outer, attempts, pre, kind, excused, kills>>
Push == /\ pc = "push"
        /\ \/ pushed' = sha /\ Goto("pushed")
           \/ pushed' = pushed /\ Goto("unpushed")
        /\ UNCHANGED <<mem, file, headFile, tree, stash, committed, made, sha, job, where, outer, attempts, pre, kind, excused, kills>>

\* A slice that is pushed and whose CI matters waits for the one asked about before it.
Settle == /\ pc = "pushed" /\ ~IsFix /\ job[1] \in Ci
          /\ mem' = [mem EXCEPT !.doing = None]
          /\ where' = "settle" /\ outer' = <<job[1], sha>> /\ job' = None
          /\ Goto("ci")
          /\ UNCHANGED <<file, tree, stash, made, git, attempts, pre, kind, excused, kills>>
Follow == /\ pc = "follow"
          /\ Save([mem EXCEPT !.pending = [slice |-> outer[1], sha |-> outer[2], tries |-> 0]])
          /\ where' = "loop" /\ outer' = None
          /\ Goto("ci")
          /\ UNCHANGED <<tree, stash, made, git, job, attempts, pre, kind, excused, kills>>
Finished == /\ pc \in {"pushed", "unpushed"}
            /\ ~(pc = "pushed" /\ ~IsFix /\ job[1] \in Ci)
            /\ Save([mem EXCEPT !.doing = None, !.pending.sha = IF IsFix THEN sha ELSE mem.pending.sha])
            /\ job' = None
            /\ Goto("ci")
            /\ UNCHANGED <<tree, stash, made, git, where, outer, attempts, pre, kind, excused, kills>>
Failed == /\ pc = "failed"
          /\ Save(IF IsFix THEN [mem EXCEPT !.red = @ \cup {mem.pending.slice}, !.pending = NoCi] ELSE mem)
          /\ job' = None
          /\ Goto("ci")
          /\ UNCHANGED <<tree, stash, made, git, where, outer, attempts, pre, kind, excused, kills>>

-----------------------------------------------------------------------------
(* resolve_ci, called from the main loop without waiting, by a slice that   *)
(* has been pushed and at the end.                                          *)
AfterCi == CASE where = "loop" -> "pick" [] where = "settle" -> "follow" [] where = "final" -> "finish"
Answered(state) == mem' = state /\ Goto(AfterCi) /\ UNCHANGED <<file, tree, stash, made, git, job, where, outer, attempts, pre, kind, excused, kills>>
CanAnswer == mem.pending.sha \in 1 .. pushed
GaveUpOn == [mem EXCEPT !.red = @ \cup {mem.pending.slice}, !.pending = NoCi]

NoPending == pc = "ci" /\ mem.pending = NoCi /\ Answered(mem)
StillRunning == /\ pc = "ci" /\ mem.pending # NoCi
                /\ Answered(IF where = "loop" THEN mem ELSE GaveUpOn)
Green == pc = "ci" /\ mem.pending # NoCi /\ CanAnswer /\ Answered([mem EXCEPT !.pending = NoCi])
RedForGood == /\ pc = "ci" /\ mem.pending # NoCi /\ CanAnswer
              /\ mem.pending.tries >= MaxFixes
              /\ Answered(GaveUpOn)
\* A fix is a job of its own, done on the tree as it is.
FixCi == /\ pc = "ci" /\ mem.pending # NoCi /\ CanAnswer
         /\ mem.pending.tries < MaxFixes
         /\ mem' = [mem EXCEPT !.pending.tries = @ + 1]
         /\ job' = <<mem.pending.slice, mem.pending.tries + 1>>
         /\ Goto("begin")
         /\ UNCHANGED <<file, tree, stash, made, git, where, outer, attempts, pre, kind, excused, kills>>

\* The last commit takes whatever is in the tree.
Finish == /\ pc = "finish"
          /\ file' = mem
          /\ committed' = committed \cup tree /\ tree' = {}
          /\ headFile' = mem /\ sha' = sha + 1
          /\ pushed' \in {pushed, sha + 1}
          /\ Goto("over")
          /\ UNCHANGED <<mem, stash, made, job, where, outer, attempts, pre, kind, excused, kills>>

Kill == /\ kills < MaxCrashes /\ pc \notin {"down", "over"}
        /\ kills' = kills + 1
        /\ excused' = IF pc = "judge" /\ <<job, "out">> \in tree THEN excused \cup {job} ELSE excused
        /\ mem' = file
        /\ job' = None /\ where' = "loop" /\ outer' = None /\ attempts' = 0 /\ pre' = {} /\ kind' = "none"
        /\ Goto("down")
        /\ UNCHANGED <<file, tree, stash, made, git>>

Next == \/ Start \/ PickNext \/ NothingRunnable \/ Begin \/ RunHaiku \/ JudgeBlocker \/ JudgeError \/ EnforcePaths
        \/ GatesFail \/ GatesPass \/ CommitPush \/ Push \/ Settle \/ Follow \/ Finished \/ Failed
        \/ NoPending \/ StillRunning \/ Green \/ RedForGood \/ FixCi \/ Finish \/ Kill

Spec == Init /\ [][Next]_driver

-----------------------------------------------------------------------------
(* Properties.                                                             *)

\* What an executor wrote within its bounds is in the tree, in a commit or in the
\* stash, however often the driver is killed (status_paths before each attempt).
NoWorkIsLost == made \subseteq tree \cup committed \cup stash

\* What was written outside the bounds is committed only where an attempt failed or
\* was cut off before its paths were looked at (driver.py:286-289).
BoundsHold == \A p \in committed : p[2] = "out" => p[1] \in excused

\* A slice is recorded as done only after those it depends on, in the process, in the
\* file and in the commit a stash returns to.
DepsFirst == \A state \in {mem, file, headFile}, s \in Slices :
                state.status[<<s, 0>>] = "done" => \A d \in Deps[s] : state.status[<<d, 0>>] = "done"

WorkIsKept == NoWorkIsLost /\ BoundsHold /\ DepsFirst

\* The docstring's "Restart is always safe": the work of a slice recorded as done is
\* not left in a stash.  False where the driver is killed before the commit.
DoneIsDelivered == \A s \in Slices :
    file.status[<<s, 0>>] = "done" /\ <<<<s, 0>>, "in">> \in made => <<<<s, 0>>, "in">> \in tree \cup committed
=============================================================================
