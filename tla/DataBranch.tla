----------------------------- MODULE DataBranch -----------------------------
(***************************************************************************)
(* The data branch and the two GitHub Actions workflows that write it,     *)
(* "Collect Seoul realtime seed" and "Collect Airport Friction seed".      *)
(*                                                                         *)
(* A dispatched run waits in the concurrency group of its workflow: one    *)
(* run of a group is in progress, one more may be pending, and a newer one *)
(* replaces a pending one (cancel-in-progress is false, so never a run in  *)
(* progress).  A run checks the branch out, lets its collector work on     *)
(* this copy, commits the workflow's own paths, and pushes:                *)
(* push_data_branch.sh tries MaxAttempts times and rebases in between.     *)
(*                                                                         *)
(* The model's "remote" is the branch since the first run, a sequence of   *)
(* commits; a clone is a prefix of it with at most one commit on top.  A   *)
(* commit names its run, whether the collector got as far as its state     *)
(* file, and the run whose state file it started from: that of the latest  *)
(* finished commit of the same workflow in the clone.                      *)
(***************************************************************************)
EXTENDS Integers, Sequences, FiniteSets

CONSTANTS
    Workflow,     \* the workflows that write the branch
    AddsAll,      \* those whose git add names the directories all of them share
    MaxAttempts,  \* max_attempts of push_data_branch.sh
    MaxRuns       \* runs dispatched of each workflow   (bound)

ASSUME BranchAssumption ==
    AddsAll \subseteq Workflow /\ MaxAttempts \in Nat \ {0} /\ MaxRuns \in [Workflow -> Nat]

NoRun == 0
Run   == UNION {1..MaxRuns[w] : w \in Workflow}

VARIABLES
    remote,      \* origin/data
    dispatched,  \* runs dispatched so far, by workflow
    pending,     \* the pending run of a concurrency group, as <<workflow, run>>
    job,         \* the run in progress of a concurrency group
    outcome      \* history: how each run ended

vars == <<remote, dispatched, pending, job, outcome>>

Commit   == [workflow : Workflow, run : Run, read : Run \cup {NoRun}, finished : BOOLEAN]
\* A run ends replaced, with its push accepted, after its last attempt (overrun
\* when every attempt was rejected), or, aborted, in any other way.
Outcomes == {"none", "replaced", "pushed", "overrun", "gave_up", "aborted"}
Phases   == {"free", "checkout", "collect", "push", "rebase"}

\* Mutant: the shared group the workflows had before.
SharedGroup(w) == "public-data-time-axis-writer"

\* concurrency.group.
Group(w) == w

Groups == {Group(w) : w \in Workflow}

NoDispatch == <<"", NoRun>>
Job        == [phase : Phases, of : (Workflow \X Run) \cup {NoDispatch}, base : Nat,
               read : Run \cup {NoRun}, finished : BOOLEAN, commit : BOOLEAN,
               attempt : 0..MaxAttempts, start : Nat, failed : BOOLEAN]
NoJob      == [phase |-> "free", of |-> NoDispatch, base |-> 0, read |-> NoRun,
               finished |-> FALSE, commit |-> FALSE, attempt |-> 0, start |-> 0, failed |-> FALSE]

TypeOK ==
    /\ remote \in Seq(Commit)
    /\ dispatched \in [Workflow -> Run \cup {NoRun}]
    /\ pending \in [Groups -> (Workflow \X Run) \cup {NoDispatch}]
    /\ job \in [Groups -> Job]
    /\ outcome \in [Workflow -> [Run -> Outcomes]]

-----------------------------------------------------------------------------
Init ==
    /\ remote = <<>> /\ dispatched = [w \in Workflow |-> 0]
    /\ pending = [g \in Groups |-> NoDispatch] /\ job = [g \in Groups |-> NoJob]
    /\ outcome = [w \in Workflow |-> [r \in Run |-> "none"]]

Ended(d, how) == [outcome EXCEPT ![d[1]][d[2]] = how]

\* workflow_dispatch: the newest request of a group takes the pending place.
Dispatch(w) ==
    LET g == Group(w) IN
    /\ dispatched[w] < MaxRuns[w]
    /\ dispatched' = [dispatched EXCEPT ![w] = @ + 1]
    /\ pending' = [pending EXCEPT ![g] = <<w, dispatched[w] + 1>>]
    /\ outcome' = IF pending[g] = NoDispatch THEN outcome ELSE Ended(pending[g], "replaced")
    /\ UNCHANGED <<remote, job>>

Begin(g) ==
    /\ job[g].phase = "free" /\ pending[g] # NoDispatch
    /\ pending' = [pending EXCEPT ![g] = NoDispatch]
    /\ job' = [job EXCEPT ![g].phase = "checkout", ![g].of = pending[g]]
    /\ UNCHANGED <<remote, dispatched, outcome>>

\* The commit holds a new state file of w.
Renews(c, w) == c.workflow = w /\ c.finished

\* The run whose state file a clone of the first n commits of a branch holds.
LastRun(branch, w, n) ==
    LET own == {i \in 1..n : Renews(branch[i], w)}
    IN IF own = {} THEN NoRun
       ELSE branch[CHOOSE i \in own : \A j \in own : j <= i].run

\* actions/checkout with fetch-depth 0.
Checkout(g) ==
    /\ job[g].phase = "checkout"
    /\ job' = [job EXCEPT ![g].phase = "collect", ![g].base = Len(remote),
                          ![g].start = Len(remote),
                          ![g].read = LastRun(remote, job[g].of[1], Len(remote))]
    /\ UNCHANGED <<remote, dispatched, pending, outcome>>

Release(g, how) ==
    /\ job' = [job EXCEPT ![g] = NoJob]
    /\ outcome' = Ended(job[g].of, how)

\* The directory git add names holds a state file: the workflow's own, or, where
\* it adds the shared directories, that of any run.
HasState(g) ==
    \/ job[g].read # NoRun
    \/ job[g].of[1] \in AddsAll /\ \E i \in 1..job[g].base : remote[i].finished

\* The collector finished, or died on the way to its state file: what it wrote is
\* committed, and the push loop entered.  git add fails where it finds no state.
CollectAndCommit(g) ==
    /\ job[g].phase = "collect"
    /\ \E finished \in BOOLEAN :
          /\ finished \/ HasState(g)
          /\ job' = [job EXCEPT ![g].phase = "push", ![g].finished = finished,
                                ![g].commit = TRUE, ![g].attempt = 1]
    /\ UNCHANGED <<remote, dispatched, pending, outcome>>

\* It died before it wrote anything, or git add failed.
CollectNothing(g) ==
    /\ job[g].phase = "collect"
    /\ Release(g, "aborted")
    /\ UNCHANGED <<remote, dispatched, pending>>

-----------------------------------------------------------------------------
(* push_data_branch.sh.                                                     *)

CommitOf(g) == [workflow |-> job[g].of[1], run |-> job[g].of[2], read |-> job[g].read,
                finished |-> job[g].finished]

\* What the remote is after HEAD was pushed onto it.
PushedHead(g) == IF job[g].commit THEN Append(remote, CommitOf(g)) ELSE remote

\* The remote takes fast-forwards only.
FastForward(g) == job[g].base = Len(remote)

Push(g) ==
    /\ job[g].phase = "push" /\ FastForward(g)
    /\ remote' = PushedHead(g)
    /\ Release(g, "pushed")
    /\ UNCHANGED <<dispatched, pending>>

\* Mutants of PushFailed: no last attempt; exit 0 after it.
PushFailedAgain(g, lost) ==
    /\ job' = [job EXCEPT ![g].phase = "rebase", ![g].failed = @ \/ lost]
    /\ UNCHANGED outcome

PushFailedQuietly(g, lost) ==
    IF job[g].attempt = MaxAttempts THEN Release(g, "pushed") ELSE PushFailedAgain(g, lost)

\* The push failed, for another reason than an advanced branch if lost: the
\* last attempt ends the script, another one rebases.
PushFailed(g, lost) ==
    LET failed == job[g].failed \/ lost
    IN IF job[g].attempt = MaxAttempts
       THEN Release(g, IF failed THEN "gave_up" ELSE "overrun")
       ELSE /\ job' = [job EXCEPT ![g].phase = "rebase", ![g].failed = failed]
            /\ UNCHANGED outcome

PushRejected(g) ==
    /\ job[g].phase = "push" /\ ~FastForward(g)
    /\ PushFailed(g, FALSE)
    /\ UNCHANGED <<remote, dispatched, pending>>

\* The network fails, before or after the remote took the commit.
PushInterrupted(g) ==
    /\ job[g].phase = "push"
    /\ remote' \in {remote} \cup IF FastForward(g) THEN {PushedHead(g)} ELSE {}
    /\ PushFailed(g, TRUE)
    /\ UNCHANGED <<dispatched, pending>>

\* Mutants of Rebase: the commit is applied again though the branch holds it;
\* nothing is fetched; the attempt is not counted.
RebaseTo(g, base, attempt, commit) ==
    /\ job[g].phase = "rebase"
    /\ job' = [job EXCEPT ![g].phase = "push", ![g].base = base, ![g].attempt = attempt,
                          ![g].commit = commit]
    /\ UNCHANGED <<remote, dispatched, pending, outcome>>

RebaseKeepsCommit(g)  == RebaseTo(g, Len(remote), job[g].attempt + 1, TRUE)
RebaseWithoutFetch(g) == RebaseTo(g, job[g].base, job[g].attempt + 1, TRUE)
RebaseSameAttempt(g)  == RebaseTo(g, Len(remote), job[g].attempt, TRUE)

\* git fetch and git rebase: a commit the branch already holds is dropped.  The
\* workflows write different paths, so a rebase meets no conflict.
Rebase(g) ==
    /\ job[g].phase = "rebase"
    /\ job' = [job EXCEPT ![g].phase = "push", ![g].base = Len(remote),
                          ![g].attempt = @ + 1,
                          ![g].commit = @ /\ \A i \in 1..Len(remote) :
                             <<remote[i].workflow, remote[i].run>> # job[g].of]
    /\ UNCHANGED <<remote, dispatched, pending, outcome>>

\* set -e: a checkout, a fetch or a rebase that fails ends the job.
StepFails(g) ==
    /\ job[g].phase \in {"checkout", "rebase"}
    /\ Release(g, "aborted")
    /\ UNCHANGED <<remote, dispatched, pending>>

\* timeout-minutes: 10, or the runner is lost.  The clone is gone; a push that
\* was under way may have arrived.
Cancel(g) ==
    /\ job[g].phase # "free"
    /\ remote' \in {remote} \cup IF job[g].phase = "push" /\ FastForward(g) THEN {PushedHead(g)} ELSE {}
    /\ Release(g, "aborted")
    /\ UNCHANGED <<dispatched, pending>>

-----------------------------------------------------------------------------
JobStep(g) ==
    \/ Begin(g) \/ Checkout(g) \/ CollectAndCommit(g) \/ CollectNothing(g)
    \/ Push(g) \/ PushRejected(g) \/ PushInterrupted(g) \/ Rebase(g)
    \/ StepFails(g) \/ Cancel(g)

Next == (\E w \in Workflow : Dispatch(w)) \/ (\E g \in Groups : JobStep(g))

Spec == Init /\ [][Next]_vars

\* GitHub starts a pending run when its group is free, and a job ends at the
\* latest by its timeout.
FairSpec == Spec /\ \A g \in Groups : WF_vars(JobStep(g))

-----------------------------------------------------------------------------
(***************************************************************************)
(* Safety.                                                                 *)
(***************************************************************************)

\* No update is lost: along the branch, each commit of a workflow was computed
\* from the state file the branch held just before it, and runs appear in the
\* order they were dispatched, each once, whatever was rejected, interrupted
\* after it arrived, rebased or cancelled.
NoLostUpdate ==
    \A i \in 1..Len(remote) :
       /\ remote[i].read = LastRun(remote, remote[i].workflow, i - 1)
       /\ \A j \in 1..(i - 1) :
             remote[j].workflow = remote[i].workflow => remote[j].run < remote[i].run

\* A run whose push was accepted is on the branch; one that was replaced, or
\* whose attempts were all rejected, is not.
OutcomeHonest ==
    \A w \in Workflow, r \in Run :
       LET onBranch == \E i \in 1..Len(remote) : remote[i].workflow = w /\ remote[i].run = r
       IN /\ outcome[w][r] = "pushed" => onBranch
          /\ outcome[w][r] \in {"replaced", "overrun"} => ~onBranch

\* A push race alone costs a run its commit only after as many other commits
\* landed, since its checkout, as it made attempts.
GivesUpOnlyWhenOverrun ==
    [][\A g \in Groups :
          LET d == job[g].of
          IN job[g].phase = "push" /\ outcome'[d[1]][d[2]] = "overrun" =>
                Len(remote) - job[g].start >= MaxAttempts
      ]_vars

\* A run is replaced only by a newer dispatch of its own workflow, and only
\* while it is pending.
ReplacedByOwnOnly ==
    [][\A w \in Workflow, r \in Run :
          outcome[w][r] = "none" /\ outcome'[w][r] = "replaced" =>
             dispatched'[w] > r /\ dispatched' # dispatched /\ dispatched'[w] # dispatched[w]
      ]_vars

(***************************************************************************)
(* Liveness: dispatched runs do not stay pending or in progress.           *)
(***************************************************************************)
EveryDispatchSettles ==
    []<>(\A w \in Workflow : \A r \in 1..dispatched[w] : outcome[w][r] # "none")
=============================================================================
