-------------------------- MODULE DataBranchProofs --------------------------
(***************************************************************************)
(* The data branch is written right by any number of workflows, runs and   *)
(* push attempts.                                                          *)
(***************************************************************************)
EXTENDS DataBranch, TLAPS

LEMMA GroupsAreWorkflows == Groups = Workflow
  BY DEF Groups, Group

LEMMA RunFacts == \A r \in Run : r \in Nat /\ r > 0
  BY BranchAssumption DEF Run

LEMMA DispatchedRun == \A w \in Workflow : 1..MaxRuns[w] \subseteq Run
  BY BranchAssumption DEF Run

LEMMA NoRunIsNone == NoRun \notin Run
  BY RunFacts DEF NoRun

LEMMA NoDispatchIsNone == \A w \in Workflow, r \in Run : NoDispatch # <<w, r>>
  BY NoRunIsNone DEF NoDispatch

(***************************************************************************)
(* The inductive invariant.  What OutcomeHonest, NoLostUpdate and the      *)
(* count of attempts rest on: a workflow has one run in progress and one   *)
(* newer run pending, whose ends are still open; every run on the branch   *)
(* is older than both, but for the commit a job has pushed without         *)
(* hearing of it; and a clone agrees with its prefix of the branch.        *)
(***************************************************************************)
Running(g)  == job[g].phase # "free"
Own(g, i)   == remote[i].workflow = g /\ remote[i].run = job[g].of[2]
OnBranch(g) == \E i \in 1..Len(remote) : Own(g, i)

JobsNamed ==
    \A g \in Workflow :
       /\ ~Running(g) => job[g] = NoJob
       /\ Running(g) => /\ job[g].of \in Workflow \X Run /\ job[g].of[1] = g
                        /\ job[g].of[2] <= dispatched[g]

PendingIsNewer ==
    \A g \in Workflow : pending[g] # NoDispatch =>
       /\ pending[g] \in Workflow \X Run /\ pending[g][1] = g
       /\ pending[g][2] <= dispatched[g]
       /\ Running(g) => job[g].of[2] < pending[g][2]

Open(w, r) == r > dispatched[w] \/ pending[w] = <<w, r>> \/ (Running(w) /\ job[w].of[2] = r)

OutcomesOpen == \A w \in Workflow, r \in Run : Open(w, r) => outcome[w][r] = "none"

BranchIsOlder ==
    \A g \in Workflow : \A i \in 1..Len(remote) : remote[i].workflow = g =>
       /\ remote[i].run <= dispatched[g]
       /\ pending[g] # NoDispatch => remote[i].run < pending[g][2]
       /\ Running(g) => remote[i].run <= job[g].of[2]

\* What LastRun computes, as a relation.
IsLastRun(branch, w, n, r) ==
    \/ r = NoRun /\ \A i \in 1..n : ~Renews(branch[i], w)
    \/ \E i \in 1..n : /\ Renews(branch[i], w) /\ branch[i].run = r
                       /\ \A j \in (i + 1)..n : ~Renews(branch[j], w)

BranchHasLast == \A w \in Workflow : \E r \in Run \cup {NoRun} : IsLastRun(remote, w, Len(remote), r)

CommitsFollow ==
    \A i \in 1..Len(remote) :
       /\ IsLastRun(remote, remote[i].workflow, i - 1, remote[i].read)
       /\ \A j \in 1..(i - 1) :
             remote[j].workflow = remote[i].workflow => remote[j].run < remote[i].run

CloneAgrees(g) ==
    /\ job[g].base <= Len(remote) /\ job[g].start <= Len(remote)
    /\ job[g].phase \in {"checkout", "collect"} => ~OnBranch(g) /\ ~job[g].failed
    /\ job[g].phase \in {"collect", "push", "rebase"} /\ ~OnBranch(g) =>
          IsLastRun(remote, g, Len(remote), job[g].read)
    /\ job[g].phase \in {"push", "rebase"} =>
          /\ job[g].commit => \A i \in 1..job[g].base : ~Own(g, i)
          /\ ~job[g].commit => OnBranch(g)
          /\ ~job[g].failed => ~OnBranch(g)

AttemptCounted(g) ==
    /\ job[g].phase = "collect" => job[g].base >= job[g].start
    /\ job[g].phase = "push" => /\ job[g].attempt \in 1..MaxAttempts
                                /\ ~job[g].failed => job[g].base - job[g].start >= job[g].attempt - 1
    /\ job[g].phase = "rebase" => /\ job[g].attempt \in 1..(MaxAttempts - 1)
                                  /\ ~job[g].failed => Len(remote) - job[g].start >= job[g].attempt

ClonesAgree     == \A g \in Workflow : CloneAgrees(g)
AttemptsCounted == \A g \in Workflow : AttemptCounted(g)

IInv == /\ TypeOK /\ JobsNamed /\ PendingIsNewer /\ OutcomesOpen /\ BranchIsOlder
        /\ BranchHasLast /\ CommitsFollow /\ ClonesAgree /\ AttemptsCounted /\ OutcomeHonest

LEMMA LastRunIs ==
    ASSUME NEW s \in Seq(Commit), NEW w \in Workflow, NEW n \in 0..Len(s), NEW r, IsLastRun(s, w, n, r)
    PROVE  LastRun(s, w, n) = r
<1> DEFINE own == {i \in 1..n : Renews(s[i], w)}
<1>1. CASE r = NoRun /\ \A i \in 1..n : ~Renews(s[i], w)
  BY <1>1 DEF LastRun
<1>2. CASE \E i \in 1..n : /\ Renews(s[i], w) /\ s[i].run = r
                           /\ \A j \in (i + 1)..n : ~Renews(s[j], w)
  <2>1. PICK i \in 1..n : /\ Renews(s[i], w) /\ s[i].run = r
                          /\ \A j \in (i + 1)..n : ~Renews(s[j], w)
    BY <1>2
  <2>2. i \in own /\ \A j \in own : j <= i
    BY <2>1
  <2>3. \A k \in own : (\A j \in own : j <= k) => k = i
    BY <2>2
  <2>4. (CHOOSE k \in own : \A j \in own : j <= k) = i
    BY <2>2, <2>3
  <2>5. own # {}
    BY <2>2
  <2> HIDE DEF own
  <2>6. LastRun(s, w, n) = s[CHOOSE k \in own : \A j \in own : j <= k].run
    BY <2>5 DEF LastRun, own
  <2>7. QED
    BY <2>1, <2>4, <2>6
<1>3. QED
  BY <1>1, <1>2 DEF IsLastRun

\* The commit of g lands on the branch.
Lands(g) ==
    /\ job[g].phase = "push" /\ FastForward(g) /\ job[g].commit
    /\ remote' = Append(remote, CommitOf(g))

LEMMA LandsOrNot ==
    ASSUME NEW g \in Workflow, job[g].phase = "push",
           remote' \in {remote} \cup (IF FastForward(g) THEN {PushedHead(g)} ELSE {})
    PROVE  remote' = remote \/ Lands(g)
  BY DEF PushedHead, Lands

LEMMA LandsFacts ==
    ASSUME IInv, NEW g \in Workflow, Lands(g)
    PROVE  /\ CommitOf(g) \in Commit /\ remote' \in Seq(Commit)
           /\ Len(remote) \in Nat /\ Len(remote') = Len(remote) + 1
           /\ \A i \in 1..Len(remote) : remote'[i] = remote[i] /\ remote[i] \in Commit
           /\ remote'[Len(remote) + 1] = CommitOf(g)
           /\ CommitOf(g).workflow = g /\ CommitOf(g).run = job[g].of[2]
           /\ CommitOf(g).read = job[g].read
           /\ \A w : Renews(CommitOf(g), w) => w = g
           /\ ~OnBranch(g) /\ IsLastRun(remote, g, Len(remote), job[g].read)
<1>1. job[g].of \in Workflow \X Run /\ job[g].of[1] = g
  BY DEF IInv, JobsNamed, Running, Lands
<1>2. job[g].read \in Run \cup {NoRun} /\ job[g].finished \in BOOLEAN
  BY GroupsAreWorkflows DEF IInv, TypeOK, Job
<1>3. CommitOf(g) \in Commit /\ CommitOf(g).workflow = g /\ CommitOf(g).run = job[g].of[2]
      /\ CommitOf(g).read = job[g].read
  BY <1>1, <1>2 DEF CommitOf, Commit
<1>4. remote \in Seq(Commit)
  BY DEF IInv, TypeOK
<1>5. ~OnBranch(g)
  BY DEF IInv, ClonesAgree, CloneAgrees, Lands, FastForward, OnBranch
<1>6. IsLastRun(remote, g, Len(remote), job[g].read)
  BY <1>5 DEF IInv, ClonesAgree, CloneAgrees, Lands
<1> HIDE DEF IInv, TypeOK
<1>7. \A w : Renews(CommitOf(g), w) => w = g
  BY <1>3 DEF Renews
<1>8. QED
  BY <1>3, <1>4, <1>5, <1>6, <1>7 DEF Lands

\* Two branches that agree up to n have the same last runs up to n.
LEMMA SamePrefixSameLast ==
    ASSUME NEW s, NEW t, NEW n \in Nat, \A i \in 1..n : t[i] = s[i],
           NEW w, NEW m \in 0..n, NEW r, IsLastRun(s, w, m, r)
    PROVE  IsLastRun(t, w, m, r)
<1>1. m \in Nat /\ \A i \in 1..m : t[i] = s[i]
  OBVIOUS
<1>2. CASE r = NoRun /\ \A i \in 1..m : ~Renews(s[i], w)
  <2>1. \A i \in 1..m : ~Renews(t[i], w)
    BY <1>1, <1>2
  <2>2. QED
    BY <1>2, <2>1 DEF IsLastRun
<1>3. CASE \E i \in 1..m : /\ Renews(s[i], w) /\ s[i].run = r
                           /\ \A j \in (i + 1)..m : ~Renews(s[j], w)
  <2>1. PICK i \in 1..m : /\ Renews(s[i], w) /\ s[i].run = r
                          /\ \A j \in (i + 1)..m : ~Renews(s[j], w)
    BY <1>3
  <2>2. \A j \in (i + 1)..m : j \in 1..m
    OBVIOUS
  <2>3. Renews(t[i], w) /\ t[i].run = r /\ \A j \in (i + 1)..m : ~Renews(t[j], w)
    BY <1>1, <2>1, <2>2
  <2>4. QED
    BY <2>3 DEF IsLastRun
<1>4. QED
  BY <1>2, <1>3 DEF IsLastRun

LEMMA BranchAfterLanding ==
    ASSUME IInv, NEW g \in Workflow, Lands(g)
    PROVE  BranchHasLast' /\ CommitsFollow'
<1> DEFINE n == Len(remote)
           c == CommitOf(g)
<1>1. /\ c \in Commit /\ n \in Nat /\ Len(remote') = n + 1
      /\ \A i \in 1..n : remote'[i] = remote[i] /\ remote[i] \in Commit
      /\ remote'[n + 1] = c /\ c.workflow = g /\ c.run = job[g].of[2] /\ c.read = job[g].read
      /\ ~OnBranch(g) /\ IsLastRun(remote, g, n, job[g].read)
      /\ \A w : Renews(c, w) => w = g
  BY LandsFacts
<1>2. c.run \in Run
  BY <1>1 DEF Commit
<1>3. \A i \in 1..n : remote[i].workflow = g => remote[i].run < c.run
  <2>1. Running(g)
    BY DEF Lands, Running
  <2>2. SUFFICES ASSUME NEW i \in 1..n, remote[i].workflow = g PROVE remote[i].run < c.run
    OBVIOUS
  <2>3. remote[i].run <= c.run
    BY <1>1, <2>1, <2>2 DEF IInv, BranchIsOlder
  <2>4. remote[i].run # c.run
    BY <1>1, <2>2 DEF OnBranch, Own
  <2>5. remote[i].run \in Nat /\ c.run \in Nat
    BY <1>1, <1>2, RunFacts DEF Commit
  <2>6. QED
    BY <2>3, <2>4, <2>5
<1>5. ASSUME NEW w, NEW m \in 0..n, NEW r, IsLastRun(remote, w, m, r)
      PROVE  IsLastRun(remote', w, m, r)
  <2>1. \A i \in 1..n : remote'[i] = remote[i]
    BY <1>1
  <2>2. n \in Nat
    BY <1>1
  <2> HIDE DEF n
  <2>3. QED
    BY <1>5, <2>1, <2>2, SamePrefixSameLast
<1>6. BranchHasLast'
  <2> SUFFICES ASSUME NEW w \in Workflow
               PROVE  \E r \in Run \cup {NoRun} : IsLastRun(remote', w, n + 1, r)
    BY <1>1 DEF BranchHasLast
  <2>1. CASE Renews(c, w)
    <3>1. IsLastRun(remote', w, n + 1, c.run)
      BY <1>1, <2>1 DEF IsLastRun
    <3>2. QED
      BY <1>2, <3>1
  <2>2. CASE ~Renews(c, w)
    <3>1. PICK r \in Run \cup {NoRun} : IsLastRun(remote, w, n, r)
      BY DEF IInv, BranchHasLast
    <3>2. IsLastRun(remote', w, n + 1, r)
      BY <1>1, <2>2, <3>1, SMTT(30) DEF IsLastRun
    <3>3. QED
      BY <3>2
  <2>3. QED
    BY <2>1, <2>2
<1>7. CommitsFollow'
  <2> SUFFICES ASSUME NEW i \in 1..(n + 1)
               PROVE  /\ IsLastRun(remote', remote'[i].workflow, i - 1, remote'[i].read)
                      /\ \A j \in 1..(i - 1) :
                            remote'[j].workflow = remote'[i].workflow => remote'[j].run < remote'[i].run
    BY <1>1 DEF CommitsFollow
  <2>1. CASE i = n + 1
    <3>1. IsLastRun(remote, g, n, c.read)
      BY <1>1
    <3>2. IsLastRun(remote', g, n, c.read)
      BY <1>1, <1>5, <3>1
    <3>3. QED
      BY <1>1, <1>3, <2>1, <3>2
  <2>2. CASE i \in 1..n
    <3>1. /\ IsLastRun(remote, remote[i].workflow, i - 1, remote[i].read)
          /\ \A j \in 1..(i - 1) :
                remote[j].workflow = remote[i].workflow => remote[j].run < remote[i].run
      BY <2>2 DEF IInv, CommitsFollow
    <3>2. i - 1 \in 0..n /\ \A j \in 1..(i - 1) : j \in 1..n
      BY <1>1, <2>2
    <3>3. IsLastRun(remote', remote[i].workflow, i - 1, remote[i].read)
      BY <1>5, <3>1, <3>2
    <3>4. QED
      BY <1>1, <2>2, <3>1, <3>2, <3>3
  <2>3. QED
    BY <1>1, <2>1, <2>2
<1>8. QED
  BY <1>6, <1>7

(***************************************************************************)
(* Every action keeps the invariant.  A Dispatch and a Begin move a run    *)
(* along its group; the others move the job of a group on or release it,   *)
(* with or without its commit landing.                                     *)
(***************************************************************************)
LEMMA Types ==
    ASSUME IInv
    PROVE  /\ remote \in Seq(Commit) /\ Len(remote) \in Nat
           /\ \A i \in 1..Len(remote) : /\ remote[i] \in Commit /\ remote[i].workflow \in Workflow
                                        /\ remote[i].run \in Run /\ remote[i].run \in Nat
           /\ dispatched \in [Workflow -> Run \cup {NoRun}] /\ \A w \in Workflow : dispatched[w] \in Nat
           /\ pending \in [Workflow -> (Workflow \X Run) \cup {NoDispatch}]
           /\ job \in [Workflow -> Job]
           /\ outcome \in [Workflow -> [Run -> Outcomes]]
<1>1. /\ remote \in Seq(Commit) /\ dispatched \in [Workflow -> Run \cup {NoRun}]
  BY DEF IInv, TypeOK
<1>2. \A w \in Workflow : dispatched[w] \in Nat
  BY <1>1, RunFacts DEF NoRun
<1>3. \A i \in 1..Len(remote) : /\ remote[i] \in Commit /\ remote[i].workflow \in Workflow
                                /\ remote[i].run \in Run /\ remote[i].run \in Nat
  <2> SUFFICES ASSUME NEW i \in 1..Len(remote)
               PROVE  /\ remote[i] \in Commit /\ remote[i].workflow \in Workflow
                      /\ remote[i].run \in Run /\ remote[i].run \in Nat
    OBVIOUS
  <2>1. remote[i] \in Commit
    BY <1>1
  <2>2. remote[i].workflow \in Workflow /\ remote[i].run \in Run
    BY <2>1 DEF Commit
  <2>3. QED
    BY <2>1, <2>2, RunFacts
<1>4. /\ pending \in [Workflow -> (Workflow \X Run) \cup {NoDispatch}]
      /\ job \in [Workflow -> Job]
      /\ outcome \in [Workflow -> [Run -> Outcomes]]
  BY GroupsAreWorkflows DEF IInv, TypeOK
<1>5. QED
  BY <1>1, <1>2, <1>3, <1>4

\* What the invariant says that a step of the branch alone can disturb.
LEMMA BranchKept ==
    ASSUME IInv, remote' = remote
    PROVE  BranchHasLast' /\ CommitsFollow'
  BY DEF IInv, BranchHasLast, CommitsFollow

\* A step that leaves a job alone leaves its clone and its attempts as they were,
\* whatever lands.
LEMMA OthersAgree ==
    ASSUME IInv, NEW h \in Workflow, job'[h] = job[h],
           remote' = remote \/ (\E g \in Workflow : g # h /\ Lands(g))
    PROVE  CloneAgrees(h)' /\ AttemptCounted(h)'
<1>1. CloneAgrees(h) /\ AttemptCounted(h)
  BY DEF IInv, ClonesAgree, AttemptsCounted
<1>2. CASE remote' = remote
  BY <1>1, <1>2 DEF CloneAgrees, AttemptCounted, OnBranch, Own
<1>3. CASE \E g \in Workflow : g # h /\ Lands(g)
  <2> PICK g \in Workflow : g # h /\ Lands(g)
    BY <1>3
  <2>1. /\ Len(remote) \in Nat /\ Len(remote') = Len(remote) + 1
        /\ \A i \in 1..Len(remote) : remote'[i] = remote[i]
        /\ remote'[Len(remote) + 1].workflow # h
        /\ ~Renews(remote'[Len(remote) + 1], h)
    BY LandsFacts
  <2>2. \A i \in 1..(Len(remote) + 1) : Own(h, i)' <=> i # Len(remote) + 1 /\ Own(h, i)
    BY <2>1 DEF Own
  <2>3. OnBranch(h)' <=> OnBranch(h)
    BY <2>1, <2>2 DEF OnBranch
  <2>4. job[h].base \in Nat /\ job[h].start \in Nat /\ job[h].attempt \in Int
    BY Types DEF Job
  <2>5. IsLastRun(remote, h, Len(remote), job[h].read) =>
           IsLastRun(remote', h, Len(remote) + 1, job[h].read)
    BY <2>1 DEF IsLastRun
  <2>6. CloneAgrees(h)'
    BY <1>1, <2>1, <2>2, <2>3, <2>4, <2>5 DEF CloneAgrees
  <2>7. AttemptCounted(h)'
    BY <1>1, <2>1, <2>4 DEF AttemptCounted
  <2>8. QED
    BY <2>6, <2>7
<1>4. QED
  BY <1>2, <1>3

\* The commit that lands is that of a run in progress.
LEMMA OlderAfterLanding ==
    ASSUME IInv, NEW g \in Workflow, Running(g), remote' = remote \/ Lands(g),
           UNCHANGED <<dispatched, pending>>, \A h \in Workflow : h # g => job'[h] = job[h],
           job'[g].phase = "free" \/ job'[g].of = job[g].of
    PROVE  BranchIsOlder'
<1>1. /\ job[g].of[2] \in Nat /\ job[g].of[2] <= dispatched[g]
      /\ pending[g] # NoDispatch => job[g].of[2] < pending[g][2]
  BY RunFacts DEF IInv, JobsNamed, PendingIsNewer
<1> SUFFICES ASSUME NEW h \in Workflow, NEW i \in 1..Len(remote'), remote'[i].workflow = h
             PROVE  /\ remote'[i].run <= dispatched[h]
                    /\ pending[h] # NoDispatch => remote'[i].run < pending[h][2]
                    /\ Running(h)' => remote'[i].run <= job'[h].of[2]
  BY DEF BranchIsOlder
<1>2. Running(h)' => Running(h) /\ job'[h].of = job[h].of
  BY DEF Running
<1>3. CASE i \in 1..Len(remote) /\ remote'[i] = remote[i]
  BY <1>2, <1>3 DEF IInv, BranchIsOlder
<1>4. CASE Lands(g)
  <2>1. /\ Len(remote) \in Nat /\ Len(remote') = Len(remote) + 1
        /\ \A j \in 1..Len(remote) : remote'[j] = remote[j]
        /\ remote'[Len(remote) + 1].workflow = g /\ remote'[Len(remote) + 1].run = job[g].of[2]
    BY <1>4, LandsFacts
  <2>2. CASE i = Len(remote) + 1
    BY <1>1, <1>2, <2>1, <2>2
  <2>3. QED
    BY <1>3, <2>1, <2>2
<1>5. QED
  BY <1>3, <1>4

\* The outcomes that do not change stay true of the branch.
LEMMA HonestAfterLanding ==
    ASSUME IInv, NEW g \in Workflow, Running(g), remote' = remote \/ Lands(g),
           NEW w \in Workflow, NEW r \in Run, outcome'[w][r] = outcome[w][r],
           w # g \/ r # job[g].of[2] \/ outcome'[w][r] = "none"
    PROVE  LET onBranch == \E i \in 1..Len(remote') : remote'[i].workflow = w /\ remote'[i].run = r
           IN /\ outcome'[w][r] = "pushed" => onBranch
              /\ outcome'[w][r] \in {"replaced", "overrun"} => ~onBranch
<1>1. LET onBranch == \E i \in 1..Len(remote) : remote[i].workflow = w /\ remote[i].run = r
      IN /\ outcome[w][r] = "pushed" => onBranch
         /\ outcome[w][r] \in {"replaced", "overrun"} => ~onBranch
  BY DEF IInv, OutcomeHonest
<1>2. Lands(g) => /\ Len(remote) \in Nat /\ Len(remote') = Len(remote) + 1
                  /\ \A i \in 1..Len(remote) : remote'[i] = remote[i]
                  /\ remote'[Len(remote) + 1].workflow = g /\ remote'[Len(remote) + 1].run = job[g].of[2]
  BY LandsFacts
<1>3. QED
  BY <1>1, <1>2

LEMMA NoJobType == NoJob \in Job
  BY BranchAssumption DEF NoJob, Job, Phases

LEMMA InitInv == Init => IInv
<1> SUFFICES ASSUME Init PROVE IInv
  OBVIOUS
<1>1. TypeOK
  BY NoJobType DEF Init, TypeOK, NoRun, Outcomes
<1>2. \A g \in Workflow : job[g] = NoJob /\ pending[g] = NoDispatch
  BY GroupsAreWorkflows DEF Init
<1>3. Len(remote) = 0
  BY DEF Init
<1>4. JobsNamed /\ PendingIsNewer
  <2>1. NoJob.phase = "free"
    BY DEF NoJob
  <2>2. \A g \in Workflow : ~Running(g)
    BY <1>2, <2>1 DEF Running
  <2>3. QED
    BY <1>2, <2>2 DEF JobsNamed, PendingIsNewer
<1>5. \A w \in Workflow, r \in Run : outcome[w][r] = "none"
  BY DEF Init
<1>6. OutcomesOpen /\ OutcomeHonest
  BY <1>5 DEF OutcomesOpen, OutcomeHonest
<1>7. BranchIsOlder /\ CommitsFollow /\ BranchHasLast
  BY <1>3 DEF BranchIsOlder, CommitsFollow, BranchHasLast, IsLastRun
<1>8. ClonesAgree /\ AttemptsCounted
  BY <1>2, <1>3 DEF ClonesAgree, AttemptsCounted, CloneAgrees, AttemptCounted, NoJob
<1>9. QED
  BY <1>1, <1>4, <1>6, <1>7, <1>8 DEF IInv

LEMMA DispatchInv == ASSUME IInv, NEW w \in Workflow, Dispatch(w) PROVE IInv'
<1> DEFINE r == dispatched[w] + 1
<1>1. /\ r \in Run /\ dispatched' = [dispatched EXCEPT ![w] = r]
      /\ pending' = [pending EXCEPT ![w] = <<w, r>>]
      /\ outcome' = IF pending[w] = NoDispatch THEN outcome ELSE Ended(pending[w], "replaced")
      /\ remote' = remote /\ job' = job
  <2>1. r \in 1..MaxRuns[w]
    BY Types, BranchAssumption DEF Dispatch
  <2>2. QED
    BY <2>1, DispatchedRun DEF Dispatch, Group
<1>2. pending[w] # NoDispatch =>
         /\ pending[w] \in Workflow \X Run /\ pending[w][1] = w /\ pending[w][2] \in Run
         /\ pending[w][2] <= dispatched[w]
         /\ Running(w) => job[w].of[2] < pending[w][2]
  BY DEF IInv, PendingIsNewer
<1>3. outcome' \in [Workflow -> [Run -> Outcomes]]
  BY <1>1, <1>2, Types DEF Ended, Outcomes
<1>4. TypeOK'
  BY <1>1, <1>3, Types, GroupsAreWorkflows DEF TypeOK
<1>5. JobsNamed' /\ PendingIsNewer' /\ BranchIsOlder'
  <2>1. \A v \in Workflow : /\ dispatched[v] \in Nat /\ dispatched'[v] \in Nat
                            /\ dispatched[v] <= dispatched'[v]
    BY <1>1, Types
  <2>2. \A v \in Workflow : Running(v) => job[v].of[2] \in Nat
    BY RunFacts DEF IInv, JobsNamed
  <2>3. JobsNamed'
    BY <1>1, <2>1, <2>2 DEF IInv, JobsNamed, Running
  <2>4. PendingIsNewer'
    <3> SUFFICES ASSUME NEW v \in Workflow, pending'[v] # NoDispatch
                 PROVE  /\ pending'[v] \in Workflow \X Run /\ pending'[v][1] = v
                        /\ pending'[v][2] <= dispatched'[v]
                        /\ Running(v) => job[v].of[2] < pending'[v][2]
      BY <1>1 DEF PendingIsNewer, Running
    <3>1. CASE v = w
      <4>1. pending'[v] = <<w, r>> /\ dispatched'[v] = r
        BY <1>1, <3>1, Types
      <4>2. Running(v) => job[v].of[2] <= dispatched[w]
        BY <3>1 DEF IInv, JobsNamed
      <4>3. QED
        BY <1>1, <2>1, <2>2, <3>1, <4>1, <4>2
    <3>2. CASE v # w
      BY <1>1, <3>2, Types DEF IInv, PendingIsNewer
    <3>3. QED
      BY <3>1, <3>2
  <2>5. BranchIsOlder'
    BY <1>1, Types DEF IInv, BranchIsOlder, Running
  <2>6. QED
    BY <2>3, <2>4, <2>5
<1>6. \A v \in Workflow, q \in Run :
         outcome'[v][q] = IF pending[w] # NoDispatch /\ v = w /\ q = pending[w][2]
                          THEN "replaced" ELSE outcome[v][q]
  BY <1>1, <1>2, Types DEF Ended
<1>7. OutcomesOpen'
  <2> SUFFICES ASSUME NEW v \in Workflow, NEW q \in Run, Open(v, q)' PROVE outcome'[v][q] = "none"
    BY DEF OutcomesOpen
  <2>1. q \in Nat
    BY RunFacts
  <2>2. Open(v, q)
    BY <1>1, <2>1, Types DEF Open, Running
  <2>3. ~(pending[w] # NoDispatch /\ v = w /\ q = pending[w][2])
    BY <1>1, <1>2, <2>1, Types DEF Open, Running, IInv, JobsNamed
  <2>4. QED
    BY <1>6, <2>2, <2>3 DEF IInv, OutcomesOpen
<1>8. OutcomeHonest'
  BY <1>1, <1>2, <1>6, Types, SMTT(30) DEF IInv, OutcomeHonest, BranchIsOlder
<1>9. ClonesAgree' /\ AttemptsCounted'
  BY <1>1 DEF IInv, ClonesAgree, AttemptsCounted, CloneAgrees, AttemptCounted, OnBranch, Own
<1>10. QED
  BY <1>1, <1>4, <1>5, <1>7, <1>8, <1>9, BranchKept DEF IInv

\* A job stays one, field by field.
LEMMA JobFields ==
    /\ \A j \in Job, x \in Phases : [j EXCEPT !.phase = x] \in Job
    /\ \A j \in Job, x \in Workflow \X Run : [j EXCEPT !.of = x] \in Job
    /\ \A j \in Job, x \in Nat : [j EXCEPT !.base = x] \in Job /\ [j EXCEPT !.start = x] \in Job
    /\ \A j \in Job, x \in Run \cup {NoRun} : [j EXCEPT !.read = x] \in Job
    /\ \A j \in Job, x \in BOOLEAN : /\ [j EXCEPT !.commit = x] \in Job /\ [j EXCEPT !.failed = x] \in Job
                                     /\ [j EXCEPT !.finished = x] \in Job
    /\ \A j \in Job, x \in 0..MaxAttempts : [j EXCEPT !.attempt = x] \in Job
  BY DEF Job

LEMMA BeganType ==
    ASSUME NEW j \in Job, NEW d \in Workflow \X Run
    PROVE  [j EXCEPT !.phase = "checkout", !.of = d] \in Job
<1> DEFINE a == [j EXCEPT !.phase = "checkout"]
<1>1. a \in Job
  BY JobFields DEF Phases
<1>2. [a EXCEPT !.of = d] \in Job
  <2> HIDE DEF a
  <2>1. QED
    BY <1>1, JobFields
<1>3. QED
  BY <1>2

LEMMA CheckedOutType ==
    ASSUME NEW j \in Job, NEW n \in Nat, NEW r \in Run \cup {NoRun}
    PROVE  [j EXCEPT !.phase = "collect", !.base = n, !.start = n, !.read = r] \in Job
<1> DEFINE a == [j EXCEPT !.phase = "collect"]
           b == [a EXCEPT !.base = n]
           c == [b EXCEPT !.start = n]
<1>1. a \in Job
  BY JobFields DEF Phases
<1>2. b \in Job
  <2> HIDE DEF a
  <2>1. QED
    BY <1>1, JobFields
<1>3. c \in Job
  <2> HIDE DEF b
  <2>1. QED
    BY <1>2, JobFields
<1>4. [c EXCEPT !.read = r] \in Job
  <2> HIDE DEF c
  <2>1. QED
    BY <1>3, JobFields
<1>5. QED
  BY <1>4

LEMMA CommittedType ==
    ASSUME NEW j \in Job, NEW x \in BOOLEAN
    PROVE  [j EXCEPT !.phase = "push", !.finished = x, !.commit = TRUE, !.attempt = 1] \in Job
<1> DEFINE a == [j EXCEPT !.phase = "push"]
           b == [a EXCEPT !.finished = x]
           c == [b EXCEPT !.commit = TRUE]
<1>1. a \in Job
  BY JobFields DEF Phases
<1>2. b \in Job
  <2> HIDE DEF a
  <2>1. QED
    BY <1>1, JobFields
<1>3. c \in Job
  <2> HIDE DEF b
  <2>1. QED
    BY <1>2, JobFields
<1>4. [c EXCEPT !.attempt = 1] \in Job
  <2>1. 1 \in 0..MaxAttempts
    BY BranchAssumption
  <2> HIDE DEF c
  <2>2. QED
    BY <1>3, <2>1, JobFields
<1>5. QED
  BY <1>4

LEMMA RebasedType ==
    ASSUME NEW j \in Job, NEW n \in Nat, NEW k \in 0..MaxAttempts, NEW x \in BOOLEAN
    PROVE  [j EXCEPT !.phase = "push", !.base = n, !.attempt = k, !.commit = x] \in Job
<1> DEFINE a == [j EXCEPT !.phase = "push"]
           b == [a EXCEPT !.base = n]
           c == [b EXCEPT !.attempt = k]
<1>1. a \in Job
  BY JobFields DEF Phases
<1>2. b \in Job
  <2> HIDE DEF a
  <2>1. QED
    BY <1>1, JobFields
<1>3. c \in Job
  <2> HIDE DEF b
  <2>1. QED
    BY <1>2, JobFields
<1>4. [c EXCEPT !.commit = x] \in Job
  <2> HIDE DEF c
  <2>1. QED
    BY <1>3, JobFields
<1>5. QED
  BY <1>4

LEMMA FailedType ==
    ASSUME NEW j \in Job, NEW x \in BOOLEAN
    PROVE  [j EXCEPT !.phase = "rebase", !.failed = x] \in Job
<1> DEFINE a == [j EXCEPT !.phase = "rebase"]
<1>1. a \in Job
  BY JobFields DEF Phases
<1>2. [a EXCEPT !.failed = x] \in Job
  <2> HIDE DEF a
  <2>1. QED
    BY <1>1, JobFields
<1>3. QED
  BY <1>2

LEMMA BeginInv == ASSUME IInv, NEW g \in Workflow, Begin(g) PROVE IInv'
<1> DEFINE J == [job[g] EXCEPT !.phase = "checkout", !.of = pending[g]]
<1>1. /\ ~Running(g) /\ pending[g] # NoDispatch
      /\ pending' = [pending EXCEPT ![g] = NoDispatch] /\ job' = [job EXCEPT ![g] = J]
      /\ remote' = remote /\ dispatched' = dispatched /\ outcome' = outcome
  BY DEF Begin, Running
<1>2. /\ pending[g] \in Workflow \X Run /\ pending[g][1] = g /\ pending[g][2] \in Run
      /\ pending[g][2] <= dispatched[g]
  BY <1>1 DEF IInv, PendingIsNewer
<1>3. /\ J.phase = "checkout" /\ J.of = pending[g] /\ J.base = 0 /\ J.read = NoRun
      /\ J.commit = FALSE /\ J.attempt = 0 /\ J.start = 0 /\ J.failed = FALSE
  <2>1. job[g] = NoJob
    BY <1>1 DEF IInv, JobsNamed
  <2>2. /\ J.phase = "checkout" /\ J.of = pending[g] /\ J.base = NoJob.base
        /\ J.read = NoJob.read /\ J.commit = NoJob.commit /\ J.attempt = NoJob.attempt
        /\ J.start = NoJob.start /\ J.failed = NoJob.failed
    BY <2>1, Types DEF Job
  <2>3. QED
    BY <2>2 DEF NoJob
<1>4. J \in Job
  <2>1. job[g] \in Job
    BY Types
  <2>2. QED
    BY <1>2, <2>1, BeganType
<1>5. /\ job'[g] = J /\ pending'[g] = NoDispatch
      /\ \A h \in Workflow : h # g => job'[h] = job[h] /\ pending'[h] = pending[h]
  BY <1>1, Types
<1> HIDE DEF J
<1>6. TypeOK'
  BY <1>1, <1>4, Types, GroupsAreWorkflows DEF TypeOK
<1>7. JobsNamed' /\ PendingIsNewer'
  BY <1>1, <1>2, <1>3, <1>5 DEF IInv, JobsNamed, PendingIsNewer, Running
<1>8. OutcomesOpen'
  <2> SUFFICES ASSUME NEW v \in Workflow, NEW q \in Run, Open(v, q)' PROVE outcome[v][q] = "none"
    BY <1>1 DEF OutcomesOpen
  <2>1. Open(v, q)
    <3>1. CASE v = g
      <4>1. q > dispatched[g] \/ q = pending[g][2]
        BY <1>1, <1>3, <1>5, <3>1, NoDispatchIsNone DEF Open
      <4>2. pending[g] = <<g, pending[g][2]>>
        BY <1>2
      <4>3. QED
        BY <3>1, <4>1, <4>2 DEF Open
    <3>2. CASE v # g
      BY <1>1, <1>5, <3>2 DEF Open, Running
    <3>3. QED
      BY <3>1, <3>2
  <2>2. QED
    BY <2>1 DEF IInv, OutcomesOpen
<1>9. BranchIsOlder'
  BY <1>1, <1>2, <1>3, <1>5, RunFacts, Types DEF IInv, BranchIsOlder, Running
<1>10. ClonesAgree'
  <2> SUFFICES ASSUME NEW h \in Workflow PROVE CloneAgrees(h)'
    BY DEF ClonesAgree
  <2>1. CASE h = g
    <3>1. ~OnBranch(h)'
      BY <1>1, <1>2, <1>3, <1>5, <2>1, Types DEF IInv, BranchIsOlder, OnBranch, Own
    <3>2. QED
      BY <1>1, <1>3, <1>5, <2>1, <3>1, Types DEF CloneAgrees
  <2>2. CASE h # g
    BY <1>1, <1>5, <2>2, OthersAgree DEF IInv, ClonesAgree
  <2>3. QED
    BY <2>1, <2>2
<1>11. AttemptsCounted'
  BY <1>1, <1>3, <1>5 DEF IInv, AttemptsCounted, AttemptCounted
<1>12. OutcomeHonest'
  BY <1>1 DEF IInv, OutcomeHonest
<1>13. QED
  BY <1>1, <1>6, <1>7, <1>8, <1>9, <1>10, <1>11, <1>12, BranchKept DEF IInv

\* A running job goes on.
LEMMA MoveInv ==
    ASSUME IInv, NEW g \in Workflow, Running(g), remote' = remote \/ Lands(g),
           UNCHANGED <<dispatched, pending, outcome>>, job' \in [Workflow -> Job],
           \A h \in Workflow : h # g => job'[h] = job[h],
           job'[g].phase # "free", job'[g].of = job[g].of, CloneAgrees(g)', AttemptCounted(g)'
    PROVE  IInv'
<1>1. remote' \in Seq(Commit)
  BY Types, LandsFacts
<1>2. TypeOK'
  BY <1>1, Types, GroupsAreWorkflows DEF TypeOK
<1>3. JobsNamed' /\ PendingIsNewer' /\ OutcomesOpen'
  BY DEF IInv, JobsNamed, PendingIsNewer, OutcomesOpen, Open, Running
<1>4. BranchIsOlder'
  BY OlderAfterLanding
<1>5. BranchHasLast' /\ CommitsFollow'
  BY BranchKept, BranchAfterLanding
<1>6. ClonesAgree' /\ AttemptsCounted'
  <2>1. \A h \in Workflow : h # g => CloneAgrees(h)' /\ AttemptCounted(h)'
    BY OthersAgree
  <2>2. QED
    BY <2>1 DEF ClonesAgree, AttemptsCounted
<1>7. OutcomeHonest'
  <2> SUFFICES ASSUME NEW w \in Workflow, NEW r \in Run
               PROVE  LET onBranch == \E i \in 1..Len(remote') : remote'[i].workflow = w /\ remote'[i].run = r
                      IN /\ outcome'[w][r] = "pushed" => onBranch
                         /\ outcome'[w][r] \in {"replaced", "overrun"} => ~onBranch
    BY DEF OutcomeHonest
  <2>1. w # g \/ r # job[g].of[2] \/ outcome'[w][r] = "none"
    BY DEF IInv, OutcomesOpen, Open
  <2>2. QED
    BY <2>1, HonestAfterLanding
<1>8. QED
  BY <1>2, <1>3, <1>4, <1>5, <1>6, <1>7 DEF IInv

\* A running job ends.
LEMMA ReleaseInv ==
    ASSUME IInv, NEW g \in Workflow, Running(g), remote' = remote \/ Lands(g),
           UNCHANGED <<dispatched, pending>>, NEW how \in Outcomes, Release(g, how),
           how = "pushed" => OnBranch(g) \/ Lands(g),
           how \in {"replaced", "overrun"} => ~OnBranch(g) /\ remote' = remote
    PROVE  IInv'
<1> DEFINE r == job[g].of[2]
<1>1. job[g].of[1] = g /\ r \in Run
  BY DEF IInv, JobsNamed
<1>2. /\ job' \in [Workflow -> Job] /\ job'[g] = NoJob
      /\ \A h \in Workflow : h # g => job'[h] = job[h]
  <2>1. NoJob \in Job
    BY NoJobType
  <2>2. QED
    BY <2>1, Types DEF Release
<1>3. /\ outcome' \in [Workflow -> [Run -> Outcomes]]
      /\ \A w \in Workflow, q \in Run :
            outcome'[w][q] = IF w = g /\ q = r THEN how ELSE outcome[w][q]
  BY <1>1, Types DEF Release, Ended
<1>4. TypeOK'
  <2>1. remote' \in Seq(Commit)
    BY Types, LandsFacts
  <2>2. QED
    BY <1>2, <1>3, <2>1, Types, GroupsAreWorkflows DEF TypeOK
<1>5. NoJob.phase = "free" /\ ~Running(g)'
  BY <1>2 DEF Running, NoJob
<1>6. JobsNamed' /\ PendingIsNewer'
  BY <1>2, <1>5 DEF IInv, JobsNamed, PendingIsNewer, Running
<1>7. OutcomesOpen'
  <2> SUFFICES ASSUME NEW w \in Workflow, NEW q \in Run, Open(w, q)' PROVE outcome'[w][q] = "none"
    BY DEF OutcomesOpen
  <2>1. Open(w, q)
    BY <1>2, <1>5 DEF Open, Running
  <2>2. ~(w = g /\ q = r)
    <3> SUFFICES ASSUME w = g, q = r PROVE FALSE
      OBVIOUS
    <3>1. r \in Nat /\ r <= dispatched[g] /\ dispatched[g] \in Nat
      BY <1>1, RunFacts, Types DEF IInv, JobsNamed
    <3>2. pending[g] # NoDispatch => r < pending[g][2] /\ pending[g][2] \in Nat
      BY RunFacts DEF IInv, PendingIsNewer
    <3>3. pending[g] = <<g, r>>
      BY <1>5, <3>1 DEF Open
    <3>4. QED
      BY <1>1, <3>1, <3>2, <3>3, NoDispatchIsNone
  <2>3. QED
    BY <1>3, <2>1, <2>2 DEF IInv, OutcomesOpen
<1>8. BranchIsOlder'
  BY <1>2, <1>5, OlderAfterLanding
<1>9. BranchHasLast' /\ CommitsFollow'
  BY BranchKept, BranchAfterLanding
<1>10. ClonesAgree' /\ AttemptsCounted'
  <2>1. \A h \in Workflow : h # g => CloneAgrees(h)' /\ AttemptCounted(h)'
    BY <1>2, OthersAgree
  <2>2. CloneAgrees(g)' /\ AttemptCounted(g)'
    <3>1. Len(remote') \in Nat
      BY Types, LandsFacts
    <3>2. QED
      BY <1>2, <3>1 DEF CloneAgrees, AttemptCounted, NoJob
  <2>3. QED
    BY <2>1, <2>2 DEF ClonesAgree, AttemptsCounted
<1>11. OutcomeHonest'
  <2>1. \A w \in Workflow, q \in Run : w # g \/ q # r => outcome'[w][q] = outcome[w][q]
    BY <1>3
  <2>2. /\ outcome'[g][r] = "pushed" => \E i \in 1..Len(remote') : remote'[i].workflow = g /\ remote'[i].run = r
        /\ outcome'[g][r] \in {"replaced", "overrun"} =>
              ~\E i \in 1..Len(remote') : remote'[i].workflow = g /\ remote'[i].run = r
    <3>1. Lands(g) => \E i \in 1..Len(remote') : remote'[i].workflow = g /\ remote'[i].run = r
      BY LandsFacts
    <3>2. OnBranch(g) => \E i \in 1..Len(remote') : remote'[i].workflow = g /\ remote'[i].run = r
      BY LandsFacts DEF OnBranch, Own
    <3>3. QED
      BY <1>1, <1>3, <3>1, <3>2 DEF OnBranch, Own
  <2>3. QED
    BY <2>1, <2>2, HonestAfterLanding DEF OutcomeHonest
<1>12. QED
  BY <1>4, <1>6, <1>7, <1>8, <1>9, <1>10, <1>11 DEF IInv

LEMMA CheckoutInv == ASSUME IInv, NEW g \in Workflow, Checkout(g) PROVE IInv'
<1> DEFINE n == Len(remote)
           J == [job[g] EXCEPT !.phase = "collect", !.base = n, !.start = n,
                               !.read = LastRun(remote, job[g].of[1], n)]
<1>1. /\ job[g] \in Job /\ job[g].phase = "checkout" /\ job[g].of[1] = g /\ n \in Nat
      /\ job[g].of \in Workflow \X Run
  BY Types DEF Checkout, IInv, JobsNamed, Running
<1>2. PICK r \in Run \cup {NoRun} : IsLastRun(remote, g, n, r)
  BY DEF IInv, BranchHasLast
<1>3. LastRun(remote, job[g].of[1], n) = r
  BY <1>1, <1>2, LastRunIs, Types
<1>4. job' = [job EXCEPT ![g] = J]
  BY DEF Checkout
<1>5. /\ J.phase = "collect" /\ J.base = n /\ J.start = n /\ J.read = r /\ J.of = job[g].of
      /\ J.failed = job[g].failed /\ J.attempt = job[g].attempt /\ J.commit = job[g].commit
  BY <1>1, <1>3 DEF Job
<1>6. J \in Job
  BY <1>1, <1>3, CheckedOutType
<1> HIDE DEF J
<1>7. /\ job' \in [Workflow -> Job] /\ job'[g] = J
      /\ \A h \in Workflow : h # g => job'[h] = job[h]
  BY <1>4, <1>6, Types
<1>8. ~OnBranch(g) /\ ~job[g].failed
  BY <1>1 DEF IInv, ClonesAgree, CloneAgrees
<1>9. remote' = remote /\ UNCHANGED <<dispatched, pending, outcome>>
  BY DEF Checkout
<1>10. CloneAgrees(g)' /\ AttemptCounted(g)'
  <2>1. ~OnBranch(g)'
    BY <1>5, <1>7, <1>8, <1>9 DEF OnBranch, Own
  <2>2. QED
    BY <1>1, <1>2, <1>5, <1>7, <1>8, <1>9, <2>1 DEF CloneAgrees, AttemptCounted
<1>11. QED
  BY <1>1, <1>5, <1>7, <1>9, <1>10, MoveInv DEF Running

LEMMA CollectAndCommitInv == ASSUME IInv, NEW g \in Workflow, CollectAndCommit(g) PROVE IInv'
<1>0. PICK finished \in BOOLEAN :
        job' = [job EXCEPT ![g].phase = "push", ![g].finished = finished,
                           ![g].commit = TRUE, ![g].attempt = 1]
  BY DEF CollectAndCommit
<1> DEFINE J == [job[g] EXCEPT !.phase = "push", !.finished = finished, !.commit = TRUE, !.attempt = 1]
<1>1. job[g] \in Job /\ job[g].phase = "collect"
  BY Types DEF CollectAndCommit
<1>2. job' = [job EXCEPT ![g] = J]
  BY <1>0
<1>3. /\ J.phase = "push" /\ J.commit = TRUE /\ J.attempt = 1 /\ J.of = job[g].of
      /\ J.base = job[g].base /\ J.start = job[g].start /\ J.read = job[g].read /\ J.failed = job[g].failed
  BY <1>1 DEF Job
<1>4. J \in Job
  BY <1>1, CommittedType
<1> HIDE DEF J
<1>5. /\ job' \in [Workflow -> Job] /\ job'[g] = J
      /\ \A h \in Workflow : h # g => job'[h] = job[h]
  BY <1>2, <1>4, Types
<1>6. remote' = remote /\ UNCHANGED <<dispatched, pending, outcome>>
  BY DEF CollectAndCommit
<1>7. CloneAgrees(g) /\ ~OnBranch(g) /\ ~job[g].failed
  BY <1>1 DEF IInv, ClonesAgree, CloneAgrees
<1>8. CloneAgrees(g)' /\ AttemptCounted(g)'
  <2>1. /\ job[g].base \in Nat /\ job[g].start \in Nat /\ Len(remote) \in Nat
        /\ job[g].base >= job[g].start
    BY <1>1, Types DEF IInv, AttemptsCounted, AttemptCounted, Job
  <2>2. ~OnBranch(g)' /\ \A i \in 1..job[g].base : ~Own(g, i)'
    BY <1>3, <1>5, <1>6, <1>7, <2>1 DEF OnBranch, Own, CloneAgrees
  <2>3. CloneAgrees(g)'
    BY <1>1, <1>3, <1>5, <1>6, <1>7, <2>2 DEF CloneAgrees
  <2>4. AttemptCounted(g)'
    BY <1>3, <1>5, <2>1, BranchAssumption DEF AttemptCounted
  <2>5. QED
    BY <2>3, <2>4
<1>9. QED
  BY <1>1, <1>3, <1>5, <1>6, <1>8, MoveInv DEF Running

LEMMA RebaseInv == ASSUME IInv, NEW g \in Workflow, Rebase(g) PROVE IInv'
<1> DEFINE missing == \A i \in 1..Len(remote) : <<remote[i].workflow, remote[i].run>> # job[g].of
           J == [job[g] EXCEPT !.phase = "push", !.base = Len(remote),
                               !.attempt = @ + 1, !.commit = @ /\ missing]
<1>1. /\ job[g] \in Job /\ job[g].phase = "rebase" /\ job[g].of[1] = g
      /\ job[g].of \in Workflow \X Run /\ Len(remote) \in Nat
  BY Types DEF Rebase, IInv, JobsNamed, Running
<1>2. missing <=> ~OnBranch(g)
  BY <1>1 DEF OnBranch, Own
<1>3. job' = [job EXCEPT ![g] = J]
  BY DEF Rebase
<1>4. /\ J.phase = "push" /\ J.commit = (job[g].commit /\ missing) /\ J.attempt = job[g].attempt + 1
      /\ J.base = Len(remote) /\ J.of = job[g].of
      /\ J.start = job[g].start /\ J.read = job[g].read /\ J.failed = job[g].failed
  <2> HIDE DEF missing
  <2>1. QED
    BY <1>1 DEF Job
<1>5. CloneAgrees(g) /\ AttemptCounted(g)
  BY DEF IInv, ClonesAgree, AttemptsCounted
<1>6. job[g].attempt \in 1..(MaxAttempts - 1)
  BY <1>1, <1>5 DEF AttemptCounted
<1>7. J \in Job
  <2>1. job[g].attempt + 1 \in 0..MaxAttempts
    BY <1>6, BranchAssumption
  <2>2. (job[g].commit /\ missing) \in BOOLEAN
    OBVIOUS
  <2> HIDE DEF missing
  <2>3. QED
    BY <1>1, <2>1, <2>2, RebasedType
<1> HIDE DEF J, missing
<1>8. /\ job' \in [Workflow -> Job] /\ job'[g] = J
      /\ \A h \in Workflow : h # g => job'[h] = job[h]
  BY <1>3, <1>7, Types
<1>9. remote' = remote /\ UNCHANGED <<dispatched, pending, outcome>>
  BY DEF Rebase
<1>10. OnBranch(g)' <=> OnBranch(g)
  BY <1>4, <1>8, <1>9 DEF OnBranch, Own
<1>11. \A i : Own(g, i)' <=> Own(g, i)
  BY <1>4, <1>8, <1>9 DEF Own
<1>12. CloneAgrees(g)'
  <2>1. J.commit => ~OnBranch(g)
    BY <1>2, <1>4
  <2>2. ~J.commit => OnBranch(g)
    BY <1>1, <1>2, <1>4, <1>5 DEF CloneAgrees
  <2>3. QED
    BY <1>1, <1>4, <1>5, <1>8, <1>9, <1>10, <1>11, <2>1, <2>2 DEF CloneAgrees, OnBranch
<1>13. AttemptCounted(g)'
  <2>1. job[g].start \in Nat
    BY <1>1 DEF Job
  <2>2. QED
    BY <1>1, <1>4, <1>5, <1>6, <1>8, <1>9, <2>1, BranchAssumption, SMTT(30) DEF AttemptCounted
<1>14. QED
  BY <1>1, <1>4, <1>8, <1>9, <1>12, <1>13, MoveInv DEF Running

\* A push that fails, whether its commit landed or not, leaves a job that says so.
LEMMA PushFailedInv ==
    ASSUME IInv, NEW g \in Workflow, job[g].phase = "push", NEW lost \in BOOLEAN, PushFailed(g, lost),
           remote' = remote \/ Lands(g), ~lost => remote' = remote /\ ~FastForward(g),
           UNCHANGED <<dispatched, pending>>
    PROVE  IInv'
<1> DEFINE failed == job[g].failed \/ lost
           J == [job[g] EXCEPT !.phase = "rebase", !.failed = failed]
<1>1. /\ job[g] \in Job /\ Running(g) /\ Len(remote) \in Nat
      /\ job[g].base \in Nat /\ job[g].start \in Nat
  BY Types DEF Running, Job
<1>2. CloneAgrees(g) /\ AttemptCounted(g)
  BY DEF IInv, ClonesAgree, AttemptsCounted
<1>3. CASE job[g].attempt = MaxAttempts
  <2>1. PICK how \in {"gave_up", "overrun"} :
           Release(g, how) /\ (how = "overrun" => ~failed)
    BY <1>3 DEF PushFailed
  <2>2. how = "overrun" => ~OnBranch(g) /\ remote' = remote
    BY <1>2, <2>1 DEF CloneAgrees
  <2>3. how \in Outcomes /\ how # "pushed" /\ how # "replaced"
    BY DEF Outcomes
  <2>4. QED
    BY <1>1, <2>1, <2>2, <2>3, ReleaseInv
<1>4. CASE job[g].attempt # MaxAttempts
  <2>1. job' = [job EXCEPT ![g] = J] /\ outcome' = outcome
    BY <1>4 DEF PushFailed
  <2>2. /\ J.phase = "rebase" /\ J.failed = failed /\ J.of = job[g].of /\ J.base = job[g].base
        /\ J.start = job[g].start /\ J.read = job[g].read /\ J.commit = job[g].commit
        /\ J.attempt = job[g].attempt
    BY <1>1 DEF Job
  <2>3. J \in Job
    <3>1. failed \in BOOLEAN
      OBVIOUS
    <3> HIDE DEF failed
    <3>2. QED
      BY <1>1, <3>1, FailedType
  <2> HIDE DEF J
  <2>4. /\ job' \in [Workflow -> Job] /\ job'[g] = J
        /\ \A h \in Workflow : h # g => job'[h] = job[h]
    BY <2>1, <2>3, Types
  <2>5. AttemptCounted(g)'
    <3>1. job[g].attempt \in 1..MaxAttempts
      BY <1>2 DEF AttemptCounted
    <3>2. job[g].attempt \in 1..(MaxAttempts - 1)
      BY <1>4, <3>1, BranchAssumption
    <3>3. ~failed => Len(remote) - job[g].start >= job[g].attempt /\ remote' = remote
      <4> SUFFICES ASSUME ~failed
                   PROVE  Len(remote) - job[g].start >= job[g].attempt /\ remote' = remote
        OBVIOUS
      <4>1. remote' = remote /\ job[g].base # Len(remote) /\ job[g].base <= Len(remote)
        BY <1>2 DEF FastForward, CloneAgrees
      <4>2. job[g].base - job[g].start >= job[g].attempt - 1
        BY <1>2 DEF AttemptCounted
      <4>3. QED
        BY <1>1, <3>1, <4>1, <4>2, BranchAssumption
    <3>4. QED
      BY <2>2, <2>4, <3>2, <3>3 DEF AttemptCounted
  <2>6. CloneAgrees(g)'
    <3>1. CASE remote' = remote
      <4>1. \A i : Own(g, i)' <=> Own(g, i)
        BY <2>2, <2>4, <3>1 DEF Own
      <4>2. OnBranch(g)' <=> OnBranch(g)
        BY <3>1, <4>1 DEF OnBranch
      <4>3. QED
        BY <1>2, <2>2, <2>4, <3>1, <4>1, <4>2 DEF CloneAgrees
    <3>2. CASE Lands(g) /\ remote' # remote
      <4>1. /\ Len(remote') = Len(remote) + 1
            /\ \A i \in 1..Len(remote) : remote'[i] = remote[i]
            /\ remote'[Len(remote) + 1].workflow = g
            /\ remote'[Len(remote) + 1].run = job[g].of[2]
        BY <3>2, LandsFacts
      <4>2. OnBranch(g)'
        BY <1>1, <2>2, <2>4, <4>1 DEF OnBranch, Own
      <4>3. \A i \in 1..job[g].base : Own(g, i)' <=> Own(g, i)
        BY <1>1, <1>2, <2>2, <2>4, <4>1 DEF Own, CloneAgrees
      <4>4. failed
        BY <3>2
      <4>5. QED
        BY <1>1, <1>2, <2>2, <2>4, <4>1, <4>2, <4>3, <4>4 DEF CloneAgrees
    <3>3. QED
      BY <3>1, <3>2
  <2>7. QED
    BY <1>1, <2>1, <2>2, <2>4, <2>5, <2>6, MoveInv
<1>5. QED
  BY <1>3, <1>4

LEMMA PushInv == ASSUME IInv, NEW g \in Workflow, Push(g) PROVE IInv'
<1>1. Running(g) /\ (remote' = remote \/ Lands(g)) /\ Release(g, "pushed") /\ "pushed" \in Outcomes
      /\ UNCHANGED <<dispatched, pending>>
  BY DEF Push, PushedHead, Lands, Running, Outcomes
<1>2. OnBranch(g) \/ Lands(g)
  BY DEF IInv, ClonesAgree, CloneAgrees, Push, PushedHead, Lands
<1>3. QED
  BY <1>1, <1>2, ReleaseInv

LEMMA AbortInv ==
    ASSUME IInv, NEW g \in Workflow, StepFails(g) \/ CollectNothing(g) \/ Cancel(g)
    PROVE  IInv'
<1>1. Running(g) /\ Release(g, "aborted") /\ "aborted" \in Outcomes /\ UNCHANGED <<dispatched, pending>>
  BY DEF StepFails, CollectNothing, Cancel, Running, Outcomes
<1>2. remote' = remote \/ Lands(g)
  BY LandsOrNot DEF StepFails, CollectNothing, Cancel
<1>3. QED
  BY <1>1, <1>2, ReleaseInv

LEMMA NextInv == IInv /\ [Next]_vars => IInv'
<1> SUFFICES ASSUME IInv, [Next]_vars PROVE IInv'
  OBVIOUS
<1>1. ASSUME NEW w \in Workflow, Dispatch(w) PROVE IInv'
  BY <1>1, DispatchInv
<1>2. ASSUME NEW g \in Workflow, JobStep(g) PROVE IInv'
  <2>1. CASE Begin(g)
    BY <2>1, BeginInv
  <2>2. CASE Checkout(g)
    BY <2>2, CheckoutInv
  <2>3. CASE CollectAndCommit(g)
    BY <2>3, CollectAndCommitInv
  <2>4. CASE Push(g)
    BY <2>4, PushInv
  <2>5. CASE PushRejected(g)
    <3>1. /\ job[g].phase = "push" /\ PushFailed(g, FALSE) /\ remote' = remote /\ ~FastForward(g)
          /\ UNCHANGED <<dispatched, pending>>
      BY <2>5 DEF PushRejected
    <3>2. QED
      BY <3>1, PushFailedInv
  <2>6. CASE PushInterrupted(g)
    <3>1. /\ job[g].phase = "push" /\ PushFailed(g, TRUE) /\ UNCHANGED <<dispatched, pending>>
      BY <2>6 DEF PushInterrupted
    <3>2. remote' = remote \/ Lands(g)
      BY <2>6, LandsOrNot DEF PushInterrupted
    <3>3. QED
      BY <3>1, <3>2, PushFailedInv
  <2>7. CASE Rebase(g)
    BY <2>7, RebaseInv
  <2>8. CASE StepFails(g) \/ CollectNothing(g) \/ Cancel(g)
    BY <2>8, AbortInv
  <2>9. QED
    BY <1>2, <2>1, <2>2, <2>3, <2>4, <2>5, <2>6, <2>7, <2>8 DEF JobStep
<1>3. CASE UNCHANGED vars
  BY <1>3 DEF vars, IInv, TypeOK, JobsNamed, PendingIsNewer, OutcomesOpen, Open, BranchIsOlder,
     BranchHasLast, CommitsFollow, ClonesAgree, AttemptsCounted, CloneAgrees, AttemptCounted,
     OutcomeHonest, Running, OnBranch, Own
<1>4. QED
  BY <1>1, <1>2, <1>3, GroupsAreWorkflows DEF Next

\* The bookkeeping of jobs, clones and attempts holds for any number of them; all
\* that follows rests on it.
THEOREM Invariant == Spec => []IInv
  BY InitInv, NextInv, PTL DEF Spec

(***************************************************************************)
(* The properties.                                                         *)
(***************************************************************************)

\* Every variable keeps the type TypeOK gives it.
THEOREM TypeCorrect == Spec => []TypeOK
<1>1. IInv => TypeOK
  BY DEF IInv
<1>2. QED
  BY <1>1, Invariant, PTL

\* However many workflows push however often: on the branch a workflow's commit
\* was computed from the state of its previous one, and its runs stand there in
\* the order of their dispatch, each once.
THEOREM NoUpdateLost == Spec => []NoLostUpdate
<1>1. IInv => NoLostUpdate
  <2> SUFFICES ASSUME IInv, NEW i \in 1..Len(remote)
               PROVE  /\ remote[i].read = LastRun(remote, remote[i].workflow, i - 1)
                      /\ \A j \in 1..(i - 1) :
                            remote[j].workflow = remote[i].workflow => remote[j].run < remote[i].run
    BY DEF NoLostUpdate
  <2>1. /\ IsLastRun(remote, remote[i].workflow, i - 1, remote[i].read)
        /\ \A j \in 1..(i - 1) :
              remote[j].workflow = remote[i].workflow => remote[j].run < remote[i].run
    BY DEF IInv, CommitsFollow
  <2>2. remote \in Seq(Commit) /\ remote[i].workflow \in Workflow /\ i - 1 \in 0..Len(remote)
    BY Types
  <2>3. QED
    BY <2>1, <2>2, LastRunIs
<1>2. QED
  BY <1>1, Invariant, PTL

\* A run that ended with its push accepted is on the branch, and none that was
\* replaced or overrun is.
THEOREM HonestOutcomes == Spec => []OutcomeHonest
<1>1. IInv => OutcomeHonest
  BY DEF IInv
<1>2. QED
  BY <1>1, Invariant, PTL

\* The end a release records, and nothing else, changes.
LEMMA EndedOnly ==
    ASSUME IInv, NEW g \in Workflow, Running(g), NEW how \in Outcomes, Release(g, how)
    PROVE  /\ job[g].of[1] = g /\ job[g].of[2] \in Run
           /\ \A w \in Workflow, r \in Run :
                 outcome'[w][r] = IF w = g /\ r = job[g].of[2] THEN how ELSE outcome[w][r]
<1>1. job[g].of[1] = g /\ job[g].of[2] \in Run
  BY DEF IInv, JobsNamed
<1>2. QED
  BY <1>1, Types DEF Release, Ended

\* What each step does to the outcomes.
LEMMA StepOutcome ==
    ASSUME IInv, [Next]_vars, NEW v \in Workflow, NEW r \in Run, outcome'[v][r] # outcome[v][r]
    PROVE  \/ /\ Dispatch(v) /\ outcome'[v][r] = "replaced" /\ pending[v] = <<v, r>>
           \/ /\ Running(v) /\ job[v].of[2] = r /\ outcome'[v][r] # "replaced"
              /\ outcome'[v][r] = "overrun" => PushRejected(v) /\ job[v].attempt = MaxAttempts /\ ~job[v].failed
<1>1. ASSUME NEW w \in Workflow, Dispatch(w)
      PROVE  w = v /\ outcome'[v][r] = "replaced" /\ pending[v] = <<v, r>>
  <2>1. outcome' = IF pending[w] = NoDispatch THEN outcome ELSE Ended(pending[w], "replaced")
    BY <1>1 DEF Dispatch, Group
  <2>2. pending[w] # NoDispatch => pending[w] \in Workflow \X Run /\ pending[w][1] = w
    BY DEF IInv, PendingIsNewer
  <2>3. QED
    BY <2>1, <2>2, Types DEF Ended
<1>2. ASSUME NEW g \in Workflow, JobStep(g)
      PROVE  /\ Running(v) /\ job[v].of[2] = r /\ outcome'[v][r] # "replaced"
             /\ outcome'[v][r] = "overrun" => PushRejected(v) /\ job[v].attempt = MaxAttempts /\ ~job[v].failed
  <2>1. PICK how \in Outcomes :
           /\ Release(g, how) /\ Running(g) /\ how # "replaced"
           /\ how = "overrun" => PushRejected(g) /\ job[g].attempt = MaxAttempts /\ ~job[g].failed
    <3>1. CASE Begin(g) \/ Checkout(g) \/ CollectAndCommit(g) \/ Rebase(g)
      BY <3>1 DEF Begin, Checkout, CollectAndCommit, Rebase
    <3>2. CASE Push(g)
      BY <3>2 DEF Push, Running, Outcomes
    <3>3. CASE PushRejected(g) \/ PushInterrupted(g)
      BY <3>3 DEF PushRejected, PushInterrupted, PushFailed, Running, Outcomes
    <3>4. CASE StepFails(g) \/ CollectNothing(g) \/ Cancel(g)
      BY <3>4 DEF StepFails, CollectNothing, Cancel, Running, Outcomes
    <3>5. QED
      BY <1>2, <3>1, <3>2, <3>3, <3>4 DEF JobStep
  <2>2. \A w \in Workflow, q \in Run :
           outcome'[w][q] = IF w = g /\ q = job[g].of[2] THEN how ELSE outcome[w][q]
    BY <2>1, EndedOnly
  <2>3. v = g /\ r = job[g].of[2] /\ outcome'[v][r] = how
    BY <2>2
  <2>4. QED
    BY <2>1, <2>3
<1>3. CASE UNCHANGED vars
  BY <1>3 DEF vars
<1>4. QED
  BY <1>1, <1>2, <1>3, GroupsAreWorkflows DEF Next

\* The push loop ends without its commit for lost races alone only when that
\* many other commits landed, whatever MaxAttempts is.
THEOREM OverrunIsEarned == Spec => GivesUpOnlyWhenOverrun
<1> DEFINE A == \A g \in Groups :
                   LET d == job[g].of
                   IN job[g].phase = "push" /\ outcome'[d[1]][d[2]] = "overrun" =>
                         Len(remote) - job[g].start >= MaxAttempts
<1>1. IInv /\ [Next]_vars => A
  <2> SUFFICES ASSUME IInv, [Next]_vars, NEW g \in Workflow, job[g].phase = "push",
                      outcome'[job[g].of[1]][job[g].of[2]] = "overrun"
               PROVE  Len(remote) - job[g].start >= MaxAttempts
    BY GroupsAreWorkflows
  <2>1. Running(g) /\ job[g].of[1] = g /\ job[g].of[2] \in Run
    BY DEF IInv, JobsNamed, Running
  <2>2. outcome[g][job[g].of[2]] = "none"
    BY <2>1 DEF IInv, OutcomesOpen, Open
  <2>3. PushRejected(g) /\ job[g].attempt = MaxAttempts /\ ~job[g].failed
    BY <2>1, <2>2, StepOutcome
  <2>4. CloneAgrees(g) /\ AttemptCounted(g)
    BY DEF IInv, ClonesAgree, AttemptsCounted
  <2>5. /\ job[g].base # Len(remote) /\ job[g].base <= Len(remote)
        /\ job[g].base - job[g].start >= MaxAttempts - 1
    BY <2>3, <2>4 DEF PushRejected, FastForward, CloneAgrees, AttemptCounted
  <2>6. job[g].base \in Nat /\ job[g].start \in Nat /\ Len(remote) \in Nat
    BY Types DEF Job
  <2>7. QED
    BY <2>5, <2>6, BranchAssumption
<1> HIDE DEF A
<1>2. Spec => [][A]_vars
  BY <1>1, Invariant, PTL DEF Spec
<1>3. QED
  BY <1>2 DEF GivesUpOnlyWhenOverrun, A

\* Only a newer dispatch of the same workflow replaces a run, and only a
\* pending one.
THEOREM ReplacedByOwn == Spec => ReplacedByOwnOnly
<1> DEFINE A == \A w \in Workflow, r \in Run :
                   outcome[w][r] = "none" /\ outcome'[w][r] = "replaced" =>
                      dispatched'[w] > r /\ dispatched' # dispatched /\ dispatched'[w] # dispatched[w]
<1>1. IInv /\ [Next]_vars => A
  <2> SUFFICES ASSUME IInv, [Next]_vars, NEW w \in Workflow, NEW r \in Run,
                      outcome[w][r] = "none", outcome'[w][r] = "replaced"
               PROVE  dispatched'[w] > r /\ dispatched' # dispatched /\ dispatched'[w] # dispatched[w]
    OBVIOUS
  <2>1. Dispatch(w) /\ pending[w] = <<w, r>>
    BY StepOutcome
  <2>2. r \in Nat /\ r <= dispatched[w] /\ dispatched[w] \in Nat
    <3>1. pending[w] # NoDispatch
      BY <2>1, NoDispatchIsNone
    <3>2. pending[w][2] <= dispatched[w]
      BY <3>1 DEF IInv, PendingIsNewer
    <3>3. r <= dispatched[w]
      BY <2>1, <3>2
    <3>4. QED
      BY <3>3, RunFacts, Types
  <2>3. dispatched'[w] = dispatched[w] + 1
    BY <2>1, Types DEF Dispatch
  <2>4. QED
    BY <2>2, <2>3
<1> HIDE DEF A
<1>2. Spec => [][A]_vars
  BY <1>1, Invariant, PTL DEF Spec
<1>3. QED
  BY <1>2 DEF ReplacedByOwnOnly, A
=============================================================================
