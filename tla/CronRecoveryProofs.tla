------------------------- MODULE CronRecoveryProofs -------------------------
(***************************************************************************)
(* Proofs about catch-ups and cron recovery, for any profiles, jobs,       *)
(* schedules and callers, and any number of failures.                      *)
(*                                                                         *)
(* A catch-up runs what it picked when it read the job file, which may be  *)
(* long ago.  That no occurrence is recovered twice rests on three facts:  *)
(* the file knows of every claim a catch-up made (AttemptsOnFile), a pick  *)
(* is newer than all of them (PicksAreFresh), and the lock keeps any other *)
(* catch-up from claiming the profile's jobs meanwhile.                    *)
(*                                                                         *)
(* Mission Control drives the bridges by the steps CronCatchUp has, so     *)
(* what is proved of catch-ups holds of recovery.  Its windows stay apart  *)
(* and cover its downtime: a start writes the window and the heartbeat in  *)
(* one step (WindowsApart), and while it runs no instant of downtime is    *)
(* newer than the heartbeat (DowntimeIsPast).                              *)
(*                                                                         *)
(* That a dropped window leaves nothing missed is followed from the bridge *)
(* to the file (SettledInv): a catch-up settles each job of its window, or *)
(* has it still to run (WorkCovers); an answer that the worker counts is   *)
(* one to the window it handles (CallsMatch); and what the file calls      *)
(* completed was settled (CompletedIsSettled) and stays so (SeenStays).    *)
(***************************************************************************)
EXTENDS CronRecovery, TLAPS, WellFoundedInduction

-----------------------------------------------------------------------------
(* Catch-ups.                                                              *)

Listing == [stage : {"listing"}, bounds : Bounds]
Running == [stage : {"running"}, bounds : Bounds, todo : SUBSET Due, job : Jobs \cup {Nothing}]

AttemptsOnFile ==
  \A j \in Jobs : /\ jobs[j].last <= now /\ jobs[j].claim <= now
                  /\ lastCatchUp[j] <= jobs[j].last \/ lastCatchUp[j] <= jobs[j].claim

PicksAreFresh ==
  \A p \in Profiles : work[p].stage = "running" =>
    \A t \in work[p].todo : /\ Owner[t.job] = p /\ lastCatchUp[t.job] < t.due
                            /\ \A u \in work[p].todo : u.job = t.job => u = t

CatchUpInv == CatchUpTypeOK /\ AttemptsOnFile /\ PicksAreFresh

-----------------------------------------------------------------------------

LEMMA WorkKinds ==
  ASSUME CatchUpTypeOK, NEW p \in Profiles
  PROVE  /\ work[p] = Free \/ work[p] \in Listing \/ work[p] \in Running
         /\ work[p].stage = "listing" => work[p] \in Listing
         /\ work[p].stage = "running" => work[p] \in Running
<1>1. work[p] = Free \/ work[p] \in Listing \/ work[p] \in Running
  BY DEF CatchUpTypeOK, Listing, Running
<1>2. CASE work[p] = Free
  BY <1>2 DEF Free
<1>3. CASE work[p] \in Listing
  BY <1>3 DEF Listing
<1>4. CASE work[p] \in Running
  BY <1>4 DEF Running
<1> QED BY <1>1, <1>2, <1>3, <1>4

LEMMA WorkType ==
  ASSUME CatchUpTypeOK, NEW p \in Profiles, NEW w \in {Free} \cup Listing \cup Running,
         work' = [work EXCEPT ![p] = w]
  PROVE  work' \in [Profiles -> {Free} \cup Listing \cup Running]
  BY DEF CatchUpTypeOK, Listing, Running

LEMMA CatchUpInvInit == CatchUpInit => CatchUpInv
<1> SUFFICES ASSUME CatchUpInit PROVE CatchUpInv
  OBVIOUS
<1> USE CatchUpAssumption DEF CatchUpInit
<1>1. \A j \in Jobs : FirstRun(j) \in Time \cup {Never}
  BY DEF FirstRun
<1>2. CatchUpTypeOK
  BY <1>1 DEF CatchUpTypeOK, Job, Time, Never
<1>3. AttemptsOnFile
  BY DEF AttemptsOnFile, Never
<1>4. PicksAreFresh
  BY DEF PicksAreFresh, Free
<1> QED BY <1>2, <1>3, <1>4 DEF CatchUpInv

LEMMA NextAfterType ==
  ASSUME NEW j \in Jobs, NEW t \in Time PROVE NextAfter(j, t) \in Time \cup {Never}
  BY DEF NextAfter

LEMMA ClaimedIsJob ==
  ASSUME CatchUpTypeOK, NEW j \in Jobs
  PROVE  [jobs[j] EXCEPT !.claim = now, !.held = TRUE] \in Job
<1>1. jobs[j] \in Job /\ now \in Time
  BY DEF CatchUpTypeOK
<1> QED BY <1>1 DEF Job

LEMMA RanIsJobs ==
  ASSUME CatchUpTypeOK, NEW j \in Jobs
  PROVE  /\ Ran(j) \in [Jobs -> Job]
         /\ Ran(j)[j].last = now /\ Ran(j)[j].claim = Never
         /\ \A k \in Jobs : k # j => Ran(j)[k] = jobs[k]
<1>1. /\ jobs[j] \in Job /\ now \in Time /\ jobs \in [Jobs -> Job]
      /\ NextAfter(j, now) \in Time \cup {Never}
  BY NextAfterType DEF CatchUpTypeOK
<1> DEFINE r == [jobs[j] EXCEPT !.last = now, !.claim = Never, !.held = FALSE,
                                !.next = NextAfter(j, now)]
<1>2. r \in Job /\ r.last = now /\ r.claim = Never
  BY <1>1 DEF Job
<1>3. Ran(j) = [jobs EXCEPT ![j] = r]
  BY DEF Ran
<1> HIDE DEF r
<1> QED BY <1>1, <1>2, <1>3

(* Steps that touch neither the files nor the history of claims.           *)
LEMMA QuietStep ==
  ASSUME CatchUpInv, CatchUpTypeOK', now' \in {now, now + 1}, UNCHANGED <<jobs, lastCatchUp>>,
         PicksAreFresh'
  PROVE  CatchUpInv'
<1>1. AttemptsOnFile'
  BY DEF CatchUpInv, CatchUpTypeOK, AttemptsOnFile, Job, Time, Never
<1> QED BY <1>1 DEF CatchUpInv

LEMMA TakeKeepsInv ==
  ASSUME CatchUpInv, NEW p \in Profiles, NEW b \in Bounds, Take(p, b), faults' \in 0..MaxFaults
  PROVE  CatchUpInv'
<1> DEFINE w == [stage |-> "listing", bounds |-> b]
<1>1. w \in Listing /\ CatchUpTypeOK
  BY DEF Listing, CatchUpInv
<1>2. CatchUpTypeOK'
  BY <1>1, WorkType DEF Take, CatchUpTypeOK, Listing, Running
<1>3. PicksAreFresh'
  BY <1>1 DEF Take, CatchUpTypeOK, CatchUpInv, PicksAreFresh
<1> QED BY <1>2, <1>3, QuietStep DEF Take

LEMMA ListKeepsInv ==
  ASSUME CatchUpInv, NEW p \in Profiles, NEW r \in BOOLEAN, List(p, r)
  PROVE  CatchUpInv'
<1> DEFINE b == work[p].bounds
           missed == {t \in Due : /\ r /\ t.job \in JobsOf(p) \cap b.only
                                  /\ MissedDue(t.job, b.from, EndOf(b), t.due)}
           w == [stage |-> "running", bounds |-> b, todo |-> missed, job |-> Nothing]
<1>1. CatchUpTypeOK /\ work[p] \in Listing /\ b \in Bounds
  BY WorkKinds DEF List, Listing, CatchUpInv
<1>2. work' = [work EXCEPT ![p] = w]
  BY DEF List
<1>3. w \in Running
  BY <1>1 DEF Running
<1>4. CatchUpTypeOK'
  <2>1. work' \in [Profiles -> {Free} \cup Listing \cup Running]
    BY <1>1, <1>2, <1>3, WorkType
  <2>2. faults' \in 0..MaxFaults
    BY <1>1, CatchUpAssumption DEF List, CatchUpTypeOK
  <2>3. leftOut' \subseteq Jobs \X Time
    BY <1>1 DEF List, CatchUpTypeOK, Reported, Hidden, JobsOf, Bounds, Never, Time
  <2> QED BY <1>1, <2>1, <2>2, <2>3 DEF List, CatchUpTypeOK, Listing, Running
<1>5. PicksAreFresh'
  <2>1. ASSUME NEW t \in missed
        PROVE  /\ Owner[t.job] = p /\ lastCatchUp[t.job] < t.due
               /\ \A u \in missed : u.job = t.job => u = t
    <3>1. t.job \in Jobs /\ t.due \in Time /\ Owner[t.job] = p /\ Attempt(t.job) < t.due
      BY DEF MissedDue, JobsOf, Due
    <3>2. lastCatchUp[t.job] < t.due
      BY <1>1, <3>1 DEF CatchUpInv, AttemptsOnFile, Attempt, CatchUpTypeOK, Job, Time, Never
    <3>3. ASSUME NEW u \in missed, u.job = t.job PROVE u = t
      <4>1. t.due <= u.due /\ u.due <= t.due
        BY <3>3 DEF MissedDue
      <4> QED BY <4>1, <3>3 DEF Due, Time
    <3> QED BY <3>1, <3>2, <3>3
  <2>2. UNCHANGED lastCatchUp /\ work'[p] = w /\ \A q \in Profiles : q # p => work'[q] = work[q]
    BY <1>1, <1>2 DEF List, CatchUpTypeOK
  <2> QED BY <2>1, <2>2 DEF PicksAreFresh, CatchUpInv
<1> QED BY <1>4, <1>5, QuietStep DEF List

LEMMA ClaimKeepsInv ==
  ASSUME CatchUpInv, NEW p \in Profiles, NEW t \in Due, Claim(p, t)
  PROVE  CatchUpInv'
<1> DEFINE w == [stage |-> "running", bounds |-> work[p].bounds,
                 todo |-> work[p].todo \ {t}, job |-> t.job]
<1>1. CatchUpTypeOK /\ work[p] \in Running /\ t \in work[p].todo /\ t.job \in Jobs
  BY WorkKinds DEF Claim, Picked, CatchUpInv, Due
<1>2. work' = [work EXCEPT ![p] = w]
  <2> DEFINE u == [stage |-> "running", bounds |-> work[p].bounds,
                   todo |-> work[p].todo \ {t}, job |-> work[p].job]
  <2>1. [work[p] EXCEPT !.todo = work[p].todo \ {t}] = u
    BY <1>1 DEF Running
  <2>2. [u EXCEPT !.job = t.job] = w
    OBVIOUS
  <2> QED BY <2>1, <2>2 DEF Claim
<1>3. w \in Running
  BY <1>1 DEF Running
<1>4. CatchUpTypeOK'
  <2>1. work' \in [Profiles -> {Free} \cup Listing \cup Running]
    BY <1>1, <1>2, <1>3, WorkType
  <2>2. jobs' \in [Jobs -> Job]
    <3> DEFINE r == [jobs[t.job] EXCEPT !.claim = now, !.held = TRUE]
    <3>1. r \in Job
      BY <1>1, ClaimedIsJob
    <3>2. jobs' = [jobs EXCEPT ![t.job] = r]
      BY DEF Claim
    <3> HIDE DEF r
    <3> QED BY <1>1, <3>1, <3>2 DEF CatchUpTypeOK
  <2>3. lastCatchUp' \in [Jobs -> Time \cup {Never}]
    BY <1>1 DEF Claim, CatchUpTypeOK
  <2> QED BY <1>1, <2>1, <2>2, <2>3 DEF Claim, CatchUpTypeOK, Listing, Running
<1>5. AttemptsOnFile'
  BY <1>1, <1>4 DEF Claim, CatchUpInv, AttemptsOnFile, CatchUpTypeOK, Job, Time, Never
<1>6. PicksAreFresh'
  <2>1. \A q \in Profiles : q # p => work'[q] = work[q]
    BY <1>1, <1>2 DEF CatchUpTypeOK
  <2>2. \A j \in Jobs : j # t.job => lastCatchUp'[j] = lastCatchUp[j]
    BY <1>1 DEF Claim, CatchUpTypeOK
  <2>3. Owner[t.job] = p /\ \A u \in work[p].todo : u.job = t.job => u = t
    BY <1>1 DEF CatchUpInv, PicksAreFresh, Running
  <2>4. ASSUME NEW q \in Profiles, work'[q].stage = "running", NEW u \in work'[q].todo
        PROVE  /\ Owner[u.job] = q /\ lastCatchUp'[u.job] < u.due
               /\ \A v \in work'[q].todo : v.job = u.job => v = u
    <3>1. CASE q = p
      <4>1. work'[q] = w /\ u \in work[p].todo /\ u # t /\ u \in Due
        BY <3>1, <1>1, <1>2, <2>4 DEF CatchUpTypeOK, Running
      <4>2. u.job # t.job /\ u.job \in Jobs
        BY <4>1, <2>3 DEF Due
      <4> QED BY <3>1, <4>1, <4>2, <2>2, <1>1 DEF CatchUpInv, PicksAreFresh, Running
    <3>2. CASE q # p
      <4>1. work'[q] = work[q] /\ Owner[u.job] = q /\ u \in Due
        BY <3>2, <2>1, <2>4, <1>1, WorkKinds DEF CatchUpInv, PicksAreFresh, Running
      <4>2. u.job # t.job /\ u.job \in Jobs
        BY <4>1, <3>2, <2>3 DEF Due
      <4> QED BY <4>1, <4>2, <2>2, <2>4 DEF CatchUpInv, PicksAreFresh
    <3> QED BY <3>1, <3>2
  <2> QED BY <2>4 DEF PicksAreFresh
<1> QED BY <1>4, <1>5, <1>6 DEF CatchUpInv

(* Steps after which a catch-up has the same picks or fewer.               *)
LEMMA FewerPicks ==
  ASSUME PicksAreFresh, UNCHANGED lastCatchUp,
         \A q \in Profiles : work'[q].stage = "running" =>
           work[q].stage = "running" /\ work'[q].todo \subseteq work[q].todo
  PROVE  PicksAreFresh'
  BY DEF PicksAreFresh

LEMMA SkipKeepsInv ==
  ASSUME CatchUpInv, NEW p \in Profiles, NEW t \in Due, Skip(p, t)
  PROVE  CatchUpInv'
<1> DEFINE w == [stage |-> "running", bounds |-> work[p].bounds,
                 todo |-> work[p].todo \ {t}, job |-> work[p].job]
<1>1. CatchUpTypeOK /\ work[p] \in Running /\ t.job \in Jobs
  BY WorkKinds DEF Skip, Picked, CatchUpInv, Due
<1>2. work' = [work EXCEPT ![p] = w]
  <2>1. [work[p] EXCEPT !.todo = work[p].todo \ {t}] = w
    BY <1>1 DEF Running
  <2> QED BY <2>1 DEF Skip
<1>3. w \in Running
  BY <1>1 DEF Running
<1>4. CatchUpTypeOK'
  <2>1. work' \in [Profiles -> {Free} \cup Listing \cup Running]
    BY <1>1, <1>2, <1>3, WorkType
  <2>2. faults' \in 0..MaxFaults
    <3>1. faults' = faults \/ (faults < MaxFaults /\ faults' = faults + 1)
      BY DEF Skip
    <3> QED BY <1>1, <3>1, CatchUpAssumption DEF CatchUpTypeOK
  <2>3. leftOut' \subseteq Jobs \X Time
    BY <1>1 DEF Skip, CatchUpTypeOK, Reported, Running, Bounds, Never, Time
  <2> QED BY <1>1, <2>1, <2>2, <2>3 DEF Skip, CatchUpTypeOK, Listing, Running
<1>5. PicksAreFresh'
  <2>1. /\ work'[p] = w /\ work[p].stage = "running"
        /\ \A q \in Profiles : q # p => work'[q] = work[q]
    BY <1>1, <1>2 DEF CatchUpTypeOK, Running
  <2>2. UNCHANGED lastCatchUp /\ PicksAreFresh
    BY DEF Skip, CatchUpInv
  <2>3. \A q \in Profiles : work'[q].stage = "running" =>
          work[q].stage = "running" /\ work'[q].todo \subseteq work[q].todo
    BY <2>1
  <2> QED BY <2>2, <2>3, FewerPicks
<1> QED BY <1>4, <1>5, QuietStep DEF Skip

(* A step on the job files alone, of one job.                              *)
LEMMA JobStep ==
  ASSUME CatchUpInv, NEW j \in Jobs, NEW r \in Job, jobs' = [jobs EXCEPT ![j] = r],
         r.last <= now, r.claim <= now,
         \/ lastCatchUp[j] <= r.last \/ lastCatchUp[j] <= r.claim,
         UNCHANGED <<now, bridgeUp, lastCatchUp, leftOut>>, faults' \in 0..MaxFaults,
         work' \in [Profiles -> {Free} \cup Listing \cup Running],
         \A q \in Profiles : work'[q].stage = "running" =>
           work[q].stage = "running" /\ work'[q].todo \subseteq work[q].todo
  PROVE  CatchUpInv'
<1>1. CatchUpTypeOK'
  BY DEF CatchUpInv, CatchUpTypeOK, Listing, Running
<1>2. AttemptsOnFile'
  <2>1. jobs'[j] = r /\ \A k \in Jobs : k # j => jobs'[k] = jobs[k]
    BY DEF CatchUpInv, CatchUpTypeOK
  <2> QED BY <2>1 DEF CatchUpInv, AttemptsOnFile
<1>3. PicksAreFresh'
  BY FewerPicks DEF CatchUpInv
<1> QED BY <1>1, <1>2, <1>3 DEF CatchUpInv

LEMMA RanKeepsInv ==
  ASSUME CatchUpInv, NEW j \in Jobs, jobs' = Ran(j),
         UNCHANGED <<now, bridgeUp, lastCatchUp, leftOut, faults>>,
         work' \in [Profiles -> {Free} \cup Listing \cup Running],
         \A q \in Profiles : work'[q].stage = "running" =>
           work[q].stage = "running" /\ work'[q].todo \subseteq work[q].todo
  PROVE  CatchUpInv'
<1>1. CatchUpTypeOK
  BY DEF CatchUpInv
<1>2. /\ jobs' \in [Jobs -> Job] /\ jobs'[j].last = now /\ jobs'[j].claim = Never
      /\ \A k \in Jobs : k # j => jobs'[k] = jobs[k]
  BY <1>1, RanIsJobs
<1>3. CatchUpTypeOK'
  BY <1>1, <1>2 DEF CatchUpTypeOK, Listing, Running
<1>4. lastCatchUp[j] <= now
  BY <1>1 DEF CatchUpInv, AttemptsOnFile, CatchUpTypeOK, Job, Time, Never
<1>5. AttemptsOnFile'
  BY <1>1, <1>2, <1>4 DEF CatchUpInv, AttemptsOnFile, CatchUpTypeOK, Time, Never
<1>6. PicksAreFresh'
  BY FewerPicks DEF CatchUpInv
<1> QED BY <1>3, <1>5, <1>6 DEF CatchUpInv

LEMMA RunEndsKeepsInv ==
  ASSUME CatchUpInv, NEW p \in Profiles, NEW r \in BOOLEAN, RunEnds(p, r)
  PROVE  CatchUpInv'
<1> DEFINE j == work[p].job
           w == [stage |-> "running", bounds |-> work[p].bounds, todo |-> work[p].todo,
                 job |-> Nothing]
<1>1. CatchUpTypeOK /\ work[p] \in Running /\ j \in Jobs
  BY WorkKinds DEF RunEnds, CatchUpInv, Running
<1>2. work' = [work EXCEPT ![p] = w] /\ w \in Running
  <2>1. [work[p] EXCEPT !.job = Nothing] = w /\ w \in Running
    BY <1>1 DEF Running
  <2> QED BY <2>1 DEF RunEnds
<1>3. /\ work' \in [Profiles -> {Free} \cup Listing \cup Running]
      /\ \A q \in Profiles : work'[q].stage = "running" =>
           work[q].stage = "running" /\ work'[q].todo \subseteq work[q].todo
  <2>1. work' \in [Profiles -> {Free} \cup Listing \cup Running]
    BY <1>1, <1>2, WorkType
  <2>2. work'[p] = w /\ \A q \in Profiles : q # p => work'[q] = work[q]
    BY <1>1, <1>2 DEF CatchUpTypeOK
  <2> QED BY <2>1, <2>2 DEF RunEnds
<1>4. CASE r
  <2> DEFINE k == [jobs[j] EXCEPT !.held = FALSE]
  <2>1. k \in Job /\ k.last = jobs[j].last /\ k.claim = jobs[j].claim
    <3>1. jobs[j] \in Job
      BY <1>1 DEF CatchUpTypeOK
    <3> HIDE DEF j
    <3> QED BY <3>1 DEF Job
  <2>2. /\ jobs' = [jobs EXCEPT ![j] = k]
        /\ UNCHANGED <<now, bridgeUp, lastCatchUp, leftOut>> /\ faults' \in 0..MaxFaults
    <3>1. jobs' = [jobs EXCEPT ![j] = k]
      BY <1>4 DEF RunEnds
    <3>2. UNCHANGED <<now, bridgeUp, lastCatchUp, leftOut, faults>>
      BY DEF RunEnds
    <3> QED BY <1>1, <3>1, <3>2 DEF CatchUpTypeOK
  <2>3. /\ k.last <= now /\ k.claim <= now
        /\ lastCatchUp[j] <= k.last \/ lastCatchUp[j] <= k.claim
    BY <1>1, <2>1 DEF CatchUpInv, AttemptsOnFile
  <2> HIDE DEF k
  <2> QED BY <1>1, <1>3, <2>1, <2>2, <2>3, JobStep
<1>5. CASE ~r
  <2>1. jobs' = Ran(j)
    BY <1>5 DEF RunEnds
  <2> QED BY <2>1, <1>1, <1>3, RanKeepsInv DEF RunEnds
<1> QED BY <1>4, <1>5

-----------------------------------------------------------------------------
(* The steps of the scheduler, the container and the clock.                *)

LEMMA SchedulerKeepsInv ==
  ASSUME CatchUpInv, NEW j \in Jobs,
         SchedulerFires(j) \/ SchedulerEnds(j) \/ FastForward(j) \/ Toggle(j)
  PROVE  CatchUpInv'
<1>1. /\ CatchUpTypeOK /\ jobs[j] \in Job /\ now \in Time
      /\ work \in [Profiles -> {Free} \cup Listing \cup Running] /\ faults \in 0..MaxFaults
      /\ NextAfter(j, now) \in Time \cup {Never}
  BY NextAfterType DEF CatchUpInv, CatchUpTypeOK, Listing, Running
<1>2. /\ jobs[j].last <= now /\ jobs[j].claim <= now /\ now <= now
      /\ lastCatchUp[j] <= jobs[j].last \/ lastCatchUp[j] <= jobs[j].claim
      /\ lastCatchUp[j] <= now
  BY <1>1 DEF CatchUpInv, AttemptsOnFile, CatchUpTypeOK, Job, Time, Never
<1>3. CASE SchedulerFires(j)
  <2> DEFINE r == [jobs[j] EXCEPT !.claim = now, !.held = TRUE]
  <2>1. r \in Job /\ r.last = jobs[j].last /\ r.claim = now
    BY <1>1 DEF Job
  <2>2. jobs' = [jobs EXCEPT ![j] = r] /\ UNCHANGED <<now, bridgeUp, work, lastCatchUp, leftOut, faults>>
    BY <1>3 DEF SchedulerFires
  <2> HIDE DEF r
  <2> QED BY <1>1, <1>2, <2>1, <2>2, JobStep
<1>4. CASE SchedulerEnds(j)
  <2>1. jobs' = Ran(j) /\ UNCHANGED <<now, bridgeUp, work, lastCatchUp, leftOut, faults>>
    BY <1>4 DEF SchedulerEnds
  <2> QED BY <1>1, <2>1, RanKeepsInv
<1>5. CASE FastForward(j)
  <2> DEFINE r == [jobs[j] EXCEPT !.next = NextAfter(j, now)]
  <2>1. r \in Job /\ r.last = jobs[j].last /\ r.claim = jobs[j].claim
    BY <1>1 DEF Job
  <2>2. jobs' = [jobs EXCEPT ![j] = r] /\ UNCHANGED <<now, bridgeUp, work, lastCatchUp, leftOut, faults>>
    BY <1>5 DEF FastForward
  <2> HIDE DEF r
  <2> QED BY <1>1, <1>2, <2>1, <2>2, JobStep
<1>6. CASE Toggle(j)
  <2> DEFINE r == [jobs[j] EXCEPT !.enabled = ~jobs[j].enabled]
  <2>1. r \in Job /\ r.last = jobs[j].last /\ r.claim = jobs[j].claim
    BY <1>1 DEF Job
  <2>2. jobs' = [jobs EXCEPT ![j] = r] /\ UNCHANGED <<now, bridgeUp, work, lastCatchUp, leftOut>>
    BY <1>6 DEF Toggle
  <2>3. faults' \in 0..MaxFaults
    BY <1>1, <1>6, CatchUpAssumption DEF Toggle
  <2> HIDE DEF r
  <2> QED BY <1>1, <1>2, <2>1, <2>2, <2>3, JobStep
<1> QED BY <1>3, <1>4, <1>5, <1>6

LEMMA ContainerKeepsInv ==
  ASSUME CatchUpInv, NEW p \in Profiles, BridgeDies(p) \/ BridgeStarts(p) \/ Answer(p)
  PROVE  CatchUpInv'
<1>1. /\ CatchUpTypeOK /\ Free \in {Free} \cup Listing \cup Running
      /\ work \in [Profiles -> {Free} \cup Listing \cup Running] /\ faults \in 0..MaxFaults
  BY DEF CatchUpInv, CatchUpTypeOK, Listing, Running
<1>2. /\ work' \in [Profiles -> {Free} \cup Listing \cup Running]
      /\ \A q \in Profiles : work'[q].stage = "running" => work'[q] = work[q]
  <2>1. CASE BridgeStarts(p)
    BY <1>1, <2>1 DEF BridgeStarts
  <2>2. CASE work' = [work EXCEPT ![p] = Free]
    BY <1>1, <2>2 DEF Free
  <2> QED BY <2>1, <2>2 DEF BridgeDies, Answer
<1>3. PicksAreFresh'
  BY <1>2, FewerPicks DEF BridgeDies, BridgeStarts, Answer, CatchUpInv
<1>4. CASE BridgeStarts(p) \/ Answer(p)
  <2>1. CatchUpTypeOK'
    BY <1>1, <1>2, <1>4 DEF BridgeStarts, Answer, CatchUpTypeOK, Listing, Running
  <2> QED BY <1>3, <1>4, <2>1, QuietStep DEF BridgeStarts, Answer
<1>5. CASE BridgeDies(p)
  <2>1. \A j \in Jobs : /\ jobs'[j] \in Job
                       /\ jobs'[j].last = jobs[j].last /\ jobs'[j].claim = jobs[j].claim
    <3> SUFFICES ASSUME NEW j \in Jobs
                 PROVE  /\ jobs'[j] \in Job
                        /\ jobs'[j].last = jobs[j].last /\ jobs'[j].claim = jobs[j].claim
      OBVIOUS
    <3> DEFINE h == jobs[j].held /\ Owner[j] # p
    <3>1. jobs[j] \in Job
      BY <1>1 DEF CatchUpTypeOK
    <3>2. jobs'[j] = [jobs[j] EXCEPT !.held = h]
      BY <1>5 DEF BridgeDies
    <3>3. h \in BOOLEAN
      OBVIOUS
    <3> HIDE DEF h
    <3> QED BY <3>1, <3>2, <3>3 DEF Job
  <2>2. jobs' \in [Jobs -> Job] /\ faults' \in 0..MaxFaults /\ bridgeUp' \in [Profiles -> BOOLEAN]
    BY <1>1, <1>5, <2>1, CatchUpAssumption DEF BridgeDies, CatchUpTypeOK
  <2>3. CatchUpTypeOK'
    BY <1>1, <1>2, <1>5, <2>2 DEF BridgeDies, CatchUpTypeOK, Listing, Running
  <2>4. AttemptsOnFile'
    BY <1>5, <2>1 DEF BridgeDies, CatchUpInv, AttemptsOnFile
  <2> QED BY <1>3, <2>3, <2>4 DEF CatchUpInv
<1> QED BY <1>4, <1>5

LEMMA TickKeepsInv == ASSUME CatchUpInv, Tick PROVE CatchUpInv'
<1>1. CatchUpTypeOK'
  BY CatchUpAssumption DEF Tick, CatchUpInv, CatchUpTypeOK, Time
<1>2. PicksAreFresh'
  BY DEF Tick, CatchUpInv, PicksAreFresh
<1> QED BY <1>1, <1>2, QuietStep DEF Tick

LEMMA CatchUpInvNext == CatchUpInv /\ [CatchUpNext]_catchUpVars => CatchUpInv'
<1> SUFFICES ASSUME CatchUpInv, [CatchUpNext]_catchUpVars PROVE CatchUpInv'
  OBVIOUS
<1>1. CASE Tick
  BY <1>1, TickKeepsInv
<1>2. ASSUME NEW p \in Profiles, NEW r \in BOOLEAN, List(p, r) \/ RunEnds(p, r)
      PROVE  CatchUpInv'
  BY <1>2, ListKeepsInv, RunEndsKeepsInv
<1>3. ASSUME NEW p \in Profiles, work[p].stage = "running", NEW t \in work[p].todo,
             Claim(p, t) \/ Skip(p, t)
      PROVE  CatchUpInv'
  <2>1. t \in Due
    BY <1>3, WorkKinds DEF CatchUpInv, Running
  <2> QED BY <1>3, <2>1, ClaimKeepsInv, SkipKeepsInv
<1>4. ASSUME NEW j \in Jobs,
             SchedulerFires(j) \/ SchedulerEnds(j) \/ FastForward(j) \/ Toggle(j)
      PROVE  CatchUpInv'
  BY <1>4, SchedulerKeepsInv
<1>5. ASSUME NEW p \in Profiles, BridgeDies(p) \/ BridgeStarts(p) \/ Answer(p)
      PROVE  CatchUpInv'
  BY <1>5, ContainerKeepsInv
<1>6. ASSUME NEW p \in Profiles, NEW b \in Bounds, Take(p, b), faults' \in faults..MaxFaults
      PROVE  CatchUpInv'
  <2>1. faults' \in 0..MaxFaults
    BY <1>6, CatchUpAssumption DEF CatchUpInv, CatchUpTypeOK
  <2> QED BY <1>6, <2>1, TakeKeepsInv
<1>7. CASE UNCHANGED catchUpVars
  BY <1>7 DEF catchUpVars, CatchUpInv, CatchUpTypeOK, AttemptsOnFile, PicksAreFresh
<1>8. CASE OtherFault
  BY <1>8, CatchUpAssumption
  DEF OtherFault, CatchUpInv, CatchUpTypeOK, AttemptsOnFile, PicksAreFresh
<1>9. CASE CatchUpNext
  BY <1>9, <1>1, <1>2, <1>3, <1>4, <1>5, <1>6, <1>8 DEF CatchUpNext, Bridge, JobsOf
<1> QED BY <1>7, <1>9

-----------------------------------------------------------------------------

(* A bridge's bookkeeping is sound in every reachable state, for any jobs, *)
(* schedules, callers and number of failures.                              *)
THEOREM CatchUpsAccountForRuns == CatchUpSpec => []CatchUpInv
<1>1. CatchUpInit => CatchUpInv
  BY CatchUpInvInit
<1>2. CatchUpInv /\ [CatchUpNext]_catchUpVars => CatchUpInv'
  BY CatchUpInvNext
<1> QED BY <1>1, <1>2, PTL DEF CatchUpSpec

(* No occurrence of a job is run by two catch-ups, whoever asks for them   *)
(* and wherever the container dies.                                        *)
THEOREM OccurrencesRecoveredOnce == CatchUpSpec => NeverRecoveredTwice
<1>1. ASSUME CatchUpInv, NEW p \in Profiles, NEW t \in Due, Claim(p, t)
      PROVE  lastCatchUp[t.job] < t.due
  BY <1>1 DEF Claim, Picked, CatchUpInv, PicksAreFresh
<1>2. CatchUpInv => [\A p \in Profiles : \A t \in Due :
                       Claim(p, t) => lastCatchUp[t.job] < t.due]_catchUpVars
  BY <1>1
<1> QED BY <1>2, CatchUpsAccountForRuns, PTL DEF NeverRecoveredTwice

-----------------------------------------------------------------------------
(* The windows.                                                            *)

WorkerTypeOK ==
  /\ registry \subseteq Profiles /\ passReg \subseteq Profiles /\ pass \subseteq Window
  /\ call \in [Profiles -> {"none", "asked", "taken", "ok", "failed"}]

FileTypeOK ==
  /\ up \in BOOLEAN /\ lastSeen \in Time \cup {Never} /\ lastSeen <= now
  /\ pending \subseteq Window /\ offline \subseteq Time

DowntimeIsPast ==
  /\ \A t \in offline : t <= now /\ (up => t <= lastSeen)
  /\ lastSeen = Never => offline = {} /\ ~up

FileInv == FileTypeOK /\ WindowsApart /\ DowntimeIsPast /\ DowntimeIsCovered

-----------------------------------------------------------------------------
(* Windows keep their spans when they are updated.                         *)

Apart(S) ==
  \A w \in S : w.from < w.to /\ \A v \in S : v = w \/ v.to <= w.from \/ w.to <= v.from

SameSpans(S, T) ==
  /\ \A u \in T : \E w \in S : u.from = w.from /\ u.to = w.to
  /\ \A u, v \in T : u.to = v.to => u = v

LEMMA EndsAreUnique ==
  ASSUME NEW S \in SUBSET Window, Apart(S), NEW v \in S, NEW w \in S, v.to = w.to
  PROVE  v = w
<1>1. /\ v.from \in Time /\ v.to \in Time /\ w.from \in Time /\ w.to \in Time
      /\ v.from < v.to /\ w.from < w.to
  BY DEF Window, Apart
<1> QED BY <1>1 DEF Apart, Time

LEMMA SpansKeepApart ==
  ASSUME NEW S \in SUBSET Window, Apart(S), NEW T \in SUBSET Window, SameSpans(S, T)
  PROVE  Apart(T)
<1> SUFFICES ASSUME NEW u \in T, NEW v \in T
             PROVE  u.from < u.to /\ (v = u \/ v.to <= u.from \/ u.to <= v.from)
  BY DEF Apart
<1>1. PICK w \in S : u.from = w.from /\ u.to = w.to
  BY DEF SameSpans
<1>2. PICK x \in S : v.from = x.from /\ v.to = x.to
  BY DEF SameSpans
<1>3. CASE x = w
  BY <1>1, <1>2, <1>3 DEF SameSpans, Apart
<1>4. CASE x # w
  BY <1>1, <1>2, <1>4 DEF Apart
<1> QED BY <1>3, <1>4

LEMMA UpdatedSpans ==
  ASSUME NEW S \in SUBSET Window, Apart(S), NEW to \in Time, NEW done \in SUBSET Profiles
  PROVE  Updated(S, to, done) \subseteq Window /\ SameSpans(S, Updated(S, to, done))
<1> DEFINE mark(w) == IF w.to = to THEN [w EXCEPT !.completed = @ \cup done] ELSE w
<1>1. ASSUME NEW w \in S
      PROVE  mark(w) \in Window /\ mark(w).from = w.from /\ mark(w).to = w.to
  BY DEF Window
<1>2. \A u \in Updated(S, to, done) : \E w \in S : u = mark(w)
  BY DEF Updated
<1> HIDE DEF mark
<1>3. Updated(S, to, done) \subseteq Window
  BY <1>1, <1>2
<1>4. ASSUME NEW u \in Updated(S, to, done), NEW v \in Updated(S, to, done), u.to = v.to
      PROVE  u = v
  <2>1. PICK w \in S : u = mark(w)
    BY <1>2
  <2>2. PICK x \in S : v = mark(x)
    BY <1>2
  <2>3. w.to = x.to
    BY <1>1, <1>4, <2>1, <2>2
  <2> QED BY <2>1, <2>2, <2>3, EndsAreUnique
<1> QED BY <1>1, <1>2, <1>3, <1>4 DEF SameSpans

LEMMA InitializedSpans ==
  ASSUME NEW S \in SUBSET Window, Apart(S), NEW to \in Time, NEW targets \in SUBSET Profiles
  PROVE  /\ Initialized(S, to, targets) \subseteq Window
         /\ SameSpans(S, Initialized(S, to, targets))
<1> DEFINE mark(w) ==
      IF w.to = to THEN [w EXCEPT !.targets = targets, !.initialized = TRUE] ELSE w
<1>1. ASSUME NEW w \in S
      PROVE  mark(w) \in Window /\ mark(w).from = w.from /\ mark(w).to = w.to
  BY DEF Window
<1>2. \A u \in Initialized(S, to, targets) : \E w \in S : u = mark(w)
  BY DEF Initialized
<1> HIDE DEF mark
<1>3. Initialized(S, to, targets) \subseteq Window
  BY <1>1, <1>2
<1>4. ASSUME NEW u \in Initialized(S, to, targets), NEW v \in Initialized(S, to, targets),
             u.to = v.to
      PROVE  u = v
  <2>1. PICK w \in S : u = mark(w)
    BY <1>2
  <2>2. PICK x \in S : v = mark(x)
    BY <1>2
  <2>3. w.to = x.to
    BY <1>1, <1>4, <2>1, <2>2
  <2> QED BY <2>1, <2>2, <2>3, EndsAreUnique
<1> QED BY <1>1, <1>2, <1>3, <1>4 DEF SameSpans

LEMMA SpansCompose ==
  ASSUME NEW S, NEW T, NEW U, SameSpans(S, T), SameSpans(T, U) PROVE SameSpans(S, U)
  BY DEF SameSpans

LEMMA PendingIsApart ==
  ASSUME WindowsApart PROVE Apart(pending) /\ \A w \in pending : w.to <= lastSeen
  BY DEF WindowsApart, Apart

-----------------------------------------------------------------------------
(* Mission Control drives the bridges by their own steps.                  *)

LEMMA StepOfCatchUp ==
  ASSUME WorkerTypeOK, CatchUpTypeOK, [CronNext]_cronVars PROVE [CatchUpNext]_catchUpVars
<1>1. CASE Start \/ Heartbeat \/ BeginPass \/ NextWindow \/ EndWindow \/ UNCHANGED cronVars
  BY <1>1 DEF Start, Heartbeat, BeginPass, NextWindow, EndWindow, cronVars
<1>2. CASE Stop \/ RegistryChanges \/ SaveFails \/ Clock
  BY <1>2 DEF Stop, RegistryChanges, SaveFails, Clock, CatchUpNext
<1>3. ASSUME NEW p \in Profiles, AskBridge(p) PROVE [CatchUpNext]_catchUpVars
  <2>1. ASSUME NEW w \in pass, Take(p, [from |-> w.from, to |-> w.to, only |-> Jobs]),
               faults' = faults
        PROVE  CatchUpNext
    <3>1. [from |-> w.from, to |-> w.to, only |-> Jobs] \in Bounds
      BY DEF WorkerTypeOK, Window, Bounds
    <3>2. faults' \in faults..MaxFaults
      BY <2>1, CatchUpAssumption DEF CatchUpTypeOK
    <3> QED BY <2>1, <3>1, <3>2 DEF CatchUpNext
  <2> QED BY <1>3, <2>1 DEF AskBridge
<1>4. ASSUME NEW p \in Profiles, AskTimesOut(p) PROVE UNCHANGED catchUpVars
  BY <1>4 DEF AskTimesOut
<1>5. ASSUME NEW p \in Profiles, BridgeStep(p) \/ AnswerCall(p) \/ BridgeLost(p)
      PROVE  CatchUpNext
  BY <1>5 DEF BridgeStep, AnswerCall, BridgeLost, CatchUpNext
<1>6. ASSUME NEW p \in Profiles, Manual(p) PROVE CatchUpNext
  <2>1. PICK only \in {Jobs} \cup {{j} : j \in JobsOf(p)} :
          Take(p, [from |-> Never, to |-> Never, only |-> only])
    BY <1>6 DEF Manual
  <2>2. [from |-> Never, to |-> Never, only |-> only] \in Bounds
    BY DEF Bounds, JobsOf
  <2>3. faults' \in faults..MaxFaults
    BY <1>6, CatchUpAssumption DEF Manual, CatchUpTypeOK
  <2> QED BY <2>1, <2>2, <2>3 DEF CatchUpNext
<1> QED BY <1>1, <1>2, <1>3, <1>4, <1>5, <1>6 DEF CronNext, Worker, WorkerStep

LEMMA WorkerTypeNext ==
  ASSUME WorkerTypeOK, FileTypeOK, CronNext PROVE WorkerTypeOK'
<1> USE DEF WorkerTypeOK
<1>1. CASE Start \/ Heartbeat \/ Clock
  BY <1>1 DEF Start, Heartbeat, Clock, worker
<1>2. CASE Stop \/ RegistryChanges \/ SaveFails
  BY <1>2 DEF Stop, RegistryChanges, SaveFails, worker, NoCalls
<1>3. CASE BeginPass \/ NextWindow \/ EndWindow
  BY <1>3 DEF BeginPass, NextWindow, EndWindow, NoCalls, FileTypeOK
<1>4. ASSUME NEW p \in Profiles, AskBridge(p) \/ AskTimesOut(p) PROVE WorkerTypeOK'
  BY <1>4 DEF AskBridge, AskTimesOut
<1>5. ASSUME NEW p \in Profiles,
             BridgeStep(p) \/ AnswerCall(p) \/ BridgeLost(p) \/ Manual(p)
      PROVE  WorkerTypeOK'
  BY <1>5 DEF BridgeStep, AnswerCall, BridgeLost, Manual, recoveryVars
<1> QED BY <1>1, <1>2, <1>3, <1>4, <1>5 DEF CronNext, Worker, WorkerStep

-----------------------------------------------------------------------------
(* The state file.                                                         *)

LEMMA TimeFacts ==
  ASSUME CatchUpTypeOK, FileTypeOK
  PROVE  /\ now \in Nat /\ now \in Time /\ lastSeen \in Int /\ Time \subseteq Nat
         /\ lastSeen # Never => lastSeen \in Time
         /\ \A w \in pending : w.from \in Time /\ w.to \in Time
  BY CatchUpAssumption DEF CatchUpTypeOK, FileTypeOK, Time, Never, Window

LEMMA StartKeepsFile ==
  ASSUME CatchUpTypeOK, WorkerTypeOK, FileInv, Start PROVE FileInv'
<1>1. now' = now /\ lastSeen' = now /\ offline' = offline /\ up' = TRUE
  BY DEF Start, catchUpVars
<1>2. FileTypeOK /\ WindowsApart /\ DowntimeIsPast /\ DowntimeIsCovered
  BY DEF FileInv
<1>3. CASE lastSeen # Never /\ lastSeen < now
  <2> DEFINE n == NewWindow
  <2>1. pending' = pending \cup {n} /\ n \in Window /\ n.from = lastSeen /\ n.to = now
    BY <1>2, <1>3, TimeFacts DEF Start, NewWindow, Window, WorkerTypeOK
  <2> HIDE DEF n
  <2>2. FileTypeOK'
    BY <1>1, <1>2, <2>1, TimeFacts DEF FileTypeOK
  <2>3. WindowsApart'
    BY <1>1, <1>2, <1>3, <2>1, TimeFacts DEF WindowsApart
  <2>4. DowntimeIsPast'
    BY <1>1, <1>2, TimeFacts DEF DowntimeIsPast, Time, Never
  <2>5. DowntimeIsCovered'
    <3> SUFFICES ASSUME NEW t \in offline PROVE \E w \in pending' : t \in Covered(w)
      BY <1>1 DEF DowntimeIsCovered
    <3>1. t \in Time /\ t <= now
      BY <1>2 DEF FileTypeOK, DowntimeIsPast
    <3>2. CASE t <= lastSeen
      BY <1>2, <3>2, <2>1 DEF DowntimeIsCovered
    <3>3. CASE ~(t <= lastSeen)
      <4>1. t \in Covered(n)
        BY <1>2, <2>1, <3>1, <3>3, TimeFacts DEF Covered
      <4> QED BY <4>1, <2>1
    <3> QED BY <3>2, <3>3
  <2> QED BY <2>2, <2>3, <2>4, <2>5 DEF FileInv
<1>4. CASE ~(lastSeen # Never /\ lastSeen < now)
  <2>1. pending' = pending /\ (lastSeen = Never \/ lastSeen = now)
    BY <1>2, <1>4, TimeFacts DEF Start, FileTypeOK
  <2>2. FileTypeOK' /\ DowntimeIsPast'
    BY <1>1, <1>2, <2>1, TimeFacts DEF FileTypeOK, DowntimeIsPast, Never, Time
  <2>3. WindowsApart'
    BY <1>1, <1>2, <2>1, TimeFacts DEF WindowsApart, Never
  <2>4. DowntimeIsCovered'
    BY <1>1, <1>2, <2>1, TimeFacts DEF DowntimeIsCovered, DowntimeIsPast, Never
  <2> QED BY <2>2, <2>3, <2>4 DEF FileInv
<1> QED BY <1>3, <1>4

LEMMA HeartbeatKeepsFile ==
  ASSUME CatchUpTypeOK, FileInv, Heartbeat \/ Stop PROVE FileInv'
<1>1. /\ now' = now /\ UNCHANGED <<pending, offline>> /\ up /\ up' \in BOOLEAN
      /\ lastSeen' = lastSeen \/ lastSeen' = now
  BY DEF Heartbeat, Stop, OtherFault, catchUpVars
<1>2. FileTypeOK /\ WindowsApart /\ DowntimeIsPast /\ DowntimeIsCovered
  BY DEF FileInv
<1>3. /\ lastSeen \in Time /\ lastSeen' \in Time /\ now \in Time /\ Time \subseteq Int
      /\ lastSeen # Never /\ lastSeen' # Never /\ lastSeen <= lastSeen' /\ lastSeen' <= now
  <2>1. lastSeen # Never
    BY <1>1, <1>2 DEF DowntimeIsPast
  <2>2. lastSeen \in Time /\ lastSeen <= now
    BY <2>1, <1>2 DEF FileTypeOK
  <2>3. now \in Time /\ Time \subseteq Nat
    BY TimeFacts, <1>2
  <2> QED BY <2>1, <2>2, <2>3, <1>1 DEF Never
<1>4. FileTypeOK'
  BY <1>1, <1>2, <1>3 DEF FileTypeOK
<1>5. DowntimeIsPast'
  BY <1>1, <1>2, <1>3, TimeFacts DEF DowntimeIsPast, FileTypeOK
<1>6. WindowsApart'
  <2>1. \A w \in pending : w.to \in Int /\ w.to <= lastSeen
    BY <1>2, TimeFacts DEF WindowsApart
  <2>2. \A w \in pending : w.to <= lastSeen'
    BY <2>1, <1>3
  <2> QED BY <1>1, <1>2, <2>2 DEF WindowsApart
<1>7. DowntimeIsCovered'
  BY <1>1, <1>2, <1>3, TimeFacts DEF DowntimeIsCovered, DowntimeIsPast
<1> QED BY <1>4, <1>5, <1>6, <1>7 DEF FileInv

LEMMA ClockKeepsFile ==
  ASSUME CatchUpTypeOK, FileInv, Clock PROVE FileInv'
<1>1. /\ now' = now + 1 /\ now' \in Time /\ UNCHANGED <<up, lastSeen, pending>>
      /\ IF up \/ lastSeen = Never THEN offline' = offline ELSE offline' = offline \cup {now + 1}
  BY CatchUpAssumption DEF Clock, Tick, file, CatchUpTypeOK, Time
<1>2. FileTypeOK /\ WindowsApart /\ DowntimeIsPast /\ DowntimeIsCovered
  BY DEF FileInv
<1>3. /\ now \in Nat /\ lastSeen \in Int /\ lastSeen <= now
      /\ Time \subseteq Nat /\ offline' \subseteq offline \cup {now + 1} /\ (up => offline' = offline)
  <2>1. now \in Nat /\ lastSeen \in Int /\ Time \subseteq Nat
    BY <1>2, TimeFacts
  <2> QED BY <1>1, <1>2, <2>1 DEF FileTypeOK
<1>4. FileTypeOK'
  <2>1. lastSeen <= now + 1 /\ now + 1 \in Time
    BY <1>1, <1>3
  <2> QED BY <1>1, <1>2, <1>3, <2>1 DEF FileTypeOK
<1>5. DowntimeIsPast'
  <2>1. ASSUME NEW t \in offline' PROVE t <= now + 1 /\ (up => t <= lastSeen)
    BY <1>2, <1>3 DEF DowntimeIsPast, FileTypeOK
  <2>2. lastSeen = Never => offline' = {} /\ ~up
    BY <1>1, <1>2 DEF DowntimeIsPast
  <2> QED BY <1>1, <2>1, <2>2 DEF DowntimeIsPast
<1>6. WindowsApart'
  BY <1>1, <1>2 DEF WindowsApart
<1>7. DowntimeIsCovered'
  <2>1. ASSUME NEW t \in offline', t <= lastSeen PROVE t \in offline
    BY <1>3, <2>1
  <2> QED BY <1>1, <1>2, <2>1 DEF DowntimeIsCovered
<1> QED BY <1>4, <1>5, <1>6, <1>7 DEF FileInv

(* The worker's updates: windows keep their spans, and what a window that  *)
(* goes covered is no longer due.                                          *)
LEMMA UpdateKeepsFile ==
  ASSUME CatchUpTypeOK, FileInv, UNCHANGED <<now, up, lastSeen>>,
         pending' \subseteq Window, SameSpans(pending, pending'),
         offline' = offline \ Dropped(pending')
  PROVE  FileInv'
<1>1. FileTypeOK /\ WindowsApart /\ DowntimeIsPast /\ DowntimeIsCovered
  BY DEF FileInv
<1>2. pending \subseteq Window /\ Apart(pending)
  BY <1>1, PendingIsApart DEF FileTypeOK
<1>3. Apart(pending')
  BY <1>2, SpansKeepApart
<1>4. WindowsApart'
  BY <1>1, <1>3, PendingIsApart DEF Apart, WindowsApart, SameSpans
<1>5. FileTypeOK' /\ DowntimeIsPast'
  BY <1>1 DEF FileTypeOK, DowntimeIsPast
<1>6. DowntimeIsCovered'
  <2> SUFFICES ASSUME NEW t \in offline', t <= lastSeen PROVE \E w \in pending' : t \in Covered(w)
    BY DEF DowntimeIsCovered
  <2>1. t \in offline /\ t \notin Dropped(pending')
    OBVIOUS
  <2>2. PICK w \in pending : t \in Covered(w)
    BY <1>1, <2>1 DEF DowntimeIsCovered
  <2>3. PICK u \in pending' : u.to = w.to
    BY <2>1, <2>2 DEF Dropped
  <2>4. PICK x \in pending : u.from = x.from /\ u.to = x.to
    BY DEF SameSpans
  <2>5. x = w
    BY <1>2, <2>3, <2>4, EndsAreUnique
  <2>6. t \in Covered(u)
    BY <2>2, <2>4, <2>5 DEF Covered
  <2> QED BY <2>6
<1> QED BY <1>4, <1>5, <1>6 DEF FileInv

LEMMA WorkerKeepsFile ==
  ASSUME CatchUpTypeOK, WorkerTypeOK, FileInv, NextWindow \/ EndWindow PROVE FileInv'
<1>1. /\ pending \in SUBSET Window /\ Apart(pending)
      /\ UNCHANGED <<now, up, lastSeen>> /\ offline' = offline \ Dropped(pending')
  BY PendingIsApart DEF FileInv, FileTypeOK, NextWindow, EndWindow, catchUpVars
<1>2. ASSUME NEW w \in pass, NEW S \in SUBSET Window, Apart(S), NEW done \in SUBSET Profiles
      PROVE  Updated(S, w.to, done) \subseteq Window /\ SameSpans(S, Updated(S, w.to, done))
  <2>1. w.to \in Time
    BY DEF WorkerTypeOK, Window
  <2> QED BY <2>1, <1>2, UpdatedSpans
<1>3. ASSUME NEW w \in pass, NEW known,
             known = IF w.initialized THEN pending ELSE Initialized(pending, w.to, passReg)
      PROVE  known \subseteq Window /\ SameSpans(pending, known) /\ Apart(known)
  <2>1. CASE w.initialized
    <3>1. SameSpans(pending, pending)
      BY <1>1, EndsAreUnique DEF SameSpans
    <3> QED BY <1>1, <1>3, <2>1, <3>1
  <2>2. CASE ~w.initialized
    <3>1. w.to \in Time /\ passReg \in SUBSET Profiles
      BY DEF WorkerTypeOK, Window
    <3>2. known \subseteq Window /\ SameSpans(pending, known)
      BY <1>1, <1>3, <2>2, <3>1, InitializedSpans
    <3> QED BY <1>1, <3>2, SpansKeepApart
  <2> QED BY <2>1, <2>2
<1>4. CASE NextWindow
  <2>1. PICK w \in pass :
          LET known == IF w.initialized THEN pending ELSE Initialized(pending, w.to, passReg)
          IN  pending' = Updated(known, w.to, {}) \/ pending' = known
    BY <1>4 DEF NextWindow
  <2> DEFINE known == IF w.initialized THEN pending ELSE Initialized(pending, w.to, passReg)
  <2>2. known \subseteq Window /\ SameSpans(pending, known) /\ Apart(known)
    BY <1>3
  <2>3. pending' = Updated(known, w.to, {}) \/ pending' = known
    BY <2>1
  <2> HIDE DEF known
  <2>4. pending' \subseteq Window /\ SameSpans(pending, pending')
    <3>1. Updated(known, w.to, {}) \subseteq Window /\ SameSpans(known, Updated(known, w.to, {}))
      BY <2>2, <1>2
    <3> QED BY <2>2, <2>3, <3>1, SpansCompose
  <2> QED BY <1>1, <2>4, UpdateKeepsFile
<1>5. CASE EndWindow
  <2>1. PICK w \in pass : pending' = Updated(pending, w.to, Answered)
    BY <1>5 DEF EndWindow
  <2>2. pending' \subseteq Window /\ SameSpans(pending, pending')
    BY <1>1, <1>2, <2>1 DEF Answered
  <2> QED BY <1>1, <2>2, UpdateKeepsFile
<1> QED BY <1>4, <1>5

LEMMA FileInvNext ==
  ASSUME CatchUpTypeOK, WorkerTypeOK, FileInv, [CronNext]_cronVars PROVE FileInv'
<1>1. CASE Start
  BY <1>1, StartKeepsFile
<1>2. CASE Heartbeat \/ Stop
  BY <1>2, HeartbeatKeepsFile
<1>3. CASE Clock
  BY <1>3, ClockKeepsFile
<1>4. CASE NextWindow \/ EndWindow
  BY <1>4, WorkerKeepsFile
<1>5. CASE UNCHANGED <<now, up, lastSeen, pending, offline>>
  BY <1>5 DEF FileInv, FileTypeOK, WindowsApart, DowntimeIsPast, DowntimeIsCovered
<1>6. CASE RegistryChanges \/ SaveFails \/ BeginPass \/ UNCHANGED cronVars
  BY <1>5, <1>6 DEF RegistryChanges, SaveFails, BeginPass, OtherFault, file, catchUpVars,
                    recoveryVars, cronVars
<1>7. ASSUME NEW p \in Profiles,
             AskBridge(p) \/ AskTimesOut(p) \/ AnswerCall(p) \/ BridgeLost(p)
      PROVE  FileInv'
  BY <1>5, <1>7
  DEF AskBridge, Take, AskTimesOut, AnswerCall, Answer, BridgeLost, BridgeDies, file, catchUpVars
<1>8. ASSUME NEW p \in Profiles, BridgeStep(p) \/ Manual(p) PROVE FileInv'
  <2>1. now' = now
    BY <1>8 DEF BridgeStep, Bridge, List, RunEnds, Claim, Skip, SchedulerFires, SchedulerEnds,
                FastForward, Toggle, BridgeStarts, Manual, Take
  <2> QED BY <1>5, <1>8, <2>1 DEF BridgeStep, Manual, recoveryVars
<1> QED BY <1>1, <1>2, <1>3, <1>4, <1>6, <1>7, <1>8 DEF CronNext, Worker, WorkerStep

-----------------------------------------------------------------------------

LEMMA RecoveryInvInit == CronInit => CatchUpInv /\ WorkerTypeOK /\ FileInv
<1> SUFFICES ASSUME CronInit PROVE CatchUpInv /\ WorkerTypeOK /\ FileInv
  OBVIOUS
<1>1. CatchUpInv
  BY CatchUpInvInit DEF CronInit
<1>2. WorkerTypeOK
  BY DEF CronInit, WorkerTypeOK, NoCalls
<1>3. now = 0 /\ lastSeen = Never /\ up = FALSE /\ pending = {} /\ offline = {}
  BY DEF CronInit, CatchUpInit
<1>4. FileTypeOK
  <2>1. lastSeen <= now
    BY <1>3 DEF Never
  <2> QED BY <1>3, <2>1 DEF FileTypeOK
<1>5. WindowsApart /\ DowntimeIsPast /\ DowntimeIsCovered
  BY <1>3 DEF WindowsApart, DowntimeIsPast, DowntimeIsCovered
<1>6. FileInv
  BY <1>4, <1>5 DEF FileInv
<1> QED BY <1>1, <1>2, <1>6

LEMMA RecoveryInvNext ==
  CatchUpInv /\ WorkerTypeOK /\ FileInv /\ [CronNext]_cronVars
    => (CatchUpInv /\ WorkerTypeOK /\ FileInv)'
<1> SUFFICES ASSUME CatchUpInv, WorkerTypeOK, FileInv, [CronNext]_cronVars
             PROVE  CatchUpInv' /\ WorkerTypeOK' /\ FileInv'
  OBVIOUS
<1>1. CatchUpTypeOK /\ FileTypeOK
  BY DEF CatchUpInv, FileInv
<1>2. CatchUpInv'
  BY <1>1, StepOfCatchUp, CatchUpInvNext
<1>3. WorkerTypeOK'
  <2>1. CASE UNCHANGED cronVars
    BY <2>1 DEF cronVars, recoveryVars, WorkerTypeOK
  <2> QED BY <1>1, <2>1, WorkerTypeNext
<1>4. FileInv'
  BY <1>1, FileInvNext
<1> QED BY <1>2, <1>3, <1>4

THEOREM RecoveryInvariant == CronSafety => [](CatchUpInv /\ WorkerTypeOK /\ FileInv)
  BY RecoveryInvInit, RecoveryInvNext, PTL DEF CronSafety

(* Whatever Mission Control does, crashes and time-outs included, is for   *)
(* the bridges a behaviour of the module they were proved about.           *)
THEOREM RecoveryDrivesBridges == CronSafety => CatchUpSpec
<1>1. CronInit => CatchUpInit
  BY DEF CronInit
<1>2. CatchUpInv /\ WorkerTypeOK /\ [CronNext]_cronVars => [CatchUpNext]_catchUpVars
  BY StepOfCatchUp DEF CatchUpInv
<1> QED BY <1>1, <1>2, RecoveryInvariant, PTL DEF CronSafety, CatchUpSpec

(* An occurrence is run by one catch-up at most, over retries of windows,  *)
(* manual catch-ups and restarts on both sides.                            *)
THEOREM RecoveredOnce == CronSafety => NeverRecoveredTwice
  BY RecoveryDrivesBridges, OccurrencesRecoveredOnce, PTL

(* Windows never overlap, so each occurrence is asked for once.            *)
THEOREM WindowsStayApart == CronSafety => []WindowsApart
<1>1. FileInv => WindowsApart
  BY DEF FileInv
<1> QED BY <1>1, RecoveryInvariant, PTL

(* No downtime is forgotten: until a window is dropped its instants stay   *)
(* in a pending window, over restarts that follow each other closely.      *)
THEOREM DowntimeStaysCovered == CronSafety => []DowntimeIsCovered
<1>1. FileInv => DowntimeIsCovered
  BY DEF FileInv
<1> QED BY <1>1, RecoveryInvariant, PTL

THEOREM RecoveryTypes == CronSafety => []CronTypeOK
<1>1. CatchUpInv /\ WorkerTypeOK /\ FileInv => CronTypeOK
  BY DEF CatchUpInv, WorkerTypeOK, FileInv, FileTypeOK, CronTypeOK
<1> QED BY <1>1, RecoveryInvariant, PTL

-----------------------------------------------------------------------------
(* The latest of some instants.                                            *)

LEMMA LessThan == \A x, y \in Nat : <<x, y>> \in OpToRel(<, Nat) <=> x < y
BY DEF OpToRel

LEMMA LatestExists ==
  ASSUME NEW T \in SUBSET Time, T # {}
  PROVE  \E d \in T : \A c \in T : c <= d
<1> DEFINE S == {MaxTime - c : c \in T}
           R == OpToRel(<, Nat)
<1>0. \A c \in T : c \in Nat /\ MaxTime - c \in Nat
  BY CatchUpAssumption DEF Time
<1>1. S \subseteq Nat /\ S # {}
  BY <1>0
<1>2. IsWellFoundedOn(R, Nat)
  BY NatLessThanWellFounded
<1>3. \A x, y \in Nat : <<x, y>> \in R <=> x < y
  BY LessThan
<1> HIDE DEF S, R
<1>4. PICK x \in S : \A y \in S : ~(<<y, x>> \in R)
  BY <1>1, <1>2, WFMin
<1>5. \A y \in S : ~(y < x)
  BY <1>1, <1>3, <1>4
<1>6. QED
  <2>1. PICK d \in T : x = MaxTime - d
    BY <1>4 DEF S
  <2>2. ASSUME NEW c \in T PROVE c <= d
    <3>1. MaxTime - c \in S
      BY DEF S
    <3>2. ~(MaxTime - c < MaxTime - d)
      BY <1>5, <2>1, <3>1
    <3>3. QED
      BY <1>0, <3>2, CatchUpAssumption
  <2>3. QED
    BY <2>2

LEMMA ModBound == \A a \in Nat, b \in Nat \ {0} : a % b \in 0..(b - 1)
OBVIOUS

-----------------------------------------------------------------------------
(* What was missed stays settled                                           *)

(* Every occurrence of j after `from` and up to `to` has been attempted.   *)
Handled(j, from, to) == \A t \in Candidates(j, to) : t <= from \/ t <= Attempt(j)

Seen(j, from, to) == Handled(j, from, to) \/ <<j, to>> \in leftOut

(* A file's next run is in the future when it changes, and its attempts    *)
(* only get later.                                                         *)
JobForward(j) ==
  /\ jobs'[j].next = jobs[j].next \/ jobs'[j].next = NextAfter(j, now)
  /\ \/ jobs'[j].last = jobs[j].last /\ jobs'[j].claim \in {jobs[j].claim, now}
     \/ jobs'[j].last = now /\ jobs'[j].claim = Never

LEMMA NextIsLater ==
  ASSUME NEW j \in Jobs, NEW t \in Time
  PROVE  NextAfter(j, t) = Never \/ NextAfter(j, t) > t
<1>1. /\ t \in Nat /\ Schedule[j].at \in Nat /\ Schedule[j].period \in Nat \ {0}
      /\ Schedule[j].kind \in {"cron", "interval", "once"}
  BY CatchUpAssumption DEF Time
<1>2. t >= Schedule[j].at =>
        (t - Schedule[j].at) % Schedule[j].period \in 0..(Schedule[j].period - 1)
  <2> SUFFICES ASSUME t >= Schedule[j].at
               PROVE  (t - Schedule[j].at) % Schedule[j].period \in 0..(Schedule[j].period - 1)
    OBVIOUS
  <2>1. t - Schedule[j].at \in Nat
    BY <1>1
  <2>2. QED
    BY <1>1, <2>1, ModBound
<1>3. CASE Schedule[j].kind = "cron" /\ t < Schedule[j].at
  <2>1. NextAfter(j, t) = IF Schedule[j].at \in Time THEN Schedule[j].at ELSE Never
    <3>1. ~(t >= Schedule[j].at)
      BY <1>1, <1>3
    <3>2. "cron" # "interval" /\ "cron" # "once"
      OBVIOUS
    <3>3. QED
      BY <1>3, <3>1, <3>2 DEF NextAfter
  <2>2. QED
    BY <1>1, <1>3, <2>1
<1>4. CASE Schedule[j].kind = "cron" /\ ~(t < Schedule[j].at)
  <2> DEFINE m == (t - Schedule[j].at) % Schedule[j].period
  <2>1. m \in 0..(Schedule[j].period - 1)
    BY <1>1, <1>2, <1>4
  <2>2. NextAfter(j, t) = IF (t + Schedule[j].period) - m \in Time
                          THEN (t + Schedule[j].period) - m ELSE Never
    BY <1>1, <1>4 DEF NextAfter
  <2> HIDE DEF m
  <2>3. (t + Schedule[j].period) - m > t
    BY <1>1, <2>1
  <2>4. QED
    BY <2>2, <2>3
<1>5. CASE Schedule[j].kind = "interval" \/ Schedule[j].kind = "once"
  BY <1>1, <1>5 DEF NextAfter, Never, Time
<1>6. QED
  BY <1>1, <1>3, <1>4, <1>5

LEMMA OneJobForward ==
  ASSUME CatchUpTypeOK, NEW k \in Jobs, NEW r, jobs' = [jobs EXCEPT ![k] = r],
         r.next = jobs[k].next \/ r.next = NextAfter(k, now),
         \/ r.last = jobs[k].last /\ r.claim \in {jobs[k].claim, now}
         \/ r.last = now /\ r.claim = Never
  PROVE  \A j \in Jobs : JobForward(j)
<1>1. ASSUME NEW j \in Jobs, j = k PROVE JobForward(j)
  BY <1>1 DEF CatchUpTypeOK, JobForward
<1>2. ASSUME NEW j \in Jobs, j # k PROVE JobForward(j)
  BY <1>2 DEF CatchUpTypeOK, JobForward
<1>3. QED
  BY <1>1, <1>2

LEMMA RanForward ==
  ASSUME CatchUpTypeOK, NEW k \in Jobs, jobs' = Ran(k)
  PROVE  \A j \in Jobs : JobForward(j)
<1> DEFINE r == [jobs[k] EXCEPT !.last = now, !.claim = Never, !.held = FALSE,
                                !.next = NextAfter(k, now)]
<1>1. r.last = now /\ r.claim = Never /\ r.next = NextAfter(k, now)
  BY DEF CatchUpTypeOK, Job
<1>2. jobs' = [jobs EXCEPT ![k] = r]
  BY DEF Ran
<1> HIDE DEF r
<1>3. QED
  BY <1>1, <1>2, OneJobForward

LEMMA JobsGoForward ==
  ASSUME CatchUpTypeOK, [CatchUpNext]_catchUpVars
  PROVE  \A j \in Jobs : JobForward(j)
<1>0. /\ jobs \in [Jobs -> Job] /\ now \in Time
      /\ \A j \in Jobs : /\ jobs[j].next \in Time \cup {Never} /\ jobs[j].last \in Time \cup {Never}
                         /\ jobs[j].claim \in Time \cup {Never}
  BY DEF CatchUpTypeOK, Job
<1>1. CASE UNCHANGED jobs
  BY <1>1 DEF JobForward
<1>2. ASSUME NEW p \in Profiles, NEW r \in BOOLEAN, RunEnds(p, r)
      PROVE  \A j \in Jobs : JobForward(j)
  <2>1. work[p].job \in Jobs
    BY <1>2, WorkKinds DEF RunEnds, Running
  <2> DEFINE k == work[p].job
             x == [jobs[k] EXCEPT !.held = FALSE]
  <2>2. x.next = jobs[k].next /\ x.last = jobs[k].last /\ x.claim = jobs[k].claim
    BY <1>0, <2>1 DEF Job
  <2>3. jobs' = [jobs EXCEPT ![k] = x] \/ jobs' = Ran(k)
    BY <1>2 DEF RunEnds
  <2>4. k \in Jobs
    BY <2>1
  <2> HIDE DEF x, k
  <2>5. QED
    BY <1>0, <2>2, <2>3, <2>4, OneJobForward, RanForward
<1>3. ASSUME NEW p \in Profiles, NEW t, t \in work[p].todo, work[p].stage = "running", Claim(p, t)
      PROVE  \A j \in Jobs : JobForward(j)
  <2>1. t.job \in Jobs
    BY <1>3, WorkKinds DEF Running, Due
  <2> DEFINE x == [jobs[t.job] EXCEPT !.claim = now, !.held = TRUE]
  <2>2. x.next = jobs[t.job].next /\ x.last = jobs[t.job].last /\ x.claim = now
    BY <1>0, <2>1 DEF Job
  <2>3. jobs' = [jobs EXCEPT ![t.job] = x]
    BY <1>3 DEF Claim
  <2> HIDE DEF x
  <2>4. QED
    BY <2>1, <2>2, <2>3, OneJobForward
<1>4. ASSUME NEW k \in Jobs, SchedulerFires(k) PROVE \A j \in Jobs : JobForward(j)
  <2> DEFINE x == [jobs[k] EXCEPT !.claim = now, !.held = TRUE]
  <2>1. x.next = jobs[k].next /\ x.last = jobs[k].last /\ x.claim = now
    BY <1>0 DEF Job
  <2>2. jobs' = [jobs EXCEPT ![k] = x]
    BY <1>4 DEF SchedulerFires
  <2> HIDE DEF x
  <2>3. QED
    BY <2>1, <2>2, OneJobForward
<1>5. ASSUME NEW k \in Jobs, SchedulerEnds(k) PROVE \A j \in Jobs : JobForward(j)
  BY <1>5, RanForward DEF SchedulerEnds
<1>6. ASSUME NEW k \in Jobs, FastForward(k) PROVE \A j \in Jobs : JobForward(j)
  <2> DEFINE x == [jobs[k] EXCEPT !.next = NextAfter(k, now)]
  <2>1. x.next = NextAfter(k, now) /\ x.last = jobs[k].last /\ x.claim = jobs[k].claim
    BY <1>0 DEF Job
  <2>2. jobs' = [jobs EXCEPT ![k] = x]
    BY <1>6 DEF FastForward
  <2> HIDE DEF x
  <2>3. QED
    BY <2>1, <2>2, OneJobForward
<1>7. ASSUME NEW k \in Jobs, Toggle(k) PROVE \A j \in Jobs : JobForward(j)
  <2> DEFINE x == [jobs[k] EXCEPT !.enabled = ~@]
  <2>1. x.next = jobs[k].next /\ x.last = jobs[k].last /\ x.claim = jobs[k].claim
    BY <1>0 DEF Job
  <2>2. jobs' = [jobs EXCEPT ![k] = x]
    BY <1>7 DEF Toggle
  <2> HIDE DEF x
  <2>3. QED
    BY <2>1, <2>2, OneJobForward
<1>8. ASSUME NEW p \in Profiles, BridgeDies(p) PROVE \A j \in Jobs : JobForward(j)
  <2>1. ASSUME NEW j \in Jobs PROVE JobForward(j)
    <3> DEFINE x == [jobs[j] EXCEPT !.held = @ /\ Owner[j] # p]
    <3>1. x.next = jobs[j].next /\ x.last = jobs[j].last /\ x.claim = jobs[j].claim
      BY <1>0 DEF Job
    <3>2. jobs'[j] = x
      BY <1>8 DEF BridgeDies
    <3> HIDE DEF x
    <3>3. QED
      BY <3>1, <3>2 DEF JobForward
  <2>2. QED
    BY <2>1
<1>9. ASSUME NEW p \in Profiles, NEW b, Take(p, b) PROVE UNCHANGED jobs
  BY <1>9 DEF Take
<1>10. Tick \/ OtherFault \/ UNCHANGED catchUpVars => UNCHANGED jobs
  BY DEF Tick, OtherFault, catchUpVars
<1>11. ASSUME NEW p \in Profiles, NEW t, NEW r,
              List(p, r) \/ Skip(p, t) \/ BridgeStarts(p) \/ Answer(p)
       PROVE  UNCHANGED jobs
  BY <1>11 DEF List, Skip, BridgeStarts, Answer
<1>12. QED
  BY <1>1, <1>2, <1>3, <1>4, <1>5, <1>6, <1>7, <1>8, <1>9, <1>10, <1>11
  DEF CatchUpNext, Bridge, JobsOf

LEMMA LeftOutGrows ==
  ASSUME [CatchUpNext]_catchUpVars PROVE leftOut \subseteq leftOut'
BY DEF CatchUpNext, Bridge, Tick, OtherFault, List, RunEnds, Claim, Skip, SchedulerFires,
       SchedulerEnds, FastForward, Toggle, BridgeStarts, Answer, BridgeDies, Take, catchUpVars

LEMMA SeenStays ==
  ASSUME CatchUpInv, [CatchUpNext]_catchUpVars, NEW j \in Jobs, NEW from \in Int, NEW to \in Int,
         to <= now, Seen(j, from, to)
  PROVE  Seen(j, from, to)'
<1>0. /\ now \in Time /\ Time \subseteq Nat /\ jobs[j].last \in Int /\ jobs[j].claim \in Int
      /\ jobs[j].last <= now /\ jobs[j].claim <= now /\ Never \in Int /\ Never < now
      /\ CatchUpTypeOK
  BY CatchUpAssumption DEF CatchUpInv, CatchUpTypeOK, AttemptsOnFile, Time, Never, Job
<1>1. JobForward(j)
  BY <1>0, JobsGoForward
<1>2. NextAfter(j, now) = Never \/ NextAfter(j, now) > now
  BY <1>0, NextIsLater
<1>3. Attempt(j) \in Int /\ Attempt(j)' \in Int /\ Attempt(j) <= Attempt(j)'
  BY <1>0, <1>1 DEF JobForward, Attempt
<1>4. \A t \in Candidates(j, to)' : t \in Candidates(j, to)
  <2> SUFFICES ASSUME NEW t \in Candidates(j, to)' PROVE t \in Candidates(j, to)
    OBVIOUS
  <2>1. t \in Time /\ t <= to /\ t <= now /\ t \in Nat
    BY <1>0 DEF Candidates
  <2>2. t = jobs'[j].next => t = jobs[j].next
    BY <1>0, <1>1, <1>2, <2>1 DEF JobForward, Never
  <2>3. jobs'[j].last = jobs[j].last \/ (jobs'[j].last = now /\ now # Never /\ ~(t > now))
    BY <1>0, <1>1, <2>1 DEF JobForward, Never
  <2>4. CASE jobs'[j].last = jobs[j].last
    BY <2>1, <2>2, <2>4 DEF Candidates
  <2>5. CASE jobs'[j].last = now /\ now # Never /\ ~(t > now)
    BY <2>1, <2>2, <2>5 DEF Candidates
  <2>6. QED
    BY <2>3, <2>4, <2>5
<1>5. CASE Handled(j, from, to)
  <2>1. ASSUME NEW t \in Candidates(j, to)' PROVE t <= from \/ t <= Attempt(j)'
    <3>1. t \in Candidates(j, to) /\ t \in Int
      BY <1>0, <1>4 DEF Candidates
    <3>2. t <= from \/ t <= Attempt(j)
      BY <1>5, <3>1 DEF Handled
    <3>3. QED
      BY <1>3, <3>1, <3>2
  <2>2. QED
    BY <2>1 DEF Seen, Handled
<1>6. CASE <<j, to>> \in leftOut
  BY <1>6, LeftOutGrows DEF Seen
<1>7. QED
  BY <1>5, <1>6 DEF Seen

-----------------------------------------------------------------------------
(* What a catch-up still has to do, and what it has seen to.               *)

BoundsArePast ==
  \A p \in Profiles : work[p].stage \in {"listing", "running"} => work[p].bounds.to <= now

\* Each job that catch-up w was asked about is settled or still to be run.
SeesTo(p, b, todo) ==
  b.to # Never =>
    \A j \in JobsOf(p) \cap b.only : Seen(j, b.from, b.to) \/ \E t \in todo : t.job = j

WorkCovers ==
  \A p \in Profiles : work[p].stage = "running" => SeesTo(p, work[p].bounds, work[p].todo)

\* After the step, with what is left to run.
WillSeeTo(p, b, left) ==
  b.to # Never =>
    \A j \in JobsOf(p) \cap b.only : Seen(j, b.from, b.to)' \/ \E t \in left : t.job = j

\* The step settles the jobs of the picks that it takes out of `todo`.
LeftOrSettled(b, todo, left) ==
  b.to # Never => \A t \in todo : t \in left \/ Seen(t.job, b.from, b.to)'

LEMMA ListSeesTo ==
  ASSUME CatchUpInv, NEW p \in Profiles, NEW r \in BOOLEAN, List(p, r), NEW b \in Bounds,
         b = work[p].bounds
  PROVE  WillSeeTo(p, b, work'[p].todo)
<1> SUFFICES ASSUME NEW j \in JobsOf(p) \cap b.only, b.to # Never
             PROVE  Seen(j, b.from, b.to)' \/ \E t \in work'[p].todo : t.job = j
  BY DEF WillSeeTo
<1>1. /\ CatchUpTypeOK /\ j \in Jobs /\ b.to \in Time /\ b.from \in Int /\ EndOf(b) = b.to
      /\ jobs' = jobs /\ Attempt(j) \in Int /\ Time \subseteq Nat
  BY CatchUpAssumption DEF CatchUpInv, CatchUpTypeOK, JobsOf, Bounds, Job, EndOf, List, Attempt, Time, Never
<1>2. CASE ~jobs[j].enabled \/ ~r
  BY <1>1, <1>2 DEF List, Reported, Hidden, JobsOf, Seen
<1>3. CASE Handled(j, b.from, b.to)
  <2>1. Candidates(j, b.to)' = Candidates(j, b.to) /\ Attempt(j)' = Attempt(j)
    BY <1>1 DEF Candidates, Attempt
  <2> QED BY <1>3, <2>1 DEF Handled, Seen
<1>4. CASE jobs[j].enabled /\ r /\ ~Handled(j, b.from, b.to)
  <2>1. PICK c \in Candidates(j, b.to) : ~(c <= b.from) /\ ~(c <= Attempt(j))
    BY <1>4 DEF Handled
  <2>2. Candidates(j, b.to) \in SUBSET Time
    BY DEF Candidates
  <2>3. PICK d \in Candidates(j, b.to) : \A e \in Candidates(j, b.to) : e <= d
    BY <2>1, <2>2, LatestExists
  <2>4. c \in Int /\ d \in Int /\ d \in Time
    <3>1. c \in Time /\ d \in Time
      BY DEF Candidates
    <3> QED BY <3>1 DEF Time
  <2>5. b.from < d /\ Attempt(j) < d
    BY <1>1, <2>1, <2>3, <2>4
  <2>6. MissedDue(j, b.from, EndOf(b), d)
    BY <1>1, <1>4, <2>3, <2>5 DEF MissedDue
  <2> DEFINE t == [job |-> j, due |-> d]
  <2>7. t \in Due /\ t.job = j /\ t.due = d
    BY <1>1, <2>4 DEF Due
  <2> DEFINE missed == {u \in Due : /\ r /\ u.job \in JobsOf(p) \cap b.only
                                    /\ MissedDue(u.job, b.from, EndOf(b), u.due)}
  <2>8. t \in missed
    BY <1>4, <2>6, <2>7
  <2>9. work'[p].todo = missed
    <3> DEFINE w == [stage |-> "running", bounds |-> b, todo |-> missed, job |-> Nothing]
    <3>1. work' = [work EXCEPT ![p] = w]
      BY DEF List
    <3>2. work'[p] = w
      BY <1>1, <3>1 DEF CatchUpTypeOK
    <3> HIDE DEF missed
    <3> QED BY <3>2
  <2> QED BY <2>7, <2>8, <2>9
<1> QED BY <1>2, <1>3, <1>4

LEMMA ClaimHandles ==
  ASSUME CatchUpInv, NEW p \in Profiles, NEW t \in Due, Claim(p, t), NEW from, NEW to \in Int,
         to <= now
  PROVE  Seen(t.job, from, to)'
<1>1. /\ t.job \in Jobs /\ jobs \in [Jobs -> Job] /\ jobs[t.job] \in Job /\ jobs[t.job].last <= now
      /\ now \in Time /\ Time \subseteq Nat
  BY CatchUpAssumption DEF CatchUpInv, CatchUpTypeOK, AttemptsOnFile, Due, Time
<1> DEFINE r == [jobs[t.job] EXCEPT !.claim = now, !.held = TRUE]
<1>2. r.last = jobs[t.job].last /\ r.claim = now
  BY <1>1 DEF Job
<1>3. jobs'[t.job] = r
  BY <1>1 DEF Claim
<1> HIDE DEF r
<1>4. Attempt(t.job)' = now
  <2>1. jobs[t.job].last \in Int
    BY <1>1 DEF Job, Never, Time
  <2> QED BY <1>1, <1>2, <1>3, <2>1 DEF Attempt
<1>5. \A c \in Candidates(t.job, to)' : c \in Int /\ c <= to
  BY <1>1 DEF Candidates
<1>6. \A c \in Candidates(t.job, to)' : c <= Attempt(t.job)'
  BY <1>1, <1>4, <1>5
<1> QED BY <1>6 DEF Seen, Handled

(* A catch-up that keeps its bounds, and the picks whose jobs are not      *)
(* settled by the step, still sees to its jobs.                            *)
LEMMA CarryOn ==
  ASSUME CatchUpInv, [CatchUpNext]_catchUpVars, NEW p \in Profiles, NEW b \in Bounds, b.to <= now,
         NEW todo, SeesTo(p, b, todo), NEW left, LeftOrSettled(b, todo, left)
  PROVE  WillSeeTo(p, b, left)
<1> SUFFICES ASSUME b.to # Never, NEW j \in JobsOf(p) \cap b.only
             PROVE  Seen(j, b.from, b.to)' \/ \E t \in left : t.job = j
  BY DEF WillSeeTo
<1>1. b.from \in Int /\ b.to \in Int /\ j \in Jobs
  BY CatchUpAssumption DEF Bounds, JobsOf, Time, Never
<1>2. CASE Seen(j, b.from, b.to)
  BY <1>1, <1>2, SeenStays
<1>3. CASE ~Seen(j, b.from, b.to)
  <2>1. PICK t \in todo : t.job = j
    BY <1>3 DEF SeesTo
  <2> QED BY <2>1 DEF LeftOrSettled
<1> QED BY <1>2, <1>3

(* What a bridge does without being asked to a catch-up p.                 *)
LEMMA BridgeMoves ==
  ASSUME CatchUpTypeOK, NEW p \in Profiles, NEW q \in Profiles, Bridge(q)
  PROVE  \/ work'[p] = work[p]
         \/ /\ work[p].stage = "listing" /\ work'[p].stage = "running"
            /\ work'[p].bounds = work[p].bounds
            /\ \E r \in BOOLEAN : List(p, r)
         \/ /\ work[p].stage = "running" /\ work'[p].stage = "running"
            /\ work'[p].bounds = work[p].bounds
            /\ \/ work'[p].todo = work[p].todo
               \/ \E t \in work[p].todo : /\ Claim(p, t) \/ Skip(p, t)
                                          /\ work'[p].todo = work[p].todo \ {t}
<1>1. ASSUME NEW r \in BOOLEAN, List(p, r)
      PROVE  /\ work[p].stage = "listing" /\ work'[p].stage = "running"
             /\ work'[p].bounds = work[p].bounds
  BY <1>1 DEF List, CatchUpTypeOK
<1>2. ASSUME NEW r \in BOOLEAN, RunEnds(p, r)
      PROVE  /\ work[p].stage = "running" /\ work'[p].stage = "running"
             /\ work'[p].bounds = work[p].bounds /\ work'[p].todo = work[p].todo
  <2>1. work[p] \in Running
    BY <1>2, WorkKinds DEF RunEnds
  <2> QED BY <1>2, <2>1 DEF RunEnds, CatchUpTypeOK, Running
<1>3. ASSUME NEW t \in work[p].todo, Claim(p, t) \/ Skip(p, t)
      PROVE  /\ work[p].stage = "running" /\ work'[p].stage = "running"
             /\ work'[p].bounds = work[p].bounds /\ work'[p].todo = work[p].todo \ {t}
  <2>1. work[p] \in Running
    BY <1>3, WorkKinds DEF Claim, Skip, Picked
  <2>2. \/ work'[p] = [work[p] EXCEPT !.todo = work[p].todo \ {t}, !.job = t.job]
        \/ work'[p] = [work[p] EXCEPT !.todo = work[p].todo \ {t}]
    BY <1>3 DEF Claim, Skip, CatchUpTypeOK
  <2> QED BY <2>1, <2>2 DEF Running
<1>4. ASSUME NEW r, NEW t, q # p, List(q, r) \/ RunEnds(q, r) \/ Claim(q, t) \/ Skip(q, t)
      PROVE  work'[p] = work[p]
  BY <1>4 DEF List, RunEnds, Claim, Skip, CatchUpTypeOK
<1>5. ASSUME NEW j \in Jobs,
             \/ SchedulerFires(j) \/ SchedulerEnds(j) \/ FastForward(j) \/ Toggle(j)
             \/ BridgeStarts(q)
      PROVE  work'[p] = work[p]
  BY <1>5 DEF SchedulerFires, SchedulerEnds, FastForward, Toggle, BridgeStarts
<1>6. CASE BridgeStarts(q)
  BY <1>6 DEF BridgeStarts
<1>7. CASE \E j \in JobsOf(q) : SchedulerFires(j) \/ SchedulerEnds(j) \/ FastForward(j) \/ Toggle(j)
  BY <1>5, <1>7 DEF JobsOf
<1>8. CASE \E r \in BOOLEAN : List(q, r) \/ RunEnds(q, r)
  BY <1>1, <1>2, <1>4, <1>8
<1>9. CASE \E t \in work[q].todo : Claim(q, t) \/ Skip(q, t)
  BY <1>3, <1>4, <1>9
<1> QED BY <1>6, <1>7, <1>8, <1>9 DEF Bridge

LEMMA WorkMoves ==
  ASSUME CatchUpInv, [CatchUpNext]_catchUpVars, NEW p \in Profiles, work'[p].stage = "running"
  PROVE  \/ /\ work[p].stage = "listing" /\ work'[p].bounds = work[p].bounds
            /\ \E r \in BOOLEAN : List(p, r)
         \/ /\ work[p].stage = "running" /\ work'[p].bounds = work[p].bounds
            /\ \/ work'[p].todo = work[p].todo
               \/ \E t \in work[p].todo : /\ Claim(p, t) \/ Skip(p, t)
                                          /\ work'[p].todo = work[p].todo \ {t}
<1>1. CatchUpTypeOK
  BY DEF CatchUpInv
<1>2. ASSUME NEW q \in Profiles, Answer(q) \/ BridgeDies(q) PROVE work'[p] = work[p]
  <2>1. work' = [work EXCEPT ![q] = Free] /\ Free.stage # "running"
    BY <1>2 DEF Answer, BridgeDies, Free
  <2> QED BY <1>1, <2>1 DEF CatchUpTypeOK
<1>3. ASSUME NEW q \in Profiles, NEW b, Take(q, b) PROVE work'[p] = work[p]
  BY <1>1, <1>3 DEF Take, CatchUpTypeOK
<1>4. CASE Tick \/ OtherFault \/ UNCHANGED catchUpVars
  BY <1>4 DEF Tick, OtherFault, catchUpVars
<1>5. ASSUME NEW q \in Profiles, Bridge(q)
      PROVE  \/ work'[p] = work[p]
             \/ /\ work[p].stage = "listing" /\ work'[p].bounds = work[p].bounds
                /\ \E r \in BOOLEAN : List(p, r)
             \/ /\ work[p].stage = "running" /\ work'[p].bounds = work[p].bounds
                /\ \/ work'[p].todo = work[p].todo
                   \/ \E t \in work[p].todo : /\ Claim(p, t) \/ Skip(p, t)
                                              /\ work'[p].todo = work[p].todo \ {t}
  BY <1>1, <1>5, BridgeMoves
<1>6. CASE work'[p] = work[p]
  BY <1>6
<1> QED BY <1>2, <1>3, <1>4, <1>5, <1>6 DEF CatchUpNext

LEMMA WorkCoversNext ==
  ASSUME CatchUpInv, BoundsArePast, WorkCovers, [CatchUpNext]_catchUpVars
  PROVE  WorkCovers'
<1> SUFFICES ASSUME NEW p \in Profiles, work'[p].stage = "running"
             PROVE  SeesTo(p, work[p].bounds, work[p].todo)'
  BY DEF WorkCovers
<1>1. CatchUpTypeOK /\ work[p].stage \in {"listing", "running"} /\ work'[p].bounds = work[p].bounds
  BY WorkMoves DEF CatchUpInv
<1>2. PICK b : b = work[p].bounds
  OBVIOUS
<1>3. b \in Bounds /\ b.to <= now
  <2>1. work[p] \in Listing \/ work[p] \in Running
    BY <1>1, WorkKinds
  <2> QED BY <1>1, <1>2, <2>1 DEF Listing, Running, BoundsArePast
<1>4. WillSeeTo(p, b, work'[p].todo)
  <2>1. CASE \E r \in BOOLEAN : List(p, r)
    BY <1>2, <1>3, <2>1, ListSeesTo
  <2>2. CASE work[p].stage = "running" /\ work'[p].todo = work[p].todo
    <3>1. SeesTo(p, b, work[p].todo)
      BY <1>2, <2>2 DEF WorkCovers
    <3>2. LeftOrSettled(b, work[p].todo, work'[p].todo)
      BY <2>2 DEF LeftOrSettled
    <3> QED BY <1>3, <3>1, <3>2, CarryOn
  <2>3. ASSUME work[p].stage = "running", NEW t \in work[p].todo, Claim(p, t) \/ Skip(p, t),
               work'[p].todo = work[p].todo \ {t}
        PROVE  WillSeeTo(p, b, work'[p].todo)
    <3>1. SeesTo(p, b, work[p].todo)
      BY <1>2, <2>3 DEF WorkCovers
    <3>2. t \in Due
      BY <1>1, <2>3, WorkKinds DEF Running
    <3>3. b.to # Never => Seen(t.job, b.from, b.to)'
      <4>1. CASE Claim(p, t)
        <5>1. b.to \in Int
          BY <1>3, CatchUpAssumption DEF Bounds, Time, Never
        <5> QED BY <1>3, <3>2, <4>1, <5>1, ClaimHandles
      <4>2. CASE Skip(p, t)
        BY <1>2, <4>2 DEF Skip, Reported, Seen
      <4> QED BY <2>3, <4>1, <4>2
    <3>4. LeftOrSettled(b, work[p].todo, work'[p].todo)
      BY <2>3, <3>3 DEF LeftOrSettled
    <3> QED BY <1>3, <3>1, <3>4, CarryOn
  <2> QED BY <2>1, <2>2, <2>3, WorkMoves
<1> QED BY <1>1, <1>2, <1>4 DEF SeesTo, WillSeeTo

-----------------------------------------------------------------------------
(* What the worker takes for settled is settled.                           *)

Settles(r, w) == \A j \in JobsOf(r) : Seen(j, w.from, w.to)

PassMatches ==
  /\ \A w \in pass : /\ w.to <= now
                     /\ \A v \in pass : v.to = w.to => v = w
                     /\ \A v \in pending : v.to = w.to => v.from = w.from
  /\ ~up => pass = {} /\ call = NoCalls

Asked(r, w) ==
  /\ work[r].stage \in {"listing", "running"}
  /\ work[r].bounds = [from |-> w.from, to |-> w.to, only |-> Jobs]

CallsMatch ==
  \A r \in Profiles :
    /\ call[r] = "taken" => \E w \in pass : Current(w) /\ Asked(r, w)
    /\ call[r] = "ok"    => \E w \in pass : Current(w) /\ Settles(r, w)

CompletedIsSettled ==
  \A w \in pending : /\ ~w.initialized => w.targets = {}
                     /\ \A r \in w.completed : Settles(r, w)

\* The worker's copy is behind the file only while it asks for that window.
CopiesAreCurrent ==
  \A w \in pass : \A v \in pending :
    v.to = w.to /\ v.initialized /\ ~w.initialized => Current(w) /\ call # NoCalls

SettledInv ==
  /\ BoundsArePast /\ WorkCovers
  /\ PassMatches /\ CopiesAreCurrent /\ CallsMatch /\ CompletedIsSettled

LEMMA SettledStays ==
  ASSUME CatchUpInv, [CatchUpNext]_catchUpVars, NEW r \in Profiles,
         NEW w \in Window, w.to <= now, Settles(r, w)
  PROVE  Settles(r, w)'
<1>1. w.from \in Int /\ w.to \in Int
  BY CatchUpAssumption DEF Window, Time
<1>2. ASSUME NEW j \in JobsOf(r) PROVE Seen(j, w.from, w.to)'
  <2>1. Seen(j, w.from, w.to) /\ j \in Jobs
    BY DEF Settles, JobsOf
  <2> QED BY <1>1, <2>1, SeenStays
<1> QED BY <1>2 DEF Settles

LEMMA PastWindows ==
  ASSUME CatchUpTypeOK, FileInv
  PROVE  /\ Apart(pending) /\ pending \in SUBSET Window
         /\ \A w \in pending : w.to <= now
<1>1. FileTypeOK /\ WindowsApart
  BY DEF FileInv
<1>2. Apart(pending) /\ \A w \in pending : w.to <= lastSeen
  BY <1>1, PendingIsApart
<1>3. \A w \in pending : w.to \in Int /\ lastSeen \in Int /\ now \in Int /\ lastSeen <= now
  BY <1>1, TimeFacts DEF FileTypeOK
<1> QED BY <1>1, <1>2, <1>3 DEF FileTypeOK

(* Windows that stay, with no more completed than this step settled.       *)
LEMMA CompletedStay ==
  ASSUME CatchUpInv, WorkerTypeOK, FileInv, CompletedIsSettled, [CatchUpNext]_catchUpVars,
         \A u \in pending' :
           /\ ~u.initialized => u.targets = {}
           /\ \E w \in pending : /\ u.from = w.from /\ u.to = w.to
                                 /\ \A r \in u.completed : r \in w.completed \/ Settles(r, u)'
  PROVE  CompletedIsSettled'
<1> SUFFICES ASSUME NEW u \in pending', NEW r \in u.completed PROVE Settles(r, u)'
  BY DEF CompletedIsSettled
<1>1. PICK w \in pending : /\ u.from = w.from /\ u.to = w.to
                           /\ r \in w.completed \/ Settles(r, u)'
  OBVIOUS
<1>2. CASE r \in w.completed
  <2>1. w \in Window /\ w.to <= now /\ r \in Profiles
    BY <1>2, PastWindows DEF CatchUpInv, Window
  <2>2. Settles(r, w)
    BY <1>2 DEF CompletedIsSettled
  <2>3. Settles(r, w)'
    BY <2>1, <2>2, SettledStays
  <2> QED BY <1>1, <2>3 DEF Settles
<1> QED BY <1>1, <1>2

\* u is w, with nothing completed but what `done` adds if it is the one that ends at `to`.
IsMarked(u, w, to, done) ==
  /\ u.from = w.from /\ u.to = w.to /\ u.targets = w.targets /\ u.initialized = w.initialized
  /\ \A r \in u.completed : r \in w.completed \/ (u.to = to /\ r \in done)

\* u is w, or was given its targets if it is the one that ends at `to`.
IsGivenTargets(u, w, to) ==
  /\ u.from = w.from /\ u.to = w.to /\ u.completed = w.completed
  /\ (u.to = to /\ u.initialized = TRUE) \/ u = w

LEMMA UpdatedMembers ==
  ASSUME NEW S \in SUBSET Window, NEW to, NEW done \in SUBSET Profiles,
         NEW u \in Updated(S, to, done)
  PROVE  \E w \in S : IsMarked(u, w, to, done)
<1> DEFINE mark(w) == IF w.to = to THEN [w EXCEPT !.completed = @ \cup done] ELSE w
<1>1. PICK w \in S : u = mark(w)
  BY DEF Updated
<1>2. CASE w.to = to
  BY <1>1, <1>2 DEF Window, IsMarked
<1>3. CASE w.to # to
  BY <1>1, <1>3 DEF IsMarked
<1> QED BY <1>2, <1>3

LEMMA InitializedMembers ==
  ASSUME NEW S \in SUBSET Window, NEW to, NEW targets, NEW u \in Initialized(S, to, targets)
  PROVE  \E w \in S : IsGivenTargets(u, w, to)
<1> DEFINE mark(w) ==
      IF w.to = to THEN [w EXCEPT !.targets = targets, !.initialized = TRUE] ELSE w
<1>1. PICK w \in S : u = mark(w)
  BY DEF Initialized
<1>2. CASE w.to = to
  BY <1>1, <1>2 DEF Window, IsGivenTargets
<1>3. CASE w.to # to
  BY <1>1, <1>3 DEF IsGivenTargets
<1> QED BY <1>2, <1>3

(* A window goes only when all its targets have completed it.              *)
LEMMA UpdatedDrops ==
  ASSUME NEW S \in SUBSET Window, NEW to, NEW done \in SUBSET Profiles, NEW v \in S,
         \A u \in Updated(S, to, done) : u.to # v.to
  PROVE  v.to = to /\ v.targets \subseteq v.completed \cup done
<1> DEFINE m == IF v.to = to THEN [v EXCEPT !.completed = @ \cup done] ELSE v
<1>1. m.to = v.to
  BY DEF Window
<1>2. m \notin Updated(S, to, done)
  BY <1>1
<1>3. m.to = to /\ m.initialized /\ m.targets \subseteq m.completed
  BY <1>2 DEF Updated
<1>4. v.to = to
  BY <1>1, <1>3
<1>5. m = [v EXCEPT !.completed = v.completed \cup done]
  BY <1>4
<1>6. m.targets = v.targets /\ m.completed = v.completed \cup done
  BY <1>5 DEF Window
<1> QED BY <1>3, <1>4, <1>6

LEMMA InitializedKeeps ==
  ASSUME NEW S \in SUBSET Window, NEW to, NEW targets, NEW v \in S
  PROVE  \E u \in Initialized(S, to, targets) : u.to = v.to /\ (v.to # to => u = v)
<1> DEFINE m == IF v.to = to THEN [v EXCEPT !.targets = targets, !.initialized = TRUE] ELSE v
<1>1. m.to = v.to /\ (v.to # to => m = v)
  BY DEF Window
<1>2. m \in Initialized(S, to, targets)
  BY DEF Initialized
<1> QED BY <1>1, <1>2

LEMMA CurrentIsOne ==
  ASSUME WorkerTypeOK, PassMatches, NEW v \in pass, NEW w \in pass, Current(v), Current(w)
  PROVE  v = w
<1>1. v.to \in Int /\ w.to \in Int
  BY CatchUpAssumption DEF WorkerTypeOK, Window, Time
<1>2. v.to = w.to
  BY <1>1 DEF Current
<1> QED BY <1>2 DEF PassMatches

(* What the worker does to the windows when it turns to one, w, or is done *)
(* with it.                                                                *)
Handles(w) ==
  /\ Current(w) /\ UNCHANGED catchUpVars /\ up /\ up'
  /\ \A u \in pending' :
       /\ ~u.initialized => u.targets = {}
       /\ \E x \in pending :
            /\ u.from = x.from /\ u.to = x.to
            /\ u.initialized => x.initialized \/ u.to = w.to
            /\ \A r \in u.completed : r \in x.completed \/ (u.to = w.to /\ r \in Answered)
  /\ \/ pass' = pass \ {w} /\ call' = NoCalls
     \/ /\ pass' = pass /\ call' # NoCalls
        /\ \A p \in Profiles : call'[p] \in {"asked", "none"}

LEMMA NextWindowHandles ==
  ASSUME CatchUpInv, WorkerTypeOK, FileInv, CompletedIsSettled, NextWindow
  PROVE  \E w \in pass : Handles(w)
<1> DEFINE known(w) == IF w.initialized THEN pending ELSE Initialized(pending, w.to, passReg)
<1>1. PICK w \in pass :
        /\ Current(w)
        /\ \/ /\ pending' = Updated(known(w), w.to, {})
              /\ pass' = pass \ {w} /\ call' = call
           \/ /\ ToAsk(w) # {} /\ pending' = known(w) /\ pass' = pass
              /\ call' = [p \in Profiles |-> IF p \in ToAsk(w) THEN "asked" ELSE "none"]
  BY DEF NextWindow
<1>2. UNCHANGED catchUpVars /\ up /\ up' /\ call = NoCalls
  BY DEF NextWindow
<1>3. pending \in SUBSET Window /\ WorkerTypeOK /\ w \in Window
  BY PastWindows DEF CatchUpInv, WorkerTypeOK
<1>4. /\ known(w) \in SUBSET Window
      /\ \A u \in known(w) :
           /\ ~u.initialized => u.targets = {}
           /\ \E x \in pending : /\ u.from = x.from /\ u.to = x.to /\ u.completed = x.completed
                                 /\ u.initialized => x.initialized \/ u.to = w.to
  <2>1. CASE w.initialized
    BY <1>3, <2>1 DEF CompletedIsSettled
  <2>2. CASE ~w.initialized
    <3>1. known(w) = Initialized(pending, w.to, passReg)
      BY <2>2
    <3> HIDE DEF known
    <3>2. known(w) \in SUBSET Window
      <4>1. Apart(pending) /\ w.to \in Time /\ passReg \in SUBSET Profiles
        BY <1>3, PastWindows DEF CatchUpInv, WorkerTypeOK, Window
      <4> QED BY <1>3, <3>1, <4>1, InitializedSpans
    <3>3. ASSUME NEW u \in known(w)
          PROVE  /\ ~u.initialized => u.targets = {}
                 /\ \E x \in pending : /\ u.from = x.from /\ u.to = x.to /\ u.completed = x.completed
                                       /\ u.initialized => x.initialized \/ u.to = w.to
      <4>1. u \in Initialized(pending, w.to, passReg)
        BY <3>1
      <4>2. PICK x \in pending : IsGivenTargets(u, x, w.to)
        BY <1>3, <4>1, InitializedMembers
      <4> QED BY <4>2 DEF IsGivenTargets, CompletedIsSettled
    <3> QED BY <3>2, <3>3
  <2> QED BY <2>1, <2>2
<1> HIDE DEF known
<1>5. \A u \in pending' :
       /\ ~u.initialized => u.targets = {}
       /\ \E x \in pending :
            /\ u.from = x.from /\ u.to = x.to
            /\ u.initialized => x.initialized \/ u.to = w.to
            /\ \A r \in u.completed : r \in x.completed \/ (u.to = w.to /\ r \in Answered)
  <2>1. CASE pending' = known(w)
    BY <1>4, <2>1
  <2>2. CASE pending' = Updated(known(w), w.to, {})
    <3>1. ASSUME NEW u \in pending'
          PROVE  \E y \in known(w) : /\ u.from = y.from /\ u.to = y.to /\ u.targets = y.targets
                                     /\ u.initialized = y.initialized
                                     /\ \A r \in u.completed : r \in y.completed
      <4>1. u \in Updated(known(w), w.to, {}) /\ {} \in SUBSET Profiles
        BY <2>2
      <4>2. \E y \in known(w) : IsMarked(u, y, w.to, {})
        BY <1>4, <4>1, UpdatedMembers
      <4> QED BY <4>2 DEF IsMarked
    <3> QED BY <1>4, <3>1
  <2> QED BY <1>1, <2>1, <2>2
<1>6. \/ pass' = pass \ {w} /\ call' = NoCalls
      \/ /\ pass' = pass /\ call' # NoCalls
         /\ \A p \in Profiles : call'[p] \in {"asked", "none"}
  <2>1. ASSUME ToAsk(w) # {},
               call' = [p \in Profiles |-> IF p \in ToAsk(w) THEN "asked" ELSE "none"]
        PROVE  call' # NoCalls /\ \A p \in Profiles : call'[p] \in {"asked", "none"}
    <3>1. PICK p \in ToAsk(w) : p \in Profiles
      BY <1>3, <2>1 DEF ToAsk, WorkerTypeOK
    <3>2. call'[p] = "asked" /\ NoCalls[p] = "none"
      BY <2>1, <3>1 DEF NoCalls
    <3> QED BY <2>1, <3>2
  <2> QED BY <1>1, <1>2, <2>1
<1> QED BY <1>1, <1>2, <1>5, <1>6 DEF Handles

LEMMA EndWindowHandles ==
  ASSUME CatchUpInv, WorkerTypeOK, FileInv, PassMatches, CompletedIsSettled, EndWindow
  PROVE  \E w \in pass : Handles(w)
<1>1. PICK w \in pass : /\ Current(w) /\ pass' = pass \ {w}
                        /\ pending' = Updated(pending, w.to, Answered)
  BY DEF EndWindow
<1>2. UNCHANGED catchUpVars /\ call' = NoCalls /\ up /\ up'
  BY DEF EndWindow, PassMatches
<1>3. pending \in SUBSET Window /\ Answered \in SUBSET Profiles
  BY PastWindows DEF CatchUpInv, Answered
<1>4. ASSUME NEW u \in pending'
      PROVE  /\ ~u.initialized => u.targets = {}
             /\ \E x \in pending :
                  /\ u.from = x.from /\ u.to = x.to
                  /\ u.initialized => x.initialized \/ u.to = w.to
                  /\ \A r \in u.completed : r \in x.completed \/ (u.to = w.to /\ r \in Answered)
  <2>1. u \in Updated(pending, w.to, Answered)
    BY <1>1
  <2>2. PICK x \in pending : IsMarked(u, x, w.to, Answered)
    BY <1>3, <2>1, UpdatedMembers
  <2> QED BY <2>2 DEF IsMarked, CompletedIsSettled
<1> QED BY <1>1, <1>2, <1>4 DEF Handles

LEMMA HandlesKeeps ==
  ASSUME CatchUpInv, WorkerTypeOK, FileInv, SettledInv, NEW w \in pass, Handles(w)
  PROVE  PassMatches' /\ CopiesAreCurrent' /\ CallsMatch' /\ CompletedIsSettled'
<1>1. /\ PassMatches /\ CopiesAreCurrent /\ CallsMatch /\ CompletedIsSettled
      /\ Current(w) /\ UNCHANGED catchUpVars /\ up /\ up' /\ pass' \subseteq pass /\ now' = now
      /\ CatchUpTypeOK
  BY DEF SettledInv, Handles, catchUpVars, CatchUpInv
<1>2. \A u \in pending' : \E x \in pending : u.from = x.from /\ u.to = x.to
  BY DEF Handles
<1>3. PassMatches'
  BY <1>1, <1>2 DEF PassMatches
<1>4. CopiesAreCurrent'
  <2> SUFFICES ASSUME NEW y \in pass', NEW u \in pending', u.to = y.to, u.initialized, ~y.initialized
               PROVE  Current(y)' /\ call' # NoCalls
    BY DEF CopiesAreCurrent
  <2>1. PICK x \in pending : u.to = x.to /\ (x.initialized \/ u.to = w.to)
    BY DEF Handles
  <2>2. y = w
    <3>1. CASE x.initialized
      BY <1>1, <2>1, <3>1, CurrentIsOne DEF CopiesAreCurrent
    <3>2. CASE u.to = w.to
      BY <1>1, <3>2 DEF PassMatches
    <3> QED BY <2>1, <3>1, <3>2
  <2>3. pass' = pass /\ call' # NoCalls
    BY <2>2 DEF Handles
  <2> QED BY <1>1, <2>2, <2>3 DEF Current
<1>5. CallsMatch'
  <2>1. \A r \in Profiles : call'[r] \in {"asked", "none"}
    BY DEF Handles, NoCalls
  <2> QED BY <2>1 DEF CallsMatch
<1>6. CompletedIsSettled'
  <2>1. ASSUME NEW u \in pending', NEW x \in pending, u.from = x.from, u.to = x.to, u.to = w.to,
               NEW r \in Answered
        PROVE  Settles(r, u)'
    <3>1. PICK v \in pass : Current(v) /\ Settles(r, v)
      BY <1>1 DEF Answered, CallsMatch
    <3>2. v = w
      BY <1>1, <3>1, CurrentIsOne
    <3>3. u.from = w.from /\ u.to = w.to
      BY <1>1, <2>1 DEF PassMatches
    <3>4. Settles(r, u)
      BY <3>1, <3>2, <3>3 DEF Settles
    <3> QED BY <1>1, <3>4 DEF Settles, Seen, Handled, Candidates, Attempt, catchUpVars
  <2>2. \A u \in pending' :
          /\ ~u.initialized => u.targets = {}
          /\ \E x \in pending : /\ u.from = x.from /\ u.to = x.to
                                /\ \A r \in u.completed : r \in x.completed \/ Settles(r, u)'
    BY <2>1 DEF Handles
  <2> QED BY <1>1, <2>2, CompletedStay
<1> QED BY <1>3, <1>4, <1>5, <1>6

LEMMA TimePasses == ASSUME [CatchUpNext]_catchUpVars PROVE now' = now \/ now' = now + 1
BY DEF CatchUpNext, Bridge, Tick, OtherFault, List, RunEnds, Claim, Skip, SchedulerFires,
       SchedulerEnds, FastForward, Toggle, BridgeStarts, Answer, BridgeDies, Take, catchUpVars

(* Steps that leave the windows alone: calls go on, and those newly taken  *)
(* or answered have what they need.                                        *)
LEMMA CallsGoOn ==
  ASSUME CatchUpInv, WorkerTypeOK, FileInv, SettledInv, [CatchUpNext]_catchUpVars,
         UNCHANGED <<up, pending, pass>>, call' = NoCalls <=> call = NoCalls,
         \A r \in Profiles : call'[r] = "taken" =>
           \/ /\ call[r] = "taken" /\ work'[r].bounds = work[r].bounds
              /\ work'[r].stage \in {"listing", "running"}
           \/ \E w \in pass : Current(w) /\ Asked(r, w)',
         \A r \in Profiles : call'[r] = "ok" =>
           call[r] = "ok" \/ \E w \in pass : Current(w) /\ Settles(r, w)'
  PROVE  PassMatches' /\ CopiesAreCurrent' /\ CallsMatch' /\ CompletedIsSettled'
<1>1. /\ PassMatches /\ CopiesAreCurrent /\ CallsMatch /\ CompletedIsSettled
      /\ \A w \in pass : w \in Window /\ w.to \in Int /\ w.to <= now
      /\ now \in Int /\ now' \in Int /\ now <= now'
  <2>1. PassMatches /\ CopiesAreCurrent /\ CallsMatch /\ CompletedIsSettled
    BY DEF SettledInv
  <2>2. \A w \in pass : w \in Window /\ w.to \in Int /\ w.to <= now
    BY <2>1, CatchUpAssumption DEF WorkerTypeOK, Window, Time, PassMatches
  <2>3. now \in Int /\ now' \in Int /\ now <= now'
    BY TimePasses DEF CatchUpInv, CatchUpTypeOK, Time
  <2> QED BY <2>1, <2>2, <2>3
<1>6. \A w \in pass : Current(w) => Current(w)'
  BY DEF Current
<1>2. PassMatches'
  <2>1. \A w \in pass : w.to <= now'
    BY <1>1
  <2>2. ~up => pass' = {} /\ call' = NoCalls
    BY <1>1 DEF PassMatches
  <2> QED BY <1>1, <2>1, <2>2 DEF PassMatches
<1>3. CopiesAreCurrent'
  BY <1>1, <1>6 DEF CopiesAreCurrent
<1>4. CallsMatch'
  <2>1. ASSUME NEW r \in Profiles, call'[r] = "taken"
        PROVE  \E w \in pass' : Current(w)' /\ Asked(r, w)'
    <3>1. CASE /\ call[r] = "taken" /\ work'[r].bounds = work[r].bounds
               /\ work'[r].stage \in {"listing", "running"}
      <4>1. PICK w \in pass : Current(w) /\ Asked(r, w)
        BY <1>1, <1>6, <3>1 DEF CallsMatch
      <4> QED BY <1>1, <1>6, <3>1, <4>1 DEF Asked
    <3>2. CASE \E w \in pass : Current(w) /\ Asked(r, w)'
      BY <1>1, <1>6, <3>2
    <3> QED BY <2>1, <3>1, <3>2
  <2>2. ASSUME NEW r \in Profiles, call'[r] = "ok"
        PROVE  \E w \in pass' : Current(w)' /\ Settles(r, w)'
    <3>1. CASE call[r] = "ok"
      <4>1. PICK w \in pass : Current(w) /\ Settles(r, w)
        BY <1>1, <1>6, <3>1 DEF CallsMatch
      <4> QED BY <1>1, <1>6, <4>1, SettledStays
    <3>2. CASE \E w \in pass : Current(w) /\ Settles(r, w)'
      BY <1>1, <1>6, <3>2
    <3> QED BY <2>2, <3>1, <3>2
  <2> QED BY <2>1, <2>2 DEF CallsMatch
<1>5. CompletedIsSettled'
  <2>1. \A u \in pending' :
          /\ ~u.initialized => u.targets = {}
          /\ \E w \in pending : /\ u.from = w.from /\ u.to = w.to
                                /\ \A r \in u.completed : r \in w.completed \/ Settles(r, u)'
    BY <1>1 DEF CompletedIsSettled
  <2> QED BY <1>1, <2>1, CompletedStay
<1> QED BY <1>2, <1>3, <1>4, <1>5

LEMMA IdleCalls ==
  ASSUME WorkerTypeOK, CallsMatch, NEW r \in Profiles, work[r] = Free PROVE call[r] # "taken"
<1>1. work[r].stage = "free"
  BY DEF Free
<1> QED BY <1>1 DEF CallsMatch, Asked

(* The catch-ups' side of it: what a call waits for stays as it was asked. *)
LEMMA BridgesKeep ==
  ASSUME CatchUpInv, WorkerTypeOK, FileInv, SettledInv, [CatchUpNext]_catchUpVars,
         NEW p \in Profiles, BridgeStep(p) \/ Manual(p)
  PROVE  PassMatches' /\ CopiesAreCurrent' /\ CallsMatch' /\ CompletedIsSettled'
<1>1. UNCHANGED <<up, pending, pass, call>> /\ CallsMatch /\ CatchUpTypeOK
  BY DEF BridgeStep, Manual, recoveryVars, SettledInv, CatchUpInv
<1>2. ASSUME NEW r \in Profiles, call[r] = "taken"
      PROVE  work'[r].bounds = work[r].bounds /\ work'[r].stage \in {"listing", "running"}
  <2>1. work[r].stage \in {"listing", "running"}
    BY <1>1, <1>2 DEF CallsMatch, Asked
  <2>2. CASE Bridge(p)
    BY <1>1, <2>1, <2>2, BridgeMoves
  <2>3. ASSUME NEW b, Take(p, b) PROVE work'[r] = work[r]
    <3>1. r # p
      BY <1>1, <1>2, <2>3, IdleCalls DEF Take
    <3> QED BY <1>1, <2>3, <3>1 DEF Take, CatchUpTypeOK
  <2> QED BY <2>1, <2>2, <2>3 DEF BridgeStep, Manual
<1> QED BY <1>1, <1>2, CallsGoOn

LEMMA AskKeeps ==
  ASSUME CatchUpInv, WorkerTypeOK, FileInv, SettledInv, [CatchUpNext]_catchUpVars,
         NEW p \in Profiles, AskBridge(p) \/ AskTimesOut(p)
  PROVE  PassMatches' /\ CopiesAreCurrent' /\ CallsMatch' /\ CompletedIsSettled'
<1>1. UNCHANGED <<up, pending, pass>> /\ CallsMatch /\ CatchUpTypeOK
  BY DEF AskBridge, AskTimesOut, SettledInv, CatchUpInv, file
<1>2. /\ call[p] # "none" /\ call'[p] # "none"
      /\ \A r \in Profiles : r # p => call'[r] = call[r]
      /\ call'[p] = "failed" => UNCHANGED catchUpVars
      /\ call'[p] # "failed" => /\ call'[p] = "taken"
                                /\ \E w \in pass : Current(w) /\
                                     Take(p, [from |-> w.from, to |-> w.to, only |-> Jobs])
  BY DEF AskBridge, AskTimesOut, WorkerTypeOK
<1>3. call' # NoCalls /\ call # NoCalls
  BY <1>2 DEF NoCalls
<1>4. CASE call'[p] = "failed"
  BY <1>1, <1>2, <1>3, <1>4, CallsGoOn DEF catchUpVars, CallsMatch, Asked
<1>5. CASE call'[p] = "taken"
  <2>1. PICK w \in pass : /\ Current(w)
                          /\ Take(p, [from |-> w.from, to |-> w.to, only |-> Jobs])
    BY <1>2, <1>5
  <2>2. Asked(p, w)' /\ \A r \in Profiles : r # p => work'[r] = work[r]
    BY <1>1, <2>1 DEF Take, CatchUpTypeOK, Asked
  <2>3. ASSUME NEW r \in Profiles, call'[r] = "taken", r # p
        PROVE  /\ call[r] = "taken" /\ work'[r].bounds = work[r].bounds
               /\ work'[r].stage \in {"listing", "running"}
    BY <1>1, <1>2, <2>2, <2>3 DEF CallsMatch, Asked
  <2> QED BY <1>1, <1>2, <1>3, <1>5, <2>1, <2>2, <2>3, CallsGoOn
<1> QED BY <1>2, <1>4, <1>5

(* An answer comes when nothing is left to run, so all was seen to.        *)
LEMMA AnswerKeeps ==
  ASSUME CatchUpInv, WorkerTypeOK, FileInv, SettledInv, [CatchUpNext]_catchUpVars,
         NEW p \in Profiles, AnswerCall(p) \/ BridgeLost(p)
  PROVE  PassMatches' /\ CopiesAreCurrent' /\ CallsMatch' /\ CompletedIsSettled'
<1>1. UNCHANGED <<up, pending, pass>> /\ CallsMatch /\ WorkCovers /\ CatchUpTypeOK
  BY DEF AnswerCall, BridgeLost, SettledInv, CatchUpInv, file
<1>2. /\ call[p] = "taken" => call'[p] \in {"ok", "failed"}
      /\ call[p] # "taken" => call' = call
      /\ \A r \in Profiles : r # p => call'[r] = call[r]
      /\ call'[p] = "ok" /\ call[p] = "taken" => Answer(p)
  BY DEF AnswerCall, BridgeLost, WorkerTypeOK
<1>3. call' = NoCalls <=> call = NoCalls
  BY <1>2 DEF NoCalls
<1>4. \A r \in Profiles : r # p => work'[r] = work[r]
  BY <1>1 DEF AnswerCall, BridgeLost, Answer, BridgeDies, CatchUpTypeOK
<1>5. ASSUME call[p] = "taken", call'[p] = "ok"
      PROVE  \E w \in pass : Current(w) /\ Settles(p, w)'
  <2>1. PICK w \in pass : Current(w) /\ Asked(p, w)
    BY <1>1, <1>5 DEF CallsMatch
  <2>2. work[p].stage = "running" /\ work[p].todo = {}
    BY <1>2, <1>5 DEF Answer
  <2>3. w \in Window /\ w.to # Never /\ w.to <= now
    BY CatchUpAssumption DEF WorkerTypeOK, Window, Time, Never, SettledInv, PassMatches
  <2> DEFINE b == [from |-> w.from, to |-> w.to, only |-> Jobs]
  <2>4. SeesTo(p, b, {})
    BY <1>1, <2>1, <2>2 DEF WorkCovers, Asked
  <2>5. Settles(p, w)
    <3>1. b.to = w.to /\ b.from = w.from /\ b.only = Jobs /\ JobsOf(p) \subseteq Jobs
      BY DEF JobsOf
    <3> HIDE DEF b
    <3> QED BY <2>3, <2>4, <3>1 DEF SeesTo, Settles
  <2> QED BY <2>1, <2>3, <2>5, SettledStays
<1>6. ASSUME NEW r \in Profiles, call'[r] = "taken"
      PROVE  /\ call[r] = "taken" /\ work'[r].bounds = work[r].bounds
             /\ work'[r].stage \in {"listing", "running"}
  <2>1. r # p /\ call[r] = "taken"
    BY <1>2, <1>6
  <2> QED BY <1>1, <1>4, <2>1 DEF CallsMatch, Asked
<1>7. \A r \in Profiles : call'[r] = "ok" =>
        call[r] = "ok" \/ \E w \in pass : Current(w) /\ Settles(r, w)'
  BY <1>2, <1>5, <1>6
<1> QED BY <1>1, <1>3, <1>6, <1>7, CallsGoOn

LEMMA QuietKeeps ==
  ASSUME CatchUpInv, WorkerTypeOK, FileInv, SettledInv, [CatchUpNext]_catchUpVars,
         UNCHANGED <<up, pending, pass, call, work>>
  PROVE  PassMatches' /\ CopiesAreCurrent' /\ CallsMatch' /\ CompletedIsSettled'
<1>1. \A r \in Profiles : call[r] = "taken" => work[r].stage \in {"listing", "running"}
  BY DEF SettledInv, CallsMatch, Asked
<1> QED BY <1>1, CallsGoOn

(* The pass begins, or the worker's memory of it is gone.                  *)
LEMMA PassKeeps ==
  ASSUME CatchUpInv, WorkerTypeOK, FileInv, SettledInv, Start \/ Stop \/ SaveFails \/ BeginPass
  PROVE  PassMatches' /\ CopiesAreCurrent' /\ CallsMatch' /\ CompletedIsSettled'
<1>1. PassMatches /\ CallsMatch /\ CompletedIsSettled /\ CatchUpTypeOK
  BY DEF SettledInv, CatchUpInv
<1>2. now' = now /\ UNCHANGED <<jobs, leftOut>>
  BY DEF Start, Stop, SaveFails, BeginPass, OtherFault, catchUpVars
<1>3. \A r \in Profiles : call'[r] \notin {"taken", "ok"}
  <2>1. CASE call' = NoCalls
    BY <2>1 DEF NoCalls
  <2>2. CASE call' = call /\ pass = {}
    BY <1>1, <2>2 DEF CallsMatch
  <2> QED BY <1>1, <2>1, <2>2 DEF Start, Stop, SaveFails, BeginPass, PassMatches, worker
<1>4. CallsMatch'
  BY <1>3 DEF CallsMatch
<1>5. \/ pass' = {} /\ (call' = NoCalls \/ up')
      \/ pass' = pending /\ up' /\ pending' = pending
  <2>1. CASE Start
    BY <1>1, <2>1 DEF Start, PassMatches, worker
  <2>2. CASE Stop \/ SaveFails
    BY <2>2 DEF Stop, SaveFails
  <2>3. CASE BeginPass
    BY <2>3 DEF BeginPass, file
  <2> QED BY <2>1, <2>2, <2>3
<1>6. PassMatches' /\ CopiesAreCurrent'
  <2>1. CASE pass' = {} /\ (call' = NoCalls \/ up')
    BY <2>1 DEF PassMatches, CopiesAreCurrent
  <2>2. CASE pass' = pending /\ up' /\ pending' = pending
    <3>1. \A w \in pending : w.to <= now' /\ \A v \in pending : v.to = w.to => v = w
      BY <1>1, <1>2, PastWindows, EndsAreUnique
    <3> QED BY <2>2, <3>1 DEF PassMatches, CopiesAreCurrent
  <2> QED BY <1>5, <2>1, <2>2
<1>7. CompletedIsSettled'
  <2>1. \A u \in pending' : u \in pending \/ ((~u.initialized => u.targets = {}) /\ u.completed = {})
    <3>1. CASE Start
      <4>1. pending' = pending \/ pending' = pending \cup {NewWindow}
        BY <3>1 DEF Start
      <4>2. (~NewWindow.initialized => NewWindow.targets = {}) /\ NewWindow.completed = {}
        BY DEF NewWindow
      <4> QED BY <4>1, <4>2
    <3> QED BY <3>1 DEF Stop, SaveFails, BeginPass, file
  <2>2. ASSUME NEW u \in pending, NEW r \in u.completed PROVE Settles(r, u)'
    <3>1. Settles(r, u)
      BY <1>1 DEF CompletedIsSettled
    <3> QED BY <1>2, <3>1 DEF Settles, Seen, Handled, Candidates, Attempt
  <2> QED BY <1>1, <2>1, <2>2 DEF CompletedIsSettled
<1> QED BY <1>4, <1>6, <1>7

LEMMA BoundsStayPast ==
  ASSUME CatchUpInv, WorkerTypeOK, SettledInv, [CronNext]_cronVars PROVE BoundsArePast'
<1>1. CatchUpTypeOK /\ BoundsArePast /\ PassMatches /\ now \in Int
  BY DEF CatchUpInv, SettledInv, CatchUpTypeOK, Time
<1>2. [CatchUpNext]_catchUpVars
  BY <1>1, StepOfCatchUp
<1>3. now' = now \/ now' = now + 1
  BY <1>2, TimePasses
<1>4. ASSUME NEW p \in Profiles, work[p].stage \in {"listing", "running"},
             work'[p].bounds = work[p].bounds
      PROVE  work'[p].bounds.to <= now'
  <2>1. work[p].bounds.to \in Int
    <3>1. work[p] \in Listing \/ work[p] \in Running
      BY <1>1, <1>4, WorkKinds
    <3>2. work[p].bounds \in Bounds
      BY <3>1 DEF Listing, Running
    <3> QED BY <3>2, CatchUpAssumption DEF Bounds, Time, Never
  <2>2. work[p].bounds.to <= now
    BY <1>1, <1>4 DEF BoundsArePast
  <2> QED BY <1>1, <1>3, <1>4, <2>1, <2>2
<1>5. ASSUME NEW p \in Profiles, NEW q \in Profiles, NEW b, Take(q, b), b.to <= now,
             work'[p].stage \in {"listing", "running"}
      PROVE  work'[p].bounds.to <= now'
  <2>1. now' = now
    BY <1>5 DEF Take
  <2>2. CASE q = p
    BY <1>1, <1>5, <2>1, <2>2 DEF Take, CatchUpTypeOK
  <2>3. CASE q # p
    <3>1. work'[p] = work[p]
      BY <1>1, <1>5, <2>3 DEF Take, CatchUpTypeOK
    <3> QED BY <1>4, <1>5, <3>1
  <2> QED BY <2>2, <2>3
<1>6. ASSUME NEW p \in Profiles, NEW q \in Profiles, Answer(q) \/ BridgeDies(q),
             work'[p].stage \in {"listing", "running"}
      PROVE  work'[p] = work[p]
  <2>1. work' = [work EXCEPT ![q] = Free] /\ Free.stage = "free"
    BY <1>6 DEF Answer, BridgeDies, Free
  <2> QED BY <1>1, <1>6, <2>1 DEF CatchUpTypeOK
<1>7. ASSUME NEW p \in Profiles, work'[p].stage \in {"listing", "running"}
      PROVE  work'[p].bounds.to <= now'
  <2>1. CASE work'[p] = work[p]
    BY <1>4, <1>7, <2>1
  <2>2. CASE UNCHANGED work
    BY <2>1, <2>2
  <2>3. CASE \/ Start \/ Heartbeat \/ Stop \/ Clock \/ RegistryChanges \/ UNCHANGED cronVars
             \/ BeginPass \/ NextWindow \/ EndWindow \/ SaveFails
             \/ \E q \in Profiles : AskTimesOut(q)
    <3>1. UNCHANGED work
      BY <2>3 DEF Start, Heartbeat, Stop, Clock, RegistryChanges, BeginPass, NextWindow, EndWindow,
                  SaveFails, AskTimesOut, OtherFault, Tick, catchUpVars, cronVars
    <3> QED BY <2>2, <3>1
  <2>4. ASSUME NEW q \in Profiles, AskBridge(q) PROVE work'[p].bounds.to <= now'
    <3>1. CASE UNCHANGED catchUpVars
      BY <2>2, <3>1 DEF catchUpVars
    <3>2. ASSUME NEW w \in pass, Take(q, [from |-> w.from, to |-> w.to, only |-> Jobs])
          PROVE  work'[p].bounds.to <= now'
      <4>1. w.to <= now
        BY <1>1 DEF PassMatches
      <4> QED BY <1>5, <1>7, <3>2, <4>1
    <3> QED BY <2>4, <3>1, <3>2 DEF AskBridge
  <2>5. ASSUME NEW q \in Profiles, Manual(q) PROVE work'[p].bounds.to <= now'
    <3>1. PICK only : Take(q, [from |-> Never, to |-> Never, only |-> only])
      BY <2>5 DEF Manual
    <3>2. Never <= now
      BY <1>1 DEF CatchUpTypeOK, Time, Never
    <3> QED BY <1>5, <1>7, <3>1, <3>2
  <2>6. ASSUME NEW q \in Profiles, AnswerCall(q) \/ BridgeLost(q) PROVE work'[p] = work[p]
    BY <1>6, <1>7, <2>6 DEF AnswerCall, BridgeLost
  <2>7. ASSUME NEW q \in Profiles, Bridge(q) PROVE work'[p].bounds.to <= now'
    BY <1>1, <1>4, <2>1, <2>7, BridgeMoves
  <2> QED BY <2>1, <2>3, <2>4, <2>5, <2>6, <2>7 DEF CronNext, Worker, WorkerStep, BridgeStep
<1> QED BY <1>7 DEF BoundsArePast

LEMMA SettledInvInit == CronInit => SettledInv
<1> SUFFICES ASSUME CronInit PROVE SettledInv
  OBVIOUS
<1>1. /\ \A p \in Profiles : work[p].stage = "free" /\ call[p] = "none"
      /\ pass = {} /\ pending = {} /\ call = NoCalls
  BY DEF CronInit, CatchUpInit, Free, NoCalls
<1>2. BoundsArePast /\ WorkCovers
  BY <1>1 DEF BoundsArePast, WorkCovers
<1>3. PassMatches /\ CopiesAreCurrent /\ CallsMatch /\ CompletedIsSettled
  BY <1>1 DEF PassMatches, CopiesAreCurrent, CallsMatch, CompletedIsSettled
<1> QED BY <1>2, <1>3 DEF SettledInv

LEMMA SettledInvNext ==
  CatchUpInv /\ WorkerTypeOK /\ FileInv /\ SettledInv /\ [CronNext]_cronVars => SettledInv'
<1> SUFFICES ASSUME CatchUpInv, WorkerTypeOK, FileInv, SettledInv, [CronNext]_cronVars
             PROVE  SettledInv'
  OBVIOUS
<1>1. [CatchUpNext]_catchUpVars
  BY StepOfCatchUp DEF CatchUpInv
<1>2. BoundsArePast' /\ WorkCovers'
  BY <1>1, BoundsStayPast, WorkCoversNext DEF SettledInv
<1>3. PassMatches' /\ CopiesAreCurrent' /\ CallsMatch' /\ CompletedIsSettled'
  <2>1. CASE UNCHANGED cronVars \/ Heartbeat \/ Clock \/ RegistryChanges
    <3>1. UNCHANGED <<up, pending, pass, call, work>>
      BY <2>1 DEF Heartbeat, Clock, RegistryChanges, Tick, OtherFault, cronVars, recoveryVars,
                  catchUpVars, file, worker
    <3> QED BY <1>1, <3>1, QuietKeeps
  <2>2. CASE Start \/ Stop \/ SaveFails \/ BeginPass
    BY <2>2, PassKeeps
  <2>3. CASE NextWindow \/ EndWindow
    <3>1. \E w \in pass : Handles(w)
      BY <2>3, NextWindowHandles, EndWindowHandles DEF SettledInv
    <3> QED BY <3>1, HandlesKeeps
  <2>4. ASSUME NEW p \in Profiles, AskBridge(p) \/ AskTimesOut(p)
        PROVE  PassMatches' /\ CopiesAreCurrent' /\ CallsMatch' /\ CompletedIsSettled'
    BY <1>1, <2>4, AskKeeps
  <2>5. ASSUME NEW p \in Profiles, BridgeStep(p) \/ Manual(p)
        PROVE  PassMatches' /\ CopiesAreCurrent' /\ CallsMatch' /\ CompletedIsSettled'
    BY <1>1, <2>5, BridgesKeep
  <2>6. ASSUME NEW p \in Profiles, AnswerCall(p) \/ BridgeLost(p)
        PROVE  PassMatches' /\ CopiesAreCurrent' /\ CallsMatch' /\ CompletedIsSettled'
    BY <1>1, <2>6, AnswerKeeps
  <2> QED BY <2>1, <2>2, <2>3, <2>4, <2>5, <2>6 DEF CronNext, Worker, WorkerStep
<1> QED BY <1>2, <1>3 DEF SettledInv

(* What a window's targets completed, with those that just answered, is    *)
(* settled, so what is missed then was left out.                           *)
LEMMA SettledIsNotMissed ==
  ASSUME CatchUpTypeOK, NEW j \in Jobs, NEW w \in Window, NEW d \in Time,
         Settles(Owner[j], w), MissedDue(j, w.from, w.to, d)
  PROVE  <<j, w.to>> \in leftOut
<1>1. Seen(j, w.from, w.to)
  BY DEF Settles, JobsOf
<1>2. ~Handled(j, w.from, w.to)
  <2>1. d \in Candidates(j, w.to) /\ w.from < d /\ Attempt(j) < d
    BY DEF MissedDue
  <2>2. w.from \in Int /\ d \in Int /\ Attempt(j) \in Int
    BY CatchUpAssumption DEF Window, Time, Attempt, CatchUpTypeOK, Job, Never
  <2> QED BY <2>1, <2>2 DEF Handled
<1> QED BY <1>1, <1>2 DEF Seen

LEMMA DroppedIsSettled ==
  ASSUME CatchUpInv, WorkerTypeOK, FileInv, SettledInv, CronNext,
         NEW v \in pending, \A u \in pending' : u.to # v.to, NEW r \in v.targets
  PROVE  Settles(r, v)
<1>1. /\ PassMatches /\ CopiesAreCurrent /\ CallsMatch /\ CompletedIsSettled
      /\ pending \in SUBSET Window /\ v \in Window /\ r \in Profiles
  BY PastWindows DEF SettledInv, CatchUpInv, Window
<1>2. CASE NextWindow
  <2>1. PICK w \in pass :
          LET known == IF w.initialized THEN pending ELSE Initialized(pending, w.to, passReg)
          IN  pending' = Updated(known, w.to, {}) \/ pending' = known
    BY <1>2 DEF NextWindow
  <2>2. CASE w.initialized
    <3>1. pending' = Updated(pending, w.to, {}) \/ pending' = pending
      BY <2>1, <2>2
    <3>2. pending' = Updated(pending, w.to, {})
      BY <3>1
    <3>3. \A u \in Updated(pending, w.to, {}) : u.to # v.to
      BY <3>2
    <3>4. PICK done \in SUBSET Profiles : done = {}
      OBVIOUS
    <3>5. v.to = w.to /\ v.targets \subseteq v.completed \cup done
      BY <1>1, <3>3, <3>4, UpdatedDrops
    <3> QED BY <1>1, <3>4, <3>5 DEF CompletedIsSettled
  <2>3. CASE ~w.initialized
    <3> DEFINE known == Initialized(pending, w.to, passReg)
    <3>1. pending' = Updated(known, w.to, {}) \/ pending' = known
      BY <2>1, <2>3
    <3>2. PICK k \in known : k.to = v.to
      BY <1>1, InitializedKeeps
    <3>3. known \in SUBSET Window
      <4>1. Apart(pending) /\ w.to \in Time /\ passReg \in SUBSET Profiles
        BY PastWindows DEF CatchUpInv, WorkerTypeOK, Window
      <4> QED BY <1>1, <4>1, InitializedSpans
    <3> HIDE DEF known
    <3>4. pending' = Updated(known, w.to, {})
      BY <3>1, <3>2
    <3>5. \A u \in Updated(known, w.to, {}) : u.to # k.to
      BY <3>2, <3>4
    <3>6. v.to = w.to
      BY <3>2, <3>3, <3>5, UpdatedDrops
    <3>7. ~v.initialized
      BY <1>1, <1>2, <2>3, <3>6 DEF CopiesAreCurrent, NextWindow
    <3> QED BY <1>1, <3>7 DEF CompletedIsSettled
  <2> QED BY <2>2, <2>3
<1>3. CASE EndWindow
  <2>1. PICK w \in pass : Current(w) /\ pending' = Updated(pending, w.to, Answered)
    BY <1>3 DEF EndWindow
  <2>2. Answered \in SUBSET Profiles /\ \A u \in Updated(pending, w.to, Answered) : u.to # v.to
    BY <2>1 DEF Answered
  <2>3. v.to = w.to /\ v.targets \subseteq v.completed \cup Answered
    BY <1>1, <2>2, UpdatedDrops
  <2>4. v.from = w.from
    BY <1>1, <2>3 DEF PassMatches
  <2>5. CASE r \in v.completed
    BY <1>1, <2>5 DEF CompletedIsSettled
  <2>6. CASE r \in Answered
    <3>1. PICK x \in pass : Current(x) /\ Settles(r, x)
      BY <1>1, <2>6 DEF Answered, CallsMatch
    <3>2. x = w
      BY <1>1, <2>1, <3>1, CurrentIsOne
    <3> QED BY <2>3, <2>4, <3>1, <3>2 DEF Settles
  <2> QED BY <2>3, <2>5, <2>6
<1>4. CASE pending \subseteq pending'
  BY <1>4
<1>5. CASE Start \/ Heartbeat \/ Stop \/ Clock \/ RegistryChanges \/ SaveFails \/ BeginPass
  BY <1>4, <1>5 DEF Start, Heartbeat, Stop, Clock, RegistryChanges, SaveFails, BeginPass, file
<1>6. ASSUME NEW p \in Profiles,
             \/ AskBridge(p) \/ AskTimesOut(p) \/ AnswerCall(p) \/ BridgeLost(p)
             \/ BridgeStep(p) \/ Manual(p)
      PROVE  pending \subseteq pending'
  BY <1>6 DEF AskBridge, AskTimesOut, AnswerCall, BridgeLost, BridgeStep, Manual, file, recoveryVars
<1> QED BY <1>2, <1>3, <1>4, <1>5, <1>6 DEF CronNext, Worker, WorkerStep

THEOREM SettledInvariant == CronSafety => []SettledInv
  BY SettledInvInit, SettledInvNext, RecoveryInvariant, PTL DEF CronSafety

(* A window is dropped only when nothing in it is left unattempted for the *)
(* jobs of its targets, but for what a bridge left out: over time-outs,    *)
(* late answers, refusals, repeated passes and restarts of both sides.     *)
THEOREM NothingIsLeftMissed == CronSafety => NothingLeftMissed
<1> DEFINE A == \A w \in pending :
                  (\A v \in pending' : v.to # w.to) =>
                    \A j \in Jobs : \A d \in Time :
                      Owner[j] \in w.targets /\ MissedDue(j, w.from, w.to, d) => <<j, w.to>> \in leftOut
<1>1. ASSUME CatchUpInv, WorkerTypeOK, FileInv, SettledInv, CronNext PROVE A
  <2> SUFFICES ASSUME NEW w \in pending, \A v \in pending' : v.to # w.to,
                      NEW j \in Jobs, NEW d \in Time,
                      Owner[j] \in w.targets, MissedDue(j, w.from, w.to, d)
               PROVE  <<j, w.to>> \in leftOut
    OBVIOUS
  <2>1. Settles(Owner[j], w) /\ w \in Window /\ CatchUpTypeOK
    BY <1>1, DroppedIsSettled, PastWindows DEF CatchUpInv
  <2> QED BY <2>1, SettledIsNotMissed
<1>2. CatchUpInv /\ WorkerTypeOK /\ FileInv /\ SettledInv /\ [CronNext]_cronVars => [A]_cronVars
  BY <1>1
<1> QED BY <1>2, RecoveryInvariant, SettledInvariant, PTL DEF CronSafety, NothingLeftMissed
=============================================================================
