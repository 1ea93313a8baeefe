---------------------------- MODULE CronCatchUp ----------------------------
(***************************************************************************)
(* The bridge's side of cron recovery (agent-bridge/agent-chat-bridge.py). *)
(* A catch-up holds _CRON_CATCHUP_BUSY: it reads the job file once, picks  *)
(* for each job the newest occurrence inside the bounds it was given that  *)
(* no attempt covers, and then claims and runs the picked jobs in turn.    *)
(* A catch-up that finds the lock taken is refused.                        *)
(*                                                                         *)
(* The job file belongs to the agent's own scheduler, which is not part of *)
(* the repository: it fires jobs, moves stale ones forward, and provides   *)
(* claim_job_for_fire and run_one_job.  A job is its next_run_at,          *)
(* last_run_at, fire_claim and whether it is enabled; instants are ticks.  *)
(***************************************************************************)
EXTENDS Integers

CONSTANTS
  Profiles,   \* one bridge each
  Jobs,
  Owner,      \* job -> the profile whose file it is in
  Schedule,   \* job -> its schedule: kind, period, and at (phase, created_at or run_at)
  Nothing,    \* no job
  MaxTime,    \* bound: the last instant of a behaviour
  MaxFaults   \* bound: crashes, failures and edits in a behaviour

Never == -1
Time  == 0..MaxTime

ASSUME CatchUpAssumption ==
  /\ MaxTime \in Nat /\ MaxFaults \in Nat /\ Nothing \notin Jobs
  /\ Owner \in [Jobs -> Profiles]
  /\ Schedule \in [Jobs -> [kind : {"cron", "interval", "once"}, period : Nat \ {0}, at : Nat]]

VARIABLES
  now,
  jobs,       \* the job files: job -> next, last, claim, held, enabled
  bridgeUp,   \* profile -> its container is running
  work,       \* profile -> the catch-up that holds _CRON_CATCHUP_BUSY, or Free
  lastCatchUp,\* history: job -> when a catch-up last claimed it
  leftOut,    \* history: <<job, end of window>> that a catch-up reported as skipped or could not see
  faults      \* history: faults so far

catchUpVars == <<now, jobs, bridgeUp, work, lastCatchUp, leftOut, faults>>

Job     == [next : Time \cup {Never}, last : Time \cup {Never}, claim : Time \cup {Never},
            held : BOOLEAN, enabled : BOOLEAN]
Bounds  == [from : Time \cup {Never}, to : Time \cup {Never}, only : SUBSET Jobs]
Due     == [job : Jobs, due : Time]
Free    == [stage |-> "free"]

CatchUpTypeOK ==
  /\ now \in Time
  /\ jobs \in [Jobs -> Job]
  /\ bridgeUp \in [Profiles -> BOOLEAN]
  /\ work \in [Profiles -> {Free} \cup [stage : {"listing"}, bounds : Bounds]
                 \cup [stage : {"running"}, bounds : Bounds, todo : SUBSET Due,
                       job : Jobs \cup {Nothing}]]
  /\ lastCatchUp \in [Jobs -> Time \cup {Never}]
  /\ leftOut \subseteq Jobs \X Time
  /\ faults \in 0..MaxFaults

-----------------------------------------------------------------------------
(* What was missed.                                                        *)

(* Mutant: the claim of an attempt that never finished is ignored.          *)
AttemptFinished(j) == jobs[j].last

Attempt(j) == IF jobs[j].last >= jobs[j].claim THEN jobs[j].last ELSE jobs[j].claim

\* The occurrences of j up to `to` that the code considers.
Candidates(j, to) ==
  LET s      == Schedule[j]
      anchor == IF jobs[j].last # Never THEN jobs[j].last ELSE s.at
  IN  {t \in Time : t <= to /\
         \/ t = jobs[j].next
         \/ s.kind = "cron"     /\ t >= s.at   /\ (t - s.at) % s.period = 0
         \/ s.kind = "interval" /\ t > anchor  /\ (t - anchor) % s.period = 0
         \/ s.kind = "once"     /\ t = s.at}

\* _cron_missed_due_at(j, from, to) = d
MissedDue(j, from, to, d) ==
  /\ jobs[j].enabled
  /\ d \in Candidates(j, to) /\ \A c \in Candidates(j, to) : c <= d
  /\ from < d
  /\ Attempt(j) < d

JobsOf(p) == {j \in Jobs : Owner[j] = p}

\* A window has an end; a manual catch-up has none and takes the present.
EndOf(b) == IF b.to = Never THEN now ELSE b.to

-----------------------------------------------------------------------------
(* The handler of /cron/catch-up.                                          *)

Take(p, bounds) ==
  /\ bridgeUp[p] /\ work[p] = Free
  /\ work' = [work EXCEPT ![p] = [stage |-> "listing", bounds |-> bounds]]
  /\ UNCHANGED <<now, jobs, bridgeUp, lastCatchUp, leftOut>>

\* What a listing hides: jobs that are off, and all jobs if the file cannot be read.
Hidden(p, readable) == {j \in JobsOf(p) : ~jobs[j].enabled \/ ~readable}

Reported(p, js) ==
  IF work[p].bounds.to = Never THEN {} ELSE js \X {work[p].bounds.to}

\* _load_raw_cron_jobs answers [] for a file that it cannot read or parse.
List(p, readable) ==
  /\ work[p].stage = "listing"
  /\ readable \/ faults < MaxFaults
  /\ faults' = IF readable THEN faults ELSE faults + 1
  /\ LET b == work[p].bounds
         missed == {t \in Due : /\ readable /\ t.job \in JobsOf(p) \cap b.only
                                /\ MissedDue(t.job, b.from, EndOf(b), t.due)}
     IN  work' = [work EXCEPT ![p] =
                    [stage |-> "running", bounds |-> b, todo |-> missed, job |-> Nothing]]
  /\ leftOut' = leftOut \cup Reported(p, Hidden(p, readable))
  /\ UNCHANGED <<now, jobs, bridgeUp, lastCatchUp>>

Picked(p, t) == work[p].stage = "running" /\ work[p].job = Nothing /\ t \in work[p].todo

\* claim_job_for_fire says yes and run_one_job begins.
Claim(p, t) ==
  /\ Picked(p, t)
  /\ jobs[t.job].enabled /\ ~jobs[t.job].held
  /\ jobs' = [jobs EXCEPT ![t.job] = [jobs[t.job] EXCEPT !.claim = now, !.held = TRUE]]
  /\ work' = [work EXCEPT ![p] =
       [work[p] EXCEPT !.todo = work[p].todo \ {t}, !.job = t.job]]
  /\ lastCatchUp' = [lastCatchUp EXCEPT ![t.job] = now]
  /\ UNCHANGED <<now, bridgeUp, leftOut, faults>>

\* claim_job_for_fire says no, or raises.
Skip(p, t) ==
  /\ Picked(p, t)
  /\ IF jobs[t.job].enabled /\ ~jobs[t.job].held
     THEN faults < MaxFaults /\ faults' = faults + 1 ELSE faults' = faults
  /\ work' = [work EXCEPT ![p] = [work[p] EXCEPT !.todo = work[p].todo \ {t}]]
  /\ leftOut' = leftOut \cup Reported(p, {t.job})
  /\ UNCHANGED <<now, jobs, bridgeUp, lastCatchUp>>

\* External: the first occurrence of j after t, if the horizon has room for it.
NextAfter(j, t) ==
  LET s == Schedule[j]
      u == CASE s.kind = "cron" /\ t < s.at  -> s.at
             [] s.kind = "cron" /\ t >= s.at -> (t + s.period) - ((t - s.at) % s.period)
             [] s.kind = "interval"          -> t + s.period
             [] s.kind = "once"              -> Never
  IN  IF u \in Time THEN u ELSE Never

\* External: the next_run_at a job is created with.
FirstRun(j) ==
  LET s == Schedule[j]
      u == IF s.kind = "interval" THEN s.at + s.period ELSE s.at
  IN  IF u \in Time THEN u ELSE Never

Ran(j) == [jobs EXCEPT ![j] = [jobs[j] EXCEPT !.last = now, !.claim = Never, !.held = FALSE,
                                        !.next = NextAfter(j, now)]]

\* run_one_job returns, or raises with only the claim on file.
RunEnds(p, raises) ==
  /\ work[p].stage = "running" /\ work[p].job # Nothing
  /\ jobs' = IF raises THEN [jobs EXCEPT ![work[p].job].held = FALSE] ELSE Ran(work[p].job)
  /\ work' = [work EXCEPT ![p].job = Nothing]
  /\ UNCHANGED <<now, bridgeUp, lastCatchUp, leftOut, faults>>

(* Mutant: _CRON_CATCHUP_BUSY is not released.                             *)
AnswerLocked(p) ==
  /\ work[p].stage = "running" /\ work[p].job = Nothing /\ work[p].todo = {}
  /\ UNCHANGED catchUpVars

Answer(p) ==
  /\ work[p].stage = "running" /\ work[p].job = Nothing /\ work[p].todo = {}
  /\ work' = [work EXCEPT ![p] = Free]
  /\ UNCHANGED <<now, jobs, bridgeUp, lastCatchUp, leftOut, faults>>

-----------------------------------------------------------------------------
(* External: the agent's scheduler, its operator, the container, time.     *)

Caught(j) == work[Owner[j]].stage = "running" /\ work[Owner[j]].job = j

SchedulerFires(j) ==
  /\ bridgeUp[Owner[j]] /\ jobs[j].enabled /\ ~jobs[j].held
  /\ jobs[j].next # Never /\ jobs[j].next <= now
  /\ jobs' = [jobs EXCEPT ![j] = [jobs[j] EXCEPT !.claim = now, !.held = TRUE]]
  /\ UNCHANGED <<now, bridgeUp, work, lastCatchUp, leftOut, faults>>

SchedulerEnds(j) ==
  /\ jobs[j].held /\ ~Caught(j)
  /\ jobs' = Ran(j)
  /\ UNCHANGED <<now, bridgeUp, work, lastCatchUp, leftOut, faults>>

\* A stale job is not fired but moved to its next occurrence.
FastForward(j) ==
  /\ bridgeUp[Owner[j]] /\ ~jobs[j].held
  /\ jobs[j].next # Never /\ jobs[j].next < now
  /\ jobs' = [jobs EXCEPT ![j].next = NextAfter(j, now)]
  /\ UNCHANGED <<now, bridgeUp, work, lastCatchUp, leftOut, faults>>

\* The operator pauses or resumes a job.
Toggle(j) ==
  /\ faults < MaxFaults /\ faults' = faults + 1
  /\ jobs' = [jobs EXCEPT ![j].enabled = ~@]
  /\ UNCHANGED <<now, bridgeUp, work, lastCatchUp, leftOut>>

\* What was running dies with the container; its claims stay on file, unheld.
BridgeDies(p) ==
  /\ bridgeUp[p]
  /\ faults < MaxFaults /\ faults' = faults + 1
  /\ bridgeUp' = [bridgeUp EXCEPT ![p] = FALSE]
  /\ work' = [work EXCEPT ![p] = Free]
  /\ jobs' = [j \in Jobs |-> [jobs[j] EXCEPT !.held = @ /\ Owner[j] # p]]
  /\ UNCHANGED <<now, lastCatchUp, leftOut>>

BridgeStarts(p) ==
  /\ ~bridgeUp[p]
  /\ bridgeUp' = [bridgeUp EXCEPT ![p] = TRUE]
  /\ UNCHANGED <<now, jobs, work, lastCatchUp, leftOut, faults>>

\* A failure elsewhere, counted with those here.
OtherFault ==
  /\ faults < MaxFaults /\ faults' = faults + 1
  /\ UNCHANGED <<now, jobs, bridgeUp, work, lastCatchUp, leftOut>>

Tick ==
  /\ now < MaxTime
  /\ now' = now + 1
  /\ UNCHANGED <<jobs, bridgeUp, work, lastCatchUp, leftOut, faults>>

-----------------------------------------------------------------------------

CatchUpInit ==
  /\ now = 0
  /\ jobs = [j \in Jobs |-> [next |-> FirstRun(j), last |-> Never, claim |-> Never,
                             held |-> FALSE, enabled |-> TRUE]]
  /\ bridgeUp = [p \in Profiles |-> TRUE]
  /\ work = [p \in Profiles |-> Free]
  /\ lastCatchUp = [j \in Jobs |-> Never]
  /\ leftOut = {} /\ faults = 0

\* What a bridge, its agent and its container do without being asked.
Bridge(p) ==
  \/ \E r \in BOOLEAN : List(p, r) \/ RunEnds(p, r)
  \/ work[p].stage = "running" /\ \E t \in work[p].todo : Claim(p, t) \/ Skip(p, t)
  \/ \E j \in JobsOf(p) : SchedulerFires(j) \/ SchedulerEnds(j) \/ FastForward(j) \/ Toggle(j)
  \/ BridgeStarts(p)

CatchUpNext ==
  \/ Tick \/ OtherFault
  \/ \E p \in Profiles : \/ Bridge(p) \/ Answer(p) \/ BridgeDies(p)
                         \/ faults' \in faults..MaxFaults /\ \E b \in Bounds : Take(p, b)

CatchUpSpec == CatchUpInit /\ [][CatchUpNext]_catchUpVars

-----------------------------------------------------------------------------

(* A catch-up never runs a job for an occurrence that an earlier catch-up  *)
(* attempted: "Automatic recovery runs only when neither record covers the *)
(* newest due occurrence" (docs/16-DECISION-LOG.md, D-024), over calls     *)
(* that time out and are repeated, manual calls, and a container that dies *)
(* between the claim and the end of a run.                                 *)
NeverRecoveredTwice ==
  [][\A p \in Profiles : \A t \in Due : Claim(p, t) => lastCatchUp[t.job] < t.due]_catchUpVars
=============================================================================
