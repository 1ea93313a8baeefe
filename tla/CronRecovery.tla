---------------------------- MODULE CronRecovery ----------------------------
(***************************************************************************)
(* Cron recovery of Mission Control (mission-control/app/main.py) with the *)
(* bridges of CronCatchUp.  The state file keeps the last heartbeat and    *)
(* the windows still to recover; each start adds the time since the last   *)
(* heartbeat as a window.  A worker thread passes over a copy of the       *)
(* windows, oldest first, and asks the bridge of each target profile that  *)
(* has not completed the window; profiles that answer ok are completed,    *)
(* and a window whose targets all are is dropped.                          *)
(*                                                                         *)
(* Every access to the state file is one step: _cron_recovery_state_lock   *)
(* is held from its read to its write.  Windows are appended in the order  *)
(* of their ends, so the list is a set whose members are known, and        *)
(* ordered, by their ends.                                                 *)
(***************************************************************************)
EXTENDS CronCatchUp

VARIABLES
  up,         \* Mission Control is running
  lastSeen,   \* file: last_seen_at
  pending,    \* file: pending_windows
  registry,   \* the profiles that _profiles() reads
  pass,       \* the worker's copy of the windows it has still to handle in this pass
  passReg,    \* the profiles it read at the beginning of the pass
  call,       \* profile -> the worker's call for the first window of `pass`
  offline     \* history: instants Mission Control was down and no dropped window covers

recoveryVars == <<up, lastSeen, pending, registry, pass, passReg, call, offline>>
cronVars     == <<catchUpVars, recoveryVars>>
file         == <<lastSeen, pending>>
worker       == <<pass, passReg, call>>

Window == [from : Time, to : Time, targets : SUBSET Profiles, initialized : BOOLEAN,
           completed : SUBSET Profiles]

CronTypeOK ==
  /\ CatchUpTypeOK
  /\ up \in BOOLEAN /\ lastSeen \in Time \cup {Never}
  /\ pending \subseteq Window /\ pass \subseteq Window
  /\ registry \subseteq Profiles /\ passReg \subseteq Profiles
  /\ call \in [Profiles -> {"none", "asked", "taken", "ok", "failed"}]
  /\ offline \subseteq Time

NoCalls   == [p \in Profiles |-> "none"]
Covered(w) == {t \in Time : w.from < t /\ t <= w.to}

(* Mutant: any answer completes, failed ones too.                          *)
AnsweredAtAll == {p \in Profiles : call[p] # "none"}

Answered == {p \in Profiles : call[p] = "ok"}

-----------------------------------------------------------------------------
(* The process and its heartbeat.                                          *)

NewWindow == [from |-> lastSeen, to |-> now, targets |-> registry,
              initialized |-> registry # {}, completed |-> {}]

(* Mutant: the window is saved without the heartbeat.                      *)
StartSameHeartbeat ==
  /\ ~up /\ up' = TRUE
  /\ IF lastSeen = Never THEN lastSeen' = now /\ pending' = pending
     ELSE /\ pending' = IF lastSeen < now THEN pending \cup {NewWindow} ELSE pending
          /\ lastSeen' = lastSeen
  /\ UNCHANGED <<catchUpVars, registry, worker, offline>>

(* Mutant: the new window replaces those still pending.                    *)
StartForgetting ==
  /\ ~up /\ up' = TRUE
  /\ pending' = IF lastSeen # Never /\ lastSeen < now THEN {NewWindow} ELSE pending
  /\ lastSeen' = now
  /\ UNCHANGED <<catchUpVars, registry, worker, offline>>

\* _prepare_cron_recovery: on the first start there is no heartbeat and no window.
Start ==
  /\ ~up /\ up' = TRUE
  /\ pending' = IF lastSeen # Never /\ lastSeen < now
                THEN pending \cup {NewWindow} ELSE pending
  /\ lastSeen' = now
  /\ UNCHANGED <<catchUpVars, registry, worker, offline>>

Heartbeat ==
  /\ up /\ lastSeen' = now
  /\ UNCHANGED <<catchUpVars, up, pending, registry, worker, offline>>

\* The process ends, orderly (with a last heartbeat) or not; the worker's memory is gone.
Stop ==
  /\ up /\ up' = FALSE /\ OtherFault
  /\ lastSeen' \in {lastSeen, now}
  /\ pass' = {} /\ passReg' = {} /\ call' = NoCalls
  /\ UNCHANGED <<pending, registry, offline>>

Clock ==
  /\ Tick
  /\ offline' = IF up \/ lastSeen = Never THEN offline ELSE offline \cup {now + 1}
  /\ UNCHANGED <<up, file, registry, worker>>

\* Profiles are provisioned or removed, or the registry cannot be read.
RegistryChanges ==
  /\ OtherFault
  /\ registry' \in SUBSET Profiles
  /\ UNCHANGED <<up, file, worker, offline>>

-----------------------------------------------------------------------------
(* The worker: _process_cron_recovery_windows.                             *)

\* The windows after _update_cron_recovery_window for the one that ends at `to`.
Updated(windows, to, done) ==
  LET marked == {IF w.to = to THEN [w EXCEPT !.completed = @ \cup done] ELSE w : w \in windows}
  IN  {w \in marked : ~(w.to = to /\ w.initialized /\ w.targets \subseteq w.completed)}

Initialized(windows, to, targets) ==
  {IF w.to = to THEN [w EXCEPT !.targets = targets, !.initialized = TRUE] ELSE w : w \in windows}

BeginPass ==
  /\ up /\ pass = {} /\ pending # {} /\ registry # {}
  /\ pass' = pending /\ passReg' = registry
  /\ UNCHANGED <<catchUpVars, up, file, registry, call, offline>>

\* The profiles to ask for window w, as the worker's copy has it.
ToAsk(w) == ((IF w.initialized THEN w.targets ELSE passReg) \ w.completed) \cap passReg

\* The window the pass has come to.
Current(w) == w \in pass /\ \A v \in pass : w.to <= v.to

\* History: what the windows that this step drops covered.
Dropped(windows) ==
  UNION {Covered(w) : w \in {v \in pending : \A u \in windows : u.to # v.to}}

NextWindow ==
  /\ up /\ call = NoCalls
  /\ \E w \in pass : Current(w) /\
       LET known == IF w.initialized THEN pending ELSE Initialized(pending, w.to, passReg)
       IN  IF ToAsk(w) = {}
           THEN /\ pending' = Updated(known, w.to, {})
                /\ pass' = pass \ {w} /\ call' = call
           ELSE /\ pending' = known
                /\ call' = [p \in Profiles |-> IF p \in ToAsk(w) THEN "asked" ELSE "none"]
                /\ pass' = pass
  /\ offline' = offline \ Dropped(pending')
  /\ UNCHANGED <<catchUpVars, up, lastSeen, registry, passReg>>

\* The bridge accepts the call, refuses it (409), or cannot be reached.
AskBridge(p) ==
  /\ call[p] = "asked"
  /\ \/ /\ \E w \in pass : Current(w) /\ Take(p, [from |-> w.from, to |-> w.to, only |-> Jobs])
        /\ call' = [call EXCEPT ![p] = "taken"] /\ faults' = faults
     \/ /\ ~bridgeUp[p] \/ work[p] # Free
        /\ call' = [call EXCEPT ![p] = "failed"] /\ UNCHANGED catchUpVars
  /\ UNCHANGED <<up, file, registry, pass, passReg, offline>>

\* CRON_CATCHUP_TIMEOUT is long: only a job that runs exceeds it.
AskTimesOut(p) ==
  /\ call[p] = "taken" /\ work[p].stage = "running" /\ work[p].job # Nothing
  /\ call' = [call EXCEPT ![p] = "failed"]
  /\ UNCHANGED <<catchUpVars, up, file, registry, pass, passReg, offline>>

Settled == \A p \in Profiles : call[p] \in {"none", "ok", "failed"}

\* All calls have returned.
EndWindow ==
  /\ call # NoCalls /\ Settled
  /\ \E w \in pass : Current(w) /\ pending' = Updated(pending, w.to, Answered)
                                /\ pass' = pass \ {w}
  /\ call' = NoCalls
  /\ offline' = offline \ Dropped(pending')
  /\ UNCHANGED <<catchUpVars, up, lastSeen, registry, passReg>>

\* The state file cannot be written: the pass ends, to be repeated.
SaveFails ==
  /\ pass # {} /\ Settled
  /\ OtherFault
  /\ pass' = {} /\ call' = NoCalls
  /\ UNCHANGED <<up, file, registry, passReg, offline>>

WorkerStep == BeginPass \/ NextWindow \/ EndWindow \/ \E p \in Profiles : AskBridge(p)

Worker == WorkerStep \/ SaveFails \/ \E p \in Profiles : AskTimesOut(p)

-----------------------------------------------------------------------------
(* The bridges, with their callers.                                        *)

BridgeStep(p) == Bridge(p) /\ UNCHANGED recoveryVars

\* An answer reaches the worker only if it still waits for it.
AnswerCall(p) ==
  /\ Answer(p)
  /\ call' = IF call[p] = "taken" THEN [call EXCEPT ![p] = "ok"] ELSE call
  /\ UNCHANGED <<up, file, registry, pass, passReg, offline>>

BridgeLost(p) ==
  /\ BridgeDies(p)
  /\ call' = IF call[p] = "taken" THEN [call EXCEPT ![p] = "failed"] ELSE call
  /\ UNCHANGED <<up, file, registry, pass, passReg, offline>>

\* POST /api/schedules/cron/catch-up asks for everything missed, or for one job.
Manual(p) ==
  /\ up /\ faults < MaxFaults /\ faults' = faults + 1
  /\ \E only \in {Jobs} \cup {{j} : j \in JobsOf(p)} :
        Take(p, [from |-> Never, to |-> Never, only |-> only])
  /\ UNCHANGED recoveryVars

-----------------------------------------------------------------------------

CronInit ==
  /\ CatchUpInit
  /\ up = FALSE /\ lastSeen = Never /\ pending = {} /\ registry = Profiles
  /\ pass = {} /\ passReg = {} /\ call = NoCalls /\ offline = {}

CronNext ==
  \/ Start \/ Heartbeat \/ Stop \/ Clock \/ RegistryChanges \/ Worker
  \/ \E p \in Profiles : BridgeStep(p) \/ AnswerCall(p) \/ BridgeLost(p) \/ Manual(p)

CronSafety == CronInit /\ [][CronNext]_cronVars

CatchUpStep(p) ==
  \/ AnswerCall(p)
  \/ /\ \/ List(p, TRUE) \/ RunEnds(p, FALSE)
        \/ work[p].stage = "running" /\ \E t \in work[p].todo : Claim(p, t) \/ Skip(p, t)
     /\ UNCHANGED recoveryVars

CronSpec ==
  /\ CronSafety
  /\ WF_cronVars(Start) /\ WF_cronVars(WorkerStep)
  /\ \A p \in Profiles : /\ WF_cronVars(CatchUpStep(p))
                         /\ WF_cronVars(BridgeStarts(p) /\ UNCHANGED recoveryVars)

-----------------------------------------------------------------------------

(* No two windows overlap and none reaches past the last heartbeat, so an  *)
(* occurrence lies in one window at most: each start records its window    *)
(* and its heartbeat together.                                             *)
WindowsApart ==
  \A w \in pending : /\ w.from < w.to /\ w.to <= lastSeen
                     /\ \A v \in pending : v = w \/ v.to <= w.from \/ w.to <= v.from

(* Every instant Mission Control was down belongs to a window, over        *)
(* restarts that follow each other closely and windows dropped meanwhile.  *)
DowntimeIsCovered ==
  \A t \in offline : t <= lastSeen => \E w \in pending : t \in Covered(w)

(* When a window is dropped, no job of a target profile has an occurrence  *)
(* in it that nothing attempted, but for jobs that the bridge skipped or   *)
(* could not see: late, lost and refused answers complete nothing.         *)
NothingLeftMissed ==
  [][\A w \in pending :
       (\A v \in pending' : v.to # w.to) =>
         \A j \in Jobs : \A d \in Time :
           Owner[j] \in w.targets /\ MissedDue(j, w.from, w.to, d) => <<j, w.to>> \in leftOut]_cronVars

\* A window that waits for profiles that are not registered.
Stranded(w) == registry = {} \/ ~(w.targets \ w.completed \subseteq registry)

(* A window does not stay for ever while its profiles stay registered,     *)
(* whatever time-outs, refusals and restarts happen on the way.            *)
WindowsEnd ==
  \A t \in Time : (\E w \in pending : w.to = t)
     ~> ~(\E w \in pending : w.to = t /\ ~Stranded(w))
=============================================================================
