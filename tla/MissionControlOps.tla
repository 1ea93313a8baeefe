------------------------- MODULE MissionControlOps -------------------------
(***************************************************************************)
(* The governed-operations lane of Mission Control                         *)
(* (hermes-platform/mission-control/app/main.py) together with the two     *)
(* executors it hands approved operations to: the operations runner, whose *)
(* module this one extends (its request ids are the ids of the Docker      *)
(* operations), and the host queue of                                      *)
(* local-host-runner/scoped-remediation-runner.py.                         *)
(*                                                                         *)
(* Mission Control keeps one JSON store.  A handler reads the whole store, *)
(* works on its private copy and writes the whole copy back; _STORE_LOCK   *)
(* is held inside one read and inside one write, not between them.  So a   *)
(* handler is a sequence of steps (read, write, runner call, write) and    *)
(* the steps of concurrent handlers interleave.  A handler may raise       *)
(* before any of its writes, and a store that cannot be read is served as  *)
(* the default one, which the next write puts in its place.                *)
(*                                                                         *)
(* Of the store the model keeps the status of each operation and the       *)
(* WebAuthn challenges that approvals consume.  A request that is refused  *)
(* before it changes its copy is a stuttering step.  Conversations are     *)
(* left out: a notification about an operation changes other files.        *)
(***************************************************************************)
EXTENDS OperationsRunner

CONSTANTS
  Threads,     \* worker threads that serve Mission Control's endpoints
  NoThread,    \* nobody waits for the request the runner serves
  HostOps,     \* ids of host operations; RequestIds are the Docker ones
  NoHostOp,    \* the host runner is between jobs
  Challenges,  \* the random challenges the authenticator may be given
  MaxRestarts, \* bound: restarts of Mission Control and of the host runner
  MaxSends,    \* bound: an operation handed over this often is not approved
  MaxBreaks    \* bound: handlers that raise and stores that cannot be read

ASSUME MissionControlAssumption ==
  /\ IsFiniteSet(Threads) /\ NoThread \notin Threads /\ NoHostOp \notin HostOps
  /\ RequestIds \cap HostOps = {} /\ RequestIds \cup HostOps # {} /\ MaxRestarts \in Nat
  /\ MaxSends \in Nat /\ MaxBreaks \in Nat

Ops == RequestIds \cup HostOps
Unfinished == {"pending_approval", "executing"}
Terminal   == {"executed", "failed", "rejected", "expired", "unknown"}
Status     == {"absent"} \cup Unfinished \cup Terminal

VARIABLES
  store,      \* the JSON file: statuses of operations and open challenges
  handler,    \* per thread: where its handler is, and its copy of the store
  issued,     \* ids and challenges drawn so far (uuid4 and urandom: fresh)
  age,        \* per operation: "fresh", past the approval TTL, past retention
  servedFor,  \* the thread waiting for the request the runner serves
  orphans,    \* per operation: requests at the runner's lock nobody waits for
  jobs,       \* queue/jobs: host operations handed over
  results,    \* queue/results: host operation -> "executed" or "failed"
  hostBusy,   \* the job the host runner is executing
  hostRuns,   \* per host operation: how often its job was executed
  hostLost,   \* history: executions whose result was never written
  sends,      \* history: per operation, hand-overs to an executor
  restarts,   \* history: restarts so far
  breaks,     \* history: handlers that raised and stores not read so far
  unread,     \* history: operations on file when a handler could not read it
  unwritten   \* history: operations whose outcome a handler did not get to write

breakVars == <<breaks, unread, unwritten>>
mcVars == <<store, handler, issued, age, servedFor, orphans, sends, restarts, breakVars>>
hostVars == <<jobs, results, hostBusy, hostRuns, hostLost>>
vars == <<runnerVars, mcVars, hostVars>>

-----------------------------------------------------------------------------

(* A challenge names the operation it approves.                            *)
Challenge(c, o, used) == [id |-> c, op |-> o, used |-> used]
Stores == [status : [Ops -> Status],
           challenges : SUBSET [id : Challenges, op : Ops, used : BOOLEAN]]

(* Where a handler is.  "write": about to write its copy, and then at      *)
(* next; "send": about to hand its operation over; "queued" and "serving": *)
(* waiting for the runner; "maintain", "backfill": later parts of list.    *)
Places == {"write", "send", "queued", "serving", "maintain", "backfill"}
Working == [at : Places, op : Ops, copy : Stores,
            next : {"done", "send", "maintain", "backfill"}]
Idle == [at |-> "idle"]

OpsTypeOK ==
  /\ TypeOK
  /\ store \in Stores
  /\ handler \in [Threads -> Working \cup {Idle}]
  /\ issued \subseteq Ops \cup Challenges
  /\ age \in [Ops -> {"fresh", "stale", "old"}]
  /\ servedFor \in Threads \cup {NoThread}
  /\ orphans \in [RequestIds -> Nat]
  /\ jobs \subseteq HostOps
  /\ DOMAIN results \subseteq HostOps /\ results \in [DOMAIN results -> {"executed", "failed"}]
  /\ hostBusy \in HostOps \cup {NoHostOp}
  /\ hostRuns \in [HostOps -> Nat] /\ hostLost \in [HostOps -> Nat]
  /\ sends \in [Ops -> Nat] /\ restarts \in 0..MaxRestarts
  /\ breaks \in 0..MaxBreaks /\ unread \subseteq Ops /\ unwritten \subseteq Ops

OpsInit ==
  /\ Init
  /\ store = [status |-> [o \in Ops |-> "absent"], challenges |-> {}]
  /\ handler = [h \in Threads |-> Idle]
  /\ issued = {} /\ age = [o \in Ops |-> "fresh"]
  /\ servedFor = NoThread /\ orphans = Zero
  /\ jobs = {} /\ results = [o \in {} |-> "executed"] /\ hostBusy = NoHostOp
  /\ hostRuns = [o \in HostOps |-> 0] /\ hostLost = [o \in HostOps |-> 0]
  /\ sends = [o \in Ops |-> 0] /\ restarts = 0
  /\ breaks = 0 /\ unread = {} /\ unwritten = {}

-----------------------------------------------------------------------------
(* Reading and writing the store                                           *)

At(h, place) == handler[h] # Idle /\ handler[h].at = place
Mark(s, o, status) == [s EXCEPT !.status[o] = status]

(* _read_store and the handler's work on its copy, up to its first write.  *)
Start(h, o, copy, next) ==
  /\ handler[h] = Idle
  /\ handler' = [handler EXCEPT ![h] = [at |-> "write", op |-> o, copy |-> copy, next |-> next]]

Goto(h, place) == handler' = [handler EXCEPT ![h] = IF place = "done" THEN Idle
                                                    ELSE [@ EXCEPT !.at = place]]

(* The write is not reached or fails: the disk is full, noting the event   *)
(* in the conversation raises, or the runner's answer ends in the middle,  *)
(* or the job of a host operation cannot be written.  The request ends     *)
(* with an error and the store stays as it is.                             *)
HandlerFails(h) ==
  /\ At(h, "write") \/ (At(h, "send") /\ handler[h].op \in HostOps)
  /\ breaks < MaxBreaks /\ breaks' = breaks + 1
  /\ unwritten' = unwritten \cup
       {o \in Ops : store.status[o] = "executing" /\ handler[h].copy.status[o] # "executing"}
  /\ handler' = [handler EXCEPT ![h] = Idle]
  /\ UNCHANGED <<runnerVars, store, issued, age, servedFor, orphans, sends, restarts, unread,
                 hostVars>>

(* _write_store: the whole copy replaces the file.                         *)
WriteStore(h) ==
  /\ At(h, "write")
  /\ store' = handler[h].copy
  /\ Goto(h, handler[h].next)
  /\ UNCHANGED <<runnerVars, issued, age, servedFor, orphans, sends, restarts, breakVars, hostVars>>

OnlyHandler == UNCHANGED <<runnerVars, store, age, servedFor, orphans, sends, restarts,
                           breakVars, hostVars>>

-----------------------------------------------------------------------------
(* The endpoints of the lane                                               *)

(* _create_operation_request: a proposal under a fresh id.                 *)
Create(h, o) ==
  /\ o \in Ops \ issued
  /\ Start(h, o, Mark(store, o, "pending_approval"), "done")
  /\ issued' = issued \cup {o}
  /\ OnlyHandler

(* _execute_preapproved_lifecycle: recorded as executing, then sent.       *)
Preapproved(h, o) ==
  /\ o \in RequestIds \ issued
  /\ Start(h, o, Mark(store, o, "executing"), "send")
  /\ issued' = issued \cup {o}
  /\ OnlyHandler

(* operation_approval_webauthn_options: used challenges are dropped and a  *)
(* fresh one for this operation is added.                                  *)
Options(h, o, c) ==
  /\ store.status[o] = "pending_approval"
  /\ c \in Challenges \ issued
  /\ Start(h, o, [store EXCEPT !.challenges =
                    {d \in @ : ~d.used} \cup {Challenge(c, o, FALSE)}], "done")
  /\ issued' = issued \cup {c}
  /\ OnlyHandler

(* Mutant: an expired request is closed whatever its status.               *)
ApproveExpiredAny(h, o) ==
  /\ age[o] # "fresh" /\ o \in issued
  /\ Start(h, o, Mark(store, o, "expired"), "done")
  /\ OnlyHandler /\ UNCHANGED issued

(* operations_approve on a request past the approval TTL.                  *)
ApproveExpired(h, o) ==
  /\ store.status[o] = "pending_approval"
  /\ age[o] # "fresh"
  /\ Start(h, o, Mark(store, o, "expired"), "done")
  /\ OnlyHandler /\ UNCHANGED issued

(* Mutant: the approval is not stamped before the hand-over.               *)
ApproveUnstamped(h, o, c) ==
  /\ store.status[o] = "pending_approval"
  /\ age[o] = "fresh" /\ sends[o] < MaxSends
  /\ Challenge(c, o, FALSE) \in store.challenges
  /\ Start(h, o, store, "send")
  /\ OnlyHandler /\ UNCHANGED issued

(* operations_approve with an assertion over an unused challenge for this  *)
(* operation: the approval is stamped and written before the hand-over.    *)
Approve(h, o, c) ==
  /\ store.status[o] = "pending_approval"
  /\ age[o] = "fresh" /\ sends[o] < MaxSends
  /\ Challenge(c, o, FALSE) \in store.challenges
  /\ Start(h, o, Mark([store EXCEPT !.challenges = (@ \ {Challenge(c, o, FALSE)})
                                                  \cup {Challenge(c, o, TRUE)}],
                      o, "executing"), "send")
  /\ OnlyHandler /\ UNCHANGED issued

(* operations_reject: only what is still pending.                          *)
Reject(h, o) ==
  /\ store.status[o] = "pending_approval"
  /\ Start(h, o, Mark(store, o, "rejected"), "done")
  /\ OnlyHandler /\ UNCHANGED issued

(* Any other endpoint that saves the store (tasks, schedules, releases,    *)
(* passkeys): the operations in its copy are the ones it read.             *)
OtherEndpoint(h) ==
  /\ \E o \in Ops : Start(h, o, store, "done")
  /\ OnlyHandler /\ UNCHANGED issued

(* _read_store on a file that cannot be read (an OSError or no JSON): the  *)
(* default store.  Endpoints that look for an operation, a challenge or a  *)
(* passkey answer that there is none; those that add something save it     *)
(* with nothing else.                                                      *)
DefaultStore == [status |-> [o \in Ops |-> "absent"], challenges |-> {}]

RequestedUnread(h) ==
  /\ breaks < MaxBreaks /\ breaks' = breaks + 1
  /\ unread' = unread \cup {o \in Ops : store.status[o] # "absent"}
  /\ \/ \E o \in Ops \ issued :
          /\ Start(h, o, Mark(DefaultStore, o, "pending_approval"), "done")
          /\ issued' = issued \cup {o}
     \/ \E o \in RequestIds \ issued :
          /\ Start(h, o, Mark(DefaultStore, o, "executing"), "send")
          /\ issued' = issued \cup {o}
     \/ \E o \in Ops : Start(h, o, DefaultStore, "done") /\ UNCHANGED issued
  /\ UNCHANGED <<runnerVars, store, age, servedFor, orphans, sends, restarts, unwritten,
                 hostVars>>

-----------------------------------------------------------------------------
(* operations_list                                                         *)

(* Mutant: a result file is taken for success.                             *)
ReconciledAsSuccess(s) ==
  [s EXCEPT !.status = [o \in Ops |->
     IF o \in DOMAIN results /\ s.status[o] = "executing" THEN "executed" ELSE s.status[o]]]

(* _reconcile_host_operations: results of the host runner are picked up.   *)
Reconciled(s) ==
  [s EXCEPT !.status = [o \in Ops |->
     IF o \in DOMAIN results /\ s.status[o] = "executing" THEN results[o] ELSE s.status[o]]]

(* _maintain_operations: finished operations are dropped after retention.  *)
Maintained(s) ==
  [s EXCEPT !.status = [o \in Ops |->
     IF s.status[o] \in Terminal /\ age[o] = "old" THEN "absent" ELSE s.status[o]]]

List(h) ==
  /\ handler[h] = Idle
  /\ LET copy == Reconciled(store) IN
     handler' = [handler EXCEPT ![h] =
       [at |-> IF copy = store THEN "maintain" ELSE "write",
        op |-> CHOOSE o \in Ops : TRUE, copy |-> copy, next |-> "maintain"]]
  /\ OnlyHandler /\ UNCHANGED issued

ListMaintains(h) ==
  /\ At(h, "maintain")
  /\ LET copy == Maintained(handler[h].copy) IN
     handler' = [handler EXCEPT ![h] =
       [@ EXCEPT !.copy = copy, !.next = "backfill",
                 !.at = IF copy = handler[h].copy THEN "backfill" ELSE "write"]]
  /\ OnlyHandler /\ UNCHANGED issued

(* Requests that never got a conversation are bound to the fallback one,   *)
(* which saves the copy once more.                                         *)
ListBackfills(h) ==
  /\ At(h, "backfill")
  /\ \/ /\ \E o \in Ops : handler[h].copy.status[o] = "pending_approval"
        /\ handler' = [handler EXCEPT ![h] = [@ EXCEPT !.at = "write", !.next = "done"]]
     \/ Goto(h, "done")
  /\ OnlyHandler /\ UNCHANGED issued

-----------------------------------------------------------------------------
(* Handing an approved operation over, and the runner's answer             *)

(* A host operation becomes a job file, and the handler returns; a Docker  *)
(* operation is posted to the runner, and the handler waits.               *)
Send(h) ==
  /\ At(h, "send")
  /\ IF handler[h].op \in HostOps
     THEN jobs' = jobs \cup {handler[h].op} /\ Goto(h, "done")
     ELSE Goto(h, "queued") /\ UNCHANGED jobs
  /\ sends' = [sends EXCEPT ![handler[h].op] = @ + 1]
  /\ UNCHANGED <<runnerVars, store, issued, age, servedFor, orphans, restarts, breakVars,
                 results, hostBusy, hostRuns, hostLost>>

(* Mutant: the handler forgets to note the outcome.                        *)
AnsweredUnmarked(h, status) ==
  [handler[h] EXCEPT !.at = "write", !.next = "done"]

(* The handler learns the outcome and is about to write the copy it made   *)
(* before the call.                                                        *)
Answered(h, status) ==
  [handler[h] EXCEPT !.at = "write", !.next = "done",
                     !.copy = Mark(@, handler[h].op, status)]

(* The runner gets to a waiting request.  An id on the ledger it loads is  *)
(* refused (409), which the handler takes for a failure.                   *)
RunnerTakes(h) ==
  /\ At(h, "queued")
  /\ \/ /\ busy = Free /\ handler[h].op \in Recorded
        /\ handler' = [handler EXCEPT ![h] = Answered(h, "failed")]
        /\ UNCHANGED <<runnerVars, servedFor>>
     \/ /\ BeginExecute("call", handler[h].op, NoExec) \/ BeginUnread("call", handler[h].op)
        /\ servedFor' = h
        /\ Goto(h, "serving")
  /\ UNCHANGED <<store, issued, age, orphans, sends, restarts, breakVars, hostVars>>

(* So it does to requests whose handler has given up or died.              *)
RunnerTakesOrphan(o) ==
  /\ orphans[o] > 0
  /\ orphans' = Drop(orphans, o)
  /\ \/ busy = Free /\ o \in Recorded /\ UNCHANGED runnerVars
     \/ BeginExecute("call", o, NoExec)
     \/ BeginUnread("call", o)
  /\ UNCHANGED <<store, handler, issued, age, servedFor, sends, restarts, breakVars, hostVars>>

(* The thread that waits for the served request gets its answer.           *)
Reply(status) ==
  /\ servedFor' = NoThread
  /\ handler' = [h \in Threads |-> IF h = servedFor THEN Answered(h, status) ELSE handler[h]]
  /\ UNCHANGED <<store, issued, age, orphans, sends, restarts, breakVars, hostVars>>

(* Only a recorded call is answered with success; an error of Docker, an   *)
(* abandoned call and an unwritten record are answered with an HTTP error. *)
RunnerAnswers ==
  \/ Record /\ Reply("executed")
  \/ (DockerRefuses \/ DockerBreaks \/ RecordFails) /\ Reply("failed")

(* Mission Control's own time limit, urlopen's 45 seconds: the request      *)
(* stays with the runner.                                                  *)
RunnerCallTimesOut(h) ==
  /\ At(h, "queued") \/ At(h, "serving")
  /\ handler' = [handler EXCEPT ![h] = Answered(h, "unknown")]
  /\ IF At(h, "queued")
     THEN orphans' = Bump(orphans, handler[h].op) /\ UNCHANGED servedFor
     ELSE servedFor' = NoThread /\ UNCHANGED orphans
  /\ UNCHANGED <<runnerVars, store, issued, age, sends, restarts, breakVars, hostVars>>

(* What Docker does unasked.                                               *)
DockerSteps ==
  /\ DockerPerforms \/ \E o \in RequestIds : DockerPerformsLate(o) \/ DockerDropsLate(o)
  /\ UNCHANGED <<mcVars, hostVars>>

(* The runner restarts: every handler waiting for it loses its connection. *)
RunnerRestarts ==
  /\ Crash
  /\ handler' = [h \in Threads |-> IF At(h, "queued") \/ At(h, "serving")
                                   THEN Answered(h, "unknown") ELSE handler[h]]
  /\ servedFor' = NoThread /\ orphans' = Zero
  /\ UNCHANGED <<store, issued, age, sends, restarts, breakVars, hostVars>>

(* Mission Control restarts: its handlers are gone, the store is what was  *)
(* last written, and the runner still has the requests it was sent.        *)
MissionControlRestarts ==
  /\ restarts < MaxRestarts /\ restarts' = restarts + 1
  /\ handler' = [h \in Threads |-> Idle]
  /\ servedFor' = NoThread
  /\ orphans' = [o \in RequestIds |->
       orphans[o] + Cardinality({h \in Threads : At(h, "queued") /\ handler[h].op = o})]
  /\ UNCHANGED <<runnerVars, store, issued, age, sends, breakVars, hostVars>>

-----------------------------------------------------------------------------
(* The host runner: jobs without a result, one at a time                   *)

(* Mutant: jobs that have a result are executed again.                     *)
HostTakesAgain(o) ==
  /\ hostBusy = NoHostOp /\ o \in jobs
  /\ hostRuns[o] < 2
  /\ hostBusy' = o
  /\ hostRuns' = [hostRuns EXCEPT ![o] = @ + 1]
  /\ UNCHANGED <<runnerVars, mcVars, jobs, results, hostLost>>

HostTakes(o) ==
  /\ hostBusy = NoHostOp
  /\ o \in jobs \ DOMAIN results
  /\ hostBusy' = o
  /\ hostRuns' = [hostRuns EXCEPT ![o] = @ + 1]
  /\ UNCHANGED <<runnerVars, mcVars, jobs, results, hostLost>>

(* The result is written, whether the job succeeded or raised.             *)
HostFinishes ==
  /\ hostBusy # NoHostOp
  /\ \E outcome \in {"executed", "failed"} :
       results' = [o \in DOMAIN results \cup {hostBusy} |->
                     IF o = hostBusy THEN outcome ELSE results[o]]
  /\ hostBusy' = NoHostOp
  /\ UNCHANGED <<runnerVars, mcVars, jobs, hostRuns, hostLost>>

HostRestarts ==
  /\ restarts < MaxRestarts /\ restarts' = restarts + 1
  /\ hostBusy # NoHostOp
  /\ hostLost' = [hostLost EXCEPT ![hostBusy] = @ + 1]
  /\ hostBusy' = NoHostOp
  /\ UNCHANGED <<runnerVars, store, handler, issued, age, servedFor, orphans, sends,
                 breakVars, jobs, results, hostRuns>>

-----------------------------------------------------------------------------

(* Time passes for an operation.  Retention is 180 days: no handler spans  *)
(* the moment it ends.                                                     *)
Ages(o) ==
  /\ o \in issued
  /\ \/ age[o] = "fresh" /\ age' = [age EXCEPT ![o] = "stale"]
     \/ /\ age[o] = "stale" /\ \A h \in Threads : handler[h] = Idle
        /\ age' = [age EXCEPT ![o] = "old"]
  /\ UNCHANGED <<runnerVars, store, handler, issued, servedFor, orphans, sends, restarts,
                 breakVars, hostVars>>

HandlerStep(h) ==
  \/ WriteStore(h) \/ Send(h) \/ RunnerTakes(h) \/ RunnerCallTimesOut(h)
  \/ ListMaintains(h) \/ ListBackfills(h)

Requested(h) ==
  \/ \E o \in Ops : Create(h, o) \/ Preapproved(h, o) \/ ApproveExpired(h, o) \/ Reject(h, o)
  \/ \E o \in Ops, c \in Challenges : Options(h, o, c) \/ Approve(h, o, c)
  \/ OtherEndpoint(h) \/ List(h)

OpsNext ==
  \/ \E h \in Threads : Requested(h) \/ RequestedUnread(h) \/ HandlerStep(h) \/ HandlerFails(h)
  \/ RunnerAnswers \/ DockerSteps \/ RunnerRestarts \/ MissionControlRestarts
  \/ \E o \in RequestIds : RunnerTakesOrphan(o)
  \/ \E o \in HostOps : HostTakes(o)
  \/ HostFinishes \/ HostRestarts
  \/ \E o \in Ops : Ages(o)

OpsSpec == OpsInit /\ [][OpsNext]_vars

(* A handler that was started goes on, and its runner call is answered or  *)
(* times out.  Nothing makes anyone send a request.                        *)
FairOpsSpec ==
  OpsSpec /\ \A h \in Threads : WF_vars(HandlerStep(h))

-----------------------------------------------------------------------------
(* Properties                                                              *)

(* The store and every copy of it that a handler may yet write.            *)
Versions == {store} \cup {handler[h].copy : h \in {g \in Threads : handler[g] # Idle}}

(* However approvals, time-outs and stale writes interleave, Docker        *)
(* performs an operation at most once unless the runner's record of it was *)
(* lost: a fault kept it from being written, a prune or a save over an     *)
(* unread file dropped it, or the runner is serving the operation just now *)
(* without having been able to read it.  The runner's ledger makes up for  *)
(* Mission Control sending one operation twice.                            *)
DockerRunsOnce ==
  \A o \in RequestIds :
    lost[o] + forgotten[o] = 0 /\ ~ServedUnread(o) => effects[o] <= 1

(* The executor has done what was approved: Docker performed the call, or  *)
(* the host runner reported success.                                       *)
Happened(o) == IF o \in RequestIds THEN effects[o] > 0
               ELSE o \in DOMAIN results /\ results[o] = "executed"

(* "executed" is never claimed in vain, not even in a copy that a handler  *)
(* may still write over a newer store.                                     *)
ExecutedIsTrue ==
  \A s \in Versions, o \in Ops : s.status[o] = "executed" => Happened(o)

(* A host job is executed once per result, plus once per restart in the    *)
(* middle of it, however often it is approved and handed over.             *)
HostRunsAccounted ==
  \A o \in HostOps :
    hostRuns[o] = hostLost[o] + One(o \in DOMAIN results) + One(hostBusy = o)

Ran(o) == IF o \in RequestIds THEN effects[o] > 0 ELSE hostRuns[o] > 0

(* Once an executor has acted on an operation the store says so: it is     *)
(* executing or finished as something other than a refusal ("absent" only  *)
(* when retention dropped it, or a store that could not be read was        *)
(* overwritten).  This is the auditable record the approval handler stamps *)
(* before it calls the runner.                                             *)
ActedIsOnRecord ==
  \A o \in Ops : Ran(o) =>
    \/ store.status[o] \in {"executing", "executed", "failed", "unknown"}
    \/ store.status[o] = "absent" /\ (age[o] = "old" \/ o \in unread)

(* A rejected request reaches neither executor.                            *)
RejectedNeverRuns ==
  \A o \in Ops : store.status[o] = "rejected" => ~Ran(o)

(* An operation is handed to its executor at most once.                    *)
HandedOverOnce == \A o \in Ops : sends[o] <= 1

(* Decisions hold, over restarts, time-outs and late answers: what an      *)
(* executor did was approved, is on record and was asked for once.         *)
DecisionsHold == ActedIsOnRecord /\ RejectedNeverRuns /\ HandedOverOnce

(* What a finished operation says is not rewritten.                        *)
FinishedIsFinal ==
  [][\A o \in Ops : store.status[o] \in Terminal
       => store'.status[o] \in {store.status[o], "absent"}]_vars

(* A Docker operation stays executing for ever only if a process restarts  *)
(* or the handler that knew its outcome did not get to write it: a hanging *)
(* Docker, a runner that is gone and a late answer all end it.             *)
ExecutingEnds ==
  \A o \in RequestIds :
    store.status[o] = "executing" ~>
      store.status[o] \in Terminal \cup {"absent"} \/ restarts > 0 \/ o \in unwritten
=============================================================================
