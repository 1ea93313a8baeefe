-------------------------- MODULE OperationsRunner --------------------------
(***************************************************************************)
(* The operations runner (hermes-platform/operations-runner/app/main.py):  *)
(* the only holder of the Docker socket.  Its persistent state is one JSON *)
(* file, replaced atomically: the ledger of request ids it has executed,   *)
(* the exec ids created through it and one Octo admin lease.  Every        *)
(* handler runs under one lock, held across the Docker call, so the file   *)
(* and the copy a handler loaded agree while the lock is held, unless the  *)
(* file could not be read, and the variables below stand for both.  What   *)
(* the lock does not cover is what the model is about: a Docker call that  *)
(* breaks off and may still be performed later, or never ends; a crash     *)
(* between the Docker call and the write of the file; a file that cannot   *)
(* be read, which is served as an empty one and then overwritten; the      *)
(* pruning of the ledger; and exec streams that run after the lock is      *)
(* released.                                                               *)
(*                                                                         *)
(* A request that is refused (duplicate id, invalid, no lease) changes     *)
(* nothing and is a stuttering step.  Which containers, images and paths   *)
(* are allowed does not change state either: a request stands for one that *)
(* passed those checks or is refused by Docker.                            *)
(***************************************************************************)
EXTENDS Integers, FiniteSets

CONSTANTS
  RequestIds,   \* request ids a client may send, each any number of times
  LeaseIds,     \* admin session ids
  NoLeaseId,    \* the lease id of a request that needs no lease
  ExecIds,      \* exec ids Docker may hand out
  NoExec,       \* "no exec id"
  LeaseTTL,     \* ADMIN_SESSION_TTL, in clock ticks
  MaxClock,     \* bound: the last instant of a behaviour
  LedgerLimit,  \* the ledger is pruned when it is longer (2000 in the code)
  LedgerKeep,   \* entries a prune keeps (1500 in the code)
  MaxFaults,    \* bound: broken calls, unwritten records, unread files, crashes
  MaxEffects    \* bound: a request with this many effects is not sent again

ASSUME RunnerAssumption ==
  /\ LeaseTTL \in Nat /\ MaxClock \in Nat \ {0} /\ MaxFaults \in Nat /\ MaxEffects \in Nat
  /\ LedgerLimit \in Nat /\ LedgerKeep \in 1..LedgerLimit
  /\ NoExec \notin ExecIds /\ NoLeaseId \notin LeaseIds

VARIABLES
  executed,   \* state["executed"]: request id -> the stamp a prune sorts by
  execIds,    \* state["factory_exec_ids"]
  lease,      \* state["admin_session"]; status "none" stands for None
  clock,      \* datetime.now(), in ticks
  busy,       \* the request served under _LOCK; op "none" when it is free
  streams,    \* per request, responses whose exec stream has not started yet
  created,    \* Docker: the exec instances it has handed out
  abandoned,  \* Docker: per request, calls in progress that nobody waits for
  effects,    \* Docker: per request, how often its call was performed
  commands,   \* Docker: per request, how often its root exec was started
  lost,       \* history: per request, effects whose record was never written
  forgotten,  \* history: per request, ledger entries dropped by a prune or
              \* with a file that could not be read
  faults      \* history: faults so far

fileVars   == <<executed, execIds, lease>>
dockerVars == <<created, abandoned, effects, commands>>
historyVars == <<lost, forgotten, faults>>
runnerVars == <<executed, execIds, lease, clock, busy, streams, created,
                abandoned, effects, commands, lost, forgotten, faults>>

-----------------------------------------------------------------------------

(* The kinds of request: a lifecycle or API call, creation or start of a   *)
(* factory exec, a call under the lease, a root exec under the lease.      *)
Kinds      == {"call", "exec_create", "exec_start", "lease_call", "lease_exec"}
LeaseKinds == {"lease_call", "lease_exec"}

Lease   == [id : LeaseIds, expires : Nat, status : {"active", "expired", "revoked"}]
NoLease == [status |-> "none"]

Request == [op : Kinds, id : RequestIds, lease : LeaseIds \cup {NoLeaseId},
            exec : ExecIds \cup {NoExec}, phase : {"calling", "recording"},
            read : {"file", "nothing"}]
Free    == [op |-> "none"]

Recorded == DOMAIN executed
Counters == [RequestIds -> Nat]
Zero     == [r \in RequestIds |-> 0]
One(P) == IF P THEN 1 ELSE 0
Bump(f, r) == [f EXCEPT ![r] = @ + 1]
Drop(f, r) == [f EXCEPT ![r] = @ - 1]

TypeOK ==
  /\ Recorded \subseteq RequestIds /\ executed \in [Recorded -> 0..MaxClock]
  /\ execIds \subseteq ExecIds /\ created \subseteq ExecIds
  /\ lease \in Lease \cup {NoLease}
  /\ clock \in 1..MaxClock
  /\ busy \in Request \cup {Free}
  /\ streams \in Counters /\ abandoned \in Counters /\ effects \in Counters
  /\ commands \in Counters /\ lost \in Counters /\ forgotten \in Counters
  /\ faults \in 0..MaxFaults

Init ==
  /\ executed = [r \in {} |-> 0] /\ execIds = {} /\ lease = NoLease
  /\ clock = 1 /\ busy = Free /\ streams = Zero
  /\ created = {} /\ abandoned = Zero /\ effects = Zero /\ commands = Zero
  /\ lost = Zero /\ forgotten = Zero /\ faults = 0

-----------------------------------------------------------------------------
(* Handlers up to their Docker call                                        *)

(* Mutant: the ledger is not consulted.                                    *)
ServeUnchecked(op, r, l, x) ==
  /\ busy = Free
  /\ effects[r] < MaxEffects
  /\ busy' = [op |-> op, id |-> r, lease |-> l, exec |-> x,
              phase |-> "calling", read |-> "file"]
  /\ UNCHANGED <<fileVars, clock, streams, dockerVars, historyVars>>

(* A request whose id is not on the ledger takes the lock.                 *)
Serve(op, r, l, x) ==
  /\ busy = Free
  /\ r \notin Recorded
  /\ effects[r] < MaxEffects
  /\ busy' = [op |-> op, id |-> r, lease |-> l, exec |-> x,
              phase |-> "calling", read |-> "file"]
  /\ UNCHANGED <<fileVars, clock, streams, dockerVars, historyVars>>

(* execute: a factory exec may be started only if its id is on file.       *)
BeginExecute(op, r, x) ==
  /\ \/ op \in {"call", "exec_create"} /\ x = NoExec
     \/ op = "exec_start" /\ x \in execIds
  /\ Serve(op, r, NoLeaseId, x)

(* load_state on a file that cannot be read (an OSError, or no JSON after  *)
(* the machine went down): an empty ledger, no exec ids and no lease.  A   *)
(* call that needs none of them is served, its id on the ledger or not;    *)
(* every other request is refused.                                         *)
BeginUnread(op, r) ==
  /\ op \in {"call", "exec_create"}
  /\ busy = Free
  /\ effects[r] < MaxEffects
  /\ faults < MaxFaults /\ faults' = faults + 1
  /\ busy' = [op |-> op, id |-> r, lease |-> NoLeaseId, exec |-> NoExec,
              phase |-> "calling", read |-> "nothing"]
  /\ UNCHANGED <<fileVars, clock, streams, dockerVars, lost, forgotten>>

(* active_session: the lease must be active, named by the request, and not *)
(* past its end.                                                           *)
LeaseLive(l) == /\ lease.status = "active"
                /\ lease.id = l
                /\ lease.expires > clock

BeginUnderLease(op, r, l) ==
  /\ op \in LeaseKinds
  /\ LeaseLive(l)
  /\ Serve(op, r, l, NoExec)

(* active_session on a lease past its end: the request is refused, and the *)
(* expiry it noticed is saved.                                             *)
NoticeExpiry(l) ==
  /\ busy = Free
  /\ lease.status = "active" /\ lease.id = l /\ lease.expires <= clock
  /\ lease' = [lease EXCEPT !.status = "expired"]
  /\ UNCHANGED <<executed, execIds, clock, busy, streams, dockerVars, historyVars>>

-----------------------------------------------------------------------------
(* The Docker call                                                         *)

(* Docker performs the call; creating an exec yields a fresh id.           *)
DockerPerforms ==
  /\ busy # Free /\ busy.phase = "calling"
  /\ effects' = Bump(effects, busy.id)
  /\ IF busy.op \in {"exec_create", "lease_exec"}
     THEN \E x \in ExecIds \ created :
            /\ created' = created \cup {x}
            /\ busy' = [busy EXCEPT !.phase = "recording", !.exec = x]
     ELSE /\ busy' = [busy EXCEPT !.phase = "recording"]
          /\ UNCHANGED created
  /\ UNCHANGED <<fileVars, clock, streams, abandoned, commands, historyVars>>

(* Docker answers with an error or cannot be reached: nothing is recorded. *)
DockerRefuses ==
  /\ busy # Free /\ busy.phase = "calling"
  /\ busy' = Free
  /\ UNCHANGED <<fileVars, clock, streams, dockerVars, historyVars>>

(* The connection breaks (the daemon restarts, the answer is cut off); the *)
(* call may go on in Docker.  No time limit breaks it: the 45 seconds of   *)
(* docker_call never reach the socket that connect makes, so a call that   *)
(* Docker does not answer lasts for ever.                                  *)
DockerBreaks ==
  /\ busy # Free /\ busy.phase = "calling"
  /\ faults < MaxFaults
  /\ abandoned' = Bump(abandoned, busy.id)
  /\ busy' = Free /\ faults' = faults + 1
  /\ UNCHANGED <<fileVars, clock, streams, created, effects, commands, lost, forgotten>>

(* An abandoned call is performed after all, or comes to nothing.          *)
DockerPerformsLate(r) ==
  /\ abandoned[r] > 0
  /\ abandoned' = Drop(abandoned, r)
  /\ effects' = Bump(effects, r) /\ lost' = Bump(lost, r)
  /\ UNCHANGED <<fileVars, clock, busy, streams, created, commands, forgotten, faults>>

DockerDropsLate(r) ==
  /\ abandoned[r] > 0
  /\ abandoned' = Drop(abandoned, r)
  /\ UNCHANGED <<fileVars, clock, busy, streams, created, effects, commands, historyVars>>

-----------------------------------------------------------------------------
(* Recording the result                                                    *)

(* The entry a handler adds.  A prune sorts by "executed_at", which the    *)
(* entry of a root exec does not have: it sorts before every other.        *)
Stamp == IF busy.op = "lease_exec" THEN 0 ELSE clock
(* The entries the handler loaded: none if the file could not be read.     *)
Loaded == IF busy.read = "file" THEN Recorded ELSE {}
(* Mutant: calls under the lease are not put on the ledger.                *)
LedgerWithoutLeaseCalls ==
  IF busy.op = "lease_call" THEN executed
  ELSE [r \in Loaded \cup {busy.id} |-> IF r = busy.id THEN Stamp ELSE executed[r]]
LedgerWithEntry ==
  [r \in Loaded \cup {busy.id} |-> IF r = busy.id THEN Stamp ELSE executed[r]]

(* What the prune in execute may keep: the LedgerKeep entries that sort    *)
(* last.  The new entry is the last of those with its stamp.  The lease    *)
(* routes never prune.                                                     *)
Kept(ledger) ==
  LET D == DOMAIN ledger IN
  IF busy.op \in LeaseKinds \/ Cardinality(D) <= LedgerLimit
  THEN {D}
  ELSE {K \in SUBSET D : /\ Cardinality(K) = LedgerKeep
                         /\ busy.id \in K
                         /\ \A k \in K, d \in D \ K : ledger[d] <= ledger[k]}

(* Mutant: recording does not release the lock.                            *)
RecordLocked ==
  /\ busy # Free /\ busy.phase = "recording"
  /\ executed' = [r \in Recorded \cup {busy.id} |-> Stamp]
  /\ UNCHANGED <<execIds, lease, clock, busy, streams, dockerVars, historyVars>>

(* The handler's copy replaces the file: the ledger with the new entry, an *)
(* exec id Docker gave out, and the lease as it was loaded.  The lock is   *)
(* released; the response of a root exec is about to stream.               *)
Record ==
  /\ busy # Free /\ busy.phase = "recording"
  /\ \E K \in Kept(LedgerWithEntry) :
       /\ executed' = [r \in K |-> LedgerWithEntry[r]]
       /\ forgotten' = [r \in RequestIds |->
                       IF r \in Recorded \ (K \cap Loaded) THEN forgotten[r] + 1
                       ELSE forgotten[r]]
  /\ execIds' = (IF busy.read = "file" THEN execIds ELSE {})
                \cup (IF busy.op = "exec_create" THEN {busy.exec} ELSE {})
  /\ lease' = IF busy.read = "file" THEN lease ELSE NoLease
  /\ streams' = IF busy.op = "lease_exec" THEN Bump(streams, busy.id) ELSE streams
  /\ busy' = Free
  /\ UNCHANGED <<clock, dockerVars, lost, faults>>

(* Mutant: a root exec streams although its record was not written.        *)
RecordFailsStreaming ==
  /\ busy # Free /\ busy.phase = "recording"
  /\ faults < MaxFaults
  /\ lost' = Bump(lost, busy.id)
  /\ streams' = IF busy.op = "lease_exec" THEN Bump(streams, busy.id) ELSE streams
  /\ busy' = Free /\ faults' = faults + 1
  /\ UNCHANGED <<fileVars, clock, dockerVars, forgotten>>

(* save_state fails: the caller gets an error, the ledger stays as it was. *)
RecordFails ==
  /\ busy # Free /\ busy.phase = "recording"
  /\ faults < MaxFaults
  /\ lost' = Bump(lost, busy.id)
  /\ busy' = Free /\ faults' = faults + 1
  /\ UNCHANGED <<fileVars, clock, streams, dockerVars, forgotten>>

(* stream_exec: the response starts the exec after the lock is released,   *)
(* whatever became of the lease; or the client is gone before it starts.   *)
StartStream(r) ==
  /\ streams[r] > 0
  /\ streams' = Drop(streams, r)
  /\ \/ commands' = Bump(commands, r)
     \/ UNCHANGED commands
  /\ UNCHANGED <<fileVars, clock, busy, created, abandoned, effects, historyVars>>

-----------------------------------------------------------------------------
(* The lease, time and crashes                                             *)

(* Mutant: a lease replaces a live one.                                    *)
OpenLeaseOver(l) ==
  /\ busy = Free
  /\ \E end \in (clock + 1)..(clock + LeaseTTL) :
       lease' = [id |-> l, expires |-> end, status |-> "active"]
  /\ UNCHANGED <<executed, execIds, clock, busy, streams, dockerVars, historyVars>>

(* open_admin_session: issued <= now < expires and expires - issued <= TTL *)
(* leave these ends; a lease that is active and unexpired is not replaced. *)
(* The clock is read before the handler waits for the lock.                *)
OpenLease(l) ==
  /\ busy = Free
  /\ \E now \in 1..clock :
       /\ ~(lease.status = "active" /\ lease.expires > now)
       /\ \E end \in (now + 1)..(now + LeaseTTL) :
            lease' = [id |-> l, expires |-> end, status |-> "active"]
  /\ UNCHANGED <<executed, execIds, clock, busy, streams, dockerVars, historyVars>>

(* open_admin_session when load_state could not read the file: it sees no  *)
(* lease, and saves the new one with an empty ledger.                      *)
OpenLeaseUnread(l) ==
  /\ busy = Free
  /\ faults < MaxFaults /\ faults' = faults + 1
  /\ \E now \in 1..clock : \E end \in (now + 1)..(now + LeaseTTL) :
       lease' = [id |-> l, expires |-> end, status |-> "active"]
  /\ executed' = [r \in {} |-> 0] /\ execIds' = {}
  /\ forgotten' = [r \in RequestIds |-> forgotten[r] + One(r \in Recorded)]
  /\ UNCHANGED <<clock, busy, streams, dockerVars, lost>>

(* Mutants: the lease is revoked without taking the lock; a status the     *)
(* other handlers do not know.                                             *)
CloseLeaseUnlocked(l) ==
  /\ lease # NoLease /\ lease.id = l
  /\ lease' = [lease EXCEPT !.status = "revoked"]
  /\ UNCHANGED <<executed, execIds, clock, busy, streams, dockerVars, historyVars>>
CloseLeaseAsClosed(l) ==
  /\ busy = Free
  /\ lease # NoLease /\ lease.id = l
  /\ lease' = [lease EXCEPT !.status = "closed"]
  /\ UNCHANGED <<executed, execIds, clock, busy, streams, dockerVars, historyVars>>

(* close_admin_session: revokes the lease on file, active or not.          *)
CloseLease(l) ==
  /\ busy = Free
  /\ lease # NoLease /\ lease.id = l
  /\ lease' = [lease EXCEPT !.status = "revoked"]
  /\ UNCHANGED <<executed, execIds, clock, busy, streams, dockerVars, historyVars>>

Tick ==
  /\ clock < MaxClock
  /\ clock' = clock + 1
  /\ UNCHANGED <<fileVars, busy, streams, dockerVars, historyVars>>

(* The process dies and restarts: the lock and the streams are gone, the   *)
(* file is what was last written, and every request finds out for itself   *)
(* whether it can be read.  A call in progress goes on in Docker.          *)
Crash ==
  /\ faults < MaxFaults
  /\ faults' = faults + 1
  /\ busy' = Free /\ streams' = Zero
  /\ abandoned' = IF busy # Free /\ busy.phase = "calling"
                  THEN Bump(abandoned, busy.id) ELSE abandoned
  /\ lost' = IF busy # Free /\ busy.phase = "recording"
             THEN Bump(lost, busy.id) ELSE lost
  /\ UNCHANGED <<fileVars, clock, created, effects, commands, forgotten>>

Next ==
  \/ \E op \in Kinds, r \in RequestIds, x \in ExecIds \cup {NoExec} : BeginExecute(op, r, x)
  \/ \E op \in Kinds, r \in RequestIds : BeginUnread(op, r)
  \/ \E op \in LeaseKinds, r \in RequestIds, l \in LeaseIds : BeginUnderLease(op, r, l)
  \/ \E l \in LeaseIds : NoticeExpiry(l)
  \/ DockerPerforms \/ DockerRefuses \/ DockerBreaks
  \/ \E r \in RequestIds : DockerPerformsLate(r) \/ DockerDropsLate(r)
  \/ Record \/ RecordFails
  \/ \E r \in RequestIds : StartStream(r)
  \/ \E l \in LeaseIds : OpenLease(l) \/ OpenLeaseUnread(l) \/ CloseLease(l)
  \/ Tick \/ Crash

Spec == Init /\ [][Next]_runnerVars

(* A handler whose Docker call has ended goes on to its save and leaves    *)
(* the with block.  Nothing makes Docker answer.                           *)
FairSpec == Spec /\ WF_runnerVars(Record \/ RecordFails)

-----------------------------------------------------------------------------
(* Properties                                                              *)

ServedUnread(r) == busy # Free /\ busy.read = "nothing" /\ busy.id = r
Recording(r) == busy # Free /\ busy.phase = "recording" /\ busy.id = r

(* Every effect Docker had for a request is either on the ledger, about to *)
(* be written there, or was lost in one of the ways the code allows: a     *)
(* fault between the call and the write, a prune, or a save over a file    *)
(* that could not be read.  Nothing else (a refusal, another request's     *)
(* save, a lease route) loses or invents one.                              *)
LedgerAccounts ==
  \A r \in RequestIds :
    effects[r] = lost[r] + forgotten[r] + One(r \in Recorded) + One(Recording(r))

(* While a request is served its id is not on the ledger its handler       *)
(* loaded: two requests with one id never both pass the check before the   *)
(* first is recorded.                                                      *)
ServedIsUnrecorded == busy # Free => busy.id \notin Loaded

(* A root exec is started only after it was recorded, so even crashes and  *)
(* broken calls never start the command of one request twice; only the     *)
(* loss of its entry, by a prune or with an unread file, makes that        *)
(* possible.                                                               *)
RootExecOnce ==
  \A r \in RequestIds :
    commands[r] + streams[r] <= forgotten[r] + One(r \in Recorded)

(* No call under a lease is outstanding once that lease was revoked, has   *)
(* been noticed to expire, or was replaced: close and open wait for it.    *)
LeaseHeldDuringCall ==
  busy # Free /\ busy.op \in LeaseKinds
    => lease # NoLease /\ lease.id = busy.lease /\ lease.status = "active"

(* A live lease ends by revocation only: no open replaces it and no        *)
(* request marks it expired before its time.  Only a save that could not   *)
(* read the file drops it or replaces it, and the ledger with it.          *)
LiveLeaseEndsByRevocation ==
  [][lease # NoLease /\ LeaseLive(lease.id)
       => \/ lease' \in {lease, [lease EXCEPT !.status = "revoked"]}
          \/ busy # Free /\ busy.read = "nothing" /\ Recorded' = {busy.id}
          \/ busy = Free /\ faults' = faults + 1 /\ Recorded' = {}]_runnerVars

(* If the lock is kept for ever, it is by a Docker call without an end:    *)
(* every other way through a handler, its failing save included, releases  *)
(* it.                                                                     *)
LockReleased ==
  \/ busy # Free ~> busy = Free
  \/ <>[](busy # Free /\ busy.phase = "calling")
=============================================================================
