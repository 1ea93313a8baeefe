---------------------------- MODULE AdminSession ----------------------------
(***************************************************************************)
(* Octo's admin session, kept twice: Mission Control has a list of         *)
(* sessions in its JSON store (mission-control/app/main.py), the           *)
(* operations runner one lease (operations-runner/app/main.py).  Nothing   *)
(* keeps the two together but the order in which handlers do things: a     *)
(* handler reads the whole store, marks what is over in its own copy, may  *)
(* call the runner, and writes its whole copy back.  _STORE_LOCK covers    *)
(* one read or one write, so a copy may be stale when it is written.  A    *)
(* call to the runner that timed out may still be performed.               *)
(*                                                                         *)
(* Every other handler that writes the store carries the sessions along as *)
(* it read them and is BeginOther.  What the runner does under its lock is *)
(* one step here: OperationsRunner has the lock and the Docker call.  The  *)
(* command of a root exec begins in a step of its own, after the unlock.   *)
(* Challenges, signatures and who the operator is are left out.            *)
(***************************************************************************)
EXTENDS Integers

CONSTANTS
  Ids,        \* session ids
  Threads,    \* bound: handlers at work at one time
  TTL,        \* OCTO_ADMIN_SESSION_TTL, in clock ticks
  IdleTTL,    \* OCTO_ADMIN_SESSION_IDLE_TTL
  MaxClock,   \* bound: the last instant of a behaviour
  MaxWaiting, \* bound: root execs of a session whose command has not begun
  MaxFaults   \* bound: handlers that die and calls that time out

ASSUME AdminAssumption ==
  /\ TTL \in Nat \ {0} /\ IdleTTL \in 0..TTL
  /\ MaxClock \in Nat \ {0} /\ MaxWaiting \in Nat /\ MaxFaults \in Nat

VARIABLES
  sessions,   \* store["octo_admin_sessions"]: id -> entry
  lease,      \* the runner's state["admin_session"]
  threads,    \* the handlers
  late,       \* calls to the runner that nobody waits for
  waiting,    \* per id: root execs on record whose command has not begun
  clock,
  drawn,      \* history: the ids Mission Control has made
  closed,     \* history: the ids whose lease the runner closed, or lost
  lastUse,    \* history: per id, when it was opened or last used at the runner
  faults      \* history: faults so far

history   == <<drawn, closed, lastUse>>
adminVars == <<sessions, lease, threads, late, clock, history, waiting, faults>>

-----------------------------------------------------------------------------

Entry   == [status : {"active", "expired", "revoked"}, issued : 1..MaxClock, last : 1..MaxClock]
Store   == UNION {[D -> Entry] : D \in SUBSET Ids}
Lease   == [id : Ids, expires : Nat, status : {"active", "expired", "revoked"}]
NoLease == [status |-> "none"]
Call    == [op : {"open", "close", "use"}, id : Ids, at : 1..MaxClock]
Calling == [step : {"calling"}, call : Call, copy : Store]
Writing == [step : {"writing"}, copy : Store]
Idle    == [step |-> "idle"]

AdminTypeOK ==
  /\ sessions \in Store
  /\ lease \in Lease \cup {NoLease}
  /\ threads \in [Threads -> Calling \cup Writing \cup {Idle}]
  /\ late \subseteq Call
  /\ clock \in 1..MaxClock
  /\ drawn \subseteq Ids /\ closed \subseteq Ids
  /\ lastUse \in [Ids -> 0..MaxClock]
  /\ waiting \in [Ids -> Nat]
  /\ faults \in 0..MaxFaults

AdminInit ==
  /\ sessions = [i \in {} |-> 0] /\ lease = NoLease
  /\ threads = [t \in Threads |-> Idle] /\ late = {}
  /\ clock = 1 /\ drawn = {} /\ closed = {}
  /\ lastUse = [i \in Ids |-> 0] /\ faults = 0
  /\ waiting = [i \in Ids |-> 0]

-----------------------------------------------------------------------------
(* The store and the copies of it                                          *)

Active(store) == {i \in DOMAIN store : store[i].status = "active"}

(* A session is over at its end, or when it was idle for too long.         *)
Over(entry) == \/ entry.issued + TTL <= clock
               \/ clock - entry.last > IdleTTL

(* _active_octo_admin_session marks the sessions that are over.            *)
Looked == [i \in DOMAIN sessions |->
             IF sessions[i].status = "active" /\ Over(sessions[i])
             THEN [sessions[i] EXCEPT !.status = "expired"] ELSE sessions[i]]

(* What a look that finds exactly one active session returns.              *)
Found(i) == Active(Looked) = {i}

With(store, i, entry) ==
  [j \in DOMAIN store \cup {i} |-> IF j = i THEN entry ELSE store[j]]

Goes(t, state) == threads' = [threads EXCEPT ![t] = state]

(* A handler that has read the store and needs no runner.                  *)
ReadsCopy(t, copy) ==
  /\ threads[t] = Idle
  /\ Goes(t, [step |-> "writing", copy |-> copy])
  /\ UNCHANGED <<sessions, lease, late, clock, history, waiting, faults>>

(* A handler that has read the store and calls the runner before it writes.*)
Calls(t, op, i, copy) ==
  /\ threads[t] = Idle
  /\ Goes(t, [step |-> "calling", copy |-> copy,
              call |-> [op |-> op, id |-> i, at |-> clock]])
  /\ UNCHANGED <<sessions, lease, late, clock, closed, lastUse, waiting, faults>>

-----------------------------------------------------------------------------
(* Handlers up to their write or their call                                *)

(* Mutant: looking at a session counts as activity.                        *)
BeginLookTouching(t) ==
  /\ \A i, j \in Active(Looked) : i = j
  /\ ReadsCopy(t, [i \in DOMAIN sessions |->
                     IF i \in Active(Looked) THEN [Looked[i] EXCEPT !.last = clock]
                     ELSE Looked[i]])

(* status, current, and the options of a new session: the copy is written  *)
(* with what the look marked.  Two active sessions are an error.           *)
BeginLook(t) ==
  /\ \A i, j \in Active(Looked) : i = j
  /\ ReadsCopy(t, Looked)

(* Any other handler, and the end of an exec's relay, which reads and      *)
(* writes the store a second time.                                         *)
BeginOther(t) == ReadsCopy(t, sessions)

(* _read_store on a file that cannot be read: the default store, without   *)
(* sessions.  A handler that writes leaves it so.                          *)
BeginUnread(t) == ReadsCopy(t, [i \in {} |-> 0])

(* Mutant: a session is opened whatever the store says.                    *)
BeginStartUnchecked(t, i) ==
  /\ i \notin drawn
  /\ drawn' = drawn \cup {i}
  /\ Calls(t, "open", i, With(sessions, i, [status |-> "active", issued |-> clock, last |-> clock]))

(* start: only when the look finds no active session, under a fresh id.    *)
BeginStart(t, i) ==
  /\ i \notin drawn
  /\ Active(Looked) = {}
  /\ drawn' = drawn \cup {i}
  /\ Calls(t, "open", i, With(Looked, i, [status |-> "active", issued |-> clock, last |-> clock]))

(* revoke: the active session is closed at the runner, then in the copy.   *)
BeginRevoke(t, i) ==
  /\ Found(i)
  /\ UNCHANGED drawn
  /\ Calls(t, "close", i, [Looked EXCEPT ![i].status = "revoked"])

(* action and exec: the active session is touched in the copy and named to *)
(* the runner.                                                             *)
BeginUse(t, i) ==
  /\ Found(i)
  /\ UNCHANGED drawn
  /\ Calls(t, "use", i, [Looked EXCEPT ![i].last = clock])

-----------------------------------------------------------------------------
(* The runner                                                              *)

(* Mutant: a revoked lease is as good as a live one.                       *)
LeaseLiveAnyStatus(i) == lease # NoLease /\ lease.id = i /\ lease.expires > clock

(* active_session.                                                         *)
LeaseLive(i) == lease # NoLease /\ lease.id = i /\ lease.status = "active" /\ lease.expires > clock

(* What open, close, action and exec check before they do anything; open   *)
(* reads its clock before it waits for the runner's lock.                  *)
Accepts(call, now) ==
  CASE call.op = "open"  -> /\ call.at + TTL > now
                            /\ ~(lease.status = "active" /\ lease.expires > now)
    [] call.op = "close" -> lease # NoLease /\ lease.id = call.id
    [] call.op = "use"   -> LeaseLive(call.id)

Later(m, n) == IF m > n THEN m ELSE n

(* What they do under the lock.  A use is an action, performed there, or   *)
(* an exec, which is created and recorded; neither changes the lease.      *)
Performs(call) ==
  /\ lease' = CASE call.op = "open"  -> [id |-> call.id, expires |-> call.at + TTL, status |-> "active"]
                [] call.op = "close" -> [lease EXCEPT !.status = "revoked"]
                [] call.op = "use"   -> lease
  /\ closed' = IF call.op = "close" THEN closed \cup {call.id} ELSE closed
  /\ lastUse' = IF call.op = "close" THEN lastUse
                ELSE [lastUse EXCEPT ![call.id] = Later(@, call.at)]
  /\ \/ UNCHANGED waiting
     \/ /\ call.op = "use" /\ waiting[call.id] < MaxWaiting
        /\ waiting' = [waiting EXCEPT ![call.id] = @ + 1]
  /\ UNCHANGED drawn

(* A refused action may have noticed that the lease is past its end.       *)
Refuses(call) ==
  /\ lease' = IF /\ call.op = "use" /\ lease # NoLease /\ lease.id = call.id
                 /\ lease.status = "active" /\ lease.expires <= clock
              THEN [lease EXCEPT !.status = "expired"] ELSE lease
  /\ UNCHANGED <<history, waiting>>

(* stream_exec: the response starts the command, whatever became of the    *)
(* lease since the exec was recorded, unless the client or the runner is   *)
(* gone before it does.                                                    *)
StreamBegins(i) ==
  /\ waiting[i] > 0
  /\ waiting' = [waiting EXCEPT ![i] = @ - 1]
  /\ UNCHANGED <<sessions, lease, threads, late, clock, history, faults>>

(* A request that loads a state file it cannot read sees no lease, and its *)
(* save leaves none.                                                       *)
LosesLease ==
  /\ lease # NoLease
  /\ faults < MaxFaults /\ faults' = faults + 1
  /\ closed' = closed \cup {lease.id}
  /\ lease' = NoLease
  /\ UNCHANGED <<sessions, threads, late, clock, drawn, lastUse, waiting>>

-----------------------------------------------------------------------------
(* The rest of the handlers                                                *)

(* _runner_json returns: the handler goes on to write its copy.            *)
Answered(t) ==
  /\ threads[t].step = "calling"
  /\ \E now \in threads[t].call.at..clock : Accepts(threads[t].call, now)
  /\ Performs(threads[t].call)
  /\ Goes(t, [step |-> "writing", copy |-> threads[t].copy])
  /\ UNCHANGED <<sessions, late, clock, faults>>

(* Mutant: a refusal by the runner does not end the handler.               *)
RefusedWritten(t) ==
  /\ threads[t].step = "calling"
  /\ \E now \in threads[t].call.at..clock : ~Accepts(threads[t].call, now)
  /\ Refuses(threads[t].call)
  /\ Goes(t, [step |-> "writing", copy |-> threads[t].copy])
  /\ UNCHANGED <<sessions, late, clock, faults>>

(* The runner refuses, or Docker refuses an action: the handler raises and *)
(* its copy, with what the look marked, is never written.                  *)
Refused(t) ==
  /\ threads[t].step = "calling"
  /\ \/ \E now \in threads[t].call.at..clock : ~Accepts(threads[t].call, now)
     \/ threads[t].call.op = "use"
  /\ Refuses(threads[t].call)
  /\ Goes(t, Idle)
  /\ UNCHANGED <<sessions, late, clock, faults>>

(* _write_store replaces the file by the copy, whatever it holds by now.   *)
Write(t) ==
  /\ threads[t].step = "writing"
  /\ sessions' = threads[t].copy
  /\ Goes(t, Idle)
  /\ UNCHANGED <<lease, late, clock, history, waiting, faults>>

(* The handler dies, by a restart or an error of the file system, or its   *)
(* call exceeds its time limit; the runner may get to the call later.      *)
Abandon(t) ==
  /\ threads[t] # Idle
  /\ faults < MaxFaults
  /\ faults' = faults + 1
  /\ late' = IF threads[t].step = "calling" THEN late \cup {threads[t].call} ELSE late
  /\ Goes(t, Idle)
  /\ UNCHANGED <<sessions, lease, clock, history, waiting>>

PerformsLate(call) ==
  /\ late' = late \ {call}
  /\ \E now \in call.at..clock :
       IF Accepts(call, now) THEN Performs(call) ELSE Refuses(call)
  /\ UNCHANGED <<sessions, threads, clock, faults>>

(* It never reaches the runner.                                            *)
LostLate(call) ==
  /\ late' = late \ {call}
  /\ UNCHANGED <<sessions, lease, threads, clock, history, waiting, faults>>

Tick ==
  /\ clock < MaxClock
  /\ clock' = clock + 1
  /\ UNCHANGED <<sessions, lease, threads, late, history, waiting, faults>>

AdminNext ==
  \/ \E t \in Threads :
       \/ BeginLook(t) \/ BeginOther(t) \/ BeginUnread(t)
       \/ \E i \in Ids : BeginStart(t, i) \/ BeginRevoke(t, i) \/ BeginUse(t, i)
       \/ Answered(t) \/ Refused(t) \/ Write(t) \/ Abandon(t)
  \/ \E call \in late : PerformsLate(call) \/ LostLate(call)
  \/ \E i \in Ids : StreamBegins(i)
  \/ LosesLease \/ Tick

AdminSpec == AdminInit /\ [][AdminNext]_adminVars

-----------------------------------------------------------------------------
(* Properties                                                              *)

(* However stale the copies are that handlers write over each other, the   *)
(* store never holds two active sessions, so the error "multiple active    *)
(* Octo admin sessions detected" is never reached.                         *)
OneActiveSession == \A i, j \in Active(sessions) : i = j

(* A session the store holds active, before its end, was granted by the    *)
(* runner and is still its live lease, or its lease was closed or lost     *)
(* there (a stale copy may bring a revoked session back in the store,      *)
(* never one that was refused).                                            *)
ActiveIsGranted ==
  \A i \in Active(sessions) :
    sessions[i].issued + TTL > clock => LeaseLive(i) \/ i \in closed

(* Once the runner performed a close (or lost the lease), it takes nothing *)
(* more on under that session, neither from a handler at work nor from a   *)
(* call delivered late, nor when a stale copy made the session active      *)
(* again.  All that may still begin are commands of root execs recorded    *)
(* before: the close does not stop those.                                  *)
RevokedIsUnused ==
  [][\A i \in closed : lastUse'[i] = lastUse[i] /\ waiting'[i] <= waiting[i]]_adminVars

(* Octo is let through only within IdleTTL of the last time the session    *)
(* was opened or really used: looking at it does not keep it alive, and    *)
(* no stale copy makes it younger.                                         *)
IdleLimitHolds ==
  \A t \in Threads :
    threads[t].step = "calling" /\ threads[t].call.op = "use"
      => threads[t].call.at - lastUse[threads[t].call.id] <= IdleTTL

(* When no call is under way, a session the store holds expired is no      *)
(* longer the runner's live lease.                                         *)
ExpiredIsOver ==
  (late = {} /\ \A t \in Threads : threads[t] = Idle)
    => \A i \in DOMAIN sessions : sessions[i].status = "expired" => ~LeaseLive(i)
=============================================================================
