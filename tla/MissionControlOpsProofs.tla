----------------------- MODULE MissionControlOpsProofs -----------------------
(***************************************************************************)
(* Proofs about the operations lane, for any number of threads, operations *)
(* and challenges.                                                         *)
(*                                                                         *)
(* Mission Control drives the runner only through its endpoints: every     *)
(* step of the lane is a step of the runner or leaves it alone.  So the    *)
(* runner's theorems carry over, and with them the single effect.          *)
(*                                                                         *)
(* What the store says is another matter: a stale copy may be written over *)
(* a newer one.  For any number of threads a lost update only takes an     *)
(* operation back to what some version said before: every version comes    *)
(* from an earlier one along the life cycle, or forgets what could not be  *)
(* read, an outcome is told only of what was handed over, and a success    *)
(* only of what happened.                                                  *)
(***************************************************************************)
EXTENDS MissionControlOps, OperationsRunnerProofs, FiniteSetTheorems

(* What handlers hold is well formed, and only Docker operations wait for  *)
(* the runner.                                                             *)
QueuedIsDocker ==
  \A h \in Threads : At(h, "queued") => handler[h].op \in RequestIds

(* The thread that gets the runner's answer is waiting for it.             *)
ServedWaits ==
  servedFor # NoThread => servedFor \in Threads /\ At(servedFor, "serving")

LaneInv ==
  /\ store \in Stores
  /\ handler \in [Threads -> Working \cup {Idle}]
  /\ DOMAIN results \subseteq HostOps
  /\ results \in [DOMAIN results -> {"executed", "failed"}]
  /\ hostBusy \in HostOps \cup {NoHostOp}
  /\ QueuedIsDocker /\ ServedWaits

LEMMA MarkStore ==
  ASSUME NEW s \in Stores, NEW o \in Ops, NEW status \in Status
  PROVE  Mark(s, o, status) \in Stores
BY DEF Mark, Stores

(* Every set of challenges a handler puts into its copy is of this form.   *)
LEMMA ChallengeStore ==
  ASSUME NEW s \in Stores, NEW open,
         open \subseteq [id : Challenges, op : Ops, used : BOOLEAN]
  PROVE  [s EXCEPT !.challenges = open] \in Stores
BY DEF Stores

LEMMA ChallengeRecord ==
  ASSUME NEW c \in Challenges, NEW o \in Ops, NEW used \in BOOLEAN
  PROVE  Challenge(c, o, used) \in [id : Challenges, op : Ops, used : BOOLEAN]
BY DEF Challenge

LEMMA AnsweredWorks ==
  ASSUME NEW h \in Threads, handler[h] \in Working, NEW status \in Status
  PROVE  Answered(h, status) \in Working /\ Answered(h, status).at = "write"
<1>1. handler[h].copy \in Stores /\ handler[h].op \in Ops
  BY DEF Working
<1>2. Mark(handler[h].copy, handler[h].op, status) \in Stores
  BY <1>1, MarkStore
<1>3. QED
  BY <1>2 DEF Answered, Working, Places

LEMMA IdleIsNot == Idle \notin Working
BY DEF Idle, Working

(* A handler that starts has read the store into a well-formed copy.       *)
LEMMA StartStep ==
  ASSUME LaneInv, NEW h \in Threads, NEW o \in Ops, NEW copy \in Stores,
         NEW next \in {"done", "send"}, Start(h, o, copy, next),
         UNCHANGED <<store, results, hostBusy, servedFor>>
  PROVE  LaneInv'
<1>1. [at |-> "write", op |-> o, copy |-> copy, next |-> next] \in Working
  BY DEF Working, Places
<1>2. handler' \in [Threads -> Working \cup {Idle}]
  BY <1>1 DEF Start, LaneInv
<1>3. QueuedIsDocker'
  BY <1>1 DEF Start, LaneInv, QueuedIsDocker, At
<1>4. ServedWaits'
  BY DEF Start, LaneInv, ServedWaits, At
<1>5. QED
  BY <1>2, <1>3, <1>4 DEF LaneInv

LEMMA LaneInit == OpsInit => LaneInv
<1> SUFFICES ASSUME OpsInit PROVE LaneInv
  OBVIOUS
<1>1. store \in Stores
  BY DEF OpsInit, Stores, Status
<1>2. QueuedIsDocker
  BY DEF OpsInit, QueuedIsDocker, At
<1>3. ServedWaits
  BY DEF OpsInit, ServedWaits
<1>4. QED
  BY <1>1, <1>2, <1>3 DEF OpsInit, LaneInv

(* The requests that start a handler.                                      *)
LEMMA RequestedStep ==
  ASSUME LaneInv, NEW h \in Threads, Requested(h)
  PROVE  LaneInv'
<1> USE DEF OnlyHandler, hostVars
<1>0. store \in Stores /\ \A o \in Ops, status \in Status : Mark(store, o, status) \in Stores
  BY MarkStore DEF LaneInv
<1>1. ASSUME NEW o \in Ops, Create(h, o) PROVE LaneInv'
  BY <1>0, <1>1, StartStep DEF Create, Status, Unfinished
<1>2. ASSUME NEW o \in Ops, Preapproved(h, o) PROVE LaneInv'
  BY <1>0, <1>2, StartStep DEF Preapproved, Status, Unfinished
<1>3. ASSUME NEW o \in Ops, ApproveExpired(h, o) PROVE LaneInv'
  BY <1>0, <1>3, StartStep DEF ApproveExpired, Status, Terminal
<1>4. ASSUME NEW o \in Ops, Reject(h, o) PROVE LaneInv'
  BY <1>0, <1>4, StartStep DEF Reject, Status, Terminal
<1>5. ASSUME NEW o \in Ops, NEW c \in Challenges, Options(h, o, c) PROVE LaneInv'
  <2> DEFINE copy == [store EXCEPT !.challenges =
                        {d \in @ : ~d.used} \cup {Challenge(c, o, FALSE)}]
  <2>0. {d \in store.challenges : ~d.used} \cup {Challenge(c, o, FALSE)}
          \subseteq [id : Challenges, op : Ops, used : BOOLEAN]
    BY <1>0, ChallengeRecord DEF Stores
  <2>1. copy \in Stores
    BY <1>0, <2>0, ChallengeStore
  <2>2. Start(h, o, copy, "done")
    BY <1>5 DEF Options
  <2>3. UNCHANGED <<store, results, hostBusy, servedFor>>
    BY <1>5 DEF Options
  <2>4. QED
    BY <2>1, <2>2, <2>3, StartStep
<1>6. ASSUME NEW o \in Ops, NEW c \in Challenges, Approve(h, o, c) PROVE LaneInv'
  <2> DEFINE copy == [store EXCEPT !.challenges = (@ \ {Challenge(c, o, FALSE)})
                                                    \cup {Challenge(c, o, TRUE)}]
  <2>0. (store.challenges \ {Challenge(c, o, FALSE)}) \cup {Challenge(c, o, TRUE)}
          \subseteq [id : Challenges, op : Ops, used : BOOLEAN]
    BY <1>0, ChallengeRecord DEF Stores
  <2>1. copy \in Stores
    BY <1>0, <2>0, ChallengeStore
  <2>2. Start(h, o, Mark(copy, o, "executing"), "send")
    BY <1>6 DEF Approve
  <2>3. UNCHANGED <<store, results, hostBusy, servedFor>>
    BY <1>6 DEF Approve
  <2>4. Mark(copy, o, "executing") \in Stores
    BY <2>1, MarkStore DEF Status, Unfinished
  <2>5. QED
    BY <2>2, <2>3, <2>4, StartStep
<1>7. CASE OtherEndpoint(h)
  BY <1>0, <1>7, StartStep DEF OtherEndpoint
<1>8. CASE List(h)
  <2>1. Reconciled(store) \in Stores
    BY <1>0 DEF LaneInv, Reconciled, Stores, Status, Terminal
  <2>2. (CHOOSE o \in Ops : TRUE) \in Ops
    BY MissionControlAssumption DEF Ops
  <2>3. handler' \in [Threads -> Working \cup {Idle}] /\ QueuedIsDocker'
    BY <1>8, <2>1, <2>2 DEF List, LaneInv, Working, Places, QueuedIsDocker, At
  <2>4. ServedWaits'
    BY <1>8 DEF List, LaneInv, ServedWaits, At
  <2>5. QED
    BY <1>8, <2>3, <2>4 DEF List, LaneInv
<1>9. QED
  BY <1>1, <1>2, <1>3, <1>4, <1>5, <1>6, <1>7, <1>8 DEF Requested

(* A request that meets a store it cannot read starts from the default one. *)
LEMMA DefaultIsStore == DefaultStore \in Stores
BY DEF DefaultStore, Stores, Status

LEMMA UnreadStarts ==
  ASSUME NEW h \in Threads, RequestedUnread(h)
  PROVE  /\ \E o \in Ops, copy \in Stores, next \in {"done", "send"} :
              /\ Start(h, o, copy, next)
              /\ copy = DefaultStore \/ \E status \in Unfinished :
                   copy = Mark(DefaultStore, o, status) /\ o \notin issued /\ o \in issued'
              /\ next = "send" => copy = Mark(DefaultStore, o, "executing")
         /\ UNCHANGED <<runnerVars, store, servedFor, orphans, sends, hostVars>>
         /\ unread' = unread \cup {o \in Ops : store.status[o] # "absent"}
<1>1. \A o \in Ops, status \in Unfinished : Mark(DefaultStore, o, status) \in Stores
  BY DefaultIsStore, MarkStore DEF Status
<1>2. "pending_approval" \in Unfinished /\ "executing" \in Unfinished /\ RequestIds \subseteq Ops
  BY DEF Unfinished, Ops
<1>3. QED
  BY <1>1, <1>2, DefaultIsStore DEF RequestedUnread

LEMMA UnreadStep ==
  ASSUME LaneInv, NEW h \in Threads, RequestedUnread(h)
  PROVE  LaneInv'
BY UnreadStarts, StartStep DEF hostVars

(* A handler that moves on with its copy.                                  *)
LEMMA MoveStep ==
  ASSUME LaneInv, NEW h \in Threads, NEW next,
         next = Idle \/ next \in Working,
         next \in Working /\ next.at = "queued" => next.op \in RequestIds,
         handler' = [handler EXCEPT ![h] = next],
         store' \in Stores, UNCHANGED <<results, hostBusy>>,
         \/ servedFor' = NoThread
         \/ servedFor' = servedFor /\ ~At(h, "serving")
         \/ servedFor' = h /\ next \in Working /\ next.at = "serving"
  PROVE  LaneInv'
<1>1. handler' \in [Threads -> Working \cup {Idle}]
  BY DEF LaneInv
<1>2. QueuedIsDocker'
  BY IdleIsNot DEF LaneInv, QueuedIsDocker, At
<1>3. ServedWaits'
  BY IdleIsNot DEF LaneInv, ServedWaits, At
<1>4. QED
  BY <1>1, <1>2, <1>3 DEF LaneInv

LEMMA HandlerMoves ==
  ASSUME LaneInv, NEW h \in Threads, HandlerStep(h)
  PROVE  LaneInv'
<1> USE DEF OnlyHandler, hostVars
<1> DEFINE work == handler[h]
<1>0. work # Idle => work \in Working
  BY DEF LaneInv
<1>1. CASE WriteStore(h)
  <2>1. work \in Working /\ store' = work.copy /\ store' \in Stores
    BY <1>0, <1>1 DEF WriteStore, At, Working
  <2>2. [work EXCEPT !.at = work.next] \in Working \/ work.next = "done"
    BY <2>1 DEF Working, Places
  <2>3. work.next # "queued"
    BY <2>1 DEF Working
  <2> DEFINE next == IF work.next = "done" THEN Idle ELSE [work EXCEPT !.at = work.next]
  <2>4. handler' = [handler EXCEPT ![h] = next] /\ UNCHANGED <<results, hostBusy>>
    BY <1>1 DEF WriteStore, Goto
  <2>5. /\ next = Idle \/ next \in Working
        /\ next \in Working => next.at # "queued"
    BY <2>1, <2>2, <2>3, IdleIsNot DEF Working
  <2>6. servedFor' = servedFor /\ ~At(h, "serving")
    BY <1>1 DEF WriteStore, At
  <2> HIDE DEF next
  <2>7. QED
    BY <2>1, <2>4, <2>5, <2>6, MoveStep
<1>2. CASE Send(h)
  <2>1. work \in Working /\ work.op \in Ops
    BY <1>0, <1>2 DEF Send, At, Working
  <2>2. [work EXCEPT !.at = "queued"] \in Working
    BY <2>1 DEF Working, Places
  <2>3. /\ store' = store /\ UNCHANGED <<results, hostBusy>>
        /\ servedFor' = servedFor /\ ~At(h, "serving")
    BY <1>2 DEF Send, At
  <2>4. CASE work.op \in HostOps
    <3>1. handler' = [handler EXCEPT ![h] = Idle]
      BY <1>2, <2>4 DEF Send, Goto
    <3>2. QED
      BY <2>3, <3>1, IdleIsNot, MoveStep DEF LaneInv
  <2>5. CASE work.op \notin HostOps
    <3>1. handler' = [handler EXCEPT ![h] = [work EXCEPT !.at = "queued"]]
      BY <1>2, <2>5 DEF Send, Goto
    <3>2. [work EXCEPT !.at = "queued"].op \in RequestIds
      BY <2>1, <2>5 DEF Working, Ops
    <3>3. QED
      BY <2>2, <2>3, <3>1, <3>2, MoveStep DEF LaneInv
  <2>6. QED
    BY <2>4, <2>5
<1>3. CASE RunnerTakes(h)
  <2>1. work \in Working /\ ~At(h, "serving")
    BY <1>0, <1>3 DEF RunnerTakes, At
  <2>2. [work EXCEPT !.at = "serving"] \in Working
        /\ [work EXCEPT !.at = "serving"].at = "serving"
    BY <2>1 DEF Working, Places
  <2>3. Answered(h, "failed") \in Working /\ Answered(h, "failed").at = "write"
    BY <2>1, AnsweredWorks DEF Status, Terminal
  <2>4. store' = store /\ UNCHANGED <<results, hostBusy>>
    BY <1>3 DEF RunnerTakes
  <2>5. \/ handler' = [handler EXCEPT ![h] = Answered(h, "failed")] /\ servedFor' = servedFor
        \/ handler' = [handler EXCEPT ![h] = [work EXCEPT !.at = "serving"]] /\ servedFor' = h
    BY <1>3 DEF RunnerTakes, Goto
  <2>6. QED
    BY <2>1, <2>2, <2>3, <2>4, <2>5, MoveStep DEF LaneInv
<1>4. CASE RunnerCallTimesOut(h)
  <2>1. work \in Working
    BY <1>0, <1>4 DEF RunnerCallTimesOut, At
  <2>2. Answered(h, "unknown") \in Working /\ Answered(h, "unknown").at = "write"
    BY <2>1, AnsweredWorks DEF Status, Terminal
  <2>3. servedFor' = NoThread \/ (servedFor' = servedFor /\ ~At(h, "serving"))
    <3>1. CASE At(h, "queued")
      BY <1>4, <3>1 DEF RunnerCallTimesOut, At
    <3>2. CASE ~At(h, "queued")
      BY <1>4, <3>2 DEF RunnerCallTimesOut
    <3>3. QED
      BY <3>1, <3>2
  <2>4. QED
    BY <1>4, <2>2, <2>3, MoveStep DEF RunnerCallTimesOut, LaneInv
<1>5. CASE ListMaintains(h)
  <2>1. work \in Working /\ work.copy \in Stores
    BY <1>0, <1>5 DEF ListMaintains, At, Working
  <2>2. Maintained(work.copy) \in Stores
    BY <2>1 DEF Maintained, Stores, Status
  <2> DEFINE next == [work EXCEPT !.copy = Maintained(work.copy), !.next = "backfill",
                        !.at = IF Maintained(work.copy) = work.copy THEN "backfill" ELSE "write"]
  <2>3. next \in Working /\ next.at # "queued"
    BY <2>1, <2>2 DEF Working, Places
  <2>4. handler' = [handler EXCEPT ![h] = next] /\ UNCHANGED <<store, results, hostBusy>>
    BY <1>5 DEF ListMaintains
  <2>5. servedFor' = servedFor /\ ~At(h, "serving")
    BY <1>5 DEF ListMaintains, At
  <2> HIDE DEF next
  <2>6. QED
    BY <2>3, <2>4, <2>5, MoveStep DEF LaneInv
<1>6. CASE ListBackfills(h)
  <2>1. work \in Working
    BY <1>0, <1>6 DEF ListBackfills, At
  <2> DEFINE next == [work EXCEPT !.at = "write", !.next = "done"]
  <2>2. next \in Working /\ next.at = "write"
    BY <2>1 DEF Working, Places
  <2>3. \/ handler' = [handler EXCEPT ![h] = next]
        \/ handler' = [handler EXCEPT ![h] = Idle]
    BY <1>6 DEF ListBackfills, Goto
  <2>4. UNCHANGED <<store, results, hostBusy>> /\ servedFor' = servedFor /\ ~At(h, "serving")
    BY <1>6 DEF ListBackfills, At
  <2> HIDE DEF next
  <2>5. CASE handler' = [handler EXCEPT ![h] = Idle]
    BY <2>4, <2>5, IdleIsNot, MoveStep DEF LaneInv
  <2>6. CASE handler' = [handler EXCEPT ![h] = next]
    BY <2>2, <2>4, <2>6, MoveStep DEF LaneInv
  <2>7. QED
    BY <2>3, <2>5, <2>6
<1>7. QED
  BY <1>1, <1>2, <1>3, <1>4, <1>5, <1>6 DEF HandlerStep

LEMMA FailStep ==
  ASSUME LaneInv, NEW h \in Threads, HandlerFails(h)
  PROVE  LaneInv'
<1>1. ~At(h, "serving")
  BY DEF HandlerFails, At
<1>2. handler' = [handler EXCEPT ![h] = Idle] /\ UNCHANGED <<store, results, hostBusy, servedFor>>
  BY DEF HandlerFails, hostVars
<1>3. QED
  BY <1>1, <1>2, IdleIsNot, MoveStep DEF LaneInv

(* The runner's answer, and restarts, take handlers that were waiting for  *)
(* the runner on.                                                          *)
LEMMA WaitersMove ==
  ASSUME LaneInv,
         \A h \in Threads : \/ handler'[h] = handler[h]
                            \/ handler'[h] = Idle
                            \/ handler'[h] \in Working /\ handler'[h].at = "write",
         handler' = [h \in Threads |-> handler'[h]],
         UNCHANGED <<store, results, hostBusy>>, servedFor' = NoThread
  PROVE  LaneInv'
<1>1. handler' \in [Threads -> Working \cup {Idle}]
  BY DEF LaneInv
<1>2. QueuedIsDocker'
  BY DEF LaneInv, QueuedIsDocker, At
<1>3. QED
  BY <1>1, <1>2 DEF LaneInv, ServedWaits

LEMMA ReplyMoves ==
  ASSUME LaneInv, NEW status \in Status, Reply(status)
  PROVE  LaneInv'
<1>1. ASSUME NEW h \in Threads
      PROVE  handler'[h] = handler[h] \/ (handler'[h] \in Working /\ handler'[h].at = "write")
  <2>1. CASE h = servedFor
    <3>1. handler[h] \in Working
      BY <2>1, MissionControlAssumption DEF LaneInv, ServedWaits, At
    <3>2. QED
      BY <2>1, <3>1, AnsweredWorks DEF Reply
  <2>2. CASE h # servedFor
    BY <2>2 DEF Reply
  <2>3. QED
    BY <2>1, <2>2
<1>2. handler' = [h \in Threads |-> handler'[h]]
  BY DEF Reply
<1>3. UNCHANGED <<store, results, hostBusy>> /\ servedFor' = NoThread
  BY DEF Reply, hostVars
<1>4. QED
  BY <1>1, <1>2, <1>3, WaitersMove

LEMMA RestartMoves ==
  ASSUME LaneInv, RunnerRestarts \/ MissionControlRestarts
  PROVE  LaneInv'
<1>1. CASE RunnerRestarts
  <2>1. ASSUME NEW h \in Threads
        PROVE  handler'[h] = handler[h] \/ (handler'[h] \in Working /\ handler'[h].at = "write")
    <3>1. CASE At(h, "queued") \/ At(h, "serving")
      <4>1. handler[h] \in Working
        BY <3>1 DEF LaneInv, At
      <4>2. QED
        BY <1>1, <3>1, <4>1, AnsweredWorks DEF RunnerRestarts, Status, Terminal
    <3>2. CASE ~(At(h, "queued") \/ At(h, "serving"))
      BY <1>1, <3>2 DEF RunnerRestarts
    <3>3. QED
      BY <3>1, <3>2
  <2>2. handler' = [h \in Threads |-> handler'[h]]
    BY <1>1 DEF RunnerRestarts
  <2>3. UNCHANGED <<store, results, hostBusy>> /\ servedFor' = NoThread
    BY <1>1 DEF RunnerRestarts, hostVars
  <2>4. QED
    BY <2>1, <2>2, <2>3, WaitersMove
<1>2. CASE MissionControlRestarts
  BY <1>2, WaitersMove DEF MissionControlRestarts, hostVars
<1>3. QED
  BY <1>1, <1>2

(* The executors and the clock do not touch handlers.                      *)
LEMMA OthersMove ==
  ASSUME LaneInv,
         \/ DockerSteps \/ HostFinishes \/ HostRestarts
         \/ \E o \in RequestIds : RunnerTakesOrphan(o)
         \/ \E o \in HostOps : HostTakes(o)
         \/ \E o \in Ops : Ages(o)
         \/ UNCHANGED vars
  PROVE  LaneInv'
<1> USE DEF hostVars, mcVars
<1>1. UNCHANGED <<store, handler, servedFor>>
  BY DEF DockerSteps, HostFinishes, HostRestarts, RunnerTakesOrphan, HostTakes, Ages, vars
<1>2. /\ hostBusy' \in HostOps \cup {NoHostOp}
      /\ DOMAIN results' \subseteq HostOps
      /\ results' \in [DOMAIN results' -> {"executed", "failed"}]
  <2>1. CASE HostFinishes
    BY <2>1 DEF HostFinishes, LaneInv
  <2>2. CASE ~HostFinishes
    <3>1. UNCHANGED results
      BY <2>2 DEF DockerSteps, HostRestarts, RunnerTakesOrphan, HostTakes, Ages, vars
    <3>2. hostBusy' \in HostOps \cup {NoHostOp}
      BY <2>2 DEF DockerSteps, HostRestarts, RunnerTakesOrphan, HostTakes, Ages, vars, LaneInv
    <3>3. QED
      BY <3>1, <3>2 DEF LaneInv
  <2>3. QED
    BY <2>1, <2>2
<1>3. QueuedIsDocker' /\ ServedWaits'
  BY <1>1 DEF LaneInv, QueuedIsDocker, ServedWaits, At
<1>4. QED
  BY <1>1, <1>2, <1>3 DEF LaneInv

LEMMA LaneNext == LaneInv /\ [OpsNext]_vars => LaneInv'
<1> SUFFICES ASSUME LaneInv, [OpsNext]_vars PROVE LaneInv'
  OBVIOUS
<1>1. ASSUME NEW h \in Threads,
             Requested(h) \/ RequestedUnread(h) \/ HandlerStep(h) \/ HandlerFails(h)
      PROVE  LaneInv'
  BY <1>1, RequestedStep, UnreadStep, HandlerMoves, FailStep
<1>2. CASE RunnerAnswers
  BY <1>2, ReplyMoves DEF RunnerAnswers, Status, Terminal
<1>3. CASE RunnerRestarts \/ MissionControlRestarts
  BY <1>3, RestartMoves
<1>4. QED
  BY <1>1, <1>2, <1>3, OthersMove DEF OpsNext

(* The invariant of the lane.                                              *)
THEOREM LaneInvariance == OpsSpec => []LaneInv
BY LaneInit, LaneNext, PTL DEF OpsSpec

-----------------------------------------------------------------------------
(* The lane drives the runner through its endpoints                        *)

(* A request of the lane that the runner takes is a request the runner may *)
(* be sent: this is where QueuedIsDocker is needed.                        *)
LEMMA TakenIsRequest ==
  ASSUME NEW o \in RequestIds, BeginExecute("call", o, NoExec) \/ BeginUnread("call", o)
  PROVE  Next
BY DEF Next, Kinds

LEMMA StepIsRunnerStep ==
  ASSUME LaneInv, [OpsNext]_vars
  PROVE  [Next]_runnerVars
<1>1. ASSUME NEW h \in Threads, Requested(h) \/ RequestedUnread(h) \/ HandlerFails(h)
      PROVE  UNCHANGED runnerVars
  BY <1>1 DEF Requested, Create, Preapproved, ApproveExpired, Reject, Options, Approve,
              OtherEndpoint, List, OnlyHandler, RequestedUnread, HandlerFails
<1>2. ASSUME NEW h \in Threads, HandlerStep(h) PROVE [Next]_runnerVars
  <2>1. CASE RunnerTakes(h)
    <3>1. handler[h].op \in RequestIds
      BY <2>1 DEF RunnerTakes, LaneInv, QueuedIsDocker
    <3>2. QED
      BY <2>1, <3>1, TakenIsRequest DEF RunnerTakes
  <2>2. CASE ~RunnerTakes(h)
    BY <1>2, <2>2 DEF HandlerStep, WriteStore, Send, RunnerCallTimesOut, ListMaintains,
                      ListBackfills, OnlyHandler
  <2>3. QED
    BY <2>1, <2>2
<1>3. CASE RunnerAnswers
  BY <1>3 DEF RunnerAnswers, Next
<1>4. CASE DockerSteps
  BY <1>4 DEF DockerSteps, Next
<1>5. CASE RunnerRestarts
  BY <1>5 DEF RunnerRestarts, Next
<1>6. ASSUME NEW o \in RequestIds, RunnerTakesOrphan(o) PROVE [Next]_runnerVars
  BY <1>6, TakenIsRequest DEF RunnerTakesOrphan
<1>7. CASE \/ MissionControlRestarts \/ HostFinishes \/ HostRestarts
           \/ \E o \in HostOps : HostTakes(o)
           \/ \E o \in Ops : Ages(o)
  BY <1>7 DEF MissionControlRestarts, HostFinishes, HostRestarts, HostTakes, Ages
<1>8. CASE UNCHANGED vars
  BY <1>8 DEF vars
<1>9. QED
  BY <1>1, <1>2, <1>3, <1>4, <1>5, <1>6, <1>7, <1>8 DEF OpsNext

(* Mission Control uses the runner as its specification allows: every      *)
(* behaviour of the lane is, as far as the runner's state goes, a behaviour*)
(* of the runner.  What was proved of the runner holds in the lane.        *)
THEOREM LaneDrivesRunner == OpsSpec => Spec
<1>1. OpsInit => Init
  BY DEF OpsInit
<1>2. QED
  BY <1>1, LaneInvariance, StepIsRunnerStep, PTL DEF OpsSpec, Spec

(* Docker performs an approved operation at most once, however approvals,  *)
(* time-outs and stale writes of the store interleave, unless a fault or a *)
(* prune lost its record: from the runner's ledger alone.                  *)
THEOREM OperationsRunOnce == OpsSpec => []DockerRunsOnce
<1>1. IInv => DockerRunsOnce
  <2> SUFFICES ASSUME IInv, NEW o \in RequestIds, lost[o] + forgotten[o] = 0,
                      ~ServedUnread(o)
               PROVE  effects[o] <= 1
    BY DEF DockerRunsOnce
  <2>1. effects[o] = lost[o] + forgotten[o] + One(o \in Recorded) + One(Recording(o))
    BY DEF IInv, LedgerAccounts
  <2>2. ~(o \in Recorded /\ Recording(o))
    BY DEF IInv, ServedIsUnrecorded, Recording, ServedUnread, Loaded, TypeOK, Request
  <2>3. lost[o] \in Nat /\ forgotten[o] \in Nat /\ effects[o] \in Nat
    BY DEF IInv, TypeOK, Counters
  <2>4. QED
    BY <2>1, <2>2, <2>3 DEF One
<1>2. QED
  BY <1>1, LaneDrivesRunner, Invariance, PTL

-----------------------------------------------------------------------------
(* What the lane reports is true                                           *)

(* The request the runner serves is the operation of the waiting thread.   *)
ServedIsBusy ==
  servedFor # NoThread => busy # Free /\ busy.id = handler[servedFor].op

(* A job is not executed once it has a result.                             *)
HostInv ==
  /\ hostRuns \in [HostOps -> Nat] /\ hostLost \in [HostOps -> Nat]
  /\ hostBusy # NoHostOp => hostBusy \notin DOMAIN results
  /\ HostRunsAccounted

(* The outcomes of a hand-over.                                            *)
Outcomes == {"executed", "failed", "unknown"}

(* The life cycle of an operation.                                         *)
Moves ==
  ({"absent"} \X Unfinished)
    \cup ({"pending_approval"} \X {"executing", "rejected", "expired"})
    \cup ({"executing"} \X Outcomes)
    \cup (Terminal \X {"absent"})

(* What a version of the store may say after another.                      *)
Follows(status, next) == next = status \/ <<status, next>> \in Moves

(* From its stamp to its answer a handler holds a copy in which its        *)
(* operation is executing.                                                 *)
Waits(h) == At(h, "queued") \/ At(h, "serving")

Hands(h) == (At(h, "write") /\ handler[h].next = "send") \/ At(h, "send") \/ Waits(h)

Stamped == \A h \in Threads : Hands(h) => handler[h].copy.status[handler[h].op] = "executing"

(* An outcome comes from a result file, or from the answer or the silence  *)
(* of the runner to a handler that waits; a success only from a record.    *)
Learned(o, status) ==
  \/ o \in DOMAIN results /\ results[o] = status
  \/ \E h \in Threads : /\ Waits(h) /\ handler[h].op = o
                        /\ status = "executed" => h = servedFor /\ Record

(* The challenge that this step adds.                                      *)
Drawn(d) ==
  \E h \in Threads, o \in Ops, c \in Challenges : Options(h, o, c) /\ d = Challenge(c, o, FALSE)

(* This step makes version s from version t: it moves operations along     *)
(* their life cycle, creates them under fresh ids, and notes outcomes that *)
(* it learns, or forgets what it could not read; the challenges are those  *)
(* of t and the one that it draws.                                         *)
StatusDerived(old, new, o) ==
  \/ new = old
  \/ /\ <<old, new>> \in Moves
     /\ old = "absent" => o \in issued'
     /\ new \in Outcomes => Learned(o, new)
  \/ new = "absent" /\ o \in unread'

OpenDerived(t, d) == Drawn(d) \/ \E e \in t.challenges : e.id = d.id /\ e.op = d.op

Derived(t, s) ==
  /\ \A o \in Ops : StatusDerived(t.status[o], s.status[o], o)
  /\ \A d \in s.challenges : OpenDerived(t, d)

VersionsDerive == \A s \in Versions' : \E t \in Versions : Derived(t, s)

(* No version knows an operation before it is proposed.                    *)
Unissued == \A s \in Versions, o \in Ops : o \notin issued => s.status[o] = "absent"

ReportInv ==
  IInv /\ LaneInv /\ HostInv /\ ServedIsBusy /\ Stamped /\ Unissued /\ ExecutedIsTrue

LEMMA HostStep ==
  ASSUME LaneInv, HostInv, [OpsNext]_vars
  PROVE  HostInv'
<1> USE DEF HostInv
<1>1. ASSUME NEW o \in HostOps, HostTakes(o) PROVE HostInv'
  BY <1>1, MissionControlAssumption DEF HostTakes, HostRunsAccounted, One
<1>2. CASE HostFinishes
  <2>1. hostBusy \in HostOps /\ hostBusy' = NoHostOp /\ UNCHANGED <<hostRuns, hostLost>>
    BY <1>2 DEF HostFinishes, LaneInv
  <2>2. DOMAIN results' = DOMAIN results \cup {hostBusy}
    BY <1>2 DEF HostFinishes
  <2>3. QED
    BY <1>2, <2>1, <2>2, MissionControlAssumption DEF HostFinishes, HostRunsAccounted, One
<1>3. CASE HostRestarts
  BY <1>3, MissionControlAssumption DEF HostRestarts, HostRunsAccounted, One, LaneInv
<1>4. CASE UNCHANGED <<results, hostBusy, hostRuns, hostLost>>
  BY <1>4 DEF HostRunsAccounted
<1>5. ASSUME NEW h \in Threads,
             Requested(h) \/ RequestedUnread(h) \/ HandlerStep(h) \/ HandlerFails(h)
      PROVE  UNCHANGED <<results, hostBusy, hostRuns, hostLost>>
  BY <1>5 DEF RequestedUnread, HandlerFails, Requested, Create, Preapproved, ApproveExpired, Reject, Options, Approve,
      OtherEndpoint, List, HandlerStep, WriteStore, Send, RunnerTakes, RunnerCallTimesOut,
      ListMaintains, ListBackfills, OnlyHandler, hostVars
<1>6. RunnerAnswers \/ DockerSteps \/ RunnerRestarts \/ MissionControlRestarts
      \/ (\E o \in RequestIds : RunnerTakesOrphan(o)) \/ (\E o \in Ops : Ages(o))
      \/ UNCHANGED vars
      => UNCHANGED <<results, hostBusy, hostRuns, hostLost>>
  BY DEF RunnerAnswers, Reply, DockerSteps, RunnerRestarts, MissionControlRestarts,
         RunnerTakesOrphan, Ages, vars, hostVars
<1>7. QED
  BY <1>1, <1>2, <1>3, <1>4, <1>5, <1>6 DEF OpsNext

(* Requests that start a handler do not concern the one that is served,    *)
(* which is waiting.                                                       *)
LEMMA ServedStep ==
  ASSUME IInv, LaneInv, ServedIsBusy, [OpsNext]_vars
  PROVE  ServedIsBusy'
<1> USE DEF ServedIsBusy
<1>1. ASSUME NEW h \in Threads, Requested(h) PROVE ServedIsBusy'
  <2>1. handler[h] = Idle /\ servedFor' = servedFor /\ busy' = busy
    BY <1>1 DEF Requested, Create, Preapproved, ApproveExpired, Reject, Options, Approve,
        OtherEndpoint, List, OnlyHandler, Start, runnerVars
  <2>2. \A g \in Threads : g # h => handler'[g] = handler[g]
    BY <1>1 DEF Requested, Create, Preapproved, ApproveExpired, Reject, Options, Approve,
        OtherEndpoint, List, Start, LaneInv
  <2>3. QED
    BY <2>1, <2>2 DEF LaneInv, ServedWaits, At
<1>2. ASSUME NEW h \in Threads, RunnerTakes(h) PROVE ServedIsBusy'
  <2>1. CASE busy = Free /\ UNCHANGED servedFor
    BY <2>1 DEF LaneInv, ServedWaits
  <2>2. CASE /\ BeginExecute("call", handler[h].op, NoExec) \/ BeginUnread("call", handler[h].op)
             /\ servedFor' = h /\ Goto(h, "serving")
    <3>1. busy' # Free /\ busy'.id = handler[h].op
      BY <2>2 DEF BeginExecute, BeginUnread, Serve, Free
    <3>2. handler[h] \in Working
      BY <1>2 DEF RunnerTakes, At, LaneInv
    <3>3. handler'[h].op = handler[h].op
      BY <2>2, <3>2 DEF Goto, LaneInv, Working
    <3>4. QED
      BY <2>2, <3>1, <3>3
  <2>3. QED
    BY <1>2, <2>1, <2>2 DEF RunnerTakes
<1>3. ASSUME NEW h \in Threads, RunnerCallTimesOut(h) PROVE ServedIsBusy'
  <2>1. busy' = busy /\ \A g \in Threads : g # h => handler'[g] = handler[g]
    BY <1>3 DEF RunnerCallTimesOut, LaneInv, runnerVars
  <2>2. CASE At(h, "queued")
    BY <1>3, <2>1, <2>2 DEF RunnerCallTimesOut, LaneInv, ServedWaits, At
  <2>3. CASE ~At(h, "queued")
    BY <1>3, <2>3 DEF RunnerCallTimesOut
  <2>4. QED
    BY <2>2, <2>3
<1>4. ASSUME NEW h \in Threads, WriteStore(h) \/ Send(h) \/ ListMaintains(h) \/ ListBackfills(h)
      PROVE  ServedIsBusy'
  <2>1. ~At(h, "serving") /\ servedFor' = servedFor /\ busy' = busy
    BY <1>4 DEF WriteStore, Send, ListMaintains, ListBackfills, At, OnlyHandler, runnerVars
  <2>2. \A g \in Threads : g # h => handler'[g] = handler[g]
    BY <1>4 DEF WriteStore, Send, ListMaintains, ListBackfills, Goto, LaneInv
  <2>3. QED
    BY <2>1, <2>2 DEF LaneInv, ServedWaits
<1>5. CASE RunnerAnswers \/ RunnerRestarts \/ MissionControlRestarts
  BY <1>5 DEF RunnerAnswers, Reply, RunnerRestarts, MissionControlRestarts
<1>6. CASE DockerSteps
  <2>1. UNCHANGED <<servedFor, handler>>
    BY <1>6 DEF DockerSteps, mcVars
  <2>2. busy' = busy \/ (busy' # Free /\ busy'.id = busy.id)
    <3>1. CASE DockerPerforms
      <4>1. busy \in Request /\ busy' \in Request
        BY <3>1 DEF DockerPerforms, IInv, TypeOK, Request, Free
      <4>2. busy'.id = busy.id
        BY <3>1, <4>1 DEF DockerPerforms, Request
      <4>3. QED
        BY <4>1, <4>2 DEF Request, Free
    <3>2. CASE ~DockerPerforms
      BY <1>6, <3>2 DEF DockerSteps, DockerPerformsLate, DockerDropsLate
    <3>3. QED
      BY <3>1, <3>2
  <2>3. QED
    BY <2>1, <2>2
<1>7. ASSUME NEW o \in RequestIds, RunnerTakesOrphan(o) PROVE ServedIsBusy'
  BY <1>7 DEF RunnerTakesOrphan, BeginExecute, BeginUnread, Serve
<1>8. CASE \/ HostFinishes \/ HostRestarts \/ UNCHANGED vars
           \/ \E o \in HostOps : HostTakes(o)
           \/ \E o \in Ops : Ages(o)
  BY <1>8 DEF HostFinishes, HostRestarts, HostTakes, Ages, mcVars, runnerVars, vars
<1>9. ASSUME NEW h \in Threads, RequestedUnread(h) \/ HandlerFails(h) PROVE ServedIsBusy'
  <2>1. ~At(h, "serving") /\ servedFor' = servedFor /\ busy' = busy
    BY <1>9, UnreadStarts DEF HandlerFails, Start, At, runnerVars
  <2>2. \A g \in Threads : g # h => handler'[g] = handler[g]
    BY <1>9, UnreadStarts DEF HandlerFails, Start, LaneInv
  <2>3. QED
    BY <2>1, <2>2 DEF LaneInv, ServedWaits
<1>10. QED
  BY <1>1, <1>2, <1>3, <1>4, <1>5, <1>6, <1>7, <1>8, <1>9 DEF OpsNext, HandlerStep

(* What happened stays happened: Docker's effects are not undone and a     *)
(* result is not rewritten.                                                *)
LEMMA HappenedStays ==
  ASSUME IInv, LaneInv, HostInv, [OpsNext]_vars, NEW o \in Ops, Happened(o)
  PROVE  Happened(o)'
<1>1. CASE o \in RequestIds
  <2>1. effects \in Counters /\ effects[o] > 0
    BY <1>1 DEF Happened, IInv, TypeOK
  <2>2. [Next]_runnerVars
    BY StepIsRunnerStep
  <2>3. effects' = effects \/ \E r \in RequestIds : effects' = Bump(effects, r)
    <3>1. CASE UNCHANGED effects
      BY <3>1
    <3>2. CASE DockerPerforms
      BY <3>2 DEF DockerPerforms, IInv, TypeOK, Request, Free
    <3>3. ASSUME NEW r \in RequestIds, DockerPerformsLate(r)
          PROVE  effects' = Bump(effects, r)
      BY <3>3 DEF DockerPerformsLate
    <3>4. DockerRefuses \/ DockerBreaks \/ Record \/ RecordFails \/ Tick \/ Crash
          \/ (\E r \in RequestIds : DockerDropsLate(r) \/ StartStream(r))
          \/ (\E l \in LeaseIds : OpenLease(l) \/ CloseLease(l) \/ NoticeExpiry(l))
          => UNCHANGED effects
      BY DEF DockerRefuses, DockerBreaks, Record, RecordFails, Tick, Crash, DockerDropsLate,
             StartStream, OpenLease, CloseLease, NoticeExpiry, dockerVars
    <3>5. ASSUME NEW op, NEW r \in RequestIds, NEW l, NEW x,
                 BeginExecute(op, r, x) \/ BeginUnderLease(op, r, l) \/ BeginUnread(op, r)
          PROVE  UNCHANGED effects
      BY <3>5 DEF BeginExecute, BeginUnderLease, BeginUnread, Serve, dockerVars
    <3>6. ASSUME NEW l, OpenLeaseUnread(l) PROVE UNCHANGED effects
      BY <3>6 DEF OpenLeaseUnread, dockerVars
    <3>7. QED
      BY <2>2, <3>1, <3>2, <3>3, <3>4, <3>5, <3>6 DEF Next, runnerVars
  <2>4. QED
    BY <1>1, <2>1, <2>3, BumpCounter DEF Happened, Counters, One
<1>2. CASE o \notin RequestIds
  <2>1. CASE HostFinishes
    BY <1>2, <2>1 DEF Happened, HostFinishes, HostInv
  <2>2. CASE ~HostFinishes
    <3>1. ASSUME NEW h \in Threads,
                 Requested(h) \/ RequestedUnread(h) \/ HandlerStep(h) \/ HandlerFails(h)
          PROVE  UNCHANGED results
      BY <3>1 DEF RequestedUnread, HandlerFails, Requested, Create, Preapproved, ApproveExpired, Reject, Options, Approve,
          OtherEndpoint, List, HandlerStep, WriteStore, Send, RunnerTakes, RunnerCallTimesOut,
          ListMaintains, ListBackfills, OnlyHandler, hostVars
    <3>2. UNCHANGED results
      BY <2>2, <3>1 DEF OpsNext, RunnerAnswers, Reply, DockerSteps, RunnerRestarts, Ages,
          MissionControlRestarts, RunnerTakesOrphan, HostTakes, HostRestarts, vars, hostVars
    <3>3. QED
      BY <1>2, <3>2 DEF Happened
  <2>3. QED
    BY <2>1, <2>2
<1>3. QED
  BY <1>1, <1>2

LEMMA VersionIs ==
  ASSUME NEW s
  PROVE  s \in Versions <=> s = store \/ \E h \in Threads : handler[h] # Idle /\ s = handler[h].copy
BY DEF Versions

LEMMA VersionBecomes ==
  ASSUME NEW s
  PROVE  s \in Versions' <=> s = store' \/ \E h \in Threads : handler'[h] # Idle /\ s = handler'[h].copy
BY DEF Versions

LEMMA SameDerived == ASSUME NEW s PROVE Derived(s, s)
BY DEF Derived, StatusDerived, OpenDerived

(* It is enough to look at the handlers that the step moves.               *)
LEMMA HandlersDerive ==
  ASSUME store' \in Versions,
         \A h \in Threads : \/ handler'[h] = handler[h]
                            \/ handler'[h] = Idle
                            \/ \E t \in Versions : Derived(t, handler'[h].copy)
  PROVE  VersionsDerive
<1> SUFFICES ASSUME NEW s \in Versions' PROVE \E t \in Versions : Derived(t, s)
  BY DEF VersionsDerive
<1>1. CASE s \in Versions
  BY <1>1, SameDerived
<1>2. CASE s \notin Versions
  <2>1. PICK h \in Threads : handler'[h] # Idle /\ s = handler'[h].copy
    BY <1>2, VersionBecomes
  <2>2. handler'[h] # handler[h]
    BY <1>2, <2>1, VersionIs
  <2>3. QED
    BY <2>1, <2>2
<1>3. QED
  BY <1>1, <1>2

LEMMA HandlerDerives ==
  ASSUME LaneInv, NEW h \in Threads, NEW next, handler' = [handler EXCEPT ![h] = next],
         store' \in Versions,
         next = Idle \/ \E t \in Versions : Derived(t, next.copy)
  PROVE  VersionsDerive
<1>1. \A g \in Threads : handler'[g] = IF g = h THEN next ELSE handler[g]
  BY DEF LaneInv
<1>2. QED
  BY <1>1, HandlersDerive

LEMMA StartDerives ==
  ASSUME LaneInv, NEW h \in Threads, NEW p, NEW copy, NEW next,
         Start(h, p, copy, next), store' = store, Derived(store, copy)
  PROVE  VersionsDerive
<1> DEFINE work == [at |-> "write", op |-> p, copy |-> copy, next |-> next]
<1>1. handler' = [handler EXCEPT ![h] = work] /\ work.copy = copy
  BY DEF Start
<1>2. store \in Versions
  BY VersionIs
<1> HIDE DEF work
<1>3. QED
  BY <1>1, <1>2, HandlerDerives

LEMMA MarkDerived ==
  ASSUME NEW s \in Stores, NEW p \in Ops, NEW status, StatusDerived(s.status[p], status, p)
  PROVE  Derived(s, Mark(s, p, status))
<1>1. /\ \A o \in Ops : Mark(s, p, status).status[o] = IF o = p THEN status ELSE s.status[o]
      /\ Mark(s, p, status).challenges = s.challenges
  BY DEF Mark, Stores
<1>2. \A o \in Ops : StatusDerived(s.status[o], Mark(s, p, status).status[o], o)
  BY <1>1 DEF StatusDerived
<1>3. QED
  BY <1>1, <1>2 DEF Derived, OpenDerived

LEMMA RequestedDerives ==
  ASSUME LaneInv, Unissued, NEW h \in Threads, Requested(h)
  PROVE  VersionsDerive
<1> USE DEF OnlyHandler
<1>0. store \in Stores /\ store \in Versions
  BY VersionIs DEF LaneInv
<1>1. ASSUME NEW p \in Ops, Create(h, p) \/ Preapproved(h, p) PROVE VersionsDerive
  <2>1. store.status[p] = "absent" /\ p \in issued'
    BY <1>0, <1>1 DEF Create, Preapproved, Unissued
  <2>2. \A status \in Unfinished : StatusDerived(store.status[p], status, p)
    BY <2>1 DEF StatusDerived, Moves, Unfinished, Outcomes
  <2>3. PICK status \in Unfinished, next \in {"done", "send"} :
          Start(h, p, Mark(store, p, status), next) /\ store' = store
    BY <1>1 DEF Create, Preapproved, Unfinished
  <2>4. QED
    BY <1>0, <2>2, <2>3, MarkDerived, StartDerives
<1>2. ASSUME NEW p \in Ops, ApproveExpired(h, p) \/ Reject(h, p) PROVE VersionsDerive
  <2>1. PICK status \in {"rejected", "expired"} :
          /\ store.status[p] = "pending_approval" /\ store' = store
          /\ Start(h, p, Mark(store, p, status), "done")
    BY <1>2 DEF ApproveExpired, Reject
  <2>2. StatusDerived(store.status[p], status, p)
    BY <2>1 DEF StatusDerived, Moves, Outcomes
  <2>3. QED
    BY <1>0, <2>1, <2>2, MarkDerived, StartDerives
<1>3. ASSUME NEW p \in Ops, NEW c \in Challenges, Options(h, p, c) PROVE VersionsDerive
  <2> DEFINE copy == [store EXCEPT !.challenges =
                        {d \in @ : ~d.used} \cup {Challenge(c, p, FALSE)}]
  <2>1. /\ copy.status = store.status
        /\ \A d \in copy.challenges : d \in store.challenges \/ d = Challenge(c, p, FALSE)
    BY <1>0 DEF Stores
  <2>2. Start(h, p, copy, "done") /\ store' = store
    BY <1>3 DEF Options
  <2>3. Drawn(Challenge(c, p, FALSE))
    BY <1>3 DEF Drawn
  <2> HIDE DEF copy
  <2>4. Derived(store, copy)
    BY <2>1, <2>3 DEF Derived, StatusDerived, OpenDerived
  <2>5. QED
    BY <2>2, <2>4, StartDerives
<1>4. ASSUME NEW p \in Ops, NEW c \in Challenges, Approve(h, p, c) PROVE VersionsDerive
  <2> DEFINE open == (store.challenges \ {Challenge(c, p, FALSE)}) \cup {Challenge(c, p, TRUE)}
             copy == [store EXCEPT !.challenges = open]
  <2>1. open \subseteq [id : Challenges, op : Ops, used : BOOLEAN]
    BY <1>0, ChallengeRecord DEF Stores
  <2>2. copy \in Stores /\ copy.status = store.status /\ copy.challenges = open
    BY <1>0, <2>1, ChallengeStore DEF Stores
  <2>3. /\ Start(h, p, Mark(copy, p, "executing"), "send") /\ store' = store
        /\ store.status[p] = "pending_approval" /\ Challenge(c, p, FALSE) \in store.challenges
    BY <1>4 DEF Approve
  <2>4. \A d \in open : \E e \in store.challenges : e.id = d.id /\ e.op = d.op
    BY <2>3 DEF Challenge
  <2> HIDE DEF open, copy
  <2>5. /\ \A o \in Ops : Mark(copy, p, "executing").status[o]
                            = IF o = p THEN "executing" ELSE store.status[o]
        /\ Mark(copy, p, "executing").challenges = open
    BY <2>2 DEF Mark, Stores
  <2>6. StatusDerived(store.status[p], "executing", p)
    BY <2>3 DEF StatusDerived, Moves, Outcomes
  <2>7. Derived(store, Mark(copy, p, "executing"))
    BY <2>4, <2>5, <2>6 DEF Derived, StatusDerived, OpenDerived
  <2>8. QED
    BY <2>3, <2>7, StartDerives
<1>5. CASE OtherEndpoint(h)
  BY <1>5, SameDerived, StartDerives DEF OtherEndpoint
<1>6. CASE List(h)
  <2> DEFINE work == [at |-> IF Reconciled(store) = store THEN "maintain" ELSE "write",
                      op |-> CHOOSE p \in Ops : TRUE, copy |-> Reconciled(store),
                      next |-> "maintain"]
  <2>1. handler' = [handler EXCEPT ![h] = work] /\ work.copy = Reconciled(store) /\ store' = store
    BY <1>6 DEF List
  <2> HIDE DEF work
  <2>2. /\ \A o \in Ops : Reconciled(store).status[o]
                            = IF o \in DOMAIN results /\ store.status[o] = "executing"
                              THEN results[o] ELSE store.status[o]
        /\ Reconciled(store).challenges = store.challenges
    BY <1>0 DEF Reconciled, Stores
  <2>3. ASSUME NEW o \in Ops
        PROVE  StatusDerived(store.status[o], Reconciled(store).status[o], o)
    BY <2>2 DEF StatusDerived, Moves, Outcomes, Learned, LaneInv
  <2>4. Derived(store, Reconciled(store))
    BY <2>2, <2>3 DEF Derived, OpenDerived
  <2>5. QED
    BY <1>0, <2>1, <2>4, HandlerDerives
<1>7. QED
  BY <1>1, <1>2, <1>3, <1>4, <1>5, <1>6 DEF Requested

LEMMA UnreadDerives ==
  ASSUME LaneInv, Unissued, NEW h \in Threads, RequestedUnread(h)
  PROVE  VersionsDerive
<1>1. PICK p \in Ops, copy \in Stores, next \in {"done", "send"} :
        /\ Start(h, p, copy, next)
        /\ copy = DefaultStore \/ \E status \in Unfinished :
             copy = Mark(DefaultStore, p, status) /\ p \notin issued /\ p \in issued'
  BY UnreadStarts
<1>2. store' = store /\ unread' = unread \cup {o \in Ops : store.status[o] # "absent"}
  BY UnreadStarts
<1>3. ASSUME NEW o \in Ops PROVE StatusDerived(store.status[o], "absent", o)
  BY <1>2 DEF StatusDerived
<1>4. DefaultStore.challenges = {} /\ \A o \in Ops : DefaultStore.status[o] = "absent"
  BY DEF DefaultStore
<1>5. CASE copy = DefaultStore
  <2>1. Derived(store, copy)
    BY <1>3, <1>4, <1>5 DEF Derived
  <2>2. QED
    BY <1>1, <1>2, <2>1, StartDerives
<1>6. CASE copy # DefaultStore
  <2>1. PICK status \in Unfinished :
          copy = Mark(DefaultStore, p, status) /\ p \notin issued /\ p \in issued'
    BY <1>1, <1>6
  <2>2. store.status[p] = "absent"
    BY <2>1, VersionIs DEF Unissued
  <2>3. StatusDerived(store.status[p], status, p)
    BY <2>1, <2>2 DEF StatusDerived, Moves, Unfinished, Outcomes
  <2>4. /\ \A o \in Ops : copy.status[o] = IF o = p THEN status ELSE "absent"
        /\ copy.challenges = {}
    BY <1>4, <2>1, DefaultIsStore DEF Mark, Stores
  <2>5. ASSUME NEW o \in Ops PROVE StatusDerived(store.status[o], copy.status[o], o)
    BY <1>3, <2>3, <2>4
  <2>6. Derived(store, copy)
    BY <2>4, <2>5 DEF Derived
  <2>7. QED
    BY <1>1, <1>2, <2>6, StartDerives
<1>7. QED
  BY <1>5, <1>6

(* The outcome that a waiting handler learns.                              *)
LEMMA AnsweredDerived ==
  ASSUME LaneInv, Stamped, NEW h \in Threads, Waits(h), NEW status \in Outcomes,
         status = "executed" => h = servedFor /\ Record
  PROVE  \E t \in Versions : Derived(t, Answered(h, status).copy)
<1>1. handler[h] \in Working /\ handler[h] # Idle
  BY DEF LaneInv, Waits, At
<1>2. /\ handler[h].copy \in Stores /\ handler[h].op \in Ops
      /\ Answered(h, status).copy = Mark(handler[h].copy, handler[h].op, status)
  BY <1>1 DEF Answered, Working
<1>3. handler[h].copy.status[handler[h].op] = "executing"
  BY DEF Stamped, Hands
<1>4. Learned(handler[h].op, status)
  BY DEF Learned
<1>5. StatusDerived(handler[h].copy.status[handler[h].op], status, handler[h].op)
  BY <1>3, <1>4 DEF StatusDerived, Moves
<1>6. handler[h].copy \in Versions
  BY <1>1, VersionIs
<1>7. QED
  BY <1>2, <1>5, <1>6, MarkDerived

LEMMA HandlerStepDerives ==
  ASSUME LaneInv, Stamped, NEW h \in Threads, HandlerStep(h)
  PROVE  VersionsDerive
<1> USE DEF OnlyHandler
<1> DEFINE work == handler[h]
<1>1. work # Idle
  BY DEF HandlerStep, WriteStore, Send, RunnerTakes, RunnerCallTimesOut, ListMaintains,
         ListBackfills, At
<1>2. work \in Working /\ work.copy \in Stores /\ work.copy \in Versions /\ store \in Versions
  BY <1>1, VersionIs DEF LaneInv, Working
<1>3. store' \in Versions
  BY <1>2 DEF HandlerStep, WriteStore, Send, RunnerTakes, RunnerCallTimesOut, ListMaintains,
              ListBackfills
<1>4. ASSUME NEW next, handler' = [handler EXCEPT ![h] = next], next = Idle \/ next.copy = work.copy
      PROVE  VersionsDerive
  BY <1>2, <1>3, <1>4, SameDerived, HandlerDerives
<1>5. ASSUME NEW place, Goto(h, place) PROVE VersionsDerive
  <2> DEFINE next == IF place = "done" THEN Idle ELSE [work EXCEPT !.at = place]
  <2>1. handler' = [handler EXCEPT ![h] = next]
    BY <1>5 DEF Goto
  <2>2. next = Idle \/ next.copy = work.copy
    BY <1>2 DEF Working
  <2> HIDE DEF next
  <2>3. QED
    BY <1>4, <2>1, <2>2
<1>6. ASSUME NEW status \in {"failed", "unknown"}, Waits(h),
             handler' = [handler EXCEPT ![h] = Answered(h, status)]
      PROVE  VersionsDerive
  BY <1>3, <1>6, AnsweredDerived, HandlerDerives DEF Outcomes
<1>7. CASE ListMaintains(h)
  <2> DEFINE next == [work EXCEPT !.copy = Maintained(work.copy), !.next = "backfill",
                        !.at = IF Maintained(work.copy) = work.copy THEN "backfill" ELSE "write"]
  <2>1. handler' = [handler EXCEPT ![h] = next]
    BY <1>7 DEF ListMaintains
  <2>2. next.copy = Maintained(work.copy)
    BY <1>2 DEF Working
  <2> HIDE DEF next
  <2>3. /\ \A o \in Ops : Maintained(work.copy).status[o]
                            = IF work.copy.status[o] \in Terminal /\ age[o] = "old"
                              THEN "absent" ELSE work.copy.status[o]
        /\ Maintained(work.copy).challenges = work.copy.challenges
    BY <1>2 DEF Maintained, Stores
  <2>4. ASSUME NEW o \in Ops
        PROVE  StatusDerived(work.copy.status[o], Maintained(work.copy).status[o], o)
    BY <2>3 DEF StatusDerived, Moves, Outcomes, Terminal
  <2>5. Derived(work.copy, Maintained(work.copy))
    BY <2>3, <2>4 DEF Derived, OpenDerived
  <2>6. QED
    BY <1>2, <1>3, <2>1, <2>2, <2>5, HandlerDerives
<1>8. CASE ListBackfills(h)
  <2> DEFINE next == [work EXCEPT !.at = "write", !.next = "done"]
  <2>1. next.copy = work.copy
    BY <1>2 DEF Working
  <2>2. Goto(h, "done") \/ handler' = [handler EXCEPT ![h] = next]
    BY <1>8 DEF ListBackfills
  <2> HIDE DEF next
  <2>3. QED
    BY <1>4, <1>5, <2>1, <2>2
<1>9. CASE RunnerTakes(h) \/ RunnerCallTimesOut(h)
  BY <1>5, <1>6, <1>9 DEF RunnerTakes, RunnerCallTimesOut, Waits
<1>10. CASE WriteStore(h) \/ Send(h)
  BY <1>5, <1>10 DEF WriteStore, Send
<1>11. QED
  BY <1>7, <1>8, <1>9, <1>10 DEF HandlerStep

(* No step of the lane makes a version of the store from nothing: each one *)
(* comes from one there was.                                               *)
LEMMA StepDerives ==
  ASSUME LaneInv, Stamped, Unissued, [OpsNext]_vars
  PROVE  VersionsDerive
<1>0. store \in Versions
  BY VersionIs
<1>1. ASSUME NEW h \in Threads,
             Requested(h) \/ RequestedUnread(h) \/ HandlerStep(h) \/ HandlerFails(h)
      PROVE  VersionsDerive
  <2>1. CASE HandlerFails(h)
    BY <1>0, <2>1, HandlerDerives DEF HandlerFails
  <2>2. QED
    BY <1>1, <2>1, RequestedDerives, UnreadDerives, HandlerStepDerives
<1>2. CASE RunnerAnswers
  <2>1. PICK status \in {"executed", "failed"} : Reply(status) /\ (status = "executed" => Record)
    BY <1>2 DEF RunnerAnswers
  <2>2. \A h \in Threads : h = servedFor => Waits(h)
    BY MissionControlAssumption DEF LaneInv, ServedWaits, Waits
  <2>3. ASSUME NEW h \in Threads, h = servedFor
        PROVE  \E t \in Versions : Derived(t, Answered(h, status).copy)
    BY <2>1, <2>2, <2>3, AnsweredDerived DEF Outcomes
  <2>4. QED
    BY <1>0, <2>1, <2>3, HandlersDerive DEF Reply
<1>3. CASE RunnerRestarts
  <2>1. ASSUME NEW h \in Threads, Waits(h)
        PROVE  \E t \in Versions : Derived(t, Answered(h, "unknown").copy)
    BY <2>1, AnsweredDerived DEF Outcomes
  <2>2. QED
    BY <1>0, <1>3, <2>1, HandlersDerive DEF RunnerRestarts, Waits
<1>4. CASE MissionControlRestarts
  BY <1>0, <1>4, HandlersDerive DEF MissionControlRestarts
<1>5. CASE UNCHANGED <<store, handler>>
  BY <1>0, <1>5, HandlersDerive
<1>6. \/ DockerSteps \/ HostFinishes \/ HostRestarts \/ UNCHANGED vars
      \/ \E q \in RequestIds : RunnerTakesOrphan(q)
      \/ \E q \in HostOps : HostTakes(q)
      \/ \E q \in Ops : Ages(q)
      => UNCHANGED <<store, handler>>
  BY DEF DockerSteps, HostFinishes, HostRestarts, RunnerTakesOrphan, HostTakes, Ages, vars, mcVars
<1>7. QED
  BY <1>1, <1>2, <1>3, <1>4, <1>5, <1>6 DEF OpsNext

(* A handler stays stamped until it has its answer.                        *)
LEMMA GotoKeeps ==
  ASSUME LaneInv, NEW h \in Threads, NEW place, Goto(h, place), handler[h] # Idle
  PROVE  \/ handler'[h] = Idle
         \/ /\ handler'[h] # Idle /\ handler'[h].at = place
            /\ handler'[h].next = handler[h].next
            /\ handler'[h].op = handler[h].op /\ handler'[h].copy = handler[h].copy
<1>1. handler[h] \in Working /\ handler'[h] = IF place = "done" THEN Idle
                                              ELSE [handler[h] EXCEPT !.at = place]
  BY DEF Goto, LaneInv
<1>2. place # "done" => handler'[h] = [at |-> place, op |-> handler[h].op,
                                       copy |-> handler[h].copy, next |-> handler[h].next]
  BY <1>1 DEF Working
<1>3. QED
  BY <1>1, <1>2 DEF Idle

LEMMA AnsweredHands ==
  ASSUME LaneInv, NEW h \in Threads, handler[h] # Idle, NEW status,
         handler'[h] = Answered(h, status)
  PROVE  ~Hands(h)'
<1>1. handler[h] \in Working
  BY DEF LaneInv
<1>2. handler'[h].at = "write" /\ handler'[h].next = "done"
  BY <1>1 DEF Answered, Working
<1>3. QED
  BY <1>2 DEF Hands, Waits, At

LEMMA StartHands ==
  ASSUME LaneInv, NEW h \in Threads, NEW p, NEW copy, NEW next, Start(h, p, copy, next),
         next = "send" => copy.status[p] = "executing"
  PROVE  Hands(h)' => handler'[h].copy.status[handler'[h].op] = "executing"
<1>1. handler'[h] = [at |-> "write", op |-> p, copy |-> copy, next |-> next]
  BY DEF Start, LaneInv
<1>2. /\ handler'[h].at = "write" /\ handler'[h].next = next
      /\ handler'[h].op = p /\ handler'[h].copy = copy
  BY <1>1
<1>3. QED
  BY <1>2 DEF Hands, Waits, At

LEMMA StampedStep ==
  ASSUME LaneInv, Stamped, [OpsNext]_vars
  PROVE  Stamped'
<1> USE DEF OnlyHandler
<1> DEFINE Fine(g) == \/ handler'[g] = handler[g] \/ ~Hands(g)'
                      \/ handler'[g].copy.status[handler'[g].op] = "executing"
<1>0. ASSUME \A g \in Threads : Fine(g) PROVE Stamped'
  <2> SUFFICES ASSUME NEW g \in Threads, Hands(g)'
               PROVE  handler'[g].copy.status[handler'[g].op] = "executing"
    BY DEF Stamped
  <2>1. handler'[g] = handler[g] => Hands(g)
    BY DEF Hands, Waits, At
  <2>2. QED
    BY <1>0, <2>1 DEF Stamped
<1>1. ASSUME NEW h \in Threads, Requested(h) PROVE Fine(h)
  <2>0. store \in Stores
    BY DEF LaneInv
  <2>1. ASSUME NEW p, NEW copy, Start(h, p, copy, "done") PROVE Fine(h)
    BY <2>1, StartHands
  <2>2. ASSUME NEW p \in Ops, NEW s \in Stores, Start(h, p, Mark(s, p, "executing"), "send")
        PROVE  Fine(h)
    <3>1. Mark(s, p, "executing").status[p] = "executing"
      BY DEF Mark, Stores
    <3>2. QED
      BY <2>2, <3>1, StartHands
  <2>3. ASSUME NEW p \in Ops, NEW c \in Challenges, Approve(h, p, c) PROVE Fine(h)
    <3> DEFINE open == (store.challenges \ {Challenge(c, p, FALSE)}) \cup {Challenge(c, p, TRUE)}
               copy == [store EXCEPT !.challenges = open]
    <3>1. open \subseteq [id : Challenges, op : Ops, used : BOOLEAN]
      BY <2>0, ChallengeRecord DEF Stores
    <3>2. copy \in Stores
      BY <2>0, <3>1, ChallengeStore
    <3>3. Start(h, p, Mark(copy, p, "executing"), "send")
      BY <2>3 DEF Approve
    <3> HIDE DEF copy
    <3>4. QED
      BY <2>2, <3>2, <3>3
  <2>4. CASE List(h)
    <3> DEFINE work == [at |-> IF Reconciled(store) = store THEN "maintain" ELSE "write",
                        op |-> CHOOSE p \in Ops : TRUE, copy |-> Reconciled(store),
                        next |-> "maintain"]
    <3>1. handler'[h] = work
      BY <2>4 DEF List, LaneInv
    <3>2. work.at \in {"maintain", "write"} /\ work.next = "maintain"
      OBVIOUS
    <3> HIDE DEF work
    <3>3. ~Hands(h)'
      BY <3>1, <3>2 DEF Hands, Waits, At
    <3>4. QED
      BY <3>3
  <2>5. ASSUME NEW p \in Ops,
               Create(h, p) \/ Preapproved(h, p) \/ ApproveExpired(h, p) \/ Reject(h, p)
        PROVE  Fine(h)
    BY <2>0, <2>1, <2>2, <2>5 DEF Create, Preapproved, ApproveExpired, Reject
  <2>6. CASE OtherEndpoint(h) \/ \E p \in Ops, c \in Challenges : Options(h, p, c)
    BY <2>1, <2>6 DEF OtherEndpoint, Options
  <2>7. QED
    BY <1>1, <2>3, <2>4, <2>5, <2>6 DEF Requested
<1>2. ASSUME NEW h \in Threads, HandlerStep(h) PROVE Fine(h)
  <2>1. handler[h] # Idle
    BY <1>2 DEF HandlerStep, WriteStore, Send, RunnerTakes, RunnerCallTimesOut, ListMaintains,
           ListBackfills, At
  <2>2. handler[h] \in Working
    BY <2>1 DEF LaneInv
  <2>3. ASSUME NEW place, Goto(h, place), place # "write",
               place \in {"send", "queued", "serving"} => Hands(h)
        PROVE  Fine(h)
    <3>1. CASE Hands(h)
      <4>1. handler[h].copy.status[handler[h].op] = "executing"
        BY <3>1 DEF Stamped
      <4>2. handler'[h] = Idle => ~Hands(h)'
        BY DEF Hands, Waits, At
      <4>3. QED
        BY <2>1, <2>3, <4>1, <4>2, GotoKeeps
    <3>2. CASE ~Hands(h)
      <4>1. ~Hands(h)'
        BY <2>1, <2>3, <3>2, GotoKeeps DEF Hands, Waits, At
      <4>2. QED
        BY <4>1
    <3>3. QED
      BY <3>1, <3>2
  <2>4. ASSUME NEW status, handler' = [handler EXCEPT ![h] = Answered(h, status)] PROVE Fine(h)
    <3>1. handler'[h] = Answered(h, status)
      BY <2>4 DEF LaneInv
    <3>2. ~Hands(h)'
      BY <2>1, <3>1, AnsweredHands
    <3>3. QED
      BY <3>2
  <2>5. CASE WriteStore(h)
    BY <2>2, <2>3, <2>5 DEF WriteStore, Hands, Working
  <2>6. CASE Send(h) \/ RunnerTakes(h) \/ RunnerCallTimesOut(h)
    BY <2>3, <2>4, <2>6 DEF Send, RunnerTakes, RunnerCallTimesOut, Hands, Waits
  <2>7. CASE ListMaintains(h)
    <3> DEFINE next == [handler[h] EXCEPT !.copy = Maintained(handler[h].copy), !.next = "backfill",
                          !.at = IF Maintained(handler[h].copy) = handler[h].copy
                                 THEN "backfill" ELSE "write"]
    <3>1. handler'[h] = next
      BY <2>7 DEF ListMaintains, LaneInv
    <3>2. next.at \in {"backfill", "write"} /\ next.next = "backfill"
      BY <2>2 DEF Working
    <3> HIDE DEF next
    <3>3. ~Hands(h)'
      BY <3>1, <3>2 DEF Hands, Waits, At
    <3>4. QED
      BY <3>3
  <2>8. CASE ListBackfills(h)
    <3> DEFINE next == [handler[h] EXCEPT !.at = "write", !.next = "done"]
    <3>1. Goto(h, "done") \/ handler'[h] = next
      BY <2>8 DEF ListBackfills, LaneInv
    <3>2. next.at = "write" /\ next.next = "done"
      BY <2>2 DEF Working
    <3> HIDE DEF next
    <3>3. handler'[h] = next => ~Hands(h)'
      BY <3>2 DEF Hands, Waits, At
    <3>4. QED
      BY <2>3, <3>1, <3>3
  <2>9. QED
    BY <1>2, <2>5, <2>6, <2>7, <2>8 DEF HandlerStep
<1>2a. ASSUME NEW h \in Threads, RequestedUnread(h) \/ HandlerFails(h) PROVE Fine(h)
  <2>1. CASE HandlerFails(h)
    <3>1. handler'[h] = Idle
      BY <2>1 DEF HandlerFails, LaneInv
    <3>2. QED
      BY <3>1 DEF Hands, Waits, At
  <2>2. CASE RequestedUnread(h)
    <3>1. PICK p \in Ops, copy \in Stores, next \in {"done", "send"} :
            /\ Start(h, p, copy, next)
            /\ next = "send" => copy = Mark(DefaultStore, p, "executing")
      BY <2>2, UnreadStarts
    <3>2. Mark(DefaultStore, p, "executing").status[p] = "executing"
      BY DefaultIsStore DEF Mark, Stores
    <3>3. QED
      BY <3>1, <3>2, StartHands
  <2>3. QED
    BY <1>2a, <2>1, <2>2
<1>3. ASSUME NEW h \in Threads,
             Requested(h) \/ RequestedUnread(h) \/ HandlerStep(h) \/ HandlerFails(h),
             NEW g \in Threads, g # h
      PROVE  handler'[g] = handler[g]
  BY <1>3, UnreadStarts DEF HandlerFails, Requested, Create, Preapproved, ApproveExpired, Reject, Options, Approve,
        OtherEndpoint, List, Start, HandlerStep, WriteStore, Send, RunnerTakes,
        RunnerCallTimesOut, ListMaintains, ListBackfills, Goto, LaneInv
<1>4. CASE \E h \in Threads :
             Requested(h) \/ RequestedUnread(h) \/ HandlerStep(h) \/ HandlerFails(h)
  BY <1>0, <1>1, <1>2, <1>2a, <1>3, <1>4
<1>5. ASSUME NEW g \in Threads, RunnerAnswers PROVE Fine(g)
  <2>1. PICK status \in {"executed", "failed"} : Reply(status)
    BY <1>5 DEF RunnerAnswers
  <2>2. handler'[g] = IF g = servedFor THEN Answered(g, status) ELSE handler[g]
    BY <2>1 DEF Reply
  <2>3. g = servedFor => handler[g] # Idle
    BY MissionControlAssumption DEF LaneInv, ServedWaits, At
  <2>4. QED
    BY <2>2, <2>3, AnsweredHands
<1>6. ASSUME NEW g \in Threads, RunnerRestarts PROVE Fine(g)
  BY <1>6, AnsweredHands DEF RunnerRestarts, At
<1>7. ASSUME NEW g \in Threads, MissionControlRestarts PROVE Fine(g)
  <2>1. handler'[g] = Idle
    BY <1>7 DEF MissionControlRestarts
  <2>2. QED
    BY <2>1 DEF Hands, Waits, At
<1>8. CASE UNCHANGED handler
  BY <1>0, <1>8
<1>9. \/ DockerSteps \/ HostFinishes \/ HostRestarts \/ UNCHANGED vars
      \/ \E q \in RequestIds : RunnerTakesOrphan(q)
      \/ \E q \in HostOps : HostTakes(q)
      \/ \E q \in Ops : Ages(q)
      => UNCHANGED handler
  BY DEF DockerSteps, HostFinishes, HostRestarts, RunnerTakesOrphan, HostTakes, Ages, vars, mcVars
<1>10. QED
  BY <1>0, <1>4, <1>5, <1>6, <1>7, <1>8, <1>9 DEF OpsNext

LEMMA IssuedGrows ==
  ASSUME [OpsNext]_vars
  PROVE  issued \subseteq issued'
BY DEF OpsNext, vars, mcVars, RequestedUnread, HandlerFails, Requested, Create, Preapproved, ApproveExpired, Reject, Options,
       Approve, OtherEndpoint, List, HandlerStep, WriteStore, Send, RunnerTakes,
       RunnerCallTimesOut, ListMaintains, ListBackfills, RunnerAnswers, Reply, DockerSteps,
       RunnerRestarts, MissionControlRestarts, RunnerTakesOrphan, HostTakes, HostFinishes,
       HostRestarts, Ages

LEMMA UnissuedStep ==
  ASSUME Unissued, VersionsDerive, [OpsNext]_vars
  PROVE  Unissued'
<1> SUFFICES ASSUME NEW s \in Versions', NEW o \in Ops, o \notin issued' PROVE s.status[o] = "absent"
  BY DEF Unissued
<1>1. PICK t \in Versions : Derived(t, s)
  BY DEF VersionsDerive
<1>2. t.status[o] = "absent"
  BY IssuedGrows DEF Unissued
<1>3. QED
  BY <1>1, <1>2 DEF Derived, StatusDerived

(* A success that is learned has happened: the file says so, or the call   *)
(* is recorded and a recorded call was performed.                          *)
LEMMA LearnedHappened ==
  ASSUME IInv, LaneInv, HostInv, ServedIsBusy, [OpsNext]_vars, NEW o \in Ops,
         Learned(o, "executed")
  PROVE  Happened(o)'
<1>1. CASE o \in DOMAIN results /\ results[o] = "executed"
  <2>1. Happened(o)
    BY <1>1, MissionControlAssumption DEF LaneInv, Happened
  <2>2. QED
    BY <2>1, HappenedStays
<1>2. ASSUME NEW h \in Threads, Waits(h), handler[h].op = o, h = servedFor, Record
      PROVE  Happened(o)'
  <2>1. busy.id = o
    BY <1>2, MissionControlAssumption DEF ServedIsBusy
  <2>2. busy \in Request /\ Recording(o) /\ effects' = effects
    BY <1>2, <2>1 DEF Record, IInv, TypeOK, Recording, dockerVars
  <2>3. o \in RequestIds
    BY <2>1, <2>2 DEF Request
  <2>4. effects[o] = lost[o] + forgotten[o] + One(o \in Recorded) + One(Recording(o))
    BY <2>3 DEF IInv, LedgerAccounts
  <2>5. lost[o] \in Nat /\ forgotten[o] \in Nat
    BY <2>3 DEF IInv, TypeOK, Counters
  <2>6. effects[o] > 0
    BY <2>2, <2>4, <2>5 DEF One
  <2>7. QED
    BY <2>2, <2>3, <2>6 DEF Happened
<1>3. QED
  BY <1>1, <1>2 DEF Learned

LEMMA ExecutedStep ==
  ASSUME IInv, LaneInv, HostInv, ServedIsBusy, VersionsDerive, ExecutedIsTrue, [OpsNext]_vars
  PROVE  ExecutedIsTrue'
<1> SUFFICES ASSUME NEW s \in Versions', NEW o \in Ops, s.status[o] = "executed"
             PROVE  Happened(o)'
  BY DEF ExecutedIsTrue
<1>1. PICK t \in Versions : Derived(t, s)
  BY DEF VersionsDerive
<1>2. CASE t.status[o] = "executed"
  BY <1>2, HappenedStays DEF ExecutedIsTrue
<1>3. CASE t.status[o] # "executed"
  <2>1. Learned(o, "executed")
    BY <1>1, <1>3 DEF Derived, StatusDerived, Outcomes
  <2>2. QED
    BY <2>1, LearnedHappened
<1>4. QED
  BY <1>2, <1>3

LEMMA ReportInit == OpsInit => ReportInv
<1> SUFFICES ASSUME OpsInit PROVE ReportInv
  OBVIOUS
<1>1. IInv /\ LaneInv
  BY InitInv, LaneInit DEF OpsInit
<1>2. HostInv
  BY MissionControlAssumption DEF OpsInit, HostInv, HostRunsAccounted, One
<1>3. \A h \in Threads : handler[h] = Idle
  BY DEF OpsInit
<1>4. \A s \in Versions, o \in Ops : s.status[o] = "absent"
  BY <1>3, VersionIs DEF OpsInit
<1>5. ServedIsBusy /\ Stamped /\ Unissued /\ ExecutedIsTrue
  BY <1>3, <1>4 DEF OpsInit, ServedIsBusy, Stamped, Hands, Waits, At, Unissued, ExecutedIsTrue
<1>6. QED
  BY <1>1, <1>2, <1>5 DEF ReportInv

LEMMA ReportNext == ReportInv /\ [OpsNext]_vars => ReportInv'
<1> SUFFICES ASSUME ReportInv, [OpsNext]_vars PROVE ReportInv'
  OBVIOUS
<1>1. IInv'
  BY StepIsRunnerStep, StepInv DEF ReportInv
<1>2. LaneInv' /\ HostInv' /\ ServedIsBusy' /\ Stamped'
  BY LaneNext, HostStep, ServedStep, StampedStep DEF ReportInv
<1>3. VersionsDerive
  BY StepDerives DEF ReportInv
<1>4. Unissued' /\ ExecutedIsTrue'
  BY <1>3, UnissuedStep, ExecutedStep DEF ReportInv
<1>5. QED
  BY <1>1, <1>2, <1>4 DEF ReportInv

(* The lane never reports a success that did not happen, in the store or   *)
(* in a stale copy that may still be written over it.                      *)
THEOREM ReportsAreTrue == OpsSpec => []ExecutedIsTrue
<1>1. ReportInv => ExecutedIsTrue
  BY DEF ReportInv
<1>2. QED
  BY <1>1, ReportInit, ReportNext, PTL DEF OpsSpec

(* What lost updates cannot do: every version of the store comes from one  *)
(* there was by moves of the operations' life cycle, whatever copies are   *)
(* written over it, except that a store that could not be read forgets     *)
(* what was on file.  A lost update takes an operation back; it never      *)
(* makes up a decision.                                                    *)
THEOREM NothingIsInvented ==
  OpsSpec => [][\A s \in Versions' : \E t \in Versions :
                  \A o \in Ops : Follows(t.status[o], s.status[o]) \/ (s.status[o] = "absent" /\ o \in unread')]_vars
<1>1. ReportInv /\ [OpsNext]_vars =>
        [\A s \in Versions' : \E t \in Versions :
           \A o \in Ops : Follows(t.status[o], s.status[o]) \/ (s.status[o] = "absent" /\ o \in unread')]_vars
  <2> SUFFICES ASSUME ReportInv, [OpsNext]_vars, NEW s \in Versions'
               PROVE  \E t \in Versions : \A o \in Ops : Follows(t.status[o], s.status[o]) \/ (s.status[o] = "absent" /\ o \in unread')
    OBVIOUS
  <2>1. PICK t \in Versions : Derived(t, s)
    BY StepDerives DEF ReportInv, VersionsDerive
  <2>2. \A o \in Ops : Follows(t.status[o], s.status[o]) \/ (s.status[o] = "absent" /\ o \in unread')
    BY <2>1 DEF Derived, StatusDerived, Follows
  <2>3. QED
    BY <2>2
<1>2. QED
  BY <1>1, ReportInit, ReportNext, PTL DEF OpsSpec

(* A challenge is drawn once, for one operation: every version of the      *)
(* store that knows it names the same one.                                 *)
DrawnOnce == \A s \in Versions : \A d \in s.challenges : d.id \in issued

NamesOne ==
  \A s, t \in Versions : \A d \in s.challenges, e \in t.challenges : d.id = e.id => d.op = e.op

LEMMA DrawnIs ==
  ASSUME LaneInv, NEW d, NEW e, Drawn(d), Drawn(e)
  PROVE  d.id = e.id /\ d.op = e.op /\ d.id \in issued' /\ d.id \notin issued
<1>1. PICK g \in Threads, p \in Ops, c \in Challenges : Options(g, p, c) /\ d = Challenge(c, p, FALSE)
  BY DEF Drawn
<1>2. PICK h \in Threads, o \in Ops, b \in Challenges : Options(h, o, b) /\ e = Challenge(b, o, FALSE)
  BY DEF Drawn
<1> DEFINE one == [store EXCEPT !.challenges = {x \in @ : ~x.used} \cup {Challenge(c, p, FALSE)}]
           two == [store EXCEPT !.challenges = {x \in @ : ~x.used} \cup {Challenge(b, o, FALSE)}]
<1>3. Start(g, p, one, "done") /\ Start(h, o, two, "done")
  BY <1>1, <1>2 DEF Options
<1> HIDE DEF one, two
<1>4. /\ handler[g] = Idle
      /\ handler' = [handler EXCEPT ![g] = [at |-> "write", op |-> p, copy |-> one, next |-> "done"]]
      /\ handler' = [handler EXCEPT ![h] = [at |-> "write", op |-> o, copy |-> two, next |-> "done"]]
  BY <1>3 DEF Start
<1>5. handler'[g].at = "write" /\ handler'[g].op = p /\ handler'[h].op = o
  BY <1>4 DEF LaneInv
<1>6. g # h => handler'[g] = Idle
  BY <1>4 DEF LaneInv
<1>7. \A a \in {"write"} : Idle # [at |-> a, op |-> p, copy |-> one, next |-> "done"]
  BY DEF Idle
<1>8. handler'[g] = [at |-> "write", op |-> p, copy |-> one, next |-> "done"]
  BY <1>4 DEF LaneInv
<1>9. g = h
  BY <1>6, <1>7, <1>8
<1>10. c \notin issued /\ b \notin issued /\ issued' = issued \cup {c} /\ issued' = issued \cup {b}
  BY <1>1, <1>2 DEF Options
<1>11. d.id = c /\ d.op = p /\ e.id = b /\ e.op = o
  BY <1>1, <1>2 DEF Challenge
<1>12. QED
  BY <1>5, <1>9, <1>10, <1>11

LEMMA ChallengesStep ==
  ASSUME LaneInv, VersionsDerive, DrawnOnce, NamesOne, [OpsNext]_vars
  PROVE  DrawnOnce' /\ NamesOne'
<1> DEFINE Old(d) == \E t \in Versions : \E x \in t.challenges : x.id = d.id /\ x.op = d.op
<1>1. ASSUME NEW s \in Versions', NEW d \in s.challenges PROVE Drawn(d) \/ Old(d)
  <2>1. PICK t \in Versions : Derived(t, s)
    BY DEF VersionsDerive
  <2>2. OpenDerived(t, d)
    BY <2>1 DEF Derived
  <2>3. QED
    BY <2>2 DEF OpenDerived
<1>2. ASSUME NEW d, Old(d) PROVE d.id \in issued
  BY <1>2 DEF DrawnOnce
<1>3. ASSUME NEW s \in Versions', NEW d \in s.challenges PROVE d.id \in issued'
  BY <1>1, <1>2, <1>3, IssuedGrows, DrawnIs
<1>4. ASSUME NEW s \in Versions', NEW t \in Versions', NEW d \in s.challenges,
             NEW e \in t.challenges, d.id = e.id
      PROVE  d.op = e.op
  <2>1. CASE Drawn(d) /\ Drawn(e)
    BY <2>1, DrawnIs
  <2>2. CASE Old(d) /\ Old(e)
    BY <1>4, <2>2 DEF NamesOne
  <2>3. ~(Drawn(d) /\ Old(e)) /\ ~(Drawn(e) /\ Old(d))
    BY <1>2, <1>4, DrawnIs
  <2>4. (Drawn(d) \/ Old(d)) /\ (Drawn(e) \/ Old(e))
    BY <1>1
  <2>5. QED
    BY <2>1, <2>2, <2>3, <2>4
<1>5. QED
  BY <1>3, <1>4 DEF DrawnOnce, NamesOne

(* A challenge that approves an operation never turns up as one that       *)
(* approves another, in no copy that any handler may yet write.            *)
THEOREM ChallengesNameOneOperation == OpsSpec => []NamesOne
<1> DEFINE Inv == ReportInv /\ DrawnOnce /\ NamesOne
<1>1. OpsInit => Inv
  <2> SUFFICES ASSUME OpsInit PROVE DrawnOnce /\ NamesOne
    BY ReportInit
  <2>1. \A s \in Versions : s.challenges = {}
    BY VersionIs DEF OpsInit
  <2>2. QED
    BY <2>1 DEF DrawnOnce, NamesOne
<1>2. Inv /\ [OpsNext]_vars => Inv'
  BY ReportNext, StepDerives, ChallengesStep DEF ReportInv
<1>3. Inv => NamesOne
  OBVIOUS
<1>4. QED
  BY <1>1, <1>2, <1>3, PTL DEF OpsSpec

(* The host runner executes a job once per result and once per restart in  *)
(* the middle of it, however often the job is handed over.                 *)
THEOREM HostRunsAreAccounted == OpsSpec => []HostRunsAccounted
<1>1. ReportInv => HostRunsAccounted
  BY DEF ReportInv, HostInv
<1>2. QED
  BY <1>1, ReportInit, ReportNext, PTL DEF OpsSpec

-----------------------------------------------------------------------------
(* Nothing reaches an executor that Mission Control did not hand over      *)

InRunner(o) ==
  effects[o] > 0 \/ abandoned[o] > 0 \/ (busy # Free /\ busy.id = o)

SentInv ==
  /\ sends \in [Ops -> Nat] /\ orphans \in [RequestIds -> Nat]
  /\ \A h \in Threads : Waits(h) => sends[handler[h].op] > 0
  /\ \A o \in RequestIds : InRunner(o) \/ orphans[o] > 0 => sends[o] > 0
  /\ \A o \in HostOps : (o \in jobs => sends[o] > 0) /\ (hostRuns[o] > 0 => o \in jobs)

LEMMA SentInit == OpsInit => SentInv
BY DEF OpsInit, Init, SentInv, Zero, Waits, At, InRunner

(* What the runner and Docker do to calls they already have.               *)
LEMMA RunnerKeeps ==
  ASSUME IInv, NEW o \in RequestIds, InRunner(o)',
         \/ DockerPerforms \/ DockerRefuses \/ DockerBreaks \/ Record \/ RecordFails \/ Crash
         \/ \E r \in RequestIds : DockerPerformsLate(r) \/ DockerDropsLate(r)
         \/ UNCHANGED runnerVars
  PROVE  InRunner(o)
<1>0. effects \in [RequestIds -> Nat] /\ abandoned \in [RequestIds -> Nat]
      /\ busy \in Request \cup {Free}
  BY DEF IInv, TypeOK, Counters
<1>1. CASE DockerPerforms
  <2>1. busy \in Request /\ busy # Free /\ abandoned' = abandoned
        /\ effects' = [effects EXCEPT ![busy.id] = @ + 1]
    BY <1>0, <1>1 DEF DockerPerforms, Bump
  <2>2. busy'.id = busy.id
    BY <1>1, <2>1 DEF DockerPerforms, Request
  <2>3. QED
    BY <1>0, <2>1, <2>2 DEF InRunner
<1>2. CASE DockerRefuses \/ Record \/ RecordFails
  BY <1>2 DEF DockerRefuses, Record, RecordFails, dockerVars, InRunner
<1>3. CASE DockerBreaks
  BY <1>0, <1>3 DEF DockerBreaks, Bump, InRunner
<1>4. CASE Crash
  BY <1>0, <1>4 DEF Crash, Bump, InRunner
<1>5. ASSUME NEW r \in RequestIds, DockerPerformsLate(r) \/ DockerDropsLate(r)
      PROVE  InRunner(o)
  BY <1>0, <1>5 DEF DockerPerformsLate, DockerDropsLate, Bump, Drop, InRunner
<1>6. CASE UNCHANGED runnerVars
  BY <1>6 DEF runnerVars, InRunner
<1>7. QED
  BY <1>1, <1>2, <1>3, <1>4, <1>5, <1>6

LEMMA RunnerGets ==
  ASSUME NEW o \in RequestIds, NEW p,
         BeginExecute("call", p, NoExec) \/ BeginUnread("call", p), InRunner(o)'
  PROVE  InRunner(o) \/ o = p
BY DEF BeginExecute, BeginUnread, Serve, dockerVars, InRunner

(* A step that hands nothing over.                                         *)
LEMMA KeepSent ==
  ASSUME SentInv, UNCHANGED <<sends, jobs>>, orphans' \in [RequestIds -> Nat],
         \A h \in Threads : Waits(h)' => Waits(h) /\ handler'[h].op = handler[h].op,
         \A o \in RequestIds : InRunner(o)' \/ orphans'[o] > 0
            => \/ InRunner(o) \/ orphans[o] > 0
               \/ \E h \in Threads : Waits(h) /\ handler[h].op = o,
         \A o \in HostOps : hostRuns'[o] > 0 => hostRuns[o] > 0 \/ o \in jobs
  PROVE  SentInv'
<1>1. \A h \in Threads : Waits(h)' => sends[handler[h].op] > 0 /\ handler'[h].op = handler[h].op
  BY DEF SentInv
<1>2. \A o \in RequestIds : InRunner(o)' \/ orphans'[o] > 0 => sends[o] > 0
  BY DEF SentInv
<1>3. \A o \in HostOps : (o \in jobs => sends[o] > 0) /\ (hostRuns'[o] > 0 => o \in jobs)
  BY DEF SentInv
<1>4. sends' = sends /\ jobs' = jobs /\ sends \in [Ops -> Nat]
  BY DEF SentInv
<1>5. QED
  BY <1>1, <1>2, <1>3, <1>4 DEF SentInv

LEMMA SentStep ==
  ASSUME IInv, LaneInv, ServedIsBusy, SentInv, [OpsNext]_vars
  PROVE  SentInv'
<1> USE DEF OnlyHandler, hostVars
<1>0. sends \in [Ops -> Nat] /\ orphans \in [RequestIds -> Nat]
  BY DEF SentInv
<1>1. ASSUME NEW h \in Threads, NEW next, handler' = [handler EXCEPT ![h] = next],
             next = Idle \/ next.at \notin {"queued", "serving"}
                \/ (Waits(h) /\ next.op = handler[h].op)
      PROVE  \A g \in Threads : Waits(g)' => Waits(g) /\ handler'[g].op = handler[g].op
  BY <1>1 DEF Waits, At, LaneInv
<1>2. ASSUME NEW h \in Threads, Requested(h) PROVE SentInv'
  <2>1. UNCHANGED <<sends, orphans, jobs, hostRuns, runnerVars>>
    BY <1>2 DEF Requested, Create, Preapproved, ApproveExpired, Reject, Options, Approve,
         OtherEndpoint, List
  <2>2. \E next : handler' = [handler EXCEPT ![h] = next] /\ next.at \in {"write", "maintain"}
    <3>1. ASSUME NEW o, NEW copy, NEW to, Start(h, o, copy, to)
          PROVE  \E next : handler' = [handler EXCEPT ![h] = next] /\ next.at \in {"write", "maintain"}
      <4> DEFINE work == [at |-> "write", op |-> o, copy |-> copy, next |-> to]
      <4>1. handler' = [handler EXCEPT ![h] = work] /\ work.at = "write"
        BY <3>1 DEF Start
      <4> HIDE DEF work
      <4>2. QED
        BY <4>1
    <3>2. CASE List(h)
      <4> DEFINE work == [at |-> IF Reconciled(store) = store THEN "maintain" ELSE "write",
                      op |-> CHOOSE p \in Ops : TRUE, copy |-> Reconciled(store),
                      next |-> "maintain"]
      <4>1. handler' = [handler EXCEPT ![h] = work] /\ work.at \in {"write", "maintain"}
        BY <3>2 DEF List
      <4> HIDE DEF work
      <4>2. QED
        BY <4>1
    <3>3. QED
      BY <1>2, <3>1, <3>2 DEF Requested, Create, Preapproved, ApproveExpired, Reject, Options,
           Approve, OtherEndpoint
  <2>3. \A o \in RequestIds : InRunner(o)' => InRunner(o)
    BY <2>1, RunnerKeeps
  <2>4. QED
    BY <1>0, <1>1, <2>1, <2>2, <2>3, KeepSent
<1>2a. ASSUME NEW h \in Threads, RequestedUnread(h) \/ HandlerFails(h) PROVE SentInv'
  <2>1. UNCHANGED <<sends, orphans, jobs, hostRuns, runnerVars>>
    BY <1>2a DEF RequestedUnread, HandlerFails
  <2>2. \A g \in Threads : Waits(g)' => Waits(g) /\ handler'[g].op = handler[g].op
    <3>1. CASE HandlerFails(h)
      BY <1>1, <3>1 DEF HandlerFails
    <3>2. CASE RequestedUnread(h)
      <4>1. PICK p, copy, next : Start(h, p, copy, next)
        BY <3>2, UnreadStarts
      <4> DEFINE work == [at |-> "write", op |-> p, copy |-> copy, next |-> next]
      <4>2. handler' = [handler EXCEPT ![h] = work] /\ work.at = "write"
        BY <4>1 DEF Start
      <4> HIDE DEF work
      <4>3. QED
        BY <1>1, <4>2
    <3>3. QED
      BY <1>2a, <3>1, <3>2
  <2>3. \A o \in RequestIds : InRunner(o)' => InRunner(o)
    BY <2>1, RunnerKeeps
  <2>4. QED
    BY <1>0, <2>1, <2>2, <2>3, KeepSent
<1>3. ASSUME NEW h \in Threads, WriteStore(h) \/ ListMaintains(h) \/ ListBackfills(h)
      PROVE  SentInv'
  <2>1. UNCHANGED <<sends, orphans, jobs, hostRuns, runnerVars>>
    BY <1>3 DEF WriteStore, ListMaintains, ListBackfills
  <2>2. handler[h] \in Working
    BY <1>3 DEF WriteStore, ListMaintains, ListBackfills, At, LaneInv
  <2>3. \A g \in Threads : Waits(g)' => Waits(g) /\ handler'[g].op = handler[g].op
    <3>1. ASSUME NEW place \in {"done", "send", "maintain", "backfill"}, Goto(h, place)
          PROVE  \A g \in Threads : Waits(g)' => Waits(g) /\ handler'[g].op = handler[g].op
      <4> DEFINE work == IF place = "done" THEN Idle ELSE [handler[h] EXCEPT !.at = place]
      <4>1. handler' = [handler EXCEPT ![h] = work]
        BY <3>1 DEF Goto
      <4>2. work = Idle \/ work.at = place
        BY <2>2 DEF Working
      <4> HIDE DEF work
      <4>3. QED
        BY <1>1, <4>1, <4>2
    <3>2. ASSUME NEW copy, NEW next, NEW at \in {"write", "backfill"},
                 handler' = [handler EXCEPT ![h] =
                               [@ EXCEPT !.copy = copy, !.next = next, !.at = at]]
          PROVE  \A g \in Threads : Waits(g)' => Waits(g) /\ handler'[g].op = handler[g].op
      <4> DEFINE work == [handler[h] EXCEPT !.copy = copy, !.next = next, !.at = at]
      <4>1. handler' = [handler EXCEPT ![h] = work]
        BY <3>2
      <4>2. work.at = at
        BY <2>2 DEF Working
      <4> HIDE DEF work
      <4>3. QED
        BY <1>1, <4>1, <4>2
    <3>3. CASE WriteStore(h)
      BY <3>1, <3>3, <2>2 DEF WriteStore, Working
    <3>4. CASE ListMaintains(h)
      BY <3>2, <3>4 DEF ListMaintains
    <3>5. CASE ListBackfills(h)
      <4>1. CASE Goto(h, "done")
        BY <3>1, <4>1
      <4> DEFINE work == [handler[h] EXCEPT !.at = "write", !.next = "done"]
      <4>2. CASE handler' = [handler EXCEPT ![h] = work]
        <5>1. work.at = "write"
          BY <2>2 DEF Working
        <5> HIDE DEF work
        <5>2. QED
          BY <1>1, <4>2, <5>1
      <4>3. QED
        BY <3>5, <4>1, <4>2 DEF ListBackfills
    <3>6. QED
      BY <1>3, <3>3, <3>4, <3>5
  <2>4. \A o \in RequestIds : InRunner(o)' => InRunner(o)
    BY <2>1, RunnerKeeps
  <2>5. QED
    BY <1>0, <2>1, <2>3, <2>4, KeepSent
<1>4. ASSUME NEW h \in Threads, Send(h) PROVE SentInv'
  <2> DEFINE o == handler[h].op
  <2>1. handler[h] \in Working /\ o \in Ops
    BY <1>4 DEF Send, At, LaneInv, Working
  <2>2. /\ sends' = [sends EXCEPT ![o] = @ + 1]
        /\ UNCHANGED <<orphans, hostRuns, runnerVars>>
        /\ jobs' = jobs \cup ({o} \cap HostOps)
    BY <1>4 DEF Send
  <2>3. sends' \in [Ops -> Nat] /\ sends'[o] > 0 /\ \A p \in Ops : sends'[p] >= sends[p]
    BY <1>0, <2>1, <2>2
  <2>4. \A g \in Threads : Waits(g)' =>
             \/ Waits(g) /\ handler'[g].op = handler[g].op
             \/ g = h /\ handler'[g].op = o
    BY <1>4, <2>1, IdleIsNot DEF Send, Goto, Waits, At, LaneInv, Working
  <2>5. \A g \in Threads : Waits(g)' => sends'[handler'[g].op] > 0
    <3>1. \A g \in Threads : Waits(g) => handler[g].op \in Ops
      BY DEF Waits, At, LaneInv, Working
    <3>2. \A g \in Threads : Waits(g) => sends'[handler[g].op] > 0
      BY <1>0, <2>3, <3>1 DEF SentInv
    <3>3. QED
      BY <2>3, <2>4, <3>2
  <2>6. \A p \in RequestIds : InRunner(p)' => InRunner(p)
    BY <2>2, RunnerKeeps
  <2>7. \A p \in RequestIds : InRunner(p)' \/ orphans'[p] > 0 => sends'[p] > 0
    BY <1>0, <2>2, <2>3, <2>6 DEF SentInv, Ops
  <2>8. \A p \in HostOps : (p \in jobs' => sends'[p] > 0) /\ (hostRuns'[p] > 0 => p \in jobs')
    BY <1>0, <2>2, <2>3 DEF SentInv, Ops
  <2>9. QED
    BY <1>0, <2>2, <2>3, <2>5, <2>7, <2>8 DEF SentInv
<1>5. ASSUME NEW h \in Threads, RunnerTakes(h) PROVE SentInv'
  <2>1. handler[h] \in Working /\ handler[h].op \in RequestIds /\ Waits(h)
    BY <1>5 DEF RunnerTakes, At, LaneInv, QueuedIsDocker, Waits
  <2>2. \A g \in Threads : Waits(g)' => Waits(g) /\ handler'[g].op = handler[g].op
    <3>1. [handler[h] EXCEPT !.at = "serving"].op = handler[h].op
          /\ Answered(h, "failed").at = "write"
      BY <2>1 DEF Answered, Working
    <3>2. \/ handler' = [handler EXCEPT ![h] = Answered(h, "failed")]
          \/ handler' = [handler EXCEPT ![h] = [handler[h] EXCEPT !.at = "serving"]]
      BY <1>5 DEF RunnerTakes, Goto
    <3> DEFINE answer == Answered(h, "failed")
    <3>3. CASE handler' = [handler EXCEPT ![h] = answer]
      <4>1. answer.at = "write"
        BY <3>1
      <4> HIDE DEF answer
      <4>2. QED
        BY <1>1, <3>3, <4>1
    <3> DEFINE work == [handler[h] EXCEPT !.at = "serving"]
    <3>4. CASE handler' = [handler EXCEPT ![h] = work]
      <4>1. work.op = handler[h].op
        BY <3>1
      <4> HIDE DEF work
      <4>2. QED
        BY <1>1, <2>1, <3>4, <4>1
    <3>5. QED
      BY <3>2, <3>3, <3>4
  <2>3. \A o \in RequestIds : InRunner(o)' => InRunner(o) \/ o = handler[h].op
    <3>1. CASE UNCHANGED runnerVars
      BY <3>1, RunnerKeeps
    <3>2. CASE BeginExecute("call", handler[h].op, NoExec) \/ BeginUnread("call", handler[h].op)
      BY <3>2, RunnerGets
    <3>3. QED
      BY <1>5, <3>1, <3>2 DEF RunnerTakes
  <2>4. UNCHANGED <<sends, orphans, jobs, hostRuns>>
    BY <1>5 DEF RunnerTakes
  <2>5. QED
    BY <1>0, <2>1, <2>2, <2>3, <2>4, KeepSent
<1>6. ASSUME NEW h \in Threads, RunnerCallTimesOut(h) PROVE SentInv'
  <2>1. handler[h] \in Working /\ Waits(h) /\ handler[h].op \in Ops
    BY <1>6 DEF RunnerCallTimesOut, At, LaneInv, Waits, Working
  <2>2. \A g \in Threads : Waits(g)' => Waits(g) /\ handler'[g].op = handler[g].op
    BY <1>6, <2>1 DEF RunnerCallTimesOut, Answered, Waits, At, LaneInv, Working
  <2>3. UNCHANGED <<sends, jobs, hostRuns, runnerVars>>
    BY <1>6 DEF RunnerCallTimesOut
  <2>4. \A o \in RequestIds : InRunner(o)' => InRunner(o)
    BY <2>3, RunnerKeeps
  <2>5. /\ orphans' \in [RequestIds -> Nat]
        /\ \A o \in RequestIds : orphans'[o] > 0 => orphans[o] > 0 \/ handler[h].op = o
    BY <1>0, <1>6 DEF RunnerCallTimesOut, Bump, LaneInv, QueuedIsDocker
  <2>6. QED
    BY <2>1, <2>2, <2>3, <2>4, <2>5, KeepSent
<1>7. CASE RunnerAnswers
  <2>1. /\ UNCHANGED <<sends, orphans, jobs, hostRuns>>
        /\ \A o \in RequestIds : InRunner(o)' => InRunner(o)
    BY <1>7, RunnerKeeps DEF RunnerAnswers, Reply
  <2>2. PICK status : Reply(status)
    BY <1>7 DEF RunnerAnswers
  <2>3. \A g \in Threads : Waits(g)' => Waits(g) /\ handler'[g].op = handler[g].op
    <3>1. ASSUME NEW g \in Threads, g = servedFor PROVE ~Waits(g)'
      <4>1. handler[g] \in Working
        BY <3>1, MissionControlAssumption DEF LaneInv, ServedWaits, At
      <4>2. handler'[g] = Answered(g, status) /\ Answered(g, status).at = "write"
        BY <2>2, <3>1, <4>1 DEF Reply, Answered, Working
      <4>3. QED
        BY <4>2 DEF Waits, At
    <3>2. ASSUME NEW g \in Threads, g # servedFor PROVE handler'[g] = handler[g]
      BY <2>2, <3>2 DEF Reply
    <3>3. QED
      BY <3>1, <3>2 DEF Waits, At
  <2>4. QED
    BY <1>0, <2>1, <2>3, KeepSent
<1>8. CASE DockerSteps
  <2>1. /\ UNCHANGED <<sends, orphans, handler, jobs, hostRuns>>
        /\ \A o \in RequestIds : InRunner(o)' => InRunner(o)
    BY <1>8, RunnerKeeps DEF DockerSteps, mcVars
  <2>2. QED
    BY <1>0, <2>1, KeepSent DEF Waits, At
<1>9. CASE RunnerRestarts
  <2>1. /\ UNCHANGED <<sends, jobs, hostRuns>> /\ orphans' = Zero
        /\ \A o \in RequestIds : InRunner(o)' => InRunner(o)
    BY <1>9, RunnerKeeps DEF RunnerRestarts
  <2>2. \A g \in Threads : Waits(g)' => Waits(g) /\ handler'[g].op = handler[g].op
    <3>1. ASSUME NEW g \in Threads, Waits(g) PROVE ~Waits(g)'
      <4>1. handler[g] \in Working
        BY <3>1 DEF LaneInv, Waits, At
      <4>2. handler'[g] = Answered(g, "unknown") /\ Answered(g, "unknown").at = "write"
        BY <1>9, <3>1, <4>1 DEF RunnerRestarts, Answered, Working, Waits
      <4>3. QED
        BY <4>2 DEF Waits, At
    <3>2. ASSUME NEW g \in Threads, ~Waits(g) PROVE handler'[g] = handler[g]
      BY <1>9, <3>2 DEF RunnerRestarts, Waits
    <3>3. QED
      BY <3>1, <3>2 DEF Waits, At
  <2>3. orphans' \in [RequestIds -> Nat] /\ \A o \in RequestIds : orphans'[o] = 0
    BY <2>1 DEF Zero
  <2>4. QED
    BY <2>1, <2>2, <2>3, KeepSent
<1>10. CASE MissionControlRestarts
  <2>1. UNCHANGED <<sends, jobs, hostRuns, runnerVars>> /\ \A g \in Threads : ~Waits(g)'
    BY <1>10 DEF MissionControlRestarts, Waits, At
  <2> DEFINE W(o) == {h \in Threads : At(h, "queued") /\ handler[h].op = o}
  <2>2. orphans' = [o \in RequestIds |-> orphans[o] + Cardinality(W(o))]
    BY <1>10 DEF MissionControlRestarts
  <2>3. \A o \in RequestIds : /\ Cardinality(W(o)) \in Nat
                              /\ W(o) = {} => Cardinality(W(o)) = 0
    <3>1. \A o \in RequestIds : IsFiniteSet(W(o))
      BY MissionControlAssumption, FS_Subset
    <3>2. QED
      BY <3>1, FS_CardinalityType, FS_EmptySet
  <2>4. \A o \in RequestIds : W(o) # {} => \E h \in Threads : Waits(h) /\ handler[h].op = o
    BY DEF Waits
  <2>5. \A o \in RequestIds : InRunner(o)' => InRunner(o)
    BY <2>1, RunnerKeeps
  <2> HIDE DEF W
  <2>6. /\ orphans' \in [RequestIds -> Nat]
        /\ \A o \in RequestIds : orphans'[o] > 0 => orphans[o] > 0 \/ W(o) # {}
    BY <1>0, <2>2, <2>3
  <2>7. QED
    BY <2>1, <2>4, <2>5, <2>6, KeepSent
<1>11. ASSUME NEW r \in RequestIds, RunnerTakesOrphan(r) PROVE SentInv'
  <2>1. /\ orphans[r] > 0 /\ orphans' = Drop(orphans, r)
        /\ UNCHANGED <<sends, handler, jobs, hostRuns>>
    BY <1>11 DEF RunnerTakesOrphan
  <2>2. \A o \in RequestIds : InRunner(o)' => InRunner(o) \/ o = r
    <3>1. CASE UNCHANGED runnerVars
      BY <3>1, RunnerKeeps
    <3>2. CASE BeginExecute("call", r, NoExec) \/ BeginUnread("call", r)
      BY <3>2, RunnerGets
    <3>3. QED
      BY <1>11, <3>1, <3>2 DEF RunnerTakesOrphan
  <2>3. /\ orphans' \in [RequestIds -> Nat]
        /\ \A o \in RequestIds : orphans'[o] > 0 => orphans[o] > 0
    BY <1>0, <2>1 DEF Drop
  <2>4. QED
    BY <2>1, <2>2, <2>3, KeepSent DEF Waits, At
<1>12. ASSUME NEW o \in HostOps, HostTakes(o) PROVE SentInv'
  <2>1. /\ UNCHANGED <<sends, orphans, handler, jobs, runnerVars>>
        /\ o \in jobs /\ hostRuns' = [hostRuns EXCEPT ![o] = @ + 1]
    BY <1>12 DEF HostTakes, mcVars
  <2>2. \A p \in HostOps : hostRuns'[p] > 0 => hostRuns[p] > 0 \/ p \in jobs
    BY <2>1
  <2>3. \A p \in RequestIds : InRunner(p)' => InRunner(p)
    BY <2>1, RunnerKeeps
  <2>4. QED
    BY <1>0, <2>1, <2>2, <2>3, KeepSent DEF Waits, At
<1>13. CASE \/ HostFinishes \/ HostRestarts \/ UNCHANGED vars
            \/ \E o \in Ops : Ages(o)
  <2>1. UNCHANGED <<sends, orphans, handler, jobs, hostRuns, runnerVars>>
    BY <1>13 DEF HostFinishes, HostRestarts, Ages, vars, mcVars
  <2>2. \A p \in RequestIds : InRunner(p)' => InRunner(p)
    BY <2>1, RunnerKeeps
  <2>3. QED
    BY <1>0, <2>1, <2>2, KeepSent DEF Waits, At
<1>14. QED
  BY <1>2, <1>2a, <1>3, <1>4, <1>5, <1>6, <1>7, <1>8, <1>9, <1>10, <1>11, <1>12, <1>13
  DEF OpsNext, HandlerStep

(* An outcome is told only of what was handed over.                        *)
OutcomesSent == \A s \in Versions, o \in Ops : s.status[o] \in Outcomes => sends[o] > 0

LEMMA OutcomesStep ==
  ASSUME ReportInv, SentInv, OutcomesSent, [OpsNext]_vars, SentInv'
  PROVE  OutcomesSent'
<1> SUFFICES ASSUME NEW s \in Versions', NEW o \in Ops, s.status[o] \in Outcomes
             PROVE  sends'[o] > 0
  BY DEF OutcomesSent
<1>1. sends[o] > 0 => sends'[o] > 0
  <2>1. ASSUME NEW h \in Threads, Send(h) PROVE \E p : sends' = [sends EXCEPT ![p] = @ + 1]
    BY <2>1 DEF Send
  <2>2. sends' = sends \/ \E h \in Threads : Send(h)
    BY DEF OpsNext, vars, mcVars, RequestedUnread, HandlerFails, Requested, Create, Preapproved,
           ApproveExpired, Reject, Options, Approve, OtherEndpoint, List, HandlerStep, WriteStore, RunnerTakes, OnlyHandler,
           RunnerCallTimesOut, ListMaintains, ListBackfills, RunnerAnswers, Reply, DockerSteps,
           RunnerRestarts, MissionControlRestarts, RunnerTakesOrphan, HostTakes, HostFinishes,
           HostRestarts, Ages
  <2>3. QED
    BY <2>1, <2>2 DEF SentInv
<1>2. PICK t \in Versions : Derived(t, s)
  BY StepDerives DEF ReportInv, VersionsDerive
<1>3. CASE t.status[o] = s.status[o]
  BY <1>1, <1>3 DEF OutcomesSent
<1>4. CASE Learned(o, s.status[o])
  <2>1. CASE o \in DOMAIN results
    <3>1. o \in HostOps /\ hostRuns[o] > 0
      BY <2>1 DEF ReportInv, LaneInv, HostInv, HostRunsAccounted, One
    <3>2. QED
      BY <1>1, <3>1 DEF SentInv
  <2>2. CASE \E h \in Threads : Waits(h) /\ handler[h].op = o
    BY <1>1, <2>2 DEF SentInv
  <2>3. QED
    BY <1>4, <2>1, <2>2 DEF Learned
<1>5. QED
  BY <1>2, <1>3, <1>4 DEF Derived, StatusDerived, Outcomes

(* No version of the store tells an outcome of an operation that Mission   *)
(* Control never handed to its executor.                                   *)
THEOREM OutcomesAreOfHandOvers == OpsSpec => []OutcomesSent
<1> DEFINE Inv == ReportInv /\ SentInv /\ OutcomesSent
<1>1. OpsInit => Inv
  <2> SUFFICES ASSUME OpsInit PROVE OutcomesSent
    BY ReportInit, SentInit
  <2>1. \A s \in Versions, o \in Ops : s.status[o] = "absent"
    BY VersionIs DEF OpsInit
  <2>2. QED
    BY <2>1 DEF OutcomesSent, Outcomes
<1>2. Inv /\ [OpsNext]_vars => Inv'
  BY ReportNext, SentStep, OutcomesStep DEF ReportInv
<1>3. Inv => OutcomesSent
  OBVIOUS
<1>4. QED
  BY <1>1, <1>2, <1>3, PTL DEF OpsSpec

(* Whatever the number of threads, an executor acts only on an operation   *)
(* that Mission Control handed over: stale requests, orphans of a restart  *)
(* and calls Docker performs late come from a hand-over.                   *)
THEOREM ActsOnHandOversOnly == OpsSpec => [](\A o \in Ops : Ran(o) => sends[o] > 0)
<1>1. ReportInv /\ SentInv /\ [OpsNext]_vars => (ReportInv /\ SentInv)'
  BY ReportNext, SentStep DEF ReportInv
<1>2. ReportInv /\ SentInv => \A o \in Ops : Ran(o) => sends[o] > 0
  BY DEF SentInv, Ran, InRunner, Ops
<1>3. QED
  BY <1>1, <1>2, ReportInit, SentInit, PTL DEF OpsSpec
=============================================================================
