------------------------------ MODULE SiteLock ------------------------------
(***************************************************************************)
(* withSiteLock of browser-intent/worker/worker.js: the lock that makes    *)
(* the calls on one site take turns.  It is a chain of promises: a call    *)
(* waits for the promise that was last in the chain when it came, whether  *)
(* that one is fulfilled or rejected, and siteLocks remembers the last.    *)
(* When a promise settles it removes itself from siteLocks, in a later     *)
(* turn of the event loop and only if it is still the last one.            *)
(*                                                                         *)
(* Sites do not share state, so the module is about one of them.  A call   *)
(* id stands for the promise of one call at a time.                        *)
(***************************************************************************)
EXTENDS Sequences, Naturals

CONSTANTS
  Calls,    \* calls in flight, and their promises
  NoCall    \* no promise

ASSUME SiteLockAssumption == NoCall \notin Calls

VARIABLES
  phase,    \* per call, where it is
  pred,     \* per call, the promise it was chained to (prev)
  tail,     \* siteLocks.get(siteId)
  line      \* history: calls that have not finished, in order of arrival

lockVars == <<phase, pred, tail, line>>

Phases   == {"idle", "waiting", "running", "fulfilled", "rejected"}
Settled  == {"fulfilled", "rejected"}
Running(c) == phase[c] = "running"

LockTypeOK ==
  /\ phase \in [Calls -> Phases]
  /\ pred \in [Calls -> Calls \cup {NoCall}]
  /\ tail \in Calls \cup {NoCall}
  /\ line \in Seq(Calls)

LockInit ==
  /\ phase = [c \in Calls |-> "idle"]
  /\ pred = [c \in Calls |-> NoCall]
  /\ tail = NoCall /\ line = <<>>

(* prev is the last promise, or a resolved one.                            *)
Enter(c) ==
  /\ phase[c] = "idle"
  /\ phase' = [phase EXCEPT ![c] = "waiting"]
  /\ pred' = [pred EXCEPT ![c] = tail]
  /\ tail' = c
  /\ line' = Append(line, c)

(* Mutant: chained with prev.then(fn) alone, a call whose predecessor      *)
(* throws never starts.                                                    *)
PrevFulfilled(c) == pred[c] # NoCall => phase[pred[c]] = "fulfilled"

(* prev.catch(() => {}): how the predecessor ended does not matter.        *)
PrevSettled(c) == pred[c] # NoCall => phase[pred[c]] \in Settled

Start(c) ==
  /\ phase[c] = "waiting" /\ PrevSettled(c)
  /\ phase' = [phase EXCEPT ![c] = "running"]
  /\ pred' = [pred EXCEPT ![c] = NoCall]
  /\ UNCHANGED <<tail, line>>

Finish(c, outcome) ==
  /\ Running(c)
  /\ phase' = [phase EXCEPT ![c] = outcome]
  /\ line' = Tail(line)
  /\ UNCHANGED <<pred, tail>>

(* Mutant: the last promise is removed by whoever finishes.                *)
ForgetAny(c) ==
  /\ phase[c] \in Settled
  /\ \A d \in Calls : phase[d] = "waiting" => pred[d] # c
  /\ phase' = [phase EXCEPT ![c] = "idle"]
  /\ tail' = NoCall
  /\ UNCHANGED <<pred, line>>

(* The promise removes itself if it is the last.  Its id is used again     *)
(* when the call chained to it, if any, has started.                       *)
Forget(c) ==
  /\ phase[c] \in Settled
  /\ \A d \in Calls : phase[d] = "waiting" => pred[d] # c
  /\ phase' = [phase EXCEPT ![c] = "idle"]
  /\ tail' = IF tail = c THEN NoCall ELSE tail
  /\ UNCHANGED <<pred, line>>

LockNext ==
  \E c \in Calls :
    \/ Enter(c) \/ Start(c) \/ Forget(c)
    \/ \E outcome \in Settled : Finish(c, outcome)

LockSpec == LockInit /\ [][LockNext]_lockVars

-----------------------------------------------------------------------------
(* The call whose turn it is.                                              *)
Active ==
  IF \E c \in Calls : Running(c) THEN CHOOSE c \in Calls : Running(c) ELSE NoCall

Fifo == INSTANCE FifoLock WITH Customers <- Calls, Nobody <- NoCall,
                               queue <- line, active <- Active

(* The chain of promises is a first-come, first-served queue with one      *)
(* call in service, whatever becomes of the promises.                      *)
ChainIsAQueue == Fifo!FifoSpec

(* Calls run one at a time and in the order in which they came.            *)
ServedInOrder == \A c \in Calls : Running(c) => line # <<>> /\ c = Head(line)
=============================================================================
