------------------------ MODULE BrowserWorkerProofs ------------------------
(***************************************************************************)
(* Proofs about the browser worker and its site lock, for any number of    *)
(* calls, browsers and limits.                                             *)
(*                                                                         *)
(* The lock: the chain of promises is a first-come, first-served queue     *)
(* with one call in service.  The invariant says how the chain (pred,      *)
(* tail) and the queue (line) agree: each call in the queue but the first  *)
(* is chained to the one before it, so it cannot start before that one has *)
(* settled.  What is proved of the lock alone holds in the worker, because *)
(* no handler touches the chain but by coming, starting, ending or being   *)
(* forgotten.                                                              *)
(*                                                                         *)
(* The sessions: only one call runs, so what it knew before an await is    *)
(* still so after it, but for what the sweep and Chromium did meanwhile.   *)
(* Sound says, for each await, which of its call's knowledge is left.      *)
(***************************************************************************)
EXTENDS BrowserWorker, TLAPS

-----------------------------------------------------------------------------
(* The lock.                                                               *)

Pending(c) == phase[c] \in {"waiting", "running"}

LineIsPending ==
  /\ \A i, j \in 1..Len(line) : line[i] = line[j] => i = j
  /\ \A c \in Calls : Pending(c) <=> \E i \in 1..Len(line) : line[i] = c

ChainedInLine ==
  \A i \in 2..Len(line) : phase[line[i]] = "waiting" /\ pred[line[i]] = line[i - 1]

HeadMayRun ==
  line # <<>> => phase[Head(line)] = "running" \/ PrevSettled(Head(line))

TailIsLast ==
  IF line = <<>> THEN tail = NoCall \/ phase[tail] \in Settled ELSE tail = line[Len(line)]

LockInv == LockTypeOK /\ LineIsPending /\ ChainedInLine /\ HeadMayRun /\ TailIsLast

-----------------------------------------------------------------------------

LEMMA LockInvInit == LockInit => LockInv
  BY SiteLockAssumption
  DEF LockInit, LockInv, LockTypeOK, LineIsPending, ChainedInLine, HeadMayRun, TailIsLast,
      Pending, Phases

LEMMA EnterKeepsInv ==
  ASSUME LockInv, NEW c \in Calls, Enter(c) PROVE LockInv'
<1> USE DEF LockInv, Enter
<1> DEFINE n == Len(line)
<1>0. /\ n \in Nat /\ line \in Seq(Calls) /\ line' \in Seq(Calls) /\ Len(line') = n + 1
      /\ line'[n + 1] = c /\ \A i \in 1..n : line'[i] = line[i] /\ line[i] \in Calls
  BY DEF LockTypeOK
<1>1. LockTypeOK'
  BY <1>0 DEF LockTypeOK, Phases
<1>2. \A i \in 1..n : line[i] # c /\ Pending(line[i])
  BY <1>0 DEF LineIsPending, Pending
<1>3. \A d \in Calls : d # c => phase'[d] = phase[d] /\ pred'[d] = pred[d]
  BY DEF LockTypeOK
<1>4. phase'[c] = "waiting" /\ pred'[c] = tail /\ phase[c] = "idle"
  BY DEF LockTypeOK
<1>5. LineIsPending'
  <2>1. \A i, j \in 1..Len(line') : line'[i] = line'[j] => i = j
    BY <1>0, <1>2 DEF LineIsPending
  <2>2. ASSUME NEW d \in Calls PROVE Pending(d)' <=> \E i \in 1..Len(line') : line'[i] = d
    <3>1. CASE d = c
      BY <3>1, <1>0, <1>4 DEF Pending
    <3>2. CASE d # c
      BY <3>2, <1>0, <1>3 DEF Pending, LineIsPending
    <3> QED BY <3>1, <3>2
  <2> QED BY <2>1, <2>2 DEF LineIsPending
<1>6. ChainedInLine'
  <2> SUFFICES ASSUME NEW i \in 2..(n + 1)
               PROVE  phase'[line'[i]] = "waiting" /\ pred'[line'[i]] = line'[i - 1]
    BY <1>0 DEF ChainedInLine
  <2>1. CASE i = n + 1
    BY <2>1, <1>0, <1>4 DEF TailIsLast
  <2>2. CASE i # n + 1
    BY <2>2, <1>0, <1>2, <1>3 DEF ChainedInLine
  <2> QED BY <2>1, <2>2
<1>7. HeadMayRun'
  <2>1. CASE line = <<>>
    BY <2>1, <1>0, <1>3, <1>4, SiteLockAssumption
    DEF HeadMayRun, PrevSettled, TailIsLast, Settled, LockTypeOK
  <2>2. CASE line # <<>>
    <3>1. Head(line') = line[1] /\ Head(line) = line[1] /\ line[1] \in Calls /\ line[1] # c
      BY <2>2, <1>0, <1>2
    <3>2. phase'[line[1]] = phase[line[1]] /\ pred'[line[1]] = pred[line[1]]
      BY <3>1, <1>3
    <3>3. pred[line[1]] # NoCall /\ phase[pred[line[1]]] \in Settled
            => phase'[pred[line[1]]] \in Settled
      BY <3>1, <1>3, <1>4 DEF LockTypeOK, Settled
    <3> QED BY <2>2, <3>1, <3>2, <3>3 DEF HeadMayRun, PrevSettled
  <2> QED BY <2>1, <2>2
<1>8. TailIsLast'
  BY <1>0 DEF TailIsLast
<1> QED BY <1>1, <1>5, <1>6, <1>7, <1>8

(* Only the head of the queue can start.                                   *)
LEMMA StarterIsHead ==
  ASSUME LockInv, NEW c \in Calls, Start(c)
  PROVE  line # <<>> /\ c = Head(line) /\ c = line[1]
<1> USE DEF LockInv
<1>1. PICK i \in 1..Len(line) : line[i] = c
  BY DEF Start, LineIsPending, Pending
<1>2. i = 1
  <2> SUFFICES ASSUME i # 1 PROVE FALSE
    OBVIOUS
  <2>1. i \in 2..Len(line) /\ i - 1 \in 1..Len(line)
    BY <1>1 DEF LockTypeOK
  <2>2. pred[c] = line[i - 1]
    BY <2>1, <1>1 DEF ChainedInLine
  <2>3. line[i - 1] \in Calls /\ Pending(line[i - 1])
    BY <2>1 DEF LineIsPending, LockTypeOK
  <2> QED BY <2>2, <2>3, SiteLockAssumption DEF Start, PrevSettled, Pending, Settled
<1> QED BY <1>1, <1>2 DEF LockTypeOK

LEMMA StartKeepsInv ==
  ASSUME LockInv, NEW c \in Calls, Start(c) PROVE LockInv'
<1>0. line # <<>> /\ c = Head(line) /\ c = line[1]
  BY StarterIsHead
<1> USE DEF LockInv, Start
<1>1. LockTypeOK'
  BY DEF LockTypeOK, Phases
<1>2. \A d \in Calls : d # c => phase'[d] = phase[d] /\ pred'[d] = pred[d]
  BY DEF LockTypeOK
<1>3. phase'[c] = "running"
  BY DEF LockTypeOK
<1>4. LineIsPending'
  BY <1>2, <1>3 DEF LineIsPending, Pending
<1>5. \A i \in 2..Len(line) : line[i] # c /\ line[i] \in Calls
  BY <1>0 DEF LineIsPending, LockTypeOK
<1>6. ChainedInLine'
  BY <1>2, <1>5 DEF ChainedInLine
<1>7. HeadMayRun'
  BY <1>0, <1>3 DEF HeadMayRun
<1>8. TailIsLast'
  BY <1>0 DEF TailIsLast
<1> QED BY <1>1, <1>4, <1>6, <1>7, <1>8

(* Only the head of the queue runs.                                        *)
LEMMA RunnerIsHead ==
  ASSUME LockInv, NEW c \in Calls, Running(c)
  PROVE  line # <<>> /\ c = Head(line) /\ c = line[1]
<1> USE DEF LockInv
<1>1. PICK i \in 1..Len(line) : line[i] = c
  BY DEF Running, LineIsPending, Pending
<1>2. i = 1
  BY <1>1 DEF ChainedInLine, Running, LockTypeOK
<1> QED BY <1>1, <1>2 DEF LockTypeOK

LEMMA FinishKeepsInv ==
  ASSUME LockInv, NEW c \in Calls, NEW outcome \in Settled, Finish(c, outcome) PROVE LockInv'
<1> DEFINE n == Len(line)
<1>0. line # <<>> /\ c = Head(line) /\ c = line[1]
  BY RunnerIsHead DEF Finish
<1> USE DEF LockInv, Finish
<1>1. /\ n \in Nat \ {0} /\ line' \in Seq(Calls) /\ Len(line') = n - 1
      /\ \A i \in 1..(n - 1) : line'[i] = line[i + 1]
      /\ \A i \in 1..n : line[i] \in Calls
  BY <1>0 DEF LockTypeOK
<1>2. LockTypeOK'
  BY <1>1 DEF LockTypeOK, Phases, Settled
<1>3. \A d \in Calls : d # c => phase'[d] = phase[d]
  BY DEF LockTypeOK
<1>4. phase'[c] = outcome /\ pred' = pred /\ tail' = tail
  BY DEF LockTypeOK
<1>5. \A i \in 1..(n - 1) : line'[i] # c
  BY <1>0, <1>1 DEF LineIsPending
<1>6. LineIsPending'
  <2>1. \A i, j \in 1..Len(line') : line'[i] = line'[j] => i = j
    <3> SUFFICES ASSUME NEW i \in 1..(n - 1), NEW j \in 1..(n - 1), line'[i] = line'[j]
                 PROVE  i = j
      BY <1>1
    <3>1. i + 1 \in 1..n /\ j + 1 \in 1..n /\ line[i + 1] = line[j + 1]
      BY <1>1
    <3> QED BY <3>1 DEF LineIsPending
  <2>2. ASSUME NEW d \in Calls PROVE Pending(d)' <=> \E i \in 1..Len(line') : line'[i] = d
    <3>1. CASE d = c
      BY <3>1, <1>1, <1>4, <1>5 DEF Pending, Settled
    <3>2. CASE d # c
      <4>1. Pending(d)' <=> \E i \in 1..n : line[i] = d
        BY <3>2, <1>3 DEF Pending, LineIsPending
      <4>2. ASSUME NEW i \in 1..n, line[i] = d PROVE \E j \in 1..(n - 1) : line'[j] = d
        <5>1. i # 1
          BY <4>2, <3>2, <1>0
        <5>2. i - 1 \in 1..(n - 1) /\ line'[i - 1] = line[(i - 1) + 1] /\ (i - 1) + 1 = i
          BY <5>1, <1>1
        <5> QED BY <5>2, <4>2
      <4>3. ASSUME NEW i \in 1..(n - 1), line'[i] = d PROVE \E j \in 1..n : line[j] = d
        BY <4>3, <1>1
      <4> QED BY <4>1, <4>2, <4>3, <1>1
    <3> QED BY <3>1, <3>2
  <2> QED BY <2>1, <2>2 DEF LineIsPending
<1>7. ChainedInLine'
  <2> SUFFICES ASSUME NEW i \in 2..(n - 1)
               PROVE  phase'[line'[i]] = "waiting" /\ pred'[line'[i]] = line'[i - 1]
    BY <1>1 DEF ChainedInLine
  <2>1. i + 1 \in 2..n /\ line'[i] = line[i + 1] /\ line'[i - 1] = line[i] /\ (i + 1) - 1 = i
    BY <1>1
  <2>2. line'[i] # c /\ line'[i] \in Calls
    BY <2>1, <1>1, <1>5
  <2> QED BY <2>1, <2>2, <1>3, <1>4 DEF ChainedInLine
<1>8. HeadMayRun'
  <2> SUFFICES ASSUME line' # <<>> PROVE PrevSettled(Head(line))'
    BY DEF HeadMayRun
  <2>1. n >= 2 /\ Head(line') = line[2] /\ 2 \in 2..n
    BY <1>1
  <2>2. pred[line[2]] = c
    BY <2>1, <1>0 DEF ChainedInLine
  <2> QED BY <2>1, <2>2, <1>4 DEF PrevSettled
<1>9. TailIsLast'
  <2>1. CASE n = 1
    BY <2>1, <1>0, <1>1, <1>4 DEF TailIsLast
  <2>2. CASE n # 1
    <3>1. n - 1 \in 1..(n - 1) /\ line'[n - 1] = line[(n - 1) + 1] /\ (n - 1) + 1 = n
      BY <2>2, <1>1
    <3>2. tail = line[n]
      BY <1>0 DEF TailIsLast
    <3>3. line' # <<>>
      <4> HIDE DEF Finish
      <4> QED BY <2>2, <1>1
    <3>4. Len(line') = n - 1 /\ tail' = line'[n - 1]
      BY <3>1, <3>2, <1>1, <1>4
    <3> QED BY <3>3, <3>4 DEF TailIsLast
  <2> QED BY <2>1, <2>2
<1> QED BY <1>2, <1>6, <1>7, <1>8, <1>9

LEMMA ForgetKeepsInv ==
  ASSUME LockInv, NEW c \in Calls, Forget(c) PROVE LockInv'
<1> USE DEF LockInv, Forget
<1>1. LockTypeOK'
  BY DEF LockTypeOK, Phases
<1>2. \A d \in Calls : d # c => phase'[d] = phase[d]
  BY DEF LockTypeOK
<1>3. phase'[c] = "idle" /\ ~Pending(c) /\ pred' = pred /\ line' = line
  BY DEF LockTypeOK, Pending, Settled
<1>4. LineIsPending'
  BY <1>2, <1>3 DEF LineIsPending, Pending
<1>5. \A i \in 1..Len(line) : line[i] \in Calls /\ Pending(line[i]) /\ line[i] # c
  BY <1>3 DEF LineIsPending, LockTypeOK
<1>6. ChainedInLine'
  <2> SUFFICES ASSUME NEW i \in 2..Len(line)
               PROVE  phase'[line[i]] = "waiting" /\ pred'[line[i]] = line[i - 1]
    BY <1>3 DEF ChainedInLine
  <2> QED BY <1>2, <1>3, <1>5 DEF ChainedInLine, LockTypeOK
<1>7. HeadMayRun'
  <2> SUFFICES ASSUME line # <<>> PROVE phase'[line[1]] = "running" \/ PrevSettled(line[1])'
    BY <1>3 DEF HeadMayRun, LockTypeOK
  <2>1. 1 \in 1..Len(line) /\ Head(line) = line[1]
    BY DEF LockTypeOK
  <2>2. phase'[line[1]] = phase[line[1]] /\ pred'[line[1]] = pred[line[1]]
    BY <2>1, <1>2, <1>3, <1>5
  <2>3. CASE phase[line[1]] = "running"
    BY <2>2, <2>3
  <2>4. CASE phase[line[1]] # "running"
    <3>1. phase[line[1]] = "waiting" /\ PrevSettled(line[1])
      BY <2>1, <2>4, <1>5 DEF HeadMayRun, Pending
    <3>2. pred[line[1]] # c
      BY <3>1, <2>1, <1>5
    <3> QED BY <3>1, <3>2, <2>1, <2>2, <1>2, <1>5 DEF PrevSettled, LockTypeOK
  <2> QED BY <2>3, <2>4
<1>8. TailIsLast'
  <2>1. CASE line = <<>>
    BY <2>1, <1>2, <1>3 DEF TailIsLast, LockTypeOK
  <2>2. CASE line # <<>>
    <3>1. Len(line) \in 1..Len(line)
      BY <2>2 DEF LockTypeOK
    <3> QED BY <2>2, <3>1, <1>3, <1>5 DEF TailIsLast
  <2> QED BY <2>1, <2>2
<1> QED BY <1>1, <1>4, <1>6, <1>7, <1>8

LEMMA LockInvStep == LockInv /\ [LockNext]_lockVars => LockInv'
<1> SUFFICES ASSUME LockInv, [LockNext]_lockVars PROVE LockInv'
  OBVIOUS
<1>1. CASE LockNext
  BY <1>1, EnterKeepsInv, StartKeepsInv, FinishKeepsInv, ForgetKeepsInv DEF LockNext
<1>2. CASE UNCHANGED lockVars
  BY <1>2 DEF lockVars, LockInv, LockTypeOK, LineIsPending, ChainedInLine, HeadMayRun,
     TailIsLast, Pending, PrevSettled
<1> QED BY <1>1, <1>2

(* The chain and the queue agree at all times.                             *)
THEOREM LockInvariance == LockSpec => []LockInv
  BY LockInvInit, LockInvStep, PTL DEF LockSpec

(* Calls on a site run one at a time, in the order in which they came,     *)
(* whether the calls before them returned or threw.                        *)
THEOREM CallsTakeTurns == LockSpec => []ServedInOrder
<1>1. LockInv => ServedInOrder
  BY RunnerIsHead DEF ServedInOrder
<1> QED BY <1>1, LockInvariance, PTL

-----------------------------------------------------------------------------
(* The chain implements the queue                                          *)

LEMMA ActiveIsRunner ==
  ASSUME LockInv, NEW c \in Calls, Running(c) PROVE Active = c
<1>1. \A d \in Calls : Running(d) => d = c
  BY RunnerIsHead
<1> QED BY <1>1 DEF Active

LEMMA NobodyActive ==
  ASSUME \A c \in Calls : ~Running(c) PROVE Active = NoCall
  BY DEF Active

LEMMA ActiveKept ==
  ASSUME \A c \in Calls : Running(c)' <=> Running(c) PROVE Active' = Active
<1>1. (\E c \in Calls : Running(c)') <=> (\E c \in Calls : Running(c))
  OBVIOUS
<1>2. (CHOOSE c \in Calls : Running(c)') = (CHOOSE c \in Calls : Running(c))
  OBVIOUS
<1> QED BY <1>1, <1>2 DEF Active

LEMMA InitIsQueue == LockInit => Fifo!FifoInit
  BY NobodyActive DEF LockInit, Fifo!FifoInit, Running

LEMMA StepIsQueueStep ==
  LockInv /\ [LockNext]_lockVars => [Fifo!FifoNext]_<<line, Active>>
<1> SUFFICES ASSUME LockInv, [LockNext]_lockVars
             PROVE  [Fifo!FifoNext]_<<line, Active>>
  OBVIOUS
<1>0. LockInv'
  BY LockInvStep
<1>1. ASSUME NEW c \in Calls, Enter(c) PROVE Fifo!Arrive(c)
  <2>1. \A i \in 1..Len(line) : line[i] # c
    BY <1>1 DEF Enter, LockInv, LineIsPending, Pending
  <2>2. Active' = Active
    BY <1>1, ActiveKept DEF Enter, Running, LockInv, LockTypeOK
  <2> QED BY <1>1, <2>1, <2>2 DEF Enter, Fifo!Arrive
<1>2. ASSUME NEW c \in Calls, Start(c) PROVE Fifo!Serve
  <2>1. line # <<>> /\ c = Head(line)
    BY <1>2, StarterIsHead
  <2>2. \A d \in Calls : ~Running(d)
    BY <1>2, <2>1, RunnerIsHead DEF Start, Running
  <2>3. Running(c)'
    BY <1>2 DEF Start, Running, LockInv, LockTypeOK
  <2>4. Active' = c
    <3>1. \A d \in Calls : Running(d)' => d = c
      BY <1>2, <2>2 DEF Start, Running, LockInv, LockTypeOK
    <3> QED BY <2>3, <3>1 DEF Active
  <2> QED BY <1>2, <2>1, <2>2, <2>4, NobodyActive DEF Start, Fifo!Serve
<1>3. ASSUME NEW c \in Calls, NEW outcome \in Settled, Finish(c, outcome) PROVE Fifo!Leave
  <2>1. Active = c
    BY <1>3, ActiveIsRunner DEF Finish
  <2>2. \A d \in Calls : ~Running(d)'
    <3>1. \A d \in Calls : Running(d) => d = c
      BY <1>3, RunnerIsHead DEF Finish
    <3> QED BY <1>3, <3>1 DEF Finish, Running, Settled, LockInv, LockTypeOK
  <2>3. Active' = NoCall
    BY <2>2 DEF Active
  <2> QED BY <1>3, <2>1, <2>3, SiteLockAssumption DEF Finish, Fifo!Leave
<1>4. ASSUME NEW c \in Calls, Forget(c) PROVE UNCHANGED <<line, Active>>
  BY <1>4, ActiveKept DEF Forget, Running, Settled, LockInv, LockTypeOK
<1>5. CASE UNCHANGED lockVars
  BY <1>5, ActiveKept DEF lockVars, Running
<1> QED BY <1>1, <1>2, <1>3, <1>4, <1>5 DEF LockNext, Fifo!FifoNext

(* For any number of calls the chain of promises implements the queue:     *)
(* what withSiteLock promises its callers.                                 *)
THEOREM LockIsAQueue == LockSpec => ChainIsAQueue
<1>1. LockInv /\ [LockNext]_lockVars => [Fifo!FifoNext]_Fifo!fifoVars
  BY StepIsQueueStep DEF Fifo!fifoVars
<1> QED BY <1>1, InitIsQueue, LockInvariance, PTL DEF LockSpec, ChainIsAQueue, Fifo!FifoSpec

-----------------------------------------------------------------------------
(* The worker uses the lock.                                               *)

LEMMA AwaitKeepsLock ==
  ASSUME NEW c, NEW place, NEW b, Await(c, place, b) PROVE UNCHANGED lockVars
  BY DEF Await

LEMMA ReturnIsLockStep ==
  ASSUME NEW c \in Calls, Return(c) \/ Throw(c) PROVE LockNext
  BY DEF Return, Throw, LockNext, Settled

LEMMA BeginLoginIsLockStep ==
  ASSUME NEW c \in Calls, NEW stale, BeginLogin(c, stale) PROVE [LockNext]_lockVars
  BY AwaitKeepsLock, ReturnIsLockStep DEF BeginLogin

LEMMA LogoutSessionIsLockStep ==
  ASSUME NEW c \in Calls, NEW s, NEW bs, LogoutSession(c, s, bs) PROVE [LockNext]_lockVars
  BY AwaitKeepsLock, ReturnIsLockStep, BeginLoginIsLockStep DEF LogoutSession, AfterLogout

LEMMA LogoutIsLockStep ==
  ASSUME NEW c \in Calls, NEW s, Logout(c, s) PROVE [LockNext]_lockVars
  BY AwaitKeepsLock, ReturnIsLockStep, LogoutSessionIsLockStep DEF Logout, GetSiteThrows

LEMMA StepIsLockStep ==
  ASSUME NEW c \in Calls, Step(c) PROVE [LockNext]_lockVars
<1>1. CASE StartLogout(c)
  BY <1>1, LogoutIsLockStep DEF StartLogout
<1>2. CASE StartCheck(c)
  BY <1>2, LogoutIsLockStep, AwaitKeepsLock, ReturnIsLockStep DEF StartCheck
<1>3. CASE StartWithoutSession(c)
  BY <1>3, BeginLoginIsLockStep, ReturnIsLockStep DEF StartWithoutSession
<1>4. CASE StartOtp(c)
  BY <1>4, AwaitKeepsLock, ReturnIsLockStep DEF StartOtp
<1>5. CASE StartDiagnosis(c) \/ StartFormDiagnosis(c)
  BY <1>5, AwaitKeepsLock DEF StartDiagnosis, StartFormDiagnosis
<1>6. CASE Probe(c)
  BY <1>6, LogoutIsLockStep, AwaitKeepsLock, ReturnIsLockStep
  DEF Probe, ProbeActive, ProbeNeedsUser, ProbeInactive, ProbeThrows
<1>7. CASE PendingClosed(c)
  BY <1>7, LogoutSessionIsLockStep DEF PendingClosed
<1>8. CASE SessionClosed(c)
  BY <1>8, BeginLoginIsLockStep, ReturnIsLockStep DEF SessionClosed, AfterLogout
<1>9. CASE Launch(c)
  BY <1>9, AwaitKeepsLock, ReturnIsLockStep DEF Launch
<1>10. CASE PageThrows(c) \/ FormAsksForCode(c) \/ FormMisfit(c) \/ MisfitClosed(c)
            \/ FormSubmitted(c) \/ LoginKept(c)
  BY <1>10, AwaitKeepsLock, ReturnIsLockStep
  DEF PageThrows, FormAsksForCode, FormMisfit, MisfitClosed, FormSubmitted, LoginKept
<1>11. CASE OtpAccepted(c) \/ OtpKept(c) \/ OtpReverted(c) \/ OtpClosed(c)
  BY <1>11, AwaitKeepsLock, ReturnIsLockStep DEF OtpAccepted, OtpKept, OtpReverted, OtpClosed
<1>12. CASE ExtractorReturns(c) \/ ExtractorTimesOut(c)
  BY <1>12, ReturnIsLockStep DEF ExtractorReturns, ExtractorTimesOut
<1>13. CASE StartThrows(c)
  BY <1>13, ReturnIsLockStep DEF StartThrows
<1> QED BY <1>1, <1>2, <1>3, <1>4, <1>5, <1>6, <1>7, <1>8, <1>9, <1>10, <1>11, <1>12, <1>13
    DEF Step

(* Every behaviour of the worker is, in the lock's variables, a behaviour  *)
(* of the lock.                                                            *)
THEOREM WorkerUsesLock == WorkerSpec => LockSpec
<1>1. WorkerInit => LockInit
  BY DEF WorkerInit
<1>2. [WorkerNext]_vars => [LockNext]_lockVars
  <2> SUFFICES ASSUME [WorkerNext]_vars PROVE [LockNext]_lockVars
    OBVIOUS
  <2>1. ASSUME NEW c \in Calls, StartCall(c) \/ Release(c) PROVE LockNext
    BY <2>1 DEF StartCall, Release, LockNext
  <2>2. ASSUME NEW c \in Calls, NEW kind \in Kinds, Request(c, kind) PROVE LockNext
    BY <2>2 DEF Request, LockNext
  <2>3. ASSUME NEW b \in Browsers, DetachedEnds(b) \/ BrowserEnds(b)
        PROVE  UNCHANGED lockVars
    BY <2>3 DEF DetachedEnds, BrowserEnds
  <2>4. ASSUME Sweep PROVE [LockNext]_lockVars
    <3>1. CASE SessionIdle
      <4>1. PICK c \in ReaperCalls : Enter(c)
        BY <2>4, <3>1 DEF Sweep
      <4> QED BY <4>1, WorkerAssumption DEF LockNext
    <3>2. CASE ~SessionIdle
      BY <2>4, <3>2 DEF Sweep
    <3> QED BY <3>1, <3>2
  <2>5. ASSUME Tick PROVE UNCHANGED lockVars
    BY <2>5 DEF Tick
  <2>6. CASE UNCHANGED vars
    BY <2>6 DEF vars
  <2> QED BY <2>1, <2>2, <2>3, <2>4, <2>5, <2>6, StepIsLockStep DEF WorkerNext
<1> QED BY <1>1, <1>2, PTL DEF WorkerSpec, LockSpec

(* The calls on a site are served first come, first served, one at a time, *)
(* for any number of clients, browsers and limits.                         *)
THEOREM WorkerServesInOrder == WorkerSpec => ChainIsAQueue
  BY WorkerUsesLock, LockIsAQueue, PTL

-----------------------------------------------------------------------------
(* The sessions of the site.                                               *)

SessionRecords == [browser : Browsers, idle : 0..IdleLimit]
PendingRecords == [browser : Browsers, age : 0..(OtpLimit + 1)]
Jobs           == [kind : Kinds, at : Places, browser : Browsers \cup {NoBrowser}]

(* What is kept for the site: only a site with codes has a browser that    *)
(* waits for one, and never beside a session.                              *)
SiteSound ==
  /\ browsers \in [Browsers -> {"gone", "open", "closing"}]
  /\ session \in SessionRecords \cup {None}
  /\ pending \in PendingRecords \cup {None}
  /\ ~OtpFlow => pending = None
  /\ session # None => pending = None

(* A call that is not running is at its start and holds no browser.        *)
JobsRest ==
  /\ job \in [Calls -> Jobs]
  /\ \A c \in Calls : ~Running(c) => job[c].at = "start" /\ job[c].browser = NoBrowser

OnSession(c) == session # None /\ session.browser = job[c].browser
OnPending(c) == pending = None \/ pending.browser = job[c].browser

(* What a running call may rely on when it goes on after an await, although *)
(* the sweep and Chromium did not wait for the lock.                       *)
Sound(c) ==
  LET at == job[c].at   kind == job[c].kind   b == job[c].browser
  IN  /\ at = "start" => b = NoBrowser
      /\ at = "probing" => kind \in {"login", "check", "extract"} /\ OnSession(c)
      /\ at = "extracting" => kind = "extract" /\ OnSession(c)
      /\ at = "closing_session" =>
           kind \in {"login", "check", "extract", "logout"} /\ OnSession(c)
      /\ at = "closing_pending" =>
           /\ kind \in {"login", "check", "extract", "logout"} /\ b \in Browsers
           /\ session = None /\ OnPending(c)
      /\ at = "launching" => kind \in {"login", "diagnose"} /\ b = NoBrowser
      /\ at \in {"filling", "settling"} => kind = "login" /\ b \in Browsers
      /\ at = "settling" => ~OtpFlow
      /\ at = "closing_failed" => kind \in {"login", "diagnose"} /\ b \in Browsers
      /\ at = "diagnosing" => kind = "diagnose" /\ b \in Browsers
      /\ at \in {"launching", "filling", "settling", "closing_failed"} /\ kind = "login" =>
           session = None
      /\ at \in {"submitting", "closing_otp"} =>
           /\ kind = "otp" /\ b \in Browsers /\ session = None /\ OnPending(c)
           /\ (pending = None \/ at = "closing_otp") => browsers[b] # "open"

WorkerInv ==
  /\ LockInv /\ SiteSound /\ JobsRest /\ BrowsersAccounted
  /\ \A c \in Calls : Running(c) => Sound(c)

LEMMA SiteRecords ==
  ASSUME SiteSound
  PROVE  /\ session # None => /\ session.browser \in Browsers
                              /\ [session EXCEPT !.idle = 0] \in SessionRecords
                              /\ [session EXCEPT !.idle = 0] # None
                              /\ [session EXCEPT !.idle = 0].browser = session.browser
         /\ session = None => session.browser = NoBrowser
         /\ pending # None => pending.browser \in Browsers
         /\ pending = None => pending.browser = NoBrowser
  BY WorkerAssumption DEF SiteSound, SessionRecords, PendingRecords, None

LEMMA NewRecords ==
  ASSUME NEW b \in Browsers
  PROVE  /\ [browser |-> b, idle |-> 0] \in SessionRecords
         /\ [browser |-> b, idle |-> 0] # None
         /\ [browser |-> b, age |-> 0] \in PendingRecords
         /\ [browser |-> b, age |-> 0] # None
  BY WorkerAssumption DEF SessionRecords, PendingRecords, None

LEMMA BrowserStates ==
  ASSUME browsers \in [Browsers -> {"gone", "open", "closing"}], NEW b \in Browsers
  PROVE  /\ Closing(browsers, b) \in [Browsers -> {"gone", "open", "closing"}]
         /\ Closed(browsers, b) \in [Browsers -> {"gone", "open", "closing"}]
         /\ Closing(browsers, b)[b] # "open" /\ Closed(browsers, b)[b] = "gone"
         /\ \A d \in Browsers : d # b => /\ Closing(browsers, b)[d] = browsers[d]
                                         /\ Closed(browsers, b)[d] = browsers[d]
  BY DEF Closing, Closed

LEMMA OneRuns ==
  ASSUME LockInv, NEW c \in Calls, Running(c), NEW d \in Calls, Running(d)
  PROVE  d = c
  BY RunnerIsHead

(* A running call that goes to an await is still the only one that runs.   *)
LEMMA Awaits ==
  ASSUME LockInv, JobsRest, NEW c \in Calls, Running(c),
         NEW place \in Places, NEW b \in Browsers \cup {NoBrowser}, Await(c, place, b)
  PROVE  /\ LockInv' /\ JobsRest' /\ Running(c)'
         /\ job'[c] = [kind |-> job[c].kind, at |-> place, browser |-> b]
         /\ \A d \in Calls : Running(d)' => d = c
<1>1. UNCHANGED lockVars
  BY AwaitKeepsLock
<1>2. LockInv' /\ (\A d \in Calls : Running(d)' <=> Running(d))
  BY <1>1, LockInvStep DEF lockVars, Running
<1>3. job[c] \in Jobs
  BY DEF JobsRest
<1>4. job' = [job EXCEPT ![c] = [kind |-> job[c].kind, at |-> place, browser |-> b]]
  BY DEF Await
<1>5. [kind |-> job[c].kind, at |-> place, browser |-> b] \in Jobs
  BY <1>3 DEF Jobs
<1>6. \A d \in Calls : d # c => job'[d] = job[d]
  BY <1>4 DEF JobsRest
<1>7. \A d \in Calls : Running(d)' => d = c
  BY <1>2, OneRuns
<1>8. job' \in [Calls -> Jobs]
      /\ job'[c] = [kind |-> job[c].kind, at |-> place, browser |-> b]
  BY <1>4, <1>5 DEF JobsRest
<1>9. ASSUME NEW d \in Calls, ~Running(d)' PROVE job'[d].at = "start" /\ job'[d].browser = NoBrowser
  <2>1. d # c /\ ~Running(d)
    BY <1>2, <1>9
  <2> QED BY <2>1, <1>6 DEF JobsRest
<1> QED BY <1>2, <1>7, <1>8, <1>9 DEF JobsRest

(* When a call returns or throws, nobody runs.                             *)
LEMMA Returns ==
  ASSUME LockInv, JobsRest, NEW c \in Calls, Running(c), Return(c) \/ Throw(c)
  PROVE  /\ LockInv' /\ JobsRest'
         /\ \A d \in Calls : ~Running(d)'
<1>1. LockInv'
  BY ReturnIsLockStep, LockInvStep
<1>2. PICK outcome \in Settled : Finish(c, outcome)
  BY DEF Return, Throw, Settled
<1>3. \A d \in Calls : ~Running(d)'
  BY <1>2, OneRuns DEF Finish, Running, Settled, LockInv, LockTypeOK
<1>4. job' = [job EXCEPT ![c] = NoJob] /\ NoJob \in Jobs
  BY DEF Return, Throw, NoJob, Jobs, Kinds, Places
<1>5. \A d \in Calls : job'[d] = job[d] \/ job'[d] = NoJob
  BY <1>4 DEF JobsRest
<1>6. \A d \in Calls : job'[d].at = "start" /\ job'[d].browser = NoBrowser
  <2> SUFFICES ASSUME NEW d \in Calls PROVE job'[d].at = "start" /\ job'[d].browser = NoBrowser
    OBVIOUS
  <2>1. CASE d = c
    BY <2>1, <1>4 DEF NoJob, JobsRest
  <2>2. CASE d # c
    BY <2>2, <1>4, OneRuns DEF JobsRest
  <2> QED BY <2>1, <2>2
<1> QED BY <1>1, <1>3, <1>4, <1>6 DEF JobsRest

(* A browser that the site's records or the two ways to lose one account for. *)
Recorded(b) == b \in {session.browser, pending.browser} \cup thrown \cup replaced

(* What is to be shown of a step after which nobody runs ...               *)
LEMMA Rests ==
  ASSUME LockInv', JobsRest', SiteSound', \A d \in Calls : ~Running(d)',
         \A b \in Browsers : browsers'[b] = "open" => Recorded(b)'
  PROVE  WorkerInv'
  BY DEF WorkerInv, BrowsersAccounted, Recorded

(* ... and of one after which one call runs.                               *)
LEMMA Goes ==
  ASSUME LockInv', JobsRest', SiteSound', NEW c \in Calls, Running(c)',
         \A d \in Calls : Running(d)' => d = c, Sound(c)',
         \A b \in Browsers : browsers'[b] = "open" => Recorded(b)' \/ job'[c].browser = b
  PROVE  WorkerInv'
  BY DEF WorkerInv, BrowsersAccounted, Recorded, HeldByCall

(* In a state where a call runs, what it holds is all that others do not.  *)
LEMMA RunnerHolds ==
  ASSUME WorkerInv, NEW c \in Calls, Running(c)
  PROVE  /\ LockInv /\ JobsRest /\ SiteSound /\ Sound(c) /\ job[c] \in Jobs
         /\ \A b \in Browsers : browsers[b] = "open" => Recorded(b) \/ job[c].browser = b
  BY OneRuns DEF WorkerInv, BrowsersAccounted, Recorded, HeldByCall, JobsRest

LoggingOut == {"login", "check", "extract", "logout"}

LEMMA BeginLoginKeeps ==
  ASSUME LockInv, JobsRest, SiteSound', NEW c \in Calls, Running(c), job[c].kind = "login",
         session' = None, \A b \in Browsers : browsers'[b] = "open" => Recorded(b)',
         NEW stale, BeginLogin(c, stale)
  PROVE  WorkerInv'
<1>1. CASE Return(c) \/ Throw(c)
  BY <1>1, Returns, Rests
<1>2. CASE Await(c, "launching", NoBrowser)
  <2>1. /\ LockInv' /\ JobsRest' /\ Running(c)' /\ \A d \in Calls : Running(d)' => d = c
        /\ job'[c] = [kind |-> "login", at |-> "launching", browser |-> NoBrowser]
    BY <1>2, Awaits DEF Places
  <2>2. Sound(c)'
    BY <2>1 DEF Sound
  <2> QED BY <2>1, <2>2, Goes
<1> QED BY <1>1, <1>2 DEF BeginLogin

LEMMA AfterLogoutKeeps ==
  ASSUME LockInv, JobsRest, SiteSound', NEW c \in Calls, Running(c),
         session' = None, \A b \in Browsers : browsers'[b] = "open" => Recorded(b)',
         AfterLogout(c)
  PROVE  WorkerInv'
<1>1. CASE job[c].kind = "login"
  BY <1>1, BeginLoginKeeps DEF AfterLogout
<1>2. CASE job[c].kind # "login"
  BY <1>2, Returns, Rests DEF AfterLogout
<1> QED BY <1>1, <1>2

LEMMA LogoutKeeps ==
  ASSUME LockInv, JobsRest, SiteSound, NEW c \in Calls, Running(c), job[c].kind \in LoggingOut,
         NEW s, session' \in SessionRecords \cup {None}, s = None <=> session' = None,
         s # None => s.browser = session'.browser, session' # None => pending = None,
         UNCHANGED <<thrown, replaced>>,
         \A b \in Browsers : browsers[b] = "open" =>
           b \in {session'.browser, pending.browser} \cup thrown \cup replaced,
         Logout(c, s)
  PROVE  WorkerInv'
<1>1. pending' = pending
  BY DEF Logout
<1>1a. CASE GetSiteThrows(c)
  <2>1. LockInv' /\ JobsRest' /\ browsers' = browsers /\ \A d \in Calls : ~Running(d)'
    BY <1>1a, Returns DEF GetSiteThrows
  <2>2. SiteSound'
    BY <1>1, <2>1 DEF SiteSound
  <2> QED BY <1>1, <2>1, <2>2, Rests DEF Recorded
<1>2. CASE pending # None /\ ~GetSiteThrows(c)
  <2>1. browsers' = Closing(browsers, pending.browser)
        /\ Await(c, "closing_pending", pending.browser)
    BY <1>2 DEF Logout
  <2>2. pending.browser \in Browsers /\ session' = None
    BY <1>2, SiteRecords
  <2>3. /\ LockInv' /\ JobsRest' /\ Running(c)' /\ \A d \in Calls : Running(d)' => d = c
        /\ job'[c] = [kind |-> job[c].kind, at |-> "closing_pending",
                      browser |-> pending.browser]
    BY <2>1, <2>2, Awaits DEF Places
  <2>4. Sound(c)'
    BY <1>1, <2>2, <2>3 DEF Sound, LoggingOut, OnPending
  <2>5. SiteSound' /\ \A b \in Browsers : browsers'[b] = "open" => browsers[b] = "open"
    BY <1>1, <2>1, <2>2, BrowserStates DEF SiteSound
  <2> QED BY <1>1, <2>3, <2>4, <2>5, Goes DEF Recorded
<1>3. CASE pending = None /\ s # None /\ ~GetSiteThrows(c)
  <2>1. browsers' = Closing(browsers, s.browser) /\ Await(c, "closing_session", s.browser)
    BY <1>3 DEF Logout, LogoutSession
  <2>2. s.browser \in Browsers /\ session' # None
    BY <1>3 DEF SessionRecords
  <2>3. /\ LockInv' /\ JobsRest' /\ Running(c)' /\ \A d \in Calls : Running(d)' => d = c
        /\ job'[c] = [kind |-> job[c].kind, at |-> "closing_session", browser |-> s.browser]
    BY <2>1, <2>2, Awaits DEF Places
  <2>4. Sound(c)'
    BY <1>3, <2>2, <2>3 DEF Sound, LoggingOut, OnSession
  <2>5. SiteSound' /\ \A b \in Browsers : browsers'[b] = "open" => browsers[b] = "open"
    BY <1>1, <1>3, <2>1, <2>2, BrowserStates DEF SiteSound
  <2> QED BY <1>1, <2>3, <2>4, <2>5, Goes DEF Recorded
<1>4. CASE pending = None /\ s = None /\ ~GetSiteThrows(c)
  <2>1. AfterLogout(c) /\ browsers' = browsers
    BY <1>4 DEF Logout, LogoutSession
  <2>2. SiteSound'
    BY <1>1, <1>4, <2>1 DEF SiteSound
  <2> QED BY <1>1, <1>4, <2>1, <2>2, AfterLogoutKeeps DEF Recorded
<1> QED BY <1>1a, <1>2, <1>3, <1>4

-----------------------------------------------------------------------------
(* The steps of the call whose turn it is.                                 *)

LEMMA LogoutSteps ==
  ASSUME WorkerInv, NEW c \in Calls,
         StartThrows(c) \/ StartLogout(c) \/ PendingClosed(c) \/ SessionClosed(c)
  PROVE  WorkerInv'
<1>0. Running(c)
  BY DEF StartThrows, StartLogout, PendingClosed, SessionClosed, IsAt
<1>1. /\ LockInv /\ JobsRest /\ SiteSound /\ Sound(c) /\ job[c] \in Jobs
      /\ \A b \in Browsers : browsers[b] = "open" => Recorded(b) \/ job[c].browser = b
  BY <1>0, RunnerHolds
<1>2. CASE StartLogout(c)
  <2>1. /\ job[c].at = "start" /\ job[c].kind \in LoggingOut /\ Logout(c, session)
        /\ UNCHANGED <<session, thrown, replaced>>
    BY <1>2 DEF StartLogout, IsAt, LoggingOut
  <2>2. \A b \in Browsers : job[c].browser # b
    BY <1>1, <2>1, WorkerAssumption DEF Sound
  <2> QED BY <1>0, <1>1, <2>1, <2>2, LogoutKeeps DEF SiteSound, Recorded
<1>3. CASE PendingClosed(c)
  <2>1. /\ job[c].at = "closing_pending" /\ pending' = None
        /\ LogoutSession(c, session, Closed(browsers, job[c].browser))
        /\ UNCHANGED <<session, thrown, replaced>>
    BY <1>3 DEF PendingClosed, IsAt
  <2>2. session = None /\ OnPending(c) /\ job[c].browser \in Browsers
    BY <1>1, <2>1 DEF Sound
  <2>3. AfterLogout(c) /\ browsers' = Closed(browsers, job[c].browser)
    BY <2>1, <2>2 DEF LogoutSession
  <2>4. SiteSound'
    BY <1>1, <2>1, <2>2, <2>3, BrowserStates DEF SiteSound
  <2>5. \A b \in Browsers : browsers'[b] = "open" => Recorded(b)'
    <3> SUFFICES ASSUME NEW b \in Browsers, browsers'[b] = "open" PROVE Recorded(b)'
      OBVIOUS
    <3>1. b # job[c].browser /\ browsers[b] = "open"
      BY <1>1, <2>2, <2>3, BrowserStates DEF SiteSound
    <3>2. b # pending.browser
      BY <1>1, <2>2, <3>1, SiteRecords, WorkerAssumption DEF OnPending
    <3> QED BY <1>1, <2>1, <3>1, <3>2 DEF Recorded
  <2> QED BY <1>0, <1>1, <2>1, <2>2, <2>3, <2>4, <2>5, AfterLogoutKeeps
<1>4. CASE SessionClosed(c)
  <2>1. /\ job[c].at = "closing_session" /\ session' = None
        /\ browsers' = Closed(browsers, job[c].browser) /\ AfterLogout(c)
        /\ UNCHANGED <<pending, thrown, replaced>>
    BY <1>4 DEF SessionClosed, IsAt
  <2>2. OnSession(c) /\ job[c].browser \in Browsers
    BY <1>1, <2>1, SiteRecords DEF Sound, OnSession
  <2>3. SiteSound'
    BY <1>1, <2>1, <2>2, BrowserStates DEF SiteSound
  <2>4. \A b \in Browsers : browsers'[b] = "open" => Recorded(b)'
    <3> SUFFICES ASSUME NEW b \in Browsers, browsers'[b] = "open" PROVE Recorded(b)'
      OBVIOUS
    <3>1. b # job[c].browser /\ browsers[b] = "open"
      BY <1>1, <2>1, <2>2, BrowserStates DEF SiteSound
    <3> QED BY <1>1, <2>1, <2>2, <3>1 DEF Recorded, OnSession
  <2> QED BY <1>0, <1>1, <2>1, <2>3, <2>4, AfterLogoutKeeps
<1>5. CASE StartThrows(c)
  <2>1. job[c].at = "start" /\ Throw(c) /\ UNCHANGED workerVars
    BY <1>5 DEF StartThrows, IsAt
  <2>2. LockInv' /\ JobsRest' /\ \A d \in Calls : ~Running(d)'
    BY <1>0, <1>1, <2>1, Returns
  <2>3. SiteSound' /\ \A b \in Browsers : browsers[b] = "open" => Recorded(b)
    BY <1>1, <2>1, WorkerAssumption DEF SiteSound, workerVars, Sound
  <2> QED BY <2>1, <2>2, <2>3, Rests DEF Recorded, workerVars
<1> QED BY <1>2, <1>3, <1>4, <1>5

LEMMA CheckSteps ==
  ASSUME WorkerInv, NEW c \in Calls,
         StartCheck(c) \/ StartWithoutSession(c) \/ Probe(c) \/ StartDiagnosis(c)
  PROVE  WorkerInv'
<1> USE DEF IsAt
<1>0. Running(c)
  BY DEF StartCheck, StartWithoutSession, StartDiagnosis, Probe, ProbeActive, ProbeNeedsUser,
         ProbeInactive, ProbeThrows
<1>1. /\ LockInv /\ JobsRest /\ SiteSound /\ Sound(c) /\ job[c] \in Jobs
      /\ \A b \in Browsers : browsers[b] = "open" => Recorded(b) \/ job[c].browser = b
  BY <1>0, RunnerHolds
<1>2. job[c].at = "start" \/ (job[c].at = "probing" /\ OnSession(c)) =>
        \A b \in Browsers : browsers[b] = "open" => Recorded(b)
  BY <1>1, WorkerAssumption DEF Sound, Recorded, OnSession
(* The browser of the session is held, at one of two awaits.               *)
<1>3. ASSUME NEW place \in {"probing", "extracting"}, session # None,
             Await(c, place, session.browser), session'.browser = session.browser,
             session' \in SessionRecords, UNCHANGED <<browsers, pending, thrown, replaced>>,
             \A b \in Browsers : browsers[b] = "open" => Recorded(b),
             place = "probing" => job[c].kind \in {"login", "check", "extract"},
             place = "extracting" => job[c].kind = "extract"
      PROVE  WorkerInv'
  <2>1. session.browser \in Browsers /\ session' # None
    BY <1>1, <1>3, SiteRecords DEF SessionRecords, None
  <2>2. /\ LockInv' /\ JobsRest' /\ Running(c)' /\ \A d \in Calls : Running(d)' => d = c
        /\ job'[c] = [kind |-> job[c].kind, at |-> place, browser |-> session.browser]
    BY <1>0, <1>1, <1>3, <2>1, Awaits DEF Places
  <2>3. Sound(c)'
    BY <1>3, <2>1, <2>2 DEF Sound, OnSession
  <2>4. SiteSound'
    BY <1>1, <1>3 DEF SiteSound
  <2> QED BY <1>3, <2>2, <2>3, <2>4, Goes DEF Recorded
<1>4. ASSUME Return(c) \/ Throw(c), session' \in SessionRecords \cup {None},
             session' = session \/ (session' # None /\ session # None),
             session'.browser = session.browser,
             UNCHANGED <<browsers, pending, thrown, replaced>>,
             \A b \in Browsers : browsers[b] = "open" => Recorded(b)
      PROVE  WorkerInv'
  <2>1. LockInv' /\ JobsRest' /\ \A d \in Calls : ~Running(d)'
    BY <1>0, <1>1, <1>4, Returns
  <2>2. SiteSound'
    BY <1>1, <1>4 DEF SiteSound
  <2> QED BY <1>4, <2>1, <2>2, Rests DEF Recorded
<1>5. CASE StartCheck(c)
  <2>1. /\ job[c].at = "start" /\ job[c].kind \in {"login", "check", "extract"}
        /\ session # None /\ UNCHANGED <<thrown, replaced>>
        /\ \A b \in Browsers : browsers[b] = "open" => Recorded(b)
    BY <1>2, <1>5 DEF StartCheck
  <2>2. CASE PageClosed
    <3>1. session' = None /\ session.browser \in Browsers /\ browsers[session.browser] = "gone"
      BY <1>1, <1>5, <2>1, <2>2, SiteRecords DEF StartCheck, PageClosed
    <3>2. \A b \in Browsers : browsers[b] = "open" =>
            b \in {session'.browser, pending.browser} \cup thrown \cup replaced
      BY <2>1, <3>1 DEF Recorded
    <3>3. CASE job[c].kind = "login"
      <4>1. Logout(c, None)
        BY <1>5, <2>2, <3>3 DEF StartCheck
      <4> QED BY <1>0, <1>1, <2>1, <3>1, <3>2, <3>3, <4>1, LogoutKeeps DEF LoggingOut
    <3>4. CASE job[c].kind # "login"
      <4>1. Return(c) /\ UNCHANGED <<pending, browsers>>
        BY <1>5, <2>2, <3>4 DEF StartCheck
      <4>2. LockInv' /\ JobsRest' /\ \A d \in Calls : ~Running(d)'
        BY <1>0, <1>1, <4>1, Returns
      <4>3. SiteSound'
        BY <1>1, <3>1, <4>1 DEF SiteSound
      <4> QED BY <2>1, <3>2, <4>1, <4>2, <4>3, Rests DEF Recorded
    <3> QED BY <3>3, <3>4
  <2>3. CASE ~PageClosed
    <3>1. Await(c, "probing", session.browser) /\ UNCHANGED <<session, pending, browsers>>
      BY <1>5, <2>3 DEF StartCheck
    <3> QED BY <1>1, <1>3, <2>1, <3>1 DEF SiteSound
  <2> QED BY <2>2, <2>3
<1>6. CASE StartWithoutSession(c)
  <2>1. /\ job[c].at = "start" /\ session = None /\ session' = None
        /\ UNCHANGED <<browsers, session, pending, thrown, replaced>>
        /\ \A b \in Browsers : browsers[b] = "open" => Recorded(b)
    BY <1>2, <1>6 DEF StartWithoutSession
  <2>2. SiteSound' /\ \A b \in Browsers : browsers'[b] = "open" => Recorded(b)'
    BY <1>1, <2>1 DEF SiteSound, Recorded
  <2>3. CASE job[c].kind = "login" /\ BeginLogin(c, cooldown)
    BY <1>0, <1>1, <2>1, <2>2, <2>3, BeginLoginKeeps
  <2>4. CASE Return(c)
    BY <1>1, <1>4, <2>1, <2>4 DEF SiteSound
  <2> QED BY <1>6, <2>3, <2>4 DEF StartWithoutSession
<1>7. CASE Probe(c)
  <2>1. job[c].at = "probing"
    BY <1>7 DEF Probe, ProbeActive, ProbeNeedsUser, ProbeInactive, ProbeThrows
  <2>2. /\ job[c].kind \in {"login", "check", "extract"} /\ OnSession(c) /\ session # None
        /\ \A b \in Browsers : browsers[b] = "open" => Recorded(b)
    BY <1>1, <1>2, <2>1 DEF Sound, OnSession
  <2>3. /\ pending = None /\ session \in SessionRecords
        /\ [session EXCEPT !.idle = 0] \in SessionRecords
        /\ [session EXCEPT !.idle = 0] # None
        /\ [session EXCEPT !.idle = 0].browser = session.browser
    BY <1>1, <2>2, SiteRecords DEF SiteSound
  <2>4. ASSUME session' = session \/ session' = [session EXCEPT !.idle = 0],
               UNCHANGED <<thrown, replaced>>, Logout(c, session)
        PROVE  WorkerInv'
    <3> DEFINE s == session
    <3>1. /\ session' \in SessionRecords \cup {None} /\ s # None /\ session' # None
          /\ s.browser = session'.browser /\ Logout(c, s) /\ job[c].kind \in LoggingOut
      BY <2>2, <2>3, <2>4 DEF LoggingOut
    <3>2. \A b \in Browsers : browsers[b] = "open" =>
            b \in {session'.browser, pending.browser} \cup thrown \cup replaced
      BY <2>2, <3>1 DEF Recorded
    <3> HIDE DEF s
    <3> QED BY <1>0, <1>1, <2>3, <2>4, <3>1, <3>2, LogoutKeeps
  <2>5. CASE ProbeActive(c) \/ ProbeNeedsUser(c)
    <3>1. session' = [session EXCEPT !.idle = 0] /\ UNCHANGED <<thrown, replaced>>
      BY <2>5 DEF ProbeActive, ProbeNeedsUser
    <3>2. CASE Return(c) /\ UNCHANGED <<browsers, pending>>
      BY <1>4, <2>2, <2>3, <3>1, <3>2
    <3>3. CASE job[c].kind = "extract" /\ Await(c, "extracting", session.browser)
               /\ UNCHANGED <<browsers, pending>>
      BY <1>3, <2>2, <2>3, <3>1, <3>3
    <3>4. CASE Logout(c, session)
      BY <2>4, <3>1, <3>4
    <3> QED BY <2>5, <3>2, <3>3, <3>4 DEF ProbeActive, ProbeNeedsUser
  <2>6. CASE ProbeInactive(c)
    BY <2>4, <2>6 DEF ProbeInactive
  <2>7. CASE ProbeThrows(c)
    BY <1>4, <2>2, <2>3, <2>7 DEF ProbeThrows, workerVars
  <2> QED BY <1>7, <2>5, <2>6, <2>7 DEF Probe
<1>8. CASE StartDiagnosis(c)
  <2>1. /\ job[c].at = "start" /\ job[c].kind = "extract" /\ session # None
        /\ Await(c, "extracting", session.browser)
        /\ UNCHANGED <<browsers, session, pending, thrown, replaced>>
    BY <1>8 DEF StartDiagnosis, workerVars
  <2> QED BY <1>1, <1>2, <1>3, <2>1 DEF SiteSound
<1> QED BY <1>5, <1>6, <1>7, <1>8

LEMMA LoginSteps ==
  ASSUME WorkerInv, NEW c \in Calls,
         StartFormDiagnosis(c) \/ Launch(c) \/ PageThrows(c) \/ FormAsksForCode(c)
         \/ FormMisfit(c) \/ MisfitClosed(c) \/ FormSubmitted(c) \/ LoginKept(c)
  PROVE  WorkerInv'
<1> USE DEF IsAt
<1>0. Running(c)
  BY DEF StartFormDiagnosis, Launch, PageThrows, FormAsksForCode, FormMisfit, MisfitClosed,
         FormSubmitted, LoginKept
<1>1. /\ LockInv /\ JobsRest /\ SiteSound /\ Sound(c) /\ job[c] \in Jobs
      /\ \A b \in Browsers : browsers[b] = "open" => Recorded(b) \/ job[c].browser = b
  BY <1>0, RunnerHolds
<1>2. job[c].browser \notin Browsers =>
        \A b \in Browsers : browsers[b] = "open" => Recorded(b)
  BY <1>1
<1>3. Return(c) \/ Throw(c) => LockInv' /\ JobsRest' /\ \A d \in Calls : ~Running(d)'
  BY <1>0, <1>1, Returns
<1>4. ASSUME NEW place \in Places, NEW b \in Browsers \cup {NoBrowser}, Await(c, place, b)
      PROVE  /\ LockInv' /\ JobsRest' /\ Running(c)' /\ \A d \in Calls : Running(d)' => d = c
             /\ job'[c] = [kind |-> job[c].kind, at |-> place, browser |-> b]
  BY <1>0, <1>1, <1>4, Awaits
<1>5. UNCHANGED <<browsers, session, pending>> => SiteSound'
  BY <1>1 DEF SiteSound
<1>6. CASE StartFormDiagnosis(c)
  <2>1. /\ job[c].at = "start" /\ job[c].kind = "diagnose"
        /\ Await(c, "launching", NoBrowser) /\ UNCHANGED workerVars
    BY <1>6 DEF StartFormDiagnosis
  <2>2. /\ LockInv' /\ JobsRest' /\ Running(c)' /\ \A d \in Calls : Running(d)' => d = c
        /\ job'[c] = [kind |-> "diagnose", at |-> "launching", browser |-> NoBrowser]
    BY <1>4, <2>1 DEF Places
  <2>3. Sound(c)'
    BY <2>2 DEF Sound
  <2>4. \A b \in Browsers : browsers'[b] = "open" => Recorded(b)'
    BY <1>1, <1>2, <2>1, WorkerAssumption DEF Sound, Recorded, workerVars
  <2> QED BY <1>5, <2>1, <2>2, <2>3, <2>4, Goes DEF workerVars
<1>7. CASE Launch(c)
  <2>1. /\ job[c].at = "launching" /\ job[c].kind \in {"login", "diagnose"}
        /\ job[c].browser = NoBrowser /\ UNCHANGED <<session, pending, thrown, replaced>>
        /\ job[c].kind = "login" => session = None
        /\ \A b \in Browsers : browsers[b] = "open" => Recorded(b)
    BY <1>1, <1>2, <1>7, WorkerAssumption DEF Launch, Sound
  <2>2. CASE Throw(c) /\ UNCHANGED browsers
    BY <1>3, <1>5, <2>1, <2>2, Rests DEF Recorded
  <2>3. ASSUME NEW b \in Free, browsers' = [browsers EXCEPT ![b] = "open"],
               Await(c, IF job[c].kind = "login" THEN "filling" ELSE "diagnosing", b)
        PROVE  WorkerInv'
    <3>1. b \in Browsers
      BY DEF Free
    <3> DEFINE place == IF job[c].kind = "login" THEN "filling" ELSE "diagnosing"
    <3>2. place \in Places /\ (place = "filling" <=> job[c].kind = "login")
      BY DEF Places
    <3>3. /\ LockInv' /\ JobsRest' /\ Running(c)' /\ \A d \in Calls : Running(d)' => d = c
          /\ job'[c] = [kind |-> job[c].kind, at |-> place, browser |-> b]
      BY <1>4, <2>3, <3>1, <3>2
    <3>4. Sound(c)'
      BY <2>1, <3>1, <3>3 DEF Sound
    <3>5. SiteSound'
      BY <1>1, <2>1, <2>3, <3>1 DEF SiteSound
    <3>6. \A d \in Browsers : browsers'[d] = "open" => Recorded(d)' \/ job'[c].browser = d
      <4> SUFFICES ASSUME NEW d \in Browsers, browsers'[d] = "open", d # b PROVE Recorded(d)'
        BY <3>3
      <4> QED BY <1>1, <2>1, <2>3, <3>1 DEF Recorded, SiteSound
    <3> QED BY <3>3, <3>4, <3>5, <3>6, Goes
  <2> QED BY <1>7, <2>2, <2>3 DEF Launch
<1>8. CASE PageThrows(c)
  <2>1. /\ Throw(c) /\ UNCHANGED <<browsers, session, pending, replaced>>
        /\ thrown' = IF browsers[job[c].browser] = "gone" THEN thrown
                     ELSE thrown \cup {job[c].browser}
    BY <1>8 DEF PageThrows
  <2>2. \A b \in Browsers : browsers'[b] = "open" => Recorded(b)'
    BY <1>1, <2>1 DEF Recorded
  <2> QED BY <1>3, <1>5, <2>1, <2>2, Rests
<1>9. CASE FormAsksForCode(c)
  <2>1. /\ job[c].at = "filling" /\ OtpFlow /\ Return(c)
        /\ pending' = [browser |-> job[c].browser, age |-> 0]
        /\ replaced' = replaced \cup ({pending.browser} \cap {b \in Browsers : browsers[b] # "gone"})
        /\ UNCHANGED <<browsers, session, thrown>>
    BY <1>9 DEF FormAsksForCode
  <2>2. job[c].browser \in Browsers /\ session = None
    BY <1>1, <2>1 DEF Sound
  <2>3. SiteSound'
    BY <1>1, <2>1, <2>2, NewRecords DEF SiteSound
  <2>4. \A b \in Browsers : browsers'[b] = "open" => Recorded(b)'
    BY <1>1, <2>1 DEF Recorded
  <2> QED BY <1>3, <2>1, <2>3, <2>4, Rests
<1>10. CASE FormMisfit(c)
  <2>1. /\ job[c].at \in {"filling", "diagnosing"}
        /\ browsers' = Closing(browsers, job[c].browser)
        /\ Await(c, "closing_failed", job[c].browser)
        /\ UNCHANGED <<session, pending, thrown, replaced>>
    BY <1>10 DEF FormMisfit
  <2>2. /\ job[c].browser \in Browsers /\ job[c].kind \in {"login", "diagnose"}
        /\ job[c].kind = "login" => session = None
    BY <1>1, <2>1 DEF Sound
  <2>3. /\ LockInv' /\ JobsRest' /\ Running(c)' /\ \A d \in Calls : Running(d)' => d = c
        /\ job'[c] = [kind |-> job[c].kind, at |-> "closing_failed",
                      browser |-> job[c].browser]
    BY <1>4, <2>1, <2>2 DEF Places
  <2>4. Sound(c)'
    BY <2>1, <2>2, <2>3 DEF Sound
  <2>5. SiteSound' /\ \A b \in Browsers : browsers'[b] = "open" => browsers[b] = "open"
    BY <1>1, <2>1, <2>2, BrowserStates DEF SiteSound
  <2> QED BY <1>1, <2>1, <2>3, <2>4, <2>5, Goes DEF Recorded
<1>11. CASE MisfitClosed(c)
  <2>1. /\ job[c].at = "closing_failed" /\ (Return(c) \/ Throw(c))
        /\ browsers' = Closed(browsers, job[c].browser)
        /\ UNCHANGED <<session, pending, thrown, replaced>>
    BY <1>11 DEF MisfitClosed
  <2>2. job[c].browser \in Browsers
    BY <1>1, <2>1 DEF Sound
  <2>3. SiteSound' /\ \A b \in Browsers :
          browsers'[b] = "open" => browsers[b] = "open" /\ b # job[c].browser
    BY <1>1, <2>1, <2>2, BrowserStates DEF SiteSound
  <2> QED BY <1>1, <1>3, <2>1, <2>3, Rests DEF Recorded
<1>12. CASE FormSubmitted(c)
  <2>1. /\ job[c].at = "filling" /\ ~OtpFlow /\ Await(c, "settling", job[c].browser)
        /\ UNCHANGED workerVars
    BY <1>12 DEF FormSubmitted
  <2>2. job[c].browser \in Browsers /\ job[c].kind = "login" /\ session = None
    BY <1>1, <2>1 DEF Sound
  <2>3. /\ LockInv' /\ JobsRest' /\ Running(c)' /\ \A d \in Calls : Running(d)' => d = c
        /\ job'[c] = [kind |-> "login", at |-> "settling", browser |-> job[c].browser]
    BY <1>4, <2>1, <2>2 DEF Places
  <2>4. Sound(c)'
    BY <2>1, <2>2, <2>3 DEF Sound, workerVars
  <2> QED BY <1>1, <1>5, <2>1, <2>3, <2>4, Goes DEF Recorded, workerVars
<1>13. CASE LoginKept(c)
  <2>1. /\ job[c].at = "settling" /\ (Return(c) \/ Throw(c))
        /\ session' = [browser |-> job[c].browser, idle |-> 0]
        /\ UNCHANGED <<browsers, pending, thrown, replaced>>
    BY <1>13 DEF LoginKept
  <2>2. job[c].browser \in Browsers /\ ~OtpFlow /\ pending = None /\ session = None
    BY <1>1, <2>1 DEF Sound, SiteSound
  <2>3. SiteSound'
    BY <1>1, <2>1, <2>2, NewRecords DEF SiteSound
  <2>4. \A b \in Browsers : browsers'[b] = "open" => Recorded(b)'
    <3>1. session.browser = NoBrowser
      BY <1>1, <2>2, SiteRecords
    <3> QED BY <1>1, <2>1, <2>2, <3>1, WorkerAssumption DEF Recorded
  <2> QED BY <1>3, <2>1, <2>3, <2>4, Rests
<1> QED BY <1>6, <1>7, <1>8, <1>9, <1>10, <1>11, <1>12, <1>13

LEMMA OtpSteps ==
  ASSUME WorkerInv, NEW c \in Calls,
         StartOtp(c) \/ OtpAccepted(c) \/ OtpKept(c) \/ OtpReverted(c) \/ OtpClosed(c)
  PROVE  WorkerInv'
<1> USE DEF IsAt
<1>0. Running(c)
  BY DEF StartOtp, OtpAccepted, OtpKept, OtpReverted, OtpClosed
<1>1. /\ LockInv /\ JobsRest /\ SiteSound /\ Sound(c) /\ job[c] \in Jobs
      /\ \A b \in Browsers : browsers[b] = "open" => Recorded(b) \/ job[c].browser = b
  BY <1>0, RunnerHolds
<1>2. Return(c) \/ Throw(c) => LockInv' /\ JobsRest' /\ \A d \in Calls : ~Running(d)'
  BY <1>0, <1>1, Returns
(* Of a code's browser that still runs, pending tells.                     *)
<1>3. job[c].at \in {"submitting", "closing_otp"} =>
        \A b \in Browsers : browsers[b] = "open" => Recorded(b)
  BY <1>1 DEF Sound, Recorded, OnPending
<1>4. ASSUME NEW place \in {"submitting", "closing_otp"}, NEW b \in Browsers, Await(c, place, b),
             job[c].kind = "otp", session = None, pending = None \/ pending.browser = b,
             browsers' = browsers \/ browsers' = Closing(browsers, b),
             (pending = None \/ place = "closing_otp") => browsers'[b] # "open",
             \A d \in Browsers : browsers[d] = "open" => Recorded(d),
             UNCHANGED <<session, pending, thrown, replaced>>
      PROVE  WorkerInv'
  <2>1. /\ LockInv' /\ JobsRest' /\ Running(c)' /\ \A d \in Calls : Running(d)' => d = c
        /\ job'[c] = [kind |-> "otp", at |-> place, browser |-> b]
    BY <1>0, <1>1, <1>4, Awaits DEF Places
  <2>2. Sound(c)'
    BY <1>4, <2>1 DEF Sound, OnPending
  <2>3. SiteSound' /\ \A d \in Browsers : browsers'[d] = "open" => browsers[d] = "open"
    BY <1>1, <1>4, BrowserStates DEF SiteSound
  <2> QED BY <1>4, <2>1, <2>2, <2>3, Goes DEF Recorded
<1>5. CASE StartOtp(c)
  <2>1. /\ job[c].at = "start" /\ job[c].kind = "otp"
        /\ UNCHANGED <<session, pending, thrown, replaced>>
    BY <1>5 DEF StartOtp
  <2>2. \A b \in Browsers : browsers[b] = "open" => Recorded(b)
    BY <1>1, <2>1, WorkerAssumption DEF Sound
  <2>3. CASE ~OtpFlow \/ pending = None
    <3>1. (Return(c) \/ Throw(c)) /\ UNCHANGED browsers
      BY <1>5, <2>3 DEF StartOtp
    <3> QED BY <1>1, <1>2, <2>1, <2>2, <3>1, Rests DEF SiteSound, Recorded
  <2>4. CASE ~(~OtpFlow \/ pending = None)
    <3>1. pending.browser \in Browsers /\ session = None
      BY <1>1, <2>4, SiteRecords DEF SiteSound
    <3>2. CASE pending.age > OtpLimit
      <4>1. browsers' = Closing(browsers, pending.browser)
            /\ Await(c, "closing_otp", pending.browser)
        BY <1>5, <2>4, <3>2 DEF StartOtp
      <4>2. browsers'[pending.browser] # "open"
        BY <1>1, <3>1, <4>1, BrowserStates DEF SiteSound
      <4> QED BY <1>4, <2>1, <2>2, <3>1, <4>1, <4>2
    <3>3. CASE ~(pending.age > OtpLimit)
      <4>1. UNCHANGED browsers /\ Await(c, "submitting", pending.browser)
        BY <1>5, <2>4, <3>3 DEF StartOtp
      <4> QED BY <1>4, <2>1, <2>2, <2>4, <3>1, <4>1
    <3> QED BY <3>2, <3>3
  <2> QED BY <2>3, <2>4
<1>6. CASE OtpAccepted(c)
  <2>1. /\ job[c].at = "submitting" /\ Return(c) /\ pending' = None
        /\ session' = [browser |-> job[c].browser, idle |-> 0]
        /\ UNCHANGED <<browsers, thrown, replaced>>
    BY <1>6 DEF OtpAccepted
  <2>2. job[c].browser \in Browsers /\ session = None /\ OnPending(c)
    BY <1>1, <2>1 DEF Sound
  <2>3. SiteSound'
    BY <1>1, <2>1, <2>2, NewRecords DEF SiteSound
  <2>4. \A b \in Browsers : browsers'[b] = "open" => Recorded(b)'
    <3>1. session.browser = NoBrowser /\ pending.browser \in {NoBrowser, job[c].browser}
      BY <1>1, <2>2, SiteRecords DEF OnPending
    <3> QED BY <1>3, <2>1, <3>1, WorkerAssumption DEF Recorded
  <2> QED BY <1>2, <2>1, <2>3, <2>4, Rests
<1>7. CASE OtpKept(c)
  <2>1. job[c].at = "submitting" /\ (Return(c) \/ Throw(c)) /\ UNCHANGED workerVars
    BY <1>7 DEF OtpKept
  <2> QED BY <1>1, <1>2, <1>3, <2>1, Rests DEF SiteSound, Recorded, workerVars
<1>8. CASE OtpReverted(c)
  <2>1. /\ job[c].at = "submitting" /\ browsers' = Closing(browsers, job[c].browser)
        /\ Await(c, "closing_otp", job[c].browser)
        /\ UNCHANGED <<session, pending, thrown, replaced>>
    BY <1>8 DEF OtpReverted
  <2>2. job[c].kind = "otp" /\ job[c].browser \in Browsers /\ session = None /\ OnPending(c)
    BY <1>1, <2>1 DEF Sound
  <2>3. browsers'[job[c].browser] # "open"
    BY <1>1, <2>1, <2>2, BrowserStates DEF SiteSound
  <2> QED BY <1>3, <1>4, <2>1, <2>2, <2>3 DEF OnPending
<1>9. CASE OtpClosed(c)
  <2>1. /\ job[c].at = "closing_otp" /\ Return(c) /\ pending' = None
        /\ browsers' = Closed(browsers, job[c].browser)
        /\ UNCHANGED <<session, thrown, replaced>>
    BY <1>9 DEF OtpClosed
  <2>2. job[c].browser \in Browsers /\ session = None /\ OnPending(c)
    BY <1>1, <2>1 DEF Sound
  <2>3. SiteSound' /\ \A b \in Browsers :
          browsers'[b] = "open" => browsers[b] = "open" /\ b # job[c].browser
    BY <1>1, <2>1, <2>2, BrowserStates DEF SiteSound
  <2>4. pending.browser \in {NoBrowser, job[c].browser}
    BY <1>1, <2>2, SiteRecords DEF OnPending
  <2>5. \A b \in Browsers : browsers'[b] = "open" => Recorded(b)'
    BY <1>3, <2>1, <2>3, <2>4, WorkerAssumption DEF Recorded
  <2> QED BY <1>2, <2>1, <2>3, <2>5, Rests
<1> QED BY <1>5, <1>6, <1>7, <1>8, <1>9

LEMMA ExtractorSteps ==
  ASSUME WorkerInv, NEW c \in Calls, ExtractorReturns(c) \/ ExtractorTimesOut(c)
  PROVE  WorkerInv'
<1>1. /\ Running(c) /\ job[c].at = "extracting" /\ (Return(c) \/ Throw(c))
      /\ session' \in {session, [session EXCEPT !.idle = 0]}
      /\ UNCHANGED <<browsers, pending, thrown, replaced>>
  BY DEF ExtractorReturns, ExtractorTimesOut, IsAt
<1>2. /\ LockInv /\ JobsRest /\ SiteSound /\ Sound(c) /\ job[c] \in Jobs
      /\ \A b \in Browsers : browsers[b] = "open" => Recorded(b) \/ job[c].browser = b
  BY <1>1, RunnerHolds
<1>3. OnSession(c)
  BY <1>1, <1>2 DEF Sound
<1>4. /\ pending = None /\ session' \in SessionRecords \cup {None}
      /\ session'.browser = session.browser
  BY <1>1, <1>2, <1>3, SiteRecords DEF SiteSound, OnSession
<1>5. SiteSound' /\ \A b \in Browsers : browsers'[b] = "open" => Recorded(b)'
  BY <1>1, <1>2, <1>3, <1>4 DEF SiteSound, Recorded, OnSession
<1> QED BY <1>1, <1>2, <1>5, Returns, Rests

-----------------------------------------------------------------------------
(* The steps that do not wait for the lock, and the calls that do.         *)

(* What is Sound stays so when the site's records keep their browsers, or  *)
(* lose the one that waits for a code and close it.                        *)
LEMMA SoundKept ==
  ASSUME NEW c \in Calls, Sound(c), job'[c] = job[c],
         session' = None <=> session = None, session'.browser = session.browser,
         \/ (pending' = None <=> pending = None) /\ pending'.browser = pending.browser
         \/ /\ pending' = None /\ pending # None
            /\ pending.browser \in Browsers => browsers'[pending.browser] # "open",
         \A b \in Browsers : browsers'[b] = "open" => browsers[b] = "open"
  PROVE  Sound(c)'
  BY DEF Sound, OnSession, OnPending

(* A step that starts and ends no call, and loses track of no browser.     *)
LEMMA Aside ==
  ASSUME WorkerInv, LockInv', SiteSound', job' \in [Calls -> Jobs],
         \A c \in Calls : Running(c)' <=> Running(c),
         \A c \in Calls : Running(c) => job'[c] = job[c],
         \A c \in Calls : job'[c].at = job[c].at /\ job'[c].browser = job[c].browser,
         session' = None <=> session = None, session'.browser = session.browser,
         \/ (pending' = None <=> pending = None) /\ pending'.browser = pending.browser
         \/ /\ pending' = None /\ pending # None
            /\ browsers'[pending.browser] # "open",
         \A b \in Browsers : browsers'[b] = "open" => browsers[b] = "open",
         \A b \in Browsers : browsers'[b] = "open" =>
           (b \in thrown => b \in thrown') /\ (b \in replaced => b \in replaced')
  PROVE  WorkerInv'
<1>1. JobsRest'
  BY DEF WorkerInv, JobsRest
<1>2. BrowsersAccounted'
  BY DEF WorkerInv, BrowsersAccounted, HeldByCall
<1>3. \A c \in Calls : Running(c)' => Sound(c)'
  BY SoundKept DEF WorkerInv
<1> QED BY <1>1, <1>2, <1>3 DEF WorkerInv

LEMMA CallsComeAndGo ==
  ASSUME WorkerInv, NEW c \in Calls,
         StartCall(c) \/ Release(c) \/ \E kind \in Kinds : Request(c, kind)
  PROVE  WorkerInv'
<1>1. LockInv' /\ LockTypeOK
  BY LockInvStep DEF WorkerInv, LockInv, StartCall, Release, Request, LockNext
<1>2. SiteSound' /\ UNCHANGED <<session, pending, browsers, thrown, replaced>>
  BY DEF WorkerInv, SiteSound, StartCall, Release, Request, workerVars
<1>3. CASE StartCall(c)
  <2>1. Start(c) /\ job' = job /\ ~Running(c)
    BY <1>3 DEF StartCall, Start, Running
  <2>2. \A d \in Calls : Running(d)' <=> (Running(d) \/ d = c)
    BY <1>1, <2>1 DEF Start, Running, LockTypeOK
  <2>3. JobsRest'
    BY <2>1, <2>2 DEF WorkerInv, JobsRest
  <2>4. BrowsersAccounted'
    BY <1>2, <2>1, <2>2 DEF WorkerInv, BrowsersAccounted, HeldByCall
  <2>5. \A d \in Calls : Running(d) => Sound(d)'
    BY <1>2, <2>1, SoundKept DEF WorkerInv
  <2>6. Sound(c)'
    <3>1. job'[c].at = "start" /\ job'[c].browser = NoBrowser
      BY <2>1 DEF WorkerInv, JobsRest
    <3> QED BY <3>1 DEF Sound
  <2> QED BY <1>1, <1>2, <2>2, <2>3, <2>4, <2>5, <2>6 DEF WorkerInv
<1>4. CASE Release(c)
  <2>1. job' = job /\ \A d \in Calls : Running(d)' <=> Running(d)
    BY <1>1, <1>4 DEF Release, Forget, Running, Settled, LockTypeOK
  <2> QED BY <1>1, <1>2, <2>1, Aside DEF WorkerInv, JobsRest
<1>5. ASSUME NEW kind \in Kinds, Request(c, kind) PROVE WorkerInv'
  <2>1. /\ job' = [job EXCEPT ![c].kind = kind] /\ ~Running(c) /\ job \in [Calls -> Jobs]
        /\ \A d \in Calls : Running(d)' <=> Running(d)
    BY <1>1, <1>5 DEF Request, Enter, Running, LockTypeOK, WorkerInv, JobsRest
  <2>2. /\ job' \in [Calls -> Jobs]
        /\ \A d \in Calls : d # c => job'[d] = job[d]
        /\ \A d \in Calls : job'[d].at = job[d].at /\ job'[d].browser = job[d].browser
    BY <2>1 DEF Jobs
  <2> QED BY <1>1, <1>2, <2>1, <2>2, Aside
<1> QED BY <1>3, <1>4, <1>5

LEMMA SweepStep ==
  ASSUME WorkerInv, Sweep PROVE WorkerInv'
<1>1. /\ LockInv /\ LockTypeOK /\ SiteSound /\ job \in [Calls -> Jobs]
      /\ UNCHANGED <<session, thrown, replaced>>
  BY DEF WorkerInv, LockInv, JobsRest, Sweep
<1>2. LockInv' /\ job' \in [Calls -> Jobs]
      /\ (\A d \in Calls : Running(d)' <=> Running(d))
      /\ (\A d \in Calls : Running(d) => job'[d] = job[d])
      /\ (\A d \in Calls : job'[d].at = job[d].at /\ job'[d].browser = job[d].browser)
  <2>1. CASE SessionIdle
    <3>1. PICK c \in Calls : Enter(c) /\ job' = [job EXCEPT ![c].kind = "logout"]
      BY <2>1, WorkerAssumption DEF Sweep
    <3>2. LockInv'
      BY <1>1, <3>1, EnterKeepsInv
    <3>3. ~Running(c) /\ \A d \in Calls : Running(d)' <=> Running(d)
      BY <1>1, <3>1 DEF Enter, Running, LockTypeOK
    <3>4. /\ job' \in [Calls -> Jobs]
          /\ \A d \in Calls : d # c => job'[d] = job[d]
          /\ \A d \in Calls : job'[d].at = job[d].at /\ job'[d].browser = job[d].browser
      BY <1>1, <3>1 DEF Jobs, Kinds
    <3> QED BY <3>2, <3>3, <3>4
  <2>2. CASE ~SessionIdle
    <3>1. UNCHANGED <<lockVars, job>>
      BY <2>2 DEF Sweep
    <3> QED BY <1>1, <3>1, LockInvStep DEF lockVars, Running
  <2> QED BY <2>1, <2>2
<1>3. CASE OtpOverdue
  <2>1. /\ pending # None /\ pending' = None /\ pending.browser \in Browsers
        /\ browsers' = Closing(browsers, pending.browser)
    BY <1>1, <1>3, SiteRecords DEF Sweep, OtpOverdue
  <2>2. SiteSound' /\ browsers'[pending.browser] # "open"
        /\ \A b \in Browsers : browsers'[b] = "open" => browsers[b] = "open"
    BY <1>1, <2>1, BrowserStates DEF SiteSound
  <2> QED BY <1>1, <1>2, <2>1, <2>2, Aside
<1>4. CASE ~OtpOverdue
  <2>1. UNCHANGED <<browsers, pending>>
    BY <1>4 DEF Sweep
  <2>2. SiteSound'
    BY <1>1, <2>1 DEF SiteSound
  <2> QED BY <1>1, <1>2, <2>1, <2>2, Aside
<1> QED BY <1>3, <1>4

LEMMA ChromiumSteps ==
  ASSUME WorkerInv, NEW b \in Browsers, DetachedEnds(b) \/ BrowserEnds(b)
  PROVE  WorkerInv'
<1>1. UNCHANGED <<lockVars, job, session, pending>>
  BY DEF DetachedEnds, BrowserEnds
<1>2. LockInv' /\ job' \in [Calls -> Jobs] /\ (\A c \in Calls : Running(c)' <=> Running(c))
  BY <1>1, LockInvStep DEF lockVars, Running, WorkerInv, JobsRest
<1>3. /\ browsers' \in [Browsers -> {"gone", "open", "closing"}]
      /\ \A d \in Browsers : browsers'[d] = "open" =>
           /\ browsers[d] = "open"
           /\ (d \in thrown => d \in thrown') /\ (d \in replaced => d \in replaced')
  <2>1. CASE DetachedEnds(b)
    BY <2>1 DEF DetachedEnds, WorkerInv, SiteSound
  <2>2. CASE BrowserEnds(b)
    BY <2>2, BrowserStates DEF BrowserEnds, WorkerInv, SiteSound
  <2> QED BY <2>1, <2>2
<1>4. SiteSound'
  BY <1>1, <1>3 DEF WorkerInv, SiteSound
<1> QED BY <1>1, <1>2, <1>3, <1>4, Aside

LEMMA TickStep ==
  ASSUME WorkerInv, Tick PROVE WorkerInv'
<1>1. SiteSound /\ UNCHANGED <<lockVars, job, browsers, thrown, replaced>>
  BY DEF Tick, WorkerInv
<1>2. LockInv' /\ job' \in [Calls -> Jobs] /\ (\A c \in Calls : Running(c)' <=> Running(c))
  BY <1>1, LockInvStep DEF lockVars, Running, WorkerInv, JobsRest
<1>3. /\ session' \in SessionRecords \cup {None} /\ (session' = None <=> session = None)
      /\ session'.browser = session.browser
  <2>1. CASE session = None
    BY <2>1 DEF Tick
  <2>2. CASE session # None
    <3>1. session \in SessionRecords /\ session' = [session EXCEPT !.idle = Older(session.idle, IdleLimit)]
      BY <1>1, <2>2 DEF Tick, SiteSound
    <3>2. Older(session.idle, IdleLimit) \in 0..IdleLimit
      BY <3>1, WorkerAssumption DEF Older, SessionRecords
    <3> QED BY <2>2, <3>1, <3>2, WorkerAssumption DEF SessionRecords, None
  <2> QED BY <2>1, <2>2
<1>4. /\ pending' \in PendingRecords \cup {None} /\ (pending' = None <=> pending = None)
      /\ pending'.browser = pending.browser
  <2>1. CASE pending = None
    BY <2>1 DEF Tick
  <2>2. CASE pending # None
    <3>1. pending \in PendingRecords /\ pending' = [pending EXCEPT !.age = Older(pending.age, OtpLimit + 1)]
      BY <1>1, <2>2 DEF Tick, SiteSound
    <3>2. Older(pending.age, OtpLimit + 1) \in 0..(OtpLimit + 1)
      BY <3>1, WorkerAssumption DEF Older, PendingRecords
    <3> QED BY <2>2, <3>1, <3>2, WorkerAssumption DEF PendingRecords, None
  <2> QED BY <2>1, <2>2
<1>5. SiteSound'
  BY <1>1, <1>3, <1>4 DEF SiteSound
<1> QED BY <1>1, <1>2, <1>3, <1>4, <1>5, Aside

LEMMA WorkerInvInit == WorkerInit => WorkerInv
<1> SUFFICES ASSUME WorkerInit PROVE WorkerInv
  OBVIOUS
<1>1. LockInv /\ \A c \in Calls : ~Running(c)
  BY LockInvInit DEF WorkerInit, LockInit, Running
<1>2. SiteSound /\ BrowsersAccounted
  BY DEF WorkerInit, SiteSound, BrowsersAccounted
<1>3. JobsRest
  BY DEF WorkerInit, JobsRest, NoJob, Jobs, Kinds, Places
<1> QED BY <1>1, <1>2, <1>3 DEF WorkerInv

LEMMA WorkerInvStep == WorkerInv /\ [WorkerNext]_vars => WorkerInv'
<1> SUFFICES ASSUME WorkerInv, [WorkerNext]_vars PROVE WorkerInv'
  OBVIOUS
<1>1. ASSUME NEW c \in Calls, Step(c) PROVE WorkerInv'
  BY <1>1, LogoutSteps, CheckSteps, LoginSteps, OtpSteps, ExtractorSteps DEF Step
<1>2. CASE UNCHANGED vars
  <2>1. UNCHANGED <<lockVars, job, browsers, session, pending, thrown, replaced>>
    BY <1>2 DEF vars, workerVars
  <2>2. LockInv' /\ (\A c \in Calls : Running(c)' <=> Running(c))
    BY <2>1, LockInvStep DEF lockVars, Running, WorkerInv
  <2> QED BY <2>1, <2>2, Aside DEF WorkerInv, SiteSound, JobsRest
<1> QED BY <1>1, <1>2, CallsComeAndGo, SweepStep, ChromiumSteps, TickStep DEF WorkerNext

THEOREM WorkerInvariance == WorkerSpec => []WorkerInv
  BY WorkerInvInit, WorkerInvStep, PTL DEF WorkerSpec

(* Every Chromium that runs is accounted for: _login, _provideOtp, _logout *)
(* and the reaper lose none but by the two ways `thrown` and `replaced`.   *)
THEOREM BrowsersStayAccounted == WorkerSpec => []BrowsersAccounted
<1>1. WorkerInv => BrowsersAccounted
  BY DEF WorkerInv
<1> QED BY <1>1, WorkerInvariance, PTL

(* A site never has two logged-in browsers, nor one beside a login.        *)
THEOREM SessionsAreSingle == WorkerSpec => []OneSession
<1>1. WorkerInv => OneSession
  BY DEF WorkerInv, SiteSound, OneSession, Sound
<1> QED BY <1>1, WorkerInvariance, PTL

(* When _logout returns to its caller, no session and no waiting login is  *)
(* left, although the reaper's sweep does not wait for the lock; when it   *)
(* throws, at getSite, all is as it was.                                   *)
THEOREM LogoutsClear == WorkerSpec => LogoutClears
<1>1. ASSUME WorkerInv, [WorkerNext]_vars, NEW c \in Calls, Running(c),
             job[c].kind = "logout", phase'[c] \in Settled
      PROVE  \/ phase'[c] = "fulfilled" /\ session' = None /\ pending' = None /\ cooldown' = 0
             \/ phase'[c] = "rejected" /\ UNCHANGED <<session, pending, cooldown, browsers>>
  <2>0. ~Running(c)'
    BY <1>1 DEF Running, Settled
  <2>1. /\ LockInv /\ LockTypeOK /\ SiteSound /\ Sound(c) /\ job[c] \in Jobs
    BY <1>1, RunnerHolds DEF LockInv
  <2>2. job[c].at \in {"start", "closing_pending", "closing_session"}
    BY <1>1, <2>1 DEF Sound, Jobs, Places
  <2>3. ASSUME UNCHANGED lockVars PROVE FALSE
    BY <1>1, <2>0, <2>3 DEF lockVars, Running
  <2>4. ASSUME NEW d \in Calls, StartCall(d) \/ Release(d) \/ Enter(d) PROVE FALSE
    BY <1>1, <2>0, <2>1, <2>4 DEF StartCall, Release, Start, Forget, Enter, Running, Settled, LockTypeOK
  <2>5. ASSUME NEW d \in Calls, Step(d) PROVE StartLogout(c) \/ PendingClosed(c) \/ SessionClosed(c)
    <3>1. Running(d)
      BY <2>5 DEF Step, StartThrows, StartLogout, StartCheck, StartWithoutSession, StartOtp, StartDiagnosis,
         StartFormDiagnosis, Probe, ProbeActive, ProbeNeedsUser, ProbeInactive, ProbeThrows,
         PendingClosed, SessionClosed, Launch, PageThrows, FormAsksForCode, FormMisfit,
         MisfitClosed, FormSubmitted, LoginKept, OtpAccepted, OtpKept, OtpReverted, OtpClosed,
         ExtractorReturns, ExtractorTimesOut, IsAt
    <3>2. d = c
      BY <1>1, <2>1, <3>1, OneRuns
    <3> QED BY <1>1, <2>2, <2>5, <3>2
        DEF Step, StartThrows, StartCheck, StartWithoutSession, StartOtp, StartDiagnosis,
         StartFormDiagnosis, Probe, ProbeActive, ProbeNeedsUser, ProbeInactive, ProbeThrows,
         Launch, PageThrows, FormAsksForCode, FormMisfit,
         MisfitClosed, FormSubmitted, LoginKept, OtpAccepted, OtpKept, OtpReverted, OtpClosed,
         ExtractorReturns, ExtractorTimesOut, IsAt
  <2>6. ASSUME NEW place, NEW b, Await(c, place, b) PROVE FALSE
    BY <2>3, <2>6 DEF Await
  <2>7. AfterLogout(c) => cooldown' = 0 /\ phase'[c] = "fulfilled"
    BY <1>1, <2>1 DEF AfterLogout, Return, Finish, LockTypeOK
  <2>8. CASE StartLogout(c)
    <3>1. CASE GetSiteThrows(c)
      BY <2>1, <2>8, <3>1 DEF StartLogout, Logout, GetSiteThrows, Throw, Finish, LockTypeOK
    <3>2. CASE ~GetSiteThrows(c)
      BY <2>6, <2>7, <2>8, <3>2 DEF StartLogout, Logout, LogoutSession
    <3> QED BY <3>1, <3>2
  <2>9. CASE PendingClosed(c)
    BY <2>6, <2>7, <2>9 DEF PendingClosed, LogoutSession
  <2>10. CASE SessionClosed(c)
    <3>1. pending = None /\ session' = None /\ pending' = pending /\ AfterLogout(c)
      BY <2>1, <2>10 DEF SessionClosed, IsAt, Sound, OnSession, SiteSound
    <3> QED BY <2>7, <3>1
  <2>11. CASE Sweep
    <3>1. \E d \in Calls : Enter(d)
      BY <2>3, <2>11, WorkerAssumption DEF Sweep
    <3> QED BY <2>4, <3>1
  <2>12. CASE \E d \in Calls, kind \in Kinds : Request(d, kind)
    BY <2>4, <2>12 DEF Request
  <2>13. CASE \E b \in Browsers : DetachedEnds(b) \/ BrowserEnds(b)
    BY <2>3, <2>13 DEF DetachedEnds, BrowserEnds
  <2>14. CASE Tick \/ UNCHANGED vars
    BY <2>3, <2>14 DEF Tick, vars
  <2> QED BY <1>1, <2>4, <2>5, <2>8, <2>9, <2>10, <2>11, <2>12, <2>13, <2>14 DEF WorkerNext
<1>2. WorkerInv /\ [WorkerNext]_vars =>
        [\A c \in Calls : Running(c) /\ job[c].kind = "logout"
           => /\ phase'[c] = "fulfilled" => session' = None /\ pending' = None /\ cooldown' = 0
              /\ phase'[c] = "rejected"  => UNCHANGED <<session, pending, cooldown, browsers>>]_vars
  BY <1>1 DEF Settled
<1> QED BY <1>2, WorkerInvariance, PTL DEF WorkerSpec, LogoutClears
=============================================================================
