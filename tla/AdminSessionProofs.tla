------------------------- MODULE AdminSessionProofs -------------------------
(***************************************************************************)
(* The safety of Octo's admin session, for every number of ids, handlers,  *)
(* faults and every value of the time limits.                              *)
(*                                                                         *)
(* The argument is about all the copies of the store at once.  A copy that *)
(* waits to be written is as good as the store (CopiesSound); one whose    *)
(* handler still waits for the runner becomes so by the runner's answer    *)
(* (CallsSound); and a session that is being opened is unknown to the      *)
(* runner until then (OpensFresh), so that closing is for good.            *)
(***************************************************************************)
EXTENDS AdminSession, TLAPS

(* A lease l that is live for session i, opened at n.                      *)
Held(l, i, n) ==
  l # NoLease /\ l.id = i /\ l.status = "active" /\ l.expires = n + TTL

OneIn(s) == \A i, j \in Active(s) : i = j

Backed(s, l, c, k) ==
  \A i \in Active(s) : s[i].issued + TTL > k => Held(l, i, s[i].issued) \/ i \in c

Young(s, u) == \A i \in Active(s) : s[i].last <= u[i]

Sound(s, l, c, k, u) == OneIn(s) /\ Backed(s, l, c, k) /\ Young(s, u)

(* What the copy of a handler that waits for the runner holds.             *)
Awaits(q, s, l, c, k) ==
  /\ q.op = "open"  => /\ Active(s) = {q.id}
                       /\ s[q.id].issued = q.at /\ s[q.id].last = q.at
  /\ q.op = "close" => Active(s) = {}
  /\ q.op = "use"   => /\ Active(s) = {q.id}
                       /\ s[q.id].last = q.at /\ Backed(s, l, c, k)

InCall(t) == threads[t].step = "calling"
Opening(t) == InCall(t) /\ threads[t].call.op = "open"

CopiesSound ==
  /\ Sound(sessions, lease, closed, clock, lastUse)
  /\ \A t \in Threads : threads[t].step = "writing"
       => Sound(threads[t].copy, lease, closed, clock, lastUse)

CallsSound ==
  \A t \in Threads : InCall(t)
    => /\ threads[t].call.at <= clock
       /\ Awaits(threads[t].call, threads[t].copy, lease, closed, clock)

Unknown(i) == i \in drawn /\ i \notin closed /\ (lease # NoLease => lease.id # i)

OpensFresh ==
  /\ \A t \in Threads : Opening(t) => Unknown(threads[t].call.id)
  /\ \A q \in late : q.op = "open" => Unknown(q.id)
  /\ \A t, v \in Threads : Opening(t) /\ Opening(v) /\ t # v
       => threads[t].call.id # threads[v].call.id
  /\ \A t \in Threads, q \in late : Opening(t) /\ q.op = "open"
       => threads[t].call.id # q.id
  /\ \A p, q \in late : p.op = "open" /\ q.op = "open" /\ p # q => p.id # q.id

ClosedIsDrawn == closed \subseteq drawn /\ (lease # NoLease => lease.id \in drawn)

LiveIsOpen == lease # NoLease /\ lease.status = "active" => lease.id \notin closed

AdminInv ==
  /\ AdminTypeOK /\ CopiesSound /\ CallsSound /\ OpensFresh
  /\ ClosedIsDrawn /\ LiveIsOpen /\ IdleLimitHolds

-----------------------------------------------------------------------------
(* Stores                                                                  *)

LEMMA StoreElements ==
  ASSUME NEW s \in Store
  PROVE  /\ DOMAIN s \subseteq Ids
         /\ s \in [DOMAIN s -> Entry]
         /\ \A i \in DOMAIN s : s[i] \in Entry
BY DEF Store

LEMMA StoreIntro ==
  ASSUME NEW D \in SUBSET Ids, NEW s \in [D -> Entry]
  PROVE  s \in Store
BY DEF Store

LEMMA ActiveInside ==
  ASSUME NEW s \in Store
  PROVE  /\ Active(s) \subseteq DOMAIN s
         /\ Active(s) \subseteq Ids
         /\ \A i \in Active(s) : s[i].issued \in Nat /\ s[i].last \in Nat
BY StoreElements DEF Active, Entry

(* Marking what is over makes no session active and changes no active one. *)
LEMMA LookedActive ==
  ASSUME AdminTypeOK
  PROVE  /\ Looked \in Store
         /\ Active(Looked) \subseteq Active(sessions)
         /\ \A i \in Active(Looked) : Looked[i] = sessions[i] /\ ~Over(sessions[i])
<1>1. sessions \in Store /\ DOMAIN sessions \subseteq Ids
      /\ \A i \in DOMAIN sessions : sessions[i] \in Entry
  BY StoreElements DEF AdminTypeOK
<1>2. Looked \in [DOMAIN sessions -> Entry]
  BY <1>1 DEF Looked, Entry
<1>3. Looked \in Store
  BY <1>1, <1>2, StoreIntro
<1>4. ASSUME NEW i \in Active(Looked)
      PROVE  i \in Active(sessions) /\ Looked[i] = sessions[i] /\ ~Over(sessions[i])
  <2>1. i \in DOMAIN sessions /\ Looked[i].status = "active"
    BY <1>4 DEF Active, Looked
  <2>2. sessions[i] \in Entry
    BY <1>1, <2>1
  <2>3. ~(sessions[i].status = "active" /\ Over(sessions[i]))
    BY <2>1, <2>2 DEF Looked, Entry
  <2>4. Looked[i] = sessions[i]
    BY <2>1, <2>3 DEF Looked
  <2>5. QED
    BY <2>1, <2>3, <2>4 DEF Active
<1>5. QED
  BY <1>3, <1>4
-----------------------------------------------------------------------------
(* Soundness of a copy survives every step: time goes on, use is recorded, *)
(* and a live lease ends only by being closed.                             *)

Onward(l, c, k, u, l2, c2, k2, u2) ==
  /\ k <= k2 /\ c \subseteq c2
  /\ \A i \in Ids : u[i] <= u2[i]
  /\ \A i \in Ids, n \in Nat :
       Held(l, i, n) /\ n + TTL > k2 => Held(l2, i, n) \/ i \in c2

LEMMA BackedOnward ==
  ASSUME NEW s \in Store, NEW l, NEW c, NEW k \in Int, NEW u,
         NEW l2, NEW c2, NEW k2 \in Int, NEW u2,
         Onward(l, c, k, u, l2, c2, k2, u2), Backed(s, l, c, k)
  PROVE  Backed(s, l2, c2, k2)
<1> SUFFICES ASSUME NEW i \in Active(s), s[i].issued + TTL > k2
             PROVE  Held(l2, i, s[i].issued) \/ i \in c2
  BY DEF Backed
<1>1. i \in Ids /\ s[i].issued \in Nat
  BY ActiveInside
<1>2. s[i].issued + TTL > k
  BY <1>1, AdminAssumption DEF Onward
<1>3. Held(l, i, s[i].issued) \/ i \in c
  BY <1>2 DEF Backed
<1>4. QED
  BY <1>1, <1>3 DEF Onward

LEMMA SoundOnward ==
  ASSUME NEW s \in Store, NEW l, NEW c, NEW k \in Int, NEW u \in [Ids -> Nat],
         NEW l2, NEW c2, NEW k2 \in Int, NEW u2 \in [Ids -> Nat],
         Onward(l, c, k, u, l2, c2, k2, u2), Sound(s, l, c, k, u)
  PROVE  Sound(s, l2, c2, k2, u2)
<1>1. Backed(s, l2, c2, k2)
  BY BackedOnward DEF Sound
<1>2. ASSUME NEW i \in Active(s)
      PROVE  s[i].last <= u2[i]
  <2>1. i \in Ids /\ s[i].last \in Nat
    BY ActiveInside
  <2>2. s[i].last <= u[i] /\ u[i] <= u2[i]
    BY <2>1 DEF Sound, Young, Onward
  <2>3. QED
    BY <2>1, <2>2
<1>3. QED
  BY <1>1, <1>2 DEF Sound, Young

-----------------------------------------------------------------------------
(* What the runner does, to a call of a handler or to a late one           *)

RunnerMoves == Onward(lease, closed, clock, lastUse, lease', closed', clock', lastUse')

RunnerTyped ==
  /\ lease' \in Lease \cup {NoLease} /\ closed' \subseteq Ids
  /\ lastUse' \in [Ids -> 0..MaxClock] /\ waiting' \in [Ids -> Nat]

LEMMA CallTyped ==
  ASSUME NEW q \in Call
  PROVE  q.op \in {"open", "close", "use"} /\ q.id \in Ids /\ q.at \in 1..MaxClock
BY DEF Call

LEMMA PerformsMoves ==
  ASSUME AdminTypeOK, clock' = clock, NEW q \in Call, NEW now \in 1..clock,
         Accepts(q, now), Performs(q)
  PROVE  RunnerMoves /\ RunnerTyped /\ lastUse'[q.id] >= (IF q.op = "close" THEN 0 ELSE q.at)
<1>1. q.op \in {"open", "close", "use"} /\ q.id \in Ids /\ q.at \in 1..MaxClock
  BY CallTyped
<1>2. lastUse \in [Ids -> 0..MaxClock] /\ clock \in 1..MaxClock /\ closed \subseteq Ids
      /\ lease \in Lease \cup {NoLease} /\ TTL \in Nat \ {0} /\ MaxClock \in Nat \ {0}
  BY AdminAssumption DEF AdminTypeOK
<1>3. /\ lastUse' \in [Ids -> 0..MaxClock] /\ closed' \subseteq Ids
      /\ \A i \in Ids : lastUse[i] <= lastUse'[i]
      /\ closed \subseteq closed'
      /\ lastUse'[q.id] >= (IF q.op = "close" THEN 0 ELSE q.at)
  BY <1>1, <1>2 DEF Performs, Later
<1>3a. waiting' \in [Ids -> Nat]
  BY <1>1 DEF Performs, AdminTypeOK
<1>4. CASE q.op = "open"
  <2>1. lease' = [id |-> q.id, expires |-> q.at + TTL, status |-> "active"]
    BY <1>4 DEF Performs
  <2>2. lease' \in Lease
    BY <1>1, <1>2, <2>1 DEF Lease
  <2>3. ASSUME NEW i \in Ids, NEW n \in Nat, Held(lease, i, n), n + TTL > clock'
        PROVE  FALSE
    BY <1>2, <1>4, <2>3 DEF Accepts, Held
  <2>4. QED
    BY <1>2, <1>3, <1>3a, <2>2, <2>3 DEF RunnerMoves, RunnerTyped, Onward
<1>5. CASE q.op = "close"
  <2>1. lease' = [lease EXCEPT !.status = "revoked"] /\ closed' = closed \cup {q.id}
    BY <1>5 DEF Performs
  <2>2. lease # NoLease /\ lease.id = q.id /\ lease \in Lease
    BY <1>2, <1>5 DEF Accepts
  <2>3. lease' \in Lease
    BY <2>1, <2>2 DEF Lease
  <2>4. ASSUME NEW i \in Ids, NEW n \in Nat, Held(lease, i, n)
        PROVE  i \in closed'
    BY <2>1, <2>2, <2>4 DEF Held
  <2>5. QED
    BY <1>2, <1>3, <1>3a, <2>3, <2>4 DEF RunnerMoves, RunnerTyped, Onward
<1>6. CASE q.op = "use"
  <2>1. lease' = lease
    BY <1>6 DEF Performs
  <2>2. QED
    BY <1>2, <1>3, <1>3a, <2>1 DEF RunnerMoves, RunnerTyped, Onward
<1>7. QED
  BY <1>1, <1>4, <1>5, <1>6

LEMMA RefusesMoves ==
  ASSUME AdminTypeOK, clock' = clock, NEW q \in Call, Refuses(q)
  PROVE  RunnerMoves /\ RunnerTyped
<1>1. /\ lastUse \in [Ids -> 0..MaxClock] /\ clock \in 1..MaxClock /\ closed \subseteq Ids
      /\ lease \in Lease \cup {NoLease} /\ TTL \in Nat /\ MaxClock \in Nat
      /\ closed' = closed /\ lastUse' = lastUse /\ waiting' \in [Ids -> Nat]
  BY AdminAssumption DEF AdminTypeOK, Refuses, history
<1>2. CASE lease' = lease
  BY <1>1, <1>2 DEF RunnerMoves, RunnerTyped, Onward
<1>3. CASE /\ lease # NoLease /\ lease.expires <= clock
           /\ lease' = [lease EXCEPT !.status = "expired"]
  <2>1. lease \in Lease
    BY <1>1, <1>3
  <2>2. lease' \in Lease /\ lease.expires \in Nat
    BY <1>3, <2>1 DEF Lease
  <2>3. ASSUME NEW i \in Ids, NEW n \in Nat, Held(lease, i, n), n + TTL > clock'
        PROVE  FALSE
    BY <1>1, <1>3, <2>2, <2>3 DEF Held
  <2>4. QED
    BY <1>1, <2>2, <2>3 DEF RunnerMoves, RunnerTyped, Onward
<1>4. QED
  BY <1>2, <1>3 DEF Refuses

-----------------------------------------------------------------------------
(* Threads                                                                 *)

LEMMA ThreadTyped ==
  ASSUME AdminTypeOK, NEW t \in Threads
  PROVE  /\ threads[t] \in Calling \cup Writing \cup {Idle}
         /\ InCall(t) => threads[t] \in Calling /\ threads[t].call \in Call /\ threads[t].copy \in Store
         /\ threads[t].step = "writing" => threads[t] \in Writing /\ threads[t].copy \in Store
         /\ threads[t] = Idle => threads[t].step = "idle"
BY DEF AdminTypeOK, Calling, Writing, Idle, InCall

(* What a step that moves the runner or the clock leaves true of the       *)
(* handlers and copies it does not touch.                                  *)
LEMMA Carried ==
  ASSUME AdminInv, RunnerMoves, RunnerTyped, clock' \in 1..MaxClock
  PROVE  /\ Sound(sessions, lease', closed', clock', lastUse')
         /\ \A t \in Threads : threads[t].step = "writing"
              => Sound(threads[t].copy, lease', closed', clock', lastUse')
         /\ \A t \in Threads : InCall(t)
              => /\ threads[t].call.at <= clock'
                 /\ Awaits(threads[t].call, threads[t].copy, lease', closed', clock')
                 /\ threads[t].call.op = "use"
                      => threads[t].call.at - lastUse'[threads[t].call.id] <= IdleTTL
<1>1. /\ clock \in Int /\ clock' \in Int /\ MaxClock \in Nat /\ IdleTTL \in Nat
      /\ lastUse \in [Ids -> Nat] /\ lastUse' \in [Ids -> Nat]
      /\ sessions \in Store
  BY AdminAssumption DEF AdminInv, AdminTypeOK, RunnerTyped
<1>2. Sound(sessions, lease', closed', clock', lastUse')
  BY <1>1, SoundOnward DEF AdminInv, CopiesSound, RunnerMoves
<1>3. ASSUME NEW t \in Threads, threads[t].step = "writing"
      PROVE  Sound(threads[t].copy, lease', closed', clock', lastUse')
  <2>1. threads[t].copy \in Store
    BY <1>3, ThreadTyped DEF AdminInv
  <2>2. Sound(threads[t].copy, lease, closed, clock, lastUse)
    BY <1>3 DEF AdminInv, CopiesSound
  <2>3. QED
    BY <1>1, <2>1, <2>2, SoundOnward DEF RunnerMoves
<1>4. ASSUME NEW t \in Threads, InCall(t)
      PROVE  /\ threads[t].call.at <= clock'
             /\ Awaits(threads[t].call, threads[t].copy, lease', closed', clock')
             /\ threads[t].call.op = "use"
                  => threads[t].call.at - lastUse'[threads[t].call.id] <= IdleTTL
  <2> DEFINE q == threads[t].call
             s == threads[t].copy
  <2>1. q \in Call /\ s \in Store /\ q.id \in Ids /\ q.at \in Nat
    BY <1>4, ThreadTyped, CallTyped DEF AdminInv
  <2>2. q.at <= clock /\ Awaits(q, s, lease, closed, clock)
    BY <1>4 DEF AdminInv, CallsSound
  <2>3. q.at <= clock'
    BY <1>1, <2>1, <2>2 DEF RunnerMoves, Onward
  <2>4. Backed(s, lease, closed, clock) => Backed(s, lease', closed', clock')
    BY <1>1, <2>1, BackedOnward DEF RunnerMoves
  <2>5. Awaits(q, s, lease', closed', clock')
    BY <2>2, <2>4 DEF Awaits
  <2>6. ASSUME q.op = "use"
        PROVE  q.at - lastUse'[q.id] <= IdleTTL
    <3>1. q.at - lastUse[q.id] <= IdleTTL
      BY <1>4, <2>6 DEF AdminInv, IdleLimitHolds, InCall
    <3>2. lastUse[q.id] <= lastUse'[q.id] /\ lastUse[q.id] \in Nat /\ lastUse'[q.id] \in Nat
      BY <1>1, <2>1 DEF RunnerMoves, Onward
    <3>3. QED
      BY <1>1, <2>1, <3>1, <3>2
  <2>7. QED
    BY <2>3, <2>5, <2>6
<1>5. QED
  BY <1>2, <1>3, <1>4

(* A handler's answer makes its copy sound.                                *)
LEMMA AnswerIsSound ==
  ASSUME AdminInv, NEW t \in Threads, InCall(t), clock' = clock,
         NEW now \in 1..clock, Accepts(threads[t].call, now), Performs(threads[t].call)
  PROVE  Sound(threads[t].copy, lease', closed', clock', lastUse')
<1> DEFINE q == threads[t].call
           s == threads[t].copy
<1>1. q \in Call /\ s \in Store /\ q.op \in {"open", "close", "use"} /\ q.id \in Ids /\ q.at \in Nat
  BY ThreadTyped, CallTyped DEF AdminInv
<1>2. RunnerMoves /\ RunnerTyped /\ lastUse'[q.id] >= (IF q.op = "close" THEN 0 ELSE q.at)
  BY <1>1, PerformsMoves DEF AdminInv
<1>3. Awaits(q, s, lease, closed, clock) /\ clock' \in 1..MaxClock
  BY DEF AdminInv, CallsSound, AdminTypeOK
<1>4. Awaits(q, s, lease', closed', clock')
  BY <1>2, <1>3, Carried
<1>5. CASE q.op = "open"
  <2>1. Active(s) = {q.id} /\ s[q.id].issued = q.at /\ s[q.id].last = q.at
    BY <1>3, <1>5 DEF Awaits
  <2>2. Held(lease', q.id, q.at)
    BY <1>5 DEF Performs, Held, NoLease
  <2>3. QED
    BY <1>2, <1>5, <2>1, <2>2 DEF Sound, OneIn, Backed, Young
<1>6. CASE q.op = "close"
  BY <1>3, <1>6 DEF Awaits, Sound, OneIn, Backed, Young
<1>7. CASE q.op = "use"
  BY <1>2, <1>4, <1>7 DEF Awaits, Sound, OneIn, Young
<1>8. QED
  BY <1>1, <1>5, <1>6, <1>7

-----------------------------------------------------------------------------
(* One lemma per kind of step                                              *)

LEMMA ReadStep ==
  ASSUME AdminInv, NEW t \in Threads, NEW copy \in Store, ReadsCopy(t, copy), drawn' = drawn,
         Sound(copy, lease, closed, clock, lastUse)
  PROVE  AdminInv'
<1>1. /\ threads' = [threads EXCEPT ![t] = [step |-> "writing", copy |-> copy]]
      /\ UNCHANGED <<sessions, lease, late, clock, history, waiting, faults>>
  BY DEF ReadsCopy, Goes
<1>2. /\ threads'[t] = [step |-> "writing", copy |-> copy]
      /\ \A v \in Threads : v # t => threads'[v] = threads[v]
  BY <1>1 DEF AdminInv, AdminTypeOK
<1>3. AdminTypeOK'
  BY <1>1 DEF AdminInv, AdminTypeOK, Writing, history
<1>4. CopiesSound'
  BY <1>1, <1>2 DEF AdminInv, CopiesSound, history
<1>5. CallsSound'
  BY <1>1, <1>2 DEF AdminInv, CallsSound, InCall, history
<1>6. OpensFresh'
  BY <1>1, <1>2 DEF AdminInv, OpensFresh, Opening, InCall, Unknown, history
<1>7. IdleLimitHolds'
  BY <1>1, <1>2 DEF AdminInv, IdleLimitHolds, history
<1>8. QED
  BY <1>1, <1>3, <1>4, <1>5, <1>6, <1>7 DEF AdminInv, ClosedIsDrawn, LiveIsOpen, history

LEMMA CallStep ==
  ASSUME AdminInv, NEW t \in Threads, NEW op \in {"open", "close", "use"}, NEW i \in Ids,
         NEW copy \in Store, Calls(t, op, i, copy),
         Awaits([op |-> op, id |-> i, at |-> clock], copy, lease, closed, clock),
         op = "use"  => clock - lastUse[i] <= IdleTTL,
         op = "open" => i \notin drawn /\ drawn' = drawn \cup {i},
         op # "open" => drawn' = drawn
  PROVE  AdminInv'
<1> DEFINE q == [op |-> op, id |-> i, at |-> clock]
<1>1. /\ threads' = [threads EXCEPT ![t] = [step |-> "calling", copy |-> copy, call |-> q]]
      /\ UNCHANGED <<sessions, lease, late, clock, closed, lastUse, waiting, faults>>
      /\ threads[t] = Idle
  BY DEF Calls, Goes
<1>2. /\ threads'[t] = [step |-> "calling", copy |-> copy, call |-> q]
      /\ \A v \in Threads : v # t => threads'[v] = threads[v]
  BY <1>1 DEF AdminInv, AdminTypeOK
<1>3. AdminTypeOK'
  <2>1. q \in Call /\ [step |-> "calling", copy |-> copy, call |-> q] \in Calling
    BY DEF AdminInv, AdminTypeOK, Call, Calling
  <2>2. drawn' \subseteq Ids
    BY DEF AdminInv, AdminTypeOK
  <2>3. QED
    BY <1>1, <2>1, <2>2 DEF AdminInv, AdminTypeOK
<1>4. CopiesSound'
  BY <1>1, <1>2 DEF AdminInv, CopiesSound
<1>5. CallsSound'
  <2>1. clock \in Int
    BY DEF AdminInv, AdminTypeOK
  <2>2. QED
    BY <1>1, <1>2, <2>1 DEF AdminInv, CallsSound, InCall
<1>6. OpensFresh'
  <2>1. drawn \subseteq drawn'
    OBVIOUS
  <2>2. \A j : Unknown(j) => Unknown(j)'
    BY <1>1, <2>1 DEF Unknown
  <2>3. op = "open" => Unknown(i)' /\ ~Unknown(i)
    BY <1>1 DEF Unknown, AdminInv, ClosedIsDrawn
  <2>4. \A v \in Threads : v # t => (Opening(v)' <=> Opening(v)) /\ threads'[v].call = threads[v].call
    BY <1>2 DEF Opening, InCall
  <2>5. (Opening(t)' <=> op = "open") /\ threads'[t].call.id = i
    BY <1>2 DEF Opening, InCall
  <2>6. QED
    BY <1>1, <2>2, <2>3, <2>4, <2>5 DEF AdminInv, OpensFresh
<1>7. ClosedIsDrawn' /\ LiveIsOpen'
  BY <1>1 DEF AdminInv, ClosedIsDrawn, LiveIsOpen
<1>8. IdleLimitHolds'
  BY <1>1, <1>2 DEF AdminInv, IdleLimitHolds
<1>9. QED
  BY <1>3, <1>4, <1>5, <1>6, <1>7, <1>8 DEF AdminInv

(* The six ways a handler begins.                                          *)
LEMMA LookSound ==
  ASSUME AdminInv
  PROVE  Looked \in Store /\ Sound(Looked, lease, closed, clock, lastUse)
<1>1. Looked \in Store /\ Active(Looked) \subseteq Active(sessions)
      /\ \A i \in Active(Looked) : Looked[i] = sessions[i]
  BY LookedActive DEF AdminInv
<1>2. Sound(sessions, lease, closed, clock, lastUse)
  BY DEF AdminInv, CopiesSound
<1>3. QED
  BY <1>1, <1>2 DEF Sound, OneIn, Backed, Young

LEMMA BeginStep ==
  ASSUME AdminInv, NEW t \in Threads,
         \/ BeginLook(t) \/ BeginOther(t) \/ BeginUnread(t)
         \/ \E i \in Ids : BeginStart(t, i) \/ BeginRevoke(t, i) \/ BeginUse(t, i)
  PROVE  AdminInv'
<1>0. /\ sessions \in Store /\ clock \in 1..MaxClock
      /\ Sound(sessions, lease, closed, clock, lastUse)
  BY DEF AdminInv, AdminTypeOK, CopiesSound
<1>1. CASE BeginLook(t)
  BY <1>1, LookSound, ReadStep DEF BeginLook, ReadsCopy, history
<1>2. CASE BeginOther(t)
  BY <1>0, <1>2, ReadStep DEF BeginOther, ReadsCopy, history
<1>2a. CASE BeginUnread(t)
  <2> DEFINE s == [i \in {} |-> 0]
  <2>1. s \in [{} -> Entry] /\ Active(s) = {}
    BY DEF Active
  <2>2. s \in Store
    BY <2>1, StoreIntro
  <2>3. Sound(s, lease, closed, clock, lastUse)
    BY <2>1 DEF Sound, OneIn, Backed, Young
  <2>4. ReadsCopy(t, s) /\ drawn' = drawn
    BY <1>2a DEF BeginUnread, ReadsCopy, history
  <2> HIDE DEF s
  <2>5. QED
    BY <2>2, <2>3, <2>4, ReadStep
<1>3. ASSUME NEW i \in Ids, BeginStart(t, i)
      PROVE  AdminInv'
  <2> DEFINE e == [status |-> "active", issued |-> clock, last |-> clock]
             s == With(Looked, i, e)
  <2>1. e \in Entry /\ DOMAIN Looked \subseteq Ids /\ \A j \in DOMAIN Looked : Looked[j] \in Entry
    BY <1>0, LookSound, StoreElements DEF Entry
  <2>2. s \in [DOMAIN Looked \cup {i} -> Entry]
    BY <2>1 DEF With
  <2>3. s \in Store
    BY <2>1, <2>2, StoreIntro
  <2>4. Active(s) = {i} /\ s[i] = e
    BY <1>3 DEF BeginStart, Active, With
  <2>5. QED
    BY <1>3, <2>3, <2>4, CallStep DEF BeginStart, Awaits
<1>4. ASSUME NEW i \in Ids, Found(i)
      PROVE  /\ i \in DOMAIN Looked /\ Looked[i] \in Entry /\ Looked[i] = sessions[i]
             /\ clock - sessions[i].last <= IdleTTL
             /\ \A e \in Entry : [Looked EXCEPT ![i] = e] \in Store
  <2>1. i \in Active(Looked)
    BY <1>4 DEF Found
  <2>2. i \in DOMAIN Looked /\ Looked[i] \in Entry /\ DOMAIN Looked \subseteq Ids
        /\ Looked \in [DOMAIN Looked -> Entry]
    BY <2>1, LookSound, StoreElements, ActiveInside
  <2>3. Looked[i] = sessions[i] /\ ~Over(sessions[i])
    BY <2>1, LookedActive DEF AdminInv
  <2>4. clock - sessions[i].last <= IdleTTL
    BY <1>0, <2>2, <2>3, AdminAssumption DEF Over, Entry
  <2>5. ASSUME NEW e \in Entry
        PROVE  [Looked EXCEPT ![i] = e] \in Store
    <3>1. [Looked EXCEPT ![i] = e] \in [DOMAIN Looked -> Entry]
      BY <2>2
    <3>2. QED
      BY <2>2, <3>1, StoreIntro
  <2>6. QED
    BY <2>2, <2>3, <2>4, <2>5
<1>5. ASSUME NEW i \in Ids, BeginRevoke(t, i)
      PROVE  AdminInv'
  <2> DEFINE e == [Looked[i] EXCEPT !.status = "revoked"]
             s == [Looked EXCEPT ![i].status = "revoked"]
  <2>1. Found(i)
    BY <1>5 DEF BeginRevoke
  <2>2. e \in Entry /\ s = [Looked EXCEPT ![i] = e] /\ e.status = "revoked"
    BY <1>4, <2>1 DEF Entry
  <2>3. s \in Store
    BY <1>4, <2>1, <2>2
  <2>4. Active(s) = {}
    BY <1>4, <2>1, <2>2 DEF Found, Active
  <2>5. QED
    BY <1>5, <2>3, <2>4, CallStep DEF BeginRevoke, Awaits
<1>6. ASSUME NEW i \in Ids, BeginUse(t, i)
      PROVE  AdminInv'
  <2> DEFINE e == [Looked[i] EXCEPT !.last = clock]
             s == [Looked EXCEPT ![i].last = clock]
  <2>1. Found(i)
    BY <1>6 DEF BeginUse
  <2>2. e \in Entry /\ s = [Looked EXCEPT ![i] = e] /\ e.last = clock
        /\ e.status = Looked[i].status /\ e.issued = Looked[i].issued
    BY <1>0, <1>4, <2>1 DEF Entry
  <2>3. s \in Store
    BY <1>4, <2>1, <2>2
  <2>4. Active(s) = {i} /\ s[i].last = clock /\ s[i].issued = Looked[i].issued
    BY <1>4, <2>1, <2>2 DEF Found, Active
  <2>5. Backed(s, lease, closed, clock)
    BY <2>1, <2>4, LookSound DEF Sound, Backed, Found
  <2>6. clock - lastUse[i] <= IdleTTL
    <3>1. Looked[i].last <= lastUse[i]
      BY <2>1, LookSound DEF Sound, Young, Found
    <3>2. Looked[i].last \in Int /\ lastUse[i] \in Int
      BY <1>4, <2>1 DEF Entry, AdminInv, AdminTypeOK
    <3>3. QED
      BY <1>0, <1>4, <2>1, <3>1, <3>2, AdminAssumption
  <2>7. QED
    BY <1>6, <2>3, <2>4, <2>5, <2>6, CallStep DEF BeginUse, Awaits
<1>7. QED
  BY <1>1, <1>2, <1>2a, <1>3, <1>5, <1>6

-----------------------------------------------------------------------------
(* What performing a pending call does to the bookkeeping of ids: the call *)
(* is no longer pending, and it did not revive a closed id.                *)
LEMMA PerformsIds ==
  ASSUME AdminInv, NEW q \in Call, NEW now \in 1..clock, Accepts(q, now), Performs(q),
         q.op = "open" => Unknown(q.id)
  PROVE  /\ ClosedIsDrawn' /\ LiveIsOpen'
         /\ \A i \in Ids : Unknown(i) /\ (q.op = "open" => i # q.id) => Unknown(i)'
         /\ \A i \in closed : lastUse'[i] = lastUse[i] /\ waiting'[i] = waiting[i]
<1>1. q.op \in {"open", "close", "use"} /\ q.id \in Ids
  BY CallTyped
<1>2. lease \in Lease \cup {NoLease} /\ drawn' = drawn /\ lastUse \in [Ids -> 0..MaxClock]
  BY DEF Performs, AdminInv, AdminTypeOK
<1>2a. waiting \in [Ids -> Nat] /\ closed \subseteq Ids
       /\ \/ waiting' = waiting
          \/ q.op = "use" /\ waiting' = [waiting EXCEPT ![q.id] = @ + 1]
  BY DEF Performs, AdminInv, AdminTypeOK
<1>3. CASE q.op = "open"
  <2>1. lease' = [id |-> q.id, expires |-> q.at + TTL, status |-> "active"] /\ closed' = closed
        /\ lastUse' = [lastUse EXCEPT ![q.id] = Later(@, q.at)]
    BY <1>3 DEF Performs
  <2>2. q.id \in drawn /\ q.id \notin closed
    BY <1>3 DEF Unknown
  <2>3. QED
    BY <1>2, <1>2a, <1>3, <2>1, <2>2 DEF AdminInv, ClosedIsDrawn, LiveIsOpen, Unknown
<1>4. CASE q.op = "close"
  <2>1. lease' = [lease EXCEPT !.status = "revoked"] /\ closed' = closed \cup {q.id}
        /\ lastUse' = lastUse
    BY <1>4 DEF Performs
  <2>2. lease # NoLease /\ lease.id = q.id /\ lease \in Lease
    BY <1>2, <1>4 DEF Accepts
  <2>3. lease'.id = lease.id /\ lease'.status = "revoked" /\ lease' # NoLease
    BY <2>1, <2>2 DEF Lease, NoLease
  <2>4. QED
    BY <1>2, <1>2a, <1>4, <2>1, <2>2, <2>3 DEF AdminInv, ClosedIsDrawn, LiveIsOpen, Unknown
<1>5. CASE q.op = "use"
  <2>1. lease' = lease /\ closed' = closed /\ lastUse' = [lastUse EXCEPT ![q.id] = Later(@, q.at)]
    BY <1>5 DEF Performs
  <2>2. q.id \notin closed
    BY <1>5 DEF Accepts, LeaseLive, AdminInv, LiveIsOpen
  <2>3. QED
    BY <1>2, <1>2a, <2>1, <2>2 DEF AdminInv, ClosedIsDrawn, LiveIsOpen, Unknown
<1>6. QED
  BY <1>1, <1>3, <1>4, <1>5

LEMMA RefusesIds ==
  ASSUME AdminInv, NEW q \in Call, Refuses(q)
  PROVE  /\ ClosedIsDrawn' /\ LiveIsOpen'
         /\ \A i \in Ids : Unknown(i) => Unknown(i)'
<1>1. closed' = closed /\ drawn' = drawn
  BY DEF Refuses, history
<1>2. CASE lease' = lease
  BY <1>1, <1>2 DEF AdminInv, ClosedIsDrawn, LiveIsOpen, Unknown
<1>3. CASE lease # NoLease /\ lease' = [lease EXCEPT !.status = "expired"]
  <2>1. lease \in Lease
    BY <1>3 DEF AdminInv, AdminTypeOK
  <2>2. lease'.id = lease.id /\ lease'.status = "expired"
    BY <1>3, <2>1 DEF Lease
  <2>3. QED
    BY <1>1, <1>3, <2>2 DEF AdminInv, ClosedIsDrawn, LiveIsOpen, Unknown
<1>4. QED
  BY <1>2, <1>3 DEF Refuses

LEMMA AnsweredStep ==
  ASSUME AdminInv, NEW t \in Threads, Answered(t)
  PROVE  AdminInv'
<1> DEFINE q == threads[t].call
<1>1. InCall(t) /\ UNCHANGED <<sessions, late, clock, faults>>
      /\ threads' = [threads EXCEPT ![t] = [step |-> "writing", copy |-> threads[t].copy]]
  BY DEF Answered, InCall, Goes
<1>2. q \in Call /\ q.id \in Ids /\ threads[t].copy \in Store
      /\ q.at \in 1..MaxClock /\ clock \in 1..MaxClock
  BY <1>1, ThreadTyped, CallTyped DEF AdminInv, AdminTypeOK
<1>3. PICK now \in 1..clock : Accepts(q, now) /\ Performs(q)
  BY <1>2 DEF Answered
<1>4. /\ threads'[t] = [step |-> "writing", copy |-> threads[t].copy]
      /\ \A v \in Threads : v # t => threads'[v] = threads[v]
  BY <1>1 DEF AdminInv, AdminTypeOK
<1>5. RunnerMoves /\ RunnerTyped
  BY <1>1, <1>2, <1>3, PerformsMoves DEF AdminInv
<1>6. AdminTypeOK'
  <2>1. threads'[t] \in Writing /\ drawn' = drawn
    BY <1>2, <1>3, <1>4 DEF Writing, Performs
  <2>2. QED
    BY <1>1, <1>5, <2>1 DEF AdminInv, AdminTypeOK, RunnerTyped
<1>7. Sound(threads[t].copy, lease', closed', clock', lastUse')
  BY <1>1, <1>3, AnswerIsSound
<1>8. CopiesSound' /\ CallsSound' /\ IdleLimitHolds'
  BY <1>1, <1>2, <1>4, <1>5, <1>7, Carried DEF CopiesSound, CallsSound, IdleLimitHolds, InCall
<1>9. q.op = "open" => Unknown(q.id)
  BY <1>1 DEF AdminInv, OpensFresh, Opening
<1>10. /\ ClosedIsDrawn' /\ LiveIsOpen'
       /\ \A i \in Ids : Unknown(i) /\ (q.op = "open" => i # q.id) => Unknown(i)'
  BY <1>2, <1>3, <1>9, PerformsIds
<1>11. OpensFresh'
  <2>1. ~Opening(t)' /\ \A v \in Threads : v # t => (Opening(v)' <=> Opening(v))
                                            /\ threads'[v].call = threads[v].call
    BY <1>4 DEF Opening, InCall
  <2>2. \A v \in Threads : Opening(v) => threads[v].call.id \in Ids
    BY ThreadTyped, CallTyped DEF AdminInv, Opening
  <2>3. \A p \in late : p.id \in Ids
    BY CallTyped DEF AdminInv, AdminTypeOK
  <2>4. q.op = "open" => Opening(t)
    BY <1>1 DEF Opening
  <2>5. \A v \in Threads : v # t /\ Opening(v) => Unknown(threads[v].call.id)'
    BY <1>10, <2>1, <2>2, <2>4 DEF AdminInv, OpensFresh
  <2>6. \A p \in late : p.op = "open" => Unknown(p.id)'
    BY <1>10, <2>3, <2>4 DEF AdminInv, OpensFresh
  <2>7. QED
    BY <1>1, <2>1, <2>5, <2>6 DEF AdminInv, OpensFresh
<1>12. QED
  BY <1>6, <1>8, <1>10, <1>11 DEF AdminInv

LEMMA RefusedStep ==
  ASSUME AdminInv, NEW t \in Threads, Refused(t)
  PROVE  AdminInv'
<1> DEFINE q == threads[t].call
<1>1. InCall(t) /\ Refuses(q) /\ UNCHANGED <<sessions, late, clock, faults>>
      /\ threads' = [threads EXCEPT ![t] = Idle]
  BY DEF Refused, InCall, Goes
<1>2. q \in Call /\ clock' \in 1..MaxClock
  BY <1>1, ThreadTyped DEF AdminInv, AdminTypeOK
<1>3. /\ threads'[t] = Idle
      /\ \A v \in Threads : v # t => threads'[v] = threads[v]
  BY <1>1 DEF AdminInv, AdminTypeOK
<1>4. RunnerMoves /\ RunnerTyped
  BY <1>1, <1>2, RefusesMoves DEF AdminInv
<1>5. AdminTypeOK'
  BY <1>1, <1>4 DEF AdminInv, AdminTypeOK, RunnerTyped, Refuses, history
<1>6. CopiesSound' /\ CallsSound' /\ IdleLimitHolds'
  BY <1>1, <1>2, <1>3, <1>4, Carried DEF CopiesSound, CallsSound, IdleLimitHolds, InCall, Idle
<1>7. /\ ClosedIsDrawn' /\ LiveIsOpen'
      /\ \A i \in Ids : Unknown(i) => Unknown(i)'
  BY <1>1, <1>2, RefusesIds
<1>8. OpensFresh'
  <2>1. ~Opening(t)' /\ \A v \in Threads : v # t => (Opening(v)' <=> Opening(v))
                                            /\ threads'[v].call = threads[v].call
    BY <1>3 DEF Opening, InCall, Idle
  <2>2. \A v \in Threads : Opening(v) => threads[v].call.id \in Ids
    BY ThreadTyped, CallTyped DEF AdminInv, Opening
  <2>3. \A p \in late : p.id \in Ids
    BY CallTyped DEF AdminInv, AdminTypeOK
  <2>4. QED
    BY <1>1, <1>7, <2>1, <2>2, <2>3 DEF AdminInv, OpensFresh
<1>9. QED
  BY <1>5, <1>6, <1>7, <1>8 DEF AdminInv

-----------------------------------------------------------------------------
LEMMA WriteStep ==
  ASSUME AdminInv, NEW t \in Threads, Write(t)
  PROVE  AdminInv'
<1>1. /\ threads[t].step = "writing" /\ sessions' = threads[t].copy
      /\ threads' = [threads EXCEPT ![t] = Idle]
      /\ UNCHANGED <<lease, late, clock, drawn, closed, lastUse, waiting, faults>>
  BY DEF Write, Goes, history
<1>2. /\ threads'[t] = Idle
      /\ \A v \in Threads : v # t => threads'[v] = threads[v]
  BY <1>1 DEF AdminInv, AdminTypeOK
<1>3. threads[t].copy \in Store
  BY <1>1, ThreadTyped DEF AdminInv
<1>4. AdminTypeOK'
  BY <1>1, <1>3 DEF AdminInv, AdminTypeOK
<1>5. CopiesSound' /\ CallsSound' /\ IdleLimitHolds'
  BY <1>1, <1>2 DEF AdminInv, CopiesSound, CallsSound, IdleLimitHolds, InCall, Idle
<1>6. OpensFresh'
  BY <1>1, <1>2 DEF AdminInv, OpensFresh, Opening, InCall, Unknown, Idle
<1>7. QED
  BY <1>1, <1>4, <1>5, <1>6 DEF AdminInv, ClosedIsDrawn, LiveIsOpen

LEMMA AbandonStep ==
  ASSUME AdminInv, NEW t \in Threads, Abandon(t)
  PROVE  AdminInv'
<1>1. /\ threads' = [threads EXCEPT ![t] = Idle]
      /\ late' = IF InCall(t) THEN late \cup {threads[t].call} ELSE late
      /\ faults' = faults + 1 /\ faults < MaxFaults
      /\ UNCHANGED <<sessions, lease, clock, drawn, closed, lastUse, waiting>>
  BY DEF Abandon, Goes, history, InCall
<1>2. /\ threads'[t] = Idle
      /\ \A v \in Threads : v # t => threads'[v] = threads[v]
  BY <1>1 DEF AdminInv, AdminTypeOK
<1>3. AdminTypeOK'
  <2>1. late' \subseteq Call
    BY <1>1, ThreadTyped DEF AdminInv, AdminTypeOK
  <2>2. faults' \in 0..MaxFaults
    BY <1>1, AdminAssumption DEF AdminInv, AdminTypeOK
  <2>3. QED
    BY <1>1, <2>1, <2>2 DEF AdminInv, AdminTypeOK
<1>4. CopiesSound' /\ CallsSound' /\ IdleLimitHolds'
  BY <1>1, <1>2 DEF AdminInv, CopiesSound, CallsSound, IdleLimitHolds, InCall, Idle
<1>5. OpensFresh'
  <2>1. ~Opening(t)' /\ \A v \in Threads : v # t => (Opening(v)' <=> Opening(v))
                                            /\ threads'[v].call = threads[v].call
    BY <1>2 DEF Opening, InCall, Idle
  <2>2. \A i : Unknown(i)' <=> Unknown(i)
    BY <1>1 DEF Unknown
  <2>3. \A q \in late' : q \in late \/ (q = threads[t].call /\ InCall(t))
    BY <1>1
  <2>4. \A q \in late' : q.op = "open" => q \in late \/ (q = threads[t].call /\ Opening(t))
    BY <2>3 DEF Opening
  <2>5. QED
    BY <2>1, <2>2, <2>4 DEF AdminInv, OpensFresh
<1>6. QED
  BY <1>1, <1>3, <1>4, <1>5 DEF AdminInv, ClosedIsDrawn, LiveIsOpen

LEMMA LateStep ==
  ASSUME AdminInv, NEW q \in late, PerformsLate(q) \/ LostLate(q)
  PROVE  AdminInv'
<1>1. q \in Call /\ clock \in 1..MaxClock /\ q.at \in 1..MaxClock
  BY CallTyped DEF AdminInv, AdminTypeOK
<1>2. late' = late \ {q} /\ UNCHANGED <<sessions, threads, clock, faults>>
  BY DEF PerformsLate, LostLate
<1>3. q.op = "open" => Unknown(q.id)
  BY DEF AdminInv, OpensFresh
<1>4. /\ RunnerMoves /\ RunnerTyped /\ drawn' = drawn
      /\ ClosedIsDrawn' /\ LiveIsOpen'
      /\ \A i \in Ids : Unknown(i) /\ (q.op = "open" => i # q.id) => Unknown(i)'
  <2>1. ASSUME NEW now \in 1..clock, Accepts(q, now), Performs(q)
        PROVE  /\ RunnerMoves /\ RunnerTyped /\ drawn' = drawn
               /\ ClosedIsDrawn' /\ LiveIsOpen'
               /\ \A i \in Ids : Unknown(i) /\ (q.op = "open" => i # q.id) => Unknown(i)'
    BY <1>1, <1>2, <1>3, <2>1, PerformsMoves, PerformsIds DEF AdminInv, Performs
  <2>2. CASE Refuses(q)
    BY <1>1, <1>2, <2>2, RefusesMoves, RefusesIds DEF AdminInv, Refuses, history
  <2>3. CASE LostLate(q)
    BY <2>3, AdminAssumption DEF LostLate, history, RunnerMoves, RunnerTyped, Onward, AdminInv,
       AdminTypeOK, ClosedIsDrawn, LiveIsOpen, Unknown
  <2>4. QED
    BY <1>1, <2>1, <2>2, <2>3 DEF PerformsLate
<1>5. AdminTypeOK'
  BY <1>2, <1>4 DEF AdminInv, AdminTypeOK, RunnerTyped
<1>6. CopiesSound' /\ CallsSound' /\ IdleLimitHolds'
  BY <1>1, <1>2, <1>4, Carried DEF CopiesSound, CallsSound, IdleLimitHolds, InCall
<1>7. OpensFresh'
  <2>1. \A v \in Threads : (Opening(v)' <=> Opening(v)) /\ threads'[v].call = threads[v].call
    BY <1>2 DEF Opening, InCall
  <2>2. \A v \in Threads : Opening(v) => threads[v].call.id \in Ids
    BY ThreadTyped, CallTyped DEF AdminInv, Opening
  <2>3. \A p \in late : p.id \in Ids
    BY CallTyped DEF AdminInv, AdminTypeOK
  <2>4. \A v \in Threads : Opening(v) => Unknown(threads[v].call.id)'
    BY <1>4, <2>1, <2>2 DEF AdminInv, OpensFresh
  <2>5. \A p \in late \ {q} : p.op = "open" => Unknown(p.id)'
    BY <1>4, <2>3 DEF AdminInv, OpensFresh
  <2>6. QED
    BY <1>2, <2>1, <2>4, <2>5 DEF AdminInv, OpensFresh
<1>8. QED
  BY <1>4, <1>5, <1>6, <1>7 DEF AdminInv

LEMMA TickStep ==
  ASSUME AdminInv, Tick
  PROVE  AdminInv'
<1>1. clock < MaxClock /\ clock' = clock + 1
      /\ UNCHANGED <<sessions, lease, threads, late, drawn, closed, lastUse, waiting, faults>>
  BY DEF Tick, history
<1>2. clock' \in 1..MaxClock /\ clock <= clock'
  BY <1>1, AdminAssumption DEF AdminInv, AdminTypeOK
<1>3. RunnerMoves /\ RunnerTyped
  BY <1>1, <1>2 DEF RunnerMoves, RunnerTyped, Onward, AdminInv, AdminTypeOK
<1>4. AdminTypeOK'
  BY <1>1, <1>2 DEF AdminInv, AdminTypeOK
<1>5. CopiesSound' /\ CallsSound' /\ IdleLimitHolds'
  BY <1>1, <1>2, <1>3, Carried DEF CopiesSound, CallsSound, IdleLimitHolds, InCall
<1>6. OpensFresh'
  BY <1>1 DEF AdminInv, OpensFresh, Opening, InCall, Unknown
<1>7. QED
  BY <1>1, <1>4, <1>5, <1>6 DEF AdminInv, ClosedIsDrawn, LiveIsOpen

(* The command of a root exec begins.                                      *)
LEMMA StreamStep ==
  ASSUME AdminInv, NEW i \in Ids, StreamBegins(i)
  PROVE  AdminInv'
<1>1. UNCHANGED <<sessions, lease, threads, late, clock, drawn, closed, lastUse, faults>>
  BY DEF StreamBegins, history
<1>2. waiting' \in [Ids -> Nat]
  BY DEF StreamBegins, AdminInv, AdminTypeOK
<1>3. AdminTypeOK'
  BY <1>1, <1>2 DEF AdminInv, AdminTypeOK
<1>4. QED
  BY <1>1, <1>3 DEF AdminInv, CopiesSound, CallsSound, OpensFresh, Opening, InCall, Unknown,
     ClosedIsDrawn, LiveIsOpen, IdleLimitHolds

(* A lease that is lost with the runner's file counts as closed.           *)
LEMMA LosesStep ==
  ASSUME AdminInv, LosesLease
  PROVE  AdminInv'
<1>1. /\ lease # NoLease /\ closed' = closed \cup {lease.id} /\ lease' = NoLease
      /\ faults < MaxFaults /\ faults' = faults + 1
      /\ UNCHANGED <<sessions, threads, late, clock, drawn, lastUse, waiting>>
  BY DEF LosesLease
<1>2. lease \in Lease /\ lease.id \in Ids /\ clock \in 1..MaxClock
      /\ lastUse \in [Ids -> 0..MaxClock] /\ MaxClock \in Nat
  BY <1>1, AdminAssumption DEF AdminInv, AdminTypeOK, Lease
<1>3. RunnerTyped /\ closed \subseteq closed'
  BY <1>1, <1>2 DEF RunnerTyped, AdminInv, AdminTypeOK
<1>4. \A i \in Ids, n \in Nat : Held(lease, i, n) => i \in closed'
  BY <1>1 DEF Held
<1>5. RunnerMoves
  BY <1>1, <1>2, <1>3, <1>4 DEF RunnerMoves, Onward
<1>6. AdminTypeOK'
  BY <1>1, <1>3, AdminAssumption DEF AdminInv, AdminTypeOK, RunnerTyped
<1>7. CopiesSound' /\ CallsSound' /\ IdleLimitHolds'
  BY <1>1, <1>2, <1>3, <1>5, Carried DEF CopiesSound, CallsSound, IdleLimitHolds, InCall
<1>8. \A i : Unknown(i) => Unknown(i)'
  BY <1>1 DEF Unknown
<1>9. OpensFresh'
  BY <1>1, <1>8 DEF AdminInv, OpensFresh, Opening, InCall
<1>10. ClosedIsDrawn' /\ LiveIsOpen'
  BY <1>1 DEF AdminInv, ClosedIsDrawn, LiveIsOpen
<1>11. QED
  BY <1>6, <1>7, <1>9, <1>10 DEF AdminInv

-----------------------------------------------------------------------------
(* The theorems                                                            *)

LEMMA AdminInvInit == AdminInit => AdminInv
<1> SUFFICES ASSUME AdminInit PROVE AdminInv
  OBVIOUS
<1> USE AdminAssumption DEF AdminInit, NoLease, Idle
<1>1. sessions \in [{} -> Entry] /\ Active(sessions) = {}
  BY DEF Active
<1>2. sessions \in Store
  BY <1>1, StoreIntro
<1>3. AdminTypeOK
  BY <1>2 DEF AdminTypeOK
<1>4. CopiesSound
  BY <1>1 DEF CopiesSound, Sound, OneIn, Backed, Young
<1>5. QED
  BY <1>3, <1>4 DEF AdminInv, CallsSound, OpensFresh, Opening, InCall, ClosedIsDrawn, LiveIsOpen,
     IdleLimitHolds

LEMMA AdminInvStep == AdminInv /\ [AdminNext]_adminVars => AdminInv'
<1> SUFFICES ASSUME AdminInv, [AdminNext]_adminVars PROVE AdminInv'
  OBVIOUS
<1>1. CASE UNCHANGED adminVars
  BY <1>1 DEF adminVars, history, AdminInv, AdminTypeOK, CopiesSound, CallsSound, OpensFresh, Opening, InCall,
     Unknown, ClosedIsDrawn, LiveIsOpen, IdleLimitHolds
<1>2. CASE AdminNext
  BY <1>2, BeginStep, AnsweredStep, RefusedStep, WriteStep, AbandonStep, LateStep, TickStep,
     StreamStep, LosesStep
  DEF AdminNext
<1>3. QED
  BY <1>1, <1>2

THEOREM AdminInvariance == AdminSpec => []AdminInv
BY AdminInvInit, AdminInvStep, PTL DEF AdminSpec

(* Type correctness of the store, the lease and the handlers.              *)
THEOREM AdminTyped == AdminSpec => []AdminTypeOK
BY AdminInvariance, PTL DEF AdminInv

(* However many handlers write stale copies over each other, the store     *)
(* never holds two active sessions.                                        *)
THEOREM NeverTwoSessions == AdminSpec => []OneActiveSession
<1>1. AdminInv => OneActiveSession
  BY DEF AdminInv, CopiesSound, Sound, OneIn, OneActiveSession
<1>2. QED
  BY <1>1, AdminInvariance, PTL

(* An active session before its end is the runner's lease or was closed    *)
(* there.                                                                  *)
THEOREM SessionsAreGranted == AdminSpec => []ActiveIsGranted
<1>1. ASSUME AdminInv, NEW i \in Active(sessions), sessions[i].issued + TTL > clock
      PROVE  LeaseLive(i) \/ i \in closed
  BY <1>1 DEF AdminInv, CopiesSound, Sound, Backed, Held, LeaseLive
<1>2. AdminInv => ActiveIsGranted
  BY <1>1 DEF ActiveIsGranted
<1>3. QED
  BY <1>2, AdminInvariance, PTL

(* Only real use keeps a session alive.                                    *)
THEOREM IdleLimit == AdminSpec => []IdleLimitHolds
BY AdminInvariance, PTL DEF AdminInv

(* After the runner closed a session it takes nothing more on under it.    *)
LEMMA UseStep ==
  ASSUME AdminInv, AdminNext, NEW i \in closed
  PROVE  lastUse'[i] = lastUse[i] /\ waiting'[i] <= waiting[i]
<1>0. waiting \in [Ids -> Nat] /\ waiting[i] \in Nat
  BY DEF AdminInv, AdminTypeOK
<1>1. ASSUME NEW t \in Threads, Answered(t)
      PROVE  lastUse'[i] = lastUse[i] /\ waiting'[i] = waiting[i]
  <2>1. InCall(t) /\ threads[t].call \in Call /\ threads[t].call.at \in 1..MaxClock
    BY <1>1, ThreadTyped, CallTyped DEF Answered, InCall, AdminInv
  <2>2. PICK now \in 1..clock : Accepts(threads[t].call, now) /\ Performs(threads[t].call)
    BY <1>1, <2>1 DEF Answered, AdminInv, AdminTypeOK
  <2>3. threads[t].call.op = "open" => Unknown(threads[t].call.id)
    BY <2>1 DEF AdminInv, OpensFresh, Opening
  <2>4. QED
    BY <2>1, <2>2, <2>3, PerformsIds
<1>2. ASSUME NEW q \in late, PerformsLate(q)
      PROVE  lastUse'[i] = lastUse[i] /\ waiting'[i] = waiting[i]
  <2>1. q \in Call /\ q.at \in 1..MaxClock
    BY CallTyped DEF AdminInv, AdminTypeOK
  <2>2. CASE Refuses(q)
    BY <2>2 DEF Refuses, history
  <2>3. ASSUME NEW now \in 1..clock, Accepts(q, now), Performs(q)
        PROVE  lastUse'[i] = lastUse[i] /\ waiting'[i] = waiting[i]
    <3>1. q.op = "open" => Unknown(q.id)
      BY DEF AdminInv, OpensFresh
    <3>2. QED
      BY <2>1, <2>3, <3>1, PerformsIds
  <2>4. QED
    BY <1>2, <2>1, <2>2, <2>3 DEF PerformsLate, AdminInv, AdminTypeOK
<1>3. ASSUME NEW t \in Threads, ~Answered(t),
             \/ BeginLook(t) \/ BeginOther(t) \/ BeginUnread(t)
             \/ \E j \in Ids : BeginStart(t, j) \/ BeginRevoke(t, j) \/ BeginUse(t, j)
             \/ Refused(t) \/ Write(t) \/ Abandon(t)
      PROVE  lastUse' = lastUse /\ waiting' = waiting
  BY <1>3 DEF BeginLook, BeginOther, BeginUnread, BeginStart, BeginRevoke, BeginUse, ReadsCopy, Calls,
     Refused, Refuses, Write, Abandon, history
<1>4. ASSUME NEW q \in late, LostLate(q)
      PROVE  lastUse' = lastUse /\ waiting' = waiting
  BY <1>4 DEF LostLate, history
<1>5. ASSUME NEW j \in Ids, StreamBegins(j)
      PROVE  lastUse' = lastUse /\ waiting'[i] <= waiting[i]
  BY <1>0, <1>5 DEF StreamBegins, history
<1>6. CASE LosesLease \/ Tick
  BY <1>0, <1>6 DEF LosesLease, Tick, history
<1>7. \/ \E t \in Threads :
           \/ Answered(t)
           \/ /\ ~Answered(t)
              /\ \/ BeginLook(t) \/ BeginOther(t) \/ BeginUnread(t)
                 \/ \E j \in Ids : BeginStart(t, j) \/ BeginRevoke(t, j) \/ BeginUse(t, j)
                 \/ Refused(t) \/ Write(t) \/ Abandon(t)
      \/ \E q \in late : PerformsLate(q) \/ LostLate(q)
      \/ \E j \in Ids : StreamBegins(j)
      \/ LosesLease \/ Tick
  BY DEF AdminNext
<1>8. waiting[i] <= waiting[i]
  BY <1>0
<1>9. QED
  BY <1>1, <1>2, <1>3, <1>4, <1>5, <1>6, <1>7, <1>8

(* A session the runner closed is never named again in anything it         *)
(* accepts, under any interleaving of handlers, late calls and stale       *)
(* copies; root execs of that session that were recorded before the close  *)
(* may still begin, and no further one is recorded.                        *)
THEOREM ClosedIsForGood == AdminSpec => RevokedIsUnused
<1>1. AdminInv /\ [AdminNext]_adminVars
        => [\A i \in closed : lastUse'[i] = lastUse[i] /\ waiting'[i] <= waiting[i]]_adminVars
  BY UseStep
<1>2. QED
  BY <1>1, AdminInvariance, PTL DEF AdminSpec, RevokedIsUnused
=============================================================================
