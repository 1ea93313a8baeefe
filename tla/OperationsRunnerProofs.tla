------------------------ MODULE OperationsRunnerProofs ------------------------
(***************************************************************************)
(* Proofs about the operations runner, for any sets of request, lease and  *)
(* exec ids, any lease time and any ledger sizes.                          *)
(*                                                                         *)
(* The four safety properties are proved together: the account of the      *)
(* ledger needs that a served request is not recorded yet (a record then   *)
(* adds an entry and replaces none), and so does the count of root execs.  *)
(* The lease property needs only that close and open take the lock.        *)
(***************************************************************************)
EXTENDS OperationsRunner, TLAPS

(* The exec id about to be put on file is one Docker handed out.           *)
ExecHandedOut ==
  busy # Free /\ busy.op = "exec_create" /\ busy.phase = "recording"
    => busy.exec \in created

IInv ==
  /\ TypeOK
  /\ ServedIsUnrecorded
  /\ LedgerAccounts
  /\ RootExecOnce
  /\ LeaseHeldDuringCall
  /\ ExecHandedOut

LEMMA BumpCounter ==
  ASSUME NEW f \in Counters, NEW r \in RequestIds
  PROVE  /\ Bump(f, r) \in Counters
         /\ \A q \in RequestIds : Bump(f, r)[q] = f[q] + One(q = r)
BY DEF Counters, Bump, One

LEMMA DropCounter ==
  ASSUME NEW f \in Counters, NEW r \in RequestIds, f[r] > 0
  PROVE  /\ Drop(f, r) \in Counters
         /\ \A q \in RequestIds : Drop(f, r)[q] = f[q] - One(q = r)
BY DEF Counters, Drop, One

LEMMA InitInv == Init => IInv
<1> SUFFICES ASSUME Init PROVE IInv
  OBVIOUS
<1> USE RunnerAssumption DEF Init
<1>1. Recorded = {}
  BY DEF Recorded
<1>2. Zero \in Counters /\ \A r \in RequestIds : Zero[r] = 0
  BY DEF Zero, Counters
<1>3. TypeOK
  BY <1>1, <1>2 DEF TypeOK, Free
<1>4. ServedIsUnrecorded /\ LeaseHeldDuringCall /\ ExecHandedOut
  BY DEF ServedIsUnrecorded, LeaseHeldDuringCall, ExecHandedOut
<1>5. LedgerAccounts /\ RootExecOnce
  BY <1>1, <1>2 DEF LedgerAccounts, RootExecOnce, Recording, One
<1>6. QED
  BY <1>3, <1>4, <1>5 DEF IInv

(* A handler that passes its checks takes the lock for an id that is not   *)
(* on the ledger it loaded.                                                *)
LEMMA ServeStep ==
  ASSUME IInv, NEW op \in Kinds, NEW r \in RequestIds,
         NEW l \in LeaseIds \cup {NoLeaseId}, NEW x \in ExecIds \cup {NoExec},
         NEW read \in {"file", "nothing"},
         op \in LeaseKinds => lease # NoLease /\ lease.id = l /\ lease.status = "active",
         busy' = [op |-> op, id |-> r, lease |-> l, exec |-> x,
                  phase |-> "calling", read |-> read],
         busy = Free, read = "file" => r \notin Recorded,
         faults' \in 0..MaxFaults,
         UNCHANGED <<executed, execIds, lease, clock, streams, created, abandoned,
                     effects, commands, lost, forgotten>>
  PROVE  IInv'
<1>2. Recorded' = Recorded /\ r \notin Loaded'
  BY DEF Recorded, Loaded
<1>3. busy' \in Request /\ busy' # Free
  BY DEF Request, Free, Kinds
<1>4. TypeOK'
  BY <1>2, <1>3 DEF IInv, TypeOK
<1>5. ServedIsUnrecorded' /\ ExecHandedOut'
  BY <1>2 DEF ServedIsUnrecorded, ExecHandedOut
<1>6. \A q \in RequestIds : ~Recording(q) /\ ~Recording(q)'
  BY DEF Recording
<1>7. LedgerAccounts' /\ RootExecOnce'
  BY <1>2, <1>6 DEF IInv, LedgerAccounts, RootExecOnce, One
<1>8. LeaseHeldDuringCall'
  BY DEF LeaseHeldDuringCall, IInv
<1>9. QED
  BY <1>4, <1>5, <1>7, <1>8 DEF IInv

(* Steps of Docker: performing a call moves the request on to recording,   *)
(* which the account counts as the effect not yet on the ledger.           *)
LEMMA DockerPerformsStep ==
  ASSUME IInv, DockerPerforms
  PROVE  IInv'
<1>1. /\ busy \in Request /\ busy # Free /\ busy.phase = "calling"
      /\ effects' = Bump(effects, busy.id)
      /\ UNCHANGED <<executed, execIds, lease, clock, streams, abandoned,
                     commands, lost, forgotten, faults>>
  BY DEF DockerPerforms, IInv, TypeOK, fileVars, historyVars
<1>2. /\ busy' \in Request /\ busy'.phase = "recording" /\ created' \subseteq ExecIds
      /\ busy'.op = busy.op /\ busy'.id = busy.id /\ busy'.lease = busy.lease
      /\ busy.op = "exec_create" => busy'.exec \in created'
      /\ busy'.read = busy.read
  <2>1. CASE busy.op \in {"exec_create", "lease_exec"}
    <3>1. PICK x \in ExecIds \ created :
            /\ created' = created \cup {x}
            /\ busy' = [busy EXCEPT !.phase = "recording", !.exec = x]
      BY <2>1 DEF DockerPerforms
    <3>2. QED
      BY <1>1, <3>1 DEF Request, IInv, TypeOK
  <2>2. CASE busy.op \notin {"exec_create", "lease_exec"}
    BY <1>1, <2>2 DEF DockerPerforms, Request, IInv, TypeOK
  <2>3. QED
    BY <2>1, <2>2
<1>3. /\ Recorded' = Recorded /\ Loaded' = Loaded
      /\ busy' # Free /\ busy.id \in RequestIds
  BY <1>1, <1>2 DEF Recorded, Loaded, Request, Free, Kinds
<1>4. /\ effects' \in Counters
      /\ \A q \in RequestIds : effects'[q] = effects[q] + One(q = busy.id)
  BY <1>1, <1>3, BumpCounter DEF IInv, TypeOK
<1>5. TypeOK'
  BY <1>1, <1>2, <1>3, <1>4 DEF IInv, TypeOK
<1>6. \A q \in RequestIds : /\ ~Recording(q)
                            /\ Recording(q)' <=> q = busy.id
  BY <1>1, <1>2, <1>3 DEF Recording
<1>7. LedgerAccounts'
  BY <1>1, <1>3, <1>4, <1>6 DEF IInv, LedgerAccounts, One, TypeOK, Counters
<1>8. RootExecOnce' /\ ServedIsUnrecorded' /\ LeaseHeldDuringCall' /\ ExecHandedOut'
  BY <1>1, <1>2, <1>3
  DEF IInv, RootExecOnce, ServedIsUnrecorded, LeaseHeldDuringCall, ExecHandedOut
<1>9. QED
  BY <1>5, <1>7, <1>8 DEF IInv

(* A request that leaves the lock without an effect.                       *)
LEMMA ReleaseStep ==
  ASSUME IInv, busy # Free, busy.phase = "calling", busy' = Free,
         abandoned' \in Counters, faults' \in 0..MaxFaults, streams' \in Counters,
         \A q \in RequestIds : streams'[q] <= streams[q],
         UNCHANGED <<executed, execIds, lease, clock, created, effects, commands,
                     lost, forgotten>>
  PROVE  IInv'
<1>1. Recorded' = Recorded
  BY DEF Recorded
<1>2. TypeOK'
  BY <1>1 DEF IInv, TypeOK
<1>3. \A q \in RequestIds : ~Recording(q) /\ ~Recording(q)'
  BY DEF Recording
<1>4. LedgerAccounts'
  BY <1>1, <1>3 DEF IInv, LedgerAccounts, One
<1>5. RootExecOnce'
  BY <1>1 DEF IInv, RootExecOnce, One, TypeOK, Counters
<1>6. ServedIsUnrecorded' /\ LeaseHeldDuringCall' /\ ExecHandedOut'
  BY DEF ServedIsUnrecorded, LeaseHeldDuringCall, ExecHandedOut
<1>7. QED
  BY <1>2, <1>4, <1>5, <1>6 DEF IInv

(* A request whose effect is never recorded: the account counts it lost.   *)
LEMMA LoseStep ==
  ASSUME IInv, busy # Free, busy.phase = "recording", busy' = Free,
         lost' = Bump(lost, busy.id),
         faults' \in 0..MaxFaults, streams' \in Counters,
         \A q \in RequestIds : streams'[q] <= streams[q],
         UNCHANGED <<executed, execIds, lease, clock, created, abandoned, effects,
                     commands, forgotten>>
  PROVE  IInv'
<1>1. Recorded' = Recorded /\ busy.id \in RequestIds
  BY DEF Recorded, IInv, TypeOK, Request
<1>2. /\ lost' \in Counters
      /\ \A q \in RequestIds : lost'[q] = lost[q] + One(q = busy.id)
  BY <1>1, BumpCounter DEF IInv, TypeOK
<1>3. TypeOK'
  BY <1>1, <1>2 DEF IInv, TypeOK
<1>4. \A q \in RequestIds : (Recording(q) <=> q = busy.id) /\ ~Recording(q)'
  BY DEF Recording
<1>5. LedgerAccounts'
  <2>1. SUFFICES ASSUME NEW r \in RequestIds
                 PROVE  effects'[r] = lost'[r] + forgotten'[r] + One(r \in Recorded') + One(Recording(r)')
    BY DEF LedgerAccounts
  <2>2. effects[r] = lost[r] + forgotten[r] + One(r \in Recorded) + One(Recording(r))
    BY DEF IInv, LedgerAccounts
  <2>3. lost[r] \in Nat /\ forgotten[r] \in Nat /\ lost'[r] = lost[r] + One(Recording(r))
    BY <1>2, <1>4 DEF One, IInv, TypeOK, Counters
  <2>4. QED
    BY <2>2, <2>3, <1>1, <1>4 DEF One
<1>6. RootExecOnce'
  BY <1>1 DEF IInv, RootExecOnce, One, TypeOK, Counters
<1>7. ServedIsUnrecorded' /\ LeaseHeldDuringCall' /\ ExecHandedOut'
  BY DEF ServedIsUnrecorded, LeaseHeldDuringCall, ExecHandedOut
<1>8. QED
  BY <1>3, <1>5, <1>6, <1>7 DEF IInv

(* Whatever a prune keeps, it keeps part of the ledger with the new entry. *)
LEMMA KeptIsPart ==
  ASSUME busy # Free, NEW K \in Kept(LedgerWithEntry)
  PROVE  K \subseteq Loaded \cup {busy.id} /\ busy.id \in K
<1>1. DOMAIN LedgerWithEntry = Loaded \cup {busy.id}
  BY DEF LedgerWithEntry
<1>2. QED
  BY <1>1 DEF Kept

(* Recording adds the one entry of the served request; every entry that    *)
(* disappears is counted as forgotten.                                     *)
LEMMA RecordStep ==
  ASSUME IInv, Record
  PROVE  IInv'
<1>1. /\ busy \in Request /\ busy # Free /\ busy.phase = "recording" /\ busy' = Free
      /\ busy.id \in RequestIds /\ busy.id \notin Loaded /\ Loaded \subseteq Recorded
      /\ UNCHANGED <<clock, created, abandoned, effects, commands, lost, faults>>
  BY DEF Record, IInv, TypeOK, Request, ServedIsUnrecorded, Loaded, dockerVars
<1>2. PICK K \in Kept(LedgerWithEntry) :
        /\ executed' = [r \in K |-> LedgerWithEntry[r]]
        /\ forgotten' = [r \in RequestIds |->
                        IF r \in Recorded \ (K \cap Loaded) THEN forgotten[r] + 1
                        ELSE forgotten[r]]
  BY DEF Record
<1>3. K \subseteq Loaded \cup {busy.id} /\ busy.id \in K
  BY <1>1, <1>2, KeptIsPart
<1>4. Recorded' = K
  BY <1>2 DEF Recorded
<1>5. Recorded' \subseteq RequestIds /\ executed' \in [Recorded' -> 0..MaxClock]
  <2>1. Recorded \subseteq RequestIds /\ executed \in [Recorded -> 0..MaxClock]
    BY DEF IInv, TypeOK
  <2>2. Stamp \in 0..MaxClock
    BY RunnerAssumption DEF Stamp, IInv, TypeOK
  <2>3. \A r \in K : LedgerWithEntry[r] \in 0..MaxClock
    BY <1>1, <1>3, <2>1, <2>2 DEF LedgerWithEntry
  <2>4. QED
    BY <1>1, <1>2, <1>3, <1>4, <2>1, <2>3
<1>6. /\ forgotten' \in Counters
      /\ \A q \in RequestIds :
           forgotten'[q] = forgotten[q] + One(q \in Recorded \ (K \cap Loaded))
  BY <1>2 DEF IInv, TypeOK, Counters, One
<1>7. /\ streams' \in Counters
      /\ \A q \in RequestIds : streams'[q] <= streams[q] + One(q = busy.id)
  <2>0. streams \in Counters /\ \A q \in RequestIds : streams[q] \in Nat
    BY DEF IInv, TypeOK, Counters
  <2>1. CASE busy.op = "lease_exec"
    <3>1. streams' = Bump(streams, busy.id)
      BY <2>1 DEF Record
    <3>2. /\ streams' \in Counters
          /\ \A q \in RequestIds : streams'[q] = streams[q] + One(q = busy.id)
      BY <1>1, <2>0, <3>1, BumpCounter
    <3>3. QED
      BY <2>0, <3>2 DEF One
  <2>2. CASE busy.op # "lease_exec"
    <3>1. streams' = streams
      BY <2>2 DEF Record
    <3>2. QED
      BY <2>0, <3>1 DEF One
  <2>3. QED
    BY <2>1, <2>2
<1>8. execIds' \subseteq ExecIds /\ lease' \in Lease \cup {NoLease}
  <2>1. CASE busy.op = "exec_create"
    BY <1>1, <2>1 DEF Record, IInv, TypeOK, ExecHandedOut
  <2>2. CASE busy.op # "exec_create"
    BY <2>2 DEF Record, IInv, TypeOK
  <2>3. QED
    BY <2>1, <2>2
<1>9. TypeOK'
  BY <1>1, <1>5, <1>6, <1>7, <1>8 DEF IInv, TypeOK
<1>10. \A q \in RequestIds : (Recording(q) <=> q = busy.id) /\ ~Recording(q)'
  BY <1>1 DEF Recording
<1>11. LedgerAccounts'
  <2>1. SUFFICES ASSUME NEW r \in RequestIds
                 PROVE  effects'[r] = lost'[r] + forgotten'[r] + One(r \in Recorded')
                                        + One(Recording(r)')
    BY DEF LedgerAccounts
  <2>2. effects[r] = lost[r] + forgotten[r] + One(r \in Recorded) + One(Recording(r))
    BY DEF IInv, LedgerAccounts
  <2>3. lost[r] \in Nat /\ forgotten[r] \in Nat
    BY DEF IInv, TypeOK, Counters
  <2>4. forgotten'[r] = forgotten[r] + One(r \in Recorded \ (K \cap Loaded))
    BY <1>6
  <2>5. One(r \in Recorded \ (K \cap Loaded)) + One(r \in K) = One(r \in Recorded) + One(r = busy.id)
    BY <1>1, <1>3 DEF One
  <2>6. QED
    BY <1>1, <1>4, <1>10, <2>2, <2>3, <2>4, <2>5 DEF One
<1>12. RootExecOnce'
  <2>1. SUFFICES ASSUME NEW r \in RequestIds
                 PROVE  commands'[r] + streams'[r] <= forgotten'[r] + One(r \in Recorded')
    BY DEF RootExecOnce
  <2>2. commands[r] + streams[r] <= forgotten[r] + One(r \in Recorded)
    BY DEF IInv, RootExecOnce
  <2>3. commands[r] \in Nat /\ streams[r] \in Nat /\ streams'[r] \in Nat /\ forgotten[r] \in Nat
    BY <1>7 DEF IInv, TypeOK, Counters
  <2>4. One(r \in Recorded \ (K \cap Loaded)) + One(r \in K) = One(r \in Recorded) + One(r = busy.id)
    BY <1>1, <1>3 DEF One
  <2>5. QED
    BY <1>1, <1>4, <1>6, <1>7, <2>2, <2>3, <2>4 DEF One
<1>13. ServedIsUnrecorded' /\ LeaseHeldDuringCall' /\ ExecHandedOut'
  BY <1>1 DEF ServedIsUnrecorded, LeaseHeldDuringCall, ExecHandedOut
<1>14. QED
  BY <1>9, <1>11, <1>12, <1>13 DEF IInv

(* Steps that touch neither the ledger nor the account: the lease routes,  *)
(* time, and Docker dropping a call nobody waits for.                      *)
LEMMA AsideStep ==
  ASSUME IInv,
         \/ busy = Free /\ lease' \in Lease \cup {NoLease} /\ UNCHANGED <<clock, abandoned>>
         \/ clock' \in 1..MaxClock /\ abandoned' \in Counters /\ UNCHANGED lease,
         UNCHANGED <<executed, execIds, busy, streams, created, effects, commands,
                     lost, forgotten, faults>>
  PROVE  IInv'
<1>1. Recorded' = Recorded /\ Loaded' = Loaded
  BY DEF Recorded, Loaded
<1>2. TypeOK'
  BY <1>1 DEF IInv, TypeOK
<1>3. ServedIsUnrecorded' /\ ExecHandedOut'
  BY <1>1 DEF IInv, ServedIsUnrecorded, ExecHandedOut
<1>4. LeaseHeldDuringCall'
  BY DEF IInv, LeaseHeldDuringCall
<1>5. \A q \in RequestIds : Recording(q)' <=> Recording(q)
  BY DEF Recording
<1>6. LedgerAccounts' /\ RootExecOnce'
  BY <1>1, <1>5 DEF IInv, LedgerAccounts, RootExecOnce, One, TypeOK, Counters
<1>7. QED
  BY <1>2, <1>3, <1>4, <1>6 DEF IInv

(* An abandoned call that is performed after all is counted lost.          *)
LEMMA LateStep ==
  ASSUME IInv, NEW r \in RequestIds, DockerPerformsLate(r)
  PROVE  IInv'
<1>1. /\ abandoned[r] > 0 /\ abandoned' = Drop(abandoned, r)
      /\ effects' = Bump(effects, r) /\ lost' = Bump(lost, r)
      /\ UNCHANGED <<executed, execIds, lease, clock, busy, streams, created,
                     commands, forgotten, faults>>
  BY DEF DockerPerformsLate, fileVars
<1>2. Recorded' = Recorded /\ Loaded' = Loaded
  BY <1>1 DEF Recorded, Loaded
<1>3. /\ effects' \in Counters /\ lost' \in Counters /\ abandoned' \in Counters
      /\ \A q \in RequestIds : /\ effects'[q] = effects[q] + One(q = r)
                               /\ lost'[q] = lost[q] + One(q = r)
  BY <1>1, BumpCounter, DropCounter DEF IInv, TypeOK
<1>4. TypeOK'
  BY <1>1, <1>2, <1>3 DEF IInv, TypeOK
<1>5. ServedIsUnrecorded' /\ LeaseHeldDuringCall' /\ ExecHandedOut' /\ RootExecOnce'
  BY <1>1, <1>2
  DEF IInv, ServedIsUnrecorded, LeaseHeldDuringCall, ExecHandedOut, RootExecOnce
<1>6. LedgerAccounts'
  <2>1. SUFFICES ASSUME NEW q \in RequestIds
                 PROVE  effects'[q] = lost'[q] + forgotten'[q] + One(q \in Recorded')
                                        + One(Recording(q)')
    BY DEF LedgerAccounts
  <2>2. effects[q] = lost[q] + forgotten[q] + One(q \in Recorded) + One(Recording(q))
    BY DEF IInv, LedgerAccounts
  <2>3. lost[q] \in Nat /\ forgotten[q] \in Nat /\ (Recording(q)' <=> Recording(q))
    BY <1>1 DEF IInv, TypeOK, Counters, Recording
  <2>4. QED
    BY <1>1, <1>2, <1>3, <2>2, <2>3 DEF One
<1>7. QED
  BY <1>4, <1>5, <1>6 DEF IInv

(* An open that could not read the file: every entry is forgotten.         *)
LEMMA OpenUnreadStep ==
  ASSUME IInv, NEW l \in LeaseIds, OpenLeaseUnread(l)
  PROVE  IInv'
<1>1. /\ busy = Free /\ busy' = Free /\ executed' = [r \in {} |-> 0] /\ execIds' = {}
      /\ forgotten' = [r \in RequestIds |-> forgotten[r] + One(r \in Recorded)]
      /\ UNCHANGED <<clock, streams, created, abandoned, effects, commands, lost>>
  BY DEF OpenLeaseUnread, dockerVars
<1>2. Recorded' = {} /\ lease' \in Lease /\ faults' \in 0..MaxFaults
  BY <1>1, RunnerAssumption DEF OpenLeaseUnread, Recorded, Lease, IInv, TypeOK
<1>3. /\ forgotten' \in Counters
      /\ \A q \in RequestIds : forgotten'[q] = forgotten[q] + One(q \in Recorded)
  BY <1>1 DEF IInv, TypeOK, Counters, One
<1>4. TypeOK'
  BY <1>1, <1>2, <1>3 DEF IInv, TypeOK
<1>5. ServedIsUnrecorded' /\ LeaseHeldDuringCall' /\ ExecHandedOut'
  BY <1>1 DEF ServedIsUnrecorded, LeaseHeldDuringCall, ExecHandedOut
<1>6. \A q \in RequestIds : ~Recording(q) /\ ~Recording(q)'
  BY <1>1 DEF Recording
<1>7. ASSUME NEW q \in RequestIds
      PROVE  /\ lost[q] \in Nat /\ forgotten[q] \in Nat /\ q \notin Recorded'
             /\ forgotten'[q] = forgotten[q] + One(q \in Recorded)
             /\ commands[q] \in Nat /\ streams[q] \in Nat
  BY <1>2, <1>3 DEF IInv, TypeOK, Counters
<1>8. LedgerAccounts'
  <2>1. SUFFICES ASSUME NEW q \in RequestIds
                 PROVE  effects'[q] = lost'[q] + forgotten'[q] + One(q \in Recorded')
                                        + One(Recording(q)')
    BY DEF LedgerAccounts
  <2>2. effects[q] = lost[q] + forgotten[q] + One(q \in Recorded) + One(Recording(q))
    BY DEF IInv, LedgerAccounts
  <2>3. QED
    BY <1>1, <1>6, <1>7, <2>2 DEF One
<1>9. RootExecOnce'
  BY <1>1, <1>7 DEF IInv, RootExecOnce, One
<1>10. QED
  BY <1>4, <1>5, <1>8, <1>9 DEF IInv

(* A stream that starts its root exec was counted before it started.       *)
LEMMA StreamStep ==
  ASSUME IInv, NEW r \in RequestIds, StartStream(r)
  PROVE  IInv'
<1>1. /\ streams[r] > 0 /\ streams' = Drop(streams, r)
      /\ commands' = Bump(commands, r) \/ UNCHANGED commands
      /\ UNCHANGED <<executed, execIds, lease, clock, busy, created, abandoned,
                     effects, lost, forgotten, faults>>
  BY DEF StartStream, fileVars, historyVars
<1>2. Recorded' = Recorded /\ Loaded' = Loaded
  BY <1>1 DEF Recorded, Loaded
<1>3. /\ streams' \in Counters
      /\ \A q \in RequestIds : streams'[q] = streams[q] - One(q = r)
  BY <1>1, DropCounter DEF IInv, TypeOK
<1>4. /\ commands' \in Counters
      /\ \A q \in RequestIds : commands'[q] <= commands[q] + One(q = r)
  <2>1. CASE commands' = Bump(commands, r)
    BY <2>1, BumpCounter DEF IInv, TypeOK, Counters, One
  <2>2. CASE UNCHANGED commands
    BY <2>2 DEF IInv, TypeOK, Counters, One
  <2>3. QED
    BY <1>1, <2>1, <2>2
<1>5. TypeOK'
  BY <1>1, <1>2, <1>3, <1>4 DEF IInv, TypeOK
<1>6. ServedIsUnrecorded' /\ LeaseHeldDuringCall' /\ ExecHandedOut' /\ LedgerAccounts'
  <2>1. ServedIsUnrecorded' /\ LeaseHeldDuringCall' /\ ExecHandedOut'
    BY <1>1, <1>2 DEF IInv, ServedIsUnrecorded, LeaseHeldDuringCall, ExecHandedOut
  <2>2. \A q \in RequestIds : Recording(q)' <=> Recording(q)
    BY <1>1 DEF Recording
  <2>3. LedgerAccounts'
    BY <1>1, <1>2, <2>2 DEF IInv, LedgerAccounts, One
  <2>4. QED
    BY <2>1, <2>3
<1>7. RootExecOnce'
  <2>1. SUFFICES ASSUME NEW q \in RequestIds
                 PROVE  commands'[q] + streams'[q] <= forgotten'[q] + One(q \in Recorded')
    BY DEF RootExecOnce
  <2>2. commands[q] + streams[q] <= forgotten[q] + One(q \in Recorded)
    BY DEF IInv, RootExecOnce
  <2>3. /\ commands[q] \in Nat /\ streams[q] \in Nat /\ forgotten[q] \in Nat
        /\ commands'[q] \in Nat
    BY <1>4 DEF IInv, TypeOK, Counters
  <2>4. QED
    BY <1>1, <1>2, <1>3, <1>4, <2>2, <2>3 DEF One
<1>8. QED
  BY <1>5, <1>6, <1>7 DEF IInv

LEMMA StepInv == IInv /\ [Next]_runnerVars => IInv'
<1> SUFFICES ASSUME IInv, [Next]_runnerVars PROVE IInv'
  OBVIOUS
<1> USE DEF fileVars, dockerVars, historyVars
<1>0. TypeOK /\ (busy # Free => busy \in Request /\ busy.id \in RequestIds)
  BY DEF IInv, TypeOK, Request
<1>1. ASSUME NEW op \in Kinds, NEW r \in RequestIds, NEW x \in ExecIds \cup {NoExec},
             BeginExecute(op, r, x)
      PROVE  IInv'
  <2>1. op \notin LeaseKinds /\ Serve(op, r, NoLeaseId, x)
    BY <1>1 DEF BeginExecute, LeaseKinds
  <2>2. QED
    BY <1>0, <2>1, ServeStep DEF Serve, TypeOK
<1>2. ASSUME NEW op \in LeaseKinds, NEW r \in RequestIds, NEW l \in LeaseIds,
             BeginUnderLease(op, r, l)
      PROVE  IInv'
  <2>1. op \in Kinds /\ Serve(op, r, l, NoExec)
    BY <1>2 DEF BeginUnderLease, LeaseKinds, Kinds
  <2>2. lease # NoLease /\ lease.id = l /\ lease.status = "active"
    BY <1>2 DEF BeginUnderLease, LeaseLive, NoLease
  <2>3. QED
    BY <1>0, <2>1, <2>2, ServeStep DEF Serve, TypeOK
<1>2a. ASSUME NEW op \in Kinds, NEW r \in RequestIds, BeginUnread(op, r)
       PROVE  IInv'
  <2>1. op \notin LeaseKinds /\ faults' \in 0..MaxFaults
    BY <1>0, <1>2a, RunnerAssumption DEF BeginUnread, LeaseKinds, TypeOK
  <2>2. QED
    BY <1>2a, <2>1, ServeStep DEF BeginUnread
<1>3. ASSUME NEW l \in LeaseIds, NoticeExpiry(l)
      PROVE  IInv'
  <2>1. lease \in Lease
    BY <1>0, <1>3 DEF NoticeExpiry, TypeOK, NoLease
  <2>2. lease' \in Lease
    BY <1>3, <2>1 DEF NoticeExpiry, Lease
  <2>3. QED
    BY <1>3, <2>2, AsideStep DEF NoticeExpiry
<1>4. CASE DockerPerforms
  BY <1>4, DockerPerformsStep
<1>5. CASE DockerRefuses
  BY <1>0, <1>5, ReleaseStep DEF DockerRefuses, TypeOK, Counters
<1>6. CASE DockerBreaks
  <2>1. abandoned' \in Counters /\ faults' \in 0..MaxFaults
    BY <1>0, <1>6, BumpCounter, RunnerAssumption DEF DockerBreaks, TypeOK
  <2>2. QED
    BY <1>0, <1>6, <2>1, ReleaseStep DEF DockerBreaks, TypeOK, Counters
<1>7. ASSUME NEW r \in RequestIds, DockerPerformsLate(r)
      PROVE  IInv'
  BY <1>7, LateStep
<1>8. ASSUME NEW r \in RequestIds, DockerDropsLate(r)
      PROVE  IInv'
  <2>1. abandoned' \in Counters
    BY <1>0, <1>8, DropCounter DEF DockerDropsLate, TypeOK
  <2>2. QED
    BY <1>0, <1>8, <2>1, AsideStep DEF DockerDropsLate, TypeOK
<1>9. CASE Record
  BY <1>9, RecordStep
<1>10. CASE RecordFails
  <2>1. faults' \in 0..MaxFaults
    BY <1>0, <1>10, RunnerAssumption DEF RecordFails, TypeOK
  <2>2. QED
    BY <1>0, <1>10, <2>1, LoseStep DEF RecordFails, TypeOK, Counters
<1>11. ASSUME NEW r \in RequestIds, StartStream(r)
       PROVE  IInv'
  BY <1>11, StreamStep
<1>12. ASSUME NEW l \in LeaseIds, OpenLease(l)
       PROVE  IInv'
  <2>1. lease' \in Lease
    BY <1>0, <1>12, RunnerAssumption DEF OpenLease, Lease, TypeOK
  <2>2. QED
    BY <1>12, <2>1, AsideStep DEF OpenLease
<1>12a. ASSUME NEW l \in LeaseIds, OpenLeaseUnread(l)
        PROVE  IInv'
  BY <1>12a, OpenUnreadStep
<1>13. ASSUME NEW l \in LeaseIds, CloseLease(l)
       PROVE  IInv'
  <2>1. lease' \in Lease
    BY <1>0, <1>13 DEF CloseLease, Lease, TypeOK
  <2>2. QED
    BY <1>13, <2>1, AsideStep DEF CloseLease
<1>14. CASE Tick
  <2>1. clock' \in 1..MaxClock
    BY <1>0, <1>14, RunnerAssumption DEF Tick, TypeOK
  <2>2. QED
    BY <1>0, <1>14, <2>1, AsideStep DEF Tick, TypeOK
<1>15. CASE Crash
  <2>1. /\ faults' \in 0..MaxFaults /\ busy' = Free /\ streams' \in Counters
        /\ \A q \in RequestIds : streams'[q] <= streams[q]
    BY <1>0, <1>15, RunnerAssumption DEF Crash, TypeOK, Counters, Zero
  <2>2. CASE busy # Free /\ busy.phase = "calling"
    <3>1. abandoned' \in Counters
      BY <1>0, <1>15, <2>2, BumpCounter DEF Crash, TypeOK
    <3>2. lost' = lost
      BY <1>15, <2>2 DEF Crash
    <3>3. QED
      BY <1>15, <2>1, <2>2, <3>1, <3>2, ReleaseStep DEF Crash
  <2>3. CASE busy # Free /\ busy.phase = "recording"
    <3>1. lost' = Bump(lost, busy.id) /\ abandoned' = abandoned
      BY <1>15, <2>3 DEF Crash
    <3>2. QED
      BY <1>15, <2>1, <2>3, <3>1, LoseStep DEF Crash
  <2>4. CASE busy = Free
    <3>1. UNCHANGED <<executed, execIds, lease, clock, busy, created, abandoned,
                      effects, commands, lost, forgotten>>
      BY <1>15, <2>4 DEF Crash
    <3>2. Recorded' = Recorded
      BY <3>1 DEF Recorded
    <3>3. TypeOK'
      BY <1>0, <2>1, <3>1, <3>2 DEF TypeOK
    <3>4. ServedIsUnrecorded' /\ LeaseHeldDuringCall' /\ ExecHandedOut'
      BY <2>1 DEF ServedIsUnrecorded, LeaseHeldDuringCall, ExecHandedOut
    <3>5. LedgerAccounts'
      BY <2>4, <3>1, <3>2 DEF IInv, LedgerAccounts, Recording, One
    <3>6. RootExecOnce'
      BY <1>0, <2>1, <3>1, <3>2 DEF IInv, RootExecOnce, One, TypeOK, Counters
    <3>7. QED
      BY <3>3, <3>4, <3>5, <3>6 DEF IInv
  <2>5. QED
    BY <1>0, <2>2, <2>3, <2>4 DEF Request
<1>16. CASE UNCHANGED runnerVars
  <2>1. /\ Recorded' = Recorded /\ Loaded' = Loaded
        /\ UNCHANGED <<executed, execIds, lease, clock, busy, streams, created, abandoned,
                       effects, commands, lost, forgotten, faults>>
    BY <1>16 DEF Recorded, Loaded, runnerVars
  <2>2. TypeOK' /\ ServedIsUnrecorded' /\ LeaseHeldDuringCall' /\ ExecHandedOut' /\ RootExecOnce'
    BY <2>1 DEF IInv, TypeOK, ServedIsUnrecorded, LeaseHeldDuringCall, ExecHandedOut, RootExecOnce
  <2>3. LedgerAccounts'
    BY <2>1 DEF IInv, LedgerAccounts, Recording
  <2>4. QED
    BY <2>2, <2>3 DEF IInv
<1>17. QED
  BY <1>1, <1>2, <1>2a, <1>3, <1>4, <1>5, <1>6, <1>7, <1>8, <1>9, <1>10, <1>11, <1>12,
     <1>12a, <1>13, <1>14, <1>15, <1>16 DEF Next

THEOREM Invariance == Spec => []IInv
BY InitInv, StepInv, PTL DEF Spec

(* Type correctness of the runner's file, its lock and Docker's counters.  *)
THEOREM RunnerTypeOK == Spec => []TypeOK
BY Invariance, PTL DEF IInv

(* Every effect Docker had for a request is on the ledger, about to be     *)
(* written there, lost by a fault, or forgotten.                              *)
THEOREM LedgerIsComplete == Spec => []LedgerAccounts
BY Invariance, PTL DEF IInv

(* No crash, time-out or repetition starts one request's root exec twice.  *)
THEOREM RootExecsRunOnce == Spec => []RootExecOnce
BY Invariance, PTL DEF IInv

(* A lease cannot be closed or replaced under an outstanding call.         *)
THEOREM CallsHoldTheirLease == Spec => []LeaseHeldDuringCall
BY Invariance, PTL DEF IInv

(* How the lease on file may change in a step.                             *)
LeaseKept == lease' \in {lease, [lease EXCEPT !.status = "revoked"]}
SavedUnread == \/ busy # Free /\ busy.read = "nothing" /\ Recorded' = {busy.id}
               \/ busy = Free /\ faults' = faults + 1 /\ Recorded' = {}

(* A live lease ends by revocation, or by a save that could not read it.   *)
LEMMA LeaseStep ==
  ASSUME TypeOK, Next, lease # NoLease, LeaseLive(lease.id)
  PROVE  LeaseKept \/ SavedUnread
<1> USE DEF fileVars, dockerVars, historyVars, LeaseLive
<1>1. ASSUME NEW l \in LeaseIds, NoticeExpiry(l)
      PROVE  FALSE
  BY <1>1 DEF NoticeExpiry, TypeOK, Lease
<1>2. ASSUME NEW l \in LeaseIds, OpenLease(l)
      PROVE  FALSE
  <2>1. PICK now \in 1..clock : ~(lease.status = "active" /\ lease.expires > now)
    BY <1>2 DEF OpenLease
  <2>2. lease \in Lease /\ clock \in Nat
    BY RunnerAssumption DEF TypeOK, NoLease
  <2>3. lease.expires \in Nat /\ lease.expires > clock
    BY <2>2 DEF Lease
  <2>4. QED
    BY <2>1, <2>2, <2>3
<1>3. ASSUME NEW l \in LeaseIds, CloseLease(l)
      PROVE  LeaseKept
  BY <1>3 DEF CloseLease, LeaseKept
<1>4. ASSUME NEW r \in RequestIds, \/ DockerPerformsLate(r) \/ DockerDropsLate(r)
                                   \/ StartStream(r)
      PROVE  LeaseKept
  BY <1>4 DEF LeaseKept, DockerPerformsLate, DockerDropsLate, StartStream
<1>5. ASSUME NEW op \in Kinds, NEW r \in RequestIds, NEW l, NEW x, Serve(op, r, l, x)
      PROVE  LeaseKept
  BY <1>5 DEF Serve, LeaseKept
<1>6. CASE DockerPerforms \/ DockerRefuses \/ DockerBreaks \/ RecordFails \/ Tick \/ Crash
  BY <1>6 DEF DockerPerforms, DockerRefuses, DockerBreaks, RecordFails, Tick, Crash, LeaseKept
<1>7. LeaseKinds \subseteq Kinds
  BY DEF LeaseKinds, Kinds
<1>8. ASSUME NEW op \in Kinds, NEW r \in RequestIds, BeginUnread(op, r)
      PROVE  LeaseKept
  BY <1>8 DEF BeginUnread, LeaseKept
<1>9. ASSUME NEW l \in LeaseIds, OpenLeaseUnread(l)
      PROVE  SavedUnread
  BY <1>9 DEF OpenLeaseUnread, SavedUnread, Recorded
<1>10. CASE Record
  <2>1. CASE busy.read = "file"
    BY <1>10, <2>1 DEF Record, LeaseKept
  <2>2. CASE busy.read = "nothing"
    <3>1. PICK K \in Kept(LedgerWithEntry) : executed' = [r \in K |-> LedgerWithEntry[r]]
      BY <1>10 DEF Record
    <3>2. busy # Free /\ K \subseteq Loaded \cup {busy.id} /\ busy.id \in K
      BY <1>10, <3>1, KeptIsPart DEF Record
    <3>3. Loaded = {} /\ Recorded' = K
      BY <2>2, <3>1 DEF Loaded, Recorded
    <3>4. QED
      BY <2>2, <3>2, <3>3 DEF SavedUnread
  <2>3. busy.read \in {"file", "nothing"}
    BY <1>10 DEF Record, TypeOK, Request
  <2>4. QED
    BY <2>1, <2>2, <2>3
<1>11. QED
  BY <1>1, <1>2, <1>3, <1>4, <1>5, <1>6, <1>7, <1>8, <1>9, <1>10
  DEF Next, BeginExecute, BeginUnderLease

THEOREM LiveLeasesAreNotReplaced == Spec => LiveLeaseEndsByRevocation
<1>1. TypeOK /\ [Next]_runnerVars
        => [lease # NoLease /\ LeaseLive(lease.id) => LeaseKept \/ SavedUnread]_runnerVars
  BY LeaseStep
<1>2. QED
  BY <1>1, RunnerTypeOK, PTL DEF Spec, LiveLeaseEndsByRevocation, LeaseKept, SavedUnread
===============================================================================
