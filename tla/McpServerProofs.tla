-------------------------- MODULE McpServerProofs --------------------------
(***************************************************************************)
(* Proofs about the browser MCP server: its rate limit is neither exceeded *)
(* nor stricter than it says; a call is handed to the worker only under    *)
(* policies that are current; and open streams of live sessions are told   *)
(* of changes: for all capacities and refills, any number of requests,     *)
(* sessions, streams and sites, and all edits of the files.  The server    *)
(* moves bucket and caches as their own specifications say.                *)
(***************************************************************************)
EXTENDS McpServer, TLAPS

-----------------------------------------------------------------------------
(* The rate limit.                                                         *)

(* The tokens there are and those that calls have paid since t come from   *)
(* the full bucket and the refill since t.                                 *)
Paid(t) == Cost * spent[t] + Tokens <= Burst + Refill * (now - t)

(* What a refusal promises: the refill until then makes up for the call.   *)
Promised == bucket.tokens + Refill * (comeBack - bucket.lastRefill) >= Cost

RateInv ==
  /\ BucketTypeOK
  /\ bucket.lastRefill <= now
  /\ bucket.lastRefill = Never => comeBack = Never
  /\ \A t \in Instants : IF t <= now THEN Paid(t) ELSE spent[t] = 0
  /\ comeBack # Never => Promised

(* A bucket never holds more than it can, and a refill adds what it says.  *)
LEMMA TokensBounded ==
  ASSUME BucketTypeOK, bucket.lastRefill <= now
  PROVE  Tokens \in 0..Burst
<1>1. CASE bucket.lastRefill = Never
  BY <1>1, BucketAssumption DEF Tokens
<1>2. CASE bucket.lastRefill # Never
  <2>1. now - bucket.lastRefill \in Nat /\ bucket.tokens \in 0..Burst
    BY <1>2 DEF BucketTypeOK, Instants, Never
  <2>2. Refill * (now - bucket.lastRefill) \in Nat
    BY <2>1, BucketAssumption
  <2> QED BY <1>2, <2>1, <2>2, BucketAssumption DEF Tokens, Capped
<1> QED BY <1>1, <1>2

(* Rounding up: the announced seconds hold at least the missing tokens.    *)
LEMMA RoundedUp ==
  ASSUME NEW n \in Nat, NEW d \in Nat \ {0}
  PROVE  /\ (n + (d - 1)) \div d \in Nat
         /\ d * ((n + (d - 1)) \div d) >= n
  OBVIOUS

LEMMA RateInitially == BucketInit => RateInv
<1> SUFFICES ASSUME BucketInit PROVE RateInv OBVIOUS
<1>1. BucketTypeOK
  BY BucketAssumption DEF BucketInit, BucketTypeOK, NoBucket, Instants, Never
<1>2. \A t \in Instants : IF t <= now THEN Paid(t) ELSE spent[t] = 0
  BY BucketAssumption DEF BucketInit, NoBucket, Paid, Tokens, Instants, Never
<1> QED BY <1>1, <1>2 DEF RateInv, BucketInit, NoBucket, Never

(* A call that is admitted pays its token.                                 *)
LEMMA RateAdmit == RateInv /\ Admit => RateInv'
<1> SUFFICES ASSUME RateInv, Admit PROVE RateInv' OBVIOUS
<1>1. Tokens \in 0..Burst /\ Tokens >= Cost
  BY TokensBounded DEF RateInv, Admit
<1>2. /\ now' = now /\ now \in Instants /\ now \in Nat
      /\ bucket' = [tokens |-> Tokens - Cost, lastRefill |-> now]
      /\ spent' = [t \in Instants |-> IF t <= now THEN spent[t] + 1 ELSE spent[t]]
      /\ spent \in [Instants -> Nat]
      /\ comeBack' = Never
  BY DEF Admit, RateInv, BucketTypeOK, Instants
<1>3. BucketTypeOK'
  BY <1>1, <1>2, BucketAssumption DEF BucketTypeOK, Instants, Never
<1>4. Tokens' = Tokens - Cost
  <2>1. Refill * (now' - bucket'.lastRefill) = 0 /\ bucket'.lastRefill # Never
    BY <1>2, BucketAssumption DEF Never
  <2> QED BY <1>1, <1>2, <2>1, BucketAssumption DEF Tokens, Capped
<1>5. ASSUME NEW t \in Instants PROVE (IF t <= now THEN Paid(t) ELSE spent[t] = 0)'
  <2>1. CASE t <= now
    <3>1. Paid(t) BY <2>1 DEF RateInv
    <3>2. Cost * spent'[t] = Cost * spent[t] + Cost
      BY <1>2, <2>1, BucketAssumption
    <3>3. Cost * spent[t] \in Int /\ Refill * (now - t) \in Int
      BY <1>2, BucketAssumption DEF Instants
    <3> QED BY <1>1, <1>2, <1>4, <2>1, <3>1, <3>2, <3>3, BucketAssumption DEF Paid
  <2>2. CASE ~(t <= now)
    BY <1>2, <2>2 DEF RateInv
  <2> QED BY <2>1, <2>2
<1> QED BY <1>2, <1>3, <1>5 DEF RateInv, Never

(* A call that is refused changes no account, and promises enough.         *)
LEMMA RateRefuse == RateInv /\ Refuse => RateInv'
<1> SUFFICES ASSUME RateInv, Refuse PROVE RateInv' OBVIOUS
<1> DEFINE d == Refill * Second
           n == Cost - Tokens
<1>1. Tokens \in 0..Burst /\ Tokens < Cost
  BY TokensBounded DEF RateInv, Refuse
<1>2. /\ now' = now /\ now \in Nat /\ now \in Instants
      /\ bucket' = [tokens |-> Tokens, lastRefill |-> now]
      /\ spent' = spent /\ spent \in [Instants -> Nat]
      /\ comeBack' = now + RetryAfter * Second
  BY DEF Refuse, RateInv, BucketTypeOK, Instants
<1>3. n \in Nat /\ d \in Nat \ {0}
  BY <1>1, BucketAssumption
<1>4. RetryAfter \in Nat /\ d * RetryAfter >= n
  BY <1>3, RoundedUp DEF RetryAfter
<1>5. RetryAfter * Second \in Nat
  BY <1>4, BucketAssumption
<1>6. BucketTypeOK'
  BY <1>1, <1>2, <1>5, BucketAssumption DEF BucketTypeOK, Instants, Never
<1>7. Tokens' = Tokens
  <2>1. Refill * (now' - bucket'.lastRefill) = 0 /\ bucket'.lastRefill # Never
    BY <1>2, BucketAssumption DEF Never
  <2> QED BY <1>1, <1>2, <2>1, BucketAssumption DEF Tokens, Capped
<1>8. ASSUME NEW t \in Instants PROVE (IF t <= now THEN Paid(t) ELSE spent[t] = 0)'
  BY <1>2, <1>7 DEF RateInv, Paid
<1>9. Promised'
  <2>1. comeBack' - bucket'.lastRefill = RetryAfter * Second
    BY <1>2, <1>5
  <2>2. Refill * (RetryAfter * Second) = d * RetryAfter
    BY <1>4, BucketAssumption
  <2>3. d * RetryAfter \in Nat
    BY <1>3, <1>4
  <2> HIDE DEF d
  <2> QED BY <1>1, <1>2, <1>4, <2>1, <2>2, <2>3, BucketAssumption DEF Promised
<1> QED BY <1>2, <1>6, <1>8, <1>9 DEF RateInv, Never

(* Time adds no more tokens than the refill.                               *)
LEMMA RateTick == RateInv /\ Tick => RateInv'
<1> SUFFICES ASSUME RateInv, Tick PROVE RateInv' OBVIOUS
<1>1. /\ now' = now + 1 /\ now \in Nat /\ now < MaxTime
      /\ bucket' = bucket /\ spent' = spent /\ comeBack' = comeBack
      /\ bucket.lastRefill \in Int /\ bucket.tokens \in 0..Burst
      /\ spent \in [Instants -> Nat]
  BY DEF Tick, RateInv, BucketTypeOK, Instants, Never
<1>2. BucketTypeOK' /\ bucket'.lastRefill <= now'
  BY <1>1, BucketAssumption DEF RateInv, BucketTypeOK, Instants
<1>3. Tokens \in 0..Burst /\ Tokens' \in 0..Burst
  <2>1. Tokens \in 0..Burst BY TokensBounded DEF RateInv
  <2>2. CASE bucket.lastRefill = Never
    BY <1>1, <2>1, <2>2, BucketAssumption DEF Tokens
  <2>3. CASE bucket.lastRefill # Never
    <3>1. Refill * (now + 1 - bucket.lastRefill) \in Nat
      <4>1. now + 1 - bucket.lastRefill \in Nat BY <1>1 DEF RateInv
      <4> QED BY <4>1, BucketAssumption
    <3> QED BY <1>1, <2>1, <2>3, <3>1, BucketAssumption DEF Tokens, Capped
  <2> QED BY <2>2, <2>3
<1>4. Tokens' <= Tokens + Refill
  <2>1. CASE bucket.lastRefill = Never
    BY <1>1, <2>1, BucketAssumption DEF Tokens
  <2>2. CASE bucket.lastRefill # Never
    <3>1. Refill * (now + 1 - bucket.lastRefill) = Refill * (now - bucket.lastRefill) + Refill
      BY <1>1, BucketAssumption
    <3>2. Refill * (now - bucket.lastRefill) \in Int
      BY <1>1, BucketAssumption
    <3> QED BY <1>1, <2>2, <3>1, <3>2, BucketAssumption DEF Tokens, Capped
  <2> QED BY <2>1, <2>2
<1>5. ASSUME NEW t \in Instants PROVE (IF t <= now THEN Paid(t) ELSE spent[t] = 0)'
  <2>0. t \in Nat /\ Cost * spent[t] \in Int /\ Refill * (now - t) \in Int
    BY <1>1, BucketAssumption DEF Instants
  <2>1. CASE t <= now
    <3>1. Paid(t) BY <2>1 DEF RateInv
    <3>2. Refill * (now + 1 - t) = Refill * (now - t) + Refill
      BY <1>1, <2>0, BucketAssumption
    <3> QED BY <1>1, <1>3, <1>4, <2>0, <2>1, <3>1, <3>2, BucketAssumption DEF Paid
  <2>2. CASE t = now + 1
    <3>1. spent[t] = 0 BY <1>1, <2>2 DEF RateInv
    <3>2. Refill * (now' - t) = 0 /\ Cost * spent[t] = 0
      BY <1>1, <2>2, <3>1, BucketAssumption
    <3> QED BY <1>1, <1>3, <2>2, <3>2, BucketAssumption DEF Paid
  <2>3. CASE t > now + 1
    BY <1>1, <2>0, <2>3 DEF RateInv
  <2> QED BY <1>1, <2>0, <2>1, <2>2, <2>3
<1> QED BY <1>1, <1>2, <1>5 DEF RateInv, Promised

(* What the invariant is for.                                              *)
LEMMA RateInvSuffices == RateInv => RateIsKept
<1> SUFFICES ASSUME RateInv PROVE RateIsKept OBVIOUS
<1>0. /\ Tokens \in 0..Burst /\ now \in Nat /\ spent \in [Instants -> Nat]
      /\ comeBack \in Nat \cup {Never} /\ bucket.tokens \in 0..Burst
      /\ bucket.lastRefill \in Instants \cup {Never}
  BY TokensBounded DEF RateInv, BucketTypeOK, Instants
<1>1. RateIsBounded
  <2> SUFFICES ASSUME NEW t \in Instants, t <= now
               PROVE  Cost * spent[t] <= Burst + Refill * (now - t)
    BY DEF RateIsBounded
  <2>1. Paid(t) BY DEF RateInv
  <2>2. Cost * spent[t] \in Int /\ Refill * (now - t) \in Int
    BY <1>0, BucketAssumption DEF Instants
  <2> QED BY <1>0, <2>1, <2>2, BucketAssumption DEF Paid
<1>2. RetryAfterSuffices
  <2> SUFFICES ASSUME comeBack # Never, comeBack <= now PROVE Tokens >= Cost
    BY DEF RetryAfterSuffices
  <2>1. bucket.lastRefill # Never /\ Promised BY DEF RateInv
  <2>2. bucket.lastRefill \in Nat /\ comeBack \in Nat BY <1>0, <2>1 DEF Instants, Never
  <2>3. Refill * (comeBack - bucket.lastRefill) <= Refill * (now - bucket.lastRefill)
    BY <1>0, <2>2, BucketAssumption
  <2>4. Refill * (comeBack - bucket.lastRefill) \in Int /\ Refill * (now - bucket.lastRefill) \in Int
    BY <1>0, <2>2, BucketAssumption
  <2> QED BY <1>0, <2>1, <2>3, <2>4, BucketAssumption DEF Promised, Tokens, Capped
<1> QED BY <1>1, <1>2 DEF RateIsKept

(* Only a request that is authenticated and the clock touch the bucket.    *)
LEMMA ServerMovesBucket == [McpNext]_mcpVars => [BucketNext]_bucketVars
<1> SUFFICES ASSUME [McpNext]_mcpVars PROVE BucketNext \/ UNCHANGED bucketVars
  OBVIOUS
<1> USE DEF bucketVars, BucketNext
<1>1. CASE UNCHANGED mcpVars BY <1>1 DEF mcpVars
<1>2. CASE Operator BY <1>2 DEF Operator
<1>3. CASE Clock BY <1>3 DEF Clock
<1>4. CASE WatchReports BY <1>4 DEF WatchReports
<1>5. CASE Broadcast BY <1>5 DEF Broadcast
<1>6. ASSUME NEW r \in Requests, Handler(r) PROVE BucketNext \/ UNCHANGED bucketVars
  <2>1. CASE Authenticate(r) BY <2>1 DEF Authenticate
  <2>2. CASE LoadSteps(r) BY <2>2 DEF LoadSteps
  <2>3. CASE BeginSites(r) BY <2>3 DEF BeginSites
  <2>4. CASE StreamRefused(r) BY <2>4 DEF StreamRefused
  <2>5. CASE BodyRefused(r) BY <2>5 DEF BodyRefused
  <2>6. CASE AnswerList(r) BY <2>6 DEF AnswerList
  <2>7. CASE ScopeCheck(r) BY <2>7 DEF ScopeCheck
  <2>8. CASE Dispatch(r) BY <2>8 DEF Dispatch
  <2>9. CASE WorkerCallEnds(r) BY <2>9 DEF WorkerCallEnds
  <2>10. CASE \E s \in SessionIds : Initialize(r, s) \/ VersionMismatch(r, s)
    BY <2>10 DEF Initialize, VersionMismatch
  <2>11. CASE \E s \in SessionIds \cup {Nothing}, site \in Sites \cup {Nothing} : BeginMethod(r, s, site)
    BY <2>11 DEF BeginMethod
  <2>12. CASE \E s \in SessionIds, t \in Streams : OpenStream(r, t, s)
    BY <2>12 DEF OpenStream
  <2> QED BY <1>6, <2>1, <2>2, <2>3, <2>4, <2>5, <2>6, <2>7, <2>8, <2>9, <2>10, <2>11, <2>12 DEF Handler
<1>7. CASE \E r \in Requests : \E kind \in {"post", "get", "sites"} : Arrive(r, kind)
  BY <1>7 DEF Arrive
<1>8. CASE \E s \in SessionIds : Delete(s) BY <1>8 DEF Delete
<1>9. CASE \E t \in Streams : Close(t) BY <1>9 DEF Close
<1> QED BY <1>1, <1>2, <1>3, <1>4, <1>5, <1>6, <1>7, <1>8, <1>9 DEF McpNext

(* The server spends and refills tokens only in rateCheck.                 *)
THEOREM ServerKeepsTheBucket == McpSpec => BucketSpec
<1>1. McpInit => BucketInit
  BY DEF McpInit
<1> QED BY <1>1, ServerMovesBucket, PTL DEF McpSpec, BucketSpec

LEMMA RateKept == RateInv /\ [McpNext]_mcpVars => RateInv'
<1> SUFFICES ASSUME RateInv, [McpNext]_mcpVars PROVE RateInv' OBVIOUS
<1>1. CASE UNCHANGED bucketVars
  BY <1>1 DEF bucketVars, RateInv, BucketTypeOK, Paid, Promised, Tokens
<1> QED BY <1>1, RateAdmit, RateRefuse, RateTick, ServerMovesBucket DEF BucketNext

(* rateCheck keeps the rate of every client: whatever requests come and    *)
(* when, no more are admitted than burst and refill pay for, and who comes *)
(* back when the refusal says so is admitted.                              *)
THEOREM RateLimitIsExact == McpSpec => []RateIsKept
<1>1. McpInit => RateInv
  BY RateInitially DEF McpInit
<1> QED BY <1>1, RateKept, RateInvSuffices, PTL DEF McpSpec

-----------------------------------------------------------------------------
(* The policies.                                                           *)

(* The file that a request loads where it is.                              *)
Loaded(r) == IF request[r].at = "authenticate" THEN "clients" ELSE "sites"
Handled   == {"authenticate", "list", "scope", "check"}

PolicyTyped ==
  /\ file \in [Files -> [version : Versions, mtime : Nat, whole : BOOLEAN]]
  /\ cache \in [Files -> [version : Versions, mtime : Int]]
  /\ reading \in {NoRead} \cup Nat
  /\ turn \in Requests \cup {Nothing}
  /\ request \in [Requests -> {NoRequest} \cup Request]

(* What is cached was in the file once, and is what is there if the times  *)
(* agree: a file that is not whole is nobody's.                            *)
FilesSound ==
  \A f \in Files :
    /\ file[f].version <= file[f].mtime
    /\ cache[f].version <= file[f].version /\ cache[f].mtime <= file[f].mtime
    /\ Current(f) => file[f].whole /\ cache[f].version = file[f].version

(* Only the handler that runs is between the stat and the read of a load.  *)
HandlerSound ==
  /\ \A r \in Requests : request[r].at \in Handled <=> turn = r
  /\ reading # NoRead => turn # Nothing /\ reading <= file[Loaded(turn)].mtime

(* A request knows no file that is older than its arrival, and has the     *)
(* client's entry of then or later; past the first check its site is one   *)
(* of this client's.                                                       *)
RequestSound(r) ==
  /\ request[r] # NoRequest => \A f \in Files : request[r].since[f] <= file[f].version
  /\ request[r].at \in {"body", "scope", "check"} => request[r].since["clients"] <= request[r].client
  /\ request[r].at = "check" => request[r].site \in Scope[request[r].client]

PolicyInv == PolicyTyped /\ FilesSound /\ HandlerSound /\ \A r \in Requests : RequestSound(r)

LEMMA PolicyInitially == McpInit => PolicyInv
<1> SUFFICES ASSUME McpInit PROVE PolicyInv OBVIOUS
<1> USE DEF McpInit, PolicyInit
<1>1. PolicyTyped
  BY PolicyAssumption, ServerAssumption DEF PolicyTyped, Files, Versions
<1>2. FilesSound
  BY DEF FilesSound, Current, Files
<1>3. HandlerSound
  BY ServerAssumption DEF HandlerSound, NoRequest, Handled
<1>4. \A r \in Requests : RequestSound(r)
  BY DEF RequestSound, NoRequest
<1> QED BY <1>1, <1>2, <1>3, <1>4 DEF PolicyInv

(* A load that ends leaves the file's version in the cache, which is as    *)
(* new as the file.                                                        *)
LEMMA LoadIsCurrent ==
  ASSUME PolicyInv, NEW r \in Requests, turn = r, NEW f \in Files, f = Loaded(r), Load(f)
  PROVE  /\ file' = file /\ reading' = NoRead
         /\ cache'[f].version = file[f].version
         /\ cache' \in [Files -> [version : Versions, mtime : Int]]
         /\ FilesSound'
<1>1. /\ file \in [Files -> [version : Versions, mtime : Nat, whole : BOOLEAN]]
      /\ cache \in [Files -> [version : Versions, mtime : Int]]
      /\ reading \in {NoRead} \cup Nat
      /\ NoRead \notin Int
  BY PolicyAssumption DEF PolicyInv, PolicyTyped
<1>2. file' = file BY DEF Load
<1>3. CASE reading = NoRead /\ Current(f) /\ UNCHANGED <<cache, reading>>
  BY <1>1, <1>2, <1>3 DEF PolicyInv, FilesSound, Current
<1>4. CASE Read(f)
  <2>1. /\ reading # NoRead /\ file[f].whole /\ reading' = NoRead
        /\ cache' = [cache EXCEPT ![f] = [version |-> file[f].version, mtime |-> reading]]
    BY <1>4 DEF Read
  <2>2. reading \in Nat /\ reading <= file[f].mtime
    BY <1>1, <2>1 DEF PolicyInv, HandlerSound
  <2>3. file[f].version \in Versions BY <1>1
  <2>4. /\ cache'[f] = [version |-> file[f].version, mtime |-> reading]
        /\ \A g \in Files \ {f} : cache'[g] = cache[g]
        /\ cache' \in [Files -> [version : Versions, mtime : Int]]
    BY <1>1, <2>1, <2>2, <2>3
  <2>5. FilesSound'
    <3> SUFFICES ASSUME NEW g \in Files
                 PROVE  /\ file[g].version <= file[g].mtime
                        /\ cache'[g].version <= file[g].version /\ cache'[g].mtime <= file[g].mtime
                        /\ cache'[g].mtime = file[g].mtime =>
                             file[g].whole /\ cache'[g].version = file[g].version
      BY <1>2 DEF FilesSound, Current
    <3>1. CASE g = f BY <1>1, <2>1, <2>2, <2>4, <3>1 DEF PolicyInv, FilesSound, Versions
    <3>2. CASE g # f BY <2>4, <3>2 DEF PolicyInv, FilesSound, Current
    <3> QED BY <3>1, <3>2
  <2> QED BY <1>2, <2>1, <2>4, <2>5
<1> QED BY <1>3, <1>4 DEF Load

(* An edit makes the file newer than every cached version of it.           *)
LEMMA EditKeeps == ASSUME PolicyInv, Operator PROVE PolicyInv'
<1>1. PICK f \in Files : BeginWrite(f) \/ EndWrite(f) \/ Replace(f)
  BY DEF Operator
<1>2. PICK v \in {file[f].version, file[f].version + 1}, w \in BOOLEAN : Change(f, v, w)
  BY <1>1 DEF BeginWrite, EndWrite, Replace
<1>3. /\ file \in [Files -> [version : Versions, mtime : Nat, whole : BOOLEAN]]
      /\ cache \in [Files -> [version : Versions, mtime : Int]]
      /\ reading \in {NoRead} \cup Nat /\ MaxEdits \in Nat /\ NoRead \notin Int
      /\ file[f].version <= file[f].mtime /\ file[f].mtime < MaxEdits
      /\ file' = [file EXCEPT ![f] = [version |-> v, mtime |-> file[f].mtime + 1, whole |-> w]]
      /\ UNCHANGED <<cache, reading, turn, request>>
  BY <1>2, PolicyAssumption DEF Change, Operator, serverVars, PolicyInv, PolicyTyped, FilesSound
<1>4. v \in Versions /\ file[f].version <= v /\ v <= file[f].mtime + 1 /\ file[f].mtime \in Nat
  BY <1>2, <1>3 DEF Versions
<1>5. /\ file'[f] = [version |-> v, mtime |-> file[f].mtime + 1, whole |-> w]
      /\ \A g \in Files \ {f} : file'[g] = file[g]
      /\ file' \in [Files -> [version : Versions, mtime : Nat, whole : BOOLEAN]]
  BY <1>3, <1>4
<1>6. \A g \in Files : file[g].version <= file'[g].version /\ file[g].mtime <= file'[g].mtime
                       /\ file[g].version \in Nat /\ file'[g].version \in Nat
                       /\ file[g].mtime \in Nat /\ file'[g].mtime \in Nat
  <2> SUFFICES ASSUME NEW g \in Files
               PROVE  file[g].version <= file'[g].version /\ file[g].mtime <= file'[g].mtime
                       /\ file[g].version \in Nat /\ file'[g].version \in Nat
                       /\ file[g].mtime \in Nat /\ file'[g].mtime \in Nat
    OBVIOUS
  <2>1. /\ file[g].version \in Nat /\ file'[g].version \in Nat
        /\ file[g].mtime \in Nat /\ file'[g].mtime \in Nat
    BY <1>3, <1>5 DEF Versions
  <2> QED BY <1>4, <1>5, <2>1
<1>7. PolicyTyped'
  BY <1>3, <1>5 DEF PolicyInv, PolicyTyped
<1>8. FilesSound'
  <2> SUFFICES ASSUME NEW g \in Files
               PROVE  /\ file'[g].version <= file'[g].mtime
                      /\ cache[g].version <= file'[g].version /\ cache[g].mtime <= file'[g].mtime
                      /\ cache[g].mtime = file'[g].mtime =>
                           file'[g].whole /\ cache[g].version = file'[g].version
    BY <1>3 DEF FilesSound, Current
  <2>1. CASE g = f
    <3>1. cache[f].mtime \in Int /\ cache[f].version \in Nat /\ file[f].version \in Nat /\ v \in Nat
      BY <1>3, <1>4 DEF Versions
    <3> QED BY <1>3, <1>4, <1>5, <2>1, <3>1 DEF PolicyInv, FilesSound
  <2>2. CASE g # f BY <1>5, <2>2 DEF PolicyInv, FilesSound, Current
  <2> QED BY <2>1, <2>2
<1>9. HandlerSound'
  <2>1. reading # NoRead => Loaded(turn) \in Files /\ reading <= file[Loaded(turn)].mtime
    BY DEF PolicyInv, HandlerSound, Loaded, Files
  <2> QED BY <1>3, <1>6, <2>1 DEF PolicyInv, HandlerSound, Loaded
<1>10. ASSUME NEW r \in Requests PROVE RequestSound(r)'
  <2>1. request[r] # NoRequest => \A g \in Files : request[r].since[g] \in Nat
    BY DEF PolicyInv, PolicyTyped, Request, Versions
  <2> QED BY <1>3, <1>6, <2>1 DEF PolicyInv, RequestSound
<1> QED BY <1>7, <1>8, <1>9, <1>10 DEF PolicyInv

(* A step of the handler of r that ends with no load under way.            *)
RequestOK(r, q) ==
  /\ q \in {NoRequest} \cup Request
  /\ q # NoRequest => \A f \in Files : q.since[f] <= file[f].version
  /\ q.at \in {"body", "scope", "check"} => q.since["clients"] <= q.client
  /\ q.at = "check" => q.site \in Scope[q.client]

LEMMA RequestChanges ==
  ASSUME PolicyInv, NEW r \in Requests, NEW q, RequestOK(r, q),
         request' = [request EXCEPT ![r] = q],
         turn \in {r, Nothing}, turn' = IF q.at \in Handled THEN r ELSE Nothing,
         file' = file, reading' = NoRead, FilesSound',
         cache' \in [Files -> [version : Versions, mtime : Int]]
  PROVE  PolicyInv'
<1>1. request \in [Requests -> {NoRequest} \cup Request] /\ Nothing \notin Requests
  BY ServerAssumption DEF PolicyInv, PolicyTyped
<1>2. request'[r] = q /\ \A p \in Requests \ {r} : request'[p] = request[p]
  BY <1>1
<1>3. PolicyTyped'
  BY <1>1 DEF PolicyInv, PolicyTyped, RequestOK
<1>4. HandlerSound'
  <2>1. \A p \in Requests \ {r} : request[p].at \notin Handled
    BY <1>1 DEF PolicyInv, HandlerSound
  <2> QED BY <1>1, <1>2, <2>1 DEF HandlerSound
<1>5. \A p \in Requests : RequestSound(p)'
  BY <1>2 DEF PolicyInv, RequestSound, RequestOK
<1> QED BY <1>3, <1>4, <1>5 DEF PolicyInv

(* Between two handlers no load is under way.                              *)
LEMMA NoLoadBetween == PolicyInv /\ turn = Nothing => reading = NoRead
BY DEF PolicyInv, HandlerSound

LEMMA SameFiles ==
  ASSUME PolicyInv, file' = file, cache' = cache
  PROVE  FilesSound' /\ cache' \in [Files -> [version : Versions, mtime : Int]]
BY DEF PolicyInv, PolicyTyped, FilesSound, Current

LEMMA NoRequestOK == ASSUME NEW r \in Requests PROVE RequestOK(r, NoRequest)
BY DEF RequestOK, NoRequest

(* A handler that answers, its loads done or given up.                     *)
LEMMA RespondKeeps ==
  ASSUME PolicyInv, NEW r \in Requests, Respond(r), turn \in {r, Nothing},
         file' = file, reading' = NoRead, FilesSound',
         cache' \in [Files -> [version : Versions, mtime : Int]]
  PROVE  PolicyInv'
<1>1. NoRequest.at \notin Handled BY DEF NoRequest, Handled
<1> QED BY <1>1, NoRequestOK, RequestChanges DEF Respond

(* The load of a request's handler is of the file its place says.          *)
LEMMA ClientsLoaded ==
  ASSUME PolicyInv, NEW r \in Requests, Runs(r, "authenticate"), Load("clients")
  PROVE  /\ file' = file /\ reading' = NoRead /\ turn = r /\ FilesSound'
         /\ cache'["clients"].version = file["clients"].version
         /\ cache' \in [Files -> [version : Versions, mtime : Int]]
BY LoadIsCurrent DEF Runs, Loaded, Files

LEMMA SitesLoaded ==
  ASSUME PolicyInv, NEW r \in Requests, turn = r, request[r].at # "authenticate", Load("sites")
  PROVE  /\ file' = file /\ reading' = NoRead /\ FilesSound'
         /\ cache'["sites"].version = file["sites"].version
         /\ cache' \in [Files -> [version : Versions, mtime : Int]]
BY LoadIsCurrent DEF Loaded, Files

LEMMA ArriveKeeps ==
  ASSUME PolicyInv, NEW r \in Requests, NEW kind \in {"post", "get", "sites"}, Arrive(r, kind)
  PROVE  PolicyInv'
<1> DEFINE q == [at |-> "authenticate", kind |-> kind, client |-> 0, site |-> Nothing, since |-> Versions0]
<1>1. file \in [Files -> [version : Versions, mtime : Nat, whole : BOOLEAN]] /\ 0 \in Versions
  BY PolicyAssumption DEF PolicyInv, PolicyTyped, Versions
<1>2. Versions0 \in [Files -> Versions] /\ \A f \in Files : Versions0[f] = file[f].version
  BY <1>1 DEF Versions0
<1>3. q \in Request BY <1>1, <1>2 DEF Request
<1>4. RequestOK(r, q)
  BY <1>1, <1>2, <1>3 DEF RequestOK, Versions
<1>5. q.at \in Handled /\ request' = [request EXCEPT ![r] = q] /\ turn = Nothing /\ turn' = r
  BY DEF Handled, Arrive
<1>6. file' = file /\ cache' = cache /\ reading' = reading
  BY DEF Arrive, policyVars
<1> HIDE DEF q
<1> QED BY <1>4, <1>5, <1>6, NoLoadBetween, SameFiles, RequestChanges

LEMMA AuthenticateKeeps ==
  ASSUME PolicyInv, NEW r \in Requests, Authenticate(r)
  PROVE  PolicyInv'
<1> DEFINE q == [[request[r] EXCEPT !.at = "body"] EXCEPT !.client = cache'["clients"].version]
<1>1. Runs(r, "authenticate") /\ Load("clients") BY DEF Authenticate
<1>2. /\ file' = file /\ reading' = NoRead /\ turn = r /\ FilesSound'
      /\ cache'["clients"].version = file["clients"].version
      /\ cache' \in [Files -> [version : Versions, mtime : Int]]
  BY <1>1, ClientsLoaded
<1>3. CASE turn' = Nothing /\ request' = [request EXCEPT ![r] = q]
  <2>1. request[r] \in Request /\ "clients" \in Files
    BY <1>1 DEF Runs, PolicyInv, PolicyTyped, NoRequest, Files
  <2>2. /\ q \in Request /\ q.at = "body" /\ q.since = request[r].since
        /\ q.client = cache'["clients"].version
    BY <1>2, <2>1 DEF Request
  <2>3. RequestOK(r, q)
    <3>1. \A f \in Files : request[r].since[f] <= file[f].version
      BY <1>1, <2>1 DEF PolicyInv, RequestSound, Runs, NoRequest
    <3> HIDE DEF q
    <3> QED BY <1>2, <2>1, <2>2, <3>1 DEF RequestOK
  <2>4. q.at \notin Handled BY <2>2 DEF Handled
  <2> HIDE DEF q
  <2> QED BY <1>2, <1>3, <2>3, <2>4, RequestChanges
<1>4. CASE Respond(r)
  BY <1>2, <1>4, RespondKeeps
<1>5. \/ turn' = Nothing /\ request' = [request EXCEPT ![r] = q]
      \/ Respond(r)
  BY DEF Authenticate
<1> QED BY <1>3, <1>4, <1>5

LEMMA LoadStepsKeeps ==
  ASSUME PolicyInv, NEW r \in Requests, LoadSteps(r)
  PROVE  PolicyInv'
<1>1. turn = r BY DEF LoadSteps
<1>2. ASSUME NEW f \in Files, f = Loaded(r), Stat(f), UNCHANGED <<turn, request>>
      PROVE  PolicyInv'
  <2>1. file' = file /\ cache' = cache /\ reading' = file[f].mtime /\ turn' = turn /\ request' = request
    BY <1>2 DEF Stat
  <2>2. file[f].mtime \in Nat BY DEF PolicyInv, PolicyTyped
  <2>3. PolicyTyped' BY <2>1, <2>2 DEF PolicyInv, PolicyTyped
  <2>4. HandlerSound'
    BY <1>1, <1>2, <2>1, <2>2, ServerAssumption DEF PolicyInv, HandlerSound, Loaded
  <2>5. \A p \in Requests : RequestSound(p)' BY <2>1 DEF PolicyInv, RequestSound
  <2> QED BY <2>1, <2>3, <2>4, <2>5, SameFiles DEF PolicyInv
<1>3. ASSUME NEW f \in Files, LoadThrows(f), Respond(r) PROVE PolicyInv'
  BY <1>1, <1>3, SameFiles, RespondKeeps DEF LoadThrows
<1>4. CASE \E f \in {"clients"} : Runs(r, "authenticate") /\ Stat(f) /\ UNCHANGED <<turn, request>>
  BY <1>2, <1>4 DEF Runs, Loaded, Files
<1>5. CASE /\ request[r].at \in {"list", "scope", "check"}
           /\ Stat("sites") /\ UNCHANGED <<turn, request>>
  BY <1>2, <1>5 DEF Loaded, Files
<1>6. CASE LoadThrows(IF Runs(r, "authenticate") THEN "clients" ELSE "sites") /\ Respond(r)
  BY <1>3, <1>6 DEF Files
<1> QED BY <1>4, <1>5, <1>6 DEF LoadSteps

LEMMA LoadingKeeps ==
  ASSUME PolicyInv, NEW r \in Requests,
         BeginSites(r) \/ StreamRefused(r) \/ AnswerList(r)
           \/ \E s \in SessionIds, t \in Streams : OpenStream(r, t, s)
  PROVE  PolicyInv'
<1>1. CASE BeginSites(r)
  <2> DEFINE q == [request[r] EXCEPT !.at = "list"]
  <2>1. Runs(r, "authenticate") /\ Load("clients") /\ turn' = turn /\ request' = [request EXCEPT ![r] = q]
    BY <1>1 DEF BeginSites
  <2>2. request[r] \in Request /\ request[r] # NoRequest
    BY <2>1 DEF Runs, PolicyInv, PolicyTyped, NoRequest
  <2>3. q \in Request /\ q.at = "list" /\ q.since = request[r].since
    BY <2>2 DEF Request
  <2>4. RequestOK(r, q)
    <3>1. \A f \in Files : request[r].since[f] <= file[f].version
      BY <2>2 DEF PolicyInv, RequestSound
    <3> HIDE DEF q
    <3> QED BY <2>3, <3>1 DEF RequestOK
  <2> HIDE DEF q
  <2> QED BY <2>1, <2>3, <2>4, ClientsLoaded, RequestChanges DEF Handled
<1>2. CASE Runs(r, "authenticate") /\ Load("clients") /\ Respond(r)
  BY <1>2, ClientsLoaded, RespondKeeps
<1>3. CASE Runs(r, "list") /\ Load("sites") /\ Respond(r)
  BY <1>3, SitesLoaded, RespondKeeps DEF Runs
<1> QED BY <1>1, <1>2, <1>3 DEF StreamRefused, AnswerList, OpenStream

(* What is between two handlers loads nothing.                             *)
LEMMA AnsweredKeeps ==
  ASSUME PolicyInv, NEW r \in Requests,
         BodyRefused(r) \/ WorkerCallEnds(r)
           \/ \E s \in SessionIds : Initialize(r, s) \/ VersionMismatch(r, s)
  PROVE  PolicyInv'
<1>1. turn = Nothing /\ Respond(r) /\ UNCHANGED policyVars
  BY DEF BodyRefused, WorkerCallEnds, Initialize, VersionMismatch, Resumes
<1> QED BY <1>1, NoLoadBetween, SameFiles, RespondKeeps DEF policyVars

LEMMA BeginMethodKeeps ==
  ASSUME PolicyInv, NEW r \in Requests, NEW s \in SessionIds \cup {Nothing},
         NEW site \in Sites \cup {Nothing}, BeginMethod(r, s, site)
  PROVE  PolicyInv'
<1> DEFINE place == IF site = Nothing THEN "list" ELSE "scope"
           since == [request[r].since EXCEPT !["sites"] = file["sites"].version]
           q == [request[r] EXCEPT !.at = place, !.site = site, !.since = since]
<1>1. /\ request[r].at = "body" /\ turn = Nothing /\ turn' = r
      /\ request' = [request EXCEPT ![r] = q]
      /\ file' = file /\ cache' = cache /\ reading' = reading
  BY DEF BeginMethod, Resumes, policyVars
<1>2. request[r] \in Request /\ request[r] # NoRequest
  BY <1>1 DEF PolicyInv, PolicyTyped, NoRequest
<1>3. file["sites"].version \in Versions
  BY DEF PolicyInv, PolicyTyped, Files
<1>4. /\ since \in [Files -> Versions] /\ since["sites"] = file["sites"].version
      /\ since["clients"] = request[r].since["clients"]
  BY <1>2, <1>3 DEF Request, Files
<1>5. place \in {"list", "scope"} OBVIOUS
<1> HIDE DEF place, since
<1>6. /\ q \in Request /\ q.at = place /\ q.since = since /\ q.client = request[r].client
  BY <1>2, <1>4, <1>5 DEF Request
<1> HIDE DEF q
<1>7. \A f \in Files : since[f] <= file[f].version
  BY <1>2, <1>3, <1>4 DEF PolicyInv, RequestSound, Files, Versions
<1>8. since["clients"] <= q.client
  BY <1>1, <1>4, <1>6 DEF PolicyInv, RequestSound
<1>9. RequestOK(r, q)
  BY <1>5, <1>6, <1>7, <1>8 DEF RequestOK
<1>10. q.at \in Handled BY <1>5, <1>6 DEF Handled
<1> QED BY <1>1, <1>9, <1>10, NoLoadBetween, SameFiles, RequestChanges

(* The first check leaves a site of this client.                           *)
LEMMA ScopeCheckKeeps ==
  ASSUME PolicyInv, NEW r \in Requests, ScopeCheck(r)
  PROVE  PolicyInv'
<1> DEFINE q == [request[r] EXCEPT !.at = "check"]
<1>1. /\ Runs(r, "scope") /\ Load("sites")
      /\ \/ /\ request[r].site \in Scope[request[r].client]
            /\ turn' = turn /\ request' = [request EXCEPT ![r] = q]
         \/ Respond(r)
  BY DEF ScopeCheck
<1>2. request[r].at = "scope" /\ turn = r BY <1>1 DEF Runs
<1>3. CASE Respond(r)
  BY <1>1, <1>2, <1>3, SitesLoaded, RespondKeeps
<1>4. CASE /\ request[r].site \in Scope[request[r].client]
           /\ turn' = turn /\ request' = [request EXCEPT ![r] = q]
  <2>1. request[r] \in Request /\ request[r] # NoRequest
    BY <1>2 DEF PolicyInv, PolicyTyped, NoRequest
  <2>2. /\ q \in Request /\ q.at = "check" /\ q.since = request[r].since
        /\ q.client = request[r].client /\ q.site = request[r].site
    BY <2>1 DEF Request
  <2>3. RequestOK(r, q)
    <3>1. /\ \A f \in Files : request[r].since[f] <= file[f].version
          /\ request[r].since["clients"] <= request[r].client
      BY <1>2, <2>1 DEF PolicyInv, RequestSound
    <3> HIDE DEF q
    <3> QED BY <1>4, <2>2, <3>1 DEF RequestOK
  <2>4. q.at \in Handled BY <2>2 DEF Handled
  <2> HIDE DEF q
  <2> QED BY <1>1, <1>2, <1>4, <2>3, <2>4, SitesLoaded, RequestChanges
<1> QED BY <1>1, <1>3, <1>4

LEMMA DispatchKeeps ==
  ASSUME PolicyInv, NEW r \in Requests, Dispatch(r)
  PROVE  PolicyInv'
<1> DEFINE q == [request[r] EXCEPT !.at = "worker"]
<1>1. /\ request[r].at = "check" /\ turn = r /\ Load("sites")
      /\ \/ turn' = Nothing /\ request' = [request EXCEPT ![r] = q]
         \/ Respond(r)
  BY DEF Dispatch, Runs, Await
<1>2. CASE Respond(r)
  BY <1>1, <1>2, SitesLoaded, RespondKeeps
<1>3. CASE turn' = Nothing /\ request' = [request EXCEPT ![r] = q]
  <2>1. request[r] \in Request /\ request[r] # NoRequest
    BY <1>1 DEF PolicyInv, PolicyTyped, NoRequest
  <2>2. q \in Request /\ q.at = "worker" /\ q.since = request[r].since
    BY <2>1 DEF Request
  <2>3. RequestOK(r, q)
    <3>1. \A f \in Files : request[r].since[f] <= file[f].version
      BY <2>1 DEF PolicyInv, RequestSound
    <3> HIDE DEF q
    <3> QED BY <2>2, <3>1 DEF RequestOK
  <2>4. q.at \notin Handled BY <2>2 DEF Handled
  <2> HIDE DEF q
  <2> QED BY <1>1, <1>3, <2>3, <2>4, SitesLoaded, RequestChanges
<1> QED BY <1>1, <1>2, <1>3

(* The other steps move neither a file nor a request.                      *)
LEMMA IdleKeeps ==
  ASSUME PolicyInv, UNCHANGED <<file, cache, reading, turn, request>>
  PROVE  PolicyInv'
<1>1. PolicyTyped' BY DEF PolicyInv, PolicyTyped
<1>2. FilesSound' BY DEF PolicyInv, FilesSound, Current
<1>3. HandlerSound' BY DEF PolicyInv, HandlerSound, Loaded
<1>4. \A r \in Requests : RequestSound(r)' BY DEF PolicyInv, RequestSound
<1> QED BY <1>1, <1>2, <1>3, <1>4 DEF PolicyInv

LEMMA HandlerKeeps ==
  ASSUME PolicyInv, NEW r \in Requests, Handler(r)
  PROVE  PolicyInv'
<1>1. CASE Authenticate(r) BY <1>1, AuthenticateKeeps
<1>2. CASE LoadSteps(r) BY <1>2, LoadStepsKeeps
<1>3. CASE BeginSites(r) \/ StreamRefused(r) \/ AnswerList(r)
             \/ \E s \in SessionIds, t \in Streams : OpenStream(r, t, s)
  BY <1>3, LoadingKeeps
<1>4. CASE BodyRefused(r) \/ WorkerCallEnds(r)
             \/ \E s \in SessionIds : Initialize(r, s) \/ VersionMismatch(r, s)
  BY <1>4, AnsweredKeeps
<1>5. CASE ScopeCheck(r) BY <1>5, ScopeCheckKeeps
<1>6. CASE Dispatch(r) BY <1>6, DispatchKeeps
<1>7. CASE \E s \in SessionIds \cup {Nothing}, site \in Sites \cup {Nothing} : BeginMethod(r, s, site)
  BY <1>7, BeginMethodKeeps
<1> QED BY <1>1, <1>2, <1>3, <1>4, <1>5, <1>6, <1>7 DEF Handler

LEMMA ServerKeepsPolicies == PolicyInv /\ [McpNext]_mcpVars => PolicyInv'
<1> SUFFICES ASSUME PolicyInv, [McpNext]_mcpVars PROVE PolicyInv' OBVIOUS
<1>1. CASE UNCHANGED mcpVars
  BY <1>1, IdleKeeps DEF mcpVars, policyVars, serverVars
<1>2. CASE Operator BY <1>2, EditKeeps
<1>3. CASE Clock BY <1>3, IdleKeeps DEF Clock, policyVars, serverVars
<1>4. CASE WatchReports BY <1>4, IdleKeeps DEF WatchReports, Watch, serverVars
<1>5. CASE Broadcast BY <1>5, IdleKeeps DEF Broadcast, Elapse
<1>6. CASE \E r \in Requests : Handler(r) BY <1>6, HandlerKeeps
<1>7. CASE \E r \in Requests : \E kind \in {"post", "get", "sites"} : Arrive(r, kind)
  BY <1>7, ArriveKeeps
<1>8. CASE \E s \in SessionIds : Delete(s)
  BY <1>8, IdleKeeps DEF Delete, policyVars
<1>9. CASE \E t \in Streams : Close(t)
  BY <1>9, IdleKeeps DEF Close, policyVars
<1> QED BY <1>1, <1>2, <1>3, <1>4, <1>5, <1>6, <1>7, <1>8, <1>9 DEF McpNext

(* Only the second check of callTool hands a call to the worker.           *)
LEMMA OnlyDispatchCalls ==
  ASSUME PolicyInv, [McpNext]_mcpVars, NEW r \in Requests,
         request[r].at = "check", request'[r].at = "worker"
  PROVE  Dispatch(r)
<1>1. turn = r /\ r # Nothing
  BY ServerAssumption DEF PolicyInv, HandlerSound, Handled
<1>2. request \in [Requests -> {NoRequest} \cup Request]
  BY DEF PolicyInv, PolicyTyped
<1>3. request' # request OBVIOUS
<1>4. ~UNCHANGED mcpVars BY <1>3 DEF mcpVars, serverVars
<1>5. ~Operator /\ ~Clock /\ ~WatchReports /\ ~Broadcast
  BY <1>3 DEF Operator, Clock, WatchReports, Broadcast, serverVars
<1>6. ~(\E s \in SessionIds : Delete(s)) /\ ~(\E t \in Streams : Close(t))
  BY <1>1 DEF Delete, Close
<1>7. ~(\E p \in Requests : \E kind \in {"post", "get", "sites"} : Arrive(p, kind))
  BY <1>1 DEF Arrive
<1>8. PICK p \in Requests : Handler(p)
  BY <1>4, <1>5, <1>6, <1>7 DEF McpNext
<1>9. ~Respond(p) \/ p # r
  BY <1>2 DEF Respond, NoRequest
<1>10. p = r /\ Dispatch(p)
  <2>1. ~(BodyRefused(p) \/ WorkerCallEnds(p)
            \/ (\E s \in SessionIds : Initialize(p, s) \/ VersionMismatch(p, s))
            \/ (\E s \in SessionIds \cup {Nothing}, site \in Sites \cup {Nothing} : BeginMethod(p, s, site)))
    BY <1>1 DEF BodyRefused, WorkerCallEnds, Initialize, VersionMismatch, BeginMethod, Resumes
  <2>2. p = r
    BY <1>1, <1>8, <2>1 DEF Handler, Authenticate, LoadSteps, BeginSites, StreamRefused,
       AnswerList, ScopeCheck, Dispatch, OpenStream, Runs
  <2>3. ~Authenticate(r) /\ ~BeginSites(r) /\ ~StreamRefused(r) /\ ~AnswerList(r) /\ ~ScopeCheck(r)
        /\ ~(\E s \in SessionIds, t \in Streams : OpenStream(r, t, s))
    BY DEF Authenticate, BeginSites, StreamRefused, AnswerList, ScopeCheck, OpenStream, Runs
  <2>4. ~LoadSteps(r)
    BY <1>3, <1>9, <2>2 DEF LoadSteps
  <2> QED BY <1>8, <2>1, <2>2, <2>3, <2>4 DEF Handler
<1> QED BY <1>10

(* The policies a call is held against are never older than its request:   *)
(* no edit of sites.json or clients.json, between the loads of callTool or *)
(* in the middle of one, leaves an old version cached or lets a call       *)
(* through that neither the old nor a newer file grants.                   *)
THEOREM CallsAreGranted == McpSpec => PoliciesAreCurrent
<1>1. McpInit => PolicyInv
  BY PolicyInitially
<1>2. PolicyInv /\ [McpNext]_mcpVars => PolicyInv'
  BY ServerKeepsPolicies
<1>3. ASSUME PolicyInv, PolicyInv', [McpNext]_mcpVars
      PROVE  /\ NeverPinned'
             /\ \A r \in Requests :
                  request[r].at = "check" /\ request'[r].at = "worker" => IsGranted(r)
  <2>1. NeverPinned'
    BY <1>3 DEF PolicyInv, FilesSound, NeverPinned
  <2>2. ASSUME NEW r \in Requests, request[r].at = "check", request'[r].at = "worker"
        PROVE  IsGranted(r)
    <3>1. Dispatch(r) BY <1>3, <2>2, OnlyDispatchCalls
    <3>2. turn = r /\ Load("sites") BY <3>1 DEF Dispatch, Runs
    <3>3. cache'["sites"].version = file["sites"].version
      BY <1>3, <2>2, <3>2, SitesLoaded
    <3>4. request[r].site \in Allows[cache'["sites"].version]
      <4>1. request \in [Requests -> {NoRequest} \cup Request]
        BY <1>3 DEF PolicyInv, PolicyTyped
      <4>2. ~Respond(r) BY <2>2, <4>1 DEF Respond, NoRequest
      <4> QED BY <3>1, <4>2 DEF Dispatch
    <3>5. request[r] # NoRequest BY <2>2 DEF NoRequest
    <3>6. /\ request[r].since["sites"] <= file["sites"].version
          /\ request[r].since["clients"] <= request[r].client
          /\ request[r].site \in Scope[request[r].client]
      BY <1>3, <2>2, <3>5 DEF PolicyInv, RequestSound, Files
    <3> QED BY <3>3, <3>4, <3>6 DEF IsGranted
  <2> QED BY <2>1, <2>2
<1>4. PolicyInv /\ PolicyInv' /\ [McpNext]_mcpVars =>
        [/\ NeverPinned'
         /\ \A r \in Requests :
              request[r].at = "check" /\ request'[r].at = "worker" => IsGranted(r)]_mcpVars
  BY <1>3
<1> QED BY <1>1, <1>2, <1>4, PTL DEF McpSpec, PoliciesAreCurrent

-----------------------------------------------------------------------------
(* The streams and their notices.                                          *)

StreamTypes ==
  /\ now \in Instants /\ event \in BOOLEAN /\ debounce \in BOOLEAN
  /\ sessions \in [SessionIds -> {Gone} \cup Session] /\ minted \subseteq SessionIds
  /\ stream \in [Streams -> [session : SessionIds \cup {Nothing}, open : BOOLEAN]]
  /\ sinks \subseteq Streams /\ told \in [Streams -> Nat]
  /\ newest \in [SessionIds -> Streams \cup {Nothing}]

(* Open streams of live sessions are told of changes, and only open ones   *)
(* are; a stream is for good that of a session whose id was minted.        *)
StreamSound(t) ==
  /\ stream[t].session # Nothing => stream[t].session \in minted
  /\ t \in sinks => stream[t].open
  /\ stream[t].open => stream[t].session # Nothing
  /\ stream[t].open /\ stream[t].session \in Live => t \in sinks

(* A live session has its newest stream as its sink, as long as that is    *)
(* open: so its end takes that one along.                                  *)
SinkSound(s) ==
  /\ s \in Live => s \in minted
  /\ newest[s] # Nothing => stream[newest[s]].session = s
  /\ s \in Live /\ sessions[s].sink # Nothing => sessions[s].sink = newest[s]
  /\ s \in Live /\ newest[s] # Nothing /\ stream[newest[s]].open => sessions[s].sink = newest[s]

StreamInv ==
  /\ StreamTypes
  /\ \A t \in Streams : StreamSound(t)
  /\ \A s \in SessionIds : SinkSound(s)
  /\ ChangesAreTold

LEMMA StreamsInitially == McpInit => StreamInv
<1> SUFFICES ASSUME McpInit PROVE StreamInv OBVIOUS
<1>1. StreamTypes
  <2>1. stream \in [Streams -> [session : SessionIds \cup {Nothing}, open : BOOLEAN]]
    BY DEF McpInit
  <2>2. now \in Instants
    BY BucketAssumption DEF McpInit, BucketInit, Instants
  <2>3. told \in [Streams -> Nat] /\ newest \in [SessionIds -> Streams \cup {Nothing}]
    BY DEF McpInit
  <2>4. event \in BOOLEAN /\ debounce \in BOOLEAN
    BY DEF McpInit, PolicyInit
  <2> QED BY <2>1, <2>2, <2>3, <2>4 DEF McpInit, StreamTypes
<1>2. \A t \in Streams : StreamSound(t) /\ ~stream[t].open /\ t \notin sinks
  BY DEF McpInit, StreamSound
<1>3. \A s \in SessionIds : SinkSound(s)
  BY DEF McpInit, SinkSound, Live
<1>4. ChangesAreTold
  BY <1>1, <1>2 DEF ChangesAreTold, QuietMeansTold, DroppedIsSilent, StreamTypes
<1> QED BY <1>1, <1>2, <1>3, <1>4 DEF StreamInv

(* A record of a session that is written leaves it alive.                  *)
LEMMA SessionLives ==
  ASSUME StreamTypes, NEW s \in SessionIds, NEW at \in Instants, NEW sink \in Streams \cup {Nothing}
  PROVE  /\ [lastSeen |-> at, sink |-> sink] \in Session
         /\ [lastSeen |-> at, sink |-> sink] # Gone /\ Gone \notin Session
<1>1. \A q \in Session : DOMAIN q = {"lastSeen", "sink"}
  BY DEF Session
<1>2. DOMAIN Gone = {"sink"}
  BY DEF Gone
<1>3. [lastSeen |-> at, sink |-> sink] \in Session
  BY DEF Session
<1>4. Gone \notin Session
  BY <1>1, <1>2
<1> QED BY <1>3, <1>4

(* A request of a live session is seen, and nothing else changes.          *)
LEMMA TouchKeeps ==
  ASSUME StreamInv, NEW s \in Live, sessions' = Touched(s)
  PROVE  /\ sessions' \in [SessionIds -> {Gone} \cup Session] /\ Live' = Live
         /\ \A q \in Live : sessions'[q].sink = sessions[q].sink
<1>1. s \in SessionIds /\ sessions[s] \in Session /\ now \in Instants
      /\ sessions \in [SessionIds -> {Gone} \cup Session]
  BY DEF StreamInv, StreamTypes, Live
<1> DEFINE q == [sessions[s] EXCEPT !.lastSeen = now]
<1>2. q \in Session /\ q.sink = sessions[s].sink
  BY <1>1 DEF Session
<1>3. sessions' = [sessions EXCEPT ![s] = q]
  BY DEF Touched
<1> HIDE DEF q
<1>4. Gone \notin Session
  BY <1>1, SessionLives DEF StreamInv, Session
<1> QED BY <1>1, <1>2, <1>3, <1>4 DEF Live

(* Steps that open, close and drop nothing, and change no file that they   *)
(* do not report.                                                          *)
LEMMA QuietKeeps ==
  ASSUME StreamInv, now' \in Instants, UNCHANGED <<minted, streamVars>>,
         \/ UNCHANGED <<file, event, debounce>>
         \/ event' = TRUE /\ UNCHANGED debounce
         \/ event' = FALSE /\ debounce' = TRUE,
         UNCHANGED sessions \/ \E s \in Live : sessions' = Touched(s)
  PROVE  StreamInv'
<1>1. /\ sessions' \in [SessionIds -> {Gone} \cup Session] /\ Live' = Live
      /\ \A q \in Live : sessions'[q].sink = sessions[q].sink
  <2>1. CASE UNCHANGED sessions
    BY <2>1 DEF StreamInv, StreamTypes, Live
  <2>2. CASE \E s \in Live : sessions' = Touched(s)
    BY <2>2, TouchKeeps
  <2> QED BY <2>1, <2>2
<1>2. StreamTypes'
  BY <1>1 DEF StreamInv, StreamTypes, streamVars
<1>3. \A t \in Streams : StreamSound(t)'
  BY <1>1 DEF StreamInv, StreamSound, streamVars
<1>4. \A s \in SessionIds : SinkSound(s)'
  BY <1>1 DEF StreamInv, SinkSound, streamVars
<1>5. DroppedIsSilent'
  BY <1>1 DEF StreamInv, ChangesAreTold, DroppedIsSilent, streamVars
<1>6. QuietMeansTold'
  <2>1. CASE UNCHANGED <<file, event, debounce>>
    BY <1>1, <2>1 DEF StreamInv, ChangesAreTold, QuietMeansTold, Changes, streamVars
  <2> QED BY <2>1 DEF QuietMeansTold
<1> QED BY <1>2, <1>3, <1>4, <1>5, <1>6 DEF StreamInv, ChangesAreTold

(* GET /mcp: the new stream is no other session's, and told of everything. *)
LEMMA OpenKeeps ==
  ASSUME PolicyInv, StreamInv, NEW r \in Requests, NEW t \in Streams, NEW s \in SessionIds,
         OpenStream(r, t, s)
  PROVE  StreamInv'
<1>1. /\ stream[t].session = Nothing /\ s \in Live
      /\ stream' = [stream EXCEPT ![t] = [session |-> s, open |-> TRUE]]
      /\ sinks' = sinks \cup {t}
      /\ sessions' = [sessions EXCEPT ![s] = [lastSeen |-> now, sink |-> t]]
      /\ told' = [told EXCEPT ![t] = Changes]
      /\ newest' = [newest EXCEPT ![s] = t]
      /\ UNCHANGED <<file, event, debounce, minted, now>>
  BY DEF OpenStream, Load, bucketVars
<1>2. StreamTypes /\ Nothing \notin SessionIds /\ Nothing \notin Streams /\ Changes \in Nat
  BY ServerAssumption DEF StreamInv, PolicyInv, PolicyTyped, Changes, Files
<1> DEFINE q == [lastSeen |-> now, sink |-> t]
<1>3. q \in Session /\ q # Gone /\ q.sink = t
  BY <1>2, SessionLives DEF StreamTypes
<1>4. sessions' = [sessions EXCEPT ![s] = q]
  BY <1>1
<1> HIDE DEF q
<1>5. StreamTypes'
  BY <1>1, <1>2, <1>3, <1>4 DEF StreamTypes
<1>6. /\ Live' = Live /\ sessions'[s].sink = t
      /\ \A p \in SessionIds \ {s} : sessions'[p] = sessions[p] /\ newest'[p] = newest[p]
      /\ newest'[s] = t
  BY <1>1, <1>2, <1>3, <1>4 DEF Live, StreamTypes
<1>7. /\ stream'[t].session = s /\ stream'[t].open /\ told'[t] = Changes
      /\ \A u \in Streams \ {t} : stream'[u] = stream[u] /\ told'[u] = told[u]
  BY <1>1, <1>2 DEF StreamTypes
<1>8. s \in minted /\ ~stream[t].open /\ t \notin sinks
  BY <1>1 DEF StreamInv, SinkSound, StreamSound
<1>9. ASSUME NEW u \in Streams PROVE StreamSound(u)'
  <2>1. StreamSound(u) BY DEF StreamInv
  <2> QED BY <1>1, <1>2, <1>6, <1>7, <1>8, <2>1 DEF StreamSound
<1>10. ASSUME NEW p \in SessionIds PROVE SinkSound(p)'
  <2>1. SinkSound(p) BY DEF StreamInv
  <2>2. CASE p = s
    BY <1>1, <1>6, <1>7, <1>8, <2>2 DEF SinkSound
  <2>3. CASE p # s
    <3>1. newest[p] # Nothing => newest[p] \in Streams \ {t}
      BY <1>1, <1>2, <2>1 DEF SinkSound, StreamTypes
    <3> QED BY <1>1, <1>6, <1>7, <2>1, <2>3, <3>1 DEF SinkSound
  <2> QED BY <2>2, <2>3
<1>11. QuietMeansTold'
  <2>1. Changes' = Changes
    BY <1>1 DEF Changes
  <2> QED BY <1>1, <1>6, <1>7, <2>1 DEF StreamInv, ChangesAreTold, QuietMeansTold
<1>12. DroppedIsSilent'
  <2> SUFFICES ASSUME NEW u \in sinks'
               PROVE  stream'[u].open /\ (stream'[u].session \notin Live => newest'[stream'[u].session] # u)
    BY <1>6 DEF DroppedIsSilent
  <2>1. CASE u = t
    BY <1>1, <1>7, <2>1
  <2>2. CASE u # t
    <3>1. u \in sinks /\ u \in Streams /\ stream'[u] = stream[u]
      BY <1>1, <1>2, <1>7, <2>2 DEF StreamTypes
    <3>2. stream[u].open /\ (stream[u].session \notin Live => newest[stream[u].session] # u)
          /\ stream[u].session \in SessionIds
      BY <1>2, <3>1 DEF StreamInv, ChangesAreTold, DroppedIsSilent, StreamSound, StreamTypes
    <3> QED BY <1>1, <1>6, <3>1, <3>2
  <2> QED BY <2>1, <2>2
<1> QED BY <1>5, <1>9, <1>10, <1>11, <1>12 DEF StreamInv, ChangesAreTold

(* initialize: the new session has an id that no stream knows.             *)
LEMMA InitializeKeeps ==
  ASSUME StreamInv, NEW r \in Requests, NEW s \in SessionIds, Initialize(r, s)
  PROVE  StreamInv'
<1>1. /\ s \notin minted /\ minted' = minted \cup {s}
      /\ sessions' = [sessions EXCEPT ![s] = [lastSeen |-> now, sink |-> Nothing]]
      /\ UNCHANGED <<file, event, debounce, now, stream, sinks, told, newest>>
  BY DEF Initialize, policyVars, bucketVars, streamVars
<1>2. StreamTypes /\ Nothing \notin SessionIds /\ Nothing \notin Streams
  BY ServerAssumption DEF StreamInv
<1> DEFINE q == [lastSeen |-> now, sink |-> Nothing]
<1>3. q \in Session /\ q # Gone /\ q.sink = Nothing
  BY <1>2, SessionLives DEF StreamTypes
<1>4. sessions' = [sessions EXCEPT ![s] = q]
  BY <1>1
<1> HIDE DEF q
<1>5. StreamTypes'
  BY <1>1, <1>2, <1>3, <1>4 DEF StreamTypes
<1>6. /\ Live' = Live \cup {s} /\ sessions'[s].sink = Nothing
      /\ \A p \in SessionIds \ {s} : sessions'[p] = sessions[p]
  BY <1>1, <1>2, <1>3, <1>4 DEF Live, StreamTypes
<1>7. newest[s] = Nothing /\ \A t \in Streams : stream[t].session # s
  <2>1. \A t \in Streams : stream[t].session # s
    BY <1>1, <1>2 DEF StreamInv, StreamSound
  <2> QED BY <1>2, <2>1 DEF StreamInv, SinkSound, StreamTypes
<1>8. \A t \in Streams : StreamSound(t)'
  BY <1>1, <1>6, <1>7 DEF StreamInv, StreamSound
<1>9. ASSUME NEW p \in SessionIds PROVE SinkSound(p)'
  <2>1. SinkSound(p) BY DEF StreamInv
  <2>2. CASE p = s BY <1>1, <1>6, <1>7, <2>2 DEF SinkSound
  <2>3. CASE p # s BY <1>1, <1>6, <2>1, <2>3 DEF SinkSound
  <2> QED BY <2>2, <2>3
<1>10. QuietMeansTold'
  BY <1>1, <1>6, <1>7 DEF StreamInv, ChangesAreTold, QuietMeansTold, Changes
<1>11. DroppedIsSilent'
  BY <1>1, <1>6 DEF StreamInv, ChangesAreTold, DroppedIsSilent
<1> QED BY <1>5, <1>8, <1>9, <1>10, <1>11 DEF StreamInv, ChangesAreTold

(* dropSession: its sink is its newest stream, if that is open.            *)
LEMMA DeleteKeeps ==
  ASSUME StreamInv, NEW s \in SessionIds, Delete(s)
  PROVE  StreamInv'
<1>1. /\ s \in Live /\ sinks' = sinks \ {sessions[s].sink}
      /\ sessions' = [sessions EXCEPT ![s] = Gone]
      /\ UNCHANGED <<file, event, debounce, now, minted, stream, told, newest>>
  BY DEF Delete, policyVars, bucketVars
<1>2. StreamTypes /\ Nothing \notin SessionIds /\ Nothing \notin Streams
  BY ServerAssumption DEF StreamInv
<1>3. StreamTypes'
  BY <1>1, <1>2 DEF StreamTypes
<1>4. Live' = Live \ {s} /\ \A p \in SessionIds \ {s} : sessions'[p] = sessions[p]
  BY <1>1, <1>2 DEF Live, StreamTypes
<1>5. \A t \in Streams : t = sessions[s].sink => stream[t].session = s
  BY <1>1, <1>2 DEF StreamInv, SinkSound
<1>6. ASSUME NEW t \in Streams PROVE StreamSound(t)'
  <2>1. StreamSound(t) BY DEF StreamInv
  <2> QED BY <1>1, <1>4, <1>5, <2>1 DEF StreamSound
<1>7. ASSUME NEW p \in SessionIds PROVE SinkSound(p)'
  <2>1. SinkSound(p) BY DEF StreamInv
  <2> QED BY <1>1, <1>4, <2>1 DEF SinkSound
<1>8. QuietMeansTold'
  BY <1>1, <1>4 DEF StreamInv, ChangesAreTold, QuietMeansTold, Changes
<1>9. DroppedIsSilent'
  <2> SUFFICES ASSUME NEW t \in sinks'
               PROVE  stream[t].open /\ (stream[t].session \notin Live' => newest[stream[t].session] # t)
    BY <1>1 DEF DroppedIsSilent
  <2>1. t \in sinks /\ t \in Streams /\ t # sessions[s].sink
    BY <1>1, <1>2 DEF StreamTypes
  <2>2. stream[t].open /\ (stream[t].session \notin Live => newest[stream[t].session] # t)
    BY <2>1 DEF StreamInv, ChangesAreTold, DroppedIsSilent
  <2>3. stream[t].session = s => newest[s] # t
    BY <1>1, <1>2, <2>1, <2>2 DEF StreamInv, SinkSound
  <2> QED BY <1>4, <2>2, <2>3
<1> QED BY <1>3, <1>6, <1>7, <1>8, <1>9 DEF StreamInv, ChangesAreTold

(* A stream that closes clears the sink of its session if it still is it.  *)
LEMMA CloseKeeps ==
  ASSUME StreamInv, NEW t \in Streams, Close(t)
  PROVE  StreamInv'
<1> DEFINE s == stream[t].session
<1>1. /\ stream[t].open /\ stream' = [stream EXCEPT ![t].open = FALSE]
      /\ sinks' = sinks \ {t}
      /\ sessions' = IF s \in Live /\ sessions[s].sink = t
                     THEN [sessions EXCEPT ![s].sink = Nothing] ELSE sessions
      /\ UNCHANGED <<file, event, debounce, now, minted, told, newest>>
  BY DEF Close, policyVars, bucketVars
<1>2. StreamTypes /\ Nothing \notin SessionIds /\ Nothing \notin Streams /\ s \in SessionIds
  BY <1>1, ServerAssumption DEF StreamInv, StreamTypes, StreamSound
<1> HIDE DEF s
<1>3. stream[t].session = s
  BY DEF s
<1>4. /\ sessions' \in [SessionIds -> {Gone} \cup Session] /\ Live' = Live
      /\ \A p \in SessionIds : p = s /\ p \in Live /\ sessions[p].sink = t => sessions'[p].sink = Nothing
      /\ \A p \in SessionIds : ~(p = s /\ p \in Live /\ sessions[p].sink = t) => sessions'[p] = sessions[p]
  <2>1. CASE s \in Live /\ sessions[s].sink = t
    <3> DEFINE q == [sessions[s] EXCEPT !.sink = Nothing]
    <3>1. sessions[s] \in Session
      BY <1>2, <2>1 DEF StreamTypes, Live
    <3>2. q \in Session /\ q.sink = Nothing /\ Gone \notin Session
      BY <1>2, <3>1, SessionLives DEF Session, StreamTypes
    <3>3. sessions' = [sessions EXCEPT ![s] = q]
      BY <1>1, <2>1
    <3> HIDE DEF q
    <3> QED BY <1>2, <2>1, <3>1, <3>2, <3>3 DEF StreamTypes, Live
  <2>2. CASE ~(s \in Live /\ sessions[s].sink = t)
    BY <1>1, <1>2, <2>2 DEF StreamTypes, Live
  <2> QED BY <2>1, <2>2
<1>5. /\ stream' \in [Streams -> [session : SessionIds \cup {Nothing}, open : BOOLEAN]]
      /\ ~stream'[t].open /\ stream'[t].session = s
      /\ \A u \in Streams \ {t} : stream'[u] = stream[u]
  <2>1. [stream[t] EXCEPT !.open = FALSE] \in [session : SessionIds \cup {Nothing}, open : BOOLEAN]
        /\ ~[stream[t] EXCEPT !.open = FALSE].open /\ [stream[t] EXCEPT !.open = FALSE].session = s
    BY <1>2, <1>3 DEF StreamTypes
  <2> QED BY <1>1, <1>2, <2>1 DEF StreamTypes
<1>6. StreamTypes'
  BY <1>1, <1>2, <1>4, <1>5 DEF StreamTypes
<1>7. ASSUME NEW u \in Streams PROVE StreamSound(u)'
  <2>1. StreamSound(u) BY DEF StreamInv
  <2> QED BY <1>1, <1>3, <1>4, <1>5, <2>1 DEF StreamSound
<1>8. ASSUME NEW p \in SessionIds PROVE SinkSound(p)'
  <2>1. SinkSound(p) /\ newest'[p] = newest[p] /\ newest[p] \in Streams \cup {Nothing}
    BY <1>1, <1>2 DEF StreamInv, StreamTypes
  <2>2. newest[p] # Nothing => /\ stream'[newest[p]].session = p
                               /\ stream'[newest[p]].open => stream[newest[p]].open /\ newest[p] # t
    BY <1>3, <1>5, <2>1 DEF SinkSound
  <2> QED BY <1>1, <1>4, <2>1, <2>2 DEF SinkSound
<1>9. QuietMeansTold'
  <2> SUFFICES ASSUME ~event, ~debounce, NEW u \in Streams, stream'[u].open, stream'[u].session \in Live
               PROVE  told[u] = Changes
    BY <1>1, <1>4 DEF QuietMeansTold, Changes
  <2> QED BY <1>5 DEF StreamInv, ChangesAreTold, QuietMeansTold
<1>10. DroppedIsSilent'
  <2> SUFFICES ASSUME NEW u \in sinks'
               PROVE  stream'[u].open /\ (stream'[u].session \notin Live => newest[stream'[u].session] # u)
    BY <1>1, <1>4 DEF DroppedIsSilent
  <2>1. u \in sinks /\ stream'[u] = stream[u]
    BY <1>1, <1>2, <1>5 DEF StreamTypes
  <2> QED BY <2>1 DEF StreamInv, ChangesAreTold, DroppedIsSilent
<1> QED BY <1>6, <1>7, <1>8, <1>9, <1>10 DEF StreamInv, ChangesAreTold

(* emitPolicyChanged tells every sink, and with it every stream that is    *)
(* open for a live session.                                                *)
LEMMA BroadcastKeeps ==
  ASSUME PolicyInv, StreamInv, Broadcast
  PROVE  StreamInv'
<1>1. /\ UNCHANGED <<file, event, now, sessions, minted, stream, sinks, newest>> /\ debounce' = FALSE
      /\ told' = [t \in Streams |-> IF t \in sinks THEN Changes ELSE told[t]]
  BY DEF Broadcast, Elapse, bucketVars
<1>2. StreamTypes /\ Changes \in Nat /\ Live' = Live /\ Changes' = Changes
  BY <1>1 DEF StreamInv, PolicyInv, PolicyTyped, Changes, Files, Live
<1>3. StreamTypes'
  BY <1>1, <1>2 DEF StreamTypes
<1>4. (\A t \in Streams : StreamSound(t)') /\ (\A s \in SessionIds : SinkSound(s)') /\ DroppedIsSilent'
  BY <1>1, <1>2 DEF StreamInv, StreamSound, SinkSound, ChangesAreTold, DroppedIsSilent
<1>5. QuietMeansTold'
  BY <1>1, <1>2 DEF StreamInv, StreamSound, QuietMeansTold
<1> QED BY <1>3, <1>4, <1>5 DEF StreamInv, ChangesAreTold

LEMMA HandlerKeepsStreams ==
  ASSUME PolicyInv, StreamInv, NEW r \in Requests, Handler(r)
  PROVE  StreamInv'
<1> USE DEF policyVars, bucketVars
<1>1. now \in Instants
  BY DEF StreamInv, StreamTypes
<1>2. CASE Authenticate(r)
  BY <1>1, <1>2, QuietKeeps DEF Authenticate, Load, Admit, Refuse
<1>3. CASE LoadSteps(r)
  <2>1. UNCHANGED <<file, event, debounce, now, sessions, minted, streamVars>>
    BY <1>3 DEF LoadSteps, Stat, LoadThrows
  <2> QED BY <1>1, <2>1, QuietKeeps
<1>4. CASE BeginSites(r) \/ StreamRefused(r) \/ AnswerList(r)
  <2>1. UNCHANGED <<file, event, debounce, now, sessions, minted, streamVars>>
    BY <1>4 DEF BeginSites, StreamRefused, AnswerList, Load
  <2> QED BY <1>1, <2>1, QuietKeeps
<1>5. CASE BodyRefused(r) \/ WorkerCallEnds(r)
  BY <1>1, <1>5, QuietKeeps DEF BodyRefused, WorkerCallEnds
<1>6. CASE ScopeCheck(r) \/ Dispatch(r)
  <2>1. UNCHANGED <<file, event, debounce, now, sessions, minted, streamVars>>
    BY <1>6 DEF ScopeCheck, Dispatch, Load
  <2> QED BY <1>1, <2>1, QuietKeeps
<1>7. CASE \E s \in SessionIds : VersionMismatch(r, s)
  <2>1. PICK s \in SessionIds : VersionMismatch(r, s)
    BY <1>7
  <2> QED BY <1>1, <2>1, QuietKeeps DEF VersionMismatch
<1>8. CASE \E s \in SessionIds \cup {Nothing}, site \in Sites \cup {Nothing} : BeginMethod(r, s, site)
  <2>1. PICK s \in SessionIds \cup {Nothing}, site \in Sites \cup {Nothing} : BeginMethod(r, s, site)
    BY <1>8
  <2>2. UNCHANGED <<file, event, debounce, now, minted, streamVars>>
        /\ s \in Live \cup {Nothing} /\ sessions' = IF s = Nothing THEN sessions ELSE Touched(s)
    BY <2>1 DEF BeginMethod
  <2> QED BY <1>1, <2>2, QuietKeeps
<1>9. CASE \E s \in SessionIds : Initialize(r, s)
  BY <1>9, InitializeKeeps
<1>10. CASE \E s \in SessionIds, t \in Streams : OpenStream(r, t, s)
  BY <1>10, OpenKeeps
<1> QED BY <1>2, <1>3, <1>4, <1>5, <1>6, <1>7, <1>8, <1>9, <1>10 DEF Handler

LEMMA ServerKeepsStreams == PolicyInv /\ StreamInv /\ [McpNext]_mcpVars => StreamInv'
<1> SUFFICES ASSUME PolicyInv, StreamInv, [McpNext]_mcpVars PROVE StreamInv' OBVIOUS
<1>0. now \in Instants /\ MaxTime \in Nat
  BY BucketAssumption DEF StreamInv, StreamTypes
<1>1. CASE UNCHANGED mcpVars
  <2>1. UNCHANGED <<file, event, debounce, now, sessions, minted, streamVars>>
    BY <1>1 DEF mcpVars, policyVars, bucketVars, serverVars, streamVars
  <2> QED BY <1>0, <2>1, QuietKeeps
<1>2. CASE Operator
  <2>1. UNCHANGED <<now, sessions, minted, streamVars>> /\ event' = TRUE /\ UNCHANGED debounce
    BY <1>2 DEF Operator, BeginWrite, EndWrite, Replace, Change, bucketVars, serverVars, streamVars
  <2> QED BY <1>0, <2>1, QuietKeeps
<1>3. CASE Clock
  <2>1. UNCHANGED <<file, event, debounce, sessions, minted, streamVars>> /\ now' \in Instants
    BY <1>0, <1>3 DEF Clock, Tick, policyVars, serverVars, streamVars, Instants
  <2> QED BY <2>1, QuietKeeps
<1>4. CASE WatchReports
  <2>1. UNCHANGED <<now, sessions, minted, streamVars>> /\ event' = FALSE /\ debounce' = TRUE
    BY <1>4 DEF WatchReports, Watch, bucketVars, serverVars, streamVars
  <2> QED BY <1>0, <2>1, QuietKeeps
<1>5. CASE Broadcast
  BY <1>5, BroadcastKeeps
<1>6. CASE \E r \in Requests : Handler(r)
  BY <1>6, HandlerKeepsStreams
<1>7. CASE \E r \in Requests : \E kind \in {"post", "get", "sites"} : Arrive(r, kind)
  <2>1. UNCHANGED <<file, event, debounce, now, sessions, minted, streamVars>>
    BY <1>7 DEF Arrive, policyVars, bucketVars
  <2> QED BY <1>0, <2>1, QuietKeeps
<1>8. CASE \E s \in SessionIds : Delete(s)
  BY <1>8, DeleteKeeps
<1>9. CASE \E t \in Streams : Close(t)
  BY <1>9, CloseKeeps
<1> QED BY <1>1, <1>2, <1>3, <1>4, <1>5, <1>6, <1>7, <1>8, <1>9 DEF McpNext

(* Once every change is reported, the newest stream of each live session   *)
(* has been told of the last one, and no stream that a dropped session     *)
(* held: for any number of streams that replace and outlive one another,   *)
(* and any edits while they come and go.                                   *)
THEOREM ListenersAreTold == McpSpec => []ChangesAreTold
<1>1. McpInit => PolicyInv /\ StreamInv
  BY PolicyInitially, StreamsInitially
<1>2. PolicyInv /\ StreamInv /\ [McpNext]_mcpVars => (PolicyInv /\ StreamInv)'
  BY ServerKeepsPolicies, ServerKeepsStreams
<1>3. StreamInv => ChangesAreTold
  BY DEF StreamInv
<1> QED BY <1>1, <1>2, <1>3, PTL DEF McpSpec

-----------------------------------------------------------------------------
(* The policy files, and the types.                                        *)

(* The server touches the caches only in loads, and the files not at all.  *)
LEMMA ServerMovesPolicies == [McpNext]_mcpVars => [PolicyNext]_policyVars
<1> SUFFICES ASSUME [McpNext]_mcpVars PROVE PolicyNext \/ UNCHANGED policyVars
  OBVIOUS
<1> USE DEF policyVars, Files
<1> DEFINE Loads == \E f \in Files : Stat(f) \/ Load(f) \/ LoadThrows(f)
<1>0. Loads => PolicyNext BY DEF PolicyNext
<1>1. CASE UNCHANGED mcpVars BY <1>1 DEF mcpVars
<1>2. CASE Operator BY <1>2 DEF Operator, PolicyNext
<1>3. CASE Clock BY <1>3 DEF Clock
<1>4. CASE WatchReports BY <1>4 DEF WatchReports, PolicyNext
<1>5. CASE Broadcast BY <1>5 DEF Broadcast, PolicyNext
<1>6. ASSUME NEW r \in Requests, Handler(r) PROVE Loads \/ UNCHANGED policyVars
  <2>1. CASE Authenticate(r) BY <2>1 DEF Authenticate
  <2>2. CASE LoadSteps(r) BY <2>2 DEF LoadSteps
  <2>3. CASE BeginSites(r) BY <2>3 DEF BeginSites
  <2>4. CASE StreamRefused(r) BY <2>4 DEF StreamRefused
  <2>5. CASE BodyRefused(r) BY <2>5 DEF BodyRefused
  <2>6. CASE AnswerList(r) BY <2>6 DEF AnswerList
  <2>7. CASE ScopeCheck(r) BY <2>7 DEF ScopeCheck
  <2>8. CASE Dispatch(r) BY <2>8 DEF Dispatch
  <2>9. CASE WorkerCallEnds(r) BY <2>9 DEF WorkerCallEnds
  <2>10. CASE \E s \in SessionIds : Initialize(r, s) \/ VersionMismatch(r, s)
    BY <2>10 DEF Initialize, VersionMismatch
  <2>11. CASE \E s \in SessionIds \cup {Nothing}, site \in Sites \cup {Nothing} : BeginMethod(r, s, site)
    BY <2>11 DEF BeginMethod
  <2>12. CASE \E s \in SessionIds, t \in Streams : OpenStream(r, t, s)
    BY <2>12 DEF OpenStream
  <2> QED BY <1>6, <2>1, <2>2, <2>3, <2>4, <2>5, <2>6, <2>7, <2>8, <2>9, <2>10, <2>11, <2>12 DEF Handler
<1>7. CASE \E r \in Requests : \E kind \in {"post", "get", "sites"} : Arrive(r, kind)
  BY <1>7 DEF Arrive
<1>8. CASE \E s \in SessionIds : Delete(s) BY <1>8 DEF Delete
<1>9. CASE \E t \in Streams : Close(t) BY <1>9 DEF Close
<1> HIDE DEF Loads
<1> QED BY <1>0, <1>1, <1>2, <1>3, <1>4, <1>5, <1>6, <1>7, <1>8, <1>9 DEF McpNext

(* The server uses the files and their caches only through _loadAndCacheJson *)
(* and the watcher.                                                        *)
THEOREM ServerOnlyLoadsPolicies == McpSpec => PolicySpec
<1>1. McpInit => PolicyInit
  BY DEF McpInit
<1> QED BY <1>1, ServerMovesPolicies, PTL DEF McpSpec, PolicySpec

(* A file changes MaxEdits times, and a cache has a time that stat found.  *)
EditsBounded == \A f \in Files : file[f].mtime <= MaxEdits /\ cache[f].mtime >= -1

LEMMA EditsStayBounded ==
  ASSUME PolicyTyped, EditsBounded, [PolicyNext]_policyVars
  PROVE  EditsBounded'
<1> SUFFICES ASSUME NEW g \in Files PROVE file'[g].mtime <= MaxEdits /\ cache'[g].mtime >= -1
  BY DEF EditsBounded
<1>0. /\ file \in [Files -> [version : Versions, mtime : Nat, whole : BOOLEAN]]
      /\ cache \in [Files -> [version : Versions, mtime : Int]]
      /\ reading \in {NoRead} \cup Nat /\ MaxEdits \in Nat
      /\ file[g].mtime <= MaxEdits /\ cache[g].mtime >= -1
  BY PolicyAssumption DEF PolicyTyped, EditsBounded
<1>1. ASSUME NEW f \in Files, NEW version, NEW whole, Change(f, version, whole)
      PROVE  file'[g].mtime <= MaxEdits /\ cache'[g].mtime >= -1
  <2>1. file'[g].mtime = IF g = f THEN file[f].mtime + 1 ELSE file[g].mtime
    BY <1>0, <1>1 DEF Change
  <2> QED BY <1>0, <1>1, <2>1 DEF Change
<1>2. ASSUME NEW f \in Files, Read(f) PROVE cache'[g].mtime >= -1
  <2>1. cache'[g].mtime = IF g = f THEN reading ELSE cache[g].mtime
    BY <1>0, <1>2 DEF Read
  <2> QED BY <1>0, <1>2, <2>1 DEF Read
<1>3. ASSUME NEW f \in Files, Stat(f) \/ Load(f) \/ LoadThrows(f)
      PROVE  file'[g].mtime <= MaxEdits /\ cache'[g].mtime >= -1
  BY <1>0, <1>2, <1>3 DEF Stat, Load, LoadThrows
<1>4. CASE Watch \/ Elapse \/ UNCHANGED policyVars
  BY <1>0, <1>4 DEF Watch, Elapse, policyVars
<1>5. ASSUME NEW f \in Files, BeginWrite(f) \/ EndWrite(f) \/ Replace(f)
      PROVE  file'[g].mtime <= MaxEdits /\ cache'[g].mtime >= -1
  BY <1>1, <1>5 DEF BeginWrite, EndWrite, Replace
<1> QED BY <1>3, <1>4, <1>5 DEF PolicyNext

(* The server's invariants together.                                       *)
ServerInv == RateInv /\ PolicyInv /\ StreamInv /\ EditsBounded

LEMMA ServerInitially == McpInit => ServerInv
<1>1. McpInit => EditsBounded
  BY PolicyAssumption DEF McpInit, PolicyInit, EditsBounded
<1> QED BY <1>1, RateInitially, PolicyInitially, StreamsInitially DEF ServerInv, McpInit

LEMMA ServerKeeps == ServerInv /\ [McpNext]_mcpVars => ServerInv'
BY RateKept, ServerKeepsPolicies, ServerKeepsStreams, ServerMovesPolicies, EditsStayBounded
   DEF ServerInv, PolicyInv

LEMMA ServerTypes == ServerInv => McpTypeOK
<1> SUFFICES ASSUME ServerInv PROVE McpTypeOK OBVIOUS
<1>1. PolicyTyped /\ StreamTypes /\ MaxEdits \in Nat
  BY PolicyAssumption DEF ServerInv, PolicyInv, StreamInv
<1>2. ASSUME NEW f \in Files
      PROVE  /\ file[f] \in [version : Versions, mtime : 0..MaxEdits, whole : BOOLEAN]
             /\ cache[f] \in [version : Versions, mtime : -1..MaxEdits]
  <2>1. /\ file[f].mtime \in Nat /\ cache[f].mtime \in Int
        /\ file[f].mtime <= MaxEdits /\ cache[f].mtime >= -1
        /\ cache[f].mtime <= file[f].mtime
    BY <1>1 DEF ServerInv, PolicyInv, PolicyTyped, EditsBounded, FilesSound
  <2>2. file[f].mtime \in 0..MaxEdits /\ cache[f].mtime \in -1..MaxEdits
    BY <1>1, <2>1
  <2> QED BY <1>1, <2>2 DEF PolicyTyped
<1>3. reading \in {NoRead} \cup 0..MaxEdits
  <2>1. CASE reading = NoRead BY <2>1
  <2>2. CASE reading # NoRead
    <3>1. turn \in Requests /\ Loaded(turn) \in Files
      BY <1>1, <2>2 DEF ServerInv, PolicyInv, PolicyTyped, HandlerSound, Loaded, Files
    <3>2. reading \in Nat /\ reading <= file[Loaded(turn)].mtime
      BY <1>1, <2>2 DEF ServerInv, PolicyInv, PolicyTyped, HandlerSound
    <3>3. file[Loaded(turn)].mtime \in 0..MaxEdits
      BY <1>2, <3>1
    <3> QED BY <1>1, <3>2, <3>3
  <2> QED BY <2>1, <2>2
<1>4. PolicyTypeOK
  BY <1>1, <1>2, <1>3 DEF PolicyTyped, StreamTypes, PolicyTypeOK
<1>5. Live \subseteq minted
  BY DEF ServerInv, StreamInv, SinkSound, Live
<1> QED BY <1>1, <1>4, <1>5 DEF McpTypeOK, ServerInv, RateInv, PolicyTyped, StreamTypes

(* Every variable of the server keeps its type: no time of modification is *)
(* out of range, and only an id that was minted has a session.             *)
THEOREM ServerIsTyped == McpSpec => []McpTypeOK
BY ServerInitially, ServerKeeps, ServerTypes, PTL DEF McpSpec
=============================================================================
