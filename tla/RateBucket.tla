----------------------------- MODULE RateBucket -----------------------------
(***************************************************************************)
(* rateCheck of the browser MCP server: a bucket of tokens per client,     *)
(* refilled from the time that has passed when a call is made.  Time is in *)
(* ticks and tokens in units, so that a refill is a whole number of units: *)
(* a call costs Cost units, a tick adds Refill.                            *)
(***************************************************************************)
EXTENDS Integers

CONSTANTS
  Burst,      \* capacity, in units
  Cost,       \* units of one token
  Refill,     \* units per tick
  Second,     \* ticks per second
  MaxTime     \* bound: the last tick

Instants == 0..MaxTime
Never    == -1

ASSUME BucketAssumption ==
  /\ Burst \in Nat /\ Cost \in Nat \ {0} /\ Refill \in Nat \ {0} /\ Second \in Nat \ {0}
  /\ MaxTime \in Nat /\ Cost <= Burst

VARIABLES
  now,
  bucket,     \* tokens and lastRefill, or no bucket yet
  spent,      \* history: instant -> calls admitted since then
  comeBack    \* history: when the last refusal said to come back, or Never

bucketVars == <<now, bucket, spent, comeBack>>

NoBucket == [tokens |-> Burst, lastRefill |-> Never]

BucketInit ==
  /\ now = 0 /\ bucket = NoBucket
  /\ spent = [t \in Instants |-> 0] /\ comeBack = Never

BucketTypeOK ==
  /\ now \in Instants
  /\ bucket \in [tokens : 0..Burst, lastRefill : Instants \cup {Never}]
  /\ spent \in [Instants -> Nat]
  /\ comeBack \in Nat \cup {Never}

-----------------------------------------------------------------------------

Capped(n) == IF n < Burst THEN n ELSE Burst

\* The tokens after the refill for the time since the last one.
Tokens ==
  IF bucket.lastRefill = Never THEN Burst
  ELSE Capped(bucket.tokens + Refill * (now - bucket.lastRefill))

(* Mutant: whole seconds are rounded down.                                 *)
RetryAfterFloor == (Cost - Tokens) \div (Refill * Second)

\* The seconds until a token is there, rounded up.
RetryAfter == ((Cost - Tokens) + (Refill * Second - 1)) \div (Refill * Second)

Admit ==
  /\ Tokens >= Cost
  /\ bucket' = [tokens |-> Tokens - Cost, lastRefill |-> now]
  /\ spent' = [t \in Instants |-> IF t <= now THEN spent[t] + 1 ELSE spent[t]]
  /\ comeBack' = Never
  /\ UNCHANGED now

Refuse ==
  /\ Tokens < Cost
  /\ bucket' = [tokens |-> Tokens, lastRefill |-> now]
  /\ comeBack' = now + RetryAfter * Second
  /\ UNCHANGED <<now, spent>>

Tick ==
  /\ now < MaxTime /\ now' = now + 1
  /\ UNCHANGED <<bucket, spent, comeBack>>

BucketNext == Admit \/ Refuse \/ Tick

BucketSpec == BucketInit /\ [][BucketNext]_bucketVars

-----------------------------------------------------------------------------

(* Since any instant a client has made no more calls than a full bucket    *)
(* and the refill of the time since then pay for, whatever calls were made *)
(* or refused before.                                                      *)
RateIsBounded ==
  \A t \in Instants : t <= now => Cost * spent[t] <= Burst + Refill * (now - t)

(* A client that waits as long as the Retry-After header of its refusal    *)
(* says is admitted.                                                       *)
RetryAfterSuffices == comeBack # Never /\ comeBack <= now => Tokens >= Cost

(* The rate limit is neither exceeded nor stricter than the header says.   *)
RateIsKept == RateIsBounded /\ RetryAfterSuffices
=============================================================================
