------------------------------ MODULE RateLimit ------------------------------
(***************************************************************************)
(* A route's rate limit: the token bucket a script keeps in Redis for it.  *)
(* Time is in seconds, and a token is counted in Minute-ths, so that the   *)
(* refill of rpm / 60 tokens a second is the whole number Rpm.             *)
(***************************************************************************)
EXTENDS Integers, Sequences

CONSTANTS
    Rpm,          \* the route's rpm_limit
    Minute,       \* 60, in seconds
    MaxSecond     \* bound: the clock

(* A limit of zero is no limit: the script is not run for it.              *)
ASSUME RateAssumption == Rpm \in Nat \ {0} /\ Minute \in Nat \ {0} /\ MaxSecond \in Nat

VARIABLES
    second,       \* Redis's clock
    bucket,       \* [tokens, ts], or NoBucket
    taken,        \* ghost: when each token was taken, since Redis last lost the bucket
    told          \* ghost: when the last refusal said to come back, if nobody has come since
rateVars == <<second, bucket, taken, told>>

NoBucket == [ts |-> -1]
Nobody == -1

(* rate_and_burst: a full minute's allowance, refilled in a minute.        *)
OneToken == Minute
Burst == Rpm * OneToken
RefillUncapped(tokens, elapsed) == tokens + elapsed * Rpm
Refill(tokens, elapsed) == IF tokens + elapsed * Rpm > Burst THEN Burst ELSE tokens + elapsed * Rpm
Available == IF bucket = NoBucket THEN Burst ELSE Refill(bucket.tokens, second - bucket.ts)

(* The script's EXPIRE: the time of a whole refill, and one second more.   *)
ExpiresAfter == Minute + 1
Ceil(n, d) == (n + d - 1) \div d
Wait == Ceil(OneToken - Available, Rpm)

Stamp(tokens) == [tokens |-> tokens, ts |-> second]

TakeToken ==
    /\ Available >= OneToken
    /\ bucket' = Stamp(Available - OneToken)
    /\ taken' = Append(taken, second) /\ told' = Nobody
    /\ UNCHANGED second

(* Refused, with how long to wait; the bucket is written all the same.     *)
Refused ==
    /\ Available < OneToken
    /\ bucket' = Stamp(Available)
    /\ told' = second + Wait
    /\ UNCHANGED <<second, taken>>

(* Redis unreachable: allowed, and nothing is counted.                     *)
FailsOpen == UNCHANGED rateVars

SecondPasses ==
    /\ second < MaxSecond /\ second' = second + 1
    /\ bucket' = IF bucket # NoBucket /\ second' - bucket.ts >= ExpiresAfter THEN NoBucket ELSE bucket
    /\ UNCHANGED <<taken, told>>

RedisRestarts ==
    /\ bucket' = NoBucket /\ taken' = << >> /\ told' = Nobody
    /\ UNCHANGED second

RateInit == second = 0 /\ bucket = NoBucket /\ taken = << >> /\ told = Nobody
RateNext == TakeToken \/ Refused \/ FailsOpen \/ SecondPasses \/ RedisRestarts
RateSpec == RateInit /\ [][RateNext]_rateVars

------------------------------------------------------------------------------
(* Between any two of its requests a route is admitted no more than one    *)
(* full allowance and what the time between them refills, whatever was     *)
(* refused in between and whenever the bucket expired; and a caller that   *)
(* waits as long as it was told finds a token, if no other came first.     *)
AllowanceHeld ==
    /\ \A i, j \in DOMAIN taken :
          i <= j => (j - i + 1) * OneToken <= Burst + (taken[j] - taken[i]) * Rpm
    /\ told # Nobody /\ second >= told => Available >= OneToken
=============================================================================
