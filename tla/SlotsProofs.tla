---------------------------- MODULE SlotsProofs ----------------------------
(***************************************************************************)
(* Two things a replica owes while it serves.  The seat: safety of the     *)
(* concurrency slots for any set of requests and replicas, any limit and   *)
(* any TTL longer than the beats it has to survive.  The bill: what the    *)
(* upstream billed for an answer reaches the account for every pair of     *)
(* dialects, however many items and fragments the answer has.              *)
(***************************************************************************)
EXTENDS Slots, Streaming, FiniteSetTheorems, SequenceTheorems, WellFoundedInduction, TLAPS

(* The sorted set never outgrows the limit, expired members included.      *)
KeyInv == Cardinality(members) <= Limit

(* A seated lease has its member, and its age is accounted for by the      *)
(* beats it has missed and the one that is due.                            *)
SeatInv ==
    \A r \in Requests : Seated(r) =>
        /\ r \in members
        /\ \/ beat[r] = "waiting" /\ age[r] <= missed[r]
           \/ beat[r] \in {"due", "sent"} /\ age[r] <= missed[r] + 1

(* A release in flight belongs to a lease that is being released or over.  *)
ReleaseInv == \A r \in zrem : lease[r] \in {"releasing", "over"}

(* An id with no request has taken no lease yet.                           *)
FreshInv == \A r \in Requests : lease[r] = "none" => leases[r] = 0

SlotsInv == TypeOK /\ KeyInv /\ SeatInv /\ ReleaseInv /\ FreshInv

(* A seated lease's member is never among the expired.                     *)
LEMMA SeatedIsYoung ==
    ASSUME TypeOK, SeatInv, NEW r \in Requests, Seated(r)
    PROVE  r \in Trimmed /\ age[r] < TTL
BY SlotsAssumption DEF TypeOK, SeatInv, Trimmed, Expired

LEMMA MembersFinite ==
    ASSUME TypeOK
    PROVE  /\ IsFiniteSet(members) /\ Cardinality(members) \in Nat
           /\ \A s \in SUBSET members :
                IsFiniteSet(s) /\ Cardinality(s) \in Nat /\ Cardinality(s) <= Cardinality(members)
BY SlotsAssumption, FS_Subset, FS_CardinalityType DEF TypeOK

(* Keeping a subset of the members keeps the key within its limit.         *)
LEMMA BecomesKeeps ==
    ASSUME TypeOK, KeyInv, NEW s \in SUBSET members, Becomes(s)
    PROVE  KeyInv' /\ members' \subseteq Requests /\ age' \in [Requests -> 0..TTL]
BY MembersFinite, SlotsAssumption DEF TypeOK, KeyInv, Becomes

(* So does an acquire that was granted.                                    *)
LEMMA TakenKeeps ==
    ASSUME TypeOK, KeyInv, NEW r \in Requests, ACQUIRE_SLOT_Taken(r)
    PROVE  KeyInv' /\ members' \subseteq Requests /\ age' \in [Requests -> 0..TTL]
<1>1. Trimmed \in SUBSET members
  BY DEF Trimmed
<1>2. IsFiniteSet(Trimmed) /\ Cardinality(Trimmed) \in Nat
  BY <1>1, MembersFinite
<1>3. \/ Cardinality(Trimmed \cup {r}) = Cardinality(Trimmed)
      \/ Cardinality(Trimmed \cup {r}) = Cardinality(Trimmed) + 1
  BY <1>2, FS_AddElement
<1>4. KeyInv'
  BY <1>2, <1>3, SlotsAssumption DEF KeyInv, ACQUIRE_SLOT_Taken
<1>5. members' \subseteq Requests /\ age' \in [Requests -> 0..TTL]
  BY <1>1, SlotsAssumption DEF ACQUIRE_SLOT_Taken, TypeOK
<1> QED BY <1>4, <1>5

LEMMA SlotsInit == Init => SlotsInv
BY SlotsAssumption, FS_EmptySet
DEF Init, SlotsInv, TypeOK, KeyInv, SeatInv, ReleaseInv, FreshInv, Seated, Held,
    LeaseStates, BeatStates

(* What a script or a command may do to the key: nothing, trim it, grant   *)
(* or refresh a member, or take out a member of a lease that is not held.  *)
RedisStep ==
    \/ UNCHANGED redis
    \/ Becomes(Trimmed)
    \/ \E r \in Requests : ACQUIRE_SLOT_Taken(r) \/ REFRESH_SLOT_Kept(r)
    \/ \E r \in Requests : ~Held(r) /\ ZREM(r)

(* It keeps the key within the limit and every seat in place.              *)
LEMMA RedisStepKeeps ==
    ASSUME SlotsInv, RedisStep
    PROVE  /\ KeyInv' /\ members' \subseteq Requests /\ age' \in [Requests -> 0..TTL]
           /\ \A q \in Requests : Seated(q) =>
                q \in members' /\ (age'[q] = age[q] \/ age'[q] = 0)
<1> USE DEF SlotsInv
<1>0. \A q \in Requests : Seated(q) => q \in Trimmed /\ q \in members
  BY SeatedIsYoung DEF SeatInv
<1>1. CASE UNCHANGED redis
  BY <1>0, <1>1 DEF redis, KeyInv, TypeOK
<1>2. CASE Becomes(Trimmed)
  <2>1. Trimmed \in SUBSET members
    BY DEF Trimmed
  <2>2. \A q \in Requests : Seated(q) => q \in members' /\ age'[q] = age[q]
    BY <1>0, <1>2 DEF Becomes
  <2> QED BY <1>2, <2>1, <2>2, BecomesKeeps
<1>3. ASSUME NEW r \in Requests, ACQUIRE_SLOT_Taken(r)
      PROVE  /\ KeyInv' /\ members' \subseteq Requests /\ age' \in [Requests -> 0..TTL]
             /\ \A q \in Requests : Seated(q) =>
                  q \in members' /\ (age'[q] = age[q] \/ age'[q] = 0)
  <2>1. \A q \in Requests : Seated(q) =>
          q \in members' /\ (age'[q] = age[q] \/ age'[q] = 0)
    BY <1>0, <1>3 DEF ACQUIRE_SLOT_Taken
  <2> QED BY <1>3, <2>1, TakenKeeps
<1>4. ASSUME NEW r \in Requests, REFRESH_SLOT_Kept(r)
      PROVE  /\ KeyInv' /\ members' \subseteq Requests /\ age' \in [Requests -> 0..TTL]
             /\ \A q \in Requests : Seated(q) =>
                  q \in members' /\ (age'[q] = age[q] \/ age'[q] = 0)
  BY <1>0, <1>4, SlotsAssumption DEF REFRESH_SLOT_Kept, KeyInv, TypeOK
<1>5. ASSUME NEW r \in Requests, ~Held(r), ZREM(r)
      PROVE  /\ KeyInv' /\ members' \subseteq Requests /\ age' \in [Requests -> 0..TTL]
             /\ \A q \in Requests : Seated(q) =>
                  q \in members' /\ (age'[q] = age[q] \/ age'[q] = 0)
  <2>1. members \ {r} \in SUBSET members
    OBVIOUS
  <2>2. \A q \in Requests : Seated(q) => q \in members' /\ age'[q] = age[q]
    BY <1>0, <1>5 DEF ZREM, Becomes, Seated
  <2> QED BY <1>5, <2>1, <2>2, BecomesKeeps DEF ZREM
<1> QED BY <1>1, <1>2, <1>3, <1>4, <1>5 DEF RedisStep

(* The strengthened invariant is preserved by every step.                  *)
LEMMA SlotsStep ==
    ASSUME SlotsInv, [Next]_vars PROVE SlotsInv'
<1> USE SlotsAssumption
    DEF SlotsInv, TypeOK, SeatInv, ReleaseInv, FreshInv, Seated, Held, Set, LeaseStates,
        BeatStates
<1>1. ASSUME NEW r \in Requests,
             \/ ClaimTaken(r)    \/ ClaimFull(r)       \/ ClaimFailsOpen(r)
             \/ Release(r)       \/ ReleaseReturns(r)  \/ DropLease(r)
             \/ ReleaseLands(r)  \/ ReleaseFails(r)    \/ Finish(r)
             \/ Leak(r)          \/ Forget(r)          \/ ClaimAbandoned(r)
             \/ BeatSends(r)     \/ BeatStops(r)       \/ BeatLands(r)
             \/ BeatFails(r)     \/ BeatFindsItGone(r) \/ BeatReacquires(r)
             \/ BeatOversubscribed(r)                  \/ StrayBeat(r)
      PROVE  SlotsInv'
  <2>1. CASE ClaimTaken(r)
    <3>1. RedisStep
      BY <2>1 DEF ClaimTaken, RedisStep, Leased, MayClaim, ACQUIRE_SLOT_Taken
    <3> QED BY <2>1, <3>1, RedisStepKeeps DEF ClaimTaken, Leased, MayClaim, ACQUIRE_SLOT_Taken
  <2>2. CASE ClaimFull(r)
    <3>1. RedisStep
      BY <2>2 DEF ClaimFull, RedisStep, MayClaim, ACQUIRE_SLOT_Full
    <3> QED BY <2>2, <3>1, RedisStepKeeps DEF ClaimFull, MayClaim, ACQUIRE_SLOT_Full
  <2>3. CASE ClaimFailsOpen(r)
    <3>1. RedisStep
      BY <2>3 DEF ClaimFailsOpen, RedisStep, Leased, MayClaim, ACQUIRE_SLOT_Full
    <3> QED BY <2>3, <3>1, RedisStepKeeps DEF ClaimFailsOpen, Leased, MayClaim, ACQUIRE_SLOT_Full
  <2>4. CASE Release(r)
    <3>1. RedisStep
      BY <2>4 DEF Release, RedisStep, redis
    <3> QED BY <2>4, <3>1, RedisStepKeeps DEF Release, Detach, redis
  <2>5. CASE ReleaseReturns(r)
    <3>1. RedisStep
      BY <2>5 DEF ReleaseReturns, RedisStep, redis
    <3> QED BY <2>5, <3>1, RedisStepKeeps DEF ReleaseReturns, redis
  <2>6. CASE DropLease(r)
    <3>1. RedisStep
      BY <2>6 DEF DropLease, RedisStep, redis
    <3> QED BY <2>6, <3>1, RedisStepKeeps DEF DropLease, redis
  <2>7. CASE ReleaseLands(r)
    <3>1. RedisStep
      BY <2>7 DEF ReleaseLands, RedisStep
    <3> QED BY <2>7, <3>1, RedisStepKeeps DEF ReleaseLands
  <2>8. CASE ReleaseFails(r)
    <3>1. RedisStep
      BY <2>8 DEF ReleaseFails, RedisStep, redis
    <3> QED BY <2>8, <3>1, RedisStepKeeps DEF ReleaseFails, redis
  <2>9. CASE Finish(r)
    <3>1. RedisStep
      BY <2>9 DEF Finish, RedisStep, redis
    <3> QED BY <2>9, <3>1, RedisStepKeeps DEF Finish, redis
  <2>10. CASE Leak(r)
    <3>1. RedisStep
      BY <2>10 DEF Leak, RedisStep, redis
    <3> QED BY <2>10, <3>1, RedisStepKeeps DEF Leak, redis
  <2>11. CASE Forget(r)
    <3>1. RedisStep
      BY <2>11 DEF Forget, RedisStep, redis
    <3> QED BY <2>11, <3>1, RedisStepKeeps DEF Forget, redis
  <2>12. CASE BeatSends(r)
    <3>1. RedisStep
      BY <2>12 DEF BeatSends, RedisStep, redis
    <3> QED BY <2>12, <3>1, RedisStepKeeps DEF BeatSends, redis
  <2>13. CASE BeatStops(r)
    <3>1. RedisStep
      BY <2>13 DEF BeatStops, RedisStep, redis
    <3> QED BY <2>13, <3>1, RedisStepKeeps DEF BeatStops, redis
  <2>14. CASE BeatLands(r)
    <3>1. RedisStep
      BY <2>14 DEF BeatLands, RedisStep, REFRESH_SLOT_Kept
    <3> QED BY <2>14, <3>1, RedisStepKeeps DEF BeatLands, REFRESH_SLOT_Kept
  <2>15. CASE BeatFails(r)
    <3>1. RedisStep
      BY <2>15 DEF BeatFails, RedisStep, redis
    <3> QED BY <2>15, <3>1, RedisStepKeeps DEF BeatFails, redis
  <2>16. CASE BeatFindsItGone(r)
    <3>1. RedisStep
      BY <2>16 DEF BeatFindsItGone, RedisStep, redis
    <3> QED BY <2>16, <3>1, RedisStepKeeps DEF BeatFindsItGone, redis
  <2>17. CASE BeatReacquires(r)
    <3>1. RedisStep
      BY <2>17 DEF BeatReacquires, RedisStep, ACQUIRE_SLOT_Taken
    <3> QED BY <2>17, <3>1, RedisStepKeeps DEF BeatReacquires, ACQUIRE_SLOT_Taken
  <2>18. CASE BeatOversubscribed(r)
    <3>1. RedisStep
      BY <2>18 DEF BeatOversubscribed, RedisStep, ACQUIRE_SLOT_Full
    <3> QED BY <2>18, <3>1, RedisStepKeeps DEF BeatOversubscribed, ACQUIRE_SLOT_Full
  <2>19. CASE StrayBeat(r)
    <3>1. RedisStep
      BY <2>19 DEF StrayBeat, RedisStep, ACQUIRE_SLOT_Full
    <3> QED BY <2>19, <3>1, RedisStepKeeps DEF StrayBeat, ACQUIRE_SLOT_Full
  <2>20. CASE ClaimAbandoned(r)
    <3>1. RedisStep
      BY <2>20 DEF ClaimAbandoned, RedisStep
    <3> QED BY <2>20, <3>1, RedisStepKeeps DEF ClaimAbandoned, MayClaim
  <2> QED
    BY <1>1, <2>20, <2>1, <2>2, <2>3, <2>4, <2>5, <2>6, <2>7, <2>8, <2>9, <2>10, <2>11, <2>12, <2>13, <2>14, <2>15, <2>16, <2>17, <2>18, <2>19
<1>2. ASSUME NEW P \in Replicas, Crash(P) PROVE SlotsInv'
  BY <1>2 DEF Crash, redis, KeyInv
<1>3. CASE Sweep
  <2>1. RedisStep
    BY <1>3 DEF Sweep, SLOTS_IN_USE, RedisStep
  <2> QED BY <1>3, <2>1, RedisStepKeeps DEF Sweep
<1>4. CASE AdminClear
  <2>1. KeyInv' /\ members' \subseteq Requests /\ age' \in [Requests -> 0..TTL]
    BY <1>4, BecomesKeeps DEF AdminClear, CLEAR_SLOTS
  <2> QED BY <1>4, <2>1 DEF AdminClear
<1>5. CASE Tick
  BY <1>5 DEF Tick, KeyInv
<1>6. CASE UNCHANGED vars
  BY <1>6 DEF vars, KeyInv
<1> QED BY <1>1, <1>2, <1>3, <1>4, <1>5, <1>6 DEF Next

THEOREM SlotsInvariance == Spec => []SlotsInv
BY SlotsInit, SlotsStep, PTL DEF Spec

(* The state is well typed; in particular a request never takes more than  *)
(* MaxLeases leases on the credential.                                     *)
THEOREM SlotsTypeCorrect == Spec => []TypeOK
<1>1. SlotsInv => TypeOK BY DEF SlotsInv
<1> QED BY <1>1, SlotsInvariance, PTL

(* A running lease keeps its seat through MaxMissed missed beats, whatever *)
(* other replicas, sweeps and releases do (select.rs spawn_heartbeat, the  *)
(* scripts' inclusive trim).                                               *)
THEOREM SeatsHold == Spec => []SeatHolds
<1>1. SlotsInv => SeatHolds
  BY SeatedIsYoung DEF SlotsInv, SeatHolds, SeatInv
<1> QED BY <1>1, SlotsInvariance, PTL

(* No credential carries more seated requests than max_concurrency.        *)
THEOREM LimitRespected == Spec => []WithinLimit
<1>1. ASSUME SlotsInv PROVE WithinLimit
  <2> DEFINE S == {r \in Requests : Seated(r)}
  <2>1. S \in SUBSET members
    BY <1>1 DEF SlotsInv, SeatInv
  <2>2. /\ Cardinality(S) \in Nat /\ Cardinality(members) \in Nat
        /\ Cardinality(S) <= Cardinality(members)
    BY <1>1, <2>1, MembersFinite DEF SlotsInv
  <2> HIDE DEF S
  <2>3. Cardinality(S) <= Limit
    BY <1>1, <2>2, SlotsAssumption DEF SlotsInv, KeyInv
  <2> QED BY <2>3 DEF WithinLimit, S
<1> QED BY <1>1, SlotsInvariance, PTL

(* A climb's seat is out of reach of the release of the rung below.        *)
THEOREM ReleaseSparesClimb == Spec => []OwnReleaseSpares
<1>1. SlotsInv => OwnReleaseSpares
  BY DEF SlotsInv, ReleaseInv, OwnReleaseSpares, Held
<1> QED BY <1>1, SlotsInvariance, PTL

(* All of a seat's safety, for any set of requests and replicas, any limit *)
(* and any TTL the heartbeat's period fits into.                           *)
THEOREM SlotsAreSafe == Spec => []SlotsSafe
BY SlotsTypeCorrect, SeatsHold, LimitRespected, ReleaseSparesClimb, PTL DEF SlotsSafe

-----------------------------------------------------------------------------
(***************************************************************************)
(* The bill of an answer.  The accumulator only ever raises its counts, so *)
(* whatever events a dialect's reader makes of the frames, and however     *)
(* many there are, the count an upstream has sent stays in it.             *)
(***************************************************************************)
(* A nonempty set of natural numbers has a least one.                      *)
LEMMA LeastNatural ==
    ASSUME NEW T, T \subseteq Nat, T # {}
    PROVE  \E n \in T : \A m \in T : n <= m
<1> DEFINE R == {ss \in Nat \X Nat : ss[1] < ss[2]}
<1>1. IsWellFoundedOn(R, Nat)
  BY NatLessThanWellFounded DEF OpToRel
<1>2. PICK n \in T : \A m \in T : ~ (<<m, n>> \in R)
  BY <1>1, WFMin
<1>3. \A m \in T : ~ (m < n)
  BY <1>2
<1> QED BY <1>3

(* Induction up to a number, the property given as a set.                  *)
LEMMA UpTo ==
    ASSUME NEW n \in Nat, NEW P, 0 \in P, \A k \in 1 .. n : k - 1 \in P => k \in P
    PROVE  \A k \in 0 .. n : k \in P
<1> SUFFICES ASSUME NEW j \in 0 .. n, j \notin P PROVE FALSE
  OBVIOUS
<1> DEFINE T == {k \in 0 .. n : k \notin P}
<1>1. T \subseteq Nat /\ T # {}
  OBVIOUS
<1>2. PICK k \in T : \A m \in T : k <= m
  BY <1>1, LeastNatural
<1>3. k \in 1 .. n /\ k - 1 \in 0 .. n /\ k - 1 \notin T
  BY <1>2
<1> QED BY <1>2, <1>3

Use == [in : {0, 1}, out : {0, 1}]
Covers(u, v) == u.in >= v.in /\ u.out >= v.out
AccFields == {"usage", "text", "bufs", "open", "refusal", "held", "stop"}
IsAcc(a) ==
    /\ DOMAIN a = AccFields /\ a = [x \in AccFields |-> a[x]]
    /\ a.usage \in Use /\ \E S : a.bufs \in Seq(S)
EventKinds == {"start", "text", "thinking", "call", "delta", "end", "usage", "stop", "error"}
IsEvent(ev) == ev.e \in EventKinds /\ ev.usage \in Use
Counts(ev) == ev.e \in {"start", "usage", "stop"}

LEMMA UseIs ==
    /\ NoUse \in Use /\ Prompt \in Use /\ Output \in Use /\ Bill \in Use
    /\ \A u \in Use : Covers(u, Bill) => u = Bill
    /\ \A u \in Use : u.in = 1 /\ Covers(u, Output) => u = Bill
    /\ \A u \in Use : Covers(u, Prompt) => u.in = 1
    /\ \A u \in Use : Covers(u, u)
BY DEF NoUse, Prompt, Output, Bill, Use, Covers

LEMMA CoversMore == \A u, v, w \in Use : Covers(u, v) /\ Covers(v, w) => Covers(u, w)
BY DEF Covers, Use

LEMMA MergeIs == \A u, v \in Use : Merge(u, v) \in Use /\ Covers(Merge(u, v), u) /\ Covers(Merge(u, v), v)
BY DEF Merge, MaxOf, Use, Covers

LEMMA ObserveIs ==
    ASSUME NEW a, IsAcc(a), NEW ev, IsEvent(ev)
    PROVE  /\ IsAcc(Observe(a, ev)) /\ Covers(Observe(a, ev).usage, a.usage)
           /\ Counts(ev) => Covers(Observe(a, ev).usage, ev.usage)
<1> DEFINE b == Observe(a, ev)
           m == Merge(a.usage, ev.usage)
           i == At(a.bufs, ev.id)
<1>0. /\ DOMAIN a = AccFields /\ a = [x \in AccFields |-> a[x]] /\ a.usage \in Use /\ ev.usage \in Use
      /\ ev.e \in EventKinds
  BY DEF IsAcc, IsEvent
<1>1. PICK S : a.bufs \in Seq(S)
  BY DEF IsAcc
<1>2. m \in Use /\ Covers(m, a.usage) /\ Covers(m, ev.usage) /\ Covers(a.usage, a.usage)
  BY <1>0, MergeIs, UseIs
<1> HIDE DEF m
<1>3. CASE ev.e \in {"start", "usage"}
  <2>1. b = [a EXCEPT !.usage = m]
    BY <1>3 DEF Observe, m
  <2>2. b.usage = m /\ b.bufs = a.bufs /\ DOMAIN b = AccFields /\ b = [x \in AccFields |-> b[x]]
    BY <1>0, <2>1 DEF AccFields
  <2> HIDE DEF b
  <2> QED BY <1>1, <1>2, <2>2 DEF IsAcc, b
<1>4. CASE ev.e = "stop"
  <2>1. b = [a EXCEPT !.usage = m, !.stop = ev.reason]
    BY <1>4 DEF Observe, m
  <2>2. b.usage = m /\ b.bufs = a.bufs /\ DOMAIN b = AccFields /\ b = [x \in AccFields |-> b[x]]
    BY <1>0, <2>1 DEF AccFields
  <2> HIDE DEF b
  <2> QED BY <1>1, <1>2, <2>2 DEF IsAcc, b
<1>5. CASE ev.e \in {"text", "thinking"}
  <2>1. b = [a EXCEPT !.text = TRUE]
    BY <1>5 DEF Observe
  <2>2. b.usage = a.usage /\ b.bufs = a.bufs /\ DOMAIN b = AccFields /\ b = [x \in AccFields |-> b[x]]
    BY <1>0, <2>1 DEF AccFields
  <2> HIDE DEF b
  <2> QED BY <1>0, <1>1, <1>2, <1>5, <2>2 DEF IsAcc, Counts, b
<1>6. CASE ev.e = "call"
  <2> DEFINE new == [id |-> ev.id, xs |-> <<>>]
  <2>1. b = [a EXCEPT !.bufs = Append(a.bufs, new), !.open = ev.id]
    BY <1>6 DEF Observe
  <2> HIDE DEF new
  <2>2. b.usage = a.usage /\ b.bufs = Append(a.bufs, new) /\ DOMAIN b = AccFields /\ b = [x \in AccFields |-> b[x]]
    BY <1>0, <2>1 DEF AccFields
  <2>3. Append(a.bufs, new) \in Seq(S \cup {new})
    BY <1>1
  <2> HIDE DEF b
  <2> QED BY <1>0, <1>2, <1>6, <2>2, <2>3 DEF IsAcc, Counts, b
<1>7. CASE ev.e = "delta" /\ i # 0
  <2> DEFINE new == [a.bufs[i] EXCEPT !.xs = Append(a.bufs[i].xs, ev.x)]
             bufs == [a.bufs EXCEPT ![i] = new]
  <2>1. b = [a EXCEPT !.bufs = bufs]
    BY <1>7 DEF Observe
  <2> HIDE DEF new
  <2>2. bufs \in Seq(S \cup {new})
    <3>1. Len(a.bufs) \in Nat /\ a.bufs \in [1 .. Len(a.bufs) -> S]
      BY <1>1
    <3>2. bufs \in [1 .. Len(a.bufs) -> S \cup {new}]
      <4> DEFINE s == a.bufs
                 n == Len(s)
      <4>1. s \in [1 .. n -> S]
        BY <3>1
      <4> HIDE DEF s, n
      <4>2. [s EXCEPT ![i] = new] \in [1 .. n -> S \cup {new}]
        BY <4>1
      <4> QED BY <4>2 DEF s, n
    <3> HIDE DEF bufs
    <3> QED BY <3>1, <3>2, IsASeq
  <2> HIDE DEF bufs
  <2>3. b.usage = a.usage /\ b.bufs = bufs /\ DOMAIN b = AccFields /\ b = [x \in AccFields |-> b[x]]
    BY <1>0, <2>1 DEF AccFields
  <2> HIDE DEF b
  <2> QED BY <1>0, <1>2, <1>7, <2>2, <2>3 DEF IsAcc, Counts, b
<1>8. CASE ev.e = "end"
  <2>1. b = [a EXCEPT !.open = NoId]
    BY <1>8 DEF Observe
  <2>2. b.usage = a.usage /\ b.bufs = a.bufs /\ DOMAIN b = AccFields /\ b = [x \in AccFields |-> b[x]]
    BY <1>0, <2>1 DEF AccFields
  <2> HIDE DEF b
  <2> QED BY <1>0, <1>1, <1>2, <1>8, <2>2 DEF IsAcc, Counts, b
<1>9. CASE ev.e = "error" \/ (ev.e = "delta" /\ i = 0)
  <2>1. b = a
    BY <1>9 DEF Observe
  <2> HIDE DEF b
  <2> QED BY <1>2, <1>9, <2>1 DEF Counts, b
<1> QED BY <1>0, <1>3, <1>4, <1>5, <1>6, <1>7, <1>8, <1>9 DEF EventKinds

(* What a run of events leaves in the accumulator.                         *)
Told(es) == \E S : es \in Seq(S) /\ \A ev \in S : IsEvent(ev)
Bears(es, u) == \E k \in 1 .. Len(es) : Counts(es[k]) /\ es[k].usage = u

LEMMA ToldIs ==
    ASSUME NEW es, Told(es)
    PROVE  Len(es) \in Nat /\ \A k \in 1 .. Len(es) : IsEvent(es[k])
BY DEF Told

LEMMA ObservedAll ==
    ASSUME NEW a, IsAcc(a), NEW es, Told(es)
    PROVE  /\ IsAcc(ObserveAll(a, es)) /\ Covers(ObserveAll(a, es).usage, a.usage)
           /\ \A u : Bears(es, u) => Covers(ObserveAll(a, es).usage, u)
<1> DEFINE n == Len(es)
           after == CHOOSE f : f = [k \in 0 .. n |-> IF k = 0 THEN a ELSE Observe(f[k - 1], es[k])]
           Is(f, j) == f = [k \in 0 .. j |-> IF k = 0 THEN a ELSE Observe(f[k - 1], es[k])]
           P == {j \in 0 .. n : \E f : Is(f, j)}
<1>0. n \in Nat /\ \A k \in 1 .. n : IsEvent(es[k])
  BY ToldIs
<1>1. ObserveAll(a, es) = after[n]
  BY DEF ObserveAll
<1>c. \A k \in 1 .. n : Counts(es[k]) => es[k].usage \in Use
  BY <1>0 DEF IsEvent
<1>d. \A u : Bears(es, u) <=> \E k \in 1 .. n : Counts(es[k]) /\ es[k].usage = u
  BY DEF Bears
<1> HIDE DEF n
<1>2. 0 \in P
  <2> DEFINE g == [k \in 0 .. 0 |-> a]
  <2>1. Is(g, 0)
    OBVIOUS
  <2> HIDE DEF g, Is
  <2> QED BY <1>0, <2>1
<1>3. ASSUME NEW j \in 1 .. n, j - 1 \in P PROVE j \in P
  <2>1. PICK f : Is(f, j - 1)
    BY <1>3
  <2> DEFINE g == [k \in 0 .. j |-> IF k = j THEN Observe(f[j - 1], es[j]) ELSE f[k]]
  <2>2. ASSUME NEW k \in 0 .. j PROVE g[k] = IF k = 0 THEN a ELSE Observe(g[k - 1], es[k])
    <3>1. CASE k = j
      <4>1. g[k] = Observe(f[j - 1], es[j]) /\ j - 1 \in 0 .. j /\ j - 1 # j /\ k # 0
        BY <1>0, <3>1
      <4>2. g[j - 1] = f[j - 1]
        BY <4>1
      <4> HIDE DEF g
      <4> QED BY <3>1, <4>1, <4>2
    <3>2. CASE k # j
      <4>1. k \in 0 .. j - 1 /\ g[k] = f[k]
        BY <1>0, <3>2
      <4>2. f[k] = IF k = 0 THEN a ELSE Observe(f[k - 1], es[k])
        BY <2>1, <4>1
      <4>3. k # 0 => k - 1 \in 0 .. j /\ k - 1 # j
        BY <1>0, <4>1
      <4>4. k # 0 => g[k - 1] = f[k - 1]
        BY <4>3
      <4> HIDE DEF g
      <4> QED BY <4>1, <4>2, <4>4
    <3> QED BY <3>1, <3>2
  <2>3. Is(g, j)
    BY <2>2
  <2> HIDE DEF g, Is
  <2> QED BY <1>0, <2>3
<1>4. n \in P
  <2>1. \A j \in 0 .. n : j \in P
    <3> HIDE DEF P
    <3> QED BY <1>0, <1>2, <1>3, UpTo
  <2> QED BY <1>0, <2>1
<1>5. after = [k \in 0 .. n |-> IF k = 0 THEN a ELSE Observe(after[k - 1], es[k])]
  BY <1>4
<1> HIDE DEF after
<1>6. after[0] = a /\ \A k \in 1 .. n : after[k] = Observe(after[k - 1], es[k])
  BY <1>0, <1>5
<1> DEFINE Ok(k) == /\ IsAcc(after[k]) /\ Covers(after[k].usage, a.usage)
                    /\ \A j \in 1 .. k : Counts(es[j]) => Covers(after[k].usage, es[j].usage)
           Q == {k \in 0 .. n : Ok(k)}
<1>7. 0 \in Q
  <2>1. Ok(0)
    BY <1>6, UseIs DEF IsAcc
  <2> HIDE DEF Ok
  <2> QED BY <1>0, <2>1
<1>8. ASSUME NEW k \in 1 .. n, k - 1 \in Q PROVE k \in Q
  <2>1. Ok(k - 1)
    <3> HIDE DEF Ok
    <3> QED BY <1>8
  <2>2. IsEvent(es[k]) /\ after[k] = Observe(after[k - 1], es[k])
    BY <1>0, <1>6
  <2>3. /\ IsAcc(after[k]) /\ Covers(after[k].usage, after[k - 1].usage)
        /\ Counts(es[k]) => Covers(after[k].usage, es[k].usage)
    BY <2>1, <2>2, ObserveIs
  <2>4. after[k].usage \in Use /\ after[k - 1].usage \in Use /\ a.usage \in Use
    BY <2>1, <2>3 DEF IsAcc
  <2>5. Covers(after[k].usage, a.usage)
    BY <2>1, <2>3, <2>4, CoversMore
  <2>6. ASSUME NEW j \in 1 .. k, Counts(es[j]) PROVE Covers(after[k].usage, es[j].usage)
    <3>1. CASE j = k
      BY <2>3, <2>6, <3>1
    <3>2. CASE j # k
      <4>1. j \in 1 .. k - 1 /\ j \in 1 .. n
        BY <1>0, <3>2
      <4>2. Covers(after[k - 1].usage, es[j].usage) /\ es[j].usage \in Use
        BY <1>c, <2>1, <2>6, <4>1
      <4> QED BY <2>3, <2>4, <4>2, CoversMore
    <3> QED BY <3>1, <3>2
  <2>7. Ok(k)
    BY <2>3, <2>5, <2>6
  <2> HIDE DEF Ok
  <2> QED BY <1>0, <2>7
<1>9. Ok(n)
  <2> HIDE DEF Ok
  <2>1. \A k \in 0 .. n : k \in Q
    <3> HIDE DEF Q
    <3> QED BY <1>0, <1>7, <1>8, UpTo
  <2> QED BY <1>0, <2>1
<1> QED BY <1>1, <1>9, <1>d

(* Events one by one, and one run after another.                           *)
LEMMA EventsAre ==
    /\ \A u \in Use : /\ IsEvent(Start(u)) /\ Start(u).usage = u /\ Counts(Start(u))
                      /\ IsEvent(UsageIs(u)) /\ UsageIs(u).usage = u /\ Counts(UsageIs(u))
                      /\ \A r : IsEvent(Stop(r, u)) /\ Stop(r, u).usage = u /\ Counts(Stop(r, u))
    /\ \A x : IsEvent(Text(x)) /\ IsEvent(Thinking(x)) /\ IsEvent(CallStart(x)) /\ IsEvent(CallEnd(x))
    /\ \A id, x : IsEvent(CallDelta(id, x))
    /\ IsEvent(Failure)
<1>1. NoUse \in Use
  BY UseIs
<1> HIDE DEF NoUse
<1>2. \A u \in Use : /\ IsEvent(Start(u)) /\ Start(u).usage = u /\ Counts(Start(u))
                     /\ IsEvent(UsageIs(u)) /\ UsageIs(u).usage = u /\ Counts(UsageIs(u))
  BY DEF IsEvent, Start, UsageIs, Event, Counts, EventKinds
<1>3. \A u \in Use : \A r : IsEvent(Stop(r, u)) /\ Stop(r, u).usage = u /\ Counts(Stop(r, u))
  BY DEF IsEvent, Stop, Event, Counts, EventKinds
<1>4. \A x : IsEvent(Text(x)) /\ IsEvent(Thinking(x)) /\ IsEvent(CallStart(x)) /\ IsEvent(CallEnd(x))
  BY <1>1 DEF IsEvent, Text, Thinking, CallStart, CallEnd, Event, EventKinds
<1>5. \A id, x : IsEvent(CallDelta(id, x))
  BY <1>1 DEF IsEvent, CallDelta, Event, EventKinds
<1>6. IsEvent(Failure)
  BY <1>1 DEF IsEvent, Failure, Event, EventKinds
<1> QED BY <1>2, <1>3, <1>4, <1>5, <1>6

LEMMA ToldNone == Told(<<>>)
<1>1. <<>> \in Seq({}) /\ \A ev \in {} : IsEvent(ev)
  OBVIOUS
<1> DEFINE S == {}
<1>2. <<>> \in Seq(S) /\ \A ev \in S : IsEvent(ev)
  BY <1>1
<1> HIDE DEF S
<1> QED BY <1>2 DEF Told

LEMMA ToldOne ==
    ASSUME NEW ev, IsEvent(ev)
    PROVE  Told(<<ev>>) /\ (Counts(ev) => Bears(<<ev>>, ev.usage))
<1>1. <<ev>> \in Seq({ev}) /\ \A x \in {ev} : IsEvent(x)
  OBVIOUS
<1>2. Told(<<ev>>)
  <2> DEFINE S == {ev}
             s == <<ev>>
  <2>1. s \in Seq(S) /\ \A x \in S : IsEvent(x)
    BY <1>1
  <2> HIDE DEF S, s
  <2>2. Told(s)
    BY <2>1 DEF Told
  <2> QED BY <2>2 DEF s
<1>3. 1 \in 1 .. Len(<<ev>>) /\ <<ev>>[1] = ev
  OBVIOUS
<1>4. Counts(ev) => Bears(<<ev>>, ev.usage)
  BY <1>3, Zenon DEF Bears
<1> QED BY <1>2, <1>4

LEMMA ToldBoth ==
    ASSUME NEW s, Told(s), NEW t, Told(t)
    PROVE  Told(s \o t) /\ \A u : Bears(s, u) \/ Bears(t, u) => Bears(s \o t, u)
<1>1. PICK S : s \in Seq(S) /\ \A ev \in S : IsEvent(ev)
  BY DEF Told
<1>2. PICK T : t \in Seq(T) /\ \A ev \in T : IsEvent(ev)
  BY DEF Told
<1> DEFINE U == S \cup T
<1>3. s \in Seq(U) /\ t \in Seq(U) /\ \A ev \in U : IsEvent(ev)
  BY <1>1, <1>2
<1> HIDE DEF U
<1>4. /\ s \o t \in Seq(U) /\ Len(s \o t) = Len(s) + Len(t) /\ Len(s) \in Nat /\ Len(t) \in Nat
      /\ \A i \in 1 .. Len(s) + Len(t) : (s \o t)[i] = IF i <= Len(s) THEN s[i] ELSE t[i - Len(s)]
  BY <1>3, ConcatProperties
<1>5. Told(s \o t)
  BY <1>3, <1>4 DEF Told
<1> DEFINE w == s \o t
<1> HIDE DEF w
<1>6. /\ Len(w) = Len(s) + Len(t)
      /\ \A i \in 1 .. Len(s) + Len(t) : w[i] = IF i <= Len(s) THEN s[i] ELSE t[i - Len(s)]
  BY <1>4 DEF w
<1>7. ASSUME NEW u, NEW k \in 1 .. Len(s), Counts(s[k]), s[k].usage = u PROVE Bears(w, u)
  <2>1. k \in 1 .. Len(w) /\ w[k] = s[k]
    BY <1>4, <1>6
  <2> QED BY <1>7, <2>1 DEF Bears
<1>8. ASSUME NEW u, NEW k \in 1 .. Len(t), Counts(t[k]), t[k].usage = u PROVE Bears(w, u)
  <2>1. Len(s) + k \in 1 .. Len(w) /\ w[Len(s) + k] = t[k]
    <3>1. Len(s) + k \in 1 .. Len(s) + Len(t) /\ ~ (Len(s) + k <= Len(s)) /\ (Len(s) + k) - Len(s) = k
      BY <1>4
    <3> QED BY <1>6, <3>1
  <2> QED BY <1>8, <2>1 DEF Bears
<1>9. \A u : Bears(s, u) \/ Bears(t, u) => Bears(w, u)
  BY <1>7, <1>8, Zenon DEF Bears
<1> QED BY <1>5, <1>9 DEF w

(* A run of events given one by one.                                       *)
LEMMA ToldEach ==
    ASSUME NEW n \in Nat, NEW s, s = [j \in 1 .. n |-> s[j]], \A j \in 1 .. n : IsEvent(s[j])
    PROVE  Told(s)
<1> DEFINE S == {s[j] : j \in 1 .. n}
<1>1. s \in [1 .. n -> S]
  OBVIOUS
<1>2. \A ev \in S : IsEvent(ev)
  OBVIOUS
<1> HIDE DEF S
<1>3. s \in Seq(S)
  BY <1>1, IsASeq
<1> QED BY <1>2, <1>3 DEF Told

LEMMA WholeCallTold ==
    ASSUME NEW id, NEW xs, Len(xs) \in Nat
    PROVE  Told(WholeCall(id, xs))
<1> DEFINE n == Len(xs)
           s == [j \in 1 .. n |-> CallDelta(id, xs[j])]
<1>1. Told(s)
  <2>1. s = [j \in 1 .. n |-> s[j]] /\ \A j \in 1 .. n : IsEvent(s[j])
    BY EventsAre
  <2> HIDE DEF s, n
  <2>2. n \in Nat
    BY DEF n
  <2> QED BY <2>1, <2>2, ToldEach
<1>2. Told(<<CallStart(id)>>) /\ Told(<<CallEnd(id)>>)
  BY EventsAre, ToldOne
<1>3. WholeCall(id, xs) = <<CallStart(id)>> \o s \o <<CallEnd(id)>>
  BY DEF WholeCall
<1> HIDE DEF s
<1>4. Told(<<CallStart(id)>> \o s)
  BY <1>1, <1>2, ToldBoth
<1>5. Told(<<CallStart(id)>> \o s \o <<CallEnd(id)>>)
  BY <1>2, <1>4, ToldBoth
<1> QED BY <1>3, <1>5

(* What the readers of a streamed answer make of a frame.                  *)
LEMMA AnthropicTold ==
    ASSUME NEW f, NEW a
    PROVE  /\ Told(ParseAnthropic(f, a))
           /\ f.k = "start" => Bears(ParseAnthropic(f, a), Prompt)
           /\ f.k = "finish" => Bears(ParseAnthropic(f, a), Output)
<1> DEFINE r == StopReason(f.word)
<1>1. \A ev : IsEvent(ev) => Told(<<ev>>)
  BY ToldOne
<1>2. Told(<<Start(Prompt)>>) /\ Bears(<<Start(Prompt)>>, Prompt)
  BY UseIs, EventsAre, ToldOne
<1>3. Told(<<UsageIs(Output), Stop(r, Output)>>) /\ Bears(<<UsageIs(Output), Stop(r, Output)>>, Output)
  <2>1. <<UsageIs(Output), Stop(r, Output)>> = <<UsageIs(Output)>> \o <<Stop(r, Output)>>
    OBVIOUS
  <2>2. Told(<<UsageIs(Output)>>) /\ Bears(<<UsageIs(Output)>>, Output) /\ Told(<<Stop(r, Output)>>)
    BY UseIs, EventsAre, ToldOne
  <2>3. Told(<<UsageIs(Output)>> \o <<Stop(r, Output)>>) /\ Bears(<<UsageIs(Output)>> \o <<Stop(r, Output)>>, Output)
    BY <2>2, ToldBoth
  <2> QED BY <2>1, <2>3, Zenon
<1>4. \A id, x : /\ Told(<<CallStart(id)>>) /\ Told(<<Text(x)>>) /\ Told(<<Thinking(x)>>)
                 /\ Told(<<CallDelta(id, x)>>) /\ Told(<<CallEnd(id)>>) /\ Told(<<Failure>>)
  BY <1>1, EventsAre
<1> HIDE DEF r
<1>5. \/ ParseAnthropic(f, a) = <<Start(Prompt)>> /\ f.k = "start"
      \/ f.k \notin {"start", "finish"} /\ ParseAnthropic(f, a) \in
             {<<CallStart(WireId(f))>>, <<Text(f.x)>>, <<Thinking(f.x)>>, <<CallDelta(LastCall(a), f.x)>>,
              <<CallEnd(a.open)>>, <<Failure>>, <<>>}
      \/ ParseAnthropic(f, a) = <<UsageIs(Output), Stop(r, Output)>> /\ f.k = "finish"
  BY Zenon DEF ParseAnthropic, ParseAnthropicBy, r
<1> QED BY <1>2, <1>3, <1>4, <1>5, ToldNone, Zenon

LEMMA ResponsesTold ==
    ASSUME NEW f, NEW a
    PROVE  Told(ParseResponses(f, a)) /\ (f.k = "finish" => Bears(ParseResponses(f, a), Bill))
<1> DEFINE r == CASE f.word = "length" -> "max_tokens"
                  [] f.word = "filter" -> "refusal"
                  [] f.refused -> "refusal"
                  [] a.bufs # <<>> -> "tool_use"
                  [] OTHER -> "end_turn"
<1>1. \A ev : IsEvent(ev) => Told(<<ev>>)
  BY ToldOne
<1>2. Told(<<UsageIs(Bill), Stop(r, Bill)>>) /\ Bears(<<UsageIs(Bill), Stop(r, Bill)>>, Bill)
  <2> HIDE DEF r
  <2>1. <<UsageIs(Bill), Stop(r, Bill)>> = <<UsageIs(Bill)>> \o <<Stop(r, Bill)>>
    OBVIOUS
  <2>2. Told(<<UsageIs(Bill)>>) /\ Bears(<<UsageIs(Bill)>>, Bill) /\ Told(<<Stop(r, Bill)>>)
    BY UseIs, EventsAre, ToldOne
  <2>3. Told(<<UsageIs(Bill)>> \o <<Stop(r, Bill)>>) /\ Bears(<<UsageIs(Bill)>> \o <<Stop(r, Bill)>>, Bill)
    BY <2>2, ToldBoth
  <2> QED BY <2>1, <2>3, Zenon
<1>3. \A id, x : /\ Told(<<CallStart(id)>>) /\ Told(<<Text(x)>>) /\ Told(<<Thinking(x)>>) /\ Told(<<Start(NoUse)>>)
                 /\ Told(<<CallDelta(id, x)>>) /\ Told(<<CallEnd(id)>>) /\ Told(<<Failure>>)
  BY <1>1, EventsAre, UseIs
<1>4. \/ f.k # "finish" /\ ParseResponses(f, a) \in
             {<<Start(NoUse)>>, <<CallStart(WireId(f))>>, <<Text(f.x)>>, <<Thinking(f.x)>>, <<CallDelta(LastCall(a), f.x)>>,
              <<CallEnd(WireId(f))>>, <<Failure>>, <<>>}
      \/ ParseResponses(f, a) = <<UsageIs(Bill), Stop(r, Bill)>> /\ f.k = "finish"
  BY Zenon DEF ParseResponses
<1> HIDE DEF r
<1> QED BY <1>2, <1>3, <1>4, ToldNone, Zenon

LEMMA ConverseTold ==
    ASSUME NEW f, NEW a
    PROVE  Told(ParseConverse(f, a)) /\ (f.k = "usage" => Bears(ParseConverse(f, a), Bill))
<1>1. Told(<<Start(NoUse)>>)
  BY UseIs, EventsAre, ToldOne
<1>2. Told(<<UsageIs(Bill)>>) /\ Bears(<<UsageIs(Bill)>>, Bill)
  BY UseIs, EventsAre, ToldOne
<1>3. Told(<<Stop(a.held, Bill)>>) /\ Bears(<<Stop(a.held, Bill)>>, Bill)
  BY UseIs, EventsAre, ToldOne
<1>4. \/ f.k = "usage" /\ ParseConverse(f, a) \in {<<UsageIs(Bill)>>, <<Stop(a.held, Bill)>>}
      \/ f.k # "usage" /\ ParseConverse(f, a) \in {<<Start(NoUse)>>, <<>>, ParseAnthropic(f, a)}
  BY Zenon DEF ParseConverse
<1> QED BY <1>1, <1>2, <1>3, <1>4, ToldNone, AnthropicTold, Zenon

LEMMA ChatTold ==
    ASSUME NEW f, NEW a, IsAcc(a)
    PROVE  Told(ParseChat(f, a)) /\ (f.k = "usage" => Bears(ParseChat(f, a), Bill))
<1> DEFINE known == CallIds(a)
           calls == IF f.k = "open" /\ ~ Contains(known, WireId(f)) THEN Append(known, WireId(f)) ELSE known
           first == IF f.x = <<>> THEN <<>> ELSE <<CallDelta(WireId(f), f.x)>>
           said == CASE f.k = "delta" /\ f.kind \in {"text", "refusal"} -> <<Text(f.x)>>
                     [] f.k = "delta" /\ f.kind = "thinking" -> <<Thinking(f.x)>>
                     [] f.k = "open" -> <<CallStart(WireId(f))>> \o first
                     [] f.k = "delta" /\ f.kind = "call" -> <<CallDelta(Resolve(f, a), f.x)>>
                     [] f.k = "usage" -> <<UsageIs(Bill)>>
                     [] OTHER -> <<>>
           ends == [j \in 1 .. Len(calls) |-> CallEnd(calls[j])]
           stop == Stop(FinishReason(f.word, calls # <<>>, a.refusal \/ f.kind = "refusal"), NoUse)
           last == IF f.word = "" THEN <<>> ELSE ends \o <<stop>>
<1>0. ParseChat(f, a) = said \o last
  BY DEF ParseChat
<1>1. Told(said) /\ (f.k = "usage" => Bears(said, Bill))
  <2>1. Told(first)
    BY EventsAre, ToldOne, ToldNone
  <2>2. Told(<<CallStart(WireId(f))>>) /\ Told(<<Text(f.x)>>) /\ Told(<<Thinking(f.x)>>) /\ Told(<<CallDelta(Resolve(f, a), f.x)>>)
    BY EventsAre, ToldOne
  <2>3. Told(<<UsageIs(Bill)>>) /\ Bears(<<UsageIs(Bill)>>, Bill)
    BY UseIs, EventsAre, ToldOne
  <2> HIDE DEF first
  <2>4. Told(<<CallStart(WireId(f))>> \o first)
    BY <2>1, <2>2, ToldBoth
  <2>5. \/ f.k = "usage" /\ said = <<UsageIs(Bill)>>
        \/ f.k # "usage" /\ said \in {<<Text(f.x)>>, <<Thinking(f.x)>>, <<CallStart(WireId(f))>> \o first,
                                      <<CallDelta(Resolve(f, a), f.x)>>, <<>>}
    BY Zenon
  <2> HIDE DEF said
  <2> QED BY <2>2, <2>3, <2>4, <2>5, ToldNone, Zenon
<1>2. Told(ends)
  <2>1. Len(calls) \in Nat
    <3>1. PICK S : a.bufs \in Seq(S)
      BY DEF IsAcc
    <3> DEFINE n == Len(a.bufs)
               T == {a.bufs[j].id : j \in 1 .. n}
    <3>2. n \in Nat
      BY <3>1
    <3>3. known \in [1 .. n -> T]
      BY DEF CallIds
    <3> HIDE DEF known, T, n
    <3>4. known \in Seq(T)
      BY <3>2, <3>3, IsASeq
    <3>5. Len(known) \in Nat /\ Len(Append(known, WireId(f))) = Len(known) + 1
      <4>1. known \in Seq(T \cup {WireId(f)})
        BY <3>4
      <4> QED BY <4>1
    <3>6. calls \in {known, Append(known, WireId(f))}
      OBVIOUS
    <3> HIDE DEF calls
    <3> QED BY <3>5, <3>6
  <2> DEFINE n == Len(calls)
  <2>2. ends = [j \in 1 .. n |-> ends[j]] /\ \A j \in 1 .. n : IsEvent(ends[j])
    <3> HIDE DEF calls
    <3> QED BY EventsAre
  <2>3. n \in Nat
    BY <2>1
  <2> HIDE DEF ends, n
  <2> QED BY <2>2, <2>3, ToldEach
<1>3. Told(<<stop>>)
  BY UseIs, EventsAre, ToldOne
<1> HIDE DEF said, ends, stop
<1>4. Told(ends \o <<stop>>)
  BY <1>2, <1>3, ToldBoth
<1>5. Told(last)
  BY <1>4, ToldNone
<1> HIDE DEF last
<1> QED BY <1>0, <1>1, <1>5, ToldBoth

LEMMA GeminiTold ==
    ASSUME NEW f, NEW a
    PROVE  Told(ParseGemini(f, a)) /\ (f.word # "" => Bears(ParseGemini(f, a), Bill))
<1> DEFINE calls == Len(a.bufs) + (IF f.k = "open" THEN 1 ELSE 0)
           u == IF f.word = "" THEN Prompt ELSE Bill
           said == CASE f.k = "delta" /\ f.kind = "text" -> <<Text(f.x)>>
                     [] f.k = "delta" /\ f.kind = "thinking" -> <<Thinking(f.x)>>
                     [] f.k = "open" -> WholeCall(CallId(f.name, Len(a.bufs)), <<f.x>>)
                     [] OTHER -> <<>>
           r == CASE f.word = "length" -> "max_tokens"
                  [] f.word = "filter" -> "refusal"
                  [] calls > 0 -> "tool_use"
                  [] OTHER -> "end_turn"
           last == IF f.word = "" THEN <<>> ELSE <<Stop(r, u)>>
<1>0. ParseGemini(f, a) = <<UsageIs(u)>> \o said \o last
  BY DEF ParseGemini
<1> HIDE DEF r
<1>1. u \in Use
  BY UseIs
<1>2. Told(<<UsageIs(u)>>) /\ Bears(<<UsageIs(u)>>, u)
  <2> HIDE DEF u
  <2> QED BY <1>1, EventsAre, ToldOne
<1>3. Told(said)
  <2>1. Told(<<Text(f.x)>>) /\ Told(<<Thinking(f.x)>>)
    BY EventsAre, ToldOne
  <2>2. Len(<<f.x>>) \in Nat
    OBVIOUS
  <2>3. Told(WholeCall(CallId(f.name, Len(a.bufs)), <<f.x>>))
    BY <2>2, WholeCallTold
  <2>4. said \in {<<Text(f.x)>>, <<Thinking(f.x)>>, WholeCall(CallId(f.name, Len(a.bufs)), <<f.x>>), <<>>}
    BY Zenon
  <2> HIDE DEF said
  <2> QED BY <2>1, <2>3, <2>4, ToldNone, Zenon
<1>4. Told(last)
  <2>1. Told(<<Stop(r, u)>>)
    <3> HIDE DEF u
    <3> QED BY <1>1, EventsAre, ToldOne
  <2> QED BY <2>1, ToldNone
<1>5. f.word # "" => u = Bill
  OBVIOUS
<1> HIDE DEF said, last, u
<1>6. Told(<<UsageIs(u)>> \o said) /\ Bears(<<UsageIs(u)>> \o said, u)
  BY <1>2, <1>3, ToldBoth
<1>7. Told(<<UsageIs(u)>> \o said \o last) /\ Bears(<<UsageIs(u)>> \o said \o last, u)
  BY <1>4, <1>6, ToldBoth
<1> QED BY <1>0, <1>5, <1>7

(* An answer that is not streamed.                                         *)
ItemSet == [kind : {"text", "thinking", "call", "refusal"}, name : {"f"}, frags : Nat, open : BOOLEAN]

LEMMA FlattenTold ==
    ASSUME NEW n \in Nat, NEW s, s = [k \in 1 .. n |-> s[k]], \A k \in 1 .. n : Told(s[k])
    PROVE  Told(FlattenSeq(s))
<1> DEFINE S == UNION {{s[k][j] : j \in 1 .. Len(s[k])} : k \in 1 .. n}
           flat == CHOOSE f : f = [k \in 1 .. n |-> IF k = 1 THEN s[k] ELSE f[k - 1] \o s[k]]
           Is(f, m) == f = [k \in 1 .. m |-> IF k = 1 THEN s[k] ELSE f[k - 1] \o s[k]]
           P == {m \in 0 .. n : \E f : Is(f, m)}
<1>1. Len(s) = n
  <2> DEFINE T == {s[k] : k \in 1 .. n}
  <2>1. s \in [1 .. n -> T]
    OBVIOUS
  <2> HIDE DEF T
  <2>2. s \in Seq(T)
    BY <2>1, IsASeq
  <2> QED BY <2>1, <2>2, LenProperties
<1>2. FlattenSeq(s) = IF n = 0 THEN s ELSE flat[n]
  BY <1>1 DEF FlattenSeq
<1>3. 0 \in P
  <2> DEFINE g == [k \in 1 .. 0 |-> 0]
  <2>1. Is(g, 0)
    OBVIOUS
  <2> HIDE DEF g, Is
  <2> QED BY <2>1
<1>4. ASSUME NEW m \in 1 .. n, m - 1 \in P PROVE m \in P
  <2>1. PICK f : Is(f, m - 1)
    BY <1>4
  <2> DEFINE v == IF m = 1 THEN s[m] ELSE f[m - 1] \o s[m]
             g == [k \in 1 .. m |-> IF k = m THEN v ELSE f[k]]
  <2> HIDE DEF v
  <2>2. ASSUME NEW k \in 1 .. m PROVE g[k] = IF k = 1 THEN s[k] ELSE g[k - 1] \o s[k]
    <3>1. k # m => k \in 1 .. m - 1 /\ (k # 1 => k - 1 \in 1 .. m /\ k - 1 # m)
      OBVIOUS
    <3>2. k = m /\ k # 1 => m - 1 \in 1 .. m /\ m - 1 # m
      OBVIOUS
    <3>3. CASE k = m
      <4>1. g[k] = v
        BY <3>3
      <4>2. k # 1 => g[k - 1] = f[m - 1]
        BY <3>2, <3>3
      <4> HIDE DEF g
      <4> QED BY <3>3, <4>1, <4>2 DEF v
    <3>4. CASE k # m
      <4>1. g[k] = f[k] /\ (k # 1 => g[k - 1] = f[k - 1])
        BY <3>1, <3>4
      <4>2. f[k] = IF k = 1 THEN s[k] ELSE f[k - 1] \o s[k]
        BY <2>1, <3>1, <3>4
      <4> HIDE DEF g
      <4> QED BY <4>1, <4>2
    <3> QED BY <3>3, <3>4
  <2>3. Is(g, m)
    BY <2>2
  <2> HIDE DEF g, Is
  <2>4. m \in 0 .. n
    OBVIOUS
  <2> QED BY <2>3, <2>4
<1>5. n \in P
  <2>1. \A m \in 0 .. n : m \in P
    <3> HIDE DEF P
    <3> QED BY <1>3, <1>4, UpTo
  <2> HIDE DEF P
  <2> QED BY <2>1
<1>6. flat = [k \in 1 .. n |-> IF k = 1 THEN s[k] ELSE flat[k - 1] \o s[k]]
  BY <1>5
<1> HIDE DEF flat
<1> DEFINE Q == {k \in 0 .. n : k # 0 => Told(flat[k])}
<1>7. 0 \in Q
  OBVIOUS
<1>8. ASSUME NEW k \in 1 .. n, k - 1 \in Q PROVE k \in Q
  <2>1. flat[k] = IF k = 1 THEN s[k] ELSE flat[k - 1] \o s[k]
    BY <1>6
  <2>2. k # 1 => Told(flat[k - 1])
    BY <1>8
  <2>3. Told(s[k])
    OBVIOUS
  <2>4. Told(flat[k])
    BY <2>1, <2>2, <2>3, ToldBoth
  <2>5. k \in 0 .. n
    OBVIOUS
  <2> QED BY <2>4, <2>5
<1>9. \A k \in 0 .. n : k \in Q
  <2> HIDE DEF Q
  <2> QED BY <1>7, <1>8, UpTo
<1>10. CASE n = 0
  <2>1. s = <<>>
    BY <1>10
  <2> QED BY <1>2, <1>10, <2>1, ToldNone
<1>11. CASE n # 0
  <2>1. n \in 0 .. n
    OBVIOUS
  <2>2. Told(flat[n])
    BY <1>9, <1>11, <2>1
  <2> QED BY <1>2, <1>11, <2>2
<1> QED BY <1>10, <1>11

LEMMA SaidTold ==
    ASSUME NEW items \in Seq(ItemSet), NEW n \in 1 .. Len(items)
    PROVE  Told(Said(items, n)) /\ Len(Frags(items, n)) \in Nat
<1> DEFINE m == items[n].frags
           xs == Frags(items, n)
           x(j) == IF items[n].kind = "thinking" THEN Thinking(<<n, j>>) ELSE Text(<<n, j>>)
           s == [j \in 1 .. m |-> x(j)]
<1>1. m \in Nat
  <2>1. items[n] \in ItemSet
    <3> HIDE DEF ItemSet
    <3> QED OBVIOUS
  <2> QED BY <2>1 DEF ItemSet
<1>2. Len(xs) \in Nat
  <2> DEFINE T == {<<n, j>> : j \in 1 .. m}
  <2>1. xs \in [1 .. m -> T]
    BY DEF Frags
  <2> HIDE DEF T, xs, m
  <2>2. xs \in Seq(T)
    BY <1>1, <2>1, IsASeq
  <2> QED BY <2>2, LenProperties
<1>3. Told(WholeCall(BodyId(items, n), xs))
  <2> HIDE DEF xs
  <2> QED BY <1>2, WholeCallTold
<1>4. Told(s)
  <2>1. \A j \in 1 .. m : IsEvent(x(j))
    BY EventsAre
  <2> HIDE DEF x, m
  <2>2. s = [j \in 1 .. m |-> s[j]] /\ \A j \in 1 .. m : IsEvent(s[j])
    BY <2>1
  <2> HIDE DEF s
  <2> QED BY <1>1, <2>2, ToldEach
<1>5. Said(items, n) = IF items[n].kind = "call" THEN WholeCall(BodyId(items, n), xs) ELSE s
  BY DEF Said
<1> HIDE DEF s, xs
<1>6. Told(Said(items, n))
  BY <1>3, <1>4, <1>5
<1> QED BY <1>2, <1>6 DEF xs

(* The items of some kinds, by their places.                               *)
LEMMA OfKindIs ==
    ASSUME NEW items, Len(items) \in Nat, NEW kinds
    PROVE  OfKind(items, kinds) \in Seq(1 .. Len(items))
<1> DEFINE n == Len(items)
           V == Seq(1 .. n)
           B(f, k) == IF k = 0 THEN <<>> ELSE IF items[k].kind \in kinds THEN Append(f[k - 1], k) ELSE f[k - 1]
           of == CHOOSE f : f = [k \in 0 .. n |-> B(f, k)]
           Is(f, j) == f = [k \in 0 .. j |-> B(f, k)]
           P == {j \in 0 .. n : \E f : Is(f, j)}
<1>0. OfKind(items, kinds) = of[n]
  BY DEF OfKind
<1>1. n \in Nat
  OBVIOUS
<1> HIDE DEF n
<1>2. 0 \in P
  <2> DEFINE g == [k \in 0 .. 0 |-> <<>>]
  <2>1. Is(g, 0)
    OBVIOUS
  <2> HIDE DEF g, Is
  <2> QED BY <1>1, <2>1
<1>3. ASSUME NEW j \in 1 .. n, j - 1 \in P PROVE j \in P
  <2>1. PICK f : Is(f, j - 1)
    BY <1>3
  <2> DEFINE v == B(f, j)
             g == [k \in 0 .. j |-> IF k = j THEN v ELSE f[k]]
  <2>2. ASSUME NEW k \in 0 .. j PROVE g[k] = B(g, k)
    <3>1. k # 0 => k - 1 \in 0 .. j /\ k - 1 # j
      BY <1>1
    <3>2. k # 0 => g[k - 1] = f[k - 1]
      <4> HIDE DEF v
      <4> QED BY <3>1
    <3>3. CASE k = j
      <4>1. g[k] = v
        <5> HIDE DEF v
        <5> QED BY <3>3
      <4> HIDE DEF g
      <4> QED BY <3>2, <3>3, <4>1
    <3>4. CASE k # j
      <4>1. k \in 0 .. j - 1 /\ g[k] = f[k]
        <5> HIDE DEF v
        <5> QED BY <1>1, <3>4
      <4>2. f[k] = B(f, k)
        <5> HIDE DEF B
        <5> QED BY <2>1, <4>1
      <4> HIDE DEF g
      <4> QED BY <3>2, <4>1, <4>2
    <3> QED BY <3>3, <3>4
  <2>3. Is(g, j)
    <3> HIDE DEF B, v
    <3> QED BY <2>2
  <2> HIDE DEF g, Is
  <2>4. j \in 0 .. n
    BY <1>1
  <2> QED BY <2>3, <2>4
<1>4. n \in P
  <2>1. \A j \in 0 .. n : j \in P
    <3> HIDE DEF P
    <3> QED BY <1>1, <1>2, <1>3, UpTo
  <2> HIDE DEF P
  <2> QED BY <1>1, <2>1
<1>5. of = [k \in 0 .. n |-> B(of, k)]
  <2> HIDE DEF B
  <2> QED BY <1>4
<1> HIDE DEF of
<1>6. \A k \in 0 .. n : of[k] = B(of, k)
  <2> HIDE DEF B
  <2> QED BY <1>5
<1> DEFINE Q == {k \in 0 .. n : of[k] \in V}
<1>7. 0 \in Q
  <2>1. of[0] = <<>> /\ 0 \in 0 .. n
    BY <1>1, <1>6
  <2>2. <<>> \in V
    OBVIOUS
  <2> HIDE DEF V
  <2> QED BY <2>1, <2>2
<1>8. ASSUME NEW k \in 1 .. n, k - 1 \in Q PROVE k \in Q
  <2>1. of[k - 1] \in V /\ k \in 0 .. n /\ k # 0
    BY <1>1, <1>8
  <2>2. of[k] = Append(of[k - 1], k) \/ of[k] = of[k - 1]
    BY <1>6, <2>1
  <2>3. Append(of[k - 1], k) \in V
    BY <2>1
  <2> HIDE DEF V
  <2> QED BY <2>1, <2>2, <2>3
<1>9. \A k \in 0 .. n : k \in Q
  <2> HIDE DEF Q
  <2> QED BY <1>1, <1>7, <1>8, UpTo
<1>10. of[n] \in V
  <2> HIDE DEF V
  <2> QED BY <1>1, <1>9
<1> QED BY <1>0, <1>10 DEF n

LEMMA SaidAllTold ==
    ASSUME NEW items \in Seq(ItemSet), NEW ns \in Seq(1 .. Len(items))
    PROVE  Told(SaidAll(items, ns))
<1> DEFINE n == Len(ns)
           s == [j \in 1 .. n |-> Said(items, ns[j])]
<1>1. n \in Nat /\ \A j \in 1 .. n : ns[j] \in 1 .. Len(items)
  OBVIOUS
<1>2. SaidAll(items, ns) = FlattenSeq(s)
  BY DEF SaidAll
<1> HIDE DEF n
<1>3. s = [j \in 1 .. n |-> s[j]] /\ \A j \in 1 .. n : Told(s[j])
  BY <1>1, SaidTold
<1> HIDE DEF s
<1> QED BY <1>1, <1>2, <1>3, FlattenTold

(* Whatever its dialect, a whole body bears the bill.                      *)
LEMMA BodyBears ==
    ASSUME NEW u \in Upstreams, NEW items \in Seq(ItemSet), NEW word
    PROVE  Told(ReadBody(u, items, word)) /\ Bears(ReadBody(u, items, word), Bill)
<1> DEFINE n == Len(items)
           all == [k \in 1 .. n |-> k]
           head == <<UsageIs(Bill)>>
           of(kinds) == SaidAll(items, OfKind(items, kinds))
<1>0. n \in Nat
  OBVIOUS
<1>1. Told(head) /\ Bears(head, Bill) /\ \A r : Told(<<Stop(r, Bill)>>)
  BY UseIs, EventsAre, ToldOne
<1>2. \A s, r : Told(s) => Told(head \o s \o <<Stop(r, Bill)>>) /\ Bears(head \o s \o <<Stop(r, Bill)>>, Bill)
  <2> HIDE DEF head
  <2> SUFFICES ASSUME NEW s, NEW r, Told(s)
               PROVE  Told(head \o s \o <<Stop(r, Bill)>>) /\ Bears(head \o s \o <<Stop(r, Bill)>>, Bill)
    OBVIOUS
  <2>1. Told(head \o s) /\ Bears(head \o s, Bill)
    BY <1>1, ToldBoth
  <2> QED BY <1>1, <2>1, ToldBoth
<1>3. Told(SaidAll(items, all))
  <2>1. all \in [1 .. n -> 1 .. n]
    OBVIOUS
  <2> HIDE DEF all
  <2>2. all \in Seq(1 .. n)
    BY <1>0, <2>1, IsASeq
  <2> QED BY <2>2, SaidAllTold
<1>4. \A kinds : Told(of(kinds))
  BY <1>0, OfKindIs, SaidAllTold
<1> HIDE DEF of, all
<1>5. CASE u \in {"anthropic", "converse"}
  <2>1. ReadBody(u, items, word) = head \o SaidAll(items, all) \o <<Stop(StopReason(word), Bill)>>
    BY <1>5 DEF ReadBody, ReadConverse, ReadAnthropic, all
  <2> HIDE DEF head
  <2> QED BY <1>2, <1>3, <2>1
<1>6. CASE u = "responses"
  <2> DEFINE r == CASE word = "length" -> "max_tokens"
                    [] word = "filter" -> "refusal"
                    [] Refused(items) -> "refusal"
                    [] Called(items) -> "tool_use"
                    [] OTHER -> "end_turn"
  <2>1. ReadBody(u, items, word) = head \o SaidAll(items, all) \o <<Stop(r, Bill)>>
    BY <1>6 DEF ReadBody, ReadResponses, all
  <2> HIDE DEF head, r
  <2> QED BY <1>2, <1>3, <2>1
<1>7. CASE u = "chat"
  <2> DEFINE r == FinishReason(word, Called(items), Refused(items))
             a == of({"text"})
             b == of({"refusal"})
             c == of({"thinking"})
             d == of({"call"})
  <2>1. ReadBody(u, items, word) = head \o a \o b \o c \o d \o <<Stop(r, Bill)>>
    BY <1>7 DEF ReadBody, ReadChat, of
  <2>2. Told(a) /\ Told(b) /\ Told(c) /\ Told(d)
    BY <1>4
  <2> HIDE DEF head, r, a, b, c, d
  <2>3. Told(head \o a) /\ Bears(head \o a, Bill)
    BY <1>1, <2>2, ToldBoth
  <2>4. Told(head \o a \o b) /\ Bears(head \o a \o b, Bill)
    BY <2>2, <2>3, ToldBoth
  <2>5. Told(head \o a \o b \o c) /\ Bears(head \o a \o b \o c, Bill)
    BY <2>2, <2>4, ToldBoth
  <2>6. Told(head \o a \o b \o c \o d) /\ Bears(head \o a \o b \o c \o d, Bill)
    BY <2>2, <2>5, ToldBoth
  <2> QED BY <1>1, <2>1, <2>6, ToldBoth
<1>8. CASE u = "gemini"
  <2> DEFINE r == CASE word = "length" -> "max_tokens"
                    [] word = "filter" -> "refusal"
                    [] Called(items) -> "tool_use"
                    [] OTHER -> "end_turn"
             call(k) == WholeCall(CallId(items[k].name, Ordinal(items, k)), Frags(items, k))
             said(k) == IF items[k].kind = "call" THEN call(k) ELSE Said(items, k)
             s == [k \in 1 .. n |-> said(k)]
  <2>1. ReadBody(u, items, word) = head \o FlattenSeq(s) \o <<Stop(r, Bill)>>
    BY <1>8 DEF ReadBody, ReadGemini
  <2>2. \A k \in 1 .. n : Told(call(k)) /\ Told(Said(items, k))
    BY SaidTold, WholeCallTold
  <2> HIDE DEF call
  <2>3. \A k \in 1 .. n : Told(said(k))
    BY <2>2
  <2> HIDE DEF said, n
  <2>4. s = [k \in 1 .. n |-> s[k]] /\ \A k \in 1 .. n : Told(s[k])
    BY <2>3
  <2> HIDE DEF head, r, s
  <2>5. Told(FlattenSeq(s))
    BY <1>0, <2>4, FlattenTold
  <2> QED BY <1>2, <2>1, <2>5
<1> QED BY <1>5, <1>6, <1>7, <1>8 DEF Upstreams

(* What each dialect's reader makes of a frame, and what it notes down     *)
(* itself: events, and the count in them where the dialect sends one.      *)
LEMMA FreshIs == IsAcc(Fresh)
<1>1. DOMAIN Fresh = AccFields /\ Fresh = [x \in AccFields |-> Fresh[x]] /\ Fresh.usage = NoUse /\ Fresh.bufs = <<>>
  <2> HIDE DEF NoUse, NoId
  <2> QED BY DEF Fresh, AccFields
<1>2. NoUse \in Use
  BY UseIs
<1> DEFINE S == {}
<1>3. <<>> \in Seq(S)
  OBVIOUS
<1> HIDE DEF S, NoUse, Fresh
<1> QED BY <1>1, <1>2, <1>3 DEF IsAcc

LEMMA RememberIs ==
    ASSUME NEW u, NEW f, NEW a, IsAcc(a)
    PROVE  IsAcc(Remember(u, f, a)) /\ Remember(u, f, a).usage = a.usage
<1> DEFINE b == Remember(u, f, a)
<1>0. DOMAIN a = AccFields /\ a = [x \in AccFields |-> a[x]]
  BY DEF IsAcc
<1>1. \/ b = [a EXCEPT !.refusal = TRUE]
      \/ b = [a EXCEPT !.held = StopReason(f.word)]
      \/ b = [a EXCEPT !.held = ""]
      \/ b = a
  BY Zenon DEF Remember
<1> HIDE DEF b
<1>2. b.usage = a.usage /\ b.bufs = a.bufs /\ DOMAIN b = AccFields /\ b = [x \in AccFields |-> b[x]]
  BY <1>0, <1>1 DEF AccFields
<1>3. IsAcc(b)
  BY <1>2 DEF IsAcc
<1> QED BY <1>2, <1>3 DEF b

LEMMA EventTold ==
    ASSUME NEW u \in Upstreams, NEW f, NEW a, IsAcc(a)
    PROVE  /\ Told(ParseEvent(u, f, a))
           /\ u = "anthropic" /\ f.k = "start" => Bears(ParseEvent(u, f, a), Prompt)
           /\ u = "anthropic" /\ f.k = "finish" => Bears(ParseEvent(u, f, a), Output)
           /\ u = "responses" /\ f.k = "finish" => Bears(ParseEvent(u, f, a), Bill)
           /\ u = "gemini" /\ f.word # "" => Bears(ParseEvent(u, f, a), Bill)
           /\ u \in {"chat", "converse"} /\ f.k = "usage" => Bears(ParseEvent(u, f, a), Bill)
<1>1. CASE u = "anthropic"
  <2>1. ParseEvent(u, f, a) = ParseAnthropic(f, a)
    BY <1>1 DEF ParseEvent
  <2> QED BY <1>1, <2>1, AnthropicTold
<1>2. CASE u = "chat"
  <2>1. ParseEvent(u, f, a) = ParseChat(f, a)
    BY <1>2 DEF ParseEvent
  <2> QED BY <1>2, <2>1, ChatTold
<1>3. CASE u = "responses"
  <2>1. ParseEvent(u, f, a) = ParseResponses(f, a)
    BY <1>3 DEF ParseEvent
  <2> QED BY <1>3, <2>1, ResponsesTold
<1>4. CASE u = "gemini"
  <2>1. ParseEvent(u, f, a) = ParseGemini(f, a)
    BY <1>4 DEF ParseEvent
  <2> QED BY <1>4, <2>1, GeminiTold
<1>5. CASE u = "converse"
  <2>1. ParseEvent(u, f, a) = ParseConverse(f, a)
    BY <1>5 DEF ParseEvent
  <2> QED BY <1>5, <2>1, ConverseTold
<1> QED BY <1>1, <1>2, <1>3, <1>4, <1>5 DEF Upstreams

(* The upstream.  A frame adds to the answer, finishes it, bears the count *)
(* that follows it, or ends the stream without one.                        *)
EndingWords == {"stop", "length", "filter", "sequence", "tool"}
IsWire(w) ==
    /\ w \in [pc : {"new", "answer", "finished", "over"}, items : Seq(ItemSet), word : EndingWords \cup {""}]
    /\ w.pc \in {"new", "answer"} => w.word = ""

LEMMA FrameIs == \A k : Frame(k).k = k /\ Frame(k).word = ""
BY DEF Frame

LEMMA EndWordsAre ==
    ASSUME NEW u, NEW items, NEW word \in EndWords(u, items)
    PROVE  word \in EndingWords
<1>1. word \in Words(u, items)
  <2> HIDE DEF Words
  <2> QED BY DEF EndWords
<1> QED BY <1>1 DEF Words, EndingWords

(* A frame that says more: the answer grows by it, and has not ended.      *)
FrameFields == {"k", "n", "kind", "name", "x", "index", "word", "refused"}
Adds(w, t) ==
    /\ t.w = [w EXCEPT !.items = t.w.items] /\ t.w.items \in Seq(ItemSet)
    /\ DOMAIN t.f = FrameFields /\ t.f = [x \in FrameFields |-> t.f[x]]

LEMMA AddingIs ==
    ASSUME NEW w, IsWire(w), NEW f, DOMAIN f = FrameFields, f = [x \in FrameFields |-> f[x]],
           NEW items \in Seq(ItemSet)
    PROVE  Adds(w, Adding(w, f, items))
<1> HIDE DEF ItemSet, FrameFields
<1>1. w = [pc |-> w.pc, items |-> w.items, word |-> w.word]
  BY DEF IsWire
<1>2. [w EXCEPT !.items = items].items = items
  BY <1>1
<1> QED BY <1>2 DEF Adds, Adding

LEMMA MoreFramesAre ==
    ASSUME NEW u, NEW w, IsWire(w), NEW t \in MoreFrames(u, w)
    PROVE  Adds(w, t)
<1> DEFINE items == w.items
<1>1. items \in Seq(ItemSet) /\ Len(items) \in Nat
  <2>1. items \in Seq(ItemSet)
    BY DEF IsWire
  <2> HIDE DEF items, ItemSet
  <2> QED BY <2>1
<1>2. Kinds(u) \subseteq {"text", "thinking", "call", "refusal"}
  BY DEF Kinds
<1>3. ASSUME NEW kind \in Kinds(u), NEW g \in {0, 1}, NEW open \in BOOLEAN
      PROVE  Append(items, Item(kind, g, open)) \in Seq(ItemSet)
  <2>1. Item(kind, g, open) \in ItemSet
    BY <1>2 DEF Item, ItemSet
  <2> HIDE DEF ItemSet, Item
  <2> QED BY <1>1, <2>1
<1>4. CASE t \in OpenFrames(u, w)
  <2>1. PICK kind \in Kinds(u) :
            t = Adding(w, [Frame("open") EXCEPT !.n = Len(w.items) + 1, !.kind = kind, !.name = "f",
                                                !.index = Len(CallsOf(w.items)) + 1],
                       Append(w.items, Item(kind, 0, TRUE)))
    BY <1>4 DEF OpenFrames
  <2> DEFINE f == [Frame("open") EXCEPT !.n = Len(w.items) + 1, !.kind = kind, !.name = "f",
                                        !.index = Len(CallsOf(w.items)) + 1]
  <2>2. DOMAIN f = FrameFields /\ f = [x \in FrameFields |-> f[x]]
    BY DEF Frame, FrameFields
  <2>3. Append(items, Item(kind, 0, TRUE)) \in Seq(ItemSet)
    BY <1>3
  <2>4. t = Adding(w, f, Append(items, Item(kind, 0, TRUE)))
    BY <2>1, Zenon
  <2> HIDE DEF f, items
  <2> QED BY <2>2, <2>3, <2>4, AddingIs
<1>5. CASE t \in DeltaFrames(w)
  <2>1. PICK m \in 1 .. Len(items) :
            t = Adding(w, [Frame("delta") EXCEPT !.n = m, !.kind = w.items[m].kind, !.x = <<m, w.items[m].frags + 1>>,
                                                 !.index = Cardinality({i \in 1 .. m : w.items[i].kind = "call"})],
                       [w.items EXCEPT ![m].frags = @ + 1])
    BY <1>5 DEF DeltaFrames
  <2> DEFINE f == [Frame("delta") EXCEPT !.n = m, !.kind = w.items[m].kind, !.x = <<m, w.items[m].frags + 1>>,
                                         !.index = Cardinality({i \in 1 .. m : w.items[i].kind = "call"})]
             new == [items[m] EXCEPT !.frags = @ + 1]
  <2>2. DOMAIN f = FrameFields /\ f = [x \in FrameFields |-> f[x]]
    BY DEF Frame, FrameFields
  <2>3. new \in ItemSet
    <3>1. items[m] \in ItemSet
      <4> HIDE DEF ItemSet
      <4> QED BY <1>1
    <3> QED BY <3>1 DEF ItemSet
  <2>4. t = Adding(w, f, [items EXCEPT ![m] = new])
    BY <2>1, Zenon
  <2> HIDE DEF f, new, items
  <2>5. [items EXCEPT ![m] = new] \in Seq(ItemSet)
    BY <1>1, <2>3, ExceptSeq
  <2> QED BY <2>2, <2>4, <2>5, AddingIs
<1>6. CASE t \in CloseFrames(u, w)
  <2> DEFINE m == Len(items)
             f == [Frame("close") EXCEPT !.n = Len(w.items), !.kind = Last(w.items).kind, !.name = "f"]
             new == [items[m] EXCEPT !.open = FALSE]
  <2>1. t = Adding(w, f, [items EXCEPT ![m] = new]) /\ items # <<>>
    BY <1>6 DEF CloseFrames, LastOpen
  <2>2. DOMAIN f = FrameFields /\ f = [x \in FrameFields |-> f[x]]
    BY DEF Frame, FrameFields
  <2>3. m \in 1 .. Len(items)
    <3> HIDE DEF ItemSet, items
    <3> QED BY <1>1, <2>1
  <2>4. new \in ItemSet
    <3>1. items[m] \in ItemSet
      <4> HIDE DEF ItemSet
      <4> QED BY <1>1, <2>3
    <3> QED BY <3>1 DEF ItemSet
  <2> HIDE DEF f, new, items
  <2>5. [items EXCEPT ![m] = new] \in Seq(ItemSet)
    BY <1>1, <2>3, <2>4, ExceptSeq
  <2> QED BY <2>1, <2>2, <2>5, AddingIs
<1>7. CASE t \in StartFrames(u, w)
  <2>1. PICK b \in [kind : Kinds(u), frags : {0, 1}] :
            t = Adding(w, [Frame(IF b.kind = "call" THEN "open" ELSE "delta") EXCEPT
                               !.n = Len(w.items) + 1, !.kind = b.kind, !.name = "f", !.index = Len(CallsOf(w.items)) + 1,
                               !.x = IF b.frags = 0 THEN <<>> ELSE <<Len(w.items) + 1, 1>>],
                       Append(w.items, Item(b.kind, b.frags, u # "gemini" \/ b.kind # "call")))
    BY <1>7 DEF StartFrames
  <2> DEFINE f == [Frame(IF b.kind = "call" THEN "open" ELSE "delta") EXCEPT
                       !.n = Len(w.items) + 1, !.kind = b.kind, !.name = "f", !.index = Len(CallsOf(w.items)) + 1,
                       !.x = IF b.frags = 0 THEN <<>> ELSE <<Len(w.items) + 1, 1>>]
             open == u # "gemini" \/ b.kind # "call"
  <2>2. DOMAIN f = FrameFields /\ f = [x \in FrameFields |-> f[x]]
    BY DEF Frame, FrameFields
  <2>3. b.kind \in Kinds(u) /\ b.frags \in {0, 1} /\ open \in BOOLEAN
    OBVIOUS
  <2>4. t = Adding(w, f, Append(items, Item(b.kind, b.frags, open)))
    BY <2>1, Zenon
  <2> HIDE DEF f, items, open
  <2>5. Append(items, Item(b.kind, b.frags, open)) \in Seq(ItemSet)
    BY <1>3, <2>3
  <2> QED BY <2>2, <2>4, <2>5, AddingIs
<1> QED BY <1>4, <1>5, <1>6, <1>7 DEF MoreFrames

LEMMA NextFramesIs ==
    ASSUME NEW u \in Upstreams, NEW w, IsWire(w), NEW t \in NextFrames(u, w)
    PROVE  /\ IsWire(t.w)
           /\ \/ w.pc = "new" /\ t.w.pc = "answer" /\ t.f.k = "start"
              \/ w.pc \in {"new", "answer"} /\ t.w.pc = w.pc /\ (Sequential(u) => w.pc # "new")
              \/ /\ w.pc = "answer" /\ t.w.pc = "finished" /\ t.f.word # ""
                 /\ Sequential(u) => t.f.k = "finish"
              \/ /\ w.pc = "finished" /\ u \in {"chat", "converse"} /\ t.f.k = "usage"
                 /\ t.w.pc = "over"
              \/ w.pc = "answer" /\ t.w.pc = "over" /\ t.w.word = ""
<1>0. /\ w = [pc |-> w.pc, items |-> w.items, word |-> w.word]
      /\ w.pc \in {"new", "answer", "finished", "over"} /\ w.items \in Seq(ItemSet)
      /\ w.word \in EndingWords \cup {""} /\ (w.pc \in {"new", "answer"} => w.word = "")
  BY DEF IsWire
<1> DEFINE begin == [f |-> Frame("start"), w |-> [w EXCEPT !.pc = "answer"]]
           failed == [f |-> Frame("error"), w |-> [w EXCEPT !.pc = "over"]]
           ping == [f |-> Frame("ping"), w |-> w]
           usage == [f |-> Frame("usage"), w |-> [w EXCEPT !.pc = "over"]]
<1>1. \/ w.pc = "new" /\ Sequential(u) /\ t = begin
      \/ ((w.pc = "new" /\ ~ Sequential(u)) \/ w.pc = "answer") /\ t \in MoreFrames(u, w)
      \/ w.pc = "answer" /\ t \in FinishFrames(u, w)
      \/ w.pc = "answer" /\ t \in {failed, ping}
      \/ w.pc = "finished" /\ u \in {"chat", "converse"} /\ t = usage
  <2>1. CASE w.pc = "new"
    BY <2>1 DEF NextFrames
  <2>2. CASE w.pc = "answer"
    <3>1. t \in MoreFrames(u, w) \cup FinishFrames(u, w) \cup {failed, ping}
      BY <2>2 DEF NextFrames
    <3> HIDE DEF failed, ping
    <3> QED BY <2>2, <3>1
  <2>3. CASE w.pc = "finished"
    BY <2>3 DEF NextFrames
  <2>4. CASE w.pc = "over"
    BY <2>4 DEF NextFrames
  <2> QED BY <1>0, <2>1, <2>2, <2>3, <2>4, Zenon
<1>2. CASE w.pc = "new" /\ Sequential(u) /\ t = begin
  <2>1. t.f.k = "start" /\ t.w = [w EXCEPT !.pc = "answer"]
    BY <1>2, FrameIs
  <2>2. t.w.pc = "answer" /\ IsWire(t.w)
    BY <1>0, <1>2, <2>1 DEF IsWire
  <2> QED BY <1>2, <2>1, <2>2
<1>3. CASE ((w.pc = "new" /\ ~ Sequential(u)) \/ w.pc = "answer") /\ t \in MoreFrames(u, w)
  <2>1. Adds(w, t)
    BY <1>3, MoreFramesAre
  <2>2. t.w = [w EXCEPT !.items = t.w.items] /\ t.w.items \in Seq(ItemSet)
    BY <2>1 DEF Adds
  <2>3. t.w.pc = w.pc /\ IsWire(t.w)
    BY <1>0, <2>2 DEF IsWire
  <2> QED BY <1>3, <2>3
<1>4. CASE w.pc = "answer" /\ t \in FinishFrames(u, w)
  <2>1. PICK s : /\ t \in EndFrames(u, s) /\ Adds(w, s)
                 /\ Sequential(u) => s.f.k = "finish"
    <3> DEFINE bare == Adding(w, Frame("finish"), w.items)
    <3>1. Adds(w, bare) /\ bare.f.k = "finish"
      <4>1. DOMAIN Frame("finish") = FrameFields /\ Frame("finish") = [x \in FrameFields |-> Frame("finish")[x]]
        BY DEF Frame, FrameFields
      <4>2. Adds(w, bare)
        BY <1>0, <4>1, AddingIs
      <4> QED BY <4>2, FrameIs DEF Adding
    <3> HIDE DEF bare
    <3>2. t \in EndFrames(u, bare) \/ (~ Sequential(u) /\ \E s \in MoreFrames(u, w) : t \in EndFrames(u, s))
      BY <1>4 DEF FinishFrames, bare
    <3> QED BY <3>1, <3>2, MoreFramesAre
  <2>2. PICK word \in EndWords(u, s.w.items) :
            t = [f |-> [s.f EXCEPT !.word = word, !.refused = Refused(s.w.items)],
                 w |-> [s.w EXCEPT !.pc = "finished", !.word = word]]
    BY <2>1 DEF EndFrames
  <2>3. word \in EndingWords /\ word # ""
    BY EndWordsAre DEF EndingWords
  <2>4. s.w = [w EXCEPT !.items = s.w.items] /\ s.w.items \in Seq(ItemSet)
    BY <2>1 DEF Adds
  <2>5. t.w.pc = "finished" /\ IsWire(t.w)
    <3> HIDE DEF EndingWords, ItemSet
    <3>1. t.w = [s.w EXCEPT !.pc = "finished", !.word = word]
      BY <2>2
    <3>2. t.w = [pc |-> "finished", items |-> s.w.items, word |-> word]
      BY <1>0, <2>4, <3>1
    <3> DEFINE W == EndingWords \cup {""}
               S == Seq(ItemSet)
    <3>3. word \in W /\ s.w.items \in S
      BY <2>3, <2>4
    <3> HIDE DEF W, S
    <3>4. t.w \in [pc : {"new", "answer", "finished", "over"}, items : S, word : W] /\ t.w.pc = "finished"
      BY <3>2, <3>3
    <3> QED BY <3>4 DEF IsWire, W, S
  <2>6. t.f.word = word /\ t.f.k = s.f.k
    <3> DEFINE refused == Refused(s.w.items)
    <3> HIDE DEF refused
    <3>1. t.f = [s.f EXCEPT !.word = word, !.refused = refused]
      BY <2>2 DEF refused
    <3>2. DOMAIN s.f = FrameFields
      BY <2>1 DEF Adds
    <3> QED BY <3>1, <3>2 DEF FrameFields
  <2> QED BY <1>4, <2>1, <2>3, <2>5, <2>6
<1>5. CASE w.pc = "answer" /\ t \in {failed, ping}
  <2>1. t.w = [w EXCEPT !.pc = "over"] \/ t.w = w
    BY <1>5
  <2>2. CASE t.w = [w EXCEPT !.pc = "over"]
    <3>1. t.w.pc = "over" /\ t.w.word = "" /\ IsWire(t.w)
      BY <1>0, <1>5, <2>2 DEF IsWire
    <3> QED BY <1>5, <3>1
  <2>3. CASE t.w = w
    BY <1>5, <2>3
  <2> QED BY <2>1, <2>2, <2>3
<1>6. CASE w.pc = "finished" /\ u \in {"chat", "converse"} /\ t = usage
  <2>1. t.f.k = "usage" /\ t.w = [w EXCEPT !.pc = "over"]
    BY <1>6, FrameIs
  <2>2. t.w.pc = "over" /\ IsWire(t.w)
    BY <1>0, <1>6, <2>1 DEF IsWire
  <2> QED BY <1>6, <2>1, <2>2
<1> HIDE DEF begin, failed, ping, usage
<1> QED BY <1>1, <1>2, <1>3, <1>4, <1>5, <1>6, Zenon

(* The inductive invariant.  Anthropic's prompt is counted by the frame    *)
(* that starts the answer and never lost, so that the output, counted by   *)
(* the one that finishes it, makes the bill whole; the other dialects send *)
(* the bill at once.  A body that is collected is read after it is whole.  *)
StreamInv ==
    /\ pair \in Pairs /\ IsWire(wire) /\ IsAcc(acc)
    /\ pair.mode = "collect" => pc \in {"read", "done", "failed"}
    /\ (pair.mode # "collect" /\ pair.up = "anthropic" /\ wire.pc # "new") => acc.usage.in = 1
    /\ BillReachesLedger

LEMMA StreamInvInit == StreamInit => StreamInv
<1> SUFFICES ASSUME StreamInit PROVE StreamInv
  OBVIOUS
<1>1. pair \in Pairs /\ acc = Fresh /\ pc = "read"
      /\ wire = [pc |-> IF Sequential(pair.up) THEN "new" ELSE "answer", items |-> <<>>, word |-> ""]
  BY DEF StreamInit
<1>2. IsWire(wire)
  <2> DEFINE S == ItemSet
  <2>1. <<>> \in Seq(S)
    OBVIOUS
  <2> HIDE DEF S
  <2>2. wire \in [pc : {"new", "answer", "finished", "over"}, items : Seq(S), word : EndingWords \cup {""}] /\ wire.word = ""
    BY <1>1, <2>1
  <2> QED BY <2>2 DEF IsWire, S
<1>3. IsAcc(acc)
  BY <1>1, FreshIs
<1>4. pair.up = "anthropic" => wire.pc = "new"
  BY <1>1 DEF Sequential
<1>5. ~ Billed
  BY <1>1 DEF Billed
<1> QED BY <1>1, <1>2, <1>3, <1>4, <1>5 DEF StreamInv, BillReachesLedger

(* A step that leaves the answer and its account alone.                    *)
LEMMA Untouched ==
    ASSUME StreamInv, UNCHANGED <<pair, wire, acc>>, pair.mode = "collect" => pc' \in {pc, "failed"}
    PROVE  StreamInv'
BY DEF StreamInv, BillReachesLedger, Billed

LEMMA FrameIsBooked ==
    ASSUME StreamInv, ReadsFrame
    PROVE  StreamInv'
<1> DEFINE u == pair.up
<1>0. /\ pair \in Pairs /\ IsWire(wire) /\ IsAcc(acc) /\ pair.mode # "collect" /\ pair' = pair
      /\ (u = "anthropic" /\ wire.pc # "new") => acc.usage.in = 1
  BY DEF StreamInv, ReadsFrame
<1>1. u \in Upstreams
  BY <1>0 DEF Pairs
<1>2. PICK t \in NextFrames(u, wire) : wire' = t.w /\ FoldPayloads(t.f)
  BY DEF ReadsFrame
<1> DEFINE told == ParseEvent(u, t.f, acc)
           noted == Remember(u, t.f, acc)
<1>3. acc' = ObserveAll(noted, told)
  BY <1>2 DEF FoldPayloads
<1>4. IsAcc(noted) /\ noted.usage = acc.usage
  BY <1>0, RememberIs
<1>5. /\ Told(told)
      /\ u = "anthropic" /\ t.f.k = "start" => Bears(told, Prompt)
      /\ u = "anthropic" /\ t.f.k = "finish" => Bears(told, Output)
      /\ u = "responses" /\ t.f.k = "finish" => Bears(told, Bill)
      /\ u = "gemini" /\ t.f.word # "" => Bears(told, Bill)
      /\ u \in {"chat", "converse"} /\ t.f.k = "usage" => Bears(told, Bill)
  <2> HIDE DEF u
  <2> QED BY <1>0, <1>1, EventTold
<1> HIDE DEF told, noted
<1>6. /\ IsAcc(acc') /\ Covers(acc'.usage, acc.usage)
      /\ \A v : Bears(told, v) => Covers(acc'.usage, v)
  BY <1>3, <1>4, <1>5, ObservedAll
<1>7. acc'.usage \in Use /\ acc.usage \in Use
  BY <1>0, <1>6 DEF IsAcc
<1>8. acc.usage.in = 1 => acc'.usage.in = 1
  BY <1>6, <1>7 DEF Covers, Use
<1>9. /\ Bears(told, Bill) => acc'.usage = Bill
      /\ Bears(told, Prompt) => acc'.usage.in = 1
      /\ Bears(told, Output) /\ acc'.usage.in = 1 => acc'.usage = Bill
  <2> HIDE DEF Bill, Prompt, Output
  <2> QED BY <1>6, <1>7, UseIs
<1>10. /\ IsWire(wire')
       /\ \/ wire.pc = "new" /\ wire'.pc = "answer" /\ t.f.k = "start"
          \/ wire.pc \in {"new", "answer"} /\ wire'.pc = wire.pc /\ (Sequential(u) => wire.pc # "new")
          \/ /\ wire.pc = "answer" /\ wire'.pc = "finished" /\ t.f.word # ""
             /\ Sequential(u) => t.f.k = "finish"
          \/ /\ wire.pc = "finished" /\ u \in {"chat", "converse"} /\ t.f.k = "usage"
             /\ wire'.pc = "over"
          \/ wire.pc = "answer" /\ wire'.pc = "over" /\ wire'.word = ""
  <2> HIDE DEF u
  <2>1. /\ IsWire(t.w)
        /\ \/ wire.pc = "new" /\ t.w.pc = "answer" /\ t.f.k = "start"
           \/ wire.pc \in {"new", "answer"} /\ t.w.pc = wire.pc /\ (Sequential(u) => wire.pc # "new")
           \/ /\ wire.pc = "answer" /\ t.w.pc = "finished" /\ t.f.word # ""
              /\ Sequential(u) => t.f.k = "finish"
           \/ /\ wire.pc = "finished" /\ u \in {"chat", "converse"} /\ t.f.k = "usage"
              /\ t.w.pc = "over"
           \/ wire.pc = "answer" /\ t.w.pc = "over" /\ t.w.word = ""
    BY <1>0, <1>1, NextFramesIs, Zenon
  <2>2. wire' = t.w
    BY <1>2
  <2> QED BY <2>1, <2>2, Zenon
<1>11. wire'.pc \in {"new", "answer"} => wire'.word = ""
  BY <1>10 DEF IsWire
<1>12. u = "anthropic" /\ wire'.pc # "new" => acc'.usage.in = 1
  BY <1>0, <1>5, <1>8, <1>9, <1>10 DEF Sequential
<1>13. ASSUME wire'.word # "", wire'.pc = "over" \/ u \notin {"chat", "converse"} PROVE acc'.usage = Bill
  <2>1. CASE u = "anthropic"
    BY <1>5, <1>9, <1>10, <1>11, <1>12, <1>13, <2>1 DEF Sequential
  <2>2. CASE u = "responses"
    BY <1>5, <1>9, <1>10, <1>11, <1>13, <2>2 DEF Sequential
  <2>3. CASE u = "gemini"
    BY <1>5, <1>9, <1>10, <1>11, <1>13, <2>3
  <2>4. CASE u \in {"chat", "converse"}
    BY <1>5, <1>9, <1>10, <1>11, <1>13, <2>4
  <2> QED BY <1>1, <2>1, <2>2, <2>3, <2>4 DEF Upstreams
<1>14. Billed' => acc'.usage = Bill
  BY <1>0, <1>13 DEF Billed
<1> QED BY <1>0, <1>6, <1>10, <1>12, <1>14 DEF StreamInv, BillReachesLedger

LEMMA BodyIsBooked ==
    ASSUME StreamInv, BodyGrows \/ Collects
    PROVE  StreamInv'
<1>0. /\ pair \in Pairs /\ IsWire(wire) /\ IsAcc(acc) /\ pair.mode = "collect" /\ pair' = pair /\ pc = "read"
  BY DEF StreamInv, BodyGrows, Collects
<1>1. pair.up \in Upstreams
  BY <1>0 DEF Pairs
<1>2. CASE BodyGrows
  <2>1. acc' = acc /\ pc' = pc /\ \E t \in NextFrames(pair.up, wire) : wire' = t.w
    BY <1>2 DEF BodyGrows
  <2>2. IsWire(wire')
    BY <1>0, <1>1, <2>1, NextFramesIs
  <2> QED BY <1>0, <2>1, <2>2 DEF StreamInv, BillReachesLedger
<1>3. CASE Collects
  <2> DEFINE told == ReadBody(pair.up, wire.items, wire.word)
  <2>1. acc' = ObserveAll(Fresh, told) /\ pc' = "done" /\ wire' = wire
    BY <1>3 DEF Collects
  <2>2. wire.items \in Seq(ItemSet)
    BY <1>0 DEF IsWire
  <2>3. Told(told) /\ Bears(told, Bill)
    BY <1>1, <2>2, BodyBears
  <2> HIDE DEF told
  <2>4. IsAcc(acc') /\ Covers(acc'.usage, Bill)
    BY <2>1, <2>3, FreshIs, ObservedAll
  <2>5. acc'.usage = Bill
    <3>1. acc'.usage \in Use
      BY <2>4 DEF IsAcc
    <3> HIDE DEF Bill
    <3> QED BY <2>4, <3>1, UseIs
  <2> QED BY <1>0, <2>1, <2>4, <2>5 DEF StreamInv, BillReachesLedger
<1> QED BY <1>2, <1>3

LEMMA StreamInvNext == StreamInv /\ [StreamNext]_streamVars => StreamInv'
<1> SUFFICES ASSUME StreamInv, [StreamNext]_streamVars PROVE StreamInv'
  OBVIOUS
<1>0. pair.mode = "collect" => pc \in {"read", "done", "failed"}
  BY DEF StreamInv
<1> DEFINE Quietly == UNCHANGED <<pair, wire, acc>> /\ (pair.mode = "collect" => pc' \in {pc, "failed"})
<1>1. ReadsPart => Quietly
  BY DEF ReadsPart
<1>2. ReadEnds => Quietly
  BY DEF ReadEnds
<1>3. ReadFails => Quietly
  BY DEF ReadFails
<1>4. IdleTimesOut => Quietly
  BY DEF IdleTimesOut
<1>5. RunsAway => Quietly
  BY DEF RunsAway
<1>6. TimePasses => Quietly
  BY DEF TimePasses
<1>7. SendsKeepalive => Quietly
  BY DEF SendsKeepalive
<1>8. SendTaken \/ SendFails => Quietly
  BY <1>0 DEF SendTaken, SendFails
<1>9. Closes => Quietly
  BY DEF Closes
<1>10. LastTaken \/ LastFails => Quietly
  BY <1>0 DEF LastTaken, LastFails
<1>11. GatherCloses => Quietly
  BY DEF GatherCloses
<1>12. BodyFails => Quietly
  BY DEF BodyFails
<1>13. UNCHANGED streamVars => Quietly
  BY DEF streamVars
<1>14. Quietly => StreamInv'
  BY Untouched
<1> HIDE DEF Quietly
<1>15. ReadsFrame => StreamInv'
  BY FrameIsBooked
<1>16. BodyGrows \/ Collects => StreamInv'
  BY BodyIsBooked
<1> QED BY <1>1, <1>2, <1>3, <1>4, <1>5, <1>6, <1>7, <1>8, <1>9, <1>10, <1>11, <1>12, <1>13, <1>14, <1>15, <1>16
        DEF StreamNext

(* `fold_payloads` books before it forwards and the accumulator never      *)
(* lowers a count: for every pair of dialects, streamed, gathered or       *)
(* collected, and however many items and fragments the answer has, what    *)
(* the upstream billed is in the account once it has sent it, whether the  *)
(* client stayed or not.                                                   *)
THEOREM BillIsBooked == StreamSpec => []BillReachesLedger
<1>1. StreamInv => BillReachesLedger
  BY DEF StreamInv
<1> QED BY <1>1, StreamInvInit, StreamInvNext, PTL DEF StreamSpec

=============================================================================
