------------------------------- MODULE Slots -------------------------------
(***************************************************************************)
(* The concurrency slots of one credential: the sorted set Redis keeps for *)
(* it (the scripts of oag-store/src/cache.rs), the SlotGuard a lease holds *)
(* with its release, its drop and its heartbeat (gateway/select.rs), the   *)
(* background sweep (slots.rs) and an operator's clear.                    *)
(*                                                                         *)
(* A script runs atomically in Redis; an operation that reaches Redis may  *)
(* also fail, and a failed claim fails open. A replica may crash and leave *)
(* its members behind.                                                     *)
(*                                                                         *)
(* One tick is SLOT_HEARTBEAT. A slot operation has a deadline of two      *)
(* seconds, so none is in flight across a whole tick; a command whose      *)
(* caller gave up is taken to be lost. Scores are kept as ages, which stop *)
(* at TTL: from there on every script treats the member as dead. The key's *)
(* own EXPIRE of twice the TTL only removes what a trim would.             *)
(***************************************************************************)
EXTENDS Naturals, FiniteSets

CONSTANTS
    Requests,   \* request ids, which are the members of the sorted set
    Replicas,   \* the partition of Requests by the replica that serves them
    Limit,      \* the credential's max_concurrency
    TTL,        \* SLOT_TTL, in heartbeats
    MaxMissed,  \* beats a live member has to survive missing (two)
    MaxLeases   \* leases one request may take on a credential: a climb, 1 + MAX_ESCALATIONS

ASSUME SlotsAssumption ==
    /\ IsFiniteSet(Requests)
    /\ UNION Replicas = Requests
    /\ Limit \in Nat
    /\ TTL \in Nat
    /\ MaxMissed \in Nat
    /\ MaxLeases \in Nat \ {0}
    /\ MaxMissed + 1 < TTL  \* the const assertion beside SLOT_TTL

VARIABLES
    members,  \* the sorted set's members
    age,      \* ticks since each member's score was written, at most TTL
    lease,    \* where each request's lease is
    leases,   \* how many leases the request has taken on this credential
    beat,     \* the heartbeat task of the current lease
    stray,    \* a heartbeat caught mid-beat by the release of its lease
    missed,   \* consecutive beats that did not reach Redis
    zrem,     \* requests whose release task has its ZREM in flight
    leaked,   \* leases parked in a task that will never finish
    excused   \* leases admitted or continued without a seat, knowingly

redis == <<members, age>>
vars == <<members, age, lease, leases, beat, stray, missed, zrem, leaked, excused>>

(* none: no such request here; held: running; releasing: in Lease::release;*)
(* released: between two rungs of the same request; over: done with, and   *)
(* the id is used again only once nothing of it is left.                   *)
LeaseStates == {"none", "held", "releasing", "released", "over"}
BeatStates == {"off", "waiting", "due", "sent", "lost"}

Held(r) == lease[r] = "held"

Init ==
    /\ members = {}
    /\ age = [r \in Requests |-> 0]
    /\ lease = [r \in Requests |-> "none"]
    /\ leases = [r \in Requests |-> 0]
    /\ beat = [r \in Requests |-> "off"]
    /\ stray = [r \in Requests |-> "off"]
    /\ missed = [r \in Requests |-> 0]
    /\ zrem = {}
    /\ leaked = {}
    /\ excused = {}

Set(f, r, v) == [f EXCEPT ![r] = v]

-----------------------------------------------------------------------------
(* The scripts. Each leaves the members it keeps with the ages they had.   *)

Expired == {r \in members : age[r] >= TTL}

Trimmed == members \ Expired

Becomes(s) ==
    /\ members' = s
    /\ age' = [r \in Requests |-> IF r \in s THEN age[r] ELSE 0]

\* Admits one more than the limit.
AcquirePastLimit(r) ==
    /\ Cardinality(Trimmed) <= Limit
    /\ members' = Trimmed \cup {r}
    /\ age' = [q \in Requests |-> IF q \in Trimmed \ {r} THEN age[q] ELSE 0]

ACQUIRE_SLOT_Taken(r) ==
    /\ Cardinality(Trimmed) < Limit
    /\ members' = Trimmed \cup {r}
    /\ age' = [q \in Requests |-> IF q \in Trimmed \ {r} THEN age[q] ELSE 0]

ACQUIRE_SLOT_Full ==
    /\ Cardinality(Trimmed) >= Limit
    /\ Becomes(Trimmed)

\* Counts without trimming.
CountOnly == UNCHANGED redis

SLOTS_IN_USE == Becomes(Trimmed)

CLEAR_SLOTS == Becomes({})

REFRESH_SLOT_Kept(r) ==
    /\ r \in members
    /\ age' = [age EXCEPT ![r] = 0]
    /\ UNCHANGED members

ZREM(r) == Becomes(members \ {r})

-----------------------------------------------------------------------------
(* Taking a lease.                                                         *)

(* A new request, or the next rung of one whose first lease was released.  *)
MayClaim(r) ==
    \/ lease[r] = "none"
    \/ lease[r] = "released" /\ leases[r] < MaxLeases

(* leased: the guard and its heartbeat, whose first tick is immediate and  *)
(* does nothing.                                                           *)
Leased(r) ==
    /\ lease' = Set(lease, r, "held")
    /\ leases' = [leases EXCEPT ![r] = @ + 1]
    /\ beat' = Set(beat, r, "waiting")
    /\ missed' = Set(missed, r, 0)
    /\ UNCHANGED <<stray, zrem, leaked>>

ClaimTaken(r) ==
    /\ MayClaim(r)
    /\ ACQUIRE_SLOT_Taken(r)
    /\ Leased(r)
    /\ excused' = excused \ {r}

ClaimFull(r) ==
    /\ MayClaim(r)
    /\ ACQUIRE_SLOT_Full
    /\ lease' = Set(lease, r, "over")
    /\ UNCHANGED <<leases, beat, stray, missed, zrem, leaked, excused>>

(* Redis did not answer: the request runs without a seat, unless the       *)
(* script had run and only its answer was lost.                            *)
ClaimFailsOpen(r) ==
    /\ MayClaim(r)
    /\ ACQUIRE_SLOT_Taken(r) \/ ACQUIRE_SLOT_Full \/ UNCHANGED redis
    /\ Leased(r)
    /\ excused' = excused \cup {r}

(* The client hangs up after the script ran and before the guard was made. *)
ClaimAbandoned(r) ==
    /\ MayClaim(r)
    /\ ACQUIRE_SLOT_Taken(r)
    /\ lease' = Set(lease, r, "over")
    /\ UNCHANGED <<leases, beat, stray, missed, zrem, leaked, excused>>

-----------------------------------------------------------------------------
(* Giving it back.                                                         *)

(* A beat in flight when the lease is released goes on by itself.          *)
Detach(r) ==
    /\ stray' = Set(stray, r, IF beat[r] \in {"sent", "lost"} THEN beat[r] ELSE "off")
    /\ beat' = Set(beat, r, "off")

(* Lease::release: claimed by the released flag, run as its own task.      *)
Release(r) ==
    /\ Held(r) /\ r \notin leaked
    /\ lease' = Set(lease, r, "releasing")
    /\ zrem' = zrem \cup {r}
    /\ Detach(r)
    /\ UNCHANGED <<redis, leases, missed, leaked, excused>>

(* The caller waits for the task, whose operation has the shorter deadline.*)
ReleaseReturns(r) ==
    /\ lease[r] = "releasing"
    /\ r \notin zrem
    /\ lease' = Set(lease, r, "released")
    /\ UNCHANGED <<redis, leases, beat, stray, missed, zrem, leaked, excused>>

(* The last clone is dropped with no release. A beat in flight holds a     *)
(* strong reference, so the drop comes after it.                           *)
DropLease(r) ==
    /\ Held(r) /\ r \notin leaked
    /\ beat[r] \notin {"sent", "lost"}
    /\ lease' = Set(lease, r, "over")
    /\ zrem' = zrem \cup {r}
    /\ beat' = Set(beat, r, "off")
    /\ UNCHANGED <<redis, leases, stray, missed, leaked, excused>>

ReleaseLands(r) ==
    /\ r \in zrem
    /\ ZREM(r)
    /\ zrem' = zrem \ {r}
    /\ UNCHANGED <<lease, leases, beat, stray, missed, leaked, excused>>

ReleaseFails(r) ==
    /\ r \in zrem
    /\ zrem' = zrem \ {r}
    /\ UNCHANGED <<redis, lease, leases, beat, stray, missed, leaked, excused>>

(* The request is done, answered or abandoned by its client.               *)
Finish(r) ==
    /\ lease[r] \in {"releasing", "released"}
    /\ lease' = Set(lease, r, "over")
    /\ UNCHANGED <<redis, leases, beat, stray, missed, zrem, leaked, excused>>

(* A clone of the lease outlives its request.                              *)
Leak(r) ==
    /\ Held(r)
    /\ leaked' = leaked \cup {r}
    /\ UNCHANGED <<redis, lease, leases, beat, stray, missed, zrem, excused>>

(* Nothing of the request is left anywhere: its id stands for a new one.   *)
Forget(r) ==
    /\ lease[r] = "over"
    /\ r \notin members /\ r \notin zrem /\ stray[r] = "off"
    /\ lease' = Set(lease, r, "none")
    /\ leases' = Set(leases, r, 0)
    /\ missed' = Set(missed, r, 0)
    /\ excused' = excused \ {r}
    /\ UNCHANGED <<redis, beat, stray, zrem, leaked>>

-----------------------------------------------------------------------------
(* The heartbeat.                                                          *)

BeatSends(r) ==
    /\ beat[r] = "due"
    /\ beat' = Set(beat, r, "sent")
    /\ UNCHANGED <<redis, lease, leases, stray, missed, zrem, leaked, excused>>

(* Past heartbeat_lifetime, which no request that still runs reaches.      *)
BeatStops(r) ==
    /\ beat[r] = "due"
    /\ r \in leaked
    /\ beat' = Set(beat, r, "off")
    /\ UNCHANGED <<redis, lease, leases, stray, missed, zrem, leaked, excused>>

BeatLands(r) ==
    /\ beat[r] = "sent"
    /\ REFRESH_SLOT_Kept(r)
    /\ beat' = Set(beat, r, "waiting")
    /\ missed' = Set(missed, r, 0)
    /\ excused' = excused \ {r}
    /\ UNCHANGED <<lease, leases, stray, zrem, leaked>>

(* The refresh could not be made: unknown, not lost.                       *)
BeatFails(r) ==
    /\ beat[r] = "sent"
    /\ beat' = Set(beat, r, "waiting")
    /\ IF missed[r] < MaxMissed
       THEN /\ missed' = [missed EXCEPT ![r] = @ + 1]
            /\ UNCHANGED excused
       ELSE /\ excused' = excused \cup {r}
            /\ UNCHANGED missed
    /\ UNCHANGED <<redis, lease, leases, stray, zrem, leaked>>

BeatFindsItGone(r) ==
    /\ beat[r] = "sent"
    /\ r \notin members
    /\ beat' = Set(beat, r, "lost")
    /\ UNCHANGED <<redis, lease, leases, stray, missed, zrem, leaked, excused>>

(* The seat is taken back under the limit, or the request goes on unseated.*)
BeatReacquires(r) ==
    /\ beat[r] = "lost"
    /\ ACQUIRE_SLOT_Taken(r)
    /\ beat' = Set(beat, r, "waiting")
    /\ missed' = Set(missed, r, 0)
    /\ excused' = excused \ {r}
    /\ UNCHANGED <<lease, leases, stray, zrem, leaked>>

BeatOversubscribed(r) ==
    /\ beat[r] = "lost"
    /\ ACQUIRE_SLOT_Full \/ UNCHANGED redis
    /\ beat' = Set(beat, r, "waiting")
    /\ UNCHANGED <<lease, leases, stray, missed, zrem, leaked, excused>>

(* The same beat after its lease was released: it looked at the released   *)
(* flag when it fired and does not look again.                             *)
StrayBeat(r) ==
    /\ \/ /\ stray[r] = "sent"
          /\ \/ REFRESH_SLOT_Kept(r) /\ stray' = Set(stray, r, "off")
             \/ r \notin members /\ UNCHANGED redis /\ stray' = Set(stray, r, "lost")
             \/ UNCHANGED redis /\ stray' = Set(stray, r, "off")
       \/ /\ stray[r] = "lost"
          /\ ACQUIRE_SLOT_Taken(r) \/ ACQUIRE_SLOT_Full \/ UNCHANGED redis
          /\ stray' = Set(stray, r, "off")
    /\ UNCHANGED <<lease, leases, beat, missed, zrem, leaked, excused>>

-----------------------------------------------------------------------------
(* Everybody else.                                                         *)

(* sweep_once, and the count of every candidate pass.                      *)
Sweep ==
    /\ SLOTS_IN_USE
    /\ UNCHANGED <<lease, leases, beat, stray, missed, zrem, leaked, excused>>

(* An operator clears the key; the requests still running know nothing.    *)
AdminClear ==
    /\ CLEAR_SLOTS
    /\ excused' = excused \cup {r \in Requests : Held(r)}
    /\ UNCHANGED <<lease, leases, beat, stray, missed, zrem, leaked>>

(* A replica dies: no drop runs, and its members stay in Redis.            *)
Crash(P) ==
    /\ lease' = [r \in Requests |->
                   IF r \in P /\ lease[r] # "none" THEN "over" ELSE lease[r]]
    /\ beat' = [r \in Requests |-> IF r \in P THEN "off" ELSE beat[r]]
    /\ stray' = [r \in Requests |-> IF r \in P THEN "off" ELSE stray[r]]
    /\ zrem' = zrem \ P
    /\ leaked' = leaked \ P
    /\ UNCHANGED <<redis, leases, missed, excused>>

(* One heartbeat interval passes. Every beat that was due has been made,   *)
(* and no slot operation lasts this long.                                  *)
Tick ==
    /\ zrem = {}
    /\ \A r \in Requests : beat[r] \in {"off", "waiting"} /\ stray[r] = "off"
    /\ age' = [r \in Requests |->
                 IF r \in members /\ age[r] < TTL THEN age[r] + 1 ELSE age[r]]
    /\ beat' = [r \in Requests |-> IF beat[r] = "waiting" THEN "due" ELSE beat[r]]
    /\ UNCHANGED <<members, lease, leases, stray, missed, zrem, leaked, excused>>

Next ==
    \/ \E r \in Requests :
          \/ ClaimTaken(r)    \/ ClaimFull(r)       \/ ClaimFailsOpen(r)
          \/ Release(r)       \/ ReleaseReturns(r)  \/ DropLease(r)
          \/ ReleaseLands(r)  \/ ReleaseFails(r)    \/ Finish(r)
          \/ Leak(r)          \/ Forget(r)          \/ ClaimAbandoned(r)
          \/ BeatSends(r)     \/ BeatStops(r)       \/ BeatLands(r)
          \/ BeatFails(r)     \/ BeatFindsItGone(r) \/ BeatReacquires(r)
          \/ BeatOversubscribed(r)                  \/ StrayBeat(r)
    \/ \E P \in Replicas : Crash(P)
    \/ Sweep \/ AdminClear \/ Tick

(* Tasks that were started are run and operations end one way or another,  *)
(* the sweep keeps its interval, and a leaked lease's heartbeat reaches    *)
(* its lifetime. Time passes however busy the replicas are. Nothing        *)
(* obliges a request to arrive, a lease to end or an operator to act.      *)
Fairness ==
    /\ \A r \in Requests :
         /\ WF_vars(ReleaseLands(r) \/ ReleaseFails(r))
         /\ WF_vars(BeatSends(r) \/ BeatStops(r))
         /\ SF_vars(BeatStops(r))
         /\ WF_vars(BeatLands(r) \/ BeatFails(r) \/ BeatFindsItGone(r))
         /\ WF_vars(BeatReacquires(r) \/ BeatOversubscribed(r))
         /\ WF_vars(StrayBeat(r))
    /\ WF_vars(Sweep)
    /\ SF_vars(Tick)

Spec == Init /\ [][Next]_vars /\ Fairness

-----------------------------------------------------------------------------
(* The type of the state; a request climbs at most MAX_ESCALATIONS times.  *)
TypeOK ==
    /\ members \subseteq Requests
    /\ age \in [Requests -> 0..TTL]
    /\ lease \in [Requests -> LeaseStates]
    /\ leases \in [Requests -> 0..MaxLeases]
    /\ beat \in [Requests -> BeatStates]
    /\ stray \in [Requests -> {"off", "sent", "lost"}]
    /\ missed \in [Requests -> 0..MaxMissed]
    /\ zrem \subseteq Requests
    /\ leaked \subseteq Requests
    /\ excused \subseteq Requests

(* A lease that is seated, running and has not knowingly lost its seat.    *)
Seated(r) == Held(r) /\ r \notin leaked /\ r \notin excused

(* A running lease keeps its seat through MaxMissed missed beats and a     *)
(* slow next one: no acquire, count or sweep of another replica trims it,  *)
(* and no late release of an earlier lease of the same request takes it.   *)
SeatHolds == \A r \in Requests : Seated(r) => r \in members /\ age[r] < TTL

(* The credential never carries more seated requests than its limit.       *)
WithinLimit == Cardinality({r \in Requests : Seated(r)}) <= Limit

(* No ZREM is in flight for the id of a running lease, so the seat a climb *)
(* takes back cannot be removed by the release of the rung below.          *)
OwnReleaseSpares == \A r \in zrem : ~Held(r)

(* A seat nobody uses: its request is gone or its lease leaked.            *)
Stranded(r) == r \in members /\ (lease[r] \in {"none", "over"} \/ r \in leaked)

(* Every stranded seat comes free, whatever stranded it: a crash, a failed *)
(* release, a beat that came after the release, or a leaked lease.         *)
StrandedSeatsFree == \A r \in Requests : Stranded(r) ~> ~Stranded(r)

(* Seats are safe: typed, held as long as their lease runs, never more     *)
(* than the limit, and never taken away by their own earlier release       *)
(* (gateway/select.rs SlotGuard over the scripts of cache.rs).             *)
SlotsSafe == TypeOK /\ SeatHolds /\ WithinLimit /\ OwnReleaseSpares

=============================================================================
