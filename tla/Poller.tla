------------------------------- MODULE Poller -------------------------------
(***************************************************************************)
(* The usage poller: every replica sweeps the subscription seats and the   *)
(* keys of endpoints that discover their models, claims each in Redis for  *)
(* the interval, reads its provider and writes what it read on its row.    *)
(*                                                                         *)
(* Times count down, in fifths of the interval, so a behaviour has no end. *)
(* A quota body is what the provider's JSON says, Unsaid where it is       *)
(* silent; Codex reports up to two pools and a verdict, Grok one pool.     *)
(***************************************************************************)
EXTENDS Integers, FiniteSets

CONSTANTS
    Sweepers,      \* replicas
    Codex, Grok,   \* seats, by the usage API they have
    DiscoveryKeys, \* keys of the endpoint
    XaiKeys,       \* xAI API keys: a model list, no quota and no claim
    Loaded,        \* the replicas whose reload could load the endpoint
    Enrolments,    \* the sets of accounts a deployment may have
    CodexBodies, GrokBodies,   \* what the usage APIs may answer
    ModelLists,    \* what the endpoint's model list may be, a set of entries [named, callable]
    Interval,      \* usage_poll_interval, a multiple of five
    SweepTime      \* bound: how long a sweep may take


VARIABLES
    pollClaim,    \* what is left of the claim on each account, and whose it was
    sweep,        \* [pc, left, todo, on, read] of each replica
    quota,        \* [remaining, resets] on each seat's row; benched: rate_limited_until was set from it
    enrolled,     \* the accounts that are schedulable
    served,       \* served_models of each account: unset, none or some
    discovers,    \* discover_models of the endpoint
    unasked,      \* ghost: how long since each account was asked, or could not have been
    unforgotten,  \* ghost: how long discovery has been off, with no failure to forget
    recorded,     \* ghost: the body last recorded of each seat
    turnedAway    \* ghost: replicas that found their own claim still standing
pollVars == <<enrolled, pollClaim, sweep, quota, served, discovers, unasked, unforgotten, recorded, turnedAway>>

QuotaSeats == Codex \cup Grok
Claimable == QuotaSeats \cup DiscoveryKeys
Asked == Claimable \cup XaiKeys
Unsaid == -1
NoReading == [remaining |-> Unsaid, resets |-> Unsaid]
NoBody == [kind |-> "none"]
NoClaim == [left |-> 0, by |-> "nobody"]

(* The kinds of account are apart, and a figure is absent or a number.     *)
Figure == Nat \cup {Unsaid}
ASSUME PollerAssumption ==
    /\ Interval \in Nat \ {0} /\ Interval % 5 = 0 /\ SweepTime \in Nat
    /\ Sweepers # {} /\ Loaded \subseteq Sweepers
    /\ Codex \cap Grok = {} /\ QuotaSeats \cap DiscoveryKeys = {} /\ XaiKeys \cap Claimable = {}
    /\ \A body \in CodexBodies : \A pool \in {body.primary, body.secondary} : pool.used \in Figure /\ pool.resets \in Figure
    /\ \A body \in GrokBodies : body.used \in Figure /\ body.resets \in Figure

-----------------------------------------------------------------------------
(* jittered and claim_hold.                                                *)
Shortest == (Interval * 4) \div 5
Longest == (Interval * 6) \div 5
ClaimHold == Shortest

(* codex::parse: the first of the scarcest pools; a seat the backend       *)
(* refuses has nothing left, whatever the meters say.                      *)
Exhausted(body) == body.allowed = "no"
Clamped(used) == IF used > 100 THEN 100 ELSE used
PoolOf(body, pool, used) ==
    [remaining |-> IF Exhausted(body) THEN 0 ELSE 100 - Clamped(used), resets |-> pool.resets]
UsedAsZero(body, pool) == IF pool.used = Unsaid THEN 0 ELSE pool.used
Used100(body, pool) == IF pool.used = Unsaid /\ Exhausted(body) THEN 100 ELSE pool.used
PoolReading(body, pool) ==
    IF ~ pool.there \/ Used100(body, pool) = Unsaid THEN NoReading
    ELSE PoolOf(body, pool, Used100(body, pool))
ParseCodex(body) ==
    LET first == PoolReading(body, body.primary)
        second == PoolReading(body, body.secondary)
    IN IF first = NoReading THEN second
       ELSE IF second = NoReading THEN first
       ELSE IF second.remaining < first.remaining THEN second ELSE first

(* grok::parse: only a weekly pool; a percentage left out is a zero.       *)
ParseGrok(body) ==
    IF ~ body.weekly THEN NoReading
    ELSE [remaining |-> 100 - Clamped(IF body.used = Unsaid THEN 0 ELSE body.used), resets |-> body.resets]

(* endpoint_for: the usage API of a seat, and none for any other.          *)
Reading(a, body) == IF a \in Codex THEN ParseCodex(body) ELSE ParseGrok(body)
BodiesOf(a) == IF a \in Codex THEN CodexBodies ELSE GrokBodies

-----------------------------------------------------------------------------
(* One replica's sweep.                                                    *)
Asleep(left) == [pc |-> "asleep", left |-> left, todo |-> {}, on |-> "", read |-> NoBody]
SweepAt(r, pc) == sweep[r].pc = pc
SweepGoes(r, pc) == sweep' = [sweep EXCEPT ![r].pc = pc]
Onward(r, a, pc) == sweep' = [sweep EXCEPT ![r].pc = pc, ![r].todo = @ \ {a}, ![r].on = "", ![r].read = NoBody]
SweepsOver(r) == \E wait \in Shortest..Longest : sweep' = [sweep EXCEPT ![r] = Asleep(wait)]

(* schedulable_oauth_accounts, as far as they have a usage API.            *)
SchedulableSeats == QuotaSeats \cap enrolled

WakesToSweep(r) ==
    /\ SweepAt(r, "asleep") /\ sweep[r].left = 0
    /\ \/ sweep' = [sweep EXCEPT ![r].pc = "seats", ![r].left = SweepTime, ![r].todo = SchedulableSeats]
          /\ UNCHANGED <<unasked, unforgotten>>
       \/ SweepsOver(r) /\ unasked' = [a \in Claimable |-> 0] /\ unforgotten' = 0
    /\ UNCHANGED <<pollClaim, quota, served, discovers, recorded, turnedAway>>

(* claim_usage_poll: SET NX PX, never released; without Redis the account  *)
(* is passed over.                                                         *)
Claimed(r, a, pc) ==
    /\ pollClaim[a].left = 0
    /\ pollClaim' = [pollClaim EXCEPT ![a] = [left |-> ClaimHold, by |-> r]]
    /\ sweep' = [sweep EXCEPT ![r].pc = pc, ![r].on = a]
    /\ UNCHANGED <<unasked, turnedAway>>
TurnedAway(r, a, pc) ==
    /\ pollClaim[a].left > 0 /\ Onward(r, a, pc)
    /\ turnedAway' = IF pollClaim[a].by = r THEN turnedAway \cup {r} ELSE turnedAway
    /\ UNCHANGED <<pollClaim, unasked>>
RedisSilent(r, a, pc) ==
    /\ Onward(r, a, pc) /\ unasked' = [unasked EXCEPT ![a] = 0]
    /\ UNCHANGED <<pollClaim, turnedAway>>

SweepSeat(r, a) ==
    /\ SweepAt(r, "seats") /\ a \in sweep[r].todo
    /\ Claimed(r, a, "quota") \/ TurnedAway(r, a, "seats") \/ RedisSilent(r, a, "seats")
    /\ UNCHANGED <<quota, served, discovers, unforgotten, recorded>>

(* A seat that cannot be refreshed is left; a body without a reading, or   *)
(* no body, leaves the columns as they were.                               *)
SeatStale(r) ==
    /\ SweepAt(r, "quota") /\ Onward(r, sweep[r].on, "seats")
    /\ unasked' = [unasked EXCEPT ![sweep[r].on] = 0]
    /\ UNCHANGED <<pollClaim, quota, served, discovers, unforgotten, recorded, turnedAway>>
QuotaRead(r) ==
    /\ SweepAt(r, "quota")
    /\ \E body \in BodiesOf(sweep[r].on) \cup {NoBody} :
          LET known == body # NoBody /\ (body # NoBody => Reading(sweep[r].on, body) # NoReading)
          IN sweep' = [sweep EXCEPT ![r].pc = IF known THEN "record" ELSE "models", ![r].read = body]
    /\ unasked' = [unasked EXCEPT ![sweep[r].on] = 0]
    /\ UNCHANGED <<pollClaim, quota, served, discovers, unforgotten, recorded, turnedAway>>

(* record_usage_poll: a reset the provider did not say leaves the old one; *)
(* when the write fails nothing more is done for the seat.                 *)
ToldQuota(seat, reading) ==
    [remaining |-> reading.remaining, resets |-> IF reading.resets = Unsaid THEN quota[seat].resets ELSE reading.resets,
     benched |-> quota[seat].benched]
RecordsQuota(r) ==
    LET seat == sweep[r].on
        reading == Reading(seat, sweep[r].read)
    IN /\ SweepAt(r, "record")
       /\ quota' = [quota EXCEPT ![seat] = ToldQuota(seat, reading)]
       /\ recorded' = [recorded EXCEPT ![seat] = sweep[r].read]
       /\ SweepGoes(r, IF reading.remaining <= 0 /\ reading.resets # Unsaid THEN "bench" ELSE "models")
       /\ UNCHANGED <<pollClaim, served, discovers, unasked, unforgotten, turnedAway>>
RecordFails(r) ==
    /\ SweepAt(r, "record") /\ Onward(r, sweep[r].on, "seats")
    /\ UNCHANGED <<pollClaim, quota, served, discovers, unasked, unforgotten, recorded, turnedAway>>
BenchesSeat(r) ==
    /\ SweepAt(r, "bench")
    /\ quota' = [quota EXCEPT ![sweep[r].on].benched = Reading(sweep[r].on, sweep[r].read).resets]
    /\ SweepGoes(r, "models")
    /\ UNCHANGED <<pollClaim, served, discovers, unasked, unforgotten, recorded, turnedAway>>

(* A model list is what each entry is: named, and callable (or, of xAI's,  *)
(* a chat model). An endpoint's list may be empty, or have no callable     *)
(* entry, and then its key serves nothing; one that names no model is      *)
(* unreadable. A seat whose list has nothing in it was not understood.     *)
Named(list) == {entry \in list : entry.named}
CallableOn(list) == {entry \in Named(list) : entry.callable}
PageIds(list) == IF list # {} /\ Named(list) = {} THEN "unreadable" ELSE IF CallableOn(list) = {} THEN "none" ELSE "some"
ParseServed(list) == IF Named(list) = {} THEN "unreadable" ELSE "some"
ChatListing(list) == IF CallableOn(list) = {} THEN "unreadable" ELSE "some"

(* served_models of the account's adapter; "unreadable" is an error.       *)
ListAnswers(a) ==
    {CASE a \in DiscoveryKeys -> PageIds(list) [] a \in Codex -> ParseServed(list) [] OTHER -> ChatListing(list)
        : list \in ModelLists} \ {"unreadable"}

(* discover_served: an answer is the whole set, no answer leaves it.       *)
SetServed(a) ==
    \/ \E answer \in ListAnswers(a) : served' = [served EXCEPT ![a] = answer]
    \/ UNCHANGED served
AsksModels(r) ==
    LET a == sweep[r].on
    IN /\ SweepAt(r, "models") /\ SetServed(a)
       /\ Onward(r, a, IF a \in QuotaSeats THEN "seats" ELSE "keys")
       /\ unasked' = [unasked EXCEPT ![a] = 0]
       /\ UNCHANGED <<pollClaim, quota, discovers, unforgotten, recorded, turnedAway>>

(* sweep_endpoint_keys: forgotten first, by every sweep, then asked.       *)
SeatsSwept(r) ==
    /\ SweepAt(r, "seats") /\ sweep[r].todo = {} /\ SweepGoes(r, "forget")
    /\ UNCHANGED <<pollClaim, quota, served, discovers, unasked, unforgotten, recorded, turnedAway>>
ForgetsUndiscovered(r) ==
    /\ SweepAt(r, "forget") /\ SweepGoes(r, "load")
    /\ \/ /\ served' = [a \in Asked |-> IF a \in DiscoveryKeys /\ ~ discovers THEN "unset" ELSE served[a]]
          /\ UNCHANGED unforgotten
       \/ UNCHANGED served /\ unforgotten' = 0
    /\ UNCHANGED <<pollClaim, quota, discovers, unasked, recorded, turnedAway>>
LoadsKeys(r) ==
    /\ SweepAt(r, "load")
    /\ \/ /\ sweep' = [sweep EXCEPT ![r].pc = "keys", ![r].todo = IF discovers THEN DiscoveryKeys \cap enrolled ELSE {}]
          /\ UNCHANGED unasked
       \/ /\ sweep' = [sweep EXCEPT ![r].pc = "keys", ![r].todo = {}]
          /\ unasked' = [a \in Claimable |-> IF a \in DiscoveryKeys THEN 0 ELSE unasked[a]]
    /\ UNCHANGED <<pollClaim, quota, served, discovers, unforgotten, recorded, turnedAway>>

(* A replica without the endpoint takes no claim.                          *)
MayAsk(r) == r \in Loaded
SweepKey(r, a) ==
    /\ SweepAt(r, "keys") /\ a \in sweep[r].todo
    /\ IF ~ MayAsk(r) THEN Onward(r, a, "keys") /\ UNCHANGED <<pollClaim, unasked, turnedAway>>
       ELSE Claimed(r, a, "key") \/ TurnedAway(r, a, "keys") \/ RedisSilent(r, a, "keys")
    /\ UNCHANGED <<quota, served, discovers, unforgotten, recorded>>
KeyAsked(r) ==
    /\ SweepAt(r, "key")
    /\ IF r \in Loaded THEN SweepGoes(r, "models") ELSE Onward(r, sweep[r].on, "keys")
    /\ UNCHANGED <<pollClaim, quota, served, discovers, unasked, unforgotten, recorded, turnedAway>>

(* The API keys of xAI last: every replica asks every one of them.         *)
LoadsXaiKeys(r) ==
    /\ SweepAt(r, "keys") /\ sweep[r].todo = {}
    /\ \E rows \in {XaiKeys \cap enrolled, {}} : sweep' = [sweep EXCEPT ![r].pc = "xai", ![r].todo = rows]
    /\ UNCHANGED <<pollClaim, quota, served, discovers, unasked, unforgotten, recorded, turnedAway>>
AsksXaiKey(r, a) ==
    /\ SweepAt(r, "xai") /\ a \in sweep[r].todo /\ Onward(r, a, "xai") /\ SetServed(a)
    /\ UNCHANGED <<pollClaim, quota, discovers, unasked, unforgotten, recorded, turnedAway>>
SweepEnds(r) ==
    /\ SweepAt(r, "xai") /\ sweep[r].todo = {} /\ SweepsOver(r)
    /\ UNCHANGED <<pollClaim, quota, served, discovers, unasked, unforgotten, recorded, turnedAway>>

-----------------------------------------------------------------------------
OperatorTurns ==
    /\ DiscoveryKeys \cap enrolled # {}
    /\ discovers' = ~ discovers /\ unforgotten' = 0
    /\ unasked' = [a \in Claimable |-> IF a \in DiscoveryKeys THEN 0 ELSE unasked[a]]
    /\ UNCHANGED <<pollClaim, sweep, quota, served, recorded, turnedAway>>

(* Time: a sleeper that is due wakes, and no sweep outlasts its bound.     *)
Slack == Longest + 2 * SweepTime
Older(n) == IF n > Shortest + Slack THEN n ELSE n + 1
PollTick ==
    /\ \A r \in Sweepers : sweep[r].left > 0
    /\ sweep' = [r \in Sweepers |-> [sweep[r] EXCEPT !.left = @ - 1]]
    /\ pollClaim' = [a \in Claimable |->
           IF pollClaim[a].left = 0 THEN pollClaim[a] ELSE [pollClaim[a] EXCEPT !.left = @ - 1]]
    /\ unasked' = [a \in Claimable |-> IF a \notin enrolled \/ (a \in DiscoveryKeys /\ ~ discovers) THEN 0 ELSE Older(unasked[a])]
    /\ unforgotten' = IF discovers THEN 0 ELSE Older(unforgotten)
    /\ UNCHANGED <<quota, served, discovers, recorded, turnedAway>>

PollInit ==
    /\ enrolled \in Enrolments
    /\ pollClaim = [a \in Claimable |-> NoClaim]
    /\ sweep = [r \in Sweepers |-> Asleep(0)]
    /\ quota = [a \in QuotaSeats |-> [remaining |-> Unsaid, resets |-> Unsaid, benched |-> Unsaid]]
    /\ served = [a \in Asked |-> "unset"] /\ discovers = TRUE
    /\ unasked = [a \in Claimable |-> 0] /\ unforgotten = 0
    /\ recorded = [a \in QuotaSeats |-> NoBody] /\ turnedAway = {}
SweepStep(r) ==
    \/ WakesToSweep(r) \/ (\E a \in QuotaSeats : SweepSeat(r, a)) \/ SeatStale(r) \/ QuotaRead(r)
    \/ RecordsQuota(r) \/ RecordFails(r) \/ BenchesSeat(r) \/ AsksModels(r) \/ SeatsSwept(r)
    \/ ForgetsUndiscovered(r) \/ LoadsKeys(r) \/ (\E a \in DiscoveryKeys : SweepKey(r, a)) \/ KeyAsked(r)
    \/ LoadsXaiKeys(r) \/ (\E a \in XaiKeys : AsksXaiKey(r, a)) \/ SweepEnds(r)
PollNext ==
    /\ OperatorTurns \/ PollTick \/ \E r \in Sweepers : SweepStep(r)
    /\ UNCHANGED enrolled
PollSpec == PollInit /\ [][PollNext]_pollVars

-----------------------------------------------------------------------------
(* What a body says is left, stated without the parser: nothing when the   *)
(* provider refuses the seat, else the rest of each pool it put a figure   *)
(* on, and no less than nothing; Grok leaves a zero out.                   *)
RestOf(used) == IF used < 100 THEN 100 - used ELSE 0
SaidLeft(a, body) ==
    IF a \in Grok THEN {RestOf(IF body.used = Unsaid THEN 0 ELSE body.used)}
    ELSE IF Exhausted(body) THEN {0}
    ELSE {RestOf(pool.used) : pool \in {p \in {body.primary, body.secondary} : p.there /\ p.used # Unsaid}}

(* A seat's quota is what its provider last said of it, and unknown until  *)
(* it said something: a read that failed, or that could not be understood, *)
(* makes no seat look full, none look empty, and no seat's models vanish.  *)
QuotaIsHonest ==
    \A a \in QuotaSeats :
       /\ IF recorded[a] = NoBody THEN quota[a].remaining = Unsaid /\ quota[a].benched = Unsaid
          ELSE
            /\ quota[a].remaining \in SaidLeft(a, recorded[a])
            /\ \A left \in SaidLeft(a, recorded[a]) : quota[a].remaining <= left
       /\ served[a] # "none"

(* However the sweeps of the replicas drift against each other, every seat *)
(* and every key is asked in time: no replica is turned away by the claim  *)
(* of its own last sweep, and none that cannot ask keeps the others from   *)
(* asking.                                                                 *)
AskedInTime ==
    /\ turnedAway = {}
    /\ \A a \in Claimable : Loaded # {} \/ a \in QuotaSeats => unasked[a] <= Shortest + Slack

(* Discovery turned off is forgotten by the next sweep of any replica, the *)
(* answer of one that was still asking included.                           *)
UndiscoveredForgotten ==
    \A a \in DiscoveryKeys : served[a] # "unset" /\ ~ discovers => unforgotten <= Slack

(* What is shown of a seat is what its provider said, and it is asked, or  *)
(* forgotten, in time.                                                     *)
PollsHold == QuotaIsHonest /\ AskedInTime /\ UndiscoveredForgotten
=============================================================================
