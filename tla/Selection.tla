----------------------------- MODULE Selection -----------------------------
(***************************************************************************)
(* Choosing a credential: lease (gateway/select.rs) over the cascade of    *)
(* oag-pool's schedule.rs, the conversation's pin and the slot counts in   *)
(* Redis, and the rows of repo::candidates.                                *)
(*                                                                         *)
(* The credentials are those of one route and one provider. A search reads *)
(* the rows and the clock once, and the breakers, the pin and the counts   *)
(* as it goes, one await at a time, while the rest of the fleet takes and  *)
(* gives back slots. Module Slots has what keeps a slot; here a slot is    *)
(* taken in one step and held until the request is over.                   *)
(***************************************************************************)
EXTENDS Integers, FiniteSets

CONSTANTS
    Requests,
    Accounts,
    Sessions,
    SessionOf,   \* the conversation of each request, which is one principal's
    PrincipalOf, \* the principal of each conversation
    Principals,
    Kind,        \* account.kind
    Limit,       \* account.max_concurrency
    Priority,    \* account.priority, lower first
    Reset,       \* when the usage window ahead resets, 0 without one
    LastUsed,    \* account.last_used_at
    FirstOwner,  \* account.owner_principal_id to start with
    Asks,        \* what searches ask for: a channel, and what has failed before
    MaxChanges,  \* bound: changes of rows and breakers
    MaxContends, \* bound: slots that other replicas take or give back
    Elsewhere,   \* stands for the requests of other replicas that hold a slot
    None

Kinds == {"oauth", "api_key"}
Nothings == {"NoCredential", "NoCredentialOfKind", "ReserveHeld"}
Outcomes == Nothings \cup {"AtCapacity", "Internal", "Pinned", "Cascaded"}

ASSUME SelectionAssumption ==
    /\ SessionOf \in [Requests -> Sessions]
    /\ PrincipalOf \in [Sessions -> Principals]
    /\ Kind \in [Accounts -> Kinds]
    /\ Limit \in [Accounts -> Nat]
    /\ Priority \in [Accounts -> Nat]
    /\ Reset \in [Accounts -> Nat]
    /\ LastUsed \in [Accounts -> Nat]
    /\ FirstOwner \in [Accounts -> Principals \cup {None}]
    /\ Asks \subseteq [channel : Kinds \cup {None}, excluded : SUBSET Accounts]
    /\ MaxChanges \in Nat /\ MaxContends \in Nat
    /\ IsFiniteSet(Requests) /\ Elsewhere \notin Requests
    /\ None \notin Accounts \cup Kinds \cup Principals \cup Outcomes

VARIABLES
    owner,     \* account.owner_principal_id
    status,    \* what the row says of the credential
    permits,   \* whether the replica's breaker lets a request through
    taken,     \* the slots in Redis: who holds one
    pin,       \* the pin of each conversation
    changes,
    contends,
    pc,
    excluded,  \* credentials that have failed this request
    rows,      \* the candidates read, what of them is live, and the error
    live,      \*     for having none of them left
    none_left,
    remaining,
    counted,   \* the candidates of a snapshot that found them all full
    ghost,     \* ghost_retry
    chosen,
    result,
    unfit      \* history: what was full or broken at some time in the search

world == <<owner, status, permits, changes, contends>>
search == <<excluded, rows, live, none_left>>
vars == <<world, taken, pin, pc, search, remaining, counted, ghost, chosen, result, unfit>>

(* live: schedulable, not cooling down and not rate-limited; reserved: at  *)
(* or below its reserve, whatever else.                                    *)
Statuses == {"live", "out", "reserved"}
Awaits == {"pin", "pin_count", "pin_claim", "count", "recount", "claim",
           "probe", "ghost_claim", "set_pin"}

InUse(a) == Cardinality(taken[a])
Full(a) == InUse(a) >= Limit[a]
Unfit == {a \in Accounts : Full(a) \/ ~permits[a]}

Init ==
    /\ owner = FirstOwner
    /\ status = [a \in Accounts |-> "live"]
    /\ permits = [a \in Accounts |-> TRUE]
    /\ taken = [a \in Accounts |-> {}]
    /\ pin = [s \in Sessions |-> None]
    /\ changes = 0 /\ contends = 0
    /\ pc = [r \in Requests |-> "idle"]
    /\ excluded = [r \in Requests |-> {}]
    /\ rows = [r \in Requests |-> {}]
    /\ live = [r \in Requests |-> {}]
    /\ none_left = [r \in Requests |-> "NoCredential"]
    /\ remaining = [r \in Requests |-> {}]
    /\ counted = [r \in Requests |-> {}]
    /\ ghost = [r \in Requests |-> FALSE]
    /\ chosen = [r \in Requests |-> None]
    /\ result = [r \in Requests |-> None]
    /\ unfit = [r \in Requests |-> {}]

Goes(r, s) == pc' = [pc EXCEPT ![r] = s]
Answers(r, x) == result' = [result EXCEPT ![r] = x]
Chooses(r, a) == chosen' = [chosen EXCEPT ![r] = a]

Refuses(r, x) == Goes(r, "refused") /\ Answers(r, x)

(* leased: the guard is made, and the slot is the request's.               *)
Leases(r, x) == Goes(r, "leased") /\ Answers(r, x)

(* Part of every step: what is unfit now is so during the searches.        *)
Observe ==
    unfit' = [r \in Requests |->
                 IF pc'[r] \in {"idle", "over"} THEN {}
                 ELSE IF pc[r] = "idle" \/ pc[r] \in Awaits THEN unfit[r] \cup Unfit
                 ELSE unfit[r]]

-----------------------------------------------------------------------------
(* The cascade.                                                            *)

Least(S, f) == {a \in S : \A b \in S : f[a] <= f[b]}

eligible(count, S) == {a \in S : count[a] < Limit[a]}

load_bp(count, S) == [a \in S |-> (count[a] * 10000) \div Limit[a]]

(* The stages: the best priority, the least load in it, and of those the   *)
(* ones whose window resets soonest, if any has one ahead.                 *)
tier(count, S) == Least(eligible(count, S), Priority)
least_loaded(count, S) == Least(tier(count, S), load_bp(count, tier(count, S)))
expiring(count, S) == Least({a \in least_loaded(count, S) : Reset[a] > 0}, Reset)
pool(count, S) ==
    IF expiring(count, S) = {} THEN least_loaded(count, S) ELSE expiring(count, S)

(* select: a draw decides among the ones used least recently.              *)
select(count, S) == Least(pool(count, S), LastUsed)

(* A pipeline's counts, or the zeros that stand for an unanswerable Redis. *)
Counts == {[a \in Accounts |-> InUse(a)], [a \in Accounts |-> 0]}

(* Live by the row, let through by its breaker, and not closed.            *)
Candidates(r, S) == {a \in S : a \in live[r] /\ permits[a] /\ Limit[a] > 0}

(* pick_with_room.                                                         *)
Open(r, count, S) == {a \in S : a \in live[r] /\ permits[a] /\ count[a] < Limit[a]}

-----------------------------------------------------------------------------
(* lease, one await at a time.                                             *)

MayUse(p, a) == owner[a] = p \/ (owner[a] = None /\ Kind[a] # "oauth")

candidates(r, channel) ==
    {a \in Accounts : /\ MayUse(PrincipalOf[SessionOf[r]], a)
                      /\ channel # None => Kind[a] = channel}

(* reserve_holding_back, or the want of a credential.                      *)
Nothing(S, channel) ==
    IF S # {} /\ \A a \in S : status[a] = "reserved" THEN "ReserveHeld"
    ELSE IF channel # None THEN "NoCredentialOfKind" ELSE "NoCredential"

(* The rows are read, or cannot be. Only a first attempt, which excludes   *)
(* nothing, looks at the pin.                                              *)
Begin(r) ==
    /\ pc[r] = "idle"
    /\ \E ask \in Asks :
        LET S == candidates(r, ask.channel)
            X == ask.excluded
            x == Nothing(S, ask.channel)
        IN  /\ excluded' = [excluded EXCEPT ![r] = X]
            /\ rows' = [rows EXCEPT ![r] = S]
            /\ live' = [live EXCEPT ![r] = {a \in S : status[a] = "live"}]
            /\ none_left' = [none_left EXCEPT ![r] = x]
            /\ remaining' = [remaining EXCEPT ![r] = S \ X]
            /\ \/ Refuses(r, "Internal")
               \/ S \ X = {} /\ Refuses(r, x)
               \/ /\ S \ X # {}
                  /\ Goes(r, IF X = {} THEN "pin" ELSE "count")
                  /\ UNCHANGED result
    /\ UNCHANGED <<world, taken, pin, counted, ghost, chosen>>
    /\ Observe

\* The pin is not looked up among the rows.
ReadPinAnyRow(r) ==
    /\ pc[r] = "pin"
    /\ LET a == pin[SessionOf[r]] IN
        \/ a # None /\ Chooses(r, a) /\ Goes(r, "pin_claim")
        \/ Goes(r, "count") /\ UNCHANGED chosen
    /\ UNCHANGED <<world, taken, pin, search, remaining, counted, ghost, result>>
    /\ Observe

(* sticky_get, which may fail.                                             *)
ReadPin(r) ==
    /\ pc[r] = "pin"
    /\ LET a == pin[SessionOf[r]] IN
        \/ a \in rows[r] /\ Chooses(r, a) /\ Goes(r, "pin_count")
        \/ Goes(r, "count") /\ UNCHANGED chosen
    /\ UNCHANGED <<world, taken, pin, search, remaining, counted, ghost, result>>
    /\ Observe

(* A pin that is not eligible, or that its breaker holds, falls through.   *)
CountPin(r) ==
    /\ pc[r] = "pin_count"
    /\ \E count \in Counts :
        Goes(r, IF Open(r, count, {chosen[r]}) # {} THEN "pin_claim" ELSE "count")
    /\ UNCHANGED <<world, taken, pin, search, remaining, counted, ghost, chosen, result>>
    /\ Observe

(* claim_slot: taken or refused in one step, and admitted where Redis does *)
(* not answer, whether or not it took the slot.                            *)
Claims(r) ==
    LET a == chosen[r] IN
    \/ ~Full(a) /\ taken' = [taken EXCEPT ![a] = @ \cup {r}]
    \/ UNCHANGED taken
Refused(r) == Full(chosen[r]) /\ UNCHANGED taken

ClaimPin(r) ==
    /\ pc[r] = "pin_claim"
    /\ \/ Claims(r) /\ Leases(r, "Pinned")
       \/ Refused(r) /\ Goes(r, "count") /\ UNCHANGED result
    /\ UNCHANGED <<world, pin, search, remaining, counted, ghost, chosen>>
    /\ Observe

(* candidates_for and select. With candidates and nothing to select, every *)
(* one of them is full.                                                    *)
Count(r) ==
    /\ pc[r] = "count"
    /\ \E count \in Counts :
        LET S == Candidates(r, remaining[r])
            best == select(count, S)
        IN  \/ \E a \in best : Chooses(r, a) /\ Goes(r, "claim") /\ UNCHANGED <<counted, result>>
            \/ /\ best = {}
               /\ UNCHANGED chosen
               /\ \/ S = {} /\ Refuses(r, none_left[r]) /\ UNCHANGED counted
                  \/ /\ S # {} /\ ~ghost[r]
                     /\ counted' = [counted EXCEPT ![r] = S]
                     /\ Goes(r, "recount")
                     /\ UNCHANGED result
                  \/ S # {} /\ ghost[r] /\ Refuses(r, "AtCapacity") /\ UNCHANGED counted
    /\ UNCHANGED <<world, taken, pin, search, remaining, ghost>>
    /\ Observe

\* The second look is not marked as such.
RecountForgets(r) ==
    /\ pc[r] = "recount"
    /\ \E count \in Counts :
        IF Open(r, count, counted[r]) # {}
          THEN Goes(r, "count") /\ UNCHANGED result
          ELSE Refuses(r, "AtCapacity")
    /\ counted' = [counted EXCEPT ![r] = {}]
    /\ UNCHANGED <<world, taken, pin, search, remaining, ghost, chosen>>
    /\ Observe

(* worth_a_recount: a full snapshot is looked at once more.                *)
Recount(r) ==
    /\ pc[r] = "recount"
    /\ \E count \in Counts :
        IF Open(r, count, counted[r]) # {}
          THEN /\ Goes(r, "count")
               /\ ghost' = [ghost EXCEPT ![r] = TRUE]
               /\ UNCHANGED result
          ELSE Refuses(r, "AtCapacity") /\ UNCHANGED ghost
    /\ counted' = [counted EXCEPT ![r] = {}]
    /\ UNCHANGED <<world, taken, pin, search, remaining, chosen>>
    /\ Observe

(* A credential that filled up meanwhile is dropped and the rest counted   *)
(* again, until none remains.                                              *)
Claim(r) ==
    /\ pc[r] = "claim"
    /\ \/ Claims(r) /\ Goes(r, "set_pin") /\ UNCHANGED remaining
       \/ LET left == remaining[r] \ {chosen[r]} IN
          /\ Refused(r)
          /\ remaining' = [remaining EXCEPT ![r] = left]
          /\ Goes(r, IF left = {} THEN "probe" ELSE "count")
    /\ UNCHANGED <<world, pin, search, counted, ghost, chosen, result>>
    /\ Observe

(* Every claim was lost: one look for room among them all.                 *)
Probe(r) ==
    /\ pc[r] = "probe"
    /\ \E count \in Counts :
        LET open == Open(r, count, rows[r] \ excluded[r]) IN
        \/ \E a \in open : Chooses(r, a) /\ Goes(r, "ghost_claim") /\ UNCHANGED result
        \/ open = {} /\ Refuses(r, "AtCapacity") /\ UNCHANGED chosen
    /\ UNCHANGED <<world, taken, pin, search, remaining, counted, ghost>>
    /\ Observe

ClaimGhost(r) ==
    /\ pc[r] = "ghost_claim"
    /\ \/ Claims(r) /\ Goes(r, "set_pin") /\ UNCHANGED result
       \/ Refused(r) /\ Refuses(r, "AtCapacity")
    /\ UNCHANGED <<world, pin, search, remaining, counted, ghost, chosen>>
    /\ Observe

(* sticky_set, whose failure is ignored, and the lease.                    *)
SetPin(r) ==
    /\ pc[r] = "set_pin"
    /\ pin' \in {[pin EXCEPT ![SessionOf[r]] = chosen[r]], pin}
    /\ Leases(r, "Cascaded")
    /\ UNCHANGED <<world, taken, search, remaining, counted, ghost, chosen>>
    /\ Observe

-----------------------------------------------------------------------------
(* The rest of the system.                                                 *)

(* The future is over, and its locals.                                     *)
Ends(r) ==
    /\ Goes(r, "over")
    /\ excluded' = [excluded EXCEPT ![r] = {}]
    /\ rows' = [rows EXCEPT ![r] = {}]
    /\ live' = [live EXCEPT ![r] = {}]
    /\ none_left' = [none_left EXCEPT ![r] = "NoCredential"]
    /\ remaining' = [remaining EXCEPT ![r] = {}]
    /\ counted' = [counted EXCEPT ![r] = {}]
    /\ ghost' = [ghost EXCEPT ![r] = FALSE]
    /\ chosen' = [chosen EXCEPT ![r] = None]
    /\ result' = [result EXCEPT ![r] = None]

(* The client hangs up. A slot claimed but not yet leased has no guard.    *)
HangUp(r) ==
    /\ pc[r] \in Awaits
    /\ Ends(r)
    /\ UNCHANGED <<world, taken, pin>>
    /\ Observe

(* The answer has been used, and its slot is given back.                   *)
Leave(r) ==
    /\ pc[r] \in {"leased", "refused"}
    /\ Ends(r)
    /\ taken' = [a \in Accounts |-> taken[a] \ {r}]
    /\ UNCHANGED <<world, pin>>
    /\ Observe

(* A slot that was left behind.                                            *)
Expire(r) ==
    /\ pc[r] = "over"
    /\ \E a \in Accounts : r \in taken[a]
    /\ taken' = [a \in Accounts |-> taken[a] \ {r}]
    /\ UNCHANGED <<world, pin, pc, search, remaining, counted, ghost, chosen, result>>
    /\ Observe

(* A cooldown or rate limit begins or ends, an operator disables or enables*)
(* a credential or moves its reserve, a poll reads its allowance.          *)
ChangeStatus(a) ==
    /\ status' \in {[status EXCEPT ![a] = s] : s \in Statuses \ {status[a]}}
    /\ UNCHANGED <<owner, permits>>

(* A breaker opens or lets a probe through.                                *)
ChangeBreaker(a) ==
    /\ permits' = [permits EXCEPT ![a] = ~@]
    /\ UNCHANGED <<owner, status>>

(* set-owner: a credential is bound to someone, and never unbound.         *)
ChangeOwner(a) ==
    /\ owner' \in {[owner EXCEPT ![a] = p] : p \in Principals \ {owner[a]}}
    /\ UNCHANGED <<status, permits>>

Change ==
    /\ changes < MaxChanges
    /\ changes' = changes + 1
    /\ \E a \in Accounts : ChangeStatus(a) \/ ChangeBreaker(a) \/ ChangeOwner(a)
    /\ UNCHANGED <<contends, taken, pin, pc, search, remaining, counted, ghost, chosen, result>>
    /\ Observe

(* Another replica takes a slot, or gives one back.                        *)
Contend ==
    /\ contends < MaxContends
    /\ contends' = contends + 1
    /\ \E a \in Accounts :
        \/ ~Full(a) /\ taken' = [taken EXCEPT ![a] = @ \cup {Elsewhere}]
        \/ taken' = [taken EXCEPT ![a] = @ \ {Elsewhere}]
    /\ taken' # taken
    /\ UNCHANGED <<owner, status, permits, changes, pin, pc, search, remaining, counted, ghost,
                   chosen, result>>
    /\ Observe

-----------------------------------------------------------------------------
Step(r) ==
    \/ ReadPin(r) \/ CountPin(r) \/ ClaimPin(r) \/ Count(r) \/ Recount(r)
    \/ Claim(r) \/ Probe(r) \/ ClaimGhost(r) \/ SetPin(r)

Act(r) == Begin(r) \/ Step(r) \/ HangUp(r) \/ Leave(r) \/ Expire(r)

Next == (\E r \in Requests : Act(r)) \/ Change \/ Contend

(* A search at an await is polled in the end: weak fairness of its steps,  *)
(* which are enabled at every await and leave it.                          *)
Polled(r) == pc[r] \in Awaits /\ pc'[r] # pc[r]
Fairness == \A r \in Requests : ([]<>(pc[r] \notin Awaits)) \/ []<><<Polled(r)>>_pc

Spec == Init /\ [][Next]_vars /\ Fairness

-----------------------------------------------------------------------------
(* The types of the rows, the counts, the pins and each search's locals.   *)
TypeOK ==
    /\ owner \in [Accounts -> Principals \cup {None}]
    /\ status \in [Accounts -> Statuses]
    /\ permits \in [Accounts -> BOOLEAN]
    /\ taken \in [Accounts -> SUBSET (Requests \cup {Elsewhere})]
    /\ pin \in [Sessions -> Accounts \cup {None}]
    /\ changes \in 0..MaxChanges /\ contends \in 0..MaxContends
    /\ pc \in [Requests -> Awaits \cup {"idle", "leased", "refused", "over"}]
    /\ excluded \in [Requests -> SUBSET Accounts]
    /\ rows \in [Requests -> SUBSET Accounts]
    /\ live \in [Requests -> SUBSET Accounts]
    /\ none_left \in [Requests -> Nothings]
    /\ remaining \in [Requests -> SUBSET Accounts]
    /\ counted \in [Requests -> SUBSET Accounts]
    /\ ghost \in [Requests -> BOOLEAN]
    /\ chosen \in [Requests -> Accounts \cup {None}]
    /\ result \in [Requests -> Outcomes \cup {None}]
    /\ unfit \in [Requests -> SUBSET Accounts]

Could(r) == live[r] \ excluded[r]

(* What is leased is what the caller may have: one of the rows read for    *)
(* its principal and its channel, live when they were read, and not one    *)
(* that has failed it, though the pin was set by another search.           *)
LeaseIsAllowed ==
    \A r \in Requests : result[r] \in {"Pinned", "Cascaded"} => chosen[r] \in Could(r)

(* A credential of a lower tier is leased only where each better one the   *)
(* caller could have was full or broken at some time in the search.        *)
TierRespected ==
    \A r \in Requests : result[r] = "Cascaded" =>
        \A b \in Could(r) : Priority[b] < Priority[chosen[r]] => b \in unfit[r]

(* Nobody is refused while a credential they could have stands free: each  *)
(* was full or broken at some time in the search.                          *)
NoneOverlooked ==
    \A r \in Requests : result[r] \in Nothings \cup {"AtCapacity"} =>
        Could(r) \subseteq unfit[r]

(* Every search ends, however the counts it reads change under it.         *)
LeaseReturns == \A r \in Requests : pc[r] \in Awaits ~> pc[r] \notin Awaits

(* Whichever way a search ends it was right to: what it leases it may      *)
(* lease, a lower tier only where the better ones were full or broken, and *)
(* a refusal only where nobody fit was overlooked (gateway/select.rs       *)
(* lease, schedule.rs select).                                             *)
LeasesHold == TypeOK /\ LeaseIsAllowed /\ TierRespected /\ NoneOverlooked

=============================================================================
