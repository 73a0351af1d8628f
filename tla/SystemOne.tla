------------------------------ MODULE SystemOne ------------------------------
(***************************************************************************)
(* System One: question sets and model listings, sent through a credential *)
(* of the one provider a request names, with the chat path's retries and   *)
(* failover but none of its ladder.                                        *)
(*                                                                         *)
(* A model name is [prefix, name]; a catalog row is [id, provider,         *)
(* upstream, price].  Selection of a credential is any that is not in      *)
(* cooldown, whose breaker permits it and that this call has not tried.    *)
(* Of a listing only the calls it makes are here, not the models in it.    *)
(***************************************************************************)
EXTENDS Integers, Sequences, FiniteSets
LOCAL INSTANCE SequencesExt

CONSTANTS
    Calls,          \* requests under way
    Keys,           \* credentials, of every System One provider
    OwnerOf,        \* the provider of each
    Catalogs,       \* the System One catalogs a reload may leave in memory
    HostSets,       \* the providers a reload may leave served, Jev among them
    AskedFor,       \* the model names asked for
    Answering,      \* the model names an answer may say ran
    MaxSwitches,    \* gateway.max_account_switches
    SameKeyRetries, \* gateway.same_account_retries
    TripsAt,        \* TRIP_THRESHOLD
    MaxListingPages,\* MAX_LISTING_PAGES
    MaxReloads, MaxCalls   \* bounds

(* A row of the catalog prices what it names, and "none" is no provider's  *)
(* name.                                                                   *)
ASSUME OneAssumption ==
    /\ \A rows \in Catalogs : \A row \in rows : row.price \in Nat \ {0} /\ row.provider # "none"
    /\ TripsAt \in Nat /\ MaxSwitches \in Nat /\ SameKeyRetries \in Nat

Jev == "jev"
Anyone == "any"                          \* a name with no provider in it
NoModel == [prefix |-> Anyone, name |-> ""]
NoSpec == [provider |-> "none"]
Refusal == [provider |-> "refused"]
None == "none"

VARIABLES
    rowsNow, hostsNow,   \* the catalog and the hosts in memory
    health,              \* breaker and cooldown of each credential: [fails, breaker, probed, cooled]
    call,                \* each request
    billed,              \* the ledger rows
    faulted,             \* ghost: credentials a question set has failed on
    reloads, started
oneVars == <<rowsNow, hostsNow, health, call, billed, faulted, reloads, started>>

------------------------------------------------------------------------------
(* resolve: a catalog id, a host's priced name, a name of Jev's or of      *)
(* nobody's; and anything else refused.                                    *)
At(provider, upstream, spec) == [provider |-> provider, upstream |-> upstream, spec |-> spec]
RowsOf(rows, provider, name) == {row \in rows : row.provider = provider /\ row.upstream = name}
ResolveUnpriced(model, rows, hosts) ==
    IF model = NoModel THEN At(Jev, None, NoSpec)
    ELSE IF \E row \in rows : row.id = model
         THEN LET row == CHOOSE row \in rows : row.id = model IN At(row.provider, row.upstream, row)
    ELSE IF model.prefix \in {Anyone, Jev} THEN At(Jev, None, NoSpec)
    ELSE IF model.prefix \in hosts THEN At(model.prefix, model.name, NoSpec)
    ELSE Refusal
Resolve(model, rows, hosts) ==
    IF model = NoModel THEN At(Jev, None, NoSpec)
    ELSE IF \E row \in rows : row.id = model
         THEN LET row == CHOOSE row \in rows : row.id = model IN At(row.provider, row.upstream, row)
    ELSE IF model.prefix \in {Anyone, Jev} THEN At(Jev, None, NoSpec)
    ELSE IF model.prefix \in hosts /\ RowsOf(rows, model.prefix, model.name) # {}
         THEN At(model.prefix, model.name, CHOOSE row \in RowsOf(rows, model.prefix, model.name) : TRUE)
    ELSE Refusal

(* priced: by what ran, then by what was asked, then at nothing.           *)
Priced(rows, target, ran) ==
    IF \E row \in rows : row.id = [prefix |-> target.provider, name |-> ran]
    THEN (CHOOSE row \in rows : row.id = [prefix |-> target.provider, name |-> ran]).price
    ELSE IF target.spec # NoSpec THEN target.spec.price ELSE 0

------------------------------------------------------------------------------
(* A call.                                                                 *)
NotCalling == [pc |-> "idle"]
BeginCall(purpose, target, rows) ==
    [pc |-> "lease", purpose |-> purpose, target |-> target, rows |-> rows, excluded |-> {}, switch |-> 0, tries |-> 0,
     key |-> None, probe |-> FALSE, todo |-> << >>, page |-> 0]
CallAt(r, pc) == call[r].pc = pc
CallGoes(r, pc) == call' = [call EXCEPT ![r].pc = pc]
Over(r) == call' = [call EXCEPT ![r] = NotCalling]
CanCall(r) == CallAt(r, "idle") /\ started < MaxCalls

Counts(r) == call[r].purpose = "answer"
Permits(k) == health[k].breaker = "closed" \/ (health[k].breaker = "half" /\ ~ health[k].probed)
Healthy == [fails |-> 0, breaker |-> "closed", probed |-> FALSE, cooled |-> FALSE]

(* Health: what an outcome says about the credential, and nothing for a    *)
(* listing.                                                                *)
FailedOnce(k) ==
    IF health[k].fails + 1 >= TripsAt THEN [health[k] EXCEPT !.fails = TripsAt, !.breaker = "open", !.probed = FALSE]
    ELSE [health[k] EXCEPT !.fails = @ + 1]
HealthAfter(r, cools) ==
    IF ~ Counts(r) THEN health
    ELSE [health EXCEPT ![call[r].key] = [FailedOnce(call[r].key) EXCEPT !.cooled = @ \/ cools]]
Blames(r) == faulted' = IF call[r].purpose = "answer" THEN faulted \cup {call[r].key} ELSE faulted
ProbeBack(r) ==
    IF call[r].probe THEN [health EXCEPT ![call[r].key].probed = FALSE] ELSE health

AskSystemOne(r) ==
    /\ CanCall(r) /\ started' = started + 1
    /\ \E model \in AskedFor :
          LET target == Resolve(model, rowsNow, hostsNow) IN
          /\ target # Refusal
          /\ call' = [call EXCEPT ![r] = BeginCall("answer", target, rowsNow)]
    /\ UNCHANGED <<rowsNow, hostsNow, health, billed, faulted, reloads>>

(* A listing asks every host in turn, Jev first.                           *)
InTurn(hosts) == <<Jev>> \o SetToSeq(hosts \ {Jev})
AskListing(r) ==
    /\ CanCall(r) /\ started' = started + 1
    /\ call' = [call EXCEPT ![r] = [BeginCall("listing", At(Jev, None, NoSpec), {}) EXCEPT !.todo = InTurn(hostsNow)]]
    /\ UNCHANGED <<rowsNow, hostsNow, health, billed, faulted, reloads>>

(* call: one credential after another, under the two bounds; and no        *)
(* upstream, no credential, or no budget left, is the end.                 *)
Leasable(r) ==
    {k \in Keys : OwnerOf[k] = call[r].target.provider /\ k \notin call[r].excluded
                  /\ ~ health[k].cooled /\ Permits(k)}
LeaseKey(r) ==
    /\ CallAt(r, "lease")
    /\ call[r].switch > 0 \/ call[r].target.provider \in hostsNow
    /\ \E k \in Leasable(r) : call' = [call EXCEPT ![r].pc = "leased", ![r].key = k, ![r].tries = 0]
    /\ UNCHANGED <<rowsNow, hostsNow, health, billed, faulted, reloads, started>>

(* What a call that came to nothing leaves: an error, or the next host of  *)
(* a listing, which a host that fails does not stop.                       *)
Rest(r) == Tail(call[r].todo)
NextHost(r) ==
    IF Rest(r) = << >> THEN NotCalling
    ELSE [BeginCall("listing", At(Head(Rest(r)), None, NoSpec), {}) EXCEPT !.todo = Rest(r)]
NextPage(r) == [call[r] EXCEPT !.pc = "lease", !.page = @ + 1, !.excluded = {}, !.switch = 0]
EndOfCall(r) == IF call[r].purpose = "answer" THEN NotCalling ELSE NextHost(r)
NoKeyLeft(r) ==
    /\ CallAt(r, "lease")
    /\ Leasable(r) = {} \/ call[r].switch > 0 \/ call[r].target.provider \notin hostsNow
    /\ call' = [call EXCEPT ![r] = EndOfCall(r)]
    /\ UNCHANGED <<rowsNow, hostsNow, health, billed, faulted, reloads, started>>

(* The credential is given up.                                             *)
Switched(r) ==
    IF call[r].switch = MaxSwitches THEN EndOfCall(r)
    ELSE [call[r] EXCEPT !.pc = "lease", !.excluded = @ \cup {call[r].key}, !.switch = @ + 1, !.probe = FALSE]
Switch(r) == call' = [call EXCEPT ![r] = Switched(r)]
Fatally(r) == call' = [call EXCEPT ![r] = EndOfCall(r)]

(* attempt_on: the token made fresh, then the dispatch claimed, which a    *)
(* listing does not.                                                       *)
NotFresh(r) ==
    /\ CallAt(r, "leased") /\ Switch(r)
    /\ UNCHANGED <<rowsNow, hostsNow, health, billed, faulted, reloads, started>>
Claim(r) ==
    /\ CallAt(r, "leased")
    /\ LET k == call[r].key IN
       IF ~ Counts(r) THEN CallGoes(r, "ready") /\ UNCHANGED health
       ELSE IF health[k].breaker = "closed" THEN CallGoes(r, "ready") /\ UNCHANGED health
       ELSE IF Permits(k)
       THEN /\ call' = [call EXCEPT ![r].pc = "ready", ![r].probe = TRUE]
            /\ health' = [health EXCEPT ![k].probed = TRUE]
       ELSE Switch(r) /\ UNCHANGED health
    /\ UNCHANGED <<rowsNow, hostsNow, billed, faulted, reloads, started>>
(* A request that cannot be built is the end; without a transport for the  *)
(* credential there may be another.                                        *)
NeverSent(r) ==
    /\ CallAt(r, "ready") /\ (Fatally(r) \/ Switch(r)) /\ health' = ProbeBack(r)
    /\ UNCHANGED <<rowsNow, hostsNow, billed, faulted, reloads, started>>
Send(r) ==
    /\ CallAt(r, "ready")
    /\ call' = [call EXCEPT ![r].pc = "wire", ![r].probe = FALSE]
    /\ UNCHANGED <<rowsNow, hostsNow, health, billed, faulted, reloads, started>>

(* A 2xx that decodes, and one that does not.                              *)
Answers(r) ==
    /\ CallAt(r, "wire")
    /\ health' = IF Counts(r) THEN [health EXCEPT ![call[r].key] = [Healthy EXCEPT !.cooled = health[call[r].key].cooled]]
                 ELSE health
    /\ IF call[r].purpose = "answer" THEN CallGoes(r, "answered")
       ELSE \E more \in BOOLEAN :
               call' = [call EXCEPT ![r] =
                   IF more /\ Head(call[r].todo) # Jev /\ call[r].page + 1 < MaxListingPages
                   THEN NextPage(r) ELSE NextHost(r)]
    /\ UNCHANGED <<rowsNow, hostsNow, billed, faulted, reloads, started>>
Garbled(r) ==
    /\ CallAt(r, "wire") /\ Blames(r)
    /\ health' = HealthAfter(r, FALSE) /\ Switch(r)
    /\ UNCHANGED <<rowsNow, hostsNow, billed, reloads, started>>

(* A refusal by its disposition, silence for the whole deadline, and no    *)
(* answer at all.                                                          *)
RetriesLeft(r) == call[r].tries < SameKeyRetries
Retries(r) == call' = [call EXCEPT ![r].pc = "retry"]
RefusedAs(r, disposition) ==
    /\ CallAt(r, "wire") /\ Blames(r)
    /\ health' = HealthAfter(r, disposition = "failover")
    /\ CASE disposition = "retry" /\ RetriesLeft(r) -> Retries(r)
         [] disposition \in {"fatal", "escalate"} -> Fatally(r)
         [] OTHER -> Switch(r)
    /\ UNCHANGED <<rowsNow, hostsNow, billed, reloads, started>>
SilentUpstream(r) ==
    /\ CallAt(r, "wire") /\ Blames(r)
    /\ health' = HealthAfter(r, TRUE) /\ Switch(r)
    /\ UNCHANGED <<rowsNow, hostsNow, billed, reloads, started>>
Unreachable(r) ==
    /\ CallAt(r, "wire") /\ Blames(r)
    /\ health' = HealthAfter(r, ~ RetriesLeft(r))
    /\ IF RetriesLeft(r) THEN Retries(r) ELSE Switch(r)
    /\ UNCHANGED <<rowsNow, hostsNow, billed, reloads, started>>

(* The same credential again, unless its breaker has just opened.          *)
RetrySame(r) ==
    /\ CallAt(r, "retry")
    /\ IF Permits(call[r].key) THEN call' = [call EXCEPT ![r].pc = "ready", ![r].tries = @ + 1] ELSE Switch(r)
    /\ UNCHANGED <<rowsNow, hostsNow, health, billed, faulted, reloads, started>>

(* The lease is back, and a task the client cannot cancel writes the       *)
(* ledger row.                                                             *)
Record(r) ==
    /\ CallAt(r, "answered")
    /\ \E ran \in Answering :
          billed' = billed \cup
              {[provider |-> OwnerOf[call[r].key], asked |-> call[r].target.provider,
                price |-> Priced(call[r].rows, call[r].target, ran)]}
    /\ Over(r)
    /\ UNCHANGED <<rowsNow, hostsNow, health, faulted, reloads, started>>

(* The client goes away: the lease and an unspent probe go back, and an    *)
(* answer that is still giving its lease back is not recorded.             *)
HangsUp(r) ==
    /\ call[r].pc \in {"lease", "leased", "ready", "wire", "retry", "answered"}
    /\ Over(r) /\ health' = ProbeBack(r)
    /\ UNCHANGED <<rowsNow, hostsNow, billed, faulted, reloads, started>>

Reload ==
    /\ reloads < MaxReloads /\ reloads' = reloads + 1
    /\ \E rows \in Catalogs, hosts \in HostSets : rowsNow' = rows /\ hostsNow' = hosts
    /\ UNCHANGED <<health, call, billed, faulted, started>>
CooldownEnds(k) ==
    /\ health[k].cooled \/ health[k].breaker = "open"
    /\ health' = [health EXCEPT ![k].cooled = FALSE, ![k].breaker = IF @ = "open" THEN "half" ELSE @]
    /\ UNCHANGED <<rowsNow, hostsNow, call, billed, faulted, reloads, started>>

------------------------------------------------------------------------------
OneInit ==
    /\ rowsNow \in Catalogs /\ hostsNow \in HostSets
    /\ health = [k \in Keys |-> Healthy] /\ call = [r \in Calls |-> NotCalling]
    /\ billed = {} /\ faulted = {} /\ reloads = 0 /\ started = 0
CallStep(r) ==
    \/ AskSystemOne(r) \/ AskListing(r) \/ LeaseKey(r) \/ NoKeyLeft(r) \/ NotFresh(r) \/ Claim(r) \/ NeverSent(r) \/ Send(r)
    \/ Answers(r) \/ Garbled(r) \/ \E d \in {"retry", "failover", "fatal", "escalate"} : RefusedAs(r, d)
    \/ SilentUpstream(r) \/ Unreachable(r) \/ RetrySame(r) \/ Record(r) \/ HangsUp(r)
OneNext == Reload \/ (\E r \in Calls : CallStep(r)) \/ (\E k \in Keys : CooldownEnds(k))
OneSpec == OneInit /\ [][OneNext]_oneVars

(* A question set is answered by a credential of the provider its model    *)
(* names, across failover and reloads, and a host's answer is never        *)
(* metered at nothing, whatever model it says ran and whatever a reload    *)
(* has done to the catalog since.                                          *)
AnswersPriced == \A row \in billed : row.provider = row.asked /\ (row.provider # Jev => row.price > 0)

(* Only a question set can fail a credential: a listing neither benches    *)
(* one, nor trips its breaker, nor takes the probe a question set is       *)
(* waiting for.                                                            *)
HealthIsAnswers ==
    /\ \A k \in Keys : health[k] # Healthy => k \in faulted
    /\ \A r \in Calls : call[r] # NotCalling /\ call[r].purpose = "listing" => ~ call[r].probe

(* Every answer is metered at its provider's price, and only answers move  *)
(* a credential's health.                                                  *)
AnswersAccounted == AnswersPriced /\ HealthIsAnswers
=============================================================================
