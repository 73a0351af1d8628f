------------------------------- MODULE Routing -------------------------------
(***************************************************************************)
(* Which model a request is served by.  A route has a ladder of rungs, each *)
(* naming models; a floor no request goes under; a mode.  The catalog says *)
(* what each model can do and costs.  A name a client sends is stripped of *)
(* its decorations (an "anthropic" prefix, an @kind suffix), planned,      *)
(* decided onto a rung or a model and, when the answer fails, climbed from. *)
(* /v1/models lists the names a client may send, read from the same state. *)
(*                                                                         *)
(* A name is [path, at]: what slashes separate, and what follows each @.   *)
(* Ranks count from one; rank 0 is no rung.                                *)
(***************************************************************************)
EXTENDS Integers, Sequences, FiniteSets, SequencesExt

CONSTANTS
    Providers,    \* the built-in providers
    Endpoints,    \* the registered ones
    Accepts,      \* the credential kinds a provider takes
    Specs,        \* the rows the catalog may hold
    Ladders,      \* the ladders a route may have
    Floors,       \* the floors written on a key or a route, "" for none
    Accounts,     \* the credentials of the route
    Rows,         \* the states a credential's row may be in
    Asks,         \* what clients send: [name, header, signal]
    Substantial,  \* the prompt that is balanced work
    Huge,         \* the prompt that is frontier work
    MaxInserts,   \* bound: catalog insertions
    MaxEdits      \* bound: moves of the budget

Name == [path : Seq(STRING) \ {<< >>}, at : Seq(STRING)]

\* A ladder has rungs.  The name "oag" is reserved: no provider is called so.  A
\* credential is of a kind its provider takes; what remains of it, if known, is an amount.
ASSUME RoutingAssumption ==
    /\ \A l \in Ladders : l \in Seq([name : STRING, models : Seq(Name)]) /\ l # << >>
    /\ \A s \in Specs : s.id \in Name /\ s.upstream \in Name /\ s.id.path[1] # "oag"
    /\ \A r \in Rows : /\ r.kind \in Accepts[r.provider] /\ r.remaining \in Nat \cup {-1} /\ r.reserve \in Int
                       /\ r.schedulable \in BOOLEAN /\ r.limited \in BOOLEAN
    /\ \A r \in Asks : r.name \in Name /\ DOMAIN r.signal = {"tier", "caps", "prompt", "output", "agentic"}

VARIABLES
    models,      \* Catalog.models: id -> spec
    byUpstream,  \* Catalog.by_upstream: name -> the ids spelt so upstream
    route,       \* [ladder, mode, floor, keyFloor]
    account,     \* account -> its row, as the caller may use it
    pressure,    \* the caller's budgets
    request,     \* the request being routed, or None
    decision,    \* what it was decided onto
    inserts, edits
catalogVars == <<models, byUpstream, inserts>>
routingVars == <<models, byUpstream, route, account, pressure, request, decision, inserts, edits>>

None == [kind |-> "none"]
AllProviders == Providers \cup Endpoints

(***************************************************************************)
(* Catalog.                                                                *)
(***************************************************************************)
Satisfies(spec, need) ==
    need.caps \subseteq spec.caps /\ need.prompt + need.output <= spec.window

Put(f, key, value) == [k \in DOMAIN f \cup {key} |-> IF k = key THEN value ELSE f[k]]

(* A re-insert may carry another upstream name: the old mapping goes.      *)
InsertKeepingOld(spec) ==
    LET ids == IF spec.upstream \in DOMAIN byUpstream THEN byUpstream[spec.upstream] ELSE {}
    IN /\ models' = Put(models, spec.id, spec)
       /\ byUpstream' = Put(byUpstream, spec.upstream, ids \cup {spec.id})
Insert(spec) ==
    LET renamed == spec.id \in DOMAIN models /\ models[spec.id].upstream # spec.upstream
        kept == [n \in DOMAIN byUpstream |->
                   IF renamed /\ n = models[spec.id].upstream THEN byUpstream[n] \ {spec.id} ELSE byUpstream[n]]
        ids == IF spec.upstream \in DOMAIN kept THEN kept[spec.upstream] ELSE {}
    IN /\ models' = Put(models, spec.id, spec)
       /\ byUpstream' = Put(kept, spec.upstream, ids \cup {spec.id})

(* A name is an id, or the upstream name of exactly one built-in's model.  *)
Spelt(name) ==
    {id \in IF name \in DOMAIN byUpstream THEN byUpstream[name] ELSE {} : models[id].provider \in Providers}
Resolve(name) ==
    IF name \in DOMAIN models THEN name
    ELSE IF Cardinality(Spelt(name)) = 1 THEN CHOOSE id \in Spelt(name) : TRUE
    ELSE None

Price(id) == models[id].input + models[id].output

(* The dearest served model that can do it; of equals the first by id.     *)
DearestServed(served, need) ==
    LET able == {id \in DOMAIN models : models[id].upstream \in served /\ Satisfies(models[id], need) /\ Price(id) > 0}
        dearest == {id \in able : \A other \in able : Price(other) <= Price(id)}
    IN IF able = {} THEN None
       ELSE CHOOSE id \in dearest : \A other \in dearest : models[id].order <= models[other].order

(***************************************************************************)
(* TierLadder and the floor policy_for finds: the key's before the route's, *)
(* and one that names no rung of the ladder is no floor.                   *)
(***************************************************************************)
Ladder == route.ladder
Rank(name) ==
    IF \E r \in DOMAIN Ladder : Ladder[r].name = name
    THEN CHOOSE r \in DOMAIN Ladder : Ladder[r].name = name /\ \A q \in 1 .. r - 1 : Ladder[q].name # name
    ELSE 0
FloorRank ==
    LET named == IF route.keyFloor # "" THEN route.keyFloor ELSE route.floor
    IN IF named = "" THEN 0 ELSE Rank(named)
ClampToFloor(rank) == IF rank < FloorRank THEN FloorRank ELSE rank

TierOf(id) ==
    IF \E r \in DOMAIN Ladder : Contains(Ladder[r].models, id)
    THEN CHOOSE r \in DOMAIN Ladder :
            Contains(Ladder[r].models, id) /\ \A q \in 1 .. r - 1 : ~ Contains(Ladder[q].models, id)
    ELSE 0

(* The first of a rung's models that can serve, and is not to be avoided.  *)
PickWithout(rank, need, avoid) ==
    LET able(i) == LET id == Ladder[rank].models[i]
                   IN id \in DOMAIN models /\ Satisfies(models[id], need) /\ models[id].provider \notin avoid
        fits == {i \in DOMAIN Ladder[rank].models : able(i)}
    IN IF fits = {} THEN None ELSE Ladder[rank].models[CHOOSE i \in fits : \A j \in fits : i <= j]
Pick(rank, need) == PickWithout(rank, need, {})

(***************************************************************************)
(* RoutingPolicy.                                                          *)
(***************************************************************************)
Classify(signal) ==
    CASE signal.tier # "" -> signal.tier
      [] signal.tier = "" /\ ("reasoning" \in signal.caps \/ signal.prompt >= Huge) -> "frontier"
      [] signal.tier = "" /\ "reasoning" \notin signal.caps /\ signal.prompt < Huge
         /\ (signal.agentic \/ signal.prompt >= Substantial \/ "vision" \in signal.caps) -> "balanced"
      [] OTHER -> "cheap"
Need(signal) == [caps |-> signal.caps, prompt |-> signal.prompt, output |-> signal.output]

(* What the saving is measured against: the dearer of the best model the   *)
(* credentials serve and the best the ladder names.                        *)
Baseline(served, need) ==
    LET fromServed == DearestServed(served, need)
        fromLadder == Pick(Len(Ladder), need)
    IN CASE fromServed = None -> fromLadder
         [] fromServed # None /\ fromLadder = None -> fromServed
         [] OTHER -> IF Price(fromLadder) > Price(fromServed) THEN fromLadder ELSE fromServed

Decided(model, rank, reason, from, baseline) ==
    [kind |-> "decided", model |-> model, rank |-> rank, reason |-> reason, from |-> from, baseline |-> baseline]
Refused(why) == [kind |-> "refused", why |-> why]

(* Up from a rung to the first that has a model for the request.           *)
ResolveFrom(rank, reason, need, baseline) ==
    LET able == {r \in rank .. Len(Ladder) : Pick(r, need) # None}
        r == CHOOSE r \in able : \A q \in able : r <= q
    IN IF able = {} THEN Refused("no_viable_model")
       ELSE Decided(Pick(r, need), r, reason, IF r = rank THEN 0 ELSE rank, baseline)

DecidePassthrough(name, need, baseline) ==
    LET id == Resolve(name)
        rank == TierOf(id)
    IN CASE id = None -> Refused("no_viable_model")
         [] id # None /\ rank # 0 /\ ClampToFloor(rank) # rank ->
               ResolveFrom(ClampToFloor(rank), "floor", need, baseline)
         [] id # None /\ rank = 0 /\ FloorRank > 1 -> ResolveFrom(FloorRank, "floor", need, baseline)
         [] OTHER -> Decided(id, rank, "passthrough", 0, baseline)

DecideManagedUnfloored(signal, baseline) ==
    LET asked == IF Rank(Classify(signal)) = 0 THEN 1 ELSE Rank(Classify(signal))
        floored == ClampToFloor(asked)
    IN IF pressure = "constrained" /\ 1 < floored
       THEN ResolveFrom(1, "downgraded", Need(signal), baseline)
       ELSE ResolveFrom(floored, IF floored = asked THEN "classified" ELSE "floor", Need(signal), baseline)
DecideManaged(signal, baseline) ==
    LET asked == IF Rank(Classify(signal)) = 0 THEN 1 ELSE Rank(Classify(signal))
        floored == ClampToFloor(asked)
        cheapest == ClampToFloor(1)
    IN IF pressure = "constrained" /\ cheapest < floored
       THEN ResolveFrom(cheapest, "downgraded", Need(signal), baseline)
       ELSE ResolveFrom(floored, IF floored = asked THEN "classified" ELSE "floor", Need(signal), baseline)

Decide(mode, name, signal, served) ==
    LET baseline == Baseline(served, Need(signal))
    IN CASE pressure = "exhausted" -> Refused("budget_exhausted")
         [] pressure # "exhausted" /\ mode = "passthrough" -> DecidePassthrough(name, Need(signal), baseline)
         [] OTHER -> DecideManaged(signal, baseline)

(* The rung above, and up from it to one that can serve.                   *)
Escalate(rank, need, baseline) ==
    IF rank + 1 > Len(Ladder) THEN None
    ELSE LET next == ResolveFrom(rank + 1, "escalated", need, baseline)
         IN IF next.kind = "refused" THEN None ELSE [next EXCEPT !.from = rank]

(* The same, past every rung that has no model of another provider; the    *)
(* rung's first choice when it is another's, else the first that is.       *)
EscalatePastProvider(rank, avoid, need, baseline) ==
    LET step[r \in 0 .. Len(Ladder)] ==
            LET next == Escalate(r, need, baseline)
            IN IF next = None THEN None
               ELSE LET other == PickWithout(next.rank, need, {avoid})
                    IN IF other # None THEN [next EXCEPT !.model = other, !.from = rank] ELSE step[next.rank]
    IN step[rank]

VirtualNames ==
    IF pressure = "exhausted" THEN {}
    ELSE {r \in DOMAIN Ladder : r >= FloorRank /\ (pressure = "constrained" => r <= ClampToFloor(1))}

(* The one model a virtual name can be decided onto; rank 0 is oag/auto.   *)
PinnedModel(rank) ==
    LET reached == UNION {ToSet(Ladder[r].models) : r \in IF rank = 0 THEN VirtualNames ELSE {rank}}
    IN IF Cardinality(reached) = 1 THEN CHOOSE id \in reached : TRUE ELSE None

Entitlement(id, rank, honoured) == [id |-> id, rank |-> rank, honoured |-> honoured]
Entitled(usable) ==
    LET above == {id \in DOMAIN models :
                    models[id].provider \in usable
                    /\ \E r \in DOMAIN Ladder : r >= FloorRank /\ Contains(Ladder[r].models, id)}
        rung(id) == CHOOSE r \in DOMAIN Ladder :
                       /\ r >= FloorRank /\ Contains(Ladder[r].models, id)
                       /\ \A q \in DOMAIN Ladder : q < r /\ q >= FloorRank => ~ Contains(Ladder[q].models, id)
        off == {id \in DOMAIN models : models[id].provider \in usable} \ above
    IN IF pressure = "exhausted" THEN {}
       ELSE {Entitlement(id, rung(id), route.mode # "managed") : id \in above}
            \cup IF route.mode = "managed" THEN {}
                 ELSE {Entitlement(id, 0, FloorRank <= 1) : id \in off}

(***************************************************************************)
(* Names: Normalised.                                                      *)
(***************************************************************************)
Plain(path) == [path |-> path, at |-> << >>]
Virtual(name) == name.path[1] = "oag"
Known(name) == Virtual(name) \/ Resolve(name) # None
Alias(name) == [name EXCEPT !.path = <<"anthropic">> \o @]
Survives(name) == name.path[1] = "anthropic"

(* The catalog before the split: a model's own name may hold an @.         *)
SplitChannel(name) ==
    IF name.at = << >> \/ Resolve(name) # None THEN [base |-> name, channel |-> ""]
    ELSE IF Last(name.at) \in {"api", "sub"} THEN [base |-> [name EXCEPT !.at = Front(@)], channel |-> Last(name.at)]
    ELSE None

(* The whole name before the one under the prefix.                         *)
Canonicalise(name) ==
    IF ~ Known(name) /\ name.path[1] = "anthropic" /\ Len(name.path) > 1 /\ Known([name EXCEPT !.path = Tail(@)])
    THEN [name EXCEPT !.path = Tail(@)] ELSE name

Normalise(name) ==
    LET split == SplitChannel(name)
        canonical == IF split = None THEN None ELSE Canonicalise(split.base)
    IN CASE split = None -> Refused("unknown_channel")
         [] split # None /\ split.channel # "" /\ Resolve(canonical) # None
            /\ split.channel \notin Accepts[models[Resolve(canonical)].provider] -> Refused("channel_not_offered")
         [] OTHER -> [kind |-> "name", model |-> canonical, channel |-> split.channel]

(***************************************************************************)
(* The credentials of the route, as three statements read them.  A row is  *)
(* [provider, kind, mine, schedulable, limited, remaining, reserve, served] *)
(* with remaining and reserve -1 when never set, served Unasked when the   *)
(* credential was never asked.                                             *)
(***************************************************************************)
Unasked == {None}
Usable(a) == account[a].mine = "yes" \/ (account[a].mine = "nobody" /\ account[a].kind # "sub")
OrZero(n) == IF n < 0 THEN 0 ELSE n

(* route_channels: what can serve today.                                   *)
Serving(a) ==
    /\ Usable(a) /\ account[a].schedulable /\ ~ account[a].limited
    /\ account[a].remaining = -1 \/ account[a].remaining > OrZero(account[a].reserve)
Held(p) == {a \in Accounts : Serving(a) /\ account[a].provider = p}
Kinds(p) == {account[a].kind : a \in Held(p)}
(* Two credentials of a kind merge: both known unions, either unknown is unknown. *)
ServedBy(p, k) ==
    LET of == {a \in Held(p) : account[a].kind = k}
    IN IF \E a \in of : account[a].served = Unasked THEN Unasked ELSE UNION {account[a].served : a \in of}
ServedModels == UNION {account[a].served : a \in {a \in Accounts : Serving(a) /\ account[a].served # Unasked}}

(* presence: why a provider serves nothing, from the rows themselves.      *)
ReasonOf(a) ==
    CASE ~ account[a].schedulable -> "disabled"
      [] account[a].schedulable /\ account[a].limited -> "rate_limited"
      [] account[a].schedulable /\ ~ account[a].limited /\ account[a].remaining = 0 -> "quota_spent"
      [] account[a].schedulable /\ ~ account[a].limited /\ account[a].remaining > 0
         /\ account[a].remaining <= OrZero(account[a].reserve) -> "reserved"
      [] OTHER -> "serving"
Recoverable == <<"serving", "reserved", "rate_limited", "quota_spent", "disabled", "no_credential", "budget_exhausted">>
Presence(p) ==
    LET reasons == {ReasonOf(a) : a \in {a \in Accounts : Usable(a) /\ account[a].provider = p}}
        best == CHOOSE r \in reasons : \A other \in reasons :
                   \E i, j \in DOMAIN Recoverable : i <= j /\ Recoverable[i] = r /\ Recoverable[j] = other
    IN IF reasons = {} THEN "unlisted"
       ELSE IF pressure = "exhausted" /\ best = "serving" THEN "budget_exhausted" ELSE best

(* provider_standing, and what Blocked makes of it.                        *)
Standing(p) ==
    LET held == {a \in Accounts : account[a].provider = p}
        usable == {a \in held : Usable(a)}
        live == {a \in usable : account[a].schedulable /\ ~ account[a].limited}
    IN CASE held = {} -> "no_credential"
         [] held # {} /\ usable = {} ->
               IF \E a \in held : account[a].mine = "nobody" THEN "ownerless_seat" ELSE "not_theirs"
         [] usable # {} /\ live = {} ->
               IF \E a \in usable : account[a].schedulable THEN "cooling_down" ELSE "all_disabled"
         [] OTHER -> "uncatalogued"

(* Why a request was refused: explain, and no_viable_message.              *)
Explanation(name) ==
    LET named(id) == \E r \in DOMAIN Ladder : Contains(Ladder[r].models, id)
        id == Resolve(name)
        provider == name.path[1]
        onLadder == {q.path[1] : q \in UNION {ToSet(Ladder[r].models) : r \in DOMAIN Ladder}}
    IN CASE named(name) /\ id = None ->
               IF provider \in AllProviders THEN Standing(provider) ELSE "unserved"
         [] id # None /\ (named(name) \/ named(id)) -> "catalogued"
         [] OTHER -> IF Len(name.path) = 1 \/ Virtual(name) THEN "nothing_fits"
                     ELSE IF provider \notin onLadder THEN "provider_not_on_ladder" ELSE "not_on_ladder"

(***************************************************************************)
(* GET /v1/models.                                                         *)
(***************************************************************************)
Upstream(id) == models[id].upstream

(* An asked credential's answer is the whole answer; an unasked one leaves *)
(* rung membership, or a metered key that sells the whole catalog.         *)
OnOffer(e) ==
    LET p == models[e.id].provider
        answers == {ServedBy(p, k) : k \in Kinds(p)}
    IN /\ Kinds(p) # {}
       /\ \/ \E s \in answers : s # Unasked /\ Upstream(e.id) \in s
          \/ Unasked \in answers /\ (e.rank # 0 \/ Kinds(p) # {"sub"})
Offered == {e \in Entitled({p \in AllProviders : Kinds(p) # {}}) : OnOffer(e)}

KindServes(p, k, id) ==
    k \in Kinds(p) /\ (ServedBy(p, k) = Unasked \/ Upstream(id) \in ServedBy(p, k))

Entry(name, id, rank, channel, honoured) ==
    [name |-> name, id |-> id, rank |-> rank, channel |-> channel, honoured |-> honoured]
ConcreteEntries(e) ==
    {Entry(e.id, e.id, e.rank, "", e.honoured)}
    \cup {Entry([e.id EXCEPT !.at = Append(@, k)], e.id, e.rank, k, e.honoured) :
            k \in {k \in {"api", "sub"} : KindServes(models[e.id].provider, k, e.id)}}
VirtualEntries ==
    {Entry(Plain(<<"oag", Ladder[r].name>>), PinnedModel(r), r, "", TRUE) : r \in VirtualNames}
    \cup {Entry(Plain(<<"oag", "auto">>), PinnedModel(0), 0, "", TRUE)}
Twins(entries) == {[e EXCEPT !.name = Alias(@)] : e \in {e \in entries : ~ Survives(e.name)}}
Advertise(concrete) == pressure # "exhausted" /\ concrete # {}
Listed(entries) == IF Advertise(Offered) THEN entries \cup Twins(entries) ELSE {}
Concrete == UNION {ConcreteEntries(e) : e \in Offered}
Listing == Listed(Concrete) \cup Listed(VirtualEntries)

(***************************************************************************)
(* plan_request.  A header that names no rung is as good as absent; so is  *)
(* a rung in the name that the ladder does not have.                       *)
(***************************************************************************)
ExplicitTier(header, name) ==
    IF header # "" /\ Rank(header) # 0 THEN header
    ELSE IF Virtual(name) /\ name.path[2] # "auto" /\ Rank(name.path[2]) # 0 THEN name.path[2] ELSE ""

Plan(name, header, signal) ==
    LET tier == ExplicitTier(header, name)
        mode == IF Virtual(name) \/ route.mode = "managed" \/ tier # "" THEN "managed" ELSE "passthrough"
        made == Decide(mode, name, [signal EXCEPT !.tier = tier], ServedModels)
    IN IF made.kind = "refused" /\ made.why = "no_viable_model" THEN Refused(Explanation(name)) ELSE made

(* What a request is answered with: normalised, then planned.              *)
Answer(name, header, signal) ==
    LET normal == Normalise(name)
    IN IF normal.kind = "refused" THEN normal ELSE Plan(normal.model, header, signal)

------------------------------------------------------------------------------
RoutingInit ==
    /\ models = << >> /\ byUpstream = << >>
    /\ route \in [ladder : Ladders, mode : {"passthrough", "managed"}, floor : Floors, keyFloor : Floors]
    /\ account \in [Accounts -> Rows]
    /\ pressure = "normal"
    /\ request = None /\ decision = None
    /\ inserts = 0 /\ edits = 0

InsertModel ==
    /\ inserts < MaxInserts /\ request = None
    /\ \E spec \in Specs : Insert(spec)
    /\ inserts' = inserts + 1
    /\ UNCHANGED <<route, account, pressure, request, decision, edits>>

(* The month's spend brings the caller's budgets nearer, or a reset away.  *)
SpendMoves ==
    /\ edits < MaxEdits /\ request = None
    /\ \E p \in {"normal", "constrained", "exhausted"} : p # pressure /\ pressure' = p
    /\ edits' = edits + 1
    /\ UNCHANGED <<catalogVars, route, account, request, decision>>

Arrive ==
    /\ request = None
    /\ \E r \in Asks :
          LET normal == Normalise(r.name)
              tier == IF normal.kind = "refused" THEN "" ELSE ExplicitTier(r.header, normal.model)
          IN /\ request' = [kind |-> "routed", name |-> r.name, header |-> r.header,
                            signal |-> [r.signal EXCEPT !.tier = tier], climbs |-> 0]
             /\ decision' = Answer(r.name, r.header, r.signal)
    /\ UNCHANGED <<catalogVars, route, account, pressure, edits>>

(* A climb after a failed answer: within the budget, once, and never for a *)
(* name the caller chose.                                                  *)
MaxEscalations == 1
ClimbAllowed ==
    /\ decision.kind = "decided" /\ decision.reason # "passthrough"
    /\ pressure = "normal" /\ request.climbs < MaxEscalations

Climb ==
    /\ ClimbAllowed
    /\ LET next == Escalate(decision.rank, Need(request.signal), decision.baseline)
       IN next # None /\ decision' = next
    /\ request' = [request EXCEPT !.climbs = @ + 1]
    /\ UNCHANGED <<catalogVars, route, account, pressure, edits>>

ClimbPast ==
    /\ ClimbAllowed
    /\ LET next == EscalatePastProvider(decision.rank, models[decision.model].provider, Need(request.signal), decision.baseline)
       IN next # None /\ decision' = next
    /\ request' = [request EXCEPT !.climbs = @ + 1]
    /\ UNCHANGED <<catalogVars, route, account, pressure, edits>>

RoutingNext == InsertModel \/ SpendMoves \/ Arrive \/ Climb \/ ClimbPast
RoutingSpec == RoutingInit /\ [][RoutingNext]_routingVars

------------------------------------------------------------------------------
(* The catalog keeps its index of upstream names by hand, across inserts   *)
(* that rename: a name always means the row that has it as an id, or the   *)
(* one built-in model now spelt so upstream, and a registered endpoint     *)
(* never takes a bare name from a built-in or makes one ambiguous.         *)
NamesUnguessed ==
    \A name \in DOMAIN models \cup {spec.upstream : spec \in Specs} :
        LET spelt == {id \in DOMAIN models : models[id].upstream = name /\ models[id].provider \in Providers}
        IN Resolve(name) = IF name \in DOMAIN models THEN name
                           ELSE IF \E id \in spelt : spelt = {id} THEN CHOOSE id \in spelt : TRUE ELSE None

Small == [tier |-> "", caps |-> {}, prompt |-> 0, output |-> 0, agentic |-> FALSE]
SentBack(e) == Answer(e.name, "", Small)
Below(id) == \E r \in DOMAIN Ladder : r < FloorRank /\ Contains(Ladder[r].models, id)
(* The catalog comes before the decorations: a name that is a row's own,   *)
(* or is one without its channel, is that row's.                           *)
Unclaimed(e) == \A n \in {e.name, [e.name EXCEPT !.at = e.id.at]} : n = e.id \/ Resolve(n) = None
OwnName(r) == Rank(Ladder[r].name) = r /\ Ladder[r].name \notin {"", "auto"}

(* A name out of the caller's own listing can be sent back: the request is *)
(* accepted, decided onto the model or the rung the entry stands for, on   *)
(* the channel the entry names, whatever decorations the name carries and  *)
(* whatever else the catalog holds.  Not promised: a decorated name that   *)
(* another row has, an alias of an id that holds an @, an id that is also  *)
(* on a rung below the floor, which `decide` refuses, and a rung called    *)
(* auto or as one below it.                                                *)
ListedIsKept ==
    request = None =>
        /\ \A e \in Listed(Concrete) :
              e.honoured /\ ~ Below(e.id) /\ Unclaimed(e) /\ ~ (e.id.at # << >> /\ e.name = Alias(e.id)) =>
                  /\ SentBack(e).kind = "decided" /\ SentBack(e).model = e.id
                  /\ Normalise(e.name).channel = e.channel
        /\ \A e \in Listed(VirtualEntries) :
              e.rank # 0 /\ OwnName(e.rank) /\ (Virtual(e.name) \/ Resolve(e.name) = None)
              /\ Pick(e.rank, Need(Small)) # None =>
                  SentBack(e).kind = "decided" /\ SentBack(e).rank = e.rank

(* No request is served under the floor: not by its name, its class, a pin, *)
(* a budget that downgrades it or a climb; and a budget under pressure buys *)
(* no more than the cheapest rung above the floor that can serve at all.   *)
FloorHolds ==
    decision.kind = "decided" =>
        /\ decision.rank = 0 => FloorRank <= 1
        /\ decision.rank # 0 => decision.rank >= FloorRank
        /\ pressure = "constrained" /\ decision.reason # "passthrough" =>
              \A r \in ClampToFloor(1) .. decision.rank - 1 : Pick(r, Need(request.signal)) = None

(* A climb away from a provider that failed lands on the nearest rung above *)
(* with a model of another provider fit for the request, and gives up only *)
(* when there is none.                                                     *)
ClimbReaches ==
    decision.kind = "decided" /\ decision.rank # 0 =>
        LET avoid == models[decision.model].provider
            need == Need(request.signal)
            next == EscalatePastProvider(decision.rank, avoid, need, decision.baseline)
            open == {r \in decision.rank + 1 .. Len(Ladder) : PickWithout(r, need, {avoid}) # None}
        IN IF open = {} THEN next = None
           ELSE /\ next # None /\ next.rank \in open /\ \A r \in open : next.rank <= r
                /\ models[next.model].provider # avoid /\ Satisfies(models[next.model], need)

(* Two statements answer whether a provider serves: the listing's and the  *)
(* one that says why it does not.  They agree on every credential state.   *)
PresenceAgrees ==
    \A p \in AllProviders : (Presence(p) \in {"serving", "budget_exhausted"}) = (Kinds(p) # {})

\* A name means what the catalog says or nothing, and a listed name can be asked for.
NamesHold == NamesUnguessed /\ ListedIsKept

\* What is decided, and climbed to, is at or above the floor and the nearest that
\* can serve; what is said of a provider's presence is what serves.
DecisionsHold == FloorHolds /\ ClimbReaches /\ PresenceAgrees
=============================================================================
