------------------------------ MODULE Enrolment ------------------------------
(***************************************************************************)
(* What operators enrol from the command line: credentials under names     *)
(* that nothing in the schema keeps apart, the people they belong to and   *)
(* the routes they serve; and `doctor`, which reads the same tables one    *)
(* after another and says whether a route can serve.  Commands of several  *)
(* operators interleave at every statement, any statement may fail, and a  *)
(* command that stops leaves the rows it has written.                      *)
(*                                                                         *)
(* A name is a sequence: an import of several sessions numbers its rows    *)
(* `name-1`, `name-2`.  A rung is the set of providers its models are of.  *)
(***************************************************************************)
EXTENDS Integers, Sequences, FiniteSets

CONSTANTS
    Operators, SeatIds, People, RouteNames,
    KindsTaken,   \* provider -> the credential kinds it takes, in order
    Boxes,        \* of each registered endpoint, whether this build serves it
    Catalogued,   \* the providers the catalog has models of
    Instructed,   \* whether gateway.codex.instructions is set
    Adds,         \* what `account add` is called with
    Binds, Renames, Reserves, Rungs,   \* and the other commands
    Legacy,       \* the rows a deployment may start from: id -> row
    MaxCommands, MaxMoves

NoOne == ""
Missing == [there |-> FALSE]
BuiltIn == DOMAIN KindsTaken \ DOMAIN Boxes
DefaultTiers == <<{"anthropic"}, {"anthropic"}, {"anthropic"}>>

VARIABLES
    seats,      \* the account table, with the routes each row is attached to
    people,     \* the emails that have a principal
    routes,     \* the route table: name -> [mode, tiers]
    operator,   \* the command each operator has running
    twins,      \* ghost: pairs named alike by writes that overlapped
    commands, moves
enrolVars == <<seats, people, routes, operator, twins, commands, moves>>

Enrolled == {id \in SeatIds : seats[id].there}
Named(name) == {id \in Enrolled : seats[id].name = name}
Doing(o, pc) == operator[o].pc = pc

\* meanwhile: ids whose name was written since this command looked at names;
\* still: nothing was written since this doctor began.
Resting == [pc |-> "idle", args |-> Missing, left |-> << >>, id |-> Missing, made |-> {}, meanwhile |-> {},
            still |-> TRUE, failed |-> 0, ladder |-> << >>, told |-> "nothing"]

(* Every write of a table is seen by the ghosts of the others.             *)
Noted(state, named) ==
    [o \in Operators |-> [state[o] EXCEPT !.meanwhile = @ \cup named, !.still = FALSE]]
Wrote(o, state, named) == operator' = Noted([operator EXCEPT ![o] = state], named)
Says(o, what) == operator' = [operator EXCEPT ![o].pc = "idle", ![o].told = what]
Declines(o) == Says(o, "refused")
OnlyOperator == UNCHANGED <<seats, people, routes, twins>>
Begins(o, pc, args) ==
    /\ Doing(o, "idle") /\ commands < MaxCommands /\ commands' = commands + 1
    /\ operator' = [operator EXCEPT ![o] = [Resting EXCEPT !.pc = pc, !.args = args]]
    /\ OnlyOperator /\ UNCHANGED moves
Uncounted == UNCHANGED <<commands, moves>>

-----------------------------------------------------------------------------
(* account add: what is refused before anything is read.  A --secret typed *)
(* beside --from would be ignored; one in the environment says nothing.    *)
Imported(args) == args.source # "key"
RefusedUnread(args) ==
    \/ args.shared
    \/ Imported(args) /\ (args.typed \/ args.owner = NoOne \/ args.sessions = 0)
    \/ ~ Imported(args) /\ ~ (args.typed \/ args.env)
ProviderOf(args) == CASE args.source = "grok" -> "xai" [] args.source = "codex" -> "openai" [] OTHER -> args.provider
KindOf(args) == IF Imported(args) THEN "oauth" ELSE KindsTaken[args.provider][1]
NamesOf(args) ==
    IF args.source = "grok" /\ args.sessions > 1
    THEN [i \in 1 .. args.sessions |-> Append(args.name, <<"1", "2", "3">>[i])] ELSE <<args.name>>
AddBegins(o, args) ==
    /\ ~ RefusedUnread(args) /\ Begins(o, IF ProviderOf(args) \in BuiltIn THEN "owner" ELSE "provider", args)

(* parse_provider: an endpoint's name parses once its row is registered,   *)
(* and a row this build does not serve is not.                             *)
ParsesProvider(o) ==
    /\ Doing(o, "provider") /\ Uncounted /\ OnlyOperator
    /\ IF Boxes[operator[o].args.provider] THEN operator' = [operator EXCEPT ![o].pc = "owner"] ELSE Declines(o)

(* find_owner, for an add and for set-owner.                               *)
FindsOwner(o) ==
    LET args == operator[o].args
    IN /\ Doing(o, "owner") /\ Uncounted /\ OnlyOperator
       /\ IF args.owner # NoOne /\ args.owner \notin people THEN Declines(o)
          ELSE operator' = [operator EXCEPT ![o].pc = IF args.does = "add" THEN "check" ELSE "bind",
                                            ![o].left = IF args.does = "add" THEN NamesOf(args) ELSE << >>]

(* insert_account, once for every session: kind_is_offered, a seat's owner, *)
(* and the name, which is looked up here and written a statement later.    *)
KindOffered(provider, kind) == \E i \in DOMAIN KindsTaken[provider] : KindsTaken[provider][i] = kind
SeatIsPersonal(kind, owner) == kind = "oauth" => owner # NoOne
ChecksName(o) ==
    LET args == operator[o].args
    IN /\ Doing(o, "check") /\ Uncounted /\ OnlyOperator
       /\ IF /\ KindOffered(ProviderOf(args), KindOf(args)) /\ SeatIsPersonal(KindOf(args), args.owner)
             /\ Named(Head(operator[o].left)) = {}
          THEN operator' = [operator EXCEPT ![o].pc = "insert", ![o].meanwhile = {}]
          ELSE Declines(o)
InsertsRow(o) ==
    LET args == operator[o].args
        name == Head(operator[o].left)
    IN /\ Doing(o, "insert") /\ Uncounted
       /\ \E id \in SeatIds \ Enrolled :
             /\ seats' = [seats EXCEPT ![id] = [there |-> TRUE, name |-> name, provider |-> ProviderOf(args),
                             kind |-> KindOf(args), owner |-> args.owner, schedulable |-> TRUE, cooling |-> FALSE,
                             held |-> FALSE, on |-> {}]]
             /\ Wrote(o, [operator[o] EXCEPT !.pc = "attach", !.id = id], {id})
             /\ twins' = twins \cup {{id, other} : other \in Named(name) \cap operator[o].meanwhile}
       /\ UNCHANGED <<people, routes>>

(* The attachment selects the route by name: no route, no row, and the     *)
(* command says so.  The account is kept either way.                       *)
Attached(o) == [seats EXCEPT ![operator[o].id].on = @ \cup {operator[o].args.route}]
Inserted(o) ==
    LET left == Tail(operator[o].left)
        made == operator[o].made \cup {operator[o].id}
    IN [operator[o] EXCEPT !.left = left, !.made = made,
                           !.pc = IF left = << >> THEN "idle" ELSE "check",
                           !.told = IF left = << >> THEN "added" ELSE @]
AttachesUnchecked(o) ==
    /\ Doing(o, "attach") /\ Uncounted
    /\ seats' = IF operator[o].args.route \in DOMAIN routes THEN Attached(o) ELSE seats
    /\ Wrote(o, Inserted(o), {})
    /\ UNCHANGED <<people, routes, twins>>
Attaches(o) ==
    /\ Doing(o, "attach") /\ Uncounted
    /\ IF operator[o].args.route \in DOMAIN routes THEN seats' = Attached(o) /\ Wrote(o, Inserted(o), {})
       ELSE Declines(o) /\ UNCHANGED seats
    /\ UNCHANGED <<people, routes, twins>>

-----------------------------------------------------------------------------
(* rename_account: the way out of a pair, so it moves them all.            *)
RenameChecks(o, r) ==
    /\ r.from # r.to /\ Named(r.to) = {} /\ Begins(o, "rename", r)
RenameWrites(o) ==
    LET r == operator[o].args
        moved == Named(r.from)
    IN /\ Doing(o, "rename") /\ Uncounted
       /\ IF moved = {} THEN Declines(o) /\ UNCHANGED <<seats, twins>>
          ELSE /\ seats' = [id \in SeatIds |-> IF id \in moved THEN [seats[id] EXCEPT !.name = r.to] ELSE seats[id]]
               /\ twins' = twins \cup {{id, other} : id \in moved, other \in Named(r.to) \cap operator[o].meanwhile}
               /\ Wrote(o, [operator[o] EXCEPT !.pc = "idle", !.told = "renamed"], moved)
       /\ UNCHANGED <<people, routes>>

(* set_account_owner: one transaction, given up unless it touched one row. *)
BindBegins(o, b) == Begins(o, "owner", b)
Binds1(o) ==
    LET b == operator[o].args
        bound == Named(b.name)
    IN /\ Doing(o, "bind") /\ Uncounted
       /\ IF Cardinality(bound) # 1 THEN Declines(o) /\ UNCHANGED seats
          ELSE /\ seats' = [id \in SeatIds |-> IF id \in bound THEN [seats[id] EXCEPT !.owner = b.owner] ELSE seats[id]]
               /\ Wrote(o, [operator[o] EXCEPT !.pc = "idle", !.told = "bound"], {})
       /\ UNCHANGED <<people, routes, twins>>

(* enable, disable and set-reserve: one UPDATE of every row of the name.   *)
(* A reserve out of 0 to 100 is refused; one at or over what the provider  *)
(* last said is left of a seat holds it.  Unset is -1.                     *)
Remaining == 40
ValidatedReserve(pct) == pct = -1 \/ pct \in 0 .. 100
HeldByReserve(pct) == Remaining <= pct
WritesAll(o, name, written) ==
    /\ Doing(o, "idle") /\ commands < MaxCommands /\ commands' = commands + 1 /\ UNCHANGED moves
    /\ Named(name) # {}
    /\ seats' = [id \in SeatIds |-> IF id \in Named(name) THEN written[id] ELSE seats[id]]
    /\ Wrote(o, [Resting EXCEPT !.told = "set"], {})
    /\ UNCHANGED <<people, routes, twins>>
SetsSchedulable(o, name, value) ==
    WritesAll(o, name, [id \in Named(name) |-> [seats[id] EXCEPT !.schedulable = value]])
SetsReserve(o, name, pct) ==
    /\ ValidatedReserve(pct)
    /\ WritesAll(o, name, [id \in Named(name) |-> [seats[id] EXCEPT !.held = seats[id].kind = "oauth" /\ HeldByReserve(pct)]])

-----------------------------------------------------------------------------
(* init: the principal, then the route; a route that is there keeps its    *)
(* mode and its ladder.  (The key it then mints is in AuthCache.)          *)
InitBegins(o, email, name) ==
    /\ Doing(o, "idle") /\ commands < MaxCommands /\ commands' = commands + 1
    /\ people' = people \cup {email}
    /\ Wrote(o, [Resting EXCEPT !.pc = "route", !.args = [does |-> "init", route |-> name]], {})
    /\ UNCHANGED <<seats, routes, twins, moves>>
UpsertsRoute(o) ==
    LET name == operator[o].args.route
    IN /\ Doing(o, "route") /\ Uncounted
       /\ routes' = [r \in DOMAIN routes \cup {name} |->
                       IF r \in DOMAIN routes THEN routes[r] ELSE [mode |-> "passthrough", tiers |-> DefaultTiers]]
       /\ Wrote(o, [operator[o] EXCEPT !.pc = "idle", !.told = "initialised"], {})
       /\ UNCHANGED <<seats, people, twins>>
SetsRoute(o, name, row) ==
    /\ Doing(o, "idle") /\ commands < MaxCommands /\ commands' = commands + 1 /\ UNCHANGED moves
    /\ name \in DOMAIN routes /\ routes' = [routes EXCEPT ![name] = row]
    /\ Wrote(o, [Resting EXCEPT !.told = "set"], {})
    /\ UNCHANGED <<seats, people, twins>>
SetsMode(o, name, mode) == name \in DOMAIN routes /\ SetsRoute(o, name, [routes[name] EXCEPT !.mode = mode])
SetsRungs(o, name, tiers) ==
    /\ tiers # << >> /\ name \in DOMAIN routes
    /\ SetsRoute(o, name, [routes[name] EXCEPT !.tiers = tiers])

(* The gateway cools a credential down, and warms it.                      *)
PoolMoves ==
    /\ moves < MaxMoves /\ moves' = moves + 1
    /\ \E id \in Enrolled : seats' = [seats EXCEPT ![id].cooling = ~ @]
    /\ operator' = Noted(operator, {})
    /\ UNCHANGED <<people, routes, twins, commands>>

(* A statement that fails, and an operator who interrupts.                 *)
Stops(o) ==
    /\ ~ Doing(o, "idle") /\ Says(o, "failed") /\ Uncounted /\ OnlyOperator

-----------------------------------------------------------------------------
(* doctor: the catalog and the endpoints, then the route and its ladder,   *)
(* then the credentials attached to it (its migrations are in Schema).    *)
(* A credential bound to one person covers no rung.                        *)
Shared(row) == row.owner = NoOne /\ row.kind # "oauth"
OrphanedSeat(row) == row.owner = NoOne /\ row.kind = "oauth"
Live(row) == row.schedulable /\ ~ row.cooling /\ ~ row.held

EndpointProblems ==
    (IF Catalogued = {} THEN 1 ELSE 0)
    + Cardinality({box \in DOMAIN Boxes : ~ Boxes[box]})
    + Cardinality({box \in DOMAIN Boxes : Boxes[box] /\ ~ \E id \in Enrolled : seats[id].provider = box /\ seats[id].schedulable})
    + Cardinality({box \in DOMAIN Boxes : Boxes[box] /\ box \notin Catalogued})
DoctorBegins(o, name) ==
    /\ Doing(o, "idle") /\ commands < MaxCommands /\ commands' = commands + 1 /\ UNCHANGED moves
    /\ operator' = [operator EXCEPT ![o] = [Resting EXCEPT !.pc = "checkroute", !.failed = EndpointProblems,
                                              !.args = [does |-> "doctor", route |-> name]]]
    /\ OnlyOperator
ChecksRoute(o) ==
    LET name == operator[o].args.route
    IN /\ Doing(o, "checkroute") /\ Uncounted /\ OnlyOperator
       /\ IF name \notin DOMAIN routes THEN Says(o, "problems")
          ELSE operator' = [operator EXCEPT ![o].pc = "checkseats", ![o].ladder = routes[name].tiers]

ReportAccounts(attached) == IF attached = {} THEN 1 ELSE 0
CheckLadder(tiers, attached) ==
    LET covered(p) == \E id \in attached : seats[id].provider = p /\ Live(seats[id]) /\ Shared(seats[id])
    IN Cardinality({i \in DOMAIN tiers : \E p \in tiers[i] : ~ covered(p)})
CheckOrphanedSeats(attached) == Cardinality({id \in attached : OrphanedSeat(seats[id])})
CheckReserves(attached) == Cardinality({id \in attached : seats[id].held})
CheckCodex(attached) ==
    IF ~ Instructed /\ \E id \in attached : seats[id].provider = "openai" /\ seats[id].kind = "oauth" THEN 1 ELSE 0
RouteProblems(tiers, attached) ==
    ReportAccounts(attached) + CheckLadder(tiers, attached) + CheckOrphanedSeats(attached)
    + CheckReserves(attached) + CheckCodex(attached)
Concludes(o) ==
    LET attached == {id \in Enrolled : operator[o].args.route \in seats[id].on}
    IN /\ Doing(o, "checkseats") /\ Uncounted /\ OnlyOperator
       /\ Says(o, IF operator[o].failed + RouteProblems(operator[o].ladder, attached) = 0 THEN "healthy" ELSE "problems")

-----------------------------------------------------------------------------
(* Operators, accounts, boxes and rungs are finitely many; every import    *)
(* numbers at most three sessions, set-owner has somebody to bind to, and  *)
(* what a deployment starts from are rows of the table.                    *)
SeatColumns == {"there", "name", "provider", "kind", "owner", "schedulable", "cooling", "held", "on"}
IsSeat(row) == DOMAIN row = SeatColumns /\ row.there /\ KindOffered(row.provider, row.kind)
ASSUME EnrolmentAssumption ==
    /\ DOMAIN Boxes \subseteq DOMAIN KindsTaken /\ "anthropic" \in BuiltIn
    /\ \A p \in DOMAIN KindsTaken : KindsTaken[p] # << >>
    /\ IsFiniteSet(SeatIds) /\ IsFiniteSet(DOMAIN Boxes) /\ \A tiers \in Rungs : IsFiniteSet(DOMAIN tiers)
    /\ \A args \in Adds : args.does = "add" /\ args.sessions \in 0 .. 3
    /\ \A b \in Binds : b.does = "bind" /\ b.owner # NoOne
    /\ \A legacy \in Legacy : DOMAIN legacy \subseteq SeatIds /\ \A id \in DOMAIN legacy : IsSeat(legacy[id])

EnrolInit ==
    /\ seats \in {[id \in SeatIds |-> IF id \in DOMAIN legacy THEN legacy[id] ELSE Missing] : legacy \in Legacy}
    /\ people \in {{p} : p \in People}
    /\ routes \in {<< >>} \cup [{CHOOSE r \in RouteNames : TRUE} -> {[mode |-> "passthrough", tiers |-> t] : t \in Rungs}]
    /\ operator = [o \in Operators |-> Resting]
    /\ twins = {{i, j} : i, j \in {id \in SeatIds : seats[id].there}}
    /\ commands = 0 /\ moves = 0
OperatorSteps(o) ==
    \/ \E args \in Adds : AddBegins(o, args)
    \/ ParsesProvider(o) \/ FindsOwner(o) \/ ChecksName(o) \/ InsertsRow(o) \/ Attaches(o) \/ Stops(o)
    \/ \E r \in Renames : RenameChecks(o, r)
    \/ \E b \in Binds : BindBegins(o, b)
    \/ RenameWrites(o) \/ Binds1(o) \/ UpsertsRoute(o) \/ ChecksRoute(o) \/ Concludes(o)
    \/ \E r \in Renames : \/ \E value \in BOOLEAN : SetsSchedulable(o, r.from, value)
                          \/ \E pct \in Reserves : SetsReserve(o, r.from, pct)
    \/ \E name \in RouteNames : \/ DoctorBegins(o, name) \/ \E email \in People : InitBegins(o, email, name)
                                \/ \E tiers \in Rungs : SetsRungs(o, name, tiers)
                                \/ SetsMode(o, name, "managed")
EnrolNext == PoolMoves \/ \E o \in Operators : OperatorSteps(o)
EnrolSpec == EnrolInit /\ [][EnrolNext]_enrolVars

-----------------------------------------------------------------------------
(* A seat an operator enrols is somebody's, and of a kind its provider     *)
(* takes; one left over from before the rule can only be bound.            *)
SeatsArePersonal ==
    \A id \in Enrolled :
        /\ KindOffered(seats[id].provider, seats[id].kind)
        /\ SeatIsPersonal(seats[id].kind, seats[id].owner) \/ \E legacy \in Legacy : id \in DOMAIN legacy

(* An import that reports success has made every row it names and attached *)
(* each to its route, whatever was renamed, bound or initialised meanwhile. *)
AddedIsAttached ==
    \A o \in Operators : operator[o].told = "added" =>
        /\ Cardinality(operator[o].made) = Len(NamesOf(operator[o].args))
        /\ \A id \in operator[o].made : seats[id].there /\ operator[o].args.route \in seats[id].on

(* Two credentials come to share a name only if one was named between the  *)
(* other's look at the names and its write; a pair left over, or so made,  *)
(* stays a pair until it is renamed.                                       *)
TwinsFromRacesOnly == \A i, j \in Enrolled : seats[i].name = seats[j].name => {i, j} \in twins \/ i = j

Candidate(who, name, provider, row) ==
    /\ row.there /\ row.provider = provider /\ name \in row.on
    /\ row.schedulable /\ ~ row.cooling /\ ~ row.held
    /\ row.owner = who \/ (row.owner = NoOne /\ row.kind # "oauth")

(* Where doctor finds nothing wrong, and nothing was written since it      *)
(* began, everybody's request has a credential to go to at every provider  *)
(* of every rung, by the rule requests are given one by.                   *)
HealthyServesAll ==
    \A o \in Operators : operator[o].told = "healthy" /\ operator[o].still =>
        LET name == operator[o].args.route
        IN /\ name \in DOMAIN routes
           /\ \A who \in People, i \in DOMAIN routes[name].tiers :
                 \A p \in routes[name].tiers[i] : \E id \in SeatIds : seats[id].there /\ Candidate(who, name, p, seats[id])

(* What operators enrol at once stays whole: seats are personal, an import *)
(* that succeeded is attached, names double up in races only, and a route  *)
(* doctor calls healthy serves everybody (accounts.rs, doctor.rs).         *)
EnrolmentHolds == SeatsArePersonal /\ AddedIsAttached /\ TwinsFromRacesOnly /\ HealthyServesAll
==============================================================================
