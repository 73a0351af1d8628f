------------------------------ MODULE Services ------------------------------
(***************************************************************************)
(* The catalog of capability services: rows an administrator writes, and   *)
(* the probe every create, update and check makes of the row it holds.     *)
(* Handlers of several administrators interleave at every await, and one   *)
(* whose caller hung up stops where it stands.                             *)
(***************************************************************************)
EXTENDS Integers, Sequences, FiniteSets

CONSTANTS
    Admins, ServiceIds, ServiceNames,
    Sites,          \* base URLs
    DeniedLiterals, \* those that name a link-local or a metadata host
    MaxProbes       \* bound on the probes of one behaviour

ASSUME ServicesAssumption == DeniedLiterals \subseteq Sites /\ MaxProbes \in Nat

VARIABLES
    services,   \* the service table, by id
    admin,      \* the handler each administrator is in
    outcomes,   \* ghost: of each service, the probes recorded, in order
    probed      \* ghost: how many probes were made
serviceVars == <<services, admin, outcomes, probed>>

NoService == [there |-> FALSE, name |-> "", at |-> "", enabled |-> FALSE, ok |-> FALSE, failing |-> FALSE]
NoInput == [name |-> "", at |-> "", enabled |-> "unsaid"]
AdminIdle == [pc |-> "idle", id |-> "", input |-> NoInput, row |-> NoService, found |-> FALSE, told |-> NoService]

-----------------------------------------------------------------------------
(* validate: catalog_url refuses what is denied as it is written; enabled  *)
(* left out means the value the caller hands in.                           *)
Inputs == [name : ServiceNames, at : Sites, enabled : {"yes", "no", "unsaid"}]
UrlAdmitted(at) == at \notin DeniedLiterals
Validates(input) == UrlAdmitted(input.at)
EnabledOr(input, default) == IF input.enabled = "unsaid" THEN default ELSE input.enabled = "yes"

AdminAt(a, pc) == admin[a].pc = pc
Probes(a, id, row) == admin' = [admin EXCEPT ![a].pc = "probe", ![a].id = id, ![a].row = row]
NameTaken(id, name) == \E other \in ServiceIds \ {id} : services[other].there /\ services[other].name = name

(* create_service: INSERT leaves enabled to its default.                   *)
CreateService(a, id, input) ==
    LET row == [there |-> TRUE, name |-> input.name, at |-> input.at, enabled |-> TRUE, ok |-> FALSE, failing |-> FALSE]
    IN /\ AdminAt(a, "idle") /\ Validates(input)
       /\ ~ services[id].there /\ ~ NameTaken(id, input.name)
       /\ services' = [services EXCEPT ![id] = row]
       /\ Probes(a, id, row) /\ UNCHANGED <<outcomes, probed>>

(* update_service: the row is read, and written later with every column;   *)
(* the health columns are not among them.                                  *)
BeginUpdate(a, id, input) ==
    /\ AdminAt(a, "idle") /\ services[id].there /\ Validates(input)
    /\ admin' = [admin EXCEPT ![a] = [AdminIdle EXCEPT !.pc = "write", !.id = id, !.input = input, !.row = services[id]]]
    /\ UNCHANGED <<services, outcomes, probed>>
UpdateService(a) ==
    LET id == admin[a].id
        input == admin[a].input
        row == [services[id] EXCEPT !.name = input.name, !.at = input.at,
                                    !.enabled = EnabledOr(input, admin[a].row.enabled)]
    IN /\ AdminAt(a, "write")
       /\ IF NameTaken(id, input.name) THEN admin' = [admin EXCEPT ![a] = AdminIdle] /\ UNCHANGED services
          ELSE services' = [services EXCEPT ![id] = row] /\ Probes(a, id, row)
       /\ UNCHANGED <<outcomes, probed>>

SetEnabled(a, id, enabled) ==
    /\ AdminAt(a, "idle") /\ services[id].there
    /\ services' = [services EXCEPT ![id].enabled = enabled]
    /\ UNCHANGED <<admin, outcomes, probed>>
CheckService(a, id) ==
    /\ AdminAt(a, "idle") /\ services[id].there
    /\ Probes(a, id, services[id]) /\ UNCHANGED <<services, outcomes, probed>>

(* probe_health: a name that resolves to a denied address, no answer and   *)
(* an answer that is no success are all a failure.                         *)
ProbeHealth(a) ==
    /\ AdminAt(a, "probe") /\ probed < MaxProbes /\ probed' = probed + 1
    /\ \E answered \in BOOLEAN :
          admin' = [admin EXCEPT ![a].pc = "record", ![a].found = answered]
    /\ UNCHANGED <<services, outcomes>>

(* record_service_health, and what is answered when it could not.          *)
Recorded(row, ok) == [row EXCEPT !.ok = @ \/ ok, !.failing = ~ ok]
FallbackKeepsOk(row, ok) == [row EXCEPT !.failing = ~ ok]
Fallback(row, ok) == [row EXCEPT !.ok = @ \/ ok, !.failing = ~ ok]
RecordsHealth(a) ==
    LET id == admin[a].id
        row == Recorded(services[id], admin[a].found)
    IN /\ AdminAt(a, "record")
       /\ services' = [services EXCEPT ![id] = row]
       /\ outcomes' = [outcomes EXCEPT ![id] = Append(@, admin[a].found)]
       /\ admin' = [admin EXCEPT ![a].pc = "answered", ![a].told = row]
       /\ UNCHANGED probed
CannotRecord(a) ==
    /\ AdminAt(a, "record")
    /\ admin' = [admin EXCEPT ![a].pc = "answered", ![a].told = Fallback(admin[a].row, admin[a].found)]
    /\ UNCHANGED <<services, outcomes, probed>>
AdminLeaves(a) ==
    /\ ~ AdminAt(a, "idle") /\ admin' = [admin EXCEPT ![a] = AdminIdle]
    /\ UNCHANGED <<services, outcomes, probed>>

(* view: the health a row is shown with.                                   *)
Health(row) ==
    IF ~ row.enabled THEN "disabled" ELSE IF row.failing THEN "error" ELSE IF row.ok THEN "ok" ELSE "unknown"

ServiceInit ==
    /\ services = [id \in ServiceIds |-> NoService] /\ admin = [a \in Admins |-> AdminIdle]
    /\ outcomes = [id \in ServiceIds |-> <<>>] /\ probed = 0
AdminStep(a) ==
    \/ \E id \in ServiceIds, input \in Inputs : CreateService(a, id, input) \/ BeginUpdate(a, id, input)
    \/ \E id \in ServiceIds : CheckService(a, id) \/ \E enabled \in BOOLEAN : SetEnabled(a, id, enabled)
    \/ UpdateService(a) \/ ProbeHealth(a) \/ RecordsHealth(a) \/ CannotRecord(a) \/ AdminLeaves(a)
ServiceNext == \E a \in Admins : AdminStep(a)
ServiceSpec == ServiceInit /\ [][ServiceNext]_serviceVars

-----------------------------------------------------------------------------
(* A probe is told to whoever asked for it as it went, recorded or not and *)
(* whatever other handlers wrote meanwhile; and the catalog shows what the *)
(* last recorded probe found, with a service that ever answered still      *)
(* known to have.                                                          *)
HealthIsWhatProbesFound ==
    /\ \A a \in Admins : AdminAt(a, "answered") =>
          Health(admin[a].told) \in {"disabled", IF admin[a].found THEN "ok" ELSE "error"}
    /\ \A id \in ServiceIds :
          /\ services[id].ok <=> \E i \in DOMAIN outcomes[id] : outcomes[id][i]
          /\ services[id].failing <=> outcomes[id] # <<>> /\ ~ outcomes[id][Len(outcomes[id])]
=============================================================================
