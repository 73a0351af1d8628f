---------------------------- MODULE FleetProofs ----------------------------
(***************************************************************************)
(* The proofs about what the replicas of a fleet share: the endpoint       *)
(* table, the model catalog, the capability services, the schema and the   *)
(* credentials and routes operators enrol.                                 *)
(***************************************************************************)
EXTENDS Endpoints, ModelRows, Services, Schema, Enrolment, FiniteSetTheorems, WellFoundedInduction, TLAPS

LEMMA AppendGrows ==
    ASSUME NEW S, NEW seq \in Seq(S), NEW e \in S
    PROVE  /\ Append(seq, e) \in Seq(S) /\ Append(seq, e) # << >>
           /\ Len(Append(seq, e)) = Len(seq) + 1 /\ Len(seq) + 1 \notin DOMAIN seq
           /\ DOMAIN Append(seq, e) = DOMAIN seq \cup {Len(seq) + 1}
           /\ Append(seq, e)[Len(seq) + 1] = e
           /\ \A i \in DOMAIN seq : Append(seq, e)[i] = seq[i]
  OBVIOUS

------------------------------------------------------------------------------
(***************************************************************************)
(* Capability services.  A handler past its first await holds the id of a  *)
(* row that is there, rows are never deleted, and no probe of a row is     *)
(* recorded before the row is: so an insert cannot wipe what a probe       *)
(* found, and the health columns are changed by nothing but records.       *)
(***************************************************************************)
AdminPcs == {"idle", "write", "probe", "record", "answered"}
ServiceRows == [there : BOOLEAN, name : ServiceNames \cup {""}, at : Sites \cup {""},
                enabled : BOOLEAN, ok : BOOLEAN, failing : BOOLEAN]
AdminStates == [pc : AdminPcs, id : ServiceIds \cup {""}, input : Inputs \cup {NoInput}, row : ServiceRows,
                found : BOOLEAN, told : ServiceRows]

ServiceTypeOK ==
    /\ services \in [ServiceIds -> ServiceRows]
    /\ admin \in [Admins -> AdminStates]
    /\ outcomes \in [ServiceIds -> Seq(BOOLEAN)]

HandlersHoldRows ==
    \A a \in Admins : admin[a].pc \in {"write", "probe", "record"} =>
        /\ admin[a].id \in ServiceIds /\ services[admin[a].id].there
        /\ admin[a].pc = "write" => admin[a].input \in Inputs
NothingProbedBeforeItIs == \A id \in ServiceIds : ~ services[id].there => outcomes[id] = << >>
ToldAsFound ==
    \A a \in Admins : AdminAt(a, "answered") =>
        Health(admin[a].told) \in {"disabled", IF admin[a].found THEN "ok" ELSE "error"}
ShownAsRecorded(row, found) ==
    /\ row.ok <=> \E i \in DOMAIN found : found[i]
    /\ row.failing <=> found # << >> /\ ~ found[Len(found)]
RowsShown == \A id \in ServiceIds : ShownAsRecorded(services[id], outcomes[id])

ServiceInv == ServiceTypeOK /\ HandlersHoldRows /\ NothingProbedBeforeItIs /\ ToldAsFound /\ RowsShown

(* Whoever was asked for a probe and recorded it, or could not, tells of   *)
(* it what it found.                                                       *)
LEMMA RecordedHealth ==
    ASSUME NEW row \in ServiceRows, NEW ok \in BOOLEAN
    PROVE  /\ Recorded(row, ok) \in ServiceRows /\ Fallback(row, ok) = Recorded(row, ok)
           /\ Recorded(row, ok).there = row.there
           /\ Recorded(row, ok).ok <=> (row.ok \/ ok)
           /\ Recorded(row, ok).failing <=> ~ ok
           /\ Health(Recorded(row, ok)) \in {"disabled", IF ok THEN "ok" ELSE "error"}
<1>1. /\ Recorded(row, ok) \in ServiceRows /\ Fallback(row, ok) = Recorded(row, ok)
      /\ Recorded(row, ok).there = row.there /\ Recorded(row, ok).enabled = row.enabled
      /\ Recorded(row, ok).ok = (row.ok \/ ok) /\ Recorded(row, ok).failing = ~ ok
  BY DEF ServiceRows, Recorded, Fallback
<1>2. Health(Recorded(row, ok)) \in {"disabled", IF ok THEN "ok" ELSE "error"}
  BY <1>1 DEF Health
<1> QED BY <1>1, <1>2

(* The history with one more probe in it shows as the row with that probe  *)
(* recorded.                                                               *)
LEMMA RecordShows ==
    ASSUME NEW row \in ServiceRows, NEW found \in Seq(BOOLEAN), NEW ok \in BOOLEAN,
           ShownAsRecorded(row, found)
    PROVE  ShownAsRecorded(Recorded(row, ok), Append(found, ok))
<1> DEFINE more == Append(found, ok)
<1>1. /\ more # << >> /\ Len(more) = Len(found) + 1 /\ DOMAIN more = DOMAIN found \cup {Len(more)}
      /\ more[Len(more)] = ok /\ \A i \in DOMAIN found : more[i] = found[i]
  BY AppendGrows
<1> HIDE DEF more
<1>2. Recorded(row, ok).ok <=> (row.ok \/ ok)
  BY RecordedHealth
<1>3. Recorded(row, ok).failing <=> ~ ok
  BY RecordedHealth
<1>4. (\E i \in DOMAIN more : more[i]) <=> ((\E i \in DOMAIN found : found[i]) \/ ok)
  BY <1>1
<1>5. ShownAsRecorded(Recorded(row, ok), more)
  BY <1>1, <1>2, <1>3, <1>4 DEF ShownAsRecorded
<1> QED BY <1>5 DEF more

LEMMA ServiceInitInv == ServiceInit => ServiceInv
<1> SUFFICES ASSUME ServiceInit PROVE ServiceInv
  OBVIOUS
<1>1. NoService \in ServiceRows /\ AdminIdle \in AdminStates
  BY DEF NoService, AdminIdle, ServiceRows, AdminStates, AdminPcs
<1>2. ServiceTypeOK
  BY <1>1 DEF ServiceInit, ServiceTypeOK
<1>3. HandlersHoldRows /\ ToldAsFound
  BY DEF ServiceInit, HandlersHoldRows, ToldAsFound, AdminAt, AdminIdle
<1>4. NothingProbedBeforeItIs
  BY DEF ServiceInit, NothingProbedBeforeItIs
<1>5. RowsShown
  <2>1. \A id \in ServiceIds : services[id] = NoService /\ outcomes[id] = << >>
    BY DEF ServiceInit
  <2>2. ~ NoService.ok /\ ~ NoService.failing
    BY DEF NoService
  <2>3. DOMAIN << >> = {}
    OBVIOUS
  <2>4. ShownAsRecorded(NoService, << >>)
    BY <2>2, <2>3 DEF ShownAsRecorded
  <2> QED BY <2>1, <2>4 DEF RowsShown
<1> QED BY <1>2, <1>3, <1>4, <1>5 DEF ServiceInv

(* A write that leaves the health columns of a row that is there alone, or *)
(* makes a row that was not: whatever the handler does next.               *)
LEMMA ServiceWritten ==
    ASSUME ServiceInv, NEW a \in Admins, NEW id \in ServiceIds, NEW row \in ServiceRows, NEW s \in AdminStates,
           services' = [services EXCEPT ![id] = row], admin' = [admin EXCEPT ![a] = s], UNCHANGED outcomes,
           row.there, row.ok = services[id].ok, row.failing = services[id].failing,
           (s.pc = "probe" /\ s.id = id) \/ s = admin[a]
    PROVE  ServiceInv'
<1> USE DEF ServiceInv
<1>0. /\ \A x \in Admins : admin'[x] = IF x = a THEN s ELSE admin[x]
      /\ \A i \in ServiceIds : services'[i] = IF i = id THEN row ELSE services[i]
  BY DEF ServiceTypeOK
<1>1. ServiceTypeOK'
  BY DEF ServiceTypeOK
<1>2. HandlersHoldRows'
  BY <1>0 DEF HandlersHoldRows
<1>3. NothingProbedBeforeItIs'
  BY <1>0 DEF NothingProbedBeforeItIs
<1>4. ToldAsFound'
  BY <1>0 DEF ToldAsFound, AdminAt
<1>5. RowsShown'
  <2> SUFFICES ASSUME NEW i \in ServiceIds PROVE ShownAsRecorded(services[i], outcomes[i])'
    BY DEF RowsShown
  <2>1. services'[i].ok = services[i].ok /\ services'[i].failing = services[i].failing
    BY <1>0
  <2>2. ShownAsRecorded(services[i], outcomes[i])
    BY DEF RowsShown
  <2> QED BY <2>1, <2>2 DEF ShownAsRecorded
<1> QED BY <1>1, <1>2, <1>3, <1>4, <1>5

(* A handler that moves on and writes nothing.                             *)
LEMMA AdminMoves ==
    ASSUME ServiceInv, NEW a \in Admins, NEW s \in AdminStates,
           admin' = [admin EXCEPT ![a] = s], UNCHANGED <<services, outcomes>>,
           s.pc \in {"write", "probe", "record"} => s.id \in ServiceIds /\ services[s.id].there,
           s.pc = "write" => s.input \in Inputs,
           s.pc = "answered" => Health(s.told) \in {"disabled", IF s.found THEN "ok" ELSE "error"}
    PROVE  ServiceInv'
<1> USE DEF ServiceInv
<1>0. \A x \in Admins : admin'[x] = IF x = a THEN s ELSE admin[x]
  BY DEF ServiceTypeOK
<1>1. ServiceTypeOK'
  BY DEF ServiceTypeOK
<1>2. HandlersHoldRows'
  BY <1>0 DEF HandlersHoldRows
<1>3. NothingProbedBeforeItIs' /\ RowsShown'
  BY DEF NothingProbedBeforeItIs, RowsShown
<1>4. ToldAsFound'
  BY <1>0 DEF ToldAsFound, AdminAt
<1> QED BY <1>1, <1>2, <1>3, <1>4

LEMMA ServiceStepInv == ServiceInv /\ [ServiceNext]_serviceVars => ServiceInv'
<1> SUFFICES ASSUME ServiceInv, [ServiceNext]_serviceVars PROVE ServiceInv'
  OBVIOUS
<1>0. ServiceTypeOK /\ HandlersHoldRows
  BY DEF ServiceInv
<1>1. ASSUME NEW a \in Admins, NEW id \in ServiceIds, NEW input \in Inputs, CreateService(a, id, input) PROVE ServiceInv'
  <2> DEFINE row == [there |-> TRUE, name |-> input.name, at |-> input.at, enabled |-> TRUE, ok |-> FALSE, failing |-> FALSE]
             s == [admin[a] EXCEPT !.pc = "probe", !.id = id, !.row = row]
  <2>1. row \in ServiceRows /\ row.there /\ row.ok = FALSE /\ row.failing = FALSE
    BY DEF Inputs, ServiceRows
  <2>2. services' = [services EXCEPT ![id] = row] /\ admin' = [admin EXCEPT ![a] = s] /\ UNCHANGED outcomes
    BY <1>0, <1>1 DEF CreateService, Probes, ServiceTypeOK, AdminStates
  <2>3. s \in AdminStates /\ s.pc = "probe" /\ s.id = id
    BY <1>0, <2>1 DEF ServiceTypeOK, AdminStates, AdminPcs
  <2>4. services[id].ok = FALSE /\ services[id].failing = FALSE
    <3>1. outcomes[id] = << >> /\ ShownAsRecorded(services[id], outcomes[id])
      BY <1>1 DEF CreateService, ServiceInv, NothingProbedBeforeItIs, RowsShown
    <3>2. services[id].ok \in BOOLEAN /\ services[id].failing \in BOOLEAN
      BY <1>0 DEF ServiceTypeOK, ServiceRows
    <3>3. ~ services[id].ok /\ ~ services[id].failing
      BY <3>1 DEF ShownAsRecorded
    <3> QED BY <3>2, <3>3
  <2> HIDE DEF row, s
  <2> QED BY <2>1, <2>2, <2>3, <2>4, ServiceWritten
<1>2. ASSUME NEW a \in Admins, UpdateService(a) PROVE ServiceInv'
  <2> DEFINE id == admin[a].id
             input == admin[a].input
             row == [services[id] EXCEPT !.name = input.name, !.at = input.at,
                                         !.enabled = EnabledOr(input, admin[a].row.enabled)]
             s == [admin[a] EXCEPT !.pc = "probe", !.id = id, !.row = row]
  <2>1. id \in ServiceIds /\ services[id].there /\ input \in Inputs /\ services[id] \in ServiceRows /\ admin[a] \in AdminStates
    BY <1>0, <1>2 DEF UpdateService, AdminAt, HandlersHoldRows, ServiceTypeOK
  <2>2. EnabledOr(input, admin[a].row.enabled) \in BOOLEAN
    BY <2>1 DEF EnabledOr, AdminStates, ServiceRows
  <2>3. /\ row \in ServiceRows /\ row.there = services[id].there
        /\ row.ok = services[id].ok /\ row.failing = services[id].failing
    BY <2>1, <2>2 DEF ServiceRows, Inputs
  <2>4. s \in AdminStates /\ s.pc = "probe" /\ s.id = id
    BY <2>1, <2>3 DEF AdminStates, AdminPcs
  <2>5. CASE NameTaken(id, input.name)
    <3>1. AdminIdle \in AdminStates /\ AdminIdle.pc = "idle"
      BY DEF NoService, AdminIdle, ServiceRows, AdminStates, AdminPcs
    <3>2. admin' = [admin EXCEPT ![a] = AdminIdle] /\ UNCHANGED <<services, outcomes>>
      BY <1>2, <2>5 DEF UpdateService
    <3> QED BY <3>1, <3>2, AdminMoves
  <2>6. CASE ~ NameTaken(id, input.name)
    <3>1. services' = [services EXCEPT ![id] = row] /\ admin' = [admin EXCEPT ![a] = s] /\ UNCHANGED outcomes
      BY <1>0, <1>2, <2>6 DEF UpdateService, Probes, ServiceTypeOK, AdminStates
    <3> HIDE DEF id, input, row, s
    <3> QED BY <2>1, <2>3, <2>4, <3>1, ServiceWritten
  <2> QED BY <2>5, <2>6
<1>3. ASSUME NEW a \in Admins, NEW id \in ServiceIds, NEW enabled \in BOOLEAN, SetEnabled(a, id, enabled) PROVE ServiceInv'
  <2> DEFINE row == [services[id] EXCEPT !.enabled = enabled]
  <2>1. row \in ServiceRows /\ row.ok = services[id].ok /\ row.failing = services[id].failing /\ row.there = services[id].there
    BY <1>0 DEF ServiceTypeOK, ServiceRows
  <2>2. services' = [services EXCEPT ![id] = row] /\ services[id].there /\ UNCHANGED <<admin, outcomes>>
    BY <1>3 DEF SetEnabled
  <2>3. admin' = [admin EXCEPT ![a] = admin[a]] /\ admin[a] \in AdminStates
    BY <1>0, <2>2 DEF ServiceTypeOK
  <2> HIDE DEF row
  <2> QED BY <2>1, <2>2, <2>3, ServiceWritten
<1>4. ASSUME NEW a \in Admins, RecordsHealth(a) PROVE ServiceInv'
  <2> USE DEF ServiceInv
  <2> DEFINE id == admin[a].id
             ok == admin[a].found
             row == Recorded(services[id], ok)
             s == [admin[a] EXCEPT !.pc = "answered", !.told = row]
  <2>1. id \in ServiceIds /\ services[id].there /\ services[id] \in ServiceRows /\ ok \in BOOLEAN /\ admin[a] \in AdminStates
    BY <1>0, <1>4 DEF RecordsHealth, AdminAt, HandlersHoldRows, ServiceTypeOK, AdminStates
  <2>2. row \in ServiceRows /\ row.there = services[id].there /\ Health(row) \in {"disabled", IF ok THEN "ok" ELSE "error"}
    BY <2>1, RecordedHealth
  <2>3. s \in AdminStates /\ s.pc = "answered" /\ s.told = row /\ s.found = ok
    BY <2>1, <2>2 DEF AdminStates, AdminPcs
  <2>4. /\ services' = [services EXCEPT ![id] = row] /\ admin' = [admin EXCEPT ![a] = s]
        /\ outcomes' = [outcomes EXCEPT ![id] = Append(outcomes[id], ok)]
    BY <1>0, <1>4 DEF RecordsHealth, ServiceTypeOK, AdminStates
  <2>5. ShownAsRecorded(row, Append(outcomes[id], ok)) /\ Append(outcomes[id], ok) \in Seq(BOOLEAN)
    BY <1>0, <2>1, RecordShows, AppendGrows DEF RowsShown, ServiceTypeOK
  <2> HIDE DEF id, ok, row, s
  <2>6. /\ \A x \in Admins : admin'[x] = IF x = a THEN s ELSE admin[x]
        /\ \A i \in ServiceIds : services'[i] = IF i = id THEN row ELSE services[i]
        /\ \A i \in ServiceIds : outcomes'[i] = IF i = id THEN Append(outcomes[id], ok) ELSE outcomes[i]
    BY <1>0, <2>1, <2>4 DEF ServiceTypeOK
  <2>7. ServiceTypeOK'
    BY <1>0, <2>2, <2>3, <2>4, <2>5 DEF ServiceTypeOK
  <2>8. HandlersHoldRows'
    <3>1. \A i \in ServiceIds : services'[i].there = services[i].there
      BY <2>2, <2>6
    <3>2. \A x \in Admins : admin'[x].pc \in {"write", "probe", "record"} => admin'[x] = admin[x]
      BY <2>3, <2>6
    <3> QED BY <3>1, <3>2 DEF HandlersHoldRows
  <2>9. NothingProbedBeforeItIs'
    BY <2>1, <2>2, <2>6 DEF NothingProbedBeforeItIs
  <2>10. ToldAsFound'
    BY <2>2, <2>3, <2>6 DEF ToldAsFound, AdminAt
  <2>11. RowsShown'
    BY <2>5, <2>6 DEF RowsShown
  <2> QED BY <2>7, <2>8, <2>9, <2>10, <2>11
<1>5. ASSUME NEW a \in Admins, CannotRecord(a) PROVE ServiceInv'
  <2> DEFINE s == [admin[a] EXCEPT !.pc = "answered", !.told = Fallback(admin[a].row, admin[a].found)]
  <2>1. admin[a] \in AdminStates /\ admin[a].row \in ServiceRows /\ admin[a].found \in BOOLEAN
    BY <1>0 DEF ServiceTypeOK, AdminStates
  <2>2. /\ Fallback(admin[a].row, admin[a].found) \in ServiceRows
        /\ Health(Fallback(admin[a].row, admin[a].found)) \in {"disabled", IF admin[a].found THEN "ok" ELSE "error"}
    BY <2>1, RecordedHealth
  <2>3. s \in AdminStates /\ s.pc = "answered" /\ s.told = Fallback(admin[a].row, admin[a].found) /\ s.found = admin[a].found
    BY <2>1, <2>2 DEF AdminStates, AdminPcs
  <2>4. admin' = [admin EXCEPT ![a] = s] /\ UNCHANGED <<services, outcomes>>
    BY <1>0, <1>5 DEF CannotRecord, ServiceTypeOK, AdminStates
  <2> HIDE DEF s
  <2> QED BY <2>2, <2>3, <2>4, AdminMoves
<1>6. ASSUME NEW a \in Admins, NEW id \in ServiceIds, NEW input \in Inputs, BeginUpdate(a, id, input) PROVE ServiceInv'
  <2> DEFINE s == [AdminIdle EXCEPT !.pc = "write", !.id = id, !.input = input, !.row = services[id]]
  <2>1. NoService \in ServiceRows /\ services[id] \in ServiceRows
    BY <1>0 DEF ServiceTypeOK, NoService, ServiceRows
  <2>2. s \in AdminStates /\ s.pc = "write" /\ s.id = id /\ s.input = input
    BY <2>1 DEF AdminIdle, AdminStates, AdminPcs
  <2>3. admin' = [admin EXCEPT ![a] = s] /\ UNCHANGED <<services, outcomes>> /\ services[id].there
    BY <1>6 DEF BeginUpdate
  <2> HIDE DEF s
  <2> QED BY <2>2, <2>3, AdminMoves
<1>7. ASSUME NEW a \in Admins, NEW id \in ServiceIds, CheckService(a, id) PROVE ServiceInv'
  <2> DEFINE s == [admin[a] EXCEPT !.pc = "probe", !.id = id, !.row = services[id]]
  <2>1. admin[a] \in AdminStates /\ services[id] \in ServiceRows
    BY <1>0 DEF ServiceTypeOK
  <2>2. s \in AdminStates /\ s.pc = "probe" /\ s.id = id
    BY <2>1 DEF AdminStates, AdminPcs
  <2>3. admin' = [admin EXCEPT ![a] = s] /\ UNCHANGED <<services, outcomes>> /\ services[id].there
    BY <1>0, <1>7 DEF CheckService, Probes, ServiceTypeOK, AdminStates
  <2> HIDE DEF s
  <2> QED BY <2>2, <2>3, AdminMoves
<1>8. ASSUME NEW a \in Admins, ProbeHealth(a) PROVE ServiceInv'
  <2>1. PICK ok \in BOOLEAN : admin' = [admin EXCEPT ![a].pc = "record", ![a].found = ok]
    BY <1>8 DEF ProbeHealth
  <2> DEFINE s == [admin[a] EXCEPT !.pc = "record", !.found = ok]
  <2>2. admin[a] \in AdminStates /\ admin[a].id \in ServiceIds /\ services[admin[a].id].there
    BY <1>0, <1>8 DEF ServiceTypeOK, ProbeHealth, AdminAt, HandlersHoldRows
  <2>3. s \in AdminStates /\ s.pc = "record" /\ s.id = admin[a].id
    BY <2>2 DEF AdminStates, AdminPcs
  <2>4. admin' = [admin EXCEPT ![a] = s] /\ UNCHANGED <<services, outcomes>>
    BY <1>0, <1>8, <2>1 DEF ProbeHealth, ServiceTypeOK, AdminStates
  <2> HIDE DEF s
  <2> QED BY <2>2, <2>3, <2>4, AdminMoves
<1>9. ASSUME NEW a \in Admins, AdminLeaves(a) PROVE ServiceInv'
  <2>1. AdminIdle \in AdminStates /\ AdminIdle.pc = "idle"
    BY DEF NoService, AdminIdle, ServiceRows, AdminStates, AdminPcs
  <2>2. admin' = [admin EXCEPT ![a] = AdminIdle] /\ UNCHANGED <<services, outcomes>>
    BY <1>9 DEF AdminLeaves
  <2> QED BY <2>1, <2>2, AdminMoves
<1>10. CASE UNCHANGED serviceVars
  BY <1>10 DEF serviceVars, ServiceInv, ServiceTypeOK, HandlersHoldRows, NothingProbedBeforeItIs, ToldAsFound,
               RowsShown, AdminAt
<1> QED BY <1>1, <1>2, <1>3, <1>4, <1>5, <1>6, <1>7, <1>8, <1>9, <1>10 DEF ServiceNext, AdminStep

(* However many administrators write, check and hang up on the same        *)
(* services: whoever is told of a probe is told what it found, and a row   *)
(* shows what the last recorded probe found (services.rs probe_and_record  *)
(* and view).                                                              *)
THEOREM ServiceHealth == ServiceSpec => []HealthIsWhatProbesFound
<1>1. ServiceInv => HealthIsWhatProbesFound
  BY DEF ServiceInv, HealthIsWhatProbesFound, ToldAsFound, RowsShown, ShownAsRecorded
<1> QED BY ServiceInitInv, ServiceStepInv, <1>1, PTL DEF ServiceSpec

------------------------------------------------------------------------------
(***************************************************************************)
(* Migrations.  Whoever is past the lock holds it, so nobody else changes  *)
(* what is recorded between a migrator's look at it and its writes: what   *)
(* is left to apply is what it carries and is not recorded, in order.      *)
(* Only the first migration was ever edited, and what was neither released *)
(* nor adopted stays as it is.                                             *)
(***************************************************************************)
MigratorPcs == {"idle", "lock", "adopt", "run", "apply", "failing", "red", "green"}
MigratorRecs == [pc : MigratorPcs, todo : SUBSET Nat, lifted : BOOLEAN, cause : BOOLEAN]
Holding == {"adopt", "run", "apply", "failing"}
Edited == \E v \in DOMAIN applied : applied[v] = "edited"

AppliedOK ==
    /\ \E n \in Nat : DOMAIN applied = 1..n
    /\ \A v \in DOMAIN applied : applied[v] \in {"v0.1.0", "current", "edited"} /\ (v # 1 => applied[v] = "current")
MigratorOK(m) ==
    /\ migrator[m].pc \in Holding <=> lock = m
    /\ Running(m) => migrator[m].lifted
    /\ migrator[m].pc = "run" => \A v \in Carries(m) \cap DOMAIN applied : applied[v] \notin Superseded(v)
    /\ migrator[m].pc = "apply" => migrator[m].todo = Carries(m) \ DOMAIN applied
    /\ migrator[m].pc = "apply" => \A v \in Carries(m) \cap DOMAIN applied : applied[v] = Checksum(v)
    /\ migrator[m].pc \in {"red", "failing"} => migrator[m].cause \/ Edited
    /\ migrator[m].pc = "green" => \A v \in Carries(m) : v \in DOMAIN applied /\ applied[v] = Checksum(v)
DeployInv ==
    /\ migrator \in [Migrators -> MigratorRecs] /\ lock \in Migrators \cup {Unheld}
    /\ AppliedOK /\ \A m \in Migrators : MigratorOK(m)

LEMMA NewlyOK ==
    /\ Newly \in MigratorRecs /\ Newly.pc = "idle"
    /\ [Newly EXCEPT !.pc = "lock", !.lifted = TRUE] \in MigratorRecs
    /\ [Newly EXCEPT !.pc = "lock", !.lifted = TRUE].pc = "lock"
    /\ [Newly EXCEPT !.pc = "lock", !.lifted = TRUE].lifted
    /\ [Newly EXCEPT !.pc = "red", !.cause = TRUE] \in MigratorRecs
    /\ [Newly EXCEPT !.pc = "red", !.cause = TRUE].pc = "red"
    /\ [Newly EXCEPT !.pc = "red", !.cause = TRUE].cause
  BY DEF Newly, MigratorRecs, MigratorPcs

LEMMA DeployInitInv == SchemaInit => DeployInv
<1> SUFFICES ASSUME SchemaInit PROVE DeployInv
  OBVIOUS
<1>1. migrator \in [Migrators -> MigratorRecs] /\ lock = Unheld /\ \A m \in Migrators : migrator[m].pc = "idle" /\ lock # m
  BY NewlyOK, SchemaAssumption DEF SchemaInit, Unheld
<1>2. AppliedOK
  <2>1. CASE applied = << >>
    <3>1. DOMAIN applied = 1..0
      BY <2>1
    <3> QED BY <3>1 DEF AppliedOK
  <2>2. CASE applied \in [{1} -> {"v0.1.0", "current", "edited"}]
    <3>1. DOMAIN applied = 1..1
      BY <2>2
    <3> QED BY <2>2, <3>1 DEF AppliedOK
  <2> QED BY <2>1, <2>2 DEF SchemaInit
<1>3. \A m \in Migrators : MigratorOK(m)
  BY <1>1 DEF MigratorOK, Holding, Running
<1> QED BY <1>1, <1>2, <1>3 DEF DeployInv

(* A migrator moves on, and the record stays: what the lock says of the    *)
(* others it says still.                                                   *)
LEMMA MigratorMoves ==
    ASSUME DeployInv, NEW m \in Migrators, NEW s \in MigratorRecs, migrator' = [migrator EXCEPT ![m] = s],
           UNCHANGED applied, lock' \in Migrators \cup {Unheld},
           \A x \in Migrators \ {m} : lock' = x <=> lock = x,
           s.pc \in Holding <=> lock' = m,
           s.pc \in Holding \cup {"lock"} => s.lifted,
           s.pc = "run" => \A v \in Carries(m) \cap DOMAIN applied : applied[v] \notin Superseded(v),
           s.pc = "apply" => s.todo = Carries(m) \ DOMAIN applied,
           s.pc = "apply" => \A v \in Carries(m) \cap DOMAIN applied : applied[v] = Checksum(v),
           s.pc \in {"red", "failing"} => s.cause \/ Edited,
           s.pc = "green" => \A v \in Carries(m) : v \in DOMAIN applied /\ applied[v] = Checksum(v)
    PROVE  DeployInv'
<1>1. migrator' \in [Migrators -> MigratorRecs] /\ \A x \in Migrators : migrator'[x] = IF x = m THEN s ELSE migrator[x]
  BY DEF DeployInv
<1>2. AppliedOK' /\ (Edited' <=> Edited)
  BY DEF DeployInv, AppliedOK, Edited
<1>3. MigratorOK(m)'
  BY <1>1, <1>2 DEF MigratorOK, Running, Holding, Carries, Superseded, Checksum
<1>4. ASSUME NEW x \in Migrators, x # m PROVE MigratorOK(x)'
  <2>1. MigratorOK(x) /\ migrator'[x] = migrator[x] /\ (lock' = x <=> lock = x)
    BY <1>1, <1>4 DEF DeployInv
  <2> QED BY <1>2, <2>1 DEF MigratorOK, Running, Carries, Superseded, Checksum
<1> QED BY <1>1, <1>2, <1>3, <1>4 DEF DeployInv

(* The holder of the lock changes what is recorded: nobody else was        *)
(* looking, what succeeded stays recorded and what was edited stays so.    *)
LEMMA RecordChanges ==
    ASSUME DeployInv, NEW m \in Migrators, lock = m, UNCHANGED lock, NEW s \in MigratorRecs,
           migrator' = [migrator EXCEPT ![m] = s], s.pc \in {"run", "apply"}, s.lifted,
           AppliedOK', DOMAIN applied \subseteq DOMAIN applied',
           \A v \in DOMAIN applied : applied'[v] = applied[v] \/ (applied[v] \in Superseded(v) /\ applied'[v] = Checksum(v)),
           s.pc = "run" => \A v \in Carries(m) \cap DOMAIN applied' : applied'[v] \notin Superseded(v),
           s.pc = "apply" => s.todo = Carries(m) \ DOMAIN applied',
           s.pc = "apply" => \A v \in Carries(m) \cap DOMAIN applied' : applied'[v] = Checksum(v)
    PROVE  DeployInv'
<1>1. migrator' \in [Migrators -> MigratorRecs] /\ \A x \in Migrators : migrator'[x] = IF x = m THEN s ELSE migrator[x]
  BY DEF DeployInv
<1>2. Edited => Edited'
  BY DEF Edited, Superseded
<1>3. MigratorOK(m)'
  BY <1>1 DEF MigratorOK, Running, Holding, Carries, Superseded, Checksum
<1>4. ASSUME NEW x \in Migrators, x # m PROVE MigratorOK(x)'
  <2>1. MigratorOK(x) /\ migrator'[x] = migrator[x] /\ lock # x
    BY <1>1, <1>4 DEF DeployInv
  <2>2. migrator[x].pc \notin Holding
    BY <2>1 DEF MigratorOK
  <2>3. \A v \in DOMAIN applied : applied[v] = Checksum(v) => applied'[v] = Checksum(v)
    BY DEF Superseded, Checksum
  <2> QED BY <1>2, <2>1, <2>2, <2>3 DEF MigratorOK, Running, Holding, Carries, Superseded, Checksum
<1> QED BY <1>1, <1>3, <1>4 DEF DeployInv

LEMMA DeployAdopts ==
    ASSUME DeployInv, NEW m \in Migrators, AdoptSupersededChecksums(m) PROVE DeployInv'
<1> DEFINE s == [migrator[m] EXCEPT !.pc = "run"]
<1>1. migrator[m] \in MigratorRecs /\ MigratorOK(m) /\ migrator[m].pc = "adopt" /\ AppliedOK
  BY DEF DeployInv, AdoptSupersededChecksums, Reading
<1>2. s \in MigratorRecs /\ s.pc = "run" /\ s.lifted = migrator[m].lifted /\ migrator' = [migrator EXCEPT ![m] = s]
  BY <1>1 DEF MigratorRecs, MigratorPcs, AdoptSupersededChecksums, MigratorGoes
<1>3. lock = m /\ lock' = lock /\ migrator[m].lifted
  BY <1>1 DEF MigratorOK, Holding, Running, AdoptSupersededChecksums
<1>4. /\ DOMAIN applied' = DOMAIN applied
      /\ \A v \in DOMAIN applied : applied'[v] = IF v \in Carries(m) /\ applied[v] \in Superseded(v) THEN Checksum(v) ELSE applied[v]
  BY DEF AdoptSupersededChecksums
<1>5. AppliedOK'
  BY <1>1, <1>4 DEF AppliedOK, Superseded, Checksum
<1>6. \A v \in Carries(m) \cap DOMAIN applied' : applied'[v] \notin Superseded(v)
  BY <1>4 DEF Superseded, Checksum
<1> HIDE DEF s
<1> QED BY <1>2, <1>3, <1>4, <1>5, <1>6, RecordChanges

(* The next migration is the one after all that are recorded.              *)
LEMMA DeployApplies ==
    ASSUME DeployInv, NEW m \in Migrators, RunApplies(m) PROVE DeployInv'
<1> DEFINE v == CHOOSE w \in migrator[m].todo : \A u \in migrator[m].todo : w <= u
           s == [migrator[m] EXCEPT !.todo = @ \ {v}]
<1>1. /\ migrator[m] \in MigratorRecs /\ MigratorOK(m) /\ migrator[m].pc = "apply" /\ AppliedOK
      /\ migrator[m].todo # {} /\ lock' = lock
  BY DEF DeployInv, RunApplies, Reading
<1>2. lock = m /\ migrator[m].lifted /\ migrator[m].todo = Carries(m) \ DOMAIN applied
  BY <1>1 DEF MigratorOK, Holding, Running
<1>3. PICK n \in Nat : DOMAIN applied = 1..n
  BY <1>1 DEF AppliedOK
<1>4. Embeds[m] \in Nat /\ Carries(m) = 1..Embeds[m]
  BY SchemaAssumption DEF Carries
<1>5. v = n + 1 /\ v \in Carries(m) /\ v \notin DOMAIN applied
  <2>1. n + 1 \in migrator[m].todo /\ \A u \in migrator[m].todo : n + 1 <= u
    BY <1>1, <1>2, <1>3, <1>4
  <2>2. v \in migrator[m].todo /\ \A u \in migrator[m].todo : v <= u
    BY <2>1
  <2> HIDE DEF v
  <2>3. v \in Nat /\ v <= n + 1 /\ n + 1 <= v
    BY <1>2, <1>4, <2>1, <2>2
  <2> QED BY <1>2, <2>2, <2>3
<1>6. /\ DOMAIN applied' = DOMAIN applied \cup {v} /\ migrator' = [migrator EXCEPT ![m].todo = @ \ {v}]
      /\ \A w \in DOMAIN applied' : applied'[w] = IF w = v THEN Checksum(v) ELSE applied[w]
  BY <1>5 DEF RunApplies
<1> HIDE DEF v
<1>7. /\ s \in MigratorRecs /\ s.pc = "apply" /\ s.lifted = migrator[m].lifted /\ s.todo = migrator[m].todo \ {v}
      /\ migrator' = [migrator EXCEPT ![m] = s]
  BY <1>1, <1>6 DEF MigratorRecs
<1>8. AppliedOK'
  <2>1. DOMAIN applied' = 1..(n + 1)
    BY <1>3, <1>5, <1>6
  <2> QED BY <1>1, <1>6, <2>1 DEF AppliedOK, Checksum
<1>9. s.todo = Carries(m) \ DOMAIN applied'
  BY <1>2, <1>6, <1>7
<1>10. \A w \in Carries(m) \cap DOMAIN applied' : applied'[w] = Checksum(w)
  BY <1>1, <1>6 DEF MigratorOK, Checksum
<1>11. \A w \in DOMAIN applied : applied'[w] = applied[w]
  BY <1>5, <1>6
<1> HIDE DEF s
<1> QED BY <1>1, <1>2, <1>6, <1>7, <1>8, <1>9, <1>10, <1>11, RecordChanges

LockDown == postgres \/ lock = Unheld

LEMMA MigratorSteps ==
    ASSUME DeployInv, NEW m \in Migrators,
           \/ MigrateBegins(m) \/ TakesLock(m) \/ RunVerifies(m)
           \/ MigrateEnds(m) \/ MigratorDies(m) \/ MigratesAgain(m)
    PROVE  DeployInv'
<1>1. /\ migrator[m] \in MigratorRecs /\ MigratorOK(m) /\ AppliedOK
      /\ migrator \in [Migrators -> MigratorRecs] /\ lock \in Migrators \cup {Unheld} /\ m # Unheld
      /\ \A x \in Migrators : x # Unheld
  BY SchemaAssumption DEF DeployInv, Unheld
<1>2. CASE MigrateBegins(m)
  <2>1. lock # m /\ lock' = lock /\ applied' = applied
    BY <1>1, <1>2 DEF MigrateBegins, Reading, MigratorOK, Holding
  <2> QED BY ONLY <1>1, <2>1, DeployInv, m \in Migrators, <1>2, NewlyOK, MigratorMoves DEF MigrateBegins, Holding
<1>3. CASE TakesLock(m)
  <2> DEFINE s == [migrator[m] EXCEPT !.pc = "adopt"]
  <2>1. s \in MigratorRecs /\ s.pc = "adopt" /\ s.lifted /\ migrator' = [migrator EXCEPT ![m] = s]
    BY <1>1, <1>3 DEF MigratorRecs, MigratorPcs, TakesLock, MigratorGoes, Reading, MigratorOK, Running
  <2>2. lock' = m /\ lock = Unheld /\ applied' = applied
    BY <1>3 DEF TakesLock
  <2> HIDE DEF s
  <2> QED BY ONLY <1>1, <2>1, <2>2, DeployInv, m \in Migrators, MigratorMoves DEF Holding
<1>4. CASE RunVerifies(m)
  <2>0. lock = m /\ lock' = lock /\ applied' = applied /\ migrator[m].lifted /\ migrator[m].pc = "run"
    BY <1>1, <1>4 DEF RunVerifies, Reading, MigratorOK, Holding, Running
  <2>1. CASE \E v \in DOMAIN applied \cap Carries(m) : applied[v] # Checksum(v)
    <3> DEFINE s == [migrator[m] EXCEPT !.pc = "failing"]
    <3>1. s \in MigratorRecs /\ s.pc = "failing" /\ s.lifted /\ migrator' = [migrator EXCEPT ![m] = s]
      BY <1>1, <1>4, <2>0, <2>1 DEF MigratorRecs, MigratorPcs, RunVerifies, MigratorGoes
    <3>2. Edited
      BY <1>1, <2>0, <2>1 DEF MigratorOK, AppliedOK, Superseded, Checksum, Edited
    <3> HIDE DEF s
    <3> QED BY ONLY <1>1, <2>0, <3>1, <3>2, DeployInv, m \in Migrators, MigratorMoves DEF Holding
  <2>2. CASE ~ \E v \in DOMAIN applied \cap Carries(m) : applied[v] # Checksum(v)
    <3> DEFINE s == [migrator[m] EXCEPT !.pc = "apply", !.todo = Carries(m) \ DOMAIN applied]
    <3>0. Carries(m) \subseteq Nat
      BY SchemaAssumption DEF Carries
    <3>1. /\ s \in MigratorRecs /\ s.pc = "apply" /\ s.lifted /\ s.todo = Carries(m) \ DOMAIN applied
          /\ migrator' = [migrator EXCEPT ![m] = s]
      BY <1>1, <1>4, <2>0, <2>2, <3>0 DEF MigratorRecs, MigratorPcs, RunVerifies
    <3> HIDE DEF s
    <3> QED BY ONLY <1>1, <2>0, <2>2, <3>1, DeployInv, m \in Migrators, MigratorMoves DEF Holding
  <2> QED BY <2>1, <2>2
<1>5. CASE MigrateEnds(m)
  <2>0. lock = m /\ lock' = Unheld /\ applied' = applied
    BY <1>1, <1>5 DEF MigrateEnds, MigratorOK, Holding
  <2>1. CASE migrator[m].pc = "failing"
    <3> DEFINE s == [migrator[m] EXCEPT !.pc = "red", !.lifted = FALSE]
    <3>1. s \in MigratorRecs /\ s.pc = "red" /\ s.cause = migrator[m].cause /\ migrator' = [migrator EXCEPT ![m] = s]
      BY <1>1, <1>5, <2>1 DEF MigratorRecs, MigratorPcs, MigrateEnds
    <3>2. s.cause \/ Edited
      BY <1>1, <2>1, <3>1 DEF MigratorOK
    <3> HIDE DEF s
    <3> QED BY ONLY <1>1, <2>0, <3>1, <3>2, DeployInv, m \in Migrators, MigratorMoves DEF Holding
  <2>2. CASE migrator[m].pc = "apply"
    <3> DEFINE s == [migrator[m] EXCEPT !.pc = "green", !.lifted = FALSE]
    <3>1. s \in MigratorRecs /\ s.pc = "green" /\ migrator' = [migrator EXCEPT ![m] = s]
      BY <1>1, <1>5, <2>2 DEF MigratorRecs, MigratorPcs, MigrateEnds
    <3>2. \A v \in Carries(m) : v \in DOMAIN applied /\ applied[v] = Checksum(v)
      BY <1>1, <1>5, <2>2 DEF MigratorOK, MigrateEnds
    <3> HIDE DEF s
    <3> QED BY ONLY <1>1, <2>0, <3>1, <3>2, DeployInv, m \in Migrators, MigratorMoves DEF Holding
  <2> QED BY <1>5, <2>1, <2>2 DEF MigrateEnds
<1>6. CASE MigratorDies(m)
  <2>1. lock' = (IF lock = m THEN Unheld ELSE lock) /\ applied' = applied
    BY <1>6 DEF MigratorDies
  <2> QED BY ONLY <1>1, <2>1, DeployInv, m \in Migrators, <1>6, NewlyOK, MigratorMoves DEF MigratorDies, Holding
<1>7. CASE MigratesAgain(m)
  <2>1. lock # m /\ lock' = lock /\ applied' = applied
    BY <1>1, <1>7 DEF MigratesAgain, MigratorOK, Holding
  <2> QED BY ONLY <1>1, <2>1, DeployInv, m \in Migrators, <1>7, NewlyOK, MigratorMoves DEF MigratesAgain, Holding
<1> QED BY <1>2, <1>3, <1>4, <1>5, <1>6, <1>7

LEMMA DeployOutlives ==
    ASSUME DeployInv, LockDown, PostgresStops \/ PostgresReturns PROVE DeployInv'
<1>0. \A m \in Migrators : m # Unheld
  BY SchemaAssumption DEF Unheld
<1>1. CASE PostgresStops
  <2> DEFINE s == [Newly EXCEPT !.pc = "red", !.cause = TRUE]
  <2>1. applied' = applied /\ lock' = Unheld /\ \A m \in Migrators : migrator'[m] = IF Running(m) THEN s ELSE migrator[m]
    BY <1>1 DEF PostgresStops
  <2>2. migrator' \in [Migrators -> MigratorRecs]
    BY <1>1, NewlyOK DEF PostgresStops, DeployInv
  <2>3. AppliedOK' /\ (Edited' <=> Edited)
    BY <2>1 DEF DeployInv, AppliedOK, Edited
  <2>4. s.pc = "red" /\ s.cause
    BY NewlyOK
  <2> HIDE DEF s
  <2>5. ASSUME NEW m \in Migrators PROVE MigratorOK(m)'
    <3>1. MigratorOK(m)
      BY DEF DeployInv
    <3>2. CASE Running(m)
      <4>1. migrator'[m] = s /\ lock' # m
        BY <1>0, <2>1, <3>2
      <4> QED BY <2>3, <2>4, <4>1 DEF MigratorOK, Holding, Running
    <3>3. CASE ~ Running(m)
      <4>1. migrator'[m] = migrator[m] /\ lock' # m /\ migrator[m].pc \notin Holding
        BY <1>0, <2>1, <3>3 DEF Running, Holding
      <4> QED BY <2>1, <2>3, <3>1, <3>3, <4>1 DEF MigratorOK, Holding, Running, Carries, Checksum
    <3> QED BY <3>2, <3>3
  <2> QED BY <2>1, <2>2, <2>3, <2>5 DEF DeployInv
<1>2. CASE PostgresReturns /\ UNCHANGED <<applied, migrator>>
  <2>1. UNCHANGED <<applied, migrator, lock>>
    BY <1>2 DEF PostgresReturns
  <2> QED BY <2>1 DEF DeployInv, AppliedOK, MigratorOK, Running, Edited, Carries, Superseded, Checksum
<1>3. CASE PostgresReturns /\ applied' = << >> /\ migrator' = [m \in Migrators |-> Newly]
  <2>1. lock' = Unheld
    BY <1>3 DEF PostgresReturns, LockDown
  <2>2. DOMAIN applied' = 1..0
    BY <1>3
  <2>3. AppliedOK'
    BY <2>2 DEF AppliedOK
  <2>4. \A m \in Migrators : migrator'[m] = Newly /\ lock' # m
    BY <1>0, <1>3, <2>1
  <2>5. \A m \in Migrators : MigratorOK(m)'
    BY <2>4, NewlyOK DEF MigratorOK, Holding, Running
  <2> QED BY <1>3, <2>1, <2>3, <2>5, NewlyOK DEF DeployInv
<1> QED BY <1>1, <1>2, <1>3 DEF PostgresReturns

LEMMA DeployStands == ASSUME DeployInv, UNCHANGED migrationVars PROVE DeployInv'
  BY DEF DeployInv, AppliedOK, MigratorOK, Running, Edited, Carries, Superseded, Checksum, migrationVars

LEMMA DeployTicks == ASSUME DeployInv, Tick PROVE DeployInv'
<1>1. \A m \in Migrators : Running(m) => migrator[m].lifted
  BY DEF DeployInv, MigratorOK
<1>2. migrator' = migrator
  BY <1>1 DEF Tick, DeployInv
<1> QED BY <1>2, DeployStands DEF Tick, migrationVars

LEMMA DeployStep == ASSUME DeployInv, LockDown, [SchemaNext]_schemaVars PROVE DeployInv' /\ LockDown'
<1>1. CASE UNCHANGED schemaVars
  BY <1>1, DeployStands DEF schemaVars, migrationVars, LockDown
<1>2. CASE Tick
  BY <1>2, DeployTicks DEF Tick, LockDown
<1>3. ASSUME NEW m \in Migrators, AdoptSupersededChecksums(m) \/ RunApplies(m) PROVE DeployInv' /\ LockDown'
  BY <1>3, DeployAdopts, DeployApplies DEF AdoptSupersededChecksums, RunApplies, LockDown
<1>4. ASSUME NEW m \in Migrators,
             \/ MigrateBegins(m) \/ TakesLock(m) \/ RunVerifies(m)
             \/ MigrateEnds(m) \/ MigratorDies(m) \/ MigratesAgain(m)
      PROVE  DeployInv' /\ LockDown'
  <2>1. DeployInv'
    BY <1>4, MigratorSteps
  <2>2. LockDown'
    BY <1>4 DEF LockDown, MigrateBegins, TakesLock, RunVerifies, MigrateEnds, MigratorDies, MigratesAgain, Reading
  <2> QED BY <2>1, <2>2
<1>5. CASE PostgresStops \/ PostgresReturns
  BY <1>5, DeployOutlives DEF PostgresStops, PostgresReturns, LockDown
<1>6. CASE RedisStops \/ RedisReturns
  BY <1>6, DeployStands DEF RedisStops, RedisReturns, migrationVars, LockDown
<1>7. ASSUME NEW g \in Gateways, (\E d \in Needs : LooksUp(g, d)) \/ CachedReadiness(g) \/ Ready(g) \/ Drains(g)
      PROVE  DeployInv' /\ LockDown'
  <2>1. UNCHANGED migrationVars /\ UNCHANGED postgres
    BY <1>7 DEF LooksUp, CachedReadiness, Ready, Drains
  <2> QED BY <2>1, DeployStands DEF migrationVars, LockDown
<1> QED BY <1>1, <1>2, <1>3, <1>4, <1>5, <1>6, <1>7 DEF SchemaNext, SchemaStep

LEMMA DeployedInOrder ==
    ASSUME DeployInv
    PROVE  /\ DeploysHold
           /\ \A g \in Gateways : schema_is_ready(Cardinality(DOMAIN applied), Embeds[g]) <=> CheckMigrations(Embeds[g])
<1>1. PICK n \in Nat : DOMAIN applied = 1..n
  BY DEF DeployInv, AppliedOK
<1>2. Cardinality(DOMAIN applied) = n
  <2>1. Cardinality(1..n) = IF 1 > n THEN 0 ELSE n - 1 + 1
    BY ONLY <1>1, n \in Nat, FS_Interval, 1 \in Int, n \in Int
  <2> QED BY <1>1, <2>1
<1>3. ASSUME NEW m \in Migrators
      PROVE  /\ migrator[m].pc \in {"red", "failing"} =>
                   migrator[m].cause \/ "edited" \in {applied[v] : v \in DOMAIN applied}
             /\ migrator[m].pc = "green" => \A v \in Carries(m) : v \in DOMAIN applied /\ applied[v] = Checksum(v)
             /\ migrator[m].pc \in {"adopt", "run", "apply"} => lock = m
  <2>1. MigratorOK(m)
    BY DEF DeployInv
  <2> QED BY <2>1 DEF MigratorOK, Edited, Holding
<1>4. ASSUME NEW g \in Gateways PROVE schema_is_ready(Cardinality(DOMAIN applied), Embeds[g]) <=> CheckMigrations(Embeds[g])
  <2>1. Embeds[g] \in Nat
    BY SchemaAssumption
  <2> QED BY <1>1, <1>2, <2>1 DEF schema_is_ready, CheckMigrations
<1> QED BY <1>1, <1>2, <1>3, <1>4 DEF DeploysHold

(***************************************************************************)
(* Readiness.  What a lookup was told was so no longer ago than the lookup *)
(* has taken, and what the memo says no longer ago than the memo is old    *)
(* and the lookup behind it may have taken.                                *)
(***************************************************************************)
MemoRecs == [age : Nat, ready : BOOLEAN]
GhostTypes == short \in [Gateways -> Nat] /\ fit \in [Gateways -> [Needs -> Nat]]
MemoTypes ==
    /\ memo \in [Gateways -> MemoRecs] /\ DOMAIN told = Gateways
    /\ DOMAIN lookup = Gateways
    /\ \A g \in Gateways : lookup[g] = [age |-> lookup[g].age, heard |-> lookup[g].heard] /\ lookup[g].age \in 0..LookupTime
LookupOK(g) ==
    \A d \in DOMAIN lookup[g].heard :
        /\ d \in Needs
        /\ lookup[g].heard[d] => fit[g][d] <= lookup[g].age
        /\ ~ lookup[g].heard[d] => short[g] <= lookup[g].age
MemoOK(g) ==
    memo[g].age < FreshFor =>
        /\ memo[g].ready => \A d \in Needs : fit[g][d] <= memo[g].age + LookupTime
        /\ ~ memo[g].ready => short[g] <= memo[g].age + LookupTime
ToldOK(g) ==
    /\ told[g] = "ready" => \A d \in Needs : fit[g][d] <= Recent
    /\ told[g] = "unready" => short[g] <= Recent
ReadyInv == GhostTypes /\ MemoTypes /\ \A g \in Gateways : LookupOK(g) /\ MemoOK(g) /\ ToldOK(g)

LEMMA ReadyInitInv == SchemaInit => ReadyInv
<1> SUFFICES ASSUME SchemaInit PROVE ReadyInv
  OBVIOUS
<1>1. GhostTypes
  BY SchemaAssumption DEF SchemaInit, GhostTypes
<1>2. \A g \in Gateways : /\ memo[g].age = FreshFor /\ told[g] = "nothing"
                          /\ lookup[g] = [age |-> 0, heard |-> << >>]
  BY DEF SchemaInit, NoMemo, NoLookup
<1>3. MemoTypes
  BY <1>2, SchemaAssumption DEF SchemaInit, MemoTypes, MemoRecs, NoMemo, NoLookup
<1>4. \A g \in Gateways : lookup[g].heard = << >> /\ DOMAIN lookup[g].heard = {}
  BY <1>2
<1>5. ~ (FreshFor < FreshFor)
  BY SchemaAssumption
<1> QED BY <1>1, <1>2, <1>3, <1>4, <1>5 DEF ReadyInv, LookupOK, MemoOK, ToldOK

(* The ghosts: what is there now is not in the past, and an instant that   *)
(* passes takes nothing further back than one.                             *)
LEMMA GhostsStep ==
    ASSUME GhostTypes, NEW n \in {0, 1}, (Watched(FALSE) /\ n = 0) \/ (Watched(TRUE) /\ n = 1)
    PROVE  /\ GhostTypes'
           /\ \A g \in Gateways : short'[g] <= short[g] + n /\ \A d \in Needs : fit'[g][d] <= fit[g][d] + n
           /\ \A g \in Gateways, d \in Needs : /\ Answers(g)'[d] => fit'[g][d] = 0
                                               /\ ~ Answers(g)'[d] => short'[g] = 0
<1>2. ASSUME NEW g \in Gateways
      PROVE  /\ short'[g] \in Nat /\ short'[g] <= short[g] + n
             /\ \A d \in Needs : ~ Answers(g)'[d] => short'[g] = 0
  <2> DEFINE h == \E d \in Needs : ~ Answers(g)'[d]
  <2>1. (short'[g] = Since(short[g], h, FALSE) /\ n = 0) \/ (short'[g] = Since(short[g], h, TRUE) /\ n = 1)
    BY DEF Watched
  <2>2. short[g] \in Nat /\ MaxSince \in Nat
    BY SchemaAssumption DEF GhostTypes
  <2>3. \A d \in Needs : ~ Answers(g)'[d] => h
    OBVIOUS
  <2> HIDE DEF h
  <2> QED BY <2>1, <2>2, <2>3 DEF Since
<1>3. ASSUME NEW g \in Gateways, NEW d \in Needs
      PROVE  /\ fit'[g][d] \in Nat /\ fit'[g][d] <= fit[g][d] + n
             /\ Answers(g)'[d] => fit'[g][d] = 0
  <2>1. \/ n = 0 /\ fit'[g][d] = IF Answers(g)'[d] THEN 0 ELSE fit[g][d]
        \/ n = 1 /\ fit'[g][d] = IF Answers(g)'[d] THEN 0 ELSE IF fit[g][d] < MaxSince THEN fit[g][d] + 1 ELSE fit[g][d]
    BY DEF Watched, Since
  <2>2. fit[g][d] \in Nat /\ MaxSince \in Nat
    BY SchemaAssumption DEF GhostTypes
  <2> QED BY <2>1, <2>2
<1>4. GhostTypes'
  <2>1. /\ DOMAIN short' = Gateways /\ DOMAIN fit' = Gateways
        /\ short' = [g \in Gateways |-> short'[g]] /\ fit' = [g \in Gateways |-> [d \in Needs |-> fit'[g][d]]]
    BY DEF Watched
  <2> HIDE DEF Needs
  <2> QED BY ONLY <1>2, <1>3, <2>1 DEF GhostTypes
<1> QED BY <1>2, <1>3, <1>4

LEMMA ReadyNumbers ==
    ASSUME GhostTypes, MemoTypes, NEW g \in Gateways
    PROVE  /\ memo[g].age \in Nat /\ lookup[g].age \in Nat /\ lookup[g].age <= LookupTime
           /\ short[g] \in Nat /\ \A d \in Needs : fit[g][d] \in Nat
           /\ LookupTime \in Nat /\ FreshFor \in Nat /\ Recent \in Nat /\ Recent = FreshFor + LookupTime
  BY SchemaAssumption DEF GhostTypes, MemoTypes, MemoRecs, Recent

(* What was recent stays so where nothing is asked or told.                *)
LEMMA StandsFor ==
    ASSUME ReadyInv, Watched(FALSE), NEW g \in Gateways
    PROVE  /\ GhostTypes'
           /\ lookup'[g] = lookup[g] => LookupOK(g)'
           /\ memo'[g] = memo[g] => MemoOK(g)'
           /\ told'[g] = told[g] => ToldOK(g)'
<1>1. /\ GhostTypes' /\ GhostTypes /\ MemoTypes /\ LookupOK(g) /\ MemoOK(g) /\ ToldOK(g)
      /\ short'[g] <= short[g] + 0 /\ \A d \in Needs : fit'[g][d] <= fit[g][d] + 0
  BY GhostsStep DEF ReadyInv
<1>2. short'[g] \in Nat /\ \A d \in Needs : fit'[g][d] \in Nat
  BY <1>1 DEF GhostTypes
<1>3. short'[g] <= short[g] /\ \A d \in Needs : fit'[g][d] <= fit[g][d]
  BY <1>1, <1>2, ReadyNumbers
<1>4. lookup'[g] = lookup[g] => LookupOK(g)'
  BY <1>1, <1>2, <1>3, ReadyNumbers DEF LookupOK
<1>5. memo'[g] = memo[g] => MemoOK(g)'
  BY <1>1, <1>2, <1>3, ReadyNumbers DEF MemoOK
<1>6. told'[g] = told[g] => ToldOK(g)'
  <2> SUFFICES ASSUME told'[g] = told[g] PROVE ToldOK(g)'
    OBVIOUS
  <2>1. Recent' = Recent
    BY DEF Recent
  <2> QED BY <1>1, <1>2, <1>3, <2>1, ReadyNumbers DEF ToldOK
<1> QED BY <1>1, <1>4, <1>5, <1>6

LEMMA ReadyStands ==
    ASSUME ReadyInv, UNCHANGED <<memo, lookup, told>>, Watched(FALSE)
    PROVE  ReadyInv'
<1>1. GhostTypes'
  BY GhostsStep DEF ReadyInv
<1>2. MemoTypes'
  BY DEF ReadyInv, MemoTypes
<1> QED BY <1>1, <1>2, StandsFor DEF ReadyInv

LEMMA ReadyLooksUp ==
    ASSUME ReadyInv, NEW g \in Gateways, NEW d \in Needs, LooksUp(g, d), Watched(FALSE)
    PROVE  ReadyInv'
<1>1. GhostTypes' /\ MemoTypes /\ GhostTypes /\ LookupOK(g)
  BY GhostsStep DEF ReadyInv
<1>2. /\ DOMAIN lookup'[g].heard = DOMAIN lookup[g].heard \cup {d} /\ lookup'[g].age = lookup[g].age
      /\ lookup'[g] = [age |-> lookup'[g].age, heard |-> lookup'[g].heard]
      /\ lookup'[g].heard[d] = Answers(g)[d]
      /\ \A e \in DOMAIN lookup[g].heard : e # d => lookup'[g].heard[e] = lookup[g].heard[e]
      /\ \A x \in Gateways : x # g => lookup'[x] = lookup[x]
      /\ DOMAIN lookup' = Gateways /\ UNCHANGED <<memo, told>>
  BY <1>1 DEF LooksUp, MemoTypes
<1>3. MemoTypes'
  BY <1>1, <1>2 DEF MemoTypes
<1>4. Answers(g)' = Answers(g)
  BY DEF LooksUp, Answers, SchemaReady, migrationVars, schema_is_ready
<1>5. LookupOK(g)'
  <2>1. /\ short'[g] <= short[g] + 0 /\ \A e \in Needs : fit'[g][e] <= fit[g][e] + 0
        /\ Answers(g)'[d] => fit'[g][d] = 0
        /\ ~ Answers(g)'[d] => short'[g] = 0
    BY <1>1, GhostsStep
  <2>2. short'[g] \in Nat /\ \A e \in Needs : fit'[g][e] \in Nat
    BY <1>1 DEF GhostTypes
  <2>3. ASSUME NEW e \in DOMAIN lookup'[g].heard
        PROVE  /\ e \in Needs
               /\ lookup'[g].heard[e] => fit'[g][e] <= lookup'[g].age
               /\ ~ lookup'[g].heard[e] => short'[g] <= lookup'[g].age
    <3>1. CASE e = d
      BY <1>1, <1>2, <1>4, <2>1, <2>2, <3>1, ReadyNumbers
    <3>2. CASE e # d
      <4>1. e \in DOMAIN lookup[g].heard /\ lookup'[g].heard[e] = lookup[g].heard[e]
        BY <1>2, <2>3, <3>2
      <4>2. /\ e \in Needs
            /\ lookup[g].heard[e] => fit[g][e] <= lookup[g].age
            /\ ~ lookup[g].heard[e] => short[g] <= lookup[g].age
        BY <1>1, <4>1 DEF LookupOK
      <4> QED BY <1>1, <1>2, <2>1, <2>2, <4>1, <4>2, ReadyNumbers
    <3> QED BY <3>1, <3>2
  <2> QED BY <2>3 DEF LookupOK
<1>6. \A x \in Gateways : MemoOK(x)' /\ ToldOK(x)' /\ (x # g => LookupOK(x)')
  BY <1>2, StandsFor
<1> QED BY <1>1, <1>3, <1>5, <1>6 DEF ReadyInv

LEMMA ReadyCaches ==
    ASSUME ReadyInv, NEW g \in Gateways, CachedReadiness(g), Watched(FALSE)
    PROVE  ReadyInv'
<1> DEFINE ready == \A d \in DOMAIN lookup[g].heard : lookup[g].heard[d]
<1>1. GhostTypes' /\ MemoTypes /\ GhostTypes /\ LookupOK(g) /\ DOMAIN lookup[g].heard = Needs
  BY GhostsStep DEF ReadyInv, CachedReadiness
<1>2. /\ memo'[g] = [age |-> 0, ready |-> ready] /\ lookup'[g] = [age |-> 0, heard |-> << >>]
      /\ memo' = [memo EXCEPT ![g] = [age |-> 0, ready |-> ready]]
      /\ \A x \in Gateways : x # g => lookup'[x] = lookup[x] /\ memo'[x] = memo[x]
      /\ DOMAIN lookup' = Gateways /\ UNCHANGED told
  BY <1>1 DEF CachedReadiness, MemoTypes, NoLookup
<1>3. MemoTypes'
  <2>1. [age |-> 0, ready |-> ready] \in MemoRecs
    BY DEF MemoRecs
  <2> HIDE DEF ready
  <2>2. memo' \in [Gateways -> MemoRecs]
    BY <1>1, <1>2, <2>1 DEF MemoTypes
  <2>3. /\ lookup'[g] = [age |-> lookup'[g].age, heard |-> lookup'[g].heard] /\ lookup'[g].age \in 0..LookupTime
        /\ DOMAIN told = Gateways
    BY <1>1, <1>2, SchemaAssumption DEF MemoTypes
  <2>4. ASSUME NEW x \in Gateways
        PROVE  lookup'[x] = [age |-> lookup'[x].age, heard |-> lookup'[x].heard] /\ lookup'[x].age \in 0..LookupTime
    <3>1. CASE x = g
      BY <2>3, <3>1
    <3>2. CASE x # g
      BY <1>1, <1>2, <3>2 DEF MemoTypes
    <3> QED BY <3>1, <3>2
  <2> QED BY <1>2, <2>2, <2>3, <2>4 DEF MemoTypes
<1>4. LookupOK(g)'
  <2>1. DOMAIN lookup'[g].heard = {}
    BY <1>2
  <2> QED BY <2>1 DEF LookupOK
<1>5. MemoOK(g)'
  <2>1. /\ short'[g] <= short[g] + 0 /\ \A d \in Needs : fit'[g][d] <= fit[g][d] + 0
        /\ short'[g] \in Nat /\ \A e \in Needs : fit'[g][e] \in Nat
    BY <1>1, GhostsStep DEF GhostTypes
  <2>2. memo'[g].age = 0 /\ (memo'[g].ready <=> ready)
    BY <1>2
  <2>3. ready => \A d \in Needs : fit'[g][d] <= 0 + LookupTime
    BY <1>1, <2>1, ReadyNumbers DEF LookupOK
  <2>4. ~ ready => short'[g] <= 0 + LookupTime
    BY <1>1, <2>1, ReadyNumbers DEF LookupOK
  <2> HIDE DEF ready
  <2> QED BY <2>2, <2>3, <2>4 DEF MemoOK
<1>6. \A x \in Gateways : ToldOK(x)' /\ (x # g => LookupOK(x)' /\ MemoOK(x)')
  BY <1>2, StandsFor
<1> QED BY <1>1, <1>3, <1>4, <1>5, <1>6 DEF ReadyInv

LEMMA ReadyTells ==
    ASSUME ReadyInv, NEW g \in Gateways, Ready(g), Watched(FALSE)
    PROVE  ReadyInv'
<1>1. GhostTypes' /\ MemoTypes /\ GhostTypes /\ MemoOK(g)
  BY GhostsStep DEF ReadyInv
<1>2. /\ UNCHANGED <<memo, lookup>> /\ DOMAIN told' = Gateways
      /\ \A x \in Gateways : x # g => told'[x] = told[x]
      /\ told'[g] = "draining" \/ (memo[g].age < FreshFor /\ told'[g] = IF memo[g].ready THEN "ready" ELSE "unready")
  BY <1>1 DEF Ready, MemoTypes
<1>3. MemoTypes'
  BY <1>1, <1>2 DEF MemoTypes
<1>4. ToldOK(g)'
  <2>1. /\ short'[g] <= short[g] + 0 /\ \A d \in Needs : fit'[g][d] <= fit[g][d] + 0
        /\ short'[g] \in Nat /\ \A e \in Needs : fit'[g][e] \in Nat
    BY <1>1, GhostsStep DEF GhostTypes
  <2>2. Recent' = Recent
    BY DEF Recent
  <2>3. CASE told'[g] = "draining"
    BY <2>3 DEF ToldOK
  <2>4. CASE memo[g].age < FreshFor /\ memo[g].ready /\ told'[g] = "ready"
    BY <1>1, <2>1, <2>2, <2>4, ReadyNumbers DEF ToldOK, MemoOK
  <2>5. CASE memo[g].age < FreshFor /\ ~ memo[g].ready /\ told'[g] = "unready"
    BY <1>1, <2>1, <2>2, <2>5, ReadyNumbers DEF ToldOK, MemoOK
  <2> QED BY <1>2, <2>3, <2>4, <2>5
<1>5. \A x \in Gateways : LookupOK(x)' /\ MemoOK(x)' /\ (x # g => ToldOK(x)')
  BY <1>2, StandsFor
<1> QED BY <1>1, <1>3, <1>4, <1>5 DEF ReadyInv

LEMMA ReadyTicks ==
    ASSUME ReadyInv, Tick, Watched(TRUE)
    PROVE  ReadyInv'
<1>1. GhostTypes' /\ MemoTypes /\ GhostTypes
  BY GhostsStep DEF ReadyInv
<1>2. ASSUME NEW g \in Gateways
      PROVE  /\ memo'[g] = [memo[g] EXCEPT !.age = IF memo[g].age < FreshFor THEN memo[g].age + 1 ELSE memo[g].age]
             /\ memo'[g] \in MemoRecs /\ memo'[g].ready = memo[g].ready
             /\ memo'[g].age = IF memo[g].age < FreshFor THEN memo[g].age + 1 ELSE memo[g].age
  <2>1. memo'[g] = [memo[g] EXCEPT !.age = IF memo[g].age < FreshFor THEN memo[g].age + 1 ELSE memo[g].age]
    BY DEF Tick
  <2>2. memo[g] \in MemoRecs /\ FreshFor \in Nat
    BY <1>1, SchemaAssumption DEF MemoTypes
  <2> QED BY <2>1, <2>2 DEF MemoRecs
<1>3. ASSUME NEW g \in Gateways
      PROVE  /\ lookup'[g] = [age |-> lookup'[g].age, heard |-> lookup'[g].heard]
             /\ lookup'[g].heard = lookup[g].heard /\ lookup'[g].age \in 0..LookupTime
             /\ lookup'[g].age = lookup[g].age + 1 \/ DOMAIN lookup'[g].heard = {}
  <2>1. CASE LookingUp(g)
    <3>1. lookup'[g] = [lookup[g] EXCEPT !.age = @ + 1] /\ lookup[g].age < LookupTime
      BY <2>1 DEF Tick
    <3>2. lookup[g] = [age |-> lookup[g].age, heard |-> lookup[g].heard] /\ lookup[g].age \in 0..LookupTime /\ LookupTime \in Nat
      BY <1>1, SchemaAssumption DEF MemoTypes
    <3>3. lookup'[g] = [age |-> lookup[g].age + 1, heard |-> lookup[g].heard]
      BY <3>1, <3>2
    <3> QED BY <3>1, <3>2, <3>3
  <2>2. CASE ~ LookingUp(g)
    <3>1. lookup'[g] = lookup[g] /\ lookup[g] = [age |-> 0, heard |-> << >>]
      BY <2>2 DEF Tick, LookingUp, NoLookup
    <3>2. DOMAIN lookup'[g].heard = {} /\ lookup[g].age \in 0..LookupTime
      BY <1>1, <3>1 DEF MemoTypes
    <3> QED BY <3>1, <3>2
  <2> QED BY <2>1, <2>2
<1>4. MemoTypes'
  BY <1>2, <1>3 DEF MemoTypes, Tick
<1>5. ASSUME NEW g \in Gateways PROVE LookupOK(g)' /\ MemoOK(g)' /\ ToldOK(g)'
  <2>1. /\ short'[g] <= short[g] + 1 /\ \A d \in Needs : fit'[g][d] <= fit[g][d] + 1
        /\ short'[g] \in Nat /\ \A e \in Needs : fit'[g][e] \in Nat
    BY <1>1, GhostsStep DEF GhostTypes
  <2>2. LookupOK(g) /\ MemoOK(g)
    BY DEF ReadyInv
  <2>0. /\ memo[g].age \in Nat /\ lookup[g].age \in Nat /\ LookupTime \in Nat /\ FreshFor \in Nat
        /\ short[g] \in Nat /\ \A d \in Needs : fit[g][d] \in Nat
    BY <1>1, ReadyNumbers
  <2>3. LookupOK(g)'
    <3>1. ASSUME NEW d \in DOMAIN lookup'[g].heard
          PROVE  /\ d \in Needs
                 /\ lookup'[g].heard[d] => fit'[g][d] <= lookup'[g].age
                 /\ ~ lookup'[g].heard[d] => short'[g] <= lookup'[g].age
      <4>1. d \in DOMAIN lookup[g].heard /\ lookup'[g].age = lookup[g].age + 1 /\ lookup'[g].heard[d] = lookup[g].heard[d]
        BY <1>3, <3>1
      <4>2. /\ d \in Needs
            /\ lookup[g].heard[d] => fit[g][d] <= lookup[g].age
            /\ ~ lookup[g].heard[d] => short[g] <= lookup[g].age
        BY <2>2, <4>1 DEF LookupOK
      <4> QED BY <2>0, <2>1, <4>1, <4>2
    <3> QED BY <3>1 DEF LookupOK
  <2>4. MemoOK(g)'
    <3> SUFFICES ASSUME memo'[g].age < FreshFor
                 PROVE  /\ memo'[g].ready => \A d \in Needs : fit'[g][d] <= memo'[g].age + LookupTime
                        /\ ~ memo'[g].ready => short'[g] <= memo'[g].age + LookupTime
      BY DEF MemoOK
    <3>1. memo[g].age < FreshFor /\ memo'[g].age = memo[g].age + 1 /\ memo'[g].ready = memo[g].ready
      BY <1>2, <2>0
    <3> QED BY <2>0, <2>1, <2>2, <3>1 DEF MemoOK
  <2>5. ToldOK(g)'
    BY DEF ToldOK, Tick
  <2> QED BY <2>3, <2>4, <2>5
<1> QED BY <1>1, <1>4, <1>5 DEF ReadyInv

LEMMA ReadyStep == ASSUME ReadyInv, [SchemaNext]_schemaVars PROVE ReadyInv'
<1>1. CASE UNCHANGED schemaVars
  <2>1. UNCHANGED <<memo, lookup, told, short, fit>>
    BY <1>1 DEF schemaVars, readinessVars
  <2> QED BY <2>1 DEF ReadyInv, GhostTypes, MemoTypes, LookupOK, MemoOK, ToldOK, Recent
<1>2. CASE Tick /\ Watched(TRUE)
  BY <1>2, ReadyTicks
<1>3. ASSUME NEW m \in Migrators, Watched(FALSE),
             \/ MigrateBegins(m) \/ TakesLock(m) \/ AdoptSupersededChecksums(m) \/ RunVerifies(m)
             \/ RunApplies(m) \/ MigrateEnds(m) \/ MigratorDies(m) \/ MigratesAgain(m)
      PROVE  ReadyInv'
  <2>1. UNCHANGED readinessVars
    BY <1>3 DEF MigrateBegins, TakesLock, AdoptSupersededChecksums, RunVerifies, RunApplies, MigrateEnds, MigratorDies, MigratesAgain
  <2> QED BY <1>3, <2>1, ReadyStands DEF readinessVars
<1>4. ASSUME PostgresStops \/ PostgresReturns \/ RedisStops \/ RedisReturns, Watched(FALSE) PROVE ReadyInv'
  <2>1. UNCHANGED readinessVars
    BY <1>4 DEF PostgresStops, PostgresReturns, RedisStops, RedisReturns
  <2> QED BY <1>4, <2>1, ReadyStands DEF readinessVars
<1>5. ASSUME NEW g \in Gateways, Watched(FALSE),
             (\E d \in Needs : LooksUp(g, d)) \/ CachedReadiness(g) \/ Ready(g) \/ Drains(g)
      PROVE  ReadyInv'
  <2>1. CASE Drains(g)
    BY <1>5, <2>1, ReadyStands DEF Drains
  <2> QED BY <1>5, <2>1, ReadyLooksUp, ReadyCaches, ReadyTells
<1> QED BY <1>1, <1>2, <1>3, <1>4, <1>5 DEF SchemaNext, SchemaStep

(* SchemaHolds for any number of migrators and gateways, releases of any    *)
(* ages, a memo and a lookup of any length and outages at any moment: a     *)
(* deploy step fails for a cause of its own only, what is applied is a      *)
(* prefix of the releases' migrations, and a readiness told is true as of   *)
(* the memo's life and one lookup ago.                                      *)
THEOREM SchemaDeploysAndReadiness == SchemaSpec => []SchemaHolds
<1>1. SchemaInit => DeployInv /\ LockDown /\ ReadyInv
  BY DeployInitInv, ReadyInitInv DEF SchemaInit, LockDown
<1>2. DeployInv /\ LockDown /\ ReadyInv /\ [SchemaNext]_schemaVars => DeployInv' /\ LockDown' /\ ReadyInv'
  BY DeployStep, ReadyStep
<1>3. DeployInv /\ ReadyInv => SchemaHolds
  <2> SUFFICES ASSUME DeployInv, ReadyInv PROVE SchemaHolds
    OBVIOUS
  <2>1. ReadinessHolds
    BY DeployedInOrder DEF ReadinessHolds, ReadyInv, ToldOK, SchemaReady
  <2> QED BY <2>1, DeployedInOrder DEF SchemaHolds
<1> QED BY <1>1, <1>2, <1>3, PTL DEF SchemaSpec

------------------------------------------------------------------------------
(* Model rows and their syncs.                                             *)

(* Every set of naturals that has a member has a least one.                *)
LEMMA LeastOf == ASSUME NEW S \in SUBSET Nat, S # {} PROVE \E m \in S : \A k \in S : m <= k
<1> DEFINE R == {ss \in Nat \X Nat : ss[1] < ss[2]}
<1>1. IsWellFoundedOn(R, Nat)
  BY NatLessThanWellFounded DEF OpToRel
<1>2. \E m \in S : \A k \in S : ~ (<<k, m>> \in R)
  <2> HIDE DEF R
  <2> QED BY <1>1, WFMin
<1>3. PICK m \in S : \A k \in S : ~ (<<k, m>> \in R)
  BY <1>2
<1>4. ASSUME NEW k \in S PROVE m <= k
  <2>1. k \in Nat /\ m \in Nat /\ ~ (<<k, m>> \in R)
    BY <1>3
  <2>2. ~ (k < m)
    BY <2>1
  <2> QED BY <2>1, <2>2
<1> QED BY <1>3, <1>4

(***************************************************************************)
(* The catalog's rows.  A row fits what is remembered of it: the price an  *)
(* operator stated, the label given, the entry a sync priced it by, the    *)
(* levels of the committed table; and a row a sync wrote is marked as an   *)
(* override, which is what keeps seeds and price syncs off it.             *)
(***************************************************************************)
RowFields == {"provider", "price", "window", "override", "label", "synced", "efforts"}
IsRow(r) == r = [f \in RowFields |-> r[f]]
Sold(r, entries) ==
    r.price > 0 /\ \E e \in entries : \E i \in DOMAIN e.vendors : Callable(e.vendors[i]) /\ e.vendors[i].price = r.price
Fits(id, r, price, label, entries) ==
    /\ r = NoRow \/ IsRow(r)
    /\ price = -1 \/ (r # NoRow /\ r.price = price /\ r.override)
    /\ label = None \/ (r # NoRow /\ r.label = label)
    /\ r # NoRow /\ r.synced = Endpoint => r.override /\ Sold(r, entries)
    /\ r # NoRow /\ r.efforts # None /\ id \in DOMAIN Overrides => r.efforts = Overrides[id]
RowOK(id) == Fits(id, rows[id], stated[id], named[id], offered[id])

(* What a job under way holds: what it planned, what it will commit, each  *)
(* row of which is locked and fits what will be remembered of it.          *)
IsPlan(p) ==
    p = [added |-> p.added, updated |-> p.updated, unchanged |-> p.unchanged, held |-> p.held,
         removed |-> p.removed, kept |-> p.kept]
PagesIds(list) == UNION {Ids(list[at].entries) : at \in DOMAIN list}
EntryFor(from, id) == {CHOOSE e \in from : e.id = id}
ListedOK(s) == s.list \in Lists /\ ReadPages(s.list) # {} /\ s.manages \subseteq UnderEndpoint
PlanOK(s) == IsPlan(s.planned) /\ s.planned.removed \subseteq ModelIds /\ s.planned.removed \cap PagesIds(s.list) = {}
PlannedOK(s) ==
    /\ PlanOK(s) /\ s.planned.added \cup s.planned.updated = Ids(s.write)
    /\ s.manages \subseteq ModelIds /\ Ids(s.write) \subseteq ModelIds
    /\ \A e \in s.write : Sold(CatalogRow(Choose(e, s.choice)), {e})
PutOK(s) ==
    /\ PlanOK(s) /\ s.planned.added \cup s.planned.updated = Ids(s.from) \cup s.held /\ Ids(s.from) \cap s.held = {}
    /\ Ids(s.from) \subseteq DOMAIN s.put /\ DOMAIN s.put \subseteq s.locks /\ s.locks \subseteq ModelIds
    /\ \A id \in DOMAIN s.put :
          IF id \in Ids(s.from) THEN Fits(id, s.put[id], -1, named[id], EntryFor(s.from, id))
          ELSE Fits(id, s.put[id], stated[id], named[id], offered[id])
DeletedOK(s) ==
    s.removed \subseteq s.locks /\ s.removed \subseteq s.planned.removed /\ s.removed \cap ladder \subseteq late
Committing == {"written", "deleted"}
JobOK(s) ==
    /\ s.pc = "pricing" => s = [pc |-> "pricing", changes |-> s.changes]
    /\ s.pc = "listed" => ListedOK(s)
    /\ s.pc = "planned" => PlannedOK(s)
    /\ s.pc \in Committing => PutOK(s)
    /\ s.pc = "deleted" => DeletedOK(s)
LocksApart == \A j, k \in Jobs : j # k /\ job[j].pc \in Committing /\ job[k].pc \in Committing => job[j].locks \cap job[k].locks = {}
ReportOK == SyncRemovesOnlyStale /\ ReportIsTrue
RowsInv ==
    /\ DOMAIN rows = ModelIds /\ DOMAIN job = Jobs
    /\ DOMAIN stated = ModelIds /\ DOMAIN named = ModelIds /\ DOMAIN offered = ModelIds
    /\ (\A id \in ModelIds : RowOK(id)) /\ (\A j \in Jobs : JobOK(job[j])) /\ LocksApart /\ ReportOK

LEMMA RowIsThere == ASSUME NEW r, IsRow(r) PROVE r # NoRow
<1>1. "price" \in DOMAIN r
  BY DEF IsRow, RowFields
<1>2. "price" \notin DOMAIN NoRow
  BY DEF NoRow
<1> QED BY <1>1, <1>2

LEMMA CatalogRowMade ==
    ASSUME NEW p
    PROVE  /\ IsRow(CatalogRow(p)) /\ CatalogRow(p) # NoRow /\ CatalogRow(p).price = p
           /\ CatalogRow(p).override = TRUE /\ CatalogRow(p).label = "listed"
           /\ CatalogRow(p).synced = Endpoint /\ CatalogRow(p).efforts = None
<1> DEFINE m == CatalogRow(p)
<1>1. /\ IsRow(m) /\ m.price = p /\ m.override = TRUE /\ m.label = "listed" /\ m.synced = Endpoint /\ m.efforts = None
  BY DEF IsRow, Row, RowFields, CatalogRow
<1> HIDE DEF m
<1>2. m # NoRow
  BY <1>1, RowIsThere
<1> QED BY <1>1, <1>2 DEF m

(* Each statement leaves a row that fits.                                  *)
LEMMA UpsertFits ==
    ASSUME NEW id, NEW r, NEW price, NEW label, NEW entries, Fits(id, r, price, label, entries),
           NEW m, IsRow(m), m.synced = None, m.efforts = None
    PROVE  Fits(id, Upsert(r, m), price, label, entries)
<1>0. m # NoRow /\ Endpoint # None
  BY RowIsThere, ModelAssumption
<1>1. CASE r = NoRow
  BY <1>0, <1>1 DEF Fits, Upsert
<1>2. CASE r # NoRow /\ r.override
  BY <1>2 DEF Fits, Upsert
<1>3. CASE r # NoRow /\ ~ r.override
  <2> DEFINE u == [r EXCEPT !.provider = m.provider, !.price = m.price, !.window = m.window]
  <2>1. IsRow(r)
    BY <1>3 DEF Fits
  <2>2. IsRow(u) /\ u.override = r.override /\ u.label = r.label /\ u.synced = r.synced /\ u.efforts = r.efforts
    BY <2>1 DEF IsRow, RowFields
  <2>3. Upsert(r, m) = u
    BY <1>3 DEF Upsert
  <2> HIDE DEF u
  <2>4. u # NoRow
    BY <2>2, RowIsThere
  <2> QED BY <1>3, <2>1, <2>2, <2>3, <2>4 DEF Fits
<1> QED BY <1>1, <1>2, <1>3

LEMMA PricesFit ==
    ASSUME NEW id, NEW r, NEW price, NEW label, NEW entries, Fits(id, r, price, label, entries), NEW p
    PROVE  Fits(id, UpdatePrices(r, p), price, label, entries)
<1>1. CASE r = NoRow \/ r.override
  BY <1>1 DEF Fits, UpdatePrices
<1>2. CASE r # NoRow /\ ~ r.override
  <2> DEFINE u == [r EXCEPT !.price = p]
  <2>1. IsRow(r)
    BY <1>2 DEF Fits
  <2>2. IsRow(u) /\ u.override = r.override /\ u.label = r.label /\ u.synced = r.synced /\ u.efforts = r.efforts
    BY <2>1 DEF IsRow, RowFields
  <2>3. UpdatePrices(r, p) = u
    BY <1>2 DEF UpdatePrices
  <2> HIDE DEF u
  <2>4. u # NoRow
    BY <2>2, RowIsThere
  <2> QED BY <1>2, <2>1, <2>2, <2>3, <2>4 DEF Fits
<1> QED BY <1>1, <1>2

LEMMA OverrideFits ==
    ASSUME NEW id, NEW r, NEW price, NEW label, NEW entries, Fits(id, r, price, label, entries),
           NEW m, IsRow(m), m.synced = None, m.efforts = None, m.override = TRUE
    PROVE  Fits(id, Override(r, m), m.price, IF m.label = None THEN label ELSE m.label, entries)
<1>0. m # NoRow /\ Endpoint # None
  BY RowIsThere, ModelAssumption
<1>1. CASE r = NoRow
  BY <1>0, <1>1 DEF Fits, Override
<1>2. CASE r # NoRow
  <2> DEFINE u == [m EXCEPT !.label = IF @ = None THEN r.label ELSE @, !.efforts = r.efforts]
  <2>1. /\ IsRow(u) /\ u.override = m.override /\ u.price = m.price /\ u.synced = m.synced /\ u.efforts = r.efforts
        /\ u.label = IF m.label = None THEN r.label ELSE m.label
    BY DEF IsRow, RowFields
  <2>2. Override(r, m) = u
    BY <1>2 DEF Override
  <2> HIDE DEF u
  <2>3. u # NoRow
    BY <2>1, RowIsThere
  <2> QED BY <1>0, <1>2, <2>1, <2>2, <2>3 DEF Fits
<1> QED BY <1>1, <1>2

LEMMA LabelFits ==
    ASSUME NEW id, NEW r, NEW price, NEW label, NEW entries, Fits(id, r, price, label, entries), r # NoRow, NEW given
    PROVE  Fits(id, [r EXCEPT !.label = given], price, given, entries)
<1> DEFINE u == [r EXCEPT !.label = given]
<1>1. IsRow(r)
  BY DEF Fits
<1>2. IsRow(u) /\ u.override = r.override /\ u.label = given /\ u.synced = r.synced /\ u.efforts = r.efforts /\ u.price = r.price
  BY <1>1 DEF IsRow, RowFields
<1> HIDE DEF u
<1>3. u # NoRow
  BY <1>2, RowIsThere
<1>4. Fits(id, u, price, given, entries)
  BY <1>1, <1>2, <1>3 DEF Fits, Sold
<1> QED BY <1>4 DEF u

LEMMA EffortsFit ==
    ASSUME NEW id, NEW r, NEW price, NEW label, NEW entries, Fits(id, r, price, label, entries)
    PROVE  Fits(id, WithEfforts(r, id), price, label, entries) /\ (r # NoRow => WithEfforts(r, id) # NoRow)
<1>1. CASE r = NoRow
  BY <1>1 DEF WithEfforts
<1>2. CASE r # NoRow
  <2> DEFINE u == [r EXCEPT !.efforts = EffortsOf(id)]
  <2>1. IsRow(r)
    BY <1>2 DEF Fits
  <2>2. /\ IsRow(u) /\ u.override = r.override /\ u.label = r.label /\ u.synced = r.synced /\ u.price = r.price
        /\ u.efforts = EffortsOf(id)
    BY <2>1 DEF IsRow, RowFields
  <2>3. WithEfforts(r, id) = u
    BY <1>2 DEF WithEfforts
  <2> HIDE DEF u
  <2>4. u # NoRow
    BY <2>2, RowIsThere
  <2> QED BY <1>2, <2>1, <2>2, <2>3, <2>4 DEF Fits, Sold, EffortsOf
<1> QED BY <1>1, <1>2

LEMMA SyncFits ==
    ASSUME NEW id, NEW r, NEW price, NEW label, NEW entries, Fits(id, r, price, label, entries),
           NEW p, NEW from, Sold(CatalogRow(p), from)
    PROVE  Fits(id, SyncModel(r, CatalogRow(p)), -1, label, from) /\ SyncModel(r, CatalogRow(p)) # NoRow
<1> DEFINE m == CatalogRow(p)
<1>0. IsRow(m) /\ m # NoRow /\ m.price = p /\ m.override = TRUE /\ m.label = "listed" /\ m.synced = Endpoint /\ m.efforts = None
  BY CatalogRowMade
<1>1. CASE r = NoRow
  <2>1. SyncModel(r, m) = m
    BY <1>1 DEF SyncModel
  <2> HIDE DEF m
  <2>2. Sold(m, from)
    BY DEF m
  <2> QED BY <1>0, <1>1, <2>1, <2>2 DEF Fits, m
<1>2. CASE r # NoRow
  <2> DEFINE u == [m EXCEPT !.label = IF r.label = None THEN @ ELSE r.label, !.efforts = r.efforts]
  <2>1. SyncModel(r, m) = u
    BY <1>2 DEF SyncModel
  <2>2. Sold(m, from)
    OBVIOUS
  <2> HIDE DEF m
  <2>3. /\ IsRow(u) /\ u.override = m.override /\ u.price = m.price /\ u.synced = m.synced /\ u.efforts = r.efforts
        /\ u.label = IF r.label = None THEN m.label ELSE r.label
    BY <1>0 DEF IsRow, RowFields
  <2> HIDE DEF u
  <2>4. u # NoRow
    BY <2>3, RowIsThere
  <2>5. Sold(u, from)
    BY <2>2, <2>3 DEF Sold
  <2>6. Fits(id, u, -1, label, from)
    BY <1>0, <1>2, <2>3, <2>4, <2>5 DEF Fits
  <2> QED BY <2>1, <2>4, <2>6 DEF m
<1> QED BY <1>1, <1>2

(* What an entry is priced at, a vendor that can serve it for chat charges. *)
LEMMA ChosenIsSold ==
    ASSUME NEW e, e.vendors \in Seq([chat : BOOLEAN, callable : BOOLEAN, price : Int]), NEW choice, Choose(e, choice) > 0
    PROVE  Sold(CatalogRow(Choose(e, choice)), {e})
<1> DEFINE among == {i \in DOMAIN e.vendors : Callable(e.vendors[i]) /\ e.vendors[i].price > 0}
           chosen == Preferred(e.vendors, among, choice)
<1>1. \A i \in DOMAIN e.vendors : i \in Nat /\ e.vendors[i].price \in Int
  <2> DEFINE vs == e.vendors
             V == [chat : BOOLEAN, callable : BOOLEAN, price : Int]
  <2>0. vs \in Seq(V)
    OBVIOUS
  <2>1. \A i \in DOMAIN vs : i \in Nat /\ vs[i] \in V
    <3> HIDE DEF vs, V
    <3> QED BY <2>0
  <2>2. \A v \in V : v.price \in Int
    OBVIOUS
  <2> QED BY <2>1, <2>2
<1>2. Choose(e, choice) = IF ~ e.callable \/ among = {} THEN -1 ELSE e.vendors[chosen].price
  BY DEF Choose, PriceOf
<1>3. among # {}
  BY <1>2
<1>4. \E i \in among : \A k \in among : i <= k
  <2>1. among \in SUBSET Nat
    BY <1>1
  <2> HIDE DEF among
  <2> QED BY <1>3, <2>1, LeastOf
<1>5. \E i \in among : \A k \in among : e.vendors[i].price <= e.vendors[k].price
  <2> DEFINE prices == {e.vendors[i].price : i \in among}
  <2>1. prices \in SUBSET Nat
    BY <1>1
  <2>2. prices # {}
    BY <1>3
  <2>3. PICK p \in prices : \A q \in prices : p <= q
    <3> HIDE DEF prices
    <3> QED BY <2>1, <2>2, LeastOf
  <2>4. PICK i \in among : p = e.vendors[i].price
    BY <2>3
  <2>5. \A k \in among : e.vendors[k].price \in prices
    OBVIOUS
  <2> HIDE DEF among, prices
  <2> QED BY <2>3, <2>4, <2>5
<1>6. chosen \in among
  <2> HIDE DEF among
  <2>1. \E i \in among : \A k \in among : IF choice = "first" THEN i <= k ELSE e.vendors[i].price <= e.vendors[k].price
    BY <1>4, <1>5
  <2> QED BY <2>1 DEF Preferred
<1>7. Choose(e, choice) = e.vendors[chosen].price
  BY <1>2, <1>3
<1>8. CatalogRow(Choose(e, choice)).price = Choose(e, choice)
  BY CatalogRowMade
<1> HIDE DEF chosen
<1> QED BY <1>6, <1>7, <1>8 DEF Sold

LEMMA RowsInitInv == ModelInit => RowsInv
<1> SUFFICES ASSUME ModelInit PROVE RowsInv
  OBVIOUS
<1>1. ASSUME NEW id \in ModelIds PROVE RowOK(id)
  <2>1. stated[id] = -1 /\ named[id] = None
    BY DEF ModelInit
  <2>2. CASE id \in Stray
    <3>1. rows[id] = Row("other", 1, "stated", FALSE, None, None)
      BY <2>2 DEF ModelInit
    <3>2. IsRow(rows[id]) /\ rows[id].synced = None /\ rows[id].efforts = None
      BY <3>1 DEF Row, IsRow, RowFields
    <3> QED BY <2>1, <3>2, ModelAssumption DEF RowOK, Fits
  <2>3. CASE id \notin Stray
    <3>1. rows[id] = NoRow
      BY <2>3 DEF ModelInit
    <3> QED BY <2>1, <3>1 DEF RowOK, Fits
  <2> QED BY <2>2, <2>3
<1>2. \A j \in Jobs : job[j].pc = "idle"
  BY DEF ModelInit, Waiting
<1>3. (\A j \in Jobs : JobOK(job[j])) /\ LocksApart
  BY <1>2 DEF JobOK, LocksApart, Committing
<1>4. ReportOK
  BY DEF ModelInit, ReportOK, SyncRemovesOnlyStale, ReportIsTrue
<1> QED BY <1>1, <1>3, <1>4 DEF RowsInv, ModelInit

(* Rows are written that no job holds, and nothing a job holds changes.    *)
LEMMA RowsWritten ==
    ASSUME RowsInv, UNCHANGED ladder, ReportOK',
           DOMAIN rows' = ModelIds, DOMAIN job' = Jobs,
           DOMAIN stated' = ModelIds, DOMAIN named' = ModelIds, DOMAIN offered' = ModelIds,
           \A k \in Jobs : \/ job'[k] = job[k] \/ job'[k].pc \in {"idle", "efforts"}
                           \/ job'[k] = [pc |-> "pricing", changes |-> job'[k].changes],
           \A x \in ModelIds :
               \/ rows'[x] = rows[x] /\ stated'[x] = stated[x] /\ named'[x] = named[x] /\ offered'[x] = offered[x]
               \/ /\ Fits(x, rows'[x], stated'[x], named'[x], offered'[x])
                  /\ \A k \in Jobs : job'[k].pc \in Committing => x \notin job'[k].locks,
           \A k \in Jobs : job'[k].pc = "deleted" => job'[k].removed \cap late \subseteq late'
    PROVE  RowsInv'
<1>1. ASSUME NEW x \in ModelIds PROVE RowOK(x)'
  BY DEF RowsInv, RowOK
<1>2. ASSUME NEW k \in Jobs PROVE JobOK(job[k])'
  <2>1. CASE job'[k].pc \in {"idle", "efforts"}
    BY <2>1 DEF JobOK, Committing
  <2>2. CASE job'[k] = [pc |-> "pricing", changes |-> job'[k].changes]
    <3>1. job'[k].pc = "pricing"
      BY <2>2
    <3> QED BY <2>2, <3>1 DEF JobOK, Committing
  <2>3. CASE job'[k] = job[k]
    <3>0. JobOK(job[k])
      BY DEF RowsInv
    <3>1. job[k].pc \in Committing => PutOK(job[k])'
      <4> SUFFICES ASSUME job[k].pc \in Committing PROVE PutOK(job[k])'
        OBVIOUS
      <4>1. PutOK(job[k])
        BY <3>0 DEF JobOK
      <4>2. \A x \in DOMAIN job[k].put : stated'[x] = stated[x] /\ named'[x] = named[x] /\ offered'[x] = offered[x]
        BY <2>3, <4>1 DEF PutOK
      <4> QED BY <2>3, <4>1, <4>2 DEF PutOK, PlanOK
    <3>2. job[k].pc = "deleted" => DeletedOK(job[k])'
      BY <2>3, <3>0 DEF JobOK, DeletedOK
    <3>3. job[k].pc = "listed" => ListedOK(job[k])'
      BY <2>3, <3>0 DEF JobOK, ListedOK
    <3>4. job[k].pc = "planned" => PlannedOK(job[k])'
      BY <2>3, <3>0 DEF JobOK, PlannedOK, PlanOK
    <3> QED BY <2>3, <3>0, <3>1, <3>2, <3>3, <3>4 DEF JobOK
  <2> QED BY <2>1, <2>2, <2>3
<1>3. LocksApart'
  <2>1. \A k \in Jobs : job'[k].pc \in Committing => job'[k] = job[k]
    BY DEF Committing
  <2> QED BY <2>1 DEF RowsInv, LocksApart
<1> QED BY <1>1, <1>2, <1>3 DEF RowsInv

(* A job moves on, and nothing else does.                                  *)
LEMMA JobMoves ==
    ASSUME RowsInv, NEW j \in Jobs, NEW s, job' = [job EXCEPT ![j] = s], JobOK(s),
           UNCHANGED <<rows, ladder, report, stated, named, offered, late>>,
           s.pc \in Committing => \A k \in Jobs \ {j} : job[k].pc \in Committing => s.locks \cap job[k].locks = {}
    PROVE  RowsInv'
<1>0. DOMAIN job' = Jobs /\ job'[j] = s /\ \A k \in Jobs \ {j} : job'[k] = job[k]
  BY DEF RowsInv
<1>1. ASSUME NEW x \in ModelIds PROVE RowOK(x)'
  BY DEF RowsInv, RowOK
<1>2. ASSUME NEW k \in Jobs PROVE JobOK(job[k])'
  <2>1. JobOK(job'[k])
    BY <1>0 DEF RowsInv
  <2> QED BY <2>1 DEF JobOK, ListedOK, PlannedOK, PutOK, PlanOK, DeletedOK
<1>3. LocksApart'
  BY <1>0 DEF RowsInv, LocksApart
<1>4. ReportOK'
  BY DEF RowsInv, ReportOK, SyncRemovesOnlyStale, ReportIsTrue
<1> QED BY <1>0, <1>1, <1>2, <1>3, <1>4 DEF RowsInv

LEMMA ReportStands == ASSUME RowsInv, UNCHANGED report PROVE ReportOK'
  BY DEF RowsInv, ReportOK, SyncRemovesOnlyStale, ReportIsTrue

LEMMA TakenIsLocked == \A x : x \notin Taken => \A k \in Jobs : job[k].pc \in Committing => x \notin job[k].locks
  BY DEF Taken, Committing

LEMMA SeedKeeps == ASSUME RowsInv, NEW id \in ModelIds, Seed(id) PROVE RowsInv'
<1>1. PICK price \in Prices \ {0} : Puts(id, Upsert(rows[id], Row(id.provider, price, "stated", FALSE, None, None)))
  BY DEF Seed
<1> DEFINE m == Row(id.provider, price, "stated", FALSE, None, None)
<1>2. IsRow(m) /\ m.synced = None /\ m.efforts = None
  BY DEF Row, IsRow, RowFields
<1>3. rows' = [rows EXCEPT ![id] = Upsert(rows[id], m)]
  BY <1>1 DEF Puts
<1> HIDE DEF m
<1>4. RowOK(id)
  BY DEF RowsInv
<1>5. Fits(id, Upsert(rows[id], m), stated[id], named[id], offered[id])
  BY <1>2, <1>4, UpsertFits DEF RowOK
<1>6. UNCHANGED <<ladder, job, report, stated, named, offered, late>> /\ id \notin Taken
  BY DEF Seed, CanWrite
<1> QED BY <1>3, <1>5, <1>6, RowsWritten, ReportStands, TakenIsLocked DEF RowsInv

LEMMA AddKeeps == ASSUME RowsInv, NEW id \in ModelIds, AddModel(id) PROVE RowsInv'
<1>1. PICK price \in Prices, label \in {None, "operator's"} :
         /\ Puts(id, Override(rows[id], Row(id.provider, price, "stated", TRUE, label, None)))
         /\ stated' = [stated EXCEPT ![id] = price]
         /\ named' = IF label = None THEN named ELSE [named EXCEPT ![id] = label]
  BY DEF AddModel
<1> DEFINE m == Row(id.provider, price, "stated", TRUE, label, None)
<1>2. IsRow(m) /\ m.synced = None /\ m.efforts = None /\ m.price = price /\ m.label = label
  BY DEF Row, IsRow, RowFields
<1>3. m.override = TRUE
  BY DEF Row
<1>4. rows' = [rows EXCEPT ![id] = Override(rows[id], m)]
  BY <1>1 DEF Puts
<1> HIDE DEF m
<1>5. RowOK(id) /\ DOMAIN stated = ModelIds /\ DOMAIN named = ModelIds /\ DOMAIN rows = ModelIds
  BY DEF RowsInv
<1>6. Fits(id, Override(rows[id], m), m.price, IF m.label = None THEN named[id] ELSE m.label, offered[id])
  BY <1>2, <1>3, <1>5, OverrideFits DEF RowOK
<1>7. /\ stated'[id] = m.price /\ named'[id] = IF m.label = None THEN named[id] ELSE m.label
      /\ DOMAIN stated' = ModelIds /\ DOMAIN named' = ModelIds
      /\ \A x \in ModelIds \ {id} : stated'[x] = stated[x] /\ named'[x] = named[x]
  BY <1>1, <1>2, <1>5
<1>8. UNCHANGED <<ladder, job, report, offered, late>> /\ id \notin Taken
  BY DEF AddModel, CanWrite
<1> QED BY <1>4, <1>5, <1>6, <1>7, <1>8, RowsWritten, ReportStands, TakenIsLocked DEF RowsInv

LEMMA LabelKeeps == ASSUME RowsInv, NEW id \in ModelIds, SetLabel(id) PROVE RowsInv'
<1>1. PICK label \in {None, "operator's"} :
         Puts(id, [rows[id] EXCEPT !.label = label]) /\ named' = [named EXCEPT ![id] = label]
  BY DEF SetLabel
<1>2. rows' = [rows EXCEPT ![id] = [rows[id] EXCEPT !.label = label]]
  BY <1>1 DEF Puts
<1>3. RowOK(id) /\ rows[id] # NoRow
  BY DEF RowsInv, SetLabel
<1>4. Fits(id, [rows[id] EXCEPT !.label = label], stated[id], label, offered[id])
  BY <1>3, LabelFits DEF RowOK
<1>5. UNCHANGED <<ladder, job, report, stated, offered, late>> /\ id \notin Taken
  BY DEF SetLabel, CanWrite
<1> QED BY <1>1, <1>2, <1>4, <1>5, RowsWritten, ReportStands, TakenIsLocked DEF RowsInv

LEMMA TiersKeep == ASSUME RowsInv, NEW id \in ModelIds, SetTiers(id) PROVE RowsInv'
<1>1. UNCHANGED <<rows, job, report, stated, named, offered>>
  BY DEF SetTiers
<1>2. ASSUME NEW k \in Jobs PROVE JobOK(job[k])'
  <2>1. JobOK(job[k]) /\ job'[k] = job[k]
    BY <1>1 DEF RowsInv
  <2>2. job[k].pc = "deleted" => DeletedOK(job[k])'
    BY <2>1 DEF SetTiers, JobOK, DeletedOK
  <2> QED BY <1>1, <2>1, <2>2 DEF JobOK, ListedOK, PlannedOK, PutOK, PlanOK
<1>3. \A x \in ModelIds : RowOK(x)'
  BY <1>1 DEF RowsInv, RowOK
<1> QED BY <1>1, <1>2, <1>3, ReportStands DEF RowsInv, LocksApart

LEMMA StartsKeep ==
    ASSUME RowsInv, NEW j \in Jobs, PricesRead(j) \/ DiscoverReads(j) \/ EffortsRead(j) \/ SyncDryRun(j) PROVE RowsInv'
<1>1. UNCHANGED <<rows, ladder, report, stated, named, offered, late>>
  BY DEF PricesRead, DiscoverReads, EffortsRead, SyncDryRun
<1>2. PICK s : /\ job' = [job EXCEPT ![j] = s]
               /\ s = Waiting \/ (\E c : s = [pc |-> "pricing", changes |-> c]) \/ (\E c : s = [pc |-> "efforts", ids |-> c])
  BY DEF PricesRead, DiscoverReads, EffortsRead, SyncDryRun, JobGoes
<1>3. s.pc \in {"idle", "efforts"} \/ (s.pc = "pricing" /\ s = [pc |-> "pricing", changes |-> s.changes])
  BY <1>2 DEF Waiting
<1>4. JobOK(s) /\ s.pc \notin Committing
  BY <1>3 DEF JobOK, Committing
<1> QED BY <1>1, <1>2, <1>4, JobMoves

LEMMA PricesKeep == ASSUME RowsInv, NEW j \in Jobs, PricesApply(j) PROVE RowsInv'
<1>1. UNCHANGED <<ladder, report, stated, named, offered, late>> /\ job[j].pc = "pricing" /\ JobOK(job[j])
  BY DEF PricesApply, RowsInv
<1>2. job[j] = [pc |-> "pricing", changes |-> job[j].changes]
  BY <1>1 DEF JobOK
<1>3. CASE job[j].changes = {}
  <2>1. job' = [job EXCEPT ![j] = Waiting] /\ UNCHANGED rows
    BY <1>3 DEF PricesApply, JobGoes
  <2>2. Waiting.pc = "idle"
    BY DEF Waiting
  <2>3. JobOK(Waiting) /\ Waiting.pc \notin Committing
    BY <2>2 DEF JobOK, Committing
  <2> QED BY <1>1, <2>1, <2>3, JobMoves
<1>4. CASE job[j].changes # {}
  <2>1. PICK c \in job[j].changes :
           /\ c.id \notin Taken
           /\ job' = [job EXCEPT ![j] = [job[j] EXCEPT !.changes = @ \ {c}]]
           /\ rows' = [rows EXCEPT ![c.id] =
                         IF c.insert THEN Upsert(rows[c.id], Row(c.id.provider, c.price, "assumed", FALSE, None, None))
                         ELSE UpdatePrices(rows[c.id], c.price)]
    BY <1>4 DEF PricesApply, JobGoes, Puts
  <2> DEFINE m == Row(c.id.provider, c.price, "assumed", FALSE, None, None)
             r == IF c.insert THEN Upsert(rows[c.id], m) ELSE UpdatePrices(rows[c.id], c.price)
             s == [job[j] EXCEPT !.changes = @ \ {c}]
  <2>2. IsRow(m) /\ m.synced = None /\ m.efforts = None
    BY DEF Row, IsRow, RowFields
  <2>3. s.pc = "pricing" /\ s = [pc |-> "pricing", changes |-> s.changes]
    BY <1>2
  <2>4. job' = [job EXCEPT ![j] = s] /\ rows' = [rows EXCEPT ![c.id] = r]
    BY <2>1
  <2> HIDE DEF m, s
  <2>5. c.id \in ModelIds => Fits(c.id, r, stated[c.id], named[c.id], offered[c.id])
    <3> SUFFICES ASSUME c.id \in ModelIds PROVE Fits(c.id, r, stated[c.id], named[c.id], offered[c.id])
      OBVIOUS
    <3>1. Fits(c.id, rows[c.id], stated[c.id], named[c.id], offered[c.id])
      BY DEF RowsInv, RowOK
    <3> QED BY <2>2, <3>1, UpsertFits, PricesFit
  <2> HIDE DEF r
  <2>6. /\ DOMAIN rows' = ModelIds /\ DOMAIN job' = Jobs /\ \A k \in Jobs : job'[k] = job[k] \/ (k = j /\ job'[k] = s)
        /\ \A x \in ModelIds : rows'[x] = rows[x] \/ (x = c.id /\ rows'[x] = r)
    BY <2>4 DEF RowsInv
  <2>7. \A k \in Jobs : job'[k].pc \in Committing => job'[k] = job[k]
    BY <2>3, <2>6 DEF Committing
  <2>8. \A k \in Jobs : job'[k].pc \in Committing => c.id \notin job'[k].locks
    BY <2>1, <2>7, TakenIsLocked
  <2> QED BY <1>1, <2>3, <2>5, <2>6, <2>8, RowsWritten, ReportStands DEF RowsInv
<1> QED BY <1>3, <1>4

LEMMA EffortsKeep == ASSUME RowsInv, NEW j \in Jobs, EffortsWrite(j) PROVE RowsInv'
<1>1. /\ UNCHANGED <<ladder, report, stated, named, offered, late>> /\ job[j].ids \cap Taken = {}
      /\ rows' = [id \in ModelIds |-> IF id \in job[j].ids THEN WithEfforts(rows[id], id) ELSE rows[id]]
      /\ job' = [job EXCEPT ![j] = Waiting] /\ Waiting.pc = "idle"
  BY DEF EffortsWrite, JobGoes, Waiting
<1>2. \A x \in ModelIds : Fits(x, WithEfforts(rows[x], x), stated[x], named[x], offered[x])
  BY EffortsFit DEF RowsInv, RowOK
<1>3. \A k \in Jobs : job'[k] = job[k] \/ job'[k].pc = "idle"
  BY <1>1 DEF RowsInv
<1>4. \A k \in Jobs : job'[k].pc \in Committing => job'[k] = job[k]
  BY <1>3 DEF Committing
<1>5. \A x \in ModelIds : rows'[x] = rows[x] \/ (x \notin Taken /\ rows'[x] = WithEfforts(rows[x], x))
  BY <1>1
<1>6. \A x \in ModelIds : \/ rows'[x] = rows[x]
                          \/ /\ Fits(x, rows'[x], stated[x], named[x], offered[x])
                             /\ \A k \in Jobs : job'[k].pc \in Committing => x \notin job'[k].locks
  BY <1>2, <1>4, <1>5, TakenIsLocked
<1>7. DOMAIN rows' = ModelIds /\ DOMAIN job' = Jobs
  BY <1>1 DEF RowsInv
<1> QED BY <1>1, <1>3, <1>6, <1>7, RowsWritten, ReportStands DEF RowsInv

LEMMA ReadsKeep == ASSUME RowsInv, NEW j \in Jobs, SyncReads(j) PROVE RowsInv'
<1>0. UNCHANGED <<rows, ladder, report, stated, named, offered, late>>
  BY DEF SyncReads
<1>1. PICK list \in PricedLists \ {<< >>}, o \in Options :
          /\ ReadPages(list) # {}
          /\ job' = [job EXCEPT ![j] = [pc |-> "listed", list |-> list, shrink |-> o.shrink, choice |-> o.choice,
                         manages |-> {id \in UnderEndpoint : id.vendor \in o.manages},
                         existing |-> [id \in UnderEndpoint |-> rows[id]]]]
  BY DEF SyncReads, JobGoes
<1> DEFINE s == [pc |-> "listed", list |-> list, shrink |-> o.shrink, choice |-> o.choice,
                 manages |-> {id \in UnderEndpoint : id.vendor \in o.manages},
                 existing |-> [id \in UnderEndpoint |-> rows[id]]]
<1>2. list \in Lists
  BY <1>1 DEF PricedLists, PricedList
<1>3. s.pc = "listed" /\ s.list = list /\ s.manages \subseteq UnderEndpoint /\ job' = [job EXCEPT ![j] = s]
  BY <1>1
<1> HIDE DEF s
<1>4. JobOK(s) /\ s.pc \notin Committing
  BY <1>1, <1>2, <1>3 DEF JobOK, ListedOK, Committing
<1> QED BY <1>0, <1>3, <1>4, JobMoves

LEMMA PlansKeep == ASSUME RowsInv, NEW j \in Jobs, SyncPlans(j) PROVE RowsInv'
<1>0. UNCHANGED <<rows, ladder, report, stated, named, offered, late>> /\ job[j].pc = "listed" /\ ListedOK(job[j])
  BY DEF SyncPlans, RowsInv, JobOK
<1>1. CASE Refused(j, Gone(j) \ ladder)
  <2>1. job' = [job EXCEPT ![j] = Waiting] /\ Waiting.pc = "idle"
    BY <1>1 DEF SyncPlans, JobGoes, Waiting
  <2>2. JobOK(Waiting) /\ Waiting.pc \notin Committing
    BY <2>1 DEF JobOK, Committing
  <2> QED BY <1>0, <2>1, <2>2, JobMoves
<1>2. CASE ~ Refused(j, Gone(j) \ ladder)
  <2> DEFINE s == [pc |-> "planned", planned |-> Planned(j), write |-> ToWrite(j), manages |-> Ids(ToWrite(j) \cup Same(j)),
                   choice |-> job[j].choice, list |-> job[j].list]
  <2>1. job' = [job EXCEPT ![j] = s]
    BY <1>2 DEF SyncPlans, JobGoes
  <2>2. /\ s.pc = "planned" /\ s.planned = Planned(j) /\ s.write = ToWrite(j) /\ s.manages = Ids(ToWrite(j) \cup Same(j))
        /\ s.choice = job[j].choice /\ s.list = job[j].list
    OBVIOUS
  <2>3. /\ IsPlan(Planned(j)) /\ Planned(j).removed = Gone(j) \ ladder
        /\ Planned(j).added = Ids({e \in ToWrite(j) : job[j].existing[e.id] = NoRow})
        /\ Planned(j).updated = Ids({e \in ToWrite(j) : job[j].existing[e.id] # NoRow})
    BY DEF Planned, IsPlan
  <2>4. Planned(j).added \cup Planned(j).updated = Ids(ToWrite(j))
    BY <2>3 DEF Ids
  <2>5. ToWrite(j) \subseteq Offers(j) /\ Same(j) \subseteq Offers(j)
    BY DEF ToWrite, Same
  <2>6. \A e \in Offers(j) : e \in Listed(job[j].list) /\ e.id \in ModelIds /\ Choose(e, job[j].choice) > 0
    BY <1>0 DEF Offers, Admitted, ListedOK, UnderEndpoint
  <2>7. job[j].list \in Lists /\ ReadPages(job[j].list) = DOMAIN job[j].list
    BY <1>0, ModelAssumption DEF ListedOK
  <2>8. \A e \in Listed(job[j].list) : e.vendors \in Seq([chat : BOOLEAN, callable : BOOLEAN, price : Int])
    BY <2>7, ModelAssumption DEF Listed
  <2>9. \A e \in ToWrite(j) : Sold(CatalogRow(Choose(e, job[j].choice)), {e})
    BY <2>5, <2>6, <2>8, ChosenIsSold
  <2>10. Gone(j) \cap PagesIds(job[j].list) = {}
    <3> SUFFICES ASSUME NEW id \in Gone(j), NEW at \in DOMAIN job[j].list, NEW e \in job[j].list[at].entries, e.id = id
                 PROVE  FALSE
      BY DEF PagesIds, Ids
    <3>1. e \in Listed(job[j].list)
      BY <2>7 DEF Listed
    <3>2. id \in job[j].manages
      BY DEF Gone, Synced
    <3> QED BY <3>1, <3>2 DEF Gone, Admitted
  <2>11. Ids(ToWrite(j)) \subseteq ModelIds /\ Ids(ToWrite(j) \cup Same(j)) \subseteq ModelIds
    BY <2>5, <2>6 DEF Ids
  <2> HIDE DEF s
  <2>12. PlanOK(s)
    <3>1. Gone(j) \subseteq ModelIds
      BY <1>0 DEF Gone, Synced, ListedOK, UnderEndpoint
    <3> QED BY <2>2, <2>3, <2>10, <3>1 DEF PlanOK
  <2>13. PlannedOK(s)
    BY <2>2, <2>4, <2>9, <2>11, <2>12 DEF PlannedOK
  <2>14. JobOK(s) /\ s.pc \notin Committing
    BY <2>2, <2>13 DEF JobOK, Committing
  <2> QED BY <1>0, <2>1, <2>14, JobMoves
<1> QED BY <1>1, <1>2

LEMMA WritesKeep == ASSUME RowsInv, NEW j \in Jobs, SyncWrites(j) PROVE RowsInv'
<1> DEFINE written == {e \in job[j].write : Mine(rows[e.id])}
           levelled == {id \in job[j].manages : Mine(rows[id]) /\ (rows[id] # NoRow \/ id \in Ids(written))}
           put == [id \in Ids(written) \cup levelled |->
                      WithEfforts(IF id \in Ids(written)
                                  THEN SyncModel(rows[id], Fresh(j, CHOOSE e \in written : e.id = id))
                                  ELSE rows[id], id)]
           s == [pc |-> "written", planned |-> job[j].planned, put |-> put, locks |-> DOMAIN put,
                 from |-> written, held |-> Ids(job[j].write \ written), list |-> job[j].list]
<1>0. /\ UNCHANGED <<rows, ladder, report, stated, named, offered, late>> /\ job[j].pc = "planned" /\ PlannedOK(job[j])
      /\ (Ids(job[j].write) \cup job[j].manages) \cap Taken = {}
  BY DEF SyncWrites, RowsInv, JobOK
<1>1. job' = [job EXCEPT ![j] = s]
  BY DEF SyncWrites, JobGoes
<1>2. /\ s.pc = "written" /\ s.planned = job[j].planned /\ s.put = put /\ s.locks = DOMAIN put
      /\ s.from = written /\ s.held = Ids(job[j].write \ written) /\ s.list = job[j].list
  OBVIOUS
<1>3. DOMAIN put = Ids(written) \cup levelled
  OBVIOUS
<1>4. Ids(written) \subseteq Ids(job[j].write) /\ levelled \subseteq job[j].manages
  BY DEF Ids
<1>5. Ids(job[j].write) = Ids(written) \cup Ids(job[j].write \ written) /\ Ids(written) \cap Ids(job[j].write \ written) = {}
  BY DEF Ids
<1>6. ASSUME NEW id \in Ids(written)
      PROVE  Fits(id, put[id], -1, named[id], EntryFor(written, id))
  <2> DEFINE e == CHOOSE e \in written : e.id = id
  <2>1. e \in written
    BY DEF Ids
  <2>2. Sold(CatalogRow(Choose(e, job[j].choice)), {e})
    BY <1>0, <2>1 DEF PlannedOK
  <2>3. EntryFor(written, id) = {e}
    BY DEF EntryFor
  <2>4. put[id] = WithEfforts(SyncModel(rows[id], CatalogRow(Choose(e, job[j].choice))), id)
    BY DEF Fresh
  <2>5. Fits(id, rows[id], stated[id], named[id], offered[id])
    BY <1>0, <1>4 DEF RowsInv, RowOK, PlannedOK
  <2> HIDE DEF e, put
  <2>6. Fits(id, SyncModel(rows[id], CatalogRow(Choose(e, job[j].choice))), -1, named[id], {e})
    BY <2>2, <2>5, SyncFits
  <2> QED BY <2>3, <2>4, <2>6, EffortsFit
<1>7. ASSUME NEW id \in levelled, id \notin Ids(written)
      PROVE  Fits(id, put[id], stated[id], named[id], offered[id])
  <2>1. put[id] = WithEfforts(rows[id], id)
    BY <1>7
  <2>2. Fits(id, rows[id], stated[id], named[id], offered[id])
    BY <1>0, <1>4 DEF RowsInv, RowOK, PlannedOK
  <2> QED BY <2>1, <2>2, EffortsFit
<1> HIDE DEF s, put, written, levelled
<1>8. PutOK(s)
  <2>1. PlanOK(s)
    BY <1>0, <1>2 DEF PlannedOK, PlanOK
  <2>2. s.planned.added \cup s.planned.updated = Ids(s.from) \cup s.held /\ Ids(s.from) \cap s.held = {}
    BY <1>0, <1>2, <1>5 DEF PlannedOK
  <2>3. Ids(s.from) \subseteq DOMAIN s.put /\ DOMAIN s.put \subseteq s.locks /\ s.locks \subseteq ModelIds
    BY <1>0, <1>2, <1>3, <1>4 DEF PlannedOK
  <2>4. \A id \in DOMAIN s.put :
          IF id \in Ids(s.from) THEN Fits(id, s.put[id], -1, named[id], EntryFor(s.from, id))
          ELSE Fits(id, s.put[id], stated[id], named[id], offered[id])
    BY <1>2, <1>3, <1>6, <1>7
  <2> QED BY <2>1, <2>2, <2>3, <2>4 DEF PutOK
<1>9. JobOK(s)
  BY <1>2, <1>8 DEF JobOK, Committing
<1>10. \A k \in Jobs : job[k].pc \in Committing => s.locks \cap job[k].locks = {}
  <2>1. \A x \in s.locks : x \notin Taken
    BY <1>0, <1>2, <1>3, <1>4
  <2> QED BY <2>1, TakenIsLocked
<1> QED BY <1>0, <1>1, <1>9, <1>10, JobMoves

LEMMA DeletesKeep == ASSUME RowsInv, NEW j \in Jobs, SyncDeletes(j) PROVE RowsInv'
<1> DEFINE removed == {id \in job[j].planned.removed : Stale(id)}
           s == [pc |-> "deleted", planned |-> job[j].planned, put |-> job[j].put, from |-> job[j].from,
                 held |-> job[j].held, removed |-> removed, locks |-> job[j].locks \cup removed, list |-> job[j].list]
<1>0. /\ UNCHANGED <<rows, ladder, report, stated, named, offered, late>> /\ job[j].pc = "written"
      /\ removed \cap (Taken \ job[j].locks) = {} /\ job' = [job EXCEPT ![j] = s]
  BY DEF SyncDeletes, JobGoes
<1>1. PutOK(job[j])
  BY <1>0 DEF RowsInv, JobOK, Committing
<1>2. /\ s.pc = "deleted" /\ s.planned = job[j].planned /\ s.put = job[j].put /\ s.from = job[j].from
      /\ s.held = job[j].held /\ s.removed = removed /\ s.locks = job[j].locks \cup removed /\ s.list = job[j].list
  OBVIOUS
<1>3. removed \cap ladder = {} /\ removed \subseteq job[j].planned.removed
  BY DEF Stale
<1>4. removed \subseteq ModelIds
  BY <1>1 DEF PutOK, PlanOK
<1> HIDE DEF s, removed
<1>5. PutOK(s)
  BY <1>1, <1>2, <1>4 DEF PutOK, PlanOK
<1>6. DeletedOK(s)
  BY <1>2, <1>3 DEF DeletedOK
<1>7. JobOK(s)
  BY <1>2, <1>5, <1>6 DEF JobOK, Committing
<1>8. \A k \in Jobs \ {j} : job[k].pc \in Committing => s.locks \cap job[k].locks = {}
  <2> SUFFICES ASSUME NEW k \in Jobs \ {j}, job[k].pc \in Committing, NEW x \in s.locks, x \in job[k].locks PROVE FALSE
    OBVIOUS
  <2>1. x \notin job[j].locks
    BY <1>0 DEF RowsInv, LocksApart, Committing
  <2>2. x \in Taken
    BY TakenIsLocked
  <2> QED BY <1>0, <1>2, <2>1, <2>2
<1> QED BY <1>0, <1>7, <1>8, JobMoves

LEMMA CommitsKeep == ASSUME RowsInv, NEW j \in Jobs, SyncCommits(j) PROVE RowsInv'
<1> DEFINE s == job[j]
           written == Ids(s.from)
<1>0. s.pc = "deleted" /\ UNCHANGED ladder /\ job' = [job EXCEPT ![j] = Waiting] /\ Waiting.pc = "idle"
  BY DEF SyncCommits, JobGoes, Waiting
<1>1. PutOK(s) /\ DeletedOK(s)
  BY <1>0 DEF RowsInv, JobOK, Committing
<1>2. /\ rows' = [id \in ModelIds |-> IF id \in s.removed THEN NoRow ELSE IF id \in DOMAIN s.put THEN s.put[id] ELSE rows[id]]
      /\ stated' = [id \in ModelIds |-> IF id \in written \cup s.removed THEN -1 ELSE stated[id]]
      /\ named' = [id \in ModelIds |-> IF id \in s.removed THEN None ELSE named[id]]
      /\ offered' = [id \in ModelIds |-> IF id \in written THEN EntryFor(s.from, id)
                                         ELSE IF id \in s.removed THEN {} ELSE offered[id]]
      /\ late' = late \ s.removed
  BY DEF SyncCommits, Forget, EntryFor
<1>3. report' = [says |-> Settle(s.planned, s.held, s.removed), written |-> written, removed |-> s.removed,
                 held |-> s.held, list |-> s.list, stranded |-> (s.removed \cap ladder) \ late]
  BY DEF SyncCommits
<1>4. ReportOK'
  <2> DEFINE says == Settle(s.planned, s.held, s.removed)
  <2>1. /\ report'.says = says /\ report'.written = written /\ report'.removed = s.removed /\ report'.held = s.held
        /\ report'.list = s.list /\ report'.stranded = (s.removed \cap ladder) \ late
    BY <1>3
  <2>2. /\ says.added = s.planned.added \ s.held /\ says.updated = s.planned.updated \ s.held
        /\ says.held = s.planned.held \cup s.held /\ says.removed = s.removed
    BY <1>1 DEF Settle, PutOK, PlanOK, IsPlan
  <2>3. says.added \cup says.updated = written
    BY <1>1, <2>2 DEF PutOK
  <2>4. s.removed \cap PagesIds(s.list) = {}
    BY <1>1 DEF PutOK, PlanOK, DeletedOK
  <2>5. (s.removed \cap ladder) \ late = {}
    BY <1>1 DEF DeletedOK
  <2> HIDE DEF says, written, s
  <2> QED BY <2>1, <2>2, <2>3, <2>4, <2>5 DEF ReportOK, SyncRemovesOnlyStale, ReportIsTrue, PagesIds
<1>5. DOMAIN job' = Jobs /\ \A k \in Jobs : (k # j /\ job'[k] = job[k]) \/ (k = j /\ job'[k].pc = "idle")
  BY <1>0 DEF RowsInv
<1>6. \A k \in Jobs : job'[k].pc \in Committing => k # j /\ job'[k] = job[k] /\ job'[k].locks \cap s.locks = {}
  BY <1>0, <1>5 DEF RowsInv, LocksApart, Committing
<1>7. ASSUME NEW x \in ModelIds
      PROVE  \/ rows'[x] = rows[x] /\ stated'[x] = stated[x] /\ named'[x] = named[x] /\ offered'[x] = offered[x]
             \/ /\ Fits(x, rows'[x], stated'[x], named'[x], offered'[x])
                /\ \A k \in Jobs : job'[k].pc \in Committing => x \notin job'[k].locks
  <2>0. x \in s.locks => \A k \in Jobs : job'[k].pc \in Committing => x \notin job'[k].locks
    BY <1>6
  <2>1. CASE x \in s.removed
    <3>1. rows'[x] = NoRow /\ stated'[x] = -1 /\ named'[x] = None
      BY <1>2, <2>1
    <3>2. Fits(x, rows'[x], stated'[x], named'[x], offered'[x])
      BY <3>1 DEF Fits
    <3> QED BY <1>1, <2>0, <2>1, <3>2 DEF DeletedOK
  <2>2. CASE x \notin s.removed /\ x \in written
    <3>1. rows'[x] = s.put[x] /\ stated'[x] = -1 /\ named'[x] = named[x] /\ offered'[x] = EntryFor(s.from, x) /\ x \in s.locks
      BY <1>1, <1>2, <2>2 DEF PutOK
    <3>2. Fits(x, s.put[x], -1, named[x], EntryFor(s.from, x))
      BY <1>1, <2>2 DEF PutOK
    <3> QED BY <2>0, <3>1, <3>2
  <2>3. CASE x \notin s.removed /\ x \notin written /\ x \in DOMAIN s.put
    <3>1. rows'[x] = s.put[x] /\ stated'[x] = stated[x] /\ named'[x] = named[x] /\ offered'[x] = offered[x] /\ x \in s.locks
      BY <1>1, <1>2, <2>3 DEF PutOK
    <3>2. Fits(x, s.put[x], stated[x], named[x], offered[x])
      BY <1>1, <2>3 DEF PutOK
    <3> QED BY <2>0, <3>1, <3>2
  <2>4. CASE x \notin s.removed /\ x \notin written /\ x \notin DOMAIN s.put
    BY <1>2, <2>4
  <2> QED BY <2>1, <2>2, <2>3, <2>4
<1>8. \A k \in Jobs : job'[k].pc = "deleted" => job'[k].removed \cap late \subseteq late'
  <2> SUFFICES ASSUME NEW k \in Jobs, job'[k].pc = "deleted" PROVE job'[k].removed \cap late \subseteq late'
    OBVIOUS
  <2>1. k # j /\ job'[k] = job[k] /\ job[k].locks \cap s.locks = {}
    BY <1>6 DEF Committing
  <2>2. DeletedOK(job[k])
    BY <2>1 DEF RowsInv, JobOK
  <2> QED BY <1>1, <1>2, <2>1, <2>2 DEF DeletedOK
<1>9. DOMAIN rows' = ModelIds /\ DOMAIN stated' = ModelIds /\ DOMAIN named' = ModelIds /\ DOMAIN offered' = ModelIds
  BY <1>2
<1> HIDE DEF s, written
<1> QED BY <1>0, <1>4, <1>5, <1>7, <1>8, <1>9, RowsWritten

LEMMA RowsStep == ASSUME RowsInv, [ModelNext]_modelVars PROVE RowsInv'
<1>1. CASE UNCHANGED modelVars
  <2>1. UNCHANGED <<rows, ladder, job, report, stated, named, offered, late>>
    BY <1>1 DEF modelVars
  <2>2. ReportOK'
    BY <2>1, ReportStands
  <2> QED BY <2>1, <2>2, RowsWritten DEF RowsInv
<1>2. ASSUME NEW id \in ModelIds, Seed(id) \/ AddModel(id) \/ SetLabel(id) \/ SetTiers(id) PROVE RowsInv'
  BY <1>2, SeedKeeps, AddKeeps, LabelKeeps, TiersKeep
<1>3. ASSUME NEW j \in Jobs, JobStep(j) PROVE RowsInv'
  BY <1>3, StartsKeep, PricesKeep, EffortsKeep, ReadsKeep, PlansKeep, WritesKeep, DeletesKeep, CommitsKeep DEF JobStep
<1> QED BY <1>1, <1>2, <1>3 DEF ModelNext

LEMMA RowsInvImplies == ASSUME RowsInv PROVE RowsKept /\ SyncIsTrue
<1>1. ASSUME NEW id \in ModelIds
      PROVE  /\ stated[id] >= 0 => rows[id] # NoRow /\ rows[id].price = stated[id] /\ rows[id].override
             /\ named[id] # None => rows[id] # NoRow /\ rows[id].label = named[id]
  <2>1. RowOK(id)
    BY DEF RowsInv
  <2>2. ~ (-1 >= 0)
    OBVIOUS
  <2> QED BY <2>1, <2>2 DEF RowOK, Fits
<1>2. PricedByAVendor
  BY DEF RowsInv, RowOK, Fits, Sold, PricedByAVendor
<1> QED BY <1>1, <1>2 DEF RowsInv, ReportOK, RowsKept, OperatorsRowKept, LabelsSurvive, SyncIsTrue

(* What an operator stated, and the label an operator gave, survive every  *)
(* seed, price sync, discovery and level write, planned before or after.   *)
THEOREM OperatorsRows == ModelSpec => []RowsKept
<1>1. RowsInv /\ [ModelNext]_modelVars => RowsInv'
  BY RowsStep
<1>2. RowsInv => RowsKept
  BY RowsInvImplies
<1> QED BY <1>1, <1>2, RowsInitInv, PTL DEF ModelSpec

(* An endpoint sync removes only what no page of the list names and no     *)
(* ladder uses, reports what it did, and prices a model as a vendor of it  *)
(* that can serve it does.                                                 *)
THEOREM SyncsAreTrue == ModelSpec => []SyncIsTrue
<1>1. RowsInv /\ [ModelNext]_modelVars => RowsInv'
  BY RowsStep
<1>2. RowsInv => SyncIsTrue
  BY RowsInvImplies
<1> QED BY <1>1, <1>2, RowsInitInv, PTL DEF ModelSpec

------------------------------------------------------------------------------
(***************************************************************************)
(* The rules.  A row the writers' rules pass is one the schema admits and  *)
(* every reload serves, and passing them again changes nothing.            *)
(***************************************************************************)
Good(row) ==
    /\ Admits(row) /\ ~ Refusal(row)
    /\ Checked(row) = row /\ ~ MovesBaseUrl(row, row.url)

LEMMA BrokenParts ==
    ASSUME NEW row
    PROVE  Broken(row) = {} <=>
           /\ ValidateName(row.name) /\ row.dialect \in FromEndpointColumn
           /\ Speaks(row.platform, row.dialect) /\ Suits(row.auth, row.platform)
           /\ IF row.url = NoUrl THEN Regional(row.platform) ELSE EndpointBaseUrl(row.url, row.platform) # Absent
           /\ ~ LocationBroken(row.region, Regional(row.platform))
           /\ ~ (row.platform = "aws" /\ ~ IsAwsRegion(row.region))
           /\ ~ (row.platform = "gcp" /\ row.url = NoUrl /\ row.region = "multi")
           /\ ~ LocationBroken(row.project, row.platform = "gcp")
           /\ ~ PathBroken(row.path, row.dialect) /\ ~ VersionBroken(row.version, row.platform)
           /\ ~ HeaderPairsBroken(row.headers)
<1> DEFINE B(reason) ==
        CASE reason = "name" -> ~ ValidateName(row.name)
          [] reason = "dialect" -> row.dialect \notin FromEndpointColumn
          [] reason = "platform" -> ~ Speaks(row.platform, row.dialect)
          [] reason = "auth" -> ~ Suits(row.auth, row.platform)
          [] reason = "base_url" -> IF row.url = NoUrl THEN ~ Regional(row.platform)
                                    ELSE EndpointBaseUrl(row.url, row.platform) = Absent
          [] reason = "region" -> \/ LocationBroken(row.region, Regional(row.platform))
                                  \/ row.platform = "aws" /\ ~ IsAwsRegion(row.region)
                                  \/ row.platform = "gcp" /\ row.url = NoUrl /\ row.region = "multi"
          [] reason = "project" -> LocationBroken(row.project, row.platform = "gcp")
          [] reason = "path" -> PathBroken(row.path, row.dialect)
          [] reason = "api_version" -> VersionBroken(row.version, row.platform)
          [] OTHER -> HeaderPairsBroken(row.headers)
<1>1. Broken(row) = {} <=> \A reason \in Reasons : ~ B(reason)
  BY DEF Broken
<1>2. (\A reason \in Reasons : ~ B(reason)) <=>
        ~ B("name") /\ ~ B("dialect") /\ ~ B("platform") /\ ~ B("auth") /\ ~ B("base_url") /\ ~ B("region")
        /\ ~ B("project") /\ ~ B("path") /\ ~ B("api_version") /\ ~ B("headers")
  <2> HIDE DEF B
  <2> QED BY DEF Reasons
<1>3. /\ (B("name") <=> ~ ValidateName(row.name))
      /\ (B("dialect") <=> row.dialect \notin FromEndpointColumn)
      /\ (B("platform") <=> ~ Speaks(row.platform, row.dialect))
      /\ (B("auth") <=> ~ Suits(row.auth, row.platform))
      /\ (B("base_url") <=> IF row.url = NoUrl THEN ~ Regional(row.platform)
                            ELSE EndpointBaseUrl(row.url, row.platform) = Absent)
      /\ (B("region") <=> \/ LocationBroken(row.region, Regional(row.platform))
                          \/ row.platform = "aws" /\ ~ IsAwsRegion(row.region)
                          \/ row.platform = "gcp" /\ row.url = NoUrl /\ row.region = "multi")
      /\ (B("project") <=> LocationBroken(row.project, row.platform = "gcp"))
      /\ (B("path") <=> PathBroken(row.path, row.dialect))
      /\ (B("api_version") <=> VersionBroken(row.version, row.platform))
      /\ (B("headers") <=> HeaderPairsBroken(row.headers))
  OBVIOUS
<1> HIDE DEF B
<1> QED BY <1>1, <1>2, <1>3

LEMMA UrlIsNone == IsUrl(NoUrl) /\ NoUrl.host = "" /\ NoUrl.tidy = TRUE /\ \A url : IsUrl(url) => url # Absent
<1>1. IsUrl(NoUrl) /\ NoUrl.host = "" /\ NoUrl.tidy = TRUE
  BY DEF NoUrl, IsUrl
<1>2. ASSUME NEW url, IsUrl(url) PROVE url # Absent
  <2>1. "host" \in DOMAIN url
    BY <1>2 DEF IsUrl
  <2>2. "host" \notin DOMAIN Absent
    BY DEF Absent
  <2> QED BY <2>1, <2>2
<1> QED BY <1>1, <1>2

Tidied(url) == [url EXCEPT !.tidy = TRUE]
LEMMA TidiedFacts ==
    ASSUME NEW url, IsUrl(url)
    PROVE  /\ IsUrl(Tidied(url)) /\ Tidied(url).tidy = TRUE /\ Tidied(Tidied(url)) = Tidied(url)
           /\ Tidied(url).host = url.host /\ Tidied(url).https = url.https
           /\ Tidied(url).more = url.more /\ Tidied(url).flaw = url.flaw
           /\ url.tidy = TRUE => Tidied(url) = url
           /\ Tidied(url) = NoUrl => url = NoUrl
<1> DEFINE u == Tidied(url)
<1>1. /\ u.host = url.host /\ u.https = url.https /\ u.more = url.more /\ u.flaw = url.flaw /\ u.tidy = TRUE
      /\ Tidied(u) = u /\ u = [part \in {"host", "https", "tidy", "more", "flaw"} |-> u[part]]
  BY DEF Tidied, IsUrl
<1>2. url.tidy = TRUE => u = url
  BY DEF Tidied, IsUrl
<1> HIDE DEF u
<1>3. u = NoUrl => url = NoUrl
  BY <1>1, UrlIsNone DEF IsUrl
<1>4. IsUrl(u)
  <2>1. u.host = "" => u = NoUrl
    <3>1. u.host = "" => url = NoUrl
      BY <1>1 DEF IsUrl
    <3> QED BY <1>2, <3>1, UrlIsNone
  <2> QED BY <1>1, <2>1 DEF IsUrl
<1> QED BY <1>1, <1>2, <1>3, <1>4 DEF u

(* A URL that is stored is stored tidied, and stored once more is the same. *)
LEMMA UrlStored ==
    ASSUME NEW url, IsUrl(url), NEW platform, EndpointBaseUrl(url, platform) # Absent
    PROVE  /\ EndpointBaseUrl(url, platform) = Tidied(url)
           /\ EndpointBaseUrl(Tidied(url), platform) = Tidied(url)
<1>1. EndpointBaseUrl(url, platform) = Tidied(url)
  BY DEF EndpointBaseUrl, Tidied
<1>2. EndpointBaseUrl(Tidied(url), platform) = Tidied(Tidied(url))
  BY TidiedFacts DEF EndpointBaseUrl, Tidied, CatalogUrl, NormaliseBaseUrl, PlainRefusedHost, AzureBaseUrl, IsHttpsOrLoopback
<1> QED BY <1>1, <1>2, TidiedFacts

AllColumns == Columns \cup {"url", "stamp"}
LEMMA RowTypes ==
    ASSUME NEW row, IsEndpoint(row)
    PROVE  /\ row # Absent /\ IsUrl(row.url) /\ row.stamp \in Nat /\ DOMAIN row = AllColumns
           /\ \A url : IsUrl(url) => IsEndpoint([row EXCEPT !.url = url])
           /\ \A n \in Nat : IsEndpoint([row EXCEPT !.stamp = n])
<1>1. "url" \in DOMAIN row /\ DOMAIN row = AllColumns
  BY DEF IsEndpoint, AllColumns
<1>2. "url" \notin DOMAIN Absent
  BY DEF Absent
<1>3. row # Absent
  BY <1>1, <1>2
<1>4. ASSUME NEW url, IsUrl(url) PROVE IsEndpoint([row EXCEPT !.url = url])
  BY <1>4 DEF IsEndpoint, Columns
<1>5. ASSUME NEW n \in Nat PROVE IsEndpoint([row EXCEPT !.stamp = n])
  BY <1>5 DEF IsEndpoint, Columns
<1> QED BY <1>1, <1>3, <1>4, <1>5 DEF IsEndpoint

(* What the rules store of a draft: the draft, its URL tidied.             *)
Alike(r, d) == IsEndpoint(r) /\ r.url = Tidied(d.url) /\ \A c \in Columns : r[c] = d[c]
LEMMA CheckedIs ==
    ASSUME NEW d, IsEndpoint(d), Checked(d) # Absent
    PROVE  /\ Broken(d) = {} /\ ~ HeadersRefused(d) /\ Alike(Checked(d), d) /\ Checked(d).stamp = d.stamp
<1>1. Broken(d) = {} /\ ~ HeadersRefused(d)
  BY DEF Checked
<1> DEFINE url == IF d.url = NoUrl THEN NoUrl ELSE EndpointBaseUrl(d.url, d.platform)
<1>2. url = Tidied(d.url)
  <2>1. d.url # NoUrl => EndpointBaseUrl(d.url, d.platform) # Absent
    BY <1>1, BrokenParts
  <2>2. IsUrl(d.url)
    BY RowTypes
  <2>3. Tidied(NoUrl) = NoUrl
    BY UrlIsNone, TidiedFacts
  <2> QED BY <2>1, <2>2, <2>3, UrlStored
<1>3. Checked(d) = [d EXCEPT !.url = url]
  BY <1>1 DEF Checked
<1> HIDE DEF url
<1>4. IsUrl(url)
  BY <1>2, RowTypes, TidiedFacts
<1>5. IsEndpoint(Checked(d))
  BY <1>3, <1>4, RowTypes
<1>6. /\ [d EXCEPT !.url = url].url = url /\ [d EXCEPT !.url = url].stamp = d.stamp
      /\ \A c \in Columns : [d EXCEPT !.url = url][c] = d[c]
  BY RowTypes DEF AllColumns, Columns
<1> QED BY <1>1, <1>2, <1>3, <1>5, <1>6 DEF Alike

LEMMA CheckedIsGood ==
    ASSUME NEW d, IsEndpoint(d), Broken(d) = {}, ~ HeadersRefused(d), NEW r, Alike(r, d)
    PROVE  Good(r)
<1>1. /\ IsEndpoint(r) /\ r.url = Tidied(d.url) /\ r.name = d.name /\ r.dialect = d.dialect /\ r.platform = d.platform
      /\ r.auth = d.auth /\ r.region = d.region /\ r.project = d.project /\ r.version = d.version /\ r.path = d.path
      /\ r.headers = d.headers
  BY DEF Alike, Columns
<1>2. IsUrl(d.url) /\ IsUrl(r.url)
  BY <1>1, RowTypes
<1>3. r.url = NoUrl <=> d.url = NoUrl
  <2>1. Tidied(NoUrl) = NoUrl
    BY UrlIsNone, TidiedFacts
  <2> QED BY <1>1, <1>2, <2>1, TidiedFacts
<1>4. d.url # NoUrl => EndpointBaseUrl(r.url, r.platform) = r.url /\ r.url # Absent
  <2>1. d.url # NoUrl => EndpointBaseUrl(d.url, d.platform) # Absent
    BY BrokenParts
  <2> QED BY <1>1, <1>2, <2>1, UrlStored, UrlIsNone
<1>5. Broken(r) = {}
  <2>1. IF r.url = NoUrl THEN Regional(r.platform) ELSE EndpointBaseUrl(r.url, r.platform) # Absent
    BY <1>1, <1>3, <1>4, BrokenParts
  <2>2. /\ ValidateName(d.name) /\ d.dialect \in FromEndpointColumn
        /\ Speaks(d.platform, d.dialect) /\ Suits(d.auth, d.platform)
        /\ ~ LocationBroken(d.region, Regional(d.platform))
        /\ ~ (d.platform = "aws" /\ ~ IsAwsRegion(d.region))
        /\ ~ (d.platform = "gcp" /\ d.url = NoUrl /\ d.region = "multi")
        /\ ~ LocationBroken(d.project, d.platform = "gcp")
        /\ ~ PathBroken(d.path, d.dialect) /\ ~ VersionBroken(d.version, d.platform)
        /\ ~ HeaderPairsBroken(d.headers)
    BY BrokenParts
  <2> QED BY <1>1, <1>3, <2>1, <2>2, BrokenParts
<1>6. ~ HeadersRefused(r)
  BY <1>1 DEF HeadersRefused
<1>7. Checked(r) = r
  <2>1. (IF r.url = NoUrl THEN NoUrl ELSE EndpointBaseUrl(r.url, r.platform)) = r.url
    BY <1>3, <1>4
  <2>2. [r EXCEPT !.url = r.url] = r
    BY <1>1 DEF IsEndpoint
  <2> QED BY <1>5, <1>6, <2>1, <2>2 DEF Checked
<1>8. ~ MovesBaseUrl(r, r.url)
  BY <1>3, <1>4 DEF MovesBaseUrl
<1>9. /\ Speaks(r.platform, r.dialect) /\ Suits(r.auth, r.platform)
      /\ ~ LocationBroken(r.region, Regional(r.platform))
      /\ ~ (r.platform = "aws" /\ ~ IsAwsRegion(r.region))
      /\ ~ LocationBroken(r.project, r.platform = "gcp")
      /\ r.dialect \in FromEndpointColumn
      /\ IF r.url = NoUrl THEN Regional(r.platform) ELSE EndpointBaseUrl(r.url, r.platform) # Absent
  BY <1>5, BrokenParts
<1>10. Admits(r)
  BY <1>9 DEF Admits, Suits, LocationBroken, Regional
<1>11. Served(r) # "nothing"
  <2>1. CASE r.platform = "plain"
    BY <1>9, <2>1 DEF Served, SystemOne, Adapter, Speaks
  <2>2. CASE r.platform = "azure"
    BY <1>9, <2>2 DEF Served, SystemOne, Adapter, Speaks, AzureServes
  <2>3. CASE r.platform = "aws"
    BY <1>9, <2>3 DEF Served, SystemOne, Adapter, Speaks, AwsServes
  <2>4. CASE r.platform = "gcp"
    BY <1>9, <2>4 DEF Served, SystemOne, Adapter, Speaks, GcpServes, LocationBroken, Regional, IsLocation
  <2> QED BY <1>9, <2>1, <2>2, <2>3, <2>4 DEF Speaks
<1> QED BY <1>5, <1>6, <1>7, <1>8, <1>10, <1>11 DEF Good, Refusal

(***************************************************************************)
(* The table.  A writer's stored row is the one in the table or an older   *)
(* one, so that a stamp that matches is the row that was read; a delete    *)
(* holds the row from its count to its end, and no reference that found    *)
(* the row is filed meanwhile.                                             *)
(***************************************************************************)
TableOK ==
    /\ DOMAIN table = Names /\ clock \in Nat
    /\ \A n \in Names : \/ table[n] = Absent
                        \/ IsEndpoint(table[n]) /\ table[n].name = n /\ (table[n] \in Handwritten \/ Good(table[n]))
Mark(n) == IF table[n] = Absent THEN clock ELSE table[n].stamp
Seen(stored) ==
    IsEndpoint(stored) /\ stored.name \in Names /\ (table[stored.name] = stored \/ stored.stamp < Mark(stored.name))
Deleting == {"locked", "counted"}
EditOK(s) ==
    /\ s.pc \in {"idle", "read", "checked"} \cup Deleting
    /\ s.pc \in {"read", "checked"} => Seen(s.stored) /\ s.patch \in Patches /\ s.patch.field \notin Fixed
    /\ s.pc = "checked" =>
          /\ s.draft = Checked(Apply(s.stored, s.patch)) /\ s.draft # Absent
          /\ s.keys = {} \/ s.patch.moveKeys \/ ~ MovesBaseUrl(s.stored, s.draft.url)
    /\ s.pc \in Deleting => s.name \in Names
    /\ s.pc = "counted" => \A r \in refs : r.name = s.name => ~ r.held
LocksOK ==
    /\ DOMAIN locked = Names /\ \A n \in Names : locked[n] \in Editors \cup {Nobody}
    /\ \A n \in Names, e \in Editors : locked[n] = e <=> edit[e].pc \in Deleting /\ edit[e].name = n
IsRef(r) == r = [f \in {"name", "kind", "held", "url"} |-> r[f]] /\ r.name \in Names
ReferOK(s) ==
    /\ s.pc \in {"idle", "asking", "holding"}
    /\ s.pc # "idle" => s = [pc |-> s.pc, ref |-> s.ref] /\ IsRef(s.ref)
    /\ s.pc = "holding" /\ s.ref.held => locked[s.ref.name] = Nobody /\ table[s.ref.name] # Absent
FiledOK(r) ==
    /\ r.held => table[r.name] # Absent
    /\ r.kind # "model" /\ r.held => Tidied(r.url) = Tidied(table[r.name].url)
RefOK(r) == IsRef(r) /\ FiledOK(r)
MeantOK(n) ==
    table[n] # Absent => \A f \in DOMAIN meant[n] :
        f \in Columns \cup {"url"} /\ table[n][f] = meant[n][f] /\ (f = "url" => meant[n][f].tidy = TRUE)
EndInv ==
    /\ TableOK /\ LocksOK /\ DOMAIN edit = Editors /\ DOMAIN refer = Referrers /\ DOMAIN meant = Names
    /\ (\A e \in Editors : EditOK(edit[e])) /\ (\A t \in Referrers : ReferOK(refer[t]))
    /\ (\A r \in refs : RefOK(r)) /\ (\A n \in Names : MeantOK(n))

LEMMA EndInitInv == EndpointInit => EndInv
<1> SUFFICES ASSUME EndpointInit PROVE EndInv
  OBVIOUS
<1>1. TableOK
  <2>1. \A n \in Names : table[n] = Absent \/ (table[n] \in Handwritten /\ table[n].name = n)
    BY DEF EndpointInit
  <2> QED BY <2>1, EndpointAssumption DEF EndpointInit, TableOK
<1>2. \A e \in Editors : edit[e].pc = "idle"
  BY DEF EndpointInit, Idle
<1>3. \A t \in Referrers : refer[t].pc = "idle"
  BY DEF EndpointInit, Idle
<1>4. LocksOK
  BY <1>2, EndpointAssumption DEF EndpointInit, LocksOK, Deleting
<1>5. \A n \in Names : MeantOK(n)
  <2>1. \A n \in Names : DOMAIN meant[n] = {}
    BY DEF EndpointInit
  <2> QED BY <2>1 DEF MeantOK
<1>6. \A e \in Editors : EditOK(edit[e])
  BY <1>2 DEF EditOK, Deleting
<1>7. \A t \in Referrers : ReferOK(refer[t])
  BY <1>3 DEF ReferOK
<1> QED BY <1>1, <1>4, <1>5, <1>6, <1>7 DEF EndInv, EndpointInit

(* A stored row stays the table's or an older one as the table moves on.   *)
LEMMA SeenKept ==
    ASSUME TableOK, NEW stored, Seen(stored), NEW newTable, NEW n0, NEW newClock \in Nat, clock <= newClock,
           table' = newTable, clock' = newClock,
           \A n \in Names : n # n0 => table'[n] = table[n],
           n0 \in Names => /\ Mark(n0)' \in Nat
                           /\ table'[n0] = table[n0] \/ Mark(n0) < Mark(n0)' \/ (table[n0] = Absent /\ Mark(n0) <= Mark(n0)')
    PROVE  Seen(stored)'
<1>1. stored.name \in Names /\ stored.stamp \in Nat /\ clock \in Nat /\ stored # Absent /\ IsEndpoint(stored)
  BY RowTypes DEF Seen, TableOK
<1> DEFINE n == stored.name
<1>2. Mark(n) \in Nat
  BY <1>1, RowTypes DEF Mark, TableOK
<1>3. CASE table'[n] = table[n]
  <2>1. Mark(n) <= Mark(n)' /\ (table[n] # Absent => Mark(n)' = Mark(n))
    BY <1>1, <1>2, <1>3 DEF Mark
  <2>2. Mark(n)' \in Nat
    BY <1>1, <1>2, <1>3, RowTypes DEF Mark, TableOK
  <2> QED BY <1>1, <1>2, <1>3, <2>1, <2>2 DEF Seen
<1>4. CASE table'[n] # table[n]
  <2>1. n = n0 /\ Mark(n)' \in Nat /\ (Mark(n) < Mark(n)' \/ (table[n] = Absent /\ Mark(n) <= Mark(n)'))
    BY <1>1, <1>4
  <2>2. table[n] = stored => Mark(n) = stored.stamp
    BY <1>1 DEF Mark
  <2>3. stored.stamp < Mark(n)'
    BY <1>1, <1>2, <2>1, <2>2 DEF Seen
  <2> QED BY <1>1, <2>3 DEF Seen
<1> QED BY <1>3, <1>4

(* A writer moves on, and nothing else does.                               *)
LEMMA EditMoves ==
    ASSUME EndInv, NEW e \in Editors, NEW s, edit' = [edit EXCEPT ![e] = s], EditOK(s),
           edit[e].pc \notin Deleting, s.pc \notin Deleting,
           UNCHANGED <<table, clock, refs, refer, locked, meant>>
    PROVE  EndInv'
<1>1. DOMAIN edit' = Editors /\ edit'[e] = s /\ \A x \in Editors \ {e} : edit'[x] = edit[x]
  BY DEF EndInv
<1>2. TableOK'
  BY DEF EndInv, TableOK
<1>3. LocksOK'
  BY <1>1 DEF EndInv, LocksOK
<1>4. ASSUME NEW x \in Editors PROVE EditOK(edit[x])'
  <2>1. EditOK(edit'[x])
    BY <1>1 DEF EndInv
  <2> QED BY <2>1 DEF EditOK, Seen, Mark
<1>5. \A t \in Referrers : ReferOK(refer[t])'
  BY DEF EndInv, ReferOK
<1>6. \A r \in refs' : RefOK(r)'
  BY DEF EndInv, RefOK, FiledOK
<1>7. \A n \in Names : MeantOK(n)'
  BY DEF EndInv, MeantOK
<1> QED BY <1>1, <1>2, <1>3, <1>4, <1>5, <1>6, <1>7 DEF EndInv

LEMMA ApplyIs ==
    ASSUME NEW row, IsEndpoint(row), NEW patch \in Patches
    PROVE  /\ IsEndpoint(Apply(row, patch)) /\ patch.field \in Columns \cup {"url"}
           /\ Apply(row, patch).stamp = row.stamp
           /\ \A f \in Columns \cup {"url"} : f # patch.field => Apply(row, patch)[f] = row[f]
<1>1. patch.field \in Columns \/ (patch.field = "url" /\ IsUrl(patch.value))
  BY EndpointAssumption
<1> DEFINE a == [row EXCEPT ![patch.field] = patch.value]
<1>2. row = [column \in AllColumns |-> row[column]] /\ DOMAIN row = AllColumns /\ IsUrl(row.url) /\ row.stamp \in Nat
  BY DEF IsEndpoint, AllColumns
<1>3. a = [column \in AllColumns |-> a[column]] /\ \A f \in AllColumns : f # patch.field => a[f] = row[f]
  BY <1>2
<1>4. a.stamp = row.stamp /\ IsUrl(a.url)
  BY <1>1, <1>2, <1>3 DEF AllColumns, Columns
<1> QED BY <1>1, <1>2, <1>3, <1>4 DEF Apply, IsEndpoint, AllColumns

LEMMA EndReads == ASSUME EndInv, NEW e \in Editors, UpdateEndpoint(e) \/ SetEndpoint(e) PROVE EndInv'
<1>1. UNCHANGED <<table, clock, refs, refer, locked, meant>> /\ edit[e].pc = "idle"
  <2>1. edit[e] = Idle /\ UNCHANGED tableVars /\ UNCHANGED <<refs, refer, locked>>
    BY DEF UpdateEndpoint, SetEndpoint, CanEdit
  <2>2. Idle.pc = "idle"
    BY DEF Idle
  <2> QED BY <2>1, <2>2 DEF tableVars
<1>2. PICK patch \in Patches, again \in BOOLEAN, name \in Names :
         /\ patch.field \notin Fixed /\ table[name] # Absent
         /\ edit' = [edit EXCEPT ![e] = [pc |-> "read", stored |-> table[name], patch |-> patch, again |-> again]]
  BY DEF UpdateEndpoint, SetEndpoint, Reads, Goes
<1> DEFINE s == [pc |-> "read", stored |-> table[name], patch |-> patch, again |-> again]
<1>3. s.pc = "read" /\ s.stored = table[name] /\ s.patch = patch /\ edit' = [edit EXCEPT ![e] = s]
  BY <1>2
<1> HIDE DEF s
<1>4. Seen(table[name])
  BY <1>2 DEF EndInv, TableOK, Seen
<1>5. EditOK(s) /\ s.pc \notin Deleting /\ edit[e].pc \notin Deleting
  BY <1>1, <1>2, <1>3, <1>4 DEF EditOK, Deleting
<1> QED BY <1>1, <1>3, <1>5, EditMoves

LEMMA EndChecks == ASSUME EndInv, NEW e \in Editors, Check(e) PROVE EndInv'
<1> DEFINE stored == edit[e].stored
           patch == edit[e].patch
           draft == Checked(Apply(stored, patch))
<1>1. UNCHANGED <<table, clock, refs, refer, locked, meant>> /\ edit[e].pc = "read" /\ EditOK(edit[e])
  BY DEF Check, EndInv, tableVars
<1>2. Seen(stored) /\ patch \in Patches /\ patch.field \notin Fixed /\ edit[e].pc \notin Deleting
  BY <1>1 DEF EditOK, Deleting
<1>3. CASE draft = Absent \/ ~ CountKeys(e, stored, patch, draft)
  <2>1. edit' = [edit EXCEPT ![e] = Idle] /\ Idle.pc = "idle"
    BY <1>3 DEF Check, Goes, Idle
  <2>2. EditOK(Idle) /\ Idle.pc \notin Deleting
    BY <2>1 DEF EditOK, Deleting
  <2> QED BY <1>1, <1>2, <2>1, <2>2, EditMoves
<1>4. CASE draft # Absent /\ CountKeys(e, stored, patch, draft)
  <2> DEFINE s == [pc |-> "checked", stored |-> stored, patch |-> patch, again |-> edit[e].again, draft |-> draft,
                   keys |-> Accounts(draft.name)]
  <2>1. edit' = [edit EXCEPT ![e] = s]
    BY <1>4 DEF Check, Goes
  <2>2. s.pc = "checked" /\ s.stored = stored /\ s.patch = patch /\ s.draft = draft /\ s.keys = Accounts(draft.name)
    OBVIOUS
  <2>3. draft.name = stored.name
    <3>1. IsEndpoint(stored)
      BY <1>2 DEF Seen
    <3>2. IsEndpoint(Apply(stored, patch)) /\ Apply(stored, patch).name = stored.name
      BY <1>2, <3>1, ApplyIs DEF Columns, Fixed
    <3> QED BY <1>4, <3>2, CheckedIs DEF Alike, Columns
  <2>4. Accounts(draft.name) = {} \/ patch.moveKeys \/ ~ MovesBaseUrl(stored, draft.url)
    BY <1>4, <2>3 DEF CountKeys
  <2> HIDE DEF s, draft, stored, patch
  <2>5. EditOK(s) /\ s.pc \notin Deleting
    BY <1>2, <1>4, <2>2, <2>4 DEF EditOK, Deleting, draft
  <2> QED BY <1>1, <1>2, <2>1, <2>5, EditMoves
<1> QED BY <1>3, <1>4

LEMMA LaterIs == ASSUME TableOK, NEW n \in Nat PROVE Later(n) \in Nat /\ n < Later(n) /\ clock <= Later(n)
  BY DEF Later, TableOK

(* The row of a name is replaced: by a registration or a change.           *)
LEMMA RowReplaced ==
    ASSUME EndInv, NEW n \in Names, NEW row, IsEndpoint(row), row.name = n, Good(row),
           table' = [table EXCEPT ![n] = row], UNCHANGED <<clock, refer, locked>>,
           locked[n] = Nobody \/ table[n] = Absent,
           table[n] = Absent => row.stamp = clock,
           table[n] # Absent => table[n].stamp < row.stamp,
           DOMAIN edit' = Editors,
           \A x \in Editors : edit'[x] = edit[x] \/ (edit'[x] = Idle /\ edit[x].pc \notin Deleting),
           \A r \in refs' : RefOK(r)',
           \A r \in refs' : r.held => \E q \in refs : q.held /\ q.name = r.name,
           DOMAIN meant' = Names, MeantOK(n)', \A x \in Names \ {n} : meant'[x] = meant[x]
    PROVE  EndInv'
<1>1. table'[n] = row /\ (\A x \in Names \ {n} : table'[x] = table[x]) /\ row # Absent /\ DOMAIN table' = Names
  BY RowTypes DEF EndInv, TableOK
<1>2. TableOK'
  BY <1>1 DEF EndInv, TableOK
<1>3. Idle.pc = "idle"
  BY DEF Idle
<1>4. \A x \in Editors : edit'[x].pc \in Deleting => edit'[x] = edit[x]
  BY <1>3 DEF Deleting
<1>5. LocksOK'
  <2>1. ASSUME NEW x \in Names, NEW e \in Editors PROVE locked'[x] = e <=> edit'[e].pc \in Deleting /\ edit'[e].name = x
    <3>1. locked[x] = e <=> edit[e].pc \in Deleting /\ edit[e].name = x
      BY DEF EndInv, LocksOK
    <3> QED BY <1>3, <3>1 DEF Deleting
  <2> QED BY <2>1 DEF EndInv, LocksOK
<1>6. Mark(n)' \in Nat /\ (Mark(n) < Mark(n)' \/ (table[n] = Absent /\ Mark(n) <= Mark(n)'))
  BY <1>1, RowTypes DEF Mark, EndInv, TableOK
<1>7. \A stored : Seen(stored) => Seen(stored)'
  <2> SUFFICES ASSUME NEW stored, Seen(stored) PROVE Seen(stored)'
    OBVIOUS
  <2>1. clock \in Nat /\ clock' \in Nat /\ clock <= clock' /\ TableOK
    BY DEF EndInv, TableOK
  <2> QED BY <1>1, <1>6, <2>1, SeenKept
<1>8. ASSUME NEW x \in Editors PROVE EditOK(edit[x])'
  <2>1. CASE edit'[x] = Idle
    BY <1>3, <2>1 DEF EditOK, Deleting
  <2>2. CASE edit'[x] = edit[x]
    <3>1. EditOK(edit[x])
      BY DEF EndInv
    <3>2. edit[x].pc = "counted" => \A r \in refs' : r.name = edit[x].name => ~ r.held
      BY <3>1 DEF EditOK
    <3> QED BY <1>7, <2>2, <3>1, <3>2 DEF EditOK
  <2> QED BY <2>1, <2>2
<1>9. ASSUME NEW t \in Referrers PROVE ReferOK(refer[t])'
  <2>1. ReferOK(refer[t])
    BY DEF EndInv
  <2>2. refer[t].pc = "holding" /\ refer[t].ref.held => table'[refer[t].ref.name] # Absent
    BY <1>1, <2>1 DEF ReferOK, IsRef
  <2> QED BY <2>1, <2>2 DEF ReferOK
<1>10. \A x \in Names : MeantOK(x)'
  BY <1>1 DEF EndInv, MeantOK
<1> QED BY <1>2, <1>5, <1>8, <1>9, <1>10 DEF EndInv

LEMMA EndRegisters == ASSUME EndInv, NEW e \in Editors, Register(e) PROVE EndInv'
<1>1. PICK input \in Drafts :
         /\ Insertable(Checked(Draft(input)))
         /\ table' = [table EXCEPT ![Checked(Draft(input)).name] = [Checked(Draft(input)) EXCEPT !.stamp = clock]]
         /\ meant' = [meant EXCEPT ![Checked(Draft(input)).name] = << >>]
  BY DEF Register
<1> DEFINE d == Draft(input)
           c == Checked(d)
           n == c.name
           row == [c EXCEPT !.stamp = clock]
<1>0. UNCHANGED <<clock, refs, edit, refer, locked>> /\ TableOK
  BY DEF Register, EndInv
<1>2. IsEndpoint(d) /\ d.name = input.name
  <2>1. IsEndpoint(input)
    BY EndpointAssumption
  <2> QED BY <2>1 DEF Draft, IsEndpoint, Columns
<1>3. c # Absent /\ table[n] = Absent
  BY <1>1 DEF Insertable
<1>4. Broken(d) = {} /\ ~ HeadersRefused(d) /\ Alike(c, d)
  BY <1>2, <1>3, CheckedIs
<1>5. n \in Names
  <2>1. ValidateName(d.name)
    BY <1>4, BrokenParts
  <2> QED BY <1>2, <1>4, <2>1, EndpointAssumption DEF Alike, Columns
<1> HIDE DEF d, c
<1>6. IsEndpoint(c) /\ clock \in Nat
  BY <1>0, <1>4 DEF Alike, TableOK
<1>7. IsEndpoint(row) /\ row.stamp = clock /\ row.url = c.url /\ \A f \in Columns : row[f] = c[f]
  BY <1>6, RowTypes DEF AllColumns, Columns
<1>8. Good(row)
  <2>1. Alike(row, d)
    BY <1>4, <1>7 DEF Alike
  <2> HIDE DEF row
  <2> QED BY <1>2, <1>4, <2>1, CheckedIsGood
<1>9. row.name = n
  BY <1>7 DEF Columns
<1>10. DOMAIN meant' = Names /\ DOMAIN meant'[n] = {} /\ \A x \in Names \ {n} : meant'[x] = meant[x]
  <2>1. meant' = [meant EXCEPT ![n] = << >>] /\ DOMAIN meant = Names
    BY <1>1 DEF c, d, EndInv
  <2> QED BY <1>5, <2>1
<1>11. table' = [table EXCEPT ![n] = row]
  BY <1>1 DEF c, d
<1>12. ASSUME NEW r \in refs' PROVE RefOK(r)' /\ (r.held => \E q \in refs : q.held /\ q.name = r.name)
  <2>1. RefOK(r) /\ r \in refs
    BY <1>0 DEF EndInv
  <2>2. r.held => r.name # n
    BY <1>3, <2>1 DEF RefOK, FiledOK
  <2>3. r.held => table'[r.name] = table[r.name]
    BY <1>5, <1>11, <2>1, <2>2, <1>0 DEF RefOK, IsRef, TableOK
  <2> QED BY <2>1, <2>3 DEF RefOK, FiledOK
<1>13. MeantOK(n)'
  BY <1>10 DEF MeantOK
<1> HIDE DEF row, n
<1> QED BY <1>0, <1>3, <1>5, <1>7, <1>8, <1>9, <1>10, <1>11, <1>12, <1>13, RowReplaced DEF EndInv

(* What a writer puts over the row it read, given that it is still there.  *)
LEMMA ChangeIs ==
    ASSUME EndInv, NEW e \in Editors, edit[e].pc = "checked"
    PROVE  /\ Seen(edit[e].stored) /\ edit[e].patch \in Patches /\ IsEndpoint(edit[e].stored)
           /\ Alike(edit[e].draft, Apply(edit[e].stored, edit[e].patch)) /\ IsEndpoint(edit[e].draft)
           /\ \A row : IsEndpoint(row) /\ row.url = edit[e].draft.url /\ (\A c \in Columns : row[c] = edit[e].draft[c]) => Good(row)
           /\ edit[e].draft.name = edit[e].stored.name
           /\ edit[e].draft.url.tidy = TRUE
           /\ edit[e].patch.field \in Columns \cup {"url"}
           /\ \A c \in Columns : c # edit[e].patch.field => edit[e].draft[c] = edit[e].stored[c]
           /\ edit[e].patch.field # "url" => edit[e].draft.url = Tidied(edit[e].stored.url)
<1> DEFINE stored == edit[e].stored
           patch == edit[e].patch
           a == Apply(stored, patch)
           draft == edit[e].draft
<1>1. /\ Seen(stored) /\ patch \in Patches /\ patch.field \notin Fixed /\ IsEndpoint(stored)
      /\ draft = Checked(a) /\ draft # Absent
  BY DEF EndInv, EditOK, Seen
<1> HIDE DEF stored, patch, draft
<1>2. /\ IsEndpoint(a) /\ patch.field \in Columns \cup {"url"}
      /\ \A f \in Columns \cup {"url"} : f # patch.field => a[f] = stored[f]
  BY <1>1, ApplyIs
<1> HIDE DEF a
<1>3. Broken(a) = {} /\ ~ HeadersRefused(a) /\ Alike(draft, a)
  BY <1>1, <1>2, CheckedIs
<1>4. \A row : IsEndpoint(row) /\ row.url = draft.url /\ (\A c \in Columns : row[c] = draft[c]) => Good(row)
  <2> SUFFICES ASSUME NEW row, IsEndpoint(row), row.url = draft.url, \A c \in Columns : row[c] = draft[c] PROVE Good(row)
    OBVIOUS
  <2>1. Alike(row, a)
    BY <1>3 DEF Alike
  <2> QED BY <1>2, <1>3, <2>1, CheckedIsGood
<1>5. draft.url.tidy = TRUE
  <2>1. IsUrl(a.url)
    BY <1>2, RowTypes
  <2>2. Tidied(a.url).tidy = TRUE
    BY <2>1, TidiedFacts
  <2> QED BY <1>3, <2>2 DEF Alike
<1>6. draft.name = stored.name
  BY <1>1, <1>2, <1>3 DEF Alike, Columns, Fixed
<1>7. \A c \in Columns : c # patch.field => draft[c] = stored[c]
  BY <1>2, <1>3 DEF Alike
<1>8. patch.field # "url" => draft.url = Tidied(stored.url)
  BY <1>2, <1>3 DEF Alike
<1>9. IsEndpoint(draft)
  BY <1>3 DEF Alike
<1> QED BY <1>1, <1>2, <1>3, <1>4, <1>5, <1>6, <1>7, <1>8, <1>9 DEF a, stored, patch, draft

LEMMA EndWrites == ASSUME EndInv, NEW e \in Editors, Write(e) PROVE EndInv'
<1>a. PICK stored, patch, draft, keys, n :
         edit[e].stored = stored /\ edit[e].patch = patch /\ edit[e].draft = draft /\ edit[e].keys = keys /\ stored.name = n
  OBVIOUS
<1>0. UNCHANGED <<clock, refer, locked>> /\ TableOK /\ edit[e].pc = "checked" /\ locked[n] = Nobody /\ EditOK(edit[e])
  BY <1>a DEF Write, EndInv
<1>1. /\ Seen(stored) /\ patch \in Patches /\ IsEndpoint(stored) /\ IsEndpoint(draft) /\ n \in Names
      /\ \A row : IsEndpoint(row) /\ row.url = draft.url /\ (\A c \in Columns : row[c] = draft[c]) => Good(row)
      /\ draft.name = n /\ draft.url.tidy = TRUE /\ patch.field \in Columns \cup {"url"}
      /\ \A c \in Columns : c # patch.field => draft[c] = stored[c]
      /\ patch.field # "url" => draft.url = Tidied(stored.url)
  <2>1. Seen(stored) => n \in Names
    BY <1>a DEF Seen
  <2> QED BY <1>0, <1>a, <2>1, ChangeIs
<1>2. edit[e].pc \notin Deleting /\ Idle.pc = "idle"
  BY <1>0 DEF Deleting, Idle
<1>3. CASE ~ Updated(table[n], stored.stamp)
  <2> DEFINE s == ReadAgain(e, table[n])
  <2>1. edit' = [edit EXCEPT ![e] = s] /\ UNCHANGED <<table, meant, refs>>
    BY <1>a, <1>3 DEF Write, Goes
  <2>2. s = Idle \/ (s.pc = "read" /\ s.stored = table[n] /\ s.patch = patch /\ table[n] # Absent)
    BY <1>a DEF ReadAgain
  <2> HIDE DEF s
  <2>3. EditOK(s) /\ s.pc \notin Deleting
    <3>1. CASE s = Idle
      BY <1>2, <3>1 DEF EditOK, Deleting
    <3>2. CASE s.pc = "read" /\ s.stored = table[n] /\ s.patch = patch /\ table[n] # Absent
      <4>1. Seen(table[n])
        BY <1>0, <1>1, <1>a, <3>2 DEF Seen, TableOK
      <4>2. patch.field \notin Fixed
        BY <1>0, <1>a DEF EditOK
      <4> QED BY <1>1, <3>2, <4>1, <4>2 DEF EditOK, Deleting
    <3> QED BY <2>2, <3>1, <3>2
  <2> QED BY <1>0, <1>2, <2>1, <2>3, EditMoves
<1>4. CASE Updated(table[n], stored.stamp)
  <2>1. table[n] = stored
    <3>1. table[n] # Absent /\ table[n].stamp = stored.stamp /\ stored.stamp \in Nat
      BY <1>1, <1>4, RowTypes DEF Updated
    <3>2. ~ (stored.stamp < Mark(n))
      BY <3>1 DEF Mark
    <3> QED BY <1>1, <1>a, <3>2 DEF Seen
  <2>b. PICK row : row = [draft EXCEPT !.stamp = Later(stored.stamp)]
    OBVIOUS
  <2> DEFINE moved(r) == r.name = n /\ (patch.moveKeys \/ r \notin keys)
  <2>2. /\ table' = [table EXCEPT ![n] = row] /\ edit' = [edit EXCEPT ![e] = Idle]
        /\ meant' = [meant EXCEPT ![n] = Over([f \in {patch.field} |-> draft[f]], meant[n])]
        /\ refs' = {[r EXCEPT !.url = IF moved(r) THEN draft.url ELSE @] : r \in refs}
    BY <1>a, <1>4, <2>1, <2>b DEF Write, Goes
  <2>3. stored.stamp \in Nat /\ Later(stored.stamp) \in Nat /\ stored.stamp < Later(stored.stamp) /\ stored # Absent
    BY <1>0, <1>1, RowTypes, LaterIs
  <2>4. /\ IsEndpoint(row) /\ row.stamp = Later(stored.stamp) /\ row.url = draft.url
        /\ \A f \in Columns \cup {"url"} : row[f] = draft[f]
    BY <1>1, <2>3, <2>b, RowTypes DEF AllColumns, Columns
  <2>5. Good(row) /\ row.name = n
    <3>1. row.name = draft.name
      BY <2>4 DEF Columns
    <3> QED BY <1>1, <2>4, <3>1
  <2>6. table'[n] = row /\ \A x \in Names \ {n} : table'[x] = table[x]
    BY <1>0, <1>1, <2>2 DEF TableOK
  <2>7. DOMAIN edit' = Editors /\ \A x \in Editors : edit'[x] = edit[x] \/ (edit'[x] = Idle /\ edit[x].pc \notin Deleting)
    BY <1>2, <2>2 DEF EndInv
  <2>8. /\ DOMAIN meant' = Names /\ \A x \in Names \ {n} : meant'[x] = meant[x]
        /\ DOMAIN meant'[n] = DOMAIN meant[n] \cup {patch.field} /\ meant'[n][patch.field] = draft[patch.field]
        /\ \A f \in DOMAIN meant[n] : f # patch.field => meant'[n][f] = meant[n][f]
    BY <1>1, <2>2 DEF EndInv, Over
  <2>9. MeantOK(n)'
    <3> SUFFICES ASSUME NEW f \in DOMAIN meant'[n]
                 PROVE  f \in Columns \cup {"url"} /\ row[f] = meant'[n][f] /\ (f = "url" => meant'[n][f].tidy = TRUE)
      BY <2>6 DEF MeantOK
    <3>1. CASE f = patch.field
      BY <1>1, <2>4, <2>8, <3>1
    <3>2. CASE f # patch.field
      <4>1. f \in DOMAIN meant[n] /\ meant'[n][f] = meant[n][f]
        BY <2>8, <3>2
      <4>2. f \in Columns \cup {"url"} /\ stored[f] = meant[n][f] /\ (f = "url" => meant[n][f].tidy = TRUE)
        BY <1>1, <2>1, <2>3, <4>1 DEF EndInv, MeantOK
      <4>3. f \in Columns => draft[f] = stored[f]
        BY <1>1, <3>2
      <4>4. f = "url" => draft.url = stored.url
        <5>1. IsUrl(stored.url)
          BY <1>1, RowTypes
        <5>2. stored.url.tidy = TRUE => Tidied(stored.url) = stored.url
          BY <5>1, TidiedFacts
        <5> QED BY <1>1, <3>2, <4>2, <5>2
      <4> QED BY <2>4, <4>1, <4>2, <4>3, <4>4
    <3> QED BY <3>1, <3>2
  <2>10. ASSUME NEW q \in refs'
         PROVE  RefOK(q)' /\ (q.held => \E r \in refs : r.held /\ r.name = q.name)
    <3>1. PICK r \in refs : q = [r EXCEPT !.url = IF moved(r) THEN draft.url ELSE r.url]
      BY <2>2
    <3>2. RefOK(r) /\ IsRef(r)
      BY DEF EndInv, RefOK
    <3>3. /\ q.name = r.name /\ q.kind = r.kind /\ q.held = r.held /\ q.url = IF moved(r) THEN draft.url ELSE r.url
          /\ q = [f \in {"name", "kind", "held", "url"} |-> q[f]]
      BY <3>1, <3>2 DEF IsRef
    <3>4. q.held => table'[q.name] # Absent
      BY <2>4, <2>6, <3>2, <3>3, RowTypes DEF RefOK, FiledOK, IsRef
    <3>5. q.kind # "model" /\ q.held => Tidied(q.url) = Tidied(table'[q.name].url)
      <4> SUFFICES ASSUME q.kind # "model", q.held PROVE Tidied(q.url) = Tidied(table'[q.name].url)
        OBVIOUS
      <4>1. CASE q.name # n
        BY <2>6, <3>2, <3>3, <4>1 DEF RefOK, FiledOK, IsRef
      <4>2. CASE moved(r)
        BY <2>4, <2>6, <3>3, <4>2
      <4>3. CASE q.name = n /\ ~ moved(r)
        <5>1. r \in keys /\ ~ patch.moveKeys
          BY <3>3, <4>3
        <5>2. ~ MovesBaseUrl(stored, draft.url)
          BY <1>0, <1>a, <5>1 DEF EditOK
        <5>3. IsUrl(stored.url)
          BY <1>1, RowTypes
        <5>4. draft.url = stored.url \/ draft.url = Tidied(stored.url)
          BY <5>2, <5>3, UrlStored DEF MovesBaseUrl
        <5>5. Tidied(draft.url) = Tidied(stored.url)
          BY <5>3, <5>4, TidiedFacts
        <5>6. Tidied(r.url) = Tidied(stored.url)
          BY <2>1, <3>2, <3>3, <4>3 DEF RefOK, FiledOK
        <5> QED BY <2>4, <2>6, <3>3, <4>3, <5>5, <5>6
      <4> QED BY <3>3, <4>1, <4>2, <4>3
    <3>6. IsRef(q)
      BY <3>2, <3>3 DEF IsRef
    <3> QED BY <3>2, <3>3, <3>4, <3>5, <3>6 DEF RefOK, FiledOK
  <2>11. table' = [table EXCEPT ![n] = row] /\ table[n] # Absent /\ table[n].stamp < row.stamp
    BY <2>1, <2>2, <2>3, <2>4
  <2>12. DOMAIN meant' = Names /\ \A x \in Names \ {n} : meant'[x] = meant[x]
    BY <2>8
  <2> HIDE DEF moved
  <2> QED BY <1>0, <1>1, <2>4, <2>5, <2>7, <2>9, <2>10, <2>11, <2>12, RowReplaced
<1> QED BY <1>3, <1>4

(* A delete takes its lock, counts, and gives the lock back.               *)
LEMMA LockMoves ==
    ASSUME EndInv, NEW e \in Editors, NEW n \in Names, NEW s, edit' = [edit EXCEPT ![e] = s], EditOK(s),
           DOMAIN locked' = Names, \A x \in Names \ {n} : locked'[x] = locked[x],
           locked'[n] = (IF s.pc \in Deleting THEN e ELSE Nobody),
           s.pc \in Deleting => s.name = n,
           edit[e].pc \in Deleting => edit[e].name = n,
           locked[n] \in {e, Nobody},
           s.pc \in Deleting => \A t \in Referrers : refer[t].pc = "holding" /\ refer[t].ref.held => refer[t].ref.name # n,
           UNCHANGED <<table, clock, refs, refer, meant>>
    PROVE  EndInv'
<1>1. DOMAIN edit' = Editors /\ edit'[e] = s /\ \A x \in Editors \ {e} : edit'[x] = edit[x]
  BY DEF EndInv
<1>2. TableOK'
  BY DEF EndInv, TableOK
<1>3. LocksOK'
  <2>1. Nobody \notin Editors
    BY EndpointAssumption
  <2>2. ASSUME NEW x \in Names, NEW y \in Editors PROVE locked'[x] = y <=> edit'[y].pc \in Deleting /\ edit'[y].name = x
    <3>1. locked[x] = y <=> edit[y].pc \in Deleting /\ edit[y].name = x
      BY DEF EndInv, LocksOK
    <3>2. CASE y = e /\ x = n
      BY <1>1, <2>1, <3>2
    <3>3. CASE y = e /\ x # n
      BY <1>1, <3>1, <3>3
    <3>4. CASE y # e /\ x = n
      BY <1>1, <2>1, <3>1, <3>4
    <3>5. CASE y # e /\ x # n
      BY <1>1, <3>1, <3>5
    <3> QED BY <3>2, <3>3, <3>4, <3>5
  <2>3. \A x \in Names : locked'[x] \in Editors \cup {Nobody}
    BY DEF EndInv, LocksOK
  <2> QED BY <2>2, <2>3 DEF LocksOK
<1>4. ASSUME NEW x \in Editors PROVE EditOK(edit[x])'
  <2>1. EditOK(edit'[x])
    BY <1>1 DEF EndInv
  <2> QED BY <2>1 DEF EditOK, Seen, Mark
<1>5. ASSUME NEW t \in Referrers PROVE ReferOK(refer[t])'
  <2>1. ReferOK(refer[t])
    BY DEF EndInv
  <2>2. refer[t].pc = "holding" /\ refer[t].ref.held => locked'[refer[t].ref.name] = Nobody
    BY <2>1 DEF ReferOK, IsRef
  <2> QED BY <2>1, <2>2 DEF ReferOK
<1>6. \A r \in refs' : RefOK(r)'
  BY DEF EndInv, RefOK, FiledOK
<1>7. \A x \in Names : MeantOK(x)'
  BY DEF EndInv, MeantOK
<1> QED BY <1>1, <1>2, <1>3, <1>4, <1>5, <1>6, <1>7 DEF EndInv

LEMMA EndLocks == ASSUME EndInv, NEW e \in Editors, DeleteLocks(e) PROVE EndInv'
<1>1. edit[e].pc = "idle" /\ UNCHANGED <<table, clock, refs, refer, meant>>
  BY DEF DeleteLocks, CanEdit, Idle, tableVars
<1>2. PICK n \in Names : /\ locked[n] = Nobody /\ Sharing(n) = {}
                         /\ edit' = [edit EXCEPT ![e] = [pc |-> "locked", name |-> n]]
                         /\ locked' = [locked EXCEPT ![n] = e]
  BY DEF DeleteLocks, Lock, Goes
<1>3. PICK s : s = [pc |-> "locked", name |-> n]
  OBVIOUS
<1>4. s.pc = "locked" /\ s.name = n /\ edit' = [edit EXCEPT ![e] = s]
  BY <1>2, <1>3
<1>5. EditOK(s) /\ s.pc \in Deleting /\ edit[e].pc \notin Deleting
  BY <1>1, <1>4 DEF EditOK, Deleting
<1>6. DOMAIN locked' = Names /\ locked'[n] = e /\ \A x \in Names \ {n} : locked'[x] = locked[x]
  BY <1>2 DEF EndInv, LocksOK
<1>7. \A t \in Referrers : refer[t].pc = "holding" /\ refer[t].ref.held => refer[t].ref.name # n
  BY <1>2 DEF Sharing
<1>8. locked[n] \in {e, Nobody}
  BY <1>2
<1> QED BY ONLY EndInv, <1>1, <1>4, <1>5, <1>6, <1>7, <1>8, LockMoves, e \in Editors, n \in Names

LEMMA Holds ==
    ASSUME EndInv, NEW e \in Editors, edit[e].pc \in Deleting
    PROVE  /\ edit[e].name \in Names /\ locked[edit[e].name] = e /\ e # Nobody
           /\ \A t \in Referrers : refer[t].pc = "holding" /\ refer[t].ref.held => refer[t].ref.name # edit[e].name
<1>1. EditOK(edit[e]) /\ e # Nobody
  BY EndpointAssumption DEF EndInv
<1>2. edit[e].name \in Names /\ locked[edit[e].name] = e
  BY <1>1 DEF EndInv, LocksOK, EditOK
<1>3. \A t \in Referrers : ReferOK(refer[t])
  BY DEF EndInv
<1> QED BY <1>1, <1>2, <1>3 DEF ReferOK

LEMMA EndCounts == ASSUME EndInv, NEW e \in Editors, DeleteCounts(e) PROVE EndInv'
<1>1. edit[e].pc = "locked" /\ edit[e].pc \in Deleting /\ UNCHANGED <<table, clock, refs, refer, meant>>
  BY DEF DeleteCounts, tableVars, Deleting
<1>2. PICK n \in Names : n = edit[e].name /\ locked[n] = e /\ e # Nobody
  BY <1>1, Holds
<1>3. \A t \in Referrers : refer[t].pc = "holding" /\ refer[t].ref.held => refer[t].ref.name # n
  BY <1>1, <1>2, Holds
<1>4. DOMAIN locked = Names /\ locked[n] \in {e, Nobody} /\ edit[e].name = n
  BY <1>2 DEF EndInv, LocksOK
<1>5. CASE References(n) # {}
  <2>1. edit' = [edit EXCEPT ![e] = Idle] /\ locked' = [locked EXCEPT ![n] = Nobody] /\ Idle.pc = "idle"
    BY <1>2, <1>5 DEF DeleteCounts, Goes, Idle
  <2>2. EditOK(Idle) /\ Idle.pc \notin Deleting
    BY <2>1 DEF EditOK, Deleting
  <2>3. DOMAIN locked' = Names /\ locked'[n] = Nobody /\ \A x \in Names \ {n} : locked'[x] = locked[x]
    BY <1>4, <2>1
  <2> QED BY <1>1, <1>2, <1>4, <2>1, <2>2, <2>3, LockMoves
<1>6. CASE References(n) = {}
  <2>1. PICK s : s = [pc |-> "counted", name |-> n]
    OBVIOUS
  <2>2. edit' = [edit EXCEPT ![e] = s] /\ locked' = locked /\ s.pc = "counted" /\ s.name = n
    BY <1>2, <1>6, <2>1 DEF DeleteCounts, Goes
  <2>3. EditOK(s) /\ s.pc \in Deleting
    BY <1>6, <2>2 DEF EditOK, Deleting, References
  <2> QED BY <1>1, <1>2, <1>3, <1>4, <2>2, <2>3, LockMoves
<1> QED BY <1>5, <1>6

LEMMA EndCommits == ASSUME EndInv, NEW e \in Editors, DeleteCommits(e) PROVE EndInv'
<1>1. edit[e].pc = "counted" /\ edit[e].pc \in Deleting /\ UNCHANGED <<refs, refer>>
  BY DEF DeleteCommits, Deleting
<1>2. PICK n \in Names : n = edit[e].name /\ locked[n] = e /\ e # Nobody
  BY <1>1, Holds
<1>3. \A t \in Referrers : refer[t].pc = "holding" /\ refer[t].ref.held => refer[t].ref.name # n
  BY <1>1, <1>2, Holds
<1>4. /\ table' = [table EXCEPT ![n] = Absent] /\ locked' = [locked EXCEPT ![n] = Nobody]
      /\ meant' = [meant EXCEPT ![n] = << >>] /\ edit' = [edit EXCEPT ![e] = Idle] /\ Idle.pc = "idle"
      /\ clock' = IF table[n] = Absent THEN clock ELSE Later(table[n].stamp)
  BY <1>2 DEF DeleteCommits, Goes, Idle
<1>5. /\ DOMAIN table' = Names /\ table'[n] = Absent /\ \A x \in Names \ {n} : table'[x] = table[x]
      /\ DOMAIN locked' = Names /\ locked'[n] = Nobody /\ \A x \in Names \ {n} : locked'[x] = locked[x]
      /\ DOMAIN meant' = Names /\ \A x \in Names \ {n} : meant'[x] = meant[x]
      /\ DOMAIN edit' = Editors /\ edit'[e] = Idle /\ \A x \in Editors \ {e} : edit'[x] = edit[x]
  <2>1. DOMAIN table = Names /\ DOMAIN locked = Names /\ DOMAIN meant = Names /\ DOMAIN edit = Editors
    BY DEF EndInv, TableOK, LocksOK
  <2> QED BY <1>4, <2>1
<1>6. clock \in Nat /\ clock' \in Nat /\ clock <= clock' /\ (table[n] # Absent => Mark(n) < clock') /\ TableOK
  <2>1. TableOK /\ clock \in Nat
    BY DEF EndInv, TableOK
  <2>2. table[n] # Absent => table[n].stamp \in Nat
    BY <2>1, RowTypes DEF TableOK
  <2> QED BY <1>4, <2>1, <2>2, LaterIs DEF Mark
<1>7. TableOK'
  BY <1>5, <1>6 DEF TableOK
<1>8. \A r \in refs : r.name = n => ~ r.held
  <2>1. EditOK(edit[e])
    BY DEF EndInv
  <2> QED BY <1>1, <1>2, <2>1 DEF EditOK
<1>9. LocksOK'
  <2>1. ASSUME NEW x \in Names, NEW y \in Editors PROVE locked'[x] = y <=> edit'[y].pc \in Deleting /\ edit'[y].name = x
    <3>1. /\ locked[x] = y <=> edit[y].pc \in Deleting /\ edit[y].name = x
          /\ locked[n] = y <=> edit[y].pc \in Deleting /\ edit[y].name = n
          /\ y # Nobody
      BY EndpointAssumption DEF EndInv, LocksOK
    <3>2. Idle.pc \notin Deleting
      BY <1>4 DEF Deleting
    <3>3. CASE y = e
      BY <1>1, <1>2, <1>5, <3>1, <3>2, <3>3
    <3>4. CASE y # e
      BY <1>2, <1>5, <3>1, <3>4
    <3> QED BY <3>3, <3>4
  <2>2. \A x \in Names : locked'[x] \in Editors \cup {Nobody}
    BY <1>5 DEF EndInv, LocksOK
  <2> QED BY <1>5, <2>1, <2>2 DEF LocksOK
<1>10. \A stored : Seen(stored) => Seen(stored)'
  <2> SUFFICES ASSUME NEW stored, Seen(stored) PROVE Seen(stored)'
    OBVIOUS
  <2>1. Mark(n)' = clock'
    BY <1>5 DEF Mark
  <2>2. Mark(n)' \in Nat /\ (Mark(n) < Mark(n)' \/ (table[n] = Absent /\ Mark(n) <= Mark(n)'))
    BY <1>6, <2>1 DEF Mark
  <2> QED BY <1>5, <1>6, <2>2, SeenKept
<1>11. ASSUME NEW x \in Editors PROVE EditOK(edit[x])'
  <2>1. CASE x = e
    <3>1. edit'[x].pc = "idle"
      BY <1>4, <1>5, <2>1
    <3> QED BY <3>1 DEF EditOK, Deleting
  <2>2. CASE x # e
    <3>1. EditOK(edit[x]) /\ edit'[x] = edit[x]
      BY <1>5, <2>2 DEF EndInv
    <3> QED BY <1>1, <1>10, <3>1 DEF EditOK
  <2> QED BY <2>1, <2>2
<1>12. ASSUME NEW t \in Referrers PROVE ReferOK(refer[t])'
  <2>1. ReferOK(refer[t])
    BY DEF EndInv
  <2>2. refer[t].pc = "holding" /\ refer[t].ref.held =>
           locked'[refer[t].ref.name] = Nobody /\ table'[refer[t].ref.name] # Absent
    BY <1>3, <1>5, <2>1 DEF ReferOK, IsRef
  <2> QED BY <1>1, <2>1, <2>2 DEF ReferOK
<1>13. ASSUME NEW r \in refs' PROVE RefOK(r)'
  <2>1. RefOK(r)
    BY <1>1 DEF EndInv
  <2>2. r.held => table'[r.name] = table[r.name]
    BY <1>1, <1>5, <1>8, <2>1 DEF RefOK, IsRef
  <2> QED BY <2>1, <2>2 DEF RefOK, FiledOK
<1>14. \A x \in Names : MeantOK(x)'
  BY <1>5 DEF EndInv, MeantOK
<1> QED BY <1>1, <1>5, <1>7, <1>9, <1>11, <1>12, <1>13, <1>14 DEF EndInv

(* A credential or a model is filed, or taken back.                        *)
LEMMA RefersMove ==
    ASSUME EndInv, UNCHANGED <<table, clock, edit, locked, meant>>, DOMAIN refer' = Referrers,
           \A t \in Referrers : ReferOK(refer'[t]),
           \A r \in refs' : RefOK(r) /\ (r \in refs \/ (r.held => locked[r.name] = Nobody))
    PROVE  EndInv'
<1>1. TableOK' /\ LocksOK'
  BY DEF EndInv, TableOK, LocksOK
<1>2. ASSUME NEW x \in Editors PROVE EditOK(edit[x])'
  <2>1. EditOK(edit[x])
    BY DEF EndInv
  <2>2. ASSUME edit[x].pc = "counted", NEW r \in refs', r.name = edit[x].name PROVE ~ r.held
    <3>1. edit[x].pc \in Deleting
      BY <2>2 DEF Deleting
    <3>2. locked[r.name] = x /\ x # Nobody
      BY <2>2, <3>1, Holds
    <3> QED BY <2>1, <2>2, <3>2 DEF EditOK
  <2> QED BY <2>1, <2>2 DEF EditOK, Seen, Mark
<1>3. \A t \in Referrers : ReferOK(refer[t])'
  BY DEF ReferOK
<1>4. \A r \in refs' : RefOK(r)'
  BY DEF RefOK, FiledOK
<1>5. \A n \in Names : MeantOK(n)'
  BY DEF EndInv, MeantOK
<1> QED BY <1>1, <1>2, <1>3, <1>4, <1>5 DEF EndInv

LEMMA EndRefers == ASSUME EndInv, NEW t \in Referrers, ReferrerStep(t) PROVE EndInv'
<1>0. UNCHANGED <<table, clock, edit, locked, meant>>
  BY DEF ReferrerStep, ReferBegins, ReferLocks, ReferCommits, tableVars
<1>1. /\ DOMAIN refer = Referrers /\ ReferOK(refer[t]) /\ (\A x \in Referrers : ReferOK(refer[x]))
      /\ \A r \in refs : RefOK(r)
  BY DEF EndInv
<1>2. Idle.pc = "idle" /\ ReferOK(Idle)
  BY DEF Idle, ReferOK
<1>3. CASE ReferBegins(t)
  <2>1. PICK name \in Names, kind \in {"account", "disabled", "model"} :
           LET ref == [name |-> name, kind |-> kind, held |-> table[name] # Absent,
                       url |-> IF table[name] # Absent THEN table[name].url ELSE NoUrl]
           IN refer' = [refer EXCEPT ![t] = [pc |-> IF ref.held THEN "asking" ELSE "holding", ref |-> ref]]
    BY <1>3 DEF ReferBegins
  <2>2. PICK ref : ref = [name |-> name, kind |-> kind, held |-> table[name] # Absent,
                          url |-> IF table[name] # Absent THEN table[name].url ELSE NoUrl]
    OBVIOUS
  <2>3. PICK s : s = [pc |-> IF ref.held THEN "asking" ELSE "holding", ref |-> ref]
    OBVIOUS
  <2>4. refer' = [refer EXCEPT ![t] = s] /\ UNCHANGED refs
    BY <1>3, <2>1, <2>2, <2>3 DEF ReferBegins
  <2>5. IsRef(ref)
    BY <2>2 DEF IsRef
  <2>6. ReferOK(s)
    BY <2>3, <2>5 DEF ReferOK
  <2> QED BY <1>0, <1>1, <2>4, <2>6, RefersMove
<1>4. CASE ReferLocks(t)
  <2>1. refer[t].pc = "asking" /\ locked[refer[t].ref.name] = Nobody /\ UNCHANGED refs
    BY <1>4 DEF ReferLocks
  <2>2. PICK s : s = IF table[refer[t].ref.name] = Absent THEN Idle ELSE [refer[t] EXCEPT !.pc = "holding"]
    OBVIOUS
  <2>3. refer' = [refer EXCEPT ![t] = s]
    BY <1>4, <2>2 DEF ReferLocks
  <2>4. ReferOK(s)
    <3>1. CASE table[refer[t].ref.name] = Absent
      BY <1>2, <2>2, <3>1
    <3>2. CASE table[refer[t].ref.name] # Absent
      <4>1. refer[t] = [pc |-> refer[t].pc, ref |-> refer[t].ref] /\ IsRef(refer[t].ref)
        BY <1>1, <2>1 DEF ReferOK
      <4>2. s = [pc |-> "holding", ref |-> refer[t].ref]
        BY <2>2, <3>2, <4>1
      <4> QED BY <2>1, <3>2, <4>1, <4>2 DEF ReferOK
    <3> QED BY <3>1, <3>2
  <2> QED BY <1>0, <1>1, <2>1, <2>3, <2>4, RefersMove
<1>5. CASE ReferCommits(t)
  <2>1. PICK ref, row : ref = refer[t].ref /\ row = table[ref.name]
    OBVIOUS
  <2>2. PICK new : new = IF row = Absent THEN ref ELSE [ref EXCEPT !.url = row.url]
    OBVIOUS
  <2>3. refer[t].pc = "holding" /\ refs' = refs \cup {new} /\ refer' = [refer EXCEPT ![t] = Idle]
    BY <1>5, <2>1, <2>2 DEF ReferCommits
  <2>4. IsRef(ref) /\ (ref.held => locked[ref.name] = Nobody /\ row # Absent)
    BY <1>1, <2>1, <2>3 DEF ReferOK
  <2>5. /\ new.name = ref.name /\ new.held = ref.held /\ (row # Absent => new.url = row.url)
        /\ new = [f \in {"name", "kind", "held", "url"} |-> new[f]]
    BY <2>2, <2>4 DEF IsRef
  <2>6. RefOK(new) /\ (new.held => locked[new.name] = Nobody)
    BY <2>1, <2>4, <2>5 DEF RefOK, FiledOK, IsRef
  <2> QED BY <1>0, <1>1, <1>2, <2>3, <2>6, RefersMove
<1> QED BY <1>3, <1>4, <1>5 DEF ReferrerStep

LEMMA EndUnrefers == ASSUME EndInv, Unrefer PROVE EndInv'
<1>1. UNCHANGED <<table, clock, edit, locked, meant, refer>> /\ refs' \subseteq refs
  BY DEF Unrefer, tableVars
<1> QED BY <1>1, RefersMove DEF EndInv

LEMMA EndStep == EndInv /\ [EndpointNext]_endpointVars => EndInv'
<1> SUFFICES ASSUME EndInv, [EndpointNext]_endpointVars PROVE EndInv'
  OBVIOUS
<1>1. ASSUME NEW e \in Editors, EditorStep(e) PROVE EndInv'
  BY <1>1, EndRegisters, EndReads, EndChecks, EndWrites, EndLocks, EndCounts, EndCommits DEF EditorStep
<1>2. ASSUME NEW r \in Reloaders, ReloaderStep(r) PROVE UNCHANGED <<table, clock, edit, locked, meant, refer, refs>>
  BY <1>2 DEF ReloaderStep, ReloadReads, ReloadFails, BridgeAdapters, BridgeUpstreams, Install, DropAdapters,
              DropUpstreams, tableVars
<1>3. ASSUME UNCHANGED <<table, clock, edit, locked, meant, refer, refs>> PROVE EndInv'
  BY <1>3, RefersMove DEF EndInv
<1>4. UNCHANGED endpointVars => UNCHANGED <<table, clock, edit, locked, meant, refer, refs>>
  BY DEF endpointVars
<1> QED BY <1>1, <1>2, <1>3, <1>4, EndRefers, EndUnrefers DEF EndpointNext

(***************************************************************************)
(* The replica.  One reload runs at a time; each of its steps leaves the   *)
(* names of its reading in the maps before the registry has them, and      *)
(* takes the others out after it has lost them.                            *)
(***************************************************************************)
Chat(r) == Loaded(reload[r].rows, {"chat"})
Ones(r) == Loaded(reload[r].rows, {"system_one"})
Both(r) == Loaded(reload[r].rows, {"chat", "system_one"})
Consistent ==
    \A n \in DOMAIN registry : n \in IF registry[n].dialect = "system_one" THEN DOMAIN upstreams ELSE DOMAIN adapters
Settled ==
    /\ DOMAIN registry = DOMAIN adapters \cup DOMAIN upstreams
    /\ \A n \in DOMAIN registry : registry[n] = IF n \in DOMAIN upstreams THEN upstreams[n] ELSE adapters[n]
ReloadOK(r) ==
    /\ reload[r].pc \in {"idle", "read", "adapters", "upstreams", "installed", "dropped"}
    /\ reload[r].pc # "idle" => turn = r /\ reload[r] = [pc |-> reload[r].pc, rows |-> reload[r].rows]
    /\ reload[r].pc \in {"adapters", "upstreams", "installed"} => DOMAIN Chat(r) \subseteq DOMAIN adapters
    /\ reload[r].pc \in {"upstreams", "installed", "dropped"} => DOMAIN Ones(r) \subseteq DOMAIN upstreams
    /\ reload[r].pc \in {"installed", "dropped"} => registry = Both(r)
    /\ reload[r].pc = "dropped" => adapters = Chat(r)
ReplicaInv ==
    /\ DOMAIN reload = Reloaders /\ Consistent /\ \A r \in Reloaders : ReloadOK(r)
    /\ (\A r \in Reloaders : reload[r].pc = "idle") => Settled

(* A reading is split between the two maps by the dialect.                 *)
LEMMA LoadedSplits ==
    ASSUME NEW reading
    PROVE  /\ DOMAIN Loaded(reading, {"chat", "system_one"}) =
                DOMAIN Loaded(reading, {"chat"}) \cup DOMAIN Loaded(reading, {"system_one"})
           /\ \A n \in DOMAIN Loaded(reading, {"chat", "system_one"}) : Loaded(reading, {"chat", "system_one"})[n] = reading[n]
           /\ \A n \in DOMAIN Loaded(reading, {"chat"}) : Loaded(reading, {"chat"})[n] = reading[n] /\ reading[n].dialect # "system_one"
           /\ \A n \in DOMAIN Loaded(reading, {"system_one"}) :
                 Loaded(reading, {"system_one"})[n] = reading[n] /\ reading[n].dialect = "system_one"
<1> DEFINE D(kind) == {n \in Names : reading[n] # Absent /\ ~ Refusal(reading[n]) /\ Served(reading[n]) \in kind}
<1>1. \A kind : DOMAIN Loaded(reading, kind) = D(kind) /\ \A n \in D(kind) : Loaded(reading, kind)[n] = reading[n]
  BY DEF Loaded
<1>2. \A n : (Served(reading[n]) = "chat" => reading[n].dialect # "system_one")
             /\ (Served(reading[n]) = "system_one" => reading[n].dialect = "system_one")
  BY DEF Served
<1>3. D({"chat", "system_one"}) = D({"chat"}) \cup D({"system_one"})
  OBVIOUS
<1>4. (\A n \in D({"chat"}) : Served(reading[n]) = "chat") /\ \A n \in D({"system_one"}) : Served(reading[n]) = "system_one"
  OBVIOUS
<1> HIDE DEF D
<1>5. \A n \in D({"chat"}) : reading[n].dialect # "system_one"
  BY <1>2, <1>4
<1>6. \A n \in D({"system_one"}) : reading[n].dialect = "system_one"
  BY <1>2, <1>4
<1>7. ASSUME NEW kind PROVE DOMAIN Loaded(reading, kind) = D(kind) /\ \A n \in D(kind) : Loaded(reading, kind)[n] = reading[n]
  BY <1>1
<1>8. PICK b : b = Loaded(reading, {"chat", "system_one"})
  OBVIOUS
<1>9. PICK c : c = Loaded(reading, {"chat"})
  OBVIOUS
<1>10. PICK o : o = Loaded(reading, {"system_one"})
  OBVIOUS
<1>11. DOMAIN b = D({"chat", "system_one"}) /\ \A n \in DOMAIN b : b[n] = reading[n]
  BY <1>7, <1>8
<1>12. DOMAIN c = D({"chat"}) /\ \A n \in DOMAIN c : c[n] = reading[n]
  BY <1>7, <1>9
<1>13. DOMAIN o = D({"system_one"}) /\ \A n \in DOMAIN o : o[n] = reading[n]
  BY <1>7, <1>10
<1>14. /\ DOMAIN b = DOMAIN c \cup DOMAIN o
       /\ \A n \in DOMAIN c : reading[n].dialect # "system_one"
       /\ \A n \in DOMAIN o : reading[n].dialect = "system_one"
  BY <1>3, <1>5, <1>6, <1>11, <1>12, <1>13
<1> QED BY <1>8, <1>9, <1>10, <1>11, <1>12, <1>13, <1>14

(* The others stand idle while one reload takes a step.                    *)
LEMMA ReplicaMoves ==
    ASSUME ReplicaInv, NEW r \in Reloaders, NEW s, reload' = [reload EXCEPT ![r] = s],
           turn = r \/ turn = Nobody, ReloadOK(r)', Consistent', s.pc = "idle" => Settled'
    PROVE  ReplicaInv'
<1>1. DOMAIN reload' = Reloaders /\ reload'[r] = s /\ \A x \in Reloaders \ {r} : reload'[x] = reload[x]
  BY DEF ReplicaInv
<1>2. \A x \in Reloaders \ {r} : reload[x].pc = "idle"
  BY EndpointAssumption DEF ReplicaInv, ReloadOK
<1>3. \A x \in Reloaders : ReloadOK(x)'
  BY <1>1, <1>2 DEF ReloadOK
<1> QED BY <1>1, <1>3 DEF ReplicaInv

LEMMA ReplicaStep == ReplicaInv /\ [EndpointNext]_endpointVars => ReplicaInv'
<1> SUFFICES ASSUME ReplicaInv, [EndpointNext]_endpointVars PROVE ReplicaInv'
  OBVIOUS
<1>1. ASSUME UNCHANGED <<registry, adapters, upstreams, reload, turn>> PROVE ReplicaInv'
  BY <1>1 DEF ReplicaInv, Consistent, Settled, ReloadOK, Chat, Ones, Both
<1>2. ASSUME \/ \E e \in Editors : EditorStep(e)
             \/ \E t \in Referrers : ReferrerStep(t)
             \/ Unrefer
             \/ UNCHANGED endpointVars
      PROVE  UNCHANGED replicaVars
  <2>1. ASSUME NEW e \in Editors, EditorStep(e) PROVE UNCHANGED replicaVars
    BY <2>1 DEF EditorStep, Register, UpdateEndpoint, SetEndpoint, Check, Write, DeleteLocks, DeleteCounts, DeleteCommits
  <2>2. ASSUME NEW t \in Referrers, ReferrerStep(t) PROVE UNCHANGED replicaVars
    BY <2>2 DEF ReferrerStep, ReferBegins, ReferLocks, ReferCommits
  <2> QED BY <1>2, <2>1, <2>2 DEF Unrefer, endpointVars, replicaVars
<1>3. ASSUME NEW r \in Reloaders, ReloaderStep(r) PROVE ReplicaInv'
  <2> DEFINE reading == reload[r].rows
  <2>0. /\ DOMAIN reload = Reloaders /\ Consistent /\ ReloadOK(r)
        /\ (\A x \in Reloaders : reload[x].pc = "idle") => Settled
    BY DEF ReplicaInv
  <2>1. CASE ReloadReads(r)
    <3>1. PICK s : s = [pc |-> "read", rows |-> table]
      OBVIOUS
    <3>2. reload' = [reload EXCEPT ![r] = s] /\ turn = Nobody /\ turn' = r /\ UNCHANGED <<registry, adapters, upstreams>>
      BY <2>1, <3>1 DEF ReloadReads, TakeTurn
    <3>3. reload'[r] = s /\ s.pc = "read" /\ s = [pc |-> s.pc, rows |-> s.rows]
      BY <2>0, <3>1, <3>2
    <3>4. ReloadOK(r)' /\ Consistent'
      BY <2>0, <3>2, <3>3 DEF ReloadOK, Consistent
    <3> QED BY <3>2, <3>3, <3>4, ReplicaMoves
  <2>2. CASE ReloadFails(r)
    BY <1>1, <2>2 DEF ReloadFails
  <2>3. ASSUME NEW to, Step(r, to), reload[r].pc # "idle", turn' = turn
        PROVE  /\ reload' = [reload EXCEPT ![r] = [pc |-> to, rows |-> reading]]
               /\ reload'[r] = [pc |-> to, rows |-> reading] /\ turn = r
               /\ reload'[r].pc = to /\ reload'[r].rows = reading
    <3>1. reload[r] = [pc |-> reload[r].pc, rows |-> reading] /\ turn = r
      BY <2>0, <2>3 DEF ReloadOK
    <3>2. reload' = [reload EXCEPT ![r] = [reload[r] EXCEPT !.pc = to]]
      BY <2>3 DEF Step
    <3>3. [reload[r] EXCEPT !.pc = to] = [pc |-> to, rows |-> reading]
      BY <3>1
    <3> QED BY <2>0, <3>1, <3>2, <3>3
  <2>4. CASE BridgeAdapters(r)
    <3>1. /\ reload' = [reload EXCEPT ![r] = [pc |-> "adapters", rows |-> reading]] /\ turn = r /\ turn' = turn
          /\ reload'[r] = [pc |-> "adapters", rows |-> reading] /\ UNCHANGED <<registry, upstreams>>
      BY <2>3, <2>4 DEF BridgeAdapters, At
    <3>2. DOMAIN Loaded(reading, {"chat"}) \subseteq DOMAIN adapters' /\ DOMAIN adapters \subseteq DOMAIN adapters'
      BY <2>4 DEF BridgeAdapters, Bridge, Over
    <3>3. Consistent'
      BY <2>0, <3>1, <3>2 DEF Consistent
    <3>4. ReloadOK(r)'
      BY <3>1, <3>2 DEF ReloadOK, Chat
    <3> QED BY <3>1, <3>3, <3>4, ReplicaMoves
  <2>5. CASE BridgeUpstreams(r)
    <3>1. /\ reload' = [reload EXCEPT ![r] = [pc |-> "upstreams", rows |-> reading]] /\ turn = r /\ turn' = turn
          /\ reload'[r] = [pc |-> "upstreams", rows |-> reading] /\ UNCHANGED <<registry, adapters>>
      BY <2>3, <2>5 DEF BridgeUpstreams, At
    <3>2. DOMAIN Loaded(reading, {"system_one"}) \subseteq DOMAIN upstreams' /\ DOMAIN upstreams \subseteq DOMAIN upstreams'
      BY <2>5 DEF BridgeUpstreams, Bridge, Over
    <3>3. Consistent'
      BY <2>0, <3>1, <3>2 DEF Consistent
    <3>4. DOMAIN Loaded(reading, {"chat"}) \subseteq DOMAIN adapters
      BY <2>0, <2>5 DEF ReloadOK, Chat, BridgeUpstreams, At
    <3>5. ReloadOK(r)'
      BY <3>1, <3>2, <3>4 DEF ReloadOK, Chat, Ones
    <3> QED BY <3>1, <3>3, <3>5, ReplicaMoves
  <2>6. CASE Install(r)
    <3>1. /\ reload' = [reload EXCEPT ![r] = [pc |-> "installed", rows |-> reading]] /\ turn = r /\ turn' = turn
          /\ reload'[r] = [pc |-> "installed", rows |-> reading] /\ UNCHANGED <<adapters, upstreams>>
          /\ registry' = Loaded(reading, {"chat", "system_one"})
      BY <2>3, <2>6 DEF Install, At
    <3>2. DOMAIN Loaded(reading, {"chat"}) \subseteq DOMAIN adapters /\ DOMAIN Loaded(reading, {"system_one"}) \subseteq DOMAIN upstreams
      BY <2>0, <2>6 DEF ReloadOK, Chat, Ones, Install, At
    <3>s. PICK b, c, o : b = Loaded(reading, {"chat", "system_one"}) /\ c = Loaded(reading, {"chat"}) /\ o = Loaded(reading, {"system_one"})
      OBVIOUS
    <3>t. /\ DOMAIN b = DOMAIN c \cup DOMAIN o /\ (\A n \in DOMAIN b : b[n] = reading[n])
          /\ (\A n \in DOMAIN c : c[n] = reading[n] /\ reading[n].dialect # "system_one")
          /\ (\A n \in DOMAIN o : o[n] = reading[n] /\ reading[n].dialect = "system_one")
      BY <3>s, LoadedSplits
    <3>3. Consistent'
      BY <3>1, <3>2, <3>s, <3>t DEF Consistent
    <3>4. ReloadOK(r)'
      BY <3>1, <3>2 DEF ReloadOK, Chat, Ones, Both
    <3> QED BY <3>1, <3>3, <3>4, ReplicaMoves
  <2>7. CASE DropAdapters(r)
    <3>1. /\ reload' = [reload EXCEPT ![r] = [pc |-> "dropped", rows |-> reading]] /\ turn = r /\ turn' = turn
          /\ reload'[r] = [pc |-> "dropped", rows |-> reading] /\ UNCHANGED <<registry, upstreams>>
          /\ adapters' = Loaded(reading, {"chat"})
      BY <2>3, <2>7 DEF DropAdapters, At
    <3>2. registry = Loaded(reading, {"chat", "system_one"}) /\ DOMAIN Loaded(reading, {"system_one"}) \subseteq DOMAIN upstreams
      BY <2>0, <2>7 DEF ReloadOK, Ones, Both, DropAdapters, At
    <3>s. PICK b, c, o : b = Loaded(reading, {"chat", "system_one"}) /\ c = Loaded(reading, {"chat"}) /\ o = Loaded(reading, {"system_one"})
      OBVIOUS
    <3>t. /\ DOMAIN b = DOMAIN c \cup DOMAIN o /\ (\A n \in DOMAIN b : b[n] = reading[n])
          /\ (\A n \in DOMAIN c : c[n] = reading[n] /\ reading[n].dialect # "system_one")
          /\ (\A n \in DOMAIN o : o[n] = reading[n] /\ reading[n].dialect = "system_one")
      BY <3>s, LoadedSplits
    <3>3. Consistent'
      BY <3>1, <3>2, <3>s, <3>t DEF Consistent
    <3>4. ReloadOK(r)'
      BY <3>1, <3>2 DEF ReloadOK, Chat, Ones, Both
    <3> QED BY <3>1, <3>3, <3>4, ReplicaMoves
  <2>8. CASE DropUpstreams(r)
    <3>1. /\ reload' = [reload EXCEPT ![r] = Idle] /\ turn' = Nobody /\ UNCHANGED <<registry, adapters>>
          /\ upstreams' = Loaded(reading, {"system_one"}) /\ reload[r].pc = "dropped" /\ Idle.pc = "idle"
      BY <2>8 DEF DropUpstreams, At, Idle
    <3>2. registry = Loaded(reading, {"chat", "system_one"}) /\ adapters = Loaded(reading, {"chat"}) /\ turn = r
      BY <2>0, <3>1 DEF ReloadOK, Chat, Both
    <3>s. PICK b, c, o : b = Loaded(reading, {"chat", "system_one"}) /\ c = Loaded(reading, {"chat"}) /\ o = Loaded(reading, {"system_one"})
      OBVIOUS
    <3>t. /\ DOMAIN b = DOMAIN c \cup DOMAIN o /\ (\A n \in DOMAIN b : b[n] = reading[n])
          /\ (\A n \in DOMAIN c : c[n] = reading[n] /\ reading[n].dialect # "system_one")
          /\ (\A n \in DOMAIN o : o[n] = reading[n] /\ reading[n].dialect = "system_one")
      BY <3>s, LoadedSplits
    <3>3. Consistent' /\ Settled'
      BY <3>1, <3>2, <3>s, <3>t DEF Consistent, Settled
    <3>4. reload'[r].pc = "idle"
      BY <2>0, <3>1
    <3>5. ReloadOK(r)'
      BY <3>4 DEF ReloadOK
    <3> QED BY <3>1, <3>2, <3>3, <3>5, ReplicaMoves
  <2> QED BY <1>3, <2>1, <2>2, <2>4, <2>5, <2>6, <2>7, <2>8 DEF ReloaderStep
<1> QED BY <1>1, <1>2, <1>3 DEF EndpointNext, replicaVars

LEMMA ReplicaInitInv == EndpointInit => ReplicaInv
<1> SUFFICES ASSUME EndpointInit PROVE ReplicaInv
  OBVIOUS
<1>1. DOMAIN registry = {} /\ DOMAIN adapters = {} /\ DOMAIN upstreams = {}
  BY DEF EndpointInit, Nothing
<1>2. DOMAIN reload = Reloaders /\ \A r \in Reloaders : reload[r].pc = "idle"
  BY DEF EndpointInit, Idle
<1>3. Consistent /\ Settled
  BY <1>1 DEF Consistent, Settled
<1> QED BY <1>2, <1>3 DEF ReplicaInv, ReloadOK

(* Writers that race leave what one of them after the other would have: a  *)
(* field holds what was last asked for it, nothing filed under an endpoint *)
(* outlives it, and a key stays at the host it was filed for.              *)
THEOREM EndpointWriters == EndpointSpec => []WritersSerialise
<1>1. EndInv => WritersSerialise
  <2> SUFFICES ASSUME EndInv PROVE WritersSerialise
    OBVIOUS
  <2>1. NoLostUpdate
    BY DEF EndInv, MeantOK, NoLostUpdate
  <2>2. NothingStranded /\ KeysStay
    BY DEF EndInv, RefOK, FiledOK, Tidied, NothingStranded, KeysStay
  <2> QED BY <2>1, <2>2 DEF WritersSerialise
<1> QED BY <1>1, EndInitInv, EndStep, PTL DEF EndpointSpec

(* A row a writer stored is admitted and served by every reload, and at no *)
(* instant of a reload does a name parse to an endpoint nothing serves.    *)
THEOREM EndpointsServed == EndpointSpec => []ServedAsWritten
<1>1. EndInv => WrittenIsServed
  BY DEF EndInv, TableOK, Good, WrittenIsServed
<1>2. ReplicaInv => RegisteredIsServed
  <2> SUFFICES ASSUME ReplicaInv PROVE RegisteredIsServed
    OBVIOUS
  <2>1. (\A r \in Reloaders : reload[r] = Idle) => Settled
    BY DEF ReplicaInv, Idle
  <2> QED BY <2>1 DEF ReplicaInv, Consistent, Settled, RegisteredIsServed
<1>3. EndInv /\ ReplicaInv => ServedAsWritten
  BY <1>1, <1>2 DEF ServedAsWritten
<1> QED BY <1>3, EndInitInv, EndStep, ReplicaInitInv, ReplicaStep, PTL DEF EndpointSpec

------------------------------------------------------------------------------
(***************************************************************************)
(* What operators enrol.  A command that is half way through knows what it *)
(* has made, and that what it has made is attached; one that has looked at *)
(* the names knows who has taken its name since; and a doctor nothing was  *)
(* written under has the ladder the route has.  The predicates take the    *)
(* tables as arguments, for a step's before and after.                     *)
(***************************************************************************)
OpColumns == {"pc", "args", "left", "id", "made", "meanwhile", "still", "failed", "ladder", "told"}
AllNames == UNION {{NamesOf(args)[i] : i \in DOMAIN NamesOf(args)} : args \in Adds}
NamedIn(st, name) == {id \in SeatIds : st[id].there /\ st[id].name = name}
AttachedTo(st, made, name) == made \subseteq SeatIds /\ \A id \in made : st[id].there /\ name \in st[id].on
ServesAll(st, rt, name) ==
    /\ name \in DOMAIN rt
    /\ \A who \in People, i \in DOMAIN rt[name].tiers :
          \A p \in rt[name].tiers[i] : \E id \in SeatIds : st[id].there /\ Candidate(who, name, p, st[id])

OpForm(s) ==
    /\ DOMAIN s = OpColumns /\ s.failed \in Nat /\ IsFiniteSet(DOMAIN s.ladder)
    /\ s.pc # "idle" => s.told = "nothing"
    /\ s.pc = "provider" => s.args \in Adds
    /\ s.pc = "owner" => s.args \in Adds \cup Binds
    /\ s.pc \in {"provider", "owner"} => s.made = {}
    /\ s.pc = "rename" => s.args.from # s.args.to
    /\ s.pc = "bind" => s.args \in Binds
OpAdds(s, st) ==
    /\ s.pc \in {"check", "insert", "attach"} =>
          /\ s.args \in Adds /\ s.left \in Seq(AllNames) /\ s.left # << >> /\ AttachedTo(st, s.made, s.args.route)
          /\ Cardinality(s.made) + Len(s.left) = Len(NamesOf(s.args))
    /\ s.pc = "insert" => KindOffered(ProviderOf(s.args), KindOf(s.args)) /\ SeatIsPersonal(KindOf(s.args), s.args.owner)
    /\ s.pc = "attach" => s.id \in SeatIds /\ s.id \notin s.made /\ st[s.id].there
    /\ s.told = "added" => AttachedTo(st, s.made, s.args.route) /\ Cardinality(s.made) = Len(NamesOf(s.args))
OpLooks(s, st) ==
    /\ s.pc = "insert" => NamedIn(st, Head(s.left)) \subseteq s.meanwhile
    /\ s.pc = "rename" => NamedIn(st, s.args.to) \subseteq s.meanwhile
OpDoctor(s, st, rt) ==
    /\ s.pc = "checkseats" /\ s.still => s.args.route \in DOMAIN rt /\ s.ladder = rt[s.args.route].tiers
    /\ s.told = "healthy" /\ s.still => ServesAll(st, rt, s.args.route)
OpInv(s, st, rt) == OpForm(s) /\ OpAdds(s, st) /\ OpLooks(s, st) /\ OpDoctor(s, st, rt)

SeatOK(id, row) ==
    row.there => IsSeat(row) /\ (SeatIsPersonal(row.kind, row.owner) \/ \E legacy \in Legacy : id \in DOMAIN legacy)
SeatsInv(st) == DOMAIN st = SeatIds /\ \A id \in SeatIds : SeatOK(id, st[id])
RoutesInv(rt) == \A r \in DOMAIN rt : DOMAIN rt[r] = {"mode", "tiers"} /\ IsFiniteSet(DOMAIN rt[r].tiers)
TwinsInv(st, tw) ==
    \A i, j \in SeatIds : st[i].there /\ st[j].there /\ st[i].name = st[j].name => {i, j} \in tw \/ i = j
EnrolInv ==
    /\ SeatsInv(seats) /\ RoutesInv(routes) /\ TwinsInv(seats, twins)
    /\ DOMAIN operator = Operators /\ \A o \in Operators : OpInv(operator[o], seats, routes)

LEMMA NamesAre == ASSUME NEW args \in Adds PROVE NamesOf(args) \in Seq(AllNames) /\ NamesOf(args) # << >>
<1>1. \A i \in DOMAIN NamesOf(args) : NamesOf(args)[i] \in AllNames
  BY DEF AllNames
<1>2. args.sessions \in Nat
  BY EnrolmentAssumption
<1>3. CASE args.source = "grok" /\ args.sessions > 1
  <2>1. NamesOf(args) = [i \in 1 .. args.sessions |-> Append(args.name, <<"1", "2", "3">>[i])]
    BY <1>3 DEF NamesOf
  <2>2. NamesOf(args) \in [1 .. args.sessions -> AllNames]
    BY <1>1, <2>1
  <2>3. NamesOf(args) \in Seq(AllNames) /\ 1 \in DOMAIN NamesOf(args)
    BY <1>2, <1>3, <2>2
  <2> QED BY <2>3
<1>4. CASE ~ (args.source = "grok" /\ args.sessions > 1)
  <2>1. NamesOf(args) = <<args.name>>
    BY <1>4 DEF NamesOf
  <2>2. args.name \in AllNames
    BY <1>1, <2>1
  <2> QED BY <2>1, <2>2
<1> QED BY <1>3, <1>4

(* A write is noted by everyone.                                           *)
Note(s, newcomers) == [s EXCEPT !.meanwhile = @ \cup newcomers, !.still = FALSE]
(* What a write may do to the accounts: rows stay, and stay attached, and  *)
(* whoever gets a name is noted.                                           *)
Grows(st, after, newcomers) ==
    \A id \in SeatIds :
        /\ st[id].there => after[id].there /\ st[id].on \subseteq after[id].on
        /\ after[id].there => id \in newcomers \/ (st[id].there /\ st[id].name = after[id].name)
LEMMA OpNoted ==
    ASSUME NEW s, NEW st, NEW after, NEW rt, NEW rtAfter, NEW newcomers, OpInv(s, st, rt), Grows(st, after, newcomers)
    PROVE  OpInv(Note(s, newcomers), after, rtAfter)
<1>0. PICK n : n = Note(s, newcomers)
  OBVIOUS
<1>1. /\ DOMAIN n = OpColumns /\ n.pc = s.pc /\ n.args = s.args /\ n.left = s.left /\ n.id = s.id /\ n.made = s.made
      /\ n.meanwhile = s.meanwhile \cup newcomers /\ n.still = FALSE /\ n.failed = s.failed /\ n.ladder = s.ladder /\ n.told = s.told
  <2>1. DOMAIN s = OpColumns
    BY DEF OpInv, OpForm
  <2> QED BY <1>0, <2>1 DEF Note, OpColumns
<1>2. OpForm(n)
  BY <1>1 DEF OpInv, OpForm
<1>3. \A made, name : AttachedTo(st, made, name) => AttachedTo(after, made, name)
  BY DEF AttachedTo, Grows
<1>4. OpAdds(n, after)
  BY <1>1, <1>3 DEF OpInv, OpAdds, Grows
<1>5. \A name : NamedIn(after, name) \subseteq NamedIn(st, name) \cup newcomers
  BY DEF NamedIn, Grows
<1>6. OpLooks(n, after)
  BY <1>1, <1>5 DEF OpInv, OpLooks
<1>7. OpDoctor(n, after, rtAfter)
  BY <1>1 DEF OpDoctor
<1> QED BY <1>0, <1>2, <1>4, <1>6, <1>7 DEF OpInv

LEMMA EnrolAfter ==
    ASSUME SeatsInv(seats'), RoutesInv(routes'), TwinsInv(seats', twins'), DOMAIN operator' = Operators,
           \A o \in Operators : OpInv(operator'[o], seats', routes')
    PROVE  EnrolInv'
<1>1. SeatsInv(seats)' /\ RoutesInv(routes)' /\ TwinsInv(seats, twins)'
  BY DEF SeatsInv, SeatOK, RoutesInv, TwinsInv, IsSeat, SeatColumns, KindOffered, SeatIsPersonal
<1>2. \A o \in Operators : OpInv(operator[o], seats, routes)'
  BY DEF OpInv, OpForm, OpAdds, OpLooks, OpDoctor, AttachedTo, ServesAll, NamedIn, OpColumns, AllNames, Candidate
<1> QED BY <1>1, <1>2 DEF EnrolInv

LEMMA EnrolWrites ==
    ASSUME EnrolInv, NEW o \in Operators, NEW s, NEW newcomers, Wrote(o, s, newcomers), Grows(seats, seats', newcomers),
           OpInv(Note(s, newcomers), seats', routes'), SeatsInv(seats'), RoutesInv(routes'), TwinsInv(seats', twins')
    PROVE  EnrolInv'
<1>1. DOMAIN operator' = Operators /\ \A x \in Operators : operator'[x] = Note(IF x = o THEN s ELSE operator[x], newcomers)
  BY DEF Wrote, Noted, Note, EnrolInv
<1>2. ASSUME NEW x \in Operators PROVE OpInv(operator'[x], seats', routes')
  <2>1. CASE x = o
    BY <1>1, <2>1
  <2>2. CASE x # o
    BY <1>1, <2>2, OpNoted DEF EnrolInv
  <2> QED BY <2>1, <2>2
<1> QED BY <1>1, <1>2, EnrolAfter

LEMMA EnrolQuiet ==
    ASSUME EnrolInv, NEW o \in Operators, NEW s, operator' = [operator EXCEPT ![o] = s], UNCHANGED <<seats, routes, twins>>,
           OpInv(s, seats, routes)
    PROVE  EnrolInv'
<1>1. DOMAIN operator' = Operators /\ \A x \in Operators : OpInv(operator'[x], seats', routes')
  BY DEF EnrolInv
<1> QED BY <1>1, EnrolAfter DEF EnrolInv

(* Steps that only move one operator on.                                   *)
LEMMA Stopped ==
    ASSUME NEW s, NEW st, NEW rt, NEW what, OpInv(s, st, rt), what \notin {"added", "healthy"}
    PROVE  OpInv([s EXCEPT !.pc = "idle", !.told = what], st, rt)
<1>1. PICK n : n = [s EXCEPT !.pc = "idle", !.told = what]
  OBVIOUS
<1>2. DOMAIN s = OpColumns /\ s.failed \in Nat /\ IsFiniteSet(DOMAIN s.ladder)
  BY DEF OpInv, OpForm
<1>3. DOMAIN n = OpColumns /\ n.pc = "idle" /\ n.told = what /\ n.failed = s.failed /\ n.ladder = s.ladder
  BY <1>1, <1>2 DEF OpColumns
<1> QED BY <1>1, <1>2, <1>3 DEF OpInv, OpForm, OpAdds, OpLooks, OpDoctor

LEMMA EnrolSays ==
    ASSUME EnrolInv, NEW o \in Operators, NEW what, Says(o, what), UNCHANGED <<seats, routes, twins>>, what \notin {"added", "healthy"}
    PROVE  EnrolInv'
<1>1. operator' = [operator EXCEPT ![o] = [operator[o] EXCEPT !.pc = "idle", !.told = what]]
  BY DEF Says, EnrolInv
<1>2. OpInv(operator[o], seats, routes)
  BY DEF EnrolInv
<1> QED BY <1>1, <1>2, Stopped, EnrolQuiet

LEMMA RestingIs == DOMAIN Resting = OpColumns /\ Resting.failed = 0 /\ Resting.ladder = << >> /\ Resting.told = "nothing"
                   /\ Resting.made = {} /\ Resting.meanwhile = {} /\ Resting.pc = "idle" /\ IsFiniteSet(DOMAIN << >>)
<1>1. DOMAIN << >> = {}
  OBVIOUS
<1> QED BY <1>1, FS_EmptySet DEF Resting, OpColumns

LEMMA EnrolBegins ==
    ASSUME EnrolInv, NEW o \in Operators, NEW pc, NEW args, Begins(o, pc, args),
           \/ pc = "provider" /\ args \in Adds
           \/ pc = "owner" /\ args \in Adds \cup Binds
           \/ pc = "rename" /\ args.from # args.to /\ Named(args.to) = {}
    PROVE  EnrolInv'
<1>1. PICK s : s = [Resting EXCEPT !.pc = pc, !.args = args]
  OBVIOUS
<1>2. /\ DOMAIN s = OpColumns /\ s.pc = pc /\ s.args = args /\ s.failed = 0 /\ s.ladder = << >> /\ s.told = "nothing" /\ s.made = {}
      /\ IsFiniteSet(DOMAIN s.ladder)
  BY <1>1, RestingIs DEF OpColumns
<1>3. OpForm(s)
  BY <1>2 DEF OpForm
<1>4. OpAdds(s, seats) /\ OpDoctor(s, seats, routes)
  BY <1>2 DEF OpAdds, OpDoctor
<1>5. OpLooks(s, seats)
  BY <1>2 DEF OpLooks, NamedIn, Named, Enrolled
<1> QED BY <1>1, <1>3, <1>4, <1>5, EnrolQuiet DEF Begins, OnlyOperator, OpInv

LEMMA EnrolFinds ==
    ASSUME EnrolInv, NEW o \in Operators, ParsesProvider(o) \/ FindsOwner(o) \/ ChecksName(o)
    PROVE  EnrolInv'
<1>0. UNCHANGED <<seats, routes, twins>>
  BY DEF ParsesProvider, FindsOwner, ChecksName, OnlyOperator
<1>1. CASE Declines(o)
  BY <1>0, <1>1, EnrolSays DEF Declines
<1>2. PICK s : s = operator[o]
  OBVIOUS
<1>3. OpInv(s, seats, routes) /\ DOMAIN s = OpColumns /\ DOMAIN operator = Operators
  BY <1>2 DEF EnrolInv, OpInv, OpForm
<1>4. CASE ParsesProvider(o) /\ ~ Declines(o)
  <2>1. PICK n : n = [s EXCEPT !.pc = "owner"]
    OBVIOUS
  <2>2. s.pc = "provider" /\ operator' = [operator EXCEPT ![o] = n]
    BY <1>2, <1>3, <1>4, <2>1 DEF ParsesProvider, Doing
  <2>3. /\ DOMAIN n = OpColumns /\ n.pc = "owner" /\ n.args = s.args /\ n.made = s.made /\ n.failed = s.failed /\ n.ladder = s.ladder
        /\ n.told = s.told
    BY <1>3, <2>1 DEF OpColumns
  <2>4. OpInv(n, seats, routes)
    BY <1>3, <2>2, <2>3 DEF OpInv, OpForm, OpAdds, OpLooks, OpDoctor
  <2> QED BY <1>0, <2>2, <2>4, EnrolQuiet
<1>5. CASE FindsOwner(o) /\ ~ Declines(o)
  <2>1. PICK n : n = [s EXCEPT !.pc = IF s.args.does = "add" THEN "check" ELSE "bind",
                               !.left = IF s.args.does = "add" THEN NamesOf(s.args) ELSE << >>]
    OBVIOUS
  <2>2. s.pc = "owner" /\ operator' = [operator EXCEPT ![o] = n]
    BY <1>2, <1>3, <1>5, <2>1 DEF FindsOwner, Doing
  <2>3. /\ DOMAIN n = OpColumns /\ n.pc = (IF s.args.does = "add" THEN "check" ELSE "bind") /\ n.args = s.args /\ n.made = s.made
        /\ n.failed = s.failed /\ n.ladder = s.ladder /\ n.told = s.told /\ n.left = IF s.args.does = "add" THEN NamesOf(s.args) ELSE << >>
    BY <1>3, <2>1 DEF OpColumns
  <2>4. s.args \in Adds \cup Binds /\ s.made = {} /\ s.told = "nothing" /\ s.failed \in Nat /\ IsFiniteSet(DOMAIN s.ladder)
    BY <1>3, <2>2 DEF OpInv, OpForm
  <2>5. CASE s.args.does = "add"
    <3>1. s.args \in Adds
      BY <2>4, <2>5, EnrolmentAssumption
    <3>2. NamesOf(s.args) \in Seq(AllNames) /\ NamesOf(s.args) # << >>
      BY <3>1, NamesAre
    <3>3. Cardinality(s.made) + Len(n.left) = Len(NamesOf(s.args))
      BY <2>3, <2>4, <2>5, <3>2, FS_EmptySet
    <3>4. OpForm(n) /\ OpLooks(n, seats) /\ OpDoctor(n, seats, routes)
      BY <2>3, <2>4, <2>5 DEF OpForm, OpLooks, OpDoctor
    <3>5. OpAdds(n, seats)
      BY <2>3, <2>4, <2>5, <3>1, <3>2, <3>3 DEF OpAdds, AttachedTo
    <3> QED BY <1>0, <2>2, <3>4, <3>5, EnrolQuiet DEF OpInv
  <2>6. CASE s.args.does # "add"
    <3>1. s.args \in Binds
      BY <2>4, <2>6, EnrolmentAssumption
    <3>2. OpInv(n, seats, routes)
      BY <2>3, <2>4, <2>6, <3>1 DEF OpInv, OpForm, OpAdds, OpLooks, OpDoctor
    <3> QED BY <1>0, <2>2, <3>2, EnrolQuiet
  <2> QED BY <2>5, <2>6
<1>6. CASE ChecksName(o) /\ ~ Declines(o)
  <2>1. PICK n : n = [s EXCEPT !.pc = "insert", !.meanwhile = {}]
    OBVIOUS
  <2>2. s.pc = "check" /\ operator' = [operator EXCEPT ![o] = n]
    BY <1>2, <1>3, <1>6, <2>1 DEF ChecksName, Doing
  <2>3. /\ DOMAIN n = OpColumns /\ n.pc = "insert" /\ n.args = s.args /\ n.made = s.made /\ n.failed = s.failed /\ n.ladder = s.ladder
        /\ n.told = s.told /\ n.left = s.left /\ n.meanwhile = {}
    BY <1>3, <2>1 DEF OpColumns
  <2>4. KindOffered(ProviderOf(s.args), KindOf(s.args)) /\ SeatIsPersonal(KindOf(s.args), s.args.owner) /\ Named(Head(s.left)) = {}
    BY <1>2, <1>6 DEF ChecksName
  <2>5. OpForm(n) /\ OpAdds(n, seats) /\ OpDoctor(n, seats, routes)
    BY <1>3, <2>2, <2>3, <2>4 DEF OpInv, OpForm, OpAdds, OpDoctor
  <2>6. OpLooks(n, seats)
    BY <2>3, <2>4 DEF OpLooks, NamedIn, Named, Enrolled
  <2> QED BY <1>0, <2>2, <2>5, <2>6, EnrolQuiet DEF OpInv
<1> QED BY <1>1, <1>4, <1>5, <1>6

(* A write that names nobody: what a row is, and is attached to, stays.    *)
Rewritten(row, after) ==
    /\ row.there /\ DOMAIN after = SeatColumns /\ after.there /\ after.name = row.name /\ after.provider = row.provider
    /\ after.kind = row.kind /\ row.on \subseteq after.on /\ (after.owner = row.owner \/ after.owner # NoOne)
LEMMA RowsRewritten ==
    ASSUME EnrolInv, DOMAIN seats' = SeatIds, twins' = twins,
           \A id \in SeatIds : seats'[id] = seats[id] \/ Rewritten(seats[id], seats'[id])
    PROVE  SeatsInv(seats') /\ TwinsInv(seats', twins') /\ Grows(seats, seats', {})
<1>1. ASSUME NEW id \in SeatIds PROVE SeatOK(id, seats'[id])
  <2>1. SeatOK(id, seats[id])
    BY DEF EnrolInv, SeatsInv
  <2>2. CASE Rewritten(seats[id], seats'[id])
    BY <2>1, <2>2 DEF SeatOK, Rewritten, IsSeat, SeatIsPersonal
  <2> QED BY <2>1, <2>2
<1>2. \A id \in SeatIds : /\ seats'[id].there => seats[id].there /\ seats'[id].name = seats[id].name
                          /\ seats[id].there => seats'[id].there /\ seats[id].on \subseteq seats'[id].on
  BY DEF Rewritten
<1>3. TwinsInv(seats', twins')
  BY <1>2 DEF EnrolInv, TwinsInv
<1>4. Grows(seats, seats', {})
  BY <1>2 DEF Grows
<1> QED BY <1>1, <1>3, <1>4 DEF SeatsInv

LEMMA RowIs == ASSUME EnrolInv, NEW id \in SeatIds, seats[id].there PROVE DOMAIN seats[id] = SeatColumns
  BY DEF EnrolInv, SeatsInv, SeatOK, IsSeat

(* A command that ends with its write.                                     *)
LEMMA Ended ==
    ASSUME EnrolInv, NEW o \in Operators, NEW s, NEW newcomers, DOMAIN s = OpColumns, s.pc = "idle", s.failed \in Nat,
           IsFiniteSet(DOMAIN s.ladder), s.told \notin {"added", "healthy"}
    PROVE  OpInv(Note(s, newcomers), seats', routes')
<1>1. PICK n : n = Note(s, newcomers)
  OBVIOUS
<1>2. DOMAIN n = OpColumns /\ n.pc = "idle" /\ n.told = s.told /\ n.failed = s.failed /\ n.ladder = s.ladder
  BY <1>1 DEF Note, OpColumns
<1> QED BY <1>1, <1>2 DEF OpInv, OpForm, OpAdds, OpLooks, OpDoctor

LEMMA OpIs ==
    ASSUME EnrolInv, NEW o \in Operators
    PROVE  /\ OpInv(operator[o], seats, routes) /\ DOMAIN operator = Operators
           /\ DOMAIN operator[o] = OpColumns /\ operator[o].failed \in Nat /\ IsFiniteSet(DOMAIN operator[o].ladder)
  BY DEF EnrolInv, OpInv, OpForm

LEMMA EnrolBinds == ASSUME EnrolInv, NEW o \in Operators, Binds1(o) PROVE EnrolInv'
<1>1. CASE Declines(o) /\ UNCHANGED seats
  BY <1>1, EnrolSays DEF Declines, Binds1
<1>2. PICK s, b : s = operator[o] /\ b = s.args
  OBVIOUS
<1>3. s.pc = "bind" /\ UNCHANGED <<people, routes, twins>>
  BY <1>2 DEF Binds1, Doing
<1>4. b.owner # NoOne /\ DOMAIN s = OpColumns /\ s.failed \in Nat /\ IsFiniteSet(DOMAIN s.ladder)
  BY <1>2, <1>3, OpIs, EnrolmentAssumption DEF OpInv, OpForm
<1>5. CASE /\ seats' = [id \in SeatIds |-> IF id \in Named(b.name) THEN [seats[id] EXCEPT !.owner = b.owner] ELSE seats[id]]
           /\ Wrote(o, [s EXCEPT !.pc = "idle", !.told = "bound"], {})
  <2>1. ASSUME NEW id \in SeatIds PROVE seats'[id] = seats[id] \/ Rewritten(seats[id], seats'[id])
    <3>1. CASE id \in Named(b.name)
      <4>1. seats[id].there /\ seats'[id] = [seats[id] EXCEPT !.owner = b.owner]
        BY <1>5, <3>1 DEF Named, Enrolled
      <4>2. DOMAIN seats[id] = SeatColumns
        BY <4>1, RowIs
      <4> QED BY <1>4, <4>1, <4>2 DEF Rewritten, SeatColumns
    <3> QED BY <1>5, <3>1
  <2>2. SeatsInv(seats') /\ TwinsInv(seats', twins') /\ Grows(seats, seats', {})
    BY <1>3, <1>5, <2>1, RowsRewritten
  <2>3. PICK n : n = [s EXCEPT !.pc = "idle", !.told = "bound"]
    OBVIOUS
  <2>4. DOMAIN n = OpColumns /\ n.pc = "idle" /\ n.told = "bound" /\ n.failed = s.failed /\ n.ladder = s.ladder
    BY <1>4, <2>3 DEF OpColumns
  <2>5. OpInv(Note(n, {}), seats', routes')
    BY <1>4, <2>4, Ended
  <2> QED BY <1>3, <1>5, <2>2, <2>3, <2>5, EnrolWrites DEF EnrolInv
<1> QED BY <1>1, <1>2, <1>5 DEF Binds1

LEMMA EnrolSets ==
    ASSUME EnrolInv, NEW o \in Operators, NEW name,
           \/ \E value \in BOOLEAN : SetsSchedulable(o, name, value)
           \/ \E pct \in Reserves : SetsReserve(o, name, pct)
    PROVE  EnrolInv'
<1>1. PICK written : /\ WritesAll(o, name, written)
                     /\ \A id \in Named(name) : \/ \E value : written[id] = [seats[id] EXCEPT !.schedulable = value]
                                                \/ \E value : written[id] = [seats[id] EXCEPT !.held = value]
  <2>1. ASSUME NEW value \in BOOLEAN, SetsSchedulable(o, name, value)
        PROVE  \E written : /\ WritesAll(o, name, written)
                            /\ \A id \in Named(name) : written[id] = [seats[id] EXCEPT !.schedulable = value]
    <3>1. PICK w : w = [id \in Named(name) |-> [seats[id] EXCEPT !.schedulable = value]]
      OBVIOUS
    <3>2. WritesAll(o, name, w)
      BY <2>1, <3>1 DEF SetsSchedulable
    <3> QED BY <3>1, <3>2
  <2>2. ASSUME NEW pct \in Reserves, SetsReserve(o, name, pct)
        PROVE  \E written : /\ WritesAll(o, name, written)
                            /\ \A id \in Named(name) : \E value : written[id] = [seats[id] EXCEPT !.held = value]
    <3>1. PICK w : w = [id \in Named(name) |-> [seats[id] EXCEPT !.held = seats[id].kind = "oauth" /\ HeldByReserve(pct)]]
      OBVIOUS
    <3>2. WritesAll(o, name, w)
      BY <2>2, <3>1 DEF SetsReserve
    <3>3. \A id \in Named(name) : w[id] = [seats[id] EXCEPT !.held = seats[id].kind = "oauth" /\ HeldByReserve(pct)]
      BY <3>1
    <3>4. \A id \in Named(name) : \E value : w[id] = [seats[id] EXCEPT !.held = value]
      BY <3>3, Zenon
    <3> QED BY <3>2, <3>4
  <2>3. CASE \E value \in BOOLEAN : SetsSchedulable(o, name, value)
    <3>1. PICK value \in BOOLEAN : SetsSchedulable(o, name, value)
      BY <2>3
    <3>2. PICK w : /\ WritesAll(o, name, w)
                   /\ \A id \in Named(name) : w[id] = [seats[id] EXCEPT !.schedulable = value]
      BY <2>1, <3>1
    <3> QED BY <3>2
  <2>4. CASE \E pct \in Reserves : SetsReserve(o, name, pct)
    <3>1. PICK w : /\ WritesAll(o, name, w)
                   /\ \A id \in Named(name) : \E value : w[id] = [seats[id] EXCEPT !.held = value]
      BY <2>2, <2>4
    <3> QED BY <3>1
  <2> QED BY <2>3, <2>4
<1>2. /\ seats' = [id \in SeatIds |-> IF id \in Named(name) THEN written[id] ELSE seats[id]]
      /\ Wrote(o, [Resting EXCEPT !.told = "set"], {}) /\ UNCHANGED <<people, routes, twins>>
  BY <1>1 DEF WritesAll
<1>3. ASSUME NEW id \in SeatIds PROVE seats'[id] = seats[id] \/ Rewritten(seats[id], seats'[id])
  <2>1. CASE id \in Named(name)
    <3>1. seats[id].there /\ seats'[id] = written[id]
      BY <1>2, <2>1 DEF Named, Enrolled
    <3>2. DOMAIN seats[id] = SeatColumns
      BY <3>1, RowIs
    <3>3. CASE \E value : written[id] = [seats[id] EXCEPT !.schedulable = value]
      BY <3>1, <3>2, <3>3 DEF Rewritten, SeatColumns
    <3>4. CASE \E value : written[id] = [seats[id] EXCEPT !.held = value]
      BY <3>1, <3>2, <3>4 DEF Rewritten, SeatColumns
    <3> QED BY <1>1, <2>1, <3>3, <3>4
  <2> QED BY <1>2, <2>1
<1>4. SeatsInv(seats') /\ TwinsInv(seats', twins') /\ Grows(seats, seats', {})
  BY <1>2, <1>3, RowsRewritten
<1>5. PICK n : n = [Resting EXCEPT !.told = "set"]
  OBVIOUS
<1>6. DOMAIN n = OpColumns /\ n.pc = "idle" /\ n.told = "set" /\ n.failed = 0 /\ IsFiniteSet(DOMAIN n.ladder)
  BY <1>5, RestingIs DEF OpColumns
<1>7. OpInv(Note(n, {}), seats', routes')
  BY <1>6, Ended
<1> QED BY <1>2, <1>4, <1>5, <1>7, EnrolWrites DEF EnrolInv

(* A route is made, or set: no row of an account is written.               *)
LEMMA RowsLeft ==
    ASSUME EnrolInv, seats' = seats, twins' = twins PROVE SeatsInv(seats') /\ TwinsInv(seats', twins') /\ Grows(seats, seats', {})
  BY DEF EnrolInv, Grows

LEMMA EnrolRoutes ==
    ASSUME EnrolInv, NEW o \in Operators,
           \/ UpsertsRoute(o)
           \/ \E name \in RouteNames : \/ \E email \in People : InitBegins(o, email, name)
                                       \/ \E tiers \in Rungs : SetsRungs(o, name, tiers)
                                       \/ SetsMode(o, name, "managed")
    PROVE  EnrolInv'
<1>0. seats' = seats /\ twins' = twins
  BY DEF UpsertsRoute, InitBegins, SetsRungs, SetsMode, SetsRoute
<1>1. SeatsInv(seats') /\ TwinsInv(seats', twins') /\ Grows(seats, seats', {})
  BY <1>0, RowsLeft
<1>2. CASE UpsertsRoute(o)
  <2>1. PICK n : n = [operator[o] EXCEPT !.pc = "idle", !.told = "initialised"]
    OBVIOUS
  <2>2. /\ DOMAIN n = OpColumns /\ n.pc = "idle" /\ n.told = "initialised" /\ n.failed \in Nat /\ IsFiniteSet(DOMAIN n.ladder)
    BY <2>1, OpIs DEF OpColumns
  <2>3. OpInv(Note(n, {}), seats', routes')
    BY <2>2, Ended
  <2>4. RoutesInv(routes')
    <3>0. IsFiniteSet(DOMAIN DefaultTiers)
      <4>1. DOMAIN DefaultTiers = 1 .. 3
        BY DEF DefaultTiers
      <4>2. IsFiniteSet(1 .. 3)
        <5>1. 1 \in Int /\ 3 \in Int
          OBVIOUS
        <5> QED BY <5>1, FS_Interval
      <4> QED BY <4>1, <4>2
    <3>1. PICK name : routes' = [r \in DOMAIN routes \cup {name} |->
                                    IF r \in DOMAIN routes THEN routes[r] ELSE [mode |-> "passthrough", tiers |-> DefaultTiers]]
      BY <1>2 DEF UpsertsRoute
    <3>2. PICK fresh : fresh = [mode |-> "passthrough", tiers |-> DefaultTiers]
      OBVIOUS
    <3>3. DOMAIN fresh = {"mode", "tiers"} /\ IsFiniteSet(DOMAIN fresh.tiers)
      BY <3>0, <3>2
    <3>4. \A r \in DOMAIN routes' : routes'[r] = IF r \in DOMAIN routes THEN routes[r] ELSE fresh
      BY <3>1, <3>2
    <3> QED BY <3>3, <3>4 DEF RoutesInv, EnrolInv
  <2> QED BY <1>1, <1>2, <2>1, <2>3, <2>4, EnrolWrites DEF UpsertsRoute
<1>3. ASSUME NEW name \in RouteNames, NEW email \in People, InitBegins(o, email, name) PROVE EnrolInv'
  <2>1. PICK n : n = [Resting EXCEPT !.pc = "route", !.args = [does |-> "init", route |-> name]]
    OBVIOUS
  <2>2. /\ DOMAIN n = OpColumns /\ n.pc = "route" /\ n.told = "nothing" /\ n.failed = 0 /\ IsFiniteSet(DOMAIN n.ladder)
    BY <2>1, RestingIs DEF OpColumns
  <2>3. PICK m : m = Note(n, {})
    OBVIOUS
  <2>4. /\ DOMAIN m = OpColumns /\ m.pc = "route" /\ m.told = "nothing" /\ m.failed = 0 /\ IsFiniteSet(DOMAIN m.ladder)
    BY <2>2, <2>3 DEF OpColumns, Note
  <2>5. OpInv(m, seats', routes')
    BY <2>4 DEF OpInv, OpForm, OpAdds, OpLooks, OpDoctor
  <2> QED BY <1>1, <1>3, <2>1, <2>3, <2>5, EnrolWrites DEF InitBegins, EnrolInv
<1>4. ASSUME NEW name \in DOMAIN routes, NEW row, SetsRoute(o, name, row), DOMAIN row = {"mode", "tiers"}, IsFiniteSet(DOMAIN row.tiers)
      PROVE  EnrolInv'
  <2>1. PICK n : n = [Resting EXCEPT !.told = "set"]
    OBVIOUS
  <2>2. DOMAIN n = OpColumns /\ n.pc = "idle" /\ n.told = "set" /\ n.failed = 0 /\ IsFiniteSet(DOMAIN n.ladder)
    BY <2>1, RestingIs DEF OpColumns
  <2>3. OpInv(Note(n, {}), seats', routes')
    BY <2>2, Ended
  <2>4. RoutesInv(routes')
    BY <1>4 DEF SetsRoute, RoutesInv, EnrolInv
  <2> QED BY <1>1, <1>4, <2>1, <2>3, <2>4, EnrolWrites DEF SetsRoute
<1>5. ASSUME NEW name \in RouteNames, NEW tiers \in Rungs, SetsRungs(o, name, tiers) PROVE EnrolInv'
  <2>1. PICK row : row = [routes[name] EXCEPT !.tiers = tiers]
    OBVIOUS
  <2>2. name \in DOMAIN routes /\ SetsRoute(o, name, row) /\ DOMAIN routes[name] = {"mode", "tiers"}
    BY <1>5, <2>1 DEF SetsRungs, EnrolInv, RoutesInv
  <2>3. DOMAIN row = {"mode", "tiers"} /\ IsFiniteSet(DOMAIN row.tiers)
    BY <2>1, <2>2, EnrolmentAssumption
  <2> QED BY <1>4, <2>2, <2>3
<1>6. ASSUME NEW name \in RouteNames, SetsMode(o, name, "managed") PROVE EnrolInv'
  <2>1. PICK row : row = [routes[name] EXCEPT !.mode = "managed"]
    OBVIOUS
  <2>2. name \in DOMAIN routes /\ SetsRoute(o, name, row) /\ DOMAIN routes[name] = {"mode", "tiers"} /\ IsFiniteSet(DOMAIN routes[name].tiers)
    BY <1>6, <2>1 DEF SetsMode, EnrolInv, RoutesInv
  <2>3. DOMAIN row = {"mode", "tiers"} /\ IsFiniteSet(DOMAIN row.tiers)
    BY <2>1, <2>2
  <2> QED BY <1>4, <2>2, <2>3
<1> QED BY <1>2, <1>3, <1>5, <1>6

(* The gateway cools a credential down, or warms it.                       *)
LEMMA EnrolPool == ASSUME EnrolInv, PoolMoves PROVE EnrolInv'
<1>1. PICK id \in SeatIds : seats[id].there /\ seats' = [seats EXCEPT ![id].cooling = ~ @]
  BY DEF PoolMoves, Enrolled
<1>2. twins' = twins /\ routes' = routes /\ operator' = Noted(operator, {})
  BY DEF PoolMoves
<1>3. DOMAIN seats = SeatIds /\ DOMAIN seats[id] = SeatColumns
  BY <1>1, RowIs DEF EnrolInv, SeatsInv
<1>4. DOMAIN seats' = SeatIds /\ \A x \in SeatIds : seats'[x] = seats[x] \/ Rewritten(seats[x], seats'[x])
  <2>1. PICK value : value = ~ seats[id].cooling
    OBVIOUS
  <2>2. seats' = [seats EXCEPT ![id] = [seats[id] EXCEPT !.cooling = value]]
    BY <1>1, <1>3, <2>1
  <2> QED BY <1>1, <1>3, <2>2 DEF Rewritten, SeatColumns
<1>5. SeatsInv(seats') /\ TwinsInv(seats', twins') /\ Grows(seats, seats', {})
  BY <1>2, <1>4, RowsRewritten
<1>6. DOMAIN operator' = Operators /\ \A x \in Operators : operator'[x] = Note(operator[x], {})
  BY <1>2 DEF Noted, Note
<1>7. \A x \in Operators : OpInv(operator'[x], seats', routes')
  BY <1>5, <1>6, OpIs, OpNoted
<1> QED BY <1>2, <1>5, <1>6, <1>7, EnrolAfter DEF EnrolInv

(* A row is inserted, then attached.                                       *)
LEMMA EnrolInserts == ASSUME EnrolInv, NEW o \in Operators, InsertsRow(o) PROVE EnrolInv'
<1>0. PICK s : s = operator[o]
  OBVIOUS
<1>1. s.pc = "insert" /\ OpInv(s, seats, routes) /\ DOMAIN s = OpColumns /\ DOMAIN seats = SeatIds /\ UNCHANGED routes
  BY <1>0, OpIs DEF InsertsRow, Doing, EnrolInv, SeatsInv
<1>2. PICK id, row :
         /\ id \in SeatIds /\ ~ seats[id].there
         /\ row = [there |-> TRUE, name |-> Head(s.left), provider |-> ProviderOf(s.args), kind |-> KindOf(s.args),
                   owner |-> s.args.owner, schedulable |-> TRUE, cooling |-> FALSE, held |-> FALSE, on |-> {}]
         /\ seats' = [seats EXCEPT ![id] = row]
         /\ Wrote(o, [s EXCEPT !.pc = "attach", !.id = id], {id})
         /\ twins' = twins \cup {{id, other} : other \in Named(Head(s.left)) \cap s.meanwhile}
  BY <1>0 DEF InsertsRow, Enrolled
<1>3. /\ DOMAIN row = SeatColumns /\ row.there /\ row.name = Head(s.left) /\ row.provider = ProviderOf(s.args)
      /\ row.kind = KindOf(s.args) /\ row.owner = s.args.owner
  BY <1>2 DEF SeatColumns
<1>4. DOMAIN seats' = SeatIds /\ seats'[id] = row /\ \A x \in SeatIds \ {id} : seats'[x] = seats[x]
  BY <1>1, <1>2
<1>5. SeatsInv(seats')
  <2>1. SeatOK(id, row)
    BY <1>1, <1>3 DEF OpInv, OpAdds, SeatOK, IsSeat
  <2> QED BY <1>4, <2>1 DEF EnrolInv, SeatsInv
<1>6. Grows(seats, seats', {id})
  BY <1>2, <1>4 DEF Grows
<1>7. TwinsInv(seats', twins')
  <2>1. ASSUME NEW x \in SeatIds, x # id, seats[x].there, seats[x].name = row.name PROVE {id, x} \in twins'
    <3>1. x \in NamedIn(seats, Head(s.left)) /\ x \in Named(Head(s.left))
      BY <1>3, <2>1 DEF NamedIn, Named, Enrolled
    <3>2. x \in s.meanwhile
      BY <1>1, <3>1 DEF OpInv, OpLooks
    <3> QED BY <1>2, <3>1, <3>2
  <2>2. twins \subseteq twins'
    BY <1>2
  <2>3. ASSUME NEW i \in SeatIds, NEW j \in SeatIds, seats'[i].there, seats'[j].there, seats'[i].name = seats'[j].name, i # j
        PROVE  {i, j} \in twins'
    <3>1. CASE i = id
      BY <1>4, <2>1, <2>3, <3>1
    <3>2. CASE j = id
      <4>1. {id, i} \in twins'
        BY <1>4, <2>1, <2>3, <3>2
      <4>2. {id, i} = {i, j}
        BY <3>2
      <4> QED BY <4>1, <4>2
    <3>3. CASE i # id /\ j # id
      BY <1>4, <2>2, <2>3, <3>3 DEF EnrolInv, TwinsInv
    <3> QED BY <3>1, <3>2, <3>3
  <2> QED BY <2>3 DEF TwinsInv
<1>8. PICK n, m : n = [s EXCEPT !.pc = "attach", !.id = id] /\ m = Note(n, {id})
  OBVIOUS
<1>9. /\ DOMAIN m = OpColumns /\ m.pc = "attach" /\ m.args = s.args /\ m.left = s.left /\ m.id = id /\ m.made = s.made
      /\ m.failed = s.failed /\ m.ladder = s.ladder /\ m.told = s.told /\ m.still = FALSE
  BY <1>1, <1>8 DEF Note, OpColumns
<1>10. OpForm(m) /\ OpLooks(m, seats') /\ OpDoctor(m, seats', routes')
  BY <1>1, <1>9 DEF OpInv, OpForm, OpLooks, OpDoctor
<1>11. AttachedTo(seats', s.made, s.args.route) /\ id \notin s.made
  BY <1>1, <1>2, <1>6 DEF OpInv, OpAdds, AttachedTo, Grows
<1>12. OpAdds(m, seats')
  BY <1>1, <1>2, <1>3, <1>4, <1>9, <1>11 DEF OpInv, OpForm, OpAdds
<1> QED BY <1>1, <1>2, <1>5, <1>6, <1>7, <1>8, <1>10, <1>12, EnrolWrites DEF OpInv, EnrolInv

LEMMA EnrolAttaches == ASSUME EnrolInv, NEW o \in Operators, Attaches(o) PROVE EnrolInv'
<1>1. CASE Declines(o) /\ UNCHANGED seats
  BY <1>1, EnrolSays DEF Declines, Attaches
<1>0. PICK s, name : s = operator[o] /\ name = s.args.route
  OBVIOUS
<1>2. s.pc = "attach" /\ OpInv(s, seats, routes) /\ DOMAIN s = OpColumns /\ DOMAIN seats = SeatIds /\ UNCHANGED <<routes, twins>>
  BY <1>0, OpIs DEF Attaches, Doing, EnrolInv, SeatsInv
<1>3. CASE seats' = Attached(o) /\ Wrote(o, Inserted(o), {})
  <2>0. /\ s.id \in SeatIds /\ s.id \notin s.made /\ seats[s.id].there /\ s.left \in Seq(AllNames) /\ s.left # << >> /\ s.args \in Adds
        /\ AttachedTo(seats, s.made, name) /\ Cardinality(s.made) + Len(s.left) = Len(NamesOf(s.args)) /\ s.told = "nothing"
    BY <1>0, <1>2 DEF OpInv, OpAdds, OpForm
  <2>1. PICK on : on = seats[s.id].on \cup {name}
    OBVIOUS
  <2>2. seats' = [seats EXCEPT ![s.id] = [seats[s.id] EXCEPT !.on = on]] /\ DOMAIN seats[s.id] = SeatColumns
    BY <1>0, <1>2, <1>3, <2>0, <2>1, RowIs DEF Attached
  <2>3. DOMAIN seats' = SeatIds /\ \A x \in SeatIds : seats'[x] = seats[x] \/ Rewritten(seats[x], seats'[x])
    BY <1>2, <2>0, <2>1, <2>2 DEF Rewritten, SeatColumns
  <2>4. SeatsInv(seats') /\ TwinsInv(seats', twins') /\ Grows(seats, seats', {})
    BY <1>2, <2>3, RowsRewritten
  <2>5. PICK left, made : left = Tail(s.left) /\ made = s.made \cup {s.id}
    OBVIOUS
  <2>6. PICK n, m : /\ n = [s EXCEPT !.left = left, !.made = made, !.pc = IF left = << >> THEN "idle" ELSE "check",
                                     !.told = IF left = << >> THEN "added" ELSE s.told]
                    /\ m = Note(n, {})
    OBVIOUS
  <2>7. Inserted(o) = n
    BY <1>0, <1>2, <2>5, <2>6 DEF Inserted
  <2>8. /\ DOMAIN m = OpColumns /\ m.pc = (IF left = << >> THEN "idle" ELSE "check") /\ m.args = s.args /\ m.left = left /\ m.made = made
        /\ m.failed = s.failed /\ m.ladder = s.ladder /\ m.told = (IF left = << >> THEN "added" ELSE "nothing") /\ m.still = FALSE
    BY <1>2, <2>0, <2>6 DEF Note, OpColumns
  <2>9. left \in Seq(AllNames) /\ Len(left) = Len(s.left) - 1 /\ (left = << >> => Len(left) = 0)
    <3>1. left \in Seq(AllNames) /\ Len(left) = Len(s.left) - 1
      BY <2>0, <2>5
    <3>2. Len(<< >>) = 0
      OBVIOUS
    <3> QED BY <3>1, <3>2
  <2>10. Cardinality(made) = Cardinality(s.made) + 1 /\ Cardinality(s.made) \in Nat
    <3>1. IsFiniteSet(s.made)
      BY <2>0, EnrolmentAssumption, FS_Subset DEF AttachedTo
    <3> QED BY <2>0, <2>5, <3>1, FS_AddElement, FS_CardinalityType
  <2>11. AttachedTo(seats', made, name)
    <3>1. seats'[s.id].there /\ name \in seats'[s.id].on
      BY <1>2, <2>0, <2>1, <2>2 DEF SeatColumns
    <3> QED BY <2>0, <2>4, <2>5, <3>1 DEF AttachedTo, Grows
  <2>12. OpForm(m) /\ OpLooks(m, seats') /\ OpDoctor(m, seats', routes')
    BY <1>2, <2>8 DEF OpInv, OpForm, OpLooks, OpDoctor
  <2>13. Cardinality(made) + Len(left) = Len(NamesOf(s.args)) /\ Len(left) \in Nat
    BY <2>0, <2>9, <2>10
  <2>14. OpAdds(m, seats')
    BY <1>0, <2>0, <2>8, <2>9, <2>10, <2>11, <2>13 DEF OpAdds
  <2> QED BY <1>2, <1>3, <2>4, <2>6, <2>7, <2>12, <2>14, EnrolWrites DEF OpInv, EnrolInv
<1> QED BY <1>1, <1>3 DEF Attaches

LEMMA EnrolRenames == ASSUME EnrolInv, NEW o \in Operators, RenameWrites(o) PROVE EnrolInv'
<1>1. CASE Declines(o) /\ UNCHANGED <<seats, twins>>
  BY <1>1, EnrolSays DEF Declines, RenameWrites
<1>0. PICK s, from, to, moved : s = operator[o] /\ from = s.args.from /\ to = s.args.to /\ moved = Named(from)
  OBVIOUS
<1>2. s.pc = "rename" /\ OpInv(s, seats, routes) /\ DOMAIN s = OpColumns /\ UNCHANGED routes /\ from # to
  BY <1>0, OpIs DEF RenameWrites, Doing, OpInv, OpForm
<1>3. CASE /\ seats' = [id \in SeatIds |-> IF id \in moved THEN [seats[id] EXCEPT !.name = to] ELSE seats[id]]
           /\ twins' = twins \cup {{id, other} : id \in moved, other \in Named(to) \cap s.meanwhile}
           /\ Wrote(o, [s EXCEPT !.pc = "idle", !.told = "renamed"], moved)
  <2>1. ASSUME NEW id \in SeatIds
        PROVE  /\ id \notin moved => seats'[id] = seats[id] /\ (seats[id].there => seats[id].name # from)
               /\ id \in moved => /\ seats[id].there /\ seats[id].name = from
                                  /\ seats'[id] = [seats[id] EXCEPT !.name = to] /\ DOMAIN seats[id] = SeatColumns
    BY <1>0, <1>3, RowIs DEF Named, Enrolled
  <2>2. ASSUME NEW id \in moved, NEW row, row = seats'[id]
        PROVE  /\ DOMAIN row = SeatColumns /\ row.there /\ row.name = to /\ row.provider = seats[id].provider /\ row.kind = seats[id].kind
               /\ row.owner = seats[id].owner /\ row.on = seats[id].on
    <3>1. id \in SeatIds
      BY <1>0 DEF Named, Enrolled
    <3> QED BY <2>1, <2>2, <3>1 DEF SeatColumns
  <2>3. SeatsInv(seats')
    <3>1. ASSUME NEW id \in SeatIds PROVE SeatOK(id, seats'[id])
      <4>1. SeatOK(id, seats[id])
        BY DEF EnrolInv, SeatsInv
      <4> QED BY <2>1, <2>2, <4>1 DEF SeatOK, IsSeat
    <3> QED BY <1>3, <3>1 DEF SeatsInv
  <2>4. Grows(seats, seats', moved)
    BY <2>1, <2>2 DEF Grows
  <2>5. ASSUME NEW x \in SeatIds, NEW y \in SeatIds, x \in moved, y \notin moved, seats[y].there, seats[y].name = to PROVE {x, y} \in twins'
    <3>1. y \in Named(to) /\ y \in NamedIn(seats, to)
      BY <2>5 DEF Named, Enrolled, NamedIn
    <3>2. y \in s.meanwhile
      BY <1>0, <1>2, <3>1 DEF OpInv, OpLooks
    <3> QED BY <1>3, <2>5, <3>1, <3>2
  <2>6. TwinsInv(seats', twins')
    <3>1. ASSUME NEW i \in SeatIds, NEW j \in SeatIds, seats'[i].there, seats'[j].there, seats'[i].name = seats'[j].name, i # j
          PROVE  {i, j} \in twins'
      <4>0. twins \subseteq twins'
        BY <1>3
      <4>1. CASE i \in moved /\ j \in moved
        BY <2>1, <3>1, <4>0, <4>1 DEF EnrolInv, TwinsInv
      <4>2. CASE i \in moved /\ j \notin moved
        BY <2>1, <2>2, <2>5, <3>1, <4>2
      <4>3. CASE i \notin moved /\ j \in moved
        <5>1. {j, i} \in twins'
          BY <2>1, <2>2, <2>5, <3>1, <4>3
        <5>2. {j, i} = {i, j}
          OBVIOUS
        <5> QED BY <5>1, <5>2
      <4>4. CASE i \notin moved /\ j \notin moved
        BY <2>1, <3>1, <4>0, <4>4 DEF EnrolInv, TwinsInv
      <4> QED BY <4>1, <4>2, <4>3, <4>4
    <3> QED BY <3>1 DEF TwinsInv
  <2>7. PICK n : n = [s EXCEPT !.pc = "idle", !.told = "renamed"]
    OBVIOUS
  <2>8. /\ DOMAIN n = OpColumns /\ n.pc = "idle" /\ n.told = "renamed" /\ n.failed = s.failed /\ n.ladder = s.ladder
        /\ s.failed \in Nat /\ IsFiniteSet(DOMAIN s.ladder)
    BY <1>2, <2>7 DEF OpColumns, OpInv, OpForm
  <2>9. OpInv(Note(n, moved), seats', routes')
    BY <2>8, Ended
  <2> QED BY <1>2, <1>3, <2>3, <2>4, <2>6, <2>7, <2>9, EnrolWrites DEF EnrolInv
<1> QED BY <1>0, <1>1, <1>3 DEF RenameWrites

(* doctor: what it counts is a number, so that none is found means none of *)
(* each kind.                                                              *)
LEMMA ProblemsAreCounted ==
    /\ EndpointProblems \in Nat
    /\ \A tiers, attached : IsFiniteSet(DOMAIN tiers) /\ attached \subseteq SeatIds =>
          /\ ReportAccounts(attached) \in Nat /\ CheckLadder(tiers, attached) \in Nat /\ CheckOrphanedSeats(attached) \in Nat
          /\ CheckReserves(attached) \in Nat /\ CheckCodex(attached) \in Nat
<1>1. IsFiniteSet(SeatIds) /\ IsFiniteSet(DOMAIN Boxes)
  BY EnrolmentAssumption
<1>2. EndpointProblems \in Nat
  <2> DEFINE A == {box \in DOMAIN Boxes : ~ Boxes[box]}
             B == {box \in DOMAIN Boxes : Boxes[box] /\ ~ \E id \in Enrolled : seats[id].provider = box /\ seats[id].schedulable}
             C == {box \in DOMAIN Boxes : Boxes[box] /\ box \notin Catalogued}
  <2>1. A \subseteq DOMAIN Boxes /\ B \subseteq DOMAIN Boxes /\ C \subseteq DOMAIN Boxes
    OBVIOUS
  <2>2. EndpointProblems = (IF Catalogued = {} THEN 1 ELSE 0) + Cardinality(A) + Cardinality(B) + Cardinality(C)
    BY DEF EndpointProblems
  <2> HIDE DEF A, B, C
  <2>3. Cardinality(A) \in Nat /\ Cardinality(B) \in Nat /\ Cardinality(C) \in Nat
    BY <1>1, <2>1, FS_Subset, FS_CardinalityType
  <2> QED BY <2>2, <2>3
<1>3. ASSUME NEW tiers, NEW attached, IsFiniteSet(DOMAIN tiers), attached \subseteq SeatIds
      PROVE  /\ ReportAccounts(attached) \in Nat /\ CheckLadder(tiers, attached) \in Nat /\ CheckOrphanedSeats(attached) \in Nat
             /\ CheckReserves(attached) \in Nat /\ CheckCodex(attached) \in Nat
  <2> DEFINE L == {i \in DOMAIN tiers : \E p \in tiers[i] :
                       ~ \E id \in attached : seats[id].provider = p /\ Live(seats[id]) /\ Shared(seats[id])}
             O == {id \in attached : OrphanedSeat(seats[id])}
             R == {id \in attached : seats[id].held}
  <2>1. L \subseteq DOMAIN tiers /\ O \subseteq SeatIds /\ R \subseteq SeatIds
    BY <1>3
  <2>2. CheckLadder(tiers, attached) = Cardinality(L) /\ CheckOrphanedSeats(attached) = Cardinality(O)
        /\ CheckReserves(attached) = Cardinality(R)
    BY DEF CheckLadder, CheckOrphanedSeats, CheckReserves
  <2> HIDE DEF L, O, R
  <2>3. Cardinality(L) \in Nat /\ Cardinality(O) \in Nat /\ Cardinality(R) \in Nat
    BY <1>1, <1>3, <2>1, FS_Subset, FS_CardinalityType
  <2>4. ReportAccounts(attached) \in Nat /\ CheckCodex(attached) \in Nat
    BY DEF ReportAccounts, CheckCodex
  <2> QED BY <2>2, <2>3, <2>4
<1> QED BY <1>2, <1>3

LEMMA NoRungUncovered ==
    ASSUME NEW tiers, NEW attached, IsFiniteSet(DOMAIN tiers), attached \subseteq SeatIds,
           NEW failed \in Nat, failed + RouteProblems(tiers, attached) = 0
    PROVE  \A i \in DOMAIN tiers : \A p \in tiers[i] :
              \E id \in attached : seats[id].provider = p /\ Live(seats[id]) /\ Shared(seats[id])
<1>1. CheckLadder(tiers, attached) = 0
  <2>1. PICK a, b, c, d, e : /\ a = ReportAccounts(attached) /\ b = CheckLadder(tiers, attached)
                             /\ c = CheckOrphanedSeats(attached) /\ d = CheckReserves(attached) /\ e = CheckCodex(attached)
    OBVIOUS
  <2>2. a \in Nat /\ b \in Nat /\ c \in Nat /\ d \in Nat /\ e \in Nat
    BY <2>1, ProblemsAreCounted, Zenon
  <2>3. RouteProblems(tiers, attached) = a + b + c + d + e
    BY <2>1 DEF RouteProblems
  <2>4. b = 0
    BY <2>2, <2>3
  <2> QED BY <2>1, <2>4
<1> DEFINE L == {i \in DOMAIN tiers : \E p \in tiers[i] :
                     ~ \E id \in attached : seats[id].provider = p /\ Live(seats[id]) /\ Shared(seats[id])}
<1>2. L \subseteq DOMAIN tiers /\ Cardinality(L) = 0
  BY <1>1 DEF CheckLadder
<1>3. L = {}
  <2> HIDE DEF L
  <2>1. IsFiniteSet(L)
    BY <1>2, FS_Subset
  <2> QED BY <1>2, <2>1, FS_EmptySet
<1> QED BY <1>3

LEMMA EnrolDoctor ==
    ASSUME EnrolInv, NEW o \in Operators, (\E name \in RouteNames : DoctorBegins(o, name)) \/ ChecksRoute(o) \/ Concludes(o)
    PROVE  EnrolInv'
<1>0. UNCHANGED <<seats, routes, twins>> /\ DOMAIN operator = Operators
  BY DEF DoctorBegins, ChecksRoute, Concludes, OnlyOperator, EnrolInv
<1>1. CASE \E name \in RouteNames : DoctorBegins(o, name)
  <2>1. PICK name \in RouteNames : DoctorBegins(o, name)
    BY <1>1
  <2>2. PICK args, n : args = [does |-> "doctor", route |-> name]
                       /\ n = [Resting EXCEPT !.pc = "checkroute", !.failed = EndpointProblems, !.args = args]
    OBVIOUS
  <2>3. operator' = [operator EXCEPT ![o] = n]
    BY <2>1, <2>2 DEF DoctorBegins
  <2>4. DOMAIN n = OpColumns /\ n.pc = "checkroute" /\ n.told = "nothing" /\ n.failed \in Nat /\ IsFiniteSet(DOMAIN n.ladder)
    BY <2>2, RestingIs, ProblemsAreCounted DEF OpColumns
  <2>5. OpInv(n, seats, routes)
    BY <2>4 DEF OpInv, OpForm, OpAdds, OpLooks, OpDoctor
  <2> QED BY <1>0, <2>3, <2>5, EnrolQuiet
<1>2. PICK s, name : s = operator[o] /\ name = s.args.route
  OBVIOUS
<1>3. OpInv(s, seats, routes) /\ DOMAIN s = OpColumns /\ s.failed \in Nat /\ IsFiniteSet(DOMAIN s.ladder)
  BY <1>2, OpIs
<1>4. CASE ChecksRoute(o)
  <2>1. CASE Says(o, "problems")
    BY <1>0, <2>1, EnrolSays
  <2>2. CASE name \in DOMAIN routes /\ operator' = [operator EXCEPT ![o].pc = "checkseats", ![o].ladder = routes[name].tiers]
    <3>1. PICK n : n = [s EXCEPT !.pc = "checkseats", !.ladder = routes[name].tiers]
      OBVIOUS
    <3>2. operator' = [operator EXCEPT ![o] = n]
      BY <1>0, <1>2, <2>2, <3>1
    <3>3. /\ DOMAIN n = OpColumns /\ n.pc = "checkseats" /\ n.told = s.told /\ n.failed = s.failed /\ n.args = s.args
          /\ n.ladder = routes[name].tiers /\ s.told = "nothing" /\ IsFiniteSet(DOMAIN routes[name].tiers)
      BY <1>2, <1>3, <1>4, <2>2, <3>1 DEF OpColumns, ChecksRoute, Doing, OpInv, OpForm, EnrolInv, RoutesInv
    <3>4. OpInv(n, seats, routes)
      BY <1>2, <1>3, <2>2, <3>3 DEF OpInv, OpForm, OpAdds, OpLooks, OpDoctor
    <3> QED BY <1>0, <3>2, <3>4, EnrolQuiet
  <2> QED BY <1>2, <1>4, <2>1, <2>2 DEF ChecksRoute
<1>5. CASE Concludes(o)
  <2>1. PICK attached : attached = {id \in Enrolled : name \in seats[id].on}
    OBVIOUS
  <2>2. Says(o, IF s.failed + RouteProblems(s.ladder, attached) = 0 THEN "healthy" ELSE "problems") /\ s.pc = "checkseats"
    BY <1>2, <1>5, <2>1 DEF Concludes, Doing
  <2>3. CASE s.failed + RouteProblems(s.ladder, attached) # 0
    BY <1>0, <2>2, <2>3, EnrolSays
  <2>4. CASE s.failed + RouteProblems(s.ladder, attached) = 0
    <3>1. PICK n : n = [s EXCEPT !.pc = "idle", !.told = "healthy"]
      OBVIOUS
    <3>2. operator' = [operator EXCEPT ![o] = n]
      BY <1>0, <1>2, <2>2, <2>4, <3>1 DEF Says
    <3>3. /\ DOMAIN n = OpColumns /\ n.pc = "idle" /\ n.told = "healthy" /\ n.failed = s.failed /\ n.args = s.args /\ n.ladder = s.ladder
          /\ n.still = s.still
      BY <1>3, <3>1 DEF OpColumns
    <3>4. ASSUME s.still PROVE ServesAll(seats, routes, name)
      <4>1. name \in DOMAIN routes /\ s.ladder = routes[name].tiers
        BY <1>2, <1>3, <2>2, <3>4 DEF OpInv, OpDoctor
      <4>2. attached \subseteq SeatIds
        BY <2>1 DEF Enrolled
      <4>3. \A i \in DOMAIN s.ladder : \A p \in s.ladder[i] :
               \E id \in attached : seats[id].provider = p /\ Live(seats[id]) /\ Shared(seats[id])
        BY <1>3, <2>4, <4>2, NoRungUncovered
      <4>4. ASSUME NEW who, NEW p, NEW id \in attached, seats[id].provider = p, Live(seats[id]), Shared(seats[id])
            PROVE  id \in SeatIds /\ seats[id].there /\ Candidate(who, name, p, seats[id])
        BY <2>1, <4>4 DEF Enrolled, Candidate, Live, Shared
      <4> QED BY <4>1, <4>3, <4>4 DEF ServesAll
    <3>5. OpForm(n) /\ OpAdds(n, seats) /\ OpLooks(n, seats)
      BY <1>3, <3>3 DEF OpForm, OpAdds, OpLooks
    <3>6. OpDoctor(n, seats, routes)
      BY <1>2, <3>3, <3>4 DEF OpDoctor
    <3> QED BY <1>0, <3>2, <3>5, <3>6, EnrolQuiet DEF OpInv
  <2> QED BY <2>3, <2>4
<1> QED BY <1>1, <1>4, <1>5

LEMMA EnrolStarts == EnrolInit => EnrolInv
<1> SUFFICES ASSUME EnrolInit PROVE EnrolInv
  OBVIOUS
<1>1. PICK legacy \in Legacy : seats = [id \in SeatIds |-> IF id \in DOMAIN legacy THEN legacy[id] ELSE Missing]
  BY DEF EnrolInit
<1>2. \A id \in SeatIds : (id \in DOMAIN legacy /\ IsSeat(seats[id])) \/ ~ seats[id].there
  BY <1>1, EnrolmentAssumption DEF Missing
<1>3. SeatsInv(seats)
  BY <1>1, <1>2 DEF SeatsInv, SeatOK
<1>4. TwinsInv(seats, twins)
  BY DEF EnrolInit, TwinsInv
<1>5. RoutesInv(routes)
  <2>1. CASE routes = << >>
    <3>1. DOMAIN routes = {}
      BY <2>1
    <3> QED BY <3>1 DEF RoutesInv
  <2>2. CASE routes \in [{CHOOSE r \in RouteNames : TRUE} -> {[mode |-> "passthrough", tiers |-> t] : t \in Rungs}]
    <3>1. ASSUME NEW r \in DOMAIN routes PROVE DOMAIN routes[r] = {"mode", "tiers"} /\ IsFiniteSet(DOMAIN routes[r].tiers)
      <4>1. PICK t \in Rungs : routes[r] = [mode |-> "passthrough", tiers |-> t]
        BY <2>2, <3>1
      <4>2. IsFiniteSet(DOMAIN t)
        BY EnrolmentAssumption
      <4> QED BY <4>1, <4>2
    <3> QED BY <3>1 DEF RoutesInv
  <2> QED BY <2>1, <2>2 DEF EnrolInit
<1>6. \A o \in Operators : OpInv(operator[o], seats, routes)
  <2>1. OpInv(Resting, seats, routes)
    BY RestingIs DEF OpInv, OpForm, OpAdds, OpLooks, OpDoctor
  <2> QED BY <2>1 DEF EnrolInit
<1> QED BY <1>3, <1>4, <1>5, <1>6 DEF EnrolInv, EnrolInit

LEMMA EnrolStep == EnrolInv /\ [EnrolNext]_enrolVars => EnrolInv'
<1> SUFFICES ASSUME EnrolInv, [EnrolNext]_enrolVars PROVE EnrolInv'
  OBVIOUS
<1>1. ASSUME NEW o \in Operators, OperatorSteps(o) PROVE EnrolInv'
  <2>1. ASSUME NEW args \in Adds, AddBegins(o, args) PROVE EnrolInv'
    <3>1. PICK pc : pc \in {"owner", "provider"} /\ Begins(o, pc, args)
      BY <2>1 DEF AddBegins
    <3> QED BY <2>1, <3>1, EnrolBegins
  <2>2. CASE ParsesProvider(o) \/ FindsOwner(o) \/ ChecksName(o)
    BY <2>2, EnrolFinds
  <2>3. CASE InsertsRow(o) \/ Attaches(o)
    BY <2>3, EnrolInserts, EnrolAttaches
  <2>4. CASE Stops(o)
    BY <2>4, EnrolSays DEF Stops, OnlyOperator
  <2>5. ASSUME NEW r \in Renames, RenameChecks(o, r) PROVE EnrolInv'
    BY <2>5, EnrolBegins DEF RenameChecks
  <2>6. ASSUME NEW b \in Binds, BindBegins(o, b) PROVE EnrolInv'
    BY <2>6, EnrolBegins DEF BindBegins
  <2>7. CASE RenameWrites(o) \/ Binds1(o)
    BY <2>7, EnrolRenames, EnrolBinds
  <2>8. CASE UpsertsRoute(o) \/ \E name \in RouteNames : \/ \E email \in People : InitBegins(o, email, name)
                                                         \/ \E tiers \in Rungs : SetsRungs(o, name, tiers)
                                                         \/ SetsMode(o, name, "managed")
    BY <2>8, EnrolRoutes
  <2>9. CASE (\E name \in RouteNames : DoctorBegins(o, name)) \/ ChecksRoute(o) \/ Concludes(o)
    BY <2>9, EnrolDoctor
  <2>10. ASSUME NEW r \in Renames, \/ \E value \in BOOLEAN : SetsSchedulable(o, r.from, value)
                                   \/ \E pct \in Reserves : SetsReserve(o, r.from, pct)
         PROVE  EnrolInv'
    BY <2>10, EnrolSets
  <2> QED BY <1>1, <2>1, <2>2, <2>3, <2>4, <2>5, <2>6, <2>7, <2>8, <2>9, <2>10 DEF OperatorSteps
<1>2. CASE UNCHANGED enrolVars
  <2>1. UNCHANGED <<seats, routes, operator, twins>>
    BY <1>2 DEF enrolVars
  <2> QED BY <2>1, EnrolAfter DEF EnrolInv
<1> QED BY <1>1, <1>2, EnrolPool DEF EnrolNext

LEMMA EnrolInvHolds == EnrolInv => EnrolmentHolds
<1> SUFFICES ASSUME EnrolInv PROVE EnrolmentHolds
  OBVIOUS
<1>1. SeatsArePersonal
  BY DEF SeatsArePersonal, EnrolInv, SeatsInv, SeatOK, IsSeat, Enrolled
<1>2. AddedIsAttached
  BY DEF AddedIsAttached, EnrolInv, OpInv, OpAdds, AttachedTo
<1>3. TwinsFromRacesOnly
  BY DEF TwinsFromRacesOnly, EnrolInv, TwinsInv, Enrolled
<1>4. HealthyServesAll
  BY DEF HealthyServesAll, EnrolInv, OpInv, OpDoctor, ServesAll
<1> QED BY <1>1, <1>2, <1>3, <1>4 DEF EnrolmentHolds

(* Whatever operators run at once, and wherever a command fails: seats are *)
(* somebody's and of a kind their provider takes, an import that succeeded *)
(* made and attached every row, names double up in races only, and a route *)
(* doctor calls healthy serves everybody until something is written.       *)
THEOREM EnrolmentStaysWhole == EnrolSpec => []EnrolmentHolds
<1>1. EnrolInit => EnrolInv
  BY EnrolStarts
<1>2. EnrolInv /\ [EnrolNext]_enrolVars => EnrolInv'
  BY EnrolStep
<1>3. EnrolInv => EnrolmentHolds
  BY EnrolInvHolds
<1> QED BY <1>1, <1>2, <1>3, PTL DEF EnrolSpec
==============================================================================
