------------------------------- MODULE Schema -------------------------------
(***************************************************************************)
(* The schema a release needs.  `oag migrate` runs beside every gateway of *)
(* a deploy, releases of two ages at once: one applies under an advisory   *)
(* lock, the others wait and find nothing to do.  A gateway never migrates; *)
(* its readiness says whether the schema it was built against is there,    *)
(* memoised for a second.  Postgres may stop under any of it, and come     *)
(* back empty where its data is not kept.                                  *)
(***************************************************************************)
EXTENDS Integers, FiniteSets

CONSTANTS
    Migrators, Gateways,
    Embeds,        \* of each process, how many migrations its binary carries
    FreshFor,      \* how long a readiness answer is kept
    LookupTime,    \* what a lookup may take: the statement timeout
    MaxOutages,    \* bound: times Postgres or Redis stops
    MaxSince       \* bound: how far back the ghosts count

ASSUME SchemaAssumption ==
    /\ \A p \in Migrators \cup Gateways : Embeds[p] \in Nat
    /\ FreshFor \in Nat /\ LookupTime \in Nat /\ MaxSince \in Nat /\ FreshFor + LookupTime < MaxSince
    /\ "nobody" \notin Migrators

VARIABLES
    applied,    \* _sqlx_migrations: version -> the checksum recorded, by this
                \* release, by 0.1.0 or of a file nobody released ("edited")
    lock,       \* who holds MIGRATION_LOCK_ID
    migrator,   \* [pc, todo, lifted], and cause: whether something befell it
    postgres,   \* whether it answers
    redis,
    memo,       \* AppState.readiness: [age, ready]
    lookup,     \* what a lookup under way has been told: [age, heard]
    draining,   \* the gateways that were told to stop
    told,       \* the last answer of /health/ready in this instant
    short,      \* ghost: how long ago the gateway last lacked something
    fit,        \* ghost: how long ago each thing it needs was last there
    outages
migrationVars == <<applied, lock, migrator>>
readinessVars == <<memo, lookup, draining, told>>
schemaVars == <<migrationVars, postgres, redis, readinessVars, short, fit, outages>>

Unheld == "nobody"
NoMemo == [age |-> FreshFor, ready |-> FALSE]
NoLookup == [age |-> 0, heard |-> << >>]
Newly == [pc |-> "idle", todo |-> {}, lifted |-> FALSE, cause |-> FALSE]

-----------------------------------------------------------------------------
(* sqlx::migrate! of a release, with 0001's comments as edited since 0.1.0. *)
Carries(p) == 1 .. Embeds[p]
Checksum(v) == "current"
Superseded(v) == IF v = 1 THEN {"v0.1.0"} ELSE {}

MigratorGoes(m, pc) == migrator' = [migrator EXCEPT ![m].pc = pc]
Reading(m, pc) == migrator[m].pc = pc /\ postgres

(* migrate: the request path's timeout is lifted for the session first,    *)
(* since a wait for the lock, or a backfill, may outlast it.               *)
MigrateBegins(m) ==
    /\ Reading(m, "idle")
    /\ migrator' = [migrator EXCEPT ![m] = [Newly EXCEPT !.pc = "lock", !.lifted = TRUE]]
    /\ UNCHANGED <<applied, lock, postgres, redis, readinessVars, outages>>
TakesLock(m) ==
    /\ Reading(m, "lock") /\ lock = Unheld
    /\ lock' = m /\ MigratorGoes(m, "adopt")
    /\ UNCHANGED <<applied, postgres, redis, readinessVars, outages>>

(* adopt_superseded_checksums: a recorded checksum that a comment-only edit *)
(* replaced is brought up to date, and no other.                           *)
AdoptsNothing(m) ==
    /\ Reading(m, "adopt") /\ MigratorGoes(m, "run")
    /\ UNCHANGED <<applied, lock, postgres, redis, readinessVars, outages>>
AdoptSupersededChecksums(m) ==
    /\ Reading(m, "adopt") /\ MigratorGoes(m, "run")
    /\ applied' = [v \in DOMAIN applied |->
                     IF v \in Carries(m) /\ applied[v] \in Superseded(v) THEN Checksum(v) ELSE applied[v]]
    /\ UNCHANGED <<lock, postgres, redis, readinessVars, outages>>

(* Migrator::run: what is recorded must be what the binary carries; with   *)
(* ignore_missing, what it does not carry is a newer release's.            *)
RunVerifies(m) ==
    /\ Reading(m, "run")
    /\ IF \E v \in DOMAIN applied \cap Carries(m) : applied[v] # Checksum(v) THEN MigratorGoes(m, "failing")
       ELSE migrator' = [migrator EXCEPT ![m].pc = "apply", ![m].todo = Carries(m) \ DOMAIN applied]
    /\ UNCHANGED <<applied, lock, postgres, redis, readinessVars, outages>>

(* Each migration and its row are one transaction; a row that is already   *)
(* there is a collision on the primary key.                                *)
RunApplies(m) ==
    LET v == CHOOSE w \in migrator[m].todo : \A u \in migrator[m].todo : w <= u
    IN /\ Reading(m, "apply") /\ migrator[m].todo # {}
       /\ IF v \in DOMAIN applied THEN MigratorGoes(m, "failing") /\ UNCHANGED applied
          ELSE /\ applied' = [w \in DOMAIN applied \cup {v} |-> IF w = v THEN Checksum(v) ELSE applied[w]]
               /\ migrator' = [migrator EXCEPT ![m].todo = @ \ {v}]
       /\ UNCHANGED <<lock, postgres, redis, readinessVars, outages>>

(* The lock is given back and the timeout put back whatever came of it.    *)
MigrateEnds(m) ==
    /\ postgres
    /\ \/ migrator[m].pc = "failing" /\ migrator' = [migrator EXCEPT ![m].pc = "red", ![m].lifted = FALSE]
       \/ /\ migrator[m].pc = "apply" /\ migrator[m].todo = {}
          /\ migrator' = [migrator EXCEPT ![m].pc = "green", ![m].lifted = FALSE]
    /\ lock' = Unheld
    /\ UNCHANGED <<applied, postgres, redis, readinessVars, outages>>

(* A deploy step that is killed: its session ends, and the lock with it.   *)
Running(m) == migrator[m].pc \in {"lock", "adopt", "run", "apply", "failing"}
MigratorDies(m) ==
    /\ Running(m)
    /\ migrator' = [migrator EXCEPT ![m] = [Newly EXCEPT !.pc = "red", !.cause = TRUE]]
    /\ lock' = IF lock = m THEN Unheld ELSE lock
    /\ UNCHANGED <<applied, postgres, redis, readinessVars, outages>>
MigratesAgain(m) ==
    /\ migrator[m].pc \in {"red", "green"}
    /\ migrator' = [migrator EXCEPT ![m] = Newly]
    /\ UNCHANGED <<applied, lock, postgres, redis, readinessVars, outages>>

-----------------------------------------------------------------------------
(* Postgres stops: every session ends.  It comes back with its data or, on *)
(* a tmpfs, with none, and every deploy step starts over.                  *)
PostgresStops ==
    /\ postgres /\ outages < MaxOutages /\ outages' = outages + 1
    /\ postgres' = FALSE /\ lock' = Unheld
    /\ migrator' = [m \in Migrators |->
                      IF Running(m) THEN [Newly EXCEPT !.pc = "red", !.cause = TRUE] ELSE migrator[m]]
    /\ UNCHANGED <<applied, redis, readinessVars>>
PostgresReturns ==
    /\ ~ postgres /\ postgres' = TRUE
    /\ \/ UNCHANGED <<applied, migrator>>
       \/ applied' = << >> /\ migrator' = [m \in Migrators |-> Newly]
    /\ UNCHANGED <<lock, redis, readinessVars, outages>>
RedisStops ==
    /\ redis /\ outages < MaxOutages /\ outages' = outages + 1
    /\ redis' = FALSE /\ UNCHANGED <<migrationVars, postgres, readinessVars>>
RedisReturns == ~ redis /\ redis' = TRUE /\ UNCHANGED <<migrationVars, postgres, readinessVars, outages>>

-----------------------------------------------------------------------------
(* schema_ready: applied successes counted against what the binary carries; *)
(* ahead of it is the middle of a rolling deploy.                          *)
schema_is_ready(count, embedded) == count >= embedded
SchemaReady(g) == postgres /\ schema_is_ready(Cardinality(DOMAIN applied), Embeds[g])
Needs == {"database", "redis", "schema"}
Answers(g) == [database |-> postgres, redis |-> redis, schema |-> SchemaReady(g)]

(* doctor's check_migrations: every version of the release, by its number. *)
CheckMigrations(embedded) == 1 .. embedded \subseteq DOMAIN applied

(* readiness: three questions asked together and answered in any order.    *)
LookingUp(g) == lookup[g] # NoLookup
LooksUp(g, d) ==
    /\ memo[g].age >= FreshFor /\ d \notin DOMAIN lookup[g].heard
    /\ lookup' = [lookup EXCEPT ![g].heard =
                    [e \in DOMAIN @ \cup {d} |-> IF e = d THEN Answers(g)[d] ELSE @[e]]]
    /\ UNCHANGED <<migrationVars, postgres, redis, memo, draining, told, outages>>
CachedReadiness(g) ==
    LET ready == \A d \in DOMAIN lookup[g].heard : lookup[g].heard[d]
    IN /\ DOMAIN lookup[g].heard = Needs
       /\ memo' = [memo EXCEPT ![g] = [age |-> 0, ready |-> ready]]
       /\ lookup' = [lookup EXCEPT ![g] = NoLookup]
       /\ UNCHANGED <<migrationVars, postgres, redis, draining, told, outages>>
Ready(g) ==
    /\ \/ g \in draining /\ told' = [told EXCEPT ![g] = "draining"]
       \/ /\ g \notin draining /\ memo[g].age < FreshFor /\ ~ LookingUp(g)
          /\ told' = [told EXCEPT ![g] = IF memo[g].ready THEN "ready" ELSE "unready"]
    /\ UNCHANGED <<migrationVars, postgres, redis, memo, lookup, draining, outages>>
Drains(g) ==
    /\ g \notin draining /\ draining' = draining \cup {g}
    /\ UNCHANGED <<migrationVars, postgres, redis, memo, lookup, told, outages>>

(* Time: a statement under the request path's timeout is cancelled by it.  *)
Tick ==
    /\ \A g \in Gateways : LookingUp(g) => lookup[g].age < LookupTime
    /\ memo' = [g \in Gateways |-> [memo[g] EXCEPT !.age = IF @ < FreshFor THEN @ + 1 ELSE @]]
    /\ lookup' = [g \in Gateways |-> IF LookingUp(g) THEN [lookup[g] EXCEPT !.age = @ + 1] ELSE lookup[g]]
    /\ told' = [g \in Gateways |-> "nothing"]
    /\ migrator' = [m \in Migrators |-> IF Running(m) /\ ~ migrator[m].lifted
                                        THEN [migrator[m] EXCEPT !.pc = "red"] ELSE migrator[m]]
    /\ UNCHANGED <<applied, lock, postgres, redis, draining, outages>>

-----------------------------------------------------------------------------
SchemaInit ==
    /\ applied \in {<< >>} \cup [{1} -> {"v0.1.0", "current", "edited"}]
    /\ lock = Unheld /\ migrator = [m \in Migrators |-> Newly]
    /\ postgres = TRUE /\ redis = TRUE /\ outages = 0
    /\ memo = [g \in Gateways |-> NoMemo] /\ lookup = [g \in Gateways |-> NoLookup]
    /\ draining = {} /\ told = [g \in Gateways |-> "nothing"]
    /\ fit = [g \in Gateways |-> [d \in Needs |-> IF Answers(g)[d] THEN 0 ELSE MaxSince]]
    /\ short = [g \in Gateways |-> IF \A d \in Needs : Answers(g)[d] THEN MaxSince ELSE 0]
SchemaStep ==
    \/ \E m \in Migrators : \/ MigrateBegins(m) \/ TakesLock(m) \/ AdoptSupersededChecksums(m)
                            \/ RunVerifies(m) \/ RunApplies(m) \/ MigrateEnds(m) \/ MigratorDies(m) \/ MigratesAgain(m)
    \/ PostgresStops \/ PostgresReturns \/ RedisStops \/ RedisReturns
    \/ \E g \in Gateways : \/ \E d \in Needs : LooksUp(g, d)
                           \/ CachedReadiness(g) \/ Ready(g) \/ Drains(g)
Since(before, holds, ticked) ==
    IF holds THEN 0 ELSE IF ticked /\ before < MaxSince THEN before + 1 ELSE before
Watched(ticked) ==
    /\ short' = [g \in Gateways |-> Since(short[g], \E d \in Needs : ~ Answers(g)'[d], ticked)]
    /\ fit' = [g \in Gateways |-> [d \in Needs |-> Since(fit[g][d], Answers(g)'[d], ticked)]]
SchemaNext == (SchemaStep /\ Watched(FALSE)) \/ (Tick /\ Watched(TRUE))
SchemaSpec == SchemaInit /\ [][SchemaNext]_schemaVars

-----------------------------------------------------------------------------
(* A deploy step fails only for a cause of its own or over a migration that *)
(* is not the one it carries, whichever releases run beside it, however    *)
(* long they waited and whoever migrated the database first; one that      *)
(* succeeds leaves all it carries applied, in order and as it carries it.  *)
DeploysHold ==
    /\ \E n \in 0 .. Cardinality(DOMAIN applied) : DOMAIN applied = 1 .. n
    /\ \A m \in Migrators :
          /\ migrator[m].pc \in {"red", "failing"} =>
                migrator[m].cause \/ "edited" \in {applied[v] : v \in DOMAIN applied}
          /\ migrator[m].pc = "green" => \A v \in Carries(m) : v \in DOMAIN applied /\ applied[v] = Checksum(v)
          /\ migrator[m].pc \in {"adopt", "run", "apply"} => lock = m

Recent == FreshFor + LookupTime

(* A gateway that says it is ready had each thing it needs, the schema of  *)
(* its release among them, no longer ago than a lookup and the life of its *)
(* memo; one that says it is not lacked something as lately, and a schema  *)
(* ahead of its release is no lack.  Counting rows and asking for each of  *)
(* them agree.                                                             *)
ReadinessHolds ==
    \A g \in Gateways :
        /\ told[g] = "ready" => \A d \in Needs : fit[g][d] <= Recent
        /\ told[g] = "unready" => short[g] <= Recent
        /\ postgres => (SchemaReady(g) <=> CheckMigrations(Embeds[g]))

(* Migrations of two releases side by side fail for a cause of their own   *)
(* only, and a readiness told is true as of a moment ago (db.rs migrate,   *)
(* health.rs ready).                                                       *)
SchemaHolds == DeploysHold /\ ReadinessHolds
=============================================================================
