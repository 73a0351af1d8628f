------------------------------- MODULE AuthCache -------------------------------
(***************************************************************************)
(* Inbound keys: the rows in Postgres, the sealed copies in Redis (L2),    *)
(* the copies in each replica's memory (L1), the lookups that fill them    *)
(* and the writes that must empty them again.                              *)
(*                                                                         *)
(* A lookup is the future inside `try_get_with`: one per replica and key,  *)
(* with an await at every step, so a row can be written and evicted        *)
(* between the read of it and the writing of the copy.  What is in a row   *)
(* beyond its status is a version: revoking a key, its quota and its       *)
(* principal's budget all change what the query of `authenticate` returns. *)
(*                                                                         *)
(* Time is an integer clock.  A lookup takes at most LookupTime: the pool's*)
(* acquire time-out and the timeouts of the Redis connection bound it.     *)
(***************************************************************************)
EXTENDS Integers, FiniteSets

CONSTANTS
    Replica,         \* gateway processes
    Key,             \* keys with a row, now or later
    Principal,       \* owners of keys
    Actor,           \* operators' connections and command lines
    Owner,           \* [Key -> Principal]
    Expires,         \* [Key -> Nat \cup {Never}]: expires_at
    Never,           \* a key without an expiry
    Issued,          \* keys that have a row from the start; others may be minted
    Cli,             \* stands for "no replica": the command line's own process
    L1_TTL, L2_TTL,  \* the two lifetimes of auth.rs
    LookupTime,      \* how long one lookup takes at most
    LookupPermits,   \* the lookups semaphore
    MaxVersion,      \* bound: writes to one key's identity
    MaxClock         \* bound: the clock

ASSUME ConstantsAssumption ==
    /\ Owner \in [Key -> Principal]
    /\ Expires \in [Key -> Nat \cup {Never}]
    /\ Never \notin Nat
    /\ Issued \subseteq Key
    /\ Cli \notin Replica
    /\ L1_TTL \in Nat \ {0} /\ L2_TTL \in Nat \ {0} /\ LookupTime \in Nat
    /\ LookupPermits \in Nat \ {0}
    /\ MaxVersion \in Nat /\ MaxClock \in Nat

VARIABLES
    clock,
    row,      \* [Key -> [status, version, admin]]: api_key joined with its principal
    role,     \* [Principal -> role]
    l1,       \* [Replica -> [Key -> entry]]
    l2,       \* [Key -> entry]
    load,     \* [Replica -> [Key -> lookup]]
    flood,    \* [Replica -> permits held by lookups of keys nobody issued]
    job,      \* [Actor -> the write an operator is in the middle of]
    retired,  \* history: when a version of a key stopped being the row's
    evicted   \* history: the last DEL of a key that Redis confirmed

vars == <<clock, row, role, l1, l2, load, flood, job, retired, evicted>>

--------------------------------------------------------------------------------
(* Identities and entries. *)

\* What a cache holds: nothing, "no such key", or an identity.  `until` is the
\* moment its store drops it; `sealed` is whether the tag verifies for this key.
Nothing == [kind |-> "nothing", version |-> 0, admin |-> FALSE, until |-> 0, sealed |-> FALSE]
Entry == [kind : {"nothing", "unknown", "identity"}, version : 0..MaxVersion,
          admin : BOOLEAN, until : Nat, sealed : BOOLEAN]
Kept(e) == IF clock + 1 < e.until THEN e ELSE Nothing

\* A lookup in flight: where it is, by when it is done, what it found and the
\* lifetime `cacheable_for` gave it.
Idle == [pc |-> "idle", by |-> 0, kind |-> "unknown", version |-> 0, admin |-> FALSE, ttl |-> 0]
Lookup == [pc : {"idle", "get", "permit", "read", "set", "insert"}, by : Nat,
           kind : {"unknown", "identity"}, version : 0..MaxVersion, admin : BOOLEAN, ttl : Nat]

\* An operator's write: whose connection it is on, the identities still to evict.
NoJob == [stage |-> "none", at |-> Cli, keys |-> {}, of |-> {}]
Job == [stage : {"none", "list", "l1", "l2"}, at : Replica \cup {Cli},
        keys : SUBSET Key, of : SUBSET Principal]

Lapsed(k) == Expires[k] # Never /\ Expires[k] <= clock

--------------------------------------------------------------------------------
(* Lookups. *)

\* `try_get_with`: a live L1 entry answers at once, otherwise one load per key.
\* Nobody presents a key before it is minted.
LoadStart(r, k) ==
    /\ row[k].status # "none"
    /\ l1[r][k].kind = "nothing"
    /\ load[r][k].pc = "idle"
    /\ load' = [load EXCEPT ![r][k] = [Idle EXCEPT !.pc = "get", !.by = clock + LookupTime]]
    /\ UNCHANGED <<clock, row, role, l1, l2, flood, job, retired, evicted>>

\* `auth_get` with `AuthMac::open`: an entry whose tag does not verify is a miss.
AuthGetHit(r, k) ==
    /\ load[r][k].pc = "get"
    /\ l2[k].kind = "identity" /\ l2[k].sealed
    /\ load' = [load EXCEPT ![r][k] = [@ EXCEPT !.pc = "insert", !.kind = "identity",
                                                !.version = l2[k].version, !.admin = l2[k].admin]]
    /\ UNCHANGED <<clock, row, role, l1, l2, flood, job, retired, evicted>>

\* A miss, an unverifiable entry, or a Redis that does not answer.
AuthGetMiss(r, k) ==
    /\ load[r][k].pc = "get"
    /\ load' = [load EXCEPT ![r][k].pc = "permit"]
    /\ UNCHANGED <<clock, row, role, l1, l2, flood, job, retired, evicted>>

\* The permit is held until the load ends, the write to Redis included.
PermitsTaken(r) == Cardinality({k \in Key : load[r][k].pc \in {"read", "set"}}) + flood[r]

TryAcquire(r, k) ==
    /\ load[r][k].pc = "permit"
    /\ load' = [load EXCEPT ![r][k] = IF PermitsTaken(r) < LookupPermits
                                      THEN [@ EXCEPT !.pc = "read"]
                                      ELSE Idle]
    /\ UNCHANGED <<clock, row, role, l1, l2, flood, job, retired, evicted>>

\* Lookups of well-shaped keys that do not exist pass `is_issued_key_shape`, miss
\* both caches, hold a permit while Postgres is asked, and write no shared state.
FloodTakes(r) ==
    /\ PermitsTaken(r) < LookupPermits
    /\ flood' = [flood EXCEPT ![r] = @ + 1]
    /\ UNCHANGED <<clock, row, role, l1, l2, load, job, retired, evicted>>
FloodEnds(r) ==
    /\ flood[r] > 0
    /\ flood' = [flood EXCEPT ![r] = @ - 1]
    /\ UNCHANGED <<clock, row, role, l1, l2, load, job, retired, evicted>>

\* `cacheable_for`: the lifetime a copy may have, 0 for none.
CacheableFor(k) ==
    IF Expires[k] = Never THEN L2_TTL
    ELSE IF Lapsed(k) THEN 0
    ELSE IF Expires[k] - clock < L2_TTL THEN Expires[k] - clock ELSE L2_TTL

\* `repo::authenticate`: active, unexpired rows only; then `cacheable_for`.
Authenticate(r, k) ==
    /\ load[r][k].pc = "read"
    /\ IF row[k].status = "active" /\ ~Lapsed(k)
       THEN load' = [load EXCEPT ![r][k] =
                        [@ EXCEPT !.kind = "identity", !.version = row[k].version, !.admin = row[k].admin,
                                  !.ttl = CacheableFor(k),
                                  !.pc = IF CacheableFor(k) > 0 THEN "set" ELSE "insert"]]
       ELSE load' = [load EXCEPT ![r][k].pc = "insert"]
    /\ UNCHANGED <<clock, row, role, l1, l2, flood, job, retired, evicted>>

\* `auth_set`: SETEX of the sealed identity; a failure is ignored.
AuthSet(r, k) ==
    /\ load[r][k].pc = "set"
    /\ load' = [load EXCEPT ![r][k].pc = "insert"]
    /\ \/ l2' = [l2 EXCEPT ![k] = [kind |-> "identity", version |-> load[r][k].version,
                                   admin |-> load[r][k].admin,
                                   until |-> clock + load[r][k].ttl, sealed |-> TRUE]]
       \/ UNCHANGED l2
    /\ UNCHANGED <<clock, row, role, l1, flood, job, retired, evicted>>

\* The load returns: L1 keeps its answer, found or not, and the waiters have it.
LoadReturnsFor(r, k, ttl) ==
    /\ load[r][k].pc = "insert"
    /\ l1' = [l1 EXCEPT ![r][k] = [kind |-> load[r][k].kind, version |-> load[r][k].version,
                                   admin |-> load[r][k].admin, until |-> clock + ttl,
                                   sealed |-> TRUE]]
    /\ load' = [load EXCEPT ![r][k] = Idle]
    /\ UNCHANGED <<clock, row, role, l2, flood, job, retired, evicted>>

LoadReturnsLong(r, k) == LoadReturnsFor(r, k, L1_TTL + L2_TTL)
LoadReturns(r, k) == LoadReturnsFor(r, k, L1_TTL)

\* Postgres fails, or every client waiting for the load hangs up: nothing is kept.
LoadFails(r, k) ==
    /\ load[r][k].pc # "idle"
    /\ load' = [load EXCEPT ![r][k] = Idle]
    /\ UNCHANGED <<clock, row, role, l1, l2, flood, job, retired, evicted>>

--------------------------------------------------------------------------------
(* The two gates in front of the handlers. *)

\* `require_key_layer`: the caller is the identity L1 holds.
Honours(r, k) == l1[r][k].kind = "identity"

\* `require_admin_layer`: an admin key, and its principal an admin now.
AdminHonours(r, k) == Honours(r, k) /\ l1[r][k].admin /\ role[Owner[k]] = "admin"

\* Where an operator's write runs: on a replica that honours an admin key of
\* theirs, or on the command line.
Authorised(at) == at \in Replica => \E k \in Key : AdminHonours(at, k)

--------------------------------------------------------------------------------
(* Operators' writes. *)

\* What `authenticate` returns for each key of ks changes; its status becomes to[k].
SupersedeEach(ks, to) ==
    /\ \A k \in ks : row[k].version < MaxVersion
    /\ row' = [k \in Key |-> IF k \in ks
                             THEN [row[k] EXCEPT !.status = to[k], !.version = row[k].version + 1]
                             ELSE row[k]]
    /\ retired' = [k \in Key |-> IF k \in ks THEN [retired[k] EXCEPT ![row[k].version] = clock]
                                 ELSE retired[k]]
Supersede(ks, s) == SupersedeEach(ks, [k \in Key |-> s])

Begin(a, at, stage, ks, ps) ==
    /\ job[a].stage = "none"
    /\ Authorised(at)
    /\ job' = [job EXCEPT ![a] = [stage |-> stage, at |-> at, keys |-> ks, of |-> ps]]

\* `revoke_key` on a replica: by id, whatever the row said before.
RevokeKey(a, r, k) ==
    /\ row[k].status # "none"
    /\ Begin(a, r, "l1", {k}, {})
    /\ Supersede({k}, "revoked")
    /\ UNCHANGED <<clock, role, l1, l2, load, flood, evicted>>

\* `revoke_key_by_prefix` at the command line: every active key with the prefix.
RevokeKeyByPrefix(a, ks) ==
    /\ ks # {} /\ \A k \in ks : row[k].status = "active"
    /\ Begin(a, Cli, "l2", ks, {})
    /\ Supersede(ks, "revoked")
    /\ UNCHANGED <<clock, role, l1, l2, load, flood, evicted>>

\* `set_key_quota`.
SetKeyQuota(a, r, k) ==
    /\ row[k].status # "none"
    /\ Begin(a, r, "l1", {k}, {})
    /\ Supersede({k}, row[k].status)
    /\ UNCHANGED <<clock, role, l1, l2, load, flood, evicted>>

\* `set_principal_budget`, or an `upsert_principal` that names a budget: every
\* identity of the principal carries it.  Its keys are listed and evicted next.
OwnedKeys(p) == {k \in Key : Owner[k] = p /\ row[k].status # "none"}

SetPrincipalBudget(a, at, p) ==
    /\ Begin(a, at, "list", {}, {p})
    /\ SupersedeEach(OwnedKeys(p), [k \in Key |-> row[k].status])
    /\ UNCHANGED <<clock, role, l1, l2, load, flood, evicted>>

\* An `upsert_principal` without a budget changes nothing and evicts all the same.
UpsertPrincipal(a, r, p) ==
    /\ Begin(a, r, "list", {}, {p})
    /\ UNCHANGED <<clock, row, role, l1, l2, load, flood, retired, evicted>>

\* `flush_auth_cache`: SCAN and DEL; what is written behind the cursor may be missed.
FlushAuthCache(a, ks) ==
    /\ \A k \in Key : l2[k].kind # "nothing" => k \in ks
    /\ Begin(a, Cli, IF ks = {} THEN "none" ELSE "l2", ks, {})
    /\ UNCHANGED <<clock, row, role, l1, l2, load, flood, retired, evicted>>

\* `evict_principal_keys`: the query of the hashes.
ListKeys(a) ==
    /\ job[a].stage = "list"
    /\ LET ks == UNION {OwnedKeys(p) : p \in job[a].of}
           s  == IF job[a].at = Cli THEN "l2" ELSE "l1"
       IN job' = [job EXCEPT ![a] = IF ks = {} THEN NoJob
                                    ELSE [stage |-> s, at |-> job[a].at, keys |-> ks, of |-> {}]]
    /\ UNCHANGED <<clock, row, role, l1, l2, load, flood, retired, evicted>>

\* `invalidate_hash`, first half: this replica's own entry for the first key left.
FirstOf(ks) == CHOOSE k \in ks : TRUE
InvalidateL1(a) ==
    /\ job[a].stage = "l1"
    /\ l1' = [l1 EXCEPT ![job[a].at][FirstOf(job[a].keys)] = Nothing]
    /\ job' = [job EXCEPT ![a].stage = "l2"]
    /\ UNCHANGED <<clock, row, role, l2, load, flood, retired, evicted>>

\* The job's next key, or its end.
Advance(a) ==
    LET left == job[a].keys \ {FirstOf(job[a].keys)}
        s    == IF job[a].at = Cli THEN "l2" ELSE "l1"
    IN job' = [job EXCEPT ![a] = IF left = {} THEN NoJob
                                 ELSE [stage |-> s, at |-> job[a].at, keys |-> left, of |-> {}]]

\* `auth_invalidate`: the DEL, whose failure is told from its success.  It is
\* clean when no lookup holds an older identity that it has yet to write.
AuthInvalidate(a) ==
    /\ job[a].stage = "l2"
    /\ LET k == FirstOf(job[a].keys)
       IN /\ l2' = [l2 EXCEPT ![k] = Nothing]
          /\ evicted' = [evicted EXCEPT ![k] =
                 [version |-> row[k].version, at |-> clock,
                  clean |-> \A r \in Replica : load[r][k].pc = "set" =>
                                                  load[r][k].version = row[k].version]]
    /\ Advance(a)
    /\ UNCHANGED <<clock, row, role, l1, load, flood, retired>>

\* Redis cannot be reached: a warning, and the next key.
AuthInvalidateFails(a) ==
    /\ job[a].stage = "l2"
    /\ Advance(a)
    /\ UNCHANGED <<clock, row, role, l1, l2, load, flood, retired, evicted>>

\* The operator's connection drops, or the listing fails: the rest is not evicted.
JobDropped(a) ==
    /\ job[a].stage # "none"
    /\ job' = [job EXCEPT ![a] = NoJob]
    /\ UNCHANGED <<clock, row, role, l1, l2, load, flood, retired, evicted>>

\* `mint_key`: never an admin key over HTTP; at the command line an admin key
\* needs an admin principal.
MintKey(k, at, admin) ==
    /\ row[k].status = "none"
    /\ Authorised(at)
    /\ admin => at = Cli /\ role[Owner[k]] = "admin"
    /\ row' = [row EXCEPT ![k].status = "active", ![k].admin = admin]
    /\ UNCHANGED <<clock, role, l1, l2, load, flood, job, retired, evicted>>

\* `promote_principal`.
PromotePrincipal(p) ==
    /\ role[p] # "admin"
    /\ role' = [role EXCEPT ![p] = "admin"]
    /\ UNCHANGED <<clock, row, l1, l2, load, flood, job, retired, evicted>>

\* Time passes, once no lookup has used up its time; the stores drop what ran out.
Tick ==
    /\ clock < MaxClock
    /\ \A r \in Replica, k \in Key : load[r][k].pc # "idle" => clock < load[r][k].by
    /\ clock' = clock + 1
    /\ l1' = [r \in Replica |-> [k \in Key |-> Kept(l1[r][k])]]
    /\ l2' = [k \in Key |-> Kept(l2[k])]
    /\ UNCHANGED <<row, role, load, flood, job, retired, evicted>>

--------------------------------------------------------------------------------
Lookups(r, k) ==
    \/ LoadStart(r, k)
    \/ AuthGetHit(r, k)
    \/ AuthGetMiss(r, k)
    \/ TryAcquire(r, k)
    \/ Authenticate(r, k)
    \/ AuthSet(r, k)
    \/ LoadReturns(r, k)
    \/ LoadFails(r, k)

Writes(a) ==
    \/ \E r \in Replica, k \in Key : RevokeKey(a, r, k) \/ SetKeyQuota(a, r, k)
    \/ \E ks \in SUBSET Key : RevokeKeyByPrefix(a, ks) \/ FlushAuthCache(a, ks)
    \/ \E at \in Replica \cup {Cli}, p \in Principal : SetPrincipalBudget(a, at, p)
    \/ \E r \in Replica, p \in Principal : UpsertPrincipal(a, r, p)
    \/ ListKeys(a)
    \/ InvalidateL1(a)
    \/ AuthInvalidate(a)
    \/ AuthInvalidateFails(a)
    \/ JobDropped(a)

\* An L2 entry may be left from a binary that did not sign its entries.
Init ==
    /\ clock = 0
    /\ row \in [Key -> {[status |-> s, version |-> 0, admin |-> b] :
                           s \in {"none", "active"}, b \in BOOLEAN}]
    /\ \A k \in Key : row[k].status = "active" <=> k \in Issued
    /\ \A k \in Key \ Issued : ~row[k].admin
    /\ role \in [Principal -> {"member", "admin"}]
    /\ \A k \in Key : row[k].admin => role[Owner[k]] = "admin"
    /\ l1 = [r \in Replica |-> [k \in Key |-> Nothing]]
    /\ l2 \in [Key -> {Nothing, [Nothing EXCEPT !.kind = "identity", !.until = L2_TTL]}]
    /\ load = [r \in Replica |-> [k \in Key |-> Idle]]
    /\ flood = [r \in Replica |-> 0]
    /\ job = [a \in Actor |-> NoJob]
    /\ retired = [k \in Key |-> [v \in 0..MaxVersion |-> 0]]
    /\ evicted = [k \in Key |-> [version |-> 0, at |-> 0, clean |-> TRUE]]

Next ==
    \/ \E r \in Replica, k \in Key : Lookups(r, k)
    \/ \E r \in Replica : FloodTakes(r) \/ FloodEnds(r)
    \/ \E a \in Actor : Writes(a)
    \/ \E k \in Key, at \in Replica \cup {Cli}, b \in BOOLEAN : MintKey(k, at, b)
    \/ \E p \in Principal : PromotePrincipal(p)
    \/ Tick

Spec == Init /\ [][Next]_vars

--------------------------------------------------------------------------------
\* The types of the rows, of both caches, and of lookups and writes under way.
TypeOK ==
    /\ clock \in Nat
    /\ row \in [Key -> [status : {"none", "active", "revoked"}, version : 0..MaxVersion,
                        admin : BOOLEAN]]
    /\ role \in [Principal -> {"member", "admin"}]
    /\ l1 \in [Replica -> [Key -> Entry]]
    /\ l2 \in [Key -> Entry]
    /\ load \in [Replica -> [Key -> Lookup]]
    /\ flood \in [Replica -> Nat]
    /\ job \in [Actor -> Job]
    /\ retired \in [Key -> [0..MaxVersion -> Nat]]
    /\ evicted \in [Key -> [version : 0..MaxVersion, at : Nat, clean : BOOLEAN]]

\* How long a copy can outlive the row it was read from: a lookup that read it
\* just before the write puts it into Redis, another finds it there at the
\* last moment, and L1 keeps that.
Window == LookupTime + L2_TTL + LookupTime + L1_TTL

\* A replica stops honouring what a revocation, a quota or a budget write
\* replaced within the window, whatever became of the evictions.
StaleIdentityBounded ==
    \A r \in Replica, k \in Key :
        Honours(r, k) /\ l1[r][k].version # row[k].version
            => clock < retired[k][l1[r][k].version] + Window

\* A key with an expiry outlives it by two lookups and an L1 lifetime at most:
\* `cacheable_for` keeps the five minutes of Redis out of it.
ExpiryHonoured ==
    \A r \in Replica, k \in Key :
        Honours(r, k) /\ Expires[k] # Never
            => clock < Expires[k] + LookupTime + LookupTime + L1_TTL

\* A confirmed DEL that no lookup was about to undo leaves only what L1 held
\* or was about to hold: no older identity comes back from Redis.
EvictionHolds ==
    \A r \in Replica, k \in Key :
        Honours(r, k) /\ evicted[k].clean /\ l1[r][k].version < evicted[k].version
            => clock < evicted[k].at + LookupTime + L1_TTL

\* What a replica honours is fresh: a replaced identity, an expired key and an
\* evicted copy are each honoured for their window at most.
IdentityFresh == TypeOK /\ StaleIdentityBounded /\ ExpiryHonoured /\ EvictionHolds
================================================================================
