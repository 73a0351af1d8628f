---------------------------- MODULE EdgesProofs ----------------------------
(***************************************************************************)
(* The proofs about what a request meets at the gateway's edges: the Redis *)
(* connection, the authentication cache, the route limiter, Google's       *)
(* tokens and System One; and about the usage poller beside them.          *)
(***************************************************************************)
EXTENDS Connection, AuthCache, RateLimit, GcpTokens, SystemOne, Poller, TLAPS

LEMMA AppendGrows ==
    ASSUME NEW S, NEW seq \in Seq(S), NEW e \in S
    PROVE  /\ Append(seq, e) \in Seq(S) /\ Append(seq, e) # << >>
           /\ Len(Append(seq, e)) = Len(seq) + 1 /\ Len(seq) + 1 \notin DOMAIN seq
           /\ DOMAIN Append(seq, e) = DOMAIN seq \cup {Len(seq) + 1}
           /\ Append(seq, e)[Len(seq) + 1] = e
           /\ \A i \in DOMAIN seq : Append(seq, e)[i] = seq[i]
  OBVIOUS

------------------------------------------------------------------------------
(***************************************************************************)
(* The connection to Redis heals for any number of callers and of dials    *)
(* that have not ended.  What makes it inductive: the flag says whether a  *)
(* dial is between its start and its clearing of the flag, there is at     *)
(* most one, and while it may still connect there is no connection.        *)
(***************************************************************************)

Busy == {"check", "dial", "clear"}
Pcs == {"idle", "look", "start", "parking", "waiting", "command", "drop"}

ConnTypeOK ==
    /\ conn \in Nat /\ conn_gen \in Nat
    /\ dialing \in BOOLEAN
    /\ dial \in [Dials -> Busy \cup {"off", "notify"}]
    /\ caller \in [Callers -> [pc : Pcs, used : Nat, woken : BOOLEAN]]
    /\ replaced \in BOOLEAN

FlagInv == dialing <=> \E d \in Dials : dial[d] \in Busy
OneDialInv == \A d, e \in Dials : dial[d] \in Busy /\ dial[e] \in Busy => d = e
DialInv == \A d \in Dials : dial[d] = "dial" => conn = NoConn
BlameInv == \A c \in Callers : caller[c].pc = "drop" => caller[c].used \in blamed

ConnInv ==
    /\ ConnTypeOK /\ FlagInv /\ OneDialInv /\ DialInv /\ BlameInv
    /\ OnlyTheBlamedDropped /\ NoLostWakeup

LEMMA ConnInitInv == ConnInit => ConnInv
<1> SUFFICES ASSUME ConnInit PROVE ConnInv
  OBVIOUS
<1> USE DEF ConnInit
<1>1. ConnTypeOK
  BY DEF ConnTypeOK, Rested, Asking, Busy, Pcs, NoConn
<1>2. FlagInv /\ OneDialInv /\ DialInv
  BY DEF FlagInv, OneDialInv, DialInv, Busy
<1>3. BlameInv /\ NoLostWakeup /\ OnlyTheBlamedDropped
  BY DEF BlameInv, NoLostWakeup, OnlyTheBlamedDropped, Rested, Asking
<1> QED BY <1>1, <1>2, <1>3 DEF ConnInv

(* What a caller does alone: it starts no dial and drops no connection.    *)
LEMMA CallerAlone ==
    ASSUME ConnInv, NEW c \in Callers,
           Register(c) \/ Look(c) \/ Park(c) \/ Waited(c) \/ Answered(c) \/ TimesOut(c) \/ GivesUpWaiting(c)
    PROVE  ConnInv'
<1> USE DEF ConnInv
<1>1. UNCHANGED <<conn, conn_gen, dialing, dial, dropped, replaced>>
  BY DEF Register, Look, Park, Waited, Answered, TimesOut, GivesUpWaiting
<1>2. ConnTypeOK'
  <2>1. Rested \in [pc : Pcs, used : Nat, woken : BOOLEAN]
        /\ \A u \in Nat : Asking("command", u, FALSE) \in [pc : Pcs, used : Nat, woken : BOOLEAN]
    BY DEF Rested, Asking, Pcs, NoConn
  <2>2. Asking("look", NoConn, FALSE) \in [pc : Pcs, used : Nat, woken : BOOLEAN]
    BY DEF Asking, Pcs, NoConn
  <2>3. CASE Register(c) \/ Waited(c) \/ Answered(c) \/ GivesUpWaiting(c)
    <3>1. PICK a \in [pc : Pcs, used : Nat, woken : BOOLEAN] : caller' = [caller EXCEPT ![c] = a]
      BY <2>1, <2>2, <2>3 DEF Register, Waited, Answered, GivesUpWaiting, ConnTypeOK
    <3> QED BY <1>1, <3>1 DEF ConnTypeOK
  <2>4. CASE Look(c)
    BY <1>1, <2>4 DEF Look, ConnTypeOK, Pcs
  <2>5. CASE Park(c) \/ TimesOut(c)
    BY <1>1, <2>5 DEF Park, TimesOut, CallerGoes, ConnTypeOK, Pcs
  <2> QED BY <2>3, <2>4, <2>5
<1>3. FlagInv' /\ OneDialInv' /\ DialInv'
  BY <1>1 DEF FlagInv, OneDialInv, DialInv
<1>4. BlameInv' /\ blamed \subseteq blamed'
  BY DEF Register, Look, Park, Waited, Answered, TimesOut, GivesUpWaiting, CallerGoes, CallerAt, Asking,
         Rested, ConnTypeOK, BlameInv, NoConn
<1>5. OnlyTheBlamedDropped'
  BY <1>1, <1>4 DEF OnlyTheBlamedDropped
<1>6. \A x \in Callers : caller'[x].pc \in {"parking", "waiting"} /\ ~ caller'[x].woken
                         => (caller[x].pc \in {"parking", "waiting"} /\ ~ caller[x].woken)
  BY DEF Register, Look, Park, Waited, Answered, TimesOut, GivesUpWaiting, CallerGoes, CallerAt, Asking,
         Rested, ConnTypeOK, Pcs, NoConn
<1>7. NoLostWakeup'
  BY <1>1, <1>6 DEF NoLostWakeup
<1> QED BY <1>2, <1>3, <1>4, <1>5, <1>7

(* start_dial: with the flag set somebody else's dial is under way, and    *)
(* without it this caller's is the only one.                               *)
LEMMA StartDialInv ==
    ASSUME ConnInv, NEW c \in Callers, StartDial(c) PROVE ConnInv'
<1> USE DEF ConnInv
<1>0. UNCHANGED <<conn, conn_gen, wedged, blamed, dropped, replaced>> /\ dialing' = TRUE
      /\ caller' = [caller EXCEPT ![c].pc = "parking"]
  BY DEF StartDial, CallerGoes
<1>1. caller' \in [Callers -> [pc : Pcs, used : Nat, woken : BOOLEAN]] /\ BlameInv'
  BY <1>0 DEF ConnTypeOK, BlameInv, Pcs
<1>2. PICK d \in Dials : dial'[d] \in Busy
  <2>1. CASE dialing
    BY <2>1 DEF StartDial, FlagInv
  <2>2. CASE ~dialing
    BY <2>2 DEF StartDial, ConnTypeOK, Busy
  <2> QED BY <2>1, <2>2 DEF ConnTypeOK
<1>3. dial' \in [Dials -> Busy \cup {"off", "notify"}] /\ OneDialInv' /\ DialInv'
  <2>1. CASE dialing
    BY <2>1, <1>0 DEF StartDial, ConnTypeOK, OneDialInv, DialInv
  <2>2. CASE ~dialing
    BY <2>2, <1>0 DEF StartDial, ConnTypeOK, OneDialInv, DialInv, FlagInv, Busy
  <2> QED BY <2>1, <2>2 DEF ConnTypeOK
<1>4. FlagInv'
  BY <1>0, <1>2 DEF FlagInv
<1>5. NoLostWakeup'
  BY <1>2 DEF NoLostWakeup, Busy
<1> QED BY <1>0, <1>1, <1>3, <1>4, <1>5 DEF ConnTypeOK, OnlyTheBlamedDropped

(* drop_conn: what it takes out of use is what its own command timed out   *)
(* on.                                                                     *)
LEMMA DropConnInv ==
    ASSUME ConnInv, NEW c \in Callers, DropConn(c) PROVE ConnInv'
<1> USE DEF ConnInv
<1>1. UNCHANGED <<conn_gen, dialing, dial, blamed, replaced>>
  BY DEF DropConn
<1>2. ConnTypeOK' /\ FlagInv' /\ OneDialInv' /\ DialInv' /\ BlameInv'
  BY <1>1 DEF DropConn, Rested, Asking, ConnTypeOK, FlagInv, OneDialInv, DialInv, BlameInv, Pcs, NoConn
<1>3. OnlyTheBlamedDropped'
  BY <1>1 DEF DropConn, Drops, CallerAt, BlameInv, OnlyTheBlamedDropped
<1>4. NoLostWakeup'
  BY <1>1 DEF DropConn, Rested, Asking, ConnTypeOK, NoLostWakeup
<1> QED BY <1>2, <1>3, <1>4

(* A step of a dial: it connects only where there is no connection, and it *)
(* is off only once it has told everyone registered.                       *)
LEMMA DialInvStep ==
    ASSUME ConnInv, NEW d \in Dials, DialStep(d) PROVE ConnInv'
<1> USE DEF ConnInv
<1>1. CASE DialChecks(d) \/ DialFails(d)
  <2>1. UNCHANGED <<conn, conn_gen, dialing, caller, blamed, dropped, replaced>>
    BY <1>1 DEF DialChecks, DialFails
  <2>2. /\ dial \in [Dials -> Busy \cup {"off", "notify"}]
        /\ dial[d] \in Busy /\ dial' = [dial EXCEPT ![d] = dial'[d]]
        /\ dial'[d] \in Busy /\ (dial'[d] = "dial" => conn = NoConn)
    BY <1>1 DEF DialChecks, DialFails, DialGoes, ConnTypeOK, Busy
  <2>3. ConnTypeOK' /\ FlagInv' /\ OneDialInv' /\ DialInv' /\ NoLostWakeup'
    BY <2>1, <2>2 DEF ConnTypeOK, FlagInv, OneDialInv, DialInv, NoLostWakeup, Busy
  <2> QED BY <2>1, <2>3 DEF BlameInv, OnlyTheBlamedDropped
<1>2. CASE DialSucceeds(d)
  <2>1. UNCHANGED <<dialing, caller, wedged, blamed, dropped>> /\ conn = NoConn
        /\ dial' = [dial EXCEPT ![d] = "clear"] /\ dial[d] = "dial"
    BY <1>2 DEF DialSucceeds, DialGoes, DialInv
  <2>2. ConnTypeOK' /\ replaced' = replaced
    BY <1>2, <2>1 DEF DialSucceeds, ConnTypeOK, Busy
  <2>3. FlagInv' /\ OneDialInv' /\ NoLostWakeup'
    BY <2>1 DEF ConnTypeOK, FlagInv, OneDialInv, NoLostWakeup, Busy
  <2>4. DialInv'
    BY <2>1 DEF ConnTypeOK, OneDialInv, DialInv, Busy
  <2> QED BY <2>1, <2>2, <2>3, <2>4 DEF BlameInv, OnlyTheBlamedDropped
<1>3. CASE DialClears(d)
  <2>1. UNCHANGED <<conn, conn_gen, caller, blamed, dropped, replaced>> /\ dialing' = FALSE
        /\ dial' = [dial EXCEPT ![d] = "notify"] /\ dial[d] = "clear"
    BY <1>3 DEF DialClears, DialGoes
  <2>2. ConnTypeOK' /\ FlagInv' /\ OneDialInv' /\ DialInv' /\ NoLostWakeup'
    BY <2>1 DEF ConnTypeOK, FlagInv, OneDialInv, DialInv, NoLostWakeup, Busy
  <2> QED BY <2>1, <2>2 DEF BlameInv, OnlyTheBlamedDropped
<1>4. CASE DialNotifies(d)
  <2>1. UNCHANGED <<conn, conn_gen, dialing, blamed, dropped, replaced>>
        /\ dial' = [dial EXCEPT ![d] = "off"] /\ dial[d] = "notify"
    BY <1>4 DEF DialNotifies, DialGoes
  <2>2. \A c \in Callers : /\ caller'[c].pc = caller[c].pc /\ caller'[c].used = caller[c].used
                           /\ caller[c].pc \in {"parking", "waiting"} => caller'[c].woken
    BY <1>4 DEF DialNotifies, Registered, ConnTypeOK
  <2>3. caller' \in [Callers -> [pc : Pcs, used : Nat, woken : BOOLEAN]]
    BY <1>4 DEF DialNotifies, ConnTypeOK
  <2>4. dial' \in [Dials -> Busy \cup {"off", "notify"}] /\ FlagInv' /\ OneDialInv' /\ DialInv'
    BY <2>1 DEF ConnTypeOK, FlagInv, OneDialInv, DialInv, Busy
  <2>5. BlameInv' /\ NoLostWakeup'
    BY <2>1, <2>2 DEF BlameInv, NoLostWakeup
  <2> QED BY <2>1, <2>3, <2>4, <2>5 DEF ConnTypeOK, OnlyTheBlamedDropped
<1> QED BY <1>1, <1>2, <1>3, <1>4 DEF DialStep

LEMMA ConnStepInv == ConnInv /\ [ConnNext]_connVars => ConnInv'
<1> SUFFICES ASSUME ConnInv, [ConnNext]_connVars PROVE ConnInv'
  OBVIOUS
<1>1. ASSUME NEW c \in Callers, CallerStep(c) PROVE ConnInv'
  BY <1>1, CallerAlone, StartDialInv, DropConnInv DEF CallerStep
<1>2. ASSUME NEW d \in Dials, DialStep(d) PROVE ConnInv'
  BY <1>2, DialInvStep
<1>3. CASE Wedges \/ UNCHANGED connVars
  BY <1>3 DEF Wedges, connVars, ConnInv, ConnTypeOK, FlagInv, OneDialInv, DialInv, BlameInv,
              OnlyTheBlamedDropped, NoLostWakeup
<1> QED BY <1>1, <1>2, <1>3 DEF ConnNext

(* However many callers time out on however many connections: only a       *)
(* connection a command timed out on is dropped, none in use is written    *)
(* over, and nobody waits for a dial that has ended (cache.rs drop_conn,   *)
(* conn_with_gen, start_dial).                                             *)
THEOREM ConnectionHealsAlways == ConnSpec => []ConnectionHeals
<1>1. ConnInv => ConnectionHeals BY DEF ConnInv, ConnectionHeals
<1> QED BY <1>1, ConnInitInv, ConnStepInv, PTL DEF ConnSpec

------------------------------------------------------------------------------
(***************************************************************************)
(* How long a replica may honour what a write has replaced, for any number *)
(* of replicas, keys and operators and any lifetimes.                      *)
(*                                                                         *)
(* The window is the sum of a chain: a lookup that has read the row, the   *)
(* copy it leaves in Redis, a second lookup that finds that copy, and the  *)
(* copy this one leaves in memory.  The invariant bounds each link by the  *)
(* one before it.                                                          *)
(***************************************************************************)

Superseded(k, v) == v # row[k].version

\* A copy in a replica's memory.
L1Good(k, e) == e.kind = "identity" =>
    /\ e.version <= row[k].version
    /\ clock < e.until /\ e.until <= clock + L1_TTL
    /\ Superseded(k, e.version) => e.until <= retired[k][e.version] + Window
    /\ Expires[k] # Never => e.until <= Expires[k] + LookupTime + LookupTime + L1_TTL
    /\ evicted[k].clean /\ e.version < evicted[k].version
          => e.until <= evicted[k].at + LookupTime + L1_TTL

\* A copy in Redis that will be believed.
L2Good(k, e) == e.kind = "identity" /\ e.sealed =>
    /\ e.version <= row[k].version
    /\ clock < e.until /\ e.until <= clock + L2_TTL
    /\ Superseded(k, e.version) => e.until <= retired[k][e.version] + LookupTime + L2_TTL
    /\ Expires[k] # Never => e.until <= Expires[k] + LookupTime
    /\ evicted[k].clean => evicted[k].version <= e.version

\* A lookup that has read the row and has yet to write it to Redis.
SetGood(k, d) == d.pc = "set" =>
    /\ d.kind = "identity"
    /\ 0 < d.ttl /\ d.ttl <= L2_TTL
    /\ d.version <= row[k].version
    /\ Superseded(k, d.version) => d.by <= retired[k][d.version] + LookupTime
    /\ Expires[k] # Never => d.by + d.ttl <= Expires[k] + LookupTime
    /\ evicted[k].clean => evicted[k].version <= d.version

\* A lookup about to return an identity.
InsertGood(k, d) == d.pc = "insert" /\ d.kind = "identity" =>
    /\ d.version <= row[k].version
    /\ Superseded(k, d.version) => d.by <= retired[k][d.version] + LookupTime + L2_TTL + LookupTime
    /\ Expires[k] # Never => d.by <= Expires[k] + LookupTime + LookupTime
    /\ evicted[k].clean /\ d.version < evicted[k].version => d.by <= evicted[k].at + LookupTime

LoadGood(k, d) ==
    /\ d.pc # "idle" => clock <= d.by /\ d.by <= clock + LookupTime
    /\ d.pc \in {"get", "permit", "read"} => d.kind = "unknown"
    /\ SetGood(k, d) /\ InsertGood(k, d)

AuthInv ==
    /\ TypeOK
    /\ \A k \in Key : evicted[k].version <= row[k].version /\ evicted[k].at <= clock
    /\ \A r \in Replica, k \in Key : L1Good(k, l1[r][k])
    /\ \A k \in Key : L2Good(k, l2[k])
    /\ \A r \in Replica, k \in Key : LoadGood(k, load[r][k])

--------------------------------------------------------------------------------
LEMMA Empty ==
    /\ Nothing \in Entry /\ [Nothing EXCEPT !.kind = "identity", !.until = L2_TTL] \in Entry
    /\ Idle \in Lookup /\ NoJob \in Job
<1>1. 0 \in 0..MaxVersion /\ L2_TTL \in Nat
  BY ConstantsAssumption
<1> QED BY <1>1 DEF Nothing, Entry, Idle, Lookup, NoJob, Job

LEMMA IdleGood == ASSUME NEW k PROVE LoadGood(k, Idle)
BY DEF Idle, LoadGood, SetGood, InsertGood

LEMMA AuthInitInv == Init => AuthInv
<1> SUFFICES ASSUME Init PROVE AuthInv
  OBVIOUS
<1>1. TypeOK
  <2>1. row \in [Key -> [status : {"none", "active", "revoked"}, version : 0..MaxVersion, admin : BOOLEAN]]
    BY ConstantsAssumption DEF Init
  <2>2. retired \in [Key -> [0..MaxVersion -> Nat]]
        /\ evicted \in [Key -> [version : 0..MaxVersion, at : Nat, clean : BOOLEAN]]
    BY ConstantsAssumption DEF Init
  <2>3. l1 \in [Replica -> [Key -> Entry]] /\ l2 \in [Key -> Entry] /\ load \in [Replica -> [Key -> Lookup]]
        /\ job \in [Actor -> Job]
    BY Empty DEF Init
  <2> QED BY <2>1, <2>2, <2>3 DEF Init, TypeOK
<1>2. \A k \in Key : evicted[k].version <= row[k].version /\ evicted[k].at <= clock
  BY DEF Init
<1>3. \A r \in Replica, k \in Key : L1Good(k, l1[r][k]) /\ LoadGood(k, load[r][k])
  BY IdleGood DEF Init, L1Good, Nothing
<1>4. \A k \in Key : L2Good(k, l2[k])
  <2> TAKE k \in Key
  <2>0. l2[k] \in {Nothing, [Nothing EXCEPT !.kind = "identity", !.until = L2_TTL]}
    BY DEF Init
  <2>1. l2[k].sealed = FALSE
    <3>1. Nothing.sealed = FALSE /\ [Nothing EXCEPT !.kind = "identity", !.until = L2_TTL].sealed = FALSE
      BY DEF Nothing
    <3> QED BY <2>0, <3>1
  <2> QED BY <2>1 DEF L2Good
<1> QED BY <1>1, <1>2, <1>3, <1>4 DEF AuthInv

\* `cacheable_for` never outlives the key.
LEMMA CacheableForFits ==
    ASSUME NEW k \in Key, clock \in Nat, ~Lapsed(k)
    PROVE  /\ CacheableFor(k) \in Nat /\ CacheableFor(k) <= L2_TTL
           /\ Expires[k] # Never => CacheableFor(k) <= Expires[k] - clock /\ clock < Expires[k]
BY ConstantsAssumption DEF CacheableFor, Lapsed

\* A lookup whose entry is all that changes, and changes for another good one.
LEMMA LoadReplaced ==
    ASSUME AuthInv, NEW r \in Replica, NEW k \in Key, NEW d \in Lookup,
           load' \in [Replica -> [Key -> Lookup]], LoadGood(k, d),
           \A s \in Replica, j \in Key : load'[s][j] = IF s = r /\ j = k THEN d ELSE load[s][j],
           UNCHANGED <<clock, row, role, l1, l2, flood, job, retired, evicted>>
    PROVE  AuthInv'
<1>1. TypeOK'
  BY DEF AuthInv, TypeOK
<1>2. \A s \in Replica, j \in Key : LoadGood(j, load[s][j])'
  <2> TAKE s \in Replica, j \in Key
  <2>1. LoadGood(j, load'[s][j])
    BY DEF AuthInv
  <2> QED BY <2>1 DEF LoadGood, SetGood, InsertGood, Superseded
<1>3. /\ \A j \in Key : (evicted[j].version <= row[j].version /\ evicted[j].at <= clock)'
      /\ \A s \in Replica, j \in Key : L1Good(j, l1[s][j])'
      /\ \A j \in Key : L2Good(j, l2[j])'
  BY DEF AuthInv, L1Good, L2Good, Superseded
<1> QED BY <1>1, <1>2, <1>3 DEF AuthInv

LEMMA LookupInv ==
    ASSUME AuthInv, NEW r \in Replica, NEW k \in Key, Lookups(r, k)
    PROVE  AuthInv'
<1> DEFINE d == load[r][k]
           NewLoad(e) == /\ load' \in [Replica -> [Key -> Lookup]]
                         /\ \A s \in Replica, j \in Key : load'[s][j] = IF s = r /\ j = k THEN e ELSE load[s][j]
<1>0. /\ d \in Lookup /\ clock \in Nat /\ l2[k] \in Entry /\ load[r] = [load[r] EXCEPT ![k] = d]
      /\ row[k] \in [status : {"none", "active", "revoked"}, version : 0..MaxVersion, admin : BOOLEAN]
      /\ retired[k] \in [0..MaxVersion -> Nat]
      /\ evicted[k] \in [version : 0..MaxVersion, at : Nat, clean : BOOLEAN]
      /\ evicted[k].version <= row[k].version /\ evicted[k].at <= clock
      /\ LoadGood(k, d) /\ L2Good(k, l2[k])
  BY DEF AuthInv, TypeOK
<1>c. /\ clock \in Int /\ d.by \in Int /\ d.ttl \in Int /\ l2[k].until \in Int
      /\ d.version \in 0..MaxVersion /\ l2[k].version \in 0..MaxVersion /\ row[k].version \in 0..MaxVersion
      /\ \A v \in 0..MaxVersion : retired[k][v] \in Int /\ v \in Int
      /\ evicted[k].version \in Int /\ evicted[k].at \in Int
  <2>1. MaxVersion \in Nat
    BY ConstantsAssumption
  <2>2. d.by \in Int /\ d.ttl \in Int /\ d.version \in 0..MaxVersion
    BY <1>0 DEF Lookup
  <2>3. l2[k].until \in Int /\ l2[k].version \in 0..MaxVersion
    BY <1>0 DEF Entry
  <2>4. \A v \in 0..MaxVersion : retired[k][v] \in Int /\ v \in Int
    BY <1>0, <2>1
  <2>5. clock \in Int /\ row[k].version \in 0..MaxVersion /\ evicted[k].version \in Int /\ evicted[k].at \in Int
    BY <1>0, <2>1
  <2> QED BY <2>2, <2>3, <2>4, <2>5
<1>a. LookupTime \in Nat /\ L1_TTL \in Nat \ {0} /\ L2_TTL \in Nat \ {0}
  BY ConstantsAssumption
<1>b. Expires[k] # Never => Expires[k] \in Nat
  BY ConstantsAssumption
<1>1. CASE LoadStart(r, k)
  <2> DEFINE e == [Idle EXCEPT !.pc = "get", !.by = clock + LookupTime]
  <2>1. e \in Lookup /\ LoadGood(k, e)
    <3>0. clock + LookupTime \in Nat /\ "get" \in {"idle", "get", "permit", "read", "set", "insert"}
      BY <1>0, <1>a
    <3>1. e \in Lookup
      BY <3>0, Empty DEF Lookup
    <3>2. e.pc = "get" /\ e.kind = "unknown" /\ e.by = clock + LookupTime
      BY DEF Idle
    <3> HIDE DEF e
    <3> QED BY <1>a, <1>c, <3>1, <3>2 DEF LoadGood, SetGood, InsertGood
  <2>2. NewLoad(e)
    BY <1>1, <2>1 DEF LoadStart, AuthInv, TypeOK
  <2> QED BY <1>1, <2>1, <2>2, LoadReplaced DEF LoadStart
<1>2. CASE AuthGetHit(r, k)
  <2> DEFINE e == [d EXCEPT !.pc = "insert", !.kind = "identity", !.version = l2[k].version, !.admin = l2[k].admin]
  <2>1. e \in Lookup /\ e.pc = "insert" /\ e.kind = "identity" /\ e.version = l2[k].version /\ e.by = d.by
    BY <1>0 DEF Lookup, Entry
  <2>2. LoadGood(k, e)
    <3> HIDE DEF e, d
    <3>1. clock <= d.by /\ d.by <= clock + LookupTime /\ L2Good(k, l2[k]) /\ l2[k].kind = "identity" /\ l2[k].sealed
      BY <1>0, <1>2 DEF AuthGetHit, LoadGood, d
    <3> QED BY <1>a, <1>b, <1>c, <2>1, <3>1 DEF LoadGood, SetGood, InsertGood, L2Good, Superseded
  <2>3. NewLoad(e)
    BY <1>2, <2>1 DEF AuthGetHit, AuthInv, TypeOK
  <2> QED BY <1>2, <2>1, <2>2, <2>3, LoadReplaced DEF AuthGetHit
<1>3. CASE AuthGetMiss(r, k)
  <2> DEFINE e == [d EXCEPT !.pc = "permit"]
  <2>1. e \in Lookup /\ LoadGood(k, e)
    BY <1>0, <1>3 DEF AuthGetMiss, Lookup, LoadGood, SetGood, InsertGood
  <2>2. NewLoad(e)
    BY <1>3, <2>1 DEF AuthGetMiss, AuthInv, TypeOK
  <2> QED BY <1>3, <2>1, <2>2, LoadReplaced DEF AuthGetMiss
<1>4. CASE TryAcquire(r, k)
  <2> DEFINE e == IF PermitsTaken(r) < LookupPermits THEN [d EXCEPT !.pc = "read"] ELSE Idle
  <2>1. e \in Lookup /\ LoadGood(k, e)
    <3>1. LET w == [d EXCEPT !.pc = "read"] IN w \in Lookup /\ LoadGood(k, w)
      BY <1>0, <1>4 DEF TryAcquire, Lookup, LoadGood, SetGood, InsertGood
    <3> QED BY <3>1, Empty, IdleGood
  <2>2. NewLoad(e)
    BY <1>4, <2>1 DEF TryAcquire, AuthInv, TypeOK
  <2> QED BY <1>4, <2>1, <2>2, LoadReplaced DEF TryAcquire
<1>5. CASE Authenticate(r, k)
  <2>1. CASE row[k].status = "active" /\ ~Lapsed(k)
    <3> DEFINE e == [d EXCEPT !.kind = "identity", !.version = row[k].version, !.admin = row[k].admin,
                              !.ttl = CacheableFor(k), !.pc = IF CacheableFor(k) > 0 THEN "set" ELSE "insert"]
    <3>1. /\ CacheableFor(k) \in Nat /\ CacheableFor(k) <= L2_TTL
          /\ Expires[k] # Never => CacheableFor(k) <= Expires[k] - clock /\ clock < Expires[k]
      BY <2>1, <1>0, CacheableForFits
    <3>2. /\ e \in Lookup /\ e.kind = "identity" /\ e.version = row[k].version /\ e.by = d.by
          /\ e.ttl = CacheableFor(k) /\ e.pc = IF CacheableFor(k) > 0 THEN "set" ELSE "insert"
      BY <1>0, <3>1 DEF Lookup
    <3>3. LoadGood(k, e)
      <4> HIDE DEF e
      <4>1. clock <= d.by /\ d.by <= clock + LookupTime
        BY <1>0, <1>5 DEF Authenticate, LoadGood
      <4>2. evicted[k].version <= row[k].version
        BY <1>0
      <4> HIDE DEF d
      <4> QED BY <1>a, <1>b, <1>c, <3>1, <3>2, <4>1, <4>2 DEF LoadGood, SetGood, InsertGood, Superseded
    <3>4. load' = [load EXCEPT ![r][k] = e] /\ UNCHANGED <<clock, row, role, l1, l2, flood, job, retired, evicted>>
      BY <1>5, <2>1 DEF Authenticate
    <3>5. NewLoad(e)
      <4> HIDE DEF e, d
      <4> QED BY <3>2, <3>4 DEF AuthInv, TypeOK
    <3> HIDE DEF e
    <3> QED BY <3>2, <3>3, <3>4, <3>5, LoadReplaced
  <2>2. CASE ~(row[k].status = "active" /\ ~Lapsed(k))
    <3> DEFINE e == [d EXCEPT !.pc = "insert"]
    <3>1. e \in Lookup /\ LoadGood(k, e)
      BY <1>0, <1>5 DEF Authenticate, Lookup, LoadGood, SetGood, InsertGood
    <3>2. load' = [load EXCEPT ![r][k] = e] /\ UNCHANGED <<clock, row, role, l1, l2, flood, job, retired, evicted>>
      BY <1>5, <2>2 DEF Authenticate, AuthInv, TypeOK
    <3>3. NewLoad(e)
      <4> HIDE DEF e
      <4> QED BY <3>1, <3>2 DEF AuthInv, TypeOK
    <3> HIDE DEF e
    <3> QED BY <3>1, <3>2, <3>3, LoadReplaced
  <2> QED BY <2>1, <2>2
<1>6. CASE AuthSet(r, k)
  <2> DEFINE e == [d EXCEPT !.pc = "insert"]
  <2>1. e \in Lookup /\ e.pc = "insert" /\ e.kind = d.kind /\ e.version = d.version /\ e.by = d.by
    BY <1>0 DEF Lookup
  <2>a. clock <= d.by /\ d.by <= clock + LookupTime /\ SetGood(k, d) /\ d.pc = "set"
    BY <1>0, <1>6 DEF AuthSet, LoadGood
  <2>2. LoadGood(k, e)
    <3> HIDE DEF e, d
    <3> QED BY <1>a, <1>b, <1>c, <2>1, <2>a DEF LoadGood, SetGood, InsertGood, Superseded
  <2>3. NewLoad(e) /\ UNCHANGED <<clock, row, role, l1, flood, job, retired, evicted>>
    BY <1>6, <2>1 DEF AuthSet, AuthInv, TypeOK
  <2>4. CASE UNCHANGED l2
    BY <2>1, <2>2, <2>3, <2>4, LoadReplaced
  <2>5. CASE l2' # l2
    <3> DEFINE f == [kind |-> "identity", version |-> d.version, admin |-> d.admin,
                     until |-> clock + d.ttl, sealed |-> TRUE]
    <3>0. f \in Entry
      BY <1>0 DEF Lookup, Entry
    <3>1. f \in Entry /\ L2Good(k, f)
      <4> HIDE DEF d
      <4> QED BY <3>0, <1>a, <1>b, <1>c, <2>a DEF SetGood, L2Good, Superseded
    <3>2. l2' = [l2 EXCEPT ![k] = f]
      BY <1>6, <2>5 DEF AuthSet
    <3>3. TypeOK'
      BY <2>1, <2>3, <3>1, <3>2 DEF AuthInv, TypeOK
    <3>4. \A j \in Key : L2Good(j, l2[j])'
      BY <2>3, <3>1, <3>2 DEF AuthInv, TypeOK, L2Good, Superseded
    <3>5. \A s \in Replica, j \in Key : LoadGood(j, load[s][j])'
      <4> TAKE s \in Replica, j \in Key
      <4>1. LoadGood(j, load'[s][j])
        <5> HIDE DEF e
        <5> QED BY <2>2, <2>3 DEF AuthInv
      <4> QED BY <2>3, <4>1 DEF LoadGood, SetGood, InsertGood, Superseded
    <3>6. /\ \A j \in Key : (evicted[j].version <= row[j].version /\ evicted[j].at <= clock)'
          /\ \A s \in Replica, j \in Key : L1Good(j, l1[s][j])'
      BY <2>3 DEF AuthInv, L1Good, Superseded
    <3> QED BY <3>3, <3>4, <3>5, <3>6 DEF AuthInv
  <2> QED BY <2>4, <2>5
<1>7. CASE LoadReturns(r, k)
  <2> DEFINE f == [kind |-> d.kind, version |-> d.version, admin |-> d.admin, until |-> clock + L1_TTL, sealed |-> TRUE]
  <2>1. /\ load' = [load EXCEPT ![r][k] = Idle] /\ l1' = [l1 EXCEPT ![r][k] = f] /\ d.pc = "insert"
        /\ UNCHANGED <<clock, row, role, l2, flood, job, retired, evicted>>
    BY <1>7 DEF LoadReturns, LoadReturnsFor
  <2>2. f \in Entry
    BY <1>0, <1>a DEF Lookup, Entry
  <2>3. L1Good(k, f)
    <3>1. clock <= d.by /\ InsertGood(k, d) /\ d.pc = "insert"
      BY <1>0, <2>1 DEF LoadGood
    <3> HIDE DEF d
    <3> QED BY <1>a, <1>b, <1>c, <3>1 DEF InsertGood, L1Good, Superseded, Window
  <2>4. Idle \in Lookup /\ LoadGood(k, Idle)
    BY Empty, IdleGood
  <2>5. TypeOK'
    BY <2>1, <2>2, <2>4 DEF AuthInv, TypeOK
  <2>6. \A s \in Replica, j \in Key : LoadGood(j, load[s][j])'
    BY <2>1, <2>4 DEF AuthInv, TypeOK, LoadGood, SetGood, InsertGood, Superseded
  <2>7. \A s \in Replica, j \in Key : L1Good(j, l1[s][j])'
    BY <2>1, <2>3 DEF AuthInv, TypeOK, L1Good, Superseded
  <2>8. /\ \A j \in Key : (evicted[j].version <= row[j].version /\ evicted[j].at <= clock)'
        /\ \A j \in Key : L2Good(j, l2[j])'
    BY <2>1 DEF AuthInv, L2Good, Superseded
  <2> QED BY <2>5, <2>6, <2>7, <2>8 DEF AuthInv
<1>8. CASE LoadFails(r, k)
  <2>1. NewLoad(Idle)
    BY <1>8, Empty DEF LoadFails, AuthInv, TypeOK
  <2> QED BY <1>8, <2>1, Empty, IdleGood, LoadReplaced DEF LoadFails
<1> QED BY <1>1, <1>2, <1>3, <1>4, <1>5, <1>6, <1>7, <1>8 DEF Lookups

--------------------------------------------------------------------------------
\* The types of an operator's write, wherever it is.
LEMMA BeginTyped ==
    ASSUME TypeOK, NEW a \in Actor, NEW at \in Replica \cup {Cli}, NEW stage \in {"none", "list", "l1", "l2"},
           NEW ks \in SUBSET Key, NEW ps \in SUBSET Principal, Begin(a, at, stage, ks, ps)
    PROVE  job' \in [Actor -> Job]
BY DEF TypeOK, Begin, Job

LEMMA AdvanceTyped ==
    ASSUME TypeOK, NEW a \in Actor, Advance(a) PROVE job' \in [Actor -> Job]
<1> DEFINE left == job[a].keys \ {FirstOf(job[a].keys)}
           s == IF job[a].at = Cli THEN "l2" ELSE "l1"
           b == [stage |-> s, at |-> job[a].at, keys |-> left, of |-> {}]
<1>1. b \in Job
  BY DEF TypeOK, Job
<1>2. job' = [job EXCEPT ![a] = IF left = {} THEN NoJob ELSE b]
  BY DEF Advance
<1> QED BY <1>1, <1>2, Empty DEF TypeOK

\* A step that leaves the rows, the caches and the lookups alone.
LEMMA AsideInv ==
    ASSUME AuthInv, TypeOK', UNCHANGED <<clock, row, l1, l2, load, retired, evicted>> PROVE AuthInv'
BY DEF AuthInv, L1Good, L2Good, LoadGood, SetGood, InsertGood, Superseded

\* The write itself: every copy of the identity it replaces is as old as it may
\* be, and the window starts.
LEMMA SupersedeInv ==
    ASSUME AuthInv, NEW ks \in SUBSET Key, NEW to, \A k \in ks : to[k] \in {"none", "active", "revoked"},
           SupersedeEach(ks, to), job' \in [Actor -> Job],
           UNCHANGED <<clock, role, l1, l2, load, flood, evicted>>
    PROVE  AuthInv'
<1>a. LookupTime \in Nat /\ L1_TTL \in Nat \ {0} /\ L2_TTL \in Nat \ {0} /\ MaxVersion \in Nat
  BY ConstantsAssumption
<1>1. /\ \A k \in ks : row[k].version < MaxVersion
      /\ row' = [k \in Key |-> IF k \in ks
                               THEN [row[k] EXCEPT !.status = to[k], !.version = row[k].version + 1]
                               ELSE row[k]]
      /\ retired' = [k \in Key |-> IF k \in ks THEN [retired[k] EXCEPT ![row[k].version] = clock] ELSE retired[k]]
  BY DEF SupersedeEach
<1>2. row' \in [Key -> [status : {"none", "active", "revoked"}, version : 0..MaxVersion, admin : BOOLEAN]]
  <2> SUFFICES ASSUME NEW k \in Key
               PROVE  row'[k] \in [status : {"none", "active", "revoked"}, version : 0..MaxVersion, admin : BOOLEAN]
    BY <1>1
  <2>1. row[k] \in [status : {"none", "active", "revoked"}, version : 0..MaxVersion, admin : BOOLEAN]
    BY DEF AuthInv, TypeOK
  <2>2. CASE k \in ks
    <3>0. row[k].version \in 0..MaxVersion /\ row[k].version < MaxVersion
      BY <1>1, <2>1, <2>2
    <3>1. row[k].version + 1 \in 0..MaxVersion
      BY <1>a, <3>0
    <3> QED BY <1>1, <2>1, <2>2, <3>1
  <2> QED BY <1>1, <2>1, <2>2
<1>3. retired' \in [Key -> [0..MaxVersion -> Nat]]
  BY <1>1 DEF AuthInv, TypeOK
<1>4. TypeOK'
  BY <1>2, <1>3 DEF AuthInv, TypeOK
<1>5. ASSUME NEW k \in Key
      PROVE  /\ (evicted[k].version <= row[k].version /\ evicted[k].at <= clock)'
             /\ \A r \in Replica : L1Good(k, l1[r][k])' /\ LoadGood(k, load[r][k])'
             /\ L2Good(k, l2[k])'
  <2>1. CASE k \notin ks
    <3>1. row'[k] = row[k] /\ retired'[k] = retired[k]
      BY <1>1, <2>1
    <3> QED BY <3>1 DEF AuthInv, L1Good, L2Good, LoadGood, SetGood, InsertGood, Superseded
  <2>2. CASE k \in ks
    <3>1. /\ row[k].version \in Int /\ row'[k].version = row[k].version + 1
          /\ clock \in Int /\ retired'[k][row[k].version] = clock
          /\ \A v \in 0..MaxVersion : /\ v \in Int /\ retired[k][v] \in Int
                                      /\ v # row[k].version => retired'[k][v] = retired[k][v]
      <4>1. /\ clock \in Nat /\ row[k].version \in 0..MaxVersion /\ retired[k] \in [0..MaxVersion -> Nat]
            /\ row[k] \in [status : {"none", "active", "revoked"}, version : 0..MaxVersion, admin : BOOLEAN]
        BY DEF AuthInv, TypeOK
      <4>2. retired'[k] = [retired[k] EXCEPT ![row[k].version] = clock]
        BY <1>1, <2>2
      <4>3. row'[k] = [row[k] EXCEPT !.status = to[k], !.version = row[k].version + 1]
        BY <1>1, <2>2
      <4>4. row'[k].version = row[k].version + 1
        BY <4>1, <4>3
      <4>5. \A v \in 0..MaxVersion : v \in Int
        BY <1>a
      <4>6. retired'[k][row[k].version] = clock
        BY <4>1, <4>2
      <4>7. \A v \in 0..MaxVersion : retired[k][v] \in Int
        <5>1. \A v \in 0..MaxVersion : retired[k][v] \in Nat
          BY <4>1, Zenon
        <5> QED BY <5>1, <1>a
      <4>8. \A v \in 0..MaxVersion : v # row[k].version => retired'[k][v] = retired[k][v]
        BY <4>1, <4>2
      <4> QED BY <1>a, <4>1, <4>4, <4>5, <4>6, <4>7, <4>8
    <3>2. evicted[k].version \in Int /\ evicted[k].at \in Int
          /\ evicted[k].version <= row[k].version /\ evicted[k].at <= clock
      BY <1>a DEF AuthInv, TypeOK
    <3>3. ASSUME NEW r \in Replica PROVE L1Good(k, l1[r][k])'
      <4>1. l1[r][k].version \in 0..MaxVersion /\ l1[r][k].until \in Int /\ L1Good(k, l1[r][k])
        BY DEF AuthInv, TypeOK, Entry
      <4> QED BY <1>a, <3>1, <3>2, <4>1 DEF L1Good, Superseded, Window
    <3>4. L2Good(k, l2[k])'
      <4>1. l2[k].version \in 0..MaxVersion /\ l2[k].until \in Int /\ L2Good(k, l2[k])
        BY DEF AuthInv, TypeOK, Entry
      <4> QED BY <1>a, <3>1, <3>2, <4>1 DEF L2Good, Superseded
    <3>5. ASSUME NEW r \in Replica PROVE LoadGood(k, load[r][k])'
      <4>1. /\ load[r][k].version \in 0..MaxVersion /\ load[r][k].by \in Int /\ load[r][k].ttl \in Int
            /\ LoadGood(k, load[r][k])
        BY DEF AuthInv, TypeOK, Lookup
      <4>2. SetGood(k, load[r][k])'
        BY <1>a, <3>1, <3>2, <4>1 DEF LoadGood, SetGood, Superseded
      <4>3. InsertGood(k, load[r][k])'
        BY <1>a, <3>1, <3>2, <4>1 DEF LoadGood, InsertGood, Superseded
      <4> QED BY <4>1, <4>2, <4>3 DEF LoadGood
    <3> QED BY <3>1, <3>2, <3>3, <3>4, <3>5
  <2> QED BY <2>1, <2>2
<1> QED BY <1>4, <1>5 DEF AuthInv

\* Emptying one's own memory.
LEMMA InvalidateL1Inv ==
    ASSUME AuthInv, NEW a \in Actor, InvalidateL1(a) PROVE AuthInv'
<1>1. /\ UNCHANGED <<clock, row, role, l2, load, flood, retired, evicted>>
      /\ job' \in [Actor -> Job]
      /\ l1' \in [Replica -> [Key -> Entry]]
      /\ \A r \in Replica, k \in Key : l1'[r][k] = l1[r][k] \/ l1'[r][k] = Nothing
  BY Empty DEF InvalidateL1, AuthInv, TypeOK, Job
<1>2. TypeOK'
  BY <1>1 DEF AuthInv, TypeOK
<1>3. \A r \in Replica, k \in Key : L1Good(k, l1[r][k])'
  BY <1>1 DEF AuthInv, L1Good, Superseded, Nothing
<1>4. /\ \A k \in Key : (evicted[k].version <= row[k].version /\ evicted[k].at <= clock)'
      /\ \A k \in Key : L2Good(k, l2[k])'
      /\ \A r \in Replica, k \in Key : LoadGood(k, load[r][k])'
  BY <1>1 DEF AuthInv, L2Good, LoadGood, SetGood, InsertGood, Superseded
<1> QED BY <1>2, <1>3, <1>4 DEF AuthInv

\* A confirmed DEL: what is left of an older identity is in a memory, or about to be.
LEMMA AuthInvalidateInv ==
    ASSUME AuthInv, NEW a \in Actor, AuthInvalidate(a) PROVE AuthInv'
<1> DEFINE x == FirstOf(job[a].keys)
           clean == \A r \in Replica : load[r][x].pc = "set" => load[r][x].version = row[x].version
<1>a. LookupTime \in Nat /\ L1_TTL \in Nat \ {0} /\ L2_TTL \in Nat \ {0} /\ MaxVersion \in Nat
  BY ConstantsAssumption
<1>1. /\ UNCHANGED <<clock, row, role, l1, load, flood, retired>>
      /\ l2' = [l2 EXCEPT ![x] = Nothing]
      /\ evicted' = [evicted EXCEPT ![x] = [version |-> row[x].version, at |-> clock, clean |-> clean]]
  BY DEF AuthInvalidate
<1>2. job' \in [Actor -> Job]
  BY AdvanceTyped DEF AuthInvalidate, AuthInv
<1>3. l2' \in [Key -> Entry] /\ \A k \in Key : l2'[k] = IF k = x THEN Nothing ELSE l2[k]
  BY <1>1, Empty DEF AuthInv, TypeOK
<1>4. /\ evicted' \in [Key -> [version : 0..MaxVersion, at : Nat, clean : BOOLEAN]]
      /\ \A k \in Key : k # x => evicted'[k] = evicted[k]
      /\ x \in Key => /\ evicted'[x].version = row[x].version /\ evicted'[x].at = clock
                      /\ evicted'[x].clean = clean
  <2>1. clean \in BOOLEAN
    OBVIOUS
  <2> HIDE DEF clean
  <2>2. x \in Key => row[x].version \in 0..MaxVersion
    BY DEF AuthInv, TypeOK
  <2> HIDE DEF x
  <2> QED BY <1>1, <2>1, <2>2 DEF AuthInv, TypeOK
<1>5. TypeOK'
  BY <1>1, <1>2, <1>3, <1>4 DEF AuthInv, TypeOK
<1>6. ASSUME NEW k \in Key
      PROVE  /\ (evicted[k].version <= row[k].version /\ evicted[k].at <= clock)'
             /\ \A r \in Replica : L1Good(k, l1[r][k])' /\ LoadGood(k, load[r][k])'
             /\ L2Good(k, l2[k])'
  <2>1. CASE k # x
    <3>1. evicted'[k] = evicted[k] /\ l2'[k] = l2[k]
      BY <1>3, <1>4, <2>1
    <3>2. UNCHANGED <<clock, row, l1, load, retired>>
      BY <1>1
    <3> HIDE DEF x
    <3> QED BY <3>1, <3>2 DEF AuthInv, L1Good, L2Good, LoadGood, SetGood, InsertGood, Superseded
  <2>2. CASE k = x
    <3>1. /\ row[k].version \in Int /\ clock \in Int
          /\ evicted'[k].version = row[k].version /\ evicted'[k].at = clock
          /\ evicted'[k].clean => \A r \in Replica : load[r][k].pc = "set" => load[r][k].version = row[k].version
      <4>1. row[k].version \in Int /\ clock \in Int
        BY <1>a DEF AuthInv, TypeOK
      <4>2. evicted'[k].version = row[k].version /\ evicted'[k].at = clock /\ evicted'[k].clean = clean
        BY <1>4, <2>2
      <4> QED BY <4>1, <4>2, <2>2
    <3>2. L2Good(k, l2[k])'
      BY <1>3, <2>2 DEF L2Good, Nothing
    <3>3. ASSUME NEW r \in Replica PROVE L1Good(k, l1[r][k])'
      <4>1. l1[r][k].until \in Int /\ L1Good(k, l1[r][k])
        BY DEF AuthInv, TypeOK, Entry
      <4> QED BY <1>a, <1>1, <3>1, <4>1 DEF L1Good, Superseded
    <3>4. ASSUME NEW r \in Replica PROVE LoadGood(k, load[r][k])'
      <4>1. load[r][k].by \in Int /\ LoadGood(k, load[r][k])
        BY DEF AuthInv, TypeOK, Lookup
      <4> QED BY <1>a, <1>1, <3>1, <4>1 DEF LoadGood, SetGood, InsertGood, Superseded
    <3> QED BY <1>1, <3>1, <3>2, <3>3, <3>4
  <2> QED BY <2>1, <2>2
<1> QED BY <1>5, <1>6 DEF AuthInv

LEMMA MintKeyInv ==
    ASSUME AuthInv, NEW k \in Key, NEW at, NEW admin \in BOOLEAN, MintKey(k, at, admin) PROVE AuthInv'
<1>1. /\ UNCHANGED <<clock, role, l1, l2, load, flood, job, retired, evicted>>
      /\ row' \in [Key -> [status : {"none", "active", "revoked"}, version : 0..MaxVersion, admin : BOOLEAN]]
      /\ \A j \in Key : row'[j].version = row[j].version
  BY DEF MintKey, AuthInv, TypeOK
<1>2. TypeOK'
  BY <1>1 DEF AuthInv, TypeOK
<1> QED BY <1>1, <1>2 DEF AuthInv, L1Good, L2Good, LoadGood, SetGood, InsertGood, Superseded

\* A moment passes: what ran out is gone, and no lookup is over its time.
LEMMA TickInv == ASSUME AuthInv, Tick PROVE AuthInv'
<1>a. LookupTime \in Nat /\ L1_TTL \in Nat \ {0} /\ L2_TTL \in Nat \ {0} /\ MaxVersion \in Nat
  BY ConstantsAssumption
<1>1. /\ clock' = clock + 1 /\ UNCHANGED <<row, role, load, flood, job, retired, evicted>>
      /\ l1' = [r \in Replica |-> [k \in Key |-> Kept(l1[r][k])]] /\ l2' = [k \in Key |-> Kept(l2[k])]
      /\ \A r \in Replica, k \in Key : load[r][k].pc # "idle" => clock < load[r][k].by
  BY DEF Tick
<1>2. ASSUME NEW e \in Entry
      PROVE Kept(e) \in Entry /\ (Kept(e) = Nothing \/ (Kept(e) = e /\ clock + 1 < e.until))
  BY Empty DEF Kept
<1>3. TypeOK'
  BY <1>1, <1>2 DEF AuthInv, TypeOK
<1>4. ASSUME NEW r \in Replica, NEW k \in Key PROVE L1Good(k, l1[r][k])'
  <2>1. l1[r][k] \in Entry /\ l1[r][k].until \in Int /\ L1Good(k, l1[r][k]) /\ clock \in Int
    BY DEF AuthInv, TypeOK, Entry
  <2>2. l1'[r][k] = Nothing \/ (l1'[r][k] = l1[r][k] /\ clock + 1 < l1[r][k].until)
    BY <1>1, <1>2, <2>1
  <2>3. CASE l1'[r][k] = Nothing
    BY <2>3 DEF L1Good, Nothing
  <2>4. CASE l1'[r][k] = l1[r][k] /\ clock + 1 < l1[r][k].until
    BY <1>a, <1>1, <2>1, <2>4 DEF L1Good, Superseded
  <2> QED BY <2>2, <2>3, <2>4
<1>5. ASSUME NEW k \in Key PROVE L2Good(k, l2[k])'
  <2>1. l2[k] \in Entry /\ l2[k].until \in Int /\ L2Good(k, l2[k]) /\ clock \in Int
    BY DEF AuthInv, TypeOK, Entry
  <2>2. l2'[k] = Nothing \/ (l2'[k] = l2[k] /\ clock + 1 < l2[k].until)
    BY <1>1, <1>2, <2>1
  <2>3. CASE l2'[k] = Nothing
    BY <2>3 DEF L2Good, Nothing
  <2>4. CASE l2'[k] = l2[k] /\ clock + 1 < l2[k].until
    BY <1>a, <1>1, <2>1, <2>4 DEF L2Good, Superseded
  <2> QED BY <2>2, <2>3, <2>4
<1>6. ASSUME NEW r \in Replica, NEW k \in Key PROVE LoadGood(k, load[r][k])'
  <2>1. load[r][k].by \in Int /\ LoadGood(k, load[r][k]) /\ clock \in Int
    BY DEF AuthInv, TypeOK, Lookup
  <2> QED BY <1>a, <1>1, <2>1 DEF LoadGood, SetGood, InsertGood, Superseded
<1>7. \A k \in Key : (evicted[k].version <= row[k].version /\ evicted[k].at <= clock)'
  BY <1>1 DEF AuthInv, TypeOK
<1> QED BY <1>3, <1>4, <1>5, <1>6, <1>7 DEF AuthInv

LEMMA WriteInv ==
    ASSUME AuthInv, NEW a \in Actor, Writes(a) PROVE AuthInv'
<1> USE DEF AuthInv
<1>0. \A k \in Key : row[k].status \in {"none", "active", "revoked"}
  BY DEF TypeOK
<1>1. ASSUME NEW r \in Replica, NEW k \in Key, RevokeKey(a, r, k) \/ SetKeyQuota(a, r, k) PROVE AuthInv'
  <2>1. job' \in [Actor -> Job]
    BY <1>1, BeginTyped DEF RevokeKey, SetKeyQuota
  <2>2. CASE RevokeKey(a, r, k)
    <3> DEFINE to == [j \in Key |-> "revoked"]
    <3>1. SupersedeEach({k}, to) /\ \A j \in {k} : to[j] \in {"none", "active", "revoked"}
      BY <2>2 DEF RevokeKey, Supersede
    <3> HIDE DEF to
    <3> QED BY <2>1, <2>2, <3>1, SupersedeInv DEF RevokeKey
  <2>3. CASE SetKeyQuota(a, r, k)
    <3> DEFINE to == [j \in Key |-> row[k].status]
    <3>1. SupersedeEach({k}, to) /\ \A j \in {k} : to[j] \in {"none", "active", "revoked"}
      BY <1>0, <2>3 DEF SetKeyQuota, Supersede
    <3> HIDE DEF to
    <3> QED BY <2>1, <2>3, <3>1, SupersedeInv DEF SetKeyQuota
  <2> QED BY <1>1, <2>2, <2>3
<1>2. ASSUME NEW ks \in SUBSET Key, RevokeKeyByPrefix(a, ks) PROVE AuthInv'
  <2>1. job' \in [Actor -> Job]
    <3>1. Begin(a, Cli, "l2", ks, {}) /\ TypeOK
      BY <1>2 DEF RevokeKeyByPrefix
    <3> QED BY <3>1, BeginTyped
  <2> DEFINE to == [j \in Key |-> "revoked"]
  <2>2. SupersedeEach(ks, to) /\ \A j \in ks : to[j] \in {"none", "active", "revoked"}
    BY <1>2 DEF RevokeKeyByPrefix, Supersede
  <2> HIDE DEF to
  <2> QED BY <1>2, <2>1, <2>2, SupersedeInv DEF RevokeKeyByPrefix
<1>3. ASSUME NEW ks \in SUBSET Key, FlushAuthCache(a, ks) PROVE AuthInv'
  <2>1. job' \in [Actor -> Job]
    BY <1>3, BeginTyped DEF FlushAuthCache
  <2> QED BY <1>3, <2>1, AsideInv DEF FlushAuthCache, TypeOK
<1>4. ASSUME NEW at \in Replica \cup {Cli}, NEW p \in Principal, SetPrincipalBudget(a, at, p) PROVE AuthInv'
  <2>1. job' \in [Actor -> Job]
    <3>1. Begin(a, at, "list", {}, {p}) /\ TypeOK /\ {p} \in SUBSET Principal /\ {} \in SUBSET Key
      BY <1>4 DEF SetPrincipalBudget
    <3> QED BY <3>1, BeginTyped
  <2> DEFINE to == [j \in Key |-> row[j].status]
  <2>2. OwnedKeys(p) \in SUBSET Key
    BY DEF OwnedKeys
  <2>3. SupersedeEach(OwnedKeys(p), to) /\ \A j \in OwnedKeys(p) : to[j] \in {"none", "active", "revoked"}
    BY <1>0, <1>4, <2>2 DEF SetPrincipalBudget
  <2> HIDE DEF to
  <2> QED BY <1>4, <2>1, <2>2, <2>3, SupersedeInv DEF SetPrincipalBudget
<1>5. ASSUME NEW r \in Replica, NEW p \in Principal, UpsertPrincipal(a, r, p) PROVE AuthInv'
  <2>1. job' \in [Actor -> Job]
    BY <1>5, BeginTyped DEF UpsertPrincipal
  <2> QED BY <1>5, <2>1, AsideInv DEF UpsertPrincipal, TypeOK
<1>6. CASE ListKeys(a)
  <2> DEFINE ks == UNION {OwnedKeys(p) : p \in job[a].of}
             b == [stage |-> IF job[a].at = Cli THEN "l2" ELSE "l1", at |-> job[a].at, keys |-> ks, of |-> {}]
  <2>1. ks \subseteq Key
    BY DEF OwnedKeys
  <2>2. b \in Job
    <3> HIDE DEF ks
    <3> QED BY <2>1 DEF TypeOK, Job
  <2>3. job' = [job EXCEPT ![a] = IF ks = {} THEN NoJob ELSE b]
    BY <1>6 DEF ListKeys
  <2>4. job' \in [Actor -> Job]
    <3> HIDE DEF b, ks
    <3> QED BY <2>2, <2>3, Empty DEF TypeOK
  <2> QED BY <1>6, <2>4, AsideInv DEF ListKeys, TypeOK
<1>7. CASE InvalidateL1(a)
  BY <1>7, InvalidateL1Inv
<1>8. CASE AuthInvalidate(a)
  BY <1>8, AuthInvalidateInv
<1>9. CASE AuthInvalidateFails(a)
  <2>1. job' \in [Actor -> Job]
    BY <1>9, AdvanceTyped DEF AuthInvalidateFails
  <2> QED BY <1>9, <2>1, AsideInv DEF AuthInvalidateFails, TypeOK
<1>10. CASE JobDropped(a)
  <2>1. job' \in [Actor -> Job]
    BY <1>10, Empty DEF JobDropped, TypeOK
  <2> QED BY <1>10, <2>1, AsideInv DEF JobDropped, TypeOK
<1> QED BY <1>1, <1>2, <1>3, <1>4, <1>5, <1>6, <1>7, <1>8, <1>9, <1>10 DEF Writes

LEMMA AuthStepInv == AuthInv /\ [Next]_vars => AuthInv'
<1> SUFFICES ASSUME AuthInv, [Next]_vars PROVE AuthInv'
  OBVIOUS
<1>1. ASSUME NEW r \in Replica, NEW k \in Key, Lookups(r, k) PROVE AuthInv'
  BY <1>1, LookupInv
<1>2. ASSUME NEW r \in Replica, FloodTakes(r) \/ FloodEnds(r) PROVE AuthInv'
  <2>1. flood' \in [Replica -> Nat]
    <3>0. flood \in [Replica -> Nat]
      BY DEF AuthInv, TypeOK
    <3>1. CASE FloodTakes(r)
      BY <3>0, <3>1 DEF FloodTakes
    <3>2. CASE FloodEnds(r)
      BY <3>0, <3>2 DEF FloodEnds
    <3> QED BY <1>2, <3>1, <3>2
  <2> QED BY <1>2, <2>1, AsideInv DEF FloodTakes, FloodEnds, AuthInv, TypeOK
<1>3. ASSUME NEW a \in Actor, Writes(a) PROVE AuthInv'
  BY <1>3, WriteInv
<1>4. ASSUME NEW k \in Key, NEW at \in Replica \cup {Cli}, NEW b \in BOOLEAN, MintKey(k, at, b) PROVE AuthInv'
  BY <1>4, MintKeyInv
<1>5. ASSUME NEW p \in Principal, PromotePrincipal(p) PROVE AuthInv'
  BY <1>5, AsideInv DEF PromotePrincipal, AuthInv, TypeOK
<1>6. CASE Tick
  BY <1>6, TickInv
<1>7. CASE UNCHANGED vars
  BY <1>7, AsideInv DEF vars, AuthInv, TypeOK
<1> QED BY <1>1, <1>2, <1>3, <1>4, <1>5, <1>6, <1>7 DEF Next

\* What the bounds on the copies say of what is honoured.
LEMMA GoodIsFresh == AuthInv => IdentityFresh
<1> SUFFICES ASSUME AuthInv PROVE IdentityFresh
  OBVIOUS
<1>1. ASSUME NEW r \in Replica, NEW k \in Key, Honours(r, k)
      PROVE  /\ l1[r][k].version # row[k].version => clock < retired[k][l1[r][k].version] + Window
             /\ Expires[k] # Never => clock < Expires[k] + LookupTime + LookupTime + L1_TTL
             /\ evicted[k].clean /\ l1[r][k].version < evicted[k].version
                    => clock < evicted[k].at + LookupTime + L1_TTL
  <2>1. /\ clock \in Int /\ l1[r][k].until \in Int /\ retired[k][l1[r][k].version] \in Int
        /\ evicted[k].at \in Int
    <3>1. clock \in Nat /\ l1[r][k] \in Entry /\ retired[k] \in [0..MaxVersion -> Nat] /\ evicted[k].at \in Nat
      BY DEF AuthInv, TypeOK
    <3>2. l1[r][k].version \in 0..MaxVersion /\ l1[r][k].until \in Nat
      BY <3>1 DEF Entry
    <3>3. retired[k][l1[r][k].version] \in Nat
      BY <3>1, <3>2, Zenon
    <3> QED BY <3>1, <3>2, <3>3
  <2>2. LookupTime \in Int /\ L1_TTL \in Int /\ L2_TTL \in Int /\ (Expires[k] # Never => Expires[k] \in Int)
    BY ConstantsAssumption
  <2>3. L1Good(k, l1[r][k]) /\ l1[r][k].kind = "identity"
    BY <1>1 DEF AuthInv, Honours
  <2> QED BY <2>1, <2>2, <2>3 DEF L1Good, Superseded, Window
<1> QED BY <1>1 DEF AuthInv, IdentityFresh, StaleIdentityBounded, ExpiryHonoured, EvictionHolds

\* For any replicas, keys, operators and lifetimes: a replaced identity is gone
\* within Window whatever became of the evictions, an expired key within two
\* lookups and an L1 lifetime, and after a confirmed DEL that no lookup was
\* about to undo within one of each (auth.rs, cache.rs auth_get and auth_set).
THEOREM IdentityStaysFresh == Spec => []IdentityFresh
BY AuthInitInv, AuthStepInv, GoodIsFresh, PTL DEF Spec

------------------------------------------------------------------------------
(***************************************************************************)
(* The route limiter.  What was taken since any request, and what could be *)
(* taken now, come to no more than one allowance and what the time since   *)
(* then refilled; a bucket expires only when it is full again; and what a  *)
(* refused caller lacks is what the wait it was told refills.              *)
(***************************************************************************)
Buckets == [tokens : Int, ts : Nat]
BucketOK ==
    \/ bucket = NoBucket
    \/ /\ bucket \in Buckets /\ bucket.ts <= second /\ second - bucket.ts <= Minute
       /\ 0 <= bucket.tokens /\ bucket.tokens <= Burst
RateTypeOK == second \in Nat /\ told \in Int /\ taken \in Seq(Nat) /\ BucketOK
(* The requests from the i-th to the j-th, and so many tokens beside, are  *)
(* covered by an allowance and a time.                                     *)
Cost(i, j) == (j - i + 1) * OneToken
Refilled(time) == time * Rpm
Covered(i, j, tokens, time) == Cost(i, j) + tokens <= Burst + Refilled(time)
SpentInv ==
    \A i \in DOMAIN taken : taken[i] <= second /\ Covered(i, Len(taken), Available, second - taken[i])
PairsInv == \A i, j \in DOMAIN taken : i <= j => Covered(i, j, 0, taken[j] - taken[i])
ToldInv ==
    told # Nobody => IF second < told THEN Available + (told - second) * Rpm >= OneToken ELSE Available >= OneToken
RateInv == RateTypeOK /\ SpentInv /\ PairsInv /\ ToldInv

LEMMA BurstFacts == Burst \in Nat /\ OneToken \in Nat /\ 1 <= OneToken /\ OneToken <= Burst
<1>1. \A r, m \in Nat \ {0} : r * m \in Nat /\ m <= r * m
  OBVIOUS
<1> QED BY <1>1, RateAssumption DEF Burst, OneToken

LEMMA RefillFacts ==
    ASSUME NEW tokens \in Int, NEW elapsed \in Nat, 0 <= tokens, tokens <= Burst
    PROVE  /\ elapsed * Rpm \in Nat /\ Refill(tokens, elapsed) \in Int
           /\ 0 <= Refill(tokens, elapsed) /\ Refill(tokens, elapsed) <= Burst
           /\ Refill(tokens, 0) = tokens
           /\ Refill(tokens, elapsed + 1) <= Refill(tokens, elapsed) + Rpm
           /\ Refill(tokens, elapsed) <= Refill(tokens, elapsed + 1)
           /\ Refill(tokens, elapsed + 1) = Burst \/ Refill(tokens, elapsed + 1) = Refill(tokens, elapsed) + Rpm
           /\ elapsed >= Minute => Refill(tokens, elapsed) = Burst
<1>1. elapsed * Rpm \in Nat /\ (elapsed + 1) * Rpm = elapsed * Rpm + Rpm /\ 0 * Rpm = 0
  BY RateAssumption
<1>2. elapsed >= Minute => elapsed * Rpm >= Burst
  <2>1. \A e, m, r \in Nat : e >= m => e * r >= r * m
    <3> SUFFICES ASSUME NEW e \in Nat, NEW m \in Nat, NEW r \in Nat, e >= m PROVE e * r >= r * m
      OBVIOUS
    <3>1. e * r = (e - m) * r + r * m /\ (e - m) * r >= 0
      OBVIOUS
    <3> QED BY <3>1
  <2> QED BY <2>1, RateAssumption DEF Burst, OneToken
<1> DEFINE p == elapsed * Rpm
           q == (elapsed + 1) * Rpm
<1>3. p \in Nat /\ q = p + Rpm /\ q \in Nat /\ Rpm \in Nat /\ Burst \in Nat /\ (elapsed >= Minute => p >= Burst)
  BY <1>1, <1>2, BurstFacts, RateAssumption
<1>4. /\ Refill(tokens, elapsed) = IF tokens + p > Burst THEN Burst ELSE tokens + p
      /\ Refill(tokens, elapsed + 1) = IF tokens + q > Burst THEN Burst ELSE tokens + q
      /\ Refill(tokens, 0) = tokens
  BY <1>1, BurstFacts DEF Refill
<1> HIDE DEF p, q
<1>5. /\ Refill(tokens, elapsed) \in Int
      /\ 0 <= Refill(tokens, elapsed) /\ Refill(tokens, elapsed) <= Burst
      /\ Refill(tokens, 0) = tokens
      /\ Refill(tokens, elapsed + 1) <= Refill(tokens, elapsed) + Rpm
      /\ Refill(tokens, elapsed) <= Refill(tokens, elapsed + 1)
      /\ Refill(tokens, elapsed + 1) = Burst \/ Refill(tokens, elapsed + 1) = Refill(tokens, elapsed) + Rpm
      /\ elapsed >= Minute => Refill(tokens, elapsed) = Burst
  BY <1>3, <1>4
<1> QED BY <1>1, <1>5

LEMMA AvailableFacts ==
    ASSUME RateTypeOK PROVE Available \in Int /\ 0 <= Available /\ Available <= Burst
<1>1. CASE bucket = NoBucket
  BY <1>1, BurstFacts DEF Available
<1>2. CASE bucket # NoBucket
  <2>1. bucket.tokens \in Int /\ second - bucket.ts \in Nat /\ 0 <= bucket.tokens /\ bucket.tokens <= Burst
    BY <1>2 DEF RateTypeOK, BucketOK, Buckets
  <2> QED BY <1>2, <2>1, RefillFacts DEF Available
<1> QED BY <1>1, <1>2

(* wait_from_redis: waiting so long refills what is missing.               *)
LEMMA WaitFacts ==
    ASSUME NEW n \in Nat, NEW d \in Nat \ {0} PROVE Ceil(n, d) \in Nat /\ Ceil(n, d) * d >= n
<1> DEFINE q == (n + d - 1) \div d
<1>1. q \in Int /\ n + d - 1 = d * q + ((n + d - 1) % d) /\ (n + d - 1) % d \in 0..(d - 1)
  OBVIOUS
<1>2. q \in Nat
  OBVIOUS
<1> HIDE DEF q
<1>3. q * d >= n
  BY <1>1, <1>2
<1> QED BY <1>2, <1>3 DEF Ceil, q

(* Writing the bucket, with no more in it than there was.                  *)
LEMMA StampFacts ==
    ASSUME RateTypeOK, NEW tokens \in Int, 0 <= tokens, tokens <= Burst, bucket' = Stamp(tokens), second' = second
    PROVE  /\ bucket' \in Buckets /\ bucket'.ts <= second' /\ second' - bucket'.ts <= Minute
           /\ 0 <= bucket'.tokens /\ bucket'.tokens <= Burst
           /\ bucket' # NoBucket /\ Available' = tokens
<1>1. bucket' \in Buckets /\ bucket'.ts = second /\ bucket'.tokens = tokens /\ second \in Nat
  BY DEF Stamp, Buckets, RateTypeOK
<1>2. bucket' # NoBucket
  BY <1>1 DEF NoBucket
<1>3. second' - bucket'.ts = 0
  BY <1>1
<1>4. Available' = Refill(tokens, 0)
  BY <1>1, <1>2, <1>3 DEF Available
<1> QED BY <1>1, <1>2, <1>4, RefillFacts, RateAssumption

LEMMA RateInitInv == RateInit => RateInv
<1> SUFFICES ASSUME RateInit PROVE RateInv
  OBVIOUS
<1>1. second \in Nat /\ told = Nobody /\ taken = << >> /\ bucket = NoBucket /\ Nobody \in Int
  BY DEF RateInit, Nobody
<1>2. taken \in Seq(Nat) /\ DOMAIN taken = {}
  BY <1>1
<1> QED BY <1>1, <1>2 DEF RateInv, RateTypeOK, BucketOK, SpentInv, PairsInv, ToldInv

LEMMA RateTake == ASSUME RateInv, TakeToken PROVE RateInv'
<1> DEFINE A == Available
           n == Len(taken)
<1>0. /\ second \in Nat /\ taken \in Seq(Nat) /\ n \in Nat /\ DOMAIN taken = 1..n /\ A \in Int /\ A <= Burst
      /\ A >= OneToken /\ second' = second /\ bucket' = Stamp(A - OneToken) /\ told' = Nobody
      /\ taken' = Append(taken, second)
      /\ Burst \in Nat /\ OneToken \in Nat
  BY AvailableFacts, BurstFacts DEF RateInv, RateTypeOK, TakeToken
<1>1. /\ taken' \in Seq(Nat) /\ Len(taken') = n + 1 /\ DOMAIN taken' = DOMAIN taken \cup {n + 1}
      /\ taken'[n + 1] = second /\ \A i \in DOMAIN taken : taken'[i] = taken[i]
  BY <1>0, AppendGrows
<1>2. Available' = A - OneToken
      /\ (bucket' \in Buckets /\ bucket'.ts <= second' /\ second' - bucket'.ts <= Minute
          /\ 0 <= bucket'.tokens /\ bucket'.tokens <= Burst)
  <2>1. A - OneToken \in Int /\ 0 <= A - OneToken /\ A - OneToken <= Burst
    BY <1>0
  <2>2. bucket' = Stamp(A - OneToken) /\ second' = second /\ RateTypeOK
    BY <1>0 DEF RateInv
  <2> HIDE DEF A
  <2> QED BY <2>1, <2>2, StampFacts
<1>3. \A i \in 1..n : taken[i] \in Nat /\ taken[i] <= second /\ Covered(i, n, A, second - taken[i])
  <2>1. \A i \in DOMAIN taken : taken[i] <= second /\ Covered(i, n, A, second - taken[i])
    BY DEF RateInv, SpentInv
  <2>2. \A i \in 1..n : taken[i] \in Nat
    BY ONLY <1>0
  <2> QED BY ONLY <1>0, <2>1, <2>2
<1> HIDE DEF A, n
<1>4. ASSUME NEW i \in 1..n
      PROVE  Covered(i, n + 1, A - OneToken, second - taken[i]) /\ Covered(i, n + 1, 0, second - taken[i])
  <2>1. n \in Nat /\ i \in Nat /\ OneToken \in Nat /\ second \in Nat /\ taken[i] \in Nat /\ Rpm \in Nat
    BY <1>0, <1>3, RateAssumption
  <2>2. Cost(i, n) \in Int /\ Refilled(second - taken[i]) \in Int /\ Cost(i, n + 1) = Cost(i, n) + OneToken
    BY ONLY <2>1 DEF Cost, Refilled
  <2>3. Cost(i, n) + A <= Burst + Refilled(second - taken[i])
    BY <1>3 DEF Covered
  <2> QED BY <1>0, <2>2, <2>3 DEF Covered
<1>5. Covered(n + 1, n + 1, A - OneToken, 0) /\ Covered(n + 1, n + 1, 0, 0)
  <2>1. Cost(n + 1, n + 1) = OneToken /\ Refilled(0) = 0
    BY <1>0, RateAssumption DEF Cost, Refilled
  <2> QED BY <1>0, <2>1 DEF Covered
<1>6. second - second = 0 /\ n + 1 \notin 1..n
  BY <1>0
<1>7. SpentInv'
  <2> SUFFICES ASSUME NEW i \in DOMAIN taken'
               PROVE  taken'[i] <= second' /\ Covered(i, Len(taken'), Available', second' - taken'[i])
    BY DEF SpentInv, Covered, Cost, Refilled, OneToken, Burst
  <2>1. CASE i \in 1..n
    BY <1>0, <1>1, <1>2, <1>3, <1>4, <2>1
  <2>2. CASE i = n + 1
    BY <1>0, <1>1, <1>2, <1>5, <1>6, <2>2
  <2> QED BY <1>0, <1>1, <2>1, <2>2
<1>8. PairsInv'
  <2> SUFFICES ASSUME NEW i \in DOMAIN taken', NEW j \in DOMAIN taken', i <= j
               PROVE  Covered(i, j, 0, taken'[j] - taken'[i])
    BY DEF PairsInv, Covered, Cost, Refilled, OneToken, Burst
  <2>1. CASE j \in 1..n
    <3>1. i \in 1..n
      BY <1>0, <1>1, <2>1
    <3> QED BY <1>0, <1>1, <2>1, <3>1 DEF RateInv, PairsInv
  <2>2. CASE j = n + 1 /\ i \in 1..n
    BY <1>0, <1>1, <1>4, <2>2
  <2>3. CASE j = n + 1 /\ i = n + 1
    BY <1>0, <1>1, <1>5, <1>6, <2>3
  <2> QED BY <1>0, <1>1, <2>1, <2>2, <2>3
<1> QED BY <1>0, <1>1, <1>2, <1>7, <1>8 DEF RateInv, RateTypeOK, BucketOK, ToldInv, Nobody

LEMMA RateRefused == ASSUME RateInv, Refused PROVE RateInv'
<1> DEFINE A == Available
<1>0. /\ second \in Nat /\ taken \in Seq(Nat) /\ A \in Int /\ 0 <= A /\ A <= Burst
      /\ A < OneToken /\ second' = second /\ bucket' = Stamp(A) /\ told' = second + Wait
      /\ taken' = taken /\ Burst \in Nat /\ OneToken \in Nat /\ RateTypeOK
  BY AvailableFacts, BurstFacts DEF RateInv, RateTypeOK, Refused
<1> HIDE DEF A
<1>1. Available' = A
      /\ (bucket' \in Buckets /\ bucket'.ts <= second' /\ second' - bucket'.ts <= Minute
          /\ 0 <= bucket'.tokens /\ bucket'.tokens <= Burst)
  BY <1>0, StampFacts
<1>2. Wait \in Nat /\ Wait * Rpm >= OneToken - A
  <2>1. OneToken - A \in Nat
    BY <1>0
  <2> QED BY <2>1, WaitFacts, RateAssumption DEF Wait, A
<1> DEFINE w == Wait * Rpm
<1>3. told' \in Int /\ told' - second' = Wait /\ w \in Int
  BY <1>0, <1>2, RateAssumption
<1>4. ToldInv'
  <2>1. CASE second' < told'
    BY <1>0, <1>1, <1>2, <1>3, <2>1 DEF ToldInv, OneToken
  <2>2. CASE ~ second' < told'
    <3>1. Wait = 0
      BY <1>0, <1>2, <1>3, <2>2
    <3>2. w = 0
      BY <3>1, RateAssumption
    <3> QED BY <1>0, <1>2, <3>2
  <2> QED BY <2>1, <2>2
<1>5. SpentInv' /\ PairsInv'
  BY <1>0, <1>1 DEF RateInv, SpentInv, PairsInv, Covered, Cost, Refilled, OneToken, Burst, A
<1> QED BY <1>0, <1>1, <1>3, <1>4, <1>5 DEF RateInv, RateTypeOK, BucketOK

(* A second more: what there is to take grows by no more than a second's   *)
(* refill, and by just that unless the bucket is full.                     *)
LEMMA RateSecond == ASSUME RateInv, SecondPasses PROVE RateInv'
<1> DEFINE A == Available
           B == Available'
<1>0. /\ second \in Nat /\ taken \in Seq(Nat) /\ A \in Int /\ 0 <= A /\ A <= Burst /\ told \in Int
      /\ second' = second + 1 /\ UNCHANGED <<taken, told>> /\ Burst \in Nat /\ OneToken \in Nat /\ OneToken <= Burst
      /\ Rpm \in Nat /\ Minute \in Nat /\ RateTypeOK
  BY AvailableFacts, BurstFacts, RateAssumption DEF RateInv, RateTypeOK, SecondPasses
<1>1. /\ RateTypeOK'
      /\ B \in Int /\ B <= A + Rpm /\ A <= B /\ (B = Burst \/ B = A + Rpm)
  <2>1. CASE bucket = NoBucket
    <3>1. bucket' = NoBucket
      BY <2>1 DEF SecondPasses
    <3>2. A = Burst /\ B = Burst
      BY <2>1, <3>1 DEF Available, Burst, OneToken
    <3> HIDE DEF A, B
    <3>3. RateTypeOK'
      BY <1>0, <3>1 DEF RateTypeOK, BucketOK
    <3> QED BY <1>0, <3>2, <3>3
  <2>2. CASE bucket # NoBucket
    <3> DEFINE e == second - bucket.ts
    <3>1. bucket \in Buckets /\ e \in Nat /\ e <= Minute /\ bucket.tokens \in Int /\ 0 <= bucket.tokens /\ bucket.tokens <= Burst
      BY <1>0, <2>2 DEF RateTypeOK, BucketOK, Buckets
    <3>2. A = Refill(bucket.tokens, e) /\ second' - bucket.ts = e + 1
      BY <1>0, <2>2, <3>1 DEF Available, Buckets
    <3>3. CASE second' - bucket.ts >= ExpiresAfter
      <4>1. bucket' = NoBucket
        BY <2>2, <3>3 DEF SecondPasses
      <4>2. B = Burst
        BY <4>1 DEF Available, Burst, OneToken
      <4>3. e >= Minute
        BY <1>0, <3>1, <3>2, <3>3 DEF ExpiresAfter
      <4> HIDE DEF e, B
      <4>4. A = Burst
        BY <3>1, <3>2, <4>3, RefillFacts
      <4> HIDE DEF A
      <4>5. RateTypeOK'
        BY <1>0, <4>1 DEF RateTypeOK, BucketOK
      <4> QED BY <1>0, <4>2, <4>4, <4>5
    <3>4. CASE ~ (second' - bucket.ts >= ExpiresAfter)
      <4>1. bucket' = bucket
        BY <2>2, <3>4 DEF SecondPasses
      <4>2. B = Refill(bucket.tokens, e + 1)
        BY <2>2, <3>2, <4>1 DEF Available, Refill, Burst, OneToken
      <4>3. e + 1 <= Minute
        BY <1>0, <3>1, <3>2, <3>4 DEF ExpiresAfter
      <4>4. RateTypeOK'
        BY <1>0, <3>1, <3>2, <4>1, <4>3 DEF RateTypeOK, BucketOK, Buckets, Burst, OneToken
      <4>5. e + 1 \in Nat
        BY <3>1
      <4> HIDE DEF e, A, B
      <4>6. B \in Int /\ B <= A + Rpm /\ A <= B /\ (B = Burst \/ B = A + Rpm)
        BY <3>1, <3>2, <4>2, <4>5, RefillFacts
      <4> QED BY <4>4, <4>6
    <3> QED BY <3>3, <3>4
  <2> QED BY <2>1, <2>2
<1>2. SpentInv'
  <2> HIDE DEF A, B
  <2>1. \A i \in DOMAIN taken : taken[i] <= second + 1 /\ Covered(i, Len(taken), B, second + 1 - taken[i])
    <3> SUFFICES ASSUME NEW i \in DOMAIN taken
                 PROVE  taken[i] <= second + 1 /\ Covered(i, Len(taken), B, second + 1 - taken[i])
      OBVIOUS
    <3> DEFINE x == Cost(i, Len(taken))
               y == Refilled(second - taken[i])
               z == Refilled(second + 1 - taken[i])
    <3>1. taken[i] \in Nat /\ taken[i] <= second /\ x + A <= Burst + y
      BY <1>0 DEF RateInv, SpentInv, Covered, A
    <3>2. x \in Int /\ y \in Int /\ z = y + Rpm
      <4>1. Len(taken) \in Nat /\ i \in Nat /\ OneToken \in Nat /\ second \in Nat /\ taken[i] \in Nat /\ Rpm \in Nat
        <5>1. taken \in Seq(Nat)
          BY <1>0
        <5>2. Len(taken) \in Nat /\ i \in Nat
          BY ONLY <5>1
        <5> QED BY <1>0, <3>1, <5>2
      <4> QED BY ONLY <4>1 DEF Cost, Refilled
    <3>3. x + B <= Burst + z
      BY <1>0, <1>1, <3>1, <3>2
    <3> QED BY <1>0, <3>1, <3>3 DEF Covered
  <2>2. taken' = taken /\ second' = second + 1
    BY <1>0
  <2>3. \A i \in DOMAIN taken' : taken'[i] <= second' /\ Covered(i, Len(taken'), B, second' - taken'[i])
    <3> SUFFICES ASSUME NEW i \in DOMAIN taken'
                 PROVE  taken'[i] <= second' /\ Covered(i, Len(taken'), B, second' - taken'[i])
      OBVIOUS
    <3>1. i \in DOMAIN taken /\ Len(taken') = Len(taken) /\ taken'[i] = taken[i]
      BY <2>2
    <3>2. taken[i] <= second + 1 /\ Covered(i, Len(taken), B, second + 1 - taken[i])
      BY <2>1, <3>1
    <3>3. second \in Nat /\ taken[i] \in Nat
      BY <1>0, <3>1
    <3>4. second' - taken'[i] = second + 1 - taken[i]
      BY ONLY <2>2, <3>1, <3>3
    <3>5. Covered(i, Len(taken'), B, second' - taken'[i])
      BY ONLY <3>1, <3>2, <3>4
    <3> QED BY ONLY <2>2, <3>1, <3>2, <3>3, <3>5
  <2> QED BY <2>3 DEF SpentInv, Covered, Cost, Refilled, OneToken, Burst, B
<1>3. ToldInv'
  <2> SUFFICES ASSUME told # Nobody
               PROVE  IF second + 1 < told THEN B + (told - (second + 1)) * Rpm >= OneToken ELSE B >= OneToken
    BY <1>0 DEF ToldInv, OneToken
  <2>1. CASE second < told
    <3> DEFINE y == (told - second) * Rpm
               z == (told - (second + 1)) * Rpm
    <3>1. A + y >= OneToken
      BY <2>1 DEF RateInv, ToldInv
    <3>2. y \in Int /\ z \in Nat /\ y = z + Rpm /\ (told = second + 1 => z = 0)
      <4>1. told - second \in Nat /\ told - (second + 1) \in Nat
        BY <1>0, <2>1
      <4>2. y = z + Rpm
        BY <1>0
      <4> QED BY <1>0, <4>1, <4>2
    <3> HIDE DEF y, z, A, B
    <3>3. B + z >= OneToken /\ (told = second + 1 => B >= OneToken)
      BY <1>0, <1>1, <3>1, <3>2
    <3> QED BY <1>0, <2>1, <3>3 DEF z
  <2>2. CASE ~ second < told
    <3>1. A >= OneToken /\ ~ second + 1 < told
      BY <1>0, <2>2 DEF RateInv, ToldInv
    <3> HIDE DEF A, B
    <3> QED BY <1>0, <1>1, <3>1
  <2> QED BY <2>1, <2>2
<1>4. PairsInv'
  BY <1>0 DEF RateInv, PairsInv
<1> QED BY <1>1, <1>2, <1>3, <1>4 DEF RateInv

LEMMA RateStepInv == RateInv /\ [RateNext]_rateVars => RateInv'
<1> SUFFICES ASSUME RateInv, [RateNext]_rateVars PROVE RateInv'
  OBVIOUS
<1>1. CASE RedisRestarts
  <2>1. second' = second /\ second \in Nat /\ told' = Nobody /\ taken' = << >> /\ bucket' = NoBucket /\ Nobody \in Int
    BY <1>1 DEF RedisRestarts, Nobody, RateInv, RateTypeOK
  <2>2. taken' \in Seq(Nat) /\ DOMAIN taken' = {}
    BY <2>1
  <2> QED BY <2>1, <2>2 DEF RateInv, RateTypeOK, BucketOK, SpentInv, PairsInv, ToldInv
<1>2. CASE UNCHANGED rateVars
  BY <1>2 DEF rateVars, RateInv, RateTypeOK, BucketOK, SpentInv, PairsInv, ToldInv, Available
<1> QED BY <1>1, <1>2, RateTake, RateRefused, RateSecond DEF RateNext, FailsOpen

(* For every limit: a route is admitted no more than its allowance and     *)
(* what time refills between any two of its requests, and a caller that    *)
(* waits as long as it was told finds a token (cache.rs TAKE_TOKEN,        *)
(* rate_and_burst, wait_from_redis).                                       *)
THEOREM RateAllowance == RateSpec => []AllowanceHeld
<1>1. RateInv => AllowanceHeld
  <2> SUFFICES ASSUME RateInv PROVE AllowanceHeld
    OBVIOUS
  <2>1. told # Nobody /\ second >= told => Available >= OneToken
    BY DEF RateInv, RateTypeOK, ToldInv
  <2>2. \A i, j \in DOMAIN taken : i <= j => (j - i + 1) * OneToken <= Burst + (taken[j] - taken[i]) * Rpm
    <3> SUFFICES ASSUME NEW i \in DOMAIN taken, NEW j \in DOMAIN taken, i <= j
                 PROVE  (j - i + 1) * OneToken <= Burst + (taken[j] - taken[i]) * Rpm
      OBVIOUS
    <3>1. Cost(i, j) + 0 <= Burst + Refilled(taken[j] - taken[i])
      BY DEF RateInv, PairsInv, Covered
    <3>2. Cost(i, j) \in Int
      <4>1. taken \in Seq(Nat)
        BY DEF RateInv, RateTypeOK
      <4>2. i \in Nat /\ j \in Nat
        BY ONLY <4>1
      <4> QED BY <4>2, BurstFacts DEF Cost
    <3>3. Cost(i, j) <= Burst + Refilled(taken[j] - taken[i])
      BY ONLY <3>1, <3>2
    <3> QED BY <3>3 DEF Cost, Refilled
  <2> QED BY <2>1, <2>2 DEF AllowanceHeld
<1> QED BY RateInitInv, RateStepInv, <1>1, PTL DEF RateSpec

------------------------------------------------------------------------------
(***************************************************************************)
(* Google access tokens.  The lock is held by whoever mints, and by nobody *)
(* else: so the failure remembered when a mint began is still the last one *)
(* when it ends.  The slot never promises more of a token than Google      *)
(* does, and a token that was refused leaves the slot with the caller that *)
(* was refused it.                                                         *)
(***************************************************************************)
AskerPcs == {"idle", "queued", "minting", "given", "told", "forget"}
AskerStates == [pc : AskerPcs, now : Nat, token : Nat]

GcpTypeOK ==
    /\ mintClock \in Nat
    /\ slot \in [minted : Nat, expires_at : Int, failed_at : Int]
    /\ holder \in Askers \cup {Free}
    /\ asker \in [Askers -> AskerStates]
    /\ issued \in Seq(Int) /\ began \in Seq(Int)

MintsAlone == \A a \in Askers : AskerAt(a, "minting") <=> holder = a
MintsInTime ==
    \A a \in Askers : AskerAt(a, "minting") => asker[a].now <= mintClock /\ mintClock <= asker[a].now + MintTimeout
SlotHonest == slot.minted # NoToken => slot.minted \in DOMAIN issued /\ slot.expires_at <= issued[slot.minted]
TokensKnown ==
    /\ \A a \in Askers : asker[a].pc \in {"given", "forget"} => asker[a].token \in DOMAIN issued
    /\ refused \subseteq DOMAIN issued
RefusedLeaves ==
    /\ \A a \in Askers : AskerAt(a, "forget") => asker[a].token \in refused
    /\ slot.minted # NoToken /\ slot.minted \in refused
          => \E a \in Askers : AskerAt(a, "forget") /\ asker[a].token = slot.minted
FailureKept ==
    /\ began # << >> => began[Len(began)] = slot.failed_at
    /\ \A a \in Askers : AskerAt(a, "minting") => asker[a].now >= slot.failed_at + FailureTtl
GivenAlive ==
    \A a \in Askers : AskerAt(a, "given") => issued[asker[a].token] > asker[a].now + LastResort - MintTimeout

GcpInv ==
    /\ GcpTypeOK /\ MintsAlone /\ MintsInTime /\ SlotHonest /\ TokensKnown /\ RefusedLeaves
    /\ FailureKept /\ GivenAlive /\ wasted = {} /\ FailuresSpaced

(* What appending to a sequence does to it.                                *)

LEMMA GcpInitInv == GcpInit => GcpInv
<1> SUFFICES ASSUME GcpInit PROVE GcpInv
  OBVIOUS
<1> USE GcpAssumption DEF GcpInit, Asker, AskerAt, EmptySlot, NoToken, NeverMinted, Free
<1>1. GcpTypeOK
  BY DEF GcpTypeOK, AskerStates, AskerPcs
<1>2. MintsAlone /\ MintsInTime /\ SlotHonest
  BY DEF MintsAlone, MintsInTime, SlotHonest
<1>3. TokensKnown /\ RefusedLeaves /\ FailureKept /\ GivenAlive /\ FailuresSpaced
  BY DEF TokensKnown, RefusedLeaves, FailureKept, GivenAlive, FailuresSpaced
<1> QED BY <1>1, <1>2, <1>3 DEF GcpInv

(* What a caller may do without the slot, the mints or the clock changing: *)
(* it queues, is told, gives up or uses what it was given.                 *)
LEMMA AskerMoves ==
    ASSUME GcpInv, NEW a \in Askers, NEW s \in AskerStates, AskerGoes(a, s),
           UNCHANGED <<mintClock, slot, issued, refused, began, wasted>>,
           asker[a].pc \in {"idle", "queued", "minting", "given", "told"},
           \/ s.pc \in {"idle", "queued", "told"} /\ holder' = IF holder = a THEN Free ELSE holder
           \/ /\ s.pc = "given" /\ asker[a].pc = "queued" /\ holder' = holder
              /\ s.token \in DOMAIN issued /\ issued[s.token] > s.now + LastResort - MintTimeout
           \/ /\ s.pc = "minting" /\ holder = Free /\ holder' = a
              /\ s.now = mintClock /\ s.now >= slot.failed_at + FailureTtl
    PROVE  GcpInv'
<1> USE GcpAssumption DEF GcpInv, AskerGoes, AskerAt
<1>0. \A x \in Askers : asker'[x] = IF x = a THEN s ELSE asker[x]
  BY DEF GcpTypeOK
<1>1. GcpTypeOK' /\ Free \notin Askers
  BY DEF GcpTypeOK, Free
<1>2. MintsAlone'
  BY <1>0, <1>1 DEF MintsAlone
<1>3. MintsInTime' /\ FailureKept'
  <2>1. mintClock \in Nat /\ s.now \in Nat /\ (s.pc = "minting" => s.now <= mintClock /\ mintClock <= s.now + MintTimeout)
    BY DEF GcpTypeOK, AskerStates
  <2> QED BY <1>0, <2>1 DEF MintsInTime, FailureKept
<1>4. SlotHonest' /\ TokensKnown' /\ GivenAlive'
  BY <1>0 DEF SlotHonest, TokensKnown, GivenAlive
<1>5. RefusedLeaves'
  BY <1>0 DEF RefusedLeaves
<1> QED BY <1>1, <1>2, <1>3, <1>4, <1>5 DEF FailuresSpaced

LEMMA GcpTakeSlot == ASSUME GcpInv, NEW a \in Askers, TakeSlot(a) PROVE GcpInv'
<1> USE GcpAssumption DEF GcpInv
<1>0. GcpTypeOK /\ a # Free /\ asker[a].pc = "queued" /\ holder = Free /\ asker[a] \in AskerStates
      /\ UNCHANGED <<mintClock, slot, issued, refused, began, wasted>>
  BY DEF TakeSlot, AskerAt, GcpTypeOK, Free
<1>1. Asker("minting", mintClock, NoToken) \in AskerStates /\ Told(a) \in AskerStates /\ Given(a) \in AskerStates
  BY <1>0 DEF Asker, Told, Given, GcpTypeOK, AskerStates, AskerPcs, NoToken
<1>2. CASE IsFresh(mintClock) \/ (Remembered(mintClock) /\ LastsToSetOut(mintClock))
  <2>1. AskerGoes(a, Given(a)) /\ holder' = holder
    BY <1>2 DEF TakeSlot
  <2>2. slot.minted \in DOMAIN issued /\ issued[slot.minted] > mintClock + LastResort - MintTimeout
    <3>1. slot.minted # NoToken /\ mintClock < slot.expires_at - LastResort
      BY <1>2, <1>0 DEF IsFresh, LastsToSetOut, GcpTypeOK
    <3>2. slot.minted \in DOMAIN issued /\ slot.expires_at <= issued[slot.minted]
      BY <3>1 DEF SlotHonest
    <3>3. issued[slot.minted] \in Int /\ slot.expires_at \in Int /\ mintClock \in Nat
      BY <1>0, <3>2 DEF GcpTypeOK
    <3> QED BY <3>1, <3>2, <3>3
  <2>3. Given(a).pc = "given" /\ Given(a).token = slot.minted /\ Given(a).now = mintClock
    BY DEF Given, Asker
  <2> QED BY <1>0, <1>1, <2>1, <2>2, <2>3, AskerMoves
<1>3. CASE ~ (IsFresh(mintClock) \/ (Remembered(mintClock) /\ LastsToSetOut(mintClock))) /\ Remembered(mintClock)
  <2>1. AskerGoes(a, Told(a)) /\ holder' = holder /\ Told(a).pc = "told"
    BY <1>3 DEF TakeSlot, Told, Asker
  <2> QED BY <1>0, <1>1, <2>1, AskerMoves
<1>4. CASE ~ IsFresh(mintClock) /\ ~ Remembered(mintClock)
  <2> DEFINE s == Asker("minting", mintClock, NoToken)
  <2>1. AskerGoes(a, s) /\ holder' = a
    BY <1>4 DEF TakeSlot
  <2>2. s.pc = "minting" /\ s.now = mintClock /\ s.now >= slot.failed_at + FailureTtl
    BY <1>0, <1>4 DEF Asker, Remembered, GcpTypeOK
  <2> HIDE DEF s
  <2>3. s \in AskerStates
    BY <1>1 DEF s
  <2> QED BY <1>0, <2>1, <2>2, <2>3, AskerMoves
<1> QED BY <1>2, <1>3, <1>4

(* A mint that works: the new token is one nobody has been given, let      *)
(* alone refused, and Google counts its life from no earlier than the slot *)
(* does.                                                                   *)
LEMMA GcpMintWorks == ASSUME GcpInv, NEW a \in Askers, MintWorks(a) PROVE GcpInv'
<1> USE GcpAssumption DEF GcpInv, NoToken
<1>t. issued \in Seq(Int)
  BY DEF GcpTypeOK
<1>0. /\ asker \in [Askers -> AskerStates] /\ asker[a].now \in Nat /\ mintClock \in Nat
      /\ AskerAt(a, "minting") /\ holder = a /\ holder' = Free /\ began' = << >> /\ a # Free
      /\ asker[a].now <= mintClock /\ mintClock <= asker[a].now + MintTimeout
      /\ UNCHANGED <<mintClock, refused, wasted>>
  BY DEF MintWorks, MintsAlone, MintsInTime, GcpTypeOK, AskerStates, Free
<1>1. PICK life \in Lifetimes, late \in 0..(mintClock - asker[a].now) :
         /\ issued' = Append(issued, mintClock - late + life)
         /\ slot' = [EmptySlot EXCEPT !.minted = Len(issued) + 1, !.expires_at = Expiry(a, life)]
  BY DEF MintWorks
<1> DEFINE new == Len(issued) + 1
           s == Asker("given", mintClock, new)
<1>2. /\ life \in Nat /\ life > LastResort /\ late \in Nat /\ late <= MintTimeout /\ mintClock - late >= asker[a].now
      /\ new \in Nat \ {0}
  BY <1>0
<1>3. slot' = [minted |-> new, expires_at |-> asker[a].now + life, failed_at |-> NeverMinted]
  BY <1>1 DEF EmptySlot, Expiry
<1>4. /\ issued' \in Seq(Int) /\ DOMAIN issued' = DOMAIN issued \cup {new} /\ new \notin DOMAIN issued
      /\ issued'[new] = mintClock - late + life /\ \A i \in DOMAIN issued : issued'[i] = issued[i]
  <2> DEFINE e == mintClock - late + life
  <2>1. e \in Int /\ issued' = Append(issued, e)
    BY <1>0, <1>1, <1>2
  <2> HIDE DEF e
  <2>2. issued' \in Seq(Int) /\ DOMAIN issued' = DOMAIN issued \cup {new} /\ new \notin DOMAIN issued
        /\ issued'[new] = e /\ \A i \in DOMAIN issued : issued'[i] = issued[i]
    BY ONLY <1>t, <2>1, AppendGrows DEF new
  <2> QED BY <2>2 DEF e
<1>5. s \in AskerStates /\ s.pc = "given" /\ s.now = mintClock /\ s.token = new
  BY <1>0, <1>2 DEF Asker, AskerStates, AskerPcs
<1>6. \A x \in Askers : asker'[x] = IF x = a THEN s ELSE asker[x]
  BY <1>0 DEF MintWorks, AskerGoes
<1>7. asker' \in [Askers -> AskerStates]
  BY <1>0, <1>5 DEF MintWorks, AskerGoes
<1> HIDE DEF new, s
<1>8. GcpTypeOK'
  <2>1. slot' \in [minted : Nat, expires_at : Int, failed_at : Int]
    BY <1>0, <1>2, <1>3 DEF NeverMinted
  <2> QED BY <1>0, <2>1, <1>4, <1>7 DEF GcpTypeOK
<1>9. MintsAlone' /\ MintsInTime' /\ (FailureKept /\ FailuresSpaced)'
  <2>1. \A x \in Askers : ~ AskerAt(x, "minting")'
    BY <1>0, <1>5, <1>6 DEF MintsAlone, AskerAt
  <2> QED BY <2>1, <1>0 DEF MintsAlone, MintsInTime, FailureKept, FailuresSpaced, Free
<1>10. SlotHonest'
  BY <1>0, <1>2, <1>3, <1>4 DEF SlotHonest
<1>11. TokensKnown' /\ RefusedLeaves'
  BY <1>0, <1>2, <1>3, <1>4, <1>5, <1>6 DEF TokensKnown, RefusedLeaves, AskerAt
<1>12. GivenAlive'
  <2>1. issued'[new] > mintClock + LastResort - MintTimeout
    BY <1>0, <1>2, <1>4
  <2> QED BY <2>1, <1>0, <1>4, <1>5, <1>6 DEF GivenAlive, TokensKnown, AskerAt
<1> QED BY <1>0, <1>8, <1>9, <1>10, <1>11, <1>12

LEMMA GcpMintFails == ASSUME GcpInv, NEW a \in Askers, MintFails(a) PROVE GcpInv'
<1> USE GcpAssumption DEF GcpInv
<1> DEFINE s == IF LastsToSetOut(asker[a].now) THEN Given(a) ELSE Told(a)
<1>0. /\ asker \in [Askers -> AskerStates] /\ asker[a].now \in Nat /\ mintClock \in Nat /\ issued \in Seq(Int)
      /\ AskerAt(a, "minting") /\ holder = a /\ holder' = Free /\ a # Free
      /\ asker[a].now <= mintClock /\ mintClock <= asker[a].now + MintTimeout
      /\ asker[a].now >= slot.failed_at + FailureTtl
      /\ UNCHANGED <<mintClock, issued, refused, wasted>>
  BY DEF MintFails, MintsAlone, MintsInTime, FailureKept, GcpTypeOK, AskerStates, Free
<1>s. began \in Seq(Int) /\ began' = Append(began, asker[a].now) /\ asker[a].now \in Int
  BY <1>0 DEF MintFails, GcpTypeOK, FailedAt
<1>l. slot \in [minted : Nat, expires_at : Int, failed_at : Int]
      /\ slot' = [slot EXCEPT !.failed_at = asker[a].now] /\ asker[a].now \in Int
  BY <1>0 DEF MintFails, GcpTypeOK, FailedAt
<1>n. asker[a].now \in Nat /\ mintClock \in Nat /\ mintClock <= asker[a].now + MintTimeout
  BY <1>0
<1>f. asker[a].now - slot.failed_at >= FailureTtl
  BY ONLY <1>0, <1>l, GcpAssumption
<1>st. slot.expires_at \in Int
  BY <1>l
<1>1. /\ slot' \in [minted : Nat, expires_at : Int, failed_at : Int] /\ slot'.minted = slot.minted
      /\ slot'.expires_at = slot.expires_at /\ slot'.failed_at = asker[a].now
  BY ONLY <1>l
<1>2. /\ s \in AskerStates /\ s.pc \in {"given", "told"}
      /\ s.pc = "given" => /\ s.now = mintClock /\ s.token = slot.minted /\ s.token \in DOMAIN issued
                           /\ issued[s.token] > s.now + LastResort - MintTimeout
  <2>1. CASE LastsToSetOut(asker[a].now)
    <3>1. slot.minted # NoToken /\ asker[a].now < slot.expires_at - LastResort
      BY <2>1 DEF LastsToSetOut
    <3>2. slot.minted \in DOMAIN issued /\ slot.expires_at <= issued[slot.minted] /\ issued[slot.minted] \in Int
      BY <1>0, <3>1 DEF SlotHonest
    <3>3. issued[slot.minted] > mintClock + LastResort - MintTimeout
      BY ONLY <1>n, <3>1, <3>2, <1>st, GcpAssumption
    <3> QED BY <1>0, <2>1, <3>2, <3>3 DEF Given, Asker, AskerStates, AskerPcs
  <2>2. CASE ~ LastsToSetOut(asker[a].now)
    BY <2>2 DEF Told, Asker, AskerStates, AskerPcs, NoToken
  <2> QED BY <2>1, <2>2
<1>3. \A x \in Askers : asker'[x] = IF x = a THEN s ELSE asker[x]
  BY <1>0 DEF MintFails, AskerGoes
<1>4. asker' \in [Askers -> AskerStates]
  BY <1>0, <1>2 DEF MintFails, AskerGoes
<1> HIDE DEF s
<1>5. \A x \in Askers : ~ AskerAt(x, "minting")'
  BY <1>0, <1>2, <1>3 DEF MintsAlone, AskerAt
<1>6. /\ began' \in Seq(Int) /\ began' # << >> /\ Len(began') = Len(began) + 1 /\ began'[Len(began')] = asker[a].now
      /\ DOMAIN began' = DOMAIN began \cup {Len(began')} /\ \A i \in DOMAIN began : began'[i] = began[i]
  BY ONLY <1>s, AppendGrows
<1>7. GcpTypeOK' /\ MintsAlone' /\ MintsInTime' /\ FailureKept'
  BY <1>0, <1>s, <1>1, <1>4, <1>5, <1>6 DEF GcpTypeOK, MintsAlone, MintsInTime, FailureKept, Free
<1>8. SlotHonest' /\ TokensKnown' /\ RefusedLeaves' /\ GivenAlive'
  BY <1>0, <1>1, <1>2, <1>3 DEF SlotHonest, TokensKnown, RefusedLeaves, GivenAlive, AskerAt
<1>9. FailuresSpaced'
  <2> SUFFICES ASSUME NEW i \in DOMAIN began', i > 1 PROVE began'[i] - began'[i - 1] >= FailureTtl
    BY DEF FailuresSpaced
  <2>0. began \in Seq(Int) /\ DOMAIN began = 1..Len(began) /\ Len(began) \in Nat
    BY <1>s
  <2>1. CASE i \in DOMAIN began
    <3>1. i - 1 \in DOMAIN began /\ began[i] - began[i - 1] >= FailureTtl
      BY <2>0, <2>1 DEF FailuresSpaced
    <3> QED BY <1>6, <2>1, <3>1
  <2>2. CASE i = Len(began')
    <3>1. i - 1 = Len(began) /\ began # << >> /\ Len(began) \in DOMAIN began
      BY <1>6, <2>0, <2>2
    <3>2. began'[i - 1] = slot.failed_at /\ began'[i] = asker[a].now
      BY <1>6, <2>2, <3>1 DEF FailureKept
    <3> QED BY <1>f, <3>2
  <2> QED BY <1>6, <2>1, <2>2
<1> QED BY <1>0, <1>7, <1>8, <1>9

(* A refusal, and the forgetting that follows it: only of the token that   *)
(* was refused.                                                            *)
LEMMA GcpForget == ASSUME GcpInv, NEW a \in Askers, TokenRefused(a) \/ Forget(a) PROVE GcpInv'
<1> USE GcpAssumption DEF GcpInv
<1>0. /\ asker \in [Askers -> AskerStates] /\ asker[a].token \in Nat
      /\ UNCHANGED <<mintClock, holder, issued, began>>
  BY DEF TokenRefused, Forget, GcpTypeOK, AskerStates
<1>1. CASE TokenRefused(a)
  <2> DEFINE s == Asker("forget", 0, asker[a].token)
  <2>1. s \in AskerStates /\ s.pc = "forget" /\ s.token = asker[a].token
    BY <1>0 DEF Asker, AskerStates, AskerPcs
  <2>2. \A x \in Askers : asker'[x] = IF x = a THEN s ELSE asker[x]
    BY <1>0, <1>1 DEF TokenRefused, AskerGoes
  <2>3. asker' \in [Askers -> AskerStates] /\ asker[a].pc = "given" /\ refused' = refused \cup {asker[a].token}
        /\ UNCHANGED <<slot, wasted>>
    BY <1>0, <1>1, <2>1 DEF TokenRefused, AskerGoes, AskerAt
  <2> HIDE DEF s
  <2>4. GcpTypeOK' /\ MintsAlone' /\ MintsInTime' /\ FailureKept'
    BY <1>0, <2>1, <2>2, <2>3 DEF GcpTypeOK, MintsAlone, MintsInTime, FailureKept, AskerAt
  <2>5. SlotHonest' /\ TokensKnown' /\ RefusedLeaves' /\ GivenAlive'
    BY <1>0, <2>1, <2>2, <2>3 DEF SlotHonest, TokensKnown, RefusedLeaves, GivenAlive, AskerAt
  <2> QED BY <1>0, <2>3, <2>4, <2>5 DEF FailuresSpaced
<1>2. CASE Forget(a)
  <2> DEFINE s == Asker("idle", 0, NoToken)
  <2>1. s \in AskerStates /\ s.pc = "idle"
    BY DEF Asker, AskerStates, AskerPcs, NoToken
  <2>2. \A x \in Askers : asker'[x] = IF x = a THEN s ELSE asker[x]
    BY <1>0, <1>2 DEF Forget, AskerGoes
  <2>3. asker' \in [Askers -> AskerStates] /\ asker[a].pc = "forget" /\ asker[a].token \in refused /\ refused' = refused
    BY <1>0, <1>2, <2>1 DEF Forget, AskerGoes, AskerAt, RefusedLeaves
  <2> HIDE DEF s
  <2>4. wasted' = wasted
    BY <1>2, <2>3 DEF Forget, Forgets
  <2>5. /\ slot' \in [minted : Nat, expires_at : Int, failed_at : Int]
        /\ slot'.expires_at = slot.expires_at /\ slot'.failed_at = slot.failed_at
        /\ slot'.minted # NoToken => slot'.minted = slot.minted /\ slot.minted # asker[a].token
    BY <1>2 DEF Forget, Forgets, GcpTypeOK, NoToken
  <2>6. GcpTypeOK' /\ MintsAlone' /\ MintsInTime' /\ FailureKept'
    BY <1>0, <2>1, <2>2, <2>3, <2>5 DEF GcpTypeOK, MintsAlone, MintsInTime, FailureKept, AskerAt
  <2>7. SlotHonest' /\ TokensKnown' /\ GivenAlive'
    BY <1>0, <2>1, <2>2, <2>3, <2>5 DEF SlotHonest, TokensKnown, GivenAlive, AskerAt
  <2>8. RefusedLeaves'
    BY <1>0, <2>1, <2>2, <2>3, <2>5 DEF RefusedLeaves, AskerAt
  <2> QED BY <1>0, <2>4, <2>6, <2>7, <2>8 DEF FailuresSpaced
<1> QED BY <1>1, <1>2

LEMMA GcpStepInv == GcpInv /\ [GcpNext]_gcpVars => GcpInv'
<1> SUFFICES ASSUME GcpInv, [GcpNext]_gcpVars PROVE GcpInv'
  OBVIOUS
<1> USE GcpAssumption
<1>1. ASSUME NEW a \in Askers, Ask(a) \/ Cancelled(a) \/ Used(a) PROVE GcpInv'
  <2>1. GcpTypeOK /\ a # Free /\ (holder = a <=> AskerAt(a, "minting"))
    BY DEF GcpInv, GcpTypeOK, Free, MintsAlone
  <2>2. PICK s \in AskerStates : AskerGoes(a, s) /\ s.pc \in {"idle", "queued"}
    <3>1. Asker("queued", 0, NoToken) \in AskerStates /\ Asker("queued", 0, NoToken).pc = "queued"
          /\ Asker("idle", 0, NoToken) \in AskerStates /\ Asker("idle", 0, NoToken).pc = "idle"
      BY DEF Asker, AskerStates, AskerPcs, NoToken
    <3> QED BY <1>1, <3>1 DEF Ask, Cancelled, Used
  <2>3. /\ UNCHANGED <<mintClock, slot, issued, refused, began, wasted>>
        /\ asker[a].pc \in {"idle", "queued", "minting", "given", "told"}
        /\ holder' = IF holder = a THEN Free ELSE holder
    BY <1>1, <2>1 DEF Ask, Cancelled, Used, AskerAt
  <2> QED BY <2>2, <2>3, AskerMoves
<1>2. ASSUME NEW a \in Askers, AskerStep(a) PROVE GcpInv'
  BY <1>1, <1>2, GcpTakeSlot, GcpMintWorks, GcpMintFails, GcpForget DEF AskerStep
<1>3. CASE ClockTicks
  <2>1. UNCHANGED <<slot, holder, asker, issued, refused, began, wasted>> /\ mintClock' = mintClock + 1
        /\ \A a \in Askers : AskerAt(a, "minting") => mintClock < asker[a].now + MintTimeout
    BY <1>3 DEF ClockTicks
  <2>2. GcpTypeOK' /\ MintsAlone' /\ SlotHonest' /\ TokensKnown' /\ RefusedLeaves' /\ FailureKept' /\ GivenAlive'
    BY <2>1 DEF GcpInv, GcpTypeOK, MintsAlone, SlotHonest, TokensKnown, RefusedLeaves, FailureKept, GivenAlive, AskerAt
  <2>3. MintsInTime'
    BY <2>1 DEF GcpInv, GcpTypeOK, AskerStates, MintsInTime, AskerAt
  <2> QED BY <2>1, <2>2, <2>3 DEF GcpInv, FailuresSpaced
<1>4. CASE UNCHANGED gcpVars
  BY <1>4 DEF gcpVars, GcpInv, GcpTypeOK, MintsAlone, MintsInTime, SlotHonest, TokensKnown, RefusedLeaves,
              FailureKept, GivenAlive, FailuresSpaced, AskerAt
<1> QED BY <1>2, <1>3, <1>4 DEF GcpNext

(* For any number of callers and any lifetimes Google may answer with that *)
(* are longer than the last resort: no request is given a token that is    *)
(* about to die or that was refused and forgotten, no late refusal throws  *)
(* away a newer token, and a token endpoint that fails is asked again no   *)
(* sooner than FAILURE_TTL after it was last asked (gcp_token.rs token,    *)
(* mint and forget).                                                       *)
THEOREM GoogleTokens == GcpSpec => []MintsHold
<1>1. GcpInv => MintsHold
  BY DEF GcpInv, MintsHold, TokensAlive, GivenAlive, RefusedLeaves, AskerAt
<1> QED BY GcpInitInv, GcpStepInv, <1>1, PTL DEF GcpSpec

------------------------------------------------------------------------------
(***************************************************************************)
(* System One.  A question set carries from the start what will price it:  *)
(* the catalog it was resolved against and the row that priced its name    *)
(* there.  From the lease on its credential is of the provider it names.   *)
(* Only a question set holds a probe.                                      *)
(***************************************************************************)
CallPcs == {"lease", "leased", "ready", "wire", "retry", "answered"}
CallRecs(target, todo) ==
    [pc : CallPcs, purpose : {"answer", "listing"}, target : {target}, rows : Catalogs \cup {{}},
     excluded : SUBSET Keys, switch : Nat, tries : Nat, key : Keys \cup {None}, probe : BOOLEAN,
     todo : {todo}, page : Nat]
CallShape(c) == \E target, todo : c \in CallRecs(target, todo)
Billable(target) == target.provider # Jev => target.spec # NoSpec /\ target.spec.price \in Nat \ {0}
CallSound(c) ==
    /\ c.purpose = "answer" => c.rows \in Catalogs /\ Billable(c.target)
    /\ c.pc # "lease" => c.key \in Keys /\ OwnerOf[c.key] = c.target.provider
    /\ c.pc = "answered" => c.purpose = "answer"
    /\ c.purpose = "listing" \/ c.pc = "lease" => ~ c.probe
CallOK(c) == c = NotCalling \/ (CallShape(c) /\ CallSound(c))
HealthRecs == [fails : Nat, breaker : {"closed", "open", "half"}, probed : BOOLEAN, cooled : BOOLEAN]

CallsOK == call = [r \in Calls |-> call[r]] /\ \A r \in Calls : CallOK(call[r])
HealthOK == health \in [Keys -> HealthRecs] /\ \A k \in Keys : health[k] # Healthy => k \in faulted
OneInv == rowsNow \in Catalogs /\ hostsNow \in HostSets /\ CallsOK /\ HealthOK /\ AnswersPriced

(* resolve: whatever is not refused and is not Jev's comes with the row    *)
(* that prices it.                                                         *)
LEMMA ResolveBillable ==
    ASSUME NEW model, NEW rows \in Catalogs, NEW hosts, Resolve(model, rows, hosts) # Refusal
    PROVE  Billable(Resolve(model, rows, hosts))
<1>1. \A listed \in rows : listed # NoSpec /\ listed.price \in Nat \ {0}
  BY OneAssumption DEF NoSpec
<1>2. Billable(At(Jev, None, NoSpec))
  BY DEF Billable, At
<1>3. \A listed \in rows : \A p, u : Billable(At(p, u, listed))
  BY <1>1 DEF Billable, At
<1>4. CASE \E listed \in rows : listed.id = model
  <2>1. (CHOOSE listed \in rows : listed.id = model) \in rows
    BY <1>4
  <2> QED BY <1>2, <1>3, <1>4, <2>1 DEF Resolve
<1>5. CASE RowsOf(rows, model.prefix, model.name) # {}
  <2>1. (CHOOSE listed \in RowsOf(rows, model.prefix, model.name) : TRUE) \in rows
    BY <1>5 DEF RowsOf
  <2> QED BY <1>2, <1>3, <1>4, <2>1 DEF Resolve
<1>6. CASE ~ (\E listed \in rows : listed.id = model) /\ ~ (RowsOf(rows, model.prefix, model.name) # {})
  BY <1>2, <1>6 DEF Resolve
<1> QED BY <1>4, <1>5, <1>6

(* priced: such a target's answer is metered at something.                 *)
LEMMA PricedPositive ==
    ASSUME NEW rows \in Catalogs, NEW target, Billable(target), target.provider # Jev, NEW ran
    PROVE  Priced(rows, target, ran) \in Nat \ {0}
<1>1. CASE \E listed \in rows : listed.id = [prefix |-> target.provider, name |-> ran]
  <2> DEFINE listed == CHOOSE listed \in rows : listed.id = [prefix |-> target.provider, name |-> ran]
  <2>1. listed \in rows
    BY <1>1
  <2> HIDE DEF listed
  <2>2. listed.price \in Nat \ {0}
    BY <2>1, OneAssumption
  <2> QED BY <1>1, <2>2 DEF Priced, listed
<1>2. CASE ~ \E listed \in rows : listed.id = [prefix |-> target.provider, name |-> ran]
  BY <1>2 DEF Priced, Billable
<1> QED BY <1>1, <1>2

(* What a call is while it runs.                                           *)
LEMMA CallRunning ==
    ASSUME CallsOK, NEW r \in Calls, call[r].pc \in CallPcs
    PROVE  CallShape(call[r]) /\ CallSound(call[r])
<1>1. NotCalling.pc \notin CallPcs
  BY DEF NotCalling, CallPcs
<1> QED BY <1>1 DEF CallsOK, CallOK

LEMMA NotCallingOK == CallOK(NotCalling)
  BY DEF CallOK

LEMMA BeginOK ==
    ASSUME NEW purpose \in {"answer", "listing"}, NEW target, NEW rows \in Catalogs \cup {{}}, NEW todo,
           purpose = "answer" => rows \in Catalogs /\ Billable(target)
    PROVE  CallOK(BeginCall(purpose, target, rows)) /\ CallOK([BeginCall(purpose, target, rows) EXCEPT !.todo = todo])
<1> DEFINE c == [BeginCall(purpose, target, rows) EXCEPT !.todo = todo]
<1>1. c \in CallRecs(target, todo) /\ c.purpose = purpose /\ c.rows = rows /\ c.target = target /\ c.pc = "lease" /\ c.probe = FALSE
  BY DEF BeginCall, CallRecs, CallPcs
<1> DEFINE b == BeginCall(purpose, target, rows)
<1>2. b \in CallRecs(target, << >>) /\ b.purpose = purpose /\ b.rows = rows /\ b.target = target /\ b.pc = "lease" /\ b.probe = FALSE
  BY DEF BeginCall, CallRecs, CallPcs
<1> HIDE DEF b, c
<1>3. CallShape(b) /\ CallSound(b) /\ CallShape(c) /\ CallSound(c)
  BY <1>1, <1>2 DEF CallShape, CallSound
<1> QED BY <1>3 DEF CallOK, b, c

LEMMA EndOK == ASSUME NEW r PROVE CallOK(EndOfCall(r)) /\ CallOK(NextHost(r))
<1>1. CallOK(NextHost(r))
  BY NotCallingOK, BeginOK DEF NextHost
<1> QED BY <1>1, NotCallingOK DEF EndOfCall

LEMMA SwitchedOK ==
    ASSUME CallsOK, NEW r \in Calls, call[r].pc \in CallPcs, call[r].pc # "lease"
    PROVE  CallOK(Switched(r))
<1>1. CASE call[r].switch = MaxSwitches
  BY <1>1, EndOK DEF Switched
<1>2. CASE call[r].switch # MaxSwitches
  <2> DEFINE c == [call[r] EXCEPT !.pc = "lease", !.excluded = @ \cup {call[r].key}, !.switch = @ + 1, !.probe = FALSE]
  <2>1. CallShape(call[r]) /\ CallSound(call[r]) /\ call[r].key \in Keys
    BY CallRunning DEF CallSound
  <2>2. PICK target, todo : call[r] \in CallRecs(target, todo)
    BY <2>1 DEF CallShape
  <2> DEFINE ex == call[r].excluded \cup {call[r].key}
             sw == call[r].switch + 1
  <2>x. ex \in SUBSET Keys /\ sw \in Nat /\ c = [call[r] EXCEPT !.pc = "lease", !.excluded = ex, !.switch = sw, !.probe = FALSE]
    BY <2>1, <2>2 DEF CallRecs
  <2> HIDE DEF c, ex, sw
  <2>3. /\ c \in CallRecs(target, todo) /\ c.purpose = call[r].purpose /\ c.rows = call[r].rows
        /\ c.target = call[r].target /\ c.pc = "lease" /\ c.probe = FALSE
    BY <2>2, <2>x DEF CallRecs, CallPcs
  <2>4. CallShape(c) /\ CallSound(c)
    BY <2>1, <2>3 DEF CallShape, CallSound
  <2> QED BY <1>2, <2>4 DEF CallOK, Switched, c
<1> QED BY <1>1, <1>2

(* One call goes where it may go.                                          *)
LEMMA CallMoves ==
    ASSUME CallsOK, NEW r \in Calls, NEW c, CallOK(c), call' = [call EXCEPT ![r] = c]
    PROVE  CallsOK'
  BY DEF CallsOK

(* A field or two of a call that runs are written.                         *)
LEMMA CallWritten ==
    ASSUME CallsOK, NEW r \in Calls, call[r].pc \in CallPcs, NEW to \in CallPcs,
           to # "lease" /\ to # "answered", call[r].pc # "lease", NEW probe \in BOOLEAN, NEW tries \in Nat,
           probe => call[r].purpose = "answer"
    PROVE  CallOK([call[r] EXCEPT !.pc = to, !.probe = probe, !.tries = tries])
<1> DEFINE c == [call[r] EXCEPT !.pc = to, !.probe = probe, !.tries = tries]
<1>1. CallShape(call[r]) /\ CallSound(call[r]) /\ call[r].key \in Keys
  BY CallRunning DEF CallSound
<1>2. PICK target, todo : call[r] \in CallRecs(target, todo)
  BY <1>1 DEF CallShape
<1>3. /\ c \in CallRecs(target, todo) /\ c.purpose = call[r].purpose /\ c.rows = call[r].rows /\ c.key = call[r].key
      /\ c.target = call[r].target /\ c.pc = to /\ c.probe = probe
  BY <1>1, <1>2 DEF CallRecs, CallPcs
<1> HIDE DEF c
<1>4. c.purpose = "listing" \/ c.pc = "lease" => ~ c.probe
  BY <1>3
<1>5. CallShape(c) /\ CallSound(c)
  BY <1>1, <1>3, <1>4 DEF CallShape, CallSound
<1> QED BY <1>5 DEF CallOK, c

------------------------------------------------------------------------------
(* What becomes of a credential's health: it strays from good only for a   *)
(* credential a question set has failed on.                                *)
LEMMA HealthyOK == Healthy \in HealthRecs /\ Healthy.breaker = "closed" /\ Healthy.cooled = FALSE
  BY DEF Healthy, HealthRecs

LEMMA HealthMoves ==
    ASSUME HealthOK, NEW k \in Keys, NEW h \in HealthRecs, health' = [health EXCEPT ![k] = h],
           faulted \subseteq faulted', h = Healthy \/ k \in faulted'
    PROVE  HealthOK'
  BY DEF HealthOK

LEMMA HealthSame == ASSUME HealthOK, health' = health, faulted \subseteq faulted' PROVE HealthOK'
  BY DEF HealthOK

LEMMA BlameOK ==
    ASSUME OneInv, NEW r \in Calls, call[r].pc \in CallPcs, call[r].pc # "lease", NEW cools \in BOOLEAN,
           Blames(r), health' = HealthAfter(r, cools)
    PROVE  HealthOK'
<1>0. HealthOK /\ CallSound(call[r]) /\ call[r].key \in Keys /\ faulted \subseteq faulted'
  BY CallRunning DEF OneInv, CallSound, Blames
<1>1. CASE ~ Counts(r)
  BY <1>0, <1>1, HealthSame DEF HealthAfter
<1>2. CASE Counts(r)
  <2> DEFINE k == call[r].key
             f == FailedOnce(k)
             h == [f EXCEPT !.cooled = @ \/ cools]
  <2>1. health[k] \in HealthRecs
    BY <1>0 DEF HealthOK
  <2>2. f \in HealthRecs
    <3>1. [health[k] EXCEPT !.fails = TripsAt, !.breaker = "open", !.probed = FALSE] \in HealthRecs
      BY <2>1, OneAssumption DEF HealthRecs
    <3>2. health[k].fails + 1 \in Nat /\ [health[k] EXCEPT !.fails = health[k].fails + 1] \in HealthRecs
      BY <2>1 DEF HealthRecs
    <3> QED BY <3>1, <3>2 DEF FailedOnce
  <2>3. h \in HealthRecs
    BY <2>2 DEF HealthRecs
  <2>4. health' = [health EXCEPT ![k] = h] /\ k \in faulted'
    BY <1>2 DEF HealthAfter, Blames, Counts
  <2> HIDE DEF k, f, h
  <2>5. k \in Keys
    BY <1>0 DEF k
  <2> QED BY <1>0, <2>3, <2>4, <2>5, HealthMoves
<1> QED BY <1>1, <1>2

LEMMA ProbeBackOK ==
    ASSUME OneInv, NEW r \in Calls, call[r].pc \in CallPcs, health' = ProbeBack(r), UNCHANGED faulted
    PROVE  HealthOK'
<1>0. HealthOK /\ CallSound(call[r])
  BY CallRunning DEF OneInv
<1>1. CASE ~ call[r].probe
  BY <1>0, <1>1, HealthSame DEF ProbeBack
<1>2. CASE call[r].probe
  <2> DEFINE k == call[r].key
             h == [health[k] EXCEPT !.probed = FALSE]
  <2>1. k \in Keys /\ health[k] \in HealthRecs
    BY <1>0, <1>2 DEF CallSound, HealthOK
  <2>2. h \in HealthRecs /\ (health[k] = Healthy => h = Healthy)
    <3>1. h \in HealthRecs
      BY <2>1 DEF HealthRecs
    <3>2. Healthy \in HealthRecs /\ Healthy.probed = FALSE
      BY DEF Healthy, HealthRecs
    <3>3. [Healthy EXCEPT !.probed = Healthy.probed] = Healthy
      BY <3>2 DEF HealthRecs
    <3> QED BY <3>1, <3>2, <3>3
  <2>3. health' = [health EXCEPT ![k] = h]
    BY <1>2 DEF ProbeBack
  <2>4. h = Healthy \/ k \in faulted
    BY <1>0, <2>1, <2>2 DEF HealthOK
  <2> HIDE DEF k, h
  <2> QED BY <1>0, <2>1, <2>2, <2>3, <2>4, HealthMoves
<1> QED BY <1>1, <1>2

------------------------------------------------------------------------------
LEMMA OneInitInv == OneInit => OneInv
<1> SUFFICES ASSUME OneInit PROVE OneInv
  OBVIOUS
<1>1. CallsOK
  BY NotCallingOK DEF OneInit, CallsOK
<1>2. HealthOK
  BY HealthyOK DEF OneInit, HealthOK
<1> QED BY <1>1, <1>2 DEF OneInit, OneInv, AnswersPriced

(* The steps that end a call's use of a credential, or the call.           *)
LEMMA GivingUp ==
    ASSUME OneInv, NEW r \in Calls, call[r].pc \in CallPcs, call[r].pc # "lease", Switch(r) \/ Fatally(r)
    PROVE  CallsOK'
  BY SwitchedOK, EndOK, CallMoves DEF Switch, Fatally, OneInv

LEMMA OneFaults ==
    ASSUME OneInv, NEW r \in Calls,
           \/ Garbled(r) \/ SilentUpstream(r) \/ Unreachable(r)
           \/ \E d \in {"retry", "failover", "fatal", "escalate"} : RefusedAs(r, d)
    PROVE  OneInv'
<1>1. call[r].pc = "wire" /\ call[r].pc \in CallPcs /\ Blames(r) /\ UNCHANGED <<rowsNow, hostsNow, billed>>
  BY DEF Garbled, SilentUpstream, Unreachable, RefusedAs, CallAt, CallPcs
<1>2. \E cools \in BOOLEAN : health' = HealthAfter(r, cools)
  BY DEF Garbled, SilentUpstream, Unreachable, RefusedAs
<1>3. HealthOK'
  BY <1>1, <1>2, BlameOK
<1>4. Switch(r) \/ Fatally(r) \/ Retries(r)
  BY DEF Garbled, SilentUpstream, Unreachable, RefusedAs
<1>5. ASSUME Retries(r) PROVE CallsOK'
  <2>1. CallsOK /\ CallShape(call[r]) /\ CallSound(call[r])
    BY <1>1, CallRunning DEF OneInv
  <2>2. call[r].probe \in BOOLEAN /\ call[r].tries \in Nat /\ (call[r].probe => call[r].purpose = "answer")
        /\ [call[r] EXCEPT !.pc = "retry", !.probe = call[r].probe, !.tries = call[r].tries] = [call[r] EXCEPT !.pc = "retry"]
    BY <2>1 DEF CallShape, CallRecs, CallSound
  <2>3. CallOK([call[r] EXCEPT !.pc = "retry"])
    BY <1>1, <2>1, <2>2, CallWritten DEF CallPcs
  <2>4. call' = [call EXCEPT ![r] = [call[r] EXCEPT !.pc = "retry"]]
    BY <1>5 DEF Retries
  <2> QED BY <2>1, <2>3, <2>4, CallMoves
<1>6. CallsOK'
  BY <1>1, <1>4, <1>5, GivingUp
<1> QED BY <1>1, <1>3, <1>6 DEF OneInv, AnswersPriced

(* The steps that move one call and nobody's health.                       *)
LEMMA OneQuietSteps ==
    ASSUME OneInv, NEW r \in Calls,
           AskSystemOne(r) \/ AskListing(r) \/ LeaseKey(r) \/ NoKeyLeft(r) \/ NotFresh(r) \/ Send(r) \/ RetrySame(r)
    PROVE  OneInv'
<1>0. CallsOK /\ rowsNow \in Catalogs /\ hostsNow \in HostSets
  BY DEF OneInv
<1>1. UNCHANGED <<rowsNow, hostsNow, health, billed, faulted>>
  BY DEF AskSystemOne, AskListing, LeaseKey, NoKeyLeft, NotFresh, Send, RetrySame
<1>2. CallsOK'
  <2>1. CASE AskSystemOne(r)
    <3>1. PICK model \in AskedFor : /\ Resolve(model, rowsNow, hostsNow) # Refusal
            /\ call' = [call EXCEPT ![r] = BeginCall("answer", Resolve(model, rowsNow, hostsNow), rowsNow)]
      BY <2>1 DEF AskSystemOne
    <3> DEFINE target == Resolve(model, rowsNow, hostsNow)
    <3>2. Billable(target)
      BY <1>0, <3>1, ResolveBillable
    <3> HIDE DEF target
    <3>3. CallOK(BeginCall("answer", target, rowsNow))
      BY <1>0, <3>2, BeginOK
    <3> QED BY <1>0, <3>1, <3>3, CallMoves DEF target
  <2>2. CASE AskListing(r)
    <3>1. call' = [call EXCEPT ![r] = [BeginCall("listing", At(Jev, None, NoSpec), {}) EXCEPT !.todo = InTurn(hostsNow)]]
      BY <2>2 DEF AskListing
    <3> QED BY <1>0, <3>1, BeginOK, CallMoves
  <2>3. CASE LeaseKey(r)
    <3>1. call[r].pc = "lease" /\ CallShape(call[r]) /\ CallSound(call[r])
      BY <1>0, <2>3, CallRunning DEF LeaseKey, CallAt, CallPcs
    <3>2. PICK k \in Leasable(r) : call' = [call EXCEPT ![r].pc = "leased", ![r].key = k, ![r].tries = 0]
      BY <2>3 DEF LeaseKey
    <3>3. k \in Keys /\ OwnerOf[k] = call[r].target.provider
      BY DEF Leasable
    <3> DEFINE c == [call[r] EXCEPT !.pc = "leased", !.key = k, !.tries = 0]
    <3>4. PICK target, todo : call[r] \in CallRecs(target, todo)
      BY <3>1 DEF CallShape
    <3>5. /\ c \in CallRecs(target, todo) /\ c.purpose = call[r].purpose /\ c.rows = call[r].rows
          /\ c.target = call[r].target /\ c.pc = "leased" /\ c.probe = call[r].probe /\ c.key = k
      BY <3>3, <3>4 DEF CallRecs, CallPcs
    <3>6. call' = [call EXCEPT ![r] = c]
      BY <1>0, <3>2 DEF CallsOK
    <3> HIDE DEF c
    <3>7. CallShape(c) /\ CallSound(c)
      BY <3>1, <3>3, <3>5 DEF CallShape, CallSound
    <3> QED BY <1>0, <3>6, <3>7, CallMoves DEF CallOK
  <2>4. CASE NoKeyLeft(r)
    BY <1>0, <2>4, EndOK, CallMoves DEF NoKeyLeft
  <2>5. CASE NotFresh(r)
    BY <2>5, GivingUp DEF NotFresh, CallAt, CallPcs
  <2>6. ASSUME call[r].pc \in CallPcs, call[r].pc # "lease"
        PROVE  /\ call[r].probe \in BOOLEAN /\ call[r].tries \in Nat /\ (call[r].probe => call[r].purpose = "answer")
               /\ [call[r] EXCEPT !.pc = "wire", !.probe = FALSE, !.tries = call[r].tries] = [call[r] EXCEPT !.pc = "wire", !.probe = FALSE]
               /\ [call[r] EXCEPT !.pc = "ready", !.probe = call[r].probe, !.tries = call[r].tries + 1]
                     = [call[r] EXCEPT !.pc = "ready", !.tries = call[r].tries + 1]
    <3>1. CallShape(call[r]) /\ CallSound(call[r])
      BY <1>0, <2>6, CallRunning
    <3> QED BY <3>1 DEF CallShape, CallRecs, CallSound
  <2>7. CASE Send(r)
    <3>1. call[r].pc \in CallPcs /\ call[r].pc # "lease" /\ call' = [call EXCEPT ![r] = [call[r] EXCEPT !.pc = "wire", !.probe = FALSE]]
      BY <1>0, <2>7 DEF Send, CallAt, CallPcs, CallsOK
    <3>2. CallOK([call[r] EXCEPT !.pc = "wire", !.probe = FALSE, !.tries = call[r].tries])
      BY <1>0, <2>6, <3>1, CallWritten DEF CallPcs
    <3> QED BY <1>0, <2>6, <3>1, <3>2, CallMoves
  <2>8. CASE RetrySame(r)
    <3>1. call[r].pc \in CallPcs /\ call[r].pc # "lease"
          /\ (Switch(r) \/ call' = [call EXCEPT ![r] = [call[r] EXCEPT !.pc = "ready", !.tries = call[r].tries + 1]])
      BY <1>0, <2>8 DEF RetrySame, CallAt, CallPcs, CallsOK
    <3>2. call[r].tries + 1 \in Nat
      BY <2>6, <3>1
    <3>3. CallOK([call[r] EXCEPT !.pc = "ready", !.probe = call[r].probe, !.tries = call[r].tries + 1])
      BY <1>0, <2>6, <3>1, <3>2, CallWritten DEF CallPcs
    <3> QED BY <1>0, <2>6, <3>1, <3>3, GivingUp, CallMoves
  <2> QED BY <2>1, <2>2, <2>3, <2>4, <2>5, <2>7, <2>8
<1> QED BY <1>1, <1>2, HealthSame DEF OneInv, AnswersPriced

(* claim: a probe is taken only of a breaker that is not closed, and only  *)
(* by a question set.                                                      *)
LEMMA OneClaim == ASSUME OneInv, NEW r \in Calls, Claim(r) PROVE OneInv'
<1>0. /\ CallsOK /\ HealthOK /\ call[r].pc \in CallPcs /\ call[r].pc # "lease"
      /\ CallShape(call[r]) /\ CallSound(call[r]) /\ call[r].key \in Keys
      /\ UNCHANGED <<rowsNow, hostsNow, billed, faulted>>
  <2>1. call[r].pc = "leased"
    BY DEF Claim, CallAt
  <2> QED BY <2>1, CallRunning DEF Claim, OneInv, CallPcs, CallSound
<1>1. CASE Switch(r) /\ UNCHANGED health
  BY <1>0, <1>1, GivingUp, HealthSame DEF OneInv, AnswersPriced
<1>2. CASE CallGoes(r, "ready") /\ UNCHANGED health
  <2>1. call[r].probe \in BOOLEAN /\ call[r].tries \in Nat /\ (call[r].probe => call[r].purpose = "answer")
        /\ [call[r] EXCEPT !.pc = "ready", !.probe = call[r].probe, !.tries = call[r].tries] = [call[r] EXCEPT !.pc = "ready"]
    BY <1>0 DEF CallShape, CallRecs, CallSound
  <2>2. CallOK([call[r] EXCEPT !.pc = "ready"])
    BY <1>0, <2>1, CallWritten DEF CallPcs
  <2>3. CallsOK'
    BY <1>0, <1>2, <2>2, CallMoves DEF CallGoes
  <2> QED BY <1>0, <1>2, <2>3, HealthSame DEF OneInv, AnswersPriced
<1>3. CASE /\ Counts(r) /\ health[call[r].key].breaker # "closed"
           /\ call' = [call EXCEPT ![r].pc = "ready", ![r].probe = TRUE]
           /\ health' = [health EXCEPT ![call[r].key].probed = TRUE]
  <2>1. call[r].tries \in Nat
        /\ [call[r] EXCEPT !.pc = "ready", !.probe = TRUE, !.tries = call[r].tries] = [call[r] EXCEPT !.pc = "ready", !.probe = TRUE]
    BY <1>0 DEF CallShape, CallRecs
  <2>2. CallOK([call[r] EXCEPT !.pc = "ready", !.probe = TRUE])
    BY <1>0, <1>3, <2>1, CallWritten DEF CallPcs, Counts
  <2>3. call' = [call EXCEPT ![r] = [call[r] EXCEPT !.pc = "ready", !.probe = TRUE]]
    BY <1>0, <1>3 DEF CallsOK
  <2>4. CallsOK'
    BY <1>0, <2>2, <2>3, CallMoves
  <2> DEFINE k == call[r].key
             h == [health[k] EXCEPT !.probed = TRUE]
  <2>5. health[k] \in HealthRecs /\ h \in HealthRecs /\ health' = [health EXCEPT ![k] = h]
    BY <1>0, <1>3 DEF HealthOK, HealthRecs
  <2>6. k \in faulted
    BY <1>0, <1>3, HealthyOK DEF HealthOK
  <2> HIDE DEF h
  <2>7. HealthOK'
    BY <1>0, <2>5, <2>6, HealthMoves
  <2> QED BY <1>0, <2>4, <2>7 DEF OneInv, AnswersPriced
<1> QED BY <1>1, <1>2, <1>3 DEF Claim

(* An answer: the breaker closes again, and a cooldown stays.              *)
LEMMA OneAnswers == ASSUME OneInv, NEW r \in Calls, Answers(r) PROVE OneInv'
<1>0. /\ CallsOK /\ HealthOK /\ call[r].pc = "wire" /\ call[r].pc \in CallPcs /\ CallShape(call[r]) /\ CallSound(call[r])
      /\ call[r].key \in Keys /\ UNCHANGED <<rowsNow, hostsNow, billed, faulted>>
  <2>1. call[r].pc = "wire"
    BY DEF Answers, CallAt
  <2> QED BY <2>1, CallRunning DEF Answers, OneInv, CallPcs, CallSound
<1>1. HealthOK'
  <2>1. CASE ~ Counts(r)
    BY <1>0, <2>1, HealthSame DEF Answers
  <2>2. CASE Counts(r)
    <3> DEFINE k == call[r].key
               h == [Healthy EXCEPT !.cooled = health[k].cooled]
    <3>1. health[k] \in HealthRecs /\ health[k].cooled \in BOOLEAN
      BY <1>0 DEF HealthOK, HealthRecs
    <3>2. h \in HealthRecs
      BY <3>1, HealthyOK DEF HealthRecs
    <3>3. health' = [health EXCEPT ![k] = h]
      BY <2>2 DEF Answers
    <3>4. h = Healthy \/ k \in faulted
      <4>1. CASE health[k] = Healthy
        <5>1. h = [Healthy EXCEPT !.cooled = Healthy.cooled]
          BY <4>1
        <5> QED BY <5>1, HealthyOK DEF HealthRecs
      <4>2. CASE health[k] # Healthy
        BY <1>0, <4>2 DEF HealthOK
      <4> QED BY <4>1, <4>2
    <3> HIDE DEF h
    <3> QED BY <1>0, <3>2, <3>3, <3>4, HealthMoves
  <2> QED BY <2>1, <2>2
<1>2. PICK target, todo : call[r] \in CallRecs(target, todo)
  BY <1>0 DEF CallShape
<1>3. CallsOK'
  <2>1. CASE call[r].purpose = "answer"
    <3> DEFINE c == [call[r] EXCEPT !.pc = "answered"]
    <3>1. /\ c \in CallRecs(target, todo) /\ c.purpose = call[r].purpose /\ c.rows = call[r].rows /\ c.key = call[r].key
          /\ c.target = call[r].target /\ c.pc = "answered" /\ c.probe = call[r].probe
      BY <1>2 DEF CallRecs, CallPcs
    <3>2. call' = [call EXCEPT ![r] = c]
      BY <2>1 DEF Answers, CallGoes
    <3> HIDE DEF c
    <3>3. CallShape(c) /\ CallSound(c)
      BY <1>0, <2>1, <3>1 DEF CallShape, CallSound
    <3> QED BY <1>0, <3>2, <3>3, CallMoves DEF CallOK
  <2>2. CASE call[r].purpose # "answer"
    <3> DEFINE c == NextPage(r)
    <3>1. call[r].page + 1 \in Nat /\ call[r].purpose = "listing"
      BY <1>2, <2>2 DEF CallRecs
    <3>2. /\ c \in CallRecs(target, todo) /\ c.purpose = call[r].purpose /\ c.rows = call[r].rows
          /\ c.target = call[r].target /\ c.pc = "lease" /\ c.probe = call[r].probe
      BY <1>2, <3>1 DEF CallRecs, CallPcs, NextPage
    <3>3. call' = [call EXCEPT ![r] = c] \/ call' = [call EXCEPT ![r] = NextHost(r)]
      BY <2>2 DEF Answers
    <3> HIDE DEF c
    <3>4. CallShape(c) /\ CallSound(c)
      BY <1>0, <3>1, <3>2 DEF CallShape, CallSound
    <3> QED BY <1>0, <3>3, <3>4, EndOK, CallMoves DEF CallOK
  <2> QED BY <2>1, <2>2
<1> QED BY <1>0, <1>1, <1>3 DEF OneInv, AnswersPriced

(* The ledger row of an answer.                                            *)
LEMMA OneRecord == ASSUME OneInv, NEW r \in Calls, Record(r) PROVE OneInv'
<1>0. /\ CallsOK /\ HealthOK /\ CallSound(call[r]) /\ call[r].pc = "answered"
      /\ UNCHANGED <<rowsNow, hostsNow, health, faulted>> /\ call' = [call EXCEPT ![r] = NotCalling]
  <2>1. call[r].pc = "answered"
    BY DEF Record, CallAt
  <2> QED BY <2>1, CallRunning DEF Record, Over, OneInv, CallPcs
<1>1. PICK ran \in Answering : billed' = billed \cup
              {[provider |-> OwnerOf[call[r].key], asked |-> call[r].target.provider,
                price |-> Priced(call[r].rows, call[r].target, ran)]}
  BY DEF Record
<1> DEFINE price == Priced(call[r].rows, call[r].target, ran)
           listed == [provider |-> OwnerOf[call[r].key], asked |-> call[r].target.provider, price |-> price]
<1>2. OwnerOf[call[r].key] = call[r].target.provider /\ call[r].rows \in Catalogs /\ Billable(call[r].target)
  BY <1>0 DEF CallSound
<1>3. call[r].target.provider # Jev => price \in Nat \ {0}
  BY <1>2, PricedPositive
<1> HIDE DEF price
<1>4. listed.provider = listed.asked /\ (listed.provider # Jev => listed.price > 0)
  BY <1>2, <1>3
<1>5. AnswersPriced'
  BY <1>1, <1>4 DEF AnswersPriced, OneInv, price
<1>6. CallsOK'
  BY <1>0, NotCallingOK, CallMoves
<1> QED BY <1>0, <1>5, <1>6, HealthSame DEF OneInv

(* What gives an unspent probe back.                                       *)
LEMMA OneLeaves == ASSUME OneInv, NEW r \in Calls, NeverSent(r) \/ HangsUp(r) PROVE OneInv'
<1>0. call[r].pc \in CallPcs /\ CallsOK /\ health' = ProbeBack(r) /\ UNCHANGED <<rowsNow, hostsNow, billed, faulted>>
  BY DEF NeverSent, HangsUp, CallAt, CallPcs, OneInv
<1>1. HealthOK'
  BY <1>0, ProbeBackOK
<1>2. CallsOK'
  <2>1. CASE NeverSent(r)
    BY <1>0, <2>1, GivingUp DEF NeverSent, CallAt
  <2>2. CASE HangsUp(r)
    BY <1>0, <2>2, NotCallingOK, CallMoves DEF HangsUp, Over
  <2> QED BY <2>1, <2>2
<1> QED BY <1>0, <1>1, <1>2 DEF OneInv, AnswersPriced

LEMMA OneStepInv == OneInv /\ [OneNext]_oneVars => OneInv'
<1> SUFFICES ASSUME OneInv, [OneNext]_oneVars PROVE OneInv'
  OBVIOUS
<1>1. ASSUME NEW r \in Calls, CallStep(r) PROVE OneInv'
  BY <1>1, OneQuietSteps, OneClaim, OneLeaves, OneAnswers, OneFaults, OneRecord DEF CallStep
<1>2. CASE Reload
  <2>1. rowsNow' \in Catalogs /\ hostsNow' \in HostSets /\ UNCHANGED <<health, call, billed, faulted>>
    BY <1>2 DEF Reload
  <2> QED BY <2>1 DEF OneInv, CallsOK, HealthOK, AnswersPriced
<1>3. ASSUME NEW k \in Keys, CooldownEnds(k) PROVE OneInv'
  <2>1. UNCHANGED <<rowsNow, hostsNow, call, billed, faulted>> /\ HealthOK /\ health[k] \in HealthRecs
        /\ (health[k].cooled \/ health[k].breaker = "open")
    BY <1>3 DEF CooldownEnds, OneInv, HealthOK
  <2> DEFINE b == IF health[k].breaker = "open" THEN "half" ELSE health[k].breaker
             h == [health[k] EXCEPT !.cooled = FALSE, !.breaker = b]
  <2>2. h \in HealthRecs /\ health' = [health EXCEPT ![k] = h]
    BY <1>3, <2>1 DEF CooldownEnds, HealthRecs, HealthOK
  <2>3. k \in faulted
    BY <2>1, HealthyOK DEF HealthOK
  <2> HIDE DEF h
  <2>4. HealthOK'
    BY <2>1, <2>2, <2>3, HealthMoves
  <2> QED BY <2>1, <2>4 DEF OneInv, CallsOK, AnswersPriced
<1>4. CASE UNCHANGED oneVars
  BY <1>4 DEF oneVars, OneInv, CallsOK, HealthOK, AnswersPriced
<1> QED BY <1>1, <1>2, <1>3, <1>4 DEF OneNext

(* For any catalogs whose rows have a price, any hosts, credentials and    *)
(* bounds: every answer is metered to the provider it was asked of, at a   *)
(* price that is not nothing when it is a host's, across failover and      *)
(* reloads; and no credential's health moves but by a question set that    *)
(* failed on it (systemone.rs resolve, priced, attempt_on).                *)
THEOREM SystemOneAccounted == OneSpec => []AnswersAccounted
<1>1. OneInv => AnswersAccounted
  <2> SUFFICES ASSUME OneInv PROVE AnswersPriced /\ HealthIsAnswers
    BY DEF AnswersAccounted
  <2>1. \A r \in Calls : call[r] # NotCalling /\ call[r].purpose = "listing" => ~ call[r].probe
    BY DEF OneInv, CallsOK, CallOK, CallSound
  <2> QED BY <2>1 DEF OneInv, HealthOK, HealthIsAnswers
<1> QED BY OneInitInv, OneStepInv, <1>1, PTL DEF OneSpec

-----------------------------------------------------------------------------
(***************************************************************************)
(* The usage poller.  A replica that sleeps outsleeps its own claims, and  *)
(* one that is awake has asked, or passed over, what it claimed.  An       *)
(* account that is due is being asked, or was asked since its claim, or is *)
(* free to be claimed by every replica in time.  When discovery is off and *)
(* some key still says what it served, some replica will forget it in      *)
(* time: the one that answered last, if none else.                         *)
(***************************************************************************)
SweepPcs == {"asleep", "seats", "quota", "record", "bench", "models", "forget", "load", "keys", "key", "xai"}
Shape(s) == s = [pc |-> s.pc, left |-> s.left, todo |-> s.todo, on |-> s.on, read |-> s.read]
SeatPhase(s) == s.pc \in {"seats", "quota", "record", "bench"} \/ (s.pc = "models" /\ s.on \in QuotaSeats)
KeyPhase(s) == s.pc \in {"keys", "key"} \/ (s.pc = "models" /\ s.on \in DiscoveryKeys)
On(s) == s.pc \in {"quota", "record", "bench", "key", "models"}

SweepOK(s) ==
    /\ Shape(s) /\ s.pc \in SweepPcs /\ s.left \in Nat
    /\ s.left <= IF s.pc = "asleep" THEN Longest ELSE SweepTime
    /\ SeatPhase(s) => s.todo \subseteq QuotaSeats
    /\ KeyPhase(s) => s.todo \subseteq DiscoveryKeys
    /\ On(s) => s.on \in s.todo /\ s.on \in Claimable
SweepsInv ==
    /\ DOMAIN sweep = Sweepers /\ \A r \in Sweepers : SweepOK(sweep[r]) /\ (sweep[r].pc = "key" => r \in Loaded)
    /\ DOMAIN pollClaim = Claimable
    /\ \A a \in Claimable : pollClaim[a] = [left |-> pollClaim[a].left, by |-> pollClaim[a].by] /\ pollClaim[a].left \in 0..Shortest
    /\ unasked \in [Claimable -> Nat] /\ unforgotten \in Nat /\ discovers \in BOOLEAN /\ DOMAIN served = Asked

(* What a replica claimed.                                                 *)
OwnClaim(s, a) ==
    IF s.pc = "asleep" THEN pollClaim[a].left <= s.left
    ELSE /\ (SeatPhase(s) \/ KeyPhase(s)) /\ a \in s.todo => On(s) /\ s.on = a
         /\ SeatPhase(s) \/ s.pc \in {"forget", "load"} => a \in QuotaSeats
ClaimsInv ==
    /\ turnedAway = {}
    /\ \A r \in Sweepers, a \in Claimable : pollClaim[a].by = r /\ pollClaim[a].left > 0 => OwnClaim(sweep[r], a)

(* How long until a replica next comes to an account, at the latest.       *)
Ahead(s, a) ==
    \/ a \in QuotaSeats /\ SeatPhase(s) /\ a \in s.todo /\ (s.pc \in {"record", "bench", "models"} => s.on # a)
    \/ a \in DiscoveryKeys /\ (SeatPhase(s) \/ s.pc \in {"forget", "load"} \/ (KeyPhase(s) /\ a \in s.todo))
Until(s, a) ==
    IF s.pc = "asleep" THEN s.left + SweepTime
    ELSE IF Ahead(s, a) THEN s.left ELSE s.left + Longest + SweepTime
BeingAsked(s, a) == s.on = a /\ (s.pc \in {"quota", "key"} \/ (s.pc = "models" /\ a \in DiscoveryKeys))
MayCome(r, a) == a \in QuotaSeats \/ r \in Loaded
Waiting(a) == a \in enrolled /\ (a \in DiscoveryKeys => discovers)
Bound == Shortest + Slack
InTime(a) ==
    \/ \E r \in Sweepers : BeingAsked(sweep[r], a) /\ unasked[a] + sweep[r].left <= Bound
    \/ unasked[a] + pollClaim[a].left <= Shortest
    \/ pollClaim[a].left = 0 /\ \A r \in Sweepers : MayCome(r, a) => unasked[a] + Until(sweep[r], a) <= Bound
AskedInv == \A a \in Claimable : IF Waiting(a) THEN (a \in QuotaSeats \/ Loaded # {}) => InTime(a) ELSE unasked[a] = 0

(* How long until a replica next forgets, at the latest.                   *)
ForgetsIn(s) ==
    IF s.pc = "asleep" THEN s.left + SweepTime
    ELSE IF SeatPhase(s) \/ s.pc = "forget" THEN s.left ELSE s.left + Longest + SweepTime
ForgetInv ==
    ~ discovers =>
        /\ (\E a \in DiscoveryKeys : served[a] # "unset") => \E r \in Sweepers : unforgotten + ForgetsIn(sweep[r]) <= Slack
        /\ \A r \in Sweepers : KeyPhase(sweep[r]) /\ sweep[r].todo # {} => unforgotten + sweep[r].left <= SweepTime

(* What is recorded of a seat.                                             *)
IsBody(a, body) == body \in BodiesOf(a) /\ body # NoBody /\ Reading(a, body) # NoReading
QuotaOK(a) ==
    /\ quota[a] = [remaining |-> quota[a].remaining, resets |-> quota[a].resets, benched |-> quota[a].benched]
    /\ IF recorded[a] = NoBody THEN quota[a].remaining = Unsaid /\ quota[a].benched = Unsaid
       ELSE IsBody(a, recorded[a]) /\ quota[a].remaining = Reading(a, recorded[a]).remaining
    /\ served[a] # "none"
QuotaInv ==
    /\ DOMAIN quota = QuotaSeats /\ DOMAIN recorded = QuotaSeats /\ \A a \in QuotaSeats : QuotaOK(a)
    /\ \A r \in Sweepers : /\ sweep[r].pc \in {"record", "bench"} => IsBody(sweep[r].on, sweep[r].read)
                           /\ sweep[r].pc = "bench" => recorded[sweep[r].on] # NoBody
PollInv == SweepsInv /\ ClaimsInv /\ AskedInv /\ ForgetInv /\ QuotaInv

LEMMA PollNumbers ==
    /\ Shortest \in Nat /\ Longest \in Nat /\ Shortest <= Longest /\ SweepTime \in Nat
    /\ Slack = Longest + 2 * SweepTime /\ Slack \in Nat /\ ClaimHold = Shortest
    /\ Bound = Shortest + Slack /\ Bound \in Nat
<1>1. Interval \in Nat /\ SweepTime \in Nat
  BY PollerAssumption
<1>2. Shortest \in Nat /\ Longest \in Nat /\ Shortest <= Longest
  BY <1>1 DEF Shortest, Longest
<1> QED BY <1>1, <1>2 DEF Slack, ClaimHold, Bound

(* What each form of update makes of a sweep.                              *)
Rec(pc, left, todo, on, read) == [pc |-> pc, left |-> left, todo |-> todo, on |-> on, read |-> read]
Moved(r, s) == DOMAIN sweep' = Sweepers /\ sweep'[r] = s /\ \A x \in Sweepers \ {r} : sweep'[x] = sweep[x]
LEMMA SweepForms ==
    ASSUME SweepsInv, NEW r \in Sweepers, NEW pc, NEW left, NEW todo, NEW on, NEW read
    PROVE  LET o == sweep[r] IN
           /\ sweep' = [sweep EXCEPT ![r].pc = pc] => Moved(r, Rec(pc, o.left, o.todo, o.on, o.read))
           /\ sweep' = [sweep EXCEPT ![r].pc = pc, ![r].todo = @ \ {on}, ![r].on = "", ![r].read = NoBody]
                 => Moved(r, Rec(pc, o.left, o.todo \ {on}, "", NoBody))
           /\ sweep' = [sweep EXCEPT ![r].pc = pc, ![r].left = left, ![r].todo = todo] => Moved(r, Rec(pc, left, todo, o.on, o.read))
           /\ sweep' = [sweep EXCEPT ![r].pc = pc, ![r].todo = todo] => Moved(r, Rec(pc, o.left, todo, o.on, o.read))
           /\ sweep' = [sweep EXCEPT ![r].pc = pc, ![r].on = on] => Moved(r, Rec(pc, o.left, o.todo, on, o.read))
           /\ sweep' = [sweep EXCEPT ![r].pc = pc, ![r].read = read] => Moved(r, Rec(pc, o.left, o.todo, o.on, read))
           /\ sweep' = [sweep EXCEPT ![r] = Rec(pc, left, todo, on, read)] => Moved(r, Rec(pc, left, todo, on, read))
<1>1. PICK o : o = sweep[r]
  OBVIOUS
<1>2. DOMAIN sweep = Sweepers /\ o = [pc |-> o.pc, left |-> o.left, todo |-> o.todo, on |-> o.on, read |-> o.read]
  BY <1>1 DEF SweepsInv, SweepOK, Shape
<1>3. sweep' = [sweep EXCEPT ![r].pc = pc] => Moved(r, Rec(pc, o.left, o.todo, o.on, o.read))
  BY <1>1, <1>2 DEF Rec, Moved
<1>4. sweep' = [sweep EXCEPT ![r].pc = pc, ![r].todo = @ \ {on}, ![r].on = "", ![r].read = NoBody]
        => Moved(r, Rec(pc, o.left, o.todo \ {on}, "", NoBody))
  BY <1>1, <1>2 DEF Rec, Moved
<1>5. sweep' = [sweep EXCEPT ![r].pc = pc, ![r].left = left, ![r].todo = todo] => Moved(r, Rec(pc, left, todo, o.on, o.read))
  BY <1>1, <1>2 DEF Rec, Moved
<1>6. sweep' = [sweep EXCEPT ![r].pc = pc, ![r].todo = todo] => Moved(r, Rec(pc, o.left, todo, o.on, o.read))
  BY <1>1, <1>2 DEF Rec, Moved
<1>7. sweep' = [sweep EXCEPT ![r].pc = pc, ![r].on = on] => Moved(r, Rec(pc, o.left, o.todo, on, o.read))
  BY <1>1, <1>2 DEF Rec, Moved
<1>8. sweep' = [sweep EXCEPT ![r].pc = pc, ![r].read = read] => Moved(r, Rec(pc, o.left, o.todo, o.on, read))
  BY <1>1, <1>2 DEF Rec, Moved
<1>9. sweep' = [sweep EXCEPT ![r] = Rec(pc, left, todo, on, read)] => Moved(r, Rec(pc, left, todo, on, read))
  BY <1>2 DEF Moved
<1> QED BY <1>1, <1>3, <1>4, <1>5, <1>6, <1>7, <1>8, <1>9

LEMMA RecIs ==
    ASSUME NEW pc, NEW left, NEW todo, NEW on, NEW read, NEW s, s = Rec(pc, left, todo, on, read)
    PROVE  Shape(s) /\ s.pc = pc /\ s.left = left /\ s.todo = todo /\ s.on = on /\ s.read = read
  BY DEF Rec, Shape

(* One replica's sweep moves on: what each part of the invariant asks.     *)
LEMMA SweepsMove ==
    ASSUME SweepsInv, NEW r \in Sweepers, NEW s, Moved(r, s), SweepOK(s), s.pc = "key" => r \in Loaded,
           pollClaim' = pollClaim \/ \E a \in Claimable : pollClaim' = [pollClaim EXCEPT ![a] = [left |-> ClaimHold, by |-> r]],
           unasked' \in [Claimable -> Nat], unforgotten' \in Nat, UNCHANGED discovers, DOMAIN served' = Asked
    PROVE  SweepsInv'
<1>1. DOMAIN sweep' = Sweepers /\ sweep'[r] = s /\ \A x \in Sweepers \ {r} : sweep'[x] = sweep[x]
  BY DEF Moved
<1>2. /\ DOMAIN pollClaim' = Claimable
      /\ \A a \in Claimable : /\ pollClaim'[a] = [left |-> pollClaim'[a].left, by |-> pollClaim'[a].by]
                              /\ pollClaim'[a].left \in 0..Shortest
  <2>1. CASE pollClaim' = pollClaim
    BY <2>1 DEF SweepsInv
  <2>2. CASE \E a \in Claimable : pollClaim' = [pollClaim EXCEPT ![a] = [left |-> ClaimHold, by |-> r]]
    BY <2>2, PollNumbers DEF SweepsInv
  <2> QED BY <2>1, <2>2
<1>3. \A x \in Sweepers : SweepOK(sweep'[x]) /\ (sweep'[x].pc = "key" => x \in Loaded)
  BY <1>1 DEF SweepsInv
<1>4. \A x \in Sweepers : SweepOK(sweep[x])' /\ (sweep[x].pc = "key" => x \in Loaded)'
  BY <1>3 DEF SweepOK, Shape, SeatPhase, KeyPhase, On
<1> QED BY <1>1, <1>2, <1>4 DEF SweepsInv

LEMMA ClaimsMove ==
    ASSUME ClaimsInv, NEW r \in Sweepers, NEW s, Moved(r, s), UNCHANGED <<pollClaim, turnedAway>>,
           \A a \in Claimable : pollClaim[a].by = r /\ pollClaim[a].left > 0 => OwnClaim(s, a)
    PROVE  ClaimsInv'
<1>1. ASSUME NEW x \in Sweepers, NEW a \in Claimable, pollClaim'[a].by = x, pollClaim'[a].left > 0
      PROVE  OwnClaim(sweep[x], a)'
  <2>1. OwnClaim(sweep'[x], a)
    BY <1>1 DEF ClaimsInv, Moved
  <2> QED BY <2>1 DEF OwnClaim, SeatPhase, KeyPhase, On
<1> QED BY <1>1 DEF ClaimsInv

LEMMA UntilIs == ASSUME NEW s, SweepOK(s), NEW a PROVE Until(s, a) \in Nat /\ Until(s, a) <= Longest + 2 * SweepTime /\ s.left <= Until(s, a)
  BY PollNumbers DEF SweepOK, Until

(* An account that was just asked is in time; so is one no closer to being *)
(* forgotten than it was.                                                  *)
LEMMA AskedMove ==
    ASSUME SweepsInv, SweepsInv', AskedInv, NEW r \in Sweepers, NEW s, Moved(r, s), UNCHANGED <<enrolled, discovers>>, NEW a \in Claimable,
           \/ unasked'[a] = 0
           \/ /\ unasked'[a] = unasked[a] /\ pollClaim'[a] = pollClaim[a]
              /\ BeingAsked(sweep[r], a) => BeingAsked(s, a) /\ s.left = sweep[r].left
              /\ Waiting(a) /\ MayCome(r, a) => Until(s, a) <= Until(sweep[r], a) \/ pollClaim[a].left > 0
    PROVE  IF Waiting(a)' THEN (a \in QuotaSeats \/ Loaded # {}) => InTime(a)' ELSE unasked'[a] = 0
<1>1. Waiting(a)' <=> Waiting(a)
  BY DEF Waiting
<1>2. /\ unasked[a] \in Nat /\ unasked'[a] \in Nat /\ pollClaim[a].left \in 0..Shortest /\ pollClaim'[a].left \in 0..Shortest
      /\ Shortest \in Nat /\ Bound \in Nat
  BY PollNumbers DEF SweepsInv
<1>0. Bound' = Bound /\ Shortest' = Shortest
  BY DEF Bound, Slack, Shortest, Longest
<1>3. CASE unasked'[a] = 0
  BY <1>1, <1>2, <1>3 DEF InTime
<1>4. CASE unasked'[a] # 0
  <2>1. /\ unasked'[a] = unasked[a] /\ pollClaim'[a] = pollClaim[a]
        /\ BeingAsked(sweep[r], a) => BeingAsked(s, a) /\ s.left = sweep[r].left
        /\ Waiting(a) /\ MayCome(r, a) => Until(s, a) <= Until(sweep[r], a) \/ pollClaim[a].left > 0
    BY <1>4
  <2>2. CASE ~ Waiting(a)
    BY <1>1, <2>1, <2>2 DEF AskedInv
  <2>3. CASE Waiting(a) /\ (a \in QuotaSeats \/ Loaded # {})
    <3>1. InTime(a)
      BY <2>3 DEF AskedInv
    <3>2. CASE \E x \in Sweepers : BeingAsked(sweep[x], a) /\ unasked[a] + sweep[x].left <= Bound
      <4>1. PICK x \in Sweepers : BeingAsked(sweep[x], a) /\ unasked[a] + sweep[x].left <= Bound
        BY <3>2
      <4>2. BeingAsked(sweep'[x], a) /\ unasked'[a] + sweep'[x].left <= Bound
        BY <2>1, <4>1 DEF Moved
      <4> QED BY <1>0, <1>1, <2>3, <4>2 DEF InTime, BeingAsked
    <3>3. CASE unasked[a] + pollClaim[a].left <= Shortest
      BY <1>0, <1>1, <2>1, <2>3, <3>3 DEF InTime
    <3>4. CASE pollClaim[a].left = 0 /\ \A x \in Sweepers : MayCome(x, a) => unasked[a] + Until(sweep[x], a) <= Bound
      <4>1. ASSUME NEW x \in Sweepers, MayCome(x, a) PROVE unasked'[a] + Until(sweep'[x], a) <= Bound
        <5>1. unasked[a] + Until(sweep[x], a) <= Bound
          BY <3>4, <4>1
        <5>2. Until(sweep'[x], a) <= Until(sweep[x], a)
          <6>1. CASE x = r
            BY <2>1, <2>3, <3>4, <4>1, <6>1 DEF Moved
          <6>2. CASE x # r
            <7>1. sweep'[x] = sweep[x] /\ SweepOK(sweep[x])
              BY <6>2 DEF SweepsInv, Moved
            <7>2. Until(sweep[x], a) \in Nat
              BY <7>1, UntilIs
            <7> QED BY <7>1, <7>2
          <6> QED BY <6>1, <6>2
        <5>3. Until(sweep'[x], a) \in Nat /\ Until(sweep[x], a) \in Nat
          <6>1. SweepOK(sweep[x])
            BY DEF SweepsInv
          <6>2. SweepOK(sweep'[x])
            BY DEF SweepsInv, SweepOK, Shape, SeatPhase, KeyPhase, On
          <6> QED BY <6>1, <6>2, UntilIs
        <5> QED BY <1>2, <2>1, <5>1, <5>2, <5>3
      <4>2. \A x \in Sweepers : MayCome(x, a)' => unasked'[a] + Until(sweep[x], a)' <= Bound
        BY <4>1 DEF MayCome, Until, Ahead, SeatPhase, KeyPhase
      <4> QED BY <1>0, <1>1, <2>1, <2>3, <3>4, <4>2 DEF InTime
    <3> QED BY <3>1, <3>2, <3>3, <3>4 DEF InTime
  <2> QED BY <1>1, <2>2, <2>3
<1> QED BY <1>3, <1>4

LEMMA ForgetsIs == ASSUME NEW s, SweepOK(s) PROVE ForgetsIn(s) \in Nat /\ ForgetsIn(s) <= Slack
  BY PollNumbers DEF SweepOK, ForgetsIn

StillSaid == \E a \in DiscoveryKeys : served[a] # "unset"
LEMMA ForgetMove ==
    ASSUME SweepsInv, SweepsInv', ForgetInv, NEW r \in Sweepers, NEW s, Moved(r, s), SweepOK(s), UNCHANGED discovers,
           \/ unforgotten' = 0
           \/ /\ unforgotten' = unforgotten
              /\ ~ discovers /\ StillSaid' => (StillSaid /\ ForgetsIn(s) <= ForgetsIn(sweep[r])) \/ unforgotten + ForgetsIn(s) <= Slack
              /\ ~ discovers /\ KeyPhase(s) /\ s.todo # {} => unforgotten + s.left <= SweepTime
    PROVE  ForgetInv'
<1> SUFFICES ASSUME ~ discovers PROVE ForgetInv'
  BY DEF ForgetInv
<1>0. /\ sweep'[r] = s /\ \A x \in Sweepers \ {r} : sweep'[x] = sweep[x]
      /\ unforgotten \in Nat /\ unforgotten' \in Nat /\ Slack \in Nat /\ SweepTime \in Nat
      /\ \A x \in Sweepers : SweepOK(sweep[x]) /\ SweepOK(sweep'[x])
  BY PollNumbers DEF Moved, SweepsInv
<1>1. \A x \in Sweepers : ForgetsIn(sweep[x]) \in Nat /\ ForgetsIn(sweep'[x]) \in Nat /\ ForgetsIn(sweep'[x]) <= Slack
  BY <1>0, ForgetsIs
<1>2. \A x \in Sweepers : sweep'[x].left \in Nat /\ (KeyPhase(sweep'[x]) => sweep'[x].left <= SweepTime)
  BY <1>0, PollNumbers DEF SweepOK, KeyPhase
<1>3. StillSaid' => \E x \in Sweepers : unforgotten' + ForgetsIn(sweep'[x]) <= Slack
  <2> SUFFICES ASSUME StillSaid' PROVE \E x \in Sweepers : unforgotten' + ForgetsIn(sweep'[x]) <= Slack
    OBVIOUS
  <2>1. CASE unforgotten' = 0
    BY <1>0, <1>1, <2>1
  <2>2. CASE unforgotten' = unforgotten /\ unforgotten + ForgetsIn(s) <= Slack
    BY <1>0, <2>2
  <2>3. CASE unforgotten' = unforgotten /\ StillSaid /\ ForgetsIn(s) <= ForgetsIn(sweep[r])
    <3>1. PICK x \in Sweepers : unforgotten + ForgetsIn(sweep[x]) <= Slack
      BY <2>3 DEF ForgetInv, StillSaid
    <3>2. ForgetsIn(sweep'[x]) <= ForgetsIn(sweep[x])
      BY <1>0, <1>1, <2>3
    <3>3. unforgotten' + ForgetsIn(sweep'[x]) <= Slack
      BY <1>0, <1>1, <2>3, <3>1, <3>2
    <3> QED BY <3>3
  <2> QED BY <2>1, <2>2, <2>3
<1>4. ASSUME NEW x \in Sweepers, KeyPhase(sweep'[x]), sweep'[x].todo # {} PROVE unforgotten' + sweep'[x].left <= SweepTime
  <2>1. CASE unforgotten' = 0
    BY <1>0, <1>2, <1>4, <2>1
  <2>2. CASE unforgotten' = unforgotten /\ x = r /\ unforgotten' # 0
    BY <1>0, <1>4, <2>2
  <2>3. CASE unforgotten' = unforgotten /\ x # r
    BY <1>0, <1>4, <2>3 DEF ForgetInv
  <2> QED BY <2>1, <2>2, <2>3
<1>5. Slack' = Slack
  BY DEF Slack, Longest
<1>6. StillSaid' => \E x \in Sweepers : unforgotten' + ForgetsIn(sweep[x])' <= Slack
  BY <1>3 DEF ForgetsIn, SeatPhase
<1>7. \A x \in Sweepers : KeyPhase(sweep[x])' /\ sweep'[x].todo # {} => unforgotten' + sweep'[x].left <= SweepTime
  BY <1>4 DEF KeyPhase
<1> QED BY <1>5, <1>6, <1>7 DEF ForgetInv, StillSaid

LEMMA QuotaMove ==
    ASSUME QuotaInv, NEW r \in Sweepers, NEW s, Moved(r, s), UNCHANGED <<quota, recorded>>, \A a \in QuotaSeats : served'[a] # "none",
           s.pc \in {"record", "bench"} => IsBody(s.on, s.read), s.pc = "bench" => recorded[s.on] # NoBody
    PROVE  QuotaInv'
<1>1. \A a \in QuotaSeats : QuotaOK(a)'
  BY DEF QuotaInv, QuotaOK
<1>2. \A x \in Sweepers : /\ sweep'[x].pc \in {"record", "bench"} => IsBody(sweep'[x].on, sweep'[x].read)
                          /\ sweep'[x].pc = "bench" => recorded'[sweep'[x].on] # NoBody
  BY DEF QuotaInv, Moved
<1> QED BY <1>1, <1>2 DEF QuotaInv

(* The five parts at once, for the steps that leave claims and quotas.     *)
ClaimsKept(r, s) == \A a \in Claimable : pollClaim[a].by = r /\ pollClaim[a].left > 0 => OwnClaim(s, a)
AskedKept(r, s) ==
    \A a \in Claimable :
        \/ unasked'[a] = 0
        \/ /\ unasked'[a] = unasked[a]
           /\ BeingAsked(sweep[r], a) => BeingAsked(s, a) /\ s.left = sweep[r].left
           /\ Waiting(a) /\ MayCome(r, a) => Until(s, a) <= Until(sweep[r], a) \/ pollClaim[a].left > 0
ForgetKept(r, s) ==
    \/ unforgotten' = 0
    \/ /\ unforgotten' = unforgotten
       /\ ~ discovers /\ StillSaid' => (StillSaid /\ ForgetsIn(s) <= ForgetsIn(sweep[r])) \/ unforgotten + ForgetsIn(s) <= Slack
       /\ ~ discovers /\ KeyPhase(s) /\ s.todo # {} => unforgotten + s.left <= SweepTime
BodyKept(s) == (s.pc \in {"record", "bench"} => IsBody(s.on, s.read)) /\ (s.pc = "bench" => recorded[s.on] # NoBody)

LEMMA PollMost ==
    ASSUME PollInv, NEW r \in Sweepers, NEW s, Moved(r, s), SweepOK(s), s.pc = "key" => r \in Loaded,
           UNCHANGED <<pollClaim, turnedAway, enrolled, discovers>>,
           ClaimsKept(r, s), AskedKept(r, s), ForgetKept(r, s), unasked' \in [Claimable -> Nat], DOMAIN served' = Asked
    PROVE  SweepsInv' /\ ClaimsInv' /\ AskedInv' /\ ForgetInv'
<1>1. unforgotten' \in Nat
  BY DEF ForgetKept, PollInv, SweepsInv
<1>2. SweepsInv'
  BY <1>1, SweepsMove DEF PollInv
<1>3. ClaimsInv'
  BY ClaimsMove DEF PollInv, ClaimsKept
<1>4. AskedInv'
  <2>1. ASSUME NEW a \in Claimable PROVE IF Waiting(a)' THEN (a \in QuotaSeats \/ Loaded # {}) => InTime(a)' ELSE unasked'[a] = 0
    BY <1>2, AskedMove DEF PollInv, AskedKept
  <2> QED BY <2>1 DEF AskedInv
<1>5. ForgetInv'
  BY <1>2, ForgetMove DEF PollInv, ForgetKept
<1> QED BY <1>2, <1>3, <1>4, <1>5

LEMMA PollMoves ==
    ASSUME PollInv, NEW r \in Sweepers, NEW s, Moved(r, s), SweepOK(s), s.pc = "key" => r \in Loaded,
           UNCHANGED <<pollClaim, turnedAway, quota, recorded, enrolled, discovers>>,
           ClaimsKept(r, s), AskedKept(r, s), ForgetKept(r, s), BodyKept(s),
           unasked' \in [Claimable -> Nat], DOMAIN served' = Asked, \A a \in QuotaSeats : served'[a] # "none"
    PROVE  PollInv'
<1>1. SweepsInv' /\ ClaimsInv' /\ AskedInv' /\ ForgetInv'
  BY PollMost
<1>2. QuotaInv'
  BY QuotaMove DEF PollInv, BodyKept
<1> QED BY <1>1, <1>2 DEF PollInv

LEMMA PollWakes == ASSUME PollInv, NEW r \in Sweepers, WakesToSweep(r), UNCHANGED enrolled PROVE PollInv'
<1>0. /\ SweepsInv /\ ClaimsInv /\ UNCHANGED <<pollClaim, turnedAway, quota, recorded, enrolled, discovers, served>>
      /\ DOMAIN served' = Asked /\ \A a \in QuotaSeats : served'[a] # "none"
  BY DEF PollInv, SweepsInv, QuotaInv, QuotaOK, WakesToSweep
<1>1. PICK o : o = sweep[r] /\ SweepOK(o) /\ o.pc = "asleep" /\ o.left = 0
  BY <1>0 DEF SweepsInv, WakesToSweep, SweepAt
<1>2. \A a \in Claimable : ~ (pollClaim[a].by = r /\ pollClaim[a].left > 0)
  <2>1. \A a \in Claimable : pollClaim[a].left \in Nat
    BY <1>0, PollNumbers DEF SweepsInv
  <2> QED BY <1>0, <1>1, <2>1 DEF ClaimsInv, OwnClaim
<1>3. CASE sweep' = [sweep EXCEPT ![r].pc = "seats", ![r].left = SweepTime, ![r].todo = SchedulableSeats]
           /\ UNCHANGED <<unasked, unforgotten>>
  <2>1. PICK s : s = Rec("seats", SweepTime, SchedulableSeats, o.on, o.read)
    OBVIOUS
  <2>2. Moved(r, s)
    BY <1>0, <1>1, <1>3, <2>1, SweepForms
  <2>3. Shape(s) /\ s.pc = "seats" /\ s.left = SweepTime /\ s.todo = SchedulableSeats
    BY <2>1, RecIs
  <2>4. SweepOK(s) /\ s.pc # "key" /\ BodyKept(s)
    BY <2>3, PollNumbers DEF SweepOK, SweepPcs, SeatPhase, KeyPhase, On, SchedulableSeats, BodyKept
  <2>5. ClaimsKept(r, s)
    BY <1>2 DEF ClaimsKept
  <2>6. ASSUME NEW a \in Claimable, Waiting(a) PROVE Until(s, a) <= Until(o, a)
    <3>1. Ahead(s, a)
      BY <2>3, <2>6 DEF Ahead, SeatPhase, SchedulableSeats, Waiting, Claimable
    <3> QED BY <1>1, <2>3, <3>1, PollNumbers DEF Until
  <2>7. AskedKept(r, s)
    BY <1>1, <1>3, <2>6 DEF AskedKept, BeingAsked
  <2>8. ForgetKept(r, s)
    BY <1>0, <1>1, <1>3, <2>3, PollNumbers DEF ForgetKept, ForgetsIn, StillSaid, SeatPhase, KeyPhase
  <2>9. unasked' \in [Claimable -> Nat]
    BY <1>0, <1>3 DEF SweepsInv
  <2> QED BY <1>0, <2>2, <2>4, <2>5, <2>7, <2>8, <2>9, PollMoves
<1>4. CASE SweepsOver(r) /\ unasked' = [a \in Claimable |-> 0] /\ unforgotten' = 0
  <2>1. PICK wait \in Shortest..Longest : sweep' = [sweep EXCEPT ![r] = Asleep(wait)]
    BY <1>4 DEF SweepsOver
  <2>2. PICK s : s = Rec("asleep", wait, {}, "", NoBody)
    OBVIOUS
  <2>3. Moved(r, s)
    BY <1>0, <2>1, <2>2, SweepForms DEF Asleep, Rec
  <2>4. Shape(s) /\ s.pc = "asleep" /\ s.left = wait /\ s.todo = {}
    BY <2>2 DEF Rec, Shape
  <2>5. SweepOK(s) /\ s.pc # "key" /\ BodyKept(s)
    BY <2>4, PollNumbers DEF SweepOK, SweepPcs, SeatPhase, KeyPhase, On, BodyKept
  <2>6. ClaimsKept(r, s) /\ AskedKept(r, s) /\ ForgetKept(r, s) /\ unasked' \in [Claimable -> Nat]
    BY <1>2, <1>4 DEF ClaimsKept, AskedKept, ForgetKept
  <2> QED BY <1>0, <2>3, <2>5, <2>6, PollMoves
<1> QED BY <1>3, <1>4 DEF WakesToSweep

LEMMA PollEnds == ASSUME PollInv, NEW r \in Sweepers, SweepEnds(r), UNCHANGED enrolled PROVE PollInv'
<1>0. /\ SweepsInv /\ UNCHANGED <<pollClaim, turnedAway, quota, recorded, enrolled, discovers, served, unasked, unforgotten>>
      /\ DOMAIN served' = Asked /\ \A a \in QuotaSeats : served'[a] # "none"
  BY DEF PollInv, SweepsInv, QuotaInv, QuotaOK, SweepEnds
<1>1. PICK o : o = sweep[r] /\ SweepOK(o) /\ o.pc = "xai"
  BY <1>0 DEF SweepsInv, SweepEnds, SweepAt
<1>2. PICK wait \in Shortest..Longest : sweep' = [sweep EXCEPT ![r] = Asleep(wait)]
  BY DEF SweepsOver, SweepEnds
<1>3. PICK s : s = Rec("asleep", wait, {}, "", NoBody)
  OBVIOUS
<1>4. Moved(r, s)
  BY <1>0, <1>2, <1>3, SweepForms DEF Asleep, Rec
<1>5. Shape(s) /\ s.pc = "asleep" /\ s.left = wait /\ s.todo = {}
  BY <1>3 DEF Rec, Shape
<1>6. SweepOK(s) /\ s.pc # "key" /\ BodyKept(s)
  BY <1>5, PollNumbers DEF SweepOK, SweepPcs, SeatPhase, KeyPhase, On, BodyKept
<1>7. ClaimsKept(r, s)
  BY <1>0, <1>5, PollNumbers DEF ClaimsKept, OwnClaim, SweepsInv
<1>8. o.left \in Nat /\ wait \in Nat /\ wait <= Longest
  BY <1>1, PollNumbers DEF SweepOK
<1>9. \A a : Until(s, a) <= Until(o, a)
  BY <1>1, <1>5, <1>8, PollNumbers DEF Until, Ahead, SeatPhase, KeyPhase
<1>10. AskedKept(r, s)
  BY <1>0, <1>1, <1>9 DEF AskedKept, BeingAsked
<1>11. ForgetKept(r, s)
  BY <1>0, <1>1, <1>5, <1>8, PollNumbers DEF ForgetKept, ForgetsIn, StillSaid, SeatPhase, KeyPhase
<1>12. unasked' \in [Claimable -> Nat]
  BY <1>0 DEF SweepsInv
<1> QED BY <1>0, <1>4, <1>6, <1>7, <1>10, <1>11, <1>12, PollMoves

(* A step that leaves the account it was on, or passes one over.           *)
LEMMA PollLeaves ==
    ASSUME PollInv, NEW r \in Sweepers, NEW a \in Claimable, a \in sweep[r].todo,
           NEW pc, Onward(r, a, pc), UNCHANGED <<pollClaim, turnedAway, quota, recorded, enrolled, discovers, unforgotten>>,
           (pc = "seats" /\ SeatPhase(sweep[r])) \/ (pc = "keys" /\ KeyPhase(sweep[r])),
           On(sweep[r]) => sweep[r].on = a,
           \/ unasked' = [unasked EXCEPT ![a] = 0]
           \/ /\ unasked' = unasked
              /\ ~ BeingAsked(sweep[r], a)
              /\ pollClaim[a].left > 0 \/ ~ Ahead(sweep[r], a) \/ ~ MayCome(r, a),
           DOMAIN served' = Asked, \A x \in QuotaSeats : served'[x] # "none",
           StillSaid' => StillSaid \/ a \in DiscoveryKeys
    PROVE  PollInv'
<1>0. SweepsInv /\ ClaimsInv /\ ForgetInv
  BY DEF PollInv
<1>1. PICK o : o = sweep[r] /\ SweepOK(o)
  BY <1>0 DEF SweepsInv
<1>2. PICK s : s = Rec(pc, o.left, o.todo \ {a}, "", NoBody)
  OBVIOUS
<1>3. Moved(r, s)
  BY <1>0, <1>1, <1>2, SweepForms DEF Onward
<1>4. Shape(s) /\ s.pc = pc /\ s.left = o.left /\ s.todo = o.todo \ {a}
  BY <1>2 DEF Rec, Shape
<1>5. /\ pc \in {"seats", "keys"} /\ o.pc # "asleep" /\ o.left \in Nat /\ o.left <= SweepTime
      /\ (pc = "seats" <=> SeatPhase(o)) /\ (pc = "keys" <=> KeyPhase(o)) /\ o.pc \notin {"forget", "load"}
      /\ (pc = "seats" <=> SeatPhase(s)) /\ (pc = "keys" <=> KeyPhase(s))
      /\ (SeatPhase(o) => o.todo \subseteq QuotaSeats) /\ (KeyPhase(o) => o.todo \subseteq DiscoveryKeys)
  BY <1>1, <1>4, PollerAssumption DEF SeatPhase, KeyPhase, SweepOK
<1>6. SweepOK(s) /\ s.pc # "key" /\ BodyKept(s)
  BY <1>1, <1>4, <1>5 DEF SweepOK, SweepPcs, On, BodyKept
<1>7. ClaimsKept(r, s)
  <2>1. ASSUME NEW x \in Claimable, pollClaim[x].by = r, pollClaim[x].left > 0 PROVE OwnClaim(s, x)
    <3>1. OwnClaim(o, x)
      BY <1>0, <1>1, <2>1 DEF ClaimsInv
    <3> QED BY <1>1, <1>4, <1>5, <3>1 DEF OwnClaim
  <2> QED BY <2>1 DEF ClaimsKept
<1>8. AskedKept(r, s) /\ unasked' \in [Claimable -> Nat]
  <2>0. unasked \in [Claimable -> Nat]
    BY <1>0 DEF SweepsInv
  <2>1. ASSUME NEW x \in Claimable, x # a PROVE (BeingAsked(o, x) => BeingAsked(s, x) /\ s.left = o.left) /\ Until(s, x) <= Until(o, x)
    <3>1. ~ BeingAsked(o, x)
      BY <1>1, <2>1 DEF BeingAsked, On
    <3>2. Ahead(o, x) => Ahead(s, x)
      BY <1>4, <1>5, <2>1 DEF Ahead
    <3> QED BY <1>4, <1>5, <3>1, <3>2, PollNumbers DEF Until
  <2>2. ~ Ahead(o, a) => Until(s, a) <= Until(o, a)
    <3>1. ~ Ahead(s, a) \/ Ahead(o, a)
      BY <1>4, <1>5 DEF Ahead
    <3> QED BY <1>4, <1>5, <3>1, PollNumbers DEF Until
  <2>3. CASE unasked' = [unasked EXCEPT ![a] = 0]
    BY <1>1, <2>0, <2>1, <2>3 DEF AskedKept
  <2>4. CASE unasked' = unasked /\ ~ BeingAsked(o, a) /\ (pollClaim[a].left > 0 \/ ~ Ahead(o, a) \/ ~ MayCome(r, a))
    BY <1>1, <2>0, <2>1, <2>2, <2>4 DEF AskedKept
  <2> QED BY <1>1, <2>3, <2>4
<1>9. ForgetKept(r, s)
  <2>1. ForgetsIn(s) = ForgetsIn(o)
    BY <1>4, <1>5 DEF ForgetsIn
  <2>2. ForgetsIn(s) \in Nat /\ (KeyPhase(o) => ForgetsIn(s) = o.left + Longest + SweepTime)
    BY <1>4, <1>5, PollNumbers DEF ForgetsIn
  <2>3. ~ discovers /\ KeyPhase(o) => unforgotten + o.left <= SweepTime
    BY <1>0, <1>1 DEF ForgetInv
  <2>4. unforgotten \in Nat
    BY <1>0 DEF SweepsInv
  <2>5. ~ discovers /\ KeyPhase(o) => unforgotten + ForgetsIn(s) <= Slack
    BY <1>5, <2>2, <2>3, <2>4, PollNumbers
  <2>6. a \in DiscoveryKeys => KeyPhase(o)
    BY <1>1, <1>5, PollerAssumption
  <2> QED BY <1>1, <1>4, <1>5, <2>1, <2>2, <2>3, <2>5, <2>6 DEF ForgetKept
<1> QED BY <1>3, <1>6, <1>7, <1>8, <1>9, PollMoves

LEMMA ServedSet ==
    ASSUME PollInv, NEW a \in Asked, SetServed(a)
    PROVE  /\ DOMAIN served' = Asked /\ \A x \in QuotaSeats : served'[x] # "none"
           /\ StillSaid' => StillSaid \/ a \in DiscoveryKeys
<1>1. DOMAIN served = Asked /\ \A x \in QuotaSeats : served[x] # "none"
  BY DEF PollInv, SweepsInv, QuotaInv, QuotaOK
<1>2. QuotaSeats \subseteq Asked /\ DiscoveryKeys \subseteq Asked
  BY DEF Asked, Claimable
<1>3. CASE UNCHANGED served
  BY <1>1, <1>3 DEF StillSaid
<1>4. CASE \E answer \in ListAnswers(a) : served' = [served EXCEPT ![a] = answer]
  <2>1. PICK answer \in ListAnswers(a) : served' = [served EXCEPT ![a] = answer]
    BY <1>4
  <2>2. DOMAIN served' = Asked /\ served'[a] = answer /\ \A x \in Asked \ {a} : served'[x] = served[x]
    BY <1>1, <2>1
  <2>3. a \in QuotaSeats => answer # "none"
    <3>1. PICK list \in ModelLists : answer = CASE a \in DiscoveryKeys -> PageIds(list)
                                                [] a \in Codex -> ParseServed(list) [] OTHER -> ChatListing(list)
      BY DEF ListAnswers
    <3>2. a \in QuotaSeats => a \notin DiscoveryKeys
      BY PollerAssumption
    <3> QED BY <3>1, <3>2 DEF ParseServed, ChatListing
  <2>4. \A x \in QuotaSeats : served'[x] # "none"
    BY <1>1, <1>2, <2>2, <2>3
  <2>5. StillSaid' => StillSaid \/ a \in DiscoveryKeys
    BY <1>2, <2>2 DEF StillSaid
  <2> QED BY <2>2, <2>4, <2>5
<1> QED BY <1>3, <1>4 DEF SetServed

LEMMA ServedSame ==
    ASSUME PollInv, UNCHANGED served
    PROVE  DOMAIN served' = Asked /\ (\A x \in QuotaSeats : served'[x] # "none") /\ (StillSaid' => StillSaid)
  BY DEF PollInv, SweepsInv, QuotaInv, QuotaOK, StillSaid

(* An account is claimed.                                                  *)
LEMMA PollClaims ==
    ASSUME PollInv, NEW r \in Sweepers, NEW a \in Claimable, a \in sweep[r].todo, NEW pc, Claimed(r, a, pc),
           UNCHANGED <<quota, served, discovers, unforgotten, recorded, enrolled>>,
           \/ pc = "quota" /\ SweepAt(r, "seats") /\ a \in QuotaSeats
           \/ pc = "key" /\ SweepAt(r, "keys") /\ a \in DiscoveryKeys /\ r \in Loaded
    PROVE  PollInv'
<1>0. SweepsInv /\ ClaimsInv /\ ForgetInv /\ AskedInv /\ QuotaInv
  BY DEF PollInv
<1>1. PICK o : o = sweep[r] /\ SweepOK(o)
  BY <1>0 DEF SweepsInv
<1>2. PICK s : s = Rec(pc, o.left, o.todo, a, o.read)
  OBVIOUS
<1>3. Moved(r, s)
  BY <1>0, <1>1, <1>2, SweepForms DEF Claimed
<1>4. Shape(s) /\ s.pc = pc /\ s.left = o.left /\ s.todo = o.todo /\ s.on = a
  BY <1>2 DEF Rec, Shape
<1>5. /\ (pc = "quota" /\ o.pc = "seats" /\ a \in QuotaSeats) \/ (pc = "key" /\ o.pc = "keys" /\ a \in DiscoveryKeys /\ r \in Loaded)
      /\ o.left \in Nat /\ o.left <= SweepTime
      /\ (SeatPhase(o) <=> SeatPhase(s)) /\ (KeyPhase(o) <=> KeyPhase(s)) /\ ~ On(o) /\ On(s)
      /\ a \in o.todo /\ (SeatPhase(o) \/ KeyPhase(o)) /\ (SeatPhase(o) <=> pc = "quota")
  BY <1>1, <1>4 DEF SweepAt, SeatPhase, KeyPhase, SweepOK, On
<1>6. /\ SweepOK(s) /\ BodyKept(s) /\ (s.pc = "key" => r \in Loaded)
  BY <1>1, <1>4, <1>5 DEF SweepOK, SweepPcs, BodyKept
<1>7. /\ pollClaim[a].left = 0 /\ pollClaim' = [pollClaim EXCEPT ![a] = [left |-> ClaimHold, by |-> r]]
      /\ UNCHANGED <<unasked, turnedAway>>
  BY DEF Claimed
<1>8. /\ DOMAIN pollClaim = Claimable /\ pollClaim'[a].by = r /\ pollClaim'[a].left = Shortest
      /\ \A x \in Claimable \ {a} : pollClaim'[x] = pollClaim[x]
  BY <1>0, <1>7, PollNumbers DEF SweepsInv
<1>9. SweepsInv'
  <2>1. unasked' \in [Claimable -> Nat] /\ unforgotten' \in Nat /\ DOMAIN served' = Asked
    BY <1>0, <1>7 DEF SweepsInv
  <2> QED BY <1>0, <1>3, <1>6, <1>7, <2>1, SweepsMove
<1>10. ClaimsInv'
  <2>1. ASSUME NEW x \in Sweepers, NEW y \in Claimable, pollClaim'[y].by = x, pollClaim'[y].left > 0 PROVE OwnClaim(sweep[x], y)'
    <3>1. CASE y = a
      <4>1. x = r /\ sweep'[x] = s
        BY <1>3, <1>8, <2>1, <3>1 DEF Moved
      <4>2. s.pc # "asleep" /\ s.on = a /\ On(s) /\ (SeatPhase(s) \/ s.pc \in {"forget", "load"} => a \in QuotaSeats)
        BY <1>4, <1>5
      <4> QED BY <3>1, <4>1, <4>2 DEF OwnClaim, SeatPhase, KeyPhase, On
    <3>2. CASE y # a
      <4>1. OwnClaim(sweep[x], y) /\ pollClaim'[y] = pollClaim[y]
        BY <1>0, <1>8, <2>1, <3>2 DEF ClaimsInv
      <4>2. CASE x # r
        <5>1. sweep'[x] = sweep[x]
          BY <1>3, <4>2 DEF Moved
        <5> QED BY <4>1, <5>1 DEF OwnClaim, SeatPhase, KeyPhase, On
      <4>3. CASE x = r
        <5>1. sweep'[x] = s /\ sweep[x] = o
          BY <1>1, <1>3, <4>3 DEF Moved
        <5>2. /\ o.pc # "asleep" /\ s.pc # "asleep" /\ s.pc \notin {"forget", "load"} /\ y \notin s.todo
              /\ (SeatPhase(s) => y \in QuotaSeats)
          BY <1>4, <1>5, <4>1, <5>1 DEF OwnClaim
        <5> QED BY <5>1, <5>2 DEF OwnClaim, SeatPhase, KeyPhase, On
      <4> QED BY <4>2, <4>3
    <3> QED BY <3>1, <3>2
  <2> QED BY <1>0, <1>7, <2>1 DEF ClaimsInv
<1>11. AskedInv'
  <2>1. ASSUME NEW x \in Claimable, x # a PROVE IF Waiting(x)' THEN (x \in QuotaSeats \/ Loaded # {}) => InTime(x)' ELSE unasked'[x] = 0
    <3>1. ~ BeingAsked(o, x)
      BY <1>5 DEF BeingAsked
    <3>2. Ahead(o, x) => Ahead(s, x)
      BY <1>4, <1>5, <2>1 DEF Ahead
    <3>3. Until(s, x) <= Until(o, x)
      BY <1>4, <1>5, <3>2, PollNumbers DEF Until
    <3> QED BY <1>0, <1>1, <1>3, <1>7, <1>8, <1>9, <2>1, <3>1, <3>3, AskedMove
  <2>2. IF Waiting(a)' THEN (a \in QuotaSeats \/ Loaded # {}) => InTime(a)' ELSE unasked'[a] = 0
    <3>0. Waiting(a)' <=> Waiting(a)
      BY DEF Waiting
    <3>1. CASE ~ Waiting(a)
      BY <1>0, <1>7, <3>0, <3>1 DEF AskedInv
    <3>2. CASE Waiting(a)
      <4>1. InTime(a)
        BY <1>0, <1>5, <3>2 DEF AskedInv
      <4>2. /\ unasked[a] \in Nat /\ Bound \in Nat /\ Bound' = Bound
        BY <1>0, PollNumbers DEF SweepsInv, Bound, Slack, Shortest, Longest
      <4>3. CASE \E x \in Sweepers : BeingAsked(sweep[x], a) /\ unasked[a] + sweep[x].left <= Bound
        <5>1. PICK x \in Sweepers : BeingAsked(sweep[x], a) /\ unasked[a] + sweep[x].left <= Bound
          BY <4>3
        <5>2. x # r
          BY <1>1, <1>5, <5>1 DEF BeingAsked
        <5>3. BeingAsked(sweep'[x], a) /\ unasked'[a] + sweep'[x].left <= Bound
          BY <1>3, <1>7, <5>1, <5>2 DEF Moved
        <5>4. InTime(a)'
          BY <4>2, <5>3 DEF InTime, BeingAsked
        <5> QED BY <3>0, <3>2, <5>4
      <4>4. ASSUME unasked[a] + o.left <= Bound PROVE InTime(a)'
        <5>1. BeingAsked(s, a) /\ s = sweep'[r] /\ unasked'[a] + s.left <= Bound
          BY <1>3, <1>4, <1>5, <1>7, <4>4 DEF BeingAsked, Moved
        <5> QED BY <4>2, <5>1 DEF InTime, BeingAsked
      <4>5. CASE unasked[a] + pollClaim[a].left <= Shortest
        BY <1>5, <1>7, <3>0, <3>2, <4>2, <4>4, <4>5, PollNumbers
      <4>6. CASE pollClaim[a].left = 0 /\ \A x \in Sweepers : MayCome(x, a) => unasked[a] + Until(sweep[x], a) <= Bound
        <5>1. unasked[a] + Until(o, a) <= Bound
          BY <1>1, <1>5, <4>6 DEF MayCome
        <5>2. o.left <= Until(o, a) /\ Until(o, a) \in Nat
          BY <1>1, UntilIs
        <5> QED BY <1>5, <3>0, <3>2, <4>2, <4>4, <5>1, <5>2
      <4> QED BY <4>1, <4>3, <4>5, <4>6 DEF InTime
    <3> QED BY <3>1, <3>2
  <2> QED BY <2>1, <2>2 DEF AskedInv
<1>12. ForgetInv'
  <2>1. ForgetsIn(s) = ForgetsIn(o) /\ ForgetsIn(s) \in Nat
    BY <1>4, <1>5, PollNumbers DEF ForgetsIn
  <2>2. StillSaid' => StillSaid
    BY DEF StillSaid
  <2>3. ~ discovers /\ KeyPhase(s) /\ s.todo # {} => unforgotten + s.left <= SweepTime
    BY <1>0, <1>1, <1>4, <1>5 DEF ForgetInv
  <2> QED BY <1>0, <1>1, <1>3, <1>6, <1>9, <2>1, <2>2, <2>3, ForgetMove
<1>13. QuotaInv'
  <2>1. \A x \in QuotaSeats : served'[x] # "none"
    BY <1>0 DEF QuotaInv, QuotaOK
  <2> QED BY <1>0, <1>3, <1>6, <2>1, QuotaMove DEF BodyKept
<1> QED BY <1>9, <1>10, <1>11, <1>12, <1>13 DEF PollInv

LEMMA NotMine ==
    ASSUME PollInv, NEW r \in Sweepers, NEW a \in Claimable, a \in sweep[r].todo, pollClaim[a].left > 0,
           SweepAt(r, "seats") \/ SweepAt(r, "keys")
    PROVE  pollClaim[a].by # r
  BY DEF PollInv, ClaimsInv, OwnClaim, SweepAt, SeatPhase, KeyPhase, On

LEMMA PollSweeps ==
    ASSUME PollInv, NEW r \in Sweepers, UNCHANGED enrolled,
           (\E a \in QuotaSeats : SweepSeat(r, a)) \/ (\E a \in DiscoveryKeys : SweepKey(r, a))
    PROVE  PollInv'
<1>1. ASSUME NEW a \in QuotaSeats, SweepSeat(r, a) PROVE PollInv'
  <2>0. /\ a \in Claimable /\ a \in sweep[r].todo /\ SweepAt(r, "seats") /\ SeatPhase(sweep[r]) /\ ~ On(sweep[r]) /\ ~ BeingAsked(sweep[r], a)
        /\ UNCHANGED <<quota, served, discovers, unforgotten, recorded, enrolled>> /\ turnedAway = {}
    BY <1>1 DEF SweepSeat, Claimable, SweepAt, SeatPhase, On, BeingAsked, PollInv, ClaimsInv
  <2>1. CASE Claimed(r, a, "quota")
    BY <2>0, <2>1, PollClaims
  <2>2. CASE TurnedAway(r, a, "seats")
    <3>1. Onward(r, a, "seats") /\ pollClaim[a].left > 0 /\ UNCHANGED <<pollClaim, unasked, turnedAway>>
      BY <2>0, <2>2, NotMine DEF TurnedAway
    <3> QED BY <2>0, <3>1, ServedSame, PollLeaves
  <2>3. CASE RedisSilent(r, a, "seats")
    <3>1. Onward(r, a, "seats") /\ unasked' = [unasked EXCEPT ![a] = 0] /\ UNCHANGED <<pollClaim, turnedAway>>
      BY <2>3 DEF RedisSilent
    <3> QED BY <2>0, <3>1, ServedSame, PollLeaves
  <2> QED BY <1>1, <2>1, <2>2, <2>3 DEF SweepSeat
<1>2. ASSUME NEW a \in DiscoveryKeys, SweepKey(r, a) PROVE PollInv'
  <2>0. /\ a \in Claimable /\ a \in sweep[r].todo /\ SweepAt(r, "keys") /\ KeyPhase(sweep[r]) /\ ~ On(sweep[r]) /\ ~ BeingAsked(sweep[r], a)
        /\ UNCHANGED <<quota, served, discovers, unforgotten, recorded, enrolled>> /\ turnedAway = {}
    BY <1>2 DEF SweepKey, Claimable, SweepAt, KeyPhase, On, BeingAsked, PollInv, ClaimsInv
  <2>1. CASE r \in Loaded /\ Claimed(r, a, "key")
    BY <2>0, <2>1, PollClaims
  <2>2. CASE TurnedAway(r, a, "keys")
    <3>1. Onward(r, a, "keys") /\ pollClaim[a].left > 0 /\ UNCHANGED <<pollClaim, unasked, turnedAway>>
      BY <2>0, <2>2, NotMine DEF TurnedAway
    <3> QED BY <2>0, <3>1, ServedSame, PollLeaves
  <2>3. CASE RedisSilent(r, a, "keys")
    <3>1. Onward(r, a, "keys") /\ unasked' = [unasked EXCEPT ![a] = 0] /\ UNCHANGED <<pollClaim, turnedAway>>
      BY <2>3 DEF RedisSilent
    <3> QED BY <2>0, <3>1, ServedSame, PollLeaves
  <2>4. CASE r \notin Loaded /\ Onward(r, a, "keys") /\ UNCHANGED <<pollClaim, unasked, turnedAway>>
    <3>1. ~ MayCome(r, a)
      BY <1>2, <2>4, PollerAssumption DEF MayCome
    <3> QED BY <2>0, <2>4, <3>1, ServedSame, PollLeaves
  <2> QED BY <1>2, <2>1, <2>2, <2>3, <2>4 DEF SweepKey, MayAsk
<1> QED BY <1>1, <1>2

(* The seat or key a sweep is on is done with.                             *)
LEMMA OnIs ==
    ASSUME PollInv, NEW r \in Sweepers, On(sweep[r])
    PROVE  /\ sweep[r].on \in Claimable /\ sweep[r].on \in sweep[r].todo /\ sweep[r].on \in Asked
           /\ SeatPhase(sweep[r]) => sweep[r].on \in QuotaSeats
           /\ KeyPhase(sweep[r]) => sweep[r].on \in DiscoveryKeys
  BY DEF PollInv, SweepsInv, SweepOK, Asked

LEMMA PollDone ==
    ASSUME PollInv, NEW r \in Sweepers, UNCHANGED enrolled, SeatStale(r) \/ RecordFails(r) \/ AsksModels(r)
    PROVE  PollInv'
<1>0. PICK a : a = sweep[r].on
  OBVIOUS
<1>1. On(sweep[r]) /\ UNCHANGED <<pollClaim, turnedAway, quota, recorded, enrolled, discovers, unforgotten>>
  BY DEF SeatStale, RecordFails, AsksModels, SweepAt, On
<1>2. a \in Claimable /\ a \in sweep[r].todo /\ a \in Asked /\ (SeatPhase(sweep[r]) => a \in QuotaSeats)
  BY <1>0, <1>1, OnIs
<1>3. CASE SeatStale(r)
  <2>1. SeatPhase(sweep[r]) /\ Onward(r, a, "seats") /\ unasked' = [unasked EXCEPT ![a] = 0] /\ UNCHANGED served
    BY <1>0, <1>3 DEF SeatStale, SweepAt, SeatPhase
  <2> QED BY <1>0, <1>1, <1>2, <2>1, ServedSame, PollLeaves
<1>4. CASE RecordFails(r)
  <2>1. SeatPhase(sweep[r]) /\ Onward(r, a, "seats") /\ UNCHANGED <<served, unasked>> /\ sweep[r].pc = "record"
    BY <1>0, <1>4 DEF RecordFails, SweepAt, SeatPhase
  <2>2. ~ BeingAsked(sweep[r], a) /\ ~ Ahead(sweep[r], a)
    BY <1>0, <1>2, <2>1, PollerAssumption DEF BeingAsked, Ahead
  <2> QED BY <1>0, <1>1, <1>2, <2>1, <2>2, ServedSame, PollLeaves
<1>5. CASE AsksModels(r)
  <2>1. /\ sweep[r].pc = "models" /\ SetServed(a) /\ unasked' = [unasked EXCEPT ![a] = 0]
        /\ Onward(r, a, IF a \in QuotaSeats THEN "seats" ELSE "keys")
    BY <1>0, <1>5 DEF AsksModels, SweepAt
  <2>2. PICK pc : pc = IF a \in QuotaSeats THEN "seats" ELSE "keys"
    OBVIOUS
  <2>3. (pc = "seats" /\ SeatPhase(sweep[r])) \/ (pc = "keys" /\ KeyPhase(sweep[r]))
    BY <1>0, <1>2, <2>1, <2>2 DEF SeatPhase, KeyPhase, Claimable
  <2>4. Onward(r, a, pc)
    BY <2>1, <2>2
  <2> QED BY <1>0, <1>1, <1>2, <2>1, <2>3, <2>4, ServedSet, PollLeaves
<1> QED BY <1>3, <1>4, <1>5

(* A step that stays with its account, in the phase it is in.              *)
LEMMA StaysOn ==
    ASSUME PollInv, NEW r \in Sweepers, NEW s, NEW o, o = sweep[r], Shape(s), s.pc \in SweepPcs, s.left = o.left, s.todo = o.todo, s.on = o.on,
           On(s), On(o), SeatPhase(o) <=> SeatPhase(s), KeyPhase(o) <=> KeyPhase(s), SeatPhase(s) \/ KeyPhase(s),
           BeingAsked(o, o.on) => BeingAsked(s, o.on) \/ unasked'[o.on] = 0,
           unasked' = unasked \/ unasked' = [unasked EXCEPT ![o.on] = 0],
           Ahead(o, o.on) => Ahead(s, o.on) \/ unasked'[o.on] = 0,
           unforgotten' = unforgotten, UNCHANGED <<served, discovers>>
    PROVE  /\ SweepOK(s) /\ ClaimsKept(r, s) /\ AskedKept(r, s) /\ ForgetKept(r, s) /\ unasked' \in [Claimable -> Nat]
<1>0. SweepsInv /\ ClaimsInv /\ ForgetInv /\ SweepOK(o) /\ unasked \in [Claimable -> Nat]
  BY DEF PollInv, SweepsInv
<1>1. o.pc # "asleep" /\ s.pc # "asleep" /\ o.pc \notin {"forget", "load"} /\ s.pc \notin {"forget", "load"} /\ o.left \in Nat
  BY <1>0 DEF On, SweepOK
<1>2. SweepOK(s)
  BY <1>0, <1>1 DEF SweepOK
<1>3. ClaimsKept(r, s)
  BY <1>0, <1>1 DEF ClaimsKept, ClaimsInv, OwnClaim
<1>4. AskedKept(r, s) /\ unasked' \in [Claimable -> Nat]
  <2>1. ASSUME NEW x \in Claimable, x # o.on PROVE ~ BeingAsked(o, x) /\ Until(s, x) <= Until(o, x) /\ unasked'[x] = unasked[x]
    <3>1. Ahead(s, x) <=> Ahead(o, x)
      BY <1>1, <2>1 DEF Ahead
    <3> QED BY <1>0, <1>1, <2>1, <3>1, PollNumbers DEF Until, BeingAsked
  <2>2. o.on \in Claimable
    BY <1>0 DEF SweepOK
  <2>3. unasked' \in [Claimable -> Nat] /\ (unasked'[o.on] = 0 \/ unasked'[o.on] = unasked[o.on])
    BY <1>0, <2>2
  <2>4. unasked'[o.on] = 0 \/ Until(s, o.on) <= Until(o, o.on)
    BY <1>0, <1>1, PollNumbers DEF Until
  <2> QED BY <2>1, <2>2, <2>3, <2>4 DEF AskedKept
<1>5. ForgetKept(r, s)
  <2>1. ForgetsIn(s) = ForgetsIn(o) /\ ForgetsIn(s) \in Nat
    BY <1>1, PollNumbers DEF ForgetsIn
  <2>2. StillSaid' => StillSaid
    BY DEF StillSaid
  <2>3. ~ discovers /\ KeyPhase(s) /\ s.todo # {} => unforgotten + s.left <= SweepTime
    BY <1>0 DEF ForgetInv
  <2> QED BY <2>1, <2>2, <2>3 DEF ForgetKept
<1> QED BY <1>2, <1>3, <1>4, <1>5

LEMMA PollQuotaRead == ASSUME PollInv, NEW r \in Sweepers, QuotaRead(r), UNCHANGED enrolled PROVE PollInv'
<1>0. /\ UNCHANGED <<pollClaim, turnedAway, quota, recorded, enrolled, discovers, served, unforgotten>> /\ SweepsInv
      /\ DOMAIN served' = Asked /\ \A a \in QuotaSeats : served'[a] # "none"
  BY ServedSame DEF QuotaRead, PollInv
<1>1. PICK o : o = sweep[r] /\ o.pc = "quota"
  BY DEF QuotaRead, SweepAt
<1>2. PICK body \in BodiesOf(o.on) \cup {NoBody}, pc \in {"record", "models"} :
         /\ pc = "record" => IsBody(o.on, body)
         /\ sweep' = [sweep EXCEPT ![r].pc = pc, ![r].read = body]
  BY <1>1 DEF QuotaRead, IsBody
<1>3. PICK s : s = Rec(pc, o.left, o.todo, o.on, body)
  OBVIOUS
<1>4. Moved(r, s)
  BY <1>0, <1>1, <1>2, <1>3, SweepForms
<1>5. Shape(s) /\ s.pc = pc /\ s.left = o.left /\ s.todo = o.todo /\ s.on = o.on /\ s.read = body
  BY <1>3, RecIs
<1>6. o.on \in QuotaSeats /\ o.on \notin DiscoveryKeys /\ o.on \in Claimable
  <2>1. On(sweep[r]) /\ SeatPhase(sweep[r])
    BY <1>1 DEF On, SeatPhase
  <2> QED BY <1>1, <2>1, OnIs, PollerAssumption
<1>7. unasked' = [unasked EXCEPT ![o.on] = 0] /\ unasked'[o.on] = 0
  BY <1>0, <1>1, <1>6 DEF QuotaRead, SweepsInv
<1>8. /\ On(s) /\ On(o) /\ SeatPhase(o) /\ SeatPhase(s) /\ ~ KeyPhase(o) /\ ~ KeyPhase(s) /\ s.pc \in SweepPcs /\ s.pc # "key"
  BY <1>1, <1>2, <1>5, <1>6 DEF On, SeatPhase, KeyPhase, SweepPcs
<1>9. SweepOK(s) /\ ClaimsKept(r, s) /\ AskedKept(r, s) /\ ForgetKept(r, s) /\ unasked' \in [Claimable -> Nat]
  BY <1>0, <1>1, <1>5, <1>7, <1>8, StaysOn
<1>10. BodyKept(s)
  BY <1>2, <1>5 DEF BodyKept
<1> QED BY <1>0, <1>4, <1>8, <1>9, <1>10, PollMoves

LEMMA PollKeyAsked == ASSUME PollInv, NEW r \in Sweepers, KeyAsked(r), UNCHANGED enrolled PROVE PollInv'
<1>0. /\ UNCHANGED <<pollClaim, turnedAway, quota, recorded, enrolled, discovers, served, unasked, unforgotten>> /\ SweepsInv
      /\ DOMAIN served' = Asked /\ \A a \in QuotaSeats : served'[a] # "none"
  BY ServedSame DEF KeyAsked, PollInv
<1>1. PICK o : o = sweep[r] /\ o.pc = "key"
  BY DEF KeyAsked, SweepAt
<1>2. r \in Loaded /\ sweep' = [sweep EXCEPT ![r].pc = "models"]
  BY <1>0, <1>1 DEF KeyAsked, SweepGoes, SweepsInv
<1>3. PICK s : s = Rec("models", o.left, o.todo, o.on, o.read)
  OBVIOUS
<1>4. Moved(r, s)
  BY <1>0, <1>1, <1>2, <1>3, SweepForms
<1>5. Shape(s) /\ s.pc = "models" /\ s.left = o.left /\ s.todo = o.todo /\ s.on = o.on
  BY <1>3 DEF Rec, Shape
<1>6. o.on \in DiscoveryKeys /\ o.on \notin QuotaSeats
  <2>1. On(sweep[r]) /\ KeyPhase(sweep[r])
    BY <1>1 DEF On, KeyPhase
  <2> QED BY <1>1, <2>1, OnIs, PollerAssumption
<1>7. /\ On(s) /\ On(o) /\ KeyPhase(o) /\ KeyPhase(s) /\ ~ SeatPhase(o) /\ ~ SeatPhase(s) /\ s.pc \in SweepPcs /\ s.pc # "key"
      /\ BeingAsked(s, o.on) /\ (Ahead(o, o.on) => Ahead(s, o.on)) /\ BodyKept(s)
  BY <1>1, <1>5, <1>6 DEF On, SeatPhase, KeyPhase, SweepPcs, BeingAsked, Ahead, BodyKept
<1>8. SweepOK(s) /\ ClaimsKept(r, s) /\ AskedKept(r, s) /\ ForgetKept(r, s) /\ unasked' \in [Claimable -> Nat]
  BY <1>0, <1>1, <1>5, <1>7, StaysOn
<1> QED BY <1>0, <1>4, <1>7, <1>8, PollMoves

LEMMA PollRecords == ASSUME PollInv, NEW r \in Sweepers, RecordsQuota(r) \/ BenchesSeat(r), UNCHANGED enrolled PROVE PollInv'
<1>0. /\ UNCHANGED <<pollClaim, turnedAway, enrolled, discovers, served, unasked, unforgotten>> /\ SweepsInv /\ QuotaInv
      /\ DOMAIN served' = Asked /\ \A a \in QuotaSeats : served'[a] # "none"
  BY ServedSame DEF RecordsQuota, BenchesSeat, PollInv
<1>1. PICK o, seat : o = sweep[r] /\ seat = o.on /\ o.pc \in {"record", "bench"}
  BY DEF RecordsQuota, BenchesSeat, SweepAt
<1>2. PICK pc \in {"bench", "models"} :
         sweep' = [sweep EXCEPT ![r].pc = pc] /\ (pc = "bench" => RecordsQuota(r))
  BY <1>1 DEF RecordsQuota, BenchesSeat, SweepGoes
<1>3. PICK s : s = Rec(pc, o.left, o.todo, o.on, o.read)
  OBVIOUS
<1>4. Moved(r, s)
  BY <1>0, <1>1, <1>2, <1>3, SweepForms
<1>5. Shape(s) /\ s.pc = pc /\ s.left = o.left /\ s.todo = o.todo /\ s.on = o.on /\ s.read = o.read
  BY <1>3, RecIs
<1>6. seat \in QuotaSeats /\ seat \notin DiscoveryKeys
  <2>1. On(sweep[r]) /\ SeatPhase(sweep[r])
    BY <1>1 DEF On, SeatPhase
  <2> QED BY <1>1, <2>1, OnIs, PollerAssumption
<1>7. /\ On(s) /\ On(o) /\ SeatPhase(o) /\ SeatPhase(s) /\ ~ KeyPhase(o) /\ ~ KeyPhase(s) /\ s.pc \in SweepPcs /\ s.pc # "key"
      /\ ~ BeingAsked(o, o.on) /\ ~ Ahead(o, o.on)
  BY <1>1, <1>2, <1>5, <1>6 DEF On, SeatPhase, KeyPhase, SweepPcs, BeingAsked, Ahead
<1>8. SweepOK(s) /\ ClaimsKept(r, s) /\ AskedKept(r, s) /\ ForgetKept(r, s) /\ unasked' \in [Claimable -> Nat]
  BY <1>0, <1>1, <1>5, <1>7, StaysOn
<1>9. SweepsInv' /\ ClaimsInv' /\ AskedInv' /\ ForgetInv'
  BY <1>0, <1>4, <1>7, <1>8, PollMost
<1>10. IsBody(seat, o.read) /\ (o.pc = "bench" => recorded[seat] # NoBody) /\ QuotaOK(seat) /\ DOMAIN quota = QuotaSeats /\ DOMAIN recorded = QuotaSeats
  BY <1>0, <1>1, <1>6 DEF QuotaInv
<1>11. /\ DOMAIN quota' = QuotaSeats /\ DOMAIN recorded' = QuotaSeats /\ QuotaOK(seat)' /\ recorded'[seat] # NoBody
       /\ \A a \in QuotaSeats \ {seat} : quota'[a] = quota[a] /\ recorded'[a] = recorded[a]
  <2>1. CASE RecordsQuota(r)
    <3>1. /\ quota' = [quota EXCEPT ![seat] = ToldQuota(seat, Reading(seat, o.read))]
          /\ recorded' = [recorded EXCEPT ![seat] = o.read]
      BY <1>1, <2>1 DEF RecordsQuota
    <3>2. /\ DOMAIN quota' = QuotaSeats /\ DOMAIN recorded' = QuotaSeats /\ recorded'[seat] = o.read
          /\ quota'[seat] = ToldQuota(seat, Reading(seat, o.read))
          /\ \A a \in QuotaSeats \ {seat} : quota'[a] = quota[a] /\ recorded'[a] = recorded[a]
      BY <1>6, <1>10, <3>1
    <3>3. o.read # NoBody
      BY <1>10 DEF IsBody
    <3>4. quota'[seat].remaining = Reading(seat, o.read).remaining
          /\ quota'[seat] = [remaining |-> quota'[seat].remaining, resets |-> quota'[seat].resets, benched |-> quota'[seat].benched]
      BY <3>2 DEF ToldQuota
    <3>5. QuotaOK(seat)'
      BY <1>0, <1>6, <1>10, <3>2, <3>3, <3>4 DEF QuotaOK
    <3> QED BY <3>2, <3>3, <3>5
  <2>2. CASE BenchesSeat(r)
    <3>1. quota' = [quota EXCEPT ![seat].benched = Reading(seat, o.read).resets] /\ recorded' = recorded /\ o.pc = "bench"
      BY <1>1, <2>2 DEF BenchesSeat, SweepAt
    <3>2. PICK b : b = Reading(seat, o.read).resets
      OBVIOUS
    <3>3. /\ DOMAIN quota' = QuotaSeats /\ quota'[seat] = [quota[seat] EXCEPT !.benched = b]
          /\ \A a \in QuotaSeats \ {seat} : quota'[a] = quota[a]
      BY <1>6, <1>10, <3>1, <3>2
    <3>4. quota'[seat].remaining = quota[seat].remaining
          /\ quota'[seat] = [remaining |-> quota'[seat].remaining, resets |-> quota'[seat].resets, benched |-> quota'[seat].benched]
      BY <1>10, <3>3 DEF QuotaOK
    <3>5. QuotaOK(seat)'
      BY <1>0, <1>6, <1>10, <3>1, <3>4 DEF QuotaOK
    <3> QED BY <1>10, <3>1, <3>3, <3>5
  <2> QED BY <2>1, <2>2
<1>12. \A a \in QuotaSeats : QuotaOK(a)'
  BY <1>0, <1>11 DEF QuotaInv, QuotaOK
<1>13. ASSUME NEW x \in Sweepers
       PROVE  /\ sweep'[x].pc \in {"record", "bench"} => IsBody(sweep'[x].on, sweep'[x].read)
              /\ sweep'[x].pc = "bench" => recorded'[sweep'[x].on] # NoBody
  <2>1. CASE x = r
    <3>1. sweep'[x] = s
      BY <1>4, <2>1 DEF Moved
    <3> QED BY <1>1, <1>5, <1>10, <1>11, <3>1
  <2>2. CASE x # r
    <3>1. sweep'[x] = sweep[x]
      BY <1>4, <2>2 DEF Moved
    <3>2. sweep[x].pc = "bench" => sweep[x].on \in QuotaSeats
      BY OnIs DEF On, SeatPhase
    <3> QED BY <1>0, <1>11, <3>1, <3>2 DEF QuotaInv
  <2> QED BY <2>1, <2>2
<1> QED BY <1>9, <1>11, <1>12, <1>13 DEF PollInv, QuotaInv

(* The seats are done with: what was discovered is forgotten, and the keys *)
(* are loaded.                                                             *)
LEMMA PollTurnsToKeys ==
    ASSUME PollInv, NEW r \in Sweepers, SeatsSwept(r) \/ ForgetsUndiscovered(r) \/ LoadsKeys(r), UNCHANGED enrolled PROVE PollInv'
<1>0. UNCHANGED <<pollClaim, turnedAway, quota, recorded, enrolled, discovers>> /\ SweepsInv /\ ClaimsInv /\ unasked \in [Claimable -> Nat]
  BY DEF SeatsSwept, ForgetsUndiscovered, LoadsKeys, PollInv, SweepsInv
<1>1. PICK o : o = sweep[r] /\ SweepOK(o)
  BY <1>0 DEF SweepsInv
<1>2. o.left \in Nat /\ (o.pc # "asleep" => o.left <= SweepTime)
  BY <1>1 DEF SweepOK
<1>3. CASE SeatsSwept(r)
  <2>1. PICK s : s = Rec("forget", o.left, o.todo, o.on, o.read)
    OBVIOUS
  <2>2. o.pc = "seats" /\ o.todo = {} /\ Moved(r, s) /\ UNCHANGED <<served, unasked, unforgotten>>
    BY <1>0, <1>1, <1>3, <2>1, SweepForms DEF SeatsSwept, SweepAt, SweepGoes
  <2>3. Shape(s) /\ s.pc = "forget" /\ s.left = o.left /\ s.todo = {}
    BY <2>1, <2>2 DEF Rec, Shape
  <2>4. SweepOK(s) /\ BodyKept(s) /\ s.pc # "key"
    BY <1>2, <2>2, <2>3 DEF SweepOK, SweepPcs, SeatPhase, KeyPhase, On, BodyKept
  <2>5. ClaimsKept(r, s)
    BY <1>0, <1>1, <2>2, <2>3 DEF ClaimsKept, ClaimsInv, OwnClaim, SeatPhase, KeyPhase
  <2>6. AskedKept(r, s)
    <3>1. \A a \in Claimable : ~ BeingAsked(o, a) /\ Until(s, a) <= Until(o, a)
      BY <1>2, <2>2, <2>3, PollNumbers DEF BeingAsked, Until, Ahead, SeatPhase, KeyPhase
    <3> QED BY <1>1, <2>2, <3>1 DEF AskedKept
  <2>7. ForgetKept(r, s)
    BY <1>1, <1>2, <2>2, <2>3 DEF ForgetKept, ForgetsIn, SeatPhase, KeyPhase, StillSaid
  <2> QED BY <1>0, <2>2, <2>4, <2>5, <2>6, <2>7, ServedSame, PollMoves
<1>4. CASE ForgetsUndiscovered(r)
  <2>1. PICK s : s = Rec("load", o.left, o.todo, o.on, o.read)
    OBVIOUS
  <2>2. o.pc = "forget" /\ Moved(r, s) /\ UNCHANGED unasked
    BY <1>0, <1>1, <1>4, <2>1, SweepForms DEF ForgetsUndiscovered, SweepAt, SweepGoes
  <2>3. Shape(s) /\ s.pc = "load" /\ s.left = o.left /\ s.todo = o.todo
    BY <2>1 DEF Rec, Shape
  <2>4. SweepOK(s) /\ BodyKept(s) /\ s.pc # "key"
    BY <1>2, <2>2, <2>3 DEF SweepOK, SweepPcs, SeatPhase, KeyPhase, On, BodyKept
  <2>5. ClaimsKept(r, s)
    BY <1>0, <1>1, <2>2, <2>3 DEF ClaimsKept, ClaimsInv, OwnClaim, SeatPhase, KeyPhase
  <2>6. AskedKept(r, s)
    <3>1. \A a \in Claimable : ~ BeingAsked(o, a) /\ Until(s, a) <= Until(o, a)
      BY <1>2, <2>2, <2>3, PollNumbers DEF BeingAsked, Until, Ahead, SeatPhase, KeyPhase
    <3> QED BY <1>1, <2>2, <3>1 DEF AskedKept
  <2>7. /\ DOMAIN served' = Asked /\ (\A a \in QuotaSeats : served'[a] # "none") /\ ForgetKept(r, s)
    <3>0. DiscoveryKeys \subseteq Asked /\ QuotaSeats \subseteq Asked /\ (\A a \in QuotaSeats : served[a] # "none") /\ DOMAIN served = Asked
      BY DEF Asked, Claimable, PollInv, QuotaInv, QuotaOK, SweepsInv
    <3>1. CASE /\ served' = [a \in Asked |-> IF a \in DiscoveryKeys /\ ~ discovers THEN "unset" ELSE served[a]]
               /\ UNCHANGED unforgotten
      <4>1. ~ discovers => ~ StillSaid'
        BY <3>0, <3>1 DEF StillSaid
      <4>2. ForgetKept(r, s)
        BY <2>3, <3>1, <4>1 DEF ForgetKept, KeyPhase
      <4> QED BY <3>0, <3>1, <4>2
    <3>2. CASE UNCHANGED served /\ unforgotten' = 0
      BY <3>0, <3>2 DEF ForgetKept
    <3> QED BY <1>4, <3>1, <3>2 DEF ForgetsUndiscovered
  <2> QED BY <1>0, <2>2, <2>4, <2>5, <2>6, <2>7, PollMoves
<1>5. CASE LoadsKeys(r)
  <2>1. PICK todo : /\ \/ /\ todo = (IF discovers THEN DiscoveryKeys \cap enrolled ELSE {})
                          /\ UNCHANGED unasked
                       \/ /\ todo = {}
                          /\ unasked' = [a \in Claimable |-> IF a \in DiscoveryKeys THEN 0 ELSE unasked[a]]
                    /\ sweep' = [sweep EXCEPT ![r].pc = "keys", ![r].todo = todo]
    BY <1>5 DEF LoadsKeys
  <2>2. PICK s : s = Rec("keys", o.left, todo, o.on, o.read)
    OBVIOUS
  <2>3. o.pc = "load" /\ Moved(r, s) /\ UNCHANGED <<served, unforgotten>>
    BY <1>0, <1>1, <1>5, <2>1, <2>2, SweepForms DEF LoadsKeys, SweepAt
  <2>4. Shape(s) /\ s.pc = "keys" /\ s.left = o.left /\ s.todo = todo /\ todo \subseteq DiscoveryKeys /\ (~ discovers => todo = {})
    BY <2>1, <2>2 DEF Rec, Shape
  <2>5. SweepOK(s) /\ BodyKept(s) /\ s.pc # "key"
    BY <1>2, <2>3, <2>4 DEF SweepOK, SweepPcs, SeatPhase, KeyPhase, On, BodyKept
  <2>6. ClaimsKept(r, s)
    <3>1. ASSUME NEW a \in Claimable, pollClaim[a].by = r, pollClaim[a].left > 0 PROVE OwnClaim(s, a)
      <4>1. a \in QuotaSeats
        BY <1>0, <1>1, <2>3, <3>1 DEF ClaimsInv, OwnClaim
      <4> QED BY <2>4, <4>1, PollerAssumption DEF OwnClaim, SeatPhase
    <3> QED BY <3>1 DEF ClaimsKept
  <2>7. AskedKept(r, s) /\ unasked' \in [Claimable -> Nat]
    <3>1. ASSUME NEW a \in Claimable PROVE ~ BeingAsked(o, a) /\ (a \in QuotaSeats => Until(s, a) <= Until(o, a))
      <4>1. a \in QuotaSeats => ~ Ahead(s, a) /\ ~ Ahead(o, a)
        BY <2>3, <2>4, PollerAssumption DEF Ahead, SeatPhase
      <4> QED BY <1>2, <2>3, <2>4, <4>1, PollNumbers DEF BeingAsked, Until
    <3>2. ASSUME NEW a \in DiscoveryKeys, Waiting(a), todo = DiscoveryKeys \cap enrolled PROVE Until(s, a) <= Until(o, a)
      <4>1. Ahead(s, a)
        BY <2>4, <3>2 DEF Ahead, KeyPhase, Waiting
      <4> QED BY <1>2, <2>3, <2>4, <4>1, PollNumbers DEF Until
    <3>3. CASE todo = (IF discovers THEN DiscoveryKeys \cap enrolled ELSE {}) /\ UNCHANGED unasked
      BY <1>0, <1>1, <3>1, <3>2, <3>3 DEF AskedKept, Waiting, Claimable
    <3>4. CASE unasked' = [a \in Claimable |-> IF a \in DiscoveryKeys THEN 0 ELSE unasked[a]]
      BY <1>0, <1>1, <3>1, <3>4 DEF AskedKept, Claimable
    <3> QED BY <2>1, <3>3, <3>4
  <2>8. ForgetKept(r, s)
    BY <1>1, <1>2, <2>3, <2>4, PollNumbers DEF ForgetKept, ForgetsIn, SeatPhase, KeyPhase, StillSaid
  <2> QED BY <1>0, <2>3, <2>5, <2>6, <2>7, <2>8, ServedSame, PollMoves
<1> QED BY <1>3, <1>4, <1>5

(* The keys of xAI: nobody waits for them, and they are not claimed.       *)
LEMMA PollXai ==
    ASSUME PollInv, NEW r \in Sweepers, LoadsXaiKeys(r) \/ (\E a \in XaiKeys : AsksXaiKey(r, a)), UNCHANGED enrolled PROVE PollInv'
<1>0. /\ UNCHANGED <<pollClaim, turnedAway, quota, recorded, enrolled, discovers, unasked, unforgotten>>
      /\ SweepsInv /\ unasked' \in [Claimable -> Nat]
  BY DEF LoadsXaiKeys, AsksXaiKey, PollInv, SweepsInv
<1>1. PICK o : o = sweep[r] /\ SweepOK(o)
  BY <1>0 DEF SweepsInv
<1>2. PICK s : /\ Moved(r, s) /\ Shape(s) /\ s.pc = "xai" /\ s.left = o.left
               /\ (o.pc = "keys" /\ o.todo = {}) \/ o.pc = "xai"
  <2>1. CASE LoadsXaiKeys(r)
    <3>1. PICK rows : sweep' = [sweep EXCEPT ![r].pc = "xai", ![r].todo = rows]
      BY <2>1 DEF LoadsXaiKeys
    <3>2. PICK s : s = Rec("xai", o.left, rows, o.on, o.read)
      OBVIOUS
    <3>3. Moved(r, s) /\ Shape(s) /\ s.pc = "xai" /\ s.left = o.left
      BY <1>0, <1>1, <3>1, <3>2, SweepForms DEF Rec, Shape
    <3> QED BY <1>1, <2>1, <3>3 DEF LoadsXaiKeys, SweepAt
  <2>2. CASE \E a \in XaiKeys : AsksXaiKey(r, a)
    <3>1. PICK a \in XaiKeys : AsksXaiKey(r, a)
      BY <2>2
    <3>2. PICK s : s = Rec("xai", o.left, o.todo \ {a}, "", NoBody)
      OBVIOUS
    <3>3. Moved(r, s) /\ Shape(s) /\ s.pc = "xai" /\ s.left = o.left
      BY <1>0, <1>1, <3>1, <3>2, SweepForms DEF Rec, Shape, AsksXaiKey, Onward
    <3> QED BY <1>1, <3>1, <3>3 DEF AsksXaiKey, SweepAt
  <2> QED BY <2>1, <2>2
<1>3. o.left \in Nat /\ o.left <= SweepTime /\ ~ SeatPhase(s) /\ ~ KeyPhase(s) /\ ~ SeatPhase(o)
  BY <1>1, <1>2 DEF SweepOK, SeatPhase, KeyPhase
<1>4. SweepOK(s) /\ BodyKept(s) /\ s.pc # "key" /\ ClaimsKept(r, s)
  BY <1>2, <1>3 DEF SweepOK, SweepPcs, On, BodyKept, ClaimsKept, OwnClaim
<1>5. AskedKept(r, s)
  <2>1. \A a \in Claimable : ~ BeingAsked(o, a) /\ Until(s, a) <= Until(o, a)
    BY <1>2, <1>3, PollNumbers DEF BeingAsked, Until, Ahead, KeyPhase
  <2> QED BY <1>0, <1>1, <2>1 DEF AskedKept
<1>6. /\ DOMAIN served' = Asked /\ (\A a \in QuotaSeats : served'[a] # "none") /\ (StillSaid' => StillSaid)
  <2>1. CASE LoadsXaiKeys(r)
    BY <2>1, ServedSame DEF LoadsXaiKeys
  <2>2. CASE \E a \in XaiKeys : AsksXaiKey(r, a)
    <3>1. PICK a \in XaiKeys : AsksXaiKey(r, a)
      BY <2>2
    <3>2. a \in Asked /\ a \notin DiscoveryKeys /\ SetServed(a)
      BY <3>1, PollerAssumption DEF AsksXaiKey, Asked, Claimable
    <3> QED BY <3>2, ServedSet
  <2> QED BY <2>1, <2>2
<1>7. ForgetKept(r, s)
  BY <1>0, <1>1, <1>2, <1>3, <1>6, PollNumbers DEF ForgetKept, ForgetsIn
<1> QED BY <1>0, <1>2, <1>4, <1>5, <1>6, <1>7, PollMoves

(* The operator turns discovery on or off.                                 *)
LEMMA PollTurns == ASSUME PollInv, OperatorTurns, UNCHANGED enrolled PROVE PollInv'
<1>0. /\ SweepsInv /\ ClaimsInv /\ AskedInv /\ QuotaInv /\ unforgotten' = 0 /\ discovers' = ~ discovers
      /\ UNCHANGED <<pollClaim, sweep, quota, served, recorded, turnedAway, enrolled>>
      /\ unasked' = [a \in Claimable |-> IF a \in DiscoveryKeys THEN 0 ELSE unasked[a]]
  BY DEF PollInv, OperatorTurns
<1>1. unasked' \in [Claimable -> Nat] /\ discovers' \in BOOLEAN
  BY <1>0 DEF SweepsInv
<1>2. \A r \in Sweepers : SweepOK(sweep[r])' /\ (sweep[r].pc = "key" => r \in Loaded)'
  BY <1>0 DEF SweepsInv, SweepOK, Shape, SeatPhase, KeyPhase, On
<1>3. SweepsInv'
  BY <1>0, <1>1, <1>2 DEF SweepsInv
<1>4. ClaimsInv'
  BY <1>0 DEF ClaimsInv, OwnClaim, SeatPhase, KeyPhase, On
<1>5. AskedInv'
  <2>0. Shortest \in Nat /\ Shortest' = Shortest /\ Bound' = Bound
    BY PollNumbers DEF Shortest, Bound, Slack, Longest
  <2>1. ASSUME NEW a \in Claimable PROVE IF Waiting(a)' THEN (a \in QuotaSeats \/ Loaded # {}) => InTime(a)' ELSE unasked'[a] = 0
    <3>1. CASE a \in DiscoveryKeys
      <4>1. unasked'[a] = 0 /\ pollClaim'[a].left \in 0..Shortest
        BY <1>0, <3>1 DEF SweepsInv
      <4> QED BY <2>0, <4>1 DEF InTime
    <3>2. CASE a \notin DiscoveryKeys
      <4>1. (Waiting(a)' <=> Waiting(a)) /\ unasked'[a] = unasked[a]
        BY <1>0, <3>2 DEF Waiting
      <4>2. InTime(a) => InTime(a)'
        BY <1>0, <2>0, <4>1 DEF InTime, BeingAsked, MayCome, Until, Ahead, SeatPhase, KeyPhase
      <4> QED BY <1>0, <4>1, <4>2 DEF AskedInv
    <3> QED BY <3>1, <3>2
  <2> QED BY <2>1 DEF AskedInv
<1>6. ForgetInv'
  <2>1. PICK r : r \in Sweepers
    BY PollerAssumption
  <2>2. \A x \in Sweepers : /\ ForgetsIn(sweep[x]) \in Nat /\ ForgetsIn(sweep[x]) <= Slack
                            /\ sweep[x].left \in Nat /\ (KeyPhase(sweep[x]) => sweep[x].left <= SweepTime)
    BY <1>0, ForgetsIs DEF SweepsInv, SweepOK, KeyPhase
  <2>3. unforgotten' + ForgetsIn(sweep[r]) <= Slack
    BY <1>0, <2>1, <2>2
  <2>4. \A x \in Sweepers : KeyPhase(sweep[x]) => unforgotten' + sweep[x].left <= SweepTime
    BY <1>0, <2>2
  <2>5. ForgetsIn(sweep[r])' = ForgetsIn(sweep[r]) /\ Slack' = Slack /\ \A x \in Sweepers : KeyPhase(sweep[x])' = KeyPhase(sweep[x])
    BY <1>0 DEF ForgetsIn, SeatPhase, KeyPhase, Slack, Longest
  <2> QED BY <1>0, <2>1, <2>3, <2>4, <2>5 DEF ForgetInv
<1>7. QuotaInv'
  BY <1>0 DEF QuotaInv, QuotaOK
<1> QED BY <1>3, <1>4, <1>5, <1>6, <1>7 DEF PollInv

(* Time passes for every replica, every claim and everyone who waits.      *)
LEMMA PollTicks == ASSUME PollInv, PollTick, UNCHANGED enrolled PROVE PollInv'
<1>0. /\ SweepsInv /\ ClaimsInv /\ AskedInv /\ ForgetInv /\ QuotaInv
      /\ UNCHANGED <<quota, served, discovers, recorded, turnedAway, enrolled>>
      /\ \A r \in Sweepers : sweep[r].left > 0 /\ SweepOK(sweep[r])
  BY DEF PollInv, PollTick, SweepsInv
<1>1. DOMAIN sweep' = Sweepers
  BY DEF PollTick
<1>2. ASSUME NEW r \in Sweepers
      PROVE  /\ Shape(sweep'[r]) /\ sweep'[r].pc = sweep[r].pc /\ sweep'[r].left = sweep[r].left - 1 /\ sweep'[r].todo = sweep[r].todo
             /\ sweep'[r].on = sweep[r].on /\ sweep'[r].read = sweep[r].read /\ sweep[r].left \in Nat \ {0}
  <2>1. sweep'[r] = [sweep[r] EXCEPT !.left = @ - 1]
    BY DEF PollTick
  <2>2. PICK o : o = sweep[r]
    OBVIOUS
  <2>3. o = [pc |-> o.pc, left |-> o.left, todo |-> o.todo, on |-> o.on, read |-> o.read] /\ o.left \in Nat \ {0}
    BY <1>0, <2>2 DEF SweepOK, Shape
  <2>4. sweep'[r] = Rec(o.pc, o.left - 1, o.todo, o.on, o.read)
    BY <2>1, <2>2, <2>3 DEF Rec
  <2> QED BY <2>2, <2>3, <2>4, RecIs
<1>3. ASSUME NEW a \in Claimable
      PROVE  /\ pollClaim'[a] = [left |-> pollClaim'[a].left, by |-> pollClaim'[a].by] /\ pollClaim'[a].by = pollClaim[a].by
             /\ pollClaim[a].left \in Nat /\ pollClaim[a].left <= Shortest
             /\ pollClaim'[a].left \in Nat /\ pollClaim'[a].left <= Shortest
             /\ pollClaim[a].left = 0 => pollClaim'[a].left = 0
             /\ pollClaim[a].left # 0 => pollClaim'[a].left = pollClaim[a].left - 1
  <2>1. pollClaim'[a] = IF pollClaim[a].left = 0 THEN pollClaim[a] ELSE [pollClaim[a] EXCEPT !.left = @ - 1]
    BY DEF PollTick
  <2>2. PICK c : c = pollClaim[a] /\ c = [left |-> c.left, by |-> c.by] /\ c.left \in 0..Shortest
    BY <1>0 DEF SweepsInv
  <2> QED BY <2>1, <2>2, PollNumbers
<1>c. ASSUME NEW a \in Claimable
      PROVE  /\ pollClaim'[a].by = pollClaim[a].by
             /\ pollClaim[a].left \in Nat /\ pollClaim[a].left <= Shortest
             /\ pollClaim'[a].left \in Nat /\ pollClaim'[a].left <= Shortest
             /\ pollClaim[a].left = 0 => pollClaim'[a].left = 0
             /\ pollClaim[a].left # 0 => pollClaim'[a].left = pollClaim[a].left - 1
  BY <1>3
<1>4. \A n \in Nat : Older(n) \in Nat /\ Older(n) <= n + 1
  BY DEF Older
<1>5. ASSUME NEW r \in Sweepers
      PROVE  /\ SeatPhase(sweep'[r]) = SeatPhase(sweep[r]) /\ KeyPhase(sweep'[r]) = KeyPhase(sweep[r]) /\ On(sweep'[r]) = On(sweep[r])
             /\ SweepOK(sweep'[r]) /\ ForgetsIn(sweep'[r]) = ForgetsIn(sweep[r]) - 1
             /\ \A a : BeingAsked(sweep'[r], a) = BeingAsked(sweep[r], a) /\ Until(sweep'[r], a) = Until(sweep[r], a) - 1
  <2>1. SeatPhase(sweep'[r]) = SeatPhase(sweep[r]) /\ KeyPhase(sweep'[r]) = KeyPhase(sweep[r]) /\ On(sweep'[r]) = On(sweep[r])
    BY <1>2 DEF SeatPhase, KeyPhase, On
  <2>2. \A a : BeingAsked(sweep'[r], a) = BeingAsked(sweep[r], a) /\ Ahead(sweep'[r], a) = Ahead(sweep[r], a)
    BY <1>2, <2>1 DEF BeingAsked, Ahead
  <2>3. SweepOK(sweep'[r])
    BY <1>0, <1>2, <2>1, PollNumbers DEF SweepOK
  <2> QED BY <1>2, <2>1, <2>2, <2>3, PollNumbers DEF ForgetsIn, Until
<1>6. SweepsInv'
  <2>1. \A r \in Sweepers : SweepOK(sweep[r])' /\ (sweep[r].pc = "key" => r \in Loaded)'
    <3>1. \A r \in Sweepers : SweepOK(sweep'[r]) /\ (sweep'[r].pc = "key" => r \in Loaded)
      BY <1>0, <1>2, <1>5 DEF SweepsInv
    <3> QED BY <3>1 DEF SweepOK, Shape, SeatPhase, KeyPhase, On
  <2>2. DOMAIN pollClaim' = Claimable /\ \A a \in Claimable : pollClaim'[a].left \in 0..Shortest
    BY <1>c, PollNumbers DEF PollTick
  <2>3. unasked' \in [Claimable -> Nat]
    BY <1>0, <1>4 DEF PollTick, SweepsInv
  <2>4. unforgotten' \in Nat
    BY <1>0, <1>4 DEF PollTick, SweepsInv
  <2> QED BY <1>0, <1>1, <1>3, <2>1, <2>2, <2>3, <2>4 DEF SweepsInv
<1>7. ClaimsInv'
  <2>1. ASSUME NEW r \in Sweepers, NEW a \in Claimable, pollClaim'[a].by = r, pollClaim'[a].left > 0 PROVE OwnClaim(sweep[r], a)'
    <3>1. pollClaim[a].by = r /\ pollClaim[a].left > 0 /\ pollClaim'[a].left = pollClaim[a].left - 1
      BY <1>c, <2>1
    <3>2. OwnClaim(sweep[r], a)
      BY <1>0, <3>1 DEF ClaimsInv
    <3>3. /\ sweep'[r].pc = sweep[r].pc /\ sweep'[r].todo = sweep[r].todo /\ sweep'[r].on = sweep[r].on
          /\ SeatPhase(sweep[r])' = SeatPhase(sweep[r]) /\ KeyPhase(sweep[r])' = KeyPhase(sweep[r]) /\ On(sweep[r])' = On(sweep[r])
          /\ sweep'[r].left = sweep[r].left - 1 /\ sweep[r].left \in Nat /\ pollClaim[a].left \in Nat
      BY <1>2, <1>c DEF SeatPhase, KeyPhase, On
    <3> QED BY <3>1, <3>2, <3>3 DEF OwnClaim
  <2> QED BY <1>0, <2>1 DEF ClaimsInv
<1>8. AskedInv'
  <2>1. ASSUME NEW a \in Claimable PROVE IF Waiting(a)' THEN (a \in QuotaSeats \/ Loaded # {}) => InTime(a)' ELSE unasked'[a] = 0
    <3>0. (Waiting(a)' <=> Waiting(a)) /\ unasked'[a] = (IF Waiting(a) THEN Older(unasked[a]) ELSE 0) /\ unasked[a] \in Nat
      BY <1>0 DEF Waiting, PollTick, SweepsInv
    <3>1. CASE Waiting(a) /\ (a \in QuotaSeats \/ Loaded # {})
      <4>0. unasked'[a] \in Nat /\ unasked'[a] <= unasked[a] + 1
        BY <1>4, <3>0, <3>1
      <4>1. InTime(a) /\ pollClaim[a].left \in Nat
        BY <1>0, <1>c, <3>1 DEF AskedInv
      <4>2. \A r \in Sweepers : Until(sweep[r], a) \in Nat /\ Until(sweep[r], a) <= Slack
        BY <1>0, UntilIs, PollNumbers
      <4>3. /\ Bound' = Bound /\ Shortest' = Shortest /\ Bound \in Nat /\ Shortest \in Nat /\ Bound = Shortest + Slack /\ Slack \in Nat
            /\ \A r \in Sweepers : /\ BeingAsked(sweep[r], a)' = BeingAsked(sweep'[r], a) /\ Until(sweep[r], a)' = Until(sweep'[r], a)
                                   /\ MayCome(r, a)' = MayCome(r, a)
        BY PollNumbers DEF Bound, Slack, Shortest, Longest, BeingAsked, Until, Ahead, SeatPhase, KeyPhase, MayCome
      <4>4. CASE \E r \in Sweepers : BeingAsked(sweep[r], a) /\ unasked[a] + sweep[r].left <= Bound
        <5>1. PICK r \in Sweepers : BeingAsked(sweep[r], a) /\ unasked[a] + sweep[r].left <= Bound
          BY <4>4
        <5>2. BeingAsked(sweep'[r], a) /\ unasked'[a] + sweep'[r].left <= Bound
          BY <1>2, <1>5, <3>0, <4>0, <4>3, <5>1
        <5> QED BY <3>0, <3>1, <4>3, <5>2 DEF InTime
      <4>5. CASE unasked[a] + pollClaim[a].left <= Shortest /\ pollClaim[a].left # 0
        <5>1. unasked'[a] + pollClaim'[a].left <= Shortest
          BY <1>c, <3>0, <4>0, <4>1, <4>3, <4>5
        <5> QED BY <3>0, <3>1, <4>3, <5>1 DEF InTime
      <4>6. CASE pollClaim[a].left = 0 /\ \A r \in Sweepers : MayCome(r, a) => unasked[a] + Until(sweep[r], a) <= Bound
        <5>1. pollClaim'[a].left = 0 /\ \A r \in Sweepers : MayCome(r, a) => unasked'[a] + Until(sweep'[r], a) <= Bound
          BY <1>c, <1>5, <3>0, <4>0, <4>2, <4>3, <4>6
        <5> QED BY <3>0, <3>1, <4>3, <5>1 DEF InTime
      <4>7. CASE unasked[a] + pollClaim[a].left <= Shortest /\ pollClaim[a].left = 0
        <5>1. \A r \in Sweepers : unasked'[a] + Until(sweep'[r], a) <= Bound
          BY <1>5, <3>0, <4>0, <4>2, <4>3, <4>7
        <5>2. pollClaim'[a].left = 0
          BY <1>c, <4>7
        <5> QED BY <3>0, <3>1, <4>3, <5>1, <5>2 DEF InTime
      <4> QED BY <4>1, <4>4, <4>5, <4>6, <4>7 DEF InTime
    <3> QED BY <3>0, <3>1
  <2> QED BY <2>1 DEF AskedInv
<1>9. ForgetInv'
  <2> SUFFICES ASSUME ~ discovers PROVE ForgetInv'
    BY <1>0 DEF ForgetInv
  <2>1. unforgotten \in Nat /\ unforgotten' \in Nat /\ unforgotten' <= unforgotten + 1 /\ Slack \in Nat /\ SweepTime \in Nat
    BY <1>0, <1>4, PollNumbers DEF PollTick, SweepsInv
  <2>2. \A r \in Sweepers : ForgetsIn(sweep[r]) \in Nat /\ ForgetsIn(sweep'[r]) = ForgetsIn(sweep[r]) - 1
    BY <1>0, <1>5, ForgetsIs
  <2>3. \A r \in Sweepers : unforgotten + ForgetsIn(sweep[r]) <= Slack => unforgotten' + ForgetsIn(sweep'[r]) <= Slack
    BY <2>1, <2>2
  <2>4. \A r \in Sweepers : KeyPhase(sweep'[r]) /\ sweep'[r].todo # {} => unforgotten' + sweep'[r].left <= SweepTime
    BY <1>0, <1>2, <1>5, <2>1 DEF ForgetInv
  <2>5. Slack' = Slack /\ \A r \in Sweepers : ForgetsIn(sweep[r])' = ForgetsIn(sweep'[r]) /\ KeyPhase(sweep[r])' = KeyPhase(sweep'[r])
    BY DEF Slack, Longest, ForgetsIn, SeatPhase, KeyPhase
  <2> QED BY <1>0, <2>3, <2>4, <2>5 DEF ForgetInv
<1>10. QuotaInv'
  BY <1>0, <1>2 DEF QuotaInv, QuotaOK
<1> QED BY <1>6, <1>7, <1>8, <1>9, <1>10 DEF PollInv

LEMMA PollStarts == PollInit => PollInv
<1> SUFFICES ASSUME PollInit PROVE PollInv
  OBVIOUS
<1>1. \A r \in Sweepers : /\ Shape(sweep[r]) /\ sweep[r].pc = "asleep" /\ sweep[r].left = 0 /\ sweep[r].todo = {}
                          /\ SweepOK(sweep[r])
  <2>1. PICK s : s = Rec("asleep", 0, {}, "", NoBody)
    OBVIOUS
  <2>2. \A r \in Sweepers : sweep[r] = s
    BY <2>1 DEF PollInit, Asleep, Rec
  <2>3. Shape(s) /\ s.pc = "asleep" /\ s.left = 0 /\ s.todo = {}
    BY <2>1 DEF Rec, Shape
  <2>4. SweepOK(s)
    BY <2>3, PollNumbers DEF SweepOK, SweepPcs, SeatPhase, KeyPhase, On
  <2> QED BY <2>2, <2>3, <2>4
<1>2. \A a \in Claimable : pollClaim[a] = NoClaim
  BY DEF PollInit
<1>3. SweepsInv
  BY <1>1, <1>2, PollNumbers DEF SweepsInv, PollInit, NoClaim
<1>4. ClaimsInv
  BY <1>2 DEF ClaimsInv, PollInit, NoClaim
<1>5. AskedInv
  BY <1>2, PollNumbers DEF AskedInv, InTime, PollInit, NoClaim
<1>6. ForgetInv
  BY DEF ForgetInv, PollInit
<1>7. QuotaInv
  <2>1. QuotaSeats \subseteq Asked
    BY DEF Asked, Claimable
  <2> QED BY <1>1, <2>1 DEF QuotaInv, QuotaOK, PollInit
<1> QED BY <1>3, <1>4, <1>5, <1>6, <1>7 DEF PollInv

LEMMA PollStep == PollInv /\ [PollNext]_pollVars => PollInv'
<1> SUFFICES ASSUME PollInv, [PollNext]_pollVars PROVE PollInv'
  OBVIOUS
<1>1. CASE PollNext
  <2>1. CASE OperatorTurns
    BY <1>1, <2>1, PollTurns DEF PollNext
  <2>2. CASE PollTick
    BY <1>1, <2>2, PollTicks DEF PollNext
  <2>3. ASSUME NEW r \in Sweepers, SweepStep(r) PROVE PollInv'
    <3>0. UNCHANGED enrolled
      BY <1>1 DEF PollNext
    <3>1. CASE WakesToSweep(r) \/ SweepEnds(r)
      BY <3>0, <3>1, PollWakes, PollEnds
    <3>2. CASE (\E a \in QuotaSeats : SweepSeat(r, a)) \/ (\E a \in DiscoveryKeys : SweepKey(r, a))
      BY <3>0, <3>2, PollSweeps
    <3>3. CASE SeatStale(r) \/ RecordFails(r) \/ AsksModels(r)
      BY <3>0, <3>3, PollDone
    <3>4. CASE QuotaRead(r)
      BY <3>0, <3>4, PollQuotaRead
    <3>5. CASE RecordsQuota(r) \/ BenchesSeat(r)
      BY <3>0, <3>5, PollRecords
    <3>6. CASE SeatsSwept(r) \/ ForgetsUndiscovered(r) \/ LoadsKeys(r)
      BY <3>0, <3>6, PollTurnsToKeys
    <3>7. CASE KeyAsked(r)
      BY <3>0, <3>7, PollKeyAsked
    <3>8. CASE LoadsXaiKeys(r) \/ (\E a \in XaiKeys : AsksXaiKey(r, a))
      BY <3>0, <3>8, PollXai
    <3> QED BY <2>3, <3>1, <3>2, <3>3, <3>4, <3>5, <3>6, <3>7, <3>8 DEF SweepStep
  <2> QED BY <1>1, <2>1, <2>2, <2>3 DEF PollNext
<1>2. CASE UNCHANGED pollVars
  <2>1. /\ UNCHANGED <<enrolled, pollClaim, sweep, quota, served, discovers, unasked, unforgotten, recorded, turnedAway>>
        /\ SweepsInv /\ ClaimsInv /\ AskedInv /\ ForgetInv /\ QuotaInv
    BY <1>2 DEF pollVars, PollInv
  <2>2. SweepsInv'
    BY <2>1 DEF SweepsInv, SweepOK, Shape, SeatPhase, KeyPhase, On
  <2>3. ClaimsInv'
    BY <2>1 DEF ClaimsInv, OwnClaim, SeatPhase, KeyPhase, On
  <2>4. AskedInv'
    <3>1. \A a \in Claimable : (Waiting(a)' <=> Waiting(a)) /\ (InTime(a) => InTime(a)')
      BY <2>1 DEF Waiting, InTime, BeingAsked, MayCome, Until, Ahead, SeatPhase, KeyPhase, Bound, Slack, Shortest, Longest
    <3> QED BY <2>1, <3>1 DEF AskedInv
  <2>5. ForgetInv'
    BY <2>1 DEF ForgetInv, ForgetsIn, SeatPhase, KeyPhase, Slack, Longest
  <2>6. QuotaInv'
    BY <2>1 DEF QuotaInv, QuotaOK
  <2> QED BY <2>2, <2>3, <2>4, <2>5, <2>6 DEF PollInv
<1> QED BY <1>1, <1>2

(* The parsers read no more and no less than the body says.                *)
LEMMA PoolSaid ==
    ASSUME NEW body, NEW pool, pool.used \in Figure, pool.resets \in Figure
    PROVE  LET reading == PoolReading(body, pool) IN
           /\ Exhausted(body) => reading = NoReading \/ reading.remaining = 0
           /\ ~ Exhausted(body) /\ ~ (pool.there /\ pool.used # Unsaid) => reading = NoReading
           /\ ~ Exhausted(body) /\ pool.there /\ pool.used # Unsaid =>
                 /\ reading.remaining = RestOf(pool.used) /\ reading # NoReading /\ RestOf(pool.used) \in Nat
<1>1. CASE Exhausted(body)
  BY <1>1 DEF PoolReading, PoolOf
<1>2. CASE ~ Exhausted(body) /\ ~ (pool.there /\ pool.used # Unsaid)
  BY <1>2 DEF PoolReading, Used100
<1>3. CASE ~ Exhausted(body) /\ pool.there /\ pool.used # Unsaid
  <2>1. PoolReading(body, pool) = [remaining |-> 100 - Clamped(pool.used), resets |-> pool.resets] /\ pool.used \in Nat
    BY <1>3 DEF PoolReading, Used100, PoolOf, Figure
  <2>2. 100 - Clamped(pool.used) = RestOf(pool.used) /\ RestOf(pool.used) \in Nat
    BY <2>1 DEF Clamped, RestOf
  <2>3. PoolReading(body, pool).remaining = RestOf(pool.used) /\ NoReading.remaining = -1
    BY <2>1, <2>2 DEF NoReading, Unsaid
  <2> QED BY <1>3, <2>2, <2>3
<1> QED BY <1>1, <1>2, <1>3

LEMMA ReadingSaid ==
    ASSUME NEW a \in QuotaSeats, NEW body, IsBody(a, body)
    PROVE  /\ Reading(a, body).remaining \in SaidLeft(a, body)
           /\ \A left \in SaidLeft(a, body) : Reading(a, body).remaining <= left
<1>1. CASE a \in Grok
  <2>1. body \in GrokBodies /\ Reading(a, body) = ParseGrok(body) /\ ParseGrok(body) # NoReading /\ a \notin Codex
    BY <1>1, PollerAssumption DEF IsBody, BodiesOf, Reading
  <2>2. PICK used : used = IF body.used = Unsaid THEN 0 ELSE body.used
    OBVIOUS
  <2>3. used \in Nat
    BY <2>1, <2>2, PollerAssumption DEF Figure
  <2>4. ParseGrok(body).remaining = RestOf(used) /\ RestOf(used) \in Nat
    BY <2>1, <2>2, <2>3 DEF ParseGrok, Clamped, RestOf
  <2>5. SaidLeft(a, body) = {RestOf(used)}
    BY <1>1, <2>2 DEF SaidLeft
  <2> QED BY <2>1, <2>4, <2>5
<1>2. CASE a \in Codex
  <2>1. body \in CodexBodies /\ Reading(a, body) = ParseCodex(body) /\ ParseCodex(body) # NoReading /\ a \notin Grok
    BY <1>2, PollerAssumption DEF IsBody, BodiesOf, Reading
  <2>2. PICK p, q : p = body.primary /\ q = body.secondary
    OBVIOUS
  <2>3. p.used \in Figure /\ p.resets \in Figure /\ q.used \in Figure /\ q.resets \in Figure
    BY <2>1, <2>2, PollerAssumption
  <2>4. PICK first, other : first = PoolReading(body, p) /\ other = PoolReading(body, q)
    OBVIOUS
  <2>5. Reading(a, body) = IF first = NoReading THEN other ELSE IF other = NoReading THEN first
                           ELSE IF other.remaining < first.remaining THEN other ELSE first
    BY <2>1, <2>2, <2>4 DEF ParseCodex
  <2>6. CASE Exhausted(body)
    <3>1. SaidLeft(a, body) = {0}
      BY <2>1, <2>6 DEF SaidLeft
    <3>2. (first = NoReading \/ first.remaining = 0) /\ (other = NoReading \/ other.remaining = 0)
      BY <2>3, <2>4, <2>6, PoolSaid
    <3>3. Reading(a, body).remaining = 0
      BY <2>1, <2>5, <3>2
    <3> QED BY <3>1, <3>3
  <2>7. CASE ~ Exhausted(body)
    <3>1. SaidLeft(a, body) = {RestOf(pool.used) : pool \in {x \in {p, q} : x.there /\ x.used # Unsaid}}
      BY <2>1, <2>2, <2>7 DEF SaidLeft
    <3>2. /\ ~ (p.there /\ p.used # Unsaid) => first = NoReading
          /\ p.there /\ p.used # Unsaid => first # NoReading /\ first.remaining = RestOf(p.used) /\ RestOf(p.used) \in Nat
          /\ ~ (q.there /\ q.used # Unsaid) => other = NoReading
          /\ q.there /\ q.used # Unsaid => other # NoReading /\ other.remaining = RestOf(q.used) /\ RestOf(q.used) \in Nat
      BY <2>3, <2>4, <2>7, PoolSaid
    <3> QED BY <2>1, <2>5, <3>1, <3>2
  <2> QED BY <2>6, <2>7
<1> QED BY <1>1, <1>2 DEF QuotaSeats

LEMMA PollInvHolds == PollInv => PollsHold
<1> SUFFICES ASSUME PollInv PROVE PollsHold
  OBVIOUS
<1>0. SweepsInv /\ ClaimsInv /\ AskedInv /\ ForgetInv /\ QuotaInv
  BY DEF PollInv
<1>1. QuotaIsHonest
  <2>1. ASSUME NEW a \in QuotaSeats
        PROVE  /\ IF recorded[a] = NoBody THEN quota[a].remaining = Unsaid /\ quota[a].benched = Unsaid
                  ELSE /\ quota[a].remaining \in SaidLeft(a, recorded[a])
                       /\ \A left \in SaidLeft(a, recorded[a]) : quota[a].remaining <= left
               /\ served[a] # "none"
    <3>1. QuotaOK(a)
      BY <1>0 DEF QuotaInv
    <3> QED BY <3>1, ReadingSaid DEF QuotaOK
  <2> QED BY <2>1 DEF QuotaIsHonest
<1>2. AskedInTime
  <2>1. ASSUME NEW a \in Claimable, Loaded # {} \/ a \in QuotaSeats PROVE unasked[a] <= Shortest + Slack
    <3>0. unasked[a] \in Nat /\ pollClaim[a].left \in 0..Shortest
      BY <1>0 DEF SweepsInv
    <3>1. CASE ~ Waiting(a)
      BY <1>0, <3>1, PollNumbers DEF AskedInv
    <3>2. CASE Waiting(a)
      <4>1. InTime(a)
        BY <1>0, <2>1, <3>2 DEF AskedInv
      <4>2. CASE \E r \in Sweepers : BeingAsked(sweep[r], a) /\ unasked[a] + sweep[r].left <= Bound
        BY <1>0, <3>0, <4>2, PollNumbers DEF SweepsInv, SweepOK
      <4>3. CASE unasked[a] + pollClaim[a].left <= Shortest
        BY <3>0, <4>3, PollNumbers
      <4>4. CASE \A r \in Sweepers : MayCome(r, a) => unasked[a] + Until(sweep[r], a) <= Bound
        <5>1. PICK r \in Sweepers : MayCome(r, a)
          BY <2>1, PollerAssumption DEF MayCome
        <5>2. Until(sweep[r], a) \in Nat
          BY <1>0, <5>1, UntilIs DEF SweepsInv
        <5> QED BY <3>0, <4>4, <5>1, <5>2, PollNumbers
      <4> QED BY <4>1, <4>2, <4>3, <4>4 DEF InTime
    <3> QED BY <3>1, <3>2
  <2> QED BY <1>0, <2>1 DEF AskedInTime, ClaimsInv
<1>3. UndiscoveredForgotten
  <2>1. ASSUME NEW a \in DiscoveryKeys, served[a] # "unset", ~ discovers PROVE unforgotten <= Slack
    <3>1. PICK r \in Sweepers : unforgotten + ForgetsIn(sweep[r]) <= Slack
      BY <1>0, <2>1 DEF ForgetInv
    <3>2. ForgetsIn(sweep[r]) \in Nat /\ unforgotten \in Nat
      BY <1>0, <3>1, ForgetsIs DEF SweepsInv
    <3> QED BY <3>1, <3>2, PollNumbers
  <2> QED BY <2>1 DEF UndiscoveredForgotten
<1> QED BY <1>1, <1>2, <1>3 DEF PollsHold

(* However the replicas' sweeps drift, whatever the providers answer and   *)
(* whenever the operator turns discovery off: what is shown of a seat is   *)
(* what its provider last said, every account is asked in time, none is    *)
(* turned away by its own claim, and what was discovered is forgotten.     *)
THEOREM PollerHolds == PollSpec => []PollsHold
<1>1. PollInit => PollInv
  BY PollStarts
<1>2. PollInv /\ [PollNext]_pollVars => PollInv'
  BY PollStep
<1>3. PollInv => PollsHold
  BY PollInvHolds
<1> QED BY <1>1, <1>2, <1>3, PTL DEF PollSpec
=============================================================================
