------------------------------ MODULE Refresh ------------------------------
(***************************************************************************)
(* Keeping one OAuth credential fresh: ensure_fresh and refresh_locked     *)
(* (gateway/refresh.rs), the fleet lock in Redis (cache.rs), the guarded   *)
(* write (accounts.rs), the two token clients (openai_oauth.rs,            *)
(* xai_oauth.rs), and a provider whose refresh tokens may be single-use.   *)
(*                                                                         *)
(* Time runs at two paces. A tick is a share of the lock's life that no    *)
(* database or Redis call fills; an hour is an access token's life. The    *)
(* row's token_version and the material's own version start together and   *)
(* move together, and are one number here.                                 *)
(***************************************************************************)
EXTENDS Naturals

CONSTANTS
    Requests,   \* callers of ensure_fresh: requests and the usage poller
    Replicas,
    Home,       \* the replica each caller runs on
    NoOne,
    Calls,      \* calls to the provider in one refresh: xAI discovers first
    CallTicks,  \* a call's timeout, 20 s
    LockTicks,  \* LOCK_TTL, 30 s
    MaxHour,    \* bound: hours that pass
    MaxIssued   \* bound: grants the provider makes

ASSUME RefreshAssumption ==
    /\ Home \in [Requests -> Replicas]
    /\ NoOne \notin Requests
    /\ Calls \in Nat \ {0}
    /\ CallTicks \in Nat \ {0}
    /\ LockTicks \in Nat \ {0}
    /\ MaxHour \in Nat
    /\ MaxIssued \in Nat

VARIABLES
    row,      \* the credential as Postgres has it
    live,     \* the refresh token the provider will take
    issued,   \* grants it has made
    rotates,  \* whether it replaces the refresh token with each
    hour,
    lock,     \* ticks left of the Redis lock, 0 when it is free
    gate,     \* who holds each replica's local mutex
    pc,
    held,     \* the material each caller has
    now,      \* the hour at which it read the clock
    call,     \* the refresh it has under way
    orphaned, \* history: a rotated token was dropped before it was stored
    lost,     \* history: Redis lost the lock
    expired   \* history: the lock ran out under a caller that was refreshing

provider == <<live, issued, rotates>>
history == <<orphaned, lost, expired>>
vars == <<row, provider, hour, lock, gate, pc, held, now, call, history>>

(* rt names the grant the refresh token came with, at the access token's.  *)
Material == [version : Nat, rt : Nat, at : Nat, exp : Nat]
First == [version |-> 0, rt |-> 0, at |-> 0, exp |-> 0]

(* left counts the calls to make, this one included; timer is this one's.  *)
Call == [left : 0..Calls, timer : 0..CallTicks,
         reply : {"none", "refused", "granted"}, fresh : Material]
NoCall == [left |-> 0, timer |-> 0, reply |-> "none", fresh |-> First]
Begun == [left |-> Calls, timer |-> CallTicks, reply |-> "none", fresh |-> First]

expires_within(m, t) == m.exp <= t

Init ==
    /\ row = First
    /\ live = 0 /\ issued = 0
    /\ rotates \in BOOLEAN
    /\ hour = 0
    /\ lock = 0
    /\ gate = [p \in Replicas |-> NoOne]
    /\ pc = [r \in Requests |-> "idle"]
    /\ held = [r \in Requests |-> First]
    /\ now = [r \in Requests |-> 0]
    /\ call = [r \in Requests |-> NoCall]
    /\ orphaned = FALSE
    /\ lost = FALSE
    /\ expired = FALSE

Goes(r, s) == pc' = [pc EXCEPT ![r] = s]
Holds(r, m) == held' = [held EXCEPT ![r] = m]

(* The future is over, and its locals, its mutex guard among them.         *)
Ends(r, s) ==
    /\ Goes(r, s)
    /\ now' = [now EXCEPT ![r] = 0]
    /\ call' = [call EXCEPT ![r] = NoCall]
    /\ gate' = [gate EXCEPT ![Home[r]] = IF @ = r THEN NoOne ELSE @]

(* What ensure_fresh returns while it does not hold the lock.              *)
Returns(r, m) == Ends(r, "done") /\ Holds(r, m)
Fails(r) == Ends(r, "done") /\ UNCHANGED held

-----------------------------------------------------------------------------
(* ensure_fresh.                                                           *)

(* The caller comes with its copy of the row, selection's or the poller's  *)
(* sweep's. now is read once, and used for every check that follows.       *)
Enter(r) ==
    /\ pc[r] = "idle"
    /\ \/ ~expires_within(row, hour) /\ Returns(r, row)
       \/ /\ expires_within(row, hour)
          /\ Holds(r, row)
          /\ now' = [now EXCEPT ![r] = hour]
          /\ Goes(r, "gate")
          /\ UNCHANGED <<gate, call>>
    /\ UNCHANGED <<row, provider, hour, lock, history>>

(* The local gate, and the first look at what was written meanwhile. Every *)
(* read of the row may fail.                                               *)
Gate(r) ==
    /\ pc[r] = "gate"
    /\ gate[Home[r]] = NoOne
    /\ \/ Fails(r)
       \/ ~expires_within(row, now[r]) /\ Returns(r, row)
       \/ /\ expires_within(row, now[r])
          /\ gate' = [gate EXCEPT ![Home[r]] = r]
          /\ Goes(r, "lock")
          /\ UNCHANGED <<held, now, call>>
    /\ UNCHANGED <<row, provider, hour, lock, history>>

(* SET NX EX. A Redis error counts as losing, whether or not the command   *)
(* was run.                                                                *)
acquire_refresh_lock(r) ==
    /\ pc[r] = "lock"
    /\ \/ lock = 0 /\ lock' = LockTicks /\ Goes(r, "read")
       \/ lock > 0 /\ lock' = lock /\ Goes(r, "wait")
       \/ lock = 0 /\ lock' \in {0, LockTicks} /\ Goes(r, "wait")
    /\ UNCHANGED <<row, provider, hour, gate, held, now, call, history>>

\* A loser that has waited tidies up as a winner would.
WaitedReleases(r) ==
    /\ pc[r] = "wait"
    /\ Returns(r, row) \/ Fails(r)
    /\ lock' = 0
    /\ UNCHANGED <<row, provider, hour, history>>

(* The loser sleeps and takes what is there, the local gate in hand.       *)
Waited(r) ==
    /\ pc[r] = "wait"
    /\ Returns(r, row) \/ Fails(r)
    /\ UNCHANGED <<row, provider, hour, lock, history>>

-----------------------------------------------------------------------------
(* refresh_locked.                                                         *)

(* The holder of the lock leaves refresh_locked, with m or with an error.  *)
Finishes(r, m) == Goes(r, "unlock") /\ Holds(r, m) /\ call' = [call EXCEPT ![r] = NoCall]
FinishesFailed(r) == Finishes(r, held[r])

(* The row is read again under the lock, and is what will be presented.    *)
ReadLocked(r) ==
    /\ pc[r] = "read"
    /\ \/ FinishesFailed(r)
       \/ ~expires_within(row, now[r]) /\ Finishes(r, row)
       \/ /\ expires_within(row, now[r])
          /\ Holds(r, row)
          /\ call' = [call EXCEPT ![r] = Begun]
          /\ Goes(r, "call")
    /\ UNCHANGED <<row, provider, hour, lock, gate, now, history>>

(* A call that is not the last one: discovery's answer.                    *)
Discovered(r) ==
    /\ pc[r] = "call"
    /\ call[r].left > 1
    /\ call' = [call EXCEPT ![r] = [@ EXCEPT !.left = call[r].left - 1, !.timer = CallTicks]]
    /\ UNCHANGED <<row, provider, hour, lock, gate, pc, held, now, history>>

(* What the adapter makes of a grant: the new refresh token, or the one    *)
(* presented where none came; its expiry, or the old one where none came.  *)
Fresh(r, n, e) ==
    [version |-> held[r].version + 1, rt |-> IF rotates THEN n ELSE held[r].rt, at |-> n, exp |-> e]

(* The provider acts on the grant that is on the wire.                     *)
ProviderActs(r) ==
    /\ pc[r] = "call"
    /\ call[r].left = 1
    /\ call[r].reply = "none"
    /\ \/ /\ held[r].rt = live
          /\ issued < MaxIssued
          /\ issued' = issued + 1
          /\ live' = IF rotates THEN issued + 1 ELSE live
          /\ \E e \in {hour + 1, held[r].exp} :
                call' = [call EXCEPT ![r] = [@ EXCEPT !.reply = "granted",
                                                      !.fresh = Fresh(r, issued + 1, e)]]
       \/ /\ held[r].rt # live
          /\ call' = [call EXCEPT ![r] = [@ EXCEPT !.reply = "refused"]]
          /\ UNCHANGED <<live, issued>>
    /\ UNCHANGED <<row, rotates, hour, lock, gate, pc, held, now, history>>

(* A grant that was made, whose tokens only r has.                         *)
Carries(r) == call[r].reply = "granted"
Drops(r) == orphaned' = (orphaned \/ (Carries(r) /\ rotates))

(* The answer is read.                                                     *)
Answered(r) ==
    /\ pc[r] = "call"
    /\ call[r].reply # "none"
    /\ Goes(r, IF Carries(r) THEN "store" ELSE "recover")
    /\ UNCHANGED <<row, provider, hour, lock, gate, held, now, call, history>>

(* The call fails, whatever the provider has done.                         *)
CallFails(r) ==
    /\ pc[r] = "call"
    /\ Goes(r, "recover")
    /\ Drops(r)
    /\ call' = [call EXCEPT ![r] = NoCall]
    /\ UNCHANGED <<row, provider, hour, lock, gate, held, now, lost, expired>>

TimesOut(r) == call[r].timer = 0 /\ CallFails(r)

(* A failure is a lost race if the row has moved.                          *)
Recover(r) ==
    /\ pc[r] = "recover"
    /\ \/ row.version > held[r].version /\ Finishes(r, row)
       \/ FinishesFailed(r) \* it has not moved, or cannot be read
    /\ UNCHANGED <<row, provider, hour, lock, gate, now, history>>

\* The write does not look at the version.
StoreUnguarded(r) ==
    /\ pc[r] = "store"
    /\ row' = call[r].fresh
    /\ Finishes(r, call[r].fresh)
    /\ UNCHANGED <<provider, hour, lock, gate, now, history>>

(* The compare-and-swap of store_credentials. One that fails may have been *)
(* made.                                                                   *)
Store(r) ==
    /\ pc[r] = "store"
    /\ \/ /\ row.version = held[r].version
          /\ row' = call[r].fresh
          /\ Finishes(r, call[r].fresh) \/ FinishesFailed(r)
          /\ UNCHANGED orphaned
       \/ /\ row.version # held[r].version
          /\ Finishes(r, row) \/ FinishesFailed(r)
          /\ Drops(r)
          /\ UNCHANGED row
       \/ /\ FinishesFailed(r)
          /\ Drops(r)
          /\ UNCHANGED row
    /\ UNCHANGED <<provider, hour, lock, gate, now, lost, expired>>

(* The DEL names no owner, and may not arrive.                             *)
release_refresh_lock(r) ==
    /\ pc[r] = "unlock"
    /\ lock' \in {0, lock}
    /\ Ends(r, "done")
    /\ UNCHANGED <<row, provider, hour, held, history>>

\* The local mutex is unlocked by hand, on the paths that return.
HangUpKeepsGate(r) ==
    /\ pc[r] \notin {"idle", "done"}
    /\ Goes(r, "done")
    /\ Drops(r)
    /\ call' = [call EXCEPT ![r] = NoCall]
    /\ UNCHANGED <<row, provider, hour, lock, gate, held, now, lost, expired>>

(* The client hangs up, or the replica dies: the future is dropped where   *)
(* it is. Nobody deletes the lock.                                         *)
HangUp(r) ==
    /\ pc[r] \notin {"idle", "done"}
    /\ Ends(r, "done")
    /\ Drops(r)
    /\ UNCHANGED <<row, provider, hour, lock, held, lost, expired>>

-----------------------------------------------------------------------------
(* Time, and Redis.                                                        *)

Calling(r) == pc[r] = "call"

(* Between its calls a holder is at the database or Redis for less than a  *)
(* tick, and no call outlives its timeout.                                 *)
MayTick ==
    \A r \in Requests :
        /\ pc[r] \notin {"read", "recover", "store", "unlock"}
        /\ Calling(r) => call[r].timer > 0

Tick ==
    /\ MayTick
    /\ lock > 0 \/ \E r \in Requests : Calling(r)
    /\ lock' = IF lock > 0 THEN lock - 1 ELSE 0
    /\ call' = [r \in Requests |->
                   IF Calling(r) THEN [call[r] EXCEPT !.timer = @ - 1] ELSE call[r]]
    /\ expired' = (expired \/ (lock = 1 /\ \E r \in Requests : Calling(r)))
    /\ UNCHANGED <<row, provider, hour, gate, pc, held, now, orphaned, lost>>

(* An access token grows old.                                              *)
Hour ==
    /\ hour < MaxHour
    /\ hour' = hour + 1
    /\ UNCHANGED <<row, provider, lock, gate, pc, held, now, call, history>>

(* A restart or failover of a Redis that persists nothing.                 *)
LoseLock ==
    /\ lock > 0
    /\ lock' = 0
    /\ lost' = TRUE
    /\ UNCHANGED <<row, provider, hour, gate, pc, held, now, call, orphaned, expired>>

-----------------------------------------------------------------------------
Step(r) ==
    \/ Gate(r) \/ acquire_refresh_lock(r) \/ Waited(r)
    \/ ReadLocked(r) \/ Answered(r) \/ TimesOut(r) \/ Recover(r) \/ Store(r)
    \/ release_refresh_lock(r)

Request(r) ==
    Enter(r) \/ Step(r) \/ Discovered(r) \/ ProviderActs(r) \/ CallFails(r) \/ HangUp(r)

Next == (\E r \in Requests : Request(r)) \/ Tick \/ Hour \/ LoseLock

(* A future that can proceed is polled, and the clock runs. Nothing is     *)
(* assumed of the provider or of Redis: a call that is not answered ends   *)
(* by its timeout.                                                         *)
Spec == Init /\ [][Next]_vars /\ (\A r \in Requests : WF_vars(Step(r))) /\ WF_vars(Tick)

-----------------------------------------------------------------------------
(* The types; no call of a refresh outlives its time-out (refresh.rs).     *)
TypeOK ==
    /\ row \in Material
    /\ live \in 0..MaxIssued /\ issued \in 0..MaxIssued /\ rotates \in BOOLEAN
    /\ hour \in 0..MaxHour
    /\ lock \in 0..LockTicks
    /\ gate \in [Replicas -> Requests \cup {NoOne}]
    /\ pc \in [Requests -> {"idle", "gate", "lock", "wait", "read",
                            "call", "recover", "store", "unlock", "done"}]
    /\ held \in [Requests -> Material]
    /\ now \in [Requests -> 0..MaxHour]
    /\ call \in [Requests -> Call]
    /\ orphaned \in BOOLEAN /\ lost \in BOOLEAN /\ expired \in BOOLEAN

(* A stored credential is only ever replaced by one granted later: a slow  *)
(* refresh never overwrites a newer token with an older one. So ensure_fresh *)
(* never gives its caller an older token than the caller came with.        *)
NeverOlder ==
    [][/\ row' # row => row'.at > row.at
       /\ \A r \in Requests : held'[r].at >= held[r].at]_<<row, held>>

(* Whoever is in the middle of a refresh is presenting a refresh token     *)
(* that nobody else has consumed.                                          *)
PresentsLive ==
    \A r \in Requests : Calling(r) /\ call[r].reply = "none" => held[r].rt = live

(* The lock does what it is for: while it lasts, and no grant has been     *)
(* dropped, no two callers present one refresh token.                      *)
LockProtects == ~orphaned /\ ~lost /\ ~expired => PresentsLive

(* The same of a Redis that never loses a lock: the calls of a refresh are *)
(* bounded below the lock's life, so it never runs out under them.         *)
LockOutlasts == ~orphaned /\ ~lost => PresentsLive

(* The seat is not locked out, with or without the lock: unless a caller   *)
(* dropped a grant, the live refresh token is in the row or in the hands   *)
(* of a caller that is about to write it there.                            *)
SeatAlive ==
    ~orphaned =>
        \/ row.rt = live
        \/ \E r \in Requests : Carries(r) /\ call[r].fresh.rt = live

(* ensure_fresh returns, whatever the provider, Redis and the callers      *)
(* ahead of this one do, and a lock nobody will delete comes free: however *)
(* the callers come, all of them end and so does the lock they left.       *)
RefreshSettles == []<>(lock = 0 /\ \A r \in Requests : pc[r] \in {"idle", "done"})

(* No refresh token is presented twice while the lock lasts, and the live  *)
(* one is never lost (gateway/refresh.rs, accounts.rs).                    *)
RefreshSafe == TypeOK /\ LockProtects /\ SeatAlive

=============================================================================
