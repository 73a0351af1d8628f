--------------------------- MODULE RefreshProofs ---------------------------
(***************************************************************************)
(* What the version guard, the single-use tokens and the fleet lock give a *)
(* credential that any number of callers refresh, for every timing; and    *)
(* what the ladder, the floor and the catalog give a request that names a  *)
(* model, for every ladder, catalog, budget and spelling of the name.      *)
(***************************************************************************)
EXTENDS Refresh, Routing, FiniteSetTheorems, SequenceTheorems, WellFoundedInduction, TLAPS

(* A grant is only carried by a call whose answer is not yet dealt with.   *)
Bookkeeping ==
    \A r \in Requests :
        /\ pc[r] \notin {"call", "store", "recover"} => call[r] = NoCall
        /\ pc[r] = "store" => Carries(r)
        /\ pc[r] = "recover" => ~Carries(r)

(* A version names one material: whoever holds the row's version holds the *)
(* row. A grant is newer than the material it was asked for with.          *)
Versions ==
    /\ row.at <= issued
    /\ \A r \in Requests :
        /\ held[r].version <= row.version
        /\ held[r].at <= row.at
        /\ held[r].version = row.version => held[r] = row
        /\ Carries(r) =>
            /\ call[r].fresh.version = held[r].version + 1
            /\ held[r].at < call[r].fresh.at
            /\ call[r].fresh.at <= issued

(* Which refresh tokens there are. A provider that rotates them issues one *)
(* with each access token, and takes the last; another has only the first. *)
Tokens ==
    /\ rotates =>
        /\ live = issued
        /\ row.rt = row.at
        /\ \A r \in Requests : held[r].rt = held[r].at
        /\ \A r \in Requests : Carries(r) => call[r].fresh.rt = call[r].fresh.at
    /\ ~rotates =>
        /\ live = 0
        /\ row.rt = 0
        /\ \A r \in Requests : held[r].rt = 0
        /\ \A r \in Requests : Carries(r) => call[r].fresh.rt = 0

(* Single-use tokens are granted one at a time: until the last grant is    *)
(* written nobody has the token that would buy the next.                   *)
OneGrant ==
    rotates /\ ~orphaned =>
        /\ row.at = issued \/ \E r \in Requests : Carries(r)
        /\ \A r \in Requests : Carries(r) =>
            /\ call[r].fresh.at = issued
            /\ row.at < issued
            /\ \A s \in Requests : Carries(s) => s = r

InSection(r) == pc[r] \in {"read", "call", "recover", "store", "unlock"}

(* While the lock lasts there is one caller in refresh_locked.             *)
Exclusive ==
    ~lost /\ ~expired =>
        \A r \in Requests : InSection(r) =>
            lock > 0 /\ \A s \in Requests : InSection(s) => s = r

Flags == orphaned \in BOOLEAN /\ lost \in BOOLEAN /\ expired \in BOOLEAN

IInv ==
    /\ TypeOK /\ Bookkeeping /\ Versions /\ Tokens /\ OneGrant /\ Exclusive /\ LockProtects

(* The fields of well-typed records.                                       *)
LEMMA Fields ==
    /\ \A m \in Material : m.version \in Nat /\ m.rt \in Nat /\ m.at \in Nat /\ m.exp \in Nat
    /\ \A c \in Call : /\ c.left \in 0..Calls /\ c.timer \in 0..CallTicks
                       /\ c.reply \in {"none", "refused", "granted"} /\ c.fresh \in Material
BY DEF Material, Call

(* The first material is well-typed, and so are a call that is not made    *)
(* and one that has just begun.                                            *)
LEMMA FirstTyped ==
    /\ First \in Material /\ First.version = 0 /\ First.rt = 0 /\ First.at = 0
    /\ NoCall \in Call /\ NoCall.reply = "none"
BY RefreshAssumption DEF First, Material, NoCall, Call

LEMMA BegunTyped ==
    Begun \in Call /\ Begun.reply = "none" /\ Begun.left = Calls /\ Begun.timer = CallTicks
<1>1. Calls \in 0..Calls /\ CallTicks \in 0..CallTicks BY RefreshAssumption
<1> QED BY <1>1, FirstTyped DEF Begun, Call

(* The calls that come after it are well-typed too.                        *)
LEMMA CallsTyped ==
    ASSUME NEW c \in Call, NEW n \in 0..Calls
    PROVE  /\ [c EXCEPT !.reply = "refused"] \in Call
           /\ [c EXCEPT !.reply = "refused"].reply = "refused"
           /\ [c EXCEPT !.left = n, !.timer = CallTicks] \in Call
<1>1. CallTicks \in 0..CallTicks BY RefreshAssumption
<1>2. [c EXCEPT !.reply = "refused"] \in Call /\ [c EXCEPT !.reply = "refused"].reply = "refused"
    BY DEF Call
<1>3. [c EXCEPT !.left = n, !.timer = CallTicks] \in Call BY <1>1 DEF Call
<1> QED BY <1>2, <1>3

(* What a grant makes is a material, newer than the one presented.         *)
LEMMA FreshTyped ==
    ASSUME TypeOK, NEW r \in Requests, NEW n \in Nat, NEW e \in Nat
    PROVE  /\ Fresh(r, n, e) \in Material
           /\ Fresh(r, n, e).version = held[r].version + 1
           /\ Fresh(r, n, e).at = n
           /\ Fresh(r, n, e).rt = IF rotates THEN n ELSE held[r].rt
BY DEF TypeOK, Fresh, Material

(* Everyone holds the first material and nobody has called.                *)
LEMMA InitEstablishes == Init => IInv
<1> SUFFICES ASSUME Init PROVE IInv OBVIOUS
<1>1. Flags BY DEF Init, Flags
<1>2. TypeOK
    BY <1>1, FirstTyped, RefreshAssumption DEF Init, TypeOK, Flags
<1>3. \A r \in Requests : ~Carries(r) /\ ~InSection(r) /\ ~Calling(r)
    BY FirstTyped DEF Init, Carries, InSection, Calling
<1> QED BY <1>2, <1>3, FirstTyped
    DEF IInv, Init, Bookkeeping, Versions, Tokens, OneGrant, Exclusive, LockProtects, PresentsLive

-----------------------------------------------------------------------------
(* What a step does to the credential is one of three things.              *)

(* Nothing is granted or written. A caller keeps its material or takes the *)
(* row's; a carrier keeps its grant, or drops it.                          *)
Quiet ==
    /\ row' = row /\ live' = live /\ issued' = issued
    /\ \A s \in Requests : held'[s] = held[s] \/ held'[s] = row
    /\ \A s \in Requests : Carries(s)' =>
        Carries(s) /\ call'[s].fresh = call[s].fresh /\ held'[s] = held[s]
    /\ orphaned => orphaned'
    /\ \A s \in Requests : Carries(s) /\ ~Carries(s)' /\ rotates => orphaned'

(* The provider grants r a new material for the live refresh token.        *)
Granted(r) ==
    /\ row' = row /\ held' = held /\ orphaned' = orphaned
    /\ held[r].rt = live /\ ~Carries(r) /\ Carries(r)'
    /\ issued' = issued + 1
    /\ live' = IF rotates THEN issued + 1 ELSE live
    /\ call'[r].fresh.version = held[r].version + 1
    /\ call'[r].fresh.at = issued + 1
    /\ call'[r].fresh.rt = IF rotates THEN issued + 1 ELSE held[r].rt
    /\ \A s \in Requests \ {r} : call'[s] = call[s]

(* r writes its grant over the row it was asked for with.                  *)
Wrote(r) ==
    /\ live' = live /\ issued' = issued /\ orphaned' = orphaned
    /\ Carries(r) /\ ~Carries(r)'
    /\ row.version = held[r].version
    /\ row' = call[r].fresh
    /\ held'[r] = held[r] \/ held'[r] = row'
    /\ \A s \in Requests \ {r} : call'[s] = call[s] /\ held'[s] = held[s]

(* Every step keeps the types.                                             *)
LEMMA Typed ==
    ASSUME IInv, [Next]_vars PROVE TypeOK'
<1> USE RefreshAssumption, FirstTyped, Fields
<1>0. TypeOK /\ Bookkeeping /\ Flags BY DEF IInv, TypeOK, Flags
<1>1. ASSUME NEW r \in Requests, Enter(r) PROVE TypeOK'
  <2>1. Flags' BY <1>0, <1>1 DEF Flags, Enter, Goes, Holds, Ends, Returns, Fails, Finishes, FinishesFailed, Drops, provider, history
  <2>2. call' \in [Requests -> Call] /\ held' \in [Requests -> Material]
    BY <1>0, <1>1 DEF Enter, TypeOK, Goes, Holds, Ends, Returns, Fails, Finishes, FinishesFailed, Drops, provider, history
  <2>3. gate' \in [Replicas -> Requests \cup {NoOne}] /\ now' \in [Requests -> 0..MaxHour]
    BY <1>0, <1>1 DEF Enter, TypeOK, Goes, Holds, Ends, Returns, Fails, Finishes, FinishesFailed, Drops, provider, history
  <2> QED BY <1>0, <1>1, <2>1, <2>2, <2>3 DEF Flags, Enter, TypeOK, Goes, Ends, Returns, Fails, Finishes, FinishesFailed, provider
<1>2. ASSUME NEW r \in Requests, Gate(r) PROVE TypeOK'
  <2>1. Flags' BY <1>0, <1>2 DEF Flags, Gate, Goes, Holds, Ends, Returns, Fails, Finishes, FinishesFailed, Drops, provider, history
  <2>2. call' \in [Requests -> Call] /\ held' \in [Requests -> Material]
    BY <1>0, <1>2 DEF Gate, TypeOK, Goes, Holds, Ends, Returns, Fails, Finishes, FinishesFailed, Drops, provider, history
  <2>3. gate' \in [Replicas -> Requests \cup {NoOne}] /\ now' \in [Requests -> 0..MaxHour]
    BY <1>0, <1>2 DEF Gate, TypeOK, Goes, Holds, Ends, Returns, Fails, Finishes, FinishesFailed, Drops, provider, history
  <2> QED BY <1>0, <1>2, <2>1, <2>2, <2>3 DEF Flags, Gate, TypeOK, Goes, Ends, Returns, Fails, Finishes, FinishesFailed, provider
<1>3. ASSUME NEW r \in Requests, acquire_refresh_lock(r) PROVE TypeOK'
  <2>1. Flags' BY <1>0, <1>3 DEF Flags, acquire_refresh_lock, Goes, Holds, Ends, Returns, Fails, Finishes, FinishesFailed, Drops, provider, history
  <2>2. call' \in [Requests -> Call] /\ held' \in [Requests -> Material]
    BY <1>0, <1>3 DEF acquire_refresh_lock, TypeOK, Goes, Holds, Ends, Returns, Fails, Finishes, FinishesFailed, Drops, provider, history
  <2>3. gate' \in [Replicas -> Requests \cup {NoOne}] /\ now' \in [Requests -> 0..MaxHour]
    BY <1>0, <1>3 DEF acquire_refresh_lock, TypeOK, Goes, Holds, Ends, Returns, Fails, Finishes, FinishesFailed, Drops, provider, history
  <2> QED BY <1>0, <1>3, <2>1, <2>2, <2>3 DEF Flags, acquire_refresh_lock, TypeOK, Goes, Ends, Returns, Fails, Finishes, FinishesFailed, provider
<1>4. ASSUME NEW r \in Requests, Waited(r) PROVE TypeOK'
  <2>1. Flags' BY <1>0, <1>4 DEF Flags, Waited, Goes, Holds, Ends, Returns, Fails, Finishes, FinishesFailed, Drops, provider, history
  <2>2. call' \in [Requests -> Call] /\ held' \in [Requests -> Material]
    BY <1>0, <1>4 DEF Waited, TypeOK, Goes, Holds, Ends, Returns, Fails, Finishes, FinishesFailed, Drops, provider, history
  <2>3. gate' \in [Replicas -> Requests \cup {NoOne}] /\ now' \in [Requests -> 0..MaxHour]
    BY <1>0, <1>4 DEF Waited, TypeOK, Goes, Holds, Ends, Returns, Fails, Finishes, FinishesFailed, Drops, provider, history
  <2> QED BY <1>0, <1>4, <2>1, <2>2, <2>3 DEF Flags, Waited, TypeOK, Goes, Ends, Returns, Fails, Finishes, FinishesFailed, provider
<1>5. ASSUME NEW r \in Requests, ReadLocked(r) PROVE TypeOK'
  <2>1. Flags' BY <1>0, <1>5 DEF Flags, ReadLocked, Goes, Holds, Ends, Returns, Fails, Finishes, FinishesFailed, Drops, provider, history
  <2>2. call' \in [Requests -> Call] /\ held' \in [Requests -> Material]
    BY <1>0, <1>5, BegunTyped DEF ReadLocked, TypeOK, Goes, Holds, Ends, Returns, Fails, Finishes, FinishesFailed, Drops, provider, history
  <2>3. gate' \in [Replicas -> Requests \cup {NoOne}] /\ now' \in [Requests -> 0..MaxHour]
    BY <1>0, <1>5 DEF ReadLocked, TypeOK, Goes, Holds, Ends, Returns, Fails, Finishes, FinishesFailed, Drops, provider, history
  <2> QED BY <1>0, <1>5, <2>1, <2>2, <2>3 DEF Flags, ReadLocked, TypeOK, Goes, Ends, Returns, Fails, Finishes, FinishesFailed, provider
<1>6. ASSUME NEW r \in Requests, Discovered(r) PROVE TypeOK'
  <2>0. call[r] \in Call /\ call[r].left - 1 \in 0..Calls BY <1>0, <1>6 DEF Discovered, TypeOK
  <2> DEFINE c == [call[r] EXCEPT !.left = call[r].left - 1, !.timer = CallTicks]
  <2>a. c \in Call BY <2>0, CallsTyped
  <2>b. call' = [call EXCEPT ![r] = c] BY <1>6 DEF Discovered
  <2> HIDE DEF c
  <2>1. call' \in [Requests -> Call] BY <1>0, <2>a, <2>b DEF TypeOK
  <2> QED BY <1>0, <1>6, <2>1 DEF Discovered, TypeOK, provider, history
<1>7. ASSUME NEW r \in Requests, ProviderActs(r) PROVE TypeOK'
  <2>1. call' \in [Requests -> Call]
    <3>a. CASE held[r].rt = live
      <4>1. PICK e \in {hour + 1, held[r].exp} :
              call' = [call EXCEPT ![r] = [@ EXCEPT !.reply = "granted",
                                                    !.fresh = Fresh(r, issued + 1, e)]]
        BY <1>7, <3>a DEF ProviderActs
      <4>2. e \in Nat /\ issued + 1 \in Nat BY <1>0 DEF TypeOK
      <4>3. Fresh(r, issued + 1, e) \in Material BY <1>0, <4>2, FreshTyped
      <4> HIDE DEF Fresh
      <4> QED BY <1>0, <4>1, <4>3 DEF TypeOK, Call
    <3>b. CASE held[r].rt # live
      <4> DEFINE c == [call[r] EXCEPT !.reply = "refused"]
      <4>1. 0 \in 0..Calls /\ call[r] \in Call BY <1>0, RefreshAssumption DEF TypeOK
      <4>2. c \in Call BY <4>1, CallsTyped
      <4>3. call' = [call EXCEPT ![r] = c] BY <1>7, <3>b DEF ProviderActs
      <4> HIDE DEF c
      <4> QED BY <1>0, <4>2, <4>3 DEF TypeOK
    <3> QED BY <3>a, <3>b
  <2>2. live' \in 0..MaxIssued /\ issued' \in 0..MaxIssued BY <1>0, <1>7 DEF ProviderActs, TypeOK
  <2> QED BY <1>0, <1>7, <2>1, <2>2 DEF ProviderActs, TypeOK, history
<1>8. ASSUME NEW r \in Requests, Answered(r) PROVE TypeOK'
  <2>1. Flags' BY <1>0, <1>8 DEF Flags, Answered, Goes, Holds, Ends, Returns, Fails, Finishes, FinishesFailed, Drops, provider, history
  <2>2. call' \in [Requests -> Call] /\ held' \in [Requests -> Material]
    BY <1>0, <1>8 DEF Answered, TypeOK, Goes, Holds, Ends, Returns, Fails, Finishes, FinishesFailed, Drops, provider, history
  <2>3. gate' \in [Replicas -> Requests \cup {NoOne}] /\ now' \in [Requests -> 0..MaxHour]
    BY <1>0, <1>8 DEF Answered, TypeOK, Goes, Holds, Ends, Returns, Fails, Finishes, FinishesFailed, Drops, provider, history
  <2> QED BY <1>0, <1>8, <2>1, <2>2, <2>3 DEF Flags, Answered, TypeOK, Goes, Ends, Returns, Fails, Finishes, FinishesFailed, provider
<1>9. ASSUME NEW r \in Requests, CallFails(r) PROVE TypeOK'
  <2>1. Flags' BY <1>0, <1>9 DEF Flags, CallFails, Goes, Holds, Ends, Returns, Fails, Finishes, FinishesFailed, Drops, provider, history
  <2>2. call' \in [Requests -> Call] /\ held' \in [Requests -> Material]
    BY <1>0, <1>9 DEF CallFails, TypeOK, Goes, Holds, Ends, Returns, Fails, Finishes, FinishesFailed, Drops, provider, history
  <2>3. gate' \in [Replicas -> Requests \cup {NoOne}] /\ now' \in [Requests -> 0..MaxHour]
    BY <1>0, <1>9 DEF CallFails, TypeOK, Goes, Holds, Ends, Returns, Fails, Finishes, FinishesFailed, Drops, provider, history
  <2> QED BY <1>0, <1>9, <2>1, <2>2, <2>3 DEF Flags, CallFails, TypeOK, Goes, Ends, Returns, Fails, Finishes, FinishesFailed, provider
<1>10. ASSUME NEW r \in Requests, Recover(r) PROVE TypeOK'
  <2>1. Flags' BY <1>0, <1>10 DEF Flags, Recover, Goes, Holds, Ends, Returns, Fails, Finishes, FinishesFailed, Drops, provider, history
  <2>2. call' \in [Requests -> Call] /\ held' \in [Requests -> Material]
    BY <1>0, <1>10 DEF Recover, TypeOK, Goes, Holds, Ends, Returns, Fails, Finishes, FinishesFailed, Drops, provider, history
  <2>3. gate' \in [Replicas -> Requests \cup {NoOne}] /\ now' \in [Requests -> 0..MaxHour]
    BY <1>0, <1>10 DEF Recover, TypeOK, Goes, Holds, Ends, Returns, Fails, Finishes, FinishesFailed, Drops, provider, history
  <2> QED BY <1>0, <1>10, <2>1, <2>2, <2>3 DEF Flags, Recover, TypeOK, Goes, Ends, Returns, Fails, Finishes, FinishesFailed, provider
<1>11. ASSUME NEW r \in Requests, Store(r) PROVE TypeOK'
  <2>1. Flags' BY <1>0, <1>11 DEF Flags, Store, Goes, Holds, Ends, Returns, Fails, Finishes, FinishesFailed, Drops, provider, history
  <2>2. call' \in [Requests -> Call] /\ held' \in [Requests -> Material]
    BY <1>0, <1>11 DEF Store, TypeOK, Goes, Holds, Ends, Returns, Fails, Finishes, FinishesFailed, Drops, provider, history
  <2>3. gate' \in [Replicas -> Requests \cup {NoOne}] /\ now' \in [Requests -> 0..MaxHour]
    BY <1>0, <1>11 DEF Store, TypeOK, Goes, Holds, Ends, Returns, Fails, Finishes, FinishesFailed, Drops, provider, history
  <2> QED BY <1>0, <1>11, <2>1, <2>2, <2>3 DEF Flags, Store, TypeOK, Goes, Ends, Returns, Fails, Finishes, FinishesFailed, provider
<1>12. ASSUME NEW r \in Requests, release_refresh_lock(r) PROVE TypeOK'
  <2>1. Flags' BY <1>0, <1>12 DEF Flags, release_refresh_lock, Goes, Holds, Ends, Returns, Fails, Finishes, FinishesFailed, Drops, provider, history
  <2>2. call' \in [Requests -> Call] /\ held' \in [Requests -> Material]
    BY <1>0, <1>12 DEF release_refresh_lock, TypeOK, Goes, Holds, Ends, Returns, Fails, Finishes, FinishesFailed, Drops, provider, history
  <2>3. gate' \in [Replicas -> Requests \cup {NoOne}] /\ now' \in [Requests -> 0..MaxHour]
    BY <1>0, <1>12 DEF release_refresh_lock, TypeOK, Goes, Holds, Ends, Returns, Fails, Finishes, FinishesFailed, Drops, provider, history
  <2> QED BY <1>0, <1>12, <2>1, <2>2, <2>3 DEF Flags, release_refresh_lock, TypeOK, Goes, Ends, Returns, Fails, Finishes, FinishesFailed, provider
<1>13. ASSUME NEW r \in Requests, HangUp(r) PROVE TypeOK'
  <2>1. Flags' BY <1>0, <1>13 DEF Flags, HangUp, Goes, Holds, Ends, Returns, Fails, Finishes, FinishesFailed, Drops, provider, history
  <2>2. call' \in [Requests -> Call] /\ held' \in [Requests -> Material]
    BY <1>0, <1>13 DEF HangUp, TypeOK, Goes, Holds, Ends, Returns, Fails, Finishes, FinishesFailed, Drops, provider, history
  <2>3. gate' \in [Replicas -> Requests \cup {NoOne}] /\ now' \in [Requests -> 0..MaxHour]
    BY <1>0, <1>13 DEF HangUp, TypeOK, Goes, Holds, Ends, Returns, Fails, Finishes, FinishesFailed, Drops, provider, history
  <2> QED BY <1>0, <1>13, <2>1, <2>2, <2>3 DEF Flags, HangUp, TypeOK, Goes, Ends, Returns, Fails, Finishes, FinishesFailed, provider
<1>14. CASE Tick
  <2>1. call' \in [Requests -> Call] BY <1>0, <1>14 DEF Tick, TypeOK, Call, MayTick, Calling
  <2>2. expired' \in BOOLEAN BY <1>0, <1>14 DEF Tick, Flags
  <2> QED BY <1>0, <1>14, <2>1, <2>2 DEF Tick, TypeOK, provider
<1>15. CASE Hour
  BY <1>0, <1>15 DEF Hour, TypeOK, provider, history
<1>16. CASE LoseLock
  <2>1. lost' \in BOOLEAN BY <1>16 DEF LoseLock
  <2> QED BY <1>0, <1>16, <2>1 DEF LoseLock, TypeOK, provider
<1>17. CASE UNCHANGED vars
  BY <1>0, <1>17 DEF vars, TypeOK, provider, history
<1> QED BY <1>1, <1>2, <1>3, <1>4, <1>5, <1>6, <1>7, <1>8, <1>9, <1>10, <1>11, <1>12, <1>13, <1>14, <1>15, <1>16, <1>17 DEF Next, Request, Step, TimesOut

(* Every step keeps calls and program counters in step.                    *)
LEMMA Booked ==
    ASSUME IInv, [Next]_vars PROVE Bookkeeping'
<1> USE RefreshAssumption, FirstTyped, Fields
<1>0. TypeOK /\ Bookkeeping /\ Flags BY DEF IInv, TypeOK, Flags
<1>1. ASSUME NEW r \in Requests, Enter(r) PROVE Bookkeeping'
  BY <1>0, <1>1 DEF Enter, TypeOK, Bookkeeping, Carries, Goes, Holds, Ends, Returns, Fails, Finishes, FinishesFailed, Drops, provider, history
<1>2. ASSUME NEW r \in Requests, Gate(r) PROVE Bookkeeping'
  BY <1>0, <1>2 DEF Gate, TypeOK, Bookkeeping, Carries, Goes, Holds, Ends, Returns, Fails, Finishes, FinishesFailed, Drops, provider, history
<1>3. ASSUME NEW r \in Requests, acquire_refresh_lock(r) PROVE Bookkeeping'
  BY <1>0, <1>3 DEF acquire_refresh_lock, TypeOK, Bookkeeping, Carries, Goes, Holds, Ends, Returns, Fails, Finishes, FinishesFailed, Drops, provider, history
<1>4. ASSUME NEW r \in Requests, Waited(r) PROVE Bookkeeping'
  BY <1>0, <1>4 DEF Waited, TypeOK, Bookkeeping, Carries, Goes, Holds, Ends, Returns, Fails, Finishes, FinishesFailed, Drops, provider, history
<1>5. ASSUME NEW r \in Requests, ReadLocked(r) PROVE Bookkeeping'
  BY <1>0, <1>5 DEF ReadLocked, TypeOK, Bookkeeping, Carries, Goes, Holds, Ends, Returns, Fails, Finishes, FinishesFailed, Drops, provider, history
<1>6. ASSUME NEW r \in Requests, Discovered(r) PROVE Bookkeeping'
  BY <1>0, <1>6 DEF Discovered, TypeOK, Bookkeeping, Carries, Goes, Holds, Ends, Returns, Fails, Finishes, FinishesFailed, Drops, provider, history
<1>7. ASSUME NEW r \in Requests, ProviderActs(r) PROVE Bookkeeping'
  BY <1>0, <1>7 DEF ProviderActs, TypeOK, Bookkeeping, Carries, Goes, Holds, Ends, Returns, Fails, Finishes, FinishesFailed, Drops, provider, history
<1>8. ASSUME NEW r \in Requests, Answered(r) PROVE Bookkeeping'
  BY <1>0, <1>8 DEF Answered, TypeOK, Bookkeeping, Carries, Goes, Holds, Ends, Returns, Fails, Finishes, FinishesFailed, Drops, provider, history
<1>9. ASSUME NEW r \in Requests, CallFails(r) PROVE Bookkeeping'
  BY <1>0, <1>9 DEF CallFails, TypeOK, Bookkeeping, Carries, Goes, Holds, Ends, Returns, Fails, Finishes, FinishesFailed, Drops, provider, history
<1>10. ASSUME NEW r \in Requests, Recover(r) PROVE Bookkeeping'
  BY <1>0, <1>10 DEF Recover, TypeOK, Bookkeeping, Carries, Goes, Holds, Ends, Returns, Fails, Finishes, FinishesFailed, Drops, provider, history
<1>11. ASSUME NEW r \in Requests, Store(r) PROVE Bookkeeping'
  BY <1>0, <1>11 DEF Store, TypeOK, Bookkeeping, Carries, Goes, Holds, Ends, Returns, Fails, Finishes, FinishesFailed, Drops, provider, history
<1>12. ASSUME NEW r \in Requests, release_refresh_lock(r) PROVE Bookkeeping'
  BY <1>0, <1>12 DEF release_refresh_lock, TypeOK, Bookkeeping, Carries, Goes, Holds, Ends, Returns, Fails, Finishes, FinishesFailed, Drops, provider, history
<1>13. ASSUME NEW r \in Requests, HangUp(r) PROVE Bookkeeping'
  BY <1>0, <1>13 DEF HangUp, TypeOK, Bookkeeping, Carries, Goes, Holds, Ends, Returns, Fails, Finishes, FinishesFailed, Drops, provider, history
<1>14. CASE Tick
  BY <1>0, <1>14 DEF Tick, TypeOK, Bookkeeping, Carries, Calling, provider, history
<1>15. CASE Hour
  BY <1>0, <1>15 DEF Hour, TypeOK, Bookkeeping, Carries, Calling, provider, history
<1>16. CASE LoseLock
  BY <1>0, <1>16 DEF LoseLock, TypeOK, Bookkeeping, Carries, Calling, provider, history
<1>17. CASE UNCHANGED vars
  BY <1>0, <1>17 DEF vars, Bookkeeping, Carries
<1> QED BY <1>1, <1>2, <1>3, <1>4, <1>5, <1>6, <1>7, <1>8, <1>9, <1>10, <1>11, <1>12, <1>13, <1>14, <1>15, <1>16, <1>17 DEF Next, Request, Step, TimesOut

(* Every step is one of the three.                                         *)
LEMMA Classified ==
    ASSUME IInv, [Next]_vars PROVE (Quiet \/ \E q \in Requests : Granted(q) \/ Wrote(q)) /\ rotates' = rotates
<1> USE RefreshAssumption, FirstTyped, Fields
<1>0. TypeOK /\ Bookkeeping /\ Flags BY DEF IInv, TypeOK, Flags
<1>1. ASSUME NEW r \in Requests, Enter(r) PROVE (Quiet \/ \E q \in Requests : Granted(q) \/ Wrote(q)) /\ rotates' = rotates
  BY <1>0, <1>1 DEF Enter, TypeOK, Bookkeeping, Quiet, Carries, Goes, Holds, Ends, Returns, Fails, Finishes, FinishesFailed, Drops, provider, history
<1>2. ASSUME NEW r \in Requests, Gate(r) PROVE (Quiet \/ \E q \in Requests : Granted(q) \/ Wrote(q)) /\ rotates' = rotates
  BY <1>0, <1>2 DEF Gate, TypeOK, Bookkeeping, Quiet, Carries, Goes, Holds, Ends, Returns, Fails, Finishes, FinishesFailed, Drops, provider, history
<1>3. ASSUME NEW r \in Requests, acquire_refresh_lock(r) PROVE (Quiet \/ \E q \in Requests : Granted(q) \/ Wrote(q)) /\ rotates' = rotates
  BY <1>0, <1>3 DEF acquire_refresh_lock, TypeOK, Bookkeeping, Quiet, Carries, Goes, Holds, Ends, Returns, Fails, Finishes, FinishesFailed, Drops, provider, history
<1>4. ASSUME NEW r \in Requests, Waited(r) PROVE (Quiet \/ \E q \in Requests : Granted(q) \/ Wrote(q)) /\ rotates' = rotates
  BY <1>0, <1>4 DEF Waited, TypeOK, Bookkeeping, Quiet, Carries, Goes, Holds, Ends, Returns, Fails, Finishes, FinishesFailed, Drops, provider, history
<1>5. ASSUME NEW r \in Requests, ReadLocked(r) PROVE (Quiet \/ \E q \in Requests : Granted(q) \/ Wrote(q)) /\ rotates' = rotates
  BY <1>0, <1>5, BegunTyped DEF ReadLocked, TypeOK, Bookkeeping, Quiet, Carries, Goes, Holds, Ends, Returns, Fails, Finishes, FinishesFailed, Drops, provider, history
<1>6. ASSUME NEW r \in Requests, Discovered(r) PROVE (Quiet \/ \E q \in Requests : Granted(q) \/ Wrote(q)) /\ rotates' = rotates
  <2>1. \A s \in Requests : call'[s].reply = call[s].reply /\ call'[s].fresh = call[s].fresh
    BY <1>0, <1>6 DEF Discovered, TypeOK, Call
  <2> QED BY <1>6, <2>1 DEF Discovered, Quiet, Carries, provider, history
<1>7. ASSUME NEW r \in Requests, ProviderActs(r) PROVE (Quiet \/ \E q \in Requests : Granted(q) \/ Wrote(q)) /\ rotates' = rotates
  <2>a. CASE held[r].rt = live
    <3>1. PICK e \in {hour + 1, held[r].exp} :
              call' = [call EXCEPT ![r] = [@ EXCEPT !.reply = "granted",
                                                    !.fresh = Fresh(r, issued + 1, e)]]
      BY <1>7, <2>a DEF ProviderActs
    <3>2. e \in Nat /\ issued + 1 \in Nat BY <1>0 DEF TypeOK
    <3>3. /\ Fresh(r, issued + 1, e).version = held[r].version + 1
          /\ Fresh(r, issued + 1, e).at = issued + 1
          /\ Fresh(r, issued + 1, e).rt = IF rotates THEN issued + 1 ELSE held[r].rt
      BY <1>0, <3>2, FreshTyped
    <3>4. /\ call'[r].reply = "granted" /\ call'[r].fresh = Fresh(r, issued + 1, e)
          /\ \A s \in Requests \ {r} : call'[s] = call[s]
      BY <1>0, <3>1 DEF TypeOK, Call
    <3> HIDE DEF Fresh
    <3>5. Granted(r) BY <1>0, <1>7, <2>a, <3>3, <3>4 DEF ProviderActs, Granted, Carries, history
    <3> QED BY <1>7, <3>5 DEF ProviderActs
  <2>b. CASE held[r].rt # live
    <3>1. \A s \in Requests : ~Carries(s)' \/ (Carries(s) /\ call'[s] = call[s])
      BY <1>0, <1>7, <2>b DEF ProviderActs, TypeOK, Carries, Call
    <3>2. \A s \in Requests : Carries(s) => Carries(s)'
      BY <1>0, <1>7, <2>b DEF ProviderActs, TypeOK, Carries, Call
    <3> QED BY <1>0, <1>7, <2>b, <3>1, <3>2 DEF ProviderActs, Quiet, history
  <2> QED BY <2>a, <2>b
<1>8. ASSUME NEW r \in Requests, Answered(r) PROVE (Quiet \/ \E q \in Requests : Granted(q) \/ Wrote(q)) /\ rotates' = rotates
  BY <1>0, <1>8 DEF Answered, TypeOK, Bookkeeping, Quiet, Carries, Goes, Holds, Ends, Returns, Fails, Finishes, FinishesFailed, Drops, provider, history
<1>9. ASSUME NEW r \in Requests, CallFails(r) PROVE (Quiet \/ \E q \in Requests : Granted(q) \/ Wrote(q)) /\ rotates' = rotates
  BY <1>0, <1>9 DEF CallFails, TypeOK, Bookkeeping, Quiet, Carries, Goes, Holds, Ends, Returns, Fails, Finishes, FinishesFailed, Drops, provider, history
<1>10. ASSUME NEW r \in Requests, Recover(r) PROVE (Quiet \/ \E q \in Requests : Granted(q) \/ Wrote(q)) /\ rotates' = rotates
  BY <1>0, <1>10 DEF Recover, TypeOK, Bookkeeping, Quiet, Carries, Goes, Holds, Ends, Returns, Fails, Finishes, FinishesFailed, Drops, provider, history
<1>11. ASSUME NEW r \in Requests, Store(r) PROVE (Quiet \/ \E q \in Requests : Granted(q) \/ Wrote(q)) /\ rotates' = rotates
  <2>a. CASE row' = row /\ Drops(r)
    <3>1. held'[r] = held[r] \/ held'[r] = row BY <1>0, <1>11, <2>a DEF Store, TypeOK, Goes, Holds, Ends, Returns, Fails, Finishes, FinishesFailed, Drops, provider, history
    <3> QED BY <1>0, <1>11, <2>a, <3>1 DEF Store, TypeOK, Quiet, Carries, Goes, Holds, Ends, Returns, Fails, Finishes, FinishesFailed, Drops, provider, history
  <2>b. CASE row.version = held[r].version /\ row' = call[r].fresh /\ orphaned' = orphaned
    <3>1. Wrote(r) BY <1>0, <1>11, <2>b DEF Store, TypeOK, Bookkeeping, Wrote, Carries, Goes, Holds, Ends, Returns, Fails, Finishes, FinishesFailed, Drops, provider, history
    <3> QED BY <1>11, <3>1 DEF Store, provider
  <2> QED BY <1>11, <2>a, <2>b DEF Store
<1>12. ASSUME NEW r \in Requests, release_refresh_lock(r) PROVE (Quiet \/ \E q \in Requests : Granted(q) \/ Wrote(q)) /\ rotates' = rotates
  BY <1>0, <1>12 DEF release_refresh_lock, TypeOK, Bookkeeping, Quiet, Carries, Goes, Holds, Ends, Returns, Fails, Finishes, FinishesFailed, Drops, provider, history
<1>13. ASSUME NEW r \in Requests, HangUp(r) PROVE (Quiet \/ \E q \in Requests : Granted(q) \/ Wrote(q)) /\ rotates' = rotates
  BY <1>0, <1>13 DEF HangUp, TypeOK, Bookkeeping, Quiet, Carries, Goes, Holds, Ends, Returns, Fails, Finishes, FinishesFailed, Drops, provider, history
<1>14. CASE Tick
  <2>1. \A s \in Requests : call'[s].reply = call[s].reply /\ call'[s].fresh = call[s].fresh
    BY <1>0, <1>14 DEF Tick, TypeOK, Call
  <2> QED BY <1>14, <2>1 DEF Tick, Quiet, Carries, provider
<1>15. CASE Hour
  BY <1>15 DEF Hour, Quiet, Carries, provider, history
<1>16. CASE LoseLock
  BY <1>16 DEF LoseLock, Quiet, Carries, provider
<1>17. CASE UNCHANGED vars
  BY <1>17 DEF vars, Quiet, Carries, provider, history
<1> QED BY <1>1, <1>2, <1>3, <1>4, <1>5, <1>6, <1>7, <1>8, <1>9, <1>10, <1>11, <1>12, <1>13, <1>14, <1>15, <1>16, <1>17 DEF Next, Request, Step, TimesOut

(* Every step keeps versions naming one material each.                     *)
LEMMA Versioned ==
    ASSUME IInv, [Next]_vars PROVE Versions'
<1> USE Fields
<1>0. TypeOK /\ TypeOK' /\ Bookkeeping /\ Versions /\ Tokens /\ OneGrant /\ Flags
    BY Typed DEF IInv, TypeOK, Flags
<1>t. /\ row \in Material /\ issued \in Nat /\ live \in Nat /\ rotates \in BOOLEAN
      /\ \A s \in Requests : held[s] \in Material /\ call[s] \in Call /\ call'[s] \in Call
      /\ \A s \in Requests : call[s].fresh \in Material /\ call'[s].fresh \in Material
    BY <1>0 DEF TypeOK
<1>1. CASE Quiet /\ rotates' = rotates
  BY <1>0, <1>t, <1>1 DEF Quiet, Versions
<1>2. ASSUME NEW r \in Requests, Granted(r), rotates' = rotates PROVE Versions'
  BY <1>0, <1>t, <1>2 DEF Granted, Carries, Versions
<1>3. ASSUME NEW r \in Requests, Wrote(r), rotates' = rotates PROVE Versions'
  BY <1>0, <1>t, <1>3 DEF Wrote, Carries, Versions
<1> QED BY Classified, <1>1, <1>2, <1>3

(* Every step keeps the two kinds of provider apart.                       *)
LEMMA TokensKept ==
    ASSUME IInv, [Next]_vars PROVE Tokens'
<1> USE Fields
<1>0. TypeOK /\ TypeOK' /\ Bookkeeping /\ Versions /\ Tokens /\ OneGrant /\ Flags
    BY Typed DEF IInv, TypeOK, Flags
<1>t. /\ row \in Material /\ issued \in Nat /\ live \in Nat /\ rotates \in BOOLEAN
      /\ \A s \in Requests : held[s] \in Material /\ call[s] \in Call /\ call'[s] \in Call
      /\ \A s \in Requests : call[s].fresh \in Material /\ call'[s].fresh \in Material
    BY <1>0 DEF TypeOK
<1>1. CASE Quiet /\ rotates' = rotates
  BY <1>0, <1>t, <1>1 DEF Quiet, Tokens
<1>2. ASSUME NEW r \in Requests, Granted(r), rotates' = rotates PROVE Tokens'
  BY <1>0, <1>t, <1>2 DEF Granted, Carries, Tokens
<1>3. ASSUME NEW r \in Requests, Wrote(r), rotates' = rotates PROVE Tokens'
  BY <1>0, <1>t, <1>3 DEF Wrote, Carries, Tokens
<1> QED BY Classified, <1>1, <1>2, <1>3

(* No step grants a single-use token twice.                                *)
LEMMA GrantedOnce ==
    ASSUME IInv, [Next]_vars PROVE OneGrant'
<1> USE Fields
<1>0. TypeOK /\ TypeOK' /\ Bookkeeping /\ Versions /\ Tokens /\ OneGrant /\ Flags
    BY Typed DEF IInv, TypeOK, Flags
<1>t. /\ row \in Material /\ issued \in Nat /\ live \in Nat /\ rotates \in BOOLEAN
      /\ \A s \in Requests : held[s] \in Material /\ call[s] \in Call /\ call'[s] \in Call
      /\ \A s \in Requests : call[s].fresh \in Material /\ call'[s].fresh \in Material
    BY <1>0 DEF TypeOK
<1>1. CASE Quiet /\ rotates' = rotates
  BY <1>0, <1>t, <1>1 DEF Quiet, OneGrant, Versions, Tokens
<1>2. ASSUME NEW r \in Requests, Granted(r), rotates' = rotates PROVE OneGrant'
  BY <1>0, <1>t, <1>2 DEF Granted, Carries, OneGrant, Versions, Tokens
<1>3. ASSUME NEW r \in Requests, Wrote(r), rotates' = rotates PROVE OneGrant'
  BY <1>0, <1>t, <1>3 DEF Wrote, Carries, OneGrant, Versions, Tokens
<1> QED BY Classified, <1>1, <1>2, <1>3

(* No step lets a second caller into refresh_locked under a lock that      *)
(* lasts.                                                                  *)
LEMMA ExclusiveKept ==
    ASSUME IInv, [Next]_vars PROVE Exclusive'
<1> USE RefreshAssumption
<1>0. TypeOK /\ Exclusive /\ Flags BY DEF IInv, TypeOK, Flags
<1>1. ASSUME NEW r \in Requests, Enter(r) PROVE Exclusive'
  BY <1>0, <1>1 DEF Enter, TypeOK, Exclusive, InSection, Goes, Holds, Ends, Returns, Fails, Finishes, FinishesFailed, Drops, provider, history
<1>2. ASSUME NEW r \in Requests, Gate(r) PROVE Exclusive'
  BY <1>0, <1>2 DEF Gate, TypeOK, Exclusive, InSection, Goes, Holds, Ends, Returns, Fails, Finishes, FinishesFailed, Drops, provider, history
<1>3. ASSUME NEW r \in Requests, acquire_refresh_lock(r) PROVE Exclusive'
  BY <1>0, <1>3 DEF acquire_refresh_lock, TypeOK, Exclusive, InSection, Goes, Holds, Ends, Returns, Fails, Finishes, FinishesFailed, Drops, provider, history
<1>4. ASSUME NEW r \in Requests, Waited(r) PROVE Exclusive'
  BY <1>0, <1>4 DEF Waited, TypeOK, Exclusive, InSection, Goes, Holds, Ends, Returns, Fails, Finishes, FinishesFailed, Drops, provider, history
<1>5. ASSUME NEW r \in Requests, ReadLocked(r) PROVE Exclusive'
  BY <1>0, <1>5 DEF ReadLocked, TypeOK, Exclusive, InSection, Goes, Holds, Ends, Returns, Fails, Finishes, FinishesFailed, Drops, provider, history
<1>6. ASSUME NEW r \in Requests, Discovered(r) PROVE Exclusive'
  BY <1>0, <1>6 DEF Discovered, TypeOK, Exclusive, InSection, Goes, Holds, Ends, Returns, Fails, Finishes, FinishesFailed, Drops, provider, history
<1>7. ASSUME NEW r \in Requests, ProviderActs(r) PROVE Exclusive'
  BY <1>0, <1>7 DEF ProviderActs, TypeOK, Exclusive, InSection, Goes, Holds, Ends, Returns, Fails, Finishes, FinishesFailed, Drops, provider, history
<1>8. ASSUME NEW r \in Requests, Answered(r) PROVE Exclusive'
  BY <1>0, <1>8 DEF Answered, TypeOK, Exclusive, InSection, Goes, Holds, Ends, Returns, Fails, Finishes, FinishesFailed, Drops, provider, history
<1>9. ASSUME NEW r \in Requests, CallFails(r) PROVE Exclusive'
  BY <1>0, <1>9 DEF CallFails, TypeOK, Exclusive, InSection, Goes, Holds, Ends, Returns, Fails, Finishes, FinishesFailed, Drops, provider, history
<1>10. ASSUME NEW r \in Requests, Recover(r) PROVE Exclusive'
  BY <1>0, <1>10 DEF Recover, TypeOK, Exclusive, InSection, Goes, Holds, Ends, Returns, Fails, Finishes, FinishesFailed, Drops, provider, history
<1>11. ASSUME NEW r \in Requests, Store(r) PROVE Exclusive'
  BY <1>0, <1>11 DEF Store, TypeOK, Exclusive, InSection, Goes, Holds, Ends, Returns, Fails, Finishes, FinishesFailed, Drops, provider, history
<1>12. ASSUME NEW r \in Requests, release_refresh_lock(r) PROVE Exclusive'
  BY <1>0, <1>12 DEF release_refresh_lock, TypeOK, Exclusive, InSection, Goes, Holds, Ends, Returns, Fails, Finishes, FinishesFailed, Drops, provider, history
<1>13. ASSUME NEW r \in Requests, HangUp(r) PROVE Exclusive'
  BY <1>0, <1>13 DEF HangUp, TypeOK, Exclusive, InSection, Goes, Holds, Ends, Returns, Fails, Finishes, FinishesFailed, Drops, provider, history
<1>14. CASE Tick
  <2> SUFFICES ASSUME ~lost', ~expired', NEW s \in Requests, InSection(s)'
               PROVE  lock' > 0 /\ \A t \in Requests : InSection(t)' => t = s
    BY DEF Exclusive
  <2>1. ~lost /\ ~expired /\ InSection(s) BY <1>0, <1>14 DEF Tick, Flags, InSection
  <2>2. Calling(s) BY <1>14, <2>1 DEF Tick, MayTick, InSection, Calling
  <2>3. lock # 1 BY <1>14, <2>2 DEF Tick
  <2>4. lock \in Nat /\ lock > 0 BY <1>0, <2>1 DEF Exclusive, TypeOK
  <2> QED BY <1>0, <1>14, <2>1, <2>3, <2>4 DEF Tick, Exclusive, InSection
<1>15. CASE Hour
  BY <1>0, <1>15 DEF Hour, Exclusive, InSection, history
<1>16. CASE LoseLock
  BY <1>0, <1>16 DEF LoseLock, Exclusive, InSection
<1>17. CASE UNCHANGED vars
  BY <1>0, <1>17 DEF vars, Exclusive, InSection, history
<1> QED BY <1>1, <1>2, <1>3, <1>4, <1>5, <1>6, <1>7, <1>8, <1>9, <1>10, <1>11, <1>12, <1>13, <1>14, <1>15, <1>16, <1>17 DEF Next, Request, Step, TimesOut

(* No step consumes the token of a caller in the middle of its refresh.    *)
LEMMA PresentingKept ==
    ASSUME IInv, [Next]_vars PROVE LockProtects'
<1> USE RefreshAssumption, Fields, FirstTyped
<1>0. /\ TypeOK /\ Bookkeeping /\ Versions /\ Tokens /\ OneGrant /\ Exclusive /\ LockProtects
      /\ Flags
    BY DEF IInv, TypeOK, Flags
<1>1. ASSUME NEW r \in Requests, Enter(r) PROVE LockProtects'
  BY <1>0, <1>1 DEF Enter, TypeOK, LockProtects, PresentsLive, Calling, Goes, Holds, Ends, Returns, Fails, Finishes, FinishesFailed, Drops, provider, history
<1>2. ASSUME NEW r \in Requests, Gate(r) PROVE LockProtects'
  BY <1>0, <1>2 DEF Gate, TypeOK, LockProtects, PresentsLive, Calling, Goes, Holds, Ends, Returns, Fails, Finishes, FinishesFailed, Drops, provider, history
<1>3. ASSUME NEW r \in Requests, acquire_refresh_lock(r) PROVE LockProtects'
  BY <1>0, <1>3 DEF acquire_refresh_lock, TypeOK, LockProtects, PresentsLive, Calling, Goes, Holds, Ends, Returns, Fails, Finishes, FinishesFailed, Drops, provider, history
<1>4. ASSUME NEW r \in Requests, Waited(r) PROVE LockProtects'
  BY <1>0, <1>4 DEF Waited, TypeOK, LockProtects, PresentsLive, Calling, Goes, Holds, Ends, Returns, Fails, Finishes, FinishesFailed, Drops, provider, history
<1>5. ASSUME NEW r \in Requests, ReadLocked(r) PROVE LockProtects'
  <2> SUFFICES ASSUME ~orphaned, ~lost, ~expired, NEW s \in Requests,
                      Calling(s)', call'[s].reply = "none"
               PROVE  held'[s].rt = live
    BY <1>5 DEF ReadLocked, LockProtects, PresentsLive, provider, history
  <2>1. CASE s # r
    BY <1>0, <1>5, <2>1 DEF ReadLocked, TypeOK, LockProtects, PresentsLive, Calling, Goes, Holds, Ends, Returns, Fails, Finishes, FinishesFailed, Drops, provider, history
  <2>2. CASE s = r
    <3>1. held'[r] = row BY <1>0, <1>5, <2>2 DEF ReadLocked, TypeOK, Calling, Goes, Holds, Ends, Returns, Fails, Finishes, FinishesFailed, Drops, provider, history
    <3>2. \A t \in Requests : ~Carries(t)
      BY <1>0, <1>5 DEF ReadLocked, Exclusive, InSection, Bookkeeping, Carries
    <3>3. row.rt = live BY <1>0, <3>2 DEF OneGrant, Tokens, TypeOK
    <3> QED BY <2>2, <3>1, <3>3
  <2> QED BY <2>1, <2>2
<1>6. ASSUME NEW r \in Requests, Discovered(r) PROVE LockProtects'
  <2>1. \A s \in Requests : call'[s].reply = call[s].reply BY <1>0, <1>6 DEF Discovered, TypeOK, Call
  <2> QED BY <1>0, <1>6, <2>1 DEF Discovered, LockProtects, PresentsLive, Calling, provider, history
<1>7. ASSUME NEW r \in Requests, ProviderActs(r) PROVE LockProtects'
  <2> SUFFICES ASSUME ~orphaned, ~lost, ~expired, NEW s \in Requests,
                      Calling(s)', call'[s].reply = "none"
               PROVE  held[s].rt = live'
    BY <1>7 DEF ProviderActs, LockProtects, PresentsLive, history
  <2>0. call[r] \in Call /\ 0 \in 0..Calls BY <1>0 DEF TypeOK
  <2>1. call'[r].reply # "none"
    <3>1. CASE held[r].rt = live
      <4>1. PICK e \in {hour + 1, held[r].exp} :
              call' = [call EXCEPT ![r] = [@ EXCEPT !.reply = "granted",
                                                    !.fresh = Fresh(r, issued + 1, e)]]
        BY <1>7, <3>1 DEF ProviderActs
      <4> HIDE DEF Fresh
      <4> QED BY <1>0, <4>1 DEF TypeOK, Call
    <3>2. CASE held[r].rt # live
      <4> DEFINE c == [call[r] EXCEPT !.reply = "refused"]
      <4>1. c.reply = "refused" BY <2>0, CallsTyped
      <4>2. call' = [call EXCEPT ![r] = c] BY <1>7, <3>2 DEF ProviderActs
      <4> HIDE DEF c
      <4> QED BY <1>0, <4>1, <4>2 DEF TypeOK
    <3> QED BY <3>1, <3>2
  <2>2. s # r /\ pc[s] = "call" /\ pc[r] = "call" BY <1>7, <2>1 DEF ProviderActs, Calling
  <2> QED BY <1>0, <2>2 DEF Exclusive, InSection
<1>8. ASSUME NEW r \in Requests, Answered(r) PROVE LockProtects'
  BY <1>0, <1>8 DEF Answered, TypeOK, LockProtects, PresentsLive, Calling, Goes, Holds, Ends, Returns, Fails, Finishes, FinishesFailed, Drops, provider, history
<1>9. ASSUME NEW r \in Requests, CallFails(r) PROVE LockProtects'
  BY <1>0, <1>9 DEF CallFails, TypeOK, LockProtects, PresentsLive, Calling, Goes, Holds, Ends, Returns, Fails, Finishes, FinishesFailed, Drops, provider, history
<1>10. ASSUME NEW r \in Requests, Recover(r) PROVE LockProtects'
  BY <1>0, <1>10 DEF Recover, TypeOK, LockProtects, PresentsLive, Calling, Goes, Holds, Ends, Returns, Fails, Finishes, FinishesFailed, Drops, provider, history
<1>11. ASSUME NEW r \in Requests, Store(r) PROVE LockProtects'
  BY <1>0, <1>11 DEF Store, TypeOK, LockProtects, PresentsLive, Calling, Goes, Holds, Ends, Returns, Fails, Finishes, FinishesFailed, Drops, provider, history
<1>12. ASSUME NEW r \in Requests, release_refresh_lock(r) PROVE LockProtects'
  BY <1>0, <1>12 DEF release_refresh_lock, TypeOK, LockProtects, PresentsLive, Calling, Goes, Holds, Ends, Returns, Fails, Finishes, FinishesFailed, Drops, provider, history
<1>13. ASSUME NEW r \in Requests, HangUp(r) PROVE LockProtects'
  BY <1>0, <1>13 DEF HangUp, TypeOK, LockProtects, PresentsLive, Calling, Goes, Holds, Ends, Returns, Fails, Finishes, FinishesFailed, Drops, provider, history
<1>14. CASE Tick
  <2>1. \A s \in Requests : call'[s].reply = call[s].reply BY <1>0, <1>14 DEF Tick, TypeOK, Call
  <2>2. expired => expired' BY <1>0, <1>14 DEF Tick, Flags
  <2> QED BY <1>0, <1>14, <2>1, <2>2 DEF Tick, LockProtects, PresentsLive, Calling, provider
<1>15. CASE Hour
  BY <1>0, <1>15 DEF Hour, LockProtects, PresentsLive, Calling, provider, history
<1>16. CASE LoseLock
  BY <1>0, <1>16 DEF LoseLock, LockProtects, PresentsLive, Calling, provider
<1>17. CASE UNCHANGED vars
  BY <1>0, <1>17 DEF vars, LockProtects, PresentsLive, Calling, provider, history
<1> QED BY <1>1, <1>2, <1>3, <1>4, <1>5, <1>6, <1>7, <1>8, <1>9, <1>10, <1>11, <1>12, <1>13, <1>14, <1>15, <1>16, <1>17 DEF Next, Request, Step, TimesOut

(* The invariant holds of every reachable state.                           *)
THEOREM Inductive == Spec => []IInv
<1>1. IInv /\ [Next]_vars => IInv'
    BY Typed, Booked, Versioned, TokensKept, GrantedOnce, ExclusiveKept, PresentingKept DEF IInv
<1> QED BY InitEstablishes, <1>1, PTL DEF Spec

(* Refresh keeps its types; in particular no call outlives its timeout.    *)
THEOREM RefreshTypeCorrect == Spec => []TypeOK
<1>1. IInv => TypeOK BY DEF IInv
<1> QED BY Inductive, <1>1, PTL

(* No two callers present one refresh token while the lock lasts.          *)
THEOREM LockIsEnough == Spec => []LockProtects
<1>1. IInv => LockProtects BY DEF IInv
<1> QED BY Inductive, <1>1, PTL

(* A credential none of whose grants was dropped is never locked out, with *)
(* the lock or without.                                                    *)
THEOREM SeatStaysAlive == Spec => []SeatAlive
<1>1. IInv => SeatAlive
  <2> SUFFICES ASSUME IInv, ~orphaned PROVE row.rt = live
                 \/ \E r \in Requests : Carries(r) /\ call[r].fresh.rt = live
    BY DEF SeatAlive
  <2>1. rotates \in BOOLEAN BY DEF IInv, TypeOK
  <2> QED BY <2>1 DEF IInv, Tokens, OneGrant
<1> QED BY Inductive, <1>1, PTL

(* The row, and what a caller has in hand, are only replaced by newer.     *)
THEOREM TokensNeverOlder == Spec => NeverOlder
<1> DEFINE Newer == /\ row' # row => row'.at > row.at
                    /\ \A r \in Requests : held'[r].at >= held[r].at
<1>1. ASSUME IInv, [Next]_vars PROVE [Newer]_<<row, held>>
  <2> USE RefreshAssumption
  <2>0. TypeOK /\ Bookkeeping /\ Versions BY <1>1 DEF IInv
  <2> USE Fields
  <2>t. /\ row \in Material
        /\ \A s \in Requests : held[s] \in Material /\ call[s].fresh \in Material
    BY <2>0 DEF TypeOK
  <2>1. CASE Quiet
    BY <2>0, <2>t, <2>1 DEF Quiet, Versions
  <2>2. CASE \E r \in Requests : Granted(r)
    BY <2>0, <2>t, <2>2 DEF Granted
  <2>3. ASSUME NEW r \in Requests, Wrote(r) PROVE Newer
    BY <2>0, <2>t, <2>3 DEF Wrote, Versions
  <2> QED BY <1>1, Classified, <2>1, <2>2, <2>3
<1> QED BY Inductive, <1>1, PTL DEF Spec, NeverOlder
-----------------------------------------------------------------------------
(* The lock's life against the calls made under it.                        *)

(* A Redis that loses no lock leaves a caller at the provider more of it   *)
(* than the calls still to make can take.                                  *)
Fits ==
    ~lost =>
        /\ ~expired
        /\ \A r \in Requests : pc[r] = "read" => lock = LockTicks
        /\ \A r \in Requests : Calling(r) =>
            call[r].left >= 1 /\ lock > (call[r].left - 1) * CallTicks + call[r].timer

(* One call fewer is CallTicks less.                                       *)
LEMMA OneFewer ==
    ASSUME NEW n \in Nat, n >= 1
    PROVE  /\ (n - 1) * CallTicks \in Nat
           /\ (n - 1) * CallTicks + CallTicks = n * CallTicks
BY RefreshAssumption

(* Whoever is in refresh_locked is alone there, as long as Fits holds.     *)
LEMMA Alone ==
    ASSUME IInv, Fits, ~lost, NEW r \in Requests, NEW s \in Requests, InSection(r), InSection(s)
    PROVE  r = s /\ lock > 0
BY DEF IInv, Exclusive, Fits

(* Every step keeps it so, where a whole refresh fits.                     *)
LEMMA FitsKept ==
    ASSUME Calls * CallTicks < LockTicks, IInv, Fits, [Next]_vars PROVE Fits'
<1> USE RefreshAssumption, Fields, FirstTyped
<1>0. TypeOK /\ Exclusive /\ Flags /\ TypeOK' BY Typed DEF IInv, TypeOK, Flags
<1>t. \A s \in Requests : call[s] \in Call /\ call'[s] \in Call BY <1>0 DEF TypeOK
<1>1. ASSUME NEW r \in Requests, Enter(r) PROVE Fits'
  BY <1>0, <1>1 DEF Enter, TypeOK, Fits, Calling, Goes, Holds, Ends, Returns, Fails, Finishes, FinishesFailed, Drops, provider, history
<1>2. ASSUME NEW r \in Requests, Gate(r) PROVE Fits'
  BY <1>0, <1>2 DEF Gate, TypeOK, Fits, Calling, Goes, Holds, Ends, Returns, Fails, Finishes, FinishesFailed, Drops, provider, history
<1>3. ASSUME NEW r \in Requests, acquire_refresh_lock(r) PROVE Fits'
  <2>1. lock = 0 /\ ~lost => \A s \in Requests : pc[s] # "read" /\ pc[s] # "call"
    BY <1>0, Alone DEF InSection
  <2> QED BY <1>0, <1>3, <2>1 DEF acquire_refresh_lock, TypeOK, Fits, Calling, Goes, Holds, Ends, Returns, Fails, Finishes, FinishesFailed, Drops, provider, history
<1>4. ASSUME NEW r \in Requests, Waited(r) PROVE Fits'
  BY <1>0, <1>4 DEF Waited, TypeOK, Fits, Calling, Goes, Holds, Ends, Returns, Fails, Finishes, FinishesFailed, Drops, provider, history
<1>5. ASSUME NEW r \in Requests, ReadLocked(r) PROVE Fits'
  <2>1. ~lost => lock = LockTicks /\ \A s \in Requests : InSection(s) => s = r
    BY <1>0, <1>5, Alone DEF ReadLocked, Fits, InSection
  <2>2. Calls >= 1 /\ (Calls - 1) * CallTicks + CallTicks < LockTicks BY OneFewer
  <2> QED BY <1>0, <1>5, <2>1, <2>2, BegunTyped DEF ReadLocked, TypeOK, Fits, InSection, Calling, Goes, Holds, Ends, Returns, Fails, Finishes, FinishesFailed, Drops, provider, history
<1>6. ASSUME NEW r \in Requests, Discovered(r) PROVE Fits'
  <2> DEFINE c == [call[r] EXCEPT !.left = call[r].left - 1, !.timer = CallTicks]
  <2>1. c.left = call[r].left - 1 /\ c.timer = CallTicks BY <1>t DEF Call
  <2>2. call' = [call EXCEPT ![r] = c] BY <1>6 DEF Discovered
  <2> HIDE DEF c
  <2>3. call'[r] = c /\ \A s \in Requests \ {r} : call'[s] = call[s] BY <1>0, <2>2 DEF TypeOK
  <2>4. call[r].left \in Nat /\ call[r].left > 1 /\ call[r].timer \in Nat BY <1>t, <1>6 DEF Discovered
  <2>5. (c.left - 1) * CallTicks + c.timer = (call[r].left - 1) * CallTicks
    BY <2>1, <2>4, OneFewer
  <2>6. /\ lock' = lock /\ pc' = pc /\ lost' = lost /\ expired' = expired /\ Calling(r)
        /\ (call[r].left - 1) * CallTicks \in Nat
    BY <1>6, <2>4, OneFewer DEF Discovered, history, Calling
  <2>7. ~lost => lock > (call[r].left - 1) * CallTicks /\ c.left >= 1
    BY <1>0, <2>1, <2>4, <2>6 DEF Fits, TypeOK
  <2> QED BY <2>3, <2>5, <2>6, <2>7 DEF Fits, Calling
<1>7. ASSUME NEW r \in Requests, ProviderActs(r) PROVE Fits'
  <2>1. \A s \in Requests : call'[s].left = call[s].left /\ call'[s].timer = call[s].timer
    <3>1. CASE held[r].rt = live
      <4>1. PICK e \in {hour + 1, held[r].exp} :
              call' = [call EXCEPT ![r] = [@ EXCEPT !.reply = "granted",
                                                    !.fresh = Fresh(r, issued + 1, e)]]
        BY <1>7, <3>1 DEF ProviderActs
      <4> QED BY <1>0, <4>1 DEF TypeOK, Call
    <3>2. CASE held[r].rt # live
      BY <1>0, <1>7, <3>2 DEF ProviderActs, TypeOK, Call
    <3> QED BY <3>1, <3>2
  <2> QED BY <1>0, <1>7, <2>1 DEF ProviderActs, Fits, Calling, history
<1>8. ASSUME NEW r \in Requests, Answered(r) PROVE Fits'
  BY <1>0, <1>8 DEF Answered, TypeOK, Fits, Calling, Goes, Holds, Ends, Returns, Fails, Finishes, FinishesFailed, Drops, provider, history
<1>9. ASSUME NEW r \in Requests, CallFails(r) PROVE Fits'
  BY <1>0, <1>9 DEF CallFails, TypeOK, Fits, Calling, Goes, Holds, Ends, Returns, Fails, Finishes, FinishesFailed, Drops, provider, history
<1>10. ASSUME NEW r \in Requests, Recover(r) PROVE Fits'
  BY <1>0, <1>10 DEF Recover, TypeOK, Fits, Calling, Goes, Holds, Ends, Returns, Fails, Finishes, FinishesFailed, Drops, provider, history
<1>11. ASSUME NEW r \in Requests, Store(r) PROVE Fits'
  BY <1>0, <1>11 DEF Store, TypeOK, Fits, Calling, Goes, Holds, Ends, Returns, Fails, Finishes, FinishesFailed, Drops, provider, history
<1>12. ASSUME NEW r \in Requests, release_refresh_lock(r) PROVE Fits'
  <2>1. ~lost => \A s \in Requests : pc'[s] # "read" /\ pc'[s] # "call"
    BY <1>0, <1>12, Alone DEF release_refresh_lock, TypeOK, InSection, Goes, Holds, Ends, Returns, Fails, Finishes, FinishesFailed, Drops, provider, history
  <2> QED BY <1>12, <2>1 DEF release_refresh_lock, Fits, Calling, Goes, Holds, Ends, Returns, Fails, Finishes, FinishesFailed, Drops, provider, history
<1>13. ASSUME NEW r \in Requests, HangUp(r) PROVE Fits'
  BY <1>0, <1>13 DEF HangUp, TypeOK, Fits, Calling, Goes, Holds, Ends, Returns, Fails, Finishes, FinishesFailed, Drops, provider, history
<1>14. CASE Tick
  <2> SUFFICES ASSUME ~lost PROVE Fits' BY <1>14 DEF Tick, Fits
  <2>1. \A s \in Requests : Calling(s) =>
            /\ call'[s].left = call[s].left /\ call'[s].timer = call[s].timer - 1
            /\ call[s].timer > 0
    BY <1>0, <1>14 DEF Tick, MayTick, TypeOK, Call
  <2>2. \A s \in Requests : Calling(s) => (call[s].left - 1) * CallTicks \in Nat
    BY <1>t, OneFewer DEF Fits
  <2>3. \A s \in Requests : Calling(s) => lock > 1 BY <1>0, <1>t, <2>1, <2>2 DEF Fits, TypeOK
  <2>4. ~expired' /\ pc' = pc /\ lost' = lost BY <1>0, <1>14, <2>3 DEF Tick, Fits, Flags
  <2>5. \A s \in Requests : pc[s] # "read" BY <1>14 DEF Tick, MayTick
  <2>6. \A s \in Requests : Calling(s) =>
            call'[s].left >= 1 /\ lock' > (call'[s].left - 1) * CallTicks + call'[s].timer
    BY <1>0, <1>t, <1>14, <2>1, <2>2, <2>3 DEF Tick, Fits, TypeOK
  <2> QED BY <2>4, <2>5, <2>6 DEF Fits, Calling
<1>15. CASE Hour
  BY <1>0, <1>15 DEF Hour, Fits, Calling, history
<1>16. CASE LoseLock
  BY <1>16 DEF LoseLock, Fits
<1>17. CASE UNCHANGED vars
  BY <1>0, <1>17 DEF vars, Fits, Calling, history
<1> QED BY <1>1, <1>2, <1>3, <1>4, <1>5, <1>6, <1>7, <1>8, <1>9, <1>10, <1>11, <1>12, <1>13, <1>14, <1>15, <1>16, <1>17 DEF Next, Request, Step, TimesOut

(* Where all the calls of a refresh fit into the lock's life together, as  *)
(* Codex's one call of 20 s does into 30 s, no two callers present one     *)
(* refresh token. xAI's two do not fit.                                    *)
THEOREM CallsThatFit ==
    ASSUME Calls * CallTicks < LockTicks PROVE Spec => []LockOutlasts
<1>1. Init => Fits BY DEF Init, Fits, Calling
<1>2. IInv /\ Fits /\ [Next]_vars => Fits' BY FitsKept
<1>3. IInv /\ Fits => LockOutlasts BY DEF IInv, Fits, LockProtects, LockOutlasts
<1> QED BY Inductive, <1>1, <1>2, <1>3, PTL DEF Spec

(* All of it, for any callers, replicas, calls and timings.                *)
THEOREM RefreshIsSafe == Spec => []RefreshSafe
BY RefreshTypeCorrect, LockIsEnough, SeatStaysAlive, PTL DEF RefreshSafe

----------------------------------------------------------------------------
(* Routing.                                                                *)

(* A nonempty set of natural numbers has a least one.                      *)
LEMMA LeastNatural ==
    ASSUME NEW T, T \subseteq Nat, T # {}
    PROVE  \E n \in T : \A m \in T : n <= m
<1> DEFINE R == {ss \in Nat \X Nat : ss[1] < ss[2]}
<1>1. IsWellFoundedOn(R, Nat)
  BY NatLessThanWellFounded DEF OpToRel
<1>2. PICK n \in T : \A m \in T : ~ (<<m, n>> \in R)
  BY <1>1, WFMin
<1>3. \A m \in T : ~ (m < n)
  BY <1>2
<1> QED BY <1>3

(* What stands for nothing is no name.                                     *)
LEMMA NameNotNone == \A n \in Name : n # None
<1> SUFFICES ASSUME NEW n \in Name, n = None PROVE FALSE
  OBVIOUS
<1>1. DOMAIN n = {"path", "at"}
  BY DEF Name
<1>2. DOMAIN None = {"kind"}
  BY DEF None
<1> QED BY <1>1, <1>2

LEMMA DecidedNotNone ==
    \A m, r, reason, f, b : Decided(m, r, reason, f, b).kind = "decided" /\ Decided(m, r, reason, f, b) # None
  BY DEF Decided, None

(* The index of upstream names lists, under each, the rows now spelt so.   *)
CatalogOK ==
    /\ IsFiniteSet(DOMAIN models)
    /\ \A id \in DOMAIN models :
          models[id] \in Specs /\ models[id].id = id /\ models[id].upstream \in DOMAIN byUpstream
    /\ \A n \in DOMAIN byUpstream : byUpstream[n] = {id \in DOMAIN models : models[id].upstream = n}

LEMMA InsertKeepsCatalog ==
    ASSUME CatalogOK, NEW spec \in Specs, Insert(spec)
    PROVE  CatalogOK'
<1> DEFINE i == spec.id
           u == spec.upstream
           renamed == i \in DOMAIN models /\ models[i].upstream # u
           kept == [n \in DOMAIN byUpstream |->
                      IF renamed /\ n = models[i].upstream THEN byUpstream[n] \ {i} ELSE byUpstream[n]]
           ids == IF u \in DOMAIN kept THEN kept[u] ELSE {}
<1>1. models' = Put(models, i, spec) /\ byUpstream' = Put(kept, u, ids \cup {i})
  BY DEF Insert
<1>2. /\ DOMAIN models' = DOMAIN models \cup {i}
      /\ models'[i] = spec /\ \A id \in DOMAIN models : id # i => models'[id] = models[id]
  BY <1>1 DEF Put
<1>3. /\ DOMAIN byUpstream' = DOMAIN byUpstream \cup {u}
      /\ byUpstream'[u] = ids \cup {i}
      /\ \A n \in DOMAIN byUpstream : n # u => byUpstream'[n] = kept[n]
  BY <1>1 DEF Put
<1>4. IsFiniteSet(DOMAIN models')
  BY <1>2, FS_AddElement DEF CatalogOK
<1>5. ASSUME NEW id \in DOMAIN models'
      PROVE  models'[id] \in Specs /\ models'[id].id = id /\ models'[id].upstream \in DOMAIN byUpstream'
  <2>1. CASE id = i
    BY <1>2, <1>3, <2>1
  <2>2. CASE id # i
    BY <1>2, <1>3, <1>5, <2>2 DEF CatalogOK
  <2> QED BY <2>1, <2>2
<1>6. ASSUME NEW n \in DOMAIN byUpstream'
      PROVE  byUpstream'[n] = {id \in DOMAIN models' : models'[id].upstream = n}
  <2>0. \A m \in DOMAIN byUpstream : \A id : id # i => (id \in kept[m] <=> id \in DOMAIN models /\ models[id].upstream = m)
    BY DEF CatalogOK
  <2>1. ASSUME NEW id, id # i
        PROVE  id \in byUpstream'[n] <=> id \in DOMAIN models' /\ models'[id].upstream = n
    <3>1. CASE n \in DOMAIN byUpstream /\ n # u
      BY <1>2, <1>3, <2>0, <2>1, <3>1
    <3>2. CASE n = u /\ u \in DOMAIN byUpstream
      BY <1>2, <1>3, <2>0, <2>1, <3>2
    <3>3. CASE n = u /\ u \notin DOMAIN byUpstream
      <4>1. id \notin byUpstream'[n]
        BY <1>3, <2>1, <3>3
      <4>2. id \in DOMAIN models => models[id].upstream # n
        BY <3>3 DEF CatalogOK
      <4> QED BY <1>2, <2>1, <4>1, <4>2
    <3> QED BY <1>3, <3>1, <3>2, <3>3
  <2>2. i \in byUpstream'[n] <=> n = u
    <3>1. CASE n = u
      BY <1>3, <3>1
    <3>2. CASE n # u
      <4>1. n \in DOMAIN byUpstream /\ byUpstream'[n] = kept[n]
        BY <1>3, <3>2
      <4>2. i \notin kept[n]
        BY <3>2, <4>1 DEF CatalogOK
      <4> QED BY <3>2, <4>1, <4>2
    <3> QED BY <3>1, <3>2
  <2> QED BY <1>2, <2>1, <2>2
<1> QED BY <1>4, <1>5, <1>6 DEF CatalogOK

(* A bare name means the row that has it, or the one built-in spelt so.    *)
LEMMA CatalogNames == CatalogOK => NamesUnguessed
<1> SUFFICES ASSUME CatalogOK, NEW name PROVE
        LET spelt == {id \in DOMAIN models : models[id].upstream = name /\ models[id].provider \in Providers}
        IN Resolve(name) = IF name \in DOMAIN models THEN name
                           ELSE IF \E id \in spelt : spelt = {id} THEN CHOOSE id \in spelt : TRUE ELSE None
  BY DEF NamesUnguessed
<1> DEFINE spelt == {id \in DOMAIN models : models[id].upstream = name /\ models[id].provider \in Providers}
<1>1. Spelt(name) = spelt
  BY DEF Spelt, CatalogOK
<1>2. IsFiniteSet(spelt)
  BY FS_Subset DEF CatalogOK
<1> HIDE DEF spelt
<1>3. Cardinality(spelt) = 1 <=> \E id \in spelt : spelt = {id}
  <2>1. Cardinality(spelt) = 1 <=> \E id : spelt = {id}
    BY <1>2, FS_Singleton
  <2> QED BY <2>1
<1> QED BY <1>1, <1>3 DEF Resolve, spelt

(* The rows are rows.                                                      *)
AccountsOK == account \in [Accounts -> Rows]

(* A usable credential serves exactly where the reason says it does.       *)
LEMMA ReasonIs ==
    ASSUME AccountsOK, NEW a \in Accounts
    PROVE  /\ ReasonOf(a) \in {"serving", "reserved", "rate_limited", "quota_spent", "disabled"}
           /\ Usable(a) => (Serving(a) <=> ReasonOf(a) = "serving")
<1>1. /\ account[a].remaining \in Nat \cup {-1} /\ account[a].reserve \in Int
      /\ account[a].schedulable \in BOOLEAN /\ account[a].limited \in BOOLEAN
  BY RoutingAssumption DEF AccountsOK
<1> DEFINE n == account[a].remaining
           z == OrZero(account[a].reserve)
<1>2. n \in Int /\ z \in Nat /\ (n = -1 \/ n > z) = ~ (n = 0 \/ (n > 0 /\ n <= z))
  BY <1>1 DEF OrZero
<1>3. ReasonOf(a) = CASE ~ account[a].schedulable -> "disabled"
        [] account[a].schedulable /\ account[a].limited -> "rate_limited"
        [] account[a].schedulable /\ ~ account[a].limited /\ n = 0 -> "quota_spent"
        [] account[a].schedulable /\ ~ account[a].limited /\ n > 0 /\ n <= z -> "reserved"
        [] OTHER -> "serving"
  BY DEF ReasonOf
<1>4. Serving(a) <=> Usable(a) /\ account[a].schedulable /\ ~ account[a].limited /\ (n = -1 \/ n > z)
  BY DEF Serving
<1> DEFINE spent == n = 0
           kept == n > 0 /\ n <= z
           free == n = -1 \/ n > z
<1>5. free <=> ~ (spent \/ kept)
  BY <1>2
<1>6. ~ (spent /\ kept)
  BY <1>2
<1> HIDE DEF n, z
<1>7. CASE ~ account[a].schedulable
  BY <1>3, <1>4, <1>7
<1>8. CASE account[a].schedulable /\ account[a].limited
  BY <1>3, <1>4, <1>8
<1>9. CASE account[a].schedulable /\ ~ account[a].limited
  <2>1. CASE spent
    BY <1>3, <1>4, <1>5, <1>6, <1>9, <2>1
  <2>2. CASE kept
    BY <1>3, <1>4, <1>5, <1>6, <1>9, <2>2
  <2>3. CASE ~ spent /\ ~ kept
    BY <1>3, <1>4, <1>5, <1>9, <2>3
  <2> QED BY <2>1, <2>2, <2>3
<1> QED BY <1>7, <1>8, <1>9

Reasons == {"serving", "reserved", "rate_limited", "quota_spent", "disabled"}

(* Of any reasons one is the most recoverable, and it is "serving" where   *)
(* that is one of them.                                                    *)
LEMMA BestIs ==
    ASSUME NEW reasons \in SUBSET Reasons, reasons # {}, NEW best,
           best = CHOOSE r \in reasons : \A other \in reasons :
                     \E i, j \in DOMAIN Recoverable : i <= j /\ Recoverable[i] = r /\ Recoverable[j] = other
    PROVE  best \in reasons /\ (best = "serving" <=> "serving" \in reasons)
<1>0. /\ DOMAIN Recoverable = 1 .. 7 /\ Recoverable[1] = "serving" /\ Recoverable[2] = "reserved"
      /\ Recoverable[3] = "rate_limited" /\ Recoverable[4] = "quota_spent" /\ Recoverable[5] = "disabled"
      /\ \A i \in 1 .. 7 : Recoverable[i] = "serving" => i = 1
  BY DEF Recoverable
<1> HIDE DEF Recoverable
<1>1. \A r \in Reasons : \E i \in 1 .. 7 : Recoverable[i] = r
  BY <1>0 DEF Reasons
<1> DEFINE T == {i \in 1 .. 7 : Recoverable[i] \in reasons}
<1>2. T # {} /\ T \subseteq Nat
  BY <1>1
<1>3. PICK i \in T : \A j \in T : i <= j
  BY <1>2, LeastNatural
<1>4. ASSUME NEW other \in reasons
      PROVE  \E k, j \in DOMAIN Recoverable : k <= j /\ Recoverable[k] = Recoverable[i] /\ Recoverable[j] = other
  <2>1. PICK j \in 1 .. 7 : Recoverable[j] = other
    BY <1>1
  <2>2. j \in T /\ i \in 1 .. 7
    BY <2>1
  <2> QED BY <1>0, <1>3, <2>1, <2>2
<1>5. \E r \in reasons : \A other \in reasons :
          \E k, j \in DOMAIN Recoverable : k <= j /\ Recoverable[k] = r /\ Recoverable[j] = other
  BY <1>3, <1>4
<1>6. best \in reasons /\ \A other \in reasons :
          \E k, j \in DOMAIN Recoverable : k <= j /\ Recoverable[k] = best /\ Recoverable[j] = other
  BY <1>5
<1>7. ASSUME "serving" \in reasons PROVE best = "serving"
  <2>0. \E k, j \in DOMAIN Recoverable : k <= j /\ Recoverable[k] = best /\ Recoverable[j] = "serving"
    BY <1>6, <1>7, Zenon
  <2>1. PICK k \in 1 .. 7, j \in 1 .. 7 : k <= j /\ Recoverable[k] = best /\ Recoverable[j] = "serving"
    BY <1>0, <2>0, Zenon
  <2>2. j = 1
    BY <1>0, <2>1
  <2>3. k = 1
    BY <2>1, <2>2
  <2> QED BY <1>0, <2>1, <2>3
<1> QED BY <1>6, <1>7

(* What is said of a provider and what it serves with agree.               *)
LEMMA PresenceIs == AccountsOK => PresenceAgrees
<1> SUFFICES ASSUME AccountsOK, NEW p \in AllProviders
             PROVE  (Presence(p) \in {"serving", "budget_exhausted"}) = (Kinds(p) # {})
  BY DEF PresenceAgrees
<1> DEFINE mine == {a \in Accounts : Usable(a) /\ account[a].provider = p}
           reasons == {ReasonOf(a) : a \in mine}
           best == CHOOSE r \in reasons : \A other \in reasons :
                      \E i, j \in DOMAIN Recoverable : i <= j /\ Recoverable[i] = r /\ Recoverable[j] = other
<1>1. reasons \in SUBSET Reasons
  BY ReasonIs DEF Reasons
<1>2. Kinds(p) # {} <=> "serving" \in reasons
  <2>1. Kinds(p) # {} <=> \E a \in Accounts : Serving(a) /\ account[a].provider = p
    BY DEF Kinds, Held
  <2>2. \A a \in Accounts : Serving(a) <=> Usable(a) /\ ReasonOf(a) = "serving"
    BY ReasonIs DEF Serving
  <2> QED BY <2>1, <2>2
<1>3. Presence(p) = IF reasons = {} THEN "unlisted"
                    ELSE IF pressure = "exhausted" /\ best = "serving" THEN "budget_exhausted" ELSE best
  BY DEF Presence
<1> DEFINE b == best
<1>4. b = best
  OBVIOUS
<1> HIDE DEF b
<1>5. reasons # {} => b \in reasons /\ (b = "serving" <=> "serving" \in reasons)
  <2> HIDE DEF reasons
  <2> QED BY <1>1, <1>4, BestIs
<1>6. Presence(p) = IF reasons = {} THEN "unlisted"
                    ELSE IF pressure = "exhausted" /\ b = "serving" THEN "budget_exhausted" ELSE b
  BY <1>3, <1>4
<1> HIDE DEF reasons
<1>7. b \in reasons => b # "budget_exhausted"
  BY <1>1 DEF Reasons
<1> QED BY <1>2, <1>5, <1>6, <1>7

(* A ladder has rungs, each of named models.                               *)
LadderOK == Ladder \in Seq([name : STRING, models : Seq(Name)]) /\ Ladder # << >>

LEMMA LadderIs ==
    ASSUME LadderOK
    PROVE  /\ Len(Ladder) \in Nat \ {0} /\ DOMAIN Ladder = 1 .. Len(Ladder)
           /\ \A r \in DOMAIN Ladder : /\ Ladder[r].name \in STRING /\ Ladder[r].models \in Seq(Name)
                                       /\ \A i \in DOMAIN Ladder[r].models : i \in Nat /\ Ladder[r].models[i] \in Name
<1>1. Len(Ladder) \in Nat \ {0} /\ DOMAIN Ladder = 1 .. Len(Ladder)
  BY DEF LadderOK
<1>2. \A r \in DOMAIN Ladder : Ladder[r] \in [name : STRING, models : Seq(Name)]
  <2> DEFINE R == [name : STRING, models : Seq(Name)]
  <2>1. Ladder \in Seq(R)
    BY DEF LadderOK
  <2> HIDE DEF R
  <2>2. \A q \in Seq(R) : \A r \in DOMAIN q : q[r] \in R
    OBVIOUS
  <2>3. \A r \in DOMAIN Ladder : Ladder[r] \in R
    BY <2>1, <2>2
  <2> QED BY <2>3 DEF R
<1>3. \A r \in DOMAIN Ladder : Ladder[r].name \in STRING /\ Ladder[r].models \in Seq(Name)
  BY <1>2
<1>4. \A q \in Seq(Name) : \A i \in DOMAIN q : i \in Nat /\ q[i] \in Name
  OBVIOUS
<1> QED BY <1>1, <1>3, <1>4

(* A name's rank is the first rung's that has it, if one does.             *)
LEMMA RankIs ==
    ASSUME LadderOK, NEW n
    PROVE  /\ Rank(n) \in 0 .. Len(Ladder)
           /\ Rank(n) # 0 => Ladder[Rank(n)].name = n
<1>0. Len(Ladder) \in Nat \ {0} /\ DOMAIN Ladder = 1 .. Len(Ladder)
  BY LadderIs
<1>1. CASE \E r \in DOMAIN Ladder : Ladder[r].name = n
  <2> DEFINE T == {r \in DOMAIN Ladder : Ladder[r].name = n}
  <2>1. T \subseteq Nat /\ T # {}
    BY <1>0, <1>1
  <2>2. PICK r \in T : \A q \in T : r <= q
    BY <2>1, LeastNatural
  <2>3. r \in DOMAIN Ladder /\ Ladder[r].name = n /\ \A q \in 1 .. r - 1 : Ladder[q].name # n
    BY <1>0, <2>2
  <2>4. Rank(n) \in DOMAIN Ladder /\ Ladder[Rank(n)].name = n
    BY <1>1, <2>3 DEF Rank
  <2> QED BY <1>0, <2>4
<1>2. CASE ~ \E r \in DOMAIN Ladder : Ladder[r].name = n
  BY <1>0, <1>2 DEF Rank
<1> QED BY <1>1, <1>2

(* Nothing clamped is under the floor, and nothing above it is moved.      *)
LEMMA FloorIs ==
    ASSUME LadderOK
    PROVE  /\ FloorRank \in 0 .. Len(Ladder)
           /\ \A r \in 1 .. Len(Ladder) :
                 /\ ClampToFloor(r) \in 1 .. Len(Ladder) /\ ClampToFloor(r) >= r /\ ClampToFloor(r) >= FloorRank
                 /\ ClampToFloor(r) = r <=> r >= FloorRank
                 /\ ClampToFloor(r) = r \/ ClampToFloor(r) = FloorRank
<1>0. Len(Ladder) \in Nat \ {0}
  BY LadderIs
<1>1. FloorRank \in 0 .. Len(Ladder)
  <2>1. \E n : FloorRank = 0 \/ FloorRank = Rank(n)
    BY DEF FloorRank
  <2>2. PICK n : FloorRank = 0 \/ FloorRank = Rank(n)
    BY <2>1
  <2>3. Rank(n) \in 0 .. Len(Ladder)
    BY RankIs
  <2> QED BY <1>0, <2>2, <2>3
<1> QED BY <1>0, <1>1 DEF ClampToFloor

(* What is picked is a model of the rung that fits; avoiding none picks    *)
(* wherever avoiding some does.                                            *)
LEMMA PickIs ==
    ASSUME LadderOK, NEW rank \in 1 .. Len(Ladder), NEW need, NEW avoid
    PROVE  LET id == PickWithout(rank, need, avoid) IN
           id # None => /\ id \in DOMAIN models /\ Satisfies(models[id], need) /\ models[id].provider \notin avoid
                        /\ Pick(rank, need) # None
<1> DEFINE rung == Ladder[rank].models
           fits(out) == {i \in DOMAIN rung : rung[i] \in DOMAIN models /\ Satisfies(models[rung[i]], need)
                                            /\ models[rung[i]].provider \notin out}
<1>0. /\ \A i \in DOMAIN rung : i \in Nat /\ rung[i] \in Name
  BY LadderIs
<1>1. \A out : PickWithout(rank, need, out) =
              IF fits(out) = {} THEN None ELSE rung[CHOOSE i \in fits(out) : \A j \in fits(out) : i <= j]
  BY DEF PickWithout
<1> HIDE DEF rung
<1>2. ASSUME NEW out, fits(out) # {}
      PROVE  \E i \in fits(out) : PickWithout(rank, need, out) = rung[i]
  <2>1. fits(out) \subseteq Nat
    BY <1>0
  <2>2. PICK least \in fits(out) : \A j \in fits(out) : least <= j
    BY <1>2, <2>1, LeastNatural
  <2> DEFINE c == CHOOSE i \in fits(out) : \A j \in fits(out) : i <= j
  <2>3. c \in fits(out)
    BY <2>2
  <2>4. PickWithout(rank, need, out) = rung[c]
    BY <1>1, <1>2
  <2> QED BY <2>3, <2>4
<1>3. ASSUME PickWithout(rank, need, avoid) # None
      PROVE  /\ \E i \in fits(avoid) : PickWithout(rank, need, avoid) = rung[i]
             /\ Pick(rank, need) # None
  <2>1. fits(avoid) # {}
    BY <1>1, <1>3
  <2>2. PICK i \in fits(avoid) : PickWithout(rank, need, avoid) = rung[i]
    BY <1>2, <2>1
  <2>3. fits({}) # {}
    BY <2>2
  <2>4. PICK j \in fits({}) : PickWithout(rank, need, {}) = rung[j]
    BY <1>2, <2>3
  <2>5. rung[j] # None
    BY <1>0, NameNotNone
  <2> QED BY <2>2, <2>4, <2>5 DEF Pick
<1> QED BY <1>3

(* Upwards from a rung: to the first that can serve.                       *)
LEMMA ResolveFromIs ==
    ASSUME LadderOK, NEW rank \in 1 .. Len(Ladder), NEW reason, NEW need, NEW baseline
    PROVE  \/ /\ \A q \in rank .. Len(Ladder) : Pick(q, need) = None
              /\ ResolveFrom(rank, reason, need, baseline) = Refused("no_viable_model")
           \/ \E r \in rank .. Len(Ladder) :
                 /\ Pick(r, need) # None /\ \A q \in rank .. r - 1 : Pick(q, need) = None
                 /\ ResolveFrom(rank, reason, need, baseline) =
                       Decided(Pick(r, need), r, reason, IF r = rank THEN 0 ELSE rank, baseline)
<1> DEFINE able == {r \in rank .. Len(Ladder) : Pick(r, need) # None}
           c == CHOOSE r \in able : \A q \in able : r <= q
<1>0. Len(Ladder) \in Nat \ {0}
  BY LadderIs
<1>1. ResolveFrom(rank, reason, need, baseline) =
        IF able = {} THEN Refused("no_viable_model")
        ELSE Decided(Pick(c, need), c, reason, IF c = rank THEN 0 ELSE rank, baseline)
  BY DEF ResolveFrom
<1>2. CASE able = {}
  BY <1>1, <1>2
<1>3. CASE able # {}
  <2>1. able \subseteq Nat
    BY <1>0
  <2>2. \E r \in able : \A q \in able : r <= q
    BY <1>3, <2>1, LeastNatural
  <2>3. c \in able /\ \A q \in able : c <= q
    BY <2>2
  <2> HIDE DEF c
  <2>4. c \in rank .. Len(Ladder) /\ Pick(c, need) # None /\ \A q \in rank .. c - 1 : Pick(q, need) = None
    BY <1>0, <2>3
  <2> QED BY <1>1, <1>3, <2>4
<1> QED BY <1>2, <1>3

(* A climb goes to the first rung above that can serve.                    *)
LEMMA EscalateIs ==
    ASSUME LadderOK, NEW rank \in 0 .. Len(Ladder), NEW need, NEW baseline
    PROVE  \/ /\ \A q \in rank + 1 .. Len(Ladder) : Pick(q, need) = None
              /\ Escalate(rank, need, baseline) = None
           \/ \E r \in rank + 1 .. Len(Ladder) :
                 /\ Pick(r, need) # None /\ \A q \in rank + 1 .. r - 1 : Pick(q, need) = None
                 /\ Escalate(rank, need, baseline) = Decided(Pick(r, need), r, "escalated", rank, baseline)
<1>0. Len(Ladder) \in Nat \ {0}
  BY LadderIs
<1>1. CASE rank + 1 > Len(Ladder)
  BY <1>0, <1>1 DEF Escalate
<1>2. CASE ~ (rank + 1 > Len(Ladder))
  <2> DEFINE k == rank + 1
             next == ResolveFrom(k, "escalated", need, baseline)
  <2>1. k \in 1 .. Len(Ladder)
    BY <1>0, <1>2
  <2>2. Escalate(rank, need, baseline) = IF next.kind = "refused" THEN None ELSE [next EXCEPT !.from = rank]
    BY <1>2 DEF Escalate
  <2> HIDE DEF k
  <2>3. CASE (\A q \in k .. Len(Ladder) : Pick(q, need) = None) /\ next = Refused("no_viable_model")
    <3>1. next.kind = "refused"
      BY <2>3 DEF Refused
    <3> QED BY <2>2, <2>3, <3>1 DEF k
  <2>4. ASSUME NEW r \in k .. Len(Ladder), Pick(r, need) # None, \A q \in k .. r - 1 : Pick(q, need) = None,
               next = Decided(Pick(r, need), r, "escalated", IF r = k THEN 0 ELSE k, baseline)
        PROVE  Escalate(rank, need, baseline) = Decided(Pick(r, need), r, "escalated", rank, baseline)
    <3>1. next.kind # "refused" /\ [next EXCEPT !.from = rank] = Decided(Pick(r, need), r, "escalated", rank, baseline)
      <4> HIDE DEF next
      <4> QED BY <2>4 DEF Decided
    <3> QED BY <2>2, <3>1
  <2>5. \/ (\A q \in k .. Len(Ladder) : Pick(q, need) = None) /\ next = Refused("no_viable_model")
        \/ \E r \in k .. Len(Ladder) :
                 /\ Pick(r, need) # None /\ \A q \in k .. r - 1 : Pick(q, need) = None
                 /\ next = Decided(Pick(r, need), r, "escalated", IF r = k THEN 0 ELSE k, baseline)
    BY <2>1, ResolveFromIs
  <2> HIDE DEF next
  <2> QED BY <2>3, <2>4, <2>5 DEF k
<1> QED BY <1>1, <1>2

(* Where a climb past a provider ends, from each rung.                     *)
PastSol(k, rank, avoid, need, baseline) ==
    IF \A q \in k + 1 .. Len(Ladder) : PickWithout(q, need, {avoid}) = None THEN None
    ELSE LET r == CHOOSE r \in k + 1 .. Len(Ladder) :
                     PickWithout(r, need, {avoid}) # None /\ \A q \in k + 1 .. r - 1 : PickWithout(q, need, {avoid}) = None
         IN Decided(PickWithout(r, need, {avoid}), r, "escalated", rank, baseline)
PastStep(f, k, rank, avoid, need, baseline) ==
    LET next == Escalate(k, need, baseline)
    IN IF next = None THEN None
       ELSE LET other == PickWithout(next.rank, need, {avoid})
            IN IF other # None THEN [next EXCEPT !.model = other, !.from = rank] ELSE f[next.rank]

PastEnds(k, rank, avoid, need, baseline, next) ==
    \/ (\A q \in k + 1 .. Len(Ladder) : PickWithout(q, need, {avoid}) = None) /\ next = None
    \/ \E r \in k + 1 .. Len(Ladder) :
          /\ PickWithout(r, need, {avoid}) # None
          /\ \A q \in k + 1 .. r - 1 : PickWithout(q, need, {avoid}) = None
          /\ next = Decided(PickWithout(r, need, {avoid}), r, "escalated", rank, baseline)

LEMMA PastSolIs ==
    ASSUME LadderOK, NEW k \in 0 .. Len(Ladder), NEW rank, NEW avoid, NEW need, NEW baseline
    PROVE  PastEnds(k, rank, avoid, need, baseline, PastSol(k, rank, avoid, need, baseline))
<1> DEFINE P(q) == PickWithout(q, need, {avoid})
           first(r) == P(r) # None /\ \A q \in k + 1 .. r - 1 : P(q) = None
           c == CHOOSE r \in k + 1 .. Len(Ladder) : first(r)
<1>0. Len(Ladder) \in Nat \ {0}
  BY LadderIs
<1>1. PastSol(k, rank, avoid, need, baseline) =
        IF \A q \in k + 1 .. Len(Ladder) : P(q) = None THEN None ELSE Decided(P(c), c, "escalated", rank, baseline)
  BY DEF PastSol
<1>2. CASE \A q \in k + 1 .. Len(Ladder) : P(q) = None
  BY <1>1, <1>2 DEF PastEnds
<1>3. CASE ~ \A q \in k + 1 .. Len(Ladder) : P(q) = None
  <2> DEFINE T == {r \in k + 1 .. Len(Ladder) : P(r) # None}
  <2> HIDE DEF P
  <2>1. T \subseteq Nat /\ T # {}
    BY <1>0, <1>3
  <2>2. PICK r \in T : \A q \in T : r <= q
    BY <2>1, LeastNatural
  <2>3. r \in k + 1 .. Len(Ladder) /\ first(r)
    BY <1>0, <2>2
  <2>4. c \in k + 1 .. Len(Ladder) /\ first(c)
    BY <2>3
  <2>5. PastSol(k, rank, avoid, need, baseline) = Decided(P(c), c, "escalated", rank, baseline)
    BY <1>1, <1>3
  <2> HIDE DEF c
  <2>6. \E q \in k + 1 .. Len(Ladder) : first(q) /\ PastSol(k, rank, avoid, need, baseline) = Decided(P(q), q, "escalated", rank, baseline)
    BY <2>4, <2>5
  <2> QED BY <2>6 DEF P, PastEnds
<1> QED BY <1>2, <1>3

(* A step of the climb gives where the climb ends, if the rungs above do.  *)
LEMMA PastStepIs ==
    ASSUME LadderOK, NEW k \in 0 .. Len(Ladder), NEW rank, NEW avoid, NEW need, NEW baseline, NEW f,
           \A q \in k + 1 .. Len(Ladder) : f[q] = PastSol(q, rank, avoid, need, baseline)
    PROVE  PastStep(f, k, rank, avoid, need, baseline) = PastSol(k, rank, avoid, need, baseline)
<1> DEFINE P(q) == PickWithout(q, need, {avoid})
           L == Len(Ladder)
           next == Escalate(k, need, baseline)
           S(q) == PastSol(q, rank, avoid, need, baseline)
           D(q) == Decided(P(q), q, "escalated", rank, baseline)
<1>0. L \in Nat \ {0}
  BY LadderIs
<1>1. \A q \in 1 .. L : Pick(q, need) = None => P(q) = None
  BY PickIs
<1>2. PastStep(f, k, rank, avoid, need, baseline) =
        IF next = None THEN None
        ELSE IF P(next.rank) # None THEN [next EXCEPT !.model = P(next.rank), !.from = rank] ELSE f[next.rank]
  BY DEF PastStep
<1>3. ASSUME NEW j \in 0 .. L
      PROVE  \/ (\A q \in j + 1 .. L : P(q) = None) /\ S(j) = None
             \/ \E r \in j + 1 .. L : P(r) # None /\ (\A q \in j + 1 .. r - 1 : P(q) = None) /\ S(j) = D(r)
  <2>1. PastEnds(j, rank, avoid, need, baseline, S(j))
    BY <1>3, PastSolIs
  <2> QED BY <2>1, Zenon DEF PastEnds
<1>4. CASE (\A q \in k + 1 .. L : Pick(q, need) = None) /\ next = None
  <2>0. \A q \in k + 1 .. L : q \in 1 .. L
    BY <1>0
  <2>1. \A q \in k + 1 .. L : P(q) = None
    BY <1>1, <1>4, <2>0, Zenon
  <2> HIDE DEF P, S, next
  <2> QED BY <1>0, <1>2, <1>3, <1>4, <2>1 DEF S
<1>5. ASSUME NEW r \in k + 1 .. L, Pick(r, need) # None, \A q \in k + 1 .. r - 1 : Pick(q, need) = None,
             next = Decided(Pick(r, need), r, "escalated", k, baseline)
      PROVE  PastStep(f, k, rank, avoid, need, baseline) = S(k)
  <2>0. \A q \in k + 1 .. r - 1 : q \in 1 .. L
    BY <1>0
  <2>1. \A q \in k + 1 .. r - 1 : P(q) = None
    BY <1>1, <1>5, <2>0, Zenon
  <2>2. next # None /\ next.rank = r
    BY <1>5 DEF Decided, None
  <2>3. [next EXCEPT !.model = P(r), !.from = rank] = D(r)
    <3>1. ASSUME NEW m, NEW n
          PROVE  [Decided(m, r, "escalated", k, baseline) EXCEPT !.model = n, !.from = rank] =
                     Decided(n, r, "escalated", rank, baseline)
      <4> DEFINE d == Decided(m, r, "escalated", k, baseline)
      <4>1. d = [kind |-> "decided", model |-> m, rank |-> r, reason |-> "escalated", from |-> k, baseline |-> baseline]
        BY DEF Decided
      <4> DEFINE e == [d EXCEPT !.model = n]
      <4>2. e = [kind |-> "decided", model |-> n, rank |-> r, reason |-> "escalated", from |-> k, baseline |-> baseline]
        <5> HIDE DEF d
        <5> QED BY <4>1
      <4>3. [e EXCEPT !.from = rank] = [kind |-> "decided", model |-> n, rank |-> r, reason |-> "escalated", from |-> rank, baseline |-> baseline]
        <5> HIDE DEF e
        <5> QED BY <4>2
      <4> QED BY <4>3 DEF Decided
    <3> QED BY <1>5, <3>1, Zenon
  <2>4. PastStep(f, k, rank, avoid, need, baseline) = IF P(r) # None THEN D(r) ELSE f[r]
    BY <1>2, <2>2, <2>3
  <2>5. f[r] = S(r)
    OBVIOUS
  <2>6. r \in Int /\ k \in Int /\ r > k /\ r <= L /\ r \in 0 .. L
    BY <1>0
  <2>7. CASE P(r) # None
    <3>1. \A t \in k + 1 .. L : P(t) # None /\ (\A q \in k + 1 .. t - 1 : P(q) = None) => t = r
      <4> HIDE DEF P
      <4> QED BY <1>0, <2>1, <2>6, <2>7
    <3>2. S(k) = D(r)
      <4> HIDE DEF P, S, D
      <4> QED BY <1>3, <2>6, <2>7, <3>1
    <3> QED BY <2>4, <2>7, <3>2
  <2>8. CASE P(r) = None
    <3>1. S(k) = S(r)
      <4> HIDE DEF P, S, D
      <4>1. \A q \in k + 1 .. r : P(q) = None
        BY <2>1, <2>6, <2>8
      <4>2. CASE (\A q \in k + 1 .. L : P(q) = None) /\ S(k) = None
        <5>1. \A q \in r + 1 .. L : P(q) = None
          BY <1>0, <2>6, <4>2
        <5>2. S(r) = None
          BY <1>3, <2>6, <5>1
        <5> QED BY <4>2, <5>2
      <4>3. ASSUME NEW t \in k + 1 .. L, P(t) # None, \A q \in k + 1 .. t - 1 : P(q) = None, S(k) = D(t)
            PROVE  S(k) = S(r)
        <5>1. t \in r + 1 .. L /\ \A q \in r + 1 .. t - 1 : P(q) = None
          BY <1>0, <2>6, <4>1, <4>3
        <5>2. \A u \in r + 1 .. L : P(u) # None /\ (\A q \in r + 1 .. u - 1 : P(q) = None) => u = t
          BY <1>0, <2>6, <4>3, <5>1
        <5>3. S(r) = D(t)
          BY <1>3, <2>6, <4>3, <5>1, <5>2
        <5> QED BY <4>3, <5>3
      <4> QED BY <1>3, <2>6, <4>2, <4>3
    <3> QED BY <2>4, <2>5, <2>8, <3>1
  <2> QED BY <2>7, <2>8
<1>6. \/ (\A q \in k + 1 .. L : Pick(q, need) = None) /\ next = None
      \/ \E r \in k + 1 .. L : /\ Pick(r, need) # None /\ \A q \in k + 1 .. r - 1 : Pick(q, need) = None
                               /\ next = Decided(Pick(r, need), r, "escalated", k, baseline)
  BY EscalateIs
<1> QED BY <1>4, <1>5, <1>6

(* The climb past a provider ends there.                                   *)
LEMMA PastIs ==
    ASSUME LadderOK, NEW rank \in 0 .. Len(Ladder), NEW avoid, NEW need, NEW baseline
    PROVE  EscalatePastProvider(rank, avoid, need, baseline) = PastSol(rank, rank, avoid, need, baseline)
<1> DEFINE L == Len(Ladder)
           S(q) == PastSol(q, rank, avoid, need, baseline)
           B(f, k) == PastStep(f, k, rank, avoid, need, baseline)
           step == CHOOSE f : f = [k \in 0 .. L |-> B(f, k)]
           h == [k \in 0 .. L |-> S(k)]
<1>0. L \in Nat \ {0}
  BY LadderIs
<1>1. EscalatePastProvider(rank, avoid, need, baseline) = step[rank]
  BY DEF EscalatePastProvider, PastStep
<1>2. ASSUME NEW k \in 0 .. L PROVE B(h, k) = S(k)
  <2>1. \A q \in k + 1 .. L : h[q] = S(q)
    BY <1>0
  <2> HIDE DEF h
  <2> QED BY <2>1, PastStepIs
<1>3. h = [k \in 0 .. L |-> B(h, k)]
  BY <1>2
<1>4. step = [k \in 0 .. L |-> B(step, k)]
  <2> HIDE DEF B, h
  <2> QED BY <1>3
<1> HIDE DEF step
<1>5. ASSUME NEW k \in 0 .. L, \A q \in k + 1 .. L : step[q] = S(q)
      PROVE  step[k] = S(k)
  <2>1. B(step, k) = S(k)
    BY <1>5, PastStepIs
  <2>2. step[k] = B(step, k)
    <3> HIDE DEF B
    <3> QED BY <1>4
  <2> QED BY <2>1, <2>2
<1>6. \A k \in 0 .. L : step[k] = S(k)
  <2> SUFFICES ASSUME ~ \A k \in 0 .. L : step[k] = S(k) PROVE FALSE
    OBVIOUS
  <2> HIDE DEF S
  <2> DEFINE T == {n \in 0 .. L : step[L - n] # S(L - n)}
  <2>1. PICK k \in 0 .. L : step[k] # S(k)
    OBVIOUS
  <2>2. L - k \in 0 .. L /\ L - (L - k) = k
    BY <1>0
  <2>3. L - k \in T /\ T \subseteq Nat
    <3>1. step[L - (L - k)] # S(L - (L - k))
      BY <2>1, <2>2
    <3> QED BY <1>0, <2>2, <3>1
  <2>4. PICK n \in T : \A m \in T : n <= m
    BY <2>3, LeastNatural
  <2>5. n \in 0 .. L /\ step[L - n] # S(L - n) /\ L - n \in 0 .. L
    BY <1>0
  <2>6. ASSUME NEW q \in L - n + 1 .. L PROVE step[q] = S(q)
    <3>1. L - q \in 0 .. L /\ ~ (n <= L - q) /\ L - (L - q) = q
      BY <1>0, <2>5
    <3> QED BY <2>4, <3>1
  <2> QED BY <1>5, <2>5, <2>6
<1> QED BY <1>1, <1>6

(* A climb reaches the nearest rung with a model of another provider.      *)
LEMMA ClimbIs ==
    ASSUME LadderOK, decision.kind = "decided" => decision.rank \in 0 .. Len(Ladder)
    PROVE  ClimbReaches
<1> SUFFICES ASSUME decision.kind = "decided", decision.rank # 0 PROVE ClimbReaches
  BY DEF ClimbReaches
<1> DEFINE avoid == models[decision.model].provider
           need == Need(request.signal)
           L == Len(Ladder)
           k == decision.rank
           next == EscalatePastProvider(k, avoid, need, decision.baseline)
           P(r) == PickWithout(r, need, {avoid})
           open == {r \in k + 1 .. L : P(r) # None}
<1>0. L \in Nat \ {0} /\ k \in 1 .. L
  BY LadderIs
<1>1. next = PastSol(k, k, avoid, need, decision.baseline)
  BY <1>0, PastIs
<1>2. \/ (\A q \in k + 1 .. L : P(q) = None) /\ next = None
      \/ \E r \in k + 1 .. L : /\ P(r) # None /\ \A q \in k + 1 .. r - 1 : P(q) = None
                               /\ next = Decided(P(r), r, "escalated", k, decision.baseline)
  <2>1. PastEnds(k, k, avoid, need, decision.baseline, PastSol(k, k, avoid, need, decision.baseline))
    <3>1. k \in 0 .. Len(Ladder)
      BY <1>0
    <3> QED BY <3>1, PastSolIs
  <2> QED BY <1>1, <2>1, Zenon DEF PastEnds
<1>3. CASE (\A q \in k + 1 .. L : P(q) = None) /\ next = None
  <2>1. open = {}
    BY <1>3
  <2> QED BY <1>3, <2>1 DEF ClimbReaches
<1>4. ASSUME NEW r \in k + 1 .. L, P(r) # None, \A q \in k + 1 .. r - 1 : P(q) = None,
             next = Decided(P(r), r, "escalated", k, decision.baseline)
      PROVE  ClimbReaches
  <2>1. next # None /\ next.rank = r /\ next.model = P(r)
    BY <1>4 DEF Decided, None
  <2>2. r \in open /\ \A q \in open : r <= q
    <3> HIDE DEF P
    <3> QED BY <1>0, <1>4
  <2>3. models[P(r)].provider \notin {avoid} /\ Satisfies(models[P(r)], need)
    <3>1. r \in 1 .. L
      BY <1>0
    <3> QED BY <1>4, <3>1, PickIs
  <2> HIDE DEF P, next
  <2>4. next # None /\ next.rank \in open /\ (\A q \in open : next.rank <= q)
        /\ models[next.model].provider # avoid /\ Satisfies(models[next.model], need)
    BY <2>1, <2>2, <2>3
  <2>5. open # {}
    BY <2>2
  <2> QED BY <2>4, <2>5 DEF ClimbReaches, next, P
<1> QED BY <1>2, <1>3, <1>4

(* The rung of a model is the first that names it, if one does.            *)
LEMMA TierIs ==
    ASSUME LadderOK, NEW id
    PROVE  /\ TierOf(id) \in 0 .. Len(Ladder)
           /\ TierOf(id) # 0 => Contains(Ladder[TierOf(id)].models, id)
           /\ TierOf(id) = 0 => \A r \in DOMAIN Ladder : ~ Contains(Ladder[r].models, id)
<1> DEFINE on(r) == Contains(Ladder[r].models, id)
<1>0. Len(Ladder) \in Nat \ {0} /\ DOMAIN Ladder = 1 .. Len(Ladder)
  BY LadderIs
<1>a. TierOf(id) = IF \E r \in DOMAIN Ladder : on(r)
                   THEN CHOOSE r \in DOMAIN Ladder : on(r) /\ \A q \in 1 .. r - 1 : ~ on(q) ELSE 0
  BY DEF TierOf
<1> HIDE DEF on
<1>1. CASE \E r \in DOMAIN Ladder : on(r)
  <2> DEFINE T == {r \in DOMAIN Ladder : on(r)}
  <2>1. T \subseteq Nat /\ T # {}
    BY <1>0, <1>1
  <2>2. PICK r \in T : \A q \in T : r <= q
    BY <2>1, LeastNatural
  <2>3. r \in DOMAIN Ladder /\ on(r) /\ \A q \in 1 .. r - 1 : ~ on(q)
    BY <1>0, <2>2
  <2>4. TierOf(id) \in DOMAIN Ladder /\ on(TierOf(id))
    BY <1>a, <1>1, <2>3
  <2> QED BY <1>0, <2>4 DEF on
<1>2. CASE ~ \E r \in DOMAIN Ladder : on(r)
  BY <1>0, <1>a, <1>2 DEF on
<1> QED BY <1>1, <1>2

(* A decision is on the ladder or off a floorless one, at or above the     *)
(* floor, and no dearer than a budget under pressure can help.             *)
Sound(d, need) ==
    d.kind = "decided" =>
        /\ d.rank \in 0 .. Len(Ladder)
        /\ d.reason # "passthrough" => d.rank # 0
        /\ d.rank = 0 => FloorRank <= 1
        /\ d.rank # 0 => d.rank >= FloorRank
        /\ pressure = "constrained" /\ d.reason # "passthrough" =>
              \A r \in ClampToFloor(1) .. d.rank - 1 : Pick(r, need) = None

LEMMA RefusedSound == \A why, need : Sound(Refused(why), need)
  BY DEF Sound, Refused

LEMMA ResolveSound ==
    ASSUME LadderOK, NEW rank \in 1 .. Len(Ladder), NEW reason, NEW need, NEW baseline,
           rank >= FloorRank, pressure = "constrained" => rank = ClampToFloor(1)
    PROVE  Sound(ResolveFrom(rank, reason, need, baseline), need)
<1> DEFINE L == Len(Ladder)
           d == ResolveFrom(rank, reason, need, baseline)
<1>0. L \in Nat \ {0} /\ FloorRank \in 0 .. L
  BY LadderIs, FloorIs
<1>1. CASE d = Refused("no_viable_model")
  BY <1>1, RefusedSound
<1>2. ASSUME NEW r \in rank .. L, \A q \in rank .. r - 1 : Pick(q, need) = None,
             d = Decided(Pick(r, need), r, reason, IF r = rank THEN 0 ELSE rank, baseline)
      PROVE  Sound(d, need)
  <2>1. d.rank = r
    BY <1>2 DEF Decided
  <2> HIDE DEF d
  <2>2. r \in 0 .. L /\ r # 0 /\ r >= FloorRank
    BY <1>0
  <2> QED BY <1>2, <2>1, <2>2 DEF Sound
<1>3. \/ /\ \A q \in rank .. L : Pick(q, need) = None
         /\ d = Refused("no_viable_model")
      \/ \E r \in rank .. L :
            /\ Pick(r, need) # None /\ \A q \in rank .. r - 1 : Pick(q, need) = None
            /\ d = Decided(Pick(r, need), r, reason, IF r = rank THEN 0 ELSE rank, baseline)
  BY ResolveFromIs
<1> HIDE DEF d
<1>4. Sound(d, need)
  <2>1. CASE d # Refused("no_viable_model")
    <3>1. PICK r \in rank .. L :
            /\ Pick(r, need) # None /\ \A q \in rank .. r - 1 : Pick(q, need) = None
            /\ d = Decided(Pick(r, need), r, reason, IF r = rank THEN 0 ELSE rank, baseline)
      BY <1>3, <2>1
    <3> QED BY <1>2, <3>1
  <2> QED BY <1>1, <2>1 DEF d
<1> QED BY <1>4 DEF d

LEMMA PassthroughSound ==
    ASSUME LadderOK, NEW name, NEW need, NEW baseline
    PROVE  Sound(DecidePassthrough(name, need, baseline), need)
<1> DEFINE id == Resolve(name)
           rank == TierOf(id)
           L == Len(Ladder)
<1>0. L \in Nat \ {0} /\ FloorRank \in 0 .. L /\ rank \in 0 .. L /\ 1 \in 1 .. L
  BY LadderIs, FloorIs, TierIs
<1>a. \A r \in 1 .. L : /\ ClampToFloor(r) \in 1 .. L /\ ClampToFloor(r) >= FloorRank
                        /\ ClampToFloor(r) = r <=> r >= FloorRank
                        /\ ClampToFloor(r) = r \/ ClampToFloor(r) = FloorRank
  BY FloorIs
<1>b. FloorRank > 1 => ClampToFloor(1) = FloorRank
  BY <1>0, <1>a
<1> HIDE DEF id, rank, L
<1>1. CASE id = None
  <2>1. DecidePassthrough(name, need, baseline) = Refused("no_viable_model")
    BY <1>1 DEF DecidePassthrough, id, rank
  <2> QED BY <2>1, RefusedSound
<1>2. CASE id # None /\ rank # 0 /\ ClampToFloor(rank) # rank
  <2> DEFINE c == ClampToFloor(rank)
  <2>1. DecidePassthrough(name, need, baseline) = ResolveFrom(c, "floor", need, baseline)
    BY <1>2 DEF DecidePassthrough, id, rank
  <2>2. c \in 1 .. L /\ c >= FloorRank /\ c = FloorRank /\ FloorRank > 1
    BY <1>0, <1>a, <1>2
  <2> HIDE DEF c
  <2>3. Sound(ResolveFrom(c, "floor", need, baseline), need)
    BY <1>b, <2>2, ResolveSound DEF L
  <2> QED BY <2>1, <2>3
<1>3. CASE id # None /\ rank = 0 /\ FloorRank > 1
  <2>1. DecidePassthrough(name, need, baseline) = ResolveFrom(FloorRank, "floor", need, baseline)
    BY <1>3 DEF DecidePassthrough, id, rank
  <2>2. FloorRank \in 1 .. L /\ FloorRank >= FloorRank
    BY <1>0, <1>3
  <2>3. Sound(ResolveFrom(FloorRank, "floor", need, baseline), need)
    BY <1>b, <1>3, <2>2, ResolveSound DEF L
  <2> QED BY <2>1, <2>3
<1>4. CASE id # None /\ ~ (rank # 0 /\ ClampToFloor(rank) # rank) /\ ~ (rank = 0 /\ FloorRank > 1)
  <2> DEFINE d == Decided(id, rank, "passthrough", 0, baseline)
  <2>1. DecidePassthrough(name, need, baseline) = d
    BY <1>4 DEF DecidePassthrough, id, rank
  <2>2. d.rank = rank /\ d.reason = "passthrough"
    BY DEF Decided
  <2> HIDE DEF d
  <2>3. (rank = 0 => FloorRank <= 1) /\ (rank # 0 => rank >= FloorRank)
    BY <1>0, <1>a, <1>4
  <2>4. Sound(d, need)
    BY <1>0, <2>2, <2>3 DEF Sound, L
  <2> QED BY <2>1, <2>4
<1> QED BY <1>1, <1>2, <1>3, <1>4

LEMMA ManagedSound ==
    ASSUME LadderOK, NEW signal, NEW baseline
    PROVE  Sound(DecideManaged(signal, baseline), Need(signal))
<1> DEFINE asked == IF Rank(Classify(signal)) = 0 THEN 1 ELSE Rank(Classify(signal))
           floored == ClampToFloor(asked)
           cheapest == ClampToFloor(1)
           reason == IF floored = asked THEN "classified" ELSE "floor"
           L == Len(Ladder)
<1>0. L \in Nat \ {0} /\ FloorRank \in 0 .. L /\ asked \in 1 .. L /\ 1 \in 1 .. L
  <2>1. Rank(Classify(signal)) \in 0 .. L /\ L \in Nat \ {0}
    BY RankIs, LadderIs
  <2> QED BY <2>1, FloorIs
<1>1. DecideManaged(signal, baseline) =
        IF pressure = "constrained" /\ cheapest < floored
        THEN ResolveFrom(cheapest, "downgraded", Need(signal), baseline)
        ELSE ResolveFrom(floored, reason, Need(signal), baseline)
  BY DEF DecideManaged
<1> HIDE DEF asked, reason
<1>a. \A r \in 1 .. L : ClampToFloor(r) \in 1 .. L /\ ClampToFloor(r) >= FloorRank /\ ClampToFloor(r) >= r
  BY FloorIs
<1>b. /\ floored \in 1 .. L /\ floored >= FloorRank
      /\ cheapest \in 1 .. L /\ cheapest >= FloorRank /\ cheapest <= floored
  <2>1. cheapest <= floored
    BY <1>0 DEF ClampToFloor
  <2> QED BY <1>0, <1>a, <2>1
<1> HIDE DEF floored, L
<1>2. CASE pressure = "constrained" /\ cheapest < floored
  <2> DEFINE c == cheapest
  <2> HIDE DEF c
  <2>0. c = ClampToFloor(1)
    BY DEF c
  <2>1. Sound(ResolveFrom(c, "downgraded", Need(signal), baseline), Need(signal))
    BY <1>b, <2>0, ResolveSound DEF L
  <2> QED BY <1>1, <1>2, <2>0, <2>1
<1>3. CASE ~ (pressure = "constrained" /\ cheapest < floored)
  <2>1. pressure = "constrained" => floored = ClampToFloor(1)
    BY <1>b, <1>3 DEF L
  <2>2. Sound(ResolveFrom(floored, reason, Need(signal), baseline), Need(signal))
    BY <1>b, <2>1, ResolveSound DEF L
  <2> QED BY <1>1, <1>3, <2>2
<1> QED BY <1>2, <1>3

LEMMA DecideSound ==
    ASSUME LadderOK, NEW mode, NEW name, NEW signal, NEW served
    PROVE  Sound(Decide(mode, name, signal, served), Need(signal))
<1> DEFINE b == Baseline(served, Need(signal))
<1>1. \/ Decide(mode, name, signal, served) = Refused("budget_exhausted")
      \/ Decide(mode, name, signal, served) = DecidePassthrough(name, Need(signal), b)
      \/ Decide(mode, name, signal, served) = DecideManaged(signal, b)
  BY DEF Decide
<1> HIDE DEF b
<1> QED BY <1>1, RefusedSound, PassthroughSound, ManagedSound

LEMMA AnswerSound ==
    ASSUME LadderOK, NEW name, NEW header, NEW signal, NEW tier,
           tier = IF Normalise(name).kind = "refused" THEN "" ELSE ExplicitTier(header, Normalise(name).model)
    PROVE  Sound(Answer(name, header, signal), Need([signal EXCEPT !.tier = tier]))
<1> DEFINE normal == Normalise(name)
           need == Need([signal EXCEPT !.tier = tier])
<1> HIDE DEF need
<1>1. CASE normal.kind = "refused"
  <2>1. Answer(name, header, signal) = normal
    BY <1>1 DEF Answer
  <2>2. Sound(normal, need)
    BY <1>1 DEF Sound
  <2> QED BY <2>1, <2>2 DEF need
<1>2. CASE normal.kind # "refused"
  <2> DEFINE asked == normal.model
             mode == IF Virtual(asked) \/ route.mode = "managed" \/ tier # "" THEN "managed" ELSE "passthrough"
             made == Decide(mode, asked, [signal EXCEPT !.tier = tier], ServedModels)
  <2>1. tier = ExplicitTier(header, asked) /\ Answer(name, header, signal) = Plan(asked, header, signal)
    BY <1>2 DEF Answer
  <2>2. Plan(asked, header, signal) =
          IF made.kind = "refused" /\ made.why = "no_viable_model" THEN Refused(Explanation(asked)) ELSE made
    BY <2>1, Zenon DEF Plan
  <2>3. Sound(made, need)
    BY DecideSound DEF need
  <2> HIDE DEF made, asked
  <2>4. Sound(Plan(asked, header, signal), need)
    BY <2>2, <2>3, RefusedSound
  <2> QED BY <2>1, <2>4 DEF need
<1> QED BY <1>1, <1>2

(* What routing keeps: a catalog whose index agrees with it, rows, a       *)
(* ladder, and a decision that is sound for the request it is for.         *)
RoutingInv ==
    /\ LadderOK /\ AccountsOK /\ CatalogOK
    /\ request = None => decision = None
    /\ request # None => "climbs" \in DOMAIN request
    /\ Sound(decision, Need(request.signal))

LEMMA NoneSound == \A need : Sound(None, need)
  BY DEF Sound, None

LEMMA RoutingStarts == RoutingInit => RoutingInv
<1> SUFFICES ASSUME RoutingInit PROVE RoutingInv
  OBVIOUS
<1>1. LadderOK
  <2>1. Ladder \in Ladders
    BY DEF RoutingInit, Ladder
  <2> QED BY <2>1, RoutingAssumption DEF LadderOK
<1>2. AccountsOK
  BY DEF RoutingInit, AccountsOK
<1>3. CatalogOK
  <2>1. models = << >> /\ byUpstream = << >>
    BY DEF RoutingInit
  <2>2. DOMAIN models = {} /\ DOMAIN byUpstream = {}
    BY <2>1
  <2> QED BY <2>2, FS_EmptySet DEF CatalogOK
<1>4. decision = None /\ request = None
  BY DEF RoutingInit
<1> QED BY <1>1, <1>2, <1>3, <1>4, NoneSound DEF RoutingInv

(* The catalog is all a step between requests may change of what a         *)
(* decision is made from, and a request in hand changes none of it.        *)
LEMMA FixedSame ==
    ASSUME UNCHANGED <<models, byUpstream, route, account, pressure>>
    PROVE  /\ Ladder' = Ladder /\ FloorRank' = FloorRank
           /\ (LadderOK => LadderOK') /\ (AccountsOK => AccountsOK') /\ (CatalogOK => CatalogOK')
           /\ \A r : ClampToFloor(r)' = ClampToFloor(r)
<1>1. Ladder' = Ladder
  BY DEF Ladder
<1>2. FloorRank' = FloorRank
  BY <1>1 DEF FloorRank, Rank
<1>3. LadderOK => LadderOK'
  BY <1>1 DEF LadderOK
<1>4. AccountsOK => AccountsOK'
  BY DEF AccountsOK
<1>5. CatalogOK => CatalogOK'
  BY DEF CatalogOK
<1> QED BY <1>1, <1>2, <1>3, <1>4, <1>5 DEF ClampToFloor

LEMMA SoundSame ==
    ASSUME UNCHANGED <<models, byUpstream, route, account, pressure>>,
           Sound(decision', Need(request'.signal))
    PROVE  Sound(decision, Need(request.signal))'
<1>1. Ladder' = Ladder /\ FloorRank' = FloorRank /\ ClampToFloor(1)' = ClampToFloor(1)
  BY FixedSame
<1>2. ASSUME NEW r PROVE Pick(r, Need(request.signal))' = Pick(r, Need(request'.signal))
  BY <1>1 DEF Pick, PickWithout, Satisfies, Need
<1> QED BY <1>1, <1>2 DEF Sound

LEMMA InsertKeeps == RoutingInv /\ InsertModel => RoutingInv'
<1> SUFFICES ASSUME RoutingInv, InsertModel PROVE RoutingInv'
  OBVIOUS
<1>1. PICK spec \in Specs : Insert(spec)
  BY DEF InsertModel
<1>2. CatalogOK'
  BY <1>1, InsertKeepsCatalog DEF RoutingInv
<1>3. LadderOK' /\ AccountsOK'
  BY DEF InsertModel, RoutingInv, LadderOK, Ladder, AccountsOK
<1>4. decision' = None /\ request' = None
  BY DEF InsertModel, RoutingInv
<1>5. Sound(decision, Need(request.signal))'
  BY <1>4 DEF Sound, None
<1> QED BY <1>2, <1>3, <1>4, <1>5 DEF RoutingInv

LEMMA SpendKeeps == RoutingInv /\ SpendMoves => RoutingInv'
<1> SUFFICES ASSUME RoutingInv, SpendMoves PROVE RoutingInv'
  OBVIOUS
<1>1. UNCHANGED <<models, byUpstream, route, account>>
  BY DEF SpendMoves, catalogVars
<1>2. LadderOK' /\ AccountsOK' /\ CatalogOK'
  BY <1>1 DEF RoutingInv, LadderOK, Ladder, AccountsOK, CatalogOK
<1>4. decision' = None /\ request' = None
  BY DEF SpendMoves, RoutingInv
<1>5. Sound(decision, Need(request.signal))'
  BY <1>4 DEF Sound, None
<1> QED BY <1>2, <1>4, <1>5 DEF RoutingInv

LEMMA ArriveKeeps == RoutingInv /\ Arrive => RoutingInv'
<1> SUFFICES ASSUME RoutingInv, Arrive PROVE RoutingInv'
  OBVIOUS
<1>1. UNCHANGED <<models, byUpstream, route, account, pressure>>
  BY DEF Arrive, catalogVars
<1> DEFINE tier(r) == IF Normalise(r.name).kind = "refused" THEN "" ELSE ExplicitTier(r.header, Normalise(r.name).model)
<1>2. PICK r \in Asks :
        /\ request' = [kind |-> "routed", name |-> r.name, header |-> r.header,
                       signal |-> [r.signal EXCEPT !.tier = tier(r)], climbs |-> 0]
        /\ decision' = Answer(r.name, r.header, r.signal)
  BY Zenon DEF Arrive
<1>3. request'.signal = [r.signal EXCEPT !.tier = tier(r)] /\ "climbs" \in DOMAIN request' /\ request' # None
  <2> HIDE DEF tier
  <2> QED BY <1>2 DEF None
<1>4. Sound(decision', Need(request'.signal))
  <2> DEFINE t == tier(r)
  <2>1. t = IF Normalise(r.name).kind = "refused" THEN "" ELSE ExplicitTier(r.header, Normalise(r.name).model)
    OBVIOUS
  <2> HIDE DEF t
  <2>2. Sound(Answer(r.name, r.header, r.signal), Need([r.signal EXCEPT !.tier = t]))
    BY <2>1, AnswerSound DEF RoutingInv
  <2> QED BY <1>2, <1>3, <2>2 DEF t
<1>5. Sound(decision, Need(request.signal))'
  BY <1>1, <1>4, SoundSame
<1> QED BY <1>1, <1>3, <1>5, FixedSame DEF RoutingInv

(* What a climb lands on is sound: above a rung that was.                  *)
LEMMA ClimbSound ==
    ASSUME RoutingInv, ClimbAllowed, NEW m, NEW r \in decision.rank + 1 .. Len(Ladder), NEW f, NEW b, NEW need
    PROVE  Sound(Decided(m, r, "escalated", f, b), need)
<1> DEFINE d == Decided(m, r, "escalated", f, b)
<1>0. Len(Ladder) \in Nat \ {0} /\ FloorRank \in 0 .. Len(Ladder)
  BY LadderIs, FloorIs DEF RoutingInv
<1>1. decision.rank \in 0 .. Len(Ladder) /\ decision.rank >= FloorRank /\ pressure = "normal"
  BY DEF RoutingInv, Sound, ClimbAllowed
<1>2. d.rank = r
  BY DEF Decided
<1>3. r \in 0 .. Len(Ladder) /\ r # 0 /\ r >= FloorRank
  BY <1>0, <1>1
<1> HIDE DEF d
<1>4. Sound(d, need)
  BY <1>1, <1>2, <1>3 DEF Sound
<1> QED BY <1>4 DEF d

LEMMA ClimbKeeps == RoutingInv /\ (Climb \/ ClimbPast) => RoutingInv'
<1> SUFFICES ASSUME RoutingInv, Climb \/ ClimbPast PROVE RoutingInv'
  OBVIOUS
<1> DEFINE need == Need(request.signal)
           L == Len(Ladder)
<1>1. UNCHANGED <<models, byUpstream, route, account, pressure>> /\ ClimbAllowed
  BY DEF Climb, ClimbPast, catalogVars
<1>2. LadderOK /\ L \in Nat \ {0} /\ decision.rank \in 0 .. L
  BY <1>1, LadderIs DEF RoutingInv, Sound, ClimbAllowed
<1>3. decision' # None /\ \E m, f, b : \E r \in decision.rank + 1 .. L : decision' = Decided(m, r, "escalated", f, b)
  <2>1. CASE Climb
    <3>1. decision' = Escalate(decision.rank, need, decision.baseline) /\ decision' # None
      BY <2>1 DEF Climb
    <3>2. \/ Escalate(decision.rank, need, decision.baseline) = None
          \/ \E r \in decision.rank + 1 .. L : Escalate(decision.rank, need, decision.baseline) =
                 Decided(Pick(r, need), r, "escalated", decision.rank, decision.baseline)
      BY <1>2, EscalateIs
    <3> QED BY <3>1, <3>2
  <2>2. CASE ClimbPast
    <3> DEFINE avoid == models[decision.model].provider
    <3>1. decision' = EscalatePastProvider(decision.rank, avoid, need, decision.baseline) /\ decision' # None
      BY <2>2 DEF ClimbPast
    <3>2. PastEnds(decision.rank, decision.rank, avoid, need, decision.baseline, decision')
      BY <1>2, <3>1, PastIs, PastSolIs
    <3> QED BY <3>1, <3>2 DEF PastEnds
  <2> QED BY <2>1, <2>2
<1>4. Sound(decision', Need(request'.signal))
  BY <1>1, <1>3, ClimbSound
<1>5. Sound(decision, Need(request.signal))'
  BY <1>1, <1>4, SoundSame
<1>6. "climbs" \in DOMAIN request' /\ request' # None
  <2>1. "climbs" \in DOMAIN request
    BY <1>1 DEF ClimbAllowed, RoutingInv, None
  <2>2. request' = [request EXCEPT !.climbs = @ + 1]
    BY DEF Climb, ClimbPast
  <2> QED BY <2>1, <2>2 DEF None
<1> QED BY <1>1, <1>5, <1>6, FixedSame DEF RoutingInv

LEMMA RoutingKeeps == RoutingInv /\ [RoutingNext]_routingVars => RoutingInv'
<1> SUFFICES ASSUME RoutingInv, [RoutingNext]_routingVars PROVE RoutingInv'
  OBVIOUS
<1>1. CASE UNCHANGED routingVars
  <2>1. UNCHANGED <<models, byUpstream, route, account, pressure>> /\ decision' = decision /\ request' = request
    BY <1>1 DEF routingVars
  <2>2. Sound(decision', Need(request'.signal))
    BY <2>1 DEF RoutingInv
  <2>3. Sound(decision, Need(request.signal))'
    BY <2>1, <2>2, SoundSame
  <2> QED BY <2>1, <2>3, FixedSame DEF RoutingInv
<1> QED BY <1>1, InsertKeeps, SpendKeeps, ArriveKeeps, ClimbKeeps DEF RoutingNext

LEMMA RoutingInvHolds == RoutingSpec => []RoutingInv
  BY RoutingStarts, RoutingKeeps, PTL DEF RoutingSpec

(* What is decided, by name, class, pin, budget or climb, is at or above   *)
(* the floor and the nearest that can serve; presence says what serves.    *)
THEOREM DecisionsAreSound == RoutingSpec => []DecisionsHold
<1>1. RoutingInv => DecisionsHold
  <2> SUFFICES ASSUME RoutingInv PROVE DecisionsHold
    OBVIOUS
  <2>1. FloorHolds
    BY DEF RoutingInv, Sound, FloorHolds
  <2>2. ClimbReaches
    BY ClimbIs DEF RoutingInv, Sound
  <2>3. PresenceAgrees
    BY PresenceIs DEF RoutingInv
  <2> QED BY <2>1, <2>2, <2>3 DEF DecisionsHold
<1> QED BY <1>1, RoutingInvHolds, PTL

(* What names are put together of, decorated or not.                       *)
Word == STRING \cup {"anthropic", "oag", "api", "sub"}
Spelling == [path : Seq(Word) \ {<< >>}, at : Seq(Word)]

LEMMA NameSpelt == Name \subseteq Spelling
<1>1. \A S, T : S \subseteq T => Seq(S) \subseteq Seq(T)
  OBVIOUS
<1>2. Seq(STRING) \subseteq Seq(Word)
  BY <1>1 DEF Word
<1> QED BY <1>2 DEF Name, Spelling

(* What a channel adds to a name is taken off again.                       *)
LEMMA ChannelName ==
    ASSUME NEW n \in Spelling, NEW k \in Word
    PROVE  LET m == [n EXCEPT !.at = Append(@, k)] IN
           /\ m \in Spelling /\ m.path = n.path /\ m.at # << >> /\ Last(m.at) = k
           /\ [m EXCEPT !.at = Front(@)] = n /\ m # n
<1> DEFINE p == n.path
           a == n.at
           m == [n EXCEPT !.at = Append(@, k)]
           b == Append(a, k)
<1>1. n = [path |-> p, at |-> a] /\ p \in Seq(Word) \ {<< >>} /\ a \in Seq(Word)
  BY DEF Spelling
<1>2. m = [path |-> p, at |-> b]
  <2>1. m = [n EXCEPT !.at = b]
    OBVIOUS
  <2> HIDE DEF m, b, p, a
  <2> QED BY <1>1, <2>1
<1>3. b \in Seq(Word) /\ b # << >> /\ b # a /\ b[Len(b)] = k /\ SubSeq(b, 1, Len(b) - 1) = a
  <2>1. Len(a) \in Nat /\ Len(b) = Len(a) + 1 /\ b \in Seq(Word) /\ b[Len(b)] = k
    BY <1>1
  <2>2. SubSeq(b, 1, Len(a)) = a
    BY <1>1
  <2>3. Len(b) - 1 = Len(a) /\ b # a /\ b # << >>
    BY <2>1
  <2> HIDE DEF a, b
  <2> QED BY <2>1, <2>2, <2>3
<1> HIDE DEF m, b, p, a
<1>4. m \in Spelling /\ m.path = p /\ m.at = b /\ m # n
  BY <1>1, <1>2, <1>3 DEF Spelling
<1>5. Front(m.at) = a /\ Last(m.at) = k
  BY <1>3, <1>4 DEF Front, Last
<1>6. [m EXCEPT !.at = Front(@)] = n
  BY <1>1, <1>2, <1>4, <1>5
<1> QED BY <1>3, <1>4, <1>5, <1>6 DEF m, p

LEMMA ChannelChange ==
    ASSUME NEW n \in Spelling, NEW m \in Spelling, m.path = n.path
    PROVE  [m EXCEPT !.at = n.at] = n
<1> DEFINE a == n.at
           b == m.at
           p == n.path
<1>1. n = [path |-> p, at |-> a] /\ m = [path |-> p, at |-> b]
  BY DEF Spelling
<1> HIDE DEF a, b, p
<1>2. [m EXCEPT !.at = a] = [path |-> p, at |-> a]
  BY <1>1
<1> QED BY <1>1, <1>2 DEF a

(* What the prefix adds to a name is taken off again.                      *)
LEMMA AliasName ==
    ASSUME NEW n \in Spelling
    PROVE  /\ Alias(n) \in Spelling /\ Alias(n).at = n.at /\ Alias(n).path[1] = "anthropic" /\ Len(Alias(n).path) > 1
           /\ [Alias(n) EXCEPT !.path = Tail(@)] = n
           /\ \A a : [Alias(n) EXCEPT !.at = a] = Alias([n EXCEPT !.at = a])
<1> DEFINE p == n.path
           a == n.at
           q == <<"anthropic">> \o p
           m == Alias(n)
<1>1. n = [path |-> p, at |-> a] /\ p \in Seq(Word) \ {<< >>} /\ a \in Seq(Word)
  BY DEF Spelling
<1>2. m = [path |-> q, at |-> a]
  <2>1. m = [n EXCEPT !.path = q]
    BY DEF Alias
  <2> HIDE DEF m, q, p, a
  <2> QED BY <1>1, <2>1
<1>3. q \in Seq(Word) \ {<< >>} /\ q[1] = "anthropic" /\ Len(q) > 1 /\ Tail(q) = p
  <2>0. p \in Seq(Word) /\ Len(p) \in Nat \ {0} /\ <<"anthropic">> \in Seq(Word) /\ Len(<<"anthropic">>) = 1
    <3> HIDE DEF p
    <3>1. \A x \in Seq(Word) : x # << >> => Len(x) \in Nat \ {0}
      OBVIOUS
    <3>2. <<"anthropic">> \in Seq(Word) /\ Len(<<"anthropic">>) = 1
      <4>1. ASSUME NEW S, NEW x \in S PROVE <<x>> \in Seq(S) /\ Len(<<x>>) = 1
        OBVIOUS
      <4>2. "anthropic" \in Word
        BY DEF Word
      <4> QED BY <4>1, <4>2, Zenon
    <3> QED BY <1>1, <3>1, <3>2
  <2>1. Len(q) = Len(p) + 1 /\ q \in Seq(Word) /\ q[1] = "anthropic" /\ Len(p) \in Nat \ {0}
    <3> HIDE DEF p
    <3> QED BY <2>0
  <2>2. \A i \in 1 .. Len(p) : q[i + 1] = p[i]
    BY <1>1
  <2>3. Tail(q) \in Seq(Word) /\ Len(Tail(q)) = Len(p) /\ \A i \in 1 .. Len(p) : Tail(q)[i] = q[i + 1]
    BY <2>1
  <2>4. Tail(q) = p
    BY <1>1, <2>2, <2>3
  <2> QED BY <2>1, <2>4
<1> HIDE DEF m, q, p, a
<1>4. m \in Spelling /\ m.path = q /\ m.at = a
  BY <1>1, <1>2, <1>3 DEF Spelling
<1>5. [m EXCEPT !.path = Tail(@)] = n
  BY <1>1, <1>2, <1>3
<1>6. ASSUME NEW b PROVE [m EXCEPT !.at = b] = Alias([n EXCEPT !.at = b])
  <2> DEFINE o == [n EXCEPT !.at = b]
  <2>1. o = [path |-> p, at |-> b]
    BY <1>1
  <2> HIDE DEF o
  <2>2. Alias(o) = [path |-> q, at |-> b]
    <3>1. o.path = p
      BY <2>1
    <3>2. Alias(o) = [o EXCEPT !.path = q]
      BY <3>1 DEF Alias, q
    <3> QED BY <2>1, <3>2
  <2>3. [m EXCEPT !.at = b] = [path |-> q, at |-> b]
    BY <1>2
  <2> QED BY <2>2, <2>3 DEF o
<1> QED BY <1>3, <1>4, <1>5, <1>6 DEF m, a

LEMMA CanonAlias ==
    ASSUME NEW n \in Spelling, Known(n), Resolve(Alias(n)) = None
    PROVE  Canonicalise(Alias(n)) = n
<1> DEFINE m == Alias(n)
<1>1. m.path[1] = "anthropic" /\ Len(m.path) > 1 /\ [m EXCEPT !.path = Tail(@)] = n
  BY AliasName
<1> HIDE DEF m
<1>2. ~ Known(m)
  BY <1>1 DEF Known, Virtual, m
<1>3. Canonicalise(m) = n
  BY <1>1, <1>2 DEF Canonicalise
<1> QED BY <1>3 DEF m

LEMMA CanonKnown == ASSUME NEW n, Known(n) PROVE Canonicalise(n) = n
  BY DEF Canonicalise

(* A name whose decorations come off to a known name is taken for it.      *)
LEMMA NormaliseIs ==
    ASSUME NEW name, NEW base, NEW channel,
           SplitChannel(name) = [base |-> base, channel |-> channel],
           channel # "" /\ Resolve(Canonicalise(base)) # None =>
               channel \in Accepts[models[Resolve(Canonicalise(base))].provider]
    PROVE  Normalise(name) = [kind |-> "name", model |-> Canonicalise(base), channel |-> channel]
<1> DEFINE model == Canonicalise(base)
<1> DEFINE split == SplitChannel(name)
<1>1. split # None /\ split.base = base /\ split.channel = channel
  <2>1. split = [base |-> base, channel |-> channel]
    OBVIOUS
  <2>2. "base" \in DOMAIN split /\ DOMAIN None = {"kind"}
    BY <2>1 DEF None
  <2>3. split # None
    <3>1. "base" \notin {"kind"}
      OBVIOUS
    <3> HIDE DEF split
    <3> QED BY <2>2, <3>1, Zenon
  <2> HIDE DEF split
  <2> QED BY <2>1, <2>3
<1> DEFINE canonical == IF split = None THEN None ELSE Canonicalise(split.base)
<1>2. canonical = model
  BY <1>1
<1>3. Normalise(name) =
        CASE split = None -> Refused("unknown_channel")
          [] split # None /\ split.channel # "" /\ Resolve(canonical) # None
            /\ split.channel \notin Accepts[models[Resolve(canonical)].provider] -> Refused("channel_not_offered")
          [] OTHER -> [kind |-> "name", model |-> canonical, channel |-> split.channel]
  BY DEF Normalise
<1> HIDE DEF split, canonical, model
<1>4. channel # "" /\ Resolve(model) # None => channel \in Accepts[models[Resolve(model)].provider]
  BY DEF model
<1>5. Normalise(name) = [kind |-> "name", model |-> model, channel |-> channel]
  BY <1>1, <1>2, <1>3, <1>4
<1> QED BY <1>5 DEF model

LEMMA NormalIs ==
    \A x, m, c : x = [kind |-> "name", model |-> m, channel |-> c] => x.kind = "name" /\ x.model = m /\ x.channel = c
  OBVIOUS

(* A name without a channel is split into itself.                          *)
LEMMA SplitBare ==
    ASSUME NEW n, n.at = << >> \/ Resolve(n) # None
    PROVE  SplitChannel(n) = [base |-> n, channel |-> ""]
  BY DEF SplitChannel

LEMMA SplitChannelled ==
    ASSUME NEW n, n.at # << >>, Resolve(n) = None, Last(n.at) \in {"api", "sub"}
    PROVE  SplitChannel(n) = [base |-> [n EXCEPT !.at = Front(@)], channel |-> Last(n.at)]
  BY DEF SplitChannel

(* A name of a row, on a route that takes names, at or above the floor or  *)
(* off a ladder without one, is served by that row.                        *)
LEMMA PassedThrough ==
    ASSUME LadderOK, CatalogOK, NEW id \in DOMAIN models, NEW name, Normalise(name).kind = "name", Normalise(name).model = id,
           pressure # "exhausted", route.mode # "managed",
           TierOf(id) = 0 => FloorRank <= 1, TierOf(id) # 0 => TierOf(id) >= FloorRank
    PROVE  Answer(name, "", Small).kind = "decided" /\ Answer(name, "", Small).model = id
<1>0. id \in Name /\ id # None /\ id.path[1] # "oag"
  BY RoutingAssumption, NameNotNone DEF CatalogOK
<1>1. ~ Virtual(id) /\ Resolve(id) = id
  BY <1>0 DEF Virtual, Resolve
<1> DEFINE sig == [Small EXCEPT !.tier = ""]
           b == Baseline(ServedModels, Need(sig))
           d == Decided(id, TierOf(id), "passthrough", 0, b)
<1>2. ExplicitTier("", id) = ""
  BY <1>1 DEF ExplicitTier
<1>3. Answer(name, "", Small) = Plan(id, "", Small)
  BY DEF Answer
<1> HIDE DEF sig, b
<1>4. DecidePassthrough(id, Need(sig), b) = d
  <2> DEFINE t == TierOf(id)
  <2>1. t \in 0 .. Len(Ladder) /\ Len(Ladder) \in Nat \ {0} /\ FloorRank \in 0 .. Len(Ladder)
    BY TierIs, LadderIs, FloorIs
  <2>2. t # 0 => ClampToFloor(t) = t
    BY <2>1 DEF ClampToFloor
  <2>3. ~ (t = 0 /\ FloorRank > 1)
    BY <2>1
  <2> QED BY <1>0, <1>1, <2>2, <2>3 DEF DecidePassthrough
<1>5. Decide("passthrough", id, sig, ServedModels) = DecidePassthrough(id, Need(sig), b)
  BY DEF Decide, b
<1>6. d.kind = "decided" /\ d.model = id
  BY DEF Decided
<1> DEFINE made == Decide("passthrough", id, sig, ServedModels)
<1>7. Plan(id, "", Small) = IF made.kind = "refused" /\ made.why = "no_viable_model" THEN Refused(Explanation(id)) ELSE made
  BY <1>1, <1>2 DEF Plan, sig
<1> HIDE DEF made, d
<1>8. made = d
  BY <1>4, <1>5 DEF made, d
<1> QED BY <1>3, <1>6, <1>7, <1>8

(* What the caller is entitled to by name is a row a route that takes names *)
(* serves, on a rung at or above the floor or off a floorless ladder.      *)
LEMMA EntitledIs ==
    ASSUME LadderOK, NEW usable, NEW o \in Entitled(usable)
    PROVE  /\ o.id \in DOMAIN models /\ pressure # "exhausted"
           /\ o.honoured => route.mode # "managed"
           /\ o.honoured /\ ~ Below(o.id) =>
              (TierOf(o.id) = 0 => FloorRank <= 1) /\ (TierOf(o.id) # 0 => TierOf(o.id) >= FloorRank)
<1> DEFINE above == {id \in DOMAIN models :
                    models[id].provider \in usable
                    /\ \E r \in DOMAIN Ladder : r >= FloorRank /\ Contains(Ladder[r].models, id)}
           rung(id) == CHOOSE r \in DOMAIN Ladder :
                       /\ r >= FloorRank /\ Contains(Ladder[r].models, id)
                       /\ \A q \in DOMAIN Ladder : q < r /\ q >= FloorRank => ~ Contains(Ladder[q].models, id)
           off == {id \in DOMAIN models : models[id].provider \in usable} \ above
           A == {Entitlement(id, rung(id), route.mode # "managed") : id \in above}
           B == {Entitlement(id, 0, FloorRank <= 1) : id \in off}
<1>1. Entitled(usable) = IF pressure = "exhausted" THEN {} ELSE A \cup IF route.mode = "managed" THEN {} ELSE B
  BY DEF Entitled
<1>2. pressure # "exhausted" /\ (o \in A \/ (route.mode # "managed" /\ o \in B))
  <2> HIDE DEF A, B
  <2> QED BY <1>1
<1>3. CASE o \in A
  <2>1. PICK id \in above : o = Entitlement(id, rung(id), route.mode # "managed")
    BY <1>3
  <2> HIDE DEF rung
  <2>2. o.id = id /\ o.honoured = (route.mode # "managed")
    BY <2>1 DEF Entitlement
  <2>3. id \in DOMAIN models /\ \E r \in DOMAIN Ladder : r >= FloorRank /\ Contains(Ladder[r].models, id)
    OBVIOUS
  <2>4. TierOf(id) # 0
    BY <2>3, TierIs
  <2>5. ~ Below(id) => TierOf(id) >= FloorRank
    <3>1. TierOf(id) \in DOMAIN Ladder /\ Contains(Ladder[TierOf(id)].models, id) /\ DOMAIN Ladder \subseteq Nat /\ FloorRank \in Nat
      BY <2>4, TierIs, LadderIs, FloorIs
    <3> QED BY <3>1 DEF Below
  <2> QED BY <1>2, <2>2, <2>3, <2>4, <2>5
<1>4. CASE route.mode # "managed" /\ o \in B
  <2>1. PICK id \in off : o = Entitlement(id, 0, FloorRank <= 1)
    BY <1>4
  <2>2. o.id = id /\ o.honoured = (FloorRank <= 1)
    BY <2>1 DEF Entitlement
  <2>3. id \in DOMAIN models
    OBVIOUS
  <2>4. TierOf(id) # 0 /\ ~ Below(id) => TierOf(id) >= FloorRank
    <3>1. TierOf(id) # 0 => TierOf(id) \in DOMAIN Ladder /\ Contains(Ladder[TierOf(id)].models, id)
      BY TierIs, LadderIs
    <3>2. DOMAIN Ladder \subseteq Nat /\ FloorRank \in Nat
      BY LadderIs, FloorIs
    <3> QED BY <3>1, <3>2 DEF Below
  <2> QED BY <1>2, <1>4, <2>2, <2>3, <2>4
<1> QED BY <1>2, <1>3, <1>4

(* A channel that serves a model is one its provider takes.                *)
LEMMA ServesAccepts ==
    ASSUME AccountsOK, NEW p, NEW k \in Kinds(p)
    PROVE  k \in Accepts[p]
<1>1. PICK a \in Accounts : account[a].provider = p /\ account[a].kind = k
  BY DEF Kinds, Held
<1> QED BY <1>1, RoutingAssumption DEF AccountsOK

(* An entry's name, with its decorations off, is its model's.              *)
LEMMA ConcreteName ==
    ASSUME RoutingInv, NEW o, o.id \in DOMAIN models, NEW e \in ConcreteEntries(o)
    PROVE  /\ e.id = o.id /\ e.honoured = o.honoured
           /\ DOMAIN e = {"name", "id", "rank", "channel", "honoured"}
           /\ \/ e.name = o.id /\ e.channel = ""
              \/ /\ e.channel \in {"api", "sub"} /\ e.channel \in Accepts[models[o.id].provider]
                 /\ e.name = [o.id EXCEPT !.at = Append(@, e.channel)]
<1>1. CASE e = Entry(o.id, o.id, o.rank, "", o.honoured)
  BY <1>1 DEF Entry
<1>2. ASSUME NEW k \in {"api", "sub"}, KindServes(models[o.id].provider, k, o.id),
             e = Entry([o.id EXCEPT !.at = Append(@, k)], o.id, o.rank, k, o.honoured)
      PROVE  /\ e.id = o.id /\ e.honoured = o.honoured
             /\ DOMAIN e = {"name", "id", "rank", "channel", "honoured"}
             /\ e.channel \in {"api", "sub"} /\ e.channel \in Accepts[models[o.id].provider]
             /\ e.name = [o.id EXCEPT !.at = Append(@, e.channel)]
  <2> DEFINE n == [o.id EXCEPT !.at = Append(@, k)]
  <2>1. k \in Accepts[models[o.id].provider]
    BY <1>2, ServesAccepts DEF KindServes, RoutingInv
  <2>2. e = Entry(n, o.id, o.rank, k, o.honoured)
    BY <1>2
  <2> HIDE DEF n
  <2>3. e.id = o.id /\ e.honoured = o.honoured /\ e.channel = k /\ e.name = n
        /\ DOMAIN e = {"name", "id", "rank", "channel", "honoured"}
    BY <2>2 DEF Entry
  <2> QED BY <2>1, <2>3 DEF n
<1> QED BY <1>1, <1>2 DEF ConcreteEntries

(* A listed name of a model, asked for, is normalised to it.               *)
LEMMA ConcreteNormal ==
    ASSUME RoutingInv, NEW id \in DOMAIN models, NEW channel, NEW bare, NEW name,
           \/ bare = id /\ channel = ""
           \/ channel \in {"api", "sub"} /\ channel \in Accepts[models[id].provider]
              /\ bare = [id EXCEPT !.at = Append(@, channel)],
           \/ name = bare
           \/ name = Alias(bare) /\ ~ Survives(bare),
           \A n \in {name, [name EXCEPT !.at = id.at]} : n = id \/ Resolve(n) = None,
           ~ (id.at # << >> /\ name = Alias(id))
    PROVE  Normalise(name) = [kind |-> "name", model |-> id, channel |-> channel]
<1>0. id \in Spelling /\ id # None /\ Resolve(id) = id /\ Known(id) /\ Canonicalise(id) = id
  <2>1. id \in Spelling /\ id # None
    <3>1. models[id] \in Specs /\ models[id].id = id
      BY DEF RoutingInv, CatalogOK
    <3>2. id \in Name
      BY <3>1, RoutingAssumption
    <3> QED BY <3>2, NameNotNone, NameSpelt
  <2>2. Resolve(id) = id
    BY DEF Resolve
  <2> QED BY <2>1, <2>2, CanonKnown DEF Known
<1>1. CASE bare = id /\ channel = "" /\ name = bare
  <2>1. SplitChannel(id) = [base |-> id, channel |-> ""]
    BY <1>0, SplitBare
  <2>2. Canonicalise(id) = id
    BY <1>0
  <2>3. Normalise(id) = [kind |-> "name", model |-> Canonicalise(id), channel |-> ""]
    BY <2>1, NormaliseIs
  <2> QED BY <1>1, <2>2, <2>3
<1>2. CASE bare = id /\ channel = "" /\ name = Alias(bare) /\ ~ Survives(bare)
  <2>1. Alias(id).at = id.at /\ Alias(id).path[1] = "anthropic"
    BY <1>0, AliasName
  <2>2. id.at = << >> /\ Alias(id) # id
    BY <1>2, <2>1 DEF Survives
  <2>3. Resolve(Alias(id)) = None
    BY <1>2, <2>2
  <2>4. Canonicalise(Alias(id)) = id
    BY <1>0, <2>3, CanonAlias
  <2>5. SplitChannel(Alias(id)) = [base |-> Alias(id), channel |-> ""]
    BY <2>1, <2>2, SplitBare
  <2>6. Normalise(Alias(id)) = [kind |-> "name", model |-> Canonicalise(Alias(id)), channel |-> ""]
    BY <2>5, NormaliseIs
  <2> QED BY <1>2, <2>4, <2>6
<1>3. CASE channel \in {"api", "sub"} /\ channel \in Accepts[models[id].provider]
           /\ bare = [id EXCEPT !.at = Append(@, channel)]
  <2>0. channel \in Word
    BY <1>3 DEF Word
  <2>a. channel # "" /\ Resolve(id) # None => channel \in Accepts[models[Resolve(id)].provider]
    BY <1>0, <1>3
  <2>c. Canonicalise(id) = id
    BY <1>0
  <2>1. /\ bare \in Spelling /\ bare.path = id.path /\ bare.at # << >> /\ Last(bare.at) = channel
        /\ [bare EXCEPT !.at = Front(@)] = id /\ bare # id
    BY <1>0, <1>3, <2>0, ChannelName
  <2>2. CASE name = bare
    <3>1. Resolve(bare) = None
      BY <2>1, <2>2
    <3>2. SplitChannel(bare) = [base |-> id, channel |-> channel]
      BY <1>3, <2>1, <3>1, SplitChannelled
    <3>3. Normalise(bare) = [kind |-> "name", model |-> Canonicalise(id), channel |-> channel]
      BY <2>a, <2>c, <3>2, NormaliseIs
    <3> QED BY <2>c, <2>2, <3>3
  <2>3. CASE name = Alias(bare) /\ ~ Survives(bare)
    <3>1. Alias(bare).at = bare.at /\ Alias(bare).path[1] = "anthropic" /\ Alias(id).path[1] = "anthropic"
      BY <1>0, <2>1, AliasName
    <3>2. Alias(bare) # id /\ Alias(id) # id
      BY <2>1, <2>3, <3>1 DEF Survives
    <3> DEFINE a == id.at
               b == bare.at
    <3>3. [bare EXCEPT !.at = a] = id
      BY <1>0, <2>1, ChannelChange
    <3>4. [Alias(bare) EXCEPT !.at = a] = Alias(id)
      <4> HIDE DEF a
      <4>1. [Alias(bare) EXCEPT !.at = a] = Alias([bare EXCEPT !.at = a])
        BY <2>1, AliasName
      <4> QED BY <3>3, <4>1
    <3>5. Resolve(Alias(bare)) = None /\ Resolve(Alias(id)) = None
      BY <2>3, <3>2, <3>4
    <3>6. [Alias(bare) EXCEPT !.at = Front(@)] = Alias(id)
      <4>1. Front(Alias(bare).at) = a
        <5>1. [bare EXCEPT !.at = Front(bare.at)] = id
          BY <2>1
        <5>2. bare = [path |-> bare.path, at |-> b]
          BY <2>1 DEF Spelling
        <5>3. Front(b) = a
          BY <5>1, <5>2
        <5> QED BY <3>1, <5>3
      <4> QED BY <3>4, <4>1
    <3>7. SplitChannel(Alias(bare)) = [base |-> Alias(id), channel |-> channel]
      <4>1. Alias(bare).at # << >> /\ Last(Alias(bare).at) = channel
        BY <2>1, <3>1
      <4> QED BY <1>3, <3>5, <3>6, <4>1, SplitChannelled
    <3>8. Canonicalise(Alias(id)) = id
      BY <1>0, <3>5, CanonAlias
    <3>9. Normalise(Alias(bare)) = [kind |-> "name", model |-> Canonicalise(Alias(id)), channel |-> channel]
      <4>1. channel # "" /\ Resolve(Canonicalise(Alias(id))) # None =>
               channel \in Accepts[models[Resolve(Canonicalise(Alias(id)))].provider]
        BY <2>a, <3>8
      <4> QED BY <3>7, <4>1, NormaliseIs, Zenon
    <3> QED BY <2>3, <3>8, <3>9
  <2> QED BY <2>2, <2>3
<1> QED BY <1>1, <1>2, <1>3

LEMMA ConcreteKept ==
    ASSUME RoutingInv, NEW e \in Listed(Concrete), e.honoured, ~ Below(e.id), Unclaimed(e),
           ~ (e.id.at # << >> /\ e.name = Alias(e.id))
    PROVE  /\ SentBack(e).kind = "decided" /\ SentBack(e).model = e.id
           /\ Normalise(e.name).channel = e.channel
<1>1. PICK c \in Concrete : e = c \/ (e = [c EXCEPT !.name = Alias(c.name)] /\ ~ Survives(c.name))
  <2>1. e \in Concrete \/ e \in Twins(Concrete)
    BY DEF Listed
  <2>2. e \in Twins(Concrete) => \E c \in Concrete : e = [c EXCEPT !.name = Alias(c.name)] /\ ~ Survives(c.name)
    BY DEF Twins
  <2> QED BY <2>1, <2>2
<1>2. PICK o \in Offered : c \in ConcreteEntries(o)
  BY DEF Concrete
<1>3. PICK usable : o \in Entitled(usable)
  BY DEF Offered
<1>4. /\ o.id \in DOMAIN models /\ pressure # "exhausted"
      /\ o.honoured => route.mode # "managed"
      /\ o.honoured /\ ~ Below(o.id) =>
              (TierOf(o.id) = 0 => FloorRank <= 1) /\ (TierOf(o.id) # 0 => TierOf(o.id) >= FloorRank)
  BY <1>3, EntitledIs DEF RoutingInv
<1>5. /\ c.id = o.id /\ c.honoured = o.honoured
      /\ DOMAIN c = {"name", "id", "rank", "channel", "honoured"}
      /\ \/ c.name = o.id /\ c.channel = ""
         \/ /\ c.channel \in {"api", "sub"} /\ c.channel \in Accepts[models[o.id].provider]
            /\ c.name = [o.id EXCEPT !.at = Append(@, c.channel)]
  BY <1>2, <1>4, ConcreteName
<1>6. /\ e.id = o.id /\ e.honoured = o.honoured /\ e.channel = c.channel
      /\ e.name = c.name \/ (e.name = Alias(c.name) /\ ~ Survives(c.name))
  <2> DEFINE al == Alias(c.name)
  <2> HIDE DEF al
  <2>1. e = c \/ (e = [c EXCEPT !.name = al] /\ ~ Survives(c.name))
    BY <1>1 DEF al
  <2>2. e.id = c.id /\ e.honoured = c.honoured /\ e.channel = c.channel
        /\ (e.name = c.name \/ (e.name = al /\ ~ Survives(c.name)))
    BY <1>5, <2>1
  <2> QED BY <1>5, <2>2 DEF al
<1>7. \A n \in {e.name, [e.name EXCEPT !.at = o.id.at]} : n = o.id \/ Resolve(n) = None
  BY <1>6 DEF Unclaimed
<1>8. Normalise(e.name) = [kind |-> "name", model |-> o.id, channel |-> e.channel]
  <2> DEFINE id == o.id
             bare == c.name
             name == e.name
             channel == c.channel
  <2>1. /\ id \in DOMAIN models
        /\ \/ bare = id /\ channel = ""
           \/ channel \in {"api", "sub"} /\ channel \in Accepts[models[id].provider]
              /\ bare = [id EXCEPT !.at = Append(@, channel)]
        /\ name = bare \/ (name = Alias(bare) /\ ~ Survives(bare))
        /\ \A n \in {name, [name EXCEPT !.at = id.at]} : n = id \/ Resolve(n) = None
        /\ ~ (id.at # << >> /\ name = Alias(id))
    BY <1>4, <1>5, <1>6, <1>7
  <2> HIDE DEF id, bare, name, channel
  <2>2. Normalise(name) = [kind |-> "name", model |-> id, channel |-> channel]
    BY <2>1, ConcreteNormal
  <2> QED BY <1>6, <2>2 DEF id, name, channel
<1>9. Normalise(e.name).kind = "name" /\ Normalise(e.name).model = o.id /\ Normalise(e.name).channel = e.channel
  BY <1>8
<1>10. Answer(e.name, "", Small).kind = "decided" /\ Answer(e.name, "", Small).model = o.id
  <2> DEFINE id == o.id
             name == e.name
  <2>1. /\ id \in DOMAIN models /\ Normalise(name).kind = "name" /\ Normalise(name).model = id
        /\ pressure # "exhausted" /\ route.mode # "managed"
        /\ TierOf(id) = 0 => FloorRank <= 1
        /\ TierOf(id) # 0 => TierOf(id) >= FloorRank
    <3>1. o.honoured
      BY <1>6, Zenon
    <3>2. ~ Below(o.id)
      BY <1>6, Zenon
    <3>3. id \in DOMAIN models /\ Normalise(name).kind = "name" /\ Normalise(name).model = id
      BY <1>4, <1>9
    <3>4. pressure # "exhausted" /\ route.mode # "managed"
      BY <1>4, <3>1
    <3>5. TierOf(id) = 0 => FloorRank <= 1
      BY <1>4, <3>1, <3>2
    <3>6. TierOf(id) # 0 => TierOf(id) >= FloorRank
      BY <1>4, <3>1, <3>2
    <3> QED BY <3>3, <3>4, <3>5, <3>6
  <2>2. LadderOK /\ CatalogOK
    BY DEF RoutingInv
  <2> HIDE DEF id, name
  <2>3. Answer(name, "", Small).kind = "decided" /\ Answer(name, "", Small).model = id
    BY <2>1, <2>2, PassedThrough
  <2> QED BY <2>3 DEF id, name
<1> QED BY <1>6, <1>9, <1>10 DEF SentBack

(* A rung asked for by its name, where the listing has it and it has a     *)
(* model for the request, is the rung decided onto.                        *)
LEMMA RungAsked ==
    ASSUME LadderOK, NEW r \in VirtualNames, OwnName(r), NEW name, NEW asked,
           asked.path = <<"oag", Ladder[r].name>>,
           Normalise(name).kind = "name", Normalise(name).model = asked, Pick(r, Need(Small)) # None
    PROVE  Answer(name, "", Small).kind = "decided" /\ Answer(name, "", Small).rank = r
<1> DEFINE nm == Ladder[r].name
           L == Len(Ladder)
           sig == [Small EXCEPT !.tier = nm]
           b == Baseline(ServedModels, Need(sig))
<1>0. L \in Nat \ {0} /\ DOMAIN Ladder = 1 .. L /\ FloorRank \in 0 .. L
  BY LadderIs, FloorIs
<1>1. /\ pressure # "exhausted" /\ r \in 1 .. L /\ r >= FloorRank
      /\ pressure = "constrained" => r <= ClampToFloor(1)
  BY <1>0 DEF VirtualNames
<1>2. Rank(nm) = r /\ nm # "" /\ nm # "auto"
  BY DEF OwnName
<1> HIDE DEF nm
<1>3. asked.path[1] = "oag" /\ asked.path[2] = nm
  BY DEF nm
<1>4. Virtual(asked) /\ ExplicitTier("", asked) = nm
  <2>1. r # 0
    BY <1>1
  <2>2. Virtual(asked)
    BY <1>3 DEF Virtual
  <2>3. ExplicitTier("", asked) = IF asked.path[2] # "auto" /\ Rank(asked.path[2]) # 0 THEN asked.path[2] ELSE ""
    BY <2>2 DEF ExplicitTier
  <2>4. asked.path[2] # "auto" /\ Rank(asked.path[2]) # 0
    BY <1>2, <1>3, <2>1, Zenon
  <2> QED BY <1>3, <2>2, <2>3, <2>4, Zenon
<1>5. sig.tier = nm /\ Need(sig) = Need(Small)
  BY DEF Small, Need
<1> HIDE DEF sig, b
<1>6. Classify(sig) = nm
  BY <1>2, <1>5 DEF Classify
<1>7. ClampToFloor(r) = r /\ ClampToFloor(1) \in 1 .. L
  BY <1>0, <1>1, FloorIs
<1>8. DecideManaged(sig, b) = ResolveFrom(r, "classified", Need(sig), b)
  <2>1. ~ (pressure = "constrained" /\ ClampToFloor(1) < r)
    BY <1>0, <1>1, <1>7
  <2>2. r # 0
    BY <1>1
  <2> QED BY <1>2, <1>6, <1>7, <2>1, <2>2 DEF DecideManaged
<1>9. ResolveFrom(r, "classified", Need(sig), b).kind = "decided" /\ ResolveFrom(r, "classified", Need(sig), b).rank = r
  <2> DEFINE n == Need(sig)
             d == ResolveFrom(r, "classified", n, b)
  <2>1. Pick(r, n) # None /\ r \in r .. L
    BY <1>0, <1>1, <1>5
  <2> HIDE DEF n
  <2>2. \/ /\ \A q \in r .. L : Pick(q, n) = None
           /\ d = Refused("no_viable_model")
        \/ \E t \in r .. L :
              /\ Pick(t, n) # None /\ \A q \in r .. t - 1 : Pick(q, n) = None
              /\ d = Decided(Pick(t, n), t, "classified", IF t = r THEN 0 ELSE r, b)
    BY <1>1, ResolveFromIs
  <2> HIDE DEF d
  <2>3. PICK t \in r .. L : /\ \A q \in r .. t - 1 : Pick(q, n) = None
                            /\ d = Decided(Pick(t, n), t, "classified", IF t = r THEN 0 ELSE r, b)
    BY <2>1, <2>2
  <2>4. t = r
    BY <1>0, <1>1, <2>1, <2>3
  <2>5. d = Decided(Pick(r, n), r, "classified", 0, b)
    BY <2>3, <2>4
  <2>6. d.kind = "decided" /\ d.rank = r
    BY <2>5 DEF Decided
  <2> QED BY <2>6 DEF d, n
<1> DEFINE made == Decide("managed", asked, sig, ServedModels)
<1>10. made = DecideManaged(sig, b)
  BY <1>1 DEF Decide, b
<1>11. Plan(asked, "", Small) =
         IF made.kind = "refused" /\ made.why = "no_viable_model" THEN Refused(Explanation(asked)) ELSE made
  BY <1>4 DEF Plan, sig
<1>12. Answer(name, "", Small) = Plan(asked, "", Small)
  BY DEF Answer
<1> HIDE DEF made
<1> QED BY <1>8, <1>9, <1>10, <1>11, <1>12

LEMMA VirtualKept ==
    ASSUME RoutingInv, NEW e \in Listed(VirtualEntries), e.rank # 0, OwnName(e.rank),
           Virtual(e.name) \/ Resolve(e.name) = None, Pick(e.rank, Need(Small)) # None
    PROVE  SentBack(e).kind = "decided" /\ SentBack(e).rank = e.rank
<1>1. PICK c \in VirtualEntries : e = c \/ (e = [c EXCEPT !.name = Alias(c.name)] /\ ~ Survives(c.name))
  <2>1. e \in VirtualEntries \/ e \in Twins(VirtualEntries)
    BY DEF Listed
  <2>2. e \in Twins(VirtualEntries) => \E c \in VirtualEntries : e = [c EXCEPT !.name = Alias(c.name)] /\ ~ Survives(c.name)
    BY DEF Twins
  <2> QED BY <2>1, <2>2
<1>2. /\ DOMAIN c = {"name", "id", "rank", "channel", "honoured"}
      /\ \/ c.rank = 0
         \/ c.rank \in VirtualNames /\ c.name = Plain(<<"oag", Ladder[c.rank].name>>)
  <2>1. CASE \E r \in VirtualNames : c = Entry(Plain(<<"oag", Ladder[r].name>>), PinnedModel(r), r, "", TRUE)
    <3>1. PICK r \in VirtualNames : c = Entry(Plain(<<"oag", Ladder[r].name>>), PinnedModel(r), r, "", TRUE)
      BY <2>1
    <3> DEFINE n == Plain(<<"oag", Ladder[r].name>>)
    <3>2. c = Entry(n, PinnedModel(r), r, "", TRUE)
      BY <3>1
    <3> HIDE DEF n
    <3>3. c.rank = r /\ c.name = n /\ DOMAIN c = {"name", "id", "rank", "channel", "honoured"}
      BY <3>2 DEF Entry
    <3> QED BY <3>3 DEF n
  <2>2. CASE c = Entry(Plain(<<"oag", "auto">>), PinnedModel(0), 0, "", TRUE)
    <3> DEFINE n == Plain(<<"oag", "auto">>)
    <3>1. c = Entry(n, PinnedModel(0), 0, "", TRUE)
      BY <2>2
    <3> HIDE DEF n
    <3> QED BY <3>1 DEF Entry
  <2> QED BY <2>1, <2>2 DEF VirtualEntries
<1>3. e.rank = c.rank /\ (e.name = c.name \/ e.name = Alias(c.name))
  <2> DEFINE al == Alias(c.name)
  <2> HIDE DEF al
  <2>1. e = c \/ e = [c EXCEPT !.name = al]
    BY <1>1 DEF al
  <2>2. e.rank = c.rank /\ (e.name = c.name \/ e.name = al)
    BY <1>2, <2>1
  <2> QED BY <2>2 DEF al
<1> DEFINE r == e.rank
           nm == Ladder[r].name
           p == <<"oag", nm>>
           n == Plain(p)
           name == e.name
<1>4. r \in VirtualNames /\ c.name = n
  BY <1>2, <1>3
<1>5. n.path = p /\ n.at = << >> /\ n = [path |-> p, at |-> << >>]
  <2> HIDE DEF p
  <2> QED BY DEF Plain
<1>6. nm \in STRING
  <2>1. r \in DOMAIN Ladder
    BY <1>4 DEF VirtualNames
  <2> QED BY <2>1, LadderIs DEF RoutingInv
<1>7. p[1] = "oag" /\ p \in Seq(Word) /\ p # << >>
  <2> HIDE DEF nm
  <2>1. "oag" \in Word /\ nm \in Word
    BY <1>6 DEF Word
  <2>2. ASSUME NEW S, NEW x \in S, NEW y \in S PROVE <<x, y>> \in Seq(S) /\ <<x, y>>[1] = x /\ <<x, y>> # << >>
    OBVIOUS
  <2> QED BY <2>1, <2>2
<1> HIDE DEF n, p, name
<1>8. n \in Spelling /\ Virtual(n) /\ Known(n)
  BY <1>5, <1>7 DEF Spelling, Virtual, Known
<1>9. Normalise(name).kind = "name" /\ Normalise(name).model = n
  <2>1. CASE name = n
    <3>1. SplitChannel(n) = [base |-> n, channel |-> ""]
      BY <1>5, SplitBare
    <3>2. Canonicalise(n) = n
      BY <1>8, CanonKnown
    <3>3. Normalise(n) = [kind |-> "name", model |-> Canonicalise(n), channel |-> ""]
      BY <3>1, NormaliseIs
    <3>4. Normalise(n) = [kind |-> "name", model |-> n, channel |-> ""]
      BY <3>2, <3>3
    <3>5. Normalise(n).kind = "name" /\ Normalise(n).model = n
      BY <3>4, NormalIs, Zenon
    <3> QED BY <2>1, <3>5
  <2>2. CASE name = Alias(n)
    <3>1. Alias(n).at = << >> /\ Alias(n).path[1] = "anthropic"
      BY <1>5, <1>8, AliasName
    <3>2. ~ Virtual(Alias(n))
      BY <3>1 DEF Virtual
    <3>3. Resolve(Alias(n)) = None
      BY <2>2, <3>2 DEF name
    <3>4. SplitChannel(Alias(n)) = [base |-> Alias(n), channel |-> ""]
      BY <3>1, SplitBare
    <3>5. Canonicalise(Alias(n)) = n
      BY <1>8, <3>3, CanonAlias
    <3>6. Normalise(Alias(n)) = [kind |-> "name", model |-> Canonicalise(Alias(n)), channel |-> ""]
      BY <3>4, NormaliseIs
    <3>7. Normalise(Alias(n)) = [kind |-> "name", model |-> n, channel |-> ""]
      BY <3>5, <3>6
    <3>8. Normalise(Alias(n)).kind = "name" /\ Normalise(Alias(n)).model = n
      BY <3>7, NormalIs, Zenon
    <3> QED BY <2>2, <3>8
  <2> QED BY <1>3, <1>4, <2>1, <2>2 DEF name
<1>10. LadderOK /\ OwnName(r) /\ n.path = <<"oag", Ladder[r].name>> /\ Pick(r, Need(Small)) # None
  BY <1>5 DEF p, RoutingInv
<1> HIDE DEF r
<1>11. Answer(name, "", Small).kind = "decided" /\ Answer(name, "", Small).rank = r
  BY <1>4, <1>9, <1>10, RungAsked
<1> QED BY <1>11 DEF SentBack, name, r

(* A name means what the catalog says or nothing, whatever was inserted    *)
(* under it before, and a name out of the listing can be asked for.        *)
THEOREM NamesAreKept == RoutingSpec => []NamesHold
<1>1. RoutingInv => NamesHold
  <2> SUFFICES ASSUME RoutingInv PROVE NamesHold
    OBVIOUS
  <2>1. NamesUnguessed
    BY CatalogNames DEF RoutingInv
  <2>2. ListedIsKept
    BY ConcreteKept, VirtualKept DEF ListedIsKept
  <2> QED BY <2>1, <2>2 DEF NamesHold
<1> QED BY <1>1, RoutingInvHolds, PTL
=============================================================================
