-------------------------- MODULE SelectionProofs --------------------------
(***************************************************************************)
(* What a search leases and what it answers when it leases nothing, for    *)
(* any number of searches and credentials, any limits, tiers and windows,  *)
(* and any interleaving of them with the fleet.                            *)
(***************************************************************************)
EXTENDS Selection, FiniteSetTheorems, WellFoundedInduction, TLAPS

(* Every better credential the caller could have was seen full or broken.  *)
Tiered(r) ==
    \A b \in Could(r) : Priority[b] < Priority[chosen[r]] => b \in unfit[r]

(* What a search knows at each await: the credentials it no longer looks   *)
(* at were unfit, the one it is about to claim is allowed and of the best  *)
(* tier, and where it is about to give up everything was unfit.            *)
SearchOK(r) ==
    /\ live[r] \subseteq rows[r]
    /\ remaining[r] \subseteq rows[r] \ excluded[r]
    /\ pc[r] \in Awaits => Could(r) \ remaining[r] \subseteq unfit[r]
    /\ pc[r] \in {"pin", "pin_count", "pin_claim"} => excluded[r] = {}
    /\ pc[r] = "pin_count" => chosen[r] \in rows[r]
    /\ pc[r] = "pin_claim" => chosen[r] \in live[r]
    /\ pc[r] = "recount" => Could(r) \subseteq unfit[r]
    /\ pc[r] \in {"claim", "ghost_claim", "set_pin"} => chosen[r] \in Could(r) /\ Tiered(r)
    /\ pc[r] \in {"probe", "ghost_claim"} => remaining[r] = {}
    /\ result[r] # None => pc[r] \in {"leased", "refused"}
    /\ result[r] \in {"Pinned", "Cascaded"} => chosen[r] \in Could(r)
    /\ result[r] = "Cascaded" => Tiered(r)
    /\ result[r] \in Nothings \cup {"AtCapacity"} => Could(r) \subseteq unfit[r]

IInv == TypeOK /\ \A r \in Requests : SearchOK(r)

(* A step leaves the locals of the other searches alone.                   *)
Same(q) ==
    /\ pc'[q] = pc[q] /\ result'[q] = result[q] /\ chosen'[q] = chosen[q]
    /\ rows'[q] = rows[q] /\ live'[q] = live[q] /\ excluded'[q] = excluded[q]
    /\ remaining'[q] = remaining[q]

-----------------------------------------------------------------------------
(* The cascade.                                                            *)

(* A set of naturals that is not empty has a least element.                *)
LEMMA NatMin ==
    ASSUME NEW T, T \subseteq Nat, T # {}
    PROVE  \E x \in T : \A y \in T : x <= y
<1> DEFINE R == {ss \in Nat \X Nat : ss[1] < ss[2]}
<1>1. IsWellFoundedOn(R, Nat) BY NatLessThanWellFounded DEF OpToRel
<1>2. PICK x \in T : \A y \in T : ~(<<y, x>> \in R) BY <1>1, WFMin
<1>3. \A y \in T : ~(y < x) BY <1>2
<1> QED BY <1>3

(* So a stage of the cascade never empties the pool it is given.           *)
LEMMA LeastExists ==
    ASSUME NEW A, NEW f \in [A -> Nat], NEW S, S \subseteq A, S # {}
    PROVE  Least(S, f) # {}
<1> DEFINE T == {f[a] : a \in S}
<1>1. T \subseteq Nat /\ T # {} OBVIOUS
<1>2. PICK x \in T : \A y \in T : x <= y BY <1>1, NatMin
<1>3. PICK a \in S : f[a] = x BY <1>2
<1> QED BY <1>2, <1>3 DEF Least

(* What select returns has room by the counts, and no candidate with room  *)
(* is of a better tier.                                                    *)
LEMMA SelectBest ==
    ASSUME NEW count \in [Accounts -> Nat], NEW S, S \subseteq Accounts,
           NEW a \in select(count, S)
    PROVE  /\ a \in S /\ count[a] < Limit[a]
           /\ \A b \in S : count[b] < Limit[b] => Priority[a] <= Priority[b]
<1>1. a \in pool(count, S) BY DEF select, Least
<1>2. pool(count, S) \subseteq least_loaded(count, S) BY DEF pool, expiring, Least
<1>3. least_loaded(count, S) \subseteq tier(count, S) BY DEF least_loaded, Least
<1>4. a \in tier(count, S) BY <1>1, <1>2, <1>3
<1> QED BY <1>4 DEF tier, eligible, Least

(* And select (schedule.rs) returns nothing only where every candidate is  *)
(* full by the counts.                                                     *)
THEOREM SelectNothing ==
    ASSUME NEW count \in [Accounts -> Nat], NEW S, S \subseteq Accounts,
           select(count, S) = {}
    PROVE  \A a \in S : ~(count[a] < Limit[a])
<1> USE SelectionAssumption
<1> SUFFICES ASSUME eligible(count, S) # {} PROVE FALSE BY DEF eligible
<1>1. eligible(count, S) \subseteq Accounts BY DEF eligible
<1>2. tier(count, S) # {} BY <1>1, LeastExists DEF tier
<1>3. tier(count, S) \subseteq eligible(count, S) BY DEF tier, Least
<1>4. load_bp(count, tier(count, S)) \in [tier(count, S) -> Nat]
  <2> SUFFICES ASSUME NEW b \in tier(count, S)
               PROVE  (count[b] * 10000) \div Limit[b] \in Nat
    BY DEF load_bp
  <2>1. count[b] \in Nat /\ Limit[b] \in Nat /\ Limit[b] > 0 BY <1>1, <1>3 DEF eligible
  <2>2. count[b] * 10000 \in Nat BY <2>1
  <2> QED BY <2>1, <2>2
<1>5. least_loaded(count, S) # {} BY <1>2, <1>4, LeastExists DEF least_loaded
<1>6. least_loaded(count, S) \subseteq Accounts BY <1>1, <1>3 DEF least_loaded, Least
<1>7. pool(count, S) # {} BY <1>5 DEF pool
<1>8. pool(count, S) \subseteq Accounts BY <1>6 DEF pool, expiring, Least
<1> QED BY <1>7, <1>8, LeastExists DEF select

(* A count is a natural number, and one that says full is right: the zeros *)
(* of a degraded read never do.                                            *)
LEMMA CountsAreNat ==
    ASSUME TypeOK, NEW count \in Counts
    PROVE  /\ count \in [Accounts -> Nat]
           /\ \A a \in Accounts : Limit[a] > 0 /\ ~(count[a] < Limit[a]) => Full(a)
<1>1. ASSUME NEW a \in Accounts PROVE InUse(a) \in Nat
  <2>1. IsFiniteSet(Requests \cup {Elsewhere}) BY SelectionAssumption, FS_AddElement
  <2>2. IsFiniteSet(taken[a]) BY <2>1, FS_Subset DEF TypeOK
  <2> QED BY <2>2, FS_CardinalityType DEF InUse
<1> QED BY <1>1, SelectionAssumption DEF Counts, Full

-----------------------------------------------------------------------------
(* One search at a time.                                                   *)

(* What is unfit before a step is in the history of every search after it. *)
LEMMA Observed ==
    ASSUME TypeOK, Observe, NEW q \in Requests
    PROVE  /\ pc'[q] \notin {"idle", "over"} => unfit[q] \subseteq unfit'[q]
           /\ pc'[q] \notin {"idle", "over"} /\ pc[q] \in Awaits \cup {"idle"}
                => Unfit \subseteq unfit'[q]
           /\ unfit' \in [Requests -> SUBSET Accounts]
<1>1. unfit'[q] = IF pc'[q] \in {"idle", "over"} THEN {}
                  ELSE IF pc[q] = "idle" \/ pc[q] \in Awaits THEN unfit[q] \cup Unfit
                  ELSE unfit[q]
    BY DEF Observe
<1>2. unfit' \in [Requests -> SUBSET Accounts]
    BY DEF Observe, Unfit, TypeOK
<1> QED BY <1>1, <1>2

(* A search whose locals do not change stays as it is.                     *)
LEMMA Frame ==
    ASSUME TypeOK, Observe, NEW q \in Requests, SearchOK(q), Same(q)
    PROVE  SearchOK(q)'
<1>1. CASE pc[q] \in {"idle", "over"}
    BY <1>1, SelectionAssumption DEF SearchOK, Same, Could, Tiered, Awaits, Nothings, Outcomes
<1>2. CASE pc[q] \notin {"idle", "over"}
  <2>1. unfit[q] \subseteq unfit'[q] BY <1>2, Observed DEF Same
  <2> QED BY <2>1 DEF SearchOK, Same, Could, Tiered
<1> QED BY <1>1, <1>2

(* A future that is over knows nothing.                                    *)
LEMMA EndsKeeps ==
    ASSUME TypeOK, NEW r \in Requests, Ends(r), Observe
    PROVE  SearchOK(r)'
BY SelectionAssumption
   DEF TypeOK, Ends, Goes, SearchOK, Could, Tiered, Awaits, Nothings, Outcomes

(* The rows are read, or none of them can be used.                         *)
LEMMA BeginKeeps ==
    ASSUME TypeOK, NEW r \in Requests, SearchOK(r), Begin(r)
    PROVE  SearchOK(r)'
<1> USE SelectionAssumption
<1>1. PICK ask \in Asks :
        LET S == candidates(r, ask.channel)
            X == ask.excluded
            x == Nothing(S, ask.channel)
        IN  /\ excluded' = [excluded EXCEPT ![r] = X]
            /\ rows' = [rows EXCEPT ![r] = S]
            /\ live' = [live EXCEPT ![r] = {a \in S : status[a] = "live"}]
            /\ remaining' = [remaining EXCEPT ![r] = S \ X]
            /\ \/ Refuses(r, "Internal")
               \/ S \ X = {} /\ Refuses(r, x)
               \/ /\ S \ X # {}
                  /\ Goes(r, IF X = {} THEN "pin" ELSE "count")
                  /\ UNCHANGED result
    BY DEF Begin
<1> DEFINE S == candidates(r, ask.channel)
<1> DEFINE X == ask.excluded
<1>2. /\ excluded'[r] = X /\ rows'[r] = S /\ remaining'[r] = S \ X
      /\ live'[r] = {a \in S : status[a] = "live"}
    BY <1>1 DEF TypeOK
<1>3. result[r] = None BY DEF Begin, SearchOK
<1>4. CASE Refuses(r, "Internal")
    BY <1>2, <1>4 DEF TypeOK, Refuses, Goes, Answers, SearchOK, Could, Tiered, Awaits, Nothings
<1>5. CASE S \ X = {} /\ Refuses(r, Nothing(S, ask.channel))
  <2>1. pc'[r] = "refused" /\ result'[r] \in Nothings
    BY <1>5 DEF TypeOK, Refuses, Goes, Answers, Nothing, Nothings
  <2>2. live'[r] \ excluded'[r] = {} BY <1>2, <1>5
  <2> QED BY <1>2, <2>1, <2>2 DEF SearchOK, Could, Tiered, Awaits, Nothings
<1>6. CASE Goes(r, IF X = {} THEN "pin" ELSE "count") /\ UNCHANGED result
  <2>1. pc'[r] = (IF X = {} THEN "pin" ELSE "count") /\ result'[r] = None
    BY <1>3, <1>6 DEF TypeOK, Goes
  <2> QED BY <1>2, <2>1 DEF SearchOK, Could, Tiered, Awaits, Nothings, Outcomes
<1> QED BY <1>1, <1>4, <1>5, <1>6

(* The pin is used only where it is one of the rows, and live.             *)
LEMMA PinKeeps ==
    ASSUME TypeOK, NEW r \in Requests, SearchOK(r), ReadPin(r) \/ CountPin(r) \/ ClaimPin(r)
    PROVE  SearchOK(r)'
<1> USE SelectionAssumption
<1>0. pc[r] \in Awaits /\ result[r] = None BY DEF SearchOK, ReadPin, CountPin, ClaimPin, Awaits
<1>1. pc'[r] \notin {"idle", "over"}
    BY DEF TypeOK, ReadPin, CountPin, ClaimPin, Goes, Leases, Awaits
<1>2. unfit[r] \subseteq unfit'[r]
    BY <1>1, Observed DEF ReadPin, CountPin, ClaimPin
<1>3. UNCHANGED <<search, remaining>> BY DEF ReadPin, CountPin, ClaimPin
<1>4. CASE ReadPin(r)
  <2>1. \/ pc'[r] = "pin_count" /\ chosen'[r] \in rows[r]
        \/ pc'[r] = "count"
    BY <1>4 DEF TypeOK, ReadPin, Goes, Chooses
  <2>2. result'[r] = None /\ excluded[r] = {} BY <1>0, <1>4 DEF ReadPin, SearchOK
  <2> QED BY <1>0, <1>2, <1>3, <2>1, <2>2
         DEF SearchOK, Could, Tiered, Awaits, Nothings, Outcomes, search
<1>5. CASE CountPin(r)
  <2>1. \/ pc'[r] = "pin_claim" /\ chosen[r] \in live[r]
        \/ pc'[r] = "count"
    BY <1>5 DEF TypeOK, CountPin, Goes, Open
  <2>2. result'[r] = None /\ excluded[r] = {} /\ chosen' = chosen
    BY <1>0, <1>5 DEF CountPin, SearchOK
  <2> QED BY <1>0, <1>2, <1>3, <2>1, <2>2
         DEF SearchOK, Could, Tiered, Awaits, Nothings, Outcomes, search
<1>6. CASE ClaimPin(r)
  <2>1. \/ pc'[r] = "leased" /\ result'[r] = "Pinned"
        \/ pc'[r] = "count" /\ result'[r] = None
    BY <1>0, <1>6 DEF TypeOK, ClaimPin, Goes, Leases, Answers
  <2>2. chosen' = chosen /\ excluded[r] = {} /\ chosen[r] \in live[r]
    BY <1>6 DEF ClaimPin, SearchOK
  <2> QED BY <1>0, <1>2, <1>3, <2>1, <2>2
         DEF SearchOK, Could, Tiered, Awaits, Nothings, Outcomes, search
<1> QED BY <1>4, <1>5, <1>6

(* A snapshot with nothing to select shows every credential the search     *)
(* still looks at full or broken; one that selects has no better tier open.*)
LEMMA CountKeeps ==
    ASSUME TypeOK, NEW r \in Requests, SearchOK(r), Count(r)
    PROVE  SearchOK(r)'
<1> USE SelectionAssumption
<1>0. pc[r] \in Awaits /\ result[r] = None BY DEF SearchOK, Count, Awaits
<1>1. UNCHANGED <<search, remaining>> BY DEF Count
<1> DEFINE S == Candidates(r, remaining[r])
<1>2. PICK count \in Counts :
        \/ \E a \in select(count, S) : Chooses(r, a) /\ Goes(r, "claim") /\ UNCHANGED <<counted, result>>
        \/ /\ select(count, S) = {}
           /\ UNCHANGED chosen
           /\ \/ S = {} /\ Refuses(r, none_left[r]) /\ UNCHANGED counted
              \/ /\ S # {} /\ ~ghost[r]
                 /\ counted' = [counted EXCEPT ![r] = S]
                 /\ Goes(r, "recount")
                 /\ UNCHANGED result
              \/ S # {} /\ ghost[r] /\ Refuses(r, "AtCapacity") /\ UNCHANGED counted
    BY DEF Count
<1>3. /\ count \in [Accounts -> Nat]
      /\ \A a \in Accounts : Limit[a] > 0 /\ ~(count[a] < Limit[a]) => Full(a)
    BY CountsAreNat
<1>4. S \subseteq Accounts /\ S \subseteq remaining[r] /\ S \subseteq live[r]
    BY DEF Candidates, TypeOK
<1>5. pc'[r] \notin {"idle", "over"}
    BY <1>2 DEF TypeOK, Goes, Refuses
<1>6. unfit[r] \subseteq unfit'[r] /\ Unfit \subseteq unfit'[r]
    BY <1>0, <1>5, Observed DEF Count
<1>7. \A b \in Could(r) \ S : b \in unfit'[r]
  <2> SUFFICES ASSUME NEW b \in Could(r) \ S, b \notin unfit[r] PROVE b \in Unfit
    BY <1>6
  <2>1. b \in remaining[r] /\ b \in live[r] /\ b \in Accounts
    BY <1>0 DEF SearchOK, Could, TypeOK
  <2>2. ~permits[b] \/ Limit[b] = 0 BY <2>1 DEF Candidates
  <2>3. InUse(b) \in Nat
    <3>1. IsFiniteSet(Requests \cup {Elsewhere}) BY FS_AddElement
    <3>2. IsFiniteSet(taken[b]) BY <2>1, <3>1, FS_Subset DEF TypeOK
    <3> QED BY <3>2, FS_CardinalityType DEF InUse
  <2> QED BY <2>1, <2>2, <2>3 DEF Unfit, Full
<1>8. CASE \E a \in select(count, S) : Chooses(r, a) /\ Goes(r, "claim") /\ UNCHANGED <<counted, result>>
  <2>1. PICK a \in select(count, S) : Chooses(r, a) /\ Goes(r, "claim") /\ UNCHANGED result
    BY <1>8
  <2>2. /\ a \in S /\ count[a] < Limit[a]
        /\ \A b \in S : count[b] < Limit[b] => Priority[a] <= Priority[b]
    BY <1>3, <1>4, SelectBest
  <2>3. pc'[r] = "claim" /\ chosen'[r] = a /\ result'[r] = None
    BY <1>0, <2>1 DEF TypeOK, Goes, Chooses
  <2>4. \A b \in Could(r) : Priority[b] < Priority[a] => b \in unfit'[r]
    <3> SUFFICES ASSUME NEW b \in Could(r), Priority[b] < Priority[a], b \in S
                 PROVE  b \in unfit'[r]
      BY <1>7
    <3>1. a \in Accounts /\ b \in Accounts /\ Limit[b] > 0 BY <1>4, <2>2 DEF Candidates
    <3>2. Full(b) BY <1>3, <2>2, <3>1
    <3> QED BY <1>6, <3>1, <3>2 DEF Unfit
  <2>5. a \in Could(r) BY <1>4, <2>2 DEF SearchOK, Could
  <2>6. Could(r)' = Could(r) BY <1>1 DEF Could, search
  <2>7. Tiered(r)' /\ chosen'[r] \in Could(r)' BY <2>3, <2>4, <2>5, <2>6 DEF Tiered
  <2> QED BY <1>0, <1>1, <1>6, <2>3, <2>6, <2>7 DEF SearchOK, Awaits, Nothings, Outcomes, search
<1>9. CASE select(count, S) = {}
  <2>1. \A a \in S : ~(count[a] < Limit[a]) BY <1>3, <1>4, <1>9, SelectNothing
  <2>2. \A a \in S : a \in Unfit
    BY <1>3, <1>4, <2>1 DEF Unfit, Candidates
  <2>3. Could(r) \subseteq unfit'[r] BY <1>6, <1>7, <2>2
  <2>4. Could(r)' = Could(r) BY <1>1 DEF Could, search
  <2>5. \/ pc'[r] = "recount" /\ result'[r] = None
        \/ pc'[r] = "refused" /\ result'[r] \in Nothings \cup {"AtCapacity"}
    BY <1>0, <1>2, <1>9 DEF TypeOK, Goes, Refuses, Answers
  <2> QED BY <1>1, <2>3, <2>4, <2>5 DEF SearchOK, Awaits, Nothings, Outcomes, search
<1> QED BY <1>2, <1>8, <1>9

(* The second look.                                                        *)
LEMMA RecountKeeps ==
    ASSUME TypeOK, NEW r \in Requests, SearchOK(r), Recount(r)
    PROVE  SearchOK(r)'
<1> USE SelectionAssumption
<1>1. UNCHANGED <<search, remaining>> /\ pc[r] = "recount" /\ result[r] = None
    BY DEF Recount, SearchOK
<1>2. \/ pc'[r] = "count" /\ result'[r] = None
      \/ pc'[r] = "refused" /\ result'[r] = "AtCapacity"
    BY <1>1 DEF TypeOK, Recount, Goes, Refuses, Answers
<1>3. unfit[r] \subseteq unfit'[r] BY <1>2, Observed DEF Recount
<1> QED BY <1>1, <1>2, <1>3 DEF SearchOK, Could, Tiered, Awaits, Nothings, Outcomes, search

(* A claim that is refused found its credential full.                      *)
LEMMA ClaimKeeps ==
    ASSUME TypeOK, NEW r \in Requests, SearchOK(r), Claim(r)
    PROVE  SearchOK(r)'
<1> USE SelectionAssumption
<1>1. UNCHANGED <<search, chosen>> /\ pc[r] = "claim" /\ result[r] = None /\ result'[r] = None
    BY DEF Claim, SearchOK
<1>2. \/ pc'[r] = "set_pin" /\ remaining'[r] = remaining[r]
      \/ /\ Full(chosen[r])
         /\ remaining'[r] = remaining[r] \ {chosen[r]}
         /\ pc'[r] = IF remaining'[r] = {} THEN "probe" ELSE "count"
    BY DEF TypeOK, Claim, Goes, Refused
<1>3. unfit[r] \subseteq unfit'[r] /\ Unfit \subseteq unfit'[r]
    BY <1>1, <1>2, Observed DEF Claim, Awaits
<1>4. Full(chosen[r]) => chosen[r] \in unfit'[r]
    BY <1>1, <1>3 DEF Unfit, SearchOK, Could, TypeOK
<1> QED BY <1>1, <1>2, <1>3, <1>4
        DEF SearchOK, Could, Tiered, Awaits, Nothings, Outcomes, search

(* The look for room once every claim is lost, and the claim after it.     *)
LEMMA ProbeKeeps ==
    ASSUME TypeOK, NEW r \in Requests, SearchOK(r), Probe(r) \/ ClaimGhost(r) \/ SetPin(r)
    PROVE  SearchOK(r)'
<1> USE SelectionAssumption
<1>1. UNCHANGED <<search, remaining>> /\ result[r] = None /\ pc[r] \in Awaits
    BY DEF Probe, ClaimGhost, SetPin, SearchOK, Awaits
<1>2. CASE Probe(r)
  <2>1. \/ /\ pc'[r] = "ghost_claim" /\ result'[r] = None
           /\ chosen'[r] \in rows[r] \ excluded[r] /\ chosen'[r] \in live[r]
        \/ pc'[r] = "refused" /\ result'[r] = "AtCapacity"
    BY <1>1, <1>2 DEF TypeOK, Probe, Open, Goes, Chooses, Refuses, Answers
  <2>2. unfit[r] \subseteq unfit'[r] BY <1>2, <2>1, Observed DEF Probe
  <2>3. remaining[r] = {} /\ Could(r) \subseteq unfit'[r]
    BY <1>1, <1>2, <2>2 DEF Probe, SearchOK
  <2> QED BY <1>1, <2>1, <2>3
        DEF SearchOK, Could, Tiered, Awaits, Nothings, Outcomes, search
<1>3. CASE ClaimGhost(r)
  <2>1. \/ pc'[r] = "set_pin" /\ result'[r] = None
        \/ pc'[r] = "refused" /\ result'[r] = "AtCapacity"
    BY <1>1, <1>3 DEF TypeOK, ClaimGhost, Goes, Refuses, Answers
  <2>2. unfit[r] \subseteq unfit'[r] /\ chosen' = chosen BY <1>3, <2>1, Observed DEF ClaimGhost
  <2>3. remaining[r] = {} /\ Could(r) \subseteq unfit'[r]
    BY <1>1, <1>3, <2>2 DEF ClaimGhost, SearchOK
  <2> QED BY <1>1, <1>3, <2>1, <2>2, <2>3
        DEF SearchOK, Could, Tiered, Awaits, Nothings, Outcomes, search, ClaimGhost
<1>4. CASE SetPin(r)
  <2>1. pc'[r] = "leased" /\ result'[r] = "Cascaded" /\ chosen' = chosen
    BY <1>4 DEF TypeOK, SetPin, Leases, Goes, Answers
  <2>2. unfit[r] \subseteq unfit'[r] BY <1>4, <2>1, Observed DEF SetPin
  <2> QED BY <1>1, <1>4, <2>1, <2>2
        DEF SearchOK, Could, Tiered, Awaits, Nothings, Outcomes, search, SetPin
<1> QED BY <1>2, <1>3, <1>4

-----------------------------------------------------------------------------
(* The invariant.                                                          *)

LEMMA InitEstablishes == Init => IInv
BY SelectionAssumption
   DEF Init, IInv, TypeOK, SearchOK, Could, Tiered, Awaits, Statuses, Nothings, Outcomes

(* The locals of the other searches are untouched by a step of one.        *)
LEMMA OthersSame ==
    ASSUME TypeOK, NEW r \in Requests, Act(r), NEW q \in Requests \ {r}
    PROVE  Same(q) /\ Observe
<1>1. CASE Begin(r)
    BY <1>1 DEF TypeOK, Begin, Goes, Refuses, Answers, Same
<1>2. CASE ReadPin(r) \/ CountPin(r) \/ ClaimPin(r)
    BY <1>2 DEF TypeOK, ReadPin, CountPin, ClaimPin, Goes, Leases, Answers, Chooses, Same, search
<1>3. CASE Count(r) \/ Recount(r)
    BY <1>3 DEF TypeOK, Count, Recount, Goes, Refuses, Answers, Chooses, Same, search
<1>4. CASE Claim(r)
    BY <1>4 DEF TypeOK, Claim, Goes, Same, search
<1>5. CASE Probe(r) \/ ClaimGhost(r) \/ SetPin(r)
    BY <1>5 DEF TypeOK, Probe, ClaimGhost, SetPin, Goes, Refuses, Leases, Answers, Chooses, Same, search
<1>6. CASE HangUp(r) \/ Leave(r)
    BY <1>6 DEF TypeOK, HangUp, Leave, Ends, Goes, Same
<1>7. CASE Expire(r)
    BY <1>7 DEF TypeOK, Expire, Same, search
<1> QED BY <1>1, <1>2, <1>3, <1>4, <1>5, <1>6, <1>7 DEF Act, Step

(* The step of a search keeps what that search knows.                      *)
LEMMA OwnKeeps ==
    ASSUME TypeOK, NEW r \in Requests, SearchOK(r), Act(r)
    PROVE  SearchOK(r)'
<1>1. CASE HangUp(r) \/ Leave(r) BY <1>1, EndsKeeps DEF HangUp, Leave
<1>2. CASE Expire(r)
  <2>1. Same(r) /\ Observe BY <1>2 DEF Expire, Same, search
  <2> QED BY <2>1, Frame
<1> QED BY <1>1, <1>2, BeginKeeps, PinKeeps, CountKeeps, RecountKeeps, ClaimKeeps, ProbeKeeps
        DEF Act, Step

(* A claim leaves requests, here or elsewhere, on the slots.               *)
LEMMA ClaimTyped ==
    ASSUME TypeOK, NEW r \in Requests, Claims(r) \/ Refused(r)
    PROVE  taken' \in [Accounts -> SUBSET (Requests \cup {Elsewhere})]
<1>1. CASE taken' = [taken EXCEPT ![chosen[r]] = @ \cup {r}] BY <1>1 DEF TypeOK
<1>2. CASE taken' = taken BY <1>2 DEF TypeOK
<1> QED BY <1>1, <1>2 DEF Claims, Refused

(* Types, one action at a time.                                            *)
LEMMA ActTyped ==
    ASSUME TypeOK, NEW r \in Requests, Act(r)
    PROVE  TypeOK'
<1> USE SelectionAssumption
<1>0. unfit' \in [Requests -> SUBSET Accounts]
    BY Observed DEF Act, Step, Begin, ReadPin, CountPin, ClaimPin, Count, Recount, Claim, Probe,
                    ClaimGhost, SetPin, HangUp, Leave, Expire
<1>1. CASE Begin(r)
  <2>1. PICK ask \in Asks :
        LET S == candidates(r, ask.channel)
            X == ask.excluded
            x == Nothing(S, ask.channel)
        IN  /\ excluded' = [excluded EXCEPT ![r] = X]
            /\ rows' = [rows EXCEPT ![r] = S]
            /\ live' = [live EXCEPT ![r] = {a \in S : status[a] = "live"}]
            /\ none_left' = [none_left EXCEPT ![r] = x]
            /\ remaining' = [remaining EXCEPT ![r] = S \ X]
            /\ \/ Refuses(r, "Internal")
               \/ S \ X = {} /\ Refuses(r, x)
               \/ /\ S \ X # {}
                  /\ Goes(r, IF X = {} THEN "pin" ELSE "count")
                  /\ UNCHANGED result
    BY <1>1 DEF Begin
  <2>2. candidates(r, ask.channel) \in SUBSET Accounts BY DEF candidates
  <2>3. ask.excluded \in SUBSET Accounts OBVIOUS
  <2>4. Nothing(candidates(r, ask.channel), ask.channel) \in Nothings BY DEF Nothing, Nothings
  <2>5. pc' \in [Requests -> Awaits \cup {"idle", "leased", "refused", "over"}]
    BY <2>1 DEF TypeOK, Goes, Refuses, Awaits
  <2>6. result' \in [Requests -> Outcomes \cup {None}]
    BY <2>1, <2>4 DEF TypeOK, Refuses, Answers, Outcomes
  <2> QED BY <1>0, <1>1, <2>1, <2>2, <2>3, <2>4, <2>5, <2>6 DEF TypeOK, Begin, world
<1>2. CASE ReadPin(r) \/ CountPin(r)
    BY <1>0, <1>2 DEF TypeOK, ReadPin, CountPin, Goes, Chooses, search, world, Awaits
<1>3. CASE ClaimPin(r)
  <2>1. pc' \in [Requests -> Awaits \cup {"idle", "leased", "refused", "over"}]
    <3>1. PICK s \in {"leased", "count"} : pc' = [pc EXCEPT ![r] = s]
      BY <1>3 DEF ClaimPin, Goes, Leases
    <3> QED BY <3>1 DEF TypeOK, Awaits
  <2>2. result' \in [Requests -> Outcomes \cup {None}]
    BY <1>3 DEF TypeOK, ClaimPin, Leases, Answers, Outcomes
  <2>3. taken' \in [Accounts -> SUBSET (Requests \cup {Elsewhere})]
    BY <1>3, ClaimTyped DEF ClaimPin
  <2> QED BY <1>0, <1>3, <2>1, <2>2, <2>3 DEF TypeOK, ClaimPin, search, world
<1>4. CASE Count(r)
  <2>1. \A count \in Counts : \A a \in select(count, Candidates(r, remaining[r])) : a \in Accounts
    <3> SUFFICES ASSUME NEW count \in Counts,
                        NEW a \in select(count, Candidates(r, remaining[r]))
                 PROVE  a \in Accounts
      OBVIOUS
    <3>1. Candidates(r, remaining[r]) \subseteq Accounts BY DEF Candidates, TypeOK
    <3> QED BY <3>1, CountsAreNat, SelectBest
  <2>2. chosen' \in [Requests -> Accounts \cup {None}]
    BY <1>4, <2>1 DEF TypeOK, Count, Chooses
  <2>3. counted' \in [Requests -> SUBSET Accounts]
    <3>1. Candidates(r, remaining[r]) \in SUBSET Accounts BY DEF Candidates, TypeOK
    <3> QED BY <1>4, <3>1 DEF TypeOK, Count
  <2>4. pc' \in [Requests -> Awaits \cup {"idle", "leased", "refused", "over"}]
    BY <1>4 DEF TypeOK, Count, Goes, Refuses, Awaits
  <2>5. result' \in [Requests -> Outcomes \cup {None}]
    BY <1>4 DEF TypeOK, Count, Refuses, Answers, Outcomes
  <2> QED BY <1>0, <1>4, <2>2, <2>3, <2>4, <2>5 DEF TypeOK, Count, search, world
<1>5. CASE Recount(r)
    BY <1>0, <1>5 DEF TypeOK, Recount, Goes, Refuses, Answers, search, world, Awaits, Outcomes
<1>6. CASE Claim(r)
  <2>1. pc' \in [Requests -> Awaits \cup {"idle", "leased", "refused", "over"}]
    <3>1. PICK s \in {"set_pin", "probe", "count"} : pc' = [pc EXCEPT ![r] = s]
      BY <1>6 DEF Claim, Goes
    <3> QED BY <3>1 DEF TypeOK, Awaits
  <2>2. remaining' \in [Requests -> SUBSET Accounts]
    <3>1. remaining' = remaining \/ remaining' = [remaining EXCEPT ![r] = remaining[r] \ {chosen[r]}]
      BY <1>6 DEF Claim
    <3>2. remaining[r] \ {chosen[r]} \in SUBSET Accounts BY DEF TypeOK
    <3>3. remaining \in [Requests -> SUBSET Accounts] BY DEF TypeOK
    <3> QED BY <3>1, <3>2, <3>3
  <2>3. taken' \in [Accounts -> SUBSET (Requests \cup {Elsewhere})]
    BY <1>6, ClaimTyped DEF Claim
  <2> QED BY <1>0, <1>6, <2>1, <2>2, <2>3 DEF TypeOK, Claim, search, world
<1>7. CASE Probe(r)
  <2>1. pc' \in [Requests -> Awaits \cup {"idle", "leased", "refused", "over"}]
    <3>1. PICK s \in {"ghost_claim", "refused"} : pc' = [pc EXCEPT ![r] = s]
      BY <1>7 DEF Probe, Goes, Refuses
    <3> QED BY <3>1 DEF TypeOK, Awaits
  <2>2. result' \in [Requests -> Outcomes \cup {None}]
    BY <1>7 DEF TypeOK, Probe, Refuses, Answers, Outcomes
  <2>3. \A count \in Counts : Open(r, count, rows[r] \ excluded[r]) \subseteq Accounts
    BY DEF TypeOK, Open
  <2>4. chosen' \in [Requests -> Accounts \cup {None}]
    <3>1. chosen' = chosen \/ \E a \in Accounts : chosen' = [chosen EXCEPT ![r] = a]
      BY <1>7, <2>3 DEF Probe, Chooses
    <3> QED BY <3>1 DEF TypeOK
  <2> QED BY <1>0, <1>7, <2>1, <2>2, <2>4 DEF TypeOK, Probe, search, world
<1>8. CASE ClaimGhost(r)
  <2>1. pc' \in [Requests -> Awaits \cup {"idle", "leased", "refused", "over"}]
    <3>1. PICK s \in {"set_pin", "refused"} : pc' = [pc EXCEPT ![r] = s]
      BY <1>8 DEF ClaimGhost, Goes, Refuses
    <3> QED BY <3>1 DEF TypeOK, Awaits
  <2>2. result' \in [Requests -> Outcomes \cup {None}]
    BY <1>8 DEF TypeOK, ClaimGhost, Refuses, Answers, Outcomes
  <2>3. taken' \in [Accounts -> SUBSET (Requests \cup {Elsewhere})]
    BY <1>8, ClaimTyped DEF ClaimGhost
  <2> QED BY <1>0, <1>8, <2>1, <2>2, <2>3 DEF TypeOK, ClaimGhost, search, world
<1>9. CASE SetPin(r)
    BY <1>0, <1>9 DEF TypeOK, SetPin, Goes, Leases, Answers, search, world, Outcomes
<1>10. CASE HangUp(r) \/ Leave(r)
  <2>1. taken' \in [Accounts -> SUBSET (Requests \cup {Elsewhere})]
    BY <1>10 DEF TypeOK, HangUp, Leave
  <2>2. /\ excluded' \in [Requests -> SUBSET Accounts] /\ rows' \in [Requests -> SUBSET Accounts]
        /\ live' \in [Requests -> SUBSET Accounts] /\ remaining' \in [Requests -> SUBSET Accounts]
        /\ counted' \in [Requests -> SUBSET Accounts]
    BY <1>10 DEF TypeOK, HangUp, Leave, Ends
  <2>3. /\ pc' \in [Requests -> Awaits \cup {"idle", "leased", "refused", "over"}]
        /\ result' \in [Requests -> Outcomes \cup {None}]
        /\ none_left' \in [Requests -> Nothings]
        /\ chosen' \in [Requests -> Accounts \cup {None}]
    BY <1>10 DEF TypeOK, HangUp, Leave, Ends, Goes, Nothings
  <2>4. ghost' \in [Requests -> BOOLEAN]
    BY <1>10 DEF TypeOK, HangUp, Leave, Ends
  <2> QED BY <1>0, <1>10, <2>1, <2>2, <2>3, <2>4 DEF TypeOK, HangUp, Leave, world
<1>11. CASE Expire(r)
    BY <1>0, <1>11 DEF TypeOK, Expire, search, world
<1> QED BY <1>1, <1>2, <1>3, <1>4, <1>5, <1>6, <1>7, <1>8, <1>9, <1>10, <1>11 DEF Act, Step

(* The rest of the system changes what the searches read, not what they    *)
(* know.                                                                   *)
LEMMA WorldKeeps ==
    ASSUME IInv, Change \/ Contend
    PROVE  IInv'
<1> USE SelectionAssumption
<1>1. Observe /\ \A q \in Requests : Same(q) BY DEF Change, Contend, Same, search
<1>2. \A q \in Requests : SearchOK(q)' BY <1>1, Frame DEF IInv
<1>3. unfit' \in [Requests -> SUBSET Accounts] BY <1>1, Observe DEF IInv, Observe, Unfit, TypeOK
<1>4. CASE Change
  <2>1. PICK a \in Accounts : ChangeStatus(a) \/ ChangeBreaker(a) \/ ChangeOwner(a)
    BY <1>4 DEF Change
  <2>2. /\ owner' \in [Accounts -> Principals \cup {None}]
        /\ status' \in [Accounts -> Statuses]
        /\ permits' \in [Accounts -> BOOLEAN]
    <3>1. CASE ChangeStatus(a)
      <4>1. PICK s \in Statuses : status' = [status EXCEPT ![a] = s] BY <3>1 DEF ChangeStatus
      <4> QED BY <3>1, <4>1 DEF IInv, TypeOK, ChangeStatus
    <3>2. CASE ChangeBreaker(a) BY <3>2 DEF IInv, TypeOK, ChangeBreaker
    <3>3. CASE ChangeOwner(a)
      <4>1. PICK p \in Principals : owner' = [owner EXCEPT ![a] = p] BY <3>3 DEF ChangeOwner
      <4> QED BY <3>3, <4>1 DEF IInv, TypeOK, ChangeOwner
    <3> QED BY <2>1, <3>1, <3>2, <3>3
  <2> QED BY <1>2, <1>3, <1>4, <2>2 DEF IInv, TypeOK, Change, search
<1>5. CASE Contend
  <2>1. taken' \in [Accounts -> SUBSET (Requests \cup {Elsewhere})]
    <3>1. PICK a \in Accounts : \/ taken' = [taken EXCEPT ![a] = taken[a] \cup {Elsewhere}]
                                \/ taken' = [taken EXCEPT ![a] = taken[a] \ {Elsewhere}]
      BY <1>5 DEF Contend, IInv, TypeOK
    <3>2. taken[a] \cup {Elsewhere} \in SUBSET (Requests \cup {Elsewhere})
          /\ taken[a] \ {Elsewhere} \in SUBSET (Requests \cup {Elsewhere})
      BY DEF IInv, TypeOK
    <3> QED BY <3>1, <3>2 DEF IInv, TypeOK
  <2>2. contends' \in 0..MaxContends BY <1>5 DEF IInv, TypeOK, Contend
  <2> QED BY <1>2, <1>3, <1>5, <2>1, <2>2 DEF IInv, TypeOK, Contend, search
<1> QED BY <1>4, <1>5

LEMMA StutterKeeps == IInv /\ UNCHANGED vars => IInv'
BY DEF IInv, vars, TypeOK, SearchOK, Could, Tiered, search, world

(* Every step keeps the invariant.                                         *)
LEMMA NextKeeps == IInv /\ [Next]_vars => IInv'
<1> SUFFICES ASSUME IInv, [Next]_vars PROVE IInv' OBVIOUS
<1>1. ASSUME NEW r \in Requests, Act(r) PROVE IInv'
  <2>1. TypeOK' BY <1>1, ActTyped DEF IInv
  <2>2. SearchOK(r)' BY <1>1, OwnKeeps DEF IInv
  <2>3. \A q \in Requests \ {r} : SearchOK(q)' BY <1>1, OthersSame, Frame DEF IInv
  <2> QED BY <2>1, <2>2, <2>3 DEF IInv
<1> QED BY <1>1, WorldKeeps, StutterKeeps DEF Next

(* The inductive invariant of a search.                                    *)
THEOREM SearchInvariant == Spec => []IInv
BY InitEstablishes, NextKeeps, PTL DEF Spec

(* Type correctness.                                                       *)
THEOREM SelectionTypeCorrect == Spec => []TypeOK
<1>1. IInv => TypeOK BY DEF IInv
<1> QED BY <1>1, SearchInvariant, PTL

(* lease never hands out a credential that is not the caller's, not of the *)
(* channel asked for, not live or already failed.                          *)
THEOREM LeaseAllowed == Spec => []LeaseIsAllowed
<1>1. IInv => LeaseIsAllowed BY DEF IInv, SearchOK, LeaseIsAllowed
<1> QED BY <1>1, SearchInvariant, PTL

(* The cascade never goes below a tier that stood open all along.          *)
THEOREM TierIsRespected == Spec => []TierRespected
<1>1. IInv => TierRespected BY DEF IInv, SearchOK, TierRespected, Tiered
<1> QED BY <1>1, SearchInvariant, PTL

(* A refusal means that everything the caller could have was taken or      *)
(* broken at some time in the search.                                      *)
THEOREM NobodyOverlooked == Spec => []NoneOverlooked
<1>1. IInv => NoneOverlooked BY DEF IInv, SearchOK, NoneOverlooked
<1> QED BY <1>1, SearchInvariant, PTL

(* All of it, for any requests, credentials and conversations.             *)
THEOREM SelectionIsSafe == Spec => []LeasesHold
BY SelectionTypeCorrect, LeaseAllowed, TierIsRespected, NobodyOverlooked, PTL DEF LeasesHold

=============================================================================
