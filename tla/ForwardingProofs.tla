-------------------------- MODULE ForwardingProofs --------------------------
(***************************************************************************)
(* Theorems about module Forwarding, for any pool, ladder and limits.      *)
(***************************************************************************)
EXTENDS Forwarding, TLAPS

Trying == Awaits \ {"pick"}

(* A rung uses up to MaxSwitches + 1 dispatches, and one per turn.         *)
Counted ==
    /\ pc = "pick" => sent <= escalations * (MaxSwitches + 1) + switch
    /\ pc \in Trying => /\ sent <= escalations * (MaxSwitches + 1) + switch + 1
                        /\ switch <= MaxSwitches
    /\ sent <= (MaxSwitches + 1) * (MaxEscalations + 1)

(* Below the ceiling the ordinals are the dispatches, counted from 0.      *)
Numbered ==
    /\ sent <= MaxOrdinal => next = sent
    /\ pc \in Trying => attempt + 1 = sent

(* Rows are held by the future until it is over, by the tasks from then on.*)
Housed ==
    /\ pc # "over" => unserved = {} /\ writer = {} /\ ledger = {}
    /\ pc \in {"over", "gone"} => Held = {}
    /\ pc # "serve" => answer = {}
    /\ unserved = {} \/ writer = {}
    /\ \A r \in abandoned : r.fate = "abandoned" /\ r.gate \in Gates
    /\ \A r \in lost : r.fate = "lost"
    /\ \A r \in answer : r.fate = "served"

(* Each generation is in one place: a row somewhere, or waived.            *)
Booked ==
    /\ generated \subseteq 1..sent
    /\ pc = "wire" => sent \notin generated
    /\ \A r \in Owed \cup ledger : r.n \in generated /\ r.attempt + 1 = r.n
    /\ \A q, r \in Owed : q.n = r.n => q = r
    /\ \A q \in Owed, r \in ledger : q.n # r.n
    /\ \A r \in Owed \cup ledger : r.n \notin waived
    /\ waived \subseteq generated

(* The credentials tried on this rung are the excluded and the leased.     *)
Tracked ==
    /\ pc = "pick" => lease = None
    /\ pc \in Trying => lease \in Accounts
    /\ \A t \in tried : t[1] <= rung
    /\ pc \in Awaits => \A t \in tried : t[1] = rung => t[2] \in excluded \cup {lease}

Blamed ==
    /\ pc \in Awaits => /\ struck => last_error = "Upstream"
                        /\ result = None
    /\ RealErrorKept

Licensed ==
    /\ escalations > 0 => ~req.pressured /\ ~req.passthrough
    /\ escalations = 0 => \A t \in tried : t[1] = rung

(* An answer is abandoned only for a climb that is allowed.                *)
Ready == pc = "abandon" => climb_allowed /\ escalation_allowed

IInv ==
    /\ TypeOK /\ Counted /\ Numbered /\ Housed /\ Booked /\ Tracked /\ Blamed
    /\ Licensed /\ Ready /\ StreamOwesNothing /\ ServedRowFirst

(* What the loop does next after a failure, with the ladder's part in it   *)
(* reduced to going up.                                                    *)
Climbs ==
    /\ climb_allowed /\ escalation_allowed
    /\ \E j \in Rungs, p \in Providers, gate \in Gates : j > rung /\ Climb(j, p, gate)
    /\ UNCHANGED <<abandoned, lost, unserved, result>>

(* A failover loop that failed either climbs or fails the request.         *)
LEMMA ForwardFailedIs ==
    ASSUME TypeOK, NEW e \in Errors, ForwardFailed(e)
    PROVE  Climbs \/ Fail(e)
BY
DEF ForwardFailed, Climbs, pool_climb_allowed, EscalatePastProvider, Nearest, Viable,
    Gates

(* The room a rung has left.                                               *)
LEMMA RungRoom ==
    ASSUME NEW e \in Nat, NEW m \in Nat, NEW s \in Nat, e <= m
    PROVE  /\ e * s \in Nat
           /\ (e + 1) * s = e * s + s
           /\ e * s + s <= s * (m + 1)
<1>1. PICK d \in Nat : m = e + d
  <2>1. m - e \in Nat /\ m = e + (m - e)  OBVIOUS
  <2> QED BY <2>1
<1>2. d * s \in Nat  OBVIOUS
<1>3. s * (m + 1) = e * s + d * s + s  BY <1>1
<1> QED BY <1>2, <1>3

LEMMA InitIInv == Init => IInv
<1> SUFFICES ASSUME Init PROVE IInv  OBVIOUS
<1> USE ForwardingAssumption
<1>1. Rungs \subseteq Nat /\ \A i \in Rungs : Ladder[i] # <<>> => Ladder[i][1] \in Providers
  BY DEF Rungs
<1>2. TypeOK
  <2>1. rung \in Rungs \cup {0} /\ provider \in Providers  BY <1>1 DEF Init
  <2>2. pumping \in BOOLEAN /\ struck \in BOOLEAN  BY DEF Init
  <2> QED BY <2>1, <2>2 DEF Init, TypeOK, Awaits, Errors
<1>3. Counted
  <2>1. 0 * (MaxSwitches + 1) = 0 /\ 0 <= (MaxSwitches + 1) * (MaxEscalations + 1)
    BY RungRoom
  <2> QED BY <2>1 DEF Init, Counted, Trying, Awaits
<1>4. Numbered /\ Housed /\ Booked /\ Tracked /\ Blamed /\ Licensed /\ Ready
  BY
  DEF Init, Numbered, Housed, Booked, Tracked, Blamed, Licensed, Ready, Trying, Awaits,
      Held, Owed, RealErrorKept, Errors, Ids
<1>5. StreamOwesNothing /\ ServedRowFirst
  BY DEF Init, StreamOwesNothing, ServedRowFirst
<1> QED BY <1>2, <1>3, <1>4, <1>5 DEF IInv

(* The failover loop is over: a rung up, or out with an error.             *)
Turns ==
    /\ pc \in {"pick", "refuse", "reject", "abandon"}
    /\ Climbs \/ \E e \in Errors : /\ Fail(e)
                                   /\ e \in {"NoCredential", "ReserveHeld", "Busy"} => ~struck
                                   /\ pc # "abandon"
    /\ lease' = None
    /\ UNCHANGED <<req, next, attempt, answer, writer, pumping, ledger, sent, tried,
                   generated, waived>>

LEMMA TurnCases ==
    ASSUME IInv, (\E e \in Errors : NoLease(e)) \/ GiveUp \/ Refuse \/ Reject \/ Abandon
    PROVE  Turns
<1> USE DEF IInv
<1> DEFINE Pool == {"NoCredential", "ReserveHeld", "Busy"}
<1>1. ASSUME NEW e \in Errors, NoLease(e) PROVE Turns
  <2> DEFINE f == IF last_error = "NoCredential" THEN e ELSE last_error
  <2>1. f \in Errors /\ ForwardFailed(f) /\ (f \in Pool => ~struck)
    BY <1>1 DEF NoLease, TypeOK, Blamed, Awaits
  <2> HIDE DEF f
  <2>2. Climbs \/ Fail(f)  BY <2>1, ForwardFailedIs
  <2> QED BY <2>1, <2>2, <1>1 DEF NoLease, Turns, Tracked
<1>2. ASSUME GiveUp PROVE Turns
  <2>1. last_error \in Errors /\ (last_error \in Pool => ~struck)
    BY <1>2 DEF GiveUp, TypeOK, Blamed, Awaits
  <2>2. Climbs \/ Fail(last_error)  BY <2>1, <1>2, ForwardFailedIs DEF GiveUp
  <2> QED BY <2>1, <2>2, <1>2 DEF GiveUp, Turns, Tracked
<1>3. ASSUME Refuse PROVE Turns
  <2>1. Climbs \/ Fail("Fatal")  BY <1>3, ForwardFailedIs DEF Refuse, Errors
  <2> QED BY <2>1, <1>3 DEF Refuse, Turns, Errors
<1>4. ASSUME Reject PROVE Turns
  BY <1>4 DEF Reject, Turns, Climbs, should_climb, Escalate, Nearest, Viable, Errors, Gates
<1>5. ASSUME Abandon PROVE Turns
  <2>1. \A r \in abandoned : r.gate \in Gates  BY DEF Housed
  <2> QED BY <2>1, <1>5 DEF Abandon, Turns, Climbs, Ready, Escalate, Nearest, Viable, captures, tasks
<1> QED BY <1>1, <1>2, <1>3, <1>4, <1>5

(* Every action keeps the types.                                           *)
LEMMA TypeStep ==
    ASSUME IInv, [Next]_vars
    PROVE  TypeOK'
<1> USE ForwardingAssumption DEF IInv
<1>0. Rungs \subseteq Nat \ {0} /\ sent <= MaxOrdinal + 1  BY DEF Rungs, Counted, TypeOK
<1>1. CASE \E a \in Accounts : Lease(a)
  <2>1. PICK a \in Accounts : Lease(a)  BY <1>1
  <2>2. attempt' \in 0..MaxOrdinal /\ next' \in 0..MaxOrdinal /\ sent' \in Nat
    BY <2>1 DEF Lease, SaturatingInc, TypeOK
  <2>3. tried' \subseteq (Rungs \cup {0}) \X Accounts
    BY <2>1 DEF Lease, TypeOK
  <2> QED BY <2>1, <2>2, <2>3 DEF Lease, decision, captures, tasks, Awaits, TypeOK
<1>2. CASE Turns
  <2>1. CASE Climbs
    <3>1. struck' \in BOOLEAN  BY <2>1 DEF Climbs, Climb
    <3>2. /\ rung' \in Rungs /\ provider' \in Providers /\ trigger' \in Gates
          /\ escalations' \in 0..MaxEscalations
      BY <2>1 DEF Climbs, Climb, TypeOK, escalation_allowed
    <3>3. /\ pc' = "pick" /\ switch' = 0 /\ excluded' = {} /\ last_error' = "NoCredential"
          /\ UNCHANGED <<abandoned, lost, unserved, result>>
      BY <2>1 DEF Climbs, Climb
    <3> QED BY <3>1, <3>2, <3>3, <1>2 DEF Turns, TypeOK, Awaits, Errors
  <2>2. ASSUME NEW e \in Errors, Fail(e) PROVE TypeOK'
    BY <1>2, <2>2 DEF Turns, Fail, spawn_unserved, decision, TypeOK
  <2> QED BY <1>2, <2>1, <2>2 DEF Turns
<1>3. CASE Switch
  BY <1>3, <1>0
  DEF Switch, decision, captures, tasks, Awaits, TypeOK, Errors, Judgements, Gates, Fates,
      Row, Held, Ids
<1>4. CASE Lost
  BY <1>4, <1>0
  DEF Lost, Capture, decision, captures, tasks, Awaits, TypeOK, Errors, Judgements, Gates,
      Fates, Row, Held, Ids
<1>5. CASE Raced \/ Stop
  BY <1>5 DEF Raced, Stop, decision, captures, tasks, Awaits, TypeOK
<1>6. CASE Streaming
  BY <1>6, <1>0
  DEF Streaming, spawn_unserved, Capture, decision, captures, tasks, Awaits, TypeOK,
      Errors, Judgements, Gates, Fates, Row, Held, Ids
<1>7. CASE \E gate \in Judgements, capped \in BOOLEAN : Collected(gate, capped)
  BY <1>7, <1>0
  DEF Collected, Capture, should_climb, decision, captures, tasks, Awaits, TypeOK, Errors,
      Judgements, Gates, Fates, Row, Held, Ids
<1>8. CASE Leave
  BY <1>8 DEF Leave, Counted, Tracked, Trying, decision, captures, tasks, Awaits, TypeOK
<1>9. CASE Serve
  BY <1>9, <1>0
  DEF Serve, decision, captures, tasks, Awaits, TypeOK, Errors, Judgements, Gates, Fates,
      Row, Held, Ids
<1>10. CASE HangUp
  <2>1. Ids(Held) \subseteq Nat  BY DEF TypeOK, Held, Ids, Row
  <2> QED BY <1>10, <2>1 DEF HangUp, decision, tasks, TypeOK
<1>11. CASE PumpEnds \/ WriteAnswer \/ WriteUnserved
  <2>0. \A r \in writer \cup unserved : r.n \in Nat  BY DEF TypeOK, Row
  <2>1. CASE PumpEnds
    BY <2>1 DEF PumpEnds, requests, decision, captures, TypeOK
  <2>2. CASE WriteAnswer
    BY <2>0, <2>2 DEF WriteAnswer, record_usage, First, requests, decision, captures, TypeOK
  <2>3. CASE WriteUnserved
    BY <2>0, <2>3
    DEF WriteUnserved, record_usage, First, requests, decision, captures, TypeOK
  <2> QED BY <1>11, <2>1, <2>2, <2>3
<1>12. CASE UNCHANGED vars
  BY <1>12, <1>0
  DEF vars, decision, captures, tasks, Awaits, TypeOK, Errors, Judgements, Gates, Fates,
      Row, Held, Ids
<1> QED
  BY <1>1, <1>2, <1>3, <1>4, <1>5, <1>6, <1>7, <1>8, <1>9, <1>10, <1>11, <1>12, TurnCases
  DEF Next, Forward

(* Every action keeps the counts.                                          *)
LEMMA CountStep ==
    ASSUME IInv, [Next]_vars
    PROVE  (Counted /\ Numbered)'
<1> USE ForwardingAssumption DEF IInv
<1> DEFINE base == escalations * (MaxSwitches + 1)
<1>0. /\ base \in Nat
      /\ (escalations + 1) * (MaxSwitches + 1) = base + MaxSwitches + 1
      /\ base + MaxSwitches + 1 <= (MaxSwitches + 1) * (MaxEscalations + 1)
  BY RungRoom DEF TypeOK
<1>1. CASE \E a \in Accounts : Lease(a)
  <2>1. PICK a \in Accounts : Lease(a)  BY <1>1
  <2>2. /\ sent <= base + switch /\ switch <= MaxSwitches
        /\ pc' = "wire" /\ sent' = sent + 1 /\ escalations' = escalations
        /\ switch' = switch /\ attempt' = next /\ next' = SaturatingInc(next)
    BY <2>1 DEF Lease, Counted, decision
  <2>3. sent + 1 <= (MaxSwitches + 1) * (MaxEscalations + 1)
    BY <1>0, <2>2 DEF TypeOK
  <2>4. sent <= MaxOrdinal
    BY <1>0, <2>2 DEF TypeOK
  <2>5. next = sent  BY <2>4 DEF Numbered
  <2> HIDE DEF base
  <2>6. Numbered'
    BY <2>2, <2>4, <2>5 DEF Numbered, SaturatingInc, TypeOK
  <2>7. base' = base  BY <2>2 DEF base
  <2>8. Counted'
    BY <1>0, <2>2, <2>3, <2>7 DEF Counted, TypeOK, Trying, base
  <2> QED BY <2>6, <2>8
<1>2. CASE Turns
  BY <1>2, <1>0
  DEF Turns, Climbs, Climb, Fail, spawn_unserved, decision, captures, tasks, Awaits,
      TypeOK, Counted, Numbered, Trying, escalation_allowed
<1>3. CASE Switch
  BY <1>3, <1>0
  DEF Switch, decision, captures, tasks, Awaits, TypeOK, Counted, Numbered, Trying,
      escalation_allowed
<1>4. CASE Lost
  BY <1>4, <1>0
  DEF Lost, Capture, decision, captures, tasks, Awaits, TypeOK, Counted, Numbered, Trying,
      escalation_allowed
<1>5. CASE Raced \/ Stop
  BY <1>5, <1>0
  DEF Raced, Stop, decision, captures, tasks, Awaits, TypeOK, Counted, Numbered, Trying,
      escalation_allowed
<1>6. CASE Streaming
  BY <1>6, <1>0
  DEF Streaming, spawn_unserved, Capture, decision, captures, tasks, Awaits, TypeOK,
      Counted, Numbered, Trying, escalation_allowed
<1>7. CASE \E gate \in Judgements, capped \in BOOLEAN : Collected(gate, capped)
  BY <1>7, <1>0
  DEF Collected, Capture, should_climb, decision, captures, tasks, Awaits, TypeOK,
      Counted, Numbered, Trying, escalation_allowed
<1>8. CASE Leave
  BY <1>8, <1>0
  DEF Leave, decision, captures, tasks, Awaits, TypeOK, Counted, Numbered, Trying,
      escalation_allowed
<1>9. CASE Serve
  BY <1>9, <1>0
  DEF Serve, decision, captures, tasks, Awaits, TypeOK, Counted, Numbered, Trying,
      escalation_allowed
<1>10. CASE HangUp
  BY <1>10, <1>0
  DEF HangUp, decision, captures, tasks, Awaits, TypeOK, Counted, Numbered, Trying,
      escalation_allowed
<1>11. CASE PumpEnds \/ WriteAnswer \/ WriteUnserved
  BY <1>11, <1>0
  DEF PumpEnds, WriteAnswer, WriteUnserved, record_usage, First, requests, decision,
      captures, tasks, Awaits, TypeOK, Counted, Numbered, Trying, escalation_allowed
<1>12. CASE UNCHANGED vars
  BY <1>12, <1>0
  DEF vars, decision, captures, tasks, Awaits, TypeOK, Counted, Numbered, Trying,
      escalation_allowed
<1> QED
  BY <1>1, <1>2, <1>3, <1>4, <1>5, <1>6, <1>7, <1>8, <1>9, <1>10, <1>11, <1>12, TurnCases
  DEF Next, Forward

(* Every action keeps rows where they belong.                              *)
LEMMA HouseStep ==
    ASSUME IInv, [Next]_vars
    PROVE  (Housed /\ Ready)'
<1> USE ForwardingAssumption DEF IInv
<1>1. CASE \E a \in Accounts : Lease(a)
  BY <1>1
  DEF Lease, SaturatingInc, decision, captures, tasks, Awaits, TypeOK, StreamOwesNothing,
      Housed, Ready, Held, escalation_allowed, climb_allowed, Judgements, Gates
<1>2. CASE Turns
  BY <1>2
  DEF Turns, Climbs, Climb, Fail, spawn_unserved, decision, captures, tasks, Awaits,
      TypeOK, StreamOwesNothing, Housed, Ready, Held, escalation_allowed, climb_allowed,
      Judgements, Gates
<1>3. CASE Switch
  BY <1>3
  DEF Switch, decision, captures, tasks, Awaits, TypeOK, StreamOwesNothing, Housed, Ready,
      Held, escalation_allowed, climb_allowed, Judgements, Gates
<1>4. CASE Lost
  BY <1>4
  DEF Lost, Capture, decision, captures, tasks, Awaits, TypeOK, StreamOwesNothing, Housed,
      Ready, Held, escalation_allowed, climb_allowed, Judgements, Gates
<1>5. CASE Raced \/ Stop
  BY <1>5
  DEF Raced, Stop, decision, captures, tasks, Awaits, TypeOK, StreamOwesNothing, Housed,
      Ready, Held, escalation_allowed, climb_allowed, Judgements, Gates
<1>6. CASE Streaming
  BY <1>6
  DEF Streaming, spawn_unserved, Capture, decision, captures, tasks, Awaits, TypeOK,
      StreamOwesNothing, Housed, Ready, Held, escalation_allowed, climb_allowed,
      Judgements, Gates
<1>7. CASE \E gate \in Judgements, capped \in BOOLEAN : Collected(gate, capped)
  BY <1>7
  DEF Collected, Capture, should_climb, decision, captures, tasks, Awaits, TypeOK,
      StreamOwesNothing, Housed, Ready, Held, escalation_allowed, climb_allowed,
      Judgements, Gates
<1>8. CASE Leave
  BY <1>8
  DEF Leave, decision, captures, tasks, Awaits, TypeOK, StreamOwesNothing, Housed, Ready,
      Held, escalation_allowed, climb_allowed, Judgements, Gates
<1>9. CASE Serve
  BY <1>9
  DEF Serve, decision, captures, tasks, Awaits, TypeOK, StreamOwesNothing, Housed, Ready,
      Held, escalation_allowed, climb_allowed, Judgements, Gates
<1>10. CASE HangUp
  BY <1>10
  DEF HangUp, decision, captures, tasks, Awaits, TypeOK, StreamOwesNothing, Housed, Ready,
      Held, escalation_allowed, climb_allowed, Judgements, Gates
<1>11. CASE PumpEnds \/ WriteAnswer \/ WriteUnserved
  BY <1>11
  DEF PumpEnds, WriteAnswer, WriteUnserved, record_usage, First, requests, decision,
      captures, tasks, Awaits, TypeOK, StreamOwesNothing, Housed, Ready, Held,
      escalation_allowed, climb_allowed, Judgements, Gates
<1>12. CASE UNCHANGED vars
  BY <1>12
  DEF vars, decision, captures, tasks, Awaits, TypeOK, StreamOwesNothing, Housed, Ready,
      Held, escalation_allowed, climb_allowed, Judgements, Gates
<1> QED
  BY <1>1, <1>2, <1>3, <1>4, <1>5, <1>6, <1>7, <1>8, <1>9, <1>10, <1>11, <1>12, TurnCases
  DEF Next, Forward

(* Every action keeps each generation in one place.                        *)
LEMMA BookStep ==
    ASSUME IInv, [Next]_vars
    PROVE  Booked'
<1> USE ForwardingAssumption DEF IInv
<1>0. sent <= MaxOrdinal + 1  BY DEF Counted, TypeOK
<1>1. CASE \E a \in Accounts : Lease(a)
  BY <1>1, <1>0
  DEF Lease, SaturatingInc, decision, captures, tasks, Awaits, TypeOK, Numbered, Housed,
      Booked, Owed, Held, Ids, Trying
<1>2. CASE Turns
  BY <1>2, <1>0
  DEF Turns, Climbs, Climb, Fail, spawn_unserved, decision, captures, tasks, Awaits,
      TypeOK, Numbered, Housed, Booked, Owed, Held, Ids, Trying
<1>3. CASE Switch
  BY <1>3, <1>0
  DEF Switch, decision, captures, tasks, Awaits, TypeOK, Numbered, Housed, Booked, Owed,
      Held, Ids, Trying
<1>4. CASE Lost
  BY <1>4, <1>0
  DEF Lost, Capture, decision, captures, tasks, Awaits, TypeOK, Numbered, Housed, Booked,
      Owed, Held, Ids, Trying
<1>5. CASE Raced \/ Stop
  BY <1>5, <1>0
  DEF Raced, Stop, decision, captures, tasks, Awaits, TypeOK, Numbered, Housed, Booked,
      Owed, Held, Ids, Trying
<1>6. CASE Streaming
  BY <1>6, <1>0
  DEF Streaming, spawn_unserved, Capture, decision, captures, tasks, Awaits, TypeOK,
      Numbered, Housed, Booked, Owed, Held, Ids, Trying
<1>7. CASE \E gate \in Judgements, capped \in BOOLEAN : Collected(gate, capped)
  BY <1>7, <1>0
  DEF Collected, Capture, should_climb, decision, captures, tasks, Awaits, TypeOK,
      Numbered, Housed, Booked, Owed, Held, Ids, Trying
<1>8. CASE Leave
  BY <1>8, <1>0
  DEF Leave, decision, captures, tasks, Awaits, TypeOK, Numbered, Housed, Booked, Owed,
      Held, Ids, Trying
<1>9. CASE Serve
  BY <1>9, <1>0
  DEF Serve, decision, captures, tasks, Awaits, TypeOK, Numbered, Housed, Booked, Owed,
      Held, Ids, Trying
<1>10. CASE HangUp
  <2>1. Owed' = {} /\ ledger' = {} /\ generated' = generated /\ sent' = sent /\ pc' = "gone"
    BY <1>10 DEF HangUp, tasks, Owed, Held, Housed, Awaits
  <2>2. waived' \subseteq generated
    <3>1. \A r \in Held : r.n \in generated  BY DEF Booked, Owed
    <3>2. Ids(Held) \subseteq generated  BY <3>1 DEF Ids
    <3> QED BY <1>10, <3>2 DEF HangUp, Booked
  <2> QED BY <2>1, <2>2 DEF Booked
<1>11. CASE PumpEnds \/ WriteAnswer \/ WriteUnserved
  <2>1. UNCHANGED <<pc, sent, generated>>
    BY <1>11 DEF PumpEnds, WriteAnswer, WriteUnserved, requests
  <2>2. CASE PumpEnds
    BY <2>2 DEF PumpEnds, requests, captures, Booked, Owed, Held
  <2>3. ASSUME NEW r \in Owed, record_usage(r), Owed' = Owed \ {r} PROVE Booked'
    <3>1. /\ \A q \in Owed' : q \in Owed /\ q.n # r.n
          /\ r.n \in generated /\ r.n \notin waived /\ r.attempt + 1 = r.n
      BY <2>3 DEF Booked
    <3>2. CASE ledger' \in {ledger, ledger \cup {r}} /\ waived' = waived
      BY <2>1, <3>1, <3>2 DEF Booked
    <3>3. CASE ledger' = ledger /\ waived' = waived \cup {r.n}
      <4>1. \A q \in ledger : q.n # r.n  BY <2>3 DEF Booked
      <4> QED BY <2>1, <3>1, <3>3, <4>1 DEF Booked
    <3> QED BY <2>3, <3>2, <3>3 DEF record_usage
  <2>4. CASE WriteAnswer
    <3>1. PICK r \in First(writer) : record_usage(r) /\ writer' = writer \ {r}
      BY <2>4 DEF WriteAnswer
    <3>2. r \in writer /\ Held = {} /\ unserved = {}
      BY <3>1 DEF First, Housed
    <3>3. Held' = Held /\ unserved' = unserved
      BY <2>4 DEF WriteAnswer, requests, captures, Held
    <3> QED BY <3>1, <3>2, <3>3, <2>3 DEF Owed
  <2>5. CASE WriteUnserved
    <3>1. PICK r \in First(unserved) : record_usage(r) /\ unserved' = unserved \ {r}
      BY <2>5 DEF WriteUnserved
    <3>2. r \in unserved /\ Held = {} /\ writer = {}
      BY <3>1 DEF First, Housed
    <3>3. Held' = Held /\ writer' = writer
      BY <2>5 DEF WriteUnserved, requests, captures, Held
    <3> QED BY <3>1, <3>2, <3>3, <2>3 DEF Owed
  <2> QED BY <1>11, <2>2, <2>4, <2>5
<1>12. CASE UNCHANGED vars
  BY <1>12, <1>0
  DEF vars, decision, captures, tasks, Awaits, TypeOK, Numbered, Housed, Booked, Owed,
      Held, Ids, Trying
<1> QED
  BY <1>1, <1>2, <1>3, <1>4, <1>5, <1>6, <1>7, <1>8, <1>9, <1>10, <1>11, <1>12, TurnCases
  DEF Next, Forward

(* Every action keeps track of what was tried.                             *)
LEMMA TrackStep ==
    ASSUME IInv, [Next]_vars
    PROVE  (Tracked /\ Licensed)'
<1> USE ForwardingAssumption DEF IInv
<1>0. Rungs \subseteq Nat \ {0}  BY DEF Rungs
<1>a. \A t \in tried : t[1] \in Nat
  <2>1. tried \subseteq (Rungs \cup {0}) \X Accounts  BY DEF TypeOK
  <2>2. \A t \in (Rungs \cup {0}) \X Accounts : t[1] \in Rungs \cup {0}  OBVIOUS
  <2>3. \A x \in Rungs \cup {0} : x \in Nat  BY <1>0
  <2>4. \A t \in tried : t \in (Rungs \cup {0}) \X Accounts  BY <2>1
  <2> QED BY <2>2, <2>3, <2>4
<1>1. CASE \E a \in Accounts : Lease(a)
  BY <1>1, <1>0
  DEF Lease, SaturatingInc, decision, captures, tasks, Awaits, TypeOK, Tracked, Licensed,
      Ready, Trying, escalation_allowed, climb_allowed
<1>2. CASE Turns
  <2>1. CASE Climbs
    <3>1. /\ climb_allowed /\ escalation_allowed
          /\ rung' \in Rungs /\ rung' > rung /\ escalations' = escalations + 1 /\ pc' = "pick"
      BY <2>1 DEF Climbs, Climb
    <3>2. \A t \in tried' : t[1] < rung'
      <4>1. \A t \in tried : t[1] \in Nat  BY <1>a
      <4>2. tried' = tried /\ rung \in Nat /\ rung' \in Nat  BY <1>0, <3>1, <1>2 DEF Turns, TypeOK
      <4> QED BY <3>1, <4>1, <4>2 DEF Tracked
    <3>3. \A t \in tried' : t[1] <= rung' /\ t[1] # rung'
      <4>1. \A t \in tried : t[1] \in Nat  BY <1>a
      <4>2. tried' = tried /\ rung' \in Nat  BY <1>0, <3>1, <1>2 DEF Turns
      <4> QED BY <3>2, <4>1, <4>2
    <3>4. Tracked'  BY <3>1, <3>3, <1>2 DEF Turns, Tracked, Trying
    <3>5. Licensed'
      BY <3>1, <1>2 DEF Turns, Licensed, TypeOK, escalation_allowed, climb_allowed
    <3> QED BY <3>4, <3>5
  <2>2. ASSUME NEW e \in Errors, Fail(e) PROVE (Tracked /\ Licensed)'
    BY <1>2, <2>2 DEF Turns, Fail, decision, Tracked, Licensed, Trying, Awaits
  <2> QED BY <1>2, <2>1, <2>2 DEF Turns
<1>3. CASE Switch
  BY <1>3, <1>0
  DEF Switch, decision, captures, tasks, Awaits, TypeOK, Tracked, Licensed, Ready, Trying,
      escalation_allowed, climb_allowed
<1>4. CASE Lost
  BY <1>4, <1>0
  DEF Lost, Capture, decision, captures, tasks, Awaits, TypeOK, Tracked, Licensed, Ready,
      Trying, escalation_allowed, climb_allowed
<1>5. CASE Raced \/ Stop
  BY <1>5, <1>0
  DEF Raced, Stop, decision, captures, tasks, Awaits, TypeOK, Tracked, Licensed, Ready,
      Trying, escalation_allowed, climb_allowed
<1>6. CASE Streaming
  BY <1>6, <1>0
  DEF Streaming, spawn_unserved, Capture, decision, captures, tasks, Awaits, TypeOK,
      Tracked, Licensed, Ready, Trying, escalation_allowed, climb_allowed
<1>7. CASE \E gate \in Judgements, capped \in BOOLEAN : Collected(gate, capped)
  BY <1>7, <1>0
  DEF Collected, Capture, should_climb, decision, captures, tasks, Awaits, TypeOK,
      Tracked, Licensed, Ready, Trying, escalation_allowed, climb_allowed
<1>8. CASE Leave
  BY <1>8, <1>0
  DEF Leave, decision, captures, tasks, Awaits, TypeOK, Tracked, Licensed, Ready, Trying,
      escalation_allowed, climb_allowed
<1>9. CASE Serve
  BY <1>9, <1>0
  DEF Serve, decision, captures, tasks, Awaits, TypeOK, Tracked, Licensed, Ready, Trying,
      escalation_allowed, climb_allowed
<1>10. CASE HangUp
  BY <1>10, <1>0
  DEF HangUp, decision, captures, tasks, Awaits, TypeOK, Tracked, Licensed, Ready, Trying,
      escalation_allowed, climb_allowed
<1>11. CASE PumpEnds \/ WriteAnswer \/ WriteUnserved
  BY <1>11, <1>0
  DEF PumpEnds, WriteAnswer, WriteUnserved, record_usage, First, requests, decision,
      captures, tasks, Awaits, TypeOK, Tracked, Licensed, Ready, Trying,
      escalation_allowed, climb_allowed
<1>12. CASE UNCHANGED vars
  BY <1>12, <1>0
  DEF vars, decision, captures, tasks, Awaits, TypeOK, Tracked, Licensed, Ready, Trying,
      escalation_allowed, climb_allowed
<1> QED
  BY <1>1, <1>2, <1>3, <1>4, <1>5, <1>6, <1>7, <1>8, <1>9, <1>10, <1>11, <1>12, TurnCases
  DEF Next, Forward

(* Every action keeps the error that matters.                              *)
LEMMA BlameStep ==
    ASSUME IInv, [Next]_vars
    PROVE  Blamed'
<1> USE ForwardingAssumption DEF IInv
<1>1. CASE \E a \in Accounts : Lease(a)
  BY <1>1
  DEF Lease, SaturatingInc, decision, captures, tasks, Awaits, TypeOK, Blamed,
      RealErrorKept, Errors
<1>2. CASE Turns
  BY <1>2
  DEF Turns, Climbs, Climb, Fail, spawn_unserved, decision, captures, tasks, Awaits,
      TypeOK, Blamed, RealErrorKept, Errors
<1>3. CASE Switch
  <2>1. last_error' = "Upstream" /\ result' = None  BY <1>3 DEF Switch, Blamed, Awaits
  <2> QED BY <2>1 DEF Blamed, RealErrorKept, Errors
<1>4. CASE Lost
  <2>1. last_error' = "Upstream" /\ result' = None  BY <1>4 DEF Lost, Blamed, Awaits
  <2> QED BY <2>1 DEF Blamed, RealErrorKept, Errors
<1>5. CASE Raced \/ Stop
  BY <1>5
  DEF Raced, Stop, decision, captures, tasks, Awaits, TypeOK, Blamed, RealErrorKept,
      Errors
<1>6. CASE Streaming
  BY <1>6
  DEF Streaming, spawn_unserved, Capture, decision, captures, tasks, Awaits, TypeOK,
      Blamed, RealErrorKept, Errors
<1>7. CASE \E gate \in Judgements, capped \in BOOLEAN : Collected(gate, capped)
  BY <1>7
  DEF Collected, Capture, should_climb, decision, captures, tasks, Awaits, TypeOK, Blamed,
      RealErrorKept, Errors
<1>8. CASE Leave
  BY <1>8
  DEF Leave, decision, captures, tasks, Awaits, TypeOK, Blamed, RealErrorKept, Errors
<1>9. CASE Serve
  BY <1>9
  DEF Serve, decision, captures, tasks, Awaits, TypeOK, Blamed, RealErrorKept, Errors
<1>10. CASE HangUp
  BY <1>10
  DEF HangUp, decision, captures, tasks, Awaits, TypeOK, Blamed, RealErrorKept, Errors
<1>11. CASE PumpEnds \/ WriteAnswer \/ WriteUnserved
  BY <1>11
  DEF PumpEnds, WriteAnswer, WriteUnserved, record_usage, First, requests, decision,
      captures, tasks, Awaits, TypeOK, Blamed, RealErrorKept, Errors
<1>12. CASE UNCHANGED vars
  BY <1>12
  DEF vars, decision, captures, tasks, Awaits, TypeOK, Blamed, RealErrorKept, Errors
<1> QED
  BY <1>1, <1>2, <1>3, <1>4, <1>5, <1>6, <1>7, <1>8, <1>9, <1>10, <1>11, <1>12, TurnCases
  DEF Next, Forward

(* Every action keeps the order of the rows.                               *)
LEMMA StreamStep ==
    ASSUME IInv, [Next]_vars
    PROVE  (StreamOwesNothing /\ ServedRowFirst)'
<1> USE ForwardingAssumption DEF IInv
<1>1. CASE \E a \in Accounts : Lease(a)
  BY <1>1
  DEF Lease, SaturatingInc, decision, captures, tasks, Awaits, TypeOK, Housed,
      StreamOwesNothing, ServedRowFirst, Precedes, Rank, Fates, Row, Held
<1>2. CASE Turns
  BY <1>2
  DEF Turns, Climbs, Climb, Fail, spawn_unserved, decision, captures, tasks, Awaits,
      TypeOK, Housed, StreamOwesNothing, ServedRowFirst, Precedes, Rank, Fates, Row, Held
<1>3. CASE Switch
  BY <1>3
  DEF Switch, decision, captures, tasks, Awaits, TypeOK, Housed, StreamOwesNothing,
      ServedRowFirst, Precedes, Rank, Fates, Row, Held
<1>4. CASE Lost
  BY <1>4
  DEF Lost, Capture, decision, captures, tasks, Awaits, TypeOK, Housed, StreamOwesNothing,
      ServedRowFirst, Precedes, Rank, Fates, Row, Held
<1>5. CASE Raced \/ Stop
  BY <1>5
  DEF Raced, Stop, decision, captures, tasks, Awaits, TypeOK, Housed, StreamOwesNothing,
      ServedRowFirst, Precedes, Rank, Fates, Row, Held
<1>6. CASE Streaming
  BY <1>6
  DEF Streaming, spawn_unserved, Capture, decision, captures, tasks, Awaits, TypeOK,
      Housed, StreamOwesNothing, ServedRowFirst, Precedes, Rank, Fates, Row, Held
<1>7. CASE \E gate \in Judgements, capped \in BOOLEAN : Collected(gate, capped)
  BY <1>7
  DEF Collected, Capture, should_climb, decision, captures, tasks, Awaits, TypeOK, Housed,
      StreamOwesNothing, ServedRowFirst, Precedes, Rank, Fates, Row, Held
<1>8. CASE Leave
  BY <1>8
  DEF Leave, decision, captures, tasks, Awaits, TypeOK, Housed, StreamOwesNothing,
      ServedRowFirst, Precedes, Rank, Fates, Row, Held
<1>9. CASE Serve
  BY <1>9
  DEF Serve, decision, captures, tasks, Awaits, TypeOK, Housed, StreamOwesNothing,
      ServedRowFirst, Precedes, Rank, Fates, Row, Held
<1>10. CASE HangUp
  BY <1>10
  DEF HangUp, decision, captures, tasks, Awaits, TypeOK, Housed, StreamOwesNothing,
      ServedRowFirst, Precedes, Rank, Fates, Row, Held
<1>11. CASE PumpEnds \/ WriteAnswer \/ WriteUnserved
  <2>1. StreamOwesNothing'
    BY <1>11
    DEF PumpEnds, WriteAnswer, WriteUnserved, First, requests, captures, StreamOwesNothing
  <2>2. CASE PumpEnds
    BY <2>1, <2>2 DEF PumpEnds, ServedRowFirst
  <2>3. CASE WriteAnswer
    <3>1. PICK r \in First(writer) : record_usage(r) /\ writer' = writer \ {r}
      BY <2>3 DEF WriteAnswer
    <3>2. (\E q \in writer : q.fate = "served") => r.fate = "served"
      <4>1. r.fate # "served" => Rank(r) \in {1, 2}  BY DEF Rank
      <4>2. \A q \in writer : q.fate = "served" => Rank(q) = 0  BY DEF Rank
      <4> QED BY <3>1, <4>1, <4>2 DEF First, Precedes
    <3> QED BY <2>1, <3>1, <3>2 DEF record_usage, ServedRowFirst
  <2>4. CASE WriteUnserved
    <3>1. writer = {} /\ writer' = {}
      BY <2>4 DEF WriteUnserved, First, Housed
    <3> QED BY <2>1, <3>1 DEF ServedRowFirst
  <2> QED BY <1>11, <2>2, <2>3, <2>4
<1>12. CASE UNCHANGED vars
  BY <1>12
  DEF vars, decision, captures, tasks, Awaits, TypeOK, Housed, StreamOwesNothing,
      ServedRowFirst, Precedes, Rank, Fates, Row, Held
<1> QED
  BY <1>1, <1>2, <1>3, <1>4, <1>5, <1>6, <1>7, <1>8, <1>9, <1>10, <1>11, <1>12, TurnCases
  DEF Next, Forward

(* The inductive invariant holds throughout.                               *)
THEOREM ForwardingInvariant == Spec => []IInv
<1>1. IInv /\ [Next]_vars => IInv'
  BY TypeStep, CountStep, HouseStep, BookStep, TrackStep, BlameStep, StreamStep DEF IInv
<1> QED BY InitIInv, <1>1, PTL DEF Spec

(* The loops' state and every row stay in their types: a rung is on the    *)
(* ladder, an ordinal in a u8.                                             *)
THEOREM ForwardingTypeCorrect == Spec => []TypeOK
<1>1. IInv => TypeOK  BY DEF IInv
<1> QED BY ForwardingInvariant, <1>1, PTL

(* run_with_escalation sends a request at most (MaxSwitches + 1) *         *)
(* (MaxEscalations + 1) times.                                             *)
THEOREM SendsAreBounded == Spec => []SendsBounded
<1>1. IInv => SendsBounded  BY DEF IInv, Counted, SendsBounded
<1> QED BY ForwardingInvariant, <1>1, PTL

(* No two generations of a request share a (request_id, attempt), and none *)
(* has a row both pending and written, as long as u8 can count the sends.  *)
THEOREM RowsAreDistinct == Spec => []RowsDistinct
<1>1. IInv => RowsDistinct
  <2> SUFFICES ASSUME IInv PROVE RowsDistinct  OBVIOUS
  <2>1. \A r \in Owed \cup ledger : r.n \in Nat /\ r.attempt \in Nat /\ r.attempt + 1 = r.n
    BY ForwardingAssumption DEF IInv, TypeOK, Owed, Held, Row, Booked
  <2>2. Ids(Owed) \cap Ids(ledger) = {}  BY DEF IInv, Booked, Ids
  <2> QED BY <2>1, <2>2 DEF RowsDistinct
<1> QED BY ForwardingInvariant, <1>1, PTL

(* The failover loop never dispatches to a credential twice on one rung.   *)
THEOREM NeverTwice == Spec => NeverTwiceOnARung
<1>1. ASSUME IInv, [Next]_vars, sent' # sent PROVE tried' # tried
  <2>1. \E a \in Accounts : Lease(a)
    BY <1>1, TurnCases
    DEF Next, Forward, Turns, Switch, Lost, Raced, Stop, Streaming, Collected, Leave,
        Serve, HangUp, PumpEnds, WriteAnswer, WriteUnserved, requests, vars
  <2>2. PICK a \in Accounts : Lease(a)  BY <2>1
  <2>3. <<rung, a>> \notin tried
    <3>1. a \notin excluded \cup {lease} /\ pc \in Awaits
      BY <1>1, <2>2, ForwardingAssumption DEF Lease, IInv, Tracked, Awaits
    <3>2. \A t \in tried : t[1] = rung => t[2] # a
      BY <1>1, <3>1 DEF IInv, Tracked
    <3> QED BY <3>2
  <2>4. <<rung, a>> \in tried'  BY <2>2 DEF Lease
  <2> QED BY <2>3, <2>4
<1>2. IInv /\ [Next]_vars => [sent' # sent => tried' # tried]_vars  BY <1>1
<1> QED BY ForwardingInvariant, <1>2, PTL DEF Spec, NeverTwiceOnARung

(* A failed request answers with the last rung's own failure.              *)
THEOREM RealErrorIsKept == Spec => []RealErrorKept
<1>1. IInv => RealErrorKept  BY DEF IInv, Blamed
<1> QED BY ForwardingInvariant, <1>1, PTL

(* A streamed request has nothing captured for spawn_unserved.             *)
THEOREM StreamsOweNothing == Spec => []StreamOwesNothing
<1>1. IInv => StreamOwesNothing  BY DEF IInv
<1> QED BY ForwardingInvariant, <1>1, PTL

(* Neither path climbs for a request that named its model or whose         *)
(* principal is near the budget.                                           *)
THEOREM ClimbsLicensed == Spec => []ClimbsAreLicensed
<1>1. IInv => ClimbsAreLicensed
  BY DEF IInv, Licensed, ClimbsAreLicensed, TypeOK
<1> QED BY ForwardingInvariant, <1>1, PTL

(* The served row is written before the rows of the attempts it replaced.  *)
THEOREM ServedFirst == Spec => []ServedRowFirst
<1>1. IInv => ServedRowFirst  BY DEF IInv
<1> QED BY ForwardingInvariant, <1>1, PTL

-----------------------------------------------------------------------------
(* Forwarding keeps the promise of module Billing (its safety part).       *)

LEMMA BillingInit == Init => Bill!Init
BY DEF Init, Bill!Init, Ids

(* Each step of the request is a step of its bill, or none.                *)
LEMMA BillingStep ==
    ASSUME IInv, [Next]_vars
    PROVE  [Bill!Next]_(Bill!bill)
<1> USE ForwardingAssumption DEF IInv
<1> DEFINE owing == generated \ (Ids(ledger) \cup waived)
           limit == (MaxSwitches + 1) * (MaxEscalations + 1)
<1>0. /\ \A r \in Owed : r.n \in owing
      /\ Ids(ledger) \subseteq generated /\ waived \subseteq generated
      /\ generated \subseteq 1..sent /\ sent \in 0..limit
  <2>1. \A r \in Owed : r.n \in owing  BY DEF Booked, Ids
  <2>2. Ids(ledger) \subseteq generated  BY DEF Booked, Ids
  <2>3. limit \in Nat  BY RungRoom
  <2> QED BY <2>1, <2>2, <2>3 DEF Booked, Counted, TypeOK
<1>1. ASSUME UNCHANGED <<generated, ledger, waived>>, pc = "gone" <=> pc' = "gone"
      PROVE  UNCHANGED Bill!bill
  BY <1>1 DEF Bill!bill, Ids
<1>2. ASSUME generated' = generated \cup {sent}, UNCHANGED <<ledger, waived>>,
             pc = "wire", pc' # "gone"
      PROVE  Bill!Generate
  <2>1. sent \in 1..limit
    BY <1>0, <1>2 DEF Numbered, Trying, Awaits, TypeOK
  <2>2. sent \notin generated  BY <1>2 DEF Booked
  <2>3. Ids(ledger)' = Ids(ledger)  BY <1>2 DEF Ids
  <2>4. owing' = owing \cup {sent}  BY <1>0, <1>2, <2>2, <2>3
  <2>5. sent \notin owing \cup Ids(ledger) \cup waived  BY <1>0, <2>2
  <2> QED BY <1>2, <2>1, <2>3, <2>4, <2>5 DEF Bill!Generate
<1>3. ASSUME HangUp PROVE Bill!HangUp
  <2>1. Ids(Held) \subseteq owing
    <3>1. \A r \in Held : r.n \in owing  BY <1>0 DEF Owed
    <3> QED BY <3>1 DEF Ids
  <2>2. /\ pc # "gone" /\ pc' = "gone" /\ UNCHANGED <<generated, ledger>>
        /\ waived' = waived \cup Ids(Held)
    BY <1>3 DEF HangUp, Awaits
  <2>3. Ids(ledger)' = Ids(ledger)  BY <2>2 DEF Ids
  <2>4. owing' = owing \ Ids(Held)  BY <2>2, <2>3
  <2> QED BY <2>1, <2>2, <2>3, <2>4 DEF Bill!HangUp
<1>4. ASSUME NEW r \in Owed, record_usage(r), UNCHANGED <<generated, pc>>
      PROVE  Bill!Book \/ Bill!WriteFails
  <2>1. r.n \in owing  BY <1>0
  <2>2. \A q \in ledger : q.attempt # r.attempt
    <3>1. \A q \in Owed \cup ledger : q.attempt \in Nat /\ q.attempt + 1 = q.n
      BY DEF TypeOK, Owed, Held, Row, Booked
    <3>2. \A q \in ledger : q.n # r.n  BY DEF Booked
    <3> QED BY <3>1, <3>2
  <2>3. CASE ledger' = ledger \cup {r} /\ waived' = waived
    <3>1. Ids(ledger)' = Ids(ledger) \cup {r.n}  BY <2>3 DEF Ids
    <3>2. owing' = owing \ {r.n}  BY <1>4, <2>3, <3>1
    <3> QED BY <1>4, <2>1, <2>3, <3>1, <3>2 DEF Bill!Book
  <2>4. CASE ledger' = ledger /\ waived' = waived \cup {r.n}
    <3>1. Ids(ledger)' = Ids(ledger)  BY <2>4 DEF Ids
    <3>2. owing' = owing \ {r.n}  BY <1>4, <2>4, <3>1
    <3> QED BY <1>4, <2>1, <2>4, <3>1, <3>2 DEF Bill!WriteFails
  <2> QED BY <1>4, <2>2, <2>3, <2>4 DEF record_usage
<1> HIDE DEF owing, limit
<1>5. CASE Turns
  BY <1>1, <1>5 DEF Turns, Climbs, Climb, Fail
<1>6. CASE (\E a \in Accounts : Lease(a)) \/ Switch \/ Raced \/ Stop \/ Leave \/ Serve
  BY <1>1, <1>6 DEF Lease, Switch, Raced, Stop, Leave, Serve
<1>7. CASE Lost \/ Streaming
          \/ \E gate \in Judgements, capped \in BOOLEAN : Collected(gate, capped)
  BY <1>2, <1>7 DEF Lost, Streaming, Collected, Bill!Next
<1>8. CASE HangUp  BY <1>3, <1>8 DEF Bill!Next
<1>9. CASE PumpEnds \/ UNCHANGED vars
  BY <1>1, <1>9 DEF PumpEnds, requests, vars
<1>10. CASE WriteAnswer \/ WriteUnserved
  BY <1>4, <1>10 DEF WriteAnswer, WriteUnserved, First, requests, Owed, Bill!Next
<1> QED
  BY <1>5, <1>6, <1>7, <1>8, <1>9, <1>10, TurnCases DEF Next, Forward

(* The rows a request leaves are those of module Billing: each generation  *)
(* the gateway read is booked at most once and let off only by a failed    *)
(* write or, once, by a hang-up.                                           *)
THEOREM BillingIsImplemented == Spec => Bill!Safe
<1> QED BY ForwardingInvariant, BillingInit, BillingStep, PTL DEF Spec, Bill!Safe

(* The whole of it, for any pools, ladder and limits.                      *)
THEOREM ForwardingIsSafe == Spec => []ForwardingSafe
BY ForwardingTypeCorrect, SendsAreBounded, RowsAreDistinct, RealErrorIsKept, StreamsOweNothing,
   ClimbsLicensed, ServedFirst, PTL DEF ForwardingSafe

=============================================================================
