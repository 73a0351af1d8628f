--------------------------- MODULE BreakerProofs ---------------------------
(***************************************************************************)
(* Safety of the circuit breaker for any number of requests, any           *)
(* threshold, cooldown and retry budget.                                   *)
(***************************************************************************)
EXTENDS Breaker, TLAPS

(* Who may hold what. A probe of the current half-open period is ready or  *)
(* on the wire, and its token is out; an unspent token is in the hands of  *)
(* a request about to send.                                                *)
ProbeInv ==
    /\ half_open_probe_sent => HalfOpen
    /\ probing # {} => HalfOpen /\ half_open_probe_sent
    /\ \A r \in probing : stage[r] \in {"ready", "wire"}
    /\ \A r \in probing : stage[r] = "ready" => r \in held
    /\ \A r \in held : stage[r] = "ready"

(* Nobody from before the trip is still on its way to the wire once the    *)
(* cooldown is over.                                                       *)
SettledInv == HalfOpen => \A r \in Requests : stage[r] \in Prompt => r \in probing

(* A breaker that is not closed stands at its threshold.                   *)
TrippedInv == ~Closed => consecutive_failures >= TripThreshold

(* A request whose failure tripped the breaker has not started a retry,    *)
(* and the breaker has not closed since.                                   *)
RebuffedInv ==
    \A r \in rebuffed : ~Closed /\ stage[r] \in {"idle", "selected", "failed"}

RetryInv == \A r \in Requests : stage[r] = "failed" => attempt[r] < Retries

IInv ==
    /\ TypeOK
    /\ ProbeInv
    /\ OneProbe
    /\ SettledInv
    /\ TrippedInv
    /\ RebuffedInv
    /\ RetryInv
    /\ ~ProbeHangUps => SpentProbeHasOwner

(* What record_success leaves behind.                                      *)
LEMMA SuccessEffect ==
    ASSUME record_success
    PROVE  /\ consecutive_failures' = 0 /\ opened_until' = None
           /\ ~half_open_probe_sent' /\ half_open_probe_sent' \in BOOLEAN
           /\ probing' = {} /\ rebuffed' = {}
BY DEF record_success

(* The two outcomes of record_failure: it trips, or only counts.           *)
Tripped(r) ==
    /\ consecutive_failures' >= TripThreshold
    /\ opened_until' = Cooldown
    /\ ~half_open_probe_sent'
    /\ probing' = {}
    /\ rebuffed' = rebuffed \cup {r}

Counted ==
    /\ ~(consecutive_failures' >= TripThreshold)
    /\ consecutive_failures < TripThreshold
    /\ UNCHANGED <<opened_until, half_open_probe_sent, probing, rebuffed>>

(* A recorded failure trips exactly at the threshold, and the counter      *)
(* stays in its range.                                                     *)
LEMMA FailureEffect ==
    ASSUME TypeOK, NEW r \in Requests, record_failure(r)
    PROVE  /\ consecutive_failures' \in 0..MaxCount
           /\ half_open_probe_sent' \in BOOLEAN
           /\ Tripped(r) \/ Counted
<1>1. consecutive_failures' = SaturatingInc(consecutive_failures)
  BY DEF record_failure
<1>2. /\ consecutive_failures' \in 0..MaxCount
      /\ consecutive_failures \in Nat
      /\ consecutive_failures' >= consecutive_failures
  BY <1>1, BreakerAssumption DEF TypeOK, SaturatingInc
<1>3. CASE consecutive_failures' >= TripThreshold
  BY <1>1, <1>2, <1>3 DEF record_failure, Tripped
<1>4. CASE ~(consecutive_failures' >= TripThreshold)
  <2>1. UNCHANGED <<opened_until, half_open_probe_sent, probing, rebuffed>>
    BY <1>1, <1>4 DEF record_failure
  <2>2. consecutive_failures < TripThreshold
    BY <1>2, <1>4, BreakerAssumption
  <2> QED BY <1>2, <1>4, <2>1, <2>2 DEF Counted, TypeOK
<1> QED BY <1>3, <1>4

LEMMA InitInv == Init => IInv
<1> SUFFICES ASSUME Init PROVE IInv
  OBVIOUS
<1>1. ~half_open_probe_sent /\ half_open_probe_sent \in BOOLEAN
  BY DEF Init
<1>2. /\ consecutive_failures = 0 /\ opened_until = None
      /\ stage = [r \in Requests |-> "idle"]
      /\ attempt = [r \in Requests |-> 0]
      /\ held = {} /\ probing = {} /\ rebuffed = {}
  BY DEF Init
<1> QED
  BY <1>1, <1>2, BreakerAssumption
  DEF IInv, TypeOK, ProbeInv, OneProbe, SettledInv, TrippedInv, RebuffedInv,
           RetryInv, SpentProbeHasOwner, Stages, Prompt, Closed, HalfOpen, Open

(* The strengthened invariant is preserved by every step.                  *)
LEMMA StepInv ==
    ASSUME IInv, [Next]_vars PROVE IInv'
<1> USE BreakerAssumption
    DEF IInv, TypeOK, ProbeInv, OneProbe, SettledInv, TrippedInv, RebuffedInv,
        RetryInv, SpentProbeHasOwner, Stages, Prompt, Closed, HalfOpen, Open
<1>1. ASSUME NEW r \in Requests,
             \/ Select(r)      \/ ClaimAdmitted(r) \/ ClaimProbe(r)
             \/ ClaimDenied(r) \/ NeverSent(r)     \/ Send(r)
             \/ Succeed(r)     \/ FailRetryable(r) \/ FailFinal(r)
             \/ Recheck(r)     \/ Resume(r)        \/ HangUpOnWire(r)
      PROVE  IInv'
  <2>1. CASE Select(r)
    BY <2>1 DEF Select, At, breaker, Goes
  <2>2. CASE ClaimAdmitted(r)
    BY <2>2 DEF ClaimAdmitted, At, breaker, Goes
  <2>3. CASE ClaimProbe(r)
    BY <2>3 DEF ClaimProbe, At, breaker, Goes
  <2>4. CASE ClaimDenied(r)
    BY <2>4 DEF ClaimDenied, At, breaker, Goes, Ends
  <2>5. CASE NeverSent(r)
    <3>1. CASE r \in held
      <4>1. ~half_open_probe_sent' /\ half_open_probe_sent' \in BOOLEAN
        BY <3>1, <2>5 DEF NeverSent, DropDispatch
      <4>2. /\ stage' = [stage EXCEPT ![r] = "idle"]
            /\ attempt' = [attempt EXCEPT ![r] = 0]
            /\ held' = held \ {r} /\ probing' = probing \ {r}
            /\ UNCHANGED <<consecutive_failures, opened_until, rebuffed>>
        BY <2>5 DEF NeverSent, DropDispatch, Ends, Goes
      <4>3. probing \ {r} = {}
        BY <3>1
      <4> QED
        BY <3>1, <4>1, <4>2, <4>3
    <3>2. CASE r \notin held
      BY <3>2, <2>5 DEF NeverSent, DropDispatch, Ends, Goes
    <3> QED BY <3>1, <3>2
  <2>6. CASE Send(r)
    BY <2>6 DEF Send, At, breaker, Goes
  <2>7. CASE Succeed(r)
    BY <2>7, SuccessEffect DEF Succeed, At, Ends, Goes
  <2>8. CASE FailRetryable(r)
    <3>1. record_failure(r) /\ TypeOK
      BY <2>8 DEF FailRetryable, IInv
    <3>2. CASE Tripped(r)
      BY <3>2, <3>1, <2>8, FailureEffect DEF Tripped, FailRetryable, At, Goes
    <3>3. CASE Counted
      BY <3>3, <3>1, <2>8, FailureEffect DEF Counted, FailRetryable, At, Goes
    <3> QED BY <3>1, <3>2, <3>3, FailureEffect
  <2>9. CASE FailFinal(r)
    <3>1. record_failure(r) /\ TypeOK
      BY <2>9 DEF FailFinal, IInv
    <3>2. CASE Tripped(r)
      BY <3>2, <3>1, <2>9, FailureEffect DEF Tripped, FailFinal, At, Goes, Ends
    <3>3. CASE Counted
      BY <3>3, <3>1, <2>9, FailureEffect DEF Counted, FailFinal, At, Goes, Ends
    <3> QED BY <3>1, <3>2, <3>3, FailureEffect
  <2>10. CASE Recheck(r)
    BY <2>10 DEF Recheck, At, breaker, Goes, Ends, permits
  <2>11. CASE Resume(r)
    BY <2>11 DEF Resume, At, breaker, Goes
  <2>12. CASE HangUpOnWire(r)
    BY <2>12 DEF HangUpOnWire, At, breaker, Goes, Ends
  <2> QED
    BY <1>1, <2>1, <2>2, <2>3, <2>4, <2>5, <2>6, <2>7, <2>8, <2>9, <2>10, <2>11, <2>12
<1>2. CASE Clear
  <2>1. record_success /\ UNCHANGED <<stage, attempt, held>>
    BY <1>2 DEF Clear
  <2> QED
    BY <2>1, SuccessEffect
<1>3. CASE Tick
  BY <1>3 DEF Tick
<1>4. CASE UNCHANGED vars
  BY <1>4 DEF vars
<1> QED BY <1>1, <1>2, <1>3, <1>4 DEF Next

THEOREM Invariance == Spec => []IInv
BY InitInv, StepInv, PTL DEF Spec

(* The state is well typed: the counter saturates and no request retries   *)
(* past its budget.                                                        *)
THEOREM TypeCorrect == Spec => []TypeOK
<1>1. IInv => TypeOK BY DEF IInv
<1> QED BY <1>1, Invariance, PTL

(* Whatever stale requests do, at most one probe of a half-open period is  *)
(* out (breaker.rs begin_request).                                         *)
THEOREM ProbeIsUnique == Spec => []OneProbe
<1>1. IInv => OneProbe BY DEF IInv
<1> QED BY <1>1, Invariance, PTL

(* If no client of a probe hangs up while it is on the wire, a spent probe *)
(* always has a request behind it: Dispatch::drop returns every other one. *)
THEOREM ProbeIsOwned == ~ProbeHangUps => (Spec => []SpentProbeHasOwner)
<1> SUFFICES ASSUME ~ProbeHangUps PROVE Spec => []SpentProbeHasOwner
  OBVIOUS
<1>1. IInv => SpentProbeHasOwner BY DEF IInv
<1> QED BY <1>1, Invariance, PTL

(* Only the probe reaches the wire of a half-open credential.              *)
THEOREM OnlyTheProbe == Spec => HalfOpenCarriesOnlyTheProbe
<1>1. IInv => \A r \in Requests : HalfOpen /\ At(r, "ready") => r \in probing
  BY DEF IInv, SettledInv, Prompt, At
<1>2. IInv => [\A r \in Requests :
                HalfOpen /\ At(r, "ready") /\ stage'[r] = "wire" => r \in probing]_vars
  BY <1>1
<1> QED BY <1>2, Invariance, PTL DEF HalfOpenCarriesOnlyTheProbe

(* A request does not retry into the trip its own failure caused.          *)
THEOREM RetriesStop == Spec => NoRetryIntoOwnTrip
<1>1. IInv => \A r \in Requests : At(r, "ready") => r \notin rebuffed
  BY DEF IInv, RebuffedInv, At
<1>2. IInv => [\A r \in Requests :
                At(r, "ready") /\ stage'[r] = "wire" => r \notin rebuffed]_vars
  BY <1>1
<1> QED BY <1>2, Invariance, PTL DEF NoRetryIntoOwnTrip

(* A failure against a breaker that is not closed re-arms its cooldown.    *)
THEOREM FailedProbeReArms == Spec => FailureReArms
<1>1. ASSUME IInv, NEW r \in Requests, ~Closed, FailRetryable(r) \/ FailFinal(r)
      PROVE  opened_until' = Cooldown /\ ~half_open_probe_sent'
  <2>1. record_failure(r) /\ TypeOK /\ consecutive_failures >= TripThreshold
    BY <1>1 DEF FailRetryable, FailFinal, IInv, TrippedInv
  <2>2. ~Counted
    BY <2>1, BreakerAssumption DEF Counted, TypeOK
  <2> QED BY <2>1, <2>2, FailureEffect DEF Tripped
<1>2. IInv => [\A r \in Requests :
                ~Closed /\ (FailRetryable(r) \/ FailFinal(r))
                  => opened_until' = Cooldown /\ ~half_open_probe_sent']_vars
  BY <1>1
<1> QED BY <1>2, Invariance, PTL DEF FailureReArms

(* The breaker's state is safe for any number of requests, any threshold   *)
(* and any cooldown, when no client of a probe hangs up on the wire.       *)
THEOREM BreakerSafe == ~ProbeHangUps => (Spec => []ProbeIsSafe)
<1> SUFFICES ASSUME ~ProbeHangUps PROVE Spec => []ProbeIsSafe
  OBVIOUS
<1>1. IInv => ProbeIsSafe BY DEF IInv, ProbeIsSafe
<1> QED BY <1>1, Invariance, PTL

(* The three things no step of the breaker or of its callers does.         *)
THEOREM BreakerStepsHold == Spec => BreakerSteps
BY OnlyTheProbe, RetriesStop, FailedProbeReArms DEF BreakerSteps

=============================================================================
