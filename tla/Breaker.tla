------------------------------ MODULE Breaker ------------------------------
(***************************************************************************)
(* The circuit breaker of one credential on one replica, and the requests  *)
(* that go through it: oag-pool/src/breaker.rs (the counter), breakers.rs  *)
(* of oag-server (the mutex-guarded map and the Dispatch guard) and the    *)
(* part of gateway/failover.rs that claims, sends, records and retries.    *)
(*                                                                         *)
(* Every call on the breaker takes the map's mutex, so each is one atomic  *)
(* step; everything a request awaits between two calls is a point where    *)
(* other requests, the clock, an operator and its own client may move.     *)
(*                                                                         *)
(* Time is kept as what is left: opened_until is the number of ticks until *)
(* the cooldown ends, 0 once it has, None for a closed breaker.            *)
(***************************************************************************)
EXTENDS Naturals

CONSTANTS
    Requests,       \* the requests that use this credential
    TripThreshold,  \* breakers.rs TRIP_THRESHOLD (5)
    Cooldown,       \* breakers.rs COOLDOWN, in ticks
    Retries,        \* gateway.same_account_retries
    MaxCount,       \* where consecutive_failures saturates (u32::MAX)
    ProbeHangUps,   \* whether the client of a probe may hang up while it is on the wire
    None            \* Option::None

ASSUME BreakerAssumption ==
    /\ TripThreshold \in Nat \ {0}
    /\ Cooldown \in Nat \ {0}
    /\ Retries \in Nat
    /\ MaxCount \in Nat /\ MaxCount >= TripThreshold
    /\ ProbeHangUps \in BOOLEAN
    /\ None \notin Nat

VARIABLES
    consecutive_failures,
    opened_until,
    half_open_probe_sent,
    stage,    \* where each request is in try_credential
    attempt,  \* each request's same-credential retry index
    held,     \* requests whose Dispatch guard still holds an unspent probe
    probing,  \* history: the probes of the current half-open period still out
    rebuffed  \* history: requests whose own failure left the breaker tripped

breaker == <<consecutive_failures, opened_until, half_open_probe_sent>>
vars == <<consecutive_failures, opened_until, half_open_probe_sent,
          stage, attempt, held, probing, rebuffed>>

(* idle; selected by the pool, refreshing its token; holding the Dispatch  *)
(* and about to send; on the wire; failure recorded, retry undecided;      *)
(* sleeping before a same-credential retry.                                *)
Stages == {"idle", "selected", "ready", "wire", "failed", "backoff"}

(* Stages that last milliseconds, or at most MAX_BACKOFF (3 s), against a  *)
(* cooldown of a minute.                                                   *)
Prompt == {"ready", "failed", "backoff"}

Init ==
    /\ consecutive_failures = 0
    /\ opened_until = None
    /\ half_open_probe_sent = FALSE
    /\ stage = [r \in Requests |-> "idle"]
    /\ attempt = [r \in Requests |-> 0]
    /\ held = {}
    /\ probing = {}
    /\ rebuffed = {}

-----------------------------------------------------------------------------
(* The breaker itself.                                                     *)

Closed   == opened_until = None
HalfOpen == opened_until = 0
Open     == ~Closed /\ ~HalfOpen

permits == Closed \/ (HalfOpen /\ ~half_open_probe_sent)

record_success ==
    /\ consecutive_failures' = 0
    /\ opened_until' = None
    /\ half_open_probe_sent' = FALSE
    /\ probing' = {}
    /\ rebuffed' = {}

\* The counter does not saturate.
WrappingInc(n) == n + 1

SaturatingInc(n) == IF n < MaxCount THEN n + 1 ELSE n

\* Trips on the exact count, so a later failure no longer re-arms the cooldown.
TripsAtExactly(r) ==
    LET n == SaturatingInc(consecutive_failures) IN
    /\ consecutive_failures' = n
    /\ IF n = TripThreshold
       THEN /\ opened_until' = Cooldown
            /\ half_open_probe_sent' = FALSE
            /\ probing' = {}
            /\ rebuffed' = rebuffed \cup {r}
       ELSE UNCHANGED <<opened_until, half_open_probe_sent, probing, rebuffed>>

record_failure(r) ==
    LET n == SaturatingInc(consecutive_failures) IN
    /\ consecutive_failures' = n
    /\ IF n >= TripThreshold
       THEN /\ opened_until' = Cooldown
            /\ half_open_probe_sent' = FALSE
            /\ probing' = {}
            /\ rebuffed' = rebuffed \cup {r}
       ELSE UNCHANGED <<opened_until, half_open_probe_sent, probing, rebuffed>>

\* The guard forgets to hand an unspent probe back.
DropKeepsProbe(r) ==
    /\ held' = held \ {r}
    /\ UNCHANGED breaker

(* Dropping a Dispatch gives the probe back if it is still unspent.        *)
DropDispatch(r) ==
    /\ half_open_probe_sent' = IF r \in held THEN FALSE ELSE half_open_probe_sent
    /\ held' = held \ {r}
    /\ UNCHANGED <<consecutive_failures, opened_until>>

-----------------------------------------------------------------------------
(* One request's passage through try_credential.                           *)

At(r, s) == stage[r] = s
Goes(r, s) == stage' = [stage EXCEPT ![r] = s]

(* The request leaves this credential; its retry index goes with it.       *)
Ends(r) ==
    /\ Goes(r, "idle")
    /\ attempt' = [attempt EXCEPT ![r] = 0]

(* candidates_for offers the credential only while the breaker permits it. *)
Select(r) ==
    /\ At(r, "idle")
    /\ permits
    /\ Goes(r, "selected")
    /\ UNCHANGED <<breaker, attempt, held, probing, rebuffed>>

ClaimAdmitted(r) ==
    /\ At(r, "selected")
    /\ Closed
    /\ Goes(r, "ready")
    /\ rebuffed' = rebuffed \ {r}
    /\ UNCHANGED <<breaker, attempt, held, probing>>

\* Hands out the probe without asking whether one is already out.
ClaimAnyProbe(r) ==
    /\ At(r, "selected")
    /\ HalfOpen
    /\ half_open_probe_sent' = TRUE
    /\ held' = held \cup {r}
    /\ probing' = probing \cup {r}
    /\ rebuffed' = rebuffed \ {r}
    /\ Goes(r, "ready")
    /\ UNCHANGED <<consecutive_failures, opened_until, attempt>>

ClaimProbe(r) ==
    /\ At(r, "selected")
    /\ HalfOpen /\ ~half_open_probe_sent
    /\ half_open_probe_sent' = TRUE
    /\ held' = held \cup {r}
    /\ probing' = probing \cup {r}
    /\ rebuffed' = rebuffed \ {r}
    /\ Goes(r, "ready")
    /\ UNCHANGED <<consecutive_failures, opened_until, attempt>>

(* Denied: the request moves to another credential (Outcome::Raced).       *)
ClaimDenied(r) ==
    /\ At(r, "selected")
    /\ ~permits
    /\ Ends(r)
    /\ UNCHANGED <<breaker, held, probing, rebuffed>>

(* The token could not be refreshed, the request built or a transport had, *)
(* or the client hung up before anything was sent: the Dispatch, if there  *)
(* is one yet, is dropped.                                                 *)
NeverSent(r) ==
    /\ stage[r] \in {"selected", "ready", "backoff"}
    /\ Ends(r)
    /\ DropDispatch(r)
    /\ probing' = probing \ {r}
    /\ UNCHANGED rebuffed

(* dispatch.sent(), then transport.execute.                                *)
Send(r) ==
    /\ At(r, "ready")
    /\ Goes(r, "wire")
    /\ held' = held \ {r}
    /\ UNCHANGED <<breaker, attempt, probing, rebuffed>>

(* A 2xx: recorded before any of the body is read.                         *)
Succeed(r) ==
    /\ At(r, "wire")
    /\ Ends(r)
    /\ record_success
    /\ UNCHANGED held

(* A status worth one more try on this credential (408, 409, 425), or a    *)
(* transport error, with retries left.                                     *)
FailRetryable(r) ==
    /\ At(r, "wire")
    /\ attempt[r] < Retries
    /\ record_failure(r)
    /\ Goes(r, "failed")
    /\ UNCHANGED <<attempt, held>>

(* Any other status, a silent upstream, or the last retry.                 *)
FailFinal(r) ==
    /\ At(r, "wire")
    /\ Ends(r)
    /\ record_failure(r)
    /\ UNCHANGED held

(* The breaker is asked again after the failure it has just recorded.      *)
Recheck(r) ==
    /\ At(r, "failed")
    /\ IF permits
       THEN /\ Goes(r, "backoff")
            /\ attempt' = [attempt EXCEPT ![r] = @ + 1]
       ELSE Ends(r)
    /\ UNCHANGED <<breaker, held, probing, rebuffed>>

Resume(r) ==
    /\ At(r, "backoff")
    /\ Goes(r, "ready")
    /\ UNCHANGED <<breaker, attempt, held, probing, rebuffed>>

(* A client that hangs up while transport.execute is awaited cancels the   *)
(* handler's future: no outcome is recorded, and the Dispatch, already     *)
(* marked sent, gives nothing back.                                        *)
HangUpOnWire(r) ==
    /\ At(r, "wire")
    /\ r \in probing => ProbeHangUps
    /\ Ends(r)
    /\ probing' = probing \ {r}
    /\ UNCHANGED <<breaker, held, rebuffed>>

-----------------------------------------------------------------------------
(* The operator and the clock.                                             *)

(* Breakers::clear, from the admin endpoint that clears a cooldown.        *)
Clear ==
    /\ record_success
    /\ UNCHANGED <<stage, attempt, held>>

(* One unit of time. The last tick of a cooldown waits for the requests in *)
(* a Prompt stage: any of those has been there since before this tick,     *)
(* while a cooldown outlasts every such stage many times over.             *)
Tick ==
    /\ Open
    /\ opened_until = 1 => \A r \in Requests : stage[r] \notin Prompt
    /\ opened_until' = opened_until - 1
    /\ UNCHANGED <<consecutive_failures, half_open_probe_sent,
                   stage, attempt, held, probing, rebuffed>>

Next ==
    \/ \E r \in Requests :
          \/ Select(r)        \/ ClaimAdmitted(r) \/ ClaimProbe(r)
          \/ ClaimDenied(r)   \/ NeverSent(r)     \/ Send(r)
          \/ Succeed(r)       \/ FailRetryable(r) \/ FailFinal(r)
          \/ Recheck(r)       \/ Resume(r)        \/ HangUpOnWire(r)
    \/ Clear
    \/ Tick

(* A request that was selected keeps moving: every await it makes ends, by *)
(* an answer, an error or a timeout (the transport has a response timeout).*)
(* No request need arrive, no client need hang up and no operator need     *)
(* clear anything.                                                         *)
Fairness ==
    /\ \A r \in Requests :
         /\ WF_vars(ClaimAdmitted(r) \/ ClaimProbe(r) \/ ClaimDenied(r))
         /\ WF_vars(Send(r))
         /\ WF_vars(Succeed(r) \/ FailFinal(r))
         /\ WF_vars(Recheck(r))
         /\ WF_vars(Resume(r))
    /\ WF_vars(Tick)

Spec == Init /\ [][Next]_vars /\ Fairness

-----------------------------------------------------------------------------
(* The type of the state. The failure counter saturates (breaker.rs        *)
(* record_failure) and a request never retries past same_account_retries.  *)
TypeOK ==
    /\ consecutive_failures \in 0..MaxCount
    /\ opened_until \in (0..Cooldown) \cup {None}
    /\ half_open_probe_sent \in BOOLEAN
    /\ stage \in [Requests -> Stages]
    /\ attempt \in [Requests -> 0..Retries]
    /\ held \subseteq Requests
    /\ probing \subseteq Requests
    /\ rebuffed \subseteq Requests

(* At most one probe of a half-open period is out, whatever stale requests *)
(* from before the trip do meanwhile: they may fail, succeed, be dropped   *)
(* or give back a probe they held from an earlier period.                  *)
OneProbe == \A r, s \in probing : r = s

(* In a half-open breaker a spent probe has a request behind it that will  *)
(* settle it. Otherwise nothing on this replica would ever use the         *)
(* credential again without an operator.                                   *)
SpentProbeHasOwner ==
    HalfOpen /\ half_open_probe_sent => probing # {}

(* Nothing but the probe reaches the wire of a half-open credential: not a *)
(* same-credential retry, which sends without claiming again, and not a    *)
(* request admitted before the trip.                                       *)
HalfOpenCarriesOnlyTheProbe ==
    [][\A r \in Requests :
         HalfOpen /\ At(r, "ready") /\ stage'[r] = "wire" => r \in probing]_vars

(* A request whose own failure tripped the breaker, or found it tripped,   *)
(* does not send its remaining same-credential retries into it.            *)
NoRetryIntoOwnTrip ==
    [][\A r \in Requests :
         At(r, "ready") /\ stage'[r] = "wire" => r \notin rebuffed]_vars

(* A failure recorded against a breaker that is not closed always takes    *)
(* the credential out for a whole further cooldown: the counter still      *)
(* stands at the threshold, so a failed probe re-arms rather than counting *)
(* up from zero.                                                           *)
FailureReArms ==
    [][\A r \in Requests :
         ~Closed /\ (FailRetryable(r) \/ FailFinal(r))
           => opened_until' = Cooldown /\ ~half_open_probe_sent']_vars

(* A credential that was taken out is offered again: the cooldown runs     *)
(* off, and a probe that is out comes back with an outcome or is returned. *)
OfferedAgain == ~permits ~> permits

(* What a reader of the breaker relies on in every state: the types, and a *)
(* half-open period that one request, still there to settle it, is testing *)
(* (breaker.rs begin_request, Dispatch::drop).                             *)
ProbeIsSafe == TypeOK /\ OneProbe /\ SpentProbeHasOwner

(* What no step may do: send anything but the probe to a half-open         *)
(* credential, retry into one's own trip, or count a failed probe up from  *)
(* zero.                                                                   *)
BreakerSteps == HalfOpenCarriesOnlyTheProbe /\ NoRetryIntoOwnTrip /\ FailureReArms

=============================================================================
