----------------------------- MODULE Forwarding -----------------------------
(***************************************************************************)
(* One client request through the gateway once it has been routed: the     *)
(* failover loop over credentials (gateway/failover.rs), the escalation    *)
(* loop over rungs around it (gateway/climb.rs), and the ledger rows both  *)
(* leave behind (gateway/meter.rs, repo/usage.rs).                         *)
(*                                                                         *)
(* The two loops run on the request handler's future, which the client     *)
(* cancels by hanging up: every await is a value of pc, and HangUp may     *)
(* strike at each. Rows are written by detached tasks, which it cannot     *)
(* reach. What one credential came to (refresh, breaker, retries) is the   *)
(* Outcome of try_credential; modules Breaker and Slots look inside.       *)
(***************************************************************************)
EXTENDS Naturals, Sequences

CONSTANTS
    Accounts,        \* credentials
    Providers,
    PoolOf,          \* the credentials of each provider
    Ladder,          \* per rung, the providers of its satisfying models, in order
    MaxSwitches,     \* gateway.max_account_switches
    MaxEscalations,  \* MAX_ESCALATIONS
    MaxOrdinal,      \* u8::MAX
    None

(* What a failed request answers, by what the escalation loop makes of it. *)
Errors == {"NoCredential", "ReserveHeld", "Busy", "Upstream", "Refused", "Fatal"}

(* The last conjunct is what keeps Dispatches from saturating; the defaults*)
(* are 3 switches and 1 escalation against 255.                            *)
ASSUME ForwardingAssumption ==
    /\ PoolOf \in [Providers -> SUBSET Accounts]
    /\ Ladder \in Seq(Seq(Providers))
    /\ MaxSwitches \in Nat
    /\ MaxEscalations \in Nat
    /\ MaxOrdinal \in Nat
    /\ None \notin Accounts \cup Errors
    /\ (MaxSwitches + 1) * (MaxEscalations + 1) <= MaxOrdinal + 1

VARIABLES
    req,          \* what routing settled: stream, passthrough, pressured
    pc,           \* the await the request future is at
    rung,         \* decision.tier: an index of Ladder, 0 off the ladder
    provider,     \* decision.model.provider
    escalations,
    trigger,      \* triggering_gate
    switch,       \* index of the failover loop
    excluded,
    last_error,
    next,         \* Dispatches::next
    attempt,      \* the ordinal of the dispatch at hand
    lease,        \* the credential leased, or None
    abandoned,    \* rows captured and held on the request future
    lost,
    answer,       \* the row of the answer about to be served
    unserved,     \* rows left to the task spawn_unserved started
    writer,       \* rows left to the task that serves the answer
    pumping,      \* whether that task is still pumping the stream
    ledger,       \* rows of usage_event for this request
    result,       \* what the client was answered, None before
    sent,         \* history: the number of dispatches
    tried,        \* history: the rung and credential of every dispatch
    generated,    \* history: dispatches whose answer the gateway read
    waived,       \* history: dispatches whose row will never be written
    struck        \* history: whether a try on this rung failed for a reason

decision == <<rung, provider, escalations, trigger>>
captures == <<abandoned, lost, answer>>
tasks == <<unserved, writer, pumping>>
vars == <<req, pc, rung, provider, escalations, trigger, switch, excluded,
          last_error, next, attempt, lease, abandoned, lost, answer, unserved,
          writer, pumping, ledger, result, sent, tried, generated, waived, struck>>

Rungs == DOMAIN Ladder
Requests == [stream : BOOLEAN, passthrough : BOOLEAN, pressured : BOOLEAN]
Gates == {"NoCredential", "ContextOverflow", "Truncated", "Unusable"}
(* quality_gate: the caps, or one of EmptyResponse, Refusal and            *)
(* MalformedToolCall, which are treated alike; None for a usable answer.   *)
Judgements == {"Truncated", "Unusable", None}
Fates == {"served", "abandoned", "lost"}
Row == [n : Nat, attempt : 0..MaxOrdinal, fate : Fates, gate : Gates \cup {None}]

(* pick: in select::lease; wire: in try_credential; leave, refuse, reject, *)
(* abandon, serve: in Lease::release on the way to the next credential, to *)
(* an error, to a judgement, to a rung up, to the response.                *)
Awaits == {"pick", "wire", "leave", "refuse", "reject", "abandon", "serve"}

Held == abandoned \cup lost \cup answer
Ids(rows) == {r.n : r \in rows}

(* plan_request: a named model is passed through, on the ladder or off it; *)
(* any other request is put on a rung and takes its first model.           *)
Init ==
    /\ req \in Requests
    /\ \/ /\ req.passthrough
          /\ rung \in Rungs \cup {0}
          /\ provider \in Providers
       \/ /\ ~req.passthrough
          /\ rung \in {i \in Rungs : Ladder[i] # <<>>}
          /\ provider = Ladder[rung][1]
    /\ pc = "pick"
    /\ escalations = 0
    /\ trigger = None
    /\ switch = 0
    /\ excluded = {}
    /\ last_error = "NoCredential"
    /\ next = 0
    /\ attempt = 0
    /\ lease = None
    /\ abandoned = {} /\ lost = {} /\ answer = {}
    /\ unserved = {} /\ writer = {} /\ pumping = FALSE
    /\ ledger = {}
    /\ result = None
    /\ sent = 0
    /\ tried = {} /\ generated = {} /\ waived = {}
    /\ struck = FALSE

-----------------------------------------------------------------------------
(* The ladder.                                                             *)

Nearest(S, j) == j \in S /\ \A k \in S : j <= k

Viable(i) == {j \in Rungs : j > i /\ Ladder[j] # <<>>}

(* escalate: the first rung above with a model, and the first of them.     *)
Escalate(j, p) ==
    /\ Nearest(Viable(rung), j)
    /\ p = Ladder[j][1]

(* escalate_past_provider: the first rung above with a model of another    *)
(* provider, and the first such model on it.                               *)
EscalatePastProvider(j, p) ==
    /\ Nearest({i \in Viable(rung) : \E k \in DOMAIN Ladder[i] : Ladder[i][k] # provider}, j)
    /\ \E k \in DOMAIN Ladder[j] :
        /\ p = Ladder[j][k]
        /\ p # provider
        /\ \A l \in DOMAIN Ladder[j] : l < k => Ladder[j][l] = provider

escalation_allowed == ~req.pressured /\ escalations < MaxEscalations

climb_allowed == ~req.passthrough

(* Both ask for decision.tier, which an off-ladder request has not.        *)
should_climb(gate, capped) ==
    /\ climb_allowed
    /\ ~(gate = "Truncated" /\ capped)
    /\ escalation_allowed
    /\ rung # 0

pool_climb_allowed(e) ==
    /\ e \in {"NoCredential", "ReserveHeld"}
    /\ climb_allowed
    /\ escalation_allowed
    /\ rung # 0

(* The next turn of the loop, which starts the failover loop afresh.       *)
Climb(j, p, gate) ==
    /\ rung' = j
    /\ provider' = p
    /\ escalations' = escalations + 1
    /\ trigger' = gate
    /\ pc' = "pick"
    /\ switch' = 0
    /\ excluded' = {}
    /\ last_error' = "NoCredential"
    /\ struck' = FALSE

-----------------------------------------------------------------------------
(* Leaving the request future.                                             *)

\* Hands over the lost rows and forgets the abandoned one.
SpawnLostOnly ==
    /\ unserved' = lost
    /\ abandoned' = {} /\ lost' = {}

spawn_unserved ==
    /\ unserved' = abandoned \cup lost
    /\ abandoned' = {} /\ lost' = {}

Fail(e) ==
    /\ spawn_unserved
    /\ pc' = "over"
    /\ result' = e
    /\ UNCHANGED <<decision, switch, excluded, last_error, struck>>

(* forward_with_failover returned Err(e).                                  *)
ForwardFailed(e) ==
    \/ /\ pool_climb_allowed(e)
       /\ \E j \in Rungs, p \in Providers :
            EscalatePastProvider(j, p) /\ Climb(j, p, "NoCredential")
       /\ UNCHANGED <<abandoned, lost, unserved, result>>
    \/ /\ ~(pool_climb_allowed(e) /\ \E j \in Rungs, p \in Providers : EscalatePastProvider(j, p))
       /\ Fail(e)

-----------------------------------------------------------------------------
(* The failover loop.                                                      *)

\* The ordinal does not saturate.
WrappingInc(n) == n + 1

SaturatingInc(n) == IF n < MaxOrdinal THEN n + 1 ELSE n

(* select::lease answers with a credential not excluded, and the dispatch  *)
(* takes its number.                                                       *)
Lease(a) ==
    /\ pc = "pick" /\ switch <= MaxSwitches
    /\ a \in PoolOf[provider] \ excluded
    /\ pc' = "wire"
    /\ lease' = a
    /\ attempt' = next
    /\ next' = SaturatingInc(next)
    /\ sent' = sent + 1
    /\ tried' = tried \cup {<<rung, a>>}
    /\ UNCHANGED <<req, decision, switch, excluded, last_error, captures, tasks,
                   ledger, result, generated, waived, struck>>

(* It finds none: an empty pool, one held by its reserve, or one at its    *)
(* capacity. Only the first error of the loop is taken from it.            *)
NoLease(e) ==
    /\ pc = "pick" /\ switch <= MaxSwitches
    /\ e \in {"NoCredential", "ReserveHeld", "Busy"}
    /\ ForwardFailed(IF last_error = "NoCredential" THEN e ELSE last_error)
    /\ UNCHANGED <<req, next, attempt, lease, answer, writer, pumping, ledger,
                   sent, tried, generated, waived>>

(* The loop ends: the failover budget is spent, or the switches are.       *)
GiveUp ==
    /\ pc = "pick" /\ switch > 0
    /\ ForwardFailed(last_error)
    /\ UNCHANGED <<req, next, attempt, lease, answer, writer, pumping, ledger,
                   sent, tried, generated, waived>>

-----------------------------------------------------------------------------
(* What try_credential came to.                                            *)

Capture(fate, gate) == {[n |-> sent, attempt |-> attempt, fate |-> fate, gate |-> gate]}

(* A refused token, an unhealthy or unreachable credential, a timeout, a   *)
(* body that could not be read.                                            *)
Switch ==
    /\ pc = "wire"
    /\ pc' = "leave"
    /\ last_error' = "Upstream"
    /\ struck' = TRUE
    /\ UNCHANGED <<req, decision, switch, excluded, next, attempt, lease, captures,
                   tasks, ledger, result, sent, tried, generated, waived>>

(* A collected stream that died after its first token: only a client that  *)
(* did not ask for a stream has its answer collected.                      *)
Lost ==
    /\ pc = "wire" /\ ~req.stream
    /\ pc' = "leave"
    /\ lost' = lost \cup Capture("lost", None)
    /\ generated' = generated \cup {sent}
    /\ last_error' = "Upstream"
    /\ struck' = TRUE
    /\ UNCHANGED <<req, decision, switch, excluded, next, attempt, lease, abandoned,
                   answer, tasks, ledger, result, sent, tried, waived>>

\* The placeholder error buries the one before it.
RacedIsAnError ==
    /\ pc = "wire"
    /\ pc' = "leave"
    /\ last_error' = "NoCredential"
    /\ UNCHANGED <<req, decision, switch, excluded, next, attempt, lease, captures,
                   tasks, ledger, result, sent, tried, generated, waived, struck>>

(* The half-open probe went to another request; last_error stands.         *)
Raced ==
    /\ pc = "wire"
    /\ pc' = "leave"
    /\ UNCHANGED <<req, decision, switch, excluded, last_error, next, attempt, lease,
                   captures, tasks, ledger, result, sent, tried, generated, waived,
                   struck>>

(* Fatal and Escalate: no other credential is tried.                       *)
Stop ==
    /\ pc = "wire"
    /\ pc' \in {"refuse", "reject"}
    /\ UNCHANGED <<req, decision, switch, excluded, last_error, next, attempt, lease,
                   captures, tasks, ledger, result, sent, tried, generated, waived,
                   struck>>

(* A streaming client is handed the body as it arrives: the lease, the     *)
(* guard and the row go to the task that pumps it.                         *)
Streaming ==
    /\ pc = "wire" /\ req.stream
    /\ pc' = "over"
    /\ result' = "ok"
    /\ generated' = generated \cup {sent}
    /\ spawn_unserved
    /\ \E gate \in Judgements :
        writer' = Capture("served", IF trigger # None THEN trigger ELSE gate)
    /\ pumping' = TRUE
    /\ lease' = None
    /\ UNCHANGED <<req, decision, switch, excluded, last_error, next, attempt, answer,
                   ledger, sent, tried, waived, struck>>

(* Any other answer is judged. Unusable, and a rung up to try: it is       *)
(* abandoned, its row captured. Otherwise it is the one to serve.          *)
Collected(gate, capped) ==
    /\ pc = "wire" /\ ~req.stream
    /\ generated' = generated \cup {sent}
    /\ IF gate # None /\ should_climb(gate, capped) /\ Viable(rung) # {}
       THEN /\ pc' = "abandon"
            /\ abandoned' = Capture("abandoned", gate)
            /\ UNCHANGED answer
       ELSE /\ pc' = "serve"
            /\ answer' = Capture("served", IF trigger # None THEN trigger ELSE gate)
            /\ UNCHANGED abandoned
    /\ UNCHANGED <<req, decision, switch, excluded, last_error, next, attempt, lease,
                   lost, tasks, ledger, result, sent, tried, waived, struck>>

-----------------------------------------------------------------------------
(* The release is done.                                                    *)

\* The credential that failed may be handed back.
LeaveWithoutExcluding ==
    /\ pc = "leave"
    /\ pc' = "pick"
    /\ switch' = switch + 1
    /\ lease' = None
    /\ UNCHANGED <<req, decision, excluded, last_error, next, attempt, captures, tasks,
                   ledger, result, sent, tried, generated, waived, struck>>

Leave ==
    /\ pc = "leave"
    /\ pc' = "pick"
    /\ switch' = switch + 1
    /\ excluded' = excluded \cup {lease}
    /\ lease' = None
    /\ UNCHANGED <<req, decision, last_error, next, attempt, captures, tasks, ledger,
                   result, sent, tried, generated, waived, struck>>

Refuse ==
    /\ pc = "refuse"
    /\ lease' = None
    /\ ForwardFailed("Fatal")
    /\ UNCHANGED <<req, next, attempt, answer, writer, pumping, ledger, sent, tried,
                   generated, waived>>

(* The model would not take the request: a rung up, or the caller's error. *)
Reject ==
    /\ pc = "reject"
    /\ lease' = None
    /\ \/ /\ should_climb("ContextOverflow", FALSE)
          /\ \E j \in Rungs, p \in Providers :
                Escalate(j, p) /\ Climb(j, p, "ContextOverflow")
          /\ UNCHANGED <<abandoned, lost, unserved, result>>
       \/ /\ ~(should_climb("ContextOverflow", FALSE) /\ Viable(rung) # {})
          /\ Fail("Refused")
    /\ UNCHANGED <<req, next, attempt, answer, writer, pumping, ledger, sent, tried,
                   generated, waived>>

Abandon ==
    /\ pc = "abandon"
    /\ lease' = None
    /\ \E j \in Rungs, p \in Providers, r \in abandoned :
        Escalate(j, p) /\ Climb(j, p, r.gate)
    /\ UNCHANGED <<req, next, attempt, captures, tasks, ledger, result, sent, tried,
                   generated, waived>>

\* The lost answers are left behind.
ServeForgetsLost ==
    /\ pc = "serve"
    /\ pc' = "over"
    /\ result' = "ok"
    /\ lease' = None
    /\ writer' = answer \cup abandoned
    /\ answer' = {} /\ abandoned' = {} /\ lost' = {}
    /\ UNCHANGED <<req, decision, switch, excluded, last_error, next, attempt, unserved,
                   pumping, ledger, sent, tried, generated, waived, struck>>

Serve ==
    /\ pc = "serve"
    /\ pc' = "over"
    /\ result' = "ok"
    /\ lease' = None
    /\ writer' = answer \cup abandoned \cup lost
    /\ answer' = {} /\ abandoned' = {} /\ lost' = {}
    /\ UNCHANGED <<req, decision, switch, excluded, last_error, next, attempt, unserved,
                   pumping, ledger, sent, tried, generated, waived, struck>>

(* The future is dropped with whatever it holds; the lease's Drop gives    *)
(* its seat back (module Slots). Past it, a hang-up reaches only the pump, *)
(* which goes on reading for the accounting.                               *)
HangUp ==
    /\ pc \in Awaits
    /\ pc' = "gone"
    /\ lease' = None
    /\ waived' = waived \cup Ids(Held)
    /\ abandoned' = {} /\ lost' = {} /\ answer' = {}
    /\ UNCHANGED <<req, decision, switch, excluded, last_error, next, attempt, tasks,
                   ledger, result, sent, tried, generated, struck>>

-----------------------------------------------------------------------------
(* The detached tasks.                                                     *)

(* The served row first, then the abandoned one, then the lost ones in the *)
(* order they were lost.                                                   *)
Rank(r) == CASE r.fate = "served" -> 0 [] r.fate = "abandoned" -> 1 [] OTHER -> 2

Precedes(q, r) == Rank(q) < Rank(r) \/ (Rank(q) = Rank(r) /\ q.n < r.n)

First(rows) == {r \in rows : ~\E q \in rows : Precedes(q, r)}

(* INSERT ... ON CONFLICT DO NOTHING on (request_id, attempt), or an error *)
(* that is logged and dropped.                                             *)
record_usage(r) ==
    \/ /\ ledger' = IF \E q \in ledger : q.attempt = r.attempt THEN ledger
                    ELSE ledger \cup {r}
       /\ UNCHANGED waived
    \/ /\ waived' = waived \cup {r.n}
       /\ UNCHANGED ledger

requests == <<req, pc, decision, switch, excluded, last_error, next, attempt, lease,
              captures, result, sent, tried, generated, struck>>

PumpEnds ==
    /\ pumping
    /\ pumping' = FALSE
    /\ UNCHANGED <<requests, unserved, writer, ledger, waived>>

WriteAnswer ==
    /\ ~pumping
    /\ \E r \in First(writer) : record_usage(r) /\ writer' = writer \ {r}
    /\ UNCHANGED <<requests, unserved, pumping>>

WriteUnserved ==
    /\ \E r \in First(unserved) : record_usage(r) /\ unserved' = unserved \ {r}
    /\ UNCHANGED <<requests, writer, pumping>>

-----------------------------------------------------------------------------
Forward ==
    \/ \E a \in Accounts : Lease(a)
    \/ \E e \in Errors : NoLease(e)
    \/ GiveUp
    \/ Switch \/ Lost \/ Raced \/ Stop \/ Streaming
    \/ \E gate \in Judgements, capped \in BOOLEAN : Collected(gate, capped)
    \/ Leave \/ Refuse \/ Reject \/ Abandon \/ Serve

Next == Forward \/ HangUp \/ PumpEnds \/ WriteAnswer \/ WriteUnserved

(* Every await of the future has a deadline or ends by itself, a stream is *)
(* bounded by max_stream_duration, and the runtime runs every task.        *)
Spec ==
    /\ Init /\ [][Next]_vars
    /\ WF_vars(Forward) /\ WF_vars(PumpEnds) /\ WF_vars(WriteAnswer) /\ WF_vars(WriteUnserved)

-----------------------------------------------------------------------------
(* The types: the loops' counters, the ordinals and every row's fields.    *)
TypeOK ==
    /\ req \in Requests
    /\ pc \in Awaits \cup {"over", "gone"}
    /\ rung \in Rungs \cup {0}
    /\ provider \in Providers
    /\ escalations \in 0..MaxEscalations
    /\ trigger \in Gates \cup {None}
    /\ switch \in 0..MaxSwitches + 1
    /\ excluded \subseteq Accounts
    /\ last_error \in Errors
    /\ next \in 0..MaxOrdinal
    /\ attempt \in 0..MaxOrdinal
    /\ lease \in Accounts \cup {None}
    /\ abandoned \subseteq Row /\ lost \subseteq Row /\ answer \subseteq Row
    /\ unserved \subseteq Row /\ writer \subseteq Row /\ pumping \in BOOLEAN
    /\ ledger \subseteq Row
    /\ result \in Errors \cup {"ok", None}
    /\ sent \in Nat
    /\ tried \subseteq (Rungs \cup {0}) \X Accounts
    /\ generated \subseteq Nat
    /\ waived \subseteq Nat
    /\ struck \in BOOLEAN

(* The two loops together send a request a bounded number of times, however*)
(* its credentials fail: "an unbounded retry loop against a provider having*)
(* a bad afternoon is indistinguishable from an attack on it".             *)
SendsBounded == sent <= (MaxSwitches + 1) * (MaxEscalations + 1)

Owed == Held \cup unserved \cup writer

(* The ledger's key is (request_id, attempt) and a conflict is dropped in  *)
(* silence: no two generations of a request ever carry the same attempt,   *)
(* wherever their rows are, and no generation has two rows.                *)
RowsDistinct ==
    /\ \A q, r \in Owed \cup ledger : q.attempt = r.attempt => q.n = r.n
    /\ Ids(Owed) \cap Ids(ledger) = {}

(* A dispatch on a rung always goes to a credential that rung has not yet  *)
(* been tried with, whatever took the request away from the others.        *)
NeverTwiceOnARung == [][sent' # sent => tried' # tried]_vars

(* A request that failed tells its caller what went wrong on the last rung:*)
(* once a credential there has failed for a reason, neither an empty pool  *)
(* nor a raced probe stands in for it.                                     *)
RealErrorKept ==
    result \in {"NoCredential", "ReserveHeld", "Busy"} => ~struck

(* What climb.rs says of its Streaming arm: no attempt of a streamed       *)
(* request is ever captured, so there is nothing for spawn_unserved.       *)
StreamOwesNothing ==
    req.stream => abandoned = {} /\ lost = {} /\ unserved = {}

(* A request sent to a second rung was neither near its budget nor named   *)
(* its model, on both of the paths that climb.                             *)
ClimbsAreLicensed ==
    \A t, u \in tried : t[1] # u[1] => ~req.pressured /\ ~req.passthrough

(* The row of the answer the client got is there before the rows of the    *)
(* attempts that failed to be it.                                          *)
ServedRowFirst ==
    (\E r \in writer : r.fate = "served") => \A r \in ledger : r.fate = "served"

(* Every answer a provider generated gets its row, once, or is let off by  *)
(* a failed write or by the client, as module Billing says.                *)
Bill == INSTANCE Billing WITH
    Dispatches <- 1..(MaxSwitches + 1) * (MaxEscalations + 1),
    owed   <- generated \ (Ids(ledger) \cup waived),
    booked <- Ids(ledger),
    client <- IF pc = "gone" THEN "gone" ELSE "there"

BillsGenerations == Bill!Spec

Settled == pc \in {"over", "gone"} /\ unserved = {} /\ writer = {}

(* The request ends, and when its tasks have, nothing is owed any more.    *)
EverythingSettles == <>[](Settled /\ generated = Ids(ledger) \cup waived)

(* What holds wherever a request stands in its two loops: the types, a     *)
(* bounded number of sends, rows the ledger's key tells apart, the real    *)
(* failure kept for the client, nothing owed for a stream, no climb        *)
(* without a licence, and the served row ahead of the ones it replaced     *)
(* (gateway/failover.rs, climb.rs, meter.rs).                              *)
ForwardingSafe ==
    TypeOK /\ SendsBounded /\ RowsDistinct /\ RealErrorKept
    /\ StreamOwesNothing /\ ClimbsAreLicensed /\ ServedRowFirst

=============================================================================
